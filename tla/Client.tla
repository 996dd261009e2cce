-------------------------------- MODULE Client --------------------------------
(***************************************************************************)
(* The client side of libcsp: tasks that call csp_transaction, with the      *)
(* ephemeral ports of csp_connect, the connection array it shares with every *)
(* other task, and the pool of packet buffers (csp_buffer.c).                *)
(*                                                                         *)
(* All clients talk to one service of one node, so the id under which a       *)
(* reply finds its connection is the ephemeral port.  The clients have equal  *)
(* priority and may be preempted between any two accesses to what they       *)
(* share.  The router has a higher priority (CSP_ROUTER_PRIORITY) and does    *)
(* not wait between looking up a connection and queueing a packet on it: the  *)
(* arrival of a reply is one step.                                           *)
(*                                                                         *)
(* A request is identified by how far the port counter had come, in ports,    *)
(* when its port was chosen; the network may answer a request late, never or  *)
(* several times.                                                            *)
(***************************************************************************)
EXTENDS Integers, Sequences, FiniteSets, Functions

CONSTANTS
    Tasks,           \* the client tasks
    None,            \* no task, buffer or connection
    NConn,           \* CSP_CONN_MAX, the length of arr_conn
    MinPort,         \* CSP_MAX_BIND_PORT + 1, the first ephemeral port
    MaxPort,         \* CSP_ID_PORT_MAX, the last one
    NBuffers,        \* how many buffers the pool has
    RxqLen,          \* CSP_RX_QUEUE_LENGTH
    InterfaceFrees,  \* does the interface free a packet it has sent
    Starts,          \* where csp_conn_init may start the port counter
    NetLen,          \* bound: how many of the latest requests may be answered
    MaxCalls         \* bound: how many transactions are begun

Ports == MinPort .. MaxPort
Conns == 0 .. NConn - 1
Buffers == 1 .. NBuffers
NPorts == MaxPort - MinPort + 1

(* With fewer than two ports to spare the search of csp_connect may run for   *)
(* ever: if the counter starts at MinPort, the comparison with it is passed by  *)
(* when the counter wraps.                                                  *)
ASSUME ClientAssumption ==
    /\ None \notin Tasks \union Conns \union (1 .. NBuffers)
    /\ NConn \in Nat \ {0}
    /\ MinPort \in Nat /\ MaxPort \in Nat /\ MinPort <= MaxPort /\ MaxPort < 255
    /\ NConn + 2 <= NPorts
    /\ NBuffers \in Nat \ {0}
    /\ RxqLen \in Nat \ {0}
    /\ InterfaceFrees \in BOOLEAN
    /\ Starts \subseteq Ports
    /\ NetLen \in Nat /\ MaxCalls \in Nat

VARIABLES
    calls,      \* how many transactions have been begun
    pc,         \* where each task is
    start,      \* csp_connect: the local variable start
    req,        \* the request of each task's transaction
    conn,       \* its local variable conn: an index of arr_conn
    packet,     \* its local variable packet: a buffer
    reply,      \* the request whose reply it has returned
    sport,      \* the port counter sport
    walked,     \* history: how far the counter has come, counting its ports from 1
    blind,      \* history: the pairs of requests whose ports were chosen unseen
    sport_lock, \* holder of the semaphore
    conn_lock,  \* holder of the semaphore
    state,      \* conn->state
    id,         \* conn->idin: the request that gave the connection its port
    rxq,        \* conn->rx_queue[0]: buffers
    lastGiven,  \* csp_conn_last_given
    refcount,   \* buf->refcount; csp_buffers holds the buffers where it is 0
    content,    \* what a buffer holds: the request it carries or answers
    wire,       \* the buffers the interface is sending from
    sent        \* the requests that have left and may be answered

locals   == <<start, req, conn, packet, reply>>
portVars == <<sport, walked, blind>>
lockVars == <<sport_lock, conn_lock>>
connVars == <<state, id, rxq, lastGiven>>
poolVars == <<refcount, content, wire>>
vars == <<calls, pc, start, req, conn, packet, reply, sport, walked, blind, sport_lock,
          conn_lock, state, id, rxq, lastGiven, refcount, content, wire, sent>>

(* A request: when its port was chosen, and the port.                         *)
NoRequest == [no |-> 0, port |-> 0]
Requests == [no : Nat, port : Ports] \union {NoRequest}

PCs == {"idle", "search", "chosen", "connLock", "open", "setId",
        "flush", "get", "send", "read", "close", "closing"}

TypeOK ==
    /\ calls \in 0 .. MaxCalls
    /\ pc \in [Tasks -> PCs]
    /\ start \in [Tasks -> Ports]
    /\ req \in [Tasks -> Requests]
    /\ conn \in [Tasks -> Conns \union {None}]
    /\ packet \in [Tasks -> Buffers \union {None}]
    /\ reply \in [Tasks -> Requests]
    /\ sport \in Ports /\ walked \in Nat \ {0}
    /\ blind \subseteq SUBSET Nat
    /\ sport_lock \in Tasks \union {None} /\ conn_lock \in Tasks \union {None}
    /\ state \in [Conns -> {"CLOSED", "OPEN"}]
    /\ id \in [Conns -> Requests]
    /\ rxq \in [Conns -> Seq(Buffers)] /\ \A c \in Conns : Len(rxq[c]) <= RxqLen
    /\ lastGiven \in Conns
    /\ refcount \in [Buffers -> Nat]
    /\ content \in [Buffers -> Requests]
    /\ wire \subseteq Buffers
    /\ sent \subseteq Requests

Init ==
    /\ calls = 0
    /\ pc = [t \in Tasks |-> "idle"]
    /\ start = [t \in Tasks |-> MinPort]
    /\ req = [t \in Tasks |-> NoRequest]
    /\ conn = [t \in Tasks |-> None]
    /\ packet = [t \in Tasks |-> None]
    /\ reply = [t \in Tasks |-> NoRequest]
    /\ sport \in Starts
    /\ walked = 1
    /\ blind = {}
    /\ sport_lock = None /\ conn_lock = None
    /\ state = [c \in Conns |-> "CLOSED"]
    /\ id = [c \in Conns |-> NoRequest]
    /\ rxq = [c \in Conns |-> <<>>]
    /\ lastGiven = 0
    /\ refcount = [b \in Buffers |-> 0]
    /\ content = [b \in Buffers |-> NoRequest]
    /\ wire = {}
    /\ sent = {}

Goto(t, label) == pc' = [pc EXCEPT ![t] = label]

(* The transaction of t is over; its local variables are gone.               *)
Returned(t) ==
    /\ Goto(t, "idle")
    /\ start' = [start EXCEPT ![t] = MinPort]
    /\ req' = [req EXCEPT ![t] = NoRequest]
    /\ conn' = [conn EXCEPT ![t] = None]
    /\ packet' = [packet EXCEPT ![t] = None]
    /\ reply' = [reply EXCEPT ![t] = NoRequest]

-----------------------------------------------------------------------------
(* csp_buffer.c.                                                             *)

(* Buffers are alike: which free one csp_buffer_get takes does not matter,    *)
(* here it is the first.                                                     *)
Free == {b \in Buffers : refcount[b] = 0}
IsNext(b) == b \in Free /\ \A a \in Free : b <= a

Got(b, what) ==
    /\ IsNext(b)
    /\ refcount' = [refcount EXCEPT ![b] = @ + 1]
    /\ content' = [content EXCEPT ![b] = what]

(* csp_buffer_free of the buffers bs, which leaves a free buffer alone.  What *)
(* a free buffer holds is forgotten.                                         *)
Freed(bs) ==
    /\ refcount' = [b \in Buffers |-> IF b \in bs \ Free THEN refcount[b] - 1 ELSE refcount[b]]
    /\ content' = [b \in Buffers |-> IF b \in bs THEN NoRequest ELSE content[b]]

-----------------------------------------------------------------------------
(* csp_connect.                                                              *)

(* After a second without the lock csp_transaction returns, and has changed    *)
(* nothing.                                                                  *)
SportLock(t) ==
    /\ pc[t] = "idle"
    /\ calls < MaxCalls
    /\ calls' = calls + 1
    /\ sport_lock = None
    /\ sport_lock' = t
    /\ start' = [start EXCEPT ![t] = sport]
    /\ Goto(t, "search")
    /\ UNCHANGED <<req, conn, packet, reply, portVars, conn_lock, connVars, poolVars, sent>>

(* csp_conn_find with the mask of the destination port.                      *)
TakenAmong(cs, port) == \E c \in cs : state[c] = "OPEN" /\ id[c].port = port

(* Mutant: the last connection is not looked at.                              *)
TakenShort(port) == TakenAmong(0 .. NConn - 2, port)

Taken(port) == TakenAmong(Conns, port)

(* Mutant: the wrap is tested one too late.                                   *)
NextPortLate(port) == IF port > MaxPort THEN MinPort ELSE port + 1

NextPort(port) == IF port = MaxPort THEN MinPort ELSE port + 1

(* One turn of the loop.  It ends when the counter is back at start, which    *)
(* is compared before the counter wraps and leaves the port tried last in the  *)
(* new ids, or at a port that is not taken.                                   *)
Search(t) ==
    /\ pc[t] = "search"
    /\ LET exhausted == sport + 1 = start[t]
           port == NextPort(sport)
           hidden == {req[u].no : u \in {v \in Tasks \ {t} :
                        pc[v] \in {"chosen", "connLock", "open", "setId"}}}
           far == walked + 1
           new == IF exhausted THEN [no |-> walked, port |-> sport]
                  ELSE [no |-> far, port |-> port]
       IN /\ sport' = port
          /\ walked' = far
          /\ IF exhausted \/ ~Taken(port)
             THEN /\ sport_lock' = None
                  /\ Goto(t, "chosen")
                  /\ req' = [req EXCEPT ![t] = new]
                  /\ blind' = {pair \in blind : pair \subseteq {id[c].no : c \in Conns} \union hidden}
                               \union {{new.no, no} : no \in hidden}
             ELSE UNCHANGED <<sport_lock, pc, req, blind>>
    /\ UNCHANGED <<calls, start, conn, packet, reply, conn_lock, connVars, poolVars, sent>>

(* Whether the search failed is read off the counter after the lock has been  *)
(* given back.                                                               *)
Chosen(t) ==
    /\ pc[t] = "chosen"
    /\ IF sport = start[t]
       THEN Returned(t)
       ELSE /\ Goto(t, "connLock")
            /\ start' = [start EXCEPT ![t] = MinPort]
            /\ UNCHANGED <<req, conn, packet, reply>>
    /\ UNCHANGED <<calls, portVars, lockVars, connVars, poolVars, sent>>

-----------------------------------------------------------------------------
(* csp_conn_new and csp_conn_allocate.                                       *)

(* The first closed connection after the one given last, in turn.             *)
NextClosed(c) ==
    \E k \in 1 .. NConn :
        /\ c = (lastGiven + k) % NConn
        /\ state[c] = "CLOSED"
        /\ \A j \in 1 .. k - 1 : state[(lastGiven + j) % NConn] = "OPEN"

(* With conn_lock taken nobody else changes a state: finding the connection   *)
(* is one step with taking the lock, opening it and giving the lock back      *)
(* another.                                                                  *)
AllocateFind(t) ==
    /\ pc[t] = "connLock"
    /\ conn_lock = None
    /\ \E c \in Conns :
        /\ NextClosed(c)
        /\ conn' = [conn EXCEPT ![t] = c]
    /\ conn_lock' = t
    /\ Goto(t, "open")
    /\ UNCHANGED <<calls, start, req, packet, reply, portVars, sport_lock, connVars, poolVars,
                   sent>>

AllocateNone(t) ==
    /\ pc[t] = "connLock"
    /\ conn_lock = None
    /\ \A c \in Conns : state[c] = "OPEN"
    /\ Returned(t)
    /\ UNCHANGED <<calls, portVars, lockVars, connVars, poolVars, sent>>

(* Mutant: allocation goes on without the lock.                               *)
AllocateRegardless(t) ==
    /\ pc[t] = "connLock"
    /\ conn_lock # None
    /\ \E c \in Conns :
        /\ NextClosed(c)
        /\ conn' = [conn EXCEPT ![t] = c]
    /\ Goto(t, "open")
    /\ UNCHANGED <<calls, start, req, packet, reply, portVars, lockVars, connVars, poolVars, sent>>

AllocateTimeout(t) ==
    /\ pc[t] = "connLock"
    /\ conn_lock # None
    /\ Returned(t)
    /\ UNCHANGED <<calls, portVars, lockVars, connVars, poolVars, sent>>

AllocateOpen(t) ==
    /\ pc[t] = "open"
    /\ state' = [state EXCEPT ![conn[t]] = "OPEN"]
    /\ lastGiven' = conn[t]
    /\ conn_lock' = None
    /\ Goto(t, "setId")
    /\ UNCHANGED <<calls, locals, portVars, sport_lock, id, rxq, poolVars, sent>>

NewId(t) ==
    /\ pc[t] = "setId"
    /\ id' = [id EXCEPT ![conn[t]] = req[t]]
    /\ Goto(t, "flush")
    /\ UNCHANGED <<calls, locals, portVars, lockVars, state, rxq, lastGiven, poolVars,
                   sent>>

(* csp_conn_flush_rx_queue: whatever was queued under an earlier id.          *)
Flush(t) ==
    /\ Freed(Range(rxq[conn[t]]))
    /\ rxq' = [rxq EXCEPT ![conn[t]] = <<>>]
    /\ UNCHANGED <<calls, locals, portVars, sport_lock, id, lastGiven, wire, sent>>

(* Mutant: the queue is not emptied.                                          *)
NewFlushNot(t) ==
    /\ pc[t] = "flush"
    /\ Goto(t, "get")
    /\ UNCHANGED <<calls, locals, portVars, lockVars, connVars, poolVars, sent>>

NewFlush(t) ==
    /\ pc[t] = "flush"
    /\ Goto(t, "get")
    /\ Flush(t)
    /\ UNCHANGED <<conn_lock, state>>

-----------------------------------------------------------------------------
(* csp_transaction_persistent.  csp_send and csp_read find the connection     *)
(* OPEN: only its owner closes it.                                           *)

GetBuffer(t) ==
    /\ pc[t] = "get"
    /\ \E b \in Buffers :
        /\ Got(b, req[t])
        /\ packet' = [packet EXCEPT ![t] = b]
    /\ Goto(t, "send")
    /\ UNCHANGED <<calls, start, req, conn, reply, portVars, lockVars, connVars, wire, sent>>

(* It gets none when there is none, and whatever the pool holds when the       *)
(* packet is too large for its buffers.                                       *)
GetNone(t) ==
    /\ pc[t] = "get"
    /\ Goto(t, "close")
    /\ UNCHANGED <<calls, locals, portVars, lockVars, connVars, poolVars, sent>>

(* The interface takes the packet, and frees it when it has been sent, or     *)
(* does not; a reply is waited for unless inlen is 0.                         *)
SendTo(t, expected, back) ==
    /\ pc[t] = "send"
    /\ sent' = LET all == sent \union {content[packet[t]]}
                IN {r \in all : Cardinality({q \in all : q.no > r.no}) < NetLen}
    /\ wire' = IF InterfaceFrees THEN wire \union {packet[t]} ELSE wire
    /\ IF back = {}
       THEN /\ content' = [content EXCEPT ![packet[t]] = NoRequest]
            /\ UNCHANGED refcount
       ELSE Freed(back)
    /\ packet' = [packet EXCEPT ![t] = None]
    /\ Goto(t, IF expected THEN "read" ELSE "close")
    /\ UNCHANGED <<calls, start, req, conn, reply, portVars, lockVars, connVars>>

(* Mutant: the packet is freed after it has been sent, too.                   *)
SendFree(t, expected) == SendTo(t, expected, {packet[t]})

Send(t, expected) == SendTo(t, expected, {})

(* No route, too long, or the interface refused: the caller frees the packet. *)
SendFailed(t) ==
    /\ pc[t] = "send"
    /\ Freed({packet[t]})
    /\ packet' = [packet EXCEPT ![t] = None]
    /\ Goto(t, "close")
    /\ UNCHANGED <<calls, start, req, conn, reply, portVars, lockVars, connVars, wire,
                   sent>>

(* csp_read: the packet is copied, if it has the length expected, and freed.  *)
Read(t, fits) ==
    /\ pc[t] = "read"
    /\ rxq[conn[t]] # <<>>
    /\ LET b == Head(rxq[conn[t]])
       IN /\ reply' = [reply EXCEPT ![t] = IF fits THEN content[b] ELSE NoRequest]
          /\ Freed({b})
    /\ rxq' = [rxq EXCEPT ![conn[t]] = Tail(@)]
    /\ Goto(t, "close")
    /\ UNCHANGED <<calls, start, req, conn, packet, portVars, lockVars, state, id,
                   lastGiven, wire, sent>>

(* Mutant: the read is repeated until there is a reply.                       *)
ReadAgain(t) ==
    /\ pc[t] = "read"
    /\ rxq[conn[t]] = <<>>
    /\ UNCHANGED vars

ReadTimeout(t) ==
    /\ pc[t] = "read"
    /\ rxq[conn[t]] = <<>>
    /\ Goto(t, "close")
    /\ UNCHANGED <<calls, locals, portVars, lockVars, connVars, poolVars, sent>>

-----------------------------------------------------------------------------
(* csp_close, whose result csp_transaction ignores.                          *)

CloseLock(t) ==
    /\ pc[t] = "close"
    /\ conn_lock = None
    /\ conn_lock' = t
    /\ Goto(t, "closing")
    /\ UNCHANGED <<calls, locals, portVars, sport_lock, connVars, poolVars, sent>>

(* The connection stays OPEN for ever.                                        *)
CloseTimeout(t) ==
    /\ pc[t] = "close"
    /\ conn_lock # None
    /\ Returned(t)
    /\ UNCHANGED <<calls, portVars, lockVars, connVars, poolVars, sent>>

(* CLOSED, then flushed: the router queues nothing on it any more.  The id     *)
(* stays, though its history no longer matters.                              *)
Closed(t, flushed) ==
    /\ pc[t] = "closing"
    /\ state' = [state EXCEPT ![conn[t]] = "CLOSED"]
    /\ Freed(Range(flushed))
    /\ rxq' = [rxq EXCEPT ![conn[t]] = <<>>]
    /\ conn_lock' = None
    /\ Returned(t)
    /\ id' = [id EXCEPT ![conn[t]].no = 0]
    /\ UNCHANGED <<calls, portVars, sport_lock, lastGiven, wire, sent>>

(* Mutant: the packets are taken off the queue and not freed.                 *)
CloseDrop(t) == Closed(t, <<>>)

Close(t) == Closed(t, rxq[conn[t]])

-----------------------------------------------------------------------------
(* The interface and the router.                                             *)

(* csp_buffer_free_isr, when the packet has been sent.                        *)
Transmitted(b) ==
    /\ b \in wire
    /\ wire' = wire \ {b}
    /\ Freed({b})
    /\ UNCHANGED <<calls, pc, locals, portVars, lockVars, connVars, sent>>

(* A reply to r arrives in a buffer of the pool and the router queues it on   *)
(* the first connection with its id.  Without a free buffer, without such a   *)
(* connection (no socket is bound to an ephemeral port) or with its queue     *)
(* full the reply is dropped, and nothing changes.                           *)
Matching(r) == {c \in Conns : state[c] = "OPEN" /\ id[c].port = r.port}

Arrive(r) ==
    /\ \E c \in Matching(r), b \in Buffers :
        /\ \A d \in Matching(r) : c <= d
        /\ Len(rxq[c]) < RxqLen
        /\ Got(b, r)
        /\ rxq' = [rxq EXCEPT ![c] = Append(@, b)]
    /\ UNCHANGED <<calls, pc, locals, portVars, lockVars, state, id, lastGiven, wire, sent>>

-----------------------------------------------------------------------------
Step(t) ==
    \/ Search(t) \/ Chosen(t)
    \/ AllocateFind(t) \/ AllocateNone(t) \/ AllocateTimeout(t)
    \/ AllocateOpen(t) \/ NewId(t) \/ NewFlush(t)
    \/ GetBuffer(t) \/ GetNone(t) \/ SendFailed(t) \/ ReadTimeout(t)
    \/ \E yes \in BOOLEAN : Send(t, yes) \/ Read(t, yes)
    \/ CloseLock(t) \/ CloseTimeout(t) \/ Close(t)

(* All the transactions of the bound are over, and nothing more arrives.      *)
Idle ==
    /\ calls = MaxCalls /\ \A t \in Tasks : pc[t] = "idle"
    /\ UNCHANGED vars

Next ==
    \/ \E t \in Tasks : SportLock(t) \/ Step(t)
    \/ \E b \in wire : Transmitted(b)
    \/ \E r \in sent : Arrive(r)
    \/ Idle

Spec == Init /\ [][Next]_vars

(* Equal priorities share the processor in turn, and every wait is bounded.   *)
FairSpec == Spec /\ \A t \in Tasks : WF_vars(Step(t))

-----------------------------------------------------------------------------
(* No two transactions work on the same connection, though conn_lock is only  *)
(* held while the array is searched and a wait for it may time out.           *)
OwnedOnce ==
    \A t \in Tasks : \A u \in Tasks \ {t} : conn[t] # None => conn[t] # conn[u]

(* Every buffer of the pool is in one place: free, in the hands of a task,    *)
(* queued on a connection, or being sent.  None is lost whatever fails or     *)
(* times out, and none is free while it is in use.                            *)
Places(b) ==
    {<<"free", 0>> : f \in Free \intersect {b}}
    \union {<<"packet", t>> : t \in {u \in Tasks : packet[u] = b}}
    \union {<<"wire", 0>> : w \in wire \intersect {b}}
    \union UNION {{<<"rxq", c, i>> : i \in {j \in DOMAIN rxq[c] : rxq[c][j] = b}} : c \in Conns}

OnePlace == \A b \in Buffers : Cardinality(Places(b)) = 1

(* csp_transaction returns the reply to its own request, unless the port      *)
(* counter has come round since the other request took the same port: not     *)
(* even a reply that arrives while the connection, open already, still has    *)
(* the id of its previous user.                                              *)
Apart(r, s) == r.no - s.no >= NPorts \/ s.no - r.no >= NPorts
RightReply ==
    \A t \in Tasks : reply[t] # NoRequest => reply[t] = req[t] \/ Apart(reply[t], req[t])

(* csp_connect gives the port lock back before arr_conn shows the port.  Even *)
(* so two open connections have the same port only if the counter has come    *)
(* round while the first client was still on its way to csp_conn_new.         *)
Shown(c) == state[c] = "OPEN" /\ \A t \in Tasks : conn[t] = c => pc[t] # "setId"
PortsDistinct ==
    \A c, d \in {x \in Conns : Shown(x)} :
        c # d /\ id[c].port = id[d].port =>
            /\ Apart(id[c], id[d])
            /\ {id[c].no, id[d].no} \in blind

(* Every transaction ends, whatever the network and the other clients do: once *)
(* no more are begun, every client has its result and stays idle.             *)
TransactionsEnd == <>[](\A t \in Tasks : pc[t] = "idle")
=============================================================================
