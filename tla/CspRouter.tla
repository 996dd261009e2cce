------------------------------ MODULE CspRouter ------------------------------
(***************************************************************************)
(* The receive path of libcsp as the HM board builds it (no RDP, no QoS):   *)
(* csp_new_packet, called from the I2C slave interrupt, feeds the router    *)
(* FIFO; the router task looks up or opens a connection, queues the packet  *)
(* on it and posts the connection to the listening socket; cspTask accepts  *)
(* the connection, reads it dry and closes it.  Router and cspTask share    *)
(* the connection array and its semaphore conn_lock.                        *)
(*                                                                         *)
(* One step is what a task does between two accesses to state another task  *)
(* can see, so with equal priorities every preemption point is there; with  *)
(* the configured priorities (RouterPriority = 1, cspTask 0) cspTask steps  *)
(* only while the router is blocked, as FreeRTOS schedules it.              *)
(*                                                                         *)
(* A frame is its arrival number; hdr holds what the code looks at in it.   *)
(* It is taken to keep its content until it is freed, though in the code its *)
(* memory is a local variable of the interrupt (csp_interface.c:24).         *)
(***************************************************************************)
EXTENDS Integers, Sequences, Functions

CONSTANTS
    NConn,           \* CSP_CONN_MAX, the length of arr_conn
    FifoLen,         \* CSP_FIFO_INPUT, the length of router_input_fifo
    RxqLen,          \* CSP_RX_QUEUE_LENGTH, the length of each conn->rx_queue
    Backlog,         \* the backlog cspTask passes to csp_listen
    Keys,            \* the (src, dst, sport, dport) of a frame, CSP_ID_CONN_MASK
    EphemeralKeys,   \* those whose dport is above CSP_ANY: no socket takes them
    NoKey,           \* the zero id of a connection never used
    Kinds,           \* the kinds of frame that arrive
    RouterPriority,  \* CSP_ROUTER_PRIORITY
    EarlyTraffic,    \* may a frame arrive before cspTask has called csp_listen
    MaxFrames        \* bound: how many frames arrive

AllKinds == {"plain",     \* no transport flag, passes the security check
             "rdp",       \* CSP_FRDP set: compiled without RDP
             "rejected",  \* csp_route_security_check fails (CRC, XTEA, HMAC)
             "returning", \* its destination is reached by the interface it came by
            "foreign"}   \* for another node, which the default route leads to

ASSUME RouterAssumption ==
    /\ NConn \in Nat \ {0}
    /\ FifoLen \in Nat \ {0}
    /\ RxqLen \in Nat \ {0}
    /\ Backlog \in Nat \ {0}
    /\ EphemeralKeys \subseteq Keys
    /\ NoKey \notin Keys
    /\ Kinds \subseteq AllKinds
    /\ RouterPriority \in {0, 1}
    /\ EarlyTraffic \in BOOLEAN
    /\ MaxFrames \in Nat

Conns == 0 .. NConn - 1
Frames == 1 .. MaxFrames
Looped == 0   \* in the FIFO: a frame for another node, back from the loopback
Tasks == {"router", "server"}

VARIABLES
    sent,       \* how many frames have arrived
    hdr,        \* [Frames -> header]: the frame's key and kind
    fifo,       \* router_input_fifo[0]
    state,      \* conn->state
    type,       \* conn->type
    idin,       \* conn->idin under CSP_ID_CONN_MASK
    toPost,     \* conn->socket # NULL: still to be posted to its socket
    rxq,        \* conn->rx_queue[0]
    lastGiven,  \* csp_conn_last_given
    connLock,   \* holder of conn_lock, or "free"
    backlog,    \* sock->socket: connections waiting to be accepted
    pc,         \* where each task is
    conn,       \* the local variable conn of each task
    packet,     \* the local variable packet of the router
    delivered   \* history: the frames csp_read returned, in order

chanVars == <<sent, hdr, fifo, packet>>
connVars == <<state, type, idin, toPost, rxq, lastGiven>>
vars == <<sent, hdr, fifo, state, type, idin, toPost, rxq, lastGiven,
          connLock, backlog, pc, conn, packet, delivered>>

Headers == [key : Keys \union {NoKey}, kind : AllKinds]

RouterPCs == {"next", "loopback", "find", "lockWait", "allocate", "connNew", "transport",
              "post", "posted"}
ServerPCs == {"socket", "bind", "listen", "accept", "read"}
ClosePCs  == {"close", "closeWait", "closing", "flush"}

TypeOK ==
    /\ sent \in 0 .. MaxFrames
    /\ hdr \in [Frames -> Headers]
    /\ fifo \in Seq(Frames \union {Looped}) /\ Len(fifo) <= FifoLen
    /\ state \in [Conns -> {"OPEN", "CLOSED"}]
    /\ type \in [Conns -> {"CLIENT", "SERVER"}]
    /\ idin \in [Conns -> Keys \union {NoKey}]
    /\ toPost \in [Conns -> BOOLEAN]
    /\ rxq \in [Conns -> Seq(Frames)] /\ \A c \in Conns : Len(rxq[c]) <= RxqLen
    /\ lastGiven \in Conns
    /\ connLock \in Tasks \union {"free"}
    /\ backlog \in Seq(Conns) /\ Len(backlog) <= Backlog
    /\ pc \in [Tasks -> RouterPCs \union ServerPCs \union ClosePCs]
    /\ pc["router"] \notin ServerPCs
    /\ pc["server"] \notin RouterPCs
    /\ conn \in [Tasks -> Conns]
    /\ packet \in 0 .. MaxFrames
    /\ pc["router"] # "next" => packet \in Frames
    /\ delivered \in Seq(Frames)

-----------------------------------------------------------------------------
(* What csp_init and csp_route_start_task leave behind: every connection     *)
(* closed, every queue empty, the router waiting, cspTask not yet run.       *)

Init ==
    /\ sent = 0
    /\ hdr = [n \in Frames |-> [key |-> NoKey, kind |-> "plain"]]
    /\ fifo = <<>>
    /\ state = [c \in Conns |-> "CLOSED"]
    /\ type = [c \in Conns |-> "CLIENT"]
    /\ idin = [c \in Conns |-> NoKey]
    /\ toPost = [c \in Conns |-> FALSE]
    /\ rxq = [c \in Conns |-> <<>>]
    /\ lastGiven = 0
    /\ connLock = "free"
    /\ backlog = <<>>
    /\ pc = [router |-> "next", server |-> "socket"]
    /\ conn = [t \in Tasks |-> 0]
    /\ packet = 0
    /\ delivered = <<>>

Goto(t, l) == pc' = [pc EXCEPT ![t] = l]

(* csp_port_get_socket: every port up to CSP_ANY falls back to the socket     *)
(* cspTask bound to CSP_ANY; a port above it has no socket.                   *)
SocketFor(n) == /\ pc["server"] \notin {"socket", "bind"}
                /\ hdr[n].key \notin EphemeralKeys

(* sock->socket exists once csp_listen has created the queue.                 *)
Listening == pc["server"] \notin {"socket", "bind", "listen"}

(* FreeRTOS runs the ready task of highest priority: cspTask gets the CPU     *)
(* when the router is blocked on its empty FIFO or on conn_lock.              *)
RouterBlocked ==
    \/ pc["router"] = "next" /\ fifo = <<>>
    \/ pc["router"] \in {"lockWait", "closeWait"} /\ connLock # "free"

ServerMayRun == RouterPriority > 0 => RouterBlocked

-----------------------------------------------------------------------------
(* Mutant: the frame is queued without looking whether the FIFO is full.      *)
NewPacketUnbounded(k, kind) ==
    /\ sent < MaxFrames
    /\ EarlyTraffic \/ Listening
    /\ sent' = sent + 1
    /\ hdr' = [hdr EXCEPT ![sent + 1] = [key |-> k, kind |-> kind]]
    /\ fifo' = Append(fifo, sent + 1)
    /\ UNCHANGED <<connVars, connLock, backlog, pc, conn, packet, delivered>>

(* csp_new_packet: the interrupt appends the frame, or drops it when the      *)
(* FIFO is full.                                                              *)
NewPacket(k, kind) ==
    /\ sent < MaxFrames
    /\ EarlyTraffic \/ Listening
    /\ sent' = sent + 1
    /\ hdr' = [hdr EXCEPT ![sent + 1] = [key |-> k, kind |-> kind]]
    /\ fifo' = IF Len(fifo) < FifoLen THEN Append(fifo, sent + 1) ELSE fifo
    /\ UNCHANGED <<connVars, connLock, backlog, pc, conn, packet, delivered>>

(* csp_task_router: take the next packet.  One that would leave by the          *)
(* interface it came in by is freed (split horizon).                          *)
NextPacket ==
    /\ pc["router"] = "next"
    /\ fifo # <<>> /\ Head(fifo) # Looped
    /\ packet' = Head(fifo)
    /\ fifo' = Tail(fifo)
    /\ Goto("router", CASE hdr[Head(fifo)].kind = "foreign"   -> "loopback"
                        [] hdr[Head(fifo)].kind = "returning" -> "next"
                        [] OTHER                              -> "find")
    /\ UNCHANGED <<sent, hdr, connVars, connLock, backlog, conn, delivered>>

(* One for a node without a route of its own takes the default route, to the    *)
(* loopback, which queues it once more, or drops it when the FIFO is full ...    *)
Loopback ==
    /\ pc["router"] = "loopback"
    /\ fifo' = IF Len(fifo) < FifoLen THEN Append(fifo, Looped) ELSE fifo
    /\ Goto("router", "next")
    /\ UNCHANGED <<sent, hdr, packet, connVars, connLock, backlog, conn, delivered>>

(* ... and when it comes round, its interface is the loopback: it is freed.     *)
NextLooped ==
    /\ pc["router"] = "next"
    /\ fifo # <<>> /\ Head(fifo) = Looped
    /\ fifo' = Tail(fifo)
    /\ UNCHANGED <<sent, hdr, packet, connVars, connLock, backlog, pc, conn, delivered>>

(* csp_conn_find *)
Matching(n) == {c \in Conns : /\ state[c] # "CLOSED"
                              /\ type[c] = "CLIENT"
                              /\ idin[c] = hdr[n].key}

FindExisting(c) ==
    /\ pc["router"] = "find"
    /\ c \in Matching(packet)
    /\ \A d \in Matching(packet) : c <= d
    /\ conn' = [conn EXCEPT !["router"] = c]
    /\ Goto("router", IF hdr[packet].kind = "rejected" THEN "next" ELSE "transport")
    /\ UNCHANGED <<chanVars, connVars, connLock, backlog, delivered>>

FindNone ==
    /\ pc["router"] = "find"
    /\ Matching(packet) = {}
    /\ Goto("router", IF SocketFor(packet) /\ hdr[packet].kind # "rejected"
                      THEN "lockWait" ELSE "next")
    /\ UNCHANGED <<chanVars, connVars, connLock, backlog, conn, delivered>>

(* csp_conn_allocate: wait for conn_lock, at most 100 ms                      *)
AllocateLock ==
    /\ pc["router"] = "lockWait"
    /\ connLock = "free"
    /\ connLock' = "router"
    /\ Goto("router", "allocate")
    /\ UNCHANGED <<chanVars, connVars, backlog, conn, delivered>>

AllocateTimeout ==
    /\ pc["router"] = "lockWait"
    /\ connLock # "free"
    /\ Goto("router", "next")
    /\ UNCHANGED <<chanVars, connVars, connLock, backlog, conn, delivered>>

(* The first closed connection after csp_conn_last_given, going round.        *)
NextFree(c) ==
    \E j \in 1 .. NConn :
        /\ c = (lastGiven + j) % NConn
        /\ state[c] = "CLOSED"
        /\ \A i \in 1 .. j - 1 : state[(lastGiven + i) % NConn] # "CLOSED"

Take(c, ty) ==
    /\ NextFree(c)
    /\ state' = [state EXCEPT ![c] = "OPEN"]
    /\ type' = [type EXCEPT ![c] = ty]
    /\ toPost' = [toPost EXCEPT ![c] = FALSE]
    /\ lastGiven' = c
    /\ UNCHANGED <<idin, rxq>>

Allocate(c) ==
    /\ pc["router"] = "allocate"
    /\ Take(c, "CLIENT")
    /\ connLock' = "free"
    /\ conn' = [conn EXCEPT !["router"] = c]
    /\ Goto("router", "connNew")
    /\ UNCHANGED <<chanVars, backlog, delivered>>

AllocateNone ==
    /\ pc["router"] = "allocate"
    /\ \A c \in Conns : state[c] # "CLOSED"
    /\ connLock' = "free"
    /\ Goto("router", "next")
    /\ UNCHANGED <<chanVars, connVars, backlog, conn, delivered>>

(* Mutant: csp_conn_new does not flush the receive queue.                     *)
ConnNewNoFlush ==
    /\ pc["router"] = "connNew"
    /\ idin' = [idin EXCEPT ![conn["router"]] = hdr[packet].key]
    /\ toPost' = [toPost EXCEPT ![conn["router"]] = Listening]
    /\ Goto("router", "transport")
    /\ UNCHANGED <<chanVars, state, type, rxq, lastGiven, connLock, backlog, conn,
                   delivered>>

(* The rest of csp_conn_new, outside the lock: set the id and flush the       *)
(* receive queue; then csp_task_router stores the socket's queue, which is    *)
(* still NULL between csp_bind and csp_listen.                                *)
ConnNew ==
    /\ pc["router"] = "connNew"
    /\ idin' = [idin EXCEPT ![conn["router"]] = hdr[packet].key]
    /\ rxq' = [rxq EXCEPT ![conn["router"]] = <<>>]
    /\ toPost' = [toPost EXCEPT ![conn["router"]] = Listening]
    /\ Goto("router", "transport")
    /\ UNCHANGED <<chanVars, state, type, lastGiven, connLock, backlog, conn,
                   delivered>>

(* Hand the packet to its transport: RDP is not compiled in, so such a packet *)
(* is freed; csp_udp_new_packet queues the others, or frees on a full queue.  *)
Transport ==
    LET c == conn["router"]
        room == Len(rxq[c]) < RxqLen /\ hdr[packet].kind # "rdp"
    IN  /\ pc["router"] = "transport"
        /\ rxq' = IF room THEN [rxq EXCEPT ![c] = Append(@, packet)] ELSE rxq
        /\ Goto("router", IF room THEN "post" ELSE "next")
        /\ UNCHANGED <<chanVars, state, type, idin, toPost, lastGiven, connLock,
                       backlog, conn, delivered>>

(* Mutant: a connection the socket's queue has no room for is not closed.     *)
PostNoClose ==
    LET c == conn["router"]
    IN  /\ pc["router"] = "post"
        /\ IF toPost[c] /\ Len(backlog) < Backlog
           THEN backlog' = Append(backlog, c) /\ Goto("router", "posted")
           ELSE backlog' = backlog /\ Goto("router", "next")
        /\ UNCHANGED <<chanVars, connVars, connLock, conn, delivered>>

(* The rest of csp_udp_new_packet: post a connection that is not posted yet;  *)
(* when the socket's queue is full, csp_close it.                             *)
Post ==
    LET c == conn["router"]
    IN  /\ pc["router"] = "post"
        /\ IF toPost[c] /\ Len(backlog) < Backlog
           THEN backlog' = Append(backlog, c) /\ Goto("router", "posted")
           ELSE /\ backlog' = backlog
                /\ Goto("router", IF toPost[c] THEN "close" ELSE "next")
        /\ UNCHANGED <<chanVars, connVars, connLock, conn, delivered>>

(* Mutant: conn->socket is not cleared, so the next packet posts it again.    *)
PostedKeep ==
    /\ pc["router"] = "posted"
    /\ Goto("router", "next")
    /\ UNCHANGED <<chanVars, connVars, connLock, backlog, conn, delivered>>

(* conn->socket = NULL: this connection will not be posted again.             *)
Posted ==
    /\ pc["router"] = "posted"
    /\ toPost' = [toPost EXCEPT ![conn["router"]] = FALSE]
    /\ Goto("router", "next")
    /\ UNCHANGED <<chanVars, state, type, idin, rxq, lastGiven, connLock,
                   backlog, conn, delivered>>

-----------------------------------------------------------------------------
(* csp_close, as called by the router (socket queue full) and by cspTask.     *)

Return(t) == IF t = "router" THEN "next" ELSE "accept"

CloseEnter(t) ==
    /\ pc[t] = "close"
    /\ Goto(t, IF state[conn[t]] = "CLOSED" THEN Return(t) ELSE "closeWait")
    /\ UNCHANGED <<chanVars, connVars, connLock, backlog, conn, delivered>>

CloseLock(t) ==
    /\ pc[t] = "closeWait"
    /\ connLock = "free"
    /\ connLock' = t
    /\ Goto(t, "closing")
    /\ UNCHANGED <<chanVars, connVars, backlog, conn, delivered>>

(* csp_bin_sem_wait gives up after 100 ms: the connection stays open.         *)
CloseTimeout(t) ==
    /\ pc[t] = "closeWait"
    /\ connLock # "free"
    /\ Goto(t, Return(t))
    /\ UNCHANGED <<chanVars, connVars, connLock, backlog, conn, delivered>>

CloseMark(t) ==
    /\ pc[t] = "closing"
    /\ state' = [state EXCEPT ![conn[t]] = "CLOSED"]
    /\ Goto(t, "flush")
    /\ UNCHANGED <<chanVars, type, idin, toPost, rxq, lastGiven, connLock,
                   backlog, conn, delivered>>

(* csp_conn_flush_rx_queue frees the queued packets one by one ...            *)
CloseFlush(t) ==
    /\ pc[t] = "flush"
    /\ rxq[conn[t]] # <<>>
    /\ rxq' = [rxq EXCEPT ![conn[t]] = Tail(@)]
    /\ UNCHANGED <<chanVars, state, type, idin, toPost, lastGiven, connLock,
                   backlog, pc, conn, delivered>>

(* Mutants: the receive queue is not flushed; the lock is not released.       *)
CloseUnlockNoFlush(t) ==
    /\ pc[t] = "flush"
    /\ connLock' = "free"
    /\ Goto(t, Return(t))
    /\ UNCHANGED <<chanVars, connVars, backlog, conn, delivered>>

CloseKeepLock(t) ==
    /\ pc[t] = "flush"
    /\ rxq[conn[t]] = <<>>
    /\ Goto(t, Return(t))
    /\ UNCHANGED <<chanVars, connVars, connLock, backlog, conn, delivered>>

(* ... and when the queue is empty the lock is released.                      *)
CloseUnlock(t) ==
    /\ pc[t] = "flush"
    /\ rxq[conn[t]] = <<>>
    /\ connLock' = "free"
    /\ Goto(t, Return(t))
    /\ UNCHANGED <<chanVars, connVars, backlog, conn, delivered>>

Close(t) == \/ CloseEnter(t) \/ CloseLock(t) \/ CloseTimeout(t)
            \/ CloseMark(t) \/ CloseFlush(t) \/ CloseUnlock(t)

-----------------------------------------------------------------------------
(* cspTask: csp_socket, csp_bind, csp_listen, then accept, read and close.    *)

(* csp_socket allocates a CONN_SERVER entry; nobody else can hold conn_lock,  *)
(* since the router needs a bound socket before it takes it.                  *)
Socket(c) ==
    /\ pc["server"] = "socket"
    /\ Take(c, "SERVER")
    /\ Goto("server", "bind")
    /\ UNCHANGED <<chanVars, connLock, backlog, conn, delivered>>

Bind ==
    /\ pc["server"] = "bind"
    /\ Goto("server", "listen")
    /\ UNCHANGED <<chanVars, connVars, connLock, backlog, conn, delivered>>

Listen ==
    /\ pc["server"] = "listen"
    /\ Goto("server", "accept")
    /\ UNCHANGED <<chanVars, connVars, connLock, backlog, conn, delivered>>

Accept ==
    /\ pc["server"] = "accept"
    /\ backlog # <<>>
    /\ conn' = [conn EXCEPT !["server"] = Head(backlog)]
    /\ backlog' = Tail(backlog)
    /\ Goto("server", "read")
    /\ UNCHANGED <<chanVars, connVars, connLock, delivered>>

(* Mutant: the packet is looked at but left in the queue.                     *)
ReadPeek ==
    /\ pc["server"] = "read"
    /\ state[conn["server"]] = "OPEN"
    /\ rxq[conn["server"]] # <<>>
    /\ Len(delivered) < 2 * MaxFrames
    /\ delivered' = Append(delivered, Head(rxq[conn["server"]]))
    /\ UNCHANGED <<chanVars, connVars, connLock, backlog, pc, conn>>

(* csp_read returns a packet, which cspTask hands on ...                      *)
Read ==
    LET c == conn["server"]
    IN  /\ pc["server"] = "read"
        /\ state[c] = "OPEN"
        /\ rxq[c] # <<>>
        /\ delivered' = Append(delivered, Head(rxq[c]))
        /\ rxq' = [rxq EXCEPT ![c] = Tail(@)]
        /\ UNCHANGED <<chanVars, state, type, idin, toPost, lastGiven, connLock,
                       backlog, pc, conn>>

(* Mutant: the connection is not closed once it is read dry.                  *)
ReadNoneNoClose ==
    /\ pc["server"] = "read"
    /\ state[conn["server"]] # "OPEN" \/ rxq[conn["server"]] = <<>>
    /\ Goto("server", "accept")
    /\ UNCHANGED <<chanVars, connVars, connLock, backlog, conn, delivered>>

(* ... or NULL, when the connection is closed or 100 ms bring no packet.      *)
ReadNone ==
    /\ pc["server"] = "read"
    /\ state[conn["server"]] # "OPEN" \/ rxq[conn["server"]] = <<>>
    /\ Goto("server", "close")
    /\ UNCHANGED <<chanVars, connVars, connLock, backlog, conn, delivered>>

-----------------------------------------------------------------------------
Router ==
    \/ NextPacket
    \/ Loopback
    \/ NextLooped
    \/ \E c \in Conns : FindExisting(c)
    \/ FindNone
    \/ AllocateLock
    \/ AllocateTimeout
    \/ \E c \in Conns : Allocate(c)
    \/ AllocateNone
    \/ ConnNew
    \/ Transport
    \/ Post
    \/ Posted
    \/ Close("router")

Server ==
    /\ ServerMayRun
    /\ \/ \E c \in Conns : Socket(c)
       \/ Bind
       \/ Listen
       \/ Accept
       \/ Read
       \/ ReadNone
       \/ Close("server")

(* All traffic handled: csp_route_next_packet waits, csp_accept times out and *)
(* cspTask calls it again.  Any other state without a successor is a deadlock.*)
Idle == /\ sent = MaxFrames
        /\ pc = [router |-> "next", server |-> "accept"]
        /\ fifo = <<>>
        /\ backlog = <<>>
        /\ UNCHANGED vars

Next ==
    \/ \E k \in Keys, kind \in Kinds : NewPacket(k, kind)
    \/ Router
    \/ Server
    \/ Idle

(* The router is the highest-priority task that ever waits here, and          *)
(* mainTask, which shares priority 0 with cspTask, blocks between commands.   *)
Fairness == WF_vars(Router) /\ WF_vars(Server)

Spec == Init /\ [][Next]_vars
FairSpec == Spec /\ Fairness

-----------------------------------------------------------------------------
(* Who refers to a connection: the router while it works on it, cspTask while *)
(* it serves it, and the socket's queue.                                      *)
RouterHolds(c) == /\ conn["router"] = c
                  /\ pc["router"] \in {"connNew", "transport", "post", "posted"}
                                        \union ClosePCs
Serves(c) == /\ conn["server"] = c
             /\ pc["server"] \in {"read"} \union ClosePCs
Queued(c) == c \in Range(backlog)

OpenClient(c) == state[c] = "OPEN" /\ type[c] = "CLIENT"

(* csp_conn_new has allocated c but not yet given it an id.                   *)
Unnamed(c) == pc["router"] = "connNew" /\ conn["router"] = c

Usable(c) == state[c] = "OPEN" /\ ~ Unnamed(c)

(* Every packet waiting on an open connection carries that connection's id:   *)
(* cspTask answers and dispatches by the connection (csp_conn_dport(conn)),   *)
(* so a packet left over from the connection's previous user would be taken   *)
(* for a command of another peer or port.  csp_conn_new's flush is what       *)
(* keeps it so when cspTask may preempt the router.                           *)
NoMisdelivery ==
    \A c \in Conns : Usable(c) => \A n \in Range(rxq[c]) : hdr[n].key = idin[c]

(* A connection pointer is at most once in the socket's queue, never there    *)
(* while cspTask serves it, and one that is there or is being read is open:   *)
(* csp_udp_new_packet posts a connection once in its life.                    *)
PostedOnce ==
    /\ \A i, j \in DOMAIN backlog : backlog[i] = backlog[j] => i = j
    /\ \A c \in Conns :
        /\ Queued(c) => ~ Serves(c)
        /\ Queued(c) \/ (Serves(c) /\ pc["server"] = "read") => state[c] = "OPEN"

(* Two open connections never have the same id, or the packets of one peer    *)
(* would be split between them (csp_conn_find returns the first).             *)
UniqueKey ==
    \A c, d \in Conns :
        /\ OpenClient(c) /\ ~ Unnamed(c)
        /\ OpenClient(d) /\ ~ Unnamed(d)
        /\ idin[c] = idin[d]
        => c = d

(* conn_lock: the two tasks are never both between its wait and its post.     *)
InCritical(t) == pc[t] \in {"allocate", "closing", "flush"}
Exclusion == ~ (InCritical("router") /\ InCritical("server"))

(* No connection leak: an open connection is waiting to be accepted, being    *)
(* served or in the router's hands, so it will be closed and its slot reused. *)
NoConnLeak ==
    \A c \in Conns : OpenClient(c) => Queued(c) \/ Serves(c) \/ RouterHolds(c)

(* A closed connection holds no packet, unless csp_close is just flushing it: *)
(* nothing is queued on a connection cspTask has closed.                      *)
ClosedIsEmpty ==
    \A c \in Conns : state[c] = "CLOSED" /\ rxq[c] # <<>>
                     => \E t \in Tasks : conn[t] = c /\ pc[t] = "flush"

(* Every connection that is opened is closed again: its slot comes back.      *)
ConnsComeBack ==
    \A c \in Conns : OpenClient(c) ~> (state[c] = "CLOSED")

(* The frames the receive path still holds for cspTask. *)
InHand == pc["router"] \in {"find", "lockWait", "allocate", "connNew", "transport"}
Pending == (Range(fifo) \ {Looped})
           \union (IF InHand THEN {packet} ELSE {})
           \union UNION {Range(rxq[c]) : c \in {d \in Conns : Usable(d)}}
KeyOf == [n \in Frames |-> hdr[n].key]

Service == INSTANCE FrameService WITH pending <- Pending, keyOf <- KeyOf

(* The receive path implements the unreliable in-order service.               *)
ImplementsService == Service!Spec

(* ... and with the scheduling it has, loses or delivers every frame.         *)
ImplementsFairService == Service!FairSpec
=============================================================================
