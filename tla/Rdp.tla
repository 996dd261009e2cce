---------------------------------- MODULE Rdp ----------------------------------
(***************************************************************************)
(* The reliable transport of libcsp (csp_rdp.c): a client connects and sends *)
(* data, a server task reads them.  Each end has a router task, which takes   *)
(* what arrives and looks after the timeouts, and a user task of lower        *)
(* priority: a step of the router is a whole call of csp_rdp_new_packet or    *)
(* csp_rdp_check_timeouts.                                                   *)
(*                                                                         *)
(* net holds every packet sent: each may arrive at any time, more than once,  *)
(* or never, so that reordering, loss and repetition need no action of their  *)
(* own.  No buffer runs out and no interface refuses a packet.  The board of   *)
(* the client may be reset; that takes longer than a packet is under way.      *)
(* Time is left out: a timer may run out whenever it is set.  Sequence        *)
(* numbers count modulo SeqMod (2^16 in the code).                           *)
(***************************************************************************)
EXTENDS Integers, Sequences, FiniteSets

CONSTANTS
    SeqMod,      \* how many sequence numbers there are
    Window,      \* csp_rdp_window_size
    AckCount,    \* csp_rdp_ack_delay_count
    RxqLen,      \* CSP_RX_QUEUE_LENGTH, the length of conn->rx_queue
    TxqLen,      \* CSP_RDP_MAX_WINDOW, the length of tx_queue
    Rand,        \* [ends -> what rand() gives for a connection, from the last one]
    MayClose,    \* the ends whose user may close the connection when it likes
    MaxWork,     \* bound: what the data sent and the turns taken may cost together
    SendWork,    \* bound: what a packet of data costs
    TurnWork     \* bound: what a turn costs: a close, a reset, a conn_timeout

Ends == {"client", "server"}
Peer(e) == IF e = "client" THEN "server" ELSE "client"
SeqNrs == 0 .. SeqMod - 1

MaxData == MaxWork \div SendWork

ASSUME RdpAssumption ==
    /\ Window \in Nat \ {0} /\ AckCount \in Nat /\ RxqLen \in Nat \ {0}
    /\ TxqLen \in Nat /\ TxqLen >= Window + 2
    /\ SeqMod \in Nat /\ SeqMod % 2 = 0 /\ SeqMod >= 4 * (Window + 1)
    /\ Rand \in [Ends -> [SeqNrs -> SeqNrs]]
    /\ MayClose \subseteq Ends
    /\ MaxWork \in Nat /\ SendWork \in Nat \ {0} /\ TurnWork \in Nat \ {0}

VARIABLES
    conn,     \* conn of each end, with conn->rdp
    user,     \* where the user task of each end is
    net,      \* the packets sent
    turns,    \* how many turns: conn_timeout passed, the client was reset, a user
              \* closed at will, the server opened a connection once more
    sent,     \* history: how many packets of data csp_send has taken
    got       \* history: what csp_read has returned on this connection, in order

vars == <<conn, user, net, turns, sent, got>>

-----------------------------------------------------------------------------
(* Sequence numbers.                                                         *)
Plus(a, b) == (a + b) % SeqMod
Between(seq, a, b) == (b - a) % SeqMod >= (seq - a) % SeqMod
Before(a, b) == (a - b) % SeqMod >= SeqMod \div 2

(* Packets.  data is 0 in a packet without data, list the numbers in an EACK.  *)
Flags == {"SYN", "ACK", "EAK", "RST"}
Null == 0
Packet == [to : Ends, flags : SUBSET Flags, seq : SeqNrs, ack : SeqNrs,
           data : 0 .. MaxData, list : SUBSET SeqNrs]
Bare(e, flags, seq, ack) ==
    [to |-> Peer(e), flags |-> flags, seq |-> seq, ack |-> ack, data |-> 0,
     list |-> {}]

States == {"CLOSED", "SYN_SENT", "SYN_RCVD", "OPEN", "CLOSE_WAIT"}
Fresh == [open |-> FALSE,      \* conn->state is CONN_OPEN
          posted |-> FALSE,    \* conn->socket is NULL: the connection is the user's
          queued |-> 0,        \* how often it waits in the queue of the socket
          state |-> "CLOSED", iss |-> 0, nxt |-> 0, una |-> 0,
          cur |-> 0, irs |-> 0, lsa |-> 0,
          tx |-> {},           \* the packets in tx_queue ...
          copies |-> 0,        \* ... and how often the SYN/ACK is there once more
          held |-> {},         \* rdp.rx_queue, what came ahead of its turn
          rxq |-> <<>>,        \* conn->rx_queue[0]: data, or Null
          wake |-> FALSE]      \* the semaphore tx_wait

Connection == [open : BOOLEAN, posted : BOOLEAN, queued : Nat, state : States,
               iss : SeqNrs, nxt : SeqNrs, una : SeqNrs, cur : SeqNrs, irs : SeqNrs,
               lsa : SeqNrs, tx : SUBSET Packet, copies : Nat, held : SUBSET Packet,
               rxq : Seq(0 .. MaxData), wake : BOOLEAN]
TxSize(c) == Cardinality(c.tx) + c.copies

(* Every variable has its type; no queue holds more than it has room for.      *)
TypeOK ==
    /\ conn \in [Ends -> Connection]
    /\ \A e \in Ends : TxSize(conn[e]) <= TxqLen /\ Len(conn[e].rxq) <= RxqLen
    /\ user \in [Ends -> {"start", "connecting", "retrying", "open", "window", "closed"}]
    /\ net \subseteq Packet
    /\ turns \in 0 .. MaxWork
    /\ sent \in 0 .. MaxData
    /\ got \in Seq(1 .. MaxData)

Init ==
    /\ conn = [e \in Ends |-> Fresh]
    /\ user = [e \in Ends |-> "start"]
    /\ net = {} /\ turns = 0 /\ sent = 0 /\ got = <<>>

-----------------------------------------------------------------------------
(* csp_rdp_send_cmp: the control packets.                                    *)
Ack(e, c) == Bare(e, {"ACK"}, c.nxt, c.cur)
Eack(e, c) == [Bare(e, {"ACK", "EAK"}, c.nxt, c.cur) EXCEPT !.list = {p.seq : p \in c.held}]
Reset(e, c) == Bare(e, {"ACK", "RST"}, c.nxt, c.cur)
Syn(e, c) == Bare(e, {"SYN"}, c.iss, 0)
SynAck(e, c) == Bare(e, {"SYN", "ACK"}, c.iss, c.irs)

(* A clone of every SYN/ACK sent is queued in tx_queue, if it has room.         *)
Cloned(e, c) ==
    IF TxSize(c) = TxqLen THEN c
    ELSE IF SynAck(e, c) \in c.tx THEN [c EXCEPT !.copies = @ + 1]
    ELSE [c EXCEPT !.tx = @ \union {SynAck(e, c)}]

(* What an acknowledgement leaves behind.                                     *)
Acking(c) == [c EXCEPT !.lsa = c.cur]

(* csp_close with csp_rdp_close: a connection not yet closing sends a reset    *)
(* and waits in CLOSE_WAIT, any other is closed and its queues emptied.       *)
Lingers(c) == c.state \notin {"CLOSED", "CLOSE_WAIT"}
Closed(c) ==
    IF Lingers(c) THEN [Acking(c) EXCEPT !.state = "CLOSE_WAIT"]
    ELSE [c EXCEPT !.open = FALSE, !.state = "CLOSED", !.rxq = <<>>, !.tx = {}, !.copies = 0,
                    !.held = {}]
ClosePackets(e, c) == IF Lingers(c) THEN {Reset(e, c)} ELSE {}

(* discard_close: the user is told by a Null packet, if there is room for it; *)
(* a connection no user has yet is closed.                                   *)
Told(c) == IF Len(c.rxq) < RxqLen THEN [c EXCEPT !.rxq = Append(@, Null)] ELSE c
Discarded(c) == IF c.posted THEN Told(c) ELSE Closed(c)
DiscardPackets(e, c) == IF c.posted THEN {} ELSE ClosePackets(e, c)

(* A step of e leaves its connection c and sends the packets out.             *)
Becomes(e, c, out) ==
    /\ conn' = [conn EXCEPT ![e] = c]
    /\ net' = net \union out

(* What csp_rdp_check_timeouts does when no timer has run out: packets         *)
(* acknowledged leave tx_queue, a user waiting to send is woken.              *)
UnackedOneMore(c) == [c EXCEPT !.tx = {q \in @ : Before(c.una, q.seq)}]  \* mutant
UnackedLate(c) ==                                                      \* mutant
    LET una == Plus(c.una, -1)
    IN [c EXCEPT !.tx = {q \in @ : ~Before(q.seq, una)},
                 !.copies = IF Before(c.iss, una) THEN 0 ELSE @]
Unacked(c) == [c EXCEPT !.tx = {q \in @ : ~Before(q.seq, c.una)},
                        !.copies = IF Before(c.iss, c.una) THEN 0 ELSE @]
Ready(c) ==
    /\ c.state = "OPEN" /\ TxSize(c) < Window
    /\ Before(c.nxt - c.una, 2 * Window)
Woken(c) == [c EXCEPT !.wake = @ \/ Ready(c)]

(* csp_rdp_should_ack and csp_rdp_check_ack: is an acknowledgement to be sent   *)
(* now, because ack_timeout has passed (early) or for their number.           *)
Overdue(c) == Before(Plus(c.lsa, AckCount), c.cur)
AckDue(c, early) ==
    /\ c.lsa # c.cur
    /\ RxqLen - Len(c.rxq) > Window
    /\ early \/ Overdue(c)

Serviced(e, c, late, early, out) ==
    LET d == Unacked(c)
        acks == AckDue(d, early)
        again == {[q EXCEPT !.ack = d.cur] : q \in late \intersect d.tx}
    IN Becomes(e, Woken(IF acks THEN Acking(d) ELSE d),
               out \union again \union (IF acks THEN {Ack(e, d)} ELSE {}))

(* A step of its router task, which looks after the connection before it       *)
(* waits for the next packet, and so before the user task runs.               *)
Take(e, c, out) ==
    /\ IF c.open /\ c.state # "CLOSE_WAIT" THEN Serviced(e, c, {}, FALSE, out)
       ELSE Becomes(e, c, out)
    /\ UNCHANGED <<user, turns, sent, got>>

Turn ==
    /\ SendWork * sent + TurnWork * (turns + 1) <= MaxWork
    /\ turns' = turns + 1

(* The connection a packet belongs to.  The server has a socket bound to the  *)
(* port: its router opens a connection for a packet that has none.            *)
For(e) == IF conn[e].open \/ e = "client" THEN conn[e]
          ELSE [conn[e] EXCEPT !.open = TRUE, !.posted = FALSE, !.rxq = <<>>]
Arrived(e, p) == p.to = e /\ For(e).open /\ p \in net

-----------------------------------------------------------------------------
(* csp_rdp_new_packet: reset received.                                       *)

AckedTo(c, p) == IF "ACK" \in p.flags THEN [c EXCEPT !.una = Plus(p.ack, 1)] ELSE c

ResetClosing(e, p) ==
    /\ "RST" \in p.flags /\ Arrived(e, p)
    /\ For(e).state \in {"CLOSE_WAIT", "CLOSED"}
    /\ Take(e, Closed(AckedTo(For(e), p)), {})

ResetInSequence(e, p) ==
    /\ "RST" \in p.flags /\ Arrived(e, p)
    /\ For(e).state \notin {"CLOSE_WAIT", "CLOSED"}
    /\ p.seq = Plus(For(e).cur, 1)
    /\ LET c == [Acking(AckedTo(For(e), p)) EXCEPT !.state = "CLOSE_WAIT"]
       IN Take(e, Discarded(c), {Reset(e, c)})

ResetOutOfSequence(e, p) ==
    /\ "RST" \in p.flags /\ Arrived(e, p)
    /\ For(e).state \notin {"CLOSE_WAIT", "CLOSED"}
    /\ p.seq # Plus(For(e).cur, 1)
    /\ Take(e, AckedTo(For(e), p), {})

-----------------------------------------------------------------------------
(* States CLOSED and SYN_SENT (nothing sends a SYN to an end that has sent     *)
(* one, the invalid reply of the code).                                      *)

In(e, p, states) == For(e).state \in states /\ "RST" \notin p.flags /\ Arrived(e, p)

NotSyn(e, p) ==
    /\ In(e, p, {"CLOSED"}) /\ "SYN" \notin p.flags
    /\ Take(e, Discarded(For(e)), {Bare(e, {"RST"}, For(e).nxt, For(e).cur)})

SynReceived(e, p) ==
    /\ In(e, p, {"CLOSED"}) /\ "SYN" \in p.flags
    /\ LET iss == Rand[e][For(e).iss]
           c == [For(e) EXCEPT !.state = "SYN_RCVD", !.iss = iss, !.nxt = Plus(iss, 1),
                   !.una = iss, !.cur = p.seq, !.irs = p.seq, !.lsa = p.seq]
       IN Becomes(e, Cloned(e, c), {SynAck(e, c)})
    /\ IF For(e).iss = 0 THEN UNCHANGED turns ELSE Turn
    /\ got' = <<>>
    /\ UNCHANGED <<user, sent>>

SynAckedAny(e, p) ==                                                   \* mutant
    /\ In(e, p, {"SYN_SENT"}) /\ "ACK" \in p.flags
    /\ Take(e, [For(e) EXCEPT !.state = "OPEN", !.cur = p.seq, !.irs = p.seq,
                     !.lsa = Plus(p.seq, -1), !.una = Plus(p.ack, 1), !.wake = TRUE], {})
SynAcked(e, p) ==
    /\ In(e, p, {"SYN_SENT"}) /\ {"SYN", "ACK"} \subseteq p.flags
    /\ Take(e, [For(e) EXCEPT !.state = "OPEN", !.cur = p.seq, !.irs = p.seq,
                     !.lsa = Plus(p.seq, -1), !.una = Plus(p.ack, 1), !.wake = TRUE], {})

HalfOpen(e, p) ==
    /\ In(e, p, {"SYN_SENT"}) /\ "ACK" \in p.flags /\ "SYN" \notin p.flags
    /\ Take(e, [For(e) EXCEPT !.wake = TRUE],
            {Bare(e, {"RST"}, For(e).nxt, For(e).cur)})

-----------------------------------------------------------------------------
(* States SYN_RCVD and OPEN.                                                 *)

Invalid(p) == "SYN" \in p.flags \/ "ACK" \notin p.flags
InWindowTwice(c, p) == Between(p.seq, c.cur, Plus(c.cur, 2 * Window))      \* mutant
InWindow(c, p) == Between(p.seq, Plus(c.cur, 1), Plus(c.cur, 2 * Window))
AckInRange(c, p) == Between(p.ack, Plus(c.una, -1 - 2 * Window), Plus(c.nxt, -1))

InvalidSyn(e, p) ==
    /\ In(e, p, {"SYN_RCVD", "OPEN"}) /\ Invalid(p)
    /\ LET c == For(e)
           again == p.seq = c.irs
       IN Take(e, IF again THEN c ELSE Discarded(c),
               IF again THEN {} ELSE DiscardPackets(e, c))

(* A packet received before: its sender missed the acknowledgement.           *)
OutOfWindow(e, p) ==
    /\ In(e, p, {"SYN_RCVD", "OPEN"}) /\ ~Invalid(p) /\ ~InWindow(For(e), p)
    /\ LET c == For(e)
       IN IF c.state = "OPEN" THEN Take(e, Acking(c), {Eack(e, c)})
          ELSE Take(e, [Cloned(e, c) EXCEPT !.lsa = c.irs], {SynAck(e, c)})

InvalidAck(e, p) ==
    /\ In(e, p, {"SYN_RCVD", "OPEN"}) /\ ~Invalid(p) /\ InWindow(For(e), p)
    /\ ~AckInRange(For(e), p)
    /\ Take(e, For(e), {})

WrongAck(e, p) ==
    /\ In(e, p, {"SYN_RCVD"}) /\ ~Invalid(p) /\ InWindow(For(e), p) /\ AckInRange(For(e), p)
    /\ p.ack # For(e).iss
    /\ Take(e, Discarded(For(e)), DiscardPackets(e, For(e)))

(* The packet is valid: what its acknowledgement does to the connection.      *)
Valid(e, p) ==
    /\ In(e, p, {"SYN_RCVD", "OPEN"}) /\ ~Invalid(p) /\ InWindow(For(e), p)
    /\ AckInRange(For(e), p)
    /\ For(e).state = "SYN_RCVD" => p.ack = For(e).iss
Accepted(e, p) == [For(e) EXCEPT !.state = "OPEN", !.una = Plus(p.ack, 1)]

(* csp_rdp_flush_eack: packets held by the other end are not sent again.      *)
NoData(e, p) ==
    /\ p.data = 0
    /\ Valid(e, p)
    /\ Take(e, [Accepted(e, p) EXCEPT !.tx = {q \in @ : q.seq \notin p.list}], {})

OutOfOrder(e, p) ==
    /\ p.data # 0 /\ p.seq # Plus(For(e).cur, 1)
    /\ Valid(e, p)
    /\ LET c == Accepted(e, p)
           known == \E q \in c.held : q.seq = p.seq
           more == [c EXCEPT !.held = @ \union {p}]
       IN IF known THEN Take(e, c, {}) ELSE Take(e, Acking(more), {Eack(e, more)})

(* csp_rdp_rx_queue_flush: the run of packets held that follows in sequence is *)
(* passed on, whether the queue has room for it or not.                       *)
Run(c) == CHOOSE n \in 0 .. 2 * Window :
            /\ \A i \in 1 .. n : \E q \in c.held : q.seq = Plus(c.cur, i)
            /\ \A q \in c.held : q.seq # Plus(c.cur, n + 1)
DataAt(c, i) == (CHOOSE q \in c.held : q.seq = Plus(c.cur, i)).data
Flushed(c) ==
    LET n == Run(c)
        room == IF RxqLen - Len(c.rxq) < n THEN RxqLen - Len(c.rxq) ELSE n
    IN [c EXCEPT !.rxq = @ \o [i \in 1 .. room |-> DataAt(c, i)],
                 !.held = {q \in @ : \A i \in 1 .. n : q.seq # Plus(c.cur, i)},
                 !.cur = Plus(@, n)]

(* csp_rdp_receive_data: the connection is posted to its socket, the data     *)
(* queued, if there is room, acknowledged if there is room for a window more, *)
(* and then what was held behind them.                                       *)
Posted(c) == IF c.posted THEN c ELSE [c EXCEPT !.posted = TRUE, !.queued = @ + 1]
ReceivedAgain(c, p) == [Posted(c) EXCEPT !.rxq = Append(@, p.data)]       \* mutant
Received(c, p) == [Posted(c) EXCEPT !.rxq = Append(@, p.data), !.cur = p.seq]
InOrder(e, p, early) ==
    /\ p.data # 0 /\ p.seq = Plus(For(e).cur, 1)
    /\ Valid(e, p)
    /\ LET c == Received(Accepted(e, p), p)
           acks == Len(c.rxq) + Window <= RxqLen /\ (early \/ Overdue(c))
       IN IF Len(For(e).rxq) = RxqLen THEN Take(e, Posted(Accepted(e, p)), {})
          ELSE Take(e, Flushed(IF acks THEN Acking(c) ELSE c),
                    IF acks THEN {Ack(e, c)} ELSE {})

-----------------------------------------------------------------------------
(* State CLOSE_WAIT.                                                         *)
CloseWait(e, p) ==
    /\ In(e, p, {"CLOSE_WAIT"})
    /\ LET c == [Acking(For(e)) EXCEPT !.una = Plus(p.ack, 1)]
           answered == ~Invalid(p) /\ AckInRange(For(e), p)
       IN Take(e, IF answered THEN c ELSE For(e), IF answered THEN {Reset(e, c)} ELSE {})

NewPacket(e, p) ==
    \/ ResetClosing(e, p) \/ ResetInSequence(e, p) \/ ResetOutOfSequence(e, p)
    \/ NotSyn(e, p) \/ SynReceived(e, p)
    \/ SynAcked(e, p) \/ HalfOpen(e, p)
    \/ InvalidSyn(e, p) \/ OutOfWindow(e, p) \/ InvalidAck(e, p) \/ WrongAck(e, p)
    \/ NoData(e, p) \/ OutOfOrder(e, p)
    \/ \E early \in BOOLEAN : InOrder(e, p, early)
    \/ CloseWait(e, p)

-----------------------------------------------------------------------------
(* csp_rdp_check_timeouts.                                                   *)

(* No user has taken the connection for conn_timeout, or it has waited in     *)
(* CLOSE_WAIT for as long.                                                   *)
Expire(e) ==
    /\ conn[e].open
    /\ (e = "server" /\ ~conn[e].posted) \/ conn[e].state = "CLOSE_WAIT"
    /\ Becomes(e, Closed(conn[e]), ClosePackets(e, conn[e]))
    /\ Turn
    /\ UNCHANGED <<user, sent, got>>

(* Packets whose time is up are sent once more, an acknowledgement that waited *)
(* for more data is sent.                                                    *)
Maintain(e, late, early) ==
    /\ conn[e].open /\ conn[e].state # "CLOSE_WAIT"
    /\ Serviced(e, conn[e], late, early, {})
    /\ UNCHANGED <<user, turns, sent, got>>

Timeouts(e) ==
    \/ Expire(e)
    \/ \E late \in SUBSET conn[e].tx, early \in BOOLEAN : Maintain(e, late, early)

-----------------------------------------------------------------------------
(* The user of the client: csp_connect, csp_send, csp_close.                 *)

UserStep(e, c, out, next) == Becomes(e, c, out) /\ user' = [user EXCEPT ![e] = next]

(* csp_rdp_connect sends a SYN, with the semaphore taken so that the router    *)
(* can give it, and waits for conn_timeout.                                   *)
Connecting(c) ==
    LET iss == Rand["client"][c.iss]
        d == [c EXCEPT !.open = TRUE, !.posted = TRUE, !.state = "SYN_SENT", !.iss = iss,
                 !.nxt = Plus(iss, 1), !.una = iss, !.wake = FALSE, !.held = {}]
    IN [d EXCEPT !.tx = {Syn("client", d)}]

Connect ==
    /\ user["client"] = "start"
    /\ LET c == Connecting(conn["client"])
       IN UserStep("client", c, c.tx, "connecting")
    /\ UNCHANGED <<turns, sent, got>>

(* The answer came from a connection the server still has: once more.          *)
ConnectAgain ==
    /\ user["client"] = "connecting"
    /\ conn["client"].wake /\ conn["client"].state = "SYN_SENT"
    /\ LET c == Connecting(conn["client"])
       IN UserStep("client", c, c.tx, "retrying")
    /\ UNCHANGED <<turns, sent, got>>

Connected ==
    /\ user["client"] \in {"connecting", "retrying"}
    /\ conn["client"].wake /\ conn["client"].state = "OPEN"
    /\ UserStep("client", [conn["client"] EXCEPT !.wake = FALSE], {}, "open")
    /\ UNCHANGED <<turns, sent, got>>

(* The wait timed out, or the connection was reset or is half open again.      *)
ConnectFailed ==
    /\ user["client"] \in {"connecting", "retrying"}
    /\ conn["client"].wake =>
        \/ conn["client"].state = "CLOSE_WAIT"
        \/ conn["client"].state = "SYN_SENT" /\ user["client"] = "retrying"
    /\ LET c == [conn["client"] EXCEPT !.state = "CLOSE_WAIT", !.wake = FALSE]
       IN UserStep("client", Closed(c), {}, "closed")
    /\ Turn
    /\ UNCHANGED <<sent, got>>

CanSend == SendWork * (sent + 1) + TurnWork * turns <= MaxWork

(* csp_rdp_send waits for conn_timeout if the window is full.                 *)
InFlight(c) == (c.nxt - c.una + 1) % SeqMod

WaitForWindow ==
    /\ user["client"] = "open"
    /\ conn["client"].state = "OPEN"
    /\ CanSend
    /\ InFlight(conn["client"]) > Window
    /\ UserStep("client", [conn["client"] EXCEPT !.wake = FALSE], {}, "window")
    /\ UNCHANGED <<turns, sent, got>>

(* No answer in time, or the connection was reset: csp_send returns an error.  *)
SendFails ==
    /\ user["client"] = "window"
    /\ conn["client"].wake => conn["client"].state # "OPEN"
    /\ UserStep("client", [conn["client"] EXCEPT !.wake = FALSE], {}, "open")
    /\ UNCHANGED <<turns, sent, got>>

Send ==
    /\ \/ user["client"] = "open" /\ InFlight(conn["client"]) <= Window
       \/ user["client"] = "window" /\ conn["client"].wake
    /\ conn["client"].state = "OPEN"
    /\ CanSend
    /\ sent' = sent + 1
    /\ LET c == conn["client"]
           p == [Bare("client", {"ACK"}, c.nxt, c.cur) EXCEPT !.data = sent + 1]
           woken == user["client"] = "open" /\ c.wake
           d == [c EXCEPT !.tx = @ \union {p}, !.nxt = Plus(@, 1), !.wake = woken]
       IN UserStep("client", d, {p}, "open")
    /\ UNCHANGED <<turns, got>>

(* The user of the server: csp_accept, csp_read.                             *)
Accept ==
    /\ user["server"] \in {"start", "closed"}
    /\ conn["server"].queued > 0
    /\ UserStep("server", [conn["server"] EXCEPT !.queued = @ - 1], {}, "open")
    /\ UNCHANGED <<turns, sent, got>>

Read(early) ==
    /\ user["server"] = "open"
    /\ conn["server"].open
    /\ conn["server"].rxq # <<>> /\ Head(conn["server"].rxq) # Null
    /\ got' = Append(got, Head(conn["server"].rxq))
    /\ LET c == [conn["server"] EXCEPT !.rxq = Tail(@)]
           acks == AckDue(c, early)
       IN UserStep("server", IF acks THEN Acking(c) ELSE c,
                   IF acks THEN {Ack("server", c)} ELSE {}, "open")
    /\ UNCHANGED <<turns, sent>>

(* csp_close by the user: because it likes, or because csp_read returned Null, *)
(* or csp_send an error.                                                     *)
CloseAtWill(e) ==
    /\ user[e] = "open" /\ e \in MayClose
    /\ conn[e].open
    /\ UserStep(e, Closed(conn[e]), ClosePackets(e, conn[e]), "closed")
    /\ Turn
    /\ UNCHANGED <<sent, got>>

CloseAfterError(e) ==
    /\ user[e] = "open"
    /\ \/ e = "client" /\ conn[e].state # "OPEN"
       \/ e = "server" /\ (conn[e].open => conn[e].rxq # <<>> /\ Head(conn[e].rxq) = Null)
    /\ UserStep(e, IF conn[e].open THEN Closed(conn[e]) ELSE conn[e],
                IF conn[e].open THEN ClosePackets(e, conn[e]) ELSE {}, "closed")
    /\ UNCHANGED <<turns, sent, got>>

User ==
    \/ Connect \/ ConnectAgain \/ Connected \/ ConnectFailed
    \/ WaitForWindow \/ SendFails \/ Send
    \/ Accept \/ (\E early \in BOOLEAN : Read(early))
    \/ \E e \in Ends : CloseAtWill(e) \/ CloseAfterError(e)

-----------------------------------------------------------------------------
(* The board of the client is reset: its connection is gone, the server's not. *)
Restart ==
    /\ Turn
    /\ conn' = [conn EXCEPT !["client"] = [Fresh EXCEPT !.iss = conn["client"].iss]]
    /\ user' = [user EXCEPT !["client"] = "start"]
    /\ net' = {} /\ sent' = 0
    /\ UNCHANGED got

Next ==
    \/ User
    \/ \E e \in Ends : Timeouts(e)
    \/ \E p \in net : NewPacket(p.to, p)
    \/ Restart

Spec == Init /\ [][Next]_vars
-----------------------------------------------------------------------------
(* What the server has in hand of this connection, read or still queued: data, *)
(* with the Null packets left out.                                           *)
Data(q) ==
    LET first[n \in 0 .. Len(q)] ==
          IF n = 0 THEN <<>>
          ELSE IF q[n] = Null THEN first[n - 1] ELSE Append(first[n - 1], q[n])
    IN first[Len(q)]
Taken == Data(got \o conn["server"].rxq)

(* csp_read gives the server what the client sent, in order, with nothing      *)
(* missing and nothing twice, whatever the network does.                      *)
OrderlyDelivery == \A i \in DOMAIN Taken : Taken[i] = i

(* Both ends are those of one connection: the numbers agree.                  *)
SameConnection ==
    /\ conn["client"].state = "OPEN" /\ conn["server"].state = "OPEN"
    /\ conn["server"].irs = conn["client"].iss /\ conn["client"].irs = conn["server"].iss

(* Two ends that are open are open to each other.  A client that was reset and *)
(* connects again may open on the SYN/ACK of the connection it had before, as  *)
(* nobody looks at the number it acknowledges (csp_rdp.c:679); but the server  *)
(* is half open then, and does not open on what this client sends it.          *)
OpenToEachOther ==
    conn["client"].state = "OPEN" /\ conn["server"].state = "OPEN" => SameConnection

(* What the client has forgotten the server has: a packet leaves tx_queue only *)
(* when it has been taken, or is held until its turn comes.  That is so as     *)
(* long as no reset is about: one out of sequence leaves the connection open,  *)
(* but not snd_una as it was (csp_rdp.c:597).                                *)
NothingForgotten ==
    SameConnection /\ (\A p \in net : "RST" \notin p.flags) =>
        \A d \in 1 .. sent :
            \/ \E q \in conn["client"].tx \union conn["server"].held : q.data = d
            \/ d <= Len(Taken)

(* What is held is ahead of what has been passed on, inside two windows, and   *)
(* no number is held twice: csp_rdp_rx_queue_flush leaves nothing behind.      *)
HeldAhead ==
    LET c == conn["server"]
    IN c.state = "OPEN" =>
        /\ \A q \in c.held : Between(q.seq, Plus(c.cur, 2), Plus(c.cur, 2 * Window))
        /\ \A q \in c.held, r \in c.held : q.seq = r.seq => q = r

(* The copies of the SYN/ACK, which may fill tx_queue, are gone as soon as the *)
(* connection is open; from then on it holds at most a window and two packets: *)
(* csp_rdp_send finds room although it looks at snd_una and not at the queue.  *)
TxBounded == \A e \in Ends : conn[e].state = "OPEN" => TxSize(conn[e]) <= Window + 2

(* The queues of the transport: well typed, within bounds, nothing left behind. *)
QueuesOK == TypeOK /\ TxBounded /\ HeldAhead
=============================================================================
