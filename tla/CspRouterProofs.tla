--------------------------- MODULE CspRouterProofs ---------------------------
(***************************************************************************)
(* Theorems about CspRouter, for every number of connections, every queue   *)
(* length, every set of ids and either priority of the router.              *)
(***************************************************************************)
EXTENDS CspRouter, QueueLemmas

(* The initial state is well typed. *)
LEMMA TypeInit == Init => TypeOK
BY RouterAssumption
   DEF Init, TypeOK, Headers, AllKinds, Frames, Conns, Tasks, RouterPCs, ServerPCs,
       ClosePCs

(* Every step keeps the types; one step of the proof per action. *)
LEMMA TypeStep == TypeOK /\ [Next]_vars => TypeOK'
<1> SUFFICES ASSUME TypeOK, [Next]_vars PROVE TypeOK'
  OBVIOUS
<1> USE RouterAssumption
    DEF TypeOK, chanVars, connVars, Goto, Tasks, RouterPCs, ServerPCs, ClosePCs
<1>1. ASSUME NEW k \in Keys, NEW kind \in Kinds, NewPacket(k, kind)
      PROVE  TypeOK'
  <2>1. sent + 1 \in Frames /\ sent' \in 0 .. MaxFrames
    BY <1>1 DEF NewPacket, Frames
  <2>2. [key |-> k, kind |-> kind] \in Headers
    BY DEF Headers
  <2>3. hdr' \in [Frames -> Headers]
    BY <1>1, <2>2 DEF NewPacket
  <2>4. fifo' \in Seq(Frames \union {Looped}) /\ Len(fifo') <= FifoLen
    BY <1>1, <2>1, QueueFacts DEF NewPacket
  <2> QED
    BY <1>1, <2>1, <2>3, <2>4 DEF NewPacket
<1>2. CASE NextPacket
  <2>1. /\ Head(fifo) \in Frames /\ packet' = Head(fifo)
        /\ fifo' \in Seq(Frames \union {Looped}) /\ Len(fifo') <= FifoLen
    BY <1>2, QueueFacts DEF NextPacket
  <2>2. pc' \in [Tasks -> RouterPCs \union ServerPCs \union ClosePCs]
        /\ pc'["router"] \notin ServerPCs /\ pc'["server"] = pc["server"]
    BY <1>2 DEF NextPacket
  <2>3. packet' \in 0 .. MaxFrames
    BY <2>1 DEF Frames
  <2> QED
    BY <1>2, <2>1, <2>2, <2>3 DEF NextPacket
<1>26. CASE Loopback
  <2>1. fifo' \in Seq(Frames \union {Looped}) /\ Len(fifo') <= FifoLen
    BY <1>26, QueueFacts DEF Loopback
  <2> QED
    BY <1>26, <2>1 DEF Loopback
<1>27. CASE NextLooped
  <2>1. fifo' \in Seq(Frames \union {Looped}) /\ Len(fifo') <= FifoLen
    BY <1>27, QueueFacts DEF NextLooped
  <2> QED
    BY <1>27, <2>1 DEF NextLooped
<1>3. ASSUME NEW c \in Conns, FindExisting(c)
      PROVE  TypeOK'
  BY <1>3 DEF FindExisting
<1>4. CASE FindNone
  BY <1>4 DEF FindNone
<1>5. CASE AllocateLock
  BY <1>5 DEF AllocateLock
<1>6. CASE AllocateTimeout
  BY <1>6 DEF AllocateTimeout
<1>7. ASSUME NEW c \in Conns, Allocate(c)
      PROVE  TypeOK'
  BY <1>7 DEF Allocate, Take
<1>8. CASE AllocateNone
  BY <1>8 DEF AllocateNone
<1>9. CASE ConnNew
  <2>1. hdr[packet].key \in Keys \union {NoKey}
    BY <1>9 DEF ConnNew, Headers
  <2> QED
    BY <1>9, <2>1 DEF ConnNew, Listening
<1>10. CASE Transport
  <2>1. packet \in Frames /\ conn["router"] \in Conns
    BY <1>10 DEF Transport
  <2>2. /\ rxq' \in [Conns -> Seq(Frames)]
        /\ \A c \in Conns : Len(rxq'[c]) <= RxqLen
    BY <1>10, <2>1, QueueFacts DEF Transport
  <2> QED
    BY <1>10, <2>2 DEF Transport
<1>11. CASE Post
  <2>1. conn["router"] \in Conns
    OBVIOUS
  <2>2. backlog' \in Seq(Conns) /\ Len(backlog') <= Backlog
    <3>1. CASE toPost[conn["router"]] /\ Len(backlog) < Backlog
      <4>1. backlog' = Append(backlog, conn["router"])
        BY <1>11, <3>1 DEF Post
      <4>2. Len(backlog) \in Nat /\ Len(backlog') = Len(backlog) + 1
        BY <2>1, <4>1, QueueFacts
      <4>3. backlog' \in Seq(Conns)
        BY <2>1, <4>1, QueueFacts
      <4> QED
        BY <3>1, <4>2, <4>3
    <3>2. CASE ~ (toPost[conn["router"]] /\ Len(backlog) < Backlog)
      BY <1>11, <3>2 DEF Post
    <3> QED
      BY <3>1, <3>2
  <2> QED
    BY SMTT(30), <1>11, <2>2 DEF Post
<1>12. CASE Posted
  BY <1>12 DEF Posted
<1>13. ASSUME NEW t \in Tasks, Close(t)
       PROVE  TypeOK'
  <2>1. CASE CloseEnter(t)
    BY <1>13, <2>1 DEF CloseEnter, Return
  <2>2. CASE CloseLock(t)
    BY <1>13, <2>2 DEF CloseLock
  <2>3. CASE CloseTimeout(t)
    BY <1>13, <2>3 DEF CloseTimeout, Return
  <2>4. CASE CloseMark(t)
    BY <1>13, <2>4 DEF CloseMark
  <2>5. CASE CloseFlush(t)
    BY <1>13, <2>5, QueueFacts DEF CloseFlush
  <2>6. CASE CloseUnlock(t)
    BY <1>13, <2>6 DEF CloseUnlock, Return
  <2> QED
    BY <1>13, <2>1, <2>2, <2>3, <2>4, <2>5, <2>6 DEF Close
<1>14. ASSUME NEW c \in Conns, Socket(c)
       PROVE  TypeOK'
  BY <1>14 DEF Socket, Take
<1>15. CASE Bind
  BY <1>15 DEF Bind
<1>16. CASE Listen
  BY <1>16 DEF Listen
<1>17. CASE Accept
  BY <1>17, QueueFacts DEF Accept
<1>18. CASE Read
  BY <1>18, QueueFacts DEF Read
<1>19. CASE ReadNone
  BY <1>19 DEF ReadNone
<1>20. CASE UNCHANGED vars
  BY <1>20 DEF vars
<1> QED
  BY <1>1, <1>2, <1>3, <1>4, <1>5, <1>6, <1>7, <1>8, <1>9, <1>10, <1>11, <1>12,
     <1>13, <1>14, <1>15, <1>16, <1>17, <1>18, <1>19, <1>20, <1>26, <1>27
     DEF Next, Router, Server, Idle

(* Type correctness of the receive path. *)
THEOREM TypeCorrect == Spec => []TypeOK
BY TypeInit, TypeStep, PTL DEF Spec

-----------------------------------------------------------------------------
(* The inductive invariant, by subject.                                       *)

(* conn_lock is held exactly by the task that is between its wait and post.   *)
LockInv == \A t \in Tasks : InCritical(t) <=> connLock = t

(* Until cspTask has bound its socket the router opens no connection.         *)
BootInv ==
    pc["server"] \in {"socket", "bind"} =>
        /\ pc["router"] \in {"next", "find", "loopback"}
        /\ backlog = <<>>
        /\ \A c \in Conns : rxq[c] = <<>> /\ ~ OpenClient(c)

(* Only CONN_CLIENT entries are worked on and queued to.                      *)
ClientInv ==
    \A c \in Conns : /\ RouterHolds(c) => type[c] = "CLIENT"
                     /\ type[c] = "SERVER" => rxq[c] = <<>>

(* conn->socket is still set, and not about to be cleared.                    *)
Unposted(c) == toPost[c] /\ ~ (pc["router"] = "posted" /\ conn["router"] = c)

(* A connection changes hands: router, socket queue, cspTask, closed.         *)
PostInv ==
    /\ Distinct(backlog)
    /\ \A c \in Conns :
        /\ Queued(c) => OpenClient(c) /\ ~ Unposted(c) /\ ~ Serves(c)
        /\ Serves(c) /\ pc["server"] # "flush" => OpenClient(c) /\ ~ Unposted(c)
        /\ Unnamed(c) => OpenClient(c) /\ ~ Queued(c) /\ ~ Serves(c)
        /\ RouterHolds(c) /\ pc["router"] \in ClosePCs => toPost[c]
        /\ RouterHolds(c) /\ pc["router"] \in {"transport", "post"} /\ toPost[c]
           => OpenClient(c) /\ ~ Serves(c)
    /\ \A t \in Tasks : pc[t] = "flush" => state[conn[t]] = "CLOSED"

(* Frames keep their arrival order: receive queues, then the packet in hand,  *)
(* then the FIFO.                                                             *)
Arrivals == Range(fifo) \ {Looped}
OrderInv ==
    /\ AscendingBut(Looped, fifo)
    /\ \A m \in Arrivals : m <= sent
    /\ InHand => packet <= sent /\ \A m \in Arrivals : packet < m
    /\ \A c \in Conns :
        /\ Ascending(rxq[c])
        /\ \A n \in Range(rxq[c]) : /\ n <= sent
                                    /\ \A m \in Arrivals : n < m
                                    /\ InHand => n < packet

(* Ids: what is queued on a connection, and who may have which id.            *)
KeyInv ==
    /\ NoMisdelivery
    /\ UniqueKey
    /\ pc["router"] = "transport" => idin[conn["router"]] = hdr[packet].key
    /\ pc["router"] \in {"lockWait", "allocate", "connNew"} =>
           \A c \in Conns : OpenClient(c) /\ idin[c] = hdr[packet].key => Unnamed(c)

Inv == TypeOK /\ LockInv /\ BootInv /\ ClientInv /\ PostInv /\ OrderInv /\ KeyInv

(* Every step keeps LockInv. *)
LEMMA LockStep == Inv /\ [Next]_vars => LockInv'
<1> SUFFICES ASSUME Inv, [Next]_vars PROVE LockInv'
  OBVIOUS
<1> USE DEF Inv, LockInv, InCritical, TypeOK, chanVars, connVars, Goto, Tasks, ClosePCs, RouterPCs, ServerPCs
<1>1. ASSUME NEW k \in Keys, NEW kind \in Kinds, NewPacket(k, kind)
      PROVE  LockInv'
  BY <1>1 DEF NewPacket
<1>2. CASE NextPacket
  BY <1>2 DEF NextPacket
<1>26. CASE Loopback
  BY <1>26 DEF Loopback
<1>27. CASE NextLooped
  BY <1>27 DEF NextLooped
<1>3. ASSUME NEW c \in Conns, FindExisting(c)
      PROVE  LockInv'
  BY <1>3 DEF FindExisting
<1>4. CASE FindNone
  BY <1>4 DEF FindNone
<1>5. CASE AllocateLock
  BY <1>5 DEF AllocateLock
<1>6. CASE AllocateTimeout
  BY <1>6 DEF AllocateTimeout
<1>7. ASSUME NEW c \in Conns, Allocate(c)
      PROVE  LockInv'
  BY <1>7 DEF Allocate, Take
<1>8. CASE AllocateNone
  BY <1>8 DEF AllocateNone
<1>9. CASE ConnNew
  BY <1>9 DEF ConnNew
<1>10. CASE Transport
  BY <1>10 DEF Transport
<1>11. CASE Post
  BY <1>11 DEF Post
<1>12. CASE Posted
  BY <1>12 DEF Posted
<1>13. ASSUME NEW t \in Tasks, CloseEnter(t)
       PROVE  LockInv'
  BY <1>13 DEF CloseEnter, Return
<1>14. ASSUME NEW t \in Tasks, CloseLock(t)
       PROVE  LockInv'
  BY <1>14 DEF CloseLock
<1>15. ASSUME NEW t \in Tasks, CloseTimeout(t)
       PROVE  LockInv'
  BY <1>15 DEF CloseTimeout, Return
<1>16. ASSUME NEW t \in Tasks, CloseMark(t)
       PROVE  LockInv'
  BY <1>16 DEF CloseMark
<1>17. ASSUME NEW t \in Tasks, CloseFlush(t)
       PROVE  LockInv'
  BY <1>17 DEF CloseFlush
<1>18. ASSUME NEW t \in Tasks, CloseUnlock(t)
       PROVE  LockInv'
  BY <1>18 DEF CloseUnlock, Return
<1>19. ASSUME NEW c \in Conns, Socket(c)
       PROVE  LockInv'
  BY <1>19 DEF Socket, Take
<1>20. CASE Bind
  BY <1>20 DEF Bind
<1>21. CASE Listen
  BY <1>21 DEF Listen
<1>22. CASE Accept
  BY <1>22 DEF Accept
<1>23. CASE Read
  BY <1>23 DEF Read
<1>24. CASE ReadNone
  BY <1>24 DEF ReadNone
<1>25. CASE UNCHANGED vars
  BY <1>25 DEF vars
<1> QED
  BY <1>1, <1>2, <1>3, <1>4, <1>5, <1>6, <1>7, <1>8, <1>9, <1>10, <1>11,
     <1>12, <1>13, <1>14, <1>15, <1>16, <1>17, <1>18, <1>19, <1>20, <1>21,
     <1>22, <1>23, <1>24, <1>25, <1>26, <1>27
     DEF Next, Router, Server, Close, Idle

(* Every step keeps BootInv. *)
LEMMA BootStep == Inv /\ [Next]_vars => BootInv'
<1> SUFFICES ASSUME Inv, [Next]_vars PROVE BootInv'
  OBVIOUS
<1> USE DEF Inv, BootInv, TypeOK, OpenClient, chanVars, connVars, Goto, Tasks, ClosePCs, RouterPCs, ServerPCs
<1>1. ASSUME NEW k \in Keys, NEW kind \in Kinds, NewPacket(k, kind)
      PROVE  BootInv'
  BY <1>1 DEF NewPacket
<1>2. CASE NextPacket
  BY <1>2 DEF NextPacket
<1>26. CASE Loopback
  BY <1>26 DEF Loopback
<1>27. CASE NextLooped
  BY <1>27 DEF NextLooped
<1>3. ASSUME NEW c \in Conns, FindExisting(c)
      PROVE  BootInv'
  BY <1>3 DEF FindExisting, Matching
<1>4. CASE FindNone
  BY <1>4 DEF FindNone, SocketFor
<1>5. CASE AllocateLock
  BY <1>5 DEF AllocateLock
<1>6. CASE AllocateTimeout
  BY <1>6 DEF AllocateTimeout
<1>7. ASSUME NEW c \in Conns, Allocate(c)
      PROVE  BootInv'
  BY <1>7 DEF Allocate, Take
<1>8. CASE AllocateNone
  BY <1>8 DEF AllocateNone
<1>9. CASE ConnNew
  BY <1>9 DEF ConnNew
<1>10. CASE Transport
  BY <1>10 DEF Transport
<1>11. CASE Post
  BY <1>11 DEF Post
<1>12. CASE Posted
  BY <1>12 DEF Posted
<1>13. ASSUME NEW t \in Tasks, CloseEnter(t)
       PROVE  BootInv'
  BY <1>13 DEF CloseEnter, Return
<1>14. ASSUME NEW t \in Tasks, CloseLock(t)
       PROVE  BootInv'
  BY <1>14 DEF CloseLock
<1>15. ASSUME NEW t \in Tasks, CloseTimeout(t)
       PROVE  BootInv'
  BY <1>15 DEF CloseTimeout, Return
<1>16. ASSUME NEW t \in Tasks, CloseMark(t)
       PROVE  BootInv'
  BY <1>16 DEF CloseMark
<1>17. ASSUME NEW t \in Tasks, CloseFlush(t)
       PROVE  BootInv'
  BY <1>17 DEF CloseFlush
<1>18. ASSUME NEW t \in Tasks, CloseUnlock(t)
       PROVE  BootInv'
  BY <1>18 DEF CloseUnlock, Return
<1>19. ASSUME NEW c \in Conns, Socket(c)
       PROVE  BootInv'
  BY <1>19 DEF Socket, Take
<1>20. CASE Bind
  BY <1>20 DEF Bind
<1>21. CASE Listen
  BY <1>21 DEF Listen
<1>22. CASE Accept
  BY <1>22 DEF Accept
<1>23. CASE Read
  BY <1>23 DEF Read
<1>24. CASE ReadNone
  BY <1>24 DEF ReadNone
<1>25. CASE UNCHANGED vars
  BY <1>25 DEF vars
<1> QED
  BY <1>1, <1>2, <1>3, <1>4, <1>5, <1>6, <1>7, <1>8, <1>9, <1>10, <1>11,
     <1>12, <1>13, <1>14, <1>15, <1>16, <1>17, <1>18, <1>19, <1>20, <1>21,
     <1>22, <1>23, <1>24, <1>25, <1>26, <1>27
     DEF Next, Router, Server, Close, Idle

(* Every step keeps ClientInv. *)
LEMMA ClientStep == Inv /\ [Next]_vars => ClientInv'
<1> SUFFICES ASSUME Inv, [Next]_vars PROVE ClientInv'
  OBVIOUS
<1> USE DEF Inv, ClientInv, TypeOK, RouterHolds, chanVars, connVars, Goto, Tasks, ClosePCs, RouterPCs, ServerPCs
<1>1. ASSUME NEW k \in Keys, NEW kind \in Kinds, NewPacket(k, kind)
      PROVE  ClientInv'
  BY <1>1 DEF NewPacket
<1>2. CASE NextPacket
  BY <1>2 DEF NextPacket
<1>26. CASE Loopback
  BY <1>26 DEF Loopback
<1>27. CASE NextLooped
  BY <1>27 DEF NextLooped
<1>3. ASSUME NEW c \in Conns, FindExisting(c)
      PROVE  ClientInv'
  BY <1>3 DEF FindExisting, Matching
<1>4. CASE FindNone
  BY <1>4 DEF FindNone
<1>5. CASE AllocateLock
  BY <1>5 DEF AllocateLock
<1>6. CASE AllocateTimeout
  BY <1>6 DEF AllocateTimeout
<1>7. ASSUME NEW c \in Conns, Allocate(c)
      PROVE  ClientInv'
  BY <1>7 DEF Allocate, Take
<1>8. CASE AllocateNone
  BY <1>8 DEF AllocateNone
<1>9. CASE ConnNew
  BY <1>9 DEF ConnNew
<1>10. CASE Transport
  BY <1>10 DEF Transport
<1>11. CASE Post
  BY <1>11 DEF Post
<1>12. CASE Posted
  BY <1>12 DEF Posted
<1>13. ASSUME NEW t \in Tasks, CloseEnter(t)
       PROVE  ClientInv'
  BY <1>13 DEF CloseEnter, Return
<1>14. ASSUME NEW t \in Tasks, CloseLock(t)
       PROVE  ClientInv'
  BY <1>14 DEF CloseLock
<1>15. ASSUME NEW t \in Tasks, CloseTimeout(t)
       PROVE  ClientInv'
  BY <1>15 DEF CloseTimeout, Return
<1>16. ASSUME NEW t \in Tasks, CloseMark(t)
       PROVE  ClientInv'
  BY <1>16 DEF CloseMark
<1>17. ASSUME NEW t \in Tasks, CloseFlush(t)
       PROVE  ClientInv'
  BY <1>17, QueueFacts DEF CloseFlush
<1>18. ASSUME NEW t \in Tasks, CloseUnlock(t)
       PROVE  ClientInv'
  BY <1>18 DEF CloseUnlock, Return
<1>19. ASSUME NEW c \in Conns, Socket(c)
       PROVE  ClientInv'
  BY <1>19, EmptyFacts DEF Socket, Take, BootInv
<1>20. CASE Bind
  BY <1>20 DEF Bind
<1>21. CASE Listen
  BY <1>21 DEF Listen
<1>22. CASE Accept
  BY <1>22 DEF Accept
<1>23. CASE Read
  BY <1>23 DEF Read
<1>24. CASE ReadNone
  BY <1>24 DEF ReadNone
<1>25. CASE UNCHANGED vars
  BY <1>25 DEF vars
<1> QED
  BY <1>1, <1>2, <1>3, <1>4, <1>5, <1>6, <1>7, <1>8, <1>9, <1>10, <1>11,
     <1>12, <1>13, <1>14, <1>15, <1>16, <1>17, <1>18, <1>19, <1>20, <1>21,
     <1>22, <1>23, <1>24, <1>25, <1>26, <1>27
     DEF Next, Router, Server, Close, Idle

(* Every step keeps PostInv. *)
LEMMA PostStep == Inv /\ [Next]_vars => PostInv'
<1> SUFFICES ASSUME Inv, [Next]_vars PROVE PostInv'
  OBVIOUS
<1> USE DEF Inv, PostInv, TypeOK, Queued, Serves, OpenClient, Unnamed, Unposted, RouterHolds, chanVars, connVars, Goto, Tasks, ClosePCs, RouterPCs, ServerPCs
<1>1. ASSUME NEW k \in Keys, NEW kind \in Kinds, NewPacket(k, kind)
      PROVE  PostInv'
  BY <1>1 DEF NewPacket
<1>2. CASE NextPacket
  BY <1>2 DEF NextPacket
<1>26. CASE Loopback
  BY <1>26 DEF Loopback
<1>27. CASE NextLooped
  BY <1>27 DEF NextLooped
<1>3. ASSUME NEW c \in Conns, FindExisting(c)
      PROVE  PostInv'
  BY <1>3 DEF FindExisting, Matching
<1>4. CASE FindNone
  BY <1>4 DEF FindNone
<1>5. CASE AllocateLock
  BY <1>5 DEF AllocateLock
<1>6. CASE AllocateTimeout
  BY <1>6 DEF AllocateTimeout
<1>7. ASSUME NEW c \in Conns, Allocate(c)
      PROVE  PostInv'
  <2>1. state[c] = "CLOSED"
    BY <1>7 DEF Allocate, Take, NextFree
  <2>2. pc["server"] # "flush"
    BY <1>7 DEF Allocate, LockInv, InCritical
  <2>3. ~ Queued(c) /\ ~ Serves(c)
    BY <2>1, <2>2
  <2> QED
    BY <1>7, <2>1, <2>2, <2>3 DEF Allocate, Take
<1>8. CASE AllocateNone
  BY <1>8 DEF AllocateNone
<1>9. CASE ConnNew
  BY <1>9 DEF ConnNew
<1>10. CASE Transport
  BY <1>10 DEF Transport
<1>11. CASE Post
  <2> DEFINE c == conn["router"]
  <2>1. CASE backlog' = backlog /\ pc' = [pc EXCEPT !["router"] = "next"]
    BY <1>11, <2>1 DEF Post
  <2>2. CASE toPost[c] /\ backlog' = backlog /\ pc' = [pc EXCEPT !["router"] = "close"]
    BY <1>11, <2>2 DEF Post
  <2>3. CASE /\ toPost[c]
             /\ backlog' = Append(backlog, c)
             /\ pc' = [pc EXCEPT !["router"] = "posted"]
    <3>1. c \in Conns /\ OpenClient(c) /\ ~ Serves(c) /\ ~ Queued(c)
      BY <1>11, <2>3 DEF Post
    <3>2. Range(backlog') = Range(backlog) \union {c} /\ Distinct(backlog')
      BY <2>3, <3>1, AppendFacts
    <3> QED
      BY <1>11, <2>3, <3>1, <3>2 DEF Post
  <2> QED
    BY <1>11, <2>1, <2>2, <2>3 DEF Post
<1>12. CASE Posted
  BY <1>12 DEF Posted
<1>13. ASSUME NEW t \in Tasks, CloseEnter(t)
       PROVE  PostInv'
  BY <1>13 DEF CloseEnter, Return
<1>14. ASSUME NEW t \in Tasks, CloseLock(t)
       PROVE  PostInv'
  BY <1>14 DEF CloseLock
<1>15. ASSUME NEW t \in Tasks, CloseTimeout(t)
       PROVE  PostInv'
  BY <1>15 DEF CloseTimeout, Return
<1>16. ASSUME NEW t \in Tasks, CloseMark(t)
       PROVE  PostInv'
  BY <1>16 DEF CloseMark
<1>17. ASSUME NEW t \in Tasks, CloseFlush(t)
       PROVE  PostInv'
  BY <1>17 DEF CloseFlush
<1>18. ASSUME NEW t \in Tasks, CloseUnlock(t)
       PROVE  PostInv'
  BY <1>18 DEF CloseUnlock, Return
<1>19. ASSUME NEW c \in Conns, Socket(c)
       PROVE  PostInv'
  <2>1. state[c] = "CLOSED" /\ backlog = <<>>
    BY <1>19 DEF Socket, Take, NextFree, BootInv
  <2>2. pc["router"] \in {"next", "find", "loopback"} /\ pc["server"] = "socket"
    BY <1>19 DEF Socket, BootInv
  <2> QED
    BY <1>19, <2>1, <2>2, EmptyFacts DEF Socket, Take
<1>20. CASE Bind
  BY <1>20 DEF Bind
<1>21. CASE Listen
  BY <1>21 DEF Listen
<1>22. CASE Accept
  <2>1. /\ Head(backlog) \in Range(backlog)
        /\ Range(backlog') \subseteq Range(backlog)
        /\ Distinct(backlog') /\ Head(backlog) \notin Range(backlog')
    BY <1>22, TailFacts DEF Accept
  <2>2. Head(backlog) \in Conns
    BY <1>22, QueueFacts DEF Accept
  <2> QED
    BY <1>22, <2>1, <2>2 DEF Accept
<1>23. CASE Read
  BY <1>23 DEF Read
<1>24. CASE ReadNone
  BY <1>24 DEF ReadNone
<1>25. CASE UNCHANGED vars
  BY <1>25 DEF vars
<1> QED
  BY <1>1, <1>2, <1>3, <1>4, <1>5, <1>6, <1>7, <1>8, <1>9, <1>10, <1>11,
     <1>12, <1>13, <1>14, <1>15, <1>16, <1>17, <1>18, <1>19, <1>20, <1>21,
     <1>22, <1>23, <1>24, <1>25, <1>26, <1>27
     DEF Next, Router, Server, Close, Idle

(* A step that leaves the FIFO alone leaves the arrivals alone.                *)
LEMMA ArrivalsKept == fifo' = fifo => Arrivals' = Arrivals
BY DEF Arrivals

(* Queueing a frame, or the mark of one the loopback returns, in the FIFO.     *)
LEMMA FifoAppend ==
    ASSUME TypeOK, NEW e \in Frames \union {Looped}, fifo' = Append(fifo, e)
    PROVE  Arrivals' = Arrivals \union ({e} \ {Looped})
<1>1. Range(Append(fifo, e)) = Range(fifo) \union {e}
  <2> fifo \in Seq(Frames \union {Looped})
    BY DEF TypeOK
  <2> QED
    BY AppendFacts
<1> QED
  BY <1>1 DEF Arrivals

(* Every step keeps OrderInv. *)
LEMMA OrderStep == Inv /\ [Next]_vars => OrderInv'
<1> SUFFICES ASSUME Inv, [Next]_vars PROVE OrderInv'
  OBVIOUS
<1> USE RouterAssumption, ArrivalsKept DEF Inv, OrderInv, TypeOK, InHand, chanVars, connVars, Goto, Tasks, ClosePCs, RouterPCs, ServerPCs
<1>0. /\ Arrivals \subseteq Frames
      /\ \A c \in Conns : Range(rxq[c]) \subseteq Frames
  BY RangeOfSeq DEF Arrivals
<1>1. ASSUME NEW k \in Keys, NEW kind \in Kinds, NewPacket(k, kind)
      PROVE  OrderInv'
  <2>1. CASE fifo' = fifo
    BY <1>1, <1>0, <2>1 DEF NewPacket, Frames, Arrivals
  <2>2. CASE fifo' = Append(fifo, sent + 1)
    <3>1. sent + 1 \in Frames /\ sent + 1 \in Frames \union {Looped}
      BY <1>1 DEF NewPacket, Frames
    <3>2. \A m \in Arrivals : m < sent + 1
      BY <1>0 DEF Frames
    <3>3. Arrivals' = Arrivals \union {sent + 1} /\ AscendingBut(Looped, fifo')
      <4>1. Arrivals' = Arrivals \union ({sent + 1} \ {Looped})
        BY <2>2, <3>1, FifoAppend
      <4>2. AscendingBut(Looped, fifo')
        BY <2>2, <3>1, <3>2, AscendingButFacts DEF Arrivals
      <4> QED
        BY <3>1, <4>1, <4>2 DEF Looped, Frames
    <3> QED
      <4>1. sent' = sent + 1 /\ rxq' = rxq /\ packet' = packet /\ (InHand' <=> InHand)
        BY <1>1 DEF NewPacket
      <4>2. \A m \in Arrivals' : m <= sent'
        BY <1>0, <3>2, <3>3, <4>1 DEF Frames
      <4>3. InHand' => packet' <= sent' /\ \A m \in Arrivals' : packet' < m
        BY <1>0, <3>3, <4>1 DEF Frames
      <4>4. ASSUME NEW c \in Conns
            PROVE  /\ Ascending(rxq'[c])
                   /\ \A n \in Range(rxq'[c]) : /\ n <= sent'
                                                /\ \A m \in Arrivals' : n < m
                                                /\ InHand' => n < packet'
        BY <1>0, <3>3, <4>1 DEF Frames
      <4> QED
        BY <3>3, <4>2, <4>3, <4>4
  <2> QED
    BY <1>1, <2>1, <2>2 DEF NewPacket
<1>2. CASE NextPacket
  <2>1. /\ packet' \in Arrivals /\ packet' \in Frames
        /\ Arrivals' \subseteq Arrivals
        /\ AscendingBut(Looped, fifo') /\ \A m \in Arrivals' : packet' < m
    <3>1. /\ fifo # <<>> /\ fifo' = Tail(fifo) /\ packet' = Head(fifo)
          /\ Head(fifo) # Looped
      BY <1>2 DEF NextPacket
    <3>2. Head(fifo) \in Range(fifo) /\ Range(Tail(fifo)) \subseteq Range(fifo)
      BY <3>1, TailFacts
    <3>3. /\ AscendingBut(Looped, Tail(fifo))
          /\ \A x \in Range(Tail(fifo)) : x # Looped => Head(fifo) < x
      BY <3>1, AscendingButFacts
    <3> QED
      BY <1>0, <3>1, <3>2, <3>3 DEF Arrivals
  <2> QED
    <3>1. sent' = sent /\ rxq' = rxq
      BY <1>2 DEF NextPacket
    <3>2. packet' <= sent' /\ \A m \in Arrivals' : m <= sent' /\ packet' < m
      BY <2>1, <3>1
    <3>3. ASSUME NEW c \in Conns
          PROVE  /\ Ascending(rxq'[c])
                 /\ \A n \in Range(rxq'[c]) : /\ n <= sent'
                                              /\ \A m \in Arrivals' : n < m
                                              /\ n < packet'
      BY <2>1, <3>1
    <3> QED
      BY <2>1, <3>2, <3>3
<1>26. CASE Loopback \/ NextLooped
  <2>1. /\ AscendingBut(Looped, fifo') /\ Arrivals' \subseteq Arrivals
        /\ UNCHANGED <<sent, packet, rxq>> /\ pc'["router"] = "next"
    <3>1. CASE Loopback
      <4>1. CASE fifo' = fifo
        BY <3>1, <4>1 DEF Loopback, Arrivals
      <4>2. CASE fifo' = Append(fifo, Looped)
        <5>1. Arrivals' = Arrivals \union ({Looped} \ {Looped})
          BY <4>2, FifoAppend
        <5>2. AscendingBut(Looped, fifo')
          BY <4>2, AscendingButFacts
        <5> QED
          BY <3>1, <5>1, <5>2 DEF Loopback
      <4> QED
        BY <3>1, <4>1, <4>2 DEF Loopback
    <3>2. CASE NextLooped
      <4>1. fifo # <<>> /\ fifo' = Tail(fifo)
        BY <3>2 DEF NextLooped
      <4>2. Range(fifo') \subseteq Range(fifo) /\ AscendingBut(Looped, fifo')
        BY <4>1, TailFacts, AscendingButFacts
      <4> QED
        BY <3>2, <4>2 DEF NextLooped, Arrivals
    <3> QED
      BY <1>26, <3>1, <3>2
  <2>2. ~InHand'
    BY <2>1
  <2> QED
    BY <2>1, <2>2
<1>3. ASSUME NEW c \in Conns, FindExisting(c)
      PROVE  OrderInv'
  BY <1>3 DEF FindExisting
<1>4. CASE FindNone
  BY <1>4 DEF FindNone
<1>5. CASE AllocateLock
  BY <1>5 DEF AllocateLock
<1>6. CASE AllocateTimeout
  BY <1>6 DEF AllocateTimeout
<1>7. ASSUME NEW c \in Conns, Allocate(c)
      PROVE  OrderInv'
  BY <1>7 DEF Allocate, Take
<1>8. CASE AllocateNone
  BY <1>8 DEF AllocateNone
<1>9. CASE ConnNew
  BY <1>9, EmptyFacts DEF ConnNew
<1>10. CASE Transport
  <2> DEFINE c == conn["router"]
  <2>1. c \in Conns /\ packet \in Frames /\ InHand /\ ~ InHand'
    BY <1>10 DEF Transport
  <2>2. CASE rxq' = rxq
    BY <1>10, <2>1, <2>2 DEF Transport
  <2>3. CASE rxq' = [rxq EXCEPT ![c] = Append(@, packet)]
    <3>1. \A n \in Range(rxq[c]) : n < packet
      BY <1>10, <2>1 DEF Transport
    <3>2. /\ Range(rxq'[c]) = Range(rxq[c]) \union {packet}
          /\ Ascending(rxq'[c])
      BY <2>1, <2>3, <3>1, AppendFacts
    <3> QED
      <4>1. sent' = sent /\ fifo' = fifo
        BY <1>10 DEF Transport
      <4>2. ASSUME NEW d \in Conns
            PROVE  /\ Ascending(rxq'[d])
                   /\ \A n \in Range(rxq'[d]) : n <= sent' /\ \A m \in Arrivals' : n < m
        BY <2>1, <2>3, <3>2, <4>1
      <4> QED
        BY <2>1, <4>1, <4>2
  <2> QED
    BY <1>10, <2>2, <2>3 DEF Transport
<1>11. CASE Post
  BY <1>11 DEF Post
<1>12. CASE Posted
  BY <1>12 DEF Posted
<1>13. ASSUME NEW t \in Tasks, CloseEnter(t)
       PROVE  OrderInv'
  BY <1>13 DEF CloseEnter, Return
<1>14. ASSUME NEW t \in Tasks, CloseLock(t)
       PROVE  OrderInv'
  BY <1>14 DEF CloseLock
<1>15. ASSUME NEW t \in Tasks, CloseTimeout(t)
       PROVE  OrderInv'
  BY <1>15 DEF CloseTimeout, Return
<1>16. ASSUME NEW t \in Tasks, CloseMark(t)
       PROVE  OrderInv'
  BY <1>16 DEF CloseMark
<1>17. ASSUME NEW t \in Tasks, CloseFlush(t)
       PROVE  OrderInv'
  <2>1. conn[t] \in Conns
    OBVIOUS
  <2>2. /\ Range(rxq'[conn[t]]) \subseteq Range(rxq[conn[t]])
        /\ Ascending(rxq'[conn[t]])
    BY <1>17, <2>1, TailFacts DEF CloseFlush
  <2> QED
    BY <1>17, <2>1, <2>2 DEF CloseFlush
<1>18. ASSUME NEW t \in Tasks, CloseUnlock(t)
       PROVE  OrderInv'
  BY <1>18 DEF CloseUnlock, Return
<1>19. ASSUME NEW c \in Conns, Socket(c)
       PROVE  OrderInv'
  BY <1>19 DEF Socket, Take
<1>20. CASE Bind
  BY <1>20 DEF Bind
<1>21. CASE Listen
  BY <1>21 DEF Listen
<1>22. CASE Accept
  BY <1>22 DEF Accept
<1>23. CASE Read
  <2> DEFINE c == conn["server"]
  <2>1. c \in Conns
    OBVIOUS
  <2>2. Range(rxq'[c]) \subseteq Range(rxq[c]) /\ Ascending(rxq'[c])
    BY <1>23, <2>1, TailFacts DEF Read
  <2> QED
    BY <1>23, <2>1, <2>2 DEF Read
<1>24. CASE ReadNone
  BY <1>24 DEF ReadNone
<1>25. CASE UNCHANGED vars
  BY <1>25 DEF vars
<1> QED
  BY <1>1, <1>2, <1>3, <1>4, <1>5, <1>6, <1>7, <1>8, <1>9, <1>10, <1>11,
     <1>12, <1>13, <1>14, <1>15, <1>16, <1>17, <1>18, <1>19, <1>20, <1>21,
     <1>22, <1>23, <1>24, <1>25, <1>26
     DEF Next, Router, Server, Close, Idle

(* Every step keeps KeyInv. *)
LEMMA KeyStep == Inv /\ [Next]_vars => KeyInv'
<1> SUFFICES ASSUME Inv, [Next]_vars PROVE KeyInv'
  OBVIOUS
<1> USE RouterAssumption DEF Inv, KeyInv, NoMisdelivery, UniqueKey, Usable, TypeOK, OpenClient, Unnamed, InHand, Headers, chanVars, connVars, Goto, Tasks, ClosePCs, RouterPCs, ServerPCs
<1>0. \A c \in Conns : Range(rxq[c]) \subseteq Frames
  BY RangeOfSeq
<1>1. ASSUME NEW k \in Keys, NEW kind \in Kinds, NewPacket(k, kind)
      PROVE  KeyInv'
  <2>1. \A c \in Conns : \A n \in Range(rxq[c]) : hdr'[n] = hdr[n]
    BY <1>1, <1>0 DEF NewPacket, OrderInv, Frames
  <2>2. InHand => hdr'[packet] = hdr[packet]
    BY <1>1 DEF NewPacket, OrderInv, Frames, InHand
  <2> QED
    BY <1>1, <2>1, <2>2 DEF NewPacket
<1>2. CASE NextPacket
  BY <1>2 DEF NextPacket
<1>26. CASE Loopback
  BY <1>26 DEF Loopback
<1>27. CASE NextLooped
  BY <1>27 DEF NextLooped
<1>3. ASSUME NEW c \in Conns, FindExisting(c)
      PROVE  KeyInv'
  BY <1>3 DEF FindExisting, Matching
<1>4. CASE FindNone
  BY ZenonT(40), <1>4 DEF FindNone, Matching
<1>5. CASE AllocateLock
  BY <1>5 DEF AllocateLock
<1>6. CASE AllocateTimeout
  BY <1>6 DEF AllocateTimeout
<1>7. ASSUME NEW c \in Conns, Allocate(c)
      PROVE  KeyInv'
  BY <1>7 DEF Allocate, Take
<1>8. CASE AllocateNone
  BY <1>8 DEF AllocateNone
<1>9. CASE ConnNew
  BY <1>9, EmptyFacts DEF ConnNew, PostInv
<1>10. CASE Transport
  <2> DEFINE c == conn["router"]
  <2>1. c \in Conns /\ packet \in Frames /\ idin[c] = hdr[packet].key
    BY <1>10 DEF Transport
  <2>2. CASE rxq' = rxq
    BY <1>10, <2>1, <2>2 DEF Transport
  <2>3. CASE rxq' = [rxq EXCEPT ![c] = Append(@, packet)]
    <3>1. Range(rxq'[c]) = Range(rxq[c]) \union {packet}
      BY <2>1, <2>3, AppendFacts
    <3> QED
      BY <1>10, <2>1, <2>3, <3>1 DEF Transport
  <2> QED
    BY <1>10, <2>2, <2>3 DEF Transport
<1>11. CASE Post
  BY <1>11 DEF Post
<1>12. CASE Posted
  BY <1>12 DEF Posted
<1>13. ASSUME NEW t \in Tasks, CloseEnter(t)
       PROVE  KeyInv'
  BY <1>13 DEF CloseEnter, Return
<1>14. ASSUME NEW t \in Tasks, CloseLock(t)
       PROVE  KeyInv'
  BY <1>14 DEF CloseLock
<1>15. ASSUME NEW t \in Tasks, CloseTimeout(t)
       PROVE  KeyInv'
  BY <1>15 DEF CloseTimeout, Return
<1>16. ASSUME NEW t \in Tasks, CloseMark(t)
       PROVE  KeyInv'
  BY <1>16 DEF CloseMark
<1>17. ASSUME NEW t \in Tasks, CloseFlush(t)
       PROVE  KeyInv'
  <2>1. conn[t] \in Conns
    OBVIOUS
  <2>2. Range(rxq'[conn[t]]) \subseteq Range(rxq[conn[t]])
    BY <1>17, <2>1, TailFacts DEF CloseFlush
  <2> QED
    BY <1>17, <2>1, <2>2 DEF CloseFlush
<1>18. ASSUME NEW t \in Tasks, CloseUnlock(t)
       PROVE  KeyInv'
  BY <1>18 DEF CloseUnlock, Return
<1>19. ASSUME NEW c \in Conns, Socket(c)
       PROVE  KeyInv'
  <2>1. rxq[c] = <<>> /\ pc["router"] \in {"next", "find", "loopback"}
    BY <1>19 DEF Socket, BootInv
  <2> QED
    BY <1>19, <2>1, EmptyFacts DEF Socket, Take
<1>20. CASE Bind
  BY <1>20 DEF Bind
<1>21. CASE Listen
  BY <1>21 DEF Listen
<1>22. CASE Accept
  BY <1>22 DEF Accept
<1>23. CASE Read
  <2> DEFINE c == conn["server"]
  <2>1. c \in Conns
    OBVIOUS
  <2>2. Range(rxq'[c]) \subseteq Range(rxq[c])
    BY <1>23, <2>1, TailFacts DEF Read
  <2> QED
    BY <1>23, <2>1, <2>2 DEF Read
<1>24. CASE ReadNone
  BY <1>24 DEF ReadNone
<1>25. CASE UNCHANGED vars
  BY <1>25 DEF vars
<1> QED
  BY <1>1, <1>2, <1>3, <1>4, <1>5, <1>6, <1>7, <1>8, <1>9, <1>10, <1>11,
     <1>12, <1>13, <1>14, <1>15, <1>16, <1>17, <1>18, <1>19, <1>20, <1>21,
     <1>22, <1>23, <1>24, <1>25, <1>26, <1>27
     DEF Next, Router, Server, Close, Idle

-----------------------------------------------------------------------------
(* The invariant holds initially. *)
LEMMA InvInit == Init => Inv
<1> SUFFICES ASSUME Init PROVE Inv
  OBVIOUS
<1>1. TypeOK
  BY TypeInit
<1>2. LockInv
  BY DEF Init, LockInv, InCritical, Tasks
<1>3. BootInv /\ ClientInv
  BY DEF Init, BootInv, ClientInv, OpenClient, RouterHolds, ClosePCs
<1>4. PostInv
  BY EmptyFacts DEF Init, PostInv, Queued, Serves, Unnamed, RouterHolds, ClosePCs, Tasks
<1>5. OrderInv
  BY EmptyFacts DEF Init, OrderInv, InHand, Arrivals, AscendingBut
<1>6. KeyInv
  BY DEF Init, KeyInv, NoMisdelivery, UniqueKey, Usable, OpenClient
<1> QED
  BY <1>1, <1>2, <1>3, <1>4, <1>5, <1>6 DEF Inv

(* Every reachable state satisfies it. *)
THEOREM Invariance == Spec => []Inv
<1>1. Inv /\ [Next]_vars => Inv'
  BY TypeStep, LockStep, BootStep, ClientStep, PostStep, OrderStep, KeyStep DEF Inv
<1> QED
  BY InvInit, <1>1, PTL DEF Spec

(* conn_lock excludes the two tasks from each other. *)
THEOREM LockExcludes == Spec => []Exclusion
<1>1. Inv => Exclusion
  BY DEF Inv, LockInv, Exclusion, Tasks
<1> QED
  BY Invariance, <1>1, PTL

(* No packet is read under another connection's id. *)
THEOREM NeverMisdelivered == Spec => []NoMisdelivery
<1>1. Inv => NoMisdelivery
  BY DEF Inv, KeyInv
<1> QED
  BY Invariance, <1>1, PTL

(* At most one open connection per id. *)
THEOREM KeysAreUnique == Spec => []UniqueKey
<1>1. Inv => UniqueKey
  BY DEF Inv, KeyInv
<1> QED
  BY Invariance, <1>1, PTL

(* A connection is posted at most once, and open while it waits or is read.   *)
THEOREM NeverPostedTwice == Spec => []PostedOnce
<1>1. Inv => PostedOnce
  BY DEF Inv, PostInv, PostedOnce, Distinct, OpenClient
<1> QED
  BY Invariance, <1>1, PTL

-----------------------------------------------------------------------------
(* The receive path implements FrameService.                                  *)

LEMMA PendingMember ==
    \A x : x \in Pending <=> \/ x \in Arrivals
                             \/ InHand /\ x = packet
                             \/ \E c \in Conns : Usable(c) /\ x \in Range(rxq[c])
BY DEF Pending, Arrivals

(* The same of the next state.                                                *)
LEMMA PendingMemberNext ==
    \A x : x \in Pending' <=> \/ x \in Arrivals'
                              \/ InHand' /\ x = packet'
                              \/ \E c \in Conns : Usable(c)' /\ x \in Range(rxq'[c])
BY DEF Pending, Arrivals, InHand, Usable

(* A step that only lets go of frames is a loss, or nothing, to the service.  *)
LEMMA LettingGo ==
    ASSUME sent' = sent, hdr' = hdr, delivered' = delivered, Pending' \subseteq Pending
    PROVE  [Service!Next]_(Service!vars)
<1> DEFINE S == Pending \ Pending'
<1>1. KeyOf' = KeyOf
  BY DEF KeyOf
<1>2. CASE S = {}
  <2>1. Pending' = Pending
    BY <1>2
  <2> QED
    BY <1>1, <2>1 DEF Service!vars
<1>3. CASE S # {}
  <2>1. S \in SUBSET Pending /\ Pending' = Pending \ S
    OBVIOUS
  <2>2. Service!Lose(S)
    BY <1>1, <1>3, <2>1 DEF Service!Lose
  <2> QED
    BY <2>1, <2>2 DEF Service!Next, Service!Resolve
<1> QED
  BY <1>2, <1>3

(* Every step but the arrival and the delivery of a frame only lets go.       *)
LEMMA QuietSteps ==
    ASSUME Inv, Next,
           ~ \E k \in Keys, kind \in Kinds : NewPacket(k, kind),
           ~ Read
    PROVE  /\ sent' = sent /\ hdr' = hdr /\ delivered' = delivered
           /\ Pending' \subseteq Pending
<1> DEFINE Quiet == /\ sent' = sent /\ hdr' = hdr /\ delivered' = delivered
                    /\ \A x : x \in Pending' => x \in Pending
<1> SUFFICES Quiet
  OBVIOUS
<1> USE PendingMember, PendingMemberNext, ArrivalsKept
    DEF Inv, InHand, Usable, Unnamed, TypeOK, chanVars, connVars, Goto, Tasks, ClosePCs,
        RouterPCs, ServerPCs
<1>1. CASE NextPacket
  <2>1. packet' \in Arrivals /\ Arrivals' \subseteq Arrivals
    BY <1>1, TailFacts DEF NextPacket, Arrivals
  <2> QED
    BY <1>1, <2>1 DEF NextPacket
<1>24. CASE Loopback \/ NextLooped
  <2>1. Arrivals' \subseteq Arrivals
    <3>1. CASE Loopback
      BY <3>1, FifoAppend DEF Loopback
    <3>2. CASE NextLooped
      BY <3>2, TailFacts DEF NextLooped, Arrivals
    <3> QED
      BY <1>24, <3>1, <3>2
  <2> QED
    BY <1>24, <2>1 DEF Loopback, NextLooped
<1>2. ASSUME NEW c \in Conns, FindExisting(c)
      PROVE  Quiet
  BY <1>2 DEF FindExisting
<1>3. CASE FindNone
  BY <1>3 DEF FindNone
<1>4. CASE AllocateLock
  BY <1>4 DEF AllocateLock
<1>5. CASE AllocateTimeout
  BY <1>5 DEF AllocateTimeout
<1>6. ASSUME NEW c \in Conns, Allocate(c)
      PROVE  Quiet
  BY <1>6 DEF Allocate, Take, NextFree
<1>7. CASE AllocateNone
  BY <1>7 DEF AllocateNone
<1>8. CASE ConnNew
  BY <1>8, EmptyFacts DEF ConnNew
<1>9. CASE Transport
  <2> DEFINE c == conn["router"]
  <2>1. c \in Conns /\ packet \in Frames /\ InHand
    BY <1>9 DEF Transport
  <2>2. CASE rxq' = rxq
    BY <1>9, <2>1, <2>2 DEF Transport
  <2>3. CASE rxq' = [rxq EXCEPT ![c] = Append(@, packet)]
    <3>1. Range(rxq'[c]) = Range(rxq[c]) \union {packet}
      BY <2>1, <2>3, AppendFacts
    <3> QED
      BY <1>9, <2>1, <2>3, <3>1 DEF Transport
  <2> QED
    BY <1>9, <2>2, <2>3 DEF Transport
<1>10. CASE Post
  BY ZenonT(40), <1>10 DEF Post
<1>11. CASE Posted
  BY <1>11 DEF Posted
<1>12. ASSUME NEW t \in Tasks, CloseEnter(t)
       PROVE  Quiet
  BY <1>12 DEF CloseEnter, Return
<1>13. ASSUME NEW t \in Tasks, CloseLock(t)
       PROVE  Quiet
  BY <1>13 DEF CloseLock
<1>14. ASSUME NEW t \in Tasks, CloseTimeout(t)
       PROVE  Quiet
  BY <1>14 DEF CloseTimeout, Return
<1>15. ASSUME NEW t \in Tasks, CloseMark(t)
       PROVE  Quiet
  BY <1>15 DEF CloseMark
<1>16. ASSUME NEW t \in Tasks, CloseFlush(t)
       PROVE  Quiet
  <2>1. conn[t] \in Conns
    OBVIOUS
  <2>2. Range(rxq'[conn[t]]) \subseteq Range(rxq[conn[t]])
    BY <1>16, <2>1, TailFacts DEF CloseFlush
  <2> QED
    BY <1>16, <2>1, <2>2 DEF CloseFlush
<1>17. ASSUME NEW t \in Tasks, CloseUnlock(t)
       PROVE  Quiet
  BY <1>17 DEF CloseUnlock, Return
<1>18. ASSUME NEW c \in Conns, Socket(c)
       PROVE  Quiet
  <2>1. rxq[c] = <<>> /\ pc["router"] \in {"next", "find", "loopback"}
    BY <1>18 DEF Socket, BootInv
  <2> QED
    BY <1>18, <2>1, EmptyFacts DEF Socket, Take
<1>19. CASE Bind
  BY <1>19 DEF Bind
<1>20. CASE Listen
  BY <1>20 DEF Listen
<1>21. CASE Accept
  BY <1>21 DEF Accept
<1>22. CASE ReadNone
  BY <1>22 DEF ReadNone
<1>23. CASE Idle
  BY <1>23 DEF Idle, vars
<1> QED
  BY <1>1, <1>2, <1>3, <1>4, <1>5, <1>6, <1>7, <1>8, <1>9, <1>10, <1>11,
     <1>12, <1>13, <1>14, <1>15, <1>16, <1>17, <1>18, <1>19, <1>20, <1>21,
     <1>22, <1>23, <1>24
     DEF Next, Router, Server, Close

(* The arrival of a frame is an offer to the service.                         *)
LEMMA OfferStep ==
    ASSUME Inv, NEW k \in Keys, NEW kind \in Kinds, NewPacket(k, kind)
    PROVE  Service!Offer(k)
<1> USE RouterAssumption, PendingMember, PendingMemberNext
    DEF Inv, TypeOK, chanVars, connVars
<1>1. sent < MaxFrames /\ sent' = sent + 1 /\ delivered' = delivered /\ sent + 1 \in Frames
  BY DEF NewPacket, Frames
<1>2. KeyOf' = [KeyOf EXCEPT ![sent + 1] = k]
  <2>1. \A n \in Frames : hdr'[n].key = IF n = sent + 1 THEN k ELSE hdr[n].key
    BY <1>1 DEF NewPacket
  <2> QED
    BY <1>1, <2>1 DEF KeyOf
<1>3. InHand' = InHand /\ packet' = packet /\ rxq' = rxq /\ \A c \in Conns : Usable(c)' = Usable(c)
  BY DEF NewPacket, InHand, Usable, Unnamed
<1>4. CASE fifo' = fifo
  <2>1. Pending' = Pending
    BY <1>3, <1>4, ArrivalsKept
  <2> QED
    BY <1>1, <1>2, <2>1 DEF Service!Offer
<1>5. CASE fifo' = Append(fifo, sent + 1)
  <2>1. Arrivals' = Arrivals \union ({sent + 1} \ {Looped})
    BY <1>1, <1>5, FifoAppend
  <2>2. Pending' = Pending \union {sent + 1}
    BY <1>1, <1>3, <2>1 DEF Looped, Frames
  <2> QED
    BY <1>1, <1>2, <2>2 DEF Service!Offer
<1> QED
  BY <1>4, <1>5 DEF NewPacket

(* csp_read delivers the oldest frame the path holds of its key.              *)
LEMMA DeliverStep ==
    ASSUME Inv, Read
    PROVE  \E n \in Pending : Service!Deliver(n)
<1> DEFINE c == conn["server"]
           n == Head(rxq[c])
<1> USE DEF Inv, TypeOK, chanVars, connVars, Tasks
<1>1. /\ c \in Conns /\ state[c] = "OPEN" /\ pc["server"] = "read"
      /\ rxq[c] \in Seq(Frames) /\ rxq[c] # <<>>
      /\ rxq' = [rxq EXCEPT ![c] = Tail(rxq[c])]
      /\ delivered' = Append(delivered, n)
      /\ sent' = sent /\ hdr' = hdr /\ fifo' = fifo /\ packet' = packet
      /\ pc' = pc /\ conn' = conn /\ state' = state
  BY DEF Read
<1>2. Usable(c)
  BY <1>1 DEF PostInv, Usable, Serves
<1>3. /\ n \in Range(rxq[c]) /\ n \in Frames
      /\ Range(rxq[c]) = Range(rxq'[c]) \union {n}
      /\ \A x \in Range(rxq'[c]) : n < x
  BY <1>1, TailFacts, QueueFacts DEF OrderInv
<1>4. \A x \in Arrivals : n < x
  BY <1>1, <1>3 DEF OrderInv
<1>5. InHand => n < packet
  BY <1>1, <1>3 DEF OrderInv
<1>6. ASSUME NEW d \in Conns, Usable(d), d # c, NEW x \in Range(rxq[d])
      PROVE  hdr[x].key # hdr[n].key
  <2>1. hdr[x].key = idin[d] /\ hdr[n].key = idin[c]
    BY <1>2, <1>3, <1>6 DEF KeyInv, NoMisdelivery
  <2>2. type[c] = "CLIENT" /\ type[d] = "CLIENT"
    <3>1. rxq[c] # <<>> /\ rxq[d] # <<>>
      BY <1>1, <1>6, EmptyFacts
    <3> QED
      BY <1>1, <3>1 DEF ClientInv
  <2>3. idin[c] # idin[d]
    BY <1>1, <1>2, <1>6, <2>2 DEF KeyInv, UniqueKey, Usable, OpenClient
  <2> QED
    BY <2>1, <2>3
<1>7. n \in Pending
  BY <1>1, <1>2, <1>3, PendingMember
<1>8. ASSUME NEW m \in Pending, m # n
      PROVE  m \in Pending' /\ (hdr[m].key = hdr[n].key => n < m)
  <2>1. InHand' = InHand /\ \A d \in Conns : Usable(d)' = Usable(d)
    BY <1>1 DEF InHand, Usable, Unnamed
  <2>2. CASE m \in Arrivals
    BY <1>1, <1>4, <2>2, PendingMemberNext DEF Arrivals
  <2>3. CASE InHand /\ m = packet
    BY <1>1, <1>5, <2>1, <2>3, PendingMemberNext
  <2>4. ASSUME NEW d \in Conns, Usable(d), m \in Range(rxq[d])
        PROVE  m \in Pending' /\ (hdr[m].key = hdr[n].key => n < m)
    <3>1. CASE d = c
      <4>1. m \in Range(rxq'[c])
        BY <1>3, <1>8, <2>4, <3>1
      <4> QED
        BY <1>1, <1>2, <1>3, <2>1, <4>1, PendingMemberNext
    <3>2. CASE d # c
      <4>1. rxq'[d] = rxq[d]
        BY <1>1, <3>2
      <4> QED
        BY <1>6, <2>1, <2>4, <3>2, <4>1, PendingMemberNext
    <3> QED
      BY <3>1, <3>2
  <2> QED
    BY <2>2, <2>3, <2>4, PendingMember
<1>9. Pending' = Pending \ {n}
  <2>1. InHand' = InHand /\ \A d \in Conns : Usable(d)' = Usable(d)
    BY <1>1 DEF InHand, Usable, Unnamed
  <2>2. ASSUME NEW x \in Pending' PROVE x \in Pending /\ x # n
    <3>1. CASE x \in Arrivals'
      BY <1>1, <1>3, <1>4, <3>1, PendingMember DEF Frames, Arrivals
    <3>2. CASE InHand' /\ x = packet'
      BY <1>1, <1>3, <1>5, <2>1, <3>2, PendingMember DEF Frames
    <3>3. ASSUME NEW d \in Conns, Usable(d)', x \in Range(rxq'[d])
          PROVE  x \in Pending /\ x # n
      <4>1. CASE d = c
        BY <1>2, <1>3, <3>3, <4>1, PendingMember, <1>1 DEF Frames
      <4>2. CASE d # c
        <5>1. rxq'[d] = rxq[d] /\ Usable(d)
          BY <1>1, <2>1, <3>3, <4>2
        <5>2. x # n
          BY <1>6, <3>3, <4>2, <5>1
        <5> QED
          BY <3>3, <5>1, <5>2, PendingMember
      <4> QED
        BY <4>1, <4>2
    <3> QED
      BY <3>1, <3>2, <3>3, PendingMemberNext
  <2> QED
    BY <1>8, <2>2
<1>10. KeyOf' = KeyOf /\ \A m \in Pending : KeyOf[m] = KeyOf[n] => n <= m
  <2>1. Pending \subseteq Frames
    <3>1. Arrivals \subseteq Frames /\ \A d \in Conns : Range(rxq[d]) \subseteq Frames
      BY RangeOfSeq DEF Arrivals
    <3>2. InHand => packet \in Frames
      BY DEF InHand
    <3> QED
      BY <3>1, <3>2, PendingMember
  <2>2. \A m \in Frames : KeyOf[m] = hdr[m].key
    BY DEF KeyOf
  <2> QED
    <3>1. KeyOf' = KeyOf
      BY <1>1 DEF KeyOf
    <3>2. ASSUME NEW m \in Pending, KeyOf[m] = KeyOf[n]
          PROVE  n <= m
      <4>1. hdr[m].key = hdr[n].key /\ n \in Int /\ m \in Int
        BY <1>3, <2>1, <2>2, <3>2 DEF Frames
      <4>2. CASE m = n
        BY <4>1, <4>2
      <4>3. CASE m # n
        <5>1. n < m
          BY <1>8, <3>2, <4>1, <4>3
        <5> HIDE DEF n
        <5> QED
          BY <4>1, <5>1
      <4> QED
        BY <4>2, <4>3
    <3> QED
      BY <3>1, <3>2
<1>11. Service!Deliver(n)
  BY <1>1, <1>7, <1>9, <1>10 DEF Service!Deliver
<1> QED
  BY <1>7, <1>11

(* The receive path is an unreliable service that never repeats a frame or    *)
(* delivers two of the same connection id out of order.                       *)
THEOREM Implements == Spec => ImplementsService
<1>1. Init => Service!Init
  <2> SUFFICES ASSUME Init PROVE Service!Init
    OBVIOUS
  <2>1. Pending = {}
    BY EmptyFacts, PendingMember DEF Init, InHand, Usable, Arrivals
  <2>2. KeyOf = [n \in Service!Frames |-> NoKey]
    BY DEF Init, KeyOf, Frames, Service!Frames
  <2> QED
    BY <2>1, <2>2 DEF Init, Service!Init
<1>2. Inv /\ [Next]_vars => [Service!Next]_(Service!vars)
  <2> SUFFICES ASSUME Inv, [Next]_vars PROVE [Service!Next]_(Service!vars)
    OBVIOUS
  <2>1. CASE UNCHANGED vars
    BY <2>1 DEF vars, Service!vars, Pending, KeyOf, InHand, Usable, Unnamed
  <2>2. CASE \E k \in Keys, kind \in Kinds : NewPacket(k, kind)
    BY <2>2, OfferStep DEF Service!Next
  <2>3. CASE Read
    BY <2>3, DeliverStep DEF Service!Next, Service!Resolve
  <2>4. CASE /\ Next /\ ~ Read
             /\ ~ \E k \in Keys, kind \in Kinds : NewPacket(k, kind)
    BY <2>4, QuietSteps, LettingGo
  <2> QED
    BY <2>1, <2>2, <2>3, <2>4
<1> QED
  BY <1>1, <1>2, Invariance, PTL DEF Spec, ImplementsService, Service!Spec

-----------------------------------------------------------------------------
(* What the priority of the router adds: cspTask does not step while the      *)
(* router is between finding a connection and being done with its packet.     *)

(* The router's own connection stays as it found it, and what it has posted   *)
(* stays queued; conn_lock, once it had it, is not in cspTask's hands.        *)
PriorityInv ==
    /\ pc["router"] \in {"connNew", "transport"} => state[conn["router"]] = "OPEN"
    /\ pc["router"] = "posted" => Queued(conn["router"])
    /\ pc["router"] \in {"allocate", "connNew"} => connLock # "server"
    /\ ClosedIsEmpty

(* With it: no RDP, no frame before csp_listen.                               *)
LeakInv ==
    /\ sent > 0 => Listening
    /\ \A n \in Frames : hdr[n].kind # "rdp"
    /\ RouterHolds(conn["router"]) /\ toPost[conn["router"]] => connLock # "server"
    /\ pc["router"] = "transport" /\ toPost[conn["router"]] => rxq[conn["router"]] = <<>>
    /\ \A c \in Conns : OpenClient(c) =>
           \/ Queued(c)
           \/ Serves(c)
           \/ RouterHolds(c) /\ (Unnamed(c) \/ toPost[c])

(* Every step keeps PriorityInv when the router has priority. *)
LEMMA PriorityStep ==
    ASSUME RouterPriority = 1, Inv, PriorityInv, [Next]_vars
    PROVE  PriorityInv'
<1> USE DEF Inv, TypeOK, chanVars, connVars, Goto, Tasks, ClosePCs, RouterPCs, ServerPCs, Queued, Serves, OpenClient, Unnamed, RouterHolds, PriorityInv, ClosedIsEmpty
<1>1. ASSUME NEW k \in Keys, NEW kind \in Kinds, NewPacket(k, kind)
      PROVE  PriorityInv'
  BY <1>1 DEF NewPacket
<1>2. CASE NextPacket
  BY <1>2 DEF NextPacket
<1>26. CASE Loopback
  BY <1>26 DEF Loopback
<1>27. CASE NextLooped
  BY <1>27 DEF NextLooped
<1>3. ASSUME NEW c \in Conns, FindExisting(c)
      PROVE  PriorityInv'
  BY <1>3 DEF FindExisting, Matching, PostInv, Unposted
<1>4. CASE FindNone
  BY <1>4 DEF FindNone, Matching
<1>5. CASE AllocateLock
  BY <1>5 DEF AllocateLock
<1>6. CASE AllocateTimeout
  BY <1>6 DEF AllocateTimeout
<1>7. ASSUME NEW c \in Conns, Allocate(c)
      PROVE  PriorityInv'
  BY <1>7 DEF Allocate, Take, NextFree, LockInv, InCritical
<1>8. CASE AllocateNone
  BY <1>8 DEF AllocateNone
<1>9. CASE ConnNew
  BY <1>9 DEF ConnNew
<1>10. CASE Transport
  BY <1>10 DEF Transport
<1>11. CASE Post
  <2>1. conn["router"] \in Conns
    OBVIOUS
  <2>2. CASE pc'["router"] = "posted"
    <3>1. backlog' = Append(backlog, conn["router"])
      BY <1>11, <2>2 DEF Post
    <3>2. conn["router"] \in Range(backlog')
      BY <2>1, <3>1, AppendFacts
    <3> QED
      BY <1>11, <2>2, <3>2 DEF Post
  <2>3. CASE pc'["router"] # "posted"
    BY <1>11, <2>3 DEF Post
  <2> QED
    BY <2>2, <2>3
<1>12. CASE Posted
  BY <1>12 DEF Posted
<1>13. ASSUME NEW t \in Tasks, (t = "server" => ServerMayRun) /\ CloseEnter(t)
       PROVE  PriorityInv'
  BY <1>13 DEF CloseEnter, Return, ServerMayRun, RouterBlocked
<1>14. ASSUME NEW t \in Tasks, (t = "server" => ServerMayRun) /\ CloseLock(t)
       PROVE  PriorityInv'
  BY <1>14 DEF CloseLock, ServerMayRun, RouterBlocked
<1>15. ASSUME NEW t \in Tasks, (t = "server" => ServerMayRun) /\ CloseTimeout(t)
       PROVE  PriorityInv'
  BY <1>15 DEF CloseTimeout, Return, ServerMayRun, RouterBlocked
<1>16. ASSUME NEW t \in Tasks, (t = "server" => ServerMayRun) /\ CloseMark(t)
       PROVE  PriorityInv'
  BY <1>16 DEF CloseMark, ServerMayRun, RouterBlocked
<1>17. ASSUME NEW t \in Tasks, (t = "server" => ServerMayRun) /\ CloseFlush(t)
       PROVE  PriorityInv'
  BY <1>17 DEF CloseFlush, ServerMayRun, RouterBlocked
<1>18. ASSUME NEW t \in Tasks, (t = "server" => ServerMayRun) /\ CloseUnlock(t)
       PROVE  PriorityInv'
  BY <1>18 DEF CloseUnlock, Return, ServerMayRun, RouterBlocked
<1>19. ASSUME NEW c \in Conns, ServerMayRun /\ Socket(c)
       PROVE  PriorityInv'
  BY <1>19 DEF Socket, Take, ServerMayRun, RouterBlocked
<1>20. CASE ServerMayRun /\ Bind
  BY <1>20 DEF Bind, ServerMayRun, RouterBlocked
<1>21. CASE ServerMayRun /\ Listen
  BY <1>21 DEF Listen, ServerMayRun, RouterBlocked
<1>22. CASE ServerMayRun /\ Accept
  BY <1>22 DEF Accept, ServerMayRun, RouterBlocked
<1>23. CASE ServerMayRun /\ Read
  BY <1>23 DEF Read, ServerMayRun, RouterBlocked
<1>24. CASE ServerMayRun /\ ReadNone
  BY <1>24 DEF ReadNone, ServerMayRun, RouterBlocked
<1>25. CASE UNCHANGED vars
  BY <1>25 DEF vars
<1> QED
  BY <1>1, <1>2, <1>3, <1>4, <1>5, <1>6, <1>7, <1>8, <1>9, <1>10, <1>11,
     <1>12, <1>13, <1>14, <1>15, <1>16, <1>17, <1>18, <1>19, <1>20, <1>21,
     <1>22, <1>23, <1>24, <1>25, <1>26, <1>27
     DEF Next, Router, Server, Close, Idle

(* Every step keeps LeakInv, without RDP and early traffic. *)
LEMMA LeakStep ==
    ASSUME RouterPriority = 1, EarlyTraffic = FALSE, "rdp" \notin Kinds,
           Inv, PriorityInv, LeakInv, [Next]_vars
    PROVE  LeakInv'
<1> USE RouterAssumption DEF Inv, TypeOK, chanVars, connVars, Goto, Tasks, ClosePCs, RouterPCs, ServerPCs, Queued, Serves, OpenClient, Unnamed, RouterHolds, LeakInv, Listening, LockInv, InCritical
<1>1. ASSUME NEW k \in Keys, NEW kind \in Kinds, NewPacket(k, kind)
      PROVE  LeakInv'
  BY <1>1 DEF NewPacket, Frames
<1>2. CASE NextPacket
  BY <1>2 DEF NextPacket
<1>26. CASE Loopback
  BY <1>26 DEF Loopback
<1>27. CASE NextLooped
  BY <1>27 DEF NextLooped
<1>3. ASSUME NEW c \in Conns, FindExisting(c)
      PROVE  LeakInv'
  BY <1>3 DEF FindExisting, Matching, PostInv, Unposted
<1>4. CASE FindNone
  BY <1>4 DEF FindNone, Matching
<1>5. CASE AllocateLock
  BY <1>5 DEF AllocateLock
<1>6. CASE AllocateTimeout
  BY <1>6 DEF AllocateTimeout
<1>7. ASSUME NEW c \in Conns, Allocate(c)
      PROVE  LeakInv'
  BY <1>7 DEF Allocate, Take, NextFree, LockInv, InCritical
<1>8. CASE AllocateNone
  BY <1>8 DEF AllocateNone
<1>9. CASE ConnNew
  <2>1. Listening
    <3>1. packet \in Frames /\ packet <= sent
      BY <1>9 DEF ConnNew, OrderInv, InHand
    <3> QED
      BY <3>1 DEF Frames
  <2> QED
    BY <1>9, <2>1 DEF ConnNew, PriorityInv
<1>10. CASE Transport
  <2> DEFINE c == conn["router"]
  <2>1. c \in Conns /\ packet \in Frames /\ hdr[packet].kind # "rdp"
    BY <1>10 DEF Transport
  <2>2. CASE Len(rxq[c]) < RxqLen
    BY <1>10, <2>1, <2>2 DEF Transport
  <2>3. CASE ~ Len(rxq[c]) < RxqLen
    <3>1. ~ toPost[c]
      BY <1>10, <2>3, EmptyFacts DEF Transport
    <3> QED
      BY <1>10, <2>1, <2>3, <3>1 DEF Transport
  <2> QED
    BY <2>2, <2>3
<1>11. CASE Post
  <2>1. conn["router"] \in Conns
    OBVIOUS
  <2>2. /\ Range(backlog) \subseteq Range(backlog')
        /\ pc'["router"] = "posted" => conn["router"] \in Range(backlog')
    <3>1. CASE backlog' = backlog /\ pc'["router"] # "posted"
      BY <3>1
    <3>2. CASE backlog' = Append(backlog, conn["router"])
      BY <2>1, <3>2, AppendFacts
    <3> QED
      BY <1>11, <3>1, <3>2 DEF Post
  <2> QED
    BY <1>11, <2>1, <2>2 DEF Post, PostInv
<1>12. CASE Posted
  BY <1>12 DEF Posted, PriorityInv
<1>13. ASSUME NEW t \in Tasks, (t = "server" => ServerMayRun) /\ CloseEnter(t)
       PROVE  LeakInv'
  BY <1>13 DEF CloseEnter, Return, ServerMayRun, RouterBlocked
<1>14. ASSUME NEW t \in Tasks, (t = "server" => ServerMayRun) /\ CloseLock(t)
       PROVE  LeakInv'
  BY <1>14 DEF CloseLock, ServerMayRun, RouterBlocked
<1>15. ASSUME NEW t \in Tasks, (t = "server" => ServerMayRun) /\ CloseTimeout(t)
       PROVE  LeakInv'
  BY <1>15 DEF CloseTimeout, Return, ServerMayRun, RouterBlocked
<1>16. ASSUME NEW t \in Tasks, (t = "server" => ServerMayRun) /\ CloseMark(t)
       PROVE  LeakInv'
  BY <1>16 DEF CloseMark, ServerMayRun, RouterBlocked
<1>17. ASSUME NEW t \in Tasks, (t = "server" => ServerMayRun) /\ CloseFlush(t)
       PROVE  LeakInv'
  BY <1>17 DEF CloseFlush, ServerMayRun, RouterBlocked
<1>18. ASSUME NEW t \in Tasks, (t = "server" => ServerMayRun) /\ CloseUnlock(t)
       PROVE  LeakInv'
  BY <1>18 DEF CloseUnlock, Return, PostInv
<1>19. ASSUME NEW c \in Conns, ServerMayRun /\ Socket(c)
       PROVE  LeakInv'
  BY <1>19 DEF Socket, Take, ServerMayRun, RouterBlocked
<1>20. CASE ServerMayRun /\ Bind
  BY <1>20 DEF Bind, ServerMayRun, RouterBlocked
<1>21. CASE ServerMayRun /\ Listen
  BY <1>21 DEF Listen, ServerMayRun, RouterBlocked
<1>22. CASE ServerMayRun /\ Accept
  <2>1. Range(backlog) = Range(backlog') \union {Head(backlog)} /\ Head(backlog) \in Conns
    BY <1>22, TailFacts, QueueFacts DEF Accept
  <2> QED
    BY <1>22, <2>1 DEF Accept, ServerMayRun, RouterBlocked
<1>23. CASE ServerMayRun /\ Read
  BY <1>23 DEF Read, ServerMayRun, RouterBlocked
<1>24. CASE ServerMayRun /\ ReadNone
  BY <1>24 DEF ReadNone, ServerMayRun, RouterBlocked
<1>25. CASE UNCHANGED vars
  BY <1>25 DEF vars
<1> QED
  BY <1>1, <1>2, <1>3, <1>4, <1>5, <1>6, <1>7, <1>8, <1>9, <1>10, <1>11,
     <1>12, <1>13, <1>14, <1>15, <1>16, <1>17, <1>18, <1>19, <1>20, <1>21,
     <1>22, <1>23, <1>24, <1>25, <1>26, <1>27
     DEF Next, Router, Server, Close, Idle

(* With the configured priority nothing is queued on a closed connection.     *)
THEOREM ClosedStaysEmpty ==
    ASSUME RouterPriority = 1
    PROVE  Spec => []ClosedIsEmpty
<1>1. Init => PriorityInv
  BY DEF Init, PriorityInv, ClosedIsEmpty
<1>2. Inv /\ PriorityInv /\ [Next]_vars => PriorityInv'
  BY PriorityStep
<1>3. PriorityInv => ClosedIsEmpty
  BY DEF PriorityInv
<1> QED
  BY Invariance, <1>1, <1>2, <1>3, PTL DEF Spec

(* With the configured priority, no RDP packet and no packet before           *)
(* csp_listen, no connection is ever leaked.                                  *)
THEOREM NothingLeaks ==
    ASSUME RouterPriority = 1, EarlyTraffic = FALSE, "rdp" \notin Kinds
    PROVE  Spec => []NoConnLeak
<1>1. Init => PriorityInv /\ LeakInv
  BY DEF Init, PriorityInv, ClosedIsEmpty, LeakInv, OpenClient, RouterHolds, ClosePCs
<1>2. Inv /\ PriorityInv /\ LeakInv /\ [Next]_vars => PriorityInv' /\ LeakInv'
  BY PriorityStep, LeakStep
<1>3. LeakInv => NoConnLeak
  BY DEF LeakInv, NoConnLeak
<1> QED
  BY Invariance, <1>1, <1>2, <1>3, PTL DEF Spec
=============================================================================
