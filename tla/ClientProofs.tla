----------------------------- MODULE ClientProofs -----------------------------
(***************************************************************************)
(* Theorems about Client, for every number of clients, connections, ports    *)
(* and buffers, wherever the port counter starts and whatever the network    *)
(* does: no connection is shared, and no buffer is lost or in two hands.      *)
(***************************************************************************)
EXTENDS Client, QueueLemmas, FiniteSetTheorems

(* Where a transaction has a connection, and where it has a request.          *)
Owning == {"open", "setId", "flush", "get", "send", "read", "close", "closing"}
Asking == Owning \union {"chosen", "connLock"}

(* Who searches the array or changes a state has conn_lock.                   *)
LockInv ==
    /\ \A t \in Tasks : pc[t] \in {"open", "closing"} <=> conn_lock = t
    /\ \A t \in Tasks : pc[t] = "search" => sport_lock = t /\ calls >= 1

(* A connection a client has is open, but for the one it is about to open.     *)
ConnInv ==
    \A t \in Tasks :
        /\ conn[t] # None <=> pc[t] \in Owning
        /\ pc[t] = "open" => state[conn[t]] = "CLOSED"
        /\ pc[t] \in Owning \ {"open"} => state[conn[t]] = "OPEN"
        /\ packet[t] # None <=> pc[t] = "send"
        /\ pc[t] \in Asking => req[t].no \in Nat \ {0}

Inv == TypeOK /\ LockInv /\ ConnInv /\ OwnedOnce

-----------------------------------------------------------------------------
(* The bounds and the parameters are what their names say. *)
LEMMA ConstantFacts ==
    /\ NConn \in Nat \ {0} /\ NBuffers \in Nat \ {0} /\ RxqLen \in Nat \ {0}
    /\ MinPort \in Nat /\ MaxPort \in Nat /\ MinPort <= MaxPort
    /\ MaxCalls \in Nat
    /\ None \notin Tasks /\ None \notin Conns /\ None \notin Buffers
BY ClientAssumption DEF Buffers

LEMMA InvInit == Init => Inv
<1> SUFFICES ASSUME Init PROVE Inv
  OBVIOUS
<1>1. TypeOK
  BY ConstantFacts, ClientAssumption DEF Init, TypeOK, PCs, Requests, NoRequest, Ports, Conns
<1>2. LockInv /\ ConnInv /\ OwnedOnce
  BY ConstantFacts DEF Init, LockInv, ConnInv, OwnedOnce, Owning, Asking
<1> QED
  BY <1>1, <1>2 DEF Inv

(* Freeing keeps the pool well typed. *)
LEMMA FreedType ==
    ASSUME TypeOK, NEW bs, Freed(bs)
    PROVE  refcount' \in [Buffers -> Nat] /\ content' \in [Buffers -> Requests]
<1>1. NoRequest \in Requests
  BY DEF Requests
<1> QED
  BY <1>1 DEF TypeOK, Freed, Free

(* The end of a transaction keeps the local variables well typed. *)
LEMMA ReturnedType ==
    ASSUME TypeOK, NEW t \in Tasks, Returned(t)
    PROVE  /\ pc' \in [Tasks -> PCs] /\ start' \in [Tasks -> Ports]
           /\ req' \in [Tasks -> Requests] /\ conn' \in [Tasks -> Conns \union {None}]
           /\ packet' \in [Tasks -> Buffers \union {None}]
           /\ reply' \in [Tasks -> Requests]
BY ConstantFacts DEF TypeOK, Returned, Goto, PCs, Requests, Ports

(* An empty queue is a queue. *)
LEMMA EmptyType == <<>> \in Seq(Buffers) /\ Len(<<>>) <= RxqLen
BY ConstantFacts, EmptySeq

(* Taking a packet off a queue and adding one where there is room. *)
LEMMA QueueType ==
    ASSUME TypeOK, NEW c \in Conns
    PROVE  /\ rxq[c] \in Seq(Buffers) /\ Len(rxq[c]) <= RxqLen
           /\ rxq[c] # <<>> => /\ Head(rxq[c]) \in Buffers
                               /\ Tail(rxq[c]) \in Seq(Buffers)
                               /\ Len(Tail(rxq[c])) <= RxqLen
           /\ \A b \in Buffers : Len(rxq[c]) < RxqLen =>
                  /\ Append(rxq[c], b) \in Seq(Buffers)
                  /\ Len(Append(rxq[c], b)) <= RxqLen
<1>1. rxq[c] \in Seq(Buffers) /\ Len(rxq[c]) <= RxqLen
  BY DEF TypeOK
<1> QED
  BY <1>1, QueueFacts, ConstantFacts

-----------------------------------------------------------------------------
(* The type invariant, action by action.                                     *)
LEMMA TypeStep == Inv /\ [Next]_vars => TypeOK'
<1> SUFFICES ASSUME Inv, [Next]_vars PROVE TypeOK'
  OBVIOUS
<1>0. TypeOK /\ LockInv /\ ConnInv
  BY DEF Inv
<1>i. NoRequest \in Requests
  BY DEF Requests
<1>1. ASSUME NEW t \in Tasks, SportLock(t) PROVE TypeOK'
  BY <1>0, <1>1, ConstantFacts
     DEF TypeOK, SportLock, Goto, PCs, locals, portVars, lockVars, connVars, poolVars
<1>2. ASSUME NEW t \in Tasks, Search(t) PROVE TypeOK'
  <2> DEFINE port == NextPort(sport)
             hidden == {req[u].no : u \in {v \in Tasks \ {t} :
                           pc[v] \in {"chosen", "connLock", "open", "setId"}}}
             far == walked + 1
             new == IF sport + 1 = start[t] THEN [no |-> walked, port |-> sport]
                    ELSE [no |-> far, port |-> port]
  <2>1. port \in Ports
    BY <1>0, ConstantFacts DEF TypeOK, NextPort, Ports
  <2>2. far \in Nat \ {0}
    BY <1>0 DEF TypeOK
  <2>3. new \in Requests /\ new.no \in Nat
    <3>1. [no |-> far, port |-> port] \in Requests
      BY <2>1, <2>2, ConstantFacts DEF Requests
    <3>2. [no |-> walked, port |-> sport] \in Requests /\ walked \in Nat
      BY <1>0 DEF TypeOK, Requests
    <3> QED
      BY <2>2, <3>1, <3>2
  <2>4. hidden \subseteq Nat
    BY <1>0 DEF ConnInv, Asking, Owning
  <2>5. {{new.no, no} : no \in hidden} \subseteq SUBSET Nat
    BY <2>3, <2>4
  <2>6. /\ sport' = port /\ walked' = far
        /\ UNCHANGED <<calls, start, conn, packet, reply, conn_lock, connVars, poolVars, sent>>
    BY <1>2 DEF Search
  <2>7. blind' \subseteq blind \union {{new.no, no} : no \in hidden}
    BY <1>2 DEF Search
  <2>8. /\ req' \in [Tasks -> Requests] /\ pc' \in [Tasks -> PCs]
        /\ sport_lock' \in Tasks \union {None}
    <3>1. \/ /\ sport_lock' = None /\ Goto(t, "chosen") /\ req' = [req EXCEPT ![t] = new]
          \/ UNCHANGED <<sport_lock, pc, req>>
      BY <1>2 DEF Search
    <3> HIDE DEF new
    <3> QED
      BY <1>0, <2>3, <3>1 DEF TypeOK, Goto, PCs
  <2>9. blind' \subseteq SUBSET Nat
    BY <1>0, <2>5, <2>7 DEF TypeOK
  <2>10. sport' \in Ports /\ walked' \in Nat \ {0}
    BY <2>1, <2>2, <2>6
  <2> QED
    BY <1>0, <2>6, <2>8, <2>9, <2>10 DEF TypeOK, connVars, poolVars
<1>3. ASSUME NEW t \in Tasks, Chosen(t) PROVE TypeOK'
  <2>1. MinPort \in Ports
    BY ConstantFacts DEF Ports
  <2>2. CASE sport = start[t]
    <3>1. Returned(t)
      BY <1>3, <2>2 DEF Chosen
    <3> QED
      BY <1>0, <1>3, <3>1, ReturnedType
         DEF TypeOK, Chosen, portVars, lockVars, connVars, poolVars
  <2>3. CASE sport # start[t]
    BY <1>0, <1>3, <2>1, <2>3
       DEF TypeOK, Chosen, Goto, PCs, portVars, lockVars, connVars, poolVars
  <2> QED
    BY <2>2, <2>3
<1>4. ASSUME NEW t \in Tasks, AllocateFind(t) PROVE TypeOK'
  BY <1>0, <1>4
     DEF TypeOK, AllocateFind, Goto, PCs, locals, portVars, lockVars, connVars, poolVars
<1>5. ASSUME NEW t \in Tasks, AllocateNone(t) \/ AllocateTimeout(t) \/ CloseTimeout(t) PROVE TypeOK'
  BY <1>0, <1>5, ReturnedType
     DEF TypeOK, AllocateNone, AllocateTimeout, CloseTimeout, PCs, locals, portVars, lockVars, connVars, poolVars
<1>6. ASSUME NEW t \in Tasks, AllocateOpen(t) PROVE TypeOK'
  <2>1. conn[t] \in Conns
    BY <1>0, <1>6 DEF TypeOK, ConnInv, AllocateOpen, Owning
  <2> QED
    BY <1>0, <1>6, <2>1 DEF TypeOK, AllocateOpen, Goto, PCs, locals, portVars, lockVars, connVars, poolVars
<1>7. ASSUME NEW t \in Tasks, NewId(t) PROVE TypeOK'
  BY <1>0, <1>7
     DEF TypeOK, NewId, Goto, PCs, locals, portVars, lockVars, connVars, poolVars
<1>8. ASSUME NEW t \in Tasks, NewFlush(t) PROVE TypeOK'
  <2>1. refcount' \in [Buffers -> Nat] /\ content' \in [Buffers -> Requests]
    BY <1>0, <1>8, FreedType DEF NewFlush, Flush
  <2>2. rxq' \in [Conns -> Seq(Buffers)] /\ \A c \in Conns : Len(rxq'[c]) <= RxqLen
    BY <1>0, <1>8, EmptyType DEF TypeOK, NewFlush, Flush
  <2> QED
    BY <1>0, <1>8, <2>1, <2>2 DEF TypeOK, NewFlush, Flush, Goto, PCs, locals, portVars
<1>9. ASSUME NEW t \in Tasks, GetBuffer(t) PROVE TypeOK'
  <2>1. refcount' \in [Buffers -> Nat] /\ content' \in [Buffers -> Requests]
    BY <1>0, <1>9 DEF TypeOK, GetBuffer, Got
  <2> QED
    BY <1>0, <1>9, <2>1 DEF TypeOK, GetBuffer, Goto, PCs, portVars, lockVars, connVars
<1>10. ASSUME NEW t \in Tasks, GetNone(t) \/ ReadTimeout(t) PROVE TypeOK'
  BY <1>0, <1>10
     DEF TypeOK, GetNone, ReadTimeout, Goto, PCs, locals, portVars, lockVars, connVars, poolVars
<1>11. ASSUME NEW t \in Tasks, SendFailed(t) PROVE TypeOK'
  <2>1. refcount' \in [Buffers -> Nat] /\ content' \in [Buffers -> Requests]
    BY <1>0, <1>11, FreedType DEF SendFailed
  <2> QED
    BY <1>0, <1>11, <2>1 DEF TypeOK, SendFailed, Goto, PCs, portVars, lockVars, connVars
<1>12. ASSUME NEW t \in Tasks, NEW yes \in BOOLEAN, Send(t, yes) PROVE TypeOK'
  <2>1. packet[t] \in Buffers
    BY <1>0, <1>12 DEF TypeOK, ConnInv, Send, SendTo
  <2>2. sent' \subseteq Requests /\ wire' \subseteq Buffers
    BY <1>0, <1>12, <2>1 DEF TypeOK, Send, SendTo
  <2>3. refcount' \in [Buffers -> Nat] /\ content' \in [Buffers -> Requests]
    BY <1>0, <1>i, <1>12 DEF TypeOK, Send, SendTo
  <2> QED
    BY <1>0, <1>12, <2>2, <2>3 DEF TypeOK, Send, SendTo, Goto, PCs, portVars, lockVars,
                                   connVars
<1>13. ASSUME NEW t \in Tasks, NEW yes \in BOOLEAN, Read(t, yes) PROVE TypeOK'
  <2>1. conn[t] \in Conns
    BY <1>0, <1>13 DEF TypeOK, ConnInv, Read, Owning
  <2>2. Head(rxq[conn[t]]) \in Buffers
    BY <1>0, <1>13, <2>1, QueueType DEF Read
  <2>3. refcount' \in [Buffers -> Nat] /\ content' \in [Buffers -> Requests]
    BY <1>0, <1>13, FreedType DEF Read
  <2>4. reply' \in [Tasks -> Requests]
    BY <1>0, <1>i, <1>13, <2>2 DEF TypeOK, Read
  <2>5. rxq' \in [Conns -> Seq(Buffers)] /\ \A c \in Conns : Len(rxq'[c]) <= RxqLen
    BY <1>0, <1>13, <2>1, QueueType DEF TypeOK, Read
  <2> QED
    BY <1>0, <1>13, <2>3, <2>4, <2>5 DEF TypeOK, Read, Goto, PCs, portVars, lockVars
<1>14. ASSUME NEW t \in Tasks, CloseLock(t) PROVE TypeOK'
  BY <1>0, <1>14
     DEF TypeOK, CloseLock, Goto, PCs, locals, portVars, lockVars, connVars, poolVars
<1>15. ASSUME NEW t \in Tasks, Close(t) PROVE TypeOK'
  <2>1. conn[t] \in Conns
    BY <1>0, <1>15 DEF TypeOK, ConnInv, Close, Closed, Owning
  <2>2. refcount' \in [Buffers -> Nat] /\ content' \in [Buffers -> Requests]
    BY <1>0, <1>15, FreedType DEF Close, Closed
  <2>3. rxq' \in [Conns -> Seq(Buffers)] /\ \A c \in Conns : Len(rxq'[c]) <= RxqLen
    BY <1>0, <1>15, EmptyType DEF TypeOK, Close, Closed
  <2>4. id' \in [Conns -> Requests]
    <3>1. [id[conn[t]] EXCEPT !.no = 0] \in Requests
      <4>1. CASE id[conn[t]] = NoRequest
        BY <4>1 DEF Requests, NoRequest
      <4>2. CASE id[conn[t]] \in [no : Nat, port : Ports]
        BY <4>2, ConstantFacts DEF Requests
      <4> QED
        BY <1>0, <2>1, <4>1, <4>2 DEF TypeOK, Requests
    <3> QED
      BY <1>0, <1>15, <3>1 DEF TypeOK, Close, Closed
  <2>5. state' \in [Conns -> {"CLOSED", "OPEN"}]
    BY <1>0, <1>15 DEF TypeOK, Close, Closed
  <2>6. Returned(t)
    BY <1>15 DEF Close, Closed
  <2>7. conn_lock' = None /\ UNCHANGED <<calls, portVars, sport_lock, lastGiven, wire, sent>>
    BY <1>15 DEF Close, Closed
  <2> QED
    BY <1>0, <2>2, <2>3, <2>4, <2>5, <2>6, <2>7, ReturnedType DEF TypeOK, portVars
<1>16. ASSUME NEW b \in wire, Transmitted(b) PROVE TypeOK'
  <2>1. refcount' \in [Buffers -> Nat] /\ content' \in [Buffers -> Requests]
    BY <1>0, <1>16, FreedType DEF Transmitted
  <2> QED
    BY <1>0, <1>16, <2>1 DEF TypeOK, Transmitted, locals, portVars, lockVars, connVars
<1>17. ASSUME NEW r \in sent, Arrive(r) PROVE TypeOK'
  <2>1. PICK c \in Matching(r), b \in Buffers :
            /\ Len(rxq[c]) < RxqLen /\ Got(b, r)
            /\ rxq' = [rxq EXCEPT ![c] = Append(@, b)]
    BY <1>17 DEF Arrive
  <2>2. c \in Conns
    BY <2>1 DEF Matching
  <2>3. rxq' \in [Conns -> Seq(Buffers)] /\ \A d \in Conns : Len(rxq'[d]) <= RxqLen
    BY <1>0, <2>1, <2>2, QueueType DEF TypeOK
  <2>4. refcount' \in [Buffers -> Nat] /\ content' \in [Buffers -> Requests]
    BY <1>0, <2>1 DEF TypeOK, Got
  <2> QED
    BY <1>0, <1>17, <2>3, <2>4 DEF TypeOK, Arrive, locals, portVars, lockVars
<1>18. CASE UNCHANGED vars
  BY <1>0, <1>18 DEF TypeOK, vars
<1> QED
  BY <1>1, <1>2, <1>3, <1>4, <1>5, <1>6, <1>7, <1>8, <1>9, <1>10, <1>11, <1>12, <1>13, <1>14,
     <1>15, <1>16, <1>17, <1>18 DEF Next, Step, Idle

-----------------------------------------------------------------------------
(* Locks and connections, action by action.  A connection is given to one     *)
(* client only, because one that is in use is open or its owner has the lock. *)
LEMMA OwnStep == Inv /\ [Next]_vars => (LockInv /\ ConnInv /\ OwnedOnce)'
<1> SUFFICES ASSUME Inv, [Next]_vars PROVE (LockInv /\ ConnInv /\ OwnedOnce)'
  OBVIOUS
<1> DEFINE Goal == (LockInv /\ ConnInv /\ OwnedOnce)'
<1> USE DEF Owning, Asking
<1>0. TypeOK /\ LockInv /\ ConnInv /\ OwnedOnce /\ None \notin Tasks /\ None \notin Conns
      /\ None \notin Buffers
  BY ConstantFacts DEF Inv
<1>r. ASSUME NEW t \in Tasks, Returned(t), pc[t] \notin {"open", "closing"},
             UNCHANGED <<calls, sport_lock, conn_lock, state>>
      PROVE  Goal
  <2>1. /\ pc' = [pc EXCEPT ![t] = "idle"] /\ conn' = [conn EXCEPT ![t] = None]
        /\ packet' = [packet EXCEPT ![t] = None] /\ req' = [req EXCEPT ![t] = NoRequest]
    BY <1>r DEF Returned, Goto
  <2>2. LockInv'
    BY <1>0, <1>r, <2>1 DEF TypeOK, LockInv
  <2>3. ConnInv'
    BY <1>0, <1>r, <2>1 DEF TypeOK, ConnInv
  <2>4. OwnedOnce'
    BY <1>0, <2>1 DEF TypeOK, OwnedOnce
  <2> QED
    BY <2>2, <2>3, <2>4
<1>1. ASSUME NEW t \in Tasks, SportLock(t) PROVE Goal
  BY <1>0, <1>1
     DEF TypeOK, LockInv, ConnInv, OwnedOnce, SportLock, Goto, portVars, connVars
<1>2. ASSUME NEW t \in Tasks, Search(t) PROVE Goal
  <2> DEFINE new == IF sport + 1 = start[t] THEN [no |-> walked, port |-> sport]
                    ELSE [no |-> walked + 1, port |-> NextPort(sport)]
  <2>1. new.no \in Nat \ {0}
    BY <1>0 DEF TypeOK
  <2>2. \/ /\ sport_lock' = None /\ Goto(t, "chosen") /\ req' = [req EXCEPT ![t] = new]
        \/ UNCHANGED <<sport_lock, pc, req>>
    BY <1>2 DEF Search
  <2> HIDE DEF new
  <2>3. pc[t] = "search" /\ UNCHANGED <<calls, start, conn, packet, conn_lock, connVars>>
    BY <1>2 DEF Search
  <2>4. CASE UNCHANGED <<sport_lock, pc, req>>
    BY <1>0, <2>3, <2>4 DEF LockInv, ConnInv, OwnedOnce, connVars
  <2>5. CASE sport_lock' = None /\ Goto(t, "chosen") /\ req' = [req EXCEPT ![t] = new]
    BY <1>0, <2>1, <2>3, <2>5
       DEF TypeOK, LockInv, ConnInv, OwnedOnce, connVars, Goto
  <2> QED
    BY <2>2, <2>4, <2>5
<1>3. ASSUME NEW t \in Tasks, Chosen(t) PROVE Goal
  <2>1. CASE sport = start[t]
    BY <1>3, <1>r, <2>1 DEF Chosen, lockVars, connVars
  <2>2. CASE sport # start[t]
    BY <1>0, <1>3, <2>2
       DEF TypeOK, LockInv, ConnInv, OwnedOnce, Chosen, Goto, lockVars, connVars
  <2> QED
    BY <2>1, <2>2
<1>4. ASSUME NEW t \in Tasks, AllocateFind(t) PROVE Goal
  <2>1. PICK c \in Conns : state[c] = "CLOSED" /\ conn' = [conn EXCEPT ![t] = c]
    BY <1>4 DEF AllocateFind, NextClosed
  <2>2. \A u \in Tasks : conn[u] # c
    BY <1>0, <1>4, <2>1 DEF TypeOK, LockInv, ConnInv, AllocateFind
  <2> QED
    BY <1>0, <1>4, <2>1, <2>2
       DEF TypeOK, LockInv, ConnInv, OwnedOnce, AllocateFind, Goto, connVars
<1>5. ASSUME NEW t \in Tasks, AllocateNone(t) \/ AllocateTimeout(t) \/ CloseTimeout(t) PROVE Goal
  BY <1>5, <1>r
     DEF AllocateNone, AllocateTimeout, CloseTimeout, lockVars, connVars
<1>6. ASSUME NEW t \in Tasks, AllocateOpen(t) PROVE Goal
  BY <1>0, <1>6
     DEF TypeOK, LockInv, ConnInv, OwnedOnce, AllocateOpen, Goto, locals
<1>7. ASSUME NEW t \in Tasks, NewId(t) PROVE Goal
  BY <1>0, <1>7
     DEF TypeOK, LockInv, ConnInv, OwnedOnce, NewId, Goto, locals, lockVars
<1>8. ASSUME NEW t \in Tasks, NewFlush(t) PROVE Goal
  BY <1>0, <1>8
     DEF TypeOK, LockInv, ConnInv, OwnedOnce, NewFlush, Flush, Goto, locals
<1>9. ASSUME NEW t \in Tasks, GetBuffer(t) PROVE Goal
  BY <1>0, <1>9
     DEF TypeOK, LockInv, ConnInv, OwnedOnce, GetBuffer, Goto, lockVars, connVars
<1>10. ASSUME NEW t \in Tasks, GetNone(t) \/ ReadTimeout(t) PROVE Goal
  BY <1>0, <1>10
     DEF TypeOK, LockInv, ConnInv, OwnedOnce, GetNone, ReadTimeout, Goto, locals, lockVars,
         connVars
<1>11. ASSUME NEW t \in Tasks, SendFailed(t) PROVE Goal
  BY <1>0, <1>11
     DEF TypeOK, LockInv, ConnInv, OwnedOnce, SendFailed, Goto, lockVars, connVars
<1>12. ASSUME NEW t \in Tasks, NEW yes \in BOOLEAN, Send(t, yes) PROVE Goal
  BY <1>0, <1>12
     DEF TypeOK, LockInv, ConnInv, OwnedOnce, Send, SendTo, Goto, lockVars, connVars
<1>13. ASSUME NEW t \in Tasks, NEW yes \in BOOLEAN, Read(t, yes) PROVE Goal
  BY <1>0, <1>13
     DEF TypeOK, LockInv, ConnInv, OwnedOnce, Read, Goto, lockVars
<1>14. ASSUME NEW t \in Tasks, CloseLock(t) PROVE Goal
  BY <1>0, <1>14
     DEF TypeOK, LockInv, ConnInv, OwnedOnce, CloseLock, Goto, locals, connVars
<1>15. ASSUME NEW t \in Tasks, Close(t) PROVE Goal
  BY <1>0, <1>15
     DEF TypeOK, LockInv, ConnInv, OwnedOnce, Close, Closed, Returned, Goto
<1>16. ASSUME UNCHANGED <<calls, pc, locals, portVars, lockVars, state>> PROVE Goal
  BY <1>0, <1>16 DEF LockInv, ConnInv, OwnedOnce, locals, lockVars
<1>17. ASSUME NEW b \in wire, Transmitted(b) PROVE Goal
  BY <1>16, <1>17 DEF Transmitted, connVars
<1>18. ASSUME NEW r \in sent, Arrive(r) PROVE Goal
  BY <1>16, <1>18 DEF Arrive
<1>19. CASE UNCHANGED vars
  BY <1>16, <1>19 DEF vars, locals, portVars, lockVars
<1> QED
  BY <1>1, <1>2, <1>3, <1>4, <1>5, <1>6, <1>7, <1>8, <1>9, <1>10, <1>11, <1>12, <1>13, <1>14,
     <1>15, <1>17, <1>18, <1>19 DEF Next, Step, Idle

(* Every variable of csp_connect, of the connections and of the pool has its   *)
(* type.                                                                     *)
THEOREM TypeCorrect == Spec => []TypeOK
<1>1. Inv /\ [Next]_vars => Inv'
  BY TypeStep, OwnStep DEF Inv
<1>2. Inv => TypeOK
  BY DEF Inv
<1> QED
  BY InvInit, <1>1, <1>2, PTL DEF Spec

(* However many clients there are and whichever wait times out, csp_conn_new  *)
(* gives no connection to a client while another one works on it.            *)
THEOREM NeverShared == Spec => []OwnedOnce
<1>1. Inv /\ [Next]_vars => Inv'
  BY TypeStep, OwnStep DEF Inv
<1>2. Inv => OwnedOnce
  BY DEF Inv
<1> QED
  BY InvInit, <1>1, <1>2, PTL DEF Spec

-----------------------------------------------------------------------------
(* Where buffers are.  One is in use when a client has it, a connection has   *)
(* it queued, or the interface is sending from it, and it is in one such      *)
(* place only; with an interface that frees what it has sent, those are all.  *)
Queued(b) == \E c \in Conns : b \in Range(rxq[c])
Held(b) == \E t \in Tasks : packet[t] = b

CountInv ==
    \A b \in Buffers :
        /\ refcount[b] \in {0, 1}
        /\ Held(b) \/ Queued(b) \/ b \in wire => refcount[b] = 1
        /\ InterfaceFrees /\ refcount[b] = 1 => Held(b) \/ Queued(b) \/ b \in wire

QueueInv ==
    /\ \A c \in Conns : Distinct(rxq[c])
    /\ \A c \in Conns : \A d \in Conns \ {c} : Range(rxq[c]) \intersect Range(rxq[d]) = {}

ApartInv ==
    /\ \A t \in Tasks : \A u \in Tasks \ {t} : packet[t] # None => packet[t] # packet[u]
    /\ \A b \in Buffers : /\ Held(b) => ~Queued(b) /\ b \notin wire
                          /\ Queued(b) => b \notin wire

PlaceInv == CountInv /\ QueueInv /\ ApartInv

LEMMA PlaceInit == Init => PlaceInv
<1> SUFFICES ASSUME Init PROVE PlaceInv
  OBVIOUS
<1>1. \A c \in Conns : Range(rxq[c]) = {} /\ Distinct(rxq[c])
  BY EmptyFacts DEF Init
<1>2. \A b \in Buffers : ~Held(b) /\ ~Queued(b) /\ b \notin wire /\ refcount[b] = 0
  BY <1>1, ConstantFacts DEF Init, Held, Queued
<1>3. \A t \in Tasks : packet[t] = None
  BY DEF Init
<1> QED
  BY <1>1, <1>2, <1>3 DEF PlaceInv, CountInv, QueueInv, ApartInv

(* What is queued is a buffer. *)
LEMMA QueuedAreBuffers ==
    ASSUME TypeOK, NEW c \in Conns
    PROVE  Range(rxq[c]) \subseteq Buffers
<1>1. rxq[c] \in Seq(Buffers)
  BY DEF TypeOK
<1> QED
  BY <1>1 DEF Range

(* A step that moves no buffer. *)
LEMMA PlaceKept ==
    ASSUME PlaceInv, UNCHANGED <<packet, rxq, wire, refcount>>
    PROVE  PlaceInv'
BY DEF PlaceInv, CountInv, QueueInv, ApartInv, Held, Queued

(* A client whose transaction is over has no packet left. *)
LEMMA NothingInHand ==
    ASSUME Inv, NEW t \in Tasks, Returned(t), pc[t] # "send"
    PROVE  packet' = packet
BY ConstantFacts DEF Inv, TypeOK, ConnInv, Returned

(* A free buffer is nowhere else. *)
LEMMA FreeIsNowhere ==
    ASSUME PlaceInv, NEW b \in Free
    PROVE  ~Held(b) /\ ~Queued(b) /\ b \notin wire /\ refcount[b] = 0 /\ b \in Buffers
BY DEF PlaceInv, CountInv, Free

(* Freeing buffers that are in use frees them and no other. *)
LEMMA FreedFacts ==
    ASSUME TypeOK, CountInv, NEW bs \in SUBSET Buffers, Freed(bs),
           \A b \in bs : Held(b) \/ Queued(b) \/ b \in wire
    PROVE  \A b \in Buffers : refcount'[b] = IF b \in bs THEN 0 ELSE refcount[b]
<1>1. \A b \in bs : refcount[b] = 1
  BY DEF CountInv
<1> QED
  BY <1>1 DEF Freed, Free

(* Emptying the queue of c and freeing what was in it. *)
LEMMA FlushPlace ==
    ASSUME TypeOK, PlaceInv, NEW c \in Conns, Freed(Range(rxq[c])),
           rxq' = [rxq EXCEPT ![c] = <<>>], UNCHANGED <<packet, wire>>
    PROVE  PlaceInv'
<1>1. Range(rxq[c]) \subseteq Buffers
  BY QueuedAreBuffers
<1>2. \A b \in Buffers : refcount'[b] = IF b \in Range(rxq[c]) THEN 0 ELSE refcount[b]
  BY <1>1, FreedFacts DEF PlaceInv, Queued
<1>3. /\ rxq'[c] = <<>> /\ Range(rxq'[c]) = {} /\ Distinct(rxq'[c])
      /\ \A d \in Conns \ {c} : rxq'[d] = rxq[d]
  BY EmptyFacts DEF TypeOK
<1>4. \A b \in Buffers : Queued(b)' <=> Queued(b) /\ b \notin Range(rxq[c])
  BY <1>3 DEF Queued, PlaceInv, QueueInv
<1>5. \A b \in Buffers : (Held(b)' <=> Held(b)) /\ (b \in wire' <=> b \in wire)
  BY DEF Held
<1>6. CountInv'
  BY <1>1, <1>2, <1>4, <1>5 DEF CountInv, PlaceInv, ApartInv, Queued
<1>7. QueueInv'
  BY <1>3 DEF PlaceInv, QueueInv
<1>8. ApartInv'
  BY <1>4, <1>5 DEF PlaceInv, ApartInv
<1> QED
  BY <1>6, <1>7, <1>8 DEF PlaceInv

-----------------------------------------------------------------------------
(* The buffers, action by action.                                            *)
LEMMA PlaceStep ==
    ASSUME Inv, PlaceInv, [Next]_vars
    PROVE  PlaceInv'
<1>0. TypeOK /\ ConnInv /\ None \notin Buffers
  BY ConstantFacts DEF Inv
<1>c. \A t \in Tasks : pc[t] \in Owning => conn[t] \in Conns
  BY <1>0 DEF TypeOK, ConnInv
<1>1. ASSUME NEW t \in Tasks,
             \/ SportLock(t) \/ Search(t) \/ AllocateFind(t) \/ AllocateOpen(t) \/ NewId(t)
             \/ GetNone(t) \/ ReadTimeout(t) \/ CloseLock(t)
      PROVE  PlaceInv'
  <2>1. UNCHANGED <<packet, rxq, wire, refcount>>
    BY <1>1 DEF SportLock, Search, AllocateFind, AllocateOpen, NewId, GetNone, ReadTimeout,
                CloseLock, locals, connVars, poolVars
  <2> QED
    BY <2>1, PlaceKept
<1>2. ASSUME NEW t \in Tasks,
             Chosen(t) \/ AllocateNone(t) \/ AllocateTimeout(t) \/ CloseTimeout(t)
      PROVE  PlaceInv'
  <2>1. UNCHANGED <<rxq, wire, refcount>> /\ pc[t] # "send" /\ (packet' = packet \/ Returned(t))
    BY <1>2 DEF Chosen, AllocateNone, AllocateTimeout, CloseTimeout, connVars, poolVars
  <2>2. packet' = packet
    BY <2>1, NothingInHand
  <2> QED
    BY <2>1, <2>2, PlaceKept
<1>3. ASSUME NEW t \in Tasks, NewFlush(t) PROVE PlaceInv'
  BY <1>0, <1>c, <1>3, FlushPlace DEF NewFlush, Flush, Owning, locals
<1>4. ASSUME NEW t \in Tasks, Close(t) PROVE PlaceInv'
  <2>1. packet' = packet
    BY <1>4, NothingInHand DEF Close, Closed
  <2> QED
    BY <1>0, <1>c, <1>4, <2>1, FlushPlace DEF Close, Closed, Owning
<1>5. ASSUME NEW t \in Tasks, GetBuffer(t) PROVE PlaceInv'
  <2>1. PICK b \in Buffers : Got(b, req[t]) /\ packet' = [packet EXCEPT ![t] = b]
    BY <1>5 DEF GetBuffer
  <2>2. b \in Free /\ refcount' = [refcount EXCEPT ![b] = @ + 1]
    BY <2>1 DEF Got, IsNext
  <2>3. ~Held(b) /\ ~Queued(b) /\ b \notin wire /\ refcount[b] = 0
    BY <2>2, FreeIsNowhere
  <2>4. packet[t] = None /\ UNCHANGED <<rxq, wire>>
    BY <1>0, <1>5 DEF ConnInv, GetBuffer, connVars
  <2>5. \A a \in Buffers : Held(a)' <=> Held(a) \/ a = b
    BY <1>0, <2>1, <2>4 DEF Held, TypeOK
  <2>6. \A a \in Buffers : Queued(a)' <=> Queued(a)
    BY <2>4 DEF Queued
  <2>7. \A a \in Buffers : refcount'[a] = IF a = b THEN 1 ELSE refcount[a]
    BY <1>0, <2>2, <2>3 DEF TypeOK
  <2>8. CountInv'
    BY <2>3, <2>4, <2>5, <2>6, <2>7 DEF PlaceInv, CountInv
  <2>9. QueueInv'
    BY <2>4 DEF PlaceInv, QueueInv
  <2>10. ApartInv'
    <3>1. \A u \in Tasks : \A v \in Tasks \ {u} : packet'[u] # None => packet'[u] # packet'[v]
      BY <1>0, <2>1, <2>3 DEF PlaceInv, ApartInv, TypeOK, Held
    <3> QED
      BY <3>1, <2>3, <2>4, <2>5, <2>6 DEF PlaceInv, ApartInv
  <2> QED
    BY <2>8, <2>9, <2>10 DEF PlaceInv
<1>6. ASSUME NEW t \in Tasks, pc[t] = "send", packet' = [packet EXCEPT ![t] = None], rxq' = rxq,
             \/ wire' = wire \union {packet[t]} /\ refcount' = refcount
             \/ wire' = wire /\ refcount' = refcount /\ ~InterfaceFrees
             \/ wire' = wire /\ Freed({packet[t]})
      PROVE  PlaceInv'
  <2> DEFINE b == packet[t]
  <2>1. b \in Buffers /\ Held(b)
    BY <1>0, <1>6 DEF TypeOK, ConnInv, Held
  <2>2. refcount[b] = 1 /\ ~Queued(b) /\ b \notin wire
    BY <2>1 DEF PlaceInv, CountInv, ApartInv
  <2>3. \A a \in Buffers : Held(a)' <=> Held(a) /\ a # b
    BY <1>0, <1>6, <2>1 DEF Held, TypeOK, PlaceInv, ApartInv
  <2>4. \A a \in Buffers : Queued(a)' <=> Queued(a)
    BY <1>6 DEF Queued
  <2>5. CountInv'
    <3>1. CASE wire' = wire \union {b} /\ refcount' = refcount
      BY <2>1, <2>2, <2>3, <2>4, <3>1 DEF PlaceInv, CountInv
    <3>2. CASE wire' = wire /\ Freed({b})
      <4>1. \A a \in Buffers : refcount'[a] = IF a \in {b} THEN 0 ELSE refcount[a]
        BY <1>0, <2>1, <3>2, FreedFacts DEF PlaceInv
      <4> QED
        BY <2>1, <2>2, <2>3, <2>4, <3>2, <4>1 DEF PlaceInv, CountInv
    <3>3. CASE wire' = wire /\ refcount' = refcount /\ ~InterfaceFrees
      BY <2>1, <2>2, <2>3, <2>4, <3>3 DEF PlaceInv, CountInv
    <3> QED
      BY <1>6, <3>1, <3>2, <3>3
  <2>6. QueueInv'
    BY <1>6 DEF PlaceInv, QueueInv
  <2>7. ApartInv'
    <3>1. \A u \in Tasks : \A v \in Tasks \ {u} : packet'[u] # None => packet'[u] # packet'[v]
      BY <1>0, <1>6 DEF PlaceInv, ApartInv, TypeOK
    <3> QED
      BY <1>6, <2>2, <2>3, <2>4, <3>1 DEF PlaceInv, ApartInv
  <2> QED
    BY <2>5, <2>6, <2>7 DEF PlaceInv
<1>7. ASSUME NEW t \in Tasks, SendFailed(t) PROVE PlaceInv'
  BY <1>6, <1>7 DEF SendFailed, connVars
<1>8. ASSUME NEW t \in Tasks, NEW yes \in BOOLEAN, Send(t, yes) PROVE PlaceInv'
  BY <1>6, <1>8 DEF Send, SendTo, connVars
<1>9. ASSUME NEW t \in Tasks, NEW yes \in BOOLEAN, Read(t, yes) PROVE PlaceInv'
  <2> DEFINE c == conn[t]
             b == Head(rxq[c])
  <2>1. c \in Conns /\ rxq[c] # <<>> /\ rxq[c] \in Seq(Buffers)
    BY <1>0, <1>c, <1>9 DEF Read, Owning, TypeOK
  <2>2. /\ Freed({b}) /\ rxq' = [rxq EXCEPT ![c] = Tail(@)]
        /\ UNCHANGED <<packet, wire>>
    BY <1>9 DEF Read
  <2>3. /\ b \in Range(rxq[c]) /\ Range(rxq[c]) = Range(Tail(rxq[c])) \union {b}
        /\ Distinct(Tail(rxq[c])) /\ b \notin Range(Tail(rxq[c]))
    BY <2>1, TailFacts DEF PlaceInv, QueueInv
  <2>4. rxq'[c] = Tail(rxq[c]) /\ \A d \in Conns \ {c} : rxq'[d] = rxq[d]
    BY <1>0, <2>1, <2>2 DEF TypeOK
  <2>5. b \in Buffers /\ Queued(b)
    BY <1>0, <2>1, <2>3, QueuedAreBuffers DEF Queued
  <2>6. \A a \in Buffers : refcount'[a] = IF a \in {b} THEN 0 ELSE refcount[a]
    BY <1>0, <2>2, <2>5, FreedFacts DEF PlaceInv
  <2>7. \A a \in Buffers : Queued(a)' <=> Queued(a) /\ a # b
    <3>1. \A d \in Conns \ {c} : b \notin Range(rxq[d])
      BY <2>1, <2>3 DEF PlaceInv, QueueInv
    <3>2. \A a \in Buffers : a \in Range(rxq'[c]) <=> a \in Range(rxq[c]) /\ a # b
      BY <2>3, <2>4
    <3> QED
      BY <2>1, <2>4, <3>1, <3>2 DEF Queued
  <2>8. \A a \in Buffers : Held(a)' <=> Held(a)
    BY <2>2 DEF Held
  <2>9. CountInv'
    BY <2>2, <2>5, <2>6, <2>7, <2>8 DEF PlaceInv, CountInv, ApartInv
  <2>10. QueueInv'
    BY ZenonT(40), <2>1, <2>3, <2>4 DEF PlaceInv, QueueInv
  <2>11. ApartInv'
    BY <2>2, <2>7, <2>8 DEF PlaceInv, ApartInv
  <2> QED
    BY <2>9, <2>10, <2>11 DEF PlaceInv
<1>10. ASSUME NEW b \in wire, Transmitted(b) PROVE PlaceInv'
  <2>1. b \in Buffers /\ wire' = wire \ {b} /\ Freed({b}) /\ UNCHANGED <<packet, rxq>>
    BY <1>0, <1>10 DEF TypeOK, Transmitted, locals, connVars
  <2>2. \A a \in Buffers : refcount'[a] = IF a \in {b} THEN 0 ELSE refcount[a]
    BY <1>0, <2>1, FreedFacts DEF PlaceInv
  <2>3. \A a \in Buffers : (Held(a)' <=> Held(a)) /\ (Queued(a)' <=> Queued(a))
    BY <2>1 DEF Held, Queued
  <2> QED
    BY <2>1, <2>2, <2>3 DEF PlaceInv, CountInv, QueueInv, ApartInv
<1>11. ASSUME NEW r \in sent, Arrive(r) PROVE PlaceInv'
  <2>1. PICK c \in Matching(r), b \in Buffers :
            /\ Got(b, r) /\ rxq' = [rxq EXCEPT ![c] = Append(@, b)]
    BY <1>11 DEF Arrive
  <2>2. c \in Conns /\ rxq[c] \in Seq(Buffers) /\ UNCHANGED <<packet, wire>>
    BY <1>0, <1>11, <2>1 DEF Matching, TypeOK, Arrive, locals
  <2>3. b \in Free /\ refcount' = [refcount EXCEPT ![b] = @ + 1]
    BY <2>1 DEF Got, IsNext
  <2>4. ~Held(b) /\ ~Queued(b) /\ b \notin wire /\ refcount[b] = 0
    BY <2>3, FreeIsNowhere
  <2>5. /\ Range(Append(rxq[c], b)) = Range(rxq[c]) \union {b}
        /\ Distinct(Append(rxq[c], b))
    BY <2>2, <2>4, AppendFacts DEF PlaceInv, QueueInv, Queued
  <2>6. rxq'[c] = Append(rxq[c], b) /\ \A d \in Conns \ {c} : rxq'[d] = rxq[d]
    BY <1>0, <2>1, <2>2 DEF TypeOK
  <2>7. \A a \in Buffers : Queued(a)' <=> Queued(a) \/ a = b
    BY <2>2, <2>5, <2>6 DEF Queued
  <2>8. \A a \in Buffers : Held(a)' <=> Held(a)
    BY <2>2 DEF Held
  <2>9. \A a \in Buffers : refcount'[a] = IF a = b THEN 1 ELSE refcount[a]
    BY <1>0, <2>3, <2>4 DEF TypeOK
  <2>10. CountInv'
    BY <2>2, <2>4, <2>7, <2>8, <2>9 DEF PlaceInv, CountInv
  <2>11. QueueInv'
    <3>1. \A d \in Conns : b \notin Range(rxq[d])
      BY <2>4 DEF Queued
    <3>2. Range(rxq'[c]) = Range(rxq[c]) \union {b} /\ Distinct(rxq'[c])
      BY <2>5, <2>6
    <3>3. \A d \in Conns : Distinct(rxq'[d])
      BY <2>6, <3>2 DEF PlaceInv, QueueInv
    <3>4. \A d \in Conns : \A e \in Conns \ {d} : Range(rxq'[d]) \intersect Range(rxq'[e]) = {}
      <4> SUFFICES ASSUME NEW d \in Conns, NEW e \in Conns \ {d}
                   PROVE  Range(rxq'[d]) \intersect Range(rxq'[e]) = {}
        OBVIOUS
      <4>1. Range(rxq[d]) \intersect Range(rxq[e]) = {}
        BY DEF PlaceInv, QueueInv
      <4>2. CASE d = c
        BY <2>6, <3>1, <3>2, <4>1, <4>2
      <4>3. CASE e = c
        BY <2>6, <3>1, <3>2, <4>1, <4>3
      <4>4. CASE d # c /\ e # c
        BY <2>6, <4>1, <4>4
      <4> QED
        BY <4>2, <4>3, <4>4
    <3> QED
      BY <3>3, <3>4 DEF QueueInv
  <2>12. ApartInv'
    BY <2>2, <2>4, <2>7, <2>8 DEF PlaceInv, ApartInv
  <2> QED
    BY <2>10, <2>11, <2>12 DEF PlaceInv
<1>12. CASE UNCHANGED vars
  BY <1>12, PlaceKept DEF vars
<1> QED
  BY <1>1, <1>2, <1>3, <1>4, <1>5, <1>7, <1>8, <1>9, <1>10, <1>11, <1>12 DEF Next, Step, Idle

(* A buffer of which all this is true is in exactly one place.                *)
LEMMA OnePlaceEach ==
    ASSUME TypeOK, PlaceInv, InterfaceFrees
    PROVE  OnePlace
<1> SUFFICES ASSUME NEW b \in Buffers PROVE Cardinality(Places(b)) = 1
  BY DEF OnePlace
<1>0. None \notin Buffers
  BY ConstantFacts
<1>1. \A p : p \in Places(b) <=>
          \/ b \in Free /\ p = <<"free", 0>>
          \/ \E t \in Tasks : packet[t] = b /\ p = <<"packet", t>>
          \/ \E c \in Conns : \E i \in DOMAIN rxq[c] : rxq[c][i] = b /\ p = <<"rxq", c, i>>
          \/ b \in wire /\ p = <<"wire", 0>>
  BY DEF Places
<1>2. /\ b \in Free <=> ~(Held(b) \/ Queued(b) \/ b \in wire)
      /\ Held(b) => ~Queued(b) /\ b \notin wire
      /\ Queued(b) => b \notin wire
  BY DEF PlaceInv, CountInv, ApartInv, Free
<1>3. Queued(b) <=> \E c \in Conns : \E i \in DOMAIN rxq[c] : rxq[c][i] = b
  BY DEF Queued, Range
<1>4. \E p : Places(b) = {p}
  <2>1. CASE b \in Free
    <3>1. Places(b) = {<<"free", 0>>}
      BY <1>1, <1>2, <1>3, <2>1 DEF Held
    <3> QED
      BY <3>1
  <2>2. CASE Held(b)
    <3>1. PICK t \in Tasks : packet[t] = b
      BY <2>2 DEF Held
    <3>2. \A u \in Tasks : packet[u] = b => u = t
      BY <1>0, <3>1 DEF PlaceInv, ApartInv
    <3>3. Places(b) = {<<"packet", t>>}
      BY <1>1, <1>2, <1>3, <2>2, <3>1, <3>2
    <3> QED
      BY <3>3
  <2>3. CASE Queued(b)
    <3>1. PICK c \in Conns : \E i \in DOMAIN rxq[c] : rxq[c][i] = b
      BY <1>3, <2>3
    <3>2. PICK i \in DOMAIN rxq[c] : rxq[c][i] = b
      BY <3>1
    <3>3. \A d \in Conns : \A j \in DOMAIN rxq[d] : rxq[d][j] = b => d = c /\ j = i
      <4>1. \A d \in Conns : \A j \in DOMAIN rxq[d] : rxq[d][j] = b => b \in Range(rxq[d])
        BY DEF Range
      <4>2. \A d \in Conns : b \in Range(rxq[d]) => d = c
        BY <3>2, <4>1 DEF PlaceInv, QueueInv
      <4> QED
        BY <3>2, <4>1, <4>2 DEF PlaceInv, QueueInv, Distinct
    <3>4. Places(b) = {<<"rxq", c, i>>}
      BY <1>1, <1>2, <2>3, <3>2, <3>3 DEF Held
    <3> QED
      BY <3>4
  <2>4. CASE b \in wire
    <3>1. Places(b) = {<<"wire", 0>>}
      BY <1>1, <1>2, <1>3, <2>4 DEF Held
    <3> QED
      BY <3>1
  <2> QED
    BY <1>2, <2>1, <2>2, <2>3, <2>4
<1> QED
  BY <1>4, FS_Singleton

(* With an interface that frees the packets it has sent, no buffer of the pool *)
(* is ever lost or in two places, whichever call fails or times out.          *)
THEOREM NothingLost == InterfaceFrees => (Spec => []OnePlace)
<1> SUFFICES ASSUME InterfaceFrees PROVE Spec => []OnePlace
  OBVIOUS
<1>1. Init => Inv /\ PlaceInv
  BY InvInit, PlaceInit
<1>2. Inv /\ PlaceInv /\ [Next]_vars => (Inv /\ PlaceInv)'
  BY TypeStep, OwnStep, PlaceStep DEF Inv
<1>3. Inv /\ PlaceInv => OnePlace
  BY OnePlaceEach DEF Inv
<1> QED
  BY <1>1, <1>2, <1>3, PTL DEF Spec

-----------------------------------------------------------------------------
(* The requests somebody still knows of: a client, a connection, a buffer or  *)
(* the network.                                                              *)
Known ==
    {req[t] : t \in Tasks} \union {reply[t] : t \in Tasks} \union {id[c] : c \in Conns}
    \union {content[b] : b \in Buffers} \union sent
Live == {r \in Known : r.no >= 1}

(* How far the counter has come since a request took its port tells where the *)
(* counter is, as long as it has not come round.                             *)
AgeInv ==
    \A r \in Live :
        /\ r.no <= walked
        /\ walked - r.no < NPorts =>
             \/ sport - r.port = walked - r.no
             \/ sport - r.port = walked - r.no - NPorts

ApartAll ==
    /\ \A r, s \in Live : r.no = s.no => r = s
    /\ \A r, s \in Live : r.port = s.port => r = s \/ Apart(r, s)

(* A search that has turned once has left the last port it tried to nobody.    *)
TriedInv ==
    \A t \in Tasks : pc[t] = "search" /\ sport # start[t] => \A r \in Live : r.no # walked

(* A client's connection, once its id is set, has the client's request, what   *)
(* is queued on it once it is flushed came to its port, and so did the reply.  *)
TradeOf(t) ==
    /\ pc[t] \in {"flush", "get", "send", "read", "close", "closing"} => id[conn[t]] = req[t]
    /\ pc[t] = "send" => content[packet[t]] = req[t]
    /\ pc[t] \in {"get", "send", "read", "close", "closing"} =>
         \A b \in Range(rxq[conn[t]]) : content[b].no >= 1 /\ content[b].port = req[t].port
    /\ reply[t] # NoRequest => /\ pc[t] \in {"close", "closing"}
                               /\ reply[t].no >= 1 /\ reply[t].port = req[t].port
TradeInv ==
    /\ \A t \in Tasks : TradeOf(t)
    /\ \A r \in sent : r.no >= 1

(* No request has been issued before the counter has moved. *)
LEMMA RequestInit == Init => AgeInv /\ ApartAll /\ TriedInv /\ TradeInv
<1> SUFFICES ASSUME Init PROVE AgeInv /\ ApartAll /\ TriedInv /\ TradeInv
  OBVIOUS
<1>1. \A r \in Known : r = NoRequest
  BY DEF Init, Known
<1>2. Live = {}
  BY <1>1 DEF Live, NoRequest
<1> QED
  BY <1>2 DEF Init, AgeInv, ApartAll, TriedInv, TradeInv, TradeOf

(* What a request is. *)
LEMMA LiveTypes ==
    ASSUME TypeOK
    PROVE  /\ Known \subseteq Requests
           /\ \A r \in Live : r.no \in Nat \ {0} /\ r.port \in Ports /\ r \in Requests
<1>1. Known \subseteq Requests
  BY DEF TypeOK, Known
<1>2. \A r \in Requests : r.no >= 1 => r.no \in Nat \ {0} /\ r.port \in Ports
  BY DEF Requests, NoRequest
<1> QED
  BY <1>1, <1>2 DEF Live

(* A step that issues no request and leaves the counter alone. *)
Old(r) == r \in Known \/ r.no = 0
LEMMA RequestsKept ==
    ASSUME AgeInv, ApartAll, UNCHANGED <<sport, walked>>,
           \A t \in Tasks : Old(req'[t]) /\ Old(reply'[t]),
           \A c \in Conns : Old(id'[c]),
           \A b \in Buffers : Old(content'[b]),
           \A r \in sent' : Old(r)
    PROVE  AgeInv' /\ ApartAll' /\ Live' \subseteq Live
<1>1. Live' \subseteq Live
  BY DEF Live, Known, Old
<1>2. AgeInv'
  BY <1>1 DEF AgeInv
<1>3. \A r, s : Apart(r, s)' <=> Apart(r, s)
  BY DEF Apart
<1> QED
  BY <1>1, <1>2, <1>3 DEF ApartAll

LEMMA OldFacts ==
    /\ \A t \in Tasks : Old(req[t]) /\ Old(reply[t])
    /\ \A c \in Conns : Old(id[c])
    /\ \A b \in Buffers : Old(content[b])
    /\ \A r \in sent : Old(r)
    /\ Old(NoRequest)
BY DEF Old, Known, NoRequest

LEMMA ReturnedOld ==
    ASSUME TypeOK, NEW t \in Tasks, Returned(t)
    PROVE  \A u \in Tasks : Old(req'[u]) /\ Old(reply'[u])
BY OldFacts DEF TypeOK, Returned

LEMMA FreedOld ==
    ASSUME NEW bs, Freed(bs)
    PROVE  \A b \in Buffers : Old(content'[b])
BY OldFacts DEF Freed

(* The counter moves, and where it stops it has found a port no younger       *)
(* request has.                                                              *)
LEMMA SearchRequests ==
    ASSUME Inv, AgeInv, ApartAll, TriedInv, NEW t \in Tasks, Search(t)
    PROVE  AgeInv' /\ ApartAll'
<1> DEFINE new == IF sport + 1 = start[t] THEN [no |-> walked, port |-> sport]
                  ELSE [no |-> walked + 1, port |-> NextPort(sport)]
<1>0. TypeOK /\ walked \in Nat \ {0} /\ sport \in Ports /\ start[t] \in Ports
      /\ NPorts \in Nat /\ NPorts >= 2
      /\ MinPort \in Nat /\ MaxPort \in Nat /\ NPorts = MaxPort - MinPort + 1
  BY ConstantFacts, ClientAssumption DEF Inv, TypeOK, NPorts
<1>s. sport \in MinPort .. MaxPort /\ start[t] \in MinPort .. MaxPort
  BY <1>0 DEF Ports
<1>1. /\ walked' = walked + 1 /\ sport' = NextPort(sport) /\ pc[t] = "search"
      /\ \A u \in Tasks : req'[u] = req[u] \/ req'[u] = new
      /\ UNCHANGED <<reply, id, content, sent>>
  <2>1. req' = [req EXCEPT ![t] = new] \/ req' = req
    BY DEF Search
  <2>2. /\ walked' = walked + 1 /\ sport' = NextPort(sport) /\ pc[t] = "search"
        /\ UNCHANGED <<reply, id, content, sent>>
    BY DEF Search, connVars, poolVars
  <2> HIDE DEF new
  <2> QED
    BY <1>0, <2>1, <2>2 DEF TypeOK
<1>2. Live' \subseteq Live \union {new}
  <2> HIDE DEF new
  <2> QED
    BY <1>1 DEF Live, Known
<1>3. \A r \in Live : r.no \in Nat \ {0} /\ r.port \in MinPort .. MaxPort
  BY <1>0, LiveTypes DEF Ports
<1>4. sport' \in MinPort .. MaxPort /\ (sport' = sport + 1 \/ sport' = sport + 1 - NPorts)
  BY <1>0, <1>1, <1>s DEF NextPort
(* The request is for the port the counter is at, or, when the search comes     *)
(* round, for the one before.                                                 *)
<1>5. \/ sport + 1 # start[t] /\ new.no = walked + 1 /\ new.port = sport'
      \/ sport + 1 = start[t] /\ new.no = walked /\ new.port = sport
  BY <1>1
<1> HIDE DEF new
<1>6. ASSUME NEW r \in Live
      PROVE  /\ r.no <= walked
             /\ walked - r.no < NPorts =>
                  \/ sport - r.port = walked - r.no
                  \/ sport - r.port = walked - r.no - NPorts
  BY DEF AgeInv
<1>7. AgeInv'
  <2> SUFFICES ASSUME NEW r \in Live'
               PROVE  /\ r.no <= walked'
                      /\ walked' - r.no < NPorts =>
                           \/ sport' - r.port = walked' - r.no
                           \/ sport' - r.port = walked' - r.no - NPorts
    BY DEF AgeInv
  <2>1. CASE r = new
    BY <1>0, <1>1, <1>s, <1>4, <1>5, <2>1
  <2>2. CASE r \in Live
    <3>1. r.no \in Nat /\ r.port \in MinPort .. MaxPort
      BY <1>3, <2>2
    <3>2. /\ r.no <= walked
          /\ walked - r.no < NPorts =>
               \/ sport - r.port = walked - r.no
               \/ sport - r.port = walked - r.no - NPorts
      BY <1>6, <2>2
    <3> QED
      BY <1>0, <1>1, <1>s, <1>4, <3>1, <3>2
  <2> QED
    BY <1>2, <2>1, <2>2
<1>8. ASSUME NEW r \in Live
      PROVE  /\ r.no # new.no
             /\ r.port = new.port => Apart(r, new) /\ Apart(new, r)
  <2>1. r.no \in Nat /\ r.port \in MinPort .. MaxPort /\ new.no \in Nat
    BY <1>0, <1>3, <1>5
  <2>2. CASE sport + 1 # start[t] /\ new.no = walked + 1 /\ new.port = sport'
    <3>1. r.no # new.no
      BY <1>0, <1>6, <2>1, <2>2
    <3>2. r.port = new.port => new.no - r.no >= NPorts
      BY <1>0, <1>s, <1>4, <1>6, <2>1, <2>2
    <3> QED
      BY <1>0, <2>1, <3>1, <3>2 DEF Apart
  <2>3. CASE sport + 1 = start[t] /\ new.no = walked /\ new.port = sport
    <3>1. sport # start[t]
      BY <1>s, <2>3
    <3>2. r.no # walked
      BY <1>1, <3>1 DEF TriedInv
    <3>3. r.port = sport => walked - r.no >= NPorts
      BY <1>0, <1>s, <1>6, <2>1, <3>2
    <3> QED
      BY <1>0, <2>1, <2>3, <3>2, <3>3 DEF Apart
  <2> QED
    BY <1>5, <2>2, <2>3
<1>9. \A r, s \in Live' : r.no = s.no => r = s
  BY <1>2, <1>8 DEF ApartAll
<1>10. \A r, s \in Live' : r.port = s.port => r = s \/ Apart(r, s)
  BY <1>2, <1>8 DEF ApartAll
<1> QED
  BY <1>7, <1>9, <1>10 DEF ApartAll, Apart

LEMMA RequestStep ==
    ASSUME Inv, AgeInv, ApartAll, TriedInv, [Next]_vars
    PROVE  /\ AgeInv' /\ ApartAll'
           /\ Live' \subseteq Live \/ \E t \in Tasks : Search(t)
<1> DEFINE Goal == /\ AgeInv' /\ ApartAll'
                   /\ Live' \subseteq Live \/ \E t \in Tasks : Search(t)
<1>0. TypeOK /\ ConnInv
  BY DEF Inv
<1>k. ASSUME UNCHANGED <<sport, walked, req, reply, id, sent>>,
             \A b \in Buffers : Old(content'[b])
      PROVE  Goal
  BY <1>k, OldFacts, RequestsKept
<1>r. ASSUME NEW t \in Tasks, Returned(t), UNCHANGED <<sport, walked, id, content, sent>>
      PROVE  Goal
  BY <1>0, <1>r, OldFacts, ReturnedOld, RequestsKept
<1>1. ASSUME NEW t \in Tasks, SportLock(t) PROVE Goal
  BY <1>1, <1>k, OldFacts DEF SportLock, portVars, connVars, poolVars
<1>2. ASSUME NEW t \in Tasks, Search(t) PROVE Goal
  BY <1>2, SearchRequests
<1>3. ASSUME NEW t \in Tasks, Chosen(t) PROVE Goal
  <2>1. CASE Returned(t)
    BY <1>3, <1>r, <2>1 DEF Chosen, portVars, connVars, poolVars
  <2>2. CASE ~Returned(t)
    BY <1>3, <1>k, <2>2, OldFacts DEF Chosen, portVars, connVars, poolVars
  <2> QED
    BY <2>1, <2>2
<1>4. ASSUME NEW t \in Tasks,
             \/ AllocateFind(t) \/ AllocateOpen(t) \/ GetNone(t) \/ ReadTimeout(t) \/ CloseLock(t)
      PROVE  Goal
  BY <1>4, <1>k, OldFacts
     DEF AllocateFind, AllocateOpen, GetNone, ReadTimeout, CloseLock, locals, portVars,
         connVars, poolVars
<1>5. ASSUME NEW t \in Tasks, AllocateNone(t) \/ AllocateTimeout(t) \/ CloseTimeout(t)
      PROVE  Goal
  BY <1>5, <1>r DEF AllocateNone, AllocateTimeout, CloseTimeout, portVars, connVars, poolVars
<1>7. ASSUME NEW t \in Tasks, NewId(t) PROVE Goal
  <2>1. \A c \in Conns : Old(id'[c])
    BY <1>0, <1>7, OldFacts DEF NewId, TypeOK
  <2> QED
    BY <1>7, <2>1, OldFacts, RequestsKept DEF NewId, locals, portVars, poolVars
<1>8. ASSUME NEW t \in Tasks, NewFlush(t) PROVE Goal
  BY <1>8, <1>k, FreedOld DEF NewFlush, Flush, locals, portVars
<1>9. ASSUME NEW t \in Tasks, GetBuffer(t) PROVE Goal
  <2>1. \A b \in Buffers : Old(content'[b])
    BY <1>0, <1>9, OldFacts DEF GetBuffer, Got, TypeOK
  <2> QED
    BY <1>9, <1>k, <2>1 DEF GetBuffer, portVars, connVars
<1>11. ASSUME NEW t \in Tasks, SendFailed(t) PROVE Goal
  BY <1>11, <1>k, FreedOld DEF SendFailed, portVars, connVars
<1>12. ASSUME NEW t \in Tasks, NEW yes \in BOOLEAN, Send(t, yes) PROVE Goal
  <2>1. packet[t] \in Buffers
    BY <1>0, <1>12 DEF TypeOK, ConnInv, Send, SendTo
  <2>2. sent' \subseteq sent \union {content[packet[t]]}
    BY <1>12 DEF Send, SendTo
  <2>3. \A r \in sent' : Old(r)
    BY <2>1, <2>2, OldFacts
  <2>4. \A b \in Buffers : Old(content'[b])
    BY <1>0, <1>12, OldFacts DEF Send, SendTo, TypeOK
  <2> QED
    BY <1>12, <2>3, <2>4, OldFacts, RequestsKept DEF Send, SendTo, portVars, connVars
<1>13. ASSUME NEW t \in Tasks, NEW yes \in BOOLEAN, Read(t, yes) PROVE Goal
  <2>1. conn[t] \in Conns /\ rxq[conn[t]] # <<>>
    BY <1>0, <1>13 DEF TypeOK, ConnInv, Read, Owning
  <2>2. Head(rxq[conn[t]]) \in Buffers
    BY <1>0, <2>1, QueueType
  <2>3. \A u \in Tasks : Old(reply'[u])
    BY <1>0, <1>13, <2>2, OldFacts DEF Read, TypeOK
  <2>4. \A b \in Buffers : Old(content'[b])
    BY <1>13, FreedOld DEF Read
  <2> QED
    BY <1>13, <2>3, <2>4, OldFacts, RequestsKept DEF Read, portVars
<1>15. ASSUME NEW t \in Tasks, Close(t) PROVE Goal
  <2>1. conn[t] \in Conns /\ Returned(t)
    BY <1>0, <1>15 DEF TypeOK, ConnInv, Close, Closed, Owning
  <2>2. \A c \in Conns \ {conn[t]} : id'[c] = id[c]
    BY <1>0, <1>15 DEF Close, Closed, TypeOK
  <2>3. id'[conn[t]].no = 0
    <3>1. id[conn[t]] \in Requests
      BY <1>0, <2>1 DEF TypeOK
    <3>2. \E n, p : id[conn[t]] = [no |-> n, port |-> p]
      BY <3>1 DEF Requests, NoRequest
    <3>3. id'[conn[t]] = [id[conn[t]] EXCEPT !.no = 0]
      BY <1>0, <1>15, <2>1 DEF Close, Closed, TypeOK
    <3> QED
      BY <3>2, <3>3
  <2>4. \A c \in Conns : Old(id'[c])
    BY <2>2, <2>3, OldFacts DEF Old
  <2>5. \A b \in Buffers : Old(content'[b])
    BY <1>15, FreedOld DEF Close, Closed
  <2> QED
    BY <1>0, <1>15, <2>1, <2>4, <2>5, OldFacts, ReturnedOld, RequestsKept
       DEF Close, Closed, portVars
<1>16. ASSUME NEW b \in wire, Transmitted(b) PROVE Goal
  BY <1>16, <1>k, FreedOld DEF Transmitted, locals, portVars, connVars
<1>17. ASSUME NEW r \in sent, Arrive(r) PROVE Goal
  <2>1. \A b \in Buffers : Old(content'[b])
    BY <1>0, <1>17, OldFacts DEF Arrive, Got, TypeOK
  <2> QED
    BY <1>17, <1>k, <2>1 DEF Arrive, locals, portVars
<1>18. CASE UNCHANGED vars
  BY <1>18, <1>k, OldFacts DEF vars
<1> QED
  BY <1>1, <1>2, <1>3, <1>4, <1>5, <1>7, <1>8, <1>9, <1>11, <1>12, <1>13,
     <1>15, <1>16, <1>17, <1>18 DEF Next, Step, Idle

(* The counter moves in a search only, and there is one search at a time.      *)
LEMMA TriedStep ==
    ASSUME Inv, AgeInv, ApartAll, TriedInv, [Next]_vars
    PROVE  TriedInv'
<1>0. TypeOK /\ LockInv
  BY DEF Inv
<1>1. ASSUME NEW t \in Tasks, Search(t) PROVE TriedInv'
  <2>1. \A u \in Tasks : pc[u] = "search" => u = t
    BY <1>0, <1>1 DEF LockInv, Search
  <2>2. CASE UNCHANGED <<pc, req>>
    <3>1. Live' = Live /\ pc' = pc /\ walked' = walked + 1
      BY <1>1, <2>2 DEF Search, Live, Known, connVars, poolVars
    <3>2. \A r \in Live : r.no <= walked /\ r.no \in Nat
      BY <1>0, LiveTypes DEF AgeInv
    <3>3. walked \in Nat
      BY <1>0 DEF TypeOK
    <3>4. \A r \in Live : r.no # walked + 1
      BY <3>2, <3>3
    <3> QED
      BY <3>1, <3>4 DEF TriedInv
  <2>3. CASE Goto(t, "chosen")
    <3>1. \A u \in Tasks : pc'[u] # "search"
      BY <1>0, <2>1, <2>3 DEF Goto, TypeOK
    <3> QED
      BY <3>1 DEF TriedInv
  <2> QED
    BY <1>1, <2>2, <2>3 DEF Search
<1>2. ASSUME ~\E t \in Tasks : Search(t) PROVE TriedInv'
  <2>1. Live' \subseteq Live
    BY <1>2, RequestStep
  <2>k. ASSUME UNCHANGED <<sport, walked>>,
               \A u \in Tasks : pc'[u] = "search" =>
                  (pc[u] = "search" /\ start'[u] = start[u]) \/ start'[u] = sport
        PROVE  TriedInv'
    BY <2>1, <2>k DEF TriedInv
  <2>r. ASSUME NEW t \in Tasks, Returned(t), UNCHANGED portVars PROVE TriedInv'
    BY <1>0, <2>k, <2>r DEF Returned, Goto, TypeOK, portVars
  <2>m. ASSUME NEW t \in Tasks, NEW label, Goto(t, label), label # "search",
               UNCHANGED <<start, portVars>>
        PROVE  TriedInv'
    BY <1>0, <2>k, <2>m DEF Goto, TypeOK, portVars
  <2>3. ASSUME NEW t \in Tasks, SportLock(t) PROVE TriedInv'
    BY <1>0, <2>k, <2>3 DEF SportLock, Goto, TypeOK, portVars
  <2>4. ASSUME NEW t \in Tasks, Chosen(t) PROVE TriedInv'
    <3>1. CASE Returned(t)
      BY <2>4, <2>r, <3>1 DEF Chosen
    <3>2. CASE ~Returned(t)
      BY <1>0, <2>4, <2>k, <3>2 DEF Chosen, Goto, TypeOK, portVars
    <3> QED
      BY <3>1, <3>2
  <2>5. ASSUME NEW t \in Tasks,
               \/ AllocateFind(t) \/ AllocateOpen(t) \/ NewId(t) \/ NewFlush(t) \/ GetBuffer(t)
               \/ GetNone(t) \/ SendFailed(t) \/ ReadTimeout(t) \/ CloseLock(t)
        PROVE  TriedInv'
    <3>1. UNCHANGED <<start, portVars>>
      BY <2>5 DEF AllocateFind, AllocateOpen, NewId, NewFlush, Flush, GetBuffer, GetNone,
                  SendFailed, ReadTimeout, CloseLock, locals
    <3>2. \E label \in PCs \ {"search"} : Goto(t, label)
      BY <2>5 DEF AllocateFind, AllocateOpen, NewId, NewFlush, GetBuffer, GetNone,
                  SendFailed, ReadTimeout, CloseLock, PCs
    <3> QED
      BY <2>m, <3>1, <3>2
  <2>6. ASSUME NEW t \in Tasks, AllocateNone(t) \/ AllocateTimeout(t) \/ CloseTimeout(t) \/ Close(t)
        PROVE  TriedInv'
    BY <2>6, <2>r DEF AllocateNone, AllocateTimeout, CloseTimeout, Close, Closed
  <2>7. ASSUME NEW t \in Tasks, NEW yes \in BOOLEAN, Send(t, yes) \/ Read(t, yes) PROVE TriedInv'
    <3>1. UNCHANGED <<start, portVars>>
      BY <2>7 DEF Send, SendTo, Read
    <3>2. \E label \in PCs \ {"search"} : Goto(t, label)
      BY <2>7 DEF Send, SendTo, Read, PCs
    <3> QED
      BY <2>m, <3>1, <3>2
  <2>8. ASSUME UNCHANGED <<pc, start, portVars>> PROVE TriedInv'
    BY <2>k, <2>8 DEF portVars
  <2>9. ASSUME NEW b \in wire, Transmitted(b) PROVE TriedInv'
    BY <2>8, <2>9 DEF Transmitted, locals
  <2>10. ASSUME NEW r \in sent, Arrive(r) PROVE TriedInv'
    BY <2>8, <2>10 DEF Arrive, locals
  <2>11. CASE UNCHANGED vars
    BY <2>8, <2>11 DEF vars, portVars
  <2> QED
    BY <1>2, <2>3, <2>4, <2>5, <2>6, <2>7, <2>9, <2>10, <2>11 DEF Next, Step, Idle
<1> QED
  BY <1>1, <1>2

(* A client to whose transaction nothing happens. *)
LEMMA TradeSame ==
    ASSUME NEW t \in Tasks, TradeOf(t),
           pc'[t] = pc[t], conn'[t] = conn[t], req'[t] = req[t],
           packet'[t] = packet[t], reply'[t] = reply[t],
           pc[t] \in Owning \ {"open"} =>
              /\ id'[conn[t]] = id[conn[t]]
              /\ rxq'[conn[t]] = rxq[conn[t]]
              /\ \A b \in Range(rxq[conn[t]]) : content'[b] = content[b],
           pc[t] = "send" => content'[packet[t]] = content[packet[t]]
    PROVE  TradeOf(t)'
BY DEF TradeOf, Owning

(* Freeing forgets what the buffers freed hold, and nothing else. *)
LEMMA FreedContent ==
    ASSUME NEW bs, Freed(bs)
    PROVE  \A b \in Buffers \ bs : content'[b] = content[b]
BY DEF Freed

(* Where the buffers of a client are not. *)
LEMMA TradeApart ==
    ASSUME Inv, PlaceInv, NEW t \in Tasks
    PROVE  /\ pc[t] = "send" => /\ packet[t] \in Buffers
                                /\ \A c \in Conns : packet[t] \notin Range(rxq[c])
                                /\ packet[t] \notin wire /\ packet[t] \notin Free
           /\ \A u \in Tasks \ {t} : pc[u] = "send" => packet[u] # packet[t]
           /\ pc[t] \in Owning => conn[t] \in Conns
           /\ \A u \in Tasks \ {t} : pc[u] \in Owning => conn[u] # conn[t]
           /\ \A c, d \in Conns : c # d => Range(rxq[c]) \intersect Range(rxq[d]) = {}
           /\ \A c \in Conns : /\ Range(rxq[c]) \subseteq Buffers
                               /\ Range(rxq[c]) \intersect (wire \union Free) = {}
<1>1. TypeOK /\ ConnInv /\ OwnedOnce /\ None \notin Conns /\ None \notin Buffers
  BY ConstantFacts DEF Inv
<1>2. pc[t] = "send" => /\ packet[t] \in Buffers
                        /\ \A c \in Conns : packet[t] \notin Range(rxq[c])
                        /\ packet[t] \notin wire /\ packet[t] \notin Free
  <2> SUFFICES ASSUME pc[t] = "send"
               PROVE  /\ packet[t] \in Buffers
                      /\ \A c \in Conns : packet[t] \notin Range(rxq[c])
                      /\ packet[t] \notin wire /\ packet[t] \notin Free
    OBVIOUS
  <2>1. packet[t] \in Buffers /\ Held(packet[t])
    BY <1>1 DEF TypeOK, ConnInv, Held
  <2> QED
    BY <2>1 DEF PlaceInv, ApartInv, CountInv, Free, Queued
<1>3. \A u \in Tasks \ {t} : pc[u] = "send" => packet[u] # packet[t]
  BY <1>1 DEF ConnInv, PlaceInv, ApartInv
<1>4. \A u \in Tasks : pc[u] \in Owning => conn[u] \in Conns /\ conn[u] # None
  BY <1>1 DEF TypeOK, ConnInv
<1>5. \A u \in Tasks \ {t} : pc[u] \in Owning => conn[u] # conn[t]
  BY <1>1, <1>4 DEF OwnedOnce
<1>6. \A c, d \in Conns : c # d => Range(rxq[c]) \intersect Range(rxq[d]) = {}
  BY DEF PlaceInv, QueueInv
<1>7. \A c \in Conns : /\ Range(rxq[c]) \subseteq Buffers
                       /\ Range(rxq[c]) \intersect (wire \union Free) = {}
  BY <1>1, QueuedAreBuffers DEF PlaceInv, ApartInv, CountInv, Free, Queued
<1> QED
  BY <1>2, <1>3, <1>4, <1>5, <1>6, <1>7

(* The transactions, action by action.                                       *)
LEMMA TradeStep ==
    ASSUME Inv, PlaceInv, TradeInv, [Next]_vars
    PROVE  TradeInv'
<1> USE DEF Owning
<1>0. TypeOK /\ ConnInv /\ \A t \in Tasks : TradeOf(t)
  BY DEF Inv, TradeInv
<1>s. ASSUME sent' = sent, \A t \in Tasks : TradeOf(t)' PROVE TradeInv'
  BY <1>s DEF TradeInv
(* One client moves; neither the connections nor the packets of the others do. *)
<1>o. ASSUME NEW t \in Tasks, sent' = sent, TradeOf(t)',
             UNCHANGED <<id, rxq, content>>,
             \A u \in Tasks \ {t} :
                /\ pc'[u] = pc[u] /\ conn'[u] = conn[u] /\ req'[u] = req[u]
                /\ packet'[u] = packet[u] /\ reply'[u] = reply[u]
      PROVE  TradeInv'
  <2>1. \A u \in Tasks \ {t} : TradeOf(u)'
    BY <1>0, <1>o, TradeSame
  <2> QED
    BY <1>o, <1>s, <2>1
<1>r. ASSUME NEW t \in Tasks, Returned(t)
      PROVE  /\ TradeOf(t)'
             /\ \A u \in Tasks \ {t} :
                  /\ pc'[u] = pc[u] /\ conn'[u] = conn[u] /\ req'[u] = req[u]
                  /\ packet'[u] = packet[u] /\ reply'[u] = reply[u]
  BY <1>0, <1>r DEF Returned, Goto, TypeOK, TradeOf
<1>n. \A t \in Tasks : reply[t] # NoRequest => pc[t] \in {"close", "closing"}
  BY <1>0 DEF TradeOf
<1>1. ASSUME NEW t \in Tasks, SportLock(t) PROVE TradeInv'
  <2>1. TradeOf(t)'
    BY <1>0, <1>n, <1>1 DEF SportLock, Goto, TypeOK, TradeOf
  <2> QED
    BY <1>0, <1>1, <1>o, <2>1 DEF SportLock, Goto, TypeOK, connVars, poolVars
<1>2. ASSUME NEW t \in Tasks, Search(t) PROVE TradeInv'
  <2>1. /\ pc[t] = "search" /\ pc'[t] \in {"search", "chosen"} /\ reply' = reply
        /\ \A u \in Tasks \ {t} : pc'[u] = pc[u] /\ req'[u] = req[u]
        /\ UNCHANGED <<conn, packet, connVars, poolVars, sent>>
    BY <1>0, <1>2 DEF Search, Goto, TypeOK
  <2>2. TradeOf(t)'
    BY <1>n, <2>1 DEF TradeOf
  <2> QED
    BY <1>o, <2>1, <2>2 DEF connVars, poolVars
<1>3. ASSUME NEW t \in Tasks, Chosen(t) PROVE TradeInv'
  <2>1. CASE Returned(t)
    BY <1>3, <1>r, <1>o, <2>1 DEF Chosen, connVars, poolVars
  <2>2. CASE ~Returned(t)
    <3>1. TradeOf(t)'
      BY <1>0, <1>n, <1>3, <2>2 DEF Chosen, Goto, TypeOK, TradeOf
    <3> QED
      BY <1>0, <1>3, <1>o, <2>2, <3>1 DEF Chosen, Goto, TypeOK, connVars, poolVars
  <2> QED
    BY <2>1, <2>2
<1>4. ASSUME NEW t \in Tasks, AllocateFind(t) PROVE TradeInv'
  <2>1. TradeOf(t)'
    BY <1>0, <1>n, <1>4 DEF AllocateFind, Goto, TypeOK, TradeOf
  <2>2. PICK c \in Conns : conn' = [conn EXCEPT ![t] = c]
    BY <1>4 DEF AllocateFind
  <2> QED
    BY <1>0, <1>4, <1>o, <2>1, <2>2 DEF AllocateFind, Goto, TypeOK, connVars, poolVars
<1>5. ASSUME NEW t \in Tasks, AllocateNone(t) \/ AllocateTimeout(t) \/ CloseTimeout(t)
      PROVE  TradeInv'
  BY <1>5, <1>r, <1>o DEF AllocateNone, AllocateTimeout, CloseTimeout, connVars, poolVars
<1>6. ASSUME NEW t \in Tasks,
             AllocateOpen(t) \/ GetNone(t) \/ ReadTimeout(t) \/ CloseLock(t)
      PROVE  TradeInv'
  <2>2. /\ UNCHANGED <<conn, req, packet, reply, id, rxq, content, sent>>
        /\ \/ pc[t] = "open" /\ pc'[t] = "setId"
           \/ pc[t] = "get" /\ pc'[t] = "close"
           \/ pc[t] = "read" /\ pc'[t] = "close"
           \/ pc[t] = "close" /\ pc'[t] = "closing"
    BY <1>0, <1>6
       DEF AllocateOpen, GetNone, ReadTimeout, CloseLock, Goto, TypeOK, locals, connVars,
           poolVars
  <2>1. TradeOf(t)'
    <3>1. CASE pc[t] = "open" /\ pc'[t] = "setId"
      BY <1>n, <2>2, <3>1 DEF TradeOf
    <3>2. CASE pc[t] \in {"get", "read", "close"} /\ pc'[t] \in {"close", "closing"}
      BY <1>0, <2>2, <3>2 DEF TradeOf
    <3> QED
      BY <2>2, <3>1, <3>2
  <2> QED
    BY <1>0, <1>6, <1>o, <2>1
       DEF AllocateOpen, GetNone, ReadTimeout, CloseLock, Goto, TypeOK, locals, connVars,
           poolVars
<1>7. ASSUME NEW t \in Tasks, NewId(t) PROVE TradeInv'
  <2>1. /\ pc[t] = "setId" /\ pc' = [pc EXCEPT ![t] = "flush"]
        /\ id' = [id EXCEPT ![conn[t]] = req[t]]
        /\ UNCHANGED <<conn, req, packet, reply, rxq, content, sent>>
    BY <1>7 DEF NewId, Goto, locals, poolVars
  <2>2. conn[t] \in Conns /\ \A u \in Tasks \ {t} : pc[u] \in Owning => conn[u] # conn[t]
                                                                    /\ conn[u] \in Conns
    BY <2>1, TradeApart
  <2>3. TradeOf(t)'
    BY <1>0, <1>n, <2>1, <2>2 DEF TypeOK, TradeOf
  <2>4. ASSUME NEW u \in Tasks \ {t} PROVE TradeOf(u)'
    BY <1>0, <2>1, <2>2, TradeSame DEF TypeOK
  <2> QED
    BY <1>s, <2>1, <2>3, <2>4
<1>8. ASSUME NEW t \in Tasks, NewFlush(t) PROVE TradeInv'
  <2> DEFINE c == conn[t]
  <2>1. /\ pc[t] = "flush" /\ pc' = [pc EXCEPT ![t] = "get"]
        /\ Freed(Range(rxq[c])) /\ rxq' = [rxq EXCEPT ![c] = <<>>]
        /\ UNCHANGED <<conn, req, packet, reply, id, sent>>
    BY <1>8 DEF NewFlush, Flush, Goto, locals
  <2>2. /\ c \in Conns
        /\ \A u \in Tasks \ {t} : pc[u] \in Owning => conn[u] # c /\ conn[u] \in Conns
    BY <2>1, TradeApart
  <2>3. rxq'[c] = <<>> /\ \A d \in Conns \ {c} : rxq'[d] = rxq[d]
    BY <1>0, <2>1, <2>2 DEF TypeOK
  <2>4. TradeOf(t)'
    BY <1>0, <1>n, <2>1, <2>3, EmptyFacts DEF TypeOK, TradeOf
  <2>5. ASSUME NEW u \in Tasks \ {t} PROVE TradeOf(u)'
    <3>1. pc[u] = "send" => content'[packet[u]] = content[packet[u]]
      BY <2>1, <2>2, FreedContent, TradeApart
    <3>2. pc[u] \in Owning => \A b \in Range(rxq[conn[u]]) : content'[b] = content[b]
      <4> SUFFICES ASSUME pc[u] \in Owning, NEW b \in Range(rxq[conn[u]])
                   PROVE  content'[b] = content[b]
        OBVIOUS
      <4>1. b \in Buffers \ Range(rxq[c])
        BY <2>2, TradeApart
      <4> QED
        BY <2>1, <4>1, FreedContent
    <3>3. pc'[u] = pc[u] /\ reply'[u] = reply[u]
      BY <1>0, <2>1 DEF TypeOK
    <3>4. pc[u] \in Owning => rxq'[conn[u]] = rxq[conn[u]]
      BY <2>2, <2>3
    <3> HIDE DEF c
    <3> QED
      BY <1>0, <2>1, <3>1, <3>2, <3>3, <3>4, TradeSame
  <2> QED
    BY <1>s, <2>1, <2>4, <2>5
<1>9. ASSUME NEW t \in Tasks, GetBuffer(t) PROVE TradeInv'
  <2>1. PICK b \in Buffers : Got(b, req[t]) /\ packet' = [packet EXCEPT ![t] = b]
    BY <1>9 DEF GetBuffer
  <2>2. /\ pc[t] = "get" /\ pc' = [pc EXCEPT ![t] = "send"] /\ b \in Free
        /\ content' = [content EXCEPT ![b] = req[t]]
        /\ UNCHANGED <<conn, req, reply, id, rxq, sent>>
    BY <1>9, <2>1 DEF GetBuffer, Goto, Got, IsNext, connVars
  <2>3. \A a \in Buffers \ {b} : content'[a] = content[a]
    BY <1>0, <2>2 DEF TypeOK
  <2>4. ASSUME NEW u \in Tasks, pc[u] \in Owning
        PROVE  \A a \in Range(rxq[conn[u]]) : content'[a] = content[a]
    <3>1. conn[u] \in Conns
      BY <2>4, TradeApart
    <3>2. Range(rxq[conn[u]]) \subseteq Buffers \ {b}
      BY <2>2, <3>1, TradeApart
    <3> QED
      BY <2>3, <3>2
  <2>5. TradeOf(t)'
    <3>1. content'[packet'[t]] = req[t]
      BY <1>0, <2>1, <2>2 DEF TypeOK
    <3>2. pc'[t] = "send" /\ reply[t] = NoRequest
      BY <1>0, <1>n, <2>2 DEF TypeOK
    <3>3. \A a \in Range(rxq[conn[t]]) : content'[a] = content[a]
      BY <2>2, <2>4
    <3> QED
      BY <1>0, <2>2, <3>1, <3>2, <3>3 DEF TradeOf
  <2>6. ASSUME NEW u \in Tasks \ {t} PROVE TradeOf(u)'
    <3>1. pc[u] = "send" => content'[packet[u]] = content[packet[u]]
      BY <2>2, <2>3, TradeApart
    <3> QED
      BY <1>0, <2>1, <2>2, <2>4, <3>1, TradeSame DEF TypeOK
  <2> QED
    BY <1>s, <2>2, <2>5, <2>6
(* The packet of t leaves its hands, and only what it holds changes.          *)
<1>p. ASSUME NEW t \in Tasks, NEW l \in {"read", "close"}, pc[t] = "send", packet[t] \in Buffers,
             pc' = [pc EXCEPT ![t] = l], packet' = [packet EXCEPT ![t] = None],
             \A a \in Buffers \ {packet[t]} : content'[a] = content[a],
             UNCHANGED <<conn, req, reply, id, rxq>>
      PROVE  \A u \in Tasks : TradeOf(u)'
  <2>1. ASSUME NEW u \in Tasks, pc[u] \in Owning
        PROVE  \A a \in Range(rxq[conn[u]]) : content'[a] = content[a]
    <3>1. conn[u] \in Conns
      BY <2>1, TradeApart
    <3>2. Range(rxq[conn[u]]) \subseteq Buffers \ {packet[t]}
      BY <1>p, <3>1, TradeApart
    <3> QED
      BY <1>p, <3>2
  <2>2. TradeOf(t)'
    BY ZenonT(40), <1>0, <1>n, <1>p, <2>1 DEF TypeOK, TradeOf
  <2>3. ASSUME NEW u \in Tasks \ {t} PROVE TradeOf(u)'
    <3>1. pc[u] = "send" => content'[packet[u]] = content[packet[u]]
      BY <1>p, TradeApart
    <3> QED
      BY <1>0, <1>p, <2>1, <3>1, TradeSame DEF TypeOK
  <2> QED
    BY <2>2, <2>3
<1>11. ASSUME NEW t \in Tasks, SendFailed(t) PROVE TradeInv'
  <2>1. packet[t] \in Buffers
    BY <1>11, TradeApart DEF SendFailed
  <2>2. \A a \in Buffers \ {packet[t]} : content'[a] = content[a]
    BY <1>11, FreedContent DEF SendFailed
  <2> QED
    BY <1>11, <1>p, <1>s, <2>1, <2>2 DEF SendFailed, Goto, connVars
<1>12. ASSUME NEW t \in Tasks, NEW yes \in BOOLEAN, Send(t, yes) PROVE TradeInv'
  <2>1. packet[t] \in Buffers /\ pc[t] = "send"
    BY <1>12, TradeApart DEF Send, SendTo
  <2>2. content' = [content EXCEPT ![packet[t]] = NoRequest]
    BY <1>12 DEF Send, SendTo
  <2>3. \A a \in Buffers \ {packet[t]} : content'[a] = content[a]
    BY <1>0, <2>2 DEF TypeOK
  <2>4. /\ pc' = [pc EXCEPT ![t] = IF yes THEN "read" ELSE "close"]
        /\ packet' = [packet EXCEPT ![t] = None] /\ UNCHANGED <<conn, req, reply, id, rxq>>
    BY <1>12 DEF Send, SendTo, Goto, connVars
  <2>5. \A u \in Tasks : TradeOf(u)'
    <3>1. (IF yes THEN "read" ELSE "close") \in {"read", "close"}
      OBVIOUS
    <3> QED
      BY <1>p, <2>1, <2>3, <2>4, <3>1
  <2>6. \A r \in sent' : r.no >= 1
    <3>1. sent' \subseteq sent \union {content[packet[t]]}
      BY <1>12 DEF Send, SendTo
    <3>2. content[packet[t]] = req[t] /\ req[t].no \in Nat \ {0}
      BY <1>0, <2>1 DEF TradeOf, ConnInv, Asking
    <3> QED
      BY <3>1, <3>2 DEF TradeInv
  <2> QED
    BY <2>5, <2>6 DEF TradeInv
<1>13. ASSUME NEW t \in Tasks, NEW yes \in BOOLEAN, Read(t, yes) PROVE TradeInv'
  <2> DEFINE c == conn[t]
             b == Head(rxq[c])
  <2>1. /\ pc[t] = "read" /\ pc' = [pc EXCEPT ![t] = "close"] /\ rxq[c] # <<>>
        /\ reply' = [reply EXCEPT ![t] = IF yes THEN content[b] ELSE NoRequest]
        /\ Freed({b}) /\ rxq' = [rxq EXCEPT ![c] = Tail(@)]
        /\ UNCHANGED <<conn, req, packet, id, sent>>
    BY <1>13 DEF Read, Goto
  <2>2. /\ c \in Conns /\ rxq[c] \in Seq(Buffers)
        /\ \A u \in Tasks \ {t} : pc[u] \in Owning => conn[u] # c /\ conn[u] \in Conns
    BY <1>0, <2>1, TradeApart DEF TypeOK
  <2>3. rxq'[c] = Tail(rxq[c]) /\ \A d \in Conns \ {c} : rxq'[d] = rxq[d]
    BY <1>0, <2>1, <2>2 DEF TypeOK
  <2>4. /\ b \in Range(rxq[c]) /\ b \in Buffers
        /\ Range(Tail(rxq[c])) \subseteq Range(rxq[c]) \ {b}
    <3>1. Distinct(rxq[c])
      BY <2>2 DEF PlaceInv, QueueInv
    <3>2. /\ b \in Range(rxq[c]) /\ Range(rxq[c]) = Range(Tail(rxq[c])) \union {b}
          /\ b \notin Range(Tail(rxq[c]))
      BY <2>1, <2>2, <3>1, TailFacts
    <3> QED
      BY <2>2, <3>2, TradeApart
  <2>5. \A a \in Buffers \ {b} : content'[a] = content[a]
    BY <2>1, FreedContent
  <2>6. TradeOf(t)'
    <3>1. \A a \in Range(rxq'[c]) : content'[a] = content[a] /\ a \in Range(rxq[c])
      BY <2>2, <2>3, <2>4, <2>5, TradeApart
    <3>2. content[b].no >= 1 /\ content[b].port = req[t].port
      BY <1>0, <2>1, <2>4 DEF TradeOf
    <3>3. \A a \in Range(rxq[c]) : content[a].no >= 1 /\ content[a].port = req[t].port
      BY <1>0, <2>1 DEF TradeOf
    <3>4. id[c] = req[t]
      BY <1>0, <2>1 DEF TradeOf
    <3>5. /\ pc'[t] = "close" /\ reply'[t] \in {content[b], NoRequest} /\ conn'[t] = c
          /\ req'[t] = req[t] /\ id' = id
      BY <1>0, <2>1 DEF TypeOK
    <3> HIDE DEF b, c
    <3> QED
      BY <3>1, <3>2, <3>3, <3>4, <3>5 DEF TradeOf
  <2>7. ASSUME NEW u \in Tasks \ {t} PROVE TradeOf(u)'
    <3>1. pc[u] = "send" => content'[packet[u]] = content[packet[u]]
      BY <2>2, <2>4, <2>5, TradeApart
    <3>2. ASSUME pc[u] \in Owning, NEW a \in Range(rxq[conn[u]]) PROVE content'[a] = content[a]
      <4>1. a \in Buffers \ {b}
        BY <2>2, <2>4, <3>2, TradeApart
      <4> QED
        BY <2>5, <4>1
    <3>3. pc'[u] = pc[u] /\ reply'[u] = reply[u]
      BY <1>0, <2>1 DEF TypeOK
    <3>4. pc[u] \in Owning => rxq'[conn[u]] = rxq[conn[u]]
      BY <2>2, <2>3
    <3> HIDE DEF c
    <3> QED
      BY <1>0, <2>1, <3>1, <3>2, <3>3, <3>4, TradeSame
  <2> QED
    BY <1>s, <2>1, <2>6, <2>7
<1>15. ASSUME NEW t \in Tasks, Close(t) PROVE TradeInv'
  <2> DEFINE c == conn[t]
  <2>1. /\ pc[t] = "closing" /\ Returned(t) /\ Freed(Range(rxq[c]))
        /\ rxq' = [rxq EXCEPT ![c] = <<>>] /\ id' = [id EXCEPT ![c].no = 0] /\ sent' = sent
    BY <1>15 DEF Close, Closed
  <2>2. /\ c \in Conns
        /\ \A u \in Tasks \ {t} : pc[u] \in Owning => conn[u] # c /\ conn[u] \in Conns
    BY <2>1, TradeApart
  <2>3. \A d \in Conns \ {c} : rxq'[d] = rxq[d] /\ id'[d] = id[d]
    BY <1>0, <2>1, <2>2 DEF TypeOK
  <2>4. ASSUME NEW u \in Tasks \ {t} PROVE TradeOf(u)'
    <3>1. pc[u] = "send" => content'[packet[u]] = content[packet[u]]
      BY <2>1, <2>2, FreedContent, TradeApart
    <3>2. ASSUME pc[u] \in Owning, NEW b \in Range(rxq[conn[u]]) PROVE content'[b] = content[b]
      <4>1. b \in Buffers \ Range(rxq[c])
        BY <2>2, <3>2, TradeApart
      <4> QED
        BY <2>1, <4>1, FreedContent
    <3> QED
      BY <1>0, <1>r, <2>1, <2>2, <2>3, <3>1, <3>2, TradeSame
  <2> QED
    BY <1>r, <1>s, <2>1, <2>4
<1>16. ASSUME NEW b \in wire, Transmitted(b) PROVE TradeInv'
  <2>1. Freed({b}) /\ UNCHANGED <<pc, conn, req, packet, reply, id, rxq, sent>>
    BY <1>16 DEF Transmitted, locals, connVars
  <2>2. ASSUME NEW u \in Tasks PROVE TradeOf(u)'
    <3>1. pc[u] = "send" => content'[packet[u]] = content[packet[u]]
      BY <2>1, FreedContent, TradeApart
    <3>2. ASSUME pc[u] \in Owning, NEW a \in Range(rxq[conn[u]]) PROVE content'[a] = content[a]
      <4>1. a \in Buffers \ {b}
        BY <3>2, TradeApart
      <4> QED
        BY <2>1, <4>1, FreedContent
    <3> QED
      BY <1>0, <2>1, <3>1, <3>2, TradeSame
  <2> QED
    BY <1>s, <2>1, <2>2
<1>17. ASSUME NEW r \in sent, Arrive(r) PROVE TradeInv'
  <2>1. PICK c \in Matching(r), b \in Buffers :
            Got(b, r) /\ rxq' = [rxq EXCEPT ![c] = Append(@, b)]
    BY <1>17 DEF Arrive
  <2>2. /\ c \in Conns /\ id[c].port = r.port /\ b \in Free /\ r.no >= 1
        /\ content' = [content EXCEPT ![b] = r] /\ rxq[c] \in Seq(Buffers)
        /\ UNCHANGED <<pc, conn, req, packet, reply, id, sent>>
    BY <1>0, <1>17, <2>1 DEF Matching, Got, IsNext, Arrive, locals, TypeOK, TradeInv
  <2>3. content'[b] = r /\ \A a \in Buffers \ {b} : content'[a] = content[a]
    BY <1>0, <2>2 DEF TypeOK
  <2>4. /\ Range(rxq'[c]) = Range(rxq[c]) \union {b}
        /\ \A d \in Conns \ {c} : rxq'[d] = rxq[d]
    <3>1. rxq'[c] = Append(rxq[c], b) /\ \A d \in Conns \ {c} : rxq'[d] = rxq[d]
      BY <1>0, <2>1, <2>2 DEF TypeOK
    <3> QED
      BY <2>2, <3>1, AppendFacts
  <2>5. ASSUME NEW u \in Tasks PROVE TradeOf(u)'
    <3>1. pc[u] = "send" => content'[packet[u]] = content[packet[u]]
      BY <2>2, <2>3, TradeApart
    <3>2. ASSUME pc[u] \in Owning, NEW a \in Range(rxq[conn[u]]) PROVE content'[a] = content[a]
      <4>1. a \in Buffers \ {b}
        BY <2>2, <3>2, TradeApart
      <4> QED
        BY <2>3, <4>1
    <3>3. CASE pc[u] \notin Owning \/ conn[u] # c
      <4>1. pc[u] \in Owning => conn[u] \in Conns
        BY TradeApart
      <4> QED
        BY <1>0, <2>2, <2>4, <3>1, <3>2, <3>3, <4>1, TradeSame
    <3>4. CASE pc[u] \in Owning /\ conn[u] = c
      <4>1. pc[u] \in {"get", "send", "read", "close", "closing"} =>
              \A a \in Range(rxq'[c]) : content'[a].no >= 1 /\ content'[a].port = req[u].port
        BY <1>0, <2>2, <2>3, <2>4, <3>2, <3>4 DEF TradeOf
      <4> QED
        BY <1>0, <2>2, <3>1, <3>4, <4>1 DEF TradeOf
    <3> QED
      BY <3>3, <3>4
  <2> QED
    BY <1>s, <2>2, <2>5
<1>18. CASE UNCHANGED vars
  BY <1>0, <1>18, <1>s, TradeSame DEF vars
<1> QED
  BY <1>1, <1>2, <1>3, <1>4, <1>5, <1>6, <1>7, <1>8, <1>9, <1>11, <1>12, <1>13,
     <1>15, <1>16, <1>17, <1>18 DEF Next, Step, Idle

(* csp_transaction returns the reply to its own request, or one to a request   *)
(* for which the port counter has come round since, whatever the network      *)
(* repeats or delays and however the clients interleave: with any number of   *)
(* clients, and whether or not the interface gives buffers back.              *)
THEOREM RepliesAreRight == Spec => []RightReply
<1> DEFINE All == Inv /\ PlaceInv /\ AgeInv /\ ApartAll /\ TriedInv /\ TradeInv
<1>1. Init => All
  BY InvInit, PlaceInit, RequestInit
<1>2. All /\ [Next]_vars => All'
  BY TypeStep, OwnStep, PlaceStep, RequestStep, TriedStep, TradeStep DEF Inv
<1>3. All => RightReply
  <2> SUFFICES ASSUME All, NEW t \in Tasks, reply[t] # NoRequest
               PROVE  reply[t] = req[t] \/ Apart(reply[t], req[t])
    BY DEF RightReply
  <2>1. /\ pc[t] \in {"close", "closing"} /\ reply[t].no >= 1
        /\ reply[t].port = req[t].port /\ req[t].no >= 1
    BY DEF TradeInv, TradeOf, Inv, ConnInv, Asking, Owning
  <2>2. reply[t] \in Live /\ req[t] \in Live
    BY <2>1 DEF Live, Known
  <2> QED
    BY <2>1, <2>2 DEF ApartAll
<1> QED
  BY <1>1, <1>2, <1>3, PTL DEF Spec

-----------------------------------------------------------------------------
(* The clients are few enough for the ports: each port a search finds taken is *)
(* that of a connection open when it began, or the former port or the new one *)
(* of a connection that one of the other clients has opened since.  With the  *)
(* ten connections and 32 ephemeral ports of the firmware, up to eleven.      *)
FewClients == IsFiniteSet(Tasks) /\ NConn + 2 * Cardinality(Tasks) <= NPorts

(* The ports the search of t has found taken.                                *)
Passed(t) ==
    {p \in Ports : IF sport >= start[t] THEN start[t] < p /\ p <= sport
                                        ELSE start[t] < p \/ p <= sport}

(* What the search of t has found taken, and what it may still find.          *)
Early == {"chosen", "connLock", "open"}
Tokens(t) ==
    ({"port"} \X Passed(t))
    \union ({"conn"} \X {c \in Conns : state[c] = "OPEN" /\ id[c].port \notin Passed(t)})
    \union ({"stale"} \X {u \in Tasks : pc[u] \in Early})
    \union ({"own"} \X {u \in Tasks : pc[u] \in Early \union {"setId"}})

TokenInv ==
    \A t \in Tasks :
        pc[t] = "search" => Cardinality(Tokens(t)) <= NConn + 2 * (Cardinality(Tasks) - 1)

(* Who may show a port in arr_conn: a connection with its id set, or a client  *)
(* that has chosen one and is still on its way.                              *)
Bearers ==
    ({"conn"} \X {c \in Conns : Shown(c)})
    \union ({"task"} \X {u \in Tasks : pc[u] \in Early \union {"setId"}})
Borne(x) == IF x[1] = "conn" THEN id[x[2]] ELSE req[x[2]]

BearerInv ==
    /\ \A x \in Bearers : Borne(x).no >= 1
    /\ \A x, y \in Bearers : x # y =>
         /\ Borne(x).no # Borne(y).no
         /\ Borne(x).port = Borne(y).port => {Borne(x).no, Borne(y).no} \in blind

LEMMA TokenFacts ==
    \A t, p, c, u :
        /\ <<"port", p>> \in Tokens(t) <=> p \in Passed(t)
        /\ <<"conn", c>> \in Tokens(t) <=>
             c \in Conns /\ state[c] = "OPEN" /\ id[c].port \notin Passed(t)
        /\ <<"stale", u>> \in Tokens(t) <=> u \in Tasks /\ pc[u] \in Early
        /\ <<"own", u>> \in Tokens(t) <=> u \in Tasks /\ pc[u] \in Early \union {"setId"}
BY DEF Tokens

LEMMA TokensFinite ==
    ASSUME FewClients, NEW t, NEW b
    PROVE  /\ IsFiniteSet(Tokens(t)) /\ Cardinality(Tokens(t)) \in Nat
           /\ \A T, a : T \subseteq (Tokens(t) \ {a}) \union {b} /\ a \in Tokens(t) =>
                          Cardinality(T) \in 0 .. Cardinality(Tokens(t))
           /\ \A T : T \subseteq Tokens(t) => Cardinality(T) \in 0 .. Cardinality(Tokens(t))
<1> DEFINE kinds == {"port", "conn", "stale", "own"}
           things == Ports \union Conns \union Tasks
<1>1. IsFiniteSet(Ports) /\ IsFiniteSet(Conns) /\ IsFiniteSet(Tasks)
  BY ConstantFacts, FS_Interval DEF Ports, Conns, FewClients
<1>2. IsFiniteSet(things)
  BY <1>1, FS_Union
<1>3. IsFiniteSet(kinds)
  <2>1. IsFiniteSet({"port"}) /\ IsFiniteSet({"conn"}) /\ IsFiniteSet({"stale"})
        /\ IsFiniteSet({"own"})
    BY FS_Singleton
  <2>2. IsFiniteSet({"port"} \union {"conn"}) /\ IsFiniteSet({"stale"} \union {"own"})
    BY <2>1, FS_Union
  <2>3. IsFiniteSet(({"port"} \union {"conn"}) \union ({"stale"} \union {"own"}))
    BY <2>2, FS_Union
  <2>4. kinds = ({"port"} \union {"conn"}) \union ({"stale"} \union {"own"})
    OBVIOUS
  <2> QED
    BY <2>3, <2>4
<1>4. IsFiniteSet(kinds \X things)
  BY <1>2, <1>3, FS_Product
<1>5. Tokens(t) \subseteq kinds \X things
  BY DEF Tokens, Passed
<1>6. IsFiniteSet(Tokens(t)) /\ Cardinality(Tokens(t)) \in Nat
  BY <1>4, <1>5, FS_Subset, FS_CardinalityType
<1>7. ASSUME NEW T, NEW a, T \subseteq (Tokens(t) \ {a}) \union {b}, a \in Tokens(t)
      PROVE  Cardinality(T) \in 0 .. Cardinality(Tokens(t))
  <2>1. IsFiniteSet(Tokens(t) \ {a}) /\ Cardinality(Tokens(t) \ {a}) = Cardinality(Tokens(t)) - 1
    BY <1>6, <1>7, FS_RemoveElement
  <2>2. /\ IsFiniteSet((Tokens(t) \ {a}) \union {b})
        /\ Cardinality((Tokens(t) \ {a}) \union {b}) <= Cardinality(Tokens(t))
        /\ Cardinality((Tokens(t) \ {a}) \union {b}) \in Nat
    BY SMTT(30), <1>6, <2>1, FS_AddElement, FS_CardinalityType
  <2>3. Cardinality(T) <= Cardinality((Tokens(t) \ {a}) \union {b}) /\ Cardinality(T) \in Nat
    BY <1>7, <2>2, FS_Subset, FS_CardinalityType
  <2> QED
    BY <1>6, <2>2, <2>3
<1>8. ASSUME NEW T, T \subseteq Tokens(t)
      PROVE  Cardinality(T) \in 0 .. Cardinality(Tokens(t))
  BY <1>6, <1>8, FS_Subset, FS_CardinalityType
<1> QED
  BY <1>6, <1>7, <1>8

(* A search never comes round to where it has begun: neither does it fail, nor *)
(* can it miss that it should have when the counter wraps.                    *)
LEMMA NotRound ==
    ASSUME FewClients, TypeOK, TokenInv, NEW t \in Tasks, pc[t] = "search"
    PROVE  NextPort(sport) # start[t] /\ sport + 1 # start[t]
<1>0. /\ sport \in Ports /\ start[t] \in Ports /\ Ports = MinPort .. MaxPort
      /\ MinPort \in Nat /\ MaxPort \in Nat /\ MinPort <= MaxPort
  BY ConstantFacts DEF TypeOK, Ports
<1>1. sport + 1 = start[t] => NextPort(sport) = start[t]
  BY <1>0 DEF NextPort
<1> SUFFICES ASSUME NextPort(sport) = start[t] PROVE FALSE
  BY <1>1
<1>2. Passed(t) = Ports \ {start[t]}
  <2>1. \/ sport + 1 = start[t]
        \/ sport = MaxPort /\ start[t] = MinPort
    BY DEF NextPort
  <2> QED
    BY <1>0, <2>1 DEF Passed
<1>3. IsFiniteSet(Passed(t)) /\ Cardinality(Passed(t)) = NPorts - 1
  <2>1. IsFiniteSet(Ports) /\ Cardinality(Ports) = NPorts
    BY <1>0, FS_Interval DEF NPorts
  <2>2. PICK P : P = Ports
    OBVIOUS
  <2>3. start[t] \in P /\ IsFiniteSet(P)
    BY <1>0, <2>1, <2>2
  <2>4. IsFiniteSet(P \ {start[t]}) /\ Cardinality(P \ {start[t]}) = Cardinality(P) - 1
    BY ONLY <2>3, FS_RemoveElement
  <2> QED
    BY <1>2, <2>1, <2>2, <2>4
<1>4. {"port"} \X Passed(t) \subseteq Tokens(t)
  BY DEF Tokens
<1>5. Cardinality({"port"} \X Passed(t)) = NPorts - 1
  <2>1. IsFiniteSet({"port"}) /\ Cardinality({"port"}) = 1
    BY FS_Singleton
  <2>2. Cardinality({"port"} \X Passed(t)) = 1 * Cardinality(Passed(t))
    BY <1>3, <2>1, FS_Product
  <2>3. NPorts - 1 \in Int
    BY <1>0 DEF NPorts
  <2> QED
    BY <1>3, <2>2, <2>3
<1>6. NPorts - 1 <= Cardinality(Tokens(t))
  BY <1>4, <1>5, TokensFinite
<1>7. Cardinality(Tasks) \in Nat /\ NConn \in Nat /\ NPorts \in Nat
      /\ Cardinality(Tokens(t)) \in Nat
  BY SMTT(30), <1>0, FS_CardinalityType, ConstantFacts, TokensFinite DEF FewClients, NPorts
<1> QED
  BY <1>6, <1>7 DEF TokenInv, FewClients

(* The search begins: nothing is passed, and t itself is on its way nowhere.  *)
LEMMA TokensAtStart ==
    ASSUME FewClients, TypeOK, NEW t \in Tasks, SportLock(t)
    PROVE  Cardinality(Tokens(t)') <= NConn + 2 * (Cardinality(Tasks) - 1)
<1> DEFINE C == {"conn"} \X Conns
           T == {"stale", "own"} \X (Tasks \ {t})
<1>1. /\ sport' = sport /\ start'[t] = sport /\ pc'[t] = "search"
  BY DEF SportLock, Goto, TypeOK, portVars
<1>2. Passed(t)' = {}
  <2>1. sport \in Int /\ \A p \in Ports : p \in Int
    BY ConstantFacts DEF TypeOK, Ports
  <2> QED
    BY <1>1, <2>1 DEF Passed
<1>3. Tokens(t)' \subseteq C \union T
  BY <1>1, <1>2 DEF Tokens, Early
<1>4. IsFiniteSet(C) /\ Cardinality(C) = NConn
  <2>1. IsFiniteSet(Conns) /\ Cardinality(Conns) = NConn
    BY ConstantFacts, FS_Interval DEF Conns
  <2>2. IsFiniteSet({"conn"}) /\ Cardinality({"conn"}) = 1
    BY FS_Singleton
  <2>3. IsFiniteSet(C) /\ Cardinality(C) = 1 * Cardinality(Conns)
    BY <2>1, <2>2, FS_Product
  <2> QED
    BY <2>1, <2>3, ConstantFacts
<1>5. IsFiniteSet(T) /\ Cardinality(T) = 2 * (Cardinality(Tasks) - 1)
  <2>1. IsFiniteSet(Tasks \ {t}) /\ Cardinality(Tasks \ {t}) = Cardinality(Tasks) - 1
    BY FS_RemoveElement DEF FewClients
  <2>2. {"stale", "own"} = {"stale"} \union {"own"}
    OBVIOUS
  <2>3. IsFiniteSet({"stale", "own"}) /\ Cardinality({"stale", "own"}) = 2
    <3>1. IsFiniteSet({"stale"}) /\ Cardinality({"stale"}) = 1 /\ "own" \notin {"stale"}
      BY FS_Singleton
    <3>2. /\ IsFiniteSet({"stale"} \union {"own"})
          /\ Cardinality({"stale"} \union {"own"}) = Cardinality({"stale"}) + 1
      BY <3>1, FS_AddElement
    <3> QED
      BY <2>2, <3>1, <3>2
  <2> QED
    BY <2>1, <2>3, FS_Product
<1>6. IsFiniteSet(C \union T) /\ Cardinality(C \union T) <= Cardinality(C) + Cardinality(T)
  <2>1. IsFiniteSet(C \intersect T) /\ Cardinality(C \intersect T) \in Nat
    BY <1>4, FS_Subset, FS_CardinalityType
  <2>2. Cardinality(C) \in Nat /\ Cardinality(T) \in Nat
    BY <1>4, <1>5, FS_CardinalityType
  <2>3. IsFiniteSet(C \union T)
        /\ Cardinality(C \union T) = Cardinality(C) + Cardinality(T) - Cardinality(C \intersect T)
    BY <1>4, <1>5, FS_Union
  <2> HIDE DEF C, T
  <2> QED
    BY <2>1, <2>2, <2>3
<1>7. Cardinality(Tokens(t)') <= Cardinality(C \union T)
  BY <1>3, <1>6, FS_Subset
<1>8. IsFiniteSet(Tokens(t)')
  BY <1>3, <1>6, FS_Subset
<1>9. Cardinality(Tokens(t)') \in Nat /\ Cardinality(C \union T) \in Nat
      /\ Cardinality(Tasks) \in Nat
  BY <1>6, <1>8, FS_CardinalityType DEF FewClients
<1> HIDE DEF C, T
<1> QED
  BY <1>4, <1>5, <1>6, <1>7, <1>9, ConstantFacts

(* The search and the other clients, action by action.                       *)
LEMMA TokenStep ==
    ASSUME FewClients, Inv, TokenInv, [Next]_vars
    PROVE  TokenInv'
<1> DEFINE most == NConn + 2 * (Cardinality(Tasks) - 1)
<1>0. TypeOK /\ LockInv /\ ConnInv /\ OwnedOnce
  BY DEF Inv
<1>n. most \in Int
  BY ConstantFacts, FS_CardinalityType DEF FewClients
<1> SUFFICES ASSUME NEW s \in Tasks, pc'[s] = "search" PROVE Cardinality(Tokens(s)') <= most
  BY DEF TokenInv
<1>b. /\ pc[s] = "search" => Cardinality(Tokens(s)) <= most
      /\ IsFiniteSet(Tokens(s)) /\ Cardinality(Tokens(s)) \in Nat
  BY TokensFinite DEF TokenInv
<1> HIDE DEF most
(* Nothing is added; *)
<1>k. ASSUME pc[s] = "search", UNCHANGED <<start, sport>>,
             \A c \in Conns : state'[c] = "OPEN" => state[c] = "OPEN" /\ id'[c] = id[c],
             \A u \in Tasks : pc'[u] \in Early \union {"setId"} => pc'[u] = pc[u]
      PROVE  Cardinality(Tokens(s)') <= most
  <2>1. Passed(s)' = Passed(s)
    BY <1>k DEF Passed
  <2>2. Tokens(s)' \subseteq Tokens(s)
    BY <1>k, <2>1 DEF Tokens, Early
  <2>3. Cardinality(Tokens(s)') \in 0 .. Cardinality(Tokens(s))
    BY <2>2, TokensFinite
  <2> QED
    BY <1>b, <1>k, <1>n, <2>3
(* or one token takes the place of another. *)
<1>x. ASSUME pc[s] = "search", NEW a \in Tokens(s), NEW b,
             Tokens(s)' \subseteq (Tokens(s) \ {a}) \union {b}
      PROVE  Cardinality(Tokens(s)') <= most
  <2>1. Cardinality(Tokens(s)') \in 0 .. Cardinality(Tokens(s))
    BY <1>x, TokensFinite
  <2> QED
    BY <1>b, <1>x, <1>n, <2>1
<1>1. ASSUME NEW t \in Tasks, SportLock(t) PROVE Cardinality(Tokens(s)') <= most
  <2>1. s = t
    BY <1>0, <1>1, ConstantFacts DEF LockInv, SportLock, Goto, TypeOK
  <2> QED
    BY <1>0, <1>1, <2>1, TokensAtStart DEF most
<1>l. \A t \in Tasks : pc[t] = "search" => sport_lock = t
  BY <1>0 DEF LockInv
<1>2. ASSUME NEW t \in Tasks, Search(t) PROVE Cardinality(Tokens(s)') <= most
  <2> DEFINE port == NextPort(sport)
  <2>1. s = t /\ pc[t] = "search"
    BY <1>0, <1>2, <1>l DEF Search, Goto, TypeOK
  <2>2. port # start[s] /\ sport + 1 # start[s]
    BY <1>0, <2>1, NotRound
  <2>3. /\ sport' = port /\ UNCHANGED <<start, pc, state, id>> /\ Taken(port)
    BY <1>0, <1>2, <2>1, <2>2 DEF Search, Goto, TypeOK, connVars
  <2>4. PICK c \in Conns : state[c] = "OPEN" /\ id[c].port = port
    BY <2>3 DEF Taken, TakenAmong
  <2>5. /\ sport \in Ports /\ start[s] \in Ports /\ Ports = MinPort .. MaxPort
        /\ MinPort \in Nat /\ MaxPort \in Nat /\ MinPort <= MaxPort
        /\ port = IF sport = MaxPort THEN MinPort ELSE sport + 1
    BY <1>0, ConstantFacts DEF TypeOK, Ports, NextPort
  <2>6. Passed(s)' = Passed(s) \union {port} /\ port \notin Passed(s)
    <3> HIDE DEF port
    <3>1. port \in Ports
      BY <2>5
    <3>2. ASSUME NEW p \in Ports PROVE p \in Passed(s)' <=> p \in Passed(s) \/ p = port
      BY <2>2, <2>3, <2>5 DEF Passed
    <3>3. port \notin Passed(s)
      BY <2>2, <2>5 DEF Passed
    <3> QED
      BY <3>1, <3>2, <3>3 DEF Passed
  <2> HIDE DEF port
  <2>7. <<"conn", c>> \in Tokens(s)
    BY <2>4, <2>6, TokenFacts
  <2>8. Tokens(s)' \subseteq (Tokens(s) \ {<<"conn", c>>}) \union {<<"port", port>>}
    BY <2>3, <2>4, <2>6 DEF Tokens
  <2> QED
    BY <1>x, <2>1, <2>7, <2>8
<1>3. ASSUME NEW t \in Tasks, AllocateOpen(t) PROVE Cardinality(Tokens(s)') <= most
  <2>1. /\ pc[t] = "open" /\ pc' = [pc EXCEPT ![t] = "setId"]
        /\ state' = [state EXCEPT ![conn[t]] = "OPEN"] /\ UNCHANGED <<start, sport, id>>
    BY <1>3 DEF AllocateOpen, Goto, locals, portVars
  <2>2. \A c \in Conns : c # conn[t] => state'[c] = state[c]
    BY <1>0, <2>1 DEF TypeOK
  <2>3. pc[s] = "search" /\ pc'[t] = "setId" /\ \A u \in Tasks \ {t} : pc'[u] = pc[u]
    BY <1>0, <2>1 DEF TypeOK
  <2>4. <<"stale", t>> \in Tokens(s)
    BY <2>1, TokenFacts DEF Early
  <2>5. Passed(s)' = Passed(s)
    BY <2>1 DEF Passed
  <2>6. Tokens(s)' \subseteq (Tokens(s) \ {<<"stale", t>>}) \union {<<"conn", conn[t]>>}
    BY <2>1, <2>2, <2>3, <2>5 DEF Tokens, Early
  <2> QED
    BY <1>x, <2>3, <2>4, <2>6
<1>4. ASSUME NEW t \in Tasks, NewId(t) PROVE Cardinality(Tokens(s)') <= most
  <2>1. /\ pc[t] = "setId" /\ pc' = [pc EXCEPT ![t] = "flush"]
        /\ id' = [id EXCEPT ![conn[t]] = req[t]] /\ UNCHANGED <<start, sport, state>>
    BY <1>4 DEF NewId, Goto, locals, portVars
  <2>2. \A c \in Conns : c # conn[t] => id'[c] = id[c]
    BY <1>0, <2>1 DEF TypeOK
  <2>3. pc[s] = "search" /\ pc'[t] = "flush" /\ \A u \in Tasks \ {t} : pc'[u] = pc[u]
    BY <1>0, <2>1 DEF TypeOK
  <2>4. <<"own", t>> \in Tokens(s)
    BY <2>1, TokenFacts
  <2>5. Passed(s)' = Passed(s)
    BY <2>1 DEF Passed
  <2>6. Tokens(s)' \subseteq (Tokens(s) \ {<<"own", t>>}) \union {<<"conn", conn[t]>>}
    BY <2>1, <2>2, <2>3, <2>5 DEF Tokens, Early
  <2> QED
    BY <1>x, <2>3, <2>4, <2>6
<1>5. ASSUME NEW t \in Tasks,
             Chosen(t) \/ AllocateNone(t) \/ AllocateTimeout(t) \/ CloseTimeout(t)
      PROVE  Cardinality(Tokens(s)') <= most
  <2>1. /\ UNCHANGED <<sport, state, id>>
        /\ \A u \in Tasks \ {t} : pc'[u] = pc[u] /\ start'[u] = start[u]
        /\ pc[t] # "search" /\ (pc'[t] = "idle" \/ (pc[t] = "chosen" /\ pc'[t] = "connLock"))
    <3>1. /\ UNCHANGED <<sport, state, id>> /\ pc[t] \in {"chosen", "connLock", "close"}
          /\ \/ Returned(t)
             \/ /\ pc[t] = "chosen" /\ pc' = [pc EXCEPT ![t] = "connLock"]
                /\ start' = [start EXCEPT ![t] = MinPort]
      BY <1>5
         DEF Chosen, AllocateNone, AllocateTimeout, CloseTimeout, Goto, portVars, connVars
    <3>2. CASE Returned(t)
      <4>1. /\ pc' = [pc EXCEPT ![t] = "idle"]
            /\ start' = [start EXCEPT ![t] = MinPort]
        BY <3>2 DEF Returned, Goto
      <4>2. pc'[t] = "idle" /\ \A u \in Tasks \ {t} : pc'[u] = pc[u] /\ start'[u] = start[u]
        BY <1>0, <4>1 DEF TypeOK
      <4> QED
        BY <3>1, <4>2
    <3> QED
      BY <1>0, <3>1, <3>2 DEF TypeOK
  <2>2. s # t /\ pc[s] = "search"
    BY <2>1
  <2>3. Passed(s)' = Passed(s)
    BY <2>1, <2>2 DEF Passed
  <2>4. Tokens(s)' \subseteq Tokens(s)
    BY <2>1, <2>3 DEF Tokens, Early
  <2>5. Cardinality(Tokens(s)') \in 0 .. Cardinality(Tokens(s))
    BY <2>4, TokensFinite
  <2> QED
    BY <1>b, <1>n, <2>2, <2>5
<1>6. ASSUME NEW t \in Tasks, AllocateFind(t) PROVE Cardinality(Tokens(s)') <= most
  <2>1. /\ UNCHANGED <<sport, start, state, id>>
        /\ \A u \in Tasks \ {t} : pc'[u] = pc[u]
        /\ pc[t] = "connLock" /\ pc'[t] = "open"
    BY <1>0, <1>6 DEF AllocateFind, Goto, TypeOK, portVars, connVars
  <2>3. Passed(s)' = Passed(s)
    BY <2>1 DEF Passed
  <2>4. Tokens(s)' \subseteq Tokens(s)
    BY <2>1, <2>3 DEF Tokens, Early
  <2>5. Cardinality(Tokens(s)') \in 0 .. Cardinality(Tokens(s))
    BY <2>4, TokensFinite
  <2> QED
    BY <1>b, <1>n, <2>1, <2>5
<1>7. ASSUME NEW t \in Tasks, NEW yes \in BOOLEAN,
             \/ NewFlush(t) \/ GetBuffer(t) \/ GetNone(t) \/ SendFailed(t) \/ ReadTimeout(t)
             \/ Send(t, yes) \/ Read(t, yes) \/ CloseLock(t)
      PROVE  Cardinality(Tokens(s)') <= most
  <2>1. /\ UNCHANGED <<sport, start, state, id>>
        /\ \A u \in Tasks \ {t} : pc'[u] = pc[u]
        /\ pc'[t] \in {"get", "send", "close", "read", "closing"}
    BY <1>0, <1>7
       DEF NewFlush, Flush, GetBuffer, GetNone, SendFailed, ReadTimeout, Send, SendTo, Read,
           CloseLock, Goto, TypeOK, locals, portVars, connVars
  <2> QED
    BY <1>k, <2>1 DEF Early
<1>8. ASSUME NEW t \in Tasks, Close(t) PROVE Cardinality(Tokens(s)') <= most
  <2>1. /\ state' = [state EXCEPT ![conn[t]] = "CLOSED"] /\ sport' = sport
        /\ id' = [id EXCEPT ![conn[t]].no = 0] /\ pc[t] = "closing" /\ Returned(t)
    BY <1>8 DEF Close, Closed, portVars
  <2>2. \A c \in Conns : state'[c] = "OPEN" => state[c] = "OPEN" /\ id'[c] = id[c]
    BY <1>0, <2>1 DEF TypeOK
  <2>3. pc'[t] = "idle" /\ \A u \in Tasks \ {t} : pc'[u] = pc[u] /\ start'[u] = start[u]
    BY <1>0, <2>1 DEF Returned, Goto, TypeOK
  <2>4. pc[s] = "search" /\ start'[s] = start[s]
    BY <2>3
  <2>5. Passed(s)' = Passed(s)
    BY <2>1, <2>4 DEF Passed
  <2>6. Tokens(s)' \subseteq Tokens(s)
    BY <2>2, <2>3, <2>5 DEF Tokens, Early
  <2>7. Cardinality(Tokens(s)') \in 0 .. Cardinality(Tokens(s))
    BY <2>6, TokensFinite
  <2> QED
    BY <1>b, <1>n, <2>4, <2>7
<1>9. ASSUME UNCHANGED <<pc, start, sport, state, id>> PROVE Cardinality(Tokens(s)') <= most
  BY <1>9, <1>k
<1>10. ASSUME NEW b \in wire, Transmitted(b) PROVE Cardinality(Tokens(s)') <= most
  BY <1>9, <1>10 DEF Transmitted, locals, portVars, connVars
<1>11. ASSUME NEW r \in sent, Arrive(r) PROVE Cardinality(Tokens(s)') <= most
  BY <1>9, <1>11 DEF Arrive, locals, portVars
<1>12. CASE UNCHANGED vars
  BY <1>9, <1>12 DEF vars
<1> QED
  BY <1>1, <1>2, <1>3, <1>4, <1>5, <1>6, <1>7, <1>8, <1>10, <1>11, <1>12 DEF Next, Step, Idle

-----------------------------------------------------------------------------
(* Which ports are borne, action by action.                                  *)
LEMMA BearerFacts ==
    \A c, u :
        /\ <<"conn", c>> \in Bearers <=> c \in Conns /\ Shown(c)
        /\ <<"task", u>> \in Bearers <=> u \in Tasks /\ pc[u] \in Early \union {"setId"}
        /\ Borne(<<"conn", c>>) = id[c] /\ Borne(<<"task", u>>) = req[u]
BY DEF Bearers, Borne

(* Nobody bears a port who did not, and nobody bears another one. *)
LEMMA BearersKept ==
    ASSUME BearerInv, blind' = blind,
           \A c \in Conns : Shown(c)' => Shown(c) /\ id'[c] = id[c],
           \A u \in Tasks : pc'[u] \in Early \union {"setId"} =>
                pc[u] \in Early \union {"setId"} /\ req'[u] = req[u]
    PROVE  BearerInv'
<1>1. ASSUME NEW x \in Bearers' PROVE x \in Bearers /\ Borne(x)' = Borne(x)
  BY DEF Bearers, Borne
<1> QED
  BY <1>1 DEF BearerInv

(* Every port borne was taken before now. *)
LEMMA BearersAreLive ==
    ASSUME TypeOK, BearerInv
    PROVE  \A x \in Bearers : Borne(x) \in Live
<1> SUFFICES ASSUME NEW x \in Bearers PROVE Borne(x) \in Known
  BY DEF BearerInv, Live
<1>1. CASE x[1] = "conn"
  BY <1>1 DEF Bearers, Borne, Known
<1>2. CASE x[1] # "conn"
  BY <1>2 DEF Bearers, Borne, Known
<1> QED
  BY <1>1, <1>2

LEMMA BearerStep ==
    ASSUME FewClients, Inv, TokenInv, AgeInv, BearerInv, [Next]_vars
    PROVE  BearerInv'
<1> USE DEF Owning
<1>0. TypeOK /\ LockInv /\ ConnInv /\ OwnedOnce /\ None \notin Conns
  BY ConstantFacts DEF Inv
<1>c. \A t \in Tasks : pc[t] \in Owning => conn[t] \in Conns
  BY <1>0 DEF TypeOK, ConnInv
<1>1. ASSUME NEW t \in Tasks, SportLock(t) PROVE BearerInv'
  <2>1. /\ UNCHANGED <<blind, state, id, conn, req>> /\ pc[t] = "idle" /\ pc'[t] = "search"
        /\ \A u \in Tasks \ {t} : pc'[u] = pc[u]
    BY <1>0, <1>1 DEF SportLock, Goto, TypeOK, portVars, connVars
  <2> QED
    BY <2>1, BearersKept DEF Shown, Early
<1>2. ASSUME NEW t \in Tasks, Search(t) PROVE BearerInv'
  <2> DEFINE port == NextPort(sport)
             new == [no |-> walked + 1, port |-> port]
             hidden == {req[u].no : u \in {v \in Tasks \ {t} :
                           pc[v] \in {"chosen", "connLock", "open", "setId"}}}
             alive == {id[c].no : c \in Conns} \union hidden
  <2>1. /\ UNCHANGED <<state, id, conn>> /\ pc[t] = "search" /\ sport + 1 # start[t]
        /\ \/ UNCHANGED <<pc, req, blind>>
           \/ /\ ~Taken(port) /\ pc' = [pc EXCEPT ![t] = "chosen"]
              /\ req' = [req EXCEPT ![t] = new]
              /\ blind' = {pair \in blind : pair \subseteq alive}
                           \union {{walked + 1, no} : no \in hidden}
    BY <1>0, <1>2, NotRound DEF Search, Goto, connVars
  <2>2. CASE UNCHANGED <<pc, req, blind>>
    BY <2>1, <2>2, BearersKept DEF Shown
  <2>3. CASE /\ ~Taken(port) /\ pc' = [pc EXCEPT ![t] = "chosen"]
             /\ req' = [req EXCEPT ![t] = new]
             /\ blind' = {pair \in blind : pair \subseteq alive}
                          \union {{walked + 1, no} : no \in hidden}
    <3> DEFINE me == <<"task", t>>
    <3>1. pc'[t] = "chosen" /\ req'[t] = new /\ \A u \in Tasks \ {t} : pc'[u] = pc[u]
                                                                    /\ req'[u] = req[u]
      BY <1>0, <2>3 DEF TypeOK
    <3>2. me \notin Bearers /\ Borne(me)' = new
      BY <2>1, <3>1 DEF Bearers, Borne, Early
    <3>3. \A c \in Conns : Shown(c)' <=> Shown(c)
      BY <2>1, <3>1 DEF Shown
    <3>4. ASSUME NEW x \in Bearers', x # me PROVE x \in Bearers /\ Borne(x)' = Borne(x)
      <4>1. CASE x[1] = "conn"
        BY <2>1, <3>3, <4>1 DEF Bearers, Borne
      <4>2. CASE x[1] = "task"
        BY <3>1, <3>4, <4>2 DEF Bearers, Borne
      <4> QED
        BY <4>1, <4>2 DEF Bearers
    <3>5. ASSUME NEW x \in Bearers
          PROVE  /\ Borne(x).no \in alive /\ Borne(x).no < walked + 1
                 /\ Borne(x).port = port =>
                      {walked + 1, Borne(x).no} \in {{walked + 1, no} : no \in hidden}
      <4>1. Borne(x).no \in Nat /\ Borne(x).no <= walked /\ walked \in Nat
        BY <1>0, LiveTypes, BearersAreLive DEF AgeInv, TypeOK
      <4>2. CASE x[1] = "conn"
        <5>1. x[2] \in Conns /\ Borne(x) = id[x[2]] /\ state[x[2]] = "OPEN"
          BY <4>2 DEF Bearers, Borne, Shown
        <5>2. Borne(x).port # port
          BY <2>3, <5>1 DEF Taken, TakenAmong
        <5> QED
          BY <4>1, <5>1, <5>2
      <4>3. CASE x[1] = "task"
        <5>1. /\ x[2] \in Tasks \ {t} /\ Borne(x) = req[x[2]]
              /\ pc[x[2]] \in {"chosen", "connLock", "open", "setId"}
          BY <2>1, <4>3 DEF Bearers, Borne, Early
        <5>2. Borne(x).no \in hidden
          BY <5>1
        <5>3. Borne(x).no \in alive
          BY <5>2
        <5>4. {walked + 1, Borne(x).no} \in {{walked + 1, no} : no \in hidden}
          BY <5>2
        <5> HIDE DEF hidden, alive
        <5> QED
          BY <4>1, <5>3, <5>4
      <4> QED
        BY <4>2, <4>3 DEF Bearers
    <3>6. \A x \in Bearers' : Borne(x)'.no >= 1
      <4>1. new.no = walked + 1 /\ walked \in Nat
        BY <1>0 DEF TypeOK
      <4> HIDE DEF new, me
      <4> QED
        BY <3>2, <3>4, <4>1 DEF BearerInv
    <3>7. ASSUME NEW x \in Bearers', NEW y \in Bearers', x # y
          PROVE  /\ Borne(x)'.no # Borne(y)'.no
                 /\ Borne(x)'.port = Borne(y)'.port => {Borne(x)'.no, Borne(y)'.no} \in blind'
      <4>0. new.no = walked + 1 /\ new.port = port
        OBVIOUS
      <4>1. CASE x # me /\ y # me
        <5>1. x \in Bearers /\ y \in Bearers /\ Borne(x)' = Borne(x) /\ Borne(y)' = Borne(y)
          BY <3>4, <4>1
        <5>2. /\ Borne(x).no # Borne(y).no
              /\ Borne(x).port = Borne(y).port => {Borne(x).no, Borne(y).no} \in blind
          BY <3>7, <5>1 DEF BearerInv
        <5>3. {Borne(x).no, Borne(y).no} \subseteq alive
          BY <3>5, <5>1
        <5> HIDE DEF new, me, alive, hidden, port
        <5> QED
          BY <2>3, <5>1, <5>2, <5>3
      <4>2. CASE x = me
        <5>1. y \in Bearers /\ Borne(y)' = Borne(y) /\ Borne(x)' = new
          BY <3>2, <3>4, <3>7, <4>2
        <5>2. Borne(y).no < walked + 1 /\ Borne(y).no \in Nat
          BY <1>0, <3>5, <5>1, LiveTypes, BearersAreLive
        <5>3. Borne(y).port = port => {walked + 1, Borne(y).no} \in blind'
          BY <2>3, <3>5, <5>1
        <5>4. walked + 1 # Borne(y).no
          BY <1>0, <5>2 DEF TypeOK
        <5> HIDE DEF new, me, alive, hidden, port
        <5> QED
          BY <4>0, <5>1, <5>3, <5>4
      <4>3. CASE y = me
        <5>1. x \in Bearers /\ Borne(x)' = Borne(x) /\ Borne(y)' = new
          BY <3>2, <3>4, <3>7, <4>3
        <5>2. Borne(x).no < walked + 1 /\ Borne(x).no \in Nat
          BY <1>0, <3>5, <5>1, LiveTypes, BearersAreLive
        <5>3. Borne(x).port = port => {walked + 1, Borne(x).no} \in blind'
          BY <2>3, <3>5, <5>1
        <5>4. walked + 1 # Borne(x).no
          BY <1>0, <5>2 DEF TypeOK
        <5>5. {walked + 1, Borne(x).no} = {Borne(x).no, walked + 1}
          OBVIOUS
        <5> HIDE DEF new, me, alive, hidden, port
        <5> QED
          BY <4>0, <5>1, <5>3, <5>4, <5>5
      <4> QED
        BY <4>1, <4>2, <4>3
    <3> QED
      BY <3>6, <3>7 DEF BearerInv
  <2> QED
    BY <2>1, <2>2, <2>3
<1>3. ASSUME NEW t \in Tasks, Returned(t), UNCHANGED <<blind, state, id>>, pc[t] # "setId"
      PROVE  BearerInv'
  <2>1. /\ pc'[t] = "idle" /\ conn'[t] = None
        /\ \A u \in Tasks \ {t} : pc'[u] = pc[u] /\ req'[u] = req[u] /\ conn'[u] = conn[u]
    BY <1>0, <1>3 DEF Returned, Goto, TypeOK
  <2>2. \A c \in Conns : Shown(c)' => Shown(c)
    BY <1>0, <1>3, <2>1 DEF Shown
  <2> QED
    BY <1>3, <2>1, <2>2, BearersKept DEF Early
<1>4. ASSUME NEW t \in Tasks, Chosen(t) PROVE BearerInv'
  <2>1. CASE Returned(t)
    BY <1>3, <1>4, <2>1 DEF Chosen, portVars, connVars
  <2>2. CASE ~Returned(t)
    <3>1. /\ UNCHANGED <<blind, state, id, conn, req>> /\ pc[t] = "chosen" /\ pc'[t] = "connLock"
          /\ \A u \in Tasks \ {t} : pc'[u] = pc[u]
      BY <1>0, <1>4, <2>2 DEF Chosen, Goto, TypeOK, portVars, connVars
    <3> QED
      BY <3>1, BearersKept DEF Shown, Early
  <2> QED
    BY <2>1, <2>2
<1>5. ASSUME NEW t \in Tasks, AllocateNone(t) \/ AllocateTimeout(t) \/ CloseTimeout(t)
      PROVE  BearerInv'
  BY <1>3, <1>5 DEF AllocateNone, AllocateTimeout, CloseTimeout, portVars, connVars
<1>6. ASSUME NEW t \in Tasks, AllocateFind(t) PROVE BearerInv'
  <2>1. PICK d \in Conns : state[d] = "CLOSED" /\ conn' = [conn EXCEPT ![t] = d]
    BY <1>6 DEF AllocateFind, NextClosed
  <2>2. /\ UNCHANGED <<blind, state, id, req>> /\ pc[t] = "connLock" /\ pc'[t] = "open"
        /\ conn'[t] = d
        /\ \A u \in Tasks \ {t} : pc'[u] = pc[u] /\ conn'[u] = conn[u]
    BY <1>0, <1>6, <2>1 DEF AllocateFind, Goto, TypeOK, portVars, connVars
  <2>3. \A c \in Conns : Shown(c)' => Shown(c)
    BY <2>1, <2>2 DEF Shown
  <2> QED
    BY <2>2, <2>3, BearersKept DEF Early
<1>7. ASSUME NEW t \in Tasks, AllocateOpen(t) PROVE BearerInv'
  <2>1. /\ UNCHANGED <<blind, id, conn, req>> /\ pc[t] = "open" /\ pc'[t] = "setId"
        /\ \A u \in Tasks \ {t} : pc'[u] = pc[u]
        /\ \A c \in Conns \ {conn[t]} : state'[c] = state[c]
    BY <1>0, <1>7 DEF AllocateOpen, Goto, TypeOK, locals, portVars
  <2>2. \A c \in Conns : Shown(c)' => Shown(c)
    BY <2>1 DEF Shown
  <2> QED
    BY <2>1, <2>2, BearersKept DEF Early
<1>8. ASSUME NEW t \in Tasks, NewId(t) PROVE BearerInv'
  <2>1. /\ UNCHANGED <<blind, state, conn, req>> /\ pc[t] = "setId" /\ pc'[t] = "flush"
        /\ \A u \in Tasks \ {t} : pc'[u] = pc[u]
        /\ id' = [id EXCEPT ![conn[t]] = req[t]] /\ conn[t] \in Conns
    BY <1>0, <1>c, <1>8 DEF NewId, Goto, TypeOK, locals, portVars
  <2>0. PICK mine : mine = <<"conn", conn[t]>>
    OBVIOUS
  <2>9. PICK was : was = <<"task", t>>
    OBVIOUS
  <2>2. id'[conn[t]] = req[t] /\ \A c \in Conns \ {conn[t]} : id'[c] = id[c]
    BY <1>0, <2>1 DEF TypeOK
  <2>3. was \in Bearers /\ Borne(was) = req[t] /\ Borne(mine)' = req[t]
    BY <2>0, <2>1, <2>2, <2>9 DEF Bearers, Borne
  <2>4. ASSUME NEW x \in Bearers', x # mine
        PROVE  x \in Bearers /\ x # was /\ Borne(x)' = Borne(x)
    <3>1. CASE x[1] = "conn"
      <4>1. x[2] \in Conns \ {conn[t]} /\ Shown(x[2])' /\ x = <<"conn", x[2]>>
        BY <2>0, <2>4, <3>1 DEF Bearers
      <4>2. Shown(x[2])
        BY <2>1, <4>1 DEF Shown
      <4> QED
        BY <2>2, <2>9, <3>1, <4>1, <4>2 DEF Bearers, Borne
    <3>2. CASE x[1] = "task"
      <4>1. x[2] \in Tasks /\ pc'[x[2]] \in Early \union {"setId"} /\ x = <<"task", x[2]>>
        BY <3>2 DEF Bearers
      <4>2. x[2] # t
        BY <2>1, <4>1 DEF Early
      <4> QED
        BY <2>1, <2>9, <3>2, <4>1, <4>2 DEF Bearers, Borne
    <3> QED
      BY <3>1, <3>2 DEF Bearers
  <2>5. \A x \in Bearers' : Borne(x)'.no >= 1
    BY <2>3, <2>4 DEF BearerInv
  <2>6. ASSUME NEW x \in Bearers', NEW y \in Bearers', x # y
        PROVE  /\ Borne(x)'.no # Borne(y)'.no
               /\ Borne(x)'.port = Borne(y)'.port => {Borne(x)'.no, Borne(y)'.no} \in blind'
    <3>0. PICK xx, yy : xx = (IF x = mine THEN was ELSE x) /\ yy = (IF y = mine THEN was ELSE y)
      OBVIOUS
    <3>1. xx \in Bearers /\ yy \in Bearers /\ xx # yy /\ Borne(x)' = Borne(xx) /\ Borne(y)' = Borne(yy)
      BY <2>3, <2>4, <2>6, <3>0
    <3>2. blind' = blind
      BY <2>1
    <3> QED
      BY <1>0, <3>1, <3>2 DEF BearerInv
  <2> QED
    BY <2>5, <2>6 DEF BearerInv
<1>9. ASSUME NEW t \in Tasks, NEW yes \in BOOLEAN,
             \/ NewFlush(t) \/ GetBuffer(t) \/ GetNone(t) \/ SendFailed(t) \/ ReadTimeout(t)
             \/ Send(t, yes) \/ Read(t, yes) \/ CloseLock(t)
      PROVE  BearerInv'
  <2>1. /\ UNCHANGED <<blind, state, id, conn, req>> /\ pc[t] \notin Early \union {"setId"}
        /\ \A u \in Tasks \ {t} : pc'[u] = pc[u]
        /\ pc'[t] \in {"get", "send", "close", "read", "closing"}
    BY <1>0, <1>9
       DEF NewFlush, Flush, GetBuffer, GetNone, SendFailed, ReadTimeout, Send, SendTo, Read,
           CloseLock, Goto, TypeOK, locals, portVars, connVars, Early
  <2> QED
    BY <2>1, BearersKept DEF Early, Shown
<1>10. ASSUME NEW t \in Tasks, Close(t) PROVE BearerInv'
  <2>1. /\ state' = [state EXCEPT ![conn[t]] = "CLOSED"] /\ blind' = blind /\ Returned(t)
        /\ id' = [id EXCEPT ![conn[t]].no = 0] /\ pc[t] = "closing"
    BY <1>10 DEF Close, Closed, portVars
  <2>2. /\ pc'[t] = "idle" /\ conn'[t] = None
        /\ \A u \in Tasks \ {t} : pc'[u] = pc[u] /\ req'[u] = req[u] /\ conn'[u] = conn[u]
    BY <1>0, <2>1 DEF Returned, Goto, TypeOK
  <2>3. \A c \in Conns : Shown(c)' => Shown(c) /\ id'[c] = id[c]
    BY <1>0, <2>1, <2>2 DEF Shown, TypeOK
  <2> QED
    BY <2>1, <2>2, <2>3, BearersKept DEF Early
<1>11. ASSUME UNCHANGED <<pc, req, conn, blind, state, id>> PROVE BearerInv'
  BY <1>11, BearersKept DEF Shown
<1>12. ASSUME NEW b \in wire, Transmitted(b) PROVE BearerInv'
  BY <1>11, <1>12 DEF Transmitted, locals, portVars, connVars
<1>13. ASSUME NEW r \in sent, Arrive(r) PROVE BearerInv'
  BY <1>11, <1>13 DEF Arrive, locals, portVars
<1>14. CASE UNCHANGED vars
  BY <1>11, <1>14 DEF vars
<1> QED
  BY <1>1, <1>2, <1>4, <1>5, <1>6, <1>7, <1>8, <1>9, <1>10, <1>12, <1>13, <1>14
     DEF Next, Step, Idle

(* Two open connections have the same port only if the counter has come round  *)
(* while the one client was on its way to csp_conn_new unseen by the other:   *)
(* as long as the clients are few, for which see FewClients.                  *)
THEOREM PortsAreDistinct == ASSUME FewClients PROVE Spec => []PortsDistinct
<1> DEFINE All == Inv /\ AgeInv /\ ApartAll /\ TriedInv /\ TokenInv /\ BearerInv
<1>1. Init => All
  <2> SUFFICES ASSUME Init PROVE TokenInv /\ BearerInv
    BY InvInit, RequestInit
  <2>1. TokenInv
    BY DEF Init, TokenInv
  <2>2. Bearers = {}
    BY DEF Init, Bearers, Shown, Early
  <2> QED
    BY <2>1, <2>2 DEF BearerInv
<1>2. All /\ [Next]_vars => All'
  BY TypeStep, OwnStep, RequestStep, TriedStep, TokenStep, BearerStep DEF Inv
<1>3. All => PortsDistinct
  <2> SUFFICES ASSUME All, NEW c \in Conns, NEW d \in Conns, Shown(c), Shown(d), c # d,
                      id[c].port = id[d].port
               PROVE  Apart(id[c], id[d]) /\ {id[c].no, id[d].no} \in blind
    BY DEF PortsDistinct
  <2> DEFINE x == <<"conn", c>>
             y == <<"conn", d>>
  <2>1. x \in Bearers /\ y \in Bearers /\ x # y /\ Borne(x) = id[c] /\ Borne(y) = id[d]
    BY BearerFacts
  <2> HIDE DEF x, y
  <2>2. id[c].no # id[d].no /\ {id[c].no, id[d].no} \in blind
    BY <2>1 DEF BearerInv
  <2>3. id[c] \in Live /\ id[d] \in Live
    BY <2>1, BearersAreLive DEF Inv
  <2> QED
    BY <2>2, <2>3 DEF ApartAll
<1> QED
  BY <1>1, <1>2, <1>3, PTL DEF Spec

(* The search of csp_connect always finds a port that is free: it never comes  *)
(* round, though the comparison that should end it misses MinPort.            *)
THEOREM SearchFinds ==
    ASSUME FewClients
    PROVE  Spec => [][\A t \in Tasks : Search(t) => NextPort(sport) # start[t]
                                                   /\ sport + 1 # start[t]]_vars
<1>1. Init => Inv /\ TokenInv
  BY InvInit DEF Init, TokenInv
<1>2. Inv /\ TokenInv /\ [Next]_vars => (Inv /\ TokenInv)'
  BY TypeStep, OwnStep, TokenStep DEF Inv
<1>3. Inv /\ TokenInv /\ [Next]_vars =>
          [\A t \in Tasks : Search(t) => NextPort(sport) # start[t]
                                       /\ sport + 1 # start[t]]_vars
  BY NotRound DEF Inv, Search
<1> QED
  BY <1>1, <1>2, <1>3, PTL DEF Spec
=============================================================================
