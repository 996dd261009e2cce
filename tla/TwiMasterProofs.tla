---------------------------- MODULE TwiMasterProofs ----------------------------
(***************************************************************************)
(* Theorems about TwiMaster, for any number of callers, any lengths of their  *)
(* messages and any behaviour of the bus: the driver is well typed however    *)
(* its callers preempt each other; and if none is preempted inside the        *)
(* driver, it sends whole messages, accounts for every one it accepts,        *)
(* reads nothing stale, and implements OneShotLink.                          *)
(***************************************************************************)
EXTENDS TwiMaster, SequenceTheorems, TLAPS

(* A function on 1 .. n is a sequence. *)
LEMMA FunctionIsSequence ==
    ASSUME NEW S, NEW n \in Nat, NEW f \in [1 .. n -> S]
    PROVE  f \in Seq(S) /\ Len(f) = n /\ DOMAIN f = 1 .. n
<1>1. f \in Seq(S)
  BY SeqDef
<1> QED
  BY <1>1, LenProperties

(* A message's bytes up to one more.                                          *)
LEMMA PrefixPlusOne ==
    ASSUME NEW m, NEW n \in Nat
    PROVE  Append([i \in 1 .. n |-> <<m, i>>], <<m, n + 1>>) = [i \in 1 .. n + 1 |-> <<m, i>>]
<1> DEFINE S == {<<m, i>> : i \in 1 .. n + 1}
           f == [i \in 1 .. n |-> <<m, i>>]
           g == [i \in 1 .. n + 1 |-> <<m, i>>]
<1>1. f \in [1 .. n -> S] /\ g \in [1 .. n + 1 -> S] /\ n + 1 \in Nat /\ <<m, n + 1>> \in S
  OBVIOUS
<1>2. f \in Seq(S) /\ Len(f) = n /\ g \in Seq(S) /\ Len(g) = n + 1
  BY <1>1, FunctionIsSequence
<1>3. \A i \in 1 .. n + 1 : Append(f, <<m, n + 1>>)[i] = g[i]
  BY <1>1, <1>2, AppendProperties
<1>4. Append(f, <<m, n + 1>>) \in Seq(S) /\ Len(Append(f, <<m, n + 1>>)) = n + 1
  BY <1>1, <1>2, AppendProperties
<1> QED
  BY <1>2, <1>3, <1>4, SeqEqual

(* What a step of the copy loop, or of the read handler, makes of a buffer. *)
LEMMA StoreFacts ==
    ASSUME NEW S, NEW q \in Seq(S), NEW k \in Nat, k <= Len(q), NEW b \in S
    PROVE  /\ Store(q, k, b) \in Seq(S)
           /\ Len(Store(q, k, b)) = IF k < Len(q) THEN Len(q) ELSE k + 1
           /\ Store(q, k, b)[k + 1] = b
           /\ \A i \in 1 .. k : Store(q, k, b)[i] = q[i]
<1> DEFINE n == IF k < Len(q) THEN Len(q) ELSE k + 1
           r == [i \in 1 .. n |-> IF i = k + 1 THEN b ELSE q[i]]
<1>1. Len(q) \in Nat /\ \A i \in 1 .. Len(q) : q[i] \in S
  BY LenProperties, ElementOfSeq
<1>2. n \in Nat /\ k + 1 \in 1 .. n /\ \A i \in 1 .. k : i \in 1 .. n /\ i # k + 1
  BY <1>1
<1>3. \A i \in 1 .. n : i # k + 1 => i \in 1 .. Len(q)
  BY <1>1
<1>4. r \in [1 .. n -> S]
  BY <1>1, <1>3
<1>5. r \in Seq(S) /\ Len(r) = n
  BY <1>2, <1>4, FunctionIsSequence
<1>6. Store(q, k, b) = r
  BY DEF Store
<1> QED
  BY <1>2, <1>5, <1>6

LEMMA StoredBytes ==
    ASSUME NEW m \in Messages, NEW q \in Seq(Bytes), NEW k \in Nat, k <= Len(q),
           \A i \in 1 .. k : q[i] = <<m, i>>
    PROVE  \A i \in 1 .. k + 1 : Store(q, k, <<m, k + 1>>)[i] = <<m, i>>
<1> DEFINE b == <<m, k + 1>>
           r == Store(q, k, b)
<1>1. b \in Bytes
  BY DEF Bytes
<1> HIDE DEF b
<1>2. r[k + 1] = b /\ \A i \in 1 .. k : r[i] = q[i]
  BY <1>1, StoreFacts
<1> HIDE DEF r
<1>3. ASSUME NEW i \in 1 .. k + 1 PROVE r[i] = <<m, i>>
  <2>1. CASE i = k + 1
    BY <1>2, <2>1 DEF b
  <2>2. CASE i \in 1 .. k
    BY <1>2, <2>2
  <2> QED
    BY <2>1, <2>2
<1> QED
  BY <1>3 DEF b, r

-----------------------------------------------------------------------------
(* However the callers preempt each other: the buffer is as long as the call  *)
(* that set bytesToWrite has made it, and no index leaves it.                 *)
CallInv ==
    \A t \in Tasks :
        /\ pc[t] # "ready" => calls[t] \in 1 .. MaxCalls
        /\ pc[t] = "fill" => fill[t] <= Len(writeData) /\ fill[t] <= ToWrite[t]
        /\ pc[t] = "setup" => ToWrite[t] <= Len(writeData)

BufferInv ==
    /\ toWrite <= Len(writeData)
    /\ gotten <= Len(readData)
    /\ hw # "idle" => current \in Messages

RaceInv == TypeOK /\ CallInv /\ BufferInv

LEMMA RaceInit == Init => RaceInv
BY TwiMasterAssumption, EmptySeq
   DEF Init, RaceInv, TypeOK, CallInv, BufferInv, Results, Frames, NoFrame

LEMMA RaceStep == RaceInv /\ [Next]_vars => RaceInv'
<1> SUFFICES ASSUME RaceInv, [Next]_vars PROVE RaceInv'
  OBVIOUS
<1>0. TypeOK /\ CallInv /\ BufferInv /\ MaxCalls \in Nat /\ ReadBuffer \in Nat
      /\ \A t \in Tasks : ToWrite[t] \in Nat /\ ToRead[t] \in Nat
  BY TwiMasterAssumption DEF RaceInv
<1>m. \A t \in Tasks : pc[t] # "ready" => Message(t) \in Messages
  BY <1>0 DEF CallInv, Message, Messages
<1>1. ASSUME NEW t \in Tasks, Check(t) PROVE RaceInv'
  <2>1. TypeOK'
    BY <1>0, <1>1 DEF Check, Goto, TypeOK, driverVars, busVars
  <2>2. CallInv' /\ BufferInv'
    BY <1>0, <1>1 DEF Check, Goto, TypeOK, CallInv, BufferInv, driverVars, busVars
  <2> QED
    BY <2>1, <2>2 DEF RaceInv
<1>2. ASSUME NEW t \in Tasks, Claim(t) PROVE RaceInv'
  <2>0. Message(t) \in Messages
    BY <1>m, <1>2 DEF Claim
  <2>1. TypeOK'
    BY <1>0, <1>2, <2>0 DEF Claim, Goto, TypeOK, Results, busVars
  <2>3. Len(writeData) \in Nat
    BY <1>0, LenProperties DEF TypeOK
  <2>2. CallInv' /\ BufferInv'
    BY <1>0, <1>2, <2>3 DEF Claim, Goto, TypeOK, CallInv, BufferInv, busVars
  <2> QED
    BY <2>1, <2>2 DEF RaceInv
<1>3. ASSUME NEW t \in Tasks, Fill(t) PROVE RaceInv'
  <2>0. Message(t) \in Messages /\ Len(writeData) \in Nat /\ fill[t] \in Nat
        /\ fill[t] <= Len(writeData)
    BY <1>0, <1>m, <1>3, LenProperties DEF Fill, CallInv, TypeOK
  <2>1. CASE fill[t] < ToWrite[t]
    <3>1. writeData' = Store(writeData, fill[t], <<Message(t), fill[t] + 1>>)
          /\ fill' = [fill EXCEPT ![t] = @ + 1] /\ UNCHANGED pc
      BY <1>3, <2>1 DEF Fill
    <3>3. <<Message(t), fill[t] + 1>> \in Bytes
      BY <2>0 DEF Bytes
    <3>4. writeData \in Seq(Bytes)
      BY <1>0 DEF TypeOK
    <3>5. writeData' \in Seq(Bytes)
          /\ Len(writeData') = IF fill[t] < Len(writeData) THEN Len(writeData) ELSE fill[t] + 1
      BY <2>0, <3>1, <3>3, <3>4, StoreFacts
    <3>6. TypeOK'
      BY <1>0, <1>3, <3>1, <3>5 DEF Fill, TypeOK, busVars
    <3>7. Len(writeData') \in Nat /\ Len(writeData') >= Len(writeData)
          /\ Len(writeData') >= fill[t] + 1
      BY <2>0, <3>5
    <3>8. CallInv' /\ BufferInv'
      BY SMTT(30), <1>0, <1>3, <2>0, <2>1, <3>1, <3>7
         DEF Fill, TypeOK, CallInv, BufferInv, busVars
    <3> QED
      BY <3>6, <3>8 DEF RaceInv
  <2>2. CASE ~ fill[t] < ToWrite[t]
    <3>1. TypeOK'
      BY <1>0, <1>3, <2>2 DEF Fill, Goto, TypeOK, busVars
    <3>2. CallInv' /\ BufferInv'
      BY <1>0, <1>3, <2>0, <2>2 DEF Fill, Goto, TypeOK, CallInv, BufferInv, busVars
    <3> QED
      BY <3>1, <3>2 DEF RaceInv
  <2> QED
    BY <2>1, <2>2
<1>4. ASSUME NEW t \in Tasks, Setup(t) PROVE RaceInv'
  <2>1. TypeOK'
    BY <1>0, <1>4 DEF Setup, Goto, TypeOK, busVars
  <2>0. Len(readData) \in Nat
    BY <1>0, LenProperties DEF TypeOK
  <2>2. CallInv' /\ BufferInv'
    BY <1>0, <1>4, <2>0 DEF Setup, Goto, TypeOK, CallInv, BufferInv, busVars
  <2> QED
    BY <2>1, <2>2 DEF RaceInv
<1>5. ASSUME NEW t \in Tasks, Start(t) PROVE RaceInv'
  <2>0. Message(t) \in Messages
    BY <1>m, <1>5 DEF Start
  <2>3. wire' \in Frames
    BY <1>0, <1>5, EmptySeq DEF Start, TypeOK, Frames
  <2>1. TypeOK'
    BY <1>0, <1>5, <2>0, <2>3 DEF Start, Goto, TypeOK, driverVars
  <2>2. CallInv' /\ BufferInv'
    BY <1>0, <1>5, <2>0 DEF Start, Goto, TypeOK, CallInv, BufferInv, driverVars
  <2> QED
    BY <2>1, <2>2 DEF RaceInv
<1>f. out \in Seq(Frames) /\ wire \in Frames => Append(out, wire) \in Seq(Frames)
  BY AppendProperties
<1>6. ASSUME NEW r \in {"ARBITRATION_LOST", "BUS_ERROR"}, ArbitrationLostBusError(r)
      PROVE  RaceInv'
  BY <1>0, <1>6
     DEF ArbitrationLostBusError, Finish, RaceInv, TypeOK, CallInv, BufferInv, Results, callVars
<1>7. CASE WriteNack
  BY <1>0, <1>7
     DEF WriteNack, Finish, RaceInv, TypeOK, CallInv, BufferInv, Results, callVars
<1>8. CASE WriteByte
  <2>1. writeData[written + 1] \in Bytes
    <3>1. written + 1 \in 1 .. Len(writeData) /\ writeData \in Seq(Bytes)
      BY <1>0, <1>8, LenProperties DEF WriteByte, TypeOK, BufferInv
    <3> QED
      BY <3>1, ElementOfSeq
  <2>2. wire' \in Frames
    BY <1>0, <1>8, <2>1, AppendProperties DEF WriteByte, TypeOK, Frames
  <2>3. TypeOK'
    BY <1>0, <1>8, <2>2 DEF WriteByte, TypeOK, callVars
  <2>4. CallInv' /\ BufferInv'
    BY <1>0, <1>8 DEF WriteByte, CallInv, BufferInv, callVars
  <2> QED
    BY <2>3, <2>4 DEF RaceInv
<1>9. CASE WriteToRead
  BY <1>0, <1>9 DEF WriteToRead, RaceInv, TypeOK, CallInv, BufferInv, driverVars, callVars
<1>10. CASE WriteDone
  BY <1>0, <1>f, <1>10
     DEF WriteDone, Finish, RaceInv, TypeOK, CallInv, BufferInv, Results, callVars
<1>11. CASE Read
  <2>0. gotten \in Nat /\ gotten <= Len(readData) /\ Len(readData) \in Nat
        /\ readData \in Seq(Bytes) /\ current \in Messages
    BY <1>0, <1>11, LenProperties DEF Read, TypeOK, BufferInv
  <2>1. /\ readData' \in Seq(Bytes) /\ Len(readData') <= ReadBuffer
        /\ gotten' \in 0 .. ReadBuffer /\ gotten' <= Len(readData')
    <3>1. CASE gotten < ReadBuffer
      <4>1. readData' = Store(readData, gotten, <<current, gotten + 1>>)
            /\ gotten' = gotten + 1
        BY <1>11, <2>0, <3>1 DEF Read
      <4>2. <<current, gotten + 1>> \in Bytes
        BY <2>0 DEF Bytes
      <4>3. readData' \in Seq(Bytes)
            /\ Len(readData') = IF gotten < Len(readData) THEN Len(readData) ELSE gotten + 1
        BY <2>0, <4>1, <4>2, StoreFacts
      <4>4. Len(readData) <= ReadBuffer /\ gotten + 1 <= ReadBuffer
        BY <1>0, <2>0, <3>1 DEF TypeOK
      <4> QED
        BY <1>0, <2>0, <4>1, <4>3, <4>4
    <3>2. CASE ~ gotten < ReadBuffer
      BY <1>0, <1>11, <2>0, <3>2 DEF Read, TypeOK
    <3> QED
      BY <3>1, <3>2
  <2>2. status' \in {"READY", "BUSY"} /\ result' \in Results
        /\ hw' \in {"idle", "addressW", "data", "addressR", "receive"} /\ out' \in Seq(Frames)
    BY <1>0, <1>f, <1>11 DEF Read, TypeOK, Finish, Results
  <2>3. TypeOK'
    BY <1>0, <1>11, <2>1, <2>2 DEF Read, TypeOK, callVars
  <2>4. CallInv' /\ BufferInv'
    BY <1>0, <1>11, <2>0, <2>1 DEF Read, CallInv, BufferInv, callVars
  <2> QED
    BY <2>3, <2>4 DEF RaceInv
<1>12. CASE UNCHANGED vars
  BY <1>0, <1>12 DEF vars, RaceInv, TypeOK, CallInv, BufferInv
<1> QED
  BY <1>1, <1>2, <1>3, <1>4, <1>5, <1>6, <1>7, <1>8, <1>9, <1>10, <1>11, <1>12
     DEF Next, Interrupt, Call, Idle

(* The driver is well typed, even when its callers race: no index leaves a     *)
(* buffer, whichever call has set the counters last.                          *)
THEOREM TypeCorrect == Spec => []TypeOK
<1>1. RaceInv => TypeOK
  BY DEF RaceInv
<1> QED
  BY RaceInit, RaceStep, <1>1, PTL DEF Spec

-----------------------------------------------------------------------------
(* If no caller is preempted inside the driver: at most one task is inside    *)
(* it, with the bus idle, and what it has stored so far is its own message.   *)
InsideInv ==
    /\ \A t, u \in Tasks : pc[t] # "ready" /\ pc[u] # "ready" => t = u
    /\ \A t \in Tasks :
        /\ pc[t] # "ready" => hw = "idle" /\ ToRead[t] <= ReadBuffer
        /\ pc[t] \in {"fill", "setup", "start"} => status = "BUSY" /\ address = Message(t)
        /\ pc[t] = "fill" => \A i \in 1 .. fill[t] : writeData[i] = <<Message(t), i>>
        /\ pc[t] \in {"setup", "start"} =>
             \A i \in 1 .. ToWrite[t] : writeData[i] = <<Message(t), i>>
        /\ pc[t] = "start" => /\ toWrite = ToWrite[t] /\ toRead = ToRead[t]
                              /\ written = 0 /\ gotten = 0

(* A transaction on the bus: every field of the driver is about one message.  *)
BusInv ==
    hw # "idle" =>
        /\ status = "BUSY"
        /\ current \in accepted
        /\ wire = [to |-> current, bytes |-> [i \in 1 .. written |-> <<current, i>>]]
        /\ toWrite = W(current) /\ toRead = R(current) /\ toRead <= ReadBuffer
        /\ \A i \in 1 .. toWrite : writeData[i] = <<current, i>>
        /\ \A i \in 1 .. gotten : readData[i] = <<current, i>>
        /\ gotten <= toRead
        /\ hw \in {"addressR", "receive"} => written = toWrite /\ gotten < toRead

(* Messages are numbered as they come, and the one being started is new.      *)
NewInv ==
    /\ \A m \in accepted : m[2] <= calls[m[1]]
    /\ \A t \in Tasks : pc[t] # "ready" => Message(t) \notin accepted

WholeInv ==
    /\ RaceInv /\ InsideInv /\ BusInv /\ NewInv
    /\ SentWhole /\ AcceptedIsSent /\ ReadIsFresh

-----------------------------------------------------------------------------
(* A call step while no caller is preempted inside the driver: it is the only *)
(* one, and the bus is idle if the call has passed its check.                 *)
LEMMA Alone ==
    ASSUME Preemptive = FALSE, NEW t \in Tasks, MayRun(t)
    PROVE  \A u \in Tasks \ {t} : pc[u] = "ready"
BY DEF MayRun

(* What was sent, lost or is under way stays so when none of it changes.      *)
LEMMA HistoryKept ==
    ASSUME SentWhole, AcceptedIsSent, UNCHANGED <<out, accepted, failed, hw, current>>
    PROVE  SentWhole' /\ AcceptedIsSent'
BY DEF SentWhole, AcceptedIsSent, InFlight

LEMMA WholeInit == Init => WholeInv
<1> SUFFICES ASSUME Init PROVE WholeInv
  OBVIOUS
<1>1. RaceInv
  BY RaceInit
<1>2. InsideInv /\ BusInv /\ NewInv
  BY DEF Init, InsideInv, BusInv, NewInv
<1>3. SentWhole /\ AcceptedIsSent /\ ReadIsFresh
  BY EmptySeq DEF Init, SentWhole, AcceptedIsSent, ReadIsFresh
<1> QED
  BY <1>1, <1>2, <1>3 DEF WholeInv

LEMMA CallStep ==
    ASSUME Preemptive = FALSE, WholeInv, NEW t \in Tasks, Call(t), RaceInv'
    PROVE  WholeInv'
<1>0. TypeOK /\ CallInv /\ InsideInv /\ BusInv /\ NewInv /\ SentWhole /\ AcceptedIsSent
      /\ ReadIsFresh /\ RaceInv
  BY DEF WholeInv, RaceInv
<1>t. ToWrite[t] \in Nat /\ ToRead[t] \in Nat /\ ToWrite[t] + ToRead[t] > 0
      /\ ReadBuffer \in Nat /\ calls[t] \in Nat /\ fill[t] \in Nat
  BY <1>0, TwiMasterAssumption DEF TypeOK
<1>a. \A u \in Tasks \ {t} : pc[u] = "ready"
  BY Alone DEF Call, Check, Claim, Fill, Setup, Start
<1>m. pc[t] # "ready" => Message(t) \in Messages /\ Message(t) \notin accepted
  BY <1>0 DEF CallInv, NewInv, Message, Messages
<1>i. pc[t] # "ready" => hw = "idle"
  BY <1>0 DEF InsideInv
<1>1. CASE Check(t)
  <2>1. SentWhole' /\ AcceptedIsSent'
    BY <1>0, <1>1, HistoryKept DEF Check, busVars
  <2>2. ReadIsFresh' /\ BusInv'
    BY <1>0, <1>1 DEF Check, ReadIsFresh, BusInv, driverVars, busVars
  <2>3. InsideInv'
    BY ZenonT(40), <1>0, <1>1, <1>a DEF Check, Goto, InsideInv, BusInv, TypeOK, driverVars, busVars
  <2>4. NewInv'
    <3>1. calls' = [calls EXCEPT ![t] = @ + 1] /\ accepted' = accepted
          /\ \A u \in Tasks \ {t} : pc'[u] = "ready"
      BY <1>0, <1>1, <1>a DEF Check, Goto, TypeOK
    <3>2. ASSUME NEW m \in accepted PROVE m[2] <= calls'[m[1]]
      <4>1. m[1] \in Tasks /\ m[2] \in Nat /\ m[2] <= calls[m[1]] /\ calls[m[1]] \in Nat
        BY <1>0 DEF NewInv, TypeOK, Messages
      <4> QED
        BY SMTT(30), <1>0, <1>t, <3>1, <4>1 DEF TypeOK
    <3>3. Message(t)' \notin accepted
      <4>1. calls'[t] = calls[t] + 1
        BY <1>0, <3>1 DEF TypeOK
      <4> SUFFICES ASSUME <<t, calls[t] + 1>> \in accepted PROVE FALSE
        BY <4>1 DEF Message
      <4>2. <<t, calls[t] + 1>>[2] <= calls[<<t, calls[t] + 1>>[1]]
        BY <1>0 DEF NewInv
      <4> QED
        BY <1>t, <4>2
    <3> QED
      BY <3>1, <3>2, <3>3 DEF NewInv
  <2> QED
    BY <2>1, <2>2, <2>3, <2>4 DEF WholeInv
<1>2. CASE Claim(t)
  <2>1. SentWhole' /\ AcceptedIsSent'
    BY <1>0, <1>2, HistoryKept DEF Claim, busVars
  <2>2. ReadIsFresh' /\ BusInv'
    BY <1>0, <1>2, <1>i DEF Claim, ReadIsFresh, BusInv, busVars
  <2>3. InsideInv'
    BY <1>0, <1>2, <1>a, <1>i DEF Claim, Goto, InsideInv, Message, TypeOK, busVars
  <2>4. NewInv'
    BY <1>0, <1>2, <1>m, <1>a DEF Claim, Goto, NewInv, Message, TypeOK
  <2> QED
    BY <2>1, <2>2, <2>3, <2>4 DEF WholeInv
<1>3. CASE Fill(t)
  <2>1. SentWhole' /\ AcceptedIsSent'
    BY <1>0, <1>3, HistoryKept DEF Fill, busVars
  <2>2. ReadIsFresh' /\ BusInv'
    BY <1>0, <1>3, <1>i DEF Fill, ReadIsFresh, BusInv, InsideInv, busVars
  <2>4. NewInv'
    BY <1>0, <1>3, <1>m, <1>a DEF Fill, Goto, NewInv, Message, TypeOK
  <2>3. InsideInv'
    <3>1. /\ pc[t] = "fill" /\ status = "BUSY" /\ address = Message(t) /\ hw = "idle"
          /\ ToRead[t] <= ReadBuffer
          /\ UNCHANGED <<status, address, hw, calls>> /\ Message(t)' = Message(t)
      BY <1>0, <1>3, <1>i DEF Fill, InsideInv, Message, busVars
    <3>2. CASE fill[t] < ToWrite[t]
      <4>1. /\ pc' = pc /\ fill'[t] = fill[t] + 1
            /\ writeData' = Store(writeData, fill[t], <<Message(t), fill[t] + 1>>)
        BY <1>0, <1>3, <3>2 DEF Fill, TypeOK
      <4>2. <<Message(t), fill[t] + 1>> \in Bytes /\ writeData \in Seq(Bytes)
            /\ fill[t] <= Len(writeData)
        <5>1. fill[t] + 1 \in Nat /\ Message(t) \in Messages
          BY <1>m, <1>t, <3>1
        <5> QED
          BY <1>0, <3>1, <5>1 DEF Bytes, TypeOK, CallInv
      <4>4. \A i \in 1 .. fill[t] : writeData[i] = <<Message(t), i>>
        BY <1>0, <3>1 DEF InsideInv
      <4>5. \A i \in 1 .. fill[t] + 1 :
               Store(writeData, fill[t], <<Message(t), fill[t] + 1>>)[i] = <<Message(t), i>>
        BY <1>m, <1>t, <3>1, <4>2, <4>4, StoredBytes
      <4> QED
        BY <1>a, <3>1, <4>1, <4>5, <1>0 DEF InsideInv
    <3>3. CASE ~ fill[t] < ToWrite[t]
      <4>1. pc' = [pc EXCEPT ![t] = "setup"] /\ writeData' = writeData /\ fill' = fill
        BY <1>3, <3>3 DEF Fill, Goto
      <4>2. \A i \in 1 .. ToWrite[t] : writeData[i] = <<Message(t), i>>
        BY <1>0, <1>t, <3>1, <3>3 DEF InsideInv
      <4>3. pc'[t] = "setup" /\ \A u \in Tasks \ {t} : pc'[u] = "ready"
        BY <1>0, <1>a, <4>1 DEF TypeOK
      <4> QED
        BY <3>1, <4>1, <4>2, <4>3 DEF InsideInv
    <3> QED
      BY <3>2, <3>3
  <2> QED
    BY <2>1, <2>2, <2>3, <2>4 DEF WholeInv
<1>4. CASE Setup(t)
  <2>1. SentWhole' /\ AcceptedIsSent'
    BY <1>0, <1>4, HistoryKept DEF Setup, busVars
  <2>2. ReadIsFresh' /\ BusInv'
    BY <1>0, <1>4, <1>i DEF Setup, ReadIsFresh, BusInv, InsideInv, busVars
  <2>3. InsideInv'
    <3>1. pc'[t] = "start" /\ \A u \in Tasks \ {t} : pc'[u] = "ready"
      BY <1>0, <1>4, <1>a DEF Setup, Goto, TypeOK
    <3> QED
      BY <1>0, <1>4, <1>i, <3>1 DEF Setup, InsideInv, Message, busVars
  <2>4. NewInv'
    BY <1>0, <1>4, <1>m, <1>a DEF Setup, Goto, NewInv, Message, TypeOK
  <2> QED
    BY <2>1, <2>2, <2>3, <2>4 DEF WholeInv
<1>5. CASE Start(t)
  <2>0. pc' = [u \in Tasks |-> "ready"]
    BY <1>0, <1>5, <1>a DEF Start, Goto, TypeOK
  <2>1. /\ hw = "idle" /\ hw' \in {"addressW", "addressR"} /\ current' = Message(t)
        /\ accepted' = accepted \union {Message(t)} /\ UNCHANGED <<out, failed>>
    BY <1>5, <1>i DEF Start
  <2>2. SentWhole' /\ AcceptedIsSent'
    BY <1>0, <2>1 DEF SentWhole, AcceptedIsSent, InFlight
  <2>3. /\ status = "BUSY" /\ toWrite = ToWrite[t] /\ toRead = ToRead[t]
        /\ ToRead[t] <= ReadBuffer
        /\ written = 0 /\ gotten = 0 /\ address = Message(t) /\ UNCHANGED driverVars
        /\ \A i \in 1 .. ToWrite[t] : writeData[i] = <<Message(t), i>>
    BY <1>0, <1>5 DEF Start, InsideInv
  <2>4. ReadIsFresh'
    BY <2>3 DEF ReadIsFresh, driverVars
  <2>5. BusInv'
    <3>1. W(current)' = ToWrite[t] /\ R(current)' = ToRead[t]
      BY <2>1 DEF W, R, Message
    <3>2. wire' = [to |-> Message(t), bytes |-> <<>>]
          /\ (hw' = "addressR" => ToWrite[t] = 0)
      BY <1>5, <1>t, <2>3 DEF Start
    <3>3. [i \in 1 .. written |-> <<current, i>>]' = <<>>
      BY <2>3 DEF driverVars
    <3> QED
      BY <1>t, <2>1, <2>3, <3>1, <3>2, <3>3 DEF BusInv, driverVars
  <2>6. InsideInv'
    BY <2>0 DEF InsideInv
  <2>7. NewInv'
    BY <1>0, <1>5, <2>0, <1>t DEF Start, NewInv, Message
  <2> QED
    BY <2>2, <2>4, <2>5, <2>6, <2>7 DEF WholeInv
<1> QED
  BY <1>1, <1>2, <1>3, <1>4, <1>5 DEF Call

(* A step of the interrupt handler that ends the transaction by losing it, or  *)
(* because every byte is written and read.                                   *)
LEMMA LostStep ==
    ASSUME WholeInv, RaceInv', hw # "idle", hw' = "idle", result' \in Results \ {"OK"},
           failed' = failed \union {current},
           UNCHANGED <<address, writeData, toWrite, toRead, written, gotten,
                       readData, wire, current, out, callVars>>
    PROVE  WholeInv'
<1>0. InsideInv /\ BusInv /\ NewInv /\ SentWhole /\ AcceptedIsSent
  BY DEF WholeInv
<1>1. \A t \in Tasks : pc'[t] = "ready"
  BY <1>0 DEF InsideInv, callVars
<1>2. InsideInv' /\ BusInv' /\ NewInv'
  BY <1>0, <1>1 DEF InsideInv, BusInv, NewInv, callVars, Message
<1>3. SentWhole' /\ ReadIsFresh'
  BY <1>0 DEF SentWhole, ReadIsFresh, callVars
<1>4. AcceptedIsSent'
  BY <1>0 DEF AcceptedIsSent, InFlight, callVars
<1> QED
  BY <1>2, <1>3, <1>4 DEF WholeInv

LEMMA DoneStep ==
    ASSUME WholeInv, RaceInv', hw # "idle", hw' = "idle", status' = "READY",
           wire = Whole(current), gotten' = R(current),
           \A i \in 1 .. gotten' : readData'[i] = <<current, i>>,
           out' = Append(out, wire), UNCHANGED <<failed, current, callVars>>
    PROVE  WholeInv'
<1>0. InsideInv /\ BusInv /\ NewInv /\ SentWhole /\ AcceptedIsSent /\ out \in Seq(Frames)
      /\ wire \in Frames
  BY DEF WholeInv, RaceInv, TypeOK
<1>1. \A t \in Tasks : pc'[t] = "ready"
  BY <1>0 DEF InsideInv, callVars
<1>2. InsideInv' /\ BusInv' /\ NewInv'
  BY <1>0, <1>1 DEF InsideInv, BusInv, NewInv, callVars, Message
<1>3. ReadIsFresh'
  BY DEF ReadIsFresh
<1>4. /\ DOMAIN out = 1 .. Len(out) /\ Len(out) \in Nat /\ DOMAIN out' = 1 .. Len(out) + 1
      /\ out'[Len(out) + 1] = Whole(current) /\ \A i \in DOMAIN out : out'[i] = out[i]
  BY <1>0, AppendProperties, LenProperties
<1>5. current \in accepted /\ accepted' = accepted
  BY <1>0 DEF BusInv, callVars
<1>w. \A m : Whole(m)' = Whole(m)
  BY DEF Whole, W
<1>6. SentWhole'
  <2> SUFFICES ASSUME NEW i \in DOMAIN out' PROVE \E m \in accepted' : out'[i] = Whole(m)
    BY <1>w DEF SentWhole
  <2>1. CASE i = Len(out) + 1
    BY <1>4, <1>5, <2>1
  <2>2. CASE i \in DOMAIN out
    BY <1>0, <1>4, <1>5, <2>2 DEF SentWhole
  <2> QED
    BY <1>4, <2>1, <2>2
<1>7. AcceptedIsSent'
  <2> SUFFICES ASSUME NEW m \in accepted
               PROVE  (\E i \in DOMAIN out' : out'[i] = Whole(m)) \/ m \in failed
    BY <1>5, <1>w DEF AcceptedIsSent
  <2>1. CASE m = current
    BY <1>4, <2>1
  <2>2. CASE \E i \in DOMAIN out : out[i] = Whole(m)
    BY <1>4, <2>2
  <2> QED
    BY <1>0, <2>1, <2>2 DEF AcceptedIsSent, InFlight
<1> QED
  BY <1>2, <1>3, <1>6, <1>7 DEF WholeInv

LEMMA InterruptStep ==
    ASSUME WholeInv, Interrupt, RaceInv'
    PROVE  WholeInv'
<1>0. TypeOK /\ BufferInv /\ InsideInv /\ BusInv /\ NewInv /\ SentWhole /\ AcceptedIsSent
      /\ RaceInv
  BY DEF WholeInv, RaceInv
<1>1. ASSUME NEW r \in {"ARBITRATION_LOST", "BUS_ERROR"}, ArbitrationLostBusError(r)
      PROVE  WholeInv'
  BY <1>1, LostStep DEF ArbitrationLostBusError, Finish, Results
<1>2. CASE WriteNack
  BY <1>2, LostStep DEF WriteNack, Finish, Results
<1>h. hw # "idle"
  BY DEF Interrupt, ArbitrationLostBusError, WriteNack, WriteByte, WriteToRead, WriteDone, Read
<1>b. /\ status = "BUSY" /\ current \in accepted
      /\ wire = [to |-> current, bytes |-> [i \in 1 .. written |-> <<current, i>>]]
      /\ toWrite = W(current) /\ toRead = R(current) /\ toRead <= ReadBuffer
      /\ \A i \in 1 .. toWrite : writeData[i] = <<current, i>>
      /\ \A i \in 1 .. gotten : readData[i] = <<current, i>>
      /\ gotten <= toRead
      /\ hw \in {"addressR", "receive"} => written = toWrite /\ gotten < toRead
  BY <1>0, <1>h DEF BusInv
<1>r. \A t \in Tasks : pc[t] = "ready"
  BY <1>0, <1>h DEF InsideInv
<1>t. /\ toWrite \in Nat /\ toRead \in Nat /\ written \in 0 .. toWrite /\ gotten \in Nat
      /\ current \in Messages /\ ReadBuffer \in Nat
  BY <1>0, <1>h, TwiMasterAssumption DEF TypeOK, BufferInv
<1>k. ASSUME UNCHANGED <<status, toWrite, toRead, out, failed, current, callVars>>,
             hw' # "idle", BusInv'
      PROVE  WholeInv'
  <2>1. SentWhole' /\ AcceptedIsSent'
    BY <1>0, <1>h, <1>k DEF SentWhole, AcceptedIsSent, InFlight, callVars
  <2>2. ReadIsFresh'
    BY <1>b, <1>k DEF ReadIsFresh
  <2>3. InsideInv' /\ NewInv'
    BY <1>0, <1>r, <1>k DEF InsideInv, NewInv, callVars, Message
  <2> QED
    BY <1>k, <2>1, <2>2, <2>3 DEF WholeInv
<1>3. CASE WriteByte
  <2>1. /\ wire' = [wire EXCEPT !.bytes = Append(@, writeData[written + 1])]
        /\ written' = written + 1 /\ hw' = "data" /\ written < toWrite
        /\ UNCHANGED <<status, result, address, writeData, toWrite, toRead, gotten,
                       readData, current, failed, out, callVars>>
    BY <1>3 DEF WriteByte
  <2>2. written \in Nat /\ writeData[written + 1] = <<current, written + 1>>
    <3>1. written + 1 \in 1 .. toWrite
      BY <1>t, <2>1
    <3> QED
      BY <1>b, <1>t, <3>1
  <2> DEFINE sent == [i \in 1 .. written |-> <<current, i>>]
             more == [i \in 1 .. written + 1 |-> <<current, i>>]
  <2>3. wire' = [to |-> current, bytes |-> Append(sent, <<current, written + 1>>)]
    <3>1. wire = [to |-> current, bytes |-> sent]
      BY <1>b
    <3> HIDE DEF sent
    <3> QED
      BY <2>1, <2>2, <3>1
  <2>4. Append(sent, <<current, written + 1>>) = more
    BY <2>2, PrefixPlusOne
  <2>5. BusInv'
    BY <1>b, <2>1, <2>3, <2>4 DEF BusInv, W, R, callVars
  <2> QED
    BY <1>k, <2>1, <2>5
<1>4. CASE WriteToRead
  <2>1. hw' = "addressR" /\ written = toWrite /\ gotten < toRead
        /\ UNCHANGED <<driverVars, readData, wire, current, failed, out, callVars>>
    BY <1>4, <1>t DEF WriteToRead
  <2>2. BusInv'
    BY <1>b, <2>1 DEF BusInv, W, R, driverVars, callVars
  <2> QED
    BY <1>k, <2>1, <2>2 DEF driverVars
<1>5. CASE WriteDone
  <2>1. /\ written = toWrite /\ gotten = toRead /\ status' = "READY" /\ hw' = "idle"
        /\ out' = Append(out, wire) /\ UNCHANGED <<gotten, readData, failed, current, callVars>>
    BY <1>5, <1>t, <1>b DEF WriteDone, Finish
  <2>2. wire = Whole(current)
    BY <1>b, <2>1 DEF Whole
  <2> QED
    BY <1>h, <1>b, <2>1, <2>2, DoneStep
<1>6. CASE Read
  <2>1. hw \in {"addressR", "receive"} /\ written = toWrite /\ gotten < toRead
        /\ gotten < ReadBuffer
    BY <1>6, <1>b, <1>t DEF Read
  <2>2. /\ readData' = Store(readData, gotten, <<current, gotten + 1>>)
        /\ gotten' = gotten + 1
        /\ UNCHANGED <<address, writeData, toWrite, toRead, written, wire, current,
                       failed, callVars>>
    BY <1>6, <2>1 DEF Read
  <2>3. readData \in Seq(Bytes) /\ gotten <= Len(readData)
        /\ <<current, gotten + 1>> \in Bytes
    BY <1>0, <1>t DEF TypeOK, BufferInv, Bytes
  <2>4. \A i \in 1 .. gotten + 1 :
           Store(readData, gotten, <<current, gotten + 1>>)[i] = <<current, i>>
    BY <1>b, <1>t, <2>3, StoredBytes
  <2>5. \A i \in 1 .. gotten' : readData'[i] = <<current, i>>
    BY <2>2, <2>4
  <2>6. CASE gotten' < toRead
    <3>1. hw' = "receive" /\ UNCHANGED <<status, result, out>>
      BY <1>6, <2>1, <2>6 DEF Read
    <3>2. BusInv'
      <4>1. gotten' <= toRead'
        BY <1>t, <2>2, <2>6
      <4>2. /\ wire' = [to |-> current', bytes |-> [i \in 1 .. written' |-> <<current', i>>]]
            /\ \A i \in 1 .. toWrite' : writeData'[i] = <<current', i>>
            /\ \A i \in 1 .. gotten' : readData'[i] = <<current', i>>
        BY <1>b, <2>2, <2>5
      <4>3. toWrite' = W(current)' /\ toRead' = R(current)' /\ status' = "BUSY"
            /\ toRead' <= ReadBuffer /\ current' \in accepted' /\ written' = toWrite'
            /\ gotten' < toRead'
        BY <1>b, <2>1, <2>2, <2>6, <3>1 DEF W, R, callVars
      <4> QED
        BY <4>1, <4>2, <4>3 DEF BusInv
    <3> QED
      BY <1>k, <2>2, <3>1, <3>2
  <2>7. CASE ~ gotten' < toRead
    <3>1. hw' = "idle" /\ status' = "READY" /\ out' = Append(out, wire)
      BY <1>6, <2>7 DEF Read, Finish
    <3>2. gotten' = R(current)
      BY <1>b, <1>t, <2>1, <2>2, <2>7
    <3>3. wire = Whole(current)
      BY <1>b, <2>1 DEF Whole
    <3> QED
      BY <1>h, <2>2, <2>5, <3>1, <3>2, <3>3, DoneStep
  <2> QED
    BY <2>6, <2>7
<1> QED
  BY <1>1, <1>2, <1>3, <1>4, <1>5, <1>6 DEF Interrupt

LEMMA WholeStep ==
    ASSUME Preemptive = FALSE, WholeInv, [Next]_vars
    PROVE  WholeInv'
<1>1. RaceInv'
  BY RaceStep DEF WholeInv
<1>2. CASE UNCHANGED vars
  <2>1. WholeInv /\ UNCHANGED vars
    BY <1>2
  <2>2. InsideInv' /\ BusInv' /\ NewInv'
    BY <2>1 DEF WholeInv, vars, InsideInv, BusInv, NewInv, Message
  <2>3. SentWhole' /\ AcceptedIsSent' /\ ReadIsFresh'
    BY <2>1 DEF WholeInv, vars, SentWhole, AcceptedIsSent, ReadIsFresh, InFlight
  <2> QED
    BY <1>1, <2>2, <2>3 DEF WholeInv
<1> QED
  BY <1>1, <1>2, CallStep, InterruptStep DEF Next, Idle

(* Everything the driver promises as long as no caller is preempted inside     *)
(* it: each field of the driver structure is about one message at a time.    *)
LEMMA WholeAlways == ASSUME Preemptive = FALSE PROVE Spec => []WholeInv
<1>1. WholeInv /\ [Next]_vars => WholeInv'
  BY WholeStep
<1> QED
  BY <1>1, WholeInit, PTL DEF Spec

(* What completes on the bus is one accepted message, whole and to its own     *)
(* destination, whatever the buffers held and whatever failed before.        *)
THEOREM EveryFrameIsWhole == ASSUME Preemptive = FALSE PROVE Spec => []SentWhole
<1>1. WholeInv => SentWhole
  BY DEF WholeInv
<1> QED
  BY <1>1, WholeAlways, PTL

(* A call that returned true has put its message on the bus: sent, failed      *)
(* there, or under way.  Without the assumption the race run refutes it.      *)
THEOREM TrueMeansStarted == ASSUME Preemptive = FALSE PROVE Spec => []AcceptedIsSent
<1>1. WholeInv => AcceptedIsSent
  BY DEF WholeInv
<1> QED
  BY <1>1, WholeAlways, PTL

(* The bytes a read leaves after OK are those of its own transaction, all of   *)
(* them, and no BUFFER_OVERFLOW has been overwritten by the OK.               *)
THEOREM OkReadIsFresh == ASSUME Preemptive = FALSE PROVE Spec => []ReadIsFresh
<1>1. WholeInv => ReadIsFresh
  BY DEF WholeInv
<1> QED
  BY <1>1, WholeAlways, PTL

-----------------------------------------------------------------------------
(* The refinement of OneShotLink, step by step: writing MASTER.ADDR accepts,   *)
(* the end of a transaction completes or loses, everything else stutters.    *)
LEMMA LinkStep ==
    ASSUME Preemptive = FALSE, WholeInv, [Next]_vars
    PROVE  [Link!Next]_(Link!vars)
<1> DEFINE dest == [i \in DOMAIN out |-> out[i].to]
<1>0. TypeOK /\ CallInv /\ BufferInv /\ InsideInv /\ BusInv /\ NewInv
  BY DEF WholeInv, RaceInv
<1>s. ASSUME UNCHANGED <<accepted, out>>, InFlight' = InFlight PROVE UNCHANGED Link!vars
  BY <1>s DEF Link!vars
<1>l. ASSUME UNCHANGED <<accepted, out>>, hw # "idle", hw' = "idle" PROVE Link!Next
  BY <1>l DEF Link!Next, Link!End, Link!Lose, InFlight
<1>c. ASSUME hw # "idle", hw' = "idle", accepted' = accepted, out' = Append(out, wire)
      PROVE Link!Next
  <2>1. out \in Seq(Frames) /\ wire \in Frames /\ wire.to = current /\ current \in Messages
    BY <1>0, <1>c DEF TypeOK, BusInv, BufferInv
  <2>2. dest' = Append(dest, current)
    <3>1. /\ DOMAIN out = 1 .. Len(out) /\ Len(out) \in Nat /\ DOMAIN out' = 1 .. Len(out) + 1
          /\ out'[Len(out) + 1] = wire /\ \A i \in DOMAIN out : out'[i] = out[i]
      BY <1>c, <2>1, AppendProperties, LenProperties
    <3>2. dest \in [1 .. Len(out) -> {out[i].to : i \in DOMAIN out}]
      BY <3>1
    <3>3. dest \in Seq({out[i].to : i \in DOMAIN out}) /\ Len(dest) = Len(out)
      BY <3>1, <3>2, FunctionIsSequence
    <3> QED
      BY <2>1, <3>1, <3>3
  <2> QED
    BY <1>c, <2>1, <2>2 DEF Link!Next, Link!End, Link!Complete, InFlight
<1>1. ASSUME NEW t \in Tasks, Start(t) PROVE Link!Next
  <2>1. hw = "idle" /\ Message(t) \notin accepted /\ Message(t) \in Messages
    BY <1>0, <1>1 DEF Start, InsideInv, NewInv, CallInv, Message, Messages
  <2> QED
    BY <1>1, <2>1 DEF Start, Link!Next, Link!Accept, InFlight
<1>2. ASSUME NEW t \in Tasks, Check(t) \/ Claim(t) \/ Fill(t) \/ Setup(t)
      PROVE  UNCHANGED Link!vars
  BY <1>2, <1>s DEF Check, Claim, Fill, Setup, InFlight, busVars
<1>3. ASSUME NEW r \in {"ARBITRATION_LOST", "BUS_ERROR"}, ArbitrationLostBusError(r)
      PROVE  Link!Next
  BY <1>3, <1>l DEF ArbitrationLostBusError, callVars
<1>4. CASE WriteNack
  BY <1>4, <1>l DEF WriteNack, callVars
<1>5. CASE WriteByte \/ WriteToRead
  BY <1>5, <1>s DEF WriteByte, WriteToRead, InFlight, callVars
<1>6. CASE WriteDone
  BY <1>6, <1>c DEF WriteDone, callVars
<1>7. CASE Read
  <2>1. CASE hw' = "idle"
    BY <1>7, <1>c, <2>1 DEF Read, callVars
  <2>2. CASE hw' # "idle"
    BY <1>7, <1>s, <2>2 DEF Read, InFlight, callVars
  <2> QED
    BY <2>1, <2>2
<1>8. CASE UNCHANGED vars
  BY <1>8, <1>s DEF vars, InFlight
<1> QED
  BY <1>1, <1>2, <1>3, <1>4, <1>5, <1>6, <1>7, <1>8 DEF Next, Interrupt, Call, Idle

(* As long as no caller is preempted inside it the driver is a OneShotLink:    *)
(* it accepts, sends or loses whole messages, each at most once, in order,    *)
(* one at a time.                                                            *)
THEOREM DriverIsOneShotLink == ASSUME Preemptive = FALSE PROVE Spec => Link!Spec
<1>1. Init => Link!Init
  BY DEF Init, Link!Init, InFlight
<1>2. WholeInv /\ [Next]_vars => [Link!Next]_(Link!vars)
  BY LinkStep
<1> QED
  BY <1>1, <1>2, WholeAlways, PTL DEF Spec, Link!Spec
=============================================================================
