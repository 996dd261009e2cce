---------------------------- MODULE SamplingProofs ----------------------------
(***************************************************************************)
(* Theorems about Sampling, for every signal length, every decimation, every *)
(* set of samples, and whether or not the compiler moved the read of the     *)
(* flag out of the wait loop; and about Spectrum: that the loops of            *)
(* FFT_calculate turn the stored points into their discrete Fourier transform, *)
(* for every power of two of points and every root of unity of that order.     *)
(***************************************************************************)
EXTENDS Spectrum, QueueLemmas

(* A measurement runs only while processAll waits for it, and the loop        *)
(* variable of a handler stays below its bound.                               *)
PhaseInv ==
    /\ sampling => pc \in {"delay", "wait", "spin"}
    /\ pc \in {"sendSignal", "sendFFT"} => point = 0
    /\ pc = "readSignal" => point < Length
    /\ pc = "readFFT" => point < Points \div 2

(* While it runs, the counter is the number of samples taken; after it, the   *)
(* measurement is complete, or there was none.                                *)
CountInv ==
    /\ sampling => Len(taken) = count
    /\ ~sampling => Len(taken) \in {0, Length}

(* The memory holds the samples taken so far, as the test of the memory left   *)
(* them, and what was reported of the signal is what the memory held.          *)
Truthful(packet) == packet.at < Len(taken) => packet.is = Held(packet.at)
StoredInv ==
    /\ \A i \in 0 .. Len(taken) - 1 : signal[i] = Held(i)
    /\ \A i \in 1 .. Len(reported) : Truthful(reported[i])
    /\ \A i, j \in 1 .. Len(reported) : i < j => reported[i].at < reported[j].at
    /\ pc = "readSignal" => \A i \in 1 .. Len(reported) : reported[i].at < point
    /\ pc \in {"delay", "wait", "spin", "sendSignal", "hkWrite"} => reported = <<>>
    /\ pc \in {"delay", "wait", "spin"} => ~tested

(* A tested word is a word; the other byte is kept, so that testing it again     *)
(* changes nothing.                                                          *)
LEMMA TestedFacts ==
    ASSUME NEW i \in Index, NEW w \in Int
    PROVE  Tested(i, w) \in Int /\ Tested(i, Tested(i, w)) = Tested(i, w)
<1> DEFINE high(v) == IF 2 * i \notin DOMAIN HkBytes THEN v \div 256
                      ELSE HkBytes[2 * i] - (IF HkBytes[2 * i] < 128 THEN 0 ELSE 256)
           low(v) == IF 2 * i + 1 \notin DOMAIN HkBytes THEN v % 256 ELSE HkBytes[2 * i + 1]
           h == high(w)
           l == low(w)
<1>1. \A v : Tested(i, v) = 256 * high(v) + low(v)
  BY DEF Tested
<1>2. h \in Int /\ l \in 0 .. 255
  BY SamplingAssumption
<1>3. \A x \in Int, y \in 0 .. 255 : /\ 256 * x + y \in Int
                                    /\ (256 * x + y) \div 256 = x
                                    /\ (256 * x + y) % 256 = y
  OBVIOUS
<1>4. high(256 * h + l) = h /\ low(256 * h + l) = l
  <2> DEFINE x == h
             y == l
  <2>1. (256 * h + l) \div 256 = h /\ (256 * h + l) % 256 = l
    <3>1. x \in Int /\ y \in 0 .. 255
      BY <1>2
    <3> HIDE DEF x, y, h, l
    <3>2. (256 * x + y) \div 256 = x /\ (256 * x + y) % 256 = y
      BY <3>1
    <3> QED
      BY <3>2 DEF x, y
  <2>2. high(256 * h + l) = h
    BY <2>1
  <2>3. low(256 * h + l) = l
    BY <2>1
  <2> QED
    BY <2>2, <2>3
<1> HIDE DEF high, low
<1> QED
  BY <1>1, <1>2, <1>3, <1>4

(* C's division of an integer by the length gives an integer.                 *)
LEMMA QuotientType ==
    ASSUME NEW a \in Int
    PROVE  Quotient(a, Length) \in Int
BY SamplingAssumption DEF Quotient

(* What decimate_and_store stores is a point per index.                       *)
LEMMA DecimatedType ==
    ASSUME NEW word \in [Index -> Int], NEW mean \in Int
    PROVE  Decimated(word, mean) \in [0 .. Points - 1 -> Int]
<1> SUFFICES ASSUME NEW i \in 0 .. Points - 1, i * Decimation < Length
             PROVE  word[i * Decimation] - mean \in Int
  BY DEF Decimated
<1>1. i * Decimation \in Nat
  BY SamplingAssumption
<1>2. i * Decimation \in Index
  BY <1>1, SamplingAssumption DEF Index
<1> QED
  BY <1>2

Inv == TypeOK /\ PhaseInv /\ CountInv

LEMMA InvInit == Init => Inv
<1> SUFFICES ASSUME Init PROVE Inv
  OBVIOUS
<1> USE SamplingAssumption DEF Init
<1>1. TypeOK
  <2>1. fft \in [0 .. Points - 1 -> Int]
    OBVIOUS
  <2>2. count \in Index /\ signal \in [Index -> Int]
    BY DEF Index
  <2>3. /\ events \in Seq(Commands) /\ Len(events) <= QueueLen
        /\ taken \in Seq(Samples) /\ Len(taken) <= Length
        /\ reported \in Seq(Packets)
    OBVIOUS
  <2>4. pc \in Labels
    BY DEF Labels
  <2> QED
    BY <2>1, <2>2, <2>3, <2>4 DEF TypeOK
<1>2. PhaseInv /\ CountInv
  BY DEF PhaseInv, CountInv
<1> QED
  BY <1>1, <1>2 DEF Inv

(* The actions of mainTask that leave the measurement alone. *)
LEMMA ProceedStep ==
    ASSUME Inv,
           NEW from \in Labels, NEW to \in Labels, Proceed(from, to),
           to \in {"delay", "wait", "spin"} => from \in {"delay", "wait", "spin"},
           from \in {"delay", "wait", "spin"} => to \in {"delay", "wait", "spin"},
           to = "readSignal" => from = "sendSignal",
           to = "readFFT" => from = "sendFFT",
           to \notin {"sendSignal", "sendFFT"}
    PROVE  Inv'
BY SamplingAssumption
   DEF Inv, TypeOK, PhaseInv, CountInv, Proceed, handlerVars, acqVars, memVars, histVars

(* Every step keeps the invariant; one step of the proof per action. *)
LEMMA InvStep == Inv /\ [Next]_vars => Inv'
<1> SUFFICES ASSUME Inv, [Next]_vars PROVE Inv'
  OBVIOUS
<1> USE SamplingAssumption
    DEF Inv, TypeOK, PhaseInv, CountInv, taskVars, acqVars, memVars, histVars, handlerVars
<1>1. CASE Receive
  <2> DEFINE c == Head(events)
  <2>1. c \in Commands /\ events' \in Seq(Commands) /\ Len(events') <= QueueLen
    BY <1>1, QueueFacts DEF Receive, ReceiveKeeping
  <2>2. Start(c) \in Labels /\ (Start(c) = "delay" <=> c = "processAll")
        /\ Start(c) \notin {"wait", "spin", "readSignal", "readFFT"}
    BY DEF Start, Labels, SpiLabels
  <2>3. /\ tested' \in BOOLEAN
        /\ reported' \in Seq(Packets)
        /\ taken' \in Seq(Samples) /\ Len(taken') \in {0, Length} /\ (c = "processAll" => Len(taken') = 0)
        /\ count' \in Index /\ (c = "processAll" => count' = 0)
        /\ sampling' = (c = "processAll")
    <3>1. tested' \in BOOLEAN /\ sampling' = (sampling \/ c = "processAll")
      BY <1>1 DEF Receive, ReceiveKeeping
    <3>2. reported' \in Seq(Packets)
      BY <1>1 DEF Receive, ReceiveKeeping
    <3>3. /\ taken' \in Seq(Samples)
          /\ Len(taken') \in {0, Length}
          /\ c = "processAll" => Len(taken') = 0
      BY <1>1 DEF Receive, ReceiveKeeping
    <3>4. count' \in Index /\ (c = "processAll" => count' = 0)
      BY SMTT(30), <1>1 DEF Receive, ReceiveKeeping, Index
    <3>5. ~sampling
      BY <1>1 DEF Receive, ReceiveKeeping
    <3> QED
      BY <3>1, <3>2, <3>3, <3>4, <3>5
  <2>4. TypeOK'
    <3>1. pc' \in Labels /\ ticking' \in BOOLEAN /\ power' \in BOOLEAN /\ point' \in Nat
      BY <1>1, <2>2 DEF Receive, ReceiveKeeping
    <3>2. UNCHANGED <<asked, signalOffset, storedOffset, signal, fft, fftIs>>
      BY <1>1 DEF Receive, ReceiveKeeping
    <3>3. sampling' \in BOOLEAN /\ Len(taken') <= Length
      BY <2>3
    <3> QED
      BY <2>1, <2>3, <3>1, <3>2, <3>3
  <2>5. PhaseInv' /\ CountInv'
    BY <1>1, <2>2, <2>3 DEF Receive, ReceiveKeeping
  <2> QED
    BY <2>4, <2>5
<1>2. CASE Delay
  BY <1>2 DEF Delay, Labels
<1>3. CASE Wait
  BY <1>3 DEF Wait, Labels, SpiLabels
<1>4. CASE Decimate
  <2>1. Decimated(signal, storedOffset) \in [0 .. Points - 1 -> Int]
    BY DecimatedType
  <2> QED
    BY <1>4, <2>1 DEF Decimate, Labels, SpiLabels
<1>5. CASE Calculate
  BY <1>5 DEF Calculate, Labels
<1>6. CASE Answer
  BY <1>6, ProceedStep DEF Answer, Labels
<1>7. CASE Settle
  BY <1>7, ProceedStep DEF Settle, Labels
<1>8. CASE SendSignal
  BY <1>8, ProceedStep DEF SendSignal, Labels, SpiLabels
<1>9. CASE SendFFT
  BY <1>9, ProceedStep DEF SendFFT, Labels, SpiLabels
<1>10. CASE HkWrite
  <2>1. signal' \in [Index -> Int]
    BY <1>10, TestedFacts DEF HkWrite
  <2> QED
    BY <1>10, <2>1 DEF HkWrite, Labels
<1>11. ASSUME NEW ok \in BOOLEAN, ReadSignal(ok)
       PROVE  Inv'
  <2>1. point \in Index
    BY <1>11 DEF ReadSignal, ReadSignalNaming, Index
  <2>2. [at |-> point, is |-> signal[point]] \in Packets
    BY <2>1 DEF Packets
  <2>3. reported' \in Seq(Packets)
    BY <1>11, <2>2, QueueFacts DEF ReadSignal, ReadSignalNaming
  <2>4. /\ pc' \in Labels /\ ticking' \in BOOLEAN /\ point' = point + 1
        /\ pc' \in {"readSignal", "receive"}
        /\ pc' = "readSignal" => point' < Length
    <3>1. point \in 0 .. Length - 1 /\ point' = point + 1
      BY <1>11, <2>1 DEF ReadSignal, ReadSignalNaming, Index
    <3>2. CASE point + 1 = Length
      BY <1>11, <3>1, <3>2 DEF ReadSignal, ReadSignalNaming, Labels
    <3>3. CASE point + 1 # Length
      BY <1>11, <3>1, <3>3 DEF ReadSignal, ReadSignalNaming, Labels
    <3> QED
      BY <3>2, <3>3
  <2>5. UNCHANGED <<asked, events, sampling, count, signalOffset, signal,
                    storedOffset, fft, fftIs, power, taken, tested>>
    BY <1>11 DEF ReadSignal, ReadSignalNaming
  <2>6. pc = "readSignal" /\ ~sampling
    BY <1>11 DEF ReadSignal, ReadSignalNaming
  <2>7. TypeOK'
    BY <2>3, <2>4, <2>5
  <2>8. PhaseInv'
    BY <2>4, <2>5, <2>6
  <2>9. CountInv'
    BY <2>5, <2>6
  <2> QED
    BY <2>7, <2>8, <2>9 DEF Inv
<1>12. ASSUME NEW ok \in BOOLEAN, ReadFFT(ok)
       PROVE  Inv'
  <2>1. /\ Points \div 2 \in Nat /\ Points \div 2 <= Points - 1
        /\ point \in 0 .. Points - 1
    <3>1. Points \div 2 \in Nat /\ Points \div 2 <= Points - 1
      OBVIOUS
    <3> QED
      BY <1>12, <3>1 DEF ReadFFT
  <2>4. /\ pc' \in Labels /\ ticking' \in BOOLEAN /\ power' \in BOOLEAN
        /\ point' = point + 1
        /\ pc' = "readFFT" \/ pc' = "receive"
    BY <1>12 DEF ReadFFT, Labels
  <2>5. pc' = "readFFT" => point' < Points \div 2
    <3>1. point < Points \div 2 /\ (pc' = "readFFT" => point + 1 # Points \div 2)
      BY <1>12 DEF ReadFFT
    <3> QED
      BY <2>1, <2>4, <3>1
  <2>6. UNCHANGED <<asked, events, sampling, count, signalOffset, signal,
                    storedOffset, fft, fftIs, histVars>>
    BY <1>12 DEF ReadFFT
  <2>7. pc = "readFFT" /\ ~sampling
    BY <1>12 DEF ReadFFT
  <2>8. TypeOK'
    BY <2>4, <2>6
  <2>9. PhaseInv'
    BY <2>4, <2>5, <2>6, <2>7
  <2>10. CountInv'
    BY <2>6, <2>7
  <2> QED
    BY <2>8, <2>9, <2>10 DEF Inv
<1>13. ASSUME NEW ok \in BOOLEAN, HkSend(ok)
       PROVE  Inv'
  BY <1>13 DEF HkSend, Labels
<1>14. ASSUME NEW ok \in BOOLEAN, Reply(ok)
       PROVE  Inv'
  BY <1>14 DEF Reply, Labels
<1>15. ASSUME NEW v \in Samples, Sample(v)
       PROVE  Inv'
  <2>1. v \in Int /\ Quotient(signalOffset + v, Length) \in Int
    BY QuotientType
  <2>2. taken' \in Seq(Samples) /\ Len(taken') = Len(taken) + 1
    BY <1>15, QueueFacts DEF Sample, SampleAt
  <2>3. sampling /\ Len(taken) = count /\ count < Length
    BY <1>15 DEF Sample, SampleAt, Index
  <2>4. signal' \in [Index -> Int]
    BY <1>15, <2>1 DEF Sample, SampleAt
  <2>5. /\ count' \in Index
        /\ sampling' \in BOOLEAN /\ power' \in BOOLEAN
        /\ signalOffset' \in Int /\ storedOffset' \in Int
    BY <1>15, <2>1, <2>3 DEF Sample, SampleAt, Index
  <2>6. TypeOK'
    BY <1>15, <2>2, <2>3, <2>4, <2>5 DEF Sample, SampleAt
  <2>7. PhaseInv'
    BY <1>15 DEF Sample, SampleAt
  <2>8. CountInv'
    BY <1>15, <2>2, <2>3 DEF Sample, SampleAt, Index
  <2> QED
    BY <2>6, <2>7, <2>8
<1>16. ASSUME NEW c \in Commands, Dispatch(c)
       PROVE  Inv'
  BY <1>16, QueueFacts DEF Dispatch
<1>17. CASE UNCHANGED vars
  BY <1>17 DEF vars
<1> QED
  BY <1>1, <1>2, <1>3, <1>4, <1>5, <1>6, <1>7, <1>8, <1>9, <1>10, <1>11, <1>12,
     <1>13, <1>14, <1>15, <1>16, <1>17
     DEF Next, MainTask, Interrupt, CspTask, Idle

(* Every reachable state satisfies the invariant. *)
LEMMA InvAlways == Spec => []Inv
BY InvInit, InvStep, PTL DEF Spec

(* The counter stays inside the signal area, and every other type holds.      *)
THEOREM TypeCorrect == Spec => []TypeOK
<1>1. Inv => TypeOK
  BY DEF Inv
<1> QED
  BY <1>1, InvAlways, PTL

(* The interrupt never uses the SPI port while mainTask does, however long    *)
(* the measurement takes and however the wait loop was compiled.              *)
THEOREM SpiIsExclusive == Spec => []SpiExclusive
<1>1. Inv => SpiExclusive
  BY DEF Inv, PhaseInv, SpiExclusive, SpiLabels
<1> QED
  BY <1>1, InvAlways, PTL

-----------------------------------------------------------------------------
(* The memory keeps the samples until the next measurement, the words that     *)
(* houseKeeping tests excepted.                                              *)
LEMMA StoredInit == Init => StoredInv
BY DEF Init, StoredInv

(* What leaves the measurement and the memory alone, and reports nothing.       *)
LEMMA StoredKept ==
    ASSUME StoredInv, UNCHANGED <<signal, histVars>>,
           pc' = pc \/ pc' \notin {"delay", "wait", "spin", "sendSignal", "readSignal", "hkWrite"},
           point' = point \/ pc' # "readSignal"
    PROVE  StoredInv'
BY DEF StoredInv, Truthful, Held, histVars

(* One step of the proof per action. *)
LEMMA StoredStep == Inv /\ StoredInv /\ [Next]_vars => StoredInv'
<1> SUFFICES ASSUME Inv, StoredInv, [Next]_vars PROVE StoredInv'
  OBVIOUS
<1> USE SamplingAssumption DEF taskVars, acqVars, memVars, histVars, handlerVars
<1> USE DEF StoredInv, Truthful, Held, Inv
<1>1. CASE Receive
  <2> DEFINE c == Head(events)
             starts == {"processAll", "sendSignal", "houseKeeping"}
  <2>1. c \in Commands
    BY <1>1, QueueFacts DEF Receive, ReceiveKeeping, TypeOK
  <2>2. /\ Start(c) = "delay" <=> c = "processAll"
        /\ Start(c) \in {"delay", "sendSignal", "hkWrite"} => c \in starts
        /\ Start(c) \notin {"readSignal", "wait", "spin"}
    BY <2>1 DEF Start
  <2>3. /\ pc' = Start(c)
        /\ tested' = (tested /\ ~(c = "processAll"))
        /\ reported' = IF c \in starts THEN <<>> ELSE reported
        /\ taken' = IF c = "processAll" THEN <<>> ELSE taken
        /\ signal' = signal
    BY <1>1 DEF Receive, ReceiveKeeping
  <2> HIDE DEF c
  <2>4. CASE c = "processAll"
    <3>1. taken' = <<>> /\ reported' = <<>> /\ ~tested' /\ pc' = "delay"
      BY <2>2, <2>3, <2>4
    <3> QED
      BY <3>1
  <2>5. CASE c # "processAll"
    <3>1. UNCHANGED <<taken, tested, signal>>
      <4>1. taken' = taken
        BY <2>3, <2>5
      <4>2. tested' = tested
        BY <2>3, <2>5 DEF TypeOK
      <4> QED
        BY <2>3, <4>1, <4>2
    <3>2. pc' \notin {"readSignal", "delay", "wait", "spin"}
      BY <2>2, <2>3, <2>5
    <3>3. CASE c \in starts
      BY <2>3, <3>1, <3>2, <3>3
    <3>4. CASE c \notin starts
      BY <2>2, <2>3, <3>1, <3>2, <3>4
    <3> QED
      BY <3>3, <3>4
  <2> QED
    BY <2>4, <2>5
<1>2. CASE Delay
  BY <1>2 DEF Delay
<1>3. CASE Wait
  BY <1>3 DEF Wait
<1>4. CASE Decimate \/ Calculate \/ Answer \/ Settle \/ SendFFT
  <2>1. UNCHANGED <<signal, histVars, point>>
        /\ pc' \in {"calculate", "answer", "settle", "receive", "readFFT"}
    BY <1>4 DEF Decimate, Calculate, Answer, Settle, SendFFT, Proceed
  <2> QED
    BY <2>1, StoredKept
<1>5. CASE SendSignal
  BY <1>5 DEF SendSignal, Proceed
<1>6. CASE HkWrite
  <2>1. /\ signal' = [i \in Index |-> Tested(i, signal[i])]
        /\ tested' = TRUE /\ taken' = taken /\ reported' = reported
        /\ pc' = "hkSend" /\ reported = <<>>
    BY <1>6 DEF HkWrite
  <2>2. Len(taken) \in 0 .. Length /\ taken \in Seq(Samples)
    BY DEF TypeOK, CountInv
  <2>3. ASSUME NEW i \in 0 .. Len(taken) - 1
        PROVE  signal'[i] = Tested(i, taken[i + 1])
    <3>1. i \in Index /\ taken[i + 1] \in Int
      <4>1. i + 1 \in 1 .. Len(taken) /\ i \in Index
        BY <2>2 DEF Index
      <4> QED
        BY <2>2, <4>1, ElementOfSeq
    <3>2. signal'[i] = Tested(i, Held(i))
      BY <2>1, <3>1
    <3>3. CASE tested
      BY <3>1, <3>2, <3>3, TestedFacts
    <3>4. CASE ~tested
      BY <3>2, <3>4
    <3> QED
      BY <3>3, <3>4
  <2>4. \A i \in 0 .. Len(taken') - 1 : signal'[i] = Held(i)'
    BY <2>1, <2>3
  <2> QED
    BY <2>1, <2>4
<1>7. ASSUME NEW ok \in BOOLEAN, ReadSignal(ok)
      PROVE  StoredInv'
  <2> DEFINE r == [at |-> point, is |-> signal[point]]
  <2>1. /\ point \in Nat /\ point \in Index /\ point' = point + 1
        /\ pc = "readSignal" /\ pc' \in {"readSignal", "receive"}
        /\ reported' = IF ok THEN Append(reported, r) ELSE reported
        /\ signal' = signal /\ taken' = taken /\ tested' = tested
        /\ reported \in Seq(Packets)
    BY <1>7 DEF ReadSignal, ReadSignalNaming, TypeOK, PhaseInv, Index
  <2>2. r \in Packets /\ r.at = point /\ Truthful(r)
    <3>1. r.at = point /\ r.is = signal[point]
      OBVIOUS
    <3>2. r \in Packets
      BY <2>1 DEF TypeOK, Packets
    <3>3. point < Len(taken) => point \in 0 .. Len(taken) - 1
      BY <2>1 DEF TypeOK
    <3> QED
      BY <3>1, <3>2, <3>3
  <2> HIDE DEF r
  <2>3. \A i \in 1 .. Len(reported) : reported[i].at \in Index
    <3>1. \A i \in 1 .. Len(reported) : reported[i] \in Packets
      BY <2>1, ElementOfSeq
    <3> QED
      BY <3>1 DEF Packets
  <2>4. /\ \A i \in 1 .. Len(reported) : Truthful(reported[i]) /\ reported[i].at < point
        /\ \A i, j \in 1 .. Len(reported) : i < j => reported[i].at < reported[j].at
    BY <2>1
  <2>5. CASE ~ok
    BY <2>1, <2>3, <2>4, <2>5 DEF Index
  <2>6. CASE ok
    <3> DEFINE n == Len(reported)
    <3>1. /\ Len(reported') = n + 1 /\ n \in Nat
          /\ \A i \in 1 .. n : reported'[i] = reported[i]
          /\ reported'[n + 1] = r
      BY <2>1, <2>2, <2>6, AppendProperties, LenProperties
    <3>2. \A i \in 1 .. n + 1 : i = n + 1 \/ i \in 1 .. n
      BY <3>1
    <3> HIDE DEF n
    <3>3. \A i \in 1 .. n + 1 : Truthful(reported'[i]) /\ reported'[i].at < point + 1
      <4>1. ASSUME NEW i \in 1 .. n
            PROVE  Truthful(reported'[i]) /\ reported'[i].at < point + 1
        BY <2>1, <2>3, <2>4, <3>1, <4>1 DEF n, Index
      <4>2. Truthful(reported'[n + 1]) /\ reported'[n + 1].at < point + 1
        BY <2>1, <2>2, <3>1
      <4> QED
        BY <3>2, <4>1, <4>2
    <3>4. ASSUME NEW i \in 1 .. n + 1, NEW j \in 1 .. n + 1, i < j
          PROVE  reported'[i].at < reported'[j].at
      <4>1. i \in 1 .. n
        BY <3>1, <3>4
      <4>2. CASE j = n + 1
        BY <2>2, <2>4, <3>1, <4>1, <4>2 DEF n
      <4>3. CASE j \in 1 .. n
        BY <2>4, <3>1, <3>4, <4>1, <4>3 DEF n
      <4> QED
        BY <3>2, <4>2, <4>3
    <3> QED
      BY <2>1, <3>1, <3>3, <3>4
  <2> QED
    BY <2>5, <2>6
<1>8. ASSUME NEW ok \in BOOLEAN, ReadFFT(ok) \/ HkSend(ok) \/ Reply(ok)
      PROVE  StoredInv'
  <2>1. UNCHANGED <<signal, histVars>> /\ pc' \in {"readFFT", "receive"}
    BY <1>8 DEF ReadFFT, HkSend, Reply
  <2> QED
    BY <2>1, StoredKept
<1>9. ASSUME NEW v \in Samples, Sample(v)
      PROVE  StoredInv'
  <2>1. /\ sampling /\ Len(taken) = count /\ count \in Index
        /\ taken \in Seq(Samples) /\ signal \in [Index -> Int]
        /\ pc \in {"delay", "wait", "spin"} /\ reported = <<>> /\ ~tested
    BY <1>9 DEF Sample, SampleAt, CountInv, PhaseInv, TypeOK
  <2>2. /\ signal' = [signal EXCEPT ![count] = v]
        /\ taken' = Append(taken, v)
        /\ pc' = pc /\ tested' = tested /\ reported' = reported
    BY <1>9 DEF Sample, SampleAt
  <2>3. /\ Len(taken') = count + 1
        /\ \A i \in 1 .. count : taken'[i] = taken[i]
        /\ taken'[count + 1] = v
    BY <2>1, <2>2, AppendProperties
  <2>4. ASSUME NEW i \in 0 .. count
        PROVE  signal'[i] = taken'[i + 1]
    <3>1. i \in Index /\ (i = count \/ i \in 0 .. count - 1)
      BY <2>1 DEF Index
    <3>2. CASE i = count
      BY <2>1, <2>2, <2>3, <3>2
    <3>3. CASE i \in 0 .. count - 1
      <4>1. signal[i] = taken[i + 1] /\ i # count /\ i + 1 \in 1 .. count
        BY <2>1, <3>3 DEF Index
      <4> QED
        BY <2>1, <2>2, <2>3, <3>1, <4>1
    <3> QED
      BY <3>1, <3>2, <3>3
  <2>5. ~tested' /\ Len(taken') - 1 = count /\ reported' = <<>> /\ pc' \in {"delay", "wait", "spin"}
    BY <2>1, <2>2, <2>3 DEF Index
  <2> QED
    BY <2>4, <2>5
<1>10. ASSUME NEW c \in Commands, Dispatch(c)
       PROVE  StoredInv'
  BY <1>10, StoredKept DEF Dispatch
<1>11. CASE UNCHANGED vars
  BY <1>11, StoredKept DEF vars
<1> QED
  BY <1>1, <1>2, <1>3, <1>4, <1>5, <1>6, <1>7, <1>8, <1>9, <1>10, <1>11
     DEF Next, MainTask, Interrupt, CspTask, Idle

(* Whichever packets of a report fail, those that go out name ascending places *)
(* and hold the samples of the latest measurement at these places, as the test *)
(* of the memory left them if there was one in between.                       *)
THEOREM SignalReported == Spec => []ReportsRawOrTested
<1>1. TypeOK /\ StoredInv => ReportsRawOrTested
  <2> SUFFICES ASSUME TypeOK, StoredInv, Len(taken) = Length
               PROVE  ReportsRawOrTested
    BY DEF ReportsRawOrTested
  <2>1. /\ DOMAIN reported = 1 .. Len(reported)
        /\ \A i \in DOMAIN reported : reported[i].at < Length
    <3>1. DOMAIN reported = 1 .. Len(reported)
      BY LenProperties DEF TypeOK
    <3>2. \A i \in 1 .. Len(reported) : reported[i] \in Packets
      BY ElementOfSeq DEF TypeOK
    <3> QED
      BY <3>1, <3>2, SamplingAssumption DEF Packets, Index
  <2> QED
    BY <2>1 DEF ReportsRawOrTested, StoredInv, Truthful
<1>2. Inv => TypeOK
  BY DEF Inv
<1> QED
  BY <1>1, <1>2, StoredInit, StoredStep, InvAlways, PTL DEF Spec

-----------------------------------------------------------------------------
(* The measurement with the transform, butterfly by butterfly, is the         *)
(* measurement of Sampling: what is proved above of the one holds of the       *)
(* other.                                                                   *)

(* Storing the points and leaving FFT_calculate are steps of Sampling, a       *)
(* butterfly is none.                                                        *)
LEMMA SpectrumStepIsStep == [SpectrumNext]_spectrumVars => [Next]_vars
<1> SUFFICES ASSUME [SpectrumNext]_spectrumVars PROVE [Next]_vars
  OBVIOUS
<1>1. CASE Store
  BY <1>1 DEF Store, Next, MainTask
<1>2. CASE Butterfly
  BY <1>2 DEF Butterfly
<1>3. CASE Calculated
  BY <1>3 DEF Calculated, Next, MainTask
<1>4. CASE Other
  BY <1>4 DEF Other, Next
<1>5. CASE (Interrupt \/ CspTask \/ Idle) /\ UNCHANGED <<mem, loop>>
  BY <1>5 DEF Next
<1>6. CASE UNCHANGED spectrumVars
  BY <1>6 DEF spectrumVars
<1> QED
  BY <1>1, <1>2, <1>3, <1>4, <1>5, <1>6 DEF SpectrumNext, SpectrumTask

(* Every behaviour with the transform is one of the measurement. *)
THEOREM MeasurementUnchanged == SpectrumSpec => Spec
<1>1. SpectrumInit => Init
  BY DEF SpectrumInit
<1> QED
  BY <1>1, SpectrumStepIsStep, PTL DEF SpectrumSpec, Spec

(* While the transform works on the memory, too, the interrupt keeps off the   *)
(* SPI port, and what sendSignal reports is what was measured.                 *)
THEOREM TransformKeepsOff == SpectrumSpec => [](TypeOK /\ SpiExclusive /\ ReportsRawOrTested)
BY MeasurementUnchanged, TypeCorrect, SpiIsExclusive, SignalReported, PTL

-----------------------------------------------------------------------------
(* The transform itself.  Its numbers are those of the integers modulo Modulus: *)
(* the arithmetic of them, and of whole division, comes first.                 *)

(* Numbers that differ by a multiple of Modulus. *)
Congruent(a, b) == \E q \in Int : a - b = q * Modulus

(* A multiple of m that is less than m apart from zero is zero. *)
LEMMA SmallMultiple ==
    ASSUME NEW m \in Nat \ {0}, NEW q \in Int, q * m < m, -m < q * m
    PROVE  q = 0
<1>1. CASE q >= 1
  <2>1. q * m >= 1 * m
    BY <1>1
  <2> QED
    BY <2>1
<1>2. CASE q <= -1
  <2>1. q * m <= (-1) * m
    BY <1>2
  <2> QED
    BY <2>1
<1> QED
  BY <1>1, <1>2

(* Quotient and remainder, and that there are no others. *)
LEMMA DivisionParts ==
    ASSUME NEW m \in Nat \ {0}, NEW a \in Int
    PROVE  \E q \in Int, r \in 0 .. m - 1 : a = m * q + r /\ a \div m = q /\ a % m = r
<1>1. a \div m \in Int /\ a % m \in 0 .. m - 1 /\ a - m * (a \div m) = a % m
  <2>1. m \in Int /\ m > 0
    OBVIOUS
  <2> QED
    BY <2>1
<1>2. PICK q \in Int, r \in 0 .. m - 1 : q = a \div m /\ r = a % m
  BY <1>1
<1>3. a - m * q = r
  BY <1>1, <1>2
<1> QED
  BY <1>2, <1>3

LEMMA DivisionUnique ==
    ASSUME NEW m \in Nat \ {0}, NEW q \in Int, NEW r \in 0 .. m - 1,
           NEW a \in Int, a = m * q + r
    PROVE  a % m = r /\ a \div m = q
OBVIOUS

LEMMA CongruentFacts ==
    ASSUME NEW a \in Int, NEW b \in Int, NEW c \in Int
    PROVE  /\ Congruent(a, a)
           /\ Congruent(a, b) => Congruent(b, a)
           /\ Congruent(a, b) /\ Congruent(b, c) => Congruent(a, c)
           /\ Congruent(a, b) => Congruent(a * c, b * c) /\ Congruent(c * a, c * b)
           /\ Congruent(a % Modulus, a) /\ a % Modulus \in Values
           /\ Congruent(a, b) => a % Modulus = b % Modulus
<1>m. Modulus \in Nat \ {0, 1}
  BY SpectrumAssumption
<1>1. Congruent(a, a)
  <2>1. a - a = 0 * Modulus
    BY <1>m
  <2> QED
    BY <2>1 DEF Congruent
<1>2. ASSUME Congruent(a, b) PROVE Congruent(b, a)
  <2>1. PICK q \in Int : a - b = q * Modulus
    BY <1>2 DEF Congruent
  <2>2. b - a = (-q) * Modulus
    BY <2>1, <1>m
  <2> QED
    BY <2>2 DEF Congruent
<1>3. ASSUME Congruent(a, b), Congruent(b, c) PROVE Congruent(a, c)
  <2>1. PICK q \in Int : a - b = q * Modulus
    BY <1>3 DEF Congruent
  <2>2. PICK r \in Int : b - c = r * Modulus
    BY <1>3 DEF Congruent
  <2>3. a - c = (q + r) * Modulus
    BY <2>1, <2>2, <1>m
  <2> QED
    BY <2>3 DEF Congruent
<1>4. ASSUME Congruent(a, b) PROVE Congruent(a * c, b * c) /\ Congruent(c * a, c * b)
  <2>1. PICK q \in Int : a - b = q * Modulus
    BY <1>4 DEF Congruent
  <2>2. a = b + q * Modulus
    BY <2>1, <1>m
  <2>3. a * c = b * c + (q * Modulus) * c
    BY <2>2, <1>m
  <2>4. (q * Modulus) * c = (q * c) * Modulus
    BY <1>m
  <2>5. a * c - b * c = (q * c) * Modulus /\ q * c \in Int
    BY <2>3, <2>4, <1>m
  <2>6. a * c = c * a /\ b * c = c * b
    OBVIOUS
  <2> QED
    BY <2>5, <2>6 DEF Congruent
<1>5. Congruent(a % Modulus, a) /\ a % Modulus \in Values
  <2>1. PICK q \in Int, r \in Values : a = Modulus * q + r /\ a % Modulus = r
    BY <1>m, DivisionParts DEF Values
  <2>2. r - a = (-q) * Modulus /\ -q \in Int
    BY <2>1, <1>m DEF Values
  <2> QED
    BY <2>1, <2>2 DEF Congruent
<1>6. ASSUME Congruent(a, b) PROVE a % Modulus = b % Modulus
  <2>1. PICK q \in Int : a - b = q * Modulus
    BY <1>6 DEF Congruent
  <2>2. PICK p \in Int, r \in 0 .. Modulus - 1 : b = Modulus * p + r /\ b % Modulus = r
    BY <1>m, DivisionParts
  <2>3. Modulus * (p + q) = Modulus * p + q * Modulus /\ p + q \in Int
    BY <1>m
  <2>4. a = Modulus * (p + q) + r
    BY <2>1, <2>2, <2>3, <1>m
  <2>5. a % Modulus = r
    BY <2>3, <2>4, <1>m, DivisionUnique
  <2> QED
    BY <2>2, <2>5
<1> QED
  BY <1>1, <1>2, <1>3, <1>4, <1>5, <1>6

(* The same, one at a time. *)
LEMMA CongruentBack ==
    ASSUME NEW a \in Int, NEW b \in Int, Congruent(a, b)
    PROVE  Congruent(b, a)
BY CongruentFacts

LEMMA CongruentChain ==
    ASSUME NEW a \in Int, NEW b \in Int, NEW c \in Int, Congruent(a, b), Congruent(b, c)
    PROVE  Congruent(a, c)
BY CongruentFacts

LEMMA CongruentTimes ==
    ASSUME NEW a \in Int, NEW b \in Int, NEW c \in Int, Congruent(a, b)
    PROVE  Congruent(a * c, b * c) /\ Congruent(c * a, c * b)
BY CongruentFacts

LEMMA CongruentRemainder ==
    ASSUME NEW a \in Int
    PROVE  Congruent(a % Modulus, a) /\ a % Modulus \in Values
BY CongruentFacts

LEMMA CongruentSums ==
    ASSUME NEW a \in Int, NEW b \in Int, NEW c \in Int, NEW d \in Int,
           Congruent(a, b), Congruent(c, d)
    PROVE  Congruent(a + c, b + d) /\ Congruent(a - c, b - d) /\ Congruent(a * c, b * d)
<1>m. Modulus \in Nat \ {0, 1}
  BY SpectrumAssumption
<1>1. PICK q \in Int : a - b = q * Modulus
  BY DEF Congruent
<1>2. PICK r \in Int : c - d = r * Modulus
  BY DEF Congruent
<1>3. /\ (a + c) - (b + d) = (q + r) * Modulus
      /\ (a - c) - (b - d) = (q - r) * Modulus
  BY <1>1, <1>2, <1>m
<1>4. Congruent(a * c, b * c) /\ Congruent(b * c, b * d)
  BY CongruentFacts
<1>5. Congruent(a * c, b * d)
  BY <1>4, CongruentFacts
<1> QED
  BY <1>3, <1>5 DEF Congruent

-----------------------------------------------------------------------------
(* Sums, by the recursion that defines them.                                  *)

(* The sum is what the recursion leaves behind. *)
LEMMA SumBy ==
    ASSUME NEW x, NEW n \in Nat, \A i \in 0 .. n - 1 : x[i] \in Int
    PROVE  \E f \in [0 .. n -> Int] :
              f[0] = 0 /\ (\A i \in 1 .. n : f[i] = f[i - 1] + x[i - 1]) /\ Sum(x, n) = f[n]
<1> DEFINE F == [i \in 1 .. n |-> [v \in Int |-> v + x[i - 1]]]
           upTo == CHOOSE f : f = [k \in 0 .. n |-> IF k = 0 THEN 0 ELSE f[k - 1] + x[k - 1]]
<1>1. F \in [1 .. n -> [Int -> Int]]
  OBVIOUS
<1>2. PICK f \in [0 .. n -> Int] : f[0] = 0 /\ \A i \in 1 .. n : f[i] = F[i][f[i - 1]]
  <2> DEFINE Q == Int
             z == 0
  <2>1. F \in [1 .. n -> [Q -> Q]] /\ z \in Q
    BY <1>1
  <2> HIDE DEF F, Q, z
  <2>2. \E f \in [0 .. n -> Q] : f[0] = z /\ \A i \in 1 .. n : f[i] = F[i][f[i - 1]]
    BY <2>1, RecursionExists
  <2> QED
    BY <2>2 DEF Q, z
<1>3. ASSUME NEW i \in 1 .. n PROVE f[i] = f[i - 1] + x[i - 1]
  <2>1. i - 1 \in 0 .. n /\ f[i - 1] \in Int
    BY <1>2
  <2> QED
    BY <1>2, <2>1
<1>4. f = [k \in 0 .. n |-> IF k = 0 THEN 0 ELSE f[k - 1] + x[k - 1]]
  BY <1>2, <1>3
<1>5. upTo = [k \in 0 .. n |-> IF k = 0 THEN 0 ELSE upTo[k - 1] + x[k - 1]]
  BY <1>4
<1>6. Sum(x, n) = upTo[n]
  BY DEF Sum
<1> HIDE DEF upTo
<1>7. upTo[0] = 0 /\ \A i \in 1 .. n : upTo[i] = upTo[i - 1] + x[i - 1]
  BY <1>5
<1>8. upTo \in [0 .. n -> Int]
  <2> DEFINE T == {k \in Nat : k <= n => upTo[k] \in Int}
  <2>1. 0 \in T
    BY <1>7
  <2>2. ASSUME NEW k \in Nat, k \in T PROVE k + 1 \in T
    <3>1. CASE k + 1 <= n
      <4>1. upTo[k + 1] = upTo[(k + 1) - 1] + x[(k + 1) - 1]
        BY <1>7, <3>1
      <4>2. (k + 1) - 1 = k /\ k \in 0 .. n - 1
        BY <3>1
      <4>3. upTo[k] \in Int /\ x[k] \in Int
        BY <2>2, <4>2
      <4> QED
        BY <4>1, <4>2, <4>3
    <3> QED
      BY <3>1
  <2> HIDE DEF T
  <2>3. Nat \subseteq T
    BY <2>1, <2>2, SetInduction
  <2>4. \A k \in 0 .. n : upTo[k] \in Int
    BY <2>3 DEF T
  <2> QED
    BY <1>5, <2>4
<1> QED
  BY <1>6, <1>7, <1>8

(* Sums of nothing, and of one number more. *)
LEMMA SumFacts ==
    ASSUME NEW x, NEW n \in Nat, \A i \in 0 .. n - 1 : x[i] \in Int
    PROVE  /\ Sum(x, n) \in Int
           /\ n = 0 => Sum(x, n) = 0
           /\ n > 0 => Sum(x, n) = Sum(x, n - 1) + x[n - 1]
<1>1. PICK f \in [0 .. n -> Int] :
          f[0] = 0 /\ (\A i \in 1 .. n : f[i] = f[i - 1] + x[i - 1]) /\ Sum(x, n) = f[n]
  BY SumBy
<1>2. ASSUME n > 0 PROVE Sum(x, n) = Sum(x, n - 1) + x[n - 1]
  <2>1. n - 1 \in Nat /\ \A i \in 0 .. (n - 1) - 1 : x[i] \in Int
    BY <1>2
  <2>2. PICK g \in [0 .. n - 1 -> Int] :
            /\ g[0] = 0 /\ (\A i \in 1 .. n - 1 : g[i] = g[i - 1] + x[i - 1])
            /\ Sum(x, n - 1) = g[n - 1]
    BY <2>1, SumBy
  <2> DEFINE T == {k \in Nat : k <= n - 1 => f[k] = g[k]}
  <2>3. 0 \in T
    BY <1>1, <2>2
  <2>4. ASSUME NEW k \in Nat, k \in T PROVE k + 1 \in T
    <3>1. CASE k + 1 <= n - 1
      <4>1. /\ f[k + 1] = f[(k + 1) - 1] + x[(k + 1) - 1]
            /\ g[k + 1] = g[(k + 1) - 1] + x[(k + 1) - 1]
        BY <1>1, <2>2, <3>1
      <4>2. (k + 1) - 1 = k
        OBVIOUS
      <4> QED
        BY <2>4, <3>1, <4>1, <4>2
    <3> QED
      BY <3>1
  <2> HIDE DEF T
  <2>5. Nat \subseteq T
    BY <2>3, <2>4, SetInduction
  <2>6. f[n - 1] = g[n - 1]
    BY <2>1, <2>5 DEF T
  <2> QED
    BY <1>1, <1>2, <2>2, <2>6
<1> QED
  BY <1>1, <1>2

(* Summands that are congruent to multiples have a congruent sum. *)
LEMMA SumScaled ==
    ASSUME NEW x, NEW y, NEW n \in Nat, NEW c \in Int,
           \A i \in 0 .. n - 1 : x[i] \in Int /\ y[i] \in Int /\ Congruent(y[i], c * x[i])
    PROVE  Congruent(Sum(y, n), c * Sum(x, n))
<1> DEFINE T == {k \in Nat : k <= n => Congruent(Sum(y, k), c * Sum(x, k))}
<1>1. 0 \in T
  <2>1. Sum(x, 0) = 0 /\ Sum(y, 0) = 0
    BY SumFacts
  <2>2. c * 0 = 0
    OBVIOUS
  <2>3. Congruent(0, 0)
    BY CongruentFacts
  <2> QED
    BY <2>1, <2>2, <2>3
<1>2. ASSUME NEW k \in Nat, k \in T PROVE k + 1 \in T
  <2> SUFFICES ASSUME k + 1 <= n PROVE Congruent(Sum(y, k + 1), c * Sum(x, k + 1))
    OBVIOUS
  <2>1. /\ \A i \in 0 .. (k + 1) - 1 : x[i] \in Int /\ y[i] \in Int
        /\ \A i \in 0 .. k - 1 : x[i] \in Int /\ y[i] \in Int
        /\ x[k] \in Int /\ y[k] \in Int /\ Congruent(y[k], c * x[k])
    OBVIOUS
  <2>2. /\ Sum(x, k + 1) = Sum(x, k) + x[k] /\ Sum(y, k + 1) = Sum(y, k) + y[k]
        /\ Sum(x, k) \in Int /\ Sum(y, k) \in Int
    <3>1. (k + 1) - 1 = k /\ k + 1 > 0 /\ k + 1 \in Nat
      OBVIOUS
    <3>2. /\ Sum(x, k + 1) = Sum(x, (k + 1) - 1) + x[(k + 1) - 1]
          /\ Sum(y, k + 1) = Sum(y, (k + 1) - 1) + y[(k + 1) - 1]
      BY <2>1, <3>1, SumFacts
    <3>3. Sum(x, k) \in Int /\ Sum(y, k) \in Int
      BY <2>1, SumFacts
    <3> QED
      BY <3>1, <3>2, <3>3
  <2>3. Congruent(Sum(y, k), c * Sum(x, k))
    BY <1>2
  <2>4. c * (Sum(x, k) + x[k]) = c * Sum(x, k) + c * x[k]
    BY <2>1, <2>2
  <2>5. c * Sum(x, k) \in Int /\ c * x[k] \in Int
    BY <2>1, <2>2
  <2>6. Congruent(Sum(y, k) + y[k], c * Sum(x, k) + c * x[k])
    BY <2>1, <2>2, <2>3, <2>5, CongruentSums
  <2> QED
    BY <2>2, <2>4, <2>6
<1> HIDE DEF T
<1>3. Nat \subseteq T
  BY <1>1, <1>2, SetInduction
<1> QED
  BY <1>3 DEF T

(* The sum of the first numbers depends on them only. *)
LEMMA SumSame ==
    ASSUME NEW x, NEW y, NEW n \in Nat,
           \A i \in 0 .. n - 1 : x[i] \in Int /\ y[i] = x[i]
    PROVE  Sum(y, n) = Sum(x, n)
<1> DEFINE T == {k \in Nat : k <= n => Sum(y, k) = Sum(x, k)}
<1>1. 0 \in T
  BY SumFacts
<1>2. ASSUME NEW k \in Nat, k \in T PROVE k + 1 \in T
  <2> SUFFICES ASSUME k + 1 <= n PROVE Sum(y, k + 1) = Sum(x, k + 1)
    OBVIOUS
  <2>1. /\ \A i \in 0 .. (k + 1) - 1 : x[i] \in Int /\ y[i] \in Int
        /\ (k + 1) - 1 = k /\ k + 1 > 0 /\ k + 1 \in Nat /\ y[k] = x[k]
    OBVIOUS
  <2>2. /\ Sum(x, k + 1) = Sum(x, (k + 1) - 1) + x[(k + 1) - 1]
        /\ Sum(y, k + 1) = Sum(y, (k + 1) - 1) + y[(k + 1) - 1]
    BY <2>1, SumFacts
  <2> QED
    BY <1>2, <2>1, <2>2
<1> HIDE DEF T
<1>3. Nat \subseteq T
  BY <1>1, <1>2, SetInduction
<1> QED
  BY <1>3 DEF T

(* A sum is the sum of the even and of the odd summands. *)
LEMMA SumEvenOdd ==
    ASSUME NEW x, NEW u, NEW v, NEW n \in Nat,
           \A i \in 0 .. 2 * n - 1 : x[i] \in Int,
           \A i \in 0 .. n - 1 : u[i] = x[2 * i] /\ v[i] = x[2 * i + 1]
    PROVE  Sum(x, 2 * n) = Sum(u, n) + Sum(v, n)
<1> DEFINE T == {k \in Nat : k <= n => Sum(x, 2 * k) = Sum(u, k) + Sum(v, k)}
<1>1. 0 \in T
  <2>1. Sum(x, 0) = 0 /\ Sum(u, 0) = 0 /\ Sum(v, 0) = 0
    BY SumFacts
  <2>2. 2 * 0 = 0
    OBVIOUS
  <2> QED
    BY <2>1, <2>2
<1>2. ASSUME NEW k \in Nat, k \in T PROVE k + 1 \in T
  <2> SUFFICES ASSUME k + 1 <= n
               PROVE  Sum(x, 2 * (k + 1)) = Sum(u, k + 1) + Sum(v, k + 1)
    OBVIOUS
  <2>1. \A i \in 0 .. k : u[i] = x[2 * i] /\ v[i] = x[2 * i + 1] /\ u[i] \in Int /\ v[i] \in Int
    <3>1. \A i \in 0 .. k : i \in 0 .. n - 1 /\ 2 * i \in 0 .. 2 * n - 1 /\ 2 * i + 1 \in 0 .. 2 * n - 1
      OBVIOUS
    <3> QED
      BY <3>1
  <2>2. Sum(u, k + 1) = Sum(u, k) + u[k] /\ Sum(v, k + 1) = Sum(v, k) + v[k]
    <3>1. (k + 1) - 1 = k /\ k + 1 > 0 /\ k + 1 \in Nat
      OBVIOUS
    <3>2. \A i \in 0 .. (k + 1) - 1 : u[i] \in Int /\ v[i] \in Int
      BY <2>1, <3>1
    <3>3. /\ Sum(u, k + 1) = Sum(u, (k + 1) - 1) + u[(k + 1) - 1]
          /\ Sum(v, k + 1) = Sum(v, (k + 1) - 1) + v[(k + 1) - 1]
      BY <3>1, <3>2, SumFacts
    <3> QED
      BY <3>1, <3>3
  <2>3. Sum(x, 2 * k + 1) = Sum(x, 2 * k) + x[2 * k]
    <3>1. (2 * k + 1) - 1 = 2 * k /\ 2 * k + 1 > 0 /\ 2 * k + 1 \in Nat
      OBVIOUS
    <3>2. \A i \in 0 .. (2 * k + 1) - 1 : x[i] \in Int
      OBVIOUS
    <3>3. Sum(x, 2 * k + 1) = Sum(x, (2 * k + 1) - 1) + x[(2 * k + 1) - 1]
      BY <3>1, <3>2, SumFacts
    <3> QED
      BY <3>1, <3>3
  <2>4. Sum(x, 2 * k + 2) = Sum(x, 2 * k + 1) + x[2 * k + 1]
    <3>1. (2 * k + 2) - 1 = 2 * k + 1 /\ 2 * k + 2 > 0 /\ 2 * k + 2 \in Nat
      OBVIOUS
    <3>2. \A i \in 0 .. (2 * k + 2) - 1 : x[i] \in Int
      OBVIOUS
    <3>3. Sum(x, 2 * k + 2) = Sum(x, (2 * k + 2) - 1) + x[(2 * k + 2) - 1]
      BY <3>1, <3>2, SumFacts
    <3> QED
      BY <3>1, <3>3
  <2>5. /\ Sum(x, 2 * k) = Sum(u, k) + Sum(v, k)
        /\ u[k] = x[2 * k] /\ v[k] = x[2 * k + 1] /\ u[k] \in Int /\ v[k] \in Int
    BY <1>2, <2>1
  <2>6. Sum(u, k) \in Int /\ Sum(v, k) \in Int
    <3>1. \A i \in 0 .. k - 1 : u[i] \in Int /\ v[i] \in Int
      BY <2>1
    <3> QED
      BY <3>1, SumFacts
  <2>7. 2 * (k + 1) = 2 * k + 2
    OBVIOUS
  <2> QED
    BY <2>2, <2>3, <2>4, <2>5, <2>6, <2>7
<1> HIDE DEF T
<1>3. Nat \subseteq T
  BY <1>1, <1>2, SetInduction
<1> QED
  BY <1>3 DEF T

-----------------------------------------------------------------------------
(* The table of the roots of unity.                                          *)

(* The table of the roots: each is Omega times the one before. *)
LEMMA PowerIs ==
    /\ Power \in [0 .. Points -> Values]
    /\ Power[0] = 1
    /\ \A e \in 1 .. Points : Power[e] = (Power[e - 1] * Omega) % Modulus
<1> DEFINE F == [i \in 1 .. Points |-> [v \in Values |-> (v * Omega) % Modulus]]
<1>a. Points \in Nat /\ Modulus \in Nat \ {0, 1} /\ Omega \in Values
  BY SamplingAssumption, SpectrumAssumption
<1>b. \A v \in Values : (v * Omega) % Modulus \in Values
  BY <1>a, CongruentFacts DEF Values
<1>1. F \in [1 .. Points -> [Values -> Values]]
  BY <1>b
<1>2. PICK f \in [0 .. Points -> Values] :
          f[0] = 1 /\ \A i \in 1 .. Points : f[i] = F[i][f[i - 1]]
  <2>1. 1 \in Values
    BY <1>a DEF Values
  <2> DEFINE z == 1
  <2>2. z \in Values
    BY <2>1
  <2> HIDE DEF F, z
  <2>3. \E f \in [0 .. Points -> Values] : f[0] = z /\ \A i \in 1 .. Points : f[i] = F[i][f[i - 1]]
    <3>1. Points \in Nat
      BY <1>a
    <3> QED
      BY <1>1, <2>2, <3>1, RecursionExists
  <2> QED
    BY <2>3 DEF z
<1>3. ASSUME NEW i \in 1 .. Points PROVE f[i] = (f[i - 1] * Omega) % Modulus
  <2>1. i - 1 \in 0 .. Points /\ f[i - 1] \in Values
    BY <1>2, <1>a
  <2> QED
    BY <1>2, <2>1
<1>4. f = [e \in 0 .. Points |-> IF e = 0 THEN 1 ELSE (f[e - 1] * Omega) % Modulus]
  BY <1>2, <1>3, <1>a
<1>5. Power = [e \in 0 .. Points |-> IF e = 0 THEN 1 ELSE (Power[e - 1] * Omega) % Modulus]
  BY <1>4 DEF Power
<1>6. Power[0] = 1 /\ \A e \in 1 .. Points : Power[e] = (Power[e - 1] * Omega) % Modulus
  BY <1>5, <1>a
<1>7. \A e \in 0 .. Points : Power[e] \in Values
  <2> DEFINE T == {e \in Nat : e <= Points => Power[e] \in Values}
  <2>1. 0 \in T
    BY <1>6, <1>a DEF Values
  <2>2. ASSUME NEW e \in Nat, e \in T PROVE e + 1 \in T
    <3>1. CASE e + 1 <= Points
      <4>1. e + 1 \in 1 .. Points /\ (e + 1) - 1 = e /\ Power[e] \in Values
        BY <2>2, <3>1, <1>a
      <4>2. Power[e + 1] = (Power[e] * Omega) % Modulus
        BY <1>6, <4>1
      <4> QED
        BY <4>1, <4>2, <1>b
    <3> QED
      BY <3>1
  <2> HIDE DEF T
  <2>3. Nat \subseteq T
    BY <2>1, <2>2, SetInduction
  <2> QED
    BY <2>3, <1>a DEF T
<1> QED
  BY <1>5, <1>6, <1>7

(* A power of a sum is the product of the powers. *)
LEMMA PowerSum ==
    ASSUME NEW a \in 0 .. Points, NEW b \in 0 .. Points, a + b <= Points
    PROVE  Congruent(Power[a + b], Power[a] * Power[b])
<1>a. Points \in Nat /\ Modulus \in Nat \ {0, 1} /\ Omega \in Int
  BY SamplingAssumption, SpectrumAssumption DEF Values
<1>b. \A e \in 0 .. Points : Power[e] \in Int
  BY PowerIs, <1>a DEF Values
<1>c. \A e \in 1 .. Points : Congruent(Power[e], Power[e - 1] * Omega)
  <2> SUFFICES ASSUME NEW e \in 1 .. Points PROVE Congruent(Power[e], Power[e - 1] * Omega)
    OBVIOUS
  <2>1. e - 1 \in 0 .. Points
    BY <1>a
  <2>2. Power[e - 1] * Omega \in Int
    BY <2>1, <1>a, <1>b
  <2> QED
    BY <2>2, PowerIs, CongruentFacts
<1> DEFINE T == {k \in Nat : k <= b => Congruent(Power[a + k], Power[a] * Power[k])}
<1>1. 0 \in T
  <2>1. a + 0 = a /\ Power[a] * 1 = Power[a] /\ Power[a] \in Int /\ Power[0] = 1
    BY <1>a, <1>b, PowerIs
  <2>2. Congruent(Power[a], Power[a])
    BY <2>1, CongruentFacts
  <2> QED
    BY <2>1, <2>2
<1>2. ASSUME NEW k \in Nat, k \in T PROVE k + 1 \in T
  <2> SUFFICES ASSUME k + 1 <= b PROVE Congruent(Power[a + (k + 1)], Power[a] * Power[k + 1])
    OBVIOUS
  <2>1. /\ a + (k + 1) \in 1 .. Points /\ (a + (k + 1)) - 1 = a + k /\ a + k \in 0 .. Points
        /\ k + 1 \in 1 .. Points /\ (k + 1) - 1 = k /\ k \in 0 .. Points
    BY <1>a
  <2> DEFINE p == Power[a]
             q == Power[k]
             r == Power[a + k]
             s == Power[k + 1]
             t == Power[a + (k + 1)]
  <2>2. p \in Int /\ q \in Int /\ r \in Int /\ s \in Int /\ t \in Int
    BY <2>1, <1>b
  <2>3. Congruent(t, r * Omega) /\ Congruent(s, q * Omega)
    BY <2>1, <1>c
  <2>4. Congruent(r, p * q)
    BY <1>2
  <2> HIDE DEF p, q, r, s, t
  <2>5. p * q \in Int /\ q * Omega \in Int /\ r * Omega \in Int /\ p * s \in Int
        /\ (p * q) * Omega \in Int /\ p * (q * Omega) \in Int
    BY <2>2, <1>a
  <2>6. Congruent(r * Omega, (p * q) * Omega)
    BY <2>2, <2>4, <2>5, <1>a, CongruentTimes
  <2>7. Congruent(q * Omega, s)
    BY <2>2, <2>3, <2>5, CongruentBack
  <2>8. Congruent(p * (q * Omega), p * s)
    BY <2>2, <2>5, <2>7, CongruentTimes
  <2>9. (p * q) * Omega = p * (q * Omega)
    BY <2>2, <1>a
  <2>10. Congruent(t, (p * q) * Omega)
    BY <2>2, <2>3, <2>5, <2>6, CongruentChain
  <2>11. Congruent(t, p * s)
    BY <2>2, <2>5, <2>8, <2>9, <2>10, CongruentChain
  <2> QED
    BY <2>11 DEF p, s, t
<1> HIDE DEF T
<1>3. Nat \subseteq T
  BY <1>1, <1>2, SetInduction
<1>4. b \in T
  BY <1>3, <1>a
<1> QED
  BY <1>4 DEF T

(* The powers go round: Omega to the power of Points is one, of half of it    *)
(* minus one.                                                                *)
LEMMA PointsHalved ==
    Points \in Nat /\ Points > 0 /\ Points \div 2 \in 0 .. Points /\ Points \div 2 + Points \div 2 = Points
<1>1. Points \in Nat /\ Points > 1
  BY SamplingAssumption
<1>2. Points % 2 = 0
  <2> DEFINE d == Points
  <2>1. Points % Points = 0
    <3>1. Points = Points * 1 + 0 /\ 0 \in 0 .. Points - 1 /\ Points \in Nat \ {0}
      BY <1>1
    <3> QED
      BY <3>1, DivisionUnique
  <2>2. Points \in 2 .. Points
    BY <1>1
  <2> QED
    BY <2>1, <2>2, SpectrumAssumption
<1> QED
  BY <1>1, <1>2

LEMMA PowerHalf == Congruent(Power[Points \div 2], -1) /\ Congruent(Power[Points], 1)
<1>a. Modulus \in Nat \ {0, 1}
  BY SpectrumAssumption
<1>1. Congruent(Power[Points \div 2], -1)
  <2>1. (Modulus - 1) - (-1) = 1 * Modulus
    BY <1>a
  <2> QED
    BY <2>1, SpectrumAssumption DEF Congruent
<1> DEFINE h == Power[Points \div 2]
<1>2. h \in Int /\ Power[Points] \in Int
  BY PowerIs, PointsHalved, <1>a DEF Values
<1>3. Congruent(Power[Points], h * h)
  BY PointsHalved, PowerSum
<1> HIDE DEF h
<1>4. Congruent(h * h, (-1) * (-1))
  <2>1. Congruent(h, -1)
    BY <1>1 DEF h
  <2>2. -1 \in Int
    OBVIOUS
  <2> QED
    BY <1>2, <2>1, <2>2, CongruentSums
<1>5. h * h \in Int /\ (-1) * (-1) = 1
  BY <1>2
<1> QED
  BY <1>1, <1>2, <1>3, <1>4, <1>5, CongruentFacts

LEMMA PowerRound ==
    ASSUME NEW a \in 0 .. Points - 1, NEW b \in 0 .. Points - 1
    PROVE  Congruent(Power[(a + b) % Points], Power[a] * Power[b])
<1>a. Points \in Nat \ {0} /\ Modulus \in Nat \ {0, 1}
  BY SamplingAssumption, SpectrumAssumption
<1>b. \A e \in 0 .. Points : Power[e] \in Int
  BY PowerIs, <1>a DEF Values
<1>1. CASE a + b < Points
  <2>1. (a + b) % Points = a + b
    <3>1. a + b = Points * 0 + (a + b) /\ a + b \in 0 .. Points - 1
      BY <1>1, <1>a
    <3> QED
      BY <3>1, <1>a, DivisionUnique
  <2> QED
    BY <1>1, <1>a, <2>1, PowerSum
<1>2. CASE a + b >= Points
  <2> DEFINE r == a + b - Points
             s == Points - a
  <2>1. /\ r \in 0 .. Points - 1 /\ s \in 0 .. Points /\ a + s = Points
        /\ s + r = b /\ r \in 0 .. Points /\ a \in 0 .. Points /\ a + b = Points * 1 + r
    BY <1>2, <1>a
  <2> HIDE DEF r, s
  <2>2. (a + b) % Points = r
    <3>1. a + b \in Int
      OBVIOUS
    <3> QED
      BY <2>1, <3>1, <1>a, DivisionUnique
  <2>3. Congruent(Power[Points], Power[a] * Power[s])
    <3>1. a + s <= Points
      BY <2>1, <1>a
    <3> QED
      BY <2>1, <3>1, PowerSum
  <2>4. Congruent(Power[b], Power[s] * Power[r])
    <3>1. s + r <= Points
      BY <2>1, <1>a
    <3> QED
      BY <2>1, <3>1, PowerSum
  <2> DEFINE pa == Power[a]
             pb == Power[b]
             ps == Power[s]
             pr == Power[r]
             pp == Power[Points]
  <2>5. pa \in Int /\ pb \in Int /\ ps \in Int /\ pr \in Int /\ pp \in Int
    BY <2>1, <1>a, <1>b
  <2>6. Congruent(pp, pa * ps) /\ Congruent(pb, ps * pr) /\ Congruent(pp, 1)
    BY <2>3, <2>4, PowerHalf
  <2> HIDE DEF pa, pb, ps, pr, pp
  <2>7. /\ pa * ps \in Int /\ ps * pr \in Int /\ (pa * ps) * pr \in Int /\ pa * pb \in Int
        /\ pp * pr \in Int /\ 1 * pr = pr /\ (pa * ps) * pr = pa * (ps * pr) /\ 1 \in Int
    BY <2>5
  <2>8. Congruent(pa * pb, pa * (ps * pr))
    BY <2>5, <2>6, <2>7, CongruentTimes
  <2>9. Congruent(pa * ps, pp)
    BY <2>5, <2>6, <2>7, CongruentBack
  <2>10. Congruent(pa * ps, 1)
    BY <2>5, <2>6, <2>7, <2>9, CongruentChain
  <2>11. Congruent((pa * ps) * pr, 1 * pr)
    <3> DEFINE x == pa * ps
    <3>1. x \in Int /\ 1 \in Int /\ Congruent(x, 1)
      BY <2>7, <2>10
    <3> HIDE DEF x
    <3>2. Congruent(x * pr, 1 * pr)
      BY <2>5, <3>1, CongruentTimes
    <3> QED
      BY <3>2 DEF x
  <2>12. Congruent(pa * pb, pr)
    BY <2>5, <2>7, <2>8, <2>11, CongruentChain
  <2>13. Congruent(pr, pa * pb)
    BY <2>5, <2>7, <2>12, CongruentBack
  <2> QED
    BY <2>2, <2>13 DEF pa, pb, pr
<1> QED
  BY <1>1, <1>2, <1>a

(* Remainders of sums. *)
LEMMA RemainderFacts ==
    ASSUME NEW a \in Nat, NEW b \in Nat
    PROVE  /\ a % Points \in 0 .. Points - 1
           /\ (a + b) % Points = ((a % Points) + b) % Points
           /\ (a + b * Points) % Points = a % Points
<1>a. Points \in Nat \ {0}
  BY SamplingAssumption
<1>1. PICK q \in Int, r \in 0 .. Points - 1 : a = Points * q + r /\ a % Points = r
  <2>1. a \in Int
    OBVIOUS
  <2>2. \E q \in Int, r \in 0 .. Points - 1 :
            a = Points * q + r /\ a \div Points = q /\ a % Points = r
    BY <1>a, <2>1, DivisionParts
  <2> QED
    BY <2>2
<1>2. (a + b) % Points = (r + b) % Points
  <2>1. PICK p \in Int, s \in 0 .. Points - 1 : r + b = Points * p + s /\ (r + b) % Points = s
    <3>1. r + b \in Int
      BY <1>a
    <3> QED
      BY <1>a, <3>1, DivisionParts
  <2>2. Points * (q + p) = Points * q + Points * p /\ q + p \in Int
    BY <1>a
  <2>3. a + b = Points * (q + p) + s /\ a + b \in Int
    BY <1>1, <2>1, <2>2, <1>a
  <2>4. (a + b) % Points = s
    <3> DEFINE c == a + b
               t == q + p
    <3>1. c \in Int /\ t \in Int /\ c = Points * t + s
      BY <2>2, <2>3
    <3> HIDE DEF c, t
    <3>2. c % Points = s
      BY <3>1, <1>a, DivisionUnique
    <3> QED
      BY <3>2 DEF c
  <2> QED
    BY <2>1, <2>4
<1>3. (a + b * Points) % Points = r
  <2>1. Points * (q + b) = Points * q + b * Points /\ q + b \in Int /\ b * Points \in Int
    BY <1>a
  <2>2. a + b * Points = Points * (q + b) + r /\ a + b * Points \in Int
    BY <1>1, <2>1, <1>a
  <2> DEFINE c == a + b * Points
             t == q + b
  <2>3. c \in Int /\ t \in Int /\ c = Points * t + r
    BY <2>1, <2>2
  <2> HIDE DEF c, t
  <2>4. c % Points = r
    BY <2>3, <1>a, DivisionUnique
  <2> QED
    BY <2>4 DEF c
<1> QED
  BY <1>1, <1>2, <1>3

LEMMA PowerAround ==
    ASSUME NEW a \in Nat, NEW b \in 0 .. Points - 1
    PROVE  Congruent(Power[(a + b) % Points], Power[a % Points] * Power[b])
<1>1. b \in Nat
  BY SamplingAssumption
<1>2. a % Points \in 0 .. Points - 1 /\ (a + b) % Points = ((a % Points) + b) % Points
  BY <1>1, RemainderFacts
<1> QED
  BY <1>2, PowerRound

-----------------------------------------------------------------------------
(* The table of the bit-reversed numbers.                                    *)

(* Half of an even number of points. *)
LEMMA BitRevStep ==
    ASSUME NEW a \in PointNrs, NEW i \in Nat
    PROVE  a \div 2 + (i % 2) * (Points \div 2) \in PointNrs
<1>1. Points \div 2 \in Nat /\ Points = 2 * (Points \div 2) /\ Points > 0
  BY PointsHalved
<1>2. i % 2 \in {0, 1} /\ a \div 2 \in Nat /\ 2 * (a \div 2) <= a
  BY DEF PointNrs
<1>3. a \div 2 <= Points \div 2 - 1
  BY <1>1, <1>2 DEF PointNrs
<1>4. CASE i % 2 = 0
  BY <1>1, <1>2, <1>3, <1>4 DEF PointNrs
<1>5. CASE i % 2 = 1
  BY <1>1, <1>2, <1>3, <1>5 DEF PointNrs
<1> QED
  BY <1>2, <1>4, <1>5

(* The table of the bit-reversed numbers obeys its definition. *)
LEMMA BitRevIs ==
    /\ BitRev \in [PointNrs -> PointNrs]
    /\ BitRev[0] = 0
    /\ \A i \in PointNrs : i # 0 =>
          BitRev[i] = BitRev[i \div 2] \div 2 + (i % 2) * (Points \div 2)
<1>a. Points \in Nat /\ Points > 0
  BY PointsHalved
<1>b. \A i \in PointNrs : i # 0 => i \div 2 \in 0 .. i - 1
  BY DEF PointNrs
<1> DEFINE Value(f, i) == IF i = 0 THEN 0 ELSE f[i \div 2] \div 2 + (i % 2) * (Points \div 2)
           T == {n \in Nat : n <= Points =>
                    \E f \in [0 .. n - 1 -> PointNrs] : \A i \in 0 .. n - 1 : f[i] = Value(f, i)}
<1>1. 0 \in T
  <2>1. 0 .. 0 - 1 = {}
    OBVIOUS
  <2>2. [i \in {} |-> 0] \in [{} -> PointNrs]
    OBVIOUS
  <2> QED
    BY <2>1, <2>2
<1>2. ASSUME NEW n \in Nat, n \in T PROVE n + 1 \in T
  <2> SUFFICES ASSUME n + 1 <= Points
               PROVE  \E f \in [0 .. (n + 1) - 1 -> PointNrs] :
                          \A i \in 0 .. (n + 1) - 1 : f[i] = Value(f, i)
    OBVIOUS
  <2>0. n <= Points
    BY <1>a
  <2>1. PICK f \in [0 .. n - 1 -> PointNrs] : \A i \in 0 .. n - 1 : f[i] = Value(f, i)
    <3> HIDE DEF Value
    <3> QED
      BY <1>2, <2>0
  <2> DEFINE g == [i \in 0 .. n |-> IF i < n THEN f[i] ELSE Value(f, n)]
  <2>2. Value(f, n) \in PointNrs
    <3>1. CASE n = 0
      BY <3>1, <1>a DEF PointNrs
    <3>2. CASE n # 0
      <4>1. n \in PointNrs
        BY <1>a DEF PointNrs
      <4>2. n \div 2 \in 0 .. n - 1
        BY <1>b, <3>2, <4>1
      <4>3. f[n \div 2] \in PointNrs
        BY <2>1, <4>2
      <4> QED
        BY <3>2, <4>3, BitRevStep
    <3> QED
      BY <3>1, <3>2
  <2>3. g \in [0 .. n -> PointNrs]
    BY <2>1, <2>2
  <2>4. \A i \in 0 .. n - 1 : g[i] = f[i]
    OBVIOUS
  <2>5. g[n] = Value(f, n)
    OBVIOUS
  <2> HIDE DEF g
  <2>6. ASSUME NEW i \in 0 .. n PROVE g[i] = Value(g, i)
    <3>1. i \in PointNrs
      BY <1>a DEF PointNrs
    <3>2. g[i] = Value(f, i)
      <4>1. CASE i = n
        BY <2>5, <4>1
      <4>2. CASE i \in 0 .. n - 1
        BY <2>1, <2>4, <4>2
      <4> QED
        BY <4>1, <4>2
    <3>3. CASE i = 0
      BY <3>2, <3>3
    <3>4. CASE i # 0
      <4>1. i \div 2 \in 0 .. n - 1
        BY <1>b, <3>1, <3>4
      <4>2. g[i \div 2] = f[i \div 2]
        BY <2>4, <4>1
      <4> QED
        BY <3>2, <3>4, <4>2
    <3> QED
      BY <3>3, <3>4
  <2>7. (n + 1) - 1 = n
    OBVIOUS
  <2> QED
    BY <2>3, <2>6, <2>7
<1> HIDE DEF T
<1>3. Nat \subseteq T
  BY <1>1, <1>2, SetInduction
<1>4. PICK f \in [PointNrs -> PointNrs] : \A i \in PointNrs : f[i] = Value(f, i)
  <2>1. Points \in T
    BY <1>3, <1>a
  <2> HIDE DEF Value
  <2>2. \E f \in [0 .. Points - 1 -> PointNrs] : \A i \in 0 .. Points - 1 : f[i] = Value(f, i)
    BY <2>1, <1>a DEF T
  <2> QED
    BY <2>2 DEF PointNrs
<1>5. f = [i \in PointNrs |-> Value(f, i)]
  BY <1>4
<1>6. BitRev = [i \in PointNrs |-> Value(BitRev, i)]
  BY <1>5 DEF BitRev
<1>7. \A i \in PointNrs : BitRev[i] = Value(BitRev, i)
  BY <1>6
<1>8. \A i \in PointNrs : BitRev[i] \in PointNrs
  <2> DEFINE U == {i \in PointNrs : BitRev[i] \notin PointNrs}
  <2> SUFFICES ASSUME U # {} PROVE FALSE
    OBVIOUS
  <2>1. U \subseteq Nat
    BY DEF PointNrs
  <2>2. PICK i \in U : \A j \in U : i <= j
    BY <2>1, LeastNumber
  <2>3. i # 0
    BY <1>7, <1>a DEF PointNrs
  <2>4. i \div 2 \in 0 .. i - 1
    BY <1>b, <2>3
  <2>5. i \div 2 \in PointNrs /\ i \div 2 \notin U
    <3>1. i \in PointNrs /\ i \in Nat
      BY <2>1
    <3>2. i \div 2 \in PointNrs /\ i \div 2 < i
      BY <2>4, <3>1, <1>a DEF PointNrs
    <3> HIDE DEF U
    <3>3. i \div 2 \in Int /\ ~(i <= i \div 2)
      BY <3>1, <3>2
    <3> QED
      BY <2>2, <3>2, <3>3
  <2>6. BitRev[i \div 2] \in PointNrs /\ i \in Nat
    BY <2>1, <2>5
  <2> QED
    BY <1>7, <2>3, <2>6, BitRevStep
<1>9. 0 \in PointNrs
  BY <1>a DEF PointNrs
<1>10. BitRev \in [PointNrs -> PointNrs]
  <2> HIDE DEF Value
  <2> QED
    BY <1>6, <1>8
<1> QED
  BY <1>7, <1>9, <1>10

(* Of an even number, and of its successor. *)
LEMMA BitRevDouble ==
    ASSUME NEW i \in Nat
    PROVE  /\ 2 * i < Points => BitRev[2 * i] = BitRev[i] \div 2
           /\ 2 * i + 1 < Points => BitRev[2 * i + 1] = BitRev[i] \div 2 + Points \div 2
<1>a. Points \in Nat /\ Points > 0 /\ Points \div 2 \in Nat
  BY PointsHalved
<1>1. (2 * i) \div 2 = i /\ (2 * i) % 2 = 0 /\ (2 * i + 1) \div 2 = i /\ (2 * i + 1) % 2 = 1
  OBVIOUS
<1>2. ASSUME 2 * i < Points PROVE BitRev[2 * i] = BitRev[i] \div 2
  <2>1. 2 * i \in PointNrs /\ i \in PointNrs
    BY <1>2, <1>a DEF PointNrs
  <2>2. BitRev[i] \div 2 \in Int
    BY <2>1, BitRevIs DEF PointNrs
  <2>3. CASE i = 0
    BY <2>3, BitRevIs
  <2>4. CASE i # 0
    <3>1. BitRev[2 * i] = BitRev[i] \div 2 + 0 * (Points \div 2)
      BY <1>1, <2>1, <2>4, BitRevIs
    <3> QED
      BY <2>2, <3>1, <1>a
  <2> QED
    BY <2>3, <2>4
<1>3. ASSUME 2 * i + 1 < Points PROVE BitRev[2 * i + 1] = BitRev[i] \div 2 + Points \div 2
  <2>1. 2 * i + 1 \in PointNrs /\ 2 * i + 1 # 0
    BY <1>3, <1>a DEF PointNrs
  <2>2. BitRev[2 * i + 1] = BitRev[i] \div 2 + 1 * (Points \div 2)
    BY <1>1, <2>1, BitRevIs
  <2> QED
    BY <2>2, <1>a
<1> QED
  BY <1>2, <1>3

(* The c-th point at a distance of n, of d such points. *)
LEMMA BlockBound ==
    ASSUME NEW n \in Nat \ {0}, NEW d \in Nat \ {0}, n * d = Points,
           NEW c \in 0 .. d - 1, NEW i \in 0 .. n - 1
    PROVE  c * n + i \in PointNrs /\ c * n \in PointNrs
<1>1. (d - 1 - c) * n >= 0
  OBVIOUS
<1>2. (d - 1 - c) * n = n * d - n - c * n
  OBVIOUS
<1>3. c * n >= 0 /\ c * n \in Int
  OBVIOUS
<1> QED
  BY <1>1, <1>2, <1>3 DEF PointNrs

(* Where the blocks of n points begin, the bit-reversed number is small; and  *)
(* those of two neighbours are half of the distance d apart.                  *)
Starts(n, d) ==
    /\ \A c \in 0 .. d - 1 : BitRev[c * n] \in 0 .. d - 1
    /\ \A e \in Nat : d = 2 * e =>
          \A c \in 0 .. e - 1 : BitRev[(2 * c + 1) * n] = BitRev[(2 * c) * n] + e

LEMMA StartsOne == Starts(1, Points)
<1>a. Points \in Nat /\ Points > 0
  BY PointsHalved
<1>1. ASSUME NEW c \in 0 .. Points - 1 PROVE BitRev[c * 1] \in 0 .. Points - 1
  BY BitRevIs DEF PointNrs
<1>2. ASSUME NEW e \in Nat, Points = 2 * e, NEW c \in 0 .. e - 1
      PROVE  BitRev[(2 * c + 1) * 1] = BitRev[(2 * c) * 1] + e
  <2>1. Points \div 2 = e /\ c \in Nat /\ 2 * c + 1 < Points /\ 2 * c < Points
    BY <1>2
  <2>2. (2 * c + 1) * 1 = 2 * c + 1 /\ (2 * c) * 1 = 2 * c
    BY <2>1
  <2>3. BitRev[2 * c] = BitRev[c] \div 2 /\ BitRev[2 * c + 1] = BitRev[c] \div 2 + e
    BY <2>1, BitRevDouble
  <2> QED
    BY <2>2, <2>3
<1> QED
  BY <1>1, <1>2 DEF Starts

LEMMA StartsDouble ==
    ASSUME NEW n \in Nat \ {0}, NEW d \in Nat \ {0}, n * (2 * d) = Points, Starts(n, 2 * d)
    PROVE  Starts(2 * n, d)
<1>a. 2 * d \in Nat \ {0} /\ Points \in Nat
  BY PointsHalved
<1>b. \A c \in 0 .. d - 1 : c \in 0 .. 2 * d - 1
  OBVIOUS
<1>1. ASSUME NEW c \in 0 .. d - 1
      PROVE  /\ c * (2 * n) < Points /\ BitRev[c * n] \in 0 .. 2 * d - 1
             /\ BitRev[c * (2 * n)] = BitRev[c * n] \div 2
  <2>1. (2 * n) * d = Points /\ 2 * n \in Nat \ {0} /\ 0 \in 0 .. 2 * n - 1
    OBVIOUS
  <2>2. c * (2 * n) \in PointNrs
    BY <2>1, BlockBound
  <2>3. c * (2 * n) = 2 * (c * n) /\ c * n \in Nat
    OBVIOUS
  <2>4. 2 * (c * n) < Points
    BY <2>2, <2>3, <1>a DEF PointNrs
  <2>5. BitRev[2 * (c * n)] = BitRev[c * n] \div 2
    BY <2>3, <2>4, BitRevDouble
  <2>6. BitRev[c * n] \in 0 .. 2 * d - 1
    BY <1>b DEF Starts
  <2> QED
    BY <2>3, <2>4, <2>5, <2>6
<1>2. \A c \in 0 .. d - 1 : BitRev[c * (2 * n)] \in 0 .. d - 1
  BY <1>1
<1>3. ASSUME NEW e \in Nat, d = 2 * e, NEW c \in 0 .. e - 1
      PROVE  BitRev[(2 * c + 1) * (2 * n)] = BitRev[(2 * c) * (2 * n)] + e
  <2>1. 2 * c + 1 \in 0 .. d - 1 /\ 2 * c \in 0 .. d - 1 /\ c \in 0 .. d - 1
    BY <1>3
  <2>2. BitRev[(2 * c + 1) * n] = BitRev[(2 * c) * n] + d
    BY <2>1, <1>3 DEF Starts
  <2> DEFINE a == BitRev[(2 * c) * n]
             b == BitRev[(2 * c + 1) * n]
  <2>3. a \in Int /\ b = a + 2 * e
    BY <1>1, <1>3, <2>1, <2>2
  <2>4. BitRev[(2 * c + 1) * (2 * n)] = b \div 2 /\ BitRev[(2 * c) * (2 * n)] = a \div 2
    BY <1>1, <2>1
  <2> HIDE DEF a, b
  <2>5. b \div 2 = a \div 2 + e
    BY <2>3
  <2> QED
    BY <2>4, <2>5
<1> QED
  BY <1>2, <1>3 DEF Starts

-----------------------------------------------------------------------------
(* The step of Cooley and Tukey: a butterfly makes two points of a transform   *)
(* of 2 * n numbers from one point each of the transforms of the numbers at even  *)
(* places and of those at odd ones.                                           *)

(* The i-th frequency of n numbers, before it is reduced.                     *)
Frequency(x, n, d, i) == Sum([j \in 0 .. n - 1 |-> x[j] * Power[(i * j * d) % Points]], n)

(* Each summand, and the sum, is a number. *)
LEMMA FrequencyType ==
    ASSUME NEW x, NEW n \in Nat, NEW d \in Nat, NEW i \in Nat,
           \A j \in 0 .. n - 1 : x[j] \in Int
    PROVE  /\ \A j \in 0 .. n - 1 : /\ (i * j * d) % Points \in 0 .. Points - 1
                                    /\ x[j] * Power[(i * j * d) % Points] \in Int
           /\ Frequency(x, n, d, i) \in Int
<1>a. Points \in Nat /\ Modulus \in Nat
  BY SpectrumAssumption, PointsHalved
<1>1. ASSUME NEW j \in 0 .. n - 1
      PROVE  /\ (i * j * d) % Points \in 0 .. Points - 1
             /\ x[j] * Power[(i * j * d) % Points] \in Int
  <2>1. i * j * d \in Nat
    OBVIOUS
  <2>2. (i * j * d) % Points \in 0 .. Points - 1
    BY <2>1, RemainderFacts
  <2>3. (i * j * d) % Points \in 0 .. Points
    BY <2>2, <1>a
  <2>4. Power[(i * j * d) % Points] \in Int
    BY <2>3, PowerIs DEF Values
  <2> QED
    BY <2>2, <2>4
<1> DEFINE z == [j \in 0 .. n - 1 |-> x[j] * Power[(i * j * d) % Points]]
<1>2. \A j \in 0 .. n - 1 : z[j] \in Int
  BY <1>1
<1> HIDE DEF z
<1>3. Sum(z, n) \in Int
  BY <1>2, SumFacts
<1> QED
  BY <1>1, <1>3 DEF Frequency, z

(* A frequency of 2 * n numbers is one of the even ones and c times that of    *)
(* the odd ones, if the roots of unity are so related.                        *)
LEMMA Halves ==
    ASSUME NEW n \in Nat \ {0}, NEW d \in Nat \ {0}, NEW x, NEW u, NEW v,
           \A j \in 0 .. 2 * n - 1 : x[j] \in Int,
           \A j \in 0 .. n - 1 : u[j] = x[2 * j] /\ v[j] = x[2 * j + 1],
           NEW i \in Nat, NEW k \in Nat, NEW c \in Int,
           \A j \in 0 .. n - 1 :
               /\ (k * (2 * j) * d) % Points = (i * j * (2 * d)) % Points
               /\ Congruent(Power[(k * (2 * j + 1) * d) % Points],
                            c * Power[(i * j * (2 * d)) % Points])
    PROVE  Congruent(Frequency(x, 2 * n, d, k),
                     Frequency(u, n, 2 * d, i) + c * Frequency(v, n, 2 * d, i))
<1>a. 2 * n \in Nat /\ 2 * d \in Nat /\ Points \in Nat /\ Modulus \in Nat
  BY SpectrumAssumption, PointsHalved
<1>b. \A j \in 0 .. n - 1 : /\ 2 * j \in 0 .. 2 * n - 1 /\ 2 * j + 1 \in 0 .. 2 * n - 1
                            /\ u[j] \in Int /\ v[j] \in Int
  <2>1. \A j \in 0 .. n - 1 : 2 * j \in 0 .. 2 * n - 1 /\ 2 * j + 1 \in 0 .. 2 * n - 1
    OBVIOUS
  <2> QED
    BY <2>1
<1> DEFINE z == [j \in 0 .. 2 * n - 1 |-> x[j] * Power[(k * j * d) % Points]]
           zu == [j \in 0 .. n - 1 |-> z[2 * j]]
           zv == [j \in 0 .. n - 1 |-> z[2 * j + 1]]
           fu == [j \in 0 .. n - 1 |-> u[j] * Power[(i * j * (2 * d)) % Points]]
           fv == [j \in 0 .. n - 1 |-> v[j] * Power[(i * j * (2 * d)) % Points]]
<1>1. /\ \A j \in 0 .. 2 * n - 1 : z[j] \in Int
      /\ \A j \in 0 .. n - 1 : fu[j] \in Int /\ fv[j] \in Int
      /\ Frequency(x, 2 * n, d, k) = Sum(z, 2 * n)
      /\ Frequency(u, n, 2 * d, i) = Sum(fu, n)
      /\ Frequency(v, n, 2 * d, i) = Sum(fv, n)
  <2>1. \A j \in 0 .. 2 * n - 1 : x[j] * Power[(k * j * d) % Points] \in Int
    BY <1>a, FrequencyType
  <2>2. \A j \in 0 .. n - 1 : u[j] * Power[(i * j * (2 * d)) % Points] \in Int
    BY <1>a, <1>b, FrequencyType
  <2>3. \A j \in 0 .. n - 1 : v[j] * Power[(i * j * (2 * d)) % Points] \in Int
    BY <1>a, <1>b, FrequencyType
  <2> QED
    BY <2>1, <2>2, <2>3 DEF Frequency
<1>2. \A j \in 0 .. n - 1 : zu[j] = fu[j]
  BY <1>b
<1>3. ASSUME NEW j \in 0 .. n - 1 PROVE Congruent(zv[j], c * fv[j]) /\ zv[j] \in Int
  <2> DEFINE p == Power[(k * (2 * j + 1) * d) % Points]
             q == Power[(i * j * (2 * d)) % Points]
             w == v[j]
  <2>1. zv[j] = w * p /\ fv[j] = w * q
    BY <1>b
  <2>2. w \in Int /\ p \in Int /\ q \in Int
    <3>1. \A m \in Nat : Power[m % Points] \in Int
      <4>1. \A m \in Nat : m % Points \in 0 .. Points
        BY RemainderFacts, <1>a
      <4> QED
        BY <4>1, <1>a, PowerIs DEF Values
    <3>2. k * (2 * j + 1) * d \in Nat /\ i * j * (2 * d) \in Nat
      OBVIOUS
    <3> QED
      BY <1>b, <3>1, <3>2
  <2>3. Congruent(p, c * q)
    OBVIOUS
  <2> HIDE DEF p, q, w, zv, fv
  <2>4. c * q \in Int /\ w * (c * q) = c * (w * q) /\ w * p \in Int
    BY <2>2
  <2>5. Congruent(w * p, w * (c * q))
    BY <2>2, <2>3, <2>4, CongruentTimes
  <2> QED
    BY <2>1, <2>4, <2>5
<1>4. \A j \in 0 .. n - 1 : zu[j] = z[2 * j] /\ zv[j] = z[2 * j + 1]
  OBVIOUS
<1> HIDE DEF z, zu, zv, fu, fv
<1>5. Sum(z, 2 * n) = Sum(zu, n) + Sum(zv, n)
  BY <1>1, <1>4, SumEvenOdd
<1>6. Sum(zu, n) = Sum(fu, n)
  BY <1>1, <1>2, SumSame
<1>7. Congruent(Sum(zv, n), c * Sum(fv, n))
  BY <1>1, <1>3, SumScaled
<1>8. Sum(fu, n) \in Int /\ Sum(fv, n) \in Int /\ Sum(zv, n) \in Int
  BY <1>1, <1>3, SumFacts
<1>9. Congruent(Sum(fu, n) + Sum(zv, n), Sum(fu, n) + c * Sum(fv, n))
  <2> DEFINE a == Sum(fu, n)
             b == Sum(zv, n)
             e == Sum(fv, n)
  <2>1. a \in Int /\ b \in Int /\ e \in Int /\ Congruent(b, c * e)
    BY <1>7, <1>8
  <2> HIDE DEF a, b, e
  <2>2. c * e \in Int /\ Congruent(a, a)
    BY <2>1, CongruentFacts
  <2>3. Congruent(a + b, a + c * e)
    BY <2>1, <2>2, CongruentSums
  <2> QED
    BY <2>3 DEF a, b, e
<1> QED
  BY <1>1, <1>5, <1>6, <1>9

(* The butterfly: the two frequencies it writes are those of twice as many     *)
(* numbers.                                                                  *)
LEMMA ButterflyIsRight ==
    ASSUME NEW n \in Nat \ {0}, NEW d \in Nat \ {0}, n * (2 * d) = Points,
           NEW x, NEW u, NEW v,
           \A j \in 0 .. 2 * n - 1 : x[j] \in Int,
           \A j \in 0 .. n - 1 : u[j] = x[2 * j] /\ v[j] = x[2 * j + 1],
           NEW i \in 0 .. n - 1
    PROVE  LET C == Frequency(v, n, 2 * d, i) * Power[i * d]
           IN  /\ Congruent(Frequency(x, 2 * n, d, i), Frequency(u, n, 2 * d, i) + C)
               /\ Congruent(Frequency(x, 2 * n, d, i + n), Frequency(u, n, 2 * d, i) - C)
<1> DEFINE h == Points \div 2
<1>a. /\ Points \in Nat /\ Points > 0 /\ h = n * d /\ h \in 0 .. Points - 1 /\ h \in 0 .. Points
      /\ Modulus \in Nat /\ i \in Nat
  <2>1. n * (2 * d) = 2 * (n * d) /\ n * d \in Nat
    OBVIOUS
  <2>2. Points = h + h /\ Points > 0 /\ Points \in Nat /\ h \in 0 .. Points
    BY PointsHalved
  <2> DEFINE nd == n * d
  <2>3. nd \in Nat /\ Points = 2 * nd
    BY <2>1
  <2> HIDE DEF nd
  <2>4. h = nd
    BY <2>2, <2>3
  <2> QED
    BY <2>2, <2>3, <2>4, SpectrumAssumption DEF nd
<1>b. i * d \in 0 .. Points - 1 /\ i * d \in 0 .. Points /\ i * d \in Nat
  <2>1. i * d >= 0 /\ (n - i) * d > 0 /\ n * d > 0 /\ i * d \in Int
    OBVIOUS
  <2>2. n * (2 * d) = n * d + (n - i) * d + i * d
    OBVIOUS
  <2> QED
    BY <2>1, <2>2
<1> DEFINE w == Power[i * d]
<1>c. w \in Int /\ -w \in Int /\ \A m \in Nat : Power[m % Points] \in Int /\ m % Points \in 0 .. Points - 1
  <2>1. \A m \in Nat : m % Points \in 0 .. Points - 1
    BY RemainderFacts
  <2>2. \A m \in Nat : m % Points \in 0 .. Points
    BY <2>1, <1>a
  <2> QED
    BY <1>a, <1>b, <2>1, <2>2, PowerIs DEF Values
<1>1. ASSUME NEW j \in 0 .. n - 1
      PROVE  /\ (i * (2 * j) * d) % Points = (i * j * (2 * d)) % Points
             /\ Congruent(Power[(i * (2 * j + 1) * d) % Points],
                          w * Power[(i * j * (2 * d)) % Points])
             /\ ((i + n) * (2 * j) * d) % Points = (i * j * (2 * d)) % Points
             /\ Congruent(Power[((i + n) * (2 * j + 1) * d) % Points],
                          (-w) * Power[(i * j * (2 * d)) % Points])
  <2> DEFINE a == i * j * (2 * d)
             b == i * d
             p == Power[a % Points]
  <2>1. a \in Nat /\ b \in Nat /\ a + b \in Nat /\ j \in Nat /\ p \in Int
    <3>1. a \in Nat /\ b \in Nat /\ j \in Nat
      BY <1>a, <1>b
    <3> HIDE DEF a, b
    <3>2. a + b \in Nat /\ p \in Int
      BY <3>1, <1>c
    <3> QED
      BY <3>1, <3>2
  <2>2. i * (2 * j) * d = a
    OBVIOUS
  <2>3. i * (2 * j + 1) * d = a + b
    OBVIOUS
  <2>4. (i + n) * (2 * j) * d = a + j * Points
    <3>1. (i + n) * (2 * j) * d = i * (2 * j) * d + j * (n * (2 * d))
      OBVIOUS
    <3> QED
      BY <3>1, <2>2
  <2>5. (i + n) * (2 * j + 1) * d = (a + b + h) + j * Points
    <3>1. (i + n) * (2 * j + 1) * d = i * (2 * j + 1) * d + n * d + j * (n * (2 * d))
      OBVIOUS
    <3>2. (i + n) * (2 * j + 1) * d = (a + b) + h + j * Points
      BY <3>1, <2>3, <1>a
    <3> QED
      BY <3>2
  <2>6. Congruent(Power[(a + b) % Points], p * w)
    <3> HIDE DEF a
    <3> QED
      BY <2>1, <1>b, PowerAround
  <2>7. Congruent(Power[(a + b + h) % Points], Power[(a + b) % Points] * Power[h])
    <3> HIDE DEF a, b, h
    <3> QED
      BY <2>1, <1>a, PowerAround
  <2>8. Congruent(Power[h], -1) /\ Power[h] \in Int
    BY PowerHalf, PowerIs, <1>a DEF Values
  <2> DEFINE q == Power[(a + b) % Points]
             r == Power[(a + b + h) % Points]
             s == Power[h]
  <2>9. q \in Int /\ r \in Int /\ s \in Int
    <3>1. a + b + h \in Nat
      BY <2>1, <1>a
    <3> QED
      BY <2>1, <2>8, <3>1, <1>c
  <2>10. Congruent(q, w * p)
    <3>1. p * w = w * p
      BY <2>1, <1>c
    <3> QED
      BY <2>6, <3>1
  <2>11. Congruent(r, (-w) * p)
    <3>1. Congruent(r, q * s) /\ Congruent(s, -1)
      BY <2>7, <2>8
    <3> HIDE DEF w, p, q, r, s
    <3>2. q * s \in Int /\ w * p \in Int /\ -1 \in Int /\ (w * p) * (-1) = (-w) * p
          /\ (w * p) * (-1) \in Int
      BY <2>1, <2>9, <1>c
    <3>3. Congruent(q * s, (w * p) * (-1))
      BY <2>9, <2>10, <3>1, <3>2, CongruentSums
    <3>4. Congruent(r, (w * p) * (-1))
      BY <2>9, <3>1, <3>2, <3>3, CongruentFacts
    <3> QED
      BY <3>2, <3>4
  <2>12. /\ (a + j * Points) % Points = a % Points
         /\ ((a + b + h) + j * Points) % Points = (a + b + h) % Points
    <3> DEFINE e == a + b + h
    <3>1. a \in Nat /\ e \in Nat /\ j \in Nat
      BY <2>1, <1>a
    <3> HIDE DEF a, e
    <3>2. (a + j * Points) % Points = a % Points /\ (e + j * Points) % Points = e % Points
      BY <3>1, RemainderFacts
    <3> QED
      BY <3>2 DEF e
  <2> QED
    BY <2>2, <2>3, <2>4, <2>5, <2>10, <2>11, <2>12
<1> DEFINE U == Frequency(u, n, 2 * d, i)
           V == Frequency(v, n, 2 * d, i)
<1>2. U \in Int /\ V \in Int
  <2>1. \A j \in 0 .. n - 1 : u[j] \in Int /\ v[j] \in Int
    <3>1. \A j \in 0 .. n - 1 : 2 * j \in 0 .. 2 * n - 1 /\ 2 * j + 1 \in 0 .. 2 * n - 1
      OBVIOUS
    <3> QED
      BY <3>1
  <2>2. 2 * d \in Nat
    OBVIOUS
  <2> QED
    BY <2>1, <2>2, <1>a, FrequencyType
<1>3. Congruent(Frequency(x, 2 * n, d, i), U + w * V)
  <2> HIDE DEF w
  <2> QED
    BY <1>1, <1>a, <1>c, Halves
<1>4. Congruent(Frequency(x, 2 * n, d, i + n), U + (-w) * V)
  <2> DEFINE k == i + n
             c == -w
  <2>1. k \in Nat /\ c \in Int
    BY <1>a, <1>c
  <2>2. \A j \in 0 .. n - 1 :
               /\ (k * (2 * j) * d) % Points = (i * j * (2 * d)) % Points
               /\ Congruent(Power[(k * (2 * j + 1) * d) % Points],
                            c * Power[(i * j * (2 * d)) % Points])
    BY <1>1
  <2> HIDE DEF k, c
  <2>3. Congruent(Frequency(x, 2 * n, d, k), U + c * V)
    BY <2>1, <2>2, <1>a, Halves
  <2> QED
    BY <2>3 DEF k, c
<1>5. U + w * V = U + V * w /\ U + (-w) * V = U - V * w
  <2> HIDE DEF U, V, w
  <2> QED
    BY <1>2, <1>c
<1> QED
  BY <1>3, <1>4, <1>5

-----------------------------------------------------------------------------
(* The blocks, and how far an iteration has got with joining them.             *)

(* The n points of the input from b on, d apart; and a frequency of them.      *)
Spread(f, b, d, n) == [j \in 0 .. n - 1 |-> f[b + j * d]]
Cell(f, b, n, d, i) == Frequency(Spread(f, b, d, n), n, d, i) % Modulus

(* Each of the d blocks of n points holds the transform of every d-th point.   *)
Blocks(f, m, n, d) ==
    \A c \in 0 .. d - 1, i \in 0 .. n - 1 : m[c * n + i] = Cell(f, BitRev[c * n], n, d, i)

(* Within an iteration: the butterflies before the s-th at the k-th distance    *)
(* have joined two blocks of n points into one, the others have not.           *)
Joined(f, m, n, e, c, i) ==
    /\ m[c * (2 * n) + i] = Cell(f, BitRev[(2 * c) * n], 2 * n, e, i)
    /\ m[c * (2 * n) + i + n] = Cell(f, BitRev[(2 * c) * n], 2 * n, e, i + n)

Apart(f, m, n, e, c, i) ==
    /\ m[c * (2 * n) + i] = Cell(f, BitRev[(2 * c) * n], n, 2 * e, i)
    /\ m[c * (2 * n) + i + n] = Cell(f, BitRev[(2 * c) * n] + e, n, 2 * e, i)

Before(c, i, k, s) == i < k \/ (i = k /\ c < s)

Progress(f, m, n, e, k, s) ==
    \A c \in 0 .. e - 1, i \in 0 .. n - 1 :
        /\ Before(c, i, k, s) => Joined(f, m, n, e, c, i)
        /\ ~Before(c, i, k, s) => Apart(f, m, n, e, c, i)

(* At the beginning of an iteration no two blocks are joined, at its end all.   *)
LEMMA ProgressBegins ==
    ASSUME NEW f, NEW n \in Nat \ {0}, NEW e \in Nat \ {0}, Starts(n, 2 * e), NEW m
    PROVE  Blocks(f, m, n, 2 * e) <=> Progress(f, m, n, e, 0, 0)
<1>1. \A c \in 0 .. e - 1 : BitRev[(2 * c + 1) * n] = BitRev[(2 * c) * n] + e
  BY DEF Starts
<1>2. \A c \in 0 .. e - 1, i \in 0 .. n - 1 : ~Before(c, i, 0, 0)
  BY DEF Before
<1>3. \A c \in Nat, i \in Nat : /\ c * (2 * n) + i = (2 * c) * n + i
                                /\ c * (2 * n) + i + n = (2 * c + 1) * n + i
  OBVIOUS
<1>4. ASSUME Blocks(f, m, n, 2 * e), NEW c \in 0 .. e - 1, NEW i \in 0 .. n - 1
      PROVE  Apart(f, m, n, e, c, i)
  <2>1. 2 * c \in 0 .. 2 * e - 1 /\ 2 * c + 1 \in 0 .. 2 * e - 1 /\ c \in Nat /\ i \in Nat
    OBVIOUS
  <2>2. /\ m[(2 * c) * n + i] = Cell(f, BitRev[(2 * c) * n], n, 2 * e, i)
        /\ m[(2 * c + 1) * n + i] = Cell(f, BitRev[(2 * c + 1) * n], n, 2 * e, i)
    BY <1>4, <2>1 DEF Blocks
  <2> QED
    BY <1>1, <1>3, <2>1, <2>2 DEF Apart
<1>5. ASSUME Progress(f, m, n, e, 0, 0) PROVE Blocks(f, m, n, 2 * e)
  <2> SUFFICES ASSUME NEW b \in 0 .. 2 * e - 1, NEW i \in 0 .. n - 1
               PROVE  m[b * n + i] = Cell(f, BitRev[b * n], n, 2 * e, i)
    BY DEF Blocks
  <2>1. PICK c \in 0 .. e - 1 : b = 2 * c \/ b = 2 * c + 1
    <3>1. b \div 2 \in 0 .. e - 1 /\ (b = 2 * (b \div 2) \/ b = 2 * (b \div 2) + 1)
      OBVIOUS
    <3> QED
      BY <3>1
  <2>2. Apart(f, m, n, e, c, i)
    BY <1>2, <1>5 DEF Progress
  <2>3. c \in Nat /\ i \in Nat
    OBVIOUS
  <2> QED
    BY <1>1, <1>3, <2>1, <2>2, <2>3 DEF Apart
<1> QED
  BY <1>2, <1>4, <1>5 DEF Progress

LEMMA ProgressEnds ==
    ASSUME NEW f, NEW n \in Nat \ {0}, NEW e \in Nat \ {0}, NEW m, Progress(f, m, n, e, n, 0)
    PROVE  Blocks(f, m, 2 * n, e)
<1> SUFFICES ASSUME NEW c \in 0 .. e - 1, NEW b \in 0 .. 2 * n - 1
             PROVE  m[c * (2 * n) + b] = Cell(f, BitRev[c * (2 * n)], 2 * n, e, b)
  BY DEF Blocks
<1>1. (2 * c) * n = c * (2 * n) /\ c * (2 * n) \in Int
  OBVIOUS
<1>2. CASE b < n
  <2>1. b \in 0 .. n - 1 /\ Before(c, b, n, 0)
    BY <1>2 DEF Before
  <2> QED
    BY <1>1, <2>1 DEF Progress, Joined
<1>3. CASE b >= n
  <2> DEFINE i == b - n
  <2>1. i \in 0 .. n - 1 /\ Before(c, i, n, 0) /\ i + n = b /\ c * (2 * n) + i + n = c * (2 * n) + b
    BY <1>1, <1>3 DEF Before
  <2> HIDE DEF i
  <2> QED
    BY <1>1, <2>1 DEF Progress, Joined
<1> QED
  BY <1>2, <1>3

(* All groups at one distance done is none at the next.                       *)
LEMMA ProgressGoesOn ==
    ASSUME NEW f, NEW n \in Nat \ {0}, NEW e \in Nat \ {0}, NEW m, NEW k \in Nat,
           Progress(f, m, n, e, k, e)
    PROVE  Progress(f, m, n, e, k + 1, 0)
<1>1. \A c \in 0 .. e - 1, i \in 0 .. n - 1 : Before(c, i, k, e) <=> Before(c, i, k + 1, 0)
  BY DEF Before
<1> QED
  BY <1>1 DEF Progress

(* The two points of a butterfly are no other butterfly's of the iteration.    *)
LEMMA ButterfliesApart ==
    ASSUME NEW n \in Nat \ {0}, NEW c \in Nat, NEW s \in Nat,
           NEW i \in 0 .. n - 1, NEW k \in 0 .. n - 1
    PROVE  /\ c * (2 * n) + i # s * (2 * n) + k + n
           /\ c * (2 * n) + i + n # s * (2 * n) + k
           /\ c * (2 * n) + i = s * (2 * n) + k => c = s /\ i = k
           /\ c * (2 * n) + i + n = s * (2 * n) + k + n => c = s /\ i = k
<1> DEFINE w == 2 * n
<1>1. w \in Nat \ {0} /\ i \in 0 .. w - 1 /\ k \in 0 .. w - 1
      /\ i + n \in 0 .. w - 1 /\ k + n \in 0 .. w - 1
      /\ i # k + n /\ i + n # k
  OBVIOUS
<1> HIDE DEF w
<1>2. ASSUME NEW a \in 0 .. w - 1, NEW b \in 0 .. w - 1, c * w + a = s * w + b
      PROVE  c = s /\ a = b
  <2> DEFINE p == w * c + a
  <2>1. p \in Int /\ p = w * c + a /\ p = w * s + b
    BY <1>1, <1>2
  <2> HIDE DEF p
  <2>2. p \div w = c /\ p % w = a /\ p \div w = s /\ p % w = b
    BY <1>1, <2>1, DivisionUnique
  <2> QED
    BY <2>2
<1>3. /\ c * w + i # s * w + (k + n)
      /\ c * w + (i + n) # s * w + k
      /\ c * w + i = s * w + k => c = s /\ i = k
      /\ c * w + (i + n) = s * w + (k + n) => c = s /\ i = k
  <2>1. i + n = k + n => i = k
    OBVIOUS
  <2> QED
    BY <1>1, <1>2, <2>1
<1>4. /\ c * w + i + n = c * w + (i + n) /\ s * w + k + n = s * w + (k + n)
  BY <1>1
<1> QED
  BY <1>3, <1>4 DEF w

(* One butterfly joins its two points and no others.                         *)
LEMMA ButterflyJoins ==
    ASSUME NEW n \in Nat \ {0}, NEW e \in Nat \ {0}, n * (2 * e) = Points, Starts(n, 2 * e),
           NEW f, \A i \in PointNrs : f[i] \in Int,
           NEW m \in [PointNrs -> Values],
           NEW k \in 0 .. n - 1, NEW s \in 0 .. e - 1, Progress(f, m, n, e, k, s)
    PROVE  LET a == s * (2 * n) + k
               C == m[a + n] * Power[k * e]
               w == [m EXCEPT ![a] = (@ + C) % Modulus, ![a + n] = (m[a] - C) % Modulus]
           IN  w \in [PointNrs -> Values] /\ Progress(f, w, n, e, k, s + 1)
<1> DEFINE a == s * (2 * n) + k
           C == m[a + n] * Power[k * e]
           w == [m EXCEPT ![a] = (@ + C) % Modulus, ![a + n] = (m[a] - C) % Modulus]
           b == BitRev[(2 * s) * n]
<1>a. /\ Points \in Nat /\ Modulus \in Nat \ {0, 1} /\ 2 * n \in Nat \ {0} /\ 2 * e \in Nat \ {0}
      /\ (2 * n) * e = Points /\ e * (2 * n) = Points
      /\ \A v \in Values : v \in Int
  BY SpectrumAssumption, PointsHalved DEF Values
<1>b. a \in PointNrs /\ a + n \in PointNrs /\ a # a + n /\ a \in Nat
  <2>1. k \in 0 .. 2 * n - 1 /\ k + n \in 0 .. 2 * n - 1
    OBVIOUS
  <2>2. s * (2 * n) + k \in PointNrs /\ s * (2 * n) + (k + n) \in PointNrs
    BY <1>a, <2>1, BlockBound
  <2>3. s * (2 * n) + (k + n) = a + n /\ a \in Int
    OBVIOUS
  <2> QED
    BY <2>2, <2>3, <1>a DEF PointNrs
<1>c. k * e \in 0 .. Points
  <2>1. k * e >= 0 /\ (n - k) * e > 0 /\ n * e > 0 /\ k * e \in Int
    OBVIOUS
  <2>2. n * (2 * e) = n * e + (n - k) * e + k * e
    OBVIOUS
  <2> QED
    BY <2>1, <2>2
<1>d. m[a] \in Int /\ m[a + n] \in Int /\ Power[k * e] \in Int /\ C \in Int
  <2>1. m[a] \in Int /\ m[a + n] \in Int /\ Power[k * e] \in Int
    BY <1>a, <1>b, <1>c, PowerIs
  <2> DEFINE x == m[a + n]
             y == Power[k * e]
  <2>2. x \in Int /\ y \in Int
    BY <2>1
  <2> HIDE DEF x, y
  <2>3. x * y \in Int
    BY <2>2
  <2> QED
    BY <2>1, <2>3 DEF x, y
<1>1. /\ w \in [PointNrs -> Values]
      /\ w[a] = (m[a] + C) % Modulus /\ w[a + n] = (m[a] - C) % Modulus
      /\ \A p \in PointNrs : p # a /\ p # a + n => w[p] = m[p]
  <2> HIDE DEF a, C
  <2>1. m[a] + C \in Int /\ m[a] - C \in Int
    BY <1>d
  <2>2. (m[a] + C) % Modulus \in Values /\ (m[a] - C) % Modulus \in Values
    BY <2>1, CongruentFacts
  <2> QED
    BY <1>b, <2>2
<1>2. b \in 0 .. e - 1
  <2>1. 2 * s \in 0 .. 2 * e - 1 /\ 2 * s + 1 \in 0 .. 2 * e - 1
    OBVIOUS
  <2>2. b \in 0 .. 2 * e - 1 /\ BitRev[(2 * s + 1) * n] \in 0 .. 2 * e - 1
        /\ BitRev[(2 * s + 1) * n] = b + e
    BY <2>1 DEF Starts
  <2> HIDE DEF b
  <2> QED
    BY <2>2
<1> DEFINE x == Spread(f, b, e, 2 * n)
           u == Spread(f, b, 2 * e, n)
           v == Spread(f, b + e, 2 * e, n)
           U == Frequency(u, n, 2 * e, k)
           V == Frequency(v, n, 2 * e, k)
           D == V * Power[k * e]
<1>3. \A j \in 0 .. 2 * n - 1 : x[j] = f[b + j * e] /\ x[j] \in Int
  <2> SUFFICES ASSUME NEW j \in 0 .. 2 * n - 1 PROVE x[j] = f[b + j * e] /\ x[j] \in Int
    OBVIOUS
  <2>1. j * e + b \in PointNrs
    <3> HIDE DEF b
    <3> QED
      BY <1>2, <1>a, BlockBound
  <2>2. j * e + b = b + j * e
    <3> HIDE DEF b
    <3> QED
      BY <1>2
  <2> QED
    BY <2>1, <2>2 DEF Spread
<1>4. \A j \in 0 .. n - 1 : u[j] = x[2 * j] /\ v[j] = x[2 * j + 1]
  <2> SUFFICES ASSUME NEW j \in 0 .. n - 1 PROVE u[j] = x[2 * j] /\ v[j] = x[2 * j + 1]
    OBVIOUS
  <2>1. 2 * j \in 0 .. 2 * n - 1 /\ 2 * j + 1 \in 0 .. 2 * n - 1
    OBVIOUS
  <2>2. x[2 * j] = f[b + (2 * j) * e] /\ x[2 * j + 1] = f[b + (2 * j + 1) * e]
    BY <1>3, <2>1
  <2>3. u[j] = f[b + j * (2 * e)] /\ v[j] = f[b + e + j * (2 * e)]
    BY DEF Spread
  <2>4. b + (2 * j) * e = b + j * (2 * e) /\ b + (2 * j + 1) * e = b + e + j * (2 * e)
    <3> HIDE DEF b
    <3> QED
      BY <1>2
  <2> QED
    BY <2>2, <2>3, <2>4
<1>5. U \in Int /\ V \in Int /\ Frequency(x, 2 * n, e, k) \in Int
      /\ Frequency(x, 2 * n, e, k + n) \in Int /\ D \in Int
  <2>1. \A j \in 0 .. n - 1 : u[j] \in Int /\ v[j] \in Int
    <3>1. \A j \in 0 .. n - 1 : 2 * j \in 0 .. 2 * n - 1 /\ 2 * j + 1 \in 0 .. 2 * n - 1
      OBVIOUS
    <3> HIDE DEF u, v, x
    <3> QED
      BY <1>3, <1>4, <3>1
  <2>2. k \in Nat /\ k + n \in Nat /\ n \in Nat /\ e \in Nat /\ 2 * e \in Nat /\ 2 * n \in Nat
    OBVIOUS
  <2>3. \A j \in 0 .. 2 * n - 1 : x[j] \in Int
    BY <1>3
  <2> HIDE DEF u, v, x
  <2>4. U \in Int /\ V \in Int
    BY <2>1, <2>2, FrequencyType
  <2>5. Frequency(x, 2 * n, e, k) \in Int /\ Frequency(x, 2 * n, e, k + n) \in Int
    BY <2>2, <2>3, FrequencyType
  <2> HIDE DEF V
  <2>6. V * Power[k * e] \in Int
    <3> DEFINE y == Power[k * e]
    <3>1. V \in Int /\ y \in Int
      BY <1>d, <2>4
    <3> HIDE DEF y
    <3>2. V * y \in Int
      BY <3>1
    <3> QED
      BY <3>2 DEF y
  <2> QED
    BY <2>4, <2>5, <2>6
<1>6. /\ Congruent(Frequency(x, 2 * n, e, k), U + D)
      /\ Congruent(Frequency(x, 2 * n, e, k + n), U - D)
  <2>1. \A j \in 0 .. 2 * n - 1 : x[j] \in Int
    BY <1>3
  <2> HIDE DEF x, u, v
  <2> QED
    BY <1>4, <2>1, ButterflyIsRight
<1>7. Joined(f, w, n, e, s, k)
  <2>1. m[a] = U % Modulus /\ m[a + n] = V % Modulus
    <3>1. ~Before(s, k, k, s)
      BY DEF Before
    <3>2. Apart(f, m, n, e, s, k)
      BY <3>1 DEF Progress
    <3> QED
      BY <3>2 DEF Apart, Cell
  <2>2. Congruent(m[a], U) /\ Congruent(m[a + n], V)
    <3> HIDE DEF U, V, a
    <3> QED
      BY <1>5, <2>1, CongruentRemainder
  <2>3. Congruent(C, D)
    <3> DEFINE y == Power[k * e]
               z == m[a + n]
    <3>1. y \in Int /\ z \in Int /\ V \in Int /\ Congruent(z, V)
      BY <1>d, <1>5, <2>2
    <3> HIDE DEF y, z, V
    <3>2. Congruent(z * y, V * y)
      BY <3>1, CongruentFacts
    <3> QED
      BY <3>2 DEF y, z
  <2> DEFINE X == Frequency(x, 2 * n, e, k)
             Y == Frequency(x, 2 * n, e, k + n)
             g == m[a]
  <2>4. /\ g \in Int /\ C \in Int /\ U \in Int /\ D \in Int /\ X \in Int /\ Y \in Int
        /\ Congruent(g, U) /\ Congruent(C, D) /\ Congruent(X, U + D) /\ Congruent(Y, U - D)
    BY <1>d, <1>5, <1>6, <2>2, <2>3
  <2>5. (g + C) % Modulus = X % Modulus /\ (g - C) % Modulus = Y % Modulus
    <3> HIDE DEF g, C, U, D, X, Y
    <3>1. Congruent(g + C, U + D) /\ Congruent(g - C, U - D)
      BY <2>4, CongruentSums
    <3>2. g + C \in Int /\ g - C \in Int /\ U + D \in Int /\ U - D \in Int
      BY <2>4
    <3> DEFINE gC == g + C
               gD == g - C
               UC == U + D
               UD == U - D
    <3>3. /\ gC \in Int /\ gD \in Int /\ UC \in Int /\ UD \in Int
          /\ Congruent(gC, UC) /\ Congruent(gD, UD) /\ Congruent(X, UC) /\ Congruent(Y, UD)
      BY <2>4, <3>1, <3>2
    <3> HIDE DEF gC, gD, UC, UD
    <3>4. gC % Modulus = UC % Modulus /\ gD % Modulus = UD % Modulus
      BY <3>3, CongruentFacts
    <3>5. X % Modulus = UC % Modulus /\ Y % Modulus = UD % Modulus
      BY <2>4, <3>3, CongruentFacts
    <3> QED
      BY <3>4, <3>5 DEF gC, gD
  <2>6. w[a] = X % Modulus /\ w[a + n] = Y % Modulus
    <3> HIDE DEF w, a, C, X, Y
    <3> QED
      BY <1>1, <2>5
  <2>7. w[a] = Cell(f, b, 2 * n, e, k) /\ w[a + n] = Cell(f, b, 2 * n, e, k + n)
    <3> HIDE DEF w, a, b
    <3> QED
      BY <2>6 DEF Cell
  <2> HIDE DEF w
  <2> QED
    BY <2>7 DEF Joined
<1>8. ASSUME NEW c \in 0 .. e - 1, NEW i \in 0 .. n - 1
      PROVE  /\ Before(c, i, k, s + 1) => Joined(f, w, n, e, c, i)
             /\ ~Before(c, i, k, s + 1) => Apart(f, w, n, e, c, i)
  <2>1. CASE c = s /\ i = k
    <3>1. Before(c, i, k, s + 1)
      BY <2>1 DEF Before
    <3> HIDE DEF w
    <3> QED
      BY <1>7, <2>1, <3>1
  <2>2. CASE ~(c = s /\ i = k)
    <3>1. Before(c, i, k, s + 1) <=> Before(c, i, k, s)
      BY <2>2 DEF Before
    <3> DEFINE p == c * (2 * n) + i
    <3>2. p \in PointNrs /\ p + n \in PointNrs
      <4>1. i \in 0 .. 2 * n - 1 /\ i + n \in 0 .. 2 * n - 1
        OBVIOUS
      <4>2. c * (2 * n) + i \in PointNrs /\ c * (2 * n) + (i + n) \in PointNrs
        BY <1>a, <4>1, BlockBound
      <4>3. c * (2 * n) + (i + n) = p + n
        OBVIOUS
      <4> QED
        BY <4>2, <4>3
    <3>3. p # a /\ p # a + n /\ p + n # a /\ p + n # a + n
      <4>1. c \in Nat /\ s \in Nat
        OBVIOUS
      <4> QED
        BY <2>2, <4>1, ButterfliesApart
    <3>4. w[p] = m[p] /\ w[p + n] = m[p + n]
      <4> HIDE DEF w, a, p
      <4> QED
        BY <1>1, <3>2, <3>3
    <3>5. /\ Joined(f, w, n, e, c, i) <=> Joined(f, m, n, e, c, i)
          /\ Apart(f, w, n, e, c, i) <=> Apart(f, m, n, e, c, i)
      <4> HIDE DEF w
      <4> QED
        BY <3>4 DEF Joined, Apart
    <3> HIDE DEF w
    <3> QED
      BY <3>1, <3>5 DEF Progress
  <2> QED
    BY <2>1, <2>2
<1>9. Progress(f, w, n, e, k, s + 1)
  <2> HIDE DEF w
  <2> QED
    BY <1>8 DEF Progress
<1> QED
  BY <1>1, <1>9

-----------------------------------------------------------------------------
(* What a measurement has summed up and stored.                               *)

(* The samples of the latest measurement, as decimate_and_store numbers them.  *)
Word == [i \in Index |-> taken[i + 1]]
Mean == Quotient(Sum(Word, Length), Length)
Waiting == {"delay", "wait", "spin", "decimate"}

(* signal_offset is the sum of the samples so far, and zero between two         *)
(* measurements; after one, what it left is the mean; and what has been         *)
(* transformed is the latest measurement, complete and unchanged.              *)
MeasuredInv ==
    /\ ~sampling => signalOffset = 0
    /\ sampling => signalOffset = Sum(Word, count)
    /\ ~sampling /\ Len(taken) = Length => storedOffset = Mean
    /\ pc \in Waiting => \A i \in 1 .. Len(taken) : signal[i - 1] = taken[i]
    /\ pc \in Waiting /\ ~sampling => Len(taken) = Length
    /\ fftIs # "unknown" /\ pc \notin Waiting =>
           Len(taken) = Length /\ fft = Decimated(Word, Mean)
    /\ pc = "calculate" <=> fftIs = "input"

LEMMA MeasuredInit == Init => MeasuredInv
BY SamplingAssumption DEF Init, MeasuredInv, Waiting

(* Steps that leave the measurement alone. *)
LEMMA MeasuredKept ==
    ASSUME MeasuredInv,
           UNCHANGED <<sampling, count, signalOffset, storedOffset, fft, fftIs, taken>>,
           signal' = signal \/ pc' \notin Waiting,
           pc' \in Waiting <=> pc \in Waiting,
           pc' = "calculate" <=> pc = "calculate"
    PROVE  MeasuredInv'
<1>1. Word' = Word /\ Mean' = Mean
  BY DEF Word, Mean
<1> QED
  BY <1>1 DEF MeasuredInv

(* One sample more. *)
LEMMA MeasuredSample ==
    ASSUME Inv, MeasuredInv, NEW v \in Samples, Sample(v)
    PROVE  MeasuredInv'
<1> USE SamplingAssumption
<1>1. /\ sampling /\ Len(taken) = count /\ count \in Index
      /\ taken \in Seq(Samples) /\ signal \in [Index -> Int] /\ v \in Int
      /\ pc \in {"delay", "wait", "spin"} /\ signalOffset = Sum(Word, count)
  BY DEF Inv, TypeOK, PhaseInv, CountInv, MeasuredInv, Sample, SampleAt
<1>2. /\ signal' = [signal EXCEPT ![count] = v]
      /\ taken' = Append(taken, v)
      /\ sampling' = (count + 1 # Length)
      /\ signalOffset' = IF count + 1 = Length THEN 0 ELSE signalOffset + v
      /\ storedOffset' = IF count + 1 = Length THEN Quotient(signalOffset + v, Length)
                                               ELSE storedOffset
      /\ count' = IF count + 1 = Length THEN 0 ELSE count + 1
      /\ pc' = pc /\ pc \in Waiting /\ pc # "calculate" /\ fftIs' = fftIs
  BY <1>1 DEF Sample, SampleAt, taskVars, Waiting
<1>3. /\ Len(taken') = count + 1
      /\ \A i \in 1 .. count : taken'[i] = taken[i] /\ taken[i] \in Samples
      /\ taken'[count + 1] = v
  BY <1>1, <1>2, AppendProperties, ElementOfSeq
<1>4. count \in Nat /\ count < Length /\ count + 1 \in Nat /\ (count + 1) - 1 = count
  BY <1>1 DEF Index
<1>5. /\ \A i \in 0 .. count - 1 : Word[i] \in Int /\ Word'[i] = Word[i]
      /\ Word'[count] = v
  <2>1. ASSUME NEW i \in 0 .. count - 1 PROVE Word[i] \in Int /\ Word'[i] = Word[i]
    <3>1. i \in Index /\ i + 1 \in 1 .. count
      BY <1>4 DEF Index
    <3>2. Word[i] = taken[i + 1] /\ Word'[i] = taken'[i + 1]
      BY <3>1 DEF Word
    <3>3. taken'[i + 1] = taken[i + 1] /\ taken[i + 1] \in Samples
      BY <1>3, <3>1
    <3> QED
      BY <3>2, <3>3
  <2> QED
    BY <2>1, <1>1, <1>3 DEF Word
<1>6. Sum(Word', count + 1) = signalOffset + v
  <2>1. \A i \in 0 .. (count + 1) - 1 : Word'[i] \in Int
    <3>1. \A i \in 0 .. (count + 1) - 1 : i = count \/ i \in 0 .. count - 1
      BY <1>4
    <3> QED
      BY <1>1, <1>5, <3>1
  <2>2. Sum(Word', count + 1) = Sum(Word', (count + 1) - 1) + Word'[(count + 1) - 1]
    <3>1. count + 1 > 0
      BY <1>4
    <3> QED
      BY <1>4, <2>1, <3>1, SumFacts
  <2>3. Sum(Word', count) = Sum(Word, count)
    BY <1>4, <1>5, SumSame
  <2> QED
    BY <1>1, <1>4, <1>5, <2>2, <2>3
<1>7. (Sum(Word, count))' = Sum(Word', count') /\ Mean' = Quotient(Sum(Word', Length), Length)
  BY DEF Mean
<1>8. \A i \in 1 .. Len(taken') : signal'[i - 1] = taken'[i]
  <2> SUFFICES ASSUME NEW i \in 1 .. count + 1 PROVE signal'[i - 1] = taken'[i]
    BY <1>3
  <2>1. i - 1 \in Index /\ (i = count + 1 \/ i \in 1 .. count)
    BY <1>4 DEF Index
  <2>2. CASE i = count + 1
    <3>1. i - 1 = count
      BY <1>4, <2>2
    <3> QED
      BY <1>1, <1>2, <1>3, <2>2, <3>1
  <2>3. CASE i \in 1 .. count
    <3>1. i - 1 # count
      BY <1>4, <2>3
    <3>2. signal[i - 1] = taken[i]
      BY <1>1, <1>2, <2>3 DEF MeasuredInv
    <3> QED
      BY <1>1, <1>2, <1>3, <2>1, <2>3, <3>1, <3>2
  <2> QED
    BY <2>1, <2>2, <2>3
<1>9. CASE count + 1 = Length
  <2>1. ~sampling' /\ Len(taken') = Length /\ signalOffset' = 0 /\ storedOffset' = Mean'
    BY <1>2, <1>3, <1>6, <1>7, <1>9
  <2> QED
    BY <1>2, <1>8, <2>1 DEF MeasuredInv
<1>10. CASE count + 1 # Length
  <2>1. sampling' /\ Len(taken') # Length
    BY <1>2, <1>3, <1>4, <1>10
  <2> QED
    BY <1>2, <1>3, <1>4, <1>6, <1>7, <1>8, <1>10, <2>1 DEF MeasuredInv
<1> QED
  BY <1>9, <1>10

(* What is stored for the transform is the latest measurement. *)
LEMMA MeasuredDecimate ==
    ASSUME Inv, MeasuredInv, Decimate
    PROVE  MeasuredInv'
<1> USE SamplingAssumption
<1>1. /\ pc = "decimate" /\ ~sampling /\ pc \in Waiting /\ pc' \notin Waiting
      /\ signal \in [Index -> Int]
      /\ fft' = Decimated(signal, storedOffset) /\ pc' = "calculate" /\ fftIs' = "input"
      /\ UNCHANGED <<sampling, count, signalOffset, storedOffset, signal, taken>>
  BY DEF Inv, TypeOK, PhaseInv, Decimate, Waiting, handlerVars, acqVars, histVars
<1>2. Len(taken) = Length /\ storedOffset = Mean /\ signalOffset = 0
  BY <1>1 DEF MeasuredInv
<1>3. signal = Word
  <2>1. ASSUME NEW i \in Index PROVE signal[i] = Word[i]
    <3>1. i + 1 \in 1 .. Len(taken) /\ (i + 1) - 1 = i
      BY <1>2 DEF Index
    <3>2. signal[(i + 1) - 1] = taken[i + 1]
      BY <1>1, <3>1 DEF MeasuredInv
    <3> QED
      BY <3>1, <3>2 DEF Word
  <2> QED
    BY <1>1, <2>1 DEF Word
<1>4. Word' = Word /\ Mean' = Mean
  BY <1>1 DEF Word, Mean
<1> QED
  BY <1>1, <1>2, <1>3, <1>4 DEF MeasuredInv

(* One step of the proof per action. *)
LEMMA MeasuredStep == Inv /\ MeasuredInv /\ [Next]_vars => MeasuredInv'
<1> SUFFICES ASSUME Inv, MeasuredInv, [Next]_vars PROVE MeasuredInv'
  OBVIOUS
<1> USE DEF taskVars, acqVars, memVars, histVars, handlerVars, Waiting
<1>1. CASE Receive
  <2> DEFINE c == Head(events)
  <2>1. Start(c) \notin {"wait", "spin", "decimate", "calculate"} /\ (Start(c) = "delay" <=> c = "processAll")
    BY DEF Start
  <2>2. /\ pc = "receive" /\ ~sampling /\ pc' = Start(c)
        /\ count' = IF c = "processAll" THEN 0 ELSE count
        /\ sampling' = (sampling \/ c = "processAll")
        /\ taken' = IF c = "processAll" THEN <<>> ELSE taken
        /\ UNCHANGED <<signalOffset, storedOffset, fft, fftIs, signal>>
    BY <1>1 DEF Receive, ReceiveKeeping, Inv, PhaseInv
  <2> HIDE DEF c
  <2>3. CASE c = "processAll"
    <3>1. sampling' /\ count' = 0 /\ taken' = <<>> /\ signalOffset' = 0 /\ pc' \in Waiting
          /\ pc' # "calculate" /\ fftIs' # "input"
      BY <2>1, <2>2, <2>3 DEF MeasuredInv
    <3>2. Sum(Word', 0) = 0
      BY SumFacts
    <3>3. (Sum(Word, count))' = Sum(Word', count')
      OBVIOUS
    <3> QED
      BY <3>1, <3>2, <3>3 DEF MeasuredInv
  <2>4. CASE c # "processAll"
    <3>1. taken' = taken /\ count' = count /\ pc' \notin Waiting /\ pc \notin Waiting
          /\ pc' # "calculate" /\ pc # "calculate"
      BY <2>1, <2>2, <2>4
    <3>2. sampling' = FALSE /\ sampling = FALSE
      <4>1. sampling \in BOOLEAN
        BY DEF Inv, TypeOK
      <4> QED
        BY <2>2, <2>4, <4>1
    <3> QED
      BY <2>2, <3>1, <3>2, MeasuredKept
  <2> QED
    BY <2>3, <2>4
<1>2. CASE Delay
  BY <1>2, MeasuredKept DEF Delay
<1>3. CASE Wait
  BY <1>3, MeasuredKept DEF Wait
<1>4. CASE Decimate
  BY <1>4, MeasuredDecimate
<1>5. CASE Calculate
  <2>1. /\ pc \notin Waiting /\ pc' \notin Waiting
        /\ UNCHANGED <<sampling, count, signalOffset, storedOffset, fft, taken, signal>>
    BY <1>5 DEF Calculate
  <2>2. fftIs # "unknown"
    BY <1>5 DEF Calculate, MeasuredInv
  <2>3. pc' # "calculate" /\ fftIs' = "spectrum"
    BY <1>5 DEF Calculate
  <2>4. Word' = Word /\ Mean' = Mean
    BY <2>1 DEF Word, Mean
  <2> QED
    BY <2>1, <2>2, <2>3, <2>4 DEF MeasuredInv
<1>6. CASE Answer \/ Settle \/ SendSignal \/ SendFFT
  BY <1>6, MeasuredKept DEF Answer, Settle, SendSignal, SendFFT, Proceed
<1>7. CASE HkWrite
  BY <1>7, MeasuredKept DEF HkWrite
<1>8. ASSUME NEW ok \in BOOLEAN, ReadSignal(ok) \/ ReadFFT(ok) \/ HkSend(ok) \/ Reply(ok)
      PROVE  MeasuredInv'
  <2>1. /\ UNCHANGED <<sampling, count, signalOffset, storedOffset, fft, fftIs, taken, signal>>
        /\ pc \notin Waiting /\ pc' \notin Waiting /\ pc # "calculate" /\ pc' # "calculate"
    <3>1. CASE ReadSignal(ok)
      BY <3>1 DEF ReadSignal, ReadSignalNaming
    <3>2. CASE ReadFFT(ok)
      BY <3>2 DEF ReadFFT
    <3>3. CASE HkSend(ok)
      BY <3>3 DEF HkSend
    <3>4. CASE Reply(ok)
      BY <3>4 DEF Reply
    <3> QED
      BY <1>8, <3>1, <3>2, <3>3, <3>4
  <2> QED
    BY <2>1, MeasuredKept
<1>9. ASSUME NEW v \in Samples, Sample(v) PROVE MeasuredInv'
  BY <1>9, MeasuredSample
<1>10. ASSUME NEW c \in Commands, Dispatch(c) PROVE MeasuredInv'
  BY <1>10, MeasuredKept DEF Dispatch
<1>11. CASE UNCHANGED vars
  BY <1>11, MeasuredKept DEF vars
<1> QED
  BY <1>1, <1>2, <1>3, <1>4, <1>5, <1>6, <1>7, <1>8, <1>9, <1>10, <1>11
     DEF Next, MainTask, Interrupt, CspTask, Idle

LEMMA MeasuredAlways == Spec => [](Inv /\ MeasuredInv)
<1>1. Init => MeasuredInv
  BY MeasuredInit
<1> QED
  BY <1>1, InvInit, InvStep, MeasuredStep, PTL DEF Spec

-----------------------------------------------------------------------------
(* The loops of FFT_calculate.                                               *)

(* Where the loops of FFT_calculate stand: angf groups of two blocks of n       *)
(* points each, and the pointer at the k-th point of the first block of the     *)
(* s-th group.                                                               *)
LoopFits(l) ==
    /\ l \in [n : Nat \ {0}, k : Nat, s : Nat, angf : Nat, a : Int, fnk : Nat]
    /\ l.n <= Points
    /\ l.n < Points =>
        /\ l.n * (2 * l.angf) = Points
        /\ Starts(l.n, 2 * l.angf)
        /\ l.k < l.n /\ l.s < l.angf
        /\ l.a = l.s * (2 * l.n) + l.k
        /\ l.fnk = l.k * l.angf
    /\ l.n = Points => l.k = 0 /\ l.s = 0

(* What the butterflies have made of the input f so far.                      *)
Carried(f, m, l) ==
    /\ l.n < Points => Progress(f, m, l.n, l.angf, l.k, l.s)
    /\ l.n = Points => Blocks(f, m, Points, 1)

LEMMA GroupsLeft ==
    ASSUME NEW n \in Nat \ {0}, NEW e \in Nat, n * (2 * e) = Points
    PROVE  e \in Nat \ {0} /\ (2 * n) * e = Points /\ Points \div n = 2 * e
<1>1. Points \in Nat /\ Points > 0
  BY PointsHalved
<1>2. e # 0
  BY <1>1
<1>3. (2 * n) * e = n * (2 * e)
  OBVIOUS
<1>4. Points \div n = 2 * e
  <2>1. 2 * e \in Int /\ Points = n * (2 * e) + 0 /\ 0 \in 0 .. n - 1 /\ Points \in Int
    BY <1>1
  <2> DEFINE d == 2 * e
  <2>2. d \in Int /\ Points = n * d + 0
    BY <2>1
  <2> HIDE DEF d
  <2>3. Points \div n = d
    BY <2>1, <2>2, DivisionUnique
  <2> QED
    BY <2>3 DEF d
<1> QED
  BY <1>2, <1>3, <1>4

(* At the start of FFT_calculate. *)
LEMMA LoopBegins ==
    ASSUME NEW f, \A i \in PointNrs : f[i] \in Int
    PROVE  /\ LoopFits(LoopStart)
           /\ Carried(f, [i \in PointNrs |-> f[BitRev[i]] % Modulus], LoopStart)
<1> DEFINE h == Points \div 2
           m == [i \in PointNrs |-> f[BitRev[i]] % Modulus]
<1>1. /\ Points \in Nat /\ Points > 1 /\ h \in Nat \ {0} /\ 2 * h = Points /\ 1 * (2 * h) = Points
      /\ 1 \in Nat \ {0}
  BY PointsHalved, SamplingAssumption
<1>2. Starts(1, 2 * h)
  BY <1>1, StartsOne
<1>3. LoopFits(LoopStart)
  <2>1. 0 * (2 * 1) + 0 = 0 /\ 0 * h = 0 /\ 1 < Points
    BY <1>1
  <2> HIDE DEF h
  <2> QED
    BY <1>1, <1>2, <2>1 DEF LoopFits, LoopStart, h
<1>4. Blocks(f, m, 1, 2 * h)
  <2> SUFFICES ASSUME NEW c \in PointNrs
               PROVE  m[c * 1 + 0] = Cell(f, BitRev[c * 1], 1, 2 * h, 0)
    <3>1. 0 .. 2 * h - 1 = PointNrs /\ \A i \in 0 .. 1 - 1 : i = 0
      BY <1>1 DEF PointNrs
    <3> QED
      BY <3>1 DEF Blocks
  <2>1. c * 1 + 0 = c /\ c * 1 = c
    BY DEF PointNrs
  <2> DEFINE b == BitRev[c]
             x == Spread(f, b, Points, 1)
             z == [j \in 0 .. 1 - 1 |-> x[j] * Power[(0 * j * Points) % Points]]
  <2>2. b \in PointNrs /\ b \in Nat /\ f[b] \in Int /\ b + 0 * Points = b
    <3>1. b \in PointNrs
      BY BitRevIs
    <3> HIDE DEF b
    <3> QED
      BY <1>1, <3>1 DEF PointNrs
  <2>3. x[0] = f[b]
    BY <2>2 DEF Spread
  <2>4. z[0] = f[b]
    <3>1. (0 * 0 * Points) % Points = 0
      <4>1. 0 * 0 * Points = 0 /\ 0 = Points * 0 + 0 /\ 0 \in 0 .. Points - 1 /\ Points \in Nat \ {0}
        BY <1>1
      <4>2. 0 % Points = 0
        BY <4>1, DivisionUnique
      <4> QED
        BY <4>1, <4>2
    <3>2. z[0] = x[0] * Power[(0 * 0 * Points) % Points]
      OBVIOUS
    <3>3. z[0] = f[b] * 1
      BY <2>3, <3>1, <3>2, PowerIs
    <3> HIDE DEF z
    <3> QED
      BY <2>2, <3>3
  <2> HIDE DEF z, x, b
  <2>5. Sum(z, 1) = f[b]
    <3>1. \A i \in 0 .. 1 - 1 : z[i] \in Int
      BY <2>2, <2>4
    <3>2. Sum(z, 1) = Sum(z, 1 - 1) + z[1 - 1] /\ Sum(z, 0) = 0
      BY <3>1, SumFacts
    <3> QED
      BY <2>2, <2>4, <3>2
  <2>6. Frequency(x, 1, Points, 0) = f[b]
    BY <2>5 DEF Frequency, z
  <2>7. m[c] = f[b] % Modulus
    BY DEF b
  <2> HIDE DEF m
  <2> QED
    BY <1>1, <2>1, <2>6, <2>7 DEF Cell, x, b
<1>5. Progress(f, m, 1, h, 0, 0)
  <2> HIDE DEF h, m
  <2> QED
    BY <1>1, <1>2, <1>4, ProgressBegins
<1> HIDE DEF m
<1>6. Carried(f, m, LoopStart)
  BY <1>1, <1>5 DEF Carried, LoopStart
<1> QED
  BY <1>3, <1>6 DEF m

(* The three loops go on where the butterfly leaves off.                      *)
LEMMA LoopGoesOn ==
    ASSUME NEW f, NEW m, NEW l, LoopFits(l), l.n < Points,
           Progress(f, m, l.n, l.angf, l.k, l.s + 1)
    PROVE  LoopFits(Onward(l)) /\ Carried(f, m, Onward(l))
<1> DEFINE n == l.n
           e == l.angf
           k == l.k
           s == l.s
<1>1. /\ l = [n |-> n, k |-> k, s |-> s, angf |-> e, a |-> l.a, fnk |-> l.fnk]
      /\ n \in Nat \ {0} /\ e \in Nat /\ k \in Nat /\ s \in Nat /\ l.a \in Int /\ l.fnk \in Nat
      /\ n * (2 * e) = Points /\ Starts(n, 2 * e) /\ k < n /\ s < e
      /\ l.a = s * (2 * n) + k /\ l.fnk = k * e /\ n < Points
      /\ Progress(f, m, n, e, k, s + 1)
  BY DEF LoopFits
<1>r. l \in [n : Nat \ {0}, k : Nat, s : Nat, angf : Nat, a : Int, fnk : Nat]
  BY DEF LoopFits
<1>2. e \in Nat \ {0} /\ (2 * n) * e = Points /\ Points \in Nat
  BY <1>1, GroupsLeft, PointsHalved
<1>3. CASE s + 1 < e
  <2> DEFINE r == NextGroup(l)
  <2>1. Onward(l) = r
    BY <1>3 DEF Onward
  <2>2. /\ r \in [n : Nat \ {0}, k : Nat, s : Nat, angf : Nat, a : Int, fnk : Nat]
        /\ r.n = n /\ r.k = k /\ r.s = s + 1 /\ r.angf = e /\ r.a = l.a + 2 * n /\ r.fnk = l.fnk
    <3>1. l.a + 2 * l.n \in Int /\ l.s + 1 \in Nat
      BY <1>r
    <3> QED
      BY <1>r, <3>1 DEF NextGroup
  <2> HIDE DEF r, n, e, k, s
  <2>3. l.a + 2 * n = (s + 1) * (2 * n) + k /\ l.a + 2 * n \in Int
    BY <1>1
  <2>4. LoopFits(r)
    BY <1>1, <1>3, <2>2, <2>3 DEF LoopFits
  <2>5. Carried(f, m, r)
    BY <1>1, <2>2 DEF Carried
  <2> QED
    BY <2>1, <2>4, <2>5
<1>4. CASE s + 1 >= e /\ k + 1 < n
  <2> DEFINE r == NextDistance(l)
  <2>1. Onward(l) = r
    BY <1>1, <1>4 DEF Onward
  <2>2. /\ r \in [n : Nat \ {0}, k : Nat, s : Nat, angf : Nat, a : Int, fnk : Nat]
        /\ r.n = n /\ r.k = k + 1 /\ r.s = 0 /\ r.angf = e
        /\ r.a = l.a + 2 * n - (Points - 1) /\ r.fnk = l.fnk + e
    <3>1. l.a + 2 * l.n - (Points - 1) \in Int /\ l.k + 1 \in Nat /\ l.fnk + l.angf \in Nat
      BY <1>r, <1>2
    <3> QED
      BY <1>r, <3>1 DEF NextDistance
  <2> HIDE DEF r, n, e, k, s
  <2>3. s + 1 = e
    BY <1>1, <1>4
  <2>4. l.a + 2 * n - (Points - 1) = 0 * (2 * n) + (k + 1)
    <3>1. s * (2 * n) + 2 * n = (2 * n) * e
      BY <1>1, <1>2, <2>3
    <3>2. s * (2 * n) \in Int /\ 0 * (2 * n) = 0
      BY <1>1
    <3> QED
      BY <1>1, <1>2, <3>1, <3>2
  <2>5. l.fnk + e = (k + 1) * e /\ l.fnk + e \in Nat
    BY <1>1
  <2>6. Progress(f, m, n, e, k + 1, 0)
    BY <1>1, <1>2, <2>3, ProgressGoesOn
  <2>8. LoopFits(r)
    <3>1. r.n = n /\ r.k = k + 1 /\ r.s = 0 /\ r.angf = e
          /\ r.a = 0 * (2 * n) + (k + 1) /\ r.fnk = (k + 1) * e
      BY <2>2, <2>4, <2>5
    <3> QED
      BY <1>1, <1>2, <1>4, <2>2, <3>1 DEF LoopFits
  <2>9. Carried(f, m, r)
    BY <1>1, <2>2, <2>6 DEF Carried
  <2> QED
    BY <2>1, <2>8, <2>9
<1>5. CASE s + 1 >= e /\ k + 1 >= n
  <2> DEFINE r == NextIteration(l)
             g == e \div 2
  <2>1. Onward(l) = r
    BY <1>1, <1>5 DEF Onward
  <2>2. r = [n |-> 2 * n, k |-> 0, s |-> 0, angf |-> g, a |-> 0, fnk |-> 0]
    BY DEF NextIteration
  <2> HIDE DEF r, n, e, k, s
  <2>3. s + 1 = e /\ k + 1 = n /\ 2 * n \in Nat \ {0} /\ g \in Nat
    BY <1>1, <1>2, <1>5
  <2>4. Blocks(f, m, 2 * n, e)
    <3>1. Progress(f, m, n, e, n, 0)
      BY <1>1, <1>2, <2>3, ProgressGoesOn
    <3> QED
      BY <1>1, <1>2, <3>1, ProgressEnds
  <2>5. r \in [n : Nat \ {0}, k : Nat, s : Nat, angf : Nat, a : Int, fnk : Nat]
    BY <2>2, <2>3
  <2>6. CASE e = 1
    <3>1. 2 * n = Points
      BY <1>2, <2>3, <2>6
    <3>2. LoopFits(r)
      BY <1>2, <2>2, <2>5, <3>1 DEF LoopFits
    <3>3. Carried(f, m, r)
      BY <1>2, <2>2, <2>4, <2>6, <3>1 DEF Carried
    <3> QED
      BY <2>1, <3>2, <3>3
  <2>7. CASE e > 1
    <3>1. e % 2 = 0
      <4>1. Points = e * (2 * n) + 0 /\ 2 * n \in Int /\ 0 \in 0 .. e - 1 /\ Points \in Int
        BY <1>1, <1>2
      <4>2. Points % e = 0
        <5> DEFINE q == 2 * n
        <5>1. Points = e * q + 0 /\ q \in Int
          BY <4>1
        <5> HIDE DEF q
        <5>2. e \in Nat \ {0} /\ 0 \in 0 .. e - 1 /\ Points \in Int
          BY <1>2, <4>1
        <5> QED
          BY <5>1, <5>2, DivisionUnique
      <4>3. e <= Points
        <5>1. (2 * n - 1) * e >= 0 /\ (2 * n - 1) * e = (2 * n) * e - e
          BY <1>1, <1>2
        <5> QED
          BY <1>1, <1>2, <5>1
      <4>4. e \in 2 .. Points
        BY <1>1, <1>2, <2>7, <4>3
      <4> QED
        BY <4>2, <4>4, SpectrumAssumption
    <3>2. g \in Nat \ {0} /\ e = 2 * g
      <4>1. e \in Int
        BY <1>2
      <4> QED
        BY <2>7, <3>1, <4>1
    <3> HIDE DEF g
    <3>3. (2 * n) * (2 * g) = Points /\ 2 * n < Points
      <4>1. (2 * n) * (2 * g) = Points
        BY <1>2, <3>2
      <4> DEFINE w == 2 * n
                 v == 2 * g - 1
      <4>2. w \in Int /\ w > 0 /\ v \in Int /\ v > 0 /\ 2 * g = v + 1
        BY <2>3, <3>2
      <4>3. w * (2 * g) = Points
        BY <4>1
      <4> HIDE DEF w, v
      <4>4. w * (v + 1) = w * v + w /\ w * v > 0
        BY <4>2
      <4>5. w < Points
        BY <1>2, <4>2, <4>3, <4>4
      <4> QED
        BY <4>1, <4>5 DEF w
    <3>4. Starts(2 * n, 2 * g)
      BY <1>1, <1>2, <3>2, StartsDouble
    <3>5. Progress(f, m, 2 * n, g, 0, 0)
      BY <2>3, <2>4, <3>2, <3>4, ProgressBegins
    <3>6. LoopFits(r)
      <4>1. r.n = 2 * n /\ r.k = 0 /\ r.s = 0 /\ r.angf = g /\ r.a = 0 /\ r.fnk = 0
        BY <2>2
      <4>2. 0 * (2 * (2 * n)) + 0 = 0 /\ 0 * g = 0 /\ 0 < 2 * n /\ 0 < g
        BY <2>3, <3>2
      <4>3. /\ r.n < Points /\ r.n * (2 * r.angf) = Points /\ Starts(r.n, 2 * r.angf)
            /\ r.k < r.n /\ r.s < r.angf /\ r.a = r.s * (2 * r.n) + r.k /\ r.fnk = r.k * r.angf
        BY <3>3, <3>4, <4>1, <4>2
      <4>4. r.n <= Points /\ r.n # Points
        BY <1>1, <1>2, <3>3, <4>1
      <4> QED
        BY <2>5, <4>3, <4>4 DEF LoopFits
    <3>7. Carried(f, m, r)
      BY <1>1, <1>2, <2>2, <3>3, <3>5 DEF Carried
    <3> QED
      BY <2>1, <3>6, <3>7
  <2> QED
    BY <1>2, <2>6, <2>7
<1>6. (s + 1 < e) \/ (s + 1 >= e /\ k + 1 < n) \/ (s + 1 >= e /\ k + 1 >= n)
  BY <1>1
<1> QED
  BY <1>3, <1>4, <1>5, <1>6

-----------------------------------------------------------------------------
(* The inductive invariant of the transform, and its theorems.                 *)

(* The memory holds what the butterflies so far have made of the input; when   *)
(* FFT_calculate has returned, its transform.                                 *)
TransformInv ==
    /\ mem \in [PointNrs -> Values]
    /\ LoopFits(loop)
    /\ pc = "calculate" => Carried(fft, mem, loop)
    /\ fftIs = "spectrum" => mem = Transform(fft, Points)

LEMMA FftIsNumbers == TypeOK => \A i \in PointNrs : fft[i] \in Int
BY DEF TypeOK, PointNrs

LEMMA TransformInit == SpectrumInit => TransformInv
<1> SUFFICES ASSUME SpectrumInit PROVE TransformInv
  OBVIOUS
<1>1. mem \in [PointNrs -> Values]
  <2>1. Unknown \in Int
    BY SamplingAssumption
  <2>2. Unknown % Modulus \in Values
    BY <2>1, CongruentFacts
  <2> QED
    BY <2>2 DEF SpectrumInit
<1>2. LoopFits(loop)
  <2> DEFINE f == [i \in PointNrs |-> 0]
  <2>1. \A i \in PointNrs : f[i] \in Int
    OBVIOUS
  <2> HIDE DEF f
  <2>2. LoopFits(LoopStart)
    BY <2>1, LoopBegins
  <2> QED
    BY <2>2 DEF SpectrumInit
<1> QED
  BY <1>1, <1>2 DEF TransformInv, SpectrumInit, Init

(* Storing the points, in their order, is where the loops begin. *)
LEMMA TransformStore ==
    ASSUME Inv', Store
    PROVE  TransformInv'
<1>1. \A i \in PointNrs : fft'[i] \in Int
  BY DEF Inv, TypeOK, PointNrs
<1>2. mem' = [i \in PointNrs |-> fft'[BitRev[i]] % Modulus] /\ loop' = LoopStart
      /\ fftIs' = "input"
  BY DEF Store, Decimate
<1>3. mem' \in [PointNrs -> Values]
  <2>1. ASSUME NEW i \in PointNrs PROVE fft'[BitRev[i]] % Modulus \in Values
    <3>1. fft'[BitRev[i]] \in Int
      BY <1>1, BitRevIs
    <3> QED
      BY <3>1, CongruentFacts
  <2> QED
    BY <1>2, <2>1
<1>4. LoopFits(LoopStart) /\ Carried(fft', mem', LoopStart)
  BY <1>1, <1>2, LoopBegins
<1> QED
  BY <1>2, <1>3, <1>4 DEF TransformInv

(* A butterfly. *)
LEMMA TransformButterfly ==
    ASSUME Inv, MeasuredInv, TransformInv, Butterfly
    PROVE  TransformInv'
<1> DEFINE n == loop.n
           e == loop.angf
           k == loop.k
           s == loop.s
           C == mem[loop.a + n] * Power[loop.fnk]
<1>1. /\ pc = "calculate" /\ n < Points /\ pc' = pc /\ fft' = fft /\ fftIs' = fftIs
      /\ loop' = Onward(loop)
      /\ mem' = [mem EXCEPT ![loop.a] = (@ + C) % Modulus,
                            ![loop.a + n] = (mem[loop.a] - C) % Modulus]
  BY DEF Butterfly, vars
<1>2. /\ n \in Nat \ {0} /\ e \in Nat /\ k \in Nat /\ s \in Nat
      /\ n * (2 * e) = Points /\ Starts(n, 2 * e) /\ k < n /\ s < e
      /\ loop.a = s * (2 * n) + k /\ loop.fnk = k * e
      /\ mem \in [PointNrs -> Values]
      /\ Progress(fft, mem, n, e, k, s)
  BY <1>1 DEF TransformInv, LoopFits, Carried
<1>3. \A i \in PointNrs : fft[i] \in Int
  BY FftIsNumbers DEF Inv
<1>4. e \in Nat \ {0} /\ k \in 0 .. n - 1 /\ s \in 0 .. e - 1
  BY <1>2, GroupsLeft
<1>5. mem' \in [PointNrs -> Values] /\ Progress(fft, mem', n, e, k, s + 1)
  <2> DEFINE a == s * (2 * n) + k
             D == mem[a + n] * Power[k * e]
             w == [mem EXCEPT ![a] = (@ + D) % Modulus, ![a + n] = (mem[a] - D) % Modulus]
  <2>1. mem' = w
    BY <1>1, <1>2
  <2> HIDE DEF n, e, k, s
  <2>2. w \in [PointNrs -> Values] /\ Progress(fft, w, n, e, k, s + 1)
    BY <1>2, <1>3, <1>4, ButterflyJoins
  <2> QED
    BY <2>1, <2>2
<1>6. LoopFits(Onward(loop)) /\ Carried(fft, mem', Onward(loop))
  BY <1>1, <1>5, LoopGoesOn DEF TransformInv
<1> QED
  <2>1. fftIs = "spectrum" => FALSE
    BY <1>1 DEF MeasuredInv
  <2> QED
    BY <1>1, <1>5, <1>6, <2>1 DEF TransformInv

(* The one block that is left is the transform of all points, in their order.  *)
LEMMA OneBlock ==
    ASSUME NEW f, NEW m, m \in [PointNrs -> Values], Blocks(f, m, Points, 1),
           f \in [PointNrs -> Int]
    PROVE  m = Transform(f, Points)
<1>1. Points \in Nat /\ Points > 0 /\ BitRev[0] = 0 /\ PointNrs = 0 .. Points - 1
  BY PointsHalved, BitRevIs DEF PointNrs
<1>2. Spread(f, 0, 1, Points) = f
  <2>1. \A j \in 0 .. Points - 1 : 0 + j * 1 = j
    OBVIOUS
  <2> QED
    BY <1>1, <2>1 DEF Spread
<1>3. Points \div Points = 1
  BY <1>1, DivisionUnique
<1>4. ASSUME NEW i \in PointNrs PROVE m[i] = Cell(f, 0, Points, 1, i)
  <2>1. 0 * Points + i = i /\ 0 * Points = 0 /\ 0 \in 0 .. 1 - 1
    BY <1>1
  <2>2. m[0 * Points + i] = Cell(f, BitRev[0 * Points], Points, 1, i)
    BY <1>1, <2>1 DEF Blocks
  <2> QED
    BY <1>1, <2>1, <2>2
<1>5. Transform(f, Points) = [i \in PointNrs |-> Cell(f, 0, Points, 1, i)]
  BY <1>1, <1>2, <1>3 DEF Transform, Cell, Frequency
<1> QED
  BY <1>4, <1>5

(* FFT_calculate returns after its last iteration. *)
LEMMA TransformCalculated ==
    ASSUME Inv, TransformInv, Calculated
    PROVE  TransformInv'
<1>1. /\ pc = "calculate" /\ pc' # "calculate" /\ loop.n >= Points
      /\ UNCHANGED <<fft, mem, loop>>
  BY DEF Calculated, Calculate
<1>2. loop.n = Points /\ mem \in [PointNrs -> Values] /\ LoopFits(loop)
  <2>1. Points \in Nat /\ loop.n \in Nat
    BY PointsHalved DEF TransformInv, LoopFits
  <2> QED
    BY <1>1, <2>1 DEF TransformInv, LoopFits
<1>3. mem = Transform(fft, Points)
  <2>1. Blocks(fft, mem, Points, 1)
    BY <1>1, <1>2 DEF TransformInv, Carried
  <2>2. fft \in [PointNrs -> Int]
    BY DEF Inv, TypeOK, PointNrs
  <2> QED
    BY <1>2, <2>1, <2>2, OneBlock
<1> QED
  BY <1>1, <1>2, <1>3 DEF TransformInv

(* The other steps leave the memory and the input alone. *)
LEMMA TransformKept ==
    ASSUME TransformInv, UNCHANGED <<fft, fftIs, mem, loop>>,
           pc' = "calculate" <=> pc = "calculate"
    PROVE  TransformInv'
BY DEF TransformInv

LEMMA OtherKeeps ==
    ASSUME MainTask, pc \notin {"decimate", "calculate"}
    PROVE  UNCHANGED <<fft, fftIs>> /\ pc # "calculate" /\ pc' # "calculate"
<1> USE DEF handlerVars, memVars
<1>1. CASE Receive
  BY <1>1 DEF Receive, ReceiveKeeping, Start
<1>2. CASE Delay \/ Wait \/ HkWrite
  BY <1>2 DEF Delay, Wait, HkWrite
<1>3. CASE Answer \/ Settle \/ SendSignal \/ SendFFT
  BY <1>3 DEF Answer, Settle, SendSignal, SendFFT, Proceed
<1>4. ASSUME NEW ok \in BOOLEAN, ReadSignal(ok) \/ ReadFFT(ok) \/ HkSend(ok) \/ Reply(ok)
      PROVE  UNCHANGED <<fft, fftIs>> /\ pc' # "calculate"
  BY <1>4 DEF ReadSignal, ReadSignalNaming, ReadFFT, HkSend, Reply
<1>5. CASE Decimate \/ Calculate
  BY <1>5 DEF Decimate, Calculate
<1> QED
  BY <1>1, <1>2, <1>3, <1>4, <1>5 DEF MainTask

LEMMA TransformStep ==
    Inv /\ Inv' /\ MeasuredInv /\ TransformInv /\ [SpectrumNext]_spectrumVars => TransformInv'
<1> SUFFICES ASSUME Inv, Inv', MeasuredInv, TransformInv, [SpectrumNext]_spectrumVars
             PROVE  TransformInv'
  OBVIOUS
<1>1. CASE Store
  BY <1>1, TransformStore
<1>2. CASE Butterfly
  BY <1>2, TransformButterfly
<1>3. CASE Calculated
  BY <1>3, TransformCalculated
<1>4. CASE Other
  BY <1>4, OtherKeeps, TransformKept DEF Other
<1>5. CASE (Interrupt \/ CspTask \/ Idle) /\ UNCHANGED <<mem, loop>>
  <2>1. UNCHANGED <<fft, fftIs, pc>>
    BY <1>5 DEF Interrupt, Sample, SampleAt, CspTask, Dispatch, Idle, vars, taskVars, memVars
  <2> QED
    BY <1>5, <2>1, TransformKept
<1>6. CASE UNCHANGED spectrumVars
  BY <1>6, TransformKept DEF spectrumVars, vars
<1> QED
  BY <1>1, <1>2, <1>3, <1>4, <1>5, <1>6 DEF SpectrumNext, SpectrumTask

LEMMA TransformAlways == SpectrumSpec => [](Inv /\ MeasuredInv /\ TransformInv)
BY TransformInit, TransformStep, MeasurementUnchanged, MeasuredAlways, PTL DEF SpectrumSpec

(* Where the pointers are, and what the blocks hold, at each step of the loops. *)
LEMMA PointersFit == TransformInv => PointersStay
<1> SUFFICES ASSUME TransformInv PROVE PointersStay
  OBVIOUS
<1>1. /\ LoopFits(loop) /\ mem \in [PointNrs -> Values]
      /\ Points \in Nat /\ loop.n \in Nat \ {0} /\ loop.n <= Points
  BY PointsHalved DEF TransformInv, LoopFits
<1>2. ASSUME loop.n < Points
      PROVE  loop.a >= 0 /\ loop.a + loop.n < Points /\ loop.fnk \in 0 .. Points \div 2
  <2> DEFINE n == loop.n
             e == loop.angf
             k == loop.k
             s == loop.s
             a == loop.a
  <2>1. /\ n \in Nat \ {0} /\ e \in Nat /\ k \in Nat /\ s \in Nat /\ n * (2 * e) = Points
        /\ k < n /\ s < e /\ a = s * (2 * n) + k /\ loop.fnk = k * e
    BY <1>1, <1>2 DEF LoopFits
  <2> HIDE DEF n, e, k, s, a
  <2>2. e \in Nat \ {0} /\ (2 * n) * e = Points
    BY <2>1, GroupsLeft
  <2>3. k + n \in 0 .. 2 * n - 1 /\ s \in 0 .. e - 1 /\ 2 * n \in Nat \ {0}
    BY <2>1
  <2>4. s * (2 * n) + (k + n) \in PointNrs /\ s * (2 * n) \in PointNrs
    BY <2>2, <2>3, BlockBound
  <2>5. a >= 0 /\ a + n < Points
    BY <1>1, <2>1, <2>4 DEF PointNrs
  <2>6. k * e \in Nat /\ k * e <= n * e
    <3>1. (n - k) * e >= 0 /\ (n - k) * e = n * e - k * e
      BY <2>1
    <3> QED
      BY <2>1, <3>1
  <2>7. n * e = Points \div 2
    <3> DEFINE p == n * e
    <3>1. n * (2 * e) = 2 * p /\ p \in Int
      BY <2>1
    <3> HIDE DEF p
    <3>2. Points = 2 * p
      BY <2>1, <3>1
    <3> QED
      BY <3>1, <3>2 DEF p
  <2> QED
    BY <2>1, <2>5, <2>6, <2>7 DEF n, a
<1> QED
  BY <1>1, <1>2 DEF PointersStay

LEMMA BlocksHold == Inv /\ TransformInv => BlocksAreTransforms
<1> SUFFICES ASSUME Inv, TransformInv, pc = "calculate", loop.k = 0, loop.s = 0
             PROVE  \A c \in 0 .. (Points \div loop.n) - 1, i \in 0 .. loop.n - 1 :
                        mem[c * loop.n + i] =
                        Transform([j \in 0 .. loop.n - 1 |->
                                     fft[BitRev[c * loop.n] + j * (Points \div loop.n)]],
                                  loop.n)[i]
  BY DEF BlocksAreTransforms
<1> DEFINE n == loop.n
           d == Points \div loop.n
<1>1. LoopFits(loop) /\ Carried(fft, mem, loop)
  BY DEF TransformInv
<1>2. Points \in Nat /\ Points > 0 /\ n \in Nat \ {0} /\ n <= Points
  BY <1>1, PointsHalved DEF LoopFits
<1>3. Blocks(fft, mem, n, d)
  <2>1. CASE n = Points
    <3>1. d = 1
      BY <1>2, <2>1, DivisionUnique
    <3> QED
      BY <1>1, <2>1, <3>1 DEF Carried
  <2>2. CASE n < Points
    <3> DEFINE e == loop.angf
    <3>1. e \in Nat /\ n * (2 * e) = Points /\ Starts(n, 2 * e)
      BY <1>1, <2>2 DEF LoopFits
    <3>2. Progress(fft, mem, n, e, 0, 0)
      BY <1>1, <2>2 DEF Carried
    <3> HIDE DEF n, e
    <3>3. e \in Nat \ {0} /\ Points \div n = 2 * e
      BY <1>2, <3>1, GroupsLeft
    <3>4. Blocks(fft, mem, n, 2 * e)
      BY <1>2, <3>1, <3>2, <3>3, ProgressBegins
    <3> QED
      BY <3>3, <3>4 DEF n
  <2> QED
    BY <1>2, <2>1, <2>2
<1> HIDE DEF n
<1>4. ASSUME NEW c \in 0 .. d - 1, NEW i \in 0 .. n - 1
      PROVE  mem[c * n + i] = Transform(Spread(fft, BitRev[c * n], d, n), n)[i]
  <2>1. mem[c * n + i] = Cell(fft, BitRev[c * n], n, d, i)
    BY <1>3, <1>4 DEF Blocks
  <2> DEFINE x == Spread(fft, BitRev[c * n], d, n)
  <2> HIDE DEF x
  <2>2. Transform(x, n)[i] = Frequency(x, n, d, i) % Modulus
    BY <1>4 DEF Transform, Frequency, n
  <2> QED
    BY <2>1, <2>2 DEF Cell, x
<1> QED
  BY <1>4 DEF Spread, n

(* FFT_calculate keeps to the area of the transform and to the table, and        *)
(* joins blocks until one is left, the transform of all points.               *)
THEOREM TransformIsRight == SpectrumSpec => []LoopInvariant
BY TransformAlways, PointersFit, BlocksHold, PTL DEF LoopInvariant

(* sendFFT reads the transform of the latest measurement, decimated and less its *)
(* mean.                                                                     *)
THEOREM SpectrumReported == SpectrumSpec => []ReadsTransformOfLatest
<1>1. Inv /\ MeasuredInv /\ TransformInv => ReadsTransformOfLatest
  <2> SUFFICES ASSUME Inv, MeasuredInv, TransformInv, pc = "readFFT", fftIs # "unknown"
               PROVE  mem = Transform(Decimated(Word, Mean), Points)
    BY DEF ReadsTransformOfLatest, Word, Mean
  <2>1. fftIs = "spectrum"
    BY DEF Inv, TypeOK, MeasuredInv
  <2>2. fft = Decimated(Word, Mean)
    BY DEF MeasuredInv, Waiting
  <2> QED
    BY <2>1, <2>2 DEF TransformInv
<1> QED
  BY <1>1, TransformAlways, PTL
=============================================================================
