---------------------------- MODULE TwiSlaveProofs ----------------------------
(***************************************************************************)
(* Theorems about TwiSlave, for every size of the buffer and the header, and  *)
(* for every behaviour of the bus; and about FrameLife, for every length of   *)
(* the FIFO.                                                                 *)
(***************************************************************************)
EXTENDS FrameLife, QueueLemmas

(* Which flags go with which state of the bus and of the stop interrupt.      *)
FlagInv ==
    /\ flag \in {"address", "data", "unexpected"} => bus = "us"
    /\ flag \in {"error", "collision"} => bus = "other"
    /\ flag = "stop" => bus = "idle" /\ pien
    /\ bus = "us" \/ bytesReceived > 0 => txn >= 1

(* In a write, the driver has counted every byte the master has put.          *)
CountInv ==
    /\ flag = "address" => put = 0
    /\ dir = "write" /\ bus = "us" /\ flag \in {"none", "unexpected"} => bytesReceived = put
    /\ dir = "write" /\ flag = "data" => put = bytesReceived + 1
    /\ dir = "read" /\ flag # "address" => bytesReceived = 0
    /\ bytesReceived <= MaxBytes

(* What the driver has counted is the beginning of the latest transaction,    *)
(* except that a new one has just begun and the counter is still to be reset. *)
DataInv == flag # "address" => \A i \in 1 .. bytesReceived : receivedData[i] = <<txn, i>>

Real(packets) == {i \in DOMAIN packets : packets[i] # Junk}

(* A packet of the latest transaction has been handed on only once the slave   *)
(* is out of it and no stop interrupt can come any more.                      *)
OnceInv ==
    \A i \in Real(frames) : /\ From(frames[i]) \in 1 .. txn
                            /\ bus = "us" \/ pien => From(frames[i]) < txn

Inv == TypeOK /\ FlagInv /\ CountInv /\ DataInv /\ OnceInv /\ BeginsOneWrite

(* The beginning of a write is a packet, not junk, and tells which write.      *)
LEMMA StartFacts ==
    ASSUME NEW t \in 1 .. MaxTransactions, NEW n \in Header .. MaxBytes
    PROVE  /\ Start(t, n) \in Packets
           /\ From(Start(t, n)) = t
           /\ Start(t, n) # Junk
<1> DEFINE b == [i \in 1 .. n |-> <<t, i>>]
<1>1. /\ Header \in Nat /\ Header >= 1 /\ n \in Nat /\ n >= Header
      /\ b \in Seq(Bytes) /\ Len(b) = n
  BY TwiSlaveAssumption DEF Bytes
<1> HIDE DEF b
<1>2. /\ SubSeq(b, 1, Header) \in Seq(Bytes)
      /\ SubSeq(b, Header + 1, n) \in Seq(Bytes)
      /\ SubSeq(b, 1, Header)[1] = b[1]
      /\ Len(SubSeq(b, 1, Header)) = Header
  BY <1>1, SubSeqProperties
<1>3. b[1] = <<t, 1>>
  BY <1>1 DEF b
<1>4. Start(t, n) = [header |-> SubSeq(b, 1, Header), payload |-> SubSeq(b, Header + 1, n)]
  BY <1>1 DEF Start, Packet, b
<1>5. SubSeq(b, 1, Header) # <<>>
  BY <1>1, <1>2
<1> QED
  BY <1>2, <1>3, <1>4, <1>5 DEF Packets, From, Junk

(* Junk is a packet. *)
LEMMA JunkFacts == Junk \in Packets
BY DEF Junk, Packets

LEMMA InvInit == Init => Inv
<1> SUFFICES ASSUME Init PROVE Inv
  OBVIOUS
<1> USE TwiSlaveAssumption DEF Init
<1>1. TypeOK
  <2>1. receivedData \in [1 .. Buffer -> Bytes \union {NoByte}]
    OBVIOUS
  <2>2. /\ written \in Seq((1 .. MaxTransactions) \X (1 .. MaxBytes))
        /\ frames \in Seq(Packets)
    OBVIOUS
  <2>3. bytesReceived \in 0 .. Buffer /\ bytesSent \in 0 .. SendBuffer
        /\ txn \in 0 .. MaxTransactions /\ put \in 0 .. MaxBytes
    OBVIOUS
  <2> QED
    BY <2>1, <2>2, <2>3 DEF TypeOK
<1>2. FlagInv /\ CountInv /\ DataInv
  BY DEF FlagInv, CountInv, DataInv
<1>3. OnceInv /\ BeginsOneWrite
  BY DEF OnceInv, BeginsOneWrite, Real
<1> QED
  BY <1>1, <1>2, <1>3 DEF Inv

(* Handing on junk, or the first packet of the latest transaction, keeps the  *)
(* packets in order.                                                         *)
LEMMA AppendPacket ==
    ASSUME Inv, NEW p \in Packets, frames' = Append(frames, p),
           \/ p = Junk
           \/ /\ From(p) = txn
              /\ \E n \in Header .. Buffer : p = Start(txn, n)
              /\ \A i \in Real(frames) : From(frames[i]) < txn
    PROVE  /\ frames' \in Seq(Packets)
           /\ BeginsOneWrite'
           /\ \A i \in Real(frames') :
                \/ i \in Real(frames) /\ frames'[i] = frames[i]
                \/ p # Junk /\ frames'[i] = p
<1> DEFINE n == Len(frames)
<1>1. /\ n \in Nat /\ DOMAIN frames = 1 .. n
      /\ frames' \in Seq(Packets)
      /\ DOMAIN frames' = 1 .. n + 1
      /\ \A i \in 1 .. n : frames'[i] = frames[i]
      /\ frames'[n + 1] = p
  BY AppendProperties, LenProperties DEF Inv, TypeOK
<1> HIDE DEF n
<1>2. \A i \in Real(frames') :
        \/ i \in Real(frames) /\ i \in 1 .. n /\ frames'[i] = frames[i]
        \/ i = n + 1 /\ p # Junk /\ frames'[i] = p
  BY <1>1 DEF Real
<1>3. /\ \A i \in Real(frames) : \E m \in Header .. Buffer : frames[i] = Start(From(frames[i]), m)
      /\ \A i, j \in Real(frames) : i < j => From(frames[i]) < From(frames[j])
  BY DEF Inv, BeginsOneWrite, Real
<1>4. \A i \in Real(frames') : \E m \in Header .. Buffer : frames'[i] = Start(From(frames'[i]), m)
  BY <1>2, <1>3
<1>5. \A i, j \in Real(frames') : i < j => From(frames'[i]) < From(frames'[j])
  <2> SUFFICES ASSUME NEW i \in Real(frames'), NEW j \in Real(frames'), i < j
               PROVE  From(frames'[i]) < From(frames'[j])
    OBVIOUS
  <2>1. i \in Real(frames) /\ i \in 1 .. n /\ frames'[i] = frames[i]
    BY <1>1, <1>2 DEF Real
  <2>2. CASE j \in Real(frames) /\ frames'[j] = frames[j]
    BY <1>3, <2>1, <2>2
  <2>3. CASE p # Junk /\ frames'[j] = p
    BY <2>1, <2>3
  <2> QED
    BY <1>2, <2>2, <2>3
<1>6. BeginsOneWrite'
  BY <1>4, <1>5 DEF BeginsOneWrite, Real
<1> QED
  BY <1>1, <1>2, <1>6

(* A step that hands nothing on keeps the packets as they are, if it does not  *)
(* bring the slave back into a transaction it has left.                       *)
LEMMA NothingHandedOn ==
    ASSUME Inv, frames' = frames, txn' \in Nat,
           \/ txn' > txn
           \/ txn' = txn /\ (bus' = "us" \/ pien' => bus = "us" \/ pien)
    PROVE  OnceInv' /\ BeginsOneWrite'
<1>1. BeginsOneWrite'
  BY DEF Inv, BeginsOneWrite
<1>2. txn \in Nat /\ Real(frames') = Real(frames)
  BY TwiSlaveAssumption DEF Inv, TypeOK, Real
<1>3. \A i \in Real(frames) : /\ From(frames[i]) \in 1 .. txn
                              /\ bus = "us" \/ pien => From(frames[i]) < txn
  BY DEF Inv, OnceInv
<1>4. OnceInv'
  BY <1>2, <1>3 DEF OnceInv
<1> QED
  BY <1>1, <1>4

(* Every step of the bus keeps the invariant. *)
LEMMA BusStep == Inv /\ Bus => Inv'
<1> SUFFICES ASSUME Inv, Bus PROVE Inv'
  OBVIOUS
<1>0. TypeOK /\ FlagInv /\ CountInv /\ DataInv
  BY DEF Inv
<1> USE TwiSlaveAssumption, <1>0
<1>1. CASE BusStart
  <2> USE <1>1 DEF BusStart, driverVars
  <2>1. TypeOK'
    BY DEF TypeOK
  <2>2. FlagInv' /\ CountInv' /\ DataInv'
    BY DEF TypeOK, FlagInv, CountInv, DataInv
  <2>3. OnceInv' /\ BeginsOneWrite'
    BY NothingHandedOn DEF TypeOK
  <2> QED
    BY <2>1, <2>2, <2>3 DEF Inv
<1>2. CASE BusElsewhere
  <2> USE <1>2 DEF BusElsewhere, driverVars
  <2>1. TypeOK'
    BY DEF TypeOK
  <2>2. FlagInv' /\ CountInv' /\ DataInv'
    BY DEF TypeOK, FlagInv, CountInv, DataInv
  <2>3. OnceInv' /\ BeginsOneWrite'
    BY NothingHandedOn DEF TypeOK
  <2> QED
    BY <2>1, <2>2, <2>3 DEF Inv
<1>3. CASE BusPut
  <2> USE <1>3 DEF BusPut, driverVars
  <2>1. TypeOK'
    BY DEF TypeOK
  <2>2. FlagInv' /\ CountInv' /\ DataInv'
    BY DEF TypeOK, FlagInv, CountInv, DataInv
  <2>3. OnceInv' /\ BeginsOneWrite'
    BY NothingHandedOn DEF TypeOK
  <2> QED
    BY <2>1, <2>2, <2>3 DEF Inv
<1>4. CASE BusGet
  <2> USE <1>4 DEF BusGet, driverVars
  <2>1. TypeOK'
    BY DEF TypeOK
  <2>2. FlagInv' /\ CountInv' /\ DataInv'
    BY DEF TypeOK, FlagInv, CountInv, DataInv
  <2>3. OnceInv' /\ BeginsOneWrite'
    BY NothingHandedOn DEF TypeOK
  <2> QED
    BY <2>1, <2>2, <2>3 DEF Inv
<1>5. CASE BusStop
  <2> USE <1>5 DEF BusStop, driverVars
  <2>1. TypeOK'
    <3>1. CASE bus = "us" /\ dir = "write" /\ put > 0
      <4>1. txn \in 1 .. MaxTransactions /\ put \in 1 .. MaxBytes
        BY <3>1 DEF TypeOK, FlagInv
      <4>2. written' \in Seq((1 .. MaxTransactions) \X (1 .. MaxBytes))
        BY <3>1, <4>1, AppendProperties DEF TypeOK
      <4> QED
        BY <4>2 DEF TypeOK
    <3>2. CASE ~(bus = "us" /\ dir = "write" /\ put > 0)
      BY <3>2 DEF TypeOK
    <3> QED
      BY <3>1, <3>2
  <2>2. FlagInv' /\ CountInv' /\ DataInv'
    BY DEF TypeOK, FlagInv, CountInv, DataInv
  <2>3. OnceInv' /\ BeginsOneWrite'
    BY NothingHandedOn DEF TypeOK
  <2> QED
    BY <2>1, <2>2, <2>3 DEF Inv
<1>6. CASE BusFail
  <2> USE <1>6 DEF BusFail, driverVars
  <2>1. TypeOK'
    BY DEF TypeOK
  <2>2. FlagInv' /\ CountInv' /\ DataInv'
    BY DEF TypeOK, FlagInv, CountInv, DataInv
  <2>3. OnceInv' /\ BeginsOneWrite'
    BY NothingHandedOn DEF TypeOK
  <2> QED
    BY <2>1, <2>2, <2>3 DEF Inv
<1> QED
  BY <1>1, <1>2, <1>3, <1>4, <1>5, <1>6 DEF Bus

(* A transaction that does not end OK hands nothing on. *)
LEMMA NotOK == \A r : ProcessData(r) /\ r # "OK" => frames' = frames
BY DEF ProcessData

(* A stop interrupt hands on the beginning of the latest transaction, or       *)
(* nothing, or junk if nothing was received.                                  *)
LEMMA StopStep == Inv /\ Stop => Inv'
<1> SUFFICES ASSUME Inv, Stop PROVE Inv'
  OBVIOUS
<1>0. TypeOK /\ FlagInv /\ CountInv /\ DataInv
  BY DEF Inv
<1> DEFINE b == [i \in 1 .. bytesReceived |-> receivedData[i]]
           n == bytesReceived
<1>1. /\ flag = "stop" /\ flag' = "none" /\ pien' = FALSE /\ bus = "idle" /\ bus' = bus /\ pien
      /\ result' = "OK" /\ status' = "READY" /\ ProcessData("OK")
      /\ UNCHANGED <<dir, nack, txn, put, written, bytesReceived, bytesSent, receivedData>>
  BY <1>0 DEF Stop, Handled, TransactionFinished, FlagInv
<1>2. n \in Nat /\ n <= Buffer /\ n <= MaxBytes /\ txn \in Nat /\ Header \in Nat /\ Buffer \in Nat /\ MaxBytes \in Nat
  BY <1>0, TwiSlaveAssumption DEF TypeOK, CountInv
<1>3. /\ \A i \in Real(frames) : From(frames[i]) < txn /\ From(frames[i]) \in 1 .. txn
  BY <1>1 DEF Inv, OnceInv
<1>4. CASE frames' = frames
  <2>1. OnceInv' /\ BeginsOneWrite'
    BY <1>1, <1>2, <1>4, NothingHandedOn
  <2>2. TypeOK'
    BY <1>0, <1>1, <1>4 DEF TypeOK
  <2>3. FlagInv' /\ CountInv' /\ DataInv'
    BY <1>0, <1>1 DEF FlagInv, CountInv, DataInv
  <2> QED
    BY <2>1, <2>2, <2>3 DEF Inv
<1>5. ASSUME NEW p \in Packets, frames' = Append(frames, p),
             p = Junk \/ (From(p) = txn /\ txn >= 1 /\ \E m \in Header .. Buffer : p = Start(txn, m))
      PROVE  Inv'
  <2>1. /\ frames' \in Seq(Packets)
        /\ BeginsOneWrite'
        /\ \A i \in Real(frames') :
              \/ i \in Real(frames) /\ frames'[i] = frames[i]
              \/ p # Junk /\ frames'[i] = p
    BY <1>3, <1>5, AppendPacket
  <2>2. OnceInv'
    <3>1. \A i \in Real(frames') : From(frames'[i]) \in 1 .. txn
      <4>1. txn \in Nat /\ (p = Junk \/ From(p) \in 1 .. txn)
        BY <1>2, <1>5
      <4> SUFFICES ASSUME NEW i \in Real(frames') PROVE From(frames'[i]) \in 1 .. txn
        OBVIOUS
      <4>2. CASE i \in Real(frames) /\ frames'[i] = frames[i]
        BY <1>3, <4>2
      <4>3. CASE p # Junk /\ frames'[i] = p
        BY <4>1, <4>3
      <4> QED
        BY <2>1, <4>2, <4>3
    <3> QED
      BY <1>1, <3>1 DEF OnceInv
  <2>3. TypeOK'
    BY <1>0, <1>1, <2>1 DEF TypeOK
  <2>4. FlagInv' /\ CountInv' /\ DataInv'
    BY <1>0, <1>1 DEF FlagInv, CountInv, DataInv
  <2> QED
    BY <2>1, <2>2, <2>3, <2>4 DEF Inv
<1>6. CASE n = 0
  <2>1. frames' = frames \/ frames' = Append(frames, Junk)
    BY <1>1, <1>6 DEF ProcessData
  <2> QED
    BY <1>4, <1>5, <2>1, JunkFacts
<1>7. CASE n > 0
  <2>1. Rx(b)
    BY <1>1, <1>7 DEF ProcessData
  <2>2. b = [i \in 1 .. n |-> <<txn, i>>]
    BY <1>0, <1>1 DEF DataInv
  <2>3. txn \in 1 .. MaxTransactions
    BY <1>0, <1>7 DEF FlagInv, TypeOK
  <2>4. Len(b) = n
    BY <1>2
  <2>5. CASE n < Header
    BY <1>4, <2>1, <2>4, <2>5 DEF Rx
  <2>6. CASE n >= Header
    <3>1. n \in Header .. MaxBytes /\ n \in Header .. Buffer
      BY <1>2, <2>6
    <3>2. frames' = Append(frames, Start(txn, n))
      <4>1. ~(Len(b) < Header)
        BY <1>2, <2>4, <2>6
      <4>2. frames' = Append(frames, Packet(b))
        BY <2>1, <4>1 DEF Rx
      <4> QED
        BY <2>2, <4>2 DEF Start
    <3>3. Start(txn, n) \in Packets /\ From(Start(txn, n)) = txn
      BY <2>3, <3>1, StartFacts
    <3> QED
      BY <1>5, <2>3, <3>1, <3>2, <3>3
  <2> QED
    BY <1>2, <2>5, <2>6
<1> QED
  BY <1>2, <1>6, <1>7

(* A master that reads gets nothing handed on but, at most, junk. *)
LEMMA WriteStep == Inv /\ Write => Inv'
<1> SUFFICES ASSUME Inv, Write PROVE Inv'
  OBVIOUS
<1>0. TypeOK /\ FlagInv /\ CountInv /\ DataInv
  BY DEF Inv
<1>1. /\ flag = "data" /\ flag' = "none" /\ dir = "read" /\ bus = "us" /\ bytesReceived = 0
      /\ UNCHANGED <<dir, nack, txn, put, written, bytesReceived, receivedData, pien>>
      /\ txn \in Nat
  BY <1>0, TwiSlaveAssumption DEF Write, Handled, FlagInv, CountInv, TypeOK
<1>2. /\ bytesSent' \in 0 .. SendBuffer
      /\ result' \in {"OK", "BUFFER_OVERFLOW", result}
      /\ status' \in {"READY", status}
      /\ bus' \in {"us", "other"}
      /\ frames' = frames \/ frames' = Append(frames, Junk)
  <2>1. CASE bytesSent > 0 /\ nack
    BY <1>0, <1>1, <2>1 DEF Write, Complete, TransactionFinished, ProcessData, TypeOK
  <2>2. CASE ~(bytesSent > 0 /\ nack) /\ bytesSent < SendBuffer
    BY <1>0, <1>1, <2>2, TwiSlaveAssumption DEF Write, TypeOK
  <2>3. CASE ~(bytesSent > 0 /\ nack) /\ bytesSent >= SendBuffer
    BY <1>0, <1>1, <2>3, TwiSlaveAssumption
    DEF Write, Complete, TransactionFinished, ProcessData, TypeOK
  <2> QED
    BY <1>0, <2>1, <2>2, <2>3, TwiSlaveAssumption DEF TypeOK
<1>3. frames' \in Seq(Packets) /\ OnceInv' /\ BeginsOneWrite'
  <2>1. CASE frames' = frames
    BY <1>0, <1>1, <1>2, <2>1, NothingHandedOn DEF TypeOK
  <2>2. CASE frames' = Append(frames, Junk)
    <3>1. /\ frames' \in Seq(Packets)
          /\ BeginsOneWrite'
          /\ \A i \in Real(frames') : i \in Real(frames) /\ frames'[i] = frames[i]
      BY <2>2, JunkFacts, AppendPacket
    <3> QED
      BY <1>1, <1>2, <3>1 DEF Inv, OnceInv
  <2> QED
    BY <1>2, <2>1, <2>2
<1>4. TypeOK'
  BY <1>0, <1>1, <1>2, <1>3 DEF TypeOK
<1>5. FlagInv' /\ CountInv' /\ DataInv'
  BY <1>0, <1>1, <1>2 DEF FlagInv, CountInv, DataInv
<1> QED
  BY <1>3, <1>4, <1>5 DEF Inv

(* A byte received is the next one of the latest transaction. *)
LEMMA ReadStep == Inv /\ Read => Inv'
<1> SUFFICES ASSUME Inv, Read PROVE Inv'
  OBVIOUS
<1>0. TypeOK /\ FlagInv /\ CountInv /\ DataInv
  BY DEF Inv
<1>1. /\ flag = "data" /\ flag' = "none" /\ dir = "write" /\ bus = "us" /\ pien' = TRUE
      /\ put = bytesReceived + 1
      /\ txn \in 1 .. MaxTransactions /\ put \in 1 .. MaxBytes
      /\ UNCHANGED <<dir, nack, txn, put, written, bytesSent>>
  <2>1. flag = "data" /\ flag' = "none" /\ dir = "write" /\ pien' = TRUE
        /\ UNCHANGED <<dir, nack, txn, put, written, bytesSent>>
    BY DEF Read, Handled
  <2> QED
    BY <1>0, <2>1, TwiSlaveAssumption DEF FlagInv, CountInv, TypeOK
<1>2. frames' = frames
  BY NotOK DEF Read, TransactionFinished
<1>3. OnceInv' /\ BeginsOneWrite'
  BY <1>1, <1>2, NothingHandedOn
<1>4. CASE bytesReceived < Buffer
  <2>1. /\ receivedData' = [receivedData EXCEPT ![bytesReceived + 1] = <<txn, put>>]
        /\ bytesReceived' = bytesReceived + 1
        /\ UNCHANGED <<status, result, bus>>
    BY <1>0, <1>4, TwiSlaveAssumption DEF Read, TypeOK
  <2>2. <<txn, put>> \in Bytes
    BY <1>1 DEF Bytes
  <2>3. receivedData' \in [1 .. Buffer -> Bytes \union {NoByte}] /\ bytesReceived' \in 0 .. Buffer
    BY <1>0, <1>4, <2>1, <2>2, TwiSlaveAssumption DEF TypeOK
  <2>4. TypeOK'
    BY <1>0, <1>1, <1>2, <2>1, <2>3 DEF TypeOK
  <2>5. FlagInv' /\ CountInv'
    BY <1>0, <1>1, <2>1, TwiSlaveAssumption DEF FlagInv, CountInv, TypeOK
  <2>6. DataInv'
    <3> SUFFICES ASSUME NEW i \in 1 .. bytesReceived + 1
                 PROVE  receivedData'[i] = <<txn, i>>
      BY <1>1, <2>1 DEF DataInv
    <3>1. bytesReceived \in Nat /\ i \in 1 .. Buffer /\ Buffer \in Nat
      BY <1>0, <1>4, TwiSlaveAssumption DEF TypeOK
    <3>2. CASE i = bytesReceived + 1
      BY <1>0, <1>1, <2>1, <3>1, <3>2 DEF TypeOK
    <3>3. CASE i \in 1 .. bytesReceived
      BY <1>0, <1>1, <2>1, <3>1, <3>3 DEF TypeOK, DataInv
    <3> QED
      BY <3>1, <3>2, <3>3
  <2> QED
    BY <1>3, <2>4, <2>5, <2>6 DEF Inv
<1>5. CASE bytesReceived >= Buffer
  <2>1. /\ bus' = "other" /\ result' = "BUFFER_OVERFLOW" /\ status' = "READY"
        /\ UNCHANGED <<bytesReceived, receivedData>>
    BY <1>0, <1>5, TwiSlaveAssumption DEF Read, Complete, TransactionFinished, TypeOK
  <2>2. TypeOK'
    BY <1>0, <1>1, <1>2, <2>1 DEF TypeOK
  <2>3. FlagInv' /\ CountInv' /\ DataInv'
    BY <1>0, <1>1, <2>1 DEF FlagInv, CountInv, DataInv
  <2> QED
    BY <1>3, <2>2, <2>3 DEF Inv
<1> QED
  BY <1>0, <1>4, <1>5, TwiSlaveAssumption DEF TypeOK

(* Every run of the interrupt handler keeps the invariant. *)
LEMMA HandlerStep == Inv /\ InterruptHandler => Inv'
<1> SUFFICES ASSUME Inv, InterruptHandler PROVE Inv'
  OBVIOUS
<1>0. TypeOK /\ FlagInv /\ CountInv /\ DataInv
  BY DEF Inv
<1> USE TwiSlaveAssumption, <1>0
<1>1. CASE Reset("error", "BUS_ERROR") \/ Reset("collision", "TRANSMIT_COLLISION")
  <2>1. /\ flag' = "none" /\ flag # "address" /\ bytesReceived' = 0 /\ bytesSent' = 0
        /\ result' \in {"BUS_ERROR", "TRANSMIT_COLLISION"} /\ status' = "READY"
        /\ bus # "us"
        /\ UNCHANGED <<receivedData, pien, bus, frames, dir, nack, txn, put, written>>
    BY <1>1 DEF Reset, Handled, FlagInv
  <2> USE <2>1
  <2>2. TypeOK'
    BY DEF TypeOK
  <2>3. FlagInv' /\ CountInv' /\ DataInv'
    BY DEF TypeOK, FlagInv, CountInv, DataInv
  <2>4. OnceInv' /\ BeginsOneWrite'
    BY NothingHandedOn DEF TypeOK
  <2> QED
    BY <2>2, <2>3, <2>4 DEF Inv
<1>2. CASE AddressMatch
  <2>1. /\ flag = "address" /\ flag' = "none" /\ bytesReceived' = 0 /\ bytesSent' = 0
        /\ result' = "UNKNOWN" /\ status' = "BUSY" /\ pien' = FALSE
        /\ UNCHANGED <<receivedData, bus, frames, dir, nack, txn, put, written>>
    BY <1>2 DEF AddressMatch, Handled
  <2> USE <2>1
  <2>2. TypeOK'
    <3>1. bytesReceived' \in 0 .. Buffer /\ bytesSent' \in 0 .. SendBuffer
      OBVIOUS
    <3> QED
      BY <3>1 DEF TypeOK
  <2>3. FlagInv' /\ CountInv' /\ DataInv'
    BY DEF TypeOK, FlagInv, CountInv, DataInv
  <2>4. OnceInv' /\ BeginsOneWrite'
    BY NothingHandedOn DEF TypeOK
  <2> QED
    BY <2>2, <2>3, <2>4 DEF Inv
<1>3. CASE Unexpected
  <2>1. /\ flag = "unexpected" /\ result' = "FAIL" /\ status' = "READY" /\ frames' = frames
        /\ Handled
        /\ UNCHANGED <<bytesReceived, bytesSent, receivedData, pien, bus>>
    BY <1>3, NotOK DEF Unexpected, TransactionFinished
  <2> USE <2>1 DEF Handled
  <2>2. TypeOK'
    BY DEF TypeOK
  <2>3. FlagInv' /\ CountInv' /\ DataInv'
    BY DEF TypeOK, FlagInv, CountInv, DataInv
  <2>4. OnceInv' /\ BeginsOneWrite'
    BY NothingHandedOn DEF TypeOK
  <2> QED
    BY <2>2, <2>3, <2>4 DEF Inv
<1> QED
  BY <1>1, <1>2, <1>3, StopStep, ReadStep, WriteStep DEF InterruptHandler, Data

LEMMA InvStep == Inv /\ [Next]_vars => Inv'
<1> SUFFICES ASSUME Inv, UNCHANGED vars PROVE Inv'
  BY BusStep, HandlerStep DEF Next, Quiet
<1> QED
  BY DEF vars, Inv, TypeOK, FlagInv, CountInv, DataInv, OnceInv, BeginsOneWrite, Real

LEMMA Invariance == Spec => []Inv
BY InvInit, InvStep, PTL DEF Spec

-----------------------------------------------------------------------------

(* The driver never writes outside its buffers, whatever the masters on the    *)
(* bus send, and hands on no packet but junk that was not received.           *)
THEOREM TypeCorrect == Spec => []TypeOK
BY Invariance, PTL DEF Inv

(* Whatever happens on the bus, a packet with content is the beginning of one   *)
(* write, every write is handed on at most once, and in the order of the       *)
(* writes: the counters and the stop interrupt left over from one transaction  *)
(* never reach the next.                                                     *)
THEOREM PacketsBeginWrites == Spec => []BeginsOneWrite
BY Invariance, PTL DEF Inv

(* What makes a write arrive: a byte counted leaves the stop interrupt enabled, *)
(* the latest write ended is one of the transactions so far, and once it has    *)
(* ended either its STOP is still to be handled or it has been handed on.       *)
Latest == written[Len(written)]

EnabledInv ==
    bus = "us" /\ dir = "write" /\ flag \in {"none", "unexpected"} /\ put > 0 => pien

EndedInv ==
    written # <<>> => Latest[1] \in 1 .. txn /\ (bus = "us" => Latest[1] < txn)

HandedOnInv ==
    written # <<>> /\ Latest[1] = txn =>
        \/ flag = "stop" /\ bytesReceived = Latest[2]
        \/ /\ flag = "none" /\ ~pien /\ bus # "us"
           /\ Latest[2] \in Header .. Buffer =>
                 frames # <<>> /\ frames[Len(frames)] = Start(txn, Latest[2])

Arrival == EnabledInv /\ EndedInv /\ HandedOnInv

LEMMA ArrivalInit == Init => Arrival
BY DEF Init, Arrival, EnabledInv, EndedInv, HandedOnInv

LEMMA ArrivalBus == Inv /\ Arrival /\ Bus => Arrival'
<1> SUFFICES ASSUME Inv, Arrival, Bus PROVE Arrival'
  OBVIOUS
<1>0. TypeOK /\ FlagInv /\ CountInv /\ EnabledInv /\ EndedInv /\ HandedOnInv
  BY DEF Inv, Arrival
<1>1. txn \in Nat /\ put \in Nat
  BY <1>0, TwiSlaveAssumption DEF TypeOK
<1>2. CASE BusStart
  BY <1>0, <1>1, <1>2 DEF BusStart, driverVars, Arrival, EnabledInv, EndedInv, HandedOnInv, Latest
<1>3. CASE BusElsewhere
  BY <1>0, <1>1, <1>3 DEF BusElsewhere, driverVars, Arrival, EnabledInv, EndedInv, HandedOnInv, Latest
<1>4. CASE BusPut
  BY <1>0, <1>1, <1>4 DEF BusPut, driverVars, Arrival, EnabledInv, EndedInv, HandedOnInv, Latest
<1>5. CASE BusGet
  BY <1>0, <1>1, <1>5 DEF BusGet, driverVars, Arrival, EnabledInv, EndedInv, HandedOnInv, Latest
<1>6. CASE BusFail
  BY <1>0, <1>1, <1>6 DEF BusFail, driverVars, Arrival, EnabledInv, EndedInv, HandedOnInv, Latest
<1>7. CASE BusStop /\ bus = "us" /\ dir = "write" /\ put > 0
  <2>1. /\ flag = "none" /\ pien /\ flag' = "stop" /\ bus' = "idle"
        /\ bytesReceived' = put /\ txn' = txn
        /\ written' = Append(written, <<txn, put>>)
    BY <1>0, <1>7 DEF BusStop, driverVars, EnabledInv, CountInv
  <2>2. written' # <<>> /\ Latest' = <<txn, put>> /\ txn >= 1
    <3>1. written \in Seq((1 .. MaxTransactions) \X (1 .. MaxBytes))
      BY <1>0 DEF TypeOK
    <3>2. txn \in 1 .. MaxTransactions /\ put \in 1 .. MaxBytes
      BY <1>0, <1>7 DEF TypeOK, FlagInv
    <3>3. <<txn, put>> \in (1 .. MaxTransactions) \X (1 .. MaxBytes)
      BY <3>2
    <3> QED
      BY <2>1, <3>1, <3>2, <3>3, AppendProperties DEF Latest
  <2> QED
    BY <1>1, <2>1, <2>2 DEF Arrival, EnabledInv, EndedInv, HandedOnInv
<1>8. CASE BusStop /\ ~(bus = "us" /\ dir = "write" /\ put > 0)
  BY <1>0, <1>1, <1>8 DEF BusStop, driverVars, Arrival, EnabledInv, EndedInv, HandedOnInv, Latest
<1> QED
  BY <1>2, <1>3, <1>4, <1>5, <1>6, <1>7, <1>8 DEF Bus

(* The handler of the STOP hands on the write that ended, if it is long enough. *)
LEMMA StopHandsOn ==
    ASSUME Inv, Arrival, Stop, written # <<>>, Latest[1] = txn,
           Latest[2] \in Header .. Buffer
    PROVE  frames' # <<>> /\ frames'[Len(frames')] = Start(txn, Latest[2])
<1> DEFINE n == bytesReceived
           b == [i \in 1 .. n |-> receivedData[i]]
<1>0. TypeOK /\ FlagInv /\ CountInv /\ DataInv /\ HandedOnInv
  BY DEF Inv, Arrival
<1>1. flag = "stop" /\ ProcessData("OK") /\ n = Latest[2]
  BY <1>0 DEF Stop, TransactionFinished, HandedOnInv
<1>2. n \in Nat /\ n > 0 /\ n >= Header /\ n <= MaxBytes /\ n <= Buffer
      /\ Header \in Nat /\ Buffer \in Nat /\ MaxBytes \in Nat
  BY <1>0, <1>1, TwiSlaveAssumption DEF TypeOK, CountInv
<1>3. b = [i \in 1 .. n |-> <<txn, i>>]
  BY <1>0, <1>1 DEF DataInv
<1>4. Len(b) = n
  BY <1>2
<1>5. frames' = Append(frames, Start(txn, n))
  <2>1. ~(Len(b) < Header)
    BY <1>2, <1>4
  <2>2. frames' = Append(frames, Packet(b))
    BY <1>1, <1>2, <2>1 DEF ProcessData, Rx
  <2> QED
    BY <1>3, <2>2 DEF Start
<1>6. txn \in 1 .. MaxTransactions /\ n \in Header .. MaxBytes
  BY <1>0, <1>2 DEF FlagInv, TypeOK
<1>7. Start(txn, n) \in Packets /\ frames \in Seq(Packets)
  BY <1>0, <1>6, StartFacts DEF TypeOK
<1> QED
  BY <1>1, <1>5, <1>7, AppendProperties

LEMMA ArrivalHandler == Inv /\ Arrival /\ InterruptHandler => Arrival'
<1> SUFFICES ASSUME Inv, Arrival, InterruptHandler PROVE Arrival'
  OBVIOUS
<1>0. TypeOK /\ FlagInv /\ CountInv /\ EnabledInv /\ EndedInv /\ HandedOnInv
  BY DEF Inv, Arrival
<1>1. /\ flag # "none" /\ flag' = "none" /\ UNCHANGED <<dir, txn, put, written>>
      /\ bus' = "us" => bus = "us"
  BY DEF InterruptHandler, Reset, AddressMatch, Stop, Data, Read, Write, Unexpected, Handled, Complete
<1>2. EndedInv'
  BY <1>0, <1>1 DEF EndedInv, Latest
<1>3. EnabledInv'
  <2> SUFFICES ASSUME bus = "us", dir = "write", put > 0 PROVE pien'
    BY <1>1 DEF EnabledInv
  <2>1. CASE AddressMatch
    BY <1>0, <2>1, TwiSlaveAssumption DEF AddressMatch, CountInv, TypeOK
  <2>2. CASE Data
    BY <2>2 DEF Data, Read, Write
  <2>3. CASE Unexpected
    BY <1>0, <2>3 DEF Unexpected, EnabledInv
  <2>4. CASE Stop \/ Reset("error", "BUS_ERROR") \/ Reset("collision", "TRANSMIT_COLLISION")
    BY <1>0, <2>4 DEF Stop, Reset, FlagInv
  <2> QED
    BY <2>1, <2>2, <2>3, <2>4 DEF InterruptHandler
<1>4. HandedOnInv'
  <2> SUFFICES ASSUME written # <<>>, Latest[1] = txn
               PROVE  /\ ~pien' /\ bus' # "us"
                      /\ Latest[2] \in Header .. Buffer =>
                            frames' # <<>> /\ frames'[Len(frames')] = Start(txn, Latest[2])
    BY <1>1 DEF HandedOnInv, Latest, Start, Packet
  <2>1. flag = "stop"
    BY <1>0, <1>1 DEF HandedOnInv
  <2>2. Stop
    BY <2>1 DEF InterruptHandler, Reset, AddressMatch, Data, Read, Write, Unexpected
  <2>3. ~pien' /\ bus' # "us"
    BY <1>0, <2>1, <2>2 DEF Stop, FlagInv
  <2> QED
    BY <2>2, <2>3, StopHandsOn
<1> QED
  BY <1>2, <1>3, <1>4 DEF Arrival

LEMMA ArrivalStep == Inv /\ Arrival /\ [Next]_vars => Arrival'
<1> SUFFICES ASSUME Inv, Arrival, UNCHANGED vars PROVE Arrival'
  BY ArrivalBus, ArrivalHandler DEF Next, Quiet
<1> QED
  BY DEF vars, Arrival, EnabledInv, EndedInv, HandedOnInv, Latest

(* A write that holds a header and fits the buffer has arrived whole when the   *)
(* bus is quiet after its STOP, whatever else has happened.                     *)
THEOREM WholeWritesArrive == Spec => []WritesArrive
<1>1. Arrival => WritesArrive
  BY DEF Arrival, HandedOnInv, WritesArrive, Latest
<1> QED
  BY <1>1, Invariance, ArrivalInit, ArrivalStep, PTL DEF Spec

-----------------------------------------------------------------------------
(* FrameLife: the driver under the scheduler is the driver of TwiSlave, and a *)
(* frame lives while the router routes it.                                   *)

(* What the router waits for, and who may have suspended the scheduler.       *)
RestInv ==
    /\ router = "fifo" => fifo = <<>> /\ inHand = 0
    /\ suspended => cpu \in Users

(* After a handler has yielded to the router its frame is next in the FIFO,   *)
(* then in the router's hands, and nothing but the router runs.               *)
DirectInv ==
    direct => /\ under # None /\ onStack >= 1
              /\ cpu = "router" /\ router = "ready" /\ ~suspended
              /\ \/ fifo = <<onStack>> /\ inHand = 0
                 \/ fifo = <<>> /\ inHand = onStack

LifeInv == SchedulerOK /\ RestInv /\ DirectInv

-----------------------------------------------------------------------------
(* A step of the scheduler is no step of the driver, and a handler that hands  *)
(* a frame over, whether it yields or not, is a handler of the driver.        *)
LEMMA LifeStepIsDriverStep == [LifeNext]_lifeAndDriverVars => [Next]_vars
<1> SUFFICES ASSUME [LifeNext]_lifeAndDriverVars PROVE [Next]_vars
  OBVIOUS
<1>1. CASE Silent \/ Yield \/ Leave \/ ((Bus \/ Quiet) /\ UNCHANGED lifeVars)
  BY <1>1 DEF Silent, Yield, Wakes, Leave, Next
<1>2. CASE Router
  BY <1>2 DEF Router, NextPacket, Routed, WaitForPacket, WaitForLock, TimeOut
<1>3. CASE User
  BY <1>3 DEF User, HandlerEnds, Switch, SwitchTo, Suspend, Resume, ResumeTo, Lock, Unlock
<1>4. CASE UNCHANGED lifeAndDriverVars
  BY <1>4 DEF lifeAndDriverVars
<1> QED
  BY <1>1, <1>2, <1>3, <1>4 DEF LifeNext

(* The driver, composed with the scheduler, is the driver of TwiSlave.         *)
THEOREM DriverUnchanged == LifeSpec => Spec
<1>1. LifeInit => Init
  BY DEF LifeInit
<1> QED
  BY <1>1, LifeStepIsDriverStep, PTL DEF LifeSpec, Spec

-----------------------------------------------------------------------------
(* Handing over makes the list of frames longer by one. *)
LEMMA HandlerFrames ==
    ASSUME TypeOK, InterruptHandler
    PROVE  frames' = frames \/ Len(frames') = Len(frames) + 1
<1>1. frames \in Seq(Packets)
  BY DEF TypeOK
<1>2. \A x : Len(Append(frames, x)) = Len(frames) + 1
  BY <1>1
<1>3. frames' = frames \/ \E x : frames' = Append(frames, x)
  BY DEF InterruptHandler, Reset, AddressMatch, Stop, Data, Read, Write, Unexpected,
         TransactionFinished, ProcessData, Rx
<1> QED
  BY <1>2, <1>3

LEMMA LifeInvInit == LifeInit => LifeInv
<1> SUFFICES ASSUME LifeInit PROVE LifeInv
  OBVIOUS
<1>1. Len(frames) = 0 /\ fifo = <<>> /\ fifo \in Seq(1 .. Len(frames)) /\ Len(fifo) = 0
  BY DEF LifeInit, Init
<1>2. SchedulerOK
  <2>1. cpu \in Users /\ router = "fifo" /\ cpu # "router"
    BY DEF LifeInit, Users
  <2>2. {suspended, locked, direct} \subseteq BOOLEAN
    BY DEF LifeInit
  <2>3. under \in Users \union {None} /\ onStack = 0 /\ inHand = 0
    BY DEF LifeInit
  <2> QED
    BY <1>1, <2>1, <2>2, <2>3, FrameLifeAssumption DEF SchedulerOK
<1>3. RestInv /\ DirectInv
  BY DEF LifeInit, RestInv, DirectInv
<1> QED
  BY <1>2, <1>3 DEF LifeInv

(* The frame numbers of the life variables stay numbers of frames. *)
LEMMA Longer ==
    ASSUME NEW m \in Nat, NEW n \in Nat, m <= n, NEW q \in Seq(1 .. m)
    PROVE  q \in Seq(1 .. n)
<1>1. \A i \in 1 .. Len(q) : q[i] \in 1 .. m
  BY ElementOfSeq
<1>2. 1 .. m \subseteq 1 .. n
  OBVIOUS
<1> QED
  BY <1>2, SeqMonotonic

LEMMA LifeInvStep ==
    ASSUME TypeOK, TypeOK', LifeInv, [LifeNext]_lifeAndDriverVars
    PROVE  LifeInv'
<1> USE FrameLifeAssumption
<1>0. /\ SchedulerOK /\ RestInv /\ DirectInv
      /\ Len(frames) \in Nat /\ Len(frames') \in Nat
  BY LenProperties DEF LifeInv, TypeOK
<1>1. CASE Silent
  <2>1. UNCHANGED lifeVars /\ Len(frames') >= Len(frames)
    BY <1>0, <1>1, HandlerFrames DEF Silent
  <2>2. fifo \in Seq(1 .. Len(frames'))
    BY <1>0, <2>1, Longer DEF SchedulerOK
  <2> QED
    BY <1>0, <2>1, <2>2 DEF LifeInv, SchedulerOK, RestInv, DirectInv, lifeVars
<1>2. CASE Yield
  <2> DEFINE n == Len(frames')
  <2>1. /\ under = None /\ router = "fifo" /\ ~suspended /\ HandsOver
        /\ fifo' = Append(fifo, n) /\ under' = cpu /\ onStack' = n
        /\ cpu' = "router" /\ router' = "ready" /\ direct' = TRUE
        /\ UNCHANGED <<suspended, locked, inHand>>
    BY <1>2 DEF Yield, Wakes
  <2>2. n = Len(frames) + 1 /\ n \in Nat /\ n >= 1
    BY <1>0, <1>2, <2>1, HandlerFrames DEF Yield, Wakes, HandsOver
  <2>3. fifo = <<>> /\ inHand = 0
    BY <1>0, <2>1 DEF RestInv
  <2> HIDE DEF n
  <2>4. fifo' = <<n>> /\ fifo' \in Seq(1 .. n) /\ Len(fifo') = 1
    BY <2>1, <2>2, <2>3
  <2>5. cpu \in Users
    BY <1>0, <2>1 DEF SchedulerOK
  <2>6. SchedulerOK'
    BY <1>0, <2>1, <2>2, <2>3, <2>4, <2>5 DEF SchedulerOK, n
  <2>7. RestInv' /\ DirectInv'
    BY <1>0, <2>1, <2>2, <2>3, <2>4, <2>5 DEF RestInv, DirectInv, Users, None
  <2> QED
    BY <2>6, <2>7 DEF LifeInv
<1>3. CASE Leave
  <2> DEFINE n == Len(frames')
  <2>1. /\ under = None /\ (router = "fifo" => suspended)
        /\ HandsOver /\ Len(fifo) < FifoLen
        /\ fifo' = Append(fifo, n)
        /\ router' = IF router = "fifo" THEN "ready" ELSE router
        /\ UNCHANGED <<cpu, suspended, locked, under, onStack, inHand, direct>>
    BY <1>3 DEF Leave
  <2>2. n = Len(frames) + 1 /\ n \in Nat
    BY <1>0, <1>3, <2>1, HandlerFrames DEF Leave, HandsOver
  <2>3. fifo \in Seq(1 .. n)
    BY <1>0, <2>2, Longer DEF SchedulerOK
  <2> HIDE DEF n
  <2>4. fifo' \in Seq(1 .. n) /\ Len(fifo') = Len(fifo) + 1 /\ Len(fifo) \in Nat
    BY <2>1, <2>2, <2>3
  <2>5. SchedulerOK'
    BY <1>0, <2>1, <2>2, <2>4 DEF SchedulerOK, n
  <2>6. RestInv' /\ DirectInv'
    BY <1>0, <2>1 DEF RestInv, DirectInv
  <2> QED
    BY <2>5, <2>6 DEF LifeInv
<1>4. CASE (Bus \/ Quiet) /\ UNCHANGED lifeVars
  <2>1. frames' = frames
    BY <1>4 DEF Bus, BusStart, BusElsewhere, BusPut, BusGet, BusStop, BusFail, Quiet, vars
  <2> QED
    BY <1>0, <1>4, <2>1 DEF LifeInv, SchedulerOK, RestInv, DirectInv, lifeVars
<1>5. CASE Router
  <2>1. CASE NextPacket
    <3>1. Head(fifo) \in 1 .. Len(frames) /\ Tail(fifo) \in Seq(1 .. Len(frames))
          /\ Len(Tail(fifo)) = Len(fifo) - 1 /\ Len(fifo) \in Nat
      BY <1>0, <2>1, QueueFacts DEF SchedulerOK, NextPacket
    <3>2. frames' = frames
      BY <2>1 DEF NextPacket, vars
    <3>3. SchedulerOK'
      BY <1>0, <2>1, <3>1, <3>2 DEF NextPacket, SchedulerOK
    <3>4. RestInv'
      BY <1>0, <2>1 DEF NextPacket, RestInv, SchedulerOK, Users
    <3>5. DirectInv'
      <4> SUFFICES ASSUME direct PROVE fifo' = <<>> /\ inHand' = onStack
        BY <1>0, <2>1 DEF NextPacket, DirectInv
      <4>1. fifo = <<onStack>>
        BY <1>0, <2>1 DEF NextPacket, DirectInv
      <4> QED
        BY <2>1, <4>1 DEF NextPacket
    <3> QED
      BY <3>3, <3>4, <3>5 DEF LifeInv
  <2>2. CASE Routed \/ WaitForPacket \/ WaitForLock \/ TimeOut
    <3>1. frames' = frames
      BY <2>2 DEF Routed, WaitForPacket, WaitForLock, TimeOut, vars
    <3>2. SchedulerOK'
      <4>1. CASE Routed
        <5>1. {suspended, locked, direct}' \subseteq BOOLEAN
          BY <1>0, <4>1 DEF Routed, SchedulerOK
        <5>2. inHand' \in 0 .. Len(frames)'
          BY <1>0, <3>1, <4>1 DEF Routed
        <5> QED
          BY <1>0, <3>1, <4>1, <5>1, <5>2 DEF Routed, SchedulerOK
      <4>2. CASE WaitForPacket
        BY <1>0, <3>1, <4>2 DEF WaitForPacket, SchedulerOK, Users
      <4>3. CASE WaitForLock
        BY <1>0, <3>1, <4>3 DEF WaitForLock, SchedulerOK, Users
      <4>4. CASE TimeOut
        BY <1>0, <3>1, <4>4 DEF TimeOut, SchedulerOK, RestInv, Users
      <4> QED
        BY <2>2, <4>1, <4>2, <4>3, <4>4
    <3>3. RestInv' /\ DirectInv'
      BY <1>0, <2>2, <3>1 DEF Routed, WaitForPacket, WaitForLock, TimeOut, SchedulerOK, RestInv,
                              DirectInv, Users
    <3> QED
      BY <3>2, <3>3 DEF LifeInv
  <2> QED
    BY <1>5, <2>1, <2>2 DEF Router
<1>6. CASE User
  <2>1. frames' = frames /\ ~direct
    BY <1>0, <1>6 DEF User, HandlerEnds, Switch, SwitchTo, Suspend, Resume, ResumeTo, Lock,
                      Unlock, vars, Runs, DirectInv, SchedulerOK, Users, None
  <2>2. SchedulerOK'
    <3>1. CASE HandlerEnds
      BY <1>0, <2>1, <3>1 DEF HandlerEnds, SchedulerOK
    <3>2. CASE Switch
      BY <1>0, <2>1, <3>2 DEF Switch, SwitchTo, Runs, SchedulerOK, Users
    <3>3. CASE Suspend
      BY <1>0, <2>1, <3>3 DEF Suspend, Runs, SchedulerOK
    <3>4. CASE Resume
      BY <1>0, <2>1, <3>4 DEF Resume, ResumeTo, Runs, SchedulerOK, Users
    <3>5. CASE Lock
      BY <1>0, <2>1, <3>5 DEF Lock, Runs, SchedulerOK
    <3>6. CASE Unlock
      BY <1>0, <2>1, <3>6 DEF Unlock, Runs, SchedulerOK
    <3> QED
      BY <1>6, <3>1, <3>2, <3>3, <3>4, <3>5, <3>6 DEF User
  <2>3. RestInv' /\ DirectInv'
    BY <1>0, <1>6, <2>1 DEF User, HandlerEnds, Switch, SwitchTo, Suspend, Resume, ResumeTo, Lock,
                            Unlock, Runs, SchedulerOK, RestInv, DirectInv, Users
  <2> QED
    BY <2>2, <2>3 DEF LifeInv
<1>7. CASE UNCHANGED lifeAndDriverVars
  BY <1>0, <1>7 DEF lifeAndDriverVars, vars, lifeVars, LifeInv, SchedulerOK, RestInv, DirectInv
<1> QED
  BY <1>1, <1>2, <1>3, <1>4, <1>5, <1>6, <1>7 DEF LifeNext

LEMMA LifeInvariance == LifeSpec => [](TypeOK /\ LifeInv)
<1>1. LifeSpec => []TypeOK
  BY DriverUnchanged, TypeCorrect, PTL
<1>2. LifeInv /\ TypeOK /\ TypeOK' /\ [LifeNext]_lifeAndDriverVars => LifeInv'
  BY LifeInvStep
<1> QED
  BY <1>1, <1>2, LifeInvInit, PTL DEF LifeSpec

-----------------------------------------------------------------------------

(* Every variable has its type, and the router is kept off the CPU only while   *)
(* the scheduler is suspended.                                               *)
THEOREM LifeTypeCorrect == LifeSpec => []LifeTypeOK
BY LifeInvariance, PTL DEF LifeInv, LifeTypeOK

(* A frame whose handler yielded to the router is on a living stack as long as  *)
(* the router works on it without waiting for conn_lock.                      *)
THEOREM RoutedFramesLive == LifeSpec => []RoutedWhole
<1>1. LifeInv => RoutedWhole
  BY DEF LifeInv, DirectInv, RoutedWhole
<1> QED
  BY <1>1, LifeInvariance, PTL

(* Under the scheduler, too, packets are the beginnings of writes, and whole    *)
(* writes arrive.                                                            *)
THEOREM ReceivedUnderScheduler == LifeSpec => [](BeginsOneWrite /\ WritesArrive)
BY DriverUnchanged, PacketsBeginWrites, WholeWritesArrive, PTL
=============================================================================
