------------------------------ MODULE TwiSlave ------------------------------
(***************************************************************************)
(* The receiving end of the I2C link: the TWI slave driver, its callback     *)
(* TWI_CSP_SlaveProcessData and csp_i2c_rx, all run by one interrupt.  Every  *)
(* action of the driver is one run of TWI_SlaveInterruptHandler; the actions  *)
(* of the bus are what the masters on it and the TWI module do in between.    *)
(* The module holds the clock after an address match and after every byte     *)
(* until the handler answers, but nothing holds up a master after a STOP.      *)
(*                                                                         *)
(* twi->abort is false from TWI_SlaveInitializeDriver on (nothing sets it), so *)
(* the abort branches are left out.  A byte is <<t, i>>: the i-th byte of the   *)
(* t-th transaction addressed to this slave.                                 *)
(***************************************************************************)
EXTENDS Integers, Sequences

CONSTANTS
    Buffer,           \* TWIS_RECEIVE_BUFFER_SIZE
    SendBuffer,       \* TWIS_SEND_BUFFER_SIZE
    Header,           \* sizeof(csp_id_t)
    NoByte,           \* what the driver's buffer holds before the first byte
    MayRead,          \* may a master read from this slave
    MayRepeat,        \* may a master end a transaction by a repeated START
    MayFail,          \* may there be bus errors, collisions, stray interrupts
    MayBeLate,        \* may the next START come before a STOP is handled
    MaxBytes,         \* bound: bytes of one write
    MaxTransactions   \* bound: transactions addressed to this slave

ASSUME TwiSlaveAssumption ==
    /\ Buffer \in Nat /\ SendBuffer \in Nat /\ Header \in Nat \ {0}
    /\ {MayRead, MayRepeat, MayFail, MayBeLate} \subseteq BOOLEAN
    /\ MaxBytes \in Nat /\ MaxTransactions \in Nat

Bytes == (1 .. MaxTransactions) \X (1 .. MaxBytes)

VARIABLES
    status,         \* twi->status
    result,         \* twi->result
    bytesReceived,  \* twi->bytesReceived
    bytesSent,      \* twi->bytesSent
    receivedData,   \* twi->receivedData, by index from 1
    pien,           \* is the stop interrupt enabled
    flag,           \* why the module interrupts: what the handler finds in STATUS
    dir,            \* TWI_SLAVE_DIR: does the master write or read
    nack,           \* TWI_SLAVE_RXACK: did the master answer a byte with NACK
    bus,            \* "us": this slave is in a transaction, "other": it ignores the bus
    txn,            \* the transactions addressed to this slave so far
    put,            \* how many bytes the master has put in this write
    written,        \* history: the writes ended by STOP, <<transaction, length>>
    frames          \* history: the packets handed to csp_new_packet

driverVars == <<status, result, bytesReceived, bytesSent, receivedData, pien>>
busVars == <<dir, nack, bus, txn, put, written>>
vars == <<status, result, bytesReceived, bytesSent, receivedData, pien, flag, dir,
          nack, bus, txn, put, written, frames>>

Packet(bytes) == [header |-> SubSeq(bytes, 1, Header),
                  payload |-> SubSeq(bytes, Header + 1, Len(bytes))]
Junk == [header |-> <<>>, payload |-> <<>>]
Packets == [header : Seq(Bytes), payload : Seq(Bytes)]

(* The driver and its history are well typed: the index of the receive        *)
(* buffer never leaves it, and no byte is handed on that was never received.   *)
TypeOK ==
    /\ status \in {"READY", "BUSY"}
    /\ result \in {"UNKNOWN", "OK", "BUFFER_OVERFLOW", "TRANSMIT_COLLISION",
                   "BUS_ERROR", "FAIL"}
    /\ bytesReceived \in 0 .. Buffer
    /\ bytesSent \in 0 .. SendBuffer
    /\ receivedData \in [1 .. Buffer -> Bytes \union {NoByte}]
    /\ pien \in BOOLEAN
    /\ flag \in {"none", "address", "stop", "data", "error", "collision", "unexpected"}
    /\ dir \in {"write", "read"} /\ nack \in BOOLEAN
    /\ bus \in {"idle", "us", "other"}
    /\ txn \in 0 .. MaxTransactions /\ put \in 0 .. MaxBytes
    /\ written \in Seq((1 .. MaxTransactions) \X (1 .. MaxBytes))
    /\ frames \in Seq(Packets)

(* TWI_SlaveInitializeDriver and TWI_SlaveInitializeModule.                  *)
Init ==
    /\ status = "READY" /\ result = "UNKNOWN"
    /\ bytesReceived = 0 /\ bytesSent = 0
    /\ receivedData = [i \in 1 .. Buffer |-> NoByte]
    /\ pien = FALSE
    /\ flag = "none" /\ dir = "write" /\ nack = FALSE
    /\ bus = "idle" /\ txn = 0 /\ put = 0
    /\ written = <<>> /\ frames = <<>>

-----------------------------------------------------------------------------
(* The bus.                                                                *)

(* START, or repeated START, with this slave's address.  A STOP that was not   *)
(* handled yet is lost: the handler finds APIF with AP set.                  *)
BusStart ==
    /\ \/ bus = "idle"
       \/ MayRepeat
    /\ \/ flag = "none"
       \/ flag = "stop" /\ MayBeLate
    /\ txn < MaxTransactions
    /\ flag' = "address" /\ bus' = "us" /\ txn' = txn + 1 /\ put' = 0
    /\ dir' \in IF MayRead THEN {"write", "read"} ELSE {"write"}
    /\ UNCHANGED <<driverVars, nack, written, frames>>

(* START with another slave's address.                                       *)
BusElsewhere ==
    /\ \/ bus = "idle"
       \/ bus = "us" /\ MayRepeat
    /\ flag = "none"
    /\ bus' = "other"
    /\ UNCHANGED <<driverVars, flag, dir, nack, txn, put, written, frames>>

(* A byte from the master.                                                   *)
BusPut ==
    /\ bus = "us" /\ flag = "none" /\ dir = "write" /\ put < MaxBytes
    /\ put' = put + 1 /\ flag' = "data"
    /\ UNCHANGED <<driverVars, dir, nack, bus, txn, written, frames>>

(* The master wants a byte, or has answered the previous one with NACK.       *)
BusGet ==
    /\ bus = "us" /\ flag = "none" /\ dir = "read"
    /\ nack' \in BOOLEAN /\ flag' = "data"
    /\ UNCHANGED <<driverVars, dir, bus, txn, put, written, frames>>

(* STOP raises the interrupt if it is enabled, whoever the master talked to.   *)
BusStop ==
    /\ bus # "idle" /\ flag = "none"
    /\ bus' = "idle"
    /\ flag' = IF pien THEN "stop" ELSE "none"
    /\ written' = IF bus = "us" /\ dir = "write" /\ put > 0
                  THEN Append(written, <<txn, put>>) ELSE written
    /\ UNCHANGED <<driverVars, dir, nack, txn, put, frames>>

(* A bus error or a collision ends the transaction, a stray interrupt not.    *)
BusFail ==
    /\ MayFail /\ bus = "us" /\ flag = "none"
    /\ \/ flag' \in {"error", "collision"} /\ bus' = "other"
       \/ flag' = "unexpected" /\ bus' = bus
    /\ UNCHANGED <<driverVars, dir, nack, txn, put, written, frames>>

-----------------------------------------------------------------------------
(* The interrupt.                                                            *)

(* csp_i2c_rx: a frame shorter than a CSP header is dropped; of any other the  *)
(* header is stripped and the packet handed to csp_new_packet.  (No frame of   *)
(* the driver exceeds I2C_MTU.)                                              *)
Rx(bytes) ==
    frames' = IF Len(bytes) < Header THEN frames ELSE Append(frames, Packet(bytes))

(* TWI_CSP_SlaveProcessData calls csp_i2c_rx with what was received.  With no  *)
(* byte received it calls it all the same, with the frame uninitialised: its   *)
(* length decides whether whatever is on the stack becomes a packet.          *)
ProcessData(r) ==
    IF r # "OK" THEN UNCHANGED frames
    ELSE IF bytesReceived > 0 THEN Rx([i \in 1 .. bytesReceived |-> receivedData[i]])
    ELSE frames' \in {frames, Append(frames, Junk)}

(* TWI_SlaveTransactionFinished.                                             *)
TransactionFinished(r) ==
    /\ result' = r /\ status' = "READY"
    /\ ProcessData(r)

Handled == flag' = "none" /\ UNCHANGED <<dir, nack, txn, put, written>>
Complete == bus' = "other"   \* TWI_SLAVE_CMD_COMPTRANS_gc: wait for any START

(* Bus error and transmit collision.                                         *)
Reset(f, r) ==
    /\ flag = f /\ Handled
    /\ bytesReceived' = 0 /\ bytesSent' = 0
    /\ result' = r /\ status' = "READY"
    /\ UNCHANGED <<receivedData, pien, bus, frames>>

(* Mutant: a new transaction goes on counting where the last one was.         *)
AddressMatchKeepCount ==
    /\ flag = "address" /\ Handled
    /\ status' = "BUSY" /\ result' = "UNKNOWN"
    /\ pien' = FALSE
    /\ UNCHANGED <<bytesReceived, bytesSent, receivedData, bus, frames>>

(* TWI_SlaveAddressMatchHandler.                                             *)
AddressMatch ==
    /\ flag = "address" /\ Handled
    /\ status' = "BUSY" /\ result' = "UNKNOWN"
    /\ pien' = FALSE
    /\ bytesReceived' = 0 /\ bytesSent' = 0
    /\ UNCHANGED <<receivedData, bus, frames>>

(* Mutant: the stop interrupt stays enabled.                                 *)
StopKeep ==
    /\ flag = "stop" /\ Handled
    /\ TransactionFinished("OK")
    /\ UNCHANGED <<bytesReceived, bytesSent, receivedData, pien, bus>>

(* TWI_SlaveStopHandler.                                                     *)
Stop ==
    /\ flag = "stop" /\ Handled
    /\ pien' = FALSE
    /\ TransactionFinished("OK")
    /\ UNCHANGED <<bytesReceived, bytesSent, receivedData, bus>>

(* TWI_SlaveReadHandler: a byte the master wrote.  On overflow the stop       *)
(* interrupt stays enabled and bytesReceived as it is.                       *)
Read ==
    /\ flag = "data" /\ dir = "write" /\ Handled
    /\ pien' = TRUE
    /\ \/ /\ bytesReceived < Buffer
          /\ receivedData' = [receivedData EXCEPT ![bytesReceived + 1] = <<txn, put>>]
          /\ bytesReceived' = bytesReceived + 1
          /\ UNCHANGED <<status, result, bytesSent, bus, frames>>
       \/ /\ bytesReceived >= Buffer
          /\ Complete
          /\ TransactionFinished("BUFFER_OVERFLOW")
          /\ UNCHANGED <<bytesReceived, bytesSent, receivedData>>

(* TWI_SlaveWriteHandler: the master reads.                                  *)
Write ==
    /\ flag = "data" /\ dir = "read" /\ Handled
    /\ \/ /\ bytesSent > 0 /\ nack
          /\ Complete
          /\ TransactionFinished("OK")
          /\ UNCHANGED bytesSent
       \/ /\ ~(bytesSent > 0 /\ nack)
          /\ bytesSent < SendBuffer
          /\ bytesSent' = bytesSent + 1
          /\ UNCHANGED <<status, result, bus, frames>>
       \/ /\ ~(bytesSent > 0 /\ nack)
          /\ bytesSent >= SendBuffer
          /\ Complete
          /\ TransactionFinished("BUFFER_OVERFLOW")
          /\ UNCHANGED bytesSent
    /\ UNCHANGED <<bytesReceived, receivedData, pien>>

(* TWI_SlaveDataHandler.                                                     *)
Data == Read \/ Write

(* None of the flags of STATUS is set.                                       *)
Unexpected ==
    /\ flag = "unexpected" /\ Handled
    /\ TransactionFinished("FAIL")
    /\ UNCHANGED <<bytesReceived, bytesSent, receivedData, pien, bus>>

(* TWI_SlaveInterruptHandler.                                                *)
InterruptHandler ==
    \/ Reset("error", "BUS_ERROR")
    \/ Reset("collision", "TRANSMIT_COLLISION")
    \/ AddressMatch
    \/ Stop
    \/ Data
    \/ Unexpected

Bus == BusStart \/ BusElsewhere \/ BusPut \/ BusGet \/ BusStop \/ BusFail

(* The bus stays quiet for good.                                             *)
Quiet == bus = "idle" /\ flag = "none" /\ txn = MaxTransactions /\ UNCHANGED vars

Next == InterruptHandler \/ Bus \/ Quiet

Spec == Init /\ [][Next]_vars

-----------------------------------------------------------------------------
(* Properties.                                                             *)

Start(t, n) == Packet([i \in 1 .. n |-> <<t, i>>])
From(packet) == packet.header[1][1]

(* Whatever happens on the bus - reads, repeated STARTs, errors, a write longer *)
(* than the buffer, a STOP overtaken by the next START - a packet with content   *)
(* is the beginning of one write, the bytes in their order, and every write      *)
(* yields at most one packet, in the order of the writes.  Junk is the exception *)
(* ProcessData makes: what a read of the board may leave as a packet.           *)
BeginsOneWrite ==
    LET real == {i \in DOMAIN frames : frames[i] # Junk}
    IN  /\ \A i \in real : \E n \in Header .. Buffer : frames[i] = Start(From(frames[i]), n)
        /\ \A i, j \in real : i < j => From(frames[i]) < From(frames[j])

(* Whatever else happens on the bus, a write that holds a CSP header and fits   *)
(* the buffer has arrived whole when the bus is quiet after its STOP; only a     *)
(* START that overtakes the interrupt of the STOP loses it.                     *)
WritesArrive ==
    bus = "idle" /\ flag = "none" /\ written # <<>> =>
        LET w == written[Len(written)]
        IN  w[1] = txn /\ w[2] \in Header .. Buffer =>
                frames # <<>> /\ frames[Len(frames)] = Start(txn, w[2])
=============================================================================
