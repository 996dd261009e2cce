------------------------------ MODULE TwiMaster ------------------------------
(***************************************************************************)
(* The TWI (I2C) master driver: TWI_MasterWriteRead, called by tasks, starts *)
(* a transaction when the driver is READY; the interrupt handler drives it   *)
(* byte by byte and makes the driver READY again.  Check and claim of the    *)
(* status are not atomic and no lock protects the driver structure.          *)
(*                                                                         *)
(* Callers of the CSP instance are cspTask (replies of the service handler)  *)
(* and mainTask (replies to commands); of the ADT instance, mainTask alone.  *)
(* A message is one call; bytes are named by the message and their place in  *)
(* it.                                                                     *)
(***************************************************************************)
EXTENDS Integers, Sequences

CONSTANTS
    Tasks,       \* the tasks that call the driver
    ToWrite,     \* [Tasks -> Nat]: bytesToWrite of their calls
    ToRead,      \* [Tasks -> Nat]: bytesToRead of their calls
    ReadBuffer,  \* TWIM_READ_BUFFER_SIZE
    Preemptive,  \* may a task be preempted by another one inside the call
    None,        \* no message
    MaxCalls     \* bound: calls per task

ASSUME TwiMasterAssumption ==
    /\ ToWrite \in [Tasks -> Nat]
    /\ ToRead \in [Tasks -> Nat]
    /\ \A t \in Tasks : ToWrite[t] + ToRead[t] > 0
    /\ ReadBuffer \in Nat
    /\ Preemptive \in BOOLEAN
    /\ MaxCalls \in Nat

Messages == Tasks \X (1 .. MaxCalls)
ASSUME NoneAssumption == None \notin Messages

W(m) == ToWrite[m[1]]
R(m) == ToRead[m[1]]

VARIABLES
    status,     \* twi->status
    result,     \* twi->result
    address,    \* twi->address: the destination of which message
    writeData,  \* twi->writeData: the bytes filled in, by index from 1
    toWrite,    \* twi->bytesToWrite
    toRead,     \* twi->bytesToRead
    written,    \* twi->bytesWritten
    gotten,     \* twi->bytesRead
    readData,   \* twi->readData, by index from 1
    hw,         \* what the TWI module is doing; it interrupts when it is done
    wire,       \* the bytes put on the bus since the first START
    pc,         \* where each task is in TWI_MasterWriteRead
    fill,       \* bufferIndex of each task
    calls,      \* how many calls each task has made
    current,    \* history: the message whose START was sent last
    accepted,   \* history: the messages whose call returned true
    failed,     \* history: the messages whose transaction failed
    out         \* history: what was sent in completed transactions

driverVars == <<status, result, address, writeData, toWrite, toRead, written, gotten>>
busVars == <<readData, hw, wire, current, failed, out>>
callVars == <<pc, fill, calls, accepted>>
vars == <<status, result, address, writeData, toWrite, toRead, written, gotten,
          readData, hw, wire, pc, fill, calls, current, accepted, failed, out>>

Bytes == Messages \X Nat
Frames == [to : Messages \union {None}, bytes : Seq(Bytes)]
Results == {"UNKNOWN", "OK", "BUFFER_OVERFLOW", "ARBITRATION_LOST", "BUS_ERROR",
            "NACK_RECEIVED"}

TypeOK ==
    /\ status \in {"READY", "BUSY"}
    /\ result \in Results
    /\ address \in Messages \union {None}
    /\ writeData \in Seq(Bytes)
    /\ toWrite \in Nat /\ toRead \in Nat
    /\ written \in 0 .. toWrite
    /\ gotten \in 0 .. ReadBuffer
    /\ readData \in Seq(Bytes) /\ Len(readData) <= ReadBuffer
    /\ hw \in {"idle", "addressW", "data", "addressR", "receive"}
    /\ wire \in Frames
    /\ pc \in [Tasks -> {"ready", "claim", "fill", "setup", "start"}]
    /\ fill \in [Tasks -> Nat] /\ calls \in [Tasks -> 0 .. MaxCalls]
    /\ current \in Messages \union {None}
    /\ accepted \subseteq Messages /\ failed \subseteq Messages
    /\ out \in Seq(Frames)

NoFrame == [to |-> None, bytes |-> <<>>]

(* The buffer q once b is stored at index k, over what is there or after it.   *)
Store(q, k, b) == [i \in 1 .. IF k < Len(q) THEN Len(q) ELSE k + 1 |->
                     IF i = k + 1 THEN b ELSE q[i]]

(* TWI_MasterInit.                                                           *)
Init ==
    /\ status = "READY" /\ result = "UNKNOWN"
    /\ address = None /\ writeData = <<>>
    /\ toWrite = 0 /\ toRead = 0 /\ written = 0 /\ gotten = 0
    /\ readData = <<>>
    /\ hw = "idle" /\ wire = NoFrame
    /\ pc = [t \in Tasks |-> "ready"]
    /\ fill = [t \in Tasks |-> 0]
    /\ calls = [t \in Tasks |-> 0]
    /\ current = None /\ accepted = {} /\ failed = {} /\ out = <<>>

-----------------------------------------------------------------------------
(* TWI_MasterWriteRead, step by step.                                        *)

Message(t) == <<t, calls[t]>>
Goto(t, l) == pc' = [pc EXCEPT ![t] = l]
MayRun(t) == Preemptive \/ \A u \in Tasks \ {t} : pc[u] = "ready"

(* Mutant: the status is not looked at.                                      *)
CheckNot(t) ==
    /\ pc[t] = "ready" /\ MayRun(t) /\ calls[t] < MaxCalls
    /\ calls' = [calls EXCEPT ![t] = @ + 1]
    /\ Goto(t, "claim")
    /\ UNCHANGED <<driverVars, busVars, fill, accepted>>

(* A new call; it returns false if more is to be read than readData takes (a  *)
(* uint8_t never exceeds writeData) and unless the driver is READY.           *)
Check(t) ==
    /\ pc[t] = "ready" /\ MayRun(t) /\ calls[t] < MaxCalls
    /\ calls' = [calls EXCEPT ![t] = @ + 1]
    /\ IF ToRead[t] <= ReadBuffer /\ status = "READY"
       THEN Goto(t, "claim") ELSE UNCHANGED pc
    /\ UNCHANGED <<driverVars, busVars, fill, accepted>>

Claim(t) ==
    /\ pc[t] = "claim" /\ MayRun(t)
    /\ status' = "BUSY"
    /\ result' = "UNKNOWN"
    /\ address' = Message(t)
    /\ fill' = [fill EXCEPT ![t] = 0]
    /\ Goto(t, "fill")
    /\ UNCHANGED <<writeData, toWrite, toRead, written, gotten, busVars, calls, accepted>>

(* The loop that copies the data: one byte a step, over what is there.        *)
Fill(t) ==
    /\ pc[t] = "fill" /\ MayRun(t)
    /\ IF fill[t] < ToWrite[t]
       THEN /\ writeData' = Store(writeData, fill[t], <<Message(t), fill[t] + 1>>)
            /\ fill' = [fill EXCEPT ![t] = @ + 1]
            /\ UNCHANGED pc
       ELSE /\ Goto(t, "setup")
            /\ UNCHANGED <<writeData, fill>>
    /\ UNCHANGED <<status, result, address, toWrite, toRead, written, gotten,
                   busVars, calls, accepted>>

(* Mutant: the count of the bytes written is not reset.                       *)
SetupKeep(t) ==
    /\ pc[t] = "setup" /\ MayRun(t)
    /\ toWrite' = ToWrite[t] /\ toRead' = ToRead[t]
    /\ gotten' = 0
    /\ Goto(t, "start")
    /\ UNCHANGED <<status, result, address, writeData, written, busVars, fill, calls, accepted>>

(* Mutant: the count of the bytes read is not reset.                          *)
SetupKeepRead(t) ==
    /\ pc[t] = "setup" /\ MayRun(t)
    /\ toWrite' = ToWrite[t] /\ toRead' = ToRead[t]
    /\ written' = 0
    /\ Goto(t, "start")
    /\ UNCHANGED <<status, result, address, writeData, gotten, busVars, fill, calls, accepted>>

Setup(t) ==
    /\ pc[t] = "setup" /\ MayRun(t)
    /\ toWrite' = ToWrite[t] /\ toRead' = ToRead[t]
    /\ written' = 0 /\ gotten' = 0
    /\ Goto(t, "start")
    /\ UNCHANGED <<status, result, address, writeData, busVars, fill, calls, accepted>>

(* Writing MASTER.ADDR sends a START, a repeated one if a transaction is      *)
(* under way; the call returns true.                                         *)
Start(t) ==
    /\ pc[t] = "start" /\ MayRun(t)
    /\ hw' = IF toWrite > 0 THEN "addressW" ELSE "addressR"
    /\ wire' = [to |-> address, bytes |-> <<>>]
    /\ current' = Message(t)
    /\ accepted' = accepted \union {Message(t)}
    /\ Goto(t, "ready")
    /\ UNCHANGED <<driverVars, readData, failed, out, fill, calls>>

Call(t) == Check(t) \/ Claim(t) \/ Fill(t) \/ Setup(t) \/ Start(t)

-----------------------------------------------------------------------------
(* TWI_MasterInterruptHandler, once the module has finished what hw says.     *)

Finish(r) == status' = "READY" /\ result' = r

(* Arbitration lost to another master, or a bus error.                        *)
ArbitrationLostBusError(r) ==
    /\ hw # "idle"
    /\ Finish(r)
    /\ hw' = "idle"
    /\ failed' = failed \union {current}
    /\ UNCHANGED <<address, writeData, toWrite, toRead, written, gotten,
                   readData, wire, current, out, callVars>>

(* Mutant: the driver stays BUSY after a NACK.                                *)
WriteNackBusy ==
    /\ hw \in {"addressW", "data", "addressR"}
    /\ result' = "NACK_RECEIVED"
    /\ hw' = "idle"
    /\ failed' = failed \union {current}
    /\ UNCHANGED <<status, address, writeData, toWrite, toRead, written, gotten,
                   readData, wire, current, out, callVars>>

(* TWI_MasterWriteHandler: not acknowledged.                                  *)
WriteNack ==
    /\ hw \in {"addressW", "data", "addressR"}
    /\ Finish("NACK_RECEIVED")
    /\ hw' = "idle"
    /\ failed' = failed \union {current}
    /\ UNCHANGED <<address, writeData, toWrite, toRead, written, gotten,
                   readData, wire, current, out, callVars>>

(* TWI_MasterWriteHandler: send the next byte,                                *)
WriteByte ==
    /\ hw \in {"addressW", "data"}
    /\ written < toWrite
    /\ wire' = [wire EXCEPT !.bytes = Append(@, writeData[written + 1])]
    /\ written' = written + 1
    /\ hw' = "data"
    /\ UNCHANGED <<status, result, address, writeData, toWrite, toRead, gotten,
                   readData, current, failed, out, callVars>>

(* or turn to reading,                                                       *)
WriteToRead ==
    /\ hw \in {"addressW", "data"}
    /\ written >= toWrite /\ gotten < toRead
    /\ hw' = "addressR"
    /\ UNCHANGED <<driverVars, readData, wire, current, failed, out, callVars>>

(* Mutant: the last byte is left out.                                        *)
WriteDoneEarly ==
    /\ hw \in {"addressW", "data"}
    /\ written + 1 >= toWrite /\ gotten >= toRead
    /\ Finish("OK")
    /\ hw' = "idle"
    /\ out' = Append(out, wire)
    /\ UNCHANGED <<address, writeData, toWrite, toRead, written, gotten,
                   readData, wire, current, failed, callVars>>

(* or finish.                                                                *)
WriteDone ==
    /\ hw \in {"addressW", "data"}
    /\ written >= toWrite /\ gotten >= toRead
    /\ Finish("OK")
    /\ hw' = "idle"
    /\ out' = Append(out, wire)
    /\ UNCHANGED <<address, writeData, toWrite, toRead, written, gotten,
                   readData, wire, current, failed, callVars>>

(* TWI_MasterReadHandler: store the byte when there is room (when there is    *)
(* not, the overflow is reported, and OK right after it), and go on until all *)
(* are read.                                                                 *)
Read ==
    /\ hw \in {"addressR", "receive"}
    /\ IF gotten < ReadBuffer
       THEN /\ readData' = Store(readData, gotten, <<current, gotten + 1>>)
            /\ gotten' = gotten + 1
       ELSE UNCHANGED <<readData, gotten>>
    /\ IF gotten' < toRead
       THEN /\ hw' = "receive"
            /\ IF gotten < ReadBuffer
               THEN UNCHANGED <<status, result>>
               ELSE Finish("BUFFER_OVERFLOW")
            /\ UNCHANGED out
       ELSE /\ Finish("OK")
            /\ hw' = "idle"
            /\ out' = Append(out, wire)
    /\ UNCHANGED <<address, writeData, toWrite, toRead, written, wire, current,
                   failed, callVars>>

Interrupt ==
    \/ \E r \in {"ARBITRATION_LOST", "BUS_ERROR"} : ArbitrationLostBusError(r)
    \/ WriteNack \/ WriteByte \/ WriteToRead \/ WriteDone \/ Read

-----------------------------------------------------------------------------
(* The callers may have nothing more to send.                                *)
Idle == /\ hw = "idle" /\ \A t \in Tasks : pc[t] = "ready" /\ calls[t] = MaxCalls
        /\ UNCHANGED vars

Next == Interrupt \/ Idle \/ \E t \in Tasks : Call(t)

Spec == Init /\ [][Next]_vars

(* The module always ends what it is doing with an interrupt (the slave does  *)
(* not stretch the clock for ever), and a call that has begun goes on.        *)
Proceed(t) == Claim(t) \/ Fill(t) \/ Setup(t) \/ Start(t)
FairSpec == Spec /\ WF_vars(Interrupt) /\ \A t \in Tasks : WF_vars(Proceed(t))

-----------------------------------------------------------------------------
Whole(m) == [to |-> m, bytes |-> [i \in 1 .. W(m) |-> <<m, i>>]]

(* What completes on the bus is one message, whole, to its own destination,   *)
(* whatever was in the buffer before and whatever failed before.              *)
SentWhole == \A i \in DOMAIN out : \E m \in accepted : out[i] = Whole(m)

InFlight == IF hw = "idle" THEN {} ELSE {current}

(* A call that returned true has started its transaction: its message has     *)
(* been sent, or has failed on the bus, or is the one under way.              *)
AcceptedIsSent ==
    \A m \in accepted : \/ \E i \in DOMAIN out : out[i] = Whole(m)
                        \/ m \in failed
                        \/ InFlight = {m}

(* What a read that ended OK leaves in readData is what the slave sent in     *)
(* that very transaction.                                                    *)
ReadIsFresh ==
    status = "READY" /\ result = "OK" =>
        /\ gotten = R(current)
        /\ \A i \in 1 .. gotten : readData[i] = <<current, i>>

Link == INSTANCE OneShotLink WITH inFlight <- InFlight,
                                  out <- [i \in DOMAIN out |-> out[i].to]

(* The driver accepts, sends or loses whole messages one at a time, and no     *)
(* transaction lasts for ever.                                               *)
ImplementsLink == Link!FairSpec

(* The driver always becomes READY again.                                     *)
BecomesReady == status = "BUSY" ~> status = "READY"
=============================================================================
