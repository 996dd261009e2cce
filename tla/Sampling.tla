------------------------------- MODULE Sampling -------------------------------
(***************************************************************************)
(* The measurement of the HM board: the 2 kHz timer interrupt that samples   *)
(* the ADC into the SPI memory, and mainTask, which executes the commands    *)
(* cspTask queues for it and reads the same memory.  Interrupt and task      *)
(* share the SPI port (and the driver's buffer), the flag sampling, which is *)
(* not volatile, count_TCD0 and the stored signal; no lock protects them.    *)
(*                                                                         *)
(* The interrupt may fire between any two steps of mainTask.  A step of a    *)
(* label in SpiLabels is one SPI transfer of mainTask (or a loop of them):   *)
(* while pc is there the memory is selected by mainTask.                     *)
(***************************************************************************)
EXTENDS Integers, Sequences, Functions

CONSTANTS
    Length,       \* MEM_SIGNAL_LENGTH, samples per measurement
    Decimation,   \* DECIMATION_FACTOR
    Points,       \* NO_POINTS, points of the FFT
    Samples,      \* what the ADC reads
    Unknown,      \* what a word of the SRAM holds after power-up
    HkBytes,      \* the bytes houseKeeping writes to the signal area, by address
    Commands,     \* the commands that arrive
    QueueLen,     \* the length of xCSPEventQueue
    InTime,       \* do the 4 s of processAll's delay cover the measurement
    Hoisted,      \* did the compiler read sampling only once in the wait loop
    MaxCommands   \* bound: how many commands arrive

AllCommands == {"processAll", "sendSignal", "sendFFT", "houseKeeping",
                "echoBack", "freeHeap", "unused"}

Index == 0 .. Length - 1

ASSUME SamplingAssumption ==
    /\ Length \in Nat \ {0}
    /\ Decimation \in Nat \ {0}
    /\ Points \in Nat \ {0, 1}
    /\ Samples \subseteq Int
    /\ Unknown \in Int
    /\ DOMAIN HkBytes \subseteq 0 .. 2 * Length - 1
    /\ \A b \in DOMAIN HkBytes : HkBytes[b] \in 0 .. 255
    /\ Commands \subseteq AllCommands
    /\ QueueLen \in Nat \ {0}
    /\ InTime \in BOOLEAN
    /\ Hoisted \in BOOLEAN
    /\ MaxCommands \in Nat

VARIABLES
    asked,         \* how many commands cspTask has tried to queue
    events,        \* xCSPEventQueue
    pc,            \* where mainTask is
    point,         \* the loop variable i of sendSignal and sendFFT
    ticking,       \* is TCC0, the clock of the RTOS, running
    sampling,      \* the flag sampling
    count,         \* count_TCD0
    signalOffset,  \* signal_offset, the running sum
    signal,        \* SPI memory from MEM_SIGNAL_BEGIN, by words
    storedOffset,  \* SPI memory at MEM_SIGNAL_OFFSET
    fft,           \* SPI memory from MEM_FFT_BEGIN: the input of the FFT
    fftIs,         \* or, once transformed, the spectrum of it
    power,         \* the level of POWER_SWITCH
    taken,         \* history: the samples of the latest measurement, in order
    tested,        \* history: has houseKeeping tested the memory since
    reported       \* history: the packets of the latest sendSignal since, those
                   \* that went out, each with a point and the place it names

taskVars == <<asked, events, pc, point, ticking>>
acqVars  == <<sampling, count, signalOffset>>
memVars  == <<signal, storedOffset, fft, fftIs>>
histVars == <<taken, tested, reported>>
handlerVars == <<asked, events, point, ticking, acqVars, histVars>>  \* a step of processAll
vars == <<asked, events, pc, point, ticking, sampling, count, signalOffset,
          signal, storedOffset, fft, fftIs, power, taken, tested, reported>>

SpiLabels == {"decimate", "calculate", "readSignal", "readFFT", "hkWrite"}
Labels == SpiLabels \union {"receive", "delay", "wait", "spin", "answer",
                            "settle", "sendSignal", "sendFFT", "hkSend", "reply"}

Packets == [at : Index, is : Int]

TypeOK ==
    /\ asked \in 0 .. MaxCommands
    /\ events \in Seq(Commands) /\ Len(events) <= QueueLen
    /\ pc \in Labels
    /\ point \in Nat
    /\ ticking \in BOOLEAN /\ sampling \in BOOLEAN /\ power \in BOOLEAN
    /\ count \in Index
    /\ signalOffset \in Int /\ storedOffset \in Int
    /\ signal \in [Index -> Int]
    /\ fft \in [0 .. Points - 1 -> Int]
    /\ fftIs \in {"unknown", "input", "spectrum"}
    /\ taken \in Seq(Samples) /\ Len(taken) <= Length
    /\ tested \in BOOLEAN
    /\ reported \in Seq(Packets)

Init ==
    /\ asked = 0
    /\ events = <<>>
    /\ pc = "receive"
    /\ point = 0
    /\ ticking = TRUE
    /\ sampling = FALSE
    /\ count = 0
    /\ signalOffset = 0
    /\ signal = [i \in Index |-> Unknown]
    /\ storedOffset = Unknown
    /\ fft = [i \in 0 .. Points - 1 |-> Unknown]
    /\ fftIs = "unknown"
    /\ power = TRUE
    /\ taken = <<>>
    /\ tested = FALSE
    /\ reported = <<>>

(* Division of C: it truncates towards zero.                                 *)
Quotient(a, b) == IF a >= 0 THEN a \div b ELSE -((-a) \div b)

(* The words decimate_and_store reads for the points of the FFT, less the     *)
(* mean; points beyond the signal are zero.                                   *)
Decimated(word, mean) ==
    [i \in 0 .. Points - 1 |->
        IF i * Decimation < Length THEN word[i * Decimation] - mean ELSE 0]

(* A word w at place i after a test of the memory.  A word is two bytes, the   *)
(* high one first; the test writes bytes from odd addresses on, so that the    *)
(* first and the last word it touches keep one byte of w.                     *)
Tested(i, w) ==
    LET high == IF 2 * i \notin DOMAIN HkBytes THEN w \div 256
                ELSE HkBytes[2 * i] - (IF HkBytes[2 * i] < 128 THEN 0 ELSE 256)
        low == IF 2 * i + 1 \notin DOMAIN HkBytes THEN w % 256 ELSE HkBytes[2 * i + 1]
    IN 256 * high + low

-----------------------------------------------------------------------------
(* cspTask.                                                                  *)

(* xQueueSend in cspTask waits for room only so long, and its result is       *)
(* ignored.  cspTask runs with the clock of the RTOS off, too: the interrupt of *)
(* the I2C slave wakes the router, whose packet wakes cspTask.                *)
Dispatch(c) ==
    /\ asked < MaxCommands
    /\ asked' = asked + 1
    /\ events' = IF Len(events) < QueueLen THEN Append(events, c) ELSE events
    /\ UNCHANGED <<pc, point, ticking, acqVars, memVars, power, histVars>>

-----------------------------------------------------------------------------
(* ISR(TCD0_OVF_vect).                                                       *)

(* One sample v: where it is stored, whether it is the last one, and what the *)
(* running sum is reset to after the last one.                                *)
SampleAt(v, address, last, reset) ==
    /\ sampling
    /\ signal' = [signal EXCEPT ![address] = v]
    /\ taken' = Append(taken, v)
    /\ sampling' = ~last
    /\ count' = IF last THEN 0 ELSE count + 1
    /\ signalOffset' = IF last THEN reset ELSE signalOffset + v
    /\ storedOffset' = IF last THEN Quotient(signalOffset + v, Length) ELSE storedOffset
    /\ power' = (power # last)
    /\ UNCHANGED <<taskVars, fft, fftIs, tested, reported>>

(* Mutants: the running sum is not reset at the end of a measurement; one     *)
(* sample too many; the counter is incremented before it is used as address.  *)
SampleNoReset(v) == SampleAt(v, count, count + 1 = Length, signalOffset + v)
SampleOneMore(v) == SampleAt(v, count, count = Length, 0)
SampleShifted(v) == SampleAt(v, (count + 1) % Length, count + 1 = Length, 0)

Sample(v) == SampleAt(v, count, count + 1 = Length, 0)

-----------------------------------------------------------------------------
(* mainTask: xQueueReceive and the dispatch on the event type.               *)

Start(c) ==
    CASE c = "processAll"   -> "delay"
      [] c = "sendSignal"   -> "sendSignal"
      [] c = "sendFFT"      -> "sendFFT"
      [] c = "houseKeeping" -> "hkWrite"
      [] c \in {"echoBack", "freeHeap"} -> "reply"
      [] OTHER -> "receive"

(* What the handler does before it first waits, sends or touches the SPI      *)
(* memory: processAll starts the measurement, the others stop the RTOS clock. *)
ReceiveKeeping(left) ==
    /\ pc = "receive"
    /\ events # <<>>
    /\ LET c == Head(events)
           measure == c = "processAll"
       IN /\ events' = left
          /\ pc' = Start(c)
          /\ count' = IF measure THEN 0 ELSE count
          /\ sampling' = (sampling \/ measure)
          /\ taken' = IF measure THEN <<>> ELSE taken
          /\ ticking' = (c \notin {"sendSignal", "sendFFT", "houseKeeping", "freeHeap"})
          /\ power' = IF c \in {"sendSignal", "sendFFT"} THEN ~power ELSE power
          /\ tested' = (tested /\ ~measure)
          /\ reported' = IF c \in {"processAll", "sendSignal", "houseKeeping"}
                         THEN <<>> ELSE reported
    /\ point' = 0
    /\ UNCHANGED <<asked, signalOffset, memVars>>

(* Mutant: the command is looked at (xQueuePeek) and stays in the queue.       *)
ReceivePeek == ReceiveKeeping(events)

Receive == ReceiveKeeping(Tail(events))

-----------------------------------------------------------------------------
(* processAll.                                                               *)

(* vTaskDelay(2000): 4 s, in which the measurement ends when the timer runs   *)
(* at its 2 kHz.                                                             *)
Delay ==
    /\ pc = "delay"
    /\ InTime => ~sampling
    /\ pc' = "wait"
    /\ UNCHANGED <<handlerVars, memVars, power>>

(* Mutant: the wait is left out.                                            *)
WaitNot ==
    /\ pc = "wait"
    /\ pc' = "decimate"
    /\ power' = ~power
    /\ UNCHANGED <<handlerVars, memVars>>

(* while (sampling == true): the loop ends when it reads FALSE, and the switch *)
(* is toggled; with the read moved out of the loop it never ends once it has  *)
(* read TRUE.                                                                *)
Wait ==
    /\ pc = "wait"
    /\ sampling => Hoisted
    /\ pc' = IF sampling THEN "spin" ELSE "decimate"
    /\ power' = (power = sampling)
    /\ UNCHANGED <<handlerVars, memVars>>

Decimate ==
    /\ pc = "decimate"
    /\ fft' = Decimated(signal, storedOffset)
    /\ fftIs' = "input"
    /\ pc' = "calculate"
    /\ UNCHANGED <<handlerVars, signal, storedOffset, power>>

Calculate ==
    /\ pc = "calculate"
    /\ fftIs' = "spectrum"
    /\ power' = ~power
    /\ pc' = "answer"
    /\ UNCHANGED <<handlerVars, signal, storedOffset, fft>>

(* A handler moves on without touching what is modelled: processAll sends its *)
(* answer and waits 20 ms, sendSignal and sendFFT send their header.          *)
Proceed(from, to) ==
    /\ pc = from
    /\ pc' = to
    /\ UNCHANGED <<handlerVars, memVars, power>>

Answer == Proceed("answer", "settle")
Settle == Proceed("settle", "receive")

-----------------------------------------------------------------------------
(* sendSignal and sendFFT: a header packet, then one packet per point whose   *)
(* failure is ignored; sendFFT toggles the switch per packet that went out.   *)

SendSignal == Proceed("sendSignal", "readSignal")

(* The packet of a point says its place.                                    *)
ReadSignalNaming(place, ok) ==
    /\ pc = "readSignal"
    /\ reported' = IF ok THEN Append(reported, [at |-> place, is |-> signal[point]])
                   ELSE reported
    /\ point' = point + 1
    /\ IF point + 1 = Length
       THEN /\ pc' = "receive"
            /\ ticking' = TRUE
       ELSE UNCHANGED <<pc, ticking>>
    /\ UNCHANGED <<asked, events, acqVars, memVars, power, taken, tested>>

(* Mutant: the place is counted up only by the packets that went out.          *)
ReadSignalCounted(ok) == ReadSignalNaming(Len(reported), ok)

ReadSignal(ok) == ReadSignalNaming(point, ok)

SendFFT == Proceed("sendFFT", "readFFT")

ReadFFT(ok) ==
    /\ pc = "readFFT"
    /\ power' = IF ok THEN ~power ELSE power
    /\ point' = point + 1
    /\ IF point + 1 = Points \div 2
       THEN /\ pc' = "receive"
            /\ ticking' = TRUE
       ELSE UNCHANGED <<pc, ticking>>
    /\ UNCHANGED <<asked, events, acqVars, memVars, histVars>>

-----------------------------------------------------------------------------
(* houseKeeping writes a complex to byte 145 and a word to byte 0x789 of the  *)
(* SPI memory as a test of it, and reads the ADC.                             *)
HkWrite ==
    /\ pc = "hkWrite"
    /\ signal' = [i \in Index |-> Tested(i, signal[i])]
    /\ tested' = TRUE
    /\ pc' = "hkSend"
    /\ UNCHANGED <<asked, events, point, ticking, acqVars, storedOffset, fft, fftIs,
                   power, taken, reported>>

(* Mutant: the handler returns with the RTOS clock stopped.                   *)
HkSendForget(ok) ==
    /\ pc = "hkSend"
    /\ power' = IF ok THEN ~power ELSE power
    /\ pc' = "receive"
    /\ UNCHANGED <<asked, events, point, ticking, acqVars, memVars, histVars>>

HkSend(ok) ==
    /\ pc = "hkSend"
    /\ power' = IF ok THEN ~power ELSE power
    /\ ticking' = TRUE
    /\ pc' = "receive"
    /\ UNCHANGED <<asked, events, point, acqVars, memVars, histVars>>

(* echoBack and sendFreeHeapSpace: one packet; echoBack toggles on success,   *)
(* sendFreeHeapSpace (which stopped the RTOS clock) never does.               *)
Reply(ok) ==
    /\ pc = "reply"
    /\ power' = IF ok /\ ticking THEN ~power ELSE power
    /\ ticking' = TRUE
    /\ pc' = "receive"
    /\ UNCHANGED <<asked, events, point, acqVars, memVars, histVars>>

-----------------------------------------------------------------------------
MainTask ==
    \/ Receive \/ Delay \/ Wait \/ Decimate \/ Calculate \/ Answer \/ Settle
    \/ SendSignal \/ SendFFT \/ HkWrite
    \/ \E ok \in BOOLEAN : ReadSignal(ok) \/ ReadFFT(ok) \/ HkSend(ok) \/ Reply(ok)

Interrupt == \E v \in Samples : Sample(v)
CspTask == \E c \in Commands : Dispatch(c)

(* mainTask polls its queue for ever, or loops in processAll.                *)
Idle == /\ pc = "spin" \/ (pc = "receive" /\ events = <<>>)
        /\ UNCHANGED vars

Next == MainTask \/ Interrupt \/ CspTask \/ Idle

Spec == Init /\ [][Next]_vars

(* The timer runs at its rate, and mainTask gets the CPU whenever it can run: *)
(* cspTask, of equal priority, blocks after every packet.                     *)
FairSpec == Spec /\ WF_vars(Interrupt) /\ WF_vars(MainTask)

-----------------------------------------------------------------------------
(* The interrupt never starts an SPI transfer while mainTask is in one: it    *)
(* writes only while sampling, and mainTask keeps off the SPI port then,      *)
(* though nothing but the wait in processAll sees to it.                      *)
SpiExclusive == pc \in SpiLabels => ~sampling

(* What a measurement left at place i, or the test of the memory after it.     *)
Held(i) == IF tested THEN Tested(i, taken[i + 1]) ELSE taken[i + 1]

(* sendSignal sends the raw sampled signal: whichever of its packets fail, each *)
(* one that goes out names the place of the sample it holds, and holds what the *)
(* latest measurement took there; houseKeeping in between spoils the bytes it   *)
(* tests, and no other byte ever changes.                                    *)
ReportsRawOrTested ==
    Len(taken) = Length =>
        /\ \A i \in DOMAIN reported : reported[i].is = Held(reported[i].at)
        /\ \A i, j \in DOMAIN reported : i < j => reported[i].at < reported[j].at

(* The clock of the RTOS, stopped by the handlers, always comes back.         *)
ClockResumes == ~ticking ~> ticking

(* Every queued command is executed, unless mainTask is caught in the wait loop *)
(* that reads sampling only once.                                             *)
CommandsEnd == [](pc # "spin") => (events # <<>> ~> pc = "receive" /\ events = <<>>)
=============================================================================
