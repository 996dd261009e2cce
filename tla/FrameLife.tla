------------------------------ MODULE FrameLife ------------------------------
(***************************************************************************)
(* How long a received frame lives.  It is a local variable of                *)
(* TWI_CSP_SlaveProcessData (csp_interface.c:24), on the stack of the task the *)
(* slave interrupt has interrupted; the router gets its address.  Since       *)
(* csp_i2c_rx is called without pxTaskWoken, csp_new_packet sends to the FIFO  *)
(* as a task would: if that wakes the router, the handler itself yields to it *)
(* and stays unfinished, and the frame with it, until the task it interrupted *)
(* runs again.  Until then no other interrupt of its level is taken: neither  *)
(* the slave's nor the tick.                                                 *)
(*                                                                         *)
(* The driver and the bus are those of TwiSlave.  Frames are numbered as they *)
(* are handed over.                                                          *)
(***************************************************************************)
EXTENDS TwiSlave

CONSTANT FifoLen      \* CSP_FIFO_INPUT

ASSUME FrameLifeAssumption == FifoLen \in Nat \ {0}

Users == {"cspTask", "mainTask", "idle"}      \* of priority 0; the router has 1
None == "none"

VARIABLES
    cpu,        \* the task that runs
    router,     \* "ready", or blocked on router_input_fifo or conn_lock
    suspended,  \* has the task that runs suspended the scheduler
    locked,     \* does cspTask hold conn_lock, in csp_close
    under,      \* the task whose stack holds an unfinished handler
    onStack,    \* and the frame of that handler
    fifo,       \* router_input_fifo[0]
    inHand,     \* the packet the router routes
    direct      \* history: its handler yielded to the router, and the router has
                \* not waited for conn_lock since

lifeVars == <<cpu, router, suspended, locked, under, onStack, fifo, inHand, direct>>
lifeAndDriverVars == <<vars, lifeVars>>

(* Everything is well typed, the driver included, and the router, of higher    *)
(* priority, is kept off the CPU only by a task that has suspended the         *)
(* scheduler.                                                                *)
SchedulerOK ==
    /\ cpu \in Users \union {"router"}
    /\ router \in {"ready", "fifo", "lock"}
    /\ {suspended, locked, direct} \subseteq BOOLEAN
    /\ under \in Users \union {None} /\ onStack \in 0 .. Len(frames)
    /\ fifo \in Seq(1 .. Len(frames)) /\ Len(fifo) <= FifoLen
    /\ inHand \in 0 .. Len(frames)
    /\ (router = "ready" <=> cpu = "router") \/ suspended

LifeTypeOK == TypeOK /\ SchedulerOK

LifeInit ==
    /\ Init
    /\ cpu \in Users /\ router = "fifo"
    /\ suspended = FALSE /\ locked = FALSE
    /\ under = None /\ onStack = 0
    /\ fifo = <<>> /\ inHand = 0 /\ direct = FALSE

-----------------------------------------------------------------------------
(* The slave interrupt, taken when no handler of its level is unfinished.     *)

HandsOver == frames' # frames

(* Nothing is handed over, or there is no room for it.                       *)
Silent ==
    /\ under = None
    /\ InterruptHandler
    /\ HandsOver => Len(fifo) = FifoLen
    /\ UNCHANGED lifeVars

(* csp_new_packet wakes the router, and the CPU goes to it: of the handler h is *)
(* left, in task t.                                                          *)
Wakes(t, h) ==
    /\ under = None /\ router = "fifo" /\ ~suspended
    /\ InterruptHandler
    /\ HandsOver /\ Len(fifo) < FifoLen
    /\ fifo' = Append(fifo, Len(frames'))
    /\ under' = t /\ onStack' = h
    /\ cpu' = "router" /\ router' = "ready" /\ direct' = TRUE
    /\ UNCHANGED <<suspended, locked, inHand>>

(* Mutant: the switch is made when the handler has ended.                     *)
YieldAtEnd == Wakes(None, 0)

(* The handler itself yields.                                                *)
Yield == Wakes(cpu, Len(frames'))

(* It does not: the router is not waiting for a packet, or it cannot run       *)
(* before the scheduler is resumed.  The handler ends, and so does the frame.  *)
Leave ==
    /\ under = None /\ (router = "fifo" => suspended)
    /\ InterruptHandler
    /\ HandsOver /\ Len(fifo) < FifoLen
    /\ fifo' = Append(fifo, Len(frames'))
    /\ router' = IF router = "fifo" THEN "ready" ELSE router
    /\ UNCHANGED <<cpu, suspended, locked, under, onStack, inHand, direct>>

-----------------------------------------------------------------------------
(* csp_task_router.                                                          *)

NextPacket ==
    /\ cpu = "router" /\ inHand = 0 /\ fifo # <<>>
    /\ inHand' = Head(fifo) /\ fifo' = Tail(fifo)
    /\ UNCHANGED <<vars, cpu, router, suspended, locked, under, onStack, direct>>

(* The packet has been queued on its connection, sent on or freed.            *)
Routed ==
    /\ cpu = "router" /\ inHand # 0
    /\ inHand' = 0 /\ direct' = FALSE
    /\ UNCHANGED <<vars, cpu, router, suspended, locked, under, onStack, fifo>>

(* The router blocks, in csp_route_next_packet or csp_conn_allocate.          *)
WaitForPacket ==
    /\ cpu = "router" /\ inHand = 0 /\ fifo = <<>>
    /\ router' = "fifo" /\ cpu' \in Users
    /\ UNCHANGED <<vars, suspended, locked, under, onStack, fifo, inHand, direct>>

WaitForLock ==
    /\ cpu = "router" /\ inHand # 0 /\ locked
    /\ router' = "lock" /\ cpu' \in Users /\ direct' = FALSE
    /\ UNCHANGED <<vars, suspended, locked, under, onStack, fifo, inHand>>

(* Either wait may time out, by an interrupt, the tick.                       *)
TimeOut ==
    /\ router # "ready" /\ under = None
    /\ router' = "ready" /\ cpu' = IF suspended THEN cpu ELSE "router"
    /\ UNCHANGED <<vars, suspended, locked, under, onStack, fifo, inHand, direct>>

Router == NextPacket \/ Routed \/ WaitForPacket \/ WaitForLock \/ TimeOut

-----------------------------------------------------------------------------
(* The tasks of priority 0.                                                  *)

(* The handler under the task that runs goes on where it yielded, and ends.    *)
HandlerEnds ==
    /\ cpu = under
    /\ under' = None /\ onStack' = 0
    /\ UNCHANGED <<vars, cpu, router, suspended, locked, fifo, inHand, direct>>

(* The task itself runs.                                                     *)
Runs == cpu \in Users /\ cpu # under

SwitchTo(t) ==
    /\ cpu' = t
    /\ UNCHANGED <<vars, router, suspended, locked, under, onStack, fifo, inHand, direct>>

(* It blocks, or its slice is over.                                          *)
Switch == Runs /\ ~suspended /\ \E t \in Users \ {cpu} : SwitchTo(t)

(* vTaskSuspendAll and xTaskResumeAll, in every call that may block.          *)
Suspend ==
    /\ Runs /\ ~suspended
    /\ suspended' = TRUE
    /\ UNCHANGED <<vars, cpu, router, locked, under, onStack, fifo, inHand, direct>>

ResumeTo(next) ==
    /\ Runs /\ suspended
    /\ suspended' = FALSE
    /\ cpu' = next
    /\ UNCHANGED <<vars, router, locked, under, onStack, fifo, inHand, direct>>

(* Mutant: no yield for a task woken meanwhile.                              *)
ResumeStay == ResumeTo(cpu)

Resume == ResumeTo(IF router = "ready" THEN "router" ELSE cpu)

(* csp_close of cspTask takes conn_lock and gives it back.                    *)
Lock ==
    /\ Runs /\ cpu = "cspTask" /\ ~suspended
    /\ ~locked /\ router # "lock"
    /\ locked' = TRUE
    /\ UNCHANGED <<vars, cpu, router, suspended, under, onStack, fifo, inHand, direct>>

Unlock ==
    /\ Runs /\ cpu = "cspTask" /\ ~suspended
    /\ locked
    /\ locked' = FALSE
    /\ router' = IF router = "lock" THEN "ready" ELSE router
    /\ cpu' = IF router = "lock" THEN "router" ELSE cpu
    /\ UNCHANGED <<vars, suspended, under, onStack, fifo, inHand, direct>>

User == HandlerEnds \/ Switch \/ Suspend \/ Resume \/ Lock \/ Unlock

LifeNext ==
    \/ Silent \/ Yield \/ Leave
    \/ (Bus \/ Quiet) /\ UNCHANGED lifeVars
    \/ Router \/ User

LifeSpec == LifeInit /\ [][LifeNext]_lifeAndDriverVars
-----------------------------------------------------------------------------
(* A frame whose handler yielded to the router is there as long as the router  *)
(* works on it, unless it has to wait for conn_lock: no other task runs, and   *)
(* no other interrupt comes between.  Nothing else keeps a frame alive.        *)
RoutedWhole == direct /\ inHand # 0 => under # None /\ onStack = inHand
=============================================================================
