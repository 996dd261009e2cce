-------------------------------- MODULE Kernel --------------------------------
(***************************************************************************)
(* FreeRTOS as the board runs it: one queue, the tasks that send to it and   *)
(* receive from it with a block time, the interrupts that do, the tick, and  *)
(* the scheduler they all go through (queue.c, tasks.c, list.c, port.c).     *)
(*                                                                         *)
(* A step is what runs with interrupts disabled; between two steps of the    *)
(* running task an interrupt may come.  The port's tick switches the context *)
(* whatever xTaskIncrementTick returns.  The interrupts that use the kernel  *)
(* are all of the low level of the XMEGA: none interrupts another, and one   *)
(* that yields stays the executing interrupt, on the stack of the task it    *)
(* interrupted, until that task runs again and it returns.                   *)
(***************************************************************************)
EXTENDS Integers, Sequences, SequencesExt, FiniteSetsExt

CONSTANTS
    Tasks,        \* the tasks, the idle task among them
    Idle,         \* the idle task
    Priority,     \* their priorities
    End,          \* xListEnd, the marker in every list
    Length,       \* uxLength of the queue
    Width,        \* bound: the tick count is a number modulo Width
    Epochs,       \* bound: xNumOfOverflows is a number modulo Epochs
    Operations,   \* the calls each task makes: "send", "receive", "delay"
    BlockTimes,   \* the block times they give
    TaskApi,      \* does the interrupt call xQueueSend, as csp_i2c_rx makes it do
    MaxPended,    \* bound: ticks while the scheduler is suspended
    MaxLock       \* bound: interrupts while the queue is locked, each way

Forever == Width - 1      \* portMAX_DELAY

ASSUME KernelAssumption ==
    /\ IsFiniteSet(Tasks) /\ Idle \in Tasks
    /\ End \notin Tasks
    /\ Priority \in [Tasks -> Nat]
    /\ Length \in Nat \ {0}
    /\ Width \in Nat \ {0, 1}
    /\ Epochs \in Nat \ {0, 1}
    /\ Operations \in [Tasks -> SUBSET {"send", "receive", "delay"}]
    /\ Operations[Idle] = {}
    /\ BlockTimes \subseteq 0 .. Forever
    /\ TaskApi \in BOOLEAN
    /\ MaxPended \in Nat /\ MaxLock \in Nat

VARIABLES
    cur,           \* pxCurrentTCB
    ready,         \* pxReadyTasksLists, each from its pxIndex on
    place,         \* the list the generic list item of a task is in
    wake,          \* the value of that item while it is in a delayed list
    nextUnblock,   \* xNextTaskUnblockTime
    ticks,         \* xNumOfOverflows * Width + xTickCount
    pended,        \* uxPendedTicks
    suspended,     \* uxSchedulerSuspended
    yieldPending,  \* xYieldPending
    pending,       \* xPendingReadyList
    messages,      \* uxMessagesWaiting
    waitSend,      \* xTasksWaitingToSend
    waitReceive,   \* xTasksWaitingToReceive
    txLock,        \* xTxLock
    rxLock,        \* xRxLock
    pc,            \* where each task is in its call
    op,            \* what it called
    left,          \* xTicksToWait
    entered,       \* xTimeOut
    goal,          \* which way it leaves the suspended scheduler
    isrOn,         \* the task on whose stack an interrupt waits
    owed,          \* history: the ticks it still has to wait
    since          \* history: the ticks since xTimeOut was set, up to Width

schedVars == <<cur, ready, yieldPending>>
timeVars  == <<place, wake, nextUnblock, ticks, pended, owed, since>>
queueVars == <<messages, waitSend, waitReceive, txLock, rxLock>>
callVars  == <<pc, op, left, entered, goal>>
vars == <<schedVars, timeVars, queueVars, callVars, suspended, pending, isrOn>>

Unlocked == -1
Unmodified == 0
None == End
Priorities == {Priority[t] : t \in Tasks}
Labels == {"run", "first", "try", "suspend", "lock", "check", "test", "insert", "block",
           "unlockTx", "unlockRx", "resume", "yield"}

TypeOK ==
    /\ cur \in Tasks
    /\ ready \in [Priorities -> Seq(Tasks \union {End})]
    /\ place \in [Tasks -> {"ready", "delayed", "overflow", "suspended"}]
    /\ wake \in [Tasks -> 0 .. Width - 1]
    /\ nextUnblock \in 0 .. Width - 1
    /\ ticks \in 0 .. Width * Epochs - 1
    /\ pended \in 0 .. MaxPended
    /\ suspended \in 0 .. 1
    /\ yieldPending \in BOOLEAN
    /\ pending \in Seq(Tasks)
    /\ messages \in 0 .. Length
    /\ waitSend \in Seq(Tasks) /\ waitReceive \in Seq(Tasks)
    /\ txLock \in Unlocked .. MaxLock /\ rxLock \in Unlocked .. MaxLock
    /\ pc \in [Tasks -> Labels]
    /\ op \in [Tasks -> {"none", "send", "receive", "delay"}]
    /\ left \in [Tasks -> 0 .. Forever]
    /\ entered \in [Tasks -> 0 .. Width * Epochs - 1]
    /\ goal \in [Tasks -> {"sleep", "retry", "expired"}]
    /\ isrOn \in Tasks \union {None}
    /\ owed \in [Tasks -> 0 .. Forever]
    /\ since \in [Tasks -> 0 .. Width]

-----------------------------------------------------------------------------
(* Lists *)

\* The list s without the items in D, one after the other (a function, where
\* SelectSeq would do, for the sake of the proofs).
Kept(s, D) ==
    LET kept[i \in 0 .. Len(s)] == IF i = 0 THEN <<>>
                                   ELSE IF s[i] \in D THEN kept[i - 1]
                                   ELSE Append(kept[i - 1], s[i])
    IN  kept[Len(s)]

\* uxListRemove: an index that points at the item moves to the one before.
Without(c, t) ==
    IF Head(c) = t THEN <<Last(c)>> \o SubSeq(c, 2, Len(c) - 1) ELSE Kept(c, {t})

\* vListInsertEnd, for a ready list: before the item its index points at.
Readied(r, t) == [r EXCEPT ![Priority[t]] = Append(@, t)]

\* The same for the tasks of s, one after the other.
AllReadied(r, s) == [p \in Priorities |-> r[p] \o Kept(s, {t \in Tasks : Priority[t] # p})]

\* vListInsert, for an event list: in the order of priority, after its equals.
InOrder(s, t) ==
    LET lower == {u \in Tasks : Priority[u] < Priority[t]}
    IN  Kept(s, lower) \o <<t>> \o Kept(s, Tasks \ lower)

\* listGET_OWNER_OF_NEXT_ENTRY: the next item, the marker skipped.
Onward(c) == Tail(c) \o <<Head(c)>>
Rotated(c) == IF Head(Onward(c)) = End THEN Onward(Onward(c)) ELSE Onward(c)

-----------------------------------------------------------------------------
(* The scheduler *)

Top(r) == Max({p \in Priorities : r[p] # <<End>>})

\* vTaskSwitchContext, with the ready lists r.
SwitchContext(r, s) ==
    IF s > 0
    THEN cur' = cur /\ ready' = r /\ yieldPending' = TRUE
    ELSE LET c == Rotated(r[Top(r)])
         IN  /\ cur' = Head(c)
             /\ ready' = [r EXCEPT ![Top(r)] = c]
             /\ yieldPending' = FALSE

GoOn(r, y) == cur' = cur /\ ready' = r /\ yieldPending' = y

\* Mutant: the comparison of the priorities the wrong way round.
HigherReversed(t) == Priority[t] < Priority[cur]

Higher(t) == Priority[t] > Priority[cur]

\* xTaskRemoveFromEventList: the task becomes ready, or is held pending.
Unblock(t) ==
    IF suspended = 0
    THEN /\ place' = [place EXCEPT ![t] = "ready"] /\ wake' = [wake EXCEPT ![t] = 0]
         /\ UNCHANGED pending
    ELSE pending' = Append(pending, t) /\ UNCHANGED <<place, wake>>

WithUnblocked(t) == IF suspended = 0 THEN Readied(ready, t) ELSE ready

-----------------------------------------------------------------------------
(* Time.  The scheduler's view of it is a record, to be folded over the      *)
(* ticks that were pended.                                                  *)

Count(n) == n % Width

Now == [ticks |-> ticks, place |-> place, next |-> nextUnblock, ready |-> ready,
        send |-> waitSend, receive |-> waitReceive, switch |-> FALSE,
        wake |-> wake, owed |-> owed, since |-> since]

\* Mutant: the lists are not exchanged when the count wraps.
WrappedNoSwitch(s) == s

\* taskSWITCH_DELAYED_LISTS and prvResetNextTaskUnblockTime, when the count wraps.
Wrapped(s) ==
    LET moved == [t \in Tasks |-> CASE s.place[t] = "overflow" -> "delayed"
                                    [] s.place[t] = "delayed" -> "overflow"
                                    [] OTHER -> s.place[t]]
        times == {s.wake[t] : t \in {u \in Tasks : moved[u] = "delayed"}}
    IN  [s EXCEPT !.place = moved, !.next = Min(times \union {Forever})]

\* The loop of xTaskIncrementTick over the delayed list: those whose time has
\* come become ready and leave their event list.
Expire(s) ==
    LET now == Count(s.ticks)
        due == {t \in Tasks : s.place[t] = "delayed" /\ s.wake[t] <= now}
        rest == {s.wake[t] : t \in {u \in Tasks : s.place[u] = "delayed"} \ due}
    IN  [s EXCEPT
            !.place = [t \in Tasks |-> IF t \in due THEN "ready" ELSE @[t]],
            !.wake = [t \in Tasks |-> IF t \in due THEN 0 ELSE @[t]],
            !.next = Min(rest \union {Forever}),
            !.ready = AllReadied(@, SetToSeq(due)),
            !.send = Kept(@, due),
            !.receive = Kept(@, due),
            !.switch = @ \/ \E t \in due : Priority[t] >= Priority[cur]]

\* A call that has noted the time of its entry and will compare it.
InTime(t) == op[t] # "delay" /\ pc[t] \notin {"run", "first"} /\ left[t] \in 1 .. Forever - 1

\* xTaskIncrementTick, with the scheduler running: the count, the exchange of the
\* lists, and those whose time has come.
Counted(s) ==
    [s EXCEPT !.ticks = (@ + 1) % (Width * Epochs),
              !.owed = [t \in Tasks |-> IF @[t] = 0 THEN 0 ELSE @[t] - 1],
              !.since = [t \in Tasks |-> IF InTime(t) THEN Min({@[t] + 1, Width}) ELSE 0]]
Exchanged(s) == IF Count(s.ticks) = 0 THEN Wrapped(s) ELSE s
Expired(s) == IF Count(s.ticks) >= s.next THEN Expire(s) ELSE s
Ticked(s) == Expired(Exchanged(Counted(s)))

\* The pended ticks, one after the other.
AfterTicks(s, n) ==
    LET after[i \in 0 .. n] == IF i = 0 THEN s ELSE Ticked(after[i - 1]) IN after[n]

-----------------------------------------------------------------------------
(* The queue *)

\* A waiting task of the list s, if there is one, is woken; yields says
\* whether the caller yields when the task is of a higher priority.
Rouse(s, yields) ==
    IF s = <<>>
    THEN GoOn(ready, yieldPending) /\ UNCHANGED <<place, wake, pending>>
    ELSE /\ Unblock(Head(s))
         /\ IF yields /\ Higher(Head(s))
            THEN SwitchContext(WithUnblocked(Head(s)), suspended)
            ELSE GoOn(WithUnblocked(Head(s)), yieldPending \/ Higher(Head(s)))

Rest(s) == IF s = <<>> THEN s ELSE Tail(s)

\* The while loop of prvUnlockQueue over a lock count: one waiting task for
\* each message, all held pending, the scheduler being suspended.
Served(s, lock) == SubSeq(s, 1, Min({lock, Len(s)}))
Unserved(s, lock) == SubSeq(s, Min({lock, Len(s)}) + 1, Len(s))

Release(s, lock) ==
    /\ pending' = pending \o Served(s, lock)
    /\ yieldPending' = (yieldPending \/ \E t \in Range(Served(s, lock)) : Higher(t))
    /\ UNCHANGED <<cur, ready>>

\* The queue is not full.
Room == messages < Length

Locked(lock) == IF lock = Unlocked THEN Unmodified ELSE lock

-----------------------------------------------------------------------------
(* A task in its call *)

Running(t) == cur = t /\ isrOn # t

Goto(t, l) == pc' = [pc EXCEPT ![t] = l] /\ UNCHANGED <<op, left, entered, goal>>

\* The call returns: its local variables are gone.
Return(t) ==
    /\ pc' = [pc EXCEPT ![t] = "run"]
    /\ op' = [op EXCEPT ![t] = "none"]
    /\ left' = [left EXCEPT ![t] = 0]
    /\ entered' = [entered EXCEPT ![t] = 0]
    /\ goal' = [goal EXCEPT ![t] = "retry"]

\* What follows the resumed scheduler: the loop of the call, or its end.
Ends(t) == goal[t] = "expired" \/ op[t] = "delay"
Leave(t) == IF Ends(t) THEN Return(t) ELSE Goto(t, "try")

Call(t, o, w) ==
    /\ Running(t) /\ pc[t] = "run"
    /\ pc' = [pc EXCEPT ![t] = CASE o # "delay" -> "first"
                                 [] o = "delay" /\ w > 0 -> "suspend"
                                 [] o = "delay" /\ w = 0 -> "yield"]
    /\ op' = [op EXCEPT ![t] = o]
    /\ left' = [left EXCEPT ![t] = w]
    /\ UNCHANGED <<entered, goal, schedVars, timeVars, queueVars, suspended, pending, isrOn>>

\* The first critical section of xQueueGenericSend and xQueueGenericReceive,
\* when there is room, or a message.
Trying(t, o) == Running(t) /\ op[t] = o /\ pc[t] \in {"first", "try"}

Send(t) ==
    /\ Trying(t, "send") /\ Room
    /\ messages' = messages + 1
    /\ Rouse(waitReceive, TRUE)
    /\ waitReceive' = Rest(waitReceive)
    /\ Return(t)
    /\ owed' = [owed EXCEPT ![t] = 0] /\ since' = [since EXCEPT ![t] = 0]
    /\ UNCHANGED <<nextUnblock, ticks, pended, waitSend, txLock, rxLock, suspended, isrOn>>

Receive(t) ==
    /\ Trying(t, "receive") /\ messages > 0
    /\ messages' = messages - 1
    /\ Rouse(waitSend, TRUE)
    /\ waitSend' = Rest(waitSend)
    /\ Return(t)
    /\ owed' = [owed EXCEPT ![t] = 0] /\ since' = [since EXCEPT ![t] = 0]
    /\ UNCHANGED <<nextUnblock, ticks, pended, waitReceive, txLock, rxLock, suspended, isrOn>>

\* And when there is not: no block time, or the time of entry is set once (to be
\* left out where it is not looked at again, the task waiting for ever).
Refused(t) ==
    /\ \/ Trying(t, "send") /\ ~Room
       \/ Trying(t, "receive") /\ messages = 0
    /\ IF left[t] = 0
       THEN Return(t) /\ UNCHANGED <<owed, since>>
       ELSE /\ pc' = [pc EXCEPT ![t] = "suspend"]
            /\ IF pc[t] = "first" /\ left[t] # Forever
               THEN /\ entered' = [entered EXCEPT ![t] = ticks]
                    /\ owed' = [owed EXCEPT ![t] = left[t]]
                    /\ since' = [since EXCEPT ![t] = 0]
               ELSE UNCHANGED <<entered, owed, since>>
            /\ UNCHANGED <<op, left, goal>>
    /\ UNCHANGED <<schedVars, place, wake, nextUnblock, ticks, pended, queueVars,
                   suspended, pending, isrOn>>

\* vTaskSuspendAll
Suspend(t) ==
    /\ Running(t) /\ pc[t] = "suspend"
    /\ suspended' = 1
    /\ Goto(t, IF op[t] = "delay" THEN "block" ELSE "lock")
    /\ UNCHANGED <<schedVars, timeVars, queueVars, pending, isrOn>>

\* prvLockQueue
Lock(t) ==
    /\ Running(t) /\ pc[t] = "lock"
    /\ txLock' = Locked(txLock) /\ rxLock' = Locked(rxLock)
    /\ Goto(t, "check")
    /\ UNCHANGED <<schedVars, timeVars, messages, waitSend, waitReceive, suspended, pending, isrOn>>

\* xTaskCheckForTimeOut: the time that is left, or none.  A task that was kept
\* from running while the tick count came past the time of its entry twice may
\* be found in time, and then starts to wait anew.
Elapsed(t) == (Count(ticks) - Count(entered[t])) % Width

\* Mutant: any wrap of the tick count is taken for the end of the time.
WrappedAtAll(t) == ticks \div Width # entered[t] \div Width

WrappedPast(t) ==
    ticks \div Width # entered[t] \div Width /\ Count(ticks) >= Count(entered[t])

Check(t) ==
    /\ Running(t) /\ pc[t] = "check"
    /\ IF left[t] = Forever
       THEN Goto(t, "test") /\ UNCHANGED <<owed, since>>
       ELSE IF ~WrappedPast(t) /\ Elapsed(t) < left[t]
            THEN /\ left' = [left EXCEPT ![t] = @ - Elapsed(t)]
                 /\ entered' = [entered EXCEPT ![t] = ticks]
                 /\ pc' = [pc EXCEPT ![t] = "test"]
                 /\ UNCHANGED <<op, goal>>
                 /\ owed' = IF since[t] = Width THEN [owed EXCEPT ![t] = left'[t]] ELSE owed
                 /\ since' = [since EXCEPT ![t] = 0]
            ELSE /\ pc' = [pc EXCEPT ![t] = "unlockTx"]
                 /\ goal' = [goal EXCEPT ![t] = "expired"]
                 /\ UNCHANGED <<op, left, entered, owed, since>>
    /\ UNCHANGED <<schedVars, place, wake, nextUnblock, ticks, pended, queueVars,
                   suspended, pending, isrOn>>

\* prvIsQueueFull, prvIsQueueEmpty: the second look, the queue now locked.
Test(t) ==
    /\ Running(t) /\ pc[t] = "test"
    /\ LET blocks == messages = (IF op[t] = "send" THEN Length ELSE 0)
       IN  /\ pc' = [pc EXCEPT ![t] = IF blocks THEN "insert" ELSE "unlockTx"]
           /\ goal' = [goal EXCEPT ![t] = IF blocks THEN "sleep" ELSE "retry"]
    /\ UNCHANGED <<op, left, entered, schedVars, timeVars, queueVars, suspended, pending, isrOn>>

\* vTaskPlaceOnEventList: into the event list, ...
Insert(t) ==
    /\ Running(t) /\ pc[t] = "insert"
    /\ IF op[t] = "send"
       THEN waitSend' = InOrder(waitSend, t) /\ UNCHANGED waitReceive
       ELSE waitReceive' = InOrder(waitReceive, t) /\ UNCHANGED waitSend
    /\ Goto(t, "block")
    /\ UNCHANGED <<schedVars, timeVars, messages, txLock, rxLock, suspended, pending, isrOn>>

\* ... and out of the ready list, into a list that time empties or into none.
WakeTime(t) == Count(ticks + left[t])

\* Mutant: the next time to unblock is set without being compared.
SoonerUnchecked(w) == w

\* The next time to unblock, in prvAddCurrentTaskToDelayedList.
Sooner(w) == Min({nextUnblock, w})

Block(t) ==
    /\ Running(t) /\ pc[t] = "block"
    /\ ready' = [ready EXCEPT ![Priority[t]] = Without(@, t)]
    /\ IF left[t] = Forever /\ op[t] # "delay"
       THEN /\ place' = [place EXCEPT ![t] = "suspended"]
            /\ UNCHANGED <<wake, nextUnblock>>
       ELSE /\ wake' = [wake EXCEPT ![t] = WakeTime(t)]
            /\ IF WakeTime(t) < Count(ticks)
               THEN /\ place' = [place EXCEPT ![t] = "overflow"]
                    /\ UNCHANGED nextUnblock
               ELSE /\ place' = [place EXCEPT ![t] = "delayed"]
                    /\ nextUnblock' = Sooner(WakeTime(t))
    /\ owed' = IF op[t] = "delay" THEN [owed EXCEPT ![t] = left[t]] ELSE owed
    /\ pc' = [pc EXCEPT ![t] = IF op[t] = "delay" THEN "resume" ELSE "unlockTx"]
    /\ goal' = [goal EXCEPT ![t] = "sleep"]
    /\ UNCHANGED <<cur, yieldPending, ticks, pended, queueVars, op, left, entered,
                   since, suspended, pending, isrOn>>

\* Mutant: what was posted while the queue was locked is not looked at.
UnlockTxDeaf(t) ==
    /\ Running(t) /\ pc[t] = "unlockTx"
    /\ txLock' = Unlocked
    /\ Goto(t, "unlockRx")
    /\ UNCHANGED <<schedVars, timeVars, messages, waitSend, waitReceive, rxLock, suspended,
                   pending, isrOn>>

\* prvUnlockQueue, a critical section for each direction.
UnlockTx(t) ==
    /\ Running(t) /\ pc[t] = "unlockTx"
    /\ Release(waitReceive, txLock)
    /\ waitReceive' = Unserved(waitReceive, txLock)
    /\ txLock' = Unlocked
    /\ Goto(t, "unlockRx")
    /\ UNCHANGED <<timeVars, messages, waitSend, rxLock, suspended, isrOn>>

\* Mutant: the second lock count is left as it is.
UnlockRxStays(t) ==
    /\ Running(t) /\ pc[t] = "unlockRx"
    /\ Release(waitSend, rxLock)
    /\ waitSend' = Unserved(waitSend, rxLock)
    /\ UNCHANGED rxLock
    /\ Goto(t, "resume")
    /\ UNCHANGED <<timeVars, messages, waitReceive, txLock, suspended, isrOn>>

UnlockRx(t) ==
    /\ Running(t) /\ pc[t] = "unlockRx"
    /\ Release(waitSend, rxLock)
    /\ waitSend' = Unserved(waitSend, rxLock)
    /\ rxLock' = Unlocked
    /\ Goto(t, "resume")
    /\ UNCHANGED <<timeVars, messages, waitReceive, txLock, suspended, isrOn>>

\* xTaskResumeAll: the pending tasks become ready, the pended ticks are counted,
\* and if either calls for it the context is switched.
Resumed ==
    AfterTicks([Now EXCEPT !.ready = AllReadied(@, pending),
                           !.place = [t \in Tasks |-> IF t \in Range(pending) THEN "ready" ELSE @[t]],
                           !.wake = [t \in Tasks |-> IF t \in Range(pending) THEN 0 ELSE @[t]],
                           !.switch = yieldPending \/ \E t \in Range(pending) :
                                                          Priority[t] >= Priority[cur]],
               pended)

ResumeAll(t) ==
    /\ Running(t) /\ pc[t] = "resume"
    /\ suspended' = 0 /\ pending' = <<>> /\ pended' = 0
    /\ \E r \in {Resumed} :
        /\ ticks' = r.ticks /\ place' = r.place /\ wake' = r.wake
        /\ nextUnblock' = r.next
        /\ waitSend' = r.send /\ waitReceive' = r.receive
        /\ IF r.switch
           THEN SwitchContext(r.ready, 0)
           ELSE GoOn(r.ready, yieldPending)
        /\ IF r.switch \/ goal[t] # "sleep"
           THEN Leave(t)
           ELSE Goto(t, "yield")
        /\ owed' = r.owed
        /\ since' = IF goal[t] = "expired" THEN [r.since EXCEPT ![t] = 0] ELSE r.since
    /\ UNCHANGED <<messages, txLock, rxLock, isrOn>>

\* portYIELD_WITHIN_API, where the scheduler has not switched by itself.
Yield(t) ==
    /\ Running(t) /\ pc[t] = "yield"
    /\ SwitchContext(ready, suspended)
    /\ Leave(t)
    /\ UNCHANGED <<timeVars, queueVars, suspended, pending, isrOn>>

\* The idle task loops, and gives way to the other tasks of its priority.
IdleLoop ==
    /\ Running(Idle)
    /\ IF Len(ready[Priority[Idle]]) > 2
       THEN SwitchContext(ready, suspended)
       ELSE UNCHANGED schedVars
    /\ UNCHANGED <<timeVars, queueVars, callVars, suspended, pending, isrOn>>

-----------------------------------------------------------------------------
(* Interrupts *)

\* An interrupt handler that sends: xQueueGenericSendFromISR and a yield if a
\* task of a higher priority was woken; or, with the API for tasks, the
\* critical section of xQueueGenericSend, which does not ask for the lock.
IsrSend ==
    /\ isrOn = None /\ Room /\ txLock < MaxLock
    /\ messages' = messages + 1
    /\ IF TaskApi \/ txLock = Unlocked
       THEN /\ Rouse(waitReceive, TRUE)
            /\ waitReceive' = Rest(waitReceive)
            /\ UNCHANGED txLock
       ELSE /\ txLock' = txLock + 1
            /\ UNCHANGED <<schedVars, place, wake, pending, waitReceive>>
    /\ isrOn' = IF cur' # cur THEN cur ELSE None
    /\ UNCHANGED <<nextUnblock, ticks, pended, owed, since, waitSend, rxLock, callVars, suspended>>

\* An interrupt handler that receives with xQueueReceiveFromISR and, as
\* USART_DataRegEmpty, leaves the yield to the next tick.
IsrReceive ==
    /\ isrOn = None /\ messages > 0 /\ rxLock < MaxLock
    /\ messages' = messages - 1
    /\ IF rxLock = Unlocked
       THEN /\ Rouse(waitSend, FALSE)
            /\ waitSend' = Rest(waitSend)
            /\ UNCHANGED rxLock
       ELSE /\ rxLock' = rxLock + 1
            /\ UNCHANGED <<schedVars, place, wake, pending, waitSend>>
    /\ UNCHANGED <<nextUnblock, ticks, pended, owed, since, waitReceive, txLock, callVars,
                   suspended, isrOn>>

\* The task that was interrupted runs again, and the handler returns.
IsrReturn ==
    /\ isrOn = cur
    /\ isrOn' = None
    /\ UNCHANGED <<schedVars, timeVars, queueVars, callVars, suspended, pending>>

\* The tick: xTaskIncrementTick and, always, vTaskSwitchContext.
Tick ==
    /\ isrOn = None
    /\ IF suspended = 0
       THEN \E s \in {Ticked(Now)} :
                /\ ticks' = s.ticks /\ place' = s.place /\ wake' = s.wake /\ nextUnblock' = s.next
                /\ waitSend' = s.send /\ waitReceive' = s.receive /\ owed' = s.owed /\ since' = s.since
                /\ SwitchContext(s.ready, 0)
                /\ UNCHANGED pended
       ELSE /\ pended < MaxPended
            /\ pended' = pended + 1
            /\ SwitchContext(ready, suspended)
            /\ UNCHANGED <<ticks, place, wake, nextUnblock, waitSend, waitReceive, owed, since>>
    /\ UNCHANGED <<messages, txLock, rxLock, callVars, suspended, pending, isrOn>>

-----------------------------------------------------------------------------

\* The scheduler has started: the task of the highest priority runs.
Init ==
    /\ \E r \in {[p \in Priorities |->
                     <<End>> \o SetToSeq({t \in Tasks : Priority[t] = p})]} :
          \E c \in {Rotated(r[Top(r)])} :
              ready = [r EXCEPT ![Top(r)] = c] /\ cur = Head(c)
    /\ place = [t \in Tasks |-> "ready"]
    /\ wake = [t \in Tasks |-> 0]
    /\ nextUnblock = Forever
    /\ ticks = 0 /\ pended = 0 /\ suspended = 0 /\ yieldPending = FALSE
    /\ pending = <<>> /\ messages = 0 /\ waitSend = <<>> /\ waitReceive = <<>>
    /\ txLock = Unlocked /\ rxLock = Unlocked
    /\ pc = [t \in Tasks |-> "run"]
    /\ op = [t \in Tasks |-> "none"]
    /\ left = [t \in Tasks |-> 0] /\ entered = [t \in Tasks |-> 0]
    /\ goal = [t \in Tasks |-> "retry"]
    /\ isrOn = None
    /\ owed = [t \in Tasks |-> 0] /\ since = [t \in Tasks |-> 0]

Step(t) ==
    \/ Send(t) \/ Receive(t) \/ Refused(t) \/ Suspend(t) \/ Lock(t) \/ Check(t)
    \/ Test(t) \/ Insert(t) \/ Block(t) \/ UnlockTx(t) \/ UnlockRx(t)
    \/ ResumeAll(t) \/ Yield(t)

Calls == \E t \in Tasks : \E o \in Operations[t], w \in BlockTimes : Call(t, o, w)

Next ==
    \/ Calls
    \/ \E t \in Tasks : Step(t)
    \/ IdleLoop
    \/ IsrSend \/ IsrReceive \/ IsrReturn \/ Tick

Spec == Init /\ [][Next]_vars

\* The processor executes the task or the handler it runs, the tasks call again
\* and again in their endless loops, and the timer ticks; devices need not
\* interrupt.
Fairness ==
    /\ WF_vars((\E t \in Tasks : Step(t)) \/ Calls \/ IdleLoop \/ IsrReturn)
    /\ WF_vars(Tick)

FairSpec == Spec /\ Fairness

-----------------------------------------------------------------------------
(* Properties *)

\* A call that will look at the queue again before it sleeps or returns.
WillLook(o) ==
    {t \in Tasks : /\ op[t] = o /\ pc[t] # "run" /\ goal[t] # "expired"
                   /\ t \notin Range(waitSend) \union Range(waitReceive)}

\* No wake-up is lost: of an unlocked queue, tasks sleep on a message, or on
\* room, only while as many others are on their way to it.
NoLostWakeup ==
    /\ txLock = Unlocked /\ waitReceive # <<>>
          => messages <= Cardinality(WillLook("receive"))
    /\ rxLock = Unlocked /\ waitSend # <<>>
          => Length - messages <= Cardinality(WillLook("send"))

\* The task that runs has the highest priority of those ready, or a switch is
\* due: whatever became ready while the scheduler was suspended included.
HighestRuns ==
    suspended = 0 /\ ~yieldPending =>
        \A p \in Priorities : ready[p] # <<End>> => p <= Priority[cur]

\* A call gives up only after the ticks it was given, over every wrap of the
\* tick count, and never when it was to wait for ever.
TimedOutHonestly ==
    \A t \in Tasks : goal[t] = "expired" => owed[t] = 0 /\ left[t] # Forever

Timed(t) == place[t] \in {"delayed", "overflow"}

\* No task oversleeps: the delayed lists are split at the wrap of the tick
\* count (the first is empty when it comes), the next time to unblock is never
\* later than a wake time, and the wake time is when the time given is up.
WakesOnTime ==
    \A t \in Tasks : Timed(t) =>
        /\ place[t] = "delayed" => Count(ticks) < wake[t] /\ nextUnblock <= wake[t]
        /\ place[t] = "overflow" => wake[t] <= Count(ticks)
        /\ (wake[t] - Count(ticks)) % Width = owed[t]

\* Everything is well typed; and with the scheduler running nothing is held back:
\* no lock, no pended tick, no task pending, and a task that sleeps in an event
\* list is not ready.
NothingHeldBack ==
    suspended = 0 =>
        /\ txLock = Unlocked /\ rxLock = Unlocked /\ pended = 0 /\ pending = <<>>
        /\ \A t \in Range(waitSend) \union Range(waitReceive) : place[t] # "ready"

ListsOK == TypeOK /\ NothingHeldBack

Highest(t) == Priority[t] = Max(Priorities)

\* Every timed sleep of the task of the highest priority ends and it runs, as
\* queue.h promises of xTicksToWait.
TopWakes == \A t \in Tasks : Highest(t) => (Timed(t) ~> cur = t /\ ~Timed(t))

\* It does so if no interrupt handler stays for ever on the stack of a task
\* that does not run, masking the tick.
TopWakesIfInterruptsReturn == []<>(isrOn = None) => TopWakes
=============================================================================
