# The HM board firmware in TLA+

Models, model-checking runs and proofs for the firmware of the health-monitoring
(HM) board: an ATxmega128A4U running FreeRTOS 8.2, libcsp over I2C, and an
application that samples a signal, stores it in an external SPI memory,
transforms it and sends it to the on-board computer (OBC).

Each module translates code of the repository; `PROJECT.json` names, for every
definition, the lines it stands for.

## 1. The system

| Part | State it keeps | Operations | Code | Module |
|------|----------------|------------|------|--------|
| FreeRTOS kernel | ready, delayed and pending lists, tick count, event lists and locks of a queue | send, receive, delay, their versions for interrupts, tick, context switch | `tasks.c`, `queue.c`, `list.c`, `port.c` | `Kernel` |
| I2C slave driver, receiving interface | result, counters, buffer, stop interrupt | address match, data, stop, process data, `csp_i2c_rx` | `MyDrivers/twi_slave_driver.c`, `csp_interface.c`, `csp_if_i2c.c` | `TwiSlave` |
| The received frame | a local variable on the interrupted task's stack | hand over, yield, route, block | `csp_interface.c`, `csp_route.c`, `tasks.c` | `FrameLife` |
| CSP router, connections, ports | input FIFO, connection array, `conn_lock`, port table | `csp_new_packet`, `csp_task_router`, `csp_conn_new`, `csp_close`, `csp_udp_new_packet` | `csp_route.c`, `csp_conn.c`, `csp_port.c`, `csp_udp.c` | `CspRouter` |
| cspTask | socket, accepted connection | bind, listen, accept, read, dispatch, close | `cspTask.c`, `csp_io.c` | `CspRouter`, `Sampling` |
| CSP clients | port counter, connection array, buffer pool | `csp_connect`, `csp_transaction`, `csp_send`, `csp_read`, `csp_close`, `csp_buffer_get`, `csp_buffer_free` | `csp_conn.c`, `csp_io.c`, `csp_buffer.c` | `Client` |
| CSP reliable transport | `conn->rdp`: numbers, queues, timers | connect, send, read, close, new packet, check of the timeouts | `csp_rdp.c` | `Rdp` |
| mainTask | event queue, current command | processAll, sendSignal, sendFFT, houseKeeping, echoBack, freeHeap | `mainTask.c` | `Sampling` |
| Sampling interrupt | `sampling`, `count_TCD0`, `signal_offset` | one sample | `system.c` | `Sampling` |
| Signal memory, FFT | SPI memory, loop variables | decimate and store, butterflies, read back | `fft_memory.c`, `spi_memory_23lcxx.c` | `Sampling` (place and time), `Spectrum` (the transform) |
| I2C master driver | status, result, counters, buffers | `TWI_MasterWriteRead`, interrupt | `MyDrivers/twi_master_driver.c` | `TwiMaster` |
| CSP services | none of their own; `CMP_ROUTE_SET` changes the routing table, `CMP_PEEK` and `CMP_POKE` any memory | answer in the packet received, or free it | `csp_service_handler.c`, `csp_services.c` | not modelled |
| Uptime | three counters | TCC1 interrupt | `system.c` | not modelled |
| Temperature sensor | none | one read per freeHeap command | `MyDrivers/ADT7420.c` | not modelled |

A command's way through the board: a master on the bus writes a frame to the
slave driver; its interrupt hands the frame to `csp_new_packet`, which queues it
for the router (priority 1). The router looks up or opens a connection, queues
the packet there and posts the connection to cspTask's socket. cspTask
(priority 0) accepts, reads the connection dry, queues an event per packet for
mainTask (priority 0) and closes. mainTask executes the command and answers
through `csp_sendto` and the I2C master driver, whose completion is an interrupt
again. During a measurement the sampling interrupt writes the samples through
the SPI port that mainTask also uses. All of them wait, wake and are switched by
the kernel, which the interrupts call into as well.

libcsp also holds the client side of a connection (`csp_connect`,
`csp_transaction`) and a reliable transport (RDP). The firmware calls neither:
its answers go out without a connection and RDP is compiled out
(`CSP_USE_RDP`). They are part of the repository, they are where libcsp is hard
to get right, and they share the connection array, the pool and the interface
with what the board does use; so they have modules of their own.

What is hard about it: three tasks and four interrupts share structures mostly
without locks; waits time out and their results are ignored; every queue is
bounded and drops; interrupt handlers keep state between transactions that any
bus error may cut short; the priorities are part of the correctness argument
(`config.h:46` says of the router's "Do not ever change!!!"); handlers stop the
clock of the RTOS while they work; an interrupt calls a function meant for tasks
and yields in the middle of itself.

What makes each part correct:

- kernel: no wake-up is lost, no sleeper oversleeps or gives up early, the
  highest priority runs;
- slave driver: a packet is the content of one write and of nothing else, and a
  write that fits arrives;
- the frame: it is there while the router routes it;
- receive path: no packet under another peer's connection, none twice or out of
  order within a connection, no connection slot lost, no packet stranded;
- clients: no connection shared, no buffer lost or in two hands, a reply belongs
  to its request, a transaction ends;
- reliable transport: what is sent is read in order and once, and forgotten by
  the sender only when the receiver has it;
- master driver: a message is sent whole or reported lost, and the driver always
  becomes READY again;
- measurement: interrupt and task never use the SPI port together, what is
  reported is the latest measurement, whole, and its spectrum is its discrete
  Fourier transform.

## 2. Modules

### Kernel

FreeRTOS as the board configures it, with one queue: its users, an interrupt that
sends, one that receives, the tick, and the scheduler. A step is what runs with
interrupts disabled, so that an interrupt may come at every place where one may
in the code: between the look at the queue and the event list (`queue.c:764`),
while the scheduler is suspended and the queue locked, between the resumption of
the scheduler and the yield. `ready` keeps each ready list from its index on,
with the end marker, because the order in which equal priorities get the
processor depends on it. The two delayed lists are one function `place` with the
item value `wake`; the tick count wraps at `Width`, and the exchange of the lists
with it. `owed` and `since` are history: how long a sleeper still has to sleep,
counted tick by tick and independently of `wake`.

The interrupts that use the kernel are all of the XMEGA's low level, so none
interrupts another, and one that yields (as `usart_driver_RTOS.c:77` does, and as
the I2C slave interrupt does through `xQueueSendToBack`) remains the executing
interrupt on the stack of the task it interrupted: `isrOn`. Time slicing is
configured off, but the port's tick switches the context at every tick
(`port.c:368`), so that tasks of equal priority do take turns. Mutexes, priority
inheritance, task notifications, queue sets and deletion of tasks are left out:
the board never takes a mutex.

### TwiSlave

One action per run of `TWI_SlaveInterruptHandler`; the flags of STATUS are one
variable, in the order the handler tests them. Everything the bus and the TWI
module do is environment: START with the board's address (first or repeated),
bytes, STOP, bus errors. The module stretches the clock after an address match
and after a byte, so those are handled before the next event; nothing stretches
it after a STOP, so with `MayBeLate` the next START may overtake the handler.
STOP interrupts whenever PIEN is set, whoever the master was talking to. An
error is over once handled: whether the module clears BUSERR itself is outside
the repository. With no byte received the callback gets an uninitialised frame,
modelled as a choice between a dropped frame and `Junk`.

### FrameLife

TwiSlave composed with the scheduler, to follow the frame's memory. The frame is
a local variable of the interrupt; only its address is queued. If the enqueue
wakes the router, the handler yields to it in the middle of itself, and the frame
lives until the interrupted task runs again. If the router was not waiting for a
packet, or the scheduler was suspended, the handler returns and the frame is dead
before anybody has read it. `RoutedWhole` states the part that holds, and where it
ends: `direct` is dropped when the router blocks for `conn_lock`.

### CspRouter (with the abstract FrameService)

One variable per piece of shared state: `fifo` is `router_input_fifo[0]`,
`state`, `type`, `idin`, `toPost`, `rxq` the fields of the connection array,
`connLock` the semaphore, `backlog` the socket's queue; `pc`, `conn` and
`packet` say where router and cspTask are. A step is what a task does between
two accesses to state the other can see. With `RouterPriority = 1` cspTask steps
only while the router is blocked, as FreeRTOS schedules it; with 0 every
preemption point is open, and the properties that hold even then do not depend
on the priorities. A wait on `conn_lock` may time out in either task. `Kinds`
selects the traffic: `rejected` fails the security check, `rdp` carries the flag
of the transport that is compiled out, `returning` is for a node whose route is
the interface it came in by, and is freed (split horizon), and `foreign` is for any
other node: it takes the default route to the loopback, which queues it in the FIFO
again, behind what has come meanwhile, or drops it; when it comes round it is freed.

A frame is taken to keep its content until it is freed; how long it really lives
is the subject of FrameLife.

FrameService is what the path promises cspTask: frames may be lost, never
invented, repeated or reordered within a connection key. The refinement maps
`pending` to what FIFO, router and open connections hold.

### Client

Tasks of equal priority that call `csp_transaction`: the search for a port under
`sport_lock`, the search for a connection under `conn_lock`, the new id, the
flush of the queue, the buffer, the send, the wait, the close, each with its
time-out and its way out. The network answers a request late, never or several
times. `InterfaceFrees` says whether the interface frees a packet it has sent, as
`interfaces.md:34` demands and `i2c_send` does not. A request is identified by
how far the port counter had come (`no`), so that a port used again can be told
from its previous use.

### Rdp

A client and a server, each with a router task and a user task, over a set of
packets `net` from which anything may arrive at any time, repeatedly or never. A
step of the router is a whole call of `csp_rdp_new_packet` or
`csp_rdp_check_timeouts`; time is left out, a timer that is set may run out. The
client may be reset. `got` is what the server's user has read. tx_queue is the set
`tx` of different packets and the number `copies`: every packet outside the window
makes a half-open end clone its SYN/ACK into the queue once more, until it is full.

### TwiMaster (with the abstract OneShotLink)

`TWI_MasterWriteRead` in steps (check, claim, fill, set-up, start), every branch
of the interrupt, callers with different lengths to write and read. `Preemptive`
opens the preemption points between the steps. OneShotLink accepts a message only
when idle and then sends it whole, once, or loses it.

### Sampling

The TCD0 interrupt, the handlers of mainTask and the SPI areas they use. `ticking`
is the clock of the RTOS (stopped by the handlers), `taken` the samples of the
latest measurement, `reported` the packets of the current report that went out,
each with the place it names and the value it holds. houseKeeping tests the memory
byte by byte, from odd addresses on: `HkBytes` gives the bytes it writes, `Tested`
what becomes of a word, of which it may replace one half only. `InTime` says
that a measurement ends within the 4 s delay of `processAll`; `Hoisted` says that
the compiler read `sampling`, which is not volatile, once before the loop. Here
the transform is one step, and `fftIs` a marker of what it was computed from.

### Spectrum

Sampling with that one step replaced by `FFT_calculate`: storing in bit-reversed
order, then a butterfly per step, in place, with the three loops and the pointers
moved by differences exactly as in the code. The numbers are those modulo 17 with
a root of unity of order 8 in place of the complex numbers with the table
`sincos`: the program only adds, subtracts and multiplies, so it computes the
transform in one ring if it does in the other, and rounding is left out. The
tables themselves (512 points) agree with `Power` and `BitRev`: `sincos` holds
cos and sin of +2*pi*k/512, so that the code computes the transform with the sign
of the exponent reversed, which for a real signal is the conjugate, of the same
amplitude. Storing the points and leaving the transform are steps of Sampling, a
butterfly is none, so that what holds of the one holds of the other (section 5).

### Proof modules

`QueueLemmas` (what the operations on sequences do to length, content and order,
the least number of a set, induction, and the functions defined by recursion),
`KernelProofs`, `CspRouterProofs`, `TwiSlaveProofs` (of TwiSlave and FrameLife),
`SamplingProofs` (of Sampling and Spectrum), `ClientProofs`, `TwiMasterProofs`,
`RdpProofs`. The `MC*` modules give constants for TLC. Definitions called
mutants are plausible bugs (a missing reset, a swapped sense, an off-by-one); no
specification uses them. Each is put in the place of the definition that follows
it to see the property fail.

## 3. Runs

| Run | Question | Bounds |
|-----|----------|--------|
| `kernel` | Is a wake-up lost, does a sleeper oversleep or give up early, does the highest priority run and wake? | 2 tasks and the idle task, queue of 1, tick count modulo 4, overflow count modulo 2, one pended tick and one interrupt while locked |
| `kernel_isr` | Does the kernel stand the way the I2C interrupt uses it? No: a finding | a task that delays, a queue of 1 |
| `twi_slave` | Can transactions mix, does every whole write arrive, does the frame live while it is routed? | buffer 3, header 2, up to 4 bytes a write (one more than the buffer), 3 transactions, FIFO of 2 |
| `router` | With the real priorities and traffic, are slots lost or packets stranded, and do slots come back? Does the path refine FrameService with its fairness? | 3 slots, FIFO and queues of 2, backlog 1, 3 keys (one ephemeral), 4 frames: plain, rejected or foreign |
| `router_equal` | Which properties do not depend on the priorities? | the same sizes; frames plain, with the RDP flag or returning; early traffic |
| `client` | Are connections, ports and buffers used by one client at a time, do replies match and transactions end? | 2 tasks, 2 connections, 4 ports, 2 buffers, 5 transactions, replies to any of the latest 2 requests |
| `client_i2c` | Does the pool survive the board's interface? No: a finding | the same |
| `rdp` | Is what is read what was sent, in order and once, through loss, reordering, reset and expiry? | numbers modulo 16 that wrap, window 2, receive queue 5, tx_queue 5 (one more than an open connection may use), up to 4 packets, closes and resets within a common budget |
| `rdp_overflow` | The same with more packets than the queue holds? No: a finding | 6 packets, no closes |
| `twi_master` | Are messages whole, once, and reads fresh? Does the driver refine OneShotLink, and become READY again? | 2 callers, 3 calls each |
| `twi_master_race` | Does it stand two callers? No: a finding | preemption inside the driver |
| `sampling` | SPI exclusion, mean, transform, raw report, commands that end, for any duration of a measurement | 4 samples of 2 values, 8 points, event queue of 2, 4 commands, loop compiled with the flag read once |

The bounds make every limit reachable: more keys than backlog places, more frames
than a FIFO or a queue holds, a write longer than the buffer, more commands than
the event queue takes, a tick count and sequence numbers that wrap, more requests
than ports, a pool and a connection array that run out; and slots, counters and
buffers are reused several times. In `kernel` delays of 2 and 3 ticks span
the wrap at 4 from most starts, and 3 is `portMAX_DELAY`, for ever, in the calls on
the queue. In `client` five transactions on four ports let the counter
come round. `rdp` has room in the receive queue for all it sends: what happens
without is `rdp_overflow`. In `sampling` the transform takes three iterations of
four butterflies, enough for both inner loops to run more than once.
For the safety properties the bounds are not the last word, since the theorems of
section 5 hold for every size.

## 4. Fairness

- `Kernel`: the processor executes the task or the handler it is in, tasks call
  again in their endless loops, and the timer ticks whenever its interrupt is
  free to run. Devices need not interrupt. `TopWakes` is promised of the task of
  the highest priority only, and under `[]<>(isrOn = None)`: without the condition
  it is what `kernel_isr` refutes.
- `CspRouter`: weak fairness of router and cspTask. The router is the
  highest-priority task of these; cspTask shares priority 0 with mainTask and runs
  whenever mainTask blocks, which it does after every command (`xQueueReceive`
  with a time-out) and in `processAll` (`vTaskDelay`), or when its time slice ends.
- `Client`: weak fairness of each client's steps; equal priorities get the
  processor in turn, and every wait has a time-out. Nothing is assumed of the
  network, nor of the locks being free.
- `Sampling`, `Spectrum`: weak fairness of the timer interrupt and of mainTask.
  Nothing is assumed of how long a measurement takes: `CommandsEnd` excepts the
  wait loop that was compiled with the flag read once before it.
- `TwiMaster`: the TWI module ends what it does with an interrupt, and a call that
  has begun goes on. No slave stretches the clock for ever.
- `TwiSlave`, `FrameLife` and `Rdp` have no liveness property: what the first do is
  one interrupt after the other, and for Rdp see section 7.

## 5. What is proved

For every value of the constants, under the ASSUMEs of the modules:

- `CspRouterProofs`: `TypeCorrect`, `LockExcludes`, `NeverMisdelivered`,
  `KeysAreUnique`, `NeverPostedTwice` and `Implements` (the safety part of the
  refinement) hold for both priorities. The inductive invariant joins the type
  invariant with who holds `conn_lock` (`LockInv`), that nothing is opened before
  cspTask has bound its socket (`BootInv`), how a connection changes hands
  (`PostInv`: router, socket queue, cspTask, closed), the order of the frames
  along the path (`OrderInv`) and the ids (`KeyInv`). `PostedOnce` and
  `NoMisdelivery` alone are not inductive: a packet in the router's hands may be
  about to enter a queue, which `PostInv` and `KeyInv` speak of.
  `ClosedStaysEmpty` adds `RouterPriority = 1`: while the router works on a
  connection, cspTask cannot close it. `NothingLeaks` further excludes RDP frames
  and frames before `csp_listen`, the two ways to lose a slot (section 6).
- `TwiSlaveProofs`: `TypeCorrect`, and `PacketsBeginWrites`: for every behaviour of
  the bus, a packet with content is the beginning of one write, at most one per
  write, in order. The invariant says what the driver has counted is what the
  master has put (`CountInv`), that the counted bytes are those of the latest
  transaction except between an address match and its handler (`DataInv`), and
  that once a packet of the latest transaction is out, neither the transaction
  nor a stop interrupt can come again (`OnceInv`). `WholeWritesArrive` is the other
  direction, nothing that fits is lost; it needs that a byte counted leaves the
  stop interrupt enabled (`EnabledInv`), that a write that has ended is the latest
  transaction or an earlier one (`EndedInv`), and that its STOP is either still to
  be handled with the count intact or has been handed on (`HandedOnInv`).
  Of FrameLife: `DriverUnchanged`, every behaviour of the composition is one of
  TwiSlave, so that its theorems hold under the scheduler
  (`ReceivedUnderScheduler`); `LifeTypeCorrect`; and `RoutedFramesLive`. The last
  rests on `RestInv` (a router that waits for a packet has none, and the FIFO is
  empty) and `DirectInv` (after the yield the frame on the stack is next in the
  FIFO, then in the router's hands, and nothing else has run).
- `SamplingProofs`: `TypeCorrect`, `SpiIsExclusive` (for any duration of a
  measurement and either compilation of the loop), and `SignalReported`: the packets
  of a report that go out, whichever fail, name ascending places and hold the sample
  the latest measurement took there, in which a test of the memory since has replaced
  the bytes it writes and no others. The invariant ties `sampling` to the phase
  of `processAll` and the counter to the samples taken, and says of every word of
  the memory what it may be (`StoredInv`).
  Of Spectrum, `MeasurementUnchanged`: the transform butterfly by butterfly is a
  step or a stutter of Sampling, for every number of points and every modulus, so
  that these theorems hold of it too (`TransformKeepsOff`).
  `TransformIsRight` and `SpectrumReported` are about the numbers: FFT_calculate is
  right, and what sendFFT reads is the transform of the latest measurement. The
  argument has four parts. (1) A measurement: the running sum is that of the samples
  so far, the mean left behind is theirs, and what is stored for the transform is
  they (`MeasuredInv`). (2) The tables: a power of Omega depends on its exponent
  modulo Points only (`PowerAround`), its power Points / 2 is -1; the bit-reversed
  numbers of two neighbouring blocks are half the distance of the points apart
  (`Starts`, `StartsDouble`). (3) The step of Cooley and Tukey: a sum over 2n numbers
  is one over those at even places and one over those at odd places (`SumEvenOdd`),
  so that a butterfly makes two points of the transform of 2n numbers from a point
  of each half (`ButterflyIsRight`). (4) The loops: `Progress` says which pairs of
  blocks the butterflies so far have joined; the butterfly at the pointers joins the
  next and spoils no other, since no two touch the same point (`ButterfliesApart`),
  and `LoopFits` says that pointers moved only by differences are where the three
  loop variables put them. `BlocksAreTransforms` speaks of the start of an iteration
  only and is not inductive without `Progress`. That the points are a power of two
  is assumed in the form that every divisor but 1 is even; Modulus is any number of
  2 or more of which Omega is a root of unity of that order: 2 modulo
  2^(Points/2) + 1 will do for every such number of points, so the assumption is
  never empty.
- `ClientProofs`: `TypeCorrect`, `NeverShared`, `NothingLost` and
  `RepliesAreRight`, for any number of clients, connections, ports and buffers,
  wherever the port counter starts and whatever the network does. That no
  connection is shared needs to know that one in use is open, or is about to be
  opened by the holder of `conn_lock` (`ConnInv`, `LockInv`). That no buffer is
  lost rests on `PlaceInv`: the reference count is 1 exactly for the buffers that a
  client has, that are queued, or that are being sent (`CountInv`); a queue holds
  none twice and shares none (`QueueInv`); and the three kinds of place are apart
  (`ApartInv`). `OnePlace` alone is not inductive: it does not say that a count is
  never above 1. `NothingLost` assumes `InterfaceFrees`; without it the property is
  false (section 6). `RepliesAreRight` needs the history of the port counter: no
  request, reply or connection is from after its present value (`AgeInv`),
  requests of the same port are whole rounds of the counter apart (`ApartAll`), and
  what is queued on, or read from, a connection answers a request made with its
  port (`TradeInv`).
  `PortsAreDistinct` and `SearchFinds` assume `FewClients`, room for every
  connection and two ports for each client besides: ten connections and 32
  ephemeral ports, as the firmware has them, allow eleven clients. A port that is
  searched for is then found within one round, and it stays free until used unless
  the counter comes round: every client on its way to `csp_conn_new` holds its
  number as a token (`TokenInv`), every open connection bears one (`BearerInv`).
  The instance of the run `client` has fewer ports than that, so that the search
  fails there too; TLC also checked one of six ports, within the assumption.
- `TwiMasterProofs`: `TypeCorrect` (even when the callers race: `RaceInv` says no
  more than that the counters stay within the buffers and that an interrupt finds
  something to do), and under `Preemptive = FALSE`, that a caller is not preempted
  inside the driver, `EveryFrameIsWhole`, `OkReadIsFresh`, `TrueMeansStarted` and
  `DriverIsOneShotLink`, the safety part of the refinement. `WholeInv` joins to
  `RaceInv` that one caller at a time is inside and that the driver is busy on its
  behalf (`InsideInv`), that what is on the bus is the beginning of the message in
  the buffers (`BusInv`), and that the bytes read are those of this transaction
  (`NewInv`). `SentWhole` alone says nothing of a message that is half sent.
  `TrueMeansStarted` is what the run `twi_master_race` refutes without the
  assumption.
- `KernelProofs`: `SpecInv`, the inductive invariant, and from it `ListsAreOK`,
  `TheHighestRuns`, `TimeOutsAreHonest` and `TheyWakeOnTime`, for any number of
  tasks and priorities, any length of the queue, any width of the tick count and
  either kind of interrupt. `Inv` says: each ready list holds exactly the tasks of
  its priority that are ready, and the end marker, each once (`ReadyLists`); who is
  in an event list waits there, for that, and is not ready unless it is just about
  to block (`WaitsInv`); the scheduler is suspended and the queue locked only by
  the call of the task that runs (`HoldInv`, `CurInv`, `PcInv`); no ready task is
  above the one that runs unless a switch is due (`HighInv`); and of every sleep,
  what is left is its wake time less the count, in either delayed list
  (`DelayInv`), and of every call the time noted at entry plus the ticks since is
  the count (`CallInv`). None of the four properties is inductive by itself: that a
  sleep ends in time, for one, needs that the lists are exchanged when the count
  wraps, that nothing is ready twice, and that a call does not block before the
  ticks it was held up by are counted. The ticks that were pended are applied by
  induction on their number, the due tasks by what `Kept` and `AllReadied` keep.
  `NoWakeupIsLost` assumes `TaskApi = FALSE`, interrupts that use the functions
  meant for them. Its invariant `LookInv` counts: while a list is not empty, as many
  calls as there are messages (or places) are out of the lists and on their way to
  the queue, or are counted in its lock; and a task that goes into the list while
  the queue is locked has seen it with no more than the lock has counted since.
  With `TaskApi = TRUE` an interrupt may post to a locked queue without counting
  it, and the property is false.

- `RdpProofs`: `QueuesAreOK`, for any window and delay count, any length of the
  receive queue, any initial numbers and any network, with a reset of the client at
  any time. The sequence numbers must be four windows and four more (2^16 against
  `CSP_RDP_MAX_WINDOW` 20). The proof first says what a number modulo `SeqMod` is
  ahead of another (`GapFacts`, `GapShift`, `InRange`); `Inv` then says of each end
  that the different packets of tx_queue have numbers of their own, each within `Span`
  of snd_nxt (`TxOK`), and that what is held lies 2 to two windows ahead of rcv_cur
  (`HeldOK`). `Copies` says where copies of the SYN/ACK may be: on a half-open end, as
  many as the queue takes, and on a closing one; the acknowledgement that opens the
  connection removes them all. The bound of tx_queue while a connection is open, a
  window and two packets, is the delicate part: `csp_rdp_send` goes by
  snd_una, which a reset out of sequence may have moved anywhere, the timeouts by
  the length of tx_queue. `FlightOK` is what the router leaves behind and a user who
  sends relies on: with no more than a window and one in flight, tx_queue reaches no
  further back than they do, and a user that was woken while snd_una is ahead of
  snd_nxt finds it empty. It holds because the router always drops what is
  acknowledged before the user runs.

  `DeliveryIsOrderly`, `OpenEndsMatch` and `NothingIsForgotten` state
  `OrderlyDelivery`, `OpenToEachOther` and `NothingForgotten` under two conditions
  on the states passed through, since without them they are false:

  - `Roomy`: when the next packet in sequence comes there is room in
    conn->rx_queue for it and all that is held. The code does not see to this
    (`rdp_overflow`); the reader has to.
  - `Unconfused`: a connection uses up fewer than half the numbers, and while the
    server still has an old connection of the client, the numbers of the two do
    not meet. The model has no clock, a packet may arrive as late as it likes:
    after half a round an old number passes for a new one. In the code it is the
    life of a packet that rules this out, and `rand` that makes numbers of
    different connections differ.

  Both hold in every reachable state of the run `rdp`, which TLC has confirmed
  together with the invariant, so that there the theorems say no less than the
  properties. The invariant `Agreed` relates what the two ends know of each other:
  the client's queue and its packets under way carry the numbers of its data, and
  acknowledge only what it has heard from the server (`ClientPart`, `NetPart`);
  what the server has taken is 1, 2, ... and rcv_cur is as far ahead of the initial
  number as it has taken, what is held has the number of its data (`ServerPart`);
  as soon as there is a SYN/ACK of the server, a server that is open has heard from
  this connection of the client, and ends that are open have each other's initial
  number (`OpenPart`); and while no reset is about, an acknowledgement under way
  names nothing the server has not taken, an EACK nothing it does not have, and the
  client has what is neither (`MemoryPart`). The crux is `WindowMatch`: a packet the
  server finds in its window is one of its own connection, and its number tells
  which data it brings. `AtServer` and `AtClient` then go through the steps of
  either end, `ServerFlushes` through the run of held packets that is passed on.

`LockExcludes`, `KeysAreUnique` and `SearchFinds` are proved and not run: no bound
could add to them. The inductive invariants were checked by TLC on the instances
of the runs before they were proved.

Induction, where a proof needs it (pended ticks, what `Kept` leaves of a list), is
derived in QueueLemmas from the least number of a nonempty set (`SetInduction`),
which itself comes of the finiteness of the numbers below a given one; the
functions it is about, the sums and tables of Spectrum among them, are defined by
recursion (`RecursionExists`).

Only model-checked: all liveness, which is beyond the prover.

## 6. What disagrees with the documentation

Shown by a run:

- Two tasks that call the I2C master driver at once may both be told that the
  transaction was started (`twi_master_race`).
- The I2C slave interrupt uses the kernel as a task would, against
  `csp_interface.h:36`; if the router it wakes makes it yield on the stack of a
  task that has just put itself to sleep, the tick never comes again
  (`kernel_isr`).
- A packet of the pool sent over I2C is never freed (`client_i2c`).
- RDP acknowledges, and the sender forgets, a packet that was held out of order
  and then dropped for want of room (`rdp_overflow`).

Met while modelling, and without a run of their own:

- A frame with the RDP flag opens a connection no task is woken for, and its slot
  is lost (`csp_route.c:378`): with `"rdp"` in `Kinds`, `NoConnLeak` of the run
  `router` fails at once. A frame routed between `csp_bind` and `csp_listen` has
  the same fate, with `EarlyTraffic = TRUE`. `NothingLeaks` excludes just these.
- A master that reads from the board makes the callback pass on an uninitialised
  frame (`csp_interface.c:39`): the frame `Junk` of TwiSlave, which
  `BeginsOneWrite` excepts.
- houseKeeping leaves its test values in the stored signal (`mainTask.c:224`): the
  bytes `HkBytes`, which `ReportsRawOrTested` excepts. As they begin at odd addresses,
  some words are half a sample and half a test value.
- A client of RDP that was reset and connects again may open on the SYN/ACK the
  server sends once more for the connection the client had before: in RDP_SYN_SENT
  nobody looks at the number it acknowledges (`csp_rdp.c:679`). The client is then
  open towards a server that is half open for the old connection; `OpenToEachOther`
  says only that two ends which are both open agree on their numbers.
- A reset out of sequence leaves an RDP connection open, but stores its number in
  snd_una (`csp_rdp.c:597`): what is not acknowledged yet may leave tx_queue.
  `NothingForgotten` excludes it.
- A received frame is gone when the router gets to it late or waits for
  `conn_lock`, and for every later reader once the interrupted task has run:
  `RoutedWhole` of FrameLife ends at exactly these places.

## 7. What is not modelled, and the plan

Not modelled for good:

- code that is not built and has no counterpart on the board: CAN, KISS, crypto,
  QoS, fragmentation, the UART driver; generated and vendor code; register set-up
  done once;
- memory layout (array sizes of local texts, the uninitialised event pointer), the
  content of texts, and checksums, whose result is a choice;
- the CSP services, which answer in the packet they got; the routing table, which a
  `CMP_ROUTE_SET` request may change, and peek and poke, which reach any memory; the
  uptime counters, which only the text of houseKeeping depends on; the temperature
  read, one more caller of the master driver;
- the creation of the event queue against its first use by mainTask: cspTask is
  created first and gets the processor first, the models begin with the queue in
  place.

Hazards of this code that are outside the models for these reasons: the
uninitialised `newEvent` of cspTask (`cspTask.c:32`), a reply longer than its array
(`mainTask.c:42`), the event queue used before it exists (`cspTask.c:30`), seconds
of 1001 interrupts (`system.c:102`), the temperature taken from `readData` whatever
became of the transaction (`ADT7420.c:36`), a packet that `csp_i2c_tx` leaves
changed when it fails (`csp_if_i2c.c:44`), and a bus error that the slave interrupt
leaves in STATUS (`twi_slave_driver.c:128`), which may take it again for ever if the
module does not clear it itself.

Simplified:

- `Rdp`: no buffer or interface fails, tx_queue is longer than a window and a packet
  (so that csp_rdp_send always finds room; the copies of the SYN/ACK do fill it), a
  call of csp_send, csp_read or csp_close by the user is one step although the router
  may preempt it (`csp_rdp.c:947` to `989`), the server's backlog has room, `delayed_acks`
  is 1, and no initial number is chosen so close to the last one that windows
  overlap. Nothing sends a SYN to an end that has sent one, so the invalid reply of
  the state SYN_SENT is left out. That every packet is eventually acknowledged is not
  stated: it would need a fair network, and timers with time. A connection the
  router has closed under its user in CLOSE_WAIT, and that another client then gets
  under the same handle, is seen only as far as one client can reopen it.
- `Client`: the arrival of a reply is one step, as the router has the higher
  priority; the clients talk to one service of one node; a buffer found corrupt
  (`csp_buffer.c:137`) is left out. There are two ports more than connections: with
  fewer the search of csp_connect may never end (`csp_conn.c:363`).
- `Kernel`: one queue, and one place in each kind of interrupt. Tasks that wake at the
  same tick are readied in an arbitrary fixed order, not in that of their going to
  sleep; a task goes into an event list in one step, although
  vTaskPlaceOnEventList runs with interrupts enabled: the queue is locked, and an
  interrupt leaves its event lists alone.

Worth doing next:

1. the age of a packet in `net` of `Rdp`, from which `Unconfused` could be derived
   instead of assumed;
2. two queues in `Kernel`, so that CspRouter's waits can be composed with it.
