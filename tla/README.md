# Verification of the make-with-ada firmware

The repository holds bare-metal programs for microcontroller boards, most of them in
Ada for NXP Kinetis: a set of reusable building blocks (networking, CAN, serial
console, logs; in C the RTOS wrapper, the memory functions and a boot loader), device
drivers, and demo applications built from them.  This directory holds TLA+
models of that code, the TLC configurations that check them on small instances,
and TLAPS proofs of the main results for every size.

Files abbreviated below: `networking/` is `src/building_blocks/portable/networking/`,
`MAC` is `src/drivers/mcu_specific/nxp_kinetis_k64f/networking/networking-layer2-ethernet_mac_driver.adb`;
`rtos_wrapper.c`, `mem_utils.c`, `interrupt_vector_table.c` and `stage2_bootloader.c` are below
`src/building_blocks/`.

## 1. Inventory

| component | state it keeps | operations | meets others through |
|---|---|---|---|
| Network packet queue (`networking/networking.adb`) | linked list, length, `Not_Empty_Condvar`, timer flags | `Enqueue_Network_Packet`, `Dequeue_Network_Packet`, queue timer task | every layer: Rx queue, ICMP queue, UDP end point queues, Tx free list |
| Ethernet reception (layer 2, MAC driver) | Rx descriptor ring, cursors, packet flags | receive interrupt, `Drain_Rx_Ring`, `Recycle_Rx_Packet`, `Repost_Rx_Packet` | DMA engine, Rx queue, receiver task |
| Ethernet transmission (layer 2, MAC driver) | Tx descriptor ring, Tx free list, packet flags | `Allocate_Tx_Packet`, `Release_Tx_Packet`, `Start_Tx_Packet_Transmit`, transmit interrupt | DMA engine, every task that sends |
| ARP cache (`networking-layer3_ipv4.adb`) | entries with state and time stamps, a condition | `Lookup`, `Lookup_or_Allocate`, `Update`, `Resolve_Destination_IPv4_Address` | Tx pool, receiver task |
| IPv4 and ICMP (same file) | addresses, outstanding ping, ICMP queue | send, receive, ping | ARP cache, queues |
| UDP end points (`networking-layer4_udp.adb`) | end point list, next ephemeral port | bind, unbind, send, receive, process incoming | IPv4, packet queues |
| Ring buffers (`generic_ring_buffers.adb`) | bytes, cursors, two semaphores | `Read`, `Write`, `Write_Non_Blocking` | UART interrupt, console task |
| RTOS wrapper over FreeRTOS (`rtos_wrapper.c`) | `g_rtos`: state, nested handlers, next task number, switch required; per task its number, tag and semaphore; the kernel's own state | create tasks, delay, change priority, semaphores with and without timeout, mutexes, timers, `rtos_enter_isr`, `rtos_exit_isr` | the Ada package `RTOS.API`, every task, every interrupt handler |
| Interrupt vector table of the K64F (`interrupt_vector_table.c`) | none | one handler per interrupt | drivers, RTOS wrapper |
| Memory functions (`mem_utils.c`) | the memory | `memcpy`, `memmove`, `memset`, `memcmp` | every program, compiled code included |
| Boot loader of the Raspberry Pi Pico (`stage2_bootloader.c`) | SSI controller, the flash chip's status register and mode | set the quad-enable bit, enter continuous read mode, jump to the application | SSI controller, flash chip, application |
| CAN driver and CAN-to-UDP gateway (`can_driver.adb`, `can_to_udp_gateway.adb`) | mailboxes, interrupt masks, buffer pool | allocate, release, post, send, wait, interrupt handler; two gateway tasks | UDP, Tx pool |
| Serial console | current and saved attributes, lock, output buffer | lock, print, save and restore | ring buffer, UART |
| Runtime logs, reset counter | circular buffers in memory that survives a reset | capture, dump | every component |
| Application configuration, NOR flash | checksummed record | load, save, reset | command parsers |
| Memory protection | private data region of the running task | set and restore, nested | every component |
| Demo applications | watch display, car state machine, IoT stack demo | task loops | building blocks |

What is hard in this code: tasks of one core interrupted at any statement outside
the regions that disable interrupts; binary suspension objects whose signals
coalesce; DMA engines that run beside the CPU and stop by themselves; interrupt
events cleared by hand; state read outside the protected object that guards it;
timeouts carried by helper tasks; pools and rings at their limits; assertions that
are compiled in (`src/gnat_pragmas.adc`), so a failed one stops the board; interrupt
handlers that nest between any two steps of `rtos_exit_isr`, which decides whether
the outermost of them switches tasks; wake-ups that race with timeouts; priorities
that mutexes raise and give back; a timer that is commanded through a queue; a reset
while the flash chip writes its non-volatile status register;
addresses and sizes that wrap around at the end of the address space.
`PROJECT.json` lists each of these places with its line under `hazards`.

What makes each component correct:

* queue: the list is the sequence of what was enqueued and not dequeued, packets
  leave in order, an untimed call returns a packet, a timed call returns;
* reception: ring, flags and DMA engine agree; no packet is lost to the ring; no
  frame, interrupt or signal is forgotten;
* transmission: the same, and each transmitted packet comes back to the pool;
* ARP: a resolved address belongs to the host that was asked for, a reply wakes the
  resolver, a request is sent again after its timeout;
* UDP: ports of bound end points differ, a datagram goes to the end point bound to
  its port, the list and its length agree;
* ring buffer: a bounded FIFO whose readers and writers are never all asleep;
* RTOS wrapper: a task that a handler wakes runs as soon as its priority allows, a
  task always knows its own number, no wake-up is lost, the holder of a mutex falls
  below its waiters only when it lowers its own priority, a stopped timer is silent,
  an interrupt with a handler of its own in the vector table reaches it (the entry of
  I2C2 names the handler of I2C0);
* memory functions: the promised bytes change and no others, for every alignment,
  overlap and size; words are accessed at aligned addresses; every call returns;
* boot loader: the application is entered only when its instructions can be fetched,
  a status that is read belongs to the command it was asked for, and however often
  the power fails the application is reached;
* CAN: each buffer has one owner, a mailbox is used by one task, a received message
  is delivered once.

## 2. Modules

| module | models | extends |
|---|---|---|
| `PacketFifo` | what a packet queue promises: a FIFO whose packets pass to one consumer each | |
| `PacketQueue` | one `Network_Packet_Queue_Type` with its tasks; refines `PacketFifo` | |
| `PacketQueueProofs` | its theorems | `PacketQueue`, TLAPS |
| `EthernetRx` | Rx ring, receive DMA, receive handler, Rx queue, receiver task, tasks above | |
| `EthernetRxProofs` | its theorems | `EthernetRx`, TLAPS |
| `EthernetTx` | Tx ring, transmit DMA, transmit handler, Tx pool, sending tasks | |
| `EthernetTxProofs` | its theorems | `EthernetTx`, TLAPS |
| `RingBuffer` | one `Ring_Buffer_Type` with its two semaphores, readers and writers; refines `BoundedFifo` | |
| `BoundedFifo` | what a ring buffer promises | |
| `RingBufferProofs` | its theorems | `RingBuffer`, TLAPS |
| `ArpCache` | the ARP cache, one sending task, the receiver's ARP packets, the subnet | |
| `ArpCacheProofs` | its theorems | `ArpCache`, TLAPS |
| `InterruptVectors` | the vector table: the handler in each entry | |
| `RtosWrapper` | the RTOS wrapper with the part of FreeRTOS it uses, tasks, nested handlers, one timer | `InterruptVectors` |
| `RtosWrapperProofs` | its theorems about the scheduler and the kernel's objects | `RtosWrapper`, TLAPS |
| `RtosSafetyProofs` | its types, its assertions and its timer | `RtosWrapperProofs` |
| `MemUtils` | the memory functions | |
| `Bootloader` | boot loader, SSI controller, flash chip | |
| `PicoProgram` | the boot loader enters an application that calls the memory functions; resets end either | `Bootloader`, `MemUtils` |
| `PicoProgramProofs` | its theorems | `PicoProgram`, TLAPS |
| `MC...` | small instances for TLC | the module of that name |

### PacketQueue

One variable per field of the Ada record (`Head_Ptr`, `Tail_Ptr`, `Length`,
`Timer_Started`, ...), `Next_Ptr` and `Queued` (is `Queue_Ptr` this queue?) for the
packets' own fields, and the point each task has reached.  `contents` is a history
variable: the order of arrival, which the linked list must represent.  A region
between `Disable_Cpu_Interrupts` and `Restore_Cpu_Interrupts` is one action
(`Enqueue`, `TakePacket`, `TakeNothing`); `Set_True` and `Suspend_Until_True`, which
the code calls outside such a region, are actions of their own (`Signal`, `Suspend`,
`StartTimer`).  The timer task is `TimerExpires`.  A second task that suspends on the
same suspension object raises `Program_Error` (Ada RM D.10), whose last chance
handler stops the board: `Running` is part of every guard.

### EthernetRx and EthernetTx

The CPU is one core: a task moves only while no handler runs; the DMA engine moves
at any time.  Descriptors keep the packet address (an index, 0 for the null
address), the bit that gives them to the DMA engine (`empty`, `ready`), and for
reception the error and interrupt bits; the WRAP bit of the last descriptor is the
function `After`.  Each handler is split where it touches EIR: reading it, clearing
it, draining one descriptor after the other.  The write of RDAR or TDAR is an action
of its own, because the code makes it with interrupts enabled.  The DMA engine stops
by itself (`DmaStop`) at a descriptor it does not own.  The packet queues inside are
the abstract FIFO plus the binary signal, which `PacketQueue` shows to be what the
linked list does.

Both start in the state the initialization leaves: all Rx packets posted and RDAR
written; all Tx packets in the pool, whose signal is *one*, however many packets were
enqueued.

### RingBuffer

`Buffer_Data`, the cursors and the two semaphore counts are variables.
`Num_Elements_Filled` of the Ada record is never written by the code and is not
modelled.  `Not_Empty_Semaphore` is created with count 0, which makes
`rtos_semaphore_init` create a *binary* semaphore; `Not_Full_Semaphore` counts up to
the capacity.  Taking a semaphore, the region with interrupts disabled, and giving a
semaphore are the steps of each reader and writer.

The binary semaphore loses signals: after two writes and one read a second reader
waits beside an element until the next write.  Its contract does not exclude that;
what must hold, and does, is that readers and writers never wait for each other.

### ArpCache

`ip`, `mac` and `state` are the fields of the entries; `old` says whether the time
stamp that belongs to an entry's state is past its limit.  A call of the protected
object is one action (`Lookup`, `Update` inside `ReceiveRequest` and `ReceiveReply`,
`Wait_Until_Cache_Updated`); a task queued on the entry is served at the end of the
protected action that opens it.  What `Resolve_Destination_IPv4_Address` does outside
the object is cut at its accesses to the entries (`CheckEntry`, `Hit`, `Expired`,
`CheckRequest`, `Claim`, `Mark`), since the receiver has the higher priority and may run
between any two of them.  `CheckEntry` reads the state at line 1055 and `CheckRequest` reads
it again in the assertion of line 1081: if the receiver has filled the entry in between,
the assertion fails and stops the board, or the sender goes on, if the compiler has kept
the first value.  A MAC address is named by its host; `asked` is the network between an ARP
request and its reply; `disturbed` is a history variable, set when a host announces itself
unasked or a message is lost.  Nothing writes `Last_Lookup_Time_Stamp`, so the entry a full
cache gives up is always the first one.

Both tasks take a packet from the Tx pool for what they send, and may wait for it:
`Allocate_Tx_Packet` comes between `Mark` and `Send_ARP_Request`, and a receiver that
answers a request (`answering`) keeps what the request says of its sender only after
`Send_ARP_Reply`.

### RtosWrapper

The fields of `g_rtos` are variables, and so is what the kernel keeps: who is ready,
priorities with and without inheritance, what a task waits for and how many ticks are
left, counts, holders, the timer and its command queue.  A call of the kernel runs in a
critical section and is one action.  What the wrapper does *between* such calls, or
between two accesses of `g_rtos`, is cut there: `rtos_task_init` is `TakeTaskNumber`,
`StoreNextNumber`, `xTaskCreateStatic`, `vTaskSetApplicationTaskTag`,
`InitTaskSemaphore`, and two tasks that create may take the same number (line 194 is not
protected); a handler is `Dispatch`, `rtos_enter_isr`, `HandlerBody`, then the decrement
of the counter, its test, the test of the flag, the yield and the clearing of the flag
in `rtos_exit_isr`.  A handler of a greater level can come between any two of these.  The
context switch is the exception PendSV, of the lowest priority: `SwitchContext` waits
until no handler is active.  `Dispatch` takes its handler from
`g_interrupt_vector_table`.  A handler signals the semaphore its driver signals
(`SignalledBy`).

A task that the kernel wakes tries again to take what it waits for (`Retry`), as
`xQueueSemaphoreTake` does: between the wake-up and the retry another task may have
taken it.  `Tick` wakes the tasks whose wait has one tick left and advances the timer;
a task that was woken in time and finds nothing waits again or times out.  The timer
task (`TimerExpires`, `TimerCommand`, ...) runs when the kernel's scheduler picks it,
like any other; a start carries its age, since the kernel takes its time stamp from
the moment of the call.  `timer_late` counts the ticks since the expiry, up to `Period`:
a timer task that comes late shortens the next period, and one that comes a whole period
late sends itself a start and asserts that there was room.  How much older than a period
a start is (`older`) is left open.

Objects are initialised by `main` before it starts the scheduler, as every program of
the repository does, with interrupts masked until then.  A delay asserts that it is not
one of 0 milliseconds (`Delays`).  Any task may change its own priority at any time, the
holder of a mutex too.

### MemUtils, Bootloader, PicoProgram

`MemUtils` runs one call at a time.  An action is one iteration of a loop or one
`switch` whose cases fall through; the address space has `N` bytes, and pointers and
sizes wrap around at `N`, as they do at 2^32.  `saved` is the memory at the call, which
the result is compared with.  A call of `memset` passes a byte (`Byte`), as every call in
the repository does, and a word of it is four of that byte.

`Bootloader` has the processor, the SSI controller (`TransferEnds`) and the flash
chip (`WriteEnds`) side by side.  `PushCommand`, `wait_ssi_ready`, `PopOne` and what is
done with the last byte are the steps of each command.  `Reset` may come at any moment,
also while the chip writes its status register: the controller starts anew, the
register's bits are what was written or what was there, and the boot ROM takes the chip
out of continuous read mode.  That all bytes of a command are in the
transmit FIFO before the first is sent is assumed, and so is that the controller is busy
from the first byte on.

`PicoProgram` lets the application run where the boot loader has jumped, and ends a
call at a reset.

## 3. Runs

State counts are distinct states.

| run | instance | shows | states |
|---|---|---|---|
| `PacketQueueUntimed` | 3 packets, 2 producers, 2 consumers, no timeout | the list is the queue, FIFO, every call returns a packet | 2 752 |
| `PacketQueueTimed` | 3 packets, 2 producers, 1 consumer, timed and untimed calls | the timer is armed while a timed call waits, timed calls return | 11 149 |
| `PacketQueueStranded` | 2 packets | violation: the consumer waits beside a packet | |
| `EthernetRx` | 3 descriptors, 2 tasks, good and bad frames | ring, flags, no lost wake-up, frames leave the ring | 118 128 |
| `EthernetRxBadFrame` | 3 descriptors | violation: a bad frame fails an assertion | |
| `EthernetTx` | 3 packets, 3 tasks | ring, flags, one packet at a time, packets come back | 156 588 |
| `RingBuffer` | 3 slots, 2 readers, 2 writers | bounded FIFO, nobody reads an empty slot, never all asleep, each waiting writer gets a slot unless others overtake it for ever | 222 888 |
| `ArpCache` | 2 entries, 2 hosts, 4 source addresses, 2 retries | filled entries are true, no update is missed; on a calm subnet each wait has a request and no assertion fails; addresses are resolved | 473 541 |
| `ArpCacheWrongMac` | 2 entries, 2 hosts | violation: a frame goes to another host | |
| `Rtos` | 2 tasks of priorities 3 and 2, the first creates the second and may change its own to 1 and back; 1 semaphore, 1 mutex, 2 nesting interrupts, a periodic timer | no lost switch or wake-up, tasks know themselves, a mutex holder stays above its waiters unless it lowers its own priority, a stopped timer is silent, no assertion fails | 3 244 577 |
| `RtosLate` | the same, but the task of priority 2 creates the other | violation: the new task runs before its tag is set | |
| `Pico` | 64 bytes of memory, 1 reset, 414 calls of all alignments and overlaps | flash readable at the entry, no stale reply, the functions' promises, aligned words, the application is reached, calls return | 43 686 |

Bounds.  Three packets are the least with a head, a middle and a tail; two producers
and two consumers are the least that interleave on one list, and more add no new
pair.  Three descriptors give a ring with a wrap, a partly drained state and a
descriptor between the cursors; two tasks above layer 2 are enough for two reposts
to overlap with the handler and with each other.  Three sending tasks are the least
that reach the `Program_Error` of two suspended tasks while a third sends.  Two cache
entries for three addresses that can enter it (two hosts and our own, taken by
another) reach the full cache, the eviction of an entry in use and the entry that two
addresses compete for; two retries are the least that tell counting from a flag.  The
models have no counters that need a cap: lengths are bounded by the packets, retries
by the code.

`Rtos`: two tasks suffice for preemption, inheritance, a creation under the scheduler
and a wake-up that another task overtakes; two interrupts of different levels, one that
signals the semaphore and one that signals a task, are the least that nest; a period and
timeouts of one tick (`MaxTicks`) make every expiry race with every wake-up.  One task
changes its own priority, so that it falls below the other and rises again, also while
it holds the mutex (`NewPriorities`).  The
interrupt of a device is raised at most once before it is served.
`Pico`: in 64 bytes a block of up to six words (one unrolled round of four, and rest)
has every alignment at both ends and every overlap; sizes of nearly nothing make the
words wrap around.  One reset (`MaxResets`) may come in each state of the boot loader
and of the chip's write; a second would start from a state the first has left.  What a
run cannot vary, the number of resets, tasks, interrupts and bytes, the proofs do.

`CHECK_DEADLOCK FALSE` is set, not in `Rtos` and `Pico`, because the boards may stop: after a failed assertion
or a `Program_Error`, in the Tx pool when every task waits, and in `ArpCache` when the
sender is idle and no more is sent.

Fairness.  `PacketQueue`: tasks that can run are scheduled, delays end; nothing makes
a packet arrive.  `EthernetRx`: only the receive handler is fair, which the interrupt
hardware gives.  `EthernetTx`: the DMA engine transmits what is ready, handlers run,
runnable tasks are scheduled, and a task that holds a packet and is not blocked sends
or drops it, which `Send_IPv4_Packet` and its siblings do on every path.  In
`EthernetTx`, `Drain` keeps the code's test for a packet not yet transmitted, although
a pool that hands out one packet at a time never shows it two packets in the ring.
`RingBuffer`: a task past its semaphore and not blocked goes on, and readers come
back, as the console task's loop does.  That a given writer is not overtaken for ever,
which a handler's `Write_Non_Blocking` may do, is no fairness of the specification but a
premise of `WriterGetsSlot`.  `ArpCache`: the sender is scheduled, a host
that a request has reached replies, time passes.  The receiver takes packets in the order
of their arrival, so a reply is not overtaken for ever by requests that the receiver
answers (strong fairness of `ReceiveReply`).  Neither allocation of a Tx packet is
fair, since nothing makes the pool have one: `Resolved` has as premises that both tasks
get the packets they ask for, which the pool of finding 1 does *not* grant a task that
resolves an address while it holds a packet.  Its other premise is that nothing is lost
and nobody disturbs the subnet, or that hosts announce themselves again and again: the
wait has no timeout, and without either a lost message (`Lose`, never fair) leaves the
sender waiting.  `PicoProgram`: the
processor goes on (`LoaderStep`, `FunctionRuns`), the SSI controller ends its transfers
and the chip its write; calls and resets are not fair.  `RtosWrapper` states no
fairness: a FreeRTOS scheduler of fixed priorities promises a task of a lower priority
nothing.

## 4. Proofs

All proofs hold for every value of the constants under the named assumptions of the
modules, which TLC evaluates in each run.  Every safety property that a passing run
checks is stated by a theorem.

*Packet queue* (`PacketQueueProofs`).  `TypeCorrect`; `ListCorrect` from the
inductive invariant `TypeOK /\ ListIsContents` (the links are only right if no packet
is twice in the queue and packets outside have no successor, so the three are proved
together); `FifoImplemented`, the refinement of `PacketFifo`, which needs that a
consumer's packet is not in the queue and that no two consumers hold the same one;
`UntimedDequeuePost`, from the invariant that every signal on its way (a signalling
producer excepted, a woken consumer, a true suspension object) has a packet of its
own in the queue; `TimedWaitIsArmed` for queues with one consumer.

*Ethernet reception* (`EthernetRxProofs`).  `RxInv` is inductive.  Its first part says
where a descriptor is by its distance from the read cursor (`Place`): `filled`
descriptors with a frame, then those the DMA engine may fill, then those taken out.
The properties of the runs say less: `RingIsWindow` allows the handler to be anywhere,
and the invariant adds that a handler that drains has a descriptor to drain, and that
beside an idle handler and a frame the event RXF is set.  The second part is where the
packets are: each in one place, the number of places used is the number of packets
(`PacketsCounted`), and the flags name the place (`PlacesFlagged`, `FlagsPlaced`).  The
ring is full when a task reposts only if a packet is nowhere else, so the window needs
the places and the places need the window.  The third part is who must still act:
every signal has a packet in the queue and a queue of all packets has a signal
(`Signals`); a DMA engine that rests beside an empty descriptor has a task that will
write RDAR (`DmaActive`).  From them `TypeCorrect`, `RingCorrect`, `FlagsCorrect`,
`SignalsCorrect`, `ReceptionIsActive`; `FramesAreAnnounced` is the safety half of
`FrameLeavesRing`; `GoodFramesNeverHalt` says that bad frames are the only way to the
failed assertion of `EthernetRxBadFrame`.

*Ethernet transmission* (`EthernetTxProofs`).  The inductive invariant is
`TxInv`: types, and one of three shapes of the pool: all packets free, one held by
one task, or one in the ring; together with the position of the single token of the
free list.  It is stronger than the properties it yields: since one packet at a time
is out, the ring holds at most one entry, so the window, the one-token count and the
activity of the DMA engine follow.  `FlagsCorrect` adds that no packet is twice in the
free list, in a task's hands or in the ring, and that the flags name its place.

*Ring buffer* (`RingBufferProofs`).  The free slots are the count of
`Not_Full_Semaphore` plus the readers between their fetch and their signal; each
signal of `Not_Empty_Semaphore`, taken or not, has an element of its own; the counting
lemmas say how one task's step changes such a sum.  From these come `NoSlotLost`,
`ReadFindsElement`, `SomeoneAwake` and the refinement of `BoundedFifo`.

*ARP cache* (`ArpCacheProofs`).  The invariant `CacheInv` adds to types and
`FilledIsTrue` what the sender's pointers are at each point: the found entry where it
is used, the free entry where nothing was found.  No use of a null pointer is
reachable.  The exception in `FilledIsTrue` is needed: between the sender's write of
the address and of the state, an entry the receiver took first is filled and false.
`WaitInv` says what the sender still knows of the cache (`SenderKnows`): as long as no
update has opened the entry it waits at, the result of its lookup is as it was, and what
it marks is the first entry of its destination; `UpdatesAreNoticed` follows.  On a calm
subnet (`Calm`) a request is on its way, or its reply has opened the entry, whenever the
sender waits, and at every other point nothing is half-filled: `CalmSubnetIsCalm`, which
says also that there the assertion of line 1081 cannot fail.

*RTOS wrapper* (`RtosWrapperProofs`).  `KernelInv` is inductive.  Its parts: the counter
of nested handlers is the number of those between their increment and their decrement
(`HandlersInv`), and one about to clear the flag has made a switch pending; `SwitchInv`,
the heart of the argument: under the scheduler a switch is pending, or the running task
is one of the highest, or the flag is set and some handler has yet to test it;
`MutexInv`: a mutex is held or has a unit, a raised priority has a waiter behind it, and
a woken waiter is one of the highest.  `SwitchesCorrect` follows from it.
`InheritanceCorrect` is about steps (`NoPriorityInversion`): no invariant puts a holder
above its waiters, since a holder that lowers its own priority falls below them, and the
kernel does not raise it again.  Each other step is shown to leave the order as it is
(`QuietInversion`), to give the mutex to a task that is one of the highest
(`TakeInversion`), or to raise the holder (`InversionStep`).  `WokenInv` adds that each
unit of a count that a blocked task waits for has a woken task (`WakeUpsCorrect`);
`CreationInv` adds that the creator of a task that has no tag stays ready above it
(`SelfIdCorrect`).  Hypotheses: `OneMutex` in all four, and `~CreatesAbove` in
`SelfIdCorrect`, which is false in `RtosLate`.  `OneMutex` is needed: FreeRTOS does not
pass an inherited priority on to the holder of a second mutex, and a task that gives
back one of two mutexes may keep the processor although a task woken before has a higher
priority than its own.

*Its types, assertions and timer* (`RtosSafetyProofs`), on top of `KernelInv`.
`AssertionsCorrect`: handlers nest in order of their levels, so there are never more of
them than interrupts and the counter cannot overflow (`LevelsInv`); until its body has
run, the device of a handler still asks for service (`ServedInv`); the next number never
exceeds the number of tasks that have one, although two creators may have the same
(`NumbersInv`); what a task waits for, `main` has initialised
(`CountsInv`).  `TimerCorrect`: while a command is in the queue the timer task is ready,
so no task can add a second one, and the stop is executed before `rtos_timer_stop` goes
on (`TimerInv`); no command is queued when the timer task looks at the timer, so the start
that it sends itself finds room.  `TypeCorrect` joins these: the queue of the timer never overflows.
The hypotheses are facts about the application: each interrupt in use has a handler of
its own in the table (`OwnHandlers`), what handlers and the timer signal is initialised
before the scheduler starts (`SignalsAreEarly`), there are numbers enough
(`NumbersSuffice`), no task has the timer task's priority (`BelowTimer`), no task asks
for a delay of 0 (`NoEmptyDelay`).  `BelowTimer`
is not idle: `HIGHEST_APP_TASK_PRIORITY` *is* the timer task's priority on ARM, and a
task that uses it may see a callback after `rtos_timer_stop` has returned.  Nor is
`NoEmptyDelay` (section 5).  `Rtos.cfg`
satisfies them all.

*Boot loader and memory functions* (`PicoProgramProofs`).  `BootInv` joins where the
loader is with what the FIFO holds and what the chip expects: `EntryCorrect`,
`AnswersCorrect`, for any number of resets.  `MemInv` says by how much the cursors may
be off a word at each loop; that an address stays aligned where it wraps around
(`WrapKeepsAlignment`) needs that `N` is a multiple of 4: `AlignmentCorrect`.
`TypeCorrect` adds the ranges of the rest: the receive FIFO never holds more than one
command's answer.  `PromisesKept` says that the functions do what they promise.  Its
invariant is `AtPoint`: at each point of a function, the memory is `saved` but for a
range of the destination that has what was promised (`IsDone`), and the cursors stand
at its end.  Each iteration extends the range; an overlap is safe because the bytes
still to read are on the other side of it (`MovesUp`, `MovesDown`).  This needs no
induction over data, since the loop's progress is in the state, and an iteration copies
at most four units, whose effects are composed one by one.  Hypothesis: `RegularCalls`,
which says that blocks end sixteen bytes before the end of the address space and that
the blocks of `memcpy` do not overlap.  `Pico.cfg` satisfies it, and it is needed
(section 5).

Model-checked only: the liveness properties, `TimedDequeueReturns`, `FrameLeavesRing`,
`TransmittedComesBack`, `WriterGetsSlot`, `Resolved`, `Boots` and `CallsReturn`, which
are out of the prover's reach; and the four violations, which are counterexamples.
`TypeOK` of `PacketQueue`, `EthernetTx`, `RingBuffer` and `ArpCache` is no part of a run:
the proofs establish it.  `TypeOK` of the others is both checked and proved.

## 5. Findings

1. `PacketQueueStranded`: `Dequeue_Network_Packet` can wait although the queue holds
   a packet, against its contract (`networking.ads:286`).  The Tx pool is such a queue,
   with one signal for all its packets: it hands out one packet at a time
   (`OnePacketAtATime`), and a task that sends an ARP request while it holds a packet
   waits for ever.
2. `EthernetRxBadFrame`: a frame with an error fails the assertion at
   `networking-layer2.adb:118`; the code that would recycle it is never reached.
3. `ArpCacheWrongMac`: the entry of a full cache is overwritten between the lookup and
   the read of its MAC address; the frame goes to the wrong host.
4. `RtosLate`: a task created by one that does not have a higher priority runs before
   `rtos_task_init` has set its tag (`rtos_wrapper.c:203`, `:215`), and
   `rtos_task_self_id` (`:238`) reads its number through a null pointer.  The watch gets
   there: `watch.adb:1450`, `accelerometer.adb:720` and `:915`, `runtime_logs.adb:88`.
   `tsk_initialized` is set before the task's semaphore exists, so the precondition
   `RTOS_Task_Initialized` (`rtos-api.ads:109`) does not protect an early signal either.

What the models and the reading of the code show without a run of its own:

* the wait for an ARP reply has no timeout (`networking-layer3_ipv4.adb:116` leaves it
  to do): a lost message on a quiet subnet stops the sender, a case that the premises
  of `Resolved` exclude;
* after an unasked announcement, an entry the receiver had filled can be left
  half-filled by a sender that sends no request for it, and the sender then waits for
  nothing; `CalmSubnet` excludes that case by `disturbed`;
* when an announcement has woken the sender, the reply it waits for may fill the entry
  between the sender's look at its state (`networking-layer3_ipv4.adb:1055`) and the
  assertion that it is half-filled (`:1081`), which then stops the board.  `CalmSubnet`
  says that it cannot happen on a calm subnet, and `Resolved` counts it as an end;
* the next task number is read, stored and counted up without protection
  (`rtos_wrapper.c:194`): two tasks that create at the same time may give the same number;
* the holder of a mutex that lowers its own priority falls below a task that waits for it
  (`rtos_wrapper.c:277`; FreeRTOS compares only with the holder's own priority), the one
  exception in `NoPriorityInversion`.  No program of the repository calls the function;
* `memcpy` and `memset` of a few bytes at an unaligned address subtract the bytes before
  the first word from a smaller size, which wraps around (`mem_utils.c:78`, `:245`), and
  overwrite nearly all of memory.  `FunctionsKeepPromise` exempts these calls
  (`SizeWraps`) and no others, and the run makes them;
* `memmove` downwards compares its cursor with the destination plus three words
  (`mem_utils.c:135`), an address that wraps around when the destination is in the last
  12 bytes of the address space: with 64 bytes of memory, a move of 8 bytes to address
  52 or 56 breaks `FunctionsKeepPromise`.  No memory of the boards lies there; the
  calls of the run do not either, and `PromisesKept` excludes them by `RegularCalls`;
* `memset32` takes a `uint_fast8_t`, which is 32 bits wide on ARM (`mem_utils.c:206`): a
  value outside 0..255 sets other words than bytes.  The calls of the model pass bytes;
* the `continue` in `wait_ssi_ready` (`stage2_bootloader.c:63`) goes to the loop's
  condition, so the wait for the empty transmit FIFO has no effect;
* the loader compares the whole status register with `SREG_DATA` (line 124): a chip with
  its lock bit set is written at every boot;
* RISC-V configures the timer task at priority 2: a task above it sees a timer's callback
  after it has stopped the timer (the mutant of `StoppedTimerIsSilent`);
* `color_led.adb:275` may delay by a period of 0, which the wrapper's assertion
  (`rtos_wrapper.c:292`) rejects; `NoAssertionFails` and `AssertionsCorrect` are about
  programs that do not;
* the table's entry for I2C2 names the handler of I2C0 (`interrupt_vector_table.c:227`), a
  bus nobody uses: with it among the interrupts `NoAssertionFails` would not hold, and
  `OwnHandlers` excludes it; the Ethernet interrupts have no handler in this table.

## 6. Not modelled

Register programming, startup, clocks, LCD and sensor drivers, text parsing and
formatting, the camera analysis, and third-party code.  The IPv6 layer is a stub and
HiRTOS has no bodies.  `PROJECT.json` gives the reason per component.

Inside the modelled components: of the ARP layer a second task that sends at the same
time (the source's own TODO at `networking-layer3_ipv4.adb:1133`), the broadcast,
multicast and gateway choices, and the pool its packets come from, which `EthernetTx`
has; of the MAC driver its initialization and the
multicast filter; of the RTOS wrapper `rtos_task_get_current_stack`,
`rtos_task_check_stack`, the tick counters and the memory of the idle and timer tasks,
none of which another function's behaviour depends on, and more than one timer; of the
vector table the core's own exceptions, which belong to the kernel and to startup.

Hazards of code that is not modelled, read but not yet checked: `Remove` of the UDP end
point list does not count `Length` down, and the ephemeral port wraps around into the
well-known ports (`networking-layer4_udp.adb:102`, `:149`); the CAN gateway's receiver
takes the pool's one Tx packet before it waits for a message
(`can_to_udp_gateway.adb:402`), the driver's masks are read, changed and written back
with interrupts enabled, and a mailbox cannot be used for reception twice
(`can_driver.adb:222`, `:259`); a late ping reply answers the next request
(`networking-layer3_ipv4.adb:1535`); the console keeps one set of saved attributes for
all tasks; the runtime logs trust their cursors after a reset.

## 7. Plan

In this order: a second sender in `ArpCache`; `CanGateway` (mailboxes, pool, interrupt
handler, gateway tasks, over `EthernetTx`'s pool); `UdpEndPoints` (end point list and its
length, ephemeral ports, delivery, over `PacketFifo`); `Ping`; `SerialConsole`;
`RuntimeLog`; `AppConfig` (a reset in the middle of a save); `MemoryProtection` (nested
regions); the car's state machine, the watch.

Proofs: the theorems of each new module with it, among them that `CanGateway` and the
ICMP queue keep the contract of `PacketFifo`; for the RTOS wrapper, which of its
properties survive a second mutex when locks nest in one order; for the memory
functions, how far `RegularCalls` can be weakened function by function (`memset` and
`memcmp` need less room at the end of the address space than `memmove`).
