-------------------------- MODULE RtosSafetyProofs --------------------------
(***************************************************************************)
(* More proofs about RtosWrapper, on top of the invariants of              *)
(* RtosWrapperProofs: its types, its assertions and its timer.             *)
(***************************************************************************)
EXTENDS RtosWrapperProofs

\* There is a number for each task, below INVALID_TASK_ID.
NumbersSuffice == INVALID_TASK_ID \in Nat /\ Cardinality(Tasks) < INVALID_TASK_ID

\* Each interrupt in use has a handler of its own in the table.
OwnHandlers == Interrupts \subseteq DriverInterrupts

\* What a handler or the timer signals is initialised before the scheduler starts.
SignalsAreEarly ==
  /\ \A irq \in Interrupts : SignalledBy[irq] \in Early \cup Semaphores
  /\ TimerSignals \in Early \cup Semaphores

\* The timer task has a higher priority than any task may have.
BelowTimer ==
  \A t \in Tasks : \A p \in {Priority[t]} \cup NewPriorities[t] : p < configTIMER_TASK_PRIORITY

\* No task asks for a delay of 0 milliseconds.
NoEmptyDelay == 0 \notin Delays

\* A handler that nests in another has a higher level.
LevelsInv ==
  /\ \A i \in DOMAIN isr : \E irq \in Interrupts : InterruptLevel[irq] = isr[i].level
  /\ \A i, j \in DOMAIN isr : i < j => isr[j].level < isr[i].level

\* Until its body has run, the device of each active handler asks for service.
ServedInv ==
  \A i \in DOMAIN isr :
    /\ isr[i].handler \in Interrupts /\ isr[i].level = InterruptLevel[isr[i].handler]
    /\ isr[i].at \in {"entry", "body"} => isr[i].handler \in requested

\* The tasks that have a number: those that exist and those about to be created.
\* Two creators may give the same one, so that the next number is not above them.
Numbered   == {t \in Tasks : \/ tsk_state[t] # "none"
                             \/ \E c \in Contexts : pc[c] \in {"number", "create"} /\ creating[c] = t}
NumbersInv ==
  /\ next_task_id \in Nat /\ next_task_id <= Cardinality(Numbered)
  /\ DOMAIN tsk_id = Tasks
  /\ \A c \in Contexts :
       /\ pc[c] = "number" =>
            tsk_id[creating[c]] \in Nat /\ tsk_id[creating[c]] < Cardinality(Numbered)
       /\ pc[c] = "tag" => tsk_state[creating[c]] # "none"

\* Main has initialised what the tasks use; a task waits for nothing else.
CountsInv ==
  /\ state = "SCHED_STARTED" =>
       \A o \in Objects : o \in Early \cup Semaphores \cup Mutexes => count[o] >= 0
  /\ \A t \in Tasks : waits[t] # None => count[waits[t]] >= 0

\* What holds of the other parts of the state by their types.
OtherRanges ==
  /\ state \in {"NOT_INITIALIZED", "INITIALIZED", "SCHED_STARTED"}
  /\ tsk_id \in [Tasks -> 0 .. INVALID_TASK_ID]
  /\ current \in Contexts \cup {Idle, TimerTask}
  /\ left \in [Tasks -> portMAX_DELAY .. MaxTicks]
  /\ \A o \in Objects : count[o] >= -1
  /\ Len(timer_queue) <= configTIMER_QUEUE_LENGTH
  /\ failed \in BOOLEAN

\* No task has a priority above n.
PriosUpTo(n) == prio \in [Tasks -> 0 .. n] /\ base \in [Tasks -> 0 .. n]

TimerRanges ==
  /\ timer_left \in Inactive .. Period /\ timer_late \in 0 .. Period
  /\ timer_queue \in Seq(Inactive .. Period)
  /\ timer_pc \in {"expired", "commands"}
  /\ timer_call \in {"uninitialized", "none", "started", "stopping", "stopped"}

\* The timer task is ready while a command is in its queue, so that each command is
\* executed before a task runs again, and none is there when it looks at the timer.
TimerInv ==
  /\ timer_queue # <<>> => TimerTask \in ready /\ Len(timer_queue) = 1
  /\ timer_call = "stopping" =>
       timer_queue = <<Inactive>> \/ (timer_queue = <<>> /\ timer_left = Inactive)
  /\ timer_call = "stopped" => timer_left = Inactive /\ timer_queue = <<>>
  /\ timer_pc = "expired" => timer_queue = <<>> /\ (state = "SCHED_STARTED" => TimerTask \in ready)

-----------------------------------------------------------------------------
(* Nesting *)

\* What a step does to the active handlers and the requests.
LEMMA HandlerMoves ==
  ASSUME KernelInv, [Next]_vars
  PROVE  \/ isr' = isr /\ requested \subseteq requested'
         \/ \E irq \in Interrupts : Dispatch(irq)
         \/ /\ isr # <<>>
            /\ \E x \in {"body", "exit", "check", "yield", "clear", "leave"} :
                 /\ GoTo(x)
                 /\ \/ x # "body" /\ requested \ {isr[1].handler} \subseteq requested'
                    \/ isr[1].at = "entry" /\ requested' = requested
         \/ isr # <<>> /\ isr' = Tail(isr) /\ requested' = requested
<1>1. CASE MainNext \/ CreationNext \/ SwitchContext \/ Tick \/ UNCHANGED vars
  BY <1>1 DEF MainNext, rtos_init, rtos_semaphore_init, rtos_mutex_init, rtos_timer_init,
       rtos_scheduler_start, CreationNext, TakeTaskNumber, StoreNextNumber,
       xTaskCreateStatic, vTaskSetApplicationTaskTag, InitTaskSemaphore,
       SwitchContext, Tick, vars, hardware
<1>2. CASE TaskNext
  BY <1>2 DEF TaskNext, rtos_task_change_self_priority, rtos_task_delay, rtos_task_semaphore_wait,
       rtos_mutex_lock, rtos_mutex_unlock, rtos_semaphore_wait, rtos_semaphore_wait_timeout,
       SignalFromTask, rtos_timer_start, rtos_timer_stop, StopReturns, Send, Retry, xSemaphoreTake,
       hardware
<1>3. CASE TimerNext
  BY <1>3 DEF TimerNext, TimerExpires, TimerTaskWaits, TimerCommand, TimerCommandsDone,
       TimerTaskFrame, hardware
<1>4. CASE IsrNext
  <2>1. CASE \E irq \in Interrupts : Raise(irq) \/ Dispatch(irq)
    BY <2>1 DEF Raise
  <2>2. CASE rtos_enter_isr
    BY <2>2 DEF rtos_enter_isr, InHandler
  <2>3. CASE HandlerBody
    BY <2>3 DEF HandlerBody, InHandler
  <2>4. CASE rtos_exit_isr \/ CheckSwitchRequired
    BY <2>4 DEF rtos_exit_isr, CheckSwitchRequired, InHandler
  <2>5. CASE portYIELD \/ ClearSwitchRequired
    BY <2>5 DEF portYIELD, ClearSwitchRequired, InHandler
  <2>6. CASE LeaveHandler
    BY <2>6 DEF LeaveHandler, InHandler
  <2> QED BY <1>4, <2>1, <2>2, <2>3, <2>4, <2>5, <2>6 DEF IsrNext
<1> QED BY <1>1, <1>2, <1>3, <1>4 DEF Next

\* The innermost handler goes on; the others and its level stay.
LEMMA GoToKeepsRest ==
  ASSUME KernelInv, isr # <<>>, NEW x, GoTo(x)
  PROVE  /\ Len(isr) \in Nat \ {0} /\ DOMAIN isr = 1 .. Len(isr) /\ DOMAIN isr' = DOMAIN isr
         /\ isr'[1].handler = isr[1].handler /\ isr'[1].level = isr[1].level /\ isr'[1].at = x
         /\ \A i \in DOMAIN isr \ {1} : isr'[i] = isr[i]
<1>1. isr \in Seq(ActiveHandler) /\ Len(isr) \in Nat \ {0} /\ 1 \in DOMAIN isr
      /\ DOMAIN isr = 1 .. Len(isr)
  BY DEF KernelInv, HandlersInv
<1>2. isr[1] \in ActiveHandler
  BY <1>1
<1>3. isr' = [isr EXCEPT ![1] = [isr[1] EXCEPT !.at = x]]
  BY <1>1 DEF GoTo
<1>4. isr'[1] = [isr[1] EXCEPT !.at = x]
  BY <1>1, <1>3
<1>5. /\ isr'[1].handler = isr[1].handler /\ isr'[1].level = isr[1].level /\ isr'[1].at = x
  BY <1>2, <1>4 DEF ActiveHandler
<1> QED BY <1>1, <1>3, <1>5

\* A handler that is entered comes before the others.
LEMMA DispatchPrepends ==
  ASSUME KernelInv, NEW irq \in Interrupts, Dispatch(irq)
  PROVE  /\ Len(isr) \in Nat /\ DOMAIN isr = 1 .. Len(isr) /\ DOMAIN isr' = 1 .. Len(isr) + 1
         /\ isr'[1] = [handler |-> g_interrupt_vector_table[irq], level |-> InterruptLevel[irq],
                       at |-> "entry"]
         /\ \A i \in 2 .. Len(isr) + 1 : i - 1 \in DOMAIN isr /\ isr'[i] = isr[i - 1]
         /\ \A i \in DOMAIN isr' : i = 1 \/ i \in 2 .. Len(isr) + 1
<1> DEFINE new == [handler |-> g_interrupt_vector_table[irq], level |-> InterruptLevel[irq],
                   at |-> "entry"]
<1>1. isr \in Seq(ActiveHandler) /\ Len(isr) \in Nat /\ DOMAIN isr = 1 .. Len(isr)
  BY DEF KernelInv, HandlersInv
<1>2. isr' = <<new>> \o isr
  BY DEF Dispatch
<1> HIDE DEF new
<1>3. Len(isr') = Len(isr) + 1 /\ isr'[1] = new /\ DOMAIN isr' = 1 .. Len(isr) + 1
  BY <1>1, <1>2
<1>4. \A i \in 2 .. Len(isr) + 1 : i - 1 \in DOMAIN isr /\ isr'[i] = isr[i - 1]
  BY <1>1, <1>2
<1>5. \A i \in DOMAIN isr' : i = 1 \/ i \in 2 .. Len(isr) + 1
  BY <1>1, <1>3
<1> QED BY <1>1, <1>3, <1>4, <1>5 DEF new

\* A handler that returns leaves the others.
LEMMA TailDrops ==
  ASSUME KernelInv, isr # <<>>, isr' = Tail(isr)
  PROVE  DOMAIN isr' \subseteq Nat /\ \A i \in DOMAIN isr' : i + 1 \in DOMAIN isr /\ isr'[i] = isr[i + 1]
<1>1. isr \in Seq(ActiveHandler) /\ Len(isr) \in Nat \ {0} /\ DOMAIN isr = 1 .. Len(isr)
  BY DEF KernelInv, HandlersInv
<1>2. DOMAIN isr' = 1 .. Len(isr) - 1 /\ \A i \in 1 .. Len(isr) - 1 : isr'[i] = isr[i + 1]
  BY <1>1
<1> QED BY <1>1, <1>2

\* The levels are numbers.
LEMMA LevelIsNumber ==
  ASSUME KernelInv, NEW i \in DOMAIN isr
  PROVE  isr[i].level \in Nat
<1>1. isr \in Seq(ActiveHandler)
  BY DEF KernelInv, HandlersInv
<1>2. isr[i] \in ActiveHandler
  BY <1>1
<1> QED BY <1>2 DEF ActiveHandler

\* Every step keeps the levels in order.
LEMMA LevelsStep ==
  ASSUME KernelInv, LevelsInv, [Next]_vars
  PROVE  LevelsInv'
<1>1. \A i \in DOMAIN isr : isr[i].level \in Nat
  BY LevelIsNumber
<1>2. CASE isr' = isr
  BY <1>2 DEF LevelsInv
<1>3. ASSUME NEW irq \in Interrupts, Dispatch(irq) PROVE LevelsInv'
  <2>0. isr'[1].level = InterruptLevel[irq]
    <3>1. isr'[1] = [handler |-> g_interrupt_vector_table[irq], level |-> InterruptLevel[irq],
                     at |-> "entry"]
      BY <1>3, DispatchPrepends
    <3> QED BY <3>1
  <2>1. /\ Len(isr) \in Nat /\ DOMAIN isr = 1 .. Len(isr) /\ DOMAIN isr' = 1 .. Len(isr) + 1
        /\ \A i \in 2 .. Len(isr) + 1 : i - 1 \in DOMAIN isr /\ isr'[i] = isr[i - 1]
        /\ \A i \in DOMAIN isr' : i = 1 \/ i \in 2 .. Len(isr) + 1
    BY <1>3, DispatchPrepends
  <2>2. InterruptLevel[irq] \in Nat
    BY InterruptsOfTheTable
  <2>3. \A i \in DOMAIN isr : isr[i].level < InterruptLevel[irq]
    <3> SUFFICES ASSUME NEW i \in DOMAIN isr PROVE isr[i].level < InterruptLevel[irq]
      OBVIOUS
    <3>1. isr # <<>> /\ 1 \in DOMAIN isr /\ i \in Nat /\ (i = 1 \/ 1 < i)
      BY <2>1
    <3>2. isr[1].level < InterruptLevel[irq]
      <4>1. InterruptLevel[irq] > isr[1].level
        BY <1>3, <3>1 DEF Dispatch
      <4> QED BY <1>1, <2>2, <3>1, <4>1
    <3>3. i # 1 => isr[i].level < isr[1].level
      BY <3>1 DEF LevelsInv
    <3> QED BY <1>1, <2>2, <3>1, <3>2, <3>3
  <2>4. ASSUME NEW i \in DOMAIN isr', NEW j \in DOMAIN isr', i < j
        PROVE  isr'[j].level < isr'[i].level
    <3>1. j \in 2 .. Len(isr) + 1
      BY <2>1, <2>4
    <3>2. CASE i = 1
      BY <2>0, <2>1, <2>3, <3>1, <3>2
    <3>3. CASE i \in 2 .. Len(isr) + 1
      <4>1. i - 1 < j - 1
        BY <2>1, <2>4, <3>1, <3>3
      <4> QED BY <2>1, <3>1, <3>3, <4>1 DEF LevelsInv
    <3> QED BY <2>1, <3>2, <3>3
  <2>5. ASSUME NEW i \in DOMAIN isr' PROVE \E j \in Interrupts : InterruptLevel[j] = isr'[i].level
    BY <2>0, <2>1 DEF LevelsInv
  <2> QED BY <2>4, <2>5 DEF LevelsInv
<1>4. ASSUME isr # <<>>, NEW x, GoTo(x) PROVE LevelsInv'
  <2>1. DOMAIN isr' = DOMAIN isr /\ \A i \in DOMAIN isr : isr'[i].level = isr[i].level
    BY <1>4, GoToKeepsRest
  <2> QED BY <2>1 DEF LevelsInv
<1>5. CASE isr # <<>> /\ isr' = Tail(isr)
  <2>1. /\ DOMAIN isr' \subseteq Nat
        /\ \A i \in DOMAIN isr' : i + 1 \in DOMAIN isr /\ isr'[i] = isr[i + 1]
    BY <1>5, TailDrops
  <2>2. \A i, j \in DOMAIN isr' : i < j => i + 1 < j + 1
    BY <2>1
  <2> QED BY <2>1, <2>2 DEF LevelsInv
<1> QED BY <1>2, <1>3, <1>4, <1>5, HandlerMoves

\* The entry of an interrupt that has a handler of its own.
LEMMA EntryOfDriver ==
  ASSUME NEW irq \in DriverInterrupts
  PROVE  g_interrupt_vector_table[irq] = irq
<1>1. irq \in IRQn /\ irq # I2C2
  BY DEF IRQn, I2C2, DriverInterrupts
<1>2. irq \notin UnusedInterrupts
  BY DEF UnusedInterrupts, DriverInterrupts
<1> QED BY <1>1, <1>2 DEF g_interrupt_vector_table

\* Where each interrupt has its own handler, every step keeps ServedInv: a handler
\* clears the request of its own device only, and no other active handler has it.
LEMMA ServedStep ==
  ASSUME OwnHandlers, KernelInv, LevelsInv, ServedInv, [Next]_vars
  PROVE  ServedInv'
<1>1. CASE isr' = isr /\ requested \subseteq requested'
  BY <1>1 DEF ServedInv
<1>2. ASSUME NEW irq \in Interrupts, Dispatch(irq) PROVE ServedInv'
  <2>1. g_interrupt_vector_table[irq] = irq
    <3>1. irq \in DriverInterrupts /\ irq \in IRQn
      BY InterruptsOfTheTable DEF OwnHandlers
    <3> QED BY <3>1, EntryOfDriver
  <2>2. irq \in requested /\ requested' = requested
    BY <1>2 DEF Dispatch
  <2>3. /\ isr'[1] = [handler |-> irq, level |-> InterruptLevel[irq], at |-> "entry"]
        /\ \A i \in 2 .. Len(isr) + 1 : i - 1 \in DOMAIN isr /\ isr'[i] = isr[i - 1]
        /\ \A i \in DOMAIN isr' : i = 1 \/ i \in 2 .. Len(isr) + 1
    BY <1>2, <2>1, DispatchPrepends
  <2>4. isr'[1].handler = irq /\ isr'[1].level = InterruptLevel[irq]
    BY <2>3
  <2> SUFFICES ASSUME NEW i \in DOMAIN isr'
               PROVE  /\ isr'[i].handler \in Interrupts
                      /\ isr'[i].level = InterruptLevel[isr'[i].handler]
                      /\ isr'[i].at \in {"entry", "body"} => isr'[i].handler \in requested
    BY <2>2 DEF ServedInv
  <2>5. CASE i = 1
    BY <2>2, <2>4, <2>5
  <2>6. CASE i \in 2 .. Len(isr) + 1
    BY <2>3, <2>6 DEF ServedInv
  <2> QED BY <2>3, <2>5, <2>6
<1>3. ASSUME isr # <<>>, NEW x, GoTo(x),
             \/ x \notin {"entry", "body"} /\ requested \ {isr[1].handler} \subseteq requested'
             \/ isr[1].at = "entry" /\ requested' = requested
      PROVE  ServedInv'
  <2>1. /\ Len(isr) \in Nat \ {0} /\ DOMAIN isr = 1 .. Len(isr) /\ DOMAIN isr' = DOMAIN isr
        /\ isr'[1].handler = isr[1].handler /\ isr'[1].level = isr[1].level /\ isr'[1].at = x
        /\ \A i \in DOMAIN isr \ {1} : isr'[i] = isr[i]
    BY <1>3, GoToKeepsRest
  <2>2. 1 \in DOMAIN isr
    BY <2>1
  <2> SUFFICES ASSUME NEW i \in DOMAIN isr
               PROVE  /\ isr'[i].handler \in Interrupts
                      /\ isr'[i].level = InterruptLevel[isr'[i].handler]
                      /\ isr'[i].at \in {"entry", "body"} => isr'[i].handler \in requested'
    BY <2>1 DEF ServedInv
  <2>3. CASE i = 1
    BY <1>3, <2>1, <2>2, <2>3 DEF ServedInv
  <2>4. CASE i # 1
    <3>1. isr'[i] = isr[i] /\ 1 < i
      BY <2>1, <2>4
    <3>2. isr[i].handler # isr[1].handler
      <4>1. isr[i].level < isr[1].level
        BY <2>2, <3>1 DEF LevelsInv
      <4>2. isr[i].level \in Nat
        BY LevelIsNumber
      <4>3. isr[i].level # isr[1].level
        BY <4>1, <4>2
      <4> QED BY <2>2, <4>3 DEF ServedInv
    <3> QED BY <1>3, <3>1, <3>2 DEF ServedInv
  <2> QED BY <2>3, <2>4
<1>4. CASE isr # <<>> /\ isr' = Tail(isr) /\ requested' = requested
  BY <1>4, TailDrops DEF ServedInv
<1> QED BY <1>1, <1>2, <1>3, <1>4, HandlerMoves

-----------------------------------------------------------------------------
(* Numbers *)

\* The number of tasks that have one.
LEMMA NumberedIsFinite ==
  /\ IsFiniteSet(Numbered) /\ Cardinality(Numbered) \in Nat
  /\ Cardinality(Tasks) \in Nat /\ Cardinality(Numbered) <= Cardinality(Tasks)
<1>1. Numbered \subseteq Tasks
  BY DEF Numbered
<1> QED BY <1>1, FiniteTasks, FS_Subset, FS_CardinalityType

\* A task that has no number yet can be given one.
LEMMA NumberLeft ==
  ASSUME NumbersInv, NEW t \in Tasks, t \notin Numbered
  PROVE  next_task_id \in Nat /\ next_task_id < Cardinality(Tasks)
<1>1. Numbered \subseteq Tasks
  BY DEF Numbered
<1>2. Cardinality(Numbered) # Cardinality(Tasks)
  BY <1>1, FiniteTasks, FS_Subset
<1> QED BY <1>2, NumberedIsFinite DEF NumbersInv

\* The task whose creation starts has no number.
LEMMA NewHasNoNumber ==
  ASSUME NEW c \in Contexts, NEW t \in Tasks, TakeTaskNumber(c, t)
  PROVE  t \notin Numbered
BY DEF TakeTaskNumber, Numbered

\* A step in which no task gets a number or is created.
LEMMA NumbersStay ==
  ASSUME NumbersInv, UNCHANGED <<next_task_id, tsk_id>>, Numbered' = Numbered,
         \A t \in Tasks : tsk_state[t] # "none" => tsk_state'[t] # "none",
         \A c \in Contexts : pc'[c] \in {"number", "tag"} =>
           pc'[c] = pc[c] /\ creating'[c] = creating[c] /\ creating[c] \in Tasks
  PROVE  NumbersInv'
BY DEF NumbersInv

\* Each new task is counted.
LEMMA NumbersStep ==
  ASSUME KernelInv, NumbersInv, [Next]_vars
  PROVE  NumbersInv'
<1>1. ASSUME UNCHANGED <<next_task_id, tsk_id, tsk_state>>,
             \A c \in Contexts :
               pc'[c] \in {"number", "create", "tag"} \/ pc[c] \in {"number", "create", "tag"} =>
                 pc'[c] = pc[c] /\ creating'[c] = creating[c]
      PROVE  NumbersInv'
  <2>1. Numbered' = Numbered
    BY <1>1 DEF Numbered
  <2>2. \A c \in Contexts : pc[c] \in {"number", "tag"} => creating[c] \in Tasks
    BY DEF KernelInv, TasksInv, InTaskInit
  <2> QED BY <1>1, <2>1, <2>2, NumbersStay
<1>2. ASSUME NEW c \in Contexts, NEW t \in Tasks, TakeTaskNumber(c, t) PROVE NumbersInv'
  <2>1. /\ pc[c] = "app" /\ tsk_id' = [tsk_id EXCEPT ![t] = next_task_id]
        /\ pc' = [pc EXCEPT ![c] = "number"] /\ creating' = [creating EXCEPT ![c] = t]
        /\ UNCHANGED <<next_task_id, tsk_state>>
        /\ \A d \in Contexts : creating[d] # t
    BY <1>2 DEF TakeTaskNumber, Calls, g_rtos
  <2>2. /\ pc'[c] = "number" /\ creating'[c] = t
        /\ \A d \in Contexts \ {c} : pc'[d] = pc[d] /\ creating'[d] = creating[d]
    BY <2>1 DEF KernelInv, TasksInv
  <2>3. Numbered' = Numbered \cup {t}
    BY <2>1, <2>2 DEF Numbered
  <2>4. Cardinality(Numbered') = Cardinality(Numbered) + 1 /\ Cardinality(Numbered) \in Nat
    BY <1>2, <2>3, NewHasNoNumber, NumberedIsFinite, FS_AddElement
  <2>5. ASSUME NEW d \in Contexts, pc'[d] = "number"
        PROVE  tsk_id'[creating'[d]] \in Nat /\ tsk_id'[creating'[d]] < Cardinality(Numbered')
    <3>1. CASE d = c
      BY <2>1, <2>2, <2>4, <3>1 DEF NumbersInv
    <3>2. CASE d # c
      <4>1. creating[d] \in Tasks /\ creating[d] # t /\ pc[d] = "number" /\ creating'[d] = creating[d]
        BY <2>1, <2>2, <2>5, <3>2 DEF KernelInv, TasksInv, InTaskInit
      <4>2. tsk_id'[creating[d]] = tsk_id[creating[d]]
        BY <2>1, <4>1 DEF NumbersInv
      <4> QED BY <2>4, <4>1, <4>2 DEF NumbersInv
    <3> QED BY <3>1, <3>2
  <2>6. ASSUME NEW d \in Contexts, pc'[d] = "tag" PROVE tsk_state'[creating'[d]] # "none"
    BY <2>1, <2>2, <2>6 DEF NumbersInv
  <2>7. next_task_id' \in Nat /\ next_task_id' <= Cardinality(Numbered')
        /\ DOMAIN tsk_id' = Tasks
    BY <2>1, <2>4 DEF NumbersInv
  <2> QED BY <2>5, <2>6, <2>7 DEF NumbersInv
<1>3. ASSUME NEW c \in Contexts, StoreNextNumber(c) PROVE NumbersInv'
  <2>1. /\ pc[c] = "number" /\ next_task_id' = tsk_id[creating[c]] + 1
        /\ pc' = [pc EXCEPT ![c] = "create"] /\ UNCHANGED <<tsk_id, tsk_state, creating>>
    BY <1>3 DEF StoreNextNumber, tcb
  <2>2. pc'[c] = "create" /\ \A d \in Contexts \ {c} : pc'[d] = pc[d]
    BY <2>1 DEF KernelInv, TasksInv
  <2>3. Numbered' = Numbered
    BY <2>1, <2>2 DEF Numbered
  <2>4. tsk_id[creating[c]] \in Nat /\ tsk_id[creating[c]] < Cardinality(Numbered)
    BY <2>1 DEF NumbersInv
  <2>5. next_task_id' \in Nat /\ next_task_id' <= Cardinality(Numbered')
    BY <2>1, <2>3, <2>4, NumberedIsFinite
  <2> QED BY <2>1, <2>2, <2>3, <2>5 DEF NumbersInv
<1>4. ASSUME NEW c \in Contexts, xTaskCreateStatic(c) PROVE NumbersInv'
  <2>1. /\ pc[c] = "create" /\ tsk_state' = [tsk_state EXCEPT ![creating[c]] = "created"]
        /\ pc' = [pc EXCEPT ![c] = "tag"] /\ UNCHANGED <<next_task_id, tsk_id, creating>>
    BY <1>4 DEF xTaskCreateStatic, g_rtos
  <2>2. creating[c] \in Tasks /\ creating[c] \in Numbered
    BY <2>1 DEF KernelInv, TasksInv, InTaskInit, Numbered
  <2>3. /\ pc'[c] = "tag" /\ tsk_state'[creating[c]] = "created"
        /\ \A d \in Contexts \ {c} : pc'[d] = pc[d]
        /\ \A t \in Tasks \ {creating[c]} : tsk_state'[t] = tsk_state[t]
    BY <2>1, <2>2 DEF KernelInv, TasksInv
  <2>4. Numbered' = Numbered
    <3>1. ASSUME NEW t \in Tasks PROVE t \in Numbered' <=> t \in Numbered
      <4>1. CASE t = creating[c]
        BY <2>2, <2>3, <4>1 DEF Numbered
      <4>2. CASE t # creating[c]
        BY <2>1, <2>3, <4>2 DEF Numbered
      <4> QED BY <4>1, <4>2
    <3> QED BY <3>1 DEF Numbered
  <2>5. ASSUME NEW d \in Contexts, pc'[d] = "tag" PROVE tsk_state'[creating'[d]] # "none"
    <3>1. CASE d = c
      BY <2>1, <2>3, <3>1
    <3>2. CASE d # c
      <4>1. pc[d] = "tag" /\ creating'[d] = creating[d] /\ creating[d] \in Tasks
        BY <2>1, <2>3, <2>5, <3>2 DEF KernelInv, TasksInv, InTaskInit
      <4>2. tsk_state[creating[d]] # "none"
        BY <4>1 DEF NumbersInv
      <4> QED BY <2>3, <4>1, <4>2
    <3> QED BY <3>1, <3>2
  <2>6. \A d \in Contexts : pc'[d] = "number" => pc[d] = "number"
    BY <2>3
  <2> QED BY <2>1, <2>4, <2>5, <2>6 DEF NumbersInv
<1>5. ASSUME NEW c \in Contexts, vTaskSetApplicationTaskTag(c) PROVE NumbersInv'
  <2>1. /\ pc[c] = "tag" /\ tsk_state' = [tsk_state EXCEPT ![creating[c]] = "tagged"]
        /\ pc' = [pc EXCEPT ![c] = "semaphore"] /\ UNCHANGED <<next_task_id, tsk_id, creating>>
    BY <1>5 DEF vTaskSetApplicationTaskTag, g_rtos
  <2>2. /\ creating[c] \in Tasks /\ tsk_state[creating[c]] # "none"
        /\ pc'[c] = "semaphore" /\ \A d \in Contexts \ {c} : pc'[d] = pc[d]
        /\ \A t \in Tasks : tsk_state'[t] # "none" <=> tsk_state[t] # "none"
    BY <2>1 DEF NumbersInv, KernelInv, TasksInv, InTaskInit
  <2>3. Numbered' = Numbered
    BY <2>1, <2>2 DEF Numbered
  <2>4. \A d \in Contexts : pc[d] \in {"number", "tag"} => creating[d] \in Tasks
    BY DEF KernelInv, TasksInv, InTaskInit
  <2> QED BY <2>1, <2>2, <2>3, <2>4, NumbersStay
<1>6. ASSUME NEW c \in Contexts, InitTaskSemaphore(c) PROVE NumbersInv'
  <2>1. /\ pc[c] = "semaphore" /\ pc' = [pc EXCEPT ![c] = "app"]
        /\ creating' = [creating EXCEPT ![c] = None]
        /\ UNCHANGED <<next_task_id, tsk_id, tsk_state>>
    BY <1>6 DEF InitTaskSemaphore, g_rtos, tcb
  <2> QED BY <1>1, <2>1 DEF KernelInv, TasksInv
<1>7. CASE MainNext
  BY <1>1, <1>7 DEF MainNext, rtos_init, rtos_semaphore_init, rtos_mutex_init, rtos_timer_init,
                    rtos_scheduler_start, g_rtos, tcb, program
<1>8. CASE TaskNext
  <2>1. UNCHANGED <<next_task_id, tsk_id, tsk_state, creating>>
    BY <1>8 DEF TaskNext, rtos_task_change_self_priority, rtos_task_delay, rtos_task_semaphore_wait,
       rtos_mutex_lock, rtos_mutex_unlock, rtos_semaphore_wait, rtos_semaphore_wait_timeout,
       SignalFromTask, rtos_semaphore_signal, Signal, rtos_timer_start, rtos_timer_stop,
       StopReturns,
       Send, Retry, xSemaphoreTake, g_rtos, tcb, program
  <2>2. \/ pc' = pc
        \/ \E t \in Tasks : /\ pc[t] \in {"app", "sent"}
                            /\ \E x \in {"app", "sent"} : pc' = [pc EXCEPT ![t] = x]
    BY <1>8 DEF TaskNext, rtos_task_change_self_priority, rtos_task_delay, rtos_task_semaphore_wait,
       rtos_mutex_lock, rtos_mutex_unlock, rtos_semaphore_wait, rtos_semaphore_wait_timeout,
       SignalFromTask, rtos_timer_start, rtos_timer_stop, StopReturns, Retry, xSemaphoreTake, Calls,
       program
  <2>3. \A c \in Contexts : pc'[c] = pc[c] \/ (pc[c] \in {"app", "sent"} /\ pc'[c] \in {"app", "sent"})
    BY <2>2 DEF KernelInv, TasksInv
  <2> QED BY <1>1, <2>1, <2>3
<1>9. CASE TimerNext
  BY <1>1, <1>9 DEF TimerNext, TimerExpires, TimerTaskWaits, TimerCommand, TimerCommandsDone,
     TimerTaskFrame, rtos_timer_internal_callback, rtos_semaphore_signal, Signal, g_rtos, tcb,
     program
<1>10. CASE IsrNext
  BY <1>1, <1>10 DEF IsrNext, Raise, Dispatch, rtos_enter_isr, HandlerBody, rtos_exit_isr,
     CheckSwitchRequired, portYIELD, ClearSwitchRequired, LeaveHandler, IsrFrame,
     rtos_semaphore_signal, Signal, g_rtos, tcb, program
<1>11. CASE SwitchContext \/ Tick \/ UNCHANGED vars
  BY <1>1, <1>11 DEF SwitchContext, Tick, vars, g_rtos, tcb, program
<1> QED BY <1>2, <1>3, <1>4, <1>5, <1>6, <1>7, <1>8, <1>9, <1>10, <1>11 DEF Next, CreationNext

\* At reset no task has a number.
LEMMA NumbersInit ==
  ASSUME Init
  PROVE  NumbersInv
<1>1. Numbered = {} /\ (\A c \in Contexts : pc[c] = "app") /\ next_task_id = 0
  BY DEF Init, Numbered
<1>2. DOMAIN tsk_id = Tasks
  BY DEF Init
<1> QED BY <1>1, <1>2, FS_EmptySet DEF NumbersInv

-----------------------------------------------------------------------------
(* Counts *)

\* What a step does to the waits: a task waits only for what has count 0.
LEMMA WaitsMove ==
  ASSUME KernelInv, [Next]_vars
  PROVE  \/ waits' = waits
         \/ \E t \in Tasks : waits' = [waits EXCEPT ![t] = None]
         \/ \E t \in Tasks : \E o \in Objects :
              waits' = [waits EXCEPT ![t] = o] /\ count[o] = 0 /\ count' = count
<1> DEFINE Moves == \/ waits' = waits
                    \/ \E t \in Tasks : waits' = [waits EXCEPT ![t] = None]
                    \/ \E t \in Tasks : \E o \in Objects :
                         waits' = [waits EXCEPT ![t] = o] /\ count[o] = 0 /\ count' = count
<1>1. ASSUME NEW t \in Tasks, NEW o \in Objects, NEW ticks, xSemaphoreTake(t, o, ticks) PROVE Moves
  BY <1>1 DEF xSemaphoreTake, Take, TimeOut, Block, blocking, sync
<1>2. CASE MainNext \/ CreationNext \/ SwitchContext \/ Tick \/ UNCHANGED vars
  BY <1>2 DEF MainNext, rtos_init, rtos_semaphore_init, rtos_mutex_init, rtos_timer_init,
       rtos_scheduler_start, CreationNext, TakeTaskNumber, StoreNextNumber,
       xTaskCreateStatic, vTaskSetApplicationTaskTag, InitTaskSemaphore,
       SwitchContext, Tick, vars, blocking
<1>3. CASE TaskNext
  <2> SUFFICES ASSUME NEW t \in Tasks,
             \/ rtos_task_change_self_priority(t) \/ rtos_task_delay(t) \/ rtos_task_semaphore_wait(t)
             \/ \E m \in Mutexes : rtos_mutex_lock(t, m) \/ rtos_mutex_unlock(t, m)
             \/ \E s \in Semaphores : rtos_semaphore_wait(t, s) \/ rtos_semaphore_wait_timeout(t, s)
             \/ SignalFromTask(t)
             \/ rtos_timer_start(t) \/ rtos_timer_stop(t) \/ StopReturns(t)
             \/ Retry(t)
               PROVE  Moves
    BY <1>3 DEF TaskNext
  <2>1. CASE \/ rtos_task_change_self_priority(t) \/ rtos_task_delay(t) \/ rtos_timer_start(t)
             \/ rtos_timer_stop(t) \/ StopReturns(t) \/ SignalFromTask(t)
             \/ \E m \in Mutexes : rtos_mutex_unlock(t, m)
    BY <2>1 DEF rtos_task_change_self_priority, rtos_task_delay, rtos_timer_start, rtos_timer_stop,
                StopReturns, Send, SignalFromTask, rtos_semaphore_signal, Signal,
                rtos_mutex_unlock, Give, blocking
  <2>2. CASE \/ rtos_task_semaphore_wait(t) \/ \E m \in Mutexes : rtos_mutex_lock(t, m)
             \/ \E s \in Semaphores : rtos_semaphore_wait(t, s) \/ rtos_semaphore_wait_timeout(t, s)
    BY <1>1, <2>2 DEF rtos_task_semaphore_wait, rtos_mutex_lock, rtos_semaphore_wait,
                      rtos_semaphore_wait_timeout, Objects
  <2>3. CASE Retry(t)
    <3>1. waits[t] \in Objects
      BY <2>3 DEF Retry, KernelInv, TasksInv
    <3> QED BY <1>1, <2>3, <3>1 DEF Retry
  <2> QED BY <2>1, <2>2, <2>3
<1>4. CASE TimerNext
  BY <1>4 DEF TimerNext, TimerExpires, TimerTaskWaits, TimerCommand, TimerCommandsDone,
              rtos_timer_internal_callback, rtos_semaphore_signal, Signal, Give, blocking
<1>5. CASE IsrNext
  BY <1>5 DEF IsrNext, Raise, Dispatch, rtos_enter_isr, HandlerBody, rtos_exit_isr,
              CheckSwitchRequired, portYIELD, ClearSwitchRequired, LeaveHandler,
              rtos_semaphore_signal, Signal, Give, blocking
<1> QED BY <1>2, <1>3, <1>4, <1>5 DEF Next

\* What is initialised stays so, and a wait is for something that is initialised.
LEMMA CountsStep ==
  ASSUME KernelInv, KernelInv', CountsInv, [Next]_vars
  PROVE  CountsInv'
<1>1. \A o \in Objects : count[o] >= 0 => count'[o] >= 0
  <2> SUFFICES ASSUME NEW o \in Objects PROVE count[o] >= 0 => count'[o] >= 0
    OBVIOUS
  <2>1. count[o] \in Int /\ count'[o] \in Int
    BY DEF KernelInv, MutexInv
  <2>2. count'[o] >= 0 \/ count'[o] >= count[o]
    BY CountStays
  <2> QED BY <2>1, <2>2
<1>2. ASSUME state' = "SCHED_STARTED", NEW o \in Objects, o \in Early \cup Semaphores \cup Mutexes
      PROVE  count'[o] >= 0
  <2>1. CASE state = "SCHED_STARTED"
    BY <1>1, <1>2, <2>1 DEF CountsInv
  <2>2. CASE state # "SCHED_STARTED"
    <3>1. rtos_scheduler_start
      <4>1. CASE TaskNext
        BY <1>2, <2>2, <4>1
           DEF TaskNext, rtos_task_change_self_priority, rtos_task_delay, rtos_task_semaphore_wait,
               rtos_mutex_lock, rtos_mutex_unlock, rtos_semaphore_wait, rtos_semaphore_wait_timeout,
               SignalFromTask, rtos_semaphore_signal, Signal, rtos_timer_start, rtos_timer_stop,
               StopReturns,
               Send, Retry, xSemaphoreTake, g_rtos
      <4>2. CASE TimerNext \/ IsrNext
        BY <1>2, <2>2, <4>2
           DEF TimerNext, TimerExpires, TimerTaskWaits, TimerCommand, TimerCommandsDone,
               rtos_timer_internal_callback, rtos_semaphore_signal, Signal, IsrNext, Raise,
               Dispatch,
               rtos_enter_isr, HandlerBody, rtos_exit_isr, CheckSwitchRequired, portYIELD,
               ClearSwitchRequired, LeaveHandler, g_rtos
      <4>3. CASE MainNext \/ CreationNext \/ SwitchContext \/ Tick \/ UNCHANGED vars
        BY <1>2, <2>2, <4>3
           DEF MainNext, rtos_init, rtos_semaphore_init, rtos_mutex_init, rtos_timer_init,
               CreationNext, TakeTaskNumber, StoreNextNumber,
       xTaskCreateStatic, vTaskSetApplicationTaskTag, InitTaskSemaphore,
               SwitchContext, Tick, vars, g_rtos
      <4> QED BY <4>1, <4>2, <4>3 DEF Next
    <3>2. count[o] >= 0
      BY <1>2, <3>1 DEF rtos_scheduler_start
    <3> QED BY <1>1, <3>2
  <2> QED BY <2>1, <2>2
<1>3. ASSUME NEW t \in Tasks, waits'[t] # None PROVE count'[waits'[t]] >= 0
  <2>1. waits \in [Tasks -> Objects \cup {None}] /\ waits'[t] \in Objects
    BY <1>3 DEF KernelInv, TasksInv
  <2>2. CASE waits'[t] = waits[t]
    <3>1. count[waits[t]] >= 0
      BY <1>3, <2>2 DEF CountsInv
    <3>2. waits[t] \in Objects
      BY <2>1, <2>2
    <3>3. count'[waits[t]] >= 0
      BY <1>1, <3>1, <3>2
    <3> QED BY <2>2, <3>3
  <2>3. CASE waits'[t] # waits[t]
    <3>1. PICK u \in Tasks, o \in Objects :
            waits' = [waits EXCEPT ![u] = o] /\ count[o] = 0 /\ count' = count
      BY <1>3, <2>1, <2>3, WaitsMove
    <3>2. waits'[t] = o
      BY <2>1, <2>3, <3>1
    <3> QED BY <3>1, <3>2
  <2> QED BY <2>2, <2>3
<1> QED BY <1>2, <1>3 DEF CountsInv

-----------------------------------------------------------------------------
(* Priorities *)

\* A task keeps within the priorities that the application gives.
LEMMA PriosStep ==
  ASSUME NEW n \in Nat, \A t \in Tasks : Priority[t] \in 0 .. n /\ NewPriorities[t] \subseteq 0 .. n,
         PriosUpTo(n), [Next]_vars
  PROVE  PriosUpTo(n)'
<1>1. CASE UNCHANGED <<prio, base>>
  BY <1>1 DEF PriosUpTo
<1>2. ASSUME NEW t \in Tasks, NEW o, NEW ticks, xSemaphoreTake(t, o, ticks) PROVE PriosUpTo(n)'
  <2>1. CASE Block(t, o, ticks)
    BY <2>1 DEF Block, Inherit, PriosUpTo
  <2> QED BY <1>1, <1>2, <2>1 DEF xSemaphoreTake, Take, TimeOut, prios
<1>3. CASE MainNext \/ SwitchContext \/ Tick \/ UNCHANGED vars
  BY <1>1, <1>3 DEF MainNext, rtos_init, rtos_semaphore_init, rtos_mutex_init, rtos_timer_init,
                    rtos_scheduler_start, SwitchContext, Tick, vars, prios
<1>4. CASE CreationNext
  <2>1. ASSUME NEW c \in Contexts, xTaskCreateStatic(c) PROVE PriosUpTo(n)'
    BY <2>1 DEF xTaskCreateStatic, PriosUpTo
  <2> QED BY <1>1, <1>4, <2>1
          DEF CreationNext, TakeTaskNumber, StoreNextNumber, vTaskSetApplicationTaskTag,
              InitTaskSemaphore, prios
<1>5. CASE TaskNext
  <2> SUFFICES ASSUME NEW t \in Tasks,
             \/ rtos_task_change_self_priority(t) \/ rtos_task_delay(t) \/ rtos_task_semaphore_wait(t)
             \/ \E m \in Mutexes : rtos_mutex_lock(t, m) \/ rtos_mutex_unlock(t, m)
             \/ \E s \in Semaphores : rtos_semaphore_wait(t, s) \/ rtos_semaphore_wait_timeout(t, s)
             \/ SignalFromTask(t)
             \/ rtos_timer_start(t) \/ rtos_timer_stop(t) \/ StopReturns(t)
             \/ Retry(t)
               PROVE  PriosUpTo(n)'
    BY <1>5 DEF TaskNext
  <2>1. CASE rtos_task_change_self_priority(t)
    BY <2>1 DEF rtos_task_change_self_priority, PriosUpTo
  <2>2. CASE \E m \in Mutexes : rtos_mutex_unlock(t, m)
    BY <2>2 DEF rtos_mutex_unlock, PriosUpTo
  <2>3. CASE \/ rtos_task_delay(t) \/ rtos_timer_start(t) \/ rtos_timer_stop(t) \/ StopReturns(t)
             \/ SignalFromTask(t)
    BY <1>1, <2>3 DEF rtos_task_delay, rtos_timer_start, rtos_timer_stop, StopReturns, Send,
                      SignalFromTask, rtos_semaphore_signal, Signal, prios
  <2>4. CASE \/ rtos_task_semaphore_wait(t) \/ Retry(t) \/ \E m \in Mutexes : rtos_mutex_lock(t, m)
             \/ \E s \in Semaphores : rtos_semaphore_wait(t, s) \/ rtos_semaphore_wait_timeout(t, s)
    BY <1>2, <2>4 DEF rtos_task_semaphore_wait, Retry, rtos_mutex_lock, rtos_semaphore_wait,
                      rtos_semaphore_wait_timeout
  <2> QED BY <2>1, <2>2, <2>3, <2>4
<1>6. CASE TimerNext \/ IsrNext
  BY <1>1, <1>6
     DEF TimerNext, TimerExpires, TimerTaskWaits, TimerCommand, TimerCommandsDone,
         rtos_timer_internal_callback, IsrNext, Raise, Dispatch, rtos_enter_isr, HandlerBody,
         rtos_exit_isr, CheckSwitchRequired, portYIELD, ClearSwitchRequired, LeaveHandler, IsrFrame,
         rtos_semaphore_signal, Signal, prios
<1> QED BY <1>3, <1>4, <1>5, <1>6 DEF Next

-----------------------------------------------------------------------------
(* The timer *)

\* What the other steps leave as it is: the timer, and its task on the ready list,
\* which the start of the scheduler puts there.
TimerWaits ==
  /\ UNCHANGED timer /\ (TimerTask \in ready => TimerTask \in ready')
  /\ state' = "SCHED_STARTED" => state = "SCHED_STARTED" \/ TimerTask \in ready'

\* Only the timer's calls, its task and the passing of time touch the timer, and
\* only its own task takes itself off the ready list.
LEMMA TimerMoves ==
  ASSUME [Next]_vars
  PROVE  \/ TimerWaits
         \/ rtos_timer_init \/ Tick \/ TimerNext
         \/ \E t \in Tasks : rtos_timer_start(t) \/ rtos_timer_stop(t) \/ StopReturns(t)
<1>1. CASE MainNext \/ CreationNext \/ SwitchContext \/ UNCHANGED vars
  BY <1>1 DEF MainNext, rtos_init, rtos_semaphore_init, rtos_mutex_init, rtos_scheduler_start,
       CreationNext, TakeTaskNumber, StoreNextNumber,
       xTaskCreateStatic, vTaskSetApplicationTaskTag, InitTaskSemaphore, SwitchContext, vars,
       blocking, g_rtos, TimerWaits
<1>2. ASSUME NEW t \in Tasks, NEW o, NEW ticks, xSemaphoreTake(t, o, ticks)
      PROVE  TimerWaits
  BY <1>2, DifferentThings DEF xSemaphoreTake, Take, TimeOut, Block, blocking, g_rtos, TimerWaits
<1>3. CASE TaskNext
  <2> SUFFICES ASSUME NEW t \in Tasks,
             \/ rtos_task_change_self_priority(t) \/ rtos_task_delay(t) \/ rtos_task_semaphore_wait(t)
             \/ \E m \in Mutexes : rtos_mutex_lock(t, m) \/ rtos_mutex_unlock(t, m)
             \/ \E s \in Semaphores : rtos_semaphore_wait(t, s) \/ rtos_semaphore_wait_timeout(t, s)
             \/ SignalFromTask(t) \/ Retry(t)
               PROVE  TimerWaits
    BY <1>3 DEF TaskNext
  <2>1. CASE \/ rtos_task_change_self_priority(t) \/ rtos_task_delay(t) \/ SignalFromTask(t)
             \/ \E m \in Mutexes : rtos_mutex_unlock(t, m)
    BY <2>1, DifferentThings DEF rtos_task_change_self_priority, rtos_task_delay, SignalFromTask,
                                 rtos_semaphore_signal, Signal, rtos_mutex_unlock, Give, blocking,
                                 g_rtos, TimerWaits
  <2>2. CASE \/ rtos_task_semaphore_wait(t) \/ Retry(t) \/ \E m \in Mutexes : rtos_mutex_lock(t, m)
             \/ \E s \in Semaphores : rtos_semaphore_wait(t, s) \/ rtos_semaphore_wait_timeout(t, s)
    BY <1>2, <2>2 DEF rtos_task_semaphore_wait, Retry, rtos_mutex_lock, rtos_semaphore_wait,
                      rtos_semaphore_wait_timeout
  <2> QED BY <2>1, <2>2
<1>4. CASE IsrNext
  BY <1>4 DEF IsrNext, Raise, Dispatch, rtos_enter_isr, HandlerBody, rtos_exit_isr,
       CheckSwitchRequired, portYIELD, ClearSwitchRequired, LeaveHandler, IsrFrame,
       rtos_semaphore_signal, Signal, Give, blocking, g_rtos, TimerWaits
<1> QED BY <1>1, <1>3, <1>4 DEF Next

\* The first command leaves the queue; a periodic timer that has expired starts again.
LEMMA CommandTaken ==
  ASSUME TimerRanges, TimerCommand
  PROVE  /\ timer_queue' \in Seq(Inactive .. Period) /\ timer_left' \in Inactive .. Period
         /\ Len(timer_queue') <= Len(timer_queue)
         /\ Len(timer_queue) = 1 => timer_queue' = <<>> \/ Len(timer_queue') = 1
         /\ timer_queue = <<Inactive>> => timer_queue' = <<>> /\ timer_left' = Inactive
<1> DEFINE R == Inactive .. Period
<1>1. /\ timer_queue \in Seq(R) /\ timer_queue # <<>> /\ Len(timer_queue) \in Nat \ {0}
      /\ Head(timer_queue) \in R /\ Tail(timer_queue) \in Seq(R)
      /\ Len(Tail(timer_queue)) = Len(timer_queue) - 1
  <2>1. timer_queue \in Seq(R) /\ timer_queue # <<>>
    BY DEF TimerRanges, TimerCommand
  <2> HIDE DEF R
  <2> QED BY <2>1
<1>2. Len(timer_queue) = 1 => Tail(timer_queue) = <<>>
  <2> HIDE DEF R
  <2>1. Len(timer_queue) = 1 => Len(Tail(timer_queue)) = 0
    BY <1>1
  <2> QED BY <1>1, <2>1, EmptySeq
<1>3. Period \in Nat \ {0} /\ Inactive = -1
  BY TimerTicks DEF Inactive
<1>4. Inactive \in R /\ \A x \in 0 .. Period : <<x>> \in Seq(R)
  BY <1>3
<1>5. CASE Head(timer_queue) = Period
  <2>0. PICK older \in 0 .. Period :
          timer_queue' = Tail(timer_queue) \o (IF Periodic THEN <<older>> ELSE <<>>)
    BY <1>5 DEF TimerCommand
  <2>1. /\ timer_left' = Inactive
        /\ timer_queue' = Tail(timer_queue) \/ timer_queue' = Tail(timer_queue) \o <<older>>
        /\ timer_queue # <<Inactive>>
    <3>2. Tail(timer_queue) \o <<>> = Tail(timer_queue)
      BY <1>1
    <3> QED BY <1>3, <1>5, <2>0, <3>2 DEF TimerCommand
  <2> HIDE DEF R
  <2>2. /\ Tail(timer_queue) \o <<older>> \in Seq(R)
        /\ Len(Tail(timer_queue) \o <<older>>) = Len(timer_queue)
    BY <1>1, <1>4
  <2>3. timer_queue' \in Seq(R) /\ Len(timer_queue') <= Len(timer_queue)
    <3>1. CASE timer_queue' = Tail(timer_queue)
      BY <1>1, <3>1
    <3>2. CASE timer_queue' = Tail(timer_queue) \o <<older>>
      <4>1. timer_queue' \in Seq(R) /\ Len(timer_queue') = Len(timer_queue)
        BY <2>2, <3>2, Zenon
      <4> QED BY <1>1, <4>1
    <3> QED BY <2>1, <3>1, <3>2
  <2>4. Len(timer_queue) = 1 => timer_queue' = <<>> \/ Len(timer_queue') = 1
    BY <1>2, <2>1, <2>2
  <2> QED BY <1>4, <2>1, <2>3, <2>4 DEF R
<1>6. CASE Head(timer_queue) # Period
  <2>1. /\ timer_left' = (IF Head(timer_queue) = Inactive THEN Inactive ELSE Period - Head(timer_queue))
        /\ timer_queue' = Tail(timer_queue)
    BY <1>6 DEF TimerCommand
  <2>2. timer_left' \in R
    BY <1>1, <1>3, <2>1
  <2>3. Len(timer_queue') <= Len(timer_queue)
    BY <1>1, <2>1
  <2>4. timer_queue = <<Inactive>> => timer_queue' = <<>> /\ timer_left' = Inactive
    BY <1>2, <2>1
  <2> QED BY <1>1, <1>2, <2>1, <2>2, <2>3, <2>4
<1> QED BY <1>5, <1>6

\* A tick keeps the length of the queue, and what stops the timer.
LEMMA TickAges ==
  ASSUME TimerRanges, Tick
  PROVE  /\ timer_queue' \in Seq(Inactive .. Period) /\ timer_left' \in Inactive .. Period
         /\ timer_late' \in 0 .. Period /\ Len(timer_queue') = Len(timer_queue)
         /\ timer_queue = <<>> => timer_queue' = <<>>
         /\ timer_queue = <<Inactive>> => timer_queue' = <<Inactive>>
         /\ timer_left = Inactive => timer_left' = Inactive
<1> DEFINE R == Inactive .. Period
           Older(x) == IF x = Inactive THEN Inactive ELSE Min({x + 1, Period})
<1>1. Period \in Nat \ {0} /\ Inactive = -1
  BY TimerTicks DEF Inactive
<1>2. ASSUME NEW x \in R PROVE Older(x) \in R
  <2>1. x \in Int /\ x >= -1 /\ x <= Period
    BY <1>1
  <2>2. Min({x + 1, Period}) = IF x + 1 <= Period THEN x + 1 ELSE Period
    BY <1>1, <2>1, LeastOfTwo
  <2> QED BY <1>1, <2>1, <2>2
<1>3. timer_queue' = [i \in DOMAIN timer_queue |-> Older(timer_queue[i])]
  BY DEF Tick
<1>4. timer_left \in R /\ timer_left' = IF timer_left > 0 THEN timer_left - 1 ELSE timer_left
  BY DEF Tick, TimerRanges
<1>5. timer_left' \in R /\ (timer_left = Inactive => timer_left' = Inactive)
  BY <1>1, <1>4
<1>0. timer_late' \in 0 .. Period
  <2>1. timer_late \in Nat /\ timer_late <= Period
        /\ timer_late' = IF timer_left = 0 THEN Min({timer_late + 1, Period}) ELSE 0
    BY <1>1 DEF Tick, TimerRanges
  <2>2. Min({timer_late + 1, Period}) = IF timer_late + 1 <= Period THEN timer_late + 1 ELSE Period
    BY <1>1, <2>1, LeastOfTwo
  <2> QED BY <1>1, <2>1, <2>2
<1>6. timer_queue \in Seq(R) /\ Len(timer_queue) \in Nat /\ DOMAIN timer_queue = 1 .. Len(timer_queue)
  BY DEF TimerRanges
<1> HIDE DEF R, Older
<1>7. timer_queue' \in Seq(R) /\ Len(timer_queue') = Len(timer_queue)
      /\ \A i \in 1 .. Len(timer_queue) : timer_queue'[i] = Older(timer_queue[i])
  BY <1>2, <1>3, <1>6
<1>8. timer_queue = <<>> => timer_queue' = <<>>
  BY <1>6, <1>7
<1>9. timer_queue = <<Inactive>> => timer_queue' = <<Inactive>>
  <2> SUFFICES ASSUME timer_queue = <<Inactive>> PROVE timer_queue' = <<Inactive>>
    OBVIOUS
  <2>1. Len(timer_queue) = 1 /\ timer_queue[1] = Inactive /\ Older(Inactive) = Inactive
    BY DEF Older
  <2>2. Len(timer_queue') = 1 /\ timer_queue'[1] = Inactive
    BY <1>7, <2>1
  <2> QED BY <1>7, <2>2
<1> QED BY <1>0, <1>5, <1>7, <1>8, <1>9 DEF R

\* At reset the timer is inactive.
LEMMA TimerRangesInit ==
  ASSUME Init
  PROVE  TimerRanges
BY TimerTicks DEF Init, TimerRanges, Inactive

\* Every step keeps the timer's state in its ranges.
LEMMA TimerRangesStep ==
  ASSUME TimerRanges, [Next]_vars
  PROVE  TimerRanges'
<1>1. CASE TimerWaits \/ rtos_timer_init
  BY <1>1 DEF TimerRanges, timer, TimerWaits, rtos_timer_init
<1>2. CASE Tick
  <2>1. UNCHANGED <<timer_pc, timer_call>>
    BY <1>2 DEF Tick
  <2> QED BY <1>2, <2>1, TickAges DEF TimerRanges
<1>3. Period \in Nat \ {0} /\ Inactive = -1
  BY TimerTicks DEF Inactive
<1>4. ASSUME NEW t \in Tasks, rtos_timer_start(t) \/ rtos_timer_stop(t) \/ StopReturns(t)
      PROVE  TimerRanges'
  <2>1. 0 \in Inactive .. Period /\ Inactive \in Inactive .. Period
    BY <1>3
  <2>2. ASSUME NEW x \in Inactive .. Period, timer_queue' = Append(timer_queue, x)
        PROVE  timer_queue' \in Seq(Inactive .. Period)
    BY <2>2 DEF TimerRanges
  <2>3. /\ UNCHANGED <<timer_left, timer_late, timer_pc>>
        /\ timer_call' \in {"started", "stopping", "stopped", timer_call}
        /\ timer_queue' \in {timer_queue, Append(timer_queue, 0), Append(timer_queue, Inactive)}
    BY <1>4 DEF rtos_timer_start, rtos_timer_stop, StopReturns, Send
  <2> QED BY <2>1, <2>2, <2>3 DEF TimerRanges
<1>5. CASE TimerNext
  <2>1. timer_pc' \in {"expired", "commands"} /\ timer_call' = timer_call
    BY <1>5 DEF TimerNext, TimerExpires, TimerTaskWaits, TimerCommand, TimerCommandsDone,
                TimerTaskFrame, TimerRanges
  <2>2. CASE TimerCommand
    <3>1. timer_late' = 0 /\ 0 \in 0 .. Period
      BY <1>3, <2>2 DEF TimerCommand
    <3> QED BY <2>1, <2>2, <3>1, CommandTaken DEF TimerRanges
  <2>3. CASE TimerTaskWaits \/ TimerCommandsDone
    BY <2>1, <2>3 DEF TimerTaskWaits, TimerCommandsDone, TimerRanges
  <2>4. CASE TimerExpires
    <3>1. /\ timer_queue' \in {timer_queue, Append(timer_queue, Period)} /\ timer_late' = 0
          /\ timer_left' \in {Inactive, Period - timer_late}
      BY <2>4 DEF TimerExpires
    <3>2. timer_left' \in Inactive .. Period /\ Period \in Inactive .. Period /\ 0 \in 0 .. Period
      BY <1>3, <3>1 DEF TimerRanges
    <3>3. timer_queue' \in Seq(Inactive .. Period)
      BY <3>1, <3>2 DEF TimerRanges
    <3> QED BY <2>1, <3>1, <3>2, <3>3 DEF TimerRanges
  <2> QED BY <1>5, <2>2, <2>3, <2>4 DEF TimerNext
<1> QED BY <1>1, <1>2, <1>4, <1>5, TimerMoves

\* A task runs only when the timer task has executed all commands.
LEMMA CommandsAreDone ==
  ASSUME KernelInv, TimerInv, PriosUpTo(configTIMER_TASK_PRIORITY - 1),
         NEW t \in Tasks, Runs(t)
  PROVE  timer_queue = <<>> /\ timer_pc # "expired"
<1>1. t \in HighestOf(ready) /\ state = "SCHED_STARTED"
  BY Running, DifferentThings
<1>2. TimerTask \notin ready
  <2> SUFFICES ASSUME TimerTask \in ready PROVE FALSE
    OBVIOUS
  <2>1. PriorityOf(TimerTask) <= PriorityOf(t)
    BY <1>1 DEF HighestOf
  <2>2. PriorityOf(TimerTask) = 7 /\ PriorityOf(t) = prio[t] /\ prio[t] \in 0 .. 6
    BY DifferentThings DEF PriorityOf, PriosUpTo, configTIMER_TASK_PRIORITY, configMAX_PRIORITIES
  <2> QED BY <2>1, <2>2
<1> QED BY <1>1, <1>2 DEF TimerInv

\* Every step keeps TimerInv.
LEMMA TimerInvStep ==
  ASSUME KernelInv, TimerRanges, TimerInv, PriosUpTo(configTIMER_TASK_PRIORITY - 1),
         [Next]_vars
  PROVE  TimerInv'
<1>1. CASE TimerWaits
  BY <1>1 DEF TimerInv, TimerWaits, timer
<1>2. CASE rtos_timer_init
  BY <1>2 DEF TimerInv, rtos_timer_init, blocking, g_rtos
<1>3. CASE Tick
  <2>1. UNCHANGED <<timer_call, timer_pc, state>> /\ ready \subseteq ready'
    BY <1>3 DEF Tick, g_rtos
  <2>2. /\ Len(timer_queue') = Len(timer_queue)
        /\ timer_queue = <<>> => timer_queue' = <<>>
        /\ timer_queue = <<Inactive>> => timer_queue' = <<Inactive>>
        /\ timer_left = Inactive => timer_left' = Inactive
    BY <1>3, TickAges
  <2> QED BY <2>1, <2>2 DEF TimerInv
<1>4. ASSUME NEW t \in Tasks, rtos_timer_start(t) \/ rtos_timer_stop(t) PROVE TimerInv'
  <2>1. timer_queue = <<>> /\ timer_pc # "expired"
    BY <1>4, CommandsAreDone DEF rtos_timer_start, rtos_timer_stop, Calls
  <2>2. \/ timer_call' = "started" /\ timer_queue' = <<0>>
        \/ timer_call' = "stopping" /\ timer_queue' = <<Inactive>>
    BY <1>4, <2>1 DEF rtos_timer_start, rtos_timer_stop, Send
  <2>3. TimerTask \in ready' /\ timer_pc' = timer_pc
    BY <1>4 DEF rtos_timer_start, rtos_timer_stop, Send
  <2>4. Len(timer_queue') = 1
    BY <2>2
  <2> QED BY <2>1, <2>2, <2>3, <2>4 DEF TimerInv
<1>5. ASSUME NEW t \in Tasks, StopReturns(t) PROVE TimerInv'
  <2>1. timer_queue = <<>> /\ timer_pc # "expired"
    BY <1>5, CommandsAreDone DEF StopReturns
  <2>2. /\ UNCHANGED <<timer_queue, timer_left, timer_pc>>
        /\ timer_call' = IF timer_call = "stopping" THEN "stopped" ELSE timer_call
    BY <1>5 DEF StopReturns
  <2> QED BY <2>1, <2>2 DEF TimerInv
<1>6. CASE TimerNext
  <2>1. timer_call' = timer_call /\ TimerTask \in ready
    <3>1. Runs(TimerTask)
      BY <1>6 DEF TimerNext, TimerExpires, TimerTaskWaits, TimerCommand, TimerCommandsDone
    <3> QED BY <1>6, <3>1, Running, DifferentThings
            DEF TimerNext, TimerExpires, TimerTaskWaits, TimerCommand, TimerCommandsDone,
                TimerTaskFrame, HighestOf
  <2>2. CASE TimerExpires
    <3>1. /\ timer_left = 0 /\ timer_pc = "expired" /\ timer_pc' = "commands" /\ ready \subseteq ready'
          /\ timer_queue' \in {timer_queue, Append(timer_queue, Period)}
      BY <2>2 DEF TimerExpires, Signal, Give
    <3>2. timer_queue = <<>> /\ timer_left # Inactive
      BY <3>1 DEF TimerInv, Inactive
    <3>3. timer_queue' = <<>> \/ Len(timer_queue') = 1
      <4>1. Len(Append(timer_queue, Period)) = 1
        BY <3>2
      <4> QED BY <3>1, <3>2, <4>1
    <3> QED BY <2>1, <3>1, <3>2, <3>3 DEF TimerInv
  <2>3. CASE TimerTaskWaits \/ TimerCommandsDone
    <3>1. /\ UNCHANGED <<timer_queue, timer_left>> /\ (timer_queue # <<>> => ready' = ready)
          /\ timer_pc' = "expired" => timer_queue = <<>> /\ ready' = ready
      BY <2>3 DEF TimerTaskWaits, TimerCommandsDone, blocking
    <3> QED BY <2>1, <3>1 DEF TimerInv
  <2>4. CASE TimerCommand
    <3>1. ready \subseteq ready' /\ timer_queue # <<>> /\ timer_pc' = "commands"
      BY <2>4 DEF TimerCommand, rtos_timer_internal_callback, rtos_semaphore_signal, Signal, Give,
                  blocking
    <3>2. /\ Len(timer_queue) = 1 => timer_queue' = <<>> \/ Len(timer_queue') = 1
          /\ timer_queue = <<Inactive>> => timer_queue' = <<>> /\ timer_left' = Inactive
      BY <2>4, CommandTaken
    <3> QED BY <2>1, <3>1, <3>2 DEF TimerInv
  <2> QED BY <1>6, <2>2, <2>3, <2>4 DEF TimerNext
<1> QED BY <1>1, <1>2, <1>3, <1>4, <1>5, <1>6, TimerMoves

\* The timer at reset.
LEMMA TimerStateInit ==
  ASSUME Init
  PROVE  TimerRanges /\ TimerInv /\ PriosUpTo(configTIMER_TASK_PRIORITY - 1)
<1>1. configTIMER_TASK_PRIORITY - 1 = 6 /\ 6 \in Nat
  BY DEF configTIMER_TASK_PRIORITY, configMAX_PRIORITIES
<1>2. TimerInv
  BY DEF Init, TimerInv
<1>3. PriosUpTo(6)
  BY DEF Init, PriosUpTo
<1> QED BY <1>1, <1>2, <1>3, TimerRangesInit

\* Where no task has the timer task's priority, every step keeps what the timer needs.
LEMMA TimerStateStep ==
  ASSUME BelowTimer, KernelInv, TimerRanges, TimerInv, PriosUpTo(configTIMER_TASK_PRIORITY - 1),
         [Next]_vars
  PROVE  TimerRanges' /\ TimerInv' /\ PriosUpTo(configTIMER_TASK_PRIORITY - 1)'
<1>1. configTIMER_TASK_PRIORITY - 1 = 6 /\ 6 \in Nat
  BY DEF configTIMER_TASK_PRIORITY, configMAX_PRIORITIES
<1>2. \A t \in Tasks : Priority[t] \in 0 .. 6 /\ NewPriorities[t] \subseteq 0 .. 6
  BY Priorities DEF BelowTimer, configTIMER_TASK_PRIORITY, configMAX_PRIORITIES,
     LOWEST_APP_TASK_PRIORITY, HIGHEST_APP_TASK_PRIORITY
<1>3. PriosUpTo(6)'
  BY <1>1, <1>2, PriosStep
<1> QED BY <1>1, <1>3, TimerRangesStep, TimerInvStep

\* With one mutex, and where no task has the timer task's priority, the timer's
\* callback stays silent once rtos_timer_stop has returned, until a later
\* rtos_timer_start: the timer task executes each command before the caller goes on.
THEOREM TimerCorrect ==
  ASSUME OneMutex, BelowTimer
  PROVE  Spec => []StoppedTimerIsSilent
<1> DEFINE Inv == KernelInv /\ TimerRanges /\ TimerInv /\ PriosUpTo(configTIMER_TASK_PRIORITY - 1)
<1>1. Init => Inv
  BY KernelInit, TimerStateInit
<1>2. Inv /\ [Next]_vars => Inv'
  BY KernelStep, TimerStateStep
<1>3. Inv => StoppedTimerIsSilent
  BY DEF TimerInv, StoppedTimerIsSilent
<1> QED BY <1>1, <1>2, <1>3, PTL DEF Spec

-----------------------------------------------------------------------------
(* Assertions *)

SafetyInv ==
  /\ KernelInv /\ CreationInv
  /\ LevelsInv /\ ServedInv
  /\ NumbersInv /\ CountsInv
  /\ TimerRanges /\ TimerInv /\ PriosUpTo(configTIMER_TASK_PRIORITY - 1)

\* What is initialised before the scheduler starts can be used afterwards.
LEMMA StartedCounts ==
  ASSUME KernelInv, CountsInv, state = "SCHED_STARTED", NEW o \in Objects,
         o \in Early \cup Semaphores \cup Mutexes
  PROVE  ~(count[o] < 0)
<1>1. count[o] \in Int /\ count[o] >= 0
  BY DEF KernelInv, MutexInv, CountsInv
<1> QED BY <1>1

\* No call of xSemaphoreTake finds its semaphore without a handle.
LEMMA TakesSucceed ==
  ASSUME SafetyInv, NEW t \in Tasks,
         \/ rtos_task_semaphore_wait(t) \/ Retry(t) \/ \E m \in Mutexes : rtos_mutex_lock(t, m)
         \/ \E s \in Semaphores : rtos_semaphore_wait(t, s) \/ rtos_semaphore_wait_timeout(t, s)
  PROVE  ~failed'
<1>1. Runs(t) /\ state = "SCHED_STARTED"
  <2>1. Runs(t)
    BY DEF rtos_task_semaphore_wait, Retry, rtos_mutex_lock, rtos_semaphore_wait,
           rtos_semaphore_wait_timeout, Calls
  <2> QED BY <2>1, Running, DifferentThings DEF SafetyInv
<1>2. \A o \in Objects : count[o] \in Int
  BY DEF SafetyInv, KernelInv, MutexInv
<1>3. CASE rtos_task_semaphore_wait(t)
  <2>1. count[t] >= 0 /\ t \in Objects
    BY <1>1, RunningIsFinished DEF SafetyInv, Objects
  <2>2. failed' = (count[t] < 0)
    BY <1>3 DEF rtos_task_semaphore_wait, xSemaphoreTake
  <2>3. ~(count[t] < 0)
    BY <1>2, <2>1
  <2> QED BY <2>2, <2>3
<1>4. CASE Retry(t)
  <2>1. waits[t] \in Objects /\ count[waits[t]] >= 0 /\ failed' = (count[waits[t]] < 0)
    BY <1>4 DEF Retry, xSemaphoreTake, SafetyInv, CountsInv, KernelInv, TasksInv
  <2>2. ~(count[waits[t]] < 0)
    BY <1>2, <2>1
  <2> QED BY <2>1, <2>2
<1>5. ASSUME NEW o \in Semaphores \cup Mutexes, failed' = (count[o] < 0) PROVE ~failed'
  <2>1. o \in Objects
    BY DEF Objects
  <2> QED BY <1>1, <1>5, <2>1, StartedCounts DEF SafetyInv
<1> QED BY <1>3, <1>4, <1>5 DEF rtos_mutex_lock, rtos_semaphore_wait, rtos_semaphore_wait_timeout,
                                xSemaphoreTake

\* No step of an interrupt handler fails: its device asks for service, what it
\* signals is initialised, and each exit follows an entry.
LEMMA HandlersSucceed ==
  ASSUME SignalsAreEarly, SafetyInv, ~failed, IsrNext
  PROVE  ~failed'
<1>1. CASE HandlerBody
  <2>1. isr # <<>> /\ isr[1].at = "body" /\ 1 \in DOMAIN isr /\ state = "SCHED_STARTED"
    BY <1>1 DEF HandlerBody, InHandler, SafetyInv, KernelInv, HandlersInv, StartInv
  <2>2. isr[1].handler \in requested /\ isr[1].handler \in Interrupts
    BY <2>1 DEF SafetyInv, ServedInv
  <2>3. failed' = (count[SignalledBy[isr[1].handler]] < 0)
    BY <1>1, <2>2 DEF HandlerBody, rtos_semaphore_signal, Signal
  <2>4. SignalledBy[isr[1].handler] \in Objects
    BY <2>2, SignalsOfHandlers DEF Objects
  <2>5. SignalledBy[isr[1].handler] \in Early \cup Semaphores
    BY <2>2 DEF SignalsAreEarly
  <2> QED BY <2>1, <2>3, <2>4, <2>5, StartedCounts DEF SafetyInv
<1>2. CASE rtos_exit_isr
  BY <1>2, HandlerIsCounted DEF rtos_exit_isr, SafetyInv
<1> QED BY <1>1, <1>2 DEF IsrNext, Raise, Dispatch, rtos_enter_isr, CheckSwitchRequired, portYIELD,
                          ClearSwitchRequired, LeaveHandler

\* No assertion fails in a step.
LEMMA AssertionsStep ==
  ASSUME NumbersSuffice, SignalsAreEarly, NoEmptyDelay, SafetyInv, ~failed, [Next]_vars
  PROVE  ~failed'
<1>1. ASSUME NEW c \in Contexts, NEW t \in Tasks, TakeTaskNumber(c, t) PROVE ~failed'
  <2>1. failed' = (next_task_id >= INVALID_TASK_ID - 1)
    BY <1>1 DEF TakeTaskNumber
  <2>2. next_task_id \in Nat /\ next_task_id < Cardinality(Tasks)
    BY <1>1, NewHasNoNumber, NumberLeft DEF SafetyInv
  <2>3. ~(next_task_id >= INVALID_TASK_ID - 1)
    BY <2>2, NumberedIsFinite DEF NumbersSuffice
  <2> QED BY <2>1, <2>3
<1>2. CASE TaskNext
  <2>1. ASSUME NEW t \in Tasks, SignalFromTask(t) PROVE ~failed'
    <3>1. Runs(t) /\ state = "SCHED_STARTED"
      BY <2>1, Running, DifferentThings DEF SignalFromTask, Calls, SafetyInv
    <3>2. PICK o \in Semaphores \cup {u \in Tasks : tsk_state[u] = "tagged" /\ count[u] >= 0} :
            failed' = (count[o] < 0)
      BY <2>1 DEF SignalFromTask, rtos_semaphore_signal
    <3>3. o \in Objects /\ count[o] \in Int
      BY DEF Objects, SafetyInv, KernelInv, MutexInv
    <3>4. ~(count[o] < 0)
      BY <3>1, <3>2, <3>3, StartedCounts DEF SafetyInv
    <3> QED BY <3>2, <3>4
  <2>2. ASSUME NEW t \in Tasks, rtos_task_delay(t) PROVE ~failed'
    BY <2>2 DEF rtos_task_delay, NoEmptyDelay
  <2> QED BY <1>2, <2>1, <2>2, TakesSucceed
          DEF TaskNext, rtos_task_change_self_priority, rtos_mutex_unlock,
              rtos_timer_start, rtos_timer_stop, StopReturns, Send
<1>3. CASE TimerNext
  <2>1. Runs(TimerTask) /\ state = "SCHED_STARTED"
    BY <1>3, Running, DifferentThings
       DEF TimerNext, TimerExpires, TimerTaskWaits, TimerCommand, TimerCommandsDone, SafetyInv
  <2>2. ~(count[TimerSignals] < 0)
    <3>1. TimerSignals \in Objects
      BY SignalsOfHandlers DEF Objects
    <3> QED BY <2>1, <3>1, StartedCounts DEF SafetyInv, SignalsAreEarly
  <2>3. CASE TimerExpires
    <3>1. timer_queue = <<>>
      BY <2>3 DEF TimerExpires, SafetyInv, TimerInv
    <3>2. Len(timer_queue) # configTIMER_QUEUE_LENGTH
      BY <3>1 DEF configTIMER_QUEUE_LENGTH
    <3> QED BY <2>2, <2>3, <3>2 DEF TimerExpires
  <2>4. CASE TimerTaskWaits \/ TimerCommand \/ TimerCommandsDone
    BY <2>2, <2>4 DEF TimerTaskWaits, TimerCommand, TimerCommandsDone, rtos_timer_internal_callback,
                      rtos_semaphore_signal
  <2> QED BY <1>3, <2>3, <2>4 DEF TimerNext
<1>4. CASE MainNext \/ SwitchContext \/ Tick \/ UNCHANGED vars
  BY <1>4 DEF MainNext, rtos_init, rtos_semaphore_init, rtos_mutex_init, rtos_timer_init,
              rtos_scheduler_start, SwitchContext, Tick, vars
<1>5. ASSUME NEW c \in Contexts,
             \/ StoreNextNumber(c) \/ xTaskCreateStatic(c)
             \/ vTaskSetApplicationTaskTag(c) \/ InitTaskSemaphore(c)
      PROVE  ~failed'
  BY <1>5 DEF StoreNextNumber, xTaskCreateStatic, vTaskSetApplicationTaskTag, InitTaskSemaphore
<1> QED BY <1>1, <1>2, <1>3, <1>4, <1>5, HandlersSucceed DEF Next, CreationNext

\* With one mutex, enough numbers, a handler of its own for each interrupt in use,
\* semaphores for handlers and the timer that main initialises, delays of at least
\* a millisecond, every task below the timer task, and where a task creates only
\* tasks of lower priorities, no assertion of the wrapper or of a driver ever fails
\* and FATAL_ERROR is never called.
THEOREM AssertionsCorrect ==
  ASSUME OneMutex, ~CreatesAbove, NumbersSuffice, OwnHandlers, SignalsAreEarly, BelowTimer,
         NoEmptyDelay
  PROVE  Spec => []NoAssertionFails
<1> DEFINE Inv == SafetyInv /\ ~failed
<1>1. Init => Inv
  <2> SUFFICES ASSUME Init PROVE Inv
    OBVIOUS
  <2>1. LevelsInv /\ ServedInv
    BY DEF Init, LevelsInv, ServedInv
  <2>2. NumbersInv
    BY NumbersInit
  <2>3. CountsInv
    BY DEF Init, CountsInv
  <2>4. TimerRanges /\ TimerInv /\ PriosUpTo(configTIMER_TASK_PRIORITY - 1)
    BY TimerStateInit
  <2> QED BY <2>1, <2>2, <2>3, <2>4, KernelInit, CreationInit DEF Init, SafetyInv
<1>2. Inv /\ [Next]_vars => Inv'
  <2> SUFFICES ASSUME Inv, [Next]_vars PROVE Inv'
    OBVIOUS
  <2>1. KernelInv' /\ CreationInv'
    BY KernelStep, CreationStep DEF SafetyInv
  <2>2. LevelsInv' /\ ServedInv' /\ NumbersInv' /\ CountsInv'
    BY <2>1, LevelsStep, ServedStep, NumbersStep, CountsStep DEF SafetyInv
  <2>3. TimerRanges' /\ TimerInv' /\ PriosUpTo(configTIMER_TASK_PRIORITY - 1)'
    BY TimerStateStep DEF SafetyInv
  <2>4. ~failed'
    BY AssertionsStep
  <2> QED BY <2>1, <2>2, <2>3, <2>4 DEF SafetyInv
<1>3. Inv => NoAssertionFails
  BY DEF NoAssertionFails
<1> QED BY <1>1, <1>2, <1>3, PTL DEF Spec

-----------------------------------------------------------------------------
(* Types *)

\* The table has finitely many entries.
LEMMA TableIsFinite == IsFiniteSet(IRQn)
<1> DEFINE Others ==
             {"MCM", "FTFE", "Read_Collision", "LVD_LVW", "WDOG_EWM", "RNG", "UART0_LON", "CMT",
              "PDB", "USB", "USBDCD", "Reserved71", "MCG", "LPTMR", "SWI", "SDHC",
              "ENET_1588_Timer", "ENET_Transmit", "ENET_Receive", "ENET_Error"}
<1>1. \A x, y : IsFiniteSet({x, y})
  <2> SUFFICES ASSUME NEW x, NEW y PROVE IsFiniteSet({x, y})
    OBVIOUS
  <2>1. {x, y} = {x} \cup {y}
    OBVIOUS
  <2>2. IsFiniteSet({x} \cup {y})
    BY FS_Singleton, FS_Union
  <2> QED BY <2>1, <2>2, Zenon
<1>2. \A x : IsFiniteSet({x})
  BY FS_Singleton
<1>3. \A a, b, c, d : IsFiniteSet({a, b, c, d})
  <2> SUFFICES ASSUME NEW a, NEW b, NEW c, NEW d PROVE IsFiniteSet({a, b, c, d})
    OBVIOUS
  <2>1. {a, b, c, d} = {a, b} \cup {c, d}
    OBVIOUS
  <2>2. IsFiniteSet({a, b} \cup {c, d})
    BY <1>1, FS_Union
  <2> QED BY <2>1, <2>2, Zenon
<1>4. \A a, b, c, d, e, f : IsFiniteSet({a, b, c, d, e, f}) /\ IsFiniteSet({a, b, c, d, e})
  <2> SUFFICES ASSUME NEW a, NEW b, NEW c, NEW d, NEW e, NEW f
               PROVE  IsFiniteSet({a, b, c, d, e, f}) /\ IsFiniteSet({a, b, c, d, e})
    OBVIOUS
  <2>1. {a, b, c, d, e, f} = {a, b, c, d} \cup {e, f} /\ {a, b, c, d, e} = {a, b, c, d} \cup {e}
    OBVIOUS
  <2>2. IsFiniteSet({a, b, c, d} \cup {e, f}) /\ IsFiniteSet({a, b, c, d} \cup {e})
    BY <1>1, <1>2, <1>3, FS_Union
  <2> QED BY <2>1, <2>2, Zenon
<1>5. IsFiniteSet(Others)
  <2>1. Others = {"MCM", "FTFE", "Read_Collision", "LVD_LVW"}
                   \cup {"WDOG_EWM", "RNG", "UART0_LON", "CMT"}
                   \cup {"PDB", "USB", "USBDCD", "Reserved71"} \cup {"MCG", "LPTMR", "SWI", "SDHC"}
                   \cup {"ENET_1588_Timer", "ENET_Transmit", "ENET_Receive", "ENET_Error"}
    OBVIOUS
  <2> HIDE DEF Others
  <2> QED BY <1>3, <2>1, FS_Union
<1>6. \A n \in Nat : IsFiniteSet(0 .. n)
  BY FS_Interval
<1>7. IsFiniteSet(DriverInterrupts)
  BY <1>2, <1>3, <1>4, <1>6, FS_Product, FS_Union DEF DriverInterrupts
<1>8. IsFiniteSet(UnusedInterrupts)
  <2>1. UnusedInterrupts =
          (Others \X {0}) \cup ({"SPI", "CMP"} \X (0 .. 2)) \cup ({"I2S_Tx", "I2S_Rx"} \X {0})
            \cup ({"UART_ERR"} \X (0 .. 5)) \cup ({"ADC", "DAC"} \X (0 .. 1))
            \cup ({"FTM", "PIT"} \X (0 .. 3))
            \cup ({"CAN_Message", "CAN_Bus_Off", "CAN_Error", "CAN_Tx_Warning", "CAN_Rx_Warning",
                   "CAN_Wake_Up"} \X {0})
    BY DEF UnusedInterrupts
  <2> HIDE DEF Others
  <2> QED BY <1>2, <1>1, <1>4, <1>5, <1>6, <2>1, FS_Product, FS_Union
<1> QED BY <1>2, <1>7, <1>8, FS_Union DEF IRQn

\* The active handlers have different levels: there are no more than interrupts.
LEMMA DepthBounded ==
  ASSUME KernelInv, LevelsInv
  PROVE  nested_ISR_count \in 0 .. Cardinality(Interrupts)
<1> DEFINE place(k) == Len(isr) + 1 - k
           f == [k \in Counted |-> CHOOSE irq \in Interrupts : InterruptLevel[irq] = isr[place(k)].level]
<1>1. isr \in Seq(ActiveHandler) /\ Len(isr) \in Nat /\ DOMAIN isr = 1 .. Len(isr)
  BY DEF KernelInv, HandlersInv
<1>2. \A k \in Counted : k \in Nat /\ place(k) \in Nat /\ place(k) \in DOMAIN isr
  BY <1>1 DEF Counted
<1>3. \A k \in Counted : f[k] \in Interrupts /\ InterruptLevel[f[k]] = isr[place(k)].level
  <2> SUFFICES ASSUME NEW k \in Counted
               PROVE  f[k] \in Interrupts /\ InterruptLevel[f[k]] = isr[place(k)].level
    OBVIOUS
  <2>1. \E irq \in Interrupts : InterruptLevel[irq] = isr[place(k)].level
    BY <1>2 DEF LevelsInv
  <2> QED BY <2>1
<1>4. ASSUME NEW k \in Counted, NEW j \in Counted, f[k] = f[j] PROVE k = j
  <2>1. isr[place(k)].level = isr[place(j)].level
    BY <1>3, <1>4
  <2>2. isr[place(k)].level \in Nat
    BY <1>2, LevelIsNumber
  <2>3. ~(place(k) < place(j)) /\ ~(place(j) < place(k))
    <3> HIDE DEF place
    <3> QED BY <1>2, <2>1, <2>2 DEF LevelsInv
  <2> QED BY <1>1, <1>2, <2>3
<1>5. f \in Injection(Counted, Interrupts)
  <2>1. f \in [Counted -> Interrupts]
    BY <1>3
  <2> HIDE DEF f
  <2> QED BY <1>4, <2>1 DEF Injection, IsInjective
<1>6. IsFiniteSet(Interrupts)
  BY InterruptsOfTheTable, TableIsFinite, FS_Subset
<1>7. IsFiniteSet(Counted) /\ Cardinality(Counted) <= Cardinality(Interrupts)
  <2> HIDE DEF f
  <2> QED BY <1>5, <1>6, FS_Injection
<1> QED BY <1>6, <1>7, FS_CardinalityType DEF KernelInv, HandlersInv

\* The ticks that a wait has left are those that a call may ask for.
LEMMA LeftStep ==
  ASSUME left \in [Tasks -> portMAX_DELAY .. MaxTicks], [Next]_vars
  PROVE  left' \in [Tasks -> portMAX_DELAY .. MaxTicks]
<1> DEFINE R == portMAX_DELAY .. MaxTicks
           InR == left' \in [Tasks -> R]
<1>1. MaxTicks \in Nat /\ portMAX_DELAY = -1
  BY Timeouts DEF portMAX_DELAY
<1>2. CASE left' = left
  BY <1>2
<1>3. ASSUME NEW t \in Tasks, NEW n \in R, left' = [left EXCEPT ![t] = n] PROVE InR
  BY <1>3
<1>4. ASSUME NEW t \in Tasks, NEW o, NEW ticks \in R, xSemaphoreTake(t, o, ticks) PROVE InR
  <2>1. 0 \in R
    BY <1>1
  <2> QED BY <1>2, <1>3, <1>4, <2>1 DEF xSemaphoreTake, Take, TimeOut, Block, blocking
<1>5. 0 \in R /\ portMAX_DELAY \in R /\ \A n \in 0 .. MaxTicks : n \in R
  BY <1>1
<1>6. CASE TaskNext
  <2> SUFFICES ASSUME NEW t \in Tasks,
             \/ rtos_task_change_self_priority(t) \/ rtos_task_delay(t) \/ rtos_task_semaphore_wait(t)
             \/ \E m \in Mutexes : rtos_mutex_lock(t, m) \/ rtos_mutex_unlock(t, m)
             \/ \E s \in Semaphores : rtos_semaphore_wait(t, s) \/ rtos_semaphore_wait_timeout(t, s)
             \/ SignalFromTask(t)
             \/ rtos_timer_start(t) \/ rtos_timer_stop(t) \/ StopReturns(t)
             \/ Retry(t)
               PROVE  InR
    BY <1>6 DEF TaskNext
  <2>1. CASE rtos_task_delay(t)
    <3>1. PICK ms \in Delays : \E ticks \in 0 .. ms : left' = [left EXCEPT ![t] = ticks]
      BY <2>1 DEF rtos_task_delay
    <3>2. PICK ticks \in 0 .. ms : left' = [left EXCEPT ![t] = ticks]
      BY <3>1
    <3>3. ticks \in R
      BY <1>1, Timeouts
    <3> QED BY <1>3, <3>2, <3>3
  <2>2. CASE \/ rtos_task_change_self_priority(t) \/ rtos_timer_start(t) \/ rtos_timer_stop(t)
             \/ StopReturns(t) \/ SignalFromTask(t) \/ \E m \in Mutexes : rtos_mutex_unlock(t, m)
    BY <1>2, <2>2 DEF rtos_task_change_self_priority, rtos_timer_start, rtos_timer_stop,
                      StopReturns,
       Send, SignalFromTask, rtos_semaphore_signal, Signal, rtos_mutex_unlock, Give, blocking
  <2>3. CASE \/ rtos_task_semaphore_wait(t) \/ Retry(t) \/ \E m \in Mutexes : rtos_mutex_lock(t, m)
             \/ \E s \in Semaphores : rtos_semaphore_wait(t, s) \/ rtos_semaphore_wait_timeout(t, s)
    BY <1>4, <1>5, <2>3 DEF rtos_task_semaphore_wait, Retry, rtos_mutex_lock, rtos_semaphore_wait,
       rtos_semaphore_wait_timeout
  <2> QED BY <2>1, <2>2, <2>3
<1>7. CASE Tick
  <2>1. left' = [t \in Tasks |-> IF left[t] > 0 THEN left[t] - 1 ELSE left[t]]
    BY <1>7 DEF Tick
  <2>2. \A t \in Tasks : (IF left[t] > 0 THEN left[t] - 1 ELSE left[t]) \in R
    BY <1>1
  <2> QED BY <2>1, <2>2
<1>8. CASE MainNext \/ CreationNext \/ SwitchContext \/ UNCHANGED vars
  BY <1>2, <1>8
     DEF MainNext, rtos_init, rtos_semaphore_init, rtos_mutex_init, rtos_timer_init,
         rtos_scheduler_start, CreationNext, TakeTaskNumber, StoreNextNumber,
       xTaskCreateStatic, vTaskSetApplicationTaskTag,
         InitTaskSemaphore, SwitchContext, vars, blocking
<1>9. CASE TimerNext \/ IsrNext
  BY <1>2, <1>9
     DEF TimerNext, TimerExpires, TimerTaskWaits, TimerCommand, TimerCommandsDone,
         rtos_timer_internal_callback, IsrNext, Raise, Dispatch, rtos_enter_isr, HandlerBody,
         rtos_exit_isr, CheckSwitchRequired, portYIELD, ClearSwitchRequired, LeaveHandler,
         rtos_semaphore_signal, Signal, Give, blocking
<1> QED BY <1>6, <1>7, <1>8, <1>9 DEF Next

\* Every step keeps OtherRanges.
LEMMA OtherRangesStep ==
  ASSUME NumbersSuffice, KernelInv, KernelInv', NumbersInv, TimerRanges, OtherRanges, [Next]_vars
  PROVE  OtherRanges'
<1>1. left' \in [Tasks -> portMAX_DELAY .. MaxTicks]
  BY LeftStep DEF OtherRanges
<1>2. \A o \in Objects : count'[o] >= -1
  <2> SUFFICES ASSUME NEW o \in Objects PROVE count'[o] >= -1
    OBVIOUS
  <2>1. count[o] \in Int /\ count'[o] \in Int /\ count[o] >= -1
    BY DEF KernelInv, MutexInv, OtherRanges
  <2>2. count'[o] >= 0 \/ count'[o] >= count[o]
    BY CountStays
  <2> QED BY <2>1, <2>2
<1>3. Len(timer_queue') <= configTIMER_QUEUE_LENGTH
  <2>0. timer_queue \in Seq(Inactive .. Period) /\ Len(timer_queue) \in Nat
        /\ Len(timer_queue) <= configTIMER_QUEUE_LENGTH /\ configTIMER_QUEUE_LENGTH \in Nat
    BY DEF TimerRanges, OtherRanges, configTIMER_QUEUE_LENGTH
  <2>1. CASE timer_queue' = timer_queue
    BY <2>0, <2>1
  <2>2. CASE Len(timer_queue') <= Len(timer_queue) /\ Len(timer_queue') \in Nat
    BY <2>0, <2>2
  <2>3. CASE Tick \/ TimerCommand
    <3>1. timer_queue' \in Seq(Inactive .. Period) /\ Len(timer_queue') <= Len(timer_queue)
      BY <2>0, <2>3, TickAges, CommandTaken
    <3> QED BY <2>2, <3>1
  <2>4. ASSUME NEW t \in Tasks, rtos_timer_start(t) \/ rtos_timer_stop(t)
        PROVE  Len(timer_queue') <= configTIMER_QUEUE_LENGTH
    <3>1. PICK x \in {0, Inactive} : Send(x)
      BY <2>4 DEF rtos_timer_start, rtos_timer_stop
    <3>2. Len(timer_queue) < configTIMER_QUEUE_LENGTH /\ timer_queue' = Append(timer_queue, x)
      BY <3>1 DEF Send
    <3>3. Len(Append(timer_queue, x)) = Len(timer_queue) + 1
      BY <2>0
    <3> QED BY <2>0, <3>2, <3>3
  <2>5. CASE TimerExpires
    <3>1. \/ timer_queue' = timer_queue
          \/ /\ Len(timer_queue) # configTIMER_QUEUE_LENGTH
             /\ timer_queue' = Append(timer_queue, Period)
      BY <2>5 DEF TimerExpires
    <3>2. Len(Append(timer_queue, Period)) = Len(timer_queue) + 1
      BY <2>0
    <3> QED BY <2>0, <3>1, <3>2
  <2> QED BY <2>1, <2>3, <2>4, <2>5, TimerMoves
          DEF rtos_timer_init, timer, TimerWaits, StopReturns, TimerNext, TimerTaskWaits,
              TimerCommandsDone
<1>4. failed' \in BOOLEAN
  <2>1. CASE failed' = failed
    BY <2>1 DEF OtherRanges
  <2>2. \A x \in BOOLEAN : failed' = x => failed' \in BOOLEAN
    OBVIOUS
  <2>3. ASSUME NEW t, NEW o, NEW ticks, xSemaphoreTake(t, o, ticks) PROVE failed' \in BOOLEAN
    <3>1. failed' = (count[o] < 0)
      BY <2>3, Zenon DEF xSemaphoreTake
    <3>2. (count[o] < 0) \in BOOLEAN
      OBVIOUS
    <3> QED BY <2>2, <3>1, <3>2, Zenon
  <2>4. ASSUME NEW o, rtos_semaphore_signal(o) PROVE failed' \in BOOLEAN
    <3>1. failed' = (count[o] < 0)
      BY <2>4, Zenon DEF rtos_semaphore_signal
    <3>2. (count[o] < 0) \in BOOLEAN
      OBVIOUS
    <3> QED BY <2>2, <3>1, <3>2, Zenon
  <2>5. ASSUME NEW c, NEW t, TakeTaskNumber(c, t) PROVE failed' \in BOOLEAN
    <3>1. failed' = (next_task_id >= INVALID_TASK_ID - 1)
      BY <2>5, Zenon DEF TakeTaskNumber
    <3>2. (next_task_id >= INVALID_TASK_ID - 1) \in BOOLEAN
      OBVIOUS
    <3> QED BY <2>2, <3>1, <3>2, Zenon
  <2>6. CASE rtos_exit_isr
    <3>1. (nested_ISR_count = 0) \in BOOLEAN /\ failed' = (nested_ISR_count = 0)
      BY <2>6, Zenon DEF rtos_exit_isr
    <3> QED BY <2>2, <3>1, Zenon
  <2>10. ASSUME NEW t, rtos_task_delay(t) PROVE failed' \in BOOLEAN
    <3>1. PICK ms \in Delays : failed' = (ms = 0)
      BY <2>10, Zenon DEF rtos_task_delay
    <3> QED BY <2>2, <3>1, Zenon
  <2>11. CASE TimerExpires
    <3> DEFINE fails == \/ count[TimerSignals] < 0
                        \/ /\ Periodic /\ timer_late = Period
                           /\ Len(timer_queue) = configTIMER_QUEUE_LENGTH
    <3>1. failed' = fails
      BY <2>11, Zenon DEF TimerExpires
    <3>2. fails \in BOOLEAN
      OBVIOUS
    <3> QED BY <2>2, <3>1, <3>2, Zenon
  <2>7. CASE MainNext \/ CreationNext \/ SwitchContext \/ Tick \/ UNCHANGED vars
    BY <2>1, <2>5, <2>7
       DEF MainNext, rtos_init, rtos_semaphore_init, rtos_mutex_init, rtos_timer_init,
           rtos_scheduler_start, CreationNext, StoreNextNumber, xTaskCreateStatic,
           vTaskSetApplicationTaskTag, InitTaskSemaphore,
           SwitchContext, Tick, vars
  <2>8. CASE TaskNext
    BY <2>1, <2>3, <2>4, <2>8, <2>10
       DEF TaskNext, rtos_task_change_self_priority, rtos_task_semaphore_wait,
           rtos_mutex_lock, rtos_mutex_unlock, rtos_semaphore_wait, rtos_semaphore_wait_timeout,
           SignalFromTask, rtos_timer_start, rtos_timer_stop, StopReturns, Send, Retry
  <2>9. CASE TimerNext \/ IsrNext
    BY <2>1, <2>4, <2>6, <2>9, <2>11
       DEF TimerNext, TimerTaskWaits, TimerCommand, TimerCommandsDone,
           rtos_timer_internal_callback, IsrNext, Raise, Dispatch, rtos_enter_isr, HandlerBody,
           CheckSwitchRequired, portYIELD, ClearSwitchRequired, LeaveHandler
  <2> QED BY <2>7, <2>8, <2>9 DEF Next
<1>5. /\ state' \in {"NOT_INITIALIZED", "INITIALIZED", "SCHED_STARTED"}
      /\ tsk_id' \in [Tasks -> 0 .. INVALID_TASK_ID]
      /\ current' \in Contexts \cup {Idle, TimerTask}
  <2>1. CASE UNCHANGED <<state, tsk_id, current>>
    BY <2>1 DEF OtherRanges
  <2>2. CASE MainNext
    <3>1. rtos_scheduler_start => current' \in Contexts \cup {Idle, TimerTask}
      BY DEF rtos_scheduler_start, HighestOf, KernelInv, TasksInv, Contexts
    <3> QED BY <2>1, <2>2, <3>1
            DEF MainNext, rtos_init, rtos_semaphore_init, rtos_mutex_init, rtos_timer_init,
                rtos_scheduler_start, OtherRanges, tcb, sched, g_rtos
  <2>3. ASSUME NEW c \in Contexts, NEW t \in Tasks, TakeTaskNumber(c, t)
        PROVE  /\ UNCHANGED <<state, current>> /\ tsk_id' \in [Tasks -> 0 .. INVALID_TASK_ID]
    <3>1. next_task_id \in 0 .. INVALID_TASK_ID
      BY NumberedIsFinite DEF NumbersInv, NumbersSuffice
    <3> QED BY <2>3, <3>1 DEF TakeTaskNumber, OtherRanges, sched, g_rtos
  <2>4. CASE CreationNext
    BY <2>1, <2>3, <2>4
       DEF CreationNext, StoreNextNumber, xTaskCreateStatic, vTaskSetApplicationTaskTag,
           InitTaskSemaphore, OtherRanges, tcb, sched, g_rtos
  <2>5. CASE SwitchContext
    BY <2>5 DEF SwitchContext, HighestOf, KernelInv, TasksInv, Contexts, OtherRanges, tcb, g_rtos
  <2>6. CASE Tick \/ UNCHANGED vars
    BY <2>1, <2>6 DEF Tick, vars, tcb, sched, g_rtos
  <2>7. CASE TaskNext
    BY <2>1, <2>7
       DEF TaskNext, rtos_task_change_self_priority, rtos_task_delay, rtos_task_semaphore_wait,
           rtos_mutex_lock, rtos_mutex_unlock, rtos_semaphore_wait, rtos_semaphore_wait_timeout,
           SignalFromTask, rtos_semaphore_signal, Signal, rtos_timer_start, rtos_timer_stop,
           StopReturns,
           Send, Retry, xSemaphoreTake, tcb, sched, g_rtos
  <2>8. CASE TimerNext \/ IsrNext
    BY <2>1, <2>8
       DEF TimerNext, TimerExpires, TimerTaskWaits, TimerCommand, TimerCommandsDone,
           TimerTaskFrame, rtos_timer_internal_callback, IsrNext, Raise, Dispatch, rtos_enter_isr,
           HandlerBody, rtos_exit_isr, CheckSwitchRequired, portYIELD, ClearSwitchRequired,
           LeaveHandler, IsrFrame, rtos_semaphore_signal, Signal, tcb, sched, g_rtos
  <2> QED BY <2>2, <2>4, <2>5, <2>6, <2>7, <2>8 DEF Next
<1> QED BY <1>1, <1>2, <1>3, <1>4, <1>5 DEF OtherRanges

\* With one mutex and a number for each task, the variables keep their types: the
\* nesting counter does not exceed the number of interrupts, each number given to
\* a task is below INVALID_TASK_ID, and the timer's queue never overflows.
THEOREM TypeCorrect ==
  ASSUME OneMutex, NumbersSuffice
  PROVE  Spec => []TypeOK
<1> DEFINE Inv == /\ KernelInv /\ LevelsInv /\ NumbersInv
                  /\ TimerRanges /\ OtherRanges /\ PriosUpTo(HIGHEST_APP_TASK_PRIORITY)
<1>1. HIGHEST_APP_TASK_PRIORITY = 7 /\ 7 \in Nat /\ LOWEST_APP_TASK_PRIORITY = 1
  BY DEF HIGHEST_APP_TASK_PRIORITY, LOWEST_APP_TASK_PRIORITY, configMAX_PRIORITIES
<1>2. \A t \in Tasks : Priority[t] \in 0 .. 7 /\ NewPriorities[t] \subseteq 0 .. 7
  BY <1>1, Priorities
<1>3. Init => Inv
  <2> SUFFICES ASSUME Init PROVE Inv
    OBVIOUS
  <2>1. LevelsInv
    BY DEF Init, LevelsInv
  <2>2. NumbersInv
    BY NumbersInit
  <2>3. TimerRanges
    BY TimerRangesInit
  <2>4. PriosUpTo(7)
    BY DEF Init, PriosUpTo
  <2>5. OtherRanges
    <3>1. /\ tsk_id \in [Tasks -> 0 .. INVALID_TASK_ID]
          /\ left \in [Tasks -> portMAX_DELAY .. MaxTicks]
      BY Timeouts DEF Init, NumbersSuffice, portMAX_DELAY
    <3>2. Len(timer_queue) <= configTIMER_QUEUE_LENGTH
      BY DEF Init, configTIMER_QUEUE_LENGTH
    <3>3. \A o \in Objects : count[o] >= -1
      BY DEF Init
    <3> QED BY <3>1, <3>2, <3>3 DEF Init, OtherRanges, Contexts
  <2> QED BY <1>1, <2>1, <2>2, <2>3, <2>4, <2>5, KernelInit
<1>4. Inv /\ [Next]_vars => Inv'
  <2> SUFFICES ASSUME Inv, [Next]_vars PROVE Inv'
    OBVIOUS
  <2>1. KernelInv'
    BY KernelStep
  <2>2. LevelsInv' /\ NumbersInv' /\ TimerRanges'
    BY LevelsStep, NumbersStep, TimerRangesStep
  <2>3. OtherRanges'
    BY <2>1, OtherRangesStep
  <2>4. PriosUpTo(7)'
    BY <1>1, <1>2, PriosStep
  <2>5. PriosUpTo(HIGHEST_APP_TASK_PRIORITY)'
    BY <1>1, <2>4
  <2> QED BY <2>1, <2>2, <2>3, <2>5
<1>5. Inv => TypeOK
  <2> SUFFICES ASSUME Inv PROVE TypeOK
    OBVIOUS
  <2>1. nested_ISR_count \in 0 .. Cardinality(Interrupts)
    BY DepthBounded
  <2>2. next_task_id \in 0 .. INVALID_TASK_ID - 1
    BY NumberedIsFinite DEF NumbersInv, NumbersSuffice
  <2>3. prio \in [Tasks -> 0 .. HIGHEST_APP_TASK_PRIORITY]
        /\ base \in [Tasks -> 0 .. HIGHEST_APP_TASK_PRIORITY]
    BY DEF PriosUpTo
  <2>4. /\ task_context_switch_required \in BOOLEAN /\ pendsv \in BOOLEAN
        /\ tsk_state \in [Tasks -> {"none", "created", "tagged"}]
        /\ ready \subseteq Tasks \cup {Idle, TimerTask}
        /\ waits \in [Tasks -> Objects \cup {None}] /\ requested \subseteq Interrupts
        /\ count \in [Objects -> Int] /\ owner \in [Mutexes -> Tasks \cup {None}]
        /\ pc \in [Contexts -> {"app", "number", "create", "tag", "semaphore", "sent"}]
        /\ creating \in [Contexts -> Tasks \cup {None}]
    BY DEF KernelInv, HandlersInv, TasksInv, MutexInv
  <2>5. isr \in Seq([handler : IRQn \cup {unexpected_irq_handler}, level : Nat,
                     at : {"entry", "body", "exit", "check", "yield", "clear", "leave"}])
    BY DEF KernelInv, HandlersInv, ActiveHandler
  <2> QED BY <2>1, <2>2, <2>3, <2>4, <2>5 DEF TypeOK, TimerRanges, OtherRanges
<1> QED BY <1>3, <1>4, <1>5, PTL DEF Spec

=============================================================================
