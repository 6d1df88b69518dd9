---------------------------- MODULE RtosWrapper ----------------------------
(***************************************************************************)
(* The C wrapper of FreeRTOS that the Ada package RTOS.API imports: tasks, *)
(* semaphores, mutexes, one software timer, and the entry and exit of      *)
(* interrupt handlers, on top of the part of the kernel that they use.     *)
(*                                                                         *)
(* A call of the kernel runs in a critical section and is one action; the  *)
(* statements of a wrapper function between two such calls, and between    *)
(* two accesses of g_rtos, are actions of their own, so that interrupts    *)
(* come, and nest, at every point where the code lets them.  A context     *)
(* switch is the exception PendSV, which waits until no handler is active. *)
(* Time is the number of ticks that a wait has left.                       *)
(***************************************************************************)
EXTENDS InterruptVectors, Sequences, FiniteSetsExt

CONSTANTS
  Tasks,            \* the application's tasks
  Early,            \* those that main creates before it starts the scheduler
  Priority,         \* the priority each task is created with
  NewPriorities,    \* the priorities each task may change to
  CreatesAbove,     \* whether a task may create one that does not have a lower priority
  Semaphores,       \* the semaphores besides the one in each task
  InitialCount,     \* the count each of them is initialised with
  Mutexes,
  Interrupts,       \* the interrupts in use, a subset of IRQn
  InterruptLevel,   \* of two interrupts, the one of the greater level nests in the other
  SignalledBy,      \* the semaphore that the driver of each interrupt signals
  TimerSignals,     \* the semaphore that the timer's callback signals
  Period,           \* of the timer, in ticks
  Periodic,         \* whether the timer starts again by itself
  MaxTicks,         \* bound: the longest timeout or delay of a call
  Delays,           \* the milliseconds, and ticks, that tasks ask to be delayed
  INVALID_TASK_ID,
  Main, Idle, TimerTask, None

configMAX_PRIORITIES       == 8
\* Mutant: the timer task's priority as configured for RISC-V.
RiscvTimerTaskPriority == 2

configTIMER_TASK_PRIORITY  == configMAX_PRIORITIES - 1
configTIMER_QUEUE_LENGTH   == 10
LOWEST_APP_TASK_PRIORITY   == 1
HIGHEST_APP_TASK_PRIORITY  == configMAX_PRIORITIES - 1

Objects       == Tasks \cup Semaphores \cup Mutexes   \* a task stands for its tsk_semaphore
Contexts      == Tasks \cup {Main}
portMAX_DELAY == -1
Inactive      == -1

ASSUME Priorities ==
  /\ Priority \in [Tasks -> LOWEST_APP_TASK_PRIORITY .. HIGHEST_APP_TASK_PRIORITY]
  /\ \A t \in Tasks :
       NewPriorities[t] \subseteq LOWEST_APP_TASK_PRIORITY .. HIGHEST_APP_TASK_PRIORITY
ASSUME InterruptsOfTheTable ==
  Interrupts \subseteq IRQn /\ InterruptLevel \in [Interrupts -> Nat]
ASSUME TimerTicks == Period \in Nat \ {0}   \* rtos_timer_init asserts it
ASSUME Timeouts == MaxTicks \in Nat /\ Delays \subseteq 0 .. MaxTicks
ASSUME FiniteTasks == IsFiniteSet(Tasks)
ASSUME DifferentThings ==
  /\ Main \notin Tasks \cup {Idle, TimerTask}
  /\ Idle \notin Tasks \cup {TimerTask} /\ TimerTask \notin Tasks
  /\ None \notin Objects \cup {Main, Idle, TimerTask}
  /\ Mutexes \cap (Tasks \cup Semaphores) = {}
ASSUME InitialCounts == InitialCount \in [Semaphores -> Nat]
ASSUME SignalsOfHandlers ==
  /\ SignalledBy \in [Interrupts -> Tasks \cup Semaphores]
  /\ TimerSignals \in Tasks \cup Semaphores

VARIABLES
  state, nested_ISR_count, next_task_id, task_context_switch_required,  \* g_rtos
  tsk_id, tsk_state,   \* of each task: its number; "none", "created" or "tagged"
  current, pendsv,     \* kernel: the running task; whether a context switch is pending
  ready,               \* kernel: the tasks that are not blocked
  prio, base,          \* kernel: the priority of each task, and that without inheritance
  waits, left,         \* kernel: what a task's call waits for, and how many ticks it has left
  count, owner,        \* kernel: the count of each semaphore and mutex, or -1; a mutex's holder
  timer_left,          \* the ticks the active timer has left, or Inactive
  timer_late,          \* the ticks since it expired, Period for more, while none is left
  timer_queue,         \* the commands sent to the timer task: the age of a start, or Inactive
  timer_pc,            \* where the timer task's loop is
  timer_call,          \* history: the last call of rtos_timer_start or rtos_timer_stop
  requested,           \* hardware: the interrupts whose device asks for service
  isr,                 \* the active interrupt handlers, the innermost first
  pc, creating,        \* where each task is, and which task it is creating
  failed               \* an assertion failed, or FATAL_ERROR was called

g_rtos   == <<state, nested_ISR_count, next_task_id, task_context_switch_required>>
tcb      == <<tsk_id, tsk_state>>
sched    == <<current, pendsv>>
prios    == <<prio, base>>
blocking == <<ready, waits, left>>
sync     == <<count, owner>>
timer    == <<timer_left, timer_late, timer_queue, timer_pc, timer_call>>
hardware == <<requested, isr>>
program  == <<pc, creating>>
vars     == <<g_rtos, tcb, sched, prios, blocking, sync, timer, hardware, program, failed>>

TypeOK ==
  /\ state \in {"NOT_INITIALIZED", "INITIALIZED", "SCHED_STARTED"}
  /\ nested_ISR_count \in 0 .. Cardinality(Interrupts)
  /\ next_task_id \in 0 .. INVALID_TASK_ID - 1
  /\ task_context_switch_required \in BOOLEAN
  /\ tsk_id \in [Tasks -> 0 .. INVALID_TASK_ID]
  /\ tsk_state \in [Tasks -> {"none", "created", "tagged"}]
  /\ current \in Contexts \cup {Idle, TimerTask}
  /\ pendsv \in BOOLEAN
  /\ ready \subseteq Tasks \cup {Idle, TimerTask}
  /\ prio \in [Tasks -> 0 .. HIGHEST_APP_TASK_PRIORITY]
  /\ base \in [Tasks -> 0 .. HIGHEST_APP_TASK_PRIORITY]
  /\ waits \in [Tasks -> Objects \cup {None}]
  /\ left \in [Tasks -> portMAX_DELAY .. MaxTicks]
  /\ count \in [Objects -> Int] /\ \A o \in Objects : count[o] >= -1
  /\ owner \in [Mutexes -> Tasks \cup {None}]
  /\ timer_left \in Inactive .. Period /\ timer_late \in 0 .. Period
  /\ timer_queue \in Seq(Inactive .. Period) /\ Len(timer_queue) <= configTIMER_QUEUE_LENGTH
  /\ timer_pc \in {"expired", "commands"}
  /\ timer_call \in {"uninitialized", "none", "started", "stopping", "stopped"}
  /\ requested \subseteq Interrupts
  /\ isr \in Seq([handler : IRQn \cup {unexpected_irq_handler}, level : Nat,
                  at : {"entry", "body", "exit", "check", "yield", "clear", "leave"}])
  /\ pc \in [Contexts -> {"app", "number", "create", "tag", "semaphore", "sent"}]
  /\ creating \in [Contexts -> Tasks \cup {None}]
  /\ failed \in BOOLEAN

Init ==
  /\ state = "NOT_INITIALIZED" /\ nested_ISR_count = 0
  /\ next_task_id = 0 /\ task_context_switch_required = FALSE
  /\ tsk_id = [t \in Tasks |-> INVALID_TASK_ID] /\ tsk_state = [t \in Tasks |-> "none"]
  /\ current = Main /\ pendsv = FALSE
  /\ ready = {}
  /\ prio = [t \in Tasks |-> 0] /\ base = [t \in Tasks |-> 0]
  /\ waits = [t \in Tasks |-> None] /\ left = [t \in Tasks |-> 0]
  /\ count = [o \in Objects |-> -1] /\ owner = [m \in Mutexes |-> None]
  /\ timer_left = Inactive /\ timer_late = 0 /\ timer_queue = <<>> /\ timer_pc = "expired"
  /\ timer_call = "uninitialized"
  /\ requested = {} /\ isr = <<>>
  /\ pc = [c \in Contexts |-> "app"] /\ creating = [c \in Contexts |-> None]
  /\ failed = FALSE

rtos_initialized       == state # "NOT_INITIALIZED"
rtos_scheduler_started == state = "SCHED_STARTED"

-----------------------------------------------------------------------------
(* The kernel *)

PriorityOf(t) == IF t \in Tasks THEN prio[t]
                 ELSE IF t = TimerTask THEN configTIMER_TASK_PRIORITY ELSE 0

HighestOf(S) == {t \in S : \A u \in S : PriorityOf(u) <= PriorityOf(t)}

\* The exception PendSV: the kernel switches to a task of the highest priority.
SwitchContext ==
  /\ ~failed /\ isr = <<>> /\ pendsv
  /\ pendsv' = FALSE
  /\ current' \in HighestOf(ready)
  /\ UNCHANGED <<g_rtos, tcb, prios, blocking, sync, timer, hardware, program, failed>>

\* SysTick: waits and delays run out, and tasks of equal priority take turns.
Expiring == {t \in Tasks \ ready : left[t] = 1}

Tick ==
  /\ ~failed /\ rtos_scheduler_started /\ isr = <<>>
  /\ left' = [t \in Tasks |-> IF left[t] > 0 THEN left[t] - 1 ELSE left[t]]
  /\ timer_left' = IF timer_left > 0 THEN timer_left - 1 ELSE timer_left
  /\ timer_late' = IF timer_left = 0 THEN Min({timer_late + 1, Period}) ELSE 0
  /\ timer_queue' = [i \in DOMAIN timer_queue |->
                       IF timer_queue[i] = Inactive THEN Inactive
                       ELSE Min({timer_queue[i] + 1, Period})]
  /\ ready' = ready \cup Expiring \cup (IF timer_left = 1 THEN {TimerTask} ELSE {})
  /\ pendsv' = (pendsv \/ \E t \in ready' \ {current} : PriorityOf(t) >= PriorityOf(current))
  /\ UNCHANGED <<g_rtos, tcb, current, prios, waits, sync, timer_pc, timer_call,
                 hardware, program, failed>>

\* Thread code runs when no handler is active and no switch is pending.
Runs(c) == ~failed /\ current = c /\ isr = <<>> /\ ~pendsv

\* A task is in its own code: in no call of the kernel and in no wrapper function.
Calls(c) == Runs(c) /\ pc[c] = "app" /\ (c \in Tasks => waits[c] = None)

\* Mutant: a give does not look for a waiter.
WakesNobody(o) == {None}

\* The tasks blocked on an object, and the one that a give wakes.
Waiters(o) == {t \in Tasks \ ready : waits[t] = o}
Limit(o)   == IF o \in Semaphores THEN Max({1, InitialCount[o]}) ELSE 1
Wakes(o)   == IF count[o] < Limit(o) /\ Waiters(o) # {} THEN HighestOf(Waiters(o)) ELSE {None}

\* The count of a semaphore that is full stays as it is.
Give(o, w) ==
  /\ count' = [count EXCEPT ![o] = Min({@ + 1, Limit(o)})]
  /\ ready' = ready \cup ({w} \ {None})
  /\ UNCHANGED <<waits, left>>

Preempts(w) == w # None /\ PriorityOf(w) > PriorityOf(current)

\* A task takes what it waits for, gives up, or leaves the ready list; it tries
\* again each time it is made ready.
Take(t, o) ==
  /\ count' = [count EXCEPT ![o] = @ - 1]
  /\ owner' = IF o \in Mutexes THEN [owner EXCEPT ![o] = t] ELSE owner
  /\ waits' = [waits EXCEPT ![t] = None] /\ left' = [left EXCEPT ![t] = 0]
  /\ UNCHANGED <<ready, prios, pendsv>>

TimeOut(t) ==
  /\ waits' = [waits EXCEPT ![t] = None]
  /\ UNCHANGED <<ready, left, prios, sync, pendsv>>

\* Mutant: the holder keeps its priority.
InheritsNothing(t, o) == UNCHANGED prio

\* The holder of a mutex inherits the priority of a task that blocks on it.
Inherit(t, o) ==
  LET heir == {h \in Tasks : o \in Mutexes /\ owner[o] = h /\ prio[h] < prio[t]}
  IN  prio' = [u \in Tasks |-> IF u \in heir THEN prio[t] ELSE prio[u]]

Block(t, o, ticks) ==
  /\ ready' = ready \ {t} /\ pendsv' = TRUE
  /\ waits' = [waits EXCEPT ![t] = o] /\ left' = [left EXCEPT ![t] = ticks]
  /\ Inherit(t, o)
  /\ UNCHANGED <<sync, base>>

xSemaphoreTake(t, o, ticks) ==
  /\ CASE count[o] > 0               -> Take(t, o)
       [] count[o] = 0 /\ ticks = 0  -> TimeOut(t)
       [] count[o] = 0 /\ ticks # 0  -> Block(t, o, ticks)
       [] OTHER                      -> UNCHANGED <<blocking, prios, sync, pendsv>>
  /\ failed' = (count[o] < 0)
  /\ UNCHANGED <<g_rtos, tcb, current, timer, hardware, program>>

Retry(t) ==
  /\ Runs(t) /\ waits[t] # None
  /\ xSemaphoreTake(t, waits[t], left[t])

-----------------------------------------------------------------------------
(* Initialisation.  Main initialises the objects before it starts the scheduler. *)

SettingUp == Calls(Main) /\ state = "INITIALIZED"

rtos_init ==
  /\ Calls(Main) /\ ~rtos_initialized
  /\ state' = "INITIALIZED"
  /\ UNCHANGED <<nested_ISR_count, next_task_id, task_context_switch_required, tcb, sched,
                 prios, blocking, sync, timer, hardware, program, failed>>

\* A semaphore of initial count 0 is binary, another's initial count is its limit.
SemaphoreInit(o, initial_count) ==
  /\ count' = [count EXCEPT ![o] = initial_count]
  /\ UNCHANGED owner

rtos_semaphore_init(s) ==
  /\ SettingUp /\ count[s] = -1
  /\ SemaphoreInit(s, InitialCount[s])
  /\ UNCHANGED <<g_rtos, tcb, sched, prios, blocking, timer, hardware, program, failed>>

rtos_mutex_init(m) ==
  /\ SettingUp /\ count[m] = -1
  /\ count' = [count EXCEPT ![m] = 1]
  /\ UNCHANGED <<g_rtos, tcb, sched, prios, blocking, owner, timer, hardware, program, failed>>

rtos_timer_init ==
  /\ SettingUp /\ timer_call = "uninitialized"
  /\ timer_call' = "none"
  /\ UNCHANGED <<g_rtos, tcb, sched, prios, blocking, sync, timer_left, timer_late, timer_queue,
                 timer_pc, hardware, program, failed>>

rtos_scheduler_start ==
  /\ SettingUp /\ timer_call # "uninitialized"
  /\ \A o \in Early \cup Semaphores \cup Mutexes : count[o] >= 0
  /\ state' = "SCHED_STARTED"
  /\ ready' = ready \cup {Idle, TimerTask}
  /\ current' \in HighestOf(ready')
  /\ UNCHANGED <<nested_ISR_count, next_task_id, task_context_switch_required, tcb, pendsv,
                 prios, waits, left, sync, timer, hardware, program, failed>>

\* rtos_task_init asserts that a number is left, reads it, ...
TakeTaskNumber(c, t) ==
  /\ Calls(c) /\ tsk_state[t] = "none" /\ \A d \in Contexts : creating[d] # t
  /\ IF c = Main THEN SettingUp /\ t \in Early
     ELSE t \notin Early /\ (CreatesAbove \/ prio[c] > Priority[t])
  /\ failed' = (next_task_id >= INVALID_TASK_ID - 1)
  /\ tsk_id' = [tsk_id EXCEPT ![t] = next_task_id]
  /\ pc' = [pc EXCEPT ![c] = "number"] /\ creating' = [creating EXCEPT ![c] = t]
  /\ UNCHANGED <<g_rtos, tsk_state, sched, prios, blocking, sync, timer, hardware>>

\* ... stores the next one, ...
StoreNextNumber(c) ==
  /\ Runs(c) /\ pc[c] = "number"
  /\ next_task_id' = tsk_id[creating[c]] + 1
  /\ pc' = [pc EXCEPT ![c] = "create"]
  /\ UNCHANGED <<state, nested_ISR_count, task_context_switch_required, tcb, sched, prios,
                 blocking, sync, timer, hardware, creating, failed>>

\* ... and creates the task, which may now run.
xTaskCreateStatic(c) ==
  /\ Runs(c) /\ pc[c] = "create"
  /\ LET t == creating[c]
     IN  /\ tsk_state' = [tsk_state EXCEPT ![t] = "created"]
         /\ prio' = [prio EXCEPT ![t] = Priority[t]] /\ base' = [base EXCEPT ![t] = Priority[t]]
         /\ ready' = ready \cup {t}
         /\ pendsv' = (c # Main /\ Priority[t] > PriorityOf(current))
  /\ pc' = [pc EXCEPT ![c] = "tag"]
  /\ UNCHANGED <<g_rtos, tsk_id, current, waits, left, sync, timer, hardware, creating, failed>>

vTaskSetApplicationTaskTag(c) ==
  /\ Runs(c) /\ pc[c] = "tag"
  /\ tsk_state' = [tsk_state EXCEPT ![creating[c]] = "tagged"]
  /\ pc' = [pc EXCEPT ![c] = "semaphore"]
  /\ UNCHANGED <<g_rtos, tsk_id, sched, prios, blocking, sync, timer, hardware, creating, failed>>

InitTaskSemaphore(c) ==
  /\ Runs(c) /\ pc[c] = "semaphore"
  /\ SemaphoreInit(creating[c], 0)
  /\ pc' = [pc EXCEPT ![c] = "app"] /\ creating' = [creating EXCEPT ![c] = None]
  /\ UNCHANGED <<g_rtos, tcb, sched, prios, blocking, timer, hardware, failed>>

-----------------------------------------------------------------------------
(* Tasks *)

\* Mutant: without the case of an exception handler.
SelfIdOfTask ==
  IF current \in Tasks /\ tsk_state[current] = "tagged" THEN {tsk_id[current]}
  ELSE 0 .. INVALID_TASK_ID

\* The number that a call of rtos_task_self_id may return: the tag of a task that
\* has none yet, and of the kernel's own tasks, is the null pointer.
rtos_task_self_id ==
  IF nested_ISR_count # 0 THEN {INVALID_TASK_ID}
  ELSE IF current \in Tasks /\ tsk_state[current] = "tagged" THEN {tsk_id[current]}
  ELSE 0 .. INVALID_TASK_ID

\* A priority that the task has inherited stays, and so does the higher one of waiters
\* when the holder of a mutex lowers its own.
rtos_task_change_self_priority(t) ==
  /\ Calls(t)
  /\ \E new \in NewPriorities[t] \ {base[t]} :
       /\ prio' = IF prio[t] = base[t] THEN [prio EXCEPT ![t] = new] ELSE prio
       /\ base' = [base EXCEPT ![t] = new]
       /\ pendsv' = (new < base[t])
  /\ UNCHANGED <<g_rtos, tcb, current, blocking, sync, timer, hardware, program, failed>>

\* rtos_task_delay, and rtos_task_delay_until: of the ticks asked for, those to the
\* wake time.  Both assert that it is not 0 milliseconds.
rtos_task_delay(t) ==
  /\ Calls(t)
  /\ \E ms \in Delays : \E ticks \in 0 .. ms :
       /\ failed' = (ms = 0)
       /\ ready' = IF ticks = 0 THEN ready ELSE ready \ {t}
       /\ left' = [left EXCEPT ![t] = ticks]
  /\ pendsv' = TRUE
  /\ UNCHANGED <<g_rtos, tcb, current, prios, waits, sync, timer, hardware, program>>

\* The current task's tag must be its rtos_task.
rtos_task_semaphore_wait(t) ==
  /\ Calls(t) /\ tsk_state[t] = "tagged"
  /\ xSemaphoreTake(t, t, portMAX_DELAY)

rtos_mutex_is_mine(t, m) == owner[m] = t

rtos_mutex_lock(t, m) ==
  /\ Calls(t) /\ ~rtos_mutex_is_mine(t, m)
  /\ xSemaphoreTake(t, m, portMAX_DELAY)

\* The priority goes back when the task holds no other mutex.
rtos_mutex_unlock(t, m) ==
  /\ Calls(t) /\ rtos_mutex_is_mine(t, m)
  /\ owner' = [owner EXCEPT ![m] = None]
  /\ prio' = IF \E n \in Mutexes \ {m} : owner[n] = t THEN prio
             ELSE [prio EXCEPT ![t] = base[t]]
  /\ \E w \in Wakes(m) : Give(m, w)
                         /\ pendsv' = IF w = None THEN prio' # prio ELSE prio[w] > prio'[t]
  /\ UNCHANGED <<g_rtos, tcb, current, base, timer, hardware, program, failed>>

rtos_semaphore_wait(t, s) ==
  /\ Calls(t)
  /\ xSemaphoreTake(t, s, portMAX_DELAY)

rtos_semaphore_wait_timeout(t, s) ==
  /\ Calls(t)
  /\ \E ticks \in 0 .. MaxTicks : xSemaphoreTake(t, s, ticks)

rtos_semaphore_get_count(o) == count[o]

\* A signal from a handler leaves the switch to rtos_exit_isr.
Signal(o) ==
  /\ \E w \in Wakes(o) :
       /\ Give(o, w)
       /\ IF nested_ISR_count = 0
          THEN pendsv' = Preempts(w) /\ UNCHANGED task_context_switch_required
          ELSE /\ task_context_switch_required' = (task_context_switch_required \/ Preempts(w))
               /\ UNCHANGED pendsv
  /\ UNCHANGED <<state, nested_ISR_count, next_task_id, prios, owner>>

rtos_semaphore_signal(o) == Signal(o) /\ failed' = (count[o] < 0)

\* A task's own semaphore is signalled once rtos_task_init is done with the task.
SignalFromTask(t) ==
  /\ Calls(t)
  /\ \E o \in Semaphores \cup {u \in Tasks : tsk_state[u] = "tagged" /\ count[u] >= 0} :
       rtos_semaphore_signal(o)
  /\ UNCHANGED <<tcb, current, timer, hardware, program>>

-----------------------------------------------------------------------------
(* The timer.  A command goes to the timer task through a queue.           *)

Send(command) ==
  /\ Len(timer_queue) < configTIMER_QUEUE_LENGTH
  /\ timer_queue' = Append(timer_queue, command)
  /\ ready' = ready \cup {TimerTask}
  /\ pendsv' = (TimerTask \notin ready /\ Preempts(TimerTask))
  /\ UNCHANGED <<g_rtos, tcb, current, prios, waits, left, sync, timer_left, timer_late,
                 timer_pc, hardware, creating, failed>>

rtos_timer_start(t) ==
  /\ Calls(t)
  /\ Send(0)
  /\ timer_call' = "started"
  /\ UNCHANGED pc

rtos_timer_stop(t) ==
  /\ Calls(t)
  /\ Send(Inactive)
  /\ timer_call' = "stopping"
  /\ pc' = [pc EXCEPT ![t] = "sent"]

StopReturns(t) ==
  /\ Runs(t) /\ pc[t] = "sent"
  /\ pc' = [pc EXCEPT ![t] = "app"]
  /\ timer_call' = IF timer_call = "stopping" THEN "stopped" ELSE timer_call
  /\ UNCHANGED <<g_rtos, tcb, sched, prios, blocking, sync, timer_left, timer_late, timer_queue,
                 timer_pc, hardware, creating, failed>>

\* The callback signals a semaphore.
rtos_timer_internal_callback == rtos_semaphore_signal(TimerSignals)

\* The timer task runs the callback of an expired timer, or waits for a command.
TimerTaskFrame == UNCHANGED <<tcb, current, hardware, program, timer_call>>

\* A periodic timer expires again one period later.  When that time is past too, the
\* task sends itself a start as old as the expiry, and asserts that it could.
TimerExpires ==
  /\ Runs(TimerTask) /\ timer_pc = "expired" /\ timer_left = 0
  /\ LET overdue == Periodic /\ timer_late = Period
         full    == Len(timer_queue) = configTIMER_QUEUE_LENGTH
     IN  /\ timer_left' = IF Periodic /\ ~overdue THEN Period - timer_late ELSE Inactive
         /\ timer_queue' = IF overdue /\ ~full THEN Append(timer_queue, Period) ELSE timer_queue
         /\ failed' = (count[TimerSignals] < 0 \/ (overdue /\ full))
  /\ Signal(TimerSignals)
  /\ timer_late' = 0 /\ timer_pc' = "commands"
  /\ TimerTaskFrame

TimerTaskWaits ==
  /\ Runs(TimerTask) /\ timer_pc = "expired" /\ timer_left # 0
  /\ ready' = IF timer_queue = <<>> THEN ready \ {TimerTask} ELSE ready
  /\ pendsv' = (timer_queue = <<>>)
  /\ timer_pc' = "commands"
  /\ UNCHANGED <<g_rtos, prios, waits, left, sync, timer_left, timer_late, timer_queue, failed>>
  /\ TimerTaskFrame

\* A start that is a whole period old has expired already, and a periodic timer starts
\* again as of then: by how much it was older is not in the model.
TimerCommand ==
  /\ Runs(TimerTask) /\ timer_pc = "commands" /\ timer_queue # <<>>
  /\ LET age == Head(timer_queue)
     IN  IF age = Period
         THEN /\ rtos_timer_internal_callback
              /\ \E older \in 0 .. Period :
                   timer_queue' = Tail(timer_queue) \o (IF Periodic THEN <<older>> ELSE <<>>)
              /\ timer_left' = Inactive
         ELSE /\ timer_left' = IF age = Inactive THEN Inactive ELSE Period - age
              /\ timer_queue' = Tail(timer_queue)
              /\ UNCHANGED <<g_rtos, prios, blocking, sync, pendsv, failed>>
  /\ timer_late' = 0
  /\ UNCHANGED timer_pc /\ TimerTaskFrame

TimerCommandsDone ==
  /\ Runs(TimerTask) /\ timer_pc = "commands" /\ timer_queue = <<>>
  /\ timer_pc' = "expired"
  /\ UNCHANGED <<g_rtos, prios, blocking, sync, pendsv, timer_left, timer_late, timer_queue, failed>>
  /\ TimerTaskFrame

-----------------------------------------------------------------------------
(* Interrupts.  They are masked until the scheduler starts.                *)

Raise(irq) ==
  /\ ~failed /\ rtos_scheduler_started /\ irq \notin requested
  /\ requested' = requested \cup {irq}
  /\ UNCHANGED <<g_rtos, tcb, sched, prios, blocking, sync, timer, isr, program, failed>>

\* The processor takes a request that may nest in what it does.
Dispatch(irq) ==
  /\ ~failed /\ irq \in requested
  /\ isr # <<>> => InterruptLevel[irq] > isr[1].level
  /\ isr' = <<[handler |-> g_interrupt_vector_table[irq], level |-> InterruptLevel[irq],
               at |-> "entry"]>> \o isr
  /\ UNCHANGED <<g_rtos, tcb, sched, prios, blocking, sync, timer, requested, program, failed>>

InHandler(at) == ~failed /\ isr # <<>> /\ isr[1].at = at
GoTo(at)      == isr' = [isr EXCEPT ![1].at = at]
IsrFrame      == UNCHANGED <<tcb, current, prios, timer, program>>

rtos_enter_isr ==
  /\ InHandler("entry")
  /\ nested_ISR_count' = nested_ISR_count + 1
  /\ GoTo("body")
  /\ UNCHANGED <<state, next_task_id, task_context_switch_required, pendsv, blocking, sync,
                 requested, failed>>
  /\ IsrFrame

\* A driver's handler asserts that its device asks for service, clears the request
\* and signals; the handler of an unexpected interrupt has no device.
HandlerBody ==
  /\ InHandler("body")
  /\ LET irq == isr[1].handler
     IN  IF irq \in requested
         THEN rtos_semaphore_signal(SignalledBy[irq]) /\ requested' = requested \ {irq}
         ELSE failed' = TRUE /\ UNCHANGED <<g_rtos, blocking, sync, prios, pendsv, requested>>
  /\ GoTo("exit")
  /\ IsrFrame

\* Mutant: the flag is cleared although an outer handler is still active.
ExitClearsFlag ==
  /\ InHandler("exit")
  /\ failed' = (nested_ISR_count = 0)
  /\ nested_ISR_count' = nested_ISR_count - 1
  /\ GoTo(IF nested_ISR_count = 1 THEN "check" ELSE "clear")
  /\ UNCHANGED <<state, next_task_id, task_context_switch_required, pendsv, blocking, sync,
                 requested>>
  /\ IsrFrame

\* Mutant: the counter is not decremented.
ExitKeepsCount ==
  /\ InHandler("exit")
  /\ failed' = (nested_ISR_count = 0)
  /\ GoTo(IF nested_ISR_count = 1 THEN "check" ELSE "leave")
  /\ UNCHANGED <<g_rtos, pendsv, blocking, sync, requested>>
  /\ IsrFrame

\* rtos_exit_isr, in its steps: the counter, the flag, the switch, the flag.
rtos_exit_isr ==
  /\ InHandler("exit")
  /\ failed' = (nested_ISR_count = 0)
  /\ nested_ISR_count' = nested_ISR_count - 1
  /\ GoTo(IF nested_ISR_count = 1 THEN "check" ELSE "leave")
  /\ UNCHANGED <<state, next_task_id, task_context_switch_required, pendsv, blocking, sync,
                 requested>>
  /\ IsrFrame

CheckSwitchRequired ==
  /\ InHandler("check")
  /\ GoTo(IF task_context_switch_required THEN "yield" ELSE "leave")
  /\ UNCHANGED <<g_rtos, pendsv, blocking, sync, requested, failed>>
  /\ IsrFrame

portYIELD ==
  /\ InHandler("yield")
  /\ pendsv' = TRUE
  /\ GoTo("clear")
  /\ UNCHANGED <<g_rtos, blocking, sync, requested, failed>>
  /\ IsrFrame

ClearSwitchRequired ==
  /\ InHandler("clear")
  /\ task_context_switch_required' = FALSE
  /\ GoTo("leave")
  /\ UNCHANGED <<state, nested_ISR_count, next_task_id, pendsv, blocking, sync, requested, failed>>
  /\ IsrFrame

LeaveHandler ==
  /\ InHandler("leave")
  /\ isr' = Tail(isr)
  /\ UNCHANGED <<g_rtos, pendsv, blocking, sync, requested, failed>>
  /\ IsrFrame

-----------------------------------------------------------------------------

MainNext ==
  \/ rtos_init
  \/ \E s \in Semaphores : rtos_semaphore_init(s)
  \/ \E m \in Mutexes : rtos_mutex_init(m)
  \/ rtos_timer_init
  \/ rtos_scheduler_start

CreationNext ==
  \E c \in Contexts :
    \/ \E t \in Tasks : TakeTaskNumber(c, t)
    \/ StoreNextNumber(c)
    \/ xTaskCreateStatic(c)
    \/ vTaskSetApplicationTaskTag(c)
    \/ InitTaskSemaphore(c)

TaskNext ==
  \E t \in Tasks :
    \/ rtos_task_change_self_priority(t) \/ rtos_task_delay(t) \/ rtos_task_semaphore_wait(t)
    \/ \E m \in Mutexes : rtos_mutex_lock(t, m) \/ rtos_mutex_unlock(t, m)
    \/ \E s \in Semaphores : rtos_semaphore_wait(t, s) \/ rtos_semaphore_wait_timeout(t, s)
    \/ SignalFromTask(t)
    \/ rtos_timer_start(t) \/ rtos_timer_stop(t) \/ StopReturns(t)
    \/ Retry(t)

TimerNext == TimerExpires \/ TimerTaskWaits \/ TimerCommand \/ TimerCommandsDone

IsrNext ==
  \/ \E irq \in Interrupts : Raise(irq) \/ Dispatch(irq)
  \/ rtos_enter_isr \/ HandlerBody \/ rtos_exit_isr \/ CheckSwitchRequired
  \/ portYIELD \/ ClearSwitchRequired \/ LeaveHandler

Next == MainNext \/ CreationNext \/ TaskNext \/ TimerNext \/ IsrNext \/ SwitchContext \/ Tick

Spec == Init /\ [][Next]_vars

-----------------------------------------------------------------------------
(* Properties *)

\* No assertion of the wrapper or of a driver fails and FATAL_ERROR is not called:
\* of the interrupts in use, however they nest, each finds its request pending
\* when its handler runs.  It is stated of interrupts that have a handler of their
\* own in the table; the one of I2C2 would fail it.
NoAssertionFails == ~failed

\* Once the handlers have returned and the pending switch is made, the running
\* task has the highest priority of the ready ones: a signal from a handler,
\* however deep it is nested, is never left without its switch.
HighestPriorityRuns ==
  rtos_scheduler_started /\ isr = <<>> /\ ~pendsv => current \in HighestOf(ready)

\* rtos_task_self_id returns the caller's own number to a task and
\* INVALID_TASK_ID to an interrupt handler.
KnowsItself ==
  /\ \A t \in Tasks : Calls(t) => rtos_task_self_id = {tsk_id[t]}
  /\ InHandler("body") => rtos_task_self_id = {INVALID_TASK_ID}

\* While a task is blocked on a semaphore or mutex, each unit of its count has a
\* woken task that will try to take it: no wake-up is lost.
NoWakeUpLost ==
  \A o \in Objects :
    Waiters(o) # {} =>
      rtos_semaphore_get_count(o) <= Cardinality({t \in Tasks \cap ready : waits[t] = o})

\* A task waits for a mutex whose holder has a lower priority.
Inverted(m, w) == w \in Waiters(m) /\ \E h \in Tasks : owner[m] = h /\ prio[h] < prio[w]

\* Nothing that happens to a mutex, no wait, release, wake-up, creation or change of
\* another task, puts its holder below a task that waits for it: only the holder
\* does, when it lowers its own priority with rtos_task_change_self_priority.  It is
\* stated of one mutex: a waiter that itself holds another one may inherit.
NoPriorityInversion ==
  [][\A m \in Mutexes, w \in Tasks :
       Inverted(m, w)' => \/ Inverted(m, w)
                          \/ \E h \in Tasks : owner[m] = h /\ owner'[m] = h /\ base'[h] < base[h]]_vars

\* Once rtos_timer_stop has returned, the timer's callback stays silent until a
\* later rtos_timer_start.
StoppedTimerIsSilent == timer_call = "stopped" => timer_left = Inactive /\ timer_queue = <<>>

=============================================================================
