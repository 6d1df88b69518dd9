-------------------------- MODULE RtosWrapperProofs --------------------------
(***************************************************************************)
(* Proofs about RtosWrapper for any tasks, semaphores and interrupts.      *)
(***************************************************************************)
EXTENDS RtosWrapper, FiniteSetTheorems, SequenceTheorems, TLAPS

\* The kernel's priority inheritance is not transitive and a priority goes back
\* with the last mutex: what follows holds of a system with one mutex.
OneMutex == \A m, n \in Mutexes : m = n

\* The active handlers between the increment of the counter and its decrement,
\* numbered from the outermost.
Counted == {k \in 1 .. Len(isr) : isr[Len(isr) + 1 - k].at \in {"body", "exit"}}

ActiveHandler ==
  [handler : IRQn \cup {unexpected_irq_handler}, level : Nat,
   at : {"entry", "body", "exit", "check", "yield", "clear", "leave"}]

\* The places of handlers, and the counter that stands for them.
HandlersInv ==
  /\ isr \in Seq(ActiveHandler)
  /\ nested_ISR_count = Cardinality(Counted)
  /\ pendsv \in BOOLEAN /\ task_context_switch_required \in BOOLEAN
  /\ requested \subseteq Interrupts
  /\ \A i \in DOMAIN isr : isr[i].at = "clear" => pendsv

\* Before the scheduler starts main runs alone; afterwards it never does.
StartInv ==
  /\ state # "SCHED_STARTED" => /\ current = Main /\ isr = <<>> /\ ~pendsv /\ requested = {}
                                /\ \A t \in Tasks : waits[t] = None
  /\ state = "SCHED_STARTED" => current # Main /\ pc[Main] = "app"

\* A task that should run instead of the running one is never forgotten.
SwitchInv ==
  state = "SCHED_STARTED" =>
    \/ pendsv
    \/ current \in HighestOf(ready)
    \/ /\ task_context_switch_required
       /\ nested_ISR_count > 0 \/ \E i \in DOMAIN isr : isr[i].at \in {"check", "yield"}

\* A caller of rtos_task_init is at one of its steps.
InTaskInit == {"number", "create", "tag", "semaphore"}

\* What holds of a task because of where it is in its life.
TasksInv ==
  /\ prio \in [Tasks -> Int] /\ base \in [Tasks -> Int]
  /\ waits \in [Tasks -> Objects \cup {None}] /\ left \in [Tasks -> Int]
  /\ tsk_state \in [Tasks -> {"none", "created", "tagged"}]
  /\ pc \in [Contexts -> {"app", "number", "create", "tag", "semaphore", "sent"}]
  /\ creating \in [Contexts -> Tasks \cup {None}]
  /\ ready \subseteq Tasks \cup {Idle, TimerTask}
  /\ \A t \in Tasks : tsk_state[t] = "none" => t \notin ready /\ waits[t] = None /\ left[t] = 0
  /\ \A c \in Contexts : pc[c] \in InTaskInit => creating[c] \in Tasks
  /\ \A c \in Contexts : pc[c] \in {"number", "create"} => tsk_state[creating[c]] = "none"
  /\ \A c, d \in Contexts : creating[c] = creating[d] /\ creating[c] # None => c = d

\* The mutex is held or has a unit; its holder runs at another priority than its own
\* only because of a waiter; a waiter that was woken has at least the priority of the
\* others.
MutexInv ==
  /\ count \in [Objects -> Int] /\ owner \in [Mutexes -> Tasks \cup {None}]
  /\ \A m \in Mutexes :
       /\ count[m] \in {-1, 0, 1}
       /\ owner[m] # None => count[m] = 0
       /\ count[m] = 0 => owner[m] # None
       /\ \A t \in Tasks : owner[m] = t => waits[t] # m /\ tsk_state[t] # "none"
       /\ \A t \in Tasks : waits[t] = m => left[t] = portMAX_DELAY
       /\ count[m] = 1 => \A w \in Waiters(m) :
            \E x \in ready \cap Tasks : waits[x] = m /\ prio[x] >= prio[w]
  /\ \A t \in Tasks : prio[t] # base[t] =>
       \E m \in Mutexes : owner[m] = t /\ \E w \in Waiters(m) : prio[w] >= prio[t]

KernelInv == HandlersInv /\ StartInv /\ SwitchInv /\ TasksInv /\ MutexInv

\* Between the call of xTaskCreateStatic and the end of rtos_task_init a task is
\* unfinished: without its tag, or without its semaphore.
Unfinished(t) == tsk_state[t] = "created" \/ (tsk_state[t] = "tagged" /\ count[t] < 0)

Creates(c, t) == pc[c] \in {"tag", "semaphore"} /\ creating[c] = t

Progress(c) ==
  /\ pc[c] = "tag" => tsk_state[creating[c]] # "none"
  /\ pc[c] = "semaphore" => tsk_state[creating[c]] = "tagged"

\* A task that has not yet called xTaskCreateStatic is above the one it creates.
Starts(c) ==
  pc[c] \in {"number", "create"} =>
    c \in ready /\ waits[c] = None /\ prio[c] > Priority[creating[c]]

\* The creator of an unfinished task keeps it from running.
CreationInv ==
  /\ \A t \in Tasks : Unfinished(t) =>
       /\ waits[t] = None /\ \A m \in Mutexes : owner[m] # t
       /\ \E c \in Contexts :
            /\ Creates(c, t)
            /\ c = Main \/ (c \in ready /\ waits[c] = None /\ prio[c] > prio[t])
  /\ \A c \in Contexts : Progress(c)
  /\ \A c \in Tasks : Starts(c)

-----------------------------------------------------------------------------
(* What thread code may rely on *)

\* No handler is counted while none is active.
LEMMA NoHandlers ==
  ASSUME HandlersInv, isr = <<>>
  PROVE  nested_ISR_count = 0
<1>1. Counted = {}
  BY DEF Counted
<1> QED BY <1>1, FS_EmptySet DEF HandlersInv

\* Code of a task runs under the scheduler, at the highest priority.
LEMMA Running ==
  ASSUME KernelInv, NEW c, Runs(c)
  PROVE  /\ isr = <<>> /\ ~pendsv /\ nested_ISR_count = 0 /\ current = c
         /\ c = Main \/ state = "SCHED_STARTED"
         /\ state = "SCHED_STARTED" => c # Main /\ c \in HighestOf(ready)
<1>1. isr = <<>> /\ ~pendsv /\ current = c
  BY DEF Runs
<1>2. nested_ISR_count = 0
  BY <1>1, NoHandlers DEF KernelInv
<1> QED BY <1>1, <1>2 DEF KernelInv, StartInv, SwitchInv

\* A step that enters and leaves no handler.
LEMMA HandlersStay ==
  ASSUME HandlersInv, UNCHANGED <<isr, nested_ISR_count>>,
         task_context_switch_required' \in BOOLEAN, pendsv' \in BOOLEAN,
         requested' \subseteq Interrupts, isr = <<>> \/ (pendsv => pendsv')
  PROVE  HandlersInv'
<1>1. Counted' = Counted
  BY DEF Counted
<1> QED BY <1>1 DEF HandlersInv

\* The kernel's choice of a priority.
LEMMA PriorityIsNumber ==
  ASSUME prio \in [Tasks -> Int], NEW t
  PROVE  PriorityOf(t) \in Int
BY DEF PriorityOf, configTIMER_TASK_PRIORITY, configMAX_PRIORITIES

\* A step that touches no mutex and no task that waits for one.
LEMMA MutexStays ==
  ASSUME MutexInv, UNCHANGED <<owner, prio, base>>,
         count' \in [Objects -> Int], \A m \in Mutexes : count'[m] = count[m],
         \A t \in Tasks, m \in Mutexes : (waits'[t] = m) = (waits[t] = m),
         \A t \in Tasks : waits[t] \in Mutexes =>
           (t \in ready <=> t \in ready') /\ left'[t] = left[t],
         \A t \in Tasks : tsk_state'[t] = "none" => tsk_state[t] = "none"
  PROVE  MutexInv'
<1>1. \A m \in Mutexes : Waiters(m)' = Waiters(m)
  BY DEF Waiters
<1>2. \A m \in Mutexes : {x \in ready \cap Tasks : waits[x] = m}'
                         = {x \in ready \cap Tasks : waits[x] = m}
  OBVIOUS
<1> QED BY <1>1, <1>2 DEF MutexInv, Waiters

-----------------------------------------------------------------------------
(* The operations of the kernel *)

\* A give wakes a task that waits for the object, or nobody.
LEMMA WokenWaits ==
  ASSUME NEW o, NEW w \in Wakes(o)
  PROVE  w = None \/ w \in Waiters(o)
BY DEF Wakes, HighestOf

\* The lesser of two numbers.
LEMMA LeastOfTwo ==
  ASSUME NEW a \in Int, NEW b \in Int
  PROVE  Min({a, b}) = IF a <= b THEN a ELSE b
<1>1. \E x \in {a, b} : \A y \in {a, b} : x <= y
  OBVIOUS
<1>2. Min({a, b}) \in {a, b} /\ \A y \in {a, b} : Min({a, b}) <= y
  BY <1>1 DEF Min
<1> QED BY <1>2

\* The greater of two numbers.
LEMMA GreatestOfTwo ==
  ASSUME NEW a \in Int, NEW b \in Int
  PROVE  Max({a, b}) = IF a >= b THEN a ELSE b
<1>1. \E x \in {a, b} : \A y \in {a, b} : x >= y
  OBVIOUS
<1>2. Max({a, b}) \in {a, b} /\ \A y \in {a, b} : Max({a, b}) >= y
  BY <1>1 DEF Max
<1> QED BY <1>2

\* A semaphore or mutex can be given at least once.
LEMMA LimitIsPositive ==
  ASSUME NEW o
  PROVE  Limit(o) \in Nat /\ Limit(o) >= 1 /\ (o \notin Semaphores => Limit(o) = 1)
<1>1. o \in Semaphores => InitialCount[o] \in Nat
  BY InitialCounts
<1>2. o \in Semaphores => Max({1, InitialCount[o]}) \in Nat /\ Max({1, InitialCount[o]}) >= 1
  BY <1>1, GreatestOfTwo
<1> QED BY <1>2 DEF Limit

\* A signal disturbs neither a mutex nor the life of a task.
LEMMA SignalKeeps ==
  ASSUME KernelInv, OneMutex, NEW o \in Tasks \cup Semaphores, Signal(o),
         UNCHANGED <<tcb, pc, creating>>
  PROVE  TasksInv' /\ MutexInv'
<1>1. PICK w \in Wakes(o) : Give(o, w)
  BY DEF Signal
<1>2. w = None \/ (w \in Tasks \ ready /\ waits[w] = o)
  BY WokenWaits DEF Waiters
<1>3. o \in Objects /\ o \notin Mutexes /\ None \notin Objects
  BY DifferentThings DEF Objects
<1>4. /\ UNCHANGED <<prios, owner, waits, left, tcb, pc, creating>>
      /\ ready' = ready \cup ({w} \ {None})
  BY <1>1 DEF Signal, Give
<1>5. TasksInv'
  BY <1>2, <1>3, <1>4 DEF KernelInv, TasksInv, prios, tcb
<1>6. Min({count[o] + 1, Limit(o)}) \in Int
  BY <1>3, LimitIsPositive, LeastOfTwo DEF KernelInv, MutexInv
<1>7. count' \in [Objects -> Int] /\ \A m \in Mutexes : count'[m] = count[m]
  BY <1>1, <1>3, <1>6 DEF KernelInv, MutexInv, Give
<1>8. \A t \in Tasks : waits[t] \in Mutexes => (t \in ready <=> t \in ready') /\ left'[t] = left[t]
  BY <1>2, <1>3, <1>4
<1>9. MutexInv'
  BY <1>4, <1>7, <1>8, MutexStays DEF KernelInv, prios, tcb
<1> QED BY <1>5, <1>9

\* A signal from a task, or from a handler, is followed by the switch it calls for.
LEMMA SignalSwitches ==
  ASSUME KernelInv, NEW o \in Tasks \cup Semaphores, Signal(o),
         state = "SCHED_STARTED",
         nested_ISR_count # 0 \/ (~pendsv /\ current \in HighestOf(ready)),
         UNCHANGED current
  PROVE  /\ pendsv' \in BOOLEAN /\ task_context_switch_required' \in BOOLEAN
         /\ nested_ISR_count # 0 => pendsv' = pendsv
         /\ pendsv' \/ current' \in HighestOf(ready)'
              \/ (nested_ISR_count # 0 /\ task_context_switch_required')
              \/ (task_context_switch_required /\ task_context_switch_required'
                    /\ \E i \in DOMAIN isr : isr[i].at \in {"check", "yield"})
<1>1. PICK w \in Wakes(o) :
        /\ Give(o, w)
        /\ IF nested_ISR_count = 0
           THEN pendsv' = Preempts(w) /\ UNCHANGED task_context_switch_required
           ELSE /\ task_context_switch_required' = (task_context_switch_required \/ Preempts(w))
                /\ UNCHANGED pendsv
  BY DEF Signal
<1>2. pendsv \in BOOLEAN /\ task_context_switch_required \in BOOLEAN
  BY DEF KernelInv, HandlersInv
<1>3. Preempts(w) \in BOOLEAN
  BY DEF Preempts
<1>4. ready' = ready \cup ({w} \ {None})
  BY <1>1 DEF Give
<1>5. \A t : PriorityOf(t) \in Int /\ PriorityOf(t)' = PriorityOf(t)
  BY PriorityIsNumber DEF KernelInv, TasksInv, Signal, prios, PriorityOf
<1>6. ~Preempts(w) /\ current \in HighestOf(ready) => current' \in HighestOf(ready)'
  BY <1>4, <1>5 DEF Preempts, HighestOf
<1>7. pendsv \/ current \in HighestOf(ready) \/ task_context_switch_required
  BY DEF KernelInv, SwitchInv
<1>8. CASE nested_ISR_count = 0
  BY <1>1, <1>2, <1>3, <1>6, <1>8
<1>9. CASE nested_ISR_count # 0
  BY <1>1, <1>2, <1>3, <1>6, <1>7, <1>9
<1> QED BY <1>8, <1>9

\* The invariant in the parts that an operation of a task keeps: the rest of the
\* state belongs to handlers and to main.
TaskFrame == UNCHANGED <<state, nested_ISR_count, task_context_switch_required, hardware>>

\* What a task leaves behind when it asks for a switch or needs none.
LEMMA TaskStep ==
  ASSUME KernelInv, NEW c, Runs(c), c # Main, TaskFrame, UNCHANGED current,
         pc'[Main] = pc[Main], pendsv' \in BOOLEAN,
         pendsv' \/ c \in HighestOf(ready)', TasksInv', MutexInv'
  PROVE  KernelInv'
<1>1. isr = <<>> /\ current = c /\ state = "SCHED_STARTED"
  BY Running
<1>2. HandlersInv'
  BY <1>1, HandlersStay DEF TaskFrame, hardware, KernelInv, HandlersInv
<1>3. StartInv'
  BY <1>1 DEF StartInv, KernelInv, TaskFrame
<1>4. SwitchInv'
  BY <1>1 DEF SwitchInv
<1> QED BY <1>2, <1>3, <1>4 DEF KernelInv

\* A call of xSemaphoreTake, the first of it or a later try.
LEMMA TakeStep ==
  ASSUME KernelInv, OneMutex, NEW t \in Tasks, Runs(t), NEW o \in Objects, NEW ticks \in Int,
         xSemaphoreTake(t, o, ticks),
         o \in Mutexes => ticks = portMAX_DELAY /\ owner[o] # t,
         waits[t] \in {o, None}
  PROVE  KernelInv'
<1>1. /\ isr = <<>> /\ ~pendsv /\ current = t /\ t # Main
      /\ t \in ready /\ \A u \in ready : PriorityOf(u) <= PriorityOf(t)
  BY Running, DifferentThings DEF HighestOf
<1>2. TaskFrame /\ UNCHANGED <<current, pc, creating, tcb>>
  BY DEF xSemaphoreTake, g_rtos, TaskFrame, program
<1>3. tsk_state[t] # "none"
  BY <1>1 DEF KernelInv, TasksInv
<1>4. count[o] \in Int
  BY DEF KernelInv, MutexInv
<1>5. CASE count[o] > 0 /\ Take(t, o)
  <2>1. /\ UNCHANGED <<ready, prio, base, pendsv>>
        /\ waits' = [waits EXCEPT ![t] = None] /\ left' = [left EXCEPT ![t] = 0]
        /\ count' = [count EXCEPT ![o] = @ - 1]
        /\ owner' = IF o \in Mutexes THEN [owner EXCEPT ![o] = t] ELSE owner
    BY <1>5 DEF Take, prios
  <2>2. TasksInv'
    BY <1>2, <2>1 DEF KernelInv, TasksInv, tcb
  <2>3. t \in HighestOf(ready)'
    BY <1>1, <2>1 DEF HighestOf, PriorityOf
  <2>4. \A m \in Mutexes : Waiters(m)' = Waiters(m)
    BY <1>1, <2>1, DifferentThings DEF KernelInv, TasksInv, Waiters, Objects
  <2>5. ASSUME o \notin Mutexes PROVE MutexInv'
    BY <1>2, <2>1, <2>5, MutexStays, DifferentThings DEF KernelInv, MutexInv, TasksInv, tcb, Objects
  <2>6. ASSUME o \in Mutexes PROVE MutexInv'
    <3>1. count[o] = 1 /\ owner[o] = None /\ \A m \in Mutexes : m = o
      BY <1>5, <2>6 DEF KernelInv, MutexInv, OneMutex
    <3>3. \A u \in Tasks : prio[u] = base[u]
      BY <3>1, DifferentThings DEF KernelInv, MutexInv, Objects
    <3>4. count'[o] = 0 /\ owner'[o] = t /\ count' \in [Objects -> Int]
          /\ owner' \in [Mutexes -> Tasks \cup {None}]
      BY <2>1, <2>6, <3>1 DEF KernelInv, MutexInv
    <3>5. t # None
      BY DifferentThings DEF Objects
    <3>6. \A u \in Tasks : waits'[u] = o => waits[u] = o /\ left'[u] = left[u] /\ u # t
      BY <2>1, <2>6, DifferentThings DEF KernelInv, TasksInv, Objects
    <3>7. prio' = prio /\ base' = base /\ tsk_state' = tsk_state /\ Waiters(o)' = Waiters(o)
      BY <1>2, <2>1, <2>4, <2>6 DEF tcb
    <3>8. \A u \in Tasks : owner'[o] = u => waits'[u] # o /\ tsk_state'[u] # "none"
      BY <1>3, <3>4, <3>6, <3>7
    <3>9. \A u \in Tasks : waits'[u] = o => left'[u] = portMAX_DELAY
      BY <2>6, <3>6 DEF KernelInv, MutexInv
    <3> QED BY <3>1, <3>3, <3>4, <3>5, <3>7, <3>8, <3>9 DEF MutexInv
  <2> QED BY <1>1, <1>2, <2>1, <2>2, <2>3, <2>5, <2>6, TaskStep DEF KernelInv, HandlersInv
<1>6. CASE count[o] = 0 /\ ticks = 0 /\ TimeOut(t)
  <2>1. /\ UNCHANGED <<ready, prio, base, left, count, owner, pendsv>>
        /\ waits' = [waits EXCEPT ![t] = None]
    BY <1>6 DEF TimeOut, prios, sync
  <2>2. TasksInv'
    BY <1>2, <2>1 DEF KernelInv, TasksInv, tcb
  <2>3. t \in HighestOf(ready)'
    BY <1>1, <2>1 DEF HighestOf, PriorityOf
  <2>4. o \notin Mutexes
    BY <1>6 DEF portMAX_DELAY
  <2>5. MutexInv'
    BY <1>2, <2>1, <2>4, MutexStays, DifferentThings DEF KernelInv, MutexInv, TasksInv, tcb, Objects
  <2> QED BY <1>1, <1>2, <2>1, <2>2, <2>3, <2>5, TaskStep DEF KernelInv, HandlersInv
<1>7. CASE count[o] = 0 /\ ticks # 0 /\ Block(t, o, ticks)
  <2>1. /\ UNCHANGED <<base, count, owner>> /\ pendsv' = TRUE
        /\ ready' = ready \ {t}
        /\ waits' = [waits EXCEPT ![t] = o] /\ left' = [left EXCEPT ![t] = ticks]
        /\ Inherit(t, o)
    BY <1>7 DEF Block, sync
  <2>2. prio' \in [Tasks -> Int]
    BY <2>1 DEF Inherit, KernelInv, TasksInv
  <2>3. TasksInv'
    BY <1>2, <1>3, <2>1, <2>2 DEF KernelInv, TasksInv, tcb
  <2>4. ASSUME o \notin Mutexes PROVE MutexInv'
    <3>1. prio' = prio
      BY <2>1, <2>4 DEF Inherit, KernelInv, TasksInv
    <3> QED BY <1>2, <2>1, <2>4, <3>1, MutexStays, DifferentThings
            DEF KernelInv, MutexInv, TasksInv, tcb, Objects
  <2>5. ASSUME o \in Mutexes PROVE MutexInv'
    <3>1. /\ owner[o] \in Tasks /\ owner[o] # t /\ owner[o] # None
          /\ \A m \in Mutexes : m = o
      BY <1>7, <2>5 DEF KernelInv, MutexInv, OneMutex
    <3> DEFINE h == owner[o]
    <3>2. /\ prio'[h] >= prio[h] /\ prio'[h] >= prio[t]
          /\ prio'[h] = prio[h] \/ prio'[h] = prio[t]
          /\ \A u \in Tasks \ {h} : prio'[u] = prio[u]
      BY <2>1, <2>5, <3>1 DEF Inherit, KernelInv, TasksInv
    <3>3. Waiters(o)' = Waiters(o) \cup {t} /\ h \notin Waiters(o)'
      BY <1>1, <2>1, <2>5, <3>1 DEF Waiters, KernelInv, TasksInv, MutexInv
    <3>4. \A u \in Tasks : waits'[u] = o => left'[u] = portMAX_DELAY
      BY <2>1, <2>5 DEF KernelInv, TasksInv, MutexInv
    <3>6. \A u \in Tasks : prio'[u] # base[u] => u = h
      BY <2>5, <3>1, <3>2 DEF KernelInv, MutexInv
    <3>7. prio'[h] # base[h] => \E w \in Waiters(o)' : prio'[w] >= prio'[h]
      <4>1. CASE prio'[h] = prio[t]
        BY <3>1, <3>2, <3>3, <4>1 DEF KernelInv, TasksInv
      <4>2. CASE prio'[h] = prio[h]
        BY <3>1, <3>2, <3>3, <4>2 DEF KernelInv, MutexInv, Waiters, OneMutex
      <4> QED BY <3>2, <4>1, <4>2
    <3> QED BY <1>2, <1>3, <1>7, <2>1, <2>5, <3>1, <3>3, <3>4, <3>6, <3>7
            DEF KernelInv, MutexInv, tcb
  <2> QED BY <1>1, <1>2, <2>1, <2>3, <2>4, <2>5, TaskStep
<1>8. CASE count[o] < 0 /\ UNCHANGED <<blocking, prios, sync, pendsv>>
  <2>1. UNCHANGED <<ready, waits, left, prio, base, count, owner, pendsv>>
    BY <1>8 DEF blocking, prios, sync
  <2>2. TasksInv'
    BY <1>2, <2>1 DEF KernelInv, TasksInv, tcb
  <2>3. t \in HighestOf(ready)'
    BY <1>1, <2>1 DEF HighestOf, PriorityOf
  <2>5. MutexInv'
    BY <1>2, <2>1, MutexStays DEF KernelInv, MutexInv, tcb
  <2> QED BY <1>1, <1>2, <2>1, <2>2, <2>3, <2>5, TaskStep DEF KernelInv, HandlersInv
<1> QED BY <1>4, <1>5, <1>6, <1>7, <1>8 DEF xSemaphoreTake

-----------------------------------------------------------------------------
(* The operations of tasks *)

\* The calls that end in xSemaphoreTake.
LEMMA WaitStep ==
  ASSUME KernelInv, OneMutex, NEW t \in Tasks,
         \/ rtos_task_semaphore_wait(t) \/ Retry(t)
         \/ \E m \in Mutexes : rtos_mutex_lock(t, m)
         \/ \E s \in Semaphores : rtos_semaphore_wait(t, s) \/ rtos_semaphore_wait_timeout(t, s)
  PROVE  KernelInv'
<1>1. portMAX_DELAY \in Int /\ \A ticks \in 0 .. MaxTicks : ticks \in Int
  BY DEF portMAX_DELAY
<1>2. Calls(t) => Runs(t) /\ waits[t] = None
  BY DEF Calls
<1>3. CASE rtos_task_semaphore_wait(t)
  BY <1>1, <1>2, <1>3, TakeStep, DifferentThings DEF rtos_task_semaphore_wait, Objects
<1>4. CASE \E m \in Mutexes : rtos_mutex_lock(t, m)
  BY <1>1, <1>2, <1>4, TakeStep DEF rtos_mutex_lock, rtos_mutex_is_mine, Objects
<1>5. CASE \E s \in Semaphores : rtos_semaphore_wait(t, s) \/ rtos_semaphore_wait_timeout(t, s)
  BY <1>1, <1>2, <1>5, TakeStep, DifferentThings
     DEF rtos_semaphore_wait, rtos_semaphore_wait_timeout, Objects
<1>6. CASE Retry(t)
  <2>1. Runs(t) /\ waits[t] \in Objects /\ left[t] \in Int /\ xSemaphoreTake(t, waits[t], left[t])
    BY <1>6 DEF Retry, KernelInv, TasksInv
  <2>2. waits[t] \in Mutexes => left[t] = portMAX_DELAY /\ owner[waits[t]] # t
    BY DEF KernelInv, MutexInv
  <2> QED BY <2>1, <2>2, TakeStep
<1> QED BY <1>3, <1>4, <1>5, <1>6

\* A delay keeps the task's priority and mutex.
LEMMA DelayStep ==
  ASSUME KernelInv, NEW t \in Tasks, rtos_task_delay(t)
  PROVE  KernelInv'
<1>1. /\ isr = <<>> /\ current = t /\ t # Main /\ waits[t] = None
      /\ Runs(t)
  BY Running, DifferentThings DEF rtos_task_delay, Calls
<1>2. PICK ticks \in Nat :
        /\ ready' = IF ticks = 0 THEN ready ELSE ready \ {t}
        /\ left' = [left EXCEPT ![t] = ticks]
  <2>1. \A ms \in Delays : 0 .. ms \subseteq Nat
    BY Timeouts
  <2> QED BY <2>1 DEF rtos_task_delay
<1>3. /\ pendsv' = TRUE /\ TaskFrame
      /\ UNCHANGED <<tsk_id, tsk_state, current, prio, base, waits, count, owner, pc, creating>>
  BY DEF rtos_task_delay, TaskFrame, g_rtos, tcb, prios, sync, program
<1>4. TasksInv'
  <2>1. tsk_state[t] # "none"
    BY <1>1, Running DEF HighestOf, KernelInv, TasksInv
  <2> QED BY <1>2, <1>3, <2>1 DEF KernelInv, TasksInv
<1>5. MutexInv'
  BY <1>1, <1>2, <1>3, MutexStays, DifferentThings DEF KernelInv, MutexInv, Objects
<1> QED BY <1>1, <1>3, <1>4, <1>5, TaskStep

\* The return of rtos_timer_stop changes only where the task is.
LEMMA StopReturnsStep ==
  ASSUME KernelInv, NEW t \in Tasks, StopReturns(t)
  PROVE  KernelInv'
<1>1. Runs(t) /\ t # Main /\ t \in HighestOf(ready) /\ ~pendsv
  BY Running, DifferentThings DEF StopReturns
<1>2. /\ TaskFrame /\ pc' = [pc EXCEPT ![t] = "app"]
      /\ UNCHANGED <<tsk_id, tsk_state, current, pendsv, prio, base, ready, waits, left, count,
                     owner, creating>>
  BY DEF StopReturns, TaskFrame, g_rtos, tcb, sched, prios, blocking, sync
<1>3. TasksInv'
  BY <1>2 DEF KernelInv, TasksInv, InTaskInit
<1>4. MutexInv'
  BY <1>2, MutexStays DEF KernelInv, MutexInv
<1>5. t \in HighestOf(ready)'
  BY <1>1, <1>2 DEF HighestOf, PriorityOf
<1>6. pc'[Main] = pc[Main]
  BY <1>1, <1>2 DEF KernelInv, TasksInv
<1> QED BY <1>1, <1>2, <1>3, <1>4, <1>5, <1>6, TaskStep DEF KernelInv, HandlersInv

\* A command to the timer task makes it ready.
LEMMA TimerCallStep ==
  ASSUME KernelInv, NEW t \in Tasks, rtos_timer_start(t) \/ rtos_timer_stop(t)
  PROVE  KernelInv'
<1>1. Runs(t) /\ t # Main /\ t \in HighestOf(ready) /\ ~pendsv /\ current = t
  BY Running, DifferentThings DEF rtos_timer_start, rtos_timer_stop, Calls
<1>2. /\ TaskFrame
      /\ UNCHANGED <<tsk_id, tsk_state, current, prio, base, waits, left, count, owner, creating>>
      /\ ready' = ready \cup {TimerTask}
      /\ pendsv' = (TimerTask \notin ready /\ Preempts(TimerTask))
      /\ pc' = pc \/ pc' = [pc EXCEPT ![t] = "sent"]
  BY DEF rtos_timer_start, rtos_timer_stop, Send, TaskFrame, g_rtos, tcb, prios, sync
<1>3. TasksInv'
  BY <1>2, DifferentThings DEF KernelInv, TasksInv, InTaskInit
<1>4. MutexInv'
  BY <1>2, MutexStays, DifferentThings DEF KernelInv, MutexInv
<1>5. \A u : PriorityOf(u) \in Int /\ PriorityOf(u)' = PriorityOf(u)
  BY <1>2, PriorityIsNumber DEF KernelInv, TasksInv, PriorityOf
<1>6. ~pendsv' => PriorityOf(TimerTask) <= PriorityOf(t)
  <2>1. TimerTask \in ready => PriorityOf(TimerTask) <= PriorityOf(t)
    BY <1>1 DEF HighestOf
  <2>2. TimerTask \notin ready /\ ~pendsv' => ~(PriorityOf(TimerTask) > PriorityOf(t))
    BY <1>1, <1>2, DifferentThings DEF Preempts
  <2>3. PriorityOf(TimerTask) \in Int /\ PriorityOf(t) \in Int
    BY <1>5
  <2> QED BY <2>1, <2>2, <2>3
<1>7. ~pendsv' => t \in HighestOf(ready)'
  BY <1>1, <1>2, <1>5, <1>6 DEF HighestOf
<1>8. pc'[Main] = pc[Main]
  <2>1. pc' = [pc EXCEPT ![t] = "sent"] => pc'[Main] = pc[Main]
    BY <1>1 DEF KernelInv, TasksInv, Contexts
  <2> QED BY <1>2, <2>1
<1>9. pendsv' \in BOOLEAN
  BY <1>2 DEF Preempts
<1> QED BY <1>1, <1>2, <1>3, <1>4, <1>7, <1>8, <1>9, TaskStep

\* A signal from a task.
LEMMA SignalStep ==
  ASSUME KernelInv, OneMutex, NEW t \in Tasks, SignalFromTask(t)
  PROVE  KernelInv'
<1>1. /\ Runs(t) /\ t # Main /\ t \in HighestOf(ready) /\ ~pendsv /\ current = t
      /\ state = "SCHED_STARTED" /\ nested_ISR_count = 0
  BY Running, DifferentThings DEF SignalFromTask, Calls
<1>2. PICK o \in Tasks \cup Semaphores : Signal(o)
  BY DEF SignalFromTask, rtos_semaphore_signal
<1>3. UNCHANGED <<tcb, current, hardware, program>>
  BY DEF SignalFromTask
<1>4. TaskFrame
  BY <1>1, <1>2, <1>3 DEF TaskFrame, Signal
<1>5. TasksInv' /\ MutexInv'
  BY <1>2, <1>3, SignalKeeps DEF program
<1>6. pendsv' \in BOOLEAN /\ (pendsv' \/ t \in HighestOf(ready)')
  <2>1. isr = <<>> /\ DOMAIN isr = {}
    BY <1>1, Running
  <2> QED BY <1>1, <1>2, <1>3, <2>1, SignalSwitches
<1> QED BY <1>1, <1>3, <1>4, <1>5, <1>6, TaskStep DEF program

\* A task changes its priority: one that it has inherited stays.
LEMMA ChangePriorityStep ==
  ASSUME KernelInv, NEW t \in Tasks, rtos_task_change_self_priority(t)
  PROVE  KernelInv'
<1>1. /\ Runs(t) /\ t # Main /\ t \in HighestOf(ready) /\ t \in ready /\ waits[t] = None
      /\ None \notin Mutexes
  BY Running, DifferentThings DEF rtos_task_change_self_priority, Calls, HighestOf, Objects
<1>2. PICK new \in NewPriorities[t] \ {base[t]} :
        /\ prio' = IF prio[t] = base[t] THEN [prio EXCEPT ![t] = new] ELSE prio
        /\ base' = [base EXCEPT ![t] = new]
        /\ pendsv' = (new < base[t])
  BY DEF rtos_task_change_self_priority
<1>3. /\ TaskFrame
      /\ UNCHANGED <<tsk_id, tsk_state, current, ready, waits, left, count, owner, pc, creating>>
  BY DEF rtos_task_change_self_priority, TaskFrame, g_rtos, tcb, blocking, sync, program
<1>4. new \in Int /\ base[t] \in Int /\ prio[t] \in Int
      /\ prio \in [Tasks -> Int] /\ base \in [Tasks -> Int]
  BY Priorities DEF KernelInv, TasksInv, HIGHEST_APP_TASK_PRIORITY, LOWEST_APP_TASK_PRIORITY,
                    configMAX_PRIORITIES
<1>5. TasksInv'
  BY <1>2, <1>3, <1>4 DEF KernelInv, TasksInv
<1>6. ~pendsv' => t \in HighestOf(ready)'
  <2>0. ~pendsv' => new >= base[t]
    <3>1. ~pendsv' => ~(new < base[t])
      BY <1>2, Zenon
    <3> QED BY <1>4, <3>1
  <2>1. ~pendsv' => prio'[t] >= prio[t] /\ prio'[t] \in Int
    <3>1. CASE prio[t] = base[t]
      BY <1>2, <1>4, <2>0, <3>1
    <3>2. CASE prio[t] # base[t]
      BY <1>2, <1>4, <3>2
    <3> QED BY <3>1, <3>2
  <2>2. \A u \in Tasks \ {t} : prio'[u] = prio[u]
    BY <1>2, <1>4
  <2>3. \A u \in ready \ {t} : PriorityOf(u)' = PriorityOf(u)
    BY <2>2 DEF PriorityOf
  <2>4. \A u \in ready : PriorityOf(u) \in Int /\ PriorityOf(u) <= PriorityOf(t)
    BY <1>1, <1>4, PriorityIsNumber DEF HighestOf
  <2>5. PriorityOf(t)' = prio'[t] /\ PriorityOf(t) = prio[t]
    BY DEF PriorityOf
  <2> QED BY <1>1, <1>3, <1>4, <2>1, <2>3, <2>4, <2>5 DEF HighestOf
<1>7. MutexInv'
  <2>1. \A m \in Mutexes : Waiters(m)' = Waiters(m) /\ t \notin Waiters(m)
    BY <1>1, <1>3 DEF Waiters
  <2>2. \A u \in Tasks \ {t} : prio'[u] = prio[u] /\ base'[u] = base[u]
    BY <1>2, <1>4
  <2>3. prio'[t] # base'[t] =>
          \E m \in Mutexes : owner[m] = t /\ \E w \in Waiters(m) : prio'[w] >= prio'[t]
    <3>1. prio'[t] # base'[t] => prio[t] # base[t] /\ prio'[t] = prio[t]
      BY <1>2, <1>4
    <3> QED BY <2>1, <2>2, <3>1 DEF KernelInv, MutexInv, Waiters
  <2>7. \A m \in Mutexes : count[m] = 1 => \A w \in Waiters(m) :
            \E x \in ready \cap Tasks : waits[x] = m /\ prio'[x] >= prio'[w]
    BY <1>1, <2>1, <2>2 DEF KernelInv, MutexInv, Waiters
  <2>8. \A u \in Tasks \ {t} : prio'[u] # base'[u] =>
       \E m \in Mutexes : owner[m] = u /\ \E w \in Waiters(m) : prio'[w] >= prio'[u]
    BY <2>1, <2>2 DEF KernelInv, MutexInv, Waiters
  <2> QED BY <1>3, <2>1, <2>3, <2>7, <2>8 DEF KernelInv, MutexInv
<1> QED BY <1>1, <1>2, <1>3, <1>5, <1>6, <1>7, TaskStep

\* The holder gives the mutex back, and with it the priority it inherited: the
\* waiter for whose sake it had that priority is woken, and preempts it.
LEMMA UnlockStep ==
  ASSUME KernelInv, OneMutex, NEW t \in Tasks, NEW m \in Mutexes, rtos_mutex_unlock(t, m)
  PROVE  KernelInv'
<1>1. /\ Runs(t) /\ t # Main /\ t \in ready /\ current = t /\ waits[t] = None
      /\ \A u \in ready : PriorityOf(u) <= PriorityOf(t)
  BY Running, DifferentThings DEF rtos_mutex_unlock, Calls, HighestOf
<1>2. /\ owner[m] = t /\ count[m] = 0 /\ t # None /\ \A n \in Mutexes : n = m
      /\ None \notin Tasks /\ m # None /\ m \in Objects /\ m \notin Semaphores
  BY DifferentThings DEF rtos_mutex_unlock, rtos_mutex_is_mine, KernelInv, MutexInv, Objects, OneMutex
<1>3. /\ prio \in [Tasks -> Int] /\ base \in [Tasks -> Int]
      /\ prio' = [prio EXCEPT ![t] = base[t]]
      /\ owner' = [owner EXCEPT ![m] = None]
  BY <1>2 DEF rtos_mutex_unlock, KernelInv, TasksInv
<1>4. PICK w \in Wakes(m) :
        /\ Give(m, w)
        /\ pendsv' = IF w = None THEN prio' # prio ELSE prio[w] > prio'[t]
  BY DEF rtos_mutex_unlock
<1>5. /\ TaskFrame
      /\ UNCHANGED <<tsk_id, tsk_state, current, base, waits, left, pc, creating>>
      /\ ready' = ready \cup ({w} \ {None})
  BY <1>4 DEF rtos_mutex_unlock, TaskFrame, g_rtos, tcb, program, Give
<1>6. IF Waiters(m) = {} THEN w = None ELSE w \in Waiters(m) /\ \A u \in Waiters(m) : prio[u] <= prio[w]
  BY <1>2, <1>4, LimitIsPositive DEF Wakes, HighestOf, PriorityOf, Waiters
<1>7. count' \in [Objects -> Int] /\ count'[m] = 1
  <2>1. Min({count[m] + 1, Limit(m)}) = 1
    BY <1>2, LimitIsPositive, LeastOfTwo
  <2> QED BY <1>2, <1>4, <2>1 DEF Give, KernelInv, MutexInv
<1>8. Waiters(m) \subseteq Tasks \ {t}
  BY <1>1 DEF Waiters
<1>9. TasksInv'
  <2>1. w = None \/ (w \in Tasks /\ waits[w] = m)
    BY <1>6 DEF Waiters
  <2>2. prio' \in [Tasks -> Int] /\ base' \in [Tasks -> Int]
    BY <1>3, <1>5
  <2>3. ready' \subseteq Tasks \cup {Idle, TimerTask}
    BY <1>5, <2>1 DEF KernelInv, TasksInv
  <2>4. \A u \in Tasks : tsk_state[u] = "none" => u \notin ready'
    BY <1>2, <1>5, <2>1 DEF KernelInv, TasksInv
  <2> QED BY <1>5, <2>2, <2>3, <2>4 DEF KernelInv, TasksInv
<1>10. \A u \in Tasks \ {t} : prio'[u] = prio[u] /\ prio[u] = base[u]
  BY <1>2, <1>3 DEF KernelInv, MutexInv
<1>11. MutexInv'
  <2>1. Waiters(m)' = Waiters(m) \ {w}
    BY <1>2, <1>5, <1>6, <1>8 DEF Waiters
  <2>2. prio'[t] = base[t]
    BY <1>3
  <2>3. \A u \in Waiters(m)' : w \in ready' /\ w \in Tasks /\ waits'[w] = m /\ prio'[w] >= prio'[u]
    BY <1>2, <1>3, <1>5, <1>6, <1>8, <1>10, <2>1 DEF Waiters
  <2>4. \A u \in Tasks : prio'[u] = base'[u] /\ base'[u] \in Int
    BY <1>3, <1>5, <1>10, <2>2
  <2>5. owner' \in [Mutexes -> Tasks \cup {None}] /\ owner'[m] = None
    BY <1>3 DEF KernelInv, MutexInv
  <2>6. \A u \in Tasks : waits'[u] = m => left'[u] = portMAX_DELAY
    BY <1>5 DEF KernelInv, MutexInv
  <2> QED BY <1>2, <1>5, <1>7, <2>3, <2>4, <2>5, <2>6 DEF MutexInv
<1>12. ~pendsv' => t \in HighestOf(ready)'
  <2>1. ~pendsv' => prio[t] <= prio'[t] /\ (w # None => prio[w] <= prio'[t])
    <3>1. CASE w = None
      <4>1. ~pendsv' => ~(prio' # prio)
        BY <1>4, <3>1, Zenon
      <4> QED BY <1>3, <3>1, <4>1
    <3>2. CASE w # None
      <4>1. w \in Waiters(m) /\ w \in Tasks /\ \A u \in Waiters(m) : prio[u] <= prio[w]
        BY <1>6, <1>8, <3>2
      <4>2. prio'[t] = base[t] /\ prio[w] \in Int /\ prio[t] \in Int /\ base[t] \in Int
        BY <1>3, <4>1
      <4>3. ~pendsv' => prio[w] <= base[t]
        <5>1. ~pendsv' => ~(prio[w] > prio'[t])
          BY <1>4, <3>2, Zenon
        <5> QED BY <4>2, <5>1
      <4>4. prio[t] # base[t] => \E u \in Waiters(m) : prio[u] >= prio[t]
        BY <1>2 DEF KernelInv, MutexInv
      <4>5. \A u \in Waiters(m) : prio[u] \in Int
        BY <1>3, <1>8
      <4> QED BY <4>1, <4>2, <4>3, <4>4, <4>5
    <3> QED BY <3>1, <3>2
  <2>2. \A u \in ready : PriorityOf(u) \in Int /\ PriorityOf(u) <= prio[t]
    BY <1>1, <1>3, PriorityIsNumber DEF PriorityOf
  <2>3. \A u : u # t => PriorityOf(u)' = PriorityOf(u)
    BY <1>3 DEF PriorityOf
  <2>4. PriorityOf(t)' = prio'[t] /\ prio'[t] \in Int /\ prio[t] \in Int
    BY <1>3 DEF PriorityOf
  <2>5. w # None => PriorityOf(w) = prio[w]
    BY <1>6, <1>8 DEF PriorityOf
  <2> QED BY <1>1, <1>5, <2>1, <2>2, <2>3, <2>4, <2>5 DEF HighestOf
<1>13. pendsv' \in BOOLEAN
  <2>1. w = None => pendsv' \in BOOLEAN
    BY <1>4, Zenon
  <2>2. w # None => pendsv' \in BOOLEAN
    <3> DEFINE preempted == prio[w] > prio'[t]
    <3>1. preempted \in BOOLEAN
      OBVIOUS
    <3>2. w # None => pendsv' = preempted
      BY <1>4
    <3> HIDE DEF preempted
    <3> QED BY <3>1, <3>2
  <2> QED BY <2>1, <2>2
<1> QED BY <1>1, <1>5, <1>9, <1>11, <1>12, <1>13, TaskStep

-----------------------------------------------------------------------------
(* The timer task *)

\* The timer task signals, waits for a command or goes on.
LEMMA TimerStep ==
  ASSUME KernelInv, OneMutex, TimerNext
  PROVE  KernelInv'
<1>1. /\ Runs(TimerTask) /\ UNCHANGED <<tcb, current, hardware, program>>
  BY DEF TimerNext, TimerExpires, TimerTaskWaits, TimerCommand, TimerCommandsDone, TimerTaskFrame
<1>2. /\ TimerTask # Main /\ isr = <<>> /\ ~pendsv /\ TimerTask \in HighestOf(ready)
      /\ state = "SCHED_STARTED" /\ nested_ISR_count = 0 /\ current = TimerTask
  BY <1>1, Running, DifferentThings
<1>3. CASE Signal(TimerSignals)
  <2>1. TimerSignals \in Tasks \cup Semaphores /\ Signal(TimerSignals)
    BY <1>3, SignalsOfHandlers
  <2>2. TasksInv' /\ MutexInv'
    BY <1>1, <2>1, SignalKeeps DEF program
  <2>3. pendsv' \in BOOLEAN /\ (pendsv' \/ TimerTask \in HighestOf(ready)')
    <3>1. DOMAIN isr = {}
      BY <1>2
    <3> QED BY <1>1, <1>2, <2>1, <3>1, SignalSwitches
  <2>4. TaskFrame
    BY <1>1, <1>2, <2>1 DEF TaskFrame, Signal
  <2> QED BY <1>1, <1>2, <2>2, <2>3, <2>4, TaskStep DEF program
<1>4. CASE /\ UNCHANGED <<g_rtos, prios, waits, left, sync>>
           /\ \/ ready' = ready /\ pendsv' = pendsv
              \/ ready' = ready \ {TimerTask} /\ pendsv' = TRUE
  <2>1. /\ TaskFrame
        /\ UNCHANGED <<tsk_id, tsk_state, current, prio, base, waits, left, count, owner, pc, creating>>
    BY <1>1, <1>4 DEF TaskFrame, g_rtos, tcb, prios, sync, program
  <2>2. TasksInv'
    BY <1>4, <2>1 DEF KernelInv, TasksInv
  <2>3. MutexInv'
    BY <1>4, <2>1, MutexStays, DifferentThings DEF KernelInv, MutexInv
  <2>4. pendsv' \/ TimerTask \in HighestOf(ready)'
    BY <1>2, <1>4, <2>1 DEF HighestOf, PriorityOf
  <2>5. pendsv' \in BOOLEAN
    BY <1>4 DEF KernelInv, HandlersInv
  <2> QED BY <1>1, <1>2, <2>1, <2>2, <2>3, <2>4, <2>5, TaskStep
<1>5. TimerExpires => Signal(TimerSignals)
  BY DEF TimerExpires
<1>6. TimerTaskWaits => /\ UNCHANGED <<g_rtos, prios, waits, left, sync>>
                        /\ \/ ready' = ready /\ pendsv' = pendsv
                           \/ ready' = ready \ {TimerTask} /\ pendsv' = TRUE
  BY <1>2 DEF TimerTaskWaits, KernelInv, HandlersInv
<1>7. TimerCommand => \/ Signal(TimerSignals)
                      \/ UNCHANGED <<g_rtos, prios, waits, left, sync, ready, pendsv>>
  BY DEF TimerCommand, blocking, rtos_timer_internal_callback, rtos_semaphore_signal
<1>8. TimerCommandsDone => UNCHANGED <<g_rtos, prios, waits, left, sync, ready, pendsv>>
  BY DEF TimerCommandsDone, blocking
<1> QED BY <1>3, <1>4, <1>5, <1>6, <1>7, <1>8 DEF TimerNext

-----------------------------------------------------------------------------
(* Main, and the creation of tasks *)

\* Main does not disturb the kernel before it starts it.
LEMMA MainStep ==
  ASSUME KernelInv, MainNext
  PROVE  KernelInv'
<1>1. /\ current = Main /\ isr = <<>> /\ ~pendsv /\ state # "SCHED_STARTED" /\ pc[Main] = "app"
      /\ nested_ISR_count = 0
  <2>1. Calls(Main)
    BY DEF MainNext, rtos_init, rtos_semaphore_init, rtos_mutex_init, rtos_timer_init,
           rtos_scheduler_start, SettingUp
  <2> QED BY <2>1, Running DEF Calls
<1>2. /\ UNCHANGED <<nested_ISR_count, task_context_switch_required, tsk_id, tsk_state, pendsv, prio,
                    base, waits, left, owner, requested, isr, pc, creating>>
      /\ ready' = ready \/ ready' = ready \cup {Idle, TimerTask}
      /\ count' = count \/ (\E s \in Semaphores : count' = [count EXCEPT ![s] = InitialCount[s]])
           \/ (\E m \in Mutexes : count[m] = -1 /\ count' = [count EXCEPT ![m] = 1])
  BY DEF MainNext, rtos_init, rtos_semaphore_init, rtos_mutex_init, rtos_timer_init,
         rtos_scheduler_start, SemaphoreInit, g_rtos, tcb, sched, prios, blocking, sync, hardware, program
<1>3. HandlersInv'
  BY <1>2, HandlersStay DEF KernelInv, HandlersInv
<1>4. TasksInv'
  BY <1>2, DifferentThings DEF KernelInv, TasksInv
<1>5. /\ \A t \in Tasks : waits[t] = None
      /\ \A m \in Mutexes : m \notin Semaphores /\ m \in Objects /\ Waiters(m) = {} /\ Waiters(m)' = {}
  BY <1>1, <1>2, DifferentThings DEF KernelInv, StartInv, Waiters, Objects
<1>6. MutexInv'
  <2>1. count' \in [Objects -> Int]
    BY <1>2, InitialCounts DEF KernelInv, MutexInv
  <2>2. \A m \in Mutexes : count'[m] = count[m] \/ (count[m] = -1 /\ count'[m] = 1)
    BY <1>2, <1>5 DEF KernelInv, MutexInv
  <2> QED BY <1>2, <1>5, <2>1, <2>2 DEF KernelInv, MutexInv
<1>7. /\ state' # "SCHED_STARTED" => current' = Main
      /\ state' = "SCHED_STARTED" => current' \in HighestOf(ready)'
  <2>1. CASE rtos_scheduler_start
    BY <1>2, <2>1 DEF rtos_scheduler_start, HighestOf, PriorityOf
  <2>2. CASE ~rtos_scheduler_start
    BY <1>1, <2>2 DEF MainNext, rtos_init, rtos_semaphore_init, rtos_mutex_init, rtos_timer_init,
                      g_rtos, sched
  <2> QED BY <2>1, <2>2
<1>8. StartInv' /\ SwitchInv'
  BY <1>1, <1>2, <1>5, <1>7, DifferentThings DEF StartInv, SwitchInv, HighestOf, KernelInv, TasksInv
<1> QED BY <1>3, <1>4, <1>6, <1>8 DEF KernelInv

\* A step of main before the start of the scheduler, while it creates a task.
LEMMA SetUpStep ==
  ASSUME KernelInv, Runs(Main), TaskFrame, UNCHANGED current, pendsv' = FALSE,
         \A t \in Tasks : waits'[t] = waits[t], TasksInv', MutexInv'
  PROVE  KernelInv'
<1>1. state # "SCHED_STARTED" /\ isr = <<>> /\ current = Main
  BY Running
<1>2. /\ UNCHANGED <<state, isr, nested_ISR_count, task_context_switch_required, requested>>
      /\ pendsv \in BOOLEAN
  BY DEF TaskFrame, hardware, KernelInv, HandlersInv
<1>3. HandlersInv'
  BY <1>1, <1>2, HandlersStay DEF KernelInv, HandlersInv
<1>4. StartInv' /\ SwitchInv'
  BY <1>1, <1>2 DEF StartInv, SwitchInv, KernelInv
<1> QED BY <1>3, <1>4 DEF KernelInv

\* The number of a new task.
LEMMA NumberStep ==
  ASSUME KernelInv, NEW c \in Contexts,
         (\E t \in Tasks : TakeTaskNumber(c, t)) \/ StoreNextNumber(c)
  PROVE  KernelInv'
<1>1. Runs(c) /\ current = c /\ pendsv = FALSE
  BY Running DEF TakeTaskNumber, StoreNextNumber, Calls, KernelInv, HandlersInv
<1>2. /\ TaskFrame
      /\ UNCHANGED <<current, pendsv, prio, base, ready, waits, left, owner, count, tsk_state>>
  BY DEF TakeTaskNumber, StoreNextNumber, TaskFrame, g_rtos, tcb, sched, prios, blocking, sync
<1>3. \/ /\ pc[c] = "number" /\ pc' = [pc EXCEPT ![c] = "create"] /\ creating' = creating
      \/ \E t \in Tasks : /\ tsk_state[t] = "none" /\ \A d \in Contexts : creating[d] # t
                          /\ pc' = [pc EXCEPT ![c] = "number"]
                          /\ creating' = [creating EXCEPT ![c] = t]
  BY DEF TakeTaskNumber, StoreNextNumber
<1>4. TasksInv'
  <2>1. CASE pc[c] = "number" /\ pc' = [pc EXCEPT ![c] = "create"] /\ creating' = creating
    BY <1>2, <2>1 DEF KernelInv, TasksInv, InTaskInit
  <2>2. ASSUME NEW t \in Tasks, tsk_state[t] = "none", \A d \in Contexts : creating[d] # t,
               pc' = [pc EXCEPT ![c] = "number"], creating' = [creating EXCEPT ![c] = t]
        PROVE  TasksInv'
    <3>1. \A d \in Contexts : /\ pc'[d] = IF d = c THEN "number" ELSE pc[d]
                              /\ creating'[d] = IF d = c THEN t ELSE creating[d]
      BY <2>2 DEF KernelInv, TasksInv
    <3>2. /\ pc' \in [Contexts -> {"app", "number", "create", "tag", "semaphore", "sent"}]
          /\ creating' \in [Contexts -> Tasks \cup {None}]
      BY <2>2 DEF KernelInv, TasksInv
    <3> QED BY <1>2, <2>2, <3>1, <3>2 DEF KernelInv, TasksInv, InTaskInit
  <2> QED BY <1>3, <2>1, <2>2
<1>5. MutexInv'
  BY <1>2, MutexStays DEF KernelInv, MutexInv
<1>6. CASE c = Main
  BY <1>1, <1>2, <1>4, <1>5, <1>6, SetUpStep
<1>7. CASE c # Main
  <2>1. c \in HighestOf(ready)'
    BY <1>1, <1>2, <1>7, Running DEF HighestOf, PriorityOf
  <2>2. pc'[Main] = pc[Main]
    BY <1>3, <1>7 DEF KernelInv, TasksInv, Contexts
  <2> QED BY <1>1, <1>2, <1>4, <1>5, <1>7, <2>1, <2>2, TaskStep DEF KernelInv, HandlersInv
<1> QED BY <1>6, <1>7

\* The creation of the task, which may then run at once.
LEMMA CreateStep ==
  ASSUME KernelInv, NEW c \in Contexts, xTaskCreateStatic(c)
  PROVE  KernelInv'
<1>0. PICK t \in Tasks : t = creating[c]
  BY DEF xTaskCreateStatic, KernelInv, TasksInv, InTaskInit
<1>1. Runs(c) /\ pc[c] = "create" /\ tsk_state[t] = "none" /\ current = c
  BY <1>0, Running DEF xTaskCreateStatic, KernelInv, TasksInv
<1>2. /\ TaskFrame
      /\ UNCHANGED <<current, waits, left, count, owner>>
      /\ prio' = [prio EXCEPT ![t] = Priority[t]] /\ base' = [base EXCEPT ![t] = Priority[t]]
      /\ ready' = ready \cup {t}
      /\ pendsv' = (c # Main /\ Priority[t] > PriorityOf(current))
      /\ pc' = [pc EXCEPT ![c] = "tag"] /\ creating' = creating
      /\ tsk_state' = [tsk_state EXCEPT ![t] = "created"]
  BY <1>0 DEF xTaskCreateStatic, TaskFrame, g_rtos, sync
<1>3. Priority[t] \in Int
  BY Priorities DEF HIGHEST_APP_TASK_PRIORITY, LOWEST_APP_TASK_PRIORITY, configMAX_PRIORITIES
<1>4. /\ waits[t] = None /\ t \notin ready /\ c # t
      /\ \A m \in Mutexes : owner[m] # t /\ m # None
  <2>1. c # t
    BY <1>1, Running, DifferentThings DEF HighestOf, KernelInv, TasksInv
  <2> QED BY <1>1, <2>1, DifferentThings DEF KernelInv, TasksInv, MutexInv, Objects
<1>5. TasksInv'
  <2>1. \A d \in Contexts : pc'[d] = IF d = c THEN "tag" ELSE pc[d]
    BY <1>2 DEF KernelInv, TasksInv
  <2>2. \A u \in Tasks : tsk_state'[u] = IF u = t THEN "created" ELSE tsk_state[u]
    BY <1>2 DEF KernelInv, TasksInv
  <2>3. \A d \in Contexts : pc'[d] \in {"number", "create"} => tsk_state'[creating'[d]] = "none"
    <3> SUFFICES ASSUME NEW d \in Contexts, pc'[d] \in {"number", "create"}
                 PROVE  tsk_state'[creating'[d]] = "none"
      OBVIOUS
    <3>1. d # c /\ pc[d] \in {"number", "create"}
      BY <2>1
    <3>2. creating[d] \in Tasks /\ creating[d] # t /\ tsk_state[creating[d]] = "none"
      BY <1>0, <3>1, DifferentThings DEF KernelInv, TasksInv, InTaskInit, Objects
    <3> QED BY <1>2, <2>2, <3>2
  <2>4. /\ prio' \in [Tasks -> Int] /\ base' \in [Tasks -> Int]
        /\ tsk_state' \in [Tasks -> {"none", "created", "tagged"}]
        /\ pc' \in [Contexts -> {"app", "number", "create", "tag", "semaphore", "sent"}]
    BY <1>1, <1>2, <1>3 DEF KernelInv, TasksInv
  <2>5. \A d \in Contexts : pc'[d] \in InTaskInit => creating'[d] \in Tasks
    BY <1>0, <1>2, <2>1 DEF KernelInv, TasksInv
  <2> QED BY <1>1, <1>2, <1>4, <2>2, <2>3, <2>4, <2>5 DEF KernelInv, TasksInv
<1>6. MutexInv'
  <2>1. \A u \in Tasks \ {t} : prio'[u] = prio[u] /\ base'[u] = base[u]
    BY <1>2 DEF KernelInv, TasksInv
  <2>2. prio'[t] = base'[t]
    BY <1>1, <1>2, <1>3 DEF KernelInv, TasksInv
  <2>3. \A m \in Mutexes : Waiters(m)' = Waiters(m) /\ Waiters(m) \subseteq Tasks \ {t}
    BY <1>2, <1>4 DEF Waiters
  <2>4. \A u \in Tasks : tsk_state'[u] = "none" => tsk_state[u] = "none"
    BY <1>2 DEF KernelInv, TasksInv
  <2>7. \A m \in Mutexes : count[m] = 1 => \A w \in Waiters(m) :
          \E x \in ready' \cap Tasks : waits[x] = m /\ prio'[x] >= prio'[w]
    BY <1>2, <1>4, <2>1, <2>3 DEF KernelInv, MutexInv
  <2>8. \A u \in Tasks : prio'[u] # base'[u] =>
          \E m \in Mutexes : owner[m] = u /\ \E w \in Waiters(m) : prio'[w] >= prio'[u]
    BY <2>1, <2>2, <2>3 DEF KernelInv, MutexInv
  <2> QED BY <1>2, <2>3, <2>4, <2>7, <2>8 DEF KernelInv, MutexInv
<1>7. CASE c = Main
  BY <1>1, <1>2, <1>5, <1>6, <1>7, SetUpStep
<1>8. CASE c # Main
  <2>1. c \in HighestOf(ready)
    BY <1>1, <1>8, Running
  <2>2. ~pendsv' => c \in HighestOf(ready)'
    <3>1. ~pendsv' => ~(Priority[t] > PriorityOf(current))
      BY <1>2, <1>8, Zenon
    <3>2. \A u \in ready \cup {c} : PriorityOf(u)' = PriorityOf(u) /\ PriorityOf(u) \in Int
      BY <1>2, <1>4, PriorityIsNumber DEF PriorityOf, KernelInv, TasksInv
    <3>3. PriorityOf(t)' = Priority[t]
      BY <1>2 DEF PriorityOf, KernelInv, TasksInv
    <3> QED BY <1>1, <1>2, <1>3, <2>1, <3>1, <3>2, <3>3 DEF HighestOf
  <2>3. pc'[Main] = pc[Main]
    BY <1>2, <1>8 DEF KernelInv, TasksInv
  <2>4. pendsv' \in BOOLEAN
    BY <1>2
  <2> QED BY <1>1, <1>2, <1>5, <1>6, <1>8, <2>2, <2>3, <2>4, TaskStep
<1> QED BY <1>7, <1>8

\* The tag and the semaphore of the new task.
LEMMA TagStep ==
  ASSUME KernelInv, NEW c \in Contexts, vTaskSetApplicationTaskTag(c) \/ InitTaskSemaphore(c)
  PROVE  KernelInv'
<1>1. /\ Runs(c) /\ current = c /\ pendsv = FALSE /\ pc[c] \in {"tag", "semaphore"}
      /\ creating[c] \in Tasks /\ creating[c] \in Objects /\ creating[c] \notin Mutexes
  BY Running, DifferentThings
     DEF vTaskSetApplicationTaskTag, InitTaskSemaphore, KernelInv, HandlersInv, TasksInv, Objects,
         InTaskInit
<1>2. /\ TaskFrame
      /\ UNCHANGED <<current, pendsv, prio, base, ready, waits, left, owner>>
      /\ \/ /\ pc' = [pc EXCEPT ![c] = "semaphore"] /\ creating' = creating /\ count' = count
            /\ tsk_state' = [tsk_state EXCEPT ![creating[c]] = "tagged"]
         \/ /\ pc' = [pc EXCEPT ![c] = "app"] /\ creating' = [creating EXCEPT ![c] = None]
            /\ count' = [count EXCEPT ![creating[c]] = 0] /\ tsk_state' = tsk_state
  BY DEF vTaskSetApplicationTaskTag, InitTaskSemaphore, SemaphoreInit, TaskFrame, g_rtos, tcb, sched,
         prios, blocking, sync
<1>3. TasksInv'
  <2>1. CASE /\ pc' = [pc EXCEPT ![c] = "semaphore"] /\ creating' = creating
             /\ tsk_state' = [tsk_state EXCEPT ![creating[c]] = "tagged"]
    <3>1. /\ \A d \in Contexts : pc'[d] = IF d = c THEN "semaphore" ELSE pc[d]
          /\ \A u \in Tasks : tsk_state'[u] = IF u = creating[c] THEN "tagged" ELSE tsk_state[u]
          /\ pc' \in [Contexts -> {"app", "number", "create", "tag", "semaphore", "sent"}]
          /\ tsk_state' \in [Tasks -> {"none", "created", "tagged"}]
      BY <1>1, <2>1 DEF KernelInv, TasksInv
    <3>2. \A d \in Contexts : pc'[d] \in InTaskInit => creating'[d] \in Tasks
      BY <1>1, <2>1, <3>1 DEF KernelInv, TasksInv
    <3>3. \A d \in Contexts : pc'[d] \in {"number", "create"} => tsk_state'[creating'[d]] = "none"
      <4> SUFFICES ASSUME NEW d \in Contexts, pc'[d] \in {"number", "create"}
                   PROVE  tsk_state'[creating'[d]] = "none"
        OBVIOUS
      <4>1. d # c /\ pc[d] \in {"number", "create"}
        BY <3>1
      <4>2. creating[d] \in Tasks /\ creating[d] # creating[c] /\ tsk_state[creating[d]] = "none"
        BY <1>1, <4>1, DifferentThings DEF KernelInv, TasksInv, InTaskInit, Objects
      <4> QED BY <2>1, <3>1, <4>2
    <3> QED BY <1>1, <1>2, <2>1, <3>1, <3>2, <3>3 DEF KernelInv, TasksInv
  <2>2. CASE /\ pc' = [pc EXCEPT ![c] = "app"] /\ creating' = [creating EXCEPT ![c] = None]
             /\ tsk_state' = tsk_state
    <3>1. /\ \A d \in Contexts : pc'[d] = IF d = c THEN "app" ELSE pc[d]
          /\ \A d \in Contexts : creating'[d] = IF d = c THEN None ELSE creating[d]
          /\ pc' \in [Contexts -> {"app", "number", "create", "tag", "semaphore", "sent"}]
          /\ creating' \in [Contexts -> Tasks \cup {None}]
      BY <1>1, <2>2 DEF KernelInv, TasksInv
    <3>2. "app" \notin InTaskInit
      BY DEF InTaskInit
    <3> QED BY <1>2, <2>2, <3>1, <3>2 DEF KernelInv, TasksInv
  <2> QED BY <1>2, <2>1, <2>2
<1>4. MutexInv'
  <2>1. count' \in [Objects -> Int] /\ \A m \in Mutexes : count'[m] = count[m]
    <3>1. count' = count => count' \in [Objects -> Int] /\ \A m \in Mutexes : count'[m] = count[m]
      BY DEF KernelInv, MutexInv
    <3>2. count' = [count EXCEPT ![creating[c]] = 0] =>
            count' \in [Objects -> Int] /\ \A m \in Mutexes : count'[m] = count[m]
      BY <1>1 DEF KernelInv, MutexInv
    <3> QED BY <1>2, <3>1, <3>2
  <2>2. \A u \in Tasks : tsk_state'[u] = "none" => tsk_state[u] = "none"
    BY <1>1, <1>2 DEF KernelInv, TasksInv
  <2> QED BY <1>2, <2>1, <2>2, MutexStays DEF KernelInv
<1>5. CASE c = Main
  BY <1>1, <1>2, <1>3, <1>4, <1>5, SetUpStep
<1>6. CASE c # Main
  <2>1. c \in HighestOf(ready)'
    BY <1>1, <1>2, <1>6, Running DEF HighestOf, PriorityOf
  <2>2. pc'[Main] = pc[Main]
    <3>1. pc' = [pc EXCEPT ![c] = "app"] \/ pc' = [pc EXCEPT ![c] = "semaphore"]
      BY <1>2
    <3> QED BY <1>6, <3>1 DEF KernelInv, TasksInv, Contexts
  <2> QED BY <1>1, <1>2, <1>3, <1>4, <1>6, <2>1, <2>2, TaskStep DEF KernelInv, HandlersInv
<1> QED BY <1>5, <1>6

-----------------------------------------------------------------------------
(* Interrupts, ticks and switches *)

\* A step of the hardware or of a handler that concerns no task.
HandlerFrame ==
  UNCHANGED <<state, tcb, current, prios, blocking, sync, program>>

\* Such a step keeps everything that is about tasks.
LEMMA HandlerKeeps ==
  ASSUME KernelInv, OneMutex, HandlerFrame, state = "SCHED_STARTED", HandlersInv', SwitchInv'
  PROVE  KernelInv'
<1>1. UNCHANGED <<state, tsk_id, tsk_state, current, prio, base, ready, waits, left, count, owner,
                  pc, creating>>
  BY DEF HandlerFrame, tcb, prios, blocking, sync, program
<1>2. TasksInv'
  BY <1>1 DEF KernelInv, TasksInv
<1>3. MutexInv'
  BY <1>1, MutexStays DEF KernelInv, MutexInv
<1>4. StartInv'
  BY <1>1 DEF KernelInv, StartInv
<1> QED BY <1>2, <1>3, <1>4 DEF KernelInv

\* Handlers run only under the scheduler.
LEMMA HandlersStarted ==
  ASSUME KernelInv, isr # <<>> \/ requested # {}
  PROVE  state = "SCHED_STARTED"
BY DEF KernelInv, StartInv

\* A device asks for service.
LEMMA RaiseStep ==
  ASSUME KernelInv, OneMutex, NEW irq \in Interrupts, Raise(irq)
  PROVE  KernelInv'
<1>1. /\ HandlerFrame /\ state = "SCHED_STARTED"
      /\ UNCHANGED <<isr, nested_ISR_count, task_context_switch_required, pendsv, ready, prio, current, state>>
      /\ requested' = requested \cup {irq}
  BY DEF Raise, HandlerFrame, g_rtos, sched, blocking, prios, rtos_scheduler_started
<1>2. HandlersInv'
  BY <1>1, HandlersStay DEF KernelInv, HandlersInv
<1>3. SwitchInv'
  BY <1>1 DEF KernelInv, SwitchInv, HighestOf, PriorityOf
<1> QED BY <1>1, <1>2, <1>3, HandlerKeeps

\* An entry of the table is the handler of a driver or the one for the others.
LEMMA TableEntry ==
  ASSUME NEW irq \in IRQn
  PROVE  g_interrupt_vector_table[irq] \in IRQn \cup {unexpected_irq_handler}
<1>1. <<"I2C", 0>> \in IRQn
  BY DEF IRQn, DriverInterrupts
<1>2. CASE irq \in DriverInterrupts
  BY <1>1, <1>2 DEF g_interrupt_vector_table, IRQn
<1>3. CASE irq = I2C2 /\ irq \notin DriverInterrupts
  BY <1>1, <1>3 DEF g_interrupt_vector_table, IRQn
<1>4. CASE irq \in UnusedInterrupts /\ irq \notin DriverInterrupts /\ irq # I2C2
  BY <1>1, <1>4 DEF g_interrupt_vector_table, IRQn
<1> QED BY <1>2, <1>3, <1>4 DEF IRQn

\* The processor enters a handler, which is not counted yet.
LEMMA DispatchStep ==
  ASSUME KernelInv, OneMutex, NEW irq \in Interrupts, Dispatch(irq)
  PROVE  KernelInv'
<1> DEFINE new == [handler |-> g_interrupt_vector_table[irq], level |-> InterruptLevel[irq],
                   at |-> "entry"]
<1>1. /\ HandlerFrame /\ state = "SCHED_STARTED"
      /\ UNCHANGED <<nested_ISR_count, task_context_switch_required, pendsv, ready, prio, current,
                     state, requested>>
      /\ isr' = <<new>> \o isr
  BY HandlersStarted DEF Dispatch, HandlerFrame, g_rtos, sched, blocking, prios
<1>2. new \in ActiveHandler
  <2>1. g_interrupt_vector_table[irq] \in IRQn \cup {unexpected_irq_handler}
    BY TableEntry, InterruptsOfTheTable
  <2> QED BY <2>1, InterruptsOfTheTable DEF ActiveHandler
<1>3. /\ isr' \in Seq(ActiveHandler)
      /\ Len(isr) \in Nat /\ Len(isr') = Len(isr) + 1 /\ isr'[1] = new
      /\ \A i \in 1 .. Len(isr) : isr'[i + 1] = isr[i]
  BY <1>1, <1>2 DEF KernelInv, HandlersInv
<1>4. Counted' = Counted
  <2>1. ASSUME NEW k \in 1 .. Len(isr)
        PROVE  isr'[Len(isr') + 1 - k] = isr[Len(isr) + 1 - k]
    <3>1. Len(isr) + 1 - k \in 1 .. Len(isr) /\ Len(isr') + 1 - k = (Len(isr) + 1 - k) + 1
      BY <1>3
    <3> QED BY <1>3, <3>1
  <2>2. Len(isr') \notin Counted'
    <3>1. Len(isr') + 1 - Len(isr') = 1
      BY <1>3
    <3>2. isr'[Len(isr') + 1 - Len(isr')].at = "entry"
      BY <1>3, <3>1
    <3> QED BY <3>2 DEF Counted
  <2>3. \A k : k \in Counted' <=> k \in Counted
    <3>1. \A k \in 1 .. Len(isr) : k \in 1 .. Len(isr') /\ k # Len(isr')
      BY <1>3
    <3>2. \A k \in 1 .. Len(isr') : k = Len(isr') \/ k \in 1 .. Len(isr)
      BY <1>3
    <3> QED BY <2>1, <2>2, <3>1, <3>2 DEF Counted
  <2> QED BY <2>3
<1>5. HandlersInv'
  BY <1>1, <1>3, <1>4 DEF KernelInv, HandlersInv
<1>6. SwitchInv'
  <2>1. HighestOf(ready)' = HighestOf(ready)
    BY <1>1 DEF HighestOf, PriorityOf
  <2>2. ASSUME NEW i \in DOMAIN isr, isr[i].at \in {"check", "yield"}
        PROVE  \E j \in DOMAIN isr' : isr'[j].at \in {"check", "yield"}
    <3>1. i \in 1 .. Len(isr) /\ i + 1 \in DOMAIN isr'
      BY <1>3 DEF KernelInv, HandlersInv
    <3> QED BY <1>3, <2>2, <3>1
  <2> QED BY <1>1, <2>1, <2>2 DEF KernelInv, SwitchInv
<1> QED BY <1>1, <1>5, <1>6, HandlerKeeps

\* A handler returns after it has been counted out.
LEMMA LeaveStep ==
  ASSUME KernelInv, OneMutex, LeaveHandler
  PROVE  KernelInv'
<1>1. /\ HandlerFrame /\ state = "SCHED_STARTED"
      /\ UNCHANGED <<nested_ISR_count, task_context_switch_required, pendsv, ready, prio, current,
                     state, requested>>
      /\ isr # <<>> /\ isr' = Tail(isr) /\ isr[1].at = "leave"
  BY HandlersStarted DEF LeaveHandler, InHandler, IsrFrame, HandlerFrame, g_rtos, blocking, prios
<1>2. /\ isr' \in Seq(ActiveHandler)
      /\ Len(isr) \in Nat \ {0} /\ Len(isr') = Len(isr) - 1
      /\ \A i \in 1 .. Len(isr') : isr'[i] = isr[i + 1]
  BY <1>1 DEF KernelInv, HandlersInv
<1>3. Counted' = Counted
  <2>1. ASSUME NEW k \in 1 .. Len(isr')
        PROVE  isr'[Len(isr') + 1 - k] = isr[Len(isr) + 1 - k]
    <3>1. Len(isr') + 1 - k \in 1 .. Len(isr') /\ Len(isr) + 1 - k = (Len(isr') + 1 - k) + 1
      BY <1>2
    <3> QED BY <1>2, <3>1
  <2>2. Len(isr) \notin Counted
    <3>1. Len(isr) + 1 - Len(isr) = 1
      BY <1>2
    <3>2. isr[Len(isr) + 1 - Len(isr)].at = "leave"
      BY <1>1, <3>1
    <3> QED BY <3>2 DEF Counted
  <2>3. \A k : k \in Counted' <=> k \in Counted
    <3>1. \A k \in 1 .. Len(isr') : k \in 1 .. Len(isr) /\ k # Len(isr)
      BY <1>2
    <3>2. \A k \in 1 .. Len(isr) : k = Len(isr) \/ k \in 1 .. Len(isr')
      BY <1>2
    <3> QED BY <2>1, <2>2, <3>1, <3>2 DEF Counted
  <2> QED BY <2>3
<1>4. HandlersInv'
  BY <1>1, <1>2, <1>3 DEF KernelInv, HandlersInv
<1>5. SwitchInv'
  <2>1. HighestOf(ready)' = HighestOf(ready)
    BY <1>1 DEF HighestOf, PriorityOf
  <2>2. ASSUME NEW i \in DOMAIN isr, isr[i].at \in {"check", "yield"}
        PROVE  \E j \in DOMAIN isr' : isr'[j].at \in {"check", "yield"}
    <3>1. i # 1 /\ i \in 1 .. Len(isr)
      BY <1>1, <2>2 DEF KernelInv, HandlersInv
    <3>2. i - 1 \in 1 .. Len(isr') /\ i = (i - 1) + 1 /\ DOMAIN isr' = 1 .. Len(isr')
      BY <1>2, <3>1
    <3>3. isr'[i - 1] = isr[i]
      BY <1>2, <3>2
    <3> QED BY <2>2, <3>2, <3>3
  <2> QED BY <1>1, <2>1, <2>2 DEF KernelInv, SwitchInv
<1> QED BY <1>1, <1>4, <1>5, HandlerKeeps

\* The innermost handler goes on: its place decides whether it is counted.
LEMMA GoToIs ==
  ASSUME HandlersInv, isr # <<>>, NEW x, GoTo(x),
         x \in {"entry", "body", "exit", "check", "yield", "clear", "leave"}
  PROVE  /\ isr' \in Seq(ActiveHandler)
         /\ 1 \in DOMAIN isr /\ DOMAIN isr' = DOMAIN isr /\ isr'[1].at = x
         /\ \A i \in DOMAIN isr \ {1} : isr'[i] = isr[i]
         /\ Counted' = (Counted \ {Len(isr)}) \cup (IF x \in {"body", "exit"} THEN {Len(isr)} ELSE {})
         /\ Len(isr) \in Counted <=> isr[1].at \in {"body", "exit"}
         /\ IsFiniteSet(Counted) /\ Cardinality(Counted) \in Nat
<1>1. /\ Len(isr) \in Nat \ {0} /\ DOMAIN isr = 1 .. Len(isr) /\ Len(isr') = Len(isr)
      /\ DOMAIN isr' = DOMAIN isr
      /\ isr' \in Seq(ActiveHandler)
      /\ isr'[1].at = x /\ \A i \in DOMAIN isr \ {1} : isr'[i] = isr[i]
  <2>1. Len(isr) \in Nat \ {0} /\ DOMAIN isr = 1 .. Len(isr) /\ 1 \in DOMAIN isr
    BY DEF HandlersInv
  <2>2. isr' = [isr EXCEPT ![1].at = x]
    BY DEF GoTo
  <2>3. /\ isr[1] \in ActiveHandler
        /\ [isr[1] EXCEPT !.at = x] \in ActiveHandler
        /\ [isr[1] EXCEPT !.at = x].at = x
    <3>1. isr[1] \in ActiveHandler
      BY <2>1 DEF HandlersInv
    <3> QED BY <3>1 DEF ActiveHandler
  <2>4. isr' = [isr EXCEPT ![1] = [isr[1] EXCEPT !.at = x]]
    BY <2>1, <2>2
  <2> QED BY <2>1, <2>3, <2>4 DEF HandlersInv
<1>2. Len(isr) + 1 - Len(isr) = 1
  BY <1>1
<1>3. \A k \in 1 .. Len(isr) : k # Len(isr) =>
        /\ Len(isr) + 1 - k \in DOMAIN isr \ {1}
        /\ isr'[Len(isr') + 1 - k] = isr[Len(isr) + 1 - k]
  <2> SUFFICES ASSUME NEW k \in 1 .. Len(isr), k # Len(isr)
               PROVE  /\ Len(isr) + 1 - k \in DOMAIN isr \ {1}
                      /\ isr'[Len(isr') + 1 - k] = isr[Len(isr) + 1 - k]
    OBVIOUS
  <2>1. \A n \in Nat \ {0} : \A j \in 1 .. n : j # n => n + 1 - j \in 1 .. n /\ n + 1 - j # 1
    OBVIOUS
  <2>2. Len(isr) + 1 - k \in 1 .. Len(isr) /\ Len(isr) + 1 - k # 1
    BY <1>1, <2>1
  <2> QED BY <1>1, <2>2
<1>4. Counted' = (Counted \ {Len(isr)}) \cup (IF x \in {"body", "exit"} THEN {Len(isr)} ELSE {})
  <2>1. \A k \in 1 .. Len(isr) : k # Len(isr) => (k \in Counted' <=> k \in Counted)
    BY <1>1, <1>3 DEF Counted
  <2>2. Len(isr) \in Counted' <=> x \in {"body", "exit"}
    BY <1>1, <1>2 DEF Counted
  <2>3. Counted \subseteq 1 .. Len(isr) /\ Counted' \subseteq 1 .. Len(isr)
    BY <1>1 DEF Counted
  <2> QED BY <2>1, <2>2, <2>3
<1>5. Len(isr) \in Counted <=> isr[1].at \in {"body", "exit"}
  BY <1>1, <1>2 DEF Counted
<1>6. IsFiniteSet(Counted) /\ Cardinality(Counted) \in Nat
  <2>1. IsFiniteSet(1 .. Len(isr)) /\ Counted \subseteq 1 .. Len(isr)
    BY <1>1, FS_Interval DEF Counted
  <2> QED BY <2>1, FS_Subset, FS_CardinalityType
<1> QED BY <1>1, <1>4, <1>5, <1>6

\* A handler is counted from rtos_enter_isr to rtos_exit_isr.
LEMMA EnterStep ==
  ASSUME KernelInv, OneMutex, rtos_enter_isr
  PROVE  KernelInv'
<1>1. /\ HandlerFrame /\ state = "SCHED_STARTED" /\ isr # <<>> /\ isr[1].at = "entry" /\ GoTo("body")
      /\ UNCHANGED <<task_context_switch_required, pendsv, ready, prio, current, state, requested>>
      /\ nested_ISR_count' = nested_ISR_count + 1
  BY HandlersStarted DEF rtos_enter_isr, InHandler, IsrFrame, HandlerFrame, blocking, prios
<1>2. /\ isr' \in Seq(ActiveHandler) /\ DOMAIN isr' = DOMAIN isr /\ isr'[1].at = "body"
      /\ \A i \in DOMAIN isr \ {1} : isr'[i] = isr[i]
      /\ Counted' = Counted \cup {Len(isr)} /\ Len(isr) \notin Counted
      /\ IsFiniteSet(Counted) /\ Cardinality(Counted) \in Nat
  BY <1>1, GoToIs DEF KernelInv
<1>3. nested_ISR_count' = Cardinality(Counted') /\ nested_ISR_count' > 0
  <2>1. Cardinality(Counted \cup {Len(isr)}) = Cardinality(Counted) + 1
    BY <1>2, FS_AddElement
  <2>2. nested_ISR_count = Cardinality(Counted)
    BY DEF KernelInv, HandlersInv
  <2> QED BY <1>1, <1>2, <2>1, <2>2
<1>4. HandlersInv'
  BY <1>1, <1>2, <1>3 DEF KernelInv, HandlersInv
<1>5. SwitchInv'
  BY <1>1, <1>3 DEF KernelInv, SwitchInv, HighestOf, PriorityOf
<1> QED BY <1>1, <1>4, <1>5, HandlerKeeps

\* rtos_exit_isr counts the handler out; the last one goes on to the flag.
LEMMA ExitStep ==
  ASSUME KernelInv, OneMutex, rtos_exit_isr
  PROVE  KernelInv'
<1> DEFINE next == IF nested_ISR_count = 1 THEN "check" ELSE "leave"
<1>1. /\ HandlerFrame /\ state = "SCHED_STARTED" /\ isr # <<>> /\ isr[1].at = "exit" /\ GoTo(next)
      /\ UNCHANGED <<task_context_switch_required, pendsv, ready, prio, current, state, requested>>
      /\ nested_ISR_count' = nested_ISR_count - 1
  BY HandlersStarted DEF rtos_exit_isr, InHandler, IsrFrame, HandlerFrame, blocking, prios
<1>2. /\ isr' \in Seq(ActiveHandler) /\ 1 \in DOMAIN isr /\ DOMAIN isr' = DOMAIN isr /\ isr'[1].at = next
      /\ \A i \in DOMAIN isr \ {1} : isr'[i] = isr[i]
      /\ Counted' = Counted \ {Len(isr)} /\ Len(isr) \in Counted
      /\ IsFiniteSet(Counted) /\ Cardinality(Counted) \in Nat
  BY <1>1, GoToIs DEF KernelInv
<1>3. nested_ISR_count' = Cardinality(Counted') /\ nested_ISR_count' \in Nat
  <2>1. Cardinality(Counted \ {Len(isr)}) = Cardinality(Counted) - 1
    BY <1>2, FS_RemoveElement
  <2>2. nested_ISR_count = Cardinality(Counted)
    BY DEF KernelInv, HandlersInv
  <2>3. Cardinality(Counted) # 0
    BY <1>2, FS_EmptySet
  <2> QED BY <1>1, <1>2, <2>1, <2>2, <2>3
<1>4. HandlersInv'
  BY <1>1, <1>2, <1>3 DEF KernelInv, HandlersInv
<1>5. nested_ISR_count' > 0 \/ isr'[1].at = "check"
  BY <1>1, <1>2, <1>3 DEF KernelInv, HandlersInv
<1>6. SwitchInv'
  BY <1>1, <1>2, <1>5 DEF KernelInv, SwitchInv, HighestOf, PriorityOf
<1> QED BY <1>1, <1>4, <1>6, HandlerKeeps

\* The body of a handler signals while it is counted.
LEMMA BodyStep ==
  ASSUME KernelInv, OneMutex, HandlerBody
  PROVE  KernelInv'
<1>1. /\ state = "SCHED_STARTED" /\ isr # <<>> /\ isr[1].at = "body" /\ GoTo("exit")
      /\ UNCHANGED <<tcb, current, prios, timer, program, state, nested_ISR_count>>
      /\ requested' \subseteq Interrupts
  BY HandlersStarted DEF HandlerBody, InHandler, IsrFrame, KernelInv, HandlersInv, g_rtos,
                         rtos_semaphore_signal, Signal
<1>2. /\ isr' \in Seq(ActiveHandler) /\ DOMAIN isr' = DOMAIN isr /\ isr'[1].at = "exit"
      /\ \A i \in DOMAIN isr \ {1} : isr'[i] = isr[i]
      /\ Counted' = (Counted \ {Len(isr)}) \cup {Len(isr)} /\ Len(isr) \in Counted
      /\ IsFiniteSet(Counted) /\ Cardinality(Counted) \in Nat
  BY <1>1, GoToIs DEF KernelInv
<1>3. Counted' = Counted
  BY <1>2
<1>4. nested_ISR_count # 0 /\ nested_ISR_count \in Nat
  BY <1>2, FS_EmptySet DEF KernelInv, HandlersInv
<1>5. CASE \E o \in Tasks \cup Semaphores : Signal(o)
  <2>1. PICK o \in Tasks \cup Semaphores : Signal(o)
    BY <1>5
  <2>2. TasksInv' /\ MutexInv'
    BY <1>1, <2>1, SignalKeeps DEF program
  <2>3. /\ pendsv' \in BOOLEAN /\ task_context_switch_required' \in BOOLEAN /\ pendsv' = pendsv
        /\ pendsv' \/ current' \in HighestOf(ready)' \/ task_context_switch_required'
    BY <1>1, <1>4, <2>1, SignalSwitches
  <2>4. HandlersInv'
    BY <1>1, <1>2, <1>3, <2>3 DEF KernelInv, HandlersInv
  <2>5. SwitchInv'
    BY <1>1, <1>4, <2>3 DEF SwitchInv
  <2>6. StartInv'
    BY <1>1 DEF KernelInv, StartInv, program
  <2> QED BY <2>2, <2>4, <2>5, <2>6 DEF KernelInv
<1>6. CASE UNCHANGED <<g_rtos, blocking, sync, prios, pendsv, requested>>
  <2>1. HandlerFrame /\ UNCHANGED <<task_context_switch_required, pendsv, ready, prio, current>>
    BY <1>1, <1>6 DEF HandlerFrame, g_rtos, blocking, prios
  <2>2. HandlersInv'
    BY <1>1, <1>2, <1>3, <2>1 DEF KernelInv, HandlersInv
  <2>3. SwitchInv'
    BY <1>1, <1>4, <2>1 DEF KernelInv, SwitchInv, HighestOf, PriorityOf
  <2> QED BY <1>1, <2>1, <2>2, <2>3, HandlerKeeps
<1>7. isr[1].handler \in requested => SignalledBy[isr[1].handler] \in Tasks \cup Semaphores
  BY SignalsOfHandlers DEF KernelInv, HandlersInv
<1> QED BY <1>5, <1>6, <1>7 DEF HandlerBody, rtos_semaphore_signal

\* The last handler to exit asks for the switch and only then clears the flag.
LEMMA SwitchRequestStep ==
  ASSUME KernelInv, OneMutex, CheckSwitchRequired \/ portYIELD \/ ClearSwitchRequired
  PROVE  KernelInv'
<1>1. /\ HandlerFrame /\ state = "SCHED_STARTED" /\ isr # <<>>
      /\ UNCHANGED <<nested_ISR_count, ready, prio, current, state, requested>>
  BY HandlersStarted DEF CheckSwitchRequired, portYIELD, ClearSwitchRequired, InHandler, IsrFrame,
                         HandlerFrame, g_rtos, blocking, prios
<1>2. HighestOf(ready)' = HighestOf(ready)
  BY <1>1 DEF HighestOf, PriorityOf
<1>3. CASE CheckSwitchRequired
  <2> DEFINE next == IF task_context_switch_required THEN "yield" ELSE "leave"
  <2>1. /\ isr[1].at = "check" /\ GoTo(next) /\ UNCHANGED <<pendsv, task_context_switch_required>>
    BY <1>3 DEF CheckSwitchRequired, InHandler, g_rtos
  <2>2. /\ isr' \in Seq(ActiveHandler) /\ 1 \in DOMAIN isr /\ DOMAIN isr' = DOMAIN isr
        /\ isr'[1].at = next /\ \A i \in DOMAIN isr \ {1} : isr'[i] = isr[i]
        /\ Counted' = Counted
    BY <1>1, <2>1, GoToIs DEF KernelInv
  <2>3. HandlersInv'
    BY <1>1, <2>1, <2>2 DEF KernelInv, HandlersInv
  <2>4. SwitchInv'
    BY <1>1, <1>2, <2>1, <2>2 DEF KernelInv, SwitchInv
  <2> QED BY <1>1, <2>3, <2>4, HandlerKeeps
<1>4. CASE portYIELD
  <2>1. isr[1].at = "yield" /\ GoTo("clear") /\ pendsv' = TRUE /\ UNCHANGED task_context_switch_required
    BY <1>4 DEF portYIELD, InHandler, g_rtos
  <2>2. isr' \in Seq(ActiveHandler) /\ Counted' = Counted
    BY <1>1, <2>1, GoToIs DEF KernelInv
  <2>3. HandlersInv'
    BY <1>1, <2>1, <2>2 DEF KernelInv, HandlersInv
  <2>4. SwitchInv'
    BY <2>1 DEF SwitchInv
  <2> QED BY <1>1, <2>3, <2>4, HandlerKeeps
<1>5. CASE ClearSwitchRequired
  <2>1. /\ isr[1].at = "clear" /\ GoTo("leave") /\ pendsv' = pendsv
        /\ task_context_switch_required' = FALSE
    BY <1>5 DEF ClearSwitchRequired, InHandler
  <2>2. isr' \in Seq(ActiveHandler) /\ Counted' = Counted /\ 1 \in DOMAIN isr
    BY <1>1, <2>1, GoToIs DEF KernelInv
  <2>3. pendsv = TRUE
    BY <2>1, <2>2 DEF KernelInv, HandlersInv
  <2>4. HandlersInv'
    BY <1>1, <2>1, <2>2, <2>3 DEF KernelInv, HandlersInv
  <2>5. SwitchInv'
    BY <2>1, <2>3 DEF SwitchInv
  <2> QED BY <1>1, <2>4, <2>5, HandlerKeeps
<1> QED BY <1>3, <1>4, <1>5

\* PendSV runs when no handler is active.
LEMMA SwitchStep ==
  ASSUME KernelInv, SwitchContext
  PROVE  KernelInv'
<1>1. /\ isr = <<>> /\ pendsv /\ pendsv' = FALSE /\ current' \in HighestOf(ready)
      /\ UNCHANGED <<state, nested_ISR_count, task_context_switch_required, requested, isr, tsk_id,
                     tsk_state, prio, base, ready, waits, left, count, owner, pc, creating>>
  BY DEF SwitchContext, g_rtos, tcb, prios, blocking, sync, hardware, program
<1>2. HandlersInv'
  BY <1>1, HandlersStay DEF KernelInv, HandlersInv
<1>3. TasksInv'
  BY <1>1 DEF KernelInv, TasksInv
<1>4. MutexInv'
  BY <1>1, MutexStays DEF KernelInv, MutexInv
<1>5. current' \in HighestOf(ready)'
  BY <1>1 DEF HighestOf, PriorityOf
<1>6. StartInv' /\ SwitchInv'
  BY <1>1, <1>5, DifferentThings DEF KernelInv, StartInv, SwitchInv, TasksInv, HighestOf
<1> QED BY <1>2, <1>3, <1>4, <1>6 DEF KernelInv

\* A tick wakes tasks whose wait has a timeout: a wait for a mutex has none.
LEMMA TickStep ==
  ASSUME KernelInv, Tick
  PROVE  KernelInv'
<1>1. /\ isr = <<>> /\ state = "SCHED_STARTED"
      /\ left' = [t \in Tasks |-> IF left[t] > 0 THEN left[t] - 1 ELSE left[t]]
      /\ UNCHANGED <<state, nested_ISR_count, task_context_switch_required, requested, isr, tsk_id,
                     tsk_state, prio, base, current, waits, count, owner, pc, creating>>
      /\ ready' = ready \cup Expiring \cup (IF timer_left = 1 THEN {TimerTask} ELSE {})
      /\ pendsv' = (pendsv \/ \E t \in ready' \ {current} : PriorityOf(t) >= PriorityOf(current))
  BY DEF Tick, rtos_scheduler_started, g_rtos, tcb, prios, sync, hardware, program
<1>2. pendsv' \in BOOLEAN
  BY <1>1
<1>3. HandlersInv'
  BY <1>1, <1>2, HandlersStay DEF KernelInv, HandlersInv
<1>4. TasksInv'
  <2>1. \A t \in Tasks : tsk_state[t] = "none" => t \notin Expiring
    BY DEF Expiring, KernelInv, TasksInv
  <2>2. ready' \subseteq Tasks \cup {Idle, TimerTask}
    BY <1>1 DEF Expiring, KernelInv, TasksInv
  <2>3. \A t \in Tasks : tsk_state[t] = "none" => t \notin ready'
    BY <1>1, <2>1, DifferentThings DEF KernelInv, TasksInv
  <2>4. left' \in [Tasks -> Int]
    BY <1>1 DEF KernelInv, TasksInv
  <2> QED BY <1>1, <2>2, <2>3, <2>4 DEF KernelInv, TasksInv
<1>5. MutexInv'
  <2>1. ASSUME NEW t \in Tasks, waits[t] \in Mutexes
        PROVE  (t \in ready <=> t \in ready') /\ left'[t] = left[t]
    <3>1. left[t] = -1
      BY <2>1 DEF KernelInv, MutexInv, portMAX_DELAY
    <3>2. t \notin Expiring /\ t # TimerTask
      BY <3>1, DifferentThings DEF Expiring
    <3> QED BY <1>1, <3>1, <3>2
  <2> QED BY <1>1, <2>1, MutexStays DEF KernelInv, MutexInv
<1>6. SwitchInv'
  <2>1. SUFFICES ASSUME ~pendsv' PROVE current \in HighestOf(ready)'
    BY <1>1 DEF SwitchInv
  <2>2. /\ ~pendsv /\ \A t \in ready' \ {current} : ~(PriorityOf(t) >= PriorityOf(current))
    BY <1>1, <2>1, Zenon
  <2>3. nested_ISR_count = 0 /\ DOMAIN isr = {}
    BY <1>1, NoHandlers DEF KernelInv
  <2>4. current \in ready
    BY <1>1, <2>2, <2>3 DEF KernelInv, SwitchInv, HighestOf
  <2>5. \A t : PriorityOf(t)' = PriorityOf(t) /\ PriorityOf(t) \in Int
    BY <1>1, PriorityIsNumber DEF PriorityOf, KernelInv, TasksInv
  <2> QED BY <1>1, <2>2, <2>4, <2>5 DEF HighestOf
<1>7. StartInv'
  BY <1>1 DEF KernelInv, StartInv
<1> QED BY <1>3, <1>4, <1>5, <1>6, <1>7 DEF KernelInv

-----------------------------------------------------------------------------
(* The invariant *)

\* The invariant holds at reset.
LEMMA KernelInit ==
  ASSUME Init
  PROVE  KernelInv
<1>1. HandlersInv
  <2>1. Counted = {} /\ isr = <<>>
    BY DEF Init, Counted
  <2>2. <<>> \in Seq(ActiveHandler) /\ DOMAIN isr = {}
    BY <2>1
  <2>3. nested_ISR_count = Cardinality(Counted)
    BY <2>1, FS_EmptySet DEF Init
  <2> QED BY <2>1, <2>2, <2>3 DEF Init, HandlersInv
<1>2. StartInv /\ SwitchInv
  BY DEF Init, StartInv, SwitchInv
<1>3. TasksInv
  BY DEF Init, TasksInv, InTaskInit, Contexts
<1>4. MutexInv
  BY DifferentThings DEF Init, MutexInv, Objects
<1> QED BY <1>1, <1>2, <1>3, <1>4 DEF KernelInv

\* Every step keeps the invariant.
LEMMA KernelStep ==
  ASSUME OneMutex, KernelInv, [Next]_vars
  PROVE  KernelInv'
<1>1. CASE MainNext
  BY <1>1, MainStep
<1>2. CASE CreationNext
  BY <1>2, NumberStep, CreateStep, TagStep DEF CreationNext
<1>3. CASE TaskNext
  BY <1>3, WaitStep, DelayStep, StopReturnsStep, TimerCallStep, SignalStep, ChangePriorityStep,
     UnlockStep DEF TaskNext
<1>4. CASE TimerNext
  BY <1>4, TimerStep
<1>5. CASE IsrNext
  BY <1>5, RaiseStep, DispatchStep, EnterStep, BodyStep, ExitStep, SwitchRequestStep, LeaveStep
     DEF IsrNext
<1>6. CASE SwitchContext \/ Tick
  BY <1>6, SwitchStep, TickStep
<1>7. CASE UNCHANGED vars
  <2>1. /\ HandlerFrame
        /\ UNCHANGED <<nested_ISR_count, task_context_switch_required, pendsv, requested, isr, ready, prio,
                       current, state, tsk_id, tsk_state, base, waits, left, count, owner, pc,
                       creating>>
    BY <1>7 DEF tcb, sync, program, vars, g_rtos, sched, prios, blocking, hardware, HandlerFrame
  <2>2. HandlersInv'
    BY <2>1, HandlersStay DEF KernelInv, HandlersInv
  <2>3. SwitchInv' /\ StartInv'
    BY <2>1 DEF KernelInv, SwitchInv, StartInv, HighestOf, PriorityOf
  <2>4. TasksInv'
    BY <2>1 DEF KernelInv, TasksInv
  <2>5. MutexInv'
    BY <2>1, MutexStays DEF KernelInv, MutexInv
  <2> QED BY <2>2, <2>3, <2>4, <2>5 DEF KernelInv
<1> QED BY <1>1, <1>2, <1>3, <1>4, <1>5, <1>6, <1>7 DEF Next

\* The invariant holds of every reachable state.
LEMMA KernelInvHolds ==
  ASSUME OneMutex
  PROVE  Spec => []KernelInv
<1> QED BY KernelInit, KernelStep, PTL DEF Spec

\* With one mutex, the running task has the highest priority of the ready ones
\* whenever no handler is active and no switch is pending: rtos_enter_isr,
\* rtos_exit_isr and the signals between them never lose a switch.
THEOREM SwitchesCorrect ==
  ASSUME OneMutex
  PROVE  Spec => []HighestPriorityRuns
<1>1. KernelInv => HighestPriorityRuns
  BY NoHandlers DEF KernelInv, SwitchInv, HighestPriorityRuns, rtos_scheduler_started
<1> QED BY <1>1, KernelInvHolds, PTL

-----------------------------------------------------------------------------
(* Priority inheritance *)

\* A step that keeps the holders and their priorities and adds no waiter.
LEMMA QuietInversion ==
  ASSUME NEW m \in Mutexes, NEW w \in Tasks, UNCHANGED <<owner, prio>>,
         \A u \in Tasks : u \in Waiters(m)' => u \in Waiters(m), Inverted(m, w)'
  PROVE  Inverted(m, w)
BY DEF Inverted

\* Neither who takes a mutex nor who blocks on it leaves its holder below a waiter.
LEMMA TakeInversion ==
  ASSUME KernelInv, OneMutex, NEW t \in Tasks, Runs(t), NEW o \in Objects, NEW ticks,
         xSemaphoreTake(t, o, ticks), o \in Mutexes => ticks # 0 /\ owner[o] # t,
         NEW m \in Mutexes, NEW w \in Tasks, Inverted(m, w)'
  PROVE  Inverted(m, w)
<1>1. /\ t \in ready /\ \A u \in ready : PriorityOf(u) <= PriorityOf(t)
      /\ prio \in [Tasks -> Int] /\ waits \in [Tasks -> Objects \cup {None}]
      /\ None \notin Objects /\ m \in Objects /\ count[o] \in Int /\ (o \in Mutexes => o = m)
  BY Running, DifferentThings DEF HighestOf, KernelInv, TasksInv, MutexInv, Objects, OneMutex
<1>2. CASE o \notin Mutexes
  <2>1. UNCHANGED owner
    BY <1>2 DEF xSemaphoreTake, Take, TimeOut, Block, sync
  <2>2. UNCHANGED prio
    BY <1>1, <1>2 DEF xSemaphoreTake, Take, TimeOut, Block, Inherit, prios
  <2>3. \A u \in Tasks : u \in Waiters(m)' => u \in Waiters(m)
    BY <1>1, <1>2 DEF xSemaphoreTake, Take, TimeOut, Block, blocking, Waiters
  <2> QED BY <2>1, <2>2, <2>3, QuietInversion
<1>3. CASE o = m /\ count[o] > 0
  <2>1. /\ Take(t, o) /\ count[m] = 1
    BY <1>1, <1>3 DEF xSemaphoreTake, KernelInv, MutexInv
  <2>2. /\ owner'[m] = t /\ UNCHANGED <<prio, ready>> /\ waits' = [waits EXCEPT ![t] = None]
    BY <1>3, <2>1 DEF Take, prios, KernelInv, MutexInv
  <2>3. w \in Waiters(m)
    BY <1>1, <2>2 DEF Inverted, Waiters
  <2>4. PICK x \in ready \cap Tasks : prio[x] >= prio[w]
    BY <2>1, <2>3 DEF KernelInv, MutexInv
  <2>5. prio[x] <= prio[t] /\ prio[x] \in Int /\ prio[t] \in Int /\ prio[w] \in Int
    BY <1>1 DEF PriorityOf
  <2> QED BY <2>2, <2>4, <2>5 DEF Inverted
<1>4. CASE o = m /\ count[o] = 0
  <2>1. Block(t, m, ticks) /\ owner[m] # t
    BY <1>4 DEF xSemaphoreTake
  <2>2. PICK h \in Tasks : owner[m] = h /\ h # t
    BY <1>4, <2>1 DEF KernelInv, MutexInv
  <2>3. /\ UNCHANGED owner /\ waits' = [waits EXCEPT ![t] = m] /\ ready' = ready \ {t}
        /\ Inherit(t, m)
    BY <2>1 DEF Block, sync
  <2>4. /\ prio'[h] >= prio[h] /\ prio'[h] >= prio[t] /\ prio'[h] \in Int
        /\ \A u \in Tasks \ {h} : prio'[u] = prio[u]
    BY <1>1, <2>2, <2>3 DEF Inherit
  <2>5. w # h /\ prio'[w] = prio[w] /\ prio'[h] < prio'[w] /\ w \in Waiters(m)'
    <3>1. waits[h] # m /\ waits'[h] # m
      BY <1>1, <2>2, <2>3 DEF KernelInv, MutexInv
    <3>2. w # h
      BY <3>1 DEF Inverted, Waiters
    <3> QED BY <2>2, <2>3, <2>4, <3>2 DEF Inverted
  <2>6. w # t /\ w \in Waiters(m)
    BY <1>1, <2>3, <2>4, <2>5 DEF Waiters
  <2>7. prio[h] < prio[w]
    BY <1>1, <2>4, <2>5
  <2> QED BY <2>2, <2>6, <2>7 DEF Inverted
<1>5. CASE o = m /\ count[o] < 0
  <2>1. UNCHANGED <<owner, prio, waits, ready>>
    <3>1. ~(count[o] > 0) /\ count[o] # 0
      BY <1>1, <1>5
    <3> QED BY <3>1 DEF xSemaphoreTake, blocking, prios, sync
  <2>2. \A u \in Tasks : u \in Waiters(m)' => u \in Waiters(m)
    BY <2>1 DEF Waiters
  <2> QED BY <2>1, <2>2, QuietInversion
<1> QED BY <1>1, <1>2, <1>3, <1>4, <1>5

\* The step that puts the holder of a mutex below a waiter lowers the holder's priority.
LEMMA InversionStep ==
  ASSUME KernelInv, OneMutex, [Next]_vars, NEW m \in Mutexes, NEW w \in Tasks,
         Inverted(m, w)', ~Inverted(m, w)
  PROVE  \E h \in Tasks : owner[m] = h /\ owner'[m] = h /\ base'[h] < base[h]
<1>1. ASSUME UNCHANGED <<owner, prio, waits>>,
             \A u \in Tasks : u \in ready => u \in ready' \/ waits[u] = None
      PROVE  FALSE
  <2>1. \A u \in Tasks : u \in Waiters(m)' => u \in Waiters(m)
    BY <1>1, DifferentThings DEF Waiters, Objects
  <2> QED BY <1>1, <2>1, QuietInversion
<1>2. CASE MainNext
  <2>1. UNCHANGED <<owner, prio, waits>> /\ ready \subseteq ready'
    BY <1>2 DEF MainNext, rtos_init, rtos_semaphore_init, rtos_mutex_init, rtos_timer_init,
                rtos_scheduler_start, SemaphoreInit, prios, blocking, sync
  <2> QED BY <1>1, <2>1
<1>3. ASSUME NEW c \in Contexts, xTaskCreateStatic(c) PROVE FALSE
  <2> DEFINE t == creating[c]
  <2>1. t \in Tasks /\ tsk_state[t] = "none"
    BY <1>3 DEF xTaskCreateStatic, KernelInv, TasksInv, InTaskInit
  <2>2. UNCHANGED <<owner, waits>> /\ ready' = ready \cup {t}
        /\ prio' = [prio EXCEPT ![t] = Priority[t]]
    BY <1>3 DEF xTaskCreateStatic, sync
  <2>3. waits[t] = None /\ owner[m] # t /\ m # None
    BY <2>1, DifferentThings DEF KernelInv, TasksInv, MutexInv, Objects
  <2>4. \A u \in Tasks \ {t} : prio'[u] = prio[u]
    BY <2>2 DEF KernelInv, TasksInv
  <2> HIDE DEF t
  <2>5. w # t /\ w \in Waiters(m)
    BY <2>2, <2>3 DEF Inverted, Waiters
  <2> QED BY <2>2, <2>3, <2>4, <2>5 DEF Inverted
<1>4. ASSUME NEW c \in Contexts,
             \/ \E t \in Tasks : TakeTaskNumber(c, t)
             \/ StoreNextNumber(c) \/ vTaskSetApplicationTaskTag(c) \/ InitTaskSemaphore(c)
      PROVE  FALSE
  <2>1. UNCHANGED <<owner, prio, waits, ready>>
    BY <1>4 DEF TakeTaskNumber, StoreNextNumber, vTaskSetApplicationTaskTag, InitTaskSemaphore,
                SemaphoreInit, prios, blocking, sync
  <2> QED BY <1>1, <2>1
<1>5. ASSUME NEW t \in Tasks,
             \/ rtos_task_semaphore_wait(t) \/ Retry(t) \/ \E n \in Mutexes : rtos_mutex_lock(t, n)
             \/ \E s \in Semaphores : rtos_semaphore_wait(t, s) \/ rtos_semaphore_wait_timeout(t, s)
      PROVE  FALSE
  <2>1. PICK o \in Objects :
          Runs(t) /\ \E ticks : xSemaphoreTake(t, o, ticks)
                                /\ (o \in Mutexes => ticks # 0 /\ owner[o] # t)
    <3>1. \A s \in Semaphores \cup Tasks : s \in Objects /\ s \notin Mutexes
      BY DifferentThings DEF Objects
    <3>2. waits[t] \in Mutexes => left[t] # 0 /\ owner[waits[t]] # t
      BY DEF KernelInv, MutexInv, portMAX_DELAY
    <3>3. waits[t] \in Objects \cup {None}
      BY DEF KernelInv, TasksInv
    <3> QED BY <1>5, <3>1, <3>2, <3>3
            DEF rtos_task_semaphore_wait, Retry, rtos_mutex_lock, rtos_mutex_is_mine, Calls,
                rtos_semaphore_wait, rtos_semaphore_wait_timeout, portMAX_DELAY, Objects
  <2> QED BY <2>1, TakeInversion
<1>6. ASSUME NEW t \in Tasks, NEW n \in Mutexes, rtos_mutex_unlock(t, n) PROVE FALSE
  <2>1. n = m /\ owner' = [owner EXCEPT ![n] = None]
    BY <1>6 DEF rtos_mutex_unlock, OneMutex
  <2>2. owner'[m] = None /\ None \notin Tasks
    BY <2>1, DifferentThings DEF KernelInv, MutexInv, Objects
  <2> QED BY <2>2 DEF Inverted
<1>7. ASSUME NEW t \in Tasks, rtos_task_change_self_priority(t)
      PROVE  \E h \in Tasks : owner[m] = h /\ owner'[m] = h /\ base'[h] < base[h]
  <2>1. PICK new \in NewPriorities[t] \ {base[t]} :
          /\ prio' = IF prio[t] = base[t] THEN [prio EXCEPT ![t] = new] ELSE prio
          /\ base' = [base EXCEPT ![t] = new]
    BY <1>7 DEF rtos_task_change_self_priority
  <2>2. waits[t] = None /\ m # None /\ UNCHANGED <<owner, waits, ready>>
    BY <1>7, DifferentThings DEF rtos_task_change_self_priority, Calls, blocking, sync, Objects
  <2>3. /\ prio \in [Tasks -> Int] /\ base \in [Tasks -> Int] /\ new \in Int
        /\ \A u \in Tasks \ {t} : prio'[u] = prio[u]
    BY <2>1, Priorities DEF KernelInv, TasksInv, HIGHEST_APP_TASK_PRIORITY, LOWEST_APP_TASK_PRIORITY,
                            configMAX_PRIORITIES
  <2>4. w # t /\ w \in Waiters(m) /\ prio'[w] = prio[w]
    <3>1. w # t /\ w \in Waiters(m)
      BY <2>2 DEF Inverted, Waiters
    <3> QED BY <2>3, <3>1
  <2>5. PICK h \in Tasks : owner[m] = h /\ owner'[m] = h /\ prio'[h] < prio'[w]
    BY <2>2 DEF Inverted
  <2>6. ~(prio[h] < prio[w])
    BY <2>4, <2>5 DEF Inverted
  <2>7. h = t /\ prio[t] = base[t] /\ prio'[t] = new /\ base'[t] = new
    BY <2>1, <2>3, <2>4, <2>5, <2>6
  <2> QED BY <2>3, <2>4, <2>5, <2>6, <2>7
<1>8. ASSUME NEW t \in Tasks,
             \/ rtos_task_delay(t) \/ SignalFromTask(t)
             \/ rtos_timer_start(t) \/ rtos_timer_stop(t) \/ StopReturns(t)
      PROVE  FALSE
  <2>1. /\ UNCHANGED <<owner, prio, waits>>
        /\ \A u \in Tasks \ {t} : u \in ready => u \in ready'
        /\ waits[t] # None => t \in ready \/ t \notin ready'
        /\ ready \subseteq ready' \/ waits[t] = None
    BY <1>8 DEF rtos_task_delay, Calls, SignalFromTask, rtos_timer_start, rtos_timer_stop, StopReturns,
                Send, rtos_semaphore_signal, Signal, Give, prios, sync, blocking
  <2> QED BY <1>1, <2>1
<1>9. CASE TimerNext
  <2>1. UNCHANGED <<owner, prio, waits>> /\ ready \ {TimerTask} \subseteq ready'
    BY <1>9 DEF TimerNext, TimerExpires, TimerTaskWaits, TimerCommand, TimerCommandsDone,
                TimerTaskFrame, rtos_timer_internal_callback, rtos_semaphore_signal, Signal, Give,
                prios, blocking, sync
  <2> QED BY <1>1, <2>1, DifferentThings
<1>10. CASE IsrNext
  <2>1. UNCHANGED <<owner, prio, waits>> /\ ready \subseteq ready'
    BY <1>10 DEF IsrNext, Raise, Dispatch, rtos_enter_isr, HandlerBody, rtos_exit_isr,
                 CheckSwitchRequired, portYIELD, ClearSwitchRequired, LeaveHandler, IsrFrame,
                 rtos_semaphore_signal, Signal, Give, prios, blocking, sync
  <2> QED BY <1>1, <2>1
<1>11. CASE SwitchContext \/ Tick \/ UNCHANGED vars
  <2>1. UNCHANGED <<owner, prio, waits>> /\ ready \subseteq ready'
    BY <1>11 DEF SwitchContext, Tick, vars, prios, blocking, sync
  <2> QED BY <1>1, <2>1
<1> QED BY <1>2, <1>3, <1>4, <1>5, <1>6, <1>7, <1>8, <1>9, <1>10, <1>11
        DEF Next, CreationNext, TaskNext

\* With one mutex, whatever its holder, its waiters and the other tasks do, only the
\* holder puts itself below a task that is blocked in rtos_mutex_lock, when it lowers
\* its own priority with rtos_task_change_self_priority.
THEOREM InheritanceCorrect ==
  ASSUME OneMutex
  PROVE  Spec => NoPriorityInversion
<1>1. KernelInv /\ [Next]_vars =>
        \A m \in Mutexes, w \in Tasks :
          Inverted(m, w)' =>
            Inverted(m, w) \/ \E h \in Tasks : owner[m] = h /\ owner'[m] = h /\ base'[h] < base[h]
  BY InversionStep
<1>2. KernelInv /\ [Next]_vars =>
        [\A m \in Mutexes, w \in Tasks :
           Inverted(m, w)' => \/ Inverted(m, w)
                              \/ \E h \in Tasks : owner[m] = h /\ owner'[m] = h
                                                   /\ base'[h] < base[h]]_vars
  BY <1>1
<1> QED BY <1>2, KernelInvHolds, PTL DEF Spec, NoPriorityInversion

-----------------------------------------------------------------------------
(* A task that creates tasks of lower priority only *)

\* The count of a semaphore or mutex is not lost again.
LEMMA CountStays ==
  ASSUME KernelInv, [Next]_vars, NEW o \in Objects
  PROVE  count'[o] >= 0 \/ count'[o] >= count[o]
<1>1. count \in [Objects -> Int]
  BY DEF KernelInv, MutexInv
<1>2. CASE count' = count
  BY <1>1, <1>2
<1>3. ASSUME NEW x, NEW n \in Int, count' = [count EXCEPT ![x] = n], n >= 0
      PROVE  count'[o] >= 0 \/ count'[o] >= count[o]
  BY <1>1, <1>3
<1>4. ASSUME NEW x, NEW w, Give(x, w)
      PROVE  count'[o] >= 0 \/ count'[o] >= count[o]
  <2>1. CASE x = o
    <3>1. count'[o] = Min({count[o] + 1, Limit(o)})
      BY <1>1, <1>4, <2>1 DEF Give
    <3> QED BY <1>1, <3>1, LimitIsPositive, LeastOfTwo
  <2>2. CASE x # o
    BY <1>1, <1>4, <2>2 DEF Give
  <2> QED BY <2>1, <2>2
<1>5. ASSUME NEW t, NEW x, NEW ticks, xSemaphoreTake(t, x, ticks)
      PROVE  count'[o] >= 0 \/ count'[o] >= count[o]
  <2>1. CASE count[x] > 0 /\ Take(t, x)
    <3>1. count' = [count EXCEPT ![x] = count[x] - 1]
      BY <2>1 DEF Take
    <3> QED BY <1>1, <2>1, <3>1
  <2>2. CASE count' = count
    BY <1>1, <2>2
  <2> QED BY <1>5, <2>1, <2>2 DEF xSemaphoreTake, TimeOut, Block, sync
<1>6. CASE MainNext
  <2>1. \A s \in Semaphores : InitialCount[s] \in Int /\ InitialCount[s] >= 0
    BY InitialCounts
  <2>2. CASE \E s \in Semaphores : count' = [count EXCEPT ![s] = InitialCount[s]]
    BY <1>3, <2>1, <2>2
  <2>3. CASE \E m \in Mutexes : count' = [count EXCEPT ![m] = 1]
    <3>1. count'[o] = 1 \/ count'[o] = count[o]
      BY <1>1, <2>3
    <3> QED BY <1>1, <3>1
  <2> QED BY <1>2, <1>6, <2>2, <2>3
          DEF MainNext, rtos_init, rtos_semaphore_init, SemaphoreInit, rtos_mutex_init,
              rtos_timer_init, rtos_scheduler_start, sync
<1>7. CASE CreationNext
  BY <1>2, <1>3, <1>7
     DEF CreationNext, TakeTaskNumber, StoreNextNumber, xTaskCreateStatic,
         vTaskSetApplicationTaskTag, InitTaskSemaphore, SemaphoreInit, sync
<1>8. CASE TaskNext
  BY <1>2, <1>4, <1>5, <1>8
     DEF TaskNext, rtos_task_change_self_priority, rtos_task_delay, rtos_task_semaphore_wait,
         rtos_mutex_lock, rtos_mutex_unlock, rtos_semaphore_wait, rtos_semaphore_wait_timeout,
         SignalFromTask, rtos_semaphore_signal, Signal, rtos_timer_start, rtos_timer_stop,
         StopReturns, Send, Retry, sync
<1>9. CASE TimerNext \/ IsrNext
  BY <1>2, <1>4, <1>9
     DEF TimerNext, TimerExpires, TimerTaskWaits, TimerCommand, TimerCommandsDone,
         rtos_timer_internal_callback, IsrNext, Raise, Dispatch, rtos_enter_isr, HandlerBody,
         rtos_exit_isr, CheckSwitchRequired, portYIELD, ClearSwitchRequired, LeaveHandler,
         rtos_semaphore_signal, Signal, sync
<1>10. CASE SwitchContext \/ Tick \/ UNCHANGED vars
  BY <1>2, <1>10 DEF SwitchContext, Tick, vars, sync
<1> QED BY <1>6, <1>7, <1>8, <1>9, <1>10 DEF Next

\* A task that runs has its tag and its semaphore.
LEMMA RunningIsFinished ==
  ASSUME KernelInv, CreationInv, NEW t \in Tasks, Runs(t)
  PROVE  tsk_state[t] = "tagged" /\ count[t] >= 0
<1>1. t \in HighestOf(ready) /\ t \in ready /\ pc[Main] = "app"
  BY Running, DifferentThings DEF HighestOf, KernelInv, StartInv
<1>2. tsk_state[t] \in {"created", "tagged"} /\ count[t] \in Int
  BY <1>1 DEF KernelInv, TasksInv, MutexInv, Objects
<1>3. ASSUME Unfinished(t) PROVE FALSE
  <2>1. PICK c \in Contexts : Creates(c, t) /\ (c = Main \/ (c \in ready /\ prio[c] > prio[t]))
    BY <1>3 DEF CreationInv
  <2>2. c \in Tasks /\ c \in ready /\ prio[c] > prio[t]
    BY <1>1, <2>1 DEF Contexts, Creates
  <2>3. prio[c] <= prio[t] /\ prio[c] \in Int /\ prio[t] \in Int
    BY <1>1, <2>2 DEF HighestOf, PriorityOf, KernelInv, TasksInv
  <2> QED BY <2>2, <2>3
<1> QED BY <1>2, <1>3 DEF Unfinished

\* A step that disturbs neither a creator nor the task it creates.
LEMMA CreationStays ==
  ASSUME KernelInv, CreationInv, prio' \in [Tasks -> Int],
         \A t \in Tasks : Unfinished(t)' =>
           /\ Unfinished(t) /\ waits'[t] = waits[t] /\ prio'[t] <= prio[t]
           /\ \A m \in Mutexes : owner'[m] = t => owner[m] = t,
         \A c \in Contexts, t \in Tasks : Creates(c, t) /\ Unfinished(t)' => Creates(c, t)',
         \A c \in Tasks : pc[c] \in InTaskInit /\ waits[c] = None /\ c \in ready =>
           c \in ready' /\ waits'[c] = None /\ prio'[c] >= prio[c],
         \A c \in Contexts : Progress(c)',
         \A c \in Tasks : \/ Starts(c)'
                          \/ creating'[c] = creating[c]
                             /\ (pc'[c] \in {"number", "create"} => pc[c] \in {"number", "create"})
  PROVE  CreationInv'
<1>1. prio \in [Tasks -> Int]
  BY DEF KernelInv, TasksInv
<1>2. ASSUME NEW t \in Tasks, Unfinished(t)'
      PROVE  /\ waits'[t] = None /\ \A m \in Mutexes : owner'[m] # t
             /\ \E c \in Contexts :
                  /\ Creates(c, t)'
                  /\ c = Main \/ (c \in ready' /\ waits'[c] = None /\ prio'[c] > prio'[t])
  <2>1. waits[t] = None /\ \A m \in Mutexes : owner[m] # t
    BY <1>2 DEF CreationInv
  <2>2. PICK c \in Contexts :
          /\ Creates(c, t)
          /\ c = Main \/ (c \in ready /\ waits[c] = None /\ prio[c] > prio[t])
    BY <1>2 DEF CreationInv
  <2>3. Creates(c, t)'
    BY <1>2, <2>2
  <2>4. c = Main \/ (c \in ready' /\ waits'[c] = None /\ prio'[c] > prio'[t])
    BY <1>1, <1>2, <2>2 DEF Contexts, Creates, InTaskInit
  <2> QED BY <1>2, <2>1, <2>3, <2>4
<1>3. ASSUME NEW c \in Tasks PROVE Starts(c)'
  <2> SUFFICES ASSUME pc[c] \in {"number", "create"}, creating'[c] = creating[c]
               PROVE  c \in ready' /\ waits'[c] = None /\ prio'[c] > Priority[creating[c]]
    BY DEF Starts
  <2>1. c \in ready /\ waits[c] = None /\ prio[c] > Priority[creating[c]]
    BY DEF CreationInv, Starts
  <2>2. Priority[creating[c]] \in Int
    BY Priorities DEF KernelInv, TasksInv, InTaskInit, Contexts, HIGHEST_APP_TASK_PRIORITY,
                      LOWEST_APP_TASK_PRIORITY, configMAX_PRIORITIES
  <2> QED BY <1>1, <2>1, <2>2 DEF InTaskInit
<1> QED BY <1>2, <1>3 DEF CreationInv

\* No step makes a task unfinished again.
LEMMA FinishedStays ==
  ASSUME KernelInv, KernelInv', [Next]_vars, UNCHANGED tsk_state, NEW t \in Tasks, Unfinished(t)'
  PROVE  Unfinished(t)
<1>1. t \in Objects
  BY DEF Objects
<1>2. count[t] \in Int /\ count'[t] \in Int
  BY <1>1 DEF KernelInv, MutexInv
<1>3. count'[t] >= 0 \/ count'[t] >= count[t]
  BY <1>1, CountStays
<1> QED BY <1>2, <1>3 DEF Unfinished

\* The steps that change no priority, owner or tag and only make tasks ready, but
\* for the one that takes it.
LEMMA QuietStep ==
  ASSUME KernelInv, KernelInv', CreationInv, [Next]_vars, NEW r,
         r \in Tasks => ~Unfinished(r) /\ (pc[r] \notin InTaskInit \/ waits[r] # None),
         UNCHANGED <<tsk_state, prio, owner, creating>>,
         \A c \in Contexts : /\ pc[c] \in InTaskInit => pc'[c] = pc[c]
                             /\ pc'[c] \in InTaskInit => pc'[c] = pc[c],
         \A t \in Tasks \ {r} : waits'[t] = waits[t] /\ (t \in ready => t \in ready')
  PROVE  CreationInv'
<1>1. prio \in [Tasks -> Int] /\ prio' \in [Tasks -> Int]
  BY DEF KernelInv, TasksInv
<1>2. \A t \in Tasks : Unfinished(t)' => Unfinished(t)
  BY FinishedStays
<1>3. \A c \in Contexts, t \in Tasks : Creates(c, t) => Creates(c, t)'
  BY DEF Creates, InTaskInit
<1>4. \A c \in Contexts : Progress(c)'
  BY DEF CreationInv, Progress, InTaskInit
<1>5. \A t \in Tasks : prio[t] \in Int /\ prio'[t] = prio[t]
  BY <1>1
<1>6. \A t \in Tasks : Unfinished(t)' =>
           /\ Unfinished(t) /\ waits'[t] = waits[t] /\ prio'[t] <= prio[t]
           /\ \A m \in Mutexes : owner'[m] = t => owner[m] = t
  BY <1>2, <1>5
<1>7. \A c \in Tasks : pc[c] \in InTaskInit /\ waits[c] = None /\ c \in ready =>
           c \in ready' /\ waits'[c] = None /\ prio'[c] >= prio[c]
  BY <1>5
<1>8. \A c \in Tasks : creating'[c] = creating[c]
                       /\ (pc'[c] \in {"number", "create"} => pc[c] \in {"number", "create"})
  BY DEF Contexts, InTaskInit
<1> QED BY <1>1, <1>3, <1>4, <1>6, <1>7, <1>8, CreationStays

\* A wait lowers no priority and lets no creator go.
LEMMA CreationWait ==
  ASSUME KernelInv, KernelInv', CreationInv, [Next]_vars, NEW t \in Tasks, NEW o, NEW ticks,
         Runs(t), pc[t] \notin InTaskInit \/ waits[t] # None, xSemaphoreTake(t, o, ticks)
  PROVE  CreationInv'
<1>1. ~Unfinished(t)
  <2>1. tsk_state[t] = "tagged" /\ count[t] >= 0 /\ count[t] \in Int
    BY RunningIsFinished DEF KernelInv, MutexInv, Objects
  <2> QED BY <2>1 DEF Unfinished
<1>2. UNCHANGED <<tsk_state, pc, creating>>
  BY DEF xSemaphoreTake, tcb, program
<1>3. \A u \in Tasks \ {t} : waits'[u] = waits[u] /\ (u \in ready => u \in ready')
  BY DEF xSemaphoreTake, Take, TimeOut, Block, blocking, KernelInv, TasksInv
<1>4. prio' \in [Tasks -> Int] /\ prio \in [Tasks -> Int]
  BY DEF KernelInv, TasksInv
<1>5. \A u \in Tasks : prio'[u] >= prio[u] /\ (Unfinished(u) => prio'[u] = prio[u])
  <2>1. CASE prio' = prio
    BY <1>4, <2>1
  <2>2. CASE Inherit(t, o)
    BY <1>4, <2>2 DEF Inherit, CreationInv
  <2> QED BY <2>1, <2>2 DEF xSemaphoreTake, Take, TimeOut, Block, prios
<1>6. \A u \in Tasks \ {t}, m \in Mutexes : owner'[m] = u => owner[m] = u
  <2>1. owner' = owner \/ owner' = [owner EXCEPT ![o] = t]
    BY DEF xSemaphoreTake, Take, TimeOut, Block, sync
  <2> QED BY <2>1 DEF KernelInv, MutexInv
<1>7. \A u \in Tasks : Unfinished(u)' => Unfinished(u) /\ u # t
  BY <1>1, <1>2, FinishedStays
<1>8. \A c \in Contexts, u \in Tasks : Creates(c, u) => Creates(c, u)'
  BY <1>2 DEF Creates
<1>9. \A c \in Contexts : Progress(c)'
  BY <1>2 DEF CreationInv, Progress
<1>10. \A u \in Tasks : Unfinished(u)' =>
           /\ Unfinished(u) /\ waits'[u] = waits[u] /\ prio'[u] <= prio[u]
           /\ \A m \in Mutexes : owner'[m] = u => owner[m] = u
  BY <1>3, <1>4, <1>5, <1>6, <1>7
<1>11. \A c \in Tasks : pc[c] \in InTaskInit /\ waits[c] = None /\ c \in ready =>
           c \in ready' /\ waits'[c] = None /\ prio'[c] >= prio[c]
  BY <1>3, <1>5
<1> QED BY <1>2, <1>4, <1>8, <1>9, <1>10, <1>11, CreationStays

\* A task that starts to create another is above it.
LEMMA CreationNumber ==
  ASSUME ~CreatesAbove, KernelInv, KernelInv', CreationInv, [Next]_vars, NEW c \in Contexts,
         (\E t \in Tasks : TakeTaskNumber(c, t)) \/ StoreNextNumber(c)
  PROVE  CreationInv'
<1>1. Runs(c) /\ (c \in Tasks => c \in ready)
  BY Running, DifferentThings DEF TakeTaskNumber, StoreNextNumber, Calls, HighestOf
<1>2. UNCHANGED <<prio, ready, waits, owner, tsk_state>>
  BY DEF TakeTaskNumber, StoreNextNumber, tcb, prios, blocking, sync
<1>3. \/ /\ pc[c] = "number" /\ pc' = [pc EXCEPT ![c] = "create"] /\ creating' = creating
      \/ \E t \in Tasks : /\ pc[c] = "app" /\ pc' = [pc EXCEPT ![c] = "number"]
                          /\ creating' = [creating EXCEPT ![c] = t]
                          /\ c \in Tasks => waits[c] = None /\ prio[c] > Priority[t]
  BY DifferentThings DEF TakeTaskNumber, StoreNextNumber, Calls
<1>4. \A t \in Tasks : Unfinished(t)' => Unfinished(t)
  BY <1>2, FinishedStays
<1>5. /\ pc[c] \notin {"tag", "semaphore"} /\ pc'[c] \in {"number", "create"}
      /\ \A d \in Contexts \ {c} : pc'[d] = pc[d] /\ creating'[d] = creating[d]
  <2>1. pc[c] \in {"app", "number"} /\ \E x \in {"number", "create"} : pc' = [pc EXCEPT ![c] = x]
    BY <1>3
  <2>2. creating' = creating \/ \E t : creating' = [creating EXCEPT ![c] = t]
    BY <1>3
  <2> QED BY <2>1, <2>2 DEF KernelInv, TasksInv
<1>6. \A d \in Contexts, t \in Tasks : Creates(d, t) => Creates(d, t)'
  BY <1>5 DEF Creates
<1>7. \A d \in Contexts : Progress(d)'
  BY <1>2, <1>5 DEF CreationInv, Progress
<1>8. \A t \in Tasks : prio'[t] = prio[t] /\ prio[t] \in Int
  BY <1>2 DEF KernelInv, TasksInv
<1>9. ASSUME NEW d \in Tasks
      PROVE  \/ Starts(d)'
             \/ creating'[d] = creating[d]
                /\ (pc'[d] \in {"number", "create"} => pc[d] \in {"number", "create"})
  <2>1. CASE d # c
    BY <1>5, <2>1 DEF Contexts
  <2>2. CASE d = c /\ pc[c] = "number" /\ creating' = creating
    BY <2>2
  <2>3. CASE d = c /\ ~(pc[c] = "number" /\ creating' = creating)
    <3>1. PICK t \in Tasks : /\ creating' = [creating EXCEPT ![c] = t]
                             /\ waits[c] = None /\ prio[c] > Priority[t]
      BY <1>3, <2>3
    <3>2. creating'[d] = t
      BY <2>3, <3>1 DEF KernelInv, TasksInv
    <3> QED BY <1>1, <1>2, <2>3, <3>1, <3>2 DEF Starts
  <2> QED BY <2>1, <2>2, <2>3
<1>10. prio' \in [Tasks -> Int]
  BY DEF KernelInv, TasksInv
<1>11. \A t \in Tasks : Unfinished(t)' =>
           /\ Unfinished(t) /\ waits'[t] = waits[t] /\ prio'[t] <= prio[t]
           /\ \A m \in Mutexes : owner'[m] = t => owner[m] = t
  BY <1>2, <1>4, <1>8
<1>12. \A d \in Tasks : pc[d] \in InTaskInit /\ waits[d] = None /\ d \in ready =>
           d \in ready' /\ waits'[d] = None /\ prio'[d] >= prio[d]
  BY <1>2, <1>8
<1> QED BY <1>6, <1>7, <1>9, <1>10, <1>11, <1>12, CreationStays

\* A new task has its creator above it.
LEMMA CreationCreate ==
  ASSUME KernelInv, KernelInv', CreationInv, NEW c \in Contexts, xTaskCreateStatic(c)
  PROVE  CreationInv'
<1>0. PICK t \in Tasks : t = creating[c]
  BY DEF xTaskCreateStatic, KernelInv, TasksInv, InTaskInit
<1>1. /\ Runs(c) /\ pc[c] = "create" /\ tsk_state[t] = "none" /\ c # t
      /\ c \in Tasks => waits[c] = None /\ c \in ready /\ prio[c] > Priority[t]
  <2>1. /\ Runs(c) /\ pc[c] = "create" /\ tsk_state[t] = "none"
        /\ c \in Tasks => waits[c] = None /\ c \in ready /\ prio[c] > Priority[t]
    BY <1>0 DEF xTaskCreateStatic, KernelInv, TasksInv, CreationInv, Starts
  <2> QED BY <2>1, DifferentThings DEF KernelInv, TasksInv
<1>2. /\ UNCHANGED <<waits, owner, count, creating>>
      /\ prio' = [prio EXCEPT ![t] = Priority[t]] /\ ready' = ready \cup {t}
      /\ pc' = [pc EXCEPT ![c] = "tag"]
      /\ tsk_state' = [tsk_state EXCEPT ![t] = "created"]
  BY <1>0 DEF xTaskCreateStatic, sync
<1>3. /\ waits[t] = None /\ \A m \in Mutexes : owner[m] # t
      /\ prio \in [Tasks -> Int] /\ Creates(c, t)'
  BY <1>0, <1>1, <1>2 DEF KernelInv, TasksInv, MutexInv, Creates
<1>4. c = Main \/ (c \in ready' /\ waits'[c] = None /\ prio'[c] > prio'[t])
  BY <1>1, <1>2, <1>3 DEF Contexts
<1>5. ASSUME NEW u \in Tasks \ {t}, Unfinished(u)'
      PROVE  /\ waits'[u] = None /\ \A m \in Mutexes : owner'[m] # u
             /\ \E d \in Contexts :
                  /\ Creates(d, u)'
                  /\ d = Main \/ (d \in ready' /\ waits'[d] = None /\ prio'[d] > prio'[u])
  <2>1. Unfinished(u)
    BY <1>2, <1>5 DEF KernelInv, TasksInv, Unfinished
  <2>2. PICK d \in Contexts :
          /\ Creates(d, u)
          /\ d = Main \/ (d \in ready /\ waits[d] = None /\ prio[d] > prio[u])
    BY <2>1 DEF CreationInv
  <2>3. d # c /\ Creates(d, u)'
    BY <1>1, <1>2, <2>2 DEF KernelInv, TasksInv, Creates
  <2>4. d # Main => d \in Tasks \ {t}
    BY <1>1, <2>2 DEF Contexts, KernelInv, TasksInv
  <2>5. d = Main \/ (d \in ready' /\ waits'[d] = None /\ prio'[d] > prio'[u])
    BY <1>2, <1>3, <2>2, <2>4
  <2> QED BY <1>2, <2>1, <2>3, <2>5 DEF CreationInv
<1>6. ASSUME NEW d \in Contexts PROVE Progress(d)'
  <2>1. tsk_state'[t] = "created" /\ \A u \in Tasks \ {t} : tsk_state'[u] = tsk_state[u]
    BY <1>2 DEF KernelInv, TasksInv
  <2>2. CASE d = c
    BY <1>0, <1>2, <2>1, <2>2 DEF KernelInv, TasksInv, Progress
  <2>3. CASE d # c
    <3>1. pc'[d] = pc[d] /\ creating'[d] = creating[d]
      BY <1>2, <2>3 DEF KernelInv, TasksInv
    <3>2. pc[d] \in {"tag", "semaphore"} => creating[d] \in Tasks \ {t}
      BY <1>1 DEF KernelInv, TasksInv, CreationInv, Progress, InTaskInit
    <3> QED BY <2>1, <3>1, <3>2 DEF CreationInv, Progress
  <2> QED BY <2>2, <2>3
<1>7. waits'[t] = None /\ \A m \in Mutexes : owner'[m] # t
  BY <1>2, <1>3
<1>8. ASSUME NEW u \in Tasks, Unfinished(u)'
      PROVE  /\ waits'[u] = None /\ \A m \in Mutexes : owner'[m] # u
             /\ \E d \in Contexts :
                  /\ Creates(d, u)'
                  /\ d = Main \/ (d \in ready' /\ waits'[d] = None /\ prio'[d] > prio'[u])
  <2>1. CASE u = t
    BY <1>3, <1>4, <1>7, <2>1
  <2> QED BY <1>5, <1>8, <2>1
<1>9. ASSUME NEW d \in Tasks PROVE Starts(d)'
  <2> SUFFICES ASSUME pc'[d] \in {"number", "create"}
               PROVE  d \in ready' /\ waits'[d] = None /\ prio'[d] > Priority[creating'[d]]
    BY DEF Starts
  <2>1. pc[d] \in {"number", "create"}
    BY <1>2 DEF KernelInv, TasksInv, Contexts
  <2>2. d \in ready /\ waits[d] = None /\ prio[d] > Priority[creating[d]]
    BY <2>1 DEF CreationInv, Starts
  <2>3. d # t /\ prio'[d] = prio[d]
    BY <1>1, <1>2, <2>2 DEF KernelInv, TasksInv
  <2> QED BY <1>2, <2>2, <2>3
<1> QED BY <1>6, <1>8, <1>9 DEF CreationInv

\* The steps of a task that is not itself creating one.
LEMMA CreationTask ==
  ASSUME KernelInv, KernelInv', CreationInv, [Next]_vars, NEW t \in Tasks,
         \/ rtos_task_change_self_priority(t) \/ rtos_task_delay(t) \/ rtos_task_semaphore_wait(t)
         \/ \E m \in Mutexes : rtos_mutex_lock(t, m) \/ rtos_mutex_unlock(t, m)
         \/ \E s \in Semaphores : rtos_semaphore_wait(t, s) \/ rtos_semaphore_wait_timeout(t, s)
         \/ SignalFromTask(t)
         \/ rtos_timer_start(t) \/ rtos_timer_stop(t) \/ StopReturns(t)
         \/ Retry(t)
  PROVE  CreationInv'
<1>1. Runs(t) => tsk_state[t] = "tagged" /\ ~Unfinished(t)
  <2>1. Runs(t) => tsk_state[t] = "tagged" /\ count[t] >= 0 /\ count[t] \in Int
    BY RunningIsFinished DEF KernelInv, MutexInv, Objects
  <2> QED BY <2>1 DEF Unfinished
<1>2. Calls(t) => Runs(t) /\ pc[t] \notin InTaskInit
  BY DEF Calls, InTaskInit
<1>3. CASE \/ rtos_task_semaphore_wait(t) \/ Retry(t) \/ \E m \in Mutexes : rtos_mutex_lock(t, m)
           \/ \E s \in Semaphores : rtos_semaphore_wait(t, s) \/ rtos_semaphore_wait_timeout(t, s)
  BY <1>2, <1>3, CreationWait
     DEF rtos_task_semaphore_wait, Retry, rtos_mutex_lock, rtos_semaphore_wait,
         rtos_semaphore_wait_timeout
<1>4. CASE \/ rtos_task_delay(t) \/ SignalFromTask(t) \/ rtos_timer_start(t) \/ rtos_timer_stop(t)
           \/ StopReturns(t)
  <2>1. ~Unfinished(t) /\ pc[t] \notin InTaskInit
    BY <1>1, <1>2, <1>4
       DEF rtos_task_delay, SignalFromTask, rtos_timer_start, rtos_timer_stop, StopReturns, InTaskInit
  <2>2. /\ UNCHANGED <<tsk_state, prio, owner, creating, waits>>
        /\ \A u \in Tasks \ {t} : u \in ready => u \in ready'
    BY <1>4 DEF rtos_task_delay, SignalFromTask, rtos_timer_start, rtos_timer_stop, StopReturns, Send,
                rtos_semaphore_signal, Signal, Give, tcb, prios, sync, blocking, program
  <2>3. \A c \in Contexts : /\ pc[c] \in InTaskInit => pc'[c] = pc[c]
                            /\ pc'[c] \in InTaskInit => pc'[c] = pc[c]
    <3>1. pc' = pc \/ pc' = [pc EXCEPT ![t] = "sent"] \/ pc' = [pc EXCEPT ![t] = "app"]
      BY <1>4 DEF rtos_task_delay, SignalFromTask, rtos_timer_start, rtos_timer_stop, StopReturns, program
    <3> QED BY <2>1, <3>1 DEF KernelInv, TasksInv, InTaskInit
  <2> QED BY <2>1, <2>2, <2>3, QuietStep
<1>5. CASE rtos_task_change_self_priority(t) \/ \E m \in Mutexes : rtos_mutex_unlock(t, m)
  <2>1. ~Unfinished(t) /\ pc[t] \notin InTaskInit
    BY <1>1, <1>2, <1>5 DEF rtos_task_change_self_priority, rtos_mutex_unlock
  <2>2. /\ UNCHANGED <<tsk_state, pc, creating, waits>> /\ ready \subseteq ready'
    BY <1>5 DEF rtos_task_change_self_priority, rtos_mutex_unlock, Give, tcb, blocking, program
  <2>3. prio \in [Tasks -> Int] /\ prio' \in [Tasks -> Int]
    BY DEF KernelInv, TasksInv
  <2>4. \A u \in Tasks \ {t} : prio'[u] = prio[u]
    <3>1. prio' = prio \/ \E p : prio' = [prio EXCEPT ![t] = p]
      BY <1>5 DEF rtos_task_change_self_priority, rtos_mutex_unlock
    <3> QED BY <2>3, <3>1
  <2>5. \A u \in Tasks, m \in Mutexes : owner'[m] = u => owner[m] = u
    <3>1. owner' = owner \/ \E n \in Mutexes : owner' = [owner EXCEPT ![n] = None]
      BY <1>5 DEF rtos_task_change_self_priority, rtos_mutex_unlock, sync
    <3> QED BY <3>1, DifferentThings DEF KernelInv, MutexInv, Objects
  <2>6. \A u \in Tasks : Unfinished(u)' => Unfinished(u) /\ u # t
    BY <2>1, <2>2, FinishedStays
  <2>7. \A c \in Contexts, u \in Tasks : Creates(c, u) => Creates(c, u)'
    BY <2>2 DEF Creates
  <2>8. \A c \in Contexts : Progress(c)'
    BY <2>2 DEF CreationInv, Progress
  <2>9. \A u \in Tasks : Unfinished(u)' =>
             /\ Unfinished(u) /\ waits'[u] = waits[u] /\ prio'[u] <= prio[u]
             /\ \A m \in Mutexes : owner'[m] = u => owner[m] = u
    BY <2>2, <2>3, <2>4, <2>5, <2>6
  <2>10. \A c \in Tasks : pc[c] \in InTaskInit /\ waits[c] = None /\ c \in ready =>
             c \in ready' /\ waits'[c] = None /\ prio'[c] >= prio[c]
    BY <2>1, <2>2, <2>3, <2>4
  <2> QED BY <2>2, <2>3, <2>7, <2>8, <2>9, <2>10, CreationStays
<1> QED BY <1>3, <1>4, <1>5

\* Every step keeps CreationInv.
LEMMA CreationStep ==
  ASSUME OneMutex, ~CreatesAbove, KernelInv, KernelInv', CreationInv, [Next]_vars
  PROVE  CreationInv'
<1>1. CASE MainNext
  <2>1. UNCHANGED <<tsk_state, prio, owner, creating, pc, waits>> /\ ready \subseteq ready'
    BY <1>1 DEF MainNext, rtos_init, rtos_semaphore_init, rtos_mutex_init, rtos_timer_init,
                rtos_scheduler_start, SemaphoreInit, tcb, prios, blocking, sync, program
  <2> QED BY <2>1, QuietStep, DifferentThings
<1>2. ASSUME NEW c \in Contexts,
             \/ \E t \in Tasks : TakeTaskNumber(c, t)
             \/ StoreNextNumber(c) \/ xTaskCreateStatic(c)
      PROVE  CreationInv'
  BY <1>2, CreationNumber, CreationCreate
<1>3. ASSUME NEW c \in Contexts, vTaskSetApplicationTaskTag(c) PROVE CreationInv'
  <2>1. /\ UNCHANGED <<prio, waits, ready, owner, creating, count>>
        /\ pc[c] = "tag" /\ pc' = [pc EXCEPT ![c] = "semaphore"]
        /\ tsk_state' = [tsk_state EXCEPT ![creating[c]] = "tagged"]
    BY <1>3 DEF vTaskSetApplicationTaskTag, prios, blocking, sync
  <2>2. /\ prio \in [Tasks -> Int] /\ tsk_state \in [Tasks -> {"none", "created", "tagged"}]
        /\ pc \in [Contexts -> {"app", "number", "create", "tag", "semaphore", "sent"}] /\ creating[c] \in Tasks
    BY <2>1 DEF KernelInv, TasksInv, InTaskInit
  <2>3. PICK u \in Tasks : u = creating[c]
    BY <2>2
  <2>4. tsk_state' = [tsk_state EXCEPT ![u] = "tagged"] /\ tsk_state'[u] = "tagged"
    BY <2>1, <2>2, <2>3
  <2>5. tsk_state[u] \in {"created", "tagged"}
    BY <2>1, <2>2, <2>3 DEF CreationInv, Progress
  <2>6. \A t \in Tasks : Unfinished(t)' => Unfinished(t)
    BY <2>1, <2>2, <2>4, <2>5 DEF Unfinished
  <2>7. \A d \in Contexts : pc'[d] = IF d = c THEN "semaphore" ELSE pc[d]
    BY <2>1, <2>2
  <2>8. \A d \in Contexts, t \in Tasks : Creates(d, t) => Creates(d, t)'
    BY <2>1, <2>7 DEF Creates
  <2>9. \A d \in Contexts : Progress(d)'
    BY <2>1, <2>2, <2>3, <2>4, <2>7 DEF CreationInv, Progress
  <2>10. \A t \in Tasks : prio'[t] = prio[t] /\ prio[t] \in Int
    BY <2>1, <2>2
  <2>11. \A d \in Tasks : creating'[d] = creating[d]
           /\ (pc'[d] \in {"number", "create"} => pc[d] \in {"number", "create"})
    BY <2>1, <2>7 DEF Contexts
  <2> QED BY <2>1, <2>2, <2>6, <2>8, <2>9, <2>10, <2>11, CreationStays
<1>4. ASSUME NEW c \in Contexts, InitTaskSemaphore(c) PROVE CreationInv'
  <2>1. /\ UNCHANGED <<prio, waits, ready, owner, tsk_state>>
        /\ pc[c] = "semaphore" /\ pc' = [pc EXCEPT ![c] = "app"]
        /\ creating' = [creating EXCEPT ![c] = None]
        /\ count' = [count EXCEPT ![creating[c]] = 0]
    BY <1>4 DEF InitTaskSemaphore, SemaphoreInit, tcb, prios, blocking
  <2>2. /\ prio \in [Tasks -> Int] /\ count \in [Objects -> Int]
        /\ pc \in [Contexts -> {"app", "number", "create", "tag", "semaphore", "sent"}]
        /\ creating \in [Contexts -> Tasks \cup {None}] /\ creating[c] \in Tasks
    BY <2>1 DEF KernelInv, TasksInv, MutexInv, InTaskInit
  <2>3. \A d \in Contexts \ {c} : pc'[d] = pc[d] /\ creating'[d] = creating[d]
    BY <2>1, <2>2
  <2>4. \A t \in Tasks : Unfinished(t)' => Unfinished(t)
    BY <2>1, FinishedStays
  <2>5. \A t \in Tasks : Unfinished(t)' => t # creating[c]
    <3>1. count'[creating[c]] = 0 /\ tsk_state'[creating[c]] = "tagged"
      BY <2>1, <2>2 DEF CreationInv, Progress, Objects
    <3> QED BY <3>1 DEF Unfinished
  <2>6. \A d \in Contexts, t \in Tasks : Creates(d, t) /\ Unfinished(t)' => Creates(d, t)'
    BY <2>3, <2>5 DEF Creates
  <2>7. \A d \in Contexts : Progress(d)'
    BY <2>1, <2>2, <2>3 DEF CreationInv, Progress
  <2>8. \A t \in Tasks : prio'[t] = prio[t] /\ prio[t] \in Int
    BY <2>1, <2>2
  <2>9. \A d \in Tasks : Starts(d)' \/ (creating'[d] = creating[d] /\ pc'[d] = pc[d])
    BY <2>1, <2>2, <2>3 DEF Starts, Contexts
  <2> QED BY <2>1, <2>2, <2>4, <2>6, <2>7, <2>8, <2>9, CreationStays
<1>5. ASSUME NEW t \in Tasks,
             \/ rtos_task_change_self_priority(t) \/ rtos_task_delay(t) \/ rtos_task_semaphore_wait(t)
             \/ \E m \in Mutexes : rtos_mutex_lock(t, m) \/ rtos_mutex_unlock(t, m)
             \/ \E s \in Semaphores : rtos_semaphore_wait(t, s) \/ rtos_semaphore_wait_timeout(t, s)
             \/ SignalFromTask(t)
             \/ rtos_timer_start(t) \/ rtos_timer_stop(t) \/ StopReturns(t)
             \/ Retry(t)
      PROVE  CreationInv'
  BY <1>5, CreationTask
<1>6. CASE TimerNext
  <2>1. UNCHANGED <<tsk_state, prio, owner, creating, pc, waits>> /\ ready \ {TimerTask} \subseteq ready'
    BY <1>6 DEF TimerNext, TimerExpires, TimerTaskWaits, TimerCommand, TimerCommandsDone,
                TimerTaskFrame, rtos_timer_internal_callback, rtos_semaphore_signal, Signal, Give, tcb,
                prios, blocking, sync, program
  <2> QED BY <2>1, QuietStep, DifferentThings
<1>7. CASE IsrNext
  <2>1. UNCHANGED <<tsk_state, prio, owner, creating, pc, waits>> /\ ready \subseteq ready'
    BY <1>7 DEF IsrNext, Raise, Dispatch, rtos_enter_isr, HandlerBody, rtos_exit_isr,
                CheckSwitchRequired, portYIELD, ClearSwitchRequired, LeaveHandler, IsrFrame,
                rtos_semaphore_signal, Signal, Give, tcb, prios, blocking, sync, program
  <2> QED BY <2>1, QuietStep, DifferentThings
<1>8. CASE SwitchContext \/ Tick \/ UNCHANGED vars
  <2>1. UNCHANGED <<tsk_state, prio, owner, creating, pc, waits>> /\ ready \subseteq ready'
    BY <1>8 DEF SwitchContext, Tick, vars, tcb, prios, blocking, sync, program
  <2> QED BY <2>1, QuietStep, DifferentThings
<1> QED BY <1>1, <1>2, <1>3, <1>4, <1>5, <1>6, <1>7, <1>8 DEF Next, CreationNext, TaskNext

\* At reset no task exists.
LEMMA CreationInit ==
  ASSUME Init
  PROVE  CreationInv
BY DEF Init, CreationInv, Unfinished, Progress, Starts, Contexts

\* A handler between the increment and the decrement is counted.
LEMMA HandlerIsCounted ==
  ASSUME KernelInv, InHandler("body") \/ InHandler("exit")
  PROVE  nested_ISR_count # 0
<1>1. Len(isr) \in Nat \ {0} /\ isr[1].at \in {"body", "exit"}
  BY DEF InHandler, KernelInv, HandlersInv
<1>2. Len(isr) + 1 - Len(isr) = 1
  BY <1>1
<1>3. Len(isr) \in Counted /\ Counted \subseteq 1 .. Len(isr)
  BY <1>1, <1>2 DEF Counted
<1>4. IsFiniteSet(Counted) /\ Cardinality(Counted) # 0
  <2>1. IsFiniteSet(1 .. Len(isr))
    BY <1>1, FS_Interval
  <2> QED BY <1>3, <2>1, FS_Subset, FS_EmptySet
<1> QED BY <1>4 DEF KernelInv, HandlersInv

\* A caller in a task.
LEMMA RunningKnow ==
  ASSUME KernelInv, CreationInv, NEW t \in Tasks, Calls(t)
  PROVE  rtos_task_self_id = {tsk_id[t]}
BY Running, RunningIsFinished DEF Calls, rtos_task_self_id

\* With one mutex, and where a task creates only tasks of lower priorities, a
\* caller of rtos_task_self_id in a task is told its own number and one in a
\* handler that it is no task.
THEOREM SelfIdCorrect ==
  ASSUME OneMutex, ~CreatesAbove
  PROVE  Spec => []KnowsItself
<1>1. Init => KernelInv /\ CreationInv
  BY KernelInit, CreationInit
<1>2. KernelInv /\ CreationInv /\ [Next]_vars => KernelInv' /\ CreationInv'
  BY KernelStep, CreationStep
<1>3. KernelInv /\ CreationInv => KnowsItself
  <2>1. ASSUME KernelInv, InHandler("body") PROVE rtos_task_self_id = {INVALID_TASK_ID}
    BY <2>1, HandlerIsCounted DEF rtos_task_self_id
  <2> QED BY <2>1, RunningKnow DEF KnowsItself
<1> QED BY <1>1, <1>2, <1>3, PTL DEF Spec

-----------------------------------------------------------------------------
(* Wake-ups *)

\* The tasks that were woken from a wait for an object and have not tried again.
Woken(o) == {t \in Tasks \cap ready : waits[t] = o}

WokenInv == \A o \in Objects : Waiters(o) # {} => count[o] <= Cardinality(Woken(o))

\* Fewer tasks wait and more are woken, or there is nothing to take, or nobody waits.
LEMMA WokenStays ==
  ASSUME KernelInv, KernelInv', WokenInv, NEW o \in Objects,
         \/ /\ count'[o] <= count[o]
            /\ \A t \in Tasks : waits'[t] = o /\ t \notin ready' => waits[t] = o /\ t \notin ready
            /\ \A t \in Tasks : waits[t] = o /\ t \in ready => waits'[t] = o /\ t \in ready'
         \/ count'[o] <= 0 \/ Waiters(o)' = {}
  PROVE  Waiters(o)' # {} => count'[o] <= Cardinality(Woken(o)')
<1>1. /\ IsFiniteSet(Woken(o)) /\ IsFiniteSet(Woken(o)')
      /\ Cardinality(Woken(o)) \in Nat /\ Cardinality(Woken(o)') \in Nat
  <2>1. Woken(o) \subseteq Tasks /\ Woken(o)' \subseteq Tasks
    BY DEF Woken
  <2> QED BY <2>1, FiniteTasks, FS_Subset, FS_CardinalityType
<1>2. count[o] \in Int /\ count'[o] \in Int
  BY DEF KernelInv, MutexInv
<1>3. CASE /\ count'[o] <= count[o]
           /\ \A t \in Tasks : waits'[t] = o /\ t \notin ready' => waits[t] = o /\ t \notin ready
           /\ \A t \in Tasks : waits[t] = o /\ t \in ready => waits'[t] = o /\ t \in ready'
  <2>1. Waiters(o)' \subseteq Waiters(o) /\ Woken(o) \subseteq Woken(o)'
    BY <1>3 DEF Waiters, Woken
  <2>2. Cardinality(Woken(o)) <= Cardinality(Woken(o)')
    BY <1>1, <2>1, FS_Subset
  <2> QED BY <1>1, <1>2, <1>3, <2>1, <2>2 DEF WokenInv
<1> QED BY <1>1, <1>2, <1>3

\* A step that gives and takes nothing and lets no woken task go.
LEMMA WokenFrame ==
  ASSUME KernelInv, KernelInv', WokenInv, UNCHANGED <<count, waits>>,
         \A t \in Tasks : waits[t] # None /\ t \in ready => t \in ready',
         \A t \in Tasks : waits[t] # None /\ t \notin ready' => t \notin ready
  PROVE  WokenInv'
<1> SUFFICES ASSUME NEW o \in Objects
             PROVE  Waiters(o)' # {} => count'[o] <= Cardinality(Woken(o)')
  BY DEF WokenInv
<1>1. o # None /\ count[o] \in Int
  BY DifferentThings DEF KernelInv, MutexInv
<1> QED BY <1>1, WokenStays

\* A give that finds a waiter wakes it.
LEMMA WokenGive ==
  ASSUME KernelInv, KernelInv', WokenInv, NEW o \in Objects, NEW w \in Wakes(o), Give(o, w)
  PROVE  WokenInv'
<1>1. /\ count' = [count EXCEPT ![o] = Min({count[o] + 1, Limit(o)})]
      /\ ready' = ready \cup ({w} \ {None}) /\ UNCHANGED waits
      /\ count \in [Objects -> Int] /\ None \notin Objects /\ None \notin Tasks
  BY DifferentThings DEF Give, KernelInv, MutexInv, Objects
<1>2. count'[o] = IF count[o] + 1 <= Limit(o) THEN count[o] + 1 ELSE Limit(o)
  BY <1>1, LimitIsPositive, LeastOfTwo
<1>3. /\ count[o] < Limit(o) /\ Waiters(o) # {} => w \in Waiters(o)
      /\ w = None \/ (w \in Waiters(o) /\ w \in Tasks)
  BY WokenWaits DEF Wakes, HighestOf, Waiters
<1>4. ASSUME NEW p \in Objects \ {o}
      PROVE  Waiters(p)' # {} => count'[p] <= Cardinality(Woken(p)')
  <2>1. count'[p] = count[p] /\ count[p] \in Int
    BY <1>1
  <2>2. w # None => waits[w] # p
    BY <1>3 DEF Waiters
  <2> QED BY <1>1, <2>1, <2>2, WokenStays
<1>5. Waiters(o)' # {} => count'[o] <= Cardinality(Woken(o)')
  <2>1. CASE w \in Waiters(o)
    <3>1. Woken(o)' = Woken(o) \cup {w} /\ w \notin Woken(o) /\ w \in Tasks
      BY <1>1, <2>1 DEF Woken, Waiters
    <3>2. IsFiniteSet(Woken(o)) /\ Cardinality(Woken(o)) \in Nat
      <4>1. Woken(o) \subseteq Tasks
        BY DEF Woken
      <4> QED BY <4>1, FiniteTasks, FS_Subset, FS_CardinalityType
    <3>3. Cardinality(Woken(o)') = Cardinality(Woken(o)) + 1
      BY <3>1, <3>2, FS_AddElement
    <3>4. count[o] <= Cardinality(Woken(o))
      BY <2>1 DEF WokenInv
    <3>5. count'[o] <= count[o] + 1 /\ count'[o] \in Int /\ count[o] \in Int
      BY <1>1, <1>2, LimitIsPositive
    <3> QED BY <3>2, <3>3, <3>4, <3>5
  <2>2. CASE w = None /\ Waiters(o) = {}
    <3>1. Waiters(o)' = {}
      BY <1>1, <2>2 DEF Waiters
    <3> QED BY <3>1
  <2>3. CASE w = None /\ ~(count[o] < Limit(o))
    <3>1. count'[o] <= count[o]
      BY <1>1, <1>2, <2>3, LimitIsPositive
    <3> QED BY <1>1, <2>3, <3>1, WokenStays
  <2> QED BY <1>3, <2>1, <2>2, <2>3
<1> QED BY <1>4, <1>5 DEF WokenInv

\* A take uses up at most one unit, and a woken task that takes is one of the woken.
LEMMA WokenTake ==
  ASSUME KernelInv, KernelInv', WokenInv, NEW t \in Tasks, NEW o \in Objects, NEW ticks,
         Runs(t), waits[t] \in {o, None}, xSemaphoreTake(t, o, ticks)
  PROVE  WokenInv'
<1>1. /\ t \in ready /\ count \in [Objects -> Int] /\ waits \in [Tasks -> Objects \cup {None}]
      /\ None \notin Objects
  BY Running, DifferentThings DEF HighestOf, KernelInv, MutexInv, TasksInv
<1>2. /\ \A p \in Objects \ {o} : count'[p] = count[p]
      /\ \A u \in Tasks \ {t} : waits'[u] = waits[u] /\ (u \in ready <=> u \in ready')
  BY <1>1 DEF xSemaphoreTake, Take, TimeOut, Block, blocking, sync
<1>3. waits'[t] \in {o, None}
  BY <1>1 DEF xSemaphoreTake, Take, TimeOut, Block, blocking
<1>4. ASSUME NEW p \in Objects \ {o}
      PROVE  Waiters(p)' # {} => count'[p] <= Cardinality(Woken(p)')
  BY <1>1, <1>2, <1>3, WokenStays
<1>5. Waiters(o)' # {} => count'[o] <= Cardinality(Woken(o)')
  <2>1. CASE count[o] > 0
    <3>1. Take(t, o) /\ count[o] \in Int
      BY <1>1, <2>1 DEF xSemaphoreTake
    <3>2. count'[o] = count[o] - 1 /\ waits'[t] = None /\ ready' = ready
      BY <1>1, <3>1 DEF Take
    <3>3. Waiters(o)' = Waiters(o) /\ Woken(o)' = Woken(o) \ {t}
      BY <1>1, <1>2, <3>2 DEF Waiters, Woken
    <3>4. IsFiniteSet(Woken(o)) /\ Cardinality(Woken(o)) \in Nat
      <4>1. Woken(o) \subseteq Tasks
        BY DEF Woken
      <4> QED BY <4>1, FiniteTasks, FS_Subset, FS_CardinalityType
    <3>5. Cardinality(Woken(o)') >= Cardinality(Woken(o)) - 1
      BY <3>3, <3>4, FS_RemoveElement
    <3>6. Cardinality(Woken(o)') \in Int
      BY <3>3, <3>4, FS_RemoveElement
    <3> QED BY <3>1, <3>2, <3>3, <3>4, <3>5, <3>6 DEF WokenInv
  <2>2. CASE ~(count[o] > 0)
    <3>1. count'[o] = count[o]
      BY <2>2 DEF xSemaphoreTake, TimeOut, Block, sync
    <3> QED BY <1>1, <2>2, <3>1, WokenStays
  <2> QED BY <2>1, <2>2
<1> QED BY <1>4, <1>5 DEF WokenInv

\* Every step keeps WokenInv.
LEMMA WokenStep ==
  ASSUME OneMutex, KernelInv, KernelInv', WokenInv, [Next]_vars
  PROVE  WokenInv'
<1>1. CASE MainNext
  <2>1. UNCHANGED waits /\ ready \subseteq ready' /\ state # "SCHED_STARTED"
    BY <1>1, Running DEF MainNext, rtos_init, rtos_semaphore_init, rtos_mutex_init, rtos_timer_init,
       rtos_scheduler_start, SemaphoreInit, SettingUp, Calls, blocking, sync, rtos_initialized
  <2>2. \A o \in Objects : Waiters(o)' = {}
    BY <2>1, DifferentThings DEF KernelInv, StartInv, Waiters
  <2> QED BY <2>2 DEF WokenInv
<1>2. ASSUME NEW c \in Contexts, xTaskCreateStatic(c) PROVE WokenInv'
  <2>1. /\ UNCHANGED <<count, waits>> /\ ready' = ready \cup {creating[c]}
        /\ creating[c] \in Tasks /\ waits[creating[c]] = None
    BY <1>2 DEF xTaskCreateStatic, KernelInv, TasksInv, sync
  <2> QED BY <2>1, WokenFrame
<1>3. ASSUME NEW c \in Contexts,
             \/ \E t \in Tasks : TakeTaskNumber(c, t)
             \/ StoreNextNumber(c) \/ vTaskSetApplicationTaskTag(c)
      PROVE  WokenInv'
  <2>1. UNCHANGED <<count, waits, ready>>
    BY <1>3 DEF TakeTaskNumber, StoreNextNumber, vTaskSetApplicationTaskTag, blocking, sync
  <2> QED BY <2>1, WokenFrame
<1>4. ASSUME NEW c \in Contexts, InitTaskSemaphore(c) PROVE WokenInv'
  <2>1. UNCHANGED <<waits, ready>> /\ count' = [count EXCEPT ![creating[c]] = 0]
    BY <1>4 DEF InitTaskSemaphore, SemaphoreInit, blocking
  <2>2. \A o \in Objects : count'[o] <= 0 \/ count'[o] = count[o]
    BY <2>1 DEF KernelInv, MutexInv
  <2>3. \A o \in Objects : count'[o] <= 0 \/ count'[o] <= count[o]
    BY <2>2 DEF KernelInv, MutexInv
  <2> QED BY <2>1, <2>3, WokenStays DEF WokenInv
<1>5. ASSUME NEW o \in Tasks \cup Semaphores, Signal(o) PROVE WokenInv'
  BY <1>5, WokenGive DEF Signal, Objects
<1>6. CASE TaskNext
  <2> SUFFICES ASSUME NEW t \in Tasks,
             \/ rtos_task_change_self_priority(t) \/ rtos_task_delay(t) \/ rtos_task_semaphore_wait(t)
             \/ \E m \in Mutexes : rtos_mutex_lock(t, m) \/ rtos_mutex_unlock(t, m)
             \/ \E s \in Semaphores : rtos_semaphore_wait(t, s) \/ rtos_semaphore_wait_timeout(t, s)
             \/ SignalFromTask(t)
             \/ rtos_timer_start(t) \/ rtos_timer_stop(t) \/ StopReturns(t)
             \/ Retry(t)
               PROVE  WokenInv'
    BY <1>6 DEF TaskNext
  <2>1. Calls(t) => Runs(t) /\ waits[t] = None
    BY DEF Calls
  <2>2. CASE \/ rtos_task_semaphore_wait(t) \/ Retry(t) \/ \E m \in Mutexes : rtos_mutex_lock(t, m)
             \/ \E s \in Semaphores : rtos_semaphore_wait(t, s) \/ rtos_semaphore_wait_timeout(t, s)
    <3>1. waits[t] \in Objects \cup {None}
      BY DEF KernelInv, TasksInv
    <3> QED BY <2>1, <2>2, <3>1, WokenTake
            DEF rtos_task_semaphore_wait, Retry, rtos_mutex_lock, rtos_semaphore_wait,
                rtos_semaphore_wait_timeout, Objects
  <2>3. CASE \E m \in Mutexes : rtos_mutex_unlock(t, m)
    BY <2>3, WokenGive DEF rtos_mutex_unlock, Objects
  <2>4. CASE SignalFromTask(t)
    BY <1>5, <2>4 DEF SignalFromTask, rtos_semaphore_signal
  <2>5. CASE \/ rtos_task_change_self_priority(t) \/ rtos_task_delay(t) \/ rtos_timer_start(t)
             \/ rtos_timer_stop(t) \/ StopReturns(t)
    <3>1. /\ UNCHANGED <<count, waits>> /\ \A u \in Tasks \ {t} : u \in ready => u \in ready'
          /\ \A u \in Tasks : u \in ready' => u \in ready
      BY <2>5, DifferentThings DEF rtos_task_change_self_priority, rtos_task_delay, rtos_timer_start,
         rtos_timer_stop, StopReturns, Send, blocking, sync
    <3>2. waits[t] # None => t \in ready'
      BY <2>1, <2>5, Running, DifferentThings
         DEF rtos_task_change_self_priority, rtos_task_delay, rtos_timer_start, rtos_timer_stop,
             StopReturns, blocking, HighestOf
    <3> QED BY <3>1, <3>2, WokenFrame
  <2> QED BY <2>2, <2>3, <2>4, <2>5
<1>7. CASE TimerNext
  <2>1. \/ Signal(TimerSignals)
        \/ UNCHANGED <<count, waits>> /\ ready \ {TimerTask} \subseteq ready' /\ ready' \subseteq ready
    BY <1>7 DEF TimerNext, TimerExpires, TimerTaskWaits, TimerCommand, TimerCommandsDone,
                rtos_timer_internal_callback, rtos_semaphore_signal, blocking, sync
  <2> QED BY <1>5, <2>1, SignalsOfHandlers, DifferentThings, WokenFrame
<1>8. CASE IsrNext
  <2>1. \/ \E irq \in Interrupts : Signal(SignalledBy[irq])
        \/ UNCHANGED <<count, waits, ready>>
    BY <1>8 DEF IsrNext, Raise, Dispatch, rtos_enter_isr, HandlerBody, rtos_exit_isr,
                CheckSwitchRequired, portYIELD, ClearSwitchRequired, LeaveHandler,
                rtos_semaphore_signal, blocking, sync, KernelInv, HandlersInv
  <2> QED BY <1>5, <2>1, SignalsOfHandlers, WokenFrame
<1>9. CASE SwitchContext \/ UNCHANGED vars
  <2>1. UNCHANGED <<count, waits, ready>>
    BY <1>9 DEF SwitchContext, vars, blocking, sync
  <2> QED BY <2>1, WokenFrame
<1>10. CASE Tick
  <2>1. UNCHANGED <<count, waits>> /\ ready \subseteq ready'
    BY <1>10 DEF Tick, sync
  <2> QED BY <2>1, WokenFrame
<1> QED BY <1>1, <1>2, <1>3, <1>4, <1>6, <1>7, <1>8, <1>9, <1>10 DEF Next, CreationNext

\* With one mutex, no wake-up is lost: while a task is blocked on a semaphore or
\* mutex, each unit of its count has a woken task that will try to take it.
THEOREM WakeUpsCorrect ==
  ASSUME OneMutex
  PROVE  Spec => []NoWakeUpLost
<1>1. Init => KernelInv /\ WokenInv
  <2>1. Init => \A o \in Objects : Waiters(o) = {}
    BY DifferentThings DEF Init, Waiters
  <2> QED BY <2>1, KernelInit DEF WokenInv
<1>2. KernelInv /\ WokenInv /\ [Next]_vars => KernelInv' /\ WokenInv'
  BY KernelStep, WokenStep
<1>3. WokenInv => NoWakeUpLost
  BY DEF WokenInv, NoWakeUpLost, Woken, rtos_semaphore_get_count
<1> QED BY <1>1, <1>2, <1>3, PTL DEF Spec

=============================================================================
