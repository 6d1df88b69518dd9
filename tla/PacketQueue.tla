---------------------------- MODULE PacketQueue ----------------------------
(***************************************************************************)
(* One Network_Packet_Queue_Type object of package Networking: the linked  *)
(* list of packets, its two suspension objects, the tasks that dequeue     *)
(* from it, the tasks and interrupt handlers that enqueue to it, and the   *)
(* timer task that every queue owns.                                       *)
(*                                                                         *)
(* A region the code runs with CPU interrupts disabled is one action; the  *)
(* calls that stand outside such a region (Set_True, Suspend_Until_True)   *)
(* are actions of their own.  A suspension object is binary: Set_True      *)
(* wakes the task that waits on it, or else leaves its state True, and two *)
(* Set_True in a row leave what one does (Ada RM D.10).                    *)
(***************************************************************************)
EXTENDS Integers, Sequences, FiniteSets

CONSTANTS Packets,        \* the packet objects that travel through this queue
          Producers,      \* the contexts that call Enqueue_Network_Packet
          Consumers,      \* the tasks that call Dequeue_Network_Packet
          TimeoutChoices, \* may a call pass Timeout_Ms /= 0?  a set of BOOLEANs
          Null            \* the null access value

ASSUME NullIsNoPacket == Null \notin Packets
ASSUME FiniteTasks == IsFiniteSet(Producers) /\ IsFiniteSet(Consumers)
ASSUME TimeoutChoicesAreBooleans == TimeoutChoices \subseteq BOOLEAN

VARIABLES
  Head_Ptr, Tail_Ptr,      \* the two ends of the list, or Null
  Length,
  Length_High_Water_Mark,
  Next_Ptr,                \* the Next_Ptr field of each packet
  Queued,                  \* whether the packet's Queue_Ptr is this queue
  Not_Empty_Condvar,       \* the state of that suspension object
  Timer_Started,
  Timer_Started_Condvar,   \* the state of that suspension object
  producer,                \* the point each producer has reached
  consumer,                \* the point each consumer has reached
  timed,                   \* whether the consumer's current call has a timeout
  result,                  \* what the consumer's last call returned
  timer,                   \* the point the timer task has reached
  contents                 \* history: the queued packets, oldest first

list   == <<Head_Ptr, Tail_Ptr, Length, Length_High_Water_Mark, Next_Ptr, Queued, contents>>
timers == <<Timer_Started, Timer_Started_Condvar, timer>>
vars   == <<list, Not_Empty_Condvar, timers, producer, consumer, timed, result>>

ProducerPoints == {"idle", "signalling"}
ConsumerPoints == {"running", "starting_timer", "suspending", "suspended",
                   "woken", "returned", "program_error"}
TimerPoints    == {"suspended", "delaying"}

TypeOK ==
  /\ Head_Ptr \in Packets \cup {Null}
  /\ Tail_Ptr \in Packets \cup {Null}
  /\ Length \in Nat
  /\ Length_High_Water_Mark \in Nat
  /\ Next_Ptr \in [Packets -> Packets \cup {Null}]
  /\ Queued \in [Packets -> BOOLEAN]
  /\ Not_Empty_Condvar \in BOOLEAN
  /\ Timer_Started \in BOOLEAN
  /\ Timer_Started_Condvar \in BOOLEAN
  /\ producer \in [Producers -> ProducerPoints]
  /\ consumer \in [Consumers -> ConsumerPoints]
  /\ timed \in [Consumers -> BOOLEAN]
  /\ result \in [Consumers -> Packets \cup {Null}]
  /\ timer \in TimerPoints
  /\ contents \in Seq(Packets)

Init ==
  /\ Head_Ptr = Null /\ Tail_Ptr = Null
  /\ Length = 0 /\ Length_High_Water_Mark = 0
  /\ Next_Ptr = [p \in Packets |-> Null]
  /\ Queued = [p \in Packets |-> FALSE]
  /\ Not_Empty_Condvar = FALSE
  /\ Timer_Started = FALSE /\ Timer_Started_Condvar = FALSE
  /\ producer = [k \in Producers |-> "idle"]
  /\ consumer = [c \in Consumers |-> "running"]
  /\ timed = [c \in Consumers |-> FALSE]
  /\ result = [c \in Consumers |-> Null]
  /\ timer = "suspended"
  /\ contents = <<>>

\* A Program_Error ends in the last chance handler, which disables interrupts and
\* loops: nothing runs any more.
Running == \A c \in Consumers : consumer[c] # "program_error"

-----------------------------------------------------------------------------
(* Enqueue_Network_Packet *)

\* The caller's precondition: the packet is in no queue, and it is its own.
Free(p) == ~Queued[p] /\ \A c \in Consumers : result[c] # p

\* Mutant: the first packet of an empty queue does not become its head.
LinkWithoutHead(p) ==
  /\ Tail_Ptr' = p
  /\ UNCHANGED Head_Ptr
  /\ Next_Ptr' = IF Tail_Ptr = Null THEN Next_Ptr ELSE [Next_Ptr EXCEPT ![Tail_Ptr] = p]
  /\ Queued' = [Queued EXCEPT ![p] = TRUE]

\* Mutant: the packet is linked in front of the old head.
LinkAtHead(p) ==
  /\ Head_Ptr' = p
  /\ Tail_Ptr' = IF Tail_Ptr = Null THEN p ELSE Tail_Ptr
  /\ Next_Ptr' = [Next_Ptr EXCEPT ![p] = Head_Ptr]
  /\ Queued' = [Queued EXCEPT ![p] = TRUE]

\* The packet is linked behind the old tail, or becomes the head.
LinkAtTail(p) ==
  /\ Tail_Ptr' = p
  /\ IF Tail_Ptr = Null
     THEN Head_Ptr' = p /\ UNCHANGED Next_Ptr
     ELSE Next_Ptr' = [Next_Ptr EXCEPT ![Tail_Ptr] = p] /\ UNCHANGED Head_Ptr
  /\ Queued' = [Queued EXCEPT ![p] = TRUE]

\* The part of Enqueue_Network_Packet that runs with interrupts disabled.
Enqueue(k, p) ==
  /\ Running
  /\ producer[k] = "idle" /\ Free(p)
  /\ LinkAtTail(p)
  /\ Length' = Length + 1
  /\ Length_High_Water_Mark' = IF Length + 1 > Length_High_Water_Mark
                               THEN Length + 1 ELSE Length_High_Water_Mark
  /\ contents' = Append(contents, p)
  /\ producer' = [producer EXCEPT ![k] = "signalling"]
  /\ UNCHANGED <<Not_Empty_Condvar, timers, consumer, timed, result>>

\* Set_True (Not_Empty_Condvar)
SetNotEmpty ==
  \/ \E c \in Consumers :
       /\ consumer[c] = "suspended"
       /\ consumer' = [consumer EXCEPT ![c] = "woken"]
       /\ UNCHANGED Not_Empty_Condvar
  \/ /\ \A c \in Consumers : consumer[c] # "suspended"
     /\ Not_Empty_Condvar' = TRUE
     /\ UNCHANGED consumer

\* Interrupts are enabled again when Enqueue_Network_Packet signals the queue.
Signal(k) ==
  /\ Running
  /\ producer[k] = "signalling"
  /\ SetNotEmpty
  /\ producer' = [producer EXCEPT ![k] = "idle"]
  /\ UNCHANGED <<list, timers, timed, result>>

-----------------------------------------------------------------------------
(* Dequeue_Network_Packet *)

\* A call without timeout goes straight to the suspension; one with a timeout
\* first announces the timer.
CallDequeue(c, t) ==
  /\ Running
  /\ consumer[c] = "running"
  /\ timed' = [timed EXCEPT ![c] = t]
  /\ Timer_Started' = (Timer_Started \/ t)
  /\ consumer' = [consumer EXCEPT ![c] = IF t THEN "starting_timer" ELSE "suspending"]
  /\ UNCHANGED <<list, Not_Empty_Condvar, Timer_Started_Condvar, timer, producer, result>>

\* Set_True (Timer_Started_Condvar): a waiting timer task starts its delay.
StartTimer(c) ==
  /\ Running
  /\ consumer[c] = "starting_timer"
  /\ consumer' = [consumer EXCEPT ![c] = "suspending"]
  /\ timer' = "delaying"
  /\ Timer_Started_Condvar' = (timer # "suspended")
  /\ UNCHANGED <<list, Not_Empty_Condvar, Timer_Started, producer, timed, result>>

\* Suspend_Until_True (Not_Empty_Condvar): a True state is consumed, a False one
\* suspends the caller; a second waiter gets Program_Error.
Suspend(c) ==
  /\ Running
  /\ consumer[c] = "suspending"
  /\ \/ /\ \E d \in Consumers : consumer[d] = "suspended"
        /\ consumer' = [consumer EXCEPT ![c] = "program_error"]
        /\ UNCHANGED Not_Empty_Condvar
     \/ /\ \A d \in Consumers : consumer[d] # "suspended"
        /\ consumer' = [consumer EXCEPT ![c] = IF Not_Empty_Condvar THEN "woken" ELSE "suspended"]
        /\ Not_Empty_Condvar' = FALSE
  /\ UNCHANGED <<list, timers, producer, timed, result>>

\* Mutant: the rest of the queue is lost with its head.
UnlinkAll ==
  /\ Head_Ptr' = Null /\ Tail_Ptr' = Null
  /\ Next_Ptr' = [Next_Ptr EXCEPT ![Head_Ptr] = Null]
  /\ Queued' = [Queued EXCEPT ![Head_Ptr] = FALSE]
  /\ Length' = Length - 1
  /\ contents' = Tail(contents)
  /\ UNCHANGED Length_High_Water_Mark

\* The head packet is unlinked; the queue may become empty.
UnlinkHead ==
  /\ Head_Ptr' = Next_Ptr[Head_Ptr]
  /\ Tail_Ptr' = IF Next_Ptr[Head_Ptr] = Null THEN Null ELSE Tail_Ptr
  /\ Next_Ptr' = [Next_Ptr EXCEPT ![Head_Ptr] = Null]
  /\ Queued' = [Queued EXCEPT ![Head_Ptr] = FALSE]
  /\ Length' = Length - 1
  /\ contents' = Tail(contents)
  /\ UNCHANGED Length_High_Water_Mark

\* The part of Dequeue_Network_Packet that runs with interrupts disabled, when
\* the queue holds a packet ...
TakePacket(c) ==
  /\ Running
  /\ consumer[c] = "woken"
  /\ Head_Ptr # Null
  /\ result' = [result EXCEPT ![c] = Head_Ptr]
  /\ UnlinkHead
  /\ Timer_Started' = FALSE
  /\ consumer' = [consumer EXCEPT ![c] = "returned"]
  /\ UNCHANGED <<Not_Empty_Condvar, Timer_Started_Condvar, timer, producer, timed>>

\* ... and when it is empty: the call returns null, for "the timer expired".
TakeNothing(c) ==
  /\ Running
  /\ consumer[c] = "woken"
  /\ Head_Ptr = Null
  /\ consumer' = [consumer EXCEPT ![c] = "returned"]
  /\ UNCHANGED <<list, Not_Empty_Condvar, timers, producer, timed, result>>

\* The caller has processed its packet and gives it back: it can be enqueued again.
Finish(c) ==
  /\ Running
  /\ consumer[c] = "returned"
  /\ result' = [result EXCEPT ![c] = Null]
  /\ consumer' = [consumer EXCEPT ![c] = "running"]
  /\ UNCHANGED <<list, Not_Empty_Condvar, timers, producer, timed>>

-----------------------------------------------------------------------------
(* Packet_Queue_Timer_Task_Type *)

\* Mutant: the timer task ends its count without a signal to the consumer.
ExpireSilently ==
  /\ Running
  /\ timer = "delaying"
  /\ Timer_Started' = FALSE
  /\ timer' = IF Timer_Started_Condvar THEN "delaying" ELSE "suspended"
  /\ Timer_Started_Condvar' = FALSE
  /\ UNCHANGED <<list, Not_Empty_Condvar, consumer, producer, timed, result>>

\* The delay is over: a timer still started wakes the queue's consumer.  The
\* task then goes round its loop and waits, or finds the timer started again.
TimerExpires ==
  /\ Running
  /\ timer = "delaying"
  /\ \/ Timer_Started /\ Timer_Started' = FALSE /\ SetNotEmpty
     \/ ~Timer_Started /\ UNCHANGED <<Timer_Started, Not_Empty_Condvar, consumer>>
  /\ timer' = IF Timer_Started_Condvar THEN "delaying" ELSE "suspended"
  /\ Timer_Started_Condvar' = FALSE
  /\ UNCHANGED <<list, producer, timed, result>>

-----------------------------------------------------------------------------
ConsumerStep(c) == StartTimer(c) \/ Suspend(c) \/ TakePacket(c) \/ TakeNothing(c) \/ Finish(c)

Next == \/ \E k \in Producers : (\E p \in Packets : Enqueue(k, p)) \/ Signal(k)
        \/ \E c \in Consumers : (\E t \in TimeoutChoices : CallDequeue(c, t)) \/ ConsumerStep(c)
        \/ TimerExpires

Spec == Init /\ [][Next]_vars

\* A task that can run is scheduled in the end, a delay ends, and the consumer
\* comes back for the next packet; nothing makes a packet arrive.
Fairness == /\ \A k \in Producers : WF_vars(Signal(k))
            /\ \A c \in Consumers : /\ WF_vars(ConsumerStep(c))
                                    /\ WF_vars(\E t \in TimeoutChoices : CallDequeue(c, t))
            /\ WF_vars(TimerExpires)

FairSpec == Spec /\ Fairness

-----------------------------------------------------------------------------
(* Properties *)

\* The linked list is the sequence of queued packets: both ends, every link, the
\* Queue_Ptr of each packet and the length agree, and a packet outside has no
\* successor.  The assertions of Enqueue_Network_Packet and of
\* Dequeue_Network_Packet on Next_Ptr, Queue_Ptr and Tail_Ptr follow from it.
ListIsContents ==
  /\ Length = Len(contents)
  /\ Head_Ptr = IF contents = <<>> THEN Null ELSE contents[1]
  /\ Tail_Ptr = IF contents = <<>> THEN Null ELSE contents[Len(contents)]
  /\ \A i \in 1 .. Len(contents) :
       Next_Ptr[contents[i]] = IF i = Len(contents) THEN Null ELSE contents[i + 1]
  /\ \A i, j \in 1 .. Len(contents) : contents[i] = contents[j] => i = j
  /\ \A p \in Packets : Queued[p] <=> \E i \in 1 .. Len(contents) : contents[i] = p
  /\ \A p \in Packets : ~Queued[p] => Next_Ptr[p] = Null

\* The postcondition of Dequeue_Network_Packet: a call without timeout returns a
\* packet.  The receiver tasks use the result without a test.
DequeuePost ==
  \A c \in Consumers :
    consumer[c] = "returned" /\ ~timed[c] => result[c] # Null

\* A task that waits with a timeout is sure to be woken: its timer is started,
\* and the timer task is counting the delay or about to.  It takes a queue with
\* one consumer, which every receive queue of the network stack is.
ArmedWhileWaiting ==
  \A c \in Consumers :
    consumer[c] = "suspended" /\ timed[c] =>
      Timer_Started /\ (timer = "delaying" \/ Timer_Started_Condvar)

\* Every call with a timeout returns, with a packet or without.
TimedDequeueReturns ==
  \A c \in Consumers :
    consumer[c] = "starting_timer" ~> consumer[c] = "returned"

\* Packets leave the queue in the order of their arrival, each to one consumer.
Fifo == INSTANCE PacketFifo WITH queue <- contents, held <- result
ImplementsFifo == Fifo!Spec

\* The contract of Dequeue_Network_Packet: it waits only while the queue is
\* empty.  A task that waits while the queue holds a packet gets it in the end.
WaitsOnlyWhileEmpty ==
  \A c \in Consumers :
    consumer[c] = "suspended" /\ Length > 0 ~> consumer[c] # "suspended"

=============================================================================
