-------------------------- MODULE PacketQueueProofs --------------------------
(***************************************************************************)
(* Proofs about PacketQueue for any set of packets and any finite sets of  *)
(* producers and consumers.                                                *)
(***************************************************************************)
EXTENDS PacketQueue, FiniteSetTheorems, SequenceTheorems, TLAPS

\* A packet is with a consumer only from the call's return to its release, and
\* it is out of the queue as long as the consumer has it.
ResultsAreOwned ==
  \A c \in Consumers :
    /\ consumer[c] # "returned" => result[c] = Null
    /\ result[c] # Null => ~Queued[result[c]]

\* The list invariant, inductive.
ListInv == TypeOK /\ ListIsContents /\ ResultsAreOwned

\* The actions that leave the list alone.
OffList == \/ \E k \in Producers : Signal(k)
           \/ \E c \in Consumers :
                \/ \E t \in TimeoutChoices : CallDequeue(c, t)
                \/ StartTimer(c)
                \/ Suspend(c)
                \/ TakeNothing(c)
                \/ Finish(c)
           \/ TimerExpires
           \/ UNCHANGED vars

\* A step enqueues a packet, takes one, or is off the list.
LEMMA NextSplit ==
  [Next]_vars => \/ \E k \in Producers, p \in Packets : Enqueue(k, p)
                 \/ \E c \in Consumers : TakePacket(c)
                 \/ OffList
BY DEF Next, ConsumerStep, OffList

\* An action off the list keeps the list invariant.
LEMMA OffListStep == ListInv /\ OffList => ListInv'
<1> SUFFICES ASSUME ListInv, OffList PROVE ListInv'
  OBVIOUS
<1> USE DEF ListInv, TypeOK, ProducerPoints, ConsumerPoints, TimerPoints, list, timers
<1>1. ASSUME NEW k \in Producers, Signal(k) PROVE ListInv'
  <2>1. UNCHANGED <<list, timers, timed, result>> /\ TypeOK'
    BY <1>1 DEF Signal, SetNotEmpty
  <2>2. ListIsContents'
    BY <2>1 DEF ListIsContents
  <2>3. ResultsAreOwned'
    BY <1>1, <2>1 DEF ResultsAreOwned, Signal, SetNotEmpty
  <2> QED BY <2>1, <2>2, <2>3
<1>2. ASSUME NEW c \in Consumers, NEW t \in TimeoutChoices, CallDequeue(c, t) PROVE ListInv'
  <2>1. UNCHANGED <<list, result>> /\ TypeOK'
    BY <1>2, TimeoutChoicesAreBooleans DEF CallDequeue
  <2>2. ListIsContents'
    BY <2>1 DEF ListIsContents
  <2>3. ResultsAreOwned'
    BY <1>2, <2>1 DEF ResultsAreOwned, CallDequeue
  <2> QED BY <2>1, <2>2, <2>3
<1>3. ASSUME NEW c \in Consumers, StartTimer(c) PROVE ListInv'
  <2>1. UNCHANGED <<list, result>> /\ TypeOK'
    BY <1>3 DEF StartTimer
  <2>2. ListIsContents'
    BY <2>1 DEF ListIsContents
  <2>3. ResultsAreOwned'
    BY <1>3, <2>1 DEF ResultsAreOwned, StartTimer
  <2> QED BY <2>1, <2>2, <2>3
<1>4. ASSUME NEW c \in Consumers, Suspend(c) PROVE ListInv'
  <2>1. UNCHANGED <<list, result>> /\ TypeOK'
    BY <1>4 DEF Suspend
  <2>2. ListIsContents'
    BY <2>1 DEF ListIsContents
  <2>3. ResultsAreOwned'
    BY <1>4, <2>1 DEF ResultsAreOwned, Suspend
  <2> QED BY <2>1, <2>2, <2>3
<1>5. ASSUME NEW c \in Consumers, TakeNothing(c) PROVE ListInv'
  <2>1. UNCHANGED <<list, result>> /\ TypeOK'
    BY <1>5 DEF TakeNothing
  <2>2. ListIsContents'
    BY <2>1 DEF ListIsContents
  <2>3. ResultsAreOwned'
    BY <1>5, <2>1 DEF ResultsAreOwned, TakeNothing
  <2> QED BY <2>1, <2>2, <2>3
<1>6. ASSUME NEW c \in Consumers, Finish(c) PROVE ListInv'
  <2>1. UNCHANGED list /\ TypeOK'
    BY <1>6 DEF Finish
  <2>2. ListIsContents'
    BY <2>1 DEF ListIsContents
  <2>3. ResultsAreOwned'
    BY <1>6, <2>1 DEF ResultsAreOwned, Finish
  <2> QED BY <2>1, <2>2, <2>3
<1>7. ASSUME TimerExpires PROVE ListInv'
  <2>1. UNCHANGED <<list, result>> /\ TypeOK'
    BY <1>7 DEF TimerExpires, SetNotEmpty
  <2>2. ListIsContents'
    BY <2>1 DEF ListIsContents
  <2>3. ResultsAreOwned'
    BY <1>7, <2>1 DEF ResultsAreOwned, TimerExpires, SetNotEmpty
  <2> QED BY <2>1, <2>2, <2>3
<1>8. ASSUME UNCHANGED vars PROVE ListInv'
  BY <1>8 DEF vars, ListIsContents, ResultsAreOwned
<1> QED BY <1>1, <1>2, <1>3, <1>4, <1>5, <1>6, <1>7, <1>8 DEF OffList

\* Linking a packet behind the tail appends it to the sequence.
LEMMA EnqueueStep ==
  ASSUME NEW k \in Producers, NEW p \in Packets, ListInv, Enqueue(k, p)
  PROVE  ListInv'
<1> USE DEF ListInv
<1> DEFINE n == Len(contents)
<1>1. ~Queued[p] /\ Next_Ptr[p] = Null /\ p # Null
  BY NullIsNoPacket DEF Enqueue, Free, ListIsContents
<1>2. /\ n \in Nat
      /\ \A i \in 1 .. n : contents[i] \in Packets /\ contents[i] # p
      /\ contents' = Append(contents, p)
      /\ contents' \in Seq(Packets)
      /\ Len(contents') = n + 1
      /\ contents'[n + 1] = p
      /\ \A i \in 1 .. n : contents'[i] = contents[i]
  BY <1>1 DEF Enqueue, TypeOK, ListIsContents
<1>3. TypeOK'
  <2>1. Head_Ptr' \in Packets \cup {Null} /\ Next_Ptr' \in [Packets -> Packets \cup {Null}]
    BY DEF TypeOK, Enqueue, LinkAtTail
  <2>2. Length' \in Nat /\ Length_High_Water_Mark' \in Nat
    BY DEF TypeOK, Enqueue
  <2>3. producer' \in [Producers -> ProducerPoints]
    BY DEF TypeOK, Enqueue, ProducerPoints
  <2> QED BY <1>2, <2>1, <2>2, <2>3 DEF TypeOK, Enqueue, LinkAtTail, timers
<1>4. ListIsContents'
  <2>1. Length' = Len(contents')
    BY <1>2 DEF Enqueue, ListIsContents
  <2>2. contents' # <<>> /\ Tail_Ptr' = contents'[Len(contents')]
    BY <1>2 DEF Enqueue, LinkAtTail
  <2>3. Head_Ptr' = contents'[1]
    <3>1. CASE contents = <<>>
      BY <1>2, <3>1 DEF Enqueue, LinkAtTail, ListIsContents
    <3>2. CASE contents # <<>>
      <4>1. n > 0 /\ Tail_Ptr = contents[n] /\ Tail_Ptr # Null /\ Head_Ptr = contents[1]
        BY <1>2, <3>2, NullIsNoPacket DEF ListIsContents, TypeOK
      <4> QED BY <1>2, <4>1 DEF Enqueue, LinkAtTail
    <3> QED BY <3>1, <3>2
  <2>4. ASSUME NEW i \in 1 .. n + 1
        PROVE  Next_Ptr'[contents'[i]] = IF i = n + 1 THEN Null ELSE contents'[i + 1]
    <3>1. CASE contents = <<>>
      <4>1. n = 0 /\ i = 1 /\ Next_Ptr' = Next_Ptr
        BY <1>2, <3>1 DEF Enqueue, LinkAtTail, ListIsContents
      <4> QED BY <1>1, <1>2, <4>1
    <3>2. CASE contents # <<>>
      <4>1. /\ n > 0 /\ Tail_Ptr = contents[n] /\ Tail_Ptr \in Packets /\ Tail_Ptr # Null
            /\ Next_Ptr' = [Next_Ptr EXCEPT ![Tail_Ptr] = p]
        BY <1>2, <3>2, NullIsNoPacket DEF ListIsContents, TypeOK, Enqueue, LinkAtTail
      <4>2. CASE i = n + 1
        BY <1>1, <1>2, <4>1, <4>2 DEF TypeOK
      <4>3. CASE i = n
        BY <1>2, <4>1, <4>3 DEF TypeOK
      <4>4. CASE i < n
        <5>1. contents[i] # contents[n]
          BY <4>1, <4>4, <1>2 DEF ListIsContents
        <5> QED BY <1>2, <4>1, <4>4, <5>1 DEF TypeOK, ListIsContents
      <4> QED BY <4>2, <4>3, <4>4, <1>2
    <3> QED BY <3>1, <3>2
  <2>8. \A i \in 1 .. Len(contents') :
          Next_Ptr'[contents'[i]] = IF i = Len(contents') THEN Null ELSE contents'[i + 1]
    BY <1>2, <2>4
  <2>5. \A i, j \in 1 .. n + 1 : contents'[i] = contents'[j] => i = j
    BY <1>2 DEF ListIsContents
  <2>6. \A q \in Packets : Queued'[q] <=> \E i \in 1 .. n + 1 : contents'[i] = q
    <3> SUFFICES ASSUME NEW q \in Packets
                 PROVE  Queued'[q] <=> \E i \in 1 .. n + 1 : contents'[i] = q
      OBVIOUS
    <3>1. Queued'[q] <=> q = p \/ Queued[q]
      BY DEF Enqueue, LinkAtTail, TypeOK
    <3>2. Queued[q] <=> \E i \in 1 .. n : contents[i] = q
      BY DEF ListIsContents
    <3> QED BY <1>2, <3>1, <3>2
  <2>7. \A q \in Packets : ~Queued'[q] => Next_Ptr'[q] = Null
    <3> SUFFICES ASSUME NEW q \in Packets, ~Queued'[q] PROVE Next_Ptr'[q] = Null
      OBVIOUS
    <3>1. q # p /\ ~Queued[q] /\ Next_Ptr[q] = Null
      BY DEF Enqueue, LinkAtTail, TypeOK, ListIsContents
    <3>2. Tail_Ptr # Null => Queued[Tail_Ptr]
      BY <1>2 DEF ListIsContents, TypeOK
    <3> QED BY <3>1, <3>2 DEF Enqueue, LinkAtTail, TypeOK
  <2>9. /\ \A i, j \in 1 .. Len(contents') : contents'[i] = contents'[j] => i = j
        /\ \A q \in Packets : Queued'[q] <=> \E i \in 1 .. Len(contents') : contents'[i] = q
    BY <1>2, <2>5, <2>6
  <2> QED BY <2>1, <2>2, <2>3, <2>7, <2>8, <2>9 DEF ListIsContents
<1>5. ResultsAreOwned'
  BY <1>1, <1>3 DEF ResultsAreOwned, Enqueue, Free, LinkAtTail, TypeOK
<1> QED BY <1>3, <1>4, <1>5

\* Unlinking the head removes the first element of the sequence.
LEMMA TakeStep ==
  ASSUME NEW c \in Consumers, ListInv, TakePacket(c)
  PROVE  ListInv'
<1> USE DEF ListInv
<1> DEFINE n == Len(contents)
<1>1. contents # <<>> /\ Head_Ptr = contents[1] /\ Head_Ptr \in Packets
  BY DEF TakePacket, ListIsContents, TypeOK
<1>2a. n \in Nat \ {0} /\ \A i \in 1 .. n : contents[i] \in Packets
  BY <1>1, EmptySeq, LenProperties DEF TypeOK
<1>2b. contents' = Tail(contents)
  BY DEF TakePacket, UnlinkHead
<1>2. /\ n \in Nat \ {0}
      /\ \A i \in 1 .. n : contents[i] \in Packets
      /\ contents' = Tail(contents)
      /\ contents' \in Seq(Packets)
      /\ Len(contents') = n - 1
      /\ \A i \in 1 .. n - 1 : contents'[i] = contents[i + 1]
      /\ contents' = <<>> <=> n = 1
  <2>1. contents' \in Seq(Packets) /\ Len(contents') = n - 1
    BY <1>1, <1>2a, <1>2b, HeadTailProperties DEF TypeOK
  <2>2. \A i \in 1 .. n - 1 : contents'[i] = contents[i + 1]
    BY <1>1, <1>2a, <1>2b, HeadTailProperties DEF TypeOK
  <2>3. contents' = <<>> <=> n = 1
    BY <1>2a, <2>1, EmptySeq
  <2> QED BY <1>2a, <1>2b, <2>1, <2>2, <2>3
<1>3. Next_Ptr[Head_Ptr] = IF n = 1 THEN Null ELSE contents[2]
  BY <1>1, <1>2 DEF ListIsContents
<1>4. \A i \in 2 .. n : contents[i] # Head_Ptr
  BY <1>1, <1>2 DEF ListIsContents
<1>5. TypeOK'
  <2>1. Length' \in Nat
    BY <1>2 DEF TypeOK, ListIsContents, TakePacket, UnlinkHead
  <2>2. Next_Ptr' \in [Packets -> Packets \cup {Null}] /\ Queued' \in [Packets -> BOOLEAN]
    BY <1>1 DEF TypeOK, TakePacket, UnlinkHead
  <2>3. Head_Ptr' \in Packets \cup {Null} /\ Tail_Ptr' \in Packets \cup {Null}
    BY <1>1 DEF TypeOK, TakePacket, UnlinkHead
  <2>4. consumer' \in [Consumers -> ConsumerPoints] /\ result' \in [Consumers -> Packets \cup {Null}]
    BY <1>1 DEF TypeOK, TakePacket, ConsumerPoints
  <2> QED BY <1>2, <2>1, <2>2, <2>3, <2>4 DEF TypeOK, TakePacket, UnlinkHead
<1>6. ListIsContents'
  <2>1. Length' = Len(contents')
    BY <1>2 DEF TakePacket, UnlinkHead, ListIsContents
  <2>2. Head_Ptr' = IF contents' = <<>> THEN Null ELSE contents'[1]
    BY <1>2, <1>3 DEF TakePacket, UnlinkHead
  <2>3. Tail_Ptr' = IF contents' = <<>> THEN Null ELSE contents'[Len(contents')]
    <3>1. CASE n = 1
      BY <1>2, <1>3, <3>1 DEF TakePacket, UnlinkHead
    <3>2. CASE n > 1
      <4>1. contents[2] # Null /\ Tail_Ptr = contents[n]
        BY <1>1, <1>2, <3>2, NullIsNoPacket DEF ListIsContents
      <4> QED BY <1>2, <1>3, <3>2, <4>1 DEF TakePacket, UnlinkHead
    <3> QED BY <1>2, <3>1, <3>2
  <2>4. ASSUME NEW i \in 1 .. n - 1
        PROVE  Next_Ptr'[contents'[i]] = IF i = n - 1 THEN Null ELSE contents'[i + 1]
    <3>1. contents'[i] = contents[i + 1] /\ contents[i + 1] # Head_Ptr /\ contents[i + 1] \in Packets
      BY <1>2, <1>4
    <3>2. Next_Ptr'[contents[i + 1]] = Next_Ptr[contents[i + 1]]
      BY <3>1, <1>1 DEF TakePacket, UnlinkHead, TypeOK
    <3>3. Next_Ptr[contents[i + 1]] = IF i + 1 = n THEN Null ELSE contents[i + 2]
      BY <1>2 DEF ListIsContents
    <3>4. CASE i = n - 1
      BY <1>2, <3>1, <3>2, <3>3, <3>4
    <3>5. CASE i # n - 1
      <4>1. i + 1 \in 1 .. n - 1 /\ (i + 1) + 1 = i + 2 /\ i + 1 # n
        BY <1>2a, <3>5
      <4>2. contents'[i + 1] = contents[i + 2]
        BY <1>2, <4>1
      <4> QED BY <3>1, <3>2, <3>3, <3>5, <4>1, <4>2
    <3> QED BY <3>4, <3>5
  <2>5. \A i, j \in 1 .. n - 1 : contents'[i] = contents'[j] => i = j
    <3> SUFFICES ASSUME NEW i \in 1 .. n - 1, NEW j \in 1 .. n - 1, contents'[i] = contents'[j]
                 PROVE  i = j
      OBVIOUS
    <3>1. contents[i + 1] = contents[j + 1] /\ i + 1 \in 1 .. n /\ j + 1 \in 1 .. n
      BY <1>2
    <3>2. i + 1 = j + 1
      BY <3>1 DEF ListIsContents
    <3> QED BY <3>2, <1>2
  <2>6. ASSUME NEW q \in Packets
        PROVE  Queued'[q] <=> \E i \in 1 .. n - 1 : contents'[i] = q
    <3>1. Queued'[q] <=> q # Head_Ptr /\ Queued[q]
      BY <1>1 DEF TakePacket, UnlinkHead, TypeOK
    <3>2. Queued[q] <=> \E i \in 1 .. n : contents[i] = q
      BY DEF ListIsContents
    <3>3. (\E i \in 1 .. n - 1 : contents'[i] = q) <=> \E i \in 2 .. n : contents[i] = q
      <4>1. ASSUME NEW i \in 1 .. n - 1, contents'[i] = q
            PROVE  \E j \in 2 .. n : contents[j] = q
        <5>1. i + 1 \in 2 .. n /\ contents[i + 1] = q
          BY <4>1, <1>2
        <5> QED BY <5>1
      <4>2. ASSUME NEW j \in 2 .. n, contents[j] = q
            PROVE  \E i \in 1 .. n - 1 : contents'[i] = q
        <5>1. j - 1 \in 1 .. n - 1 /\ contents'[j - 1] = q
          BY <4>2, <1>2
        <5> QED BY <5>1
      <4> QED BY <4>1, <4>2
    <3>4. (\E i \in 2 .. n : contents[i] = q) <=> q # Head_Ptr /\ \E i \in 1 .. n : contents[i] = q
      BY <1>1, <1>2, <1>4
    <3> QED BY <3>1, <3>2, <3>3, <3>4
  <2>7. \A q \in Packets : ~Queued'[q] => Next_Ptr'[q] = Null
    BY <1>1 DEF TakePacket, UnlinkHead, TypeOK, ListIsContents
  <2>8. Len(contents') = n - 1
    BY <1>2
  <2> QED BY <2>1, <2>2, <2>3, <2>4, <2>5, <2>6, <2>7, <2>8, SMTT(30) DEF ListIsContents
<1>7. ResultsAreOwned'
  BY <1>1, <1>5 DEF ResultsAreOwned, TakePacket, UnlinkHead, TypeOK
<1> QED BY <1>5, <1>6, <1>7

\* The list invariant holds initially and every step preserves it.
LEMMA ListInvCorrect == Spec => []ListInv
<1>1. Init => ListInv
  <2> SUFFICES ASSUME Init PROVE ListInv
    OBVIOUS
  <2>1. contents = <<>> /\ contents \in Seq(Packets) /\ Len(contents) = 0
    BY DEF Init
  <2>2. TypeOK
    BY <2>1 DEF Init, TypeOK, ProducerPoints, ConsumerPoints, TimerPoints
  <2>3. ListIsContents
    BY <2>1 DEF Init, ListIsContents
  <2> QED BY <2>2, <2>3 DEF Init, ListInv, ResultsAreOwned
<1>2. ListInv /\ [Next]_vars => ListInv'
  BY NextSplit, OffListStep, EnqueueStep, TakeStep
<1> QED BY <1>1, <1>2, PTL DEF Spec

\* Every variable keeps its type; in particular Length, an Unsigned_16 of the
\* code, never goes below zero.
THEOREM TypeCorrect == Spec => []TypeOK
BY ListInvCorrect, PTL DEF ListInv

\* The linked list always represents the sequence of packets enqueued and not yet
\* dequeued: no assertion of Networking's queue operations can fail.
THEOREM ListCorrect == Spec => []ListIsContents
BY ListInvCorrect, PTL DEF ListInv

-----------------------------------------------------------------------------
(* The queue implements PacketFifo. *)

\* Every step of the queue is a step of the abstract queue, or changes none of it.
LEMMA FifoStep == ListInv /\ [Next]_vars => [Fifo!Next]_(Fifo!fifoVars)
<1> SUFFICES ASSUME ListInv, [Next]_vars PROVE [Fifo!Next]_(Fifo!fifoVars)
  OBVIOUS
<1> USE DEF ListInv, Fifo!fifoVars
<1>1. ASSUME NEW k \in Producers, NEW p \in Packets, Enqueue(k, p)
      PROVE  Fifo!Put(p)
  <2>1. p \notin Fifo!Waiting
    BY <1>1 DEF Fifo!Waiting, Fifo!Range, Enqueue, Free, ListIsContents, TypeOK
  <2>2. p \notin Fifo!Owned
    BY <1>1 DEF Fifo!Owned, Fifo!Range, Enqueue, Free, TypeOK
  <2> QED BY <1>1, <2>1, <2>2 DEF Fifo!Put, Enqueue
<1>2. ASSUME NEW c \in Consumers, TakePacket(c)
      PROVE  Fifo!Take(c)
  <2>1. contents # <<>> /\ Head_Ptr = Head(contents)
    BY <1>2 DEF TakePacket, ListIsContents, TypeOK
  <2>2. result[c] = Null
    BY <1>2 DEF TakePacket, ResultsAreOwned
  <2> QED BY <1>2, <2>1, <2>2 DEF Fifo!Take, TakePacket, UnlinkHead
<1>3. ASSUME NEW c \in Consumers, Finish(c)
      PROVE  Fifo!Release(c) \/ UNCHANGED <<contents, result>>
  <2>1. CASE result[c] = Null
    BY <1>3, <2>1 DEF Finish, list, TypeOK
  <2>2. CASE result[c] # Null
    BY <1>3, <2>2 DEF Finish, list, Fifo!Release
  <2> QED BY <2>1, <2>2
<1>4. ASSUME OffList, \A c \in Consumers : ~Finish(c)
      PROVE  UNCHANGED <<contents, result>>
  BY <1>4 DEF OffList, Signal, CallDequeue, StartTimer, Suspend, TakeNothing, TimerExpires,
              vars, list
<1> QED
  BY <1>1, <1>2, <1>3, <1>4, NextSplit DEF Fifo!Next

\* Networking's queue operations implement the abstract FIFO queue: packets leave
\* in the order of their arrival, and each one goes to exactly one consumer.
THEOREM FifoImplemented == Spec => ImplementsFifo
<1>1. Init => Fifo!Init
  BY DEF Init, Fifo!Init
<1> QED BY <1>1, FifoStep, ListInvCorrect, PTL DEF Spec, ImplementsFifo, Fifo!Spec

-----------------------------------------------------------------------------
(* The postcondition of Dequeue_Network_Packet, for a queue without timeouts. *)

Signalling == {k \in Producers : producer[k] = "signalling"}
Woken      == {c \in Consumers : consumer[c] = "woken"}

\* No timer is ever started, and every signal on its way to a consumer (not sent
\* yet, kept in the suspension object, or received) has a packet of its own.
SignalInv ==
  /\ \A c \in Consumers : ~timed[c] /\ consumer[c] # "starting_timer"
  /\ timer = "suspended"
  /\ Cardinality(Signalling) + Cardinality(Woken) + (IF Not_Empty_Condvar THEN 1 ELSE 0)
       <= Length
  /\ DequeuePost

\* How the two sets change when one task changes its point.
LEMMA OneMore ==
  ASSUME NEW S, NEW T, NEW x, IsFiniteSet(S), x \notin S, T = S \cup {x}
  PROVE  IsFiniteSet(T) /\ Cardinality(T) = Cardinality(S) + 1 /\ Cardinality(S) \in Nat
BY FS_AddElement, FS_CardinalityType

\* A set that loses an element has one less.
LEMMA OneLess ==
  ASSUME NEW S, NEW T, NEW x, IsFiniteSet(S), x \in S, T = S \ {x}
  PROVE  /\ IsFiniteSet(T) /\ Cardinality(T) = Cardinality(S) - 1
         /\ Cardinality(S) \in Nat \ {0}
<1>1. Cardinality(S) \in Nat /\ S # {}
  BY FS_CardinalityType
<1>2. Cardinality(S) # 0
  BY <1>1, FS_EmptySet
<1> QED BY <1>1, <1>2, FS_RemoveElement

\* The two sets of tasks are finite, so their cardinalities are numbers.
LEMMA TaskCounts ==
  /\ IsFiniteSet(Signalling) /\ Cardinality(Signalling) \in Nat
  /\ IsFiniteSet(Woken) /\ Cardinality(Woken) \in Nat
BY FiniteTasks, FS_Subset, FS_CardinalityType DEF Signalling, Woken

\* A step keeps the balance of signals and packets.
LEMMA SignalStep ==
  ASSUME TRUE \notin TimeoutChoices, ListInv, SignalInv, [Next]_vars
  PROVE  SignalInv'
<1> DEFINE Flag == IF Not_Empty_Condvar THEN 1 ELSE 0
<1> USE DEF ListInv, TypeOK
<1>1. ASSUME NEW k \in Producers, NEW p \in Packets, Enqueue(k, p) PROVE SignalInv'
  <2>1. Signalling' = Signalling \cup {k} /\ k \notin Signalling
    BY <1>1 DEF Signalling, Enqueue
  <2>2. Cardinality(Signalling') = Cardinality(Signalling) + 1
    BY <2>1, TaskCounts, OneMore
  <2>3. Woken' = Woken /\ Length' = Length + 1
    BY <1>1 DEF Woken, Enqueue
  <2> QED BY <1>1, <2>2, <2>3, TaskCounts DEF SignalInv, Enqueue, DequeuePost, timers
<1>2. ASSUME NEW k \in Producers, Signal(k) PROVE SignalInv'
  <2>1. Signalling' = Signalling \ {k} /\ k \in Signalling
    BY <1>2 DEF Signalling, Signal
  <2>2. Cardinality(Signalling') = Cardinality(Signalling) - 1
    BY <2>1, TaskCounts, OneLess
  <2>3. Length' = Length /\ UNCHANGED <<timers, timed, result>>
    BY <1>2 DEF Signal, list
  <2>4. CASE \E c \in Consumers : /\ consumer[c] = "suspended"
                                  /\ consumer' = [consumer EXCEPT ![c] = "woken"]
                                  /\ UNCHANGED Not_Empty_Condvar
    <3> PICK c \in Consumers : /\ consumer[c] = "suspended"
                              /\ consumer' = [consumer EXCEPT ![c] = "woken"]
                              /\ UNCHANGED Not_Empty_Condvar
      BY <2>4
    <3>1. Woken' = Woken \cup {c} /\ c \notin Woken
      BY DEF Woken
    <3>2. Cardinality(Woken') = Cardinality(Woken) + 1
      BY <3>1, TaskCounts, OneMore
    <3> QED BY <2>2, <2>3, <3>2, TaskCounts DEF SignalInv, DequeuePost, timers
  <2>5. CASE Not_Empty_Condvar' = TRUE /\ UNCHANGED consumer
    BY <2>2, <2>3, <2>5, TaskCounts DEF SignalInv, DequeuePost, timers, Woken
  <2> QED BY <1>2, <2>4, <2>5 DEF Signal, SetNotEmpty
<1>3. ASSUME NEW c \in Consumers, NEW t \in TimeoutChoices, CallDequeue(c, t) PROVE SignalInv'
  <2>1. t = FALSE
    BY TimeoutChoicesAreBooleans
  <2>2. Woken' = Woken /\ Signalling' = Signalling /\ Length' = Length
    BY <1>3, <2>1 DEF CallDequeue, Woken, Signalling, list
  <2> QED BY <1>3, <2>1, <2>2 DEF CallDequeue, SignalInv, DequeuePost
<1>4. ASSUME NEW c \in Consumers, Suspend(c) PROVE SignalInv'
  <2>1. Signalling' = Signalling /\ Length' = Length /\ UNCHANGED <<timers, timed, result>>
    BY <1>4 DEF Suspend, Signalling, list
  <2>2. CASE consumer' = [consumer EXCEPT ![c] = "program_error"] /\ UNCHANGED Not_Empty_Condvar
    <3>1. Woken' = Woken
      BY <1>4, <2>2 DEF Suspend, Woken
    <3> QED BY <2>1, <2>2, <3>1 DEF SignalInv, DequeuePost, timers
  <2>3. CASE Not_Empty_Condvar /\ consumer' = [consumer EXCEPT ![c] = "woken"] /\ ~Not_Empty_Condvar'
    <3>1. Woken' = Woken \cup {c} /\ c \notin Woken
      BY <1>4, <2>3 DEF Suspend, Woken
    <3>2. Cardinality(Woken') = Cardinality(Woken) + 1
      BY <3>1, TaskCounts, OneMore
    <3> QED BY <2>1, <2>3, <3>2, TaskCounts DEF SignalInv, DequeuePost, timers
  <2>4. CASE /\ ~Not_Empty_Condvar /\ ~Not_Empty_Condvar'
             /\ consumer' = [consumer EXCEPT ![c] = "suspended"]
    <3>1. Woken' = Woken
      BY <1>4, <2>4 DEF Suspend, Woken
    <3> QED BY <2>1, <2>4, <3>1 DEF SignalInv, DequeuePost, timers
  <2> QED BY <1>4, <2>2, <2>3, <2>4 DEF Suspend
<1>5. ASSUME NEW c \in Consumers, TakePacket(c) PROVE SignalInv'
  <2>1. Woken' = Woken \ {c} /\ c \in Woken
    BY <1>5 DEF TakePacket, Woken
  <2>2. Cardinality(Woken') = Cardinality(Woken) - 1
    BY <2>1, TaskCounts, OneLess
  <2>3. Signalling' = Signalling /\ Length' = Length - 1 /\ Head_Ptr # Null
    BY <1>5 DEF TakePacket, UnlinkHead, Signalling
  <2> QED BY <1>5, <2>2, <2>3, TaskCounts DEF TakePacket, SignalInv, DequeuePost
<1>6. ASSUME NEW c \in Consumers, TakeNothing(c) PROVE SignalInv'
  \* A woken consumer has a packet in the queue: this step cannot happen.
  <2>1. c \in Woken
    BY <1>6 DEF TakeNothing, Woken
  <2>2. Length = 0
    <3>1. contents = <<>>
      <4> SUFFICES ASSUME contents # <<>> PROVE FALSE
        OBVIOUS
      <4>1. contents[1] \in Packets /\ contents[1] = Null
        BY <1>6 DEF TakeNothing, ListIsContents
      <4> QED BY <4>1, NullIsNoPacket
    <3> QED BY <3>1 DEF ListIsContents
  <2>3. Cardinality(Woken) \in Nat \ {0}
    <3> DEFINE T == Woken \ {c}
    <3>1. T = Woken \ {c}
      OBVIOUS
    <3> HIDE DEF T
    <3> QED BY <2>1, <3>1, TaskCounts, OneLess
  <2> QED BY <2>2, <2>3, TaskCounts DEF SignalInv
<1>7. ASSUME NEW c \in Consumers, Finish(c) PROVE SignalInv'
  <2>1. Woken' = Woken /\ Signalling' = Signalling /\ Length' = Length
    BY <1>7 DEF Finish, Woken, Signalling, list
  <2> QED BY <1>7, <2>1 DEF Finish, SignalInv, DequeuePost, timers
<1>8. ASSUME UNCHANGED vars PROVE SignalInv'
  BY <1>8 DEF vars, list, timers, SignalInv, DequeuePost, Woken, Signalling
<1>9. ~TimerExpires /\ \A c \in Consumers : ~StartTimer(c)
  BY DEF SignalInv, TimerExpires, StartTimer
<1> QED BY <1>1, <1>2, <1>3, <1>4, <1>5, <1>6, <1>7, <1>8, <1>9 DEF Next, ConsumerStep

\* The postcondition of Dequeue_Network_Packet holds on every queue that is only
\* used without timeouts, whatever the number of consumers and producers: the
\* receiver tasks and Allocate_Tx_Packet never get a null packet.
THEOREM UntimedDequeuePost ==
  ASSUME TRUE \notin TimeoutChoices
  PROVE  Spec => []DequeuePost
<1>1. Init => SignalInv
  <2> SUFFICES ASSUME Init PROVE SignalInv
    OBVIOUS
  <2>1. Signalling = {} /\ Woken = {}
    BY DEF Init, Signalling, Woken
  <2>2. Cardinality(Signalling) = 0 /\ Cardinality(Woken) = 0
    BY <2>1, FS_EmptySet
  <2> QED BY <2>2 DEF Init, SignalInv, DequeuePost
<1>2. ListInv /\ SignalInv /\ [Next]_vars => SignalInv'
  BY SignalStep
<1>3. SignalInv => DequeuePost
  BY DEF SignalInv
<1> QED BY <1>1, <1>2, <1>3, ListInvCorrect, PTL DEF Spec

-----------------------------------------------------------------------------
(* Calls with a timeout, on a queue with one consumer. *)

\* From the announcement of the timer to the suspension, the timer is running, or
\* it has expired and left its signal.
ArmedInv ==
  \A c \in Consumers :
    /\ consumer[c] = "starting_timer" =>
         timed[c] /\ (Timer_Started \/ Not_Empty_Condvar)
    /\ consumer[c] = "suspending" /\ timed[c] =>
         \/ Not_Empty_Condvar
         \/ Timer_Started /\ (timer = "delaying" \/ Timer_Started_Condvar)
    /\ consumer[c] = "suspended" /\ timed[c] =>
         Timer_Started /\ (timer = "delaying" \/ Timer_Started_Condvar)
    /\ consumer[c] = "suspended" => ~Not_Empty_Condvar

\* A step of the queue or of its timer task keeps the timer armed.
LEMMA ArmedStep ==
  ASSUME \A c, d \in Consumers : c = d, ListInv, ArmedInv, [Next]_vars
  PROVE  ArmedInv'
<1> USE DEF ListInv, TypeOK
<1>1. ASSUME NEW k \in Producers, NEW p \in Packets, Enqueue(k, p) PROVE ArmedInv'
  BY <1>1 DEF Enqueue, ArmedInv, timers
<1>2. ASSUME NEW k \in Producers, Signal(k) PROVE ArmedInv'
  BY <1>2 DEF Signal, SetNotEmpty, ArmedInv, timers
<1>3. ASSUME NEW c \in Consumers, NEW t \in TimeoutChoices, CallDequeue(c, t) PROVE ArmedInv'
  BY <1>3, TimeoutChoicesAreBooleans DEF CallDequeue, ArmedInv
<1>4. ASSUME NEW c \in Consumers, StartTimer(c) PROVE ArmedInv'
  BY <1>4 DEF StartTimer, ArmedInv
<1>5. ASSUME NEW c \in Consumers, Suspend(c) PROVE ArmedInv'
  BY <1>5 DEF Suspend, ArmedInv, timers
<1>6. ASSUME NEW c \in Consumers, TakePacket(c) PROVE ArmedInv'
  BY <1>6 DEF TakePacket, ArmedInv
<1>7. ASSUME NEW c \in Consumers, TakeNothing(c) PROVE ArmedInv'
  BY <1>7 DEF TakeNothing, ArmedInv, timers
<1>8. ASSUME NEW c \in Consumers, Finish(c) PROVE ArmedInv'
  BY <1>8 DEF Finish, ArmedInv, timers
<1>9. ASSUME TimerExpires PROVE ArmedInv'
  <2>1. CASE Timer_Started /\ SetNotEmpty
    BY <1>9, <2>1 DEF TimerExpires, SetNotEmpty, ArmedInv
  <2>2. CASE ~Timer_Started /\ UNCHANGED <<Timer_Started, Not_Empty_Condvar, consumer>>
    BY <1>9, <2>2 DEF TimerExpires, ArmedInv
  <2> QED BY <1>9, <2>1, <2>2 DEF TimerExpires
<1>10. ASSUME UNCHANGED vars PROVE ArmedInv'
  BY <1>10 DEF vars, timers, ArmedInv
<1> QED BY <1>1, <1>2, <1>3, <1>4, <1>5, <1>6, <1>7, <1>8, <1>9, <1>10 DEF Next, ConsumerStep

\* On a queue with one consumer a task that waits with a timeout always has its
\* timer started and the timer task counting, or about to count, its delay.
THEOREM TimedWaitIsArmed ==
  ASSUME \A c, d \in Consumers : c = d
  PROVE  Spec => []ArmedWhileWaiting
<1>1. Init => ArmedInv
  BY DEF Init, ArmedInv
<1>2. ListInv /\ ArmedInv /\ [Next]_vars => ArmedInv'
  BY ArmedStep
<1>3. ArmedInv => ArmedWhileWaiting
  BY DEF ArmedInv, ArmedWhileWaiting
<1> QED BY <1>1, <1>2, <1>3, ListInvCorrect, PTL DEF Spec
=============================================================================
