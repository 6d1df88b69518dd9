-------------------------- MODULE RingBufferProofs --------------------------
(***************************************************************************)
(* Proofs about RingBuffer for any capacity, any elements and any finite   *)
(* sets of readers and writers.  The argument is an account of slots and   *)
(* of signals: every task between two steps of its call stands for one     *)
(* slot, or for one signal, so that the three sums of the invariant are    *)
(* kept although the tasks interleave at every step.                       *)
(***************************************************************************)
EXTENDS RingBuffer, FiniteSetTheorems, SequenceTheorems, TLAPS

Accounts == SlotsAccounted /\ SignalsBacked /\ NeverAllAsleep

RingInv == TypeOK /\ DataIsContents /\ Accounts

-----------------------------------------------------------------------------
(* Lemmas *)

\* A set that gains an element has one more.
LEMMA OneMore ==
  ASSUME NEW S, NEW T, NEW x, IsFiniteSet(S), x \notin S, T = S \cup {x}
  PROVE  Cardinality(T) = Cardinality(S) + 1
BY FS_AddElement, FS_CardinalityType

\* A set that loses an element has one less.
LEMMA OneLess ==
  ASSUME NEW S, NEW T, NEW x, IsFiniteSet(S), x \in S, T = S \ {x}
  PROVE  Cardinality(T) = Cardinality(S) - 1 /\ Cardinality(S) > 0
<1>1. Cardinality(S) \in Nat /\ S # {}
  BY FS_CardinalityType
<1>2. Cardinality(S) # 0
  BY <1>1, FS_EmptySet
<1> QED BY <1>1, <1>2, FS_RemoveElement

\* The sets of tasks at a point are finite, so their cardinalities are numbers.
LEMMA TaskCounts ==
  /\ IsFiniteSet(Storing)    /\ Cardinality(Storing) \in Nat
  /\ IsFiniteSet(Announcing) /\ Cardinality(Announcing) \in Nat
  /\ IsFiniteSet(Fetching)   /\ Cardinality(Fetching) \in Nat
  /\ IsFiniteSet(Freeing)    /\ Cardinality(Freeing) \in Nat
BY FiniteTasks, FS_Subset, FS_CardinalityType DEF Storing, Announcing, Fetching, Freeing

\* A set of tasks that is not empty counts, and an empty one does not.
LEMMA CountsTell ==
  /\ (Fetching = {}) = (Cardinality(Fetching) = 0)
  /\ (Announcing = {}) = (Cardinality(Announcing) = 0)
BY TaskCounts, FS_EmptySet

\* The invariant in numbers, as the steps below use it.
LEMMA InNumbers ==
  ASSUME RingInv
  PROVE  /\ Max_Num_Elements \in Nat \ {0} /\ Len(contents) \in Nat
         /\ Not_Full_Semaphore \in Nat /\ Not_Empty_Semaphore \in {0, 1}
         /\ Read_Cursor \in 1 .. Max_Num_Elements
         /\ contents \in Seq(Elements)
         /\ SlotsAccounted /\ SignalsBacked /\ NeverAllAsleep
BY CapacityPositive DEF RingInv, TypeOK, Buffer_Index, Accounts

\* The same without sets and sequences, for the steps that only count.
LEMMA Sums ==
  ASSUME RingInv
  PROVE  /\ Cardinality(Storing) \in Nat  /\ Cardinality(Announcing) \in Nat
         /\ Cardinality(Fetching) \in Nat /\ Cardinality(Freeing) \in Nat
         /\ Max_Num_Elements \in Nat /\ Len(contents) \in Nat
         /\ Not_Full_Semaphore \in Nat /\ Not_Empty_Semaphore \in Nat
         /\ SlotsAccounted /\ SignalsBacked
BY InNumbers, TaskCounts

-----------------------------------------------------------------------------
(* The steps of a reader *)

\* A call that has only been made, and a stutter, touch no account.
LEMMA CallStep ==
  ASSUME RingInv, UNCHANGED <<buffer, semaphores>>,
         \/ \E r \in Readers : CallRead(r)
         \/ \E w \in Writers, e \in Elements : CallWrite(w, e)
         \/ UNCHANGED vars
  PROVE  RingInv'
<1>1. TypeOK'
  BY DEF RingInv, TypeOK, CallRead, CallWrite, buffer, semaphores, ReaderPoints, WriterPoints, vars
<1>2. /\ Storing' = Storing /\ Announcing' = Announcing
      /\ Fetching' = Fetching /\ Freeing' = Freeing
  BY DEF CallRead, CallWrite, Storing, Announcing, Fetching, Freeing, RingInv, TypeOK, vars
<1>3. DataIsContents'
  BY DEF RingInv, DataIsContents, FromRead, buffer
<1>4. Accounts'
  BY <1>2 DEF RingInv, Accounts, SlotsAccounted, SignalsBacked, NeverAllAsleep, buffer, semaphores
<1> QED BY <1>1, <1>3, <1>4 DEF RingInv

\* A reader that takes the signal carries it: the sum of signals stays.
LEMMA WaitNotEmptyStep ==
  ASSUME NEW r \in Readers, RingInv, WaitNotEmpty(r)
  PROVE  RingInv'
<1>1. TypeOK'
  BY DEF RingInv, TypeOK, WaitNotEmpty, buffer, ReaderPoints
<1>2. Fetching' = Fetching \cup {r} /\ r \notin Fetching
  BY DEF WaitNotEmpty, Fetching, RingInv, TypeOK
<1>3. Storing' = Storing /\ Announcing' = Announcing /\ Freeing' = Freeing
  BY DEF WaitNotEmpty, Storing, Announcing, Freeing, RingInv, TypeOK
<1>4. Cardinality(Fetching') = Cardinality(Fetching) + 1
  BY <1>2, TaskCounts, OneMore
<1>5. DataIsContents'
  BY DEF RingInv, DataIsContents, FromRead, buffer, WaitNotEmpty
<1>6. SlotsAccounted' /\ SignalsBacked'
  BY <1>3, <1>4, Sums
     DEF SlotsAccounted, SignalsBacked, WaitNotEmpty, buffer
<1>7. NeverAllAsleep'
  BY <1>2 DEF NeverAllAsleep
<1> QED BY <1>1, <1>5, <1>6, <1>7 DEF RingInv, Accounts

\* A reader that fetches turns its signal and a full slot into a slot to be freed, and
\* what it fetches is the oldest element.
LEMMA FetchStep ==
  ASSUME NEW r \in Readers, RingInv, Fetch(r)
  PROVE  /\ RingInv'
         /\ contents # <<>> /\ Buffer_Data[Read_Cursor] = Head(contents)
<1>1. Fetching' = Fetching \ {r} /\ r \in Fetching
  BY DEF Fetch, Fetching, RingInv, TypeOK
<1>2. Freeing' = Freeing \cup {r} /\ r \notin Freeing
  BY DEF Fetch, Freeing, RingInv, TypeOK
<1>3. Storing' = Storing /\ Announcing' = Announcing
  BY DEF Fetch, Storing, Announcing
<1>4. /\ Cardinality(Fetching') = Cardinality(Fetching) - 1 /\ Cardinality(Fetching) > 0
      /\ Cardinality(Freeing') = Cardinality(Freeing) + 1
  BY <1>1, <1>2, TaskCounts, OneMore, OneLess
<1>5. Len(contents) > 0
  BY <1>4, Sums DEF SignalsBacked
<1>6. /\ contents # <<>>
      /\ contents' \in Seq(Elements)
      /\ \A k \in 1 .. Len(contents') : contents'[k] = contents[k + 1]
  BY <1>5, InNumbers, EmptySeq, HeadTailProperties DEF Fetch
<1>6a. Len(contents') = Len(contents) - 1
  BY <1>6, InNumbers, HeadTailProperties DEF Fetch
<1>6b. Len(contents) \in 1 .. Max_Num_Elements
  BY <1>5, InNumbers DEF RingInv, DataIsContents
<1>7. /\ Len(contents) \in 1 .. Max_Num_Elements
      /\ \A k \in 1 .. Len(contents) : Buffer_Data[FromRead(k - 1)] = contents[k]
      /\ Write_Cursor = FromRead(Len(contents))
  BY <1>5, InNumbers DEF RingInv, DataIsContents
<1>8. Buffer_Data[Read_Cursor] = Head(contents)
  <2>1. FromRead(1 - 1) = Read_Cursor
    BY InNumbers DEF FromRead
  <2>2. Buffer_Data[FromRead(1 - 1)] = contents[1]
    BY <1>7
  <2> QED BY <2>1, <2>2, <1>6, InNumbers, HeadTailProperties
<1>9. \A k \in 1 .. Max_Num_Elements : FromRead(k - 1)' = FromRead(k)
  BY InNumbers DEF FromRead, Fetch, NextIndex
<1>10. DataIsContents'
  <2>1. Write_Cursor' = FromRead(Len(contents))'
    <3>1. Read_Cursor' = NextIndex(Read_Cursor)
      BY DEF Fetch
    <3>2. FromRead(Len(contents))' = FromRead(Len(contents))
      BY <3>1, <1>6a, <1>6b, InNumbers DEF FromRead, NextIndex
    <3> QED BY <3>2, <1>7 DEF Fetch
  <2>2. ASSUME NEW k \in 1 .. Len(contents')
        PROVE  Buffer_Data'[FromRead(k - 1)'] = contents'[k]
    <3>1. k \in 1 .. Max_Num_Elements /\ k + 1 \in 1 .. Len(contents)
      BY <1>6a, <1>7, InNumbers
    <3>2. FromRead(k - 1)' = FromRead(k) /\ FromRead(k) = FromRead((k + 1) - 1)
      BY <3>1, <1>9
    <3> QED BY <3>1, <3>2, <1>6, <1>7 DEF Fetch
  <2>3. Len(contents') <= Max_Num_Elements
    BY <1>6a, <1>7, InNumbers
  <2> QED BY <2>1, <2>2, <2>3 DEF DataIsContents
<1>11. TypeOK'
  <2>1. Read_Cursor' \in Buffer_Index
    BY InNumbers DEF Fetch, NextIndex, Buffer_Index
  <2>2. Buffer_Data[Read_Cursor] \in Elements
    BY DEF RingInv, TypeOK
  <2> QED BY <1>6, <2>1, <2>2 DEF RingInv, TypeOK, Fetch, semaphores, ReaderPoints
<1>12. UNCHANGED <<Not_Empty_Semaphore, Not_Full_Semaphore>>
  BY DEF Fetch, semaphores
<1>13. Accounts'
  <2>1. SlotsAccounted' /\ SignalsBacked'
    <3>1. SlotsAccounted'
      <4>1. /\ Not_Full_Semaphore \in Int /\ Cardinality(Storing) \in Int
            /\ Len(contents) \in Int /\ Cardinality(Freeing) \in Int
        BY Sums
      <4>2. Not_Full_Semaphore + Cardinality(Storing) + Len(contents) + Cardinality(Freeing)
              = Max_Num_Elements
        BY Sums DEF SlotsAccounted
      <4> QED BY <1>3, <1>4, <1>6a, <1>12, <4>1, <4>2 DEF SlotsAccounted
    <3>2. SignalsBacked'
      BY <1>3, <1>4, <1>6a, <1>12, Sums DEF SignalsBacked
    <3> QED BY <3>1, <3>2
  <2>2. NeverAllAsleep'
    BY <1>6a, <1>7, InNumbers DEF NeverAllAsleep
  <2> QED BY <2>1, <2>2 DEF Accounts
<1> QED BY <1>13, <1>6, <1>8, <1>10, <1>11, <1>12 DEF RingInv

\* The slot a reader gives back is below the maximum of the semaphore, so it counts.
LEMMA SignalNotFullStep ==
  ASSUME NEW r \in Readers, RingInv, SignalNotFull(r)
  PROVE  RingInv'
<1>1. Freeing' = Freeing \ {r} /\ r \in Freeing
  BY DEF SignalNotFull, Freeing, RingInv, TypeOK
<1>2. Storing' = Storing /\ Announcing' = Announcing /\ Fetching' = Fetching
  BY DEF SignalNotFull, Storing, Announcing, Fetching, RingInv, TypeOK
<1>3. Cardinality(Freeing') = Cardinality(Freeing) - 1
  BY <1>1, TaskCounts, OneLess
<1>3a. Cardinality(Freeing) > 0
  BY <1>1, TaskCounts, OneLess
<1>4. Not_Full_Semaphore < Max_Num_Elements
  BY <1>3a, Sums DEF SlotsAccounted
<1>5. TypeOK'
  BY <1>4, InNumbers DEF RingInv, TypeOK, SignalNotFull, buffer, ReaderPoints
<1>6. DataIsContents'
  BY DEF RingInv, DataIsContents, FromRead, buffer, SignalNotFull
<1>7. /\ Not_Full_Semaphore' = Not_Full_Semaphore + 1
      /\ UNCHANGED <<contents, Not_Empty_Semaphore>>
  BY <1>4, InNumbers DEF SignalNotFull, buffer
<1>8. Accounts'
  <2>1. SlotsAccounted'
    <3>1. /\ Not_Full_Semaphore \in Int /\ Cardinality(Storing) \in Int
          /\ Len(contents) \in Int /\ Cardinality(Freeing) \in Int
      BY Sums
    <3>2. Not_Full_Semaphore + Cardinality(Storing) + Len(contents) + Cardinality(Freeing)
            = Max_Num_Elements
      BY Sums DEF SlotsAccounted
    <3> QED BY <1>2, <1>3, <1>7, <3>1, <3>2 DEF SlotsAccounted
  <2>2. SignalsBacked'
    BY <1>2, <1>7, InNumbers DEF SignalsBacked
  <2>3. NeverAllAsleep'
    BY <1>2, <1>7, InNumbers DEF NeverAllAsleep
  <2> QED BY <2>1, <2>2, <2>3 DEF Accounts
<1> QED BY <1>8, <1>5, <1>6, <1>7 DEF RingInv

-----------------------------------------------------------------------------
(* The steps of a writer *)

\* A writer that takes a slot carries it.
LEMMA TakeSlotStep ==
  ASSUME NEW w \in Writers, RingInv,
         WaitNotFull(w) \/ \E e \in Elements : Write_Non_Blocking(w, e)
  PROVE  RingInv'
<1>1. Storing' = Storing \cup {w} /\ w \notin Storing
  BY DEF WaitNotFull, Write_Non_Blocking, Storing, RingInv, TypeOK
<1>2. Announcing' = Announcing /\ Fetching' = Fetching /\ Freeing' = Freeing
  BY DEF WaitNotFull, Write_Non_Blocking, Announcing, Fetching, Freeing, RingInv, TypeOK
<1>3. Cardinality(Storing') = Cardinality(Storing) + 1
  BY <1>1, TaskCounts, OneMore
<1>4. /\ Not_Full_Semaphore > 0 /\ Not_Full_Semaphore' = Not_Full_Semaphore - 1
      /\ UNCHANGED <<buffer, Not_Empty_Semaphore>>
  BY DEF WaitNotFull, Write_Non_Blocking
<1>5. TypeOK'
  BY <1>4, InNumbers DEF RingInv, TypeOK, WaitNotFull, Write_Non_Blocking, buffer, WriterPoints
<1>6. DataIsContents'
  BY <1>4 DEF RingInv, DataIsContents, FromRead, buffer
<1>7. Accounts'
  <2>1. SlotsAccounted'
    BY <1>2, <1>3, <1>4, Sums DEF SlotsAccounted, buffer
  <2>2. SignalsBacked' /\ NeverAllAsleep'
    BY <1>2, <1>4, InNumbers DEF SignalsBacked, NeverAllAsleep, buffer
  <2> QED BY <2>1, <2>2 DEF Accounts
<1> QED BY <1>5, <1>6, <1>7 DEF RingInv

\* A writer that stores turns its slot into a full one and a signal to be given; it
\* finds room, and overwrites no element.
LEMMA StoreStep ==
  ASSUME NEW w \in Writers, RingInv, Store(w)
  PROVE  RingInv' /\ Len(contents) < Max_Num_Elements
<1>1. Storing' = Storing \ {w} /\ w \in Storing
  BY DEF Store, Storing, RingInv, TypeOK
<1>2. Announcing' = Announcing \cup {w} /\ w \notin Announcing
  BY DEF Store, Announcing, RingInv, TypeOK
<1>3. Fetching' = Fetching /\ Freeing' = Freeing
  BY DEF Store, Fetching, Freeing
<1>4. /\ Cardinality(Storing') = Cardinality(Storing) - 1 /\ Cardinality(Storing) > 0
      /\ Cardinality(Announcing') = Cardinality(Announcing) + 1
  BY <1>1, <1>2, TaskCounts, OneMore, OneLess
<1>5. Len(contents) < Max_Num_Elements
  BY <1>4, Sums DEF SlotsAccounted
<1>6. /\ written[w] \in Elements
      /\ contents' = Append(contents, written[w])
      /\ contents' \in Seq(Elements)
      /\ contents'[Len(contents) + 1] = written[w]
      /\ \A k \in 1 .. Len(contents) : contents'[k] = contents[k]
  BY InNumbers, AppendProperties DEF Store, RingInv, TypeOK
<1>6a. Len(contents') = Len(contents) + 1
  BY <1>6, InNumbers, AppendProperties
<1>7. /\ \A k \in 1 .. Len(contents) : Buffer_Data[FromRead(k - 1)] = contents[k]
      /\ Write_Cursor = FromRead(Len(contents))
  BY DEF RingInv, DataIsContents
<1>8. \A k \in 0 .. Max_Num_Elements : FromRead(k)' = FromRead(k)
  BY DEF FromRead, Store
<1>9. /\ FromRead(Len(contents)) \in Buffer_Index
      /\ \A k \in 1 .. Len(contents) : /\ FromRead(k - 1) \in Buffer_Index
                                       /\ FromRead(k - 1) # FromRead(Len(contents))
  <2>1. /\ Max_Num_Elements \in Int /\ Len(contents) \in Nat
        /\ 1 <= Read_Cursor /\ Read_Cursor <= Max_Num_Elements /\ Read_Cursor \in Int
    BY InNumbers
  <2>2. ASSUME NEW k \in 0 .. Len(contents)
        PROVE  FromRead(k) \in Buffer_Index
    BY <1>5, <2>1, <2>2 DEF FromRead, Buffer_Index
  <2>3. ASSUME NEW k \in 1 .. Len(contents)
        PROVE  FromRead(k - 1) # FromRead(Len(contents))
    BY <1>5, <2>1, <2>3 DEF FromRead
  <2>4. Len(contents) \in 0 .. Len(contents)
        /\ \A k \in 1 .. Len(contents) : k - 1 \in 0 .. Len(contents)
    BY <2>1
  <2> QED BY <2>2, <2>3, <2>4
<1>10. DataIsContents'
  <2>1. Write_Cursor' = FromRead(Len(contents))'
    <3>1. FromRead(Len(contents))' = FromRead(Len(contents) + 1)
      BY <1>5, <1>6a, <1>8, InNumbers
    <3>2. NextIndex(FromRead(Len(contents))) = FromRead(Len(contents) + 1)
      BY <1>5, InNumbers DEF NextIndex, FromRead
    <3> QED BY <3>1, <3>2, <1>7 DEF Store
  <2>2. Buffer_Data' = [Buffer_Data EXCEPT ![FromRead(Len(contents))] = written[w]]
    BY <1>7 DEF Store
  <2>3. ASSUME NEW k \in 1 .. Len(contents')
        PROVE  Buffer_Data'[FromRead(k - 1)'] = contents'[k]
    <3>1. k - 1 \in 0 .. Max_Num_Elements /\ FromRead(k - 1)' = FromRead(k - 1)
      BY <1>5, <1>6a, <1>8, InNumbers
    <3>2. CASE k = Len(contents) + 1
      BY <3>1, <3>2, <2>2, <1>6, <1>9, InNumbers DEF RingInv, TypeOK
    <3>3. CASE k \in 1 .. Len(contents)
      BY <3>1, <3>3, <2>2, <1>6, <1>7, <1>9, InNumbers DEF RingInv, TypeOK
    <3> QED BY <3>2, <3>3, <1>6a, InNumbers
  <2>4. Len(contents') <= Max_Num_Elements
    BY <1>5, <1>6a, InNumbers
  <2> QED BY <2>1, <2>3, <2>4 DEF DataIsContents
<1>11. TypeOK'
  <2>1. Write_Cursor' \in Buffer_Index
    BY CapacityPositive DEF RingInv, TypeOK, Store, NextIndex, Buffer_Index
  <2> QED BY <1>6, <2>1 DEF RingInv, TypeOK, Store, semaphores, WriterPoints
<1>12. UNCHANGED <<Not_Empty_Semaphore, Not_Full_Semaphore>>
  BY DEF Store, semaphores
<1>14. SlotsAccounted' /\ SignalsBacked'
  <2>1. SlotsAccounted'
    <3>1. /\ Not_Full_Semaphore \in Int /\ Cardinality(Storing) \in Int
          /\ Len(contents) \in Int /\ Cardinality(Freeing) \in Int
      BY Sums
    <3>2. Not_Full_Semaphore + Cardinality(Storing) + Len(contents) + Cardinality(Freeing)
            = Max_Num_Elements
      BY Sums DEF SlotsAccounted
    <3> QED BY <1>3, <1>4, <1>6a, <1>12, <3>1, <3>2 DEF SlotsAccounted
  <2>2. SignalsBacked'
    BY <1>3, <1>4, <1>6a, <1>12, Sums DEF SignalsBacked
  <2> QED BY <2>1, <2>2
<1>13. NeverAllAsleep'
  BY <1>2 DEF NeverAllAsleep
<1> QED BY <1>5, <1>10, <1>11, <1>13, <1>14 DEF RingInv, Accounts

\* The signal a writer gives may be lost, which the account of signals allows.
LEMMA SignalNotEmptyStep ==
  ASSUME NEW w \in Writers, RingInv, SignalNotEmpty(w)
  PROVE  RingInv'
<1>1. Announcing' = Announcing \ {w} /\ w \in Announcing
  BY DEF SignalNotEmpty, Announcing, RingInv, TypeOK
<1>2. Storing' = Storing /\ Fetching' = Fetching /\ Freeing' = Freeing
  BY DEF SignalNotEmpty, Storing, Fetching, Freeing, RingInv, TypeOK
<1>3. Cardinality(Announcing') = Cardinality(Announcing) - 1
  BY <1>1, TaskCounts, OneLess
<1>4. TypeOK'
  BY DEF RingInv, TypeOK, SignalNotEmpty, buffer, WriterPoints
<1>5. DataIsContents'
  BY DEF RingInv, DataIsContents, FromRead, buffer, SignalNotEmpty
<1>6. SlotsAccounted' /\ SignalsBacked'
  BY <1>2, <1>3, Sums
     DEF SlotsAccounted, SignalsBacked, SignalNotEmpty, buffer
<1>7. NeverAllAsleep'
  BY DEF NeverAllAsleep, SignalNotEmpty
<1> QED BY <1>4, <1>5, <1>6, <1>7 DEF RingInv, Accounts

-----------------------------------------------------------------------------
(* The invariant and what follows from it *)

\* The invariant holds initially and every step preserves it.
LEMMA RingInvCorrect == Spec => []RingInv
<1>1. Init => RingInv
  <2> SUFFICES ASSUME Init PROVE RingInv
    OBVIOUS
  <2>1. contents = <<>> /\ contents \in Seq(Elements) /\ Len(contents) = 0
    BY DEF Init
  <2>2. TypeOK
    BY <2>1, CapacityPositive DEF Init, TypeOK, Buffer_Index, ReaderPoints, WriterPoints
  <2>3. DataIsContents
    BY <2>1, CapacityPositive DEF Init, DataIsContents, FromRead
  <2>4. Storing = {} /\ Announcing = {} /\ Fetching = {} /\ Freeing = {}
    BY DEF Init, Storing, Announcing, Fetching, Freeing
  <2>5. Accounts
    BY <2>1, <2>4, FS_EmptySet, CapacityPositive
       DEF Init, Accounts, SlotsAccounted, SignalsBacked, NeverAllAsleep
  <2> QED BY <2>2, <2>3, <2>5 DEF RingInv
<1>2. RingInv /\ [Next]_vars => RingInv'
  <2> SUFFICES ASSUME RingInv, [Next]_vars PROVE RingInv'
    OBVIOUS
  <2>1. ASSUME NEW r \in Readers, CallRead(r) PROVE RingInv'
    BY <2>1, CallStep DEF CallRead
  <2>2. ASSUME NEW w \in Writers, NEW e \in Elements, CallWrite(w, e) PROVE RingInv'
    BY <2>2, CallStep DEF CallWrite
  <2>3. ASSUME UNCHANGED vars PROVE RingInv'
    BY <2>3, CallStep DEF vars
  <2> QED BY <2>1, <2>2, <2>3, WaitNotEmptyStep, FetchStep, SignalNotFullStep, TakeSlotStep,
             StoreStep, SignalNotEmptyStep DEF Next, ReaderStep, WriterStep
<1> QED BY <1>1, <1>2, PTL DEF Spec

\* Every variable of the ring buffer keeps its type: cursors stay in the buffer and
\* no semaphore is given more often than its maximum.
THEOREM TypeCorrect == Spec => []TypeOK
BY RingInvCorrect, PTL DEF RingInv

\* The slots between the cursors are at every moment the elements written and not
\* yet read, in their order, although writers reuse the slots readers gave back.
THEOREM DataCorrect == Spec => []DataIsContents
BY RingInvCorrect, PTL DEF RingInv

\* No slot is ever lost or used twice, whatever readers and writers are between two
\* steps of their calls.
THEOREM NoSlotLost == Spec => []SlotsAccounted
BY RingInvCorrect, PTL DEF RingInv, Accounts

\* Read never fetches from an empty buffer.
THEOREM ReadFindsElement == Spec => []SignalsBacked
BY RingInvCorrect, PTL DEF RingInv, Accounts

\* With a full buffer some reader is awake or about to be woken: the signals that the
\* binary semaphore loses cannot leave readers and writers all asleep.
THEOREM SomeoneAwake == Spec => []NeverAllAsleep
BY RingInvCorrect, PTL DEF RingInv, Accounts

-----------------------------------------------------------------------------
(* The ring buffer implements BoundedFifo. *)

\* Every step of the ring buffer is a step of the FIFO, or changes none of it.
LEMMA FifoStep == RingInv /\ [Next]_vars => [Fifo!Next]_(Fifo!fifoVars)
<1> SUFFICES ASSUME RingInv, [Next]_vars PROVE [Fifo!Next]_(Fifo!fifoVars)
  OBVIOUS
<1>1. ASSUME NEW r \in Readers, Fetch(r) PROVE Fifo!Get(r)
  BY <1>1, FetchStep DEF Fifo!Get, Fetch
<1>2. ASSUME NEW w \in Writers, Store(w) PROVE Fifo!Put(written[w]) /\ written[w] \in Elements
  BY <1>2, StoreStep DEF Fifo!Put, Store, RingInv, TypeOK
<1>3. ASSUME NEW r \in Readers, CallRead(r) \/ WaitNotEmpty(r) \/ SignalNotFull(r)
      PROVE  UNCHANGED Fifo!fifoVars
  BY <1>3 DEF Fifo!fifoVars, CallRead, WaitNotEmpty, SignalNotFull, buffer
<1>4. ASSUME NEW w \in Writers, NEW e \in Elements, CallWrite(w, e) \/ Write_Non_Blocking(w, e)
      PROVE  UNCHANGED Fifo!fifoVars
  BY <1>4 DEF Fifo!fifoVars, CallWrite, Write_Non_Blocking, buffer
<1>5. ASSUME NEW w \in Writers, WaitNotFull(w) \/ SignalNotEmpty(w)
      PROVE  UNCHANGED Fifo!fifoVars
  BY <1>5 DEF Fifo!fifoVars, WaitNotFull, SignalNotEmpty, buffer
<1>6. ASSUME UNCHANGED vars PROVE UNCHANGED Fifo!fifoVars
  BY <1>6 DEF Fifo!fifoVars, vars, buffer
<1> QED BY <1>1, <1>2, <1>3, <1>4, <1>5, <1>6 DEF Next, ReaderStep, WriterStep, Fifo!Next

\* Every behaviour of the ring buffer is one of BoundedFifo: elements come out in the
\* order in which they went in, each once, and never more than the capacity are inside.
THEOREM FifoImplemented == Spec => ImplementsFifo
<1>1. Init => Fifo!Init
  BY DEF Init, Fifo!Init
<1> QED BY <1>1, FifoStep, RingInvCorrect, PTL DEF Spec, ImplementsFifo, Fifo!Spec
=============================================================================
