----------------------------- MODULE RingBuffer -----------------------------
(***************************************************************************)
(* One Ring_Buffer_Type object of package Generic_Ring_Buffers, the two    *)
(* RTOS semaphores it is built on, the tasks that read from it and the     *)
(* tasks and interrupt handlers that write to it: the receive queue of a   *)
(* UART and the output buffer of the serial console.                       *)
(*                                                                         *)
(* Taking a semaphore, the region with CPU interrupts disabled, and giving *)
(* a semaphore are the three steps of each call.  A semaphore created with *)
(* initial count 0 is a binary one: giving it twice leaves what giving it  *)
(* once does.  A task woken by a semaphore takes it when it runs, so that  *)
(* another task may have taken it first.                                   *)
(***************************************************************************)
EXTENDS Integers, Sequences, FiniteSets

CONSTANTS Max_Num_Elements,  \* the capacity of the buffer
          Elements,          \* the values that are written
          Readers,           \* the tasks that call Read
          Writers            \* the contexts that call Write or Write_Non_Blocking

ASSUME CapacityPositive == Max_Num_Elements \in Nat \ {0}
ASSUME FiniteTasks == IsFiniteSet(Readers) /\ IsFiniteSet(Writers)

VARIABLES
  Buffer_Data,
  Write_Cursor, Read_Cursor,
  Not_Empty_Semaphore,     \* the count of that semaphore, 0 or 1
  Not_Full_Semaphore,      \* the count of that semaphore
  reader,                  \* the point each reader has reached
  Element,                 \* what each reader's last call returned
  writer,                  \* the point each writer has reached
  written,                 \* the element each writer's call stores
  contents                 \* history: the elements stored and not read, oldest first

semaphores == <<Not_Empty_Semaphore, Not_Full_Semaphore>>
buffer     == <<Buffer_Data, Write_Cursor, Read_Cursor, contents>>
vars       == <<buffer, semaphores, reader, Element, writer, written>>

Buffer_Index == 1 .. Max_Num_Elements
ReaderPoints == {"idle", "waiting", "fetching", "signalling"}
WriterPoints == {"idle", "waiting", "storing", "signalling"}

TypeOK ==
  /\ Buffer_Data \in [Buffer_Index -> Elements]
  /\ Write_Cursor \in Buffer_Index
  /\ Read_Cursor \in Buffer_Index
  /\ Not_Empty_Semaphore \in 0 .. 1
  /\ Not_Full_Semaphore \in 0 .. Max_Num_Elements
  /\ reader \in [Readers -> ReaderPoints]
  /\ Element \in [Readers -> Elements]
  /\ writer \in [Writers -> WriterPoints]
  /\ written \in [Writers -> Elements]
  /\ contents \in Seq(Elements)

\* Initialize.  What memory holds before the first write is arbitrary.
Init ==
  /\ Buffer_Data \in [Buffer_Index -> Elements]
  /\ Write_Cursor = 1
  /\ Read_Cursor = 1
  /\ Not_Empty_Semaphore = 0
  /\ Not_Full_Semaphore = Max_Num_Elements
  /\ reader = [r \in Readers |-> "idle"]
  /\ Element \in [Readers -> Elements]
  /\ writer = [w \in Writers |-> "idle"]
  /\ written \in [Writers -> Elements]
  /\ contents = <<>>

\* The index after i: the last one leads to the first.
NextIndex(i) == IF i < Max_Num_Elements THEN i + 1 ELSE 1

-----------------------------------------------------------------------------
(* Read *)

CallRead(r) ==
  /\ reader[r] = "idle"
  /\ reader' = [reader EXCEPT ![r] = "waiting"]
  /\ UNCHANGED <<buffer, semaphores, Element, writer, written>>

\* Mutant: the reader goes on without waiting for an element.
WaitNotEmptyBarges(r) ==
  /\ reader[r] = "waiting"
  /\ Not_Empty_Semaphore' = 0
  /\ reader' = [reader EXCEPT ![r] = "fetching"]
  /\ UNCHANGED <<buffer, Not_Full_Semaphore, Element, writer, written>>

\* RTOS_Semaphore_Wait (Not_Empty_Semaphore)
WaitNotEmpty(r) ==
  /\ reader[r] = "waiting"
  /\ Not_Empty_Semaphore > 0
  /\ Not_Empty_Semaphore' = Not_Empty_Semaphore - 1
  /\ reader' = [reader EXCEPT ![r] = "fetching"]
  /\ UNCHANGED <<buffer, Not_Full_Semaphore, Element, writer, written>>

\* Mutant: the cursor is advanced before the element is read.
FetchAfterAdvance(r) ==
  /\ reader[r] = "fetching"
  /\ Element' = [Element EXCEPT ![r] = Buffer_Data[NextIndex(Read_Cursor)]]
  /\ Read_Cursor' = NextIndex(Read_Cursor)
  /\ contents' = Tail(contents)
  /\ reader' = [reader EXCEPT ![r] = "signalling"]
  /\ UNCHANGED <<Buffer_Data, Write_Cursor, semaphores, writer, written>>

\* The part of Read that runs with interrupts disabled.
Fetch(r) ==
  /\ reader[r] = "fetching"
  /\ Element' = [Element EXCEPT ![r] = Buffer_Data[Read_Cursor]]
  /\ Read_Cursor' = NextIndex(Read_Cursor)
  /\ contents' = Tail(contents)
  /\ reader' = [reader EXCEPT ![r] = "signalling"]
  /\ UNCHANGED <<Buffer_Data, Write_Cursor, semaphores, writer, written>>

\* Mutant: the slot is given back only if the buffer is full.
SignalNotFullIfFull(r) ==
  /\ reader[r] = "signalling"
  /\ Not_Full_Semaphore' = IF Not_Full_Semaphore = 0 THEN 1 ELSE Not_Full_Semaphore
  /\ reader' = [reader EXCEPT ![r] = "idle"]
  /\ UNCHANGED <<buffer, Not_Empty_Semaphore, Element, writer, written>>

\* RTOS_Semaphore_Signal (Not_Full_Semaphore): the count stops at its maximum.
SignalNotFull(r) ==
  /\ reader[r] = "signalling"
  /\ Not_Full_Semaphore' = IF Not_Full_Semaphore < Max_Num_Elements
                           THEN Not_Full_Semaphore + 1 ELSE Not_Full_Semaphore
  /\ reader' = [reader EXCEPT ![r] = "idle"]
  /\ UNCHANGED <<buffer, Not_Empty_Semaphore, Element, writer, written>>

-----------------------------------------------------------------------------
(* Write and Write_Non_Blocking *)

CallWrite(w, e) ==
  /\ writer[w] = "idle"
  /\ written' = [written EXCEPT ![w] = e]
  /\ writer' = [writer EXCEPT ![w] = "waiting"]
  /\ UNCHANGED <<buffer, semaphores, reader, Element>>

\* RTOS_Semaphore_Wait (Not_Full_Semaphore)
WaitNotFull(w) ==
  /\ writer[w] = "waiting"
  /\ Not_Full_Semaphore > 0
  /\ Not_Full_Semaphore' = Not_Full_Semaphore - 1
  /\ writer' = [writer EXCEPT ![w] = "storing"]
  /\ UNCHANGED <<buffer, Not_Empty_Semaphore, reader, Element, written>>

\* Mutant: the status of the wait is not looked at.
WriteNonBlockingOverwrites(w, e) ==
  /\ writer[w] = "idle"
  /\ written' = [written EXCEPT ![w] = e]
  /\ Not_Full_Semaphore' = IF Not_Full_Semaphore > 0 THEN Not_Full_Semaphore - 1 ELSE 0
  /\ writer' = [writer EXCEPT ![w] = "storing"]
  /\ UNCHANGED <<buffer, Not_Empty_Semaphore, reader, Element>>

\* Write_Non_Blocking takes a free slot at once, or returns with Write_Ok false.
Write_Non_Blocking(w, e) ==
  /\ writer[w] = "idle"
  /\ Not_Full_Semaphore > 0
  /\ written' = [written EXCEPT ![w] = e]
  /\ Not_Full_Semaphore' = Not_Full_Semaphore - 1
  /\ writer' = [writer EXCEPT ![w] = "storing"]
  /\ UNCHANGED <<buffer, Not_Empty_Semaphore, reader, Element>>

\* The part of both that runs with interrupts disabled.
Store(w) ==
  /\ writer[w] = "storing"
  /\ Buffer_Data' = [Buffer_Data EXCEPT ![Write_Cursor] = written[w]]
  /\ Write_Cursor' = NextIndex(Write_Cursor)
  /\ contents' = Append(contents, written[w])
  /\ writer' = [writer EXCEPT ![w] = "signalling"]
  /\ UNCHANGED <<Read_Cursor, semaphores, reader, Element, written>>

\* Mutant: only the element that finds the buffer empty is signalled.
SignalIfWasEmpty(w) ==
  /\ writer[w] = "signalling"
  /\ Not_Empty_Semaphore' = IF Len(contents) = 1 THEN 1 ELSE Not_Empty_Semaphore
  /\ writer' = [writer EXCEPT ![w] = "idle"]
  /\ UNCHANGED <<buffer, Not_Full_Semaphore, reader, Element, written>>

\* RTOS_Semaphore_Signal (Not_Empty_Semaphore): binary, the count stops at one.
SignalNotEmpty(w) ==
  /\ writer[w] = "signalling"
  /\ Not_Empty_Semaphore' = 1
  /\ writer' = [writer EXCEPT ![w] = "idle"]
  /\ UNCHANGED <<buffer, Not_Full_Semaphore, reader, Element, written>>

-----------------------------------------------------------------------------
ReaderStep(r) == WaitNotEmpty(r) \/ Fetch(r) \/ SignalNotFull(r)
WriterStep(w) == WaitNotFull(w) \/ Store(w) \/ SignalNotEmpty(w)

Next ==
  \/ \E r \in Readers : CallRead(r) \/ ReaderStep(r)
  \/ \E w \in Writers : \/ \E e \in Elements : CallWrite(w, e) \/ Write_Non_Blocking(w, e)
                        \/ WriterStep(w)

Spec == Init /\ [][Next]_vars

\* A task that can run is scheduled in the end, and readers come back for the next
\* element, as the console's output task does.  Nobody has to write.
Fairness == /\ \A r \in Readers : WF_vars(CallRead(r) \/ ReaderStep(r))
            /\ \A w \in Writers : WF_vars(WriterStep(w))

FairSpec == Spec /\ Fairness

-----------------------------------------------------------------------------
(* Properties *)

Storing    == {w \in Writers : writer[w] = "storing"}
Announcing == {w \in Writers : writer[w] = "signalling"}
Fetching   == {r \in Readers : reader[r] = "fetching"}
Freeing    == {r \in Readers : reader[r] = "signalling"}

\* The slot k places after the read cursor.
FromRead(k) == IF Read_Cursor + k > Max_Num_Elements
               THEN Read_Cursor + k - Max_Num_Elements ELSE Read_Cursor + k

\* The slots from the read cursor on hold the elements in their order, up to the
\* write cursor, whatever Buffer_Data has been overwritten with before.
DataIsContents ==
  /\ Len(contents) <= Max_Num_Elements
  /\ Write_Cursor = FromRead(Len(contents))
  /\ \A k \in 1 .. Len(contents) : Buffer_Data[FromRead(k - 1)] = contents[k]

\* No slot is lost: each is counted free by Not_Full_Semaphore, or taken by a writer
\* that has not stored yet, or full, or emptied by a reader that has not given it back.
SlotsAccounted ==
  Not_Full_Semaphore + Cardinality(Storing) + Len(contents) + Cardinality(Freeing)
    = Max_Num_Elements

\* No reader fetches from an empty buffer: every signal (given, still to be given, or
\* taken) has an element of its own.
SignalsBacked ==
  Not_Empty_Semaphore + Cardinality(Fetching) + Cardinality(Announcing) <= Len(contents)

\* Readers and writers are never all asleep.  The binary semaphore loses signals, so
\* a reader may wait beside an element; but not beside a full buffer, where writers
\* wait as well.
NeverAllAsleep ==
  Len(contents) = Max_Num_Elements =>
    Not_Empty_Semaphore = 1 \/ Fetching # {} \/ Announcing # {}

\* Each writer that waits in Write gets a slot, unless another writer takes every slot
\* that gets free before it: the readers never leave it beside a full buffer for ever.
\* That it is not overtaken for ever (the strong fairness) is an assumption of the
\* property and none of the specification: a handler's Write_Non_Blocking may do it.
WriterGetsSlot ==
  \A w \in Writers :
    SF_vars(WaitNotFull(w)) => (writer[w] = "waiting" ~> writer[w] = "storing")

\* Elements leave in the order of their arrival, each once.
Fifo == INSTANCE BoundedFifo WITH queue <- contents, got <- Element
ImplementsFifo == Fifo!Spec

=============================================================================
