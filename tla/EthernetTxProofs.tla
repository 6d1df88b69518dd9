-------------------------- MODULE EthernetTxProofs --------------------------
(***************************************************************************)
(* Proofs about EthernetTx for a pool of any size and any finite set of    *)
(* tasks.  The argument: the pool is initialised with one signal, so that  *)
(* one packet at most is out of it, and the ring is empty or holds that    *)
(* packet alone.                                                           *)
(***************************************************************************)
EXTENDS EthernetTx, FiniteSetTheorems, SequenceTheorems, TLAPS

TaskPoints    == {"running", "suspending", "suspended", "woken", "activating", "signalling",
                  "program_error"}
HandlerPoints == {"idle", "reading_EIR", "clearing_EIR", "draining"}
Addresses     == Packets \cup {Null_Address}

\* TypeOK without the bound on the number of descriptors in use.
Types ==
  /\ Tx_Buffer_Descriptors \in [Ring -> [address : Addresses, ready : BOOLEAN]]
  /\ Tx_Ring_Write_Cursor \in Ring
  /\ Tx_Ring_Read_Cursor \in Ring
  /\ Tx_State_Flags \in [Packets -> SUBSET Flags]
  /\ Tx_Buffer_Descriptor_Index \in [Packets -> Ring]
  /\ Free_List \in Seq(Packets)
  /\ Not_Empty_Condvar \in BOOLEAN
  /\ task \in [Tasks -> TaskPoints]
  /\ held \in [Tasks -> Seq(Packets)]
  /\ handler \in HandlerPoints
  /\ TXF \in BOOLEAN
  /\ TDAR \in BOOLEAN
  /\ dma \in Ring

Blank == [address |-> Null_Address, ready |-> FALSE]

\* The ring holds no packet.
RingEmpty ==
  /\ Tx_Ring_Entries_Filled = 0
  /\ Tx_Ring_Write_Cursor = Tx_Ring_Read_Cursor
  /\ dma = Tx_Ring_Read_Cursor
  /\ \A i \in Ring : Tx_Buffer_Descriptors[i] = Blank
  /\ handler # "draining"

\* The ring holds one packet, which the DMA engine will send or has sent.
RingWithOne ==
  LET desc == Tx_Buffer_Descriptors[Tx_Ring_Read_Cursor]
  IN  /\ Tx_Ring_Entries_Filled = 1
      /\ Tx_Ring_Write_Cursor = After(Tx_Ring_Read_Cursor)
      /\ desc.address \in Packets
      /\ Tx_Buffer_Descriptor_Index[desc.address] = Tx_Ring_Read_Cursor
      /\ dma = IF desc.ready THEN Tx_Ring_Read_Cursor ELSE After(Tx_Ring_Read_Cursor)
      /\ \A i \in Ring \ {Tx_Ring_Read_Cursor} : Tx_Buffer_Descriptors[i] = Blank
      /\ desc.ready => TDAR \/ \E t \in Tasks : task[t] = "activating"

\* Where the packet is that may be out of the pool.
AllFree    == /\ RingEmpty
              /\ Len(Free_List) = Net_Max_Tx_Packets
              /\ \A t \in Tasks : held[t] = <<>>
OneHeld    == /\ RingEmpty
              /\ Len(Free_List) = Net_Max_Tx_Packets - 1
              /\ \E t \in Tasks : /\ Len(held[t]) = 1
                                  /\ \A u \in Tasks \ {t} : held[u] = <<>>
OneInRing  == /\ RingWithOne
              /\ Len(Free_List) = Net_Max_Tx_Packets - 1
              /\ \A t \in Tasks : held[t] = <<>>

\* The tasks that carry the token of the free list.
Carriers == {t \in Tasks : task[t] \in {"woken", "signalling"}}

Flag == IF Not_Empty_Condvar THEN 1 ELSE 0

Token == Cardinality(Carriers) + Flag + (Net_Max_Tx_Packets - Len(Free_List)) = 1

TxInv == Types /\ (AllFree \/ OneHeld \/ OneInRing) /\ Token

-----------------------------------------------------------------------------
(* Lemmas *)

\* The descriptor after one of the ring is one of the ring.
LEMMA AfterInRing == \A i \in Ring : After(i) \in Ring
BY PoolNotEmpty DEF Ring, After

\* A set that gains an element has one more.
LEMMA OneMore ==
  ASSUME NEW S, NEW T, NEW x, IsFiniteSet(S), x \notin S, T = S \cup {x}
  PROVE  IsFiniteSet(T) /\ Cardinality(T) = Cardinality(S) + 1 /\ Cardinality(S) \in Nat
BY FS_AddElement, FS_CardinalityType

\* A set that loses an element has one less.
LEMMA OneLess ==
  ASSUME NEW S, NEW T, NEW x, IsFiniteSet(S), x \in S, T = S \ {x}
  PROVE  /\ IsFiniteSet(T) /\ Cardinality(T) = Cardinality(S) - 1
         /\ Cardinality(S) \in Nat \ {0}
<1>1. Cardinality(S) \in Nat /\ S # {}
  BY FS_CardinalityType
<1>2. Cardinality(S) # 0
  BY <1>1, FS_EmptySet
<1> QED BY <1>1, <1>2, FS_RemoveElement

\* The tasks are finitely many, and so are the carriers.
LEMMA CarriersFinite == IsFiniteSet(Carriers) /\ Cardinality(Carriers) \in Nat
BY FiniteTasks, FS_Subset, FS_CardinalityType DEF Carriers

\* The invariant in numbers: the token is in one place.
LEMMA TokenPlace ==
  ASSUME TxInv
  PROVE  /\ Cardinality(Carriers) \in Nat /\ Flag \in {0, 1}
         /\ Len(Free_List) \in Nat /\ Net_Max_Tx_Packets \in Nat
         /\ Len(Free_List) \in {Net_Max_Tx_Packets, Net_Max_Tx_Packets - 1}
BY CarriersFinite, PoolNotEmpty DEF TxInv, Types, AllFree, OneHeld, OneInRing, Flag

\* Set_True on a suspension object whose state is False gives the token to it or to
\* the task it wakes.
LEMMA SetNotEmptyAddsToken ==
  ASSUME Types, NEW points \in [Tasks -> TaskPoints], SetNotEmpty(points), ~Not_Empty_Condvar,
         NEW C, C = {t \in Tasks : points[t] \in {"woken", "signalling"}}
  PROVE  /\ task' \in [Tasks -> TaskPoints]
         /\ \A t \in Tasks : points[t] = "activating" => task'[t] = "activating"
         /\ Not_Empty_Condvar' \in BOOLEAN
         /\ Cardinality(Carriers') + Flag' = Cardinality(C) + 1
<1>1. IsFiniteSet(C) /\ Cardinality(C) \in Nat
  BY FiniteTasks, FS_Subset, FS_CardinalityType
<1>2. ASSUME NEW t \in Tasks, points[t] = "suspended", task' = [points EXCEPT ![t] = "woken"],
             UNCHANGED Not_Empty_Condvar
      PROVE  Cardinality(Carriers') + Flag' = Cardinality(C) + 1
  <2>1. Carriers' = C \cup {t} /\ t \notin C
    BY <1>2 DEF Carriers
  <2>2. Cardinality(Carriers') = Cardinality(C) + 1
    BY <1>1, <2>1, OneMore
  <2> QED BY <1>1, <1>2, <2>2 DEF Flag
<1>3. ASSUME task' = points, Not_Empty_Condvar' = TRUE
      PROVE  Cardinality(Carriers') + Flag' = Cardinality(C) + 1
  <2>1. Carriers' = C
    BY <1>3 DEF Carriers
  <2> QED BY <1>1, <1>3, <2>1 DEF Flag
<1>4. task' \in [Tasks -> TaskPoints] /\ Not_Empty_Condvar' \in BOOLEAN
  BY DEF SetNotEmpty, TaskPoints, Types
<1>5. \A t \in Tasks : points[t] = "activating" => task'[t] = "activating"
  BY DEF SetNotEmpty
<1> QED BY <1>2, <1>3, <1>4, <1>5 DEF SetNotEmpty

\* A step that changes neither the pool nor who carries the token.
LEMMA TokenUntouched ==
  ASSUME Token, UNCHANGED pool, Carriers' = Carriers
  PROVE  Token'
BY DEF Token, Flag, pool

\* A step of a task that leaves packets and hardware alone, and does not forget to
\* write TDAR, leaves the packet where it is.
LEMMA PlaceUntouched ==
  ASSUME Types, AllFree \/ OneHeld \/ OneInRing,
         UNCHANGED <<ring, Tx_Buffer_Descriptor_Index, Free_List, held, TDAR, dma>>,
         handler' = handler,
         \A t \in Tasks : task[t] = "activating" => task'[t] = "activating"
  PROVE  (AllFree \/ OneHeld \/ OneInRing)'
BY DEF AllFree, OneHeld, OneInRing, RingEmpty, RingWithOne, ring, After

-----------------------------------------------------------------------------
(* One step *)

\* Allocate, Suspend and Activate: the packets stay where they are.
LEMMA QuietTaskStep ==
  ASSUME NEW t \in Tasks, TxInv, Allocate(t) \/ Suspend(t) \/ Activate(t)
  PROVE  TxInv'
<1> USE DEF TxInv
<1>1. CASE Allocate(t)
  <2>1. Types'
    BY <1>1 DEF Types, TaskPoints, Allocate, ring, packets, pool, hardware
  <2>2. (AllFree \/ OneHeld \/ OneInRing)'
    BY <1>1, PlaceUntouched DEF Allocate, Types, packets, pool, hardware
  <2>3. Token'
    BY <1>1, TokenUntouched DEF Allocate, Types, Carriers
  <2> QED BY <2>1, <2>2, <2>3
<1>2. CASE Suspend(t)
  <2>1. Types'
    BY <1>2 DEF Types, TaskPoints, Suspend, ring, packets, hardware
  <2>2. (AllFree \/ OneHeld \/ OneInRing)'
    BY <1>2, PlaceUntouched DEF Suspend, Types, packets, hardware
  <2>3. CASE Not_Empty_Condvar /\ task' = [task EXCEPT ![t] = "woken"] /\ ~Not_Empty_Condvar'
    <3>1. Carriers' = Carriers \cup {t} /\ t \notin Carriers
      BY <1>2, <2>3 DEF Suspend, Carriers, Types
    <3>2. Cardinality(Carriers') = Cardinality(Carriers) + 1
      BY <3>1, CarriersFinite, OneMore
    <3>3. Free_List' = Free_List /\ Flag = 1 /\ Flag' = 0
      BY <1>2, <2>3 DEF Suspend, Flag
    <3>4. Token'
      BY <3>2, <3>3, TokenPlace DEF Token
    <3> QED BY <2>1, <2>2, <3>4
  <2>4. CASE /\ Not_Empty_Condvar' = Not_Empty_Condvar
             /\ \E x \in {"program_error", "suspended"} : task' = [task EXCEPT ![t] = x]
    <3>1. Carriers' = Carriers
      BY <1>2, <2>4 DEF Suspend, Carriers, Types
    <3>2. Token'
      BY <1>2, <2>4, <3>1, TokenUntouched DEF Suspend, pool
    <3> QED BY <2>1, <2>2, <3>2
  <2> QED BY <1>2, <2>3, <2>4 DEF Suspend, Types
<1>3. CASE Activate(t)
  <2>1. Types'
    BY <1>3 DEF Types, TaskPoints, Activate, ring, packets, pool
  <2>2. (AllFree \/ OneHeld \/ OneInRing)'
    BY <1>3 DEF Activate, AllFree, OneHeld, OneInRing, RingEmpty, RingWithOne, ring, packets,
                pool, After
  <2>3. Token'
    BY <1>3, TokenUntouched DEF Activate, Types, Carriers
  <2> QED BY <2>1, <2>2, <2>3
<1> QED BY <1>1, <1>2, <1>3

\* The woken task carries the token, so every packet is free, and it takes one.
LEMMA TakeStep ==
  ASSUME NEW t \in Tasks, TxInv, Take(t)
  PROVE  TxInv'
<1> USE DEF TxInv
<1>1. Carriers' = Carriers \ {t} /\ t \in Carriers
  BY DEF Take, Carriers, Types
<1>2. Cardinality(Carriers') = Cardinality(Carriers) - 1 /\ Cardinality(Carriers) \in Nat \ {0}
  BY <1>1, CarriersFinite, OneLess
<1>3. AllFree
  BY <1>2, TokenPlace, PoolNotEmpty DEF Token, OneHeld, OneInRing
<1>4. /\ Free_List' \in Seq(Packets) /\ Len(Free_List') = Len(Free_List) - 1
      /\ Head(Free_List) \in Packets
  BY HeadTailProperties DEF Take, Types
<1>5. held' = [held EXCEPT ![t] = <<Head(Free_List)>>] /\ held' \in [Tasks -> Seq(Packets)]
  <2>1. held[t] = <<>> /\ Append(held[t], Head(Free_List)) = <<Head(Free_List)>>
    <3>1. held[t] = <<>>
      BY <1>3 DEF AllFree
    <3>2. Append(<<>>, Head(Free_List)) = <<Head(Free_List)>>
      BY <1>4
    <3> QED BY <3>1, <3>2
  <2>2. held' = [held EXCEPT ![t] = <<Head(Free_List)>>]
    BY <2>1 DEF Take
  <2> QED BY <1>4, <2>2 DEF Types
<1>6. Types'
  BY <1>4, <1>5 DEF Types, TaskPoints, Take, ring, hardware, Allocated, Flags
<1>7. OneHeld'
  <2>1. RingEmpty'
    BY <1>3 DEF AllFree, RingEmpty, Take, ring, hardware
  <2>2. Len(held'[t]) = 1 /\ \A u \in Tasks \ {t} : held'[u] = <<>>
    BY <1>3, <1>5 DEF AllFree, Types
  <2> QED BY <1>3, <1>4, <2>1, <2>2 DEF OneHeld, AllFree
<1>8. Token'
  BY <1>2, <1>4, TokenPlace DEF Token, Take, Flag
<1> QED BY <1>6, <1>7, <1>8

\* A task that holds a packet holds the only one that is out of the pool, and the
\* rest of its list is empty.
LEMMA HoldsOne ==
  ASSUME NEW t \in Tasks, TxInv, held[t] # <<>>
  PROVE  /\ OneHeld
         /\ Newest(held[t]) \in Packets
         /\ AllButNewest(held[t]) = <<>>
         /\ \A u \in Tasks \ {t} : held[u] = <<>>
<1>1. OneHeld
  BY DEF TxInv, AllFree, OneInRing
<1>2. Len(held[t]) = 1 /\ \A u \in Tasks \ {t} : held[u] = <<>>
  BY <1>1 DEF OneHeld
<1>3. held[t] \in Seq(Packets)
  BY DEF TxInv, Types
<1> QED BY <1>1, <1>2, <1>3 DEF Newest, AllButNewest

\* StartTransmit: the packet held becomes the only packet of the ring.
LEMMA TransmitStep ==
  ASSUME NEW t \in Tasks, TxInv, StartTransmit(t)
  PROVE  TxInv'
<1> USE DEF TxInv
<1> DEFINE p == Newest(held[t])
<1>1. /\ OneHeld /\ p \in Packets /\ held' = [held EXCEPT ![t] = <<>>]
      /\ \A u \in Tasks \ {t} : held[u] = <<>>
  BY HoldsOne DEF StartTransmit
<1> HIDE DEF p
<1>2. Types'
  <2>1. p = Newest(held[t])
    BY DEF p
  <2> QED BY <1>1, <2>1, AfterInRing
          DEF Types, TaskPoints, StartTransmit, Post, pool, hardware, Addresses, Flags
<1>3. RingWithOne'
  <2>1. p = Newest(held[t])
    BY DEF p
  <2>2. /\ Tx_Ring_Read_Cursor' = Tx_Ring_Read_Cursor /\ dma' = dma
        /\ Tx_Buffer_Descriptors' = [Tx_Buffer_Descriptors EXCEPT
                                       ![Tx_Ring_Read_Cursor] = [address |-> p, ready |-> TRUE]]
        /\ Tx_Buffer_Descriptor_Index' = [Tx_Buffer_Descriptor_Index EXCEPT
                                            ![p] = Tx_Ring_Read_Cursor]
        /\ Tx_Ring_Write_Cursor' = After(Tx_Ring_Read_Cursor)
        /\ Tx_Ring_Entries_Filled' = 1
        /\ task'[t] = "activating"
        /\ dma = Tx_Ring_Read_Cursor
    BY <1>1, <2>1 DEF StartTransmit, Post, hardware, OneHeld, RingEmpty, Types
  <2>3. Tx_Buffer_Descriptors'[Tx_Ring_Read_Cursor] = [address |-> p, ready |-> TRUE]
    BY <2>2 DEF Types
  <2>4. Tx_Buffer_Descriptor_Index'[p] = Tx_Ring_Read_Cursor
    BY <1>1, <2>2 DEF Types
  <2>5. \A i \in Ring \ {Tx_Ring_Read_Cursor} : Tx_Buffer_Descriptors'[i] = Blank
    BY <1>1, <2>2 DEF Types, OneHeld, RingEmpty
  <2> QED BY <1>1, <2>2, <2>3, <2>4, <2>5 DEF RingWithOne, After
<1>4. OneInRing'
  BY <1>1, <1>3 DEF OneInRing, OneHeld, StartTransmit, pool, Types
<1>5. Token'
  BY TokenUntouched DEF StartTransmit, Types, Carriers
<1> QED BY <1>2, <1>4, <1>5

\* Discard: the packet held is free again, and the task carries its token.
LEMMA DiscardStep ==
  ASSUME NEW t \in Tasks, TxInv, Discard(t)
  PROVE  TxInv'
<1> USE DEF TxInv
<1> DEFINE p == Newest(held[t])
<1>1. /\ OneHeld /\ p \in Packets /\ held' = [held EXCEPT ![t] = <<>>]
      /\ \A u \in Tasks \ {t} : held[u] = <<>>
  BY HoldsOne DEF Discard
<1>2. Free_List' \in Seq(Packets) /\ Len(Free_List') = Len(Free_List) + 1
  BY <1>1 DEF Discard, FreePacket, Types
<1>3. Types'
  BY <1>1, <1>2 DEF Types, TaskPoints, Discard, FreePacket, ring, hardware, Flags
<1>4. AllFree'
  <2>1. RingEmpty'
    BY <1>1 DEF OneHeld, RingEmpty, Discard, ring, hardware
  <2> QED BY <1>1, <1>2, <2>1, TokenPlace DEF AllFree, OneHeld, Types
<1>5. Carriers' = Carriers \cup {t} /\ t \notin Carriers
  BY DEF Discard, Carriers, Types
<1>6. Cardinality(Carriers') = Cardinality(Carriers) + 1
  BY <1>5, CarriersFinite, OneMore
<1>7. Token'
  BY <1>2, <1>6, TokenPlace DEF Token, Discard, Flag
<1> QED BY <1>3, <1>4, <1>7

\* Signal: the task carries the token, so the suspension object does not.
LEMMA SignalStep ==
  ASSUME NEW t \in Tasks, TxInv, Signal(t)
  PROVE  TxInv'
<1> USE DEF TxInv
<1> DEFINE points == [task EXCEPT ![t] = "running"]
           C == {u \in Tasks : points[u] \in {"woken", "signalling"}}
<1>1. points \in [Tasks -> TaskPoints]
  BY DEF Types, TaskPoints
<1>2. C = Carriers \ {t} /\ t \in Carriers
  BY DEF Signal, Carriers, Types
<1>3. Cardinality(C) = Cardinality(Carriers) - 1 /\ Cardinality(Carriers) \in Nat \ {0}
  <2> HIDE DEF C
  <2> QED BY <1>2, CarriersFinite, OneLess
<1>4. ~Not_Empty_Condvar /\ Flag = 0
  BY <1>3, TokenPlace DEF Token, Flag
<1>5. SetNotEmpty(points)
  BY DEF Signal
<1>6. \A u \in Tasks : task[u] = "activating" => points[u] = "activating"
  BY DEF Types, Signal
<1>7. C = {u \in Tasks : points[u] \in {"woken", "signalling"}}
  OBVIOUS
<1> HIDE DEF C, points
<1>8. /\ task' \in [Tasks -> TaskPoints]
      /\ \A u \in Tasks : points[u] = "activating" => task'[u] = "activating"
      /\ Not_Empty_Condvar' \in BOOLEAN
      /\ Cardinality(Carriers') + Flag' = Cardinality(C) + 1
  BY <1>1, <1>4, <1>5, <1>7, SetNotEmptyAddsToken
<1>9. Types'
  BY <1>8 DEF Types, Signal, ring, packets, hardware
<1>10. (AllFree \/ OneHeld \/ OneInRing)'
  BY <1>6, <1>8, PlaceUntouched DEF Signal, packets, hardware
<1>11. Token'
  BY <1>3, <1>4, <1>8, TokenPlace DEF Token, Signal
<1> QED BY <1>9, <1>10, <1>11

\* The handler frees the packet of the ring, and the token goes back with it.
LEMMA DrainStep ==
  ASSUME TxInv, handler = "draining", DrainOne,
         ~Tx_Buffer_Descriptors[Tx_Ring_Read_Cursor].ready
  PROVE  TxInv'
<1> USE DEF TxInv
<1> DEFINE p == Tx_Buffer_Descriptors[Tx_Ring_Read_Cursor].address
<1>1. OneInRing /\ p \in Packets /\ dma = After(Tx_Ring_Read_Cursor)
  BY DEF DrainOne, AllFree, OneHeld, OneInRing, RingEmpty, RingWithOne
<1>2. Cardinality(Carriers) = 0 /\ Flag = 0 /\ ~Not_Empty_Condvar
  BY <1>1, TokenPlace, PoolNotEmpty DEF Token, Flag, OneInRing
<1>3. /\ Free_List' \in Seq(Packets) /\ Len(Free_List') = Len(Free_List) + 1
      /\ Tx_State_Flags' \in [Packets -> SUBSET Flags]
  BY <1>1 DEF DrainOne, FreePacket, Types, Flags
<1>4. /\ task' \in [Tasks -> TaskPoints]
      /\ Not_Empty_Condvar' \in BOOLEAN
      /\ Cardinality(Carriers') + Flag' = Cardinality(Carriers) + 1
  BY <1>2, SetNotEmptyAddsToken DEF DrainOne, Types, Carriers
<1>5. /\ Tx_Buffer_Descriptors' \in [Ring -> [address : Addresses, ready : BOOLEAN]]
      /\ \A i \in Ring : Tx_Buffer_Descriptors'[i] = Blank
  BY <1>1 DEF DrainOne, Types, OneInRing, RingWithOne, Blank, Addresses
<1>6. Types'
  BY <1>3, <1>4, <1>5, AfterInRing DEF Types, HandlerPoints, DrainOne, hardware
<1>7. AllFree'
  <2>1. RingEmpty'
    BY <1>1, <1>5 DEF RingEmpty, OneInRing, RingWithOne, DrainOne, hardware, After
  <2> QED BY <1>1, <1>3, <2>1, TokenPlace DEF AllFree, OneInRing, DrainOne
<1>8. Token'
  BY <1>2, <1>3, <1>4, TokenPlace DEF Token
<1> QED BY <1>6, <1>7, <1>8

\* The DMA engine and the handler's other steps.
LEMMA DmaAndHandlerStep ==
  ASSUME TxInv, Dma \/ Interrupt \/ ReadEIR \/ ClearEIR \/ DrainDone
  PROVE  TxInv'
<1> USE DEF TxInv
<1>1. CASE DmaTransmit
  <2>1. Types'
    BY <1>1, AfterInRing DEF Types, DmaTransmit, packets, pool
  <2>2. OneInRing /\ dma = Tx_Ring_Read_Cursor
    BY <1>1 DEF DmaTransmit, AllFree, OneHeld, OneInRing, RingEmpty, RingWithOne, Types, Blank,
                After, Ring
  <2>3. OneInRing'
    BY <1>1, <2>2 DEF DmaTransmit, OneInRing, RingWithOne, Types, packets, pool, After
  <2>4. Token'
    BY <1>1, TokenUntouched DEF DmaTransmit, Carriers
  <2> QED BY <2>1, <2>3, <2>4
<1>2. CASE DmaStop
  <2>1. Types'
    BY <1>2 DEF Types, DmaStop, ring, packets, pool
  <2>2. (AllFree \/ OneHeld \/ OneInRing)'
    BY <1>2 DEF DmaStop, AllFree, OneHeld, OneInRing, RingEmpty, RingWithOne, ring, packets, pool,
                After
  <2>3. Token'
    BY <1>2, TokenUntouched DEF DmaStop, Carriers
  <2> QED BY <2>1, <2>2, <2>3
<1>3. CASE Interrupt \/ ReadEIR \/ ClearEIR \/ DrainDone
  <2>1. Types' /\ UNCHANGED <<ring, packets, pool, task, held, TDAR, dma>>
    BY <1>3 DEF Types, HandlerPoints, Interrupt, ReadEIR, ClearEIR, DrainDone, ring, packets,
                pool, hardware
  <2>2. (AllFree \/ OneHeld \/ OneInRing)'
    BY <1>3, <2>1 DEF Interrupt, ReadEIR, ClearEIR, DrainDone, AllFree, OneHeld, OneInRing,
                      RingEmpty, RingWithOne, ring, packets, pool, After
  <2>3. Token'
    BY <2>1, TokenUntouched DEF Carriers
  <2> QED BY <2>1, <2>2, <2>3
<1> QED BY <1>1, <1>2, <1>3 DEF Dma

-----------------------------------------------------------------------------
(* The invariant and what follows from it *)

\* The invariant holds initially and every step preserves it.
LEMMA TxInvCorrect == Spec => []TxInv
<1>1. Init => TxInv
  <2> SUFFICES ASSUME Init PROVE TxInv
    OBVIOUS
  <2>1. Free_List \in Seq(Packets) /\ Len(Free_List) = Net_Max_Tx_Packets
    BY PoolNotEmpty DEF Init, Packets, Ring
  <2>2. Types
    <3>1. 1 \in Ring
      BY PoolNotEmpty DEF Ring
    <3>2. /\ Tx_Buffer_Descriptors \in [Ring -> [address : Addresses, ready : BOOLEAN]]
          /\ Tx_Ring_Write_Cursor \in Ring
          /\ Tx_Ring_Read_Cursor \in Ring
          /\ dma \in Ring
      BY <3>1 DEF Init, Addresses
    <3>3. /\ Tx_State_Flags \in [Packets -> SUBSET Flags]
          /\ Tx_Buffer_Descriptor_Index \in [Packets -> Ring]
      BY <3>1 DEF Init, Flags
    <3>4. task \in [Tasks -> TaskPoints] /\ handler \in HandlerPoints
      BY DEF Init, TaskPoints, HandlerPoints
    <3>5. held \in [Tasks -> Seq(Packets)]
      BY DEF Init
    <3>6. Not_Empty_Condvar \in BOOLEAN /\ TXF \in BOOLEAN /\ TDAR \in BOOLEAN
      BY DEF Init
    <3> QED BY <2>1, <3>2, <3>3, <3>4, <3>5, <3>6 DEF Types
  <2>3. AllFree
    BY <2>1 DEF Init, AllFree, RingEmpty, Blank
  <2>4. Carriers = {}
    BY DEF Init, Carriers
  <2>5. Token
    BY <2>1, <2>4, FS_EmptySet, PoolNotEmpty DEF Init, Token, Flag
  <2> QED BY <2>2, <2>3, <2>5 DEF TxInv
<1>2. TxInv /\ [Next]_vars => TxInv'
  <2>1. ASSUME TxInv, UNCHANGED vars PROVE TxInv'
    <3>1. Types' /\ (AllFree \/ OneHeld \/ OneInRing)'
      BY <2>1 DEF TxInv, vars, ring, packets, pool, hardware, Types, AllFree, OneHeld, OneInRing,
                  RingEmpty, RingWithOne, After
    <3>2. Token'
      BY <2>1, TokenUntouched DEF TxInv, vars, Carriers
    <3> QED BY <3>1, <3>2 DEF TxInv
  <2> QED BY <2>1, QuietTaskStep, TakeStep, TransmitStep, DiscardStep, SignalStep, DrainStep,
             DmaAndHandlerStep DEF Next, TaskStep, Dma, Handler, Drain
<1> QED BY <1>1, <1>2, PTL DEF Spec

\* Every variable of the transmit path keeps its type; no more descriptors are ever
\* in use than the ring has.
THEOREM TypeCorrect == Spec => []TypeOK
<1>1. TxInv => TypeOK
  BY PoolNotEmpty DEF TxInv, Types, TypeOK, TaskPoints, HandlerPoints, Addresses, AllFree,
                      OneHeld, OneInRing, RingEmpty, RingWithOne
<1> QED BY <1>1, TxInvCorrect, PTL

\* Whatever the size of the pool and the number of tasks, layer 2 has one packet out
\* of the pool at most: Net_Max_Tx_Packets buys no concurrency.
THEOREM PoolServesOneAtATime == Spec => []OnePacketAtATime
<1>1. TxInv => OnePacketAtATime
  BY DEF TxInv, Token, OnePacketAtATime, Carriers, Flag
<1> QED BY <1>1, TxInvCorrect, PTL

\* Transmission is never forgotten: as long as a descriptor is ready, the DMA engine
\* is active or a task is about to write TDAR.
THEOREM TransmissionIsActive == Spec => []TransmissionNeverForgotten
<1>1. TxInv => TransmissionNeverForgotten
  BY DEF TxInv, TransmissionNeverForgotten, AllFree, OneHeld, OneInRing, RingEmpty, RingWithOne,
         Blank
<1> QED BY <1>1, TxInvCorrect, PTL

\* A remainder below twice the modulus.
LEMMA ModOnce ==
  ASSUME NEW N \in Nat \ {0}, NEW x \in Nat, x < N + N
  PROVE  x % N = IF x < N THEN x ELSE x - N
OBVIOUS

\* The places of the ring, seen from the read cursor.
LEMMA Places ==
  ASSUME Tx_Ring_Read_Cursor \in Ring
  PROVE  /\ FromRead(0) = Tx_Ring_Read_Cursor
         /\ FromRead(1) = After(Tx_Ring_Read_Cursor)
         /\ \A k \in 1 .. Net_Max_Tx_Packets - 1 : FromRead(k) \in Ring \ {Tx_Ring_Read_Cursor}
<1> DEFINE r == Tx_Ring_Read_Cursor
           N == Net_Max_Tx_Packets
<1>1. r \in 1 .. N /\ N \in Nat \ {0}
  BY PoolNotEmpty DEF Ring
<1>2. \A k \in 0 .. N : FromRead(k) = IF r - 1 + k < N THEN r + k ELSE r + k - N
  <2> SUFFICES ASSUME NEW k \in 0 .. N
               PROVE  FromRead(k) = IF r - 1 + k < N THEN r + k ELSE r + k - N
    OBVIOUS
  <2>1. r - 1 + k \in Nat /\ r - 1 + k < N + N
    BY <1>1
  <2> DEFINE x == r - 1 + k
  <2>2. x \in Nat /\ x < N + N
    BY <2>1
  <2>3. FromRead(k) = (x % N) + 1
    BY DEF FromRead
  <2>4. x % N = IF x < N THEN x ELSE x - N
    <3> HIDE DEF x
    <3> QED BY <1>1, <2>2, ModOnce
  <2> QED BY <1>1, <2>3, <2>4
<1> QED BY <1>1, <1>2 DEF After, Ring

\* The ring of transmit descriptors is a window whatever its size: the cursors, the
\* count, the DMA engine and the descriptors agree.
THEOREM RingCorrect == Spec => []RingIsWindow
<1>1. ASSUME TxInv PROVE RingIsWindow
  <2> USE DEF TxInv
  <2>1. /\ FromRead(0) = Tx_Ring_Read_Cursor
        /\ FromRead(1) = After(Tx_Ring_Read_Cursor)
        /\ \A k \in 1 .. Net_Max_Tx_Packets - 1 : FromRead(k) \in Ring \ {Tx_Ring_Read_Cursor}
        /\ Tx_Ring_Read_Cursor \in Ring
        /\ Net_Max_Tx_Packets \in Nat \ {0}
    BY <1>1, Places, PoolNotEmpty DEF Types
  <2>2. CASE RingEmpty
    <3>1. \A k \in 0 .. Net_Max_Tx_Packets - 1 : Tx_Buffer_Descriptors[FromRead(k)] = Blank
      <4> SUFFICES ASSUME NEW k \in 0 .. Net_Max_Tx_Packets - 1
                   PROVE  FromRead(k) \in Ring
        BY <2>2 DEF RingEmpty
      <4>1. k = 0 \/ k \in 1 .. Net_Max_Tx_Packets - 1
        BY <2>1
      <4> QED BY <2>1, <4>1
    <3>2. 0 \in 0 .. Tx_Ring_Entries_Filled /\ dma = FromRead(0)
      BY <2>1, <2>2 DEF RingEmpty
    <3>3. ASSUME NEW k \in 0 .. Net_Max_Tx_Packets - 1
          PROVE  /\ Tx_Buffer_Descriptors[FromRead(k)].address = Null_Address
                 /\ Tx_Buffer_Descriptors[FromRead(k)].ready = FALSE
                 /\ ~(k < Tx_Ring_Entries_Filled)
      BY <2>1, <2>2, <3>1 DEF RingEmpty, Blank
    <3>4. Tx_Ring_Write_Cursor = FromRead(Tx_Ring_Entries_Filled)
      BY <2>1, <2>2 DEF RingEmpty
    <3> DEFINE desc(k) == Tx_Buffer_Descriptors[FromRead(k)]
    <3>5. ASSUME NEW k \in 0 .. Net_Max_Tx_Packets - 1
          PROVE  /\ (desc(k).address # Null_Address) = (k < Tx_Ring_Entries_Filled)
                 /\ desc(k).ready = (0 <= k /\ k < Tx_Ring_Entries_Filled)
                 /\ desc(k).address # Null_Address =>
                      Tx_Buffer_Descriptor_Index[desc(k).address] = FromRead(k)
      <4>1. desc(k).address = Null_Address /\ desc(k).ready = FALSE
        BY <3>3
      <4>2. ~(k < Tx_Ring_Entries_Filled)
        BY <3>3
      <4>3. (desc(k).address # Null_Address) = (k < Tx_Ring_Entries_Filled)
        BY <4>1, <4>2
      <4>4. desc(k).ready = (0 <= k /\ k < Tx_Ring_Entries_Filled)
        BY <4>1, <4>2
      <4>5. desc(k).address # Null_Address =>
              Tx_Buffer_Descriptor_Index[desc(k).address] = FromRead(k)
        BY <4>1
      <4> QED BY <4>3, <4>4, <4>5
    <3> QED BY <3>2, <3>4, <3>5 DEF RingIsWindow
  <2>3. CASE RingWithOne
    <3> DEFINE sent == IF Tx_Buffer_Descriptors[Tx_Ring_Read_Cursor].ready THEN 0 ELSE 1
               desc(k) == Tx_Buffer_Descriptors[FromRead(k)]
    <3>1. sent \in 0 .. Tx_Ring_Entries_Filled /\ dma = FromRead(sent)
      BY <2>1, <2>3 DEF RingWithOne
    <3>2. ASSUME NEW k \in 0 .. Net_Max_Tx_Packets - 1
          PROVE  /\ (desc(k).address # Null_Address) = (k < Tx_Ring_Entries_Filled)
                 /\ desc(k).ready = (sent <= k /\ k < Tx_Ring_Entries_Filled)
                 /\ desc(k).address # Null_Address =>
                      Tx_Buffer_Descriptor_Index[desc(k).address] = FromRead(k)
      <4>1. CASE k = 0
        <5>1. desc(k).address \in Packets /\ desc(k).address # Null_Address
          BY <2>1, <2>3, <4>1 DEF RingWithOne, Packets, Ring, Null_Address
        <5>2. desc(k).ready \in BOOLEAN
          BY <1>1, <2>1, <4>1 DEF Types
        <5>3. 0 < Tx_Ring_Entries_Filled /\ sent \in {0, 1} /\ (sent <= 0) = desc(k).ready
          BY <2>1, <2>3, <4>1, <5>2 DEF RingWithOne
        <5>4. desc(k).ready = (sent <= k /\ k < Tx_Ring_Entries_Filled)
          BY <4>1, <5>3
        <5>5. Tx_Buffer_Descriptor_Index[desc(k).address] = FromRead(k)
          BY <2>1, <2>3, <4>1 DEF RingWithOne
        <5> QED BY <4>1, <5>1, <5>3, <5>4, <5>5
      <4>2. CASE k # 0
        <5>1. desc(k) = Blank
          BY <2>1, <2>3, <4>2 DEF RingWithOne
        <5>2. k \in Nat /\ Tx_Ring_Entries_Filled = 1 /\ ~(k < Tx_Ring_Entries_Filled)
          BY <2>1, <2>3, <4>2 DEF RingWithOne
        <5>3. desc(k).address = Null_Address /\ desc(k).ready = FALSE
          BY <5>1 DEF Blank
        <5>4. (desc(k).address # Null_Address) = (k < Tx_Ring_Entries_Filled)
          BY <5>2, <5>3
        <5>5. desc(k).ready = (sent <= k /\ k < Tx_Ring_Entries_Filled)
          BY <5>2, <5>3
        <5>6. desc(k).address # Null_Address =>
                Tx_Buffer_Descriptor_Index[desc(k).address] = FromRead(k)
          BY <5>3
        <5> QED BY <5>4, <5>5, <5>6
      <4> QED BY <4>1, <4>2
    <3> QED BY <2>1, <2>3, <3>1, <3>2 DEF RingWithOne, RingIsWindow
  <2> QED BY <1>1, <2>2, <2>3 DEF AllFree, OneHeld, OneInRing
<1> QED BY <1>1, TxInvCorrect, PTL

-----------------------------------------------------------------------------
(* Flags and places *)

Free    == {"Packet_In_Tx_Pool"}
Transit == Allocated \cup {"Packet_In_Tx_Transit"}

\* What a place says of the flags of the packet it holds; no packet is free twice ...
PlacesFlagged ==
  /\ \A i \in 1 .. Len(Free_List) :
       /\ Tx_State_Flags[Free_List[i]] = Free
       /\ \A j \in 1 .. Len(Free_List) : Free_List[j] = Free_List[i] => j = i
  /\ \A t \in Tasks : \A i \in 1 .. Len(held[t]) : Tx_State_Flags[held[t][i]] = Allocated
  /\ \A i \in Ring : LET p == Tx_Buffer_Descriptors[i].address
                     IN  p # Null_Address => Tx_State_Flags[p] = Transit

\* ... and what the flags of a packet say of its place.
FlagsPlaced ==
  \A p \in Packets :
    \/ Tx_State_Flags[p] = Free /\ \E i \in 1 .. Len(Free_List) : Free_List[i] = p
    \/ Tx_State_Flags[p] = Allocated /\ \E t \in Tasks : \E i \in 1 .. Len(held[t]) : held[t][i] = p
    \/ Tx_State_Flags[p] = Transit /\ \E i \in Ring : Tx_Buffer_Descriptors[i].address = p

Located == PlacesFlagged /\ FlagsPlaced

\* The three kinds of place differ in the flags.
LEMMA FlagsDiffer == Free # Allocated /\ Free # Transit /\ Allocated # Transit
BY DEF Free, Allocated, Transit

\* No packet has the address 0.
LEMMA NullIsNoPacket == Null_Address \notin Packets
BY PoolNotEmpty DEF Packets, Ring, Null_Address

\* A step that moves no packet.
LEMMA LocatedStays ==
  ASSUME TxInv, Located, UNCHANGED <<Tx_State_Flags, Free_List, held>>,
         \A i \in Ring : Tx_Buffer_Descriptors'[i].address = Tx_Buffer_Descriptors[i].address
  PROVE  Located'
BY DEF Located, PlacesFlagged, FlagsPlaced

\* Allocate_Tx_Packet: the head of the free list is the task's.
LEMMA TakeLocated ==
  ASSUME NEW t \in Tasks, TxInv, Located, Take(t)
  PROVE  Located'
<1> DEFINE p == Head(Free_List)
           L == Len(Free_List)
<1>1. Carriers # {} /\ AllFree
  <2>1. t \in Carriers
    BY DEF Take, Carriers
  <2>2. Cardinality(Carriers) # 0
    BY <2>1, CarriersFinite, FS_EmptySet
  <2> QED BY <2>1, <2>2, TokenPlace, PoolNotEmpty DEF TxInv, Token, OneHeld, OneInRing
<1>2. /\ Free_List \in Seq(Packets) /\ L \in Nat \ {0} /\ p = Free_List[1] /\ p \in Packets
      /\ Free_List' = Tail(Free_List) /\ Len(Free_List') = L - 1
      /\ \A i \in 1 .. L - 1 : Free_List'[i] = Free_List[i + 1]
  BY HeadTailProperties, ElementOfSeq DEF Take, TxInv, Types
<1>3. /\ held' \in [Tasks -> Seq(Packets)]
      /\ Len(held'[t]) = 1 /\ held'[t][1] = p /\ \A u \in Tasks \ {t} : held'[u] = <<>>
  <2>1. held[t] = <<>> /\ held \in [Tasks -> Seq(Packets)]
    BY <1>1 DEF AllFree, TxInv, Types
  <2>2. Append(<<>>, p) = <<p>> /\ <<p>> \in Seq(Packets) /\ Len(<<p>>) = 1 /\ <<p>>[1] = p
    <3> HIDE DEF p
    <3> QED BY <1>2
  <2>3. held' = [held EXCEPT ![t] = <<p>>]
    BY <2>1, <2>2 DEF Take
  <2> QED BY <1>1, <2>1, <2>2, <2>3 DEF AllFree
<1>4. Tx_State_Flags' = [Tx_State_Flags EXCEPT ![p] = Allocated]
  BY DEF Take
<1>5. Tx_State_Flags \in [Packets -> SUBSET Flags]
  BY DEF TxInv, Types
<1> HIDE DEF p, L
<1>6. Tx_State_Flags'[p] = Allocated /\ \A q \in Packets : q # p => Tx_State_Flags'[q] = Tx_State_Flags[q]
  BY <1>2, <1>4, <1>5
<1>7. \A i \in Ring : Tx_Buffer_Descriptors'[i].address = Null_Address
  BY <1>1 DEF AllFree, RingEmpty, Blank, Take, ring
<1>8. PlacesFlagged'
  <2>1. ASSUME NEW i \in 1 .. Len(Free_List')
        PROVE  /\ Tx_State_Flags'[Free_List'[i]] = Free
               /\ \A j \in 1 .. Len(Free_List') : Free_List'[j] = Free_List'[i] => j = i
    <3> DEFINE k == i + 1
    <3>1. i \in 1 .. L - 1 /\ k \in 1 .. L /\ 1 \in 1 .. L /\ k # 1 /\ Free_List'[i] = Free_List[k]
      BY <1>2 DEF L
    <3> HIDE DEF k
    <3>2. /\ Tx_State_Flags[Free_List[k]] = Free /\ Free_List[k] \in Packets
          /\ \A j \in 1 .. L : Free_List[j] = Free_List[k] => j = k
      BY <1>2, <3>1, ElementOfSeq DEF Located, PlacesFlagged, L
    <3>3. Free_List[k] # p
      BY <1>2, <3>1, <3>2
    <3>4. Tx_State_Flags'[Free_List'[i]] = Free
      BY <1>6, <3>1, <3>2, <3>3
    <3>5. ASSUME NEW j \in 1 .. Len(Free_List'), Free_List'[j] = Free_List'[i] PROVE j = i
      <4> DEFINE l == j + 1
      <4>1. l \in 1 .. L /\ Free_List'[j] = Free_List[l]
        BY <1>2 DEF L
      <4> HIDE DEF l
      <4>2. l = k
        BY <3>1, <3>2, <3>5, <4>1
      <4> QED BY <1>2, <4>2 DEF l, k
    <3> QED BY <3>4, <3>5
  <2>2. ASSUME NEW u \in Tasks, NEW i \in 1 .. Len(held'[u])
        PROVE  Tx_State_Flags'[held'[u][i]] = Allocated
    <3>1. u = t
      <4>1. u # t => held'[u] = <<>>
        BY <1>3
      <4> QED BY <4>1
    <3>2. i \in 1 .. Len(held'[t])
      BY <3>1
    <3>3. i = 1
      BY <1>3, <3>2
    <3> QED BY <1>3, <1>6, <3>1, <3>3
  <2> QED BY <1>7, <2>1, <2>2 DEF PlacesFlagged
<1>9. FlagsPlaced'
  <2> SUFFICES ASSUME NEW q \in Packets
               PROVE  \/ /\ Tx_State_Flags'[q] = Free
                         /\ \E i \in 1 .. Len(Free_List') : Free_List'[i] = q
                      \/ /\ Tx_State_Flags'[q] = Allocated
                         /\ \E u \in Tasks : \E i \in 1 .. Len(held'[u]) : held'[u][i] = q
    BY DEF FlagsPlaced
  <2>1. CASE q = p
    <3>1. 1 \in 1 .. Len(held'[t]) /\ held'[t][1] = q
      BY <1>3, <2>1
    <3> QED BY <1>6, <2>1, <3>1
  <2>2. CASE q # p
    <3>1. Tx_State_Flags[q] = Free /\ \E i \in 1 .. L : Free_List[i] = q
      BY <1>1, NullIsNoPacket DEF Located, FlagsPlaced, AllFree, RingEmpty, Blank, L
    <3>2. PICK i \in 1 .. L : Free_List[i] = q
      BY <3>1
    <3> DEFINE k == i - 1
    <3>3. i # 1 /\ k \in 1 .. L - 1 /\ k + 1 = i
      BY <1>2, <2>2, <3>2
    <3>4. Free_List'[k] = q
      BY <1>2, <3>2, <3>3
    <3> QED BY <1>2, <1>6, <2>2, <3>1, <3>3, <3>4
  <2> QED BY <2>1, <2>2
<1> QED BY <1>8, <1>9 DEF Located

\* Start_Tx_Packet_Transmit: the packet is in the ring and nowhere else.
LEMMA TransmitLocated ==
  ASSUME NEW t \in Tasks, TxInv, Located, StartTransmit(t)
  PROVE  Located'
<1> DEFINE p == Newest(held[t])
           w == Tx_Ring_Write_Cursor
<1>1. /\ OneHeld /\ p \in Packets /\ AllButNewest(held[t]) = <<>>
      /\ \A u \in Tasks \ {t} : held[u] = <<>>
  BY HoldsOne DEF StartTransmit
<1>2. /\ Len(held[t]) = 1 /\ p = held[t][1] /\ 1 \in 1 .. Len(held[t])
      /\ \A u \in Tasks : held'[u] = <<>>
  <2>1. Len(held[t]) = 1
    BY <1>1 DEF OneHeld, StartTransmit
  <2>2. held' = [held EXCEPT ![t] = <<>>]
    BY <1>1 DEF StartTransmit
  <2> QED BY <1>1, <2>1, <2>2 DEF Newest, TxInv, Types
<1>3. Tx_State_Flags[p] = Allocated
  BY <1>2 DEF Located, PlacesFlagged
<1>4. Tx_State_Flags' = [Tx_State_Flags EXCEPT ![p] = Transit]
  BY <1>3 DEF StartTransmit, Transit
<1>5. /\ Tx_State_Flags'[p] = Transit
      /\ \A q \in Packets : q # p => Tx_State_Flags'[q] = Tx_State_Flags[q]
  <2>1. Tx_State_Flags \in [Packets -> SUBSET Flags]
    BY DEF TxInv, Types
  <2> HIDE DEF p
  <2> QED BY <1>1, <1>4, <2>1
<1>6. /\ w \in Ring /\ Tx_Buffer_Descriptors'[w].address = p
      /\ \A i \in Ring : i # w => Tx_Buffer_Descriptors'[i].address = Null_Address
  BY <1>1 DEF StartTransmit, Post, OneHeld, RingEmpty, Blank, TxInv, Types
<1>7. Free_List' = Free_List /\ Free_List \in Seq(Packets)
  BY DEF StartTransmit, pool, TxInv, Types
<1> HIDE DEF p, w
<1>8. PlacesFlagged'
  <2>1. \A u \in Tasks : \A i \in 1 .. Len(held'[u]) : FALSE
    BY <1>2
  <2>2. ASSUME NEW i \in 1 .. Len(Free_List) PROVE Tx_State_Flags'[Free_List[i]] = Free
    <3>1. Tx_State_Flags[Free_List[i]] = Free /\ Free_List[i] \in Packets
      BY <1>7, ElementOfSeq DEF Located, PlacesFlagged
    <3> QED BY <1>3, <1>5, <3>1, FlagsDiffer
  <2>3. ASSUME NEW i \in Ring, Tx_Buffer_Descriptors'[i].address # Null_Address
        PROVE  Tx_State_Flags'[Tx_Buffer_Descriptors'[i].address] = Transit
    BY <1>5, <1>6, <2>3
  <2> QED BY <1>7, <2>1, <2>2, <2>3 DEF Located, PlacesFlagged
<1>9. FlagsPlaced'
  <2> SUFFICES ASSUME NEW q \in Packets
               PROVE  \/ /\ Tx_State_Flags'[q] = Free
                         /\ \E i \in 1 .. Len(Free_List') : Free_List'[i] = q
                      \/ /\ Tx_State_Flags'[q] = Transit
                         /\ \E i \in Ring : Tx_Buffer_Descriptors'[i].address = q
    BY DEF FlagsPlaced
  <2>1. CASE q = p
    BY <1>5, <1>6, <2>1
  <2>2. CASE q # p
    <3>1. \A i \in Ring : Tx_Buffer_Descriptors[i].address # q
      BY <1>1, NullIsNoPacket DEF OneHeld, RingEmpty, Blank
    <3>2. ASSUME NEW u \in Tasks, NEW i \in 1 .. Len(held[u]) PROVE held[u][i] # q
      <4>1. u # t => held[u] = <<>>
        BY <1>1
      <4>2. u = t
        BY <4>1
      <4>3. i \in 1 .. Len(held[t])
        BY <4>2
      <4>4. i = 1
        BY <1>2, <4>3
      <4> QED BY <1>2, <2>2, <4>2, <4>4
    <3>3. Tx_State_Flags[q] = Free /\ \E i \in 1 .. Len(Free_List) : Free_List[i] = q
      BY <3>1, <3>2 DEF Located, FlagsPlaced
    <3> QED BY <1>5, <1>7, <2>2, <3>3
  <2> QED BY <2>1, <2>2
<1> QED BY <1>8, <1>9 DEF Located

\* Release_Tx_Packet: the one packet that was out of the pool is back.
LEMMA FreeLocated ==
  ASSUME TxInv, Located, NEW p \in Packets, FreePacket(p), Tx_State_Flags[p] # Free,
         \A q \in Packets : q # p => Tx_State_Flags[q] = Free,
         \A t \in Tasks : held'[t] = <<>>,
         \A i \in Ring : Tx_Buffer_Descriptors'[i].address = Null_Address
  PROVE  Located'
<1> DEFINE L == Len(Free_List)
<1>1. /\ Free_List \in Seq(Packets) /\ L \in Nat /\ Len(Free_List') = L + 1
      /\ Free_List'[L + 1] = p /\ \A i \in 1 .. L : Free_List'[i] = Free_List[i]
  BY DEF FreePacket, TxInv, Types
<1>2. Tx_State_Flags' = [Tx_State_Flags EXCEPT ![p] = Free]
  BY DEF FreePacket, Free
<1>3. \A q \in Packets : Tx_State_Flags'[q] = Free
  BY <1>2 DEF TxInv, Types
<1>4. \A i \in 1 .. L : Free_List[i] \in Packets /\ Free_List[i] # p
  BY <1>1, ElementOfSeq DEF Located, PlacesFlagged
<1> HIDE DEF L
<1>5. PlacesFlagged'
  <2>1. ASSUME NEW i \in 1 .. Len(Free_List')
        PROVE  /\ Tx_State_Flags'[Free_List'[i]] = Free
               /\ \A j \in 1 .. Len(Free_List') : Free_List'[j] = Free_List'[i] => j = i
    <3>1. CASE i = L + 1
      BY <1>1, <1>3, <1>4, <3>1
    <3>2. CASE i \in 1 .. L
      <4>1. \A j \in 1 .. L : Free_List[j] = Free_List[i] => j = i
        BY <3>2 DEF Located, PlacesFlagged, L
      <4> QED BY <1>1, <1>3, <1>4, <3>2, <4>1
    <3> QED BY <1>1, <3>1, <3>2
  <2>2. \A t \in Tasks : \A i \in 1 .. Len(held'[t]) : FALSE
    OBVIOUS
  <2> QED BY <2>1, <2>2 DEF PlacesFlagged
<1>6. FlagsPlaced'
  <2> SUFFICES ASSUME NEW q \in Packets
               PROVE  \E i \in 1 .. Len(Free_List') : Free_List'[i] = q
    BY <1>3 DEF FlagsPlaced
  <2>1. CASE q = p
    BY <1>1, <2>1
  <2>2. CASE q # p
    <3>1. \E i \in 1 .. L : Free_List[i] = q
      BY <2>2, FlagsDiffer DEF Located, FlagsPlaced, L
    <3> QED BY <1>1, <3>1
  <2> QED BY <2>1, <2>2
<1> QED BY <1>5, <1>6 DEF Located

\* Send_IPv4_Packet frees the packet it cannot send.
LEMMA DiscardLocated ==
  ASSUME NEW t \in Tasks, TxInv, Located, Discard(t)
  PROVE  Located'
<1> DEFINE p == Newest(held[t])
<1>1. /\ OneHeld /\ p \in Packets /\ AllButNewest(held[t]) = <<>>
      /\ \A u \in Tasks \ {t} : held[u] = <<>>
  BY HoldsOne DEF Discard
<1>2. Len(held[t]) = 1 /\ p = held[t][1] /\ 1 \in 1 .. Len(held[t])
  BY <1>1 DEF OneHeld, Discard, Newest
<1>3. \A u \in Tasks : held'[u] = <<>>
  <2>1. held' = [held EXCEPT ![t] = <<>>]
    BY <1>1 DEF Discard
  <2> QED BY <1>1, <2>1 DEF TxInv, Types
<1>4. Tx_State_Flags[p] = Allocated
  BY <1>2 DEF Located, PlacesFlagged
<1>5. FreePacket(p)
  BY DEF Discard
<1>6. \A i \in Ring : /\ Tx_Buffer_Descriptors[i].address = Null_Address
                      /\ Tx_Buffer_Descriptors'[i].address = Null_Address
  BY <1>1 DEF OneHeld, RingEmpty, Blank, Discard, ring
<1> HIDE DEF p
<1>7. ASSUME NEW q \in Packets, q # p PROVE Tx_State_Flags[q] = Free
  <2>1. ASSUME NEW u \in Tasks, NEW i \in 1 .. Len(held[u]) PROVE held[u][i] # q
    <3>1. u # t => held[u] = <<>>
      BY <1>1
    <3>2. u = t
      BY <3>1
    <3>3. i = 1
      BY <1>2, <3>2
    <3> QED BY <1>2, <1>7, <3>2, <3>3
  <2> QED BY <1>6, <2>1, NullIsNoPacket DEF Located, FlagsPlaced
<1> QED BY <1>1, <1>3, <1>4, <1>5, <1>6, <1>7, FlagsDiffer, FreeLocated

\* Drain_One_Tx_Buffer_Descriptor frees the packet that was sent.
LEMMA DrainLocated ==
  ASSUME TxInv, Located, handler = "draining", DrainOne,
         ~Tx_Buffer_Descriptors[Tx_Ring_Read_Cursor].ready
  PROVE  Located'
<1> DEFINE r == Tx_Ring_Read_Cursor
           p == Tx_Buffer_Descriptors[r].address
<1>1. OneInRing /\ p \in Packets /\ r \in Ring
  BY DEF TxInv, Types, AllFree, OneHeld, OneInRing, RingEmpty, RingWithOne
<1>2. Tx_State_Flags[p] = Transit
  BY <1>1, NullIsNoPacket DEF Located, PlacesFlagged
<1>3. FreePacket(p) /\ held' = held
  BY DEF DrainOne
<1>4. \A i \in Ring : i # r => Tx_Buffer_Descriptors[i].address = Null_Address
  BY <1>1 DEF OneInRing, RingWithOne, Blank
<1>5. \A i \in Ring : Tx_Buffer_Descriptors'[i].address = Null_Address
  BY <1>1, <1>4 DEF DrainOne, TxInv, Types
<1>6. \A t \in Tasks : held[t] = <<>>
  BY <1>1 DEF OneInRing
<1>7. ASSUME NEW q \in Packets, q # p PROVE Tx_State_Flags[q] = Free
  <2>1. \A i \in Ring : Tx_Buffer_Descriptors[i].address # q
    BY <1>4, <1>7, NullIsNoPacket
  <2>2. \A t \in Tasks : \A i \in 1 .. Len(held[t]) : FALSE
    BY <1>6
  <2> QED BY <2>1, <2>2 DEF Located, FlagsPlaced
<1> HIDE DEF p, r
<1> QED BY <1>1, <1>2, <1>3, <1>5, <1>6, <1>7, FlagsDiffer, FreeLocated

\* Flags and places agree from the start and after every step.
LEMMA LocatedCorrect == Spec => []Located
<1>1. Init => Located
  <2> SUFFICES ASSUME Init PROVE Located
    OBVIOUS
  <2>1. /\ Len(Free_List) = Net_Max_Tx_Packets /\ \A i \in Ring : Free_List[i] = i
        /\ Ring = 1 .. Net_Max_Tx_Packets
    BY PoolNotEmpty DEF Init, Ring
  <2>2. \A p \in Packets : Tx_State_Flags[p] = Free
    BY DEF Init, Free
  <2>3. \A t \in Tasks : held[t] = <<>>
    BY DEF Init
  <2>4. \A i \in Ring : Tx_Buffer_Descriptors[i].address = Null_Address
    BY DEF Init
  <2>5. \A t \in Tasks : \A i \in 1 .. Len(held[t]) : FALSE
    BY <2>3
  <2> QED BY <2>1, <2>2, <2>4, <2>5 DEF Located, PlacesFlagged, FlagsPlaced, Packets
<1>2. TxInv /\ Located /\ [Next]_vars => Located'
  <2>1. ASSUME TxInv, Located,
               \/ \E t \in Tasks : Allocate(t) \/ Suspend(t) \/ Activate(t) \/ Signal(t)
               \/ DmaStop \/ Interrupt \/ ReadEIR \/ ClearEIR \/ DrainDone \/ UNCHANGED vars
        PROVE  Located'
    <3>1. UNCHANGED <<ring, packets, Free_List, held>>
      BY <2>1 DEF Allocate, Suspend, Activate, Signal, DmaStop, Interrupt, ReadEIR, ClearEIR,
                  DrainDone, vars, pool
    <3> QED BY <2>1, <3>1, LocatedStays DEF ring, packets
  <2>2. ASSUME TxInv, Located, DmaTransmit PROVE Located'
    <3>1. \A i \in Ring : Tx_Buffer_Descriptors'[i].address = Tx_Buffer_Descriptors[i].address
      BY <2>2 DEF DmaTransmit, TxInv, Types
    <3> QED BY <2>2, <3>1, LocatedStays DEF DmaTransmit, packets, pool
  <2> QED BY <2>1, <2>2, TakeLocated, TransmitLocated, DiscardLocated, DrainLocated
          DEF Next, TaskStep, Dma, Handler, Drain
<1> QED BY <1>1, <1>2, TxInvCorrect, PTL DEF Spec

\* The places FlagsTellPlace counts.
Slots(p)   == {i \in Ring : Tx_Buffer_Descriptors[i].address = p}
FreeAt(p)  == {i \in 1 .. Len(Free_List) : Free_List[i] = p}
HolderOf(p, t) == {<<t, i>> : i \in {j \in 1 .. Len(held[t]) : held[t][j] = p}}
Users(p)   == UNION {HolderOf(p, t) : t \in Tasks}

\* The flags of every packet tell where it is, and it is there once, whatever the size
\* of the pool: no interleaving of tasks, handler and DMA engine frees a packet twice,
\* sends one that is free or loses one.
THEOREM FlagsCorrect == Spec => []FlagsTellPlace
<1>1. ASSUME TxInv, Located, NEW p \in Packets
      PROVE  \/ /\ Tx_State_Flags[p] = Free
                /\ Slots(p) = {} /\ Cardinality(FreeAt(p)) = 1 /\ Users(p) = {}
             \/ /\ Tx_State_Flags[p] = Allocated
                /\ Slots(p) = {} /\ FreeAt(p) = {} /\ Cardinality(Users(p)) = 1
             \/ /\ Tx_State_Flags[p] = Transit
                /\ Cardinality(Slots(p)) = 1 /\ FreeAt(p) = {} /\ Users(p) = {}
  <2>1. PlacesFlagged /\ FlagsPlaced /\ p # Null_Address
    BY <1>1, NullIsNoPacket DEF Located
  <2>2. Tx_State_Flags[p] # Transit => Slots(p) = {}
    BY <2>1 DEF PlacesFlagged, Slots
  <2>3. Tx_State_Flags[p] # Free => FreeAt(p) = {}
    BY <2>1 DEF PlacesFlagged, FreeAt
  <2>4. Tx_State_Flags[p] # Allocated => Users(p) = {}
    <3> SUFFICES ASSUME Tx_State_Flags[p] # Allocated, NEW t \in Tasks,
                        NEW j \in 1 .. Len(held[t]), held[t][j] = p
                 PROVE  FALSE
      BY DEF Users, HolderOf
    <3> QED BY <2>1 DEF PlacesFlagged
  <2>5. CASE Tx_State_Flags[p] = Free
    <3>1. PICK i \in 1 .. Len(Free_List) : Free_List[i] = p
      BY <2>1, <2>5, FlagsDiffer DEF FlagsPlaced
    <3>2. FreeAt(p) = {i}
      BY <2>1, <3>1 DEF PlacesFlagged, FreeAt
    <3>3. Cardinality(FreeAt(p)) = 1
      BY <3>2, FS_Singleton
    <3> QED BY <2>2, <2>4, <2>5, <3>3, FlagsDiffer
  <2>6. CASE Tx_State_Flags[p] = Allocated
    <3>1. PICK t \in Tasks : \E i \in 1 .. Len(held[t]) : held[t][i] = p
      BY <2>1, <2>6, FlagsDiffer DEF FlagsPlaced
    <3>2. held[t] # <<>>
      BY <3>1
    <3>3. OneHeld /\ \A u \in Tasks \ {t} : held[u] = <<>>
      BY <1>1, <3>2, HoldsOne
    <3>4. Len(held[t]) = 1
      BY <3>2, <3>3 DEF OneHeld
    <3>5. held[t][1] = p
      BY <3>1, <3>4
    <3>6. HolderOf(p, t) = {<<t, 1>>}
      BY <3>4, <3>5 DEF HolderOf
    <3>7. \A u \in Tasks \ {t} : HolderOf(p, u) = {}
      BY <3>3 DEF HolderOf
    <3>8. Users(p) = {<<t, 1>>}
      BY <3>6, <3>7 DEF Users
    <3>9. Cardinality(Users(p)) = 1
      BY <3>8, FS_Singleton
    <3> QED BY <2>2, <2>3, <2>6, <3>9, FlagsDiffer
  <2>7. CASE Tx_State_Flags[p] = Transit
    <3>1. PICK i \in Ring : Tx_Buffer_Descriptors[i].address = p
      BY <2>1, <2>7, FlagsDiffer DEF FlagsPlaced
    <3>2. OneInRing
      BY <1>1, <2>1, <3>1 DEF TxInv, AllFree, OneHeld, RingEmpty, Blank
    <3>3. \A j \in Ring : j # Tx_Ring_Read_Cursor => Tx_Buffer_Descriptors[j].address = Null_Address
      BY <3>2 DEF OneInRing, RingWithOne, Blank
    <3>4. Slots(p) = {i}
      BY <2>1, <3>1, <3>3 DEF Slots
    <3>5. Cardinality(Slots(p)) = 1
      BY <3>4, FS_Singleton
    <3> QED BY <2>3, <2>4, <2>7, <3>5, FlagsDiffer
  <2> QED BY <2>1, <2>5, <2>6, <2>7 DEF FlagsPlaced
<1>2. TxInv /\ Located => FlagsTellPlace
  BY <1>1 DEF FlagsTellPlace, Slots, FreeAt, Users, HolderOf, Free, Transit
<1> QED BY <1>2, TxInvCorrect, LocatedCorrect, PTL

=============================================================================
