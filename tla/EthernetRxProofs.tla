-------------------------- MODULE EthernetRxProofs --------------------------
(***************************************************************************)
(* Proofs about EthernetRx for a ring of any size and any tasks.  The      *)
(* argument: packets are neither lost nor doubled, so that the counts of   *)
(* the places they are in add up to the number of packets; from this the   *)
(* ring can neither overflow nor be drained when it is empty, and the DMA  *)
(* engine, the handler and the tasks each move one border of a window.     *)
(***************************************************************************)
EXTENDS EthernetRx, FiniteSetTheorems, SequenceTheorems, TLAPS

N == Net_Max_Rx_Packets

\* FromRead, for any cursor.
Place(r, k) == ((r - 1 + k) % N) + 1

\* The descriptor k places after the read cursor.
At(k) == Rx_Buffer_Descriptors[Place(Rx_Ring_Read_Cursor, k)]

\* The ring as a window in which the DMA engine has filled some descriptors.  The
\* bit EMPTY tells the border even after a failed assertion; until then addresses
\* and interrupt bits agree.  A filled descriptor is announced: the event is set, or
\* the handler is about to look.
Window(filled) ==
  /\ filled \in 0 .. Rx_Ring_Entries_Filled
  /\ Rx_Ring_Write_Cursor = Place(Rx_Ring_Read_Cursor, Rx_Ring_Entries_Filled)
  /\ dma = Place(Rx_Ring_Read_Cursor, filled)
  /\ \A k \in 0 .. N - 1 : At(k).empty <=> filled <= k /\ k < Rx_Ring_Entries_Filled
  /\ handler # "assert_failed" =>
       \A k \in 0 .. N - 1 : /\ At(k).address # Null_Address <=> k < Rx_Ring_Entries_Filled
                             /\ At(k).interrupt <=> k < Rx_Ring_Entries_Filled
  /\ handler \in {"idle", "reading_EIR"} /\ filled > 0 => RXF
  /\ handler = "draining" => Rx_Ring_Entries_Filled > 0

WindowInv == \E filled \in Nat : Window(filled)

\* Each packet is somewhere.
PacketsCounted ==
  Rx_Ring_Entries_Filled + Len(Rx_Packet_Queue) + (IF received = Null_Address THEN 0 ELSE 1)
    + Cardinality(handed) = N

InQueue == {"Packet_In_Rx_Queue"}
InUse   == {"Packet_In_Rx_Use_By_App"}

\* No place holds a packet twice, and the flags of a packet tell the kind of place ...
PlacesFlagged ==
  /\ \A i \in Ring :
       LET p == Rx_Buffer_Descriptors[i].address
       IN  p # Null_Address =>
             /\ Rx_State_Flags[p] = InRing
             /\ \A j \in Ring : Rx_Buffer_Descriptors[j].address = p => j = i
  /\ \A i \in 1 .. Len(Rx_Packet_Queue) :
       /\ Rx_State_Flags[Rx_Packet_Queue[i]] = InQueue
       /\ \A j \in 1 .. Len(Rx_Packet_Queue) : Rx_Packet_Queue[j] = Rx_Packet_Queue[i] => j = i
  /\ received # Null_Address => Rx_State_Flags[received] = InUse /\ received \notin handed
  /\ \A p \in handed : Rx_State_Flags[p] = InUse

\* ... in which it is found.
FlagsPlaced ==
  \A p \in Packets :
    \/ Rx_State_Flags[p] = InRing  /\ \E i \in Ring : Rx_Buffer_Descriptors[i].address = p
    \/ Rx_State_Flags[p] = InQueue /\ \E i \in 1 .. Len(Rx_Packet_Queue) : Rx_Packet_Queue[i] = p
    \/ Rx_State_Flags[p] = InUse   /\ (received = p \/ p \in handed)

Located == handler # "assert_failed" => PlacesFlagged /\ FlagsPlaced

\* Signals are backed by packets; a queue that holds all packets has a signal, and no
\* signal waits for a task that waits for it.
Signals ==
  /\ (IF receiver = "woken" THEN 1 ELSE 0) + (IF Not_Empty_Condvar THEN 1 ELSE 0)
       <= Len(Rx_Packet_Queue)
  /\ Len(Rx_Packet_Queue) = N => Not_Empty_Condvar \/ receiver = "woken"
  /\ receiver = "suspended" => ~Not_Empty_Condvar
  /\ (receiver = "processing") = (received # Null_Address)

Activating == receiver = "activating" \/ \E a \in AppTasks : app[a] = "activating"

DmaActive == ~RDAR => Activating \/ \A i \in Ring : ~Rx_Buffer_Descriptors[i].empty

RxInv == TypeOK /\ WindowInv /\ PacketsCounted /\ Located /\ Signals /\ DmaActive

-----------------------------------------------------------------------------
(* The geometry of the ring *)

\* A remainder below twice the modulus.
LEMMA ModOnce ==
  ASSUME NEW m \in Nat \ {0}, NEW x \in Nat, x < m + m
  PROVE  x % m = IF x < m THEN x ELSE x - m
OBVIOUS

\* Where a place is.
LEMMA PlaceIs ==
  ASSUME NEW r \in Ring, NEW k \in 0 .. N
  PROVE  Place(r, k) = IF r + k <= N THEN r + k ELSE r + k - N
<1> DEFINE x == r - 1 + k
<1>1. N \in Nat \ {0} /\ x \in Nat /\ x < N + N
  BY RingNotEmpty DEF Ring, N
<1>2. Place(r, k) = (x % N) + 1
  BY DEF Place
<1>3. x % N = IF x < N THEN x ELSE x - N
  <2> HIDE DEF x
  <2> QED BY <1>1, ModOnce
<1> QED BY <1>1, <1>2, <1>3 DEF Ring, N

\* The places from a cursor on are the ring, each descriptor once.
LEMMA Places ==
  ASSUME NEW r \in Ring
  PROVE  /\ After(r) \in Ring
         /\ Place(r, 0) = r /\ Place(r, N) = r
         /\ \A k \in 0 .. N : Place(r, k) \in Ring
         /\ \A k \in 0 .. N - 1 : /\ After(Place(r, k)) = Place(r, k + 1)
                                  /\ Place(After(r), k) = Place(r, k + 1)
         /\ \A k, l \in 0 .. N - 1 : Place(r, k) = Place(r, l) => k = l
         /\ \A i \in Ring : \E k \in 0 .. N - 1 : Place(r, k) = i
<1>1. N \in Nat \ {0} /\ Ring = 1 .. N /\ Net_Max_Rx_Packets = N
  BY RingNotEmpty DEF Ring, N
<1>2. After(r) \in Ring
  BY <1>1 DEF After
<1>3. \A k \in 0 .. N : Place(r, k) = IF r + k <= N THEN r + k ELSE r + k - N
  BY PlaceIs
<1>4. \A k \in 0 .. N : Place(After(r), k) = IF After(r) + k <= N THEN After(r) + k
                                             ELSE After(r) + k - N
  BY <1>2, PlaceIs
<1>5. Place(r, 0) = r /\ Place(r, N) = r /\ \A k \in 0 .. N : Place(r, k) \in Ring
  BY <1>1, <1>3
<1>6. ASSUME NEW k \in 0 .. N - 1
      PROVE  /\ After(Place(r, k)) = Place(r, k + 1)
             /\ Place(After(r), k) = Place(r, k + 1)
  <2>1. k \in 0 .. N /\ k + 1 \in 0 .. N
    BY <1>1
  <2>2. /\ Place(r, k) = IF r + k <= N THEN r + k ELSE r + k - N
        /\ Place(r, k + 1) = IF r + (k + 1) <= N THEN r + (k + 1) ELSE r + (k + 1) - N
        /\ Place(After(r), k) = IF After(r) + k <= N THEN After(r) + k ELSE After(r) + k - N
    BY <1>3, <1>4, <2>1
  <2>3. After(Place(r, k)) = Place(r, k + 1)
    BY <1>1, <2>2 DEF After
  <2>4. Place(After(r), k) = Place(r, k + 1)
    BY <1>1, <2>2 DEF After
  <2> QED BY <2>3, <2>4
<1>7. \A k, l \in 0 .. N - 1 : Place(r, k) = Place(r, l) => k = l
  BY <1>1, <1>3
<1>8. ASSUME NEW i \in Ring PROVE \E k \in 0 .. N - 1 : Place(r, k) = i
  <2> DEFINE k == IF r <= i THEN i - r ELSE i - r + N
  <2>1. k \in 0 .. N - 1 /\ k \in 0 .. N
    BY <1>1
  <2>2. Place(r, k) = IF r + k <= N THEN r + k ELSE r + k - N
    BY <1>3, <2>1
  <2>3. Place(r, k) = i
    BY <1>1, <2>2
  <2> QED BY <2>1, <2>3
<1> QED BY <1>2, <1>5, <1>6, <1>7, <1>8

\* The numbers of the invariant.
LEMMA Numbers ==
  ASSUME RxInv
  PROVE  /\ N \in Nat \ {0} /\ N = Net_Max_Rx_Packets
         /\ Rx_Ring_Entries_Filled \in 0 .. N /\ Len(Rx_Packet_Queue) \in Nat
         /\ Rx_Packet_Queue \in Seq(Packets)
         /\ IsFiniteSet(handed) /\ Cardinality(handed) \in Nat
         /\ Null_Address \notin Packets
<1>1. N \in Nat \ {0}
  BY RingNotEmpty DEF N
<1>2. IsFiniteSet(Packets)
  BY <1>1, FS_Interval DEF Packets, Ring, N
<1>3. IsFiniteSet(handed) /\ Cardinality(handed) \in Nat
  BY <1>2, FS_Subset, FS_CardinalityType DEF RxInv, TypeOK
<1> QED BY <1>1, <1>3 DEF RxInv, TypeOK, N, Packets, Ring, Null_Address

\* Descriptors and their places.
LEMMA FirstPlace ==
  ASSUME RxInv
  PROVE  /\ At(0) = Rx_Buffer_Descriptors[Rx_Ring_Read_Cursor] /\ 0 \in 0 .. N - 1
         /\ \A k \in 0 .. N - 1 : /\ Place(Rx_Ring_Read_Cursor, k) \in Ring
                                  /\ k # 0 => Place(Rx_Ring_Read_Cursor, k) # Rx_Ring_Read_Cursor
<1> DEFINE r == Rx_Ring_Read_Cursor
<1>1. r \in Ring /\ N \in Nat \ {0}
  BY Numbers DEF RxInv, TypeOK
<1>2. /\ Place(r, 0) = r
      /\ \A k \in 0 .. N : Place(r, k) \in Ring
      /\ \A k, l \in 0 .. N - 1 : Place(r, k) = Place(r, l) => k = l
  BY <1>1, Places
<1>3. 0 \in 0 .. N - 1 /\ \A k \in 0 .. N - 1 : k \in 0 .. N
  BY <1>1
<1>4. At(0) = Rx_Buffer_Descriptors[r]
  BY <1>2 DEF At
<1> QED BY <1>2, <1>3, <1>4

\* What stays if a step leaves the ring alone.
LEMMA WindowStays ==
  ASSUME RxInv, UNCHANGED <<ring, dma>>, handler' = handler, RXF => RXF'
  PROVE  WindowInv'
BY DEF RxInv, WindowInv, Window, At, ring

\* What stays if a step moves no packet.
LEMMA LocatedStays ==
  ASSUME RxInv, UNCHANGED <<Rx_State_Flags, Rx_Packet_Queue, received, handed>>,
         handler' = "assert_failed" <=> handler = "assert_failed",
         \A i \in Ring : Rx_Buffer_Descriptors'[i].address = Rx_Buffer_Descriptors[i].address
  PROVE  Located'
BY DEF RxInv, Located, PlacesFlagged, FlagsPlaced

-----------------------------------------------------------------------------
(* The DMA engine *)

\* A frame arrives: the border between filled and empty descriptors moves on.
LEMMA DmaReceiveStep ==
  ASSUME RxInv, NEW bad \in FrameErrors, DmaReceive(bad)
  PROVE  RxInv'
<1> USE DEF RxInv
<1>1. PICK filled \in Nat : Window(filled)
  BY DEF WindowInv
<1> DEFINE r == Rx_Ring_Read_Cursor
<1>2. r \in Ring /\ dma \in Ring /\ N \in Nat \ {0} /\ Rx_Ring_Entries_Filled \in 0 .. N
  BY Numbers DEF TypeOK
<1>3. filled < Rx_Ring_Entries_Filled
  <2>1. CASE filled = N
    <3>1. dma = Place(r, 0)
      BY <1>1, <1>2, <2>1, Places DEF Window
    <3>2. ~At(0).empty
      BY <1>1, <1>2, <2>1 DEF Window
    <3> QED BY <3>1, <3>2 DEF At, DmaReceive
  <2>2. CASE filled \in 0 .. N - 1
    BY <1>1, <1>2, <2>2 DEF At, DmaReceive, Window
  <2> QED BY <1>1, <1>2, <2>1, <2>2 DEF Window
<1>4. TypeOK'
  <2>1. Rx_Buffer_Descriptors' \in [Ring -> Descriptor]
    <3>1. bad \in BOOLEAN /\ Rx_Buffer_Descriptors \in [Ring -> Descriptor]
      BY FrameErrorsAreBooleans DEF TypeOK
    <3>2. [Rx_Buffer_Descriptors[dma] EXCEPT !.empty = FALSE, !.error = bad] \in Descriptor
      BY <1>2, <3>1 DEF Descriptor
    <3>3. Rx_Buffer_Descriptors' = [Rx_Buffer_Descriptors EXCEPT
             ![dma] = [Rx_Buffer_Descriptors[dma] EXCEPT !.empty = FALSE, !.error = bad]]
      BY <1>2, <3>1 DEF DmaReceive
    <3> QED BY <1>2, <3>1, <3>2, <3>3
  <2>2. dma' \in Ring
    BY <1>2, Places DEF DmaReceive
  <2>3. RXF' \in BOOLEAN
    BY DEF DmaReceive
  <2> QED BY <2>1, <2>2, <2>3 DEF TypeOK, DmaReceive, queue, tasks
<1>5. \A k \in 0 .. N - 1 :
        /\ At(k)'.empty <=> At(k).empty /\ k # filled
        /\ At(k)'.address = At(k).address
        /\ (At(k)'.interrupt <=> At(k).interrupt)
  <2> SUFFICES ASSUME NEW k \in 0 .. N - 1
               PROVE  /\ At(k)'.empty <=> At(k).empty /\ k # filled
                      /\ At(k)'.address = At(k).address
                      /\ (At(k)'.interrupt <=> At(k).interrupt)
    OBVIOUS
  <2>1. Place(r, k) \in Ring /\ (Place(r, k) = dma <=> k = filled)
    BY <1>1, <1>2, <1>3, Places DEF Window
  <2>2. Rx_Buffer_Descriptors \in [Ring -> Descriptor]
    BY DEF TypeOK
  <2> QED BY <2>1, <2>2 DEF DmaReceive, At, Descriptor
<1>6. RXF' \/ handler = "assert_failed"
  <2>1. CASE handler # "assert_failed"
    <3>1. At(filled).interrupt
      BY <1>1, <1>2, <1>3, <2>1 DEF Window
    <3> QED BY <1>1, <3>1 DEF Window, At, DmaReceive
  <2> QED BY <2>1
<1>7. Window(filled + 1)'
  <2>1. dma' = Place(r, filled + 1)
    BY <1>1, <1>2, <1>3, Places DEF DmaReceive, Window
  <2>2. ASSUME NEW k \in 0 .. N - 1
        PROVE  At(k)'.empty <=> filled + 1 <= k /\ k < Rx_Ring_Entries_Filled
    <3>1. At(k).empty <=> filled <= k /\ k < Rx_Ring_Entries_Filled
      BY <1>1 DEF Window
    <3>2. k \in Int /\ (filled + 1 <= k <=> filled <= k /\ k # filled)
      BY <1>1, <1>2
    <3> QED BY <1>5, <3>1, <3>2
  <2>3. filled + 1 \in 0 .. Rx_Ring_Entries_Filled
    BY <1>1, <1>2, <1>3
  <2>4. UNCHANGED <<Rx_Ring_Read_Cursor, Rx_Ring_Write_Cursor, Rx_Ring_Entries_Filled, handler>>
    BY DEF DmaReceive
  <2>5. handler # "assert_failed" =>
          \A k \in 0 .. N - 1 : /\ At(k)'.address # Null_Address <=> k < Rx_Ring_Entries_Filled
                                /\ At(k)'.interrupt <=> k < Rx_Ring_Entries_Filled
    <3> SUFFICES ASSUME handler # "assert_failed", NEW k \in 0 .. N - 1
                 PROVE  /\ At(k)'.address # Null_Address <=> k < Rx_Ring_Entries_Filled
                        /\ At(k)'.interrupt <=> k < Rx_Ring_Entries_Filled
      OBVIOUS
    <3>1. /\ At(k).address # Null_Address <=> k < Rx_Ring_Entries_Filled
          /\ At(k).interrupt <=> k < Rx_Ring_Entries_Filled
      BY <1>1 DEF Window
    <3>2. At(k)'.address = At(k).address
      BY <1>5
    <3>3. At(k)'.interrupt <=> At(k).interrupt
      BY <1>5
    <3>4. At(k)'.address # Null_Address <=> k < Rx_Ring_Entries_Filled
      BY <3>1, <3>2
    <3> QED BY <3>1, <3>3, <3>4
  <2> QED BY <1>1, <1>6, <2>1, <2>2, <2>3, <2>4, <2>5 DEF Window
<1>8. WindowInv'
  BY <1>1, <1>7 DEF WindowInv
<1>9. Located'
  BY LocatedStays DEF TypeOK, DmaReceive, Descriptor, queue, tasks
<1>10. PacketsCounted' /\ Signals' /\ DmaActive'
  BY DEF PacketsCounted, Signals, DmaActive, Activating, DmaReceive, queue, tasks
<1> QED BY <1>4, <1>8, <1>9, <1>10

\* The engine stops only where no descriptor is empty.
LEMMA DmaStopStep ==
  ASSUME RxInv, DmaStop
  PROVE  RxInv'
<1> USE DEF RxInv
<1>1. PICK filled \in Nat : Window(filled)
  BY DEF WindowInv
<1>2. Rx_Ring_Read_Cursor \in Ring /\ N \in Nat \ {0} /\ Rx_Ring_Entries_Filled \in 0 .. N
  BY Numbers DEF TypeOK
<1>3. filled = Rx_Ring_Entries_Filled
  <2>1. CASE filled < Rx_Ring_Entries_Filled
    <3>1. At(filled).empty
      BY <1>1, <1>2, <2>1 DEF Window
    <3> QED BY <1>1, <3>1 DEF Window, At, DmaStop
  <2> QED BY <1>1, <1>2, <2>1 DEF Window
<1>4. \A k \in 0 .. N - 1 : ~At(k).empty
  BY <1>1, <1>2, <1>3 DEF Window
<1>5. \A i \in Ring : ~Rx_Buffer_Descriptors[i].empty
  BY <1>2, <1>4, Places DEF At
<1>6. TypeOK' /\ PacketsCounted' /\ Signals' /\ DmaActive'
  BY <1>5 DEF TypeOK, PacketsCounted, Signals, DmaActive, DmaStop, ring, queue, tasks
<1>7. WindowInv'
  BY WindowStays DEF DmaStop
<1>8. Located'
  BY LocatedStays DEF DmaStop, ring, queue, tasks
<1> QED BY <1>6, <1>7, <1>8

-----------------------------------------------------------------------------
(* Ethernet_Mac_Receive_Irq_Handler *)

\* The handler's steps beside draining leave ring, queue and tasks alone.
LEMMA QuietHandlerStep ==
  ASSUME RxInv, Interrupt \/ ReadEIR \/ ClearEIR \/ DrainDone
  PROVE  RxInv'
<1> USE DEF RxInv
<1>1. PICK filled \in Nat : Window(filled)
  BY DEF WindowInv
<1>2. Rx_Ring_Read_Cursor \in Ring /\ N \in Nat \ {0} /\ Rx_Ring_Entries_Filled \in 0 .. N
  BY Numbers DEF TypeOK
<1>3. /\ TypeOK' /\ UNCHANGED <<ring, Rx_State_Flags, queue, tasks, RDAR, dma>>
      /\ handler # "assert_failed" /\ handler' # "assert_failed"
  BY DEF TypeOK, Interrupt, ReadEIR, ClearEIR, DrainDone, ring, queue, tasks, hardware
<1>4. DrainDone => filled = 0
  <2>1. At(0) = Rx_Buffer_Descriptors[Rx_Ring_Read_Cursor] /\ 0 \in 0 .. N - 1
    BY FirstPlace
  <2> QED BY <1>1, <2>1 DEF DrainDone, Window
<1>5. handler' = "draining" => Rx_Ring_Entries_Filled > 0
  BY <1>2 DEF Interrupt, ReadEIR, ClearEIR, DrainDone
<1>6. handler' \in {"idle", "reading_EIR"} /\ filled > 0 => RXF'
  BY <1>1, <1>4 DEF Interrupt, ReadEIR, ClearEIR, DrainDone, hardware, Window
<1>7. Window(filled)'
  BY <1>1, <1>3, <1>5, <1>6 DEF Window, At, ring
<1>8. WindowInv'
  BY <1>7 DEF WindowInv
<1>9. Located'
  BY <1>3, LocatedStays DEF ring, queue, tasks
<1>10. PacketsCounted' /\ Signals' /\ DmaActive'
  BY <1>3 DEF PacketsCounted, Signals, DmaActive, Activating, ring, queue, tasks
<1> QED BY <1>3, <1>8, <1>9, <1>10

\* What the handler finds at the read cursor: a descriptor with a packet, which it
\* leaves blank.
LEMMA DrainedDescriptor ==
  ASSUME RxInv, DrainOne \/ DrainBad,
         NEW p, p = Rx_Buffer_Descriptors[Rx_Ring_Read_Cursor].address,
         NEW filled \in Nat, Window(filled)
  PROVE  /\ p \in Packets /\ p # Null_Address /\ filled > 0
         /\ Rx_Buffer_Descriptors' \in [Ring -> Descriptor]
         /\ Rx_Buffer_Descriptors'[Rx_Ring_Read_Cursor].address = Null_Address
         /\ ~Rx_Buffer_Descriptors'[Rx_Ring_Read_Cursor].interrupt
         /\ \A i \in Ring : i # Rx_Ring_Read_Cursor =>
              Rx_Buffer_Descriptors'[i] = Rx_Buffer_Descriptors[i]
         /\ \A i \in Ring : Rx_Buffer_Descriptors'[i].empty = Rx_Buffer_Descriptors[i].empty
<1> USE DEF RxInv
<1>1. Rx_Ring_Read_Cursor \in Ring /\ N \in Nat \ {0}
  BY Numbers DEF TypeOK
<1>2. At(0) = Rx_Buffer_Descriptors[Rx_Ring_Read_Cursor] /\ 0 \in 0 .. N - 1
  BY FirstPlace
<1>3. handler = "draining" /\ Rx_Ring_Entries_Filled > 0 /\ ~At(0).empty
  BY <1>2 DEF DrainOne, DrainBad, Window
<1>4. p # Null_Address /\ filled > 0
  BY <1>2, <1>3 DEF Window
<1>5. p \in Packets
  BY <1>1, <1>4 DEF TypeOK, Descriptor
<1>6. Rx_Buffer_Descriptors' =
        [Rx_Buffer_Descriptors EXCEPT ![Rx_Ring_Read_Cursor].address = Null_Address,
                                      ![Rx_Ring_Read_Cursor].interrupt = FALSE]
  BY DEF DrainOne, DrainBad
<1> QED BY <1>1, <1>4, <1>5, <1>6 DEF TypeOK, Descriptor

\* The three kinds of place differ in the flags.
LEMMA FlagsDiffer == InRing # InQueue /\ InRing # InUse /\ InQueue # InUse
BY DEF InRing, InQueue, InUse

\* A received frame moves from the ring to the queue.
LEMMA DrainOneStep ==
  ASSUME RxInv, DrainOne
  PROVE  RxInv'
<1> USE DEF RxInv
<1> DEFINE r == Rx_Ring_Read_Cursor
           p == Rx_Buffer_Descriptors[r].address
           L == Len(Rx_Packet_Queue)
<1>1. PICK filled \in Nat : Window(filled)
  BY DEF WindowInv
<1>2. /\ r \in Ring /\ N \in Nat \ {0} /\ Rx_Ring_Entries_Filled \in 0 .. N
      /\ Rx_Packet_Queue \in Seq(Packets) /\ L \in Nat
  BY Numbers DEF TypeOK
<1>3. /\ p \in Packets /\ p # Null_Address /\ filled > 0
      /\ Rx_Buffer_Descriptors' \in [Ring -> Descriptor]
      /\ Rx_Buffer_Descriptors'[r].address = Null_Address
      /\ ~Rx_Buffer_Descriptors'[r].interrupt
      /\ \A i \in Ring : i # r => Rx_Buffer_Descriptors'[i] = Rx_Buffer_Descriptors[i]
      /\ \A i \in Ring : Rx_Buffer_Descriptors'[i].empty = Rx_Buffer_Descriptors[i].empty
  BY <1>1, DrainedDescriptor
<1>4. /\ Rx_Packet_Queue' = Append(Rx_Packet_Queue, p) /\ Rx_Packet_Queue' \in Seq(Packets)
      /\ Len(Rx_Packet_Queue') = L + 1 /\ Rx_Packet_Queue'[L + 1] = p
      /\ \A i \in 1 .. L : Rx_Packet_Queue'[i] = Rx_Packet_Queue[i]
  <2>1. Rx_Packet_Queue' = Append(Rx_Packet_Queue, p)
    BY DEF DrainOne, EnqueueAndSignal
  <2> HIDE DEF p
  <2> QED BY <1>2, <1>3, <2>1
<1>5. /\ Rx_Ring_Read_Cursor' = After(r) /\ After(r) \in Ring
      /\ Rx_Ring_Entries_Filled' = Rx_Ring_Entries_Filled - 1
      /\ Rx_Ring_Entries_Filled' \in 0 .. N - 1
      /\ handler = "draining" /\ handler' \in {"reading_EIR", "draining"}
      /\ handler' = "reading_EIR" => Rx_Ring_Entries_Filled' = 0
      /\ handler' = "draining" => Rx_Ring_Entries_Filled' > 0
      /\ UNCHANGED <<Rx_Ring_Write_Cursor, received, handed, app, RXF, RDAR, dma>>
  <2>1. After(r) \in Ring
    BY <1>2, Places
  <2>2. Rx_Ring_Entries_Filled > 0
    BY <1>1, <1>2, <1>3 DEF Window
  <2> QED BY <1>2, <2>1, <2>2 DEF DrainOne, hardware
<1>6. /\ handler # "assert_failed" /\ PlacesFlagged /\ FlagsPlaced
      /\ Rx_State_Flags[p] = InRing
  BY <1>2, <1>3, <1>5 DEF Located, PlacesFlagged
<1>7. Rx_State_Flags' = [Rx_State_Flags EXCEPT ![p] = InQueue]
  BY <1>6 DEF DrainOne, InQueue
<1>8. TypeOK'
  <2>1. Rx_State_Flags' \in [Packets -> SUBSET Flags]
    BY <1>3, <1>7 DEF TypeOK, InQueue, Flags
  <2>2. /\ receiver' \in {"suspending", "suspended", "woken", "processing", "activating"}
        /\ Not_Empty_Condvar' \in BOOLEAN
    BY DEF TypeOK, DrainOne, EnqueueAndSignal
  <2> QED BY <1>2, <1>3, <1>4, <1>5, <2>1, <2>2 DEF TypeOK, N
<1>9. WindowInv'
  <2>1. ASSUME NEW k \in 0 .. N - 1
        PROVE  /\ k < N - 1 => k + 1 \in 0 .. N - 1 /\ At(k)' = At(k + 1)
               /\ k = N - 1 => /\ ~At(k)'.empty /\ At(k)'.address = Null_Address
                               /\ ~At(k)'.interrupt
    <3>1. Place(Rx_Ring_Read_Cursor', k) = Place(r, k + 1)
      BY <1>2, <1>5, Places
    <3>2. CASE k = N - 1
      <4>1. Place(r, k + 1) = r
        BY <1>2, <3>2, Places
      <4>2. ~Rx_Buffer_Descriptors[r].empty
        BY DEF DrainOne
      <4> QED BY <1>2, <1>3, <3>1, <3>2, <4>1, <4>2 DEF At
    <3>3. CASE k < N - 1
      <4>1. k + 1 \in 0 .. N - 1 /\ k + 1 # 0
        BY <1>2, <3>3
      <4>2. Place(r, k + 1) # r /\ Place(r, k + 1) \in Ring
        <5> DEFINE l == k + 1
        <5>1. l \in 0 .. N - 1 /\ l # 0
          BY <4>1
        <5> HIDE DEF l
        <5>2. Place(r, l) # r /\ Place(r, l) \in Ring
          BY <5>1, FirstPlace
        <5> QED BY <5>2 DEF l
      <4> QED BY <1>2, <1>3, <3>1, <3>3, <4>1, <4>2 DEF At
    <3> QED BY <1>2, <3>2, <3>3
  <2>2. dma' = Place(Rx_Ring_Read_Cursor', filled - 1)
    <3>1. filled - 1 \in 0 .. N - 1 /\ (filled - 1) + 1 = filled
      BY <1>1, <1>2, <1>3 DEF Window
    <3>2. Place(After(r), filled - 1) = Place(r, (filled - 1) + 1)
      BY <1>2, <3>1, Places
    <3> QED BY <1>1, <1>5, <3>1, <3>2 DEF Window
  <2>3. Rx_Ring_Write_Cursor' = Place(Rx_Ring_Read_Cursor', Rx_Ring_Entries_Filled')
    <3>1. Place(After(r), Rx_Ring_Entries_Filled') = Place(r, Rx_Ring_Entries_Filled' + 1)
      BY <1>2, <1>5, Places
    <3>2. Rx_Ring_Entries_Filled' + 1 = Rx_Ring_Entries_Filled
      BY <1>2, <1>5
    <3> QED BY <1>1, <1>5, <3>1, <3>2 DEF Window
  <2>4. filled - 1 \in 0 .. Rx_Ring_Entries_Filled' /\ filled - 1 \in Nat
    BY <1>1, <1>2, <1>3, <1>5 DEF Window
  <2>5. ASSUME NEW k \in 0 .. N - 1
        PROVE  /\ At(k)'.empty <=> filled - 1 <= k /\ k < Rx_Ring_Entries_Filled'
               /\ At(k)'.address # Null_Address <=> k < Rx_Ring_Entries_Filled'
               /\ At(k)'.interrupt <=> k < Rx_Ring_Entries_Filled'
    <3>1. CASE k = N - 1
      <4>1. ~(k < Rx_Ring_Entries_Filled')
        BY <1>2, <1>5, <3>1
      <4> QED BY <2>1, <3>1, <4>1
    <3>2. CASE k < N - 1
      <4>1. k + 1 \in 0 .. N - 1 /\ At(k)' = At(k + 1)
        BY <2>1, <3>2
      <4>2. /\ At(k + 1).empty <=> filled <= k + 1 /\ k + 1 < Rx_Ring_Entries_Filled
            /\ At(k + 1).address # Null_Address <=> k + 1 < Rx_Ring_Entries_Filled
            /\ At(k + 1).interrupt <=> k + 1 < Rx_Ring_Entries_Filled
        BY <1>1, <1>6, <4>1 DEF Window
      <4>3. /\ k + 1 < Rx_Ring_Entries_Filled <=> k < Rx_Ring_Entries_Filled'
            /\ filled <= k + 1 <=> filled - 1 <= k
        BY <1>1, <1>2, <1>5
      <4> QED BY <4>1, <4>2, <4>3
    <3> QED BY <1>2, <3>1, <3>2
  <2>6. handler' \in {"idle", "reading_EIR"} => ~(filled - 1 > 0)
    BY <1>5, <2>4
  <2>7. Window(filled - 1)'
    BY <1>5, <2>2, <2>3, <2>4, <2>5, <2>6 DEF Window
  <2> QED BY <2>4, <2>7 DEF WindowInv
<1>10. PacketsCounted'
  <2>1. Cardinality(handed) \in Nat
    BY Numbers
  <2> QED BY <1>2, <1>4, <1>5, <2>1 DEF PacketsCounted
<1>11. PlacesFlagged'
  <2>1. ASSUME NEW i \in Ring, NEW x, x = Rx_Buffer_Descriptors'[i].address, x # Null_Address
        PROVE  /\ Rx_State_Flags'[x] = InRing
               /\ \A j \in Ring : Rx_Buffer_Descriptors'[j].address = x => j = i
    <3>1. i # r /\ x = Rx_Buffer_Descriptors[i].address
      BY <1>3, <2>1
    <3>2. /\ Rx_State_Flags[x] = InRing
          /\ \A j \in Ring : Rx_Buffer_Descriptors[j].address = x => j = i
      BY <1>6, <2>1, <3>1 DEF PlacesFlagged
    <3>3. x # p
      BY <1>2, <3>1, <3>2
    <3>4. x \in Packets
      BY <2>1, <3>1 DEF TypeOK, Descriptor
    <3>5. Rx_State_Flags'[x] = InRing
      BY <1>7, <3>2, <3>3, <3>4 DEF TypeOK
    <3> QED BY <1>3, <2>1, <3>2, <3>5
  <2>2. ASSUME NEW i \in 1 .. Len(Rx_Packet_Queue')
        PROVE  /\ Rx_State_Flags'[Rx_Packet_Queue'[i]] = InQueue
               /\ \A j \in 1 .. Len(Rx_Packet_Queue') :
                    Rx_Packet_Queue'[j] = Rx_Packet_Queue'[i] => j = i
    <3>1. \A j \in 1 .. L : /\ Rx_Packet_Queue[j] \in Packets /\ Rx_Packet_Queue[j] # p
                            /\ Rx_State_Flags[Rx_Packet_Queue[j]] = InQueue
      BY <1>2, <1>6, FlagsDiffer DEF PlacesFlagged
    <3>2. Rx_State_Flags'[p] = InQueue
      BY <1>3, <1>7 DEF TypeOK
    <3>3. CASE i = L + 1
      BY <1>2, <1>4, <3>1, <3>2, <3>3
    <3>4. CASE i \in 1 .. L
      <4>1. Rx_State_Flags'[Rx_Packet_Queue[i]] = InQueue
        BY <1>7, <3>1, <3>4 DEF TypeOK
      <4>2. \A j \in 1 .. L : Rx_Packet_Queue[j] = Rx_Packet_Queue[i] => j = i
        BY <1>6, <3>4 DEF PlacesFlagged
      <4> QED BY <1>2, <1>4, <3>1, <3>4, <4>1, <4>2
    <3> QED BY <1>2, <1>4, <3>3, <3>4
  <2>3. received' # Null_Address => Rx_State_Flags'[received'] = InUse /\ received' \notin handed'
    BY <1>5, <1>6, <1>7, FlagsDiffer DEF PlacesFlagged, TypeOK
  <2>4. \A x \in handed' : Rx_State_Flags'[x] = InUse
    BY <1>5, <1>6, <1>7, FlagsDiffer DEF PlacesFlagged, TypeOK
  <2> QED BY <2>1, <2>2, <2>3, <2>4 DEF PlacesFlagged
<1>12. FlagsPlaced'
  <2> SUFFICES ASSUME NEW x \in Packets
               PROVE  \/ /\ Rx_State_Flags'[x] = InRing
                         /\ \E i \in Ring : Rx_Buffer_Descriptors'[i].address = x
                      \/ /\ Rx_State_Flags'[x] = InQueue
                         /\ \E i \in 1 .. Len(Rx_Packet_Queue') : Rx_Packet_Queue'[i] = x
                      \/ /\ Rx_State_Flags'[x] = InUse
                         /\ received' = x \/ x \in handed'
    BY DEF FlagsPlaced
  <2>1. CASE x = p
    <3>1. Rx_State_Flags'[x] = InQueue /\ L + 1 \in 1 .. Len(Rx_Packet_Queue')
      BY <1>2, <1>3, <1>4, <1>7, <2>1 DEF TypeOK
    <3> QED BY <1>4, <2>1, <3>1
  <2>2. CASE x # p
    <3>1. Rx_State_Flags'[x] = Rx_State_Flags[x]
      BY <1>7, <2>2 DEF TypeOK
    <3>2. (\E i \in Ring : Rx_Buffer_Descriptors[i].address = x) =>
             \E i \in Ring : Rx_Buffer_Descriptors'[i].address = x
      BY <1>3, <2>2
    <3>3. (\E i \in 1 .. L : Rx_Packet_Queue[i] = x) =>
             \E i \in 1 .. Len(Rx_Packet_Queue') : Rx_Packet_Queue'[i] = x
      BY <1>2, <1>4
    <3> QED BY <1>5, <1>6, <3>1, <3>2, <3>3 DEF FlagsPlaced
  <2> QED BY <2>1, <2>2
<1>13. Signals'
  BY <1>2, <1>4, <1>5, Numbers DEF Signals, DrainOne, EnqueueAndSignal, TypeOK
<1>14. DmaActive'
  BY <1>3, <1>5 DEF DmaActive, Activating, DrainOne, EnqueueAndSignal
<1> QED BY <1>5, <1>8, <1>9, <1>10, <1>11, <1>12, <1>13, <1>14 DEF Located

\* A bad frame stops the system with the ring still a window.
LEMMA DrainBadStep ==
  ASSUME RxInv, DrainBad
  PROVE  RxInv'
<1> USE DEF RxInv
<1>1. PICK filled \in Nat : Window(filled)
  BY DEF WindowInv
<1> DEFINE r == Rx_Ring_Read_Cursor
           p == Rx_Buffer_Descriptors[r].address
<1>2. /\ r \in Ring /\ p \in Packets /\ Rx_Buffer_Descriptors' \in [Ring -> Descriptor]
      /\ \A i \in Ring : Rx_Buffer_Descriptors'[i].empty = Rx_Buffer_Descriptors[i].empty
  BY <1>1, DrainedDescriptor DEF TypeOK
<1>3. /\ handler' = "assert_failed"
      /\ UNCHANGED <<Rx_Ring_Write_Cursor, Rx_Ring_Read_Cursor, Rx_Ring_Entries_Filled, queue,
                     tasks, hardware>>
  BY DEF DrainBad
<1>4. TypeOK'
  <2>1. Rx_State_Flags' \in [Packets -> SUBSET Flags]
    BY <1>2 DEF DrainBad, TypeOK, Flags
  <2> QED BY <1>2, <1>3, <2>1 DEF TypeOK, queue, tasks, hardware
<1>5. Window(filled)'
  <2>1. \A k \in 0 .. N - 1 : At(k)'.empty = At(k).empty
    <3> SUFFICES ASSUME NEW k \in 0 .. N - 1 PROVE At(k)'.empty = At(k).empty
      OBVIOUS
    <3>1. Place(r, k) \in Ring
      BY FirstPlace
    <3> QED BY <1>2, <1>3, <3>1 DEF At
  <2> QED BY <1>1, <1>3, <2>1 DEF Window, hardware
<1>6. WindowInv' /\ Located'
  BY <1>3, <1>5 DEF WindowInv, Located
<1>7. PacketsCounted' /\ Signals' /\ DmaActive'
  BY <1>2, <1>3 DEF PacketsCounted, Signals, DmaActive, Activating, queue, tasks, hardware
<1> QED BY <1>4, <1>6, <1>7

-----------------------------------------------------------------------------
(* The tasks *)

\* Suspend and the writes of RDAR move no packet.
LEMMA QuietTaskStep ==
  ASSUME RxInv, Suspend \/ Activate \/ \E a \in AppTasks : AppActivate(a)
  PROVE  RxInv'
<1> USE DEF RxInv
<1>1. /\ UNCHANGED <<ring, Rx_State_Flags, Rx_Packet_Queue, received, handed, handler, RXF, dma>>
      /\ TypeOK'
  BY DEF TypeOK, Suspend, Activate, AppActivate, ring, queue, hardware
<1>2. WindowInv'
  BY <1>1, WindowStays
<1>3. Located'
  BY <1>1, LocatedStays DEF ring
<1>4. PacketsCounted'
  BY <1>1 DEF PacketsCounted, ring
<1>5. Signals'
  BY Numbers DEF Signals, Suspend, Activate, AppActivate, queue, TypeOK
<1>6. DmaActive'
  <2>1. CASE Suspend
    BY <1>1, <2>1 DEF DmaActive, Activating, Suspend, ring, hardware
  <2>2. CASE Activate \/ \E a \in AppTasks : AppActivate(a)
    BY <2>2 DEF DmaActive, Activate, AppActivate
  <2> QED BY <2>1, <2>2
<1> QED BY <1>1, <1>2, <1>3, <1>4, <1>5, <1>6

\* The receiver task takes the oldest packet.
LEMMA TakePacketStep ==
  ASSUME RxInv, TakePacket
  PROVE  RxInv'
<1> USE DEF RxInv
<1> DEFINE p == Head(Rx_Packet_Queue)
           L == Len(Rx_Packet_Queue)
<1>1. /\ Rx_Packet_Queue \in Seq(Packets) /\ L \in Nat \ {0} /\ p = Rx_Packet_Queue[1]
      /\ p \in Packets
      /\ Rx_Packet_Queue' = Tail(Rx_Packet_Queue) /\ Rx_Packet_Queue' \in Seq(Packets)
      /\ Len(Rx_Packet_Queue') = L - 1
      /\ \A i \in 1 .. L - 1 : Rx_Packet_Queue'[i] = Rx_Packet_Queue[i + 1]
  BY Numbers, HeadTailProperties, ElementOfSeq DEF TakePacket
<1>2. /\ received = Null_Address /\ received' = p /\ p # Null_Address
      /\ UNCHANGED <<ring, handed, app, handler, RXF, RDAR, dma, Not_Empty_Condvar>>
      /\ handler = "idle" /\ receiver = "woken" /\ receiver' = "processing"
  BY <1>1, Numbers DEF TakePacket, Signals, ring, hardware, TasksRun
<1>3. PlacesFlagged /\ FlagsPlaced /\ Rx_State_Flags[p] = InQueue
  BY <1>1, <1>2 DEF Located, PlacesFlagged
<1>4. Rx_State_Flags' = [Rx_State_Flags EXCEPT ![p] = InUse]
  BY <1>3 DEF TakePacket, InQueue, InUse
<1>5. TypeOK'
  <2>1. Rx_State_Flags' \in [Packets -> SUBSET Flags]
    BY <1>1, <1>4 DEF TypeOK, InUse, Flags
  <2> QED BY <1>1, <1>2, <2>1 DEF TypeOK, ring
<1>6. WindowInv'
  BY <1>2, WindowStays
<1>7. PacketsCounted'
  BY <1>1, <1>2, Numbers DEF PacketsCounted, ring
<1>8. PlacesFlagged'
  <2>1. ASSUME NEW i \in Ring, NEW x, x = Rx_Buffer_Descriptors'[i].address, x # Null_Address
        PROVE  /\ Rx_State_Flags'[x] = InRing
               /\ \A j \in Ring : Rx_Buffer_Descriptors'[j].address = x => j = i
    <3>1. x \in Packets /\ x = Rx_Buffer_Descriptors[i].address
      BY <1>2, <2>1 DEF TypeOK, Descriptor, ring
    <3>2. Rx_State_Flags[x] = InRing /\ \A j \in Ring : Rx_Buffer_Descriptors[j].address = x => j = i
      BY <1>3, <2>1, <3>1 DEF PlacesFlagged
    <3> QED BY <1>2, <1>3, <1>4, <3>1, <3>2, FlagsDiffer DEF TypeOK, ring
  <2>2. ASSUME NEW i \in 1 .. Len(Rx_Packet_Queue')
        PROVE  /\ Rx_State_Flags'[Rx_Packet_Queue'[i]] = InQueue
               /\ \A j \in 1 .. Len(Rx_Packet_Queue') :
                    Rx_Packet_Queue'[j] = Rx_Packet_Queue'[i] => j = i
    <3>1. \A j \in 1 .. L - 1 : j + 1 \in 1 .. L /\ j + 1 # 1
      BY <1>1
    <3>2. i \in 1 .. L - 1
      BY <1>1
    <3>3. Rx_Packet_Queue[i + 1] # p /\ Rx_Packet_Queue[i + 1] \in Packets
      BY <1>1, <1>3, <3>1, <3>2 DEF PlacesFlagged
    <3>4. Rx_State_Flags'[Rx_Packet_Queue[i + 1]] = InQueue
      BY <1>3, <1>4, <3>1, <3>2, <3>3 DEF PlacesFlagged, TypeOK
    <3>5. ASSUME NEW j \in 1 .. L - 1, Rx_Packet_Queue[j + 1] = Rx_Packet_Queue[i + 1]
          PROVE  j = i
      <4>1. j + 1 = i + 1
        BY <1>3, <3>1, <3>2, <3>5 DEF PlacesFlagged
      <4> QED BY <3>2, <4>1
    <3> QED BY <1>1, <3>2, <3>4, <3>5
  <2>3. Rx_State_Flags'[received'] = InUse
    BY <1>1, <1>2, <1>4 DEF TypeOK
  <2>4. received' \notin handed'
    BY <1>2, <1>3, FlagsDiffer DEF PlacesFlagged
  <2>5. \A x \in handed' : Rx_State_Flags'[x] = InUse
    BY <1>2, <1>3, <1>4 DEF PlacesFlagged, TypeOK
  <2> QED BY <2>1, <2>2, <2>3, <2>4, <2>5 DEF PlacesFlagged
<1>9. FlagsPlaced'
  <2> SUFFICES ASSUME NEW x \in Packets
               PROVE  \/ /\ Rx_State_Flags'[x] = InRing
                         /\ \E i \in Ring : Rx_Buffer_Descriptors'[i].address = x
                      \/ /\ Rx_State_Flags'[x] = InQueue
                         /\ \E i \in 1 .. Len(Rx_Packet_Queue') : Rx_Packet_Queue'[i] = x
                      \/ /\ Rx_State_Flags'[x] = InUse
                         /\ received' = x \/ x \in handed'
    BY DEF FlagsPlaced
  <2>1. CASE x = p
    BY <1>2, <1>4, <2>1 DEF TypeOK
  <2>2. CASE x # p
    <3>1. Rx_State_Flags'[x] = Rx_State_Flags[x]
      BY <1>4, <2>2 DEF TypeOK
    <3>2. ASSUME NEW i \in 1 .. L, Rx_Packet_Queue[i] = x
          PROVE  \E j \in 1 .. Len(Rx_Packet_Queue') : Rx_Packet_Queue'[j] = x
      <4>1. i - 1 \in 1 .. L - 1 /\ (i - 1) + 1 = i
        BY <1>1, <2>2, <3>2
      <4>2. Rx_Packet_Queue'[i - 1] = Rx_Packet_Queue[(i - 1) + 1]
        BY <1>1, <4>1
      <4> QED BY <1>1, <3>2, <4>1, <4>2
    <3>3. received # x
      BY <1>2, Numbers
    <3> QED BY <1>2, <1>3, <3>1, <3>2, <3>3 DEF FlagsPlaced, ring
  <2> QED BY <2>1, <2>2
<1>10. Signals'
  BY <1>1, <1>2, <1>7, Numbers DEF Signals, PacketsCounted, ring, TypeOK
<1>11. DmaActive'
  BY <1>2 DEF DmaActive, Activating, ring
<1> QED BY <1>2, <1>5, <1>6, <1>7, <1>8, <1>9, <1>10, <1>11 DEF Located

\* The receiver task passes its packet on.
LEMMA HandOverStep ==
  ASSUME RxInv, HandOver
  PROVE  RxInv'
<1> USE DEF RxInv
<1>1. /\ received # Null_Address /\ received \in Packets /\ received' = Null_Address
      /\ handed' = handed \cup {received} /\ receiver = "processing" /\ receiver' = "suspending"
      /\ handler = "idle"
      /\ UNCHANGED <<ring, Rx_State_Flags, queue, app, handler, hardware>>
  BY DEF HandOver, Signals, TypeOK, TasksRun
<1>2. /\ received \notin handed /\ Rx_State_Flags[received] = InUse
      /\ PlacesFlagged /\ FlagsPlaced
  BY <1>1 DEF Located, PlacesFlagged
<1>3. Cardinality(handed') = Cardinality(handed) + 1
  BY <1>1, <1>2, Numbers, FS_AddElement
<1>4. TypeOK'
  BY <1>1 DEF TypeOK, ring, queue, hardware
<1>5. WindowInv'
  BY <1>1, WindowStays DEF hardware
<1>6. PacketsCounted'
  BY <1>1, <1>3, Numbers DEF PacketsCounted, ring, queue
<1>7. PlacesFlagged' /\ FlagsPlaced'
  <2>1. PlacesFlagged'
    BY <1>1, <1>2 DEF PlacesFlagged, ring, queue
  <2>2. FlagsPlaced'
    BY <1>1, <1>2 DEF FlagsPlaced, ring, queue
  <2> QED BY <2>1, <2>2
<1>8. Signals' /\ DmaActive'
  BY <1>1 DEF Signals, DmaActive, Activating, ring, queue, hardware
<1> QED BY <1>4, <1>5, <1>6, <1>7, <1>8 DEF Located

\* A finite set that loses an element has one less.
LEMMA OneLess ==
  ASSUME NEW S, NEW x \in S, IsFiniteSet(S)
  PROVE  Cardinality(S \ {x}) = Cardinality(S) - 1 /\ Cardinality(S) # 0
<1>1. Cardinality(S) \in Nat /\ Cardinality(S) # 0
  BY FS_CardinalityType, FS_EmptySet
<1> QED BY <1>1, FS_RemoveElement

\* A packet in use goes back to the ring: the window grows at the write cursor.
LEMMA RepostStep ==
  ASSUME RxInv, handler = "idle", NEW p \in Packets, Atomic_Repost_Rx_Packet(p),
         Rx_State_Flags[p] = InUse, received = p \/ p \in handed,
         received' = (IF received = p THEN Null_Address ELSE received), handed' = handed \ {p},
         UNCHANGED <<queue, handler, hardware>>
  PROVE  /\ WindowInv' /\ PacketsCounted' /\ Located'
         /\ Rx_Buffer_Descriptors' \in [Ring -> Descriptor]
         /\ Rx_State_Flags' \in [Packets -> SUBSET Flags]
         /\ Rx_Ring_Read_Cursor' \in Ring /\ Rx_Ring_Write_Cursor' \in Ring
         /\ Rx_Ring_Entries_Filled' \in 0 .. N
<1> USE DEF RxInv
<1> DEFINE r == Rx_Ring_Read_Cursor
           w == Rx_Ring_Write_Cursor
           E == Rx_Ring_Entries_Filled
<1>1. PICK filled \in Nat : Window(filled)
  BY DEF WindowInv
<1>2. /\ r \in Ring /\ w \in Ring /\ N \in Nat \ {0} /\ E \in 0 .. N /\ p # Null_Address
      /\ Len(Rx_Packet_Queue) \in Nat /\ Cardinality(handed) \in Nat /\ IsFiniteSet(handed)
  BY Numbers DEF TypeOK
<1>3. PlacesFlagged /\ FlagsPlaced /\ handler' = "idle"
  BY DEF Located
<1>4. PacketsCounted' /\ E < N
  <2> DEFINE L == Len(Rx_Packet_Queue)
             C == Cardinality(handed)
  <2>3. /\ E + L + (IF received = Null_Address THEN 0 ELSE 1) + C = N
        /\ E \in Nat /\ L \in Nat /\ C \in Nat /\ N \in Nat
    BY <1>2 DEF PacketsCounted
  <2>4. Rx_Ring_Entries_Filled' = E + 1 /\ Len(Rx_Packet_Queue') = L
    BY DEF Atomic_Repost_Rx_Packet, queue
  <2>5. PacketsCounted' <=>
          (E + 1) + L + (IF received' = Null_Address THEN 0 ELSE 1) + Cardinality(handed') = N
    BY <2>4 DEF PacketsCounted
  <2>1. CASE received = p
    <3>1. received # Null_Address /\ received' = Null_Address /\ handed' = handed
      BY <1>2, <1>3, <2>1 DEF PlacesFlagged
    <3>2. E + L + 1 + C = N
      BY <2>3, <3>1
    <3>3. PacketsCounted' <=> (E + 1) + L + 0 + C = N
      BY <2>5, <3>1
    <3> HIDE DEF E, L, C
    <3> QED BY <2>3, <3>2, <3>3
  <2>2. CASE received # p
    <3>1. p \in handed /\ received' = received /\ handed' = handed \ {p}
      BY <2>2
    <3>2. Cardinality(handed') = C - 1 /\ C # 0
      BY <1>2, <3>1, OneLess
    <3> DEFINE R == IF received = Null_Address THEN 0 ELSE 1
               D == Cardinality(handed')
    <3>3. R \in Nat /\ E + L + R + C = N /\ D = C - 1
      BY <2>3, <3>2
    <3>4. PacketsCounted' <=> (E + 1) + L + R + D = N
      BY <2>5, <3>1
    <3> HIDE DEF E, L, C, R, D
    <3> QED BY <2>3, <3>2, <3>3, <3>4
  <2> QED BY <2>1, <2>2
<1>5. w = Place(r, E) /\ E \in 0 .. N - 1 /\ Rx_Buffer_Descriptors[w].address = Null_Address
  BY <1>1, <1>2, <1>4 DEF Window, At
<1>6. /\ Rx_Buffer_Descriptors' \in [Ring -> Descriptor]
      /\ Rx_Buffer_Descriptors'[w].address = p
      /\ Rx_Buffer_Descriptors'[w].interrupt
      /\ Rx_Buffer_Descriptors'[w].empty
      /\ \A i \in Ring : i # w => Rx_Buffer_Descriptors'[i] = Rx_Buffer_Descriptors[i]
  BY <1>2 DEF Atomic_Repost_Rx_Packet, TypeOK, Descriptor
<1>7. /\ Rx_State_Flags' = [Rx_State_Flags EXCEPT ![p] = InRing]
      /\ Rx_State_Flags' \in [Packets -> SUBSET Flags]
      /\ Rx_Ring_Read_Cursor' = r /\ Rx_Ring_Write_Cursor' = After(w)
      /\ Rx_Ring_Entries_Filled' = E + 1 /\ E + 1 \in 0 .. N
  BY <1>2, <1>4 DEF Atomic_Repost_Rx_Packet, TypeOK, InRing, Flags
<1>8. WindowInv'
  <2>1. After(w) = Place(r, E + 1)
    BY <1>2, <1>5, Places
  <2>2. ASSUME NEW k \in 0 .. N - 1
        PROVE  /\ At(k)'.empty <=> filled <= k /\ k < E + 1
               /\ At(k)'.address # Null_Address <=> k < E + 1
               /\ At(k)'.interrupt <=> k < E + 1
    <3>1. Place(r, k) \in Ring /\ (Place(r, k) = w <=> k = E)
      <4>1. \A l, m \in 0 .. N - 1 : Place(r, l) = Place(r, m) => l = m
        BY <1>2, Places
      <4>2. Place(r, k) \in Ring
        BY FirstPlace
      <4> HIDE DEF E
      <4> QED BY <1>5, <4>1, <4>2
    <3>2. CASE k = E
      <4>1. At(k)' = Rx_Buffer_Descriptors'[w]
        BY <1>7, <3>1, <3>2 DEF At
      <4>2. filled <= k /\ k < E + 1
        BY <1>1, <1>2, <3>2 DEF Window
      <4> QED BY <1>2, <1>6, <4>1, <4>2
    <3>3. CASE k # E
      <4>1. At(k)' = At(k)
        BY <1>6, <1>7, <3>1, <3>3 DEF At
      <4>2. k < E + 1 <=> k < E
        BY <1>2, <3>3
      <4>3. /\ At(k).empty <=> filled <= k /\ k < E
            /\ At(k).address # Null_Address <=> k < E
            /\ At(k).interrupt <=> k < E
        BY <1>1 DEF Window
      <4> QED BY <4>1, <4>2, <4>3
    <3> QED BY <3>2, <3>3
  <2>3. filled \in 0 .. E + 1
    BY <1>1, <1>2 DEF Window
  <2>4. Window(filled)'
    BY <1>1, <1>3, <1>7, <2>1, <2>2, <2>3 DEF Window, hardware
  <2> QED BY <2>4 DEF WindowInv
<1>9. PlacesFlagged'
  <2>1. ASSUME NEW i \in Ring PROVE Rx_Buffer_Descriptors[i].address # p
    BY <1>2, <1>3, FlagsDiffer DEF PlacesFlagged
  <2>2. ASSUME NEW i \in Ring, NEW x, x = Rx_Buffer_Descriptors'[i].address, x # Null_Address
        PROVE  /\ Rx_State_Flags'[x] = InRing
               /\ \A j \in Ring : Rx_Buffer_Descriptors'[j].address = x => j = i
    <3>1. CASE i = w
      BY <1>6, <1>7, <2>1, <2>2, <3>1 DEF TypeOK
    <3>2. CASE i # w
      <4>1. x = Rx_Buffer_Descriptors[i].address /\ x # p
        BY <1>6, <2>1, <2>2, <3>2
      <4>2. x \in Packets
        BY <2>2, <4>1 DEF TypeOK, Descriptor
      <4>3. /\ Rx_State_Flags[x] = InRing
            /\ \A j \in Ring : Rx_Buffer_Descriptors[j].address = x => j = i
        BY <1>3, <2>2, <4>1 DEF PlacesFlagged
      <4>4. Rx_State_Flags'[x] = InRing
        BY <1>7, <4>2, <4>3 DEF TypeOK
      <4> QED BY <1>6, <4>1, <4>3, <4>4
    <3> QED BY <3>1, <3>2
  <2>3. ASSUME NEW i \in 1 .. Len(Rx_Packet_Queue)
        PROVE  Rx_State_Flags'[Rx_Packet_Queue[i]] = InQueue
    <3>1. Rx_State_Flags[Rx_Packet_Queue[i]] = InQueue /\ Rx_Packet_Queue[i] \in Packets
      BY <1>3, Numbers DEF PlacesFlagged
    <3>2. Rx_Packet_Queue[i] # p
      BY <3>1, FlagsDiffer
    <3> QED BY <1>7, <3>1, <3>2 DEF TypeOK
  <2>4. received' # Null_Address => Rx_State_Flags'[received'] = InUse /\ received' \notin handed'
    BY <1>3, <1>7 DEF PlacesFlagged, TypeOK
  <2>5. \A x \in handed' : Rx_State_Flags'[x] = InUse
    BY <1>3, <1>7 DEF PlacesFlagged, TypeOK
  <2>6. Rx_Packet_Queue' = Rx_Packet_Queue
    BY DEF queue
  <2> QED BY <1>3, <2>2, <2>3, <2>4, <2>5, <2>6 DEF PlacesFlagged
<1>10. FlagsPlaced'
  <2> SUFFICES ASSUME NEW x \in Packets
               PROVE  \/ /\ Rx_State_Flags'[x] = InRing
                         /\ \E i \in Ring : Rx_Buffer_Descriptors'[i].address = x
                      \/ /\ Rx_State_Flags'[x] = InQueue
                         /\ \E i \in 1 .. Len(Rx_Packet_Queue') : Rx_Packet_Queue'[i] = x
                      \/ /\ Rx_State_Flags'[x] = InUse
                         /\ received' = x \/ x \in handed'
    BY DEF FlagsPlaced
  <2>1. CASE x = p
    BY <1>2, <1>6, <1>7, <2>1 DEF TypeOK
  <2>2. CASE x # p
    <3>1. Rx_State_Flags'[x] = Rx_State_Flags[x]
      BY <1>7, <2>2 DEF TypeOK
    <3>2. x # Null_Address
      BY Numbers
    <3>3. (\E i \in Ring : Rx_Buffer_Descriptors[i].address = x) =>
             \E i \in Ring : Rx_Buffer_Descriptors'[i].address = x
      BY <1>5, <1>6, <3>2
    <3>4. received = x \/ x \in handed => received' = x \/ x \in handed'
      BY <2>2
    <3> QED BY <1>3, <3>1, <3>3, <3>4 DEF FlagsPlaced, queue
  <2> QED BY <2>1, <2>2
<1> QED BY <1>2, <1>3, <1>4, <1>6, <1>7, <1>8, <1>9, <1>10, Places DEF Located

\* Recycle_Rx_Packet, called by the receiver task or above it.
LEMMA RecycleStep ==
  ASSUME RxInv, Recycle \/ \E a \in AppTasks : AppRecycle(a)
  PROVE  RxInv'
<1> USE DEF RxInv
<1>1. CASE Recycle
  <2>1. /\ handler = "idle" /\ received # Null_Address /\ received \in Packets
        /\ Atomic_Repost_Rx_Packet(received) /\ received' = Null_Address /\ handed' = handed
        /\ receiver' = "activating" /\ receiver = "processing"
        /\ UNCHANGED <<queue, handler, hardware, app>>
    BY <1>1 DEF Recycle, TasksRun, Signals, TypeOK
  <2>2. Rx_State_Flags[received] = InUse /\ handed' = handed \ {received}
    BY <2>1 DEF Located, PlacesFlagged
  <2>3. /\ WindowInv' /\ PacketsCounted' /\ Located'
        /\ Rx_Buffer_Descriptors' \in [Ring -> Descriptor]
        /\ Rx_State_Flags' \in [Packets -> SUBSET Flags]
        /\ Rx_Ring_Read_Cursor' \in Ring /\ Rx_Ring_Write_Cursor' \in Ring
        /\ Rx_Ring_Entries_Filled' \in 0 .. N
    BY <2>1, <2>2, RepostStep
  <2>4. TypeOK'
    BY <2>1, <2>3 DEF TypeOK, queue, hardware, N
  <2>5. Signals' /\ DmaActive'
    BY <2>1 DEF Signals, DmaActive, Activating, queue, hardware
  <2> QED BY <2>3, <2>4, <2>5
<1>2. CASE \E a \in AppTasks : AppRecycle(a)
  <2>1. PICK a \in AppTasks : AppRecycle(a)
    BY <1>2
  <2>2. PICK p \in handed : Atomic_Repost_Rx_Packet(p) /\ handed' = handed \ {p}
    BY <2>1 DEF AppRecycle
  <2>3. /\ handler = "idle" /\ p \in Packets /\ app' = [app EXCEPT ![a] = "activating"]
        /\ UNCHANGED <<queue, receiver, received, handler, hardware>>
    BY <2>1, <2>2 DEF AppRecycle, TasksRun, TypeOK
  <2>4. Rx_State_Flags[p] = InUse /\ received # p
    BY <2>2, <2>3, Numbers DEF Located, PlacesFlagged
  <2>5. /\ WindowInv' /\ PacketsCounted' /\ Located'
        /\ Rx_Buffer_Descriptors' \in [Ring -> Descriptor]
        /\ Rx_State_Flags' \in [Packets -> SUBSET Flags]
        /\ Rx_Ring_Read_Cursor' \in Ring /\ Rx_Ring_Write_Cursor' \in Ring
        /\ Rx_Ring_Entries_Filled' \in 0 .. N
    BY <2>2, <2>3, <2>4, RepostStep
  <2>6. TypeOK'
    BY <2>2, <2>3, <2>5 DEF TypeOK, queue, hardware, N
  <2>7. Signals'
    BY <2>3 DEF Signals, queue
  <2>8. app'[a] = "activating"
    BY <2>3 DEF TypeOK
  <2>9. DmaActive'
    BY <2>8 DEF DmaActive, Activating
  <2> QED BY <2>5, <2>6, <2>7, <2>9
<1> QED BY <1>1, <1>2

-----------------------------------------------------------------------------
(* The invariant and what follows from it *)

\* The invariant holds initially and every step preserves it.
LEMMA RxInvCorrect == Spec => []RxInv
<1>1. ASSUME Init PROVE RxInv
  <2>1. N \in Nat \ {0} /\ Net_Max_Rx_Packets = N /\ Ring = 1 .. N /\ 1 \in Ring
    BY RingNotEmpty DEF N, Ring
  <2>2. TypeOK
    <3>1. Rx_Buffer_Descriptors \in [Ring -> Descriptor]
      BY <1>1 DEF Init, Descriptor, Packets
    <3>2. Rx_State_Flags \in [Packets -> SUBSET Flags]
      BY <1>1 DEF Init, InRing, Flags
    <3>3. Rx_Packet_Queue \in Seq(Packets) /\ app \in [AppTasks -> {"running", "activating"}]
      BY <1>1 DEF Init
    <3>4. /\ received \in Packets \cup {Null_Address} /\ handed \in SUBSET Packets
          /\ receiver \in {"suspending", "suspended", "woken", "processing", "activating"}
          /\ handler \in {"idle", "reading_EIR", "clearing_EIR", "draining", "assert_failed"}
          /\ Not_Empty_Condvar \in BOOLEAN /\ RXF \in BOOLEAN /\ RDAR \in BOOLEAN
      BY <1>1 DEF Init
    <3>5. /\ Rx_Ring_Write_Cursor \in Ring /\ Rx_Ring_Read_Cursor \in Ring /\ dma \in Ring
          /\ Rx_Ring_Entries_Filled \in 0 .. Net_Max_Rx_Packets
      BY <1>1, <2>1 DEF Init
    <3> QED BY <3>1, <3>2, <3>3, <3>4, <3>5 DEF TypeOK
  <2>3. Window(0)
    <3>1. Place(1, 0) = 1 /\ Place(1, N) = 1 /\ \A k \in 0 .. N : Place(1, k) \in Ring
      BY <2>1, Places
    <3>2. ASSUME NEW k \in 0 .. N - 1
          PROVE  At(k).empty /\ At(k).interrupt /\ At(k).address # Null_Address
      <4>1. Place(1, k) \in Ring
        BY <2>1, <3>1
      <4>2. At(k) = [address |-> Place(1, k), empty |-> TRUE, error |-> FALSE, interrupt |-> TRUE]
        BY <1>1, <4>1 DEF Init, At
      <4> QED BY <2>1, <4>1, <4>2 DEF Null_Address
    <3> QED BY <1>1, <2>1, <3>1, <3>2 DEF Init, Window
  <2>4. WindowInv
    BY <2>3 DEF WindowInv
  <2>5. PacketsCounted /\ Signals /\ DmaActive
    BY <1>1, <2>1, FS_EmptySet DEF Init, PacketsCounted, Signals, DmaActive
  <2>6. PlacesFlagged /\ FlagsPlaced
    <3>1. \A i \in Ring : Rx_Buffer_Descriptors[i].address = i /\ Rx_State_Flags[i] = InRing
      BY <1>1 DEF Init, Packets
    <3>2. PlacesFlagged
      <4>1. Len(Rx_Packet_Queue) = 0 /\ received = Null_Address /\ handed = {}
        BY <1>1 DEF Init
      <4>2. \A i \in 1 .. Len(Rx_Packet_Queue) : FALSE
        BY <4>1
      <4> QED BY <3>1, <4>1, <4>2 DEF PlacesFlagged
    <3>3. FlagsPlaced
      BY <3>1 DEF FlagsPlaced, Packets
    <3> QED BY <3>2, <3>3
  <2> QED BY <2>2, <2>4, <2>5, <2>6 DEF RxInv, Located
<1>2. ASSUME RxInv, UNCHANGED vars PROVE RxInv'
  <2>1. TypeOK' /\ PacketsCounted' /\ Signals' /\ DmaActive'
    BY <1>2 DEF RxInv, vars, ring, queue, tasks, hardware, TypeOK, PacketsCounted, Signals,
                DmaActive, Activating
  <2>2. WindowInv' /\ Located'
    BY <1>2, WindowStays, LocatedStays DEF vars, ring, queue, tasks, hardware
  <2> QED BY <2>1, <2>2 DEF RxInv
<1>3. RxInv /\ [Next]_vars => RxInv'
  BY <1>2, DmaReceiveStep, DmaStopStep, QuietHandlerStep, DrainOneStep, DrainBadStep,
     QuietTaskStep, TakePacketStep, HandOverStep, RecycleStep
     DEF Next, Dma, Handler, Receiver
<1> QED BY <1>1, <1>3, PTL DEF Spec

\* Every variable of the receive path keeps its type; in particular the ring never
\* counts more descriptors than it has.
THEOREM TypeCorrect == Spec => []TypeOK
<1>1. RxInv => TypeOK
  BY DEF RxInv
<1> QED BY <1>1, RxInvCorrect, PTL

\* The Rx ring is a window whatever its size, and whatever tasks repost packets while
\* the DMA engine fills descriptors and the handler drains them.
THEOREM RingCorrect == Spec => []RingIsWindow
<1>1. ASSUME RxInv, handler # "assert_failed" PROVE RingIsWindow
  <2>1. PICK filled \in Nat : Window(filled)
    BY <1>1 DEF RxInv, WindowInv
  <2>2. \A k : FromRead(k) = Place(Rx_Ring_Read_Cursor, k)
    BY DEF FromRead, Place, N
  <2>3. /\ Rx_Ring_Write_Cursor = FromRead(Rx_Ring_Entries_Filled) /\ dma = FromRead(filled)
        /\ filled \in 0 .. Rx_Ring_Entries_Filled
    BY <2>1, <2>2 DEF Window
  <2>4. ASSUME NEW k \in 0 .. Net_Max_Rx_Packets - 1,
               NEW desc, desc = Rx_Buffer_Descriptors[FromRead(k)]
        PROVE  /\ (desc.address # Null_Address) = (k < Rx_Ring_Entries_Filled)
               /\ desc.interrupt = (k < Rx_Ring_Entries_Filled)
               /\ desc.empty = (filled <= k /\ k < Rx_Ring_Entries_Filled)
    <3>1. desc = At(k) /\ k \in 0 .. N - 1
      BY <2>2, <2>4 DEF At, N
    <3>2. /\ desc.empty <=> filled <= k /\ k < Rx_Ring_Entries_Filled
          /\ desc.address # Null_Address <=> k < Rx_Ring_Entries_Filled
          /\ desc.interrupt <=> k < Rx_Ring_Entries_Filled
      BY <1>1, <2>1, <3>1 DEF Window
    <3>3. Place(Rx_Ring_Read_Cursor, k) \in Ring
      BY <1>1, <3>1, FirstPlace
    <3>4. desc \in Descriptor
      BY <1>1, <3>1, <3>3 DEF RxInv, TypeOK, At
    <3>5. desc.interrupt \in BOOLEAN /\ desc.empty \in BOOLEAN
      BY <3>4 DEF Descriptor
    <3> QED BY <3>2, <3>5
  <2> QED BY <2>3, <2>4 DEF RingIsWindow
<1>2. RxInv => RingIsWindow
  BY <1>1 DEF RingIsWindow
<1> QED BY <1>2, RxInvCorrect, PTL

\* The places FlagsTellPlace counts.
Slots(p)  == {i \in Ring : Rx_Buffer_Descriptors[i].address = p}
Queued(p) == {i \in 1 .. Len(Rx_Packet_Queue) : Rx_Packet_Queue[i] = p}
Users(p)  == (IF received = p THEN {"receiver"} ELSE {}) \cup
             (IF p \in handed THEN {"layers above"} ELSE {})

\* The flags of every packet tell where it is, and it is there once: no interleaving
\* of DMA engine, handler and tasks loses a packet or posts it twice.
THEOREM FlagsCorrect == Spec => []FlagsTellPlace
<1>1. ASSUME RxInv, handler # "assert_failed", NEW p \in Packets
      PROVE  \/ /\ Rx_State_Flags[p] = InRing
                /\ Cardinality(Slots(p)) = 1 /\ Queued(p) = {} /\ Users(p) = {}
             \/ /\ Rx_State_Flags[p] = InQueue
                /\ Slots(p) = {} /\ Cardinality(Queued(p)) = 1 /\ Users(p) = {}
             \/ /\ Rx_State_Flags[p] = InUse
                /\ Slots(p) = {} /\ Queued(p) = {} /\ Cardinality(Users(p)) = 1
  <2>1. PlacesFlagged /\ FlagsPlaced /\ p # Null_Address
    BY <1>1, Numbers DEF RxInv, Located
  <2>2. Rx_State_Flags[p] # InRing => Slots(p) = {}
    BY <2>1 DEF PlacesFlagged, Slots
  <2>3. Rx_State_Flags[p] # InQueue => Queued(p) = {}
    BY <2>1 DEF PlacesFlagged, Queued
  <2>4. Rx_State_Flags[p] # InUse => Users(p) = {}
    BY <2>1 DEF PlacesFlagged, Users
  <2>5. CASE Rx_State_Flags[p] = InRing
    <3>1. PICK i \in Ring : Rx_Buffer_Descriptors[i].address = p
      BY <2>1, <2>5, FlagsDiffer DEF FlagsPlaced
    <3>2. Slots(p) = {i}
      BY <2>1, <3>1 DEF PlacesFlagged, Slots
    <3>3. Cardinality(Slots(p)) = 1
      BY <3>2, FS_Singleton
    <3> QED BY <2>3, <2>4, <2>5, <3>3, FlagsDiffer
  <2>6. CASE Rx_State_Flags[p] = InQueue
    <3>1. PICK i \in 1 .. Len(Rx_Packet_Queue) : Rx_Packet_Queue[i] = p
      BY <2>1, <2>6, FlagsDiffer DEF FlagsPlaced
    <3>2. Queued(p) = {i}
      BY <2>1, <3>1 DEF PlacesFlagged, Queued
    <3>3. Cardinality(Queued(p)) = 1
      BY <3>2, FS_Singleton
    <3> QED BY <2>2, <2>4, <2>6, <3>3, FlagsDiffer
  <2>7. CASE Rx_State_Flags[p] = InUse
    <3>1. (received = p /\ p \notin handed) \/ (received # p /\ p \in handed)
      BY <2>1, <2>7, FlagsDiffer DEF FlagsPlaced, PlacesFlagged
    <3>2. Users(p) = {"receiver"} \/ Users(p) = {"layers above"}
      BY <3>1 DEF Users
    <3>3. Cardinality(Users(p)) = 1
      BY <3>2, FS_Singleton
    <3> QED BY <2>2, <2>3, <2>7, <3>3, FlagsDiffer
  <2> QED BY <2>1, <2>5, <2>6, <2>7 DEF FlagsPlaced
<1>2. RxInv => FlagsTellPlace
  BY <1>1 DEF FlagsTellPlace, Slots, Queued, Users, InQueue, InUse
<1> QED BY <1>2, RxInvCorrect, PTL

\* Coalesced signals never stop reception for good, with any number of packets: the
\* receiver task waits only while some packet can still arrive, and each signal has
\* a packet.
THEOREM SignalsCorrect == Spec => []ReceiverNeverStarves
<1>1. RxInv => ReceiverNeverStarves
  <2> SUFFICES ASSUME RxInv PROVE ReceiverNeverStarves
    OBVIOUS
  <2> QED BY Numbers DEF RxInv, Signals, PacketsCounted, ReceiverNeverStarves, N
<1> QED BY <1>1, RxInvCorrect, PTL

\* The write of RDAR that restarts the DMA engine is never lost against its stop: if
\* the engine rests beside an empty descriptor, a task has the write still to do.
THEOREM ReceptionIsActive == Spec => []ReceptionNeverForgotten
<1>1. RxInv => ReceptionNeverForgotten
  BY DEF RxInv, DmaActive, Activating, ReceptionNeverForgotten
<1> QED BY <1>1, RxInvCorrect, PTL

\* No received frame waits unannounced: whenever the handler is idle and a descriptor
\* holds a frame, the receive event is set and interrupts the CPU.  This is the safety
\* half of FrameLeavesRing.
FramesAnnounced ==
  handler = "idle" /\ ~RXF =>
    \A i \in Ring : LET desc == Rx_Buffer_Descriptors[i]
                    IN  desc.address # Null_Address => desc.empty

\* No received frame waits unannounced, for any ring and any tasks.
THEOREM FramesAreAnnounced == Spec => []FramesAnnounced
<1>1. ASSUME RxInv, handler = "idle", ~RXF, NEW i \in Ring,
             Rx_Buffer_Descriptors[i].address # Null_Address
      PROVE  Rx_Buffer_Descriptors[i].empty
  <2>1. PICK filled \in Nat : Window(filled)
    BY <1>1 DEF RxInv, WindowInv
  <2>2. filled = 0
    BY <1>1, <2>1 DEF Window
  <2>3. Rx_Ring_Read_Cursor \in Ring
    BY <1>1 DEF RxInv, TypeOK
  <2>4. PICK k \in 0 .. N - 1 : Place(Rx_Ring_Read_Cursor, k) = i
    BY <2>3, Places
  <2>5. At(k).address # Null_Address
    BY <1>1, <2>4 DEF At
  <2>6. k < Rx_Ring_Entries_Filled
    BY <1>1, <2>1, <2>5 DEF Window
  <2>7. filled <= k
    BY <1>1, <2>2, Numbers
  <2>8. At(k).empty
    BY <2>1, <2>6, <2>7 DEF Window
  <2> QED BY <2>4, <2>8 DEF At
<1>2. RxInv => FramesAnnounced
  BY <1>1 DEF FramesAnnounced
<1> QED BY <1>2, RxInvCorrect, PTL

\* The DMA engine has reported no frame as bad.
NoFrameBad == /\ \A i \in Ring : ~Rx_Buffer_Descriptors[i].error
              /\ handler # "assert_failed"

\* Bad frames alone bring the assertion of Enqueue_Rx_Packet to fail: if the MAC reports
\* none, every packet that arrives reaches the queue without a flag, and the system
\* never halts.
THEOREM GoodFramesNeverHalt ==
  ASSUME TRUE \notin FrameErrors
  PROVE  Spec => []EnqueueAssertion
<1>1. Init => NoFrameBad
  BY DEF Init, NoFrameBad
<1>2. RxInv /\ NoFrameBad /\ [Next]_vars => NoFrameBad'
  <2> SUFFICES ASSUME RxInv, NoFrameBad, [Next]_vars PROVE NoFrameBad'
    OBVIOUS
  <2>1. Rx_Buffer_Descriptors \in [Ring -> Descriptor] /\ Rx_Ring_Read_Cursor \in Ring
    BY DEF RxInv, TypeOK
  <2>2. ASSUME NEW bad \in FrameErrors, DmaReceive(bad) PROVE NoFrameBad'
    <3>1. ~bad
      BY FrameErrorsAreBooleans
    <3> QED BY <2>1, <2>2, <3>1 DEF DmaReceive, NoFrameBad, Descriptor
  <2>3. CASE DmaStop \/ Interrupt \/ ReadEIR \/ ClearEIR \/ DrainDone \/ UNCHANGED vars
    BY <2>3 DEF DmaStop, Interrupt, ReadEIR, ClearEIR, DrainDone, vars, ring, NoFrameBad
  <2>4. CASE DrainOne
    BY <2>1, <2>4 DEF DrainOne, NoFrameBad, Descriptor
  <2>5. CASE DrainBad
    BY <2>1, <2>5 DEF DrainBad, NoFrameBad
  <2>6. CASE Suspend \/ TakePacket \/ HandOver \/ Activate \/ \E a \in AppTasks : AppActivate(a)
    BY <2>6 DEF Suspend, TakePacket, HandOver, Activate, AppActivate, ring, NoFrameBad
  <2>7. CASE Recycle \/ \E a \in AppTasks : AppRecycle(a)
    <3>1. PICK p : Atomic_Repost_Rx_Packet(p) /\ handler' = handler
      BY <2>7 DEF Recycle, AppRecycle
    <3> QED BY <2>1, <3>1 DEF Atomic_Repost_Rx_Packet, NoFrameBad, Descriptor
  <2> QED BY <2>2, <2>3, <2>4, <2>5, <2>6, <2>7 DEF Next, Dma, Handler, Receiver
<1>3. NoFrameBad => EnqueueAssertion
  BY DEF NoFrameBad, EnqueueAssertion
<1> QED BY <1>1, <1>2, <1>3, RxInvCorrect, PTL DEF Spec

=============================================================================
