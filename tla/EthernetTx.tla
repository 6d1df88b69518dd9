----------------------------- MODULE EthernetTx -----------------------------
(***************************************************************************)
(* Transmission of Ethernet frames: the pool of Tx packets of layer 2, the *)
(* ring of Tx buffer descriptors of the K64F Ethernet MAC, its DMA engine, *)
(* the transmit interrupt handler, and the tasks that allocate packets and *)
(* send them.                                                              *)
(*                                                                         *)
(* A task may hold a packet while it allocates another: Send_IPv4_Packet   *)
(* resolves the destination's MAC address after its caller has filled the  *)
(* packet, and Send_ARP_Request allocates one of its own.                  *)
(*                                                                         *)
(* As in EthernetRx, tasks move while the handler is idle, a region with   *)
(* interrupts disabled is one action, and the DMA engine moves any time.   *)
(* The free list is a queue of PacketQueue: a sequence and its signal.     *)
(***************************************************************************)
EXTENDS Integers, Sequences, FiniteSets

CONSTANTS Net_Max_Tx_Packets,  \* packets of the pool, descriptors of the ring
          Tasks                \* the tasks that send packets

ASSUME PoolNotEmpty == Net_Max_Tx_Packets \in Nat \ {0}
ASSUME FiniteTasks == IsFiniteSet(Tasks)

Ring         == 1 .. Net_Max_Tx_Packets
Packets      == Ring
Null_Address == 0

VARIABLES
  Tx_Buffer_Descriptors,   \* per descriptor: packet address and READY bit
  Tx_Ring_Write_Cursor, Tx_Ring_Read_Cursor, Tx_Ring_Entries_Filled,
  Tx_State_Flags,          \* the flags set in each packet
  Tx_Buffer_Descriptor_Index, \* the descriptor each packet was last given
  Free_List,               \* the free packets, oldest first
  Not_Empty_Condvar,       \* the signal of the free list
  task,                    \* the point each task has reached
  held,                    \* the packets each task has allocated, the newest last
  handler,                 \* the point the transmit interrupt handler has reached
  TXF,                     \* the transmit event of EIR
  TDAR,                    \* is the transmit DMA active?
  dma                      \* the descriptor the DMA engine uses next

ring     == <<Tx_Buffer_Descriptors, Tx_Ring_Write_Cursor, Tx_Ring_Read_Cursor,
              Tx_Ring_Entries_Filled>>
packets  == <<Tx_State_Flags, Tx_Buffer_Descriptor_Index>>
pool     == <<Free_List, Not_Empty_Condvar>>
hardware == <<TXF, TDAR, dma>>
vars     == <<ring, packets, pool, task, held, handler, hardware>>

Flags == {"Packet_In_Tx_Pool", "Packet_In_Tx_Transit", "Packet_In_Tx_Use_By_App",
          "Packet_Free_After_Tx_Complete"}

Allocated == {"Packet_In_Tx_Use_By_App", "Packet_Free_After_Tx_Complete"}

TypeOK ==
  /\ Tx_Buffer_Descriptors \in [Ring -> [address : Packets \cup {Null_Address}, ready : BOOLEAN]]
  /\ Tx_Ring_Write_Cursor \in Ring
  /\ Tx_Ring_Read_Cursor \in Ring
  /\ Tx_Ring_Entries_Filled \in 0 .. Net_Max_Tx_Packets
  /\ Tx_State_Flags \in [Packets -> SUBSET Flags]
  /\ Tx_Buffer_Descriptor_Index \in [Packets -> Ring]
  /\ Free_List \in Seq(Packets)
  /\ Not_Empty_Condvar \in BOOLEAN
  /\ task \in [Tasks -> {"running", "suspending", "suspended", "woken", "activating",
                         "signalling", "program_error"}]
  /\ held \in [Tasks -> Seq(Packets)]
  /\ handler \in {"idle", "reading_EIR", "clearing_EIR", "draining"}
  /\ TXF \in BOOLEAN
  /\ TDAR \in BOOLEAN
  /\ dma \in Ring

\* The state in which Initialize_Tx_Packet_Pool and Start_Mac_Device leave it: the
\* packets were enqueued one by one, which leaves one signal for all of them.
Init ==
  /\ Tx_Buffer_Descriptors = [i \in Ring |-> [address |-> Null_Address, ready |-> FALSE]]
  /\ Tx_Ring_Write_Cursor = 1
  /\ Tx_Ring_Read_Cursor = 1
  /\ Tx_Ring_Entries_Filled = 0
  /\ Tx_State_Flags = [p \in Packets |-> {"Packet_In_Tx_Pool"}]
  /\ Tx_Buffer_Descriptor_Index = [p \in Packets |-> 1]
  /\ Free_List = [i \in Ring |-> i]
  /\ Not_Empty_Condvar = TRUE
  /\ task = [t \in Tasks |-> "running"]
  /\ held = [t \in Tasks |-> <<>>]
  /\ handler = "idle"
  /\ TXF = FALSE
  /\ TDAR = FALSE
  /\ dma = 1

\* The descriptor after i; the WRAP bit of the last one leads to the first.
After(i) == IF i = Net_Max_Tx_Packets THEN 1 ELSE i + 1

\* The handler preempts tasks, and a Program_Error stops the program.
TasksRun == handler = "idle" /\ \A t \in Tasks : task[t] # "program_error"

Newest(s)       == s[Len(s)]
AllButNewest(s) == SubSeq(s, 1, Len(s) - 1)

\* Set_True (Not_Empty_Condvar), by a caller that leaves the tasks at points.
SetNotEmpty(points) ==
  \/ /\ \E t \in Tasks : points[t] = "suspended" /\ task' = [points EXCEPT ![t] = "woken"]
     /\ UNCHANGED Not_Empty_Condvar
  \/ /\ \A t \in Tasks : points[t] # "suspended"
     /\ task' = points
     /\ Not_Empty_Condvar' = TRUE

\* Mutant: the packet keeps the flag of its last transmission.
FreePacketKeepsFlag(p) ==
  /\ Tx_State_Flags' = [Tx_State_Flags EXCEPT
                          ![p] = {"Packet_In_Tx_Pool", "Packet_Free_After_Tx_Complete"}]
  /\ Free_List' = Append(Free_List, p)

\* Release_Tx_Packet up to the signal: the packet is free again.
FreePacket(p) ==
  /\ Tx_State_Flags' = [Tx_State_Flags EXCEPT ![p] = {"Packet_In_Tx_Pool"}]
  /\ Free_List' = Append(Free_List, p)

-----------------------------------------------------------------------------
(* Allocate_Tx_Packet *)

\* A task asks for a packet, or for a second one to send an ARP request.
Allocate(t) ==
  /\ TasksRun /\ task[t] = "running"
  /\ Len(held[t]) < 2
  /\ task' = [task EXCEPT ![t] = "suspending"]
  /\ UNCHANGED <<ring, packets, pool, held, handler, hardware>>

\* Suspend_Until_True (Not_Empty_Condvar): a second waiter gets Program_Error.
Suspend(t) ==
  /\ TasksRun /\ task[t] = "suspending"
  /\ \/ /\ \E u \in Tasks : task[u] = "suspended"
        /\ task' = [task EXCEPT ![t] = "program_error"]
        /\ UNCHANGED Not_Empty_Condvar
     \/ /\ \A u \in Tasks : task[u] # "suspended"
        /\ task' = [task EXCEPT ![t] = IF Not_Empty_Condvar THEN "woken" ELSE "suspended"]
        /\ Not_Empty_Condvar' = FALSE
  /\ UNCHANGED <<ring, packets, Free_List, held, handler, hardware>>

\* The head of the free list becomes the task's, to be freed once transmitted.
Take(t) ==
  /\ TasksRun /\ task[t] = "woken"
  /\ Free_List # <<>>
  /\ Free_List' = Tail(Free_List)
  /\ Tx_State_Flags' = [Tx_State_Flags EXCEPT ![Head(Free_List)] = Allocated]
  /\ held' = [held EXCEPT ![t] = Append(@, Head(Free_List))]
  /\ task' = [task EXCEPT ![t] = "running"]
  /\ UNCHANGED <<ring, Tx_Buffer_Descriptor_Index, Not_Empty_Condvar, handler, hardware>>

-----------------------------------------------------------------------------
(* Start_Tx_Packet_Transmit *)

\* Mutant: the write cursor stays on the descriptor just filled.
PostAndStay(p) ==
  /\ Tx_Buffer_Descriptors' = [Tx_Buffer_Descriptors EXCEPT
                                 ![Tx_Ring_Write_Cursor] = [address |-> p, ready |-> TRUE]]
  /\ Tx_Buffer_Descriptor_Index' = [Tx_Buffer_Descriptor_Index EXCEPT
                                      ![p] = Tx_Ring_Write_Cursor]
  /\ Tx_Ring_Entries_Filled' = Tx_Ring_Entries_Filled + 1
  /\ UNCHANGED <<Tx_Ring_Write_Cursor, Tx_Ring_Read_Cursor>>

\* The packet gets the descriptor at the write cursor.
Post(p) ==
  /\ Tx_Buffer_Descriptors' = [Tx_Buffer_Descriptors EXCEPT
                                 ![Tx_Ring_Write_Cursor] = [address |-> p, ready |-> TRUE]]
  /\ Tx_Buffer_Descriptor_Index' = [Tx_Buffer_Descriptor_Index EXCEPT
                                      ![p] = Tx_Ring_Write_Cursor]
  /\ Tx_Ring_Write_Cursor' = After(Tx_Ring_Write_Cursor)
  /\ Tx_Ring_Entries_Filled' = Tx_Ring_Entries_Filled + 1
  /\ UNCHANGED Tx_Ring_Read_Cursor

\* Atomic_Start_Tx_Packet_Transmit.  The task does not touch the packet again.
StartTransmit(t) ==
  LET p == Newest(held[t])
  IN  /\ TasksRun /\ task[t] = "running"
      /\ held[t] # <<>>
      /\ Post(p)
      /\ Tx_State_Flags' = [Tx_State_Flags EXCEPT ![p] = @ \cup {"Packet_In_Tx_Transit"}]
      /\ held' = [held EXCEPT ![t] = AllButNewest(@)]
      /\ task' = [task EXCEPT ![t] = "activating"]
      /\ UNCHANGED <<pool, handler, hardware>>

\* Mutant: TDAR is not written when the ring held a packet already.
ActivateIdleRing(t) ==
  /\ TasksRun /\ task[t] = "activating"
  /\ TDAR' = (TDAR \/ Tx_Ring_Entries_Filled = 0)
  /\ task' = [task EXCEPT ![t] = "running"]
  /\ UNCHANGED <<ring, packets, pool, held, handler, TXF, dma>>

\* The write of TDAR follows with interrupts enabled.
Activate(t) ==
  /\ TasksRun /\ task[t] = "activating"
  /\ TDAR' = TRUE
  /\ task' = [task EXCEPT ![t] = "running"]
  /\ UNCHANGED <<ring, packets, pool, held, handler, TXF, dma>>

-----------------------------------------------------------------------------
(* Release_Tx_Packet *)

\* Send_IPv4_Packet finds no MAC address for the destination and frees the packet ...
Discard(t) ==
  LET p == Newest(held[t])
  IN  /\ TasksRun /\ task[t] = "running"
      /\ held[t] # <<>>
      /\ FreePacket(p)
      /\ held' = [held EXCEPT ![t] = AllButNewest(@)]
      /\ task' = [task EXCEPT ![t] = "signalling"]
      /\ UNCHANGED <<ring, Tx_Buffer_Descriptor_Index, Not_Empty_Condvar, handler, hardware>>

\* Mutant: only a packet that finds the free list empty is signalled.
SignalIfWasEmpty(t) ==
  /\ TasksRun /\ task[t] = "signalling"
  /\ IF Len(Free_List) = 1
     THEN SetNotEmpty([task EXCEPT ![t] = "running"])
     ELSE task' = [task EXCEPT ![t] = "running"] /\ UNCHANGED Not_Empty_Condvar
  /\ UNCHANGED <<ring, packets, Free_List, held, handler, hardware>>

\* ... and signals the free list, once interrupts are enabled again.
Signal(t) ==
  /\ TasksRun /\ task[t] = "signalling"
  /\ SetNotEmpty([task EXCEPT ![t] = "running"])
  /\ UNCHANGED <<ring, packets, Free_List, held, handler, hardware>>

-----------------------------------------------------------------------------
(* The DMA engine *)

\* The frame of a ready descriptor is on the wire.
DmaTransmit ==
  /\ TDAR
  /\ Tx_Buffer_Descriptors[dma].ready
  /\ Tx_Buffer_Descriptors' = [Tx_Buffer_Descriptors EXCEPT ![dma].ready = FALSE]
  /\ TXF' = TRUE
  /\ dma' = After(dma)
  /\ UNCHANGED <<Tx_Ring_Write_Cursor, Tx_Ring_Read_Cursor, Tx_Ring_Entries_Filled,
                 packets, pool, task, held, handler, TDAR>>

\* The engine finds no ready descriptor and stops, until TDAR is written again.
DmaStop ==
  /\ TDAR
  /\ ~Tx_Buffer_Descriptors[dma].ready
  /\ TDAR' = FALSE
  /\ UNCHANGED <<ring, packets, pool, task, held, handler, TXF, dma>>

-----------------------------------------------------------------------------
(* Ethernet_Mac_Transmit_Irq_Handler *)

Interrupt ==
  /\ TasksRun /\ TXF
  /\ handler' = "reading_EIR"
  /\ UNCHANGED <<ring, packets, pool, task, held, hardware>>

\* exit when EIR_Value.TXF = 0
ReadEIR ==
  /\ handler = "reading_EIR"
  /\ handler' = IF TXF THEN "clearing_EIR" ELSE "idle"
  /\ UNCHANGED <<ring, packets, pool, task, held, hardware>>

\* Mutant: the last posted descriptor is taken for an empty ring.
ClearEIRLeavesLast ==
  /\ handler = "clearing_EIR"
  /\ TXF' = FALSE
  /\ handler' = IF Tx_Ring_Entries_Filled <= 1 THEN "idle" ELSE "draining"
  /\ UNCHANGED <<ring, packets, pool, task, held, TDAR, dma>>

\* The event is cleared before the ring is drained; an empty ring ends the handler.
ClearEIR ==
  /\ handler = "clearing_EIR"
  /\ TXF' = FALSE
  /\ handler' = IF Tx_Ring_Entries_Filled = 0 THEN "idle" ELSE "draining"
  /\ UNCHANGED <<ring, packets, pool, task, held, TDAR, dma>>

\* Drain_One_Tx_Buffer_Descriptor finds a descriptor not transmitted yet.
DrainDone ==
  /\ handler' = "reading_EIR"
  /\ UNCHANGED <<ring, packets, pool, task, held, hardware>>

\* A transmitted packet goes back to the pool, and a waiting task is woken.
DrainOne ==
  LET p == Tx_Buffer_Descriptors[Tx_Ring_Read_Cursor].address
  IN  /\ Tx_Buffer_Descriptors' = [Tx_Buffer_Descriptors EXCEPT
                                     ![Tx_Ring_Read_Cursor].address = Null_Address]
      /\ FreePacket(p)
      /\ SetNotEmpty(task)
      /\ Tx_Ring_Read_Cursor' = After(Tx_Ring_Read_Cursor)
      /\ Tx_Ring_Entries_Filled' = Tx_Ring_Entries_Filled - 1
      /\ handler' = IF Tx_Ring_Entries_Filled = 1 THEN "reading_EIR" ELSE "draining"
      /\ UNCHANGED <<Tx_Ring_Write_Cursor, Tx_Buffer_Descriptor_Index, held, hardware>>

\* One round of Drain_Tx_Ring.  The test is the code's; with one packet out of the
\* pool at a time, an event finds no packet that is still to be transmitted.
Drain ==
  /\ handler = "draining"
  /\ IF Tx_Buffer_Descriptors[Tx_Ring_Read_Cursor].ready THEN DrainDone ELSE DrainOne

-----------------------------------------------------------------------------
TaskStep(t) == Suspend(t) \/ Take(t) \/ Activate(t) \/ Signal(t)
Dma         == DmaTransmit \/ DmaStop
Handler     == Interrupt \/ ReadEIR \/ ClearEIR \/ Drain

Next == \/ \E t \in Tasks : Allocate(t) \/ StartTransmit(t) \/ Discard(t) \/ TaskStep(t)
        \/ Dma
        \/ Handler

Spec == Init /\ [][Next]_vars

\* The DMA engine transmits, the CPU serves a pending interrupt and runs the handler
\* to its end, a task that can run is scheduled, and a task that has a packet and is
\* not blocked sends it or drops it in the end.
Fairness == /\ WF_vars(Dma)
            /\ WF_vars(Handler)
            /\ \A t \in Tasks : /\ WF_vars(TaskStep(t))
                                /\ WF_vars(StartTransmit(t) \/ Discard(t))

FairSpec == Spec /\ Fairness

-----------------------------------------------------------------------------
(* Properties *)

\* The descriptor k places after the read cursor.
FromRead(k) == ((Tx_Ring_Read_Cursor - 1 + k) % Net_Max_Tx_Packets) + 1

\* The ring is a window: from the read cursor on, first the descriptors whose frame
\* is on the wire, then the ready ones, the DMA engine standing at the first of
\* these, and all others blank.  The count, the write cursor and the index kept in
\* each packet agree with it.  The assertions on cursors and descriptors in
\* Atomic_Start_Tx_Packet_Transmit and Drain_One_Tx_Buffer_Descriptor follow.
RingIsWindow ==
  /\ Tx_Ring_Write_Cursor = FromRead(Tx_Ring_Entries_Filled)
  /\ \E sent \in 0 .. Tx_Ring_Entries_Filled :
       /\ dma = FromRead(sent)
       /\ \A k \in 0 .. Net_Max_Tx_Packets - 1 :
            LET desc == Tx_Buffer_Descriptors[FromRead(k)]
            IN  /\ (desc.address # Null_Address) = (k < Tx_Ring_Entries_Filled)
                /\ desc.ready = (sent <= k /\ k < Tx_Ring_Entries_Filled)
                /\ desc.address # Null_Address =>
                     Tx_Buffer_Descriptor_Index[desc.address] = FromRead(k)

\* Every packet is in one place (free, with a task, or in a descriptor) and its
\* flags say which.  The assertions on flags in Allocate_Tx_Packet,
\* Release_Tx_Packet and Drain_One_Tx_Buffer_Descriptor follow.
FlagsTellPlace ==
  \A p \in Packets :
    LET slots == {i \in Ring : Tx_Buffer_Descriptors[i].address = p}
        free  == {i \in 1 .. Len(Free_List) : Free_List[i] = p}
        users == UNION {{<<t, i>> : i \in {j \in 1 .. Len(held[t]) : held[t][j] = p}} : t \in Tasks}
    IN  \/ /\ Tx_State_Flags[p] = {"Packet_In_Tx_Pool"}
           /\ slots = {} /\ Cardinality(free) = 1 /\ users = {}
        \/ /\ Tx_State_Flags[p] = Allocated
           /\ slots = {} /\ free = {} /\ Cardinality(users) = 1
        \/ /\ Tx_State_Flags[p] = Allocated \cup {"Packet_In_Tx_Transit"}
           /\ Cardinality(slots) = 1 /\ free = {} /\ users = {}

\* The pool hands out one packet at a time.  The signal of the free list is one
\* token: it is in the suspension object, with a task that was woken or is about to
\* signal, or it left with the one packet that is out of the pool.
OnePacketAtATime ==
  Cardinality({t \in Tasks : task[t] \in {"woken", "signalling"}})
    + (IF Not_Empty_Condvar THEN 1 ELSE 0)
    + (Net_Max_Tx_Packets - Len(Free_List)) = 1

\* The DMA engine never rests beside a ready descriptor unless a task is about to
\* write TDAR.
TransmissionNeverForgotten ==
  ~TDAR /\ (\E i \in Ring : Tx_Buffer_Descriptors[i].ready) =>
    \E t \in Tasks : task[t] = "activating"

\* A packet whose transmission has started comes back to the pool.
TransmittedComesBack ==
  \A p \in Packets :
    "Packet_In_Tx_Transit" \in Tx_State_Flags[p]
      ~> \/ "Packet_In_Tx_Pool" \in Tx_State_Flags[p]
         \/ \E t \in Tasks : task[t] = "program_error"

=============================================================================
