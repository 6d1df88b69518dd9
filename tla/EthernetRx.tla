----------------------------- MODULE EthernetRx -----------------------------
(***************************************************************************)
(* Reception of Ethernet frames: the ring of Rx buffer descriptors of the  *)
(* K64F Ethernet MAC, its DMA engine, the receive interrupt handler, the   *)
(* Rx packet queue of the layer-2 end point, its packet receiver task, and *)
(* the tasks of the layers above that give packets back to the ring.       *)
(*                                                                         *)
(* The CPU is a single core and the handler runs above every task, so a    *)
(* task moves only while the handler is idle; a region with interrupts     *)
(* disabled is one action.  The DMA engine moves at any time.  The queue   *)
(* is the abstract one that PacketQueue is shown to implement, with the    *)
(* binary signal that PacketQueue keeps beside the list.                   *)
(***************************************************************************)
EXTENDS Integers, Sequences, FiniteSets

CONSTANTS Net_Max_Rx_Packets,  \* packets of the end point, descriptors of the ring
          AppTasks,            \* the tasks above layer 2 that recycle packets
          FrameErrors          \* may the MAC report a frame as bad?  a set of BOOLEANs

ASSUME RingNotEmpty == Net_Max_Rx_Packets \in Nat \ {0}
ASSUME FrameErrorsAreBooleans == FrameErrors \subseteq BOOLEAN

Ring         == 1 .. Net_Max_Rx_Packets
Packets      == Ring          \* packet I starts in descriptor I
Null_Address == 0

VARIABLES
  Rx_Buffer_Descriptors,   \* per descriptor: packet address, EMPTY, error and interrupt bits
  Rx_Ring_Write_Cursor, Rx_Ring_Read_Cursor, Rx_Ring_Entries_Filled,
  Rx_State_Flags,          \* the flags set in each packet
  Rx_Packet_Queue,         \* the packets waiting for the receiver task, oldest first
  Not_Empty_Condvar,
  receiver,                \* the point Packet_Receiver_Task has reached
  received,                \* the packet it processes, or Null_Address
  handed,                  \* the packets it passed to the layers above
  app,                     \* the point each of their tasks has reached
  handler,                 \* the point the receive interrupt handler has reached
  RXF,                     \* the receive event of EIR
  RDAR,                    \* is the receive DMA active?
  dma                      \* the descriptor the DMA engine uses next

ring     == <<Rx_Buffer_Descriptors, Rx_Ring_Write_Cursor, Rx_Ring_Read_Cursor,
              Rx_Ring_Entries_Filled>>
queue    == <<Rx_Packet_Queue, Not_Empty_Condvar>>
tasks    == <<receiver, received, handed, app>>
hardware == <<RXF, RDAR, dma>>
vars     == <<ring, Rx_State_Flags, queue, tasks, handler, hardware>>

Flags == {"Packet_In_Rx_Pool", "Packet_In_Rx_Transit", "Packet_In_Rx_Use_By_App",
          "Packet_In_Rx_Queue", "Packet_Rx_Failed"}

InRing == {"Packet_In_Rx_Pool", "Packet_In_Rx_Transit"}

Descriptor == [address : Packets \cup {Null_Address}, empty : BOOLEAN,
               error : BOOLEAN, interrupt : BOOLEAN]

TypeOK ==
  /\ Rx_Buffer_Descriptors \in [Ring -> Descriptor]
  /\ Rx_Ring_Write_Cursor \in Ring
  /\ Rx_Ring_Read_Cursor \in Ring
  /\ Rx_Ring_Entries_Filled \in 0 .. Net_Max_Rx_Packets
  /\ Rx_State_Flags \in [Packets -> SUBSET Flags]
  /\ Rx_Packet_Queue \in Seq(Packets)
  /\ Not_Empty_Condvar \in BOOLEAN
  /\ receiver \in {"suspending", "suspended", "woken", "processing", "activating"}
  /\ received \in Packets \cup {Null_Address}
  /\ handed \in SUBSET Packets
  /\ app \in [AppTasks -> {"running", "activating"}]
  /\ handler \in {"idle", "reading_EIR", "clearing_EIR", "draining", "assert_failed"}
  /\ RXF \in BOOLEAN
  /\ RDAR \in BOOLEAN
  /\ dma \in Ring

\* The state in which Start_Mac_Device leaves the ring: every packet is posted.
Init ==
  /\ Rx_Buffer_Descriptors = [i \in Ring |-> [address |-> i, empty |-> TRUE,
                                              error |-> FALSE, interrupt |-> TRUE]]
  /\ Rx_Ring_Write_Cursor = 1
  /\ Rx_Ring_Read_Cursor = 1
  /\ Rx_Ring_Entries_Filled = Net_Max_Rx_Packets
  /\ Rx_State_Flags = [p \in Packets |-> InRing]
  /\ Rx_Packet_Queue = <<>>
  /\ Not_Empty_Condvar = FALSE
  /\ receiver = "suspending"
  /\ received = Null_Address
  /\ handed = {}
  /\ app = [a \in AppTasks |-> "running"]
  /\ handler = "idle"
  /\ RXF = FALSE
  /\ RDAR = TRUE
  /\ dma = 1

\* Mutant: the WRAP bit is missing, or read one descriptor late.
AfterNoWrap(i) == IF i > Net_Max_Rx_Packets THEN 1 ELSE i + 1

\* The descriptor after i; the WRAP bit of the last one leads to the first.
After(i) == IF i = Net_Max_Rx_Packets THEN 1 ELSE i + 1

TasksRun == handler = "idle"

-----------------------------------------------------------------------------
(* The DMA engine *)

\* A frame arrives: it is written to the next empty descriptor.
DmaReceive(bad) ==
  /\ RDAR
  /\ Rx_Buffer_Descriptors[dma].empty
  /\ Rx_Buffer_Descriptors' = [Rx_Buffer_Descriptors EXCEPT ![dma].empty = FALSE,
                                                            ![dma].error = bad]
  /\ RXF' = (RXF \/ Rx_Buffer_Descriptors[dma].interrupt)
  /\ dma' = After(dma)
  /\ UNCHANGED <<Rx_Ring_Write_Cursor, Rx_Ring_Read_Cursor, Rx_Ring_Entries_Filled,
                 Rx_State_Flags, queue, tasks, handler, RDAR>>

\* The engine finds no empty descriptor and stops, until RDAR is written again.
DmaStop ==
  /\ RDAR
  /\ ~Rx_Buffer_Descriptors[dma].empty
  /\ RDAR' = FALSE
  /\ UNCHANGED <<ring, Rx_State_Flags, queue, tasks, handler, RXF, dma>>

-----------------------------------------------------------------------------
(* Ethernet_Mac_Receive_Irq_Handler *)

\* RXF is unmasked in EIMR: the event interrupts whatever task runs.
Interrupt ==
  /\ handler = "idle"
  /\ RXF
  /\ handler' = "reading_EIR"
  /\ UNCHANGED <<ring, Rx_State_Flags, queue, tasks, hardware>>

\* exit when EIR_Value.RXF = 0
ReadEIR ==
  /\ handler = "reading_EIR"
  /\ handler' = IF RXF THEN "clearing_EIR" ELSE "idle"
  /\ UNCHANGED <<ring, Rx_State_Flags, queue, tasks, hardware>>

\* Mutant: the last posted descriptor is taken for an empty ring.
ClearEIRLeavesLast ==
  /\ handler = "clearing_EIR"
  /\ RXF' = FALSE
  /\ handler' = IF Rx_Ring_Entries_Filled <= 1 THEN "idle" ELSE "draining"
  /\ UNCHANGED <<ring, Rx_State_Flags, queue, tasks, RDAR, dma>>

\* The event is cleared before the ring is drained; an empty ring ends the handler.
ClearEIR ==
  /\ handler = "clearing_EIR"
  /\ RXF' = FALSE
  /\ handler' = IF Rx_Ring_Entries_Filled = 0 THEN "idle" ELSE "draining"
  /\ UNCHANGED <<ring, Rx_State_Flags, queue, tasks, RDAR, dma>>

\* Mutant: only a packet that finds the queue empty is signalled.
SignalIfWasEmpty(p) ==
  /\ Rx_Packet_Queue' = Append(Rx_Packet_Queue, p)
  /\ IF Rx_Packet_Queue # <<>> THEN UNCHANGED <<receiver, Not_Empty_Condvar>>
     ELSE IF receiver = "suspended" THEN receiver' = "woken" /\ UNCHANGED Not_Empty_Condvar
     ELSE Not_Empty_Condvar' = TRUE /\ UNCHANGED receiver

\* Enqueue_Network_Packet: the packet joins the queue, and the receiver is woken or
\* finds the signal later.
EnqueueAndSignal(p) ==
  /\ Rx_Packet_Queue' = Append(Rx_Packet_Queue, p)
  /\ IF receiver = "suspended"
     THEN receiver' = "woken" /\ UNCHANGED Not_Empty_Condvar
     ELSE Not_Empty_Condvar' = TRUE /\ UNCHANGED receiver

\* Drain_One_Rx_Buffer_Descriptor finds a descriptor the MAC still owns.
DrainDone ==
  /\ handler = "draining"
  /\ Rx_Buffer_Descriptors[Rx_Ring_Read_Cursor].empty
  /\ handler' = "reading_EIR"
  /\ UNCHANGED <<ring, Rx_State_Flags, queue, tasks, hardware>>

\* One received frame moves from the ring to the queue.
DrainOne ==
  LET p == Rx_Buffer_Descriptors[Rx_Ring_Read_Cursor].address
  IN  /\ handler = "draining"
      /\ ~Rx_Buffer_Descriptors[Rx_Ring_Read_Cursor].empty
      /\ ~Rx_Buffer_Descriptors[Rx_Ring_Read_Cursor].error
      /\ Rx_State_Flags' = [Rx_State_Flags EXCEPT ![p] = (@ \ InRing) \cup {"Packet_In_Rx_Queue"}]
      /\ Rx_Buffer_Descriptors' =
           [Rx_Buffer_Descriptors EXCEPT ![Rx_Ring_Read_Cursor].address = Null_Address,
                                         ![Rx_Ring_Read_Cursor].interrupt = FALSE]
      /\ EnqueueAndSignal(p)
      /\ Rx_Ring_Read_Cursor' = After(Rx_Ring_Read_Cursor)
      /\ Rx_Ring_Entries_Filled' = Rx_Ring_Entries_Filled - 1
      /\ handler' = IF Rx_Ring_Entries_Filled = 1 THEN "reading_EIR" ELSE "draining"
      /\ UNCHANGED <<Rx_Ring_Write_Cursor, received, handed, app, hardware>>

\* A frame with an error gets the flag Packet_Rx_Failed, and the assertion of
\* Enqueue_Rx_Packet that no flag is set fails: the system halts.
DrainBad ==
  LET p == Rx_Buffer_Descriptors[Rx_Ring_Read_Cursor].address
  IN  /\ handler = "draining"
      /\ ~Rx_Buffer_Descriptors[Rx_Ring_Read_Cursor].empty
      /\ Rx_Buffer_Descriptors[Rx_Ring_Read_Cursor].error
      /\ Rx_State_Flags' = [Rx_State_Flags EXCEPT ![p] = {"Packet_Rx_Failed"}]
      /\ Rx_Buffer_Descriptors' =
           [Rx_Buffer_Descriptors EXCEPT ![Rx_Ring_Read_Cursor].address = Null_Address,
                                         ![Rx_Ring_Read_Cursor].interrupt = FALSE]
      /\ handler' = "assert_failed"
      /\ UNCHANGED <<Rx_Ring_Write_Cursor, Rx_Ring_Read_Cursor, Rx_Ring_Entries_Filled,
                     queue, tasks, hardware>>

-----------------------------------------------------------------------------
(* Packet_Receiver_Task and the tasks of the layers above *)

\* Suspend_Until_True (Not_Empty_Condvar)
Suspend ==
  /\ TasksRun /\ receiver = "suspending"
  /\ receiver' = IF Not_Empty_Condvar THEN "woken" ELSE "suspended"
  /\ Not_Empty_Condvar' = FALSE
  /\ UNCHANGED <<ring, Rx_State_Flags, Rx_Packet_Queue, received, handed, app, handler, hardware>>

\* The rest of Dequeue_Network_Packet, and the packet's flags.
TakePacket ==
  /\ TasksRun /\ receiver = "woken"
  /\ Rx_Packet_Queue # <<>>
  /\ received' = Head(Rx_Packet_Queue)
  /\ Rx_Packet_Queue' = Tail(Rx_Packet_Queue)
  /\ Rx_State_Flags' = [Rx_State_Flags EXCEPT
                          ![Head(Rx_Packet_Queue)] =
                             (@ \ {"Packet_In_Rx_Queue"}) \cup {"Packet_In_Rx_Use_By_App"}]
  /\ receiver' = "processing"
  /\ UNCHANGED <<ring, Not_Empty_Condvar, handed, app, handler, hardware>>

\* Process_Incoming_Ethernet_Frame passes the packet on (ICMP queue, UDP end point).
HandOver ==
  /\ TasksRun /\ receiver = "processing"
  /\ handed' = handed \cup {received}
  /\ received' = Null_Address
  /\ receiver' = "suspending"
  /\ UNCHANGED <<ring, Rx_State_Flags, queue, app, handler, hardware>>

\* Mutant: the reposted descriptor raises no interrupt.
RepostSilently(p) ==
  /\ Rx_Buffer_Descriptors' =
       [Rx_Buffer_Descriptors EXCEPT ![Rx_Ring_Write_Cursor].address = p,
                                     ![Rx_Ring_Write_Cursor].empty = TRUE]
  /\ Rx_State_Flags' = [Rx_State_Flags EXCEPT ![p] = InRing]
  /\ Rx_Ring_Write_Cursor' = After(Rx_Ring_Write_Cursor)
  /\ Rx_Ring_Entries_Filled' = Rx_Ring_Entries_Filled + 1
  /\ UNCHANGED Rx_Ring_Read_Cursor

\* Mutant: the packet keeps the flag of the task that used it.
RepostKeepsFlags(p) ==
  /\ Rx_Buffer_Descriptors' =
       [Rx_Buffer_Descriptors EXCEPT ![Rx_Ring_Write_Cursor].address = p,
                                     ![Rx_Ring_Write_Cursor].interrupt = TRUE,
                                     ![Rx_Ring_Write_Cursor].empty = TRUE]
  /\ Rx_State_Flags' = [Rx_State_Flags EXCEPT ![p] = @ \cup InRing]
  /\ Rx_Ring_Write_Cursor' = After(Rx_Ring_Write_Cursor)
  /\ Rx_Ring_Entries_Filled' = Rx_Ring_Entries_Filled + 1
  /\ UNCHANGED Rx_Ring_Read_Cursor

\* Atomic_Repost_Rx_Packet: the packet gets the descriptor at the write cursor.
Atomic_Repost_Rx_Packet(p) ==
  /\ Rx_Buffer_Descriptors' =
       [Rx_Buffer_Descriptors EXCEPT ![Rx_Ring_Write_Cursor].address = p,
                                     ![Rx_Ring_Write_Cursor].interrupt = TRUE,
                                     ![Rx_Ring_Write_Cursor].empty = TRUE]
  /\ Rx_State_Flags' = [Rx_State_Flags EXCEPT ![p] = InRing]
  /\ Rx_Ring_Write_Cursor' = After(Rx_Ring_Write_Cursor)
  /\ Rx_Ring_Entries_Filled' = Rx_Ring_Entries_Filled + 1
  /\ UNCHANGED Rx_Ring_Read_Cursor

\* The receiver drops its packet, or has answered it: Recycle_Rx_Packet ...
Recycle ==
  /\ TasksRun /\ receiver = "processing"
  /\ Atomic_Repost_Rx_Packet(received)
  /\ received' = Null_Address
  /\ receiver' = "activating"
  /\ UNCHANGED <<queue, handed, app, handler, hardware>>

\* ... whose write of RDAR follows with interrupts enabled.
Activate ==
  /\ TasksRun /\ receiver = "activating"
  /\ RDAR' = TRUE
  /\ receiver' = "suspending"
  /\ UNCHANGED <<ring, Rx_State_Flags, queue, received, handed, app, handler, RXF, dma>>

\* Mutant: RDAR is only written when the ring held no descriptor at all.
AppRecycleActivatesEmptyRing(a) ==
  /\ TasksRun /\ app[a] = "running"
  /\ \E p \in handed : Atomic_Repost_Rx_Packet(p) /\ handed' = handed \ {p}
  /\ app' = [app EXCEPT ![a] = IF Rx_Ring_Entries_Filled = 0 THEN "activating" ELSE "running"]
  /\ UNCHANGED <<queue, receiver, received, handler, hardware>>

\* A task above layer 2 has read its packet: Recycle_Rx_Packet.
AppRecycle(a) ==
  /\ TasksRun /\ app[a] = "running"
  /\ \E p \in handed : Atomic_Repost_Rx_Packet(p) /\ handed' = handed \ {p}
  /\ app' = [app EXCEPT ![a] = "activating"]
  /\ UNCHANGED <<queue, receiver, received, handler, hardware>>

AppActivate(a) ==
  /\ TasksRun /\ app[a] = "activating"
  /\ RDAR' = TRUE
  /\ app' = [app EXCEPT ![a] = "running"]
  /\ UNCHANGED <<ring, Rx_State_Flags, queue, receiver, received, handed, handler, RXF, dma>>

-----------------------------------------------------------------------------
Dma      == (\E bad \in FrameErrors : DmaReceive(bad)) \/ DmaStop
Handler  == Interrupt \/ ReadEIR \/ ClearEIR \/ DrainDone \/ DrainOne \/ DrainBad
Receiver == Suspend \/ TakePacket \/ HandOver \/ Recycle \/ Activate

Next == Dma \/ Handler \/ Receiver \/ \E a \in AppTasks : AppRecycle(a) \/ AppActivate(a)

Spec == Init /\ [][Next]_vars

\* The CPU serves a pending interrupt, and it runs the handler to its end.
FairSpec == Spec /\ WF_vars(Handler)

-----------------------------------------------------------------------------
(* Properties *)

\* The descriptor k places after the read cursor.
FromRead(k) == ((Rx_Ring_Read_Cursor - 1 + k) % Net_Max_Rx_Packets) + 1

\* The ring is a window: from the read cursor on, first the descriptors with a
\* frame the handler has not drained, then those the MAC may fill, the DMA engine
\* standing at the first of these, and all others blank up to the read cursor.
\* The count and the write cursor agree with it.  The assertions on descriptors
\* in Atomic_Repost_Rx_Packet and the precondition of
\* Drain_One_Rx_Buffer_Descriptor follow.
RingIsWindow ==
  handler # "assert_failed" =>
    /\ Rx_Ring_Write_Cursor = FromRead(Rx_Ring_Entries_Filled)
    /\ \E filled \in 0 .. Rx_Ring_Entries_Filled :
         /\ dma = FromRead(filled)
         /\ \A k \in 0 .. Net_Max_Rx_Packets - 1 :
              LET desc == Rx_Buffer_Descriptors[FromRead(k)]
              IN  /\ (desc.address # Null_Address) = (k < Rx_Ring_Entries_Filled)
                  /\ desc.interrupt = (k < Rx_Ring_Entries_Filled)
                  /\ desc.empty = (filled <= k /\ k < Rx_Ring_Entries_Filled)

\* Every packet is in one place (a descriptor, the queue, the receiver task or the
\* layers above) and its flags say which.  The assertions on flags in
\* Drain_One_Rx_Buffer_Descriptor, the receiver task and Recycle_Rx_Packet follow.
FlagsTellPlace ==
  handler # "assert_failed" =>
    \A p \in Packets :
      LET slots  == {i \in Ring : Rx_Buffer_Descriptors[i].address = p}
          queued == {i \in 1 .. Len(Rx_Packet_Queue) : Rx_Packet_Queue[i] = p}
          users  == (IF received = p THEN {"receiver"} ELSE {}) \cup
                    (IF p \in handed THEN {"layers above"} ELSE {})
      IN  \/ /\ Rx_State_Flags[p] = InRing
             /\ Cardinality(slots) = 1 /\ queued = {} /\ users = {}
          \/ /\ Rx_State_Flags[p] = {"Packet_In_Rx_Queue"}
             /\ slots = {} /\ Cardinality(queued) = 1 /\ users = {}
          \/ /\ Rx_State_Flags[p] = {"Packet_In_Rx_Use_By_App"}
             /\ slots = {} /\ queued = {} /\ Cardinality(users) = 1

\* A signal the receiver task got, or will get without waiting, has a packet of
\* its own in the queue.  And coalesced signals cannot stop reception for good:
\* while the task waits, some packet is outside the queue and can still arrive.
ReceiverNeverStarves ==
  /\ (IF receiver = "woken" THEN 1 ELSE 0) + (IF Not_Empty_Condvar THEN 1 ELSE 0)
       <= Len(Rx_Packet_Queue)
  /\ receiver = "suspended" => Len(Rx_Packet_Queue) < Net_Max_Rx_Packets

\* The DMA engine never rests beside an empty descriptor unless a task is about to
\* write RDAR: the write cannot come before the engine stops and be lost.
ReceptionNeverForgotten ==
  ~RDAR /\ (\E i \in Ring : Rx_Buffer_Descriptors[i].empty) =>
    receiver = "activating" \/ \E a \in AppTasks : app[a] = "activating"

\* No received frame stays in the ring: the event that a frame raises between the
\* handler's read of a descriptor and its end is not lost.
FrameLeavesRing ==
  \A i \in Ring :
    LET desc == Rx_Buffer_Descriptors[i]
    IN  desc.address # Null_Address /\ ~desc.empty
          ~> desc.address = Null_Address \/ handler = "assert_failed"

\* The assertion of Enqueue_Rx_Packet holds: a packet that arrives has no flag set.
EnqueueAssertion == handler # "assert_failed"

=============================================================================
