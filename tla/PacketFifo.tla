----------------------------- MODULE PacketFifo -----------------------------
(***************************************************************************)
(* What a network packet queue promises its callers, whatever its tasks    *)
(* and interrupt handlers do: packets leave in the order in which they     *)
(* were added, each to exactly one caller, and none is lost on the way.    *)
(* Networking.Dequeue_Network_Packet and Enqueue_Network_Packet are shown  *)
(* to implement this module in PacketQueue (property ImplementsFifo).      *)
(***************************************************************************)
EXTENDS Naturals, Sequences, Functions

CONSTANTS Packets,      \* the packet objects that can be put in the queue
          Consumers,    \* the tasks that take packets from the queue
          Null          \* the null access value

VARIABLES queue,        \* the packets waiting, oldest first
          held          \* the packet each consumer took and still owns

fifoVars == <<queue, held>>

Waiting == Range(queue)
Owned   == Range(held) \ {Null}

Init == /\ queue = <<>>
        /\ held = [c \in Consumers |-> Null]

\* A packet nobody owns joins the end of the queue.
Put(p) == /\ p \notin Waiting \cup Owned
          /\ queue' = Append(queue, p)
          /\ UNCHANGED held

\* The oldest packet passes from the queue to the consumer.
Take(c) == /\ queue # <<>>
           /\ held[c] = Null
           /\ held' = [held EXCEPT ![c] = Head(queue)]
           /\ queue' = Tail(queue)

\* The consumer gives its packet back to the driver or the pool it came from.
Release(c) == /\ held[c] # Null
              /\ held' = [held EXCEPT ![c] = Null]
              /\ UNCHANGED queue

Next == \/ \E p \in Packets : Put(p)
        \/ \E c \in Consumers : Take(c) \/ Release(c)

Spec == Init /\ [][Next]_fifoVars
=============================================================================
