----------------------------- MODULE BoundedFifo -----------------------------
(***************************************************************************)
(* What a ring buffer promises its tasks: elements come out in the order   *)
(* in which they went in, each once, and never more than the capacity are  *)
(* inside.  Generic_Ring_Buffers is shown to implement this module in      *)
(* RingBuffer (property ImplementsFifo).                                   *)
(***************************************************************************)
EXTENDS Naturals, Sequences

CONSTANTS Max_Num_Elements,  \* the capacity
          Elements,          \* the values that can be stored
          Readers            \* the tasks that read

VARIABLES queue,   \* the elements inside, oldest first
          got      \* the element each reader's last call returned

fifoVars == <<queue, got>>

Init == queue = <<>> /\ got \in [Readers -> Elements]

Put(e) == /\ Len(queue) < Max_Num_Elements
          /\ queue' = Append(queue, e)
          /\ UNCHANGED got

Get(r) == /\ queue # <<>>
          /\ got' = [got EXCEPT ![r] = Head(queue)]
          /\ queue' = Tail(queue)

Next == (\E e \in Elements : Put(e)) \/ (\E r \in Readers : Get(r))

Spec == Init /\ [][Next]_fifoVars
=============================================================================
