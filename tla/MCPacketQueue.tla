--------------------------- MODULE MCPacketQueue ---------------------------
(***************************************************************************)
(* Small instances of PacketQueue for TLC.                                 *)
(***************************************************************************)
EXTENDS PacketQueue

CONSTANTS p1, p2, p3,   \* packets
          isr, task,    \* the receive interrupt handler, a task that enqueues
          c1, c2        \* consumers

ThreePackets == {p1, p2, p3}
TwoPackets   == {p1, p2}
TwoProducers == {isr, task}
TwoConsumers == {c1, c2}
OneConsumer  == {c1}

Untimed   == {FALSE}
AnyCall   == {FALSE, TRUE}
=============================================================================
