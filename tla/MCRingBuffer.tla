---------------------------- MODULE MCRingBuffer ----------------------------
(***************************************************************************)
(* A small instance of RingBuffer for TLC.                                 *)
(***************************************************************************)
EXTENDS RingBuffer

CONSTANTS r1, r2,   \* tasks that read
          isr, task \* the receive interrupt handler, a task that prints

TwoReaders == {r1, r2}
TwoWriters == {isr, task}
Bytes      == {0, 1}
=============================================================================
