------------------------------- MODULE MCRtos -------------------------------
(***************************************************************************)
(* Two tasks of different priorities, of which one creates the other, a    *)
(* semaphore, a mutex, and two interrupts of which one nests in the other. *)
(***************************************************************************)
EXTENDS RtosWrapper

CONSTANTS t1, t2, s, m

I2C0  == <<"I2C", 0>>
PORTC == <<"PORT", "C">>

MCPriority       == [t \in Tasks |-> IF t = t1 THEN 3 ELSE 2]
MCNewPriorities  == [t \in Tasks |-> IF t = t1 THEN {1, 3} ELSE {}]
MCInitialCount   == [x \in Semaphores |-> 0]
MCInterrupts     == {I2C0, PORTC}
MCInterruptLevel == [i \in Interrupts |-> IF i = I2C0 THEN 1 ELSE 2]
MCSignalledBy    == [i \in Interrupts |-> IF i = I2C0 THEN s ELSE CHOOSE t \in Early : TRUE]
MCTimerSignals   == s

=============================================================================
