---------------------------- MODULE PicoProgram ----------------------------
(***************************************************************************)
(* The program of the Raspberry Pi Pico: its boot loader enters the        *)
(* application, which is linked with the memory functions.  A reset ends   *)
(* whatever runs.                                                          *)
(***************************************************************************)
EXTENDS Bootloader, MemUtils

vars == <<boot_vars, mem_vars>>

Init == BootInit /\ MemInit

LoaderStep      == BootStep /\ UNCHANGED mem_vars
FlashStep       == (TransferEnds \/ WriteEnds) /\ UNCHANGED mem_vars
ApplicationStep == boot_pc = "app" /\ MemNext /\ UNCHANGED boot_vars
FunctionRuns    == boot_pc = "app" /\ FunctionStep /\ UNCHANGED boot_vars

PowerOn == Reset /\ Anew

Next == LoaderStep \/ FlashStep \/ ApplicationStep \/ PowerOn

Fairness ==
  /\ WF_vars(LoaderStep)
  /\ WF_vars(TransferEnds /\ UNCHANGED mem_vars) /\ WF_vars(WriteEnds /\ UNCHANGED mem_vars)
  /\ WF_vars(FunctionRuns)

Spec == Init /\ [][Next]_vars /\ Fairness

\* Each variable holds a value of its type: of the reads of the receive FIFO none is
\* missing, so that it never holds more than the bytes of one command.
TypeOK == BootTypeOK /\ MemTypeOK

\* However the power fails, even while the chip writes its status register, the
\* application is reached in the end.
Boots == <>[](boot_pc = "app")

\* Every loop of the memory functions ends: a call returns, or a reset ends it.
CallsReturn == fn_pc # "idle" ~> fn_pc \in {"returned", "idle"}

=============================================================================
