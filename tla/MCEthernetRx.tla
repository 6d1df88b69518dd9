---------------------------- MODULE MCEthernetRx ----------------------------
(***************************************************************************)
(* Small instances of EthernetRx for TLC.                                  *)
(***************************************************************************)
EXTENDS EthernetRx

CONSTANTS icmp, udp   \* tasks of the layers above

OneTask  == {udp}
TwoTasks == {icmp, udp}

AnyFrame == {FALSE, TRUE}
=============================================================================
