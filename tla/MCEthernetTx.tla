---------------------------- MODULE MCEthernetTx ----------------------------
(***************************************************************************)
(* Small instances of EthernetTx for TLC.                                  *)
(***************************************************************************)
EXTENDS EthernetTx

CONSTANTS receiver, icmp, udp   \* the tasks that send

ThreeTasks == {receiver, icmp, udp}
=============================================================================
