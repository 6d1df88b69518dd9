----------------------------- MODULE MCArpCache -----------------------------
(***************************************************************************)
(* Small instances of ArpCache for TLC.                                    *)
(***************************************************************************)
EXTENDS ArpCache

CONSTANTS a, b     \* remote hosts

TwoHosts == {a, b}
Others   == {b, Own, Null}
=============================================================================
