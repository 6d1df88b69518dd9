------------------------------- MODULE MCPico -------------------------------
(***************************************************************************)
(* An address space of 64 bytes in which blocks of up to six words have    *)
(* every alignment, with each of the ways in which they may overlap.       *)
(***************************************************************************)
EXTENDS PicoProgram

Calls(fn, dst, src, size, value) ==
  [fn : {fn}, dst : dst, src : src, size : size, value : {value}]

MCCallRecords ==
  Calls("memcpy", 8 .. 11, {36, 37, 39}, 0 .. 9 \cup 22 .. 24, 0)
    \cup Calls("memmove", 16 .. 17, {11, 12, 13, 15, 16, 17, 19, 20, 21},
               {0, 1, 3, 4, 5, 8, 9, 20, 24}, 0)
    \cup Calls("memmove", {16}, {12, 20}, {12}, 0)
    \cup Calls("memset", 8 .. 11, {0}, 0 .. 9 \cup 22 .. 24, 77)
    \cup Calls("memcmp", 8 .. 9, {8, 36, 37}, 0 .. 6, 0)

MCContents == {[a \in Address |-> a], [a \in Address |-> IF a = 40 THEN 3 ELSE a % 2]}

=============================================================================
