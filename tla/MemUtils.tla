------------------------------ MODULE MemUtils ------------------------------
(***************************************************************************)
(* The C library's memory functions: memcpy, memmove, memset and memcmp.   *)
(*                                                                         *)
(* An action is one iteration of a loop, or one switch whose cases fall    *)
(* through.  Pointers and sizes are unsigned integers of the same width,   *)
(* so that both wrap around at N, the size of the address space.           *)
(***************************************************************************)
EXTENDS Integers, FiniteSetsExt

CONSTANTS
  N,           \* the number of addresses, a multiple of the size of a word
  CallRecords, \* the calls that the application makes
  Contents     \* the contents that the memory may have at a call

ASSUME AddressSpace == N \in Nat /\ N > 0 /\ N % 4 = 0

VARIABLES
  mem, saved,     \* the byte at each address, now and at the call
  call,           \* the arguments of the call
  fn_pc,          \* where the call is
  dst_cursor, src_cursor,
  result          \* of memcmp

mem_vars == <<mem, saved, call, fn_pc, dst_cursor, src_cursor, result>>

Address      == 0 .. N - 1
Byte         == 0 .. 255

\* memcmp has its two blocks in dst and src; memset has no source, and a value that
\* is a byte: of another memset32 composes words that are not made of its last byte.
CallArguments ==
  [fn : {"memcpy", "memmove", "memset", "memcmp"}, dst : Address, src : Address, size : Address,
   value : Byte]

ASSUME CallsOfFunctions == CallRecords \subseteq CallArguments
ASSUME ContentsOfMemory == Contents \subseteq [Address -> Byte]

WORD         == 4           \* sizeof(uint32_t)
UNROLL_TIMES == 4

HOW_MANY(m, n) == (((m - 1) % N) \div n) + 1
ROUND_UP(m, n) == (HOW_MANY(m, n) * n) % N

\* The three parts of a block: bytes up to a word boundary, words, bytes.
BytesBeforeAlign(p) == (ROUND_UP(p, WORD) - p) % N
BytesAfterAlign(c)  == ((c.size - BytesBeforeAlign(c.dst)) % N) % WORD
AlignedSize(c) == (c.size - BytesBeforeAlign(c.dst) - BytesAfterAlign(c)) % N

\* A block that ends before the word boundary: the sizes above wrap around.
SizeWraps(c) ==
  /\ c.size < BytesBeforeAlign(c.dst)
  /\ \/ c.fn = "memset"
     \/ c.fn = "memcpy" /\ BytesBeforeAlign(c.dst) = BytesBeforeAlign(c.src)

MemTypeOK ==
  /\ mem \in [Address -> Byte] /\ saved \in [Address -> Byte]
  /\ fn_pc \in {"idle", "memcpy", "memmove", "memset", "memcmp", "bytes", "head", "words",
                "tail", "ascending", "backwords", "descending", "setwords", "settail", "compare",
                "returned"}
  /\ dst_cursor \in Address /\ src_cursor \in Address
  /\ result \in {-1, 0, 1}

NoCall == [fn |-> "memcpy", dst |-> 0, src |-> 0, size |-> 0, value |-> 0]

MemInit ==
  /\ mem \in Contents /\ saved = mem
  /\ call = NoCall
  /\ fn_pc = "idle" /\ dst_cursor = 0 /\ src_cursor = 0 /\ result = 0

\* The memory after k units of a number of bytes were copied one after the other,
\* each read as a whole before it is written, up (1) or down (-1).
Copied(unit, direction, dst, src, k) ==
  LET f[i \in 0 .. k] ==
        IF i = 0 THEN mem
        ELSE LET moved == direction * unit * (i - 1)
             IN  [a \in Address |->
                    LET offset == (a - dst - moved) % N
                    IN  IF offset < unit THEN f[i - 1][(src + moved + offset) % N]
                        ELSE f[i - 1][a]]
  IN  f[k]

\* Four times a byte, shifted and combined, is the word of which each byte is that one.
Filled(dst, bytes) ==
  [a \in Address |-> IF (a - dst) % N < bytes THEN call.value ELSE mem[a]]

GoTo(at, dst, src) ==
  /\ fn_pc' = at /\ dst_cursor' = dst % N /\ src_cursor' = src % N
  /\ UNCHANGED <<saved, call>>

Advance(bytes) == GoTo(fn_pc, dst_cursor + bytes, src_cursor + bytes) /\ UNCHANGED result

Return(value) == GoTo("returned", 0, 0) /\ result' = value

Call(c) ==
  /\ fn_pc = "idle"
  /\ call' = c /\ fn_pc' = c.fn /\ saved' = mem
  /\ UNCHANGED <<mem, dst_cursor, src_cursor, result>>

Anew ==
  /\ mem' \in Contents /\ saved' = mem'
  /\ call' = NoCall /\ fn_pc' = "idle" /\ dst_cursor' = 0 /\ src_cursor' = 0 /\ result' = 0

\* The application goes on and writes what it likes before its next call.
ApplicationGoesOn == fn_pc = "returned" /\ Anew

-----------------------------------------------------------------------------
(* memcpy *)

memcpy ==
  /\ fn_pc = "memcpy"
  /\ GoTo(IF BytesBeforeAlign(call.dst) # BytesBeforeAlign(call.src) THEN "bytes" ELSE "head",
          call.dst, call.src)
  /\ UNCHANGED <<mem, result>>

CopyByByte ==
  /\ fn_pc = "bytes"
  /\ IF dst_cursor = (call.dst + call.size) % N
     THEN Return(0) /\ UNCHANGED mem
     ELSE mem' = Copied(1, 1, dst_cursor, src_cursor, 1) /\ Advance(1)

CopyHead ==
  /\ fn_pc = "head"
  /\ mem' = Copied(1, 1, dst_cursor, src_cursor, BytesBeforeAlign(call.dst))
  /\ GoTo(IF AlignedSize(call) # 0 THEN "words" ELSE "tail",
          ROUND_UP(call.dst, WORD), ROUND_UP(call.src, WORD))
  /\ UNCHANGED result

\* Mutant: the unrolled loop runs to the end of all words.
UnrollsAllWords ==
  /\ fn_pc = "words"
  /\ LET size      == IF call.fn = "memcpy" THEN AlignedSize(call) ELSE call.size
         start     == IF call.fn = "memcpy" THEN ROUND_UP(call.dst, WORD) ELSE call.dst
     IN  IF dst_cursor # (start + size) % N
         THEN /\ mem' = Copied(WORD, 1, dst_cursor, src_cursor, UNROLL_TIMES)
              /\ Advance(UNROLL_TIMES * WORD)
         ELSE /\ UNCHANGED mem
              /\ IF call.fn = "memcpy"
                 THEN GoTo("tail", dst_cursor, src_cursor) /\ UNCHANGED result
                 ELSE Return(0)

\* memcpy32, of the words of memcpy or of the whole blocks of memmove.
memcpy32 ==
  /\ fn_pc = "words"
  /\ LET size      == IF call.fn = "memcpy" THEN AlignedSize(call) ELSE call.size
         start     == IF call.fn = "memcpy" THEN ROUND_UP(call.dst, WORD) ELSE call.dst
         num_words == size \div WORD
         dst_end   == (start + ((num_words - (num_words % UNROLL_TIMES)) * WORD)) % N
         rest      == num_words % UNROLL_TIMES
     IN  IF dst_cursor # dst_end
         THEN /\ mem' = Copied(WORD, 1, dst_cursor, src_cursor, UNROLL_TIMES)
              /\ Advance(UNROLL_TIMES * WORD)
         ELSE /\ mem' = Copied(WORD, 1, dst_cursor, src_cursor, rest)
              /\ IF call.fn = "memcpy"
                 THEN GoTo("tail", dst_cursor + rest * WORD, src_cursor + rest * WORD)
                      /\ UNCHANGED result
                 ELSE Return(0)

CopyTail ==
  /\ fn_pc = "tail"
  /\ mem' = Copied(1, 1, ROUND_UP(call.dst, WORD) + AlignedSize(call),
                         ROUND_UP(call.src, WORD) + AlignedSize(call), BytesAfterAlign(call))
  /\ Return(0)

-----------------------------------------------------------------------------
(* memmove *)

\* Mutant: the alignment of the source is not tested.
DstAligned(c) == c.dst % WORD = 0 /\ c.size % WORD = 0

AllAligned(c) == c.dst % WORD = 0 /\ c.src % WORD = 0 /\ c.size % WORD = 0

\* Mutant: overlapping blocks are always copied upwards.
MovesUpwards ==
  /\ fn_pc = "memmove"
  /\ GoTo(IF AllAligned(call) THEN "words" ELSE "ascending", call.dst, call.src)
  /\ UNCHANGED <<mem, result>>

\* Blocks that do not overlap go to memcpy; the others are copied from the end
\* that is read before it is written.
memmove ==
  /\ fn_pc = "memmove"
  /\ LET c == call
     IN  IF (c.src + c.size) % N <= c.dst \/ (c.dst + c.size) % N <= c.src
         THEN call' = [c EXCEPT !.fn = "memcpy"] /\ fn_pc' = "memcpy"
              /\ UNCHANGED <<saved, dst_cursor, src_cursor, result>>
         ELSE IF c.dst < c.src
         THEN GoTo(IF AllAligned(c) THEN "words" ELSE "ascending", c.dst, c.src)
              /\ UNCHANGED result
         ELSE IF c.dst > c.src
         THEN LET last == IF AllAligned(c) THEN c.size - WORD ELSE c.size - 1
              IN  GoTo(IF AllAligned(c) THEN "backwords" ELSE "descending",
                       c.dst + last, c.src + last)
                  /\ UNCHANGED result
         ELSE Return(0)
  /\ UNCHANGED mem

CopyAscending ==
  /\ fn_pc = "ascending"
  /\ IF dst_cursor < (call.dst + call.size) % N
     THEN mem' = Copied(1, 1, dst_cursor, src_cursor, 1) /\ Advance(1)
     ELSE Return(0) /\ UNCHANGED mem

CopyDescending ==
  /\ fn_pc = "descending"
  /\ IF dst_cursor >= call.dst
     THEN mem' = Copied(1, -1, dst_cursor, src_cursor, 1) /\ Advance(-1)
     ELSE Return(0) /\ UNCHANGED mem

memcpy32_backwards ==
  /\ fn_pc = "backwords"
  /\ IF dst_cursor >= (call.dst + ((UNROLL_TIMES - 1) * WORD)) % N
     THEN /\ mem' = Copied(WORD, -1, dst_cursor, src_cursor, UNROLL_TIMES)
          /\ Advance(-(UNROLL_TIMES * WORD))
     ELSE /\ mem' = Copied(WORD, -1, dst_cursor, src_cursor,
                           (call.size \div WORD) % UNROLL_TIMES)
          /\ Return(0)

-----------------------------------------------------------------------------
(* memset and memcmp *)

memset ==
  /\ fn_pc = "memset"
  /\ mem' = Filled(call.dst, BytesBeforeAlign(call.dst))
  /\ GoTo(IF AlignedSize(call) # 0 THEN "setwords" ELSE "settail",
          ROUND_UP(call.dst, WORD), 0)
  /\ UNCHANGED result

memset32 ==
  /\ fn_pc = "setwords"
  /\ LET num_words == AlignedSize(call) \div WORD
         rest      == num_words % UNROLL_TIMES
         dst_end   == (ROUND_UP(call.dst, WORD) + ((num_words - rest) * WORD)) % N
     IN  IF dst_cursor # dst_end
         THEN mem' = Filled(dst_cursor, UNROLL_TIMES * WORD)
              /\ GoTo("setwords", dst_cursor + UNROLL_TIMES * WORD, 0)
         ELSE mem' = Filled(dst_cursor, rest * WORD)
              /\ GoTo("settail", dst_cursor + rest * WORD, 0)
  /\ UNCHANGED result

SetTail ==
  /\ fn_pc = "settail"
  /\ mem' = Filled(ROUND_UP(call.dst, WORD) + AlignedSize(call), BytesAfterAlign(call))
  /\ Return(0)

memcmp ==
  /\ fn_pc = "memcmp"
  /\ GoTo("compare", call.dst, call.src)
  /\ UNCHANGED <<mem, result>>

Compare ==
  /\ fn_pc = "compare"
  /\ LET byte1 == mem[dst_cursor]
         byte2 == mem[src_cursor]
     IN  IF dst_cursor = (call.dst + call.size) % N THEN Return(0)
         ELSE IF byte1 = byte2 THEN Advance(1)
         ELSE Return(IF byte1 < byte2 THEN -1 ELSE 1)
  /\ UNCHANGED mem

FunctionStep ==
  \/ memcpy \/ CopyByByte \/ CopyHead \/ memcpy32 \/ CopyTail
  \/ memmove \/ CopyAscending \/ CopyDescending \/ memcpy32_backwards
  \/ memset \/ memset32 \/ SetTail \/ memcmp \/ Compare

MemNext == (\E c \in CallRecords : Call(c)) \/ FunctionStep \/ ApplicationGoesOn

-----------------------------------------------------------------------------
(* Properties *)

\* What the functions promise: the destination holds the bytes that the source
\* held at the call, or the value, and nothing else has changed; memcmp tells the
\* order of the first two bytes that differ.
Promised(c) ==
  [a \in Address |->
     LET offset == (a - c.dst) % N
     IN  IF c.fn = "memcmp" \/ offset >= c.size THEN saved[a]
         ELSE IF c.fn = "memset" THEN c.value
         ELSE saved[(c.src + offset) % N]]

Order(c) ==
  LET differ == {i \in 0 .. c.size - 1 : saved[c.dst + i] # saved[c.src + i]}
  IN  IF c.fn # "memcmp" \/ differ = {} THEN 0
      ELSE IF saved[c.dst + Min(differ)] < saved[c.src + Min(differ)] THEN -1 ELSE 1

\* A call that has returned has done what the function promises, unless the size
\* of its words wraps around.
FunctionsKeepPromise ==
  fn_pc = "returned" /\ ~SizeWraps(call) => mem = Promised(call) /\ result = Order(call)

\* The functions that copy and set words are called, and go on, with aligned
\* addresses: the processor faults on an access to a word that is not.
WordsAligned ==
  /\ fn_pc \in {"words", "backwords", "setwords"} => dst_cursor % WORD = 0
  /\ fn_pc \in {"words", "backwords"} => src_cursor % WORD = 0

=============================================================================
