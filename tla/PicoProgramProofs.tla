------------------------- MODULE PicoProgramProofs -------------------------
(***************************************************************************)
(* Proofs about the boot loader and about the memory functions, for any    *)
(* number of resets, any size of the address space and any calls.          *)
(***************************************************************************)
EXTENDS PicoProgram, TLAPS

-----------------------------------------------------------------------------
(* The boot loader.  The argument: one command at a time is in the SSI, the *)
(* receive FIFO holds the answer to that command or nothing, and each step  *)
(* of the boot loader knows what the chip has done for the step before it.  *)

Pending == boot_pc = "push" \/ (boot_pc = "wait" /\ ssi_busy)
Sent    == boot_pc = "receive" \/ (boot_pc = "wait" /\ ~ssi_busy)

ControlInv ==
  /\ boot_pc \in {"serial", "push", "wait", "receive", "quad", "xip", "jump", "app"}
  /\ command \in Serial \cup {CMD_READ}
  /\ boot_pc \in {"serial", "receive"} => command \in Serial
  /\ sr2 \in SUBSET Bits
  /\ ssi_busy \in BOOLEAN /\ writing \in BOOLEAN /\ write_enabled \in BOOLEAN
  /\ flash_mode \in {"serial", "continuous"}
  /\ ssi_busy => boot_pc = "wait"

\* The FIFO holds what the command under way has brought.
FifoInv ==
  /\ Pending \/ boot_pc \in {"serial", "quad"} => rx = <<>>
  /\ Sent /\ command \in Serial =>
       /\ rx = [i \in 1 .. Length(command) |-> rx[i]]
       /\ command \in Reads => rx[2] \in (SUBSET Bits) \cup {{"WIP"}}

\* What the chip has done when the boot loader is at a point.
ChipInv ==
  /\ boot_pc \in {"serial", "push", "receive", "quad"} \/ command \in Serial => flash_mode = "serial"
  /\ boot_pc = "serial" \/ command \in {"CMD_READ_STATUS2", "CMD_WRITE_ENABLE"} => ~writing
  /\ Sent /\ command = "CMD_READ_STATUS2" => rx[2] = sr2
  /\ Sent /\ command = "CMD_WRITE_ENABLE" => write_enabled
  /\ Pending /\ command = "CMD_WRITE_STATUS" => write_enabled /\ ~writing
  /\ (Sent /\ command = "CMD_WRITE_STATUS") \/ command = "CMD_READ_STATUS" =>
       writing \/ "QE" \in sr2
  /\ Sent /\ command = "CMD_READ_STATUS" => "WIP" \in rx[2] \/ (~writing /\ "QE" \in sr2)
  /\ boot_pc \in {"quad", "xip", "jump", "app"} \/ command = CMD_READ => ~writing /\ "QE" \in sr2
  /\ Pending /\ command = CMD_READ => ssi_config = "quad" /\ flash_mode = "serial"
  /\ (Sent /\ command = CMD_READ) \/ boot_pc \in {"xip", "jump", "app"} => flash_mode = "continuous"
  /\ boot_pc \in {"jump", "app"} => ssi_enabled /\ ssi_config = "xip"

BootInv == ControlInv /\ FifoInv /\ ChipInv

\* A read of as many bytes as a command has received empties the FIFO.
LEMMA PopEmpties ==
  ASSUME NEW n \in Nat, NEW s, s = [i \in 1 .. n |-> s[i]]
  PROVE  Len(s) = n /\ SubSeq(s, n + 1, Len(s)) = <<>>
OBVIOUS

\* The steps of the boot loader that take a received answer.
LEMMA ReceiveKeepsInv ==
  ASSUME BootInv, CheckStatus2 \/ WriteEnabled \/ StatusWritten \/ PollStatus
  PROVE  BootInv'
<1> USE DEF BootInv, Serial, Reads, CMD_READ
<1>1. /\ Length(command) \in Nat
      /\ command \in Reads => Length(command) = 2
  BY DEF ControlInv, Length, CheckStatus2, WriteEnabled, StatusWritten, PollStatus
<1>2. rx' = <<>>
  BY <1>1, PopEmpties DEF ControlInv, FifoInv, Sent, Pop, CheckStatus2, WriteEnabled,
     StatusWritten, PollStatus
<1>3. command \in Reads => Received = rx[2]
  BY <1>1, PopEmpties DEF ControlInv, FifoInv, Sent, Received, CheckStatus2, WriteEnabled,
     StatusWritten, PollStatus
<1>4. CASE CheckStatus2
  BY <1>2, <1>3, <1>4 DEF CheckStatus2, Pop, NextIs, ControlInv, FifoInv, ChipInv, Pending, Sent,
     SREG_DATA, flash
<1>5. CASE WriteEnabled
  BY <1>2, <1>5 DEF WriteEnabled, Pop, NextIs, ControlInv, FifoInv, ChipInv, Pending, Sent, flash
<1>6. CASE StatusWritten
  BY <1>2, <1>6 DEF StatusWritten, Pop, NextIs, ControlInv, FifoInv, ChipInv, Pending, Sent, flash
<1>7. CASE PollStatus
  BY <1>2, <1>3, <1>7 DEF PollStatus, Pop, NextIs, ControlInv, FifoInv, ChipInv, Pending, Sent,
     flash
<1> QED BY <1>4, <1>5, <1>6, <1>7

\* The other steps of the boot loader configure the SSI, or push a command and wait.
LEMMA LoaderKeepsInv ==
  ASSUME BootInv, BootStep
  PROVE  BootInv'
<1> USE DEF BootInv, ControlInv, FifoInv, ChipInv, Pending, Sent, Serial, Reads, CMD_READ,
        flash, ssi, processor
<1>1. CASE ConfigureSerial
  BY <1>1 DEF ConfigureSerial, Configure
<1>2. CASE EnableSerial
  BY <1>2 DEF EnableSerial, NextIs
<1>6. CASE ConfigureQuad
  BY <1>6 DEF ConfigureQuad, Configure
<1>7. CASE EnableQuad
  BY <1>7 DEF EnableQuad, NextIs
<1>8. CASE ConfigureXip
  BY <1>8 DEF ConfigureXip, Configure
<1>9. CASE EnableXip
  BY <1>9 DEF EnableXip
<1>3. CASE PushCommand
  BY <1>3 DEF PushCommand
<1>4. CASE wait_ssi_ready
  BY <1>4 DEF wait_ssi_ready
<1>5. CASE JumpToApplication
  BY <1>5 DEF JumpToApplication
<1> QED BY <1>1, <1>2, <1>3, <1>4, <1>5, <1>6, <1>7, <1>8, <1>9, ReceiveKeepsInv DEF BootStep

\* The chip's answer to a command that it expects, and to no other.
LEMMA ReplyIs ==
  ASSUME command \in Serial \cup {CMD_READ}, rx = <<>>
  PROVE  /\ rx \o Reply(command) = [i \in 1 .. Length(command) |-> (rx \o Reply(command))[i]]
         /\ command \in Reads => (rx \o Reply(command))[2] = Reply(command)[2]
<1> DEFINE r == Reply(command)
<1>1. Length(command) \in Nat /\ (command \in Reads => Length(command) = 2)
  BY DEF Length, Serial, Reads, CMD_READ
<1>2. r = [i \in 1 .. Length(command) |-> r[i]]
  BY DEF Reply
<1> HIDE DEF r
<1>3. <<>> \o r = r
  BY <1>1, <1>2
<1> QED BY <1>1, <1>2, <1>3 DEF r

LEMMA TransferKeepsInv ==
  ASSUME BootInv, TransferEnds
  PROVE  BootInv'
<1> USE DEF BootInv, ControlInv, Serial, Reads, CMD_READ
<1>1. boot_pc = "wait" /\ rx = <<>>
  BY DEF FifoInv, Pending, TransferEnds
<1>2. /\ command' = command /\ boot_pc' = "wait" /\ ~ssi_busy'
      /\ sr2' = sr2 /\ ssi_config' = ssi_config
      /\ rx' = rx \o Reply(command)
  BY <1>1 DEF TransferEnds, processor
<1>3. command \in Reads => Length(command) = 2 /\ rx'[2] = Reply(command)[2]
  BY <1>1, <1>2, ReplyIs DEF Length
<1>4. command \in Reads =>
        Reply(command)[2] = IF command = "CMD_READ_STATUS2" THEN sr2
                            ELSE IF writing THEN {"WIP"} ELSE {}
  BY <1>1, <1>3 DEF Reply, ChipInv, Understands
<1>5. ControlInv'
  BY <1>1, <1>2 DEF TransferEnds
<1>6. FifoInv'
  <2>1. rx' = [i \in 1 .. Length(command) |-> rx'[i]]
    BY <1>1, <1>2, ReplyIs
  <2>2. command \in Reads => rx'[2] \in (SUBSET Bits) \cup {{"WIP"}}
    BY <1>3, <1>4
  <2> QED BY <1>2, <2>1, <2>2 DEF FifoInv, Pending, Length
<1>7. ChipInv'
  <2>1. command = CMD_READ => flash_mode' = "continuous" /\ ~writing'
    BY <1>1 DEF TransferEnds, ChipInv, Pending, Understands
  <2>2. command \in Serial => flash_mode' = "serial"
    BY <1>1 DEF TransferEnds, ChipInv
  <2>3. /\ command = "CMD_WRITE_ENABLE" => write_enabled' /\ ~writing'
        /\ command = "CMD_WRITE_STATUS" => writing'
        /\ command \in Reads => writing' = writing
    BY <1>1 DEF TransferEnds, ChipInv, Pending, Understands
  <2> QED BY <1>1, <1>2, <1>3, <1>4, <2>1, <2>2, <2>3 DEF ChipInv, Pending, Sent
<1> QED BY <1>5, <1>6, <1>7

\* The end of a write and a reset change nothing that a point of the boot loader relies on.
LEMMA HardwareKeepsInv ==
  ASSUME BootInv, WriteEnds \/ Reset
  PROVE  BootInv'
<1> USE DEF BootInv, ControlInv, FifoInv, ChipInv, Pending, Sent, Serial, Reads, CMD_READ
<1>1. CASE WriteEnds
  BY <1>1 DEF WriteEnds, Written, SREG_DATA, Bits, processor, ssi
<1>2. CASE Reset
  <2>1. sr2' \in SUBSET Bits
    BY <1>2 DEF Reset, Written, SREG_DATA, Bits
  <2>2. write_enabled' \in BOOLEAN
    BY <1>2 DEF Reset
  <2> QED BY <1>2, <2>1, <2>2 DEF Reset
<1> QED BY <1>1, <1>2

LEMMA BootInvHolds == Spec => []BootInv
<1>1. Init => BootInv
  BY DEF Init, BootInit, BootInv, ControlInv, FifoInv, ChipInv, Pending, Sent, Serial, Reads,
     CMD_READ
<1>2. BootInv /\ [Next]_vars => BootInv'
  <2> SUFFICES ASSUME BootInv, [Next]_vars PROVE BootInv'
    OBVIOUS
  <2>1. CASE UNCHANGED boot_vars
    <3>1. /\ boot_pc' = boot_pc /\ command' = command /\ rx' = rx /\ sr2' = sr2
          /\ ssi_busy' = ssi_busy /\ ssi_enabled' = ssi_enabled /\ ssi_config' = ssi_config
          /\ writing' = writing /\ write_enabled' = write_enabled /\ flash_mode' = flash_mode
      BY <2>1 DEF boot_vars, processor, ssi, flash
    <3>2. Pending' = Pending /\ Sent' = Sent
      BY <3>1 DEF Pending, Sent
    <3> QED BY <3>1, <3>2 DEF BootInv, ControlInv, FifoInv, ChipInv, Length
  <2> QED BY <2>1, LoaderKeepsInv, TransferKeepsInv, HardwareKeepsInv
          DEF Next, LoaderStep, FlashStep, ApplicationStep, PowerOn, vars
<1> QED BY <1>1, <1>2, PTL DEF Spec

\* The application is entered only with the chip in continuous read mode, not
\* writing, and the SSI enabled for XIP, whatever the resets before.
THEOREM EntryCorrect == Spec => []EntersReadableFlash
<1>1. BootInv => EntersReadableFlash
  BY DEF BootInv, ChipInv, EntersReadableFlash
<1> QED BY <1>1, BootInvHolds, PTL

\* No byte of an earlier command is left when the boot loader sends the next.
THEOREM AnswersCorrect == Spec => []NoStaleReply
<1>1. BootInv => NoStaleReply
  BY DEF BootInv, ControlInv, FifoInv, Pending, NoStaleReply
<1> QED BY <1>1, BootInvHolds, PTL

\* What holds of the rest of the boot loader's state by its types: the receive FIFO
\* never holds more than the bytes of one command.
BootRanges ==
  /\ reg_value \in (SUBSET Bits) \cup {{"WIP"}, Junk}
  /\ ssi_enabled \in BOOLEAN /\ ssi_config \in {"none", "serial", "quad", "xip"}
  /\ Len(rx) \in 0 .. 3
  /\ resets \in 0 .. MaxResets

\* Every step keeps BootRanges.
LEMMA BootRangesStep ==
  ASSUME BootInv, BootRanges, BootNext \/ Reset \/ UNCHANGED boot_vars
  PROVE  BootRanges'
<1> USE DEF BootRanges
<1>0. \A s : s = <<>> => Len(s) \in 0 .. 3
  OBVIOUS
<1>1. CASE ConfigureSerial \/ ConfigureQuad \/ ConfigureXip
  BY <1>0, <1>1 DEF ConfigureSerial, ConfigureQuad, ConfigureXip, Configure, processor
<1>2. CASE \/ EnableSerial \/ PushCommand \/ wait_ssi_ready \/ EnableQuad \/ EnableXip
          \/ JumpToApplication \/ WriteEnds \/ UNCHANGED boot_vars
  BY <1>2 DEF EnableSerial, PushCommand, wait_ssi_ready, EnableQuad, EnableXip, JumpToApplication,
              WriteEnds, boot_vars, processor, ssi
<1>3. CASE CheckStatus2 \/ WriteEnabled \/ StatusWritten \/ PollStatus
  <2>1. command \in Serial /\ Sent /\ Pop
    BY <1>3 DEF BootInv, ControlInv, Sent, CheckStatus2, WriteEnabled, StatusWritten, PollStatus
  <2>2. Length(command) \in Nat /\ (command \in Reads => Length(command) = 2)
    BY <2>1 DEF Length, Serial, Reads
  <2>3. Len(rx) = Length(command) /\ rx' = <<>>
    BY <2>1, <2>2, PopEmpties DEF BootInv, FifoInv, Pop
  <2>4. command \in Reads => Received \in (SUBSET Bits) \cup {{"WIP"}}
    BY <2>1, <2>2, <2>3 DEF BootInv, FifoInv, Received
  <2> QED BY <2>1, <2>3, <2>4 DEF Pop
<1>4. CASE TransferEnds
  <2>1. rx = <<>> /\ command \in Serial \cup {CMD_READ}
    BY <1>4 DEF TransferEnds, BootInv, ControlInv, FifoInv, Pending
  <2>2. Length(command) \in 1 .. 3
    BY <2>1 DEF Length, Serial, Reads, CMD_READ
  <2>3. Len(rx \o Reply(command)) = Length(command)
    <3>1. rx \o Reply(command) = [i \in 1 .. Length(command) |-> (rx \o Reply(command))[i]]
      BY <2>1, ReplyIs
    <3> QED BY <2>2, <3>1, PopEmpties
  <2> QED BY <1>4, <2>2, <2>3 DEF TransferEnds, processor
<1>5. CASE Reset
  <2>1. resets' \in 0 .. MaxResets
    BY <1>5, ResetBound DEF Reset
  <2>2. reg_value' = {} /\ ssi_enabled' = FALSE /\ ssi_config' = "none" /\ rx' = <<>>
    BY <1>5 DEF Reset
  <2> QED BY <1>0, <2>1, <2>2
<1> QED BY <1>1, <1>2, <1>3, <1>4, <1>5 DEF BootNext, BootStep

-----------------------------------------------------------------------------
(* The memory functions.  The argument: a cursor of words starts at a word *)
(* boundary and moves by whole words, and to wrap around at the end of the *)
(* address space keeps a multiple of four one.                             *)

MemInv ==
  /\ call \in CallArguments
  /\ fn_pc \in {"words", "backwords", "setwords"} => dst_cursor \in Int /\ src_cursor \in Int
  /\ WordsAligned

LEMMA WrapKeepsAlignment ==
  ASSUME NEW a \in Int, a % 4 = 0
  PROVE  a % N \in Int /\ (a % N) % 4 = 0
<1>1. N \in Nat /\ N > 0 /\ N % 4 = 0
  BY AddressSpace
<1>2. PICK j \in Int : a = 4 * j
  <2>1. a = 4 * (a \div 4) /\ a \div 4 \in Int
    OBVIOUS
  <2> QED BY <2>1
<1>3. PICK k \in Int : N = 4 * k
  <2>1. N = 4 * (N \div 4) /\ N \div 4 \in Int
    BY <1>1
  <2> QED BY <2>1
<1>4. PICK q \in Int : a % N = a - N * q /\ a % N \in Int
  <2>1. a % N = a - N * (a \div N) /\ a \div N \in Int /\ a % N \in Int
    BY <1>1
  <2> QED BY <2>1
<1>5. PICK i \in Int : i = j - k * q
  BY <1>2, <1>3, <1>4
<1>6. a % N = 4 * i
  BY <1>2, <1>3, <1>4, <1>5
<1>7. (4 * i) % 4 = 0
  BY <1>5
<1> QED BY <1>4, <1>6, <1>7

\* A rounded address is a word boundary.
LEMMA RoundUpAligned ==
  ASSUME NEW a \in Int
  PROVE  ROUND_UP(a, WORD) \in Int /\ ROUND_UP(a, WORD) % 4 = 0
<1> DEFINE h == HOW_MANY(a, WORD)
<1>1. h \in Int
  <2>1. (a - 1) % N \in Int
    BY AddressSpace
  <2> QED BY <2>1 DEF HOW_MANY, WORD
<1>2. h * 4 \in Int /\ (h * 4) % 4 = 0
  <2> HIDE DEF h
  <2> QED BY <1>1
<1> QED BY <1>2, WrapKeepsAlignment DEF ROUND_UP, WORD

\* Where a function goes to words, it goes to word boundaries.
LEMMA GoToKeepsInv ==
  ASSUME MemInv, NEW at, NEW dst, NEW src, GoTo(at, dst, src),
         at \in {"words", "backwords", "setwords"} =>
           dst \in Int /\ dst % 4 = 0 /\ src \in Int /\ src % 4 = 0
  PROVE  MemInv'
<1>1. /\ call' = call /\ fn_pc' = at
      /\ dst_cursor' = dst % N /\ src_cursor' = src % N
  BY DEF GoTo
<1>2. CASE at \in {"words", "backwords", "setwords"}
  BY <1>1, <1>2, WrapKeepsAlignment DEF MemInv, WordsAligned, WORD
<1>3. CASE at \notin {"words", "backwords", "setwords"}
  BY <1>1, <1>3 DEF MemInv, WordsAligned
<1> QED BY <1>2, <1>3

LEMMA FunctionKeepsInv ==
  ASSUME MemInv, FunctionStep
  PROVE  MemInv'
<1>1. call \in CallArguments
  BY DEF MemInv
<1>2. call.dst \in Int /\ call.src \in Int /\ call.size \in Int
  BY <1>1, AddressSpace DEF CallArguments, Address
<1>3. CASE memcpy
  BY <1>3, GoToKeepsInv DEF memcpy
<1>4. CASE CopyByByte
  BY <1>4, GoToKeepsInv DEF CopyByByte, Advance, Return
<1>5. CASE CopyHead
  <2>1. \E at \in {"words", "tail"} :
          GoTo(at, ROUND_UP(call.dst, WORD), ROUND_UP(call.src, WORD))
    BY <1>5 DEF CopyHead
  <2> QED BY <2>1, <1>2, RoundUpAligned, GoToKeepsInv
<1>6. CASE memcpy32
  <2>1. fn_pc = "words"
    BY <1>6 DEF memcpy32
  <2>2. \/ GoTo("words", dst_cursor + UNROLL_TIMES * WORD, src_cursor + UNROLL_TIMES * WORD)
        \/ \E dst, src : GoTo("tail", dst, src)
        \/ GoTo("returned", 0, 0)
    BY <1>6, <2>1 DEF memcpy32, Advance, Return
  <2>3. /\ dst_cursor \in Int /\ dst_cursor % 4 = 0 /\ src_cursor \in Int /\ src_cursor % 4 = 0
    BY <2>1 DEF MemInv, WordsAligned, WORD
  <2>4. /\ (dst_cursor + UNROLL_TIMES * WORD) % 4 = 0 /\ (src_cursor + UNROLL_TIMES * WORD) % 4 = 0
        /\ dst_cursor + UNROLL_TIMES * WORD \in Int /\ src_cursor + UNROLL_TIMES * WORD \in Int
    BY <2>3 DEF UNROLL_TIMES, WORD
  <2> QED BY <2>2, <2>4, GoToKeepsInv
<1>7. CASE CopyTail
  BY <1>7, GoToKeepsInv DEF CopyTail, Return
<1>8. CASE memmove
  <2>1. CASE call' = [call EXCEPT !.fn = "memcpy"] /\ fn_pc' = "memcpy"
    BY <1>1, <2>1 DEF MemInv, WordsAligned, CallArguments
  <2>2. CASE GoTo(IF AllAligned(call) THEN "words" ELSE "ascending", call.dst, call.src)
    BY <1>2, <2>2, GoToKeepsInv DEF AllAligned, WORD
  <2>3. CASE LET last == IF AllAligned(call) THEN call.size - WORD ELSE call.size - 1
             IN  GoTo(IF AllAligned(call) THEN "backwords" ELSE "descending",
                      call.dst + last, call.src + last)
    <3>1. CASE AllAligned(call)
      <4>1. GoTo("backwords", call.dst + (call.size - WORD), call.src + (call.size - WORD))
        BY <2>3, <3>1
      <4>2. /\ (call.dst + (call.size - WORD)) % 4 = 0 /\ (call.src + (call.size - WORD)) % 4 = 0
            /\ call.dst + (call.size - WORD) \in Int /\ call.src + (call.size - WORD) \in Int
        BY <1>2, <3>1 DEF AllAligned, WORD
      <4> QED BY <4>1, <4>2, GoToKeepsInv
    <3>2. CASE ~AllAligned(call)
      BY <2>3, <3>2, GoToKeepsInv
    <3> QED BY <3>1, <3>2
  <2>4. CASE GoTo("returned", 0, 0)
    BY <2>4, GoToKeepsInv
  <2> QED BY <1>8, <2>1, <2>2, <2>3, <2>4 DEF memmove, Return
<1>9. CASE CopyAscending \/ CopyDescending
  BY <1>9, GoToKeepsInv DEF CopyAscending, CopyDescending, Advance, Return
<1>10. CASE memcpy32_backwards
  <2>1. fn_pc = "backwords"
    BY <1>10 DEF memcpy32_backwards
  <2>2. \/ GoTo("backwords", dst_cursor + -(UNROLL_TIMES * WORD),
                src_cursor + -(UNROLL_TIMES * WORD))
        \/ GoTo("returned", 0, 0)
    BY <1>10, <2>1 DEF memcpy32_backwards, Advance, Return
  <2>3. /\ dst_cursor \in Int /\ dst_cursor % 4 = 0 /\ src_cursor \in Int /\ src_cursor % 4 = 0
    BY <2>1 DEF MemInv, WordsAligned, WORD
  <2>4. /\ (dst_cursor + -(UNROLL_TIMES * WORD)) % 4 = 0
        /\ (src_cursor + -(UNROLL_TIMES * WORD)) % 4 = 0
        /\ dst_cursor + -(UNROLL_TIMES * WORD) \in Int
        /\ src_cursor + -(UNROLL_TIMES * WORD) \in Int
    BY <2>3 DEF UNROLL_TIMES, WORD
  <2> QED BY <2>2, <2>4, GoToKeepsInv
<1>11. CASE memset
  <2>1. \E at \in {"setwords", "settail"} : GoTo(at, ROUND_UP(call.dst, WORD), 0)
    BY <1>11 DEF memset
  <2> QED BY <2>1, <1>2, RoundUpAligned, GoToKeepsInv
<1>12. CASE memset32
  <2>1. fn_pc = "setwords"
    BY <1>12 DEF memset32
  <2>2. \/ GoTo("setwords", dst_cursor + UNROLL_TIMES * WORD, 0)
        \/ \E dst : GoTo("settail", dst, 0)
    BY <1>12 DEF memset32
  <2>3. dst_cursor \in Int /\ dst_cursor % 4 = 0
    BY <2>1 DEF MemInv, WordsAligned, WORD
  <2>4. /\ (dst_cursor + UNROLL_TIMES * WORD) % 4 = 0
        /\ dst_cursor + UNROLL_TIMES * WORD \in Int
    BY <2>3 DEF UNROLL_TIMES, WORD
  <2> QED BY <2>2, <2>4, GoToKeepsInv
<1>13. CASE SetTail \/ memcmp \/ Compare
  BY <1>13, GoToKeepsInv DEF SetTail, memcmp, Compare, Advance, Return
<1> QED BY <1>3, <1>4, <1>5, <1>6, <1>7, <1>8, <1>9, <1>10, <1>11, <1>12, <1>13 DEF FunctionStep

LEMMA MemInvHolds == Spec => []MemInv
<1>0. NoCall \in CallArguments /\ CallRecords \subseteq CallArguments
  BY AddressSpace, CallsOfFunctions DEF Byte, NoCall, CallArguments, Address
<1>1. Init => MemInv
  BY <1>0 DEF Init, MemInit, MemInv, WordsAligned
<1>2. MemInv /\ [Next]_vars => MemInv'
  <2> SUFFICES ASSUME MemInv, [Next]_vars PROVE MemInv'
    OBVIOUS
  <2>1. CASE UNCHANGED mem_vars
    BY <2>1 DEF mem_vars, MemInv, WordsAligned
  <2>2. CASE Anew
    BY <1>0, <2>2 DEF Anew, MemInv, WordsAligned
  <2>3. ASSUME NEW c \in CallRecords, Call(c) PROVE MemInv'
    <3>1. c.fn \in {"memcpy", "memmove", "memset", "memcmp"} /\ c \in CallArguments
      BY <1>0 DEF CallArguments
    <3> QED BY <2>3, <3>1 DEF Call, MemInv, WordsAligned
  <2> QED BY <2>1, <2>2, <2>3, FunctionKeepsInv
          DEF Next, LoaderStep, FlashStep, ApplicationStep, PowerOn, MemNext, ApplicationGoesOn, vars
<1> QED BY <1>1, <1>2, PTL DEF Spec

\* The words of a copy or a set are always aligned, whatever the addresses and
\* the size of the call, also where the size wraps around.
THEOREM AlignmentCorrect == Spec => []WordsAligned
<1>1. MemInv => WordsAligned
  BY DEF MemInv
<1> QED BY <1>1, MemInvHolds, PTL

-----------------------------------------------------------------------------
(* Lemmas about copies and alignments.                                     *)

\* The memory m after the i-th unit of a copy.
UnitCopied(m, unit, direction, dst, src, i) ==
  [a \in Address |->
     LET moved  == direction * unit * (i - 1)
         offset == (a - dst - moved) % N
     IN  IF offset < unit THEN m[(src + moved + offset) % N] ELSE m[a]]

\* A copy goes from memory to memory, unit by unit.  (No function copies more
\* than four units between two of its tests.)
LEMMA CopiedByUnits ==
  ASSUME NEW unit, NEW direction, NEW dst, NEW src, NEW k \in 0 .. 4
  PROVE  \E g : /\ g[0] = mem
                /\ \A i \in 1 .. k : g[i] = UnitCopied(g[i - 1], unit, direction, dst, src, i)
                /\ Copied(unit, direction, dst, src, k) = g[k]
<1> DEFINE U(m, i) == UnitCopied(m, unit, direction, dst, src, i)
           m1 == U(mem, 1)
           m2 == U(m1, 2)
           m3 == U(m2, 3)
           m4 == U(m3, 4)
           h == [i \in 0 .. k |-> IF i = 0 THEN mem ELSE IF i = 1 THEN m1 ELSE IF i = 2 THEN m2
                                  ELSE IF i = 3 THEN m3 ELSE m4]
           P(g) == g = [i \in 0 .. k |-> IF i = 0 THEN mem ELSE U(g[i - 1], i)]
<1>1. P(h)
  <2>0. /\ m1 = U(mem, 1) /\ m2 = U(m1, 2) /\ m3 = U(m2, 3) /\ m4 = U(m3, 4)
    OBVIOUS
  <2>1. \A i \in 0 .. k : h[i] = IF i = 0 THEN mem ELSE U(h[i - 1], i)
    <3> HIDE DEF m1, m2, m3, m4, U
    <3> SUFFICES ASSUME NEW i \in 0 .. k PROVE h[i] = IF i = 0 THEN mem ELSE U(h[i - 1], i)
      OBVIOUS
    <3>1. i = 0 \/ i = 1 \/ i = 2 \/ i = 3 \/ i = 4
      OBVIOUS
    <3>2. i # 0 => i - 1 \in 0 .. k
      OBVIOUS
    <3> QED BY <3>1, <3>2, <2>0
  <2> HIDE DEF U, m1, m2, m3, m4
  <2> QED BY <2>1
<1>2. Copied(unit, direction, dst, src, k) = (CHOOSE g : P(g))[k]
  BY DEF Copied, UnitCopied
<1>3. P(CHOOSE g : P(g))
  <2> HIDE DEF h, P
  <2> QED BY <1>1
<1> HIDE DEF U
<1>4. PICK g : P(g) /\ Copied(unit, direction, dst, src, k) = g[k]
  BY <1>2, <1>3
<1>5. g[0] = mem /\ \A i \in 1 .. k : g[i] = U(g[i - 1], i)
  BY <1>4
<1> QED BY <1>4, <1>5 DEF U

LEMMA UnitCopiedType ==
  ASSUME NEW m \in [Address -> Byte], NEW unit \in Int, NEW direction \in Int, NEW dst \in Int,
         NEW src \in Int, NEW i \in Int
  PROVE  UnitCopied(m, unit, direction, dst, src, i) \in [Address -> Byte]
<1> DEFINE moved == direction * unit * (i - 1)
<1>1. moved \in Int
  OBVIOUS
<1> HIDE DEF moved
<1>2. ASSUME NEW a \in Address
      PROVE  (src + moved + ((a - dst - moved) % N)) % N \in Address
  BY <1>1, AddressSpace DEF Address
<1> QED BY <1>1, <1>2 DEF UnitCopied, moved

LEMMA CopiedType ==
  ASSUME NEW unit \in Int, NEW direction \in Int, NEW dst \in Int, NEW src \in Int,
         NEW k \in 0 .. 4, mem \in [Address -> Byte]
  PROVE  Copied(unit, direction, dst, src, k) \in [Address -> Byte]
<1> DEFINE U(m, i) == UnitCopied(m, unit, direction, dst, src, i)
<1>1. PICK g : /\ g[0] = mem
               /\ \A i \in 1 .. k : g[i] = U(g[i - 1], i)
               /\ Copied(unit, direction, dst, src, k) = g[k]
  BY CopiedByUnits
<1>2. \A m \in [Address -> Byte], i \in Int : U(m, i) \in [Address -> Byte]
  BY UnitCopiedType
<1> HIDE DEF U
<1>3. ASSUME NEW j \in 1 .. k, g[j - 1] \in [Address -> Byte] PROVE g[j] \in [Address -> Byte]
  <2>1. g[j] = U(g[j - 1], j) /\ j \in Int
    BY <1>1
  <2> QED BY <1>2, <1>3, <2>1
<1>4. g[0] \in [Address -> Byte] /\ (k >= 1 => 1 \in 1 .. k) /\ (k >= 2 => 2 \in 1 .. k)
      /\ (k >= 3 => 3 \in 1 .. k) /\ (k >= 4 => 4 \in 1 .. k)
  BY <1>1
<1>5. k >= 1 => g[1] \in [Address -> Byte]
  BY <1>3, <1>4
<1>6. k >= 2 => g[2] \in [Address -> Byte]
  <2>1. k >= 2 => k >= 1 /\ 2 - 1 = 1
    OBVIOUS
  <2> QED BY <1>3, <1>4, <1>5, <2>1
<1>7. k >= 3 => g[3] \in [Address -> Byte]
  <2>1. k >= 3 => k >= 2 /\ 3 - 1 = 2
    OBVIOUS
  <2> QED BY <1>3, <1>4, <1>6, <2>1
<1>8. k >= 4 => g[4] \in [Address -> Byte]
  <2>1. k >= 4 => k >= 3 /\ 4 - 1 = 3
    OBVIOUS
  <2> QED BY <1>3, <1>4, <1>7, <2>1
<1>9. k = 0 \/ k = 1 \/ k = 2 \/ k = 3 \/ k = 4
  OBVIOUS
<1> QED BY <1>1, <1>4, <1>5, <1>6, <1>7, <1>8, <1>9

LEMMA FilledType ==
  ASSUME mem \in [Address -> Byte], call \in CallArguments, NEW dst, NEW bytes
  PROVE  Filled(dst, bytes) \in [Address -> Byte]
BY DEF Filled, CallArguments

LEMMA Wraps ==
  ASSUME NEW a \in Int, -N <= a, a < 2 * N
  PROVE  a % N = IF a < 0 THEN a + N ELSE IF a < N THEN a ELSE a - N
<1>1. N \in Nat /\ N > 0
  BY AddressSpace
<1>2. PICK q \in Int : a = (N * q) + (a % N)
  <2>1. a % N = a - N * (a \div N) /\ a \div N \in Int
    BY <1>1
  <2> QED BY <1>1, <2>1
<1>3. a % N \in 0 .. N - 1
  BY <1>1
<1>4. q = -1 \/ q = 0 \/ q = 1
  <2>1. q >= 2 => N * q >= 2 * N
    BY <1>1
  <2>2. q <= -2 => N * q <= -(2 * N)
    BY <1>1
  <2> QED BY <1>1, <1>2, <1>3, <2>1, <2>2
<1>5. N * q = -N \/ N * q = 0 \/ N * q = N
  BY <1>1, <1>4
<1> QED BY <1>1, <1>2, <1>3, <1>5

\* From an address to the next word boundary, and from there to the end of the block.
LEMMA AlignmentOfBlock ==
  ASSUME NEW p \in Address
  PROVE  /\ BytesBeforeAlign(p) \in 0 .. 3
         /\ (p + BytesBeforeAlign(p)) % 4 = 0
         /\ p + BytesBeforeAlign(p) <= N
         /\ ROUND_UP(p, WORD) = IF p + BytesBeforeAlign(p) < N THEN p + BytesBeforeAlign(p) ELSE 0
<1>1. N \in Nat /\ N > 0 /\ N % 4 = 0 /\ p \in 0 .. N - 1
  BY AddressSpace DEF Address
<1>2. PICK m \in Int : N = 4 * m
  <2>1. N = 4 * (N \div 4) /\ N \div 4 \in Int
    BY <1>1
  <2> QED BY <2>1
<1>3. CASE p = 0
  <2>1. (p - 1) % N = N - 1
    BY <1>1, <1>3, Wraps
  <2>2. HOW_MANY(p, WORD) = m
    BY <1>1, <1>2, <2>1 DEF HOW_MANY, WORD
  <2>3. ROUND_UP(p, WORD) = 0
    <3>1. ROUND_UP(p, WORD) = N % N
      BY <1>2, <2>2 DEF ROUND_UP, WORD
    <3> QED BY <1>1, <3>1, Wraps
  <2>4. BytesBeforeAlign(p) = 0
    BY <1>1, <1>3, <2>3, Wraps DEF BytesBeforeAlign
  <2> QED BY <1>1, <1>3, <2>3, <2>4
<1>4. CASE p # 0
  <2>1. (p - 1) % N = p - 1
    BY <1>1, <1>4, Wraps
  <2> DEFINE h == ((p - 1) \div 4) + 1
  <2>2. HOW_MANY(p, WORD) = h
    BY <2>1 DEF HOW_MANY, WORD
  <2>3. h \in Int /\ p <= 4 * h /\ 4 * h < p + 4
    BY <1>1, <1>4
  <2> HIDE DEF h
  <2>4. 4 * h <= N
    BY <1>1, <1>2, <2>3
  <2>5. ROUND_UP(p, WORD) = IF 4 * h < N THEN 4 * h ELSE 0
    <3>1. ROUND_UP(p, WORD) = (4 * h) % N
      BY <2>2, <2>3 DEF ROUND_UP, WORD
    <3> QED BY <1>1, <1>4, <2>3, <2>4, <3>1, Wraps
  <2>6. BytesBeforeAlign(p) = 4 * h - p
    <3>1. ROUND_UP(p, WORD) - p = IF 4 * h < N THEN 4 * h - p ELSE -p
      BY <1>1, <2>3, <2>5
    <3> QED BY <1>1, <1>4, <2>3, <2>4, <3>1, Wraps DEF BytesBeforeAlign
  <2>7. (4 * h) % 4 = 0 /\ p + (4 * h - p) = 4 * h
    BY <1>1, <2>3
  <2> QED BY <1>1, <2>3, <2>4, <2>5, <2>6, <2>7
<1> QED BY <1>3, <1>4

-----------------------------------------------------------------------------
(* The types of the memory functions' state.                               *)

Points == {"idle", "memcpy", "memmove", "memset", "memcmp", "bytes", "head", "words",
           "tail", "ascending", "backwords", "descending", "setwords", "settail", "compare",
           "returned"}

\* A jump keeps the types, whatever it does to the memory and to the result.
LEMMA GoToKeepsTypes ==
  ASSUME MemTypeOK, NEW at \in Points, NEW dst \in Int, NEW src \in Int, GoTo(at, dst, src),
         mem' \in [Address -> Byte], result' \in {-1, 0, 1}
  PROVE  MemTypeOK'
<1>1. dst % N \in Address /\ src % N \in Address
  BY AddressSpace DEF Address
<1> QED BY <1>1 DEF MemTypeOK, GoTo, Points

\* The arguments of a call, and the three parts of its blocks, are numbers.
LEMMA PartsAreNumbers ==
  ASSUME NEW c \in CallArguments
  PROVE  /\ c.dst \in Int /\ c.src \in Int /\ c.size \in Int
         /\ ROUND_UP(c.dst, WORD) \in Int /\ ROUND_UP(c.src, WORD) \in Int
         /\ BytesBeforeAlign(c.dst) \in 0 .. 3
         /\ BytesAfterAlign(c) \in 0 .. 3
         /\ AlignedSize(c) \in Int
<1>1. N \in Nat /\ N > 0 /\ c.dst \in Address /\ c.src \in Address /\ c.size \in 0 .. N - 1
  BY AddressSpace DEF CallArguments, Address
<1>2. c.dst \in Int /\ c.src \in Int /\ c.size \in Int
  BY <1>1 DEF Address
<1>3. BytesBeforeAlign(c.dst) \in 0 .. 3
  BY <1>1, AlignmentOfBlock
<1>4. BytesAfterAlign(c) \in 0 .. 3
  <2>1. (c.size - BytesBeforeAlign(c.dst)) % N \in Int
    BY <1>1, <1>2, <1>3
  <2> QED BY <2>1 DEF BytesAfterAlign, WORD
<1>5. AlignedSize(c) \in Int
  BY <1>1, <1>2, <1>3, <1>4 DEF AlignedSize
<1> QED BY <1>2, <1>3, <1>4, <1>5, RoundUpAligned

LEMMA FunctionKeepsTypes ==
  ASSUME MemInv, MemTypeOK, FunctionStep
  PROVE  MemTypeOK'
<1>1. /\ call \in CallArguments
      /\ mem \in [Address -> Byte] /\ result \in {-1, 0, 1}
      /\ dst_cursor \in Int /\ src_cursor \in Int
  BY AddressSpace DEF MemInv, MemTypeOK, Address
<1>2. /\ call.dst \in Int /\ call.src \in Int /\ call.size \in Int
      /\ ROUND_UP(call.dst, WORD) \in Int /\ ROUND_UP(call.src, WORD) \in Int
      /\ BytesBeforeAlign(call.dst) \in 0 .. 3 /\ BytesAfterAlign(call) \in 0 .. 3
      /\ AlignedSize(call) \in Int
  BY <1>1, PartsAreNumbers
<1> DEFINE rest(size) == (size \div WORD) % UNROLL_TIMES
<1>3. \A size \in Int : rest(size) \in 0 .. 4 /\ rest(size) * WORD \in Int
  BY DEF UNROLL_TIMES, WORD
<1> DEFINE copied(unit, direction, dst, src, k) ==
             mem' = Copied(unit, direction, dst, src, k) => mem' \in [Address -> Byte]
<1>4. \A unit \in {1, WORD}, direction \in {-1, 1}, dst \in Int, src \in Int, k \in 0 .. 4 :
        copied(unit, direction, dst, src, k)
  <2> SUFFICES ASSUME NEW unit \in {1, WORD}, NEW direction \in {-1, 1}, NEW dst \in Int,
                      NEW src \in Int, NEW k \in 0 .. 4
               PROVE  copied(unit, direction, dst, src, k)
    BY Zenon
  <2>1. unit \in Int /\ direction \in Int
    BY DEF WORD
  <2>2. Copied(unit, direction, dst, src, k) \in [Address -> Byte]
    BY <2>1, <1>1, CopiedType
  <2> QED BY <2>2, Zenon
<1>5. \A dst, bytes : Filled(dst, bytes) \in [Address -> Byte]
  BY <1>1, FilledType
<1>6. 1 \in 0 .. 4 /\ UNROLL_TIMES \in 0 .. 4 /\ BytesBeforeAlign(call.dst) \in 0 .. 4
      /\ BytesAfterAlign(call) \in 0 .. 4
  BY <1>2 DEF UNROLL_TIMES
<1> HIDE DEF rest, copied
<1>7. mem' \in [Address -> Byte]
  <2>1. CASE mem' = mem
    BY <1>1, <2>1
  <2>2. CASE CopyByByte \/ CopyAscending \/ CopyDescending
    <3>1. CASE mem' = Copied(1, 1, dst_cursor, src_cursor, 1)
      BY <3>1, <1>1, <1>4, <1>6 DEF copied
    <3>2. CASE mem' = Copied(1, -1, dst_cursor, src_cursor, 1)
      BY <3>2, <1>1, <1>4, <1>6 DEF copied
    <3> QED BY <2>1, <2>2, <3>1, <3>2 DEF CopyByByte, CopyAscending, CopyDescending, Return
  <2>3. CASE CopyHead
    BY <2>3, <1>1, <1>4, <1>6 DEF CopyHead, copied
  <2>4. CASE CopyTail
    <3>1. /\ ROUND_UP(call.dst, WORD) + AlignedSize(call) \in Int
          /\ ROUND_UP(call.src, WORD) + AlignedSize(call) \in Int
      BY <1>2
    <3> QED BY <2>4, <3>1, <1>4, <1>6 DEF CopyTail, copied
  <2>5. CASE memcpy32
    <3>1. /\ rest(AlignedSize(call)) \in 0 .. 4 /\ rest(call.size) \in 0 .. 4
          /\ AlignedSize(call) \in Int /\ call.size \in Int
      BY <1>2, <1>3
    <3>2. \E k \in 0 .. 4 : \/ mem' = Copied(WORD, 1, dst_cursor, src_cursor, k)
      BY <2>5, <3>1, <1>6 DEF memcpy32, rest
    <3> QED BY <3>2, <1>1, <1>4 DEF copied
  <2>6. CASE memcpy32_backwards
    <3>1. \E k \in 0 .. 4 : \/ mem' = Copied(WORD, -1, dst_cursor, src_cursor, k)
      BY <2>6, <1>2, <1>3, <1>6 DEF memcpy32_backwards, rest
    <3> QED BY <3>1, <1>1, <1>4 DEF copied
  <2>7. CASE memset \/ memset32 \/ SetTail
    BY <2>7, <1>5 DEF memset, memset32, SetTail
  <2>8. CASE memcpy \/ memmove \/ memcmp \/ Compare
    BY <2>1, <2>8 DEF memcpy, memmove, memcmp, Compare
  <2> QED BY <2>2, <2>3, <2>4, <2>5, <2>6, <2>7, <2>8 DEF FunctionStep
<1>8. ASSUME NEW at \in Points, NEW dst \in Int, NEW src \in Int, GoTo(at, dst, src),
             result' \in {-1, 0, 1}
      PROVE  MemTypeOK'
  BY <1>7, <1>8, GoToKeepsTypes
<1> DEFINE Lands == \E at \in Points, dst \in Int, src \in Int : GoTo(at, dst, src)
<1>9. ASSUME Lands, result' \in {-1, 0, 1} PROVE MemTypeOK'
  BY <1>8, <1>9
<1>10. ASSUME NEW value, Return(value) PROVE Lands /\ result' = value
  BY <1>10 DEF Return, Points
<1>11. ASSUME NEW at \in Points, NEW dst \in Int, NEW src \in Int, GoTo(at, dst, src) PROVE Lands
  BY <1>11
<1>12. ASSUME NEW bytes \in Int, Advance(bytes), fn_pc \in Points PROVE Lands /\ result' = result
  BY <1>1, <1>12 DEF Advance
<1> HIDE DEF Lands
<1>13. CASE memcpy \/ memcmp
  BY <1>13, <1>1, <1>2, <1>9, <1>11 DEF memcpy, memcmp, Points
<1>14. CASE CopyByByte \/ CopyAscending \/ CopyDescending
  BY <1>14, <1>1, <1>9, <1>10, <1>12
     DEF CopyByByte, CopyAscending, CopyDescending, Points
<1>15. CASE CopyHead
  BY <1>15, <1>1, <1>2, <1>9, <1>11 DEF CopyHead, Points
<1>16. CASE memcpy32
  <2>1. CASE GoTo("words", dst_cursor + UNROLL_TIMES * WORD, src_cursor + UNROLL_TIMES * WORD)
             /\ result' = result
    BY <2>1, <1>1, <1>9, <1>11 DEF UNROLL_TIMES, WORD, Points
  <2>2. CASE /\ \E k \in Int : GoTo("tail", dst_cursor + k * WORD, src_cursor + k * WORD)
             /\ result' = result
    BY <2>2, <1>1, <1>9, <1>11 DEF WORD, Points
  <2>3. CASE Return(0)
    BY <2>3, <1>9, <1>10
  <2>4. rest(AlignedSize(call)) \in Int /\ rest(call.size) \in Int
    BY <1>2, <1>3
  <2>5. fn_pc = "words"
    BY <1>16 DEF memcpy32
  <2> QED BY <1>16, <2>1, <2>2, <2>3, <2>4, <2>5 DEF memcpy32, Advance, rest
<1>17. CASE CopyTail \/ SetTail
  BY <1>17, <1>9, <1>10 DEF CopyTail, SetTail
<1>18. CASE memmove
  <2>1. CASE call' = [call EXCEPT !.fn = "memcpy"] /\ fn_pc' = "memcpy"
             /\ UNCHANGED <<saved, dst_cursor, src_cursor, result>>
    BY <1>7, <2>1 DEF MemTypeOK
  <2>2. CASE /\ \E at \in Points, k \in Int : GoTo(at, call.dst + k, call.src + k)
             /\ result' = result
    BY <2>2, <1>1, <1>2, <1>9, <1>11
  <2>3. CASE Return(0)
    BY <2>3, <1>9, <1>10
  <2>4. CASE GoTo(IF AllAligned(call) THEN "words" ELSE "ascending", call.dst, call.src)
             /\ result' = result
    BY <2>4, <1>1, <1>2, <1>9, <1>11 DEF Points
  <2>5. call.size - WORD \in Int /\ call.size - 1 \in Int /\ {"backwords", "descending"} \subseteq Points
    BY <1>2 DEF WORD, Points
  <2> QED BY <1>18, <2>1, <2>2, <2>3, <2>4, <2>5 DEF memmove
<1>19. CASE memcpy32_backwards
  BY <1>19, <1>9, <1>10, <1>12, <1>1 DEF memcpy32_backwards, UNROLL_TIMES, WORD, Points
<1>20. CASE memset
  BY <1>20, <1>1, <1>2, <1>9, <1>11 DEF memset, Points
<1>21. CASE memset32
  <2>1. CASE \E at \in Points, k \in Int : GoTo(at, dst_cursor + k, 0)
    BY <1>21, <2>1, <1>1, <1>9, <1>11 DEF memset32
  <2>2. /\ UNROLL_TIMES * WORD \in Int /\ rest(AlignedSize(call)) * WORD \in Int
        /\ {"setwords", "settail"} \subseteq Points
    BY <1>2, <1>3 DEF UNROLL_TIMES, WORD, Points
  <2> QED BY <1>21, <2>1, <2>2 DEF memset32, rest
<1>22. CASE Compare
  BY <1>22, <1>1, <1>9, <1>10, <1>12 DEF Compare, Points
<1> QED BY <1>13, <1>14, <1>15, <1>16, <1>17, <1>18, <1>19, <1>20, <1>21, <1>22 DEF FunctionStep

\* Every step of the program keeps the types of the memory functions' state.
LEMMA MemTypesStep ==
  ASSUME MemInv, MemTypeOK, [Next]_vars
  PROVE  MemTypeOK'
<1>1. CASE UNCHANGED mem_vars
  BY <1>1 DEF mem_vars, MemTypeOK
<1>2. CASE Anew
  <2>1. 0 \in Address
    BY AddressSpace DEF Address
  <2> QED BY <1>2, <2>1, ContentsOfMemory DEF Anew, MemTypeOK
<1>3. ASSUME NEW c \in CallRecords, Call(c) PROVE MemTypeOK'
  <2>1. c.fn \in {"memcpy", "memmove", "memset", "memcmp"}
    BY CallsOfFunctions DEF CallArguments
  <2> QED BY <1>3, <2>1 DEF Call, MemTypeOK
<1> QED BY <1>1, <1>2, <1>3, FunctionKeepsTypes
        DEF Next, LoaderStep, FlashStep, ApplicationStep, PowerOn, MemNext, ApplicationGoesOn, vars

\* Every variable of the program holds a value of its type: the receive FIFO never
\* more than the bytes of one command, the cursors addresses only, though pointers
\* and sizes wrap around.
THEOREM TypeCorrect == Spec => []TypeOK
<1> DEFINE Types == BootRanges /\ MemTypeOK
<1>1. Init => Types
  <2>1. Len(<<>>) \in 0 .. 3 /\ 0 \in Address
    BY AddressSpace DEF Address
  <2> QED BY <2>1, ResetBound, ContentsOfMemory
          DEF Init, BootInit, MemInit, BootRanges, MemTypeOK
<1>2. Types /\ BootInv /\ MemInv /\ [Next]_vars => Types'
  BY BootRangesStep, MemTypesStep
     DEF Next, LoaderStep, FlashStep, ApplicationStep, PowerOn, BootNext, vars
<1>3. Types /\ BootInv => TypeOK
  <2> SUFFICES ASSUME Types, BootInv PROVE TypeOK
    OBVIOUS
  <2>1. \A n \in 0 .. 3 : n <= 3
    OBVIOUS
  <2>2. BootRanges /\ MemTypeOK
    BY Zenon
  <2> QED BY <2>1, <2>2, Zenon DEF BootRanges, BootInv, ControlInv, TypeOK, BootTypeOK
<1> QED BY <1>1, <1>2, <1>3, BootInvHolds, MemInvHolds, PTL DEF Spec

-----------------------------------------------------------------------------
(* What the memory functions promise.  The argument: at every point of a   *)
(* copy or a set the bytes from one offset of the destination to another   *)
(* have the value that was promised, and all other bytes their old one.    *)
(* A unit copied upwards extends such a range at its end, one copied       *)
(* downwards at its start, if its source does not meet the range.          *)

\* A number that is at most one address space below it.
LEMMA WrapsOnce ==
  ASSUME NEW x \in Int, -N <= x, x < N
  PROVE  x % N = IF x < 0 THEN x + N ELSE x
<1>1. x < 2 * N
  BY AddressSpace
<1> QED BY <1>1, Wraps

\* The calls for which the functions keep their promise.  The blocks end before the
\* end of the address space (the loops compare pointers with ends, and the one of
\* memcpy32_backwards with the address of the fourth word of the block), and as in C
\* those of memcpy do not overlap.
BlocksFit(c) ==
  /\ c.dst + c.size + UNROLL_TIMES * WORD <= N
  /\ c.fn # "memset" => c.src + c.size < N

Disjoint(c) == c.src + c.size <= c.dst \/ c.dst + c.size <= c.src

Regular(c) == BlocksFit(c) /\ (c.fn = "memcpy" => Disjoint(c))

\* The byte promised to an address of the destination.
ByteAt(a) == IF call.fn = "memset" THEN call.value ELSE saved[call.src + (a - call.dst)]

\* In the memory m the offsets from lo to hi have what was promised, and nothing else changed.
IsDone(m, lo, hi) ==
  m = [a \in Address |-> IF call.dst + lo <= a /\ a < call.dst + hi THEN ByteAt(a) ELSE saved[a]]

\* What a copy of a unit of bytes from one address to another does.
Moved(m, dst, src, unit) ==
  [a \in Address |-> IF dst <= a /\ a < dst + unit THEN m[src + (a - dst)] ELSE m[a]]

\* How far the i-th unit is from the first.
Distance(direction, unit, i) == direction * unit * (i - 1)

\* A unit of a copy that does not wrap around is such a copy.
LEMMA UnitMoves ==
  ASSUME NEW m, NEW unit \in Nat, NEW direction \in Int, NEW dst \in Int, NEW src \in Int,
         NEW i \in Int,
         dst + Distance(direction, unit, i) \in Nat, dst + Distance(direction, unit, i) + unit <= N,
         src + Distance(direction, unit, i) \in Nat, src + Distance(direction, unit, i) + unit <= N
  PROVE  UnitCopied(m, unit, direction, dst, src, i)
           = Moved(m, dst + Distance(direction, unit, i), src + Distance(direction, unit, i), unit)
<1> DEFINE moved == Distance(direction, unit, i)
<1>0. moved \in Int
  BY DEF Distance
<1> HIDE DEF moved
<1>1. ASSUME NEW a \in Address
      PROVE  /\ (a - dst - moved) % N < unit <=> (dst + moved <= a /\ a < dst + moved + unit)
             /\ (a - dst - moved) % N < unit =>
                  (src + moved + ((a - dst - moved) % N)) % N = src + moved + (a - (dst + moved))
  <2>1. /\ N \in Nat /\ a \in 0 .. N - 1 /\ unit \in Nat
        /\ dst + moved \in Nat /\ dst + moved + unit <= N
        /\ src + moved \in Nat /\ src + moved + unit <= N
    BY AddressSpace DEF Address, moved
  <2> DEFINE o == a - dst - moved
  <2>2. o \in Int /\ -N <= o /\ o < N
    BY <1>0, <2>1
  <2>3. o % N = IF o < 0 THEN o + N ELSE o
    BY <2>2, WrapsOnce
  <2>4. o % N < unit <=> (dst + moved <= a /\ a < dst + moved + unit)
    BY <1>0, <2>1, <2>2, <2>3
  <2>5. ASSUME o % N < unit
        PROVE  (src + moved + (o % N)) % N = src + moved + (a - (dst + moved))
    <3>1. o % N = a - (dst + moved) /\ 0 <= a - (dst + moved) /\ a - (dst + moved) < unit
      BY <1>0, <2>1, <2>3, <2>4, <2>5
    <3>2. src + moved + (a - (dst + moved)) \in 0 .. N - 1
      BY <1>0, <2>1, <3>1
    <3>3. (src + moved + (a - (dst + moved))) % N = src + moved + (a - (dst + moved))
      BY <2>1, <3>2, Wraps
    <3> QED BY <3>1, <3>3
  <2> QED BY <2>4, <2>5
<1>2. UnitCopied(m, unit, direction, dst, src, i)
        = [a \in Address |-> IF (a - dst - moved) % N < unit
                             THEN m[(src + moved + ((a - dst - moved) % N)) % N] ELSE m[a]]
  BY DEF UnitCopied, Distance, moved
<1> QED BY <1>1, <1>2 DEF Moved, moved

\* Upwards: the source of the unit has not been overwritten, since it lies behind the
\* destination or apart from it.
LEMMA MovedUp ==
  ASSUME call \in CallArguments, Regular(call), call.fn # "memset",
         Disjoint(call) \/ call.dst < call.src,
         NEW m, NEW lo \in Nat, NEW hi \in Nat, NEW unit \in {1, 4},
         lo <= hi, hi + unit <= call.size, IsDone(m, lo, hi)
  PROVE  IsDone(Moved(m, call.dst + hi, call.src + hi, unit), lo, hi + unit)
<1>1. /\ N \in Nat /\ call.dst \in Nat /\ call.src \in Nat /\ call.size \in Nat
      /\ call.dst + call.size < N /\ call.src + call.size < N
  BY AddressSpace DEF CallArguments, Address, Regular, BlocksFit, UNROLL_TIMES, WORD
<1> DEFINE d == call.dst + hi
           s == call.src + hi
<1>2. ASSUME NEW a \in Address
      PROVE  (IF d <= a /\ a < d + unit THEN m[s + (a - d)] ELSE m[a])
               = IF call.dst + lo <= a /\ a < call.dst + (hi + unit) THEN ByteAt(a) ELSE saved[a]
  <2>1. a \in 0 .. N - 1
    BY DEF Address
  <2>2. m[a] = IF call.dst + lo <= a /\ a < call.dst + hi THEN ByteAt(a) ELSE saved[a]
    BY DEF IsDone
  <2>3. CASE d <= a /\ a < d + unit
    <3> DEFINE x == s + (a - d)
    <3>1. x = call.src + (a - call.dst) /\ x \in Address
      BY <1>1, <2>1, <2>3 DEF Address
    <3>2. ~(call.dst + lo <= x /\ x < call.dst + hi)
      BY <1>1, <2>1, <2>3, <3>1 DEF Disjoint
    <3>3. m[x] = saved[x]
      BY <3>1, <3>2 DEF IsDone
    <3> QED BY <1>1, <2>1, <2>3, <3>1, <3>3 DEF ByteAt
  <2>4. CASE ~(d <= a /\ a < d + unit)
    BY <1>1, <2>1, <2>2, <2>4
  <2> QED BY <2>3, <2>4
<1> QED BY <1>2 DEF IsDone, Moved

\* Downwards: it lies before the destination.
LEMMA MovedDown ==
  ASSUME call \in CallArguments, Regular(call), call.fn # "memset", call.src < call.dst,
         NEW m, NEW lo \in Nat, NEW hi \in Nat, NEW unit \in {1, 4},
         lo <= hi, hi <= call.size, unit <= lo, IsDone(m, lo, hi)
  PROVE  IsDone(Moved(m, call.dst + (lo - unit), call.src + (lo - unit), unit), lo - unit, hi)
<1>1. /\ N \in Nat /\ call.dst \in Nat /\ call.src \in Nat /\ call.size \in Nat
      /\ call.dst + call.size < N /\ call.src + call.size < N
  BY AddressSpace DEF CallArguments, Address, Regular, BlocksFit, UNROLL_TIMES, WORD
<1> DEFINE d == call.dst + (lo - unit)
           s == call.src + (lo - unit)
<1>2. ASSUME NEW a \in Address
      PROVE  (IF d <= a /\ a < d + unit THEN m[s + (a - d)] ELSE m[a])
               = IF call.dst + (lo - unit) <= a /\ a < call.dst + hi THEN ByteAt(a) ELSE saved[a]
  <2>1. a \in 0 .. N - 1
    BY DEF Address
  <2>2. m[a] = IF call.dst + lo <= a /\ a < call.dst + hi THEN ByteAt(a) ELSE saved[a]
    BY DEF IsDone
  <2>3. CASE d <= a /\ a < d + unit
    <3> DEFINE x == s + (a - d)
    <3>1. x = call.src + (a - call.dst) /\ x \in Address
      BY <1>1, <2>1, <2>3 DEF Address
    <3>2. ~(call.dst + lo <= x /\ x < call.dst + hi)
      BY <1>1, <2>1, <2>3, <3>1
    <3>3. m[x] = saved[x]
      BY <3>1, <3>2 DEF IsDone
    <3> QED BY <1>1, <2>1, <2>3, <3>1, <3>3 DEF ByteAt
  <2>4. CASE ~(d <= a /\ a < d + unit)
    BY <1>1, <2>1, <2>2, <2>4
  <2> QED BY <2>3, <2>4
<1> QED BY <1>2 DEF IsDone, Moved

\* So do several units, upwards and downwards.
LEMMA CopyExtendsUp ==
  ASSUME call \in CallArguments, Regular(call), call.fn # "memset",
         Disjoint(call) \/ call.dst < call.src,
         NEW lo \in Nat, NEW hi \in Nat, NEW unit \in {1, 4}, NEW k \in 0 .. 4,
         lo <= hi, hi + unit * k <= call.size, IsDone(mem, lo, hi)
  PROVE  IsDone(Copied(unit, 1, call.dst + hi, call.src + hi, k), lo, hi + unit * k)
<1> DEFINE d == call.dst + hi
           s == call.src + hi
<1>1. PICK g : /\ g[0] = mem
               /\ \A i \in 1 .. k : g[i] = UnitCopied(g[i - 1], unit, 1, d, s, i)
               /\ Copied(unit, 1, d, s, k) = g[k]
  BY CopiedByUnits
<1>2. /\ N \in Nat /\ call.dst \in Nat /\ call.src \in Nat /\ call.size \in Nat
      /\ call.dst + call.size < N /\ call.src + call.size < N
  BY AddressSpace DEF CallArguments, Address, Regular, BlocksFit, UNROLL_TIMES, WORD
<1> HIDE DEF d, s
<1>3. ASSUME NEW i \in 1 .. k, NEW before \in Nat, before = unit * (i - 1),
             unit * i = before + unit, before + unit <= unit * k, IsDone(g[i - 1], lo, hi + before)
      PROVE  IsDone(g[i], lo, hi + unit * i)
  <2>1. before = Distance(1, unit, i) /\ i \in 1 .. 4 /\ unit \in Nat
    BY <1>3 DEF Distance
  <2>2. /\ d + before \in Nat /\ d + before + unit <= N
        /\ s + before \in Nat /\ s + before + unit <= N
        /\ hi + before + unit <= call.size
    BY <1>2, <1>3, <2>1 DEF d, s
  <2>3. UnitCopied(g[i - 1], unit, 1, d, s, i) = Moved(g[i - 1], d + before, s + before, unit)
    <3>1. d \in Int /\ s \in Int /\ i \in Int
      BY <1>2 DEF d, s
    <3> QED BY <2>1, <2>2, <3>1, UnitMoves
  <2>4. g[i] = Moved(g[i - 1], call.dst + (hi + before), call.src + (hi + before), unit)
    <3>1. d + before = call.dst + (hi + before) /\ s + before = call.src + (hi + before)
      BY <1>2 DEF d, s
    <3> QED BY <1>1, <2>3, <3>1
  <2>5. hi + before \in Nat /\ lo <= hi + before /\ (hi + before) + unit <= call.size
    BY <2>2, <1>2
  <2>6. IsDone(g[i], lo, (hi + before) + unit)
    BY <1>3, <2>4, <2>5, MovedUp
  <2>7. (hi + before) + unit = hi + unit * i
    BY <1>3, <2>1
  <2> QED BY <2>6, <2>7
<1>4. IsDone(g[0], lo, hi + 0)
  BY <1>1
<1> DEFINE done(i) == IsDone(g[i], lo, hi + unit * i)
<1>5. /\ k = 0 => unit * k = 0
      /\ \A i \in 1 .. 4 : i <= k => /\ unit * (i - 1) \in Nat /\ unit * i = unit * (i - 1) + unit
                                     /\ unit * (i - 1) + unit <= unit * k
  BY SMT
<1>6. ASSUME NEW i \in 1 .. 4, i <= k, IsDone(g[i - 1], lo, hi + unit * (i - 1)) PROVE done(i)
  <2>1. i \in 1 .. k /\ unit * (i - 1) \in Nat /\ unit * i = unit * (i - 1) + unit
        /\ unit * (i - 1) + unit <= unit * k
    BY <1>5, <1>6
  <2> QED BY <1>3, <1>6, <2>1
<1>7. done(0)
  <2>1. unit * 0 = 0
    OBVIOUS
  <2> QED BY <1>4, <2>1
<1> HIDE DEF done
<1>8. ASSUME NEW i \in 1 .. 4, i <= k, done(i - 1) PROVE done(i)
  BY <1>6, <1>8 DEF done
<1>9. k >= 1 => done(1)
  <2>1. 1 - 1 = 0 /\ 1 \in 1 .. 4
    OBVIOUS
  <2> QED BY <1>7, <1>8, <2>1
<1>10. k >= 2 => done(2)
  <2>1. 2 - 1 = 1 /\ 2 \in 1 .. 4 /\ (k >= 2 => k >= 1)
    OBVIOUS
  <2> QED BY <1>8, <1>9, <2>1
<1>11. k >= 3 => done(3)
  <2>1. 3 - 1 = 2 /\ 3 \in 1 .. 4 /\ (k >= 3 => k >= 2)
    OBVIOUS
  <2> QED BY <1>8, <1>10, <2>1
<1>12. k >= 4 => done(4)
  <2>1. 4 - 1 = 3 /\ 4 \in 1 .. 4 /\ (k >= 4 => k >= 3)
    OBVIOUS
  <2> QED BY <1>8, <1>11, <2>1
<1>13. done(k)
  <2>1. k = 0 \/ k = 1 \/ k = 2 \/ k = 3 \/ k = 4
    OBVIOUS
  <2> QED BY <1>7, <1>9, <1>10, <1>11, <1>12, <2>1
<1> QED BY <1>1, <1>13 DEF done, d, s

LEMMA CopyExtendsDown ==
  ASSUME call \in CallArguments, Regular(call), call.fn # "memset", call.src < call.dst,
         NEW lo \in Nat, NEW hi \in Nat, NEW unit \in {1, 4}, NEW k \in 0 .. 4,
         lo <= hi, hi <= call.size, unit * k <= lo, IsDone(mem, lo, hi)
  PROVE  IsDone(Copied(unit, -1, call.dst + (lo - unit), call.src + (lo - unit), k),
                lo - unit * k, hi)
<1> DEFINE d == call.dst + (lo - unit)
           s == call.src + (lo - unit)
<1>1. PICK g : /\ g[0] = mem
               /\ \A i \in 1 .. k : g[i] = UnitCopied(g[i - 1], unit, -1, d, s, i)
               /\ Copied(unit, -1, d, s, k) = g[k]
  BY CopiedByUnits
<1>2. /\ N \in Nat /\ call.dst \in Nat /\ call.src \in Nat /\ call.size \in Nat
      /\ call.dst + call.size < N /\ call.src + call.size < N
  BY AddressSpace DEF CallArguments, Address, Regular, BlocksFit, UNROLL_TIMES, WORD
<1> HIDE DEF d, s
<1>3. ASSUME NEW i \in 1 .. k, NEW before \in Nat, before = unit * (i - 1),
             unit * i = before + unit, before + unit <= unit * k, IsDone(g[i - 1], lo - before, hi)
      PROVE  IsDone(g[i], lo - unit * i, hi)
  <2>1. -before = Distance(-1, unit, i) /\ i \in 1 .. 4 /\ unit \in Nat
    BY <1>3 DEF Distance
  <2>2. /\ d + -before \in Nat /\ d + -before + unit <= N
        /\ s + -before \in Nat /\ s + -before + unit <= N
        /\ before + unit <= lo
    BY <1>2, <1>3, <2>1 DEF d, s
  <2>3. UnitCopied(g[i - 1], unit, -1, d, s, i) = Moved(g[i - 1], d + -before, s + -before, unit)
    <3>1. d \in Int /\ s \in Int /\ i \in Int
      BY <1>2 DEF d, s
    <3> QED BY <2>1, <2>2, <3>1, UnitMoves
  <2>4. g[i] = Moved(g[i - 1], call.dst + ((lo - before) - unit),
                     call.src + ((lo - before) - unit), unit)
    <3>1. /\ d + -before = call.dst + ((lo - before) - unit)
          /\ s + -before = call.src + ((lo - before) - unit)
      BY <1>2 DEF d, s
    <3> QED BY <1>1, <2>3, <3>1
  <2>5. lo - before \in Nat /\ lo - before <= hi /\ unit <= lo - before
    BY <2>2, <1>2
  <2>6. IsDone(g[i], (lo - before) - unit, hi)
    BY <1>3, <2>4, <2>5, MovedDown
  <2>7. (lo - before) - unit = lo - unit * i
    BY <1>3, <2>1
  <2> QED BY <2>6, <2>7
<1>4. IsDone(g[0], lo - 0, hi)
  BY <1>1
<1> DEFINE done(i) == IsDone(g[i], lo - unit * i, hi)
<1>5. /\ k = 0 => unit * k = 0
      /\ \A i \in 1 .. 4 : i <= k => /\ unit * (i - 1) \in Nat /\ unit * i = unit * (i - 1) + unit
                                     /\ unit * (i - 1) + unit <= unit * k
  BY SMT
<1>6. ASSUME NEW i \in 1 .. 4, i <= k, IsDone(g[i - 1], lo - unit * (i - 1), hi) PROVE done(i)
  <2>1. i \in 1 .. k /\ unit * (i - 1) \in Nat /\ unit * i = unit * (i - 1) + unit
        /\ unit * (i - 1) + unit <= unit * k
    BY <1>5, <1>6
  <2> QED BY <1>3, <1>6, <2>1
<1>7. done(0)
  <2>1. unit * 0 = 0
    OBVIOUS
  <2> QED BY <1>4, <2>1
<1> HIDE DEF done
<1>8. ASSUME NEW i \in 1 .. 4, i <= k, done(i - 1) PROVE done(i)
  BY <1>6, <1>8 DEF done
<1>9. k >= 1 => done(1)
  <2>1. 1 - 1 = 0 /\ 1 \in 1 .. 4
    OBVIOUS
  <2> QED BY <1>7, <1>8, <2>1
<1>10. k >= 2 => done(2)
  <2>1. 2 - 1 = 1 /\ 2 \in 1 .. 4 /\ (k >= 2 => k >= 1)
    OBVIOUS
  <2> QED BY <1>8, <1>9, <2>1
<1>11. k >= 3 => done(3)
  <2>1. 3 - 1 = 2 /\ 3 \in 1 .. 4 /\ (k >= 3 => k >= 2)
    OBVIOUS
  <2> QED BY <1>8, <1>10, <2>1
<1>12. k >= 4 => done(4)
  <2>1. 4 - 1 = 3 /\ 4 \in 1 .. 4 /\ (k >= 4 => k >= 3)
    OBVIOUS
  <2> QED BY <1>8, <1>11, <2>1
<1>13. done(k)
  <2>1. k = 0 \/ k = 1 \/ k = 2 \/ k = 3 \/ k = 4
    OBVIOUS
  <2> QED BY <1>7, <1>9, <1>10, <1>11, <1>12, <2>1
<1> QED BY <1>1, <1>13 DEF done, d, s

\* A set extends the range at its end.
LEMMA FillExtends ==
  ASSUME call \in CallArguments, Regular(call), call.fn = "memset",
         NEW lo \in Nat, NEW hi \in Nat, NEW bytes \in Nat, NEW dst, dst = call.dst + hi,
         lo <= hi, hi + bytes <= call.size, IsDone(mem, lo, hi)
  PROVE  IsDone(Filled(dst, bytes), lo, hi + bytes)
<1>1. N \in Nat /\ call.dst \in Nat /\ call.size \in Nat /\ call.dst + call.size < N
  BY AddressSpace DEF CallArguments, Address, Regular, BlocksFit, UNROLL_TIMES, WORD
<1>2. ASSUME NEW a \in Address
      PROVE  (IF (a - dst) % N < bytes THEN call.value ELSE mem[a])
               = IF call.dst + lo <= a /\ a < call.dst + (hi + bytes) THEN ByteAt(a) ELSE saved[a]
  <2>1. a \in 0 .. N - 1 /\ dst \in Nat
    BY <1>1 DEF Address
  <2>2. a - dst \in Int /\ -N <= a - dst /\ a - dst < N
    BY <1>1, <2>1
  <2>3. (a - dst) % N = IF a < dst THEN a - dst + N ELSE a - dst
    <3>1. a - dst < 0 <=> a < dst
      BY <2>1
    <3> QED BY <2>2, <3>1, WrapsOnce
  <2>4. (a - dst) % N < bytes <=> (dst <= a /\ a < dst + bytes)
    BY <1>1, <2>1, <2>3
  <2>5. mem[a] = IF call.dst + lo <= a /\ a < call.dst + hi THEN ByteAt(a) ELSE saved[a]
    BY DEF IsDone
  <2>6. ByteAt(a) = call.value
    BY DEF ByteAt
  <2> QED BY <1>1, <2>1, <2>4, <2>5, <2>6
<1> QED BY <1>2 DEF IsDone, Filled

\* When all offsets are done, the promise is kept.
LEMMA DoneIsPromised ==
  ASSUME call \in CallArguments, Regular(call), call.fn # "memcmp", NEW m, IsDone(m, 0, call.size)
  PROVE  m = Promised(call)
<1>1. N \in Nat /\ call.dst \in Nat /\ call.size \in Nat /\ call.dst + call.size < N
      /\ call.src \in Nat /\ (call.fn # "memset" => call.src + call.size < N)
  BY AddressSpace DEF CallArguments, Address, Regular, BlocksFit, UNROLL_TIMES, WORD
<1>2. ASSUME NEW a \in Address
      PROVE  (IF call.fn = "memcmp" \/ (a - call.dst) % N >= call.size THEN saved[a]
              ELSE IF call.fn = "memset" THEN call.value
              ELSE saved[(call.src + ((a - call.dst) % N)) % N])
                = IF call.dst + 0 <= a /\ a < call.dst + call.size THEN ByteAt(a) ELSE saved[a]
  <2>1. a \in 0 .. N - 1
    BY DEF Address
  <2>3. (a - call.dst) % N = IF a < call.dst THEN a - call.dst + N ELSE a - call.dst
    <3>1. a - call.dst \in Int /\ -N <= a - call.dst /\ a - call.dst < N
          /\ (a - call.dst < 0 <=> a < call.dst)
      BY <1>1, <2>1
    <3> QED BY <3>1, WrapsOnce
  <2>4. (a - call.dst) % N >= call.size <=> ~(call.dst + 0 <= a /\ a < call.dst + call.size)
    BY <1>1, <2>1, <2>3
  <2>5. ASSUME call.dst + 0 <= a, a < call.dst + call.size, call.fn # "memset"
        PROVE  (call.src + ((a - call.dst) % N)) % N = call.src + (a - call.dst)
    <3>1. (a - call.dst) % N = a - call.dst
      BY <1>1, <2>1, <2>3, <2>5
    <3>2. call.src + (a - call.dst) \in Int /\ 0 <= call.src + (a - call.dst)
          /\ call.src + (a - call.dst) < N
      BY <1>1, <2>1, <2>5
    <3>3. (call.src + (a - call.dst)) % N = call.src + (a - call.dst)
      <4>1. -N <= call.src + (a - call.dst) /\ ~(call.src + (a - call.dst) < 0)
        BY <1>1, <3>2
      <4> QED BY <3>2, <4>1, WrapsOnce
    <3> QED BY <3>1, <3>3
  <2> QED BY <2>4, <2>5 DEF ByteAt
<1> QED BY <1>2 DEF IsDone, Promised

\* Where nothing has been done, nothing has changed.
LEMMA NothingDone ==
  ASSUME call \in CallArguments, mem = saved, saved \in [Address -> Byte], NEW at \in Int
  PROVE  IsDone(mem, at, at)
<1>1. ASSUME NEW a \in Address PROVE ~(call.dst + at <= a /\ a < call.dst + at)
  BY AddressSpace DEF Address, CallArguments
<1> QED BY <1>1 DEF IsDone

\* The parts of a block that is not shorter than its first part: the words are as
\* many as fit between two word boundaries.
LEMMA Parts ==
  ASSUME NEW c \in CallArguments, BlocksFit(c), BytesBeforeAlign(c.dst) <= c.size
  PROVE  /\ BytesBeforeAlign(c.dst) \in 0 .. 3 /\ BytesAfterAlign(c) \in 0 .. 3
         /\ AlignedSize(c) \in Nat
         /\ AlignedSize(c) % 4 = 0
         /\ BytesBeforeAlign(c.dst) + AlignedSize(c) + BytesAfterAlign(c) = c.size
         /\ ROUND_UP(c.dst, WORD) = c.dst + BytesBeforeAlign(c.dst)
         /\ c.fn # "memset" /\ BytesBeforeAlign(c.src) = BytesBeforeAlign(c.dst) =>
              ROUND_UP(c.src, WORD) = c.src + BytesBeforeAlign(c.dst)
<1> DEFINE b == BytesBeforeAlign(c.dst)
           t == BytesAfterAlign(c)
<1>1. /\ N \in Nat /\ c.dst \in Nat /\ c.src \in Nat /\ c.size \in Nat /\ c.dst + c.size < N
      /\ c.fn # "memset" => c.src + c.size < N
      /\ c.dst \in Address /\ c.src \in Address
  BY AddressSpace DEF CallArguments, Address, BlocksFit, UNROLL_TIMES, WORD
<1>2. b \in 0 .. 3 /\ (c.dst + b < N => ROUND_UP(c.dst, WORD) = c.dst + b)
  BY <1>1, AlignmentOfBlock
<1>3. BytesBeforeAlign(c.src) = b /\ c.src + b < N => ROUND_UP(c.src, WORD) = c.src + b
  BY <1>1, AlignmentOfBlock
<1> HIDE DEF b
<1>4. b <= c.size
  BY DEF b
<1>5. \A x \in 0 .. N - 1 : x % N = x
  BY <1>1, Wraps
<1> HIDE DEF t
<1>6. t = (c.size - b) % 4
  <2>1. c.size - b \in 0 .. N - 1
    BY <1>1, <1>2, <1>4
  <2>2. (c.size - b) % N = c.size - b
    BY <1>5, <2>1
  <2> QED BY <2>2 DEF BytesAfterAlign, WORD, b, t
<1>7. t \in 0 .. 3 /\ t <= c.size - b /\ (c.size - b - t) % 4 = 0
  <2>1. \A y \in Nat : y % 4 \in 0 .. 3 /\ y % 4 <= y /\ (y - (y % 4)) % 4 = 0
    OBVIOUS
  <2>2. c.size - b \in Nat
    BY <1>1, <1>2, <1>4
  <2> QED BY <1>6, <2>1, <2>2
<1>8. AlignedSize(c) = c.size - b - t
  <2>1. c.size - b - t \in 0 .. N - 1
    <3>1. c.size \in Int /\ c.size < N /\ N \in Int
      BY <1>1
    <3>2. b \in Int /\ 0 <= b
      BY <1>2
    <3>3. t \in Int /\ 0 <= t /\ t <= c.size - b
      BY <1>7
    <3> QED BY <3>1, <3>2, <3>3
  <2>2. AlignedSize(c) = (c.size - b - t) % N
    BY DEF AlignedSize, b, t
  <2> QED BY <1>5, <2>1, <2>2
<1>9. c.dst + b < N /\ (c.fn # "memset" => c.src + b < N)
  BY <1>1, <1>2, <1>4
<1>10. AlignedSize(c) \in Nat /\ b + AlignedSize(c) + t = c.size /\ AlignedSize(c) % 4 = 0
  <2>1. /\ b \in Int /\ t \in Int /\ t <= c.size - b /\ c.size \in Int
        /\ (c.size - b - t) % 4 = 0
    BY <1>1, <1>2, <1>7
  <2> QED BY <1>8, <2>1
<1> QED BY <1>2, <1>3, <1>7, <1>9, <1>10 DEF b, t

\* Where a call is, as long as its size does not wrap around.
SameAlignment ==
  call.fn = "memcpy" /\ BytesBeforeAlign(call.dst) = BytesBeforeAlign(call.src)
MovesUp   == call.fn = "memmove" /\ call.dst < call.src
MovesDown == call.fn = "memmove" /\ call.src < call.dst

\* All offsets below k are done, and both cursors are there.
Reached(k) ==
  /\ dst_cursor = call.dst + k /\ src_cursor = call.src + k
  /\ IsDone(mem, 0, k)

\* All offsets from k on are done, and both cursors are a unit below k; the one
\* of the source may have wrapped around when nothing is left to copy.
ReachedDown(k, unit) ==
  /\ dst_cursor = call.dst + (k - unit) /\ src_cursor = (call.src + (k - unit)) % N
  /\ IsDone(mem, k, call.size)

AtCopyPoint ==
  /\ fn_pc \in {"bytes", "ascending"} =>
       (call.fn = "memcpy" \/ MovesUp) /\ \E k \in 0 .. call.size : Reached(k)
  /\ fn_pc = "head" => SameAlignment /\ Reached(0)
  /\ fn_pc = "words" =>
       \E j \in Nat :
         \/ /\ SameAlignment /\ 16 * j <= AlignedSize(call)
            /\ Reached(BytesBeforeAlign(call.dst) + 16 * j)
         \/ MovesUp /\ AllAligned(call) /\ 16 * j <= call.size /\ Reached(16 * j)
  /\ fn_pc = "tail" =>
       SameAlignment /\ IsDone(mem, 0, BytesBeforeAlign(call.dst) + AlignedSize(call))
  /\ fn_pc = "descending" => MovesDown /\ \E k \in 0 .. call.size : ReachedDown(k, 1)
  /\ fn_pc = "backwords" =>
       /\ MovesDown /\ AllAligned(call)
       /\ \E j \in Nat : 16 * j <= call.size /\ ReachedDown(call.size - 16 * j, 4)

AtOtherPoint ==
  /\ fn_pc \in {"memcpy", "memmove", "memset", "memcmp"} => call.fn = fn_pc /\ mem = saved
  /\ fn_pc = "setwords" =>
       /\ call.fn = "memset"
       /\ \E j \in Nat : /\ 16 * j <= AlignedSize(call)
                         /\ dst_cursor = call.dst + (BytesBeforeAlign(call.dst) + 16 * j)
                         /\ IsDone(mem, 0, BytesBeforeAlign(call.dst) + 16 * j)
  /\ fn_pc = "settail" =>
       call.fn = "memset" /\ IsDone(mem, 0, BytesBeforeAlign(call.dst) + AlignedSize(call))
  /\ fn_pc = "compare" =>
       /\ call.fn = "memcmp" /\ mem = saved
       /\ \E k \in 0 .. call.size :
            /\ dst_cursor = call.dst + k /\ src_cursor = call.src + k
            /\ \A i \in 0 .. k - 1 : saved[call.dst + i] = saved[call.src + i]
  /\ fn_pc = "returned" => mem = Promised(call) /\ result = Order(call)

AtPoint == AtCopyPoint /\ AtOtherPoint

PromiseInv ==
  fn_pc # "idle" =>
    /\ Regular(call)
    /\ fn_pc \in {"memcpy", "memmove", "memset", "memcmp"} => call.fn = fn_pc
    /\ ~SizeWraps(call) => AtPoint

\* What the steps below start from.
Running == MemInv /\ MemTypeOK /\ Regular(call) /\ ~SizeWraps(call) /\ AtPoint

LEMMA Basics ==
  ASSUME Running
  PROVE  /\ call \in CallArguments /\ N \in Nat
         /\ call.dst \in Nat /\ call.src \in Nat /\ call.size \in Nat
         /\ call.dst + call.size + 16 <= N
         /\ call.fn # "memset" => call.src + call.size < N
         /\ \A x \in 0 .. N - 1 : x % N = x
         /\ (call.dst + call.size) % N = call.dst + call.size
         /\ saved \in [Address -> Byte] /\ mem \in [Address -> Byte]
<1>1. call \in CallArguments /\ saved \in [Address -> Byte] /\ mem \in [Address -> Byte]
  BY DEF Running, MemInv, MemTypeOK
<1>2. /\ N \in Nat
      /\ call.dst \in Nat /\ call.src \in Nat /\ call.size \in Nat
      /\ call.dst + call.size + 16 <= N
      /\ call.fn # "memset" => call.src + call.size < N
  BY <1>1, AddressSpace DEF Running, CallArguments, Address, Regular, BlocksFit, UNROLL_TIMES, WORD
<1>3. \A x \in 0 .. N - 1 : x % N = x
  BY <1>2, WrapsOnce
<1>4. call.dst + call.size \in 0 .. N - 1
  BY <1>2
<1> QED BY <1>1, <1>2, <1>3, <1>4

\* A range is done after a step when it is in the step's memory.
LEMMA DoneNext ==
  ASSUME call' = call, saved' = saved, NEW lo, NEW hi, IsDone(mem', lo, hi)
  PROVE  IsDone(mem, lo, hi)'
BY DEF IsDone, ByteAt

\* A copy or a set that returns with all offsets done has kept its promise.
LEMMA ReturnKeepsPromise ==
  ASSUME Running, Return(0), call.fn # "memcmp", IsDone(mem', 0, call.size)
  PROVE  AtPoint'
<1>1. call' = call /\ saved' = saved /\ result' = 0 /\ fn_pc' = "returned"
  BY DEF Return, GoTo
<1>2. mem' = Promised(call)
  BY Basics, DoneIsPromised DEF Running
<1>3. Promised(call)' = Promised(call)
  BY <1>1 DEF Promised
<1>4. Order(call)' = 0
  BY <1>1 DEF Order
<1> QED BY <1>1, <1>2, <1>3, <1>4 DEF AtPoint, AtCopyPoint, AtOtherPoint

LEMMA CopyByByteStep ==
  ASSUME Running, memcpy \/ CopyByByte \/ CopyAscending
  PROVE  AtPoint'
<1>1. /\ N \in Nat /\ call.dst \in Nat /\ call.src \in Nat /\ call.size \in Nat
      /\ call.dst + call.size + 16 <= N
      /\ call.fn # "memset" => call.src + call.size < N
      /\ \A x \in 0 .. N - 1 : x % N = x
      /\ (call.dst + call.size) % N = call.dst + call.size
  BY Basics
<1>2. CASE memcpy
  <2>1. /\ call' = call /\ saved' = saved /\ mem' = mem /\ mem = saved /\ call.fn = "memcpy"
        /\ dst_cursor' = call.dst % N /\ src_cursor' = call.src % N
        /\ fn_pc' = IF BytesBeforeAlign(call.dst) # BytesBeforeAlign(call.src) THEN "bytes" ELSE "head"
    BY <1>2 DEF memcpy, GoTo, Running, AtPoint, AtOtherPoint
  <2>2. dst_cursor' = call.dst + 0 /\ src_cursor' = call.src + 0
    <3>1. call.dst \in 0 .. N - 1 /\ call.src \in 0 .. N - 1
      BY <1>1, <2>1
    <3> QED BY <1>1, <2>1, <3>1
  <2>3. IsDone(mem, 0, 0)'
    <3>1. IsDone(mem', 0, 0)
      BY <2>1, NothingDone, Basics
    <3> QED BY <2>1, <3>1, DoneNext
  <2>4. Reached(0)' /\ 0 \in 0 .. call'.size
    BY <1>1, <2>1, <2>2, <2>3 DEF Reached
  <2>5. fn_pc' = "head" => SameAlignment'
    BY <2>1 DEF SameAlignment
  <2> QED BY <2>1, <2>4, <2>5 DEF AtPoint, AtCopyPoint, AtOtherPoint
<1>3. CASE CopyByByte \/ CopyAscending
  <2>1. PICK k \in 0 .. call.size : Reached(k)
    BY <1>3 DEF CopyByByte, CopyAscending, Running, AtPoint, AtCopyPoint
  <2>2. (call.fn = "memcpy" \/ MovesUp) /\ call.fn \notin {"memset", "memcmp"}
    BY <1>3 DEF CopyByByte, CopyAscending, Running, AtPoint, AtCopyPoint, MovesUp
  <2>3. CASE k = call.size
    <3>1. Return(0) /\ mem' = mem
      BY <1>1, <1>3, <2>1, <2>3 DEF CopyByByte, CopyAscending, Reached
    <3> QED BY <2>1, <2>2, <2>3, <3>1, ReturnKeepsPromise DEF Reached
  <2>4. CASE k < call.size
    <3>1. mem' = Copied(1, 1, call.dst + k, call.src + k, 1) /\ Advance(1)
      BY <1>1, <1>3, <2>1, <2>4 DEF CopyByByte, CopyAscending, Reached
    <3>2. IsDone(mem', 0, k + 1)
      <4>1. Disjoint(call) \/ call.dst < call.src
        BY <2>2 DEF Running, Regular, MovesUp
      <4>2. 0 <= k /\ k + 1 * 1 <= call.size /\ k \in Nat /\ 1 \in {1, 4} /\ 1 \in 0 .. 4 /\ 0 \in Nat
        BY <1>1, <2>4
      <4>3. call \in CallArguments /\ Regular(call) /\ call.fn # "memset" /\ IsDone(mem, 0, k)
        BY <2>1, <2>2, Basics DEF Running, Reached
      <4>4. IsDone(mem', 0, k + 1 * 1)
        BY <3>1, <4>1, <4>2, <4>3, CopyExtendsUp
      <4> QED BY <4>4
    <3>3. /\ call' = call /\ saved' = saved /\ fn_pc' = fn_pc
          /\ dst_cursor' = (dst_cursor + 1) % N /\ src_cursor' = (src_cursor + 1) % N
      BY <3>1 DEF Advance, GoTo
    <3>4. dst_cursor' = call.dst + (k + 1) /\ src_cursor' = call.src + (k + 1)
      <4>1. call.dst + k + 1 \in 0 .. N - 1 /\ call.src + k + 1 \in 0 .. N - 1
        BY <1>1, <2>2, <2>4
      <4>2. (call.dst + k + 1) % N = call.dst + k + 1 /\ (call.src + k + 1) % N = call.src + k + 1
        BY <1>1, <4>1
      <4> QED BY <1>1, <2>1, <3>3, <4>2 DEF Reached
    <3>5. Reached(k + 1)'
      BY <3>2, <3>3, <3>4, DoneNext DEF Reached
    <3>6. (call.fn = "memcpy" \/ MovesUp)' /\ k + 1 \in 0 .. call'.size
      BY <1>1, <2>2, <2>4, <3>3 DEF MovesUp
    <3>7. fn_pc' \in {"bytes", "ascending"}
      BY <1>3, <3>3 DEF CopyByByte, CopyAscending
    <3> QED BY <3>5, <3>6, <3>7 DEF AtPoint, AtCopyPoint, AtOtherPoint
  <2> QED BY <1>1, <2>3, <2>4
<1> QED BY <1>2, <1>3

\* The parts of the block of a call that does not wrap around.
LEMMA PartsOfCall ==
  ASSUME Running, SameAlignment \/ call.fn = "memset"
  PROVE  \E b \in 0 .. 3, w \in Nat, t \in 0 .. 3 :
           /\ b = BytesBeforeAlign(call.dst) /\ 4 * w = AlignedSize(call)
           /\ t = BytesAfterAlign(call) /\ b + 4 * w + t = call.size
           /\ w = AlignedSize(call) \div WORD
           /\ ROUND_UP(call.dst, WORD) = call.dst + b
           /\ SameAlignment => ROUND_UP(call.src, WORD) = call.src + b
<1> DEFINE b == BytesBeforeAlign(call.dst)
           t == BytesAfterAlign(call)
           A == AlignedSize(call)
<1>1. call \in CallArguments /\ BlocksFit(call) /\ call.size \in Int
  BY Basics DEF Running, Regular
<1>2. BytesBeforeAlign(call.dst) <= call.size
  <2>1. BytesBeforeAlign(call.dst) \in Int
    BY <1>1, PartsAreNumbers
  <2>2. ~(call.size < BytesBeforeAlign(call.dst))
    BY DEF Running, SizeWraps, SameAlignment
  <2> QED BY <1>1, <2>1, <2>2
<1>3. /\ b \in 0 .. 3 /\ t \in 0 .. 3 /\ A \in Nat /\ A % 4 = 0 /\ b + A + t = call.size
      /\ ROUND_UP(call.dst, WORD) = call.dst + b
      /\ SameAlignment => ROUND_UP(call.src, WORD) = call.src + b
  BY <1>1, <1>2, Parts DEF SameAlignment
<1> HIDE DEF b, t, A
<1>4. A \div 4 \in Nat /\ 4 * (A \div 4) = A
  BY <1>3
<1> QED BY <1>3, <1>4 DEF b, t, A, WORD

LEMMA CopyHeadStep ==
  ASSUME Running, CopyHead
  PROVE  AtPoint'
<1>1. /\ N \in Nat /\ call.dst \in Nat /\ call.src \in Nat /\ call.size \in Nat
      /\ call.dst + call.size + 16 <= N
      /\ call.fn # "memset" => call.src + call.size < N
      /\ \A x \in 0 .. N - 1 : x % N = x
  BY Basics
<1>2. SameAlignment /\ call.fn = "memcpy" /\ Reached(0)
  BY DEF CopyHead, Running, AtPoint, AtCopyPoint, SameAlignment
<1>3. PICK b \in 0 .. 3, w \in Nat, t \in 0 .. 3 :
        /\ b = BytesBeforeAlign(call.dst) /\ 4 * w = AlignedSize(call)
        /\ b + 4 * w + t = call.size
        /\ ROUND_UP(call.dst, WORD) = call.dst + b /\ ROUND_UP(call.src, WORD) = call.src + b
  BY <1>2, PartsOfCall
<1>4. /\ mem' = Copied(1, 1, call.dst + 0, call.src + 0, b)
      /\ call' = call /\ saved' = saved
      /\ fn_pc' = IF AlignedSize(call) # 0 THEN "words" ELSE "tail"
      /\ dst_cursor' = (call.dst + b) % N /\ src_cursor' = (call.src + b) % N
  BY <1>2, <1>3 DEF CopyHead, GoTo, Reached
<1>5. IsDone(mem', 0, b)
  <2>1. call \in CallArguments /\ Regular(call) /\ Disjoint(call) /\ IsDone(mem, 0, 0)
    BY <1>2, Basics DEF Running, Regular, Reached
  <2>2. /\ 0 \in Nat /\ 1 \in {1, 4} /\ b \in 0 .. 4 /\ 0 <= 0 /\ 0 + 1 * b <= call.size
        /\ 0 + 1 * b = b
    BY <1>1, <1>3
  <2>3. IsDone(Copied(1, 1, call.dst + 0, call.src + 0, b), 0, 0 + 1 * b)
    BY <1>2, <2>1, <2>2, CopyExtendsUp
  <2> QED BY <1>4, <2>2, <2>3
<1>6. IsDone(mem, 0, b)'
  BY <1>4, <1>5, DoneNext
<1>7. dst_cursor' = call.dst + b /\ src_cursor' = call.src + b
  <2>1. call.dst + b \in 0 .. N - 1 /\ call.src + b \in 0 .. N - 1
    BY <1>1, <1>2, <1>3
  <2> QED BY <1>1, <1>4, <2>1
<1>8. SameAlignment' /\ AlignedSize(call)' = 4 * w /\ BytesBeforeAlign(call.dst)' = b
  BY <1>2, <1>3, <1>4 DEF SameAlignment
<1>9. CASE AlignedSize(call) # 0
  <2>1. fn_pc' = "words"
    BY <1>4, <1>9
  <2>2. 16 * 0 <= AlignedSize(call)' /\ 0 \in Nat /\ b + 16 * 0 = b
    BY <1>3, <1>8
  <2>3. Reached(b + 16 * 0)'
    BY <1>4, <1>6, <1>7, <2>2 DEF Reached
  <2>4. \E j \in Nat : /\ SameAlignment' /\ 16 * j <= AlignedSize(call)'
                       /\ Reached(BytesBeforeAlign(call.dst) + 16 * j)'
    BY <1>8, <2>2, <2>3
  <2> QED BY <2>1, <2>4 DEF AtPoint, AtCopyPoint, AtOtherPoint
<1>10. CASE AlignedSize(call) = 0
  <2>1. fn_pc' = "tail"
    BY <1>4, <1>10
  <2>2. b + 4 * w = b
    BY <1>3, <1>10
  <2>3. IsDone(mem, 0, BytesBeforeAlign(call.dst) + AlignedSize(call))'
    BY <1>6, <1>8, <2>2
  <2> QED BY <1>8, <2>1, <2>3 DEF AtPoint, AtCopyPoint, AtOtherPoint
<1> QED BY <1>9, <1>10

\* The two callers of memcpy32: where its words start, and how many there are.
LEMMA WordsOfCall ==
  ASSUME Running, fn_pc = "words"
  PROVE  \E st \in Nat, w \in Nat, j \in Nat :
           /\ 16 * j <= 4 * w /\ st + 4 * w <= call.size /\ Reached(st + 16 * j)
           /\ \/ /\ SameAlignment /\ call.fn = "memcpy" /\ st = BytesBeforeAlign(call.dst)
                 /\ 4 * w = AlignedSize(call) /\ ROUND_UP(call.dst, WORD) = call.dst + st
                 /\ w = AlignedSize(call) \div WORD
              \/ /\ MovesUp /\ call.fn = "memmove" /\ AllAligned(call) /\ st = 0
                 /\ 4 * w = call.size /\ w = call.size \div WORD
<1>1. call.size \in Nat
  BY Basics
<1>2. CASE SameAlignment
  <2>1. PICK j \in Nat : /\ 16 * j <= AlignedSize(call)
                         /\ Reached(BytesBeforeAlign(call.dst) + 16 * j)
    BY <1>2 DEF Running, AtPoint, AtCopyPoint, SameAlignment, MovesUp
  <2>2. PICK b \in 0 .. 3, w \in Nat, t \in 0 .. 3 :
          /\ b = BytesBeforeAlign(call.dst) /\ 4 * w = AlignedSize(call)
          /\ b + 4 * w + t = call.size /\ w = AlignedSize(call) \div WORD
          /\ ROUND_UP(call.dst, WORD) = call.dst + b
    BY <1>2, PartsOfCall
  <2>3. b \in Nat /\ b + 4 * w <= call.size /\ 16 * j <= 4 * w
    BY <1>1, <2>1, <2>2
  <2> QED BY <1>2, <2>1, <2>2, <2>3 DEF SameAlignment
<1>3. CASE MovesUp
  <2>1. AllAligned(call)
    BY <1>3 DEF Running, AtPoint, AtCopyPoint, SameAlignment, MovesUp
  <2>2. PICK j \in Nat : 16 * j <= call.size /\ Reached(16 * j)
    BY <1>3 DEF Running, AtPoint, AtCopyPoint, SameAlignment, MovesUp
  <2>3. PICK w \in Nat : 4 * w = call.size /\ w = call.size \div WORD
    <3>1. call.size \div 4 \in Nat /\ 4 * (call.size \div 4) = call.size
      BY <1>1, <2>1 DEF AllAligned, WORD
    <3> QED BY <3>1 DEF WORD
  <2>4. Reached(0 + 16 * j) /\ 16 * j <= 4 * w /\ 0 \in Nat /\ 0 + 4 * w <= call.size
    <3>1. 0 + 16 * j = 16 * j
      OBVIOUS
    <3> QED BY <1>1, <2>2, <2>3, <3>1
  <2> QED BY <1>3, <2>1, <2>3, <2>4 DEF MovesUp
<1> QED BY <1>2, <1>3 DEF Running, AtPoint, AtCopyPoint

LEMMA memcpy32Step ==
  ASSUME Running, memcpy32
  PROVE  AtPoint'
<1>1. /\ N \in Nat /\ call.dst \in Nat /\ call.src \in Nat /\ call.size \in Nat
      /\ call.dst + call.size + 16 <= N
      /\ call.fn # "memset" => call.src + call.size < N
      /\ \A x \in 0 .. N - 1 : x % N = x
      /\ call \in CallArguments /\ Regular(call)
  BY Basics DEF Running
<1>2. fn_pc = "words"
  BY DEF memcpy32
<1>3. PICK st \in Nat, w \in Nat, j \in Nat :
        /\ 16 * j <= 4 * w /\ st + 4 * w <= call.size /\ Reached(st + 16 * j)
        /\ \/ /\ SameAlignment /\ call.fn = "memcpy" /\ st = BytesBeforeAlign(call.dst)
              /\ 4 * w = AlignedSize(call) /\ ROUND_UP(call.dst, WORD) = call.dst + st
              /\ w = AlignedSize(call) \div WORD
           \/ /\ MovesUp /\ call.fn = "memmove" /\ AllAligned(call) /\ st = 0
              /\ 4 * w = call.size /\ w = call.size \div WORD
  BY <1>2, WordsOfCall
<1>4. call.fn # "memset" /\ call.fn # "memcmp" /\ (Disjoint(call) \/ call.dst < call.src)
  BY <1>1, <1>3 DEF Regular, MovesUp
<1>5. PICK q \in Nat, r \in 0 .. 3 : w = 4 * q + r /\ r = w % 4
  <2>1. w \div 4 \in Nat /\ w % 4 \in 0 .. 3 /\ w = 4 * (w \div 4) + (w % 4)
    OBVIOUS
  <2> QED BY <2>1
<1>6. j <= q /\ 16 * q + 4 * r = 4 * w /\ 16 * j \in Nat
  BY <1>3, <1>5
<1>7. (call.dst + st + ((w - r) * WORD)) % N = call.dst + st + 16 * q
  <2>1. (w - r) * WORD = 16 * q
    BY <1>5 DEF WORD
  <2>2. call.dst + st + 16 * q \in 0 .. N - 1
    BY <1>1, <1>3, <1>5, <1>6
  <2>3. (call.dst + st + 16 * q) % N = call.dst + st + 16 * q
    BY <1>1, <2>2
  <2> QED BY <2>1, <2>3
<1>8. dst_cursor = call.dst + (st + 16 * j) /\ src_cursor = call.src + (st + 16 * j)
      /\ IsDone(mem, 0, st + 16 * j)
  BY <1>3 DEF Reached
<1>9. IF dst_cursor # call.dst + st + 16 * q
      THEN /\ mem' = Copied(4, 1, dst_cursor, src_cursor, 4)
           /\ GoTo("words", dst_cursor + 16, src_cursor + 16)
      ELSE /\ mem' = Copied(4, 1, dst_cursor, src_cursor, r)
           /\ IF call.fn = "memcpy" THEN GoTo("tail", dst_cursor + r * 4, src_cursor + r * 4)
              ELSE Return(0)
  <2> DEFINE size  == IF call.fn = "memcpy" THEN AlignedSize(call) ELSE call.size
             start == IF call.fn = "memcpy" THEN ROUND_UP(call.dst, WORD) ELSE call.dst
  <2>1. size \div WORD = w /\ start = call.dst + st
    BY <1>1, <1>3
  <2>2. IF dst_cursor # (start + (((size \div WORD) - ((size \div WORD) % UNROLL_TIMES)) * WORD)) % N
        THEN /\ mem' = Copied(WORD, 1, dst_cursor, src_cursor, UNROLL_TIMES)
             /\ Advance(UNROLL_TIMES * WORD)
        ELSE /\ mem' = Copied(WORD, 1, dst_cursor, src_cursor, (size \div WORD) % UNROLL_TIMES)
             /\ IF call.fn = "memcpy"
                THEN GoTo("tail", dst_cursor + ((size \div WORD) % UNROLL_TIMES) * WORD,
                          src_cursor + ((size \div WORD) % UNROLL_TIMES) * WORD)
                ELSE Return(0)
    BY DEF memcpy32
  <2> HIDE DEF size, start
  <2>3. w % UNROLL_TIMES = r /\ UNROLL_TIMES * WORD = 16 /\ WORD = 4 /\ UNROLL_TIMES = 4
    BY <1>5 DEF UNROLL_TIMES, WORD
  <2>4. (start + ((w - r) * WORD)) % N = call.dst + st + 16 * q
    BY <1>7, <2>1
  <2> QED BY <1>2, <2>1, <2>2, <2>3, <2>4 DEF Advance
<1>10. ASSUME NEW k \in 0 .. 4, mem' = Copied(4, 1, dst_cursor, src_cursor, k),
              st + 16 * j + 4 * k <= call.size
       PROVE  IsDone(mem', 0, st + 16 * j + 4 * k)
  <2>1. /\ st + 16 * j \in Nat /\ 0 <= st + 16 * j /\ 0 \in Nat /\ 4 \in {1, 4}
        /\ (st + 16 * j) + 4 * k <= call.size
    BY <1>6, <1>10
  <2>2. IsDone(Copied(4, 1, call.dst + (st + 16 * j), call.src + (st + 16 * j), k),
               0, (st + 16 * j) + 4 * k)
    BY <1>1, <1>4, <1>8, <2>1, CopyExtendsUp
  <2> QED BY <1>8, <1>10, <2>2
<1>11. CASE dst_cursor # call.dst + st + 16 * q
  <2>1. j < q
    BY <1>1, <1>6, <1>8, <1>11
  <2>2. /\ 16 * (j + 1) <= 4 * w /\ st + 16 * (j + 1) <= call.size
        /\ st + 16 * j + 4 * 4 = st + 16 * (j + 1)
    BY <1>1, <1>3, <1>6, <2>1
  <2>3. mem' = Copied(4, 1, dst_cursor, src_cursor, 4)
        /\ GoTo("words", dst_cursor + 16, src_cursor + 16)
    BY <1>9, <1>11
  <2>4. call' = call /\ saved' = saved /\ fn_pc' = "words"
        /\ dst_cursor' = (dst_cursor + 16) % N /\ src_cursor' = (src_cursor + 16) % N
    BY <2>3 DEF GoTo
  <2>5. IsDone(mem', 0, st + 16 * (j + 1))
    <3>1. 4 \in 0 .. 4 /\ st + 16 * j + 4 * 4 <= call.size
      BY <2>2
    <3>2. IsDone(mem', 0, st + 16 * j + 4 * 4)
      BY <1>10, <2>3, <3>1
    <3> QED BY <2>2, <3>2
  <2>6. dst_cursor' = call.dst + (st + 16 * (j + 1)) /\ src_cursor' = call.src + (st + 16 * (j + 1))
    <3>1. /\ call.dst + (st + 16 * (j + 1)) \in 0 .. N - 1
          /\ call.src + (st + 16 * (j + 1)) \in 0 .. N - 1
      BY <1>1, <1>4, <2>2
    <3>2. /\ (call.dst + (st + 16 * (j + 1))) % N = call.dst + (st + 16 * (j + 1))
          /\ (call.src + (st + 16 * (j + 1))) % N = call.src + (st + 16 * (j + 1))
      BY <1>1, <3>1
    <3>3. /\ dst_cursor + 16 = call.dst + (st + 16 * (j + 1))
          /\ src_cursor + 16 = call.src + (st + 16 * (j + 1))
      BY <1>1, <1>8
    <3> QED BY <2>4, <3>2, <3>3
  <2>7. Reached(st + 16 * (j + 1))'
    BY <2>4, <2>5, <2>6, DoneNext DEF Reached
  <2>8. \E i \in Nat :
          \/ /\ SameAlignment' /\ 16 * i <= AlignedSize(call)'
             /\ Reached(BytesBeforeAlign(call.dst) + 16 * i)'
          \/ MovesUp' /\ AllAligned(call)' /\ 16 * i <= call'.size /\ Reached(16 * i)'
    <3>1. j + 1 \in Nat /\ 0 + 16 * (j + 1) = 16 * (j + 1)
      OBVIOUS
    <3>2. CASE SameAlignment
      <4>1. SameAlignment' /\ AlignedSize(call)' = 4 * w /\ BytesBeforeAlign(call.dst)' = st
        BY <1>3, <2>4, <3>2 DEF SameAlignment, MovesUp
      <4> QED BY <2>2, <2>7, <3>1, <4>1
    <3>3. CASE MovesUp
      <4>1. MovesUp' /\ AllAligned(call)' /\ call'.size = 4 * w /\ st = 0
        BY <1>3, <2>4, <3>3 DEF SameAlignment, MovesUp
      <4> QED BY <2>2, <2>7, <3>1, <4>1
    <3> QED BY <1>3, <3>2, <3>3
  <2> QED BY <2>4, <2>8 DEF AtPoint, AtCopyPoint, AtOtherPoint
<1>12. CASE dst_cursor = call.dst + st + 16 * q
  <2>1. j = q
    BY <1>1, <1>6, <1>8, <1>12
  <2>2. IsDone(mem', 0, st + 4 * w)
    <3>1. st + 16 * j + 4 * r = st + 4 * w /\ st + 4 * w <= call.size /\ r \in 0 .. 4
      BY <1>3, <1>6, <2>1
    <3> QED BY <1>9, <1>10, <1>12, <3>1
  <2>3. CASE SameAlignment
    <3>1. call' = call /\ saved' = saved /\ fn_pc' = "tail"
      BY <1>9, <1>12, <2>3 DEF GoTo, SameAlignment
    <3>2. SameAlignment' /\ AlignedSize(call)' = 4 * w /\ BytesBeforeAlign(call.dst)' = st
      BY <1>3, <2>3, <3>1 DEF SameAlignment, MovesUp
    <3>3. IsDone(mem, 0, st + 4 * w)'
      BY <2>2, <3>1, DoneNext
    <3> QED BY <3>1, <3>2, <3>3 DEF AtPoint, AtCopyPoint, AtOtherPoint
  <2>4. CASE MovesUp
    <3>1. Return(0) /\ call.fn # "memcmp" /\ st = 0 /\ 4 * w = call.size
      BY <1>3, <1>9, <1>12, <2>4 DEF SameAlignment, MovesUp
    <3>2. st + 4 * w = call.size
      BY <1>1, <3>1
    <3> QED BY <2>2, <3>1, <3>2, ReturnKeepsPromise
  <2> QED BY <1>3, <2>3, <2>4
<1> QED BY <1>11, <1>12

LEMMA CopyTailStep ==
  ASSUME Running, CopyTail
  PROVE  AtPoint'
<1>1. /\ SameAlignment /\ call.fn = "memcpy"
      /\ IsDone(mem, 0, BytesBeforeAlign(call.dst) + AlignedSize(call))
  BY DEF CopyTail, Running, AtPoint, AtCopyPoint, SameAlignment
<1>2. PICK b \in 0 .. 3, w \in Nat, t \in 0 .. 3 :
        /\ b = BytesBeforeAlign(call.dst) /\ 4 * w = AlignedSize(call)
        /\ t = BytesAfterAlign(call) /\ b + 4 * w + t = call.size
        /\ ROUND_UP(call.dst, WORD) = call.dst + b /\ ROUND_UP(call.src, WORD) = call.src + b
  BY <1>1, PartsOfCall
<1>3. call \in CallArguments /\ Regular(call) /\ Disjoint(call)
      /\ call.dst \in Nat /\ call.src \in Nat /\ call.size \in Nat
  BY <1>1, Basics DEF Running, Regular
<1>4. mem' = Copied(1, 1, call.dst + (b + 4 * w), call.src + (b + 4 * w), t) /\ Return(0)
  <2>1. /\ ROUND_UP(call.dst, WORD) + AlignedSize(call) = call.dst + (b + 4 * w)
        /\ ROUND_UP(call.src, WORD) + AlignedSize(call) = call.src + (b + 4 * w)
    BY <1>2, <1>3
  <2> QED BY <1>2, <2>1 DEF CopyTail
<1>5. /\ b + 4 * w \in Nat /\ 0 <= b + 4 * w /\ 0 \in Nat /\ 1 \in {1, 4} /\ t \in 0 .. 4
      /\ (b + 4 * w) + 1 * t <= call.size /\ (b + 4 * w) + 1 * t = call.size
  BY <1>2, <1>3
<1>6. IsDone(mem, 0, b + 4 * w)
  BY <1>1, <1>2
<1>7. IsDone(Copied(1, 1, call.dst + (b + 4 * w), call.src + (b + 4 * w), t),
             0, (b + 4 * w) + 1 * t)
  BY <1>1, <1>3, <1>5, <1>6, CopyExtendsUp
<1> QED BY <1>1, <1>4, <1>5, <1>7, ReturnKeepsPromise

LEMMA CopyDescendingStep ==
  ASSUME Running, CopyDescending
  PROVE  AtPoint'
<1>1. /\ N \in Nat /\ call.dst \in Nat /\ call.src \in Nat /\ call.size \in Nat
      /\ call.dst + call.size + 16 <= N
      /\ call.fn # "memset" => call.src + call.size < N
      /\ \A x \in 0 .. N - 1 : x % N = x
      /\ call \in CallArguments /\ Regular(call)
  BY Basics DEF Running
<1>2. MovesDown /\ call.fn = "memmove" /\ call.src < call.dst
  BY DEF CopyDescending, Running, AtPoint, AtCopyPoint, MovesDown
<1>3. PICK k \in 0 .. call.size : ReachedDown(k, 1)
  BY DEF CopyDescending, Running, AtPoint, AtCopyPoint
<1>4. dst_cursor = call.dst + (k - 1) /\ src_cursor = (call.src + (k - 1)) % N
      /\ IsDone(mem, k, call.size)
  BY <1>3 DEF ReachedDown
<1>5. CASE k = 0
  <2>1. Return(0) /\ mem' = mem
    BY <1>1, <1>4, <1>5 DEF CopyDescending
  <2> QED BY <1>2, <1>4, <1>5, <2>1, ReturnKeepsPromise
<1>6. CASE k > 0
  <2>1. mem' = Copied(1, -1, dst_cursor, src_cursor, 1) /\ Advance(-1)
    BY <1>1, <1>4, <1>6 DEF CopyDescending
  <2>2. src_cursor = call.src + (k - 1)
    <3>1. call.src + (k - 1) \in 0 .. N - 1
      BY <1>1, <1>2, <1>6
    <3> QED BY <1>1, <1>4, <3>1
  <2>3. call' = call /\ saved' = saved /\ fn_pc' = "descending"
        /\ dst_cursor' = (dst_cursor + -1) % N /\ src_cursor' = (src_cursor + -1) % N
    BY <2>1 DEF Advance, GoTo, CopyDescending
  <2>4. IsDone(mem', k - 1, call.size)
    <3>1. /\ k \in Nat /\ call.size \in Nat /\ 1 \in {1, 4} /\ 1 \in 0 .. 4
          /\ k <= call.size /\ call.size <= call.size /\ 1 * 1 <= k /\ k - 1 * 1 = k - 1
      BY <1>1, <1>6
    <3>2. IsDone(Copied(1, -1, call.dst + (k - 1), call.src + (k - 1), 1), k - 1 * 1, call.size)
      BY <1>1, <1>2, <1>4, <3>1, CopyExtendsDown
    <3> QED BY <1>4, <2>1, <2>2, <3>1, <3>2
  <2>5. /\ dst_cursor' = call.dst + ((k - 1) - 1)
        /\ src_cursor' = (call.src + ((k - 1) - 1)) % N
    <3>1. call.dst + ((k - 1) - 1) \in 0 .. N - 1
      BY <1>1, <1>2, <1>6
    <3>2. (call.dst + ((k - 1) - 1)) % N = call.dst + ((k - 1) - 1)
      BY <1>1, <3>1
    <3>3. /\ dst_cursor + -1 = call.dst + ((k - 1) - 1)
          /\ src_cursor + -1 = call.src + ((k - 1) - 1)
      BY <1>1, <1>4, <2>2
    <3> QED BY <2>3, <3>2, <3>3
  <2>6. IsDone(mem, k - 1, call.size)'
    <3>1. PICK n : n = call.size
      OBVIOUS
    <3>2. IsDone(mem, k - 1, n)'
      BY <2>3, <2>4, <3>1, DoneNext
    <3> QED BY <2>3, <3>1, <3>2
  <2>7. ReachedDown(k - 1, 1)' /\ k - 1 \in 0 .. call'.size
    BY <1>1, <1>6, <2>3, <2>5, <2>6 DEF ReachedDown
  <2>8. MovesDown'
    BY <1>2, <2>3 DEF MovesDown
  <2> QED BY <2>3, <2>7, <2>8 DEF AtPoint, AtCopyPoint, AtOtherPoint
<1> QED BY <1>1, <1>5, <1>6

LEMMA memcpy32_backwardsStep ==
  ASSUME Running, memcpy32_backwards
  PROVE  AtPoint'
<1>1. /\ N \in Nat /\ call.dst \in Nat /\ call.src \in Nat /\ call.size \in Nat
      /\ call.dst + call.size + 16 <= N
      /\ call.fn # "memset" => call.src + call.size < N
      /\ \A x \in 0 .. N - 1 : x % N = x
      /\ call \in CallArguments /\ Regular(call)
  BY Basics DEF Running
<1>2. MovesDown /\ call.fn = "memmove" /\ call.src < call.dst /\ AllAligned(call)
  BY DEF memcpy32_backwards, Running, AtPoint, AtCopyPoint, MovesDown
<1>3. PICK j \in Nat : 16 * j <= call.size /\ ReachedDown(call.size - 16 * j, 4)
  BY DEF memcpy32_backwards, Running, AtPoint, AtCopyPoint
<1>4. PICK w \in Nat : 4 * w = call.size /\ w = call.size \div WORD
  <2>1. call.size \div 4 \in Nat /\ 4 * (call.size \div 4) = call.size
    <3>1. call.size \in Nat /\ call.size % 4 = 0
      BY <1>1, <1>2, Zenon DEF AllAligned, WORD
    <3> QED BY <3>1
  <2> QED BY <2>1 DEF WORD
<1>5. PICK v \in Nat : call.dst = 4 * v
  <2>1. call.dst \div 4 \in Nat /\ 4 * (call.dst \div 4) = call.dst
    <3>1. call.dst \in Nat /\ call.dst % 4 = 0
      BY <1>1, <1>2, Zenon DEF AllAligned, WORD
    <3> QED BY <3>1
  <2> QED BY <2>1
<1>6. v >= 1
  BY <1>1, <1>2, <1>5
<1>7. PICK k \in Nat : k = call.size - 16 * j /\ k = 4 * (w - 4 * j) /\ k <= call.size
  BY <1>1, <1>3, <1>4
<1>8. dst_cursor = call.dst + (k - 4) /\ src_cursor = (call.src + (k - 4)) % N
      /\ IsDone(mem, k, call.size)
  BY <1>3, <1>7 DEF ReachedDown
<1>9. IF k >= 16
      THEN mem' = Copied(4, -1, dst_cursor, src_cursor, 4) /\ Advance(-16)
      ELSE mem' = Copied(4, -1, dst_cursor, src_cursor, w % 4) /\ Return(0)
  <2>1. (call.dst + 12) % N = call.dst + 12
    <3>1. call.dst + 12 \in 0 .. N - 1
      BY <1>1
    <3> QED BY <1>1, <3>1
  <2>2. dst_cursor >= call.dst + 12 <=> k >= 16
    BY <1>1, <1>8
  <2>3. (UNROLL_TIMES - 1) * WORD = 12 /\ -(UNROLL_TIMES * WORD) = -16 /\ UNROLL_TIMES = 4 /\ WORD = 4
    BY DEF UNROLL_TIMES, WORD
  <2>4. IF dst_cursor >= (call.dst + ((UNROLL_TIMES - 1) * WORD)) % N
        THEN /\ mem' = Copied(WORD, -1, dst_cursor, src_cursor, UNROLL_TIMES)
             /\ Advance(-(UNROLL_TIMES * WORD))
        ELSE /\ mem' = Copied(WORD, -1, dst_cursor, src_cursor,
                              (call.size \div WORD) % UNROLL_TIMES)
             /\ Return(0)
    BY DEF memcpy32_backwards
  <2> QED BY <1>4, <2>1, <2>2, <2>3, <2>4
<1>10. ASSUME k >= 4 PROVE src_cursor = call.src + (k - 4)
  <2>1. call.src + (k - 4) \in 0 .. N - 1
    BY <1>1, <1>2, <1>7, <1>10
  <2> QED BY <1>1, <1>8, <2>1
<1>11. ASSUME NEW i \in 0 .. 4, 4 * i <= k, k >= 4, mem' = Copied(4, -1, dst_cursor, src_cursor, i)
       PROVE  IsDone(mem', k - 4 * i, call.size)
  <2>1. call.size <= call.size /\ 4 \in {1, 4}
    BY <1>1
  <2>2. IsDone(Copied(4, -1, call.dst + (k - 4), call.src + (k - 4), i), k - 4 * i, call.size)
    BY <1>1, <1>2, <1>7, <1>8, <1>11, <2>1, CopyExtendsDown
  <2> QED BY <1>8, <1>10, <1>11, <2>2
<1>12. CASE k >= 16
  <2>1. mem' = Copied(4, -1, dst_cursor, src_cursor, 4) /\ Advance(-16)
    BY <1>9, <1>12
  <2>2. call' = call /\ saved' = saved /\ fn_pc' = "backwords"
        /\ dst_cursor' = (dst_cursor + -16) % N /\ src_cursor' = (src_cursor + -16) % N
    BY <2>1 DEF Advance, GoTo, memcpy32_backwards
  <2>3. IsDone(mem', k - 4 * 4, call.size)
    <3>1. 4 \in 0 .. 4 /\ 4 * 4 <= k /\ k >= 4
      BY <1>12
    <3> QED BY <1>11, <2>1, <3>1
  <2>4. k - 4 * 4 = call.size - 16 * (j + 1) /\ 16 * (j + 1) <= call.size /\ j + 1 \in Nat
    BY <1>1, <1>7, <1>12
  <2>5. /\ dst_cursor' = call.dst + ((k - 4 * 4) - 4)
        /\ src_cursor' = (call.src + ((k - 4 * 4) - 4)) % N
    <3>1. call.dst + ((k - 4 * 4) - 4) \in 0 .. N - 1
      <4>1. k \in Nat /\ k <= call.size /\ 0 <= k - 4 * 4
        BY <1>7, <1>12
      <4>2. call.dst >= 4
        BY <1>5, <1>6
      <4>3. N \in Nat /\ call.dst \in Nat /\ call.size \in Nat /\ call.dst + call.size + 16 <= N
        BY <1>1
      <4> QED BY <4>1, <4>2, <4>3
    <3>2. (call.dst + ((k - 4 * 4) - 4)) % N = call.dst + ((k - 4 * 4) - 4)
      BY <1>1, <3>1
    <3>3. /\ dst_cursor + -16 = call.dst + ((k - 4 * 4) - 4)
          /\ src_cursor + -16 = call.src + ((k - 4 * 4) - 4)
      BY <1>1, <1>8, <1>10, <1>12
    <3> QED BY <2>2, <3>2, <3>3
  <2>6. PICK n : n = call.size
    OBVIOUS
  <2>7. IsDone(mem, k - 4 * 4, n)'
    BY <2>2, <2>3, <2>6, DoneNext
  <2>8. ReachedDown(k - 4 * 4, 4)'
    BY <2>2, <2>5, <2>6, <2>7 DEF ReachedDown
  <2>9. \E i \in Nat : 16 * i <= call'.size /\ ReachedDown(call.size - 16 * i, 4)'
    BY <2>2, <2>4, <2>8
  <2>10. MovesDown' /\ AllAligned(call)'
    BY <1>2, <2>2 DEF MovesDown
  <2> QED BY <2>2, <2>9, <2>10 DEF AtPoint, AtCopyPoint, AtOtherPoint
<1>13. CASE k < 16
  <2>1. w % 4 = w - 4 * j /\ w - 4 * j \in 0 .. 4
    BY <1>7, <1>13
  <2>2. mem' = Copied(4, -1, dst_cursor, src_cursor, w - 4 * j) /\ Return(0)
    BY <1>9, <1>13, <2>1
  <2>3. IsDone(mem', 0, call.size)
    <3>1. CASE k = 0
      <4>1. w - 4 * j = 0
        BY <1>7, <3>1
      <4>2. Copied(4, -1, dst_cursor, src_cursor, 0) = mem
        <5>1. 0 \in 0 .. 4
          OBVIOUS
        <5> QED BY <5>1, CopiedByUnits
      <4> QED BY <1>8, <2>2, <3>1, <4>1, <4>2
    <3>2. CASE k >= 4
      <4>1. 4 * (w - 4 * j) <= k /\ k - 4 * (w - 4 * j) = 0
        BY <1>7, <2>1
      <4> QED BY <1>11, <2>1, <2>2, <3>2, <4>1
    <3> QED BY <1>7, <2>1, <3>1, <3>2
  <2> QED BY <1>2, <2>2, <2>3, ReturnKeepsPromise
<1> QED BY <1>12, <1>13

\* One fill of a set: n bytes from an offset on.
LEMMA FillsMore ==
  ASSUME Running, call.fn = "memset", NEW hi \in Nat, NEW n \in Nat, hi + n <= call.size,
         IsDone(mem, 0, hi), mem' = Filled(call.dst + hi, n)
  PROVE  IsDone(mem', 0, hi + n)
<1>1. call \in CallArguments /\ Regular(call) /\ 0 \in Nat /\ 0 <= hi
  BY Basics DEF Running
<1> QED BY <1>1, FillExtends

LEMMA SetStep ==
  ASSUME Running, memset \/ memset32 \/ SetTail
  PROVE  AtPoint'
<1>1. /\ N \in Nat /\ call.dst \in Nat /\ call.size \in Nat
      /\ call.dst + call.size + 16 <= N
      /\ \A x \in 0 .. N - 1 : x % N = x
      /\ call \in CallArguments /\ saved \in [Address -> Byte]
  BY Basics
<1>2. call.fn = "memset"
  BY DEF memset, memset32, SetTail, Running, AtPoint, AtOtherPoint
<1>3. PICK b \in 0 .. 3, w \in Nat, t \in 0 .. 3 :
        /\ b = BytesBeforeAlign(call.dst) /\ 4 * w = AlignedSize(call)
        /\ t = BytesAfterAlign(call) /\ b + 4 * w + t = call.size
        /\ w = AlignedSize(call) \div WORD
        /\ ROUND_UP(call.dst, WORD) = call.dst + b
  BY <1>2, PartsOfCall
\* Where the loop of words goes on, and where it ends.
<1>4. ASSUME NEW j \in Nat, 16 * j <= 4 * w, call' = call, saved' = saved, fn_pc' = "setwords",
             dst_cursor' = (call.dst + (b + 16 * j)) % N, IsDone(mem', 0, b + 16 * j)
      PROVE  AtPoint'
  <2>1. call.dst + (b + 16 * j) \in 0 .. N - 1
    BY <1>1, <1>3, <1>4
  <2>2. dst_cursor' = call.dst + (b + 16 * j)
    BY <1>1, <1>4, <2>1
  <2>3. IsDone(mem, 0, b + 16 * j)'
    BY <1>4, DoneNext
  <2>4. AlignedSize(call)' = 4 * w /\ BytesBeforeAlign(call.dst)' = b /\ call'.fn = "memset"
    BY <1>2, <1>3, <1>4
  <2>5. \E i \in Nat : /\ 16 * i <= AlignedSize(call)'
                       /\ dst_cursor' = call'.dst + (BytesBeforeAlign(call.dst)' + 16 * i)
                       /\ IsDone(mem, 0, BytesBeforeAlign(call.dst) + 16 * i)'
    BY <1>4, <2>2, <2>3, <2>4
  <2> QED BY <1>4, <2>4, <2>5 DEF AtPoint, AtCopyPoint, AtOtherPoint
<1>5. ASSUME call' = call, saved' = saved, fn_pc' = "settail", IsDone(mem', 0, b + 4 * w)
      PROVE  AtPoint'
  <2>1. IsDone(mem, 0, b + 4 * w)'
    BY <1>5, DoneNext
  <2>2. AlignedSize(call)' = 4 * w /\ BytesBeforeAlign(call.dst)' = b /\ call'.fn = "memset"
    BY <1>2, <1>3, <1>5
  <2> QED BY <1>5, <2>1, <2>2 DEF AtPoint, AtCopyPoint, AtOtherPoint
<1>6. CASE memset
  <2>1. mem = saved
    BY <1>6 DEF memset, Running, AtPoint, AtOtherPoint
  <2>2. /\ mem' = Filled(call.dst + 0, b) /\ call' = call /\ saved' = saved
        /\ fn_pc' = IF 4 * w # 0 THEN "setwords" ELSE "settail"
        /\ dst_cursor' = (call.dst + b) % N
    <3>1. call.dst + 0 = call.dst
      BY <1>1
    <3> QED BY <1>3, <1>6, <3>1 DEF memset, GoTo
  <2>3. IsDone(mem', 0, b)
    <3>1. 0 \in Nat /\ b \in Nat /\ 0 + b <= call.size /\ 0 + b = b
      BY <1>1, <1>3
    <3>2. IsDone(mem, 0, 0)
      BY <1>1, <2>1, NothingDone
    <3> QED BY <1>2, <2>2, <3>1, <3>2, FillsMore
  <2>4. CASE 4 * w # 0
    <3>1. 0 \in Nat /\ 16 * 0 <= 4 * w /\ b + 16 * 0 = b
      OBVIOUS
    <3> QED BY <1>4, <2>2, <2>3, <2>4, <3>1
  <2>5. CASE 4 * w = 0
    <3>1. b + 4 * w = b
      BY <2>5
    <3> QED BY <1>5, <2>2, <2>3, <2>5, <3>1
  <2> QED BY <2>4, <2>5
<1>7. CASE memset32
  <2>1. PICK j \in Nat : 16 * j <= 4 * w /\ dst_cursor = call.dst + (b + 16 * j)
                         /\ IsDone(mem, 0, b + 16 * j)
    BY <1>3, <1>7 DEF memset32, Running, AtPoint, AtOtherPoint
  <2>2. PICK q \in Nat, r \in 0 .. 3 : w = 4 * q + r /\ r = w % 4
    <3>1. w \div 4 \in Nat /\ w % 4 \in 0 .. 3 /\ w = 4 * (w \div 4) + (w % 4)
      OBVIOUS
    <3> QED BY <3>1
  <2>3. j <= q /\ 16 * q + 4 * r = 4 * w
    BY <2>1, <2>2
  <2>4. (call.dst + b + ((w - r) * WORD)) % N = call.dst + b + 16 * q
    <3>1. (w - r) * WORD = 16 * q
      BY <2>2 DEF WORD
    <3>2. call.dst + b + 16 * q \in 0 .. N - 1
      BY <1>1, <1>3, <2>3
    <3>3. (call.dst + b + 16 * q) % N = call.dst + b + 16 * q
      BY <1>1, <3>2
    <3> QED BY <3>1, <3>3
  <2>5. /\ call' = call /\ saved' = saved
        /\ IF dst_cursor # call.dst + b + 16 * q
           THEN /\ mem' = Filled(dst_cursor, 16)
                /\ fn_pc' = "setwords" /\ dst_cursor' = (dst_cursor + 16) % N
           ELSE mem' = Filled(dst_cursor, r * 4) /\ fn_pc' = "settail"
    <3>1. w % UNROLL_TIMES = r /\ UNROLL_TIMES * WORD = 16 /\ WORD = 4
      BY <2>2 DEF UNROLL_TIMES, WORD
    <3>2. IF dst_cursor # (call.dst + b + ((w - (w % UNROLL_TIMES)) * WORD)) % N
          THEN mem' = Filled(dst_cursor, UNROLL_TIMES * WORD)
               /\ GoTo("setwords", dst_cursor + UNROLL_TIMES * WORD, 0)
          ELSE mem' = Filled(dst_cursor, (w % UNROLL_TIMES) * WORD)
               /\ GoTo("settail", dst_cursor + (w % UNROLL_TIMES) * WORD, 0)
      BY <1>3, <1>7 DEF memset32
    <3> QED BY <2>4, <3>1, <3>2 DEF GoTo
  <2>6. b + 16 * j \in Nat
    OBVIOUS
  <2>7. CASE dst_cursor # call.dst + b + 16 * q
    <3>1. j < q
      BY <1>1, <2>1, <2>3, <2>7
    <3>2. /\ 16 * (j + 1) <= 4 * w /\ (b + 16 * j) + 16 <= call.size
          /\ (b + 16 * j) + 16 = b + 16 * (j + 1) /\ j + 1 \in Nat /\ 16 \in Nat
      BY <1>1, <1>3, <2>3, <3>1
    <3>3. IsDone(mem', 0, (b + 16 * j) + 16)
      BY <1>2, <2>1, <2>5, <2>6, <2>7, <3>2, FillsMore
    <3>4. dst_cursor + 16 = call.dst + (b + 16 * (j + 1))
      BY <1>1, <2>1
    <3>5. IsDone(mem', 0, b + 16 * (j + 1))
      BY <3>2, <3>3
    <3> QED BY <1>4, <2>5, <2>7, <3>2, <3>4, <3>5
  <2>8. CASE dst_cursor = call.dst + b + 16 * q
    <3>1. j = q
      BY <1>1, <2>1, <2>3, <2>8
    <3>2. (b + 16 * j) + r * 4 = b + 4 * w /\ b + 4 * w <= call.size /\ r * 4 \in Nat
      BY <1>1, <1>3, <2>3, <3>1
    <3>3. IsDone(mem', 0, (b + 16 * j) + r * 4)
      BY <1>2, <2>1, <2>5, <2>6, <2>8, <3>2, FillsMore
    <3>4. IsDone(mem', 0, b + 4 * w)
      BY <3>2, <3>3
    <3> QED BY <1>5, <2>5, <2>8, <3>4
  <2> QED BY <2>7, <2>8
<1>8. CASE SetTail
  <2>1. IsDone(mem, 0, b + 4 * w)
    BY <1>3, <1>8 DEF SetTail, Running, AtPoint, AtOtherPoint
  <2>2. mem' = Filled(call.dst + (b + 4 * w), t) /\ Return(0)
    <3>1. ROUND_UP(call.dst, WORD) + AlignedSize(call) = call.dst + (b + 4 * w)
      BY <1>1, <1>3
    <3> QED BY <1>3, <1>8, <3>1 DEF SetTail
  <2>3. b + 4 * w \in Nat /\ t \in Nat /\ (b + 4 * w) + t = call.size /\ (b + 4 * w) + t <= call.size
    BY <1>1, <1>3
  <2>4. IsDone(mem', 0, (b + 4 * w) + t)
    BY <1>2, <2>1, <2>2, <2>3, FillsMore
  <2>5. IsDone(mem', 0, call.size)
    BY <2>3, <2>4
  <2> QED BY <1>2, <2>2, <2>5, ReturnKeepsPromise
<1> QED BY <1>6, <1>7, <1>8

\* The result of a comparison is told by the first two bytes that differ.
LEMMA FirstDifference ==
  ASSUME call.fn = "memcmp", call.size \in Nat, NEW k \in 0 .. call.size,
         \A i \in 0 .. k - 1 : saved[call.dst + i] = saved[call.src + i],
         k < call.size => saved[call.dst + k] # saved[call.src + k]
  PROVE  Order(call) = IF k = call.size THEN 0
                       ELSE IF saved[call.dst + k] < saved[call.src + k] THEN -1 ELSE 1
<1> DEFINE differ == {i \in 0 .. call.size - 1 : saved[call.dst + i] # saved[call.src + i]}
<1>1. Order(call) = IF differ = {} THEN 0
                    ELSE IF saved[call.dst + Min(differ)] < saved[call.src + Min(differ)]
                    THEN -1 ELSE 1
  BY DEF Order
<1>2. CASE k = call.size
  <2>1. differ = {}
    BY <1>2
  <2> QED BY <1>1, <1>2, <2>1
<1>3. CASE k # call.size
  <2>1. k \in differ /\ k \in Int
    BY <1>3
  <2>2. \A i \in differ : i \in Int /\ k <= i
    BY <1>3
  <2> HIDE DEF differ
  <2>3. Min(differ) = k
    <3> DEFINE P(x) == x \in differ /\ \A y \in differ : x <= y
    <3>1. P(k)
      BY <2>1, <2>2
    <3>2. Min(differ) = CHOOSE x \in differ : \A y \in differ : x <= y
      BY DEF Min
    <3>3. \A x : P(x) => x = k
      BY <2>1, <2>2
    <3> QED BY <3>1, <3>2, <3>3
  <2>4. differ # {}
    BY <2>1
  <2> QED BY <1>1, <1>3, <2>3, <2>4
<1> QED BY <1>2, <1>3

LEMMA CompareStep ==
  ASSUME Running, memcmp \/ Compare
  PROVE  AtPoint'
<1>1. /\ N \in Nat /\ call.dst \in Nat /\ call.src \in Nat /\ call.size \in Nat
      /\ call.dst + call.size + 16 <= N
      /\ call.fn # "memset" => call.src + call.size < N
      /\ \A x \in 0 .. N - 1 : x % N = x
      /\ (call.dst + call.size) % N = call.dst + call.size
      /\ saved \in [Address -> Byte]
  BY Basics
<1>2. call.fn = "memcmp" /\ mem = saved
  BY DEF memcmp, Compare, Running, AtPoint, AtOtherPoint
<1>3. CASE memcmp
  <2>1. /\ call' = call /\ saved' = saved /\ mem' = mem /\ fn_pc' = "compare"
        /\ dst_cursor' = call.dst % N /\ src_cursor' = call.src % N
    BY <1>3 DEF memcmp, GoTo
  <2>2. dst_cursor' = call.dst + 0 /\ src_cursor' = call.src + 0
    <3>1. call.dst \in 0 .. N - 1 /\ call.src \in 0 .. N - 1
      BY <1>1, <1>2
    <3> QED BY <1>1, <2>1, <3>1
  <2>3. 0 \in 0 .. call'.size /\ \A i \in 0 .. 0 - 1 : saved'[call'.dst + i] = saved'[call'.src + i]
    BY <1>1, <2>1
  <2> QED BY <1>2, <2>1, <2>2, <2>3 DEF AtPoint, AtCopyPoint, AtOtherPoint
<1>4. CASE Compare
  <2>1. PICK k \in 0 .. call.size :
          /\ dst_cursor = call.dst + k /\ src_cursor = call.src + k
          /\ \A i \in 0 .. k - 1 : saved[call.dst + i] = saved[call.src + i]
    BY <1>4 DEF Compare, Running, AtPoint, AtOtherPoint
  <2>2. k = call.size <=> dst_cursor = (call.dst + call.size) % N
    <3>1. (call.dst + call.size) % N = call.dst + call.size
      BY <1>1
    <3>2. k \in Int /\ call.dst \in Int /\ call.size \in Int
      BY <1>1
    <3> QED BY <2>1, <3>1, <3>2
  <2>3. mem' = mem
    BY <1>4 DEF Compare
  <2>4. ASSUME NEW value, Return(value), value = Order(call) PROVE AtPoint'
    <3>1. call' = call /\ saved' = saved /\ result' = value /\ fn_pc' = "returned"
      BY <2>4 DEF Return, GoTo
    <3>2. saved = Promised(call)
      BY <1>1, <1>2 DEF Promised
    <3>3. Promised(call)' = Promised(call) /\ Order(call)' = Order(call)
      BY <3>1 DEF Promised, Order
    <3> QED BY <1>2, <2>3, <2>4, <3>1, <3>2, <3>3 DEF AtPoint, AtCopyPoint, AtOtherPoint
  <2>5. CASE k = call.size
    <3>1. Return(0)
      BY <1>4, <2>2, <2>5 DEF Compare
    <3>2. Order(call) = 0
      BY <1>1, <1>2, <2>1, <2>5, FirstDifference
    <3> QED BY <2>4, <3>1, <3>2
  <2>6. CASE k < call.size /\ saved[dst_cursor] # saved[src_cursor]
    <3>1. Return(IF saved[dst_cursor] < saved[src_cursor] THEN -1 ELSE 1)
      <4>1. dst_cursor # (call.dst + call.size) % N
        BY <1>1, <2>2, <2>6
      <4> QED BY <1>2, <1>4, <2>6, <4>1 DEF Compare
    <3>2. Order(call) = IF saved[dst_cursor] < saved[src_cursor] THEN -1 ELSE 1
      <4>1. k # call.size
        BY <1>1, <2>6
      <4> QED BY <1>1, <1>2, <2>1, <2>6, <4>1, FirstDifference
    <3> QED BY <2>4, <3>1, <3>2
  <2>7. CASE k < call.size /\ saved[dst_cursor] = saved[src_cursor]
    <3>1. Advance(1) /\ fn_pc = "compare"
      <4>1. dst_cursor # (call.dst + call.size) % N
        BY <1>1, <2>2, <2>7
      <4> QED BY <1>2, <1>4, <2>7, <4>1 DEF Compare
    <3>2. /\ call' = call /\ saved' = saved /\ fn_pc' = "compare"
          /\ dst_cursor' = (dst_cursor + 1) % N /\ src_cursor' = (src_cursor + 1) % N
      BY <3>1 DEF Advance, GoTo
    <3>3. dst_cursor' = call.dst + (k + 1) /\ src_cursor' = call.src + (k + 1)
      <4>1. call.dst + k + 1 \in 0 .. N - 1 /\ call.src + k + 1 \in 0 .. N - 1
        BY <1>1, <1>2, <2>7
      <4>2. (call.dst + k + 1) % N = call.dst + k + 1 /\ (call.src + k + 1) % N = call.src + k + 1
        BY <1>1, <4>1
      <4> QED BY <1>1, <2>1, <3>2, <4>2
    <3>4. k + 1 \in 0 .. call.size
          /\ \A i \in 0 .. (k + 1) - 1 : saved[call.dst + i] = saved[call.src + i]
      <4>1. ASSUME NEW i \in 0 .. (k + 1) - 1 PROVE i \in 0 .. k - 1 \/ i = k
        OBVIOUS
      <4>2. saved[call.dst + k] = saved[call.src + k]
        BY <2>1, <2>7
      <4>3. k + 1 \in 0 .. call.size
        BY <1>1, <2>7
      <4> QED BY <2>1, <4>1, <4>2, <4>3
    <3> QED BY <1>2, <2>3, <3>2, <3>3, <3>4 DEF AtPoint, AtCopyPoint, AtOtherPoint
  <2> QED BY <1>1, <2>5, <2>6, <2>7
<1> QED BY <1>3, <1>4

LEMMA memmoveStep ==
  ASSUME Running, call.fn = "memmove", memmove
  PROVE  Regular(call') /\ (fn_pc' \in {"memcpy", "memmove", "memset", "memcmp"} => call'.fn = fn_pc')
         /\ AtPoint'
<1>1. /\ N \in Nat /\ call.dst \in Nat /\ call.src \in Nat /\ call.size \in Nat
      /\ call.dst + call.size + 16 <= N /\ call.src + call.size < N
      /\ \A x \in 0 .. N - 1 : x % N = x
      /\ (call.dst + call.size) % N = call.dst + call.size
      /\ call \in CallArguments /\ Regular(call) /\ saved \in [Address -> Byte]
  BY Basics DEF Running
<1>2. mem = saved /\ mem' = mem
  BY DEF memmove, Running, AtPoint, AtOtherPoint
<1>3. (call.src + call.size) % N = call.src + call.size
  <2>1. call.src + call.size \in 0 .. N - 1
    BY <1>1
  <2> QED BY <1>1, <2>1
<1>4. CASE Disjoint(call)
  <2>1. /\ call' = [call EXCEPT !.fn = "memcpy"] /\ fn_pc' = "memcpy" /\ saved' = saved
    BY <1>1, <1>3, <1>4 DEF memmove, Disjoint
  <2>2. /\ call'.fn = "memcpy" /\ call'.dst = call.dst /\ call'.src = call.src
        /\ call'.size = call.size
    BY <1>1, <2>1 DEF CallArguments
  <2>3. Regular(call')
    BY <1>1, <1>4, <2>2 DEF Regular, BlocksFit, Disjoint
  <2> QED BY <1>2, <2>1, <2>2, <2>3 DEF AtPoint, AtCopyPoint, AtOtherPoint
<1>5. CASE ~Disjoint(call)
  <2>1. ~((call.src + call.size) % N <= call.dst \/ (call.dst + call.size) % N <= call.src)
    BY <1>1, <1>3, <1>5 DEF Disjoint
  <2>2. IsDone(mem', 0, 0) /\ IsDone(mem', call.size, call.size)
    BY <1>1, <1>2, NothingDone
  <2>3. CASE call.dst < call.src
    <3>1. GoTo(IF AllAligned(call) THEN "words" ELSE "ascending", call.dst, call.src)
      BY <2>1, <2>3 DEF memmove
    <3>2. /\ call' = call /\ saved' = saved
          /\ fn_pc' = IF AllAligned(call) THEN "words" ELSE "ascending"
          /\ dst_cursor' = call.dst % N /\ src_cursor' = call.src % N
      BY <3>1 DEF GoTo
    <3>3. dst_cursor' = call.dst + 0 /\ src_cursor' = call.src + 0
      <4>1. call.dst \in 0 .. N - 1 /\ call.src \in 0 .. N - 1
        BY <1>1
      <4> QED BY <1>1, <3>2, <4>1
    <3>4. Reached(0)'
      BY <2>2, <3>2, <3>3, DoneNext DEF Reached
    <3>5. MovesUp'
      BY <2>3, <3>2 DEF MovesUp
    <3>6. 0 \in 0 .. call'.size /\ 0 \in Nat /\ 16 * 0 <= call'.size /\ 16 * 0 = 0
      BY <1>1, <3>2
    <3>7. AtCopyPoint'
      <4>1. CASE AllAligned(call)
        <5>1. fn_pc' = "words" /\ AllAligned(call')
          BY <3>2, <4>1
        <5>2. Reached(16 * 0)'
          BY <3>4, <3>6
        <5> QED BY <3>5, <3>6, <5>1, <5>2 DEF AtCopyPoint
      <4>2. CASE ~AllAligned(call)
        BY <3>2, <3>4, <3>5, <3>6, <4>2 DEF AtCopyPoint
      <4> QED BY <4>1, <4>2
    <3> QED BY <1>1, <3>2, <3>7 DEF AtPoint, AtOtherPoint
  <2>4. CASE call.dst > call.src
    <3> DEFINE unit == IF AllAligned(call) THEN 4 ELSE 1
    <3>1. GoTo(IF AllAligned(call) THEN "backwords" ELSE "descending",
               call.dst + (call.size - unit), call.src + (call.size - unit))
      <4>1. ~(call.dst < call.src)
        BY <1>1, <2>4
      <4> QED BY <2>1, <2>4, <4>1 DEF memmove, WORD
    <3>2. /\ call' = call /\ saved' = saved
          /\ fn_pc' = IF AllAligned(call) THEN "backwords" ELSE "descending"
          /\ dst_cursor' = (call.dst + (call.size - unit)) % N
          /\ src_cursor' = (call.src + (call.size - unit)) % N
      BY <3>1 DEF GoTo
    <3>3. call.dst >= unit
      <4>1. AllAligned(call) => call.dst >= 4
        <5>1. call.dst >= 1 /\ (AllAligned(call) => call.dst % 4 = 0)
          BY <1>1, <2>4 DEF AllAligned, WORD
        <5>2. \A x \in Nat : x >= 1 /\ x % 4 = 0 => x >= 4
          OBVIOUS
        <5> QED BY <1>1, <5>1, <5>2
      <4> QED BY <1>1, <2>4, <4>1
    <3>4. dst_cursor' = call.dst + (call.size - unit)
      <4>1. call.dst + (call.size - unit) \in 0 .. N - 1
        BY <1>1, <3>3
      <4> HIDE DEF unit
      <4> QED BY <1>1, <3>2, <4>1
    <3> HIDE DEF unit
    <3>5. ReachedDown(call.size, unit)'
      <4>1. PICK n : n = call.size
        OBVIOUS
      <4>2. IsDone(mem, n, n)'
        BY <2>2, <3>2, <4>1, DoneNext
      <4>3. unit' = unit
        BY <3>2 DEF unit
      <4>4. /\ dst_cursor' = call'.dst + (call'.size - unit')
            /\ src_cursor' = (call'.src + (call'.size - unit')) % N
        BY <3>2, <3>4, <4>3
      <4>5. IsDone(mem, call.size, call.size)'
        BY <3>2, <4>1, <4>2
      <4> QED BY <4>4, <4>5 DEF ReachedDown
    <3>6. MovesDown'
      BY <1>1, <2>4, <3>2 DEF MovesDown
    <3>7. AtCopyPoint'
      <4>1. CASE AllAligned(call)
        <5>1. fn_pc' = "backwords" /\ AllAligned(call')
          BY <3>2, <4>1
        <5>2. unit' = 4
          BY <5>1 DEF unit
        <5>3. call'.size - 16 * 0 = call'.size /\ 16 * 0 <= call'.size /\ 0 \in Nat
          BY <1>1, <3>2
        <5>4. ReachedDown(call.size - 16 * 0, 4)'
          BY <3>5, <5>2, <5>3 DEF ReachedDown
        <5> QED BY <3>6, <5>1, <5>3, <5>4 DEF AtCopyPoint
      <4>2. CASE ~AllAligned(call)
        <5>1. fn_pc' = "descending" /\ call'.size \in 0 .. call'.size
          BY <1>1, <3>2, <4>2
        <5>2. unit' = 1
          BY <3>2, <4>2 DEF unit
        <5>3. ReachedDown(call.size, 1)'
          BY <3>5, <5>2 DEF ReachedDown
        <5> QED BY <3>6, <5>1, <5>3 DEF AtCopyPoint
      <4> QED BY <4>1, <4>2
    <3> QED BY <1>1, <3>2, <3>7 DEF AtPoint, AtOtherPoint
  <2>5. CASE call.dst = call.src
    <3>1. Return(0)
      <4>1. ~(call.dst < call.src) /\ ~(call.dst > call.src)
        BY <1>1, <2>5
      <4> QED BY <2>1, <4>1 DEF memmove
    <3>2. IsDone(mem', 0, call.size)
      <4>1. ASSUME NEW a \in Address PROVE call.src + (a - call.dst) = a
        BY <1>1, <2>5 DEF Address
      <4> QED BY <1>1, <1>2, <4>1 DEF IsDone, ByteAt
    <3>3. call' = call /\ fn_pc' = "returned"
      BY <3>1 DEF Return, GoTo
    <3> QED BY <1>1, <3>1, <3>2, <3>3, ReturnKeepsPromise
  <2> QED BY <1>1, <2>3, <2>4, <2>5
<1> QED BY <1>4, <1>5

\* Every step of a function leads to the next point, or to a return that keeps the promise.
LEMMA FunctionKeepsPromiseInv ==
  ASSUME MemInv, MemTypeOK, PromiseInv, FunctionStep
  PROVE  PromiseInv'
<1>1. fn_pc # "idle"
  BY DEF FunctionStep, memcpy, CopyByByte, CopyHead, memcpy32, CopyTail, memmove, CopyAscending,
         CopyDescending, memcpy32_backwards, memset, memset32, SetTail, memcmp, Compare
<1>2. Regular(call) /\ (~SizeWraps(call) => Running)
  BY <1>1 DEF PromiseInv, Running
<1>3. CASE memmove
  <2>1. call.fn = "memmove"
    BY <1>3 DEF memmove, PromiseInv
  <2>2. Running
    BY <1>2, <2>1 DEF SizeWraps
  <2> QED BY <1>3, <2>1, <2>2, memmoveStep DEF PromiseInv
<1>4. CASE ~memmove
  <2>1. call' = call
    BY <1>4 DEF FunctionStep, memcpy, CopyByByte, CopyHead, memcpy32, CopyTail, CopyAscending,
                CopyDescending, memcpy32_backwards, memset, memset32, SetTail, memcmp, Compare,
                GoTo, Advance, Return
  <2>2. fn_pc' \notin {"memcpy", "memmove", "memset", "memcmp"}
    BY <1>4 DEF FunctionStep, memcpy, CopyByByte, CopyHead, memcpy32, CopyTail, CopyAscending,
                CopyDescending, memcpy32_backwards, memset, memset32, SetTail, memcmp, Compare,
                GoTo, Advance, Return
  <2>3. ASSUME Running PROVE AtPoint'
    BY <1>4, <2>3, CopyByByteStep, CopyHeadStep, memcpy32Step, CopyTailStep, CopyDescendingStep,
       memcpy32_backwardsStep, SetStep, CompareStep
       DEF FunctionStep
  <2> QED BY <1>2, <2>1, <2>2, <2>3 DEF PromiseInv
<1> QED BY <1>3, <1>4

\* The application passes blocks that lie in the address space with an unrolled round
\* to spare, and to memcpy blocks that do not overlap: the loops compare pointers with
\* ends that would wrap around otherwise.
RegularCalls == \A c \in CallRecords : Regular(c)

\* A memory function that has returned has done what it promises, for such blocks of
\* any size, alignment and overlap: memcpy, memmove and memset have changed the
\* destination to what the source held, or to the value, and nothing else; memcmp tells
\* the order.  FunctionsKeepPromise itself exempts the calls of SizeWraps.
THEOREM PromisesKept ==
  ASSUME RegularCalls
  PROVE  Spec => []FunctionsKeepPromise
<1>1. Init => PromiseInv
  BY DEF Init, MemInit, PromiseInv
<1>2. MemInv /\ MemTypeOK /\ PromiseInv /\ [Next]_vars => PromiseInv'
  <2> SUFFICES ASSUME MemInv, MemTypeOK, PromiseInv, [Next]_vars PROVE PromiseInv'
    OBVIOUS
  <2>1. CASE UNCHANGED mem_vars
    BY <2>1 DEF mem_vars, PromiseInv, AtPoint, AtCopyPoint, AtOtherPoint, Reached, ReachedDown,
                IsDone, ByteAt, SameAlignment, MovesUp, MovesDown, Promised, Order
  <2>2. CASE Anew
    BY <2>2 DEF Anew, PromiseInv
  <2>3. ASSUME NEW c \in CallRecords, Call(c) PROVE PromiseInv'
    <3>1. Regular(c) /\ c.fn \in {"memcpy", "memmove", "memset", "memcmp"}
      BY CallsOfFunctions DEF RegularCalls, CallArguments
    <3>2. call' = c /\ fn_pc' = c.fn /\ saved' = mem /\ mem' = mem
      BY <2>3 DEF Call
    <3>3. AtPoint'
      BY <3>1, <3>2 DEF AtPoint, AtCopyPoint, AtOtherPoint
    <3> QED BY <3>1, <3>2, <3>3 DEF PromiseInv
  <2> QED BY <2>1, <2>2, <2>3, FunctionKeepsPromiseInv
          DEF Next, LoaderStep, FlashStep, ApplicationStep, PowerOn, MemNext, ApplicationGoesOn, vars
<1>3. PromiseInv => FunctionsKeepPromise
  BY DEF PromiseInv, AtPoint, AtOtherPoint, FunctionsKeepPromise
<1>4. TypeOK => MemTypeOK
  BY DEF TypeOK
<1> QED BY <1>1, <1>2, <1>3, <1>4, MemInvHolds, TypeCorrect, PTL DEF Spec

=============================================================================
