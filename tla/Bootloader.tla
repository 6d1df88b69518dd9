----------------------------- MODULE Bootloader -----------------------------
(***************************************************************************)
(* The second-stage boot loader of the Raspberry Pi Pico.  The boot ROM    *)
(* loads it; it sets the flash chip's quad-enable bit if need be, puts the *)
(* chip into continuous read mode, lets the SSI controller translate bus   *)
(* accesses into reads of the flash, and jumps to the application there.   *)
(*                                                                         *)
(* The processor, the SSI controller and the flash chip run concurrently.  *)
(* All bytes of a command are in the transmit FIFO before the controller   *)
(* has sent the first one, and it is busy from the first byte on.          *)
(***************************************************************************)
EXTENDS Integers, Sequences

CONSTANT MaxResets   \* bound: the resets and power failures

ASSUME ResetBound == MaxResets \in Nat

VARIABLES
  boot_pc, command,        \* where the boot loader is, and the command it sends
  reg_value,               \* the status register it has read, as the set of its bits
  ssi_enabled, ssi_config, \* the SSI controller: SSIENR; the format it is configured for
  ssi_busy, rx,            \* the bit BUSY of SR; the receive FIFO
  sr2,                     \* the flash chip: the bits of its non-volatile status register
  write_enabled, writing,  \* its bits WEL and WIP
  flash_mode,              \* whether it expects a serial command prefix
  resets

processor == <<boot_pc, command, reg_value>>
ssi       == <<ssi_enabled, ssi_config, ssi_busy, rx>>
flash     == <<sr2, write_enabled, writing, flash_mode>>
boot_vars == <<processor, ssi, flash, resets>>

\* QE enables quad-SPI mode; the lock bit LB is programmed once and never cleared.
Bits      == {"QE", "LB"}
SREG_DATA == {"QE"}
Junk      == {"junk"}

Serial   == {"CMD_READ_STATUS2", "CMD_WRITE_ENABLE", "CMD_WRITE_STATUS", "CMD_READ_STATUS"}
Reads    == {"CMD_READ_STATUS2", "CMD_READ_STATUS"}
CMD_READ == "CMD_READ"

\* The bytes that a command pushes; as many are received.
Length(cmd) == CASE cmd = "CMD_WRITE_ENABLE" -> 1 [] cmd = "CMD_WRITE_STATUS" -> 3
                 [] cmd \in Reads -> 2 [] OTHER -> 1

BootTypeOK ==
  /\ boot_pc \in {"serial", "push", "wait", "receive", "quad", "xip", "jump", "app"}
  /\ command \in Serial \cup {CMD_READ}
  /\ reg_value \in (SUBSET Bits) \cup {{"WIP"}, Junk}
  /\ ssi_enabled \in BOOLEAN /\ ssi_config \in {"none", "serial", "quad", "xip"}
  /\ ssi_busy \in BOOLEAN /\ Len(rx) <= 3
  /\ sr2 \in SUBSET Bits /\ write_enabled \in BOOLEAN /\ writing \in BOOLEAN
  /\ flash_mode \in {"serial", "continuous"}
  /\ resets \in 0 .. MaxResets

BootInit ==
  /\ boot_pc = "serial" /\ command = "CMD_READ_STATUS2" /\ reg_value = {}
  /\ ssi_enabled = FALSE /\ ssi_config = "none" /\ ssi_busy = FALSE /\ rx = <<>>
  /\ sr2 \in SUBSET Bits /\ write_enabled = FALSE /\ writing = FALSE
  /\ flash_mode = "serial"
  /\ resets = 0

-----------------------------------------------------------------------------
(* The boot loader *)

\* Disables the SSI, which empties its FIFOs and cuts a transfer, and configures it.
Configure(config) ==
  /\ ssi_enabled' = FALSE /\ ssi_config' = config
  /\ ssi_busy' = FALSE /\ rx' = <<>>

NextIs(at, cmd) == boot_pc' = at /\ command' = cmd

ConfigureSerial ==
  /\ boot_pc = "serial" /\ ssi_config # "serial"
  /\ Configure("serial")
  /\ UNCHANGED <<processor, flash, resets>>

EnableSerial ==
  /\ boot_pc = "serial" /\ ssi_config = "serial"
  /\ ssi_enabled' = TRUE
  /\ NextIs("push", "CMD_READ_STATUS2")
  /\ UNCHANGED <<reg_value, ssi_config, ssi_busy, rx, flash, resets>>

PushCommand ==
  /\ boot_pc = "push"
  /\ ssi_busy' = TRUE
  /\ boot_pc' = "wait"
  /\ UNCHANGED <<command, reg_value, ssi_enabled, ssi_config, rx, flash, resets>>

\* The loop ends when the value read from SR says that the SSI is not busy.
wait_ssi_ready ==
  /\ boot_pc = "wait" /\ ~ssi_busy
  /\ boot_pc' = IF command = CMD_READ THEN "xip" ELSE "receive"
  /\ UNCHANGED <<command, reg_value, ssi, flash, resets>>

\* The bytes of the receive FIFO are read; the status is in the last one.
Received == IF Len(rx) >= Length(command) THEN rx[Length(command)] ELSE {}

\* Mutant: only one byte is read.
PopOne ==
  /\ rx' = Tail(rx)
  /\ reg_value' = IF command \in Reads THEN Received ELSE reg_value
  /\ UNCHANGED <<ssi_enabled, ssi_config, ssi_busy, flash, resets>>

Pop ==
  /\ rx' = SubSeq(rx, Length(command) + 1, Len(rx))
  /\ reg_value' = IF command \in Reads THEN Received ELSE reg_value
  /\ UNCHANGED <<ssi_enabled, ssi_config, ssi_busy, flash, resets>>

\* Checks whether the status register needs updating.
CheckStatus2 ==
  /\ boot_pc = "receive" /\ command = "CMD_READ_STATUS2"
  /\ Pop
  /\ IF Received # SREG_DATA THEN NextIs("push", "CMD_WRITE_ENABLE")
     ELSE NextIs("quad", command)

WriteEnabled ==
  /\ boot_pc = "receive" /\ command = "CMD_WRITE_ENABLE"
  /\ Pop /\ NextIs("push", "CMD_WRITE_STATUS")

StatusWritten ==
  /\ boot_pc = "receive" /\ command = "CMD_WRITE_STATUS"
  /\ Pop /\ NextIs("push", "CMD_READ_STATUS")

\* Mutant: the boot loader does not wait for the write.
DoesNotPoll ==
  /\ boot_pc = "receive" /\ command = "CMD_READ_STATUS"
  /\ Pop
  /\ NextIs("quad", command)

\* Mutant: it checks the second status register again after the write.
ChecksAgain ==
  /\ boot_pc = "receive" /\ command = "CMD_READ_STATUS"
  /\ Pop
  /\ NextIs("push", IF "WIP" \in Received THEN "CMD_READ_STATUS" ELSE "CMD_READ_STATUS2")

\* Polls the status register for the completion of the write.
PollStatus ==
  /\ boot_pc = "receive" /\ command = "CMD_READ_STATUS"
  /\ Pop
  /\ IF "WIP" \in Received THEN NextIs("push", "CMD_READ_STATUS") ELSE NextIs("quad", command)

ConfigureQuad ==
  /\ boot_pc = "quad" /\ ssi_config # "quad"
  /\ Configure("quad")
  /\ UNCHANGED <<processor, flash, resets>>

EnableQuad ==
  /\ boot_pc = "quad" /\ ssi_config = "quad"
  /\ ssi_enabled' = TRUE
  /\ NextIs("push", CMD_READ)
  /\ UNCHANGED <<reg_value, ssi_config, ssi_busy, rx, flash, resets>>

ConfigureXip ==
  /\ boot_pc = "xip" /\ ssi_config # "xip"
  /\ Configure("xip")
  /\ UNCHANGED <<processor, flash, resets>>

EnableXip ==
  /\ boot_pc = "xip" /\ ssi_config = "xip"
  /\ ssi_enabled' = TRUE
  /\ boot_pc' = "jump"
  /\ UNCHANGED <<command, reg_value, ssi_config, ssi_busy, rx, flash, resets>>

\* Reads the application's stack pointer and reset vector from the flash.
JumpToApplication ==
  /\ boot_pc = "jump"
  /\ boot_pc' = "app"
  /\ UNCHANGED <<command, reg_value, ssi, flash, resets>>

BootStep ==
  \/ ConfigureSerial \/ EnableSerial \/ PushCommand \/ wait_ssi_ready
  \/ CheckStatus2 \/ WriteEnabled \/ StatusWritten \/ PollStatus
  \/ ConfigureQuad \/ EnableQuad \/ ConfigureXip \/ EnableXip \/ JumpToApplication

-----------------------------------------------------------------------------
(* The hardware *)

\* What the chip answers to a command, if it expects one and the format is right.
Understands(cmd) == flash_mode = "serial" /\ (cmd = CMD_READ => ssi_config = "quad")

Reply(cmd) ==
  [i \in 1 .. Length(cmd) |->
     IF i # 2 \/ cmd \notin Reads \/ ~Understands(cmd) THEN Junk
     ELSE IF cmd = "CMD_READ_STATUS2" THEN sr2
     ELSE IF writing THEN {"WIP"} ELSE {}]

\* The transfer ends and the chip, deselected, acts on the command; while it
\* writes it only answers reads of its status.
TransferEnds ==
  /\ ssi_busy /\ ssi_enabled
  /\ ssi_busy' = FALSE
  /\ rx' = rx \o Reply(command)
  /\ LET acts(cmd) == command = cmd /\ Understands(cmd) /\ ~writing
     IN  /\ write_enabled' = (acts("CMD_WRITE_ENABLE")
                                \/ (write_enabled /\ ~acts("CMD_WRITE_STATUS")))
         /\ writing' = (writing \/ (acts("CMD_WRITE_STATUS") /\ write_enabled))
         /\ flash_mode' = IF acts(CMD_READ) /\ "QE" \in sr2 THEN "continuous" ELSE flash_mode
  /\ UNCHANGED <<processor, ssi_enabled, ssi_config, sr2, resets>>

Written == SREG_DATA \cup (sr2 \cap {"LB"})

WriteEnds ==
  /\ writing
  /\ writing' = FALSE
  /\ sr2' = Written
  /\ UNCHANGED <<processor, ssi, write_enabled, flash_mode, resets>>

\* A power failure or a reset.  The boot ROM takes the chip out of continuous
\* read mode and loads the boot loader from it, once the chip does not write.
Reset ==
  /\ resets < MaxResets /\ resets' = resets + 1
  /\ boot_pc' = "serial" /\ command' = "CMD_READ_STATUS2" /\ reg_value' = {}
  /\ ssi_enabled' = FALSE /\ ssi_config' = "none" /\ ssi_busy' = FALSE /\ rx' = <<>>
  /\ sr2' \in IF writing THEN {sr2, Written} ELSE {sr2}
  /\ writing' = FALSE /\ write_enabled' \in {FALSE, write_enabled}
  /\ flash_mode' = "serial"

BootNext == BootStep \/ TransferEnds \/ WriteEnds

-----------------------------------------------------------------------------
(* Properties *)

\* The application is entered only when it can be read: the SSI is enabled and
\* configured for XIP, and the chip is in continuous read mode and not writing.
EntersReadableFlash ==
  boot_pc \in {"jump", "app"} =>
    ssi_enabled /\ ssi_config = "xip" /\ flash_mode = "continuous" /\ ~writing

\* A status that the boot loader looks at is the answer to its own command: no
\* byte of an earlier command is left in the receive FIFO.
NoStaleReply == boot_pc = "push" /\ command \in Serial => rx = <<>> /\ ~ssi_busy

=============================================================================
