--------------------- MODULE AdvancedTechnologyAttachment ---------------------
(***************************************************************************)
(* The driver of the disk (src/src/drivers/ata.cpp): Read28, Write28 and   *)
(* Flush, word by word, against a drive that needs time.  The drive is     *)
(* external: it is busy after every command, also before it takes the      *)
(* words to write; while it is busy it ignores what is written to it, and  *)
(* it hands over or takes the words of one sector per command.             *)
(*                                                                         *)
(* A sector number is given by its four bytes, the upper ones first.       *)
(***************************************************************************)
EXTENDS Integers, Sequences

CONSTANTS
  Words,       \* 16-bit words in a sector: 256
  Sectors,     \* the numbers used: [top, b2, b1, b0]
  Counts,      \* bytes to read, which nobody checks
  Data,        \* bytes to write, in sequences
  Noise        \* what the data port may read when the drive gives nothing

(* With the largest int as count, i would wrap.                            *)
ASSUME DiskAssumption ==
  /\ Words \in Nat \ {0}
  /\ Counts \subseteq Int /\ 2147483647 \notin Counts
  /\ Data \subseteq Seq(0 .. 255)
  /\ Noise # {} /\ Noise \subseteq (0 .. 255) \X (0 .. 255)

VARIABLES
  registers,   \* what lbaLowPort, lbaMidPort and devicePort were last given
  drive,       \* [mode, left, words, error]: the drive and its command
  disk,        \* the sectors' words
  call,        \* [step, sector, count, i, words]: the driver's
  ignored,     \* history: something was written to a drive not ready for it
  failed,      \* history: where the drive's last attempt to write has failed
  written      \* history: the last Write28 of each address, whose and what

historyOfDisk == <<ignored, failed, written>>
diskVars == <<registers, drive, disk, call, historyOfDisk>>

EmptySector == [k \in 1 .. Words |-> <<0, 0>>]

(* lbaHiPort is never written; whatever it holds is the same for all.      *)
Address(r) == <<r.top, r.mid, r.low>>

(* The parts of a sector number that reach the drive.                      *)
Key(s) == <<s.top, s.b1, s.b2>>

(* sectorNum > 0x0FFFFFFF is refused.                                      *)
Reachable == {s \in Sectors : s.top < 16}

Addresses == {Key(s) : s \in Reachable}

Idle == [mode |-> "idle", left |-> 0, words |-> <<>>, error |-> FALSE]

DiskInit ==
  /\ registers = [top |-> 0, mid |-> 0, low |-> 0]
  /\ drive = Idle
  /\ disk = [a \in Addresses |-> EmptySector]
  /\ call = [step |-> "idle"]
  /\ ignored = FALSE /\ failed = {}
  /\ written = [a \in Addresses |-> [by |-> {}, bytes |-> <<>>]]

Busy == drive.mode \in {"reading", "preparing", "writing", "flushing"}

-----------------------------------------------------------------------------
(* The command: the registers, of which lbaLowPort is written twice, and   *)
(* the command byte.                                                       *)
Registers(s) == [top |-> s.top, mid |-> s.b1, low |-> s.b2]

Command(values, mode) ==
  IF Busy
  THEN ignored' = TRUE /\ UNCHANGED <<registers, drive>>
  ELSE /\ registers' = values
       /\ drive' = [mode |-> mode, left |-> Words, words |-> <<>>, error |-> FALSE]
       /\ UNCHANGED ignored

(* Where the second loop over i starts; % is the remainder of C.           *)
Remainder(count) == IF count < 0 THEN -(-count % 2) ELSE count % 2

NextEven(count) == count + 2 - Remainder(count)  \* mutant: even goes on, too
Even(count) == count + Remainder(count)

FirstI(count) == IF count > 0 THEN 0 ELSE Even(count)

Read28(s, count) ==
  /\ call.step = "idle"
  /\ Command(Registers(s), "reading")
  /\ call' = [step |-> "poll", sector |-> s, count |-> count, i |-> FirstI(count),
              words |-> <<>>]
  /\ UNCHANGED <<disk, failed, written>>

(* Write28 refuses more than a sector; it does not wait for the drive.     *)
Write28(s, bytes) ==
  /\ call.step = "idle" /\ Len(bytes) <= 2 * Words
  /\ Command(Registers(s), "preparing")
  /\ call' = [step |-> "write", sector |-> s, count |-> Len(bytes),
              i |-> FirstI(Len(bytes)), words |-> bytes]
  /\ UNCHANGED <<disk, failed, written>>

(* Flush writes the device register, without sector bits, and its command. *)
Flush ==
  /\ call.step = "idle"
  /\ Command([registers EXCEPT !.top = 0], "flushing")
  /\ call' = [step |-> "flush"]
  /\ UNCHANGED <<disk, failed, written>>

Done == [step |-> "idle"]

(* while(BSY && !ERR); then ERR is an error.                               *)
Poll ==
  /\ ~Busy
  /\ \/ /\ call.step = "poll"
        /\ call' = IF drive.error THEN Done ELSE [call EXCEPT !.step = "read"]
     \/ call.step = "flush" /\ call' = Done
  /\ UNCHANGED <<registers, drive, disk, historyOfDisk>>

(* The two loops over i: up to count, and on to the end of the sector.     *)
InFirstLoop == call.i >= 0 /\ call.i < call.count

NextI == IF InFirstLoop /\ call.i + 2 >= call.count THEN Even(call.count) ELSE call.i + 2

GoesOn == NextI < call.count \/ NextI < 2 * Words

Offered ==
  IF drive.mode = "give" THEN {drive.words[Words - drive.left + 1]} ELSE Noise

AfterGiving ==
  IF drive.mode # "give" THEN drive
  ELSE IF drive.left > 1 THEN [drive EXCEPT !.left = @ - 1] ELSE Idle

Given(word) == IF call.i + 1 < call.count THEN word ELSE <<word[1]>>

With(word) == IF InFirstLoop THEN call.words \o Given(word) ELSE call.words

AfterWord(word) ==
  IF GoesOn THEN [call EXCEPT !.i = NextI, !.words = With(word)]
  ELSE [call EXCEPT !.step = "got", !.words = With(word)]

ReadWord ==
  /\ call.step = "read"
  /\ \E word \in Offered : call' = AfterWord(word)
  /\ drive' = AfterGiving
  /\ UNCHANGED <<registers, disk, historyOfDisk>>

(* What it has read, it has passed to printf.                              *)
ShowWord ==
  /\ call.step = "got"
  /\ call' = Done
  /\ UNCHANGED <<registers, drive, disk, historyOfDisk>>

WriteWord ==
  LET byte(i) == IF i < call.count THEN call.words[i + 1] ELSE 0
      word == <<byte(call.i), byte(call.i + 1)>>
  IN  /\ call.step = "write"
      /\ drive' = IF drive.mode # "take" THEN drive
                  ELSE [drive EXCEPT !.left = @ - 1, !.words = Append(@, word),
                                     !.mode = IF drive.left = 1 THEN "writing" ELSE @]
      /\ ignored' = (ignored \/ drive.mode # "take")
      /\ call' = IF GoesOn THEN [call EXCEPT !.i = NextI] ELSE Done
      /\ written' = IF GoesOn THEN written
                    ELSE [written EXCEPT ![Key(call.sector)] =
                            [by |-> {call.sector}, bytes |-> call.words]]
      /\ UNCHANGED <<registers, disk, failed>>

-----------------------------------------------------------------------------
(* The drive has read or written the platter, is ready for the words, or   *)
(* has flushed its cache.                                                  *)
DriveReads ==
  /\ drive.mode = "reading"
  /\ drive' = [drive EXCEPT !.mode = "give", !.words = disk[Address(registers)]]
  /\ UNCHANGED <<registers, disk, call, historyOfDisk>>

DriveAsks ==
  /\ drive.mode = "preparing"
  /\ drive' = [drive EXCEPT !.mode = "take"]
  /\ UNCHANGED <<registers, disk, call, historyOfDisk>>

DriveWrites ==
  /\ drive.mode = "writing"
  /\ drive' = Idle
  /\ disk' = [disk EXCEPT ![Address(registers)] = drive.words]
  /\ failed' = failed \ {Address(registers)}
  /\ UNCHANGED <<registers, call, ignored, written>>

DriveFlushes ==
  /\ drive.mode = "flushing"
  /\ drive' = Idle
  /\ UNCHANGED <<registers, disk, call, historyOfDisk>>

(* It gives up, which the next poll reports; after a write nobody polls.   *)
DriveFails ==
  /\ Busy
  /\ drive' = [Idle EXCEPT !.error = TRUE]
  /\ failed' = IF drive.mode = "writing" THEN failed \cup {Address(registers)} ELSE failed
  /\ UNCHANGED <<registers, disk, call, ignored, written>>

Drive == DriveReads \/ DriveAsks \/ DriveWrites \/ DriveFlushes \/ DriveFails

DiskNext ==
  \/ \E s \in Reachable, count \in Counts : Read28(s, count)
  \/ \E s \in Reachable, bytes \in Data : Write28(s, bytes)
  \/ Flush
  \/ Poll \/ ReadWord \/ ShowWord \/ WriteWord
  \/ Drive

DiskSpec == DiskInit /\ [][DiskNext]_diskVars

-----------------------------------------------------------------------------
(* Properties                                                              *)

(* Write28 waits neither before its command nor before its words, and      *)
(* Flush not before its command.  What follows is about a drive that was   *)
(* ready for them each time (~ignored).                                    *)

(* A call moves the words of one sector, whatever the count, also if it is *)
(* negative or more than a sector: the drive is never left with words it   *)
(* waits for or still has, which would be taken for the next command's.    *)
TransfersAreWhole ==
  call.step = "idle" /\ ~ignored => drive.mode \in {"idle", "writing"}

(* What is read, up to the end of the sector, is what was last written     *)
(* there, unless that write has failed or another sector with the same     *)
(* address was written since: the lowest byte of a number is lost.         *)
ReadsWhatWasWritten ==
  call.step = "got" /\ ~ignored =>
    LET last == written[Key(call.sector)]
    IN  /\ Len(call.words) = IF call.count < 0 THEN 0 ELSE call.count
        /\ Key(call.sector) \notin failed /\ last.by \subseteq {call.sector} =>
             \A k \in 1 .. Len(call.words) : k <= 2 * Words =>
               call.words[k] = IF k <= Len(last.bytes) THEN last.bytes[k] ELSE 0

(* The drive and the driver never lose step, and so a sector that is read  *)
(* is the sector that was written.                                         *)
SectorsAreKept == TransfersAreWhole /\ ReadsWhatWasWritten
=============================================================================
