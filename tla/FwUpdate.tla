----------------------------- MODULE FwUpdate -----------------------------
(***************************************************************************)
(* A firmware update over the UART (main.c, preload.c, fwupd.c): in the    *)
(* first moments after a start the board takes a line; the line "fwupd"    *)
(* makes it receive an image block by block into the staging half of its   *)
(* flash, and in the end copy that half over the half it runs from.        *)
(*                                                                         *)
(* The board echoes every byte it takes; there is no other acknowledgement *)
(* and no timeout.  The host program is external: it sends the next byte   *)
(* when the last one has been echoed, and stops when an echo is wrong.     *)
(* Lines shorter than the line buffer are assumed.                         *)
(*                                                                         *)
(* Left out: the LED, and staged bytes that are never read.                *)
(***************************************************************************)
EXTENDS Integers, Sequences

CONSTANTS
  Images,       (* what may be sent: sequences of [base, data]             *)
  FLASH_HALF,   (* bytes in one half of the flash, 0x40000                 *)
  Cell(_, _),    (* what a flash cell holds after a write, bit by bit       *)
  FWUPD, EOL, READY,    (* the line "fwupd", its end, the answer "ready"   *)
  Garbage,      (* what a corrupted byte may turn into                     *)
  MaxFaults,    (* bound: bytes lost or corrupted on the line              *)
  MaxCycles     (* bound: power cycles                                     *)

Byte == 0..255
Addrs == 0..(FLASH_HALF - 1)
Erased == [a \in Addrs |-> 255]
Old == [a \in Addrs |-> 165]         (* the program of the board           *)

ASSUME FwAssumption ==
  /\ FLASH_HALF \in Nat \ {0} /\ FLASH_HALF <= 256 * 1024 /\ FLASH_HALF % 4 = 0
  /\ \A old, new \in Byte : Cell(old, new) \in Byte /\ Cell(255, new) = new
  /\ {FWUPD, EOL, READY} \cap Byte = {} /\ FWUPD # EOL
  /\ Garbage \subseteq Byte /\ MaxFaults \in Nat /\ MaxCycles \in Nat
  /\ Images \subseteq Seq([base : Addrs, data : Seq(Byte)])
  /\ \A im \in Images : \A i \in 1..Len(im) :
       /\ Len(im[i].data) \in 1..240
       /\ im[i].base + Len(im[i].data) <= FLASH_HALF

VARIABLES
  host, image,          (* the host, what it sends                         *)
  blk, off,             (* the last byte sent: byte off of block blk       *)
  toBoard, toHost,      (* what is on the line                             *)
  board,                (* where the program of the board is               *)
  line,                 (* what RXLine has put into its buffer             *)
  bufData, payloadSize, baseAddr,    (* bufData: its first buffPos bytes   *)
  staging, main,        (* the two halves of the flash                     *)
  pos, dest,            (* stageF: the loop variable, destAddr             *)
  faults,               (* bytes lost or corrupted so far                  *)
  cycles                (* power cycles so far                             *)

cursor == <<blk, off>>
hostVars == <<host, image, cursor>>
uart == <<toBoard, toHost>>
block == <<bufData, payloadSize, baseAddr>>
copy == <<main, pos, dest>>
counts == <<faults, cycles>>
vars == <<hostVars, uart, board, line, block, staging, copy, counts>>

(* The bytes of the host (external).                                       *)
Le32(a) ==
  LET b == a \div 256  c == b \div 256  d == c \div 256
  IN  <<a % 256, b % 256, c % 256, d % 256>>

(* The bytes of an image on the line: per block a type, an address, a size *)
(* and the data; then a type other than 0.                                 *)
ByteAt(k, o) ==
  IF k > Len(image) THEN 1
  ELSE IF o = 1 THEN 0
  ELSE IF o <= 5 THEN Le32(image[k].base)[o - 1]
  ELSE IF o = 6 THEN Len(image[k].data)
  ELSE image[k].data[o - 6]
LastOff(k) == IF k > Len(image) THEN 1 ELSE 6 + Len(image[k].data)
AllSent == blk = Len(image) + 1 /\ off = 1

TypeOK ==
  /\ host \in {"off", "command", "send", "echo", "done", "failed"}
  /\ image \in Images /\ blk \in 1..Len(image) + 1 /\ off \in 0..LastOff(blk)
  /\ toBoard \in Seq(Byte \cup {FWUPD, EOL})
  /\ toHost \in Seq(Byte \cup {READY})
  /\ board \in {"boot", "run", "erase", "type", "base", "size", "data",
                "write", "stageF", "copy", "reset", "faulted", "fatal"}
  /\ line \in {"empty", "fwupd", "other"}
  /\ payloadSize \in -128..127
  /\ baseAddr \in Seq(Byte) /\ Len(baseAddr) = 4
  /\ bufData \in Seq(Byte) /\ Len(bufData) <= 127
  /\ board = "base" => Len(bufData) < 4
  /\ board = "data" => Len(bufData) < payloadSize
  /\ board = "write" => Len(bufData) = IF payloadSize > 0 THEN payloadSize ELSE 0
  /\ staging \in [Addrs -> Byte] /\ main \in [Addrs -> Byte]
  /\ pos \in Nat /\ dest \in 0..(FLASH_HALF \div 4)
  /\ faults \in 0..MaxFaults /\ cycles \in 0..MaxCycles

(* The staging half still holds the image of an earlier update.            *)
Init ==
  /\ host = "off" /\ image \in Images /\ blk = 1 /\ off = 0
  /\ toBoard = <<>> /\ toHost = <<>>
  /\ board = "boot" /\ line = "empty"
  /\ bufData = <<>> /\ payloadSize = 0 /\ baseAddr = <<0, 0, 0, 0>>
  /\ staging = [a \in Addrs |-> 90] /\ main = Old
  /\ pos = 0 /\ dest = 0
  /\ faults = 0 /\ cycles = 0

-----------------------------------------------------------------------------
(* The host (external).                                                    *)

HostCommands ==
  /\ host = "off"
  /\ host' = "command"
  /\ toBoard' = toBoard \o <<FWUPD, EOL>>
  /\ UNCHANGED <<image, cursor, toHost, board, line, block, staging, copy, counts>>

HostReady ==
  /\ host = "command" /\ toHost # <<>>
  /\ host' = IF Head(toHost) = READY THEN "send" ELSE "failed"
  /\ toHost' = Tail(toHost)
  /\ UNCHANGED <<image, cursor, toBoard, board, line, block, staging, copy, counts>>

HostSends ==
  /\ host = "send"
  /\ IF off < LastOff(blk) THEN off' = off + 1 /\ UNCHANGED blk
                           ELSE off' = 1 /\ blk' = blk + 1
  /\ toBoard' = Append(toBoard, ByteAt(blk', off'))
  /\ host' = "echo"
  /\ UNCHANGED <<image, toHost, board, line, block, staging, copy, counts>>

HostHears ==
  /\ host = "echo" /\ toHost # <<>>
  /\ host' = IF Head(toHost) # ByteAt(blk, off) THEN "failed"
             ELSE IF AllSent THEN "done" ELSE "send"
  /\ toHost' = Tail(toHost)
  /\ UNCHANGED <<image, cursor, toBoard, board, line, block, staging, copy, counts>>

-----------------------------------------------------------------------------
(* Start-up: mercury_preload_RXLine in the loop of main.                   *)

RXChar ==
  /\ board = "boot" /\ toBoard # <<>> /\ Head(toBoard) # EOL
  /\ line' = IF line = "empty" /\ Head(toBoard) = FWUPD THEN "fwupd" ELSE "other"
  /\ toBoard' = Tail(toBoard)
  /\ UNCHANGED <<hostVars, toHost, board, block, staging, copy, counts>>

(* End of a line: the command starts the update, any other line is         *)
(* ignored and the loop goes on.                                           *)
RXEol ==
  /\ board = "boot" /\ toBoard # <<>> /\ Head(toBoard) = EOL
  /\ toBoard' = Tail(toBoard)
  /\ line' = "empty"
  /\ IF line = "fwupd" THEN board' = "erase" /\ toHost' = Append(toHost, READY)
                       ELSE UNCHANGED <<board, toHost>>
  /\ UNCHANGED <<hostVars, block, staging, copy, counts>>

(* The time is over; a line that has begun is waited for all the same.     *)
WindowCloses ==
  /\ board = "boot" /\ line = "empty"
  /\ board' = "run"
  /\ UNCHANGED <<hostVars, uart, line, block, staging, copy, counts>>

-----------------------------------------------------------------------------
(* mercury_fwupd_entryPoint.                                               *)

(* Erasing a page may fail.                                                *)
EraseStaging ==
  /\ board = "erase"
  /\ \/ board' = "type" /\ staging' = Erased
     \/ board' = "fatal" /\ UNCHANGED staging
  /\ UNCHANGED <<hostVars, uart, line, block, copy, counts>>

(* Mutant: no echo.                                                        *)
EchoNothing == toBoard' = Tail(toBoard) /\ UNCHANGED toHost

(* uart_poll_in and uart_poll_out.                                         *)
Echo == toBoard' = Tail(toBoard) /\ toHost' = Append(toHost, Head(toBoard))

(* Takes a byte b at a place of the receiver.                              *)
Takes(place, b) ==
  /\ board = place /\ toBoard # <<>> /\ b = Head(toBoard)
  /\ Echo
  /\ UNCHANGED <<hostVars, line, staging, copy, counts>>

(* Mutant: buffPos is not set back.                                        *)
FromStartNot == bufData

(* buffPos = 0: what bufData held is not read any more.                    *)
FromStart == <<>>

(* A payload is of type 0, anything else ends the data.                    *)
ReadType == \E mType \in Byte :
  /\ Takes("type", mType)
  /\ board' = IF mType # 0 THEN "stageF" ELSE "base"
  /\ bufData' = FromStart
  /\ UNCHANGED <<payloadSize, baseAddr>>

ReadBase == \E cIn \in Byte :
  /\ Takes("base", cIn)
  /\ bufData' = Append(bufData, cIn)
  /\ IF Len(bufData') < 4 THEN UNCHANGED <<board, baseAddr>>
                          ELSE board' = "size" /\ baseAddr' = bufData'
  /\ UNCHANGED payloadSize

(* Mutant: one bit too few.                                                *)
Int8Small(b) == IF b < 127 THEN b ELSE b - 256

(* What an int8_t makes of a byte.                                         *)
Int8(b) == IF b < 128 THEN b ELSE b - 256

ReadSize == \E cIn \in Byte :
  /\ Takes("size", cIn)
  /\ payloadSize' = Int8(cIn) /\ bufData' = FromStart
  /\ board' = IF payloadSize' > 0 THEN "data" ELSE "write"
  /\ UNCHANGED baseAddr

ReadData == \E cIn \in Byte :
  /\ Takes("data", cIn)
  /\ bufData' = Append(bufData, cIn)
  /\ board' = IF Len(bufData') < payloadSize THEN board ELSE "write"
  /\ UNCHANGED <<payloadSize, baseAddr>>

-----------------------------------------------------------------------------
(* The block goes into the staging half.  The write may fail, which the    *)
(* code does not look at; it reads the block back and compares.            *)

Base == baseAddr[1] + 256 * (baseAddr[2] + 256 * baseAddr[3])
InHalf == baseAddr[4] = 0 /\ Base + Len(bufData) <= FLASH_HALF

(* Flash cells can be cleared bit by bit, not set.                         *)
Programmed ==
  [a \in Addrs |-> IF a - Base + 1 \in 1..Len(bufData)
                   THEN Cell(staging[a], bufData[a - Base + 1]) ELSE staging[a]]

(* Mutant: whatever is read back is good.                                  *)
EgalAlways(flash) == TRUE

(* What has been read back is what was received.                           *)
Egal(flash) == \A z \in 1..payloadSize : flash[Base + z - 1] = bufData[z]

(* Outside the flash neither write nor read does anything: block2 keeps    *)
(* what an earlier block or nothing has put there.                         *)
WriteBlock ==
  /\ board = "write"
  /\ IF InHalf
     THEN /\ staging' \in {staging, Programmed}
          /\ board' = IF Egal(staging') THEN "type" ELSE "fatal"
     ELSE /\ UNCHANGED staging
          /\ board' \in IF payloadSize > 0 THEN {"type", "fatal"} ELSE {"type"}
  /\ UNCHANGED <<hostVars, uart, line, block, copy, counts>>

-----------------------------------------------------------------------------
(* mercury_fwupd_stageF: the staging half is copied word by word.          *)

EraseMain ==
  /\ board = "stageF"
  /\ main' = Erased /\ pos' = 0 /\ dest' = 0
  /\ board' = "copy"
  /\ UNCHANGED <<hostVars, uart, line, block, staging, counts>>

(* Mutant: the pointers move on by a half word.                            *)
WordShort(d) == (4 * d)..(4 * d + 1)

(* The bytes of word d.                                                    *)
Word(d) == (4 * d)..(4 * d + 3)

(* One turn of the loop: pos is tested, destAddr and sourceAddr move on.   *)
(* Past the staging half there is no flash to read: the processor faults.  *)
CopyTurn ==
  IF Word(dest) \subseteq Addrs
  THEN /\ main' = [a \in Addrs |-> IF a \in Word(dest) THEN Cell(main[a], staging[a])
                                                      ELSE main[a]]
       /\ dest' = dest + 1
       /\ UNCHANGED board
  ELSE board' = "faulted" /\ UNCHANGED <<main, dest>>

CopyLoop ==
  /\ board = "copy"
  /\ IF pos < FLASH_HALF - 1 THEN CopyTurn
                             ELSE board' = "reset" /\ UNCHANGED <<main, dest>>
  /\ UNCHANGED <<hostVars, uart, line, block, staging, pos, counts>>

-----------------------------------------------------------------------------
(* The line (external): a byte is lost or comes out as another one.        *)

LineFails(line1, line2) ==
  /\ faults < MaxFaults /\ faults' = faults + 1
  /\ line1 # <<>>
  /\ \/ line1' = Tail(line1)
     \/ \E b \in Garbage \ {Head(line1)} : line1' = <<b>> \o Tail(line1)
  /\ UNCHANGED line2
  /\ UNCHANGED <<hostVars, board, line, block, staging, copy, cycles>>

Line == LineFails(toBoard, toHost) \/ LineFails(toHost, toBoard)

-----------------------------------------------------------------------------
(* A half of the flash holds the first n blocks of an image: every cell    *)
(* has its byte of the last of them that covers it, the others are erased. *)
Covers(b, a) == a - b.base + 1 \in 1..Len(b.data)
Holds(flash, im, n) ==
  \A a \in Addrs :
    \/ flash[a] = 255 /\ \A i \in 1..n : ~Covers(im[i], a)
    \/ \E i \in 1..n :
         /\ Covers(im[i], a) /\ flash[a] = im[i].data[a - im[i].base + 1]
         /\ \A j \in i + 1..n : ~Covers(im[j], a)
HoldsImage(flash) == Holds(flash, image, Len(image))

(* The board loses its power, at any time, and the host begins again, with *)
(* this or another image.  The flash keeps what it holds; the board starts *)
(* if there is a whole program in the main half.                           *)
PowerCycle ==
  /\ cycles < MaxCycles /\ cycles' = cycles + 1
  /\ main = Old \/ (image # <<>> /\ HoldsImage(main))
  /\ host' = "off" /\ image' \in Images /\ blk' = 1 /\ off' = 0
  /\ toBoard' = <<>> /\ toHost' = <<>>
  /\ board' = "boot" /\ line' = "empty"
  /\ bufData' = <<>> /\ payloadSize' = 0 /\ baseAddr' = <<0, 0, 0, 0>>
  /\ pos' = 0 /\ dest' = 0
  /\ UNCHANGED <<staging, main, faults>>

Host == HostCommands \/ HostReady \/ HostSends \/ HostHears

Board ==
  \/ RXChar \/ RXEol \/ WindowCloses
  \/ EraseStaging \/ ReadType \/ ReadBase \/ ReadSize \/ ReadData \/ WriteBlock
  \/ EraseMain \/ CopyLoop

Next == Host \/ Board \/ Line \/ PowerCycle

Spec == Init /\ [][Next]_vars

(* Neither the program of the board nor that of the host rests while it    *)
(* has something to do.                                                    *)
FairSpec == Spec /\ WF_vars(Host) /\ WF_vars(Board)

-----------------------------------------------------------------------------
(* What the protocol can cope with: one byte lost or corrupted, and blocks *)
(* whose size an int8_t holds.  A second fault could turn the echo of a    *)
(* corrupted byte back into what the host expects.                         *)
SizesFit == \A i \in 1..Len(image) : Len(image[i].data) <= 127
Reliable == faults <= 1 /\ SizesFit

(* Once the host has seen its last byte echoed, the staging half holds its *)
(* image, whatever one fault on the line and the flash have done and       *)
(* wherever an earlier attempt was cut off: no failed flash_write          *)
(* (fwupd.c:151) and no rest of another image goes unnoticed by both.      *)
AcceptedIsStaged == Reliable /\ host = "done" => HoldsImage(staging)

(* Of an update the host takes for done, every word is in its place when   *)
(* the copying stops (fwupd.c:44-59).                                      *)
InstalledIsSent ==
  Reliable /\ host = "done" /\ board \in {"reset", "faulted"} => HoldsImage(main)

(* "All data payloads are type 0, anything else and we are done with data" *)
(* (fwupd.c:119): the board stops receiving and overwrites its program     *)
(* only when all the data has been sent, if the line is good.              *)
CopyOnlyAtEnd ==
  Reliable /\ faults = 0 /\ board \in {"stageF", "copy", "reset", "faulted"}
    => AllSent

(* The protocol has no timeout and needs none on a good line: an update    *)
(* that has begun is received in full, unless the flash fails or the board *)
(* is switched off.                                                        *)
Delivered ==
  board = "erase" /\ SizesFit
    ~> host = "done" \/ faults > 0 \/ board \in {"fatal", "boot"}
=============================================================================
