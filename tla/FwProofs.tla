----------------------------- MODULE FwProofs -----------------------------
(***************************************************************************)
(* The firmware update, for any images, any size of the flash up to that   *)
(* of the chip, any number of faults on the line and any number of power   *)
(* failures.                                                               *)
(*                                                                         *)
(* What the host takes for done is in the flash because host and board     *)
(* never drift apart unnoticed: while the host goes on, the board has      *)
(* taken just the bytes the host has sent (Reached), and with one fault    *)
(* the last echo is missing or wrong (Dialogue).  What the board holds at  *)
(* each place of a block is part of Reached; the copy is right because its *)
(* loop has moved every word before the pointer (Copied).                  *)
(***************************************************************************)
EXTENDS FwUpdate, SequenceTheorems, TLAPS

(* The first n bytes of the buffer are those of a sequence.                *)
Buffered(s, n) == Len(bufData) = n /\ \A i \in 1..n : bufData[i] = s[i]

(* The data phase of block k: address and size are known, n bytes are in.  *)
Filled(k, n) ==
  /\ baseAddr = Le32(image[k].base)
  /\ payloadSize = Len(image[k].data)
  /\ Buffered(image[k].data, n)
  /\ Holds(staging, image, k - 1)

(* The board has taken the bytes of the host up to byte o of block k.      *)
AtStart ==
  board \in {"erase", "fatal"} \/ (board = "type" /\ Holds(staging, image, 0))
AtEnd == board \in {"stageF", "copy", "faulted"} /\ HoldsImage(staging)
InBlock(k, o) ==
  \/ /\ o \in 1..4 /\ board = "base"
     /\ Buffered(Le32(image[k].base), o - 1) /\ Holds(staging, image, k - 1)
  \/ /\ o = 5 /\ board = "size"
     /\ baseAddr = Le32(image[k].base) /\ Holds(staging, image, k - 1)
  \/ o >= 6 /\ o < LastOff(k) /\ board = "data" /\ Filled(k, o - 6)
  \/ o = LastOff(k) /\ board = "write" /\ Filled(k, o - 6)
  \/ o = LastOff(k) /\ board = "type" /\ Holds(staging, image, k)
  \/ o = LastOff(k) /\ board = "fatal"
Reached(k, o) ==
  \/ k = 1 /\ o = 0 /\ AtStart
  \/ k \in 1..Len(image) /\ o \in 1..LastOff(k) /\ InBlock(k, o)
  \/ k = Len(image) + 1 /\ o = 1 /\ AtEnd

(* ... up to the byte before.                                              *)
Before(k, o) ==
  IF k > 1 /\ o = 1 THEN Reached(k - 1, LastOff(k - 1)) ELSE Reached(k, o - 1)

(* The line after one byte too few or a wrong one.                         *)
Broken(x) ==
  /\ faults = 1
  /\ \/ toBoard = <<>> /\ toHost = <<>>
     \/ toHost = <<>> /\ Len(toBoard) = 1 /\ Head(toBoard) # x
     \/ toBoard = <<>> /\ Len(toHost) = 1 /\ Head(toHost) # x

(* Where the host is, what is on the line and where the board is.          *)
Off ==
  /\ board \in {"boot", "run"} /\ line = "empty"
  /\ toBoard = <<>> /\ toHost = <<>>
Commanded ==
  \/ /\ board = "boot" /\ toHost = <<>>
     /\ IF line = "empty" THEN Len(toBoard) <= 2 ELSE Len(toBoard) <= 1
  \/ board = "run" /\ toHost = <<>>
  \/ /\ toBoard = <<>> /\ Reached(blk, off)
     /\ toHost = <<>> \/ (Len(toHost) = 1 /\ (Head(toHost) = READY \/ faults = 1))
Sending == toBoard = <<>> /\ toHost = <<>> /\ Reached(blk, off)
Waiting(x) ==
  \/ toBoard = <<x>> /\ toHost = <<>> /\ Before(blk, off)
  \/ toBoard = <<>> /\ toHost = <<x>> /\ Reached(blk, off)
  \/ Broken(x)

InStep ==
  /\ host = "off" => Off
  /\ host = "command" => Commanded
  /\ host \in {"send", "done"} => Sending
  /\ host = "echo" => Waiting(ByteAt(blk, off))
  /\ host = "failed" => faults = 1
Dialogue == Reliable => InStep

(* The place of the host in its image.                                     *)
Cursor ==
  /\ host \in {"off", "command"} => blk = 1 /\ off = 0
  /\ host \in {"echo", "done"} => off >= 1
  /\ off = 0 => blk = 1
  /\ host = "send" => ~AllSent
  /\ host = "done" => AllSent

(* What has been copied.                                                   *)
Copied ==
  /\ pos = 0 /\ board # "reset"
  /\ board = "copy" =>
       \A a \in Addrs : main[a] = IF a < 4 * dest THEN staging[a] ELSE 255
  /\ board = "faulted" => main = staging

IInv == TypeOK /\ Cursor /\ Copied /\ Dialogue

-----------------------------------------------------------------------------
(* The host's bytes.                                                       *)

(* The parts of FwAssumption.                                              *)
LEMMA FlashSize == FLASH_HALF \in Nat \ {0} /\ FLASH_HALF <= 256 * 1024 /\ FLASH_HALF % 4 = 0
  BY FwAssumption, Zenon
LEMMA CellWritten == \A old, new \in Byte : Cell(old, new) \in Byte /\ Cell(255, new) = new
  BY FwAssumption, Zenon
LEMMA Symbols == {FWUPD, EOL, READY} \cap Byte = {} /\ FWUPD # EOL /\ Garbage \subseteq Byte
  BY FwAssumption, Zenon
LEMMA FaultBounds == MaxFaults \in Nat /\ MaxCycles \in Nat
  BY FwAssumption, Zenon
LEMMA ImageSeq ==
  ASSUME NEW im \in Images
  PROVE  im \in Seq([base : Addrs, data : Seq(Byte)]) /\ Len(im) \in Nat
<1>1. Images \subseteq Seq([base : Addrs, data : Seq(Byte)])
  BY FwAssumption, Zenon
<1>2. im \in Seq([base : Addrs, data : Seq(Byte)])
  BY <1>1, Zenon
<1> QED BY <1>2, LenProperties
(* What a block may hold, as far as the proofs look at the number.         *)
BlockLen == 1..240
LEMMA BlockLens == \A n \in BlockLen : n \in Nat /\ 1 <= n /\ n <= 240
  BY DEF BlockLen
LEMMA ImageSizes ==
  ASSUME NEW im \in Images, NEW i \in 1..Len(im)
  PROVE  Len(im[i].data) \in BlockLen /\ im[i].base + Len(im[i].data) <= FLASH_HALF
<1>1. \A m \in Images : \A j \in 1..Len(m) :
        Len(m[j].data) \in BlockLen /\ m[j].base + Len(m[j].data) <= FLASH_HALF
  BY FwAssumption, Zenon DEF BlockLen
<1> QED BY <1>1, Zenon
LEMMA AddrsNat == \A a \in Addrs : a \in Nat /\ a < FLASH_HALF
  BY FlashSize DEF Addrs

(* A block has its place in the half of the flash.                         *)
LEMMA BlockFits ==
  ASSUME image \in Images, NEW k \in 1..Len(image)
  PROVE  /\ image[k].base \in Addrs /\ image[k].base \in Nat
         /\ image[k].data \in Seq(Byte) /\ Len(image[k].data) \in BlockLen
         /\ image[k].base + Len(image[k].data) <= FLASH_HALF
<1>1. image \in Seq([base : Addrs, data : Seq(Byte)])
  BY ImageSeq
<1>2. image[k] \in [base : Addrs, data : Seq(Byte)]
  BY <1>1, ElementOfSeq
<1>3. /\ Len(image[k].data) \in BlockLen
      /\ image[k].base + Len(image[k].data) <= FLASH_HALF
  BY ImageSizes
<1>4. image[k].base \in Addrs /\ image[k].data \in Seq(Byte)
  BY <1>2
<1>5. image[k].base \in Nat
  BY <1>4, AddrsNat
<1> QED BY <1>3, <1>4, <1>5

(* The four bytes of an address, and the address they make again: the top  *)
(* one is 0 for any address of the flash.                                  *)
LEMMA Le32Bytes ==
  ASSUME NEW a \in Addrs
  PROVE  /\ Le32(a) \in Seq(Byte) /\ Len(Le32(a)) = 4
         /\ Le32(a)[1] + 256 * (Le32(a)[2] + 256 * Le32(a)[3]) = a
         /\ Le32(a)[4] = 0
<1> DEFINE b == a \div 256
           c == b \div 256
           d == c \div 256
<1>0. \A x \in Nat : /\ x \div 256 \in Nat /\ x % 256 \in 0..255
                     /\ x = (x % 256) + 256 * (x \div 256)
  OBVIOUS
<1>1. a \in Nat /\ a < 256 * 1024
  BY AddrsNat, FlashSize
<1>2. b \in Nat /\ b < 1024 /\ a = (a % 256) + 256 * b /\ a % 256 \in 0..255
  BY <1>0, <1>1
<1> HIDE DEF b
<1>3. c \in Nat /\ c < 4 /\ b = (b % 256) + 256 * c /\ b % 256 \in 0..255
  BY <1>0, <1>2
<1>4. d = 0 /\ c % 256 = c /\ d % 256 = 0
  BY <1>3
<1>5. Le32(a) = <<a % 256, b % 256, c, 0>>
  BY <1>0, <1>4 DEF Le32, b
<1> HIDE DEF c, d
<1> QED BY <1>1, <1>2, <1>3, <1>5 DEF Byte

(* Every part of an image has a last byte.                                 *)
LEMMA LastOffNat ==
  ASSUME image \in Images, NEW k \in 1..Len(image) + 1
  PROVE  LastOff(k) \in Nat /\ LastOff(k) >= 1
<1>1. Len(image) \in Nat
  BY ImageSeq
<1>2. k \in 1..Len(image) => Len(image[k].data) \in BlockLen
  BY BlockFits
<1> QED BY <1>1, <1>2 DEF LastOff

(* What the host sends is a byte.                                          *)
LEMMA ByteAtIsByte ==
  ASSUME image \in Images, NEW k \in 1..Len(image) + 1, NEW o \in 1..LastOff(k)
  PROVE  ByteAt(k, o) \in Byte
<1>0. Len(image) \in Nat
  BY ImageSeq
<1>1. CASE k > Len(image)
  BY <1>1 DEF ByteAt, Byte
<1>2. CASE ~(k > Len(image))
  <2>1. k \in 1..Len(image)
    BY <1>0, <1>2
  <2>2. Le32(image[k].base) \in Seq(Byte) /\ Len(Le32(image[k].base)) = 4
    BY <2>1, BlockFits, Le32Bytes
  <2>3. image[k].data \in Seq(Byte) /\ Len(image[k].data) \in BlockLen
    BY <2>1, BlockFits
  <2>4. o \in 1..(6 + Len(image[k].data))
    BY <1>2 DEF LastOff
  <2>5. CASE o = 1
    BY <1>2, <2>5 DEF ByteAt, Byte
  <2>6. CASE o \in 2..5
    <3>1. ByteAt(k, o) = Le32(image[k].base)[o - 1]
      BY <1>2, <2>6 DEF ByteAt
    <3> QED BY <2>2, <2>6, <3>1
  <2>7. CASE o = 6
    <3>1. ByteAt(k, o) = Len(image[k].data)
      BY <1>2, <2>7 DEF ByteAt
    <3>2. BlockLen \subseteq Byte
      <4>1. \A m, n \in Nat : n <= m => n \in 0..m
        OBVIOUS
      <4>2. \A n \in BlockLen : n \in Nat /\ n <= 255
        BY BlockLens
      <4>3. 255 \in Nat
        OBVIOUS
      <4>4. \A n \in BlockLen : n \in 0..255
        BY <4>1, <4>2, <4>3, Zenon
      <4> QED BY <4>4, Zenon DEF Byte
    <3> QED BY <2>3, <3>1, <3>2
  <2>8. CASE o > 6
    <3>1. ByteAt(k, o) = image[k].data[o - 6]
      BY <1>2, <2>4, <2>8 DEF ByteAt
    <3> QED BY <2>3, <2>4, <2>8, <3>1
  <2> QED BY <2>3, <2>4, <2>5, <2>6, <2>7, <2>8
<1> QED BY <1>0, <1>1, <1>2

-----------------------------------------------------------------------------
(* The flash.                                                              *)

(* The address of a filled block is read as the host meant it.             *)
LEMMA FilledInHalf ==
  ASSUME TypeOK, NEW k \in 1..Len(image), Filled(k, Len(image[k].data))
  PROVE  Base = image[k].base /\ InHalf
<1>1. /\ image[k].base \in Addrs /\ image[k].base \in Nat
      /\ image[k].base + Len(image[k].data) <= FLASH_HALF
  BY BlockFits DEF TypeOK
<1>2. baseAddr = Le32(image[k].base) /\ Len(bufData) = Len(image[k].data)
  BY DEF Filled, Buffered
<1>3. Base = image[k].base /\ baseAddr[4] = 0
  BY <1>1, <1>2, Le32Bytes DEF Base
<1> QED BY <1>1, <1>2, <1>3 DEF InHalf

(* A block that has been written, or not, and reads back as it should is   *)
(* in the flash, and outside it nothing has changed: the write that failed *)
(* unnoticed would have changed nothing anyway (fwupd.c:151-160).          *)
LEMMA BlockHeld ==
  ASSUME TypeOK, NEW k \in 1..Len(image), Filled(k, Len(image[k].data)),
         NEW flash \in {staging, Programmed}, Egal(flash)
  PROVE  Holds(flash, image, k)
<1> DEFINE b == image[k]
<1>0. Len(image) \in Nat /\ k \in Nat
  <2>1. image \in Images
    BY DEF TypeOK
  <2> QED BY <2>1, ImageSeq
<1>1. b.base \in Nat /\ Len(b.data) \in BlockLen
  BY BlockFits DEF TypeOK
<1>2. Base = b.base
  BY FilledInHalf
<1>3. /\ payloadSize = Len(b.data) /\ Len(bufData) = Len(b.data)
      /\ \A i \in 1..Len(b.data) : bufData[i] = b.data[i]
      /\ Holds(staging, image, k - 1)
  BY DEF Filled, Buffered
<1> SUFFICES ASSUME NEW a \in Addrs
             PROVE  \/ flash[a] = 255 /\ \A i \in 1..k : ~Covers(image[i], a)
                    \/ \E i \in 1..k :
                         /\ Covers(image[i], a)
                         /\ flash[a] = image[i].data[a - image[i].base + 1]
                         /\ \A j \in i + 1..k : ~Covers(image[j], a)
  BY DEF Holds
<1>a. a \in Nat
  BY AddrsNat
<1>4. CASE Covers(b, a)
  <2> DEFINE z == a - b.base + 1
  <2>1. z \in 1..Len(b.data)
    BY <1>4 DEF Covers
  <2>2. flash[Base + z - 1] = bufData[z]
    BY <1>3, <2>1 DEF Egal
  <2>3. Base + z - 1 = a
    BY <1>a, <1>1, <1>2
  <2>4. flash[a] = b.data[z]
    BY <1>3, <2>1, <2>2, <2>3
  <2>5. \A j \in k + 1..k : ~Covers(image[j], a)
    BY <1>0
  <2>6. k \in 1..k
    BY <1>0
  <2> QED BY <1>4, <2>4, <2>5, <2>6
<1>5. CASE ~Covers(b, a)
  <2>1. flash[a] = staging[a]
    BY <1>2, <1>3, <1>5 DEF Covers, Programmed
  <2>2. \/ staging[a] = 255 /\ \A i \in 1..k - 1 : ~Covers(image[i], a)
        \/ \E i \in 1..k - 1 :
             /\ Covers(image[i], a)
             /\ staging[a] = image[i].data[a - image[i].base + 1]
             /\ \A j \in i + 1..k - 1 : ~Covers(image[j], a)
    BY <1>3 DEF Holds
  <2>3. \A j \in 1..k : j \in 1..k - 1 \/ j = k
    BY <1>0
  <2>4. CASE staging[a] = 255 /\ \A i \in 1..k - 1 : ~Covers(image[i], a)
    BY <1>5, <2>1, <2>3, <2>4
  <2>5. ASSUME NEW i \in 1..k - 1, Covers(image[i], a),
               staging[a] = image[i].data[a - image[i].base + 1],
               \A j \in i + 1..k - 1 : ~Covers(image[j], a)
        PROVE  \E n \in 1..k :
                 /\ Covers(image[n], a)
                 /\ flash[a] = image[n].data[a - image[n].base + 1]
                 /\ \A j \in n + 1..k : ~Covers(image[j], a)
    <3>1. i \in 1..k
      BY <1>0
    <3>2. \A j \in i + 1..k : j \in i + 1..k - 1 \/ j = k
      BY <1>0
    <3>3. \A j \in i + 1..k : ~Covers(image[j], a)
      BY <1>5, <2>5, <3>2
    <3> QED BY <2>1, <2>5, <3>1, <3>3
  <2> QED BY <2>2, <2>4, <2>5
<1> QED BY <1>4, <1>5

-----------------------------------------------------------------------------
(* Types.                                                                  *)

LEMMA TypeInit == Init => TypeOK
<1> SUFFICES ASSUME Init PROVE TypeOK
  OBVIOUS
<1>1. image \in Images /\ Len(image) \in Nat
  <2>1. image \in Images
    BY DEF Init
  <2> QED BY <2>1, ImageSeq
<1>2. LastOff(1) \in Nat
  BY <1>1, BlockFits DEF LastOff
<1>3. [a \in Addrs |-> 90] \in [Addrs -> Byte] /\ Old \in [Addrs -> Byte]
  BY DEF Byte, Old
<1>4. <<0, 0, 0, 0>> \in Seq(Byte) /\ Len(<<0, 0, 0, 0>>) = 4
  BY DEF Byte
<1>5. 0 \in 0..MaxFaults /\ 0 \in 0..MaxCycles /\ 0 \in 0..(FLASH_HALF \div 4)
  BY FlashSize, FaultBounds
<1>6. blk \in 1..Len(image) + 1 /\ off \in 0..LastOff(blk)
  <2>1. blk = 1 /\ off = 0
    BY DEF Init
  <2> QED BY <1>1, <1>2, <2>1
<1>7. toBoard \in Seq(Byte \cup {FWUPD, EOL}) /\ toHost \in Seq(Byte \cup {READY})
  BY DEF Init
<1> QED BY <1>1, <1>3, <1>4, <1>5, <1>6, <1>7 DEF Init, TypeOK

(* The place of the host stays inside its image.                           *)
LEMMA CursorStep ==
  ASSUME TypeOK, Cursor, [Next]_vars
  PROVE  Cursor' /\ image' \in Images /\ blk' \in 1..Len(image') + 1
         /\ off' \in 0..LastOff(blk)'
<1>0. image \in Images /\ image' \in Images => Len(image) \in Nat /\ Len(image') \in Nat
  BY ImageSeq
<1>1. /\ host \in {"off", "command", "send", "echo", "done", "failed"}
      /\ image \in Images /\ blk \in 1..Len(image) + 1 /\ off \in 0..LastOff(blk)
  BY DEF TypeOK
<1>2. \A k \in 1..Len(image) + 1 : LastOff(k) \in Nat /\ LastOff(k) >= 1
  BY <1>1, LastOffNat
<1>3. CASE UNCHANGED <<host, image, blk, off>>
  BY <1>1, <1>3 DEF Cursor, LastOff, AllSent
<1>4. CASE HostCommands
  BY <1>0, <1>1, <1>4 DEF HostCommands, Cursor, LastOff, AllSent, cursor
<1>5. CASE HostReady
  <2>1. ~AllSent
    BY <1>0, <1>1, <1>5 DEF HostReady, Cursor, AllSent
  <2> QED BY <1>1, <1>5, <2>1 DEF HostReady, Cursor, LastOff, AllSent, cursor
<1>6. CASE HostSends
  <2>1. UNCHANGED image /\ host' = "echo" /\ LastOff(blk)' = LastOff(blk')
    BY <1>6 DEF HostSends, LastOff, cursor
  <2>2. CASE off < LastOff(blk)
    <3>1. off' = off + 1 /\ blk' = blk
      BY <1>6, <2>2 DEF HostSends
    <3>2. LastOff(blk') = LastOff(blk) /\ LastOff(blk) \in Nat
      BY <1>1, <1>2, <3>1
    <3> QED BY <1>1, <2>1, <2>2, <3>1, <3>2 DEF Cursor
  <2>3. CASE ~(off < LastOff(blk))
    <3>1. off' = 1 /\ blk' = blk + 1
      BY <1>6, <2>3 DEF HostSends
    <3>2. blk # Len(image) + 1
      <4>1. SUFFICES ASSUME blk = Len(image) + 1 PROVE FALSE
        OBVIOUS
      <4>2. LastOff(blk) = 1
        BY <1>0, <1>1, <4>1 DEF LastOff
      <4>3. AllSent
        BY <1>1, <2>3, <4>1, <4>2 DEF AllSent
      <4> QED BY <1>6, <4>3 DEF HostSends, Cursor
    <3>3. blk' \in 1..Len(image) + 1
      BY <1>0, <1>1, <3>1, <3>2
    <3>4. LastOff(blk') \in Nat /\ LastOff(blk') >= 1
      BY <1>2, <3>3
    <3> QED BY <1>1, <2>1, <3>1, <3>3, <3>4 DEF Cursor
  <2> QED BY <2>2, <2>3
<1>7. CASE HostHears
  BY <1>1, <1>7 DEF HostHears, Cursor, LastOff, AllSent, cursor
<1>8. CASE PowerCycle
  <2>1. /\ host' = "off" /\ image' \in Images /\ blk' = 1 /\ off' = 0
    BY <1>8 DEF PowerCycle
  <2>2. Len(image') \in Nat /\ LastOff(blk)' \in Nat
    <3>1. Len(image') \in Nat
      BY <1>0, <1>1, <2>1
    <3>2. 1 \in 1..Len(image') => Len(image'[1].data) \in BlockLen
      BY <2>1, ImageSizes
    <3> QED BY <2>1, <3>1, <3>2 DEF LastOff
  <2> QED BY <2>1, <2>2 DEF Cursor
<1>9. CASE Board \/ Line
  BY <1>3, <1>9 DEF Board, Line, LineFails, RXChar, RXEol, WindowCloses, EraseStaging,
     ReadType, ReadBase, ReadSize, ReadData, Takes, WriteBlock, EraseMain, CopyLoop,
     hostVars, cursor
<1>10. CASE UNCHANGED vars
  BY <1>3, <1>10 DEF vars, hostVars, cursor
<1> QED BY <1>4, <1>5, <1>6, <1>7, <1>8, <1>9, <1>10 DEF Next, Host

(* A byte taken off the line and echoed keeps both directions typed, and   *)
(* all else is left alone.                                                 *)
LEMMA TakesType ==
  ASSUME TypeOK, NEW place, NEW b \in Byte, Takes(place, b)
  PROVE  /\ toBoard' \in Seq(Byte \cup {FWUPD, EOL})
         /\ toHost' \in Seq(Byte \cup {READY})
         /\ board = place
         /\ UNCHANGED <<host, image, blk, off, line, staging, main, pos, dest, faults, cycles>>
  BY DEF TypeOK, Takes, Echo, hostVars, cursor, copy, counts

(* What a write can leave in the staging half.                             *)
LEMMA ProgrammedType ==
  ASSUME TypeOK
  PROVE  Programmed \in [Addrs -> Byte]
<1> SUFFICES ASSUME NEW a \in Addrs, a - Base + 1 \in 1..Len(bufData)
             PROVE  Cell(staging[a], bufData[a - Base + 1]) \in Byte
  BY DEF Programmed, TypeOK
<1>1. staging[a] \in Byte /\ bufData[a - Base + 1] \in Byte
  BY ElementOfSeq DEF TypeOK
<1> QED BY <1>1, CellWritten

LEMMA TypeStep ==
  ASSUME TypeOK, Cursor, [Next]_vars
  PROVE  TypeOK'
<1>0. /\ image' \in Images /\ blk' \in 1..Len(image') + 1
      /\ off' \in 0..LastOff(blk)'
  BY CursorStep
<1>1. CASE HostCommands
  BY <1>0, <1>1 DEF HostCommands, TypeOK, block, copy, counts, cursor
<1>2. CASE HostReady
  BY <1>0, <1>2 DEF HostReady, TypeOK, block, copy, counts, cursor
<1>3. CASE HostSends
  <2>1. image' = image /\ off' >= 1
    <3>1. off \in Nat
      BY DEF TypeOK
    <3> QED BY <1>3, <3>1 DEF HostSends
  <2>2. ByteAt(blk', off') \in Byte
    <3>1. off' \in 1..LastOff(blk')
      BY <1>0, <2>1 DEF LastOff
    <3> QED BY <1>0, <2>1, <3>1, ByteAtIsByte
  <2> QED BY <1>0, <1>3, <2>1, <2>2 DEF HostSends, TypeOK, block, copy, counts
<1>4. CASE HostHears
  BY <1>0, <1>4 DEF HostHears, TypeOK, block, copy, counts, cursor
<1>5. CASE RXChar
  BY <1>0, <1>5 DEF RXChar, TypeOK, hostVars, block, copy, counts
<1>6. CASE RXEol
  <2>1. toBoard' \in Seq(Byte \cup {FWUPD, EOL}) /\ toHost' \in Seq(Byte \cup {READY})
    <3>1. toBoard' \in Seq(Byte \cup {FWUPD, EOL})
      BY <1>6 DEF RXEol, TypeOK
    <3>2. toHost' = toHost \/ toHost' = Append(toHost, READY)
      BY <1>6 DEF RXEol
    <3>3. toHost \in Seq(Byte \cup {READY})
      BY DEF TypeOK
    <3>4. Append(toHost, READY) \in Seq(Byte \cup {READY})
      BY <3>3
    <3> QED BY <3>1, <3>2, <3>3, <3>4
  <2>2. line' = "empty" /\ board' \in {"erase", "boot"}
    BY <1>6 DEF RXEol
  <2> QED BY <1>0, <1>6, <2>1, <2>2 DEF RXEol, TypeOK, hostVars, block, copy, counts
<1>7. CASE WindowCloses
  BY <1>0, <1>7 DEF WindowCloses, TypeOK, hostVars, uart, block, copy, counts
<1>8. CASE EraseStaging
  <2>1. Erased \in [Addrs -> Byte]
    BY DEF Erased, Byte
  <2> QED BY <1>0, <1>8, <2>1 DEF EraseStaging, TypeOK, hostVars, uart, block, copy, counts
<1>9. CASE ReadType
  <2>1. PICK b \in Byte :
        /\ Takes("type", b)
        /\ board' = IF b # 0 THEN "stageF" ELSE "base"
        /\ bufData' = FromStart
        /\ UNCHANGED <<payloadSize, baseAddr>>
    BY <1>9 DEF ReadType
  <2>t. /\ toBoard' \in Seq(Byte \cup {FWUPD, EOL}) /\ toHost' \in Seq(Byte \cup {READY})
        /\ board = "type"
        /\ UNCHANGED <<host, image, blk, off, line, staging, main, pos, dest, faults, cycles>>
    BY <2>1, TakesType
  <2>2. bufData' = <<>> /\ board' \in {"stageF", "base"}
    BY <2>1 DEF FromStart
  <2> QED BY <1>0, <2>1, <2>2, <2>t DEF TypeOK
<1>10. CASE ReadBase
  <2>1. PICK b \in Byte :
        /\ Takes("base", b)
        /\ bufData' = Append(bufData, b)
        /\ IF Len(bufData') < 4 THEN UNCHANGED <<board, baseAddr>>
                                ELSE board' = "size" /\ baseAddr' = bufData'
        /\ UNCHANGED payloadSize
    BY <1>10 DEF ReadBase
  <2>t. /\ toBoard' \in Seq(Byte \cup {FWUPD, EOL}) /\ toHost' \in Seq(Byte \cup {READY})
        /\ board = "base"
        /\ UNCHANGED <<host, image, blk, off, line, staging, main, pos, dest, faults, cycles>>
    BY <2>1, TakesType
  <2>2. bufData' \in Seq(Byte) /\ Len(bufData') = Len(bufData) + 1 /\ Len(bufData) < 4
    BY <2>1 DEF TypeOK, Takes
  <2>3. board' \in {"base", "size"} /\ (board' = "base" => Len(bufData') < 4)
    BY <2>1 DEF Takes
  <2>4. baseAddr' \in Seq(Byte) /\ Len(baseAddr') = 4
    <3>1. CASE Len(bufData') < 4
      BY <2>1, <3>1 DEF TypeOK
    <3>2. CASE ~(Len(bufData') < 4)
      BY <2>1, <2>2, <3>2
    <3> QED BY <3>1, <3>2
  <2> QED BY <1>0, <2>1, <2>2, <2>3, <2>4, <2>t DEF TypeOK
<1>11. CASE ReadSize
  <2>1. PICK b \in Byte :
        /\ Takes("size", b)
        /\ payloadSize' = Int8(b) /\ bufData' = FromStart
        /\ board' = IF payloadSize' > 0 THEN "data" ELSE "write"
        /\ UNCHANGED baseAddr
    BY <1>11 DEF ReadSize
  <2>t. /\ toBoard' \in Seq(Byte \cup {FWUPD, EOL}) /\ toHost' \in Seq(Byte \cup {READY})
        /\ board = "size"
        /\ UNCHANGED <<host, image, blk, off, line, staging, main, pos, dest, faults, cycles>>
    BY <2>1, TakesType
  <2>2. payloadSize' \in -128..127 /\ bufData' = <<>>
    BY <2>1 DEF Int8, Byte, FromStart
  <2>3. board' = IF payloadSize' > 0 THEN "data" ELSE "write"
    BY <2>1
  <2> QED BY <1>0, <2>1, <2>2, <2>3, <2>t DEF TypeOK
<1>12. CASE ReadData
  <2>1. PICK b \in Byte :
        /\ Takes("data", b)
        /\ bufData' = Append(bufData, b)
        /\ board' = IF Len(bufData') < payloadSize THEN board ELSE "write"
        /\ UNCHANGED <<payloadSize, baseAddr>>
    BY <1>12 DEF ReadData
  <2>t. /\ toBoard' \in Seq(Byte \cup {FWUPD, EOL}) /\ toHost' \in Seq(Byte \cup {READY})
        /\ board = "data"
        /\ UNCHANGED <<host, image, blk, off, line, staging, main, pos, dest, faults, cycles>>
    BY <2>1, TakesType
  <2>2. /\ bufData' \in Seq(Byte) /\ Len(bufData') = Len(bufData) + 1
        /\ Len(bufData) < payloadSize /\ payloadSize \in -128..127
    BY <2>1 DEF TypeOK, Takes
  <2>3. board' = IF Len(bufData') < payloadSize THEN "data" ELSE "write"
    BY <2>1 DEF Takes
  <2> QED BY <1>0, <2>1, <2>2, <2>3, <2>t DEF TypeOK
<1>13. CASE WriteBlock
  BY <1>0, <1>13, ProgrammedType DEF WriteBlock, TypeOK, hostVars, uart, block, copy, counts
<1>14. CASE EraseMain
  <2>1. Erased \in [Addrs -> Byte]
    BY DEF Erased, Byte
  <2>2. 0 \in 0..(FLASH_HALF \div 4)
    BY FlashSize
  <2> QED BY <1>0, <1>14, <2>1, <2>2 DEF EraseMain, TypeOK, hostVars, uart, block, counts
<1>15. CASE CopyLoop
  <2>1. CASE CopyTurn
    <3>1. main' \in [Addrs -> Byte]
      <4>1. \A a \in Addrs : Cell(main[a], staging[a]) \in Byte
        BY CellWritten DEF TypeOK
      <4> QED BY <2>1, <4>1 DEF CopyTurn, TypeOK
    <3>2. dest' \in 0..(FLASH_HALF \div 4)
      <4>1. dest \in 0..(FLASH_HALF \div 4)
        BY DEF TypeOK
      <4>2. Word(dest) \subseteq Addrs => dest + 1 \in 0..(FLASH_HALF \div 4)
        BY <4>1, FlashSize DEF Word, Addrs
      <4> QED BY <2>1, <4>1, <4>2 DEF CopyTurn
    <3>3. board' \in {"copy", "faulted"}
      BY <1>15, <2>1 DEF CopyLoop, CopyTurn
    <3> QED BY <1>0, <1>15, <3>1, <3>2, <3>3
          DEF CopyLoop, TypeOK, hostVars, uart, block, counts
  <2>2. CASE board' = "reset" /\ UNCHANGED <<main, dest>>
    BY <1>0, <1>15, <2>2 DEF CopyLoop, TypeOK, hostVars, uart, block, counts
  <2> QED BY <1>15, <2>1, <2>2 DEF CopyLoop
<1>16. CASE Line
  <2> DEFINE B == Byte \cup {FWUPD, EOL}
             H == Byte \cup {READY}
  <2>1. toBoard \in Seq(B) /\ toHost \in Seq(H) /\ Garbage \subseteq B /\ Garbage \subseteq H
    BY Symbols DEF TypeOK
  <2>2. ASSUME NEW S, NEW x \in Seq(S), x # <<>>, Garbage \subseteq S, NEW b \in Garbage
        PROVE  Tail(x) \in Seq(S) /\ <<b>> \o Tail(x) \in Seq(S)
    BY <2>2
  <2> HIDE DEF B, H
  <2>3. ASSUME faults < MaxFaults, faults' = faults + 1, toBoard' \in Seq(B), toHost' \in Seq(H),
               UNCHANGED <<hostVars, board, line, block, staging, copy, cycles>>
        PROVE  TypeOK'
    <3>1. faults' \in 0..MaxFaults
      BY <2>3, FaultBounds DEF TypeOK
    <3>2. /\ toBoard' \in Seq(Byte \cup {FWUPD, EOL})
          /\ toHost' \in Seq(Byte \cup {READY})
      BY <2>3 DEF B, H
    <3> QED BY <1>0, <2>3, <3>1, <3>2 DEF TypeOK, hostVars, block, copy
  <2>4. CASE LineFails(toBoard, toHost)
    <3>1. toBoard' \in Seq(B)
      <4>1. toBoard # <<>>
        BY <2>4 DEF LineFails
      <4>2. \/ toBoard' = Tail(toBoard)
            \/ \E b \in Garbage : toBoard' = <<b>> \o Tail(toBoard)
        BY <2>4 DEF LineFails
      <4>3. Tail(toBoard) \in Seq(B)
        BY <2>1, <4>1
      <4> QED BY <2>1, <2>2, <4>1, <4>2, <4>3
    <3> QED BY <2>1, <2>3, <2>4, <3>1 DEF LineFails
  <2>5. CASE LineFails(toHost, toBoard)
    <3>1. toHost' \in Seq(H)
      <4>1. toHost # <<>>
        BY <2>5 DEF LineFails
      <4>2. \/ toHost' = Tail(toHost)
            \/ \E b \in Garbage : toHost' = <<b>> \o Tail(toHost)
        BY <2>5 DEF LineFails
      <4>3. Tail(toHost) \in Seq(H)
        BY <2>1, <4>1
      <4> QED BY <2>1, <2>2, <4>1, <4>2, <4>3
    <3> QED BY <2>1, <2>3, <2>5, <3>1 DEF LineFails
  <2> QED BY <1>16, <2>4, <2>5 DEF Line
<1>17. CASE PowerCycle
  <2>1. <<>> \in Seq(Byte) /\ <<0, 0, 0, 0>> \in Seq(Byte) /\ Len(<<0, 0, 0, 0>>) = 4
    BY DEF Byte
  <2>3. 0 \in 0..(FLASH_HALF \div 4)
    BY FlashSize
  <2>2. cycles' \in 0..MaxCycles
    BY <1>17, FaultBounds DEF PowerCycle, TypeOK
  <2> QED BY <1>0, <1>17, <2>1, <2>2, <2>3 DEF PowerCycle, TypeOK
<1>18. CASE UNCHANGED vars
  BY <1>0, <1>18 DEF vars, TypeOK, hostVars, uart, block, copy, counts
<1> QED BY <1>1, <1>2, <1>3, <1>4, <1>5, <1>6, <1>7, <1>8, <1>9, <1>10, <1>11, <1>12,
          <1>13, <1>14, <1>15, <1>16, <1>17, <1>18 DEF Next, Host, Board

-----------------------------------------------------------------------------
(* The copy.                                                               *)

LEMMA CopiedStep ==
  ASSUME TypeOK, Copied, [Next]_vars
  PROVE  Copied'
<1>1. pos = 0 /\ board # "reset"
  BY DEF Copied
<1>2. CASE board' = board /\ UNCHANGED <<staging, main, pos, dest>>
  BY <1>2 DEF Copied
<1>3. CASE /\ board' \notin {"copy", "faulted", "reset"} /\ pos' = 0
  BY <1>3 DEF Copied
<1>4. CASE EraseMain
  <2>1. /\ board' = "copy" /\ main' = Erased /\ pos' = 0 /\ dest' = 0
    BY <1>4 DEF EraseMain
  <2>2. \A a \in Addrs : main'[a] = IF a < 4 * dest' THEN staging'[a] ELSE 255
    BY <2>1, AddrsNat DEF Erased
  <2> QED BY <2>1, <2>2 DEF Copied
<1>5. CASE CopyLoop
  <2>0. /\ board = "copy" /\ UNCHANGED <<staging, pos>> /\ CopyTurn
    <3>1. pos < FLASH_HALF - 1
      BY <1>1, FlashSize
    <3> QED BY <1>5, <3>1 DEF CopyLoop
  <2>1. /\ \A a \in Addrs : main[a] = IF a < 4 * dest THEN staging[a] ELSE 255
        /\ dest \in Nat /\ \A a \in Addrs : a \in Nat /\ a < FLASH_HALF
        /\ staging \in [Addrs -> Byte] /\ main \in [Addrs -> Byte]
    BY <2>0, AddrsNat DEF Copied, TypeOK
  <2>2. CASE Word(dest) \subseteq Addrs
    <3>1. /\ board' = board /\ dest' = dest + 1
          /\ main' = [a \in Addrs |-> IF a \in Word(dest) THEN Cell(main[a], staging[a])
                                                          ELSE main[a]]
      BY <2>0, <2>2 DEF CopyTurn
    <3>2. ASSUME NEW a \in Addrs
          PROVE  main'[a] = IF a < 4 * dest' THEN staging[a] ELSE 255
      <4>1. CASE a \in Word(dest)
        <5>1. a >= 4 * dest /\ a < 4 * (dest + 1)
          BY <2>1, <4>1 DEF Word
        <5>2. main[a] = 255
          BY <2>1, <5>1
        <5>3. main'[a] = Cell(255, staging[a])
          BY <3>1, <4>1, <5>2
        <5>4. main'[a] = staging[a]
          BY <2>1, <5>3, CellWritten
        <5> QED BY <3>1, <5>1, <5>4
      <4>2. CASE a \notin Word(dest)
        <5>1. main'[a] = main[a]
          BY <3>1, <4>2
        <5>2. a < 4 * dest <=> a < 4 * (dest + 1)
          BY <2>1, <4>2 DEF Word
        <5> QED BY <2>1, <3>1, <5>1, <5>2
      <4> QED BY <4>1, <4>2
    <3> QED BY <1>1, <2>0, <3>1, <3>2 DEF Copied
  <2>3. CASE ~(Word(dest) \subseteq Addrs)
    <3>1. board' = "faulted" /\ main' = main
      BY <2>0, <2>3 DEF CopyTurn
    <3>2. 4 * dest >= FLASH_HALF
      BY <2>1, <2>3, FlashSize DEF Word, Addrs
    <3>3. \A a \in Addrs : main[a] = staging[a]
      BY <2>1, <3>2, FlashSize
    <3>4. main = staging
      BY <2>1, <3>3
    <3> QED BY <1>1, <2>0, <3>1, <3>4 DEF Copied
  <2> QED BY <2>2, <2>3
<1>6. CASE Host
  BY <1>2, <1>6 DEF Host, HostCommands, HostReady, HostSends, HostHears, copy
<1>7. CASE RXChar \/ Line \/ UNCHANGED vars
  BY <1>2, <1>7 DEF RXChar, Line, LineFails, vars, copy
<1>8. CASE RXEol \/ WindowCloses
  BY <1>1, <1>2, <1>3, <1>8 DEF RXEol, WindowCloses, copy
<1>9. CASE EraseStaging
  BY <1>1, <1>3, <1>9 DEF EraseStaging, copy
<1>10. CASE ReadType \/ ReadBase
  BY <1>1, <1>3, <1>10 DEF ReadType, ReadBase, Takes, copy
<1>11. CASE ReadSize \/ ReadData
  BY <1>1, <1>3, <1>11 DEF ReadSize, ReadData, Takes, copy
<1>12. CASE WriteBlock
  BY <1>1, <1>3, <1>12 DEF WriteBlock, copy
<1>13. CASE PowerCycle
  BY <1>3, <1>13 DEF PowerCycle
<1> QED BY <1>4, <1>5, <1>6, <1>7, <1>8, <1>9, <1>10, <1>11, <1>12, <1>13 DEF Next, Board

-----------------------------------------------------------------------------
(* Host and board in step: the steps of the host.                          *)

(* A board that has reached a byte is neither starting nor running its     *)
(* program.                                                                *)
LEMMA ReachedPlace ==
  ASSUME NEW k, NEW o, Reached(k, o)
  PROVE  board \notin {"boot", "run", "reset"}
  BY DEF Reached, AtStart, AtEnd, InBlock

(* What the board has reached depends on nothing of the line.              *)
LEMMA ReachedSame ==
  ASSUME UNCHANGED <<image, board, bufData, payloadSize, baseAddr, staging>>,
         NEW k, NEW o, Reached(k, o)
  PROVE  Reached(k, o)'
  BY DEF Reached, AtStart, AtEnd, InBlock, Filled, Buffered, HoldsImage, LastOff

LEMMA BeforeSame ==
  ASSUME UNCHANGED <<image, board, bufData, payloadSize, baseAddr, staging>>,
         NEW k, NEW o, Before(k, o)
  PROVE  Before(k, o)'
<1>1. CASE k > 1 /\ o = 1
  <2>1. Reached(k - 1, LastOff(k - 1))
    BY <1>1 DEF Before
  <2>2. LastOff(k - 1)' = LastOff(k - 1)
    BY DEF LastOff
  <2>3. Reached(k - 1, LastOff(k - 1))'
    BY <2>1, <2>2, ReachedSame
  <2> QED BY <1>1, <2>3 DEF Before
<1>2. CASE ~(k > 1 /\ o = 1)
  BY <1>2, ReachedSame DEF Before
<1> QED BY <1>1, <1>2

LEMMA HostCommandsInStep ==
  ASSUME InStep, HostCommands
  PROVE  InStep'
  BY DEF InStep, HostCommands, Off, Commanded

LEMMA HostReadyInStep ==
  ASSUME InStep, HostReady
  PROVE  InStep'
<1>1. /\ toBoard = <<>> /\ Reached(blk, off) /\ Len(toHost) = 1
      /\ Head(toHost) = READY \/ faults = 1
  BY DEF InStep, HostReady, Commanded
<1>2. /\ UNCHANGED <<image, blk, off, toBoard, faults>>
      /\ UNCHANGED <<board, bufData, payloadSize, baseAddr, staging>>
  BY DEF HostReady, cursor, block, counts
<1>3. Reached(blk, off)'
  BY <1>1, <1>2, ReachedSame
<1>4. toHost' = <<>>
  BY <1>1 DEF HostReady
<1>5. host' = "send" \/ (host' = "failed" /\ faults = 1)
  BY <1>1 DEF HostReady
<1> QED BY <1>1, <1>2, <1>3, <1>4, <1>5 DEF InStep, Sending

LEMMA HostSendsInStep ==
  ASSUME TypeOK, Cursor, InStep, HostSends
  PROVE  InStep'
<1>1. toBoard = <<>> /\ toHost = <<>> /\ Reached(blk, off)
  BY DEF InStep, HostSends, Sending
<1>2. /\ UNCHANGED <<image, board, bufData, payloadSize, baseAddr, staging>>
      /\ host' = "echo" /\ toHost' = <<>>
  BY <1>1 DEF HostSends, block
<1>3. toBoard' = <<ByteAt(blk, off)'>>
  BY <1>1, <1>2 DEF HostSends, ByteAt
<1>4. blk \in Nat /\ blk >= 1 /\ off \in 0..LastOff(blk) /\ (off = 0 => blk = 1)
  BY DEF TypeOK, Cursor
<1>5. Before(blk, off)'
  <2>1. CASE off < LastOff(blk)
    <3>1. blk' = blk /\ off' = off + 1
      BY <2>1 DEF HostSends
    <3>2. ~(blk' > 1 /\ off' = 1) /\ off' - 1 = off
      BY <1>4, <3>1
    <3> QED BY <1>1, <1>2, <3>1, <3>2, ReachedSame DEF Before
  <2>2. CASE ~(off < LastOff(blk))
    <3>1. blk' = blk + 1 /\ off' = 1
      BY <2>2 DEF HostSends
    <3>2. off = LastOff(blk) /\ blk' - 1 = blk /\ blk' > 1
      BY <1>4, <2>2, <3>1, LastOffNat DEF TypeOK
    <3>3. (blk - 1)' = blk /\ LastOff(blk - 1)' = off
      BY <1>2, <3>2 DEF LastOff
    <3>4. Reached(blk - 1, LastOff(blk - 1))'
      BY <1>1, <1>2, <3>3, ReachedSame
    <3> QED BY <3>1, <3>2, <3>4 DEF Before
  <2> QED BY <2>1, <2>2
<1> QED BY <1>2, <1>3, <1>5 DEF InStep, Waiting

LEMMA HostHearsInStep ==
  ASSUME InStep, HostHears
  PROVE  InStep'
<1> DEFINE x == ByteAt(blk, off)
<1>1. /\ UNCHANGED <<image, blk, off, toBoard, faults>>
      /\ UNCHANGED <<board, bufData, payloadSize, baseAddr, staging>>
      /\ toHost # <<>> /\ Waiting(x) /\ toHost' = Tail(toHost)
  BY DEF HostHears, InStep, cursor, block, counts
<1>2. CASE toBoard = <<>> /\ toHost = <<x>> /\ Reached(blk, off)
  <2>1. Reached(blk, off)'
    BY <1>1, <1>2, ReachedSame
  <2>2. toHost' = <<>> /\ host' \in {"send", "done"}
    BY <1>1, <1>2 DEF HostHears
  <2> QED BY <1>1, <1>2, <2>1, <2>2 DEF InStep, Sending
<1>3. CASE Broken(x)
  <2>1. faults = 1 /\ Head(toHost) # x
    BY <1>1, <1>3 DEF Broken
  <2> QED BY <1>1, <2>1 DEF HostHears, InStep
<1> QED BY <1>1, <1>2, <1>3 DEF Waiting

-----------------------------------------------------------------------------
(* ... of the board before the update, and of the line.                    *)

LEMMA RXInStep ==
  ASSUME TypeOK, Cursor, InStep, RXChar \/ RXEol
  PROVE  InStep'
<1> DEFINE x == ByteAt(blk, off)
<1>1. /\ board = "boot" /\ toBoard # <<>> /\ toBoard' = Tail(toBoard)
      /\ UNCHANGED <<host, image, blk, off, faults>>
      /\ UNCHANGED <<bufData, payloadSize, baseAddr, staging>>
  BY DEF RXChar, RXEol, hostVars, cursor, block, counts
<1>2. CASE host \in {"off", "send", "done"}
  BY <1>1, <1>2 DEF InStep, Off, Sending
<1>3. CASE host = "command"
  <2>0. toBoard \in Seq(Byte \cup {FWUPD, EOL})
    BY DEF TypeOK
  <2>1. /\ toHost = <<>>
        /\ IF line = "empty" THEN Len(toBoard) <= 2 ELSE Len(toBoard) <= 1
    BY <1>1, <1>3, ReachedPlace DEF InStep, Commanded
  <2>2. Len(toBoard) \in Nat /\ Len(toBoard) >= 1 /\ Len(toBoard') = Len(toBoard) - 1
    BY <1>1, <2>0
  <2>3. CASE RXChar
    <3>1. board' = "boot" /\ toHost' = <<>> /\ line' # "empty" /\ Len(toBoard') <= 1
      BY <1>1, <2>1, <2>2, <2>3 DEF RXChar
    <3> QED BY <1>1, <1>3, <3>1 DEF InStep, Commanded
  <2>4. CASE RXEol /\ line = "fwupd"
    <3>1. toBoard' = <<>>
      BY <1>1, <2>0, <2>1, <2>2, <2>4
    <3>2. board' = "erase" /\ toHost' = <<READY>>
      BY <2>1, <2>4 DEF RXEol
    <3>3. blk = 1 /\ off = 0
      BY <1>3 DEF Cursor
    <3>4. Reached(blk, off)'
      BY <1>1, <3>2, <3>3 DEF Reached, AtStart
    <3>5. Len(toHost') = 1 /\ Head(toHost') = READY
      BY <3>2
    <3> QED BY <1>1, <1>3, <3>1, <3>4, <3>5 DEF InStep, Commanded
  <2>5. CASE RXEol /\ line # "fwupd"
    <3>1. board' = "boot" /\ toHost' = <<>> /\ line' = "empty" /\ Len(toBoard') <= 2
      BY <1>1, <2>1, <2>2, <2>5 DEF RXEol
    <3> QED BY <1>1, <1>3, <3>1 DEF InStep, Commanded
  <2> QED BY <2>3, <2>4, <2>5
<1>4. CASE host = "echo"
  <2>1. Broken(x)
    <3>1. ~Before(blk, off)
      BY <1>1, ReachedPlace DEF Before
    <3> QED BY <1>1, <1>4, <3>1 DEF InStep, Waiting
  <2>2. faults = 1 /\ toHost = <<>> /\ Len(toBoard) = 1
    BY <1>1, <2>1 DEF Broken
  <2>3. toBoard' = <<>>
    BY <1>1, <2>2 DEF TypeOK
  <2>4. toHost' = <<>> \/ toHost' = <<READY>>
    BY <2>2 DEF RXChar, RXEol
  <2>5. x \in Byte /\ x # READY
    <3>1. off \in 1..LastOff(blk)
      BY <1>4 DEF Cursor, TypeOK
    <3> QED BY <3>1, ByteAtIsByte, Symbols DEF TypeOK
  <2>6. x' = x
    BY <1>1 DEF ByteAt
  <2>7. Broken(x)'
    BY <1>1, <2>2, <2>3, <2>4, <2>5, <2>6 DEF Broken
  <2> QED BY <1>1, <1>4, <2>7 DEF InStep, Waiting
<1>5. CASE host = "failed"
  BY <1>1, <1>5 DEF InStep
<1> QED BY <1>2, <1>3, <1>4, <1>5 DEF TypeOK

LEMMA WindowClosesInStep ==
  ASSUME InStep, WindowCloses
  PROVE  InStep'
<1> DEFINE x == ByteAt(blk, off)
<1>1. /\ board = "boot" /\ board' = "run"
      /\ UNCHANGED <<host, image, blk, off, toBoard, toHost, line, faults>>
  BY DEF WindowCloses, hostVars, cursor, uart, counts
<1>2. ~Reached(blk, off) /\ ~Before(blk, off)
  BY <1>1, ReachedPlace DEF Before
<1>3. x' = x
  BY <1>1 DEF ByteAt
<1>4. host = "echo" => Broken(x)'
  BY <1>1, <1>2, <1>3 DEF InStep, Waiting, Broken
<1>5. host = "command" => toHost = <<>>
  BY <1>1, <1>2 DEF InStep, Commanded
<1> QED BY <1>1, <1>2, <1>4, <1>5 DEF InStep, Off, Commanded, Sending, Waiting

(* A byte lost or changed does not make the line longer.                   *)
LEMMA FaultShortens ==
  ASSUME NEW S, NEW l \in Seq(S), l # <<>>, Garbage \subseteq S, NEW m,
         m = Tail(l) \/ \E b \in Garbage \ {Head(l)} : m = <<b>> \o Tail(l)
  PROVE  /\ Len(m) \in Nat /\ Len(m) <= Len(l)
         /\ Len(l) = 1 => m = <<>> \/ (Len(m) = 1 /\ Head(m) # Head(l))
<1>1. /\ Tail(l) \in Seq(S) /\ Len(Tail(l)) \in Nat
      /\ Len(l) \in Nat /\ Len(l) = 1 + Len(Tail(l))
  BY HeadTailProperties, EmptySeq, LenProperties
<1>2. CASE m = Tail(l)
  <2>1. Len(l) = 1 => m = <<>>
    BY <1>1, <1>2, EmptySeq
  <2> QED BY <1>1, <1>2, <2>1
<1>3. CASE \E b \in Garbage \ {Head(l)} : m = <<b>> \o Tail(l)
  <2>1. PICK b \in Garbage \ {Head(l)} : m = <<b>> \o Tail(l)
    BY <1>3
  <2> DEFINE one == <<b>>
             rest == Tail(l)
  <2>2. b \in S /\ b # Head(l) /\ one \in Seq(S) /\ Len(one) = 1 /\ one[1] = b
    OBVIOUS
  <2>3. /\ m = one \o rest /\ rest \in Seq(S)
        /\ Len(rest) \in Nat /\ Len(l) = 1 + Len(rest)
    BY <1>1, <2>1
  <2> HIDE DEF one, rest
  <2>4. m \in Seq(S) /\ Len(m) = Len(one) + Len(rest)
    BY <2>2, <2>3, ConcatProperties
  <2>5. m[1] = one[1]
    <3>1. \A i \in 1..Len(one) + Len(rest) :
            (one \o rest)[i] = IF i <= Len(one) THEN one[i] ELSE rest[i - Len(one)]
      BY <2>2, <2>3, ConcatProperties
    <3>2. 1 \in 1..Len(one) + Len(rest) /\ 1 <= Len(one)
      BY <2>2, <2>3
    <3> QED BY <2>3, <3>1, <3>2
  <2>6. Head(m) = m[1]
    BY <2>4
  <2>7. Head(m) # Head(l)
    BY <2>2, <2>5, <2>6
  <2>8. Len(m) = Len(l) /\ Len(m) \in Nat
    BY <1>1, <2>2, <2>3, <2>4
  <2>9. Len(m) <= Len(l)
    BY <2>8
  <2> QED BY <2>7, <2>8, <2>9, Zenon
<1> QED BY <1>2, <1>3

(* One byte is lost or changed: the last echo will be missing or wrong.    *)
LEMMA LineInStep ==
  ASSUME TypeOK, InStep, Line, faults' <= 1
  PROVE  InStep'
<1> DEFINE x == ByteAt(blk, off)
<1>1. /\ faults = 0 /\ faults' = 1
      /\ UNCHANGED <<host, image, blk, off, board, line>>
      /\ UNCHANGED <<bufData, payloadSize, baseAddr, staging>>
      /\ toBoard # <<>> \/ toHost # <<>>
  BY DEF Line, LineFails, TypeOK, hostVars, cursor, block
<1>g. Garbage \subseteq Byte \cup {FWUPD, EOL} /\ Garbage \subseteq Byte \cup {READY}
  BY Symbols
<1>2. \/ /\ toBoard # <<>> /\ toHost' = toHost
         /\ \/ toBoard' = Tail(toBoard)
            \/ \E b \in Garbage \ {Head(toBoard)} : toBoard' = <<b>> \o Tail(toBoard)
      \/ /\ toHost # <<>> /\ toBoard' = toBoard
         /\ \/ toHost' = Tail(toHost)
            \/ \E b \in Garbage \ {Head(toHost)} : toHost' = <<b>> \o Tail(toHost)
  BY DEF Line, LineFails
<1>3. CASE host \in {"off", "send", "done"}
  BY <1>1, <1>3 DEF InStep, Off, Sending
<1>4. CASE host = "command"
  <2>1. CASE toHost = <<>>
    <3>1. toBoard # <<>> /\ toHost' = <<>> /\ board \in {"boot", "run"}
      BY <1>1, <1>2, <1>4, <2>1 DEF InStep, Commanded
    <3>2. toBoard \in Seq(Byte \cup {FWUPD, EOL})
      BY DEF TypeOK
    <3>3. /\ Len(toBoard) \in Nat /\ Len(toBoard') \in Nat
          /\ Len(toBoard') <= Len(toBoard)
      BY <1>2, <2>1, <3>1, <3>2, <1>g, FaultShortens, LenProperties
    <3> QED BY <1>1, <1>4, <3>1, <3>3 DEF InStep, Commanded
  <2>2. CASE toHost # <<>>
    <3>1. toBoard = <<>> /\ Reached(blk, off) /\ Len(toHost) = 1
      BY <1>4, <2>2 DEF InStep, Commanded
    <3>2. toHost' = <<>> \/ Len(toHost') = 1
      <4>1. toHost \in Seq(Byte \cup {READY})
        BY DEF TypeOK
      <4> QED BY <1>2, <3>1, <4>1, <2>2, <1>g, FaultShortens
    <3>3. Reached(blk, off)'
      BY <1>1, <3>1, ReachedSame
    <3> QED BY <1>1, <1>2, <1>4, <3>1, <3>2, <3>3 DEF InStep, Commanded
  <2> QED BY <2>1, <2>2
<1>5. CASE host = "echo"
  <2>1. \/ toBoard = <<x>> /\ toHost = <<>>
        \/ toBoard = <<>> /\ toHost = <<x>>
    BY <1>1, <1>5 DEF InStep, Waiting, Broken
  <2>2. x' = x
    BY <1>1 DEF ByteAt
  <2>3. /\ toBoard \in Seq(Byte \cup {FWUPD, EOL})
        /\ toHost \in Seq(Byte \cup {READY})
    BY DEF TypeOK
  <2>m. Broken(x)' => InStep'
    BY <1>1, <1>5 DEF InStep, Waiting
  <2>4. CASE toBoard = <<x>> /\ toHost = <<>>
    <3>1. Len(toBoard) = 1 /\ Head(toBoard) = x
      BY <2>4
    <3>2. toBoard' = <<>> \/ (Len(toBoard') = 1 /\ Head(toBoard') # x)
      BY <1>2, <1>g, <2>3, <2>4, <3>1, FaultShortens
    <3> QED BY <1>1, <1>2, <2>2, <2>4, <2>m, <3>2 DEF Broken
  <2>5. CASE toBoard = <<>> /\ toHost = <<x>>
    <3>1. Len(toHost) = 1 /\ Head(toHost) = x
      BY <2>5
    <3>2. toHost' = <<>> \/ (Len(toHost') = 1 /\ Head(toHost') # x)
      BY <1>2, <1>g, <2>3, <2>5, <3>1, FaultShortens
    <3> QED BY <1>1, <1>2, <2>2, <2>5, <2>m, <3>2 DEF Broken
  <2> QED BY <2>1, <2>4, <2>5
<1>6. CASE host = "failed"
  BY <1>1, <1>6 DEF InStep
<1> QED BY <1>3, <1>4, <1>5, <1>6 DEF TypeOK

-----------------------------------------------------------------------------
(* ... of the board in the update, on its own.                             *)

(* Erasing, writing and copying leave the board where it is among the      *)
(* bytes of the host.                                                      *)
LEMMA OwnStepReached ==
  ASSUME TypeOK, Copied, EraseStaging \/ WriteBlock \/ EraseMain \/ CopyLoop,
         NEW k, NEW o, Reached(k, o)
  PROVE  Reached(k, o)'
<1>1. UNCHANGED <<image, bufData, payloadSize, baseAddr>>
  BY DEF EraseStaging, WriteBlock, EraseMain, CopyLoop, hostVars, block
<1>2. LastOff(k)' = LastOff(k)
  BY <1>1 DEF LastOff
<1>3. CASE EraseStaging
  <2>1. k = 1 /\ o = 0
    BY <1>3 DEF EraseStaging, Reached, InBlock, AtEnd
  <2>2. Holds(Erased, image, 0)
    BY DEF Holds, Erased
  <2> QED BY <1>1, <1>3, <2>1, <2>2 DEF EraseStaging, Reached, AtStart
<1>4. CASE WriteBlock
  <2>1. board = "write"
    BY <1>4 DEF WriteBlock
  <2>2. /\ k \in 1..Len(image) /\ o \in 1..LastOff(k) /\ o = LastOff(k)
        /\ Filled(k, o - 6)
    BY <2>1 DEF Reached, AtStart, AtEnd, InBlock
  <2>3. o - 6 = Len(image[k].data)
    <3>1. ~(k > Len(image)) /\ Len(image[k].data) \in BlockLen
      <4>1. image \in Images
        BY DEF TypeOK
      <4>2. Len(image) \in Nat
        BY <4>1, ImageSeq
      <4> QED BY <2>2, <4>1, <4>2, BlockFits
    <3> QED BY <2>2, <3>1 DEF LastOff
  <2>4. InHalf
    BY <2>2, <2>3, FilledInHalf
  <2>5. /\ staging' \in {staging, Programmed}
        /\ board' = IF Egal(staging') THEN "type" ELSE "fatal"
    BY <1>4, <2>4 DEF WriteBlock
  <2>6. Egal(staging') => Holds(staging', image, k)
    BY <2>2, <2>3, <2>5, BlockHeld
  <2>7. InBlock(k, o)'
    BY <1>1, <1>2, <2>2, <2>5, <2>6 DEF InBlock
  <2> QED BY <1>1, <1>2, <2>2, <2>7 DEF Reached
<1>5. CASE EraseMain \/ CopyLoop
  <2>1. /\ board \in {"stageF", "copy"} /\ board' \in {"copy", "faulted"}
        /\ staging' = staging
    BY <1>5, FlashSize DEF EraseMain, CopyLoop, CopyTurn, Copied
  <2>2. k = Len(image) + 1 /\ o = 1 /\ HoldsImage(staging)
    BY <2>1 DEF Reached, AtStart, AtEnd, InBlock
  <2> QED BY <1>1, <2>1, <2>2 DEF Reached, AtEnd, HoldsImage
<1> QED BY <1>3, <1>4, <1>5

LEMMA OwnStepInStep ==
  ASSUME TypeOK, Copied, InStep, EraseStaging \/ WriteBlock \/ EraseMain \/ CopyLoop
  PROVE  InStep'
<1> DEFINE x == ByteAt(blk, off)
<1>1. /\ UNCHANGED <<host, image, blk, off, toBoard, toHost, faults>>
      /\ board \notin {"boot", "run"}
  BY DEF EraseStaging, WriteBlock, EraseMain, CopyLoop, hostVars, cursor, uart, counts
<1>2. Reached(blk, off) => Reached(blk, off)'
  BY <1>1, OwnStepReached
<1>3. Before(blk, off) => Before(blk, off)'
  <2>1. LastOff(blk - 1)' = LastOff(blk - 1)
    BY <1>1 DEF LastOff
  <2> QED BY <1>1, <2>1, OwnStepReached DEF Before
<1>4. x' = x
  BY <1>1 DEF ByteAt
<1>5. host = "echo" => Waiting(x)'
  BY <1>1, <1>2, <1>3, <1>4 DEF InStep, Waiting, Broken
<1> QED BY <1>1, <1>2, <1>4, <1>5 DEF InStep, Off, Commanded, Sending

-----------------------------------------------------------------------------
(* ... of the board in the update, with a byte of the host.                *)

(* A byte appended to a buffer that holds the beginning of a sequence.     *)
LEMMA BufferedNext ==
  ASSUME NEW s, NEW n \in Nat, Buffered(s, n), bufData \in Seq(Byte),
         NEW b \in Byte, b = s[n + 1], bufData' = Append(bufData, b)
  PROVE  Len(bufData') = n + 1 /\ \A i \in 1..n + 1 : bufData'[i] = s[i]
<1>1. Len(bufData) = n /\ \A i \in 1..n : bufData[i] = s[i]
  BY DEF Buffered
<1> QED BY <1>1

(* The byte before is in the same part, or it is the last of the part      *)
(* before.                                                                 *)
LEMMA BeforeCases ==
  ASSUME TypeOK, Cursor, off >= 1, Before(blk, off)
  PROVE  /\ Len(image) \in Nat /\ blk \in 1..Len(image) + 1 /\ off \in 1..LastOff(blk)
         /\ LastOff(blk) \in Nat
         /\ \/ /\ off = 1 /\ blk - 1 \in 1..Len(image) 
               /\ InBlock(blk - 1, LastOff(blk - 1))
               /\ LastOff(blk - 1) \in Nat /\ LastOff(blk - 1) >= 7
            \/ off = 1 /\ blk = 1 /\ AtStart
            \/ /\ off - 1 \in 1..LastOff(blk) /\ blk \in 1..Len(image)
               /\ InBlock(blk, off - 1)
<1>1. image \in Images /\ blk \in 1..Len(image) + 1 /\ off \in 1..LastOff(blk)
  BY DEF TypeOK
<1>2. Len(image) \in Nat
  BY <1>1, ImageSeq
<1>3. LastOff(blk) \in Nat
  BY <1>1, LastOffNat
<1>4. CASE blk > 1 /\ off = 1
  <2>1. Reached(blk - 1, LastOff(blk - 1))
    BY <1>4 DEF Before
  <2>2. blk - 1 \in 1..Len(image)
    BY <1>1, <1>2, <1>4
  <2>3. Len(image[blk - 1].data) \in BlockLen
    BY <1>1, <2>2, BlockFits
  <2>4. LastOff(blk - 1) = 6 + Len(image[blk - 1].data)
    BY <1>2, <2>2 DEF LastOff
  <2>5. LastOff(blk - 1) \in Nat /\ LastOff(blk - 1) >= 7
    <3>1. \A n \in BlockLen : 6 + n \in Nat /\ 6 + n >= 7
      BY BlockLens
    <3> QED BY <2>3, <2>4, <3>1, Zenon
  <2>6. ~(blk - 1 = 1 /\ LastOff(blk - 1) = 0) /\ blk - 1 # Len(image) + 1
    BY <1>2, <2>2, <2>5
  <2> QED BY <1>1, <1>2, <1>3, <1>4, <2>1, <2>2, <2>5, <2>6 DEF Reached
<1>5. CASE ~(blk > 1 /\ off = 1)
  <2>1. Reached(blk, off - 1)
    BY <1>5 DEF Before
  <2>2. CASE off - 1 = 0 /\ blk = 1 /\ AtStart
    BY <1>1, <1>2, <1>3, <2>2
  <2>3. CASE off - 1 \in 1..LastOff(blk) /\ blk \in 1..Len(image) /\ InBlock(blk, off - 1)
    BY <1>1, <1>2, <1>3, <2>3
  <2>4. CASE blk = Len(image) + 1 /\ off - 1 = 1
    <3>1. LastOff(blk) = 1
      BY <1>2, <2>4 DEF LastOff
    <3> QED BY <1>1, <2>4, <3>1
  <2> QED BY <1>1, <2>1, <2>2, <2>3, <2>4 DEF Reached
<1> QED BY <1>4, <1>5

(* The board takes the byte the host has sent for what it is: the one      *)
(* place where the two programs meet.                                      *)
LEMMA ReadTypeReached ==
  ASSUME TypeOK, Cursor, off >= 1, Before(blk, off), ReadType,
         Head(toBoard) = ByteAt(blk, off)
  PROVE  Reached(blk, off)'
<1>1. PICK b \in Byte : /\ Takes("type", b)
                        /\ board' = IF b # 0 THEN "stageF" ELSE "base"
                        /\ bufData' = FromStart
  BY DEF ReadType
<1>2. /\ board = "type" /\ b = ByteAt(blk, off) /\ Len(bufData') = 0
      /\ UNCHANGED <<image, blk, off, staging>>
  BY <1>1 DEF Takes, FromStart, hostVars, cursor
<1>3. /\ Len(image) \in Nat /\ blk \in 1..Len(image) + 1 /\ off \in 1..LastOff(blk)
      /\ LastOff(blk) \in Nat
  BY BeforeCases
<1>4. off = 1 /\ Holds(staging, image, blk - 1)
  <2>1. CASE off = 1 /\ InBlock(blk - 1, LastOff(blk - 1))
    BY <1>2, <2>1 DEF InBlock
  <2>2. CASE off = 1 /\ blk = 1 /\ AtStart
    BY <1>2, <2>2 DEF AtStart
  <2>3. CASE InBlock(blk, off - 1)
    BY <1>2, <1>3, <2>3 DEF InBlock
  <2> QED BY <2>1, <2>2, <2>3, BeforeCases
<1>5. CASE blk \in 1..Len(image)
  <2>1. b = 0
    BY <1>2, <1>3, <1>4, <1>5 DEF ByteAt
  <2>2. board' = "base"
    BY <1>1, <2>1
  <2>3. Buffered(Le32(image[blk].base), 0)'
    BY <1>2 DEF Buffered
  <2>4. InBlock(blk, off)'
    BY <1>2, <1>4, <2>2, <2>3 DEF InBlock
  <2> QED BY <1>2, <1>3, <1>5, <2>4 DEF Reached, LastOff
<1>6. CASE blk = Len(image) + 1
  <2>1. b = 1
    BY <1>2, <1>3, <1>6 DEF ByteAt
  <2>2. board' = "stageF" /\ Holds(staging, image, Len(image))
    BY <1>1, <1>3, <1>4, <1>6, <2>1
  <2> QED BY <1>2, <1>4, <1>6, <2>2 DEF Reached, AtEnd, HoldsImage
<1> QED BY <1>3, <1>5, <1>6

LEMMA ReadBaseReached ==
  ASSUME TypeOK, Cursor, off >= 1, Before(blk, off), ReadBase,
         Head(toBoard) = ByteAt(blk, off)
  PROVE  Reached(blk, off)'
<1> DEFINE a == Le32(image[blk].base)
<1>1. PICK b \in Byte : /\ Takes("base", b)
                        /\ bufData' = Append(bufData, b)
                        /\ IF Len(bufData') < 4
                             THEN UNCHANGED <<board, baseAddr>>
                             ELSE board' = "size" /\ baseAddr' = bufData'
  BY DEF ReadBase
<1>2. /\ board = "base" /\ b = ByteAt(blk, off)
      /\ UNCHANGED <<image, blk, off, staging>>
  BY <1>1 DEF Takes, hostVars, cursor
<1>3. /\ Len(image) \in Nat /\ off \in 1..LastOff(blk) /\ LastOff(blk) \in Nat
  BY BeforeCases
<1>4. blk \in 1..Len(image) /\ InBlock(blk, off - 1)
  <2>1. ~InBlock(blk - 1, LastOff(blk - 1)) \/ ~(LastOff(blk - 1) >= 7)
    BY <1>2 DEF InBlock
  <2>2. ~AtStart
    BY <1>2 DEF AtStart
  <2> QED BY <2>1, <2>2, BeforeCases
<1>5. /\ off \in 2..5 /\ Buffered(a, off - 2)
      /\ Holds(staging, image, blk - 1)
  BY <1>2, <1>3, <1>4 DEF InBlock
<1>6. b = a[off - 1]
  BY <1>2, <1>3, <1>4, <1>5 DEF ByteAt
<1>7. Len(bufData') = off - 1 /\ \A i \in 1..off - 1 : bufData'[i] = a[i]
  <2>1. bufData \in Seq(Byte)
    BY DEF TypeOK
  <2>2. off - 2 \in Nat /\ (off - 2) + 1 = off - 1
    BY <1>5
  <2> QED BY <1>1, <1>5, <1>6, <2>1, <2>2, BufferedNext
<1>8. CASE off < 5
  <2>1. board' = "base"
    BY <1>1, <1>2, <1>5, <1>7, <1>8
  <2>2. Buffered(a, off - 1)'
    BY <1>2, <1>7 DEF Buffered
  <2> QED BY <1>2, <1>3, <1>4, <1>5, <1>8, <2>1, <2>2 DEF Reached, InBlock, LastOff
<1>9. CASE off = 5
  <2>1. board' = "size" /\ baseAddr' = bufData'
    BY <1>1, <1>7, <1>9
  <2>2. a \in Seq(Byte) /\ Len(a) = 4
    BY <1>4, BlockFits, Le32Bytes DEF TypeOK
  <2>3. bufData' \in Seq(Byte)
    BY <1>1 DEF TypeOK
  <2>4. bufData' = a
    BY <1>7, <1>9, <2>2, <2>3, SeqEqual
  <2> QED BY <1>2, <1>3, <1>4, <1>5, <1>9, <2>1, <2>4 DEF Reached, InBlock, LastOff
<1> QED BY <1>5, <1>8, <1>9

LEMMA ReadSizeReached ==
  ASSUME TypeOK, Cursor, SizesFit, off >= 1, Before(blk, off), ReadSize,
         Head(toBoard) = ByteAt(blk, off)
  PROVE  Reached(blk, off)'
<1>1. PICK b \in Byte : /\ Takes("size", b)
                        /\ payloadSize' = Int8(b) /\ bufData' = FromStart
                        /\ board' = IF payloadSize' > 0 THEN "data" ELSE "write"
                        /\ UNCHANGED baseAddr
  BY DEF ReadSize
<1>2. /\ board = "size" /\ b = ByteAt(blk, off) /\ Len(bufData') = 0
      /\ UNCHANGED <<image, blk, off, staging, baseAddr>>
  BY <1>1 DEF Takes, FromStart, hostVars, cursor
<1>3. /\ Len(image) \in Nat /\ off \in 1..LastOff(blk) /\ LastOff(blk) \in Nat
  BY BeforeCases
<1>4. blk \in 1..Len(image) /\ InBlock(blk, off - 1)
  <2>1. ~InBlock(blk - 1, LastOff(blk - 1)) \/ ~(LastOff(blk - 1) >= 7)
    BY <1>2 DEF InBlock
  <2>2. ~AtStart
    BY <1>2 DEF AtStart
  <2> QED BY <2>1, <2>2, BeforeCases
<1>5. /\ off = 6 /\ baseAddr = Le32(image[blk].base)
      /\ Holds(staging, image, blk - 1)
  BY <1>2, <1>3, <1>4 DEF InBlock
<1>6. /\ b = Len(image[blk].data) /\ b > 0 /\ b < 128
      /\ LastOff(blk) = 6 + b /\ off < LastOff(blk)
  <2>1. Len(image[blk].data) \in BlockLen
    BY <1>4, BlockFits DEF TypeOK
  <2>2. Len(image[blk].data) <= 127
    BY <1>4 DEF SizesFit
  <2>3. b = Len(image[blk].data) /\ LastOff(blk) = 6 + b
    BY <1>2, <1>3, <1>4, <1>5 DEF ByteAt, LastOff
  <2>4. \A n \in BlockLen : n <= 127 => n > 0 /\ n < 128 /\ 6 < 6 + n
    BY BlockLens
  <2> QED BY <1>5, <2>1, <2>2, <2>3, <2>4, Zenon
<1>7. payloadSize' = Len(image[blk].data) /\ board' = "data"
  <2>1. payloadSize' = b
    BY <1>1, <1>6, Zenon DEF Int8
  <2> QED BY <1>1, <1>6, <2>1, Zenon
<1>8. Filled(blk, off - 6)'
  BY <1>2, <1>5, <1>7 DEF Filled, Buffered
<1>9. LastOff(blk)' = LastOff(blk)
  BY <1>2 DEF LastOff
<1>10. InBlock(blk, off)'
  BY <1>2, <1>5, <1>6, <1>7, <1>8, <1>9 DEF InBlock
<1> QED BY <1>2, <1>3, <1>4, <1>9, <1>10 DEF Reached

LEMMA ReadDataReached ==
  ASSUME TypeOK, Cursor, off >= 1, Before(blk, off), ReadData,
         Head(toBoard) = ByteAt(blk, off)
  PROVE  Reached(blk, off)'
<1> DEFINE d == image[blk].data
<1>1. PICK b \in Byte : /\ Takes("data", b)
                        /\ bufData' = Append(bufData, b)
                        /\ board' = IF Len(bufData') < payloadSize THEN board ELSE "write"
                        /\ UNCHANGED <<payloadSize, baseAddr>>
  BY DEF ReadData
<1>2. /\ board = "data" /\ b = ByteAt(blk, off)
      /\ UNCHANGED <<image, blk, off, staging, baseAddr, payloadSize>>
  BY <1>1 DEF Takes, hostVars, cursor
<1>3. /\ Len(image) \in Nat /\ off \in 1..LastOff(blk) /\ LastOff(blk) \in Nat
  BY BeforeCases
<1>4. blk \in 1..Len(image) /\ InBlock(blk, off - 1)
  <2>1. ~InBlock(blk - 1, LastOff(blk - 1)) \/ ~(LastOff(blk - 1) \in Nat)
    BY <1>2 DEF InBlock
  <2>2. ~AtStart
    BY <1>2 DEF AtStart
  <2> QED BY <2>1, <2>2, BeforeCases
<1>5. off >= 7 /\ Filled(blk, off - 7)
  BY <1>2, <1>3, <1>4 DEF InBlock
<1>6. /\ baseAddr = Le32(image[blk].base) /\ payloadSize = Len(d)
      /\ Buffered(d, off - 7) /\ Holds(staging, image, blk - 1)
  BY <1>5 DEF Filled
<1>7. Len(d) \in BlockLen /\ LastOff(blk) = 6 + Len(d)
  <2>1. Len(d) \in BlockLen
    BY <1>4, BlockFits DEF TypeOK
  <2> QED BY <1>3, <1>4, <2>1 DEF LastOff
<1>8. b = d[off - 6]
  BY <1>2, <1>3, <1>4, <1>5 DEF ByteAt
<1>9. Len(bufData') = off - 6 /\ \A i \in 1..off - 6 : bufData'[i] = d[i]
  <2>1. bufData \in Seq(Byte)
    BY DEF TypeOK
  <2>2. off - 7 \in Nat /\ (off - 7) + 1 = off - 6
    BY <1>3, <1>5
  <2> QED BY <1>1, <1>6, <1>8, <2>1, <2>2, BufferedNext
<1>10. Filled(blk, off - 6)'
  BY <1>2, <1>6, <1>9 DEF Filled, Buffered
<1>11. board' = IF off < LastOff(blk) THEN "data" ELSE "write"
  <2>1. payloadSize \in Nat /\ LastOff(blk) = 6 + payloadSize
    BY <1>6, <1>7
  <2>2. Len(bufData') < payloadSize <=> off < LastOff(blk)
    BY <1>3, <1>9, <2>1
  <2> QED BY <1>1, <1>2, <2>2
<1>12. LastOff(blk)' = LastOff(blk)
  BY <1>2 DEF LastOff
<1> QED BY <1>2, <1>3, <1>4, <1>5, <1>10, <1>11, <1>12 DEF Reached, InBlock

(* A byte taken, the right one or the wrong one of a single fault.         *)
LEMMA ReadInStep ==
  ASSUME TypeOK, Cursor, SizesFit, InStep, ReadType \/ ReadBase \/ ReadSize \/ ReadData
  PROVE  InStep'
<1> DEFINE x == ByteAt(blk, off)
<1>1. /\ toBoard # <<>> /\ board \notin {"boot", "run"}
      /\ toBoard' = Tail(toBoard) /\ toHost' = Append(toHost, Head(toBoard))
      /\ UNCHANGED <<host, image, blk, off, faults>>
  BY DEF ReadType, ReadBase, ReadSize, ReadData, Takes, Echo, hostVars, cursor, counts
<1>2. host \notin {"off", "command", "send", "done"}
  BY <1>1 DEF InStep, Off, Commanded, Sending
<1>3. host = "failed" => InStep'
  BY <1>1 DEF InStep
<1>4. CASE host = "echo"
  <2>1. x' = x /\ off >= 1
    BY <1>1, <1>4 DEF ByteAt, Cursor
  <2>2. CASE toBoard = <<x>> /\ toHost = <<>> /\ Before(blk, off)
    <3>1. Head(toBoard) = x /\ toBoard' = <<>> /\ toHost' = <<x>>
      BY <1>1, <2>2
    <3>2. Reached(blk, off)'
      BY <2>1, <2>2, <3>1, ReadTypeReached, ReadBaseReached, ReadSizeReached,
         ReadDataReached
    <3> QED BY <1>1, <1>4, <2>1, <3>1, <3>2 DEF InStep, Waiting
  <2>3. CASE Broken(x)
    <3>1. faults = 1 /\ toHost = <<>> /\ Len(toBoard) = 1 /\ Head(toBoard) # x
      BY <1>1, <2>3 DEF Broken
    <3>2. toBoard \in Seq(Byte \cup {FWUPD, EOL})
      BY DEF TypeOK
    <3>3. toBoard' = <<>> /\ toHost' = <<Head(toBoard)>>
      BY <1>1, <3>1, <3>2
    <3>4. Broken(x)'
      BY <1>1, <2>1, <3>1, <3>3 DEF Broken
    <3> QED BY <1>1, <1>4, <3>4 DEF InStep, Waiting
  <2> QED BY <1>1, <1>4, <2>2, <2>3 DEF InStep, Waiting
<1> QED BY <1>2, <1>3, <1>4 DEF TypeOK

-----------------------------------------------------------------------------
(* The invariant and the theorems.                                         *)

LEMMA DialogueStep ==
  ASSUME IInv, [Next]_vars
  PROVE  Dialogue'
<1> USE DEF IInv
<1>1. SUFFICES ASSUME Reliable' PROVE InStep'
  BY DEF Dialogue
<1>2. CASE PowerCycle
  BY <1>2 DEF PowerCycle, InStep, Off
<1>3. CASE Host \/ Board \/ Line \/ UNCHANGED vars
  <2>1. image' = image /\ faults' \in {faults, faults + 1}
    BY <1>3 DEF Host, HostCommands, HostReady, HostSends, HostHears, Board, RXChar, RXEol,
       WindowCloses, EraseStaging, ReadType, ReadBase, ReadSize, ReadData, Takes, WriteBlock,
       EraseMain, CopyLoop, Line, LineFails, vars, hostVars, counts
  <2>2. SizesFit /\ faults' <= 1 /\ faults <= 1
    BY <1>1, <2>1 DEF Reliable, SizesFit, TypeOK
  <2>3. InStep
    BY <2>2 DEF Dialogue, Reliable
  <2>4. CASE Host
    BY <2>3, <2>4, HostCommandsInStep, HostReadyInStep, HostSendsInStep, HostHearsInStep
       DEF Host
  <2>5. CASE RXChar \/ RXEol \/ WindowCloses
    BY <2>3, <2>5, RXInStep, WindowClosesInStep
  <2>6. CASE ReadType \/ ReadBase \/ ReadSize \/ ReadData
    BY <2>2, <2>3, <2>6, ReadInStep
  <2>7. CASE EraseStaging \/ WriteBlock \/ EraseMain \/ CopyLoop
    BY <2>3, <2>7, OwnStepInStep
  <2>8. CASE Line
    BY <2>2, <2>3, <2>8, LineInStep
  <2>9. CASE UNCHANGED vars
    <3>1. /\ UNCHANGED <<host, image, blk, off, toBoard, toHost, line, faults>>
          /\ UNCHANGED <<board, bufData, payloadSize, baseAddr, staging>>
      BY <2>9 DEF vars, hostVars, cursor, uart, block, counts
    <3>2. ByteAt(blk, off)' = ByteAt(blk, off)
      BY <3>1 DEF ByteAt
    <3>3. Waiting(ByteAt(blk, off)) => Waiting(ByteAt(blk, off))'
      BY <3>1, <3>2, ReachedSame, BeforeSame DEF Waiting, Broken
    <3> QED BY <2>3, <3>1, <3>3, ReachedSame DEF InStep, Off, Commanded, Sending
  <2> QED BY <1>3, <2>4, <2>5, <2>6, <2>7, <2>8, <2>9 DEF Board
<1> QED BY <1>2, <1>3 DEF Next

LEMMA InitIInv == Init => IInv
<1> SUFFICES ASSUME Init PROVE IInv
  OBVIOUS
<1>1. TypeOK
  BY TypeInit
<1>2. Cursor /\ Copied
  BY DEF Init, Cursor, Copied
<1>3. Dialogue
  BY DEF Init, Dialogue, InStep, Off
<1> QED BY <1>1, <1>2, <1>3 DEF IInv

LEMMA IInvInvariant == Spec => []IInv
<1>1. IInv /\ [Next]_vars => IInv'
  BY TypeStep, CursorStep, CopiedStep, DialogueStep DEF IInv
<1> QED BY InitIInv, <1>1, PTL DEF Spec

(* Type correctness: the buffer is never filled beyond 127 bytes           *)
(* (fwupd.c:141-149) and the copy writes only inside the half it is for    *)
(* (fwupd.c:44-59).                                                        *)
THEOREM FwTypeOK == Spec => []TypeOK
BY IInvInvariant, PTL DEF IInv

(* The loop of the copy never changes the variable it tests                *)
(* (fwupd.c:44-59), so the reset behind it (fwupd.c:62) is never reached:  *)
(* an update ends with the processor fault of a read past the flash.  What *)
(* has been copied by then is the whole staging half, whatever it holds.   *)
CopyIsWhole == board # "reset" /\ (board = "faulted" => main = staging)
THEOREM CopyIsWholeHolds == Spec => []CopyIsWhole
<1>1. IInv => CopyIsWhole
  BY DEF IInv, Copied, CopyIsWhole
<1> QED BY IInvInvariant, <1>1, PTL

(* An update the host takes for done is in the staging half: the echo is   *)
(* enough of an acknowledgement for one fault of the line, whatever the    *)
(* flash does and wherever an earlier attempt was cut off.                 *)
THEOREM AcceptedIsStagedHolds == Spec => []AcceptedIsStaged
<1>1. ASSUME IInv PROVE AcceptedIsStaged
  <2> SUFFICES ASSUME Reliable, host = "done" PROVE HoldsImage(staging)
    BY DEF AcceptedIsStaged
  <2>1. Reached(blk, off) /\ blk = Len(image) + 1 /\ off = 1
    BY <1>1 DEF IInv, Cursor, Dialogue, InStep, Sending, AllSent
  <2>2. Len(image) \in Nat /\ blk \notin 1..Len(image)
    <3>1. image \in Images
      BY <1>1 DEF IInv, TypeOK
    <3>2. Len(image) \in Nat
      BY <3>1, ImageSeq
    <3> QED BY <2>1, <3>2
  <2> QED BY <2>1, <2>2 DEF Reached, AtEnd
<1> QED BY IInvInvariant, <1>1, PTL

(* ... and when the copying stops, every word of it is in the half the     *)
(* board runs from, although the loop runs until the processor faults.     *)
THEOREM InstalledIsSentHolds == Spec => []InstalledIsSent
<1>1. ASSUME IInv, AcceptedIsStaged PROVE InstalledIsSent
  BY <1>1 DEF IInv, Copied, AcceptedIsStaged, InstalledIsSent
<1> QED BY IInvInvariant, AcceptedIsStagedHolds, <1>1, PTL

(* On a good line the program of the board is erased only when all the     *)
(* data has come: no data byte is taken for the type that ends it.         *)
THEOREM CopyOnlyAtEndHolds == Spec => []CopyOnlyAtEnd
<1>1. ASSUME IInv PROVE CopyOnlyAtEnd
  <2> SUFFICES ASSUME Reliable, faults = 0,
                      board \in {"stageF", "copy", "reset", "faulted"}
               PROVE  AllSent
    BY DEF CopyOnlyAtEnd
  <2>1. Cursor /\ InStep /\ host \in {"off", "command", "send", "echo", "done", "failed"}
    BY <1>1 DEF IInv, Dialogue, TypeOK
  <2>2. host # "off" /\ ~Broken(ByteAt(blk, off)) /\ host # "failed"
    BY <2>1 DEF InStep, Off, Broken
  <2>3. ASSUME NEW k, NEW o, Reached(k, o) PROVE k = Len(image) + 1 /\ o = 1
    BY <2>3 DEF Reached, AtStart, InBlock
  <2>4. CASE Reached(blk, off)
    BY <2>3, <2>4 DEF AllSent
  <2>5. CASE host = "echo" /\ Before(blk, off)
    <3>1. /\ Len(image) \in Nat /\ blk \in 1..Len(image) + 1
          /\ off \in 1..LastOff(blk) /\ LastOff(blk) \in Nat
          /\ ~AtStart
      BY <1>1, <2>1, <2>5, BeforeCases DEF IInv, Cursor, AtStart
    <3> QED BY <1>1, <2>1, <2>5, <3>1, BeforeCases DEF IInv, Cursor, InBlock
  <2> QED BY <2>1, <2>2, <2>4, <2>5 DEF InStep, Commanded, Sending, Waiting
<1> QED BY IInvInvariant, <1>1, PTL
=============================================================================
