------------------------------ MODULE LtcPec ------------------------------
(***************************************************************************)
(* The packet error code of the LTC6812 cell monitor: the table driven     *)
(* computation of the driver (hg_ltc.c, hg_ltc.h) against the definition   *)
(* of a CRC-15, bit by bit; the codes the driver has written down for its  *)
(* commands; and the check of the configuration it reads back.             *)
(*                                                                         *)
(* One step per byte of the block whose code is computed.                  *)
(***************************************************************************)
EXTENDS Integers, Sequences, Bitwise, SequencesExt

CONSTANT Blocks      (* the blocks of bytes to compute the code of         *)

VARIABLES block, done, remainder, crc
vars == <<block, done, remainder, crc>>

Byte == 0..255
U16(x) == x % 65536

(* crc15Table.                                                             *)
crc15Table == <<
  \h0000, \hC599, \hCEAB, \h0B32, \hD8CF, \h1D56, \h1664, \hD3FD,
  \hF407, \h319E, \h3AAC, \hFF35, \h2CC8, \hE951, \hE263, \h27FA,
  \hAD97, \h680E, \h633C, \hA6A5, \h7558, \hB0C1, \hBBF3, \h7E6A,
  \h5990, \h9C09, \h973B, \h52A2, \h815F, \h44C6, \h4FF4, \h8A6D,
  \h5B2E, \h9EB7, \h9585, \h501C, \h83E1, \h4678, \h4D4A, \h88D3,
  \hAF29, \h6AB0, \h6182, \hA41B, \h77E6, \hB27F, \hB94D, \h7CD4,
  \hF6B9, \h3320, \h3812, \hFD8B, \h2E76, \hEBEF, \hE0DD, \h2544,
  \h02BE, \hC727, \hCC15, \h098C, \hDA71, \h1FE8, \h14DA, \hD143,
  \hF3C5, \h365C, \h3D6E, \hF8F7, \h2B0A, \hEE93, \hE5A1, \h2038,
  \h07C2, \hC25B, \hC969, \h0CF0, \hDF0D, \h1A94, \h11A6, \hD43F,
  \h5E52, \h9BCB, \h90F9, \h5560, \h869D, \h4304, \h4836, \h8DAF,
  \hAA55, \h6FCC, \h64FE, \hA167, \h729A, \hB703, \hBC31, \h79A8,
  \hA8EB, \h6D72, \h6640, \hA3D9, \h7024, \hB5BD, \hBE8F, \h7B16,
  \h5CEC, \h9975, \h9247, \h57DE, \h8423, \h41BA, \h4A88, \h8F11,
  \h057C, \hC0E5, \hCBD7, \h0E4E, \hDDB3, \h182A, \h1318, \hD681,
  \hF17B, \h34E2, \h3FD0, \hFA49, \h29B4, \hEC2D, \hE71F, \h2286,
  \hA213, \h678A, \h6CB8, \hA921, \h7ADC, \hBF45, \hB477, \h71EE,
  \h5614, \h938D, \h98BF, \h5D26, \h8EDB, \h4B42, \h4070, \h85E9,
  \h0F84, \hCA1D, \hC12F, \h04B6, \hD74B, \h12D2, \h19E0, \hDC79,
  \hFB83, \h3E1A, \h3528, \hF0B1, \h234C, \hE6D5, \hEDE7, \h287E,
  \hF93D, \h3CA4, \h3796, \hF20F, \h21F2, \hE46B, \hEF59, \h2AC0,
  \h0D3A, \hC8A3, \hC391, \h0608, \hD5F5, \h106C, \h1B5E, \hDEC7,
  \h54AA, \h9133, \h9A01, \h5F98, \h8C65, \h49FC, \h42CE, \h8757,
  \hA0AD, \h6534, \h6E06, \hAB9F, \h7862, \hBDFB, \hB6C9, \h7350,
  \h51D6, \h944F, \h9F7D, \h5AE4, \h8919, \h4C80, \h47B2, \h822B,
  \hA5D1, \h6048, \h6B7A, \hAEE3, \h7D1E, \hB887, \hB3B5, \h762C,
  \hFC41, \h39D8, \h32EA, \hF773, \h248E, \hE117, \hEA25, \h2FBC,
  \h0846, \hCDDF, \hC6ED, \h0374, \hD089, \h1510, \h1E22, \hDBBB,
  \h0AF8, \hCF61, \hC453, \h01CA, \hD237, \h17AE, \h1C9C, \hD905,
  \hFEFF, \h3B66, \h3054, \hF5CD, \h2630, \hE3A9, \hE89B, \h2D02,
  \hA76F, \h62F6, \h69C4, \hAC5D, \h7FA0, \hBA39, \hB10B, \h7492,
  \h5368, \h96F1, \h9DC3, \h585A, \h8BA7, \h4E3E, \h450C, \h8095>>

(* Mutant: the remainder starts from 0.                                    *)
SeedZero == 0
Seed == 16

(* Mutant: the index is taken from the wrong bits of the remainder.        *)
StepShifted(r, b) ==
  LET addr == ((r \div 256) ^^ b) % 256
  IN U16(r * 256) ^^ crc15Table[addr + 1]
(* The loop body of mercury_ltc_calcPEC, in 16 bits: bit 15 of the         *)
(* remainder is of no use and is pushed out at the end.                    *)
Step(r, b) ==
  LET addr == ((r \div 128) ^^ b) % 256
  IN U16(r * 256) ^^ crc15Table[addr + 1]

(* Mutant: the remainder itself.                                           *)
PecUndoubled(r) == r
Pec(r) == U16(r * 2)

(* mercury_ltc_calcPEC of a whole block.                                   *)
CalcPec(data) == Pec(FoldLeft(Step, Seed, data))

(* The reference: the polynomial x^15+x^14+x^10+x^8+x^7+x^4+x^3+1, one bit *)
(* of the byte at a time, the highest first.                               *)
Poly == 17817
BitStep(r, bit) ==
  LET shifted == (2 * r) % 32768
  IN IF (r \div 16384 + bit) % 2 = 1 THEN shifted ^^ Poly ELSE shifted
Bits(b) == [k \in 1..8 |-> (b \div 2^(8 - k)) % 2]
CrcStep(r, b) == FoldLeft(BitStep, r, Bits(b))

(* What mercury_ltc_init writes and expects to read back, with its code.   *)
ConfigA == [data |-> <<\hE4, \h52, \h27, \hA0, \h00, \h50>>, pec |-> \h4748]
ConfigB == [data |-> <<\h00, \h08, \h00, \h00, \h00, \h00>>, pec |-> \h905A]

(* The commands of mercury_ltc_init and ltc_readcv and their codes.        *)
Commands ==
  {[data |-> <<\h0, \h1>>,  pec |-> \h3D6E], [data |-> <<\h0, \h24>>, pec |-> \hB19E],
   [data |-> <<\h0, \h2>>,  pec |-> \h2B0A], [data |-> <<\h0, \h26>>, pec |-> \h2CC8],
   [data |-> <<\h0, \h4>>,  pec |-> \h07C2], [data |-> <<\h0, \h6>>,  pec |-> \h9A94],
   [data |-> <<\h0, \h8>>,  pec |-> \h5E52], [data |-> <<\h0, \hA>>,  pec |-> \hC304],
   [data |-> <<\h0, \h9>>,  pec |-> \hD560]}

(* Mutant: the second group is not looked at.                              *)
InitCodeA(a, b) == IF CalcPec(a) # ConfigA.pec THEN -1 ELSE 0
(* The result of mercury_ltc_init for what it reads back.                  *)
InitCode(a, b) == (IF CalcPec(a) # ConfigA.pec THEN -1 ELSE 0)
                  + (IF CalcPec(b) # ConfigB.pec THEN -10 ELSE 0)

-----------------------------------------------------------------------------
Init == block \in Blocks /\ done = 0 /\ remainder = Seed /\ crc = 16

NextByte ==
  /\ done < Len(block)
  /\ done' = done + 1
  /\ remainder' = Step(remainder, block[done + 1])
  /\ crc' = CrcStep(crc, block[done + 1])
  /\ UNCHANGED block

Spec == Init /\ [][NextByte]_vars

-----------------------------------------------------------------------------
(* Properties.                                                             *)

(* After every byte the table driven remainder is the CRC-15, whatever its *)
(* bit 15 holds (hg_ltc.c, mercury_ltc_calcPEC).                           *)
TableIsCrc15 == remainder % 32768 = crc

(* The codes written down in the driver are the codes of what it sends.    *)
WrittenPecs ==
  \A c \in Commands \cup {ConfigA, ConfigB} :
    done = Len(block) /\ block = c.data => Pec(remainder) = c.pec

(* mercury_ltc_init returns 0 for the configuration it wrote and for no    *)
(* other block of Blocks: the code is all it looks at.                     *)
ReadBackChecked ==
  Len(block) = 6 /\ done = 6 =>
    /\ InitCode(block, ConfigB.data) = 0 <=> block = ConfigA.data
    /\ InitCode(ConfigA.data, block) = 0 <=> block = ConfigB.data
=============================================================================
