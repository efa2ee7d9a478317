------------------------------- MODULE Words -------------------------------
(***************************************************************************)
(* 32-bit words as fnv.c computes with them.  A word is <<high, low>>, two *)
(* halves of 16 bits: TLC's integers have 32 bits and a sign.              *)
(***************************************************************************)
EXTENDS Integers

Half == 65536
Word == (0..Half - 1) \X (0..Half - 1)

(* high * 2^16 + low, of which the bits above 2^32 are lost.               *)
Carried(high, low) == <<(high + (low \div Half)) % Half, low % Half>>

Plus(x, y) == Carried(x[1] + y[1], x[2] + y[2])
(* x << k.                                                                 *)
ShiftL(x, k) ==
  IF k >= 16 THEN Carried(x[2] * 2^(k - 16), 0)
  ELSE Carried(x[1] * 2^k, x[2] * 2^k)

LowShifts(x) ==
  Plus(Plus(Plus(ShiftL(x, 1), ShiftL(x, 4)), ShiftL(x, 7)), ShiftL(x, 8))
(* Mutant: the highest bit of the prime is left out.                       *)
SumWithout24(x) == Plus(x, LowShifts(x))
(* What fnv_32a_str makes of hval after the exclusive or, compiled as it   *)
(* is here: the sum of shifted copies.                                     *)
ShiftedSum(x) == Plus(x, Plus(LowShifts(x), ShiftL(x, 24)))

(* And with NO_FNV_GCC_OPTIMIZATION: the product with the prime 16777619,  *)
(* which is 256 * 2^16 + 403.                                              *)
TimesPrime(x) == Carried(x[1] * 403 + x[2] * 256, x[2] * 403)
=============================================================================
