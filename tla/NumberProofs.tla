---------------------------- MODULE NumberProofs ----------------------------
(***************************************************************************)
(* Facts about numbers: what Min returns, for the searches that are        *)
(* modelled with it, and the arithmetic of the hash in 32 bits, for the    *)
(* 2^32 words of which a run sees some thousands.                          *)
(***************************************************************************)
EXTENDS Words, FiniteSetsExt, WellFoundedInduction, TLAPS

(* A set of naturals that is not empty has a least element, and Min is it. *)
LEMMA LeastElement ==
  ASSUME NEW S \in SUBSET Nat, S # {}
  PROVE  Min(S) \in S /\ \A y \in S : Min(S) <= y
  <1> DEFINE R == {ss \in Nat \X Nat : ss[1] < ss[2]}
  <1>1. IsWellFoundedOn(R, Nat)
    BY NatLessThanWellFounded DEF OpToRel
  <1>2. PICK x \in S : \A y \in S : ~ (<<y, x>> \in R)
    <2> HIDE DEF R
    <2>1. QED BY <1>1, WFMin
  <1>3. ASSUME NEW y \in S PROVE x =< y
    <2>1. <<y, x>> \in Nat \X Nat /\ ~ (<<y, x>> \in R)
      BY <1>2
    <2>2. ~ (y < x)
      BY <2>1
    <2>3. QED BY <2>2
  <1>4. QED BY <1>3 DEF Min

-----------------------------------------------------------------------------
(* Words.                                                                  *)

(* Carries may as well be made once, at the end.                           *)
LEMMA CarriedPlus ==
  ASSUME NEW a \in Nat, NEW b \in Nat, NEW c \in Nat, NEW d \in Nat
  PROVE  Plus(Carried(a, b), Carried(c, d)) = Carried(a + c, b + d)
  <1>1. (b + d) % 65536 = ((b % 65536) + (d % 65536)) % 65536
    OBVIOUS
  <1>2. (b + d) \div 65536
          = (b \div 65536) + (d \div 65536) + (((b % 65536) + (d % 65536)) \div 65536)
    OBVIOUS
  <1>3. QED BY <1>1, <1>2 DEF Plus, Carried, Half

(* The halves of a word, which is its own remainder modulo 2^32.           *)
LEMMA Halves ==
  ASSUME NEW x \in Word
  PROVE  /\ x[1] \in Nat /\ x[1] < 65536 /\ x[2] \in Nat /\ x[2] < 65536
         /\ x = <<x[1], x[2]>> /\ x = Carried(x[1], x[2])
  <1> DEFINE h == x[1]
             l == x[2]
  <1>1. h \in 0..Half - 1 /\ l \in 0..Half - 1 /\ x = <<h, l>>
    BY DEF Word
  <1> HIDE DEF h, l
  <1>2. Half - 1 \in Int /\ Half - 1 < 65536
    BY DEF Half
  <1>3. h \in Nat /\ h < 65536 /\ l \in Nat /\ l < 65536
    BY <1>1, <1>2
  <1>4. l \div 65536 = 0 /\ l % 65536 = l /\ (h + 0) % 65536 = h
    BY <1>3
  <1>5. x = Carried(h, l)
    <2>1. Carried(h, l) = <<(h + (l \div 65536)) % 65536, l % 65536>>
      BY DEF Carried, Half
    <2>2. x = <<h, l>>
      BY <1>1
    <2>3. QED BY <1>4, <2>1, <2>2
  <1>6. QED BY <1>1, <1>3, <1>5 DEF h, l

LEMMA Shifted ==
  ASSUME NEW x, NEW h \in Nat, NEW l \in Nat, x = <<h, l>>
  PROVE  /\ ShiftL(x, 1) = Carried(2 * h, 2 * l)
         /\ ShiftL(x, 4) = Carried(16 * h, 16 * l)
         /\ ShiftL(x, 7) = Carried(128 * h, 128 * l)
         /\ ShiftL(x, 8) = Carried(256 * h, 256 * l)
         /\ ShiftL(x, 24) = Carried(256 * l, 0)
  <1>1. 2^1 = 2 /\ 2^4 = 16 /\ 2^7 = 128 /\ 2^8 = 256 /\ 24 - 16 = 8
    OBVIOUS
  <1>2. ~ (1 >= 16) /\ ~ (4 >= 16) /\ ~ (7 >= 16) /\ ~ (8 >= 16) /\ 24 >= 16
    OBVIOUS
  <1>3. /\ h * 2 = 2 * h /\ h * 16 = 16 * h /\ h * 128 = 128 * h /\ h * 256 = 256 * h
        /\ l * 2 = 2 * l /\ l * 16 = 16 * l /\ l * 128 = 128 * l /\ l * 256 = 256 * l
    OBVIOUS
  <1>4. QED BY <1>1, <1>2, <1>3 DEF ShiftL

(* Multiples of the two halves of a word are added factor by factor.       *)
LEMMA AddMultiples ==
  ASSUME NEW h \in Nat, NEW l \in Nat, NEW i \in Nat, NEW j \in Nat, NEW s,
         s = i + j
  PROVE  Plus(Carried(i * h, i * l), Carried(j * h, j * l)) = Carried(s * h, s * l)
  <1>1. i * h \in Nat /\ i * l \in Nat /\ j * h \in Nat /\ j * l \in Nat
    OBVIOUS
  <1>2. i * h + j * h = s * h /\ i * l + j * l = s * l
    OBVIOUS
  <1>3. QED BY <1>1, <1>2, CarriedPlus

(* The two branches of the #if in fnv_32a_str (fnv.c:213-217) compute the  *)
(* same: in 32 bits the sum of shifted copies is the product with the      *)
(* prime, whatever hval is.                                                *)
THEOREM ShiftsMultiply == \A x \in Word : ShiftedSum(x) = TimesPrime(x)
  <1> SUFFICES ASSUME NEW x \in Word PROVE ShiftedSum(x) = TimesPrime(x)
    OBVIOUS
  <1> DEFINE h == x[1]
             l == x[2]
  <1>1. h \in Nat /\ l \in Nat /\ x = <<h, l>> /\ x = Carried(h, l)
    BY Halves
  <1> HIDE DEF h, l
  <1>2. TimesPrime(x) = Carried(403 * h + 256 * l, 403 * l)
    <2>1. h * 403 + l * 256 = 403 * h + 256 * l /\ l * 403 = 403 * l
      BY <1>1
    <2>2. QED BY <2>1 DEF TimesPrime, h, l
  <1>3. LowShifts(x) = Carried(402 * h, 402 * l)
    <2>1. Plus(Carried(2 * h, 2 * l), Carried(16 * h, 16 * l)) = Carried(18 * h, 18 * l)
      <3>1. 18 = 2 + 16 /\ 2 \in Nat /\ 16 \in Nat
        OBVIOUS
      <3>2. QED BY <1>1, <3>1, AddMultiples
    <2>2. Plus(Carried(18 * h, 18 * l), Carried(128 * h, 128 * l)) = Carried(146 * h, 146 * l)
      <3>1. 146 = 18 + 128 /\ 18 \in Nat /\ 128 \in Nat
        OBVIOUS
      <3>2. QED BY <1>1, <3>1, AddMultiples
    <2>3. Plus(Carried(146 * h, 146 * l), Carried(256 * h, 256 * l))
            = Carried(402 * h, 402 * l)
      <3>1. 402 = 146 + 256 /\ 146 \in Nat /\ 256 \in Nat
        OBVIOUS
      <3>2. QED BY <1>1, <3>1, AddMultiples
    <2>4. QED BY <1>1, <2>1, <2>2, <2>3, Shifted DEF LowShifts
  <1>4. Plus(LowShifts(x), ShiftL(x, 24)) = Carried(402 * h + 256 * l, 402 * l)
    <2>1. /\ 402 * h \in Nat /\ 402 * l \in Nat /\ 256 * l \in Nat /\ 0 \in Nat
          /\ 402 * l + 0 = 402 * l
      BY <1>1
    <2>2. ShiftL(x, 24) = Carried(256 * l, 0)
      BY <1>1, Shifted
    <2>3. Plus(Carried(402 * h, 402 * l), Carried(256 * l, 0))
            = Carried(402 * h + 256 * l, 402 * l + 0)
      BY <2>1, CarriedPlus
    <2>4. QED BY <1>3, <2>1, <2>2, <2>3
  <1>5. Plus(Carried(h, l), Carried(402 * h + 256 * l, 402 * l))
          = Carried(403 * h + 256 * l, 403 * l)
    <2>1. /\ 402 * h + 256 * l \in Nat /\ 402 * l \in Nat
          /\ h + (402 * h + 256 * l) = 403 * h + 256 * l /\ l + 402 * l = 403 * l
      BY <1>1
    <2>2. QED BY <1>1, <2>1, CarriedPlus
  <1>6. QED BY <1>1, <1>2, <1>4, <1>5 DEF ShiftedSum

(* 403 is odd, and 17563 its inverse modulo 2^16.                          *)
LEMMA OddFactor ==
  ASSUME NEW a \in Nat, NEW b \in Nat, NEW c \in Nat, a < 65536, b < 65536,
         (403 * a + c) % 65536 = (403 * b + c) % 65536
  PROVE  a = b
  <1> DEFINE p == (403 * a + c) \div 65536
             q == (403 * b + c) \div 65536
             r == (403 * b + c) % 65536
  <1>1. /\ p \in Int /\ q \in Int /\ r \in Int
        /\ 403 * a + c = 65536 * p + r /\ 403 * b + c = 65536 * q + r
    OBVIOUS
  <1> HIDE DEF p, q, r
  <1> DEFINE k == p - q
             d == a - b
  <1>2. k \in Int /\ d \in Int /\ -65536 < d /\ d < 65536 /\ 403 * d = 65536 * k
    BY <1>1
  <1> HIDE DEF k, d
  <1>3. d = 65536 * (17563 * k - 108 * d) /\ 17563 * k - 108 * d \in Int
    BY <1>2
  <1>4. d = 0
    BY <1>2, <1>3
  <1>5. QED BY <1>4 DEF d

(* The sum of shifted copies in fnv_32a_str (fnv.c:216) never makes one    *)
(* word of two, nor does the exclusive or with one octet before it: what   *)
(* one digit of the uptime has made different stays different while the    *)
(* same digits follow.                                                     *)
THEOREM WordsStayApart ==
  \A x, y \in Word : ShiftedSum(x) = ShiftedSum(y) => x = y
  <1> SUFFICES ASSUME NEW x \in Word, NEW y \in Word, ShiftedSum(x) = ShiftedSum(y)
               PROVE  x = y
    OBVIOUS
  <1> DEFINE c == x[2] * 256 + ((x[2] * 403) \div 65536)
  <1>1. /\ x[1] \in Nat /\ x[1] < 65536 /\ x[2] \in Nat /\ x[2] < 65536
        /\ x = <<x[1], x[2]>>
        /\ y[1] \in Nat /\ y[1] < 65536 /\ y[2] \in Nat /\ y[2] < 65536
        /\ y = <<y[1], y[2]>>
    BY Halves
  <1>2. TimesPrime(x) = TimesPrime(y)
    BY ShiftsMultiply
  <1>3. (x[2] * 403) % 65536 = (y[2] * 403) % 65536
    BY <1>2 DEF TimesPrime, Carried, Half
  <1>4. x[2] = y[2]
    <2>1. (403 * x[2] + 0) % 65536 = (403 * y[2] + 0) % 65536
      BY <1>1, <1>3
    <2>2. QED BY <1>1, <2>1, OddFactor
  <1>5. x[1] = y[1]
    <2>1. /\ (x[1] * 403 + x[2] * 256 + ((x[2] * 403) \div 65536)) % 65536
             = (y[1] * 403 + x[2] * 256 + ((x[2] * 403) \div 65536)) % 65536
      BY <1>2, <1>4 DEF TimesPrime, Carried, Half
    <2>2. /\ x[1] * 403 + x[2] * 256 + ((x[2] * 403) \div 65536) = 403 * x[1] + c
          /\ y[1] * 403 + x[2] * 256 + ((x[2] * 403) \div 65536) = 403 * y[1] + c
          /\ c \in Nat
      BY <1>1
    <2> HIDE DEF c
    <2>3. (403 * x[1] + c) % 65536 = (403 * y[1] + c) % 65536
      BY <2>1, <2>2
    <2>4. QED BY <1>1, <2>2, <2>3, OddFactor
  <1>6. QED BY <1>1, <1>4, <1>5
=============================================================================
