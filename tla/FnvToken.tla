------------------------------ MODULE FnvToken ------------------------------
(***************************************************************************)
(* The tokens of the BMS (fnv.c, token_gen): the 32-bit FNV-1a hash of the *)
(* uptime in milliseconds, written in decimal.  The diagnostic thread      *)
(* tells the Data of two cycles apart by their tokens, and DiagQueues      *)
(* takes tokens as distinct; here is how far that goes.                    *)
(*                                                                         *)
(* One step per millisecond; the uptime stays below 2^31.                  *)
(***************************************************************************)
EXTENDS Words, Sequences, FiniteSets, Bitwise, SequencesExt

CONSTANTS
  Spans,        (* bound: the spans of uptime looked at, <<first, last>>   *)
  Window        (* the tokens that may be compared with one another        *)

VARIABLES uptime, recent       (* recent: the last tokens, oldest first    *)
tokenVars == <<uptime, recent>>

FNV1_32A_INIT == <<\h811C, \h9DC5>>

(* The loop body of fnv_32a_str: the octet, then the shifted copies.       *)
HashOctet(hval, octet) == ShiftedSum(<<hval[1], hval[2] ^^ octet>>)

Width(t) == 1 + Cardinality({k \in 1..9 : 10^k <= t})
Digit(t, i) == 48 + ((t \div 10^(Width(t) - i)) % 10)
(* Mutant: a buffer that is too short for the last digit.                  *)
DecimalCut(t) == [i \in 1..Width(t) - 1 |-> Digit(t, i)]
(* sprintf("%lu"): the digits, the highest first.                          *)
Decimal(t) == [i \in 1..Width(t) |-> Digit(t, i)]

token_gen(t) == FoldLeft(HashOctet, FNV1_32A_INIT, Decimal(t))

-----------------------------------------------------------------------------
Init == \E s \in Spans : uptime = s[1] /\ recent = <<token_gen(s[1])>>

(* k_uptime_get_32 a millisecond later.                                    *)
Tick ==
  /\ \E s \in Spans : s[1] <= uptime /\ uptime < s[2]
  /\ uptime' = uptime + 1
  /\ recent' = Append(IF Len(recent) < Window THEN recent ELSE Tail(recent),
                      token_gen(uptime + 1))

Spec == Init /\ [][Tick]_tokenVars

-----------------------------------------------------------------------------
(* The reference: products, one digit of the number at a time by division, *)
(* the lowest one last.                                                    *)
Fnv1a[n \in 0..2147483647] ==
  LET before == IF n < 10 THEN FNV1_32A_INIT ELSE Fnv1a[n \div 10]
  IN TimesPrime(<<before[1], before[2] ^^ (48 + (n % 10))>>)

(* The sum of shifted copies in fnv_32a_str, over the digits sprintf has   *)
(* written, is FNV-1a: fnv.c:212, "multiply by the 32 bit FNV magic prime  *)
(* mod 2^32".                                                              *)
HashIsFnv1a == Last(recent) = Fnv1a[uptime]

(* Tokens sent within Window milliseconds of one another differ, also when *)
(* the uptime gains a digit: message_dev_searchTX cannot take an earlier   *)
(* token for the one it looks for.                                         *)
TokensDistinct ==
  \A i \in 1..Len(recent) - 1 : recent[i] # Last(recent)
=============================================================================
