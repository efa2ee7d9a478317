------------------------------ MODULE MCLtcPec ------------------------------
(* Instance of LtcPec for TLC: every pair of a byte and one of the nine    *)
(* values with at most one bit set, the commands, and the configuration    *)
(* blocks with bits of two neighbouring bytes flipped: one bit, two bits,  *)
(* a run of up to fifteen.                                                 *)
EXTENDS LtcPec

OneBit == {0} \cup {2^k : k \in 0..7}
Pairs == {<<a, b>> : a \in Byte, b \in OneBit}
Bursts == {<<x, y>> : x \in OneBit \cup {\h7F}, y \in OneBit \cup {\hFF}}
Flip(data, i, burst) ==
  [data EXCEPT ![i] = @ ^^ burst[1], ![i + 1] = @ ^^ burst[2]]
ReadBack ==
  {Flip(c.data, i, burst) : c \in {ConfigA, ConfigB}, i \in 1..5, burst \in Bursts}

MCBlocks == Pairs \cup ReadBack \cup {c.data : c \in Commands}
=============================================================================
