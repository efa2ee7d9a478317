------------------------------- MODULE MCCodes -------------------------------
(* The two codes of the program that go byte by byte, for TLC: a behaviour *)
(* computes the packet error code of one block (LtcPec) or the tokens of   *)
(* one span of uptime (FnvToken), around a power of ten or up to 2^31.     *)
EXTENDS MCLtcPec

VARIABLES uptime, recent

MCWindow == 1000
MCSpans ==
  {<<0, 2000>>, <<2147482000, 2147483647>>}
  \cup {<<10^k - 1000, 10^k + 1000>> : k \in 4..9}

Fnv == INSTANCE FnvToken WITH Spans <- MCSpans, Window <- MCWindow

Idle == uptime = 0 /\ recent = <<>>
IdleLtc == block = <<>> /\ done = 0 /\ remainder = Seed /\ crc = 16

CodesInit == (Init /\ Idle) \/ (IdleLtc /\ Fnv!Init)
CodesNext ==
  \/ NextByte /\ UNCHANGED <<uptime, recent>>
  \/ block = <<>> /\ recent # <<>> /\ Fnv!Tick /\ UNCHANGED vars
CodesSpec == CodesInit /\ [][CodesNext]_<<vars, uptime, recent>>

(* fnv_32a_str computes FNV-1a (fnv.c:212).                                *)
HashIsFnv1a == recent # <<>> => Fnv!HashIsFnv1a

(* Tokens sent within a second of one another differ (hg_netMgr.c:447).      *)
TokensDistinct == Fnv!TokensDistinct
=============================================================================
