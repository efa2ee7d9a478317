----------------------------- MODULE ScanCycle -----------------------------
(***************************************************************************)
(* What the measurement cycle promises, without messages, timers or        *)
(* queues: the battery is scanned in rounds.  A node reports, is polled,   *)
(* is read and is released to report for the next round.  Nobody is polled *)
(* before everybody has reported, one node is polled at a time, and nobody *)
(* is released before everybody has been read.  A polled node may get      *)
(* lost; it is then due to report again.                                   *)
(***************************************************************************)
EXTENDS FiniteSets

CONSTANT Nodes
VARIABLE phase

Phase == {"due", "reported", "polled", "read"}
AllIn(P) == \A n \in Nodes : phase[n] \in P
Move(n, from, to) == phase[n] = from /\ phase' = [phase EXCEPT ![n] = to]

Init == phase = [n \in Nodes |-> "due"]

Report(n) == Move(n, "due", "reported")
Poll(n) == AllIn({"reported", "read"}) /\ Move(n, "reported", "polled")
Read(n) == Move(n, "polled", "read")
Release(n) == AllIn({"read", "due"}) /\ Move(n, "read", "due")
Lose(n) == Move(n, "polled", "due")

Next ==
  \E n \in Nodes : Report(n) \/ Poll(n) \/ Read(n) \/ Release(n) \/ Lose(n)

Spec == Init /\ [][Next]_phase

-----------------------------------------------------------------------------
TypeOK == phase \in [Nodes -> Phase]

(* Polling is exclusive: while one node holds the token, no other node is  *)
(* polled.                                                                 *)
OnePolled ==
  \A m, n \in Nodes : phase[m] = "polled" /\ phase[n] = "polled" => m = n
=============================================================================
