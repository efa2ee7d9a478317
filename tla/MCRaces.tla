------------------------------- MODULE MCRaces -------------------------------
(***************************************************************************)
(* Transaction for TLC with timers that expire at any step of a handler.   *)
(* Without Timely they could expire again and again while answers pile up, *)
(* so a behaviour has a budget of faults: steps that Timely would exclude, *)
(* and lost messages.                                                      *)
(***************************************************************************)
EXTENDS TransactionInv

CONSTANT MaxFaults  (* bound: hasty steps and losses in a behaviour        *)

VARIABLE hasty      (* hasty steps so far                                  *)

racesVars == <<vars, hasty>>

(* A timer does not outlast the answer it waits for, or a message reaches  *)
(* a CMB before it has cleared its flags.                                  *)
Hasty ==
  \E n \in Nodes :
    \/ Answering(n) /\ (OkExpiry(n) \/ DataExpiry(n))
    \/ cmbMain[n] = "okSent" /\ CmbRx(n)

Faults == hasty + losses

RacesInit == Init /\ hasty = 0
RacesNext ==
  /\ Next
  /\ hasty' = IF Hasty THEN hasty + 1 ELSE hasty
  /\ Faults' <= MaxFaults
(* The threads run; that an armed timer expires is not assumed.            *)
RacesSpec == RacesInit /\ [][RacesNext]_racesVars /\ ThreadsRun

(* As long as nothing is lost and nothing is hasty every node is read      *)
(* again and again: the BMS and the CMBs never wait for one another with   *)
(* no timer needed to go on.                                               *)
ScansUndisturbed == [](Faults = 0) => ScansForever
=============================================================================
