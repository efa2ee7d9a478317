----------------------------- MODULE ScanProofs -----------------------------
(* Proofs about the abstract scan.                                         *)
EXTENDS ScanCycle, TLAPS

(* While a node is polled all the others have reported or been read.       *)
Exclusive ==
  \A n \in Nodes :
    phase[n] = "polled" =>
      \A m \in Nodes \ {n} : phase[m] \in {"reported", "read"}

LEMMA InitExclusive == Init => TypeOK /\ Exclusive
  BY DEF Init, TypeOK, Exclusive, Phase

LEMMA StepExclusive ==
  TypeOK /\ Exclusive /\ [Next]_phase => TypeOK' /\ Exclusive'
<1> SUFFICES ASSUME TypeOK, Exclusive, [Next]_phase
             PROVE  TypeOK' /\ Exclusive'
  OBVIOUS
<1> USE DEF TypeOK, Exclusive, Phase, Move, AllIn
<1>1. CASE UNCHANGED phase
  BY <1>1
<1>2. ASSUME NEW n \in Nodes, Report(n)
      PROVE  TypeOK' /\ Exclusive'
  BY <1>2 DEF Report
<1>3. ASSUME NEW n \in Nodes, Poll(n)
      PROVE  TypeOK' /\ Exclusive'
  BY <1>3 DEF Poll
<1>4. ASSUME NEW n \in Nodes, Read(n)
      PROVE  TypeOK' /\ Exclusive'
  BY <1>4 DEF Read
<1>5. ASSUME NEW n \in Nodes, Release(n)
      PROVE  TypeOK' /\ Exclusive'
  BY <1>5 DEF Release
<1>6. ASSUME NEW n \in Nodes, Lose(n)
      PROVE  TypeOK' /\ Exclusive'
  BY <1>6 DEF Lose
<1>7. QED
  BY <1>1, <1>2, <1>3, <1>4, <1>5, <1>6 DEF Next

(* One node is polled at a time, for every set of nodes.  The measurement  *)
(* cycle implements the scan (CycleProofs, ImplementsScan), so no two      *)
(* nodes are in TX_TOKEN at once.                                          *)
THEOREM OnePolledHolds == Spec => []OnePolled
<1>1. Exclusive => OnePolled
  BY DEF Exclusive, OnePolled
<1>2. QED
  BY InitExclusive, StepExclusive, <1>1, PTL DEF Spec
=============================================================================
