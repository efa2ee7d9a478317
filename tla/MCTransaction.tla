--------------------------- MODULE MCTransaction ---------------------------
(* Instances of Transaction for TLC.  The nodes are interchangeable, so    *)
(* the runs that check safety only identify permuted states.               *)
EXTENDS TransactionInv, TLC

NodeSymmetry == Permutations(Nodes)
=============================================================================
