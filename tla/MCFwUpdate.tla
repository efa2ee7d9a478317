---------------------------- MODULE MCFwUpdate ----------------------------
(***************************************************************************)
(* Images and flash cells for the model checking of FwUpdate.              *)
(***************************************************************************)
EXTENDS FwUpdate, Bitwise

Block(base, size) ==
  [base |-> base, data |-> [i \in 1..size |-> (7 * i + base) % 256]]

(* Small blocks in and out of order, one over another, with a hole, up to  *)
(* the last byte; the greatest size an int8_t holds, and one more.         *)
MCImages ==
  { <<Block(0, 3), Block(3, 2)>>, <<Block(258, 6), Block(1, 1)>>,
    <<Block(4, 2), [base |-> 5, data |-> <<16>>]>>,
    <<Block(0, 127)>>, <<Block(0, 128)>>, <<>> }

(* A write can clear bits and not set them.                                *)
ClearBits(old, new) == old & new
===========================================================================
