----------------------------- MODULE MCSimWorld -----------------------------
(***************************************************************************)
(* Four validators in two subnets of two.  The primary is not the aggregator*)
(* of its subnet, the backup is that of the other one.                     *)
(***************************************************************************)
EXTENDS SimWorld

MCAssign == [v \in 0 .. 3 |-> v \div 2]
MCLeft == {0, 1}
MCRight == {2, 3}
=============================================================================
