------------------------------ MODULE MCOutbox ------------------------------
(***************************************************************************)
(* Instances of Outbox for TLC: row 1 is an interview.scheduled row (two   *)
(* queue.add() calls), the others make one call each.                      *)
(***************************************************************************)
EXTENDS Outbox, TLC

CONSTANTS p1, p2

MCLegs == [r \in Row |-> IF r = 1 THEN 2 ELSE 1]
Symmetry == Permutations(Relay)
=============================================================================
