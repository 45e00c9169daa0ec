----------------------------- MODULE MCPipeline -----------------------------
(***************************************************************************)
(* Instances of Pipeline for TLC.  The stages are named for their kinds; a *)
(* job starts with four of them and `extra` is there to be added.          *)
(***************************************************************************)
EXTENDS Pipeline, TLC

CONSTANTS a1, a2, r1, r2, r3, applied, offer, hired, rejected, extra

MCInitKind == [s \in Stage |-> CASE s = applied -> "APPLIED"
                                [] s = offer -> "OFFER"
                                [] s = hired -> "HIRED"
                                [] s = rejected -> "REJECTED"
                                [] s = extra -> "SCREEN"]

Symmetry == Permutations(Req)
=============================================================================
