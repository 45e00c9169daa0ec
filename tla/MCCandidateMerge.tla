-------------------------- MODULE MCCandidateMerge --------------------------
(***************************************************************************)
(* Instances of CandidateMerge for TLC.  A behaviour takes one side: either*)
(* requests, merges and applications interleave and no scan finds anything,*)
(* so that there is no link; or links are made, reviewed and merged, of    *)
(* candidates that recruiters add and that send nothing.                   *)
(***************************************************************************)
EXTENDS CandidateMerge, TLC

CONSTANTS c1, c2, c3, j1, j2, r1, r2,
    MaxStored  \* bound: resumes stored, a person's held twice counted twice

VARIABLE side

Symmetry == Permutations(Cand) \union Permutations(Job) \union
            Permutations(Req)

Stored == {x \in Cand \X Cand : x[1] \in resumes[x[2]]}

Bound ==
    \/ /\ side = "requests"
       /\ \A r \in Req : req[r].pc # "scan" /\
                         (req[r].pc = "scanNew" => req[r].left = {})
       /\ Cardinality(Stored) <= MaxStored
    \/ /\ side = "scans"
       /\ \A r \in Req : req[r].pc \notin {"resume", "check", "recheck"}

MCInit == Init /\ side \in {"requests", "scans"}
MCNext == UNCHANGED side /\ Next /\ Bound'
MCSpec == MCInit /\ [][MCNext]_<<vars, side>>
=============================================================================
