---------------------------- MODULE AtLeastOnce ----------------------------
(***************************************************************************)
(* What docs/ARCHITECTURE.md, "Transactional outbox", promises of a domain *)
(* event: once its transaction has committed it is owed, and in the end    *)
(* every job it stands for has been queued, or the event is dead-lettered. *)
(* A queued event stays queued; a dead one may still be queued by a fast   *)
(* path that comes late.                                                   *)
(***************************************************************************)
CONSTANT Row
VARIABLE event

Init == event = [r \in Row |-> "none"]

Step(r, from, to) == event[r] = from /\ event' = [event EXCEPT ![r] = to]

Accept(r) == Step(r, "none", "owed")
Queue(r) == Step(r, "owed", "queued")
QueueLate(r) == Step(r, "dead", "queued")
GiveUp(r) == Step(r, "owed", "dead")

Next == \E r \in Row : Accept(r) \/ Queue(r) \/ QueueLate(r) \/ GiveUp(r)

Spec == Init /\ [][Next]_event

\* No event is owed forever.
FairSpec == Spec /\ \A r \in Row : WF_event(Queue(r) \/ GiveUp(r))
=============================================================================
