---------------------------- MODULE HiringPolicy ----------------------------
(***************************************************************************)
(* What docs/ARCHITECTURE.md, "Pipeline state machine", promises of the    *)
(* hiring pipeline: a move is validated and made in one step, against the  *)
(* stage the application is in at that moment.                             *)
(*   - nothing moves once an application is in a terminal stage,           *)
(*   - HIRED is only reachable from an OFFER-kind stage,                   *)
(*   - every move leaves exactly one stage event,                          *)
(*   - a stage that an application is or was in is never removed.          *)
(* There are no requests here, no stale reads and no outbox.  The kind of  *)
(* a stage does not change.                                                *)
(***************************************************************************)
EXTENDS Sequences

CONSTANTS App, Stage, NoStage, InitStages, InitKind, NewKinds

VARIABLES live, kind, used, cur, status, trail

vars == <<live, kind, used, cur, status, trail>>
stageVars == <<live, kind, used>>

Terminal(s) == kind[s] \in {"HIRED", "REJECTED"}

Init ==
    /\ live = InitStages
    /\ used = InitStages
    /\ kind = InitKind
    /\ cur = [a \in App |-> NoStage]
    /\ status = [a \in App |-> "ACTIVE"]
    /\ trail = [a \in App |-> <<>>]

Record(a, from, to) ==
    /\ cur' = [cur EXCEPT ![a] = to]
    /\ trail' = [trail EXCEPT ![a] = Append(@, [from |-> from, to |-> to])]

Apply(a, s) ==
    /\ cur[a] = NoStage
    /\ s \in live
    /\ Record(a, NoStage, s)
    /\ UNCHANGED <<stageVars, status>>

Move(a, t) ==
    /\ cur[a] \in live
    /\ ~Terminal(cur[a])
    /\ t \in live \ {cur[a]}
    /\ kind[t] = "HIRED" => kind[cur[a]] = "OFFER"
    /\ Record(a, cur[a], t)
    /\ status' = [status EXCEPT ![a] = IF Terminal(t) THEN kind[t] ELSE @]
    /\ UNCHANGED stageVars

AddStage(s, k) ==
    /\ s \notin used
    /\ live' = live \union {s}
    /\ used' = used \union {s}
    /\ kind' = [kind EXCEPT ![s] = k]
    /\ UNCHANGED <<cur, status, trail>>

RemoveStage(s) ==
    /\ s \in live
    /\ \A a \in App : s # cur[a] /\ \A i \in DOMAIN trail[a] : trail[a][i].to # s
    /\ live' = live \ {s}
    /\ UNCHANGED <<kind, used, cur, status, trail>>

Next == \/ \E a \in App, s \in Stage : Apply(a, s) \/ Move(a, s)
        \/ \E s \in Stage : RemoveStage(s) \/ \E k \in NewKinds : AddStage(s, k)

Spec == Init /\ [][Next]_vars
=============================================================================
