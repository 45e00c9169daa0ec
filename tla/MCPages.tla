------------------------------- MODULE MCPages -------------------------------
(***************************************************************************)
(* JobLifecycle, whose stages a job's page edits, and instances of         *)
(* LiveUpdates and PortalBadge for TLC.  They share no state: `side` says, *)
(* from the first state on, which of the three a behaviour is of.          *)
(***************************************************************************)
EXTENDS JobLifecycle

CONSTANTS a, b, MaxVersion, Mark, MaxUpdates, MaxClock, MaxBells, MaxFaults

VARIABLES
    side,
    view, server, parsing, cache, own, pushes, faults, due,
    clock, open, updates, viewedAt, count, unread, timer, mark, bells, failed,
    disturbed

MCTemplate == <<a, b>>

P == INSTANCE LiveUpdates
C == INSTANCE PortalBadge WITH fetch <- count, faults <- failed

pageVars == <<view, server, parsing, cache, own, pushes, faults, due>>
badgeVars == <<clock, open, updates, viewedAt, count, unread, timer, mark, bells,
               failed, disturbed>>
allVars == <<side, vars, pageVars, badgeVars>>

\* The parts of the state that are not followed start, and stay, in one state.
MCInit ==
    /\ side \in {"stages", "pages", "badge"}
    /\ Init
    /\ P!Init /\ (side # "pages" => view = "Jobs" /\ parsing = {})
    /\ C!Init /\ (side # "badge" => updates = {})

OnStages == side = "stages" /\ Next /\ UNCHANGED <<side, pageVars, badgeVars>>
OnPage(A) == side = "pages" /\ A /\ UNCHANGED <<side, vars, badgeVars>>
OnBadge(A) == side = "badge" /\ A /\ UNCHANGED <<side, vars, pageVars>>
MCNext == OnStages \/ OnPage(P!Next) \/ OnBadge(C!Next)

\* The fairness of each module, for the behaviours that follow it.
Fairness ==
    /\ \A k \in P!Key : /\ WF_allVars(OnPage(P!Read(k)))
                        /\ WF_allVars(OnPage(P!Land(k)))
                        /\ WF_allVars(OnPage(P!Poll(k)))
    /\ WF_allVars(OnPage(P!ParseEnds))
    /\ WF_allVars(OnBadge(C!ReadAccount)) /\ WF_allVars(OnBadge(C!Count))
    /\ WF_allVars(OnBadge(C!Land)) /\ WF_allVars(OnBadge(C!Poll))
    /\ SF_allVars(OnBadge(C!TimerFires))
    /\ \A m \in Mark : /\ WF_allVars(OnBadge(C!MarkViewed(m)))
                       /\ WF_allVars(OnBadge(C!Marked(m)))

MCSpec == MCInit /\ [][MCNext]_allVars /\ Fairness

\* The type invariants of the three modules.
TypesOK == TypeOK /\ P!TypeOK /\ C!TypeOK

\* See LiveUpdates: what a page wrote is on its way to the page.
OwnWritesShown == P!OwnWritesShown

\* See LiveUpdates: without any push, polls bring the data.
PolledCatchUp == P!PolledCatchUp

\* See PortalBadge: an open page clears the badge.
BadgeClears == C!BadgeClears
=============================================================================
