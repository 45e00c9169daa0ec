----------------------------- MODULE PortalBadge -----------------------------
(***************************************************************************)
(* The bell of the candidate's dashboard: how many updates are newer than  *)
(* the last time the candidate looked, and what makes them old.            *)
(*                                                                         *)
(*   packages/core/src/modules/candidatePortal/service.ts                  *)
(*       getUnreadUpdateCount, markUpdatesViewed                           *)
(*   server/src/modules/candidatePortal/   their handlers                  *)
(*   web/src/pages/CandidateDashboard.tsx  the badge, its timer, the bell  *)
(*                                                                         *)
(* An update is a stage event.  It carries the time its transaction began  *)
(* at and is seen once that has committed; the watermark carries the time  *)
(* of the request that set it.                                             *)
(***************************************************************************)
EXTENDS Naturals, FiniteSets

CONSTANTS
    Mark,        \* slots for mark-viewed requests in flight
    MaxUpdates,  \* bound: updates
    MaxClock,    \* bound: different times
    MaxBells,    \* bound: times the candidate opens the bell
    MaxFaults    \* bound: mark-viewed requests that fail

VARIABLES
    clock,      \* the time
    open,       \* updates whose transactions have begun, by time
    updates,    \* updates that have committed
    viewedAt,   \* candidate_accounts.notificationsViewedAt; 0: never
    fetch,      \* the page's fetch of the count
    unread,     \* the count the page shows
    timer,      \* the three seconds after which the page calls them viewed
    mark,       \* mark-viewed requests
    bells,      \* times the bell was opened
    faults,     \* requests failed so far
    disturbed   \* history: since the badge was last clear, a request failed
                \* or an update came while it showed some

vars == <<clock, open, updates, viewedAt, fetch, unread, timer, mark, bells, faults,
          disturbed>>

Idle == [pc |-> "idle"]

TypeOK ==
    /\ clock \in 0..MaxClock /\ viewedAt \in 0..MaxClock
    /\ open \subseteq 1..MaxClock /\ updates \subseteq 1..MaxClock
    /\ fetch \in {Idle} \union [pc: {"sent"}]
                   \union [pc: {"account"}, viewedAt: 0..MaxClock]
                   \union [pc: {"counted"}, count: 0..MaxUpdates]
    /\ unread \in 0..MaxUpdates
    /\ timer \in BOOLEAN /\ disturbed \in BOOLEAN
    /\ mark \in [Mark -> {"idle", "sent", "done", "failed"}]
    /\ bells \in 0..MaxBells /\ faults \in 0..MaxFaults

\* The page has just loaded; some updates may be older than that.
Init ==
    /\ clock = 1
    /\ open = {}
    /\ updates \in {{}, {1}}
    /\ viewedAt = 0
    /\ fetch = [pc |-> "sent"]
    /\ unread = 0
    /\ timer = FALSE
    /\ mark = [m \in Mark |-> "idle"]
    /\ bells = 0 /\ faults = 0
    /\ disturbed = FALSE

pageVars == <<fetch, unread, timer>>

-----------------------------------------------------------------------------
(* The server *)

\* A transition begins, and commits.
Begin ==
    /\ Cardinality(open \union updates) < MaxUpdates
    /\ clock < MaxClock
    /\ clock' = clock + 1
    /\ open' = open \union {clock'}
    /\ UNCHANGED <<updates, viewedAt, pageVars, mark, bells, faults, disturbed>>

Commit(e) ==
    /\ e \in open
    /\ open' = open \ {e}
    /\ updates' = updates \union {e}
    /\ disturbed' = (disturbed \/ unread > 0)
    /\ UNCHANGED <<clock, viewedAt, pageVars, mark, bells, faults>>

\* getUnreadUpdateCount reads the account, then counts.
ReadAccount ==
    /\ fetch.pc = "sent"
    /\ fetch' = [pc |-> "account", viewedAt |-> viewedAt]
    /\ UNCHANGED <<clock, open, updates, viewedAt, unread, timer, mark, bells, faults,
                   disturbed>>

Count ==
    /\ fetch.pc = "account"
    /\ fetch' = [pc |-> "counted",
                 count |-> Cardinality({e \in updates : e > fetch.viewedAt})]
    /\ UNCHANGED <<clock, open, updates, viewedAt, unread, timer, mark, bells, faults,
                   disturbed>>

\* markUpdatesViewed.
MarkViewed(m) ==
    /\ mark[m] = "sent"
    /\ viewedAt' = clock
    /\ mark' = [mark EXCEPT ![m] = "done"]
    /\ UNCHANGED <<clock, open, updates, pageVars, bells, faults, disturbed>>

MarkFails(m) ==
    /\ mark[m] \in {"sent", "done"}
    /\ faults < MaxFaults
    /\ faults' = faults + 1
    /\ mark' = [mark EXCEPT ![m] = "failed"]
    /\ disturbed' = TRUE
    /\ UNCHANGED <<clock, open, updates, viewedAt, pageVars, bells>>

-----------------------------------------------------------------------------
(* The page *)

\* Mutant: the effect runs on mount alone.
EffectOnMount(count) == UNCHANGED timer
\* The effect on unreadCount > 0: it starts the timer when that turns true and
\* clears it when it turns false.
Effect(count) ==
    timer' = IF (unread > 0) = (count > 0) THEN timer ELSE count > 0

Land ==
    /\ fetch.pc = "counted"
    /\ unread' = fetch.count
    /\ Effect(fetch.count)
    /\ fetch' = Idle
    /\ disturbed' = (disturbed /\ fetch.count # 0)
    /\ UNCHANGED <<clock, open, updates, viewedAt, mark, bells, faults>>

\* Every 30 seconds.
Poll ==
    /\ fetch = Idle
    /\ fetch' = [pc |-> "sent"]
    /\ UNCHANGED <<clock, open, updates, viewedAt, unread, timer, mark, bells, faults,
                   disturbed>>

Send == \E m \in Mark : /\ mark[m] = "idle"
                        /\ mark' = [mark EXCEPT ![m] = "sent"]

\* Three seconds with a badge are over.
TimerFires ==
    /\ timer
    /\ timer' = FALSE
    /\ Send
    /\ UNCHANGED <<clock, open, updates, viewedAt, fetch, unread, bells, faults, disturbed>>

\* The candidate opens the bell's list.
OpenBell ==
    /\ unread > 0
    /\ bells < MaxBells
    /\ bells' = bells + 1
    /\ Send
    /\ UNCHANGED <<clock, open, updates, viewedAt, pageVars, faults, disturbed>>

\* onSuccess invalidates the count: a new fetch instead of the one under way.
Marked(m) ==
    /\ mark[m] \in {"done", "failed"}
    /\ fetch' = IF mark[m] = "done" THEN [pc |-> "sent"] ELSE fetch
    /\ mark' = [mark EXCEPT ![m] = "idle"]
    /\ UNCHANGED <<clock, open, updates, viewedAt, unread, timer, bells, faults, disturbed>>

-----------------------------------------------------------------------------
Next ==
    \/ Begin \/ \E e \in open : Commit(e)
    \/ ReadAccount \/ Count \/ Land \/ Poll
    \/ TimerFires \/ OpenBell
    \/ \E m \in Mark : MarkViewed(m) \/ MarkFails(m) \/ Marked(m)

\* Requests are answered, the interval and the timer run; nobody has to open
\* the bell.
Fairness ==
    /\ WF_vars(ReadAccount) /\ WF_vars(Count) /\ WF_vars(Land) /\ WF_vars(Poll)
    /\ SF_vars(TimerFires)
    /\ \A m \in Mark : WF_vars(MarkViewed(m)) /\ WF_vars(Marked(m))

Spec == Init /\ [][Next]_vars /\ Fairness

-----------------------------------------------------------------------------
(* Properties *)

\* Having the page open clears the badge, without a click: the timer, the bell,
\* polls and counts that are older than the mark do not keep each other from
\* it.  Only an update that arrives while there is a badge, or a request that
\* fails, leaves it there, because the effect sees no change of unread > 0.
BadgeClears == []<>(unread = 0 \/ disturbed)
=============================================================================
