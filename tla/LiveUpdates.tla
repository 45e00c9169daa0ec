----------------------------- MODULE LiveUpdates -----------------------------
(***************************************************************************)
(* What the pages of the web client show, and when: each query's cached    *)
(* result against the data behind it, as people, workers and the page      *)
(* itself change that data.                                                *)
(*                                                                         *)
(*   web/src/pages/, web/src/components/Layout.tsx   queries, polls, writes*)
(*   web/src/hooks/useRealtime.ts                    pushes to the client  *)
(*   packages/core/src/lib/pubsub.ts, notify.ts      where they come from  *)
(*   server/src/modules/realtime/stream.ts                                 *)
(*                                                                         *)
(* Data is a version number per query; a write is a new one.  A behaviour  *)
(* follows one view, a part of a page whose queries nothing else on the    *)
(* page touches.  TanStack Query, the cache, is modelled from how the      *)
(* pages use it.                                                           *)
(***************************************************************************)
EXTENDS Naturals, FiniteSets

CONSTANTS
    MaxVersion,   \* bound: versions of the data behind a query
    MaxFaults     \* bound: fetches and writes that fail

VARIABLES
    view,      \* the view on screen
    server,    \* per query, the version of its data
    parsing,   \* versions of a candidate whose newest resume is not parsed yet
    cache,     \* per query, what the client has of it
    own,       \* the write this page has in flight
    pushes,    \* events published and not yet at the client
    faults,    \* fetches and writes that failed
    due        \* history: the versions this page's own writes made, once it
               \* was told that they succeeded

vars == <<view, server, parsing, cache, own, pushes, faults, due>>

-----------------------------------------------------------------------------
(* The catalogue *)

\* A write: the view it is made from, the queries whose data it changes, the
\* ones the page then invalidates, and the events the server publishes.
Write(where, changes, invalidates, events) ==
    [where |-> where, changes |-> changes, invalidates |-> invalidates,
     events |-> events]

\* JobDetail, stages: addStage and updateStage.
editStages == Write("Stages", {"job"}, {"job"}, {})
\* Jobs: createJob and publishJob.
writeJob == Write("Jobs", {"jobs"}, {"jobs"}, {})
\* CandidateDetail: upload a resume, whose parsing then begins.
upload == Write("Candidate", {"candidate"}, {"candidate"}, {})
\* CandidateDetail: schedule an interview, which other views show.
schedule == Write("Candidate", {"interviews"}, {"interviews"},
                  {"interview.scheduled"})
\* Interviews: cancel one, or submit a scorecard, after which the form closes
\* and only the push tells the list.
cancel == Write("Interviews", {"interviews"}, {"interviews"},
                {"interview.updated"})
score == Write("Interviews", {"interviews"}, {}, {"interview.updated"})
\* Duplicates: confirm, dismiss and merge.
review == Write("Duplicates", {"duplicates", "candidate"}, {"duplicates"}, {})
\* The list and the bell, two keys with one prefix.
notificationKeys == {"notifications.all", "notifications.unread"}
\* Mutant: the bell's key instead of the prefix.
BellOnly == {"notifications.unread"}
readInvalidates == notificationKeys
\* NotificationsPage: mark as read, remove.
readNotification == Write("Notifications", notificationKeys, readInvalidates, {})
\* CandidateDashboard: apply for an open role.
apply == Write("Portal", {"portal.applications", "portal.roles", "applications"},
               {"portal.applications", "portal.roles"}, {"application.created"})

\* Writes that come from elsewhere: another view, or a worker's notification.
transition == Write("Board", {"applications", "candidate", "portal.applications"},
                    {"applications"}, {"application.stage_changed"})
notify == Write("worker", notificationKeys, {}, {"notification.created"})

Writes == {editStages, writeJob, upload, schedule, cancel, score, review,
           readNotification, apply, transition, notify}

\* What each view queries; the bell is in the layout of every staff page.
Queries ==
    [Stages |-> {"job"}, Jobs |-> {"jobs"}, Candidate |-> {"candidate"},
     Interviews |-> {"interviews"}, Duplicates |-> {"duplicates"},
     Bell |-> {"notifications.unread"}, Notifications |-> notificationKeys,
     Portal |-> {"portal.applications", "portal.roles"}]
View == DOMAIN Queries
Key == UNION {Queries[v] : v \in View}

\* Mutant: the interviews are left to the pushes.
PushOnly == {"notifications.unread", "notifications.all",
             "portal.applications", "portal.roles"}
\* refetchInterval: every 30 s or two minutes, and for a candidate every three
\* seconds as long as the cached resume is not parsed.
RefetchInterval ==
    {"interviews", "notifications.unread", "notifications.all",
     "portal.applications", "portal.roles"}

\* useRealtime: the queries that an event invalidates.
Invalidated ==
    [e \in {"application.created", "application.stage_changed",
            "interview.scheduled", "interview.updated",
            "notification.created"} |->
       CASE e \in {"interview.scheduled", "interview.updated"} -> {"interviews"}
         [] e = "notification.created" -> notificationKeys
         [] OTHER -> {"applications"}]
Event == DOMAIN Invalidated

-----------------------------------------------------------------------------
NotSent == [pc |-> "idle"]

\* Version 0 in the cache: no data yet.
TypeOK ==
    /\ view \in View
    /\ server \in [Key -> 1..MaxVersion]
    /\ parsing \subseteq 1..MaxVersion
    /\ cache \in [Key -> [version: 0..MaxVersion, invalid: BOOLEAN,
                          fetch: {"none", "sent", "read"},
                          read: 0..MaxVersion]]
    /\ own \in {NotSent} \union [pc: {"sent", "failed"}, of: Writes]
                  \union [pc: {"done"}, of: Writes, made: [Key -> 1..MaxVersion]]
    /\ pushes \subseteq Event
    /\ faults \in 0..MaxFaults
    /\ due \in [Key -> 0..MaxVersion]

Mounted == Queries[view]
Polled(k) == k \in RefetchInterval \/ (k = "candidate" /\ cache[k].version \in parsing)

\* The view is mounted, and its first fetches are sent.
Init ==
    /\ view \in View
    /\ server = [k \in Key |-> 1]
    /\ parsing \in {{}, {1}}
    /\ cache = [k \in Key |-> [version |-> 0, invalid |-> FALSE, read |-> 0,
                  fetch |-> IF k \in Mounted THEN "sent" ELSE "none"]]
    /\ own = NotSent
    /\ pushes = {}
    /\ faults = 0
    /\ due = [k \in Key |-> 0]

-----------------------------------------------------------------------------
(* The cache *)

\* invalidateQueries: a mounted query that has data is fetched anew, whatever
\* fetch was under way; one still without data goes on with its first fetch.
Invalidate(ks) ==
    cache' = [k \in Key |->
        IF k \in ks \cap Mounted /\ cache[k].version # 0
          THEN [cache[k] EXCEPT !.invalid = TRUE, !.fetch = "sent", !.read = 0]
          ELSE cache[k]]

\* The server reads; the answer arrives; or the fetch and its retry fail.
Read(k) ==
    /\ cache[k].fetch = "sent"
    /\ cache' = [cache EXCEPT ![k].fetch = "read", ![k].read = server[k]]
    /\ UNCHANGED <<view, server, parsing, own, pushes, faults, due>>

Land(k) ==
    /\ cache[k].fetch = "read"
    /\ cache' = [cache EXCEPT ![k] = [version |-> cache[k].read, invalid |-> FALSE,
                                      fetch |-> "none", read |-> 0]]
    /\ UNCHANGED <<view, server, parsing, own, pushes, faults, due>>

FetchFails(k) ==
    /\ cache[k].fetch # "none"
    /\ faults < MaxFaults
    /\ faults' = faults + 1
    /\ cache' = [cache EXCEPT ![k].fetch = "none", ![k].read = 0]
    /\ UNCHANGED <<view, server, parsing, own, pushes, due>>

\* The interval, or for every query a new mount or a focused window, fetches
\* unless a fetch is under way.
Fetch(k) ==
    /\ k \in Mounted
    /\ cache[k].fetch = "none"
    /\ cache' = [cache EXCEPT ![k].fetch = "sent"]
    /\ UNCHANGED <<view, server, parsing, own, pushes, faults, due>>

Poll(k) == Polled(k) /\ Fetch(k)

-----------------------------------------------------------------------------
(* The data *)

\* What a write does to the data and to the events on their way.  A candidate's
\* last version is kept for the end of a parse.
Room(k) == server[k] + (IF k = "candidate" THEN 1 ELSE 0) < MaxVersion

Change(w) ==
    /\ \A k \in w.changes \cap Mounted : Room(k)
    /\ server' = [k \in Key |->
                    server[k] + (IF k \in w.changes \cap Mounted THEN 1 ELSE 0)]
    /\ parsing' = IF "candidate" \in w.changes \cap Mounted
                       /\ (w = upload \/ server["candidate"] \in parsing)
                    THEN parsing \union {server'["candidate"]} ELSE parsing
    /\ pushes' = pushes \union {e \in w.events : Invalidated[e] \cap Mounted # {}}

\* Another person, or a worker.
ChangeElsewhere(w) ==
    /\ w.changes \cap Mounted # {}
    /\ Change(w)
    /\ UNCHANGED <<view, cache, own, faults, due>>

\* processResumeParse ends: PARSED or FAILED.  Nothing is published.
ParseEnds ==
    /\ view = "Candidate"
    /\ server["candidate"] \in parsing
    /\ server["candidate"] < MaxVersion
    /\ server' = [server EXCEPT !["candidate"] = @ + 1]
    /\ UNCHANGED <<view, parsing, cache, own, pushes, faults, due>>

\* An event arrives at the client, or never: nothing was listening, the stream
\* was being reopened, or Redis failed.
Deliver(e) ==
    /\ e \in pushes
    /\ pushes' = pushes \ {e}
    /\ Invalidate(Invalidated[e])
    /\ UNCHANGED <<view, server, parsing, own, faults, due>>

Lose(e) ==
    /\ e \in pushes
    /\ pushes' = pushes \ {e}
    /\ UNCHANGED <<view, server, parsing, cache, own, faults, due>>

-----------------------------------------------------------------------------
(* The page's own writes *)

\* A button or a form of the view; most of them are part of the loaded list.
Submit(w) ==
    /\ own = NotSent
    /\ w.where = view
    /\ w # writeJob => \E k \in Mounted : cache[k].version # 0
    /\ own' = [pc |-> "sent", of |-> w]
    /\ UNCHANGED <<view, server, parsing, cache, pushes, faults, due>>

Served ==
    /\ own.pc = "sent"
    /\ Change(own.of)
    /\ own' = [pc |-> "done", of |-> own.of, made |-> server']
    /\ UNCHANGED <<view, cache, faults, due>>

\* Refused, or the answer never came.
WriteFails ==
    /\ own.pc \in {"sent", "done"}
    /\ faults < MaxFaults
    /\ faults' = faults + 1
    /\ own' = [pc |-> "failed", of |-> own.of]
    /\ UNCHANGED <<view, server, parsing, cache, pushes, due>>

\* onSuccess invalidates; due tells for which queries that had an effect.
onSuccess ==
    /\ own.pc = "done"
    /\ Invalidate(own.of.invalidates)
    /\ due' = [k \in Key |->
                 IF k \in own.of.changes \cap Mounted /\ own.of # score
                      /\ cache[k].version # 0
                   THEN own.made[k] ELSE due[k]]
    /\ own' = NotSent
    /\ UNCHANGED <<view, server, parsing, pushes, faults>>

onError ==
    /\ own.pc = "failed"
    /\ own' = NotSent
    /\ UNCHANGED <<view, server, parsing, cache, pushes, faults, due>>

-----------------------------------------------------------------------------
Next ==
    \/ \E k \in Key : Read(k) \/ Land(k) \/ FetchFails(k) \/ Fetch(k)
    \/ \E w \in Writes : ChangeElsewhere(w) \/ Submit(w)
    \/ ParseEnds \/ Served \/ WriteFails \/ onSuccess \/ onError
    \/ \E e \in Event : Deliver(e) \/ Lose(e)

\* The interval ticks, the server answers, and a parse ends.
Fairness ==
    /\ \A k \in Key : WF_vars(Read(k)) /\ WF_vars(Land(k)) /\ WF_vars(Poll(k))
    /\ WF_vars(ParseEnds)

Spec == Init /\ [][Next]_vars /\ Fairness

-----------------------------------------------------------------------------
(* Properties *)

\* What a page's own write changed is on its way to the page from the moment
\* the page is told of the success, whatever pushes, polls and older answers
\* come in between: the old data stays only until a fetch that is under way
\* ends, or when that fetch fails.
OwnWritesShown ==
    \A k \in Mounted : cache[k].version < due[k] =>
        cache[k].invalid /\ (cache[k].fetch # "none" \/ faults > 0)

\* Every query that pushes refresh, and the whole portal, which has none,
\* catches up with its data though every push is lost; and a page that shows a
\* resume being parsed does not show that for ever.
CatchesUp(k) ==
    []<>(cache[k].version = server[k] \/ k \notin Mounted)
PolledCatchUp ==
    /\ \A k \in {"interviews", "portal.applications", "portal.roles"}
                \union notificationKeys : CatchesUp(k)
    /\ []<>(view = "Candidate" => cache["candidate"].version \notin parsing)
=============================================================================
