--------------------------- MODULE NotificationJobs --------------------------
(***************************************************************************)
(* The jobs of the notifications queue, for one application and its        *)
(* interview: what the jobs tell people while the application is moved,    *)
(* the interview cancelled or scored, emails fail and workers crash.       *)
(*                                                                         *)
(*   packages/core/src/queues/processors/notifications.ts,                 *)
(*       interviewReminder.ts           what each job does                 *)
(*   packages/core/src/lib/notify.ts    the in-app notifications           *)
(*   packages/core/src/queues/definitions.ts   attempts                    *)
(*   packages/core/src/modules/interviews/service.ts                       *)
(*   packages/core/src/modules/applications/service.ts   which writes come *)
(*                                                       with a job        *)
(*   workers/src/                       the processes that run the jobs    *)
(*                                                                         *)
(* A job reads the database once, then tells one recipient after another;  *)
(* an error at any of them runs the whole job again.  The outbox, which    *)
(* brings a job to the queue some time after the write it belongs to, is   *)
(* Outbox.tla; here it creates each job once.                              *)
(***************************************************************************)
EXTENDS Naturals, Sequences, FiniteSets

CONSTANTS
    Job,          \* the jobs this instance follows: <<name, move>>
    Kind,         \* kinds of stages an application can be moved to; one stage
                  \* of each
    Panel,        \* the interview's panelists, in the order they are mailed
    Request,      \* slots for requests about the interview
    MaxMoves,     \* bound: moves of the application
    MaxAttempts,  \* attempts of a job: 5
    MaxStalls,    \* times BullMQ restarts a job whose worker was lost
    Workers       \* jobs run at once: replicas times concurrency

VARIABLES
    moves,      \* the kinds the application was moved to, in order
    interview,  \* interviews.status; "none": not scheduled
    cards,      \* authors of scorecards
    req,        \* requests between their check and their write
    job,        \* the jobs
    told,       \* history: whom each job has told
    notices,    \* history: how often each job wrote in-app notifications
    named       \* history: <<n, k>>: the job of move n put a notification
                \* into the app that says the application moved to k

vars == <<moves, interview, cards, req, job, told, notices, named>>

\* All jobs: a job's name and, for a move, which move.
Jobs == {<<"confirm", 0>>, <<"invite", 0>>, <<"remind", 0>>}
          \union ({"move"} \X (1..MaxMoves))

Author == {Panel[i] : i \in DOMAIN Panel}
Recipient == {"candidate", "recruiters"} \union Author
AnyStage == {"APPLIED"} \union Kind
State == {"absent", "waiting", "active", "completed", "failed"}

Idle == [pc |-> "idle"]

\* currentStage, as a job that reads now sees it.
Current == IF moves = <<>> THEN "APPLIED" ELSE moves[Len(moves)]

TypeOK ==
    /\ moves \in UNION {[1..n -> Kind] : n \in 0..MaxMoves}
    /\ interview \in {"none", "SCHEDULED", "CANCELLED", "COMPLETED"}
    /\ cards \subseteq Author
    /\ req \in [Request -> {Idle} \union [pc: {"cancel"}]
                             \union [pc: {"score"}, by: Author]]
    /\ job \in [Job -> [state: State, tries: 0..MaxAttempts,
                        stalls: 0..MaxStalls, pos: 0..(Len(Panel) + 2),
                        stage: AnyStage, due: BOOLEAN]]
    /\ told \in [Job -> SUBSET Recipient]
    /\ notices \in [Job -> 0..(MaxAttempts + MaxStalls)]
    /\ named \subseteq (1..MaxMoves) \X AnyStage

Init ==
    /\ moves = <<>>
    /\ interview = "none"
    /\ cards = {}
    /\ req = [q \in Request |-> Idle]
    /\ job = [j \in Job |-> [state |-> "absent", tries |-> 0, stalls |-> 0,
                             pos |-> 0, stage |-> "APPLIED", due |-> FALSE]]
    /\ told = [j \in Job |-> {}]
    /\ notices = [j \in Job |-> 0]
    /\ named = {}

domainVars == <<moves, interview, cards, req>>
toldVars == <<told, notices, named>>
jobVars == <<job, toldVars>>

-----------------------------------------------------------------------------
(* The application and its interview *)

\* transitionApplication commits; nothing moves out of a terminal stage.
Move(k) ==
    /\ Len(moves) < MaxMoves
    /\ Current \notin {k, "HIRED", "REJECTED"}
    /\ moves' = Append(moves, k)
    /\ UNCHANGED <<interview, cards, req, jobVars>>

\* scheduleInterview.
Schedule ==
    /\ interview = "none"
    /\ interview' = "SCHEDULED"
    /\ UNCHANGED <<moves, cards, req, jobVars>>

\* cancelInterview: findOwnedInterview, then an update that asks nothing.
CancelCheck(q) ==
    /\ req[q] = Idle
    /\ interview = "SCHEDULED"
    /\ req' = [req EXCEPT ![q] = [pc |-> "cancel"]]
    /\ UNCHANGED <<moves, interview, cards, jobVars>>

CancelCommit(q) ==
    /\ req[q].pc = "cancel"
    /\ interview' = "CANCELLED"
    /\ req' = [req EXCEPT ![q] = Idle]
    /\ UNCHANGED <<moves, cards, jobVars>>

\* submitScorecard, whatever the interview's status; a manager, who may submit
\* one as well, is to the model one more panelist.
ScoreCheck(q, a) ==
    /\ req[q] = Idle
    /\ interview # "none"
    /\ a \notin cards
    /\ req' = [req EXCEPT ![q] = [pc |-> "score", by |-> a]]
    /\ UNCHANGED <<moves, interview, cards, jobVars>>

\* Mutant: the process may end between the scorecard and the status.
CardThenStatus(q) ==
    /\ req[q].pc = "score"
    /\ cards' = cards \union {req[q].by}
    /\ interview' \in {interview, "COMPLETED"}
    /\ req' = [req EXCEPT ![q] = Idle]
    /\ UNCHANGED <<moves, jobVars>>

\* The scorecard and the status, or the unique index that stops both.
ScoreCommit(q) ==
    /\ req[q].pc = "score"
    /\ IF req[q].by \in cards
         THEN UNCHANGED <<interview, cards>>
         ELSE /\ cards' = cards \union {req[q].by}
              /\ interview' = "COMPLETED"
    /\ req' = [req EXCEPT ![q] = Idle]
    /\ UNCHANGED <<moves, jobVars>>

-----------------------------------------------------------------------------
(* BullMQ *)

\* The write that a job belongs to has committed.
Owed(j) ==
    CASE j[1] = "confirm" -> TRUE
      [] j[1] = "move" -> j[2] <= Len(moves)
      [] OTHER -> interview # "none"

\* The outbox has the job created, in whatever order.
Enqueue(j) ==
    /\ Owed(j)
    /\ job[j].state = "absent"
    /\ job' = [job EXCEPT ![j].state = "waiting"]
    /\ UNCHANGED <<domainVars, toldVars>>

\* Mutant: the recruiters are notified before the candidate is mailed.
RecruitersFirst(j) ==
    CASE j[1] = "move" ->
           IF moves[j[2]] \in {"HIRED", "REJECTED"}
             THEN <<"recruiters", "candidate">> ELSE <<"recruiters">>
      [] j[1] = "invite" -> <<"candidate">> \o Panel
      [] j[1] = "remind" -> <<"candidate">>
      [] OTHER -> <<"recruiters", "candidate">>

\* Whom the job tells, in order, given what it read when it started.
Tells(j) ==
    CASE j[1] = "confirm" -> <<"candidate", "recruiters">>
      [] j[1] = "move" ->
           IF moves[j[2]] \in {"HIRED", "REJECTED"}
             THEN <<"candidate", "recruiters">> ELSE <<"recruiters">>
      [] j[1] = "invite" -> <<"candidate">> \o Panel
      [] j[1] = "remind" ->
           IF job[j].due THEN <<"candidate">> ELSE <<>>

\* Mutant: the read goes to a replica that is one move behind.
ReplicaStage == IF Len(moves) < 2 THEN "APPLIED" ELSE moves[Len(moves) - 1]
StageRead == Current
ReminderDue == interview = "SCHEDULED"

\* A worker takes the job, from the start; its read comes first.
Start(j) ==
    /\ job[j].state = "waiting"
    /\ Cardinality({i \in Job : job[i].state = "active"}) < Workers
    /\ job' = [job EXCEPT ![j].state = "active", ![j].pos = 0,
                          ![j].stage = StageRead,
                          ![j].due = ReminderDue]
    /\ UNCHANGED <<domainVars, toldVars>>

\* The next recipient: an email, or the recruiters' notifications in one
\* insert, followed by pushes that never throw.
Tell(j) ==
    /\ job[j].state = "active"
    /\ job[j].pos < Len(Tells(j))
    /\ LET r == Tells(j)[job[j].pos + 1]
       IN /\ told' = [told EXCEPT ![j] = @ \union {r}]
          /\ notices' = [notices EXCEPT ![j] = IF r = "recruiters" THEN @ + 1 ELSE @]
          /\ named' = IF r = "recruiters" /\ j[1] = "move"
                        THEN named \union {<<j[2], job[j].stage>>} ELSE named
    /\ job' = [job EXCEPT ![j].pos = @ + 1]
    /\ UNCHANGED domainVars

\* Mutant: the mailer swallows its error.
ErrorSwallowed(j) == [job EXCEPT ![j].pos = @ + 1]
\* The error is rethrown: another attempt after a backoff, while there is one.
ErrorRethrown(j) ==
    [job EXCEPT ![j].tries = @ + 1, ![j].pos = 0, ![j].stage = "APPLIED",
                ![j].state = IF job[j].tries + 1 = MaxAttempts
                               THEN "failed" ELSE "waiting"]

\* The next email, or the insert, fails.
Throw(j) ==
    /\ job[j].state = "active"
    /\ job[j].pos < Len(Tells(j))
    /\ job[j].tries < MaxAttempts
    /\ job' = ErrorRethrown(j)
    /\ UNCHANGED <<domainVars, toldVars>>

Complete(j) ==
    /\ job[j].state = "active"
    /\ job[j].pos = Len(Tells(j))
    /\ job' = [job EXCEPT ![j].state = "completed", ![j].pos = 0,
                          ![j].stage = "APPLIED"]
    /\ UNCHANGED <<domainVars, toldVars>>

\* Mutant: a job is restarted however often it lost its worker.
RestartedAgain(j) ==
    [job EXCEPT ![j].pos = 0, ![j].stage = "APPLIED", ![j].state = "waiting",
                ![j].stalls = @ + 1]
Restarted(j) ==
    [job EXCEPT ![j].pos = 0, ![j].stage = "APPLIED",
       ![j].state = IF job[j].stalls = MaxStalls THEN "failed" ELSE "waiting",
       ![j].stalls = IF @ = MaxStalls THEN @ ELSE @ + 1]

\* The worker is lost, before the job or after all it had to tell.
Stall(j) ==
    /\ job[j].state = "active"
    /\ job' = Restarted(j)
    /\ UNCHANGED <<domainVars, toldVars>>

-----------------------------------------------------------------------------
Next ==
    \/ \E k \in Kind : Move(k)
    \/ Schedule
    \/ \E q \in Request :
         \/ CancelCheck(q) \/ CancelCommit(q)
         \/ \E a \in Author : ScoreCheck(q, a)
         \/ ScoreCommit(q)
    \/ \E j \in Job : \/ Enqueue(j) \/ Start(j) \/ Tell(j) \/ Throw(j)
                      \/ Complete(j) \/ Stall(j)

Spec == Init /\ [][Next]_vars

-----------------------------------------------------------------------------
(* Properties *)

\* A job that ended well told everyone it had to, at least once, whatever
\* attempts failed midway and workers were lost: the candidate and the whole
\* panel are invited, and the recruiters have their notification.
DoneMeansTold ==
    \A j \in Job : job[j].state = "completed" =>
        \A i \in DOMAIN Tells(j) : Tells(j)[i] \in told[j]

\* Failed emails repeat emails and never in-app notifications: what the
\* recruiters see twice, they see because a worker was lost.
NoticeOncePerStall ==
    \A j \in Job : notices[j] <= 1 + job[j].stalls

\* The notification of a move names the stage the application is in when the
\* job runs, which may be a later one.  It never names an earlier one than that
\* of its move: once the job of the last move is done, some notification has
\* named the stage the application is in.
LastStageIsNamed ==
    LET n == Len(moves)
    IN <<"move", n>> \in Job /\ job[<<"move", n>>].state = "completed"
         => <<n, Current>> \in named

\* An interview is COMPLETED only with a scorecard, and one with a scorecard is
\* never SCHEDULED again or still, so that nobody is reminded of it: whatever
\* second scorecards are refused and whatever cancellations overlap.
CompletedMeansScored ==
    /\ interview = "COMPLETED" => cards # {}
    /\ cards # {} => interview \in {"COMPLETED", "CANCELLED"}
=============================================================================
