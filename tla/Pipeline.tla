------------------------------ MODULE Pipeline ------------------------------
(***************************************************************************)
(* The hiring pipeline of one job: its stages, the applications that move  *)
(* through them, the stage-event audit trail and the outbox rows that each *)
(* move leaves behind.                                                     *)
(*                                                                         *)
(*   packages/core/src/modules/applications/service.ts  createApplication, *)
(*                                                   transitionApplication *)
(*   packages/core/src/domain/pipeline/transitions.ts   validateTransition *)
(*   packages/core/src/modules/jobs/service.ts       addStage, updateStage,*)
(*                                                   removeStage           *)
(*                                                                         *)
(* A request handler runs in an API process.  Every prisma call outside a  *)
(* $transaction is a step of its own, so a handler's reads are stale by    *)
(* the time its transaction commits; a $transaction callback is one step.  *)
(* A request that is turned down at its first read changes nothing and is  *)
(* not a step.  An element of App is a (candidate, job) pair, the unique   *)
(* key of the applications table; an element of Stage is a stage id, never *)
(* used twice.  A stage's name, SLA and position (`order`) are left out:   *)
(* only the choice of the first stage and the backward flag read `order`,  *)
(* the first is a nondeterministic choice here, the second is not kept.    *)
(***************************************************************************)
EXTENDS Integers, Sequences, SequencesExt

CONSTANTS
    App,        \* (candidate, job) pairs
    Stage,      \* stage ids
    Req,        \* request handlers that run at the same time
    NoApp,      \* the application of a handler that has none
    NoStage,    \* SQL NULL in currentStageId and fromStageId
    InitStages, \* the stages the job was created with
    InitKind,   \* the kind of each of them
    NewKinds,   \* the kinds a recruiter gives to an added stage
    EditKinds,  \* the kinds a recruiter sets with updateStage
    MaxEvents   \* bound: stage events at which no further move is begun

Kinds == {"APPLIED", "SCREEN", "INTERVIEW", "OFFER", "HIRED", "REJECTED"}
TerminalKinds == {"HIRED", "REJECTED"}

ASSUME ConstantsAssumption ==
    /\ NoApp \notin App
    /\ NoStage \notin Stage
    /\ InitStages \subseteq Stage
    /\ InitKind \in [Stage -> Kinds]
    /\ NewKinds \subseteq Kinds
    /\ EditKinds \subseteq Kinds
    /\ MaxEvents \in Nat

VARIABLES
    live,    \* the rows of job_stages
    kind,    \* their kind; that of a removed stage keeps its last value
    used,    \* every stage id ever inserted
    cur,     \* applications.currentStageId; NoStage: there is no such row
    status,  \* applications.status
    trail,   \* stage_events of each application, in commit order
    outbox,  \* outbox_events of each application, in commit order
    req      \* what each request handler has read so far

vars == <<live, kind, used, cur, status, trail, outbox, req>>
stageVars == <<live, kind, used>>
appVars == <<cur, status, trail, outbox>>

StageOrNull == Stage \union {NoStage}
StageEvent == [from: StageOrNull, to: Stage]
KindOrNone == Kinds \union {"none"}
OutboxRow == [type: {"application.submitted", "application.stage_changed"},
              from: StageOrNull, to: StageOrNull, kind: KindOrNone]
Request == [pc: {"idle", "apply.check", "apply.commit", "move",
                 "remove.inUse", "remove.history", "remove.delete"},
            app: App \union {NoApp}, from: StageOrNull, to: StageOrNull,
            kind: KindOrNone]

Idle == [pc |-> "idle", app |-> NoApp, from |-> NoStage, to |-> NoStage,
         kind |-> "none"]

\* The payloads writeOutboxEvent is given.
Submitted == [type |-> "application.submitted",
              from |-> NoStage, to |-> NoStage, kind |-> "none"]
StageChanged(from, to, k) == [type |-> "application.stage_changed",
                              from |-> from, to |-> to, kind |-> k]

TypeOK ==
    /\ live \subseteq used
    /\ used \subseteq Stage
    /\ kind \in [Stage -> Kinds]
    /\ cur \in [App -> StageOrNull]
    /\ status \in [App -> {"ACTIVE"} \union TerminalKinds]
    /\ trail \in [App -> Seq(StageEvent)]
    /\ outbox \in [App -> Seq(OutboxRow)]
    /\ req \in [Req -> Request]

Init ==
    /\ live = InitStages
    /\ used = InitStages
    /\ kind = InitKind
    /\ cur = [a \in App |-> NoStage]
    /\ status = [a \in App |-> "ACTIVE"]
    /\ trail = [a \in App |-> <<>>]
    /\ outbox = [a \in App |-> <<>>]
    /\ req = [r \in Req |-> Idle]

Holding(pc, a, s) == [pc |-> pc, app |-> a, from |-> NoStage, to |-> s,
                      kind |-> "none"]

Finish(r) == req' = [req EXCEPT ![r] = Idle]

-----------------------------------------------------------------------------
(* createApplication *)

\* The stage of kind APPLIED, or else the first one; `order` is abstracted.
IsFirstStage(s) ==
    /\ s \in live
    /\ kind[s] = "APPLIED" \/ \A t \in live : kind[t] # "APPLIED"

\* assertSameOrg reads the job and its stages.
ApplyRead(r, a) ==
    /\ req[r].pc = "idle"
    /\ \E s \in live :
         /\ IsFirstStage(s)
         /\ req' = [req EXCEPT ![r] = Holding("apply.check", a, s)]
    /\ UNCHANGED <<stageVars, appVars>>

\* The lookup by (candidate, job): a row found is a 409.
ApplyCheck(r) ==
    /\ req[r].pc = "apply.check"
    /\ req' = [req EXCEPT ![r] =
                 IF cur[req[r].app] = NoStage
                   THEN Holding("apply.commit", req[r].app, req[r].to)
                   ELSE Idle]
    /\ UNCHANGED <<stageVars, appVars>>

\* The unique key and the foreign key of applications decide at the insert.
ApplyAccepted(r) ==
    /\ cur[req[r].app] = NoStage
    /\ req[r].to \in live

\* Application, founding StageEvent and OutboxEvent, in one transaction.
ApplyCommit(r) ==
    LET a == req[r].app
        s == req[r].to
    IN /\ req[r].pc = "apply.commit"
       /\ ApplyAccepted(r)
       /\ cur' = [cur EXCEPT ![a] = s]
       /\ trail' = [trail EXCEPT ![a] =
                      Append(@, [from |-> NoStage, to |-> s])]
       /\ outbox' = [outbox EXCEPT ![a] = Append(@, Submitted)]
       /\ Finish(r)
       /\ UNCHANGED <<stageVars, status>>

\* P2002 or P2003: the transaction rolls back.
ApplyRollback(r) ==
    /\ req[r].pc = "apply.commit"
    /\ ~ApplyAccepted(r)
    /\ Finish(r)
    /\ UNCHANGED <<stageVars, appVars>>

-----------------------------------------------------------------------------
(* transitionApplication *)

\* Mutant: the terminal-stage rule is dropped.
ValidTransitionReopens(from, to, hasReason) ==
    /\ to # from
    /\ kind[to] = "HIRED" => kind[from] = "OFFER"
    /\ kind[to] = "REJECTED" => hasReason

\* Mutant: the rule that HIRED follows OFFER is dropped.
ValidTransitionHires(from, to, hasReason) ==
    /\ kind[from] \notin TerminalKinds
    /\ to # from
    /\ kind[to] = "REJECTED" => hasReason

\* validateTransition; hasReason is reason?.trim().
ValidTransition(from, to, hasReason) ==
    /\ kind[from] \notin TerminalKinds
    /\ to # from
    /\ kind[to] = "HIRED" => kind[from] = "OFFER"
    /\ kind[to] = "REJECTED" => hasReason

\* findOwnedApplication, the lookup of the target among the job's stages, and
\* the guard, all on one snapshot.
MoveRead(r, a, t, hasReason) ==
    /\ req[r].pc = "idle"
    /\ cur[a] # NoStage
    /\ t \in live
    /\ ValidTransition(cur[a], t, hasReason)
    /\ Len(trail[a]) < MaxEvents
    /\ req' = [req EXCEPT ![r] = [pc |-> "move", app |-> a, from |-> cur[a],
                                  to |-> t, kind |-> kind[t]]]
    /\ UNCHANGED <<stageVars, appVars>>

\* Mutant: the update is not guarded by the stage that was read.
MoveAcceptedUnlocked(r) == req[r].to \in live

\* UPDATE ... WHERE currentStageId = <the stage read>, and the foreign key.
MoveAccepted(r) ==
    /\ cur[req[r].app] = req[r].from
    /\ req[r].to \in live

\* Mutant: the closing status is read again at the commit.
StatusFromNow(a, q) ==
    IF kind[q.to] \in TerminalKinds THEN kind[q.to] ELSE status[a]

\* Mutant: the status follows the kind into every stage.
StatusIsKind(a, q) == q.kind

StatusAfter(a, q) == IF q.kind \in TerminalKinds THEN q.kind ELSE status[a]

\* The guarded update, the StageEvent and the OutboxEvent, in one transaction.
MoveCommit(r) ==
    LET a == req[r].app
        q == req[r]
    IN /\ q.pc = "move"
       /\ MoveAccepted(r)
       /\ cur' = [cur EXCEPT ![a] = q.to]
       /\ status' = [status EXCEPT ![a] = StatusAfter(a, q)]
       /\ trail' = [trail EXCEPT ![a] =
                      Append(@, [from |-> q.from, to |-> q.to])]
       /\ outbox' = [outbox EXCEPT ![a] =
                       Append(@, StageChanged(q.from, q.to, q.kind))]
       /\ Finish(r)
       /\ UNCHANGED stageVars

\* Mutant: the outbox row is written outside the transaction.
MoveRollbackAnnounced(r) ==
    LET q == req[r]
    IN /\ q.pc = "move"
       /\ ~MoveAccepted(r)
       /\ outbox' = [outbox EXCEPT ![q.app] =
                       Append(@, StageChanged(q.from, q.to, q.kind))]
       /\ Finish(r)
       /\ UNCHANGED <<stageVars, cur, status, trail>>

\* No row matched (409), or the target stage is gone (P2003): rolled back.
MoveRollback(r) ==
    /\ req[r].pc = "move"
    /\ ~MoveAccepted(r)
    /\ Finish(r)
    /\ UNCHANGED <<stageVars, appVars>>

-----------------------------------------------------------------------------
(* The stages of the job *)

\* addStage: the insert; the clash on `order` is not modelled here.
AddStage(s, k) ==
    /\ s \notin used
    /\ live' = live \union {s}
    /\ used' = used \union {s}
    /\ kind' = [kind EXCEPT ![s] = k]
    /\ UNCHANGED <<appVars, req>>

\* updateStage: its read only refuses a missing stage, as its update does, so
\* one step stands for both.  Any stage may be given any kind, in use or not.
UpdateStage(s, k) ==
    /\ s \in live
    /\ kind' = [kind EXCEPT ![s] = k]
    /\ UNCHANGED <<live, used, appVars, req>>

\* removeStage: find the stage ...
RemoveFind(r, s) ==
    /\ req[r].pc = "idle"
    /\ s \in live
    /\ req' = [req EXCEPT ![r] = Holding("remove.inUse", NoApp, s)]
    /\ UNCHANGED <<stageVars, appVars>>

InUse(s) == \E a \in App : cur[a] = s
HasHistory(s) == \E a \in App : \E i \in DOMAIN trail[a] : trail[a][i].to = s

\* ... count the applications in it ...
RemoveCountInUse(r) ==
    /\ req[r].pc = "remove.inUse"
    /\ req' = [req EXCEPT ![r] =
                 IF InUse(req[r].to)
                   THEN Idle
                   ELSE Holding("remove.history", NoApp, req[r].to)]
    /\ UNCHANGED <<stageVars, appVars>>

\* ... count the stage events into it ...
RemoveCountHistory(r) ==
    /\ req[r].pc = "remove.history"
    /\ req' = [req EXCEPT ![r] =
                 IF HasHistory(req[r].to)
                   THEN Idle
                   ELSE Holding("remove.delete", NoApp, req[r].to)]
    /\ UNCHANGED <<stageVars, appVars>>

\* Mutant: the foreign keys do not restrict.
DeletableAnyway(s) == s \in live

\* ... and delete it.  The database refuses while currentStageId or toStageId
\* refers to it (RESTRICT) and clears fromStageId (SET NULL).
Deletable(s) == s \in live /\ ~InUse(s) /\ ~HasHistory(s)

ForgetFrom(es, s) ==
    [i \in DOMAIN es |-> IF es[i].from = s THEN [es[i] EXCEPT !.from = NoStage]
                                           ELSE es[i]]

RemoveDelete(r) ==
    LET s == req[r].to
    IN /\ req[r].pc = "remove.delete"
       /\ Deletable(s)
       /\ live' = live \ {s}
       /\ trail' = [a \in App |-> ForgetFrom(trail[a], s)]
       /\ Finish(r)
       /\ UNCHANGED <<kind, used, cur, status, outbox>>

RemoveRefused(r) ==
    /\ req[r].pc = "remove.delete"
    /\ ~Deletable(req[r].to)
    /\ Finish(r)
    /\ UNCHANGED <<stageVars, appVars>>

-----------------------------------------------------------------------------
Apply(r) == (\E a \in App : ApplyRead(r, a))
            \/ ApplyCheck(r) \/ ApplyCommit(r) \/ ApplyRollback(r)

Move(r) == (\E a \in App, t \in Stage, h \in BOOLEAN : MoveRead(r, a, t, h))
           \/ MoveCommit(r) \/ MoveRollback(r)

RemoveStage(r) == (\E s \in Stage : RemoveFind(r, s))
                  \/ RemoveCountInUse(r) \/ RemoveCountHistory(r)
                  \/ RemoveDelete(r) \/ RemoveRefused(r)

Next == \/ \E r \in Req : Apply(r) \/ Move(r) \/ RemoveStage(r)
        \/ \E s \in Stage, k \in NewKinds : AddStage(s, k)
        \/ \E s \in Stage, k \in EditKinds : UpdateStage(s, k)

Spec == Init /\ [][Next]_vars

-----------------------------------------------------------------------------
(* Properties *)

\* The audit trail of an application begins with its founding event, each
\* later event starts in the stage where the one before it ended, and the last
\* one ends in the stage the application is in: what transitionApplication's
\* optimistic lock is for, whatever stages two requests read before they
\* commit.  No fromStageId is ever cleared by the deletion of a stage.
Chained(a) ==
    /\ cur[a] = NoStage <=> trail[a] = <<>>
    /\ trail[a] # <<>> => /\ Head(trail[a]).from = NoStage
                          /\ Last(trail[a]).to = cur[a]
    /\ \A i \in 2..Len(trail[a]) : trail[a][i].from = trail[a][i-1].to

AuditTrail == \A a \in App : Chained(a)

\* Every stage an application is in, and every stage its audit trail names,
\* exists, although removeStage counts references long before it deletes and
\* apply and move choose their stage long before they commit.
Referring(a) ==
    /\ cur[a] # NoStage => cur[a] \in live
    /\ \A i \in DOMAIN trail[a] :
         /\ trail[a][i].to \in live
         /\ i > 1 => trail[a][i].from \in live

StageReferences == \A a \in App : Referring(a)

\* One outbox row per stage event, in the same order and about the same move:
\* a request that loses a race leaves neither, one that wins leaves both.
Announces(row, event, i) ==
    IF i = 1 THEN row = Submitted
             ELSE /\ row.type = "application.stage_changed"
                  /\ row.from = event.from
                  /\ row.to = event.to

Mirrored(a) ==
    /\ Len(outbox[a]) = Len(trail[a])
    /\ \A i \in DOMAIN trail[a] : Announces(outbox[a][i], trail[a][i], i)

OutboxMirrorsTrail == \A a \in App : Mirrored(a)

\* The outcome a recruiter sees (applications.status) is the one the last
\* outcome email announced (the kind in the outbox row decides on the email),
\* also when kinds are edited between a move's read and its commit.
OutcomeAt(a, i) == outbox[a][i].kind \in TerminalKinds

StatusAnnounced(a) ==
    IF status[a] = "ACTIVE"
      THEN \A i \in DOMAIN outbox[a] : ~OutcomeAt(a, i)
      ELSE \E i \in DOMAIN outbox[a] :
             /\ outbox[a][i].kind = status[a]
             /\ \A j \in DOMAIN outbox[a] : j > i => ~OutcomeAt(a, j)

StatusMatchesOutbox == \A a \in App : StatusAnnounced(a)

\* No candidate is told two outcomes.  Holds only while stage kinds are not
\* edited.
OneOutcome ==
    \A a \in App : \A i, j \in DOMAIN outbox[a] :
      OutcomeAt(a, i) /\ OutcomeAt(a, j) => i = j

\* "Nothing moves once an application is in a terminal stage": a closed
\* application stays where it is.
ClosedNeverMoves ==
    [][\A a \in App : status[a] # "ACTIVE" => cur'[a] = cur[a]]_vars

\* The handlers together implement the published policy, in which a move is
\* validated and made in one step (HiringPolicy).
Policy == INSTANCE HiringPolicy
ImplementsPolicy == Policy!Spec
=============================================================================
