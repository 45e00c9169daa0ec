---------------------------- MODULE JobLifecycle ----------------------------
(***************************************************************************)
(* One job: its status, and the order of its stages while several people   *)
(* add, remove and reorder them and candidates are moved into them.        *)
(*                                                                         *)
(*   packages/core/src/modules/jobs/service.ts      the handlers           *)
(*   packages/core/src/modules/public/service.ts    apply's job lookup     *)
(*   server/src/modules/jobs/                       routes and validation  *)
(*   web/src/pages/JobDetail.tsx                    StageEditor's order    *)
(*                                                                         *)
(* A handler reads first and writes later, in a transaction of its own, so *)
(* a request is a process that remembers what it read.  What the database  *)
(* itself refuses - a second stage at one order, the removal of a stage    *)
(* that is referred to - it refuses at the write.  Reordering locks every  *)
(* row it names until it commits: its two passes are one step.             *)
(***************************************************************************)
EXTENDS Integers, Sequences, FiniteSets, Functions

CONSTANTS
    Request,   \* request slots
    Stage,     \* stage ids
    Template,  \* the stages every job begins with: DEFAULT_PIPELINE_TEMPLATE
    MaxOrder   \* bound: the largest order a caller of the API asks for

VARIABLES
    status,  \* jobs.status
    order,   \* job_stages.order of each stage; None: no such stage
    req,     \* the request in each slot
    tidy     \* history: no stage was removed, none added but by the web form

vars == <<status, order, req, tidy>>

None == -1
Existing == {s \in Stage : order[s] # None}
Count == Cardinality(Existing)
Lists(n) == [1..n -> Stage]

Idle == [pc |-> "idle"]

TypeOK ==
    /\ status \in {"DRAFT", "PUBLISHED", "CLOSED"}
    /\ order \in [Stage -> {None} \union 0..MaxOrder]
    /\ tidy \in BOOLEAN
    /\ \A q \in Request :
         \/ req[q].pc \in {"idle", "publish", "close"}
         \/ req[q].pc = "add" /\ req[q].at \in 0..MaxOrder /\ req[q].web \in BOOLEAN
         \/ req[q].pc = "remove" /\ req[q].stage \in Stage
         \/ req[q].pc = "reorder" /\ \E n \in 0..Cardinality(Stage) : req[q].list \in Lists(n)

\* createJob.
Init ==
    /\ status = "DRAFT"
    /\ order = [s \in Stage |->
         IF \E i \in DOMAIN Template : Template[i] = s
           THEN (CHOOSE i \in DOMAIN Template : Template[i] = s) - 1
           ELSE None]
    /\ req = [q \in Request |-> Idle]
    /\ tidy = TRUE

Begin(q, r) == req[q] = Idle /\ req' = [req EXCEPT ![q] = r]
End(q) == req' = [req EXCEPT ![q] = Idle]
At(q, pc) == req[q].pc = pc

-----------------------------------------------------------------------------
(* publishJob, closeJob *)

PublishCheck(q) ==
    /\ status = "DRAFT"
    /\ Begin(q, [pc |-> "publish"])
    /\ UNCHANGED <<status, order, tidy>>

\* Whatever the status has become.
PublishCommit(q) ==
    /\ At(q, "publish")
    /\ status' = "PUBLISHED"
    /\ End(q)
    /\ UNCHANGED <<order, tidy>>

CloseCheck(q) ==
    /\ status # "CLOSED"
    /\ Begin(q, [pc |-> "close"])
    /\ UNCHANGED <<status, order, tidy>>

CloseCommit(q) ==
    /\ At(q, "close")
    /\ status' = "CLOSED"
    /\ End(q)
    /\ UNCHANGED <<order, tidy>>

-----------------------------------------------------------------------------
(* addStage *)

Taken(k) == \E s \in Stage : order[s] = k

\* The order asked for: any, through the API; from the web form, the number of
\* stages on the page, which may have grown since the page was loaded.
AddCheck(q, k, web) ==
    /\ ~Taken(k)
    /\ web => k <= Count /\ k >= Len(Template)
    /\ Begin(q, [pc |-> "add", at |-> k, web |-> web])
    /\ UNCHANGED <<status, order, tidy>>

\* Mutant: no unique index.
AnyFree(k) == TRUE
Free(k) == ~Taken(k)

\* The insert, or the unique index that stops it.
AddCommit(q) ==
    /\ At(q, "add")
    /\ IF Free(req[q].at)
         THEN /\ \E s \in Stage \ Existing :
                   order' = [order EXCEPT ![s] = req[q].at]
              /\ tidy' = (tidy /\ req[q].web)
         ELSE UNCHANGED <<order, tidy>>
    /\ End(q)
    /\ UNCHANGED <<status>>

-----------------------------------------------------------------------------
(* removeStage *)

\* The stage is there, and no application or stage event refers to it
\* (Pipeline.tla follows those).
RemoveCheck(q, s) ==
    /\ s \in Existing
    /\ Begin(q, [pc |-> "remove", stage |-> s])
    /\ UNCHANGED <<status, order, tidy>>

RemoveCommit(q) ==
    /\ At(q, "remove")
    /\ req[q].stage \in Existing
    /\ order' = [order EXCEPT ![req[q].stage] = None]
    /\ tidy' = FALSE
    /\ End(q)
    /\ UNCHANGED status

-----------------------------------------------------------------------------
(* reorderStages *)

\* As many ids as there are stages, each the id of one: an id may come twice.
ReorderCheck(q, list) ==
    /\ Len(list) = Count
    /\ Range(list) \subseteq Existing
    /\ Begin(q, [pc |-> "reorder", list |-> list])
    /\ UNCHANGED <<status, order, tidy>>

\* The last place of s in the list, where both passes leave it.
Place(list, s) ==
    CHOOSE i \in DOMAIN list :
        /\ list[i] = s
        /\ \A j \in DOMAIN list : list[j] = s => j <= i

\* Mutant: the second pass meets no unique index.
RowsGone(list) == ~(Range(list) \subseteq Existing)

\* A row is gone, or a stage that is not in the list stands at an order that
\* the second pass assigns.
Clash(list) ==
    \/ ~(Range(list) \subseteq Existing)
    \/ \E s \in Existing \ Range(list) : order[s] < Len(list)

\* Mutant: there is no second pass.
FirstPassOnly(list, s) == -Place(list, s)
NewOrder(list, s) == Place(list, s) - 1

ReorderCommit(q) ==
    /\ At(q, "reorder")
    /\ LET list == req[q].list
       IN order' = IF Clash(list) THEN order
                   ELSE [s \in Stage |-> IF s \in Range(list)
                                         THEN NewOrder(list, s) ELSE order[s]]
    /\ End(q)
    /\ UNCHANGED <<status, tidy>>

-----------------------------------------------------------------------------
\* A refusal at the write - the row is gone or referred to - a database error,
\* or the end of the process.
Abandon(q) ==
    /\ req[q] # Idle
    /\ End(q)
    /\ UNCHANGED <<status, order, tidy>>

-----------------------------------------------------------------------------
Next == \E q \in Request :
    \/ PublishCheck(q) \/ PublishCommit(q) \/ CloseCheck(q) \/ CloseCommit(q)
    \/ \E k \in 0..MaxOrder, web \in BOOLEAN : AddCheck(q, k, web)
    \/ AddCommit(q)
    \/ \E s \in Stage : RemoveCheck(q, s)
    \/ RemoveCommit(q)
    \/ \E list \in Lists(Count) : ReorderCheck(q, list)
    \/ ReorderCommit(q) \/ Abandon(q)

Spec == Init /\ [][Next]_vars

-----------------------------------------------------------------------------
(* Properties *)

\* No two stages of a job have one order; and as long as stages are only added
\* by the web form and reordered, their orders are 0, 1, 2... without a gap,
\* whatever pages are stale and whatever overlaps - which is what makes the
\* order the form sends, the number of stages, a free one.
OrdersAreDense ==
    /\ \A s, t \in Existing : order[s] = order[t] => s = t
    /\ tidy => {order[s] : s \in Existing} = 0 .. Count - 1

\* On such a job a reordering that takes effect was given every listed stage
\* once: a list with one id twice and another missing passes the handler's
\* check, and fails in the second pass.
ReorderIsPermutation ==
    [][\A q \in Request :
         (At(q, "reorder") /\ req'[q] = Idle /\ order' # order /\ tidy)
            => IsInjective(req[q].list)]_vars
=============================================================================
