------------------------------- MODULE Outbox -------------------------------
(***************************************************************************)
(* The transactional outbox: rows written with a domain change, the fast   *)
(* path that dispatches each right after its commit, the relay processes   *)
(* that dispatch what the fast path missed, and the job ids Redis holds.   *)
(*                                                                         *)
(*   packages/core/src/events/outbox.ts    writeOutboxEvent                *)
(*   packages/core/src/events/relay.ts     dispatch, relayOnce,            *)
(*                                         dispatchNowBestEffort, startRelay*)
(*   packages/core/src/queues/definitions.ts  what Redis retains           *)
(*                                                                         *)
(* Every database statement and every queue.add() is a step; the claiming  *)
(* transaction is one step.  Time is abstracted: due[r] says that          *)
(* availableAt has passed, and a lease or a backoff may run out at any     *)
(* moment (with LeaseCoversDispatch, not during the first dispatch after a *)
(* claim).  A row is a natural number, its place in createdAt order, which *)
(* need not be commit order.                                               *)
(***************************************************************************)
EXTENDS Naturals, FiniteSets

CONSTANTS
    Row,                  \* outbox rows, by createdAt
    Legs,                 \* queue.add() calls in dispatch(): 2 for an
                          \* interview.scheduled row, 1 for the others
    Relay,                \* relay processes
    BatchSize,            \* BATCH_SIZE
    MaxAttempts,          \* MAX_ATTEMPTS
    LeaseCoversDispatch,  \* a lease outlasts any one dispatch
    EvictsJobs,           \* so many jobs run that Redis drops finished ones
    MaxCrashes            \* bound: ticks abandoned midway

ASSUME ConstantsAssumption ==
    /\ Row \subseteq Nat
    /\ Legs \in [Row -> 1..2]
    /\ BatchSize \in Nat \ {0}
    /\ MaxAttempts \in Nat \ {0}
    /\ LeaseCoversDispatch \in BOOLEAN
    /\ EvictsJobs \in BOOLEAN
    /\ MaxCrashes \in Nat

VARIABLES
    status,   \* outbox_events.status; "absent": not committed
    due,      \* availableAt <= now
    attempts, \* outbox_events.attempts
    fast,     \* the fast path of each row: is it running, calls made
    todo,     \* rows claimed by each relay and not yet handled
    snap,     \* attempts as each relay read them when it claimed
    sent,     \* calls made for the row each relay is at
    failing,  \* that row's dispatch threw; its failure is to be recorded
    fresh,    \* the relay is at the first row of its claim
    crashes,  \* ticks abandoned so far
    redis,    \* job ids held by Redis
    added,    \* how often a job was created, up to 2
    fails     \* history: failures recorded per row, up to MaxAttempts

rowVars == <<status, due, attempts>>
relayVars == <<todo, snap, sent, failing, fresh, crashes>>
queueVars == <<redis, added>>
vars == <<rowVars, fast, relayVars, queueVars, fails>>

Job == {<<r, n>> : r \in Row, n \in 1..2}

TypeOK ==
    /\ status \in [Row -> {"absent", "PENDING", "PROCESSING", "SENT", "FAILED"}]
    /\ due \in [Row -> BOOLEAN]
    /\ attempts \in [Row -> 0..MaxAttempts]
    /\ fast \in [Row -> [on: BOOLEAN, sent: 0..2]]
    /\ todo \in [Relay -> SUBSET Row]
    /\ snap \in [Relay -> [Row -> 0..MaxAttempts]]
    /\ sent \in [Relay -> 0..2]
    /\ failing \in [Relay -> BOOLEAN]
    /\ fresh \in [Relay -> BOOLEAN]
    /\ crashes \in 0..MaxCrashes
    /\ redis \subseteq Job
    /\ added \in [Job -> 0..2]
    /\ fails \in [Row -> 0..MaxAttempts]

Off == [on |-> FALSE, sent |-> 0]

Init ==
    /\ status = [r \in Row |-> "absent"]
    /\ due = [r \in Row |-> FALSE]
    /\ attempts = [r \in Row |-> 0]
    /\ fast = [r \in Row |-> Off]
    /\ todo = [p \in Relay |-> {}]
    /\ snap = [p \in Relay |-> [r \in Row |-> 0]]
    /\ sent = [p \in Relay |-> 0]
    /\ failing = [p \in Relay |-> FALSE]
    /\ fresh = [p \in Relay |-> FALSE]
    /\ crashes = 0
    /\ redis = {}
    /\ added = [j \in Job |-> 0]
    /\ fails = [r \in Row |-> 0]

-----------------------------------------------------------------------------
(* BullMQ *)

\* queue.add with a job id: a no-op while Redis still holds that id.
Add(j) ==
    /\ redis' = redis \union {j}
    /\ added' = IF j \in redis \/ added[j] = 2
                  THEN added ELSE [added EXCEPT ![j] = @ + 1]

\* A job has run, and removeOnComplete or removeOnFail evicts it once 500 or
\* 1000 later ones have ended.
Evict(j) ==
    /\ EvictsJobs
    /\ j \in redis
    /\ redis' = redis \ {j}
    /\ UNCHANGED <<rowVars, fast, relayVars, added, fails>>

-----------------------------------------------------------------------------
(* The write path and the fast path, in an API process *)

\* A transaction that wrote the row commits; dispatchNowBestEffort begins.
Commit(r) ==
    /\ status[r] = "absent"
    /\ status' = [status EXCEPT ![r] = "PENDING"]
    /\ due' = [due EXCEPT ![r] = TRUE]
    /\ fast' = [fast EXCEPT ![r] = [on |-> TRUE, sent |-> 0]]
    /\ UNCHANGED <<attempts, relayVars, queueVars, fails>>

\* dispatch() has returned: every call for the row was made.
\* Mutant: it returns after the first call.
DispatchedEarly(r, calls) == calls >= 1
Dispatched(r, calls) == calls = Legs[r]

FastAdd(r) ==
    /\ fast[r].on
    /\ fast[r].sent < Legs[r]
    /\ Add(<<r, fast[r].sent + 1>>)
    /\ fast' = [fast EXCEPT ![r].sent = @ + 1]
    /\ UNCHANGED <<rowVars, relayVars, fails>>

\* Whatever the row's status has become.
FastMark(r) ==
    /\ fast[r].on
    /\ Dispatched(r, fast[r].sent)
    /\ status' = [status EXCEPT ![r] = "SENT"]
    /\ fast' = [fast EXCEPT ![r] = Off]
    /\ UNCHANGED <<due, attempts, relayVars, queueVars, fails>>

\* An error, or the end of the process: no bookkeeping.
FastGiveUp(r) ==
    /\ fast[r].on
    /\ fast' = [fast EXCEPT ![r] = Off]
    /\ UNCHANGED <<rowVars, relayVars, queueVars, fails>>

-----------------------------------------------------------------------------
(* The relay *)

\* Mutant: a row whose lease ran out is not claimed again.
EligiblePending(r) == due[r] /\ status[r] = "PENDING"
Eligible(r) == due[r] /\ status[r] \in {"PENDING", "PROCESSING"}

\* The oldest eligible rows, as many as the batch holds.
IsBatch(S) ==
    LET eligible == {r \in Row : Eligible(r)}
    IN /\ S \subseteq eligible
       /\ \A r \in S, q \in eligible \ S : r < q
       /\ Cardinality(S) <= BatchSize
       /\ Cardinality(S) < BatchSize => S = eligible

\* The claiming transaction of relayOnce, in a relay with no tick in flight.
Claim(p) ==
    /\ todo[p] = {}
    /\ \E S \in SUBSET Row :
         /\ S # {}
         /\ IsBatch(S)
         /\ status' = [r \in Row |-> IF r \in S THEN "PROCESSING" ELSE status[r]]
         /\ due' = [r \in Row |-> due[r] /\ r \notin S]
         /\ todo' = [todo EXCEPT ![p] = S]
         /\ snap' = [snap EXCEPT ![p] =
                       [r \in Row |-> IF r \in S THEN attempts[r] ELSE 0]]
    /\ sent' = [sent EXCEPT ![p] = 0]
    /\ failing' = [failing EXCEPT ![p] = FALSE]
    /\ fresh' = [fresh EXCEPT ![p] = TRUE]
    /\ UNCHANGED <<attempts, fast, crashes, queueVars, fails>>

\* The dispatch loop is at row h.
At(p, h) == h \in todo[p] /\ \A q \in todo[p] : h <= q

\* The loop goes on to the next row.
Done(p, h) ==
    /\ todo' = [todo EXCEPT ![p] = @ \ {h}]
    /\ snap' = [snap EXCEPT ![p][h] = 0]
    /\ sent' = [sent EXCEPT ![p] = 0]
    /\ failing' = [failing EXCEPT ![p] = FALSE]
    /\ fresh' = [fresh EXCEPT ![p] = FALSE]
    /\ UNCHANGED crashes

RelayAdd(p, h) ==
    /\ At(p, h) /\ ~failing[p]
    /\ sent[p] < Legs[h]
    /\ Add(<<h, sent[p] + 1>>)
    /\ sent' = [sent EXCEPT ![p] = @ + 1]
    /\ UNCHANGED <<rowVars, fast, todo, snap, failing, fresh, crashes, fails>>

\* Whatever the row's status has become.
RelayMark(p, h) ==
    /\ At(p, h) /\ ~failing[p]
    /\ Dispatched(h, sent[p])
    /\ status' = [status EXCEPT ![h] = "SENT"]
    /\ Done(p, h)
    /\ UNCHANGED <<due, attempts, fast, queueVars, fails>>

\* dispatch() or the SENT update throws.
RelayFail(p, h) ==
    /\ At(p, h) /\ ~failing[p]
    /\ failing' = [failing EXCEPT ![p] = TRUE]
    /\ UNCHANGED <<rowVars, fast, todo, snap, sent, fresh, crashes, queueVars,
                   fails>>

\* Mutant: the failure is not counted.
AttemptsKept(p, h) == snap[p][h]
AttemptsAfter(p, h) == snap[p][h] + 1

\* Mutants: MAX_ATTEMPTS is off by one, either way.
FailedLate(n) == IF n > MaxAttempts THEN "FAILED" ELSE "PENDING"
FailedEarly(n) == IF n + 1 >= MaxAttempts THEN "FAILED" ELSE "PENDING"
StatusAfterFailure(n) == IF n >= MaxAttempts THEN "FAILED" ELSE "PENDING"

\* The catch block, from the attempts read at the claim, whatever the row's
\* status and attempts have become.
RelayRecordFailure(p, h) ==
    /\ At(p, h) /\ failing[p]
    /\ LET n == AttemptsAfter(p, h)
       IN /\ attempts' = [attempts EXCEPT ![h] = n]
          /\ status' = [status EXCEPT ![h] = StatusAfterFailure(n)]
    /\ due' = [due EXCEPT ![h] = FALSE]
    /\ fails' = [fails EXCEPT ![h] = IF @ = MaxAttempts THEN @ ELSE @ + 1]
    /\ Done(p, h)
    /\ UNCHANGED <<fast, queueVars>>

\* The process ends (a crash, or the exit of runManagedProcess, which does not
\* wait for the tick), or the catch block throws and aborts the tick.
RelayCrash(p) ==
    /\ todo[p] # {}
    /\ crashes < MaxCrashes
    /\ crashes' = crashes + 1
    /\ todo' = [todo EXCEPT ![p] = {}]
    /\ snap' = [snap EXCEPT ![p] = [r \in Row |-> 0]]
    /\ sent' = [sent EXCEPT ![p] = 0]
    /\ failing' = [failing EXCEPT ![p] = FALSE]
    /\ fresh' = [fresh EXCEPT ![p] = FALSE]
    /\ UNCHANGED <<rowVars, fast, queueVars, fails>>

\* A lease or a backoff runs out.
Elapse(r) ==
    /\ ~due[r]
    /\ status[r] \in {"PENDING", "PROCESSING"}
    /\ LeaseCoversDispatch => \A p \in Relay : ~(fresh[p] /\ r \in todo[p])
    /\ due' = [due EXCEPT ![r] = TRUE]
    /\ UNCHANGED <<status, attempts, fast, relayVars, queueVars, fails>>

-----------------------------------------------------------------------------
Dispatch(p) == \E h \in Row : \/ RelayAdd(p, h) \/ RelayMark(p, h)
                              \/ RelayFail(p, h) \/ RelayRecordFailure(p, h)

Next == \/ \E r \in Row : \/ Commit(r) \/ FastAdd(r) \/ FastMark(r)
                          \/ FastGiveUp(r) \/ Elapse(r)
        \/ \E p \in Relay : Claim(p) \/ Dispatch(p) \/ RelayCrash(p)
        \/ \E j \in Job : Evict(j)

Spec == Init /\ [][Next]_vars

\* Ticks come round, a dispatch ends, and leases and backoffs run out.  Nothing
\* is owed by the fast path, by a fault or by Redis's eviction.
Fairness ==
    /\ \A p \in Relay : WF_vars(Claim(p)) /\ WF_vars(Dispatch(p))
    /\ \A r \in Row : WF_vars(Elapse(r))

FairSpec == Spec /\ Fairness

-----------------------------------------------------------------------------
(* Properties *)

Queued(r) == \A n \in 1..Legs[r] : added[<<r, n>>] > 0

\* "Redis being briefly down never loses one": a row is SENT only once every
\* job it stands for was created, whatever mix of fast path and relays made
\* the calls, failed between two of them or crashed.
SentMeansQueued == \A r \in Row : status[r] = "SENT" => Queued(r)

\* A row is given up only after MAX_ATTEMPTS recorded failures: the counter is
\* written from a stale read, but never counts a failure that did not happen.
FailedMeansExhausted ==
    \A r \in Row : status[r] = "FAILED" => fails[r] = MaxAttempts

\* "Never a duplicate job" (events/relay.ts:43).  Not so: a late second dispatch
\* finds the job id forgotten.
NoDuplicateJob == \A j \in Job : added[j] <= 1

\* No row is being dispatched by two relays (events/relay.ts:86).  Not so: the
\* lease may end while its batch is being worked through.
NoDoubleClaim ==
    \A p, q \in Relay : p # q => todo[p] \intersect todo[q] = {}

\* With one relay, `attempts` is the number of failures recorded: a row has its
\* MAX_ATTEMPTS dispatches and no more, although the counter is written from
\* the value read at the claim and the fast path writes the same row.
AttemptsExact == \A r \in Row : attempts[r] = fails[r]

\* Every committed row ends up SENT or FAILED, for good, however often a
\* dispatch fails.
Settled(r) == status[r] \in {"SENT", "FAILED"}
EveryRowSettles ==
    \A r \in Row : [](status[r] # "absent" => <>[]Settled(r))

\* The outbox implements AtLeastOnce: an event is queued once all its jobs
\* were created, and dead while it is FAILED before that.
EventState(r) == IF status[r] = "absent" THEN "none"
                 ELSE IF Queued(r) THEN "queued"
                 ELSE IF status[r] = "FAILED" THEN "dead"
                 ELSE "owed"

Promise == INSTANCE AtLeastOnce WITH event <- [r \in Row |-> EventState(r)]
ImplementsPromise == Promise!FairSpec
=============================================================================
