---------------------------- MODULE OutboxProofs ----------------------------
(***************************************************************************)
(* A row of the outbox is SENT only when its jobs were created and FAILED  *)
(* only after MaxAttempts recorded failures, for any number of rows and    *)
(* relays, any batch size and any pattern of failures and evictions.       *)
(***************************************************************************)
EXTENDS Outbox, TLAPS

-----------------------------------------------------------------------------
(* The inductive invariants *)

\* A counter that may still be incremented is below the limit.
CountersInRange ==
    /\ \A r \in Row : status[r] \in {"absent", "PENDING", "PROCESSING"} =>
         attempts[r] < MaxAttempts
    /\ \A p \in Relay : \A r \in Row : snap[p][r] < MaxAttempts

\* No counter, stored or read, counts a failure that was not recorded.
CountersHonest ==
    /\ \A r \in Row : attempts[r] <= fails[r]
    /\ \A p \in Relay : \A r \in Row : snap[p][r] <= fails[r]

\* Whoever is dispatching a row has created the jobs it has counted.
CallsMade(r, n) == \A m \in 1..n : added[<<r, m>>] > 0

CallsCounted ==
    /\ \A j \in redis : added[j] > 0
    /\ \A r \in Row : fast[r].on => CallsMade(r, fast[r].sent)
    /\ \A p \in Relay : \A h \in Row : At(p, h) => CallsMade(h, sent[p])

TInv == TypeOK /\ CountersInRange
FInv == TInv /\ CountersHonest /\ FailedMeansExhausted
QInv == TInv /\ CallsCounted /\ SentMeansQueued

-----------------------------------------------------------------------------
(* Types *)

LEMMA TInvInit == Init => TInv
  BY ConstantsAssumption DEF Init, TInv, TypeOK, CountersInRange, Off, Job

LEMMA DoneTyped ==
    ASSUME TInv, NEW p \in Relay, NEW h \in Row, Done(p, h)
    PROVE  /\ todo' \in [Relay -> SUBSET Row]
           /\ snap' \in [Relay -> [Row -> 0..MaxAttempts]]
           /\ sent' \in [Relay -> 0..2]
           /\ failing' \in [Relay -> BOOLEAN]
           /\ fresh' \in [Relay -> BOOLEAN]
           /\ crashes' \in 0..MaxCrashes
           /\ \A q \in Relay : \A r \in Row : snap'[q][r] \in {0, snap[q][r]}
           /\ \A q \in Relay : \A r \in Row : snap'[q][r] < MaxAttempts
  BY ConstantsAssumption DEF TInv, TypeOK, CountersInRange, Done

LEMMA AddTyped ==
    ASSUME TypeOK, NEW j \in Job, Add(j)
    PROVE  redis' \subseteq Job /\ added' \in [Job -> 0..2]
  BY DEF TypeOK, Add

LEMMA InJob == \A r \in Row : \A m \in 1..2 : <<r, m>> \in Job
  BY DEF Job

LEMMA TInvNext ==
    ASSUME TInv, [Next]_vars
    PROVE  TInv'
<1> USE ConstantsAssumption
<1>1. CASE UNCHANGED vars
  BY <1>1 DEF TInv, TypeOK, CountersInRange, vars, rowVars, relayVars, queueVars
<1>2. ASSUME NEW r \in Row, Commit(r) PROVE TInv'
  BY <1>2 DEF TInv, TypeOK, CountersInRange, Commit, relayVars, queueVars
<1>3. ASSUME NEW r \in Row, FastAdd(r) PROVE TInv'
  <2>1. <<r, fast[r].sent + 1>> \in Job /\ fast[r].sent + 1 \in 0..2
    <3>1. fast[r].sent \in 0..2 /\ Legs[r] \in 1..2 /\ fast[r].sent < Legs[r]
      BY <1>3 DEF FastAdd, TInv, TypeOK
    <3>2. fast[r].sent + 1 \in 1..2 /\ fast[r].sent + 1 \in 0..2
      BY <3>1
    <3>3. <<r, fast[r].sent + 1>> \in Job
      BY <3>2, InJob
    <3>4. QED BY <3>2, <3>3
  <2>2. redis' \subseteq Job /\ added' \in [Job -> 0..2]
    BY <1>3, <2>1, AddTyped DEF FastAdd, TInv
  <2>3. fast' \in [Row -> [on: BOOLEAN, sent: 0..2]]
    BY <1>3, <2>1 DEF FastAdd, TInv, TypeOK
  <2>4. QED
    BY <1>3, <2>2, <2>3
       DEF FastAdd, TInv, TypeOK, CountersInRange, rowVars, relayVars
<1>4. ASSUME NEW r \in Row, FastMark(r) PROVE TInv'
  BY <1>4 DEF TInv, TypeOK, CountersInRange, FastMark, Off, relayVars, queueVars
<1>5. ASSUME NEW r \in Row, FastGiveUp(r) PROVE TInv'
  BY <1>5 DEF TInv, TypeOK, CountersInRange, FastGiveUp, Off, rowVars,
              relayVars, queueVars
<1>6. ASSUME NEW r \in Row, Elapse(r) PROVE TInv'
  BY <1>6 DEF TInv, TypeOK, CountersInRange, Elapse, relayVars, queueVars
<1>7. ASSUME NEW p \in Relay, Claim(p) PROVE TInv'
  <2>1. PICK S \in SUBSET Row :
          /\ IsBatch(S)
          /\ status' = [r \in Row |-> IF r \in S THEN "PROCESSING" ELSE status[r]]
          /\ due' = [r \in Row |-> due[r] /\ r \notin S]
          /\ todo' = [todo EXCEPT ![p] = S]
          /\ snap' = [snap EXCEPT ![p] =
                        [r \in Row |-> IF r \in S THEN attempts[r] ELSE 0]]
    BY <1>7 DEF Claim
  <2>2. \A r \in S : attempts[r] < MaxAttempts
    BY <2>1 DEF IsBatch, Eligible, TInv, CountersInRange
  <2>3. TypeOK'
    BY <1>7, <2>1 DEF Claim, TInv, TypeOK, queueVars
  <2>4. CountersInRange'
    BY <1>7, <2>1, <2>2 DEF Claim, TInv, TypeOK, CountersInRange
  <2>5. QED BY <2>3, <2>4 DEF TInv
<1>8. ASSUME NEW p \in Relay, NEW h \in Row, RelayAdd(p, h) PROVE TInv'
  <2>1. <<h, sent[p] + 1>> \in Job /\ sent[p] + 1 \in 0..2
    <3>1. sent[p] \in 0..2 /\ Legs[h] \in 1..2 /\ sent[p] < Legs[h]
      BY <1>8 DEF RelayAdd, TInv, TypeOK
    <3>2. sent[p] + 1 \in 1..2 /\ sent[p] + 1 \in 0..2
      BY <3>1
    <3>3. <<h, sent[p] + 1>> \in Job
      BY <3>2, InJob
    <3>4. QED BY <3>2, <3>3
  <2>2. redis' \subseteq Job /\ added' \in [Job -> 0..2]
    BY <1>8, <2>1, AddTyped DEF RelayAdd, TInv
  <2>3. QED
    BY <1>8, <2>1, <2>2 DEF RelayAdd, TInv, TypeOK, CountersInRange, rowVars
<1>9. ASSUME NEW p \in Relay, NEW h \in Row, RelayMark(p, h) PROVE TInv'
  BY <1>9, DoneTyped DEF RelayMark, TInv, TypeOK, CountersInRange, queueVars
<1>10. ASSUME NEW p \in Relay, NEW h \in Row, RelayFail(p, h) PROVE TInv'
  BY <1>10 DEF RelayFail, TInv, TypeOK, CountersInRange, rowVars, queueVars
<1>11. ASSUME NEW p \in Relay, NEW h \in Row, RelayRecordFailure(p, h)
       PROVE  TInv'
  <2>1. snap[p][h] + 1 \in 0..MaxAttempts
    BY DEF TInv, TypeOK, CountersInRange
  <2>2. TypeOK'
    <3>1. /\ attempts' \in [Row -> 0..MaxAttempts]
          /\ status' \in [Row -> {"absent", "PENDING", "PROCESSING", "SENT",
                                  "FAILED"}]
          /\ due' \in [Row -> BOOLEAN]
      BY <1>11, <2>1
         DEF RelayRecordFailure, AttemptsAfter, StatusAfterFailure, TInv, TypeOK
    <3>2. fails' \in [Row -> 0..MaxAttempts]
      <4>1. fails[h] \in 0..MaxAttempts
        BY DEF TInv, TypeOK
      <4>2. (IF fails[h] = MaxAttempts THEN fails[h] ELSE fails[h] + 1)
              \in 0..MaxAttempts
        BY <4>1
      <4>3. QED BY <1>11, <4>2 DEF RelayRecordFailure, TInv, TypeOK
    <3>3. UNCHANGED <<fast, redis, added>>
      BY <1>11 DEF RelayRecordFailure, queueVars
    <3>4. Done(p, h)
      BY <1>11 DEF RelayRecordFailure
    <3>5. QED BY <3>1, <3>2, <3>3, <3>4, DoneTyped DEF TInv, TypeOK
  <2>3. CountersInRange'
    BY <1>11, <2>1, DoneTyped
       DEF RelayRecordFailure, AttemptsAfter, StatusAfterFailure, TInv, TypeOK,
           CountersInRange
  <2>4. QED BY <2>2, <2>3 DEF TInv
<1>12. ASSUME NEW p \in Relay, RelayCrash(p) PROVE TInv'
  BY <1>12 DEF RelayCrash, TInv, TypeOK, CountersInRange, rowVars, queueVars
<1>13. ASSUME NEW j \in Job, Evict(j) PROVE TInv'
  BY <1>13 DEF Evict, TInv, TypeOK, CountersInRange, rowVars, relayVars
<1>14. QED
  BY <1>1, <1>2, <1>3, <1>4, <1>5, <1>6, <1>7, <1>8, <1>9, <1>10, <1>11,
     <1>12, <1>13
     DEF Next, Dispatch

LEMMA TInvAlways == Spec => []TInv
  BY TInvInit, TInvNext, PTL DEF Spec

-----------------------------------------------------------------------------
(* The attempt counters *)

LEMMA FInvNext ==
    ASSUME FInv, TInv', [Next]_vars
    PROVE  FInv'
<1> USE ConstantsAssumption DEF FInv
<1>1. CASE UNCHANGED <<status, attempts, snap, fails>>
  BY <1>1 DEF CountersHonest, FailedMeansExhausted
<1>2. ASSUME NEW r \in Row, Commit(r) \/ FastMark(r) PROVE FInv'
  BY <1>2 DEF Commit, FastMark, CountersHonest, FailedMeansExhausted, relayVars,
              TInv, TypeOK
<1>3. ASSUME NEW p \in Relay, Claim(p) PROVE FInv'
  <2>1. PICK S \in SUBSET Row :
          /\ status' = [r \in Row |-> IF r \in S THEN "PROCESSING" ELSE status[r]]
          /\ snap' = [snap EXCEPT ![p] =
                        [r \in Row |-> IF r \in S THEN attempts[r] ELSE 0]]
    BY <1>3 DEF Claim
  <2>2. attempts' = attempts /\ fails' = fails
    BY <1>3 DEF Claim
  <2>3. QED
    BY <2>1, <2>2 DEF CountersHonest, FailedMeansExhausted, TInv, TypeOK
<1>4. ASSUME NEW p \in Relay, NEW h \in Row, RelayMark(p, h) PROVE FInv'
  <2>1. \A q \in Relay : \A r \in Row : snap'[q][r] \in {0, snap[q][r]}
    BY <1>4, DoneTyped DEF RelayMark
  <2>2. UNCHANGED <<attempts, fails>>
    BY <1>4 DEF RelayMark
  <2>3. \A r \in Row : fails[r] \in 0..MaxAttempts
    BY DEF TInv, TypeOK
  <2>4. CountersHonest'
    BY <2>1, <2>2, <2>3 DEF CountersHonest
  <2>5. FailedMeansExhausted'
    BY <1>4, <2>2 DEF RelayMark, FailedMeansExhausted, TInv, TypeOK
  <2>6. QED BY <2>4, <2>5
<1>5. ASSUME NEW p \in Relay, NEW h \in Row, RelayRecordFailure(p, h)
      PROVE  FInv'
  <2>1. \A q \in Relay : \A r \in Row : snap'[q][r] \in {0, snap[q][r]}
    BY <1>5, DoneTyped DEF RelayRecordFailure
  <2>2. /\ \A r \in Row : fails[r] \in 0..MaxAttempts
        /\ snap[p][h] <= fails[h] /\ snap[p][h] < MaxAttempts
        /\ snap[p][h] \in Nat
    BY DEF CountersHonest, CountersInRange, TInv, TypeOK
  <2>3. /\ fails'[h] = IF fails[h] = MaxAttempts THEN fails[h] ELSE fails[h] + 1
        /\ \A r \in Row \ {h} : /\ fails'[r] = fails[r]
                                /\ attempts'[r] = attempts[r]
                                /\ status'[r] = status[r]
        /\ attempts'[h] = snap[p][h] + 1
        /\ status'[h] = IF snap[p][h] + 1 >= MaxAttempts
                          THEN "FAILED" ELSE "PENDING"
    BY <1>5
       DEF RelayRecordFailure, AttemptsAfter, StatusAfterFailure, TInv, TypeOK
  <2>4. /\ snap[p][h] + 1 <= fails'[h]
        /\ \A r \in Row : fails[r] <= fails'[r] /\ fails'[r] \in Nat
    <3>1. snap[p][h] + 1 <= fails'[h] /\ fails[h] <= fails'[h] /\ fails'[h] \in Nat
      <4>1. fails[h] \in 0..MaxAttempts
        BY <2>2
      <4>2. QED BY <2>2, <2>3, <4>1
    <3>2. ASSUME NEW r \in Row, r # h
          PROVE  fails[r] <= fails'[r] /\ fails'[r] \in Nat
      <4>1. fails'[r] = fails[r] /\ fails[r] \in 0..MaxAttempts
        BY <2>2, <2>3, <3>2
      <4>2. QED BY <4>1
    <3>3. QED BY <3>1, <3>2
  <2>5. \A r \in Row : attempts'[r] <= fails'[r]
    BY <2>3, <2>4 DEF CountersHonest
  <2>6. \A q \in Relay : \A r \in Row : snap'[q][r] <= fails'[r]
    <3>1. SUFFICES ASSUME NEW q \in Relay, NEW r \in Row
                   PROVE  snap'[q][r] <= fails'[r]
      OBVIOUS
    <3>2. /\ snap'[q][r] \in {0, snap[q][r]}
          /\ snap[q][r] \in 0..MaxAttempts /\ snap[q][r] <= fails[r]
          /\ fails[r] \in 0..MaxAttempts
          /\ fails[r] <= fails'[r] /\ fails'[r] \in Nat
      BY <2>1, <2>2, <2>4 DEF CountersHonest, TInv, TypeOK
    <3>3. QED BY <3>2
  <2>7. FailedMeansExhausted'
    BY <2>2, <2>3 DEF FailedMeansExhausted
  <2>8. QED BY <2>5, <2>6, <2>7 DEF CountersHonest
<1>6. ASSUME NEW p \in Relay, RelayCrash(p) PROVE FInv'
  BY <1>6 DEF RelayCrash, CountersHonest, FailedMeansExhausted, rowVars, TInv,
              TypeOK
<1>7. QED
  BY <1>1, <1>2, <1>3, <1>4, <1>5, <1>6
     DEF Next, Dispatch, FastAdd, FastGiveUp, Elapse, RelayAdd, RelayFail, Evict,
         vars, rowVars, relayVars

-----------------------------------------------------------------------------
(* The calls made *)

\* No job is unmade.
JobsKept == \A i \in Job : added[i] > 0 => added'[i] > 0

\* A call creates its job if Redis does not hold it, and unmakes no other.
LEMMA AddCounts ==
    ASSUME TypeOK, CallsCounted, NEW j \in Job, Add(j)
    PROVE  added'[j] > 0 /\ JobsKept /\ \A i \in redis' : added'[i] > 0
  BY DEF TypeOK, CallsCounted, Add, JobsKept

LEMMA CallsKept ==
    ASSUME JobsKept, NEW r \in Row, NEW n \in 0..2, CallsMade(r, n)
    PROVE  \A m \in 1..n : added'[<<r, m>>] > 0
<1>1. SUFFICES ASSUME NEW m \in 1..n PROVE added'[<<r, m>>] > 0
  OBVIOUS
<1>2. <<r, m>> \in Job /\ added[<<r, m>>] > 0
  <2>1. m \in 1..2
    OBVIOUS
  <2>2. QED BY <2>1, InJob DEF CallsMade
<1>3. QED BY <1>2 DEF JobsKept

LEMMA QueuedKept ==
    ASSUME JobsKept, NEW r \in Row, Queued(r)
    PROVE  Queued(r)'
<1>1. Legs[r] \in 0..2
  BY ConstantsAssumption
<1>2. CallsMade(r, Legs[r])
  BY DEF Queued, CallsMade
<1>3. \A m \in 1..Legs[r] : added'[<<r, m>>] > 0
  BY <1>1, <1>2, CallsKept
<1>4. QED BY <1>3 DEF Queued

\* One more call was made.
LEMMA CallsGrow ==
    ASSUME JobsKept, NEW r \in Row, NEW n \in 0..1, CallsMade(r, n),
           added'[<<r, n + 1>>] > 0
    PROVE  \A m \in 1..(n + 1) : added'[<<r, m>>] > 0
<1>1. \A m \in 1..n : added'[<<r, m>>] > 0
  BY CallsKept
<1>2. \A m \in 1..(n + 1) : m \in 1..n \/ m = n + 1
  OBVIOUS
<1>3. QED BY <1>1, <1>2

\* A relay is at one row at a time.
LEMMA AtOne ==
    ASSUME NEW p \in Relay, NEW h \in Row, NEW g \in Row, At(p, h), At(p, g)
    PROVE  h = g
  BY ConstantsAssumption DEF At

\* The relays' counts still hold when only a job was added elsewhere.
LEMMA RelayCallsKept ==
    ASSUME TypeOK, CallsCounted, JobsKept, NEW p \in Relay, NEW h \in Row,
           todo'[p] = todo[p], sent'[p] = sent[p], At(p, h)'
    PROVE  \A m \in 1..sent'[p] : added'[<<h, m>>] > 0
<1>1. At(p, h) /\ sent[p] \in 0..2
  BY DEF At, TypeOK
<1>2. CallsMade(h, sent[p])
  BY <1>1 DEF CallsCounted
<1>3. \A m \in 1..sent[p] : added'[<<h, m>>] > 0
  BY <1>1, <1>2, CallsKept
<1>4. QED BY <1>3

LEMMA CallsCountedNext ==
    ASSUME QInv, TInv', [Next]_vars
    PROVE  CallsCounted' /\ SentMeansQueued'
<1> USE ConstantsAssumption DEF QInv
<1>1. CASE UNCHANGED <<status, fast, todo, sent, redis, added>>
  BY <1>1 DEF CallsCounted, CallsMade, At, SentMeansQueued, Queued
<1>2. ASSUME NEW r \in Row, Commit(r) PROVE CallsCounted' /\ SentMeansQueued'
  BY <1>2 DEF Commit, CallsCounted, CallsMade, At, SentMeansQueued, Queued,
              relayVars, queueVars, TInv, TypeOK
<1>3. ASSUME NEW r \in Row, FastAdd(r) PROVE CallsCounted' /\ SentMeansQueued'
  <2> DEFINE n == fast[r].sent
  <2>1. n \in 0..1 /\ <<r, n + 1>> \in Job
    <3>1. n \in 0..2 /\ Legs[r] \in 1..2 /\ n < Legs[r]
      BY <1>3 DEF FastAdd, TInv, TypeOK
    <3>2. n \in 0..1 /\ n + 1 \in 1..2
      BY <3>1
    <3>3. QED BY <3>2, InJob
  <2>2. added'[<<r, n + 1>>] > 0 /\ JobsKept /\ \A i \in redis' : added'[i] > 0
    BY <1>3, <2>1, AddCounts DEF FastAdd, TInv
  <2>3. /\ fast'[r].sent = n + 1
        /\ \A q \in Row \ {r} : fast'[q] = fast[q]
        /\ UNCHANGED <<status, todo, sent>>
    BY <1>3 DEF FastAdd, TInv, TypeOK, rowVars, relayVars
  <2>4. \A m \in 1..(n + 1) : added'[<<r, m>>] > 0
    <3>1. CallsMade(r, n)
      BY <1>3 DEF FastAdd, CallsCounted
    <3>2. QED BY <2>1, <2>2, <3>1, CallsGrow
  <2>5. ASSUME NEW q \in Row, fast'[q].on
        PROVE  \A m \in 1..fast'[q].sent : added'[<<q, m>>] > 0
    <3>1. CASE q = r
      BY <2>3, <2>4, <3>1
    <3>2. CASE q # r
      <4>1. fast'[q] = fast[q] /\ fast[q].sent \in 0..2
        BY <2>3, <3>2 DEF TInv, TypeOK
      <4>2. CallsMade(q, fast[q].sent)
        BY <2>5, <4>1 DEF CallsCounted
      <4>3. QED BY <2>2, <4>1, <4>2, CallsKept
    <3>3. QED BY <3>1, <3>2
  <2>6. CallsCounted'
    <3>1. ASSUME NEW q \in Relay, NEW h \in Row, At(q, h)'
          PROVE  \A m \in 1..sent'[q] : added'[<<h, m>>] > 0
      BY <2>2, <2>3, <3>1, RelayCallsKept DEF TInv
    <3>2. QED BY <2>2, <2>5, <3>1 DEF CallsCounted, CallsMade
  <2>7. SentMeansQueued'
    BY <2>2, <2>3, QueuedKept DEF SentMeansQueued
  <2>8. QED BY <2>6, <2>7
<1>4. ASSUME NEW r \in Row, FastMark(r) PROVE CallsCounted' /\ SentMeansQueued'
  <2>1. Queued(r)
    BY <1>4 DEF FastMark, Dispatched, CallsCounted, CallsMade, Queued
  <2>2. UNCHANGED <<todo, sent, redis, added>>
    BY <1>4 DEF FastMark, relayVars, queueVars
  <2>3. SentMeansQueued'
    BY <1>4, <2>1, <2>2 DEF FastMark, SentMeansQueued, Queued, TInv, TypeOK
  <2>4. CallsCounted'
    BY <1>4, <2>2 DEF FastMark, Off, CallsCounted, CallsMade, At, TInv, TypeOK
  <2>5. QED BY <2>3, <2>4
<1>5. ASSUME NEW r \in Row, FastGiveUp(r)
      PROVE  CallsCounted' /\ SentMeansQueued'
  BY <1>5 DEF FastGiveUp, Off, CallsCounted, CallsMade, At, SentMeansQueued,
              Queued, rowVars, relayVars, queueVars, TInv, TypeOK
<1>6. ASSUME NEW p \in Relay, Claim(p) PROVE CallsCounted' /\ SentMeansQueued'
  <2>1. PICK S \in SUBSET Row :
          /\ status' = [r \in Row |-> IF r \in S THEN "PROCESSING" ELSE status[r]]
          /\ todo' = [todo EXCEPT ![p] = S]
    BY <1>6 DEF Claim
  <2>2. sent' = [sent EXCEPT ![p] = 0] /\ UNCHANGED <<fast, redis, added>>
    BY <1>6 DEF Claim, queueVars
  <2>3. SentMeansQueued'
    BY <2>1, <2>2 DEF SentMeansQueued, Queued, TInv, TypeOK
  <2>4. CallsCounted'
    <3>1. ASSUME NEW q \in Relay, NEW h \in Row, At(q, h)'
          PROVE  \A m \in 1..sent'[q] : added'[<<h, m>>] > 0
      <4>1. CASE q = p
        <5>1. sent'[q] = 0
          BY <2>2, <4>1 DEF TInv, TypeOK
        <5>2. QED BY <5>1
      <4>2. CASE q # p
        <5>1. todo'[q] = todo[q] /\ sent'[q] = sent[q]
          BY <2>1, <2>2, <4>2 DEF TInv, TypeOK
        <5>2. JobsKept
          BY <2>2 DEF JobsKept
        <5>3. QED BY <3>1, <5>1, <5>2, RelayCallsKept DEF TInv
      <4>3. QED BY <4>1, <4>2
    <3>2. QED BY <2>2, <3>1 DEF CallsCounted, CallsMade
  <2>5. QED BY <2>3, <2>4
<1>7. ASSUME NEW p \in Relay, NEW h \in Row, RelayAdd(p, h)
      PROVE  CallsCounted' /\ SentMeansQueued'
  <2> DEFINE n == sent[p]
  <2>1. n \in 0..1 /\ <<h, n + 1>> \in Job
    <3>1. n \in 0..2 /\ Legs[h] \in 1..2 /\ n < Legs[h]
      BY <1>7 DEF RelayAdd, TInv, TypeOK
    <3>2. n \in 0..1 /\ n + 1 \in 1..2
      BY <3>1
    <3>3. QED BY <3>2, InJob
  <2>2. added'[<<h, n + 1>>] > 0 /\ JobsKept /\ \A i \in redis' : added'[i] > 0
    BY <1>7, <2>1, AddCounts DEF RelayAdd, TInv
  <2>3. /\ sent'[p] = n + 1
        /\ \A q \in Relay \ {p} : sent'[q] = sent[q]
        /\ UNCHANGED <<status, fast, todo>>
    BY <1>7 DEF RelayAdd, TInv, TypeOK, rowVars
  <2>4. \A m \in 1..(n + 1) : added'[<<h, m>>] > 0
    <3>1. CallsMade(h, n)
      BY <1>7 DEF RelayAdd, CallsCounted
    <3>2. QED BY <2>1, <2>2, <3>1, CallsGrow
  <2>5. ASSUME NEW r \in Row, fast'[r].on
        PROVE  \A m \in 1..fast'[r].sent : added'[<<r, m>>] > 0
    <3>1. fast'[r] = fast[r] /\ fast[r].sent \in 0..2
      BY <2>3 DEF TInv, TypeOK
    <3>2. CallsMade(r, fast[r].sent)
      BY <2>5, <3>1 DEF CallsCounted
    <3>3. QED BY <2>2, <3>1, <3>2, CallsKept
  <2>6. ASSUME NEW q \in Relay, NEW g \in Row, At(q, g)'
        PROVE  \A m \in 1..sent'[q] : added'[<<g, m>>] > 0
    <3>1. CASE q = p
      <4>1. g = h
        <5>1. At(p, g) /\ At(p, h)
          BY <1>7, <2>3, <2>6, <3>1 DEF At, RelayAdd
        <5>2. QED BY <5>1, AtOne
      <4>2. QED BY <2>3, <2>4, <3>1, <4>1
    <3>2. CASE q # p
      <4>1. todo'[q] = todo[q] /\ sent'[q] = sent[q]
        BY <2>3, <3>2
      <4>2. QED BY <2>2, <2>6, <4>1, RelayCallsKept DEF TInv
    <3>3. QED BY <3>1, <3>2
  <2>7. SentMeansQueued'
    BY <2>2, <2>3, QueuedKept DEF SentMeansQueued
  <2>8. CallsCounted'
    BY <2>2, <2>5, <2>6 DEF CallsCounted, CallsMade
  <2>9. QED BY <2>7, <2>8
<1>8. ASSUME NEW p \in Relay, NEW h \in Row,
             RelayMark(p, h) \/ RelayRecordFailure(p, h)
      PROVE  CallsCounted' /\ SentMeansQueued'
  <2>1. /\ sent' = [sent EXCEPT ![p] = 0]
        /\ todo' = [todo EXCEPT ![p] = @ \ {h}]
        /\ UNCHANGED <<fast, redis, added>>
    BY <1>8 DEF RelayMark, RelayRecordFailure, Done, queueVars
  <2>2. CallsCounted'
    <3>1. ASSUME NEW q \in Relay, NEW g \in Row, At(q, g)'
          PROVE  \A m \in 1..sent'[q] : added'[<<g, m>>] > 0
      <4>1. CASE q = p
        <5>1. sent'[q] = 0
          BY <2>1, <4>1 DEF TInv, TypeOK
        <5>2. QED BY <5>1
      <4>2. CASE q # p
        <5>1. todo'[q] = todo[q] /\ sent'[q] = sent[q]
          BY <2>1, <4>2 DEF TInv, TypeOK
        <5>2. JobsKept
          BY <2>1 DEF JobsKept
        <5>3. QED BY <3>1, <5>1, <5>2, RelayCallsKept DEF TInv
      <4>3. QED BY <4>1, <4>2
    <3>2. QED BY <2>1, <3>1 DEF CallsCounted, CallsMade
  <2>3. RelayMark(p, h) => Queued(h)
    BY DEF RelayMark, Dispatched, CallsCounted, CallsMade, Queued
  <2>4. /\ status'[h] = "SENT" => RelayMark(p, h)
        /\ \A r \in Row \ {h} : status'[r] = status[r]
    BY <1>8
       DEF RelayMark, RelayRecordFailure, StatusAfterFailure, TInv, TypeOK
  <2>5. SentMeansQueued'
    BY <2>1, <2>3, <2>4 DEF SentMeansQueued, Queued
  <2>6. QED BY <2>2, <2>5
<1>9. ASSUME NEW p \in Relay, RelayCrash(p)
      PROVE  CallsCounted' /\ SentMeansQueued'
  BY <1>9 DEF RelayCrash, CallsCounted, CallsMade, At, SentMeansQueued, Queued,
              rowVars, queueVars, TInv, TypeOK
<1>10. ASSUME NEW j \in Job, Evict(j) PROVE CallsCounted' /\ SentMeansQueued'
  BY <1>10 DEF Evict, CallsCounted, CallsMade, At, SentMeansQueued, Queued,
               rowVars, relayVars
<1>11. QED
  BY <1>1, <1>2, <1>3, <1>4, <1>5, <1>6, <1>7, <1>8, <1>9, <1>10
     DEF Next, Dispatch, RelayFail, Elapse, vars, rowVars, relayVars, queueVars

-----------------------------------------------------------------------------
(* With one relay *)

OneRelay == \A p, q \in Relay : p = q

\* What a relay has read at its claim is still so.
SnapExact == \A p \in Relay : \A r \in todo[p] : snap[p][r] = fails[r]

EInv == TInv /\ AttemptsExact /\ SnapExact

LEMMA EInvNext ==
    ASSUME OneRelay, EInv, TInv', [Next]_vars
    PROVE  EInv'
<1> USE ConstantsAssumption DEF EInv
<1>1. CASE UNCHANGED <<attempts, todo, snap, fails>>
  BY <1>1 DEF AttemptsExact, SnapExact
<1>2. ASSUME NEW p \in Relay, Claim(p) PROVE EInv'
  <2>1. PICK S \in SUBSET Row :
          /\ todo' = [todo EXCEPT ![p] = S]
          /\ snap' = [snap EXCEPT ![p] =
                        [r \in Row |-> IF r \in S THEN attempts[r] ELSE 0]]
    BY <1>2 DEF Claim
  <2>2. attempts' = attempts /\ fails' = fails
    BY <1>2 DEF Claim
  <2>3. \A q \in Relay : q = p
    BY DEF OneRelay
  <2>4. todo'[p] = S /\ \A r \in S : snap'[p][r] = attempts[r]
    BY <2>1 DEF TInv, TypeOK
  <2>5. QED
    BY <2>2, <2>3, <2>4 DEF AttemptsExact, SnapExact
<1>3. ASSUME NEW p \in Relay, NEW h \in Row, Done(p, h)
      PROVE  /\ \A q \in Relay : q = p
             /\ todo'[p] = todo[p] \ {h}
             /\ \A r \in Row \ {h} : snap'[p][r] = snap[p][r]
  <2>1. \A q \in Relay : q = p
    BY DEF OneRelay
  <2>2. QED
    BY <1>3, <2>1 DEF Done, TInv, TypeOK
<1>4. ASSUME NEW p \in Relay, NEW h \in Row, RelayMark(p, h) PROVE EInv'
  <2>1. attempts' = attempts /\ fails' = fails
    BY <1>4 DEF RelayMark
  <2>2. Done(p, h) /\ todo[p] \subseteq Row
    BY <1>4 DEF RelayMark, TInv, TypeOK
  <2>3. ASSUME NEW q \in Relay, NEW r \in todo'[q]
        PROVE  snap'[q][r] = fails'[r]
    <3>1. q = p /\ r \in todo[p] /\ r \in Row \ {h} /\ snap'[p][r] = snap[p][r]
      BY <1>3, <2>2, <2>3
    <3>2. QED
      BY <2>1, <3>1 DEF SnapExact
  <2>4. SnapExact'
    BY <2>3 DEF SnapExact
  <2>5. AttemptsExact'
    BY <2>1 DEF AttemptsExact
  <2>6. QED
    BY <2>4, <2>5
<1>5. ASSUME NEW p \in Relay, NEW h \in Row, RelayRecordFailure(p, h) PROVE EInv'
  <2>1. Done(p, h) /\ todo[p] \subseteq Row /\ h \in todo[p]
    BY <1>5 DEF RelayRecordFailure, At, TInv, TypeOK
  <2>2. snap[p][h] = fails[h] /\ snap[p][h] < MaxAttempts /\ snap[p][h] \in Nat
    BY <2>1 DEF SnapExact, TInv, TypeOK, CountersInRange
  <2>3. /\ attempts' = [attempts EXCEPT ![h] = snap[p][h] + 1]
        /\ fails' = [fails EXCEPT ![h] = IF @ = MaxAttempts THEN @ ELSE @ + 1]
    BY <1>5 DEF RelayRecordFailure, AttemptsAfter
  <2>4. /\ attempts'[h] = fails'[h]
        /\ \A r \in Row \ {h} : attempts'[r] = attempts[r] /\ fails'[r] = fails[r]
    BY <2>2, <2>3 DEF TInv, TypeOK
  <2>5. AttemptsExact'
    BY <2>4 DEF AttemptsExact
  <2>6. ASSUME NEW q \in Relay, NEW r \in todo'[q]
        PROVE  snap'[q][r] = fails'[r]
    <3>1. q = p /\ r \in todo[p] /\ r \in Row \ {h} /\ snap'[p][r] = snap[p][r]
      BY <1>3, <2>1, <2>6
    <3>2. QED
      BY <2>4, <3>1 DEF SnapExact
  <2>7. SnapExact'
    BY <2>6 DEF SnapExact
  <2>8. QED
    BY <2>5, <2>7
<1>6. ASSUME NEW p \in Relay, RelayCrash(p) PROVE EInv'
  <2>1. todo'[p] = {} /\ attempts' = attempts /\ fails' = fails
    BY <1>6 DEF RelayCrash, rowVars, TInv, TypeOK
  <2>2. \A q \in Relay : q = p
    BY DEF OneRelay
  <2>3. QED
    BY <2>1, <2>2 DEF AttemptsExact, SnapExact
<1>7. QED
  BY <1>1, <1>2, <1>4, <1>5, <1>6
     DEF Next, Dispatch, Commit, FastAdd, FastMark, FastGiveUp, Elapse, RelayAdd,
         RelayFail, Evict, vars, rowVars, relayVars

\* Nobody works on a row that is not there, or that was given up.
Untouched ==
    \A r \in Row : status[r] = "absent" =>
        /\ ~fast[r].on
        /\ \A p \in Relay : r \notin todo[p]
        /\ \A n \in 1..2 : added[<<r, n>>] = 0

Released == \A r \in Row : status[r] = "FAILED" => \A p \in Relay : r \notin todo[p]

PInv == QInv /\ Untouched /\ Released

\* A call adds to the jobs of its row alone.
LEMMA AddElsewhere ==
    ASSUME TypeOK, NEW r \in Row, NEW n \in 1..2, Add(<<r, n>>)
    PROVE  \A q \in Row \ {r} : \A m \in 1..2 : added'[<<q, m>>] = added[<<q, m>>]
<1>1. SUFFICES ASSUME NEW q \in Row \ {r}, NEW m \in 1..2
               PROVE  added'[<<q, m>>] = added[<<q, m>>]
  OBVIOUS
<1>2. <<q, m>> \in Job /\ <<r, n>> \in Job /\ <<q, m>> # <<r, n>>
  BY InJob
<1>3. added \in [Job -> 0..2]
  BY DEF TypeOK
<1>4. QED
  BY <1>2, <1>3 DEF Add

LEMMA FastCall ==
    ASSUME TInv, NEW r \in Row, FastAdd(r)
    PROVE  fast[r].sent + 1 \in 1..2
<1>1. fast[r].sent \in 0..2 /\ Legs[r] \in 1..2 /\ fast[r].sent < Legs[r]
  BY ConstantsAssumption DEF FastAdd, TInv, TypeOK
<1>2. QED BY <1>1

LEMMA RelayCall ==
    ASSUME TInv, NEW p \in Relay, NEW h \in Row, RelayAdd(p, h)
    PROVE  sent[p] + 1 \in 1..2
<1>1. sent[p] \in 0..2 /\ Legs[h] \in 1..2 /\ sent[p] < Legs[h]
  BY ConstantsAssumption DEF RelayAdd, TInv, TypeOK
<1>2. QED BY <1>1

LEMMA PInvNext ==
    ASSUME OneRelay, PInv, [Next]_vars
    PROVE  Untouched' /\ Released'
<1> USE DEF PInv, QInv
<1>1. CASE UNCHANGED <<status, fast, todo, added>>
  BY <1>1 DEF Untouched, Released
<1>2. ASSUME NEW r \in Row, Commit(r) PROVE Untouched' /\ Released'
  BY <1>2 DEF Commit, Untouched, Released, relayVars, queueVars, TInv, TypeOK
<1>3. ASSUME NEW r \in Row, FastAdd(r) PROVE Untouched' /\ Released'
  <2>1. \A q \in Row \ {r} : \A m \in 1..2 : added'[<<q, m>>] = added[<<q, m>>]
    BY <1>3, FastCall, AddElsewhere DEF FastAdd, TInv
  <2>2. status' = status /\ todo' = todo /\ status[r] # "absent"
    BY <1>3 DEF FastAdd, rowVars, relayVars, Untouched
  <2>3. \A q \in Row \ {r} : fast'[q] = fast[q]
    BY <1>3 DEF FastAdd, TInv, TypeOK
  <2>4. QED
    BY <2>1, <2>2, <2>3 DEF Untouched, Released
<1>4. ASSUME NEW r \in Row, FastMark(r) PROVE Untouched' /\ Released'
  BY <1>4 DEF FastMark, Untouched, Released, Off, relayVars, queueVars, TInv, TypeOK
<1>5. ASSUME NEW r \in Row, FastGiveUp(r) PROVE Untouched' /\ Released'
  BY <1>5 DEF FastGiveUp, Untouched, Released, Off, rowVars, relayVars, queueVars,
              TInv, TypeOK
<1>6. ASSUME NEW p \in Relay, Claim(p) PROVE Untouched' /\ Released'
  <2>1. PICK S \in SUBSET Row :
          /\ IsBatch(S)
          /\ status' = [r \in Row |-> IF r \in S THEN "PROCESSING" ELSE status[r]]
          /\ todo' = [todo EXCEPT ![p] = S]
    BY <1>6 DEF Claim
  <2>2. fast' = fast /\ added' = added
    BY <1>6 DEF Claim, queueVars
  <2>3. \A r \in Row : status'[r] \in {"absent", "FAILED"} =>
                         r \notin S /\ status'[r] = status[r]
    BY <2>1
  <2>4. todo'[p] = S /\ \A q \in Relay : q = p
    BY <2>1 DEF OneRelay, TInv, TypeOK
  <2>5. QED
    BY <2>2, <2>3, <2>4 DEF Untouched, Released
<1>7. ASSUME NEW p \in Relay, NEW h \in Row, RelayAdd(p, h)
      PROVE  Untouched' /\ Released'
  <2>1. \A q \in Row \ {h} : \A m \in 1..2 : added'[<<q, m>>] = added[<<q, m>>]
    BY <1>7, RelayCall, AddElsewhere DEF RelayAdd, TInv
  <2>2. status' = status /\ todo' = todo /\ fast' = fast /\ status[h] # "absent"
    BY <1>7 DEF RelayAdd, At, rowVars, Untouched
  <2>3. QED
    BY <2>1, <2>2 DEF Untouched, Released
<1>8. ASSUME NEW p \in Relay, NEW h \in Row,
             RelayMark(p, h) \/ RelayRecordFailure(p, h)
      PROVE  Untouched' /\ Released'
  <2>1. /\ h \in todo[p] /\ todo' = [todo EXCEPT ![p] = @ \ {h}]
        /\ fast' = fast /\ added' = added
    BY <1>8 DEF RelayMark, RelayRecordFailure, At, Done, queueVars
  <2>2. /\ \A r \in Row \ {h} : status'[r] = status[r]
        /\ status'[h] # "absent" /\ status[h] # "absent"
    BY <1>8, <2>1 DEF RelayMark, RelayRecordFailure, StatusAfterFailure, Untouched,
                      TInv, TypeOK
  <2>3. todo'[p] = todo[p] \ {h} /\ \A q \in Relay : q = p
    BY <2>1 DEF OneRelay, TInv, TypeOK
  <2>4. QED
    BY <2>1, <2>2, <2>3 DEF Untouched, Released
<1>9. ASSUME NEW p \in Relay, RelayCrash(p) PROVE Untouched' /\ Released'
  BY <1>9 DEF RelayCrash, Untouched, Released, rowVars, queueVars, TInv, TypeOK
<1>10. QED
  BY <1>1, <1>2, <1>3, <1>4, <1>5, <1>6, <1>7, <1>8, <1>9
     DEF Next, Dispatch, RelayFail, Elapse, Evict, vars, rowVars, relayVars, queueVars

\* The event of a row changes with the row's status and jobs alone.
LEMMA OtherEvents ==
    ASSUME NEW q \in Row, status'[q] = status[q],
           \A m \in 1..2 : added'[<<q, m>>] = added[<<q, m>>]
    PROVE  EventState(q)' = EventState(q)
<1>1. Legs[q] \in 1..2
  BY ConstantsAssumption
<1>2. \A m \in 1..Legs[q] : m \in 1..2
  BY <1>1
<1>3. Queued(q)' <=> Queued(q)
  BY <1>2 DEF Queued
<1>4. QED
  BY <1>3 DEF EventState

Events == [r \in Row |-> EventState(r)]

LEMMA EventMoves ==
    ASSUME NEW r \in Row, \A q \in Row \ {r} : EventState(q)' = EventState(q),
           \/ EventState(r)' = EventState(r)
           \/ EventState(r) = "none" /\ EventState(r)' = "owed"
           \/ EventState(r) \in {"owed", "dead"} /\ EventState(r)' = "queued"
           \/ EventState(r) = "owed" /\ EventState(r)' = "dead"
    PROVE  [Promise!Next]_Events
<1>1. Events' = [Events EXCEPT ![r] = EventState(r)'] /\ Events[r] = EventState(r)
  BY DEF Events
<1>2. CASE EventState(r)' = EventState(r)
  BY <1>2 DEF Events
<1>3. CASE EventState(r) = "none" /\ EventState(r)' = "owed"
  <2>1. Promise!Accept(r)
    BY <1>1, <1>3 DEF Promise!Accept, Promise!Step, Events
  <2>2. QED
    BY <2>1 DEF Promise!Next
<1>4. CASE EventState(r) = "owed" /\ EventState(r)' = "queued"
  <2>1. Promise!Queue(r)
    BY <1>1, <1>4 DEF Promise!Queue, Promise!Step, Events
  <2>2. QED
    BY <2>1 DEF Promise!Next
<1>5. CASE EventState(r) = "dead" /\ EventState(r)' = "queued"
  <2>1. Promise!QueueLate(r)
    BY <1>1, <1>5 DEF Promise!QueueLate, Promise!Step, Events
  <2>2. QED
    BY <2>1 DEF Promise!Next
<1>6. CASE EventState(r) = "owed" /\ EventState(r)' = "dead"
  <2>1. Promise!GiveUp(r)
    BY <1>1, <1>6 DEF Promise!GiveUp, Promise!Step, Events
  <2>2. QED
    BY <2>1 DEF Promise!Next
<1>7. QED
  BY <1>2, <1>3, <1>4, <1>5, <1>6

\* A call for a row that is there and not queued yet may queue it.
LEMMA CallMaps ==
    ASSUME TypeOK, CallsCounted, NEW r \in Row, NEW n \in 1..2, Add(<<r, n>>),
           status' = status, status[r] # "absent"
    PROVE  [Promise!Next]_Events
<1>1. \A q \in Row \ {r} : EventState(q)' = EventState(q)
  BY AddElsewhere, OtherEvents
<1>2. JobsKept
  <2>1. <<r, n>> \in Job
    BY InJob
  <2>2. QED
    BY <2>1, AddCounts
<1>3. CASE Queued(r)
  <2>1. Queued(r)'
    BY <1>2, <1>3, QueuedKept
  <2>2. EventState(r)' = EventState(r)
    BY <1>3, <2>1 DEF EventState
  <2>3. QED
    BY <1>1, <2>2, EventMoves
<1>4. CASE ~Queued(r)
  <2>1. /\ EventState(r) = IF status[r] = "FAILED" THEN "dead" ELSE "owed"
        /\ EventState(r)' \in {EventState(r), "queued"}
    BY <1>4 DEF EventState
  <2>2. QED
    BY <1>1, <2>1, EventMoves
<1>5. QED
  BY <1>3, <1>4

LEMMA StepMaps ==
    ASSUME PInv, [Next]_vars
    PROVE  [Promise!Next]_Events
<1> USE DEF PInv, QInv
<1>1. CASE UNCHANGED <<status, added>>
  <2>1. \A q \in Row : EventState(q)' = EventState(q)
    BY <1>1, OtherEvents
  <2>2. QED
    BY <2>1 DEF Events
<1>2. ASSUME NEW r \in Row, Commit(r) PROVE [Promise!Next]_Events
  <2>1. added' = added /\ status[r] = "absent" /\ status'[r] = "PENDING"
        /\ \A q \in Row \ {r} : status'[q] = status[q]
    BY <1>2 DEF Commit, queueVars, TInv, TypeOK
  <2>2. Legs[r] \in 1..2 /\ added[<<r, 1>>] = 0
    <3>1. Legs[r] \in 1..2
      BY ConstantsAssumption
    <3>2. 1 \in 1..2
      OBVIOUS
    <3>3. \A n \in 1..2 : added[<<r, n>>] = 0
      BY <2>1 DEF Untouched
    <3>4. added[<<r, 1>>] = 0
      BY <3>2, <3>3, Zenon
    <3>5. QED
      BY <3>1, <3>4
  <2>3. ~Queued(r)'
    BY <2>1, <2>2 DEF Queued
  <2>4. EventState(r) = "none" /\ EventState(r)' = "owed"
    BY <2>1, <2>3 DEF EventState
  <2>5. \A q \in Row \ {r} : EventState(q)' = EventState(q)
    BY <2>1, OtherEvents
  <2>6. QED
    BY <2>4, <2>5, EventMoves
<1>3. ASSUME NEW r \in Row, FastAdd(r) PROVE [Promise!Next]_Events
  BY <1>3, FastCall, CallMaps DEF FastAdd, rowVars, Untouched, TInv
<1>4. ASSUME NEW p \in Relay, NEW h \in Row, RelayAdd(p, h) PROVE [Promise!Next]_Events
  BY <1>4, RelayCall, CallMaps DEF RelayAdd, At, rowVars, Untouched, TInv
<1>5. ASSUME NEW r \in Row, Queued(r), status[r] # "absent", status'[r] # "absent",
             added' = added, \A q \in Row \ {r} : status'[q] = status[q]
      PROVE  [Promise!Next]_Events
  <2>1. Queued(r)'
    BY <1>5 DEF Queued
  <2>2. EventState(r)' = EventState(r)
    BY <1>5, <2>1 DEF EventState
  <2>3. \A q \in Row \ {r} : EventState(q)' = EventState(q)
    BY <1>5, OtherEvents
  <2>4. QED
    BY <2>2, <2>3, EventMoves
<1>6. ASSUME NEW r \in Row, FastMark(r) PROVE [Promise!Next]_Events
  <2>1. Queued(r) /\ status[r] # "absent"
    BY <1>6 DEF FastMark, Dispatched, CallsCounted, CallsMade, Queued, Untouched
  <2>2. /\ added' = added /\ status'[r] # "absent"
        /\ \A q \in Row \ {r} : status'[q] = status[q]
    BY <1>6 DEF FastMark, queueVars, TInv, TypeOK
  <2>3. QED
    BY <1>5, <2>1, <2>2
<1>7. ASSUME NEW p \in Relay, NEW h \in Row, RelayMark(p, h) PROVE [Promise!Next]_Events
  <2>1. Queued(h) /\ status[h] # "absent"
    BY <1>7 DEF RelayMark, At, Dispatched, CallsCounted, CallsMade, Queued, Untouched
  <2>2. /\ added' = added /\ status'[h] # "absent"
        /\ \A q \in Row \ {h} : status'[q] = status[q]
    BY <1>7 DEF RelayMark, queueVars, TInv, TypeOK
  <2>3. QED
    BY <1>5, <2>1, <2>2
<1>8. ASSUME NEW p \in Relay, NEW h \in Row, RelayRecordFailure(p, h)
      PROVE  [Promise!Next]_Events
  <2>1. /\ added' = added /\ h \in todo[p]
        /\ status'[h] \in {"FAILED", "PENDING"}
        /\ \A q \in Row \ {h} : status'[q] = status[q]
    BY <1>8 DEF RelayRecordFailure, StatusAfterFailure, At, queueVars, TInv, TypeOK
  <2>2. status[h] \notin {"absent", "FAILED"}
    BY <2>1 DEF Untouched, Released
  <2>3. CASE Queued(h)
    BY <1>5, <2>1, <2>2, <2>3
  <2>4. CASE ~Queued(h)
    <3>1. ~Queued(h)'
      BY <2>1, <2>4 DEF Queued
    <3>2. EventState(h) = "owed" /\ EventState(h)' \in {"dead", "owed"}
      BY <2>1, <2>2, <2>4, <3>1 DEF EventState
    <3>3. \A q \in Row \ {h} : EventState(q)' = EventState(q)
      BY <2>1, OtherEvents
    <3>4. QED
      BY <3>2, <3>3, EventMoves
  <2>5. QED
    BY <2>3, <2>4
<1>9. ASSUME NEW p \in Relay, Claim(p) PROVE [Promise!Next]_Events
  <2>1. PICK S \in SUBSET Row :
          /\ IsBatch(S)
          /\ status' = [r \in Row |-> IF r \in S THEN "PROCESSING" ELSE status[r]]
    BY <1>9 DEF Claim
  <2>2. added' = added /\ \A r \in S : status[r] \in {"PENDING", "PROCESSING"}
    BY <1>9, <2>1 DEF Claim, queueVars, IsBatch, Eligible
  <2>3. \A q \in Row : EventState(q)' = EventState(q)
    <3>1. SUFFICES ASSUME NEW q \in Row PROVE EventState(q)' = EventState(q)
      OBVIOUS
    <3>2. CASE q \notin S
      BY <2>1, <2>2, <3>2, OtherEvents
    <3>3. CASE q \in S
      <4>1. status'[q] = "PROCESSING" /\ status[q] \in {"PENDING", "PROCESSING"}
        BY <2>1, <2>2, <3>3
      <4>2. Queued(q)' <=> Queued(q)
        BY <2>2 DEF Queued
      <4>3. QED
        BY <4>1, <4>2 DEF EventState
    <3>4. QED
      BY <3>2, <3>3
  <2>4. QED
    BY <2>3 DEF Events
<1>10. QED
  BY <1>1, <1>2, <1>3, <1>4, <1>6, <1>7, <1>8, <1>9
     DEF Next, Dispatch, FastGiveUp, Elapse, RelayFail, RelayCrash, Evict,
         vars, rowVars, relayVars, queueVars

-----------------------------------------------------------------------------
(* Theorems *)

\* Every table and every process holds values of its type.
THEOREM TypeCorrect == Spec => []TypeOK
<1>1. TInv => TypeOK
  BY DEF TInv
<1>2. QED BY <1>1, TInvAlways, PTL

\* A row is given up only after MaxAttempts recorded failures (relayOnce).
THEOREM FailedMeansExhaustedAlways == Spec => []FailedMeansExhausted
<1>1. Init => FInv
  BY TInvInit, ConstantsAssumption
     DEF Init, FInv, CountersHonest, FailedMeansExhausted
<1>2. FInv /\ TInv' /\ [Next]_vars => FInv'
  BY FInvNext
<1>3. FInv => FailedMeansExhausted
  BY DEF FInv
<1>4. QED BY <1>1, <1>2, <1>3, TInvAlways, PTL DEF Spec

\* A row is marked SENT only once all its jobs were created (dispatch,
\* relayOnce, dispatchNowBestEffort).
THEOREM SentMeansQueuedAlways == Spec => []SentMeansQueued
<1>1. Init => QInv
  BY TInvInit DEF Init, Off, QInv, CallsCounted, At, SentMeansQueued
<1>2. QInv /\ TInv' /\ [Next]_vars => QInv'
  BY CallsCountedNext DEF QInv
<1>3. QInv => SentMeansQueued
  BY DEF QInv
<1>4. QED BY <1>1, <1>2, <1>3, TInvAlways, PTL DEF Spec

\* With one relay the attempts of a row are its recorded failures (relayOnce).
THEOREM AttemptsExactAlways ==
    ASSUME OneRelay
    PROVE  Spec => []AttemptsExact
<1>1. Init => EInv
  BY TInvInit DEF Init, EInv, AttemptsExact, SnapExact
<1>2. EInv /\ TInv' /\ [Next]_vars => EInv'
  BY EInvNext
<1>3. EInv => AttemptsExact
  BY DEF EInv
<1>4. QED BY <1>1, <1>2, <1>3, TInvAlways, PTL DEF Spec

\* With one relay no step of the outbox breaks the promise of AtLeastOnce: an
\* accepted event is owed until all its jobs are queued or it is given up, and
\* nothing that was queued is owed again.
THEOREM OutboxKeepsPromise ==
    ASSUME OneRelay
    PROVE  Spec => Promise!Spec
<1>1. Init => PInv
  BY TInvInit DEF Init, Off, PInv, QInv, CallsCounted, At, SentMeansQueued,
                  Untouched, Released, Job
<1>2. PInv /\ TInv' /\ [Next]_vars => PInv'
  BY CallsCountedNext, PInvNext DEF PInv, QInv
<1>3. Init => Promise!Init
  BY DEF Init, Promise!Init, EventState
<1>4. PInv /\ [Next]_vars => [Promise!Next]_Events
  BY StepMaps
<1>5. QED BY <1>1, <1>2, <1>3, <1>4, TInvAlways, PTL DEF Spec, Promise!Spec, Events
=============================================================================
