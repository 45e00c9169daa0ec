------------------------ MODULE CandidateMergeProofs ------------------------
(***************************************************************************)
(* As long as merges do not overlap, following mergedIntoId ends and leads *)
(* to everything a person sent, for any number of candidates, jobs and     *)
(* requests.                                                               *)
(***************************************************************************)
EXTENDS CandidateMerge, TLAPS

LEMMA RequestTypes ==
    /\ Idle \in Request
    /\ \A q \in Request : q.left \subseteq Cand /\ q.next \in CandOrNone
  BY DEF Idle, Request, CandOrNone

\* A handler that ends holds nothing.
LEMMA FinishTyped ==
    ASSUME TypeOK, NEW r \in Req, Finish(r), UNCHANGED tables
    PROVE  TypeOK'
  BY RequestTypes DEF TypeOK, Finish, Idle, tables

LEMMA FinishRequest ==
    ASSUME TypeOK, NEW r \in Req, Finish(r)
    PROVE  /\ req' \in [Req -> Request]
           /\ \A q \in Req :
                /\ req'[q].pc # "idle" => {req'[q].who, req'[q].at} \subseteq Cand
                /\ req'[q].pc \in {"check", "recheck", "commit"} =>
                     req'[q].job \in Job
  BY RequestTypes DEF TypeOK, Finish, Idle

LEMMA ReturnTyped ==
    ASSUME TypeOK, NEW r \in Req, req[r].pc # "idle", Return(r), UNCHANGED tables
    PROVE  TypeOK'
<1>1. CASE req[r].job = None
  BY <1>1, FinishTyped DEF Return
<1>2. CASE req[r].job # None
  <2>1. req' = [req EXCEPT ![r].pc = "check", ![r].next = None, ![r].left = {}]
    BY <1>2 DEF Return
  <2>2. req[r] \in Request /\ req[r].job \in Job
    BY <1>2 DEF TypeOK, Request
  <2>3. req' \in [Req -> Request]
    BY <2>1, <2>2 DEF TypeOK, Request, CandOrNone
  <2>4. QED
    BY <2>1, <2>2, <2>3 DEF TypeOK, tables
<1>3. QED BY <1>1, <1>2

LEMMA FoundTyped ==
    ASSUME TypeOK, NEW r \in Req, NEW p \in Cand, NEW j \in Job \union {None},
           Found(r, p, j), UNCHANGED tables
    PROVE  TypeOK'
<1>1. merged[p] \in CandOrNone
  BY DEF TypeOK
<1>2. QED
  BY <1>1 DEF Found, TypeOK, Request, CandOrNone, tables

LEMMA GotoTyped ==
    ASSUME TypeOK, NEW r \in Req, req[r].pc # "idle",
           NEW pc \in {"check", "resume", "recheck", "commit", "merge.commit"},
           pc \in {"check", "recheck", "commit"} => req[r].job \in Job,
           Goto(r, pc)
    PROVE  /\ req' \in [Req -> Request]
           /\ \A q \in Req :
                /\ req'[q].pc # "idle" => {req'[q].who, req'[q].at} \subseteq Cand
                /\ req'[q].pc \in {"check", "recheck", "commit"} =>
                     req'[q].job \in Job
<1>1. req[r] \in Request
  BY DEF TypeOK
<1>2. [req[r] EXCEPT !.pc = pc] \in Request
  BY <1>1 DEF Request
<1>3. req' \in [Req -> Request]
  BY <1>2 DEF Goto, TypeOK
<1>4. QED
  BY <1>3 DEF Goto, TypeOK

LEMMA TypedInit == Init => TypeOK
<1> SUFFICES ASSUME Init PROVE TypeOK
  OBVIOUS
<1>1. req \in [Req -> Request]
  BY RequestTypes DEF Init
<1>2. QED
  BY <1>1 DEF Init, TypeOK, CandOrNone, LinkStatus, Idle

LEMMA TypedCreateOrGet ==
    ASSUME TypeOK, NEW r \in Req, CreateOrGet(r)
    PROVE  TypeOK'
<1>1. ASSUME NEW p \in Cand, NEW j \in Job \union {None}, Find(r, p, j)
      PROVE  TypeOK'
  <2>1. CASE p \in exists
    BY <1>1, <2>1, FoundTyped DEF Find
  <2>2. CASE p \notin exists
    <3>1. [pc |-> "create", who |-> p, job |-> j, at |-> p, next |-> None,
           left |-> {}] \in Request
      BY DEF Request, CandOrNone
    <3>2. req' \in [Req -> Request]
      BY <1>1, <2>2, <3>1 DEF Find, TypeOK
    <3>3. QED
      BY <1>1, <2>2, <3>2 DEF Find, TypeOK, tables
  <2>3. QED BY <2>1, <2>2
<1>2. ASSUME Create(r) PROVE TypeOK'
  <2>1. PICK S \in Matches(req[r].who) :
          req' = [req EXCEPT ![r].pc = "scanNew", ![r].left = S]
    BY <1>2 DEF Create
  <2>2. S \subseteq Cand
    BY <2>1 DEF Matches, TypeOK
  <2>3. req[r] \in Request
    BY DEF TypeOK
  <2>4. req' \in [Req -> Request]
    BY <2>1, <2>2, <2>3 DEF TypeOK, Request
  <2>5. QED
    BY <1>2, <2>1, <2>4 DEF Create, TypeOK
<1>3. ASSUME CreateLost(r) PROVE TypeOK'
  <2>1. req[r].who \in Cand /\ req[r].job \in Job \union {None}
    BY <1>3 DEF CreateLost, TypeOK, Request
  <2>2. QED BY <1>3, <2>1, FoundTyped DEF CreateLost
<1>4. ASSUME Follow(r) PROVE TypeOK'
  <2>1. req[r] \in Request /\ req[r].next \in Cand
    BY <1>4 DEF Follow, TypeOK, Request, CandOrNone
  <2>2. merged[req[r].next] \in CandOrNone
    BY <2>1 DEF TypeOK
  <2>3. req[r].left \subseteq Cand
    BY <2>1, RequestTypes
  <2>4. req' \in [Req -> Request]
    BY <1>4, <2>1, <2>2, <2>3 DEF Follow, TypeOK, Request, CandOrNone
  <2>5. QED
    BY <1>4, <2>1, <2>4 DEF Follow, TypeOK, tables
<1>5. ASSUME Resolved(r) PROVE TypeOK'
  BY <1>5, ReturnTyped DEF Resolved
<1>6. QED
  BY <1>1, <1>2, <1>3, <1>4, <1>5 DEF CreateOrGet

LEMMA TypedAttach ==
    ASSUME TypeOK, NEW r \in Req, Attach(r)
    PROVE  TypeOK'
<1>1. ASSUME NEW c \in Cand, NEW j \in Job \union {None}, Open(r, c, j)
      PROVE  TypeOK'
  BY <1>1 DEF Open, TypeOK, Request, CandOrNone, tables
<1>2. ASSUME NEW pc \in {"check", "recheck"}, NEW then \in {"resume", "commit"},
             Check(r, pc, then)
      PROVE  TypeOK'
  <2>1. req[r].job \in Job /\ req[r].pc # "idle"
    BY <1>2 DEF Check, TypeOK
  <2>2. CASE Finish(r)
    BY <1>2, <2>2, FinishTyped DEF Check
  <2>3. CASE Goto(r, then)
    BY <1>2, <2>1, <2>3, GotoTyped DEF Check, TypeOK, tables
  <2>4. QED BY <1>2, <2>2, <2>3 DEF Check
<1>3. ASSUME AddResume(r) PROVE TypeOK'
  <2>1. req[r] \in Request /\ req[r].who \in Cand /\ req[r].at \in Cand
    BY <1>3 DEF AddResume, TypeOK
  <2>2. resumes' \in [Cand -> SUBSET Cand]
    BY <1>3, <2>1 DEF AddResume, TypeOK
  <2>3. CASE req[r].job = None
    BY <1>3, <2>2, <2>3, FinishRequest DEF AddResume, TypeOK
  <2>4. CASE req[r].job # None
    <3>1. req[r].job \in Job
      BY <2>1, <2>4 DEF Request
    <3>2. QED
      BY <1>3, <2>2, <2>4, <3>1, GotoTyped DEF AddResume, TypeOK
  <2>5. QED BY <2>3, <2>4
<1>4. ASSUME ApplyCommit(r) PROVE TypeOK'
  <2>1. /\ <<req[r].at, req[r].job>> \in Cand \X Job
        /\ <<req[r].who, req[r].job>> \in Cand \X Job
        /\ req[r].who \in CandOrNone
    BY <1>4 DEF ApplyCommit, TypeOK, CandOrNone
  <2>2. applicant' \in [Cand \X Job -> CandOrNone]
    BY <1>4, <2>1 DEF ApplyCommit, TypeOK
  <2>3. QED
    BY <1>4, <2>1, <2>2, FinishRequest DEF ApplyCommit, TypeOK
<1>5. ASSUME ApplyRollback(r) PROVE TypeOK'
  BY <1>5, FinishTyped DEF ApplyRollback
<1>6. QED
  BY <1>1, <1>2, <1>3, <1>4, <1>5 DEF Attach

LEMMA TypedMerge ==
    ASSUME TypeOK, NEW r \in Req, Merge(r)
    PROVE  TypeOK'
<1>1. ASSUME NEW s \in Cand, NEW d \in Cand, MergeStart(r, s, d) PROVE TypeOK'
  BY <1>1 DEF MergeStart, TypeOK, Request, CandOrNone, tables
<1>2. ASSUME MergeRead(r) PROVE TypeOK'
  <2>1. CASE Finish(r)
    BY <1>2, <2>1, FinishTyped DEF MergeRead
  <2>2. CASE ~Finish(r)
    <3>1. PICK c \in req[r].left :
            req' = [req EXCEPT ![r].left = @ \ {c},
                               ![r].pc = IF req[r].left = {c}
                                           THEN "merge.commit" ELSE @]
      BY <1>2, <2>2 DEF MergeRead
    <3>2. req[r] \in Request
      BY DEF TypeOK
    <3>3. req' \in [Req -> Request]
      BY <3>1, <3>2 DEF TypeOK, Request
    <3>4. QED
      BY <1>2, <3>1, <3>3 DEF MergeRead, TypeOK, tables
  <2>3. QED BY <2>1, <2>2
<1>3. ASSUME MergeCommit(r) PROVE TypeOK'
  <2> DEFINE s == req[r].who
             d == req[r].at
  <2>1. s \in Cand /\ d \in Cand
    BY <1>3 DEF MergeCommit, TypeOK
  <2>2. Moved(s, d) \in [Cand \X Job -> CandOrNone]
    BY <2>1 DEF Moved, TypeOK, CandOrNone
  <2>3. Relinked(s, d) \in [Pair -> LinkStatus]
    BY <2>1 DEF Relinked, TypeOK, LinkStatus
  <2>4. /\ resumes' \in [Cand -> SUBSET Cand]
        /\ merged' \in [Cand -> CandOrNone]
    BY <1>3, <2>1 DEF MergeCommit, TypeOK, CandOrNone
  <2>5. QED
    BY <1>3, <2>2, <2>3, <2>4, FinishRequest DEF MergeCommit, TypeOK
<1>4. QED
  BY <1>1, <1>2, <1>3 DEF Merge

LEMMA TypedScan ==
    ASSUME TypeOK, NEW r \in Req, Scan(r)
    PROVE  TypeOK'
<1>1. ASSUME NEW c \in Cand, ScanFind(r, c) PROVE TypeOK'
  <2>1. PICK S \in Matches(c) :
          req' = [req EXCEPT ![r] = [pc |-> "scan", who |-> c, job |-> None,
                                     at |-> c, next |-> None, left |-> S]]
    BY <1>1 DEF ScanFind
  <2>2. S \subseteq Cand
    BY <2>1 DEF Matches, TypeOK
  <2>3. QED
    BY <1>1, <2>1, <2>2 DEF ScanFind, TypeOK, Request, CandOrNone, tables
<1>2. ASSUME ScanLink(r) PROVE TypeOK'
  <2>1. PICK d \in req[r].left :
          /\ \E sure \in BOOLEAN : UpsertLink({req[r].at, d}, sure)
          /\ req' = [req EXCEPT ![r].left = @ \ {d}]
    BY <1>2 DEF ScanLink
  <2>2. PICK sure \in BOOLEAN : UpsertLink({req[r].at, d}, sure)
    BY <2>1
  <2>3. req[r] \in Request /\ req[r].at \in Cand /\ d \in Cand
    BY <1>2, <2>1, RequestTypes DEF ScanLink, TypeOK
  <2>4. link' \in [Pair -> LinkStatus]
    BY <2>2 DEF UpsertLink, TypeOK, LinkStatus
  <2>5. req' \in [Req -> Request]
    BY <2>1, <2>3 DEF TypeOK, Request
  <2>6. certain' \subseteq SUBSET Cand
    BY <2>2, <2>3 DEF UpsertLink, TypeOK
  <2>7. QED
    BY <1>2, <2>1, <2>4, <2>5, <2>6 DEF ScanLink, TypeOK
<1>3. ASSUME ScanEnd(r) PROVE TypeOK'
  BY <1>3, FinishTyped, ReturnTyped DEF ScanEnd
<1>4. QED
  BY <1>1, <1>2, <1>3 DEF Scan

-----------------------------------------------------------------------------
(* Types *)

\* Every table and every request holds values of its type; in particular no
\* handler reaches the lookups of apply without a job.
THEOREM TypeCorrect == Spec => []TypeOK
<1>1. TypeOK /\ [Next]_vars => TypeOK'
  <2> SUFFICES ASSUME TypeOK, [Next]_vars PROVE TypeOK'
    OBVIOUS
  <2>1. CASE UNCHANGED vars
    BY <2>1 DEF vars, tables, TypeOK
  <2>2. ASSUME NEW r \in Req, Abandon(r) PROVE TypeOK'
    BY <2>2, FinishTyped DEF Abandon
  <2>3. ASSUME NEW p \in Pair, NEW decision \in {"CONFIRMED", "DISMISSED"},
               Review(p, decision)
        PROVE  TypeOK'
    BY <2>3 DEF Review, TypeOK, LinkStatus
  <2>4. QED
    BY <2>1, <2>2, <2>3, TypedCreateOrGet, TypedAttach, TypedMerge, TypedScan
       DEF Next
<1>2. QED
  BY <1>1, TypedInit, PTL DEF Spec

-----------------------------------------------------------------------------
(* Merges one at a time *)

IsMerging(r) == req[r].pc \in {"merge.read", "merge.commit"}

\* What a merge holds: the candidates it has read were live, and still are, as
\* no other merge is under way.
MergeHolds ==
    /\ \A q, r \in Req : IsMerging(q) /\ IsMerging(r) => q = r
    /\ \A r \in Req : IsMerging(r) =>
         /\ req[r].who # req[r].at
         /\ req[r].pc = "merge.read" =>
              /\ req[r].left # {}
              /\ \A c \in {req[r].who, req[r].at} \ req[r].left : merged[c] = None
         /\ req[r].pc = "merge.commit" =>
              merged[req[r].who] = None /\ merged[req[r].at] = None

\* No other step merges a candidate.
LEMMA OnlyMergeCommitMerges ==
    ASSUME [Next]_vars
    PROVE  UNCHANGED merged \/ \E r \in Req : MergeCommit(r)
  BY DEF Next, CreateOrGet, Find, Create, CreateLost, Follow, Resolved, Attach,
         Open, Check, AddResume, ApplyCommit, ApplyRollback, Merge, MergeStart,
         MergeRead, Scan, ScanFind, ScanLink, ScanEnd, Abandon, Review, vars,
         tables

\* A handler's step changes what that handler holds, and no other.
Alone(r) == \A q \in Req \ {r} : req'[q] = req[q]

\* Where the handlers of createOrGetCandidate, apply, the scans and those that
\* end go on: never to a merge, and with the same two candidates unless they
\* began or ended, or followed a mergedIntoId.
Stays(r) == /\ req[r].pc \notin {"idle", "merge.read", "merge.commit"}
            /\ req'[r].who = req[r].who
            /\ req'[r].at = req[r].at
            /\ req'[r].pc # "resolve"

Begins(r) == req'[r].at = req'[r].who

LEMMA FinishAlone ==
    ASSUME TypeOK, NEW r \in Req, Finish(r)
    PROVE  Alone(r) /\ Begins(r) /\ req'[r].pc = "idle"
  BY DEF Finish, Alone, Begins, Idle, TypeOK

LEMMA FoundAlone ==
    ASSUME TypeOK, NEW r \in Req, NEW p \in Cand, NEW j \in Job \union {None},
           Found(r, p, j)
    PROVE  /\ Alone(r) /\ Begins(r)
           /\ req'[r].pc = "resolve" /\ req'[r].next = merged[req'[r].at]
  BY DEF Found, Alone, Begins, TypeOK

LEMMA GotoAlone ==
    ASSUME TypeOK, NEW r \in Req, NEW pc \in {"check", "resume", "recheck", "commit"},
           req[r].pc \notin {"idle", "merge.read", "merge.commit"}, Goto(r, pc)
    PROVE  Alone(r) /\ Stays(r) /\ req'[r].pc = pc
<1>1. req[r] \in Request
  BY DEF TypeOK
<1>2. QED
  BY <1>1 DEF Goto, Alone, Stays, TypeOK, Request

LEMMA ReturnAlone ==
    ASSUME TypeOK, NEW r \in Req, Return(r),
           req[r].pc \notin {"idle", "merge.read", "merge.commit"}
    PROVE  /\ Alone(r)
           /\ Stays(r) \/ Begins(r)
           /\ req'[r].pc \in {"idle", "check"}
<1>1. req[r] \in Request
  BY DEF TypeOK
<1>2. CASE req[r].job = None
  BY <1>2, FinishAlone DEF Return
<1>3. CASE req[r].job # None
  BY <1>1, <1>3 DEF Return, Alone, Stays, TypeOK, Request
<1>4. QED BY <1>2, <1>3

LEMMA CreateOrGetStep ==
    ASSUME TypeOK, NEW r \in Req, CreateOrGet(r)
    PROVE  /\ Alone(r) /\ ~IsMerging(r)'
           /\ \/ Stays(r) \/ Begins(r)
              \/ Follow(r)
           /\ UNCHANGED <<merged, resumes, applicant, submitted, stray>>
           /\ req'[r].pc = "resolve" /\ ~Follow(r) =>
                req'[r].next = merged[req'[r].at]
<1> USE DEF IsMerging
<1>r. req \in [Req -> Request] /\ req[r] \in Request
  BY DEF TypeOK
<1>1. ASSUME NEW p \in Cand, NEW j \in Job \union {None}, Find(r, p, j)
      PROVE  /\ Alone(r) /\ ~IsMerging(r)' /\ Begins(r)
             /\ UNCHANGED <<merged, resumes, applicant, submitted, stray>>
             /\ req'[r].pc = "resolve" => req'[r].next = merged[req'[r].at]
  <2>1. CASE p \in exists
    BY <1>1, <2>1, FoundAlone DEF Find, tables
  <2>2. CASE p \notin exists
    BY <1>1, <2>2, <1>r DEF Find, Alone, Begins, tables
  <2>3. QED BY <2>1, <2>2
<1>2. ASSUME Create(r)
      PROVE  /\ Alone(r) /\ ~IsMerging(r)' /\ Stays(r)
             /\ UNCHANGED <<merged, resumes, applicant, submitted, stray>>
  BY <1>2, <1>r DEF Create, Alone, Stays, Request
<1>3. ASSUME CreateLost(r)
      PROVE  /\ Alone(r) /\ ~IsMerging(r)' /\ Begins(r)
             /\ UNCHANGED <<merged, resumes, applicant, submitted, stray>>
             /\ req'[r].next = merged[req'[r].at]
  <2>1. req[r].who \in Cand /\ req[r].job \in Job \union {None}
    BY <1>3, <1>r DEF CreateLost, TypeOK, Request
  <2>2. QED BY <1>3, <2>1, FoundAlone DEF CreateLost, tables
<1>4. ASSUME Follow(r)
      PROVE  /\ Alone(r) /\ ~IsMerging(r)'
             /\ UNCHANGED <<merged, resumes, applicant, submitted, stray>>
  BY <1>4, <1>r DEF Follow, Alone, tables, Request
<1>5. ASSUME Resolved(r)
      PROVE  /\ Alone(r) /\ ~IsMerging(r)' /\ (Stays(r) \/ Begins(r))
             /\ UNCHANGED <<merged, resumes, applicant, submitted, stray>>
             /\ req'[r].pc # "resolve"
  BY <1>5, <1>r, ReturnAlone DEF Resolved, tables
<1>6. QED
  BY <1>1, <1>2, <1>3, <1>4, <1>5 DEF CreateOrGet, Stays

LEMMA AttachStep ==
    ASSUME TypeOK, NEW r \in Req, Attach(r)
    PROVE  /\ Alone(r) /\ ~IsMerging(r)'
           /\ Stays(r) \/ Begins(r)
           /\ req'[r].pc # "resolve"
           /\ UNCHANGED merged
           /\ \/ UNCHANGED <<resumes, applicant, submitted, stray>>
              \/ AddResume(r) \/ ApplyCommit(r)
<1> USE DEF IsMerging
<1>r. req \in [Req -> Request] /\ req[r] \in Request
  BY DEF TypeOK
<1>1. ASSUME NEW c \in Cand, NEW j \in Job \union {None}, Open(r, c, j)
      PROVE  /\ Alone(r) /\ ~IsMerging(r)' /\ Begins(r)
             /\ UNCHANGED <<merged, resumes, applicant, submitted, stray>>
             /\ req'[r].pc # "resolve"
  BY <1>1, <1>r DEF Open, Alone, Begins, tables
<1>2. ASSUME NEW pc \in {"check", "recheck"}, NEW then \in {"resume", "commit"},
             Check(r, pc, then)
      PROVE  /\ Alone(r) /\ ~IsMerging(r)' /\ (Stays(r) \/ Begins(r))
             /\ UNCHANGED <<merged, resumes, applicant, submitted, stray>>
             /\ req'[r].pc # "resolve"
  BY <1>2, <1>r, FinishAlone, GotoAlone DEF Check, tables
<1>3. ASSUME AddResume(r)
      PROVE  /\ Alone(r) /\ ~IsMerging(r)' /\ (Stays(r) \/ Begins(r))
             /\ UNCHANGED merged
             /\ req'[r].pc # "resolve"
  <2>1. Finish(r) \/ Goto(r, "recheck")
    BY <1>3 DEF AddResume
  <2>2. QED
    BY <1>3, <2>1, <1>r, FinishAlone, GotoAlone DEF AddResume
<1>4. ASSUME ApplyCommit(r) \/ ApplyRollback(r)
      PROVE  /\ Alone(r) /\ ~IsMerging(r)' /\ Begins(r)
             /\ UNCHANGED merged
             /\ req'[r].pc # "resolve"
             /\ \/ UNCHANGED <<resumes, applicant, submitted, stray>>
                \/ ApplyCommit(r)
  BY <1>4, FinishAlone DEF ApplyCommit, ApplyRollback, tables
<1>5. QED
  BY <1>1, <1>2, <1>3, <1>4 DEF Attach

LEMMA ScanStep ==
    ASSUME TypeOK, NEW r \in Req, Scan(r)
    PROVE  /\ Alone(r) /\ ~IsMerging(r)'
           /\ Stays(r) \/ Begins(r)
           /\ req'[r].pc # "resolve"
           /\ UNCHANGED <<merged, resumes, applicant, submitted, stray>>
<1> USE DEF IsMerging
<1>r. req \in [Req -> Request] /\ req[r] \in Request
  BY DEF TypeOK
<1>1. ASSUME NEW c \in Cand, ScanFind(r, c)
      PROVE  /\ Alone(r) /\ ~IsMerging(r)' /\ Begins(r)
             /\ UNCHANGED <<merged, resumes, applicant, submitted, stray>>
             /\ req'[r].pc # "resolve"
  BY <1>1, <1>r DEF ScanFind, Alone, Begins, tables
<1>2. ASSUME ScanLink(r)
      PROVE  /\ Alone(r) /\ ~IsMerging(r)' /\ Stays(r)
             /\ UNCHANGED <<merged, resumes, applicant, submitted, stray>>
  <2>1. PICK d \in req[r].left : req' = [req EXCEPT ![r].left = @ \ {d}]
    BY <1>2 DEF ScanLink
  <2>2. QED
    BY <1>2, <2>1, <1>r DEF ScanLink, Alone, Stays, Request
<1>3. ASSUME ScanEnd(r)
      PROVE  /\ Alone(r) /\ ~IsMerging(r)' /\ (Stays(r) \/ Begins(r))
             /\ UNCHANGED <<merged, resumes, applicant, submitted, stray>>
             /\ req'[r].pc # "resolve"
  BY <1>3, <1>r, FinishAlone, ReturnAlone DEF ScanEnd, tables
<1>4. QED
  BY <1>1, <1>2, <1>3 DEF Scan, Stays
-----------------------------------------------------------------------------
(* The merge graph *)

\* Each step is one of a handler's or leaves the handlers alone; merged changes
\* only at the end of a merge.
LEMMA Steps ==
    ASSUME TypeOK, [Next]_vars
    PROVE  \/ UNCHANGED <<merged, resumes, applicant, submitted, stray, req>>
           \/ \E r \in Req :
                /\ Alone(r)
                /\ \/ /\ ~IsMerging(r)'
                      /\ UNCHANGED merged
                      /\ Stays(r) \/ Begins(r) \/ Follow(r)
                      /\ \/ UNCHANGED <<resumes, applicant, submitted, stray>>
                         \/ AddResume(r) \/ ApplyCommit(r)
                      /\ req'[r].pc = "resolve" /\ ~Follow(r) =>
                           req'[r].next = merged[req'[r].at]
                   \/ \E s, d \in Cand : MergeStart(r, s, d)
                   \/ (MergeRead(r) /\ IsMerging(r)')
                   \/ MergeCommit(r)
<1> DEFINE Quiet(r) == /\ Alone(r)
                       /\ ~IsMerging(r)'
                       /\ UNCHANGED merged
                       /\ Stays(r) \/ Begins(r) \/ Follow(r)
                       /\ \/ UNCHANGED <<resumes, applicant, submitted, stray>>
                          \/ AddResume(r) \/ ApplyCommit(r)
                       /\ req'[r].pc = "resolve" /\ ~Follow(r) =>
                            req'[r].next = merged[req'[r].at]
<1>1. CASE UNCHANGED vars
  BY <1>1 DEF vars, tables
<1>2. ASSUME NEW r \in Req, CreateOrGet(r) \/ Attach(r) \/ Scan(r)
      PROVE  Quiet(r)
  BY <1>2, CreateOrGetStep, AttachStep, ScanStep
<1>3. ASSUME NEW r \in Req, Abandon(r) \/ (MergeRead(r) /\ ~IsMerging(r)')
      PROVE  Quiet(r)
  <2>1. Finish(r) /\ UNCHANGED tables
    <3>1. CASE Abandon(r)
      BY <3>1 DEF Abandon
    <3>2. CASE MergeRead(r) /\ ~IsMerging(r)'
      <4>1. CASE Finish(r)
        BY <3>2, <4>1 DEF MergeRead
      <4>2. CASE ~Finish(r)
        <5>1. PICK c \in req[r].left :
                req' = [req EXCEPT ![r].left = @ \ {c},
                                   ![r].pc = IF req[r].left = {c}
                                               THEN "merge.commit" ELSE @]
          BY <3>2, <4>2 DEF MergeRead
        <5>2. req[r].pc = "merge.read" /\ req[r] \in Request
          BY <3>2 DEF MergeRead, TypeOK
        <5>3. IsMerging(r)'
          BY <5>1, <5>2 DEF IsMerging, TypeOK, Request
        <5>4. QED BY <3>2, <5>3
      <4>3. QED BY <4>1, <4>2
    <3>3. QED BY <1>3, <3>1, <3>2
  <2>2. QED
    BY <2>1, FinishAlone DEF IsMerging, tables
<1>4. ASSUME NEW r \in Req, NEW s \in Cand, NEW d \in Cand, MergeStart(r, s, d)
      PROVE  Alone(r)
  BY <1>4 DEF MergeStart, Alone, TypeOK
<1>5. ASSUME NEW r \in Req, MergeRead(r) /\ IsMerging(r)'
      PROVE  Alone(r)
  BY <1>5, FinishAlone DEF MergeRead, Alone, TypeOK
<1>6. ASSUME NEW r \in Req, MergeCommit(r)
      PROVE  Alone(r)
  BY <1>6, FinishAlone DEF MergeCommit
<1>7. ASSUME NEW p \in Pair, NEW decision \in {"CONFIRMED", "DISMISSED"},
             Review(p, decision)
      PROVE  UNCHANGED <<merged, resumes, applicant, submitted, stray, req>>
  BY <1>7 DEF Review
<1>8. ASSUME NEW r \in Req,
             CreateOrGet(r) \/ Attach(r) \/ Merge(r) \/ Scan(r) \/ Abandon(r)
      PROVE  /\ Alone(r)
             /\ \/ Quiet(r)
                \/ \E s, d \in Cand : MergeStart(r, s, d)
                \/ MergeRead(r) /\ IsMerging(r)'
                \/ MergeCommit(r)
  <2> HIDE DEF Quiet
  <2>1. CASE CreateOrGet(r) \/ Attach(r) \/ Scan(r) \/ Abandon(r)
    <3>1. Quiet(r)
      <4>1. CASE Abandon(r)
        BY <1>3, <4>1
      <4>2. CASE CreateOrGet(r) \/ Attach(r) \/ Scan(r)
        BY <1>2, <4>2
      <4>3. QED BY <2>1, <4>1, <4>2
    <3>2. QED BY <3>1 DEF Quiet
  <2>2. CASE Merge(r)
    <3>1. \/ \E s, d \in Cand : MergeStart(r, s, d)
          \/ MergeRead(r) \/ MergeCommit(r)
      BY <2>2 DEF Merge
    <3>2. CASE \E s, d \in Cand : MergeStart(r, s, d)
      BY <1>4, <3>2
    <3>3. CASE MergeRead(r) /\ ~IsMerging(r)'
      <4>1. Quiet(r)
        BY <1>3, <3>3
      <4>2. QED BY <4>1 DEF Quiet
    <3>4. CASE MergeRead(r) /\ IsMerging(r)'
      BY <1>5, <3>4
    <3>5. CASE MergeCommit(r)
      BY <1>6, <3>5
    <3>6. QED BY <3>1, <3>2, <3>3, <3>4, <3>5
  <2>3. QED BY <1>8, <2>1, <2>2
<1>9. CASE \E r \in Req :
             CreateOrGet(r) \/ Attach(r) \/ Merge(r) \/ Scan(r) \/ Abandon(r)
  BY <1>8, <1>9
<1>10. QED
  BY <1>1, <1>7, <1>9 DEF Next

LEMMA MergeHoldsNext ==
    ASSUME TypeOK, MergeHolds, ~ConcurrentMerges, [Next]_vars
    PROVE  MergeHolds'
<1>r. req \in [Req -> Request]
  BY DEF TypeOK
<1>1. CASE UNCHANGED <<merged, req>>
  BY <1>1 DEF MergeHolds, IsMerging
<1>2. ASSUME NEW r \in Req, Alone(r), ~IsMerging(r)', UNCHANGED merged
      PROVE  MergeHolds'
  BY <1>2 DEF Alone, MergeHolds, IsMerging
<1>3. ASSUME NEW r \in Req, NEW s \in Cand, NEW d \in Cand, Alone(r),
             MergeStart(r, s, d)
      PROVE  MergeHolds'
  <2>1. \A q \in Req \ {r} : ~IsMerging(q)'
    BY <1>3 DEF MergeStart, Merging, IsMerging, Alone
  <2>2. /\ req'[r].pc = "merge.read" /\ req'[r].who = s /\ req'[r].at = d
        /\ req'[r].left = {s, d} /\ s # d
    BY <1>3, <1>r DEF MergeStart
  <2>3. QED
    BY <2>1, <2>2 DEF MergeHolds, IsMerging
<1>4. ASSUME NEW r \in Req, Alone(r), MergeRead(r), IsMerging(r)'
      PROVE  MergeHolds'
  <2>1. ~Finish(r)
    BY <1>4, FinishAlone DEF IsMerging
  <2>2. PICK c \in req[r].left :
          /\ merged[c] = None
          /\ req' = [req EXCEPT ![r].left = @ \ {c},
                                ![r].pc = IF req[r].left = {c}
                                            THEN "merge.commit" ELSE @]
    BY <1>4, <2>1 DEF MergeRead, MergeRefused
  <2>3. /\ req'[r].who = req[r].who /\ req'[r].at = req[r].at
        /\ req'[r].left = req[r].left \ {c}
        /\ req'[r].pc = IF req[r].left = {c} THEN "merge.commit" ELSE "merge.read"
    BY <1>4, <1>r, <2>2 DEF MergeRead, Request
  <2>4. \A q \in Req \ {r} : ~IsMerging(q)'
    BY <1>4 DEF MergeHolds, IsMerging, MergeRead, Alone
  <2>5. UNCHANGED merged
    BY <1>4 DEF MergeRead, tables
  <2>6. /\ req[r].who # req[r].at
        /\ \A e \in {req[r].who, req[r].at} \ req[r].left : merged[e] = None
    BY <1>4 DEF MergeHolds, IsMerging, MergeRead
  <2>7. \A e \in {req[r].who, req[r].at} \ (req[r].left \ {c}) : merged'[e] = None
    BY <2>2, <2>5, <2>6
  <2>8. CASE req[r].left = {c}
    <3>1. merged'[req[r].who] = None /\ merged'[req[r].at] = None
      BY <2>7, <2>8
    <3>2. req'[r].pc = "merge.commit"
      BY <2>3, <2>8
    <3>3. QED BY <2>3, <2>4, <2>6, <3>1, <3>2 DEF MergeHolds, IsMerging
  <2>9. CASE req[r].left # {c}
    <3>1. req'[r].pc = "merge.read" /\ req'[r].left # {}
      BY <2>2, <2>3, <2>9
    <3>2. QED BY <2>3, <2>4, <2>6, <2>7, <3>1 DEF MergeHolds, IsMerging
  <2>10. QED BY <2>8, <2>9
<1>5. ASSUME NEW r \in Req, Alone(r), MergeCommit(r) PROVE MergeHolds'
  <2>1. req'[r].pc = "idle"
    BY <1>5, FinishAlone DEF MergeCommit
  <2>2. \A q \in Req : ~IsMerging(q)'
    BY <1>5, <2>1 DEF MergeHolds, IsMerging, MergeCommit, Alone
  <2>3. QED BY <2>2 DEF MergeHolds
<1>6. QED
  BY <1>1, <1>2, <1>3, <1>4, <1>5, Steps

\* What the commit of a merge finds.
LEMMA MergeCommitEffect ==
    ASSUME TypeOK, MergeHolds, NEW r \in Req, MergeCommit(r)
    PROVE  \E s, d \in Cand :
             /\ s # d /\ merged[s] = None /\ merged[d] = None
             /\ merged' = [merged EXCEPT ![d] = s]
             /\ resumes' = [resumes EXCEPT ![s] = @ \union resumes[d], ![d] = {}]
             /\ applicant' = Moved(s, d)
             /\ UNCHANGED <<submitted, stray>>
<1>1. req[r].who \in Cand /\ req[r].at \in Cand
  BY DEF MergeCommit, TypeOK
<1>2. /\ req[r].who # req[r].at
      /\ merged[req[r].who] = None /\ merged[req[r].at] = None
  BY DEF MergeHolds, MergeCommit, IsMerging
<1>3. QED
  BY <1>1, <1>2 DEF MergeCommit

LEMMA MergeForestNext ==
    ASSUME TypeOK, MergeHolds, MergeForest, [Next]_vars
    PROVE  MergeForest'
<1>1. CASE UNCHANGED merged
  BY <1>1 DEF MergeForest
<1>2. ASSUME NEW r \in Req, MergeCommit(r) PROVE MergeForest'
  <2>1. PICK s, d \in Cand : /\ s # d /\ merged[s] = None
                             /\ merged' = [merged EXCEPT ![d] = s]
    BY <1>2, MergeCommitEffect
  <2>2. SUFFICES ASSUME NEW S \in (SUBSET Cand) \ {{}}
                 PROVE  \E c \in S : merged'[c] \notin S
    BY DEF MergeForest
  <2>3. CASE s \in S
    BY <2>1, <2>3, ConstantsAssumption DEF TypeOK
  <2>4. CASE s \notin S /\ d \in S
    BY <2>1, <2>4 DEF TypeOK
  <2>5. CASE d \notin S
    BY <2>1, <2>5 DEF MergeForest, TypeOK
  <2>6. QED BY <2>3, <2>4, <2>5
<1>3. QED BY <1>1, <1>2, OnlyMergeCommitMerges
-----------------------------------------------------------------------------
(* What mergedIntoId leads to *)

\* The candidate a handler works on is one that its person's leads to, and what
\* it has read of a mergedIntoId that is set stays true.
Reaches ==
    \A r \in Req : req[r].pc # "idle" /\ ~IsMerging(r) =>
      /\ OnChain(req[r].who, req[r].at)
      /\ req[r].pc = "resolve" => req[r].next \in {None, merged[req[r].at]}

IInv == TypeOK /\ MergeHolds /\ MergeForest /\ Reaches /\ NothingLost

LEMMA ChainStart ==
    ASSUME NEW c \in Cand
    PROVE  OnChain(c, c)
  BY DEF OnChain

LEMMA ChainStep ==
    ASSUME TypeOK, NEW p \in Cand, NEW c \in Cand, OnChain(p, c),
           merged[c] # None
    PROVE  OnChain(p, merged[c])
<1> SUFFICES ASSUME NEW S \in SUBSET Cand, p \in S, Leads(S)
             PROVE  merged[c] \in S
  BY DEF OnChain
<1>1. c \in S
  BY DEF OnChain
<1>2. QED BY <1>1 DEF Leads

\* A merge of a live candidate only makes chains longer.
LEMMA ChainGrows ==
    ASSUME TypeOK, NEW s \in Cand, NEW d \in Cand, merged[d] = None,
           merged' = [merged EXCEPT ![d] = s],
           NEW p \in Cand, NEW c \in Cand, OnChain(p, c)
    PROVE  OnChain(p, c)'
<1> SUFFICES ASSUME NEW S \in SUBSET Cand, p \in S, Leads(S)'
             PROVE  c \in S
  BY DEF OnChain
<1>1. Leads(S)
  BY DEF Leads, TypeOK
<1>2. QED BY <1>1 DEF OnChain

LEMMA ChainSame ==
    ASSUME UNCHANGED merged, NEW p, NEW c
    PROVE  OnChain(p, c)' <=> OnChain(p, c)
  BY DEF OnChain, Leads

\* Chains never get shorter.
LEMMA ChainKept ==
    ASSUME TypeOK, MergeHolds, [Next]_vars, NEW p \in Cand, NEW c \in Cand,
           OnChain(p, c)
    PROVE  OnChain(p, c)'
<1>1. CASE UNCHANGED merged
  BY <1>1, ChainSame
<1>2. ASSUME NEW r \in Req, MergeCommit(r) PROVE OnChain(p, c)'
  BY <1>2, MergeCommitEffect, ChainGrows
<1>3. QED BY <1>1, <1>2, OnlyMergeCommitMerges

\* A candidate that was merged is not merged again.
LEMMA MergedOnce ==
    ASSUME TypeOK, MergeHolds, [Next]_vars, NEW c \in Cand, merged[c] # None
    PROVE  merged'[c] = merged[c]
<1>1. ASSUME NEW r \in Req, MergeCommit(r) PROVE merged'[c] = merged[c]
  BY <1>1, MergeCommitEffect DEF TypeOK
<1>2. QED BY <1>1, OnlyMergeCommitMerges

LEMMA ReachesNext ==
    ASSUME TypeOK, TypeOK', MergeHolds, Reaches, [Next]_vars
    PROVE  Reaches'
<1>1. SUFFICES ASSUME NEW q \in Req, NEW p \in Cand, NEW c \in Cand,
                      req'[q].who = p, req'[q].at = c,
                      req'[q].pc # "idle", ~IsMerging(q)'
               PROVE  /\ OnChain(p, c)'
                      /\ req'[q].pc = "resolve" =>
                           req'[q].next \in {None, merged'[c]}
  <2>1. ASSUME NEW q \in Req, req'[q].pc # "idle"
        PROVE  req'[q].who \in Cand /\ req'[q].at \in Cand
    BY <2>1 DEF TypeOK
  <2>2. QED BY <2>1 DEF Reaches, OnChain
<1>2. ASSUME req[q].pc \notin {"idle", "merge.read", "merge.commit"},
             req[q].who = p, req[q].at = c
      PROVE  OnChain(p, c)'
  <2>1. OnChain(p, c)
    BY <1>2 DEF Reaches, IsMerging
  <2>2. QED BY <2>1, ChainKept
<1>3. CASE req'[q] = req[q]
  <2>1. req[q].pc \notin {"idle", "merge.read", "merge.commit"}
    BY <1>1, <1>3 DEF IsMerging
  <2>2. OnChain(p, c)'
    BY <1>1, <1>2, <1>3, <2>1
  <2>3. ASSUME req[q].pc = "resolve", req[q].next # None
        PROVE  req[q].next = merged'[c]
    BY <1>1, <1>3, <2>3, MergedOnce DEF Reaches, IsMerging
  <2>4. QED BY <1>3, <2>2, <2>3
<1>4. ASSUME UNCHANGED merged, Follow(q)
      PROVE  OnChain(p, c)' /\ req'[q].next = merged'[c]
  <2>1. /\ req'[q].who = req[q].who /\ req'[q].at = req[q].next
        /\ req'[q].next = merged[req[q].next]
    BY <1>4 DEF Follow, TypeOK, Request
  <2>2. /\ OnChain(req[q].who, req[q].at)
        /\ req[q].next = merged[req[q].at] /\ req[q].next # None
        /\ req[q].at \in Cand
    BY <1>4 DEF Reaches, Follow, IsMerging, TypeOK
  <2>3. OnChain(p, c)
    BY <1>1, <2>1, <2>2, ChainStep
  <2>4. QED BY <1>1, <1>4, <2>1, <2>3, ChainSame
<1>5. ASSUME UNCHANGED merged, Stays(q) \/ Begins(q) \/ Follow(q),
             req'[q].pc = "resolve" /\ ~Follow(q) =>
               req'[q].next = merged[req'[q].at]
      PROVE  /\ OnChain(p, c)'
             /\ req'[q].pc = "resolve" => req'[q].next \in {None, merged'[c]}
  <2>1. CASE Follow(q)
    BY <1>4, <1>5, <2>1
  <2>2. CASE Stays(q) /\ ~Follow(q)
    BY <1>1, <1>2, <1>5, <2>2 DEF Stays
  <2>3. CASE Begins(q) /\ ~Follow(q)
    <3>1. p = c
      BY <1>1, <2>3 DEF Begins
    <3>2. OnChain(p, c)'
      BY <1>5, <3>1, ChainStart, ChainSame
    <3>3. QED BY <1>1, <1>5, <2>3, <3>2
  <2>4. QED BY <1>5, <2>1, <2>2, <2>3
<1>6. CASE UNCHANGED <<merged, resumes, applicant, submitted, stray, req>>
  BY <1>3, <1>6
<1>7. ASSUME NEW r \in Req, Alone(r),
             \/ ~IsMerging(r)' /\ UNCHANGED merged
                  /\ (Stays(r) \/ Begins(r) \/ Follow(r))
                  /\ (req'[r].pc = "resolve" /\ ~Follow(r) =>
                        req'[r].next = merged[req'[r].at])
             \/ \E s, d \in Cand : MergeStart(r, s, d)
             \/ (MergeRead(r) /\ IsMerging(r)')
             \/ MergeCommit(r)
      PROVE  /\ OnChain(p, c)'
             /\ req'[q].pc = "resolve" => req'[q].next \in {None, merged'[c]}
  <2>1. CASE q # r
    BY <1>3, <1>7, <2>1 DEF Alone
  <2>2. CASE q = r
    <3>1. \A s, d \in Cand : ~MergeStart(r, s, d)
      BY <1>1, <2>2 DEF MergeStart, IsMerging, TypeOK
    <3>2. ~MergeCommit(r)
      BY <1>1, <2>2, FinishAlone DEF MergeCommit
    <3>3. QED
      BY <1>1, <1>5, <1>7, <2>2, <3>1, <3>2
  <2>3. QED BY <2>1, <2>2
<1>8. QED
  BY <1>6, <1>7, Steps

LEMMA NothingLostNext ==
    ASSUME TypeOK, MergeHolds, Reaches, NothingLost, [Next]_vars
    PROVE  NothingLost'
<1> DEFINE Held(p, c) == p \in resumes[c] \/ \E j \in Job : applicant[<<c, j>>] = p
<1>2. \A p, c \in Cand : Held(p, c) => OnChain(p, c)'
  BY ChainKept DEF NothingLost
<1>3. CASE UNCHANGED <<resumes, applicant, submitted, stray>>
  BY <1>2, <1>3 DEF NothingLost
<1>4. ASSUME NEW r \in Req, AddResume(r)
      PROVE  NothingLost'
  <2>1. /\ req[r].who \in Cand /\ req[r].at \in Cand
        /\ OnChain(req[r].who, req[r].at)
    BY <1>4 DEF AddResume, Reaches, IsMerging, TypeOK
  <2>2. /\ UNCHANGED <<applicant, submitted>>
        /\ \/ UNCHANGED resumes
           \/ resumes' = [resumes EXCEPT ![req[r].at] = @ \union {req[r].who}]
    BY <1>4 DEF AddResume
  <2>3. \A p, c \in Cand : p \in resumes'[c] =>
          p \in resumes[c] \/ (p = req[r].who /\ c = req[r].at)
    BY <2>1, <2>2 DEF TypeOK
  <2>4. \A p, c \in Cand : p = req[r].who /\ c = req[r].at => OnChain(p, c)'
    BY <2>1, ChainKept
  <2>5. QED BY <1>2, <2>2, <2>3, <2>4 DEF NothingLost
<1>5. ASSUME NEW r \in Req, ApplyCommit(r)
      PROVE  NothingLost'
  <2> DEFINE key == <<req[r].at, req[r].job>>
  <2>1. /\ req[r].who \in Cand /\ req[r].at \in Cand /\ req[r].job \in Job
        /\ OnChain(req[r].who, req[r].at)
    BY <1>5 DEF ApplyCommit, Reaches, IsMerging, TypeOK
  <2>2. /\ applicant[key] = None
        /\ applicant' = [applicant EXCEPT ![key] = req[r].who]
        /\ submitted' = submitted \union {<<req[r].who, req[r].job>>}
        /\ UNCHANGED resumes
    BY <1>5 DEF ApplyCommit
  <2>3. \A p, c \in Cand : Held(p, c)' =>
          Held(p, c) \/ (p = req[r].who /\ c = req[r].at)
    BY <2>1, <2>2 DEF TypeOK
  <2>4. \A p, c \in Cand : p = req[r].who /\ c = req[r].at => OnChain(p, c)'
    BY <2>1, ChainKept
  <2>5. ASSUME NEW k \in submitted
        PROVE  \E c \in Cand : applicant'[<<c, k[2]>>] = k[1]
    <3>1. PICK c \in Cand : applicant[<<c, k[2]>>] = k[1]
      BY DEF NothingLost
    <3>2. k[1] \in Cand /\ k[2] \in Job
      BY DEF TypeOK
    <3>3. <<c, k[2]>> # key
      BY <2>2, <3>1, <3>2, ConstantsAssumption
    <3>4. QED BY <2>1, <2>2, <3>1, <3>2, <3>3 DEF TypeOK
  <2>6. applicant'[key] = req[r].who
    BY <2>1, <2>2 DEF TypeOK
  <2>7. ASSUME NEW k \in submitted'
        PROVE  \E c \in Cand : applicant'[<<c, k[2]>>] = k[1]
    BY <2>1, <2>2, <2>5, <2>6
  <2>8. \A p, c \in Cand : Held(p, c)' => OnChain(p, c)'
    BY <1>2, <2>3, <2>4
  <2>9. QED BY <2>7, <2>8 DEF NothingLost
<1>6. ASSUME NEW r \in Req, MergeCommit(r)
      PROVE  NothingLost'
  <2>1. PICK s, d \in Cand :
          /\ s # d /\ merged[s] = None /\ merged[d] = None
          /\ merged' = [merged EXCEPT ![d] = s]
          /\ resumes' = [resumes EXCEPT ![s] = @ \union resumes[d], ![d] = {}]
          /\ applicant' = Moved(s, d)
          /\ UNCHANGED submitted
    BY <1>6, MergeCommitEffect
  <2>2. \A p \in Cand : OnChain(p, d)' => OnChain(p, s)'
    <3>1. \A S \in SUBSET Cand : Leads(S)' /\ d \in S => s \in S
      BY <2>1, ConstantsAssumption DEF Leads, TypeOK
    <3>2. QED BY <3>1 DEF OnChain
  <2>3. \A j \in Job :
          /\ applicant'[<<s, j>>] = IF applicant[<<s, j>>] = None
                                      THEN applicant[<<d, j>>]
                                      ELSE applicant[<<s, j>>]
          /\ applicant'[<<d, j>>] = IF applicant[<<s, j>>] = None
                                      THEN None ELSE applicant[<<d, j>>]
          /\ \A c \in Cand \ {s, d} : applicant'[<<c, j>>] = applicant[<<c, j>>]
    BY <2>1 DEF Moved
  <2>4. \A p, c \in Cand : Held(p, c)' => Held(p, c) \/ (c = s /\ Held(p, d))
    BY <2>1, <2>3, ConstantsAssumption DEF TypeOK
  <2>5. ASSUME NEW k \in submitted
        PROVE  \E c \in Cand : applicant'[<<c, k[2]>>] = k[1]
    <3>1. PICK c \in Cand : applicant[<<c, k[2]>>] = k[1]
      BY DEF NothingLost
    <3>2. k[1] \in Cand /\ k[2] \in Job
      BY DEF TypeOK
    <3>3. \/ applicant'[<<c, k[2]>>] = k[1]
          \/ applicant'[<<s, k[2]>>] = k[1]
      BY <2>1, <2>3, <3>1, <3>2, ConstantsAssumption
    <3>4. QED BY <3>1, <3>3
  <2>6. ASSUME NEW p \in Cand, NEW c \in Cand, Held(p, c)'
        PROVE  OnChain(p, c)'
    <3>1. CASE Held(p, c)
      BY <1>2, <3>1
    <3>2. CASE c = s /\ Held(p, d)
      BY <1>2, <2>2, <3>2
    <3>3. QED BY <2>4, <2>6, <3>1, <3>2
  <2>7. QED
    BY <2>1, <2>5, <2>6 DEF NothingLost
<1>7. QED
  <2>1. \/ UNCHANGED <<resumes, applicant, submitted, stray>>
        \/ \E r \in Req : AddResume(r) \/ ApplyCommit(r) \/ MergeCommit(r)
    BY Steps DEF MergeStart, MergeRead, tables
  <2>2. CASE \E r \in Req : AddResume(r) \/ ApplyCommit(r) \/ MergeCommit(r)
    BY <1>4, <1>5, <1>6, <2>2 DEF NothingLost
  <2>3. QED BY <1>3, <2>1, <2>2

-----------------------------------------------------------------------------
(* The links *)

\* A scan, a review or the end of a merge writes a link, and nothing else does.
LEMMA LinkSteps ==
    ASSUME [Next]_vars
    PROVE  \/ UNCHANGED link
           \/ \E r \in Req : ScanLink(r) \/ MergeCommit(r)
           \/ \E p \in Pair, decision \in {"CONFIRMED", "DISMISSED"} :
                Review(p, decision)
  BY DEF Next, CreateOrGet, Find, Create, CreateLost, Follow, Resolved, Attach,
         Open, Check, AddResume, ApplyCommit, ApplyRollback, Merge, MergeStart,
         MergeRead, Scan, ScanFind, ScanEnd, Abandon, vars, tables

\* Only the end of a merge makes a link MERGED, and only that of its pair.
LEMMA OnlyMergeMarks ==
    ASSUME TypeOK, MergeHolds, [Next]_vars,
           NEW p \in Pair, link'[p] = "MERGED"
    PROVE  link[p] = "MERGED" \/ \E c, d \in p : merged'[c] = d
<1>1. ASSUME NEW r \in Req, ScanLink(r) PROVE link[p] = "MERGED"
  <2>1. PICK d \in req[r].left, sure \in BOOLEAN : UpsertLink({req[r].at, d}, sure)
    BY <1>1 DEF ScanLink
  <2>2. QED BY <2>1 DEF UpsertLink, TypeOK
<1>2. ASSUME NEW q \in Pair, NEW decision \in {"CONFIRMED", "DISMISSED"},
             Review(q, decision)
      PROVE  link[p] = "MERGED"
  BY <1>2 DEF Review, TypeOK
<1>3. ASSUME NEW r \in Req, MergeCommit(r)
      PROVE  link[p] = "MERGED" \/ \E c, d \in p : merged'[c] = d
  <2> DEFINE s == req[r].who
             d == req[r].at
  <2>1. s \in Cand /\ d \in Cand
    BY <1>3 DEF MergeCommit, TypeOK
  <2>2. merged'[d] = s
    BY <1>3, <2>1 DEF MergeCommit, TypeOK
  <2>3. link' = Relinked(s, d)
    BY <1>3 DEF MergeCommit
  <2>4. link'[p] = "MERGED" => p = {s, d} \/ link[p] = "MERGED"
    BY <2>3 DEF Relinked
  <2>5. QED BY <2>2, <2>4
<1>4. QED BY <1>1, <1>2, <1>3, LinkSteps

LEMMA MergedLinksNext ==
    ASSUME TypeOK, MergeHolds, MergedLinks, [Next]_vars
    PROVE  MergedLinks'
<1> SUFFICES ASSUME NEW p \in Pair, link'[p] = "MERGED"
             PROVE  \E c, d \in p : merged'[c] = d
  BY DEF MergedLinks
<1>1. CASE link[p] = "MERGED"
  <2>1. PICK c, d \in p : merged[c] = d
    BY <1>1 DEF MergedLinks
  <2>2. c \in Cand /\ d \in Cand
    BY DEF Pair
  <2>3. merged[c] # None
    BY <2>1, <2>2, ConstantsAssumption
  <2>4. merged'[c] = d
    BY <2>1, <2>2, <2>3, MergedOnce
  <2>5. QED BY <2>4
<1>2. QED BY <1>1, OnlyMergeMarks

-----------------------------------------------------------------------------
(* What the survivors show *)

\* A candidate that an application strayed to was merged, and so stays out of
\* every later merge.
StrayIsMerged == \A k \in stray : merged[k[1]] # None

LEMMA StrayIsMergedNext ==
    ASSUME TypeOK, MergeHolds, StrayIsMerged, [Next]_vars
    PROVE  StrayIsMerged'
<1> USE ConstantsAssumption
<1>1. \A k \in stray : k[1] \in Cand
  BY DEF TypeOK
<1>2. \A k \in stray : merged'[k[1]] # None
  BY <1>1, MergedOnce DEF StrayIsMerged
<1>3. ASSUME NEW r \in Req, ApplyCommit(r), UNCHANGED merged
      PROVE  \A k \in stray' : merged'[k[1]] # None
  BY <1>2, <1>3 DEF ApplyCommit
<1>4. UNCHANGED stray \/ \E r \in Req : ApplyCommit(r) /\ UNCHANGED merged
  BY Steps DEF MergeStart, MergeRead, MergeCommit, AddResume, tables
<1>5. QED BY <1>2, <1>3, <1>4 DEF StrayIsMerged

\* The live candidate at the end of a chain has an application for the job.
Shown(c, j) == \E e \in Cand : /\ OnChain(c, e) /\ merged[e] = None
                               /\ applicant[<<e, j>>] # None

LEMMA SurvivorShowsJobNext ==
    ASSUME TypeOK, MergeHolds, StrayIsMerged, SurvivorShowsJob, [Next]_vars
    PROVE  SurvivorShowsJob'
<1> USE ConstantsAssumption
<1>1. ASSUME UNCHANGED <<merged, applicant, stray>>
      PROVE  SurvivorShowsJob'
  BY <1>1, ChainSame DEF SurvivorShowsJob
<1>2. ASSUME NEW r \in Req, ApplyCommit(r), UNCHANGED merged
      PROVE  SurvivorShowsJob'
  <2> DEFINE key == <<req[r].at, req[r].job>>
  <2>1. req[r].at \in Cand /\ req[r].job \in Job /\ req[r].who \in Cand
    BY <1>2 DEF ApplyCommit, TypeOK
  <2>2. /\ applicant' = [applicant EXCEPT ![key] = req[r].who]
        /\ stray' = IF merged[req[r].at] = None THEN stray ELSE stray \union {key}
    BY <1>2 DEF ApplyCommit
  <2>3. SUFFICES ASSUME NEW c \in Cand, NEW j \in Job, <<c, j>> \notin stray',
                        applicant'[<<c, j>>] # None
                 PROVE  Shown(c, j)'
    BY DEF SurvivorShowsJob, Shown
  <2>4. CASE c = req[r].at /\ j = req[r].job
    <3>1. merged[c] = None
      BY <2>2, <2>3, <2>4
    <3>2. OnChain(c, c)'
      BY <1>2, ChainStart, ChainSame
    <3>3. QED BY <1>2, <2>3, <3>1, <3>2 DEF Shown
  <2>5. CASE ~(c = req[r].at /\ j = req[r].job)
    <3>1. <<c, j>> \notin stray /\ applicant[<<c, j>>] # None
      BY <2>1, <2>2, <2>3, <2>5 DEF TypeOK
    <3>2. PICK e \in Cand : /\ OnChain(c, e) /\ merged[e] = None
                            /\ applicant[<<e, j>>] # None
      BY <3>1 DEF SurvivorShowsJob
    <3>3. applicant'[<<e, j>>] # None
      BY <2>1, <2>2, <3>2 DEF TypeOK
    <3>4. QED BY <1>2, <3>2, <3>3, ChainSame DEF Shown
  <2>6. QED BY <2>4, <2>5
<1>3. ASSUME NEW r \in Req, MergeCommit(r)
      PROVE  SurvivorShowsJob'
  <2>1. PICK s, d \in Cand :
          /\ s # d /\ merged[s] = None /\ merged[d] = None
          /\ merged' = [merged EXCEPT ![d] = s]
          /\ applicant' = Moved(s, d)
          /\ UNCHANGED stray
    BY <1>3, MergeCommitEffect
  <2>2. \A c \in Cand : merged'[c] = IF c = d THEN s ELSE merged[c]
    BY <2>1 DEF TypeOK
  <2>3. \A j \in Job :
          /\ applicant'[<<s, j>>] = IF applicant[<<s, j>>] = None
                                      THEN applicant[<<d, j>>]
                                      ELSE applicant[<<s, j>>]
          /\ applicant'[<<d, j>>] = IF applicant[<<s, j>>] = None
                                      THEN None ELSE applicant[<<d, j>>]
          /\ \A c \in Cand \ {s, d} : applicant'[<<c, j>>] = applicant[<<c, j>>]
    BY <2>1 DEF Moved
  <2>4. \A p \in Cand : OnChain(p, d)' => OnChain(p, s)'
    <3>1. \A S \in SUBSET Cand : Leads(S)' /\ d \in S => s \in S
      BY <2>1, <2>2 DEF Leads
    <3>2. QED BY <3>1 DEF OnChain
  <2>5. \A p, c \in Cand : OnChain(p, c) => OnChain(p, c)'
    BY <2>1, ChainGrows
  <2>6. SUFFICES ASSUME NEW c \in Cand, NEW j \in Job, <<c, j>> \notin stray,
                        applicant'[<<c, j>>] # None
                 PROVE  Shown(c, j)'
    BY <2>1 DEF SurvivorShowsJob, Shown
  <2>7. ASSUME OnChain(c, s)', applicant'[<<s, j>>] # None PROVE Shown(c, j)'
    BY <2>1, <2>2, <2>7 DEF Shown
  <2>8. CASE c = s
    <3>1. OnChain(c, s)'
      BY <2>5, <2>8, ChainStart
    <3>2. QED BY <2>6, <2>7, <2>8, <3>1
  <2>9. CASE c = d
    <3>1. OnChain(c, s)'
      BY <2>4, <2>5, <2>9, ChainStart
    <3>2. applicant'[<<s, j>>] # None
      BY <2>3, <2>6, <2>9
    <3>3. QED BY <2>7, <3>1, <3>2
  <2>10. CASE c \notin {s, d}
    <3>1. applicant[<<c, j>>] # None
      BY <2>3, <2>6, <2>10
    <3>2. PICK e \in Cand : /\ OnChain(c, e) /\ merged[e] = None
                            /\ applicant[<<e, j>>] # None
      BY <2>6, <3>1 DEF SurvivorShowsJob
    <3>3. OnChain(c, e)'
      BY <2>5, <3>2
    <3>4. CASE e = d
      <4>1. OnChain(c, s)'
        BY <2>4, <3>3, <3>4
      <4>2. applicant'[<<s, j>>] # None
        BY <2>3, <3>2, <3>4
      <4>3. QED BY <2>7, <4>1, <4>2
    <3>5. CASE e # d
      <4>1. merged'[e] = None
        BY <2>2, <3>2, <3>5
      <4>2. applicant'[<<e, j>>] # None
        BY <2>3, <3>2, <3>5
      <4>3. QED BY <3>3, <4>1, <4>2 DEF Shown
    <3>6. QED BY <3>4, <3>5
  <2>11. QED BY <2>8, <2>9, <2>10
<1>4. \/ UNCHANGED <<merged, applicant, stray>>
      \/ \E r \in Req : ApplyCommit(r) /\ UNCHANGED merged
      \/ \E r \in Req : MergeCommit(r)
  BY Steps DEF MergeStart, MergeRead, AddResume, tables
<1>5. QED BY <1>1, <1>2, <1>3, <1>4

-----------------------------------------------------------------------------
(* Theorems *)

LEMMA IInvInit == Init => IInv
<1> SUFFICES ASSUME Init PROVE IInv
  OBVIOUS
<1>1. TypeOK
  BY TypedInit
<1>2. \A r \in Req : req[r].pc = "idle"
  BY DEF Init, Idle
<1>3. MergeHolds /\ Reaches
  BY <1>2 DEF MergeHolds, Reaches, IsMerging
<1>4. MergeForest
  <2>1. ASSUME NEW S \in (SUBSET Cand) \ {{}}
        PROVE  \E c \in S : merged[c] \notin S
    <3>1. PICK c \in S : TRUE
      OBVIOUS
    <3>2. merged[c] \notin S
      BY ConstantsAssumption DEF Init
    <3>3. QED BY <3>2
  <2>2. QED BY <2>1 DEF MergeForest
<1>5. NothingLost
  BY ConstantsAssumption DEF Init, NothingLost
<1>6. QED
  BY <1>1, <1>3, <1>4, <1>5 DEF IInv

\* The invariant that carries both: what mergeCandidates and the other handlers
\* of candidates/service.ts hold between their statements.
THEOREM IInvAlways ==
    ASSUME ~ConcurrentMerges
    PROVE  Spec => []IInv
<1>1. IInv /\ TypeOK' /\ [Next]_vars => IInv'
  BY MergeHoldsNext, MergeForestNext, ReachesNext, NothingLostNext DEF IInv
<1>2. QED
  BY <1>1, IInvInit, TypeCorrect, PTL DEF Spec

\* While merges do not overlap, following mergedIntoId ends
\* (candidates/service.ts:43-45).
THEOREM MergeForestAlways ==
    ASSUME ~ConcurrentMerges
    PROVE  Spec => []MergeForest
  BY IInvAlways, PTL DEF IInv

\* While merges do not overlap, every resume and application is held by a
\* candidate that its person's candidate leads to, however requests interleave.
THEOREM NothingLostAlways ==
    ASSUME ~ConcurrentMerges
    PROVE  Spec => []NothingLost
  BY IInvAlways, PTL DEF IInv

\* While merges do not overlap, a link that says MERGED is of two candidates of
\* which one was merged into the other, however scans, reviews and merges of
\* other pairs interleave (candidates/service.ts, dedupe/scan.ts).
THEOREM MergedLinksAlways ==
    ASSUME ~ConcurrentMerges
    PROVE  Spec => []MergedLinks
<1>1. Init => MergedLinks
  BY DEF Init, MergedLinks
<1>2. IInv /\ MergedLinks /\ [Next]_vars => MergedLinks'
  BY MergedLinksNext DEF IInv
<1>3. QED
  BY <1>1, <1>2, IInvAlways, PTL DEF Spec

\* While merges do not overlap, the recruiter who looks at a live candidate
\* misses no job that anyone merged into it applied to, over chains of merges and
\* however requests interleave: a merge moves every application that the
\* survivor does not have, and a tombstone takes part in no later merge.  Only the
\* applications inserted at a candidate already merged are excepted.
THEOREM SurvivorShowsJobAlways ==
    ASSUME ~ConcurrentMerges
    PROVE  Spec => []SurvivorShowsJob
<1>1. Init => StrayIsMerged /\ SurvivorShowsJob
  BY DEF Init, StrayIsMerged, SurvivorShowsJob
<1>2. IInv /\ StrayIsMerged /\ SurvivorShowsJob /\ [Next]_vars
        => (StrayIsMerged /\ SurvivorShowsJob)'
  BY StrayIsMergedNext, SurvivorShowsJobNext DEF IInv
<1>3. QED
  BY <1>1, <1>2, IInvAlways, PTL DEF Spec
=============================================================================
