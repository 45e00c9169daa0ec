--------------------------- MODULE CandidateMerge ---------------------------
(***************************************************************************)
(* The candidates of one organization: the flows that find or create one   *)
(* and attach resumes and applications to it, merges of two of them, and   *)
(* the links that dedupe scans and reviewers leave.                        *)
(*                                                                         *)
(*   packages/core/src/modules/candidates/service.ts   createOrGetCandidate*)
(*                        resolveLiveCandidate, addResume, mergeCandidates *)
(*   packages/core/src/modules/public/service.ts          apply            *)
(*   packages/core/src/modules/applications/service.ts createApplication   *)
(*   packages/core/src/domain/dedupe/scan.ts              upsertLink, scans*)
(*   packages/core/src/modules/duplicates/service.ts   confirm, dismiss    *)
(*                                                                         *)
(* A candidate is its normalized email, the unique key within the          *)
(* organization; candidates are never deleted.  An element of Cand is thus *)
(* a person too: who an application or a resume is from.  Names, phones,   *)
(* scores and the stages of an application are left out; which candidates  *)
(* a scan finds alike is a free choice, and a full scan is several scans   *)
(* here, one per query.  A merge's transaction is one step: at READ        *)
(* COMMITTED two merges of the same duplicate may share out its            *)
(* applications between their survivors in other ways as well.             *)
(***************************************************************************)
EXTENDS Naturals, FiniteSets

CONSTANTS
    Cand,             \* candidates, by normalized email
    Job,              \* published jobs
    Req,              \* request handlers and workers that run at the same time
    None,             \* SQL NULL
    ConcurrentMerges, \* two recruiters may merge at the same time
    Manual,           \* bound: recruiters add candidates, resumes, applications
    Alike             \* bound: scans may find candidates alike

ASSUME ConstantsAssumption ==
    /\ None \notin Cand
    /\ None \notin Job
    /\ ConcurrentMerges \in BOOLEAN
    /\ Manual \in BOOLEAN
    /\ Alike \in BOOLEAN

VARIABLES
    exists,    \* the rows of candidates
    merged,    \* candidates.mergedIntoId
    resumes,   \* whose resumes each candidate holds
    applicant, \* who submitted the application of a candidate to a job; the
               \* key (candidate, job) is unique; None: no such row
    link,      \* duplicate_candidate_links.status of each pair
    certain,   \* the pairs whose confidence is AUTO_LINK_THRESHOLD or more
    submitted, \* history: applications accepted, by person and job
    stray,     \* history: applications inserted when their candidate had been
               \* merged already, by candidate and job
    req        \* what each request handler or worker holds

tables == <<exists, merged, resumes, applicant, link, certain, submitted, stray>>
vars == <<tables, req>>

CandOrNone == Cand \union {None}
Pair == {p \in SUBSET Cand : Cardinality(p) = 2}
LinkStatus == {"none", "PENDING", "CONFIRMED", "DISMISSED", "MERGED"}

\* who: the person concerned, or the survivor of a merge; at: the candidate the
\* handler works on, or the duplicate; next: its mergedIntoId as it was read;
\* left: candidates seen by resolveLiveCandidate, still to be read by a merge,
\* or still to be linked by a scan.
Request == [pc: {"idle", "create", "scanNew", "resolve", "check", "resume",
                 "recheck", "commit", "merge.read", "merge.commit", "scan"},
            who: CandOrNone, job: Job \union {None}, at: CandOrNone,
            next: CandOrNone, left: SUBSET Cand]

Idle == [pc |-> "idle", who |-> None, job |-> None, at |-> None,
         next |-> None, left |-> {}]

TypeOK ==
    /\ exists \subseteq Cand
    /\ merged \in [Cand -> CandOrNone]
    /\ resumes \in [Cand -> SUBSET Cand]
    /\ applicant \in [Cand \X Job -> CandOrNone]
    /\ link \in [Pair -> LinkStatus]
    /\ certain \subseteq SUBSET Cand
    /\ submitted \subseteq Cand \X Job
    /\ stray \subseteq Cand \X Job
    /\ req \in [Req -> Request]
    /\ \A r \in Req :
         /\ req[r].pc # "idle" => {req[r].who, req[r].at} \subseteq Cand
         /\ req[r].pc \in {"check", "recheck", "commit"} => req[r].job \in Job

Init ==
    /\ exists = {}
    /\ merged = [c \in Cand |-> None]
    /\ resumes = [c \in Cand |-> {}]
    /\ applicant = [k \in Cand \X Job |-> None]
    /\ link = [p \in Pair |-> "none"]
    /\ certain = {}
    /\ submitted = {}
    /\ stray = {}
    /\ req = [r \in Req |-> Idle]

Live(c) == c \in exists /\ merged[c] = None

Goto(r, pc) == req' = [req EXCEPT ![r].pc = pc]
Finish(r) == req' = [req EXCEPT ![r] = Idle]

-----------------------------------------------------------------------------
(* createOrGetCandidate *)

\* The sets of live candidates a query of a scan of c may return.
Matches(c) == IF Alike THEN SUBSET {d \in exists \ {c} : Live(d)} ELSE {{}}

\* The reading of a candidate that starts resolveLiveCandidate.
Found(r, p, j) ==
    req' = [req EXCEPT ![r] = [pc |-> "resolve", who |-> p, job |-> j,
                               at |-> p, next |-> merged[p], left |-> {p}]]

\* Person p applies for j, or a recruiter adds p (no job): the lookup by email.
Find(r, p, j) ==
    /\ req[r].pc = "idle"
    /\ j = None => Manual
    /\ IF p \in exists
         THEN Found(r, p, j)
         ELSE req' = [req EXCEPT ![r] = [pc |-> "create", who |-> p, job |-> j,
                                         at |-> p, next |-> None, left |-> {}]]
    /\ UNCHANGED tables

\* The insert, with the query of its inline scan, which follows at once.
Create(r) ==
    /\ req[r].pc = "create"
    /\ req[r].who \notin exists
    /\ exists' = exists \union {req[r].who}
    /\ \E S \in Matches(req[r].who) :
         req' = [req EXCEPT ![r].pc = "scanNew", ![r].left = S]
    /\ UNCHANGED <<merged, resumes, applicant, link, certain, submitted, stray>>

\* P2002: the winner of the race is looked up instead.
CreateLost(r) ==
    /\ req[r].pc = "create"
    /\ req[r].who \in exists
    /\ Found(r, req[r].who, req[r].job)
    /\ UNCHANGED tables

\* One turn of the loop of resolveLiveCandidate: the next candidate is read.
Follow(r) ==
    /\ req[r].pc = "resolve"
    /\ req[r].next \notin req[r].left \union {None}
    /\ req' = [req EXCEPT ![r].at = req[r].next,
                          ![r].next = merged[req[r].next],
                          ![r].left = @ \union {req[r].next}]
    /\ UNCHANGED tables

\* Mutant: every request goes on to apply.
ReturnToApply(r) ==
    req' = [req EXCEPT ![r].pc = "check", ![r].next = None, ![r].left = {}]

\* The candidate is returned: to the recruiter, or to apply.
Return(r) ==
    IF req[r].job = None
      THEN Finish(r)
      ELSE req' = [req EXCEPT ![r].pc = "check", ![r].next = None, ![r].left = {}]

\* The loop ends (and the candidate's phone is filled in).
Resolved(r) ==
    /\ req[r].pc = "resolve"
    /\ req[r].next \in req[r].left \union {None}
    /\ Return(r)
    /\ UNCHANGED tables

-----------------------------------------------------------------------------
(* apply, addResume and createApplication *)

\* A recruiter uploads a resume to a candidate, or enters an application for
\* one.  Whether it was merged is not asked.
Open(r, c, j) ==
    /\ Manual
    /\ req[r].pc = "idle"
    /\ c \in exists
    /\ req' = [req EXCEPT ![r] = [pc |-> IF j = None THEN "resume" ELSE "recheck",
                                  who |-> c, job |-> j, at |-> c,
                                  next |-> None, left |-> {}]]
    /\ UNCHANGED tables

\* Both lookups by (candidate, job): a row found is a 409.
Check(r, pc, then) ==
    /\ req[r].pc = pc
    /\ IF applicant[<<req[r].at, req[r].job>>] = None THEN Goto(r, then)
                                                      ELSE Finish(r)
    /\ UNCHANGED tables

\* The transaction of addResume; only an applicant may come without a file.
AddResume(r) ==
    /\ req[r].pc = "resume"
    /\ \/ resumes' = [resumes EXCEPT ![req[r].at] = @ \union {req[r].who}]
       \/ req[r].job # None /\ UNCHANGED resumes
    /\ IF req[r].job = None THEN Finish(r) ELSE Goto(r, "recheck")
    /\ UNCHANGED <<exists, merged, applicant, link, certain, submitted, stray>>

ApplyCommit(r) ==
    LET key == <<req[r].at, req[r].job>>
    IN /\ req[r].pc = "commit"
       /\ applicant[key] = None
       /\ applicant' = [applicant EXCEPT ![key] = req[r].who]
       /\ submitted' = submitted \union {<<req[r].who, req[r].job>>}
       /\ stray' = IF merged[req[r].at] = None THEN stray ELSE stray \union {key}
       /\ Finish(r)
       /\ UNCHANGED <<exists, merged, resumes, link, certain>>

\* P2002 on (candidate, job).
ApplyRollback(r) ==
    /\ req[r].pc = "commit"
    /\ applicant[<<req[r].at, req[r].job>>] # None
    /\ Finish(r)
    /\ UNCHANGED tables

-----------------------------------------------------------------------------
(* mergeCandidates *)

Merging == \E r \in Req : req[r].pc \in {"merge.read", "merge.commit"}

MergeStart(r, s, d) ==
    /\ req[r].pc = "idle"
    /\ s # d
    /\ {s, d} \subseteq exists
    /\ ConcurrentMerges \/ ~Merging
    /\ req' = [req EXCEPT ![r] = [pc |-> "merge.read", who |-> s, job |-> None,
                                  at |-> d, next |-> None, left |-> {s, d}]]
    /\ UNCHANGED tables

\* Mutant: whether the survivor was merged is not asked.
SurvivorUnchecked(c, s) == c # s /\ merged[c] # None

\* A candidate that was merged is a 409, on either side.
MergeRefused(c, s) == merged[c] # None

\* The two are read in parallel.
MergeRead(r) ==
    /\ req[r].pc = "merge.read"
    /\ \E c \in req[r].left :
         IF MergeRefused(c, req[r].who)
           THEN Finish(r)
           ELSE req' = [req EXCEPT ![r].left = @ \ {c},
                                   ![r].pc = IF req[r].left = {c}
                                               THEN "merge.commit" ELSE @]
    /\ UNCHANGED tables

\* Mutant: the survivor's application is replaced on a clash.
MovedOver(s, d) ==
    [k \in Cand \X Job |->
       CASE k[1] = s /\ applicant[<<d, k[2]>>] # None -> applicant[<<d, k[2]>>]
         [] k[1] = d -> None
         [] OTHER -> applicant[k]]

\* The duplicate's applications move, except to a job the survivor applied to.
Moved(s, d) ==
    [k \in Cand \X Job |->
       CASE k[1] = s /\ applicant[k] = None -> applicant[<<d, k[2]>>]
         [] k[1] = d /\ applicant[<<s, k[2]>>] = None -> None
         [] OTHER -> applicant[k]]

\* Mutant: every link of the duplicate is MERGED.
RelinkedAll(s, d) ==
    [p \in Pair |-> IF d \in p /\ link[p] # "none" THEN "MERGED" ELSE link[p]]

\* The pair's link is MERGED; others of the duplicate that await review are
\* dismissed.
Relinked(s, d) ==
    [p \in Pair |->
       CASE p = {s, d} /\ link[p] # "none" -> "MERGED"
         [] p # {s, d} /\ d \in p /\ link[p] \in {"PENDING", "CONFIRMED"} ->
              "DISMISSED"
         [] OTHER -> link[p]]

MergeCommit(r) ==
    LET s == req[r].who
        d == req[r].at
    IN /\ req[r].pc = "merge.commit"
       /\ resumes' = [resumes EXCEPT ![s] = @ \union resumes[d], ![d] = {}]
       /\ applicant' = Moved(s, d)
       /\ merged' = [merged EXCEPT ![d] = s]
       /\ link' = Relinked(s, d)
       /\ Finish(r)
       /\ UNCHANGED <<exists, certain, submitted, stray>>

-----------------------------------------------------------------------------
(* Dedupe scans and the review of links *)

\* A query of the worker's scan of a candidate.  That the scanned one is live
\* is not asked.
ScanFind(r, c) ==
    /\ Alike
    /\ req[r].pc = "idle"
    /\ c \in exists
    /\ \E S \in Matches(c) :
         req' = [req EXCEPT ![r] = [pc |-> "scan", who |-> c, job |-> None,
                                    at |-> c, next |-> None, left |-> S]]
    /\ UNCHANGED tables

\* upsertLink.  sure: this signal reaches AUTO_LINK_THRESHOLD, as the phone,
\* which is all the inline scan can match, does.
UpsertLink(p, sure) ==
    /\ certain' = IF sure THEN certain \union {p} ELSE certain
    /\ link' = [link EXCEPT ![p] = IF p \in certain' THEN "CONFIRMED"
                                   ELSE IF @ = "none" THEN "PENDING" ELSE @]

ScanLink(r) ==
    /\ req[r].pc \in {"scan", "scanNew"}
    /\ \E d \in req[r].left :
         /\ \/ UpsertLink({req[r].at, d}, TRUE)
            \/ req[r].pc = "scan" /\ UpsertLink({req[r].at, d}, FALSE)
         /\ req' = [req EXCEPT ![r].left = @ \ {d}]
    /\ UNCHANGED <<exists, merged, resumes, applicant, submitted, stray>>

ScanEnd(r) ==
    /\ req[r].pc \in {"scan", "scanNew"}
    /\ req[r].left = {}
    /\ IF req[r].pc = "scan" THEN Finish(r) ELSE Return(r)
    /\ UNCHANGED tables

\* confirmDuplicate and dismissDuplicate, whatever the link's status.
Review(p, decision) ==
    /\ link[p] # "none"
    /\ link' = [link EXCEPT ![p] = decision]
    /\ UNCHANGED <<exists, merged, resumes, applicant, certain, submitted, stray, req>>

-----------------------------------------------------------------------------
CreateOrGet(r) == \/ \E p \in Cand, j \in Job \union {None} : Find(r, p, j)
                  \/ Create(r) \/ CreateLost(r) \/ Follow(r) \/ Resolved(r)

Attach(r) == \/ \E c \in Cand, j \in Job \union {None} : Open(r, c, j)
             \/ Check(r, "check", "resume") \/ AddResume(r)
             \/ Check(r, "recheck", "commit") \/ ApplyCommit(r)
             \/ ApplyRollback(r)

Merge(r) == \/ \E s, d \in Cand : MergeStart(r, s, d)
            \/ MergeRead(r) \/ MergeCommit(r)

Scan(r) == (\E c \in Cand : ScanFind(r, c)) \/ ScanLink(r) \/ ScanEnd(r)

\* The process dies or a statement fails: what was committed stays.
Abandon(r) ==
    /\ req[r].pc # "idle"
    /\ Finish(r)
    /\ UNCHANGED tables

Next == \/ \E r \in Req : \/ CreateOrGet(r) \/ Attach(r) \/ Merge(r) \/ Scan(r)
                         \/ Abandon(r)
        \/ \E p \in Pair, decision \in {"CONFIRMED", "DISMISSED"} :
             Review(p, decision)

Spec == Init /\ [][Next]_vars

-----------------------------------------------------------------------------
(* Properties *)

\* The candidates that mergedIntoId leads to from c, c among them.
Leads(S) == \A c \in S : merged[c] # None => merged[c] \in S
OnChain(c, d) == \A S \in SUBSET Cand : c \in S /\ Leads(S) => d \in S

\* Following mergedIntoId always ends: every set of candidates has one that is
\* not merged into another of the set.
MergeForest == \A S \in (SUBSET Cand) \ {{}} : \E c \in S : merged[c] \notin S

\* Nothing a person sent is out of reach: what was accepted is still held, and
\* every resume and application of a person is held by a candidate that the
\* person's own leads to.
NothingLost ==
    /\ \A k \in submitted : \E c \in Cand : applicant[<<c, k[2]>>] = k[1]
    /\ \A p, c \in Cand :
         p \in resumes[c] \/ (\E j \in Job : applicant[<<c, j>>] = p) =>
           OnChain(p, c)

\* A merged candidate keeps an application only where the live candidate it
\* leads to has one to the same job, so the recruiter who looks at the survivor
\* misses no job, over chains of merges (candidates/service.ts:194-215).  The
\* applications inserted at a candidate already merged are excepted.
SurvivorShowsJob ==
    \A c \in Cand, j \in Job :
      applicant[<<c, j>>] # None /\ <<c, j>> \notin stray =>
        \E d \in Cand : /\ OnChain(c, d) /\ merged[d] = None
                        /\ applicant[<<d, j>>] # None

\* No application lands on a merged candidate, which is what the resolution is
\* for (candidates/service.ts:40-43).  Not so: a merge may commit between the
\* resolution and the insert, and a recruiter's request resolves nothing.
NoStray == stray = {}

\* A link is MERGED only when its candidates were merged with each other.
MergedLinks ==
    \A p \in Pair : link[p] = "MERGED" => \E c, d \in p : merged[c] = d

\* No link that awaits review names a merged candidate, whom no merge would
\* accept (dedupe/scan.ts:68, docs/ASSUMPTIONS.md:115-122).  Not so: a scan that
\* was queued before the merge writes such a link.
ReviewQueueLive ==
    \A p \in Pair : link[p] = "PENDING" => \A c \in p : merged[c] = None
=============================================================================
