----------------------------- MODULE ResumeParse -----------------------------
(***************************************************************************)
(* From an uploaded resume to the link that marks two candidates as        *)
(* suspected duplicates: the resume-parse job with its retries, the scans  *)
(* that look for duplicates, and the recruiters who review what they find. *)
(*                                                                         *)
(*   packages/core/src/queues/processors/resumeParse.ts, dedupeScan.ts     *)
(*   packages/core/src/domain/resume/     extract, structure: may throw    *)
(*   packages/core/src/domain/dedupe/scan.ts, score.ts                     *)
(*   packages/core/src/modules/candidates/service.ts   create, addResume,  *)
(*                                                     rescanDuplicates    *)
(*   packages/core/src/modules/duplicates/service.ts   confirm, dismiss    *)
(*                                                                         *)
(* One pair of candidates, one of whom has just been created and uploads   *)
(* one resume.  The pair has at most one link, whoever of the two is       *)
(* scanned (orderedPair).  Scans overlap: the one inside the request that  *)
(* created the candidate, the parse job's, and those that the dedupe-scan  *)
(* queue runs for either of the two.  Candidates of one organisation never *)
(* have the same email, so the signal exact_email cannot occur.            *)
(***************************************************************************)
EXTENDS Naturals, FiniteSets

CONSTANTS
    Rescans,      \* dedupe-scan jobs
    MaxScans,     \* bound: times such a job runs
    MaxEdits,     \* bound: edits of the two candidates
    MaxAttempts,  \* attempts of the parse job: 5
    MaxStalls     \* times BullMQ restarts a job whose worker was lost

VARIABLES
    shared,    \* what the two candidates have in common: the weight at which
               \* each signal would fire now, 0 if it would not
    resume,    \* resumes.parseStatus, and whether there is a parsedProfile
    job,       \* the resume-parse job
    scan,      \* the scans under way
    link,      \* duplicate_candidate_links
    told,      \* the recruiters know of the suspicion
    scans,     \* rescans so far
    edits,     \* edits so far
    clean,     \* history: scans that have overlapped no other
    foundBy    \* history: the signals that scans without an overlap wrote, at
               \* the greatest weight they gave each

vars == <<shared, resume, job, scan, link, told, scans, edits, clean,
          foundBy>>

Signal == {"exact_phone", "resume_content_hash", "name_similarity"}

\* The weights by rank: 0.9 for a phone, 0.85 for a resume.  A name's is 0.4 and
\* 0.3 times the similarity, and 0.15 with an employer or school in common: from
\* 0.49 (rank 1), which makes no link on its own, to 0.75, so that one pair's
\* may be 2 in one scan and 3 in another.
Evidence ==
    {e \in [Signal -> 0..5] : /\ e["exact_phone"] \in {0, 5}
                             /\ e["resume_content_hash"] \in {0, 4}
                             /\ e["name_similarity"] \in 0..3}
NoEvidence == [s \in Signal |-> 0]

REVIEW_THRESHOLD == 2
AUTO_LINK_THRESHOLD == 5

\* Mutant: the weights add up.
SumOfWeights(evidence) ==
    evidence["exact_phone"] + evidence["resume_content_hash"]
      + evidence["name_similarity"]

\* scoreDuplicate: the strongest signal decides.
Confidence(evidence) ==
    CHOOSE n \in 0..5 : /\ \A s \in Signal : evidence[s] <= n
                        /\ \E s \in Signal : evidence[s] = n

ParseJob == "parse"
Creation == "create"
Scanner == Rescans \union {ParseJob, Creation}

NoLink == [status |-> "none", signals |-> NoEvidence, confidence |-> 0]
Idle == [pc |-> "idle"]

\* A scan between two steps: the pass it is in, what it knew when it started,
\* whether passes after the first follow, and what upsertLink has read.
ScanState ==
    {Idle}
      \union [pc: {"pass"}, pass: 1..4, own: Evidence, full: BOOLEAN]
      \union [pc: {"write"}, pass: 1..3, own: Evidence, full: BOOLEAN,
              seen: Evidence, signals: Evidence, confidence: 0..5]

TypeOK ==
    /\ shared \in Evidence
    /\ resume \in [status: {"none", "PENDING", "PARSING", "PARSED", "FAILED"},
                   profile: BOOLEAN]
    /\ job \in [pc: {"absent", "waiting", "parsing", "count", "scanning",
                     "recount", "completed", "failed"},
                tries: 0..MaxAttempts, stalls: 0..MaxStalls, lost: BOOLEAN,
                pending: BOOLEAN]
    /\ scan \in [Scanner -> ScanState]
    /\ link \in [status: {"none", "PENDING", "CONFIRMED", "DISMISSED"},
                 signals: Evidence, confidence: 0..5]
    /\ told \in BOOLEAN
    /\ scans \in 0..MaxScans /\ edits \in 0..MaxEdits
    /\ clean \subseteq Scanner
    /\ foundBy \in Evidence

Init ==
    /\ shared \in {e \in Evidence : e["resume_content_hash"] = 0}
    /\ resume = [status |-> "none", profile |-> FALSE]
    /\ job = [pc |-> "absent", tries |-> 0, stalls |-> 0, lost |-> FALSE,
              pending |-> FALSE]
    /\ scan = [s \in Scanner |->
                 IF s = Creation
                   THEN [pc |-> "pass", pass |-> 1, own |-> NoEvidence,
                          full |-> FALSE]
                   ELSE Idle]
    /\ link = NoLink
    /\ told = FALSE
    /\ scans = 0 /\ edits = 0
    /\ clean = {Creation}
    /\ foundBy = NoEvidence

Active == {s \in Scanner : scan[s] # Idle}

-----------------------------------------------------------------------------
(* Scans *)

\* scanFullDuplicatesForCandidate reads its candidate.
Begin(s) ==
    /\ scan' = [scan EXCEPT ![s] =
                  [pc |-> "pass", pass |-> 1, own |-> shared, full |-> TRUE]]
    /\ clean' = IF Active = {} THEN {s} ELSE {}

\* A job that a recruiter asked for, for either candidate, or its retry.
Rescan(s) ==
    /\ scan[s] = Idle
    /\ scans < MaxScans
    /\ scans' = scans + 1
    /\ Begin(s)
    /\ UNCHANGED <<shared, resume, job, link, told, edits, foundBy>>

\* updateCandidate changes a phone or a name, a resume of the other candidate
\* what their names weigh; none of them scans this pair.
Edit(s) ==
    /\ edits < MaxEdits
    /\ edits' = edits + 1
    /\ shared' \in {e \in Evidence :
                     \A t \in Signal : e[t] # shared[t] <=> t = s}
    /\ UNCHANGED <<resume, job, scan, link, told, scans, clean, foundBy>>

Only(S, facts) == [s \in Signal |-> IF s \in S THEN facts[s] ELSE 0]

\* What a pass over the pair finds: its own signal, and the phone beside it.
Found(pass, facts) ==
    LET own == CASE pass = 1 -> "exact_phone"
                 [] pass = 2 -> "resume_content_hash"
                 [] pass = 3 -> "name_similarity"
    IN IF facts[own] = 0 THEN NoEvidence ELSE Only({own, "exact_phone"}, facts)

\* The first pass reads both candidates; later ones compare what the scan read
\* of its own at the start with what the other one is now.
Seen(s) ==
    IF scan[s].pass = 1 THEN {shared}
    ELSE {[t \in Signal |-> IF t \in S THEN scan[s].own[t] ELSE shared[t]]
            : S \in SUBSET Signal}

\* The next pass; the parse job goes on after the last one.
After(s) ==
    CASE scan[s].full /\ scan[s].pass < 3 ->
           [pc |-> "pass", pass |-> scan[s].pass + 1, own |-> scan[s].own,
            full |-> TRUE]
      [] s = ParseJob /\ scan[s].pass = 3 ->
           [pc |-> "pass", pass |-> 4, own |-> NoEvidence, full |-> TRUE]
      [] OTHER -> Idle

CleanAfter(s) == clean' = IF scan'[s] = Idle THEN clean \ {s} ELSE clean

\* A pass finds its match and upsertLink reads the link, or there is none that
\* needs a review.
Pass(s) ==
    /\ scan[s].pc = "pass"
    /\ scan[s].pass < 4
    /\ \E facts \in Seen(s) :
         LET found == Found(scan[s].pass, facts)
         IN scan' = [scan EXCEPT ![s] =
              IF Confidence(found) < REVIEW_THRESHOLD THEN After(s)
              ELSE [pc |-> "write", pass |-> scan[s].pass, own |-> scan[s].own,
                    full |-> scan[s].full, seen |-> found,
                    signals |-> link.signals,
                    confidence |-> link.confidence]]
    /\ CleanAfter(s)
    /\ UNCHANGED <<shared, resume, job, link, told, scans, edits, foundBy>>

\* Mutant: the later call clobbers the earlier one.
LastSignals(existing, incoming) == incoming
\* Of a name that both have, the incoming signal stays, the weaker one too.
mergeSignals(existing, incoming) ==
    [s \in Signal |-> IF incoming[s] # 0 THEN incoming[s] ELSE existing[s]]

\* Mutant: an existing link keeps its status, however strong the new signal.
StatusKept(confidence) ==
    IF link.status # "none" THEN link.status
    ELSE IF confidence >= AUTO_LINK_THRESHOLD THEN "CONFIRMED" ELSE "PENDING"
Status(confidence) ==
    IF confidence >= AUTO_LINK_THRESHOLD THEN "CONFIRMED"
    ELSE IF link.status = "none" THEN "PENDING" ELSE link.status

Greater(m, n) == IF m > n THEN m ELSE n

\* upsertLink writes what it made of the link it read: signals, confidence and,
\* from the threshold on, the status.
Upsert(s) ==
    /\ scan[s].pc = "write"
    /\ LET mine == Confidence(scan[s].seen)
           confidence == Greater(mine, scan[s].confidence)
       IN link' = [status |-> Status(confidence),
                   signals |-> mergeSignals(scan[s].signals, scan[s].seen),
                   confidence |-> confidence]
    /\ scan' = [scan EXCEPT ![s] = After(s)]
    /\ foundBy' = IF s \in clean
                    THEN [t \in Signal |-> Greater(foundBy[t], scan[s].seen[t])]
                    ELSE foundBy
    /\ CleanAfter(s)
    /\ UNCHANGED <<shared, resume, job, told, scans, edits>>

\* A scan outside the parse job is cut short by an error or a crash.
Abort(s) ==
    /\ s # ParseJob
    /\ scan[s] # Idle
    /\ scan' = [scan EXCEPT ![s] = Idle]
    /\ clean' = clean \ {s}
    /\ UNCHANGED <<shared, resume, job, link, told, scans, edits, foundBy>>

\* confirmDuplicate, dismissDuplicate: whatever the status was.
Review(status) ==
    /\ link.status # "none"
    /\ link' = [link EXCEPT !.status = status]
    /\ UNCHANGED <<shared, resume, job, scan, told, scans, edits, clean, foundBy>>

-----------------------------------------------------------------------------
(* The resume-parse job *)

\* addResume: the file may be byte-identical to one of the other candidate's.
Upload ==
    /\ resume.status = "none"
    /\ resume' = [resume EXCEPT !.status = "PENDING"]
    /\ job' = [job EXCEPT !.pc = "waiting"]
    /\ shared' \in {shared, [shared EXCEPT !["resume_content_hash"] = 4]}
    /\ UNCHANGED <<scan, link, told, scans, edits, clean, foundBy>>

\* A worker takes the job.
Parse ==
    /\ job.pc = "waiting"
    /\ resume' = [resume EXCEPT !.status = "PARSING"]
    /\ job' = [job EXCEPT !.pc = "parsing"]
    /\ UNCHANGED <<shared, scan, link, told, scans, edits, clean, foundBy>>

\* Read, extracted and structured; an employer or school in common makes the
\* name weigh more.
Parsed ==
    /\ job.pc = "parsing"
    /\ resume' = [status |-> "PARSED", profile |-> TRUE]
    /\ job' = [job EXCEPT !.pc = "count"]
    /\ \/ UNCHANGED shared
       \/ /\ ~resume.profile /\ shared["name_similarity"] \in 1..2
          /\ shared' = [shared EXCEPT !["name_similarity"] = @ + 1]
    /\ UNCHANGED <<scan, link, told, scans, edits, clean, foundBy>>

\* Counts the candidate's PENDING links, and scans.
Count ==
    /\ job.pc = "count"
    /\ job' = [job EXCEPT !.pc = "scanning", !.pending = (link.status = "PENDING")]
    /\ Begin(ParseJob)
    /\ UNCHANGED <<shared, resume, link, told, scans, edits, foundBy>>

Recount ==
    /\ job.pc = "scanning"
    /\ scan[ParseJob].pc = "pass" /\ scan[ParseJob].pass = 4
    /\ job' = [job EXCEPT !.pc = "recount"]
    /\ scan' = [scan EXCEPT ![ParseJob] = Idle]
    /\ clean' = clean \ {ParseJob}
    /\ UNCHANGED <<shared, resume, link, told, scans, edits, foundBy>>

MorePending == link.status = "PENDING" /\ ~job.pending

\* Counts again, and tells the recruiters if there are more.
Complete ==
    /\ job.pc = "recount"
    /\ told' = (told \/ MorePending)
    /\ job' = [job EXCEPT !.pc = "completed", !.pending = FALSE]
    /\ UNCHANGED <<shared, resume, scan, link, scans, edits, clean, foundBy>>

Running == job.pc \in {"parsing", "count", "scanning", "recount"}

Aborted == /\ scan' = [scan EXCEPT ![ParseJob] = Idle]
           /\ clean' = clean \ {ParseJob}

\* Mutant: only the errors of parsing are recorded.
RecordedParsing == job.pc = "parsing"
Recorded == TRUE

\* Anything in the try block throws, even after PARSED: the error is recorded
\* and rethrown, which leads to another attempt while there is one.
Throw ==
    /\ Running
    /\ job.tries < MaxAttempts
    /\ resume' = IF Recorded THEN [resume EXCEPT !.status = "FAILED"] ELSE resume
    /\ job' = [job EXCEPT !.tries = @ + 1, !.pending = FALSE,
                 !.pc = IF job.tries + 1 = MaxAttempts THEN "failed" ELSE "waiting"]
    /\ Aborted
    /\ UNCHANGED <<shared, link, told, scans, edits, foundBy>>

\* The database fails, at the update to PARSING outside the try block or at
\* the one in the catch block: the attempt ends and leaves no record.
ThrowUnrecorded ==
    /\ job.pc = "waiting" \/ Running
    /\ job.tries < MaxAttempts
    /\ job' = [job EXCEPT !.tries = @ + 1, !.pending = FALSE,
                 !.lost = (job.tries + 1 = MaxAttempts),
                 !.pc = IF job.tries + 1 = MaxAttempts THEN "failed" ELSE "waiting"]
    /\ Aborted
    /\ UNCHANGED <<shared, resume, link, told, scans, edits, foundBy>>

\* The worker is lost: nothing is recorded, and BullMQ restarts the job once.
Stall ==
    /\ Running
    /\ job' = [job EXCEPT !.lost = (@ \/ job.stalls = MaxStalls),
                 !.pending = FALSE,
                 !.pc = IF job.stalls = MaxStalls THEN "failed" ELSE "waiting",
                 !.stalls = IF @ = MaxStalls THEN @ ELSE @ + 1]
    /\ Aborted
    /\ UNCHANGED <<shared, resume, link, told, scans, edits, foundBy>>

-----------------------------------------------------------------------------
Next ==
    \/ \E s \in Rescans : Rescan(s)
    \/ \E s \in Scanner : Pass(s) \/ Upsert(s) \/ Abort(s)
    \/ \E s \in {"exact_phone", "name_similarity"} : Edit(s)
    \/ \E status \in {"CONFIRMED", "DISMISSED"} : Review(status)
    \/ Upload \/ Parse \/ Parsed \/ Count \/ Recount \/ Complete
    \/ Throw \/ ThrowUnrecorded \/ Stall

Spec == Init /\ [][Next]_vars

-----------------------------------------------------------------------------
(* Properties *)

\* However scans overlap, the confidence is that of the strongest signal listed.
\* Only a name may weigh less by now than the confidence it gave the link, never
\* more, and it is still listed.  A certain link never waits for a review, and
\* none is listed that did not reach one.
LinkIsConsistent ==
    LET strongest == Confidence(link.signals)
    IN /\ \/ link.confidence = strongest
          \/ /\ link.signals["name_similarity"] # 0
             /\ strongest < link.confidence /\ link.confidence <= 3
       /\ link.confidence >= AUTO_LINK_THRESHOLD => link.status # "PENDING"
       /\ link.status # "none" => link.confidence >= REVIEW_THRESHOLD

\* A signal that a scan wrote while it was alone stays in the link by name: only
\* scans that overlap drop one, and only one of their own.
AloneIsKept == \A s \in Signal : foundBy[s] # 0 => link.signals[s] # 0

\* "Merge by signal name so a later, weaker call can't clobber an earlier,
\* stronger one" (domain/dedupe/scan.ts:13-14).  Not so, and without any overlap:
\* a name found less alike later replaces the stronger signal of that name.
StrongestKept == \A s \in Signal : link.signals[s] >= foundBy[s]

\* What the end of the job says is so: a resume whose job completed is PARSED,
\* and its recruiters know of a suspicion that the job's only attempt added;
\* one whose job failed is FAILED, and never left PARSING, unless the last
\* attempt could not write that or the worker was lost once too often.
OutcomeIsTrue ==
    /\ job.pc = "completed" => resume.status = "PARSED"
    /\ job.pc = "completed" /\ job.tries = 0 /\ job.stalls = 0 /\ scans = 0
         => (link.status = "PENDING" => told)
    /\ job.pc = "failed" /\ ~job.lost => resume.status = "FAILED"
=============================================================================
