-------------------------- MODULE ResumeParseProofs --------------------------
(***************************************************************************)
(* Overlapping duplicate scans leave a consistent link and drop only each  *)
(* other's signals, and the end of a parse job tells the truth: for any    *)
(* number of rescans, attempts, stalls and edits.                          *)
(***************************************************************************)
EXTENDS ResumeParse, TLAPS

\* What the constants stand for: bounds are numbers, there is an attempt, and
\* a dedupe-scan job is neither the parse job nor the candidate's creation.
ConstantsOK ==
    /\ MaxScans \in Nat /\ MaxEdits \in Nat /\ MaxStalls \in Nat
    /\ MaxAttempts \in Nat \ {0}
    /\ ParseJob \notin Rescans /\ Creation \notin Rescans

-----------------------------------------------------------------------------
(* The inductive invariant *)

\* Only a name may weigh less than the confidence it once gave.
Consistent(signals, confidence) ==
    LET strongest == Confidence(signals)
    IN \/ confidence = strongest
       \/ /\ signals["name_similarity"] # 0
          /\ strongest < confidence /\ confidence <= 3

\* What a scan has read of the link and what it has found are fit to be written.
ReadConsistent ==
    \A s \in Scanner :
        scan[s].pc = "write" =>
            /\ Consistent(scan[s].signals, scan[s].confidence)
            /\ Confidence(scan[s].seen) >= REVIEW_THRESHOLD

\* A scan that has overlapped no other is the only one.
CleanAlone == \A s \in clean : Active \subseteq {s}

\* What such scans found, every scan has read that is about to write.
ReadersKnow ==
    \A s \in Scanner : scan[s].pc = "write" =>
        \A t \in Signal : foundBy[t] # 0 => scan[s].signals[t] # 0

\* The scan at a candidate's creation looks for phones only, and a scan of the
\* parse job goes on only while the job is at it.
Scans ==
    /\ scan[Creation].pc \in {"pass", "write"} =>
         ~scan[Creation].full /\ scan[Creation].pass = 1
    /\ scan[Creation].pc = "write" => scan[Creation].seen["exact_phone"] = 5
    /\ scans = 0 => \A s \in Rescans : scan[s].pc = "idle"
    /\ scan[ParseJob].pc # "idle" => job.pc = "scanning"

\* The resume says what its job has done.
JobAndResume ==
    /\ job.pc = "absent" <=> resume.status = "none"
    /\ job.pc \in {"count", "scanning", "recount", "completed"} => resume.status = "PARSED"
    /\ job.pc = "failed" /\ ~job.lost => resume.status = "FAILED"

FirstAttempt == job.tries = 0 /\ job.stalls = 0 /\ scans = 0

\* A suspicion that is there after the only attempt's scan was not there
\* before it, and is told at its end.
Suspicion ==
    FirstAttempt =>
        /\ job.pc \in {"scanning", "recount"} => ~job.pending
        /\ link.status = "PENDING" =>
             \/ job.pc \in {"scanning", "recount", "failed"}
             \/ job.pc = "completed" /\ told

IInv == /\ TypeOK
        /\ ReadConsistent /\ LinkIsConsistent
        /\ CleanAlone /\ ReadersKnow /\ AloneIsKept
        /\ Scans /\ JobAndResume /\ Suspicion

-----------------------------------------------------------------------------
(* The score *)

LEMMA Ranks ==
    ASSUME NEW e \in Evidence
    PROVE  /\ e \in [Signal -> 0..5]
           /\ e["exact_phone"] \in {0, 5}
           /\ e["resume_content_hash"] \in {0, 4}
           /\ e["name_similarity"] \in 0..3
           /\ {"exact_phone", "resume_content_hash", "name_similarity"} = Signal
  BY DEF Evidence, Signal

\* A phone decides, then a resume, then the names; none makes 0.
LEMMA Strongest ==
    ASSUME NEW e \in Evidence
    PROVE  Confidence(e) = IF e["exact_phone"] = 5 THEN 5
                           ELSE IF e["resume_content_hash"] = 4 THEN 4
                           ELSE e["name_similarity"]
<1> DEFINE Fits(n) == /\ \A s \in Signal : e[s] <= n
                      /\ \E s \in Signal : e[s] = n
           top == IF e["exact_phone"] = 5 THEN 5
                  ELSE IF e["resume_content_hash"] = 4 THEN 4
                  ELSE e["name_similarity"]
<1>1. \A n : Fits(n) <=> /\ e["exact_phone"] <= n /\ e["resume_content_hash"] <= n
                         /\ e["name_similarity"] <= n
                         /\ \/ e["exact_phone"] = n \/ e["resume_content_hash"] = n
                            \/ e["name_similarity"] = n
  BY Ranks
<1>2. top \in 0..5 /\ \A n \in 0..5 : Fits(n) <=> n = top
  BY <1>1, Ranks
<1>3. Confidence(e) = CHOOSE n \in 0..5 : Fits(n)
  BY DEF Confidence
<1> HIDE DEF Fits, top
<1>4. Confidence(e) = top
  BY <1>2, <1>3
<1>5. QED BY <1>4 DEF top

\* What the link may say, signal by signal.
LEMMA Meaning ==
    ASSUME NEW e \in Evidence, NEW c \in 0..5
    PROVE  Consistent(e, c) <=>
             IF e["exact_phone"] = 5 THEN c = 5
             ELSE IF e["resume_content_hash"] = 4 THEN c = 4
             ELSE /\ e["name_similarity"] <= c /\ c <= 3
                  /\ e["name_similarity"] = 0 => c = 0
  BY Strongest, Ranks DEF Consistent

LEMMA NoSignal ==
    NoEvidence \in Evidence /\ Confidence(NoEvidence) = 0
<1>1. NoEvidence \in Evidence
  BY DEF NoEvidence, Evidence, Signal
<1>2. QED
  BY <1>1, Strongest DEF NoEvidence, Signal

LEMMA OnlyTyped ==
    ASSUME NEW S, NEW e \in Evidence
    PROVE  Only(S, e) \in Evidence
  BY Ranks DEF Only, Evidence, Signal

\* The merge by name and the greater confidence keep a link consistent, and all
\* that it named.
LEMMA MergeConsistent ==
    ASSUME NEW old \in Evidence, NEW new \in Evidence, NEW c \in 0..5,
           Consistent(old, c)
    PROVE  LET both == mergeSignals(old, new)
               top == Greater(Confidence(new), c)
           IN /\ both \in Evidence /\ top \in 0..5
              /\ Consistent(both, top)
              /\ top >= Confidence(new)
              /\ \A s \in Signal : both[s] # 0 <=> old[s] # 0 \/ new[s] # 0
<1> DEFINE both == mergeSignals(old, new)
           top == Greater(Confidence(new), c)
<1>1. \A s \in Signal : both[s] = IF new[s] # 0 THEN new[s] ELSE old[s]
  BY DEF mergeSignals
<1>2. both \in Evidence
  <2>1. both \in [Signal -> 0..5]
    BY Ranks DEF mergeSignals
  <2>2. QED BY <1>1, <2>1, Ranks DEF Evidence
<1>3. Confidence(new) \in 0..5
  BY Strongest, Ranks
<1>4. top \in 0..5 /\ top >= Confidence(new)
  BY <1>3 DEF Greater
<1>5. Consistent(both, top)
  <2> HIDE DEF both
  <2>1. /\ both["exact_phone"] = IF new["exact_phone"] # 0
                                   THEN new["exact_phone"] ELSE old["exact_phone"]
        /\ both["resume_content_hash"] =
             IF new["resume_content_hash"] # 0
               THEN new["resume_content_hash"] ELSE old["resume_content_hash"]
        /\ both["name_similarity"] =
             IF new["name_similarity"] # 0
               THEN new["name_similarity"] ELSE old["name_similarity"]
    BY <1>1, Ranks
  <2>2. QED
    BY <1>2, <1>4, <2>1, Meaning, Strongest, Ranks DEF Greater
<1>6. QED
  BY <1>1, <1>2, <1>4, <1>5

-----------------------------------------------------------------------------
(* What a scan holds at each of its steps. *)

LEMMA Holds ==
    ASSUME TypeOK, NEW s \in Scanner
    PROVE  /\ scan[s] = Idle <=> scan[s].pc = "idle"
           /\ scan[s].pc \in {"idle", "pass", "write"}
           /\ scan[s].pc = "pass" =>
                /\ scan[s].pass \in 1..4 /\ scan[s].own \in Evidence
                /\ scan[s].full \in BOOLEAN
           /\ scan[s].pc = "write" =>
                /\ scan[s].pass \in 1..3 /\ scan[s].own \in Evidence
                /\ scan[s].full \in BOOLEAN
                /\ scan[s].seen \in Evidence
                /\ scan[s].signals \in Evidence
                /\ scan[s].confidence \in 0..5
<1>1. scan[s] \in ScanState
  BY DEF TypeOK
<1>2. QED
  BY <1>1 DEF ScanState, Idle

\* A scan goes on with its next pass, or has ended.
LEMMA GoesOn ==
    ASSUME TypeOK, NEW s \in Scanner, scan[s].pc \in {"pass", "write"},
           scan[s].pass # 4
    PROVE  /\ After(s) \in ScanState
           /\ After(s).pc \in {"idle", "pass"}
           /\ ~scan[s].full /\ scan[s].pass # 3 => After(s) = Idle
           /\ s # ParseJob /\ ~scan[s].full => After(s) = Idle
<1>1. /\ scan[s].pass \in 1..3 /\ scan[s].own \in Evidence
      /\ scan[s].full \in BOOLEAN
  BY Holds
<1>2. CASE scan[s].full /\ scan[s].pass < 3
  BY <1>1, <1>2 DEF After, ScanState
<1>3. CASE ~(scan[s].full /\ scan[s].pass < 3) /\ s = ParseJob /\ scan[s].pass = 3
  <2>1. After(s) = [pc |-> "pass", pass |-> 4, own |-> NoEvidence, full |-> TRUE]
    BY <1>3 DEF After
  <2>2. QED
    BY <1>3, <2>1, NoSignal DEF ScanState
<1>4. CASE ~(scan[s].full /\ scan[s].pass < 3) /\ ~(s = ParseJob /\ scan[s].pass = 3)
  <2>1. After(s) = Idle
    BY <1>4 DEF After
  <2>2. QED
    BY <2>1 DEF ScanState, Idle
<1>5. QED
  BY <1>1, <1>2, <1>3, <1>4

-----------------------------------------------------------------------------
(* Types *)

LEMMA InitIInv == ASSUME ConstantsOK, Init PROVE IInv
<1> USE DEF ConstantsOK
<1>1. [pc |-> "pass", pass |-> 1, own |-> NoEvidence, full |-> FALSE] \in ScanState
  BY NoSignal DEF ScanState
<1>2. Idle \in ScanState /\ Idle.pc = "idle"
  BY DEF ScanState, Idle
<1>3. scan \in [Scanner -> ScanState]
  BY <1>1, <1>2 DEF Init
<1>4. /\ \A s \in Scanner : scan[s] # Idle => s = Creation
      /\ \A s \in Scanner : s # Creation => scan[s].pc = "idle"
      /\ scan[Creation] = [pc |-> "pass", pass |-> 1, own |-> NoEvidence, full |-> FALSE]
  BY <1>2 DEF Init, Scanner
<1>5. TypeOK
  <2>1. Creation \in Scanner
    BY DEF Scanner
  <2>2. link \in [status: {"none", "PENDING", "CONFIRMED", "DISMISSED"},
                  signals: Evidence, confidence: 0..5]
    BY NoSignal DEF Init, NoLink
  <2>3. shared \in Evidence
    BY DEF Init
  <2>4. job \in [pc: {"absent", "waiting", "parsing", "count", "scanning",
                      "recount", "completed", "failed"},
                 tries: 0..MaxAttempts, stalls: 0..MaxStalls, lost: BOOLEAN,
                 pending: BOOLEAN]
    BY DEF Init
  <2>5. /\ told \in BOOLEAN
        /\ scans \in 0..MaxScans /\ edits \in 0..MaxEdits
        /\ resume \in [status: {"none", "PENDING", "PARSING", "PARSED", "FAILED"},
                       profile: BOOLEAN]
    <3>1. told \in BOOLEAN
      BY Zenon DEF Init
    <3>2. QED
      BY <3>1 DEF Init
  <2>6. clean \subseteq Scanner /\ foundBy \in Evidence
    BY <2>1, NoSignal DEF Init
  <2>7. QED
    BY <1>3, <2>2, <2>3, <2>4, <2>5, <2>6 DEF TypeOK
<1>6. CleanAlone
  BY <1>4 DEF Init, CleanAlone, Active
<1>7. \A s \in Scanner : scan[s].pc # "write"
  BY <1>4
<1>8. Scans
  <2>1. \A s \in Rescans : scan[s].pc = "idle"
    BY <1>4 DEF Scanner
  <2>2. ParseJob # Creation /\ ParseJob \in Scanner
    BY DEF ParseJob, Creation, Scanner
  <2>3. QED
    BY <1>4, <2>1, <2>2 DEF Scans
<1>9. LinkIsConsistent /\ AloneIsKept
  BY NoSignal DEF Init, LinkIsConsistent, AloneIsKept, NoLink, NoEvidence,
     AUTO_LINK_THRESHOLD
<1>10. JobAndResume /\ Suspicion
  BY DEF Init, JobAndResume, Suspicion, FirstAttempt, NoLink
<1>11. QED
  BY <1>5, <1>6, <1>7, <1>8, <1>9, <1>10 DEF IInv, ReadConsistent, ReadersKnow


LEMMA PassTyped ==
    ASSUME TypeOK, NEW s \in Scanner, Pass(s)
    PROVE  /\ scan' \in [Scanner -> ScanState]
           /\ \A t \in Scanner : t # s => scan'[t] = scan[t]
           /\ scan'[s].pc # "write" => scan'[s] = After(s)
           /\ scan'[s].pc = "write" =>
                /\ scan'[s].signals = link.signals
                /\ scan'[s].confidence = link.confidence
                /\ scan'[s].pass = scan[s].pass /\ scan'[s].full = scan[s].full
                /\ Confidence(scan'[s].seen) >= REVIEW_THRESHOLD
                /\ scan[s].pass = 1 => scan'[s].seen["exact_phone"] = 5
<1>1. /\ scan[s].pass \in 1..3 /\ scan[s].own \in Evidence
      /\ scan[s].full \in BOOLEAN /\ scan[s].pass # 4 /\ scan[s].pc = "pass"
  BY Holds DEF Pass
<1>2. PICK facts \in Seen(s) :
        scan' = [scan EXCEPT ![s] =
              IF Confidence(Found(scan[s].pass, facts)) < REVIEW_THRESHOLD
              THEN After(s)
              ELSE [pc |-> "write", pass |-> scan[s].pass, own |-> scan[s].own,
                    full |-> scan[s].full, seen |-> Found(scan[s].pass, facts),
                    signals |-> link.signals,
                    confidence |-> link.confidence]]
  BY DEF Pass
<1> DEFINE found == Found(scan[s].pass, facts)
<1>3. facts \in Evidence
  <2>1. CASE scan[s].pass = 1
    BY <2>1 DEF Seen, TypeOK
  <2>2. CASE scan[s].pass # 1
    <3>1. PICK S \in SUBSET Signal :
            facts = [t \in Signal |-> IF t \in S THEN scan[s].own[t] ELSE shared[t]]
      BY <2>2 DEF Seen
    <3>2. shared \in Evidence
      BY DEF TypeOK
    <3>3. facts \in [Signal -> 0..5]
      BY <1>1, <3>1, <3>2, Ranks
    <3>4. QED
      BY <1>1, <3>1, <3>2, <3>3, Ranks DEF Evidence
  <2>3. QED BY <2>1, <2>2
<1>4. found \in Evidence
      /\ (scan[s].pass = 1 /\ Confidence(found) # 0 => found["exact_phone"] = 5)
  <2>1. found \in Evidence
    BY <1>3, NoSignal, OnlyTyped DEF Found
  <2>2. CASE scan[s].pass = 1 /\ Confidence(found) # 0
    <3>1. facts["exact_phone"] # 0
      BY <2>2, NoSignal DEF Found
    <3>2. found["exact_phone"] = facts["exact_phone"]
      BY <2>2, <3>1 DEF Found, Only, Signal
    <3>3. QED BY <1>3, <2>1, <3>1, <3>2, Ranks
  <2>3. QED BY <2>1, <2>2
<1>5. After(s) \in ScanState /\ After(s).pc \in {"idle", "pass"}
  BY <1>1, GoesOn
<1>6. link.signals \in Evidence /\ link.confidence \in 0..5
  BY DEF TypeOK
<1> HIDE DEF found
<1>7. [pc |-> "write", pass |-> scan[s].pass, own |-> scan[s].own,
       full |-> scan[s].full, seen |-> found, signals |-> link.signals,
       confidence |-> link.confidence] \in ScanState
  BY <1>1, <1>4, <1>6 DEF ScanState
<1>8. scan \in [Scanner -> ScanState]
  BY DEF TypeOK
<1>9. scan' \in [Scanner -> ScanState]
  BY <1>2, <1>5, <1>7, <1>8 DEF found
<1>10. CASE Confidence(found) < REVIEW_THRESHOLD
  BY <1>2, <1>5, <1>8, <1>9, <1>10 DEF found
<1>11. CASE ~(Confidence(found) < REVIEW_THRESHOLD)
  <2>1. /\ Confidence(found) >= REVIEW_THRESHOLD
        /\ scan[s].pass = 1 => found["exact_phone"] = 5
    BY <1>4, <1>11, Strongest, Ranks DEF REVIEW_THRESHOLD
  <2>2. scan'[s] = [pc |-> "write", pass |-> scan[s].pass, own |-> scan[s].own,
         full |-> scan[s].full, seen |-> found, signals |-> link.signals,
         confidence |-> link.confidence]
    BY <1>2, <1>8, <1>11 DEF found
  <2>3. \A t \in Scanner : t # s => scan'[t] = scan[t]
    BY <1>2, <1>8
  <2>4. QED
    BY <1>9, <2>1, <2>2, <2>3
<1>12. QED
  BY <1>10, <1>11

\* What upsertLink makes of the link it has read and of what it has seen.
LEMMA UpsertWrites ==
    ASSUME TypeOK, ReadConsistent, NEW s \in Scanner, Upsert(s)
    PROVE  /\ link' \in [status: {"none", "PENDING", "CONFIRMED", "DISMISSED"},
                         signals: Evidence, confidence: 0..5]
           /\ \A t \in Signal : link'.signals[t] # 0 <=>
                                  scan[s].signals[t] # 0 \/ scan[s].seen[t] # 0
           /\ Consistent(link'.signals, link'.confidence)
           /\ link'.confidence >= REVIEW_THRESHOLD
           /\ link'.confidence >= Confidence(scan[s].seen)
           /\ link'.confidence >= AUTO_LINK_THRESHOLD => link'.status = "CONFIRMED"
           /\ scan' = [scan EXCEPT ![s] = After(s)]
           /\ scan[s].pc = "write" /\ scan[s].pass # 4
           /\ After(s) \in ScanState /\ After(s).pc \in {"idle", "pass"}
<1>1. /\ scan[s].pass \in 1..3 /\ scan[s].pass # 4 /\ scan[s].pc = "write"
      /\ scan[s].seen \in Evidence /\ scan[s].signals \in Evidence
      /\ scan[s].confidence \in 0..5
      /\ Consistent(scan[s].signals, scan[s].confidence)
      /\ Confidence(scan[s].seen) >= REVIEW_THRESHOLD
  BY Holds DEF Upsert, ReadConsistent
<1> DEFINE top == Greater(Confidence(scan[s].seen), scan[s].confidence)
           both == mergeSignals(scan[s].signals, scan[s].seen)
<1>2. /\ both \in Evidence /\ top \in 0..5 /\ Consistent(both, top)
      /\ top >= Confidence(scan[s].seen)
      /\ \A t \in Signal : both[t] # 0 <=>
                             scan[s].signals[t] # 0 \/ scan[s].seen[t] # 0
  BY <1>1, MergeConsistent
<1>3. link' = [status |-> Status(top), signals |-> both, confidence |-> top]
  BY DEF Upsert
<1> HIDE DEF top, both
<1>4. /\ Status(top) \in {"none", "PENDING", "CONFIRMED", "DISMISSED"}
      /\ top >= AUTO_LINK_THRESHOLD => Status(top) = "CONFIRMED"
  <2>1. CASE top >= AUTO_LINK_THRESHOLD
    BY <2>1 DEF Status
  <2>2. CASE ~(top >= AUTO_LINK_THRESHOLD) /\ link.status = "none"
    BY <2>2 DEF Status
  <2>3. CASE ~(top >= AUTO_LINK_THRESHOLD) /\ link.status # "none"
    <3>1. Status(top) = link.status
      BY <2>3 DEF Status
    <3>2. QED
      BY <2>3, <3>1 DEF TypeOK
  <2>4. QED
    BY <2>1, <2>2, <2>3
<1>5. /\ link' \in [status: {"none", "PENDING", "CONFIRMED", "DISMISSED"},
                    signals: Evidence, confidence: 0..5]
      /\ link'.signals = both /\ link'.confidence = top /\ link'.status = Status(top)
  BY <1>2, <1>3, <1>4
<1>6. After(s) \in ScanState /\ After(s).pc \in {"idle", "pass"}
  BY <1>1, GoesOn
<1>7. scan' = [scan EXCEPT ![s] = After(s)]
  BY DEF Upsert
<1>8. Confidence(scan[s].seen) \in 0..5
  BY <1>1, Strongest, Ranks
<1>9. top >= REVIEW_THRESHOLD
  BY <1>1, <1>2, <1>8 DEF REVIEW_THRESHOLD
<1>10. QED
  BY <1>1, <1>2, <1>4, <1>5, <1>6, <1>7, <1>9

\* What LinkIsConsistent says of a link that a scan wrote.
LEMMA LinkParts ==
    LinkIsConsistent <=>
      /\ Consistent(link.signals, link.confidence)
      /\ link.confidence >= AUTO_LINK_THRESHOLD => link.status # "PENDING"
      /\ link.status # "none" => link.confidence >= REVIEW_THRESHOLD
  BY DEF LinkIsConsistent, Consistent

-----------------------------------------------------------------------------
(* Steps that write no link by a scan *)

LEMMA LinkKept ==
    ASSUME IInv, foundBy' = foundBy,
           link'.signals = link.signals, link'.confidence = link.confidence,
           \/ link'.status = link.status
           \/ link.status # "none" /\ link'.status \in {"CONFIRMED", "DISMISSED"},
           \A t \in Scanner : scan'[t] = scan[t] \/ scan'[t].pc # "write"
    PROVE  /\ ReadConsistent' /\ LinkIsConsistent'
           /\ ReadersKnow' /\ AloneIsKept'
<1>1. ReadConsistent'
  BY DEF IInv, ReadConsistent
<1>2. LinkIsConsistent'
  BY DEF IInv, LinkIsConsistent
<1>3. ReadersKnow' /\ AloneIsKept'
  BY DEF IInv, ReadersKnow, AloneIsKept
<1>4. QED
  BY <1>1, <1>2, <1>3

\* No scan begins.
LEMMA CleanKept ==
    ASSUME CleanAlone, clean' \subseteq clean,
           \A t \in Scanner : scan'[t] # Idle => scan[t] # Idle
    PROVE  CleanAlone'
  BY DEF CleanAlone, Active

\* One begins, and is clean only if no other is active.
LEMMA Begins ==
    ASSUME IInv, NEW s \in Scanner, Begin(s)
    PROVE  /\ scan' \in [Scanner -> ScanState]
           /\ scan'[s] = [pc |-> "pass", pass |-> 1, own |-> shared, full |-> TRUE]
           /\ \A t \in Scanner : t # s => scan'[t] = scan[t]
           /\ \A t \in Scanner : scan'[t] = scan[t] \/ scan'[t].pc # "write"
           /\ clean' \subseteq Scanner
           /\ CleanAlone'
<1>1. [pc |-> "pass", pass |-> 1, own |-> shared, full |-> TRUE] \in ScanState
  BY DEF IInv, TypeOK, ScanState
<1>2. scan' = [scan EXCEPT ![s] =
                 [pc |-> "pass", pass |-> 1, own |-> shared, full |-> TRUE]]
  BY DEF Begin
<1>3. scan \in [Scanner -> ScanState]
  BY DEF IInv, TypeOK
<1>4. clean' = IF Active = {} THEN {s} ELSE {}
  BY DEF Begin
<1>5. CleanAlone'
  BY <1>2, <1>3, <1>4 DEF CleanAlone, Active
<1>6. QED
  BY <1>1, <1>2, <1>3, <1>4, <1>5

\* The parse job's scan ends with its attempt.
LEMMA Aborts ==
    ASSUME IInv, Aborted
    PROVE  /\ scan' \in [Scanner -> ScanState]
           /\ scan'[ParseJob].pc = "idle"
           /\ \A t \in Scanner : t # ParseJob => scan'[t] = scan[t]
           /\ \A t \in Scanner : scan'[t] = scan[t] \/ scan'[t].pc # "write"
           /\ clean' \subseteq Scanner
           /\ CleanAlone'
<1>1. Idle \in ScanState /\ Idle.pc = "idle"
  BY DEF ScanState, Idle
<1>2. scan \in [Scanner -> ScanState] /\ clean \subseteq Scanner /\ ParseJob \in Scanner
  BY DEF IInv, TypeOK, Scanner
<1>3. scan' = [scan EXCEPT ![ParseJob] = Idle] /\ clean' = clean \ {ParseJob}
  BY DEF Aborted
<1>4. CleanAlone'
  BY <1>2, <1>3, CleanKept DEF IInv
<1>5. QED
  BY <1>1, <1>2, <1>3, <1>4

-----------------------------------------------------------------------------
(* The steps *)

LEMMA RescanStep ==
    ASSUME ConstantsOK, IInv, NEW s \in Rescans, Rescan(s) PROVE IInv'
<1>1. s \in Scanner /\ s # ParseJob /\ s # Creation
  BY DEF ConstantsOK, Scanner
<1>2. /\ scan' \in [Scanner -> ScanState]
      /\ \A t \in Scanner : t # s => scan'[t] = scan[t]
      /\ \A t \in Scanner : scan'[t] = scan[t] \/ scan'[t].pc # "write"
      /\ clean' \subseteq Scanner
      /\ CleanAlone'
  BY <1>1, Begins DEF Rescan
<1>3. UNCHANGED <<shared, resume, job, link, told, edits, foundBy>>
  BY DEF Rescan
<1>4. scans' = scans + 1 /\ scans' \in 0..MaxScans /\ scans' # 0
  BY DEF Rescan, IInv, TypeOK, ConstantsOK
<1>5. TypeOK'
  BY <1>2, <1>3, <1>4 DEF IInv, TypeOK
<1>6. Scans'
  <2>1. ParseJob \in Scanner /\ Creation \in Scanner
    BY DEF Scanner
  <2>2. scan'[ParseJob] = scan[ParseJob] /\ scan'[Creation] = scan[Creation]
    BY <1>1, <1>2, <2>1
  <2>3. QED
    BY <1>3, <1>4, <2>2 DEF IInv, Scans
<1>7. JobAndResume' /\ Suspicion'
  BY <1>3, <1>4 DEF IInv, JobAndResume, Suspicion, FirstAttempt
<1>8. QED
  BY <1>2, <1>3, <1>5, <1>6, <1>7, LinkKept DEF IInv

LEMMA PassStep == ASSUME IInv, NEW s \in Scanner, Pass(s) PROVE IInv'
<1>1. /\ scan' \in [Scanner -> ScanState]
      /\ \A t \in Scanner : t # s => scan'[t] = scan[t]
      /\ scan'[s].pc # "write" => scan'[s] = After(s)
      /\ scan'[s].pc = "write" =>
           /\ scan'[s].signals = link.signals
           /\ scan'[s].confidence = link.confidence
           /\ scan'[s].pass = scan[s].pass /\ scan'[s].full = scan[s].full
           /\ Confidence(scan'[s].seen) >= REVIEW_THRESHOLD
           /\ scan[s].pass = 1 => scan'[s].seen["exact_phone"] = 5
  BY PassTyped DEF IInv
<1>2. /\ UNCHANGED <<shared, resume, job, link, told, scans, edits, foundBy>>
      /\ scan[s].pc = "pass" /\ scan[s].pass < 4
      /\ clean' = IF scan'[s] = Idle THEN clean \ {s} ELSE clean
  BY DEF Pass, CleanAfter
<1>3. clean' \subseteq clean /\ clean' \subseteq Scanner
  BY <1>2 DEF IInv, TypeOK
<1>4. TypeOK'
  BY <1>1, <1>2, <1>3 DEF IInv, TypeOK
<1>5. scan[s] # Idle /\ scan[s].pass \in 1..4 /\ scan[s].pass # 4
  BY <1>2, Holds DEF IInv
<1>6. CleanAlone'
  BY <1>1, <1>3, <1>5, CleanKept DEF IInv
<1>7. ReadConsistent' /\ ReadersKnow' /\ LinkIsConsistent' /\ AloneIsKept'
  <2>1. LinkIsConsistent' /\ AloneIsKept'
    BY <1>2 DEF IInv, LinkIsConsistent, AloneIsKept
  <2>2. scan'[s].pc = "write" => /\ Consistent(scan'[s].signals, scan'[s].confidence)
                                 /\ Confidence(scan'[s].seen) >= REVIEW_THRESHOLD
    BY <1>1, LinkParts DEF IInv
  <2>3. \A t \in Scanner : scan'[t] = scan[t] \/ t = s
    BY <1>1
  <2>4. ReadConsistent'
    BY <2>2, <2>3 DEF IInv, ReadConsistent
  <2>5. ReadersKnow'
    BY <1>1, <1>2, <2>3 DEF IInv, ReadersKnow, AloneIsKept
  <2>6. QED BY <2>1, <2>4, <2>5
<1>8. Scans'
  <2>1. ParseJob \in Scanner /\ Creation \in Scanner /\ Rescans \subseteq Scanner
    BY DEF Scanner
  <2>2. ASSUME s = Creation
        PROVE  /\ ~scan[s].full /\ scan[s].pass = 1
               /\ scan'[s].pc = "write" => scan'[s].seen["exact_phone"] = 5
               /\ scan'[s].pc # "write" => scan'[s].pc = "idle"
    <3>1. ~scan[s].full /\ scan[s].pass = 1
      BY <1>2, <2>2 DEF IInv, Scans
    <3>2. After(s) = Idle
      BY <1>2, <1>5, <3>1, GoesOn DEF IInv
    <3>3. QED
      BY <1>1, <3>1, <3>2 DEF Idle
  <2>3. scan'[Creation].pc \in {"pass", "write"} =>
          ~scan'[Creation].full /\ scan'[Creation].pass = 1
    BY <1>1, <2>1, <2>2 DEF IInv, Scans
  <2>4. scan'[Creation].pc = "write" => scan'[Creation].seen["exact_phone"] = 5
    BY <1>1, <2>1, <2>2 DEF IInv, Scans
  <2>5. scans' = 0 => \A t \in Rescans : scan'[t].pc = "idle"
    BY <1>1, <1>2, <2>1 DEF IInv, Scans
  <2>6. scan'[ParseJob].pc # "idle" => job'.pc = "scanning"
    BY <1>1, <1>2, <2>1 DEF IInv, Scans
  <2>7. QED
    BY <2>3, <2>4, <2>5, <2>6 DEF Scans
<1>9. JobAndResume' /\ Suspicion'
  BY <1>2 DEF IInv, JobAndResume, Suspicion, FirstAttempt
<1>10. QED
  BY <1>4, <1>6, <1>7, <1>8, <1>9 DEF IInv

LEMMA UpsertStep == ASSUME IInv, NEW s \in Scanner, Upsert(s) PROVE IInv'
<1>1. /\ link' \in [status: {"none", "PENDING", "CONFIRMED", "DISMISSED"},
                    signals: Evidence, confidence: 0..5]
      /\ \A t \in Signal : link'.signals[t] # 0 <=>
                             scan[s].signals[t] # 0 \/ scan[s].seen[t] # 0
      /\ Consistent(link'.signals, link'.confidence)
      /\ link'.confidence >= REVIEW_THRESHOLD
      /\ link'.confidence >= Confidence(scan[s].seen)
      /\ link'.confidence >= AUTO_LINK_THRESHOLD => link'.status = "CONFIRMED"
      /\ scan' = [scan EXCEPT ![s] = After(s)]
      /\ scan[s].pc = "write" /\ scan[s].pass # 4
      /\ After(s) \in ScanState /\ After(s).pc \in {"idle", "pass"}
  BY UpsertWrites DEF IInv
<1>2. /\ UNCHANGED <<shared, resume, job, told, scans, edits>>
      /\ foundBy' = IF s \in clean
                      THEN [t \in Signal |-> Greater(foundBy[t], scan[s].seen[t])]
                      ELSE foundBy
      /\ clean' = IF scan'[s] = Idle THEN clean \ {s} ELSE clean
  BY DEF Upsert, CleanAfter
<1>3. scan \in [Scanner -> ScanState] /\ clean \subseteq Scanner /\ foundBy \in Evidence
  BY DEF IInv, TypeOK
<1>4. /\ scan' \in [Scanner -> ScanState]
      /\ \A t \in Scanner : t # s => scan'[t] = scan[t]
      /\ scan'[s] = After(s)
  BY <1>1, <1>3
<1>5. scan[s].seen \in Evidence /\ scan[s] # Idle
  BY <1>1, Holds DEF IInv
<1>6. TypeOK'
  <2>1. foundBy' \in Evidence
    <3>1. CASE s \in clean
      <4>1. foundBy' = [t \in Signal |-> Greater(foundBy[t], scan[s].seen[t])]
        BY <1>2, <3>1
      <4>2. foundBy' \in [Signal -> 0..5]
        BY <1>3, <1>5, <4>1, Ranks DEF Greater
      <4>3. QED
        BY <1>3, <1>5, <4>1, <4>2, Ranks DEF Greater, Evidence
    <3>2. QED BY <1>2, <1>3, <3>1
  <2>2. QED
    BY <1>1, <1>2, <1>3, <1>4, <2>1 DEF IInv, TypeOK
<1>7. ReadConsistent' /\ LinkIsConsistent'
  <2>1. ReadConsistent'
    BY <1>1, <1>4 DEF IInv, ReadConsistent
  <2>2. QED
    BY <1>1, <2>1 DEF LinkIsConsistent, Consistent
<1>8. CleanAlone'
  BY <1>2, <1>4, <1>5, CleanKept DEF IInv
<1>9. \A t \in Signal : foundBy[t] # 0 => scan[s].signals[t] # 0
  BY <1>1 DEF IInv, ReadersKnow
<1>10. AloneIsKept'
  BY <1>1, <1>2, <1>9 DEF AloneIsKept, Greater
<1>11. ReadersKnow'
  <2>1. CASE s \in clean
    <3>1. \A t \in Scanner : t # s => scan[t] = Idle
      BY <2>1 DEF IInv, CleanAlone, Active
    <3>2. QED
      BY <1>1, <1>4, <3>1 DEF ReadersKnow, Idle
  <2>2. CASE s \notin clean
    BY <1>1, <1>2, <1>4, <2>2 DEF IInv, ReadersKnow
  <2>3. QED
    BY <2>1, <2>2
<1>12. Scans'
  <2>1. ParseJob \in Scanner /\ Creation \in Scanner /\ Rescans \subseteq Scanner
    BY DEF Scanner
  <2>2. s = Creation => scan'[s].pc = "idle"
    <3>1. SUFFICES ASSUME s = Creation PROVE scan'[s].pc = "idle"
      OBVIOUS
    <3>2. ~scan[s].full /\ scan[s].pass # 3
      BY <1>1, <3>1 DEF IInv, Scans
    <3>3. QED
      BY <1>1, <1>4, <3>2, GoesOn DEF IInv, Idle
  <2>3. /\ scan'[Creation].pc \in {"pass", "write"} =>
             ~scan'[Creation].full /\ scan'[Creation].pass = 1
        /\ scan'[Creation].pc = "write" => scan'[Creation].seen["exact_phone"] = 5
    BY <1>4, <2>1, <2>2 DEF IInv, Scans
  <2>4. scans' = 0 => \A t \in Rescans : scan'[t].pc = "idle"
    BY <1>1, <1>2, <1>4, <2>1 DEF IInv, Scans
  <2>5. scan'[ParseJob].pc # "idle" => job'.pc = "scanning"
    BY <1>1, <1>2, <1>4, <2>1 DEF IInv, Scans
  <2>6. QED
    BY <2>3, <2>4, <2>5 DEF Scans
<1>13. FirstAttempt /\ link'.status = "PENDING" => job.pc = "scanning"
  <2>1. SUFFICES ASSUME FirstAttempt, link'.status = "PENDING" PROVE job.pc = "scanning"
    OBVIOUS
  <2>2. s \notin Rescans
    BY <1>1, <2>1 DEF IInv, Scans, FirstAttempt
  <2>3. s # Creation
    <3>1. SUFFICES ASSUME s = Creation PROVE FALSE
      OBVIOUS
    <3>2. Confidence(scan[s].seen) = 5
      BY <1>1, <1>5, <3>1, Strongest DEF IInv, Scans
    <3>3. QED
      BY <1>1, <2>1, <3>2 DEF AUTO_LINK_THRESHOLD
  <2>4. s = ParseJob
    BY <2>2, <2>3 DEF Scanner
  <2>5. QED
    BY <1>1, <2>4 DEF IInv, Scans
<1>14. JobAndResume' /\ Suspicion'
  BY <1>2, <1>13 DEF IInv, JobAndResume, Suspicion, FirstAttempt
<1>15. QED
  BY <1>6, <1>7, <1>8, <1>10, <1>11, <1>12, <1>14 DEF IInv

LEMMA AbortStep == ASSUME IInv, NEW s \in Scanner, Abort(s) PROVE IInv'
<1>1. Idle \in ScanState /\ Idle.pc = "idle"
  BY DEF ScanState, Idle
<1>2. /\ s # ParseJob /\ scan' = [scan EXCEPT ![s] = Idle] /\ clean' = clean \ {s}
      /\ UNCHANGED <<shared, resume, job, link, told, scans, edits, foundBy>>
  BY DEF Abort
<1>3. scan \in [Scanner -> ScanState] /\ clean \subseteq Scanner
  BY DEF IInv, TypeOK
<1>4. /\ scan' \in [Scanner -> ScanState] /\ scan'[s] = Idle
      /\ \A t \in Scanner : t # s => scan'[t] = scan[t]
      /\ clean' \subseteq Scanner
  BY <1>1, <1>2, <1>3
<1>5. TypeOK'
  BY <1>2, <1>4 DEF IInv, TypeOK
<1>6. CleanAlone'
  BY <1>2, <1>4, CleanKept DEF IInv
<1>7. Scans'
  <2>1. ParseJob \in Scanner /\ Creation \in Scanner /\ Rescans \subseteq Scanner
    BY DEF Scanner
  <2>2. QED
    BY <1>1, <1>2, <1>4, <2>1 DEF IInv, Scans
<1>8. JobAndResume' /\ Suspicion'
  BY <1>2 DEF IInv, JobAndResume, Suspicion, FirstAttempt
<1>9. QED
  BY <1>1, <1>2, <1>4, <1>5, <1>6, <1>7, <1>8, LinkKept DEF IInv

\* Edits, reviews and the job's own steps between scans.
LEMMA QuietStep ==
    ASSUME ConstantsOK, IInv, UNCHANGED <<scan, scans, clean, foundBy>>,
           link'.signals = link.signals, link'.confidence = link.confidence,
           \/ link'.status = link.status
           \/ link.status # "none" /\ link'.status \in {"CONFIRMED", "DISMISSED"},
           TypeOK', JobAndResume', Suspicion',
           job.pc = "scanning" => job'.pc = "scanning"
    PROVE  IInv'
<1>1. Scans' /\ CleanAlone'
  BY DEF IInv, Scans, CleanAlone, Active
<1>2. QED
  BY <1>1, LinkKept DEF IInv

LEMMA EditStep == ASSUME ConstantsOK, IInv, NEW s \in Signal, Edit(s) PROVE IInv'
<1>1. UNCHANGED <<resume, job, scan, link, told, scans, clean, foundBy>>
  BY DEF Edit
<1>2. TypeOK'
  BY DEF Edit, IInv, TypeOK, ConstantsOK
<1>3. JobAndResume' /\ Suspicion'
  BY <1>1 DEF IInv, JobAndResume, Suspicion, FirstAttempt
<1>4. QED
  BY <1>1, <1>2, <1>3, QuietStep

LEMMA ReviewStep ==
    ASSUME ConstantsOK, IInv, NEW status \in {"CONFIRMED", "DISMISSED"}, Review(status)
    PROVE  IInv'
<1>1. /\ UNCHANGED <<shared, resume, job, scan, told, scans, edits, clean, foundBy>>
      /\ link' = [link EXCEPT !.status = status]
      /\ link.status # "none"
  BY DEF Review
<1>2. /\ link'.signals = link.signals /\ link'.confidence = link.confidence
      /\ link'.status = status
      /\ link' \in [status: {"none", "PENDING", "CONFIRMED", "DISMISSED"},
                    signals: Evidence, confidence: 0..5]
  BY <1>1 DEF IInv, TypeOK
<1>3. TypeOK'
  BY <1>1, <1>2 DEF IInv, TypeOK
<1>4. JobAndResume' /\ Suspicion'
  BY <1>1, <1>2 DEF IInv, JobAndResume, Suspicion, FirstAttempt
<1>5. QED
  BY <1>1, <1>2, <1>3, <1>4, QuietStep

JobType == [pc: {"absent", "waiting", "parsing", "count", "scanning",
                 "recount", "completed", "failed"},
            tries: 0..MaxAttempts, stalls: 0..MaxStalls, lost: BOOLEAN,
            pending: BOOLEAN]

LEMMA UploadStep == ASSUME ConstantsOK, IInv, Upload PROVE IInv'
<1>1. /\ UNCHANGED <<scan, link, told, scans, edits, clean, foundBy>>
      /\ resume' = [resume EXCEPT !.status = "PENDING"]
      /\ job' = [job EXCEPT !.pc = "waiting"]
      /\ job.pc = "absent"
  BY DEF Upload, IInv, JobAndResume
<1>2. /\ job' \in JobType /\ job'.pc = "waiting"
      /\ job'.tries = job.tries /\ job'.stalls = job.stalls
      /\ resume'.status = "PENDING"
  BY <1>1 DEF IInv, TypeOK, JobType
<1>3. TypeOK'
  <2>1. shared' \in Evidence
    <3>1. shared \in Evidence
      BY DEF IInv, TypeOK
    <3>2. [shared EXCEPT !["resume_content_hash"] = 4] \in Evidence
      BY <3>1, Ranks DEF Evidence, Signal
    <3>3. QED BY <3>1, <3>2 DEF Upload
  <2>2. QED
    BY <1>1, <1>2, <2>1 DEF IInv, TypeOK, JobType
<1>4. JobAndResume' /\ Suspicion'
  BY <1>1, <1>2 DEF IInv, JobAndResume, Suspicion, FirstAttempt
<1>5. QED
  BY <1>1, <1>3, <1>4, QuietStep

LEMMA ParseStep == ASSUME ConstantsOK, IInv, Parse PROVE IInv'
<1>1. /\ UNCHANGED <<shared, scan, link, told, scans, edits, clean, foundBy>>
      /\ resume' = [resume EXCEPT !.status = "PARSING"]
      /\ job' = [job EXCEPT !.pc = "parsing"]
      /\ job.pc = "waiting"
  BY DEF Parse
<1>2. /\ job' \in JobType /\ job'.pc = "parsing"
      /\ job'.tries = job.tries /\ job'.stalls = job.stalls
      /\ resume'.status = "PARSING"
  BY <1>1 DEF IInv, TypeOK, JobType
<1>3. TypeOK'
  BY <1>1, <1>2 DEF IInv, TypeOK, JobType
<1>4. JobAndResume' /\ Suspicion'
  BY <1>1, <1>2 DEF IInv, JobAndResume, Suspicion, FirstAttempt
<1>5. QED
  BY <1>1, <1>3, <1>4, QuietStep

LEMMA ParsedStep == ASSUME ConstantsOK, IInv, Parsed PROVE IInv'
<1>1. /\ UNCHANGED <<scan, link, told, scans, edits, clean, foundBy>>
      /\ resume' = [status |-> "PARSED", profile |-> TRUE]
      /\ job' = [job EXCEPT !.pc = "count"]
      /\ job.pc = "parsing"
  BY DEF Parsed
<1>2. /\ job' \in JobType /\ job'.pc = "count"
      /\ job'.tries = job.tries /\ job'.stalls = job.stalls
  BY <1>1 DEF IInv, TypeOK, JobType
<1>3. TypeOK'
  <2>1. shared' \in Evidence
    <3>1. shared \in Evidence
      BY DEF IInv, TypeOK
    <3>2. CASE shared["name_similarity"] \in 1..2
               /\ shared' = [shared EXCEPT !["name_similarity"] = @ + 1]
      BY <3>1, <3>2, Ranks DEF Evidence, Signal
    <3>3. QED BY <3>1, <3>2 DEF Parsed
  <2>2. QED
    BY <1>1, <1>2, <2>1 DEF IInv, TypeOK, JobType
<1>4. JobAndResume' /\ Suspicion'
  BY <1>1, <1>2 DEF IInv, JobAndResume, Suspicion, FirstAttempt
<1>5. QED
  BY <1>1, <1>3, <1>4, QuietStep

LEMMA CompleteStep == ASSUME ConstantsOK, IInv, Complete PROVE IInv'
<1>1. /\ UNCHANGED <<shared, resume, scan, link, scans, edits, clean, foundBy>>
      /\ job' = [job EXCEPT !.pc = "completed", !.pending = FALSE]
      /\ told' = (told \/ MorePending)
      /\ job.pc = "recount"
  BY DEF Complete
<1>2. /\ job' \in JobType /\ job'.pc = "completed"
      /\ job'.tries = job.tries /\ job'.stalls = job.stalls
  BY <1>1 DEF IInv, TypeOK, JobType
<1>3. told' \in BOOLEAN
  BY <1>1
<1>4. TypeOK'
  BY <1>1, <1>2, <1>3 DEF IInv, TypeOK, JobType
<1>5. JobAndResume'
  BY <1>1, <1>2 DEF IInv, JobAndResume
<1>6. Suspicion'
  <2>1. FirstAttempt /\ link.status = "PENDING" => MorePending
    BY <1>1 DEF IInv, Suspicion, MorePending
  <2>2. FirstAttempt' <=> FirstAttempt
    BY <1>1, <1>2 DEF FirstAttempt
  <2>3. FirstAttempt /\ link.status = "PENDING" => told'
    BY <1>1, <2>1
  <2>4. QED
    BY <1>1, <1>2, <2>2, <2>3 DEF Suspicion
<1>7. QED
  BY <1>1, <1>4, <1>5, <1>6, QuietStep

LEMMA CountStep == ASSUME ConstantsOK, IInv, Count PROVE IInv'
<1>1. /\ UNCHANGED <<shared, resume, link, told, scans, edits, foundBy>>
      /\ job' = [job EXCEPT !.pc = "scanning", !.pending = (link.status = "PENDING")]
      /\ job.pc = "count"
      /\ Begin(ParseJob)
  BY DEF Count
<1>2. ParseJob \in Scanner /\ Creation \in Scanner /\ Rescans \subseteq Scanner
      /\ Creation # ParseJob
  BY DEF Scanner, ParseJob, Creation
<1>3. /\ scan' \in [Scanner -> ScanState]
      /\ \A t \in Scanner : t # ParseJob => scan'[t] = scan[t]
      /\ \A t \in Scanner : scan'[t] = scan[t] \/ scan'[t].pc # "write"
      /\ clean' \subseteq Scanner
      /\ CleanAlone'
  BY <1>1, <1>2, Begins
<1>4. /\ job' \in JobType /\ job'.pc = "scanning"
      /\ job'.tries = job.tries /\ job'.stalls = job.stalls
      /\ job'.pending = (link.status = "PENDING")
  BY <1>1 DEF IInv, TypeOK, JobType
<1>5. TypeOK'
  BY <1>1, <1>3, <1>4 DEF IInv, TypeOK, JobType
<1>6. Scans'
  BY <1>1, <1>2, <1>3, <1>4 DEF IInv, Scans, ConstantsOK
<1>7. JobAndResume'
  BY <1>1, <1>4 DEF IInv, JobAndResume
<1>8. Suspicion'
  BY <1>1, <1>4 DEF IInv, Suspicion, FirstAttempt
<1>9. QED
  BY <1>1, <1>3, <1>5, <1>6, <1>7, <1>8, LinkKept DEF IInv

LEMMA RecountStep == ASSUME ConstantsOK, IInv, Recount PROVE IInv'
<1>1. /\ UNCHANGED <<shared, resume, link, told, scans, edits, foundBy>>
      /\ job' = [job EXCEPT !.pc = "recount"]
      /\ job.pc = "scanning"
      /\ Aborted
  BY DEF Recount, Aborted
<1>2. ParseJob \in Scanner /\ Creation \in Scanner /\ Rescans \subseteq Scanner
      /\ Creation # ParseJob
  BY DEF Scanner, ParseJob, Creation
<1>3. /\ scan' \in [Scanner -> ScanState]
      /\ scan'[ParseJob].pc = "idle"
      /\ \A t \in Scanner : t # ParseJob => scan'[t] = scan[t]
      /\ \A t \in Scanner : scan'[t] = scan[t] \/ scan'[t].pc # "write"
      /\ clean' \subseteq Scanner
      /\ CleanAlone'
  BY <1>1, Aborts
<1>4. /\ job' \in JobType /\ job'.pc = "recount"
      /\ job'.tries = job.tries /\ job'.stalls = job.stalls
      /\ job'.pending = job.pending
  BY <1>1 DEF IInv, TypeOK, JobType
<1>5. TypeOK'
  BY <1>1, <1>3, <1>4 DEF IInv, TypeOK, JobType
<1>6. Scans'
  BY <1>1, <1>2, <1>3, <1>4 DEF IInv, Scans, ConstantsOK
<1>7. JobAndResume' /\ Suspicion'
  BY <1>1, <1>4 DEF IInv, JobAndResume, Suspicion, FirstAttempt
<1>8. QED
  BY <1>1, <1>3, <1>5, <1>6, <1>7, LinkKept DEF IInv

\* The end of an attempt, well recorded or not.
LEMMA AttemptEnds ==
    ASSUME ConstantsOK, IInv, Throw \/ ThrowUnrecorded \/ Stall PROVE IInv'
<1>1. /\ UNCHANGED <<shared, link, told, scans, edits, foundBy>>
      /\ job.pc \notin {"absent", "completed", "failed"}
      /\ Aborted
  BY DEF Throw, ThrowUnrecorded, Stall, Running
<1>2. ParseJob \in Scanner /\ Creation \in Scanner /\ Rescans \subseteq Scanner
      /\ Creation # ParseJob
  BY DEF Scanner, ParseJob, Creation
<1>3. /\ scan' \in [Scanner -> ScanState]
      /\ scan'[ParseJob].pc = "idle"
      /\ \A t \in Scanner : t # ParseJob => scan'[t] = scan[t]
      /\ \A t \in Scanner : scan'[t] = scan[t] \/ scan'[t].pc # "write"
      /\ clean' \subseteq Scanner
      /\ CleanAlone'
  BY <1>1, Aborts
<1>4. job \in JobType
      /\ resume \in [status: {"none", "PENDING", "PARSING", "PARSED", "FAILED"},
                     profile: BOOLEAN]
  BY DEF IInv, TypeOK, JobType
<1>5. /\ job' \in JobType
      /\ job'.pc \in {"waiting", "failed"}
      /\ job'.pc = "failed" \/ job'.tries # 0 \/ job'.stalls # 0
      /\ resume' \in [status: {"none", "PENDING", "PARSING", "PARSED", "FAILED"},
                      profile: BOOLEAN]
      /\ resume'.status \in {resume.status, "FAILED"}
      /\ job'.pc = "failed" /\ ~job'.lost => resume'.status = "FAILED"
  <2>1. CASE Throw
    <3>1. /\ job' \in JobType
          /\ job'.pc \in {"waiting", "failed"} /\ job'.tries # 0
      <4> DEFINE end == IF job.tries + 1 = MaxAttempts THEN "failed" ELSE "waiting"
                 gone == job.lost
      <4>1. /\ job.tries + 1 \in 0..MaxAttempts /\ job.tries + 1 # 0
            /\ gone \in BOOLEAN /\ end \in {"waiting", "failed"}
        BY <1>4, <2>1 DEF Throw, JobType, ConstantsOK
      <4>2. job' = [pc |-> end, tries |-> job.tries + 1, stalls |-> job.stalls,
                    lost |-> gone, pending |-> FALSE]
        BY <1>4, <2>1 DEF Throw, JobType
      <4> HIDE DEF end, gone
      <4>3. QED
        BY <1>4, <4>1, <4>2 DEF JobType
    <3>2. resume' = [resume EXCEPT !.status = "FAILED"]
      BY <2>1 DEF Throw, Recorded
    <3>3. QED
      BY <1>4, <3>1, <3>2
  <2>2. CASE ThrowUnrecorded
    <3>1. /\ job' \in JobType
          /\ job'.pc \in {"waiting", "failed"} /\ job'.tries # 0
      <4> DEFINE end == IF job.tries + 1 = MaxAttempts THEN "failed" ELSE "waiting"
                 gone == job.tries + 1 = MaxAttempts
      <4>1. /\ job.tries + 1 \in 0..MaxAttempts /\ job.tries + 1 # 0
            /\ gone \in BOOLEAN /\ end \in {"waiting", "failed"}
        BY <1>4, <2>2 DEF ThrowUnrecorded, JobType, ConstantsOK
      <4>2. job' = [pc |-> end, tries |-> job.tries + 1, stalls |-> job.stalls,
                    lost |-> gone, pending |-> FALSE]
        BY <1>4, <2>2 DEF ThrowUnrecorded, JobType
      <4> HIDE DEF end, gone
      <4>3. QED
        BY <1>4, <4>1, <4>2 DEF JobType
    <3>2. job'.pc = "failed" => job'.lost
      BY <1>4, <2>2 DEF ThrowUnrecorded, JobType, ConstantsOK
    <3>3. QED
      BY <1>4, <2>2, <3>1, <3>2 DEF ThrowUnrecorded
  <2>3. CASE Stall
    <3>1. /\ job' \in JobType
          /\ job'.pc \in {"waiting", "failed"}
          /\ job'.pc = "failed" \/ job'.stalls # 0
      <4> DEFINE end == IF job.stalls = MaxStalls THEN "failed" ELSE "waiting"
                 gone == job.lost \/ job.stalls = MaxStalls
                 n == IF job.stalls = MaxStalls THEN job.stalls ELSE job.stalls + 1
      <4>1. /\ n \in 0..MaxStalls /\ (end = "failed" \/ n # 0)
            /\ gone \in BOOLEAN /\ end \in {"waiting", "failed"}
        BY <1>4 DEF JobType, ConstantsOK
      <4>2. job' = [pc |-> end, tries |-> job.tries, stalls |-> n,
                    lost |-> gone, pending |-> FALSE]
        BY <1>4, <2>3 DEF Stall, JobType
      <4> HIDE DEF end, gone, n
      <4>3. QED
        BY <1>4, <4>1, <4>2 DEF JobType
    <3>2. job'.pc = "failed" => job'.lost
      BY <1>4, <2>3 DEF Stall, JobType, ConstantsOK
    <3>3. QED
      BY <1>4, <2>3, <3>1, <3>2 DEF Stall
  <2>4. QED
    BY <2>1, <2>2, <2>3
<1>6. TypeOK'
  BY <1>1, <1>3, <1>5 DEF IInv, TypeOK, JobType
<1>7. Scans'
  BY <1>1, <1>2, <1>3, <1>5 DEF IInv, Scans, ConstantsOK
<1>8. JobAndResume'
  BY <1>1, <1>5 DEF IInv, JobAndResume
<1>9. Suspicion'
  BY <1>5 DEF Suspicion, FirstAttempt
<1>10. QED
  BY <1>1, <1>3, <1>6, <1>7, <1>8, <1>9, LinkKept DEF IInv

LEMMA NextIInv == ASSUME ConstantsOK, IInv, [Next]_vars PROVE IInv'
<1>1. CASE UNCHANGED vars
  BY <1>1 DEF vars, IInv, TypeOK, ReadConsistent, LinkIsConsistent, CleanAlone, Active,
              ReadersKnow, AloneIsKept, Scans, JobAndResume, Suspicion, FirstAttempt
<1>2. CASE Next
  <2>1. {"exact_phone", "name_similarity"} \subseteq Signal
    BY DEF Signal
  <2>2. QED
    BY <1>2, <2>1, RescanStep, PassStep, UpsertStep, AbortStep, EditStep, ReviewStep,
       UploadStep, ParseStep, ParsedStep, CountStep, RecountStep, CompleteStep, AttemptEnds
       DEF Next
<1>3. QED
  BY <1>1, <1>2

-----------------------------------------------------------------------------
LEMMA Invariant == ASSUME ConstantsOK PROVE Spec => []IInv
  BY InitIInv, NextIInv, PTL DEF Spec

\* The type invariant: statuses, counters and what scans hold.
THEOREM TypeCorrect == ASSUME ConstantsOK PROVE Spec => []TypeOK
<1>1. IInv => TypeOK
  BY DEF IInv
<1>2. QED
  BY <1>1, Invariant, PTL

\* upsertLink (domain/dedupe/scan.ts): its read and its write may be any number
\* of other scans' writes apart, and still the confidence is that of the
\* strongest signal listed, except that a name may have come to weigh less than
\* it did; a certain link is no suspicion, and every link is worth a review.
THEOREM LinkConsistent == ASSUME ConstantsOK PROVE Spec => []LinkIsConsistent
<1>1. IInv => LinkIsConsistent
  BY DEF IInv
<1>2. QED
  BY <1>1, Invariant, PTL

\* The comment on upsertLink's race, made exact: a signal is lost only to a scan
\* that overlapped the one that found it.
THEOREM AloneKept == ASSUME ConstantsOK PROVE Spec => []AloneIsKept
<1>1. IInv => AloneIsKept
  BY DEF IInv
<1>2. QED
  BY <1>1, Invariant, PTL

\* processResumeParse: PARSED when it completed, FAILED when its last attempt
\* could record it, and no suspicion untold by the only attempt.
THEOREM OutcomeTrue == ASSUME ConstantsOK PROVE Spec => []OutcomeIsTrue
<1>1. IInv => OutcomeIsTrue
  BY DEF IInv, JobAndResume, Suspicion, FirstAttempt, OutcomeIsTrue
<1>2. QED
  BY <1>1, Invariant, PTL
=============================================================================
