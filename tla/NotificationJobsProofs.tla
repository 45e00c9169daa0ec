------------------------ MODULE NotificationJobsProofs ------------------------
(***************************************************************************)
(* What the notification jobs promise, for any panel, any number of moves, *)
(* jobs, workers and requests, and any attempts that fail or are lost.     *)
(***************************************************************************)
EXTENDS NotificationJobs, SequenceTheorems, TLAPS

\* What the constants stand for: bounds are numbers, there is an attempt, and
\* nobody on the panel is called "recruiters".
ConstantsOK ==
    /\ Job \subseteq Jobs
    /\ Panel \in Seq(Author) /\ "recruiters" \notin Author
    /\ MaxMoves \in Nat /\ MaxStalls \in Nat /\ MaxAttempts \in Nat \ {0}

-----------------------------------------------------------------------------
(* The inductive invariant *)

\* The job is through with everyone it has to tell, or has ended.
Through(j) ==
    \/ job[j].state \in {"completed", "failed"}
    \/ job[j].state = "active" /\ job[j].pos = Len(Tells(j))

\* What is true of each job at any time: it is there because of a write; what
\* it has told so far is a part of what it has to tell; it notifies at its end,
\* and so once per attempt that a lost worker did not let it finish; and what
\* it names is what it read, which no move has overtaken if it is the last.
JobOK(j) ==
    /\ job[j].state # "absent" => Owed(j)
    /\ job[j].state = "active" =>
         /\ job[j].pos <= Len(Tells(j))
         /\ \A i \in 1..job[j].pos : Tells(j)[i] \in told[j]
    /\ job[j].state = "completed" =>
         \A i \in 1..Len(Tells(j)) : Tells(j)[i] \in told[j]
    /\ notices[j] <= job[j].stalls + (IF Through(j) THEN 1 ELSE 0)
    /\ j[1] = "move" =>
         /\ job[j].state = "active" /\ job[j].pos = Len(Tells(j))
              => <<j[2], job[j].stage>> \in named
         /\ job[j].state = "active" /\ j[2] = Len(moves) => job[j].stage = Current
         /\ job[j].state = "completed" /\ j[2] = Len(moves)
              => <<j[2], Current>> \in named

JobsOK == \A j \in Job : JobOK(j)

IInv == TypeOK /\ JobsOK /\ CompletedMeansScored

-----------------------------------------------------------------------------
(* Moves *)

MoveSeqs == UNION {[1..n -> Kind] : n \in 0..MaxMoves}

LEMMA MovesAreSequences ==
    ASSUME ConstantsOK, NEW m \in MoveSeqs
    PROVE  m \in Seq(Kind) /\ Len(m) \in 0..MaxMoves
<1>1. PICK n \in 0..MaxMoves : m \in [1..n -> Kind]
  BY DEF MoveSeqs
<1>2. n \in Nat
  BY <1>1 DEF ConstantsOK
<1>3. m \in Seq(Kind)
  BY <1>1, <1>2
<1>4. Len(m) = n
  BY <1>1, <1>2, <1>3
<1>5. QED
  BY <1>1, <1>3, <1>4

LEMMA AppendMove ==
    ASSUME ConstantsOK, NEW m \in MoveSeqs, NEW k \in Kind, Len(m) < MaxMoves
    PROVE  /\ Append(m, k) \in MoveSeqs
           /\ Len(Append(m, k)) = Len(m) + 1
           /\ \A n \in 1..Len(m) : Append(m, k)[n] = m[n]
<1>1. m \in Seq(Kind) /\ Len(m) \in 0..MaxMoves
  BY MovesAreSequences
<1>2. /\ Append(m, k) \in Seq(Kind)
      /\ Len(Append(m, k)) = Len(m) + 1
      /\ \A n \in 1..Len(m) : Append(m, k)[n] = m[n]
  BY <1>1, AppendProperties
<1>3. Len(m) + 1 \in 0..MaxMoves
  BY <1>1 DEF ConstantsOK
<1>4. Append(m, k) \in [1..(Len(m) + 1) -> Kind]
  BY <1>2, LenProperties
<1>5. Append(m, k) \in MoveSeqs
  BY <1>3, <1>4 DEF MoveSeqs
<1>6. QED
  BY <1>2, <1>5

LEMMA CurrentTyped == ASSUME ConstantsOK, TypeOK PROVE Current \in AnyStage
<1>1. moves \in Seq(Kind)
  BY MovesAreSequences DEF TypeOK, MoveSeqs
<1>2. CASE moves = <<>>
  BY <1>2 DEF Current, AnyStage
<1>3. CASE moves # <<>>
  <2>1. Len(moves) \in 1..Len(moves)
    BY <1>1, <1>3
  <2>2. QED
    BY <1>1, <1>3, <2>1 DEF Current, AnyStage
<1>4. QED
  BY <1>2, <1>3

-----------------------------------------------------------------------------
(* Whom a job tells *)

LEMMA JobNames ==
    ASSUME ConstantsOK, NEW j \in Job
    PROVE  /\ j[1] \in {"confirm", "invite", "remind", "move"}
           /\ j[1] = "move" => j[2] \in 1..MaxMoves /\ j = <<"move", j[2]>>
  BY DEF ConstantsOK, Jobs

\* The recruiters come last, and no job of a move leaves them out.
LEMMA RecruitersLast ==
    ASSUME ConstantsOK, TypeOK, NEW j \in Job
    PROVE  /\ Tells(j) \in Seq(Recipient)
           /\ Len(Tells(j)) \in 0..(Len(Panel) + 2)
           /\ \A i \in 1..Len(Tells(j)) : Tells(j)[i] = "recruiters" => i = Len(Tells(j))
           /\ j[1] = "move" => /\ Len(Tells(j)) # 0
                               /\ Tells(j)[Len(Tells(j))] = "recruiters"
<1>1. /\ Panel \in Seq(Author) /\ Len(Panel) \in Nat
      /\ "candidate" \in Recipient /\ "recruiters" \in Recipient
      /\ Author \subseteq Recipient
  BY DEF ConstantsOK, Recipient
<1>2. CASE j[1] = "confirm"
  <2>1. Tells(j) = <<"candidate", "recruiters">>
    BY <1>2 DEF Tells
  <2>2. QED
    BY <1>1, <1>2, <2>1
<1>3. CASE j[1] = "move"
  <2>1. \/ Tells(j) = <<"candidate", "recruiters">>
        \/ Tells(j) = <<"recruiters">>
    BY <1>3 DEF Tells
  <2>2. CASE Tells(j) = <<"candidate", "recruiters">>
    BY <1>1, <2>2
  <2>3. CASE Tells(j) = <<"recruiters">>
    BY <1>1, <2>3
  <2>4. QED
    BY <2>1, <2>2, <2>3
<1>4. CASE j[1] = "invite"
  <2>1. Tells(j) = <<"candidate">> \o Panel
    BY <1>4 DEF Tells
  <2>2. Panel \in Seq(Recipient)
    BY <1>1
  <2>3. /\ Tells(j) \in Seq(Recipient)
        /\ Len(Tells(j)) = Len(Panel) + 1
        /\ Tells(j)[1] = "candidate"
        /\ \A i \in 2..(Len(Panel) + 1) : Tells(j)[i] = Panel[i - 1]
    BY <1>1, <2>1, <2>2
  <2>4. \A i \in 1..Len(Tells(j)) : Tells(j)[i] # "recruiters"
    <3>1. SUFFICES ASSUME NEW i \in 1..Len(Tells(j)) PROVE Tells(j)[i] # "recruiters"
      OBVIOUS
    <3>2. CASE i = 1
      BY <2>3, <3>2
    <3>3. CASE i # 1
      <4>1. i - 1 \in 1..Len(Panel)
        BY <1>1, <2>3, <3>3
      <4>2. Tells(j)[i] \in Author
        BY <1>1, <2>3, <3>3, <4>1
      <4>3. QED
        BY <4>2 DEF ConstantsOK
    <3>4. QED
      BY <3>2, <3>3
  <2>5. QED
    BY <1>1, <1>4, <2>3, <2>4
<1>5. CASE j[1] = "remind"
  <2>1. Tells(j) = <<"candidate">> \/ Tells(j) = <<>>
    BY <1>5 DEF Tells
  <2>2. CASE Tells(j) = <<"candidate">>
    BY <1>1, <1>5, <2>2
  <2>3. CASE Tells(j) = <<>>
    BY <1>1, <1>5, <2>3
  <2>4. QED
    BY <2>1, <2>2, <2>3
<1>6. QED
  BY <1>2, <1>3, <1>4, <1>5, JobNames

\* Later moves change nothing in that.
LEMMA TellsStable ==
    ASSUME ConstantsOK, TypeOK, NEW j \in Job, Owed(j),
           job'[j].due = job[j].due, interview # "none" => interview' # "none",
           \/ moves' = moves
           \/ \E k \in Kind : moves' = Append(moves, k)
    PROVE  Tells(j)' = Tells(j) /\ Owed(j)'
<1>1. moves \in Seq(Kind)
  BY MovesAreSequences DEF TypeOK, MoveSeqs
<1>2. Len(moves') >= Len(moves) /\ \A n \in 1..Len(moves) : moves'[n] = moves[n]
  BY <1>1
<1>3. j[1] = "move" => j[2] \in 1..Len(moves) /\ moves'[j[2]] = moves[j[2]]
  BY <1>1, <1>2, JobNames DEF Owed, ConstantsOK
<1>4. Tells(j)' = Tells(j)
  BY <1>3 DEF Tells
<1>5. Owed(j)'
  <2>1. CASE j[1] = "move"
    BY <1>1, <1>2, <1>3, <2>1 DEF Owed
  <2>2. CASE j[1] = "confirm"
    BY <2>2 DEF Owed
  <2>3. CASE j[1] \in {"invite", "remind"}
    BY <2>3 DEF Owed
  <2>4. QED
    BY <2>1, <2>2, <2>3, JobNames
<1>6. QED
  BY <1>4, <1>5

-----------------------------------------------------------------------------
(* Steps of the application and its interview: no job changes *)

JobRecords == [state: State, tries: 0..MaxAttempts, stalls: 0..MaxStalls,
               pos: 0..(Len(Panel) + 2), stage: AnyStage, due: BOOLEAN]

LEMMA Records ==
    ASSUME TypeOK, NEW j \in Job
    PROVE  /\ job \in [Job -> JobRecords]
           /\ job[j] \in JobRecords
           /\ job[j].state \in State /\ job[j].tries \in 0..MaxAttempts
           /\ job[j].stalls \in 0..MaxStalls /\ job[j].stage \in AnyStage
           /\ job[j].pos \in 0..(Len(Panel) + 2) /\ job[j].due \in BOOLEAN
           /\ told[j] \in SUBSET Recipient
           /\ notices[j] \in 0..(MaxAttempts + MaxStalls)
  BY DEF TypeOK, JobRecords

LEMMA InitIInv == ASSUME ConstantsOK, Init PROVE IInv
<1>1. moves \in UNION {[1..n -> Kind] : n \in 0..MaxMoves}
  <2>1. moves \in [1..0 -> Kind] /\ 0 \in 0..MaxMoves
    BY DEF Init, ConstantsOK
  <2>2. QED
    BY <2>1
<1>2. \A j \in Job : job[j] = [state |-> "absent", tries |-> 0, stalls |-> 0,
                              pos |-> 0, stage |-> "APPLIED", due |-> FALSE]
  BY DEF Init
<1>3. job \in [Job -> [state: State, tries: 0..MaxAttempts,
                       stalls: 0..MaxStalls, pos: 0..(Len(Panel) + 2),
                       stage: AnyStage, due: BOOLEAN]]
  <2>1. Len(Panel) \in Nat
    BY DEF ConstantsOK
  <2>2. [state |-> "absent", tries |-> 0, stalls |-> 0, pos |-> 0,
         stage |-> "APPLIED", due |-> FALSE]
          \in [state: State, tries: 0..MaxAttempts,
               stalls: 0..MaxStalls, pos: 0..(Len(Panel) + 2),
               stage: AnyStage, due: BOOLEAN]
    BY <2>1 DEF ConstantsOK, State, AnyStage
  <2>3. QED
    BY <2>2 DEF Init
<1>4. TypeOK
  <2>1. 0 \in 0..(MaxAttempts + MaxStalls)
    BY DEF ConstantsOK
  <2>2. /\ notices \in [Job -> 0..(MaxAttempts + MaxStalls)]
        /\ told \in [Job -> SUBSET Recipient]
    BY <2>1 DEF Init
  <2>3. /\ req \in [Request -> {Idle} \union [pc: {"cancel"}]
                                  \union [pc: {"score"}, by: Author]]
        /\ cards \subseteq Author /\ named \subseteq (1..MaxMoves) \X AnyStage
        /\ interview = "none"
    BY DEF Init
  <2>4. QED
    BY <1>1, <1>3, <2>2, <2>3 DEF TypeOK
<1>5. JobsOK
  BY <1>2 DEF Init, JobsOK, JobOK, Through
<1>6. CompletedMeansScored
  BY DEF Init, CompletedMeansScored
<1>7. QED
  BY <1>4, <1>5, <1>6 DEF IInv

LEMMA JobsUntouched ==
    ASSUME ConstantsOK, TypeOK, JobsOK, UNCHANGED jobVars,
           interview # "none" => interview' # "none",
           \/ moves' = moves
           \/ \E k \in Kind : moves' = Append(moves, k) /\ Len(moves) < MaxMoves
    PROVE  JobsOK'
<1> SUFFICES ASSUME NEW j \in Job PROVE JobOK(j)'
  BY DEF JobsOK
<1>1. job' = job /\ told' = told /\ notices' = notices /\ named' = named
  BY DEF jobVars, toldVars
<1>2. JobOK(j)
  BY DEF JobsOK
<1>3. CASE job[j].state = "absent"
  BY <1>1, <1>2, <1>3 DEF JobOK, Through
<1>4. CASE job[j].state # "absent"
  <2>1. Owed(j)
    BY <1>2, <1>4 DEF JobOK
  <2>2. Tells(j)' = Tells(j) /\ Owed(j)'
    BY <1>1, <2>1, TellsStable
  <2>3. Through(j)' <=> Through(j)
    BY <1>1, <2>2 DEF Through
  <2>4. ASSUME j[1] = "move", j[2] = Len(moves')
        PROVE  Current' = Current /\ j[2] = Len(moves)
    <3>1. CASE moves' = moves
      BY <2>4, <3>1 DEF Current
    <3>2. CASE \E k \in Kind : moves' = Append(moves, k) /\ Len(moves) < MaxMoves
      <4>1. Len(moves') = Len(moves) + 1 /\ Len(moves) \in Nat
        BY <3>2, AppendMove, MovesAreSequences DEF TypeOK, MoveSeqs
      <4>2. j[2] <= Len(moves) /\ j[2] \in Nat
        BY <2>1, <2>4, JobNames DEF Owed
      <4>3. QED
        BY <2>4, <4>1, <4>2
    <3>3. QED
      BY <3>1, <3>2
  <2>5. QED
    BY <1>1, <1>2, <2>2, <2>3, <2>4 DEF JobOK
<1>5. QED
  BY <1>3, <1>4

LEMMA MoveKeeps == ASSUME ConstantsOK, IInv, NEW k \in Kind, Move(k) PROVE IInv'
<1>1. moves \in MoveSeqs /\ moves' = Append(moves, k) /\ Len(moves) < MaxMoves
  BY DEF IInv, TypeOK, MoveSeqs, Move
<1>2. JobsOK'
  BY <1>1, JobsUntouched DEF IInv, Move
<1>3. TypeOK'
  <2>1. moves' \in MoveSeqs
    BY <1>1, AppendMove
  <2>2. QED
    BY <2>1 DEF IInv, TypeOK, Move, MoveSeqs, jobVars, toldVars
<1>4. CompletedMeansScored'
  BY DEF IInv, CompletedMeansScored, Move
<1>5. QED
  BY <1>2, <1>3, <1>4 DEF IInv

LEMMA RequestsTyped ==
    ASSUME TypeOK, NEW q \in Request
    PROVE  /\ \A r \in {Idle} \union [pc: {"cancel"}] \union [pc: {"score"}, by: Author] :
                [req EXCEPT ![q] = r] \in [Request -> {Idle} \union [pc: {"cancel"}]
                                                \union [pc: {"score"}, by: Author]]
           /\ req[q].pc = "score" => req[q].by \in Author
<1>1. /\ req[q] \in {Idle} \union [pc: {"cancel"}] \union [pc: {"score"}, by: Author]
      /\ req \in [Request -> {Idle} \union [pc: {"cancel"}]
                               \union [pc: {"score"}, by: Author]]
  BY DEF TypeOK
<1>2. QED
  BY <1>1 DEF Idle

LEMMA InterviewKeeps ==
    ASSUME ConstantsOK, IInv,
           \/ Schedule
           \/ \E q \in Request : \/ CancelCheck(q) \/ CancelCommit(q)
                                 \/ \E a \in Author : ScoreCheck(q, a)
                                 \/ ScoreCommit(q)
    PROVE  IInv'
<1>1. CASE Schedule
  <2>1. JobsOK'
    BY <1>1, JobsUntouched DEF IInv, Schedule
  <2>2. QED
    BY <1>1, <2>1 DEF IInv, TypeOK, CompletedMeansScored, Schedule, jobVars, toldVars
<1>2. ASSUME NEW q \in Request, CancelCheck(q) PROVE IInv'
  <2>1. JobsOK'
    BY <1>2, JobsUntouched DEF IInv, CancelCheck
  <2>2. TypeOK'
    BY <1>2, RequestsTyped DEF IInv, TypeOK, CancelCheck, jobVars, toldVars
  <2>3. QED
    BY <1>2, <2>1, <2>2 DEF IInv, CompletedMeansScored, CancelCheck
<1>3. ASSUME NEW q \in Request, CancelCommit(q) PROVE IInv'
  <2>1. JobsOK'
    BY <1>3, JobsUntouched DEF IInv, CancelCommit
  <2>2. TypeOK'
    BY <1>3, RequestsTyped DEF IInv, TypeOK, CancelCommit, jobVars, toldVars
  <2>3. QED
    BY <1>3, <2>1, <2>2 DEF IInv, CompletedMeansScored, CancelCommit
<1>4. ASSUME NEW q \in Request, NEW a \in Author, ScoreCheck(q, a) PROVE IInv'
  <2>1. JobsOK'
    BY <1>4, JobsUntouched DEF IInv, ScoreCheck
  <2>2. TypeOK'
    BY <1>4, RequestsTyped DEF IInv, TypeOK, ScoreCheck, jobVars, toldVars
  <2>3. QED
    BY <1>4, <2>1, <2>2 DEF IInv, CompletedMeansScored, ScoreCheck
<1>5. ASSUME NEW q \in Request, ScoreCommit(q) PROVE IInv'
  <2>1. JobsOK'
    BY <1>5, JobsUntouched DEF IInv, ScoreCommit
  <2>2. /\ req[q].by \in Author
        /\ req' \in [Request -> {Idle} \union [pc: {"cancel"}]
                                  \union [pc: {"score"}, by: Author]]
    BY <1>5, RequestsTyped DEF IInv, ScoreCommit
  <2>3. TypeOK'
    BY <1>5, <2>2 DEF IInv, TypeOK, ScoreCommit, jobVars, toldVars
  <2>4. QED
    BY <1>5, <2>1, <2>3 DEF IInv, CompletedMeansScored, ScoreCommit
<1>6. QED
  BY <1>1, <1>2, <1>3, <1>4, <1>5

-----------------------------------------------------------------------------
(* Steps of a job *)

\* A step that leaves the job as it should be leaves all of them so.
LEMMA OneJobChanges ==
    ASSUME ConstantsOK, IInv, NEW j \in Job, NEW r \in JobRecords,
           UNCHANGED domainVars,
           job' = [job EXCEPT ![j] = r],
           told' \in [Job -> SUBSET Recipient],
           notices' \in [Job -> Nat],
           named \subseteq named', named' \subseteq (1..MaxMoves) \X AnyStage,
           \A i \in Job \ {j} : told'[i] = told[i] /\ notices'[i] = notices[i],
           JobOK(j)'
    PROVE  IInv'
<1>1. /\ moves' = moves /\ interview' = interview /\ cards' = cards /\ req' = req
      /\ job \in [Job -> JobRecords]
  BY Records DEF domainVars, IInv
<1>2. job' \in [Job -> JobRecords] /\ \A i \in Job \ {j} : job'[i] = job[i]
  BY <1>1
<1>3. JobsOK'
  <2> SUFFICES ASSUME NEW i \in Job PROVE JobOK(i)'
    BY DEF JobsOK
  <2>1. CASE i = j
    BY <2>1
  <2>2. CASE i # j
    <3>1. JobOK(i) /\ job'[i] = job[i] /\ told'[i] = told[i] /\ notices'[i] = notices[i]
      BY <1>2, <2>2 DEF IInv, JobsOK
    <3>2. Tells(i)' = Tells(i) /\ (Owed(i)' <=> Owed(i)) /\ Current' = Current
      BY <1>1, <3>1 DEF Tells, Owed, Current
    <3>3. Through(i)' <=> Through(i)
      BY <3>1, <3>2 DEF Through
    <3>4. QED
      BY <1>1, <3>1, <3>2, <3>3 DEF JobOK
  <2>3. QED
    BY <2>1, <2>2
<1>4. TypeOK'
  <2>1. notices' \in [Job -> 0..(MaxAttempts + MaxStalls)]
    <3> SUFFICES ASSUME NEW i \in Job PROVE notices'[i] \in 0..(MaxAttempts + MaxStalls)
      OBVIOUS
    <3>1. job'[i].stalls \in 0..MaxStalls
      BY <1>2 DEF JobRecords
    <3>2. notices'[i] <= job'[i].stalls + (IF Through(i)' THEN 1 ELSE 0)
      BY <1>3 DEF JobsOK, JobOK
    <3>3. notices'[i] <= job'[i].stalls + 1
      BY <3>1, <3>2
    <3>4. QED
      BY <3>1, <3>3 DEF ConstantsOK
  <2>2. QED
    BY <1>1, <1>2, <2>1 DEF IInv, TypeOK, JobRecords
<1>5. CompletedMeansScored'
  BY <1>1 DEF IInv, CompletedMeansScored
<1>6. QED
  BY <1>3, <1>4, <1>5 DEF IInv

\* A step that tells nobody needs only to leave the job's own promise true.
LEMMA NobodyTold ==
    ASSUME ConstantsOK, IInv, NEW j \in Job, NEW r \in JobRecords,
           UNCHANGED domainVars, UNCHANGED toldVars,
           job' = [job EXCEPT ![j] = r],
           JobOK(j)'
    PROVE  IInv'
<1>1. /\ told' = told /\ notices' = notices /\ named' = named
  BY DEF toldVars
<1>2. /\ told' \in [Job -> SUBSET Recipient] /\ notices' \in [Job -> Nat]
      /\ named' \subseteq (1..MaxMoves) \X AnyStage
  <2>1. notices \in [Job -> 0..(MaxAttempts + MaxStalls)]
    BY DEF IInv, TypeOK
  <2>2. notices \in [Job -> Nat]
    BY <2>1 DEF ConstantsOK
  <2>3. QED
    BY <1>1, <2>2 DEF IInv, TypeOK
<1>3. QED
  BY <1>1, <1>2, OneJobChanges

LEMMA EnqueueKeeps == ASSUME ConstantsOK, IInv, NEW j \in Job, Enqueue(j) PROVE IInv'
<1> DEFINE r == [state |-> "waiting", tries |-> job[j].tries, stalls |-> job[j].stalls,
                 pos |-> job[j].pos, stage |-> job[j].stage, due |-> job[j].due]
<1>1. job[j] \in JobRecords /\ job \in [Job -> JobRecords] /\ r \in JobRecords
  BY Records DEF IInv, JobRecords, State
<1>2. job' = [job EXCEPT ![j] = r]
  <2>1. r = [job[j] EXCEPT !.state = "waiting"]
    BY <1>1 DEF JobRecords
  <2>2. QED
    BY <1>1, <2>1 DEF Enqueue
<1> HIDE DEF r
<1>3. /\ job'[j].state = "waiting" /\ job'[j].stalls = job[j].stalls
      /\ job[j].state = "absent"
  BY <1>1, <1>2 DEF Enqueue, r
<1>4. JobOK(j)'
  <2>1. JobOK(j) /\ Owed(j) /\ UNCHANGED domainVars /\ UNCHANGED toldVars
    BY DEF IInv, JobsOK, Enqueue
  <2>2. Owed(j)' /\ notices' = notices
    BY <2>1 DEF Owed, domainVars, toldVars
  <2>3. QED
    BY <1>3, <2>1, <2>2 DEF JobOK, Through
<1>5. QED
  BY <1>1, <1>2, <1>4, NobodyTold DEF Enqueue

LEMMA StartKeeps == ASSUME ConstantsOK, IInv, NEW j \in Job, Start(j) PROVE IInv'
<1> DEFINE r == [state |-> "active", tries |-> job[j].tries, stalls |-> job[j].stalls,
                 pos |-> 0, stage |-> Current, due |-> ReminderDue]
<1>1. job[j] \in JobRecords /\ job \in [Job -> JobRecords]
  BY Records DEF IInv
<1>2. r \in JobRecords
  BY <1>1, CurrentTyped DEF IInv, JobRecords, State, ReminderDue, ConstantsOK
<1>3. job' = [job EXCEPT ![j] = r]
  <2>1. job'[j] = r
    BY <1>1 DEF Start, StageRead, JobRecords
  <2> HIDE DEF r
  <2>2. job' \in [Job -> JobRecords] /\ \A i \in Job \ {j} : job'[i] = job[i]
    BY <1>1, <1>2, <2>1 DEF Start
  <2>3. QED
    BY <1>1, <2>1, <2>2
<1> HIDE DEF r
<1>4. /\ job'[j].state = "active" /\ job'[j].stalls = job[j].stalls
      /\ job'[j].pos = 0 /\ job'[j].stage = Current /\ job[j].state = "waiting"
  BY <1>1, <1>3 DEF Start, r
<1>5. JobOK(j)'
  <2>1. JobOK(j) /\ Owed(j) /\ UNCHANGED domainVars /\ UNCHANGED toldVars
    BY <1>4 DEF IInv, JobsOK, JobOK, Start
  <2>2. /\ Owed(j)' /\ Current' = Current /\ moves' = moves /\ notices' = notices
    BY <2>1 DEF Owed, Current, domainVars, toldVars
  <2>3. /\ Len(Tells(j))' \in Nat
        /\ j[1] = "move" => Len(Tells(j))' # 0
    <3>1. \/ Tells(j)' = <<"candidate", "recruiters">> \/ Tells(j)' = <<"recruiters">>
          \/ Tells(j)' = <<"candidate">> \o Panel /\ j[1] = "invite"
          \/ Tells(j)' = <<"candidate">> /\ j[1] = "remind"
          \/ Tells(j)' = <<>> /\ j[1] = "remind"
      BY JobNames DEF Tells
    <3>2. Panel \in Seq(Author)
      BY DEF ConstantsOK
    <3>3. Len(<<"candidate">> \o Panel) = Len(Panel) + 1 /\ Len(Panel) \in Nat
      BY <3>2
    <3>4. /\ Len(<<"candidate", "recruiters">>) = 2 /\ Len(<<"recruiters">>) = 1
          /\ Len(<<"candidate">>) = 1 /\ Len(<<>>) = 0
      OBVIOUS
    <3>5. Len(Tells(j)') \in Nat /\ (j[1] = "move" => Len(Tells(j)') # 0)
      BY <3>1, <3>3, <3>4
    <3>6. QED
      BY <3>5
  <2>4. notices[j] <= job[j].stalls + 0
    BY <1>4, <2>1 DEF JobOK, Through
  <2>5. notices[j] \in Nat /\ job[j].stalls \in Nat
    BY Records DEF IInv, ConstantsOK
  <2>6. QED
    BY <1>4, <2>1, <2>2, <2>3, <2>4, <2>5 DEF JobOK
<1>6. QED
  BY <1>2, <1>3, <1>5, NobodyTold DEF Start

LEMMA ThrowKeeps == ASSUME ConstantsOK, IInv, NEW j \in Job, Throw(j) PROVE IInv'
<1> DEFINE r == [state |-> IF job[j].tries + 1 = MaxAttempts THEN "failed" ELSE "waiting",
                 tries |-> job[j].tries + 1, stalls |-> job[j].stalls,
                 pos |-> 0, stage |-> "APPLIED", due |-> job[j].due]
<1>1. job[j] \in JobRecords /\ job \in [Job -> JobRecords]
  BY Records DEF IInv
<1>2. r \in JobRecords
  <2>1. job[j].tries + 1 \in 0..MaxAttempts
    BY <1>1 DEF Throw, JobRecords, ConstantsOK
  <2>2. 0 \in 0..(Len(Panel) + 2)
    BY DEF ConstantsOK
  <2>3. QED
    BY <1>1, <2>1, <2>2 DEF JobRecords, State, AnyStage
<1>3. job' = [job EXCEPT ![j] = r]
  BY <1>1 DEF Throw, ErrorRethrown, JobRecords
<1> HIDE DEF r
<1>4. /\ job'[j].state \in {"failed", "waiting"} /\ job'[j].stalls = job[j].stalls
      /\ job[j].state = "active" /\ job[j].pos < Len(Tells(j))
  BY <1>1, <1>3 DEF Throw, r
<1>5. JobOK(j)'
  <2>1. JobOK(j) /\ Owed(j) /\ UNCHANGED domainVars /\ UNCHANGED toldVars
    BY <1>4 DEF IInv, JobsOK, JobOK, Throw
  <2>2. Owed(j)' /\ notices' = notices
    BY <2>1 DEF Owed, domainVars, toldVars
  <2>3. Len(Tells(j)) \in Nat /\ job[j].pos \in Nat
    BY RecruitersLast, Records DEF IInv, ConstantsOK
  <2>4. notices[j] <= job[j].stalls + 0
    BY <1>4, <2>1, <2>3 DEF JobOK, Through
  <2>5. notices[j] \in Nat /\ job[j].stalls \in Nat
    BY Records DEF IInv, ConstantsOK
  <2>6. QED
    BY <1>4, <2>2, <2>4, <2>5 DEF JobOK, Through
<1>6. QED
  BY <1>2, <1>3, <1>5, NobodyTold DEF Throw

LEMMA CompleteKeeps == ASSUME ConstantsOK, IInv, NEW j \in Job, Complete(j) PROVE IInv'
<1> DEFINE r == [state |-> "completed", tries |-> job[j].tries, stalls |-> job[j].stalls,
                 pos |-> 0, stage |-> "APPLIED", due |-> job[j].due]
<1>1. job[j] \in JobRecords /\ job \in [Job -> JobRecords]
  BY Records DEF IInv
<1>2. r \in JobRecords
  BY <1>1 DEF JobRecords, State, AnyStage, ConstantsOK
<1>3. job' = [job EXCEPT ![j] = r]
  <2>1. job'[j] = r
    BY <1>1 DEF Complete, JobRecords
  <2> HIDE DEF r
  <2>2. job' \in [Job -> JobRecords] /\ \A i \in Job \ {j} : job'[i] = job[i]
    BY <1>1, <1>2, <2>1 DEF Complete
  <2>3. QED
    BY <1>1, <2>1, <2>2
<1> HIDE DEF r
<1>4. /\ job'[j].state = "completed" /\ job'[j].stalls = job[j].stalls
      /\ job'[j].due = job[j].due
      /\ job[j].state = "active" /\ job[j].pos = Len(Tells(j))
  BY <1>1, <1>3 DEF Complete, r
<1>5. JobOK(j)'
  <2>1. JobOK(j) /\ Owed(j) /\ UNCHANGED domainVars /\ UNCHANGED toldVars
    BY <1>4 DEF IInv, JobsOK, JobOK, Complete
  <2>2. /\ Owed(j)' /\ notices' = notices /\ told' = told /\ named' = named
        /\ Current' = Current /\ moves' = moves /\ Tells(j)' = Tells(j)
    BY <1>4, <2>1 DEF Owed, Current, Tells, domainVars, toldVars
  <2>3. Through(j) /\ Through(j)'
    BY <1>4 DEF Through
  <2>4. QED
    BY <1>4, <2>1, <2>2, <2>3 DEF JobOK
<1>6. QED
  BY <1>2, <1>3, <1>5, NobodyTold DEF Complete

LEMMA StallKeeps == ASSUME ConstantsOK, IInv, NEW j \in Job, Stall(j) PROVE IInv'
<1> DEFINE last == job[j].stalls = MaxStalls
           r == [state |-> IF last THEN "failed" ELSE "waiting", tries |-> job[j].tries,
                 stalls |-> IF last THEN job[j].stalls ELSE job[j].stalls + 1,
                 pos |-> 0, stage |-> "APPLIED", due |-> job[j].due]
<1>1. job[j] \in JobRecords /\ job \in [Job -> JobRecords]
  BY Records DEF IInv
<1>2. r \in JobRecords
  <2>1. ~last => job[j].stalls + 1 \in 0..MaxStalls
    BY <1>1 DEF JobRecords, ConstantsOK
  <2>2. 0 \in 0..(Len(Panel) + 2)
    BY DEF ConstantsOK
  <2>3. QED
    BY <1>1, <2>1, <2>2 DEF JobRecords, State, AnyStage
<1>3. job' = [job EXCEPT ![j] = r]
  BY <1>1 DEF Stall, Restarted, JobRecords
<1>4. /\ last => job'[j].state = "failed" /\ job'[j].stalls = job[j].stalls
      /\ ~last => job'[j].state = "waiting" /\ job'[j].stalls = job[j].stalls + 1
      /\ job[j].state = "active"
  BY <1>1, <1>3 DEF Stall, Restarted
<1> HIDE DEF r
<1>5. JobOK(j)'
  <2>1. JobOK(j) /\ Owed(j) /\ UNCHANGED domainVars /\ UNCHANGED toldVars
    BY <1>4 DEF IInv, JobsOK, JobOK, Stall, Restarted
  <2>2. Owed(j)' /\ notices' = notices
    BY <2>1 DEF Owed, domainVars, toldVars
  <2>3. notices[j] \in Nat /\ job[j].stalls \in Nat
    BY Records DEF IInv, ConstantsOK
  <2>4. notices[j] <= job[j].stalls + 1
    BY <2>1, <2>3 DEF JobOK
  <2>5. CASE last
    BY <1>4, <2>2, <2>3, <2>4, <2>5 DEF JobOK, Through
  <2>6. CASE ~last
    BY <1>4, <2>2, <2>3, <2>4, <2>6 DEF JobOK, Through
  <2>7. QED
    BY <2>5, <2>6
<1>6. QED
  BY <1>2, <1>3, <1>5, NobodyTold DEF Stall, Restarted

\* The recruiters, who come last, are the only ones who are notified in the app:
\* a job that has notified them is through.
LEMMA TellKeeps == ASSUME ConstantsOK, IInv, NEW j \in Job, Tell(j) PROVE IInv'
<1> DEFINE r == [state |-> "active", tries |-> job[j].tries, stalls |-> job[j].stalls,
                 pos |-> job[j].pos + 1, stage |-> job[j].stage, due |-> job[j].due]
           who == Tells(j)[job[j].pos + 1]
<1>1. job[j] \in JobRecords /\ job \in [Job -> JobRecords] /\ job[j].state = "active"
  BY Records DEF IInv, Tell
<1>2. /\ Tells(j) \in Seq(Recipient) /\ Len(Tells(j)) \in 0..(Len(Panel) + 2)
      /\ job[j].pos \in Nat /\ job[j].pos < Len(Tells(j)) /\ Len(Panel) \in Nat
      /\ job[j].stage \in AnyStage
  BY <1>1, RecruitersLast DEF IInv, Tell, JobRecords, ConstantsOK
<1>3. job[j].pos + 1 \in 1..Len(Tells(j)) /\ who \in Recipient
  BY <1>2
<1>4. r \in JobRecords
  BY <1>1, <1>2 DEF JobRecords
<1>5. job' = [job EXCEPT ![j] = r]
  <2>1. r = [job[j] EXCEPT !.pos = @ + 1]
    BY <1>1 DEF JobRecords
  <2>2. QED
    BY <1>1, <2>1 DEF Tell
<1> HIDE DEF r
<1>6. /\ job'[j].state = "active" /\ job'[j].stalls = job[j].stalls
      /\ job'[j].pos = job[j].pos + 1 /\ job'[j].stage = job[j].stage
      /\ job'[j].due = job[j].due
  BY <1>1, <1>5 DEF r
<1>7. /\ told' = [told EXCEPT ![j] = @ \union {who}]
      /\ notices' = [notices EXCEPT ![j] = IF who = "recruiters" THEN @ + 1 ELSE @]
      /\ named' = IF who = "recruiters" /\ j[1] = "move"
                    THEN named \union {<<j[2], job[j].stage>>} ELSE named
      /\ UNCHANGED domainVars
  BY DEF Tell
<1>8. /\ told \in [Job -> SUBSET Recipient] /\ notices \in [Job -> Nat]
      /\ named \subseteq (1..MaxMoves) \X AnyStage
  <2>1. notices \in [Job -> 0..(MaxAttempts + MaxStalls)]
    BY DEF IInv, TypeOK
  <2>2. QED
    BY <2>1 DEF IInv, TypeOK, ConstantsOK
<1>9. who = "recruiters" <=> job[j].pos + 1 = Len(Tells(j)) /\ who = "recruiters"
  BY <1>3, RecruitersLast DEF IInv
<1>10. j[1] = "move" /\ job[j].pos + 1 = Len(Tells(j)) => who = "recruiters"
  BY RecruitersLast DEF IInv
<1> HIDE DEF who
<1>11. /\ told' \in [Job -> SUBSET Recipient] /\ notices' \in [Job -> Nat]
       /\ told'[j] = told[j] \union {who}
       /\ notices'[j] = IF who = "recruiters" THEN notices[j] + 1 ELSE notices[j]
       /\ \A i \in Job \ {j} : told'[i] = told[i] /\ notices'[i] = notices[i]
  BY <1>3, <1>7, <1>8
<1>12. named \subseteq named' /\ named' \subseteq (1..MaxMoves) \X AnyStage
  BY <1>2, <1>7, <1>8, JobNames
<1>13. JobOK(j)'
  <2>1. JobOK(j) /\ Owed(j)
    BY <1>1 DEF IInv, JobsOK, JobOK
  <2>2. /\ Owed(j)' /\ Current' = Current /\ moves' = moves /\ Tells(j)' = Tells(j)
    BY <1>6, <1>7, <2>1 DEF Owed, Current, Tells, domainVars
  <2>3. \A i \in 1..(job[j].pos + 1) : Tells(j)[i] \in told'[j]
    <3>1. \A i \in 1..job[j].pos : Tells(j)[i] \in told[j]
      BY <1>1, <2>1 DEF JobOK
    <3>2. QED
      BY <1>2, <1>11, <3>1 DEF who
  <2>4. notices'[j] <= job[j].stalls + (IF job[j].pos + 1 = Len(Tells(j)) THEN 1 ELSE 0)
    <3>1. notices[j] <= job[j].stalls + 0
      BY <1>1, <1>2, <2>1 DEF JobOK, Through
    <3>2. notices[j] \in Nat /\ job[j].stalls \in Nat
      BY Records DEF IInv, ConstantsOK
    <3>3. QED
      BY <1>9, <1>11, <3>1, <3>2
  <2>5. Through(j)' <=> job[j].pos + 1 = Len(Tells(j))
    BY <1>6, <2>2 DEF Through
  <2>6. j[1] = "move" =>
          /\ job[j].pos + 1 = Len(Tells(j)) => <<j[2], job[j].stage>> \in named'
          /\ j[2] = Len(moves) => job[j].stage = Current
    BY <1>1, <1>7, <1>10, <2>1 DEF JobOK
  <2>7. job[j].pos + 1 <= Len(Tells(j))
    BY <1>3
  <2>8. QED
    BY <1>6, <2>2, <2>3, <2>4, <2>5, <2>6, <2>7 DEF JobOK
<1>14. QED
  BY <1>4, <1>5, <1>7, <1>11, <1>12, <1>13, OneJobChanges

-----------------------------------------------------------------------------
(* The theorems *)

LEMMA NextIInv == ASSUME ConstantsOK, IInv, [Next]_vars PROVE IInv'
<1>1. CASE Next
  BY <1>1, MoveKeeps, InterviewKeeps, EnqueueKeeps, StartKeeps, TellKeeps,
     ThrowKeeps, CompleteKeeps, StallKeeps DEF Next
<1>2. CASE UNCHANGED vars
  <2>1. /\ moves' = moves /\ interview' = interview /\ cards' = cards /\ req' = req
        /\ job' = job /\ UNCHANGED jobVars
    BY <1>2 DEF vars, jobVars, toldVars
  <2>2. JobsOK'
    BY <2>1, JobsUntouched DEF IInv
  <2>3. TypeOK' /\ CompletedMeansScored'
    BY <2>1 DEF IInv, TypeOK, CompletedMeansScored, jobVars, toldVars
  <2>4. QED
    BY <2>2, <2>3 DEF IInv
<1>3. QED
  BY <1>1, <1>2

LEMMA Invariant == ASSUME ConstantsOK PROVE Spec => []IInv
<1>1. Init => IInv
  BY InitIInv
<1>2. IInv /\ [Next]_vars => IInv'
  BY NextIInv
<1>3. QED
  BY <1>1, <1>2, PTL DEF Spec

\* Every job, request and history holds values of its type; in particular the
\* histories are bounded by the attempts and the lost workers.
THEOREM TypeCorrect == ASSUME ConstantsOK PROVE Spec => []TypeOK
<1>1. IInv => TypeOK
  BY DEF IInv
<1>2. QED
  BY <1>1, Invariant, PTL

\* A completed job has told everyone it had to tell: what it told in attempts
\* that failed counts, and what it tells last it tells in the attempt that ends
\* well.
THEOREM DoneMeansToldAlways == ASSUME ConstantsOK PROVE Spec => []DoneMeansTold
<1>1. ASSUME IInv PROVE DoneMeansTold
  <2> SUFFICES ASSUME NEW j \in Job, job[j].state = "completed",
                      NEW i \in DOMAIN Tells(j)
               PROVE  Tells(j)[i] \in told[j]
    BY DEF DoneMeansTold
  <2>1. i \in 1..Len(Tells(j))
    BY <1>1, RecruitersLast, LenProperties DEF IInv
  <2>2. QED
    BY <1>1, <2>1 DEF IInv, JobsOK, JobOK
<1>2. QED
  BY <1>1, Invariant, PTL

\* A job notifies the recruiters once, and once more for each worker it lost:
\* they come last, so that no error follows their notifications.
THEOREM NoticeOncePerStallAlways == ASSUME ConstantsOK PROVE Spec => []NoticeOncePerStall
<1>1. ASSUME IInv PROVE NoticeOncePerStall
  <2> SUFFICES ASSUME NEW j \in Job PROVE notices[j] <= 1 + job[j].stalls
    BY DEF NoticeOncePerStall
  <2>1. notices[j] <= job[j].stalls + (IF Through(j) THEN 1 ELSE 0)
    BY <1>1 DEF IInv, JobsOK, JobOK
  <2>2. notices[j] \in Nat /\ job[j].stalls \in Nat
    BY <1>1, Records DEF IInv, ConstantsOK
  <2>3. QED
    BY <2>1, <2>2
<1>2. QED
  BY <1>1, Invariant, PTL

\* When the job of the last move has completed, some notification of it named
\* the stage the application is in.
THEOREM LastStageIsNamedAlways == ASSUME ConstantsOK PROVE Spec => []LastStageIsNamed
<1>1. IInv => LastStageIsNamed
  BY DEF IInv, JobsOK, JobOK, LastStageIsNamed
<1>2. QED
  BY <1>1, Invariant, PTL

\* A completed interview has a scorecard, and a scored one is not scheduled.
THEOREM CompletedMeansScoredAlways == ASSUME ConstantsOK PROVE Spec => []CompletedMeansScored
<1>1. IInv => CompletedMeansScored
  BY DEF IInv
<1>2. QED
  BY <1>1, Invariant, PTL
=============================================================================
