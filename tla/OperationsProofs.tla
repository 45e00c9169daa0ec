---------------------------- MODULE OperationsProofs ----------------------------
(***************************************************************************)
(* A recruiter's board with nothing under way is right, and a clean exit   *)
(* of a process cuts short no work that anybody waits for: for any number  *)
(* of applications, stages, moves in flight, requests and jobs.  The two   *)
(* components are those of MCOperations, beside ResumeParse, whose proofs  *)
(* are in ResumeParseProofs.                                               *)
(***************************************************************************)
EXTENDS ResumeParseProofs, MCOperations

\* What the constants stand for: bounds are numbers, applications start in a
\* stage, and no stage has the name that stands for the missing board.
BoardConstantsOK ==
    /\ MaxMoves \in Nat /\ MaxFaults \in Nat
    /\ First \in Stage /\ "none" \notin Stage

-----------------------------------------------------------------------------
(* How a process stops *)

\* What holds between the steps of a shutdown: nothing is cut before the end,
\* nothing but orphaned handlers runs once the server and the worker are closed,
\* and the database client goes only then.
ShutdownInv ==
    /\ S!TypeOK
    /\ ~prisma => phase \in {"closed", "exited"}
    /\ phase # "exited" => \A w \in Work : work[w] \notin {"cut", "lost"}
    /\ phase = "closed" /\ role # "relay" =>
         \A w \in Work : work[w] \in {"idle", "orphan"}
    /\ ~prisma /\ role # "relay" =>
         \A w \in Work : work[w] \notin {"running", "stream"}
    /\ phase = "exited" /\ code = 0 /\ role # "relay" =>
         \A w \in Work : work[w] # "cut"

LEMMA ShutdownInit == S!Init => ShutdownInv
  BY DEF S!Init, S!TypeOK, S!Running, ShutdownInv

LEMMA ShutdownNext == ShutdownInv /\ [S!Next]_processVars => ShutdownInv'
<1> SUFFICES ASSUME ShutdownInv, [S!Next]_processVars PROVE ShutdownInv'
  OBVIOUS
<1> USE DEF ShutdownInv, S!TypeOK, S!Running
<1>1. ASSUME NEW w \in Work, S!Begin(w) PROVE ShutdownInv'
  BY <1>1 DEF S!Begin
<1>2. ASSUME NEW w \in Work, S!Finish(w) PROVE ShutdownInv'
  BY <1>2 DEF S!Finish
<1>3. ASSUME NEW w \in Work, S!Stream(w) PROVE ShutdownInv'
  BY <1>3 DEF S!Stream
<1>4. ASSUME NEW w \in Work, S!Disconnect(w) PROVE ShutdownInv'
  BY <1>4 DEF S!Disconnect
<1>5. CASE S!Signal
  BY <1>5 DEF S!Signal
<1>6. CASE S!Close
  <2>1. role # "relay" => \A w \in Work : work[w] \in {"idle", "orphan"}
    BY <1>6 DEF S!Close, S!Drained
  <2>2. QED
    BY <1>6, <2>1 DEF S!Close
<1>7. CASE S!Exit
  BY <1>7 DEF S!Exit, S!Ended
<1>8. CASE S!ForceExit
  BY <1>8 DEF S!ForceExit, S!Ended
<1>9. CASE UNCHANGED processVars
  BY <1>9 DEF processVars
<1>10. QED
  BY <1>1, <1>2, <1>3, <1>4, <1>5, <1>6, <1>7, <1>8, <1>9 DEF S!Next

LEMMA CleanExitHolds == ShutdownInv => CleanExit
  BY DEF ShutdownInv, CleanExit, S!CleanExit, S!Running, S!TypeOK

-----------------------------------------------------------------------------
(* The board *)

\* A card can be dropped only on a board that is there.
DragsOnData == \A m \in Drag : drag[m] # B!Idle => board # B!NoBoard

NothingUnderWay ==
    ~push /\ ~behind /\ \A m \in Drag : drag[m] = B!Idle

\* BoardIsTrue says nothing of a board that is being fetched; what the server
\* has answered by then is right as well, because whatever happens after the
\* answer leaves a push, a move or a loss behind, or cancels the fetch.
AnswerIsTrue ==
    NothingUnderWay =>
        /\ fetch = B!Idle => board = at
        /\ fetch.pc = "read" => fetch.list = at

BoardInv == B!TypeOK /\ DragsOnData /\ AnswerIsTrue

LEMMA BoardInit == ASSUME BoardConstantsOK, B!Init PROVE BoardInv
<1>1. B!TypeOK
  <2>1. at \in [App -> Stage] /\ board \in B!Board
    BY DEF BoardConstantsOK, B!Init, B!Board
  <2>2. /\ fetch \in [pc: {"sent"}]
        /\ push \in BOOLEAN /\ behind \in BOOLEAN
    BY DEF B!Init
  <2>3. drag \in [Drag -> {B!Idle}]
    BY DEF B!Init
  <2>4. moves \in 0..MaxMoves /\ faults \in 0..MaxFaults
    BY DEF BoardConstantsOK, B!Init
  <2>5. QED BY <2>1, <2>2, <2>3, <2>4 DEF B!TypeOK
<1>2. DragsOnData
  BY DEF B!Init, DragsOnData
<1>3. AnswerIsTrue
  <2>1. fetch.pc = "sent" /\ fetch # B!Idle
    BY DEF B!Init, B!Idle
  <2>2. QED BY <2>1 DEF AnswerIsTrue
<1>4. QED BY <1>1, <1>2, <1>3 DEF BoardInv

\* What the types say of a fetch and of a move in flight.
LEMMA BoardTypes ==
    ASSUME B!TypeOK
    PROVE  /\ fetch.pc \in {"idle", "sent", "read"}
           /\ fetch.pc = "idle" <=> fetch = B!Idle
           /\ fetch.pc = "read" => fetch.list \in [App -> Stage]
           /\ \A m \in Drag :
                /\ drag[m].pc = "idle" <=> drag[m] = B!Idle
                /\ drag[m].pc # "idle" =>
                     drag[m] \in [pc: {"sent", "moved", "refused"}, app: App,
                                  to: Stage, previous: [App -> Stage]]
<1>1. /\ fetch.pc \in {"idle", "sent", "read"}
      /\ fetch.pc = "idle" <=> fetch = B!Idle
      /\ fetch.pc = "read" => fetch.list \in [App -> Stage]
  BY DEF B!TypeOK, B!Idle
<1>2. ASSUME NEW m \in Drag
      PROVE  /\ drag[m].pc = "idle" <=> drag[m] = B!Idle
             /\ drag[m].pc # "idle" =>
                  drag[m] \in [pc: {"sent", "moved", "refused"}, app: App,
                               to: Stage, previous: [App -> Stage]]
  BY DEF B!TypeOK, B!Idle
<1>3. QED BY <1>1, <1>2

\* A new fetch, or none before there is data: nothing can be wrong about it.
LEMMA RefetchTyped ==
    ASSUME B!TypeOK, B!Refetch
    PROVE  /\ fetch' \in {B!Idle} \union [pc: {"sent"}]
                           \union [pc: {"read"}, list: [App -> Stage]]
           /\ board # B!NoBoard => fetch'.pc = "sent" /\ fetch' # B!Idle
  BY DEF B!TypeOK, B!Refetch, B!Idle

LEMMA DropStep ==
    ASSUME BoardConstantsOK, BoardInv, NEW m \in Drag, NEW a \in App,
           NEW s \in Stage, B!Drop(m, a, s)
    PROVE  BoardInv'
<1> DEFINE d == [pc |-> "sent", app |-> a, to |-> s, previous |-> board]
<1>1. board \in [App -> Stage]
  BY DEF BoardInv, B!TypeOK, B!Board, B!Drop
<1>2. d \in [pc: {"sent", "moved", "refused"}, app: App, to: Stage,
             previous: [App -> Stage]]
  BY <1>1
<1>3. drag' = [drag EXCEPT ![m] = d] /\ drag'[m] = d /\ d.pc = "sent"
  BY DEF B!Drop, BoardInv, B!TypeOK
<1>4. board' \in [App -> Stage]
  BY <1>1 DEF B!Drop
<1>5. B!TypeOK'
  BY <1>2, <1>3, <1>4 DEF BoardConstantsOK, BoardInv, B!TypeOK, B!Board, B!Drop
<1>6. board'[a] # "none"
  BY <1>4 DEF BoardConstantsOK
<1>7. board' # B!NoBoard
  BY <1>6 DEF B!NoBoard
<1>8. ~NothingUnderWay'
  BY <1>3 DEF NothingUnderWay, B!Idle
<1>9. QED
  BY <1>5, <1>7, <1>8 DEF BoardInv, DragsOnData, AnswerIsTrue, B!NoBoard

LEMMA SettleStep ==
    ASSUME BoardConstantsOK, BoardInv, NEW m \in Drag, B!Settle(m)
    PROVE  BoardInv'
<1>1. /\ drag[m] # B!Idle /\ board # B!NoBoard
      /\ drag[m].previous \in [App -> Stage]
  BY BoardTypes DEF B!Settle, BoardInv, DragsOnData, B!Idle
<1>2. board \in [App -> Stage]
  BY <1>1 DEF BoardInv, B!TypeOK, B!Board
<1>3. board' \in [App -> Stage]
  BY <1>1, <1>2 DEF B!Settle, B!Rollback
<1>4. fetch'.pc = "sent" /\ fetch' # B!Idle /\
      fetch' \in {B!Idle} \union [pc: {"sent"}]
                   \union [pc: {"read"}, list: [App -> Stage]]
  BY <1>1, RefetchTyped DEF B!Settle, B!onSettled, BoardInv
<1>5. B!TypeOK'
  BY <1>3, <1>4 DEF B!Settle, BoardInv, B!TypeOK, B!Board
<1>6. App # {}
  BY <1>1, <1>2 DEF B!NoBoard
<1>7. board' # B!NoBoard
  <2>1. PICK a \in App : TRUE
    BY <1>6
  <2>2. board'[a] # "none"
    BY <1>3 DEF BoardConstantsOK
  <2>3. QED BY <2>2 DEF B!NoBoard
<1>8. QED
  BY <1>4, <1>5, <1>7 DEF BoardInv, DragsOnData, AnswerIsTrue, B!NoBoard

LEMMA LandStep ==
    ASSUME BoardConstantsOK, BoardInv, B!Land
    PROVE  BoardInv'
<1>1. fetch.pc = "read" /\ fetch.list \in [App -> Stage]
  BY BoardTypes DEF B!Land, BoardInv
<1>2. B!TypeOK'
  BY <1>1 DEF B!Land, BoardInv, B!TypeOK, B!Board
<1>3. ASSUME NEW m \in Drag, drag'[m] # B!Idle PROVE board' # B!NoBoard
  <2>1. board # B!NoBoard /\ board \in [App -> Stage]
    BY <1>3 DEF B!Land, BoardInv, DragsOnData, B!TypeOK, B!Board
  <2>2. PICK a \in App : TRUE
    BY <2>1 DEF B!NoBoard
  <2>3. fetch.list[a] # "none"
    BY <1>1 DEF BoardConstantsOK
  <2>4. QED BY <2>3 DEF B!Land, B!NoBoard
<1>4. NothingUnderWay' => board' = at'
  BY <1>1 DEF B!Land, BoardInv, AnswerIsTrue, NothingUnderWay
<1>5. fetch'.pc # "read"
  BY DEF B!Land, B!Idle
<1>6. QED
  BY <1>2, <1>3, <1>4, <1>5 DEF BoardInv, DragsOnData, AnswerIsTrue, B!NoBoard

LEMMA ServeStep ==
    ASSUME BoardInv, NEW m \in Drag, B!Serve(m)
    PROVE  BoardInv'
<1> DEFINE a == drag[m].app
           accepted == at[a] \notin Closed \union {drag[m].to}
<1>1. /\ drag[m] \in [pc: {"sent", "moved", "refused"}, app: App, to: Stage,
                      previous: [App -> Stage]]
      /\ drag[m] # B!Idle
  BY BoardTypes DEF B!Serve, BoardInv
<1>2. drag' = [drag EXCEPT ![m].pc = IF accepted THEN "moved" ELSE "refused"]
  BY DEF B!Serve
<1>3. /\ drag' \in [Drag -> {B!Idle} \union
                      [pc: {"sent", "moved", "refused"}, app: App, to: Stage,
                       previous: [App -> Stage]]]
      /\ drag'[m] # B!Idle
  BY <1>1, <1>2 DEF BoardInv, B!TypeOK, B!Idle
<1>4. at' \in [App -> Stage] /\ push' \in BOOLEAN
  BY <1>1 DEF B!Serve, BoardInv, B!TypeOK
<1>5. B!TypeOK'
  BY <1>3, <1>4 DEF B!Serve, BoardInv, B!TypeOK
<1>6. board' # B!NoBoard
  BY <1>1 DEF B!Serve, BoardInv, DragsOnData
<1>7. ~NothingUnderWay'
  BY <1>3 DEF NothingUnderWay
<1>8. QED
  BY <1>5, <1>6, <1>7 DEF BoardInv, DragsOnData, AnswerIsTrue, B!NoBoard

LEMMA DeliverStep ==
    ASSUME BoardInv, B!Deliver
    PROVE  BoardInv'
<1>1. B!TypeOK'
  BY RefetchTyped DEF B!Deliver, BoardInv, B!TypeOK
<1>2. DragsOnData'
  BY DEF B!Deliver, BoardInv, DragsOnData, B!NoBoard
<1>3. AnswerIsTrue'
  <2>1. CASE board = B!NoBoard
    BY <2>1 DEF B!Deliver, AnswerIsTrue, NothingUnderWay
  <2>2. CASE board # B!NoBoard
    BY <2>2, RefetchTyped DEF B!Deliver, BoardInv, AnswerIsTrue
  <2>3. QED BY <2>1, <2>2
<1>4. QED BY <1>1, <1>2, <1>3 DEF BoardInv

LEMMA BoardFailStep ==
    ASSUME BoardConstantsOK, BoardInv, B!Fail
    PROVE  BoardInv'
<1>1. faults' \in 0..MaxFaults
  BY DEF B!Fail, BoardConstantsOK, BoardInv, B!TypeOK
<1>2. CASE fetch' = B!Idle /\ behind' = TRUE /\ UNCHANGED drag
  <2>1. B!TypeOK'
    BY <1>1, <1>2 DEF B!Fail, BoardInv, B!TypeOK
  <2>2. QED
    BY <1>2, <2>1 DEF B!Fail, BoardInv, DragsOnData, AnswerIsTrue,
                      NothingUnderWay, B!NoBoard
<1>3. ASSUME NEW m \in Drag, drag[m].pc \in {"sent", "moved"},
             drag' = [drag EXCEPT ![m].pc = "refused"],
             UNCHANGED <<fetch, behind>>
      PROVE  BoardInv'
  <2>1. /\ drag[m] \in [pc: {"sent", "moved", "refused"}, app: App, to: Stage,
                        previous: [App -> Stage]]
        /\ drag[m] # B!Idle
    BY <1>3, BoardTypes DEF BoardInv
  <2>2. /\ drag' \in [Drag -> {B!Idle} \union
                        [pc: {"sent", "moved", "refused"}, app: App, to: Stage,
                         previous: [App -> Stage]]]
        /\ drag'[m] # B!Idle
    BY <1>3, <2>1 DEF BoardInv, B!TypeOK, B!Idle
  <2>3. B!TypeOK'
    BY <1>1, <1>3, <2>2 DEF B!Fail, BoardInv, B!TypeOK
  <2>4. board' # B!NoBoard
    BY <2>1 DEF B!Fail, BoardInv, DragsOnData
  <2>5. ~NothingUnderWay'
    BY <2>2 DEF NothingUnderWay
  <2>6. QED
    BY <2>3, <2>4, <2>5 DEF BoardInv, DragsOnData, AnswerIsTrue, B!NoBoard
<1>4. QED BY <1>2, <1>3 DEF B!Fail

LEMMA BoardNext ==
    ASSUME BoardConstantsOK, BoardInv, [B!Next]_boardVars
    PROVE  BoardInv'
<1>1. ASSUME NEW a \in App, NEW s \in Stage, B!MoveElsewhere(a, s)
      PROVE  BoardInv'
  <2>1. B!TypeOK'
    BY <1>1 DEF B!MoveElsewhere, BoardConstantsOK, BoardInv, B!TypeOK
  <2>2. QED
    BY <1>1, <2>1 DEF B!MoveElsewhere, BoardInv, DragsOnData, AnswerIsTrue,
                      NothingUnderWay, B!NoBoard
<1>2. CASE B!Poll
  <2>1. B!TypeOK'
    BY <1>2 DEF B!Poll, BoardInv, B!TypeOK
  <2>2. fetch'.pc = "sent" /\ fetch' # B!Idle
    BY <1>2 DEF B!Poll, B!Idle
  <2>3. QED
    BY <1>2, <2>1, <2>2 DEF B!Poll, BoardInv, DragsOnData, AnswerIsTrue, B!NoBoard
<1>3. CASE B!Read
  <2>1. B!TypeOK'
    BY <1>3 DEF B!Read, BoardInv, B!TypeOK
  <2>2. fetch'.list = at' /\ fetch' # B!Idle
    BY <1>3 DEF B!Read, B!Idle
  <2>3. QED
    BY <1>3, <2>1, <2>2 DEF B!Read, BoardInv, DragsOnData, AnswerIsTrue, B!NoBoard
<1>4. CASE B!Lose
  <2>1. B!TypeOK'
    BY <1>4 DEF B!Lose, BoardInv, B!TypeOK
  <2>2. QED
    BY <1>4, <2>1 DEF B!Lose, BoardInv, DragsOnData, AnswerIsTrue,
                      NothingUnderWay, B!NoBoard
<1>5. CASE UNCHANGED boardVars
  BY <1>5 DEF boardVars, BoardInv, B!TypeOK, DragsOnData, AnswerIsTrue,
              NothingUnderWay, B!NoBoard
<1>6. QED
  BY <1>1, <1>2, <1>3, <1>4, <1>5, DropStep, SettleStep, LandStep, ServeStep,
     DeliverStep, BoardFailStep DEF B!Next

LEMMA BoardIsTrueHolds == BoardInv => BoardIsTrue
  BY DEF BoardInv, AnswerIsTrue, NothingUnderWay, BoardIsTrue, B!BoardIsTrue

-----------------------------------------------------------------------------
(* Theorems *)

\* Each component moves on its own.
LEMMA OperationsInit == MCInit => Init /\ B!Init /\ S!Init
  BY DEF MCInit

LEMMA OperationsNext ==
    [MCNext]_allVars =>
        [Next]_vars /\ [B!Next]_boardVars /\ [S!Next]_processVars
  BY DEF MCNext, OnParse, OnBoard, OnProcess, allVars

\* JobDetail.tsx, useRealtime.ts: whatever drops, refusals, rollbacks, pushes,
\* polls and other people's moves come in between, a board that shows nothing
\* under way and has missed nothing shows every application where it is.
THEOREM BoardIsTrueAlways ==
    ASSUME BoardConstantsOK
    PROVE  MCSpec => []BoardIsTrue
<1>1. MCInit => BoardInv
  BY OperationsInit, BoardInit
<1>2. BoardInv /\ [MCNext]_allVars => BoardInv'
  BY OperationsNext, BoardNext
<1>3. QED
  BY <1>1, <1>2, BoardIsTrueHolds, PTL DEF MCSpec

\* server/src/index.ts, workers/src/shared.ts: whatever is accepted before and
\* during a shutdown of the API or a worker, and whichever clients go away, no
\* job and no request that a client still waits for runs without the database
\* client, and an exit with code 0 has cut none of them short.
THEOREM CleanExitAlways == MCSpec => []CleanExit
<1>1. MCInit => ShutdownInv
  BY OperationsInit, ShutdownInit
<1>2. ShutdownInv /\ [MCNext]_allVars => ShutdownInv'
  BY OperationsNext, ShutdownNext
<1>3. QED
  BY <1>1, <1>2, CleanExitHolds, PTL DEF MCSpec

\* The parse job's, the board's and the process's states are of their types,
\* side by side.
THEOREM OperationsTyped ==
    ASSUME ConstantsOK, BoardConstantsOK
    PROVE  MCSpec => []TypesOK
<1> DEFINE Inv == IInv /\ BoardInv /\ ShutdownInv
<1>1. MCInit => Inv
  BY OperationsInit, InitIInv, BoardInit, ShutdownInit
<1>2. Inv /\ [MCNext]_allVars => Inv'
  BY OperationsNext, NextIInv, BoardNext, ShutdownNext
<1>3. Inv => TypesOK
  BY DEF IInv, BoardInv, ShutdownInv, TypesOK
<1>4. QED
  BY <1>1, <1>2, <1>3, PTL DEF MCSpec
=============================================================================
