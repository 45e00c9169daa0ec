---------------------------- MODULE MCOperations ----------------------------
(***************************************************************************)
(* ResumeParse and instances of KanbanBoard and Shutdown for TLC.  They    *)
(* share no state: `side` says, from the first state on, which of the      *)
(* three a behaviour is of.                                                *)
(***************************************************************************)
EXTENDS ResumeParse

CONSTANTS App, Stage, Closed, First, Drag, MaxMoves, MaxFaults, Work

VARIABLES
    side,
    at, board, fetch, drag, push, moves, faults, behind,
    role, phase, work, prisma, code

B == INSTANCE KanbanBoard
S == INSTANCE Shutdown

boardVars == <<at, board, fetch, drag, push, moves, faults, behind>>
processVars == <<role, phase, work, prisma, code>>
allVars == <<side, vars, boardVars, processVars>>

\* What is not followed starts, and stays, in one state.
MCInit ==
    /\ side \in {"parse", "board", "process"}
    /\ Init
    /\ side # "parse" => shared = NoEvidence
    /\ B!Init
    /\ S!Init /\ (side # "process" => role = "api")

\* Bound: a behaviour has an edit, or attempts of the job that fail or lose
\* their worker.
EditOrFailure == edits = 0 \/ (job.stalls = 0 /\ job.tries = 0)

OnParse == /\ side = "parse" /\ Next /\ EditOrFailure'
           /\ UNCHANGED <<side, boardVars, processVars>>
OnBoard == side = "board" /\ B!Next /\ UNCHANGED <<side, vars, processVars>>
OnProcess == side = "process" /\ S!Next /\ UNCHANGED <<side, vars, boardVars>>
MCNext == OnParse \/ OnBoard \/ OnProcess

MCSpec == MCInit /\ [][MCNext]_allVars

\* The type invariants of the three modules.
TypesOK == TypeOK /\ B!TypeOK /\ S!TypeOK

\* See KanbanBoard: a board with nothing under way is right.
BoardIsTrue == B!BoardIsTrue

\* See Shutdown: a clean exit cut no work short that anybody waits for.
CleanExit == S!CleanExit
=============================================================================
