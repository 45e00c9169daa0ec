----------------------------- MODULE KanbanBoard -----------------------------
(***************************************************************************)
(* The board of a job: what one recruiter's tab shows of the applications' *)
(* stages while cards are dragged, refused, moved by others, pushed and    *)
(* fetched again.                                                          *)
(*                                                                         *)
(*   web/src/pages/JobDetail.tsx        the board and its optimistic moves *)
(*   web/src/hooks/useRealtime.ts       application.* events               *)
(*   server/src/modules/applications/, packages/core/.../applications/     *)
(*       service.ts                     the transition, and its refusal    *)
(*                                                                         *)
(* The board's rules about stages are those of Pipeline.tla; here a move is*)
(* accepted or refused by the stage the application is in when it arrives. *)
(***************************************************************************)
EXTENDS Naturals, FiniteSets

CONSTANTS
    App,        \* the job's applications
    Stage,      \* its stages
    Closed,     \* the ones of a terminal kind
    First,      \* the one an application starts in
    Drag,       \* slots for moves in flight
    MaxMoves,   \* bound: moves, of this tab and of others
    MaxFaults   \* bound: fetches and answers that are lost

VARIABLES
    at,       \* applications.currentStageId
    board,    \* the cached list: the stage of each application
    fetch,    \* the board's fetch
    drag,     \* the moves of this tab
    push,     \* an event is on its way
    moves,    \* moves so far
    faults,   \* lost so far
    behind    \* history: something was lost that no fetch has made up for

vars == <<at, board, fetch, drag, push, moves, faults, behind>>

Idle == [pc |-> "idle"]
NoBoard == [a \in App |-> "none"]
Board == [App -> Stage] \union {NoBoard}

TypeOK ==
    /\ at \in [App -> Stage]
    /\ board \in Board
    /\ fetch \in {Idle} \union [pc: {"sent"}] \union [pc: {"read"}, list: [App -> Stage]]
    /\ drag \in [Drag -> {Idle} \union
                   [pc: {"sent", "moved", "refused"}, app: App, to: Stage,
                    previous: [App -> Stage]]]
    /\ push \in BOOLEAN /\ behind \in BOOLEAN
    /\ moves \in 0..MaxMoves /\ faults \in 0..MaxFaults

Init ==
    /\ at = [a \in App |-> First]
    /\ board = NoBoard
    /\ fetch = [pc |-> "sent"]
    /\ drag = [m \in Drag |-> Idle]
    /\ push = FALSE /\ behind = FALSE
    /\ moves = 0 /\ faults = 0

\* invalidateQueries: a new fetch instead of the one under way, or, before any
\* data is there, nothing.
Refetch == fetch' = IF board = NoBoard THEN fetch ELSE [pc |-> "sent"]

-----------------------------------------------------------------------------
(* This tab *)

\* onDrop and onMutate: a card is dropped on another column.  The fetch under
\* way is cancelled, and the board shows the move at once.
Drop(m, a, s) ==
    /\ drag[m] = Idle
    /\ moves < MaxMoves
    /\ board # NoBoard
    /\ board[a] # s
    /\ moves' = moves + 1
    /\ fetch' = Idle
    /\ drag' = [drag EXCEPT ![m] = [pc |-> "sent", app |-> a, to |-> s,
                                    previous |-> board]]
    /\ board' = [board EXCEPT ![a] = s]
    /\ UNCHANGED <<at, push, faults, behind>>

\* onError puts the whole list back as it was before the drop.
Rollback(m) ==
    IF drag[m].pc = "refused" THEN drag[m].previous ELSE board

\* Mutant: only an accepted move is followed by a fetch.
SettleMoved(m) ==
    IF drag[m].pc = "moved" THEN Refetch ELSE UNCHANGED fetch
onSettled(m) == Refetch

Settle(m) ==
    /\ drag[m].pc \in {"moved", "refused"}
    /\ board' = Rollback(m)
    /\ onSettled(m)
    /\ drag' = [drag EXCEPT ![m] = Idle]
    /\ UNCHANGED <<at, push, moves, faults, behind>>

Land ==
    /\ fetch.pc = "read"
    /\ board' = fetch.list
    /\ fetch' = Idle
    /\ UNCHANGED <<at, drag, push, moves, faults, behind>>

\* Two minutes are over, or the window has the focus again.
Poll ==
    /\ fetch = Idle
    /\ fetch' = [pc |-> "sent"]
    /\ behind' = FALSE
    /\ UNCHANGED <<at, board, drag, push, moves, faults>>

-----------------------------------------------------------------------------
(* The server and the others *)

Read ==
    /\ fetch.pc = "sent"
    /\ fetch' = [pc |-> "read", list |-> at]
    /\ UNCHANGED <<at, board, drag, push, moves, faults, behind>>

\* The transition commits and is published, or is refused with a 409 or 422.
Serve(m) ==
    /\ drag[m].pc = "sent"
    /\ LET a == drag[m].app
           accepted == at[a] \notin Closed \union {drag[m].to}
       IN /\ drag' = [drag EXCEPT ![m].pc = IF accepted THEN "moved" ELSE "refused"]
          /\ at' = IF accepted THEN [at EXCEPT ![a] = drag[m].to] ELSE at
          /\ push' = (push \/ accepted)
    /\ UNCHANGED <<board, fetch, moves, faults, behind>>

MoveElsewhere(a, s) ==
    /\ moves < MaxMoves
    /\ at[a] \notin Closed \union {s}
    /\ moves' = moves + 1
    /\ at' = [at EXCEPT ![a] = s]
    /\ push' = TRUE
    /\ UNCHANGED <<board, fetch, drag, faults, behind>>

\* handleApplicationEvent.  During the first load it comes too early or too
\* late to tell.
Deliver ==
    /\ push
    /\ push' = FALSE
    /\ Refetch
    /\ behind' = (behind \/ board = NoBoard)
    /\ UNCHANGED <<at, board, drag, moves, faults>>

\* Nobody hears the event.
Lose ==
    /\ push
    /\ push' = FALSE
    /\ behind' = TRUE
    /\ UNCHANGED <<at, board, fetch, drag, moves, faults>>

\* A fetch fails; the answer to a move is lost, which onError takes for a no.
Fail ==
    /\ faults < MaxFaults
    /\ faults' = faults + 1
    /\ \/ /\ fetch # Idle
          /\ fetch' = Idle
          /\ behind' = TRUE
          /\ UNCHANGED drag
       \/ \E m \in Drag :
            /\ drag[m].pc \in {"sent", "moved"}
            /\ drag' = [drag EXCEPT ![m].pc = "refused"]
            /\ UNCHANGED <<fetch, behind>>
    /\ UNCHANGED <<at, board, push, moves>>

-----------------------------------------------------------------------------
Next ==
    \/ \E m \in Drag : \/ \E a \in App, s \in Stage : Drop(m, a, s)
                       \/ Settle(m) \/ Serve(m)
    \/ \E a \in App, s \in Stage : MoveElsewhere(a, s)
    \/ Land \/ Poll \/ Read \/ Deliver \/ Lose \/ Fail

Spec == Init /\ [][Next]_vars

-----------------------------------------------------------------------------
(* Properties *)

\* When nothing is in flight, no event lost and no fetch failed, the board
\* shows every application where it is: no drop cancels the fetch that would
\* have shown somebody else's move for good, and no refused move puts back an
\* old list for good, whichever of two overlapping moves settles first.
BoardIsTrue ==
    board # NoBoard /\ fetch = Idle /\ ~push /\ ~behind
      /\ (\A m \in Drag : drag[m] = Idle)
      => board = at
=============================================================================
