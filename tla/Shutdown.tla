------------------------------ MODULE Shutdown ------------------------------
(***************************************************************************)
(* How a process of the system stops: the API, a queue's worker, or the    *)
(* relay, with work in flight.                                             *)
(*                                                                         *)
(*   server/src/index.ts                    the API's shutdown             *)
(*   server/src/modules/realtime/stream.ts  streams, which never end       *)
(*   workers/src/shared.ts, relay.ts        the same for the others        *)
(*                                                                         *)
(* A piece of work is a request, a job or a tick of the relay.  A request  *)
(* is a connection and a handler, and the handler runs on if the browser   *)
(* or a proxy drops the connection.  Signals, uncaught exceptions and      *)
(* unhandled rejections all start the shutdown.                            *)
(***************************************************************************)
EXTENDS Naturals

CONSTANT Work   \* slots for work in flight

VARIABLES
    role,    \* which process it is
    phase,   \* how far its shutdown is
    work,    \* work in flight; "orphan": a handler that lost its connection;
             \* "cut", "lost": the process ended in the middle of either
    prisma,  \* the database client is connected
    code     \* the exit code

vars == <<role, phase, work, prisma, code>>

Running == "running"

TypeOK ==
    /\ role \in {"api", "worker", "relay"}
    /\ phase \in {"up", "closing", "closed", "exited"}
    /\ work \in [Work -> {"idle", Running, "orphan", "stream", "cut", "lost"}]
    /\ prisma \in BOOLEAN
    /\ code \in {0, 1}

Init ==
    /\ role \in {"api", "worker", "relay"}
    /\ phase = "up"
    /\ work = [w \in Work |-> "idle"]
    /\ prisma = TRUE
    /\ code = 0

\* A request is accepted, a job taken, a tick begun; all only while up.
Begin(w) ==
    /\ phase = "up"
    /\ work[w] = "idle"
    /\ work' = [work EXCEPT ![w] = Running]
    /\ UNCHANGED <<role, phase, prisma, code>>

Finish(w) ==
    /\ phase # "exited"
    /\ work[w] \in {Running, "orphan"}
    /\ work' = [work EXCEPT ![w] = "idle"]
    /\ UNCHANGED <<role, phase, prisma, code>>

\* realtimeStreamHandler: the request turns out to be a stream; one that was
\* accepted before the shutdown may do so during it.
Stream(w) ==
    /\ role = "api"
    /\ phase \in {"up", "closing"}
    /\ work[w] = Running
    /\ work' = [work EXCEPT ![w] = "stream"]
    /\ UNCHANGED <<role, phase, prisma, code>>

\* The connection goes away: a stream ends with it, a handler does not notice.
Disconnect(w) ==
    /\ role = "api"
    /\ phase # "exited"
    /\ \/ work[w] = "stream" /\ work' = [work EXCEPT ![w] = "idle"]
       \/ work[w] = Running /\ work' = [work EXCEPT ![w] = "orphan"]
    /\ UNCHANGED <<role, phase, prisma, code>>

\* The first signal; the streams that are open are ended.  shuttingDown makes
\* every later one do nothing.
Signal ==
    /\ phase = "up"
    /\ phase' = "closing"
    /\ work' = [w \in Work |-> IF work[w] = "stream" THEN "idle" ELSE work[w]]
    /\ UNCHANGED <<role, prisma, code>>

\* Mutant: the old fire-and-forget server.close().
Closing == TRUE
\* server.close waits for connections, Worker.close for jobs; stopRelay stops
\* the interval and waits for nothing.
Drained == role = "relay" \/ \A w \in Work : work[w] \notin {Running, "stream"}

Close ==
    /\ phase = "closing"
    /\ Drained
    /\ phase' = "closed"
    /\ prisma' = FALSE
    /\ UNCHANGED <<role, work, code>>

Ended(c) ==
    /\ phase' = "exited"
    /\ code' = c
    /\ work' = [w \in Work |-> CASE work[w] = Running -> "cut"
                                 [] work[w] = "orphan" -> "lost"
                                 [] OTHER -> work[w]]
    /\ UNCHANGED <<role, prisma>>

Exit == phase = "closed" /\ Ended(0)

\* The time is over, or closing failed.
ForceExit == phase \in {"closing", "closed"} /\ Ended(1)

Next ==
    \/ \E w \in Work : Begin(w) \/ Finish(w) \/ Stream(w) \/ Disconnect(w)
    \/ Signal \/ Close \/ Exit \/ ForceExit

Spec == Init /\ [][Next]_vars

\* No job, and no request whose client still waits for the answer, runs without
\* the database or is cut short by an exit that is reported as clean, whatever
\* came in before and during the shutdown; nor is a stream still open then.  The
\* relay's tick may be cut: stopRelay does not wait for it.
CleanExit ==
    role # "relay" =>
        /\ ~prisma => \A w \in Work : work[w] \notin {Running, "stream"}
        /\ phase = "exited" /\ code = 0 => \A w \in Work : work[w] # "cut"

\* "Nothing here disconnects Prisma out from under a request that's still
\* running" (server/src/index.ts:41-43).  Not so: a handler whose client is gone
\* keeps no connection open, so that nothing waits for it.
NoRequestCut ==
    role = "api" /\ ~prisma => \A w \in Work : work[w] \notin {Running, "orphan"}
=============================================================================
