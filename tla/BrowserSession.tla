--------------------------- MODULE BrowserSession ---------------------------
(***************************************************************************)
(* One person's sign-in as the web client keeps it: a token pair in        *)
(* localStorage that all tabs share, and the API calls that tabs make with *)
(* it, each of which may refresh the pair once and try again.              *)
(*                                                                         *)
(*   web/src/lib/api.ts, web/src/lib/candidateApi.ts        request        *)
(*   web/src/hooks/useAuth.tsx, useCandidateAuth.tsx        mount, login,  *)
(*                                                          logout         *)
(*   server/src/middleware/requireAuth.ts, requireCandidateAuth.ts         *)
(*   packages/core/src/modules/*auth/service.ts    login, refresh, logout  *)
(*                                                                         *)
(* The recruiter's and the candidate's client are the same program over    *)
(* two storage keys.  A tab makes one call at a time here; several at once *)
(* in one tab are to localStorage and to the server what two tabs are.     *)
(* An access token is good until some Expire; tryRefresh hands out one     *)
(* that is good for the retry that follows it.                             *)
(***************************************************************************)
EXTENDS Naturals, FiniteSets

CONSTANTS
    Tab,          \* browser tabs
    None,         \* no token pair
    MaxVersion,   \* bound: revocations
    MaxFailures   \* bound: calls that the network or the server fails

VARIABLES
    version,   \* the account's tokenVersion
    stored,    \* localStorage: the version of the refresh token, and whether
               \* the access token is still good
    user,      \* tabs whose auth context has a user
    call,      \* the call each tab has in flight
    failures,  \* calls failed so far
    ended,     \* history: a revocation, a sign-out or a failed call happened
    signedIn,  \* history: someone has signed in
    out        \* history: the server handled a logout, and no login since

vars == <<version, stored, user, call, failures, ended, signedIn, out>>

Pair == [version: 0..MaxVersion, good: BOOLEAN]
Kind == {"me", "get", "login", "mistyped", "logout"}

\* resp is the pair the server sent, TRUE for any other 2xx.
Idle == [pc |-> "idle"]
Call ==
    {Idle}
      \union [pc: {"sent", "refresh"}, kind: Kind, held: Pair \union {None},
              retry: BOOLEAN]
      \union [pc: {"answered"}, kind: Kind, held: Pair \union {None},
              retry: BOOLEAN, resp: {"ok", "401", "failed"},
              pair: Pair \union {None}]
      \union [pc: {"refreshed"}, kind: Kind, pair: Pair \union {None}]

TypeOK ==
    /\ version \in 0..MaxVersion
    /\ stored \in Pair \union {None}
    /\ user \subseteq Tab
    /\ call \in [Tab -> Call]
    /\ failures \in 0..MaxFailures
    /\ ended \in BOOLEAN /\ signedIn \in BOOLEAN /\ out \in BOOLEAN

Init ==
    /\ version = 0
    /\ stored = None
    /\ user = {}
    /\ call = [t \in Tab |-> Idle]
    /\ failures = 0
    /\ ended = FALSE /\ signedIn = FALSE /\ out = FALSE

New == [version |-> version, good |-> TRUE]

\* request() reads the tokens and fetches.
Send(t, kind, retry, tokens) ==
    call' = [call EXCEPT ![t] =
               [pc |-> "sent", kind |-> kind, held |-> tokens, retry |-> retry]]

Return(t) == call' = [call EXCEPT ![t] = Idle]

-----------------------------------------------------------------------------
(* The tab *)

\* The bound on revocations leaves room for the logouts under way.
Room ==
    LET under == {t \in Tab : call[t] # Idle /\ call[t].kind = "logout"}
    IN version + Cardinality(under) < MaxVersion

\* A page asks for something, or someone signs in or out.
Start(t, kind) ==
    /\ call[t] = Idle
    /\ kind \in {"get", "logout"} => t \in user
    /\ kind = "logout" => Room
    /\ kind # "me"
    /\ Send(t, kind, FALSE, stored)
    /\ UNCHANGED <<version, stored, user, failures, ended, signedIn, out>>

\* The page loads, afresh or again, and asks who is signed in if tokens are
\* stored.
Mount(t) ==
    /\ call[t] = Idle
    /\ user' = user \ {t}
    /\ IF stored # None THEN Send(t, "me", FALSE, stored) ELSE UNCHANGED call
    /\ UNCHANGED <<version, stored, failures, ended, signedIn, out>>

\* What the caller of request() does with an error: the mount forgets the
\* tokens, and so does a logout, whatever went wrong.
Thrown(t) ==
    /\ stored' = IF call[t].kind \in {"me", "logout"} THEN None ELSE stored
    /\ user' = IF call[t].kind = "logout" THEN user \ {t} ELSE user
    /\ Return(t)

\* A 2xx.
Succeeded(t) ==
    /\ stored' = CASE call[t].kind = "login" -> call[t].pair
                   [] call[t].kind = "logout" -> None
                   [] OTHER -> stored
    /\ user' = CASE call[t].kind \in {"login", "me"} -> user \union {t}
                 [] call[t].kind = "logout" -> user \ {t}
                 [] OTHER -> user
    /\ Return(t)

\* Mutant: the retry, too, may refresh.
AlwaysRefresh(t) == call[t].resp = "401" /\ call[t].held # None
MayRefresh(t) ==
    /\ call[t].resp = "401"
    /\ call[t].held # None
    /\ ~call[t].retry

\* The response to fetch() is in.
Receive(t) ==
    /\ call[t].pc = "answered"
    /\ IF MayRefresh(t)
         THEN /\ call' = [call EXCEPT ![t] =
                   [pc |-> "refresh", kind |-> call[t].kind,
                    held |-> call[t].held, retry |-> FALSE]]
              /\ UNCHANGED <<stored, user>>
         ELSE IF call[t].resp = "ok" THEN Succeeded(t) ELSE Thrown(t)
    /\ signedIn' = (signedIn \/ (call[t].kind = "login" /\ call[t].resp = "ok"))
    /\ UNCHANGED <<version, failures, ended, out>>

\* tryRefresh has ended: store the pair and replay the call, or forget the
\* tokens and load the login page, which leaves no user in the tab.
AfterRefresh(t) ==
    /\ call[t].pc = "refreshed"
    /\ IF call[t].pair # None
         THEN /\ stored' = call[t].pair
              /\ Send(t, call[t].kind, TRUE, call[t].pair)
              /\ UNCHANGED user
         ELSE /\ stored' = None
              /\ user' = user \ {t}
              /\ Return(t)
    /\ UNCHANGED <<version, failures, ended, signedIn, out>>

-----------------------------------------------------------------------------
(* The server *)

Answer(t, resp, pair) ==
    call' = [call EXCEPT ![t] =
               [pc |-> "answered", kind |-> call[t].kind, held |-> call[t].held,
                retry |-> call[t].retry, resp |-> resp, pair |-> pair]]

\* requireAuth: the access token alone decides.
Authorised(t) == call[t].held # None /\ call[t].held.good

ServeRead(t) ==
    /\ call[t].pc = "sent"
    /\ call[t].kind \in {"me", "get"}
    /\ Answer(t, IF Authorised(t) THEN "ok" ELSE "401", None)
    /\ UNCHANGED <<version, stored, user, failures, ended, signedIn, out>>

ServeLogin(t) ==
    /\ call[t].pc = "sent"
    /\ call[t].kind = "login"
    /\ Answer(t, "ok", New)
    /\ out' = FALSE
    /\ UNCHANGED <<version, stored, user, failures, ended, signedIn>>

\* A wrong password is a 401 as well.
ServeMistyped(t) ==
    /\ call[t].pc = "sent"
    /\ call[t].kind = "mistyped"
    /\ Answer(t, "401", None)
    /\ UNCHANGED <<version, stored, user, failures, ended, signedIn, out>>

ServeLogout(t) ==
    /\ call[t].pc = "sent"
    /\ call[t].kind = "logout"
    /\ IF Authorised(t)
         THEN /\ version' = version + 1
              /\ Answer(t, "ok", None)
              /\ ended' = TRUE
              /\ out' = TRUE
         ELSE /\ Answer(t, "401", None)
              /\ UNCHANGED <<version, ended, out>>
    /\ UNCHANGED <<stored, user, failures, signedIn>>

\* Mutants: the version is not compared; every refresh revokes the last.
AnyVersionOK(pair) == TRUE
VersionOK(pair) == pair.version = version
Rotated == IF version < MaxVersion THEN version + 1 ELSE version
VersionAfterRefresh == version

ServeRefresh(t) ==
    /\ call[t].pc = "refresh"
    /\ version' = VersionAfterRefresh
    /\ call' = [call EXCEPT ![t] =
         [pc |-> "refreshed", kind |-> call[t].kind,
          pair |-> IF VersionOK(call[t].held)
                     THEN [version |-> version', good |-> TRUE] ELSE None]]
    /\ UNCHANGED <<stored, user, failures, ended, signedIn, out>>

-----------------------------------------------------------------------------
(* The world *)

\* The call, or the refresh, gets no answer or a 5xx.
Fail(t) ==
    /\ call[t].pc \in {"sent", "refresh"}
    /\ failures < MaxFailures
    /\ failures' = failures + 1
    /\ ended' = TRUE
    /\ IF call[t].pc = "sent"
         THEN Answer(t, "failed", None)
         ELSE call' = [call EXCEPT ![t] =
                         [pc |-> "refreshed", kind |-> call[t].kind,
                          pair |-> None]]
    /\ UNCHANGED <<version, stored, user, signedIn, out>>

\* A logout on another device, or a password reset.
RevokeElsewhere ==
    /\ Room
    /\ version' = version + 1
    /\ ended' = TRUE
    /\ UNCHANGED <<stored, user, call, failures, signedIn, out>>

Stale(pair) == IF pair = None THEN None ELSE [pair EXCEPT !.good = FALSE]

\* Fifteen minutes pass: more than a retry takes, or a fresh pair needs to
\* reach localStorage.
Expire ==
    /\ stored # None /\ stored.good
    /\ \A t \in Tab : /\ call[t].pc # "refreshed"
                      /\ call[t].pc \in {"sent", "answered"} =>
                            ~call[t].retry /\ call[t].kind # "login"
    /\ stored' = Stale(stored)
    /\ call' = [t \in Tab |->
         IF call[t].pc = "sent"
           THEN [call[t] EXCEPT !.held = Stale(@)] ELSE call[t]]
    /\ UNCHANGED <<version, user, failures, ended, signedIn, out>>

-----------------------------------------------------------------------------
Serve(t) == \/ ServeRead(t) \/ ServeLogin(t) \/ ServeMistyped(t)
            \/ ServeLogout(t) \/ ServeRefresh(t)

Proceed(t) == Receive(t) \/ AfterRefresh(t) \/ Serve(t) \/ Fail(t)

Next ==
    \/ \E t \in Tab : \/ Mount(t) \/ \E kind \in Kind : Start(t, kind)
                      \/ Receive(t) \/ AfterRefresh(t) \/ Serve(t) \/ Fail(t)
    \/ RevokeElsewhere
    \/ Expire

Spec == Init /\ [][Next]_vars

\* A call in flight is answered, or fails, and the tab takes what it gets.
Fairness == \A t \in Tab : WF_vars(Proceed(t))
FairSpec == Spec /\ Fairness

-----------------------------------------------------------------------------
(* Properties *)

\* Once the server has handled a logout, no tab leaves a pair in localStorage
\* that can be refreshed, until someone signs in again: not a tab whose refresh
\* overlapped the logout, nor one whose login did.
LogoutRevokes == out => stored = None \/ stored.version < version

\* As long as nobody signs out, no session is revoked and no call fails, the
\* expiry of access tokens signs nobody out, whatever several tabs that refresh
\* the same pair at once, or mistype a password, do to it.
NoSpuriousSignOut == signedIn /\ ~ended => stored # None

\* Every call ends: one refresh and one retry at most, even when the answer is
\* 401 again.
CallsEnd == \A t \in Tab : (call[t] # Idle) ~> (call[t] = Idle)
=============================================================================
