----------------------------- MODULE MCAccounts -----------------------------
(***************************************************************************)
(* Accounts (the server's side of a sign-in) and an instance of            *)
(* BrowserSession (the browser's) for TLC.  The two share no state: `side` *)
(* says, from the first state on, which of them a behaviour is of.         *)
(***************************************************************************)
EXTENDS Accounts

CONSTANTS Tab, None, SessionVersions, MaxFailures

VARIABLES side, version, stored, user, call, failures, ended, signedIn, out

B == INSTANCE BrowserSession WITH MaxVersion <- SessionVersions

browserVars == <<version, stored, user, call, failures, ended, signedIn, out>>
allVars == <<side, vars, browserVars>>

MCInit == side \in {"server", "browser"} /\ Init /\ B!Init

OnServer == side = "server" /\ Next /\ UNCHANGED <<side, browserVars>>
InBrowser == side = "browser" /\ B!Next /\ UNCHANGED <<side, vars>>
MCNext == OnServer \/ InBrowser

\* The fairness of BrowserSession; a behaviour of the server's side owes none.
Fairness == \A t \in Tab : WF_allVars(side = "browser" /\ B!Proceed(t)
                                        /\ UNCHANGED <<side, vars>>)
MCSpec == MCInit /\ [][MCNext]_allVars /\ Fairness

\* The type invariants of both modules.
TypesOK == TypeOK /\ B!TypeOK

\* See BrowserSession: after a logout no tab leaves a usable pair behind.
LogoutRevokes == B!LogoutRevokes

\* See BrowserSession: expiry alone signs nobody out.
NoSpuriousSignOut == B!NoSpuriousSignOut

\* See BrowserSession: every call ends.
CallsEnd == B!CallsEnd
=============================================================================
