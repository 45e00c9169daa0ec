--------------------------- MODULE AccountsProofs ---------------------------
(***************************************************************************)
(* Whoever holds a refresh token that still works knew the account's       *)
(* present password, for any number of requests in flight, passwords and   *)
(* reset tokens (the server's side, Accounts).                             *)
(*                                                                         *)
(* And for any number of tabs that share one token pair (the browser's     *)
(* side, BrowserSession): a logout leaves no pair behind that can be       *)
(* refreshed, and as long as nothing is revoked and no call fails nobody   *)
(* is signed out who did not ask for it.                                   *)
(***************************************************************************)
EXTENDS MCAccounts, FiniteSetTheorems, TLAPS

\* What the constants stand for: the mark of an account that does not exist is
\* no password, and the bound is a number.
ConstantsOK == NoPassword \notin Password /\ MaxVersion \in Nat

-----------------------------------------------------------------------------
(* The inductive invariant *)

\* Before the account exists nothing refers to it.
Absent ==
    ~Exists => /\ issued = {}
               /\ \A t \in ResetToken : row[t] = "absent"

\* No token is ahead of the account.
NotAhead == \A s \in issued : s.version <= account.version

\* A login that has read the row may be late, but then it holds an old version:
\* the password and the version of the row change together.
ReadsTogether ==
    \A q \in Request : At(q, "compare") =>
        /\ Exists
        /\ req[q].seen.version <= account.version
        /\ req[q].seen.version = account.version => req[q].seen.pw = account.pw

IInv == /\ TypeOK
        /\ Absent
        /\ NotAhead
        /\ ReadsTogether
        /\ LiveSessionsKnowPassword

-----------------------------------------------------------------------------
(* What a request holds at each of its steps. *)

LEMMA Holds ==
    ASSUME TypeOK, NEW q \in Request
    PROVE  /\ At(q, "register") \/ At(q, "invite") => req[q].pw \in Password
           /\ At(q, "compare") => /\ req[q].pw \in Password
                                  /\ req[q].seen.pw \in Password
                                  /\ req[q].seen.version \in 0..MaxVersion
           /\ At(q, "mail") => req[q].token \in ResetToken
           /\ At(q, "reset") => req[q].token \in ResetToken /\ req[q].pw \in Password
<1>1. req[q] \in {Idle} \union Waiting
  BY DEF TypeOK
<1>2. QED
  BY <1>1 DEF Waiting, Idle, At

\* The end of a request leaves the others as they are.
LEMMA EndKeeps ==
    ASSUME TypeOK, NEW q \in Request, End(q)
    PROVE  /\ req' \in [Request -> {Idle} \union Waiting]
           /\ \A r \in Request : At(r, "compare")' => r # q /\ req'[r] = req[r]
  BY DEF TypeOK, End, At, Idle

\* So does the beginning of one that compares no password.
LEMMA BeginKeeps ==
    ASSUME TypeOK, NEW q \in Request, NEW w \in Waiting, Begin(q, w)
    PROVE  /\ req' \in [Request -> {Idle} \union Waiting]
           /\ \A r \in Request : r # q => req'[r] = req[r]
           /\ req'[q] = w
  BY DEF TypeOK, Begin

-----------------------------------------------------------------------------
LEMMA InitIInv == ASSUME ConstantsOK, Init PROVE IInv
  BY DEF ConstantsOK, Init, IInv, TypeOK, Absent, NotAhead, ReadsTogether,
         LiveSessionsKnowPassword, Exists, At, Idle, RowState, Session

LEMMA NextIInv == ASSUME ConstantsOK, IInv, [Next]_vars PROVE IInv'
<1> USE DEF ConstantsOK
<1>1. ASSUME NEW q \in Request, NEW pw \in Password, NEW kind \in {"register", "invite"},
             RegisterCheck(q, kind, pw)
      PROVE  IInv'
  <2>1. [pc |-> kind, pw |-> pw] \in Waiting
    BY DEF Waiting
  <2>2. /\ req' \in [Request -> {Idle} \union Waiting]
        /\ \A r \in Request : r # q => req'[r] = req[r]
        /\ req'[q] = [pc |-> kind, pw |-> pw]
    BY <1>1, <2>1, BeginKeeps DEF RegisterCheck, IInv
  <2>3. TypeOK'
    BY <1>1, <2>2 DEF RegisterCheck, IInv, TypeOK
  <2>4. ReadsTogether'
    BY <1>1, <2>2 DEF RegisterCheck, IInv, ReadsTogether, At, Exists
  <2>5. QED
    BY <1>1, <2>3, <2>4 DEF RegisterCheck, IInv, Absent, NotAhead, Exists, LiveSessionsKnowPassword
<1>2. ASSUME NEW q \in Request, NEW pw \in Password, LoginRead(q, pw)
      PROVE  IInv'
  <2>1. account \in [pw: Password, version: 0..MaxVersion]
    BY <1>2 DEF LoginRead, Exists, IInv, TypeOK
  <2>2. [pc |-> "compare", pw |-> pw, seen |-> account] \in Waiting
    BY <2>1 DEF Waiting
  <2>3. /\ req' \in [Request -> {Idle} \union Waiting]
        /\ \A r \in Request : r # q => req'[r] = req[r]
        /\ req'[q] = [pc |-> "compare", pw |-> pw, seen |-> account]
    BY <1>2, <2>2, BeginKeeps DEF LoginRead, IInv
  <2>4. TypeOK'
    BY <1>2, <2>3 DEF LoginRead, IInv, TypeOK
  <2>5. ReadsTogether'
    BY <1>2, <2>1, <2>3 DEF LoginRead, IInv, ReadsTogether, At, Exists
  <2>6. QED
    BY <1>2, <2>4, <2>5 DEF LoginRead, IInv, Absent, NotAhead, Exists, LiveSessionsKnowPassword
<1>3. ASSUME NEW q \in Request, NEW pw \in Password, NEW t \in ResetToken, ResetCheck(q, t, pw)
      PROVE  IInv'
  <2>1. [pc |-> "reset", token |-> t, pw |-> pw] \in Waiting
    BY DEF Waiting
  <2>2. /\ req' \in [Request -> {Idle} \union Waiting]
        /\ \A r \in Request : r # q => req'[r] = req[r]
        /\ req'[q] = [pc |-> "reset", token |-> t, pw |-> pw]
    BY <1>3, <2>1, BeginKeeps DEF ResetCheck, IInv
  <2>3. TypeOK'
    BY <1>3, <2>2 DEF ResetCheck, IInv, TypeOK
  <2>4. ReadsTogether'
    BY <1>3, <2>2 DEF ResetCheck, IInv, ReadsTogether, At, Exists
  <2>5. QED
    BY <1>3, <2>3, <2>4 DEF ResetCheck, IInv, Absent, NotAhead, Exists, LiveSessionsKnowPassword
<1>4. ASSUME NEW q \in Request, Create(q) PROVE IInv'
  <2>1. /\ req[q].pw \in Password
        /\ ~Exists
        /\ account' = [pw |-> req[q].pw, version |-> 0]
        /\ \A s \in issued' : s = [version |-> 0, pw |-> req[q].pw]
        /\ issued = {}
    BY <1>4, Holds DEF Create, EmailFree, IInv, Absent, Issue
  <2>2. /\ req' \in [Request -> {Idle} \union Waiting]
        /\ \A r \in Request : At(r, "compare")' => r # q /\ req'[r] = req[r]
    BY <1>4, EndKeeps DEF Create, IInv
  <2>3. TypeOK'
    BY <1>4, <2>1, <2>2 DEF Create, IInv, TypeOK, Session, Issue
  <2>4. Exists'
    BY <2>1 DEF Exists
  <2>5. ReadsTogether'
    BY <2>1, <2>2 DEF IInv, ReadsTogether, At
  <2>6. NotAhead' /\ LiveSessionsKnowPassword'
    BY <2>1 DEF NotAhead, LiveSessionsKnowPassword
  <2>7. QED
    BY <2>3, <2>4, <2>5, <2>6 DEF IInv, Absent
<1>5. ASSUME NEW q \in Request, CreateLost(q) \/ ResetRollback(q) \/ Abandon(q) PROVE IInv'
  <2>1. End(q) /\ UNCHANGED <<account, issued, row, expired, mailed>>
    BY <1>5 DEF CreateLost, ResetRollback, Abandon
  <2>2. /\ req' \in [Request -> {Idle} \union Waiting]
        /\ \A r \in Request : At(r, "compare")' => r # q /\ req'[r] = req[r]
    BY <2>1, EndKeeps DEF IInv
  <2>3. ReadsTogether'
    BY <2>1, <2>2 DEF IInv, ReadsTogether, At, Exists
  <2>4. QED
    BY <2>1, <2>2, <2>3 DEF IInv, TypeOK, Absent, NotAhead, Exists, LiveSessionsKnowPassword
<1>6. ASSUME NEW q \in Request, LoginAnswer(q) PROVE IInv'
  <2>1. /\ Exists
        /\ req[q].seen.version \in 0..MaxVersion
        /\ req[q].pw \in Password
        /\ req[q].seen.version <= account.version
        /\ req[q].seen.version = account.version => req[q].seen.pw = account.pw
    BY <1>6, Holds DEF LoginAnswer, IInv, ReadsTogether
  <2>2. \A s \in issued' : \/ s \in issued
                           \/ /\ req[q].pw = req[q].seen.pw
                              /\ s = [version |-> req[q].seen.version, pw |-> req[q].pw]
    BY <1>6 DEF LoginAnswer, Issue, VersionSigned
  <2>3. /\ req' \in [Request -> {Idle} \union Waiting]
        /\ \A r \in Request : At(r, "compare")' => r # q /\ req'[r] = req[r]
    BY <1>6, EndKeeps DEF LoginAnswer, IInv
  <2>4. UNCHANGED <<account, row, expired, mailed>>
    BY <1>6 DEF LoginAnswer
  <2>5. TypeOK'
    BY <2>1, <2>2, <2>3, <2>4 DEF IInv, TypeOK, Session
  <2>6. NotAhead' /\ LiveSessionsKnowPassword'
    BY <2>1, <2>2, <2>4 DEF IInv, NotAhead, LiveSessionsKnowPassword
  <2>7. ReadsTogether' /\ Absent'
    BY <2>1, <2>3, <2>4 DEF IInv, ReadsTogether, Absent, At, Exists
  <2>8. QED
    BY <2>5, <2>6, <2>7 DEF IInv
<1>7. ASSUME NEW q \in Request, ForgotMail(q) PROVE IInv'
  <2>1. req[q].token \in ResetToken
    BY <1>7, Holds DEF ForgotMail, IInv
  <2>2. /\ req' \in [Request -> {Idle} \union Waiting]
        /\ \A r \in Request : At(r, "compare")' => r # q /\ req'[r] = req[r]
    BY <1>7, EndKeeps DEF ForgotMail, IInv
  <2>3. ReadsTogether'
    BY <1>7, <2>2 DEF ForgotMail, IInv, ReadsTogether, At, Exists
  <2>4. QED
    BY <1>7, <2>1, <2>2, <2>3 DEF ForgotMail, IInv, TypeOK, Absent, NotAhead, Exists,
                                  LiveSessionsKnowPassword
<1>8. ASSUME NEW q \in Request, ResetCommit(q) PROVE IInv'
  <2>1. req[q].token \in ResetToken /\ req[q].pw \in Password
    BY <1>8, Holds DEF ResetCommit, IInv
  <2>2. Exists
    BY <1>8, <2>1 DEF ResetCommit, IInv, Absent
  <2>3. account.version \in Nat
    BY DEF IInv, TypeOK
  <2>4. account' = [pw |-> req[q].pw, version |-> account.version + 1]
    BY <1>8 DEF ResetCommit, NewPassword, IInv, TypeOK
  <2>5. /\ req' \in [Request -> {Idle} \union Waiting]
        /\ \A r \in Request : At(r, "compare")' => r # q /\ req'[r] = req[r]
    BY <1>8, EndKeeps DEF ResetCommit, IInv
  <2>6. TypeOK'
    BY <1>8, <2>1, <2>3, <2>4, <2>5 DEF ResetCommit, IInv, TypeOK, RowState
  <2>7. Exists'
    BY <2>1, <2>4 DEF Exists
  <2>8. \A s \in issued : s.version \in Nat /\ s.version < account'.version
    BY <2>3, <2>4 DEF IInv, TypeOK, Session, NotAhead
  <2>9. \A r \in Request : At(r, "compare") => /\ req[r].seen.version \in Nat
                                              /\ req[r].seen.version < account'.version
    BY <2>3, <2>4, Holds DEF IInv, ReadsTogether
  <2>10. ReadsTogether'
    BY <2>3, <2>4, <2>5, <2>7, <2>9 DEF ReadsTogether, At
  <2>11. NotAhead' /\ LiveSessionsKnowPassword'
    BY <1>8, <2>3, <2>4, <2>8 DEF ResetCommit, NotAhead, LiveSessionsKnowPassword
  <2>12. QED
    BY <2>6, <2>7, <2>10, <2>11 DEF IInv, Absent
<1>9. ASSUME NEW q \in Request, NEW t \in ResetToken, ForgotRow(q, t) PROVE IInv'
  <2>1. [pc |-> "mail", token |-> t] \in Waiting
    BY DEF Waiting
  <2>2. /\ req' \in [Request -> {Idle} \union Waiting]
        /\ \A r \in Request : r # q => req'[r] = req[r]
        /\ req'[q] = [pc |-> "mail", token |-> t]
    BY <1>9, <2>1, BeginKeeps DEF ForgotRow, IInv
  <2>3. TypeOK'
    BY <1>9, <2>2 DEF ForgotRow, IInv, TypeOK, RowState
  <2>4. ReadsTogether'
    BY <1>9, <2>2 DEF ForgotRow, IInv, ReadsTogether, At, Exists
  <2>5. QED
    BY <1>9, <2>3, <2>4 DEF ForgotRow, IInv, Absent, NotAhead, Exists, LiveSessionsKnowPassword
<1>10. ASSUME NEW s \in issued, Refresh(s) PROVE IInv'
  <2>1. s \in Session /\ account.version \in 0..MaxVersion
    BY DEF IInv, TypeOK
  <2>2. [version |-> account.version, pw |-> s.pw] = s
    BY <1>10, <2>1 DEF Refresh, SameVersion, Session
  <2>3. UNCHANGED vars
    BY <1>10, <2>2 DEF Refresh, Issue, vars
  <2>4. QED
    BY <2>3 DEF vars, IInv, TypeOK, Absent, NotAhead, ReadsTogether, LiveSessionsKnowPassword,
                Exists, At
<1>11. ASSUME Logout PROVE IInv'
  <2>1. Exists
    BY <1>11 DEF Logout, IInv, Absent
  <2>2. account.version \in Nat
    BY DEF IInv, TypeOK
  <2>3. account' = [pw |-> account.pw, version |-> account.version + 1]
    BY <1>11 DEF Logout, IInv, TypeOK
  <2>4. \A s \in issued : s.version \in Nat /\ s.version < account'.version
    BY <2>2, <2>3 DEF IInv, TypeOK, Session, NotAhead
  <2>5. \A r \in Request : At(r, "compare") => /\ req[r].seen.version \in Nat
                                              /\ req[r].seen.version < account'.version
    BY <2>2, <2>3, Holds DEF IInv, ReadsTogether
  <2>6. TypeOK'
    BY <1>11, <2>2, <2>3 DEF Logout, IInv, TypeOK
  <2>7. ReadsTogether' /\ Absent'
    BY <1>11, <2>1, <2>2, <2>3, <2>5 DEF Logout, ReadsTogether, Absent, At, Exists
  <2>8. NotAhead' /\ LiveSessionsKnowPassword'
    BY <1>11, <2>2, <2>3, <2>4 DEF Logout, NotAhead, LiveSessionsKnowPassword
  <2>9. QED
    BY <2>6, <2>7, <2>8 DEF IInv
<1>12. ASSUME NEW t \in ResetToken, Expire(t) PROVE IInv'
  BY <1>12 DEF Expire, IInv, TypeOK, Absent, NotAhead, ReadsTogether, LiveSessionsKnowPassword,
               Exists, At
<1>13. ASSUME Purge PROVE IInv'
  <2>1. Exists
    BY <1>13 DEF Purge, IInv, Absent, TypeOK
  <2>2. TypeOK'
    BY <1>13 DEF Purge, IInv, TypeOK, RowState
  <2>3. QED
    BY <1>13, <2>1, <2>2 DEF Purge, IInv, Absent, NotAhead, ReadsTogether,
                             LiveSessionsKnowPassword, Exists, At
<1>14. CASE UNCHANGED vars
  BY <1>14 DEF vars, IInv, TypeOK, Absent, NotAhead, ReadsTogether, LiveSessionsKnowPassword,
               Exists, At
<1>15. QED
  BY <1>1, <1>2, <1>3, <1>4, <1>5, <1>6, <1>7, <1>8, <1>9, <1>10, <1>11, <1>12, <1>13, <1>14
     DEF Next

-----------------------------------------------------------------------------
LEMMA Invariant == ASSUME ConstantsOK PROVE Spec => []IInv
  BY InitIInv, NextIInv, PTL DEF Spec

\* The type invariant: requests hold what their step needs, and no logout or
\* reset takes the version past its bound.
THEOREM TypeCorrect == ASSUME ConstantsOK PROVE Spec => []TypeOK
<1>1. IInv => TypeOK
  BY DEF IInv
<1>2. QED
  BY <1>1, Invariant, PTL

\* login, refresh, logout and resetPassword (auth and candidateAuth services):
\* a refresh token of the account's present version belongs to a session that
\* began with its present password.
THEOREM SessionsKnowPassword == ASSUME ConstantsOK PROVE Spec => []LiveSessionsKnowPassword
<1>1. IInv => LiveSessionsKnowPassword
  BY DEF IInv
<1>2. QED
  BY <1>1, Invariant, PTL

-----------------------------------------------------------------------------
(* The browser's side of a sign-in *)

\* What the constants of BrowserSession stand for: bounds are numbers, there
\* are finitely many tabs, and the missing pair is no pair.
SessionConstantsOK ==
    /\ SessionVersions \in Nat /\ MaxFailures \in Nat
    /\ IsFiniteSet(Tab)
    /\ None \notin [version: Nat, good: BOOLEAN]

Pair == B!Pair
PairOrNone == B!Pair \union {None}

\* The logouts that the server may yet handle; each has its place below the
\* bound on versions.
Pending(c) == /\ c.pc # "idle" /\ c.kind = "logout"
              /\ ~(c.pc = "answered" /\ c.resp = "ok")
Unserved == {t \in Tab : Pending(call[t])}
RoomLeft == version + Cardinality(Unserved) <= SessionVersions

\* The pair that a call was made with, and the one that its answer brings.
Held(c) == IF c.pc \in {"sent", "refresh", "answered"} THEN c.held ELSE None
Got(c) == IF c.pc \in {"answered", "refreshed"} THEN c.pair ELSE None
InPlay == ({stored} \union {Held(call[t]) : t \in Tab}
                    \union {Got(call[t]) : t \in Tab}) \ {None}

\* No pair is ahead of the account, and after a logout every pair is behind it:
\* the stored one, and those that calls will store or refresh with.
PairsNotAhead == \A p \in InPlay : p.version <= version
PairsRevoked == out => \A p \in InPlay : p.version < version

\* A refresh has a pair to refresh; what comes of it is good when the replay is
\* made with it, so that the replay of an authorised call is not refused; and
\* no mount asks who is signed in without a pair.
CallOK(c) ==
    /\ c.pc = "refresh" => c.held # None
    /\ c.pc = "refreshed" => c.pair = None \/ c.pair.good
    /\ c.pc = "sent" /\ c.retry => c.held # None /\ c.held.good
    /\ c.pc = "answered" /\ c.retry /\ c.kind \in {"me", "get", "logout"} =>
         c.resp # "401"
    /\ c.kind = "me" => Held(c) # None \/ c.pc \in {"idle", "refreshed"}
    /\ c.pc = "answered" /\ c.resp = "ok" /\ c.kind = "login" => c.pair # None

\* As long as nothing was revoked, signed out or failed, every refresh brings a
\* pair and no logout has been handled.
Undisturbed(c) ==
    /\ c.kind = "logout" => Held(c) # None \/ c.pc \in {"idle", "refreshed"}
    /\ c.pc = "answered" => c.resp # "failed"
    /\ c.pc = "answered" /\ c.kind = "logout" => c.resp # "ok"
    /\ c.pc = "refreshed" => c.pair # None

\* Before the first sign-in there is nothing to refresh.
Unused(c) == c.pc \notin {"refresh", "refreshed"} /\ Held(c) = None

FirstVersion ==
    ~ended => /\ version = 0
              /\ signedIn <=> stored # None
              /\ \A t \in Tab : Undisturbed(call[t])
              /\ ~signedIn => user = {} /\ \A t \in Tab : Unused(call[t])

SessionInv == /\ B!TypeOK /\ RoomLeft
              /\ PairsNotAhead /\ PairsRevoked
              /\ \A t \in Tab : CallOK(call[t])
              /\ FirstVersion

LEMMA SessionInit == ASSUME SessionConstantsOK, B!Init PROVE SessionInv
<1>1. \A t \in Tab : call[t] = B!Idle /\ call[t].pc = "idle"
  BY DEF B!Init, B!Idle
<1>2. B!TypeOK
  <2>1. call \in [Tab -> B!Call]
    BY DEF B!Init, B!Call
  <2>2. version \in 0..SessionVersions /\ failures \in 0..MaxFailures
    BY DEF SessionConstantsOK, B!Init
  <2>3. QED BY <2>1, <2>2 DEF B!Init, B!TypeOK
<1>3. RoomLeft
  <2>1. Unserved = {}
    BY <1>1 DEF Unserved, Pending
  <2>2. QED
    BY <2>1, FS_EmptySet DEF RoomLeft, SessionConstantsOK, B!Init
<1>4. InPlay = {}
  BY <1>1 DEF InPlay, Held, Got, B!Init
<1>5. \A t \in Tab : CallOK(call[t])
  BY <1>1 DEF CallOK
<1>6. FirstVersion
  BY <1>1 DEF FirstVersion, Undisturbed, Unused, Held, B!Init
<1>7. QED
  BY <1>2, <1>3, <1>4, <1>5, <1>6 DEF SessionInv, PairsNotAhead, PairsRevoked

\* What a call holds at each of its steps.
LEMMA CallTypes ==
    ASSUME B!TypeOK, NEW t \in Tab
    PROVE  /\ call[t].pc \in {"idle", "sent", "refresh", "answered", "refreshed"}
           /\ call[t].pc = "idle" <=> call[t] = B!Idle
           /\ call[t].pc # "idle" => call[t].kind \in B!Kind
           /\ call[t].pc \in {"sent", "refresh", "answered"} =>
                call[t].held \in PairOrNone /\ call[t].retry \in BOOLEAN
           /\ call[t].pc = "answered" => call[t].resp \in {"ok", "401", "failed"}
           /\ call[t].pc \in {"answered", "refreshed"} => call[t].pair \in PairOrNone
<1>1. call[t] \in B!Call
  BY DEF B!TypeOK
<1>2. QED
  BY <1>1 DEF B!Call, B!Idle, PairOrNone

LEMMA CallsOf ==
    /\ B!Idle \in B!Call
    /\ \A pc \in {"sent", "refresh"}, kind \in B!Kind, held \in PairOrNone,
          retry \in BOOLEAN :
         [pc |-> pc, kind |-> kind, held |-> held, retry |-> retry] \in B!Call
    /\ \A kind \in B!Kind, held \in PairOrNone, retry \in BOOLEAN,
          resp \in {"ok", "401", "failed"}, pair \in PairOrNone :
         [pc |-> "answered", kind |-> kind, held |-> held, retry |-> retry,
          resp |-> resp, pair |-> pair] \in B!Call
    /\ \A kind \in B!Kind, pair \in PairOrNone :
         [pc |-> "refreshed", kind |-> kind, pair |-> pair] \in B!Call
  BY DEF B!Call, PairOrNone

LEMMA PairTypes ==
    ASSUME NEW p \in Pair
    PROVE  p.version \in 0..SessionVersions /\ p.good \in BOOLEAN
  BY DEF Pair, B!Pair

LEMMA UnservedFinite ==
    ASSUME SessionConstantsOK
    PROVE  IsFiniteSet(Unserved) /\ Cardinality(Unserved) \in Nat
<1>1. IsFiniteSet(Unserved)
  BY FS_Subset DEF SessionConstantsOK, Unserved
<1>2. QED BY <1>1, FS_CardinalityType

\* A step that starts no logout leaves the room that there was.
LEMMA RoomKept ==
    ASSUME SessionConstantsOK, B!TypeOK, RoomLeft, version' = version,
           Unserved' \subseteq Unserved
    PROVE  RoomLeft'
<1>1. Cardinality(Unserved') <= Cardinality(Unserved) /\ Cardinality(Unserved') \in Nat
  BY UnservedFinite, FS_Subset, FS_CardinalityType
<1>2. version \in Nat /\ Cardinality(Unserved) \in Nat /\ SessionVersions \in Nat
  BY UnservedFinite DEF B!TypeOK, SessionConstantsOK
<1>3. QED BY <1>1, <1>2 DEF RoomLeft

LEMMA InPlayTypes ==
    ASSUME SessionInv
    PROVE  \A p \in InPlay : p \in Pair /\ p.version \in Nat
<1>1. ASSUME NEW u \in Tab
      PROVE  Held(call[u]) \in PairOrNone /\ Got(call[u]) \in PairOrNone
  BY CallTypes DEF SessionInv, Held, Got, PairOrNone
<1>2. stored \in PairOrNone
  BY DEF SessionInv, B!TypeOK, PairOrNone
<1>3. \A p \in InPlay : p \in Pair
  BY <1>1, <1>2 DEF InPlay, PairOrNone, Pair
<1>4. QED BY <1>3, PairTypes

\* A step of one tab and of the server for it.  What is asked of its new state
\* is what is asked of the invariant; the other tabs' calls stay as they are.
LEMMA TabStep ==
    ASSUME SessionConstantsOK, SessionInv, NEW t \in Tab, NEW c \in B!Call,
           call' = [call EXCEPT ![t] = c],
           version' \in Nat, version <= version', RoomLeft',
           stored' \in PairOrNone, user' \subseteq Tab, failures' \in 0..MaxFailures,
           ended' \in BOOLEAN, signedIn' \in BOOLEAN, out' \in BOOLEAN,
           \A p \in {stored', Held(c), Got(c)} \ {None} :
             p.version <= version' /\ (out' => p.version < version'),
           out' => out \/ version < version',
           CallOK(c),
           ~ended' => /\ ~ended /\ version' = version
                      /\ signedIn' <=> stored' # None
                      /\ signedIn => signedIn'
                      /\ Undisturbed(c)
                      /\ ~signedIn' => user' = {} /\ Unused(c)
    PROVE  SessionInv'
<1>1. /\ call' \in [Tab -> B!Call] /\ call'[t] = c
      /\ \A u \in Tab \ {t} : call'[u] = call[u]
  BY DEF SessionInv, B!TypeOK
<1>2. version' \in 0..SessionVersions
  <2>1. IsFiniteSet(Unserved')
    BY FS_Subset DEF SessionConstantsOK, Unserved
  <2>2. Cardinality(Unserved') \in Nat
    BY <2>1, FS_CardinalityType
  <2>3. QED BY <2>2 DEF RoomLeft, SessionConstantsOK
<1>3. B!TypeOK'
  BY <1>1, <1>2 DEF B!TypeOK, PairOrNone
<1>4. \A p \in InPlay' : p \in InPlay \/ p \in {stored', Held(c), Got(c)} \ {None}
  BY <1>1 DEF InPlay
<1>5. \A p \in InPlay : p.version \in Nat
  BY InPlayTypes
<1>6. version \in Nat
  BY DEF SessionInv, B!TypeOK
<1>7. PairsNotAhead'
  BY <1>4, <1>5, <1>6 DEF PairsNotAhead, SessionInv
<1>8. PairsRevoked'
  BY <1>4, <1>5, <1>6 DEF PairsRevoked, PairsNotAhead, SessionInv
<1>9. \A u \in Tab : CallOK(call'[u])
  BY <1>1 DEF SessionInv
<1>10. FirstVersion'
  BY <1>1 DEF SessionInv, FirstVersion
<1>11. QED
  BY <1>3, <1>7, <1>8, <1>9, <1>10 DEF SessionInv

\* BrowserSession takes Cardinality from the same module.
LEMMA SameCardinality == \A S : B!Cardinality(S) = Cardinality(S)
  BY DEF B!Cardinality, Cardinality

\* A pair that is in play was issued by the server, and not for a later version.
LEMMA PairFacts ==
    ASSUME SessionInv, NEW t \in Tab,
           NEW p \in {stored, Held(call[t]), Got(call[t])}, p # None
    PROVE  /\ p \in Pair /\ p.version \in Nat /\ version \in Nat
           /\ p.version <= version
           /\ out => p.version < version
<1>1. p \in InPlay
  BY DEF InPlay
<1>2. p \in PairOrNone
  BY CallTypes DEF SessionInv, B!TypeOK, Held, Got, PairOrNone
<1>3. p \in Pair
  BY <1>2 DEF PairOrNone, Pair
<1>4. QED
  BY <1>1, <1>3, PairTypes DEF SessionInv, PairsNotAhead, PairsRevoked, B!TypeOK

LEMMA SessionTypes ==
    ASSUME SessionInv
    PROVE  /\ version \in Nat /\ stored \in PairOrNone /\ user \subseteq Tab
           /\ call \in [Tab -> B!Call] /\ failures \in 0..MaxFailures
           /\ ended \in BOOLEAN /\ signedIn \in BOOLEAN /\ out \in BOOLEAN
           /\ ~ended => version = 0 /\ (signedIn <=> stored # None)
           /\ ~ended /\ ~signedIn => user = {}
  BY DEF SessionInv, B!TypeOK, PairOrNone, FirstVersion

\* What SessionInv says of the tab that takes the step.
LEMMA TabFacts ==
    ASSUME SessionInv, NEW t \in Tab
    PROVE  /\ CallOK(call[t])
           /\ ~ended => Undisturbed(call[t])
           /\ ~ended /\ ~signedIn => Unused(call[t])
  BY DEF SessionInv, FirstVersion

\* A step that changes no version and starts no logout.
LEMMA SameRoom ==
    ASSUME SessionConstantsOK, SessionInv, NEW t \in Tab, NEW c,
           call' = [call EXCEPT ![t] = c], version' = version,
           Pending(c) => Pending(call[t])
    PROVE  RoomLeft'
<1>1. Unserved' \subseteq Unserved
  BY DEF Unserved, SessionInv, B!TypeOK
<1>2. QED BY <1>1, RoomKept DEF SessionInv

\* A step that leaves the account as it is and puts no pair in play.
LEMMA QuietTabStep ==
    ASSUME SessionConstantsOK, SessionInv, NEW t \in Tab, NEW c \in B!Call,
           call' = [call EXCEPT ![t] = c],
           Pending(c) => Pending(call[t]),
           stored' \in {stored, Held(call[t]), Got(call[t]), None},
           Held(c) \in {stored, Held(call[t]), Got(call[t]), None},
           Got(c) \in {stored, Held(call[t]), Got(call[t]), None},
           user' \subseteq Tab, signedIn' \in BOOLEAN,
           UNCHANGED <<version, failures, ended, out>>,
           CallOK(c),
           ~ended => /\ signedIn' <=> stored' # None
                     /\ signedIn => signedIn'
                     /\ Undisturbed(c)
                     /\ ~signedIn' => user' = {} /\ Unused(c)
    PROVE  SessionInv'
<1>1. RoomLeft'
  BY SameRoom
<1>2. \A p \in {stored', Held(c), Got(c)} \ {None} :
        p.version <= version' /\ (out' => p.version < version')
  BY PairFacts
<1>3. stored' \in PairOrNone
  BY SessionTypes, PairFacts DEF PairOrNone, Pair
<1>4. version' \in Nat /\ version <= version'
  BY SessionTypes
<1>5. QED
  BY <1>1, <1>2, <1>3, <1>4, SessionTypes, TabStep

LEMMA StartStep ==
    ASSUME SessionConstantsOK, SessionInv, NEW t \in Tab, NEW kind \in B!Kind,
           B!Start(t, kind)
    PROVE  SessionInv'
<1> DEFINE c == [pc |-> "sent", kind |-> kind, held |-> stored, retry |-> FALSE]
<1>1. c \in B!Call
  BY SessionTypes, CallsOf
<1>2. /\ call[t].pc = "idle" /\ call[t] = B!Idle
      /\ call' = [call EXCEPT ![t] = c]
      /\ kind # "me"
      /\ kind = "logout" => t \in user /\ B!Room
      /\ UNCHANGED <<version, stored, user, failures, ended, signedIn, out>>
  BY DEF B!Start, B!Send, B!Idle
<1>3. CallOK(c)
  BY <1>2 DEF CallOK
<1>4. Held(c) = stored /\ Got(c) = None
  BY DEF Held, Got
<1>5. ~ended => Undisturbed(c)
  BY <1>2, <1>4, SessionTypes DEF Undisturbed
<1>6. ~ended /\ ~signedIn => Unused(c)
  BY <1>4, SessionTypes DEF Unused
<1>7. RoomLeft'
  <2>1. CASE kind # "logout"
    BY <1>2, <2>1, SameRoom DEF Pending
  <2>2. CASE kind = "logout"
    <3> DEFINE under == {u \in Tab : call[u] # B!Idle /\ call[u].kind = "logout"}
    <3>1. version + Cardinality(under) < SessionVersions
      BY <1>2, <2>2, SameCardinality DEF B!Room
    <3>2. IsFiniteSet(under) /\ t \notin under
      BY <1>2, FS_Subset DEF SessionConstantsOK
    <3>3. Unserved' \subseteq under \union {t}
      BY <1>2, CallTypes DEF Unserved, Pending, SessionInv, B!TypeOK
    <3>4. /\ IsFiniteSet(under \union {t})
          /\ Cardinality(under \union {t}) = Cardinality(under) + 1
          /\ Cardinality(under) \in Nat
      BY <3>2, FS_AddElement, FS_CardinalityType
    <3>5. /\ Cardinality(Unserved') <= Cardinality(under) + 1
          /\ Cardinality(Unserved') \in Nat
      BY <3>3, <3>4, FS_Subset, FS_CardinalityType
    <3>6. version' = version /\ version \in Nat /\ SessionVersions \in Nat
      BY <1>2, SessionTypes DEF SessionConstantsOK
    <3>7. QED
      BY <3>1, <3>4, <3>5, <3>6 DEF RoomLeft
  <2>3. QED BY <2>1, <2>2
<1>8. \A p \in {stored', Held(c), Got(c)} \ {None} :
        p.version <= version' /\ (out' => p.version < version')
  BY <1>2, <1>4, PairFacts
<1>9. /\ version' = version /\ version' \in Nat /\ version <= version'
      /\ stored' = stored /\ user' = user
  BY <1>2, SessionTypes
<1>10. ~ended' => /\ ~ended
                  /\ signedIn' <=> stored' # None
                  /\ signedIn => signedIn'
                  /\ ~signedIn' => user' = {}
  BY <1>2, <1>9, SessionTypes
<1>11. QED
  <2> HIDE DEF c
  <2>1. QED
    BY <1>1, <1>2, <1>3, <1>5, <1>6, <1>7, <1>8, <1>9, <1>10, SessionTypes, TabStep

LEMMA MountStep ==
    ASSUME SessionConstantsOK, SessionInv, NEW t \in Tab, B!Mount(t)
    PROVE  SessionInv'
<1> DEFINE c == IF stored # None
                  THEN [pc |-> "sent", kind |-> "me", held |-> stored, retry |-> FALSE]
                  ELSE B!Idle
<1>1. c \in B!Call
  BY SessionTypes, CallsOf DEF B!Kind
<1>2. /\ call' = [call EXCEPT ![t] = c]
      /\ user' = user \ {t}
      /\ UNCHANGED <<version, stored, failures, ended, signedIn, out>>
  BY SessionTypes DEF B!Mount, B!Send
<1>3. Held(c) = stored /\ Got(c) = None
  BY DEF Held, Got, B!Idle
<1>4. CallOK(c) /\ ~Pending(c) /\ Undisturbed(c)
  BY <1>3 DEF CallOK, Pending, Undisturbed, B!Idle
<1>5. ~ended /\ ~signedIn => Unused(c)
  BY <1>3, SessionTypes DEF Unused, B!Idle
<1>6. QED
  <2> HIDE DEF c
  <2>1. QED
    BY <1>1, <1>2, <1>3, <1>4, <1>5, SessionTypes, QuietTabStep

LEMMA ReceiveStep ==
    ASSUME SessionConstantsOK, SessionInv, NEW t \in Tab, B!Receive(t)
    PROVE  SessionInv'
<1>1. /\ call[t].pc = "answered"
      /\ call[t].kind \in B!Kind /\ call[t].held \in PairOrNone
      /\ call[t].retry \in BOOLEAN /\ call[t].resp \in {"ok", "401", "failed"}
      /\ Held(call[t]) = call[t].held /\ Got(call[t]) = call[t].pair
  BY CallTypes DEF B!Receive, SessionInv, Held, Got
<1>2. /\ UNCHANGED <<version, failures, ended, out>>
      /\ signedIn' = (signedIn \/ (call[t].kind = "login" /\ call[t].resp = "ok"))
  BY DEF B!Receive
<1>3. CASE B!MayRefresh(t)
  <2> DEFINE c == [pc |-> "refresh", kind |-> call[t].kind, held |-> call[t].held,
                   retry |-> FALSE]
  <2>1. c \in B!Call
    BY <1>1, CallsOf
  <2>2. /\ call' = [call EXCEPT ![t] = c]
        /\ stored' = stored /\ user' = user /\ signedIn' = signedIn
        /\ call[t].held # None /\ call[t].resp = "401"
    <3>1. call[t].held # None /\ call[t].resp = "401"
      BY <1>3 DEF B!MayRefresh
    <3>2. call' = [call EXCEPT ![t] = c] /\ UNCHANGED <<stored, user>>
      BY <1>3 DEF B!Receive
    <3>3. signedIn' = signedIn
      BY <1>2, <3>1, SessionTypes
    <3>4. QED BY <3>1, <3>2, <3>3
  <2>3. Held(c) = Held(call[t]) /\ Got(c) = None
    BY <1>1 DEF Held, Got
  <2>4. CallOK(c) /\ Undisturbed(c) /\ (Pending(c) => Pending(call[t]))
    BY <1>1, <2>2, <2>3 DEF CallOK, Undisturbed, Pending
  <2>5. ~ended => signedIn
    BY <1>1, <2>2, TabFacts DEF Unused
  <2>6. QED
    <3> HIDE DEF c
    <3>1. QED
      BY <1>2, <2>1, <2>2, <2>3, <2>4, <2>5, SessionTypes, QuietTabStep
<1>4. CASE ~B!MayRefresh(t) /\ call[t].resp = "ok"
  <2> DEFINE c == B!Idle
  <2>1. /\ c \in B!Call /\ CallOK(c) /\ ~Pending(c) /\ Undisturbed(c) /\ Unused(c)
        /\ Held(c) = None /\ Got(c) = None
    BY CallsOf DEF CallOK, Undisturbed, Unused, Pending, Held, Got, B!Idle
  <2>2. B!Succeeded(t) /\ call' = [call EXCEPT ![t] = c]
    BY <1>4 DEF B!Receive, B!Succeeded, B!Return
  <2>3. CASE call[t].kind = "login"
    <3>1. /\ stored' = Got(call[t]) /\ stored' # None /\ signedIn' = TRUE
          /\ user' = user \union {t}
      BY <1>1, <1>2, <1>4, <2>2, <2>3, TabFacts DEF B!Succeeded, CallOK
    <3>2. QED
      <4> HIDE DEF c
      <4>1. QED BY <1>2, <2>1, <2>2, <3>1, SessionTypes, QuietTabStep
  <2>4. CASE call[t].kind = "logout"
    <3>1. stored' = None /\ user' = user \ {t} /\ signedIn' = signedIn /\ ended
      BY <1>1, <1>2, <1>4, <2>2, <2>4, TabFacts, SessionTypes
         DEF B!Succeeded, Undisturbed
    <3>2. QED
      <4> HIDE DEF c
      <4>1. QED BY <1>2, <2>1, <2>2, <3>1, SessionTypes, QuietTabStep
  <2>5. CASE call[t].kind \notin {"login", "logout"}
    <3>1. /\ stored' = stored /\ signedIn' = signedIn
          /\ user' = user \/ (user' = user \union {t} /\ call[t].kind = "me")
      BY <1>2, <2>2, <2>5, SessionTypes DEF B!Succeeded
    <3>2. call[t].kind = "me" /\ ~ended => signedIn
      BY <1>1, TabFacts DEF CallOK, Unused
    <3>3. user' \subseteq Tab /\ signedIn' \in BOOLEAN
      BY <3>1, SessionTypes
    <3>4. ~ended => /\ signedIn' <=> stored' # None
                    /\ signedIn => signedIn'
                    /\ ~signedIn' => user' = {}
      BY <3>1, <3>2, SessionTypes
    <3>5. QED
      <4> HIDE DEF c
      <4>1. QED BY <1>2, <2>1, <2>2, <3>1, <3>3, <3>4, QuietTabStep
  <2>6. QED BY <2>3, <2>4, <2>5
<1>5. CASE ~B!MayRefresh(t) /\ call[t].resp # "ok"
  <2> DEFINE c == B!Idle
  <2>1. /\ c \in B!Call /\ CallOK(c) /\ ~Pending(c) /\ Undisturbed(c) /\ Unused(c)
        /\ Held(c) = None /\ Got(c) = None
    BY CallsOf DEF CallOK, Undisturbed, Unused, Pending, Held, Got, B!Idle
  <2>2. B!Thrown(t) /\ call' = [call EXCEPT ![t] = c]
    BY <1>5 DEF B!Receive, B!Thrown, B!Return
  <2>3. /\ stored' = IF call[t].kind \in {"me", "logout"} THEN None ELSE stored
        /\ user' \subseteq user /\ signedIn' = signedIn
    BY <1>2, <1>5, <2>2, SessionTypes DEF B!Thrown
  <2>4. ASSUME ~ended PROVE call[t].kind \notin {"me", "logout"}
    <3>1. call[t].resp = "401"
      BY <1>1, <1>5, <2>4, TabFacts DEF Undisturbed
    <3>2. call[t].held = None \/ call[t].retry
      BY <1>5, <3>1 DEF B!MayRefresh
    <3>3. QED
      BY <1>1, <2>4, <3>1, <3>2, TabFacts DEF CallOK, Undisturbed
  <2>5. /\ user' \subseteq Tab /\ signedIn' \in BOOLEAN
        /\ stored' \in {stored, None}
    BY <2>3, SessionTypes
  <2>6. ~ended => /\ signedIn' <=> stored' # None
                  /\ signedIn => signedIn'
                  /\ ~signedIn' => user' = {}
    BY <2>3, <2>4, SessionTypes
  <2>7. QED
    <3> HIDE DEF c
    <3>1. QED BY <1>2, <2>1, <2>2, <2>5, <2>6, QuietTabStep
<1>6. QED BY <1>3, <1>4, <1>5

LEMMA AfterRefreshStep ==
    ASSUME SessionConstantsOK, SessionInv, NEW t \in Tab, B!AfterRefresh(t)
    PROVE  SessionInv'
<1>1. /\ call[t].pc = "refreshed" /\ call[t].kind \in B!Kind
      /\ call[t].pair \in PairOrNone /\ Got(call[t]) = call[t].pair
      /\ UNCHANGED <<version, failures, ended, signedIn, out>>
  BY CallTypes DEF B!AfterRefresh, SessionInv, Got
<1>2. CASE call[t].pair # None
  <2> DEFINE c == [pc |-> "sent", kind |-> call[t].kind, held |-> call[t].pair,
                   retry |-> TRUE]
  <2>1. c \in B!Call
    BY <1>1, CallsOf
  <2>2. /\ call' = [call EXCEPT ![t] = c]
        /\ stored' = Got(call[t]) /\ user' = user
    BY <1>1, <1>2 DEF B!AfterRefresh, B!Send
  <2>3. Held(c) = Got(call[t]) /\ Got(c) = None
    BY <1>1 DEF Held, Got
  <2>4. CallOK(c) /\ Undisturbed(c) /\ (Pending(c) => Pending(call[t]))
    BY <1>1, <1>2, <2>3, TabFacts DEF CallOK, Undisturbed, Pending
  <2>5. ~ended => signedIn
    BY <1>1, TabFacts DEF Unused
  <2>6. QED
    <3> HIDE DEF c
    <3>1. QED
      BY <1>1, <1>2, <2>1, <2>2, <2>3, <2>4, <2>5, SessionTypes, QuietTabStep
<1>3. CASE call[t].pair = None
  <2> DEFINE c == B!Idle
  <2>1. /\ c \in B!Call /\ CallOK(c) /\ ~Pending(c) /\ Held(c) = None /\ Got(c) = None
    BY CallsOf DEF CallOK, Pending, Held, Got, B!Idle
  <2>2. /\ call' = [call EXCEPT ![t] = c]
        /\ stored' = None /\ user' = user \ {t}
    BY <1>3 DEF B!AfterRefresh, B!Return
  <2>3. ended
    BY <1>1, <1>3, TabFacts, SessionTypes DEF Undisturbed
  <2>4. QED
    <3> HIDE DEF c
    <3>1. QED BY <1>1, <2>1, <2>2, <2>3, SessionTypes, QuietTabStep
<1>4. QED BY <1>2, <1>3

\* An answer that grants nothing and is true to the call.
LEMMA AnswerStep ==
    ASSUME SessionConstantsOK, SessionInv, NEW t \in Tab, NEW resp \in {"ok", "401"},
           call[t].pc = "sent", B!Answer(t, resp, None),
           resp = "ok" => call[t].kind \in {"me", "get"},
           resp = "401" /\ call[t].kind \in {"me", "get", "logout"} =>
             ~B!Authorised(t),
           UNCHANGED <<version, stored, user, failures, ended, signedIn, out>>
    PROVE  SessionInv'
<1> DEFINE c == [pc |-> "answered", kind |-> call[t].kind, held |-> call[t].held,
                 retry |-> call[t].retry, resp |-> resp, pair |-> None]
<1>1. /\ call[t].kind \in B!Kind /\ call[t].held \in PairOrNone
      /\ call[t].retry \in BOOLEAN /\ Held(call[t]) = call[t].held
  BY CallTypes DEF SessionInv, Held
<1>2. c \in B!Call
  BY <1>1, CallsOf DEF PairOrNone
<1>3. call' = [call EXCEPT ![t] = c]
  BY DEF B!Answer
<1>4. Held(c) = Held(call[t]) /\ Got(c) = None
  BY <1>1 DEF Held, Got
<1>5. CallOK(c) /\ (Pending(c) => Pending(call[t]))
  BY <1>1, <1>4, TabFacts DEF CallOK, Pending, B!Authorised
<1>6. ~ended => Undisturbed(c)
  BY <1>1, <1>4, TabFacts DEF Undisturbed
<1>7. ~ended /\ ~signedIn => Unused(c)
  BY <1>4, TabFacts DEF Unused
<1>8. QED
  <2> HIDE DEF c
  <2>1. QED
    BY <1>2, <1>3, <1>4, <1>5, <1>6, <1>7, SessionTypes, QuietTabStep

LEMMA ServeLoginStep ==
    ASSUME SessionConstantsOK, SessionInv, NEW t \in Tab, B!ServeLogin(t)
    PROVE  SessionInv'
<1> DEFINE c == [pc |-> "answered", kind |-> call[t].kind, held |-> call[t].held,
                 retry |-> call[t].retry, resp |-> "ok", pair |-> B!New]
<1>1. /\ call[t].pc = "sent" /\ call[t].kind = "login"
      /\ call' = [call EXCEPT ![t] = c] /\ out' = FALSE
      /\ UNCHANGED <<version, stored, user, failures, ended, signedIn>>
  BY DEF B!ServeLogin, B!Answer
<1>2. /\ call[t].held \in PairOrNone /\ call[t].retry \in BOOLEAN
      /\ call[t].kind \in B!Kind /\ Held(call[t]) = call[t].held
  BY <1>1, CallTypes DEF SessionInv, Held
<1>3. B!New \in Pair /\ B!New # None /\ B!New.version = version
  <2>1. B!New \in Pair /\ B!New.version = version
    BY DEF B!New, Pair, B!Pair, SessionInv, B!TypeOK
  <2>2. B!New \in [version: Nat, good: BOOLEAN]
    BY SessionTypes DEF B!New
  <2>3. QED BY <2>1, <2>2 DEF SessionConstantsOK
<1>4. c \in B!Call
  BY <1>2, <1>3, CallsOf DEF PairOrNone, Pair
<1>5. Held(c) = Held(call[t]) /\ Got(c) = B!New
  BY <1>2 DEF Held, Got
<1>6. CallOK(c) /\ ~Pending(c) /\ Undisturbed(c)
  BY <1>1, <1>3 DEF CallOK, Pending, Undisturbed
<1>7. ~ended /\ ~signedIn => Unused(c)
  BY <1>5, TabFacts DEF Unused
<1>8. \A p \in {stored', Held(c), Got(c)} \ {None} :
        p.version <= version' /\ (out' => p.version < version')
  BY <1>1, <1>3, <1>5, PairFacts, SessionTypes
<1>9. RoomLeft'
  BY <1>1, <1>6, SameRoom
<1>10. /\ version' = version /\ version' \in Nat /\ version <= version'
       /\ stored' = stored /\ user' = user
  BY <1>1, SessionTypes
<1>11. QED
  <2> HIDE DEF c
  <2>1. QED
    BY <1>1, <1>4, <1>6, <1>7, <1>8, <1>9, <1>10, SessionTypes, TabStep

LEMMA ServeLogoutStep ==
    ASSUME SessionConstantsOK, SessionInv, NEW t \in Tab, B!ServeLogout(t)
    PROVE  SessionInv'
<1>1. CASE ~B!Authorised(t)
  BY <1>1, AnswerStep DEF B!ServeLogout
<1>2. CASE B!Authorised(t)
  <2> DEFINE c == [pc |-> "answered", kind |-> call[t].kind, held |-> call[t].held,
                   retry |-> call[t].retry, resp |-> "ok", pair |-> None]
  <2>1. /\ call[t].pc = "sent" /\ call[t].kind = "logout"
        /\ call' = [call EXCEPT ![t] = c]
        /\ version' = version + 1 /\ ended' = TRUE /\ out' = TRUE
        /\ UNCHANGED <<stored, user, failures, signedIn>>
    BY <1>2 DEF B!ServeLogout, B!Answer
  <2>2. /\ call[t].held \in PairOrNone /\ call[t].retry \in BOOLEAN
        /\ call[t].kind \in B!Kind /\ Held(call[t]) = call[t].held
    BY <2>1, CallTypes DEF SessionInv, Held
  <2>3. c \in B!Call
    BY <2>2, CallsOf DEF PairOrNone
  <2>4. Held(c) = Held(call[t]) /\ Got(c) = None
    BY <2>2 DEF Held, Got
  <2>5. CallOK(c) /\ ~Pending(c)
    BY <2>1 DEF CallOK, Pending
  <2>6. version \in Nat /\ version' \in Nat /\ version < version' /\ version <= version'
    BY <2>1, SessionTypes
  <2>7. \A p \in {stored', Held(c), Got(c)} \ {None} :
          p.version <= version' /\ (out' => p.version < version')
    BY <2>1, <2>4, <2>6, PairFacts
  <2>8. RoomLeft'
    <3>1. t \in Unserved
      BY <2>1 DEF Unserved, Pending
    <3>2. Unserved' = Unserved \ {t}
      BY <2>1, <2>5 DEF Unserved, SessionInv, B!TypeOK
    <3>3. Cardinality(Unserved') = Cardinality(Unserved) - 1
      BY <3>1, <3>2, UnservedFinite, FS_RemoveElement
    <3>4. QED
      BY <2>1, <2>6, <3>3, UnservedFinite DEF RoomLeft, SessionInv, SessionConstantsOK
  <2>9. QED
    <3> HIDE DEF c
    <3>1. QED
      BY <2>1, <2>3, <2>5, <2>6, <2>7, <2>8, SessionTypes, TabStep
<1>3. QED BY <1>1, <1>2

LEMMA ServeRefreshStep ==
    ASSUME SessionConstantsOK, SessionInv, NEW t \in Tab, B!ServeRefresh(t)
    PROVE  SessionInv'
<1> DEFINE pair == IF call[t].held.version = version
                     THEN [version |-> version, good |-> TRUE] ELSE None
           c == [pc |-> "refreshed", kind |-> call[t].kind, pair |-> pair]
<1>1. /\ call[t].pc = "refresh" /\ version' = version
      /\ call' = [call EXCEPT ![t] = c]
      /\ UNCHANGED <<stored, user, failures, ended, signedIn, out>>
  BY DEF B!ServeRefresh, B!VersionOK, B!VersionAfterRefresh
<1>2. /\ call[t].held # None /\ Held(call[t]) = call[t].held
      /\ call[t].kind \in B!Kind
  BY <1>1, CallTypes, TabFacts DEF SessionInv, CallOK, Held
<1>3. /\ version \in Nat /\ call[t].held.version \in Nat
      /\ call[t].held.version <= version
      /\ out => call[t].held.version < version
  BY <1>2, PairFacts
<1>4. pair \in PairOrNone
  BY DEF PairOrNone, B!Pair, SessionInv, B!TypeOK
<1>5. /\ pair # None => pair.version = version /\ pair.good /\ ~out
      /\ ~ended => pair # None
  <2>1. pair # None => pair.version = version /\ pair.good
    OBVIOUS
  <2>2. pair # None => ~out
    BY <1>3
  <2>3. [version |-> version, good |-> TRUE] # None
    <3>1. [version |-> version, good |-> TRUE] \in [version: Nat, good: BOOLEAN]
      BY <1>3
    <3>2. QED BY <3>1 DEF SessionConstantsOK
  <2>4. ~ended => call[t].held.version = version
    BY <1>3, SessionTypes
  <2>5. QED BY <2>1, <2>2, <2>3, <2>4
<1> HIDE DEF pair
<1>6. c \in B!Call
  BY <1>2, <1>4, CallsOf
<1>7. Held(c) = None /\ Got(c) = pair
  BY DEF Held, Got
<1>8. /\ CallOK(c) /\ (Pending(c) => Pending(call[t]))
      /\ ~ended => Undisturbed(c)
  BY <1>1, <1>5, <1>7 DEF CallOK, Undisturbed, Pending
<1>9. ~ended => signedIn
  BY <1>1, TabFacts DEF Unused
<1>10. \A p \in {stored', Held(c), Got(c)} \ {None} :
         p.version <= version' /\ (out' => p.version < version')
  BY <1>1, <1>3, <1>5, <1>7, PairFacts
<1>11. RoomLeft'
  BY <1>1, <1>8, SameRoom
<1>12. /\ version' = version /\ version' \in Nat /\ version <= version'
       /\ stored' = stored /\ user' = user
  BY <1>1, <1>3
<1>13. QED
  <2> HIDE DEF c
  <2>1. QED
    BY <1>1, <1>6, <1>8, <1>9, <1>10, <1>11, <1>12, SessionTypes, TabStep

LEMMA SessionFailStep ==
    ASSUME SessionConstantsOK, SessionInv, NEW t \in Tab, B!Fail(t)
    PROVE  SessionInv'
<1> DEFINE c == IF call[t].pc = "sent"
                  THEN [pc |-> "answered", kind |-> call[t].kind,
                        held |-> call[t].held, retry |-> call[t].retry,
                        resp |-> "failed", pair |-> None]
                  ELSE [pc |-> "refreshed", kind |-> call[t].kind, pair |-> None]
<1>1. /\ call[t].pc \in {"sent", "refresh"}
      /\ call' = [call EXCEPT ![t] = c]
      /\ failures < MaxFailures /\ failures' = failures + 1 /\ ended' = TRUE
      /\ UNCHANGED <<version, stored, user, signedIn, out>>
  BY DEF B!Fail, B!Answer
<1>2. /\ call[t].held \in PairOrNone /\ call[t].retry \in BOOLEAN
      /\ call[t].kind \in B!Kind /\ Held(call[t]) = call[t].held
  BY <1>1, CallTypes DEF SessionInv, Held
<1>3. c \in B!Call
  BY <1>1, <1>2, CallsOf DEF PairOrNone
<1>4. Held(c) \in {Held(call[t]), None} /\ Got(c) = None
  BY <1>2 DEF Held, Got
<1>5. CallOK(c) /\ (Pending(c) => Pending(call[t]))
  <2>1. call[t].kind = "me" /\ call[t].pc = "sent" => call[t].held # None
    BY <1>2, TabFacts DEF CallOK
  <2>2. CASE call[t].pc = "sent"
    BY <2>1, <2>2 DEF CallOK, Pending, Held
  <2>3. CASE call[t].pc # "sent"
    BY <1>1, <2>3 DEF CallOK, Pending, Held
  <2>4. QED BY <2>2, <2>3
<1>6. failures' \in 0..MaxFailures
  BY <1>1, SessionTypes DEF SessionConstantsOK
<1>7. \A p \in {stored', Held(c), Got(c)} \ {None} :
        p.version <= version' /\ (out' => p.version < version')
  BY <1>1, <1>4, PairFacts
<1>8. RoomLeft'
  BY <1>1, <1>5, SameRoom
<1>9. version' = version /\ version' \in Nat /\ version <= version'
  BY <1>1, SessionTypes
<1>10. QED
  <2> HIDE DEF c
  <2>1. QED
    BY <1>1, <1>3, <1>5, <1>6, <1>7, <1>8, <1>9, SessionTypes, TabStep

LEMMA RevokeElsewhereStep ==
    ASSUME SessionConstantsOK, SessionInv, B!RevokeElsewhere
    PROVE  SessionInv'
<1> DEFINE under == {t \in Tab : call[t] # B!Idle /\ call[t].kind = "logout"}
<1>1. /\ version + Cardinality(under) < SessionVersions
      /\ version' = version + 1 /\ ended' = TRUE
      /\ UNCHANGED <<stored, user, call, failures, signedIn, out>>
  BY SameCardinality DEF B!RevokeElsewhere, B!Room
<1>2. version \in Nat /\ SessionVersions \in Nat
  BY SessionTypes DEF SessionConstantsOK
<1>3. /\ IsFiniteSet(under) /\ Cardinality(under) \in Nat
      /\ Cardinality(Unserved) <= Cardinality(under) /\ Cardinality(Unserved) \in Nat
  <2>1. IsFiniteSet(under)
    BY FS_Subset DEF SessionConstantsOK
  <2>2. Unserved \subseteq under
    BY CallTypes DEF Unserved, Pending, SessionInv
  <2>3. QED
    BY <2>1, <2>2, UnservedFinite, FS_Subset, FS_CardinalityType
<1>4. RoomLeft'
  <2>1. Unserved' = Unserved
    BY <1>1 DEF Unserved
  <2>2. version + 1 + Cardinality(Unserved) <= SessionVersions
    <3> HIDE DEF under
    <3>1. QED BY <1>1, <1>2, <1>3
  <2>3. QED BY <1>1, <2>1, <2>2 DEF RoomLeft
<1>5. version' \in 0..SessionVersions
  <2> HIDE DEF under
  <2>1. QED BY <1>1, <1>2, <1>3
<1>6. B!TypeOK'
  BY <1>1, <1>5 DEF SessionInv, B!TypeOK
<1>7. InPlay' = InPlay
  BY <1>1 DEF InPlay
<1>8. \A p \in InPlay : p.version \in Nat /\ p.version < version'
  BY <1>1, <1>2, InPlayTypes DEF SessionInv, PairsNotAhead
<1>9. PairsNotAhead' /\ PairsRevoked'
  BY <1>1, <1>2, <1>7, <1>8 DEF PairsNotAhead, PairsRevoked
<1>10. \A t \in Tab : CallOK(call'[t])
  BY <1>1, TabFacts
<1>11. FirstVersion'
  BY <1>1 DEF FirstVersion
<1>12. QED
  BY <1>4, <1>6, <1>9, <1>10, <1>11 DEF SessionInv

\* The access token of a stored pair, or of a call on its way, runs out.
LEMMA StaleFacts ==
    ASSUME NEW p \in PairOrNone, SessionConstantsOK
    PROVE  /\ B!Stale(p) \in PairOrNone
           /\ B!Stale(p) = None <=> p = None
           /\ p # None => B!Stale(p).version = p.version
<1>1. CASE p = None
  BY <1>1 DEF B!Stale, PairOrNone
<1>2. CASE p # None
  <2>1. p \in B!Pair
    BY <1>2 DEF PairOrNone
  <2>2. B!Stale(p) \in B!Pair /\ B!Stale(p).version = p.version
    BY <1>2, <2>1 DEF B!Stale, B!Pair
  <2>3. B!Stale(p) \in [version: Nat, good: BOOLEAN]
    BY <2>2 DEF B!Pair, SessionConstantsOK
  <2>4. QED
    BY <1>2, <2>2, <2>3 DEF PairOrNone, SessionConstantsOK
<1>3. QED BY <1>1, <1>2

LEMMA ExpireStep ==
    ASSUME SessionConstantsOK, SessionInv, B!Expire
    PROVE  SessionInv'
<1> DEFINE sent(t) == [call[t] EXCEPT !.held = B!Stale(@)]
<1>1. /\ stored # None /\ stored' = B!Stale(stored)
      /\ call' = [t \in Tab |-> IF call[t].pc = "sent" THEN sent(t) ELSE call[t]]
      /\ UNCHANGED <<version, user, failures, ended, signedIn, out>>
      /\ \A t \in Tab : call[t].pc = "sent" => ~call[t].retry
  BY DEF B!Expire
<1>2. ASSUME NEW t \in Tab, call[t].pc = "sent"
      PROVE  /\ call'[t] \in B!Call
             /\ call'[t].pc = "sent" /\ call'[t].kind = call[t].kind
             /\ call'[t].retry = call[t].retry
             /\ call'[t].held = B!Stale(call[t].held)
             /\ call[t].held \in PairOrNone
  <2>1. /\ call[t].kind \in B!Kind /\ call[t].held \in PairOrNone
        /\ call[t].retry \in BOOLEAN
    BY <1>2, CallTypes DEF SessionInv
  <2>2. call[t] \in [pc: {"sent", "refresh"}, kind: B!Kind, held: PairOrNone,
                     retry: BOOLEAN]
    BY <1>2, SessionTypes DEF B!Call, B!Idle, PairOrNone
  <2>3. sent(t) = [pc |-> "sent", kind |-> call[t].kind,
                   held |-> B!Stale(call[t].held), retry |-> call[t].retry]
    BY <1>2, <2>2
  <2>4. sent(t) \in B!Call
    BY <2>1, <2>3, StaleFacts, CallsOf
  <2>5. call'[t] = sent(t)
    BY <1>1, <1>2
  <2>6. QED BY <2>1, <2>3, <2>4, <2>5
<1>3. ASSUME NEW t \in Tab, call[t].pc # "sent"
      PROVE  call'[t] = call[t] /\ call[t] \in B!Call
  BY <1>1, <1>3, SessionTypes
<1>4. call' \in [Tab -> B!Call]
  <2>1. \A t \in Tab : call'[t] \in B!Call
    BY <1>1, <1>2, <1>3
  <2>2. QED BY <1>1, <2>1
<1>5. ASSUME NEW t \in Tab
      PROVE  /\ call'[t].pc = call[t].pc
             /\ Held(call[t]) \in PairOrNone
             /\ Held(call'[t]) \in {Held(call[t]), B!Stale(Held(call[t]))}
             /\ Got(call'[t]) = Got(call[t])
  <2>1. CASE call[t].pc = "sent"
    BY <1>2, <2>1 DEF Held, Got
  <2>2. CASE call[t].pc # "sent"
    BY <1>3, <2>2, CallTypes DEF Held, PairOrNone, SessionInv
  <2>3. QED BY <2>1, <2>2
<1>6. B!TypeOK'
  <2>1. stored' \in PairOrNone
    BY <1>1, StaleFacts, SessionTypes
  <2>2. QED
    BY <1>1, <1>4, <2>1 DEF SessionInv, B!TypeOK, PairOrNone
<1>7. Unserved' \subseteq Unserved
  <2>1. ASSUME NEW t \in Tab, Pending(call'[t]) PROVE Pending(call[t])
    <3>1. CASE call[t].pc = "sent"
      BY <1>2, <2>1, <3>1 DEF Pending
    <3>2. CASE call[t].pc # "sent"
      BY <1>3, <2>1, <3>2
    <3>3. QED BY <3>1, <3>2
  <2>2. QED BY <2>1 DEF Unserved
<1>8. RoomLeft'
  BY <1>1, <1>7, RoomKept DEF SessionInv
<1>9. \A p \in InPlay' : \E q \in InPlay :
        p.version = q.version /\ q.version \in Nat
  <2>1. ASSUME NEW p \in InPlay'
        PROVE  \E q \in InPlay : p = q \/ (q \in PairOrNone /\ p = B!Stale(q))
    <3>1. CASE p = stored'
      BY <1>1, <3>1, SessionTypes DEF InPlay
    <3>2. ASSUME NEW t \in Tab, p = Held(call'[t])
          PROVE  \E q \in InPlay : p = q \/ (q \in PairOrNone /\ p = B!Stale(q))
      <4>1. Held(call[t]) # None
        BY <1>5, <2>1, <3>2, StaleFacts DEF InPlay
      <4>2. Held(call[t]) \in InPlay
        BY <4>1 DEF InPlay
      <4>3. QED BY <1>5, <3>2, <4>2
    <3>3. ASSUME NEW t \in Tab, p = Got(call'[t]) PROVE p \in InPlay
      BY <1>5, <2>1, <3>3 DEF InPlay
    <3>4. QED BY <2>1, <3>1, <3>2, <3>3 DEF InPlay
  <2>2. \A q \in InPlay : q # None /\ q.version \in Nat
    BY InPlayTypes DEF InPlay
  <2>3. QED BY <2>1, <2>2, StaleFacts
<1>10. PairsNotAhead' /\ PairsRevoked'
  BY <1>1, <1>9, SessionTypes DEF SessionInv, PairsNotAhead, PairsRevoked
<1>11. ASSUME NEW t \in Tab
       PROVE  /\ CallOK(call'[t])
              /\ ~ended => Undisturbed(call'[t])
              /\ ~ended /\ ~signedIn => Unused(call'[t])
  <2>1. CASE call[t].pc # "sent"
    BY <1>3, <2>1, TabFacts
  <2>2. CASE call[t].pc = "sent"
    <3>1. B!Stale(call[t].held) = None <=> call[t].held = None
      BY <1>2, <2>2, StaleFacts
    <3>2. /\ Held(call[t]) = call[t].held
          /\ Held(call'[t]) = B!Stale(call[t].held)
          /\ call'[t].pc = "sent" /\ call'[t].kind = call[t].kind /\ ~call'[t].retry
      BY <1>1, <1>2, <2>2 DEF Held
    <3>3. CallOK(call'[t])
      BY <2>2, <3>1, <3>2, TabFacts DEF CallOK
    <3>4. ~ended => Undisturbed(call'[t])
      BY <2>2, <3>1, <3>2, TabFacts DEF Undisturbed
    <3>5. ~ended /\ ~signedIn => Unused(call'[t])
      BY <2>2, <3>1, <3>2, TabFacts DEF Unused
    <3>6. QED BY <3>3, <3>4, <3>5
  <2>3. QED BY <2>1, <2>2
<1>12. FirstVersion'
  <2>1. stored' # None
    BY <1>1, StaleFacts, SessionTypes
  <2>2. QED
    BY <1>1, <1>11, <2>1 DEF FirstVersion, SessionInv
<1>13. QED
  BY <1>6, <1>8, <1>10, <1>11, <1>12 DEF SessionInv

LEMMA SessionNext ==
    ASSUME SessionConstantsOK, SessionInv, [B!Next]_browserVars
    PROVE  SessionInv'
<1>1. CASE UNCHANGED browserVars
  <2>1. UNCHANGED <<version, stored, user, call, failures, ended, signedIn, out>>
    BY <1>1 DEF browserVars
  <2>2. B!TypeOK' /\ RoomLeft' /\ PairsNotAhead' /\ PairsRevoked'
    BY <2>1 DEF SessionInv, B!TypeOK, RoomLeft, Unserved, PairsNotAhead,
                PairsRevoked, InPlay
  <2>3. FirstVersion' /\ \A t \in Tab : CallOK(call'[t])
    BY <2>1 DEF SessionInv, FirstVersion
  <2>4. QED BY <2>2, <2>3 DEF SessionInv
<1>2. ASSUME NEW t \in Tab, B!Mount(t) PROVE SessionInv'
  BY <1>2, MountStep
<1>3. ASSUME NEW t \in Tab, NEW kind \in B!Kind, B!Start(t, kind) PROVE SessionInv'
  BY <1>3, StartStep
<1>4. ASSUME NEW t \in Tab, B!Receive(t) PROVE SessionInv'
  BY <1>4, ReceiveStep
<1>5. ASSUME NEW t \in Tab, B!AfterRefresh(t) PROVE SessionInv'
  BY <1>5, AfterRefreshStep
<1>6. ASSUME NEW t \in Tab, B!Serve(t) PROVE SessionInv'
  <2>1. CASE B!ServeRead(t)
    BY <2>1, AnswerStep DEF B!ServeRead
  <2>2. CASE B!ServeLogin(t)
    BY <2>2, ServeLoginStep
  <2>3. CASE B!ServeMistyped(t)
    BY <2>3, AnswerStep DEF B!ServeMistyped
  <2>4. CASE B!ServeLogout(t)
    BY <2>4, ServeLogoutStep
  <2>5. CASE B!ServeRefresh(t)
    BY <2>5, ServeRefreshStep
  <2>6. QED BY <1>6, <2>1, <2>2, <2>3, <2>4, <2>5 DEF B!Serve
<1>7. ASSUME NEW t \in Tab, B!Fail(t) PROVE SessionInv'
  BY <1>7, SessionFailStep
<1>8. CASE B!RevokeElsewhere
  BY <1>8, RevokeElsewhereStep
<1>9. CASE B!Expire
  BY <1>9, ExpireStep
<1>10. QED
  BY <1>1, <1>2, <1>3, <1>4, <1>5, <1>6, <1>7, <1>8, <1>9 DEF B!Next

\* The composition: whichever side a behaviour is of, the other one rests.
LEMMA MCAccountsStart == MCInit => Init /\ B!Init
  BY DEF MCInit

LEMMA MCAccountsSteps == [MCNext]_allVars => [Next]_vars /\ [B!Next]_browserVars
  BY DEF MCNext, OnServer, InBrowser, allVars

LEMMA SessionAlways ==
    ASSUME SessionConstantsOK
    PROVE  MCSpec => []SessionInv
<1>1. MCInit => SessionInv
  BY MCAccountsStart, SessionInit
<1>2. SessionInv /\ [MCNext]_allVars => SessionInv'
  BY MCAccountsSteps, SessionNext
<1>3. QED BY <1>1, <1>2, PTL DEF MCSpec

\* What a logout takes from localStorage and revokes on the server stays gone:
\* however a tab's refresh, replay or login overlaps it, the pair that is left
\* in storage afterwards is one that tryRefresh can do nothing with.
THEOREM LogoutRevokesAlways ==
    ASSUME SessionConstantsOK
    PROVE  MCSpec => []LogoutRevokes
<1>1. ASSUME SessionInv PROVE LogoutRevokes
  <2>1. stored # None => stored \in InPlay
    BY DEF InPlay
  <2>2. QED
    BY <1>1, <2>1 DEF SessionInv, PairsRevoked, LogoutRevokes, B!LogoutRevokes
<1>2. QED BY <1>1, SessionAlways, PTL

\* Any number of tabs may share the pair, refresh it at once, replay their calls
\* and mistype passwords: as long as nobody signs out, nothing is revoked and no
\* call fails, request() never forgets the pair of someone who signed in.
THEOREM NoSpuriousSignOutAlways ==
    ASSUME SessionConstantsOK
    PROVE  MCSpec => []NoSpuriousSignOut
<1>1. ASSUME SessionInv PROVE NoSpuriousSignOut
  BY <1>1 DEF SessionInv, FirstVersion, NoSpuriousSignOut, B!NoSpuriousSignOut
<1>2. QED BY <1>1, SessionAlways, PTL

\* Both sides of a sign-in keep to their types, the bound on versions included:
\* each logout under way has its place below it.
THEOREM AccountsTyped ==
    ASSUME ConstantsOK, SessionConstantsOK
    PROVE  MCSpec => []TypesOK
<1>1. MCInit => IInv
  BY MCAccountsStart, InitIInv
<1>2. IInv /\ [MCNext]_allVars => IInv'
  BY MCAccountsSteps, NextIInv
<1>3. IInv /\ SessionInv => TypesOK
  BY DEF IInv, SessionInv, TypesOK
<1>4. QED BY <1>1, <1>2, <1>3, SessionAlways, PTL DEF MCSpec

-----------------------------------------------------------------------------
(* Calls end: how many steps each has left *)

StepsLeft(c) ==
    CASE c.pc = "idle" -> 0
      [] c.pc = "answered" -> IF c.retry THEN 1 ELSE 5
      [] c.pc = "sent" -> IF c.retry THEN 2 ELSE 6
      [] c.pc = "refreshed" -> 3
      [] c.pc = "refresh" -> 4

\* No step of anyone gives a call in flight more to do, and each of its own
\* steps leaves it less.
Shrink ==
    \A t \in Tab : call[t].pc # "idle" =>
        /\ StepsLeft(call'[t]) <= StepsLeft(call[t])
        /\ B!Proceed(t) => StepsLeft(call'[t]) < StepsLeft(call[t])

LEMMA OwnStepShrinks ==
    ASSUME SessionInv, NEW t \in Tab, B!Proceed(t)
    PROVE  StepsLeft(call'[t]) < StepsLeft(call[t])
<1>1. call \in [Tab -> B!Call]
  BY SessionTypes
<1>2. call[t].pc \in {"sent", "refresh", "answered"} => call[t].retry \in BOOLEAN
  BY CallTypes DEF SessionInv
<1>3. CASE B!Receive(t)
  <2>1. call[t].pc = "answered"
    BY <1>3 DEF B!Receive
  <2>2. CASE B!MayRefresh(t)
    BY <1>1, <1>3, <2>1, <2>2 DEF B!Receive, B!MayRefresh, StepsLeft
  <2>3. CASE ~B!MayRefresh(t)
    <3>1. call'[t] = B!Idle
      BY <1>1, <1>3, <2>3 DEF B!Receive, B!Succeeded, B!Thrown, B!Return
    <3>2. QED BY <1>2, <2>1, <3>1 DEF StepsLeft, B!Idle
  <2>4. QED BY <2>2, <2>3
<1>4. CASE B!AfterRefresh(t)
  <2>1. /\ call[t].pc = "refreshed"
        /\ call'[t] = B!Idle \/ (call'[t].pc = "sent" /\ call'[t].retry)
    BY <1>1, <1>4 DEF B!AfterRefresh, B!Send, B!Return
  <2>2. QED BY <2>1 DEF StepsLeft, B!Idle
<1>5. CASE B!Serve(t) \/ (B!Fail(t) /\ call[t].pc = "sent")
  <2>1. CASE B!ServeRefresh(t)
    <3>1. call[t].pc = "refresh" /\ call'[t].pc = "refreshed"
      BY <1>1, <2>1 DEF B!ServeRefresh
    <3>2. QED BY <3>1 DEF StepsLeft
  <2>2. CASE ~B!ServeRefresh(t)
    <3>1. /\ call[t].pc = "sent"
          /\ call'[t].pc = "answered" /\ call'[t].retry = call[t].retry
      BY <1>1, <1>5, <2>2 DEF B!Serve, B!ServeRead, B!ServeLogin, B!ServeMistyped,
                              B!ServeLogout, B!Fail, B!Answer
    <3>2. QED BY <1>2, <3>1 DEF StepsLeft
  <2>3. QED BY <2>1, <2>2
<1>6. CASE B!Fail(t) /\ call[t].pc # "sent"
  <2>1. call[t].pc = "refresh" /\ call'[t].pc = "refreshed"
    BY <1>1, <1>6 DEF B!Fail
  <2>2. QED BY <2>1 DEF StepsLeft
<1>7. QED BY <1>3, <1>4, <1>5, <1>6 DEF B!Proceed

LEMMA StepsLeftType == ASSUME NEW c \in B!Call PROVE StepsLeft(c) \in Nat
  BY DEF StepsLeft, B!Call, B!Idle

LEMMA NextShrinks ==
    ASSUME SessionInv, SessionInv', B!Next
    PROVE  Shrink
<1>1. call \in [Tab -> B!Call]
  BY SessionTypes
<1>2. ASSUME NEW t \in Tab
      PROVE  StepsLeft(call[t]) \in Nat /\ StepsLeft(call'[t]) \in Nat
  BY <1>1, StepsLeftType DEF SessionInv, B!TypeOK
<1>3. ASSUME NEW t \in Tab, call[t].pc # "idle", ~B!Proceed(t)
      PROVE  \/ call'[t] = call[t]
             \/ /\ call'[t].pc = call[t].pc
                /\ call[t].pc = "sent" /\ call'[t].retry = call[t].retry
  <2>1. ASSUME NEW u \in Tab,
               \/ B!Mount(u) \/ \E kind \in B!Kind : B!Start(u, kind)
               \/ B!Receive(u) \/ B!AfterRefresh(u) \/ B!Serve(u) \/ B!Fail(u)
        PROVE  call'[t] = call[t]
    <3>1. u # t
      <4>1. u = t => call[u] = B!Idle
        BY <1>3, <2>1 DEF B!Proceed, B!Mount, B!Start
      <4>2. QED BY <1>3, <4>1 DEF B!Idle
    <3>2. call' = call \/ \E c : call' = [call EXCEPT ![u] = c]
      BY <2>1 DEF B!Mount, B!Start, B!Receive, B!AfterRefresh, B!Serve, B!Fail, B!Send,
                  B!Succeeded, B!Thrown, B!Return, B!Answer, B!ServeRead, B!ServeLogin,
                  B!ServeMistyped, B!ServeLogout, B!ServeRefresh
    <3>3. QED BY <1>1, <3>1, <3>2
  <2>2. CASE B!RevokeElsewhere
    BY <2>2 DEF B!RevokeElsewhere
  <2>3. CASE B!Expire
    <3>1. call'[t] = IF call[t].pc = "sent"
                       THEN [call[t] EXCEPT !.held = B!Stale(@)] ELSE call[t]
      BY <2>3 DEF B!Expire
    <3>2. CASE call[t].pc = "sent"
      <4>1. call[t] \in [pc: {"sent", "refresh"}, kind: B!Kind, held: PairOrNone,
                         retry: BOOLEAN]
        BY <1>1, <3>2 DEF B!Call, B!Idle, PairOrNone
      <4>2. QED BY <3>1, <3>2, <4>1
    <3>3. QED BY <3>1, <3>2
  <2>4. QED BY <2>1, <2>2, <2>3 DEF B!Next
<1>4. ASSUME NEW t \in Tab, call[t].pc # "idle"
      PROVE  /\ StepsLeft(call'[t]) <= StepsLeft(call[t])
             /\ B!Proceed(t) => StepsLeft(call'[t]) < StepsLeft(call[t])
  <2>1. CASE B!Proceed(t)
    <3>1. StepsLeft(call'[t]) < StepsLeft(call[t])
      BY <2>1, OwnStepShrinks
    <3>2. StepsLeft(call'[t]) <= StepsLeft(call[t])
      BY <1>2, <3>1
    <3>3. QED BY <3>1, <3>2
  <2>2. CASE ~B!Proceed(t)
    <3>1. StepsLeft(call'[t]) = StepsLeft(call[t])
      BY <1>3, <1>4, <2>2 DEF StepsLeft
    <3>2. QED BY <1>2, <2>2, <3>1
  <2>3. QED BY <2>1, <2>2
<1>5. QED BY <1>4 DEF Shrink

\* What CallsEnd needs besides fairness: a call has at most six steps of its
\* own, because the retry of request() may not refresh again, and no other tab,
\* revocation or expiry gives it more.
THEOREM CallsShrink ==
    ASSUME SessionConstantsOK
    PROVE  MCSpec => [][Shrink]_browserVars
<1>1. SessionInv /\ [MCNext]_allVars => [Shrink]_browserVars
  BY MCAccountsSteps, SessionNext, NextShrinks
<1>2. QED BY <1>1, SessionAlways, PTL DEF MCSpec
=============================================================================
