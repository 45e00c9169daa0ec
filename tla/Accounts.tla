------------------------------ MODULE Accounts ------------------------------
(***************************************************************************)
(* One account - a recruiter's User or a person's CandidateAccount - with  *)
(* its password, the tokenVersion its refresh tokens carry, and the rows   *)
(* of password_reset_tokens.                                               *)
(*                                                                         *)
(*   packages/core/src/modules/auth/service.ts           recruiters        *)
(*   packages/core/src/modules/candidateAuth/service.ts  candidates, reset *)
(*   packages/core/src/lib/jwt.ts                        what a token says *)
(*                                                                         *)
(* The two services treat login, refresh and logout alike; inviting is the *)
(* recruiters' only, forgetting and resetting a password the candidates'.  *)
(* A request is a process: what it read before bcrypt ran is kept in its   *)
(* record and used after it.  A password hash is the password; an access   *)
(* token carries no version and opens nothing here but logout.             *)
(***************************************************************************)
EXTENDS Naturals

CONSTANTS
    Request,     \* request slots, each reused for one request after another
    Password,    \* passwords people choose
    ResetToken,  \* reset tokens that forgotPassword may draw
    NoPassword,  \* the password of an account that does not exist
    MaxVersion   \* bound: logouts and resets

VARIABLES
    account,  \* [pw, version]: passwordHash and tokenVersion of the row
    issued,   \* refresh tokens handed out: the version each carries and the
              \* password its session began with
    row,      \* password_reset_tokens
    expired,  \* reset tokens past their expiresAt
    mailed,   \* reset tokens whose email is queued: someone can use them
    req       \* the request in each slot

vars == <<account, issued, row, expired, mailed, req>>

Session == [version: 0..MaxVersion, pw: Password]
RowState == {"absent", "live", "used", "purged"}

\* What a request has read, and what it was sent.
Idle == [pc |-> "idle"]
Waiting ==
    [pc: {"register", "invite"}, pw: Password]
      \union [pc: {"compare"}, pw: Password,
              seen: [pw: Password, version: 0..MaxVersion]]
      \union [pc: {"mail"}, token: ResetToken]
      \union [pc: {"reset"}, token: ResetToken, pw: Password]

TypeOK ==
    /\ account \in [pw: Password \union {NoPassword}, version: 0..MaxVersion]
    /\ issued \subseteq Session
    /\ row \in [ResetToken -> RowState]
    /\ expired \subseteq ResetToken
    /\ mailed \subseteq ResetToken
    /\ req \in [Request -> {Idle} \union Waiting]

Init ==
    /\ account = [pw |-> NoPassword, version |-> 0]
    /\ issued = {}
    /\ row = [t \in ResetToken |-> "absent"]
    /\ expired = {}
    /\ mailed = {}
    /\ req = [q \in Request |-> Idle]

Exists == account.pw # NoPassword

\* issueTokenPair, for the row that was read and a session begun with pw.
Issue(version, pw) == issued' = issued \union {[version |-> version, pw |-> pw]}

Begin(q, r) == req[q] = Idle /\ req' = [req EXCEPT ![q] = r]
End(q) == req' = [req EXCEPT ![q] = Idle]
At(q, pc) == req[q].pc = pc

-----------------------------------------------------------------------------
(* register and inviteUser *)

\* findUnique finds nobody; bcrypt.hash runs.  inviteUser hashes first.
RegisterCheck(q, kind, pw) ==
    /\ ~Exists
    /\ Begin(q, [pc |-> kind, pw |-> pw])
    /\ UNCHANGED <<account, issued, row, expired, mailed>>

EmailFree(q) == ~Exists

\* The insert; only register answers with tokens.
Create(q) ==
    /\ At(q, "register") \/ At(q, "invite")
    /\ EmailFree(q)
    /\ account' = [pw |-> req[q].pw, version |-> 0]
    /\ IF At(q, "register") THEN Issue(0, req[q].pw) ELSE UNCHANGED issued
    /\ End(q)
    /\ UNCHANGED <<row, expired, mailed>>

\* The insert meets the unique index.
CreateLost(q) ==
    /\ At(q, "register") \/ At(q, "invite")
    /\ ~EmailFree(q)
    /\ End(q)
    /\ UNCHANGED <<account, issued, row, expired, mailed>>

-----------------------------------------------------------------------------
(* login, refresh, logout *)

LoginRead(q, pw) ==
    /\ Exists
    /\ Begin(q, [pc |-> "compare", pw |-> pw, seen |-> account])
    /\ UNCHANGED <<account, issued, row, expired, mailed>>

\* Mutants: the version signed is read again after bcrypt; it is the next one.
VersionReread(q) == account.version
VersionAhead(q) == req[q].seen.version + 1
VersionSigned(q) == req[q].seen.version

\* bcrypt.compare has ended: tokens of the row as it was read, or a 401.
LoginAnswer(q) ==
    /\ At(q, "compare")
    /\ IF req[q].pw = req[q].seen.pw
         THEN Issue(VersionSigned(q), req[q].pw) ELSE UNCHANGED issued
    /\ End(q)
    /\ UNCHANGED <<account, row, expired, mailed>>

SameVersion(s) == s.version = account.version

\* One read decides, so one step; a revoked token gets a 401 and changes
\* nothing.
Refresh(s) ==
    /\ Exists
    /\ SameVersion(s)
    /\ Issue(account.version, s.pw)
    /\ UNCHANGED <<account, row, expired, mailed, req>>

\* Anyone with an access token: revokes every session of the account.
Logout ==
    /\ issued # {}
    /\ account.version < MaxVersion
    /\ account' = [account EXCEPT !.version = @ + 1]
    /\ UNCHANGED <<issued, row, expired, mailed, req>>

-----------------------------------------------------------------------------
(* forgotPassword, resetPassword and the nightly purge *)

ForgotRow(q, t) ==
    /\ Exists
    /\ row[t] = "absent"
    /\ row' = [row EXCEPT ![t] = "live"]
    /\ Begin(q, [pc |-> "mail", token |-> t])
    /\ UNCHANGED <<account, issued, expired, mailed>>

ForgotMail(q) ==
    /\ At(q, "mail")
    /\ mailed' = mailed \union {req[q].token}
    /\ End(q)
    /\ UNCHANGED <<account, issued, row, expired>>

Expire(t) ==
    /\ row[t] # "absent"
    /\ t \notin expired
    /\ expired' = expired \union {t}
    /\ UNCHANGED <<account, issued, row, mailed, req>>

\* purgeExpiredPasswordResetTokens: past-expiry rows, used or not.
Purge ==
    /\ \E t \in expired : row[t] \in {"live", "used"}
    /\ row' = [t \in ResetToken |-> IF t \in expired THEN "purged" ELSE row[t]]
    /\ UNCHANGED <<account, issued, expired, mailed, req>>

Redeemable(t) == row[t] = "live" /\ t \notin expired

ResetCheck(q, t, pw) ==
    /\ t \in mailed
    /\ Redeemable(t)
    /\ Begin(q, [pc |-> "reset", token |-> t, pw |-> pw])
    /\ UNCHANGED <<account, issued, row, expired, mailed>>

NewPassword(pw) ==
    account' = [account EXCEPT !.pw = pw, !.version = @ + 1]

\* Its transaction, some bcrypt time after the check, which it does not repeat.
ResetCommit(q) ==
    /\ At(q, "reset")
    /\ row[req[q].token] \in {"live", "used"}
    /\ account.version < MaxVersion
    /\ NewPassword(req[q].pw)
    /\ row' = [row EXCEPT ![req[q].token] = "used"]
    /\ End(q)
    /\ UNCHANGED <<issued, expired, mailed>>

\* The purge took the row: the second update throws, the first is rolled back.
ResetRollback(q) ==
    /\ At(q, "reset")
    /\ row[req[q].token] = "purged"
    /\ End(q)
    /\ UNCHANGED <<account, issued, row, expired, mailed>>

\* A database or Redis error, or the end of the process.
Abandon(q) ==
    /\ req[q] # Idle
    /\ End(q)
    /\ UNCHANGED <<account, issued, row, expired, mailed>>

-----------------------------------------------------------------------------
Next ==
    \/ \E q \in Request, pw \in Password :
         \/ \E kind \in {"register", "invite"} : RegisterCheck(q, kind, pw)
         \/ LoginRead(q, pw)
         \/ \E t \in ResetToken : ResetCheck(q, t, pw)
    \/ \E q \in Request :
         \/ Create(q) \/ CreateLost(q) \/ LoginAnswer(q)
         \/ ForgotMail(q) \/ ResetCommit(q) \/ ResetRollback(q) \/ Abandon(q)
         \/ \E t \in ResetToken : ForgotRow(q, t)
    \/ \E s \in issued : Refresh(s)
    \/ Logout
    \/ \E t \in ResetToken : Expire(t)
    \/ Purge

Spec == Init /\ [][Next]_vars

-----------------------------------------------------------------------------
(* Properties *)

\* Whoever holds a refresh token that still works knew the password the account
\* has now: registrations of one email, logins that overlap a reset or a
\* logout, and chains of refreshes leave no session behind that a reset of the
\* password should have ended.
LiveSessionsKnowPassword ==
    \A s \in issued : s.version = account.version => s.pw = account.pw
=============================================================================
