--------------------------- MODULE PipelineProofs ---------------------------
(***************************************************************************)
(* Pipeline keeps its audit trail, its stage references, its outbox and its*)
(* statuses consistent, for any number of applications, stages and request *)
(* handlers, whatever stages are added, edited and removed meanwhile.      *)
(*                                                                         *)
(* And while no stage's kind is edited, the handlers implement the         *)
(* published policy: a move that was validated against a stale read        *)
(* commits only if the policy allows it at that moment.                    *)
(***************************************************************************)
EXTENDS Pipeline, TLAPS

-----------------------------------------------------------------------------
(* What a request handler holds at each of its steps. *)

RequestOK ==
    \A r \in Req :
      /\ req[r].pc \in {"apply.check", "apply.commit"} =>
           req[r].app \in App /\ req[r].to \in Stage
      /\ req[r].pc = "move" =>
           /\ req[r].app \in App /\ req[r].kind \in Kinds
           /\ req[r].from \in Stage /\ req[r].to \in Stage
      /\ req[r].pc \in {"remove.inUse", "remove.history", "remove.delete"} =>
           req[r].to \in Stage

Typed == TypeOK /\ RequestOK

\* The inductive invariant.  RequestOK is what makes it inductive: without it
\* a move could start from no stage at all and pass for a founding event.
IInv == /\ Typed
        /\ AuditTrail
        /\ StageReferences
        /\ OutboxMirrorsTrail
        /\ StatusMatchesOutbox

-----------------------------------------------------------------------------
(* Lemmas *)

\* Deleting a stage that no event leads to clears no fromStageId, because each
\* event starts where the one before it ended.
LEMMA ForgetNothing ==
    ASSUME TypeOK, AuditTrail, NEW a \in App, NEW s \in Stage, ~HasHistory(s)
    PROVE  ForgetFrom(trail[a], s) = trail[a]
<1>1. trail[a] \in Seq(StageEvent)
  BY DEF TypeOK
<1>2. \A i \in DOMAIN trail[a] : trail[a][i].to # s
  BY DEF HasHistory
<1>3. ASSUME NEW i \in DOMAIN trail[a] PROVE trail[a][i].from # s
  <2>1. CASE i = 1
    BY <1>1, <2>1, ConstantsAssumption DEF AuditTrail, Chained
  <2>2. CASE i # 1
    <3>1. i \in 2..Len(trail[a]) /\ i - 1 \in DOMAIN trail[a]
      BY <1>1, <2>2
    <3>2. QED
      BY <3>1, <1>2 DEF AuditTrail, Chained
  <2>3. QED BY <2>1, <2>2
<1>4. ForgetFrom(trail[a], s) = [i \in DOMAIN trail[a] |-> trail[a][i]]
  BY <1>3 DEF ForgetFrom
<1>5. QED
  BY <1>1, <1>4

\* So the deletion leaves the audit trail alone.
LEMMA RemoveKeepsTrail ==
    ASSUME Typed, AuditTrail, NEW r \in Req, RemoveDelete(r)
    PROVE  /\ trail' = trail
           /\ live' = live \ {req[r].to}
           /\ \A a \in App : cur[a] # req[r].to
           /\ \A a \in App : \A i \in DOMAIN trail[a] : trail[a][i].to # req[r].to
<1>1. req[r].to \in Stage
  BY DEF Typed, RequestOK, RemoveDelete
<1>2. ~HasHistory(req[r].to) /\ ~InUse(req[r].to)
  BY DEF RemoveDelete, Deletable
<1>3. \A a \in App : ForgetFrom(trail[a], req[r].to) = trail[a]
  BY <1>1, <1>2, ForgetNothing DEF Typed
<1>4. trail' = trail
  BY <1>3 DEF RemoveDelete, Typed, TypeOK
<1>5. QED
  BY <1>2, <1>4 DEF RemoveDelete, HasHistory, InUse

-----------------------------------------------------------------------------
(* Types *)

LEMMA TypedInit == Init => Typed
  BY ConstantsAssumption
     DEF Init, Typed, TypeOK, RequestOK, Idle, Request, StageOrNull, KindOrNone,
         Kinds, TerminalKinds, StageEvent, OutboxRow

LEMMA IdleOK == Idle \in Request
  BY DEF Idle, Request, StageOrNull, KindOrNone

\* A request handler that ends holds nothing.
LEMMA FinishTyped ==
    ASSUME Typed, NEW r \in Req, Finish(r)
    PROVE  /\ req' \in [Req -> Request]
           /\ RequestOK'
<1>1. req' \in [Req -> Request]
  BY IdleOK DEF Typed, TypeOK, Finish
<1>2. RequestOK'
  BY DEF Typed, TypeOK, RequestOK, Finish, Idle
<1>3. QED BY <1>1, <1>2

LEMMA TypedNext ==
    ASSUME Typed, AuditTrail, [Next]_vars
    PROVE  Typed'
<1> USE ConstantsAssumption
<1>1. CASE UNCHANGED vars
  BY <1>1 DEF vars, Typed, TypeOK, RequestOK
<1>2. ASSUME NEW r \in Req, NEW a \in App, ApplyRead(r, a) PROVE Typed'
  BY <1>2 DEF ApplyRead, Typed, TypeOK, RequestOK, IsFirstStage, stageVars,
              appVars, Holding,
              Idle, Request, StageOrNull, KindOrNone
<1>3. ASSUME NEW r \in Req, ApplyCheck(r) PROVE Typed'
  BY <1>3 DEF ApplyCheck, Typed, TypeOK, RequestOK, stageVars, appVars, Holding,
              Idle, Request, StageOrNull, KindOrNone
<1>4. ASSUME NEW r \in Req, ApplyCommit(r) PROVE Typed'
  <2>1. req[r].app \in App /\ req[r].to \in Stage
    BY <1>4 DEF ApplyCommit, Typed, RequestOK
  <2>2. /\ [from |-> NoStage, to |-> req[r].to] \in StageEvent
        /\ Submitted \in OutboxRow
    BY <2>1 DEF StageEvent, StageOrNull, Submitted, OutboxRow, KindOrNone
  <2>3. TypeOK'
    BY <1>4, <2>1, <2>2, FinishTyped
       DEF ApplyCommit, Typed, TypeOK, stageVars, StageOrNull
  <2>4. QED BY <1>4, <2>3, FinishTyped DEF ApplyCommit, Typed
<1>5. ASSUME NEW r \in Req, ApplyRollback(r) PROVE Typed'
  BY <1>5, FinishTyped DEF ApplyRollback, Typed, TypeOK, stageVars, appVars
<1>6. ASSUME NEW r \in Req, NEW a \in App, NEW t \in Stage, NEW h \in BOOLEAN,
             MoveRead(r, a, t, h)
      PROVE  Typed'
  <2>1. cur[a] \in Stage /\ kind[t] \in Kinds
    BY <1>6 DEF MoveRead, Typed, TypeOK, StageOrNull
  <2>2. QED
    BY <1>6, <2>1 DEF MoveRead, Typed, TypeOK, RequestOK, stageVars, appVars,
                      Request, StageOrNull, KindOrNone
<1>7. ASSUME NEW r \in Req, MoveCommit(r) PROVE Typed'
  <2>1. /\ req[r].app \in App /\ req[r].kind \in Kinds
        /\ req[r].from \in Stage /\ req[r].to \in Stage
    BY <1>7 DEF MoveCommit, Typed, RequestOK
  <2>2. /\ [from |-> req[r].from, to |-> req[r].to] \in StageEvent
        /\ StageChanged(req[r].from, req[r].to, req[r].kind) \in OutboxRow
    BY <2>1 DEF StageEvent, StageOrNull, StageChanged, OutboxRow, KindOrNone
  <2>3. TypeOK'
    BY <1>7, <2>1, <2>2, FinishTyped
       DEF MoveCommit, StatusAfter, Typed, TypeOK, stageVars, StageOrNull
  <2>4. QED BY <1>7, <2>3, FinishTyped DEF MoveCommit, Typed
<1>8. ASSUME NEW r \in Req, MoveRollback(r) PROVE Typed'
  BY <1>8, FinishTyped DEF MoveRollback, Typed, TypeOK, stageVars, appVars
<1>9. ASSUME NEW r \in Req, NEW s \in Stage, RemoveFind(r, s) PROVE Typed'
  BY <1>9 DEF RemoveFind, Typed, TypeOK, RequestOK, stageVars, appVars, Holding,
              Idle, Request, StageOrNull, KindOrNone
<1>10. ASSUME NEW r \in Req, RemoveCountInUse(r) PROVE Typed'
  BY <1>10 DEF RemoveCountInUse, Typed, TypeOK, RequestOK, stageVars, appVars,
               Holding, Idle, Request, StageOrNull, KindOrNone
<1>11. ASSUME NEW r \in Req, RemoveCountHistory(r) PROVE Typed'
  BY <1>11 DEF RemoveCountHistory, Typed, TypeOK, RequestOK, stageVars, appVars,
               Holding, Idle, Request, StageOrNull, KindOrNone
<1>12. ASSUME NEW r \in Req, RemoveDelete(r) PROVE Typed'
  BY <1>12, FinishTyped, RemoveKeepsTrail DEF RemoveDelete, Typed, TypeOK
<1>13. ASSUME NEW r \in Req, RemoveRefused(r) PROVE Typed'
  BY <1>13, FinishTyped DEF RemoveRefused, Typed, TypeOK, stageVars, appVars
<1>14. ASSUME NEW s \in Stage, NEW k \in NewKinds, AddStage(s, k) PROVE Typed'
  BY <1>14 DEF AddStage, Typed, TypeOK, RequestOK, appVars
<1>15. ASSUME NEW s \in Stage, NEW k \in EditKinds, UpdateStage(s, k)
       PROVE  Typed'
  BY <1>15 DEF UpdateStage, Typed, TypeOK, RequestOK, appVars
<1>16. QED
  BY <1>1, <1>2, <1>3, <1>4, <1>5, <1>6, <1>7, <1>8, <1>9, <1>10, <1>11,
     <1>12, <1>13, <1>14, <1>15
     DEF Next, Apply, Move, RemoveStage

-----------------------------------------------------------------------------
(* The consistency of the four tables *)

\* The only steps that change an application, or remove a stage.
LEMMA StepKinds ==
    ASSUME [Next]_vars
    PROVE  \/ UNCHANGED appVars /\ live \subseteq live'
           \/ \E r \in Req : ApplyCommit(r) \/ MoveCommit(r) \/ RemoveDelete(r)
  BY DEF Next, Apply, Move, RemoveStage, ApplyRead, ApplyCheck, ApplyRollback,
         MoveRead, MoveRollback, RemoveFind, RemoveCountInUse,
         RemoveCountHistory, RemoveRefused, AddStage, UpdateStage, vars,
         appVars, stageVars

\* The event that ApplyCommit or MoveCommit appends to the trail of one
\* application, with its outbox row.
LEMMA ApplyAppends ==
    ASSUME IInv, NEW r \in Req, ApplyCommit(r)
    PROVE  /\ req[r].app \in App /\ req[r].to \in live
           /\ cur[req[r].app] = NoStage
           /\ trail[req[r].app] = <<>> /\ outbox[req[r].app] = <<>>
           /\ trail'[req[r].app] = <<[from |-> NoStage, to |-> req[r].to]>>
           /\ outbox'[req[r].app] = <<Submitted>>
           /\ cur'[req[r].app] = req[r].to
           /\ \A b \in App \ {req[r].app} : /\ trail'[b] = trail[b]
                                            /\ outbox'[b] = outbox[b]
                                            /\ cur'[b] = cur[b]
           /\ UNCHANGED <<live, status>>
<1> DEFINE a == req[r].app
<1>1. a \in App /\ req[r].to \in live /\ cur[a] = NoStage
  BY DEF IInv, Typed, RequestOK, ApplyCommit, ApplyAccepted
<1>2. trail[a] = <<>> /\ outbox[a] = <<>>
  BY <1>1 DEF IInv, AuditTrail, Chained, OutboxMirrorsTrail, Mirrored, Typed,
              TypeOK
<1>3. /\ Append(trail[a], [from |-> NoStage, to |-> req[r].to])
           = <<[from |-> NoStage, to |-> req[r].to]>>
      /\ Append(outbox[a], Submitted) = <<Submitted>>
  BY <1>2
<1>4. QED
  BY <1>1, <1>2, <1>3 DEF ApplyCommit, IInv, Typed, TypeOK, stageVars

LEMMA MoveAppends ==
    ASSUME IInv, NEW r \in Req, MoveCommit(r)
    PROVE  /\ req[r].app \in App /\ req[r].to \in live
           /\ req[r].from \in Stage /\ req[r].kind \in Kinds
           /\ cur[req[r].app] = req[r].from
           /\ trail[req[r].app] # <<>>
           /\ trail'[req[r].app] = Append(trail[req[r].app],
                               [from |-> req[r].from, to |-> req[r].to])
           /\ outbox'[req[r].app] = Append(outbox[req[r].app],
                    StageChanged(req[r].from, req[r].to, req[r].kind))
           /\ cur'[req[r].app] = req[r].to
           /\ status'[req[r].app] = IF req[r].kind \in TerminalKinds
                                      THEN req[r].kind ELSE status[req[r].app]
           /\ \A b \in App \ {req[r].app} : /\ trail'[b] = trail[b]
                                            /\ outbox'[b] = outbox[b]
                                            /\ cur'[b] = cur[b]
                                            /\ status'[b] = status[b]
           /\ UNCHANGED live
<1>1. /\ req[r].app \in App /\ req[r].from \in Stage /\ req[r].kind \in Kinds
      /\ req[r].to \in live /\ cur[req[r].app] = req[r].from
  BY DEF IInv, Typed, RequestOK, MoveCommit, MoveAccepted
<1>2. trail[req[r].app] # <<>>
  BY <1>1, ConstantsAssumption DEF IInv, AuditTrail, Chained
<1>3. QED
  BY <1>1, <1>2 DEF MoveCommit, StatusAfter, IInv, Typed, TypeOK, stageVars

LEMMA AuditTrailNext ==
    ASSUME IInv, Typed', [Next]_vars
    PROVE  AuditTrail'
<1>1. CASE UNCHANGED appVars
  BY <1>1 DEF IInv, AuditTrail, Chained, appVars
<1>2. ASSUME NEW r \in Req, ApplyCommit(r), NEW b \in App PROVE Chained(b)'
  <2>1. CASE b = req[r].app
    <3> DEFINE e == [from |-> NoStage, to |-> req[r].to]
    <3>1. req[r].to # NoStage
      BY <1>2, ApplyAppends, ConstantsAssumption DEF IInv, Typed, TypeOK
    <3>2. trail'[b] = <<e>> /\ cur'[b] = req[r].to
      BY <1>2, <2>1, ApplyAppends
    <3>3. Len(<<e>>) = 1 /\ Head(<<e>>) = e /\ Last(<<e>>) = e /\ <<e>> # <<>>
      BY DEF Last
    <3>4. e.from = NoStage /\ e.to = req[r].to
      OBVIOUS
    <3> HIDE DEF e
    <3>5. QED
      BY <3>1, <3>2, <3>3, <3>4 DEF Chained
  <2>2. CASE b # req[r].app
    <3>1. trail'[b] = trail[b] /\ cur'[b] = cur[b]
      BY <1>2, <2>2, ApplyAppends
    <3>2. QED BY <3>1 DEF IInv, AuditTrail, Chained
  <2>3. QED BY <2>1, <2>2
<1>3. ASSUME NEW r \in Req, MoveCommit(r), NEW b \in App PROVE Chained(b)'
  <2>1. CASE b = req[r].app
    <3> DEFINE es == trail[b]
               e == [from |-> req[r].from, to |-> req[r].to]
    <3>1. /\ es \in Seq(StageEvent) /\ es # <<>> /\ e \in StageEvent
          /\ e.from = req[r].from /\ e.to = req[r].to
          /\ req[r].to # NoStage /\ Chained(b)
      BY <1>3, <2>1, MoveAppends, ConstantsAssumption
         DEF IInv, AuditTrail, Typed, TypeOK, StageEvent, StageOrNull
    <3>2. trail'[b] = Append(es, e) /\ cur'[b] = e.to /\ cur[b] = e.from
      BY <1>3, <2>1, MoveAppends
    <3> HIDE DEF e
    <3>3. /\ Head(Append(es, e)) = Head(es)
          /\ Last(Append(es, e)) = e
          /\ Len(Append(es, e)) = Len(es) + 1
          /\ \A i \in 1..Len(es) : Append(es, e)[i] = es[i]
          /\ Append(es, e)[Len(es) + 1] = e
          /\ Append(es, e) # <<>>
          /\ Len(es) \in Nat \ {0}
      BY <3>1 DEF Last
    <3>4. Head(es).from = NoStage /\ es[Len(es)].to = e.from
      BY <3>1, <3>2 DEF Chained, Last
    <3>5. ASSUME NEW i \in 2..Len(Append(es, e))
          PROVE  Append(es, e)[i].from = Append(es, e)[i-1].to
      <4>1. CASE i = Len(es) + 1
        <5>1. Append(es, e)[i] = e /\ Append(es, e)[i-1] = es[Len(es)]
          BY <3>3, <4>1
        <5>2. QED BY <5>1, <3>4
      <4>2. CASE i # Len(es) + 1
        <5>1. i \in 2..Len(es) /\ i - 1 \in 1..Len(es) /\ i \in 1..Len(es)
          BY <3>3, <4>2
        <5>2. es[i].from = es[i-1].to
          BY <3>1, <5>1 DEF Chained
        <5>3. QED BY <3>3, <5>1, <5>2
      <4>3. QED BY <4>1, <4>2
    <3>6. QED
      BY <3>1, <3>2, <3>3, <3>4, <3>5 DEF Chained
  <2>2. CASE b # req[r].app
    <3>1. trail'[b] = trail[b] /\ cur'[b] = cur[b]
      BY <1>3, <2>2, MoveAppends
    <3>2. QED BY <3>1 DEF IInv, AuditTrail, Chained
  <2>3. QED BY <2>1, <2>2
<1>4. ASSUME NEW r \in Req, RemoveDelete(r) PROVE AuditTrail'
  BY <1>4, RemoveKeepsTrail DEF IInv, AuditTrail, Chained, RemoveDelete
<1>5. QED
  BY <1>1, <1>2, <1>3, <1>4, StepKinds DEF AuditTrail

LEMMA StageReferencesNext ==
    ASSUME IInv, Typed', [Next]_vars
    PROVE  StageReferences'
<1>1. CASE UNCHANGED appVars /\ live \subseteq live'
  BY <1>1 DEF IInv, StageReferences, Referring, appVars
<1>2. ASSUME NEW r \in Req, ApplyCommit(r), NEW b \in App PROVE Referring(b)'
  <2>1. CASE b = req[r].app
    <3> DEFINE e == [from |-> NoStage, to |-> req[r].to]
    <3>1. /\ trail'[b] = <<e>> /\ cur'[b] = req[r].to
          /\ req[r].to \in live /\ live' = live
      BY <1>2, <2>1, ApplyAppends
    <3>2. DOMAIN <<e>> = {1} /\ <<e>>[1] = e /\ e.to = req[r].to
      OBVIOUS
    <3> HIDE DEF e
    <3>3. QED BY <3>1, <3>2 DEF Referring
  <2>2. CASE b # req[r].app
    <3>1. trail'[b] = trail[b] /\ cur'[b] = cur[b] /\ live' = live
      BY <1>2, <2>2, ApplyAppends
    <3>2. QED BY <3>1 DEF IInv, StageReferences, Referring
  <2>3. QED BY <2>1, <2>2
<1>3. ASSUME NEW r \in Req, MoveCommit(r), NEW b \in App PROVE Referring(b)'
  <2>1. CASE b = req[r].app
    <3> DEFINE es == trail[b]
               e == [from |-> req[r].from, to |-> req[r].to]
    <3>1. /\ trail'[b] = Append(es, e) /\ cur'[b] = e.to /\ cur[b] = e.from
          /\ e.from \in Stage /\ e.to \in live /\ live' = live
      BY <1>3, <2>1, MoveAppends
    <3>2. es \in Seq(StageEvent) /\ Referring(b)
      BY DEF IInv, StageReferences, Typed, TypeOK
    <3> HIDE DEF e
    <3>3. e.from \in live
      BY <3>1, <3>2, ConstantsAssumption DEF Referring
    <3>4. ASSUME NEW i \in DOMAIN Append(es, e)
          PROVE  /\ Append(es, e)[i].to \in live
                 /\ i > 1 => Append(es, e)[i].from \in live
      <4>1. CASE i = Len(es) + 1
        BY <3>1, <3>2, <3>3, <4>1
      <4>2. CASE i # Len(es) + 1
        <5>1. i \in DOMAIN es /\ Append(es, e)[i] = es[i]
          BY <3>2, <4>2
        <5>2. QED BY <3>2, <5>1 DEF Referring
      <4>3. QED BY <4>1, <4>2
    <3>5. QED
      BY <3>1, <3>3, <3>4 DEF Referring
  <2>2. CASE b # req[r].app
    <3>1. trail'[b] = trail[b] /\ cur'[b] = cur[b] /\ live' = live
      BY <1>3, <2>2, MoveAppends
    <3>2. QED BY <3>1 DEF IInv, StageReferences, Referring
  <2>3. QED BY <2>1, <2>2
<1>4. ASSUME NEW r \in Req, RemoveDelete(r) PROVE StageReferences'
  <2>1. ASSUME NEW a \in App, NEW i \in DOMAIN trail[a], i > 1
        PROVE  trail[a][i].from # req[r].to
    <3>1. trail[a] \in Seq(StageEvent)
      BY DEF IInv, Typed, TypeOK
    <3>2. i \in 2..Len(trail[a]) /\ i - 1 \in DOMAIN trail[a]
      BY <2>1, <3>1
    <3>3. trail[a][i].from = trail[a][i-1].to
      BY <3>2 DEF IInv, AuditTrail, Chained
    <3>4. QED
      BY <1>4, <3>2, <3>3, RemoveKeepsTrail DEF IInv
  <2>2. cur' = cur
    BY <1>4 DEF RemoveDelete
  <2>3. QED
    BY <1>4, <2>1, <2>2, RemoveKeepsTrail DEF IInv, StageReferences, Referring
<1>5. QED
  BY <1>1, <1>2, <1>3, <1>4, StepKinds DEF StageReferences

LEMMA OutboxMirrorsTrailNext ==
    ASSUME IInv, Typed', [Next]_vars
    PROVE  OutboxMirrorsTrail'
<1>1. CASE UNCHANGED appVars
  BY <1>1 DEF IInv, OutboxMirrorsTrail, Mirrored, appVars
<1>2. ASSUME NEW r \in Req, ApplyCommit(r), NEW b \in App PROVE Mirrored(b)'
  <2>1. CASE b = req[r].app
    <3> DEFINE e == [from |-> NoStage, to |-> req[r].to]
    <3>1. trail'[b] = <<e>> /\ outbox'[b] = <<Submitted>>
      BY <1>2, <2>1, ApplyAppends
    <3>2. /\ DOMAIN <<e>> = {1} /\ Len(<<e>>) = 1
          /\ Len(<<Submitted>>) = 1 /\ <<Submitted>>[1] = Submitted
      OBVIOUS
    <3> HIDE DEF e
    <3>3. QED BY <3>1, <3>2 DEF Mirrored, Announces
  <2>2. CASE b # req[r].app
    <3>1. trail'[b] = trail[b] /\ outbox'[b] = outbox[b]
      BY <1>2, <2>2, ApplyAppends
    <3>2. QED BY <3>1 DEF IInv, OutboxMirrorsTrail, Mirrored
  <2>3. QED BY <2>1, <2>2
<1>3. ASSUME NEW r \in Req, MoveCommit(r), NEW b \in App PROVE Mirrored(b)'
  <2>1. CASE b = req[r].app
    <3> DEFINE es == trail[b]
               os == outbox[b]
               e == [from |-> req[r].from, to |-> req[r].to]
               o == StageChanged(req[r].from, req[r].to, req[r].kind)
    <3>1. trail'[b] = Append(es, e) /\ outbox'[b] = Append(os, o) /\ es # <<>>
      BY <1>3, <2>1, MoveAppends
    <3>2. /\ es \in Seq(StageEvent) /\ os \in Seq(OutboxRow)
          /\ Len(os) = Len(es) /\ Mirrored(b)
      BY DEF IInv, Typed, TypeOK, OutboxMirrorsTrail, Mirrored
    <3>3. /\ o.type = "application.stage_changed"
          /\ o.from = e.from /\ o.to = e.to
      BY DEF StageChanged
    <3> HIDE DEF e, o
    <3>4. ASSUME NEW i \in DOMAIN Append(es, e)
          PROVE  Announces(Append(os, o)[i], Append(es, e)[i], i)
      <4>1. CASE i = Len(es) + 1
        <5>1. i # 1 /\ Append(es, e)[i] = e /\ Append(os, o)[i] = o
          BY <3>1, <3>2, <4>1
        <5>2. QED BY <3>3, <5>1 DEF Announces
      <4>2. CASE i # Len(es) + 1
        <5>1. /\ i \in DOMAIN es
              /\ Append(es, e)[i] = es[i] /\ Append(os, o)[i] = os[i]
          BY <3>2, <4>2
        <5>2. QED BY <3>2, <5>1 DEF Mirrored
      <4>3. QED BY <4>1, <4>2
    <3>5. Len(Append(os, o)) = Len(Append(es, e))
      BY <3>2
    <3>6. QED
      BY <3>1, <3>4, <3>5 DEF Mirrored
  <2>2. CASE b # req[r].app
    <3>1. trail'[b] = trail[b] /\ outbox'[b] = outbox[b]
      BY <1>3, <2>2, MoveAppends
    <3>2. QED BY <3>1 DEF IInv, OutboxMirrorsTrail, Mirrored
  <2>3. QED BY <2>1, <2>2
<1>4. ASSUME NEW r \in Req, RemoveDelete(r) PROVE OutboxMirrorsTrail'
  BY <1>4, RemoveKeepsTrail DEF IInv, OutboxMirrorsTrail, Mirrored, RemoveDelete
<1>5. QED
  BY <1>1, <1>2, <1>3, <1>4, StepKinds DEF OutboxMirrorsTrail

LEMMA StatusNext ==
    ASSUME IInv, Typed', [Next]_vars
    PROVE  StatusMatchesOutbox'
<1> USE DEF OutcomeAt
<1>1. CASE UNCHANGED appVars
  BY <1>1 DEF IInv, StatusMatchesOutbox, StatusAnnounced, appVars
<1>2. ASSUME NEW r \in Req, ApplyCommit(r), NEW b \in App
      PROVE  StatusAnnounced(b)'
  <2>1. CASE b = req[r].app
    <3>1. /\ outbox[b] = <<>> /\ outbox'[b] = <<Submitted>>
          /\ status'[b] = status[b]
      BY <1>2, <2>1, ApplyAppends
    <3>2. DOMAIN outbox[b] = {}
      BY <3>1
    <3>3. status[b] = "ACTIVE"
      BY <3>2 DEF IInv, StatusMatchesOutbox, StatusAnnounced
    <3>4. /\ DOMAIN <<Submitted>> = {1} /\ <<Submitted>>[1] = Submitted
          /\ Submitted.kind \notin TerminalKinds
      BY DEF Submitted, TerminalKinds
    <3>5. QED BY <3>1, <3>3, <3>4 DEF StatusAnnounced
  <2>2. CASE b # req[r].app
    <3>1. outbox'[b] = outbox[b] /\ status'[b] = status[b]
      BY <1>2, <2>2, ApplyAppends
    <3>2. QED BY <3>1 DEF IInv, StatusMatchesOutbox, StatusAnnounced
  <2>3. QED BY <2>1, <2>2
<1>3. ASSUME NEW r \in Req, MoveCommit(r), NEW b \in App
      PROVE  StatusAnnounced(b)'
  <2>1. CASE b = req[r].app
    <3> DEFINE os == outbox[b]
               o == StageChanged(req[r].from, req[r].to, req[r].kind)
    <3>1. /\ os \in Seq(OutboxRow) /\ StatusAnnounced(b)
          /\ outbox'[b] = Append(os, o)
      BY <1>3, <2>1, MoveAppends DEF IInv, Typed, TypeOK, StatusMatchesOutbox
    <3>2. status'[b] = IF o.kind \in TerminalKinds THEN o.kind ELSE status[b]
      BY <1>3, <2>1, MoveAppends DEF StageChanged
    <3> HIDE DEF o
    <3>3. /\ Append(os, o)[Len(os) + 1] = o
          /\ DOMAIN Append(os, o) = 1..(Len(os) + 1)
          /\ \A i \in 1..Len(os) : Append(os, o)[i] = os[i]
          /\ Len(os) \in Nat /\ DOMAIN os = 1..Len(os)
      BY <3>1
    <3>4. CASE o.kind \in TerminalKinds
      <4>1. status'[b] = o.kind /\ status'[b] # "ACTIVE"
        BY <3>2, <3>4 DEF TerminalKinds
      <4>2. Len(os) + 1 \in DOMAIN Append(os, o)
        BY <3>3
      <4>3. \A j \in DOMAIN Append(os, o) : ~(j > Len(os) + 1)
        BY <3>3
      <4>4. QED
        BY <3>1, <3>3, <4>1, <4>2, <4>3 DEF StatusAnnounced
    <3>5. CASE o.kind \notin TerminalKinds /\ status[b] = "ACTIVE"
      <4>1. status'[b] = "ACTIVE"
        BY <3>2, <3>5
      <4>2. \A i \in DOMAIN os : os[i].kind \notin TerminalKinds
        BY <3>1, <3>5 DEF StatusAnnounced
      <4>3. \A i \in DOMAIN Append(os, o) :
              Append(os, o)[i].kind \notin TerminalKinds
        BY <3>3, <3>5, <4>2
      <4>4. QED BY <3>1, <4>1, <4>3 DEF StatusAnnounced
    <3>6. CASE o.kind \notin TerminalKinds /\ status[b] # "ACTIVE"
      <4>1. status'[b] = status[b]
        BY <3>2, <3>6
      <4>2. PICK i \in DOMAIN os :
              /\ os[i].kind = status[b]
              /\ \A j \in DOMAIN os : j > i => os[j].kind \notin TerminalKinds
        BY <3>1, <3>6 DEF StatusAnnounced
      <4>3. \A j \in DOMAIN Append(os, o) :
              j > i => Append(os, o)[j].kind \notin TerminalKinds
        BY <3>3, <3>6, <4>2
      <4>4. Append(os, o)[i].kind = status[b] /\ i \in DOMAIN Append(os, o)
        BY <3>3, <4>2
      <4>5. QED
        BY <3>1, <3>6, <4>1, <4>3, <4>4 DEF StatusAnnounced
    <3>7. QED BY <3>4, <3>5, <3>6
  <2>2. CASE b # req[r].app
    <3>1. outbox'[b] = outbox[b] /\ status'[b] = status[b]
      BY <1>3, <2>2, MoveAppends
    <3>2. QED BY <3>1 DEF IInv, StatusMatchesOutbox, StatusAnnounced
  <2>3. QED BY <2>1, <2>2
<1>4. ASSUME NEW r \in Req, RemoveDelete(r) PROVE StatusMatchesOutbox'
  BY <1>4 DEF IInv, StatusMatchesOutbox, StatusAnnounced, RemoveDelete
<1>5. QED
  BY <1>1, <1>2, <1>3, <1>4, StepKinds DEF StatusMatchesOutbox

-----------------------------------------------------------------------------
(* Theorems *)

LEMMA IInvInit == Init => IInv
<1> SUFFICES ASSUME Init PROVE IInv
  OBVIOUS
<1>1. Typed
  BY TypedInit
<1>2. AuditTrail /\ StageReferences /\ OutboxMirrorsTrail /\ StatusMatchesOutbox
  BY DEF Init, AuditTrail, Chained, StageReferences, Referring,
         OutboxMirrorsTrail, Mirrored, StatusMatchesOutbox, StatusAnnounced,
         OutcomeAt
<1>3. QED BY <1>1, <1>2 DEF IInv

LEMMA IInvNext == IInv /\ [Next]_vars => IInv'
<1> SUFFICES ASSUME IInv, [Next]_vars PROVE IInv'
  OBVIOUS
<1>1. Typed'
  BY TypedNext DEF IInv
<1>2. AuditTrail'
  BY <1>1, AuditTrailNext
<1>3. StageReferences'
  BY <1>1, StageReferencesNext
<1>4. OutboxMirrorsTrail' /\ StatusMatchesOutbox'
  BY <1>1, OutboxMirrorsTrailNext, StatusNext
<1>5. QED BY <1>1, <1>2, <1>3, <1>4 DEF IInv

LEMMA IInvAlways == Spec => []IInv
  BY IInvInit, IInvNext, PTL DEF Spec

\* Every table holds rows of its schema's types.
THEOREM TypeCorrect == Spec => []TypeOK
<1>1. IInv => TypeOK
  BY DEF IInv, Typed
<1>2. QED BY <1>1, IInvAlways, PTL

\* The audit trail of every application is an unbroken chain that ends where
\* the application is, whatever requests race (applications/service.ts).
THEOREM AuditTrailAlways == Spec => []AuditTrail
<1>1. IInv => AuditTrail
  BY DEF IInv
<1>2. QED BY <1>1, IInvAlways, PTL

\* No application and no stage event refers to a removed stage, whatever
\* happens between removeStage's counts and its delete (jobs/service.ts).
THEOREM StageReferencesAlways == Spec => []StageReferences
<1>1. IInv => StageReferences
  BY DEF IInv
<1>2. QED BY <1>1, IInvAlways, PTL

\* Stage events and outbox rows correspond one to one (events/outbox.ts).
THEOREM OutboxMirrorsTrailAlways == Spec => []OutboxMirrorsTrail
<1>1. IInv => OutboxMirrorsTrail
  BY DEF IInv
<1>2. QED BY <1>1, IInvAlways, PTL

\* An application's status is the last outcome announced for it.
THEOREM StatusMatchesOutboxAlways == Spec => []StatusMatchesOutbox
<1>1. IInv => StatusMatchesOutbox
  BY DEF IInv
<1>2. QED BY <1>1, IInvAlways, PTL

-----------------------------------------------------------------------------
(* The policy *)

\* What validateTransition found at the read still holds at the commit, for
\* the stage the request read: kinds stand still, and a stage of the snapshot
\* is never added anew.
SnapshotValid ==
    \A r \in Req : req[r].pc = "move" =>
      /\ req[r].from \in used /\ req[r].to \in used
      /\ req[r].to # req[r].from
      /\ req[r].kind = kind[req[r].to]
      /\ kind[req[r].from] \notin TerminalKinds
      /\ kind[req[r].to] = "HIRED" => kind[req[r].from] = "OFFER"

\* A closed application sits in a terminal stage.
ClosedInTerminal ==
    \A a \in App : status[a] # "ACTIVE" =>
      cur[a] \in used /\ kind[cur[a]] \in TerminalKinds

PInv == IInv /\ SnapshotValid /\ ClosedInTerminal /\ OneOutcome

\* A move that commits is one the policy allows, and moves an open application.
LEMMA MoveIsValid ==
    ASSUME PInv, NEW r \in Req, MoveCommit(r)
    PROVE  LET a == req[r].app IN
           /\ cur[a] = req[r].from /\ req[r].to \in used
           /\ cur[a] \in live /\ req[r].to \in live /\ req[r].to # cur[a]
           /\ req[r].kind = kind[req[r].to]
           /\ kind[cur[a]] \notin TerminalKinds
           /\ kind[req[r].to] = "HIRED" => kind[cur[a]] = "OFFER"
           /\ status[a] = "ACTIVE"
<1> DEFINE a == req[r].app
<1>1. /\ a \in App /\ cur[a] = req[r].from /\ req[r].to \in live
      /\ req[r].from \in Stage
  BY MoveAppends DEF PInv
<1>2. cur[a] \in live
  BY <1>1, ConstantsAssumption DEF PInv, IInv, StageReferences, Referring
<1>3. /\ req[r].to # cur[a] /\ req[r].kind = kind[req[r].to]
      /\ kind[cur[a]] \notin TerminalKinds /\ req[r].to \in used
      /\ kind[req[r].to] = "HIRED" => kind[cur[a]] = "OFFER"
  BY <1>1 DEF PInv, SnapshotValid, MoveCommit
<1>4. status[a] = "ACTIVE"
  BY <1>1, <1>3 DEF PInv, ClosedInTerminal
<1>5. QED BY <1>1, <1>2, <1>3, <1>4

\* Without edits, the kind of a stage in use never changes.
LEMMA KindsStand ==
    ASSUME EditKinds = {}, IInv, [Next]_vars
    PROVE  used \subseteq used' /\ \A s \in used : kind'[s] = kind[s]
<1>1. CASE UNCHANGED <<used, kind>>
  BY <1>1
<1>2. ASSUME NEW s \in Stage, NEW k \in NewKinds, AddStage(s, k)
      PROVE  used \subseteq used' /\ \A t \in used : kind'[t] = kind[t]
  BY <1>2 DEF AddStage, IInv, Typed, TypeOK
<1>3. QED
  BY <1>1, <1>2
     DEF Next, Apply, Move, RemoveStage, ApplyRead, ApplyCheck, ApplyCommit,
         ApplyRollback, MoveRead, MoveCommit, MoveRollback, RemoveFind,
         RemoveCountInUse, RemoveCountHistory, RemoveDelete, RemoveRefused,
         vars, stageVars

LEMMA SnapshotValidNext ==
    ASSUME EditKinds = {}, PInv, Typed', [Next]_vars
    PROVE  SnapshotValid'
<1>1. used \subseteq used' /\ \A s \in used : kind'[s] = kind[s]
  BY KindsStand DEF PInv
<1>2. ASSUME NEW r \in Req, NEW a \in App, NEW t \in Stage, NEW h \in BOOLEAN,
             MoveRead(r, a, t, h)
      PROVE  SnapshotValid'
  <2>1. cur[a] \in used /\ t \in used
    BY <1>2 DEF MoveRead, PInv, IInv, StageReferences, Referring, Typed, TypeOK
  <2>2. ASSUME NEW q \in Req, q # r PROVE req'[q] = req[q]
    BY <1>2, <2>2 DEF MoveRead, PInv, IInv, Typed, TypeOK
  <2>3. req'[r] = [pc |-> "move", app |-> a, from |-> cur[a], to |-> t,
                   kind |-> kind[t]]
    BY <1>2 DEF MoveRead, PInv, IInv, Typed, TypeOK
  <2>4. kind' = kind /\ used' = used
    BY <1>2 DEF MoveRead, stageVars
  <2>5. QED
    BY <1>2, <2>1, <2>2, <2>3, <2>4
       DEF MoveRead, ValidTransition, PInv, SnapshotValid
<1>3. CASE \A q \in Req : req'[q] = req[q] \/ req'[q].pc # "move"
  BY <1>1, <1>3 DEF PInv, SnapshotValid
<1>4. CASE UNCHANGED req
  BY <1>3, <1>4
<1>5. ASSUME NEW r \in Req, Finish(r) PROVE SnapshotValid'
  <2>1. \A q \in Req : req'[q] = req[q] \/ req'[q].pc # "move"
    BY <1>5 DEF Finish, Idle, PInv, IInv, Typed, TypeOK
  <2>2. QED BY <1>3, <2>1
<1>6. ASSUME NEW r \in Req, NEW x,
             req' = [req EXCEPT ![r] = x], x.pc # "move"
      PROVE  SnapshotValid'
  <2>1. \A q \in Req : req'[q] = req[q] \/ req'[q].pc # "move"
    BY <1>6 DEF PInv, IInv, Typed, TypeOK
  <2>2. QED BY <1>3, <2>1
<1>7. ASSUME NEW r \in Req, NEW a \in App, ApplyRead(r, a) PROVE SnapshotValid'
  BY <1>6, <1>7 DEF ApplyRead, Holding
<1>8. ASSUME NEW r \in Req, ApplyCheck(r) PROVE SnapshotValid'
  <2> DEFINE next == IF cur[req[r].app] = NoStage
                       THEN Holding("apply.commit", req[r].app, req[r].to)
                       ELSE Idle
  <2>1. next.pc # "move"
    BY DEF Holding, Idle
  <2>2. req' = [req EXCEPT ![r] = next]
    BY <1>8 DEF ApplyCheck
  <2> HIDE DEF next
  <2>3. QED BY <1>6, <2>1, <2>2
<1>9. ASSUME NEW r \in Req, NEW s \in Stage, RemoveFind(r, s)
      PROVE  SnapshotValid'
  <2>1. Holding("remove.inUse", NoApp, s).pc # "move"
    BY DEF Holding
  <2>2. req' = [req EXCEPT ![r] = Holding("remove.inUse", NoApp, s)]
    BY <1>9 DEF RemoveFind
  <2>3. QED BY <1>6, <2>1, <2>2
<1>10. ASSUME NEW r \in Req, RemoveCountInUse(r) \/ RemoveCountHistory(r)
       PROVE  SnapshotValid'
  BY <1>6, <1>10 DEF RemoveCountInUse, RemoveCountHistory, Holding, Idle
<1>11. QED
  BY <1>2, <1>4, <1>5, <1>7, <1>8, <1>9, <1>10
     DEF Next, Apply, Move, RemoveStage, ApplyCommit, ApplyRollback, MoveCommit,
         MoveRollback, RemoveDelete, RemoveRefused, AddStage, UpdateStage, vars

LEMMA ClosedNext ==
    ASSUME EditKinds = {}, PInv, [Next]_vars
    PROVE  ClosedInTerminal' /\ OneOutcome'
<1>1. used \subseteq used' /\ \A s \in used : kind'[s] = kind[s]
  BY KindsStand DEF PInv
<1>2. CASE UNCHANGED appVars
  BY <1>1, <1>2 DEF PInv, ClosedInTerminal, OneOutcome, OutcomeAt, appVars
<1>3. ASSUME NEW r \in Req, ApplyCommit(r)
      PROVE  ClosedInTerminal' /\ OneOutcome'
  <2> DEFINE a == req[r].app
  <2>1. /\ a \in App /\ cur[a] = NoStage /\ outbox'[a] = <<Submitted>>
        /\ status' = status
        /\ \A b \in App \ {a} : outbox'[b] = outbox[b] /\ cur'[b] = cur[b]
    BY <1>3, ApplyAppends DEF PInv
  <2>2. status[a] = "ACTIVE"
    BY <2>1, ConstantsAssumption DEF PInv, ClosedInTerminal, IInv, Typed, TypeOK
  <2>3. ClosedInTerminal'
    BY <1>1, <2>1, <2>2 DEF PInv, ClosedInTerminal
  <2>4. DOMAIN <<Submitted>> = {1}
    OBVIOUS
  <2>5. OneOutcome'
    BY <2>1, <2>4 DEF PInv, OneOutcome, OutcomeAt
  <2>6. QED BY <2>3, <2>5
<1>4. ASSUME NEW r \in Req, MoveCommit(r)
      PROVE  ClosedInTerminal' /\ OneOutcome'
  <2> DEFINE a == req[r].app
             os == outbox[a]
             o == StageChanged(req[r].from, req[r].to, req[r].kind)
  <2>1. /\ a \in App /\ cur'[a] = req[r].to
        /\ status'[a] = IF req[r].kind \in TerminalKinds
                          THEN req[r].kind ELSE status[a]
        /\ outbox'[a] = Append(os, o)
        /\ \A b \in App \ {a} : /\ outbox'[b] = outbox[b] /\ cur'[b] = cur[b]
                                /\ status'[b] = status[b]
    BY <1>4, MoveAppends DEF PInv
  <2>2. /\ status[a] = "ACTIVE" /\ req[r].to \in used
        /\ req[r].kind = kind[req[r].to]
    BY <1>4, MoveIsValid
  <2>3. ClosedInTerminal'
    BY <1>1, <2>1, <2>2 DEF PInv, ClosedInTerminal
  <2>4. \A i \in DOMAIN os : os[i].kind \notin TerminalKinds
    BY <2>1, <2>2 DEF PInv, IInv, StatusMatchesOutbox, StatusAnnounced, OutcomeAt
  <2>5. os \in Seq(OutboxRow)
    BY <2>1 DEF PInv, IInv, Typed, TypeOK
  <2> HIDE DEF o
  <2>6. \A i \in DOMAIN Append(os, o) : i = Len(os) + 1 \/
          (i \in DOMAIN os /\ Append(os, o)[i] = os[i])
    BY <2>5
  <2>7. \A i \in DOMAIN Append(os, o) :
          Append(os, o)[i].kind \in TerminalKinds => i = Len(os) + 1
    BY <2>4, <2>6
  <2>8. ASSUME NEW b \in App, NEW i \in DOMAIN outbox'[b],
               NEW j \in DOMAIN outbox'[b],
               outbox'[b][i].kind \in TerminalKinds,
               outbox'[b][j].kind \in TerminalKinds
        PROVE  i = j
    <3>1. CASE b = a
      BY <2>1, <2>7, <2>8, <3>1
    <3>2. CASE b # a
      BY <2>1, <2>8, <3>2 DEF PInv, OneOutcome, OutcomeAt
    <3>3. QED BY <3>1, <3>2
  <2>9. QED BY <2>3, <2>8 DEF OneOutcome, OutcomeAt
<1>5. ASSUME NEW r \in Req, RemoveDelete(r)
      PROVE  ClosedInTerminal' /\ OneOutcome'
  BY <1>1, <1>5 DEF RemoveDelete, PInv, ClosedInTerminal, OneOutcome, OutcomeAt
<1>6. QED
  BY <1>2, <1>3, <1>4, <1>5, StepKinds

LEMMA PInvAlways ==
    ASSUME EditKinds = {}
    PROVE  Spec => []PInv
<1>1. Init => PInv
  <2> SUFFICES ASSUME Init PROVE PInv
    OBVIOUS
  <2>1. IInv
    BY IInvInit
  <2>2. SnapshotValid /\ ClosedInTerminal /\ OneOutcome
    BY DEF Init, Idle, SnapshotValid, ClosedInTerminal, OneOutcome
  <2>3. QED BY <2>1, <2>2 DEF PInv
<1>2. PInv /\ [Next]_vars => PInv'
  <2> SUFFICES ASSUME PInv, [Next]_vars PROVE PInv'
    OBVIOUS
  <2>1. IInv'
    BY IInvNext DEF PInv
  <2>2. SnapshotValid'
    BY <2>1, SnapshotValidNext DEF IInv
  <2>3. ClosedInTerminal' /\ OneOutcome'
    BY ClosedNext
  <2>4. QED BY <2>1, <2>2, <2>3 DEF PInv
<1>3. QED BY <1>1, <1>2, PTL DEF Spec

-----------------------------------------------------------------------------
(* Theorems *)

\* A candidate is never told two outcomes, while stage kinds are not edited.
THEOREM OneOutcomeAlways ==
    ASSUME EditKinds = {}
    PROVE  Spec => []OneOutcome
<1>1. PInv => OneOutcome
  BY DEF PInv
<1>2. QED BY <1>1, PInvAlways, PTL

\* "Nothing moves once an application is in a terminal stage" holds of every
\* step, while stage kinds are not edited (transitions.ts).
THEOREM ClosedNeverMovesTheorem ==
    ASSUME EditKinds = {}
    PROVE  Spec => ClosedNeverMoves
<1>1. ASSUME PInv, [Next]_vars, NEW b \in App, status[b] # "ACTIVE"
      PROVE  cur'[b] = cur[b]
  <2>1. CASE UNCHANGED appVars
    BY <2>1 DEF appVars
  <2>2. ASSUME NEW r \in Req, ApplyCommit(r) PROVE cur'[b] = cur[b]
    <3>1. cur[b] # NoStage
      BY <1>1, ConstantsAssumption DEF PInv, ClosedInTerminal, IInv, Typed, TypeOK
    <3>2. /\ cur[req[r].app] = NoStage
          /\ \A a \in App \ {req[r].app} : cur'[a] = cur[a]
      BY <1>1, <2>2, ApplyAppends DEF PInv
    <3>3. QED BY <3>1, <3>2
  <2>3. ASSUME NEW r \in Req, MoveCommit(r) PROVE cur'[b] = cur[b]
    BY <1>1, <2>3, MoveIsValid, MoveAppends DEF PInv
  <2>4. ASSUME NEW r \in Req, RemoveDelete(r) PROVE cur'[b] = cur[b]
    BY <2>4 DEF RemoveDelete
  <2>5. QED BY <1>1, <2>1, <2>2, <2>3, <2>4, StepKinds
<1>2. PInv /\ [Next]_vars
        => [\A a \in App : status[a] # "ACTIVE" => cur'[a] = cur[a]]_vars
  BY <1>1
<1>3. QED BY <1>2, PInvAlways, PTL DEF Spec, ClosedNeverMoves

\* The handlers implement HiringPolicy, in which a move is validated and made
\* in one step: no policy decision is taken on a stale read.
THEOREM PipelineImplementsPolicy ==
    ASSUME EditKinds = {}
    PROVE  Spec => ImplementsPolicy
<1> USE DEF Policy!vars, Policy!stageVars
<1>1. Init => Policy!Init
  BY DEF Init, Policy!Init
<1>2. ASSUME PInv, [Next]_vars PROVE [Policy!Next]_(Policy!vars)
  <2>1. ASSUME NEW r \in Req, ApplyCommit(r) PROVE Policy!Next
    <3> DEFINE a == req[r].app
    <3>1. a \in App /\ req[r].to \in live /\ cur[a] = NoStage
      BY <1>2, <2>1, ApplyAppends DEF PInv
    <3>2. req[r].to \in Stage
      BY <1>2, <3>1 DEF PInv, IInv, Typed, TypeOK
    <3>3. Policy!Apply(a, req[r].to)
      BY <2>1, <3>1 DEF ApplyCommit, Policy!Apply, Policy!Record, stageVars
    <3>4. QED BY <3>1, <3>2, <3>3 DEF Policy!Next
  <2>2. ASSUME NEW r \in Req, MoveCommit(r) PROVE Policy!Next
    <3> DEFINE a == req[r].app
    <3>1. /\ a \in App /\ cur[a] = req[r].from /\ req[r].to \in Stage
      BY <1>2, <2>2, MoveAppends DEF PInv, IInv, Typed, TypeOK
    <3>2. Policy!Move(a, req[r].to)
      BY <1>2, <2>2, <3>1, MoveIsValid
         DEF MoveCommit, StatusAfter, Policy!Move, Policy!Record, Policy!Terminal,
             TerminalKinds, stageVars
    <3>3. QED BY <3>1, <3>2 DEF Policy!Next
  <2>3. ASSUME NEW r \in Req, RemoveDelete(r) PROVE Policy!Next
    <3> DEFINE s == req[r].to
    <3>1. s \in live /\ s \in Stage
      BY <1>2, <2>3 DEF RemoveDelete, Deletable, PInv, IInv, Typed, TypeOK
    <3>2. Policy!RemoveStage(s)
      BY <1>2, <2>3, <3>1, RemoveKeepsTrail
         DEF RemoveDelete, Policy!RemoveStage, PInv, IInv
    <3>3. QED BY <3>1, <3>2 DEF Policy!Next
  <2>4. ASSUME NEW s \in Stage, NEW k \in NewKinds, AddStage(s, k)
        PROVE  Policy!Next
    BY <2>4 DEF AddStage, appVars, Policy!AddStage, Policy!Next
  <2>5. CASE UNCHANGED <<stageVars, appVars>>
    BY <2>5 DEF stageVars, appVars
  <2>6. QED
    BY <1>2, <2>1, <2>2, <2>3, <2>4, <2>5
       DEF Next, Apply, Move, RemoveStage, ApplyRead, ApplyCheck, ApplyRollback,
           MoveRead, MoveRollback, RemoveFind, RemoveCountInUse,
           RemoveCountHistory, RemoveRefused, vars, stageVars, appVars
<1>3. QED
  BY <1>1, <1>2, PInvAlways, PTL
     DEF Spec, ImplementsPolicy, Policy!Spec
=============================================================================
