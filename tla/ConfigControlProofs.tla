------------------------ MODULE ConfigControlProofs ------------------------
(***************************************************************************)
(* What holds of the configuration control plane for every set of          *)
(* handlers, providers, models and aliases, and every bound.               *)
(*                                                                         *)
(* The invariant IInv is inductive.  From it follow that revisions only    *)
(* grow and that no staged change reaches the tables twice.  With          *)
(* LoadUntorn beside it, an apply that ends well serves what is stored.    *)
(***************************************************************************)
EXTENDS ConfigControl, TLAPS

---------------------------------------------------------------------------
(* The operations on documents stay within Config *)

LEMMA PatchedType ==
    ASSUME NEW c \in Config, NEW op \in PatchOps
    PROVE  Patched(c, op) \in Config
<1>1. CASE op.kind = "defaults"
  <2>1. op.value \in Values
    BY <1>1 DEF PatchOps
  <2>2. Patched(c, op) = [c EXCEPT !.settings.defaults = op.value]
    BY <1>1 DEF Patched
  <2> QED BY <2>1, <2>2 DEF Config
<1>2. CASE op.kind = "server"
  <2>1. op.value \in Values
    BY <1>2 DEF PatchOps
  <2>2. Patched(c, op) = [c EXCEPT !.settings.server = op.value]
    BY <1>2 DEF Patched
  <2> QED BY <2>1, <2>2 DEF Config
<1>3. CASE op.kind = "route"
  <2>1. op.alias \in Aliases /\ op.provider \in Providers
    BY <1>3 DEF PatchOps
  <2>2. Patched(c, op) = [c EXCEPT !.routes[op.alias] = op.provider]
    BY <1>3 DEF Patched
  <2> QED BY <2>1, <2>2 DEF Config
<1> QED BY <1>1, <1>2, <1>3 DEF PatchOps

LEMMA CreatedType ==
    ASSUME NEW c \in Config, NEW r \in Resources
    PROVE  Created(c, r) \in Config
<1>1. CASE r.kind = "provider"
  BY <1>1 DEF Created, Resources, Config
<1>2. CASE r.kind = "model"
  BY <1>2 DEF Created, Resources, Config
<1>3. CASE r.kind = "offer"
  <2>1. OfferOf(r) \in Offers
    BY <1>3 DEF Resources, OfferOf, Offers
  <2>2. Created(c, r) = [c EXCEPT !.offers = @ \cup {OfferOf(r)}]
    BY <1>3 DEF Created
  <2> QED BY <2>1, <2>2 DEF Config
<1>4. CASE r.kind = "route"
  BY <1>4 DEF Created, Resources, Config
<1> QED BY <1>1, <1>2, <1>3, <1>4 DEF Resources

LEMMA DeletedType ==
    ASSUME NEW c \in Config, NEW r \in Resources
    PROVE  Deleted(c, r) \in Config
<1>1. CASE r.kind = "provider"
  BY <1>1 DEF Deleted, DropProvider, Resources, Config
<1>2. CASE r.kind = "model"
  BY <1>2 DEF Deleted, Resources, Config
<1>3. CASE r.kind = "offer"
  BY <1>3 DEF Deleted, Resources, Config
<1>4. CASE r.kind = "route"
  BY <1>4 DEF Deleted, Resources, Config
<1> QED BY <1>1, <1>2, <1>3, <1>4 DEF Resources

LEMMA ChangeAppliedType ==
    ASSUME NEW c \in Config, NEW ch \in Changes
    PROVE  ChangeApplied(c, ch) \in Config
<1>1. CASE ch.action = "set"
  <2>1. ch.value \in Values
    BY <1>1 DEF Changes
  <2>2. ChangeApplied(c, ch) = [c EXCEPT !.settings.defaults = ch.value]
    BY <1>1 DEF ChangeApplied
  <2> QED BY <2>1, <2>2 DEF Config
<1>2. CASE ch.action = "upsert"
  <2>1. ch.resource \in Resources
    BY <1>2 DEF Changes
  <2> QED BY <1>2, <2>1, CreatedType DEF ChangeApplied
<1>3. CASE ch.action = "delete"
  <2>1. ch.resource \in Resources
    BY <1>3 DEF Changes
  <2> QED BY <1>3, <2>1, DeletedType DEF ChangeApplied
<1> QED BY <1>1, <1>2, <1>3 DEF Changes

\* What a graph request carries.
LEMMA RequestParts ==
    ASSUME NEW r \in Requests \cup {NoRequest}
    PROVE  /\ r.kind \in {"create", "delete"} => r.resource \in Resources
           /\ r.kind \in {"patch", "validate"} => r.op \in PatchOps \cup {NoOp}
           /\ r.kind = "stage" => r.change \in Changes
           /\ r.kind \in AllKinds \cup {"none"}
BY KindsAssumption DEF Requests, NoRequest, AllKinds, GraphWrites

LEMMA CandidateType ==
    ASSUME NEW r \in Requests \cup {NoRequest}, NEW c \in Config,
           r.kind \in GraphWrites
    PROVE  Candidate(r, c) \in Config
<1>1. CASE r.kind = "create"
  BY <1>1, RequestParts, CreatedType DEF Candidate
<1>2. CASE r.kind = "delete"
  BY <1>2, RequestParts, DeletedType DEF Candidate
<1>3. CASE r.kind = "patch"
  BY <1>3, RequestParts, PatchedType DEF Candidate
<1> QED BY <1>1, <1>2, <1>3 DEF GraphWrites

---------------------------------------------------------------------------
(* Type correctness *)

\* A response resets the local variables of its handler, and those only.
LEMMA RespondType ==
    ASSUME TypeOK, NEW h \in Handlers, NEW o \in Results, Respond(h, o)
    PROVE  /\ pc' \in [Handlers -> Phases]
           /\ req' \in [Handlers -> Requests \cup {NoRequest}]
           /\ cfg' \in [Handlers -> Config]
           /\ todo' \in [Handlers -> SUBSET Rows]
           /\ batch' \in [Handlers -> SUBSET Rows]
           /\ result' \in [Handlers -> Results]
BY YamlAssumption DEF TypeOK, Respond, Phases

LEMMA TypeInit == Init => TypeOK
<1> SUFFICES ASSUME Init PROVE TypeOK
  OBVIOUS
<1>1. Yaml \in Config
  BY YamlAssumption
<1> QED
  BY <1>1, MaxRevisionAssumption, MaxChangesAssumption
  DEF Init, TypeOK, Phases, Results

LEMMA TypeNext == TypeOK /\ PhaseOfKind /\ [Next]_vars => TypeOK'
<1> SUFFICES ASSUME TypeOK, PhaseOfKind, [Next]_vars PROVE TypeOK'
  OBVIOUS
<1> USE DEF TypeOK, storeVars, txVars, Goto
<1>1. ASSUME NEW h \in Handlers, NEW r \in Requests, Receive(h, r) PROVE TypeOK'
  <2>1. FirstPhase(r.kind) \in Phases
    BY DEF FirstPhase, Phases
  <2> QED BY <1>1, <2>1 DEF Receive, Results
<1>2. ASSUME NEW h \in Handlers, ReadRevision(h) PROVE TypeOK'
  <2>1. CASE Conflicts(h) /\ Respond(h, "revisionConflict")
    BY <1>2, <2>1, RespondType DEF ReadRevision, Results
  <2>2. CASE Goto(h, AfterRevision(h)) /\ UNCHANGED <<req, cfg, todo, batch, result>>
    <3>1. AfterRevision(h) \in Phases
      BY DEF AfterRevision, Phases, LoadPhases
    <3> QED BY <1>2, <2>2, <3>1 DEF ReadRevision
  <2>3. CASE Respond(h, "error")
    BY <1>2, <2>3, RespondType DEF ReadRevision, Results
  <2> QED BY <1>2, <2>1, <2>2, <2>3 DEF ReadRevision
<1>3. ASSUME NEW h \in Handlers, RereadRevision(h) PROVE TypeOK'
  <2>1. CASE UNCHANGED <<req, cfg, todo, batch, result>>
    BY <1>3, <2>1 DEF RereadRevision, Phases, LoadPhases, Respond
  <2>2. CASE Respond(h, "error")
    BY <1>3, <2>2, RespondType DEF RereadRevision, Results
  <2> QED BY <1>3, <2>1, <2>2 DEF RereadRevision
<1>4. ASSUME NEW h \in Handlers, ReadSnapshot(h) PROVE TypeOK'
  BY <1>4, RespondType DEF ReadSnapshot, Results
<1>5. ASSUME NEW h \in Handlers, LoadTable(h) PROVE TypeOK'
  <2>1. ReadTable(h) \in Config
    BY <1>5 DEF LoadTable, ReadTable, LoadPhases, Config
  <2>2. NextPhase(h) \in Phases
    BY <1>5 DEF LoadTable, NextPhase, AfterLoad, Phases, LoadPhases
  <2> QED BY <1>5, <2>1, <2>2 DEF LoadTable
<1>23. ASSUME NEW h \in Handlers, LoadQueryFails(h) PROVE TypeOK'
  BY <1>23, RespondType DEF LoadQueryFails, Results
<1>6. ASSUME NEW h \in Handlers, LoadFails(h) PROVE TypeOK'
  BY <1>6, RespondType DEF LoadFails, Results
<1>7. ASSUME NEW h \in Handlers, Reject(h) PROVE TypeOK'
  BY <1>7, RespondType DEF Reject, Results
<1>8. ASSUME NEW h \in Handlers, ValidateOnly(h) PROVE TypeOK'
  BY <1>8, RespondType DEF ValidateOnly, Results
<1>9. ASSUME NEW h \in Handlers, NEW now \in 0..MaxRevision, Save(h, now)
      PROVE TypeOK'
  <2>1. tables' \in Config
    BY <1>9, CandidateType DEF Save
  <2>2. revision' \in 1..MaxRevision
    BY <1>9, MaxRevisionAssumption DEF Save, NextRevision, RevisionLeft
  <2>3. CASE Respond(h, "restartRequired")
    BY <1>9, <2>1, <2>2, <2>3, RespondType DEF Save, Results
  <2>4. CASE /\ cfg' = [cfg EXCEPT ![h] = tables']
             /\ Goto(h, "reload")
             /\ UNCHANGED <<req, todo, batch, result>>
    BY <1>9, <2>1, <2>2, <2>4 DEF Save, Phases
  <2> QED BY <1>9, <2>3, <2>4 DEF Save
<1>10. ASSUME NEW h \in Handlers, SaveFails(h) PROVE TypeOK'
  BY <1>10, RespondType DEF SaveFails, Results
<1>11. ASSUME NEW h \in Handlers, Reload(h) PROVE TypeOK'
  BY <1>11, RespondType DEF Reload, Results
<1>12. ASSUME NEW h \in Handlers, Stage(h) PROVE TypeOK'
  <2>1. CASE Respond(h, "error") /\ UNCHANGED <<pending, nextId>>
    BY <1>12, <2>1, RespondType DEF Stage, Results
  <2>2. CASE /\ MayStage(runtime, req[h].change)
             /\ nextId <= MaxChanges
             /\ pending' = pending \cup {[id |-> nextId, change |-> req[h].change]}
             /\ nextId' = nextId + 1
             /\ Respond(h, "ok")
    <3>1. req[h].change \in Changes
      BY <1>12, RequestParts DEF Stage, PhaseOfKind
    <3> QED BY <1>12, <2>2, <3>1, RespondType, MaxChangesAssumption
            DEF Stage, Results, Rows
  <2> QED BY <1>12, <2>1, <2>2 DEF Stage
<1>13. ASSUME NEW h \in Handlers, Discard(h) PROVE TypeOK'
  <2>1. pc' \in [Handlers -> Phases] /\ pending' \subseteq Rows
    BY <1>13, RespondType DEF Discard, Results
  <2>2. Respond(h, "ok") \/ Respond(h, "error")
    BY <1>13 DEF Discard
  <2> QED BY <1>13, <2>1, <2>2, RespondType DEF Discard, Results
<1>14. ASSUME NEW h \in Handlers, ListPending(h) PROVE TypeOK'
  <2>1. CASE applyMu' = NoHandler /\ (Respond(h, "ok") \/ Respond(h, "error"))
    BY <1>14, <2>1, RespondType DEF ListPending, Results
  <2>2. CASE /\ todo' = [todo EXCEPT ![h] = pending]
             /\ batch' = [batch EXCEPT ![h] = pending]
             /\ Goto(h, "begin")
             /\ UNCHANGED <<applyMu, req, cfg, result>>
    BY <1>14, <2>2 DEF ListPending, Phases
  <2> QED BY <1>14, <2>1, <2>2 DEF ListPending
<1>24. ASSUME NEW h \in Handlers, TakeApplyMu(h) PROVE TypeOK'
  BY <1>24 DEF TakeApplyMu, Phases
<1>15. ASSUME NEW h \in Handlers, BeginTx(h) PROVE TypeOK'
  BY <1>15 DEF BeginTx, Phases
<1>16. ASSUME NEW h \in Handlers, NEW row \in Rows, ApplyChange(h, row)
       PROVE TypeOK'
  <2>1. txTables' \in Config
    BY <1>16, ChangeAppliedType DEF ApplyChange, Rows
  <2> QED BY <1>16, <2>1 DEF ApplyChange
<1>17. ASSUME NEW h \in Handlers, CommitTx(h) PROVE TypeOK'
  <2>1. Ids(batch[h]) \subseteq 1..MaxChanges
    BY DEF Ids, Rows
  <2> QED BY <1>17, <2>1 DEF CommitTx, Phases, LoadPhases
<1>18. ASSUME NEW h \in Handlers, RollbackTx(h) PROVE TypeOK'
  BY <1>18, RespondType DEF RollbackTx, Results
<1>19. ASSUME NEW h \in Handlers, ApplyLoadFails(h) PROVE TypeOK'
  BY <1>19, RespondType DEF ApplyLoadFails, Results
<1>20. ASSUME NEW h \in Handlers, ApplyReload(h) PROVE TypeOK'
  BY <1>20, RespondType DEF ApplyReload, Results
<1>21. CASE Restart
  BY <1>21, YamlAssumption DEF Restart, Phases, Results
<1>22. CASE UNCHANGED vars
  BY <1>22 DEF vars, localVars
<1> QED
  BY <1>1, <1>2, <1>3, <1>4, <1>5, <1>6, <1>7, <1>8, <1>9, <1>10, <1>11,
     <1>12, <1>13, <1>14, <1>15, <1>16, <1>17, <1>18, <1>19, <1>20, <1>21, <1>22,
     <1>23, <1>24
  DEF Next, Serve, GraphStep, StagedStep
---------------------------------------------------------------------------
(* The other conjuncts of the invariant *)

\* A response of h leaves every other handler alone, and leaves h idle.
LEMMA RespondFrame ==
    ASSUME TypeOK, NEW h \in Handlers, NEW o \in Results, Respond(h, o)
    PROVE  /\ pc'[h] = "idle"
           /\ \A g \in Handlers \ {h} :
                 /\ pc'[g] = pc[g] /\ req'[g] = req[g]
                 /\ cfg'[g] = cfg[g] /\ batch'[g] = batch[g]
BY DEF TypeOK, Respond

\* A step of h that does not respond leaves the other handlers alone too.
LEMMA StepFrame ==
    ASSUME TypeOK, NEW h \in Handlers, Serve(h)
    PROVE  \A g \in Handlers \ {h} :
               /\ pc'[g] = pc[g] /\ req'[g] = req[g]
               /\ cfg'[g] = cfg[g] /\ batch'[g] = batch[g]
<1> USE DEF TypeOK, Respond, Goto
<1>1. CASE GraphStep(h)
  BY <1>1 DEF GraphStep, ReadRevision, RereadRevision, ReadSnapshot, LoadTable,
     LoadQueryFails, LoadFails, Reject, ValidateOnly, Save, SaveFails, Reload
<1>2. CASE StagedStep(h)
  BY <1>2 DEF StagedStep, Stage, Discard, TakeApplyMu, ListPending, BeginTx, ApplyChange,
     CommitTx, RollbackTx, ApplyLoadFails, ApplyReload
<1> QED BY <1>1, <1>2 DEF Serve

LEMMA PhaseOfKindNext == TypeOK /\ PhaseOfKind /\ [Next]_vars => PhaseOfKind'
<1> SUFFICES ASSUME TypeOK, PhaseOfKind, [Next]_vars PROVE PhaseOfKind'
  OBVIOUS
<1> USE DEF PhaseOfKind
<1>1. ASSUME NEW h \in Handlers, Serve(h) PROVE PhaseOfKind'
  <2>1. /\ pc'[h] = "stage" => req'[h].kind = "stage"
        /\ pc'[h] \in LoadPhases =>
              req'[h].kind \in GraphWrites \cup {"validate", "apply"}
        /\ pc'[h] \in {"lock", "list", "begin", "tx", "loaded"} => req'[h].kind = "apply"
        /\ pc'[h] \in {"revision", "recheck", "accept", "reload"} =>
              req'[h].kind \in GraphWrites \cup {"get", "validate"}
    <3>1. CASE GraphStep(h)
      BY <1>1, <3>1, RequestParts
      DEF TypeOK, Goto, Respond, LoadPhases, NextPhase, AfterLoad, AfterRevision, GraphStep,
          ReadRevision, RereadRevision, ReadSnapshot, LoadTable, LoadQueryFails, LoadFails,
          Reject, ValidateOnly, Save, SaveFails, Reload, AllKinds, GraphWrites
    <3>2. CASE StagedStep(h)
      BY <1>1, <3>2
      DEF TypeOK, Goto, Respond, LoadPhases, StagedStep, Stage, Discard, TakeApplyMu,
          ListPending, BeginTx, ApplyChange, CommitTx, RollbackTx, ApplyLoadFails, ApplyReload
    <3> QED BY <1>1, <3>1, <3>2 DEF Serve
  <2> QED BY <1>1, <2>1, StepFrame
<1>2. ASSUME NEW h \in Handlers, NEW r \in Requests, Receive(h, r)
      PROVE PhaseOfKind'
  <2>1. r.kind \in AllKinds
    BY KindsAssumption DEF Requests, AllKinds, GraphWrites
  <2> QED BY <1>2, <2>1
          DEF Receive, Goto, FirstPhase, TypeOK, AllKinds, GraphWrites, LoadPhases
<1>3. CASE Restart
  BY <1>3 DEF Restart, LoadPhases
<1>4. CASE UNCHANGED vars
  BY <1>4 DEF vars, localVars
<1> QED BY <1>1, <1>2, <1>3, <1>4 DEF Next

\* applyMu is taken when it is free, and given up only by the handler that
\* leaves the section it guards.
LEMMA ApplyMutexNext ==
    TypeOK /\ PhaseOfKind /\ ApplyMutex /\ [Next]_vars => ApplyMutex'
<1> SUFFICES ASSUME TypeOK, PhaseOfKind, ApplyMutex, [Next]_vars
             PROVE  ApplyMutex'
  OBVIOUS
<1> USE DEF ApplyMutex
<1>1. ASSUME NEW h \in Handlers, GraphStep(h) PROVE ApplyMutex'
  <2>1. ~LoadQueryFails(h) => UNCHANGED applyMu
    BY <1>1 DEF GraphStep, ReadRevision, RereadRevision, ReadSnapshot, LoadTable,
       LoadFails, Reject, ValidateOnly, Save, SaveFails, Reload, txVars
  <2>3. CASE LoadQueryFails(h)
    <3>1. pc'[h] = "idle"
      BY <2>3 DEF TypeOK, LoadQueryFails, Respond
    <3>2. applyMu' = applyMu \/ (applyMu = h /\ applyMu' = NoHandler)
      BY <2>3 DEF LoadQueryFails, InApply
    <3>3. ASSUME NEW g \in Handlers \ {h}, InApply(g)'
          PROVE  applyMu' = g
      <4>1. InApply(g) /\ applyMu = g
        BY <1>1, <3>3, StepFrame DEF Serve, InApply
      <4> QED BY <3>2, <4>1
    <3> QED BY <3>1, <3>3 DEF LoadPhases, InApply
  <2>2. /\ pc'[h] \notin {"list", "begin", "tx"}
        /\ pc'[h] = "loaded" \/ (pc'[h] \in LoadPhases /\ req'[h].kind = "apply")
               => pc[h] \in LoadPhases /\ req[h].kind = "apply"
    BY <1>1
    DEF TypeOK, PhaseOfKind, Goto, Respond, LoadPhases, NextPhase, AfterLoad,
        AfterRevision, GraphWrites, GraphStep, ReadRevision, RereadRevision, ReadSnapshot,
        LoadTable, LoadQueryFails, LoadFails, Reject, ValidateOnly, Save, SaveFails, Reload
  <2>4. CASE ~LoadQueryFails(h)
    BY <1>1, <2>1, <2>2, <2>4, StepFrame DEF Serve, InApply
  <2> QED BY <2>3, <2>4
<1>2. ASSUME NEW h \in Handlers, StagedStep(h) PROVE ApplyMutex'
  <2>1. CASE Stage(h) \/ Discard(h)
    <3>1. pc'[h] = "idle" /\ UNCHANGED applyMu
      BY <2>1 DEF TypeOK, Stage, Discard, Respond, txVars
    <3> QED BY <1>2, <3>1, StepFrame DEF Serve, LoadPhases, InApply
  <2>2. CASE TakeApplyMu(h)
    <3>1. applyMu = NoHandler /\ applyMu' = h
      BY <2>2 DEF TakeApplyMu
    <3>2. \A g \in Handlers : ~InApply(g)
      BY <3>1, NoHandlerAssumption DEF InApply
    <3> QED BY <1>2, <3>1, <3>2, StepFrame DEF Serve, InApply
  <2>5. CASE ListPending(h) /\ pc'[h] # "idle"
    <3>1. UNCHANGED applyMu /\ pc[h] = "list"
      BY <2>5 DEF TypeOK, ListPending, Respond
    <3> QED BY <1>2, <3>1, StepFrame DEF Serve, InApply
  <2>3. CASE BeginTx(h) \/ (\E row \in Rows : ApplyChange(h, row)) \/ CommitTx(h)
    <3>1. UNCHANGED applyMu /\ pc[h] \in {"begin", "tx"}
      BY <2>3 DEF BeginTx, ApplyChange, CommitTx
    <3> QED BY <1>2, <3>1, StepFrame DEF Serve, InApply
  <2>4. CASE \/ RollbackTx(h) \/ ApplyLoadFails(h) \/ ApplyReload(h)
             \/ ListPending(h) /\ pc'[h] = "idle"
    <3>1. pc[h] \in {"list", "begin", "tx", "loaded"}
      BY <2>4 DEF RollbackTx, ApplyLoadFails, ApplyReload, ListPending
    <3>2. applyMu = h
      BY <3>1 DEF InApply
    <3>3. pc'[h] = "idle"
      BY <2>4 DEF TypeOK, RollbackTx, ApplyLoadFails, ApplyReload, Respond
    <3>4. ASSUME NEW g \in Handlers \ {h}
          PROVE ~InApply(g)'
      <4>1. pc'[g] = pc[g] /\ req'[g] = req[g]
        BY <1>2, StepFrame DEF Serve, InApply
      <4>2. applyMu # g
        BY <3>2
      <4> QED BY <4>1, <4>2 DEF InApply
    <3> QED BY <3>3, <3>4 DEF LoadPhases, InApply
  <2> QED BY <1>2, <2>1, <2>2, <2>3, <2>4, <2>5 DEF StagedStep
<1>3. ASSUME NEW h \in Handlers, NEW r \in Requests, Receive(h, r)
      PROVE ApplyMutex'
  <2>1. /\ UNCHANGED applyMu
        /\ pc'[h] \in {"stage", "lock", "discard", "revision"}
        /\ \A g \in Handlers \ {h} : pc'[g] = pc[g] /\ req'[g] = req[g]
    BY <1>3 DEF TypeOK, Receive, Goto, FirstPhase, txVars
  <2> QED BY <2>1 DEF LoadPhases, InApply
<1>4. CASE Restart
  BY <1>4 DEF Restart, LoadPhases, InApply
<1>5. CASE UNCHANGED vars
  BY <1>5 DEF vars, localVars, txVars, InApply
<1> QED BY <1>1, <1>2, <1>3, <1>4, <1>5 DEF Next, Serve

\* Only the holder of applyMu adds to consumed, so no listed row is in it.
LEMMA BatchFreshNext ==
    TypeOK /\ ApplyMutex /\ BatchFresh /\ [Next]_vars => BatchFresh'
<1> SUFFICES ASSUME TypeOK, ApplyMutex, BatchFresh, [Next]_vars
             PROVE  BatchFresh'
  OBVIOUS
<1> USE DEF BatchFresh
<1>1. ASSUME NEW h \in Handlers, GraphStep(h) PROVE BatchFresh'
  <2>1. UNCHANGED <<pending, consumed, nextId>> /\ pc'[h] \notin {"begin", "tx"}
    BY <1>1
    DEF TypeOK, Goto, Respond, storeVars, LoadPhases, NextPhase, AfterLoad,
        AfterRevision, GraphStep, ReadRevision, RereadRevision, ReadSnapshot,
        LoadTable, LoadQueryFails, LoadFails, Reject, ValidateOnly, Save, SaveFails, Reload
  <2> QED BY <1>1, <2>1, StepFrame DEF Serve, Ids
<1>2. ASSUME NEW h \in Handlers, StagedStep(h) PROVE BatchFresh'
  <2>1. CASE Stage(h)
    <3>1. /\ pc'[h] = "idle" /\ UNCHANGED consumed
          /\ \/ UNCHANGED <<pending, nextId>>
             \/ Ids(pending') = Ids(pending) \cup {nextId} /\ nextId' = nextId + 1
      <4>1. /\ pc'[h] = "idle" /\ UNCHANGED consumed
            /\ \/ UNCHANGED <<pending, nextId>>
               \/ /\ pending' = pending \cup {[id |-> nextId, change |-> req[h].change]}
                  /\ nextId' = nextId + 1
        BY <2>1 DEF TypeOK, Stage, Respond
      <4>2. ASSUME NEW row, row.id = nextId
            PROVE  Ids(pending \cup {row}) = Ids(pending) \cup {nextId}
        BY <4>2 DEF Ids
      <4>3. ASSUME NEW ch PROVE [id |-> nextId, change |-> ch].id = nextId
        OBVIOUS
      <4> QED BY <4>1, <4>2, <4>3
    <3>2. nextId \in Nat /\ consumed \subseteq Nat /\ Ids(pending) \subseteq Nat
      <4>1. Ids(pending) \subseteq 1..MaxChanges
        BY DEF TypeOK, Ids, Rows
      <4> QED BY <4>1, MaxChangesAssumption DEF TypeOK
    <3>3. \A g \in Handlers : Ids(batch[g]) \subseteq Nat
      <4>1. \A g \in Handlers : batch[g] \subseteq Rows
        BY DEF TypeOK
      <4> QED BY <4>1, MaxChangesAssumption DEF Ids, Rows
    <3>4. nextId \notin consumed
      BY <3>2
    <3>5. /\ \A i \in Ids(pending') \cup consumed' : i < nextId'
          /\ Ids(pending') \cap consumed' = {}
      <4>1. CASE UNCHANGED <<pending, nextId>>
        BY <3>1, <4>1 DEF Ids
      <4>2. CASE Ids(pending') = Ids(pending) \cup {nextId} /\ nextId' = nextId + 1
        <5>1. ASSUME NEW i \in Ids(pending) \cup consumed
              PROVE  i < nextId + 1
          <6>1. i < nextId /\ i \in Nat
            BY <3>2
          <6> QED BY <3>2, <6>1
        <5>2. nextId < nextId + 1
          BY <3>2
        <5>3. consumed' = consumed
          BY <3>1
        <5>4. \A i \in Ids(pending') \cup consumed' : i < nextId'
          BY <4>2, <5>1, <5>2, <5>3
        <5>5. Ids(pending') \cap consumed' = {}
          BY <3>4, <4>2, <5>3
        <5> QED BY <5>4, <5>5
      <4> QED BY <3>1, <4>1, <4>2
    <3>6. nextId' \in Nat /\ nextId <= nextId'
      BY <3>1, <3>2
    <3>7. ASSUME NEW g \in Handlers, pc'[g] \in {"begin", "tx"}
          PROVE  /\ Ids(batch'[g]) \cap consumed' = {}
                 /\ \A i \in Ids(batch'[g]) : i < nextId'
      <4>1. pc'[g] = pc[g] /\ batch'[g] = batch[g]
        BY <1>2, <3>1, <3>7, StepFrame DEF Serve
      <4> QED BY <3>1, <3>2, <3>3, <3>6, <3>7, <4>1
    <3> QED BY <3>5, <3>7 DEF Ids
  <2>2. CASE Discard(h)
    <3>1. /\ pc'[h] = "idle" /\ UNCHANGED <<consumed, nextId>>
          /\ pending' \subseteq pending
      BY <2>2 DEF TypeOK, Discard, Respond
    <3>2. Ids(pending') \subseteq Ids(pending)
      BY <3>1 DEF Ids
    <3> QED BY <1>2, <3>1, <3>2, StepFrame DEF Serve
  <2>3. CASE TakeApplyMu(h) \/ ListPending(h)
    <3>1. /\ UNCHANGED <<pending, consumed, nextId>>
          /\ pc'[h] \in {"idle", "list"} \/ batch'[h] = pending
      BY <2>3 DEF TypeOK, TakeApplyMu, ListPending, Respond, Goto, storeVars
    <3> QED BY <1>2, <3>1, StepFrame DEF Serve, Ids
  <2>4. CASE BeginTx(h) \/ \E row \in Rows : ApplyChange(h, row)
    <3>1. /\ UNCHANGED <<pending, consumed, nextId>> /\ batch'[h] = batch[h]
          /\ pc[h] \in {"begin", "tx"}
      BY <2>4 DEF TypeOK, BeginTx, ApplyChange, storeVars
    <3> QED BY <1>2, <3>1, StepFrame DEF Serve, Ids
  <2>5. CASE CommitTx(h)
    <3>1. /\ pc[h] = "tx" /\ pc'[h] = "settings" /\ UNCHANGED nextId
          /\ consumed' = consumed \cup Ids(batch[h])
          /\ Ids(pending') \subseteq Ids(pending)
          /\ Ids(pending') \cap Ids(batch[h]) = {}
      BY <2>5 DEF TypeOK, CommitTx, Goto, Ids
    <3>2. \A g \in Handlers \ {h} : pc'[g] \notin {"begin", "tx"}
      BY <1>2, <3>1, StepFrame DEF Serve, ApplyMutex, InApply
    <3>3. \A i \in Ids(batch[h]) : i < nextId
      BY <3>1
    <3> QED BY <3>1, <3>2, <3>3
  <2>6. CASE RollbackTx(h) \/ ApplyLoadFails(h) \/ ApplyReload(h)
    <3>1. pc'[h] = "idle" /\ UNCHANGED <<pending, consumed, nextId>>
      BY <2>6 DEF TypeOK, RollbackTx, ApplyLoadFails, ApplyReload, Respond, storeVars
    <3> QED BY <1>2, <3>1, StepFrame DEF Serve, Ids
  <2> QED BY <1>2, <2>1, <2>2, <2>3, <2>4, <2>5, <2>6 DEF StagedStep
<1>3. ASSUME NEW h \in Handlers, NEW r \in Requests, Receive(h, r)
      PROVE BatchFresh'
  <2>1. /\ UNCHANGED <<pending, consumed, nextId, batch>>
        /\ pc'[h] \in {"stage", "lock", "discard", "revision"}
        /\ \A g \in Handlers \ {h} : pc'[g] = pc[g]
    BY <1>3 DEF TypeOK, Receive, Goto, FirstPhase, storeVars
  <2> QED BY <2>1 DEF Ids
<1>4. CASE Restart
  BY <1>4 DEF Restart, storeVars, Ids
<1>5. CASE UNCHANGED vars
  BY <1>5 DEF vars, localVars, storeVars, Ids
<1> QED BY <1>1, <1>2, <1>3, <1>4, <1>5 DEF Next, Serve

---------------------------------------------------------------------------
(* Theorems *)

LEMMA IInvInit == Init => IInv
<1> SUFFICES ASSUME Init PROVE IInv
  OBVIOUS
<1>1. TypeOK
  BY TypeInit
<1>2. PhaseOfKind /\ ApplyMutex
  BY DEF Init, PhaseOfKind, ApplyMutex, InApply, LoadPhases
<1>3. BatchFresh
  BY DEF Init, BatchFresh, Ids
<1> QED BY <1>1, <1>2, <1>3 DEF IInv

LEMMA IInvNext == IInv /\ [Next]_vars => IInv'
BY TypeNext, PhaseOfKindNext, ApplyMutexNext, BatchFreshNext DEF IInv

\* The inductive invariant holds of every state the control plane reaches.
THEOREM Invariance == Spec => []IInv
BY IInvInit, IInvNext, PTL DEF Spec

\* Every variable of the control plane keeps its type, whatever the handlers do
\* and wherever the process stops.
THEOREM TypeCorrect == Spec => []TypeOK
<1>1. IInv => TypeOK
  BY DEF IInv
<1> QED BY Invariance, <1>1, PTL

\* nextRevisionTx never reuses a revision and never goes back.
THEOREM RevisionsIncrease == Spec => RevisionIncreases
<1>1. ASSUME TypeOK, [Next]_vars, revision' # revision
      PROVE  revision' > revision
  <2>1. PICK h \in Handlers, now \in 0..MaxRevision : Save(h, now)
    BY <1>1 DEF Next, Serve, GraphStep, StagedStep, Receive, ReadRevision,
       RereadRevision, ReadSnapshot, LoadTable, LoadQueryFails, LoadFails, Reject, ValidateOnly,
       SaveFails, Reload, Stage, Discard, TakeApplyMu, ListPending, BeginTx, ApplyChange,
       CommitTx, RollbackTx, ApplyLoadFails, ApplyReload, Restart, vars, storeVars
  <2>2. revision \in Nat /\ now \in Nat
    BY <1>1, MaxRevisionAssumption DEF TypeOK
  <2> QED BY <1>1, <2>1, <2>2 DEF Save, NextRevision
<1>2. TypeOK /\ [Next]_vars => [revision' # revision => revision' > revision]_vars
  BY <1>1
<1> QED BY <1>2, TypeCorrect, PTL DEF Spec, RevisionIncreases

\* ApplyPendingChanges puts no staged change into the tables twice.
THEOREM AppliedAtMostOnce == Spec => AppliedOnce
<1>1. IInv => \A h \in Handlers : CommitsBatch(h) => Ids(batch[h]) \cap consumed = {}
  BY DEF IInv, BatchFresh, CommitsBatch
<1>2. IInv /\ [Next]_vars =>
         [\A h \in Handlers : CommitsBatch(h) => Ids(batch[h]) \cap consumed = {}]_vars
  BY <1>1
<1> QED BY <1>2, Invariance, PTL DEF Spec, AppliedOnce

\* Without graph handlers only the commit of an apply replaces the tables.
LEMMA OnlyCommits ==
    ASSUME Kinds \cap GraphWrites = {}, IInv, [Next]_vars, tables' # tables
    PROVE  \E h \in Handlers : CommitTx(h)
<1>1. ASSUME NEW h \in Handlers PROVE req[h].kind \notin GraphWrites
  BY KindsAssumption DEF IInv, TypeOK, Requests, NoRequest, GraphWrites, AllKinds
<1>2. ASSUME NEW h \in Handlers, GraphStep(h) PROVE FALSE
  BY <1>1, <1>2 DEF GraphStep, ReadRevision, RereadRevision, ReadSnapshot, LoadTable,
     LoadQueryFails, LoadFails, Reject, ValidateOnly, Save, SaveFails, Reload,
     storeVars
<1>3. ASSUME NEW h \in Handlers, StagedStep(h) PROVE CommitTx(h)
  BY <1>3 DEF StagedStep, Stage, Discard, TakeApplyMu, ListPending, BeginTx,
     ApplyChange, RollbackTx, ApplyLoadFails, ApplyReload, storeVars
<1>4. ~Restart /\ ~UNCHANGED vars
  BY DEF Restart, vars, storeVars
<1>5. \A h \in Handlers, r \in Requests : ~Receive(h, r)
  BY DEF Receive, storeVars
<1> QED BY <1>2, <1>3, <1>4, <1>5 DEF Next, Serve

\* The commit of one apply finds no other apply in its load.
LEMMA LoadUntornNext ==
    ASSUME Kinds \cap GraphWrites = {}, IInv, LoadUntorn, [Next]_vars
    PROVE  LoadUntorn'
<1> USE DEF IInv, TypeOK, LoadUntorn
<1> SUFFICES ASSUME NEW g \in Handlers, req'[g].kind = "apply",
                    NEW table \in LoadPhases,
                    pc'[g] \in ReadAfter(table) \cup {"loaded"}
             PROVE  cfg'[g][table] = tables'[table]
  BY DEF ReadAfter
<1>1. ReadAfter(table) \subseteq LoadPhases \ {"settings"}
  BY DEF ReadAfter, LoadPhases
<1>2. InApply(g)'
  BY <1>1 DEF InApply
<1>3. CASE tables' # tables
  <2>1. PICK h \in Handlers : CommitTx(h)
    BY <1>3, OnlyCommits
  <2>2. applyMu = h /\ pc'[h] = "settings"
    BY <2>1 DEF CommitTx, Goto, ApplyMutex, InApply
  <2>3. g # h
    BY <2>2, <1>1
  <2>4. Serve(h)
    BY <2>1 DEF Serve, StagedStep
  <2>5. InApply(g)
    BY <1>2, <2>3, <2>4, StepFrame DEF InApply
  <2> QED BY <2>2, <2>3, <2>5 DEF ApplyMutex
<1>4. CASE tables' = tables
  <2>1. ASSUME NEW h \in Handlers, Serve(h), h # g
        PROVE  cfg'[g][table] = tables'[table]
    BY <1>4, <2>1, StepFrame
  <2>2. CASE GraphStep(g)
    <3>1. CASE LoadTable(g)
      <4>1. cfg'[g] = ReadTable(g) /\ pc'[g] = NextPhase(g) /\ req'[g] = req[g]
        BY <3>1 DEF LoadTable, Goto
      <4>2. cfg[g] \in Config /\ pc[g] \in LoadPhases
        BY <3>1 DEF LoadTable
      <4>3. table = pc[g] \/ pc[g] \in ReadAfter(table)
        BY <4>1, <4>2 DEF NextPhase, AfterLoad, ReadAfter, LoadPhases
      <4>4. CASE table = pc[g]
        BY <1>4, <4>1, <4>2, <4>4 DEF ReadTable, LoadPhases, Config
      <4>5. CASE table # pc[g]
        <5>1. cfg'[g][table] = cfg[g][table]
          BY <4>1, <4>2, <4>5 DEF ReadTable, LoadPhases, Config
        <5> QED BY <1>4, <4>1, <4>3, <4>5, <5>1
      <4> QED BY <4>4, <4>5
    <3>2. CASE ~LoadTable(g)
      <4>1. pc'[g] \in LoadPhases \cup {"loaded"} => pc'[g] = "settings"
        BY <2>2, <3>2
        DEF GraphStep, ReadRevision, RereadRevision, ReadSnapshot, LoadQueryFails,
            LoadFails, Reject, ValidateOnly, Save, SaveFails, Reload, Respond, Goto,
            AfterRevision, LoadPhases
      <4> QED BY <1>1, <4>1
    <3> QED BY <3>1, <3>2
  <2>3. CASE StagedStep(g)
    <3>1. pc'[g] \in {"idle", "list", "begin", "tx", "settings"}
      BY <2>3 DEF StagedStep, Stage, Discard, TakeApplyMu, ListPending, BeginTx,
         ApplyChange, CommitTx, RollbackTx, ApplyLoadFails, ApplyReload, Respond, Goto
    <3> QED BY <3>1 DEF ReadAfter, LoadPhases
  <2>4. ASSUME NEW h \in Handlers, NEW r \in Requests, Receive(h, r)
        PROVE  cfg'[g][table] = tables'[table]
    <3>1. /\ pc'[h] \in {"stage", "lock", "discard", "revision"}
          /\ \A f \in Handlers \ {h} : pc'[f] = pc[f] /\ req'[f] = req[f]
          /\ UNCHANGED cfg
      BY <2>4 DEF Receive, Goto, FirstPhase
    <3>2. g # h
      BY <3>1 DEF ReadAfter, LoadPhases
    <3> QED BY <1>4, <3>1, <3>2
  <2>5. ~Restart
    BY DEF Restart, ReadAfter, LoadPhases
  <2>6. CASE UNCHANGED vars
    BY <1>4, <2>6 DEF vars, localVars
  <2> QED BY <2>1, <2>2, <2>3, <2>4, <2>5, <2>6 DEF Next, Serve
<1> QED BY <1>3, <1>4

\* Where only staged changes are used, an apply that commits and is answered
\* "ok" leaves the runtime serving exactly what the tables hold: applyMu is
\* kept from the listing to the reload, and whoever replaces the tables has it.
THEOREM AppliesServeTheStore ==
    ASSUME Kinds \cap GraphWrites = {}
    PROVE  Spec => AppliedIsServed
<1>1. Init => LoadUntorn
  BY DEF Init, LoadUntorn, NoRequest
<1>2. IInv /\ LoadUntorn /\ [Next]_vars => LoadUntorn'
  BY LoadUntornNext
<1>3. Spec => []LoadUntorn
  BY <1>1, <1>2, Invariance, PTL DEF Spec
<1>4. ASSUME IInv, LoadUntorn, [Next]_vars, NEW h \in Handlers,
             AnswersApply(h), result'[h] = "ok"
      PROVE  runtime' = tables'
  <2>1. CASE ApplyReload(h)
    <3>1. req[h].kind = "apply"
      BY <1>4, <2>1 DEF ApplyReload, IInv, PhaseOfKind
    <3>2. \A table \in LoadPhases : cfg[h][table] = tables[table]
      BY <1>4, <2>1, <3>1 DEF LoadUntorn, ApplyReload
    <3>3. cfg[h] \in Config /\ tables \in Config
      BY <1>4 DEF IInv, TypeOK
    <3>4. cfg[h] = tables
      BY <3>2, <3>3 DEF LoadPhases, Config
    <3> QED BY <2>1, <3>4 DEF ApplyReload, storeVars
  <2>2. CASE ~ApplyReload(h)
    <3>1. ~Serve(h)
      BY <1>4, <2>2 DEF Serve, AnswersApply, IInv, TypeOK,
         GraphStep, ReadRevision, RereadRevision, ReadSnapshot, LoadTable,
         LoadQueryFails, LoadFails, Reject, ValidateOnly, Save, SaveFails, Reload,
         LoadPhases, StagedStep, Stage, Discard, TakeApplyMu, ListPending, BeginTx,
         ApplyChange, CommitTx, RollbackTx, ApplyLoadFails, Respond
    <3>2. ~Restart
      BY <1>4 DEF Restart
    <3>3. \A r \in Requests : ~Receive(h, r)
      BY <1>4 DEF Receive, AnswersApply
    <3>4. ASSUME NEW g \in Handlers, g # h, Serve(g) PROVE FALSE
      BY <1>4, <3>4, StepFrame DEF AnswersApply, IInv
    <3>5. ASSUME NEW g \in Handlers, g # h, NEW r \in Requests, Receive(g, r)
          PROVE  FALSE
      BY <1>4, <3>5 DEF AnswersApply, Receive, Goto, IInv, TypeOK
    <3>6. ~UNCHANGED vars
      BY <1>4 DEF AnswersApply, vars, localVars
    <3> QED BY <1>4, <3>1, <3>2, <3>3, <3>4, <3>5, <3>6 DEF Next
  <2> QED BY <2>1, <2>2
<1>5. IInv /\ LoadUntorn /\ [Next]_vars =>
         [\A h \in Handlers :
             AnswersApply(h) /\ result'[h] = "ok" => runtime' = tables']_vars
  BY <1>4
<1> QED BY <1>3, <1>5, Invariance, PTL DEF Spec, AppliedIsServed

\* What is stored stays loadable as long as nothing is staged and applied: the
\* graph handlers replace the tables only with a candidate that acceptCandidate
\* validated, although the document they started from may be torn.  An apply
\* commits before anything validates, hence the assumption.
THEOREM GraphStoreLoads ==
    ASSUME "apply" \notin Kinds
    PROVE  Spec => []StoreLoads
<1>1. Init => StoreLoads
  BY YamlAssumption DEF Init, StoreLoads
<1>2. IInv /\ StoreLoads /\ [Next]_vars => StoreLoads'
  <2> SUFFICES ASSUME IInv, StoreLoads, [Next]_vars PROVE StoreLoads'
    OBVIOUS
  <2> USE DEF StoreLoads
  <2>1. ASSUME NEW h \in Handlers, GraphStep(h) PROVE StoreLoads'
    <3>1. CASE \E now \in 0..MaxRevision : Save(h, now)
      BY <3>1 DEF Save, Acceptable
    <3>2. CASE ~\E now \in 0..MaxRevision : Save(h, now)
      BY <2>1, <3>2
      DEF GraphStep, ReadRevision, RereadRevision, ReadSnapshot, LoadTable,
          LoadQueryFails, LoadFails, Reject, ValidateOnly, SaveFails, Reload, storeVars
    <3> QED BY <3>1, <3>2
  <2>2. ASSUME NEW h \in Handlers, StagedStep(h) PROVE StoreLoads'
    <3>1. pc[h] # "tx"
      <4>1. req[h].kind # "apply"
        BY KindsAssumption DEF IInv, TypeOK, Requests, NoRequest, GraphWrites
      <4> QED BY <4>1 DEF IInv, PhaseOfKind
    <3> QED BY <2>2, <3>1
        DEF StagedStep, Stage, Discard, TakeApplyMu, ListPending, BeginTx, ApplyChange, CommitTx,
            RollbackTx, ApplyLoadFails, ApplyReload, storeVars
  <2>3. CASE Restart
    BY <2>3 DEF Restart, storeVars
  <2>4. ASSUME NEW h \in Handlers, NEW r \in Requests, Receive(h, r)
        PROVE  StoreLoads'
    BY <2>4 DEF Receive, storeVars
  <2>5. CASE UNCHANGED vars
    BY <2>5 DEF vars, storeVars
  <2> QED BY <2>1, <2>2, <2>3, <2>4, <2>5 DEF Next, Serve
<1> QED BY <1>1, <1>2, Invariance, PTL DEF Spec

============================================================================
