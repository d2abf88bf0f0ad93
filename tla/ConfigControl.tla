--------------------------- MODULE ConfigControl ---------------------------
(***************************************************************************)
(* The configuration control plane: HTTP handlers that read, patch,        *)
(* validate, create, delete, stage, apply and discard configuration, over  *)
(* the SQLite store and the runtime snapshot.                              *)
(*                                                                         *)
(* Each handler is a process.  Every statement sent to the store, every    *)
(* snapshot read and every runtime reload is a step of its own, because    *)
(* nothing in the code holds a lock from one to the next: only             *)
(* ApplyPendingChanges takes a mutex (applyMu), and only an open           *)
(* transaction, which owns the single SQLite connection, keeps the other   *)
(* statements out.                                                         *)
(*                                                                         *)
(* A patch carries one operation or none.  The code applies a longer list  *)
(* to a document in memory before anything else looks at it, so a list     *)
(* behaves as one larger operation.                                        *)
(***************************************************************************)
EXTENDS ConfigData

CONSTANTS Handlers,     \* concurrent HTTP handlers
          Kinds,        \* the kinds of request the clients send
          Yaml,         \* the configuration file the process starts from
          MaxRevision,  \* the largest revision, math.MaxInt64 in the code
          MaxChanges,   \* bound: staged changes ever inserted
          NoHandler,    \* applyMu and the connection when nobody has them
          NoOp          \* an empty change list

GraphWrites == {"patch", "create", "delete"}
AllKinds == GraphWrites \cup {"get", "validate", "stage", "apply", "discard"}

ASSUME KindsAssumption == Kinds \subseteq AllKinds
ASSUME YamlAssumption == Yaml \in Config /\ Valid(Yaml)
ASSUME MaxRevisionAssumption == MaxRevision \in Nat /\ MaxRevision >= 1
ASSUME MaxChangesAssumption == MaxChanges \in Nat
ASSUME NoHandlerAssumption == NoHandler \notin Handlers
ASSUME NoOpAssumption == NoOp \notin PatchOps

VARIABLES
    tables,     \* the main tables
    revision,   \* __graph_revision, a row of the settings table
    pending,    \* rows of the changes table with applied = 0
    applied,    \* ids of the rows with applied = 1
    nextId,     \* AUTOINCREMENT of the changes table
    runtime,    \* Runtime.snapshot: the configuration being served
    applyMu,    \* the handler inside ApplyPendingChanges
    conn,       \* the handler whose transaction holds the connection
    txTables,   \* the main tables as the open transaction sees them
    pc, req, cfg, todo, batch, result, \* local to each handler
    consumed    \* history: ids of the changes that reached the tables

storeVars == <<tables, revision, pending, applied, nextId, consumed>>
txVars == <<applyMu, conn, txTables>>
localVars == <<pc, req, cfg, todo, batch, result>>
vars == <<storeVars, runtime, txVars, localVars>>

NoRequest == [kind |-> "none"]

Requests ==
         [kind : Kinds \cap {"get", "apply", "discard"}]
    \cup [kind : Kinds \cap {"patch", "validate"}, base : 0..MaxRevision,
          op : PatchOps \cup {NoOp}]
    \cup [kind : Kinds \cap {"create", "delete"}, base : 0..MaxRevision,
          resource : Resources]
    \cup [kind : Kinds \cap {"stage"}, change : Changes]

Rows == [id : 1..MaxChanges, change : Changes]
Ids(rows) == {row.id : row \in rows}

\* LoadAll reads the tables with five queries, in this order, outside any
\* transaction.
LoadPhases == {"settings", "models", "providers", "offers", "routes"}
Phases == LoadPhases \cup
          {"idle", "revision", "recheck", "snapshot", "accept", "reload",
           "stage", "lock", "list", "begin", "tx", "loaded", "discard"}
Results == {"none", "ok", "committed", "restartRequired", "revisionConflict",
            "validationRejected", "runtimeRejected", "error"}

TypeOK ==
    /\ tables \in Config
    /\ revision \in 1..MaxRevision
    /\ pending \subseteq Rows
    /\ applied \subseteq 1..MaxChanges
    /\ nextId \in 1..(MaxChanges + 1)
    /\ runtime \in Config
    /\ applyMu \in Handlers \cup {NoHandler}
    /\ conn \in Handlers \cup {NoHandler}
    /\ txTables \in Config
    /\ pc \in [Handlers -> Phases]
    /\ req \in [Handlers -> Requests \cup {NoRequest}]
    /\ cfg \in [Handlers -> Config]
    /\ todo \in [Handlers -> SUBSET Rows]
    /\ batch \in [Handlers -> SUBSET Rows]
    /\ result \in [Handlers -> Results]
    /\ consumed \subseteq 1..MaxChanges

---------------------------------------------------------------------------
Init ==
    /\ tables = Yaml /\ revision = 1
    /\ pending = {} /\ applied = {} /\ nextId = 1 /\ consumed = {}
    /\ runtime = Yaml
    /\ applyMu = NoHandler /\ conn = NoHandler /\ txTables = Yaml
    /\ pc = [h \in Handlers |-> "idle"]
    /\ req = [h \in Handlers |-> NoRequest]
    /\ cfg = [h \in Handlers |-> Yaml]
    /\ todo = [h \in Handlers |-> {}]
    /\ batch = [h \in Handlers |-> {}]
    /\ result = [h \in Handlers |-> "none"]

Goto(h, phase) == pc' = [pc EXCEPT ![h] = phase]

\* The handler writes its response.  Its local variables end with it.
Respond(h, outcome) ==
    /\ pc' = [pc EXCEPT ![h] = "idle"]
    /\ req' = [req EXCEPT ![h] = NoRequest]
    /\ cfg' = [cfg EXCEPT ![h] = Yaml]
    /\ todo' = [todo EXCEPT ![h] = {}]
    /\ batch' = [batch EXCEPT ![h] = {}]
    /\ result' = [result EXCEPT ![h] = outcome]

\* A statement outside h's own transaction waits for the connection.
Connected == conn = NoHandler

FirstPhase(kind) ==
    CASE kind = "stage"   -> "stage"
      [] kind = "apply"   -> "lock"
      [] kind = "discard" -> "discard"
      [] OTHER            -> "revision"

\* A base revision, when a request has one, is one a client can have read.
Receive(h, r) ==
    /\ pc[h] = "idle"
    /\ "base" \in DOMAIN r => r.base <= revision
    /\ req' = [req EXCEPT ![h] = r]
    /\ result' = [result EXCEPT ![h] = "none"]
    /\ Goto(h, FirstPhase(r.kind))
    /\ UNCHANGED <<storeVars, runtime, txVars, cfg, todo, batch>>

Conflicts(h) == /\ req[h].kind # "get"
                /\ req[h].base = 0 \/ req[h].base # revision

\* The phase after a revision that does not conflict.
AfterRevision(h) ==
    CASE req[h].kind = "get" -> "snapshot"
      [] req[h].kind = "create" -> "recheck"
      [] req[h].kind = "patch" /\ req[h].op = NoOp -> "recheck"
      [] OTHER -> "settings"

\* CurrentRevision, and the comparison with the request's base.  Create only
\* compares here: CreateResource reads the revision again and does not.  When
\* the read fails a create goes on without the comparison, and every other
\* handler answers with the error.
ReadRevision(h) ==
    /\ pc[h] = "revision"
    /\ Connected
    /\ UNCHANGED <<storeVars, runtime, txVars>>
    /\ \/ /\ Conflicts(h)
          /\ Respond(h, "revisionConflict")
       \/ /\ ~Conflicts(h) \/ req[h].kind = "create"
          /\ Goto(h, AfterRevision(h))
          /\ UNCHANGED <<req, cfg, todo, batch, result>>
       \/ /\ req[h].kind # "create"
          /\ Respond(h, "error")

\* The second CurrentRevision of a create, and the one inside Graph when a
\* patch is empty.  When it fails, so does the request.
RereadRevision(h) ==
    /\ pc[h] = "recheck"
    /\ Connected
    /\ UNCHANGED <<storeVars, runtime, txVars>>
    /\ \/ /\ Goto(h, IF req[h].kind = "create" THEN "settings" ELSE "snapshot")
          /\ UNCHANGED <<req, cfg, todo, batch, result>>
       \/ Respond(h, "error")

\* Graph pairs the revision it read with the snapshot of this moment.
ReadSnapshot(h) ==
    /\ pc[h] = "snapshot"
    /\ Respond(h, IF req[h].kind = "get" THEN "ok" ELSE "committed")
    /\ UNCHANGED <<storeVars, runtime, txVars>>

---------------------------------------------------------------------------
(* LoadAll *)

AfterLoad(h) == IF req[h].kind = "apply" THEN "loaded" ELSE "accept"

NextPhase(h) ==
    CASE pc[h] = "settings"  -> "models"
      [] pc[h] = "models"    -> "providers"
      [] pc[h] = "providers" -> "offers"
      [] pc[h] = "offers"    -> "routes"
      [] pc[h] = "routes"    -> AfterLoad(h)

ReadTable(h) ==
    CASE pc[h] = "settings"  -> [cfg[h] EXCEPT !.settings = tables.settings]
      [] pc[h] = "models"    -> [cfg[h] EXCEPT !.models = tables.models]
      [] pc[h] = "providers" -> [cfg[h] EXCEPT !.providers = tables.providers]
      [] pc[h] = "offers"    -> [cfg[h] EXCEPT !.offers = tables.offers]
      [] pc[h] = "routes"    -> [cfg[h] EXCEPT !.routes = tables.routes]

LoadTable(h) ==
    /\ pc[h] \in LoadPhases
    /\ Connected
    /\ cfg' = [cfg EXCEPT ![h] = ReadTable(h)]
    /\ Goto(h, NextPhase(h))
    /\ UNCHANGED <<storeVars, runtime, txVars, req, todo, batch, result>>

\* A query fails, and the request with it.  An apply leaves applyMu; what it
\* committed stays.
LoadQueryFails(h) ==
    /\ pc[h] \in LoadPhases
    /\ Connected
    /\ applyMu' = IF req[h].kind = "apply" THEN NoHandler ELSE applyMu
    /\ Respond(h, "error")
    /\ UNCHANGED <<storeVars, runtime, conn, txTables>>

---------------------------------------------------------------------------
(* acceptCandidate *)

OpKind(r) == IF r.kind \in {"create", "delete"} THEN r.resource.kind
             ELSE IF r.op = NoOp THEN "none" ELSE r.op.kind

Applies(r, c) ==
    CASE r.kind = "create" -> CreateApplies(c, r.resource)
      [] r.kind = "delete" -> Exists(c, r.resource)
      [] OTHER             -> r.op # NoOp => PatchApplies(c, r.op)

Candidate(r, c) ==
    CASE r.kind = "create" -> Created(c, r.resource)
      [] r.kind = "delete" -> Deleted(c, r.resource)
      [] OTHER             -> IF r.op = NoOp THEN c ELSE Patched(c, r.op)

\* A loaded configuration that is not valid is an internal error.
LoadFails(h) ==
    /\ pc[h] = "accept" /\ ~Valid(cfg[h])
    /\ Respond(h, "error")
    /\ UNCHANGED <<storeVars, runtime, txVars>>

\* The conversion of the document validates it, and ValidateCandidate validates
\* the same configuration again: what the first accepts, the second does.
Reject(h) ==
    /\ pc[h] = "accept" /\ Valid(cfg[h])
    /\ Applies(req[h], cfg[h]) => ~Valid(Candidate(req[h], cfg[h]))
    /\ Respond(h, "validationRejected")
    /\ UNCHANGED <<storeVars, runtime, txVars>>

\* Mutant: the candidate is not validated before it is saved.
AcceptableUnvalidated(h) == Valid(cfg[h]) /\ Applies(req[h], cfg[h])

Acceptable(h) ==
    /\ Valid(cfg[h])
    /\ Applies(req[h], cfg[h])
    /\ Valid(Candidate(req[h], cfg[h]))

ValidateOnly(h) ==
    /\ pc[h] = "accept" /\ req[h].kind = "validate" /\ Acceptable(h)
    /\ Respond(h, "committed")
    /\ UNCHANGED <<storeVars, runtime, txVars>>

\* Mutant: the revision is the clock, also when the clock went back.
NextRevisionClock(now) == now

\* The revision is the clock, or one more than the current one when the clock
\* is not ahead of it.
NextRevision(now) == IF now <= revision THEN revision + 1 ELSE now

\* Mutant: the largest revision is counted on from like any other.
RevisionUnbounded == revision <= MaxRevision

\* nextRevisionTx refuses to count past the largest int64.
RevisionLeft == revision < MaxRevision

\* SaveConfig: one transaction, which replaces every main table and the
\* revision.  The changes table stays.
Save(h, now) ==
    /\ pc[h] = "accept" /\ req[h].kind \in GraphWrites /\ Acceptable(h)
    /\ Connected
    /\ RevisionLeft
    /\ tables' = Candidate(req[h], cfg[h])
    /\ revision' = NextRevision(now)
    /\ UNCHANGED <<pending, applied, nextId, consumed, runtime, txVars>>
    /\ \/ /\ RequiresRestart(OpKind(req[h]))
          /\ Respond(h, "restartRequired")
       \/ /\ ~RequiresRestart(OpKind(req[h]))
          /\ cfg' = [cfg EXCEPT ![h] = tables']
          /\ Goto(h, "reload")
          /\ UNCHANGED <<req, todo, batch, result>>

\* The transaction fails: a revision at its maximum, or a database error.
SaveFails(h) ==
    /\ pc[h] = "accept" /\ req[h].kind \in GraphWrites /\ Acceptable(h)
    /\ Connected
    /\ Respond(h, "error")
    /\ UNCHANGED <<storeVars, runtime, txVars>>

\* Runtime.Reload validates again, and leaves the snapshot alone on an error.
Reload(h) ==
    /\ pc[h] = "reload"
    /\ runtime' = IF Valid(cfg[h]) THEN cfg[h] ELSE runtime
    /\ Respond(h, IF Valid(cfg[h]) THEN "committed" ELSE "runtimeRejected")
    /\ UNCHANGED <<storeVars, txVars>>

---------------------------------------------------------------------------
(* Staged changes *)

\* A staging handler looks at the snapshot and inserts one row.  The insert may
\* fail.
Stage(h) ==
    /\ pc[h] = "stage"
    /\ UNCHANGED <<tables, revision, applied, consumed, runtime, txVars>>
    /\ \/ /\ MayStage(runtime, req[h].change) => Connected
          /\ Respond(h, "error")
          /\ UNCHANGED <<pending, nextId>>
       \/ /\ MayStage(runtime, req[h].change)
          /\ Connected /\ nextId <= MaxChanges
          /\ pending' = pending \cup {[id |-> nextId, change |-> req[h].change]}
          /\ nextId' = nextId + 1
          /\ Respond(h, "ok")

\* One DELETE, which may fail.
Discard(h) ==
    /\ pc[h] = "discard"
    /\ Connected
    /\ \/ pending' = {} /\ Respond(h, "ok")
       \/ UNCHANGED pending /\ Respond(h, "error")
    /\ UNCHANGED <<tables, revision, applied, nextId, consumed, runtime, txVars>>

\* Mutant: ApplyPendingChanges does not wait for another one to end.
TakeApplyMuShared(h) ==
    /\ pc[h] = "lock"
    /\ applyMu' = h
    /\ Goto(h, "list")
    /\ UNCHANGED <<storeVars, runtime, conn, txTables, req, cfg, todo, batch, result>>

TakeApplyMu(h) ==
    /\ pc[h] = "lock"
    /\ applyMu = NoHandler
    /\ applyMu' = h
    /\ Goto(h, "list")
    /\ UNCHANGED <<storeVars, runtime, conn, txTables, req, cfg, todo, batch, result>>

\* ListPendingChanges: the query fails, nothing is pending, or there is a batch.
ListPending(h) ==
    /\ pc[h] = "list"
    /\ Connected
    /\ UNCHANGED <<storeVars, runtime, conn, txTables>>
    /\ \/ applyMu' = NoHandler /\ Respond(h, "error")
       \/ pending = {} /\ applyMu' = NoHandler /\ Respond(h, "ok")
       \/ /\ pending # {}
          /\ todo' = [todo EXCEPT ![h] = pending]
          /\ batch' = [batch EXCEPT ![h] = pending]
          /\ Goto(h, "begin")
          /\ UNCHANGED <<applyMu, req, cfg, result>>

BeginTx(h) ==
    /\ pc[h] = "begin"
    /\ Connected
    /\ conn' = h
    /\ txTables' = tables
    /\ Goto(h, "tx")
    /\ UNCHANGED <<storeVars, runtime, applyMu, req, cfg, todo, batch, result>>

\* applyChangeTx on the oldest row left.
ApplyChange(h, row) ==
    /\ pc[h] = "tx"
    /\ row \in todo[h] /\ \A other \in todo[h] : row.id <= other.id
    /\ txTables' = ChangeApplied(txTables, row.change)
    /\ todo' = [todo EXCEPT ![h] = @ \ {row}]
    /\ UNCHANGED <<storeVars, runtime, applyMu, conn, pc, req, cfg, batch, result>>

\* Mutant: applyMu guards the transaction only, not the load and the reload.
CommitTxUnlocks(h) ==
    /\ pc[h] = "tx" /\ todo[h] = {}
    /\ tables' = txTables
    /\ applied' = applied \cup (Ids(batch[h]) \cap Ids(pending))
    /\ pending' = {row \in pending : row.id \notin Ids(batch[h])}
    /\ consumed' = consumed \cup Ids(batch[h])
    /\ conn' = NoHandler /\ applyMu' = NoHandler
    /\ Goto(h, "settings")
    /\ UNCHANGED <<revision, nextId, runtime, txTables,
                   req, cfg, todo, batch, result>>

\* Every row is applied: mark them (an UPDATE by id, which does not touch a
\* row that is gone) and commit.  The graph revision is left as it is.
CommitTx(h) ==
    /\ pc[h] = "tx" /\ todo[h] = {}
    /\ tables' = txTables
    /\ applied' = applied \cup (Ids(batch[h]) \cap Ids(pending))
    /\ pending' = {row \in pending : row.id \notin Ids(batch[h])}
    /\ consumed' = consumed \cup Ids(batch[h])
    /\ conn' = NoHandler
    /\ Goto(h, "settings")
    /\ UNCHANGED <<revision, nextId, runtime, applyMu, txTables,
                   req, cfg, todo, batch, result>>

\* A row cannot be applied, the request is cancelled or the database fails.
RollbackTx(h) ==
    /\ pc[h] \in {"begin", "tx"}
    /\ pc[h] = "begin" => Connected
    /\ conn' = NoHandler
    /\ applyMu' = NoHandler
    /\ Respond(h, "error")
    /\ UNCHANGED <<storeVars, runtime, txTables>>

\* Mutant: the early return leaves applyMu locked.
ApplyLoadFailsLocked(h) ==
    /\ pc[h] = "loaded" /\ ~Valid(cfg[h])
    /\ Respond(h, "error")
    /\ UNCHANGED <<storeVars, runtime, txVars>>

\* What LoadAll read after the commit does not convert, or the applier, which
\* is Runtime.Reload, refuses it.  The tables keep the changes.
ApplyLoadFails(h) ==
    /\ pc[h] = "loaded" /\ ~Valid(cfg[h])
    /\ applyMu' = NoHandler
    /\ Respond(h, "error")
    /\ UNCHANGED <<storeVars, runtime, conn, txTables>>

ApplyReload(h) ==
    /\ pc[h] = "loaded" /\ Valid(cfg[h])
    /\ runtime' = cfg[h]
    /\ applyMu' = NoHandler
    /\ Respond(h, "ok")
    /\ UNCHANGED <<storeVars, conn, txTables>>

---------------------------------------------------------------------------
\* The process stops at any moment and is started again.  An open transaction
\* is rolled back.  Boot loads the tables before it serves; a store that does
\* not load is only logged, and the configuration file is served.
Restart ==
    /\ runtime' = IF Valid(tables) THEN tables ELSE Yaml
    /\ applyMu' = NoHandler /\ conn' = NoHandler /\ txTables' = Yaml
    /\ pc' = [h \in Handlers |-> "idle"]
    /\ req' = [h \in Handlers |-> NoRequest]
    /\ cfg' = [h \in Handlers |-> Yaml]
    /\ todo' = [h \in Handlers |-> {}]
    /\ batch' = [h \in Handlers |-> {}]
    /\ result' = [h \in Handlers |-> "none"]
    /\ UNCHANGED storeVars

GraphStep(h) ==
    \/ ReadRevision(h) \/ RereadRevision(h) \/ ReadSnapshot(h)
    \/ LoadTable(h) \/ LoadQueryFails(h)
    \/ LoadFails(h) \/ Reject(h) \/ ValidateOnly(h)
    \/ \E now \in 0..MaxRevision : Save(h, now)
    \/ SaveFails(h)
    \/ Reload(h)

StagedStep(h) ==
    \/ Stage(h) \/ Discard(h)
    \/ TakeApplyMu(h) \/ ListPending(h) \/ BeginTx(h)
    \/ \E row \in Rows : ApplyChange(h, row)
    \/ CommitTx(h) \/ RollbackTx(h)
    \/ ApplyLoadFails(h) \/ ApplyReload(h)

\* What a handler does once it has a request.
Serve(h) == GraphStep(h) \/ StagedStep(h)

Next == \/ \E h \in Handlers : Serve(h) \/ \E r \in Requests : Receive(h, r)
        \/ Restart

Spec == Init /\ [][Next]_vars

\* A goroutine that can run again and again does run: sync.Mutex hands over to
\* a starving waiter, and database/sql serves waiters for the connection in
\* order.  Nothing is assumed of the clients nor of crashes.
FairSpec == Spec /\ \A h \in Handlers : SF_vars(Serve(h))

---------------------------------------------------------------------------
(* The inductive invariant *)

PhaseOfKind ==
    \A h \in Handlers :
        /\ pc[h] = "stage" => req[h].kind = "stage"
        /\ pc[h] \in LoadPhases => req[h].kind \in GraphWrites \cup {"validate", "apply"}
        /\ pc[h] \in {"lock", "list", "begin", "tx", "loaded"} => req[h].kind = "apply"
        /\ pc[h] \in {"revision", "recheck", "accept", "reload"} =>
               req[h].kind \in GraphWrites \cup {"get", "validate"}

InApply(h) == \/ pc[h] \in {"list", "begin", "tx", "loaded"}
              \/ pc[h] \in LoadPhases /\ req[h].kind = "apply"

\* Whoever is between the listing and the end of an apply holds applyMu.
ApplyMutex == \A h \in Handlers : InApply(h) => applyMu = h

\* Ids are handed out once; a listed row has not reached the tables yet.
BatchFresh ==
    /\ \A i \in Ids(pending) \cup consumed : i < nextId
    /\ Ids(pending) \cap consumed = {}
    /\ \A h \in Handlers :
           pc[h] \in {"begin", "tx"} =>
               /\ Ids(batch[h]) \cap consumed = {}
               /\ \A i \in Ids(batch[h]) : i < nextId

IInv == /\ TypeOK
        /\ PhaseOfKind
        /\ ApplyMutex
        /\ BatchFresh

\* What an apply has read of the tables so far is what they hold: whoever else
\* would replace them waits for applyMu.  The graph handlers do not take it,
\* and this holds where they are not used.
ReadAfter(table) ==
    CASE table = "settings"  -> LoadPhases \ {"settings"}
      [] table = "models"    -> {"providers", "offers", "routes"}
      [] table = "providers" -> {"offers", "routes"}
      [] table = "offers"    -> {"routes"}
      [] table = "routes"    -> {}

LoadUntorn ==
    \A h \in Handlers : req[h].kind = "apply" =>
        \A table \in LoadPhases :
            pc[h] \in ReadAfter(table) \cup {"loaded"} =>
                cfg[h][table] = tables[table]

---------------------------------------------------------------------------
(* Steps the properties speak of *)

Saves(h) == pc[h] = "accept" /\ pc'[h] # "accept" /\ revision' # revision
CommitsBatch(h) == pc[h] = "tx" /\ pc'[h] = "settings"

\* The apply that committed a batch ends, and answers its client.
AnswersApply(h) == pc[h] = "loaded" /\ pc'[h] = "idle"

(* Properties that hold *)

\* An apply that committed its batch and is answered "ok" leaves the runtime
\* serving exactly what the tables then hold, although the load takes five
\* queries outside the transaction, other clients stage, discard and apply
\* meanwhile, and an apply before it may have committed and failed to load.
\* The graph handlers save without applyMu, and with them it does not hold.
AppliedIsServed ==
    [][\A h \in Handlers :
          AnswersApply(h) /\ result'[h] = "ok" => runtime' = tables']_vars

\* The graph handlers alone never persist a configuration that would not load
\* at the next boot, although a load may mix two versions of the tables.
StoreLoads == Valid(tables)

\* A revision is never reused nor goes back, whatever the clock does.
RevisionIncreases == [][revision' # revision => revision' > revision]_vars

\* A staged change reaches the tables at most once, although two clients may
\* apply at once, an apply may roll back and the process may crash.
AppliedOnce ==
    [][\A h \in Handlers :
          CommitsBatch(h) => Ids(batch[h]) \cap consumed = {}]_vars

\* A commit replaces the revision its request named as base.  This does not
\* hold: two handlers compare before either saves, and a create whose revision
\* read fails does not compare at all.
CommitsAreFresh ==
    [][\A h \in Handlers : Saves(h) => req[h].base = revision]_vars

\* An apply answered "ok" leaves the runtime serving what the tables hold.
\* This does not hold: after an apply that committed and failed to load,
\* nothing is pending, and the next apply is answered "ok" and loads nothing.
OkMeansServed ==
    [][\A h \in Handlers :
          req[h].kind = "apply" /\ result[h] = "none" /\ result'[h] = "ok"
              => runtime' = tables']_vars

\* With no request in progress, the hot-reloadable field that was saved is the
\* one being served.  This holds for one handler at a time, and not for two.
HotFieldIsLive ==
    (\A h \in Handlers : pc[h] = "idle")
        => runtime.settings.defaults = tables.settings.defaults

\* Every request is answered: no handler waits for ever for applyMu or for the
\* connection.
EveryRequestAnswered ==
    \A h \in Handlers : pc[h] # "idle" ~> pc[h] = "idle"
============================================================================
