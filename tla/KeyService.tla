----------------------------- MODULE KeyService -----------------------------
(***************************************************************************)
(* KeyCatalogService over the catalog and the owner-file provider          *)
(* (application/key_catalog.py), with the ceremonies that create, open and *)
(* reconcile an installation (bootstrap/key_catalog.py) and the sentinel   *)
(* administration (adapters/keys/owner_file_admin.py).                     *)
(*                                                                         *)
(* A task is one call, a script of catalog transactions and provider       *)
(* operations; the decision lock admits one at a time.  Between any two of *)
(* its steps, and between the steps of a provider operation, the key file  *)
(* may be replaced, handles are used, and the process may die.             *)
(***************************************************************************)
EXTENDS KeyCatalog, OwnerFileProvider, Sequences

ASSUME CompositionAssumption == WrapLimit = UsageLimit /\ Cardinality(Provider) = 1
                                /\ Cardinality(Path) = 1 /\ Cardinality(Installation) = 1

VARIABLES
    task,           \* the call under way
    composed,       \* whether the process has a KeyCatalogService
    granted,        \* the wrapped keys returned by create_profile_key (history)
    sentinelSeals,  \* the keys and nonces that encrypted a sentinel (history)
    reported        \* a call has answered that the catalog requires recovery (history)

serviceVars == <<task, composed, granted, sentinelSeals, reported>>

vars == <<catalogVars, providerVars, serviceVars>>

P == CHOOSE p \in Provider : TRUE

KeyPath == CHOOSE path \in Path : TRUE

Install == CHOOSE i \in Installation : TRUE

\* waiting: a provider operation has been begun; nonce, seq and key are the
\* reservation and the source commitment in hand, pin the source last seen.
NoTask == [op |-> "none", step |-> "none", waiting |-> FALSE, binding |-> None,
           nonce |-> None, seq |-> 0, key |-> None, pin |-> None]

Composing == {"compose", "initialize", "resume"}

Reconciling == {"reconcile_initialization", "reconcile_profile_key"}

\* The calls, each as the sequence of its steps.
ComposeNativeKeyCatalog == <<"load", "construct", "readiness">>

\* The ordinary composition follows the ceremonies that finish a catalog.
InitializeNativeKeyCatalog == <<"commitment", "begin", "seal", "reseal", "finish">>

ResumeInitialization == <<"load", "record", "seal", "reseal", "finish">>

ReconcileInitialization == <<"load", "record", "seal", "reseal", "finish">>

ReconcileNativeProfileKey == <<"load", "construct", "readiness", "fetch", "unwrap">>

\* (As a creation that reserves its nonce after it has encrypted.)
CreateSealingFirst ==
    <<"load", "readiness", "prepare", "consume", "complete", "reserve", "publish">>

CreateProfileKey ==
    <<"load", "readiness", "prepare", "reserve", "consume", "complete", "publish">>

OpenProfileKey == <<"load", "readiness", "fetch", "unwrap">>

Script(op) ==
    CASE op = "compose"                  -> ComposeNativeKeyCatalog
      [] op = "initialize"               -> InitializeNativeKeyCatalog
      [] op = "resume"                   -> ResumeInitialization
      [] op = "reconcile_initialization" -> ReconcileInitialization
      [] op = "reconcile_profile_key"    -> ReconcileNativeProfileKey
      [] op = "create"                   -> CreateProfileKey
      [] OTHER                           -> OpenProfileKey

\* The step that follows a step that succeeded and is not the last.
After(op, step) == Script(op)[(CHOOSE i \in DOMAIN Script(op) : Script(op)[i] = step) + 1]

Running(step) == task.step = step /\ ~task.waiting

\* The script goes on with t.
Proceed(t) == task' = [t EXCEPT !.step = After(task.op, task.step), !.waiting = FALSE]

Quiet == UNCHANGED <<providerVars, composed, granted, sentinelSeals, reported>>

\* The call ends: its preparation and wrapped key are dropped, and so is a
\* provider that no service was built on.
DropLocals ==
    IF Live(P) /\ ~composed THEN Drop(P)
    ELSE prep' = {} /\ wrapped' = {} /\ UNCHANGED <<source, domain, provider, call, handle, sealed>>

EndCall == task' = NoTask /\ DropLocals /\ UNCHANGED <<composed, granted, sentinelSeals>>

GiveUp == EndCall /\ UNCHANGED reported

\* A catalog step that answered code: the script goes on, or the error is raised.
Answer(code) ==
    \/ code = "ok" /\ Proceed(task) /\ Quiet
    \/ code # "ok" /\ GiveUp

-----------------------------------------------------------------------------
(* Calls begin.                                                            *)

Start(op, b) ==
    /\ task = NoTask /\ runtime # "down"
    /\ task' = [NoTask EXCEPT !.op = op, !.step = Script(op)[1], !.binding = b]
    /\ UNCHANGED <<catalogVars, providerVars, composed, granted, sentinelSeals, reported>>

\* compose_native_key_catalog, resume_..., reconcile_native_...
StartBootstrap(op) ==
    /\ ~composed /\ (op \in Reconciling <=> runtime = "recovery")
    /\ \E b \in Binding \cup {None} :
          /\ b # None <=> op = "reconcile_profile_key"
          /\ Start(op, b)

\* create_profile_key, open_profile_key; the handles bound the keys that are open.
StartService(op, b) ==
    /\ composed /\ (op = "open" => \E h \in Handle : handle[h].state = "closed")
    /\ Start(op, b)

-----------------------------------------------------------------------------
(* Steps on the catalog.                                                   *)

\* What load_catalog answers and what the caller asks of the state.
Required(op) == IF op \in {"resume", "reconcile_initialization"} THEN "preparing" ELSE "active"

LoadedFor(op) ==
    IF LoadSnapshot(db) # "ok" THEN LoadSnapshot(db)
    ELSE IF db.catalog.state # Required(op) THEN "recovery_required" ELSE "ok"

\* load_catalog and the checks of the snapshot that follow it.
LoadCatalog ==
    /\ Running("load")
    /\ \E code \in {LoadedFor(task.op), "corrupt"} \cup Failure :
          /\ IF task.op \in Reconciling THEN ReconciliationRead(LoadedFor(task.op), code)
                                        ELSE Read(LoadedFor(task.op), code)
          /\ Answer(code)

\* load_initialization: the reserved nonce and the pinned source.
LoadRecord ==
    /\ Running("record")
    /\ LET loaded == LoadInitialization(db)
       IN  \E code \in {loaded, "corrupt"} \cup Failure :
              /\ IF task.op \in Reconciling THEN ReconciliationRead(loaded, code)
                                            ELSE Read(loaded, code)
              /\ \/ /\ code = "ok" /\ Quiet
                    /\ Proceed([task EXCEPT !.seq = 1, !.nonce = SentinelReservation(db).nonce,
                                            !.key = db.catalog.commitment])
                 \/ code # "ok" /\ GiveUp

BeginCatalog ==
    /\ Running("begin")
    /\ \E code \in {"ok", "identity_mismatch"} \cup Failure :
          /\ Transact(BeginInitialization(db, task.nonce, task.key), code)
          /\ \/ code = "ok" /\ Proceed([task EXCEPT !.seq = 1]) /\ Quiet
             \/ code # "ok" /\ GiveUp

\* finish_initialization; the ordinary opening of the catalog follows.
FinishCatalog ==
    /\ Running("finish")
    /\ LET t == FinishInitialization(db, task.seq,
                    [install |-> Install, nonce |-> task.nonce, key |-> task.pin.key])
       IN  \E code \in {t.code} \cup Failure :
              /\ IF task.op \in Reconciling THEN ReconciliationFinish(t, code) ELSE Transact(t, code)
              /\ \/ /\ code = "ok" /\ task.op \notin Reconciling
                    /\ task' = [NoTask EXCEPT !.op = "compose", !.step = "load"] /\ Quiet
                 \/ (code # "ok" \/ task.op \in Reconciling) /\ GiveUp

ReserveCatalog ==
    /\ Running("reserve")
    /\ LET t == ReserveProfilePreparation(db, task.binding, task.nonce)
       IN  \E code \in {t.code} \cup Failure :
              /\ Transact(t, code)
              /\ \/ code = "ok" /\ Proceed([task EXCEPT !.seq = db'.catalog.used]) /\ Quiet
                 \/ code # "ok" /\ GiveUp

\* publish_profile_key, and the wrapped key is returned.
PublishCatalog ==
    /\ Running("publish")
    /\ \E w \in wrapped :
          /\ w.binding = task.binding /\ w.nonce = task.nonce
          /\ LET t == PublishProfileKey(db, task.seq, w)
             IN  \E code \in {t.code} \cup Failure :
                    /\ Transact(t, code)
                    /\ \/ /\ code = "ok" /\ task' = NoTask /\ granted' = granted \cup {w}
                          /\ DropLocals /\ UNCHANGED <<composed, sentinelSeals, reported>>
                       \/ code # "ok" /\ GiveUp

\* load_profile_key, reconcile_profile_key: no record ends the call.
FetchCatalog ==
    /\ Running("fetch")
    /\ LET loaded == IF LoadActive(db) # "ok" THEN LoadActive(db)
                     ELSE IF Records(db, task.binding) = {} THEN "not_initialized" ELSE "ok"
       IN  \E code \in {loaded, "corrupt"} \cup Failure :
              /\ IF task.op \in Reconciling THEN ReconciliationRead(loaded, code)
                                            ELSE Read(loaded, code)
              /\ Answer(code)

\* require_recovery after a provider failure, and the caller is told that recovery
\* is required; when it raises, the caller gets that error.
RecoverCatalog ==
    /\ Running("recover")
    /\ \E code \in {RequireRecovery(db).code} \cup Failure :
          /\ Transact(RequireRecovery(db), code)
          /\ reported' = (reported \/ code = "ok")
    /\ EndCall

-----------------------------------------------------------------------------
(* Steps on the sentinel administration.                                   *)

\* _read_existing_source, _open_private_parent, _validate_directory and
\* _validate_file: the same checks as the provider's, in code of their own.
ReadExistingSource == OpenSource(KeyPath)

\* initialize_native_key_catalog up to read_source_commitment.
ReadCommitment ==
    /\ Running("commitment")
    /\ \/ \E s \in ReadExistingSource, n \in Nonce :
             /\ s.code = "ok"
             /\ Proceed([task EXCEPT !.nonce = n, !.key = s.pin.key]) /\ Quiet
       \/ GiveUp
    /\ UNCHANGED catalogVars

\* (As it would be if the source were not compared with the commitment.)
SealAnySource ==
    /\ Running("seal")
    /\ \E s \in ReadExistingSource :
          /\ s.code = "ok"
          /\ Proceed([task EXCEPT !.pin = s.pin])
          /\ sentinelSeals' = sentinelSeals \cup {[key |-> s.pin.key, nonce |-> task.nonce]}
    /\ UNCHANGED <<catalogVars, providerVars, composed, granted, reported>>

\* create_readiness_sentinel: the source must be the one committed to.
SealSentinel ==
    /\ Running("seal")
    /\ \E s \in ReadExistingSource :
          \/ /\ s.code = "ok" /\ s.pin.key = task.key
             /\ Proceed([task EXCEPT !.pin = s.pin])
             /\ sentinelSeals' = sentinelSeals \cup {[key |-> s.pin.key, nonce |-> task.nonce]}
             /\ UNCHANGED <<providerVars, composed, granted, reported>>
          \/ GiveUp
    /\ UNCHANGED catalogVars

\* It reads the source again and compares its whole identity.
ResealSentinel ==
    /\ Running("reseal")
    /\ \E s \in ReadExistingSource :
          IF s.code = "ok" /\ s.pin = task.pin THEN Answer("ok") ELSE GiveUp
    /\ UNCHANGED catalogVars

-----------------------------------------------------------------------------
(* Steps on the provider: an operation is begun, it runs by itself, and    *)
(* its result is taken.                                                    *)

\* OwnerFileSecretProvider(...), with the sentinel of the catalog.
ConstructProvider ==
    /\ Running("construct")
    /\ Construct(P, KeyPath, [install |-> Install, nonce |-> SentinelReservation(db).nonce,
                              key |-> db.sentinel.key])
    /\ Proceed(task)
    /\ UNCHANGED <<catalogVars, composed, granted, sentinelSeals, reported>>

CallProvider ==
    /\ ~task.waiting
    /\ \/ task.step = "readiness" /\ ReadinessBegin(P)
       \/ task.step = "prepare" /\ PrepareBegin(P, task.binding)
       \/ task.step = "complete" /\ \E r \in prep : CompleteBegin(P, r)
       \/ task.step = "unwrap" /\ \E w \in Records(db, task.binding), h \in Handle :
             handle[h].state = "closed" /\ UnwrapBegin(P, w, h)
    /\ task' = [task EXCEPT !.waiting = TRUE]
    /\ UNCHANGED <<catalogVars, composed, granted, sentinelSeals, reported>>

\* A SecretProviderError: the service requires recovery of the catalog, the
\* reconciliation only reports it.
ProviderFailed ==
    \/ /\ task.op \in Reconciling /\ GiveUp
    \/ /\ task.op \notin Reconciling
       /\ task' = [task EXCEPT !.step = "recover", !.waiting = FALSE]
       /\ UNCHANGED <<providerVars, composed, granted, sentinelSeals, reported>>

\* complete_profile_key consumes the preparation before it takes the lock.  It
\* is always current: nothing but this call uses the provider in between.
ConsumePreparation ==
    /\ Running("consume")
    /\ \E r \in prep : Consume(P, r) /\ Proceed(task)
    /\ UNCHANGED <<catalogVars, composed, granted, sentinelSeals, reported>>

TakeResult ==
    /\ task.waiting /\ Free(P)
    /\ \/ call[P].code # "ok" /\ ProviderFailed
       \/ /\ call[P].code = "ok" /\ task.step = "readiness" /\ task.op \in Composing
          /\ composed' = TRUE /\ task' = NoTask
          /\ UNCHANGED <<providerVars, granted, sentinelSeals, reported>>
       \/ /\ call[P].code = "ok" /\ task.step = "prepare" /\ Quiet
          /\ \E r \in prep : Proceed([task EXCEPT !.nonce = r.nonce])
       \/ /\ call[P].code = "ok" /\ task.step = "unwrap" /\ GiveUp
       \/ /\ call[P].code = "ok"
          /\ task.step = "complete" \/ (task.step = "readiness" /\ task.op \notin Composing)
          /\ Proceed(task) /\ Quiet
    /\ UNCHANGED catalogVars

-----------------------------------------------------------------------------
(* Everything else.                                                        *)

ProviderStep ==
    /\ Work(P) \/ End(P)
    /\ UNCHANGED <<catalogVars, serviceVars>>

Environment ==
    /\ \/ \E status \in SourceStatus, k \in Key : ChangeSource(KeyPath, status, k)
       \/ \E h \in Handle : HandleNext(h)
    /\ UNCHANGED <<catalogVars, serviceVars>>

\* The runtime is closed under whatever call is under way: no step of a call
\* leaves a transaction open.
CloseProcess ==
    /\ CloseRuntime
    /\ UNCHANGED <<providerVars, serviceVars>>

\* The process ends, or dies at any point.  What it knew is lost.
StopProcess ==
    /\ StopRuntime
    /\ domain' = [k \in Key |-> UnknownDomain]
    /\ provider' = [p \in Provider |-> NoProvider]
    /\ call' = [p \in Provider |-> Ended("ok")]
    /\ handle' = [h \in Handle |-> NoHandle]
    /\ prep' = {} /\ wrapped' = {}
    /\ task' = NoTask /\ composed' = FALSE
    /\ UNCHANGED <<source, sealed, granted, sentinelSeals, reported>>

StartProcess ==
    /\ StartRuntime \/ ClearLatch
    /\ UNCHANGED <<providerVars, serviceVars>>

Init ==
    /\ CatalogInit /\ ProviderInit
    /\ task = NoTask /\ composed = FALSE
    /\ granted = {} /\ sentinelSeals = {} /\ reported = FALSE

CatalogStep ==
    \/ LoadCatalog \/ LoadRecord \/ BeginCatalog \/ FinishCatalog
    \/ ReserveCatalog \/ PublishCatalog \/ FetchCatalog \/ RecoverCatalog

SentinelStep == ReadCommitment \/ SealSentinel \/ ResealSentinel

CallStep == ConstructProvider \/ CallProvider \/ ConsumePreparation \/ TakeResult

TaskStep == CatalogStep \/ SentinelStep \/ CallStep \/ ProviderStep

Next ==
    \/ \E op \in Composing \cup Reconciling : StartBootstrap(op)
    \/ \E op \in {"create", "open"}, b \in Binding : StartService(op, b)
    \/ TaskStep \/ Environment
    \/ CloseProcess \/ StopProcess \/ StartProcess

Spec == Init /\ [][Next]_vars

-----------------------------------------------------------------------------
(* Properties.                                                             *)

TypeOK ==
    /\ ProviderTypeOK
    /\ db.catalog \in CatalogRow \cup {None} /\ db.ledger \subseteq Reservation
    /\ db.sentinel \in SentinelRow \cup {None} /\ db.keys \subseteq WrappedRow
    /\ runtime \in {"down", "open", "recovery", "abandoned", "closed"} /\ latch \in BOOLEAN
    /\ composed \in BOOLEAN /\ reported \in BOOLEAN /\ granted \subseteq WrappedKey

\* No nonce encrypts twice under one wrapping key over the whole life of the
\* installation: not after a restart that has forgotten the nonces of the process,
\* nor when a commit was ambiguous, a call died half way, or a key file was
\* swapped.  The one repetition is the sentinel of an interrupted ceremony, which
\* is sealed again from the same key, nonce and text (reserve_profile_preparation,
\* create_readiness_sentinel).
NonceNeverReused ==
    \A k \in Key, n \in Nonce :
        /\ sealed[k][n] <= 1
        /\ [key |-> k, nonce |-> n] \in sentinelSeals => sealed[k][n] = 0

\* A nonce is in the durable ledger before anything is encrypted under it, and in
\* the ledger of that very key (create_profile_key, begin_initialization).
SealedIsReserved ==
    \A k \in Key, n \in Nonce :
        (sealed[k][n] > 0 \/ [key |-> k, nonce |-> n] \in sentinelSeals) =>
            /\ \E r \in db.ledger : r.nonce = n
            /\ db.catalog.commitment = k

\* A wrapped key that create_profile_key returned is in the catalog for ever, with
\* its nonce, whatever happened afterwards.
GrantedIsDurable == \A w \in granted : w \in Records(db, w.binding)

\* The sentinel and every published key authenticate under the key file that the
\* first transaction committed to: the owner may swap files at any moment of the
\* ceremony or of a creation (source_commitment, the provider's pin).
OneKeyAuthenticates ==
    db.catalog # None =>
        /\ db.sentinel # None => db.sentinel.key = db.catalog.commitment
        /\ \A w \in db.keys : w.key = db.catalog.commitment

\* Every catalog that a sequence of calls, failures and crashes can commit passes
\* the strict load, and a preparing one can be resumed (_load_snapshot).
CatalogLoads ==
    db.catalog # None =>
        /\ LoadSnapshot(db) = "ok"
        /\ db.catalog.state = "preparing" => LoadInitialization(db) = "ok"

\* Once a caller was told that a failure of the provider requires recovery, key work
\* is over for good: no table changes, nothing is encrypted, no key is returned and
\* none is opened, whatever calls, ceremonies and reconciliations, restarts, cleared
\* latches and restored key files follow (KeyCatalogService, require_recovery).
RecoveryIsFinal ==
    [][reported =>
          /\ UNCHANGED <<reported, db, sealed, sentinelSeals, granted>>
          /\ \A h \in Handle : handle'[h].state = "issued" => handle[h].state = "issued"]_vars
=============================================================================
