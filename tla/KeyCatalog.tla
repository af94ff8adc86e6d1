----------------------------- MODULE KeyCatalog -----------------------------
(***************************************************************************)
(* SqliteKeyCatalog: the wrapped-key catalog in SQLite                     *)
(* (adapters/persistence/key_catalog.py, the schema of migration 0003).    *)
(*                                                                         *)
(* Every operation is one transaction on the four tables, under the        *)
(* client lock and BEGIN IMMEDIATE: an operator takes the tables to the    *)
(* code and the tables it would commit.  Transact says what the caller     *)
(* gets: a commit may also fail before or after it has taken effect, and a *)
(* statement may fail.  The catalog then abandons the runtime              *)
(* (SQLiteRuntime), which forgets nothing until the operator clears it.    *)
(***************************************************************************)
EXTENDS KeyRecords

CONSTANTS UsageLimit    \* KeyCatalogIdentity.usage_limit

ASSUME UsageAssumption == UsageLimit \in Nat /\ UsageLimit >= 2

VARIABLES
    db,         \* the four tables, as committed
    runtime,    \* the SQLiteRuntime of the process that owns the database
    latch       \* the recovery latch on disk, or a marker that will set it

catalogVars == <<db, runtime, latch>>

CatalogState == {"preparing", "active", "recovery_required"}

Lifecycle == {"reserved", "committed", "burned"}

\* key_catalog.  The identity is fixed by the composition and the same in every
\* row; commitment stands for the key material that source_commitment digests.
CatalogRow == [state : CatalogState, revision : Nat, used : Nat, commitment : Key]

\* key_nonce_reservations.  The fresh reservation id is modelled by the usage
\* sequence; binding is None for the sentinel.
Reservation == [seq : Nat, nonce : Nonce, purpose : {"sentinel", "profile"},
                lifecycle : Lifecycle, binding : Binding \cup {None}]

\* key_readiness_sentinel and wrapped_profile_keys; key is the wrapping key that
\* the ciphertext authenticates under.
SentinelRow == [seq : Nat, key : Key]

WrappedRow == [binding : Binding, seq : Nat, key : Key]

ASSUME CatalogNone == None \notin Binding /\ None \notin CatalogRow /\ None \notin SentinelRow

EmptyTables == [catalog |-> None, ledger |-> {}, sentinel |-> None, keys |-> {}]

\* The unique constraints and checks of the schema: the tables a statement of
\* this module can leave without an IntegrityError.
SchemaAccepts(d) ==
    /\ d.catalog # None =>
          /\ d.catalog.revision >= 1
          /\ d.catalog.used \in 1..UsageLimit
    /\ \A r, s \in d.ledger : r.seq = s.seq \/ r.nonce = s.nonce => r = s
    /\ \A r, s \in d.ledger : r.binding # None /\ r.binding = s.binding => r = s
    /\ \A r \in d.ledger : r.seq >= 1 /\ (r.purpose = "sentinel" <=> r.binding = None)
    /\ \A w, v \in d.keys : w.binding = v.binding \/ w.seq = v.seq => w = v
    /\ \A w \in d.keys : \E r \in d.ledger : r.seq = w.seq

-----------------------------------------------------------------------------
(* Strict loading.                                                         *)

\* _validate_ledger: the counter, the sequence, and the two directions of the
\* join between published keys and committed reservations.
ValidateLedger(d) ==
    /\ Cardinality(d.ledger) = d.catalog.used
    /\ \E r \in d.ledger : r.seq = 1 /\ r.purpose = "sentinel"
    /\ \E r \in d.ledger : r.seq = d.catalog.used
    /\ \A r \in d.ledger :
          /\ r.seq \in 1..d.catalog.used
          /\ r.purpose = "sentinel" <=> r.seq = 1
    /\ \A w \in d.keys : \E r \in d.ledger :
          r.seq = w.seq /\ r.lifecycle = "committed" /\ r.binding = w.binding
    /\ \A r \in d.ledger : r.purpose = "profile" /\ r.lifecycle = "committed" =>
          \E w \in d.keys : w.seq = r.seq /\ w.binding = r.binding

\* The join of the sentinel with its reservation, and KeyCatalogSnapshot's own
\* check that a catalog has a sentinel unless it is preparing.
ValidateSentinel(d) ==
    /\ d.sentinel # None => \E r \in d.ledger :
          r.seq = d.sentinel.seq /\ r.lifecycle = "committed" /\ r.purpose = "sentinel"
    /\ d.catalog.state = "preparing" <=> d.sentinel = None

\* _load_snapshot: the code it raises.
LoadSnapshot(d) ==
    CASE d.catalog = None -> "not_initialized"
      [] ~(ValidateLedger(d) /\ ValidateSentinel(d)) -> "corrupt"
      [] OTHER -> "ok"

\* _assert_active_binding, for bindings of this installation.
LoadActive(d) ==
    IF LoadSnapshot(d) # "ok" THEN LoadSnapshot(d)
    ELSE IF d.catalog.state # "active" THEN "recovery_required" ELSE "ok"

\* _load_initialization_record: the sole reservation of a preparing catalog.
LoadInitialization(d) ==
    IF LoadSnapshot(d) # "ok" THEN LoadSnapshot(d)
    ELSE IF d.catalog.state # "preparing" THEN "identity_mismatch"
    ELSE IF Cardinality({r \in d.ledger : r.purpose = "sentinel" /\ r.lifecycle = "reserved"}) # 1
    THEN "corrupt" ELSE "ok"

SentinelReservation(d) == CHOOSE r \in d.ledger : r.purpose = "sentinel"

At(d, seq) == CHOOSE r \in d.ledger : r.seq = seq

\* _profile_row and _profile_reservation_row: what the tables hold of a binding.
ProfileRow(d, b) == {w \in d.keys : w.binding = b}

ProfileReservationRow(d, b) == {r \in d.ledger : r.binding = b}

\* load_profile_key, reconcile_profile_key: the stored record of a binding.
Records(d, b) ==
    {[binding |-> b, nonce |-> At(d, w.seq).nonce, key |-> w.key] : w \in ProfileRow(d, b)}

-----------------------------------------------------------------------------
(* The transactions.                                                       *)

Raise(code, d) == [code |-> code, tables |-> d]

\* The statements were executed and the transaction commits d.
Stage(d) == IF SchemaAccepts(d) THEN [code |-> "ok", tables |-> d]
            ELSE [code |-> "unavailable", tables |-> d]

Committed(ledger, seq) ==
    {IF r.seq = seq THEN [r EXCEPT !.lifecycle = "committed"] ELSE r : r \in ledger}

Advanced(row) == [row EXCEPT !.revision = @ + 1]

\* begin_initialization
BeginInitialization(d, n, k) ==
    IF d.catalog # None THEN Raise("identity_mismatch", d)
    ELSE Stage([d EXCEPT
        !.catalog = [state |-> "preparing", revision |-> 1, used |-> 1, commitment |-> k],
        !.ledger = {[seq |-> 1, nonce |-> n, purpose |-> "sentinel",
                     lifecycle |-> "reserved", binding |-> None]}])

\* finish_initialization, _stage_initialization_finish: s is the sentinel made for
\* the reservation seq.
FinishInitialization(d, seq, s) ==
    IF LoadSnapshot(d) # "ok" THEN Raise(LoadSnapshot(d), d)
    ELSE IF d.catalog.state # "preparing" THEN Raise("identity_mismatch", d)
    ELSE IF ~\E r \in d.ledger : /\ r.seq = seq /\ r.purpose = "sentinel"
                                 /\ r.lifecycle = "reserved" /\ r.nonce = s.nonce
    THEN Raise("identity_mismatch", d)
    ELSE Stage([d EXCEPT !.sentinel = [seq |-> seq, key |-> s.key],
                         !.ledger = Committed(@, seq),
                         !.catalog = Advanced([@ EXCEPT !.state = "active"])])

\* (As it would be if an interrupted creation could be tried again.)
ReserveAgain(d, b, n) ==
    LET old == {r \in d.ledger : r.binding = b /\ r.lifecycle = "reserved"}
    IN  IF LoadActive(d) = "ok" /\ old # {} /\ ~\E r \in d.ledger : r.nonce = n
        THEN Stage([d EXCEPT !.ledger = (@ \ old) \cup {[r EXCEPT !.nonce = n] : r \in old}])
        ELSE IF LoadActive(d) = "ok" /\ d.catalog.used < UsageLimit
        THEN Stage([d EXCEPT
            !.ledger = @ \cup {[seq |-> d.catalog.used + 1, nonce |-> n, purpose |-> "profile",
                                lifecycle |-> "reserved", binding |-> b]},
            !.catalog = Advanced([d.catalog EXCEPT !.used = @ + 1])])
        ELSE Raise("unavailable", d)

\* reserve_profile_preparation: the nonce is burned before any key exists.
ReserveProfilePreparation(d, b, n) ==
    CASE LoadActive(d) # "ok" -> Raise(LoadActive(d), d)
      [] ProfileRow(d, b) # {} \/ ProfileReservationRow(d, b) # {} ->
            Raise("duplicate_profile_key", d)
      [] \E r \in d.ledger : r.nonce = n -> Raise("nonce_reuse", d)
      [] d.catalog.used >= UsageLimit -> Raise("usage_limit", d)
      [] OTHER -> Stage([d EXCEPT
            !.ledger = @ \cup {[seq |-> d.catalog.used + 1, nonce |-> n, purpose |-> "profile",
                                lifecycle |-> "reserved", binding |-> b]},
            !.catalog = Advanced([d.catalog EXCEPT !.used = @ + 1])])

\* _reservation_matches
ReservationMatches(d, seq, b, n) ==
    \E r \in d.ledger : /\ r.seq = seq /\ r.nonce = n /\ r.purpose = "profile"
                        /\ r.lifecycle = "reserved" /\ r.binding = b

\* (As it would be if the reservation were not updated with the key.)
PublishAlone(d, seq, w) ==
    IF LoadActive(d) # "ok" \/ ~ReservationMatches(d, seq, w.binding, w.nonce)
    THEN Raise("identity_mismatch", d)
    ELSE Stage([d EXCEPT !.keys = @ \cup {[binding |-> w.binding, seq |-> seq, key |-> w.key]},
                         !.catalog = Advanced(@)])

\* publish_profile_key: w is the key wrapped for the reservation seq.
PublishProfileKey(d, seq, w) ==
    CASE LoadActive(d) # "ok" -> Raise(LoadActive(d), d)
      [] ~ReservationMatches(d, seq, w.binding, w.nonce) -> Raise("identity_mismatch", d)
      [] ProfileRow(d, w.binding) # {} -> Raise("duplicate_profile_key", d)
      [] OTHER -> Stage([d EXCEPT
            !.keys = @ \cup {[binding |-> w.binding, seq |-> seq, key |-> w.key]},
            !.ledger = Committed(@, seq),
            !.catalog = Advanced(@)])

\* (As it would be if the new state were not written.)
RecoveryUnwritten(d) == Raise(LoadSnapshot(d), d)

\* require_recovery
RequireRecovery(d) ==
    IF LoadSnapshot(d) # "ok" THEN Raise(LoadSnapshot(d), d)
    ELSE IF d.catalog.state = "recovery_required" THEN Raise("ok", d)
    ELSE Stage([d EXCEPT !.catalog = Advanced([@ EXCEPT !.state = "recovery_required"])])

-----------------------------------------------------------------------------
(* The runtime, as SQLiteRuntime shows it.  "abandoned" is one that takes  *)
(* no work and owes a recovery, "closed" one that was closed cleanly; the  *)
(* process is still alive in both.                                         *)

\* SQLiteRuntime.abandon, or a shutdown that failed: the recovery state stays on
\* disk, or the marker that will set it.
Abandoned == runtime' = "abandoned" /\ latch' = TRUE

\* SQLiteRuntime.close_cleanly.
Closed == runtime' = "closed" /\ UNCHANGED latch

\* _latch_recovery.  Its abandon is refused, and the refusal suppressed, when
\* another thread is closing the runtime, which may then end without a latch.
Abandon == Abandoned \/ Closed

Refusing == {"corrupt", "nonce_reuse", "unavailable", "commit_outcome_unknown"}

\* What an operation may answer whatever the tables hold.  "not_ready" is the
\* SQLiteReadinessError of a runtime that takes no work or is at work for another
\* client.  The catalog does not catch it.
Failure == {"unavailable", "commit_outcome_unknown", "not_ready"}

\* (As it would be if the failure of a commit were not reported.)
TransactTrusting(t, code) ==
    IF runtime = "open" /\ t.code = "ok"
    THEN code = "ok" /\ db' \in {db, t.tables} /\ UNCHANGED <<runtime, latch>>
    ELSE code # "ok" /\ code \in {t.code, "unavailable"} /\ UNCHANGED catalogVars

\* _latch_commit_ambiguity, _commit_or_latch: the operation with the outcome t
\* answers code.
Transact(t, code) ==
    \/ /\ runtime = "open" /\ t.code = "ok" /\ code = "ok"
       /\ db' = t.tables /\ UNCHANGED <<runtime, latch>>
    \/ /\ runtime = "open" /\ t.code = "ok" /\ code = "commit_outcome_unknown"
       /\ db' \in {db, t.tables} /\ Abandon
    \/ /\ runtime = "open" /\ code \in {t.code, "unavailable"} \ {"ok"}
       /\ IF code \in Refusing THEN Abandon ELSE UNCHANGED <<runtime, latch>>
       /\ UNCHANGED db
    \/ code = "not_ready" /\ UNCHANGED catalogVars

\* load_catalog, load_initialization, load_profile_key: a read that answers code.
Read(loaded, code) ==
    \/ /\ runtime = "open" /\ code \in {loaded, "unavailable"}
       /\ IF code \in Refusing THEN Abandon ELSE UNCHANGED <<runtime, latch>>
       /\ UNCHANGED db
    \/ code = "not_ready" /\ UNCHANGED catalogVars

\* load_catalog_for_reconciliation, load_initialization_for_reconciliation,
\* reconcile_profile_key: reads under a runtime that is already in recovery.
ReconciliationRead(loaded, code) ==
    /\ \/ runtime = "recovery" /\ code \in {loaded, "corrupt"}
       \/ code = "not_ready"
    /\ UNCHANGED catalogVars

\* finish_initialization_for_reconciliation: the commit may fail and leave either
\* outcome; the recovery latch stays as it is.
ReconciliationFinish(t, code) ==
    /\ \/ runtime = "recovery" /\ t.code = "ok" /\ code = "ok" /\ db' = t.tables
       \/ runtime = "recovery" /\ t.code = "ok" /\ code = "unavailable" /\ db' \in {db, t.tables}
       \/ runtime = "recovery" /\ t.code # "ok" /\ code = t.code /\ UNCHANGED db
       \/ code = "not_ready" /\ UNCHANGED db
    /\ UNCHANGED <<runtime, latch>>

\* Start-up, shutdown at any moment at which no transaction is open, and the end of
\* the process, whose marker stays unless the runtime was closed (SQLiteRuntime).
StartRuntime ==
    /\ runtime = "down"
    /\ runtime' = IF latch THEN "recovery" ELSE "open"
    /\ UNCHANGED <<db, latch>>

CloseRuntime ==
    /\ runtime \in {"open", "recovery"}
    /\ Closed \/ Abandoned
    /\ UNCHANGED db

StopRuntime ==
    /\ runtime # "down" /\ runtime' = "down"
    /\ latch' = (latch \/ runtime # "closed")
    /\ UNCHANGED db

\* The operator has reconciled the database and removes the latch.
ClearLatch ==
    /\ runtime = "down" /\ latch /\ latch' = FALSE
    /\ UNCHANGED <<db, runtime>>

CatalogInit == db = EmptyTables /\ runtime = "down" /\ latch = FALSE
=============================================================================
