# MyCogni in TLA+

Models, model-checking runs and proofs for the parts of MyCogni that keep
state: the runner mailbox (`services/runner_mailbox`), the owner of the SQLite
database (`src/mycogni/adapters/persistence`), the authentication decisions
kept in it (`src/mycogni/adapters/auth`) with their custody file, and the
wrapped keys kept in it (`src/mycogni/adapters/keys`). `PROJECT.json` maps
every definition to the lines it models.

## 1. The system

MyCogni is a local, single-owner application. Its core decides on actions; a
sandboxed connector performs one action at a time and hands the result back
through a mailbox. The core stores its own decisions in a SQLite database.

| Component | State | Operations | Hard behaviour |
| --- | --- | --- | --- |
| Mailbox repository (`volatile.py`, `domain.py`, `ports.py`) | one record per mailbox (state, binding, credentials, material, evidence, result, times), tombstones, shared byte counters, an installation-wide high-water mark of time | create, offer, claim, stage_evidence, commit_result, collect, acknowledge_collection, abandon, snapshot, expire, garbage_collect | deadlines against clocks that callers supply, quotas shared between mailboxes, ids used again, erasure in many places |
| Mailbox service (`service.py`) | none of its own | parses and authorises each call, then calls the repository | connectors that lose answers and retry |
| Persistent mailbox (`persistent.py`) | one authenticated row with a generation; a poisoned flag per handle | BEGIN IMMEDIATE, load, apply, compare, write, COMMIT, reply | several processes, death between commit and reply, ambiguous commits |
| SQLite runtime (`durability.py`, `unit_of_work.py`, `database.py`) | lock file, dirty marker, recovery latch, readiness, three locks, a count of connections | open, unit of work, recovery reader, close_cleanly, abandon | threads that work while another shuts down, death and power loss between file operations |
| Auth decision store (`domain/auth.py`, `application/auth.py`, `adapters/auth/*`) | per installation an actor (epoch, last observed instant), roots, bootstraps, sessions, recoveries, step-ups, grants, reprovision ceremonies | provision, begin/cancel/exchange bootstrap, reprovision ceremony, authenticate, step up, use a grant, rotate, revoke, recover, collect; the same in one SQLite row | one-time codes presented again, clocks set back, collection of records that name each other, commit ambiguity |
| Auth custody (`owner_file_custody.py`, `bootstrap/auth_custody.py`) | the custody file; a pin and a latch per reader | provision an empty installation, open an existing one | file and database are two stores without a common commit; two ceremonies at once; a file replaced between two reads |
| Key catalog (`adapters/persistence/key_catalog.py`) | catalog row, nonce ledger, sentinel, wrapped keys | begin and finish an initialisation, reserve, publish, fetch, require recovery, reconcile | two transactions around one encryption, commits of unknown outcome, a ledger at its limit |
| Key provider (`adapters/keys/*`, `application/keys.py`) | a registry per wrapping key (nonces, sentinels, wraps); pin, latch and status per provider; preparations and handles | status, readiness, prepare, complete, unwrap, use a handle | files replaced during an operation, copies of one key at two paths, a preparation completed twice |
| Key service (`application/key_catalog.py`, `bootstrap/key_catalog.py`) | none that outlives a call | compose, initialise, resume, reconcile; create and open profile keys | a call dies between its transactions and the process forgets the nonces it used |
| Operator terminal, diagnostics, web shell, preview, simulator, SDK, scripts | little or none | | see "Not modelled" |

Interactions: the service calls the repository through `ports.py`; the
persistent store runs every operation of the same repository class on a copy
loaded from its row; auth store and key catalog work in units of work of the
SQLite runtime and call its `abandon` when a commit is ambiguous. The
compositions of auth read the custody file and the auth store and release
authority when both agree; the key service alternates between catalog
transactions and provider operations.

What makes each part correct:

* **Mailbox**: an action is delivered at most once; only its receiver can report
  on it; nothing happens past a deadline that anybody has observed; a committed
  result is kept until it is acknowledged; a finished mailbox keeps no secrets;
  an id is not used again within its replay horizon; counters match contents.
* **Persistent mailbox**: the row behaves like one repository in one process;
  an answer is never given before it is durable; no row is written that cannot
  be read back; the write lock is given back.
* **SQLite runtime**: whatever ended unproven is remembered by the next owner;
  work happens only under a marker that would survive; shutdown and work
  exclude each other; a failed shutdown can be tried again.
* **Auth**: one-use authority is used once; a session that is over stays over;
  advancing the epoch retires every session, recovery and step-up of the old
  one; there is always one way to reprovision; a committed row loads again; a secret handed out is durable.
* **Custody**: secrets are durable in the file before the store refers to them;
  authority is released only where file and store agree, for ever.
* **Keys**: a nonce never encrypts twice under one key, over restarts, ambiguous
  commits and swapped files; it is in the durable ledger before it is used; a
  key that was handed out can be found again; once a caller was told that
  recovery is required, key work is over.

## 2. Modules

| Module | Models | Checked by |
| --- | --- | --- |
| `MailboxRepository` | `volatile.py`: one action per operation of the port | run `MailboxRepository` |
| `MailboxRepositoryProofs` | theorems about it | TLAPS |
| `RunnerMailbox` | the service with connectors that know only what they were handed; extends `MailboxRepository` | run `RunnerMailbox` |
| `RunnerMailboxProofs` | theorems about it | TLAPS |
| `PersistentMailbox` | the SQLite store; the operations are those of an `INSTANCE` of `MailboxRepository` on the working copy, and the row refines `MailboxRepository` | run `PersistentMailbox` |
| `PersistentMailboxProofs` | theorems about it | TLAPS |
| `SQLiteRuntime` | lease, state files, units of work, shutdown | runs `SQLiteRuntime`, `SQLiteRuntimeRefusal` |
| `SQLiteRuntimeProofs` | theorems about it | TLAPS |
| `AuthStore` | the decisions of `adapters/auth/volatile.py` as `AuthService` asks for them | run `AuthReprovision` |
| `DurableAuthStore` | `adapters/auth/sqlite.py`: each decision as a transaction on one row and the registry of authority handles; extends `AuthStore` | runs `DurableAuthStore`, `AuthExhaustion`, `AuthRestart` |
| `AuthStoreProofs` | theorems about both | TLAPS |
| `AuthCustody` | the custody file, its ceremony and its reader, and the two compositions with the durable store | run `AuthCustody` |
| `AuthCustodyProofs` | theorems about it | TLAPS |
| `KeyRecords` | the records that the key modules exchange | with the two below |
| `OwnerFileProvider` | `owner_file.py`: providers, their process-wide registry, preparations and handles; extends `KeyRecords` | run `OwnerFileProvider` |
| `OwnerFileProviderProofs` | theorems about it | TLAPS |
| `KeyCatalog` | `key_catalog.py` and migration 0003: tables, strict load, transactions; extends `KeyRecords` | run `KeyService` |
| `KeyService` | the service and the ceremonies over catalog and provider; extends both | run `KeyService` |
| `KeyServiceProofs` | theorems about it and the tables of `KeyCatalog` | TLAPS |

The `MC...` modules add the constants and symmetries of a run.

### MailboxRepository

`records[m]` is `_records[mailbox_id]` (with state `"ABSENT"` when there is
none), `tombstones[m]` the expiry of a tombstone, `highWater` the
installation-wide mark of `_advance_installation_time`, and the byte counter is
the shared quota of active material, evidence and committed bytes. Credentials
are opaque numbers (digests of secrets), payloads have a size and an identity,
wrapping and MACs are left out: a digest that matches is the same value. Each
operation is the whole method: look-up and authorisation, validation of the
material the record holds, the check of the instant against the marks, the
expiry that a late access performs, quotas, assignments, and the observation of
time at its end. A call that is refused without an effect is no step.

### RunnerMailbox

Adds what connectors know (`known` credentials), how often an action was
delivered, and when each id last ended. A claim may commit and lose its answer.
A connector acts only with credentials it holds.

### PersistentMailbox

A handle is a process with its own connection. `writer` is the holder of
SQLite's write lock. Between Begin and the end of the call the working copy is
private; `Apply` is any operation, `Deny` a refusal that may have expired a
record, `RollbackUnchanged` the path where the encoded state did not change,
`CommitThenReply` and `CommitFails` the two ends of a write, `Reply` what the
caller sees. A failed commit may or may not have taken effect. `Die` happens in
every phase.

### SQLiteRuntime

A runtime is one `SQLiteRuntime` object. Steps are the locked sections of the
code. `CreateStateFile` and `RemoveStateFile` are relations between a file
before and after, with every way they can fail (open, write, fsync of the file,
fsync of the directory, unlink); a crash in the middle of one leaves what a
failure in the middle leaves, so death is a step of its own. `PowerLoss` keeps
of each file what was synchronised and, of the rest, any part. `owed` is history: an
ownership ended with a write no validated shutdown covered, with a failure
reported by database work, or by `abandon`.

### AuthStore

A decision of the store is an operator on the record `store`, a table per kind
of record, that gives the new store and the outcome (`SessionAuthenticated` is
`_authenticate_session_locked`, `Recovered` is `recover`, and so on; the
comments name the methods). The service's methods are the actions; each takes
the outcome of the decision it asks for (`Take`). A denial can change the store too: it observes the
clock, burns an attempt, retires an expired code, burns a ceremony. The clock of
a call is any instant, so the calls of two threads whose clock readings and
decisions are in different orders, and a clock that is set back, are covered.
Handles are numbers in the order of issue, purposes are the three the store
itself uses, and one flag stands for consumed (or revoked) and
`retired_at_utc`, which the code always sets together. `spent` and `reused` (one-use
credentials consumed, and consumed again) and `dead` (sessions denied for good)
are histories.

### DurableAuthStore

`row` is what the database holds: a document with one collection per table, and
the registry that says which handles belong to which kind of authority
(`Collection`, `Snapshot`, `AuthorityRegistry`).
`Document` and `Row` are their types; `Restore` and `LoadState` read it back; `StateLoads` is the contract that
`_load_state` and the snapshot's constructors check. A transaction (`Transact`)
loads the row, decides as `AuthStore` does, exports and writes; `store` is the
state the decision ended in, so that `RestoresDecisions` compares the two. A
refused export or a failing statement rolls back (`RolledBackWork`); a commit
that raises has happened or not (`OutcomeUnknown`), and the runtime is
abandoned (`latched`), after which no operation goes on: the run does not check
deadlock for that reason. That a whole decision is one step rests on `BEGIN
IMMEDIATE` and on `OneAtATime` of `SQLiteRuntime`. `VerifyLoadedComposition` is
what a restart asks of the row with the custody bundle.

### AuthCustody

`file` is what the path names, with an identity, a content (a whole bundle, or
nothing that parses) and what `fsync` has made durable. A thread is in one of
the two compositions; each system call of `provision_empty` is a step and any
of them may fail. The reader has the code's pin and latch; `_read` compares
identity and name before and after, so it is one step that returns one version.
The store is reduced to what `DurableAuthStore` shows of an initialisation: at
most once, with an outcome that may be unknown. `ChangeFile` is the operator,
who can restore or replace a file but cannot invent secrets of this
installation; `Die` and `PowerLoss` happen between any two steps.

### OwnerFileProvider

`domain[k]` is the process's knowledge of the wrapping key `k`
(`_PROCESS_WRAP_STATES` and `_LIVE_KEY_PROVIDERS`), `provider[p]` an
`OwnerFileSecretProvider`, `source[path]` a version of a key file. Each
operation opens the source and compares it with the pin (`...Begin`), works
(`ReserveNonce`, `Encrypt`, `Decrypt`, `RecordAuthenticatedSentinel`) and opens
the source again (`...End`, `LeaveChanged`, `LeaveFailed`); between the three,
files change and other providers act. A nonce is any value, so the generator
may repeat one. `sealed` is the history of encryptions.

### KeyCatalog and KeyService

An operation of the catalog is an operator from tables to a code and the
tables it would commit; `Transact`, `Read` and `ReconciliationFinish` say what
the caller and the runtime see of it. `SchemaAccepts` is the constraints of the
migration, `LoadSnapshot` the strict load. A call of the service is a script of
such transactions and provider operations (`Script`); the process may die, and
the key file may be replaced, between any two steps. A restarted process has
an empty registry and the tables as committed.

The runtime is shared, so any operation may be answered `not_ready`: it has
been closed, or another client is at work in it (`durability.py:876`), an error
that the catalog passes on without abandoning anything. The runtime may be
closed between any two steps of a call, since no step leaves a transaction open
(`CloseProcess`); and `_latch_recovery` may find it being closed, in which case
its `abandon` is refused, the refusal suppressed, and no latch written
(`Abandon`). `reported` is history: a caller was told `recovery_required` after
a failure of the provider, which the service says only when `require_recovery`
has returned.

## 3. Runs

| Run | Bounds | What it shows |
| --- | --- | --- |
| `MailboxRepository` | 2 mailboxes, 2 evidence objects, payloads of 1 and 2 bytes, instants 0..4, one tombstone slot, quotas that two mailboxes exceed together | types, lifecycle shapes, ordered times, distinct credentials, counters, `ResultSurvives`, `DeadlinesHold` (no offer, claim, upload or commit at or past the deadline, and the observed instant never back) for callers that may present any credential |
| `RunnerMailbox` | 2 mailboxes, instants 0..3, one tombstone slot | `DeliveredOnce`, `ResultAuthority`, `ReplayHorizon` with lost answers and ids opened again |
| `PersistentMailbox` | 2 processes, 1 mailbox, instants 0..3, 9 generations | the row implements `MailboxRepository`; `AnswersAreDurable`, `RowLoads`, `LockReleased` |
| `SQLiteRuntime` | 2 runtimes with 2 threads each, no bound on failures, deaths or reopenings | `RecoveryRemembered`, `WorkIsCovered`, `OneAtATime`, `ShutdownCanBeRetried` |
| `SQLiteRuntimeRefusal` | the same, without symmetry | a violation, see below |
| `AuthReprovision` | full service; 2 bootstraps, 2 sessions, 2 recoveries, 3 ceremonies, 4 roots, capacities one, instants 0..1 | types, `OneUse`, `BootstrapStands`, `ReprovisionRoute`, `CeremonyRetention` |
| `DurableAuthStore` | custodied service; 1 bootstrap, 2 sessions, 2 recoveries, 1 step-up, one attempt, instants 0..2 | `OneUse`, `DeadStaysDead`, `EpochFence` under any clock, wrong proofs and collection; `RestoresDecisions`, `DeliveredIsDurable` with refused snapshots and ambiguous commits |
| `AuthExhaustion`, `AuthRestart` | 2 bootstraps, instants 0..1 | violations, see below |
| `AuthCustody` | 2 threads, 2 bindings, 2 bundles minted, 3 files ever at the path | `ReleasedAgree`, `CustodyFirst`, `OneBundlePerReader` |
| `OwnerFileProvider` | 2 providers of 2 installations, 2 paths, 1 key, 2 nonces, 2 wraps, 2 versions of a file | `NonceEncryptsOnce`, `OneProviderPerKey` |
| `KeyService` | 1 provider and path, 2 keys, 3 nonces, 2 profile keys, usage limit 3, 2 versions of the file | `NonceNeverReused`, `SealedIsReserved`, `GrantedIsDurable`, `OneKeyAuthenticates`, `CatalogLoads`, `RecoveryIsFinal` |

Why the bounds are enough: two mailboxes are needed for shared counters, shared
time and credential collisions, and no operation relates three; five instants
leave room for a claim deadline, a deadline, the terminal retention, the
tombstone's end and the last datetime to be distinct; one tombstone slot is the
smallest table that can be full; two processes are needed for a lost update and
two threads for each race between work and shutdown, since every lock has one
holder. Generations run out within the run, so the counter's limit is reached.
In `SQLiteRuntime` runtimes and threads are interchangeable and only invariants
are checked, so symmetry is sound. In the auth runs one attempt makes every
wrong proof the last (over the row such a proof rolls back, see `AuthExhaustion`), two sessions are a predecessor and a successor (rotation,
recovery, reprovision), capacity one and three ceremonies fill, trim and
collect the table; two or three instants let a session be current, expired and,
with the clock set back, presented again. The activation delay is zero in these
runs, so a code is never presented before its window opens. No run lets an
authenticated bootstrap succeed (it needs a step-up and a second bootstrap, and
each run has only one of the two); there the theorems alone speak of it. In `AuthCustody`
two bundles are two ceremonies that race, and the third file is one the
operator puts back after both. In `OwnerFileProvider` one key in two files is
the case the registry is for, and two nonces are one that repeats and one that
does not; the case of two keys is in `KeyService`, where a file is swapped for
one with another key. There the usage limit of three is the sentinel and two
profile keys, so that the ledger is full, and three nonces are as many as it
has rows. Providers, keys, nonces, bindings and threads are interchangeable in
these runs and no liveness is checked under symmetry.

**Fairness.** `PersistentMailbox` assumes weak fairness of the steps of a
thread inside a call (`InCall`): the method runs to its end once it has the
lock and waits for nothing else there. Opening, starting a call, closing and
dying are not fair. `LockReleased` is the only liveness property; no text of the
repository promises that a connector claims or that the core collects.

**The violations.** `SQLiteRuntimeRefusal`: `close_cleanly` reads once whether a latch is needed
(`durability.py:1091`). A second shutdown call that is refused after this read
pauses the runtime, but the first call goes on, removes the marker and releases
the lease without a latch: the next owner starts READY. The test at
`tests/adapters/persistence/test_durability.py:975` requires the latch after a
refused call; it forces the refusal to come before the seal.

`AuthExhaustion`: `_wrong_proof` lowers `attempts_remaining` to zero, and the
export copies every record through a constructor that requires at least one
(`domain/auth.py:622`). In the durable store the decision therefore raises and
rolls back: the last wrong attempt is not recorded and the code stays usable,
where `SPIKE-AUTH.md:91` says that exhaustion denies.

`AuthRestart`: `verify_loaded_composition` requires a record for every root of
the bundle, and collection removes the record of a consumed root. After the
emergency root or the first bootstrap root has been used and collected, the
unchanged bundle is refused at every later start, where
`AUTH-001B-HOST-SECRET-CUSTODY.md:19` describes a normal start as one that
finds both stores and compares them.

Five more disagreements showed up while modelling and have no run of their own.

* `garbage_collect` removes an expired session whose unconsumed step-up expires
  later; the snapshot refuses a step-up without its session
  (`application/auth.py:184`), so the durable collection raises and removes
  nothing until the step-up has expired too (`SPIKE-AUTH.md:96`).
* A bootstrap carries no epoch and emergency revocation does not retire it
  (`auth/volatile.py:442`): an authenticated bootstrap outstanding at the
  revocation is exchanged afterwards for a session of the new epoch, where
  `SPIKE-AUTH.md:143` says that recovery then requires the reprovision root.
  `EpochFence` is about the three kinds that `SPIKE-AUTH.md:142` names, and
  says nothing of bootstraps.
* `SPIKE-AUTH.md:75` promises a hard cap of 64 tombstones, the oldest of which
  are evicted there. Trimming happens only when a ceremony is created or
  exchanged; collection (`auth/volatile.py:466`, called at `:1187`) turns
  every expired active ceremony into a tombstone and does not trim, so a full
  table of tombstones then exceeds its cap by up to the active capacity, until
  the next ceremony or the end of the replay horizon. `CeremonyRetention`
  bounds the active ceremonies and the total, which do hold.
* `KEY-001A-DURABLE-CATALOG.md:114` says that at the usage limit a creation
  fails with `usage_limit` and existing records stay subject to readiness. The
  provider reaches the limit first; its refusal makes the service require
  recovery (`application/key_catalog.py:217`), and no record is opened
  afterwards.
* `KEY-001A-DURABLE-CATALOG.md:71` and the docstring of `require_recovery`
  (`application/key_catalog.py:166`) say that a provider failure durably
  changes an active catalog to `recovery_required`. It does when the transaction
  runs. A runtime at work for another client refuses it
  (`durability.py:876`), a clean close may come before it, and the `abandon`
  of `_latch_recovery` may be refused in silence (`persistence/key_catalog.py:811`);
  in each case the call ends with the provider latched in its process and
  nothing on disk, and a restart admits the source if it is back in order. The
  caller gets the runtime's error, not `recovery_required`.
  `RecoveryIsFinal` is what the code does keep: a caller who was told
  `recovery_required` can rely on it.

**Known and without a property.** Each of these follows from the code as
written and contradicts nothing the repository says, so there is nothing to
check: a committed result that is never collected keeps its quota
(`runner_mailbox/volatile.py:694`); a repository within its quotas may exceed
the frame limit (`persistent.py:470`); a crash inside the creation of a state
file or of the custody file leaves one that every later start refuses
(`durability.py:740`, `owner_file_custody.py:477`), and an opening that meets a
custody file half written latches its reader (`:429`); ceremonies for a code
that is worthless fill the active capacity (`auth/volatile.py:532`); a
reservation that was never published keeps its binding
(`persistence/key_catalog.py:355`); a key handle may be used after its provider latched, when the check came first
(`application/keys.py:329`).

## 4. Proofs

The theorems hold for every set of mailboxes, threads, runtimes, keys and so on
and for every value of the limits that satisfies the named assumptions of the
module. None of the properties is inductive as it stands; below, the
strengthening that makes it so, and why it is needed.

### MailboxRepositoryProofs

Assumes that limits are naturals, retentions and sizes are positive, a binding
belongs to a mailbox and has a claim deadline before its deadline, and `None` is
no binding, credential or payload.

* `Inv` is the inductive invariant: every record is of its type, has the shape
  its state allows, has times in order and below the high-water mark, and a
  mailbox with a tombstone has no record (`GoodRecord`, `GoodTombstones`).
  None of `TypeOK`, `LifecycleValid` and `TimesOrdered` is inductive alone: that
  a record's shape survives an expiry needs its times, and that a new record
  comes after a removed one needs the mark.
* One lemma per operation shows what the new record looks like
  (`OfferedGood`, `ClaimedGood`, ...); `OneRecordChanges` is the frame argument
  they share; `ExpireKeepsInv` and `GarbageCollectKeepsInv` treat all records
  at once. `Invariance` combines them; `TypeCorrect`, `LifecycleTheorem` and
  `TimesTheorem` are its corollaries.
* `RecordStep` says what one step may do to one record; `ResultTheorem` and
  `DeadlineTheorem` follow from it and `Inv`. An operation that offers, claims,
  stages or commits has read an instant not before the mark and left it as the
  new mark, which is what ties the deadline to the time anybody has observed.
* `CredentialInvariance` is that no two roles of any mailboxes share a
  credential, which only create and offer can disturb; `CredentialTheorem` is
  its corollary.
* `QuotaTheorem`: the byte counters are the sums they stand for, within their
  ceilings, and the tables within their limits. `QuotaInv` is the inductive
  form: it adds that the live mailboxes, the tombstoned ones and the evidence of
  each record are finite sets, since a cardinality and a sum say nothing of an
  infinite one. `Mailbox` and `Object` themselves need not be finite. Each
  lemma `...KeepsQuota` needs `Inv` too: that an expired record gives back
  exactly what it counted for depends on its shape.
* The sums behind it. The folds of the community modules take their elements
  in an order of their own and apply an operator, about which nothing can be
  proved by induction here. `SumOf` is the same sum as a value: an entry of a
  table over all subsets (`SumTable`), which exists and is unique by
  `SubsetInduction`, well-founded induction with a set in place of an operator.
  `MaterialFold`, `EvidenceFold`, `CommittedFold` and `PayloadFold` show that
  each fold of the model is such a sum; `SumChange`, `SumAdd`, `SumLeft` and
  `SumCleared` are what one changed, added, removed or cleared part does to it.
  `OneRecordCounts` and `SweptTotal` are the two frame arguments for the
  counters.

### RunnerMailboxProofs

* `ServiceImplementsRepository`: a behaviour of the service with its connectors
  is a behaviour of `MailboxRepository` alone. A step of the service presents
  only credentials that exist (`Issued`, `Holdings`), so each is a step of the
  repository or leaves it alone; every theorem above carries over.
* `ServiceInvariance` adds `Told` (an action that is still on offer was delivered
  to nobody, its result credential is with nobody until then, and whatever was
  accepted for it came after a delivery) and `Blocked` (a mailbox id that was used
  before stays blocked until both retentions have passed, by its tombstone or, once
  that is collected, by the high-water mark). `DeliveredOnce` and
  `ResultAuthority` speak of answers of the past, which the repository does not
  remember: `Told` is the link, and it needs `CredentialInv`, since a credential
  with two roles could be learnt another way. `ReplayHorizon` needs `Blocked`,
  because the time of a tombstone comes from a record that is gone.

### PersistentMailboxProofs

The operations run on the working copy, so the theorems of
`MailboxRepositoryProofs` are used twice: for the row, and as
`Hydrated!...` for the working copy; the `Same...` lemmas show that the two
instances mean the same operation. Also assumes that the generation bound is
positive and `None` is no handle.

* `ProtocolInv`: row and copy satisfy `Inv` and `CredentialInv` (`Good`); a handle
  inside its transaction is the writer and starts from the row, and only a call
  that has run has an answer (`Transactions`); the secret of an action that the
  row still offers is with nobody, nor in an answer on its way
  (`RowKeepsSecrets`), and that of an action which the copy offers is not even in
  the answer of the call that will commit it (`WorkKeepsSecrets`). The last is what
  a crash between apply and commit turns on. From it `DurableAnswersTheorem`.
* `RowLoadsTheorem` adds `RowCounted`, that the totals in the row are those of
  its records. It needs no sums: `_write_repository` refuses a copy whose totals
  differ, so equality is carried from copy to row.
* `RefinementTheorem`: the row implements `MailboxRepository`
  (`DiskImplementsRepository`). The step of the abstract repository is the
  commit, but the operation ran on the copy some steps earlier, and other handles
  may have opened, closed or died in between. `CallsOnRow` bridges the
  gap: a call that has loaded has the row before it, and a call that has applied
  has what one operation makes of the row as it is now (`OperationOfRow`, one
  `...OfRow` per operation, over the row and the copy in one state). It needs
  `ProtocolInv`, since only the writer changes the row. `AppliedOnRow` establishes
  it, `KeptChecks` and `OperationKept` carry it past the steps of others,
  `CommitIsNext` turns it into a step of `Next` when the commit replaces the row,
  and `RowTakesOperations` shows that nothing else changes the row.
* `DurableResultTheorem` and `DurableDeadlineTheorem` are consequences: what
  `ResultSurvives` and `DeadlinesHold` say of one process holds of the row under
  crashes, failed commits and concurrent handles.
* `ValidWorkTheorem`: the copy always passes the checks that `_write_repository`
  makes of it. This is where the sums are needed (`Hydrated!QuotaInv`, carried
  from the row by a load and along an operation by `AppliedKeepsQuota`).
  `RefusalTheorem` follows: a frame is refused only when the generations are
  used up, never for what an operation left behind.
* `HolderTheorem` is the safety half of `LockReleased`: only a handle inside a
  call, or a poisoned one, holds the write transaction.

### SQLiteRuntimeProofs

Assumes that `None` is no runtime and no thread. `Inv` has, for every runtime,
`LocksOK` (who has reserved it, who uses its connection and who holds its lease,
as a function of where each of its threads is), `OwnerLocked` (a runtime owns
the lease exactly when it holds the file lock, across all runtimes),
`Evidence` (whatever is unproven is covered by the marker or the latch on disk,
or by the thread that is about to write it) and `Files` (an owed recovery has a
file that survives a crash). `RecoveryRemembered` is about files alone, but
which thread may remove the marker follows only from the locks. From `Inv`:
`TypeCorrect`, `RecoveryTheorem`, `CoverTheorem`, `ReservationTheorem`,
`RetryTheorem`.

### AuthStoreProofs

Assumes what composition may choose (`AuthPolicy`: positive times to live,
attempts and capacities, a delay, retentions and a replay horizon in the
naturals) and that `None` is no instant, root, actor or row (`NoneAssumption`,
`RowAssumption`). The bounds of the runs on the numbers of records play no part.

* The decisions are operators, so the argument is about stores. `StoreGood`: tables
  hold records of their type under handles that were issued; a live session,
  recovery or step-up is of the current epoch and a live code has an attempt
  left; at most one bootstrap is live, and its root is live and admissible
  (`Stands`); the ceremonies are within their capacities; before the
  installation nothing was issued. `Advance` relates a store to a later one:
  the epoch, the observed instant and the numbers of issued handles do not go
  back, and no record that was retired or collected is live again.
* One lemma for each update of a table, one for each update of a store, one for
  each of the 19 decisions (`...Decision`): its outcome is good, advances, keeps the
  one reprovision root, and whatever it uses was usable before and is consumed
  afterwards.
* `AuthInv` adds the history. `OneUse` speaks of a flag and of credentials that
  collection may have removed: the link is that a spent credential is
  `Consumed` (its handle was issued, its record is retired or gone), which every
  later store inherits, and that nothing consumed is `Usable`. A grant's handle is
  that of its step-up and no counter protects it; there the spent step-up does.
  `DeadStaysDead` needs the observed instant, since an expired session is not
  marked: no clock before it is accepted.
* That trimming leaves at most `TombstoneCapacity` tombstones (`FewNewest`, `TrimFacts`)
  is the cardinality argument behind `CeremoniesAreBounded`: of a set of
  numbers ordered by age, those with fewer than n newer ones are at most n.
  Collection moves ceremonies from one side to the other untrimmed, so the
  theorem is about the active ones and the total.
* From `AuthInv`: `TypeCorrect`, `CredentialsAreUsedOnce`, `SessionsStayDead`,
  `EpochsAreFenced`, `BootstrapsStandOnRoots`, `OneRouteBack`,
  `CeremoniesAreBounded`. `DurableImplementsStore` carries them over to the durable
  store. `DurableInv` adds that the row is the snapshot of the store and loads;
  `SnapshotRestores`, that restoring a snapshot gives the store back, then yields
  `RowsRestore`, and `Advance` yields `DeliveredSessionsAreDurable`.

### AuthCustodyProofs

Assumes that the expected binding is a binding, bounds are naturals and `None`
is no bundle, file or pin. While the operator leaves the file alone, at most one
thread is between the creation of the file and the commit of the store, and the
file is its own (`OneWriter`); what it has synchronised so far is known
(`WriterSynced`); once the store is initialised the file is there, durable, and
nobody writes (`CustodyKept`). `ReleasedAgree` and `CustodyFirst` follow
(`ReleasedTheorem`, `CustodyTheorem`); `ReaderTheorem`, that one reader never
returns two bundles, needs the link between what was returned and the pin
(`LoadedPinned`) and holds whatever the operator does.

### OwnerFileProviderProofs

Assumes that the limits are positive and `None` is no provider, path, key or
pin. The right to encrypt with a nonce is treated as a token: a call that has
drawn a nonce and not yet answered holds it (`DrawnOnce`), then the preparation
(`Prepared`), then the call that completes it (`EncryptsNew`); two holders of
one nonce are the same. `Activated` ties a live provider to the registry entry
of its key, so that the providers that share a key share the nonces it has used
(`Nonces`). From `ProviderInv`: `NonceTheorem`, `KeyTheorem`.

### KeyServiceProofs

Assumes, as the composition does, one provider, path and installation, a usage
limit of at least 2 that is also the provider's, and that `None` is no row. The
ledger is the argument: the tables satisfy the strict load (`Tables`) and every
transaction only lets them grow (`Grows`), so what a call has read stays true
while it is away. `TaskOK`, `Serves`, `Operation` and `Preparing` say what the
call under way may rely on at each of its steps; `Fresh` that the nonce it holds
has not sealed anything, `Seals` and `History` that whatever was sealed or
granted has its row. From
`ServiceInv`: `NonceLifeTheorem`, `ReservedTheorem`, `GrantedTheorem`,
`OneKeyTheorem`, `LoadsTheorem`. `FinalTheorem` adds `Told` (`FinalInv`): once
recovery was reported the catalog is in `recovery_required`, and no call is
past the step that would find it so. `Frozen` shows that such a call changes no
table, seals nothing and opens nothing, and `ToldIsFinal` that no step of
anybody leaves this state. The provider is used through
its actions, not through `ProviderInv`: a restart of the process empties its
registry, and only the ledger remembers.

### Only model-checked

* `LockReleased`: liveness under fairness is outside the prover's reach (its
  safety half is `HolderTheorem`).
* The three properties of the runs that expect a violation (`PauseIsLatched`,
  `ExhaustionCommits`, `CompositionVerifies`), which do not hold.

Every other property of the runs is stated by a theorem.

## 5. Not modelled

* The JSON and result-policy checks of `service.py`, the frame codec of
  `persistent.py`, its owner, mode and fork checks, and the refusal of a frame
  that is too large: functions of one value without interleaving.
* Cryptography: digests, MACs and wrapping are identities of opaque values.
* The checks of owner, mode, links and file-system type in `durability.py` and
  the PRAGMA policy of `database.py`: they refuse to start and change nothing.
* Of the auth store: the JSON syntax of the document, the crash points that
  tests arm, and a second installation in one store.
* Of custody and the key provider: the walk over the ancestors of a path (any
  refusal is the failure of the step that does it), the fork and process guards,
  and additional authenticated data, which is a function of the binding. A
  ciphertext is the key it authenticates under.
* Connector SDK (schemas), mailbox runtime package (process start-up),
  diagnostics (one redacted report), web shell and preview (rendering), operator
  terminal (termios and signals), CLI, CI scripts, site, containers: no state
  between calls, or none that a model of steps would add to. The simulator is a
  test double of brokers driven by fixtures. Of the migrations, only the
  constraints of the key tables are modelled.

## 6. Plan

1. Done: `MailboxRepository` and its proofs, `RunnerMailbox`,
   `PersistentMailbox`, `SQLiteRuntime`, `AuthStore`, `DurableAuthStore`,
   `AuthCustody`, `OwnerFileProvider`, `KeyCatalog`, `KeyService`.
2. Proofs. Done: all the safety properties of the passing runs, and the
   refinement of `PersistentMailbox`. Liveness stays with TLC.
3. Model: a run of `AuthStore` with an activation delay; the operator's ceremony
   around `begin_bootstrap`, display and `cancel_bootstrap`; a composition of
   `AuthCustody` with `DurableAuthStore` in place of its reduced store.
