-------------------------- MODULE DurableAuthStore --------------------------
(***************************************************************************)
(* The calls of AuthStore over one row of SQLite, adapters/auth/sqlite.py. *)
(* A decision loads the row in a unit of work that starts with BEGIN       *)
(* IMMEDIATE, decides on the copy, exports a validated snapshot, replaces  *)
(* the row and the registry of authority handles, and commits;             *)
(* SQLiteRuntime shows that units of work do not overlap, so the whole of  *)
(* it is one step.  store is the copy that was decided on last.  The       *)
(* revision that the update compares is the one just read in the same      *)
(* transaction.                                                            *)
(*                                                                         *)
(* What the steps add is failure: the snapshot may be refused, the         *)
(* transaction may fail before the commit, and a commit that raises may    *)
(* have happened or not.  In the last case the runtime is abandoned, and   *)
(* no operation of the program makes it accept work again.                 *)
(***************************************************************************)
EXTENDS AuthStore

VARIABLES
    row,        \* the state document and the handle registry, None before the first decision
    latched,    \* the runtime was abandoned, its recovery latch is set
    delivered   \* the sessions whose secrets were returned to a caller (history)

durableVars == <<vars, row, latched, delivered>>

-----------------------------------------------------------------------------
(* The snapshot contract: AuthStateSnapshotV1 and the records in it check  *)
(* themselves when they are built, both to export and to restore.          *)

\* _validate_attempts, in the records that have attempts
RecordsLoad(s) ==
    \A kind \in {"bootstraps", "recoveries", "stepUps"} : \A h \in DOMAIN s[kind] :
        s[kind][h].attempts >= 1

\* No two active roots of one purpose, and a root for every root bootstrap.
RootsLoad(s) ==
    /\ \A q, r \in DOMAIN s.roots :
          q.purpose = r.purpose /\ s.roots[q] = None /\ s.roots[r] = None => q = r
    /\ \A b \in DOMAIN s.bootstraps : s.bootstraps[b].root \in DOMAIN s.roots \cup {None}

\* No record of a future epoch; a step-up and a grant agree with the session
\* and the step-up they name, and an active step-up has its session.
SessionsLoad(s) ==
    /\ \A kind \in {"sessions", "recoveries", "stepUps", "grants"} : \A h \in DOMAIN s[kind] :
          s[kind][h].epoch <= s.actor.epoch
    /\ \A c \in DOMAIN s.stepUps :
          IF s.stepUps[c].session \in DOMAIN s.sessions
            THEN s.stepUps[c].epoch = s.sessions[s.stepUps[c].session].epoch
            ELSE s.stepUps[c].retired # None
    /\ \A e \in DOMAIN s.grants :
          /\ s.grants[e].session \in DOMAIN s.sessions =>
                s.grants[e].epoch = s.sessions[s.grants[e].session].epoch
          /\ e \in DOMAIN s.stepUps =>
                \A f \in {"session", "epoch", "purpose"} : s.stepUps[e][f] = s.grants[e][f]

\* An active ceremony has its bootstrap, and a bootstrap that a ceremony
\* names is for reprovision.
CeremoniesLoad(s) ==
    \A c \in DOMAIN s.ceremonies :
        IF s.ceremonies[c].bootstrap \in DOMAIN s.bootstraps
          THEN LET b == s.bootstraps[s.ceremonies[c].bootstrap]
               IN  ForReprovision(b) /\ b.root \in DOMAIN s.roots
          ELSE s.ceremonies[c].terminal # None

Loads(s) == RecordsLoad(s) /\ RootsLoad(s) /\ SessionsLoad(s) /\ CeremoniesLoad(s)

\* The roots of the custody bundle, in the order of RootPurpose.
InitialRoots ==
    {[purpose |-> "INITIAL_BOOTSTRAP", number |-> 1],
     [purpose |-> "EMERGENCY_REVOKE", number |-> 2],
     [purpose |-> "REPROVISION", number |-> 3]}

\* verify_loaded_composition, of the unchanged bundle of this installation: the
\* store has its actor, knows the three roots that were minted with it and has
\* not consumed the one for reprovision.
VerifyLoadedComposition(s) ==
    /\ s.actor # None
    /\ \A root \in InitialRoots : root \in DOMAIN s.roots
    /\ \A root \in InitialRoots : root.purpose = "REPROVISION" => s.roots[root] = None

-----------------------------------------------------------------------------
(* The codec.                                                              *)

Collection == {"roots", "bootstraps", "sessions", "recoveries", "stepUps", "grants", "ceremonies"}

Entries(f) == {<<h, f[h]>> : h \in DOMAIN f}

\* (As it would be if the provenance of grants were not written.)
SnapshotWithoutGrants(s) ==
    [actors |-> {s.actor} \ {None},
     records |-> [name \in Collection |-> IF name = "grants" THEN {} ELSE Entries(s[name])]]

\* _snapshot: each collection as its pairs of key and record.
Snapshot(s) ==
    [actors |-> {s.actor} \ {None},
     records |-> [name \in Collection |-> Entries(s[name])]]

\* _authority_registry: the roots, and the operator and the service of the
\* installation.
AuthorityRegistry(s) ==
    {<<"root", root>> : root \in DOMAIN s.roots}
        \cup IF s.actor = None THEN {} ELSE {<<"operator", 1>>, <<"service", 1>>}

\* AuthStateSnapshotV1 as it is written, and the row with its registry
Document ==
    [actors : SUBSET ActorRecord,
     records : [Collection -> SUBSET ((Nat \cup Root) \X
                    UNION {Instant, BootstrapRecord, SessionRecord, RecoveryRecord,
                           StepUpRecord, GrantRecord, CeremonyRecord})]]

Row ==
    [doc : Document,
     registry : SUBSET ({"root", "operator", "service"} \X (Root \cup {1}))]

ASSUME RowAssumption == None \notin Row

\* _restore: one record for each key.  The numbers of the model's handles are
\* not in the document; issued supplies them.
Restore(doc, issued) ==
    LET table(name) == [h \in {e[1] : e \in doc.records[name]} |->
                            (CHOOSE e \in doc.records[name] : e[1] = h)[2]]
    IN  [actor |-> IF doc.actors = {} THEN None ELSE CHOOSE a \in doc.actors : TRUE,
         roots |-> table("roots"), bootstraps |-> table("bootstraps"),
         sessions |-> table("sessions"), recoveries |-> table("recoveries"),
         stepUps |-> table("stepUps"), grants |-> table("grants"),
         ceremonies |-> table("ceremonies"), issued |-> issued]

\* _load_state: no row is an empty store, any other is validated.
LoadState(r) ==
    IF r = None THEN EmptyStore ELSE Restore(r.doc, store.issued)

StateLoads(r) ==
    r # None => LET s == LoadState(r) IN Loads(s) /\ r.registry = AuthorityRegistry(s)

-----------------------------------------------------------------------------
(* A decision of the durable store.                                        *)

\* The sessions whose credentials the service mints for the caller.
Minted == DOMAIN store'.sessions \ DOMAIN store.sessions

\* The row and the registry are replaced together.
WriteRow == row' = [doc |-> Snapshot(store'), registry |-> AuthorityRegistry(store')]

\* _decision_locked up to the commit: the copy is decided on, exported and
\* written.
Decided == Next /\ Loads(store)' /\ WriteRow

\* The commit has succeeded: the caller gets its answer.
Answered ==
    /\ delivered' = delivered \cup Minted
    /\ UNCHANGED latched

\* (As it would be if the answer were given although the commit raised.)
OutcomeUnknownAnswered ==
    /\ delivered' = delivered \cup {store.issued.sessions + 1}
    /\ latched' = TRUE

\* The commit raises: the caller learns nothing and _latch_recovery abandons
\* the runtime.
OutcomeUnknown ==
    /\ latched' = TRUE
    /\ UNCHANGED delivered

\* The snapshot is refused, or a statement fails before the commit: the unit
\* of work rolls back and the exception reaches the caller.
RolledBackWork == UNCHANGED durableVars

\* A decision.  A commit that raises has written the row or not.  Nothing more
\* is accepted once the runtime was abandoned, nor from a row that does not load.
Transact ==
    /\ ~latched
    /\ StateLoads(row)
    /\ \/ Decided /\ (Answered \/ OutcomeUnknown)
       \/ UNCHANGED <<vars, row>> /\ OutcomeUnknown
       \/ RolledBackWork

DurableInit ==
    /\ Init
    /\ row = None
    /\ latched = FALSE
    /\ delivered = {}

DurableSpec == DurableInit /\ [][Transact]_durableVars

-----------------------------------------------------------------------------
(* Properties.                                                             *)

\* Whatever was committed can be loaded again, in the next decision as after a
\* restart, and the decision then sees all that was decided before: no row is
\* refused by the validator or differs from its registry, and no table is lost
\* between the copy and the row, so that a used grant stays used and a retired
\* session retired (_snapshot, _restore, _load_state).
RestoresDecisions == StateLoads(row) /\ LoadState(row) = store

\* A secret that was handed out belongs to a committed session.
DeliveredIsDurable == \A h \in delivered : h <= store.issued.sessions

\* The wrong proof that uses up the last attempt of a code is recorded, so
\* that "exhaustion denies" from then on (SPIKE-AUTH.md:91).
ExhaustionCommits ==
    \A now \in Time :
        /\ \A h \in DOMAIN store.bootstraps :
              LET r == BootstrapExchanged(store, h, FALSE, now)
              IN  r.out = "ATTEMPTS_EXHAUSTED" => Loads(r.store)
        /\ \A h \in DOMAIN store.recoveries :
              LET r == Recovered(store, h, FALSE, now)
              IN  r.out = "ATTEMPTS_EXHAUSTED" => Loads(r.store)

\* An installation can be opened again with the custody bundle it was
\* provisioned with, whatever it has consumed and collected since: custody is
\* "restart-safe" (application/auth_custody.py:1).
CompositionVerifies == store.actor # None => VerifyLoadedComposition(store)

=============================================================================
