-------------------------- MODULE MailboxRepository --------------------------
(***************************************************************************)
(* The finite runner mailbox: VolatileMailboxRepository of                 *)
(* services/runner_mailbox/volatile.py.  Every public method runs under    *)
(* one lock, so each is one action.  A denial that leaves the repository   *)
(* as it was is not an action: the action's guard is the conjunction of    *)
(* the checks the method makes before it changes anything.  A denial that  *)
(* does change the repository (a due deadline) is a disjunct of the action *)
(* of the method that discovers it.                                        *)
(*                                                                         *)
(* Data that no check tells apart is abstracted: an UUID is a member of    *)
(* Mailbox or Object, a credential is represented by its digest, a payload *)
(* is a member of Payload with a byte count, and authenticated wrapping is *)
(* what it retains of the payload.                                         *)
(***************************************************************************)
EXTENDS Integers, FiniteSets, FiniteSetsExt

CONSTANTS
    Mailbox,            \* mailbox ids
    Binding,            \* the action bindings core may issue (ActionBinding)
    Credential,         \* credential digests
    CredentialTriple,   \* the action/claim/collection digests core may hold
    IssuedCredential,   \* the digests of result credentials that may be issued
    Maintenance,        \* the digest of the maintenance credential
    Object,             \* evidence object ids
    Payload,            \* evidence payloads
    PayloadBytes,       \* their byte counts
    ResultBytes,        \* the byte counts a result envelope may have
    MaterialBytes,      \* bytes of envelope, action key and result credential
    MaxTime,            \* bound: instants the clock may show are 0..MaxTime
    DatetimeMax,        \* datetime.max: instants above it overflow
    MaxMailboxes, MaxActiveBytes, MaxEvidenceBytes, MaxCommittedBytes,
    MaxEvidenceItems, MaxTombstones, TerminalRetention, TombstoneRetention,
    None                \* Python's None where a field is no instant

Time == 0..MaxTime
NoTime == -1            \* Python's None for an instant

ASSUME BindingAssumption ==
    \A b \in Binding :
        /\ b \in [mailbox : Mailbox, claimDeadline : Nat, deadline : Nat,
                  responseBytes : Nat]
        /\ b.claimDeadline < b.deadline
        /\ b.responseBytes > 0

ASSUME CredentialAssumption ==
    /\ CredentialTriple \subseteq [action : Credential, claim : Credential,
                                   collection : Credential]
    /\ IssuedCredential \subseteq Credential
    /\ Maintenance \in Credential

ASSUME SizeAssumption ==
    /\ PayloadBytes \in [Payload -> Nat \ {0}]
    /\ ResultBytes \subseteq Nat \ {0}
    /\ MaterialBytes \in Nat \ {0}

ASSUME LimitAssumption ==
    /\ {MaxTime, DatetimeMax, MaxActiveBytes, MaxEvidenceBytes,
        MaxCommittedBytes, MaxEvidenceItems} \subseteq Nat
    /\ {MaxMailboxes, MaxTombstones, TerminalRetention,
        TombstoneRetention} \subseteq Nat \ {0}

ASSUME NoneAssumption ==
    None \notin Binding /\ None \notin Credential /\ None \notin Payload

VARIABLES
    records,        \* _records: a record per mailbox id, NoRecord if absent
    tombstones,     \* _tombstones: expires_at per mailbox id, NoTime if none
    highWater,      \* _installation_last_seen_utc
    total           \* the three installation byte counters

repository == <<records, tombstones, highWater, total>>

-----------------------------------------------------------------------------
(* Records.                                                                *)

Pending == {"EMPTY", "OFFERED", "CLAIMED_ONCE"}
MailboxState == Pending \cup {"RESULT_COMMITTED", "EXPIRED", "ABANDONED"}
CollectionState == {"NONE", "READY", "DELIVERING", "ACKNOWLEDGED"}

Instant == Time \cup {NoTime}

\* Evidence slots: the payload staged under each object id, None if none.
EvidenceMap == [Object -> Payload \cup {None}]
NoEvidence == [o \in Object |-> None]

\* _Record.  envelope_json, action_key and result_credential are set and
\* cleared together: material is their size, 0 when they are None.  result is
\* the size of result_envelope, 0 when it is None, and refs are the evidence
\* references the result carries; manifest is the set of object ids that the
\* committed evidence manifest authenticates.
Record ==
    [state : MailboxState \cup {"ABSENT"}, collection : CollectionState,
     binding : Binding \cup {None},
     action : Credential \cup {None}, claim : Credential \cup {None},
     collect : Credential \cup {None},
     resultCredential : Credential \cup {None},
     material : {0, MaterialBytes}, evidence : EvidenceMap,
     result : ResultBytes \cup {0}, refs : EvidenceMap,
     manifest : SUBSET Object,
     created : Instant, seen : Instant, committed : Instant,
     terminal : Instant]

\* A mailbox id that is no key of _records.
NoRecord ==
    [state |-> "ABSENT", collection |-> "NONE", binding |-> None,
     action |-> None, claim |-> None, collect |-> None,
     resultCredential |-> None, material |-> 0, evidence |-> NoEvidence,
     result |-> 0, refs |-> NoEvidence, manifest |-> {},
     created |-> NoTime, seen |-> NoTime, committed |-> NoTime,
     terminal |-> NoTime]

\* A freshly created record: the defaults of the dataclass.
NewRecord(b, t, now) ==
    [NoRecord EXCEPT !.state = "EMPTY", !.binding = b, !.action = t.action,
                     !.claim = t.claim, !.collect = t.collection,
                     !.created = now, !.seen = now]

Live == {m \in Mailbox : records[m].state # "ABSENT"}
Tombstoned == {m \in Mailbox : tombstones[m] # NoTime}

Staged(r) == {o \in Object : r.evidence[o] # None}

\* _record_evidence_bytes
EvidenceBytes(r) ==
    MapThenSumSet(LAMBDA o : PayloadBytes[r.evidence[o]], Staged(r))

\* Counts the result envelope alone, not the evidence committed with it.
CommittedBytesOfResult(r) == IF r.committed # NoTime THEN r.result ELSE 0

\* What a committed record counts against the committed-bytes ceiling.
CommittedBytes(r) ==
    IF r.committed # NoTime THEN r.result + EvidenceBytes(r) ELSE 0

\* The digests of a live record that _credential_in_use compares.
CredentialsOf(r) ==
    {r.action, r.claim, r.collect, r.resultCredential} \ {None}

\* Overlooks result credentials that are still pending.
CredentialInUseByCreator(c, excluding) ==
    \E m \in Live \ excluding :
        c \in {records[m].action, records[m].claim, records[m].collect}

\* Looks only at the record it is asked to leave out.
CredentialInUseHere(c, excluding) ==
    \E m \in Live \cap excluding : c \in CredentialsOf(records[m])

\* _credential_in_use
CredentialInUse(c, excluding) ==
    \E m \in Live \ excluding : c \in CredentialsOf(records[m])

-----------------------------------------------------------------------------
(* Time.                                                                   *)

\* Accepts a clock that has been set back.
AnyNow(now) == now \in Time

\* _validated_installation_now: the clock never shows less than it showed.
InstallationNow(now) == now >= highWater

\* Keeps the first instant it observed.
SetInstallationTimeOnce(now) ==
    highWater' = IF highWater = NoTime THEN now ELSE highWater

\* _advance_installation_time
AdvanceInstallationTime(now) ==
    highWater' = IF now > highWater THEN now ELSE highWater

\* The deadline that applies to a record: for its claim, then its result.
DeadlineOf(r) ==
    IF r.state \in {"EMPTY", "OFFERED"} THEN r.binding.claimDeadline
                                        ELSE r.binding.deadline

\* Lets a deadline reach results that wait for collection.
DueEvenIfCommitted(r, now) ==
    r.state \in Pending \cup {"RESULT_COMMITTED"} /\ now >= DeadlineOf(r)

\* The deadline has passed for a record that is still pending.
Due(r, now) == r.state \in Pending /\ now >= DeadlineOf(r)

-----------------------------------------------------------------------------
(* Retained material.                                                      *)

\* _validated_record_material: what every access authenticates first.  A
\* record that fails it is refused with INTERNAL_UNCERTAINTY.
ValidatedRecordMaterial(r) ==
    IF r.state = "RESULT_COMMITTED"
    THEN /\ r.committed # NoTime
         /\ \/ /\ r.collection = "ACKNOWLEDGED"
               /\ Staged(r) = {} /\ r.result = 0 /\ r.manifest = {}
            \/ /\ r.collection \in {"READY", "DELIVERING"}
               /\ r.result # 0
               /\ r.refs = r.evidence
               /\ r.manifest = Staged(r)
    ELSE /\ r.collection = "NONE"
         /\ r.result = 0 /\ r.manifest = {} /\ r.committed = NoTime
         /\ r.state # "CLAIMED_ONCE" => Staged(r) = {}

\* _release_record_payloads
ReleasedPayloads(r) ==
    [r EXCEPT !.evidence = NoEvidence, !.result = 0, !.refs = NoEvidence,
              !.manifest = {}]

\* Leaves the result credential usable.
ClearedMaterialKeepingCredential(r) ==
    [ReleasedPayloads(r) EXCEPT !.material = 0]

\* _clear_action_material, which clears the claim delivery material, burns
\* the result credential and releases the payloads.
ClearedMaterial(r) ==
    [ReleasedPayloads(r) EXCEPT !.material = 0, !.resultCredential = None]

\* The counters after _clear_action_material or _discard_record of the
\* records of the mailboxes in S.
TotalWithout(S) ==
    [active |-> total.active
                  - MapThenSumSet(LAMBDA m : records[m].material, S),
     evidence |-> total.evidence
                  - MapThenSumSet(LAMBDA m : EvidenceBytes(records[m]), S),
     committed |-> total.committed
                  - MapThenSumSet(LAMBDA m : CommittedBytes(records[m]), S)]

\* What _expire_if_due leaves of a record that is expired or due.
ExpiredRecord(r, now) ==
    IF r.state = "EXPIRED"
    THEN [r EXCEPT !.seen = now]
    ELSE [ClearedMaterial(r) EXCEPT !.state = "EXPIRED", !.terminal = now,
                                    !.seen = now]

\* The checks every access to a record makes before it looks at the state:
\* _record, _validated_record_material and _validated_record_now.
Accessible(m, now) ==
    /\ records[m].state # "ABSENT"
    /\ ValidatedRecordMaterial(records[m])
    /\ InstallationNow(now)
    /\ now >= records[m].seen

IsExpired(m, now) == records[m].state = "EXPIRED" \/ Due(records[m], now)

\* _expire_if_due when it answers True: the caller raises EXPIRED, and the
\* expiry stays.
DeniedAsExpired(m, now) ==
    /\ IsExpired(m, now)
    /\ records' = [records EXCEPT ![m] = ExpiredRecord(@, now)]
    /\ total' = TotalWithout({m})
    /\ AdvanceInstallationTime(now)
    /\ UNCHANGED tombstones

\* The record of m becomes r and observes the time (_observe_time).
Observe(m, r, now) ==
    /\ records' = [records EXCEPT ![m] = [r EXCEPT !.seen = now]]
    /\ AdvanceInstallationTime(now)
    /\ UNCHANGED tombstones

-----------------------------------------------------------------------------
(* The operations.                                                         *)

\* create
Create(b, t, now) ==
    LET m == b.mailbox
        offered == {t.action, t.claim, t.collection}
    IN  /\ InstallationNow(now)
        /\ m \notin Live \cup Tombstoned
        /\ Cardinality(Live) < MaxMailboxes
        /\ t.action # t.claim /\ t.action # t.collection
        /\ t.claim # t.collection
        /\ Maintenance \notin offered
        /\ \A c \in offered : ~CredentialInUse(c, {})
        /\ now < b.claimDeadline
        /\ records' = [records EXCEPT ![m] = NewRecord(b, t, now)]
        /\ AdvanceInstallationTime(now)
        /\ UNCHANGED <<tombstones, total>>

\* offer: t holds the digests core presents, result is the digest of the result
\* credential issued for this action.
Offer(b, t, result, now) ==
    LET m == b.mailbox
        r == records[m]
    IN  /\ Accessible(m, now)
        /\ r.binding = b
        /\ t.collection = r.collect
        /\ t.action = r.action
        /\ result \notin {r.action, r.claim, r.collect, Maintenance}
        /\ ~CredentialInUse(result, {m})
        /\ \/ DeniedAsExpired(m, now)
           \/ /\ ~IsExpired(m, now)
              /\ r.state = "EMPTY"
              /\ total.active + MaterialBytes <= MaxActiveBytes
              /\ total' = [total EXCEPT !.active = @ + MaterialBytes]
              /\ Observe(m, [r EXCEPT !.state = "OFFERED",
                                      !.material = MaterialBytes,
                                      !.resultCredential = result], now)

\* A claimed record that still holds the material it has delivered.
ClaimedRecordKeepingMaterial(r) == [r EXCEPT !.state = "CLAIMED_ONCE"]

\* What claim leaves of an offered record: the delivery material is gone.
ClaimedRecord(r) == [r EXCEPT !.state = "CLAIMED_ONCE", !.material = 0]

\* Answers a repeated claim again, from material it keeps.
RepeatableClaim(b, c, now) ==
    LET m == b.mailbox
        r == records[m]
    IN  /\ Accessible(m, now)
        /\ c = r.claim
        /\ r.binding = b
        /\ ~IsExpired(m, now)
        /\ r.state \in {"OFFERED", "CLAIMED_ONCE"}
        /\ Observe(m, ClaimedRecordKeepingMaterial(r), now)
        /\ UNCHANGED total

\* claim.  The delivery material is cleared whether the caller receives it or
\* the AFTER_CLAIM_COMMIT crash point loses it; the BEFORE_CLAIM_COMMIT crash
\* point changes nothing.
Claim(b, c, now) ==
    LET m == b.mailbox
        r == records[m]
    IN  /\ Accessible(m, now)
        /\ c = r.claim
        /\ r.binding = b
        /\ \/ DeniedAsExpired(m, now)
           \/ /\ ~IsExpired(m, now)
              /\ r.state = "OFFERED"
              /\ r.material # 0
              /\ total' = [total EXCEPT !.active = @ - r.material]
              /\ Observe(m, ClaimedRecord(r), now)

\* _require_result_access
ResultAccess(b, c) ==
    LET r == records[b.mailbox]
    IN  /\ r.binding = b
        /\ r.state = "CLAIMED_ONCE"
        /\ r.resultCredential # None
        /\ c = r.resultCredential

\* stage_evidence.  Its crash points lie on either side of the whole change.
StageEvidence(b, c, o, p, now) ==
    LET m == b.mailbox
        r == records[m]
        size == PayloadBytes[p]
    IN  /\ ResultAccess(b, c)
        /\ Accessible(m, now)
        /\ \/ DeniedAsExpired(m, now)
           \/ /\ ~IsExpired(m, now)
              /\ o \notin Staged(r)
              /\ Cardinality(Staged(r)) < MaxEvidenceItems
              /\ EvidenceBytes(r) + size <= b.responseBytes
              /\ total.evidence + size <= MaxEvidenceBytes
              /\ total' = [total EXCEPT !.evidence = @ + size]
              /\ Observe(m, [r EXCEPT !.evidence[o] = p], now)

\* The seals name the staged objects, no more and no fewer, with the kind,
\* digest and size that were staged.
SealsMatch(r, seals) ==
    /\ {o \in Object : seals[o] # None} = Staged(r)
    /\ \A o \in Staged(r) : seals[o] = r.evidence[o]

\* commit_result.  seals are the evidence references of the result, size the
\* length of its JSON.
CommitResult(b, c, seals, size, now) ==
    LET m == b.mailbox
        r == records[m]
        response == size + EvidenceBytes(r)
    IN  /\ ResultAccess(b, c)
        /\ Accessible(m, now)
        /\ \/ DeniedAsExpired(m, now)
           \/ /\ ~IsExpired(m, now)
              /\ SealsMatch(r, seals)
              /\ response <= b.responseBytes
              /\ total.committed + response <= MaxCommittedBytes
              /\ total' = [total EXCEPT !.committed = @ + response]
              /\ Observe(m, [r EXCEPT !.state = "RESULT_COMMITTED",
                                      !.collection = "READY",
                                      !.result = size,
                                      !.refs = seals,
                                      !.manifest = Staged(r),
                                      !.resultCredential = None,
                                      !.committed = now], now)

\* collect: begins or resumes delivery.  It looks at no deadline.
Collect(m, c, now) ==
    LET r == records[m]
    IN  /\ Accessible(m, now)
        /\ c = r.collect
        /\ r.state = "RESULT_COMMITTED"
        /\ r.result # 0
        /\ r.collection \in {"READY", "DELIVERING"}
        /\ Observe(m, [r EXCEPT !.collection = "DELIVERING"], now)
        /\ UNCHANGED total

\* acknowledge_collection: idempotent once acknowledged.
AcknowledgeCollection(m, c, now) ==
    LET r == records[m]
    IN  /\ Accessible(m, now)
        /\ c = r.collect
        /\ \/ /\ r.collection = "ACKNOWLEDGED"
              /\ Observe(m, r, now)
              /\ UNCHANGED total
           \/ /\ r.state = "RESULT_COMMITTED"
              /\ r.collection = "DELIVERING"
              /\ Observe(m, [ReleasedPayloads(r) EXCEPT
                                 !.collection = "ACKNOWLEDGED",
                                 !.terminal = now], now)
              /\ total' = [total EXCEPT !.evidence = @ - EvidenceBytes(r),
                                        !.committed = @ - CommittedBytes(r)]

\* abandon
Abandon(m, c, now) ==
    LET r == records[m]
    IN  /\ Accessible(m, now)
        /\ c = r.collect
        /\ \/ DeniedAsExpired(m, now)
           \/ /\ ~IsExpired(m, now)
              /\ r.state \in Pending
              /\ Observe(m, [ClearedMaterial(r) EXCEPT !.state = "ABANDONED",
                                                       !.terminal = now], now)
              /\ total' = TotalWithout({m})

\* snapshot
Snapshot(m, c, now) ==
    /\ Accessible(m, now)
    /\ c = records[m].collect
    /\ \/ DeniedAsExpired(m, now)
       \/ /\ ~IsExpired(m, now)
          /\ Observe(m, records[m], now)
          /\ UNCHANGED total

\* What both maintenance sweeps require before they change anything.
SweepAllowed(c, now) ==
    /\ c = Maintenance
    /\ \A m \in Live : ValidatedRecordMaterial(records[m])
    /\ InstallationNow(now)
    /\ \A m \in Live : now >= records[m].seen

\* expire
Expire(c, now) ==
    LET due == {m \in Live : Due(records[m], now)}
    IN  /\ SweepAllowed(c, now)
        /\ records' = [m \in Mailbox |->
                          IF m \in due THEN ExpiredRecord(records[m], now)
                          ELSE IF m \in Live THEN [records[m] EXCEPT !.seen = now]
                          ELSE records[m]]
        /\ total' = TotalWithout(due)
        /\ AdvanceInstallationTime(now)
        /\ UNCHANGED tombstones

\* Skips the retention of terminal records.
CollectableAtOnce(now) ==
    {m \in Live : records[m].terminal # NoTime /\ records[m].terminal <= now}

\* The records whose terminal retention has passed.
Collectable(now) ==
    {m \in Live : /\ records[m].terminal # NoTime
                  /\ now - records[m].terminal >= TerminalRetention}

\* The records a sweep removes: oldest terminal first (equal instants in the
\* order of random ids, so in any order), while a tombstone slot is free.
RemovedBySweep(removed, kept, now) ==
    /\ removed \subseteq Collectable(now)
    /\ \A x \in removed, y \in Collectable(now) \ removed :
           records[x].terminal <= records[y].terminal
    /\ \/ removed = Collectable(now)
       \/ Cardinality(removed) + Cardinality(kept) = MaxTombstones
    /\ Cardinality(removed) + Cardinality(kept) <= MaxTombstones

\* Lets the horizon of a tombstone overflow.
TombstoneUnchecked(now) == now \in Time

\* now + tombstone_retention is an instant datetime can represent.
TombstoneFits(now) == now + TombstoneRetention <= DatetimeMax

\* garbage_collect: every survivor observes the time, tombstones past their
\* horizon go, and terminal records past their retention become tombstones.
GarbageCollect(c, removed, now) ==
    LET kept == {m \in Tombstoned : tombstones[m] > now}
    IN  /\ SweepAllowed(c, now)
        /\ TombstoneFits(now)
        /\ RemovedBySweep(removed, kept, now)
        /\ records' = [m \in Mailbox |->
                          IF m \in removed THEN NoRecord
                          ELSE IF m \in Live THEN [records[m] EXCEPT !.seen = now]
                          ELSE records[m]]
        /\ tombstones' = [m \in Mailbox |->
                             IF m \in removed THEN now + TombstoneRetention
                             ELSE IF m \in kept THEN tombstones[m]
                             ELSE NoTime]
        /\ total' = TotalWithout(removed)
        /\ AdvanceInstallationTime(now)

-----------------------------------------------------------------------------
(* The repository on its own, with callers that may present any digest.    *)

Init ==
    /\ records = [m \in Mailbox |-> NoRecord]
    /\ tombstones = [m \in Mailbox |-> NoTime]
    /\ highWater = NoTime
    /\ total = [active |-> 0, evidence |-> 0, committed |-> 0]

\* The methods of the connector's face.
ConnectorOperation(c, now) ==
    \E b \in Binding :
        \/ Claim(b, c, now)
        \/ \E o \in Object, p \in Payload : StageEvidence(b, c, o, p, now)
        \/ \E seals \in EvidenceMap, size \in ResultBytes :
               CommitResult(b, c, seals, size, now)

\* The methods of trusted core when it presents the digests of t.
CoreOperation(t, now) ==
    \/ \E b \in Binding : Create(b, t, now)
    \/ \E b \in Binding, result \in IssuedCredential : Offer(b, t, result, now)
    \/ \E m \in Mailbox :
           \/ Collect(m, t.collection, now)
           \/ AcknowledgeCollection(m, t.collection, now)
           \/ Abandon(m, t.collection, now)
           \/ Snapshot(m, t.collection, now)

MaintenanceOperation(c, now) ==
    \/ Expire(c, now)
    \/ \E removed \in SUBSET Mailbox : GarbageCollect(c, removed, now)

Next ==
    \E now \in Time :
        \/ \E c \in Credential : ConnectorOperation(c, now)
        \/ \E t \in CredentialTriple : CoreOperation(t, now)
        \/ \E c \in Credential : MaintenanceOperation(c, now)

Spec == Init /\ [][Next]_repository

-----------------------------------------------------------------------------
(* Correctness.  The first four invariants are what the persistent store's *)
(* _validate_repository_semantics demands of every image it loads: an      *)
(* operation that left a state outside them would lock every process out   *)
(* of the store for good.                                                  *)

\* Records and instants have their types; in particular no tombstone expires
\* at an instant that datetime cannot represent.  (QuotaAccounting says what
\* the counters are.)
TypeOK ==
    /\ records \in [Mailbox -> Record]
    /\ tombstones \in [Mailbox -> 0..DatetimeMax \cup {NoTime}]
    /\ highWater \in Instant

\* Records that are finished and wait only for their retention to pass.
Finished(r) ==
    r.state \in {"EXPIRED", "ABANDONED"} \/ r.collection = "ACKNOWLEDGED"

\* What a record keeps and what it has given up, by lifecycle state.
Shape(r) ==
    /\ r.state = "ABSENT" => r = NoRecord
    /\ r.state = "RESULT_COMMITTED" <=> r.collection # "NONE"
    /\ r.state = "RESULT_COMMITTED" <=> r.committed # NoTime
    /\ r.state # "RESULT_COMMITTED" => r.result = 0 /\ r.manifest = {}
    /\ r.state = "OFFERED" <=> r.material # 0
    /\ r.state \in {"OFFERED", "CLAIMED_ONCE"} <=> r.resultCredential # None
    /\ Staged(r) # {} => r.state \in {"CLAIMED_ONCE", "RESULT_COMMITTED"}
    /\ Finished(r) <=> r.terminal # NoTime
    /\ r.collection = "ACKNOWLEDGED" => r.committed <= r.terminal

\* Secrets, evidence and results are present in exactly the states that need
\* them, whatever sequence of operations, denials and expiries led there, and
\* the material of every record still authenticates (so no operation of the
\* repository can make it refuse its own records).
LifecycleValid ==
    \A m \in Mailbox :
        /\ Shape(records[m])
        /\ m \in Live => /\ ValidatedRecordMaterial(records[m])
                         /\ records[m].binding \in Binding
                         /\ records[m].binding.mailbox = m

\* No record was created, committed or finished later than it was last seen,
\* none was seen later than the installation's high-water mark, and every
\* tombstone was created by then with its full horizon ahead of it.
TimesOrdered ==
    /\ \A m \in Live :
          LET r == records[m]
          IN  /\ 0 <= r.created /\ r.created <= r.seen /\ r.seen <= highWater
              /\ r.created < r.binding.claimDeadline
              /\ \A i \in {r.committed, r.terminal} \ {NoTime} :
                     r.created <= i /\ i <= r.seen
    /\ \A m \in Tombstoned : tombstones[m] - TombstoneRetention <= highWater
    /\ Live \cap Tombstoned = {}

\* The four roles of one mailbox, the roles of different mailboxes and the
\* maintenance role never share a credential while the mailboxes live.
CredentialsDistinct ==
    \A m \in Live :
        LET r == records[m]
        IN  /\ Maintenance \notin CredentialsOf(r)
            /\ r.action # r.claim /\ r.action # r.collect /\ r.claim # r.collect
            /\ r.resultCredential \notin {r.action, r.claim, r.collect}
            /\ ~\E c \in CredentialsOf(r) : CredentialInUse(c, {m})

\* The three byte counters are the sums they stand for and stay within their
\* ceilings, every record is within its own response budget, and neither the
\* records nor the tombstones outgrow their tables.
QuotaAccounting ==
    /\ total = [active |-> MapThenSumSet(LAMBDA m : records[m].material, Live),
                evidence |->
                   MapThenSumSet(LAMBDA m : EvidenceBytes(records[m]), Live),
                committed |->
                   MapThenSumSet(LAMBDA m : CommittedBytes(records[m]), Live)]
    /\ total.active <= MaxActiveBytes
    /\ total.evidence <= MaxEvidenceBytes
    /\ total.committed <= MaxCommittedBytes
    /\ \A m \in Live :
          /\ Cardinality(Staged(records[m])) <= MaxEvidenceItems
          /\ records[m].result + EvidenceBytes(records[m])
                <= records[m].binding.responseBytes
    /\ Cardinality(Live) <= MaxMailboxes
    /\ Cardinality(Tombstoned) <= MaxTombstones

\* An unacknowledged result stays as it is while its record becomes s, unless
\* the step is core's acknowledgement of a delivery it has begun.
KeepsResult(r, s) ==
    r.state = "RESULT_COMMITTED" /\ r.collection # "ACKNOWLEDGED" =>
        \/ /\ s.state = "RESULT_COMMITTED"
           /\ s.binding = r.binding
           /\ s.result = r.result
           /\ s.refs = r.refs
           /\ s.evidence = r.evidence
           /\ r.collection = "DELIVERING" => s.collection = "DELIVERING"
        \/ r.collection = "DELIVERING" /\ s.collection = "ACKNOWLEDGED"

\* A committed result is never lost or altered before core has begun to
\* collect it and acknowledged it: no deadline, abandonment, sweep or later
\* upload touches it, however long it waits.
ResultSurvives ==
    [][\A m \in Mailbox : KeepsResult(records[m], records'[m])]_repository

\* An offer, a claim, an upload or a commit that turns r into s happens while
\* the clock that all operations share is before the deadline.
MeetsDeadline(r, s, mark) ==
    /\ r.state = "EMPTY" /\ s.state = "OFFERED" => mark < r.binding.claimDeadline
    /\ r.state = "OFFERED" /\ s.state = "CLAIMED_ONCE" => mark < r.binding.claimDeadline
    /\ r.state = "CLAIMED_ONCE" /\ s.state = "CLAIMED_ONCE" /\ s.evidence # r.evidence
          => mark < r.binding.deadline
    /\ r.state = "CLAIMED_ONCE" /\ s.state = "RESULT_COMMITTED" => mark < r.binding.deadline

\* Once any operation on any mailbox has observed a deadline, nothing is offered,
\* claimed, staged or committed behind it: a caller cannot reach back to an
\* earlier instant through a mailbox that was not looked at since, and the
\* instant observed last is never set back.
DeadlinesHold ==
    [][/\ highWater <= highWater'
       /\ \A m \in Mailbox :
             MeetsDeadline(records[m], records'[m], highWater')]_repository

=============================================================================
