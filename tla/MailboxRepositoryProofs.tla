----------------------- MODULE MailboxRepositoryProofs -----------------------
(***************************************************************************)
(* Proofs about the mailbox repository, for any number of mailboxes,       *)
(* bindings, credentials and instants.                                     *)
(*                                                                         *)
(* The argument is made one record at a time.  GoodRecord says what the    *)
(* invariants demand of the record of one mailbox, given the high-water    *)
(* mark of the clock; each operation's new record is shown to be good, and *)
(* the lemma OneRecordChanges lifts that to the whole repository.  The     *)
(* byte counters speak of all records at once: their proof comes last, on  *)
(* lemmas about sums over finite sets.                                     *)
(***************************************************************************)
EXTENDS MailboxRepository, FiniteSetTheorems, TLAPS

\* The part of TimesOrdered that speaks of one record.
GoodTimes(r, mark) ==
    /\ 0 <= r.created /\ r.created <= r.seen /\ r.seen <= mark
    /\ r.created < r.binding.claimDeadline
    /\ r.committed # NoTime => r.created <= r.committed /\ r.committed <= r.seen
    /\ r.terminal # NoTime => r.created <= r.terminal /\ r.terminal <= r.seen

\* What a live record of mailbox m must be.
GoodLive(r, m, mark) ==
    /\ ValidatedRecordMaterial(r)
    /\ r.binding \in Binding
    /\ r.binding.mailbox = m
    /\ GoodTimes(r, mark)

GoodRecord(r, m, mark) ==
    /\ r \in Record
    /\ Shape(r)
    /\ r.state # "ABSENT" => GoodLive(r, m, mark)

GoodTombstones ==
    /\ tombstones \in [Mailbox -> 0..DatetimeMax \cup {NoTime}]
    /\ \A m \in Tombstoned : tombstones[m] - TombstoneRetention <= highWater
    /\ \A m \in Mailbox : records[m].state # "ABSENT" => tombstones[m] = NoTime

\* The inductive invariant: TypeOK, LifecycleValid and TimesOrdered together.
Inv ==
    /\ highWater \in Instant
    /\ records \in [Mailbox -> Record]
    /\ \A m \in Mailbox : GoodRecord(records[m], m, highWater)
    /\ GoodTombstones

-----------------------------------------------------------------------------
(* Facts about the constants and about single records.                     *)

\* The bounds are naturals, and every payload has a size.
LEMMA ConstantTypes ==
    /\ MaxTime \in Nat /\ DatetimeMax \in Nat
    /\ TombstoneRetention \in Nat /\ TerminalRetention \in Nat
    /\ MaterialBytes \in Nat /\ MaterialBytes # 0
    /\ 0 \notin ResultBytes
BY LimitAssumption, SizeAssumption

\* The instants the model considers are integers no later than MaxTime.
LEMMA TimeTypes ==
    /\ \A t \in Time : t \in Int /\ t >= 0 /\ t \in Instant
    /\ NoTime \in Instant /\ NoTime \in Int /\ NoTime < 0
    /\ \A t \in Instant : t \in Int /\ (t # NoTime => t \in Time)
BY ConstantTypes DEF Time, Instant, NoTime

\* The fields of a binding, and that it is not the absence of one.
LEMMA BindingTypes ==
    \A b \in Binding : /\ b # None
                       /\ b.mailbox \in Mailbox
                       /\ b.claimDeadline \in Int /\ b.deadline \in Int
BY BindingAssumption, NoneAssumption

\* A mailbox that does not exist satisfies every per-record clause.
LEMMA NoRecordGood == \A m, mark : GoodRecord(NoRecord, m, mark)
<1>1. NoRecord \in Record
  BY DEF NoRecord, Record, CollectionState, MailboxState, EvidenceMap,
         NoEvidence, Instant
<1>2. Shape(NoRecord)
  BY DEF NoRecord, Shape, Staged, NoEvidence, Finished
<1>. QED
  BY <1>1, <1>2 DEF GoodRecord, NoRecord

\* Time passing does not spoil a record.
LEMMA GoodLater ==
    ASSUME NEW r, NEW m, NEW mark \in Instant, NEW now \in Time,
           now >= mark, GoodRecord(r, m, mark)
    PROVE  GoodRecord(r, m, now)
<1>1. r.seen \in Int /\ mark \in Int /\ now \in Int
  BY TimeTypes DEF GoodRecord, Record
<1>. QED
  BY <1>1 DEF GoodRecord, GoodLive, GoodTimes

\* Nor does being observed.
LEMMA GoodSeen ==
    ASSUME NEW r, NEW m, NEW mark \in Instant, NEW now \in Time,
           now >= mark, r.state # "ABSENT", GoodRecord(r, m, mark)
    PROVE  GoodRecord([r EXCEPT !.seen = now], m, now)
<1>. DEFINE s == [r EXCEPT !.seen = now]
<1>1. s \in Record
  BY TimeTypes DEF GoodRecord, Record
<1>2. Shape(s)
  BY DEF GoodRecord, Shape, Staged, Finished, Record
<1>3. ValidatedRecordMaterial(s)
  BY DEF GoodRecord, GoodLive, ValidatedRecordMaterial, Staged, Record
<1>4. GoodTimes(s, now)
  BY TimeTypes DEF GoodRecord, GoodLive, GoodTimes, Record
<1>5. s.binding = r.binding
  BY DEF GoodRecord, Record
<1>. QED
  BY <1>1, <1>2, <1>3, <1>4, <1>5 DEF GoodRecord, GoodLive

-----------------------------------------------------------------------------
(* The record each operation leaves is good.                               *)

\* create
LEMMA NewRecordGood ==
    ASSUME NEW b \in Binding, NEW t \in CredentialTriple, NEW now \in Time,
           now < b.claimDeadline
    PROVE  GoodRecord(NewRecord(b, t, now), b.mailbox, now)
<1>. DEFINE s == NewRecord(b, t, now)
<1>1. t.action \in Credential /\ t.claim \in Credential
      /\ t.collection \in Credential
  BY CredentialAssumption
<1>2. s \in Record
  BY <1>1, TimeTypes DEF NewRecord, NoRecord, Record, CollectionState,
     MailboxState, Pending, EvidenceMap, NoEvidence
<1>3. Shape(s)
  BY DEF NewRecord, NoRecord, Shape, Staged, NoEvidence, Finished
<1>4. ValidatedRecordMaterial(s)
  BY DEF NewRecord, NoRecord, ValidatedRecordMaterial, Staged, NoEvidence
<1>5. GoodTimes(s, now)
  BY TimeTypes, BindingTypes DEF NewRecord, NoRecord, GoodTimes
<1>6. s.binding = b
  BY DEF NewRecord, NoRecord
<1>. QED
  BY <1>2, <1>3, <1>4, <1>5, <1>6 DEF GoodRecord, GoodLive

\* offer
LEMMA OfferedGood ==
    ASSUME NEW r, NEW m, NEW mark \in Instant, NEW now \in Time, now >= mark,
           GoodRecord(r, m, mark), r.state = "EMPTY",
           NEW result \in Credential
    PROVE  GoodRecord([[r EXCEPT !.state = "OFFERED", !.material = MaterialBytes,
                                     !.resultCredential = result]
                       EXCEPT !.seen = now], m, now)
<1>. DEFINE s == [[r EXCEPT !.state = "OFFERED", !.material = MaterialBytes,
                                     !.resultCredential = result]
                       EXCEPT !.seen = now]
<1>0. r \in Record /\ Shape(r) /\ GoodLive(r, m, mark)
  BY DEF GoodRecord
<1>1. s \in Record
  BY <1>0, TimeTypes, ConstantTypes DEF Record, MailboxState, CollectionState,
     Pending
<1>2. Shape(s)
  BY <1>0, NoneAssumption, ConstantTypes DEF GoodLive, GoodTimes, Shape, Staged, Finished,
     Record
<1>3. ValidatedRecordMaterial(s)
  BY <1>0, TimeTypes, ConstantTypes DEF GoodLive, Shape, ValidatedRecordMaterial, Staged,
     Record
<1>4. GoodTimes(s, now)
  BY <1>0, TimeTypes DEF GoodLive, GoodTimes, Shape, Finished, Record
<1>5. s.binding = r.binding
  BY <1>0 DEF Record
<1>. QED
  BY <1>0, <1>1, <1>2, <1>3, <1>4, <1>5 DEF GoodRecord, GoodLive

\* claim
LEMMA ClaimedGood ==
    ASSUME NEW r, NEW m, NEW mark \in Instant, NEW now \in Time, now >= mark,
           GoodRecord(r, m, mark), r.state = "OFFERED"
    PROVE  GoodRecord([ClaimedRecord(r) EXCEPT !.seen = now], m, now)
<1>. DEFINE s == [ClaimedRecord(r) EXCEPT !.seen = now]
<1>0. r \in Record /\ Shape(r) /\ GoodLive(r, m, mark)
  BY DEF GoodRecord
<1>1. s \in Record
  BY <1>0, TimeTypes, ConstantTypes DEF Record, MailboxState, CollectionState,
     Pending, ClaimedRecord
<1>2. Shape(s)
  BY <1>0, TimeTypes, ConstantTypes DEF GoodLive, GoodTimes, Shape, Staged, Finished,
     Record, ClaimedRecord
<1>3. ValidatedRecordMaterial(s)
  BY <1>0, TimeTypes, ConstantTypes DEF GoodLive, Shape, ValidatedRecordMaterial, Staged,
     Record, ClaimedRecord
<1>4. GoodTimes(s, now)
  BY <1>0, TimeTypes DEF GoodLive, GoodTimes, Shape, Finished, Record, ClaimedRecord
<1>5. s.binding = r.binding
  BY <1>0 DEF Record, ClaimedRecord
<1>. QED
  BY <1>0, <1>1, <1>2, <1>3, <1>4, <1>5 DEF GoodRecord, GoodLive

\* stage_evidence
LEMMA StagedGood ==
    ASSUME NEW r, NEW m, NEW mark \in Instant, NEW now \in Time, now >= mark,
           GoodRecord(r, m, mark), r.state = "CLAIMED_ONCE",
           NEW o \in Object, NEW p \in Payload
    PROVE  GoodRecord([[r EXCEPT !.evidence[o] = p] EXCEPT !.seen = now], m, now)
<1>. DEFINE s == [[r EXCEPT !.evidence[o] = p] EXCEPT !.seen = now]
<1>0. r \in Record /\ Shape(r) /\ GoodLive(r, m, mark)
  BY DEF GoodRecord
<1>1. s \in Record
  BY <1>0, TimeTypes, ConstantTypes DEF Record, MailboxState, CollectionState,
     Pending, EvidenceMap
<1>2. Shape(s)
  BY <1>0, TimeTypes, ConstantTypes DEF GoodLive, GoodTimes, Shape, Staged, Finished,
     Record, EvidenceMap
<1>3. ValidatedRecordMaterial(s)
  BY <1>0, TimeTypes, ConstantTypes DEF GoodLive, Shape, ValidatedRecordMaterial, Staged,
     Record, EvidenceMap
<1>4. GoodTimes(s, now)
  BY <1>0, TimeTypes DEF GoodLive, GoodTimes, Shape, Finished, Record, EvidenceMap
<1>5. s.binding = r.binding
  BY <1>0 DEF Record, EvidenceMap
<1>. QED
  BY <1>0, <1>1, <1>2, <1>3, <1>4, <1>5 DEF GoodRecord, GoodLive

\* commit_result
LEMMA CommittedGood ==
    ASSUME NEW r, NEW m, NEW mark \in Instant, NEW now \in Time, now >= mark,
           GoodRecord(r, m, mark), r.state = "CLAIMED_ONCE",
           NEW seals \in EvidenceMap, NEW size \in ResultBytes, SealsMatch(r, seals)
    PROVE  GoodRecord([[r EXCEPT !.state = "RESULT_COMMITTED",
                                     !.collection = "READY",
                                     !.result = size,
                                     !.refs = seals,
                                     !.manifest = Staged(r),
                                     !.resultCredential = None,
                                     !.committed = now]
                       EXCEPT !.seen = now], m, now)
<1>. DEFINE s == [[r EXCEPT !.state = "RESULT_COMMITTED",
                                     !.collection = "READY",
                                     !.result = size,
                                     !.refs = seals,
                                     !.manifest = Staged(r),
                                     !.resultCredential = None,
                                     !.committed = now]
                       EXCEPT !.seen = now]
<1>0. r \in Record /\ Shape(r) /\ GoodLive(r, m, mark)
  BY DEF GoodRecord
<1>1. s \in Record
  BY <1>0, TimeTypes, ConstantTypes DEF Record, MailboxState, CollectionState,
     Pending, EvidenceMap, SealsMatch
<1>2. Shape(s)
  BY <1>0, TimeTypes, ConstantTypes DEF GoodLive, GoodTimes, Shape, Staged, Finished,
     Record, EvidenceMap, SealsMatch
<1>3. ValidatedRecordMaterial(s)
  BY <1>0, TimeTypes, ConstantTypes DEF GoodLive, Shape, ValidatedRecordMaterial, Staged,
     Record, EvidenceMap, SealsMatch
<1>4. GoodTimes(s, now)
  BY <1>0, TimeTypes DEF GoodLive, GoodTimes, Shape, Finished, Record, EvidenceMap, SealsMatch
<1>5. s.binding = r.binding
  BY <1>0 DEF Record, EvidenceMap, SealsMatch
<1>. QED
  BY <1>0, <1>1, <1>2, <1>3, <1>4, <1>5 DEF GoodRecord, GoodLive

\* collect
LEMMA CollectedGood ==
    ASSUME NEW r, NEW m, NEW mark \in Instant, NEW now \in Time, now >= mark,
           GoodRecord(r, m, mark), r.state = "RESULT_COMMITTED",
           r.collection \in {"READY", "DELIVERING"}
    PROVE  GoodRecord([[r EXCEPT !.collection = "DELIVERING"] EXCEPT !.seen = now], m, now)
<1>. DEFINE s == [[r EXCEPT !.collection = "DELIVERING"] EXCEPT !.seen = now]
<1>0. r \in Record /\ Shape(r) /\ GoodLive(r, m, mark)
  BY DEF GoodRecord
<1>1. s \in Record
  BY <1>0, TimeTypes, ConstantTypes DEF Record, MailboxState, CollectionState,
     Pending
<1>2. Shape(s)
  BY <1>0, TimeTypes, ConstantTypes DEF GoodLive, GoodTimes, Shape, Staged, Finished,
     Record
<1>3. ValidatedRecordMaterial(s)
  BY <1>0, TimeTypes, ConstantTypes DEF GoodLive, Shape, ValidatedRecordMaterial, Staged,
     Record
<1>4. GoodTimes(s, now)
  BY <1>0, TimeTypes DEF GoodLive, GoodTimes, Shape, Finished, Record
<1>5. s.binding = r.binding
  BY <1>0 DEF Record
<1>. QED
  BY <1>0, <1>1, <1>2, <1>3, <1>4, <1>5 DEF GoodRecord, GoodLive

\* acknowledge_collection
LEMMA AcknowledgedGood ==
    ASSUME NEW r, NEW m, NEW mark \in Instant, NEW now \in Time, now >= mark,
           GoodRecord(r, m, mark), r.state = "RESULT_COMMITTED",
           r.collection = "DELIVERING"
    PROVE  GoodRecord([[ReleasedPayloads(r) EXCEPT !.collection = "ACKNOWLEDGED",
                                                    !.terminal = now]
                       EXCEPT !.seen = now], m, now)
<1>. DEFINE s == [[ReleasedPayloads(r) EXCEPT !.collection = "ACKNOWLEDGED",
                                                    !.terminal = now]
                       EXCEPT !.seen = now]
<1>0. r \in Record /\ Shape(r) /\ GoodLive(r, m, mark)
  BY DEF GoodRecord
<1>1. s \in Record
  BY <1>0, TimeTypes, ConstantTypes DEF Record, MailboxState, CollectionState,
     Pending, ReleasedPayloads, NoEvidence, EvidenceMap
<1>2. Shape(s)
  BY <1>0, TimeTypes, ConstantTypes DEF GoodLive, GoodTimes, Shape, Staged, Finished,
     Record, ReleasedPayloads, NoEvidence, EvidenceMap
<1>3. ValidatedRecordMaterial(s)
  BY <1>0, TimeTypes, ConstantTypes DEF GoodLive, Shape, ValidatedRecordMaterial, Staged,
     Record, ReleasedPayloads, NoEvidence, EvidenceMap
<1>4. GoodTimes(s, now)
  BY <1>0, TimeTypes DEF GoodLive, GoodTimes, Shape, Finished, Record, ReleasedPayloads, NoEvidence, EvidenceMap
<1>5. s.binding = r.binding
  BY <1>0 DEF Record, ReleasedPayloads, NoEvidence, EvidenceMap
<1>. QED
  BY <1>0, <1>1, <1>2, <1>3, <1>4, <1>5 DEF GoodRecord, GoodLive

\* abandon
LEMMA AbandonedGood ==
    ASSUME NEW r, NEW m, NEW mark \in Instant, NEW now \in Time, now >= mark,
           GoodRecord(r, m, mark), r.state \in Pending
    PROVE  GoodRecord([[ClearedMaterial(r) EXCEPT !.state = "ABANDONED",
                                                   !.terminal = now]
                       EXCEPT !.seen = now], m, now)
<1>. DEFINE s == [[ClearedMaterial(r) EXCEPT !.state = "ABANDONED",
                                                   !.terminal = now]
                       EXCEPT !.seen = now]
<1>0. r \in Record /\ Shape(r) /\ GoodLive(r, m, mark)
  BY DEF GoodRecord, Pending
<1>1. s \in Record
  BY <1>0, TimeTypes, ConstantTypes DEF Record, MailboxState, CollectionState,
     Pending, ClearedMaterial, ReleasedPayloads, NoEvidence,
     EvidenceMap
<1>2. Shape(s)
  BY <1>0, TimeTypes, ConstantTypes DEF GoodLive, GoodTimes, Shape, Staged, Finished,
     Record, Pending, ClearedMaterial, ReleasedPayloads, NoEvidence,
     EvidenceMap
<1>3. ValidatedRecordMaterial(s)
  BY <1>0, TimeTypes, ConstantTypes DEF GoodLive, Shape, ValidatedRecordMaterial, Staged,
     Record, Pending, ClearedMaterial, ReleasedPayloads, NoEvidence,
     EvidenceMap
<1>4. GoodTimes(s, now)
  BY <1>0, TimeTypes DEF GoodLive, GoodTimes, Shape, Finished,
     Record, Pending, ClearedMaterial, ReleasedPayloads, NoEvidence,
     EvidenceMap
<1>5. s.binding = r.binding
  BY <1>0 DEF Record, ClearedMaterial, ReleasedPayloads, NoEvidence,
     EvidenceMap
<1>. QED
  BY <1>0, <1>1, <1>2, <1>3, <1>4, <1>5 DEF GoodRecord, GoodLive

\* _expire_if_due
LEMMA ExpiredGood ==
    ASSUME NEW r, NEW m, NEW mark \in Instant, NEW now \in Time, now >= mark,
           GoodRecord(r, m, mark), r.state = "EXPIRED" \/ Due(r, now)
    PROVE  GoodRecord(ExpiredRecord(r, now), m, now)
<1>. DEFINE s == ExpiredRecord(r, now)
<1>0. r \in Record /\ Shape(r) /\ GoodLive(r, m, mark)
  BY DEF GoodRecord, Due, Pending
<1>1. s \in Record
  BY <1>0, TimeTypes, ConstantTypes DEF Record, MailboxState, CollectionState,
     Pending, ExpiredRecord, Due, ClearedMaterial, ReleasedPayloads, NoEvidence,
     EvidenceMap
<1>2. Shape(s)
  BY <1>0, TimeTypes, ConstantTypes DEF GoodLive, GoodTimes, Shape, Staged, Finished,
     Record, Pending, ExpiredRecord, Due, ClearedMaterial, ReleasedPayloads, NoEvidence,
     EvidenceMap
<1>3. ValidatedRecordMaterial(s)
  BY <1>0, TimeTypes, ConstantTypes DEF GoodLive, Shape, ValidatedRecordMaterial, Staged,
     Record, Pending, ExpiredRecord, Due, ClearedMaterial, ReleasedPayloads, NoEvidence,
     EvidenceMap
<1>4. GoodTimes(s, now)
  BY <1>0, TimeTypes DEF GoodLive, GoodTimes, Shape, Finished,
     Record, Pending, ExpiredRecord, Due, ClearedMaterial, ReleasedPayloads, NoEvidence,
     EvidenceMap
<1>5. s.binding = r.binding
  BY <1>0 DEF Record, ExpiredRecord, Due, ClearedMaterial, ReleasedPayloads, NoEvidence,
     EvidenceMap
<1>. QED
  BY <1>0, <1>1, <1>2, <1>3, <1>4, <1>5 DEF GoodRecord, GoodLive

-----------------------------------------------------------------------------
(* From one record to the repository.                                      *)

\* An accepted instant becomes the high-water mark.
LEMMA MarkAdvances ==
    ASSUME NEW now \in Time, highWater \in Instant, InstallationNow(now),
           AdvanceInstallationTime(now)
    PROVE  highWater' = now /\ highWater <= now
BY TimeTypes DEF InstallationNow, AdvanceInstallationTime

\* The frame argument of every operation on one mailbox: a good record in
\* place of the old one, at the advanced mark, keeps the invariant.
LEMMA OneRecordChanges ==
    ASSUME Inv, NEW m \in Mailbox, NEW s, NEW now \in Time,
           InstallationNow(now), AdvanceInstallationTime(now),
           GoodRecord(s, m, now),
           records[m].state # "ABSENT" \/ m \notin Tombstoned,
           records' = [records EXCEPT ![m] = s],
           UNCHANGED tombstones
    PROVE  Inv'
<1>1. highWater' = now /\ highWater <= now /\ highWater \in Int /\ now \in Int
  BY MarkAdvances, TimeTypes DEF Inv
<1>2. highWater' \in Instant
  BY <1>1, TimeTypes
<1>3. records' \in [Mailbox -> Record]
  BY DEF Inv, GoodRecord
<1>4. ASSUME NEW n \in Mailbox
      PROVE  GoodRecord(records'[n], n, highWater')
  <2>1. CASE n = m
    BY <2>1, <1>1 DEF Inv
  <2>2. CASE n # m
    <3>1. records'[n] = records[n] /\ GoodRecord(records[n], n, highWater)
      BY <2>2 DEF Inv
    <3>. QED
      BY <3>1, <1>1, GoodLater DEF Inv
  <2>. QED
    BY <2>1, <2>2
<1>5. GoodTombstones'
  <2>1. tombstones' \in [Mailbox -> 0..DatetimeMax \cup {NoTime}]
    BY DEF Inv, GoodTombstones
  <2>2. ASSUME NEW n \in Mailbox, tombstones'[n] # NoTime
        PROVE  tombstones'[n] - TombstoneRetention <= highWater'
    BY <2>2, <1>1, ConstantTypes DEF Inv, GoodTombstones, Tombstoned
  <2>3. ASSUME NEW n \in Mailbox, records'[n].state # "ABSENT"
        PROVE  tombstones'[n] = NoTime
    BY <2>3 DEF Inv, GoodTombstones, Tombstoned
  <2>. QED
    BY <2>1, <2>2, <2>3 DEF GoodTombstones, Tombstoned
<1>. QED
  BY <1>2, <1>3, <1>4, <1>5 DEF Inv

\* A denial for an expired deadline.
LEMMA DenialKeepsInv ==
    ASSUME Inv, NEW m \in Mailbox, NEW now \in Time,
           Accessible(m, now), DeniedAsExpired(m, now)
    PROVE  Inv'
<1>1. GoodRecord(records[m], m, highWater) /\ highWater \in Instant
  BY DEF Inv
<1>2. now >= highWater
  BY DEF Accessible, InstallationNow
<1>3. GoodRecord(ExpiredRecord(records[m], now), m, now)
  BY <1>1, <1>2, ExpiredGood DEF DeniedAsExpired, IsExpired
<1>. QED
  BY <1>3, OneRecordChanges DEF DeniedAsExpired, Accessible, Inv

\* An operation that observes the time.
LEMMA ObserveKeepsInv ==
    ASSUME Inv, NEW m \in Mailbox, NEW r, NEW now \in Time,
           Accessible(m, now), Observe(m, r, now),
           GoodRecord([r EXCEPT !.seen = now], m, now)
    PROVE  Inv'
BY OneRecordChanges DEF Observe, Accessible

\* What an access may rely on.
LEMMA AccessedRecord ==
    ASSUME Inv, NEW m \in Mailbox, NEW now, Accessible(m, now)
    PROVE  /\ highWater \in Instant /\ now >= highWater
           /\ records[m].state # "ABSENT"
           /\ GoodRecord(records[m], m, highWater)
           /\ records[m] \in Record
BY DEF Inv, Accessible, InstallationNow

-----------------------------------------------------------------------------
(* One lemma per operation.                                                *)

\* create keeps the invariant.
LEMMA CreateKeepsInv ==
    ASSUME Inv, NEW b \in Binding, NEW t \in CredentialTriple, NEW now \in Time,
           Create(b, t, now)
    PROVE  Inv'
<1>1. GoodRecord(NewRecord(b, t, now), b.mailbox, now)
  BY NewRecordGood DEF Create
<1>. QED
  BY <1>1, BindingTypes, OneRecordChanges DEF Create

\* offer keeps the invariant.
LEMMA OfferKeepsInv ==
    ASSUME Inv, NEW b \in Binding, NEW t, NEW result \in IssuedCredential,
           NEW now \in Time, Offer(b, t, result, now)
    PROVE  Inv'
<1>. DEFINE m == b.mailbox
            r == records[m]
<1>1. m \in Mailbox /\ Accessible(m, now)
  BY BindingTypes DEF Offer
<1>2. CASE DeniedAsExpired(m, now)
  BY <1>1, <1>2, DenialKeepsInv
<1>3. CASE /\ r.state = "EMPTY"
           /\ Observe(m, [r EXCEPT !.state = "OFFERED",
                                   !.material = MaterialBytes,
                                   !.resultCredential = result], now)
  <2>1. result \in Credential
    BY CredentialAssumption
  <2>. QED
    BY <1>1, <1>3, <2>1, AccessedRecord, OfferedGood, ObserveKeepsInv
<1>. QED
  BY <1>2, <1>3 DEF Offer

\* claim keeps the invariant.
LEMMA ClaimKeepsInv ==
    ASSUME Inv, NEW b \in Binding, NEW c, NEW now \in Time, Claim(b, c, now)
    PROVE  Inv'
<1>. DEFINE m == b.mailbox
            r == records[m]
<1>1. m \in Mailbox /\ Accessible(m, now)
  BY BindingTypes DEF Claim
<1>2. CASE DeniedAsExpired(m, now)
  BY <1>1, <1>2, DenialKeepsInv
<1>3. CASE r.state = "OFFERED" /\ Observe(m, ClaimedRecord(r), now)
  BY <1>1, <1>3, AccessedRecord, ClaimedGood, ObserveKeepsInv
<1>. QED
  BY <1>2, <1>3 DEF Claim

\* stage_evidence keeps the invariant.
LEMMA StageEvidenceKeepsInv ==
    ASSUME Inv, NEW b \in Binding, NEW c, NEW o \in Object, NEW p \in Payload,
           NEW now \in Time, StageEvidence(b, c, o, p, now)
    PROVE  Inv'
<1>. DEFINE m == b.mailbox
            r == records[m]
<1>1. m \in Mailbox /\ Accessible(m, now) /\ r.state = "CLAIMED_ONCE"
  BY BindingTypes DEF StageEvidence, ResultAccess
<1>2. CASE DeniedAsExpired(m, now)
  BY <1>1, <1>2, DenialKeepsInv
<1>3. CASE Observe(m, [r EXCEPT !.evidence[o] = p], now)
  BY <1>1, <1>3, AccessedRecord, StagedGood, ObserveKeepsInv
<1>. QED
  BY <1>2, <1>3 DEF StageEvidence

\* commit_result keeps the invariant.
LEMMA CommitResultKeepsInv ==
    ASSUME Inv, NEW b \in Binding, NEW c, NEW seals \in EvidenceMap,
           NEW size \in ResultBytes, NEW now \in Time,
           CommitResult(b, c, seals, size, now)
    PROVE  Inv'
<1>. DEFINE m == b.mailbox
            r == records[m]
            s == [r EXCEPT !.state = "RESULT_COMMITTED",
                           !.collection = "READY",
                           !.result = size,
                           !.refs = seals,
                           !.manifest = Staged(r),
                           !.resultCredential = None,
                           !.committed = now]
<1>1. m \in Mailbox /\ Accessible(m, now) /\ r.state = "CLAIMED_ONCE"
  BY BindingTypes DEF CommitResult, ResultAccess
<1>2. CASE DeniedAsExpired(m, now)
  BY <1>1, <1>2, DenialKeepsInv
<1>3. CASE SealsMatch(r, seals) /\ Observe(m, s, now)
  <2>1. GoodRecord([s EXCEPT !.seen = now], m, now)
    BY <1>1, <1>3, AccessedRecord, CommittedGood
  <2>. HIDE DEF s
  <2>. QED
    BY <1>1, <1>3, <2>1, ObserveKeepsInv
<1>. QED
  BY <1>2, <1>3 DEF CommitResult

\* collect keeps the invariant.
LEMMA CollectKeepsInv ==
    ASSUME Inv, NEW m \in Mailbox, NEW c, NEW now \in Time, Collect(m, c, now)
    PROVE  Inv'
BY AccessedRecord, CollectedGood, ObserveKeepsInv DEF Collect

\* acknowledge_collection keeps the invariant.
LEMMA AcknowledgeCollectionKeepsInv ==
    ASSUME Inv, NEW m \in Mailbox, NEW c, NEW now \in Time,
           AcknowledgeCollection(m, c, now)
    PROVE  Inv'
<1>. DEFINE r == records[m]
            s == [ReleasedPayloads(r) EXCEPT !.collection = "ACKNOWLEDGED",
                                             !.terminal = now]
<1>1. Accessible(m, now)
  BY DEF AcknowledgeCollection
<1>2. CASE Observe(m, r, now)
  BY <1>1, <1>2, AccessedRecord, GoodSeen, ObserveKeepsInv
<1>3. CASE /\ r.state = "RESULT_COMMITTED" /\ r.collection = "DELIVERING"
           /\ Observe(m, s, now)
  BY <1>1, <1>3, AccessedRecord, AcknowledgedGood, ObserveKeepsInv
<1>. QED
  BY <1>2, <1>3 DEF AcknowledgeCollection

\* abandon keeps the invariant.
LEMMA AbandonKeepsInv ==
    ASSUME Inv, NEW m \in Mailbox, NEW c, NEW now \in Time, Abandon(m, c, now)
    PROVE  Inv'
<1>. DEFINE r == records[m]
            s == [ClearedMaterial(r) EXCEPT !.state = "ABANDONED",
                                            !.terminal = now]
<1>1. Accessible(m, now)
  BY DEF Abandon
<1>2. CASE DeniedAsExpired(m, now)
  BY <1>1, <1>2, DenialKeepsInv
<1>3. CASE r.state \in Pending /\ Observe(m, s, now)
  BY <1>1, <1>3, AccessedRecord, AbandonedGood, ObserveKeepsInv
<1>. QED
  BY <1>2, <1>3 DEF Abandon

\* snapshot keeps the invariant.
LEMMA SnapshotKeepsInv ==
    ASSUME Inv, NEW m \in Mailbox, NEW c, NEW now \in Time, Snapshot(m, c, now)
    PROVE  Inv'
<1>1. Accessible(m, now)
  BY DEF Snapshot
<1>2. CASE DeniedAsExpired(m, now)
  BY <1>1, <1>2, DenialKeepsInv
<1>3. CASE Observe(m, records[m], now)
  BY <1>1, <1>3, AccessedRecord, GoodSeen, ObserveKeepsInv
<1>. QED
  BY <1>2, <1>3 DEF Snapshot

\* expire keeps the invariant, over every record at once.
LEMMA ExpireKeepsInv ==
    ASSUME Inv, NEW c, NEW now \in Time, Expire(c, now)
    PROVE  Inv'
<1>1. highWater' = now /\ highWater <= now /\ highWater \in Int /\ now \in Int
  BY MarkAdvances, TimeTypes DEF Inv, Expire, SweepAllowed
<1>2. ASSUME NEW n \in Mailbox
      PROVE  /\ GoodRecord(records'[n], n, now)
             /\ records[n].state = "ABSENT" => records'[n].state = "ABSENT"
  <2>0. GoodRecord(records[n], n, highWater) /\ highWater \in Instant
    BY DEF Inv
  <2>1. CASE n \in Live /\ Due(records[n], now)
    <3>1. records'[n] = ExpiredRecord(records[n], now)
      BY <2>1 DEF Expire
    <3>. QED
      BY <2>0, <2>1, <3>1, <1>1, ExpiredGood DEF Live
  <2>2. CASE n \in Live /\ ~Due(records[n], now)
    <3>1. records'[n] = [records[n] EXCEPT !.seen = now]
      BY <2>2 DEF Expire
    <3>. QED
      BY <2>0, <2>2, <3>1, <1>1, GoodSeen DEF Live
  <2>3. CASE n \notin Live
    <3>1. records'[n] = records[n]
      BY <2>3 DEF Expire
    <3>. QED
      BY <2>0, <2>3, <3>1, <1>1, GoodLater DEF Live
  <2>. QED
    BY <2>1, <2>2, <2>3
<1>3. records' \in [Mailbox -> Record]
  <2>1. \A n \in Mailbox : records'[n] \in Record
    BY <1>2 DEF GoodRecord
  <2>2. records' = [n \in Mailbox |-> records'[n]]
    BY DEF Expire
  <2>. QED
    BY <2>1, <2>2
<1>4. GoodTombstones'
  <2>1. tombstones' = tombstones
    BY DEF Expire
  <2>2. ASSUME NEW n \in Mailbox, tombstones'[n] # NoTime
        PROVE  tombstones'[n] - TombstoneRetention <= highWater'
    BY <2>1, <2>2, <1>1, ConstantTypes DEF Inv, GoodTombstones, Tombstoned
  <2>3. ASSUME NEW n \in Mailbox, records'[n].state # "ABSENT"
        PROVE  tombstones'[n] = NoTime
    BY <2>1, <2>3, <1>2 DEF Inv, GoodTombstones
  <2>. QED
    BY <2>1, <2>2, <2>3 DEF Inv, GoodTombstones, Tombstoned
<1>. QED
  BY <1>1, <1>2, <1>3, <1>4, TimeTypes DEF Inv

\* garbage_collect keeps the invariant: a removed mailbox has a tombstone
\* later than the mark, and no mailbox has both.
LEMMA GarbageCollectKeepsInv ==
    ASSUME Inv, NEW c, NEW removed, NEW now \in Time,
           GarbageCollect(c, removed, now)
    PROVE  Inv'
<1>. DEFINE kept == {m \in Tombstoned : tombstones[m] > now}
<1>1. highWater' = now /\ highWater <= now /\ highWater \in Int /\ now \in Int
  BY MarkAdvances, TimeTypes DEF Inv, GarbageCollect, SweepAllowed
<1>2. ASSUME NEW n \in Mailbox
      PROVE  /\ GoodRecord(records'[n], n, now)
             /\ records'[n].state # "ABSENT"
                  => records[n].state # "ABSENT" /\ n \notin removed
  <2>0. GoodRecord(records[n], n, highWater) /\ highWater \in Instant
    BY DEF Inv
  <2>1. CASE n \in removed
    <3>1. records'[n] = NoRecord
      BY <2>1 DEF GarbageCollect
    <3>. QED
      BY <3>1, NoRecordGood DEF NoRecord
  <2>2. CASE n \notin removed /\ n \in Live
    <3>1. records'[n] = [records[n] EXCEPT !.seen = now]
      BY <2>2 DEF GarbageCollect
    <3>. QED
      BY <2>0, <2>2, <3>1, <1>1, GoodSeen DEF Live
  <2>3. CASE n \notin removed /\ n \notin Live
    <3>1. records'[n] = records[n]
      BY <2>3 DEF GarbageCollect
    <3>. QED
      BY <2>0, <2>3, <3>1, <1>1, GoodLater DEF Live
  <2>. QED
    BY <2>1, <2>2, <2>3
<1>3. records' \in [Mailbox -> Record]
  <2>1. \A n \in Mailbox : records'[n] \in Record
    BY <1>2 DEF GoodRecord
  <2>2. records' = [n \in Mailbox |-> records'[n]]
    BY DEF GarbageCollect
  <2>. QED
    BY <2>1, <2>2
<1>4. GoodTombstones'
  <2>1. tombstones' = [n \in Mailbox |->
                          IF n \in removed THEN now + TombstoneRetention
                          ELSE IF n \in kept THEN tombstones[n]
                          ELSE NoTime]
    BY DEF GarbageCollect
  <2>2. now + TombstoneRetention \in 0..DatetimeMax
    BY ConstantTypes, TimeTypes DEF GarbageCollect, TombstoneFits
  <2>3. tombstones' \in [Mailbox -> 0..DatetimeMax \cup {NoTime}]
    BY <2>1, <2>2 DEF Inv, GoodTombstones
  <2>4. ASSUME NEW n \in Mailbox, tombstones'[n] # NoTime
        PROVE  tombstones'[n] - TombstoneRetention <= highWater'
    <3>1. CASE n \in removed
      BY <2>1, <3>1, <1>1, ConstantTypes
    <3>2. CASE n \notin removed
      <4>1. n \in kept /\ tombstones'[n] = tombstones[n]
        BY <2>1, <2>4, <3>2
      <4>. QED
        BY <4>1, <1>1, ConstantTypes DEF Inv, GoodTombstones, NoTime
    <3>. QED
      BY <3>1, <3>2
  <2>5. ASSUME NEW n \in Mailbox, records'[n].state # "ABSENT"
        PROVE  tombstones'[n] = NoTime
    BY <2>1, <2>5, <1>2 DEF Inv, GoodTombstones, Tombstoned
  <2>. QED
    BY <2>3, <2>4, <2>5 DEF GoodTombstones, Tombstoned
<1>. QED
  BY <1>1, <1>2, <1>3, <1>4, TimeTypes DEF Inv

-----------------------------------------------------------------------------
(* The repository keeps its invariant.                                     *)

\* A repository that was just built satisfies the invariant.
LEMMA InitEstablishesInv == Init => Inv
<1>. SUFFICES ASSUME Init PROVE Inv
  OBVIOUS
<1>1. \A m \in Mailbox : GoodRecord(records[m], m, highWater)
  BY NoRecordGood DEF Init
<1>2. records \in [Mailbox -> Record]
  BY <1>1 DEF Init, GoodRecord
<1>3. GoodTombstones
  BY DEF Init, GoodTombstones, Tombstoned, NoRecord
<1>. QED
  BY <1>1, <1>2, <1>3, TimeTypes DEF Init, Inv

\* Every operation of ports.py keeps the invariant.
LEMMA NextKeepsInv == Inv /\ [Next]_repository => Inv'
<1>. SUFFICES ASSUME Inv, [Next]_repository PROVE Inv'
  OBVIOUS
<1>1. ASSUME NEW now \in Time, NEW c \in Credential, ConnectorOperation(c, now)
      PROVE  Inv'
  BY <1>1, ClaimKeepsInv, StageEvidenceKeepsInv, CommitResultKeepsInv
     DEF ConnectorOperation
<1>2. ASSUME NEW now \in Time, NEW t \in CredentialTriple, CoreOperation(t, now)
      PROVE  Inv'
  BY <1>2, CreateKeepsInv, OfferKeepsInv, CollectKeepsInv,
     AcknowledgeCollectionKeepsInv, AbandonKeepsInv, SnapshotKeepsInv
     DEF CoreOperation
<1>3. ASSUME NEW now \in Time, NEW c \in Credential, MaintenanceOperation(c, now)
      PROVE  Inv'
  BY <1>3, ExpireKeepsInv, GarbageCollectKeepsInv DEF MaintenanceOperation
<1>4. CASE UNCHANGED repository
  BY <1>4 DEF repository, Inv, GoodTombstones, Tombstoned
<1>. QED
  BY <1>1, <1>2, <1>3, <1>4 DEF Next

\* The inductive invariant holds in every state the operations of volatile.py
\* reach: the three invariants below are its parts.
THEOREM Invariance == Spec => []Inv
BY InitEstablishesInv, NextKeepsInv, PTL DEF Spec

\* Every record and instant the repository keeps has its type, whatever the
\* operations of volatile.py, and no tombstone horizon overflows datetime.
THEOREM TypeCorrect == Spec => []TypeOK
<1>1. Inv => TypeOK
  BY DEF Inv, TypeOK, GoodTombstones
<1>. QED
  BY <1>1, Invariance, PTL

\* Secrets, evidence and results are kept in exactly the lifecycle states
\* that need them, and the repository's own authentication of a record
\* (_validated_record_material) never fails on what its operations left.
THEOREM LifecycleTheorem == Spec => []LifecycleValid
<1>1. Inv => LifecycleValid
  BY DEF Inv, LifecycleValid, GoodRecord, GoodLive, Live
<1>. QED
  BY <1>1, Invariance, PTL

\* No record is created, committed or finished after it was last seen, none
\* is seen after the installation's high-water mark, and a mailbox id with a
\* tombstone has no record.
THEOREM TimesTheorem == Spec => []TimesOrdered
<1>1. Inv => TimesOrdered
  BY DEF Inv, TimesOrdered, GoodRecord, GoodLive, GoodTimes, GoodTombstones,
     Live, Tombstoned
<1>. QED
  BY <1>1, Invariance, PTL

-----------------------------------------------------------------------------
(* What one step can do to one record.                                     *)

\* A record that only observes the time, or nothing.
Unmoved(r, s, now) ==
    s = r \/ (r.state # "ABSENT" /\ s = [r EXCEPT !.seen = now])

\* A record that is offered, claimed or worked on before its deadline.
Progress(r, s, now) ==
    /\ ~Due(r, now)
    /\ \/ /\ r.state = "EMPTY"
          /\ \E result \in Credential :
                s = [[r EXCEPT !.state = "OFFERED", !.material = MaterialBytes,
                               !.resultCredential = result]
                     EXCEPT !.seen = now]
       \/ r.state = "OFFERED" /\ s = [ClaimedRecord(r) EXCEPT !.seen = now]
       \/ /\ r.state = "CLAIMED_ONCE"
          /\ \E o \in Object, p \in Payload :
                s = [[r EXCEPT !.evidence[o] = p] EXCEPT !.seen = now]
       \/ /\ r.state = "CLAIMED_ONCE"
          /\ \E seals \in EvidenceMap, size \in ResultBytes :
                s = [[r EXCEPT !.state = "RESULT_COMMITTED",
                               !.collection = "READY",
                               !.result = size,
                               !.refs = seals,
                               !.manifest = Staged(r),
                               !.resultCredential = None,
                               !.committed = now]
                     EXCEPT !.seen = now]

\* A result that is delivered, then acknowledged.
Delivery(r, s, now) ==
    /\ r.state = "RESULT_COMMITTED"
    /\ \/ s = [[r EXCEPT !.collection = "DELIVERING"] EXCEPT !.seen = now]
       \/ /\ r.collection = "DELIVERING"
          /\ s = [[ReleasedPayloads(r) EXCEPT !.collection = "ACKNOWLEDGED",
                                              !.terminal = now]
                  EXCEPT !.seen = now]

\* A pending record that is given up, or a finished one that is removed.
End(r, s, now) ==
    \/ (r.state = "EXPIRED" \/ Due(r, now)) /\ s = ExpiredRecord(r, now)
    \/ /\ r.state \in Pending
       /\ s = [[ClearedMaterial(r) EXCEPT !.state = "ABANDONED",
                                          !.terminal = now]
               EXCEPT !.seen = now]
    \/ r.terminal # NoTime /\ s = NoRecord

RecordStep(r, s, now) ==
    \/ Unmoved(r, s, now)
    \/ r.state = "ABSENT" /\ \E b \in Binding, t \in CredentialTriple :
                                  s = NewRecord(b, t, now)
    \/ Progress(r, s, now)
    \/ Delivery(r, s, now)
    \/ End(r, s, now)

\* A step that changes the record of m alone.
LEMMA OthersUnmoved ==
    ASSUME records \in [Mailbox -> Record], NEW m \in Mailbox, NEW s, NEW now,
           records' = [records EXCEPT ![m] = s], RecordStep(records[m], s, now)
    PROVE  \A n \in Mailbox : RecordStep(records[n], records'[n], now)
<1>. SUFFICES ASSUME NEW n \in Mailbox
              PROVE  RecordStep(records[n], records'[n], now)
  OBVIOUS
<1>1. CASE n = m
  BY <1>1
<1>2. CASE n # m
  BY <1>2 DEF RecordStep, Unmoved
<1>. QED
  BY <1>1, <1>2

\* A denial for a passed deadline is a legal step of every record.
LEMMA DenialStep ==
    ASSUME Inv, NEW m \in Mailbox, NEW now, DeniedAsExpired(m, now)
    PROVE  \A n \in Mailbox : RecordStep(records[n], records'[n], now)
<1>1. RecordStep(records[m], ExpiredRecord(records[m], now), now)
  BY DEF DeniedAsExpired, IsExpired, RecordStep, End
<1>. QED
  BY <1>1, OthersUnmoved DEF DeniedAsExpired, Inv

\* The operations of the connector are legal steps of every record.
LEMMA ConnectorSteps ==
    ASSUME Inv, NEW now \in Time, NEW c, ConnectorOperation(c, now)
    PROVE  /\ \A n \in Mailbox : RecordStep(records[n], records'[n], now)
           /\ highWater' = now /\ now >= highWater
<1>0. PICK b \in Binding :
         \/ Claim(b, c, now)
         \/ \E o \in Object, p \in Payload : StageEvidence(b, c, o, p, now)
         \/ \E seals \in EvidenceMap, size \in ResultBytes :
                CommitResult(b, c, seals, size, now)
  BY DEF ConnectorOperation
<1>. DEFINE m == b.mailbox
            r == records[m]
<1>. m \in Mailbox
  BY BindingTypes
<1>1. InstallationNow(now) /\ AdvanceInstallationTime(now)
  BY <1>0 DEF Claim, StageEvidence, CommitResult, Accessible, DeniedAsExpired,
     Observe
<1>2. highWater' = now /\ now >= highWater
  BY <1>1, MarkAdvances DEF Inv, InstallationNow
<1>3. CASE DeniedAsExpired(m, now)
  BY <1>2, <1>3, DenialStep
<1>4. CASE Claim(b, c, now) /\ ~DeniedAsExpired(m, now)
  <2>1. /\ ~Due(r, now) /\ r.state = "OFFERED"
        /\ records' = [records EXCEPT ![m] = [ClaimedRecord(r) EXCEPT !.seen = now]]
    BY <1>4 DEF Claim, Observe, IsExpired
  <2>2. RecordStep(r, [ClaimedRecord(r) EXCEPT !.seen = now], now)
    BY <2>1 DEF RecordStep, Progress
  <2>. QED
    BY <1>2, <2>1, <2>2, OthersUnmoved DEF Inv
<1>5. ASSUME NEW o \in Object, NEW p \in Payload, StageEvidence(b, c, o, p, now),
             ~DeniedAsExpired(m, now)
      PROVE  \A n \in Mailbox : RecordStep(records[n], records'[n], now)
  <2>. DEFINE s == [[r EXCEPT !.evidence[o] = p] EXCEPT !.seen = now]
  <2>1. /\ ~Due(r, now) /\ r.state = "CLAIMED_ONCE"
        /\ records' = [records EXCEPT ![m] = s]
    BY <1>5 DEF StageEvidence, ResultAccess, Observe, IsExpired
  <2>2. RecordStep(r, s, now)
    BY <2>1 DEF RecordStep, Progress
  <2>. HIDE DEF s
  <2>. QED
    BY <2>1, <2>2, OthersUnmoved DEF Inv
<1>6. ASSUME NEW seals \in EvidenceMap, NEW size \in ResultBytes,
             CommitResult(b, c, seals, size, now), ~DeniedAsExpired(m, now)
      PROVE  \A n \in Mailbox : RecordStep(records[n], records'[n], now)
  <2>. DEFINE s == [[r EXCEPT !.state = "RESULT_COMMITTED",
                              !.collection = "READY",
                              !.result = size,
                              !.refs = seals,
                              !.manifest = Staged(r),
                              !.resultCredential = None,
                              !.committed = now]
                    EXCEPT !.seen = now]
  <2>1. /\ ~Due(r, now) /\ r.state = "CLAIMED_ONCE"
        /\ records' = [records EXCEPT ![m] = s]
    BY <1>6 DEF CommitResult, ResultAccess, Observe, IsExpired
  <2>2. RecordStep(r, s, now)
    BY <2>1 DEF RecordStep, Progress
  <2>. HIDE DEF s
  <2>. QED
    BY <2>1, <2>2, OthersUnmoved DEF Inv
<1>. QED
  BY <1>0, <1>2, <1>3, <1>4, <1>5, <1>6

\* The operations of the core are legal steps of every record.
LEMMA CoreSteps ==
    ASSUME Inv, NEW now \in Time, NEW t \in CredentialTriple,
           CoreOperation(t, now)
    PROVE  /\ \A n \in Mailbox : RecordStep(records[n], records'[n], now)
           /\ highWater' = now /\ now >= highWater
<1>1. ASSUME NEW b \in Binding, Create(b, t, now)
      PROVE  \A n \in Mailbox : RecordStep(records[n], records'[n], now)
  <2>1. b.mailbox \in Mailbox
    BY BindingTypes
  <2>2. RecordStep(records[b.mailbox], NewRecord(b, t, now), now)
    BY <1>1, <2>1 DEF Create, Live, RecordStep
  <2>. QED
    BY <1>1, <2>1, <2>2, OthersUnmoved DEF Create, Inv
<1>2. ASSUME NEW b \in Binding, NEW result \in IssuedCredential,
             Offer(b, t, result, now)
      PROVE  \A n \in Mailbox : RecordStep(records[n], records'[n], now)
  <2>. DEFINE m == b.mailbox
              s == [[records[m] EXCEPT !.state = "OFFERED",
                                       !.material = MaterialBytes,
                                       !.resultCredential = result]
                    EXCEPT !.seen = now]
  <2>1. m \in Mailbox /\ result \in Credential
    BY BindingTypes, CredentialAssumption
  <2>2. CASE DeniedAsExpired(m, now)
    BY <2>1, <2>2, DenialStep
  <2>3. CASE ~DeniedAsExpired(m, now)
    <3>1. /\ ~Due(records[m], now) /\ records[m].state = "EMPTY"
          /\ records' = [records EXCEPT ![m] = s]
      BY <1>2, <2>3 DEF Offer, Observe, IsExpired
    <3>2. RecordStep(records[m], s, now)
      BY <2>1, <3>1 DEF RecordStep, Progress
    <3>. HIDE DEF s
    <3>. QED
      BY <2>1, <3>1, <3>2, OthersUnmoved DEF Inv
  <2>. QED
    BY <2>2, <2>3
<1>3. ASSUME NEW m \in Mailbox, Collect(m, t.collection, now)
      PROVE  \A n \in Mailbox : RecordStep(records[n], records'[n], now)
  <2>. DEFINE s == [[records[m] EXCEPT !.collection = "DELIVERING"]
                    EXCEPT !.seen = now]
  <2>1. records' = [records EXCEPT ![m] = s] /\ RecordStep(records[m], s, now)
    BY <1>3 DEF Collect, Observe, RecordStep, Delivery
  <2>. HIDE DEF s
  <2>. QED
    BY <2>1, OthersUnmoved DEF Inv
<1>4. ASSUME NEW m \in Mailbox, AcknowledgeCollection(m, t.collection, now)
      PROVE  \A n \in Mailbox : RecordStep(records[n], records'[n], now)
  <2>. DEFINE r == records[m]
              s == [[ReleasedPayloads(r) EXCEPT !.collection = "ACKNOWLEDGED",
                                                !.terminal = now]
                    EXCEPT !.seen = now]
  <2>1. CASE records' = [records EXCEPT ![m] = [r EXCEPT !.seen = now]]
    <3>1. RecordStep(r, [r EXCEPT !.seen = now], now)
      BY <1>4 DEF AcknowledgeCollection, Accessible, RecordStep, Unmoved
    <3>. QED
      BY <2>1, <3>1, OthersUnmoved DEF Inv
  <2>2. CASE /\ r.state = "RESULT_COMMITTED" /\ r.collection = "DELIVERING"
             /\ records' = [records EXCEPT ![m] = s]
    <3>1. RecordStep(r, s, now)
      BY <2>2 DEF RecordStep, Delivery
    <3>. HIDE DEF s
    <3>. QED
      BY <2>2, <3>1, OthersUnmoved DEF Inv
  <2>. QED
    BY <1>4, <2>1, <2>2 DEF AcknowledgeCollection, Observe
<1>5. ASSUME NEW m \in Mailbox, Abandon(m, t.collection, now)
      PROVE  \A n \in Mailbox : RecordStep(records[n], records'[n], now)
  <2>. DEFINE r == records[m]
              s == [[ClearedMaterial(r) EXCEPT !.state = "ABANDONED",
                                               !.terminal = now]
                    EXCEPT !.seen = now]
  <2>1. CASE DeniedAsExpired(m, now)
    BY <2>1, DenialStep
  <2>2. CASE r.state \in Pending /\ records' = [records EXCEPT ![m] = s]
    <3>1. RecordStep(r, s, now)
      BY <2>2 DEF RecordStep, End
    <3>. HIDE DEF s
    <3>. QED
      BY <2>2, <3>1, OthersUnmoved DEF Inv
  <2>. QED
    BY <1>5, <2>1, <2>2 DEF Abandon, Observe
<1>6. ASSUME NEW m \in Mailbox, Snapshot(m, t.collection, now)
      PROVE  \A n \in Mailbox : RecordStep(records[n], records'[n], now)
  <2>. DEFINE r == records[m]
  <2>1. CASE DeniedAsExpired(m, now)
    BY <2>1, DenialStep
  <2>2. CASE records' = [records EXCEPT ![m] = [r EXCEPT !.seen = now]]
    <3>1. RecordStep(r, [r EXCEPT !.seen = now], now)
      BY <1>6 DEF Snapshot, Accessible, RecordStep, Unmoved
    <3>. QED
      BY <2>2, <3>1, OthersUnmoved DEF Inv
  <2>. QED
    BY <1>6, <2>1, <2>2 DEF Snapshot, Observe
<1>7. InstallationNow(now) /\ AdvanceInstallationTime(now)
  BY DEF CoreOperation, Create, Offer, Collect, AcknowledgeCollection, Abandon,
     Snapshot, Accessible, DeniedAsExpired, Observe
<1>8. highWater' = now /\ now >= highWater
  BY <1>7, MarkAdvances DEF Inv, InstallationNow
<1>. QED
  BY <1>1, <1>2, <1>3, <1>4, <1>5, <1>6, <1>8 DEF CoreOperation

\* expire and garbage_collect are legal steps of every record.
LEMMA MaintenanceSteps ==
    ASSUME Inv, NEW now \in Time, NEW c, MaintenanceOperation(c, now)
    PROVE  /\ \A n \in Mailbox : RecordStep(records[n], records'[n], now)
           /\ highWater' = now /\ now >= highWater
<1>1. ASSUME Expire(c, now), NEW n \in Mailbox
      PROVE  RecordStep(records[n], records'[n], now)
  BY <1>1 DEF Expire, Live, RecordStep, End, Unmoved
<1>2. ASSUME NEW removed, GarbageCollect(c, removed, now), NEW n \in Mailbox
      PROVE  RecordStep(records[n], records'[n], now)
  BY <1>2 DEF GarbageCollect, RemovedBySweep, Collectable, Live, RecordStep,
     End, Unmoved
<1>3. InstallationNow(now) /\ AdvanceInstallationTime(now)
  BY DEF MaintenanceOperation, Expire, GarbageCollect, SweepAllowed
<1>4. highWater' = now /\ now >= highWater
  BY <1>3, MarkAdvances DEF Inv, InstallationNow
<1>. QED
  BY <1>1, <1>2, <1>4 DEF MaintenanceOperation

\* Every operation is.
LEMMA NextSteps ==
    ASSUME Inv, Next
    PROVE  /\ \A n \in Mailbox : RecordStep(records[n], records'[n], highWater')
           /\ highWater' >= highWater
BY ConnectorSteps, CoreSteps, MaintenanceSteps DEF Next

\* A record that is on offer was on offer with the same secret, or empty, and
\* a claim leaves the secret where it was.
LEMMA OfferSteps ==
    ASSUME NEW r \in Record, NEW s, NEW now, RecordStep(r, s, now)
    PROVE  /\ s.state = "OFFERED" =>
                  \/ r.state = "EMPTY"
                  \/ /\ r.state = "OFFERED"
                     /\ s.resultCredential = r.resultCredential
           /\ r.state = "OFFERED" /\ s.state = "CLAIMED_ONCE" =>
                  s.resultCredential = r.resultCredential
<1>1. CASE Unmoved(r, s, now)
  BY <1>1 DEF Unmoved, Record
<1>2. ASSUME NEW b, NEW t, s = NewRecord(b, t, now)
      PROVE  s.state = "EMPTY"
  BY <1>2 DEF NewRecord, NoRecord
<1>3. CASE Progress(r, s, now)
  BY <1>3 DEF Progress, ClaimedRecord, Record
<1>4. CASE Delivery(r, s, now)
  BY <1>4 DEF Delivery, ReleasedPayloads, Record
<1>5. CASE End(r, s, now)
  <2>1. CASE s = ExpiredRecord(r, now) /\ r.state = "EXPIRED"
    BY <2>1 DEF ExpiredRecord, Record
  <2>2. CASE s = ExpiredRecord(r, now) /\ r.state # "EXPIRED"
    <3>1. s.state = "EXPIRED"
      BY <2>2 DEF ExpiredRecord, ClearedMaterial, ReleasedPayloads, Record
    <3>. QED
      BY <3>1
  <2>3. CASE s = [[ClearedMaterial(r) EXCEPT !.state = "ABANDONED",
                                            !.terminal = now]
                  EXCEPT !.seen = now]
    <3>1. s.state = "ABANDONED"
      BY <2>3 DEF ClearedMaterial, ReleasedPayloads, Record
    <3>. QED
      BY <3>1
  <2>4. CASE s = NoRecord
    BY <2>4 DEF NoRecord
  <2>. QED
    BY <1>5, <2>1, <2>2, <2>3, <2>4 DEF End
<1>. QED
  BY <1>1, <1>2, <1>3, <1>4, <1>5 DEF RecordStep

\* A committed result is never lost or altered before its acknowledgement,
\* whatever deadlines pass and whatever the sweeps and other callers do.
THEOREM ResultTheorem == Spec => ResultSurvives
<1>1. ASSUME NEW r \in Record, NEW s, NEW now, Shape(r), RecordStep(r, s, now)
      PROVE  KeepsResult(r, s)
  <2>. SUFFICES ASSUME r.state = "RESULT_COMMITTED",
                       r.collection # "ACKNOWLEDGED"
                PROVE  KeepsResult(r, s)
    BY DEF KeepsResult
  <2>1. r.terminal = NoTime
    BY <1>1 DEF Shape, Finished
  <2>2. ~End(r, s, now)
    BY <2>1 DEF End, Due, Pending
  <2>3. ~Progress(r, s, now)
    BY DEF Progress
  <2>4. CASE Unmoved(r, s, now)
    BY <2>4 DEF Unmoved, KeepsResult, Record
  <2>5. CASE Delivery(r, s, now)
    BY <2>5 DEF Delivery, KeepsResult, Record, ReleasedPayloads
  <2>. QED
    BY <1>1, <2>2, <2>3, <2>4, <2>5 DEF RecordStep
<1>2. Inv /\ [Next]_repository
         => [\A m \in Mailbox : KeepsResult(records[m], records'[m])]_repository
  BY <1>1, NextSteps DEF Inv, GoodRecord
<1>. QED
  BY <1>2, Invariance, PTL DEF Spec, ResultSurvives

\* Nothing is offered, claimed, staged or committed behind a deadline that any
\* operation on any mailbox has already observed, and the instant observed last is
\* never set back (_validated_installation_now, _expire_if_due).
THEOREM DeadlineTheorem == Spec => DeadlinesHold
<1>1. ASSUME NEW r \in Record, NEW s, NEW now \in Int, RecordStep(r, s, now),
             r.state # "ABSENT" => r.binding \in Binding
      PROVE  MeetsDeadline(r, s, now)
  <2>. SUFFICES ASSUME \/ r.state = "EMPTY" /\ s.state = "OFFERED"
                       \/ r.state = "OFFERED" /\ s.state = "CLAIMED_ONCE"
                       \/ /\ r.state = "CLAIMED_ONCE" /\ s.state = "CLAIMED_ONCE"
                          /\ s.evidence # r.evidence
                       \/ r.state = "CLAIMED_ONCE" /\ s.state = "RESULT_COMMITTED"
                PROVE  MeetsDeadline(r, s, now)
    BY DEF MeetsDeadline
  <2>1. ~Unmoved(r, s, now)
    BY DEF Unmoved, Record
  <2>2. ~End(r, s, now)
    <3>1. ExpiredRecord(r, now).state = "EXPIRED"
      BY DEF ExpiredRecord, ClearedMaterial, ReleasedPayloads, Record
    <3>2. [[ClearedMaterial(r) EXCEPT !.state = "ABANDONED", !.terminal = now]
           EXCEPT !.seen = now].state = "ABANDONED"
      BY DEF ClearedMaterial, ReleasedPayloads, Record
    <3>3. NoRecord.state = "ABSENT"
      BY DEF NoRecord
    <3>. QED
      BY <3>1, <3>2, <3>3 DEF End
  <2>3. Progress(r, s, now)
    BY <1>1, <2>1, <2>2 DEF RecordStep, Delivery
  <2>4. ~Due(r, now)
    BY <2>3 DEF Progress
  <2>5. r.binding.claimDeadline \in Int /\ r.binding.deadline \in Int
    BY <1>1, BindingTypes
  <2>. QED
    BY <2>4, <2>5 DEF Due, DeadlineOf, Pending, MeetsDeadline
<1>2. Inv /\ Next => highWater' \in Int /\ highWater \in Int /\ highWater <= highWater'
  BY NextKeepsInv, NextSteps, TimeTypes DEF Inv
<1>3. Inv /\ [Next]_repository
         => [/\ highWater <= highWater'
             /\ \A m \in Mailbox :
                   MeetsDeadline(records[m], records'[m], highWater')]_repository
  BY <1>1, <1>2, NextSteps DEF Inv, GoodRecord, GoodLive
<1>. QED
  BY <1>3, Invariance, PTL DEF Spec, DeadlinesHold

-----------------------------------------------------------------------------
(* Credentials.                                                            *)

\* The roles of one live record: the three credentials it was created with,
\* and perhaps a result credential, all different.
OwnRoles(r) ==
    /\ {r.action, r.claim, r.collect} \subseteq Credential
    /\ Maintenance \notin CredentialsOf(r)
    /\ r.action # r.claim /\ r.action # r.collect /\ r.claim # r.collect
    /\ r.resultCredential \notin {r.action, r.claim, r.collect}

\* The inductive form of CredentialsDistinct.
CredentialInv ==
    \A m \in Mailbox :
        records[m].state # "ABSENT" =>
            /\ OwnRoles(records[m])
            /\ \A n \in Mailbox \ {m} :
                  records[n].state # "ABSENT" =>
                      CredentialsOf(records[m]) \cap CredentialsOf(records[n]) = {}

\* The record r becomes s without gaining a credential.
RolesKept(r, s) ==
    s.state # "ABSENT" =>
        /\ r.state # "ABSENT"
        /\ s.action = r.action /\ s.claim = r.claim /\ s.collect = r.collect
        /\ s.resultCredential \in {r.resultCredential, None}

\* Every operation but create and offer.
LEMMA RolesKeptKeepsCredentials ==
    ASSUME CredentialInv,
           \A n \in Mailbox : RolesKept(records[n], records'[n])
    PROVE  CredentialInv'
<1>1. ASSUME NEW r, NEW s, RolesKept(r, s), s.state # "ABSENT"
      PROVE  CredentialsOf(s) \subseteq CredentialsOf(r)
  BY <1>1 DEF RolesKept, CredentialsOf
<1>2. ASSUME NEW r, NEW s, RolesKept(r, s), s.state # "ABSENT", OwnRoles(r)
      PROVE  OwnRoles(s)
  BY <1>1, <1>2, NoneAssumption DEF RolesKept, OwnRoles
<1>3. \A n \in Mailbox : records'[n].state # "ABSENT" => records[n].state # "ABSENT"
  BY DEF RolesKept
<1>4. ASSUME NEW m \in Mailbox, records'[m].state # "ABSENT"
      PROVE  OwnRoles(records'[m])
  BY <1>2, <1>3, <1>4 DEF CredentialInv
<1>5. ASSUME NEW m \in Mailbox, records'[m].state # "ABSENT",
             NEW n \in Mailbox \ {m}, records'[n].state # "ABSENT"
      PROVE  CredentialsOf(records'[m]) \cap CredentialsOf(records'[n]) = {}
  <2>1. CredentialsOf(records[m]) \cap CredentialsOf(records[n]) = {}
    BY <1>3, <1>5 DEF CredentialInv
  <2>2. /\ CredentialsOf(records'[m]) \subseteq CredentialsOf(records[m])
        /\ CredentialsOf(records'[n]) \subseteq CredentialsOf(records[n])
    BY <1>1, <1>5
  <2>. QED
    BY <2>1, <2>2
<1>. QED
  BY <1>4, <1>5 DEF CredentialInv

\* An operation that gives one mailbox no new credential.
LEMMA OneRecordKeepsCredentials ==
    ASSUME records \in [Mailbox -> Record], NEW m \in Mailbox, NEW s,
           records' = [records EXCEPT ![m] = s], RolesKept(records[m], s),
           CredentialInv
    PROVE  CredentialInv'
<1>1. \A n \in Mailbox : RolesKept(records[n], records'[n])
  BY DEF RolesKept
<1>. QED
  BY <1>1, RolesKeptKeepsCredentials

\* A denial for a passed deadline gives no mailbox a new credential.
LEMMA DenialKeepsCredentials ==
    ASSUME Inv, CredentialInv, NEW m \in Mailbox, NEW now,
           DeniedAsExpired(m, now)
    PROVE  CredentialInv'
<1>1. RolesKept(records[m], ExpiredRecord(records[m], now))
  <2>1. records[m] \in Record /\ records[m].state # "ABSENT"
    BY DEF Inv, DeniedAsExpired, IsExpired, Due, Pending
  <2>. QED
    BY <2>1 DEF RolesKept, ExpiredRecord, ClearedMaterial, ReleasedPayloads, Record
<1>. QED
  BY <1>1, OneRecordKeepsCredentials DEF DeniedAsExpired, Inv

\* create: _credential_in_use has compared the digest with every live one.
LEMMA CreateKeepsCredentials ==
    ASSUME Inv, CredentialInv, NEW b \in Binding, NEW t \in CredentialTriple,
           NEW now, Create(b, t, now)
    PROVE  CredentialInv'
<1>. DEFINE m == b.mailbox
            s == NewRecord(b, t, now)
<1>1. m \in Mailbox /\ m \notin Live
  BY BindingTypes DEF Create
<1>2. {t.action, t.claim, t.collection} \subseteq Credential
  BY CredentialAssumption
<1>3. /\ s.action = t.action /\ s.claim = t.claim /\ s.collect = t.collection
      /\ s.resultCredential = None
      /\ CredentialsOf(s) = {t.action, t.claim, t.collection}
  BY <1>2, NoneAssumption DEF NewRecord, NoRecord, CredentialsOf
<1>4. /\ records'[m] = s
      /\ \A n \in Mailbox \ {m} : records'[n] = records[n]
  BY <1>1 DEF Create, Inv
<1>5. \A c \in CredentialsOf(s) : \A n \in Live : c \notin CredentialsOf(records[n])
  BY <1>3 DEF Create, CredentialInUse
<1>6. OwnRoles(s)
  BY <1>2, <1>3, NoneAssumption DEF Create, OwnRoles
<1>. HIDE DEF s
<1>7. ASSUME NEW n \in Mailbox, records'[n].state # "ABSENT"
      PROVE  OwnRoles(records'[n])
  BY <1>4, <1>6, <1>7 DEF CredentialInv
<1>8. ASSUME NEW n \in Mailbox, records'[n].state # "ABSENT",
             NEW k \in Mailbox \ {n}, records'[k].state # "ABSENT"
      PROVE  CredentialsOf(records'[n]) \cap CredentialsOf(records'[k]) = {}
  BY <1>4, <1>5, <1>8 DEF Live, CredentialInv
<1>. QED
  BY <1>7, <1>8 DEF CredentialInv

\* offer: the two new digests differ and neither is in use.
LEMMA OfferKeepsCredentials ==
    ASSUME Inv, CredentialInv, NEW b \in Binding, NEW t,
           NEW result \in IssuedCredential, NEW now, Offer(b, t, result, now)
    PROVE  CredentialInv'
<1>. DEFINE m == b.mailbox
            r == records[m]
            s == [[r EXCEPT !.state = "OFFERED", !.material = MaterialBytes,
                            !.resultCredential = result]
                  EXCEPT !.seen = now]
<1>1. m \in Mailbox /\ m \in Live /\ r \in Record /\ result # None
  BY BindingTypes, CredentialAssumption, NoneAssumption
     DEF Offer, Accessible, Live, Inv
<1>2. CASE DeniedAsExpired(m, now)
  BY <1>1, <1>2, DenialKeepsCredentials
<1>3. CASE records' = [records EXCEPT ![m] = s]
  <2>1. /\ s.action = r.action /\ s.claim = r.claim /\ s.collect = r.collect
        /\ s.resultCredential = result
        /\ CredentialsOf(s) \subseteq CredentialsOf(r) \cup {result}
    BY <1>1 DEF Record, CredentialsOf
  <2>. HIDE DEF s
  <2>2. /\ records'[m] = s
        /\ \A n \in Mailbox \ {m} : records'[n] = records[n]
    BY <1>1, <1>3 DEF Inv
  <2>3. /\ result \notin {r.action, r.claim, r.collect}
        /\ result # Maintenance
        /\ \A n \in Live \ {m} : result \notin CredentialsOf(records[n])
    BY DEF Offer, CredentialInUse
  <2>4. OwnRoles(s)
    BY <1>1, <2>1, <2>3 DEF Live, CredentialInv, OwnRoles
  <2>5. ASSUME NEW n \in Mailbox, records'[n].state # "ABSENT"
        PROVE  OwnRoles(records'[n])
    BY <2>2, <2>4, <2>5 DEF CredentialInv
  <2>6. ASSUME NEW n \in Mailbox, records'[n].state # "ABSENT",
               NEW k \in Mailbox \ {n}, records'[k].state # "ABSENT"
        PROVE  CredentialsOf(records'[n]) \cap CredentialsOf(records'[k]) = {}
    BY <1>1, <2>1, <2>2, <2>3, <2>6 DEF Live, CredentialInv
  <2>. QED
    BY <2>5, <2>6 DEF CredentialInv
<1>. QED
  BY <1>2, <1>3 DEF Offer, Observe

\* claim, stage_evidence and commit_result give no mailbox a new credential.
LEMMA ConnectorKeepsCredentials ==
    ASSUME Inv, CredentialInv, NEW c, NEW now, ConnectorOperation(c, now)
    PROVE  CredentialInv'
<1>0. PICK b \in Binding :
         \/ Claim(b, c, now)
         \/ \E o \in Object, p \in Payload : StageEvidence(b, c, o, p, now)
         \/ \E seals \in EvidenceMap, size \in ResultBytes :
                CommitResult(b, c, seals, size, now)
  BY DEF ConnectorOperation
<1>. DEFINE m == b.mailbox
            r == records[m]
<1>1. m \in Mailbox /\ r \in Record /\ r.state # "ABSENT"
  BY <1>0, BindingTypes
     DEF Claim, StageEvidence, CommitResult, Accessible, Inv
<1>2. CASE DeniedAsExpired(m, now)
  BY <1>1, <1>2, DenialKeepsCredentials
<1>3. CASE Claim(b, c, now) /\ ~DeniedAsExpired(m, now)
  <2>1. RolesKept(r, [ClaimedRecord(r) EXCEPT !.seen = now])
    BY <1>1 DEF RolesKept, ClaimedRecord, Record
  <2>. QED
    BY <1>1, <1>3, <2>1, OneRecordKeepsCredentials DEF Claim, Observe, Inv
<1>4. ASSUME NEW o \in Object, NEW p \in Payload, StageEvidence(b, c, o, p, now),
             ~DeniedAsExpired(m, now)
      PROVE  CredentialInv'
  <2>1. RolesKept(r, [[r EXCEPT !.evidence[o] = p] EXCEPT !.seen = now])
    BY <1>1 DEF RolesKept, Record
  <2>. QED
    BY <1>1, <1>4, <2>1, OneRecordKeepsCredentials DEF StageEvidence, Observe, Inv
<1>5. ASSUME NEW seals \in EvidenceMap, NEW size \in ResultBytes,
             CommitResult(b, c, seals, size, now), ~DeniedAsExpired(m, now)
      PROVE  CredentialInv'
  <2>. DEFINE s == [[r EXCEPT !.state = "RESULT_COMMITTED",
                              !.collection = "READY",
                              !.result = size,
                              !.refs = seals,
                              !.manifest = Staged(r),
                              !.resultCredential = None,
                              !.committed = now]
                    EXCEPT !.seen = now]
  <2>1. RolesKept(r, s)
    BY <1>1 DEF RolesKept, Record
  <2>2. records' = [records EXCEPT ![m] = s]
    BY <1>5 DEF CommitResult, Observe
  <2>. HIDE DEF s
  <2>. QED
    BY <1>1, <2>1, <2>2, OneRecordKeepsCredentials DEF Inv
<1>. QED
  BY <1>0, <1>2, <1>3, <1>4, <1>5

\* Nor do collect, acknowledge_collection, abandon and snapshot.
LEMMA CoreAccessKeepsCredentials ==
    ASSUME Inv, CredentialInv, NEW m \in Mailbox, NEW c, NEW now,
           \/ Collect(m, c, now) \/ AcknowledgeCollection(m, c, now)
           \/ Abandon(m, c, now) \/ Snapshot(m, c, now)
    PROVE  CredentialInv'
<1>. DEFINE r == records[m]
<1>1. r \in Record /\ r.state # "ABSENT"
  BY DEF Collect, AcknowledgeCollection, Abandon, Snapshot, Accessible, Inv
<1>2. CASE DeniedAsExpired(m, now)
  BY <1>2, DenialKeepsCredentials
<1>3. CASE Observe(m, r, now)
  <2>1. RolesKept(r, [r EXCEPT !.seen = now])
    BY <1>1 DEF RolesKept, Record
  <2>. QED
    BY <1>3, <2>1, OneRecordKeepsCredentials DEF Observe, Inv
<1>4. CASE Collect(m, c, now)
  <2>1. RolesKept(r, [[r EXCEPT !.collection = "DELIVERING"] EXCEPT !.seen = now])
    BY <1>1 DEF RolesKept, Record
  <2>. QED
    BY <1>4, <2>1, OneRecordKeepsCredentials DEF Collect, Observe, Inv
<1>5. CASE AcknowledgeCollection(m, c, now) /\ ~Observe(m, r, now)
  <2>. DEFINE s == [[ReleasedPayloads(r) EXCEPT !.collection = "ACKNOWLEDGED",
                                                !.terminal = now]
                    EXCEPT !.seen = now]
  <2>1. RolesKept(r, s)
    BY <1>1 DEF RolesKept, Record, ReleasedPayloads
  <2>2. records' = [records EXCEPT ![m] = s]
    BY <1>5 DEF AcknowledgeCollection, Observe
  <2>. HIDE DEF s
  <2>. QED
    BY <2>1, <2>2, OneRecordKeepsCredentials DEF Inv
<1>6. CASE Abandon(m, c, now) /\ ~DeniedAsExpired(m, now)
  <2>. DEFINE s == [[ClearedMaterial(r) EXCEPT !.state = "ABANDONED",
                                               !.terminal = now]
                    EXCEPT !.seen = now]
  <2>1. RolesKept(r, s)
    BY <1>1 DEF RolesKept, Record, ClearedMaterial, ReleasedPayloads
  <2>2. records' = [records EXCEPT ![m] = s]
    BY <1>6 DEF Abandon, Observe
  <2>. HIDE DEF s
  <2>. QED
    BY <2>1, <2>2, OneRecordKeepsCredentials DEF Inv
<1>7. Snapshot(m, c, now) => DeniedAsExpired(m, now) \/ Observe(m, r, now)
  BY DEF Snapshot
<1>. QED
  BY <1>2, <1>3, <1>4, <1>5, <1>6, <1>7

\* Nor do expire and garbage_collect.
LEMMA SweepKeepsCredentials ==
    ASSUME Inv, CredentialInv, NEW c, NEW now, MaintenanceOperation(c, now)
    PROVE  CredentialInv'
<1>1. ASSUME NEW n \in Mailbox
      PROVE  RolesKept(records[n], records'[n])
  <2>1. records[n] \in Record
    BY DEF Inv
  <2>2. RolesKept(records[n], records[n]) /\ RolesKept(records[n], NoRecord)
    BY DEF RolesKept, NoRecord
  <2>3. n \in Live => RolesKept(records[n], [records[n] EXCEPT !.seen = now])
    BY <2>1 DEF RolesKept, Record, Live
  <2>4. n \in Live => RolesKept(records[n], ExpiredRecord(records[n], now))
    BY <2>1 DEF RolesKept, Record, Live, ExpiredRecord, ClearedMaterial,
       ReleasedPayloads
  <2>. QED
    BY <2>2, <2>3, <2>4 DEF MaintenanceOperation, Expire, GarbageCollect
<1>. QED
  BY <1>1, RolesKeptKeepsCredentials

\* Every operation keeps the roles apart.
LEMMA NextKeepsCredentials ==
    ASSUME Inv, CredentialInv, [Next]_repository
    PROVE  CredentialInv'
<1>1. ASSUME NEW now, NEW t \in CredentialTriple, CoreOperation(t, now)
      PROVE  CredentialInv'
  BY <1>1, CreateKeepsCredentials, OfferKeepsCredentials,
     CoreAccessKeepsCredentials DEF CoreOperation
<1>2. CASE UNCHANGED repository
  BY <1>2 DEF repository, CredentialInv
<1>. QED
  BY <1>1, <1>2, ConnectorKeepsCredentials, SweepKeepsCredentials DEF Next

\* The inductive form of the next theorem: every live record's roles differ
\* from each other and from those of all other live records.
THEOREM CredentialInvariance == Spec => []CredentialInv
<1>1. Init => CredentialInv
  BY DEF Init, CredentialInv, NoRecord
<1>2. Inv /\ CredentialInv /\ [Next]_repository => CredentialInv'
  BY NextKeepsCredentials
<1>. QED
  BY <1>1, <1>2, Invariance, PTL DEF Spec

\* While their mailboxes live, no two roles of one mailbox, no roles of two
\* mailboxes and no role but maintenance itself share a credential: the
\* checks create and offer make are enough.
THEOREM CredentialTheorem == Spec => []CredentialsDistinct
<1>1. CredentialInv => CredentialsDistinct
  BY DEF CredentialInv, CredentialsDistinct, OwnRoles, CredentialInUse, Live
<1>. QED
  BY <1>1, CredentialInvariance, PTL

-----------------------------------------------------------------------------
(* Sums.  The model's counters are compared with folds over sets of        *)
(* records.  A fold takes its elements in an order of its own, so what it  *)
(* adds up to when one element changes is a fact about sums, proved here   *)
(* for the sum of a function over a finite set.                            *)

\* The element a fold over s takes first.
FirstOf(s) == CHOOSE x \in s : TRUE

\* G holds the sum of g over every subset of S.
SumTable(g, S, G) ==
    G = [s \in SUBSET S |-> IF s = {} THEN 0
                            ELSE g[FirstOf(s)] + G[s \ {FirstOf(s)}]]

\* The sum of g over S.
SumOf(g, S) == (CHOOSE G : SumTable(g, S, G))[S]

\* Induction over the subsets of a finite set.
LEMMA SubsetInduction ==
    ASSUME NEW S, IsFiniteSet(S), NEW Z,
           \A T \in SUBSET S : (\A V \in (SUBSET T) \ {T} : V \in Z) => T \in Z
    PROVE  \A T \in SUBSET S : T \in Z
<1>. SUFFICES ASSUME (SUBSET S) \ Z # {} PROVE FALSE
  OBVIOUS
<1>. DEFINE R == StrictSubsetOrdering(S)
<1>1. IsWellFoundedOn(R, SUBSET S)
  <2>1. IsWellFoundedOn(R, FiniteSubsetsOf(S))
    BY FS_StrictSubsetOrderingWellFounded
  <2>2. FiniteSubsetsOf(S) = SUBSET S
    BY FS_FiniteSubsetsOfFinite
  <2>. HIDE DEF R
  <2>. QED
    BY <2>1, <2>2
<1>2. PICK T \in (SUBSET S) \ Z : \A V \in (SUBSET S) \ Z : ~(<<V, T>> \in R)
  <2>. DEFINE B == (SUBSET S) \ Z
  <2>1. B \subseteq SUBSET S /\ B # {}
    OBVIOUS
  <2>. HIDE DEF R, B
  <2>2. \E T \in B : \A V \in B : ~(<<V, T>> \in R)
    BY <1>1, <2>1, WFMin
  <2>. QED
    BY <2>2 DEF B
<1>3. ASSUME NEW V \in (SUBSET T) \ {T} PROVE V \in Z
  <2>1. V \in SUBSET S
    OBVIOUS
  <2>2. <<V, T>> \in (SUBSET S) \X (SUBSET S) /\ V \subseteq T /\ V # T
    BY <2>1
  <2>3. <<V, T>> \in R
    BY <2>2 DEF StrictSubsetOrdering
  <2>. QED
    BY <1>2, <2>1, <2>3
<1>. QED
  BY <1>2, <1>3

\* The first element of a set that is not empty is one of its elements.
LEMMA FirstIsElement == \A s : s # {} => FirstOf(s) \in s
BY DEF FirstOf

\* What a table of sums holds.
LEMMA TableEntry ==
    ASSUME NEW g, NEW S, NEW G, SumTable(g, S, G), NEW s \in SUBSET S
    PROVE  /\ s = {} => G[s] = 0
           /\ s # {} => G[s] = g[FirstOf(s)] + G[s \ {FirstOf(s)}]
<1>. DEFINE F == [x \in SUBSET S |-> IF x = {} THEN 0
                            ELSE g[FirstOf(x)] + G[x \ {FirstOf(x)}]]
<1>1. G = F
  BY DEF SumTable
<1>2. F[s] = IF s = {} THEN 0 ELSE g[FirstOf(s)] + G[s \ {FirstOf(s)}]
  OBVIOUS
<1>. HIDE DEF F
<1>. QED
  BY <1>1, <1>2

\* Two tables of one function agree where they both have an entry.
LEMMA TablesAgree ==
    ASSUME NEW g, NEW h, NEW S, IsFiniteSet(S), \A x \in S : g[x] = h[x],
           NEW A, S \subseteq A, NEW B, S \subseteq B,
           NEW G, SumTable(g, A, G), NEW H, SumTable(h, B, H)
    PROVE  G[S] = H[S]
<1>. DEFINE Z == {T \in SUBSET S : G[T] = H[T]}
<1>1. ASSUME NEW T \in SUBSET S, \A V \in (SUBSET T) \ {T} : V \in Z
      PROVE  T \in Z
  <2>0. T \in SUBSET A /\ T \in SUBSET B
    OBVIOUS
  <2>1. CASE T = {}
    BY <2>0, <2>1, TableEntry
  <2>2. CASE T # {}
    <3>. DEFINE x == FirstOf(T)
                V == T \ {x}
    <3>1. x \in T /\ x \in S /\ V \in (SUBSET T) \ {T}
      BY <2>2, FirstIsElement
    <3>2. G[T] = g[x] + G[V] /\ H[T] = h[x] + H[V]
      BY <2>0, <2>2, TableEntry
    <3>3. G[V] = H[V] /\ g[x] = h[x]
      BY <1>1, <3>1
    <3>. HIDE DEF x, V
    <3>. QED
      BY <3>2, <3>3
  <2>. QED
    BY <2>1, <2>2
<1>. HIDE DEF Z
<1>2. \A T \in SUBSET S : T \in Z
  BY <1>1, SubsetInduction
<1>. QED
  BY <1>2 DEF Z

\* Every function has a table of its sums over a finite set.
LEMMA TableExists ==
    ASSUME NEW g, NEW S, IsFiniteSet(S)
    PROVE  \E G : SumTable(g, S, G)
<1>. DEFINE Z == {T \in SUBSET S : \E G : SumTable(g, T, G)}
            H(T) == CHOOSE G : SumTable(g, T, G)
<1>1. \A T \in Z : SumTable(g, T, H(T))
  OBVIOUS
<1>. HIDE DEF H
<1>2. ASSUME NEW T \in SUBSET S, \A V \in (SUBSET T) \ {T} : V \in Z
      PROVE  T \in Z
  <2>. DEFINE Rest(s) == s \ {FirstOf(s)}
              Entry(s) == IF s = {} THEN 0
                          ELSE g[FirstOf(s)] + H(Rest(s))[Rest(s)]
              G == [s \in SUBSET T |-> Entry(s)]
  <2>1. ASSUME NEW s \in SUBSET T, s # {}
        PROVE  /\ Rest(s) \in (SUBSET T) \ {T} /\ Rest(s) \in SUBSET T
               /\ Rest(s) \in Z /\ IsFiniteSet(Rest(s))
    <3>1. FirstOf(s) \in s
      BY <2>1, FirstIsElement
    <3>2. Rest(s) \in (SUBSET T) \ {T} /\ Rest(s) \in SUBSET S
      BY <3>1
    <3>. QED
      BY <1>2, <3>2, FS_Subset
  <2>2. ASSUME NEW s \in SUBSET T, s # {}
        PROVE  H(Rest(s))[Rest(s)] = Entry(Rest(s))
    <3>. DEFINE V == Rest(s)
    <3>1. V \in SUBSET T /\ V \in Z /\ IsFiniteSet(V) /\ V \in SUBSET V
      BY <2>1, <2>2
    <3>2. SumTable(g, V, H(V))
      BY <1>1, <3>1
    <3>. SUFFICES H(V)[V] = Entry(V)
      OBVIOUS
    <3>. HIDE DEF V
    <3>3. CASE V = {}
      BY <3>1, <3>2, <3>3, TableEntry
    <3>4. CASE V # {}
      <4>. DEFINE W == Rest(V)
                  G1 == H(V)
                  G2 == H(W)
      <4>1. W \in Z /\ IsFiniteSet(W) /\ W \subseteq V
        BY <2>1, <3>1, <3>4
      <4>2. SumTable(g, W, G2)
        BY <1>1, <4>1
      <4>3. G1[V] = g[FirstOf(V)] + G1[W]
        <5>1. SumTable(g, V, G1)
          BY <3>2
        <5>. HIDE DEF G1
        <5>. QED
          BY <3>1, <3>4, <5>1, TableEntry
      <4>4. G1[W] = G2[W]
        <5>1. SumTable(g, V, G1)
          BY <3>2
        <5>. HIDE DEF W, G1, G2
        <5>. QED
          BY <4>1, <4>2, <5>1, TablesAgree
      <4>. QED
        BY <3>4, <4>3, <4>4
    <3>. QED
      BY <3>3, <3>4
  <2>3. ASSUME NEW s \in SUBSET T
        PROVE  Entry(s) = IF s = {} THEN 0 ELSE g[FirstOf(s)] + G[Rest(s)]
    <3>1. CASE s = {}
      BY <3>1
    <3>2. CASE s # {}
      <4>1. Rest(s) \in SUBSET T
        BY <2>1, <3>2
      <4>2. G[Rest(s)] = Entry(Rest(s))
        BY <4>1
      <4>. QED
        BY <2>2, <3>2, <4>2
    <3>. QED
      BY <3>1, <3>2
  <2>4. SumTable(g, T, G)
    <3>. HIDE DEF Entry
    <3>1. G = [s \in SUBSET T |-> IF s = {} THEN 0
                                  ELSE g[FirstOf(s)] + G[s \ {FirstOf(s)}]]
      BY <2>3
    <3>. QED
      BY <3>1 DEF SumTable
  <2>. QED
    BY <2>4
<1>. HIDE DEF Z
<1>3. \A T \in SUBSET S : T \in Z
  BY <1>2, SubsetInduction
<1>. QED
  BY <1>3 DEF Z

\* A sum can be read off every table that has an entry for its set.
LEMMA SumFromTable ==
    ASSUME NEW g, NEW S, IsFiniteSet(S), NEW A, S \subseteq A, NEW G,
           SumTable(g, A, G)
    PROVE  G[S] = SumOf(g, S)
<1>. DEFINE H == CHOOSE F : SumTable(g, S, F)
<1>1. SumTable(g, S, H)
  BY TableExists
<1>2. SumOf(g, S) = H[S]
  BY DEF SumOf
<1>. HIDE DEF H
<1>3. G[S] = H[S]
  BY <1>1, TablesAgree
<1>. QED
  BY <1>2, <1>3

\* Only the values at the elements of a set matter for its sum.
LEMMA SumSame ==
    ASSUME NEW g, NEW h, NEW S, IsFiniteSet(S), \A x \in S : g[x] = h[x]
    PROVE  SumOf(g, S) = SumOf(h, S)
<1>1. PICK G : SumTable(g, S, G)
  BY TableExists
<1>2. PICK H : SumTable(h, S, H)
  BY TableExists
<1>3. G[S] = SumOf(g, S)
  BY <1>1, SumFromTable
<1>4. H[S] = SumOf(h, S)
  BY <1>2, SumFromTable
<1>5. G[S] = H[S]
  BY <1>1, <1>2, TablesAgree
<1>. QED
  BY <1>3, <1>4, <1>5

\* The sum over nothing.
LEMMA SumEmpty ==
    ASSUME NEW g
    PROVE  SumOf(g, {}) = 0
<1>0. IsFiniteSet({})
  BY FS_EmptySet
<1>1. PICK G : SumTable(g, {}, G)
  BY <1>0, TableExists
<1>2. G[{}] = 0
  BY <1>1, TableEntry
<1>3. G[{}] = SumOf(g, {})
  BY <1>0, <1>1, SumFromTable
<1>. QED
  BY <1>2, <1>3

\* A fold adds the first element to the sum of the others.
LEMMA SumFirst ==
    ASSUME NEW g, NEW S, IsFiniteSet(S), S # {}
    PROVE  SumOf(g, S) = g[FirstOf(S)] + SumOf(g, S \ {FirstOf(S)})
<1>. DEFINE V == S \ {FirstOf(S)}
<1>0. IsFiniteSet(V) /\ V \subseteq S
  BY FS_RemoveElement
<1>1. PICK G : SumTable(g, S, G)
  BY TableExists
<1>2. G[S] = g[FirstOf(S)] + G[V]
  BY <1>1, TableEntry
<1>3. G[S] = SumOf(g, S)
  BY <1>1, SumFromTable
<1>. HIDE DEF V
<1>4. G[V] = SumOf(g, V)
  BY <1>0, <1>1, SumFromTable
<1>. QED
  BY <1>2, <1>3, <1>4 DEF V

\* Sums of naturals are naturals.
LEMMA SumNatural ==
    ASSUME NEW g, NEW S, IsFiniteSet(S), \A x \in S : g[x] \in Nat
    PROVE  SumOf(g, S) \in Nat
<1>. DEFINE Z == {T \in SUBSET S : SumOf(g, T) \in Nat}
<1>1. ASSUME NEW T \in SUBSET S, \A V \in (SUBSET T) \ {T} : V \in Z
      PROVE  T \in Z
  <2>1. CASE T = {}
    BY <2>1, SumEmpty
  <2>2. CASE T # {}
    <3>. DEFINE x == FirstOf(T)
                V == T \ {x}
    <3>1. x \in T /\ x \in S /\ V \in (SUBSET T) \ {T}
      BY <2>2, FirstIsElement
    <3>2. SumOf(g, V) \in Nat /\ g[x] \in Nat
      BY <1>1, <3>1
    <3>3. SumOf(g, T) = g[x] + SumOf(g, V)
      BY <2>2, FS_Subset, SumFirst
    <3>. HIDE DEF x, V
    <3>. QED
      BY <3>2, <3>3
  <2>. QED
    BY <2>1, <2>2
<1>. HIDE DEF Z
<1>2. \A T \in SUBSET S : T \in Z
  BY <1>1, SubsetInduction
<1>. QED
  BY <1>2 DEF Z

\* Any element may be taken first.
LEMMA SumRemove ==
    ASSUME NEW g, NEW S, IsFiniteSet(S), \A x \in S : g[x] \in Nat,
           NEW e \in S
    PROVE  SumOf(g, S) = g[e] + SumOf(g, S \ {e})
<1>. DEFINE Z == {T \in SUBSET S :
                    \A y \in T : SumOf(g, T) = g[y] + SumOf(g, T \ {y})}
<1>1. ASSUME NEW T \in SUBSET S, \A V \in (SUBSET T) \ {T} : V \in Z
      PROVE  T \in Z
  <2>. SUFFICES ASSUME NEW y \in T
                PROVE  SumOf(g, T) = g[y] + SumOf(g, T \ {y})
    OBVIOUS
  <2>. DEFINE x == FirstOf(T)
              V == T \ {x}
              W == T \ {y}
              U == V \ {y}
  <2>1. x \in T /\ x \in S /\ V \in (SUBSET T) \ {T} /\ W \in (SUBSET T) \ {T}
    BY FirstIsElement
  <2>2. SumOf(g, T) = g[x] + SumOf(g, V)
    BY FS_Subset, SumFirst
  <2>3. CASE x = y
    BY <2>2, <2>3
  <2>4. CASE x # y
    <3>1. y \in V /\ x \in W /\ U = W \ {x}
      BY <2>1, <2>4
    <3>2. SumOf(g, V) = g[y] + SumOf(g, U)
      BY <1>1, <2>1, <3>1
    <3>3. SumOf(g, W) = g[x] + SumOf(g, W \ {x})
      BY <1>1, <2>1, <3>1
    <3>4. g[x] \in Nat /\ g[y] \in Nat
      BY <2>1
    <3>5. SumOf(g, U) \in Nat
      <4>1. U \in SUBSET S
        BY <2>1
      <4>2. IsFiniteSet(U) /\ \A z \in U : g[z] \in Nat
        BY <4>1, FS_Subset
      <4>. HIDE DEF U
      <4>. QED
        BY <4>2, SumNatural
    <3>. HIDE DEF x, V, W, U
    <3>6. SumOf(g, T) = g[x] + (g[y] + SumOf(g, U))
      BY <2>2, <3>2
    <3>7. SumOf(g, W) = g[x] + SumOf(g, U)
      BY <3>1, <3>3
    <3>8. SumOf(g, T) = g[y] + SumOf(g, W)
      BY <3>4, <3>5, <3>6, <3>7
    <3>. QED
      BY <3>8 DEF W
  <2>. QED
    BY <2>3, <2>4
<1>. HIDE DEF Z
<1>2. \A T \in SUBSET S : T \in Z
  BY <1>1, SubsetInduction
<1>. QED
  BY <1>2 DEF Z

\* A set's sum is that of a part and that of the rest.
LEMMA SumParts ==
    ASSUME NEW g, NEW S, IsFiniteSet(S), \A x \in S : g[x] \in Nat,
           NEW P \in SUBSET S
    PROVE  SumOf(g, S) = SumOf(g, P) + SumOf(g, S \ P)
<1>. DEFINE Z == {T \in SUBSET S :
                    SumOf(g, S) = SumOf(g, T) + SumOf(g, S \ T)}
<1>0. \A T \in SUBSET S : IsFiniteSet(T) /\ SumOf(g, T) \in Nat
  <2>. SUFFICES ASSUME NEW T \in SUBSET S
                PROVE  IsFiniteSet(T) /\ SumOf(g, T) \in Nat
    OBVIOUS
  <2>1. IsFiniteSet(T) /\ \A x \in T : g[x] \in Nat
    BY FS_Subset
  <2>. QED
    BY <2>1, SumNatural
<1>1. ASSUME NEW T \in SUBSET S, \A V \in (SUBSET T) \ {T} : V \in Z
      PROVE  T \in Z
  <2>1. CASE T = {}
    <3>1. S \ T = S
      BY <2>1
    <3>2. SumOf(g, T) = 0
      BY <2>1, SumEmpty
    <3>3. SumOf(g, S) \in Nat
      BY <1>0
    <3>. QED
      BY <3>1, <3>2, <3>3
  <2>2. CASE T # {}
    <3>1. PICK y \in T : TRUE
      BY <2>2
    <3>. DEFINE V == T \ {y}
                W == S \ V
                U == S \ T
    <3>2. /\ V \in (SUBSET T) \ {T} /\ V \in SUBSET S /\ W \in SUBSET S
          /\ U \in SUBSET S /\ y \in W /\ W \ {y} = U
      OBVIOUS
    <3>3. SumOf(g, S) = SumOf(g, V) + SumOf(g, W)
      BY <1>1, <3>2
    <3>4. SumOf(g, T) = g[y] + SumOf(g, V)
      BY <1>0, SumRemove
    <3>5. SumOf(g, W) = g[y] + SumOf(g, U)
      <4>1. IsFiniteSet(W) /\ y \in W /\ W \ {y} = U /\ \A x \in W : g[x] \in Nat
        BY <1>0, <3>2
      <4>. HIDE DEF W, U
      <4>. QED
        BY <4>1, SumRemove
    <3>6. /\ g[y] \in Nat /\ SumOf(g, V) \in Nat /\ SumOf(g, U) \in Nat
      BY <1>0, <3>2
    <3>. HIDE DEF V, W, U
    <3>7. SumOf(g, S) = SumOf(g, T) + SumOf(g, U)
      BY <3>3, <3>4, <3>5, <3>6
    <3>. QED
      BY <3>7 DEF U
  <2>. QED
    BY <2>1, <2>2
<1>. HIDE DEF Z
<1>2. \A T \in SUBSET S : T \in Z
  BY <1>1, SubsetInduction
<1>. QED
  BY <1>2 DEF Z

\* The fold of the model is the sum: the material of records.
LEMMA MaterialFold ==
    ASSUME NEW R, NEW S \in SUBSET Mailbox, IsFiniteSet(S)
    PROVE  MapThenSumSet(LAMBDA m : R[m].material, S)
             = SumOf([m \in Mailbox |-> R[m].material], S)
<1>. DEFINE g == [m \in Mailbox |-> R[m].material]
            Step(G) == [s \in SUBSET S |->
                          IF s = {} THEN 0
                          ELSE LET x == CHOOSE x \in s : TRUE
                               IN  R[x].material + G[s \ {x}]]
            It == CHOOSE G : G = Step(G)
<1>1. MapThenSumSet(LAMBDA m : R[m].material, S) = It[S]
  BY DEF MapThenSumSet, MapThenFoldSet
<1>2. ASSUME NEW G PROVE SumTable(g, S, G) <=> G = Step(G)
  <2>1. \A s \in SUBSET S : s # {} => FirstOf(s) \in Mailbox
    BY FirstIsElement
  <2>2. \A s \in SUBSET S : s # {} => g[FirstOf(s)] = R[FirstOf(s)].material
    BY <2>1
  <2>. HIDE DEF g
  <2>. QED
    BY <2>2 DEF SumTable, FirstOf
<1>3. \E G : G = Step(G)
  <2>1. PICK G : SumTable(g, S, G)
    BY TableExists
  <2>2. G = Step(G)
    BY <1>2, <2>1
  <2>. HIDE DEF Step
  <2>. QED
    BY <2>2
<1>4. It = Step(It)
  BY <1>3
<1>. HIDE DEF g, It, Step
<1>5. SumTable(g, S, It)
  BY <1>2, <1>4
<1>6. It[S] = SumOf(g, S)
  BY <1>5, SumFromTable
<1>. QED
  BY <1>1, <1>6 DEF g

\* The evidence of records.
LEMMA EvidenceFold ==
    ASSUME NEW R, NEW S \in SUBSET Mailbox, IsFiniteSet(S)
    PROVE  MapThenSumSet(LAMBDA m : EvidenceBytes(R[m]), S)
             = SumOf([m \in Mailbox |-> EvidenceBytes(R[m])], S)
<1>. DEFINE g == [m \in Mailbox |-> EvidenceBytes(R[m])]
            Step(G) == [s \in SUBSET S |->
                          IF s = {} THEN 0
                          ELSE LET x == CHOOSE x \in s : TRUE
                               IN  EvidenceBytes(R[x]) + G[s \ {x}]]
            It == CHOOSE G : G = Step(G)
<1>1. MapThenSumSet(LAMBDA m : EvidenceBytes(R[m]), S) = It[S]
  BY DEF MapThenSumSet, MapThenFoldSet
<1>2. ASSUME NEW G PROVE SumTable(g, S, G) <=> G = Step(G)
  <2>1. \A s \in SUBSET S : s # {} => FirstOf(s) \in Mailbox
    BY FirstIsElement
  <2>2. \A s \in SUBSET S : s # {} => g[FirstOf(s)] = EvidenceBytes(R[FirstOf(s)])
    BY <2>1
  <2>. HIDE DEF g
  <2>. QED
    BY <2>2 DEF SumTable, FirstOf
<1>3. \E G : G = Step(G)
  <2>1. PICK G : SumTable(g, S, G)
    BY TableExists
  <2>2. G = Step(G)
    BY <1>2, <2>1
  <2>. HIDE DEF Step
  <2>. QED
    BY <2>2
<1>4. It = Step(It)
  BY <1>3
<1>. HIDE DEF g, It, Step
<1>5. SumTable(g, S, It)
  BY <1>2, <1>4
<1>6. It[S] = SumOf(g, S)
  BY <1>5, SumFromTable
<1>. QED
  BY <1>1, <1>6 DEF g

\* The committed bytes of records.
LEMMA CommittedFold ==
    ASSUME NEW R, NEW S \in SUBSET Mailbox, IsFiniteSet(S)
    PROVE  MapThenSumSet(LAMBDA m : CommittedBytes(R[m]), S)
             = SumOf([m \in Mailbox |-> CommittedBytes(R[m])], S)
<1>. DEFINE g == [m \in Mailbox |-> CommittedBytes(R[m])]
            Step(G) == [s \in SUBSET S |->
                          IF s = {} THEN 0
                          ELSE LET x == CHOOSE x \in s : TRUE
                               IN  CommittedBytes(R[x]) + G[s \ {x}]]
            It == CHOOSE G : G = Step(G)
<1>1. MapThenSumSet(LAMBDA m : CommittedBytes(R[m]), S) = It[S]
  BY DEF MapThenSumSet, MapThenFoldSet
<1>2. ASSUME NEW G PROVE SumTable(g, S, G) <=> G = Step(G)
  <2>1. \A s \in SUBSET S : s # {} => FirstOf(s) \in Mailbox
    BY FirstIsElement
  <2>2. \A s \in SUBSET S : s # {} => g[FirstOf(s)] = CommittedBytes(R[FirstOf(s)])
    BY <2>1
  <2>. HIDE DEF g
  <2>. QED
    BY <2>2 DEF SumTable, FirstOf
<1>3. \E G : G = Step(G)
  <2>1. PICK G : SumTable(g, S, G)
    BY TableExists
  <2>2. G = Step(G)
    BY <1>2, <2>1
  <2>. HIDE DEF Step
  <2>. QED
    BY <2>2
<1>4. It = Step(It)
  BY <1>3
<1>. HIDE DEF g, It, Step
<1>5. SumTable(g, S, It)
  BY <1>2, <1>4
<1>6. It[S] = SumOf(g, S)
  BY <1>5, SumFromTable
<1>. QED
  BY <1>1, <1>6 DEF g

\* The payloads staged in one record.
LEMMA PayloadFold ==
    ASSUME NEW e, NEW S \in SUBSET Object, IsFiniteSet(S)
    PROVE  MapThenSumSet(LAMBDA o : PayloadBytes[e[o]], S)
             = SumOf([o \in Object |-> PayloadBytes[e[o]]], S)
<1>. DEFINE g == [o \in Object |-> PayloadBytes[e[o]]]
            Step(G) == [s \in SUBSET S |->
                          IF s = {} THEN 0
                          ELSE LET x == CHOOSE x \in s : TRUE
                               IN  PayloadBytes[e[x]] + G[s \ {x}]]
            It == CHOOSE G : G = Step(G)
<1>1. MapThenSumSet(LAMBDA o : PayloadBytes[e[o]], S) = It[S]
  BY DEF MapThenSumSet, MapThenFoldSet
<1>2. ASSUME NEW G PROVE SumTable(g, S, G) <=> G = Step(G)
  <2>1. \A s \in SUBSET S : s # {} => FirstOf(s) \in Object
    BY FirstIsElement
  <2>2. \A s \in SUBSET S : s # {} => g[FirstOf(s)] = PayloadBytes[e[FirstOf(s)]]
    BY <2>1
  <2>. HIDE DEF g
  <2>. QED
    BY <2>2 DEF SumTable, FirstOf
<1>3. \E G : G = Step(G)
  <2>1. PICK G : SumTable(g, S, G)
    BY TableExists
  <2>2. G = Step(G)
    BY <1>2, <2>1
  <2>. HIDE DEF Step
  <2>. QED
    BY <2>2
<1>4. It = Step(It)
  BY <1>3
<1>. HIDE DEF g, It, Step
<1>5. SumTable(g, S, It)
  BY <1>2, <1>4
<1>6. It[S] = SumOf(g, S)
  BY <1>5, SumFromTable
<1>. QED
  BY <1>1, <1>6 DEF g

\* The sum over one element.
LEMMA SumSingleton ==
    ASSUME NEW g, NEW x, g[x] \in Nat
    PROVE  SumOf(g, {x}) = g[x]
<1>1. IsFiniteSet({x}) /\ x \in {x} /\ {x} \ {x} = {}
  BY FS_Singleton
<1>2. SumOf(g, {x}) = g[x] + SumOf(g, {x} \ {x})
  BY <1>1, SumRemove
<1>3. SumOf(g, {}) = 0
  BY SumEmpty
<1>. QED
  BY <1>1, <1>2, <1>3

\* The sum of zeros.
LEMMA SumZero ==
    ASSUME NEW g, NEW S, IsFiniteSet(S), \A x \in S : g[x] = 0
    PROVE  SumOf(g, S) = 0
<1>. DEFINE Z == {T \in SUBSET S : SumOf(g, T) = 0}
<1>1. ASSUME NEW T \in SUBSET S, \A V \in (SUBSET T) \ {T} : V \in Z
      PROVE  T \in Z
  <2>1. CASE T = {}
    BY <2>1, SumEmpty
  <2>2. CASE T # {}
    <3>. DEFINE x == FirstOf(T)
                V == T \ {x}
    <3>1. x \in T /\ x \in S /\ V \in (SUBSET T) \ {T}
      BY <2>2, FirstIsElement
    <3>2. SumOf(g, V) = 0 /\ g[x] = 0
      BY <1>1, <3>1
    <3>3. SumOf(g, T) = g[x] + SumOf(g, V)
      BY <2>2, FS_Subset, SumFirst
    <3>. HIDE DEF x, V
    <3>. QED
      BY <3>2, <3>3
  <2>. QED
    BY <2>1, <2>2
<1>. HIDE DEF Z
<1>2. \A T \in SUBSET S : T \in Z
  BY <1>1, SubsetInduction
<1>. QED
  BY <1>2 DEF Z

\* One element changes.
LEMMA SumChange ==
    ASSUME NEW g, NEW h, NEW S, IsFiniteSet(S), NEW e \in S,
           \A x \in S : g[x] \in Nat /\ h[x] \in Nat,
           \A x \in S \ {e} : h[x] = g[x]
    PROVE  SumOf(h, S) = SumOf(g, S) - g[e] + h[e]
<1>. DEFINE V == S \ {e}
<1>1. IsFiniteSet(V) /\ (\A x \in V : g[x] \in Nat /\ h[x] = g[x])
  BY FS_RemoveElement
<1>2. SumOf(g, S) = g[e] + SumOf(g, V)
  BY SumRemove
<1>3. SumOf(h, S) = h[e] + SumOf(h, V)
  BY SumRemove
<1>. HIDE DEF V
<1>4. SumOf(h, V) = SumOf(g, V)
  BY <1>1, SumSame
<1>5. SumOf(g, V) \in Nat
  BY <1>1, SumNatural
<1>6. g[e] \in Nat /\ h[e] \in Nat
  OBVIOUS
<1>. QED
  BY <1>2, <1>3, <1>4, <1>5, <1>6

\* One element is added.
LEMMA SumAdd ==
    ASSUME NEW g, NEW h, NEW S, IsFiniteSet(S), NEW e, e \notin S,
           \A x \in S : g[x] \in Nat /\ h[x] = g[x], h[e] \in Nat
    PROVE  SumOf(h, S \cup {e}) = SumOf(g, S) + h[e]
<1>. DEFINE V == S \cup {e}
<1>1. IsFiniteSet(V) /\ e \in V /\ V \ {e} = S /\ \A x \in V : h[x] \in Nat
  BY FS_AddElement
<1>. HIDE DEF V
<1>2. SumOf(h, V) = h[e] + SumOf(h, S)
  BY <1>1, SumRemove
<1>3. SumOf(h, S) = SumOf(g, S)
  BY SumSame
<1>4. SumOf(g, S) \in Nat
  BY SumNatural
<1>5. SumOf(h, V) = SumOf(g, S) + h[e]
  BY <1>2, <1>3, <1>4
<1>. QED
  BY <1>5 DEF V

\* What is left when a part is taken away.
LEMMA SumLeft ==
    ASSUME NEW g, NEW h, NEW S, IsFiniteSet(S), NEW P \in SUBSET S, NEW L,
           \A x \in S : g[x] \in Nat, \A x \in S \ P : h[x] = g[x],
           L = S \ P
    PROVE  /\ SumOf(h, L) = SumOf(g, S) - SumOf(g, P)
           /\ SumOf(g, P) \in Nat
<1>1. IsFiniteSet(L) /\ \A x \in L : g[x] \in Nat /\ h[x] = g[x]
  BY FS_Difference
<1>2. IsFiniteSet(P) /\ \A x \in P : g[x] \in Nat
  BY FS_Subset
<1>3. SumOf(g, S) = SumOf(g, P) + SumOf(g, L)
  BY SumParts
<1>4. SumOf(h, L) = SumOf(g, L)
  BY <1>1, SumSame
<1>5. SumOf(g, L) \in Nat
  BY <1>1, SumNatural
<1>6. SumOf(g, P) \in Nat
  BY <1>2, SumNatural
<1>. QED
  BY <1>3, <1>4, <1>5, <1>6

\* A part is cleared.
LEMMA SumCleared ==
    ASSUME NEW g, NEW h, NEW S, IsFiniteSet(S), NEW P \in SUBSET S,
           \A x \in S : g[x] \in Nat, \A x \in S \ P : h[x] = g[x],
           \A x \in P : h[x] = 0
    PROVE  /\ SumOf(h, S) = SumOf(g, S) - SumOf(g, P)
           /\ SumOf(g, P) \in Nat
<1>1. \A x \in S : h[x] \in Nat
  <2>. TAKE x \in S
  <2>1. CASE x \in P
    BY <2>1
  <2>2. CASE x \notin P
    <3>1. x \in S \ P
      BY <2>2
    <3>2. h[x] = g[x]
      BY <3>1
    <3>. QED
      BY <3>2
  <2>. QED
    BY <2>1, <2>2
<1>. DEFINE L == S \ P
<1>2. SumOf(h, S) = SumOf(h, P) + SumOf(h, L)
  BY <1>1, SumParts
<1>3. SumOf(h, P) = 0
  BY FS_Subset, SumZero
<1>4. SumOf(g, S) = SumOf(g, P) + SumOf(g, L)
  BY SumParts
<1>5. IsFiniteSet(L) /\ \A x \in L : g[x] \in Nat /\ h[x] = g[x]
  BY FS_Difference
<1>6. IsFiniteSet(P) /\ \A x \in P : g[x] \in Nat
  BY FS_Subset
<1>. HIDE DEF L
<1>7. SumOf(h, L) = SumOf(g, L)
  BY <1>5, SumSame
<1>8. SumOf(g, L) \in Nat
  BY <1>5, SumNatural
<1>9. SumOf(g, P) \in Nat
  BY <1>6, SumNatural
<1>. QED
  BY <1>2, <1>3, <1>4, <1>7, <1>8, <1>9

-----------------------------------------------------------------------------
(* Quotas.                                                                 *)

MaterialOf(R) == [m \in Mailbox |-> R[m].material]
EvidenceOf(R) == [m \in Mailbox |-> EvidenceBytes(R[m])]
CommittedOf(R) == [m \in Mailbox |-> CommittedBytes(R[m])]
PayloadOf(e) == [o \in Object |-> PayloadBytes[e[o]]]

\* What the three counters must be for the mailboxes of S in R.
TotalOf(R, S) ==
    [active |-> SumOf(MaterialOf(R), S),
     evidence |-> SumOf(EvidenceOf(R), S),
     committed |-> SumOf(CommittedOf(R), S)]

\* The record of a mailbox is within its own budget.
Within(r) ==
    /\ IsFiniteSet(Staged(r))
    /\ Cardinality(Staged(r)) <= MaxEvidenceItems
    /\ r.state # "ABSENT" =>
          r.result + EvidenceBytes(r) <= r.binding.responseBytes

WithinCeilings(t) ==
    /\ t.active <= MaxActiveBytes
    /\ t.evidence <= MaxEvidenceBytes
    /\ t.committed <= MaxCommittedBytes

\* The inductive form of QuotaAccounting: what is counted is also finite.
QuotaInv ==
    /\ IsFiniteSet(Live) /\ IsFiniteSet(Tombstoned)
    /\ \A m \in Mailbox : Within(records[m])
    /\ total = TotalOf(records, Live)
    /\ WithinCeilings(total)
    /\ Cardinality(Live) <= MaxMailboxes
    /\ Cardinality(Tombstoned) <= MaxTombstones

\* The evidence of a record is the sum of its payloads.
LEMMA EvidenceIsSum ==
    ASSUME NEW r, IsFiniteSet(Staged(r))
    PROVE  EvidenceBytes(r) = SumOf(PayloadOf(r.evidence), Staged(r))
<1>. DEFINE e == r.evidence
            S == Staged(r)
<1>1. EvidenceBytes(r) = MapThenSumSet(LAMBDA o : PayloadBytes[e[o]], S)
  BY DEF EvidenceBytes, MapThenSumSet, MapThenFoldSet
<1>2. S \in SUBSET Object
  BY DEF Staged
<1>. HIDE DEF e, S
<1>3. MapThenSumSet(LAMBDA o : PayloadBytes[e[o]], S) = SumOf(PayloadOf(e), S)
  BY <1>2, PayloadFold DEF PayloadOf, S
<1>. QED
  BY <1>1, <1>3 DEF e, S

\* The payloads staged in a record have sizes.
LEMMA PayloadNatural ==
    ASSUME NEW r \in Record, NEW o \in Staged(r)
    PROVE  PayloadOf(r.evidence)[o] \in Nat
<1>1. o \in Object /\ r.evidence \in EvidenceMap /\ r.evidence[o] # None
  BY DEF Staged, Record
<1>2. r.evidence[o] \in Payload
  BY <1>1 DEF EvidenceMap
<1>. QED
  BY <1>1, <1>2, SizeAssumption DEF PayloadOf

\* What a record counts for is a natural.
LEMMA CountsNatural ==
    ASSUME NEW r \in Record, IsFiniteSet(Staged(r))
    PROVE  /\ r.material \in Nat /\ r.result \in Nat
           /\ EvidenceBytes(r) \in Nat
           /\ CommittedBytes(r) \in Nat
<1>1. r.material \in Nat /\ r.result \in Nat
  <2>1. r.material \in {0, MaterialBytes} /\ r.result \in ResultBytes \cup {0}
    BY DEF Record
  <2>2. MaterialBytes \in Nat /\ \A b \in ResultBytes : b \in Nat
    BY SizeAssumption
  <2>. HIDE DEF Record
  <2>. QED
    BY <2>1, <2>2
<1>2. EvidenceBytes(r) \in Nat
  <2>1. SumOf(PayloadOf(r.evidence), Staged(r)) \in Nat
    BY PayloadNatural, SumNatural
  <2>. QED
    BY <2>1, EvidenceIsSum
<1>. QED
  BY <1>1, <1>2 DEF CommittedBytes

\* A record without evidence counts no evidence.
LEMMA NoEvidenceBytes ==
    ASSUME NEW r, Staged(r) = {}
    PROVE  IsFiniteSet(Staged(r)) /\ Cardinality(Staged(r)) = 0
           /\ EvidenceBytes(r) = 0
BY EvidenceIsSum, SumEmpty, FS_EmptySet

\* Evidence bytes depend on the evidence only.
LEMMA SameEvidenceBytes ==
    ASSUME NEW r, NEW s, s.evidence = r.evidence
    PROVE  Staged(s) = Staged(r) /\ EvidenceBytes(s) = EvidenceBytes(r)
BY DEF EvidenceBytes, Staged, MapThenSumSet, MapThenFoldSet

\* stage_evidence adds one payload to the evidence of a record.
LEMMA StagedBytes ==
    ASSUME NEW r \in Record, IsFiniteSet(Staged(r)), NEW o \in Object,
           NEW p \in Payload, o \notin Staged(r), NEW s,
           s.evidence = [r.evidence EXCEPT ![o] = p]
    PROVE  /\ IsFiniteSet(Staged(s))
           /\ Cardinality(Staged(s)) = Cardinality(Staged(r)) + 1
           /\ EvidenceBytes(s) = EvidenceBytes(r) + PayloadBytes[p]
<1>. DEFINE g == PayloadOf(r.evidence)
            h == PayloadOf(s.evidence)
<1>1. r.evidence \in EvidenceMap /\ p # None /\ PayloadBytes[p] \in Nat
  BY NoneAssumption, SizeAssumption DEF Record
<1>2. Staged(s) = Staged(r) \cup {o}
  BY <1>1 DEF Staged, EvidenceMap
<1>3. /\ IsFiniteSet(Staged(s))
      /\ Cardinality(Staged(s)) = Cardinality(Staged(r)) + 1
  BY <1>2, FS_AddElement
<1>4. h[o] = PayloadBytes[p]
  BY <1>1 DEF PayloadOf, EvidenceMap
<1>5. \A x \in Staged(r) : g[x] \in Nat /\ h[x] = g[x]
  <2>1. \A x \in Staged(r) : g[x] \in Nat
    BY PayloadNatural
  <2>2. \A x \in Staged(r) : h[x] = g[x]
    BY <1>1 DEF PayloadOf, EvidenceMap, Staged
  <2>. QED
    BY <2>1, <2>2
<1>. HIDE DEF g, h
<1>6. SumOf(h, Staged(r) \cup {o}) = SumOf(g, Staged(r)) + h[o]
  BY <1>1, <1>4, <1>5, SumAdd
<1>7. EvidenceBytes(s) = SumOf(h, Staged(s))
  BY <1>3, EvidenceIsSum DEF h
<1>8. EvidenceBytes(r) = SumOf(g, Staged(r))
  BY EvidenceIsSum DEF g
<1>. QED
  BY <1>2, <1>3, <1>4, <1>6, <1>7, <1>8

\* The sums of QuotaAccounting.
LEMMA TotalIsSum ==
    ASSUME IsFiniteSet(Live)
    PROVE  [active |-> MapThenSumSet(LAMBDA m : records[m].material, Live),
            evidence |->
               MapThenSumSet(LAMBDA m : EvidenceBytes(records[m]), Live),
            committed |->
               MapThenSumSet(LAMBDA m : CommittedBytes(records[m]), Live)]
           = TotalOf(records, Live)
<1>0. Live \in SUBSET Mailbox
  BY DEF Live
<1>1. MapThenSumSet(LAMBDA m : records[m].material, Live)
        = SumOf(MaterialOf(records), Live)
  BY <1>0, MaterialFold DEF MaterialOf
<1>2. MapThenSumSet(LAMBDA m : EvidenceBytes(records[m]), Live)
        = SumOf(EvidenceOf(records), Live)
  BY <1>0, EvidenceFold DEF EvidenceOf
<1>3. MapThenSumSet(LAMBDA m : CommittedBytes(records[m]), Live)
        = SumOf(CommittedOf(records), Live)
  BY <1>0, CommittedFold DEF CommittedOf
<1>. QED
  BY <1>1, <1>2, <1>3 DEF TotalOf

\* The sums that leave the counters with the records of S.
LEMMA TotalWithoutSum ==
    ASSUME NEW S \in SUBSET Mailbox, IsFiniteSet(S)
    PROVE  TotalWithout(S)
             = [active |-> total.active - SumOf(MaterialOf(records), S),
                evidence |-> total.evidence - SumOf(EvidenceOf(records), S),
                committed |-> total.committed - SumOf(CommittedOf(records), S)]
<1>1. MapThenSumSet(LAMBDA m : records[m].material, S)
        = SumOf(MaterialOf(records), S)
  BY MaterialFold DEF MaterialOf
<1>2. MapThenSumSet(LAMBDA m : EvidenceBytes(records[m]), S)
        = SumOf(EvidenceOf(records), S)
  BY EvidenceFold DEF EvidenceOf
<1>3. MapThenSumSet(LAMBDA m : CommittedBytes(records[m]), S)
        = SumOf(CommittedOf(records), S)
  BY CommittedFold DEF CommittedOf
<1>. QED
  BY <1>1, <1>2, <1>3 DEF TotalWithout

\* The inductive form says what QuotaAccounting says.
LEMMA QuotaInvSays == QuotaInv => QuotaAccounting
<1>. SUFFICES ASSUME QuotaInv PROVE QuotaAccounting
  OBVIOUS
<1>1. total = [active |-> MapThenSumSet(LAMBDA m : records[m].material, Live),
               evidence |->
                  MapThenSumSet(LAMBDA m : EvidenceBytes(records[m]), Live),
               committed |->
                  MapThenSumSet(LAMBDA m : CommittedBytes(records[m]), Live)]
  BY TotalIsSum DEF QuotaInv
<1>2. \A m \in Live :
          /\ Cardinality(Staged(records[m])) <= MaxEvidenceItems
          /\ records[m].result + EvidenceBytes(records[m])
                <= records[m].binding.responseBytes
  BY DEF QuotaInv, Within, Live
<1>. QED
  BY <1>1, <1>2 DEF QuotaInv, WithinCeilings, QuotaAccounting

\* The counts of the records of R are naturals.
LEMMA FunctionsNatural ==
    ASSUME NEW R, R \in [Mailbox -> Record],
           \A m \in Mailbox : IsFiniteSet(Staged(R[m]))
    PROVE  \A m \in Mailbox : /\ MaterialOf(R)[m] \in Nat
                              /\ EvidenceOf(R)[m] \in Nat
                              /\ CommittedOf(R)[m] \in Nat
<1>. TAKE m \in Mailbox
<1>1. R[m] \in Record /\ IsFiniteSet(Staged(R[m]))
  OBVIOUS
<1>. QED
  BY <1>1, CountsNatural DEF MaterialOf, EvidenceOf, CommittedOf

\* The counters are integers.
LEMMA TotalNatural ==
    ASSUME Inv, QuotaInv
    PROVE  /\ total.active \in Nat /\ total.evidence \in Nat
           /\ total.committed \in Nat
           /\ total = [active |-> total.active, evidence |-> total.evidence,
                       committed |-> total.committed]
<1>1. \A m \in Mailbox : /\ MaterialOf(records)[m] \in Nat
                         /\ EvidenceOf(records)[m] \in Nat
                         /\ CommittedOf(records)[m] \in Nat
  BY FunctionsNatural DEF Inv, QuotaInv, Within
<1>2. Live \subseteq Mailbox /\ IsFiniteSet(Live)
  BY DEF Live, QuotaInv
<1>3. SumOf(MaterialOf(records), Live) \in Nat
  BY <1>1, <1>2, SumNatural
<1>4. SumOf(EvidenceOf(records), Live) \in Nat
  BY <1>1, <1>2, SumNatural
<1>5. SumOf(CommittedOf(records), Live) \in Nat
  BY <1>1, <1>2, SumNatural
<1>. QED
  BY <1>3, <1>4, <1>5 DEF QuotaInv, TotalOf

\* What the counters become when the record r of one mailbox becomes s.
TotalMoved(r, s) ==
    [active |-> total.active - r.material + s.material,
     evidence |-> total.evidence - EvidenceBytes(r) + EvidenceBytes(s),
     committed |-> total.committed - CommittedBytes(r) + CommittedBytes(s)]

\* The frame argument for the counters: one live record changes.
LEMMA OneRecordCounts ==
    ASSUME Inv, QuotaInv, NEW m \in Mailbox, NEW s \in Record,
           records[m].state # "ABSENT", s.state # "ABSENT", Within(s),
           records' = [records EXCEPT ![m] = s], tombstones' = tombstones,
           total' = TotalMoved(records[m], s), WithinCeilings(total')
    PROVE  QuotaInv'
<1>1. /\ records \in [Mailbox -> Record] /\ records' \in [Mailbox -> Record]
      /\ records'[m] = s
      /\ \A n \in Mailbox \ {m} : records'[n] = records[n]
  BY DEF Inv
<1>2. Live' = Live /\ Tombstoned' = Tombstoned /\ m \in Live /\ Live \subseteq Mailbox
  BY <1>1 DEF Live, Tombstoned
<1>3. \A n \in Mailbox : Within(records'[n])
  <2>. TAKE n \in Mailbox
  <2>1. CASE n = m
    BY <1>1, <2>1
  <2>2. CASE n # m
    BY <1>1, <2>2 DEF QuotaInv
  <2>. QED
    BY <2>1, <2>2
<1>4. \A n \in Mailbox : /\ MaterialOf(records)[n] \in Nat
                         /\ EvidenceOf(records)[n] \in Nat
                         /\ CommittedOf(records)[n] \in Nat
  BY <1>1, FunctionsNatural DEF QuotaInv, Within
<1>5. \A n \in Mailbox : /\ MaterialOf(records')[n] \in Nat
                         /\ EvidenceOf(records')[n] \in Nat
                         /\ CommittedOf(records')[n] \in Nat
  BY <1>1, <1>3, FunctionsNatural DEF Within
<1>6. \A n \in Mailbox \ {m} :
          /\ MaterialOf(records')[n] = MaterialOf(records)[n]
          /\ EvidenceOf(records')[n] = EvidenceOf(records)[n]
          /\ CommittedOf(records')[n] = CommittedOf(records)[n]
  BY <1>1 DEF MaterialOf, EvidenceOf, CommittedOf
<1>7. /\ MaterialOf(records)[m] = records[m].material
      /\ MaterialOf(records')[m] = s.material
      /\ EvidenceOf(records)[m] = EvidenceBytes(records[m])
      /\ EvidenceOf(records')[m] = EvidenceBytes(s)
      /\ CommittedOf(records)[m] = CommittedBytes(records[m])
      /\ CommittedOf(records')[m] = CommittedBytes(s)
  BY <1>1 DEF MaterialOf, EvidenceOf, CommittedOf
<1>8. IsFiniteSet(Live)
  BY DEF QuotaInv
<1>9. SumOf(MaterialOf(records'), Live)
        = SumOf(MaterialOf(records), Live) - records[m].material + s.material
  <2>. DEFINE g == MaterialOf(records)
              h == MaterialOf(records')
  <2>1. /\ \A n \in Live : g[n] \in Nat /\ h[n] \in Nat
        /\ \A n \in Live \ {m} : h[n] = g[n]
    BY <1>2, <1>4, <1>5, <1>6
  <2>2. g[m] = records[m].material /\ h[m] = s.material
    BY <1>7
  <2>. HIDE DEF g, h
  <2>3. SumOf(h, Live) = SumOf(g, Live) - g[m] + h[m]
    BY <1>2, <1>8, <2>1, SumChange
  <2>. QED
    BY <2>2, <2>3 DEF g, h
<1>10. SumOf(EvidenceOf(records'), Live)
         = SumOf(EvidenceOf(records), Live) - EvidenceBytes(records[m])
             + EvidenceBytes(s)
  <2>. DEFINE g == EvidenceOf(records)
              h == EvidenceOf(records')
  <2>1. /\ \A n \in Live : g[n] \in Nat /\ h[n] \in Nat
        /\ \A n \in Live \ {m} : h[n] = g[n]
    BY <1>2, <1>4, <1>5, <1>6
  <2>2. g[m] = EvidenceBytes(records[m]) /\ h[m] = EvidenceBytes(s)
    BY <1>7
  <2>. HIDE DEF g, h
  <2>3. SumOf(h, Live) = SumOf(g, Live) - g[m] + h[m]
    BY <1>2, <1>8, <2>1, SumChange
  <2>. QED
    BY <2>2, <2>3 DEF g, h
<1>11. SumOf(CommittedOf(records'), Live)
         = SumOf(CommittedOf(records), Live) - CommittedBytes(records[m])
             + CommittedBytes(s)
  <2>. DEFINE g == CommittedOf(records)
              h == CommittedOf(records')
  <2>1. /\ \A n \in Live : g[n] \in Nat /\ h[n] \in Nat
        /\ \A n \in Live \ {m} : h[n] = g[n]
    BY <1>2, <1>4, <1>5, <1>6
  <2>2. g[m] = CommittedBytes(records[m]) /\ h[m] = CommittedBytes(s)
    BY <1>7
  <2>. HIDE DEF g, h
  <2>3. SumOf(h, Live) = SumOf(g, Live) - g[m] + h[m]
    BY <1>2, <1>8, <2>1, SumChange
  <2>. QED
    BY <2>2, <2>3 DEF g, h
<1>12. total' = TotalOf(records', Live')
  <2>1. /\ total.active = SumOf(MaterialOf(records), Live)
        /\ total.evidence = SumOf(EvidenceOf(records), Live)
        /\ total.committed = SumOf(CommittedOf(records), Live)
    BY DEF QuotaInv, TotalOf
  <2>. QED
    BY <1>2, <1>9, <1>10, <1>11, <2>1 DEF TotalMoved, TotalOf
<1>. QED
  BY <1>2, <1>3, <1>12 DEF QuotaInv

\* A record that has given up everything counts for nothing.
LEMMA EmptyCounts ==
    ASSUME NEW s, NEW n, NEW mark, GoodRecord(s, n, mark),
           s.state \notin {"OFFERED", "CLAIMED_ONCE"},
           s.state = "RESULT_COMMITTED" => s.collection = "ACKNOWLEDGED"
    PROVE  /\ Within(s)
           /\ s.material = 0 /\ EvidenceBytes(s) = 0 /\ CommittedBytes(s) = 0
<1>1. s \in Record /\ Shape(s)
  BY DEF GoodRecord
<1>2. s.material = 0
  BY <1>1 DEF Shape
<1>3. Staged(s) = {} /\ s.result = 0
  <2>1. CASE s.state = "ABSENT"
    BY <1>1, <2>1 DEF Shape, NoRecord, NoEvidence, Staged
  <2>2. CASE s.state # "ABSENT"
    BY <1>1, <2>2 DEF GoodRecord, GoodLive, ValidatedRecordMaterial, Shape
  <2>. QED
    BY <2>1, <2>2
<1>4. /\ EvidenceBytes(s) = 0 /\ IsFiniteSet(Staged(s))
      /\ Cardinality(Staged(s)) = 0
  BY <1>3, NoEvidenceBytes
<1>5. CommittedBytes(s) = 0
  BY <1>3, <1>4 DEF CommittedBytes
<1>6. s.state # "ABSENT" => s.binding.responseBytes \in Nat
  BY BindingAssumption DEF GoodRecord, GoodLive
<1>7. MaxEvidenceItems \in Nat
  BY LimitAssumption
<1>8. Within(s)
  BY <1>3, <1>4, <1>6, <1>7 DEF Within
<1>. QED
  BY <1>2, <1>4, <1>5, <1>8

\* The limits are naturals.
LEMMA LimitTypes ==
    /\ MaxActiveBytes \in Nat /\ MaxEvidenceBytes \in Nat
    /\ MaxCommittedBytes \in Nat /\ MaxEvidenceItems \in Nat
    /\ MaxMailboxes \in Nat /\ MaxTombstones \in Nat
BY LimitAssumption

\* What is known of the record of m and of the counters.
LEMMA Counted ==
    ASSUME Inv, QuotaInv, NEW m \in Mailbox
    PROVE  /\ records[m] \in Record /\ Shape(records[m]) /\ Within(records[m])
           /\ records[m].material \in Nat /\ records[m].result \in Nat
           /\ EvidenceBytes(records[m]) \in Nat
           /\ CommittedBytes(records[m]) \in Nat
           /\ Cardinality(Staged(records[m])) \in Nat
           /\ total.active \in Nat /\ total.evidence \in Nat
           /\ total.committed \in Nat
           /\ WithinCeilings(total)
<1>1. records[m] \in Record /\ Shape(records[m]) /\ Within(records[m])
  BY DEF Inv, GoodRecord, QuotaInv
<1>2. IsFiniteSet(Staged(records[m]))
  BY <1>1 DEF Within
<1>3. Cardinality(Staged(records[m])) \in Nat
  BY <1>2, FS_CardinalityType
<1>. QED
  BY <1>1, <1>2, <1>3, CountsNatural, TotalNatural DEF QuotaInv

\* _clear_action_material of one record.
LEMMA TotalWithoutOne ==
    ASSUME Inv, QuotaInv, NEW m \in Mailbox
    PROVE  TotalWithout({m})
             = [active |-> total.active - records[m].material,
                evidence |-> total.evidence - EvidenceBytes(records[m]),
                committed |-> total.committed - CommittedBytes(records[m])]
<1>1. {m} \in SUBSET Mailbox /\ IsFiniteSet({m})
  BY FS_Singleton
<1>2. /\ MaterialOf(records)[m] = records[m].material
      /\ EvidenceOf(records)[m] = EvidenceBytes(records[m])
      /\ CommittedOf(records)[m] = CommittedBytes(records[m])
  BY DEF MaterialOf, EvidenceOf, CommittedOf
<1>3. SumOf(MaterialOf(records), {m}) = records[m].material
  BY <1>2, Counted, SumSingleton
<1>4. SumOf(EvidenceOf(records), {m}) = EvidenceBytes(records[m])
  BY <1>2, Counted, SumSingleton
<1>5. SumOf(CommittedOf(records), {m}) = CommittedBytes(records[m])
  BY <1>2, Counted, SumSingleton
<1>. QED
  BY <1>1, <1>3, <1>4, <1>5, TotalWithoutSum

\* A record gives up everything, and the counters what it counted for.
LEMMA ClearedKeepsQuota ==
    ASSUME Inv, QuotaInv, NEW m \in Mailbox, NEW s, NEW mark,
           GoodRecord(s, m, mark), records[m].state # "ABSENT",
           s.state \in {"EXPIRED", "ABANDONED"},
           records' = [records EXCEPT ![m] = s], tombstones' = tombstones,
           total' = TotalWithout({m})
    PROVE  QuotaInv'
<1>1. /\ Within(s) /\ s \in Record /\ s.state # "ABSENT"
      /\ s.material = 0 /\ EvidenceBytes(s) = 0 /\ CommittedBytes(s) = 0
  BY EmptyCounts DEF GoodRecord
<1>. DEFINE r == records[m]
<1>2. /\ r.material \in Nat /\ EvidenceBytes(r) \in Nat
      /\ CommittedBytes(r) \in Nat /\ total.active \in Nat
      /\ total.evidence \in Nat /\ total.committed \in Nat
      /\ WithinCeilings(total)
  BY Counted
<1>3. total' = [active |-> total.active - r.material,
                evidence |-> total.evidence - EvidenceBytes(r),
                committed |-> total.committed - CommittedBytes(r)]
  BY TotalWithoutOne
<1>4. total' = TotalMoved(r, s)
  BY <1>1, <1>2, <1>3 DEF TotalMoved
<1>5. WithinCeilings(total')
  BY <1>2, <1>3, LimitTypes DEF WithinCeilings
<1>. QED
  BY <1>1, <1>4, <1>5, OneRecordCounts

\* A denial for a passed deadline.
LEMMA DenialKeepsQuota ==
    ASSUME Inv, QuotaInv, NEW m \in Mailbox, NEW now \in Time,
           Accessible(m, now), DeniedAsExpired(m, now)
    PROVE  QuotaInv'
<1>. DEFINE r == records[m]
            s == ExpiredRecord(r, now)
<1>1. /\ highWater \in Instant /\ now >= highWater /\ r.state # "ABSENT"
      /\ GoodRecord(r, m, highWater) /\ r \in Record
  BY AccessedRecord
<1>2. GoodRecord(s, m, now)
  BY <1>1, ExpiredGood DEF DeniedAsExpired, IsExpired
<1>3. s.state = "EXPIRED"
  BY <1>1 DEF ExpiredRecord, ClearedMaterial, ReleasedPayloads, Record
<1>4. /\ records' = [records EXCEPT ![m] = s] /\ tombstones' = tombstones
      /\ total' = TotalWithout({m})
  BY DEF DeniedAsExpired
<1>. HIDE DEF s
<1>. QED
  BY <1>1, <1>2, <1>3, <1>4, ClearedKeepsQuota

\* A record that counts for what it counted for.
LEMMA SameCountsKeepQuota ==
    ASSUME Inv, QuotaInv, NEW m \in Mailbox, NEW s \in Record,
           records[m].state # "ABSENT", s.state # "ABSENT",
           s.material = records[m].material, s.evidence = records[m].evidence,
           s.result = records[m].result, s.committed = records[m].committed,
           s.binding = records[m].binding,
           records' = [records EXCEPT ![m] = s], tombstones' = tombstones,
           total' = total
    PROVE  QuotaInv'
<1>. DEFINE r == records[m]
<1>1. Staged(s) = Staged(r) /\ EvidenceBytes(s) = EvidenceBytes(r)
  BY SameEvidenceBytes
<1>2. CommittedBytes(s) = CommittedBytes(r)
  BY <1>1 DEF CommittedBytes
<1>3. /\ r.material \in Nat /\ EvidenceBytes(r) \in Nat
      /\ CommittedBytes(r) \in Nat /\ Within(r) /\ WithinCeilings(total)
      /\ total.active \in Nat /\ total.evidence \in Nat /\ total.committed \in Nat
  BY Counted
<1>4. Within(s)
  BY <1>1, <1>3 DEF Within
<1>5. total = [active |-> total.active, evidence |-> total.evidence,
               committed |-> total.committed]
  BY TotalNatural
<1>6. total' = TotalMoved(r, s)
  BY <1>1, <1>2, <1>3, <1>5 DEF TotalMoved
<1>. QED
  BY <1>3, <1>4, <1>6, OneRecordCounts

\* offer counts the delivery material.
LEMMA OfferKeepsQuota ==
    ASSUME Inv, QuotaInv, NEW b \in Binding, NEW t,
           NEW result \in IssuedCredential, NEW now \in Time,
           Offer(b, t, result, now)
    PROVE  QuotaInv'
<1>. DEFINE m == b.mailbox
            r == records[m]
            s == [[r EXCEPT !.state = "OFFERED", !.material = MaterialBytes,
                            !.resultCredential = result]
                  EXCEPT !.seen = now]
<1>1. m \in Mailbox /\ Accessible(m, now)
  BY BindingTypes DEF Offer
<1>2. CASE DeniedAsExpired(m, now)
  BY <1>1, <1>2, DenialKeepsQuota
<1>3. CASE ~DeniedAsExpired(m, now)
  <2>1. /\ r.state = "EMPTY" /\ total.active + MaterialBytes <= MaxActiveBytes
        /\ total' = [total EXCEPT !.active = @ + MaterialBytes]
        /\ records' = [records EXCEPT ![m] = s] /\ tombstones' = tombstones
    BY <1>3 DEF Offer, Observe
  <2>2. /\ highWater \in Instant /\ now >= highWater
        /\ GoodRecord(r, m, highWater) /\ r \in Record
    BY <1>1, AccessedRecord
  <2>3. result \in Credential
    BY CredentialAssumption
  <2>4. GoodRecord(s, m, now)
    BY <2>1, <2>2, <2>3, OfferedGood
  <2>5. /\ s \in Record /\ s.state = "OFFERED" /\ s.material = MaterialBytes
        /\ s.evidence = r.evidence /\ s.result = r.result
        /\ s.committed = r.committed /\ s.binding = r.binding
    BY <2>2, <2>4 DEF GoodRecord, Record
  <2>. HIDE DEF s
  <2>6. Staged(s) = Staged(r) /\ EvidenceBytes(s) = EvidenceBytes(r)
    BY <2>5, SameEvidenceBytes
  <2>7. CommittedBytes(s) = CommittedBytes(r)
    BY <2>5, <2>6 DEF CommittedBytes
  <2>8. /\ r.material = 0 /\ EvidenceBytes(r) \in Nat
        /\ CommittedBytes(r) \in Nat /\ Within(r) /\ WithinCeilings(total)
        /\ total.active \in Nat /\ total.evidence \in Nat /\ total.committed \in Nat
    BY <1>1, <2>1, Counted DEF Shape
  <2>9. Within(s)
    BY <2>1, <2>5, <2>6, <2>8 DEF Within
  <2>10. total' = [active |-> total.active + MaterialBytes,
                   evidence |-> total.evidence, committed |-> total.committed]
    BY <2>1, TotalNatural
  <2>11. total' = TotalMoved(r, s)
    BY <2>5, <2>6, <2>7, <2>8, <2>10, ConstantTypes DEF TotalMoved
  <2>12. WithinCeilings(total')
    BY <2>1, <2>8, <2>10 DEF WithinCeilings
  <2>. QED
    BY <1>1, <2>1, <2>5, <2>9, <2>11, <2>12, OneRecordCounts
<1>. QED
  BY <1>2, <1>3

\* claim gives the delivery material back.
LEMMA ClaimKeepsQuota ==
    ASSUME Inv, QuotaInv, NEW b \in Binding, NEW c, NEW now \in Time,
           Claim(b, c, now)
    PROVE  QuotaInv'
<1>. DEFINE m == b.mailbox
            r == records[m]
            s == [ClaimedRecord(r) EXCEPT !.seen = now]
<1>1. m \in Mailbox /\ Accessible(m, now)
  BY BindingTypes DEF Claim
<1>2. CASE DeniedAsExpired(m, now)
  BY <1>1, <1>2, DenialKeepsQuota
<1>3. CASE ~DeniedAsExpired(m, now)
  <2>1. /\ r.state = "OFFERED"
        /\ total' = [total EXCEPT !.active = @ - r.material]
        /\ records' = [records EXCEPT ![m] = s] /\ tombstones' = tombstones
    BY <1>3 DEF Claim, Observe
  <2>2. /\ highWater \in Instant /\ now >= highWater
        /\ GoodRecord(r, m, highWater) /\ r \in Record
    BY <1>1, AccessedRecord
  <2>3. GoodRecord(s, m, now)
    BY <2>1, <2>2, ClaimedGood
  <2>4. /\ s \in Record /\ s.state = "CLAIMED_ONCE" /\ s.material = 0
        /\ s.evidence = r.evidence /\ s.result = r.result
        /\ s.committed = r.committed /\ s.binding = r.binding
    BY <2>2, <2>3 DEF GoodRecord, Record, ClaimedRecord
  <2>. HIDE DEF s
  <2>5. Staged(s) = Staged(r) /\ EvidenceBytes(s) = EvidenceBytes(r)
    BY <2>4, SameEvidenceBytes
  <2>6. CommittedBytes(s) = CommittedBytes(r)
    BY <2>4, <2>5 DEF CommittedBytes
  <2>7. /\ r.material \in Nat /\ EvidenceBytes(r) \in Nat
        /\ CommittedBytes(r) \in Nat /\ Within(r) /\ WithinCeilings(total)
        /\ total.active \in Nat /\ total.evidence \in Nat /\ total.committed \in Nat
    BY <1>1, Counted
  <2>8. Within(s)
    BY <2>1, <2>4, <2>5, <2>7 DEF Within
  <2>9. total' = [active |-> total.active - r.material,
                  evidence |-> total.evidence, committed |-> total.committed]
    BY <2>1, TotalNatural
  <2>10. total' = TotalMoved(r, s)
    BY <2>4, <2>5, <2>6, <2>7, <2>9 DEF TotalMoved
  <2>11. WithinCeilings(total')
    BY <2>7, <2>9, LimitTypes DEF WithinCeilings
  <2>. QED
    BY <1>1, <2>1, <2>4, <2>8, <2>10, <2>11, OneRecordCounts
<1>. QED
  BY <1>2, <1>3

\* stage_evidence counts the payload.
LEMMA StageEvidenceKeepsQuota ==
    ASSUME Inv, QuotaInv, NEW b \in Binding, NEW c, NEW o \in Object,
           NEW p \in Payload, NEW now \in Time, StageEvidence(b, c, o, p, now)
    PROVE  QuotaInv'
<1>. DEFINE m == b.mailbox
            r == records[m]
            size == PayloadBytes[p]
            s == [[r EXCEPT !.evidence[o] = p] EXCEPT !.seen = now]
<1>1. /\ m \in Mailbox /\ Accessible(m, now) /\ r.state = "CLAIMED_ONCE"
      /\ r.binding = b
  BY BindingTypes DEF StageEvidence, ResultAccess
<1>2. CASE DeniedAsExpired(m, now)
  BY <1>1, <1>2, DenialKeepsQuota
<1>3. CASE ~DeniedAsExpired(m, now)
  <2>1. /\ o \notin Staged(r) /\ Cardinality(Staged(r)) < MaxEvidenceItems
        /\ EvidenceBytes(r) + size <= b.responseBytes
        /\ total.evidence + size <= MaxEvidenceBytes
        /\ total' = [total EXCEPT !.evidence = @ + size]
        /\ records' = [records EXCEPT ![m] = s] /\ tombstones' = tombstones
    BY <1>3 DEF StageEvidence, Observe
  <2>2. /\ highWater \in Instant /\ now >= highWater
        /\ GoodRecord(r, m, highWater) /\ r \in Record
    BY <1>1, AccessedRecord
  <2>3. GoodRecord(s, m, now)
    BY <1>1, <2>2, StagedGood
  <2>4. /\ s \in Record /\ s.state = r.state /\ s.material = r.material
        /\ s.evidence = [r.evidence EXCEPT ![o] = p] /\ s.result = r.result
        /\ s.committed = r.committed /\ s.binding = r.binding
    BY <2>2, <2>3 DEF GoodRecord, Record
  <2>5. size \in Nat
    BY SizeAssumption
  <2>. HIDE DEF s, size
  <2>6. /\ r.material \in Nat /\ r.result = 0 /\ r.committed = NoTime
        /\ EvidenceBytes(r) \in Nat
        /\ IsFiniteSet(Staged(r)) /\ Cardinality(Staged(r)) \in Nat
        /\ CommittedBytes(r) = 0 /\ WithinCeilings(total)
        /\ total.active \in Nat /\ total.evidence \in Nat /\ total.committed \in Nat
    BY <1>1, Counted DEF Shape, Within, CommittedBytes
  <2>7. /\ IsFiniteSet(Staged(s))
        /\ Cardinality(Staged(s)) = Cardinality(Staged(r)) + 1
        /\ EvidenceBytes(s) = EvidenceBytes(r) + size
    BY <2>1, <2>2, <2>4, <2>6, StagedBytes DEF size
  <2>8. CommittedBytes(s) = 0
    BY <2>4, <2>6 DEF CommittedBytes
  <2>9. Within(s)
    <3>1. Cardinality(Staged(s)) <= MaxEvidenceItems
      BY <2>1, <2>6, <2>7, LimitTypes
    <3>2. s.result + EvidenceBytes(s) <= s.binding.responseBytes
      BY <1>1, <2>1, <2>4, <2>5, <2>6, <2>7
    <3>. QED
      BY <2>7, <3>1, <3>2 DEF Within
  <2>10. total' = [active |-> total.active, evidence |-> total.evidence + size,
                   committed |-> total.committed]
    BY <2>1, TotalNatural
  <2>11. total' = TotalMoved(r, s)
    BY <2>4, <2>5, <2>6, <2>7, <2>8, <2>10 DEF TotalMoved
  <2>12. WithinCeilings(total')
    BY <2>1, <2>6, <2>10 DEF WithinCeilings
  <2>. QED
    BY <1>1, <2>1, <2>4, <2>9, <2>11, <2>12, OneRecordCounts
<1>. QED
  BY <1>2, <1>3

\* commit_result counts the result and the evidence it commits.
LEMMA CommitResultKeepsQuota ==
    ASSUME Inv, QuotaInv, NEW b \in Binding, NEW c, NEW seals \in EvidenceMap,
           NEW size \in ResultBytes, NEW now \in Time,
           CommitResult(b, c, seals, size, now)
    PROVE  QuotaInv'
<1>. DEFINE m == b.mailbox
            r == records[m]
            response == size + EvidenceBytes(r)
            s == [[r EXCEPT !.state = "RESULT_COMMITTED",
                            !.collection = "READY",
                            !.result = size,
                            !.refs = seals,
                            !.manifest = Staged(r),
                            !.resultCredential = None,
                            !.committed = now]
                  EXCEPT !.seen = now]
<1>1. /\ m \in Mailbox /\ Accessible(m, now) /\ r.state = "CLAIMED_ONCE"
      /\ r.binding = b
  BY BindingTypes DEF CommitResult, ResultAccess
<1>2. CASE DeniedAsExpired(m, now)
  BY <1>1, <1>2, DenialKeepsQuota
<1>3. CASE ~DeniedAsExpired(m, now)
  <2>1. /\ SealsMatch(r, seals) /\ response <= b.responseBytes
        /\ total.committed + response <= MaxCommittedBytes
        /\ total' = [total EXCEPT !.committed = @ + response]
        /\ records' = [records EXCEPT ![m] = s] /\ tombstones' = tombstones
    BY <1>3 DEF CommitResult, Observe
  <2>2. /\ highWater \in Instant /\ now >= highWater
        /\ GoodRecord(r, m, highWater) /\ r \in Record
    BY <1>1, AccessedRecord
  <2>3. GoodRecord(s, m, now)
    BY <1>1, <2>1, <2>2, CommittedGood
  <2>4. /\ s \in Record /\ s.state = "RESULT_COMMITTED" /\ s.material = r.material
        /\ s.evidence = r.evidence /\ s.result = size
        /\ s.committed = now /\ s.binding = r.binding
    BY <2>2, <2>3 DEF GoodRecord, Record
  <2>5. size \in Nat /\ now # NoTime
    BY SizeAssumption, TimeTypes
  <2>6. /\ r.material \in Nat /\ r.committed = NoTime
        /\ EvidenceBytes(r) \in Nat /\ Within(r)
        /\ CommittedBytes(r) = 0 /\ WithinCeilings(total)
        /\ total.active \in Nat /\ total.evidence \in Nat /\ total.committed \in Nat
    BY <1>1, Counted DEF Shape, CommittedBytes
  <2>7. response \in Nat
    BY <2>5, <2>6
  <2>. HIDE DEF s
  <2>8. Staged(s) = Staged(r) /\ EvidenceBytes(s) = EvidenceBytes(r)
    BY <2>4, SameEvidenceBytes
  <2>9. CommittedBytes(s) = response
    BY <2>4, <2>5, <2>8 DEF CommittedBytes
  <2>10. Within(s)
    BY <1>1, <2>1, <2>4, <2>6, <2>8 DEF Within
  <2>. HIDE DEF response
  <2>11. total' = [active |-> total.active, evidence |-> total.evidence,
                   committed |-> total.committed + response]
    BY <2>1, TotalNatural
  <2>12. total' = TotalMoved(r, s)
    BY <2>4, <2>6, <2>7, <2>8, <2>9, <2>11 DEF TotalMoved
  <2>13. WithinCeilings(total')
    BY <2>1, <2>6, <2>11 DEF WithinCeilings
  <2>. QED
    BY <1>1, <2>1, <2>4, <2>10, <2>12, <2>13, OneRecordCounts
<1>. QED
  BY <1>2, <1>3

\* A record that is only observed.
LEMMA SeenKeepsQuota ==
    ASSUME Inv, QuotaInv, NEW m \in Mailbox, NEW now \in Time,
           Accessible(m, now), Observe(m, records[m], now), total' = total
    PROVE  QuotaInv'
<1>. DEFINE r == records[m]
            s == [r EXCEPT !.seen = now]
<1>1. /\ highWater \in Instant /\ now >= highWater /\ r.state # "ABSENT"
      /\ GoodRecord(r, m, highWater) /\ r \in Record
  BY AccessedRecord
<1>2. s \in Record
  BY <1>1, TimeTypes DEF Record
<1>3. /\ s.state = r.state /\ s.material = r.material
      /\ s.evidence = r.evidence /\ s.result = r.result
      /\ s.committed = r.committed /\ s.binding = r.binding
  BY <1>1 DEF Record
<1>4. records' = [records EXCEPT ![m] = s] /\ tombstones' = tombstones
  BY DEF Observe
<1>. HIDE DEF s
<1>. QED
  BY <1>1, <1>2, <1>3, <1>4, SameCountsKeepQuota

\* collect counts nothing.
LEMMA CollectKeepsQuota ==
    ASSUME Inv, QuotaInv, NEW m \in Mailbox, NEW c, NEW now \in Time,
           Collect(m, c, now)
    PROVE  QuotaInv'
<1>. DEFINE r == records[m]
            s == [[r EXCEPT !.collection = "DELIVERING"] EXCEPT !.seen = now]
<1>1. /\ highWater \in Instant /\ now >= highWater /\ r.state # "ABSENT"
      /\ GoodRecord(r, m, highWater) /\ r \in Record
  BY AccessedRecord DEF Collect
<1>2. GoodRecord(s, m, now)
  BY <1>1, CollectedGood DEF Collect
<1>3. /\ s \in Record /\ s.state = r.state /\ s.material = r.material
      /\ s.evidence = r.evidence /\ s.result = r.result
      /\ s.committed = r.committed /\ s.binding = r.binding
  BY <1>1, <1>2 DEF GoodRecord, Record
<1>4. /\ records' = [records EXCEPT ![m] = s] /\ tombstones' = tombstones
      /\ total' = total
  BY DEF Collect, Observe
<1>. HIDE DEF s
<1>. QED
  BY <1>1, <1>3, <1>4, SameCountsKeepQuota

\* acknowledge_collection gives the evidence and the committed bytes back.
LEMMA AcknowledgeKeepsQuota ==
    ASSUME Inv, QuotaInv, NEW m \in Mailbox, NEW c, NEW now \in Time,
           AcknowledgeCollection(m, c, now)
    PROVE  QuotaInv'
<1>. DEFINE r == records[m]
            s == [[ReleasedPayloads(r) EXCEPT !.collection = "ACKNOWLEDGED",
                                              !.terminal = now]
                  EXCEPT !.seen = now]
<1>1. Accessible(m, now)
  BY DEF AcknowledgeCollection
<1>2. CASE Observe(m, r, now) /\ total' = total
  BY <1>1, <1>2, SeenKeepsQuota
<1>3. CASE ~(Observe(m, r, now) /\ total' = total)
  <2>1. /\ r.state = "RESULT_COMMITTED" /\ r.collection = "DELIVERING"
        /\ total' = [total EXCEPT !.evidence = @ - EvidenceBytes(r),
                                  !.committed = @ - CommittedBytes(r)]
        /\ records' = [records EXCEPT ![m] = s] /\ tombstones' = tombstones
    BY <1>3 DEF AcknowledgeCollection, Observe
  <2>2. /\ highWater \in Instant /\ now >= highWater
        /\ GoodRecord(r, m, highWater) /\ r \in Record
    BY <1>1, AccessedRecord
  <2>3. GoodRecord(s, m, now)
    BY <2>1, <2>2, AcknowledgedGood
  <2>4. /\ s \in Record /\ s.state = "RESULT_COMMITTED"
        /\ s.collection = "ACKNOWLEDGED"
    BY <2>1, <2>2, <2>3 DEF GoodRecord, Record, ReleasedPayloads
  <2>. HIDE DEF s
  <2>5. /\ Within(s) /\ s.material = 0 /\ EvidenceBytes(s) = 0
        /\ CommittedBytes(s) = 0
    BY <2>3, <2>4, EmptyCounts
  <2>6. /\ r.material = 0 /\ EvidenceBytes(r) \in Nat
        /\ CommittedBytes(r) \in Nat /\ WithinCeilings(total)
        /\ total.active \in Nat /\ total.evidence \in Nat /\ total.committed \in Nat
    BY <2>1, Counted DEF Shape
  <2>7. total' = [active |-> total.active,
                  evidence |-> total.evidence - EvidenceBytes(r),
                  committed |-> total.committed - CommittedBytes(r)]
    BY <2>1, TotalNatural
  <2>8. total' = TotalMoved(r, s)
    BY <2>5, <2>6, <2>7 DEF TotalMoved
  <2>9. WithinCeilings(total')
    BY <2>6, <2>7, LimitTypes DEF WithinCeilings
  <2>. QED
    BY <2>1, <2>4, <2>5, <2>8, <2>9, OneRecordCounts
<1>. QED
  BY <1>2, <1>3

\* abandon gives everything back.
LEMMA AbandonKeepsQuota ==
    ASSUME Inv, QuotaInv, NEW m \in Mailbox, NEW c, NEW now \in Time,
           Abandon(m, c, now)
    PROVE  QuotaInv'
<1>. DEFINE r == records[m]
            s == [[ClearedMaterial(r) EXCEPT !.state = "ABANDONED",
                                             !.terminal = now]
                  EXCEPT !.seen = now]
<1>1. Accessible(m, now)
  BY DEF Abandon
<1>2. CASE DeniedAsExpired(m, now)
  BY <1>1, <1>2, DenialKeepsQuota
<1>3. CASE ~DeniedAsExpired(m, now)
  <2>1. /\ r.state \in Pending /\ total' = TotalWithout({m})
        /\ records' = [records EXCEPT ![m] = s] /\ tombstones' = tombstones
    BY <1>3 DEF Abandon, Observe
  <2>2. /\ highWater \in Instant /\ now >= highWater /\ r.state # "ABSENT"
        /\ GoodRecord(r, m, highWater) /\ r \in Record
    BY <1>1, AccessedRecord
  <2>3. GoodRecord(s, m, now)
    BY <2>1, <2>2, AbandonedGood
  <2>4. s.state = "ABANDONED"
    BY <2>2 DEF Record, ClearedMaterial, ReleasedPayloads
  <2>. HIDE DEF s
  <2>. QED
    BY <2>1, <2>2, <2>3, <2>4, ClearedKeepsQuota
<1>. QED
  BY <1>2, <1>3

\* snapshot counts nothing.
LEMMA SnapshotKeepsQuota ==
    ASSUME Inv, QuotaInv, NEW m \in Mailbox, NEW c, NEW now \in Time,
           Snapshot(m, c, now)
    PROVE  QuotaInv'
BY DenialKeepsQuota, SeenKeepsQuota DEF Snapshot


\* create counts nothing and takes a place in the table.
LEMMA CreateKeepsQuota ==
    ASSUME Inv, QuotaInv, NEW b \in Binding, NEW t \in CredentialTriple,
           NEW now \in Time, Create(b, t, now)
    PROVE  QuotaInv'
<1>. DEFINE m == b.mailbox
            s == NewRecord(b, t, now)
<1>1. m \in Mailbox
  BY BindingTypes
<1>2. GoodRecord(s, m, now)
  BY NewRecordGood DEF Create
<1>3. s.state = "EMPTY"
  BY DEF NewRecord, NoRecord
<1>4. /\ m \notin Live /\ Cardinality(Live) < MaxMailboxes
      /\ records' = [records EXCEPT ![m] = s]
      /\ total' = total /\ tombstones' = tombstones
  BY DEF Create
<1>. HIDE DEF m, s
<1>5. /\ Within(s) /\ s.material = 0 /\ EvidenceBytes(s) = 0
      /\ CommittedBytes(s) = 0
  BY <1>2, <1>3, EmptyCounts
<1>6. /\ records \in [Mailbox -> Record] /\ records'[m] = s
      /\ \A n \in Mailbox \ {m} : records'[n] = records[n]
  BY <1>1, <1>4 DEF Inv
<1>7. Live' = Live \cup {m} /\ Tombstoned' = Tombstoned /\ Live \subseteq Mailbox
  BY <1>1, <1>3, <1>4, <1>6 DEF Live, Tombstoned
<1>8. \A n \in Mailbox : Within(records'[n])
  <2>. TAKE n \in Mailbox
  <2>1. CASE n = m
    BY <1>5, <1>6, <2>1
  <2>2. CASE n # m
    BY <1>6, <2>2 DEF QuotaInv
  <2>. QED
    BY <2>1, <2>2
<1>9. IsFiniteSet(Live)
  BY DEF QuotaInv
<1>10. IsFiniteSet(Live') /\ Cardinality(Live') = Cardinality(Live) + 1
  BY <1>4, <1>7, <1>9, FS_AddElement
<1>11. Cardinality(Live') <= MaxMailboxes
  <2>1. Cardinality(Live) \in Nat
    BY <1>9, FS_CardinalityType
  <2>. QED
    BY <1>4, <1>10, <2>1, LimitTypes
<1>12. \A n \in Mailbox : /\ MaterialOf(records)[n] \in Nat
                          /\ EvidenceOf(records)[n] \in Nat
                          /\ CommittedOf(records)[n] \in Nat
  BY <1>6, FunctionsNatural DEF QuotaInv, Within
<1>13. \A n \in Live :
          /\ MaterialOf(records')[n] = MaterialOf(records)[n]
          /\ EvidenceOf(records')[n] = EvidenceOf(records)[n]
          /\ CommittedOf(records')[n] = CommittedOf(records)[n]
  <2>1. \A n \in Live : n \in Mailbox /\ records'[n] = records[n]
    BY <1>4, <1>6, <1>7
  <2>. QED
    BY <2>1 DEF MaterialOf, EvidenceOf, CommittedOf
<1>14. /\ MaterialOf(records')[m] = 0 /\ EvidenceOf(records')[m] = 0
       /\ CommittedOf(records')[m] = 0
  BY <1>1, <1>5, <1>6 DEF MaterialOf, EvidenceOf, CommittedOf
<1>15. SumOf(MaterialOf(records'), Live') = SumOf(MaterialOf(records), Live)
  <2>. DEFINE g == MaterialOf(records)
              h == MaterialOf(records')
  <2>1. \A n \in Live : g[n] \in Nat /\ h[n] = g[n]
    BY <1>7, <1>12, <1>13
  <2>0. h[m] = 0 /\ h[m] \in Nat /\ m \notin Live
    BY <1>4, <1>14
  <2>. HIDE DEF g, h
  <2>2. SumOf(h, Live \cup {m}) = SumOf(g, Live) + h[m]
    BY <1>9, <2>0, <2>1, SumAdd
  <2>3. SumOf(g, Live) \in Nat
    BY <1>9, <2>1, SumNatural
  <2>. QED
    BY <1>7, <2>0, <2>2, <2>3 DEF g, h
<1>16. SumOf(EvidenceOf(records'), Live') = SumOf(EvidenceOf(records), Live)
  <2>. DEFINE g == EvidenceOf(records)
              h == EvidenceOf(records')
  <2>1. \A n \in Live : g[n] \in Nat /\ h[n] = g[n]
    BY <1>7, <1>12, <1>13
  <2>0. h[m] = 0 /\ h[m] \in Nat /\ m \notin Live
    BY <1>4, <1>14
  <2>. HIDE DEF g, h
  <2>2. SumOf(h, Live \cup {m}) = SumOf(g, Live) + h[m]
    BY <1>9, <2>0, <2>1, SumAdd
  <2>3. SumOf(g, Live) \in Nat
    BY <1>9, <2>1, SumNatural
  <2>. QED
    BY <1>7, <2>0, <2>2, <2>3 DEF g, h
<1>17. SumOf(CommittedOf(records'), Live') = SumOf(CommittedOf(records), Live)
  <2>. DEFINE g == CommittedOf(records)
              h == CommittedOf(records')
  <2>1. \A n \in Live : g[n] \in Nat /\ h[n] = g[n]
    BY <1>7, <1>12, <1>13
  <2>0. h[m] = 0 /\ h[m] \in Nat /\ m \notin Live
    BY <1>4, <1>14
  <2>. HIDE DEF g, h
  <2>2. SumOf(h, Live \cup {m}) = SumOf(g, Live) + h[m]
    BY <1>9, <2>0, <2>1, SumAdd
  <2>3. SumOf(g, Live) \in Nat
    BY <1>9, <2>1, SumNatural
  <2>. QED
    BY <1>7, <2>0, <2>2, <2>3 DEF g, h
<1>18. total' = TotalOf(records', Live')
  BY <1>4, <1>15, <1>16, <1>17 DEF QuotaInv, TotalOf
<1>. QED
  BY <1>4, <1>7, <1>8, <1>10, <1>11, <1>18 DEF QuotaInv

\* The counters after a sweep that clears or removes the records of P.
LEMMA SweptTotal ==
    ASSUME Inv, QuotaInv, NEW P \in SUBSET Live, total' = TotalWithout(P),
           \A n \in Live \ P :
              /\ records'[n].material = records[n].material
              /\ EvidenceBytes(records'[n]) = EvidenceBytes(records[n])
              /\ CommittedBytes(records'[n]) = CommittedBytes(records[n]),
           \/ Live' = Live \ P
           \/ /\ Live' = Live
              /\ \A n \in P : /\ records'[n].material = 0
                              /\ EvidenceBytes(records'[n]) = 0
                              /\ CommittedBytes(records'[n]) = 0
    PROVE  total' = TotalOf(records', Live') /\ WithinCeilings(total')
<1>0. IsFiniteSet(Live)
  BY DEF QuotaInv
<1>1. /\ Live \subseteq Mailbox /\ IsFiniteSet(Live) /\ P \in SUBSET Mailbox
      /\ P \subseteq Live
  BY DEF Live, QuotaInv
<1>2. IsFiniteSet(P)
  BY <1>1, FS_Subset
<1>3. \A n \in Mailbox : /\ MaterialOf(records)[n] \in Nat
                         /\ EvidenceOf(records)[n] \in Nat
                         /\ CommittedOf(records)[n] \in Nat
  BY FunctionsNatural DEF Inv, QuotaInv, Within
<1>4. \A n \in Live \ P :
          /\ MaterialOf(records')[n] = MaterialOf(records)[n]
          /\ EvidenceOf(records')[n] = EvidenceOf(records)[n]
          /\ CommittedOf(records')[n] = CommittedOf(records)[n]
  BY <1>1 DEF MaterialOf, EvidenceOf, CommittedOf
<1>5. \/ Live' = Live \ P
      \/ /\ Live' = Live
         /\ \A n \in P : /\ MaterialOf(records')[n] = 0
                         /\ EvidenceOf(records')[n] = 0
                         /\ CommittedOf(records')[n] = 0
  BY <1>1 DEF MaterialOf, EvidenceOf, CommittedOf
<1>6. /\ SumOf(MaterialOf(records'), Live')
           = SumOf(MaterialOf(records), Live) - SumOf(MaterialOf(records), P)
      /\ SumOf(MaterialOf(records), P) \in Nat
  <2>. DEFINE g == MaterialOf(records)
              h == MaterialOf(records')
              L == Live'
  <2>1. \A n \in Live : g[n] \in Nat
    BY <1>1, <1>3
  <2>2. \A n \in Live \ P : h[n] = g[n]
    BY <1>4
  <2>3. L = Live \ P \/ (L = Live /\ \A n \in P : h[n] = 0)
    BY <1>5
  <2>. HIDE DEF g, h, L
  <2>4. SumOf(h, L) = SumOf(g, Live) - SumOf(g, P) /\ SumOf(g, P) \in Nat
    <3>1. CASE L = Live \ P
      BY <1>0, <2>1, <2>2, <3>1, SumLeft
    <3>2. CASE L = Live /\ \A n \in P : h[n] = 0
      <4>1. \A n \in P : h[n] = 0
        BY <3>2
      <4>2. /\ SumOf(h, Live) = SumOf(g, Live) - SumOf(g, P)
            /\ SumOf(g, P) \in Nat
        BY <1>0, <2>1, <2>2, <4>1, SumCleared
      <4>. QED
        BY <3>2, <4>2
    <3>. QED
      BY <2>3, <3>1, <3>2
  <2>. QED
    BY <2>4 DEF g, h, L
<1>7. /\ SumOf(EvidenceOf(records'), Live')
           = SumOf(EvidenceOf(records), Live) - SumOf(EvidenceOf(records), P)
      /\ SumOf(EvidenceOf(records), P) \in Nat
  <2>. DEFINE g == EvidenceOf(records)
              h == EvidenceOf(records')
              L == Live'
  <2>1. \A n \in Live : g[n] \in Nat
    BY <1>1, <1>3
  <2>2. \A n \in Live \ P : h[n] = g[n]
    BY <1>4
  <2>3. L = Live \ P \/ (L = Live /\ \A n \in P : h[n] = 0)
    BY <1>5
  <2>. HIDE DEF g, h, L
  <2>4. SumOf(h, L) = SumOf(g, Live) - SumOf(g, P) /\ SumOf(g, P) \in Nat
    <3>1. CASE L = Live \ P
      BY <1>0, <2>1, <2>2, <3>1, SumLeft
    <3>2. CASE L = Live /\ \A n \in P : h[n] = 0
      <4>1. \A n \in P : h[n] = 0
        BY <3>2
      <4>2. /\ SumOf(h, Live) = SumOf(g, Live) - SumOf(g, P)
            /\ SumOf(g, P) \in Nat
        BY <1>0, <2>1, <2>2, <4>1, SumCleared
      <4>. QED
        BY <3>2, <4>2
    <3>. QED
      BY <2>3, <3>1, <3>2
  <2>. QED
    BY <2>4 DEF g, h, L
<1>8. /\ SumOf(CommittedOf(records'), Live')
           = SumOf(CommittedOf(records), Live) - SumOf(CommittedOf(records), P)
      /\ SumOf(CommittedOf(records), P) \in Nat
  <2>. DEFINE g == CommittedOf(records)
              h == CommittedOf(records')
              L == Live'
  <2>1. \A n \in Live : g[n] \in Nat
    BY <1>1, <1>3
  <2>2. \A n \in Live \ P : h[n] = g[n]
    BY <1>4
  <2>3. L = Live \ P \/ (L = Live /\ \A n \in P : h[n] = 0)
    BY <1>5
  <2>. HIDE DEF g, h, L
  <2>4. SumOf(h, L) = SumOf(g, Live) - SumOf(g, P) /\ SumOf(g, P) \in Nat
    <3>1. CASE L = Live \ P
      BY <1>0, <2>1, <2>2, <3>1, SumLeft
    <3>2. CASE L = Live /\ \A n \in P : h[n] = 0
      <4>1. \A n \in P : h[n] = 0
        BY <3>2
      <4>2. /\ SumOf(h, Live) = SumOf(g, Live) - SumOf(g, P)
            /\ SumOf(g, P) \in Nat
        BY <1>0, <2>1, <2>2, <4>1, SumCleared
      <4>. QED
        BY <3>2, <4>2
    <3>. QED
      BY <2>3, <3>1, <3>2
  <2>. QED
    BY <2>4 DEF g, h, L
<1>9. total'
        = [active |-> total.active - SumOf(MaterialOf(records), P),
           evidence |-> total.evidence - SumOf(EvidenceOf(records), P),
           committed |-> total.committed - SumOf(CommittedOf(records), P)]
  BY <1>1, <1>2, TotalWithoutSum
<1>10. total' = TotalOf(records', Live')
  <2>1. /\ total.active = SumOf(MaterialOf(records), Live)
        /\ total.evidence = SumOf(EvidenceOf(records), Live)
        /\ total.committed = SumOf(CommittedOf(records), Live)
    BY DEF QuotaInv, TotalOf
  <2>. QED
    BY <1>6, <1>7, <1>8, <1>9, <2>1 DEF TotalOf
<1>11. WithinCeilings(total')
  <2>1. /\ total.active \in Nat /\ total.evidence \in Nat
        /\ total.committed \in Nat /\ WithinCeilings(total)
    BY TotalNatural DEF QuotaInv
  <2>. QED
    BY <1>6, <1>7, <1>8, <1>9, <2>1, LimitTypes DEF WithinCeilings
<1>. QED
  BY <1>10, <1>11

\* A record that a sweep only observes counts for what it counted for.
LEMMA SweptUnharmed ==
    ASSUME NEW r \in Record, NEW now \in Time, Within(r)
    PROVE  LET s == [r EXCEPT !.seen = now]
           IN  /\ Within(s) /\ s.state = r.state /\ s.material = r.material
               /\ EvidenceBytes(s) = EvidenceBytes(r)
               /\ CommittedBytes(s) = CommittedBytes(r)
<1>. DEFINE s == [r EXCEPT !.seen = now]
<1>1. /\ s.state = r.state /\ s.material = r.material
      /\ s.evidence = r.evidence /\ s.result = r.result
      /\ s.committed = r.committed /\ s.binding = r.binding
  BY DEF Record
<1>. HIDE DEF s
<1>2. Staged(s) = Staged(r) /\ EvidenceBytes(s) = EvidenceBytes(r)
  BY <1>1, SameEvidenceBytes
<1>3. CommittedBytes(s) = CommittedBytes(r)
  BY <1>1, <1>2 DEF CommittedBytes
<1>4. Within(s)
  BY <1>1, <1>2 DEF Within
<1>. QED
  BY <1>1, <1>2, <1>3, <1>4 DEF s


\* expire gives back what the due records counted for, all at once.
LEMMA ExpireKeepsQuota ==
    ASSUME Inv, QuotaInv, NEW c, NEW now \in Time, Expire(c, now)
    PROVE  QuotaInv'
<1>. DEFINE due == {m \in Live : Due(records[m], now)}
<1>1. due \in SUBSET Live /\ due \subseteq Mailbox /\ Live \subseteq Mailbox
  BY DEF Live
<1>2. /\ total' = TotalWithout(due) /\ tombstones' = tombstones
      /\ \A n \in due : records'[n] = ExpiredRecord(records[n], now)
      /\ \A n \in Live \ due : records'[n] = [records[n] EXCEPT !.seen = now]
      /\ \A n \in Mailbox \ Live : records'[n] = records[n]
  BY <1>1 DEF Expire
<1>3. highWater <= now /\ highWater \in Instant
  BY MarkAdvances, TimeTypes DEF Inv, Expire, SweepAllowed
<1>4. ASSUME NEW n \in due
      PROVE  /\ Within(records'[n]) /\ records'[n].state = "EXPIRED"
             /\ records'[n].material = 0 /\ EvidenceBytes(records'[n]) = 0
             /\ CommittedBytes(records'[n]) = 0
  <2>. DEFINE s == ExpiredRecord(records[n], now)
  <2>1. /\ n \in Mailbox /\ GoodRecord(records[n], n, highWater)
        /\ Due(records[n], now) /\ records[n] \in Record
    BY <1>1 DEF Inv
  <2>2. GoodRecord(s, n, now)
    BY <1>3, <2>1, TimeTypes, ExpiredGood
  <2>3. s.state = "EXPIRED"
    BY <2>1 DEF ExpiredRecord, ClearedMaterial, ReleasedPayloads, Record
  <2>4. records'[n] = s
    BY <1>2
  <2>. HIDE DEF s
  <2>. QED
    BY <2>2, <2>3, <2>4, EmptyCounts
<1>5. ASSUME NEW n \in Live \ due
      PROVE  /\ Within(records'[n]) /\ records'[n].state # "ABSENT"
             /\ records'[n].material = records[n].material
             /\ EvidenceBytes(records'[n]) = EvidenceBytes(records[n])
             /\ CommittedBytes(records'[n]) = CommittedBytes(records[n])
  <2>1. n \in Mailbox /\ records[n].state # "ABSENT"
    BY <1>5 DEF Live
  <2>2. records[n] \in Record /\ Within(records[n])
    BY <2>1, Counted
  <2>3. records'[n] = [records[n] EXCEPT !.seen = now]
    BY <1>2, <1>5
  <2>. QED
    BY <2>1, <2>2, <2>3, SweptUnharmed
<1>. HIDE DEF due
<1>6. Live' = Live /\ Tombstoned' = Tombstoned
  <2>1. \A n \in Mailbox : records'[n].state # "ABSENT" <=> records[n].state # "ABSENT"
    <3>. TAKE n \in Mailbox
    <3>1. CASE n \in due
      BY <1>1, <1>4, <3>1 DEF Live
    <3>2. CASE n \in Live \ due
      BY <1>5, <3>2 DEF Live
    <3>3. CASE n \in Mailbox \ Live
      BY <1>2, <3>3
    <3>. QED
      BY <1>1, <3>1, <3>2, <3>3
  <2>. QED
    BY <1>2, <2>1 DEF Live, Tombstoned
<1>7. \A n \in Mailbox : Within(records'[n])
  <2>. TAKE n \in Mailbox
  <2>1. CASE n \in Mailbox \ Live
    BY <1>2, <2>1 DEF QuotaInv
  <2>. QED
    BY <1>1, <1>4, <1>5, <2>1
<1>8. total' = TotalOf(records', Live') /\ WithinCeilings(total')
  BY <1>1, <1>2, <1>4, <1>5, <1>6, SweptTotal
<1>. QED
  BY <1>6, <1>7, <1>8 DEF QuotaInv

\* garbage_collect gives back what the removed records counted for, and their
\* tombstones fit beside the ones that are kept.
LEMMA GarbageCollectKeepsQuota ==
    ASSUME Inv, QuotaInv, NEW c, NEW removed, NEW now \in Time,
           GarbageCollect(c, removed, now)
    PROVE  QuotaInv'
<1>. DEFINE kept == {m \in Tombstoned : tombstones[m] > now}
<1>1. /\ removed \in SUBSET Live /\ removed \subseteq Live
      /\ removed \subseteq Mailbox /\ Live \subseteq Mailbox
      /\ Cardinality(removed) + Cardinality(kept) <= MaxTombstones
  BY DEF Live, GarbageCollect, RemovedBySweep, Collectable
<1>2. /\ total' = TotalWithout(removed)
      /\ \A n \in removed : records'[n] = NoRecord
      /\ \A n \in Live \ removed : records'[n] = [records[n] EXCEPT !.seen = now]
      /\ \A n \in Mailbox \ Live : records'[n] = records[n]
  BY <1>1 DEF GarbageCollect
<1>3. Tombstoned' \subseteq removed \cup kept
  BY DEF GarbageCollect, Tombstoned
<1>4. /\ IsFiniteSet(Live) /\ IsFiniteSet(Tombstoned)
      /\ kept \subseteq Tombstoned
  BY DEF QuotaInv
<1>. HIDE DEF kept
<1>5. /\ IsFiniteSet(removed) /\ IsFiniteSet(kept)
      /\ Cardinality(removed) \in Nat /\ Cardinality(kept) \in Nat
  BY <1>1, <1>4, FS_Subset, FS_CardinalityType
<1>6. IsFiniteSet(Tombstoned') /\ Cardinality(Tombstoned') <= MaxTombstones
  <2>. DEFINE V == removed \cup kept
              W == Tombstoned'
  <2>1. /\ IsFiniteSet(V)
        /\ Cardinality(V) = Cardinality(removed) + Cardinality(kept)
                              - Cardinality(removed \cap kept)
    BY <1>5, FS_Union
  <2>2. Cardinality(removed \cap kept) \in Nat
    BY <1>5, FS_Intersection, FS_CardinalityType
  <2>3. W \subseteq V
    BY <1>3
  <2>. HIDE DEF V, W
  <2>4. IsFiniteSet(W) /\ Cardinality(W) <= Cardinality(V)
    BY <2>1, <2>3, FS_Subset
  <2>5. Cardinality(W) \in Nat /\ Cardinality(V) \in Nat
    BY <2>1, <2>4, FS_CardinalityType
  <2>6. Cardinality(W) <= MaxTombstones
    BY <1>1, <1>5, <2>1, <2>2, <2>4, <2>5, LimitTypes
  <2>. QED
    BY <2>4, <2>6 DEF W
<1>7. ASSUME NEW n \in Live \ removed
      PROVE  /\ Within(records'[n]) /\ records'[n].state # "ABSENT"
             /\ records'[n].material = records[n].material
             /\ EvidenceBytes(records'[n]) = EvidenceBytes(records[n])
             /\ CommittedBytes(records'[n]) = CommittedBytes(records[n])
  <2>1. n \in Mailbox /\ records[n].state # "ABSENT"
    BY <1>7 DEF Live
  <2>2. records[n] \in Record /\ Within(records[n])
    BY <2>1, Counted
  <2>3. records'[n] = [records[n] EXCEPT !.seen = now]
    BY <1>2, <1>7
  <2>. QED
    BY <2>1, <2>2, <2>3, SweptUnharmed
<1>8. Within(NoRecord) /\ NoRecord.state = "ABSENT"
  <2>1. NoRecord.state = "ABSENT"
    BY DEF NoRecord
  <2>. QED
    BY <2>1, NoRecordGood, EmptyCounts
<1>9. Live' = Live \ removed
  <2>1. \A n \in Mailbox : records'[n].state # "ABSENT" <=> n \in Live \ removed
    <3>. TAKE n \in Mailbox
    <3>1. CASE n \in removed
      BY <1>2, <1>8, <3>1
    <3>2. CASE n \in Live \ removed
      BY <1>7, <3>2
    <3>3. CASE n \in Mailbox \ Live
      BY <1>2, <3>3 DEF Live
    <3>. QED
      BY <3>1, <3>2, <3>3
  <2>. QED
    BY <1>1, <2>1 DEF Live
<1>10. IsFiniteSet(Live') /\ Cardinality(Live') <= MaxMailboxes
  <2>. DEFINE W == Live'
  <2>1. W \subseteq Live
    BY <1>9
  <2>. HIDE DEF W
  <2>2. IsFiniteSet(W) /\ Cardinality(W) <= Cardinality(Live)
    BY <1>4, <2>1, FS_Subset
  <2>3. Cardinality(W) \in Nat /\ Cardinality(Live) \in Nat
    BY <1>4, <2>2, FS_CardinalityType
  <2>4. Cardinality(Live) <= MaxMailboxes
    BY DEF QuotaInv
  <2>5. Cardinality(W) <= MaxMailboxes
    BY <2>2, <2>3, <2>4, LimitTypes
  <2>. QED
    BY <2>2, <2>5 DEF W
<1>11. \A n \in Mailbox : Within(records'[n])
  <2>. TAKE n \in Mailbox
  <2>1. CASE n \in removed
    BY <1>2, <1>8, <2>1
  <2>2. CASE n \in Live \ removed
    BY <1>7, <2>2
  <2>3. CASE n \in Mailbox \ Live
    BY <1>2, <2>3 DEF QuotaInv
  <2>. QED
    BY <2>1, <2>2, <2>3
<1>12. total' = TotalOf(records', Live') /\ WithinCeilings(total')
  BY <1>1, <1>2, <1>7, <1>9, SweptTotal
<1>. QED
  BY <1>6, <1>10, <1>11, <1>12 DEF QuotaInv

\* A repository that was just built counts nothing.
LEMMA InitEstablishesQuota == Init => QuotaInv
<1>. SUFFICES ASSUME Init PROVE QuotaInv
  OBVIOUS
<1>1. NoRecord.state = "ABSENT"
  BY DEF NoRecord
<1>2. Within(NoRecord)
  BY <1>1, NoRecordGood, EmptyCounts
<1>3. /\ \A m \in Mailbox : records[m] = NoRecord /\ tombstones[m] = NoTime
      /\ total = [active |-> 0, evidence |-> 0, committed |-> 0]
  BY DEF Init
<1>4. Live = {} /\ Tombstoned = {}
  BY <1>1, <1>3 DEF Live, Tombstoned
<1>5. IsFiniteSet({}) /\ Cardinality({}) = 0
  BY FS_EmptySet
<1>6. total = TotalOf(records, Live)
  BY <1>3, <1>4, SumEmpty DEF TotalOf
<1>7. WithinCeilings(total)
  BY <1>3, LimitTypes DEF WithinCeilings
<1>8. /\ IsFiniteSet(Live) /\ Cardinality(Live) <= MaxMailboxes
      /\ IsFiniteSet(Tombstoned) /\ Cardinality(Tombstoned) <= MaxTombstones
  BY <1>4, <1>5, LimitTypes
<1>. QED
  BY <1>2, <1>3, <1>6, <1>7, <1>8 DEF QuotaInv

\* Every operation of ports.py keeps the accounts.
LEMMA NextKeepsQuota == Inv /\ QuotaInv /\ [Next]_repository => QuotaInv'
<1>. SUFFICES ASSUME Inv, QuotaInv, [Next]_repository PROVE QuotaInv'
  OBVIOUS
<1>1. ASSUME NEW now \in Time, NEW c \in Credential, ConnectorOperation(c, now)
      PROVE  QuotaInv'
  BY <1>1, ClaimKeepsQuota, StageEvidenceKeepsQuota, CommitResultKeepsQuota
     DEF ConnectorOperation
<1>2. ASSUME NEW now \in Time, NEW t \in CredentialTriple, CoreOperation(t, now)
      PROVE  QuotaInv'
  BY <1>2, CreateKeepsQuota, OfferKeepsQuota, CollectKeepsQuota,
     AcknowledgeKeepsQuota, AbandonKeepsQuota, SnapshotKeepsQuota
     DEF CoreOperation
<1>3. ASSUME NEW now \in Time, NEW c \in Credential, MaintenanceOperation(c, now)
      PROVE  QuotaInv'
  BY <1>3, ExpireKeepsQuota, GarbageCollectKeepsQuota DEF MaintenanceOperation
<1>4. CASE UNCHANGED repository
  BY <1>4 DEF repository, QuotaInv, Live, Tombstoned
<1>. QED
  BY <1>1, <1>2, <1>3, <1>4 DEF Next

\* The accounts of volatile.py in their inductive form, for any number of
\* mailboxes and evidence objects, finite or not.
THEOREM QuotaInvariance == Spec => []QuotaInv
BY InitEstablishesQuota, NextKeepsQuota, Invariance, PTL DEF Spec

\* The byte counters that the methods of volatile.py add to and subtract from
\* are, after any sequence of calls, the sums over the live records they stand
\* for and within their ceilings; no record exceeds its own response budget,
\* and neither table outgrows its limit.
THEOREM QuotaTheorem == Spec => []QuotaAccounting
BY QuotaInvSays, QuotaInvariance, PTL
=============================================================================
