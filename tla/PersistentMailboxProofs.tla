----------------------- MODULE PersistentMailboxProofs -----------------------
(***************************************************************************)
(* Proofs about the durable mailbox.  The row and the hydrated repository  *)
(* are both states of the one-process repository, so the theorems of       *)
(* MailboxRepositoryProofs are used twice: for the row, and as Hydrated!   *)
(* for the repository inside a transaction.  The proof of the protocol     *)
(* around them says which handle may hold what at which phase; that the    *)
(* row implements the one-process repository follows once each call is     *)
(* known to hold the row, or what one operation makes of it.               *)
(***************************************************************************)
EXTENDS PersistentMailbox, MailboxRepositoryProofs

Hydrated == INSTANCE MailboxRepositoryProofs
                WITH records <- wRecords, tombstones <- wTombstones,
                     highWater <- wHighWater, total <- wTotal

-----------------------------------------------------------------------------
(* An operation of Work is the same operation of Hydrated: the two are     *)
(* instances of one module, and only their names differ.                   *)

\* claim on the hydrated repository.
LEMMA SameClaim ==
    ASSUME NEW b, NEW c, NEW now
    PROVE  Work!Claim(b, c, now) => Hydrated!Claim(b, c, now)
BY DEF Work!Claim, Hydrated!Claim, Work!ClaimedRecord,
   Hydrated!ClaimedRecord, Work!Observe, Hydrated!Observe,
   Work!AdvanceInstallationTime, Hydrated!AdvanceInstallationTime,
   Work!IsExpired, Hydrated!IsExpired, Work!Due, Hydrated!Due,
   Work!DeadlineOf, Hydrated!DeadlineOf, Work!Pending, Hydrated!Pending,
   Work!DeniedAsExpired, Hydrated!DeniedAsExpired, Work!TotalWithout,
   Hydrated!TotalWithout, Work!CommittedBytes, Hydrated!CommittedBytes,
   Work!EvidenceBytes, Hydrated!EvidenceBytes, Work!Staged, Hydrated!Staged,
   Work!MapThenSumSet, Hydrated!MapThenSumSet, Work!MapThenFoldSet,
   Hydrated!MapThenFoldSet, Work!NoTime, Hydrated!NoTime, Work!ExpiredRecord,
   Hydrated!ExpiredRecord, Work!ClearedMaterial, Hydrated!ClearedMaterial,
   Work!ReleasedPayloads, Hydrated!ReleasedPayloads, Work!NoEvidence,
   Hydrated!NoEvidence, Work!Accessible, Hydrated!Accessible,
   Work!InstallationNow, Hydrated!InstallationNow,
   Work!ValidatedRecordMaterial, Hydrated!ValidatedRecordMaterial


\* stage_evidence on the hydrated repository.
LEMMA SameStageEvidence ==
    ASSUME NEW b, NEW c, NEW o, NEW p, NEW now
    PROVE  Work!StageEvidence(b, c, o, p, now)
               => Hydrated!StageEvidence(b, c, o, p, now)
BY DEF Work!Cardinality, Hydrated!Cardinality, Work!StageEvidence,
   Hydrated!StageEvidence, Work!Observe, Hydrated!Observe,
   Work!AdvanceInstallationTime, Hydrated!AdvanceInstallationTime,
   Work!EvidenceBytes, Hydrated!EvidenceBytes, Work!Staged, Hydrated!Staged,
   Work!MapThenSumSet, Hydrated!MapThenSumSet, Work!MapThenFoldSet,
   Hydrated!MapThenFoldSet, Work!IsExpired, Hydrated!IsExpired, Work!Due,
   Hydrated!Due, Work!DeadlineOf, Hydrated!DeadlineOf, Work!Pending,
   Hydrated!Pending, Work!DeniedAsExpired, Hydrated!DeniedAsExpired,
   Work!TotalWithout, Hydrated!TotalWithout, Work!CommittedBytes,
   Hydrated!CommittedBytes, Work!NoTime, Hydrated!NoTime, Work!ExpiredRecord,
   Hydrated!ExpiredRecord, Work!ClearedMaterial, Hydrated!ClearedMaterial,
   Work!ReleasedPayloads, Hydrated!ReleasedPayloads, Work!NoEvidence,
   Hydrated!NoEvidence, Work!Accessible, Hydrated!Accessible,
   Work!InstallationNow, Hydrated!InstallationNow,
   Work!ValidatedRecordMaterial, Hydrated!ValidatedRecordMaterial,
   Work!ResultAccess, Hydrated!ResultAccess


\* commit_result on the hydrated repository.
LEMMA SameCommitResult ==
    ASSUME NEW b, NEW c, NEW seals, NEW size, NEW now
    PROVE  Work!CommitResult(b, c, seals, size, now)
               => Hydrated!CommitResult(b, c, seals, size, now)
BY DEF Work!CommitResult, Hydrated!CommitResult, Work!Staged,
   Hydrated!Staged, Work!Observe, Hydrated!Observe,
   Work!AdvanceInstallationTime, Hydrated!AdvanceInstallationTime,
   Work!SealsMatch, Hydrated!SealsMatch, Work!IsExpired, Hydrated!IsExpired,
   Work!Due, Hydrated!Due, Work!DeadlineOf, Hydrated!DeadlineOf,
   Work!Pending, Hydrated!Pending, Work!DeniedAsExpired,
   Hydrated!DeniedAsExpired, Work!TotalWithout, Hydrated!TotalWithout,
   Work!CommittedBytes, Hydrated!CommittedBytes, Work!EvidenceBytes,
   Hydrated!EvidenceBytes, Work!MapThenSumSet, Hydrated!MapThenSumSet,
   Work!MapThenFoldSet, Hydrated!MapThenFoldSet, Work!NoTime,
   Hydrated!NoTime, Work!ExpiredRecord, Hydrated!ExpiredRecord,
   Work!ClearedMaterial, Hydrated!ClearedMaterial, Work!ReleasedPayloads,
   Hydrated!ReleasedPayloads, Work!NoEvidence, Hydrated!NoEvidence,
   Work!Accessible, Hydrated!Accessible, Work!InstallationNow,
   Hydrated!InstallationNow, Work!ValidatedRecordMaterial,
   Hydrated!ValidatedRecordMaterial, Work!ResultAccess, Hydrated!ResultAccess


\* create on the hydrated repository.
LEMMA SameCreate ==
    ASSUME NEW b, NEW t, NEW now
    PROVE  Work!Create(b, t, now) => Hydrated!Create(b, t, now)
BY DEF Work!Cardinality, Hydrated!Cardinality, Work!Create, Hydrated!Create,
   Work!AdvanceInstallationTime, Hydrated!AdvanceInstallationTime,
   Work!NewRecord, Hydrated!NewRecord, Work!NoRecord, Hydrated!NoRecord,
   Work!NoTime, Hydrated!NoTime, Work!NoEvidence, Hydrated!NoEvidence,
   Work!CredentialInUse, Hydrated!CredentialInUse, Work!Time, Hydrated!Time,
   Work!CredentialsOf, Hydrated!CredentialsOf, Work!Live, Hydrated!Live,
   Work!Tombstoned, Hydrated!Tombstoned, Work!InstallationNow,
   Hydrated!InstallationNow


\* offer on the hydrated repository.
LEMMA SameOffer ==
    ASSUME NEW b, NEW t, NEW result, NEW now
    PROVE  Work!Offer(b, t, result, now)
               => Hydrated!Offer(b, t, result, now)
BY DEF Work!Offer, Hydrated!Offer, Work!Observe, Hydrated!Observe,
   Work!AdvanceInstallationTime, Hydrated!AdvanceInstallationTime,
   Work!IsExpired, Hydrated!IsExpired, Work!Due, Hydrated!Due,
   Work!DeadlineOf, Hydrated!DeadlineOf, Work!Pending, Hydrated!Pending,
   Work!DeniedAsExpired, Hydrated!DeniedAsExpired, Work!TotalWithout,
   Hydrated!TotalWithout, Work!CommittedBytes, Hydrated!CommittedBytes,
   Work!EvidenceBytes, Hydrated!EvidenceBytes, Work!Staged, Hydrated!Staged,
   Work!MapThenSumSet, Hydrated!MapThenSumSet, Work!MapThenFoldSet,
   Hydrated!MapThenFoldSet, Work!NoTime, Hydrated!NoTime, Work!ExpiredRecord,
   Hydrated!ExpiredRecord, Work!ClearedMaterial, Hydrated!ClearedMaterial,
   Work!ReleasedPayloads, Hydrated!ReleasedPayloads, Work!NoEvidence,
   Hydrated!NoEvidence, Work!CredentialInUse, Hydrated!CredentialInUse,
   Work!Time, Hydrated!Time, Work!CredentialsOf, Hydrated!CredentialsOf,
   Work!Live, Hydrated!Live, Work!Accessible, Hydrated!Accessible,
   Work!InstallationNow, Hydrated!InstallationNow,
   Work!ValidatedRecordMaterial, Hydrated!ValidatedRecordMaterial


\* collect on the hydrated repository.
LEMMA SameCollect ==
    ASSUME NEW m, NEW c, NEW now
    PROVE  Work!Collect(m, c, now) => Hydrated!Collect(m, c, now)
BY DEF Work!Collect, Hydrated!Collect, Work!Observe, Hydrated!Observe,
   Work!AdvanceInstallationTime, Hydrated!AdvanceInstallationTime,
   Work!Accessible, Hydrated!Accessible, Work!InstallationNow,
   Hydrated!InstallationNow, Work!ValidatedRecordMaterial,
   Hydrated!ValidatedRecordMaterial, Work!Staged, Hydrated!Staged,
   Work!NoTime, Hydrated!NoTime


\* acknowledge_collection on the hydrated repository.
LEMMA SameAcknowledgeCollection ==
    ASSUME NEW m, NEW c, NEW now
    PROVE  Work!AcknowledgeCollection(m, c, now)
               => Hydrated!AcknowledgeCollection(m, c, now)
BY DEF Work!AcknowledgeCollection, Hydrated!AcknowledgeCollection,
   Work!CommittedBytes, Hydrated!CommittedBytes, Work!EvidenceBytes,
   Hydrated!EvidenceBytes, Work!Staged, Hydrated!Staged, Work!MapThenSumSet,
   Hydrated!MapThenSumSet, Work!MapThenFoldSet, Hydrated!MapThenFoldSet,
   Work!NoTime, Hydrated!NoTime, Work!ReleasedPayloads,
   Hydrated!ReleasedPayloads, Work!NoEvidence, Hydrated!NoEvidence,
   Work!Observe, Hydrated!Observe, Work!AdvanceInstallationTime,
   Hydrated!AdvanceInstallationTime, Work!Accessible, Hydrated!Accessible,
   Work!InstallationNow, Hydrated!InstallationNow,
   Work!ValidatedRecordMaterial, Hydrated!ValidatedRecordMaterial


\* abandon on the hydrated repository.
LEMMA SameAbandon ==
    ASSUME NEW m, NEW c, NEW now
    PROVE  Work!Abandon(m, c, now) => Hydrated!Abandon(m, c, now)
BY DEF Work!Abandon, Hydrated!Abandon, Work!TotalWithout,
   Hydrated!TotalWithout, Work!CommittedBytes, Hydrated!CommittedBytes,
   Work!EvidenceBytes, Hydrated!EvidenceBytes, Work!Staged, Hydrated!Staged,
   Work!MapThenSumSet, Hydrated!MapThenSumSet, Work!MapThenFoldSet,
   Hydrated!MapThenFoldSet, Work!NoTime, Hydrated!NoTime,
   Work!ClearedMaterial, Hydrated!ClearedMaterial, Work!ReleasedPayloads,
   Hydrated!ReleasedPayloads, Work!NoEvidence, Hydrated!NoEvidence,
   Work!Observe, Hydrated!Observe, Work!AdvanceInstallationTime,
   Hydrated!AdvanceInstallationTime, Work!Pending, Hydrated!Pending,
   Work!IsExpired, Hydrated!IsExpired, Work!Due, Hydrated!Due,
   Work!DeadlineOf, Hydrated!DeadlineOf, Work!DeniedAsExpired,
   Hydrated!DeniedAsExpired, Work!ExpiredRecord, Hydrated!ExpiredRecord,
   Work!Accessible, Hydrated!Accessible, Work!InstallationNow,
   Hydrated!InstallationNow, Work!ValidatedRecordMaterial,
   Hydrated!ValidatedRecordMaterial


\* snapshot on the hydrated repository.
LEMMA SameSnapshot ==
    ASSUME NEW m, NEW c, NEW now
    PROVE  Work!Snapshot(m, c, now) => Hydrated!Snapshot(m, c, now)
BY DEF Work!Snapshot, Hydrated!Snapshot, Work!Observe, Hydrated!Observe,
   Work!AdvanceInstallationTime, Hydrated!AdvanceInstallationTime,
   Work!IsExpired, Hydrated!IsExpired, Work!Due, Hydrated!Due,
   Work!DeadlineOf, Hydrated!DeadlineOf, Work!Pending, Hydrated!Pending,
   Work!DeniedAsExpired, Hydrated!DeniedAsExpired, Work!TotalWithout,
   Hydrated!TotalWithout, Work!CommittedBytes, Hydrated!CommittedBytes,
   Work!EvidenceBytes, Hydrated!EvidenceBytes, Work!Staged, Hydrated!Staged,
   Work!MapThenSumSet, Hydrated!MapThenSumSet, Work!MapThenFoldSet,
   Hydrated!MapThenFoldSet, Work!NoTime, Hydrated!NoTime, Work!ExpiredRecord,
   Hydrated!ExpiredRecord, Work!ClearedMaterial, Hydrated!ClearedMaterial,
   Work!ReleasedPayloads, Hydrated!ReleasedPayloads, Work!NoEvidence,
   Hydrated!NoEvidence, Work!Accessible, Hydrated!Accessible,
   Work!InstallationNow, Hydrated!InstallationNow,
   Work!ValidatedRecordMaterial, Hydrated!ValidatedRecordMaterial


\* expire on the hydrated repository.
LEMMA SameExpire ==
    ASSUME NEW c, NEW now
    PROVE  Work!Expire(c, now) => Hydrated!Expire(c, now)
BY DEF Work!Expire, Hydrated!Expire, Work!AdvanceInstallationTime,
   Hydrated!AdvanceInstallationTime, Work!TotalWithout,
   Hydrated!TotalWithout, Work!CommittedBytes, Hydrated!CommittedBytes,
   Work!EvidenceBytes, Hydrated!EvidenceBytes, Work!Staged, Hydrated!Staged,
   Work!MapThenSumSet, Hydrated!MapThenSumSet, Work!MapThenFoldSet,
   Hydrated!MapThenFoldSet, Work!NoTime, Hydrated!NoTime, Work!Live,
   Hydrated!Live, Work!ExpiredRecord, Hydrated!ExpiredRecord,
   Work!ClearedMaterial, Hydrated!ClearedMaterial, Work!ReleasedPayloads,
   Hydrated!ReleasedPayloads, Work!NoEvidence, Hydrated!NoEvidence,
   Work!SweepAllowed, Hydrated!SweepAllowed, Work!InstallationNow,
   Hydrated!InstallationNow, Work!ValidatedRecordMaterial,
   Hydrated!ValidatedRecordMaterial, Work!Due, Hydrated!Due, Work!DeadlineOf,
   Hydrated!DeadlineOf, Work!Pending, Hydrated!Pending


\* garbage_collect on the hydrated repository.
LEMMA SameGarbageCollect ==
    ASSUME NEW c, NEW removed, NEW now
    PROVE  Work!GarbageCollect(c, removed, now)
               => Hydrated!GarbageCollect(c, removed, now)
BY DEF Work!Cardinality, Hydrated!Cardinality, Work!GarbageCollect,
   Hydrated!GarbageCollect, Work!repository, Hydrated!repository,
   Work!AdvanceInstallationTime, Hydrated!AdvanceInstallationTime,
   Work!TotalWithout, Hydrated!TotalWithout, Work!CommittedBytes,
   Hydrated!CommittedBytes, Work!EvidenceBytes, Hydrated!EvidenceBytes,
   Work!Staged, Hydrated!Staged, Work!MapThenSumSet, Hydrated!MapThenSumSet,
   Work!MapThenFoldSet, Hydrated!MapThenFoldSet, Work!NoTime,
   Hydrated!NoTime, Work!Live, Hydrated!Live, Work!NoRecord,
   Hydrated!NoRecord, Work!NoEvidence, Hydrated!NoEvidence,
   Work!RemovedBySweep, Hydrated!RemovedBySweep, Work!Collectable,
   Hydrated!Collectable, Work!TombstoneFits, Hydrated!TombstoneFits,
   Work!SweepAllowed, Hydrated!SweepAllowed, Work!InstallationNow,
   Hydrated!InstallationNow, Work!ValidatedRecordMaterial,
   Hydrated!ValidatedRecordMaterial, Work!Tombstoned, Hydrated!Tombstoned

\* The operation of a transaction is a step of the hydrated repository.
LEMMA AppliedIsNext ==
    ASSUME NEW now \in Time,
           \/ \E c \in Credential : Work!ConnectorOperation(c, now)
           \/ \E t \in CredentialTriple : Work!CoreOperation(t, now)
           \/ Work!MaintenanceOperation(Maintenance, now)
    PROVE  Hydrated!Next
<1>1. ASSUME NEW c \in Credential, Work!ConnectorOperation(c, now)
      PROVE  Hydrated!ConnectorOperation(c, now)
  <2>1. Work!EvidenceMap = Hydrated!EvidenceMap
    BY DEF Work!EvidenceMap, Hydrated!EvidenceMap
  <2>. QED
    BY <1>1, <2>1, SameClaim, SameStageEvidence, SameCommitResult
       DEF Work!ConnectorOperation, Hydrated!ConnectorOperation
<1>2. ASSUME NEW t \in CredentialTriple, Work!CoreOperation(t, now)
      PROVE  Hydrated!CoreOperation(t, now)
  BY <1>2, SameCreate, SameOffer, SameCollect, SameAcknowledgeCollection,
     SameAbandon, SameSnapshot DEF Work!CoreOperation, Hydrated!CoreOperation
<1>3. ASSUME Work!MaintenanceOperation(Maintenance, now)
      PROVE  Hydrated!MaintenanceOperation(Maintenance, now)
  BY <1>3, SameExpire, SameGarbageCollect
     DEF Work!MaintenanceOperation, Hydrated!MaintenanceOperation
<1>4. now \in Hydrated!Time
  BY DEF Time, Hydrated!Time
<1>. QED
  BY <1>1, <1>2, <1>3, <1>4, CredentialAssumption DEF Hydrated!Next

-----------------------------------------------------------------------------
(* The row and the hydrated repository hold the same kind of state.        *)

\* The two kinds of record are one.
LEMMA SameRecords ==
    /\ Hydrated!Record = Record
    /\ Hydrated!NoTime = NoTime /\ Hydrated!NoRecord = NoRecord
    /\ Hydrated!Instant = Instant
    /\ \A r : Hydrated!Staged(r) = Staged(r)
    /\ \A r : Hydrated!CredentialsOf(r) = CredentialsOf(r)
<1>1. /\ Hydrated!NoTime = NoTime /\ Hydrated!NoRecord = NoRecord
      /\ Hydrated!Instant = Instant
  BY DEF Hydrated!NoTime, NoTime, Hydrated!NoRecord, NoRecord,
     Hydrated!NoEvidence, NoEvidence, Hydrated!Instant, Instant, Hydrated!Time, Time
<1>2. Hydrated!Record = Record
  BY <1>1 DEF Hydrated!Record, Record, Hydrated!MailboxState, MailboxState,
     Hydrated!Pending, Pending, Hydrated!CollectionState, CollectionState,
     Hydrated!EvidenceMap, EvidenceMap
<1>3. \A r : Hydrated!Staged(r) = Staged(r)
  BY DEF Hydrated!Staged, Staged
<1>4. \A r : Hydrated!CredentialsOf(r) = CredentialsOf(r)
  BY DEF Hydrated!CredentialsOf, CredentialsOf
<1>. QED
  BY <1>1, <1>2, <1>3, <1>4

\* What a good record is does not depend on where it is.
LEMMA SameGood ==
    ASSUME NEW r, NEW m, NEW mark
    PROVE  Hydrated!GoodRecord(r, m, mark) <=> GoodRecord(r, m, mark)
BY SameRecords
   DEF Hydrated!GoodRecord, GoodRecord, Hydrated!Shape, Shape, Hydrated!Finished,
       Finished, Hydrated!GoodLive, GoodLive, Hydrated!ValidatedRecordMaterial,
       ValidatedRecordMaterial, Hydrated!GoodTimes, GoodTimes

\* Nor does what its roles are.
LEMMA SameRoles ==
    ASSUME NEW r
    PROVE  Hydrated!OwnRoles(r) <=> OwnRoles(r)
BY DEF Hydrated!OwnRoles, OwnRoles, Hydrated!CredentialsOf, CredentialsOf

\* A commit makes the row what the hydrated repository is.
LEMMA ReplaceKeepsInv ==
    ASSUME Hydrated!Inv, Hydrated!CredentialInv, Replace
    PROVE  Inv' /\ CredentialInv'
<1>1. Inv'
  BY SameGood, SameRecords
     DEF Replace, Inv, Hydrated!Inv, GoodTombstones, Hydrated!GoodTombstones,
         Tombstoned, Hydrated!Tombstoned
<1>2. CredentialInv'
  BY SameRoles, SameRecords DEF Replace, CredentialInv, Hydrated!CredentialInv
<1>. QED
  BY <1>1, <1>2

\* A transaction starts from what the row is.
LEMMA LoadKeepsInv ==
    ASSUME Inv, CredentialInv, Load
    PROVE  Hydrated!Inv' /\ Hydrated!CredentialInv'
<1>1. Hydrated!Inv'
  BY SameGood, SameRecords
     DEF Load, Inv, Hydrated!Inv, GoodTombstones, Hydrated!GoodTombstones,
         Tombstoned, Hydrated!Tombstoned
<1>2. Hydrated!CredentialInv'
  BY SameRoles, SameRecords DEF Load, CredentialInv, Hydrated!CredentialInv
<1>. QED
  BY <1>1, <1>2

\* An empty repository is good.
LEMMA DropKeepsInv ==
    ASSUME Drop
    PROVE  Hydrated!Inv' /\ Hydrated!CredentialInv'
<1>1. Hydrated!Inv'
  BY NoRecordGood, SameGood, SameRecords, TimeTypes
     DEF Drop, Hydrated!Inv, Hydrated!GoodTombstones, Hydrated!Tombstoned,
         GoodRecord, NoRecord
<1>2. Hydrated!CredentialInv'
  BY DEF Drop, Hydrated!CredentialInv, NoRecord
<1>. QED
  BY <1>1, <1>2

\* An operation keeps the hydrated repository good.
LEMMA AppliedKeepsInv ==
    ASSUME Hydrated!Inv, Hydrated!CredentialInv, Hydrated!Next
    PROVE  Hydrated!Inv' /\ Hydrated!CredentialInv'
BY Hydrated!NextKeepsInv, Hydrated!NextKeepsCredentials, BindingAssumption,
   CredentialAssumption, SizeAssumption, LimitAssumption, NoneAssumption

\* What it does to offers.
LEMMA AppliedOffers ==
    ASSUME Hydrated!Inv, Hydrated!Next, NEW m \in Mailbox
    PROVE  /\ wRecords'[m].state = "OFFERED" =>
                  \/ wRecords[m].state = "EMPTY"
                  \/ /\ wRecords[m].state = "OFFERED"
                     /\ wRecords'[m].resultCredential = wRecords[m].resultCredential
           /\ wRecords[m].state = "OFFERED" /\ wRecords'[m].state = "CLAIMED_ONCE"
                => wRecords'[m].resultCredential = wRecords[m].resultCredential
<1>1. Hydrated!RecordStep(wRecords[m], wRecords'[m], wHighWater')
  BY Hydrated!NextSteps, BindingAssumption, CredentialAssumption, SizeAssumption,
     LimitAssumption, NoneAssumption
<1>2. wRecords[m] \in Hydrated!Record
  BY DEF Hydrated!Inv
<1>. QED
  BY <1>1, <1>2, Hydrated!OfferSteps, BindingAssumption, CredentialAssumption,
     SizeAssumption, LimitAssumption, NoneAssumption

-----------------------------------------------------------------------------
(* The protocol.                                                           *)

HandleTypes ==
    /\ writer \in Handle \cup {None}
    /\ phase \in [Handle -> Phase]
    /\ answer \in [Handle -> SUBSET Credential]
    /\ known \subseteq Credential

\* Row and hydrated repository are good.
Good ==
    /\ Inv /\ CredentialInv
    /\ Hydrated!Inv /\ Hydrated!CredentialInv

\* A handle inside its transaction is the writer, starts from the row, and
\* only a call that has run has an answer.
Transactions ==
    \A h \in Handle :
        /\ phase[h] \in {"loaded", "applied"} => writer = h
        /\ phase[h] = "loaded" => wRecords = records
        /\ answer[h] # {} => phase[h] \in {"applied", "committed"}

\* The secret of an action the row still offers is with nobody, nor in an
\* answer on its way.
RowKeepsSecrets ==
    \A m \in Mailbox : records[m].state = "OFFERED" =>
        /\ records[m].resultCredential \notin known
        /\ \A h \in Handle : phase[h] = "committed" =>
               records[m].resultCredential \notin answer[h]

\* The secret of an action that the hydrated repository offers is not even in
\* the answer of the call that will commit it.
WorkKeepsSecrets ==
    (\E h \in Handle : phase[h] = "applied") =>
        \A m \in Mailbox : wRecords[m].state = "OFFERED" =>
            /\ wRecords[m].resultCredential \notin known
            /\ \A h \in Handle : wRecords[m].resultCredential \notin answer[h]

ProtocolInv ==
    /\ HandleTypes
    /\ Good
    /\ Transactions
    /\ RowKeepsSecrets
    /\ WorkKeepsSecrets

\* An operation: what it hands out is no secret of an action on offer.
LEMMA ApplyKeeps ==
    ASSUME ProtocolInv, NEW h \in Handle, Apply(h)
    PROVE  ProtocolInv'
<1>1. /\ phase[h] = "loaded" /\ writer = h /\ wRecords = records /\ answer[h] = {}
      /\ UNCHANGED <<records, tombstones, highWater, total, generation>>
      /\ writer' = writer /\ known' = known
      /\ phase' = [phase EXCEPT ![h] = "applied"]
      /\ answer' = [answer EXCEPT ![h] = HandedOut]
      /\ FreshlyIssued
  BY DEF Apply, ProtocolInv, Transactions, row
<1>2. Hydrated!Next
  <2>1. PICK now \in Time :
            \/ \E c \in known : Work!ConnectorOperation(c, now)
            \/ \E t \in CredentialTriple : Work!CoreOperation(t, now)
            \/ Work!MaintenanceOperation(Maintenance, now)
    BY DEF Apply
  <2>2. known \subseteq Credential
    BY DEF ProtocolInv, HandleTypes
  <2>. QED
    BY <2>1, <2>2, AppliedIsNext
<1>3. Hydrated!Inv' /\ Hydrated!CredentialInv'
  BY <1>2, AppliedKeepsInv DEF ProtocolInv, Good
<1>4. Inv' /\ CredentialInv'
  BY <1>1 DEF ProtocolInv, Good, Inv, GoodTombstones, Tombstoned, CredentialInv
<1>5. ASSUME NEW m \in Mailbox
      PROVE  /\ wRecords[m] \in Record /\ wRecords'[m] \in Record
             /\ Shape(wRecords[m]) /\ Shape(wRecords'[m])
             /\ wRecords'[m].state # "ABSENT" => OwnRoles(wRecords'[m])
             /\ \A n \in Mailbox \ {m} :
                    wRecords'[m].state # "ABSENT" /\ wRecords'[n].state # "ABSENT"
                      => CredentialsOf(wRecords'[m])
                            \cap CredentialsOf(wRecords'[n]) = {}
  <2>1. GoodRecord(wRecords[m], m, wHighWater)
    BY SameGood DEF ProtocolInv, Good, Hydrated!Inv
  <2>2. GoodRecord(wRecords'[m], m, wHighWater')
    BY <1>3, SameGood DEF Hydrated!Inv
  <2>. QED
    BY <1>3, <2>1, <2>2, SameRoles, SameRecords
       DEF GoodRecord, Hydrated!CredentialInv
<1>6. ASSUME NEW c \in HandedOut
      PROVE  /\ c \in Credential
             /\ \A m \in Mailbox : wRecords'[m].state = "OFFERED" =>
                    wRecords'[m].resultCredential # c
  <2>1. \E k \in Mailbox :
           /\ wRecords'[k].state \in {"EMPTY", "CLAIMED_ONCE"}
           /\ c \in CredentialsOf(wRecords'[k])
    <3>1. CASE \E k \in Mailbox : /\ wRecords[k].state = "ABSENT"
                                  /\ wRecords'[k].state = "EMPTY"
                                  /\ c = wRecords'[k].claim
      <4>1. PICK k \in Mailbox : /\ wRecords'[k].state = "EMPTY"
                                 /\ c = wRecords'[k].claim
        BY <3>1
      <4>2. OwnRoles(wRecords'[k])
        BY <1>5, <4>1
      <4>. QED
        BY <4>1, <4>2, NoneAssumption DEF OwnRoles, CredentialsOf
    <3>2. CASE \E k \in Mailbox : /\ wRecords[k].state = "OFFERED"
                                  /\ wRecords'[k].state = "CLAIMED_ONCE"
                                  /\ c = wRecords[k].resultCredential
      <4>1. PICK k \in Mailbox : /\ wRecords[k].state = "OFFERED"
                                 /\ wRecords'[k].state = "CLAIMED_ONCE"
                                 /\ c = wRecords[k].resultCredential
        BY <3>2
      <4>2. wRecords'[k].resultCredential = c
        BY <1>2, <4>1, AppliedOffers DEF ProtocolInv, Good
      <4>3. c # None
        BY <1>5, <4>1 DEF Shape
      <4>. QED
        BY <4>1, <4>2, <4>3 DEF CredentialsOf
    <3>. QED
      BY <3>1, <3>2, <1>6 DEF HandedOut
  <2>2. PICK k \in Mailbox :
           /\ wRecords'[k].state \in {"EMPTY", "CLAIMED_ONCE"}
           /\ c \in CredentialsOf(wRecords'[k])
    BY <2>1
  <2>3. c \in Credential
    BY <1>5, <2>2 DEF CredentialsOf, Record
  <2>4. ASSUME NEW m \in Mailbox, wRecords'[m].state = "OFFERED"
        PROVE  wRecords'[m].resultCredential # c
    <3>1. wRecords'[m].resultCredential \in CredentialsOf(wRecords'[m])
      BY <1>5, <2>4 DEF Shape, CredentialsOf
    <3>2. CredentialsOf(wRecords'[m]) \cap CredentialsOf(wRecords'[k]) = {}
      BY <1>5, <2>2, <2>4
    <3>. QED
      BY <2>2, <3>1, <3>2
  <2>. QED
    BY <2>3, <2>4
<1>7. HandleTypes'
  BY <1>1, <1>6 DEF ProtocolInv, HandleTypes, Phase
<1>8. Transactions'
  BY <1>1 DEF ProtocolInv, HandleTypes, Transactions
<1>9. RowKeepsSecrets'
  BY <1>1 DEF ProtocolInv, HandleTypes, RowKeepsSecrets
<1>10. ASSUME NEW m \in Mailbox, wRecords'[m].state = "OFFERED"
       PROVE  /\ wRecords'[m].resultCredential \notin known'
              /\ \A k \in Handle : wRecords'[m].resultCredential \notin answer'[k]
  <2>. DEFINE c == wRecords'[m].resultCredential
  <2>1. c \notin HandedOut
    BY <1>6, <1>10
  <2>2. c \notin GivenOut
    <3>1. CASE wRecords[m].state = "EMPTY"
      BY <1>1, <1>10, <3>1 DEF FreshlyIssued
    <3>2. CASE /\ wRecords[m].state = "OFFERED"
               /\ c = wRecords[m].resultCredential
      <4>1. c \notin known
        BY <1>1, <3>2 DEF ProtocolInv, RowKeepsSecrets
      <4>2. ASSUME NEW k \in Handle PROVE c \notin answer[k]
        <5>1. CASE phase[k] = "committed"
          BY <1>1, <3>2, <5>1 DEF ProtocolInv, RowKeepsSecrets
        <5>2. CASE phase[k] # "committed"
          BY <1>1, <5>2 DEF ProtocolInv, Transactions
        <5>. QED
          BY <5>1, <5>2
      <4>. QED
        BY <4>1, <4>2 DEF GivenOut
    <3>. QED
      BY <1>2, <1>10, <3>1, <3>2, AppliedOffers DEF ProtocolInv, Good
  <2>3. c \notin known /\ \A k \in Handle : c \notin answer[k]
    BY <2>2 DEF GivenOut
  <2>. HIDE DEF c
  <2>4. ASSUME NEW k \in Handle PROVE c \notin answer'[k]
    BY <1>1, <2>1, <2>3 DEF ProtocolInv, HandleTypes
  <2>. QED
    BY <1>1, <2>3, <2>4 DEF c
<1>11. WorkKeepsSecrets'
  BY <1>10 DEF WorkKeepsSecrets
<1>. QED
  BY <1>3, <1>4, <1>7, <1>8, <1>9, <1>11 DEF ProtocolInv, Good

\* The end of a transaction without a commit: whoever goes on has no answer,
\* or has applied an operation that changed nothing.
LEMMA EndKeeps ==
    ASSUME ProtocolInv, NEW h \in Handle, NEW p \in Phase,
           EndTransaction(h, p), UNCHANGED <<row, known>>,
           writer \in {h, None},
           p \notin {"loaded", "applied"},
           \/ p # "committed" /\ answer' = [answer EXCEPT ![h] = {}]
           \/ p # "committed" /\ answer' = answer /\ answer[h] = {}
           \/ /\ p = "committed" /\ answer' = answer
              /\ phase[h] = "applied" /\ wRecords = records
    PROVE  ProtocolInv'
<1>1. /\ phase' = [phase EXCEPT ![h] = p] /\ writer' = None
      /\ records' = records /\ known' = known
      /\ UNCHANGED <<tombstones, highWater, total>>
  BY DEF EndTransaction, row
<1>2. Good'
  <2>1. Hydrated!Inv' /\ Hydrated!CredentialInv'
    BY DropKeepsInv DEF EndTransaction
  <2>. QED
    BY <1>1, <2>1
       DEF ProtocolInv, Good, Inv, GoodTombstones, Tombstoned, CredentialInv
<1>3. HandleTypes'
  BY <1>1 DEF ProtocolInv, HandleTypes
<1>4. \A k \in Handle : phase'[k] \notin {"loaded", "applied"}
  BY <1>1, HandleAssumption DEF ProtocolInv, HandleTypes, Transactions
<1>5. Transactions'
  BY <1>1, <1>4 DEF ProtocolInv, HandleTypes, Transactions
<1>6. WorkKeepsSecrets'
  BY <1>4 DEF WorkKeepsSecrets
<1>7. ASSUME NEW m \in Mailbox, records'[m].state = "OFFERED",
             NEW k \in Handle, phase'[k] = "committed"
      PROVE  records'[m].resultCredential \notin answer'[k]
  <2>1. CASE k # h
    BY <1>1, <1>7, <2>1 DEF ProtocolInv, HandleTypes, RowKeepsSecrets
  <2>2. CASE k = h
    <3>1. p = "committed" /\ answer' = answer /\ wRecords = records
          /\ phase[h] = "applied"
      BY <1>1, <1>7, <2>2 DEF ProtocolInv, HandleTypes
    <3>. QED
      BY <1>1, <1>7, <2>2, <3>1 DEF ProtocolInv, WorkKeepsSecrets
  <2>. QED
    BY <2>1, <2>2
<1>8. RowKeepsSecrets'
  BY <1>1, <1>7 DEF ProtocolInv, RowKeepsSecrets
<1>. QED
  BY <1>2, <1>3, <1>5, <1>6, <1>8 DEF ProtocolInv

\* A commit, whether the caller hears of it or not.
LEMMA CommitKeeps ==
    ASSUME ProtocolInv, NEW h \in Handle, NEW p \in {"committed", "poisoned"},
           phase[h] = "applied", Replace, Drop, writer' = None,
           phase' = [phase EXCEPT ![h] = p], known' = known,
           answer' \in {answer, [answer EXCEPT ![h] = {}]},
           p = "poisoned" => answer' = [answer EXCEPT ![h] = {}]
    PROVE  ProtocolInv'
<1>1. Good'
  BY ReplaceKeepsInv, DropKeepsInv DEF ProtocolInv, Good
<1>2. HandleTypes'
  BY DEF ProtocolInv, HandleTypes, Phase
<1>3. \A k \in Handle : phase'[k] \notin {"loaded", "applied"}
  BY DEF ProtocolInv, HandleTypes, Transactions
<1>4. Transactions'
  BY <1>3 DEF ProtocolInv, HandleTypes, Transactions
<1>5. WorkKeepsSecrets'
  BY <1>3 DEF WorkKeepsSecrets
<1>6. \A k \in Handle : answer'[k] \subseteq answer[k]
  BY DEF ProtocolInv, HandleTypes
<1>7. RowKeepsSecrets'
  BY <1>6 DEF ProtocolInv, WorkKeepsSecrets, RowKeepsSecrets, Replace
<1>. QED
  BY <1>1, <1>2, <1>4, <1>5, <1>7 DEF ProtocolInv

\* A step that leaves the row and the hydrated repository alone.
LEMMA QuietKeeps ==
    ASSUME ProtocolInv, HandleTypes', UNCHANGED <<repository, work>>,
           Transactions', known' = known,
           \A k \in Handle : /\ answer'[k] \subseteq answer[k]
                             /\ phase'[k] = "committed" => phase[k] = "committed"
                             /\ phase'[k] = "applied" => phase[k] = "applied"
    PROVE  ProtocolInv'
<1>1. /\ records' = records /\ wRecords' = wRecords
      /\ UNCHANGED <<tombstones, highWater, total, wTombstones, wHighWater, wTotal>>
  BY DEF repository, work
<1>2. Good'
  BY <1>1
     DEF ProtocolInv, Good, Inv, GoodTombstones, Tombstoned, CredentialInv,
         Hydrated!Inv, Hydrated!GoodTombstones, Hydrated!Tombstoned,
         Hydrated!CredentialInv
<1>3. RowKeepsSecrets' /\ WorkKeepsSecrets'
  BY <1>1 DEF ProtocolInv, RowKeepsSecrets, WorkKeepsSecrets
<1>. QED
  BY <1>2, <1>3 DEF ProtocolInv

\* The opening of a handle.
LEMMA OpenKeeps ==
    ASSUME ProtocolInv, NEW h \in Handle, Open(h)
    PROVE  ProtocolInv'
<1>1. /\ UNCHANGED <<repository, work>> /\ writer' = writer /\ answer' = answer
      /\ known' = known /\ phase' = [phase EXCEPT ![h] = "idle"]
      /\ phase[h] = "closed"
  BY DEF Open
<1>2. HandleTypes' /\ Transactions'
  BY <1>1 DEF ProtocolInv, HandleTypes, Transactions, Phase, repository, work
<1>. QED
  BY <1>1, <1>2, QuietKeeps DEF ProtocolInv, HandleTypes

\* The start of a call.
LEMMA BeginKeeps ==
    ASSUME ProtocolInv, NEW h \in Handle, Begin(h)
    PROVE  ProtocolInv'
<1>1. /\ phase[h] = "idle" /\ writer = None /\ answer' = answer /\ known' = known
      /\ UNCHANGED row /\ answer[h] = {}
  BY DEF Begin, ProtocolInv, Transactions
<1>2. \A k \in Handle : phase[k] \notin {"loaded", "applied"}
  BY <1>1, HandleAssumption DEF ProtocolInv, HandleTypes, Transactions
<1>3. CASE Loadable
  <2>1. Load /\ phase' = [phase EXCEPT ![h] = "loaded"] /\ writer' = h
    BY <1>3 DEF Begin
  <2>2. HandleTypes'
    BY <1>1, <2>1 DEF ProtocolInv, HandleTypes, Phase
  <2>3. Transactions'
    BY <1>1, <1>2, <2>1 DEF ProtocolInv, HandleTypes, Transactions, Load, row
  <2>4. Good'
    <3>1. Hydrated!Inv' /\ Hydrated!CredentialInv'
      BY <2>1, LoadKeepsInv DEF ProtocolInv, Good
    <3>. QED
      BY <1>1, <3>1
         DEF ProtocolInv, Good, Inv, GoodTombstones, Tombstoned, CredentialInv, row
  <2>5. RowKeepsSecrets'
    BY <1>1, <2>1 DEF ProtocolInv, HandleTypes, RowKeepsSecrets, row
  <2>6. WorkKeepsSecrets'
    BY <1>2, <2>1 DEF ProtocolInv, HandleTypes, WorkKeepsSecrets
  <2>. QED
    BY <2>2, <2>3, <2>4, <2>5, <2>6 DEF ProtocolInv
<1>4. CASE ~Loadable
  <2>1. EndTransaction(h, "poisoned")
    BY <1>4 DEF Begin
  <2>2. "poisoned" \in Phase
    BY DEF Phase
  <2>. QED
    BY <1>1, <2>1, <2>2, EndKeeps
<1>. QED
  BY <1>3, <1>4

\* The steps of a call that end its transaction without a commit.
LEMMA EndingsKeep ==
    ASSUME ProtocolInv, NEW h \in Handle,
           \/ Deny(h) \/ RefuseInstant(h) \/ RollbackUnchanged(h) \/ RefuseFrame(h)
    PROVE  ProtocolInv'
<1>. "idle" \in Phase /\ "poisoned" \in Phase /\ "committed" \in Phase
  BY DEF Phase
<1>1. phase[h] \in {"loaded", "applied"} /\ writer = h
  BY DEF Deny, RefuseInstant, RollbackUnchanged, RefuseFrame, ProtocolInv,
     Transactions
<1>2. ASSUME phase[h] = "loaded" PROVE answer[h] = {}
  BY <1>2 DEF ProtocolInv, Transactions
<1>3. CASE Deny(h)
  BY <1>1, <1>2, <1>3, EndKeeps DEF Deny
<1>4. CASE RefuseInstant(h)
  BY <1>1, <1>2, <1>4, EndKeeps DEF RefuseInstant
<1>5. CASE RollbackUnchanged(h)
  <2>1. wRecords = records
    BY <1>5 DEF RollbackUnchanged, Changed, work, repository
  <2>. QED
    BY <1>1, <1>5, <2>1, EndKeeps DEF RollbackUnchanged
<1>6. CASE RefuseFrame(h)
  BY <1>1, <1>6, EndKeeps DEF RefuseFrame
<1>. QED
  BY <1>3, <1>4, <1>5, <1>6

\* A commit that reports an error.
LEMMA CommitFailsKeeps ==
    ASSUME ProtocolInv, NEW h \in Handle, CommitFails(h)
    PROVE  ProtocolInv'
<1>1. /\ phase[h] = "applied" /\ Drop /\ known' = known
      /\ phase' = [phase EXCEPT ![h] = "poisoned"]
      /\ answer' = [answer EXCEPT ![h] = {}]
  BY DEF CommitFails
<1>2. CASE Replace /\ writer' = None
  BY <1>1, <1>2, CommitKeeps
<1>3. CASE UNCHANGED row /\ writer' \in {h, None}
  <2>1. Good'
    <3>1. Hydrated!Inv' /\ Hydrated!CredentialInv'
      BY <1>1, DropKeepsInv
    <3>. QED
      BY <1>3, <3>1
         DEF ProtocolInv, Good, Inv, GoodTombstones, Tombstoned, CredentialInv, row
  <2>2. HandleTypes'
    BY <1>1, <1>3 DEF ProtocolInv, HandleTypes, Phase
  <2>3. \A k \in Handle : phase'[k] \notin {"loaded", "applied"}
    BY <1>1 DEF ProtocolInv, HandleTypes, Transactions
  <2>4. Transactions'
    BY <1>1, <2>3 DEF ProtocolInv, HandleTypes, Transactions
  <2>5. WorkKeepsSecrets'
    BY <2>3 DEF WorkKeepsSecrets
  <2>6. RowKeepsSecrets'
    BY <1>1, <1>3 DEF ProtocolInv, HandleTypes, RowKeepsSecrets, row
  <2>. QED
    BY <2>1, <2>2, <2>4, <2>5, <2>6 DEF ProtocolInv
<1>. QED
  BY <1>2, <1>3 DEF CommitFails

\* An error before the row was read.
LEMMA ReadFailsKeeps ==
    ASSUME ProtocolInv, NEW h \in Handle, ReadFails(h)
    PROVE  ProtocolInv'
<1>1. /\ phase[h] = "idle" /\ writer = None /\ answer' = answer /\ known' = known
      /\ UNCHANGED <<row, work>> /\ writer' \in {h, None}
      /\ phase' = [phase EXCEPT ![h] = "poisoned"]
  BY DEF ReadFails
<1>2. \A k \in Handle : phase[k] \notin {"loaded", "applied"}
  BY <1>1, HandleAssumption DEF ProtocolInv, HandleTypes, Transactions
<1>3. HandleTypes' /\ Transactions'
  BY <1>1, <1>2 DEF ProtocolInv, HandleTypes, Transactions, Phase, row, work
<1>4. UNCHANGED <<repository, work>>
  BY <1>1 DEF row, repository
<1>. QED
  BY <1>1, <1>3, <1>4, QuietKeeps DEF ProtocolInv, HandleTypes

\* The answer of a call.
LEMMA ReplyKeeps ==
    ASSUME ProtocolInv, NEW h \in Handle, Reply(h)
    PROVE  ProtocolInv'
<1>1. /\ phase[h] = "committed" /\ known' = known \cup answer[h]
      /\ phase' = [phase EXCEPT ![h] = "idle"]
      /\ answer' = [answer EXCEPT ![h] = {}]
      /\ UNCHANGED <<row, work, writer>>
  BY DEF Reply
<1>2. records' = records /\ wRecords' = wRecords
  BY <1>1 DEF row, work
<1>3. HandleTypes' /\ Transactions'
  BY <1>1, <1>2 DEF ProtocolInv, HandleTypes, Transactions, Phase
<1>4. Good'
  BY <1>1
     DEF ProtocolInv, Good, Inv, GoodTombstones, Tombstoned, CredentialInv,
         Hydrated!Inv, Hydrated!GoodTombstones, Hydrated!Tombstoned,
         Hydrated!CredentialInv, row, work
<1>5. RowKeepsSecrets'
  BY <1>1, <1>2 DEF ProtocolInv, HandleTypes, RowKeepsSecrets
<1>6. WorkKeepsSecrets'
  BY <1>1, <1>2 DEF ProtocolInv, HandleTypes, WorkKeepsSecrets
<1>. QED
  BY <1>3, <1>4, <1>5, <1>6 DEF ProtocolInv

\* A handle that is closed, or whose process ends.
LEMMA DisconnectKeeps ==
    ASSUME ProtocolInv, NEW h \in Handle, Disconnect(h)
    PROVE  ProtocolInv'
<1>1. /\ phase' = [phase EXCEPT ![h] = "closed"] /\ known' = known
      /\ answer' = [answer EXCEPT ![h] = {}] /\ UNCHANGED row
  BY DEF Disconnect
<1>2. "closed" \in Phase
  BY DEF Phase
<1>3. CASE writer = h
  <2>1. EndTransaction(h, "closed")
    BY <1>1, <1>3 DEF Disconnect, EndTransaction
  <2>. QED
    BY <1>1, <1>2, <1>3, <2>1, EndKeeps
<1>4. CASE writer # h
  <2>1. UNCHANGED <<repository, work>> /\ writer' = writer
    BY <1>1, <1>4 DEF Disconnect, row, repository
  <2>2. HandleTypes' /\ Transactions'
    BY <1>1, <1>2, <1>4, <2>1
       DEF ProtocolInv, HandleTypes, Transactions, repository, work
  <2>. QED
    BY <1>1, <2>1, <2>2, QuietKeeps DEF ProtocolInv, HandleTypes
<1>. QED
  BY <1>3, <1>4

\* Every step keeps the invariant.
LEMMA ProtocolStep ==
    ASSUME ProtocolInv, [SystemNext]_vars
    PROVE  ProtocolInv'
<1>1. CASE UNCHANGED vars
  <2>1. HandleTypes' /\ Transactions' /\ UNCHANGED <<repository, work>>
    BY <1>1 DEF ProtocolInv, HandleTypes, Transactions, vars, row, work, repository
  <2>. QED
    BY <1>1, <2>1, QuietKeeps DEF vars
<1>2. ASSUME NEW h \in Handle, CommitThenReply(h) PROVE ProtocolInv'
  BY <1>2, CommitKeeps DEF CommitThenReply, EndTransaction
<1>. QED
  BY <1>1, <1>2, OpenKeeps, BeginKeeps, ReadFailsKeeps, ApplyKeeps, EndingsKeep,
     CommitFailsKeeps, ReplyKeeps, DisconnectKeeps
     DEF SystemNext, InCall, Close, Die

\* The invariant holds at first.
LEMMA ProtocolInit == SystemInit => ProtocolInv
<1>. SUFFICES ASSUME SystemInit PROVE ProtocolInv
  OBVIOUS
<1>1. Inv /\ CredentialInv
  BY InitEstablishesInv DEF SystemInit, Init, CredentialInv, NoRecord
<1>2. Hydrated!Inv /\ Hydrated!CredentialInv
  <2>1. /\ wRecords = [m \in Mailbox |-> NoRecord]
        /\ wTombstones = [m \in Mailbox |-> NoTime] /\ wHighWater = NoTime
    BY DEF SystemInit, Work!Init, Work!NoRecord, NoRecord, Work!NoEvidence,
       NoEvidence, Work!NoTime, NoTime
  <2>2. Hydrated!Inv
    BY <2>1, NoRecordGood, SameGood, SameRecords, TimeTypes
       DEF Hydrated!Inv, Hydrated!GoodTombstones, Hydrated!Tombstoned, GoodRecord,
           NoRecord
  <2>. QED
    BY <2>1, <2>2 DEF Hydrated!CredentialInv, NoRecord
<1>3. HandleTypes /\ Transactions /\ WorkKeepsSecrets
  BY DEF SystemInit, HandleTypes, Transactions, WorkKeepsSecrets, Phase
<1>4. RowKeepsSecrets
  BY DEF SystemInit, Init, RowKeepsSecrets, NoRecord
<1>. QED
  BY <1>1, <1>2, <1>3, <1>4 DEF ProtocolInv, Good

\* The inductive invariant of the handles of persistent.py: the row and the
\* hydrated repository are states of the one-process repository, one handle
\* is inside a transaction, and no answer holds the secret of an open offer.
THEOREM ProtocolInvariance == SystemSpec => []ProtocolInv
BY ProtocolInit, ProtocolStep, PTL DEF SystemSpec

\* A credential that persistent.py has handed to a caller belongs to no action
\* that the row still offers, wherever processes die and commits fail.
THEOREM DurableAnswersTheorem == SystemSpec => []AnswersAreDurable
<1>1. ProtocolInv => AnswersAreDurable
  BY DEF ProtocolInv, RowKeepsSecrets, AnswersAreDurable
<1>. QED
  BY <1>1, ProtocolInvariance, PTL

-----------------------------------------------------------------------------
(* The row loads.                                                          *)

\* The quotas are counted for the row, and the generation leaves room.
RowCounted ==
    /\ generation \in Int
    /\ generation # NoGeneration => generation < MaxGeneration
    /\ QuotaAccounting

\* The sums that _write_repository checks are those of the row it writes.
LEMMA ReplaceCounts ==
    ASSUME Work!QuotaAccounting, Replace
    PROVE  QuotaAccounting'
<1>1. /\ records' = wRecords /\ tombstones' = wTombstones /\ total' = wTotal
  BY DEF Replace
<1>2. \A r : Work!Staged(r) = Staged(r)
  BY DEF Work!Staged, Staged
<1>3. \A r : Work!EvidenceBytes(r) = EvidenceBytes(r)
  BY DEF EvidenceBytes, Work!EvidenceBytes, Work!Staged, Staged,
     Work!MapThenSumSet, MapThenSumSet, Work!MapThenFoldSet, MapThenFoldSet
<1>4. \A S : Work!Cardinality(S) = Cardinality(S)
  BY DEF Cardinality, Work!Cardinality
<1>5. Work!Live = Live' /\ Work!Tombstoned = Tombstoned'
  BY <1>1 DEF Live, Work!Live, Tombstoned, Work!Tombstoned, NoTime, Work!NoTime
<1>6. Work!MapThenSumSet(LAMBDA m : wRecords[m].material, Work!Live)
        = MapThenSumSet(LAMBDA m : records[m].material, Live)'
  BY <1>1 DEF Work!MapThenSumSet, MapThenSumSet, Work!MapThenFoldSet,
     MapThenFoldSet, Live, Work!Live
<1>7. Work!MapThenSumSet(LAMBDA m : Work!EvidenceBytes(wRecords[m]), Work!Live)
        = MapThenSumSet(LAMBDA m : EvidenceBytes(records[m]), Live)'
  BY <1>1 DEF Work!MapThenSumSet, MapThenSumSet, Work!MapThenFoldSet,
     MapThenFoldSet, EvidenceBytes, Work!EvidenceBytes, Work!Staged, Staged,
     Live, Work!Live
<1>8. Work!MapThenSumSet(LAMBDA m : Work!CommittedBytes(wRecords[m]), Work!Live)
        = MapThenSumSet(LAMBDA m : CommittedBytes(records[m]), Live)'
  BY <1>1 DEF Work!MapThenSumSet, MapThenSumSet, Work!MapThenFoldSet,
     MapThenFoldSet, CommittedBytes, Work!CommittedBytes, EvidenceBytes,
     Work!EvidenceBytes, Work!Staged, Staged, Live, Work!Live, NoTime, Work!NoTime
<1>9. wTotal = [active |-> MapThenSumSet(LAMBDA m : records[m].material, Live)',
                evidence |->
                   MapThenSumSet(LAMBDA m : EvidenceBytes(records[m]), Live)',
                committed |->
                   MapThenSumSet(LAMBDA m : CommittedBytes(records[m]), Live)']
  BY <1>6, <1>7, <1>8 DEF Work!QuotaAccounting
<1>10. /\ wTotal.active <= MaxActiveBytes
       /\ wTotal.evidence <= MaxEvidenceBytes
       /\ wTotal.committed <= MaxCommittedBytes
       /\ \A m \in Live' :
             /\ Cardinality(Staged(records'[m])) <= MaxEvidenceItems
             /\ records'[m].result + EvidenceBytes(records'[m])
                   <= records'[m].binding.responseBytes
       /\ Cardinality(Live') <= MaxMailboxes
       /\ Cardinality(Tombstoned') <= MaxTombstones
  BY <1>1, <1>2, <1>3, <1>4, <1>5 DEF Work!QuotaAccounting
<1>. QED
  BY <1>1, <1>9, <1>10 DEF QuotaAccounting

\* An empty repository is within its quotas.
LEMMA InitCounts == Init => QuotaAccounting
<1>. SUFFICES ASSUME Init PROVE QuotaAccounting
  OBVIOUS
<1>1. Live = {} /\ Tombstoned = {}
  BY DEF Init, Live, Tombstoned, NoRecord
<1>2. MapThenSumSet(LAMBDA m : records[m].material, Live) = 0
  BY <1>1 DEF MapThenSumSet, MapThenFoldSet
<1>3. MapThenSumSet(LAMBDA m : EvidenceBytes(records[m]), Live) = 0
  BY <1>1 DEF MapThenSumSet, MapThenFoldSet
<1>4. MapThenSumSet(LAMBDA m : CommittedBytes(records[m]), Live) = 0
  BY <1>1 DEF MapThenSumSet, MapThenFoldSet
<1>5. Cardinality({}) = 0
  BY DEF Cardinality
<1>6. total = [active |-> MapThenSumSet(LAMBDA m : records[m].material, Live),
               evidence |->
                  MapThenSumSet(LAMBDA m : EvidenceBytes(records[m]), Live),
               committed |->
                  MapThenSumSet(LAMBDA m : CommittedBytes(records[m]), Live)]
  BY <1>2, <1>3, <1>4 DEF Init
<1>7. /\ total.active <= MaxActiveBytes
      /\ total.evidence <= MaxEvidenceBytes
      /\ total.committed <= MaxCommittedBytes
  BY LimitAssumption DEF Init
<1>8. Cardinality(Live) <= MaxMailboxes /\ Cardinality(Tombstoned) <= MaxTombstones
  BY <1>1, <1>5, LimitAssumption
<1>. QED
  BY <1>1, <1>6, <1>7, <1>8 DEF QuotaAccounting

\* Only a commit changes the row, and Open its first generation.
LEMMA RowSteps ==
    ASSUME [SystemNext]_vars
    PROVE  \/ Replace /\ Writable
           \/ /\ UNCHANGED repository
              /\ generation' \in {generation, 0}
BY DEF SystemNext, vars, row, repository, Open, Begin, ReadFails, InCall, Apply,
   Deny, RefuseInstant, RollbackUnchanged, CommitThenReply, RefuseFrame,
   CommitFails, Reply, Close, Die, Disconnect

\* Every step leaves a row that is counted.
LEMMA RowCountedStep ==
    ASSUME RowCounted, [SystemNext]_vars
    PROVE  RowCounted'
<1>1. CASE Replace /\ Writable
  <2>1. QuotaAccounting'
    BY <1>1, ReplaceCounts DEF Writable, ValidWork
  <2>2. generation' = generation + 1 /\ generation + 1 < MaxGeneration
    BY <1>1 DEF Replace, Writable
  <2>. QED
    BY <2>1, <2>2 DEF RowCounted
<1>2. CASE UNCHANGED repository /\ generation' \in {generation, 0}
  <2>1. /\ records' = records /\ tombstones' = tombstones /\ total' = total
    BY <1>2 DEF repository
  <2>2. Live' = Live /\ Tombstoned' = Tombstoned
    BY <2>1 DEF Live, Tombstoned
  <2>3. MapThenSumSet(LAMBDA m : records[m].material, Live)'
          = MapThenSumSet(LAMBDA m : records[m].material, Live)
    BY <2>1 DEF MapThenSumSet, MapThenFoldSet, Live
  <2>4. MapThenSumSet(LAMBDA m : EvidenceBytes(records[m]), Live)'
          = MapThenSumSet(LAMBDA m : EvidenceBytes(records[m]), Live)
    BY <2>1 DEF MapThenSumSet, MapThenFoldSet, Live, EvidenceBytes, Staged
  <2>5. MapThenSumSet(LAMBDA m : CommittedBytes(records[m]), Live)'
          = MapThenSumSet(LAMBDA m : CommittedBytes(records[m]), Live)
    BY <2>1 DEF MapThenSumSet, MapThenFoldSet, Live, CommittedBytes,
       EvidenceBytes, Staged
  <2>6. QuotaAccounting'
    BY <2>1, <2>2, <2>3, <2>4, <2>5 DEF RowCounted, QuotaAccounting
  <2>. QED
    BY <1>2, <2>6, GenerationAssumption DEF RowCounted
<1>. QED
  BY <1>1, <1>2, RowSteps

\* persistent.py never commits a row that _load_repository would refuse: by
\* its generation, its records, its instants, its credentials or its quotas.
THEOREM RowLoadsTheorem == SystemSpec => []RowLoads
<1>1. SystemInit => RowCounted
  BY InitCounts DEF SystemInit, RowCounted, NoGeneration
<1>2. RowCounted /\ [SystemNext]_vars => RowCounted'
  BY RowCountedStep
<1>3. ProtocolInv /\ RowCounted => RowLoads
  <2>1. Inv => LifecycleValid /\ TimesOrdered
    BY DEF Inv, LifecycleValid, GoodRecord, GoodLive, Live, TimesOrdered,
       GoodTimes, GoodTombstones, Tombstoned
  <2>2. CredentialInv => CredentialsDistinct
    BY DEF CredentialInv, CredentialsDistinct, OwnRoles, CredentialInUse, Live
  <2>. QED
    BY <2>1, <2>2 DEF ProtocolInv, Good, RowCounted, RowLoads, Loadable, ValidRow
<1>. QED
  BY <1>1, <1>2, <1>3, ProtocolInvariance, PTL DEF SystemSpec

-----------------------------------------------------------------------------
(* The row changes by operations of the one-process repository.            *)
(*                                                                         *)
(* An operation runs in one step of the system and reaches the row in a    *)
(* later one, so the invariant has to remember it: each operation is       *)
(* restated below as a relation between the row and what it has made of    *)
(* the row, which is the hydrated repository of a call that has applied    *)
(* it.  The checks are those of the operation, made on the row.            *)

\* The hydrated repository has observed now.
TimeOfRow(now) == wHighWater = IF now > highWater THEN now ELSE highWater

\* The hydrated repository is the row with the record r for m.
ObserveOfRow(m, r, now) ==
    /\ wRecords = [records EXCEPT ![m] = [r EXCEPT !.seen = now]]
    /\ TimeOfRow(now)
    /\ wTombstones = tombstones

\* The hydrated repository is the row after a denial for a passed deadline.
DeniedOfRow(m, now) ==
    /\ IsExpired(m, now)
    /\ wRecords = [records EXCEPT ![m] = ExpiredRecord(@, now)]
    /\ wTotal = TotalWithout({m})
    /\ TimeOfRow(now)
    /\ wTombstones = tombstones

CreateOfRow(b, t, now) ==
    LET m == b.mailbox
        offered == {t.action, t.claim, t.collection}
    IN  /\ InstallationNow(now)
        /\ m \notin Live \cup Tombstoned
        /\ Cardinality(Live) < MaxMailboxes
        /\ t.action # t.claim /\ t.action # t.collection
        /\ t.claim # t.collection
        /\ Maintenance \notin offered
        /\ \A c \in offered : ~CredentialInUse(c, {})
        /\ now < b.claimDeadline
        /\ wRecords = [records EXCEPT ![m] = NewRecord(b, t, now)]
        /\ TimeOfRow(now)
        /\ wTombstones = tombstones /\ wTotal = total

OfferOfRow(b, t, result, now) ==
    LET m == b.mailbox
        r == records[m]
    IN  /\ Accessible(m, now)
        /\ r.binding = b
        /\ t.collection = r.collect
        /\ t.action = r.action
        /\ result \notin {r.action, r.claim, r.collect, Maintenance}
        /\ ~CredentialInUse(result, {m})
        /\ \/ DeniedOfRow(m, now)
           \/ /\ ~IsExpired(m, now)
              /\ r.state = "EMPTY"
              /\ total.active + MaterialBytes <= MaxActiveBytes
              /\ wTotal = [total EXCEPT !.active = @ + MaterialBytes]
              /\ ObserveOfRow(m, [r EXCEPT !.state = "OFFERED",
                                           !.material = MaterialBytes,
                                           !.resultCredential = result], now)

ClaimOfRow(b, c, now) ==
    LET m == b.mailbox
        r == records[m]
    IN  /\ Accessible(m, now)
        /\ c = r.claim
        /\ r.binding = b
        /\ \/ DeniedOfRow(m, now)
           \/ /\ ~IsExpired(m, now)
              /\ r.state = "OFFERED"
              /\ r.material # 0
              /\ wTotal = [total EXCEPT !.active = @ - r.material]
              /\ ObserveOfRow(m, ClaimedRecord(r), now)

StageEvidenceOfRow(b, c, o, p, now) ==
    LET m == b.mailbox
        r == records[m]
        size == PayloadBytes[p]
    IN  /\ ResultAccess(b, c)
        /\ Accessible(m, now)
        /\ \/ DeniedOfRow(m, now)
           \/ /\ ~IsExpired(m, now)
              /\ o \notin Staged(r)
              /\ Cardinality(Staged(r)) < MaxEvidenceItems
              /\ EvidenceBytes(r) + size <= b.responseBytes
              /\ total.evidence + size <= MaxEvidenceBytes
              /\ wTotal = [total EXCEPT !.evidence = @ + size]
              /\ ObserveOfRow(m, [r EXCEPT !.evidence[o] = p], now)

CommitResultOfRow(b, c, seals, size, now) ==
    LET m == b.mailbox
        r == records[m]
        response == size + EvidenceBytes(r)
    IN  /\ ResultAccess(b, c)
        /\ Accessible(m, now)
        /\ \/ DeniedOfRow(m, now)
           \/ /\ ~IsExpired(m, now)
              /\ SealsMatch(r, seals)
              /\ response <= b.responseBytes
              /\ total.committed + response <= MaxCommittedBytes
              /\ wTotal = [total EXCEPT !.committed = @ + response]
              /\ ObserveOfRow(m, [r EXCEPT !.state = "RESULT_COMMITTED",
                                           !.collection = "READY",
                                           !.result = size,
                                           !.refs = seals,
                                           !.manifest = Staged(r),
                                           !.resultCredential = None,
                                           !.committed = now], now)

CollectOfRow(m, c, now) ==
    LET r == records[m]
    IN  /\ Accessible(m, now)
        /\ c = r.collect
        /\ r.state = "RESULT_COMMITTED"
        /\ r.result # 0
        /\ r.collection \in {"READY", "DELIVERING"}
        /\ ObserveOfRow(m, [r EXCEPT !.collection = "DELIVERING"], now)
        /\ wTotal = total

AcknowledgeOfRow(m, c, now) ==
    LET r == records[m]
    IN  /\ Accessible(m, now)
        /\ c = r.collect
        /\ \/ /\ r.collection = "ACKNOWLEDGED"
              /\ ObserveOfRow(m, r, now)
              /\ wTotal = total
           \/ /\ r.state = "RESULT_COMMITTED"
              /\ r.collection = "DELIVERING"
              /\ ObserveOfRow(m, [ReleasedPayloads(r) EXCEPT
                                      !.collection = "ACKNOWLEDGED",
                                      !.terminal = now], now)
              /\ wTotal = [total EXCEPT !.evidence = @ - EvidenceBytes(r),
                                        !.committed = @ - CommittedBytes(r)]

AbandonOfRow(m, c, now) ==
    LET r == records[m]
    IN  /\ Accessible(m, now)
        /\ c = r.collect
        /\ \/ DeniedOfRow(m, now)
           \/ /\ ~IsExpired(m, now)
              /\ r.state \in Pending
              /\ ObserveOfRow(m, [ClearedMaterial(r) EXCEPT !.state = "ABANDONED",
                                                            !.terminal = now], now)
              /\ wTotal = TotalWithout({m})

SnapshotOfRow(m, c, now) ==
    /\ Accessible(m, now)
    /\ c = records[m].collect
    /\ \/ DeniedOfRow(m, now)
       \/ /\ ~IsExpired(m, now)
          /\ ObserveOfRow(m, records[m], now)
          /\ wTotal = total

ExpireOfRow(c, now) ==
    LET due == {m \in Live : Due(records[m], now)}
    IN  /\ SweepAllowed(c, now)
        /\ wRecords = [m \in Mailbox |->
                          IF m \in due THEN ExpiredRecord(records[m], now)
                          ELSE IF m \in Live THEN [records[m] EXCEPT !.seen = now]
                          ELSE records[m]]
        /\ wTotal = TotalWithout(due)
        /\ TimeOfRow(now)
        /\ wTombstones = tombstones

GarbageCollectOfRow(c, removed, now) ==
    LET kept == {m \in Tombstoned : tombstones[m] > now}
    IN  /\ SweepAllowed(c, now)
        /\ TombstoneFits(now)
        /\ RemovedBySweep(removed, kept, now)
        /\ wRecords = [m \in Mailbox |->
                          IF m \in removed THEN NoRecord
                          ELSE IF m \in Live THEN [records[m] EXCEPT !.seen = now]
                          ELSE records[m]]
        /\ wTombstones = [m \in Mailbox |->
                             IF m \in removed THEN now + TombstoneRetention
                             ELSE IF m \in kept THEN tombstones[m]
                             ELSE NoTime]
        /\ wTotal = TotalWithout(removed)
        /\ TimeOfRow(now)

\* The hydrated repository is the row after one operation.
OperationOfRow ==
    \E now \in Time :
        \/ \E c \in Credential, b \in Binding :
              \/ ClaimOfRow(b, c, now)
              \/ \E o \in Object, p \in Payload :
                     StageEvidenceOfRow(b, c, o, p, now)
              \/ \E seals \in EvidenceMap, size \in ResultBytes :
                     CommitResultOfRow(b, c, seals, size, now)
        \/ \E t \in CredentialTriple :
              \/ \E b \in Binding :
                    \/ CreateOfRow(b, t, now)
                    \/ \E result \in IssuedCredential : OfferOfRow(b, t, result, now)
              \/ \E m \in Mailbox :
                    \/ CollectOfRow(m, t.collection, now)
                    \/ AcknowledgeOfRow(m, t.collection, now)
                    \/ AbandonOfRow(m, t.collection, now)
                    \/ SnapshotOfRow(m, t.collection, now)
        \/ \E c \in Credential :
              \/ ExpireOfRow(c, now)
              \/ \E removed \in SUBSET Mailbox : GarbageCollectOfRow(c, removed, now)

\* What a transaction has done so far: read the row, or applied to it one
\* operation of the one-process repository.
CallsOnRow ==
    \A h \in Handle :
        /\ phase[h] = "loaded" => /\ wRecords = records
                                  /\ wTombstones = tombstones
                                  /\ wHighWater = highWater
                                  /\ wTotal = total
        /\ phase[h] = "applied" => OperationOfRow

\* A call that has read the row applies its operation to what the row holds.
OnRow ==
    /\ wRecords = records /\ wTombstones = tombstones
    /\ wHighWater = highWater /\ wTotal = total
    /\ records' = records /\ tombstones' = tombstones
    /\ highWater' = highWater /\ total' = total

\* What an operation writes into one record does not depend on where the
\* record is.
LEMMA SameValues ==
    /\ Work!NoTime = NoTime /\ Work!NoRecord = NoRecord
    /\ Work!EvidenceMap = EvidenceMap /\ Work!Time = Time
    /\ Work!Pending = Pending
    /\ \A S : Work!Cardinality(S) = Cardinality(S)
    /\ \A r : Work!Staged(r) = Staged(r)
    /\ \A r : Work!EvidenceBytes(r) = EvidenceBytes(r)
    /\ \A r : Work!CommittedBytes(r) = CommittedBytes(r)
    /\ \A r : Work!CredentialsOf(r) = CredentialsOf(r)
    /\ \A r : Work!ReleasedPayloads(r) = ReleasedPayloads(r)
    /\ \A r : Work!ClearedMaterial(r) = ClearedMaterial(r)
    /\ \A r : Work!ClaimedRecord(r) = ClaimedRecord(r)
    /\ \A b, t, now : Work!NewRecord(b, t, now) = NewRecord(b, t, now)
    /\ \A r, now : Work!Due(r, now) <=> Due(r, now)
    /\ \A r, now : Work!ExpiredRecord(r, now) = ExpiredRecord(r, now)
    /\ \A r : Work!ValidatedRecordMaterial(r) <=> ValidatedRecordMaterial(r)
    /\ \A r, seals : Work!SealsMatch(r, seals) <=> SealsMatch(r, seals)
<1>1. /\ Work!NoTime = NoTime /\ Work!NoRecord = NoRecord
      /\ Work!NoEvidence = NoEvidence
  BY DEF Work!NoTime, NoTime, Work!NoRecord, NoRecord, Work!NoEvidence, NoEvidence
<1>2. /\ Work!EvidenceMap = EvidenceMap /\ Work!Time = Time /\ Work!Pending = Pending
  BY DEF Work!EvidenceMap, EvidenceMap, Work!Time, Time, Work!Pending, Pending
<1>3. \A S : Work!Cardinality(S) = Cardinality(S)
  BY DEF Cardinality, Work!Cardinality
<1>4. \A r : Work!Staged(r) = Staged(r)
  BY DEF Work!Staged, Staged
<1>5. \A r : Work!EvidenceBytes(r) = EvidenceBytes(r)
  BY DEF EvidenceBytes, Work!EvidenceBytes, Work!Staged, Staged,
     Work!MapThenSumSet, MapThenSumSet, Work!MapThenFoldSet, MapThenFoldSet
<1>6. \A r : Work!CommittedBytes(r) = CommittedBytes(r)
  BY <1>1, <1>5 DEF Work!CommittedBytes, CommittedBytes
<1>7. \A r : Work!CredentialsOf(r) = CredentialsOf(r)
  BY DEF Work!CredentialsOf, CredentialsOf
<1>8. /\ \A r : Work!ReleasedPayloads(r) = ReleasedPayloads(r)
      /\ \A r : Work!ClearedMaterial(r) = ClearedMaterial(r)
      /\ \A r : Work!ClaimedRecord(r) = ClaimedRecord(r)
  BY <1>1 DEF Work!ReleasedPayloads, ReleasedPayloads, Work!ClearedMaterial,
     ClearedMaterial, Work!ClaimedRecord, ClaimedRecord
<1>9. \A b, t, now : Work!NewRecord(b, t, now) = NewRecord(b, t, now)
  BY <1>1 DEF Work!NewRecord, NewRecord
<1>10. \A r, now : Work!Due(r, now) <=> Due(r, now)
  BY DEF Work!Due, Due, Work!DeadlineOf, DeadlineOf, Work!Pending, Pending
<1>11. \A r, now : Work!ExpiredRecord(r, now) = ExpiredRecord(r, now)
  BY <1>8 DEF Work!ExpiredRecord, ExpiredRecord
<1>12. \A r : Work!ValidatedRecordMaterial(r) <=> ValidatedRecordMaterial(r)
  BY <1>1, <1>4 DEF Work!ValidatedRecordMaterial, ValidatedRecordMaterial
<1>13. \A r, seals : Work!SealsMatch(r, seals) <=> SealsMatch(r, seals)
  BY <1>4 DEF Work!SealsMatch, SealsMatch
<1>. QED
  BY <1>1, <1>2, <1>3, <1>4, <1>5, <1>6, <1>7, <1>8, <1>9, <1>10, <1>11, <1>12,
     <1>13

\* The checks of an operation have the same outcome on the hydrated
\* repository as on the row it was read from.
LEMMA SameChecks ==
    ASSUME OnRow
    PROVE  /\ Work!Live = Live' /\ Work!Tombstoned = Tombstoned'
           /\ \A now : Work!InstallationNow(now) <=> InstallationNow(now)'
           /\ \A m, now : Work!Accessible(m, now) <=> Accessible(m, now)'
           /\ \A m, now : Work!IsExpired(m, now) <=> IsExpired(m, now)'
           /\ \A b, c : Work!ResultAccess(b, c) <=> ResultAccess(b, c)'
           /\ \A c, S : Work!CredentialInUse(c, S) <=> CredentialInUse(c, S)'
           /\ \A c, now : Work!SweepAllowed(c, now) <=> SweepAllowed(c, now)'
           /\ \A now : Work!TombstoneFits(now) <=> TombstoneFits(now)
           /\ \A S, K, now : Work!RemovedBySweep(S, K, now)
                                <=> RemovedBySweep(S, K, now)'
<1>1. Work!Live = Live' /\ Work!Tombstoned = Tombstoned'
  BY SameValues DEF OnRow, Work!Live, Live, Work!Tombstoned, Tombstoned
<1>2. \A now : Work!InstallationNow(now) <=> InstallationNow(now)'
  BY DEF OnRow, Work!InstallationNow, InstallationNow
<1>3. \A m, now : Work!Accessible(m, now) <=> Accessible(m, now)'
  BY <1>2, SameValues DEF OnRow, Work!Accessible, Accessible
<1>4. \A m, now : Work!IsExpired(m, now) <=> IsExpired(m, now)'
  BY SameValues DEF OnRow, Work!IsExpired, IsExpired
<1>5. \A b, c : Work!ResultAccess(b, c) <=> ResultAccess(b, c)'
  BY DEF OnRow, Work!ResultAccess, ResultAccess
<1>6. \A c, S : Work!CredentialInUse(c, S) <=> CredentialInUse(c, S)'
  BY <1>1, SameValues DEF OnRow, Work!CredentialInUse, CredentialInUse
<1>7. \A c, now : Work!SweepAllowed(c, now) <=> SweepAllowed(c, now)'
  BY <1>1, <1>2, SameValues DEF OnRow, Work!SweepAllowed, SweepAllowed
<1>8. \A now : Work!TombstoneFits(now) <=> TombstoneFits(now)
  BY DEF Work!TombstoneFits, TombstoneFits
<1>9. \A now : Work!Collectable(now) = Collectable(now)'
  BY <1>1, SameValues DEF OnRow, Work!Collectable, Collectable
<1>10. \A S, K, now : Work!RemovedBySweep(S, K, now) <=> RemovedBySweep(S, K, now)'
  BY <1>9, SameValues DEF OnRow, Work!RemovedBySweep, RemovedBySweep
<1>. QED
  BY <1>1, <1>2, <1>3, <1>4, <1>5, <1>6, <1>7, <1>8, <1>10

\* And the counters without the bytes of some mailboxes are the same.
LEMMA SameTotal ==
    ASSUME OnRow
    PROVE  \A S : Work!TotalWithout(S) = TotalWithout(S)'
BY DEF OnRow, Work!TotalWithout, TotalWithout, Work!MapThenSumSet, MapThenSumSet,
   Work!MapThenFoldSet, MapThenFoldSet, Work!CommittedBytes, CommittedBytes,
   Work!EvidenceBytes, EvidenceBytes, Work!Staged, Staged, Work!NoTime, NoTime

\* A denial.
LEMMA DeniedOnRow ==
    ASSUME OnRow, NEW m, NEW now, Work!DeniedAsExpired(m, now)
    PROVE  DeniedOfRow(m, now)'
BY SameValues, SameChecks, SameTotal
   DEF OnRow, Work!DeniedAsExpired, DeniedOfRow, Work!AdvanceInstallationTime,
       TimeOfRow

\* claim
LEMMA ClaimOnRow ==
    ASSUME OnRow, NEW b, NEW c, NEW now, Work!Claim(b, c, now)
    PROVE  ClaimOfRow(b, c, now)'
BY DeniedOnRow, SameValues, SameChecks
   DEF OnRow, Work!Claim, ClaimOfRow, Work!Observe, ObserveOfRow,
       Work!AdvanceInstallationTime, TimeOfRow

\* stage_evidence
LEMMA StageEvidenceOnRow ==
    ASSUME OnRow, NEW b, NEW c, NEW o, NEW p, NEW now,
           Work!StageEvidence(b, c, o, p, now)
    PROVE  StageEvidenceOfRow(b, c, o, p, now)'
BY DeniedOnRow, SameValues, SameChecks
   DEF OnRow, Work!StageEvidence, StageEvidenceOfRow, Work!Observe, ObserveOfRow,
       Work!AdvanceInstallationTime, TimeOfRow

\* commit_result
LEMMA CommitResultOnRow ==
    ASSUME OnRow, NEW b, NEW c, NEW seals, NEW size, NEW now,
           Work!CommitResult(b, c, seals, size, now)
    PROVE  CommitResultOfRow(b, c, seals, size, now)'
BY DeniedOnRow, SameValues, SameChecks
   DEF OnRow, Work!CommitResult, CommitResultOfRow, Work!Observe, ObserveOfRow,
       Work!AdvanceInstallationTime, TimeOfRow

\* create
LEMMA CreateOnRow ==
    ASSUME OnRow, NEW b, NEW t, NEW now,
           Work!Create(b, t, now)
    PROVE  CreateOfRow(b, t, now)'
BY SameValues, SameChecks
   DEF OnRow, Work!Create, CreateOfRow, Work!AdvanceInstallationTime, TimeOfRow

\* offer
LEMMA OfferOnRow ==
    ASSUME OnRow, NEW b, NEW t, NEW result, NEW now,
           Work!Offer(b, t, result, now)
    PROVE  OfferOfRow(b, t, result, now)'
BY DeniedOnRow, SameValues, SameChecks
   DEF OnRow, Work!Offer, OfferOfRow, Work!Observe, ObserveOfRow,
       Work!AdvanceInstallationTime, TimeOfRow

\* collect
LEMMA CollectOnRow ==
    ASSUME OnRow, NEW m, NEW c, NEW now,
           Work!Collect(m, c, now)
    PROVE  CollectOfRow(m, c, now)'
BY SameValues, SameChecks
   DEF OnRow, Work!Collect, CollectOfRow, Work!Observe, ObserveOfRow,
       Work!AdvanceInstallationTime, TimeOfRow

\* acknowledge_collection
LEMMA AcknowledgeOnRow ==
    ASSUME OnRow, NEW m, NEW c, NEW now,
           Work!AcknowledgeCollection(m, c, now)
    PROVE  AcknowledgeOfRow(m, c, now)'
BY SameValues, SameChecks
   DEF OnRow, Work!AcknowledgeCollection, AcknowledgeOfRow, Work!Observe, ObserveOfRow,
       Work!AdvanceInstallationTime, TimeOfRow

\* abandon
LEMMA AbandonOnRow ==
    ASSUME OnRow, NEW m, NEW c, NEW now,
           Work!Abandon(m, c, now)
    PROVE  AbandonOfRow(m, c, now)'
BY DeniedOnRow, SameValues, SameChecks, SameTotal
   DEF OnRow, Work!Abandon, AbandonOfRow, Work!Observe, ObserveOfRow,
       Work!AdvanceInstallationTime, TimeOfRow

\* snapshot
LEMMA SnapshotOnRow ==
    ASSUME OnRow, NEW m, NEW c, NEW now,
           Work!Snapshot(m, c, now)
    PROVE  SnapshotOfRow(m, c, now)'
BY DeniedOnRow, SameValues, SameChecks
   DEF OnRow, Work!Snapshot, SnapshotOfRow, Work!Observe, ObserveOfRow,
       Work!AdvanceInstallationTime, TimeOfRow

\* expire
LEMMA ExpireOnRow ==
    ASSUME OnRow, NEW c, NEW now,
           Work!Expire(c, now)
    PROVE  ExpireOfRow(c, now)'
BY SameValues, SameChecks, SameTotal
   DEF OnRow, Work!Expire, ExpireOfRow, Work!AdvanceInstallationTime, TimeOfRow

\* garbage_collect
LEMMA GarbageCollectOnRow ==
    ASSUME OnRow, NEW c, NEW removed, NEW now,
           Work!GarbageCollect(c, removed, now)
    PROVE  GarbageCollectOfRow(c, removed, now)'
BY SameValues, SameChecks, SameTotal
   DEF OnRow, Work!GarbageCollect, GarbageCollectOfRow, Work!AdvanceInstallationTime, TimeOfRow

\* The operation a call applies to the row it has read is one of the row.
LEMMA AppliedOnRow ==
    ASSUME OnRow, NEW now \in Time,
           \/ \E c \in Credential : Work!ConnectorOperation(c, now)
           \/ \E t \in CredentialTriple : Work!CoreOperation(t, now)
           \/ Work!MaintenanceOperation(Maintenance, now)
    PROVE  OperationOfRow'
<1>1. ASSUME NEW c \in Credential, Work!ConnectorOperation(c, now)
      PROVE  OperationOfRow'
  BY <1>1, ClaimOnRow, StageEvidenceOnRow, CommitResultOnRow, SameValues
     DEF Work!ConnectorOperation, OperationOfRow
<1>2. ASSUME NEW t \in CredentialTriple, Work!CoreOperation(t, now)
      PROVE  OperationOfRow'
  BY <1>2, CreateOnRow, OfferOnRow, CollectOnRow, AcknowledgeOnRow, AbandonOnRow,
     SnapshotOnRow DEF Work!CoreOperation, OperationOfRow
<1>3. ASSUME Work!MaintenanceOperation(Maintenance, now)
      PROVE  OperationOfRow'
  BY <1>3, ExpireOnRow, GarbageCollectOnRow, CredentialAssumption
     DEF Work!MaintenanceOperation, OperationOfRow
<1>. QED
  BY <1>1, <1>2, <1>3

\* Row and hydrated repository both stay as they are.
RowKept ==
    /\ records' = records /\ tombstones' = tombstones
    /\ highWater' = highWater /\ total' = total
    /\ wRecords' = wRecords /\ wTombstones' = wTombstones
    /\ wHighWater' = wHighWater /\ wTotal' = wTotal

\* While the row stays as it is, so do the outcomes of the checks on it.
LEMMA KeptChecks ==
    ASSUME RowKept
    PROVE  /\ Live' = Live /\ Tombstoned' = Tombstoned
           /\ \A now : InstallationNow(now)' <=> InstallationNow(now)
           /\ \A m, now : Accessible(m, now)' <=> Accessible(m, now)
           /\ \A m, now : IsExpired(m, now)' <=> IsExpired(m, now)
           /\ \A b, c : ResultAccess(b, c)' <=> ResultAccess(b, c)
           /\ \A c, S : CredentialInUse(c, S)' <=> CredentialInUse(c, S)
           /\ \A c, now : SweepAllowed(c, now)' <=> SweepAllowed(c, now)
           /\ \A S, K, now : RemovedBySweep(S, K, now)' <=> RemovedBySweep(S, K, now)
           /\ \A S : TotalWithout(S)' = TotalWithout(S)
<1>1. Live' = Live /\ Tombstoned' = Tombstoned
  BY DEF RowKept, Live, Tombstoned
<1>2. \A now : InstallationNow(now)' <=> InstallationNow(now)
  BY DEF RowKept, InstallationNow
<1>3. \A m, now : Accessible(m, now)' <=> Accessible(m, now)
  BY <1>2 DEF RowKept, Accessible
<1>4. \A m, now : IsExpired(m, now)' <=> IsExpired(m, now)
  BY DEF RowKept, IsExpired
<1>5. \A b, c : ResultAccess(b, c)' <=> ResultAccess(b, c)
  BY DEF RowKept, ResultAccess
<1>6. \A c, S : CredentialInUse(c, S)' <=> CredentialInUse(c, S)
  BY <1>1 DEF RowKept, CredentialInUse
<1>7. \A c, now : SweepAllowed(c, now)' <=> SweepAllowed(c, now)
  BY <1>1, <1>2 DEF RowKept, SweepAllowed
<1>8. \A now : Collectable(now)' = Collectable(now)
  BY <1>1 DEF RowKept, Collectable
<1>9. \A S, K, now : RemovedBySweep(S, K, now)' <=> RemovedBySweep(S, K, now)
  BY <1>8 DEF RowKept, RemovedBySweep
<1>10. \A S : TotalWithout(S)' = TotalWithout(S)
  BY DEF RowKept, TotalWithout, MapThenSumSet, MapThenFoldSet, CommittedBytes,
     EvidenceBytes, Staged
<1>. QED
  BY <1>1, <1>2, <1>3, <1>4, <1>5, <1>6, <1>7, <1>9, <1>10

\* A call that has applied its operation keeps it while others move.
LEMMA OperationKept ==
    ASSUME RowKept, OperationOfRow
    PROVE  OperationOfRow'
<1>1. \A m, now : DeniedOfRow(m, now) => DeniedOfRow(m, now)'
  BY KeptChecks DEF RowKept, DeniedOfRow, TimeOfRow
<1>2. \A b, c, now :
         ClaimOfRow(b, c, now) => ClaimOfRow(b, c, now)'
  BY <1>1, KeptChecks DEF RowKept, ClaimOfRow, ObserveOfRow, TimeOfRow
<1>3. \A b, c, o, p, now :
         StageEvidenceOfRow(b, c, o, p, now) => StageEvidenceOfRow(b, c, o, p, now)'
  BY <1>1, KeptChecks DEF RowKept, StageEvidenceOfRow, ObserveOfRow, TimeOfRow
<1>4. \A b, c, seals, size, now :
         CommitResultOfRow(b, c, seals, size, now) => CommitResultOfRow(b, c, seals, size, now)'
  BY <1>1, KeptChecks DEF RowKept, CommitResultOfRow, ObserveOfRow, TimeOfRow
<1>5. \A b, t, now :
         CreateOfRow(b, t, now) => CreateOfRow(b, t, now)'
  BY KeptChecks DEF RowKept, CreateOfRow, TimeOfRow
<1>6. \A b, t, result, now :
         OfferOfRow(b, t, result, now) => OfferOfRow(b, t, result, now)'
  BY <1>1, KeptChecks DEF RowKept, OfferOfRow, ObserveOfRow, TimeOfRow
<1>7. \A m, c, now :
         CollectOfRow(m, c, now) => CollectOfRow(m, c, now)'
  BY KeptChecks DEF RowKept, CollectOfRow, ObserveOfRow, TimeOfRow
<1>8. \A m, c, now :
         AcknowledgeOfRow(m, c, now) => AcknowledgeOfRow(m, c, now)'
  BY KeptChecks DEF RowKept, AcknowledgeOfRow, ObserveOfRow, TimeOfRow
<1>9. \A m, c, now :
         AbandonOfRow(m, c, now) => AbandonOfRow(m, c, now)'
  BY <1>1, KeptChecks DEF RowKept, AbandonOfRow, ObserveOfRow, TimeOfRow
<1>10. \A m, c, now :
         SnapshotOfRow(m, c, now) => SnapshotOfRow(m, c, now)'
  BY <1>1, KeptChecks DEF RowKept, SnapshotOfRow, ObserveOfRow, TimeOfRow
<1>11. \A c, now :
         ExpireOfRow(c, now) => ExpireOfRow(c, now)'
  BY KeptChecks DEF RowKept, ExpireOfRow, TimeOfRow
<1>12. \A c, removed, now :
         GarbageCollectOfRow(c, removed, now) => GarbageCollectOfRow(c, removed, now)'
  BY KeptChecks DEF RowKept, GarbageCollectOfRow, TimeOfRow
<1>. QED
  BY <1>2, <1>3, <1>4, <1>5, <1>6, <1>7, <1>8, <1>9, <1>10, <1>11, <1>12 DEF OperationOfRow

\* A commit makes the operation a step of the row.
LEMMA CommitIsNext ==
    ASSUME Replace, OperationOfRow
    PROVE  Next
<1>1. \A m, now : DeniedOfRow(m, now) => DeniedAsExpired(m, now)
  BY DEF Replace, DeniedOfRow, TimeOfRow, DeniedAsExpired, AdvanceInstallationTime
<1>2. \A b, c, now :
         ClaimOfRow(b, c, now) => Claim(b, c, now)
  BY <1>1 DEF Replace, ClaimOfRow, Claim, ObserveOfRow, Observe, TimeOfRow,
     AdvanceInstallationTime
<1>3. \A b, c, o, p, now :
         StageEvidenceOfRow(b, c, o, p, now) => StageEvidence(b, c, o, p, now)
  BY <1>1 DEF Replace, StageEvidenceOfRow, StageEvidence, ObserveOfRow, Observe, TimeOfRow,
     AdvanceInstallationTime
<1>4. \A b, c, seals, size, now :
         CommitResultOfRow(b, c, seals, size, now) => CommitResult(b, c, seals, size, now)
  BY <1>1 DEF Replace, CommitResultOfRow, CommitResult, ObserveOfRow, Observe, TimeOfRow,
     AdvanceInstallationTime
<1>5. \A b, t, now :
         CreateOfRow(b, t, now) => Create(b, t, now)
  BY DEF Replace, CreateOfRow, Create, TimeOfRow, AdvanceInstallationTime
<1>6. \A b, t, result, now :
         OfferOfRow(b, t, result, now) => Offer(b, t, result, now)
  BY <1>1 DEF Replace, OfferOfRow, Offer, ObserveOfRow, Observe, TimeOfRow,
     AdvanceInstallationTime
<1>7. \A m, c, now :
         CollectOfRow(m, c, now) => Collect(m, c, now)
  BY DEF Replace, CollectOfRow, Collect, ObserveOfRow, Observe, TimeOfRow,
     AdvanceInstallationTime
<1>8. \A m, c, now :
         AcknowledgeOfRow(m, c, now) => AcknowledgeCollection(m, c, now)
  BY DEF Replace, AcknowledgeOfRow, AcknowledgeCollection, ObserveOfRow, Observe, TimeOfRow,
     AdvanceInstallationTime
<1>9. \A m, c, now :
         AbandonOfRow(m, c, now) => Abandon(m, c, now)
  BY <1>1 DEF Replace, AbandonOfRow, Abandon, ObserveOfRow, Observe, TimeOfRow,
     AdvanceInstallationTime
<1>10. \A m, c, now :
         SnapshotOfRow(m, c, now) => Snapshot(m, c, now)
  BY <1>1 DEF Replace, SnapshotOfRow, Snapshot, ObserveOfRow, Observe, TimeOfRow,
     AdvanceInstallationTime
<1>11. \A c, now :
         ExpireOfRow(c, now) => Expire(c, now)
  BY DEF Replace, ExpireOfRow, Expire, TimeOfRow, AdvanceInstallationTime
<1>12. \A c, removed, now :
         GarbageCollectOfRow(c, removed, now) => GarbageCollect(c, removed, now)
  BY DEF Replace, GarbageCollectOfRow, GarbageCollect, TimeOfRow, AdvanceInstallationTime
<1>. QED
  BY <1>2, <1>3, <1>4, <1>5, <1>6, <1>7, <1>8, <1>9, <1>10, <1>11, <1>12
     DEF OperationOfRow, Next, ConnectorOperation, CoreOperation,
         MaintenanceOperation

\* A step after which no call is in a transaction.
LEMMA OutsideTransactions ==
    ASSUME \A k \in Handle : phase'[k] \notin {"loaded", "applied"}
    PROVE  CallsOnRow'
BY DEF CallsOnRow

\* A step that leaves row, hydrated repository and transactions alone.
LEMMA QuietCalls ==
    ASSUME CallsOnRow, RowKept,
           \A k \in Handle : phase'[k] \in {"loaded", "applied"} => phase'[k] = phase[k]
    PROVE  CallsOnRow'
<1>1. ASSUME NEW k \in Handle, phase'[k] = "loaded"
      PROVE  /\ wRecords' = records' /\ wTombstones' = tombstones'
             /\ wHighWater' = highWater' /\ wTotal' = total'
  BY <1>1 DEF CallsOnRow, RowKept
<1>2. ASSUME NEW k \in Handle, phase'[k] = "applied"
      PROVE  OperationOfRow'
  BY <1>2, OperationKept DEF CallsOnRow
<1>. QED
  BY <1>1, <1>2 DEF CallsOnRow

\* Every step keeps what transactions have done.
LEMMA CallsStep ==
    ASSUME ProtocolInv, CallsOnRow, [SystemNext]_vars
    PROVE  CallsOnRow'
<1>0. /\ phase \in [Handle -> Phase]
      /\ \A k \in Handle : phase[k] \in {"loaded", "applied"} => writer = k
  BY DEF ProtocolInv, HandleTypes, Transactions
<1>1. CASE UNCHANGED vars
  BY <1>1, QuietCalls DEF vars, row, work, RowKept
<1>2. ASSUME NEW h \in Handle, Open(h)
      PROVE  CallsOnRow'
  BY <1>0, <1>2, QuietCalls DEF Open, repository, work, RowKept
<1>3. ASSUME NEW h \in Handle, Begin(h)
      PROVE  CallsOnRow'
  <2>1. /\ writer = None
        /\ \A k \in Handle : phase[k] \notin {"loaded", "applied"}
    BY <1>0, <1>3, HandleAssumption DEF Begin
  <2>2. CASE Loadable
    BY <1>0, <1>3, <2>1, <2>2 DEF Begin, Load, row, CallsOnRow
  <2>3. CASE ~Loadable
    BY <1>0, <1>3, <2>1, <2>3, OutsideTransactions DEF Begin, EndTransaction
  <2>. QED
    BY <2>2, <2>3
<1>4. ASSUME NEW h \in Handle, ReadFails(h)
      PROVE  CallsOnRow'
  BY <1>0, <1>4, QuietCalls DEF ReadFails, row, work, RowKept
<1>5. ASSUME NEW h \in Handle, Apply(h)
      PROVE  CallsOnRow'
  <2>1. OnRow
    BY <1>5 DEF Apply, CallsOnRow, OnRow, row
  <2>2. known \subseteq Credential
    BY DEF ProtocolInv, HandleTypes
  <2>3. OperationOfRow'
    BY <1>5, <2>1, <2>2, AppliedOnRow DEF Apply
  <2>4. \A k \in Handle : phase'[k] # "loaded"
    BY <1>0, <1>5 DEF Apply
  <2>. QED
    BY <2>3, <2>4 DEF CallsOnRow
<1>6. ASSUME NEW h \in Handle,
             \/ Deny(h) \/ RefuseInstant(h) \/ RollbackUnchanged(h)
             \/ CommitThenReply(h) \/ RefuseFrame(h) \/ CommitFails(h)
      PROVE  CallsOnRow'
  <2>1. phase[h] \in {"loaded", "applied"}
    BY <1>6 DEF Deny, RefuseInstant, RollbackUnchanged, CommitThenReply,
       RefuseFrame, CommitFails
  <2>2. PICK p \in {"idle", "committed", "poisoned"} :
            phase' = [phase EXCEPT ![h] = p]
    BY <1>6 DEF Deny, RefuseInstant, RollbackUnchanged, CommitThenReply,
       RefuseFrame, CommitFails, EndTransaction
  <2>3. \A k \in Handle : phase'[k] \notin {"loaded", "applied"}
    BY <1>0, <2>1, <2>2
  <2>. QED
    BY <2>3, OutsideTransactions
<1>7. ASSUME NEW h \in Handle, Reply(h)
      PROVE  CallsOnRow'
  BY <1>0, <1>7, QuietCalls DEF Reply, row, work, RowKept
<1>8. ASSUME NEW h \in Handle, Disconnect(h)
      PROVE  CallsOnRow'
  <2>1. phase' = [phase EXCEPT ![h] = "closed"]
    BY <1>8 DEF Disconnect
  <2>2. CASE writer = h
    BY <1>0, <2>1, <2>2, OutsideTransactions
  <2>3. CASE writer # h
    BY <1>0, <1>8, <2>1, <2>3, QuietCalls DEF Disconnect, row, work, RowKept
  <2>. QED
    BY <2>2, <2>3
<1>. QED
  BY <1>1, <1>2, <1>3, <1>4, <1>5, <1>6, <1>7, <1>8
     DEF SystemNext, InCall, Close, Die

\* Only a call that has applied an operation commits.
LEMMA RowTakesOperations ==
    ASSUME CallsOnRow, [SystemNext]_vars
    PROVE  [Next]_repository
<1>1. CASE \E h \in Handle : phase[h] = "applied" /\ Replace
  BY <1>1, CommitIsNext DEF CallsOnRow
<1>2. CASE UNCHANGED repository
  BY <1>2
<1>3. (\E h \in Handle : phase[h] = "applied" /\ Replace) \/ UNCHANGED repository
  BY DEF SystemNext, vars, row, repository, Open, Begin, ReadFails, InCall, Apply,
     Deny, RefuseInstant, RollbackUnchanged, CommitThenReply, RefuseFrame,
     CommitFails, Reply, Close, Die, Disconnect
<1>. QED
  BY <1>1, <1>2, <1>3

\* A call of persistent.py inside its transaction has the row before it, or
\* what one operation of volatile.py makes of the row.
THEOREM CallsInvariance == SystemSpec => []CallsOnRow
<1>1. SystemInit => CallsOnRow
  BY DEF SystemInit, CallsOnRow
<1>2. ProtocolInv /\ CallsOnRow /\ [SystemNext]_vars => CallsOnRow'
  BY CallsStep
<1>. QED
  BY <1>1, <1>2, ProtocolInvariance, PTL DEF SystemSpec

\* persistent.py implements volatile.py: whatever handles do at once, wherever
\* processes die and commits fail, the row starts empty and changes by one
\* whole operation of the one-process repository at a time, applied to the
\* row as it was.
THEOREM RefinementTheorem == SystemSpec => DiskImplementsRepository
<1>1. SystemInit => Init
  BY DEF SystemInit
<1>2. CallsOnRow /\ [SystemNext]_vars => [Next]_repository
  BY RowTakesOperations
<1>. QED
  BY <1>1, <1>2, CallsInvariance, PTL DEF SystemSpec, DiskImplementsRepository, Spec


\* A committed result outlives crashes and failed commits: the row of
\* persistent.py never loses or alters it before core has acknowledged it.
THEOREM DurableResultTheorem == SystemSpec => ResultSurvives
BY RefinementTheorem, ResultTheorem, PTL DEF DiskImplementsRepository

\* Nor does the row of persistent.py miss a deadline, whichever handle and
\* whichever clock the operation came from.
THEOREM DurableDeadlineTheorem == SystemSpec => DeadlinesHold
BY RefinementTheorem, DeadlineTheorem, PTL DEF DiskImplementsRepository

-----------------------------------------------------------------------------
(* What an operation leaves can be written.                                *)

\* What is counted does not depend on where the record is.
LEMMA SameCounts ==
    /\ \A S : Hydrated!IsFiniteSet(S) <=> IsFiniteSet(S)
    /\ \A S : Hydrated!Cardinality(S) = Cardinality(S)
    /\ \A r : Hydrated!EvidenceBytes(r) = EvidenceBytes(r)
    /\ \A r : Hydrated!CommittedBytes(r) = CommittedBytes(r)
    /\ \A r : Hydrated!Within(r) <=> Within(r)
    /\ \A t : Hydrated!WithinCeilings(t) <=> WithinCeilings(t)
    /\ \A R, S : Hydrated!TotalOf(R, S) = TotalOf(R, S)
<1>1. \A S : Hydrated!IsFiniteSet(S) <=> IsFiniteSet(S)
  BY DEF Hydrated!IsFiniteSet, IsFiniteSet
<1>2. \A S : Hydrated!Cardinality(S) = Cardinality(S)
  BY DEF Hydrated!Cardinality, Cardinality
<1>3. \A r : Hydrated!EvidenceBytes(r) = EvidenceBytes(r)
  BY DEF EvidenceBytes, Hydrated!EvidenceBytes, Hydrated!Staged, Staged,
     Hydrated!MapThenSumSet, MapThenSumSet, Hydrated!MapThenFoldSet, MapThenFoldSet
<1>4. \A r : Hydrated!CommittedBytes(r) = CommittedBytes(r)
  BY <1>3, SameRecords DEF Hydrated!CommittedBytes, CommittedBytes
<1>5. \A r : Hydrated!Within(r) <=> Within(r)
  BY <1>1, <1>2, <1>3, SameRecords DEF Hydrated!Within, Within
<1>6. \A t : Hydrated!WithinCeilings(t) <=> WithinCeilings(t)
  BY DEF Hydrated!WithinCeilings, WithinCeilings
<1>7. \A g, S : Hydrated!SumOf(g, S) = SumOf(g, S)
  BY DEF Hydrated!SumOf, SumOf, Hydrated!SumTable, SumTable, Hydrated!FirstOf,
     FirstOf
<1>8. \A R : /\ Hydrated!MaterialOf(R) = MaterialOf(R)
             /\ Hydrated!EvidenceOf(R) = EvidenceOf(R)
             /\ Hydrated!CommittedOf(R) = CommittedOf(R)
  BY <1>3, <1>4 DEF Hydrated!MaterialOf, MaterialOf, Hydrated!EvidenceOf,
     EvidenceOf, Hydrated!CommittedOf, CommittedOf
<1>9. \A R, S : Hydrated!TotalOf(R, S) = TotalOf(R, S)
  BY <1>7, <1>8 DEF Hydrated!TotalOf, TotalOf
<1>. QED
  BY <1>1, <1>2, <1>3, <1>4, <1>5, <1>6, <1>9

\* A transaction starts from the accounts of the row.
LEMMA LoadKeepsQuota ==
    ASSUME QuotaInv, Load
    PROVE  Hydrated!QuotaInv'
<1>1. /\ wRecords' = records /\ wTombstones' = tombstones /\ wTotal' = total
  BY DEF Load
<1>2. Hydrated!Live' = Live /\ Hydrated!Tombstoned' = Tombstoned
  BY <1>1, SameRecords DEF Hydrated!Live, Live, Hydrated!Tombstoned, Tombstoned
<1>. QED
  BY <1>1, <1>2, SameCounts DEF QuotaInv, Hydrated!QuotaInv

\* An empty repository counts nothing.
LEMMA DropKeepsQuota ==
    ASSUME Drop
    PROVE  Hydrated!QuotaInv'
<1>1. NoRecord.state = "ABSENT"
  BY DEF NoRecord
<1>2. Within(NoRecord)
  BY <1>1, NoRecordGood, EmptyCounts
<1>3. /\ \A m \in Mailbox : wRecords'[m] = NoRecord /\ wTombstones'[m] = NoTime
      /\ wTotal' = [active |-> 0, evidence |-> 0, committed |-> 0]
  BY DEF Drop
<1>4. Hydrated!Live' = {} /\ Hydrated!Tombstoned' = {}
  BY <1>1, <1>3, SameRecords DEF Hydrated!Live, Hydrated!Tombstoned
<1>5. IsFiniteSet({}) /\ Cardinality({}) = 0
  BY FS_EmptySet
<1>6. wTotal' = TotalOf(wRecords', {})
  BY <1>3, SumEmpty DEF TotalOf
<1>7. WithinCeilings(wTotal')
  BY <1>3, LimitTypes DEF WithinCeilings
<1>8. Cardinality({}) <= MaxMailboxes /\ Cardinality({}) <= MaxTombstones
  BY <1>5, LimitTypes
<1>. QED
  BY <1>2, <1>3, <1>4, <1>5, <1>6, <1>7, <1>8, SameCounts DEF Hydrated!QuotaInv

\* An operation keeps the accounts of the hydrated repository.
LEMMA AppliedKeepsQuota ==
    ASSUME Hydrated!Inv, Hydrated!QuotaInv, Hydrated!Next
    PROVE  Hydrated!QuotaInv'
BY Hydrated!NextKeepsQuota, BindingAssumption, CredentialAssumption,
   SizeAssumption, LimitAssumption, NoneAssumption

\* A hydrated repository that is good and counted passes the checks of
\* _write_repository.
LEMMA GoodIsValid ==
    ASSUME Hydrated!Inv, Hydrated!CredentialInv, Hydrated!QuotaInv
    PROVE  ValidWork
<1>1. Work!Live = Hydrated!Live /\ Work!Tombstoned = Hydrated!Tombstoned
  BY DEF Work!Live, Hydrated!Live, Work!Tombstoned, Hydrated!Tombstoned,
     Work!NoTime, Hydrated!NoTime
<1>2. Work!LifecycleValid
  BY <1>1, SameValues, SameRecords
     DEF Hydrated!Inv, Hydrated!GoodRecord, Hydrated!GoodLive, Hydrated!Live,
         Hydrated!Shape, Hydrated!Finished, Hydrated!ValidatedRecordMaterial,
         ValidatedRecordMaterial, Work!LifecycleValid, Work!Shape, Work!Finished
<1>3. Work!TimesOrdered
  BY <1>1, SameValues, SameRecords
     DEF Hydrated!Inv, Hydrated!GoodRecord, Hydrated!GoodLive, Hydrated!Live,
         Hydrated!GoodTimes, Hydrated!GoodTombstones, Hydrated!Tombstoned,
         Work!TimesOrdered
<1>4. Work!CredentialsDistinct
  BY <1>1, SameValues, SameRecords
     DEF Hydrated!CredentialInv, Hydrated!OwnRoles, Hydrated!Live,
         Work!CredentialsDistinct, Work!CredentialInUse
<1>5. Hydrated!QuotaAccounting
  BY Hydrated!QuotaInvSays, BindingAssumption, CredentialAssumption,
     SizeAssumption, LimitAssumption, NoneAssumption
<1>6. Work!QuotaAccounting
  BY <1>5
     DEF Hydrated!QuotaAccounting, Work!QuotaAccounting, Hydrated!Live, Work!Live,
         Hydrated!Tombstoned, Work!Tombstoned, Hydrated!NoTime, Work!NoTime,
         Hydrated!MapThenSumSet, Work!MapThenSumSet, Hydrated!MapThenFoldSet,
         Work!MapThenFoldSet, Hydrated!EvidenceBytes, Work!EvidenceBytes,
         Hydrated!CommittedBytes, Work!CommittedBytes, Hydrated!Staged,
         Work!Staged, Hydrated!Cardinality, Work!Cardinality
<1>. QED
  BY <1>2, <1>3, <1>4, <1>6 DEF ValidWork

\* Every step leaves a hydrated repository that is counted.
LEMMA WorkCountedStep ==
    ASSUME ProtocolInv, QuotaInv, Hydrated!QuotaInv, [SystemNext]_vars
    PROVE  Hydrated!QuotaInv'
<1>1. CASE UNCHANGED work
  BY <1>1 DEF work, Hydrated!QuotaInv, Hydrated!Live, Hydrated!Tombstoned
<1>2. CASE Drop
  BY <1>2, DropKeepsQuota
<1>3. CASE Load
  BY <1>3, LoadKeepsQuota
<1>4. ASSUME NEW h \in Handle, Apply(h)
      PROVE  Hydrated!QuotaInv'
  <2>1. PICK now \in Time :
            \/ \E c \in known : Work!ConnectorOperation(c, now)
            \/ \E t \in CredentialTriple : Work!CoreOperation(t, now)
            \/ Work!MaintenanceOperation(Maintenance, now)
    BY <1>4 DEF Apply
  <2>2. known \subseteq Credential
    BY DEF ProtocolInv, HandleTypes
  <2>3. Hydrated!Next
    BY <2>1, <2>2, AppliedIsNext
  <2>. QED
    BY <2>3, AppliedKeepsQuota DEF ProtocolInv, Good
<1>5. \/ UNCHANGED work \/ Drop \/ Load
      \/ \E h \in Handle : Apply(h)
  BY DEF SystemNext, vars, Open, Begin, ReadFails, InCall, Deny, RefuseInstant,
     RollbackUnchanged, CommitThenReply, RefuseFrame, CommitFails, Reply, Close,
     Die, Disconnect, EndTransaction
<1>. QED
  BY <1>1, <1>2, <1>3, <1>4, <1>5

\* The checks that _write_repository makes of the hydrated repository hold
\* whatever operation has run on it, so the reader's validation of a row is
\* never what refuses a write.
THEOREM ValidWorkTheorem == SystemSpec => []ValidWork
<1>1. SystemInit => Hydrated!QuotaInv
  <2>1. Work!Init => Hydrated!Init
    BY DEF Work!Init, Hydrated!Init, Work!NoRecord, Hydrated!NoRecord,
       Work!NoEvidence, Hydrated!NoEvidence, Work!NoTime, Hydrated!NoTime
  <2>. QED
    BY <2>1, Hydrated!InitEstablishesQuota, BindingAssumption,
       CredentialAssumption, SizeAssumption, LimitAssumption, NoneAssumption
       DEF SystemInit
<1>2. ProtocolInv /\ QuotaInv /\ Hydrated!QuotaInv /\ [SystemNext]_vars
        => Hydrated!QuotaInv'
  BY WorkCountedStep
<1>3. ProtocolInv /\ Hydrated!QuotaInv => ValidWork
  BY GoodIsValid DEF ProtocolInv, Good
<1>. QED
  BY <1>1, <1>2, <1>3, ProtocolInvariance, RefinementTheorem, QuotaInvariance, PTL
     DEF SystemSpec, DiskImplementsRepository

\* _write_repository refuses a frame only when the generations are used up:
\* a handle is never poisoned, and an operation never undone, for what the
\* operation itself has left.
THEOREM RefusalTheorem ==
    SystemSpec =>
        [][\A h \in Handle : RefuseFrame(h) => generation + 1 >= MaxGeneration]_vars
<1>1. RowCounted /\ ValidWork /\ [SystemNext]_vars =>
         [\A h \in Handle : RefuseFrame(h) => generation + 1 >= MaxGeneration]_vars
  BY GenerationAssumption DEF RefuseFrame, Writable, RowCounted
<1>2. SystemInit => RowCounted
  BY InitCounts DEF SystemInit, RowCounted, NoGeneration
<1>3. RowCounted /\ [SystemNext]_vars => RowCounted'
  BY RowCountedStep
<1>. QED
  BY <1>1, <1>2, <1>3, ValidWorkTheorem, PTL DEF SystemSpec


-----------------------------------------------------------------------------
(* Who holds the write transaction.                                        *)

\* The holder of the write transaction is inside a call, before its answer is
\* settled, or reports that it must be recovered.
HolderInCall ==
    \A h \in Handle : writer = h => phase[h] \in {"loaded", "applied", "poisoned"}

\* Every step keeps the holder inside its call.
LEMMA HolderStep ==
    ASSUME ProtocolInv, HolderInCall, [SystemNext]_vars
    PROVE  HolderInCall'
<1>0. phase \in [Handle -> Phase] /\ None \notin Handle
  BY HandleAssumption DEF ProtocolInv, HandleTypes
<1>1. CASE UNCHANGED vars
  BY <1>1 DEF vars, HolderInCall
<1>2. ASSUME NEW h \in Handle, Open(h) \/ Begin(h) \/ ReadFails(h)
      PROVE  HolderInCall'
  BY <1>0, <1>2 DEF HolderInCall, Open, Begin, ReadFails, EndTransaction
<1>3. ASSUME NEW h \in Handle, Apply(h) \/ Reply(h)
      PROVE  HolderInCall'
  BY <1>0, <1>3 DEF HolderInCall, Apply, Reply
<1>4. ASSUME NEW h \in Handle,
             \/ Deny(h) \/ RefuseInstant(h) \/ RollbackUnchanged(h)
             \/ CommitThenReply(h) \/ RefuseFrame(h)
      PROVE  HolderInCall'
  BY <1>0, <1>4 DEF HolderInCall, Deny, RefuseInstant, RollbackUnchanged,
     CommitThenReply, RefuseFrame, EndTransaction
<1>5. ASSUME NEW h \in Handle, CommitFails(h)
      PROVE  HolderInCall'
  BY <1>0, <1>5 DEF HolderInCall, CommitFails
<1>6. ASSUME NEW h \in Handle, Disconnect(h)
      PROVE  HolderInCall'
  BY <1>0, <1>6 DEF HolderInCall, Disconnect
<1>. QED
  BY <1>1, <1>2, <1>3, <1>4, <1>5, <1>6 DEF SystemNext, InCall, Close, Die

\* The safety half of LockReleased: a handle of persistent.py that is idle,
\* closed or about to answer never holds the write transaction, so whoever
\* waits for it waits for a call that runs or for a handle that is poisoned.
THEOREM HolderTheorem == SystemSpec => []HolderInCall
<1>1. SystemInit => HolderInCall
  BY HandleAssumption DEF SystemInit, HolderInCall
<1>2. ProtocolInv /\ HolderInCall /\ [SystemNext]_vars => HolderInCall'
  BY HolderStep
<1>. QED
  BY <1>1, <1>2, ProtocolInvariance, PTL DEF SystemSpec
=============================================================================
