------------------------- MODULE RunnerMailboxProofs -------------------------
(***************************************************************************)
(* Proofs about the mailbox in use.  The service with its connectors is    *)
(* shown to implement the repository on its own, so that the theorems of   *)
(* MailboxRepositoryProofs hold of it; the properties that speak of what   *)
(* connectors know and of what was removed are then proved with them.      *)
(***************************************************************************)
EXTENDS RunnerMailbox, MailboxRepositoryProofs

\* The collection credential with which core comes back is one it was issued.
Issued ==
    \A m \in Mailbox :
        records[m].state # "ABSENT" =>
            \E t \in CredentialTriple : records[m].collect = t.collection

Holdings == known \subseteq Credential

\* What deliveries have told connectors.  The secret of an action that was
\* not delivered is with nobody, so nothing was accepted for it.
Told ==
    /\ delivered \in [Mailbox -> {0, 1}]
    /\ \A m \in Mailbox :
          /\ records[m].state \in {"EMPTY", "OFFERED"} => delivered[m] = 0
          /\ records[m].resultCredential # None /\ delivered[m] = 0
                => records[m].resultCredential \notin known
          /\ Staged(records[m]) # {} \/ records[m].state = "RESULT_COMMITTED"
                => delivered[m] = 1

\* How long an id that was used before stays blocked: by its tombstone, then
\* by the clock.
Horizon(m) == ended[m] + TerminalRetention + TombstoneRetention

Blocked ==
    /\ ended \in [Mailbox -> Instant]
    /\ \A m \in Mailbox : ended[m] # NoTime =>
          /\ records[m].state # "ABSENT" => records[m].created >= Horizon(m)
          /\ tombstones[m] # NoTime => tombstones[m] >= Horizon(m)
          /\ records[m].state = "ABSENT" /\ tombstones[m] = NoTime
                => highWater >= Horizon(m)

-----------------------------------------------------------------------------
(* The service implements the repository.                                  *)

\* Every step of the service is an operation of the repository.
LEMMA ServiceSteps ==
    ASSUME Inv, Issued, Holdings, SystemNext
    PROVE  Next
<1>. PICK now \in Time :
        \/ \E b \in Binding, t \in CredentialTriple : OpenEmpty(b, t, now)
        \/ \E b \in Binding, t \in CredentialTriple, result \in IssuedCredential :
               OfferAction(b, t, result, now)
        \/ \E b \in Binding, c \in known, answered \in BOOLEAN :
               ClaimAction(b, c, answered, now)
        \/ \E b \in Binding, c \in known : WorkOnResult(b, c, now)
        \/ \E m \in Mailbox : CoreAccess(m, now)
        \/ ExpireDue(now)
        \/ \E removed \in SUBSET Mailbox : Sweep(removed, now)
  BY DEF SystemNext
<1>1. ASSUME NEW t \in CredentialTriple, CoreOperation(t, now) PROVE Next
  BY <1>1 DEF Next
<1>2. ASSUME NEW c \in known, ConnectorOperation(c, now) PROVE Next
  BY <1>2 DEF Next, Holdings
<1>3. MaintenanceOperation(Maintenance, now) => Next
  BY CredentialAssumption DEF Next
<1>4. ASSUME NEW b \in Binding, NEW t \in CredentialTriple, OpenEmpty(b, t, now)
      PROVE  Next
  BY <1>1, <1>4 DEF OpenEmpty, CoreOperation
<1>5. ASSUME NEW b \in Binding, NEW t \in CredentialTriple,
             NEW result \in IssuedCredential, OfferAction(b, t, result, now)
      PROVE  Next
  BY <1>1, <1>5 DEF OfferAction, CoreOperation
<1>6. ASSUME NEW b \in Binding, NEW c \in known, NEW answered \in BOOLEAN,
             ClaimAction(b, c, answered, now)
      PROVE  Next
  BY <1>2, <1>6 DEF ClaimAction, ConnectorOperation
<1>7. ASSUME NEW b \in Binding, NEW c \in known, WorkOnResult(b, c, now)
      PROVE  Next
  BY <1>2, <1>7 DEF WorkOnResult, ConnectorOperation
<1>8. ASSUME NEW m \in Mailbox, CoreAccess(m, now) PROVE Next
  <2>1. records[m].state # "ABSENT"
    BY <1>8 DEF CoreAccess, Collect, AcknowledgeCollection, Abandon, Snapshot,
       Accessible
  <2>2. PICK t \in CredentialTriple : records[m].collect = t.collection
    BY <2>1 DEF Issued
  <2>. QED
    BY <1>1, <1>8, <2>2 DEF CoreAccess, CoreOperation
<1>9. ASSUME ExpireDue(now) PROVE Next
  BY <1>3, <1>9 DEF ExpireDue, MaintenanceOperation
<1>10. ASSUME NEW removed \in SUBSET Mailbox, Sweep(removed, now) PROVE Next
  BY <1>3, <1>10 DEF Sweep, MaintenanceOperation
<1>. QED
  BY <1>4, <1>5, <1>6, <1>7, <1>8, <1>9, <1>10

\* What is left of a record whose deadline has passed.
LEMMA ExpiredFields ==
    ASSUME NEW r \in Record, NEW now, r.state \in Pending \cup {"EXPIRED"}
    PROVE  /\ ExpiredRecord(r, now).state = "EXPIRED"
           /\ ExpiredRecord(r, now).collect = r.collect
           /\ ExpiredRecord(r, now).created = r.created
           /\ ExpiredRecord(r, now).resultCredential \in {r.resultCredential, None}
           /\ Staged(ExpiredRecord(r, now)) \subseteq Staged(r)
<1>1. CASE r.state = "EXPIRED"
  BY <1>1 DEF ExpiredRecord, Record, Staged
<1>2. CASE r.state # "EXPIRED"
  <2>. DEFINE c == ClearedMaterial(r)
              x == [c EXCEPT !.state = "EXPIRED", !.terminal = now, !.seen = now]
  <2>1. /\ c.collect = r.collect /\ c.created = r.created
        /\ c.resultCredential = None /\ c.evidence = NoEvidence
    BY DEF ClearedMaterial, ReleasedPayloads, Record
  <2>2. DOMAIN c = DOMAIN r /\ "state" \in DOMAIN r
    BY DEF ClearedMaterial, ReleasedPayloads, Record
  <2>3. ExpiredRecord(r, now) = x
    BY <1>2 DEF ExpiredRecord
  <2>. HIDE DEF c
  <2>4. /\ x.state = "EXPIRED" /\ x.collect = r.collect /\ x.created = r.created
        /\ x.resultCredential = None /\ x.evidence = NoEvidence
    BY <2>1, <2>2
  <2>. HIDE DEF x
  <2>. QED
    BY <2>3, <2>4 DEF Staged, NoEvidence
<1>. QED
  BY <1>1, <1>2

\* A record keeps its collection credential, or is new.
LEMMA CollectKept ==
    ASSUME NEW r \in Record, NEW s, NEW now, RecordStep(r, s, now),
           s.state # "ABSENT"
    PROVE  \/ r.state # "ABSENT" /\ s.collect = r.collect
           \/ \E t \in CredentialTriple : s.collect = t.collection
<1>1. CASE Unmoved(r, s, now)
  BY <1>1 DEF Unmoved, Record
<1>2. ASSUME NEW b \in Binding, NEW t \in CredentialTriple,
             s = NewRecord(b, t, now)
      PROVE  s.collect = t.collection
  BY <1>2 DEF NewRecord, NoRecord
<1>3. CASE Progress(r, s, now)
  BY <1>3 DEF Progress, ClaimedRecord, Record
<1>4. CASE Delivery(r, s, now)
  BY <1>4 DEF Delivery, ReleasedPayloads, Record
<1>5. CASE End(r, s, now)
  <2>1. CASE /\ r.state = "EXPIRED" \/ Due(r, now)
             /\ s = ExpiredRecord(r, now)
    BY <2>1, ExpiredFields DEF Due, Pending
  <2>2. CASE /\ r.state \in Pending
             /\ s = [[ClearedMaterial(r) EXCEPT !.state = "ABANDONED",
                                                !.terminal = now]
                     EXCEPT !.seen = now]
    BY <2>2 DEF ClearedMaterial, ReleasedPayloads, Record, Pending
  <2>3. s # NoRecord
    BY DEF NoRecord
  <2>. QED
    BY <1>5, <2>1, <2>2, <2>3 DEF End
<1>. QED
  BY <1>1, <1>2, <1>3, <1>4, <1>5 DEF RecordStep

\* Core keeps what it needs to come back.
LEMMA IssuedKept ==
    ASSUME Inv, Issued, Holdings, [SystemNext]_vars
    PROVE  Issued'
<1>1. CASE UNCHANGED vars
  BY <1>1 DEF vars, Issued
<1>2. CASE SystemNext
  <2>1. \A m \in Mailbox : RecordStep(records[m], records'[m], highWater')
    BY <1>2, ServiceSteps, NextSteps
  <2>2. \A m \in Mailbox : records[m] \in Record
    BY DEF Inv
  <2>. QED
    BY <2>1, <2>2, CollectKept DEF Issued
<1>. QED
  BY <1>1, <1>2

\* Connectors only ever hold credentials.
LEMMA HoldingsKept ==
    ASSUME Inv, Holdings, [SystemNext]_vars
    PROVE  Holdings'
<1>1. \A t \in CredentialTriple : t.claim \in Credential
  BY CredentialAssumption
<1>2. ASSUME NEW now, NEW b \in Binding, NEW c \in known, NEW answered \in BOOLEAN,
             ClaimAction(b, c, answered, now)
      PROVE  Holdings'
  <2>. DEFINE m == b.mailbox
  <2>1. m \in Mailbox /\ Accessible(m, now) /\ records[m] \in Record
    BY <1>2, BindingTypes DEF ClaimAction, Claim, Inv
  <2>2. CASE records'[m].state = "CLAIMED_ONCE" /\ answered
    <3>1. records[m].state = "OFFERED"
      <4>1. ~DeniedAsExpired(m, now)
        <5>. SUFFICES ASSUME DeniedAsExpired(m, now) PROVE FALSE
          OBVIOUS
        <5>1. records'[m] = ExpiredRecord(records[m], now)
          BY <2>1 DEF DeniedAsExpired, Inv
        <5>2. records'[m].state = "EXPIRED"
          BY <2>1, <5>1, ExpiredFields DEF DeniedAsExpired, IsExpired, Due
        <5>. QED
          BY <2>2, <5>2
      <4>. QED
        BY <1>2, <4>1 DEF ClaimAction, Claim
    <3>2. records[m].resultCredential \in Credential
      BY <2>1, <3>1 DEF Inv, GoodRecord, Shape, Record
    <3>. QED
      BY <1>2, <2>2, <3>2 DEF ClaimAction, Holdings
  <2>3. CASE ~(records'[m].state = "CLAIMED_ONCE" /\ answered)
    BY <1>2, <2>3 DEF ClaimAction, Holdings
  <2>. QED
    BY <2>2, <2>3
<1>3. CASE UNCHANGED known
  BY <1>3 DEF Holdings
<1>. QED
  BY <1>1, <1>2, <1>3
     DEF SystemNext, OpenEmpty, OfferAction, WorkOnResult, CoreAccess, ExpireDue,
         Sweep, vars, Holdings

\* The service with its connectors does nothing to the repository that its
\* port does not allow: every theorem about the operations of volatile.py
\* holds of the system in service.py as well.
THEOREM ServiceImplementsRepository == SystemSpec => Spec
<1>1. SystemInit => Init /\ Inv /\ Issued /\ Holdings
  BY InitEstablishesInv DEF SystemInit, Init, Issued, Holdings, NoRecord
<1>2. Inv /\ Issued /\ Holdings /\ [SystemNext]_vars => [Next]_repository
  BY ServiceSteps DEF vars, repository
<1>3. Inv /\ Issued /\ Holdings /\ [SystemNext]_vars
        => Inv' /\ Issued' /\ Holdings'
  BY <1>2, NextKeepsInv, IssuedKept, HoldingsKept
<1>. QED
  BY <1>1, <1>2, <1>3, PTL DEF SystemSpec, Spec

-----------------------------------------------------------------------------
(* What connectors were told.                                              *)

\* A record that gives nobody anything: no secret is added, nothing is put on
\* offer and nothing is accepted.
Quiet(r, s) ==
    /\ s.resultCredential \in {r.resultCredential, None}
    /\ s.state \in {"EMPTY", "OFFERED"} => r.state = s.state
    /\ Staged(s) # {} \/ s.state = "RESULT_COMMITTED"
          => Staged(r) # {} \/ r.state = "RESULT_COMMITTED"

\* A record that stays, with the instant of its creation.
Stays(r, s) ==
    /\ r.state = "ABSENT" <=> s.state = "ABSENT"
    /\ s.created = r.created

\* Steps without a delivery keep what is known of deliveries.
LEMMA QuietKeepsTold ==
    ASSUME Told, \A m \in Mailbox : Quiet(records[m], records'[m]),
           UNCHANGED <<known, delivered>>
    PROVE  Told'
BY DEF Told, Quiet

\* Horizons are instants of the integers.
LEMMA HorizonType ==
    ASSUME Blocked
    PROVE  \A m \in Mailbox : Horizon(m) \in Int
<1>1. \A m \in Mailbox : ended[m] \in Instant
  BY DEF Blocked
<1>2. \A m \in Mailbox : ended[m] \in Int
  BY <1>1, TimeTypes
<1>. QED
  BY <1>2, ConstantTypes DEF Horizon

\* Records that stay keep the horizon of their id.
LEMMA StaysKeepsBlocked ==
    ASSUME Inv, Inv', Blocked, \A m \in Mailbox : Stays(records[m], records'[m]),
           highWater' >= highWater, UNCHANGED <<tombstones, ended>>
    PROVE  Blocked'
<1>1. highWater \in Int /\ highWater' \in Int
  BY TimeTypes DEF Inv
<1>2. \A m \in Mailbox : Horizon(m) \in Int
  BY HorizonType
<1>3. Blocked' <=>
        /\ ended \in [Mailbox -> Instant]
        /\ \A m \in Mailbox : ended[m] # NoTime =>
              /\ records'[m].state # "ABSENT" => records'[m].created >= Horizon(m)
              /\ tombstones[m] # NoTime => tombstones[m] >= Horizon(m)
              /\ records'[m].state = "ABSENT" /\ tombstones[m] = NoTime
                    => highWater' >= Horizon(m)
  BY DEF Blocked, Horizon
<1>. QED
  BY <1>1, <1>2, <1>3 DEF Blocked, Stays

\* A change of one record.
LEMMA OneRecordQuiet ==
    ASSUME Inv, NEW m \in Mailbox, NEW s, records' = [records EXCEPT ![m] = s],
           Quiet(records[m], s)
    PROVE  \A n \in Mailbox : Quiet(records[n], records'[n])
BY DEF Inv, Quiet

\* A change of one record that stays.
LEMMA OneRecordStays ==
    ASSUME Inv, NEW m \in Mailbox, NEW s, records' = [records EXCEPT ![m] = s],
           Stays(records[m], s)
    PROVE  \A n \in Mailbox : Stays(records[n], records'[n])
BY DEF Inv, Stays

\* A denial for a passed deadline tells nobody anything.
LEMMA DenialQuiet ==
    ASSUME Inv, NEW m \in Mailbox, NEW now, DeniedAsExpired(m, now)
    PROVE  \A n \in Mailbox : /\ Quiet(records[n], records'[n])
                              /\ Stays(records[n], records'[n])
<1>. DEFINE s == ExpiredRecord(records[m], now)
<1>1. records[m] \in Record /\ records[m].state \in Pending \cup {"EXPIRED"}
  BY DEF Inv, DeniedAsExpired, IsExpired, Due
<1>2. Quiet(records[m], s) /\ Stays(records[m], s)
  BY <1>1, ExpiredFields DEF Quiet, Stays, Pending
<1>3. records' = [records EXCEPT ![m] = s]
  BY DEF DeniedAsExpired
<1>. HIDE DEF s
<1>. QED
  BY <1>2, <1>3, OneRecordQuiet, OneRecordStays

\* Nor does anything core does with the collection credential.
LEMMA CoreAccessQuiet ==
    ASSUME Inv, NEW m \in Mailbox, NEW now, CoreAccess(m, now)
    PROVE  \A n \in Mailbox : /\ Quiet(records[n], records'[n])
                              /\ Stays(records[n], records'[n])
<1>. DEFINE r == records[m]
            c == r.collect
<1>1. r \in Record /\ r.state # "ABSENT"
  BY DEF CoreAccess, Collect, AcknowledgeCollection, Abandon, Snapshot,
     Accessible, Inv
<1>2. CASE DeniedAsExpired(m, now)
  BY <1>2, DenialQuiet
<1>3. ASSUME NEW s, records' = [records EXCEPT ![m] = s], Quiet(r, s), Stays(r, s)
      PROVE  \A n \in Mailbox : /\ Quiet(records[n], records'[n])
                                /\ Stays(records[n], records'[n])
  BY <1>3, OneRecordQuiet, OneRecordStays
<1>4. CASE Observe(m, r, now)
  <2>. DEFINE s == [r EXCEPT !.seen = now]
  <2>1. Quiet(r, s) /\ Stays(r, s)
    BY <1>1 DEF Quiet, Stays, Record, Staged
  <2>. QED
    BY <1>3, <1>4, <2>1 DEF Observe
<1>5. CASE Collect(m, c, now)
  <2>. DEFINE s == [[r EXCEPT !.collection = "DELIVERING"] EXCEPT !.seen = now]
  <2>1. Quiet(r, s) /\ Stays(r, s)
    BY <1>1 DEF Quiet, Stays, Record, Staged
  <2>. QED
    BY <1>3, <1>5, <2>1 DEF Collect, Observe
<1>6. CASE AcknowledgeCollection(m, c, now) /\ ~Observe(m, r, now)
  <2>. DEFINE s == [[ReleasedPayloads(r) EXCEPT !.collection = "ACKNOWLEDGED",
                                                !.terminal = now]
                    EXCEPT !.seen = now]
  <2>1. records' = [records EXCEPT ![m] = s] /\ r.state = "RESULT_COMMITTED"
    BY <1>6 DEF AcknowledgeCollection, Observe
  <2>2. Quiet(r, s) /\ Stays(r, s)
    BY <1>1, <2>1 DEF Quiet, Stays, Record, ReleasedPayloads
  <2>. HIDE DEF s
  <2>. QED
    BY <1>3, <2>1, <2>2
<1>7. CASE Abandon(m, c, now) /\ ~DeniedAsExpired(m, now)
  <2>. DEFINE s == [[ClearedMaterial(r) EXCEPT !.state = "ABANDONED",
                                               !.terminal = now]
                    EXCEPT !.seen = now]
  <2>1. records' = [records EXCEPT ![m] = s]
    BY <1>7 DEF Abandon, Observe
  <2>2. /\ s.state = "ABANDONED" /\ s.resultCredential = None
        /\ s.evidence = NoEvidence /\ s.created = r.created
    BY <1>1 DEF Record, ReleasedPayloads, ClearedMaterial
  <2>. HIDE DEF s
  <2>3. Quiet(r, s) /\ Stays(r, s)
    BY <1>1, <2>2 DEF Quiet, Stays, Staged, NoEvidence
  <2>. QED
    BY <1>3, <2>1, <2>3
<1>8. Snapshot(m, c, now) => DeniedAsExpired(m, now) \/ Observe(m, r, now)
  BY DEF Snapshot
<1>. QED
  BY <1>2, <1>4, <1>5, <1>6, <1>7, <1>8 DEF CoreAccess

\* Nor does the expiry sweep.
LEMMA ExpireQuiet ==
    ASSUME Inv, NEW c, NEW now, Expire(c, now)
    PROVE  \A n \in Mailbox : /\ Quiet(records[n], records'[n])
                              /\ Stays(records[n], records'[n])
<1>. SUFFICES ASSUME NEW n \in Mailbox
              PROVE  /\ Quiet(records[n], records'[n])
                     /\ Stays(records[n], records'[n])
  OBVIOUS
<1>1. records[n] \in Record
  BY DEF Inv
<1>2. CASE records'[n] = records[n]
  BY <1>2 DEF Quiet, Stays
<1>3. CASE records'[n] = [records[n] EXCEPT !.seen = now]
  BY <1>1, <1>3 DEF Quiet, Stays, Record, Staged
<1>4. CASE Due(records[n], now) /\ records'[n] = ExpiredRecord(records[n], now)
  BY <1>1, <1>4, ExpiredFields DEF Quiet, Stays, Due, Pending
<1>. QED
  BY <1>2, <1>3, <1>4 DEF Expire

\* Nor does the collection of garbage, which removes records.
LEMMA SweepQuiet ==
    ASSUME Inv, NEW c, NEW removed, NEW now, GarbageCollect(c, removed, now)
    PROVE  \A n \in Mailbox : /\ Quiet(records[n], records'[n])
                              /\ \/ n \in removed
                                 \/ Stays(records[n], records'[n])
<1>. SUFFICES ASSUME NEW n \in Mailbox
              PROVE  /\ Quiet(records[n], records'[n])
                     /\ \/ n \in removed
                        \/ Stays(records[n], records'[n])
  OBVIOUS
<1>1. records[n] \in Record
  BY DEF Inv
<1>2. CASE records'[n] = records[n]
  BY <1>2 DEF Quiet, Stays
<1>3. CASE records'[n] = [records[n] EXCEPT !.seen = now]
  BY <1>1, <1>3 DEF Quiet, Stays, Record, Staged
<1>4. CASE n \in removed
  <2>1. records'[n] = NoRecord
    BY <1>4 DEF GarbageCollect
  <2>. QED
    BY <1>4, <2>1 DEF Quiet, NoRecord, Staged, NoEvidence
<1>. QED
  BY <1>2, <1>3, <1>4 DEF GarbageCollect

\* open_empty: the claim credential that a connector gets is none of the
\* secrets still in the repository.
LEMMA OpenEmptyKeeps ==
    ASSUME Inv, CredentialInv, Told, Blocked, NEW b \in Binding,
           NEW t \in CredentialTriple, NEW now \in Time, OpenEmpty(b, t, now)
    PROVE  Told' /\ Blocked'
<1>. DEFINE m == b.mailbox
            s == NewRecord(b, t, now)
<1>1. m \in Mailbox /\ records[m].state = "ABSENT" /\ tombstones[m] = NoTime
  BY BindingTypes DEF OpenEmpty, Create, Live, Tombstoned
<1>2. /\ records'[m] = s
      /\ \A n \in Mailbox \ {m} : records'[n] = records[n]
      /\ known' = known \cup {t.claim}
      /\ delivered' = [delivered EXCEPT ![m] = 0]
      /\ ended' = ended /\ tombstones' = tombstones
  BY <1>1 DEF OpenEmpty, Create, Inv
<1>3. /\ s.state = "EMPTY" /\ s.resultCredential = None
      /\ Staged(s) = {} /\ s.created = now
  BY DEF NewRecord, NoRecord, Staged, NoEvidence
<1>4. ASSUME NEW n \in Mailbox, records[n].resultCredential # None
      PROVE  records[n].resultCredential # t.claim
  <2>1. n \in Live /\ records[n].resultCredential \in CredentialsOf(records[n])
    BY <1>4 DEF Inv, GoodRecord, Shape, Live, CredentialsOf
  <2>. QED
    BY <2>1 DEF OpenEmpty, Create, CredentialInUse
<1>. HIDE DEF s
<1>5. Told'
  <2>1. delivered' \in [Mailbox -> {0, 1}] /\ delivered'[m] = 0
    BY <1>1, <1>2 DEF Told
  <2>2. ASSUME NEW n \in Mailbox \ {m}
        PROVE  records'[n] = records[n] /\ delivered'[n] = delivered[n]
    BY <1>2 DEF Told
  <2>3. ASSUME NEW n \in Mailbox \ {m}
        PROVE  /\ records'[n].state \in {"EMPTY", "OFFERED"} => delivered'[n] = 0
               /\ records'[n].resultCredential # None /\ delivered'[n] = 0
                     => records'[n].resultCredential \notin known'
               /\ Staged(records'[n]) # {} \/ records'[n].state = "RESULT_COMMITTED"
                     => delivered'[n] = 1
    BY <1>2, <1>4, <2>2 DEF Told
  <2>. QED
    BY <1>2, <1>3, <2>1, <2>3 DEF Told
<1>6. Blocked'
  <2>1. highWater' = now /\ highWater <= now /\ highWater \in Int /\ now \in Int
    BY MarkAdvances, TimeTypes DEF OpenEmpty, Create, Inv
  <2>2. Blocked' <=>
          /\ ended \in [Mailbox -> Instant]
          /\ \A n \in Mailbox : ended[n] # NoTime =>
                /\ records'[n].state # "ABSENT" => records'[n].created >= Horizon(n)
                /\ tombstones[n] # NoTime => tombstones[n] >= Horizon(n)
                /\ records'[n].state = "ABSENT" /\ tombstones[n] = NoTime
                      => highWater' >= Horizon(n)
    BY <1>2 DEF Blocked, Horizon
  <2>3. ended[m] # NoTime => now >= Horizon(m)
    BY <1>1, <2>1, HorizonType DEF Blocked
  <2>4. ASSUME NEW n \in Mailbox \ {m}, ended[n] # NoTime
        PROVE  /\ records'[n].state # "ABSENT" => records'[n].created >= Horizon(n)
               /\ tombstones[n] # NoTime => tombstones[n] >= Horizon(n)
               /\ records'[n].state = "ABSENT" /\ tombstones[n] = NoTime
                      => highWater' >= Horizon(n)
    BY <1>2, <2>1, <2>4, HorizonType DEF Blocked
  <2>. QED
    BY <1>1, <1>2, <1>3, <2>2, <2>3, <2>4 DEF Blocked
<1>. QED
  BY <1>5, <1>6

\* offer: the new result credential is one that no connector holds.
LEMMA OfferActionKeeps ==
    ASSUME Inv, Inv', Told, Blocked, NEW b \in Binding, NEW t,
           NEW result \in IssuedCredential, NEW now \in Time,
           OfferAction(b, t, result, now)
    PROVE  Told' /\ Blocked'
<1>. DEFINE m == b.mailbox
            r == records[m]
            s == [[r EXCEPT !.state = "OFFERED", !.material = MaterialBytes,
                            !.resultCredential = result]
                  EXCEPT !.seen = now]
<1>1. m \in Mailbox /\ r \in Record /\ r.state # "ABSENT"
  BY BindingTypes DEF OfferAction, Offer, Accessible, Inv
<1>2. /\ known' = known /\ delivered' = delivered /\ ended' = ended
      /\ tombstones' = tombstones
      /\ InstallationNow(now) /\ AdvanceInstallationTime(now)
  BY DEF OfferAction, Offer, Accessible, DeniedAsExpired, Observe
<1>3. highWater' >= highWater
  BY <1>2, MarkAdvances, TimeTypes DEF Inv
<1>4. CASE DeniedAsExpired(m, now)
  BY <1>1, <1>2, <1>3, <1>4, DenialQuiet, QuietKeepsTold, StaysKeepsBlocked
<1>5. CASE r.state = "EMPTY" /\ records' = [records EXCEPT ![m] = s]
  <2>1. /\ s.state = "OFFERED" /\ s.resultCredential = result
        /\ Staged(s) = Staged(r) /\ s.created = r.created
    BY <1>1 DEF Record, Staged
  <2>. HIDE DEF s
  <2>2. /\ records'[m] = s
        /\ \A n \in Mailbox \ {m} : records'[n] = records[n]
    BY <1>1, <1>5 DEF Inv
  <2>3. result \notin known
    BY DEF OfferAction
  <2>4. Told'
    BY <1>1, <1>2, <1>5, <2>1, <2>2, <2>3 DEF Told
  <2>5. Stays(r, s)
    BY <1>1, <2>1 DEF Stays
  <2>6. Blocked'
    BY <1>1, <1>2, <1>3, <1>5, <2>5, OneRecordStays, StaysKeepsBlocked
  <2>. QED
    BY <2>4, <2>6
<1>. QED
  BY <1>4, <1>5 DEF OfferAction, Offer, Observe

\* claim: the winner learns the secret of the one mailbox, and once.
LEMMA ClaimActionKeeps ==
    ASSUME Inv, Inv', CredentialInv, Told, Blocked, NEW b \in Binding, NEW c,
           NEW answered \in BOOLEAN, NEW now \in Time,
           ClaimAction(b, c, answered, now)
    PROVE  Told' /\ Blocked'
<1>. DEFINE m == b.mailbox
            r == records[m]
            s == [ClaimedRecord(r) EXCEPT !.seen = now]
            won == records'[m].state = "CLAIMED_ONCE" /\ answered
<1>1. m \in Mailbox /\ r \in Record /\ r.state # "ABSENT"
  BY BindingTypes DEF ClaimAction, Claim, Accessible, Inv
<1>2. /\ ended' = ended /\ tombstones' = tombstones
      /\ InstallationNow(now) /\ AdvanceInstallationTime(now)
      /\ delivered' = [delivered EXCEPT ![m] = IF won THEN @ + 1 ELSE @]
      /\ known' = known \cup (IF won THEN {r.resultCredential} ELSE {})
  BY DEF ClaimAction, Claim, Accessible, DeniedAsExpired, Observe
<1>3. highWater' >= highWater
  BY <1>2, MarkAdvances, TimeTypes DEF Inv
<1>4. ~won => known' = known /\ delivered' = delivered
  BY <1>1, <1>2 DEF Told
<1>5. CASE DeniedAsExpired(m, now)
  <2>1. records'[m] = ExpiredRecord(r, now) /\ r.state \in Pending \cup {"EXPIRED"}
    BY <1>1, <1>5 DEF DeniedAsExpired, Inv, IsExpired, Due
  <2>2. ~won
    BY <1>1, <2>1, ExpiredFields
  <2>. QED
    BY <1>1, <1>2, <1>3, <1>4, <1>5, <2>2, DenialQuiet, QuietKeepsTold,
       StaysKeepsBlocked
<1>6. CASE r.state = "OFFERED" /\ records' = [records EXCEPT ![m] = s]
  <2>1. /\ s.state = "CLAIMED_ONCE" /\ s.resultCredential = r.resultCredential
        /\ Staged(s) = Staged(r) /\ s.created = r.created
    BY <1>1 DEF Record, Staged, ClaimedRecord
  <2>. HIDE DEF s
  <2>2. /\ records'[m] = s
        /\ \A n \in Mailbox \ {m} : records'[n] = records[n]
    BY <1>1, <1>6 DEF Inv
  <2>3. Quiet(r, s) /\ Stays(r, s)
    BY <1>1, <2>1 DEF Quiet, Stays
  <2>4. Blocked'
    BY <1>1, <1>2, <1>3, <1>6, <2>3, OneRecordStays, StaysKeepsBlocked
  <2>5. CASE ~won
    BY <1>1, <1>4, <1>6, <2>3, <2>4, <2>5, OneRecordQuiet, QuietKeepsTold
  <2>6. CASE won
    <3>1. delivered[m] = 0 /\ delivered'[m] = 1
      BY <1>1, <1>2, <1>6, <2>6 DEF Told
    <3>2. /\ delivered' \in [Mailbox -> {0, 1}]
          /\ \A n \in Mailbox \ {m} : delivered'[n] = delivered[n]
      BY <1>1, <1>2, <2>6, <3>1 DEF Told
    <3>3. known' = known \cup {r.resultCredential}
      BY <1>2, <2>6
    <3>4. ASSUME NEW n \in Mailbox \ {m}, records[n].resultCredential # None
          PROVE  records[n].resultCredential # r.resultCredential
      <4>1. records[n].state # "ABSENT"
        BY <3>4 DEF Inv, GoodRecord, Shape
      <4>. QED
        BY <1>1, <3>4, <4>1 DEF CredentialInv, CredentialsOf
    <3>5. Told'
      BY <1>1, <2>1, <2>2, <3>1, <3>2, <3>3, <3>4 DEF Told
    <3>. QED
      BY <2>4, <3>5
  <2>. QED
    BY <2>5, <2>6
<1>. QED
  BY <1>5, <1>6 DEF ClaimAction, Claim, Observe

\* stage_evidence and commit_result: whoever presents the result credential
\* was told it by the delivery.
LEMMA WorkOnResultKeeps ==
    ASSUME Inv, Inv', Told, Blocked, NEW b \in Binding, NEW c, NEW now \in Time,
           WorkOnResult(b, c, now)
    PROVE  Told' /\ Blocked'
<1>. DEFINE m == b.mailbox
            r == records[m]
<1>1. /\ m \in Mailbox /\ r \in Record /\ r.state = "CLAIMED_ONCE"
      /\ r.resultCredential # None /\ c = r.resultCredential /\ c \in known
  BY BindingTypes DEF WorkOnResult, StageEvidence, CommitResult, ResultAccess, Inv
<1>2. /\ known' = known /\ delivered' = delivered /\ ended' = ended
      /\ tombstones' = tombstones
      /\ InstallationNow(now) /\ AdvanceInstallationTime(now)
  BY DEF WorkOnResult, StageEvidence, CommitResult, Accessible, DeniedAsExpired,
     Observe
<1>3. highWater' >= highWater
  BY <1>2, MarkAdvances, TimeTypes DEF Inv
<1>4. delivered[m] = 1
  BY <1>1 DEF Told
<1>5. CASE DeniedAsExpired(m, now)
  BY <1>1, <1>2, <1>3, <1>5, DenialQuiet, QuietKeepsTold, StaysKeepsBlocked
<1>6. ASSUME NEW s, records' = [records EXCEPT ![m] = s], s.created = r.created,
             s.state \in {"CLAIMED_ONCE", "RESULT_COMMITTED"},
             s.resultCredential \in {r.resultCredential, None}
      PROVE  Told' /\ Blocked'
  <2>1. /\ records'[m] = s
        /\ \A n \in Mailbox \ {m} : records'[n] = records[n]
    BY <1>1, <1>6 DEF Inv
  <2>2. Told'
    BY <1>1, <1>2, <1>4, <1>6, <2>1 DEF Told
  <2>3. Stays(r, s)
    BY <1>1, <1>6 DEF Stays
  <2>. QED
    BY <1>1, <1>2, <1>3, <1>6, <2>2, <2>3, OneRecordStays, StaysKeepsBlocked
<1>7. ASSUME NEW o \in Object, NEW p \in Payload, StageEvidence(b, c, o, p, now),
             ~DeniedAsExpired(m, now)
      PROVE  Told' /\ Blocked'
  <2>. DEFINE s == [[r EXCEPT !.evidence[o] = p] EXCEPT !.seen = now]
  <2>1. records' = [records EXCEPT ![m] = s]
    BY <1>7 DEF StageEvidence, Observe
  <2>2. /\ s.created = r.created /\ s.state = "CLAIMED_ONCE"
        /\ s.resultCredential = r.resultCredential
    BY <1>1 DEF Record
  <2>. HIDE DEF s
  <2>. QED
    BY <1>6, <2>1, <2>2
<1>8. ASSUME NEW seals \in EvidenceMap, NEW size \in ResultBytes,
             CommitResult(b, c, seals, size, now), ~DeniedAsExpired(m, now)
      PROVE  Told' /\ Blocked'
  <2>. DEFINE s == [[r EXCEPT !.state = "RESULT_COMMITTED",
                              !.collection = "READY",
                              !.result = size,
                              !.refs = seals,
                              !.manifest = Staged(r),
                              !.resultCredential = None,
                              !.committed = now]
                    EXCEPT !.seen = now]
  <2>1. records' = [records EXCEPT ![m] = s]
    BY <1>8 DEF CommitResult, Observe
  <2>2. /\ s.created = r.created /\ s.state = "RESULT_COMMITTED"
        /\ s.resultCredential = None
    BY <1>1 DEF Record
  <2>. HIDE DEF s
  <2>. QED
    BY <1>6, <2>1, <2>2
<1>. QED
  BY <1>5, <1>7, <1>8 DEF WorkOnResult

\* garbage_collect: an id that is removed is blocked by its tombstone, and one
\* whose tombstone goes by the clock.
LEMMA SweepKeeps ==
    ASSUME Inv, Inv', Told, Blocked, NEW removed \in SUBSET Mailbox,
           NEW now \in Time, Sweep(removed, now)
    PROVE  Told' /\ Blocked'
<1>. DEFINE kept == {m \in Tombstoned : tombstones[m] > now}
<1>1. /\ GarbageCollect(Maintenance, removed, now)
      /\ known' = known /\ delivered' = delivered
      /\ ended' = [m \in Mailbox |-> IF m \in removed THEN records[m].terminal
                                                      ELSE ended[m]]
  BY DEF Sweep
<1>2. Told'
  BY <1>1, SweepQuiet, QuietKeepsTold
<1>3. highWater' = now /\ highWater <= now /\ highWater \in Int /\ now \in Int
  BY <1>1, MarkAdvances, TimeTypes DEF GarbageCollect, SweepAllowed, Inv
<1>4. tombstones' = [m \in Mailbox |->
                        IF m \in removed THEN now + TombstoneRetention
                        ELSE IF m \in kept THEN tombstones[m]
                        ELSE NoTime]
  BY <1>1 DEF GarbageCollect
<1>5. ended' \in [Mailbox -> Instant]
  BY <1>1 DEF Inv, Record, Blocked
<1>6. ASSUME NEW m \in Mailbox, m \in removed
      PROVE  /\ records'[m].state = "ABSENT"
             /\ tombstones'[m] # NoTime
             /\ tombstones'[m] >= Horizon(m)'
  <2>1. /\ records'[m] = NoRecord
        /\ now - records[m].terminal >= TerminalRetention
        /\ records[m].terminal \in Instant
    BY <1>1, <1>6 DEF GarbageCollect, RemovedBySweep, Collectable, Inv, Record
  <2>2. Horizon(m)' = records[m].terminal + TerminalRetention + TombstoneRetention
    BY <1>1, <1>6 DEF Horizon
  <2>3. tombstones'[m] = now + TombstoneRetention
    BY <1>4, <1>6
  <2>4. tombstones'[m] >= Horizon(m)'
    <3>1. records[m].terminal \in Int
      BY <2>1, TimeTypes
    <3>. QED
      BY <1>3, <2>1, <2>2, <2>3, <3>1, ConstantTypes
  <2>5. now + TombstoneRetention # NoTime
    BY ConstantTypes DEF NoTime, Time
  <2>. QED
    BY <2>1, <2>3, <2>4, <2>5 DEF NoRecord
<1>7. ASSUME NEW m \in Mailbox, m \notin removed, ended'[m] # NoTime
      PROVE  /\ records'[m].state # "ABSENT" => records'[m].created >= Horizon(m)'
             /\ tombstones'[m] # NoTime => tombstones'[m] >= Horizon(m)'
             /\ records'[m].state = "ABSENT" /\ tombstones'[m] = NoTime
                    => highWater' >= Horizon(m)'
  <2>1. ended'[m] = ended[m] /\ Horizon(m)' = Horizon(m) /\ Horizon(m) \in Int
    BY <1>1, <1>7, HorizonType DEF Horizon
  <2>2. Stays(records[m], records'[m])
    BY <1>1, <1>7, SweepQuiet
  <2>3. tombstones'[m] = IF m \in kept THEN tombstones[m] ELSE NoTime
    BY <1>4, <1>7
  <2>4. tombstones[m] \in 0..DatetimeMax \cup {NoTime}
    BY DEF Inv, GoodTombstones
  <2>5. /\ records[m].state # "ABSENT" => records[m].created >= Horizon(m)
        /\ tombstones[m] # NoTime => tombstones[m] >= Horizon(m)
        /\ records[m].state = "ABSENT" /\ tombstones[m] = NoTime
               => highWater >= Horizon(m)
    BY <1>7, <2>1 DEF Blocked
  <2>6. records'[m].state # "ABSENT" => records'[m].created >= Horizon(m)
    BY <2>2, <2>5 DEF Stays
  <2>7. tombstones'[m] # NoTime => tombstones'[m] >= Horizon(m)
    BY <2>3, <2>5
  <2>8. ASSUME records'[m].state = "ABSENT", tombstones'[m] = NoTime
        PROVE  highWater' >= Horizon(m)
    <3>1. records[m].state = "ABSENT"
      BY <2>2, <2>8 DEF Stays
    <3>2. CASE tombstones[m] = NoTime
      BY <1>3, <2>1, <2>5, <3>1, <3>2
    <3>3. CASE tombstones[m] # NoTime
      <4>1. tombstones[m] \in Int /\ ~(tombstones[m] > now)
        BY <2>3, <2>4, <2>8, <3>3, ConstantTypes DEF Tombstoned
      <4>. QED
        BY <1>3, <2>1, <2>5, <3>3, <4>1
    <3>. QED
      BY <3>2, <3>3
  <2>. QED
    BY <2>1, <2>6, <2>7, <2>8
<1>8. Blocked'
  BY <1>5, <1>6, <1>7 DEF Blocked
<1>. QED
  BY <1>2, <1>8

\* Every step keeps what was told and what is blocked.
LEMMA StepKeeps ==
    ASSUME Inv, Inv', CredentialInv, Told, Blocked, [SystemNext]_vars
    PROVE  Told' /\ Blocked'
<1>1. CASE UNCHANGED vars
  BY <1>1 DEF vars, Told, Blocked, Horizon
<1>2. ASSUME NEW now \in Time, NEW m \in Mailbox, CoreAccess(m, now)
      PROVE  Told' /\ Blocked'
  <2>1. /\ known' = known /\ delivered' = delivered /\ ended' = ended
        /\ tombstones' = tombstones
        /\ InstallationNow(now) /\ AdvanceInstallationTime(now)
    BY <1>2 DEF CoreAccess, Collect, AcknowledgeCollection, Abandon, Snapshot,
       Accessible, DeniedAsExpired, Observe
  <2>2. highWater' >= highWater
    BY <2>1, MarkAdvances, TimeTypes DEF Inv
  <2>. QED
    BY <1>2, <2>1, <2>2, CoreAccessQuiet, QuietKeepsTold, StaysKeepsBlocked
<1>3. ASSUME NEW now \in Time, ExpireDue(now)
      PROVE  Told' /\ Blocked'
  <2>1. /\ known' = known /\ delivered' = delivered /\ ended' = ended
        /\ tombstones' = tombstones /\ Expire(Maintenance, now)
        /\ InstallationNow(now) /\ AdvanceInstallationTime(now)
    BY <1>3 DEF ExpireDue, Expire, SweepAllowed
  <2>2. highWater' >= highWater
    BY <2>1, MarkAdvances, TimeTypes DEF Inv
  <2>. QED
    BY <2>1, <2>2, ExpireQuiet, QuietKeepsTold, StaysKeepsBlocked
<1>. QED
  BY <1>1, <1>2, <1>3, OpenEmptyKeeps, OfferActionKeeps, ClaimActionKeeps,
     WorkOnResultKeeps, SweepKeeps DEF SystemNext

-----------------------------------------------------------------------------
(* The theorems.                                                           *)

\* The inductive invariant of the service: with the repository's own, nobody
\* knows the secret of an action that was not delivered, and an id that was
\* used stays blocked for its horizon.
THEOREM ServiceInvariance == SystemSpec => [](Inv /\ CredentialInv /\ Told /\ Blocked)
<1>1. SystemInit => Told /\ Blocked
  BY TimeTypes DEF SystemInit, Init, Told, Blocked, NoRecord, Staged, NoEvidence
<1>2. SystemSpec => []Inv /\ []CredentialInv
  BY ServiceImplementsRepository, Invariance, CredentialInvariance, PTL
<1>3. Inv /\ Inv' /\ CredentialInv /\ Told /\ Blocked /\ [SystemNext]_vars
        => Told' /\ Blocked'
  BY StepKeeps
<1>. QED
  BY <1>1, <1>2, <1>3, PTL DEF SystemSpec

\* service.py hands the action key and the result credential of an action to a
\* connector at most once, whatever claims, lost answers and expiries happen.
THEOREM DeliveryTheorem == SystemSpec => []DeliveredOnce
<1>1. Told => DeliveredOnce
  BY DEF Told, DeliveredOnce
<1>. QED
  BY <1>1, ServiceInvariance, PTL

\* stage_evidence and commit_result succeed only for an action whose claim
\* answer reached a connector.
THEOREM AuthorityTheorem == SystemSpec => []ResultAuthority
<1>1. Told => ResultAuthority
  BY DEF Told, ResultAuthority, Live
<1>. QED
  BY <1>1, ServiceInvariance, PTL

\* create accepts a mailbox id again only when the retention of its record and
\* of its tombstone have both passed, for any quota of tombstones.
THEOREM HorizonTheorem == SystemSpec => []ReplayHorizon
<1>1. Blocked => ReplayHorizon
  BY DEF Blocked, ReplayHorizon, Live, Horizon
<1>. QED
  BY <1>1, ServiceInvariance, PTL
=============================================================================
