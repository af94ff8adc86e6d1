-------------------------- MODULE AuthStoreProofs --------------------------
(***************************************************************************)
(* Proofs about the authentication decisions, and about the row.           *)
(*                                                                         *)
(* A decision is an operator on a store, so most of this is about stores   *)
(* and not about steps.  StoreGood is what every store satisfies; Advance  *)
(* is how one may follow another: time, epochs and numbers of handles do   *)
(* not go back, and what is retired or gone does not come back.  There is  *)
(* one lemma for each operator that changes a table (SessionsRetire,       *)
(* RootsPut, ...), one for each that changes a store (IssueSessionStep,    *)
(* NextEpochStep, ...) and one for each decision (...Decision).  Decision  *)
(* says of an outcome that its store is good and follows, that what it     *)
(* uses was usable and is consumed now, and that the dead are dead.        *)
(*                                                                         *)
(* From there on the history is easy: what was consumed stays consumed     *)
(* (ConsumedStays), and what is consumed is not usable.  Only a grant can  *)
(* be made under an old handle; it takes a live step-up, which the first   *)
(* grant of that handle has consumed.                                      *)
(***************************************************************************)
EXTENDS DurableAuthStore, FiniteSetTheorems, TLAPS

-----------------------------------------------------------------------------
(* The tables.                                                             *)

\* The tables whose records retire, and those of codes.
Retirable == {BootstrapRecord, SessionRecord, RecoveryRecord, StepUpRecord}

Code == {BootstrapRecord, RecoveryRecord, StepUpRecord}

\* The handles of f are among the n that were issued.
Handles(f, n) == DOMAIN f \subseteq 1 .. n

\* No record of the handle can be used any more.
Over(f, n, h) == h \in 1 .. n /\ (h \in DOMAIN f => f[h].retired # None)

\* What becomes of a table f when it becomes g: n handles were issued before,
\* m are afterwards, and what has retired or is gone stays so.
Later(f, n, g, m) ==
    /\ n <= m
    /\ \A h \in DOMAIN g : h <= n =>
          h \in DOMAIN f /\ (f[h].retired # None => g[h].retired # None)

SessionsGood(f, n, epoch) ==
    /\ f \in [DOMAIN f -> SessionRecord] /\ Handles(f, n)
    /\ \A h \in DOMAIN f :
          f[h].epoch <= epoch /\ (f[h].retired = None => f[h].epoch = epoch)

SessionsLater(f, n, g, m) ==
    /\ Later(f, n, g, m)
    /\ \A h \in DOMAIN g : h <= n => g[h].epoch = f[h].epoch /\ g[h].expires = f[h].expires

\* Recovery codes, or step-ups.
CodesGood(S, f, n, epoch) ==
    /\ f \in [DOMAIN f -> S] /\ Handles(f, n)
    /\ \A h \in DOMAIN f :
          f[h].retired = None => f[h].epoch = epoch /\ f[h].attempts >= 1

\* A live bootstrap: its root is live, and admissible.
Stands(b, roots, actor) ==
    /\ b.attempts >= 1
    /\ b.root # None =>
          /\ b.root \in DOMAIN roots /\ roots[b.root] = None
          /\ \/ b.root.purpose = "REPROVISION" /\ actor.initialized = TRUE
             \/ b.root.purpose = "INITIAL_BOOTSTRAP" /\ actor.initialized = FALSE

BootstrapsGood(f, n, roots, actor) ==
    /\ f \in [DOMAIN f -> BootstrapRecord] /\ Handles(f, n)
    /\ \A h \in DOMAIN f : f[h].retired = None => Stands(f[h], roots, actor)
    /\ \A g, h \in DOMAIN f : f[g].retired = None /\ f[h].retired = None => g = h

\* What a record that was presented or retired still says.
Kept(r, z) == DOMAIN z = DOMAIN r /\ \A f \in DOMAIN r \ {"attempts", "retired"} : z[f] = r[f]

-----------------------------------------------------------------------------
(* The records.                                                            *)

\* No instant is None.
LEMMA NoInstant == \A t \in Nat : t # None /\ t \in Instant
BY PolicyAssumption DEF AuthPolicy, Instant

\* A record that retires is of its kind, and keeps the rest.
LEMMA RetiredRecord ==
    ASSUME NEW S \in Retirable, NEW r \in S, NEW now \in Nat, NEW z,
           z = [r EXCEPT !.retired = now]
    PROVE  z \in S /\ z.retired = now /\ Kept(r, z)
<1>1. now \in Instant
  BY DEF Instant
<1>2. CASE S = BootstrapRecord
  BY <1>1, <1>2 DEF BootstrapRecord, Kept
<1>3. CASE S = SessionRecord
  BY <1>1, <1>3 DEF SessionRecord, Kept
<1>4. CASE S = RecoveryRecord
  BY <1>1, <1>4 DEF RecoveryRecord, Kept
<1>5. CASE S = StepUpRecord
  BY <1>1, <1>5 DEF StepUpRecord, Kept
<1> QED
  BY <1>2, <1>3, <1>4, <1>5 DEF Retirable

\* A code that has lost an attempt is of its kind, and keeps the rest.
LEMMA AttemptedRecord ==
    ASSUME NEW S \in Code, NEW r \in S, NEW n \in 0 .. MaxAttempts, NEW z,
           z = [r EXCEPT !.attempts = n]
    PROVE  z \in S /\ z.retired = r.retired /\ z.attempts = n /\ Kept(r, z)
<1>2. CASE S = BootstrapRecord
  BY <1>2 DEF BootstrapRecord, Kept
<1>3. CASE S = RecoveryRecord
  BY <1>3 DEF RecoveryRecord, Kept
<1>4. CASE S = StepUpRecord
  BY <1>4 DEF StepUpRecord, Kept
<1> QED
  BY <1>2, <1>3, <1>4 DEF Code

\* What code records have.
LEMMA CodeFields ==
    ASSUME NEW S \in Code, NEW r \in S
    PROVE  /\ S \in Retirable /\ r.attempts \in 0 .. MaxAttempts /\ r.retired \in Instant
           /\ r.expires \in Nat
<1>2. CASE S = BootstrapRecord
  BY <1>2 DEF BootstrapRecord, Retirable
<1>3. CASE S = RecoveryRecord
  BY <1>3 DEF RecoveryRecord, Retirable
<1>4. CASE S = StepUpRecord
  BY <1>4 DEF StepUpRecord, Retirable
<1> QED
  BY <1>2, <1>3, <1>4 DEF Code

\* What is kept is kept by two changes.
LEMMA KeptTwice ==
    ASSUME NEW r, NEW y, NEW z, Kept(r, y), Kept(y, z)
    PROVE  Kept(r, z)
BY DEF Kept

\* A wrong proof of a code that has attempts left.
LEMMA BurntRecord ==
    ASSUME NEW S \in Code, NEW r \in S, NEW now \in Nat, r.retired = None, r.attempts >= 1
    PROVE  /\ WrongProof(r, now) \in S /\ Kept(r, WrongProof(r, now))
           /\ WrongProof(r, now).retired = None => WrongProof(r, now).attempts >= 1
<1> DEFINE z == WrongProof(r, now)
<1>1. now \in Instant /\ now # None /\ MaxAttempts \in Nat
  BY NoInstant, PolicyAssumption DEF AuthPolicy
<1>2. r.attempts \in 0 .. MaxAttempts /\ S \in Retirable
  BY CodeFields
<1>3. 0 \in 0 .. MaxAttempts /\ r.attempts - 1 \in 0 .. MaxAttempts
      /\ (r.attempts # 1 => r.attempts - 1 >= 1)
  BY <1>1, <1>2
<1>4. CASE r.attempts = 1
  <2> DEFINE y == [r EXCEPT !.attempts = 0]
  <2>1. y \in S /\ Kept(r, y)
    BY <1>3, AttemptedRecord
  <2>2. z = [y EXCEPT !.retired = now]
    BY <1>4 DEF WrongProof
  <2> HIDE DEF y
  <2>3. z \in S /\ z.retired = now /\ Kept(y, z)
    BY <2>1, <2>2, <1>2, RetiredRecord
  <2> QED
    BY <2>1, <2>3, <1>1, KeptTwice
<1>5. CASE r.attempts # 1
  <2>1. z = [r EXCEPT !.attempts = r.attempts - 1]
    BY <1>5 DEF WrongProof
  <2>2. z \in S /\ z.attempts = r.attempts - 1 /\ Kept(r, z)
    BY <2>1, <1>3, AttemptedRecord
  <2> QED
    BY <2>2, <1>3, <1>5
<1> QED
  BY <1>4, <1>5

\* A code that is presented stays of its kind, and good as long as it is not
\* retired; it is retired for good.  What is allowed was not retired.
LEMMA PresentedRecord ==
    ASSUME NEW S \in Code, NEW r \in S, NEW ok \in BOOLEAN, NEW now \in Nat, NEW ttl,
           r.retired = None => r.attempts >= 1
    PROVE  LET p == Present(r, ok, now, ttl)
           IN  /\ p.record \in S /\ Kept(r, p.record)
               /\ p.record.retired = None => r.retired = None /\ p.record.attempts >= 1
               /\ p.out = "ALLOWED" => p.record = r /\ r.retired = None
<1> DEFINE timely == TimeDenial(now, r.expires, ttl)
           burnt == WrongProof(r, now)
           gone == [r EXCEPT !.retired = now]
           p == Present(r, ok, now, ttl)
<1> SUFFICES /\ p.record \in S /\ Kept(r, p.record)
             /\ p.record.retired = None => r.retired = None /\ p.record.attempts >= 1
             /\ p.out = "ALLOWED" => p.record = r /\ r.retired = None
  OBVIOUS
<1>1. now # None /\ S \in Retirable /\ Kept(r, r)
  BY NoInstant, CodeFields DEF Kept
<1>2. gone \in S /\ gone.retired = now /\ Kept(r, gone)
  BY <1>1, RetiredRecord
<1>3. r.retired = None =>
         burnt \in S /\ Kept(r, burnt) /\ (burnt.retired = None => burnt.attempts >= 1)
  BY BurntRecord
<1>4. p = IF r.retired # None
            THEN [record |-> r,
                  out |-> IF r.attempts = 0 THEN "ATTEMPTS_EXHAUSTED" ELSE "REPLAYED"]
          ELSE IF timely = "EXPIRED" THEN [record |-> gone, out |-> timely]
          ELSE IF timely # "ALLOWED" \/ ok THEN [record |-> r, out |-> timely]
          ELSE [record |-> burnt,
                out |-> IF burnt.attempts = 0 THEN "ATTEMPTS_EXHAUSTED" ELSE "INVALID_PROOF"]
  BY DEF Present
<1> HIDE DEF timely, burnt, gone, p
<1>5. CASE r.retired # None
  BY <1>5, <1>4, <1>1
<1>6. CASE r.retired = None /\ timely = "EXPIRED"
  BY <1>6, <1>4, <1>1, <1>2
<1>7. CASE r.retired = None /\ timely # "EXPIRED" /\ (timely # "ALLOWED" \/ ok)
  BY <1>7, <1>4, <1>1
<1>8. CASE r.retired = None /\ timely # "EXPIRED" /\ ~(timely # "ALLOWED" \/ ok)
  <2>1. p.record = burnt /\ p.out # "ALLOWED"
    BY <1>8, <1>4
  <2> QED
    BY <2>1, <1>8, <1>3
<1> QED
  BY <1>5, <1>6, <1>7, <1>8

-----------------------------------------------------------------------------
(* The tables: retiring, issuing, presenting and collecting.               *)

\* What Retire does to a table.
LEMMA RetireFacts ==
    ASSUME NEW S \in Retirable, NEW f, f \in [DOMAIN f -> S], NEW H, NEW now \in Nat
    PROVE  /\ Retire(f, H, now) \in [DOMAIN f -> S]
           /\ DOMAIN Retire(f, H, now) = DOMAIN f
           /\ \A h \in DOMAIN f :
                 /\ Kept(f[h], Retire(f, H, now)[h])
                 /\ h \in H => Retire(f, H, now)[h].retired = now
                 /\ h \notin H => Retire(f, H, now)[h] = f[h]
<1> DEFINE g == Retire(f, H, now)
<1>1. /\ DOMAIN g = DOMAIN f
      /\ \A h \in DOMAIN f : g[h] = IF h \in H THEN [f[h] EXCEPT !.retired = now] ELSE f[h]
      /\ g = [h \in DOMAIN f |-> g[h]]
  BY DEF Retire
<1>2. ASSUME NEW h \in DOMAIN f
      PROVE  /\ g[h] \in S /\ Kept(f[h], g[h]) /\ (h \in H => g[h].retired = now)
             /\ h \notin H => g[h] = f[h]
  <2>1. f[h] \in S /\ Kept(f[h], f[h])
    BY <1>2 DEF Kept
  <2>2. CASE h \in H
    <3>1. g[h] = [f[h] EXCEPT !.retired = now]
      BY <1>1, <2>2
    <3> HIDE DEF g
    <3> QED
      BY <3>1, <2>1, <2>2, RetiredRecord
  <2> QED
    BY <2>1, <2>2, <1>1
<1> HIDE DEF g
<1>3. g \in [DOMAIN f -> S]
  BY <1>1, <1>2
<1>4. /\ g \in [DOMAIN f -> S] /\ DOMAIN g = DOMAIN f
      /\ \A h \in DOMAIN f :
            /\ Kept(f[h], g[h])
            /\ h \in H => g[h].retired = now
            /\ h \notin H => g[h] = f[h]
  BY <1>1, <1>2, <1>3
<1> QED
  BY <1>4 DEF g

\* The fields of the records that tables compare.
LEMMA KeptSession ==
    ASSUME NEW r \in SessionRecord, NEW z, Kept(r, z)
    PROVE  z.epoch = r.epoch /\ z.expires = r.expires
BY DEF Kept, SessionRecord

\* The epoch of a code.
LEMMA KeptCode ==
    ASSUME NEW S \in {RecoveryRecord, StepUpRecord}, NEW r \in S, NEW z, Kept(r, z)
    PROVE  z.epoch = r.epoch
<1>1. CASE S = RecoveryRecord
  BY <1>1 DEF Kept, RecoveryRecord
<1>2. CASE S = StepUpRecord
  BY <1>2 DEF Kept, StepUpRecord
<1> QED
  BY <1>1, <1>2

\* The root of a bootstrap.
LEMMA KeptBootstrap ==
    ASSUME NEW r \in BootstrapRecord, NEW z, Kept(r, z)
    PROVE  z.root = r.root
BY DEF Kept, BootstrapRecord

\* Sessions that retire.
LEMMA SessionsRetire ==
    ASSUME NEW f, NEW n \in Nat, NEW epoch, NEW H, NEW now \in Nat, SessionsGood(f, n, epoch)
    PROVE  /\ SessionsGood(Retire(f, H, now), n, epoch)
           /\ SessionsLater(f, n, Retire(f, H, now), n)
           /\ \A h \in H : h \in 1 .. n => Over(Retire(f, H, now), n, h)
<1> DEFINE g == Retire(f, H, now)
<1>1. f \in [DOMAIN f -> SessionRecord] /\ Handles(f, n)
      /\ SessionRecord \in Retirable /\ now # None
  BY NoInstant DEF SessionsGood, Retirable
<1>2. g \in [DOMAIN f -> SessionRecord] /\ DOMAIN g = DOMAIN f
      /\ \A h \in DOMAIN f :
            /\ Kept(f[h], g[h])
            /\ h \in H => g[h].retired = now
            /\ h \notin H => g[h] = f[h]
  BY <1>1, RetireFacts
<1> HIDE DEF g
<1>3. \A h \in DOMAIN f : g[h].epoch = f[h].epoch /\ g[h].expires = f[h].expires
  BY <1>1, <1>2, KeptSession
<1>4. SessionsGood(g, n, epoch)
  BY <1>1, <1>2, <1>3 DEF SessionsGood, Handles
<1>5. SessionsLater(f, n, g, n)
  BY <1>1, <1>2, <1>3 DEF SessionsLater, Later
<1>6. \A h \in H : h \in 1 .. n => Over(g, n, h)
  BY <1>1, <1>2 DEF Over
<1> QED
  BY <1>4, <1>5, <1>6 DEF g

\* All sessions retire, and the next epoch begins.
LEMMA SessionsRetireAll ==
    ASSUME NEW f, NEW n \in Nat, NEW epoch \in Nat, NEW now \in Nat, SessionsGood(f, n, epoch)
    PROVE  /\ SessionsGood(RetireAll(f, now), n, epoch + 1)
           /\ SessionsLater(f, n, RetireAll(f, now), n)
<1> DEFINE g == RetireAll(f, now)
<1>1. f \in [DOMAIN f -> SessionRecord] /\ Handles(f, n)
      /\ SessionRecord \in Retirable /\ now # None
  BY NoInstant DEF SessionsGood, Retirable
<1>2. g \in [DOMAIN f -> SessionRecord] /\ DOMAIN g = DOMAIN f
      /\ \A h \in DOMAIN f : Kept(f[h], g[h]) /\ g[h].retired = now
  BY <1>1, RetireFacts DEF RetireAll
<1> HIDE DEF g
<1>3. \A h \in DOMAIN f : g[h].epoch = f[h].epoch /\ g[h].expires = f[h].expires
  BY <1>1, <1>2, KeptSession
<1>4. \A h \in DOMAIN f : f[h].epoch \in Nat /\ f[h].epoch <= epoch
  BY <1>1 DEF SessionsGood, SessionRecord
<1>5. \A h \in DOMAIN g : g[h].epoch <= epoch + 1
  BY <1>2, <1>3, <1>4
<1>6. SessionsGood(g, n, epoch + 1)
  BY <1>1, <1>2, <1>5 DEF SessionsGood, Handles
<1>7. SessionsLater(f, n, g, n)
  BY <1>1, <1>2, <1>3 DEF SessionsLater, Later
<1> QED
  BY <1>6, <1>7 DEF g

\* g is f with one more record, of the next handle.
Extends(g, f, n, v) ==
    /\ DOMAIN g = DOMAIN f \cup {n + 1} /\ Handles(g, n + 1)
    /\ g[n + 1] = v
    /\ \A h \in DOMAIN f : h <= n /\ h \in 1 .. n /\ g[h] = f[h]

\* What Put does.
LEMMA PutFacts ==
    ASSUME NEW f, NEW n \in Nat, Handles(f, n), NEW v
    PROVE  Extends(Put(f, n + 1, v), f, n, v)
<1> DEFINE g == Put(f, n + 1, v)
<1>1. \A h \in DOMAIN f : h \in Nat /\ h <= n /\ h # n + 1 /\ h \in 1 .. n
  BY DEF Handles
<1>2. /\ DOMAIN g = DOMAIN f \cup {n + 1}
      /\ \A h \in DOMAIN f \cup {n + 1} : g[h] = IF h = n + 1 THEN v ELSE f[h]
  BY DEF Put
<1> HIDE DEF g
<1>4. g[n + 1] = v /\ \A h \in DOMAIN f : g[h] = f[h]
  BY <1>1, <1>2
<1>5. Handles(g, n + 1)
  BY <1>1, <1>2 DEF Handles
<1>6. Extends(g, f, n, v)
  BY <1>1, <1>2, <1>4, <1>5 DEF Extends
<1> QED
  BY <1>6 DEF g

\* Put keeps the type.
LEMMA PutType ==
    ASSUME NEW S, NEW f, f \in [DOMAIN f -> S], NEW k, NEW v \in S
    PROVE  Put(f, k, v) \in [DOMAIN Put(f, k, v) -> S]
BY DEF Put

\* A new session.
LEMMA SessionsPut ==
    ASSUME NEW f, NEW n \in Nat, NEW epoch \in Nat \ {0}, NEW expires \in Nat,
           SessionsGood(f, n, epoch)
    PROVE  LET g == Put(f, n + 1, [epoch |-> epoch, expires |-> expires, retired |-> None])
           IN  SessionsGood(g, n + 1, epoch) /\ SessionsLater(f, n, g, n + 1)
<1> DEFINE v == [epoch |-> epoch, expires |-> expires, retired |-> None]
           g == Put(f, n + 1, v)
<1> SUFFICES SessionsGood(g, n + 1, epoch) /\ SessionsLater(f, n, g, n + 1)
  OBVIOUS
<1>1. v \in SessionRecord /\ v.epoch = epoch
  BY DEF SessionRecord, Instant
<1>2. f \in [DOMAIN f -> SessionRecord] /\ Handles(f, n)
  BY DEF SessionsGood
<1> HIDE DEF v
<1>3. g \in [DOMAIN g -> SessionRecord] /\ Extends(g, f, n, v)
  BY <1>1, <1>2, PutFacts, PutType
<1> HIDE DEF g
<1>4. \A h \in DOMAIN g : g[h].epoch <= epoch /\ (g[h].retired = None => g[h].epoch = epoch)
  BY <1>1, <1>3 DEF SessionsGood, Extends
<1>5. SessionsGood(g, n + 1, epoch)
  BY <1>3, <1>4 DEF SessionsGood, Extends
<1>6. \A h \in DOMAIN g : h <= n => h \in DOMAIN f
  BY <1>3 DEF Extends
<1>7. SessionsLater(f, n, g, n + 1)
  BY <1>3, <1>6 DEF SessionsLater, Later, Extends
<1> QED
  BY <1>5, <1>7

\* What collection does: it keeps records, or forgets them.
LEMMA CollectedFacts ==
    ASSUME NEW S, NEW f, f \in [DOMAIN f -> S], NEW cutoff
    PROVE  /\ Collected(f, cutoff) \in [DOMAIN Collected(f, cutoff) -> S]
           /\ DOMAIN Collected(f, cutoff) \subseteq DOMAIN f
           /\ \A h \in DOMAIN Collected(f, cutoff) : Collected(f, cutoff)[h] = f[h]
BY DEF Collected, RestrictValues, Restrict

\* Sessions that are collected.
LEMMA SessionsCollected ==
    ASSUME NEW f, NEW n \in Nat, NEW epoch, NEW cutoff, SessionsGood(f, n, epoch)
    PROVE  /\ SessionsGood(Collected(f, cutoff), n, epoch)
           /\ SessionsLater(f, n, Collected(f, cutoff), n)
<1> DEFINE g == Collected(f, cutoff)
<1>1. /\ g \in [DOMAIN g -> SessionRecord] /\ DOMAIN g \subseteq DOMAIN f
      /\ \A h \in DOMAIN g : g[h] = f[h]
  BY CollectedFacts DEF SessionsGood
<1> HIDE DEF g
<1>2. SessionsGood(g, n, epoch) /\ SessionsLater(f, n, g, n)
  BY <1>1 DEF SessionsGood, Handles, SessionsLater, Later
<1> QED
  BY <1>2 DEF g

\* Recovery codes and step-ups.
OwnCode == {RecoveryRecord, StepUpRecord}

\* Codes that retire.
LEMMA CodesRetire ==
    ASSUME NEW S \in OwnCode, NEW f, NEW n \in Nat, NEW epoch, NEW H, NEW now \in Nat,
           CodesGood(S, f, n, epoch)
    PROVE  /\ CodesGood(S, Retire(f, H, now), n, epoch)
           /\ Later(f, n, Retire(f, H, now), n)
           /\ \A h \in H : h \in 1 .. n => Over(Retire(f, H, now), n, h)
<1> DEFINE g == Retire(f, H, now)
<1>1. f \in [DOMAIN f -> S] /\ Handles(f, n) /\ S \in Retirable /\ now # None
  BY NoInstant DEF CodesGood, Retirable, OwnCode
<1>2. g \in [DOMAIN f -> S] /\ DOMAIN g = DOMAIN f
      /\ \A h \in DOMAIN f :
            /\ Kept(f[h], g[h])
            /\ h \in H => g[h].retired = now
            /\ h \notin H => g[h] = f[h]
  BY <1>1, RetireFacts
<1> HIDE DEF g
<1>3. CodesGood(S, g, n, epoch)
  BY <1>1, <1>2 DEF CodesGood, Handles
<1>4. Later(f, n, g, n)
  BY <1>1, <1>2 DEF Later
<1>5. \A h \in H : h \in 1 .. n => Over(g, n, h)
  BY <1>1, <1>2 DEF Over
<1> QED
  BY <1>3, <1>4, <1>5 DEF g

\* All codes retire, whatever epoch begins.
LEMMA CodesRetireAll ==
    ASSUME NEW S \in OwnCode, NEW f, NEW n \in Nat, NEW epoch, NEW next, NEW now \in Nat,
           CodesGood(S, f, n, epoch)
    PROVE  /\ CodesGood(S, RetireAll(f, now), n, next)
           /\ Later(f, n, RetireAll(f, now), n)
           /\ \A h \in 1 .. n : Over(RetireAll(f, now), n, h)
<1> DEFINE g == RetireAll(f, now)
<1>1. f \in [DOMAIN f -> S] /\ Handles(f, n) /\ S \in Retirable /\ now # None
  BY NoInstant DEF CodesGood, Retirable, OwnCode
<1>2. g \in [DOMAIN f -> S] /\ DOMAIN g = DOMAIN f /\ \A h \in DOMAIN f : g[h].retired = now
  BY <1>1, RetireFacts DEF RetireAll
<1> HIDE DEF g
<1>3. CodesGood(S, g, n, next)
  BY <1>1, <1>2 DEF CodesGood, Handles
<1>4. Later(f, n, g, n) /\ \A h \in 1 .. n : Over(g, n, h)
  BY <1>1, <1>2 DEF Later, Over
<1> QED
  BY <1>3, <1>4 DEF g

\* A new code.
LEMMA CodesPut ==
    ASSUME NEW S \in OwnCode, NEW f, NEW n \in Nat, NEW epoch, NEW v \in S,
           v.epoch = epoch, v.attempts = MaxAttempts, CodesGood(S, f, n, epoch)
    PROVE  /\ CodesGood(S, Put(f, n + 1, v), n + 1, epoch)
           /\ Later(f, n, Put(f, n + 1, v), n + 1)
<1> DEFINE g == Put(f, n + 1, v)
<1>1. f \in [DOMAIN f -> S] /\ Handles(f, n) /\ MaxAttempts >= 1
  BY PolicyAssumption DEF CodesGood, AuthPolicy
<1>2. g \in [DOMAIN g -> S] /\ Extends(g, f, n, v)
  BY <1>1, PutFacts, PutType
<1> HIDE DEF g
<1>3. \A h \in DOMAIN g : g[h].retired = None => g[h].epoch = epoch /\ g[h].attempts >= 1
  BY <1>1, <1>2 DEF CodesGood, Extends
<1>4. CodesGood(S, g, n + 1, epoch)
  BY <1>2, <1>3 DEF CodesGood, Extends
<1>5. \A h \in DOMAIN g : h <= n => h \in DOMAIN f
  BY <1>2 DEF Extends
<1>6. Later(f, n, g, n + 1)
  BY <1>2, <1>5 DEF Later, Extends
<1> QED
  BY <1>4, <1>6 DEF g

\* A record is replaced by one that is no less retired.
LEMMA ReplacedFacts ==
    ASSUME NEW S, NEW f, f \in [DOMAIN f -> S], NEW n \in Nat, NEW h \in DOMAIN f, NEW v \in S,
           f[h].retired # None => v.retired # None
    PROVE  /\ [f EXCEPT ![h] = v] \in [DOMAIN [f EXCEPT ![h] = v] -> S]
           /\ DOMAIN [f EXCEPT ![h] = v] = DOMAIN f
           /\ Later(f, n, [f EXCEPT ![h] = v], n)
           /\ \A k \in DOMAIN f : [f EXCEPT ![h] = v][k] = IF k = h THEN v ELSE f[k]
BY DEF Later

\* A code is replaced.
LEMMA CodesReplaced ==
    ASSUME NEW S \in OwnCode, NEW f, NEW n \in Nat, NEW epoch, CodesGood(S, f, n, epoch),
           NEW h \in DOMAIN f, NEW v \in S, Kept(f[h], v),
           v.retired = None => f[h].retired = None /\ v.attempts >= 1
    PROVE  /\ CodesGood(S, [f EXCEPT ![h] = v], n, epoch)
           /\ Later(f, n, [f EXCEPT ![h] = v], n)
           /\ v.retired # None => Over([f EXCEPT ![h] = v], n, h)
<1> DEFINE g == [f EXCEPT ![h] = v]
<1>1. f \in [DOMAIN f -> S] /\ Handles(f, n) /\ v.epoch = f[h].epoch /\ h \in 1 .. n
  BY KeptCode DEF CodesGood, OwnCode, Handles
<1>2. /\ g \in [DOMAIN g -> S] /\ DOMAIN g = DOMAIN f /\ Later(f, n, g, n)
      /\ \A k \in DOMAIN f : g[k] = IF k = h THEN v ELSE f[k]
  BY <1>1, ReplacedFacts
<1> HIDE DEF g
<1>3. CodesGood(S, g, n, epoch)
  BY <1>1, <1>2 DEF CodesGood, Handles
<1>4. v.retired # None => Over(g, n, h)
  BY <1>1, <1>2 DEF Over
<1> QED
  BY <1>2, <1>3, <1>4 DEF g

\* Codes that are collected.
LEMMA CodesCollected ==
    ASSUME NEW S \in OwnCode, NEW f, NEW n \in Nat, NEW epoch, NEW cutoff,
           CodesGood(S, f, n, epoch)
    PROVE  /\ CodesGood(S, Collected(f, cutoff), n, epoch)
           /\ Later(f, n, Collected(f, cutoff), n)
<1> DEFINE g == Collected(f, cutoff)
<1>1. /\ g \in [DOMAIN g -> S] /\ DOMAIN g \subseteq DOMAIN f
      /\ \A h \in DOMAIN g : g[h] = f[h]
  BY CollectedFacts DEF CodesGood
<1> HIDE DEF g
<1>2. CodesGood(S, g, n, epoch) /\ Later(f, n, g, n)
  BY <1>1 DEF CodesGood, Handles, Later
<1> QED
  BY <1>2 DEF g

-----------------------------------------------------------------------------
(* Roots and bootstraps.                                                   *)

RootsGood(f, n) ==
    /\ f \in [DOMAIN f -> Instant]
    /\ \A r \in DOMAIN f : r \in Root /\ r.number <= n

RootsLater(f, n, g, m) ==
    /\ n <= m
    /\ \A r \in DOMAIN g : r.number <= n => r \in DOMAIN f /\ (f[r] # None => g[r] # None)

\* There is one live reprovision root.
Route(f) ==
    \E r \in DOMAIN f : \A q \in DOMAIN f : (q.purpose = "REPROVISION" /\ f[q] = None) <=> q = r

\* The roots that bootstraps stand on stay.
Serve(f, g) ==
    \A r \in DOMAIN f : f[r] = None /\ r.purpose # "EMERGENCY_REVOKE" =>
        r \in DOMAIN g /\ g[r] = None

\* A new root.
LEMMA RootsPut ==
    ASSUME NEW f, NEW n \in Nat, RootsGood(f, n), NEW purpose \in RootPurpose
    PROVE  LET r == [purpose |-> purpose, number |-> n + 1]
               g == Put(f, r, None)
           IN  /\ RootsGood(g, n + 1) /\ RootsLater(f, n, g, n + 1) /\ Serve(f, g)
               /\ DOMAIN g = DOMAIN f \cup {r} /\ r \notin DOMAIN f
               /\ g[r] = None /\ \A q \in DOMAIN f : g[q] = f[q]
<1> DEFINE r == [purpose |-> purpose, number |-> n + 1]
           g == Put(f, r, None)
<1> SUFFICES /\ RootsGood(g, n + 1) /\ RootsLater(f, n, g, n + 1) /\ Serve(f, g)
             /\ DOMAIN g = DOMAIN f \cup {r} /\ r \notin DOMAIN f
             /\ g[r] = None /\ \A q \in DOMAIN f : g[q] = f[q]
  OBVIOUS
<1>1. r \in Root /\ r.number = n + 1 /\ None \in Instant
  BY DEF Root, Instant
<1>2. f \in [DOMAIN f -> Instant] /\ \A q \in DOMAIN f : q \in Root /\ q.number <= n
  BY DEF RootsGood
<1> HIDE DEF r
<1>3. \A q \in DOMAIN f : q.number \in Nat /\ q # r
  BY <1>1, <1>2 DEF Root
<1>4. /\ DOMAIN g = DOMAIN f \cup {r} /\ g \in [DOMAIN g -> Instant]
      /\ g[r] = None /\ \A q \in DOMAIN f : g[q] = f[q]
  BY <1>1, <1>2, <1>3 DEF Put
<1> HIDE DEF g
<1>5. RootsGood(g, n + 1)
  BY <1>1, <1>2, <1>3, <1>4 DEF RootsGood
<1>6. RootsLater(f, n, g, n + 1)
  BY <1>1, <1>2, <1>3, <1>4 DEF RootsLater
<1> QED
  BY <1>3, <1>4, <1>5, <1>6 DEF Serve

\* A root is consumed.
LEMMA RootsConsume ==
    ASSUME NEW f, NEW n \in Nat, RootsGood(f, n), NEW r \in DOMAIN f, NEW now \in Nat
    PROVE  /\ RootsGood([f EXCEPT ![r] = now], n)
           /\ RootsLater(f, n, [f EXCEPT ![r] = now], n)
           /\ DOMAIN [f EXCEPT ![r] = now] = DOMAIN f
           /\ r.number <= n /\ [f EXCEPT ![r] = now][r] # None
           /\ \A q \in DOMAIN f : q # r => [f EXCEPT ![r] = now][q] = f[q]
BY NoInstant DEF RootsGood, RootsLater

\* Consuming a root that is not for reprovision leaves the route.
LEMMA RouteStays ==
    ASSUME NEW f, NEW n \in Nat, RootsGood(f, n), NEW r \in DOMAIN f, NEW now \in Nat,
           Route(f), r.purpose # "REPROVISION"
    PROVE  Route([f EXCEPT ![r] = now])
BY NoInstant DEF Route, RootsGood

\* A consumed reprovision root has its successor.
LEMMA RouteReplaced ==
    ASSUME NEW f, NEW n \in Nat, RootsGood(f, n), NEW r \in DOMAIN f, NEW now \in Nat,
           Route(f), r.purpose = "REPROVISION", f[r] = None
    PROVE  LET g == [f EXCEPT ![r] = now]
           IN  Route(Put(g, [purpose |-> "REPROVISION", number |-> n + 1], None))
<1> DEFINE g == [f EXCEPT ![r] = now]
           q == [purpose |-> "REPROVISION", number |-> n + 1]
           k == Put(g, q, None)
<1>1. /\ RootsGood(g, n) /\ DOMAIN g = DOMAIN f /\ g[r] # None
      /\ \A x \in DOMAIN f : x # r => g[x] = f[x]
  BY RootsConsume
<1>2. \A x \in DOMAIN f : x.purpose = "REPROVISION" /\ f[x] = None => x = r
  BY DEF Route
<1>3. "REPROVISION" \in RootPurpose /\ q.purpose = "REPROVISION"
  BY DEF RootPurpose
<1> HIDE DEF g
<1>4. /\ DOMAIN k = DOMAIN g \cup {q} /\ q \notin DOMAIN g
      /\ k[q] = None /\ \A x \in DOMAIN g : k[x] = g[x]
  BY <1>1, <1>3, RootsPut
<1> HIDE DEF q, k
<1>5. Route(k)
  BY <1>1, <1>2, <1>3, <1>4 DEF Route
<1> QED
  BY <1>5 DEF g, k, q

\* The roots that garbage_collect keeps.
KeptRoots(f, cutoff) == RestrictValues(f, LAMBDA retired : ~Past(retired, cutoff))

\* Roots that are collected: live ones stay.
LEMMA RootsCollected ==
    ASSUME NEW f, NEW n \in Nat, RootsGood(f, n), NEW cutoff
    PROVE  LET g == KeptRoots(f, cutoff)
           IN  /\ RootsGood(g, n) /\ RootsLater(f, n, g, n) /\ Serve(f, g)
               /\ Route(f) => Route(g)
<1> DEFINE g == KeptRoots(f, cutoff)
<1> SUFFICES /\ RootsGood(g, n) /\ RootsLater(f, n, g, n) /\ Serve(f, g)
             /\ Route(f) => Route(g)
  OBVIOUS
<1>1. /\ DOMAIN g = {x \in DOMAIN f : ~Past(f[x], cutoff)}
      /\ g = [x \in DOMAIN g |-> f[x]]
  BY DEF KeptRoots, RestrictValues, Restrict
<1>2. \A x \in DOMAIN f : f[x] = None => x \in DOMAIN g
  BY <1>1 DEF Past
<1>3. DOMAIN g \subseteq DOMAIN f /\ \A x \in DOMAIN g : g[x] = f[x]
  BY <1>1
<1>4. g \in [DOMAIN g -> Instant]
  BY <1>1, <1>3 DEF RootsGood
<1> HIDE DEF g
<1> QED
  BY <1>2, <1>3, <1>4 DEF RootsGood, RootsLater, Serve, Route

\* The bootstraps stand on roots that serve, before an actor that is as
\* initialized as it was.
LEMMA BootstrapsStand ==
    ASSUME NEW f, NEW n, NEW roots, NEW others, NEW actor, NEW next,
           BootstrapsGood(f, n, roots, actor), Serve(roots, others),
           next.initialized = actor.initialized
    PROVE  BootstrapsGood(f, n, others, next)
<1>1. ASSUME NEW h \in DOMAIN f, f[h].retired = None
      PROVE  Stands(f[h], others, next)
  BY <1>1 DEF BootstrapsGood, Stands, Serve
<1> QED
  BY <1>1 DEF BootstrapsGood

\* Bootstraps that retire.
LEMMA BootstrapsRetire ==
    ASSUME NEW f, NEW n \in Nat, NEW roots, NEW actor, NEW H, NEW now \in Nat,
           BootstrapsGood(f, n, roots, actor)
    PROVE  /\ BootstrapsGood(Retire(f, H, now), n, roots, actor)
           /\ Later(f, n, Retire(f, H, now), n)
           /\ {h \in DOMAIN f : f[h].retired = None} \subseteq H =>
                 \A h \in DOMAIN f : Retire(f, H, now)[h].retired # None
<1> DEFINE g == Retire(f, H, now)
<1>1. f \in [DOMAIN f -> BootstrapRecord] /\ Handles(f, n)
      /\ BootstrapRecord \in Retirable /\ now # None
  BY NoInstant DEF BootstrapsGood, Retirable
<1>2. g \in [DOMAIN f -> BootstrapRecord] /\ DOMAIN g = DOMAIN f
      /\ \A h \in DOMAIN f :
            /\ h \in H => g[h].retired = now
            /\ h \notin H => g[h] = f[h]
  BY <1>1, RetireFacts
<1> HIDE DEF g
<1>3. BootstrapsGood(g, n, roots, actor)
  BY <1>1, <1>2 DEF BootstrapsGood, Handles
<1>4. Later(f, n, g, n)
  BY <1>1, <1>2 DEF Later
<1>5. {h \in DOMAIN f : f[h].retired = None} \subseteq H => \A h \in DOMAIN f : g[h].retired # None
  BY <1>1, <1>2
<1> QED
  BY <1>3, <1>4, <1>5 DEF g

\* A new bootstrap is the only live one.
LEMMA BootstrapsIssue ==
    ASSUME NEW f, NEW n \in Nat, NEW roots, NEW actor, NEW now \in Nat,
           BootstrapsGood(f, n, roots, actor), NEW v \in BootstrapRecord, Stands(v, roots, actor)
    PROVE  LET g == Put(Retire(f, {h \in DOMAIN f : f[h].retired = None}, now), n + 1, v)
           IN  BootstrapsGood(g, n + 1, roots, actor) /\ Later(f, n, g, n + 1)
<1> DEFINE k == Retire(f, {h \in DOMAIN f : f[h].retired = None}, now)
           g == Put(k, n + 1, v)
<1> SUFFICES BootstrapsGood(g, n + 1, roots, actor) /\ Later(f, n, g, n + 1)
  OBVIOUS
<1>1. BootstrapsGood(k, n, roots, actor) /\ Later(f, n, k, n)
  BY BootstrapsRetire
<1>2. \A h \in DOMAIN k : k[h].retired # None
  <2>1. DOMAIN k = DOMAIN f
    BY DEF Retire
  <2>2. \A h \in DOMAIN f : k[h].retired # None
    BY BootstrapsRetire
  <2> QED
    BY <2>1, <2>2
<1> HIDE DEF k
<1>3. k \in [DOMAIN k -> BootstrapRecord] /\ Handles(k, n)
  BY <1>1 DEF BootstrapsGood
<1>4. g \in [DOMAIN g -> BootstrapRecord] /\ Extends(g, k, n, v)
  BY <1>3, PutFacts, PutType
<1> HIDE DEF g
<1>5. \A h \in DOMAIN g : g[h].retired = None => h = n + 1 /\ g[h] = v
  BY <1>2, <1>4 DEF Extends
<1>6. BootstrapsGood(g, n + 1, roots, actor)
  BY <1>4, <1>5 DEF BootstrapsGood, Extends
<1>7. \A h \in DOMAIN g : h <= n => h \in DOMAIN k /\ g[h] = k[h]
  BY <1>4 DEF Extends
<1>8. Later(f, n, g, n + 1)
  BY <1>1, <1>7 DEF Later
<1> QED
  BY <1>6, <1>8

\* A bootstrap is replaced.
LEMMA BootstrapsReplaced ==
    ASSUME NEW f, NEW n \in Nat, NEW roots, NEW actor, BootstrapsGood(f, n, roots, actor),
           NEW h \in DOMAIN f, NEW v \in BootstrapRecord, Kept(f[h], v),
           v.retired = None => f[h].retired = None /\ v.attempts >= 1
    PROVE  /\ BootstrapsGood([f EXCEPT ![h] = v], n, roots, actor)
           /\ Later(f, n, [f EXCEPT ![h] = v], n)
<1> DEFINE g == [f EXCEPT ![h] = v]
<1>1. f \in [DOMAIN f -> BootstrapRecord] /\ Handles(f, n) /\ v.root = f[h].root
  BY KeptBootstrap DEF BootstrapsGood
<1>2. /\ g \in [DOMAIN g -> BootstrapRecord] /\ DOMAIN g = DOMAIN f /\ Later(f, n, g, n)
      /\ \A k \in DOMAIN f : g[k] = IF k = h THEN v ELSE f[k]
  BY <1>1, ReplacedFacts
<1> HIDE DEF g
<1>3. v.retired = None => Stands(v, roots, actor)
  BY <1>1 DEF BootstrapsGood, Stands
<1>4. BootstrapsGood(g, n, roots, actor)
  BY <1>1, <1>2, <1>3 DEF BootstrapsGood, Handles
<1> QED
  BY <1>2, <1>4 DEF g

\* Once the live bootstrap is spent there is none that could fall.
LEMMA BootstrapsSpent ==
    ASSUME NEW f, NEW n \in Nat, NEW roots, NEW actor, BootstrapsGood(f, n, roots, actor),
           NEW h \in DOMAIN f, f[h].retired = None, NEW v \in BootstrapRecord, v.retired # None,
           NEW others, NEW next
    PROVE  /\ BootstrapsGood([f EXCEPT ![h] = v], n, others, next)
           /\ Later(f, n, [f EXCEPT ![h] = v], n)
           /\ Over([f EXCEPT ![h] = v], n, h)
<1> DEFINE g == [f EXCEPT ![h] = v]
<1>1. f \in [DOMAIN f -> BootstrapRecord] /\ Handles(f, n) /\ h \in 1 .. n
  BY DEF BootstrapsGood, Handles
<1>2. /\ g \in [DOMAIN g -> BootstrapRecord] /\ DOMAIN g = DOMAIN f /\ Later(f, n, g, n)
      /\ \A k \in DOMAIN f : g[k] = IF k = h THEN v ELSE f[k]
  BY <1>1, ReplacedFacts
<1> HIDE DEF g
<1>3. \A k \in DOMAIN g : g[k].retired # None
  BY <1>1, <1>2 DEF BootstrapsGood
<1>4. BootstrapsGood(g, n, others, next) /\ Over(g, n, h)
  BY <1>1, <1>2, <1>3 DEF BootstrapsGood, Handles, Over
<1> QED
  BY <1>2, <1>4 DEF g

\* Bootstraps that are collected.
LEMMA BootstrapsCollected ==
    ASSUME NEW f, NEW n \in Nat, NEW roots, NEW actor, NEW cutoff,
           BootstrapsGood(f, n, roots, actor)
    PROVE  /\ BootstrapsGood(Collected(f, cutoff), n, roots, actor)
           /\ Later(f, n, Collected(f, cutoff), n)
<1> DEFINE g == Collected(f, cutoff)
<1>1. /\ g \in [DOMAIN g -> BootstrapRecord] /\ DOMAIN g \subseteq DOMAIN f
      /\ \A h \in DOMAIN g : g[h] = f[h]
  BY CollectedFacts DEF BootstrapsGood
<1> HIDE DEF g
<1>2. BootstrapsGood(g, n, roots, actor) /\ Later(f, n, g, n)
  BY <1>1 DEF BootstrapsGood, Handles, Later
<1> QED
  BY <1>2 DEF g

-----------------------------------------------------------------------------
(* Grants and ceremonies.                                                  *)

GrantsGood(f, n) == f \in [DOMAIN f -> GrantRecord] /\ Handles(f, n)

GrantsLater(f, g) ==
    \A e \in DOMAIN g : e \in DOMAIN f /\ (f[e].used = TRUE => g[e].used = TRUE)

\* A grant is used.
LEMMA GrantsUsed ==
    ASSUME NEW f, NEW n, GrantsGood(f, n), NEW e \in DOMAIN f
    PROVE  LET g == [f EXCEPT ![e] = [f[e] EXCEPT !.used = TRUE]]
           IN  GrantsGood(g, n) /\ GrantsLater(f, g) /\ g[e].used = TRUE
<1> DEFINE v == [f[e] EXCEPT !.used = TRUE]
           g == [f EXCEPT ![e] = v]
<1> SUFFICES GrantsGood(g, n) /\ GrantsLater(f, g) /\ g[e].used = TRUE
  OBVIOUS
<1>1. f \in [DOMAIN f -> GrantRecord] /\ Handles(f, n)
  BY DEF GrantsGood
<1>2. v \in GrantRecord /\ v.used = TRUE
  BY <1>1 DEF GrantRecord
<1> HIDE DEF v
<1>3. /\ g \in [DOMAIN g -> GrantRecord] /\ DOMAIN g = DOMAIN f
      /\ \A x \in DOMAIN f : g[x] = IF x = e THEN v ELSE f[x]
  BY <1>1, <1>2
<1> HIDE DEF g
<1> QED
  BY <1>1, <1>2, <1>3 DEF GrantsGood, GrantsLater, Handles

\* A step-up becomes a grant.
LEMMA GrantsPut ==
    ASSUME NEW f, NEW n \in Nat, GrantsGood(f, n), NEW e \in 1 .. n, NEW v \in GrantRecord
    PROVE  /\ GrantsGood(Put(f, e, v), n)
           /\ DOMAIN Put(f, e, v) = DOMAIN f \cup {e}
           /\ \A x \in DOMAIN f : x # e => Put(f, e, v)[x] = f[x]
<1>1. Put(f, e, v) \in [DOMAIN Put(f, e, v) -> GrantRecord]
  BY PutType DEF GrantsGood
<1>2. /\ DOMAIN Put(f, e, v) = DOMAIN f \cup {e}
      /\ \A x \in DOMAIN f : x # e => Put(f, e, v)[x] = f[x]
  BY DEF Put
<1> QED
  BY <1>1, <1>2 DEF GrantsGood, Handles

\* The grants that it keeps.
KeptGrants(f, cutoff) == RestrictValues(f, LAMBDA r : ~Past(r.expires, cutoff))

\* Grants that are collected.
LEMMA GrantsCollected ==
    ASSUME NEW f, NEW n, GrantsGood(f, n), NEW cutoff
    PROVE  LET g == KeptGrants(f, cutoff)
           IN  GrantsGood(g, n) /\ GrantsLater(f, g)
<1> DEFINE g == KeptGrants(f, cutoff)
<1> SUFFICES GrantsGood(g, n) /\ GrantsLater(f, g)
  OBVIOUS
<1>1. DOMAIN g \subseteq DOMAIN f /\ g = [x \in DOMAIN g |-> f[x]]
  BY DEF KeptGrants, RestrictValues, Restrict
<1> HIDE DEF g
<1>2. g \in [DOMAIN g -> GrantRecord] /\ \A x \in DOMAIN g : g[x] = f[x]
  BY <1>1 DEF GrantsGood
<1> QED
  BY <1>1, <1>2 DEF GrantsGood, GrantsLater, Handles

\* The active ceremonies.
Running(f) == {c \in DOMAIN f : f[c].terminal = None}

CeremoniesType(f, n) == f \in [DOMAIN f -> CeremonyRecord] /\ Handles(f, n)

CeremoniesGood(f, n) ==
    /\ CeremoniesType(f, n)
    /\ Cardinality(Running(f)) <= ActiveCapacity
    /\ Cardinality(DOMAIN f) <= ActiveCapacity + TombstoneCapacity

CeremoniesLater(f, n, g, m) ==
    /\ n <= m
    /\ \A c \in DOMAIN g : c <= n =>
          c \in DOMAIN f /\ (f[c].terminal # None => g[c].terminal # None)

\* There are finitely many ceremonies.
LEMMA CeremoniesFinite ==
    ASSUME NEW f, NEW n \in Nat, CeremoniesType(f, n)
    PROVE  IsFiniteSet(DOMAIN f) /\ IsFiniteSet(Running(f))
<1>1. IsFiniteSet(1 .. n) /\ DOMAIN f \in SUBSET (1 .. n)
  BY FS_Interval DEF CeremoniesType, Handles
<1>2. IsFiniteSet(DOMAIN f) /\ Running(f) \in SUBSET DOMAIN f
  BY <1>1, FS_Subset DEF Running
<1> QED
  BY <1>2, FS_Subset

\* Ceremonies are forgotten, or end.
LEMMA CeremoniesShrink ==
    ASSUME NEW f, NEW n \in Nat, CeremoniesGood(f, n), NEW g, CeremoniesType(g, n),
           DOMAIN g \subseteq DOMAIN f,
           \A c \in DOMAIN g : g[c].terminal = None => f[c].terminal = None
    PROVE  CeremoniesGood(g, n) /\ CeremoniesLater(f, n, g, n)
<1>1. IsFiniteSet(DOMAIN f) /\ IsFiniteSet(Running(f))
  BY CeremoniesFinite DEF CeremoniesGood
<1>2. DOMAIN g \in SUBSET DOMAIN f /\ Running(g) \in SUBSET Running(f)
  BY DEF Running
<1>3. /\ Cardinality(DOMAIN g) <= Cardinality(DOMAIN f)
      /\ Cardinality(Running(g)) <= Cardinality(Running(f))
      /\ {Cardinality(DOMAIN g), Cardinality(DOMAIN f), Cardinality(Running(g)),
          Cardinality(Running(f))} \subseteq Nat
  BY <1>1, <1>2, FS_Subset, FS_CardinalityType
<1>4. /\ Cardinality(DOMAIN g) <= ActiveCapacity + TombstoneCapacity
      /\ Cardinality(Running(g)) <= ActiveCapacity
  BY <1>3, PolicyAssumption DEF CeremoniesGood, AuthPolicy
<1> QED
  BY <1>4 DEF CeremoniesGood, CeremoniesLater

\* The ceremonies after the collection of GcCeremonies.
Swept(f, now) ==
    LET terminal(c) == IF c.terminal = None /\ now >= c.expires THEN c.expires ELSE c.terminal
        forgotten(c) == terminal(c) # None /\ now >= terminal(c) + ReplaySeconds
        kept == {c \in DOMAIN f : ~forgotten(f[c])}
    IN  [c \in kept |-> [f[c] EXCEPT !.terminal = terminal(f[c])]]

\* A ceremony ends.
LEMMA EndedCeremony ==
    ASSUME NEW r \in CeremonyRecord, NEW x \in Instant, NEW z, z = [r EXCEPT !.terminal = x]
    PROVE  z \in CeremonyRecord /\ z.terminal = x /\ z.bootstrap = r.bootstrap
BY DEF CeremonyRecord

\* Collection forgets ceremonies or ends them.
LEMMA SweptFacts ==
    ASSUME NEW f, NEW n, CeremoniesType(f, n), NEW now \in Nat
    PROVE  /\ CeremoniesType(Swept(f, now), n)
           /\ DOMAIN Swept(f, now) \subseteq DOMAIN f
           /\ \A c \in DOMAIN Swept(f, now) :
                 /\ Swept(f, now)[c].terminal = None => f[c].terminal = None
                 /\ Swept(f, now)[c].bootstrap = f[c].bootstrap
<1> DEFINE g == Swept(f, now)
           terminal(c) == IF c.terminal = None /\ now >= c.expires THEN c.expires ELSE c.terminal
<1>1. /\ DOMAIN g \subseteq DOMAIN f
      /\ g = [c \in DOMAIN g |-> g[c]]
      /\ \A c \in DOMAIN g : g[c] = [f[c] EXCEPT !.terminal = terminal(f[c])]
  BY DEF Swept
<1> HIDE DEF g
<1>2. ASSUME NEW c \in DOMAIN g
      PROVE  /\ g[c] \in CeremonyRecord /\ g[c].bootstrap = f[c].bootstrap
             /\ g[c].terminal = None => f[c].terminal = None
  <2>1. f[c] \in CeremonyRecord
    BY <1>1 DEF CeremoniesType
  <2>2. terminal(f[c]) \in Instant /\ (terminal(f[c]) = None => f[c].terminal = None)
    BY <2>1 DEF CeremonyRecord, Instant
  <2> HIDE DEF terminal
  <2> QED
    BY <1>1, <2>1, <2>2, EndedCeremony
<1>3. g \in [DOMAIN g -> CeremonyRecord]
  BY <1>1, <1>2
<1>4. /\ CeremoniesType(g, n) /\ DOMAIN g \subseteq DOMAIN f
      /\ \A c \in DOMAIN g :
            /\ g[c].terminal = None => f[c].terminal = None
            /\ g[c].bootstrap = f[c].bootstrap
  BY <1>1, <1>2, <1>3 DEF CeremoniesType, Handles
<1> QED
  BY <1>4 DEF g

\* A set of naturals has a least element.
LEMMA Least ==
    ASSUME NEW S, S \subseteq Nat, S # {}
    PROVE  \E x \in S : \A y \in S : x <= y
<1> DEFINE R == OpToRel(<, Nat)
<1>1. IsWellFoundedOn(R, Nat)
  BY NatLessThanWellFounded
<1>2. PICK x \in S : \A y \in S : ~(<<y, x>> \in R)
  <2> HIDE DEF R
  <2> QED
    BY <1>1, WFMin
<1>3. ASSUME NEW y \in S PROVE x <= y
  <2>1. x \in Nat /\ y \in Nat /\ <<y, x>> \notin {ss \in Nat \X Nat : ss[1] < ss[2]}
    BY <1>2, <1>3 DEF OpToRel
  <2>2. ~(y < x)
    BY <2>1
  <2> QED
    BY <2>1, <2>2
<1> QED
  BY <1>3

\* Of finitely many tombstones, at most K have fewer than K newer ones.
LEMMA FewNewest ==
    ASSUME NEW T, IsFiniteSet(T), T \subseteq Nat, NEW end, \A c \in T : end[c] \in Nat,
           NEW K \in Nat, NEW newer,
           \A c \in T : newer[c] \subseteq T,
           \A c, d \in T : end[c] < end[d] \/ (end[c] = end[d] /\ c < d) => d \in newer[c],
           NEW kept \in SUBSET T, \A c \in kept : Cardinality(newer[c]) < K
    PROVE  Cardinality(kept) <= K
<1>1. IsFiniteSet(kept) /\ Cardinality(kept) \in Nat
  BY FS_Subset, FS_CardinalityType
<1> SUFFICES ASSUME Cardinality(kept) > K PROVE FALSE
  BY <1>1
<1>2. kept # {} /\ kept \subseteq T
  BY FS_EmptySet
<1> DEFINE A == {end[c] : c \in kept}
<1>3. A \subseteq Nat /\ A # {}
  <2>1. \A c \in kept : end[c] \in Nat
    BY <1>2
  <2>2. PICK c \in kept : TRUE
    BY <1>2
  <2>3. end[c] \in A
    BY <2>2
  <2> QED
    BY <2>1, <2>3
<1>4. PICK a \in A : \A y \in A : a <= y
  <2> HIDE DEF A
  <2> QED
    BY <1>3, Least
<1> DEFINE B == {c \in kept : end[c] = a}
<1>5. B \subseteq Nat /\ B # {}
  BY <1>2, <1>4
<1>6. PICK b \in B : \A y \in B : b <= y
  <2> HIDE DEF B
  <2> QED
    BY <1>5, Least
<1>7. b \in kept /\ b \in T /\ end[b] = a /\ a \in Nat /\ Cardinality(newer[b]) < K
  BY <1>6, <1>3, <1>4
<1>8. ASSUME NEW d \in kept \ {b} PROVE d \in newer[b]
  <2>1. d \in T /\ d # b /\ end[d] \in Nat /\ a <= end[d] /\ d \in Nat /\ b \in Nat
    BY <1>2, <1>4, <1>7
  <2>2. CASE end[d] = a
    <3>1. b <= d
      BY <2>2, <1>6
    <3> QED
      BY <3>1, <2>1, <2>2, <1>7
  <2>3. CASE end[d] # a
    BY <2>1, <2>3, <1>7
  <2> QED
    BY <2>2, <2>3
<1>9. IsFiniteSet(newer[b]) /\ Cardinality(newer[b]) \in Nat
  <2>1. newer[b] \in SUBSET T
    BY <1>7
  <2> QED
    BY <2>1, FS_Subset, FS_CardinalityType
<1>10. Cardinality(kept \ {b}) = Cardinality(kept) - 1
  BY <1>1, <1>7, FS_RemoveElement
<1>11. Cardinality(kept \ {b}) <= Cardinality(newer[b])
  <2>1. kept \ {b} \in SUBSET newer[b]
    BY <1>8
  <2> QED
    BY <2>1, <1>9, FS_Subset
<1> QED
  BY <1>1, <1>7, <1>9, <1>10, <1>11

-----------------------------------------------------------------------------
(* Stores, and the operators that change them.                             *)

Field == {"actor", "roots", "bootstraps", "sessions", "recoveries", "stepUps", "grants",
          "ceremonies", "issued"}

IsStore(s) == s = [x \in Field |-> s[x]]

\* t is a store that differs from s in the fields X only.
Same(s, t, X) == IsStore(t) /\ \A x \in Field \ X : t[x] = s[x]

\* The clock is observed.
LEMMA ObservedFields ==
    ASSUME NEW s, IsStore(s), NEW now, NEW t, t = Observed(s, now)
    PROVE  Same(s, t, {"actor"}) /\ t.actor = [s.actor EXCEPT !.observed = now]
BY DEF IsStore, Same, Field, Observed

\* A session is issued.
LEMMA IssueSessionFields ==
    ASSUME NEW s, IsStore(s), NEW now, NEW t, t = IssueSession(s, now)
    PROVE  /\ Same(s, t, {"sessions", "issued"})
           /\ t.sessions = Put(s.sessions, s.issued.sessions + 1,
                               [epoch |-> s.actor.epoch, expires |-> Expiry(now, SessionTTL),
                                retired |-> None])
           /\ t.issued = [s.issued EXCEPT !.sessions = s.issued.sessions + 1]
BY DEF IsStore, Same, Field, IssueSession

\* A recovery code is issued.
LEMMA IssueRecoveryFields ==
    ASSUME NEW s, IsStore(s), NEW now, NEW t, t = IssueRecovery(s, now)
    PROVE  /\ Same(s, t, {"recoveries", "issued"})
           /\ t.recoveries = Put(s.recoveries, s.issued.recoveries + 1,
                                 [epoch |-> s.actor.epoch, expires |-> Expiry(now, RecoveryTTL),
                                  attempts |-> MaxAttempts, retired |-> None])
           /\ t.issued = [s.issued EXCEPT !.recoveries = s.issued.recoveries + 1]
BY DEF IsStore, Same, Field, IssueRecovery

\* A root is issued.
LEMMA IssueRootFields ==
    ASSUME NEW s, IsStore(s), NEW purpose, NEW t, t = IssueRoot(s, purpose)
    PROVE  /\ Same(s, t, {"roots", "issued"})
           /\ t.roots = Put(s.roots, [purpose |-> purpose, number |-> s.issued.roots + 1], None)
           /\ t.issued = [s.issued EXCEPT !.roots = s.issued.roots + 1]
BY DEF IsStore, Same, Field, IssueRoot

\* A bootstrap is issued.
LEMMA IssueBootstrapFields ==
    ASSUME NEW s, IsStore(s), NEW root, NEW now, NEW t, t = IssueBootstrap(s, root, now)
    PROVE  /\ Same(s, t, {"bootstraps", "issued"})
           /\ t.bootstraps = Put(Retire(s.bootstraps,
                                        {h \in DOMAIN s.bootstraps : s.bootstraps[h].retired = None},
                                        now),
                                 s.issued.bootstraps + 1,
                                 [root |-> root, expires |-> Expiry(now, BootstrapTTL),
                                  attempts |-> MaxAttempts, retired |-> None])
           /\ t.issued = [s.issued EXCEPT !.bootstraps = s.issued.bootstraps + 1]
BY DEF IsStore, Same, Field, IssueBootstrap, InvalidateBootstraps

\* A root is consumed.
LEMMA ConsumeRootFields ==
    ASSUME NEW s, IsStore(s), NEW root, NEW now, NEW t, t = ConsumeRoot(s, root, now)
    PROVE  Same(s, t, {"roots"}) /\ t.roots = [s.roots EXCEPT ![root] = now]
BY DEF IsStore, Same, Field, ConsumeRoot

\* The recovery codes are consumed.
LEMMA ConsumeRecoveriesFields ==
    ASSUME NEW s, IsStore(s), NEW now, NEW t, t = ConsumeRecoveries(s, now)
    PROVE  Same(s, t, {"recoveries"}) /\ t.recoveries = RetireAll(s.recoveries, now)
BY DEF IsStore, Same, Field, ConsumeRecoveries

\* The epoch advances.
LEMMA NextEpochFields ==
    ASSUME NEW s, IsStore(s), NEW now, NEW t, t = NextEpoch(s, now)
    PROVE  /\ Same(s, t, {"actor", "sessions", "recoveries", "stepUps"})
           /\ t.actor = [s.actor EXCEPT !.epoch = s.actor.epoch + 1]
           /\ t.sessions = RetireAll(s.sessions, now)
           /\ t.recoveries = RetireAll(s.recoveries, now)
           /\ t.stepUps = RetireAll(s.stepUps, now)
BY DEF IsStore, Same, Field, NextEpoch, RetireActorAuthority

\* A grant is marked.
LEMMA GrantUsedFields ==
    ASSUME NEW s, IsStore(s), NEW e, NEW t, t = GrantUsed(s, e)
    PROVE  /\ Same(s, t, {"grants"})
           /\ t.grants = [s.grants EXCEPT ![e] = [s.grants[e] EXCEPT !.used = TRUE]]
BY DEF IsStore, Same, Field, GrantUsed

\* Ceremonies are collected.
LEMMA GcCeremoniesFields ==
    ASSUME NEW s, IsStore(s), NEW now, NEW t, t = GcCeremonies(s, now)
    PROVE  Same(s, t, {"ceremonies"}) /\ t.ceremonies = Swept(s.ceremonies, now)
<1>1. t = [s EXCEPT !.ceremonies = Swept(s.ceremonies, now)]
  BY DEF GcCeremonies, Swept
<1> QED
  BY <1>1 DEF IsStore, Same, Field

\* One field of a store is replaced.
LEMMA FieldReplaced ==
    ASSUME NEW s, IsStore(s), NEW x \in Field, NEW v
    PROVE  Same(s, [s EXCEPT ![x] = v], {x}) /\ [s EXCEPT ![x] = v][x] = v
BY DEF IsStore, Same, Field

\* What two steps leave alone.
LEMMA SameTwice ==
    ASSUME NEW s, NEW t, NEW u, NEW X, NEW Y, Same(s, t, X), Same(t, u, Y)
    PROVE  Same(s, u, X \cup Y)
BY DEF Same

\* Trimming keeps the newest tombstones, and no more than its capacity.
LEMMA TrimFacts ==
    ASSUME NEW s, IsStore(s), NEW n \in Nat, CeremoniesType(s.ceremonies, n),
           Cardinality(Running(s.ceremonies)) <= ActiveCapacity,
           NEW t, t = TrimTombstones(s)
    PROVE  /\ Same(s, t, {"ceremonies"})
           /\ CeremoniesGood(t.ceremonies, n)
           /\ DOMAIN t.ceremonies \subseteq DOMAIN s.ceremonies
           /\ \A c \in DOMAIN t.ceremonies : t.ceremonies[c] = s.ceremonies[c]
<1> DEFINE f == s.ceremonies
           T == Tombstones(s)
           newer == [c \in T |-> {d \in T : Older(s, c, d)}]
           end == [c \in T |-> f[c].terminal]
           doomed == {c \in T : Cardinality(newer[c]) >= TombstoneCapacity}
           few == {c \in T : Cardinality(newer[c]) < TombstoneCapacity}
           g == Restrict(f, DOMAIN f \ doomed)
<1>1. doomed = {c \in T : Cardinality({d \in T : Older(s, c, d)}) >= TombstoneCapacity}
  OBVIOUS
<1>2. t = [s EXCEPT !.ceremonies = g]
  BY <1>1 DEF TrimTombstones
<1>3. Same(s, t, {"ceremonies"}) /\ t.ceremonies = g
  <2> HIDE DEF g
  <2> QED
    BY <1>2 DEF IsStore, Same, Field
<1>4. T = DOMAIN f \ Running(f) /\ Running(f) \subseteq DOMAIN f
  BY DEF Tombstones, Active, Running
<1>5. IsFiniteSet(DOMAIN f) /\ IsFiniteSet(Running(f)) /\ IsFiniteSet(T)
  <2>1. IsFiniteSet(DOMAIN f) /\ IsFiniteSet(Running(f))
    BY CeremoniesFinite
  <2>2. T \in SUBSET DOMAIN f
    BY <1>4
  <2> QED
    BY <2>1, <2>2, FS_Subset
<1>6. \A c \in T : c \in Nat /\ f[c].terminal \in Nat
  <2>1. \A c \in T : c \in 1 .. n /\ f[c] \in CeremonyRecord /\ f[c].terminal # None
    BY <1>4 DEF CeremoniesType, Handles, Running
  <2> QED
    BY <2>1 DEF CeremonyRecord, Instant
<1>7. TombstoneCapacity \in Nat /\ ActiveCapacity \in Nat
  BY PolicyAssumption DEF AuthPolicy
<1>8. /\ \A c \in T : newer[c] \subseteq T
      /\ \A c, d \in T : end[c] < end[d] \/ (end[c] = end[d] /\ c < d) => d \in newer[c]
  BY DEF Older
<1>9. Cardinality(few) <= TombstoneCapacity
  <2>1. /\ T \subseteq Nat /\ \A c \in T : end[c] \in Nat
        /\ few \in SUBSET T /\ \A c \in few : Cardinality(newer[c]) < TombstoneCapacity
    BY <1>6
  <2> HIDE DEF T, newer, end, few
  <2> QED
    BY <2>1, <1>5, <1>7, <1>8, FewNewest
<1>10. \A c \in T : Cardinality(newer[c]) \in Nat
  <2>1. \A c \in T : newer[c] \in SUBSET T
    OBVIOUS
  <2> QED
    BY <2>1, <1>5, FS_Subset, FS_CardinalityType
<1>11. DOMAIN f \ doomed = Running(f) \cup few
  <2>1. \A c \in T : c \in doomed <=> c \notin few
    BY <1>7, <1>10
  <2>2. doomed \subseteq T /\ few \subseteq T
    OBVIOUS
  <2> HIDE DEF T, doomed, few
  <2> QED
    BY <2>1, <2>2, <1>4
<1>12. /\ DOMAIN g = Running(f) \cup few
       /\ g = [c \in DOMAIN g |-> f[c]]
  BY <1>11 DEF Restrict
<1>13. few \subseteq DOMAIN f /\ IsFiniteSet(few) /\ Cardinality(few) \in Nat
  <2>1. few \in SUBSET T /\ few \subseteq DOMAIN f
    BY <1>4
  <2> QED
    BY <2>1, <1>5, FS_Subset, FS_CardinalityType
<1>14. DOMAIN g \subseteq DOMAIN f /\ \A c \in DOMAIN g : g[c] = f[c]
  BY <1>4, <1>12, <1>13
<1> HIDE DEF f, T, newer, end, doomed, few, g
<1>15. Cardinality(DOMAIN g) <= ActiveCapacity + TombstoneCapacity
  <2>1. /\ Cardinality(Running(f) \cup few) =
             Cardinality(Running(f)) + Cardinality(few) - Cardinality(Running(f) \cap few)
        /\ IsFiniteSet(Running(f) \cap few)
    <3>1. Running(f) \cap few \in SUBSET few
      OBVIOUS
    <3> QED
      BY <3>1, <1>5, <1>13, FS_Union, FS_Subset
  <2>2. Cardinality(Running(f) \cap few) \in Nat /\ Cardinality(Running(f)) \in Nat
    BY <2>1, <1>5, FS_CardinalityType
  <2>3. Cardinality(Running(f)) <= ActiveCapacity
    BY DEF f
  <2> QED
    BY <2>1, <2>2, <2>3, <1>7, <1>9, <1>12, <1>13
<1>16. Running(g) = Running(f)
  BY <1>12, <1>14 DEF Running
<1>17. CeremoniesType(g, n)
  <2>1. CeremoniesType(f, n)
    BY DEF f
  <2> QED
    BY <2>1, <1>12, <1>14 DEF CeremoniesType, Handles
<1>18. CeremoniesGood(g, n)
  <2>1. Cardinality(Running(f)) <= ActiveCapacity
    BY DEF f
  <2> QED
    BY <2>1, <1>15, <1>16, <1>17 DEF CeremoniesGood
<1> QED
  BY <1>3, <1>14, <1>18 DEF f

-----------------------------------------------------------------------------
(* The invariant of a store, and what a decision may do to it.             *)

Counts == [bootstraps : Nat, sessions : Nat, recoveries : Nat, stepUps : Nat,
           ceremonies : Nat, roots : Nat]

\* Before the installation there is nothing, afterwards every table is good.
StoreGood(s) ==
    /\ IsStore(s) /\ s.issued \in Counts
    /\ s.actor \in ActorRecord \cup {None}
    /\ s.actor = None => \A k \in DOMAIN s.issued : s.issued[k] = 0
    /\ RootsGood(s.roots, s.issued.roots)
    /\ BootstrapsGood(s.bootstraps, s.issued.bootstraps, s.roots, s.actor)
    /\ SessionsGood(s.sessions, s.issued.sessions, s.actor.epoch)
    /\ CodesGood(RecoveryRecord, s.recoveries, s.issued.recoveries, s.actor.epoch)
    /\ CodesGood(StepUpRecord, s.stepUps, s.issued.stepUps, s.actor.epoch)
    /\ GrantsGood(s.grants, s.issued.stepUps)
    /\ CeremoniesGood(s.ceremonies, s.issued.ceremonies)

\* Time, epochs and tables only go on.
Advance(s, t) ==
    /\ s.actor # None =>
          t.actor # None /\ s.actor.epoch <= t.actor.epoch /\ s.actor.observed <= t.actor.observed
    /\ RootsLater(s.roots, s.issued.roots, t.roots, t.issued.roots)
    /\ Later(s.bootstraps, s.issued.bootstraps, t.bootstraps, t.issued.bootstraps)
    /\ SessionsLater(s.sessions, s.issued.sessions, t.sessions, t.issued.sessions)
    /\ Later(s.recoveries, s.issued.recoveries, t.recoveries, t.issued.recoveries)
    /\ Later(s.stepUps, s.issued.stepUps, t.stepUps, t.issued.stepUps)
    /\ CeremoniesLater(s.ceremonies, s.issued.ceremonies, t.ceremonies, t.issued.ceremonies)

Step(s, t) == StoreGood(t) /\ Advance(s, t) /\ GrantsLater(s.grants, t.grants)

\* What was issued is counted.
LEMMA Counted ==
    ASSUME NEW s, StoreGood(s)
    PROVE  /\ s.issued.roots \in Nat /\ s.issued.bootstraps \in Nat /\ s.issued.sessions \in Nat
           /\ s.issued.recoveries \in Nat /\ s.issued.stepUps \in Nat
           /\ s.issued.ceremonies \in Nat
BY DEF StoreGood, Counts

\* The actor of an installation.
LEMMA ActorFields ==
    ASSUME NEW s, StoreGood(s), s.actor # None
    PROVE  /\ s.actor \in ActorRecord /\ s.actor.epoch \in Nat \ {0} /\ s.actor.observed \in Nat
           /\ s.actor.initialized \in BOOLEAN
BY DEF StoreGood, ActorRecord

\* A decision may leave everything alone.
LEMMA StepReflexive ==
    ASSUME NEW s, StoreGood(s)
    PROVE  Step(s, s)
<1>1. s.actor # None => s.actor.epoch <= s.actor.epoch /\ s.actor.observed <= s.actor.observed
  BY ActorFields
<1>2. /\ RootsLater(s.roots, s.issued.roots, s.roots, s.issued.roots)
      /\ CeremoniesLater(s.ceremonies, s.issued.ceremonies, s.ceremonies, s.issued.ceremonies)
  BY Counted DEF RootsLater, CeremoniesLater
<1>3. /\ Later(s.bootstraps, s.issued.bootstraps, s.bootstraps, s.issued.bootstraps)
      /\ Later(s.recoveries, s.issued.recoveries, s.recoveries, s.issued.recoveries)
      /\ Later(s.stepUps, s.issued.stepUps, s.stepUps, s.issued.stepUps)
      /\ SessionsLater(s.sessions, s.issued.sessions, s.sessions, s.issued.sessions)
  BY Counted DEF Later, SessionsLater
<1>4. GrantsLater(s.grants, s.grants)
  BY DEF GrantsLater
<1> QED
  BY <1>1, <1>2, <1>3, <1>4 DEF Step, Advance

\* Two steps of a table.
LEMMA LaterTwice ==
    ASSUME NEW f, NEW g, NEW k, NEW n \in Nat, NEW m \in Nat, NEW p \in Nat,
           Handles(k, p), Later(f, n, g, m), Later(g, m, k, p)
    PROVE  Later(f, n, k, p)
<1>1. \A h \in DOMAIN k : h \in Nat
  BY DEF Handles
<1>2. n <= m /\ m <= p
  BY DEF Later
<1>3. \A h \in DOMAIN k : h <= n => h <= m
  BY <1>1, <1>2
<1> QED
  BY <1>2, <1>3 DEF Later

\* Two steps of a store.
LEMMA AdvanceTwice ==
    ASSUME NEW s, NEW t, NEW u, StoreGood(s), StoreGood(t), StoreGood(u),
           Advance(s, t), Advance(t, u)
    PROVE  Advance(s, u)
<1>1. StoreGood(t) /\ StoreGood(u) /\ Advance(s, t) /\ Advance(t, u)
  OBVIOUS
<1>2. /\ Handles(u.bootstraps, u.issued.bootstraps) /\ Handles(u.sessions, u.issued.sessions)
      /\ Handles(u.recoveries, u.issued.recoveries) /\ Handles(u.stepUps, u.issued.stepUps)
      /\ Handles(u.ceremonies, u.issued.ceremonies) /\ RootsGood(u.roots, u.issued.roots)
  BY <1>1 DEF StoreGood, BootstrapsGood, SessionsGood, CodesGood, CeremoniesGood, CeremoniesType
<1>3. s.actor # None =>
         u.actor # None /\ s.actor.epoch <= u.actor.epoch /\ s.actor.observed <= u.actor.observed
  <2> SUFFICES ASSUME s.actor # None
               PROVE  u.actor # None /\ s.actor.epoch <= u.actor.epoch
                      /\ s.actor.observed <= u.actor.observed
    OBVIOUS
  <2>1. t.actor # None /\ u.actor # None /\ s.actor.epoch <= t.actor.epoch
        /\ t.actor.epoch <= u.actor.epoch /\ s.actor.observed <= t.actor.observed
        /\ t.actor.observed <= u.actor.observed
    BY <1>1 DEF Advance
  <2>2. {s.actor.epoch, t.actor.epoch, u.actor.epoch, s.actor.observed, t.actor.observed,
         u.actor.observed} \subseteq Nat
    BY <1>1, <2>1, ActorFields
  <2> QED
    BY <2>1, <2>2
<1>4. /\ Later(s.bootstraps, s.issued.bootstraps, u.bootstraps, u.issued.bootstraps)
      /\ Later(s.sessions, s.issued.sessions, u.sessions, u.issued.sessions)
      /\ Later(s.recoveries, s.issued.recoveries, u.recoveries, u.issued.recoveries)
      /\ Later(s.stepUps, s.issued.stepUps, u.stepUps, u.issued.stepUps)
  BY <1>1, <1>2, Counted, LaterTwice DEF Advance, SessionsLater
<1>5. SessionsLater(s.sessions, s.issued.sessions, u.sessions, u.issued.sessions)
  <2>1. \A h \in DOMAIN u.sessions : h \in Nat
    BY <1>2 DEF Handles
  <2>2. SessionsLater(s.sessions, s.issued.sessions, t.sessions, t.issued.sessions)
        /\ SessionsLater(t.sessions, t.issued.sessions, u.sessions, u.issued.sessions)
        /\ s.issued.sessions \in Nat /\ t.issued.sessions \in Nat
    BY <1>1, Counted DEF Advance
  <2>3. \A h \in DOMAIN u.sessions : h <= s.issued.sessions =>
           h <= t.issued.sessions /\ h \in DOMAIN t.sessions
    BY <2>1, <2>2 DEF SessionsLater, Later
  <2> QED
    BY <1>4, <2>2, <2>3 DEF SessionsLater
<1>6. CeremoniesLater(s.ceremonies, s.issued.ceremonies, u.ceremonies, u.issued.ceremonies)
  <2>1. \A h \in DOMAIN u.ceremonies : h \in Nat
    BY <1>2 DEF Handles
  <2>2. /\ CeremoniesLater(s.ceremonies, s.issued.ceremonies, t.ceremonies, t.issued.ceremonies)
        /\ CeremoniesLater(t.ceremonies, t.issued.ceremonies, u.ceremonies, u.issued.ceremonies)
        /\ {s.issued.ceremonies, t.issued.ceremonies, u.issued.ceremonies} \subseteq Nat
    BY <1>1, Counted DEF Advance
  <2>3. s.issued.ceremonies <= t.issued.ceremonies /\ t.issued.ceremonies <= u.issued.ceremonies
    BY <2>2 DEF CeremoniesLater
  <2>4. \A h \in DOMAIN u.ceremonies : h <= s.issued.ceremonies => h <= t.issued.ceremonies
    BY <2>1, <2>2, <2>3
  <2>5. s.issued.ceremonies <= u.issued.ceremonies
    BY <2>2, <2>3
  <2> QED
    BY <2>2, <2>4, <2>5 DEF CeremoniesLater
<1>7. RootsLater(s.roots, s.issued.roots, u.roots, u.issued.roots)
  <2>1. \A r \in DOMAIN u.roots : r.number \in Nat
    BY <1>2 DEF RootsGood, Root
  <2>2. /\ RootsLater(s.roots, s.issued.roots, t.roots, t.issued.roots)
        /\ RootsLater(t.roots, t.issued.roots, u.roots, u.issued.roots)
        /\ {s.issued.roots, t.issued.roots, u.issued.roots} \subseteq Nat
    BY <1>1, Counted DEF Advance
  <2>3. s.issued.roots <= t.issued.roots /\ t.issued.roots <= u.issued.roots
    BY <2>2 DEF RootsLater
  <2>4. \A r \in DOMAIN u.roots : r.number <= s.issued.roots => r.number <= t.issued.roots
    BY <2>1, <2>2, <2>3
  <2>5. s.issued.roots <= u.issued.roots
    BY <2>2, <2>3
  <2> QED
    BY <2>2, <2>4, <2>5 DEF RootsLater
<1> QED
  BY <1>3, <1>4, <1>5, <1>6, <1>7 DEF Advance

\* Two steps of a store.
LEMMA StepTwice ==
    ASSUME NEW s, NEW t, NEW u, StoreGood(s), Step(s, t), Step(t, u)
    PROVE  Step(s, u)
<1>1. GrantsLater(s.grants, u.grants)
  BY DEF Step, GrantsLater
<1> QED
  BY <1>1, AdvanceTwice DEF Step

-----------------------------------------------------------------------------
(* The operators on stores: each is a step.                                *)

Kind == {"bootstraps", "sessions", "recoveries", "stepUps", "ceremonies", "roots"}

\* One more of a kind is issued.
LEMMA CountedUp ==
    ASSUME NEW c \in Counts, NEW k \in Kind, NEW z, z = [c EXCEPT ![k] = c[k] + 1]
    PROVE  z \in Counts /\ \A j \in Kind : z[j] = IF j = k THEN c[j] + 1 ELSE c[j]
BY DEF Counts, Kind

\* Expiries are instants.
LEMMA ExpiryNat ==
    \A now \in Nat, ttl \in {BootstrapTTL, SessionTTL, StepUpTTL, RecoveryTTL} :
        Expiry(now, ttl) \in Nat
BY PolicyAssumption DEF AuthPolicy, Expiry

\* The clock is observed.
LEMMA ObservedStep ==
    ASSUME NEW s, StoreGood(s), s.actor # None, NEW now \in Nat, ~RolledBack(s, now),
           NEW t, t = Observed(s, now)
    PROVE  /\ Step(s, t) /\ Same(s, t, {"actor"})
           /\ t.actor # None /\ t.actor.epoch = s.actor.epoch
           /\ t.actor.initialized = s.actor.initialized /\ t.actor.observed = now
<1>1. Same(s, t, {"actor"}) /\ t.actor = [s.actor EXCEPT !.observed = now]
  BY ObservedFields DEF StoreGood
<1>2. /\ s.actor \in ActorRecord /\ s.actor.epoch \in Nat \ {0} /\ s.actor.observed \in Nat
  BY ActorFields
<1>3. /\ t.actor \in ActorRecord /\ t.actor.epoch = s.actor.epoch
      /\ t.actor.initialized = s.actor.initialized /\ t.actor.observed = now
  BY <1>1, <1>2 DEF ActorRecord
<1>4. t.actor # None /\ s.actor.epoch <= t.actor.epoch /\ s.actor.observed <= t.actor.observed
  BY <1>2, <1>3, NoneAssumption DEF RolledBack
<1>5. /\ IsStore(t) /\ t.roots = s.roots /\ t.bootstraps = s.bootstraps
      /\ t.sessions = s.sessions /\ t.recoveries = s.recoveries /\ t.stepUps = s.stepUps
      /\ t.grants = s.grants /\ t.ceremonies = s.ceremonies /\ t.issued = s.issued
  BY <1>1 DEF Same, Field
<1>6. BootstrapsGood(t.bootstraps, t.issued.bootstraps, t.roots, t.actor)
  <2>1. BootstrapsGood(s.bootstraps, s.issued.bootstraps, s.roots, s.actor)
        /\ Serve(s.roots, s.roots)
    BY DEF StoreGood, Serve
  <2> QED
    BY <2>1, <1>3, <1>5, BootstrapsStand
<1>7. StoreGood(t)
  BY <1>3, <1>4, <1>5, <1>6 DEF StoreGood
<1>8. Advance(s, t) /\ GrantsLater(s.grants, t.grants)
  BY <1>4, <1>5, StepReflexive DEF Step, Advance
<1> QED
  BY <1>1, <1>3, <1>4, <1>7, <1>8 DEF Step

\* A session is issued.
LEMMA IssueSessionStep ==
    ASSUME NEW s, StoreGood(s), s.actor # None, NEW now \in Nat, NEW t, t = IssueSession(s, now)
    PROVE  Step(s, t) /\ Same(s, t, {"sessions", "issued"}) /\ t.issued.roots = s.issued.roots
<1>1. /\ Same(s, t, {"sessions", "issued"})
      /\ t.sessions = Put(s.sessions, s.issued.sessions + 1,
                          [epoch |-> s.actor.epoch, expires |-> Expiry(now, SessionTTL),
                           retired |-> None])
      /\ t.issued = [s.issued EXCEPT !.sessions = s.issued.sessions + 1]
  BY IssueSessionFields DEF StoreGood
<1>2. s.issued \in Counts /\ "sessions" \in Kind /\ s.issued.sessions \in Nat
  BY Counted DEF StoreGood, Kind
<1>3. /\ t.issued \in Counts /\ t.issued.sessions = s.issued.sessions + 1
      /\ t.issued.bootstraps = s.issued.bootstraps /\ t.issued.recoveries = s.issued.recoveries
      /\ t.issued.stepUps = s.issued.stepUps /\ t.issued.ceremonies = s.issued.ceremonies
      /\ t.issued.roots = s.issued.roots
  BY <1>1, <1>2, CountedUp DEF Kind
<1>4. /\ IsStore(t) /\ t.actor = s.actor /\ t.roots = s.roots /\ t.bootstraps = s.bootstraps
      /\ t.recoveries = s.recoveries /\ t.stepUps = s.stepUps
      /\ t.grants = s.grants /\ t.ceremonies = s.ceremonies
  BY <1>1 DEF Same, Field
<1>5. s.actor.epoch \in Nat \ {0} /\ Expiry(now, SessionTTL) \in Nat
  BY ActorFields, ExpiryNat
<1>6. /\ SessionsGood(t.sessions, t.issued.sessions, t.actor.epoch)
      /\ SessionsLater(s.sessions, s.issued.sessions, t.sessions, t.issued.sessions)
  BY <1>1, <1>2, <1>3, <1>4, <1>5, SessionsPut DEF StoreGood
<1>7. StoreGood(t)
  BY <1>3, <1>4, <1>6 DEF StoreGood
<1>8. Advance(s, t) /\ GrantsLater(s.grants, t.grants)
  BY <1>3, <1>4, <1>6, StepReflexive DEF Step, Advance
<1> QED
  BY <1>1, <1>3, <1>7, <1>8 DEF Step

\* A recovery code is issued.
LEMMA IssueRecoveryStep ==
    ASSUME NEW s, StoreGood(s), s.actor # None, NEW now \in Nat, NEW t, t = IssueRecovery(s, now)
    PROVE  Step(s, t) /\ Same(s, t, {"recoveries", "issued"}) /\ t.issued.roots = s.issued.roots
<1> DEFINE v == [epoch |-> s.actor.epoch, expires |-> Expiry(now, RecoveryTTL),
                 attempts |-> MaxAttempts, retired |-> None]
<1>1. /\ Same(s, t, {"recoveries", "issued"})
      /\ t.recoveries = Put(s.recoveries, s.issued.recoveries + 1, v)
      /\ t.issued = [s.issued EXCEPT !.recoveries = s.issued.recoveries + 1]
  BY IssueRecoveryFields DEF StoreGood
<1>2. s.issued \in Counts /\ "recoveries" \in Kind /\ s.issued.recoveries \in Nat
  BY Counted DEF StoreGood, Kind
<1>3. /\ t.issued \in Counts /\ t.issued.recoveries = s.issued.recoveries + 1
      /\ t.issued.bootstraps = s.issued.bootstraps /\ t.issued.sessions = s.issued.sessions
      /\ t.issued.stepUps = s.issued.stepUps /\ t.issued.ceremonies = s.issued.ceremonies
      /\ t.issued.roots = s.issued.roots
  BY <1>1, <1>2, CountedUp DEF Kind
<1>4. /\ IsStore(t) /\ t.actor = s.actor /\ t.roots = s.roots /\ t.bootstraps = s.bootstraps
      /\ t.sessions = s.sessions /\ t.stepUps = s.stepUps
      /\ t.grants = s.grants /\ t.ceremonies = s.ceremonies
  BY <1>1 DEF Same, Field
<1>5. /\ s.actor.epoch \in Nat \ {0} /\ Expiry(now, RecoveryTTL) \in Nat
      /\ MaxAttempts \in 0 .. MaxAttempts
  BY ActorFields, ExpiryNat, PolicyAssumption DEF AuthPolicy
<1>6. v \in RecoveryRecord /\ v.epoch = s.actor.epoch /\ v.attempts = MaxAttempts
      /\ RecoveryRecord \in OwnCode
  BY <1>5 DEF RecoveryRecord, Instant, OwnCode
<1> HIDE DEF v
<1>7. /\ CodesGood(RecoveryRecord, t.recoveries, t.issued.recoveries, t.actor.epoch)
      /\ Later(s.recoveries, s.issued.recoveries, t.recoveries, t.issued.recoveries)
  BY <1>1, <1>2, <1>3, <1>4, <1>6, CodesPut DEF StoreGood
<1>8. StoreGood(t)
  BY <1>3, <1>4, <1>7 DEF StoreGood
<1>9. Advance(s, t) /\ GrantsLater(s.grants, t.grants)
  BY <1>3, <1>4, <1>7, StepReflexive DEF Step, Advance
<1> QED
  BY <1>1, <1>3, <1>8, <1>9 DEF Step

\* A root is issued.
LEMMA IssueRootStep ==
    ASSUME NEW s, StoreGood(s), s.actor # None, NEW purpose \in RootPurpose,
           NEW t, t = IssueRoot(s, purpose)
    PROVE  /\ Step(s, t) /\ Same(s, t, {"roots", "issued"})
           /\ t.roots = Put(s.roots, [purpose |-> purpose, number |-> s.issued.roots + 1], None)
<1>1. /\ Same(s, t, {"roots", "issued"})
      /\ t.roots = Put(s.roots, [purpose |-> purpose, number |-> s.issued.roots + 1], None)
      /\ t.issued = [s.issued EXCEPT !.roots = s.issued.roots + 1]
  BY IssueRootFields DEF StoreGood
<1>2. s.issued \in Counts /\ "roots" \in Kind /\ s.issued.roots \in Nat
  BY Counted DEF StoreGood, Kind
<1>3. /\ t.issued \in Counts /\ t.issued.roots = s.issued.roots + 1
      /\ t.issued.bootstraps = s.issued.bootstraps /\ t.issued.sessions = s.issued.sessions
      /\ t.issued.stepUps = s.issued.stepUps /\ t.issued.ceremonies = s.issued.ceremonies
      /\ t.issued.recoveries = s.issued.recoveries
  BY <1>1, <1>2, CountedUp DEF Kind
<1>4. /\ IsStore(t) /\ t.actor = s.actor /\ t.bootstraps = s.bootstraps
      /\ t.sessions = s.sessions /\ t.recoveries = s.recoveries /\ t.stepUps = s.stepUps
      /\ t.grants = s.grants /\ t.ceremonies = s.ceremonies
  BY <1>1 DEF Same, Field
<1>5. /\ RootsGood(t.roots, t.issued.roots) /\ Serve(s.roots, t.roots)
      /\ RootsLater(s.roots, s.issued.roots, t.roots, t.issued.roots)
  <2>1. RootsGood(s.roots, s.issued.roots)
    BY DEF StoreGood
  <2> DEFINE n == s.issued.roots
             g == Put(s.roots, [purpose |-> purpose, number |-> n + 1], None)
  <2>2. RootsGood(g, n + 1) /\ RootsLater(s.roots, n, g, n + 1) /\ Serve(s.roots, g)
    <3> HIDE DEF n
    <3>1. n \in Nat /\ RootsGood(s.roots, n)
      BY <2>1, <1>2 DEF n
    <3> QED
      BY <3>1, RootsPut
  <2>3. t.roots = g /\ t.issued.roots = n + 1
    BY <1>1, <1>3
  <2> HIDE DEF g
  <2> QED
    BY <2>2, <2>3
<1>6. BootstrapsGood(t.bootstraps, t.issued.bootstraps, t.roots, t.actor)
  BY <1>3, <1>4, <1>5, BootstrapsStand DEF StoreGood
<1>7. StoreGood(t)
  BY <1>3, <1>4, <1>5, <1>6 DEF StoreGood
<1>8. Advance(s, t) /\ GrantsLater(s.grants, t.grants)
  BY <1>3, <1>4, <1>5, StepReflexive DEF Step, Advance
<1> QED
  BY <1>1, <1>7, <1>8 DEF Step

\* A bootstrap is issued that stands.
LEMMA IssueBootstrapStep ==
    ASSUME NEW s, StoreGood(s), s.actor # None, NEW root \in Root \cup {None}, NEW now \in Nat,
           root # None =>
              /\ root \in DOMAIN s.roots /\ s.roots[root] = None
              /\ \/ root.purpose = "REPROVISION" /\ s.actor.initialized = TRUE
                 \/ root.purpose = "INITIAL_BOOTSTRAP" /\ s.actor.initialized = FALSE,
           NEW t, t = IssueBootstrap(s, root, now)
    PROVE  Step(s, t) /\ Same(s, t, {"bootstraps", "issued"})
<1> DEFINE v == [root |-> root, expires |-> Expiry(now, BootstrapTTL),
                 attempts |-> MaxAttempts, retired |-> None]
<1>1. /\ Same(s, t, {"bootstraps", "issued"})
      /\ t.bootstraps = Put(Retire(s.bootstraps,
                                   {h \in DOMAIN s.bootstraps : s.bootstraps[h].retired = None},
                                   now), s.issued.bootstraps + 1, v)
      /\ t.issued = [s.issued EXCEPT !.bootstraps = s.issued.bootstraps + 1]
  <2>1. IsStore(s)
    BY DEF StoreGood
  <2> QED
    BY <2>1, IssueBootstrapFields
<1>2. s.issued \in Counts /\ "bootstraps" \in Kind /\ s.issued.bootstraps \in Nat
  BY Counted DEF StoreGood, Kind
<1>3. /\ t.issued \in Counts /\ t.issued.bootstraps = s.issued.bootstraps + 1
      /\ t.issued.roots = s.issued.roots /\ t.issued.sessions = s.issued.sessions
      /\ t.issued.stepUps = s.issued.stepUps /\ t.issued.ceremonies = s.issued.ceremonies
      /\ t.issued.recoveries = s.issued.recoveries
  BY <1>1, <1>2, CountedUp DEF Kind
<1>4. /\ IsStore(t) /\ t.actor = s.actor /\ t.roots = s.roots
      /\ t.sessions = s.sessions /\ t.recoveries = s.recoveries /\ t.stepUps = s.stepUps
      /\ t.grants = s.grants /\ t.ceremonies = s.ceremonies
  BY <1>1 DEF Same, Field
<1>5. /\ Expiry(now, BootstrapTTL) \in Nat /\ MaxAttempts \in 0 .. MaxAttempts
      /\ MaxAttempts >= 1
  BY ExpiryNat, PolicyAssumption DEF AuthPolicy
<1>6. v \in BootstrapRecord /\ v.root = root /\ v.attempts = MaxAttempts
  BY <1>5 DEF BootstrapRecord, Instant
<1> HIDE DEF v
<1>7. Stands(v, s.roots, s.actor)
  BY <1>5, <1>6 DEF Stands
<1>8. /\ BootstrapsGood(t.bootstraps, t.issued.bootstraps, t.roots, t.actor)
      /\ Later(s.bootstraps, s.issued.bootstraps, t.bootstraps, t.issued.bootstraps)
  BY <1>1, <1>2, <1>3, <1>4, <1>6, <1>7, BootstrapsIssue DEF StoreGood
<1>9. StoreGood(t)
  BY <1>3, <1>4, <1>8 DEF StoreGood
<1>10. Advance(s, t) /\ GrantsLater(s.grants, t.grants)
  BY <1>3, <1>4, <1>8, StepReflexive DEF Step, Advance
<1> QED
  BY <1>1, <1>9, <1>10 DEF Step

\* A step of the bootstraps.
LEMMA BootstrapsChange ==
    ASSUME NEW s, StoreGood(s), NEW t, Same(s, t, {"bootstraps"}),
           BootstrapsGood(t.bootstraps, s.issued.bootstraps, s.roots, s.actor),
           Later(s.bootstraps, s.issued.bootstraps, t.bootstraps, s.issued.bootstraps)
    PROVE  Step(s, t)
<1>1. /\ IsStore(t) /\ t.actor = s.actor /\ t.roots = s.roots
      /\ t.sessions = s.sessions /\ t.recoveries = s.recoveries /\ t.stepUps = s.stepUps
      /\ t.grants = s.grants /\ t.ceremonies = s.ceremonies /\ t.issued = s.issued
  BY DEF Same, Field
<1>2. StoreGood(t)
  BY <1>1 DEF StoreGood
<1>3. Advance(s, t) /\ GrantsLater(s.grants, t.grants)
  BY <1>1, StepReflexive DEF Step, Advance
<1> QED
  BY <1>2, <1>3 DEF Step

\* A step of the recovery codes.
LEMMA RecoveriesChange ==
    ASSUME NEW s, StoreGood(s), NEW t, Same(s, t, {"recoveries"}),
           CodesGood(RecoveryRecord, t.recoveries, s.issued.recoveries, s.actor.epoch),
           Later(s.recoveries, s.issued.recoveries, t.recoveries, s.issued.recoveries)
    PROVE  Step(s, t)
<1>1. /\ IsStore(t) /\ t.actor = s.actor /\ t.roots = s.roots /\ t.bootstraps = s.bootstraps
      /\ t.sessions = s.sessions /\ t.stepUps = s.stepUps
      /\ t.grants = s.grants /\ t.ceremonies = s.ceremonies /\ t.issued = s.issued
  BY DEF Same, Field
<1>2. StoreGood(t)
  BY <1>1 DEF StoreGood
<1>3. Advance(s, t) /\ GrantsLater(s.grants, t.grants)
  BY <1>1, StepReflexive DEF Step, Advance
<1> QED
  BY <1>2, <1>3 DEF Step

\* A step of the step-ups.
LEMMA StepUpsChange ==
    ASSUME NEW s, StoreGood(s), NEW t, Same(s, t, {"stepUps"}),
           CodesGood(StepUpRecord, t.stepUps, s.issued.stepUps, s.actor.epoch),
           Later(s.stepUps, s.issued.stepUps, t.stepUps, s.issued.stepUps)
    PROVE  Step(s, t)
<1>1. /\ IsStore(t) /\ t.actor = s.actor /\ t.roots = s.roots /\ t.bootstraps = s.bootstraps
      /\ t.sessions = s.sessions /\ t.recoveries = s.recoveries
      /\ t.grants = s.grants /\ t.ceremonies = s.ceremonies /\ t.issued = s.issued
  BY DEF Same, Field
<1>2. StoreGood(t)
  BY <1>1 DEF StoreGood
<1>3. Advance(s, t) /\ GrantsLater(s.grants, t.grants)
  BY <1>1, StepReflexive DEF Step, Advance
<1> QED
  BY <1>2, <1>3 DEF Step

\* A step of the ceremonies.
LEMMA CeremoniesChange ==
    ASSUME NEW s, StoreGood(s), NEW t, Same(s, t, {"ceremonies"}),
           CeremoniesGood(t.ceremonies, s.issued.ceremonies),
           CeremoniesLater(s.ceremonies, s.issued.ceremonies, t.ceremonies, s.issued.ceremonies)
    PROVE  Step(s, t)
<1>1. /\ IsStore(t) /\ t.actor = s.actor /\ t.roots = s.roots /\ t.bootstraps = s.bootstraps
      /\ t.sessions = s.sessions /\ t.recoveries = s.recoveries /\ t.stepUps = s.stepUps
      /\ t.grants = s.grants /\ t.issued = s.issued
  BY DEF Same, Field
<1>2. StoreGood(t)
  BY <1>1 DEF StoreGood
<1>3. Advance(s, t) /\ GrantsLater(s.grants, t.grants)
  BY <1>1, StepReflexive DEF Step, Advance
<1> QED
  BY <1>2, <1>3 DEF Step

\* The recovery codes are consumed.
LEMMA ConsumeRecoveriesStep ==
    ASSUME NEW s, StoreGood(s), NEW now \in Nat, NEW t, t = ConsumeRecoveries(s, now)
    PROVE  /\ Step(s, t) /\ Same(s, t, {"recoveries"})
           /\ \A h \in 1 .. s.issued.recoveries : Over(t.recoveries, s.issued.recoveries, h)
<1>1. IsStore(s) /\ CodesGood(RecoveryRecord, s.recoveries, s.issued.recoveries, s.actor.epoch)
      /\ RecoveryRecord \in OwnCode /\ s.issued.recoveries \in Nat
  BY Counted DEF StoreGood, OwnCode
<1>2. Same(s, t, {"recoveries"}) /\ t.recoveries = RetireAll(s.recoveries, now)
  BY <1>1, ConsumeRecoveriesFields
<1>3. /\ CodesGood(RecoveryRecord, t.recoveries, s.issued.recoveries, s.actor.epoch)
      /\ Later(s.recoveries, s.issued.recoveries, t.recoveries, s.issued.recoveries)
      /\ \A h \in 1 .. s.issued.recoveries : Over(t.recoveries, s.issued.recoveries, h)
  BY <1>1, <1>2, CodesRetireAll
<1> QED
  BY <1>2, <1>3, RecoveriesChange

\* The epoch advances.
LEMMA NextEpochStep ==
    ASSUME NEW s, StoreGood(s), s.actor # None, NEW now \in Nat, NEW t, t = NextEpoch(s, now)
    PROVE  /\ Step(s, t) /\ Same(s, t, {"actor", "sessions", "recoveries", "stepUps"})
           /\ t.actor # None /\ t.actor.initialized = s.actor.initialized
           /\ t.actor.observed = s.actor.observed
<1>1. IsStore(s) /\ CodesGood(RecoveryRecord, s.recoveries, s.issued.recoveries, s.actor.epoch)
      /\ CodesGood(StepUpRecord, s.stepUps, s.issued.stepUps, s.actor.epoch)
      /\ SessionsGood(s.sessions, s.issued.sessions, s.actor.epoch)
      /\ RecoveryRecord \in OwnCode /\ StepUpRecord \in OwnCode /\ s.issued.recoveries \in Nat
      /\ s.issued.stepUps \in Nat /\ s.issued.sessions \in Nat
  BY Counted DEF StoreGood, OwnCode
<1>2. /\ Same(s, t, {"actor", "sessions", "recoveries", "stepUps"})
      /\ t.actor = [s.actor EXCEPT !.epoch = s.actor.epoch + 1]
      /\ t.sessions = RetireAll(s.sessions, now)
      /\ t.recoveries = RetireAll(s.recoveries, now)
      /\ t.stepUps = RetireAll(s.stepUps, now)
  BY <1>1, NextEpochFields
<1>3. /\ s.actor \in ActorRecord /\ s.actor.epoch \in Nat \ {0} /\ s.actor.observed \in Nat
  BY ActorFields
<1>4. /\ t.actor \in ActorRecord /\ t.actor.epoch = s.actor.epoch + 1
      /\ t.actor.initialized = s.actor.initialized /\ t.actor.observed = s.actor.observed
  BY <1>2, <1>3 DEF ActorRecord
<1>5. t.actor # None /\ s.actor.epoch <= t.actor.epoch /\ s.actor.observed <= t.actor.observed
  BY <1>3, <1>4, NoneAssumption
<1>6. /\ IsStore(t) /\ t.roots = s.roots /\ t.bootstraps = s.bootstraps
      /\ t.grants = s.grants /\ t.ceremonies = s.ceremonies /\ t.issued = s.issued
  BY <1>2 DEF Same, Field
<1>7. /\ SessionsGood(t.sessions, t.issued.sessions, t.actor.epoch)
      /\ SessionsLater(s.sessions, s.issued.sessions, t.sessions, t.issued.sessions)
  BY <1>1, <1>2, <1>3, <1>4, <1>6, SessionsRetireAll
<1>8. /\ CodesGood(RecoveryRecord, t.recoveries, t.issued.recoveries, t.actor.epoch)
      /\ Later(s.recoveries, s.issued.recoveries, t.recoveries, t.issued.recoveries)
  <2>1. /\ t.recoveries = RetireAll(s.recoveries, now) /\ t.issued.recoveries = s.issued.recoveries
        /\ CodesGood(RecoveryRecord, s.recoveries, s.issued.recoveries, s.actor.epoch)
        /\ s.issued.recoveries \in Nat /\ RecoveryRecord \in OwnCode
    BY <1>1, <1>2, <1>6
  <2> QED
    BY <2>1, CodesRetireAll
<1>9. /\ CodesGood(StepUpRecord, t.stepUps, t.issued.stepUps, t.actor.epoch)
      /\ Later(s.stepUps, s.issued.stepUps, t.stepUps, t.issued.stepUps)
  <2>1. /\ t.stepUps = RetireAll(s.stepUps, now) /\ t.issued.stepUps = s.issued.stepUps
        /\ CodesGood(StepUpRecord, s.stepUps, s.issued.stepUps, s.actor.epoch)
        /\ s.issued.stepUps \in Nat /\ StepUpRecord \in OwnCode
    BY <1>1, <1>2, <1>6
  <2> QED
    BY <2>1, CodesRetireAll
<1>10. BootstrapsGood(t.bootstraps, t.issued.bootstraps, t.roots, t.actor)
  <2>1. BootstrapsGood(s.bootstraps, s.issued.bootstraps, s.roots, s.actor)
        /\ Serve(s.roots, s.roots)
    BY DEF StoreGood, Serve
  <2> QED
    BY <2>1, <1>4, <1>6, BootstrapsStand
<1>11. StoreGood(t)
  BY <1>4, <1>5, <1>6, <1>7, <1>8, <1>9, <1>10 DEF StoreGood
<1>12. Advance(s, t) /\ GrantsLater(s.grants, t.grants)
  BY <1>5, <1>6, <1>7, <1>8, <1>9, StepReflexive DEF Step, Advance
<1> QED
  BY <1>2, <1>4, <1>5, <1>11, <1>12 DEF Step

\* A session ends.
LEMMA EndSessionStep ==
    ASSUME NEW s, StoreGood(s), NEW h \in DOMAIN s.sessions, NEW now \in Nat,
           NEW t, t = EndSession(s, h, now)
    PROVE  /\ Step(s, t) /\ Same(s, t, {"sessions", "stepUps"})
           /\ Over(t.sessions, t.issued.sessions, h)
<1>1. IsStore(s) /\ CodesGood(StepUpRecord, s.stepUps, s.issued.stepUps, s.actor.epoch)
      /\ SessionsGood(s.sessions, s.issued.sessions, s.actor.epoch)
      /\ StepUpRecord \in OwnCode /\ s.issued.stepUps \in Nat /\ s.issued.sessions \in Nat
  BY Counted DEF StoreGood, OwnCode
<1> DEFINE H == {c \in DOMAIN s.stepUps : s.stepUps[c].session = h}
<1>2. /\ Same(s, t, {"sessions", "stepUps"})
      /\ t.sessions = Retire(s.sessions, {h}, now)
      /\ t.stepUps = Retire(s.stepUps, H, now)
  <2>1. IsStore(s)
    BY <1>1
  <2> QED
    BY <2>1 DEF IsStore, Same, Field, EndSession
<1> HIDE DEF H
<1>3. /\ IsStore(t) /\ t.actor = s.actor /\ t.roots = s.roots /\ t.bootstraps = s.bootstraps
      /\ t.recoveries = s.recoveries
      /\ t.grants = s.grants /\ t.ceremonies = s.ceremonies /\ t.issued = s.issued
  BY <1>2 DEF Same, Field
<1>4. h \in 1 .. s.issued.sessions
  BY <1>1 DEF SessionsGood, Handles
<1>5. /\ SessionsGood(t.sessions, t.issued.sessions, t.actor.epoch)
      /\ SessionsLater(s.sessions, s.issued.sessions, t.sessions, t.issued.sessions)
      /\ Over(t.sessions, t.issued.sessions, h)
  BY <1>1, <1>2, <1>3, <1>4, SessionsRetire
<1>6. /\ CodesGood(StepUpRecord, t.stepUps, t.issued.stepUps, t.actor.epoch)
      /\ Later(s.stepUps, s.issued.stepUps, t.stepUps, t.issued.stepUps)
  BY <1>1, <1>2, <1>3, CodesRetire
<1>7. StoreGood(t)
  BY <1>3, <1>5, <1>6 DEF StoreGood
<1>8. Advance(s, t) /\ GrantsLater(s.grants, t.grants)
  BY <1>3, <1>5, <1>6, StepReflexive DEF Step, Advance
<1> QED
  BY <1>2, <1>5, <1>7, <1>8 DEF Step

\* A grant is marked.
LEMMA GrantUsedStep ==
    ASSUME NEW s, StoreGood(s), NEW e \in DOMAIN s.grants, NEW t, t = GrantUsed(s, e)
    PROVE  /\ Step(s, t) /\ Same(s, t, {"grants"})
           /\ t.grants[e].used = TRUE
<1>1. IsStore(s) /\ GrantsGood(s.grants, s.issued.stepUps)
  BY DEF StoreGood
<1> DEFINE g == [s.grants EXCEPT ![e] = [s.grants[e] EXCEPT !.used = TRUE]]
<1>2. Same(s, t, {"grants"}) /\ t.grants = g
  BY <1>1, GrantUsedFields
<1>3. GrantsGood(g, s.issued.stepUps) /\ GrantsLater(s.grants, g) /\ g[e].used = TRUE
  BY <1>1, GrantsUsed
<1> HIDE DEF g
<1>4. /\ IsStore(t) /\ t.actor = s.actor /\ t.roots = s.roots /\ t.bootstraps = s.bootstraps
      /\ t.sessions = s.sessions /\ t.recoveries = s.recoveries /\ t.stepUps = s.stepUps
      /\ t.ceremonies = s.ceremonies /\ t.issued = s.issued
  BY <1>2 DEF Same, Field
<1>5. StoreGood(t)
  BY <1>2, <1>3, <1>4 DEF StoreGood
<1>6. Advance(s, t)
  BY <1>4, StepReflexive DEF Step, Advance
<1> QED
  BY <1>2, <1>3, <1>5, <1>6 DEF Step

\* Ceremonies are collected.
LEMMA GcCeremoniesStep ==
    ASSUME NEW s, StoreGood(s), NEW now \in Nat, NEW t, t = GcCeremonies(s, now)
    PROVE  /\ Step(s, t) /\ Same(s, t, {"ceremonies"})
           /\ DOMAIN t.ceremonies \subseteq DOMAIN s.ceremonies
           /\ \A c \in DOMAIN t.ceremonies :
                 /\ t.ceremonies[c].terminal = None => s.ceremonies[c].terminal = None
                 /\ t.ceremonies[c].bootstrap = s.ceremonies[c].bootstrap
<1>1. IsStore(s) /\ CeremoniesGood(s.ceremonies, s.issued.ceremonies)
      /\ CeremoniesType(s.ceremonies, s.issued.ceremonies) /\ s.issued.ceremonies \in Nat
  BY Counted DEF StoreGood, CeremoniesGood
<1>2. Same(s, t, {"ceremonies"}) /\ t.ceremonies = Swept(s.ceremonies, now)
  BY <1>1, GcCeremoniesFields
<1>3. /\ CeremoniesType(t.ceremonies, s.issued.ceremonies)
      /\ DOMAIN t.ceremonies \subseteq DOMAIN s.ceremonies
      /\ \A c \in DOMAIN t.ceremonies :
            /\ t.ceremonies[c].terminal = None => s.ceremonies[c].terminal = None
            /\ t.ceremonies[c].bootstrap = s.ceremonies[c].bootstrap
  BY <1>1, <1>2, SweptFacts
<1>4. /\ CeremoniesGood(t.ceremonies, s.issued.ceremonies)
      /\ CeremoniesLater(s.ceremonies, s.issued.ceremonies, t.ceremonies, s.issued.ceremonies)
  BY <1>1, <1>3, CeremoniesShrink
<1> QED
  BY <1>2, <1>3, <1>4, CeremoniesChange

-----------------------------------------------------------------------------
(* Decisions.                                                              *)

\* The credential x may be used, in the store s.
Usable(s, x) ==
    \/ x[1] = "bootstrap" /\ x[2] \in DOMAIN s.bootstraps /\ s.bootstraps[x[2]].retired = None
    \/ x[1] = "session" /\ x[2] \in DOMAIN s.sessions /\ s.sessions[x[2]].retired = None
    \/ x[1] = "recovery" /\ x[2] \in DOMAIN s.recoveries /\ s.recoveries[x[2]].retired = None
    \/ x[1] = "stepUp" /\ x[2] \in DOMAIN s.stepUps /\ s.stepUps[x[2]].retired = None
    \/ x[1] = "root" /\ x[2] \in DOMAIN s.roots /\ s.roots[x[2]] = None
    \/ x[1] = "ceremony" /\ x[2] \in DOMAIN s.ceremonies /\ s.ceremonies[x[2]].terminal = None
    \/ x[1] = "grant" /\ x[2] \in DOMAIN s.grants /\ s.grants[x[2]].used # TRUE

\* It was used: its handle was issued, and its record is retired or gone.
Consumed(s, x) ==
    \/ x[1] = "bootstrap" /\ Over(s.bootstraps, s.issued.bootstraps, x[2])
    \/ x[1] = "session" /\ Over(s.sessions, s.issued.sessions, x[2])
    \/ x[1] = "recovery" /\ Over(s.recoveries, s.issued.recoveries, x[2])
    \/ x[1] = "stepUp" /\ Over(s.stepUps, s.issued.stepUps, x[2])
    \/ /\ x[1] = "root" /\ x[2].number \in Nat /\ x[2].number <= s.issued.roots
       /\ x[2] \in DOMAIN s.roots => s.roots[x[2]] # None
    \/ /\ x[1] = "ceremony" /\ x[2] \in 1 .. s.issued.ceremonies
       /\ x[2] \in DOMAIN s.ceremonies => s.ceremonies[x[2]].terminal # None
    \/ x[1] = "grant" /\ (x[2] \in DOMAIN s.grants => s.grants[x[2]].used = TRUE)

\* The session h can never be authenticated again.
Dead(s, h) ==
    /\ s.actor # None
    /\ h \in 1 .. s.issued.sessions
    /\ h \in DOMAIN s.sessions =>
          \/ s.sessions[h].epoch < s.actor.epoch
          \/ s.sessions[h].retired # None
          \/ s.sessions[h].expires <= s.actor.observed

RouteGood(s) == s.actor # None => Route(s.roots)

\* What a decision r on the store s may be.
Decision(s, r) ==
    /\ StoreGood(r.store) /\ Advance(s, r.store)
    /\ RouteGood(s) => RouteGood(r.store)
    /\ \A e \in DOMAIN r.store.grants :
          \/ e \in DOMAIN s.grants /\ (s.grants[e].used = TRUE => r.store.grants[e].used = TRUE)
          \/ <<"stepUp", e>> \in r.used
    /\ \A x \in r.used : Usable(s, x) /\ Consumed(r.store, x)
    /\ \A h \in r.dead : Dead(r.store, h)

\* What a decision consumed cannot be used.
LEMMA ConsumedIsNotUsable ==
    ASSUME NEW s, NEW x, Consumed(s, x)
    PROVE  ~Usable(s, x)
BY DEF Consumed, Usable, Over

\* What is over stays over.
LEMMA OverStays ==
    ASSUME NEW f, NEW n \in Nat, NEW g, NEW m \in Nat, NEW h, Over(f, n, h), Later(f, n, g, m)
    PROVE  Over(g, m, h)
<1>1. h \in 1 .. n /\ n <= m
  BY DEF Over, Later
<1>2. h <= n /\ h \in 1 .. m
  BY <1>1
<1> QED
  BY <1>2 DEF Over, Later

\* What was consumed stays so.
LEMMA ConsumedStays ==
    ASSUME NEW s, NEW t, StoreGood(s), StoreGood(t), Advance(s, t), NEW x, Consumed(s, x),
           x[1] = "grant" => (x[2] \in DOMAIN t.grants => t.grants[x[2]].used = TRUE)
    PROVE  Consumed(t, x)
<1>1. /\ {s.issued.bootstraps, s.issued.sessions, s.issued.recoveries, s.issued.stepUps,
          s.issued.ceremonies, s.issued.roots} \subseteq Nat
      /\ {t.issued.bootstraps, t.issued.sessions, t.issued.recoveries, t.issued.stepUps,
          t.issued.ceremonies, t.issued.roots} \subseteq Nat
  BY Counted
<1>2. CASE x[1] = "bootstrap" /\ Over(s.bootstraps, s.issued.bootstraps, x[2])
  BY <1>1, <1>2, OverStays DEF Advance, Consumed
<1>3. CASE x[1] = "session" /\ Over(s.sessions, s.issued.sessions, x[2])
  BY <1>1, <1>3, OverStays DEF Advance, SessionsLater, Consumed
<1>4. CASE x[1] = "recovery" /\ Over(s.recoveries, s.issued.recoveries, x[2])
  BY <1>1, <1>4, OverStays DEF Advance, Consumed
<1>5. CASE x[1] = "stepUp" /\ Over(s.stepUps, s.issued.stepUps, x[2])
  BY <1>1, <1>5, OverStays DEF Advance, Consumed
<1>6. CASE /\ x[1] = "root" /\ x[2].number \in Nat /\ x[2].number <= s.issued.roots
           /\ x[2] \in DOMAIN s.roots => s.roots[x[2]] # None
  <2>1. RootsLater(s.roots, s.issued.roots, t.roots, t.issued.roots)
    BY DEF Advance
  <2>2. x[2] \in DOMAIN t.roots => t.roots[x[2]] # None
    BY <2>1, <1>6 DEF RootsLater
  <2>3. CASE x[2] \in DOMAIN t.roots
    <3>1. x[2].number \in Nat /\ x[2].number <= t.issued.roots
      BY <2>3 DEF StoreGood, RootsGood, Root
    <3> QED
      BY <3>1, <2>2, <1>6 DEF Consumed
  <2>4. CASE x[2] \notin DOMAIN t.roots
    <3>1. s.issued.roots <= t.issued.roots
      BY <2>1 DEF RootsLater
    <3>2. x[2].number <= t.issued.roots
      BY <3>1, <1>1, <1>6
    <3> QED
      BY <3>2, <2>4, <1>6 DEF Consumed
  <2> QED
    BY <2>3, <2>4
<1>7. CASE /\ x[1] = "ceremony" /\ x[2] \in 1 .. s.issued.ceremonies
           /\ x[2] \in DOMAIN s.ceremonies => s.ceremonies[x[2]].terminal # None
  <2>1. CeremoniesLater(s.ceremonies, s.issued.ceremonies, t.ceremonies, t.issued.ceremonies)
    BY DEF Advance
  <2>2. s.issued.ceremonies <= t.issued.ceremonies
    BY <2>1 DEF CeremoniesLater
  <2>3. x[2] <= s.issued.ceremonies /\ x[2] \in 1 .. t.issued.ceremonies
    BY <2>2, <1>1, <1>7
  <2> QED
    BY <2>1, <2>3, <1>7 DEF CeremoniesLater, Consumed
<1>8. CASE x[1] = "grant"
  BY <1>8 DEF Consumed
<1> QED
  BY <1>2, <1>3, <1>4, <1>5, <1>6, <1>7, <1>8 DEF Consumed

\* Whoever is dead stays dead.
LEMMA DeadStays ==
    ASSUME NEW s, NEW t, StoreGood(s), StoreGood(t), Advance(s, t), NEW h, Dead(s, h)
    PROVE  Dead(t, h)
<1>1. /\ s.actor # None /\ t.actor # None /\ s.actor.epoch <= t.actor.epoch
      /\ s.actor.observed <= t.actor.observed
      /\ SessionsLater(s.sessions, s.issued.sessions, t.sessions, t.issued.sessions)
  BY DEF Dead, Advance
<1>2. /\ {s.actor.epoch, t.actor.epoch, s.actor.observed, t.actor.observed, s.issued.sessions,
          t.issued.sessions} \subseteq Nat
  BY <1>1, ActorFields, Counted
<1>3. h \in 1 .. s.issued.sessions /\ s.issued.sessions <= t.issued.sessions
  BY <1>1 DEF Dead, SessionsLater, Later
<1>4. h \in Nat /\ h <= s.issued.sessions /\ h \in 1 .. t.issued.sessions
  BY <1>2, <1>3
<1>5. CASE h \in DOMAIN t.sessions
  <2>1. /\ h \in DOMAIN s.sessions
        /\ t.sessions[h].epoch = s.sessions[h].epoch /\ t.sessions[h].expires = s.sessions[h].expires
        /\ s.sessions[h].retired # None => t.sessions[h].retired # None
    BY <1>1, <1>4, <1>5 DEF SessionsLater, Later
  <2>2. s.sessions[h].epoch \in Nat /\ s.sessions[h].expires \in Nat
    BY <2>1 DEF StoreGood, SessionsGood, SessionRecord
  <2>3. \/ s.sessions[h].epoch < s.actor.epoch
        \/ s.sessions[h].retired # None
        \/ s.sessions[h].expires <= s.actor.observed
    BY <2>1 DEF Dead
  <2>4. \/ t.sessions[h].epoch < t.actor.epoch
        \/ t.sessions[h].retired # None
        \/ t.sessions[h].expires <= t.actor.observed
    BY <2>1, <2>2, <2>3, <1>1, <1>2
  <2> QED
    BY <2>4, <1>1, <1>4 DEF Dead
<1> QED
  BY <1>1, <1>4, <1>5 DEF Dead

\* A step that keeps the roots keeps the route.
LEMMA RouteKept ==
    ASSUME NEW s, NEW t, RouteGood(s), t.roots = s.roots, t.actor # None => s.actor # None
    PROVE  RouteGood(t)
BY DEF RouteGood

\* A denial that has taken a step.
LEMMA DenyDecision ==
    ASSUME NEW s, NEW t, Step(s, t), NEW why, RouteGood(s) => RouteGood(t)
    PROVE  Decision(s, Deny(t, why))
BY DEF Decision, Deny, Step, GrantsLater

\* An allowed decision that has taken a step.
LEMMA AllowDecision ==
    ASSUME NEW s, NEW t, Step(s, t), RouteGood(s) => RouteGood(t),
           NEW used, \A x \in used : Usable(s, x) /\ Consumed(t, x)
    PROVE  Decision(s, Allow(t, used))
<1> DEFINE r == Allow(t, used)
<1>1. r.store = t /\ r.used = used /\ r.dead = {}
  BY DEF Allow, Deny
<1> HIDE DEF r
<1>2. Decision(s, r)
  BY <1>1 DEF Decision, Step, GrantsLater
<1> QED
  BY <1>2 DEF r

\* An allowed decision goes on from a decision that was allowed.
LEMMA GoOnDecision ==
    ASSUME NEW s, StoreGood(s), NEW r, Decision(s, r), NEW t, Step(r.store, t),
           RouteGood(r.store) => RouteGood(t)
    PROVE  Decision(s, Allow(t, r.used))
<1> DEFINE q == Allow(t, r.used)
<1>1. q.store = t /\ q.used = r.used /\ q.dead = {}
  BY DEF Allow, Deny
<1> HIDE DEF q
<1>2. StoreGood(r.store) /\ Advance(s, r.store) /\ StoreGood(t) /\ Advance(r.store, t)
      /\ GrantsLater(r.store.grants, t.grants)
  BY DEF Decision, Step
<1>3. Advance(s, t)
  BY <1>2, AdvanceTwice
<1>4. \A x \in r.used : Usable(s, x) /\ Consumed(t, x)
  <2> SUFFICES ASSUME NEW x \in r.used PROVE Usable(s, x) /\ Consumed(t, x)
    OBVIOUS
  <2>1. Usable(s, x) /\ Consumed(r.store, x)
    BY DEF Decision
  <2>2. x[1] = "grant" => (x[2] \in DOMAIN t.grants => t.grants[x[2]].used = TRUE)
    BY <2>1, <1>2 DEF Consumed, GrantsLater
  <2> QED
    BY <2>1, <2>2, <1>2, ConsumedStays
<1>5. \A e \in DOMAIN t.grants :
         \/ e \in DOMAIN s.grants /\ (s.grants[e].used = TRUE => t.grants[e].used = TRUE)
         \/ <<"stepUp", e>> \in r.used
  BY <1>2 DEF Decision, GrantsLater
<1>6. RouteGood(s) => RouteGood(t)
  BY DEF Decision
<1>7. Decision(s, q)
  BY <1>1, <1>2, <1>3, <1>4, <1>5, <1>6 DEF Decision
<1> QED
  BY <1>7 DEF q

\* Whatever is there belongs to an installation.
LEMMA Installed ==
    ASSUME NEW s, StoreGood(s),
           \/ DOMAIN s.roots # {} \/ DOMAIN s.bootstraps # {} \/ DOMAIN s.sessions # {}
           \/ DOMAIN s.recoveries # {} \/ DOMAIN s.stepUps # {} \/ DOMAIN s.grants # {}
           \/ DOMAIN s.ceremonies # {}
    PROVE  s.actor # None
<1> SUFFICES ASSUME s.actor = None PROVE FALSE
  OBVIOUS
<1>1. /\ s.issued.roots = 0 /\ s.issued.bootstraps = 0 /\ s.issued.sessions = 0
      /\ s.issued.recoveries = 0 /\ s.issued.stepUps = 0 /\ s.issued.ceremonies = 0
  BY DEF StoreGood, Counts
<1>2. DOMAIN s.roots = {}
  BY <1>1 DEF StoreGood, RootsGood, Root
<1>3. /\ DOMAIN s.bootstraps \subseteq 1 .. 0 /\ DOMAIN s.sessions \subseteq 1 .. 0
      /\ DOMAIN s.recoveries \subseteq 1 .. 0 /\ DOMAIN s.stepUps \subseteq 1 .. 0
      /\ DOMAIN s.grants \subseteq 1 .. 0 /\ DOMAIN s.ceremonies \subseteq 1 .. 0
  BY <1>1 DEF StoreGood, BootstrapsGood, SessionsGood, CodesGood, GrantsGood, CeremoniesGood,
              CeremoniesType, Handles
<1>4. 1 .. 0 = {}
  OBVIOUS
<1> QED
  BY <1>2, <1>3, <1>4

-----------------------------------------------------------------------------
(* Each decision is one.                                                   *)

\* What keeps the roots of an installation keeps the route.
LEMMA RouteSame ==
    ASSUME NEW s, s.actor # None, NEW t, NEW X, Same(s, t, X), "roots" \notin X
    PROVE  RouteGood(s) => RouteGood(t)
<1>1. t.roots = s.roots
  BY DEF Same, Field
<1> QED
  BY <1>1 DEF RouteGood

\* A denial that writes nothing.
LEMMA DenyAtOnce ==
    ASSUME NEW s, StoreGood(s), NEW why
    PROVE  Decision(s, Deny(s, why))
BY StepReflexive, DenyDecision

\* A denial that has only observed the clock.
LEMMA DenyObserved ==
    ASSUME NEW s, StoreGood(s), s.actor # None, NEW now \in Nat, ~RolledBack(s, now), NEW why
    PROVE  Decision(s, Deny(Observed(s, now), why))
<1> DEFINE t == Observed(s, now)
<1>1. Step(s, t) /\ Same(s, t, {"actor"})
  BY ObservedStep
<1> HIDE DEF t
<1>2. RouteGood(s) => RouteGood(t)
  BY <1>1, RouteSame
<1>3. Decision(s, Deny(t, why))
  BY <1>1, <1>2, DenyDecision
<1> QED
  BY <1>3 DEF t

\* What an expired record shows.
LEMMA ExpiredThen ==
    ASSUME NEW now \in Nat, NEW expires \in Nat, NEW ttl, TimeDenial(now, expires, ttl) = "EXPIRED"
    PROVE  expires <= now
<1>1. CASE now >= expires
  BY <1>1
<1>2. CASE ~(now >= expires)
  BY <1>2 DEF TimeDenial
<1> QED
  BY <1>1, <1>2

\* A session that a decision found dead.
LEMMA DeadDecision ==
    ASSUME NEW s, StoreGood(s), s.actor # None, NEW now \in Nat, ~RolledBack(s, now),
           NEW h \in DOMAIN s.sessions, NEW why,
           \/ s.sessions[h].epoch # s.actor.epoch
           \/ s.sessions[h].retired # None
           \/ s.sessions[h].expires <= now
    PROVE  Decision(s, [Deny(Observed(s, now), why) EXCEPT !.dead = {h}])
<1> DEFINE t == Observed(s, now)
           r == [Deny(t, why) EXCEPT !.dead = {h}]
<1>1. /\ Step(s, t) /\ Same(s, t, {"actor"})
      /\ t.actor # None /\ t.actor.epoch = s.actor.epoch /\ t.actor.observed = now
  BY ObservedStep
<1> HIDE DEF t
<1>2. RouteGood(s) => RouteGood(t)
  BY <1>1, RouteSame
<1>3. r.store = t /\ r.used = {} /\ r.dead = {h}
  BY DEF Deny
<1> HIDE DEF r
<1>4. Dead(t, h)
  <2>1. t.sessions = s.sessions /\ t.issued = s.issued
    BY <1>1 DEF Same, Field
  <2>2. SessionsGood(s.sessions, s.issued.sessions, s.actor.epoch)
    BY DEF StoreGood
  <2>3. h \in 1 .. s.issued.sessions /\ s.sessions[h].epoch \in Nat
        /\ s.sessions[h].epoch <= s.actor.epoch
    BY <2>2 DEF SessionsGood, Handles, SessionRecord
  <2>4. s.actor.epoch \in Nat
    BY ActorFields
  <2>5. s.sessions[h].epoch # s.actor.epoch => s.sessions[h].epoch < s.actor.epoch
    BY <2>3, <2>4
  <2> QED
    BY <1>1, <2>1, <2>3, <2>5 DEF Dead
<1>5. Decision(s, r)
  BY <1>1, <1>2, <1>3, <1>4 DEF Decision, Step, GrantsLater
<1> QED
  BY <1>5 DEF r, t

\* What an authenticated session is.
Authentic(s, h, now) ==
    /\ s.actor # None /\ ~RolledBack(s, now)
    /\ h \in DOMAIN s.sessions /\ s.sessions[h].retired = None
    /\ s.sessions[h].epoch = s.actor.epoch

\* authenticate_session
LEMMA SessionAuthenticatedDecision ==
    ASSUME NEW s, StoreGood(s), NEW h, NEW now \in Nat, NEW r, r = SessionAuthenticated(s, h, now)
    PROVE  /\ Decision(s, r)
           /\ Allowed(r) => Authentic(s, h, now) /\ r.store = Observed(s, now) /\ r.used = {}
<1>1. CASE h \notin DOMAIN s.sessions
  <2>1. r = Deny(s, "SESSION_NOT_FOUND")
    BY <1>1 DEF SessionAuthenticated
  <2>2. ~Allowed(r)
    BY <2>1 DEF Allowed, Deny
  <2> QED
    BY <2>1, <2>2, DenyAtOnce
<1>2. CASE h \in DOMAIN s.sessions /\ RolledBack(s, now)
  <2>1. r = Deny(s, "CLOCK_ROLLBACK")
    BY <1>2 DEF SessionAuthenticated
  <2>2. ~Allowed(r)
    BY <2>1 DEF Allowed, Deny
  <2> QED
    BY <2>1, <2>2, DenyAtOnce
<1>3. CASE h \in DOMAIN s.sessions /\ ~RolledBack(s, now)
  <2> DEFINE t == Observed(s, now)
             timely == TimeDenial(now, s.sessions[h].expires, SessionTTL)
             over(why) == [Deny(t, why) EXCEPT !.dead = {h}]
  <2>1. r = IF s.sessions[h].epoch # s.actor.epoch THEN over("STALE_EPOCH")
            ELSE IF s.sessions[h].retired # None THEN over("REVOKED")
            ELSE IF timely = "EXPIRED" THEN over("EXPIRED")
            ELSE IF timely # "ALLOWED" THEN Deny(t, timely)
            ELSE Allow(t, {})
    BY <1>3 DEF SessionAuthenticated
  <2>2. s.actor # None /\ h \in DOMAIN s.sessions /\ ~RolledBack(s, now)
    BY <1>3, Installed
  <2>3. s.sessions[h].expires \in Nat
    BY <1>3 DEF StoreGood, SessionsGood, SessionRecord
  <2>4. timely = "EXPIRED" => s.sessions[h].expires <= now
    BY <2>3, ExpiredThen
  <2>5. /\ over("STALE_EPOCH").out = "STALE_EPOCH" /\ over("REVOKED").out = "REVOKED"
        /\ over("EXPIRED").out = "EXPIRED" /\ Deny(t, timely).out = timely
        /\ Allow(t, {}).store = t /\ Allow(t, {}).used = {}
    BY DEF Deny, Allow
  <2>6. Decision(s, Deny(t, timely)) /\ Decision(s, Allow(t, {}))
    <3>1. Decision(s, Deny(t, timely))
      BY <2>2, DenyObserved
    <3>2. Step(s, t) /\ Same(s, t, {"actor"})
      BY <2>2, ObservedStep
    <3> HIDE DEF t
    <3>3. RouteGood(s) => RouteGood(t)
      BY <2>2, <3>2, RouteSame
    <3>4. Decision(s, Allow(t, {}))
      BY <3>2, <3>3, AllowDecision
    <3> QED
      BY <3>1, <3>4
  <2>7. \A why : (\/ s.sessions[h].epoch # s.actor.epoch
                  \/ s.sessions[h].retired # None
                  \/ timely = "EXPIRED") => Decision(s, over(why))
    BY <2>2, <2>4, DeadDecision
  <2> HIDE DEF t, timely, over
  <2>8. CASE s.sessions[h].epoch # s.actor.epoch
    BY <2>1, <2>5, <2>7, <2>8 DEF Allowed
  <2>9. CASE s.sessions[h].epoch = s.actor.epoch /\ s.sessions[h].retired # None
    BY <2>1, <2>5, <2>7, <2>9 DEF Allowed
  <2>10. CASE /\ s.sessions[h].epoch = s.actor.epoch /\ s.sessions[h].retired = None
              /\ timely = "EXPIRED"
    BY <2>1, <2>5, <2>7, <2>10 DEF Allowed
  <2>11. CASE /\ s.sessions[h].epoch = s.actor.epoch /\ s.sessions[h].retired = None
              /\ timely # "EXPIRED" /\ timely # "ALLOWED"
    BY <2>1, <2>5, <2>6, <2>11 DEF Allowed
  <2>12. CASE /\ s.sessions[h].epoch = s.actor.epoch /\ s.sessions[h].retired = None
              /\ timely = "ALLOWED"
    <3>1. r = Allow(t, {})
      BY <2>1, <2>12
    <3> QED
      BY <3>1, <2>2, <2>5, <2>6, <2>12 DEF Authentic, t
  <2> QED
    BY <2>8, <2>9, <2>10, <2>11, <2>12
<1> QED
  BY <1>1, <1>2, <1>3

\* What an authenticated session leaves to go on with.
LEMMA AuthenticStep ==
    ASSUME NEW s, StoreGood(s), NEW h, NEW now \in Nat, Authentic(s, h, now),
           NEW t, t = Observed(s, now)
    PROVE  /\ Step(s, t) /\ Same(s, t, {"actor"}) /\ StoreGood(t)
           /\ t.actor # None /\ t.actor.epoch = s.actor.epoch
           /\ t.actor.initialized = s.actor.initialized /\ t.actor.observed = now
           /\ t.roots = s.roots /\ t.bootstraps = s.bootstraps
           /\ t.sessions = s.sessions /\ t.recoveries = s.recoveries /\ t.stepUps = s.stepUps
           /\ t.grants = s.grants /\ t.ceremonies = s.ceremonies /\ t.issued = s.issued
           /\ RouteGood(s) => RouteGood(t)
<1>1. s.actor # None /\ ~RolledBack(s, now)
  BY DEF Authentic
<1>2. /\ Step(s, t) /\ Same(s, t, {"actor"})
      /\ t.actor # None /\ t.actor.epoch = s.actor.epoch
      /\ t.actor.initialized = s.actor.initialized /\ t.actor.observed = now
  BY <1>1, ObservedStep
<1>3. RouteGood(s) => RouteGood(t)
  BY <1>1, <1>2, RouteSame
<1>4. /\ t.roots = s.roots /\ t.bootstraps = s.bootstraps
      /\ t.sessions = s.sessions /\ t.recoveries = s.recoveries /\ t.stepUps = s.stepUps
      /\ t.grants = s.grants /\ t.ceremonies = s.ceremonies /\ t.issued = s.issued
  BY <1>2 DEF Same, Field
<1>5. StoreGood(t)
  BY <1>2 DEF Step
<1> QED
  BY <1>2, <1>3, <1>4, <1>5

\* A step-up is issued.
LEMMA IssueStepUpStep ==
    ASSUME NEW s, StoreGood(s), s.actor # None, NEW v \in StepUpRecord, v.epoch = s.actor.epoch,
           v.attempts = MaxAttempts, NEW c, c = s.issued.stepUps + 1,
           NEW t, t = [s EXCEPT !.stepUps = Put(@, c, v), !.issued.stepUps = c]
    PROVE  Step(s, t) /\ Same(s, t, {"stepUps", "issued"})
<1>1. IsStore(s)
  BY DEF StoreGood
<1>2. /\ Same(s, t, {"stepUps", "issued"})
      /\ t.stepUps = Put(s.stepUps, s.issued.stepUps + 1, v)
      /\ t.issued = [s.issued EXCEPT !.stepUps = s.issued.stepUps + 1]
  BY <1>1 DEF IsStore, Same, Field
<1>3. s.issued \in Counts /\ "stepUps" \in Kind /\ s.issued.stepUps \in Nat
  BY Counted DEF StoreGood, Kind
<1>4. /\ t.issued \in Counts /\ t.issued.stepUps = s.issued.stepUps + 1
      /\ t.issued.bootstraps = s.issued.bootstraps /\ t.issued.sessions = s.issued.sessions
      /\ t.issued.recoveries = s.issued.recoveries /\ t.issued.ceremonies = s.issued.ceremonies
      /\ t.issued.roots = s.issued.roots
  BY <1>2, <1>3, CountedUp DEF Kind
<1>5. /\ IsStore(t) /\ t.actor = s.actor /\ t.roots = s.roots /\ t.bootstraps = s.bootstraps
      /\ t.sessions = s.sessions /\ t.recoveries = s.recoveries
      /\ t.grants = s.grants /\ t.ceremonies = s.ceremonies
  BY <1>2 DEF Same, Field
<1>6. /\ CodesGood(StepUpRecord, t.stepUps, t.issued.stepUps, t.actor.epoch)
      /\ Later(s.stepUps, s.issued.stepUps, t.stepUps, t.issued.stepUps)
  <2>1. StepUpRecord \in OwnCode /\ CodesGood(StepUpRecord, s.stepUps, s.issued.stepUps, s.actor.epoch)
    BY DEF OwnCode, StoreGood
  <2> QED
    BY <1>2, <1>3, <1>4, <1>5, <2>1, CodesPut
<1>7. GrantsGood(t.grants, t.issued.stepUps)
  <2>1. GrantsGood(s.grants, s.issued.stepUps)
    BY DEF StoreGood
  <2>2. 1 .. s.issued.stepUps \subseteq 1 .. s.issued.stepUps + 1
    BY <1>3
  <2> QED
    BY <1>4, <1>5, <2>1, <2>2 DEF GrantsGood, Handles
<1>8. StoreGood(t)
  BY <1>4, <1>5, <1>6, <1>7 DEF StoreGood
<1>9. Advance(s, t) /\ GrantsLater(s.grants, t.grants)
  BY <1>4, <1>5, <1>6, StepReflexive DEF Step, Advance
<1> QED
  BY <1>2, <1>8, <1>9 DEF Step

\* An allowed decision that goes on from an authenticated session.
LEMMA AuthenticDecision ==
    ASSUME NEW s, StoreGood(s), NEW h, NEW now \in Nat, Authentic(s, h, now),
           NEW t, Step(Observed(s, now), t), t.roots = s.roots,
           NEW used, \A x \in used : Usable(s, x) /\ Consumed(t, x)
    PROVE  Decision(s, Allow(t, used))
<1> DEFINE u == Observed(s, now)
<1>1. Step(s, u) /\ Step(u, t)
  BY AuthenticStep
<1> HIDE DEF u
<1>2. Step(s, t)
  BY <1>1, StepTwice
<1>3. RouteGood(s) => RouteGood(t)
  BY DEF RouteGood, Authentic
<1> QED
  BY <1>2, <1>3, AllowDecision

\* create_step_up
LEMMA StepUpCreatedDecision ==
    ASSUME NEW s, StoreGood(s), NEW h, NEW purpose \in Purpose, NEW now \in Nat
    PROVE  Decision(s, StepUpCreated(s, h, purpose, now))
<1> DEFINE auth == SessionAuthenticated(s, h, now)
           c == s.issued.stepUps + 1
           v == [session |-> h, epoch |-> s.sessions[h].epoch, purpose |-> purpose,
                 expires |-> Expiry(now, StepUpTTL), attempts |-> MaxAttempts, retired |-> None]
           u == Observed(s, now)
           t == [u EXCEPT !.stepUps = Put(@, c, v), !.issued.stepUps = c]
<1>1. /\ Decision(s, auth)
      /\ Allowed(auth) => Authentic(s, h, now) /\ auth.store = u
  BY SessionAuthenticatedDecision
<1>2. CASE ~Allowed(auth)
  BY <1>1, <1>2 DEF StepUpCreated
<1>3. CASE Allowed(auth)
  <2>1. Authentic(s, h, now) /\ auth.store = u
    BY <1>1, <1>3
  <2>2. StepUpCreated(s, h, purpose, now) = Allow(t, {})
    BY <1>3, <2>1 DEF StepUpCreated
  <2>3. v \in StepUpRecord /\ v.epoch = s.actor.epoch /\ v.attempts = MaxAttempts
    <3>1. h \in DOMAIN s.sessions /\ s.sessions[h].epoch = s.actor.epoch /\ s.actor # None
      BY <2>1 DEF Authentic
    <3>2. h \in Nat \ {0}
      BY <3>1, Counted DEF StoreGood, SessionsGood, Handles
    <3>3. s.actor.epoch \in Nat \ {0} /\ Expiry(now, StepUpTTL) \in Nat
          /\ MaxAttempts \in 0 .. MaxAttempts
      BY <3>1, ActorFields, ExpiryNat, PolicyAssumption DEF AuthPolicy
    <3> QED
      BY <3>1, <3>2, <3>3 DEF StepUpRecord, Instant
  <2>4. /\ StoreGood(u) /\ u.actor # None /\ u.actor.epoch = s.actor.epoch /\ u.issued = s.issued
        /\ u.roots = s.roots
    BY <2>1, AuthenticStep
  <2>5. Step(u, t) /\ Same(u, t, {"stepUps", "issued"})
    <3> HIDE DEF u, v
    <3> QED
      BY <2>3, <2>4, IssueStepUpStep
  <2> HIDE DEF t, v
  <2>6. t.roots = s.roots
    BY <2>4, <2>5 DEF Same, Field
  <2>7. Decision(s, Allow(t, {}))
    BY <2>1, <2>5, <2>6, AuthenticDecision
  <2> QED
    BY <2>2, <2>7
<1> QED
  BY <1>2, <1>3

\* A credential is a kind and a handle.
LEMMA Pair ==
    \A a, b : <<a, b>>[1] = a /\ <<a, b>>[2] = b
OBVIOUS

\* A session that a decision used up.
LEMMA UsedSession ==
    ASSUME NEW s, NEW t, NEW h \in DOMAIN s.sessions, s.sessions[h].retired = None,
           Over(t.sessions, t.issued.sessions, h)
    PROVE  Usable(s, <<"session", h>>) /\ Consumed(t, <<"session", h>>)
<1> DEFINE x == <<"session", h>>
<1>1. x[1] = "session" /\ x[2] = h
  BY Pair
<1> HIDE DEF x
<1>2. Usable(s, x) /\ Consumed(t, x)
  BY <1>1 DEF Usable, Consumed
<1> QED
  BY <1>2 DEF x

\* revoke_session
LEMMA SessionRevokedDecision ==
    ASSUME NEW s, StoreGood(s), NEW h, NEW now \in Nat
    PROVE  Decision(s, SessionRevoked(s, h, now))
<1> DEFINE auth == SessionAuthenticated(s, h, now)
           u == Observed(s, now)
           t == EndSession(u, h, now)
           used == {<<"session", h>>}
<1>1. /\ Decision(s, auth)
      /\ Allowed(auth) => Authentic(s, h, now) /\ auth.store = u
  BY SessionAuthenticatedDecision
<1>2. CASE ~Allowed(auth)
  BY <1>1, <1>2 DEF SessionRevoked
<1>3. CASE Allowed(auth)
  <2>1. Authentic(s, h, now) /\ auth.store = u
    BY <1>1, <1>3
  <2>2. SessionRevoked(s, h, now) = Allow(t, used)
    BY <1>3, <2>1 DEF SessionRevoked
  <2>3. StoreGood(u) /\ u.sessions = s.sessions /\ u.roots = s.roots
    BY <2>1, AuthenticStep
  <2>4. h \in DOMAIN s.sessions /\ s.sessions[h].retired = None
    BY <2>1 DEF Authentic
  <2>5. Step(u, t) /\ Same(u, t, {"sessions", "stepUps"}) /\ Over(t.sessions, t.issued.sessions, h)
    <3> HIDE DEF u
    <3> QED
      BY <2>3, <2>4, EndSessionStep
  <2> HIDE DEF t
  <2>6. t.roots = s.roots
    BY <2>3, <2>5 DEF Same, Field
  <2>7. \A x \in used : Usable(s, x) /\ Consumed(t, x)
    BY <2>4, <2>5, UsedSession
  <2> HIDE DEF used
  <2>8. Decision(s, Allow(t, used))
    BY <2>1, <2>5, <2>6, <2>7, AuthenticDecision
  <2> QED
    BY <2>2, <2>8
<1> QED
  BY <1>2, <1>3

\* rotate_session
LEMMA SessionRotatedDecision ==
    ASSUME NEW s, StoreGood(s), NEW h, NEW now \in Nat
    PROVE  Decision(s, SessionRotated(s, h, now))
<1> DEFINE auth == SessionAuthenticated(s, h, now)
           rev == SessionRevoked(s, h, now)
           t == EndSession(auth.store, h, now)
           w == IssueSession(t, now)
<1>1. Decision(s, auth) /\ Decision(s, rev)
  BY SessionAuthenticatedDecision, SessionRevokedDecision
<1>2. CASE ~Allowed(auth)
  BY <1>1, <1>2 DEF SessionRotated
<1>3. CASE Allowed(auth)
  <2>1. rev.store = t /\ rev.used = {<<"session", h>>}
    BY <1>3 DEF SessionRevoked, Allow, Deny
  <2>2. SessionRotated(s, h, now) = Allow(w, rev.used)
    BY <1>3, <2>1 DEF SessionRotated
  <2>3. StoreGood(t) /\ t.actor # None
    <3>1. Authentic(s, h, now)
      BY <1>3, SessionAuthenticatedDecision
    <3>2. StoreGood(rev.store) /\ Advance(s, rev.store)
      BY <1>1 DEF Decision
    <3> QED
      BY <2>1, <3>1, <3>2 DEF Advance, Authentic
  <2> HIDE DEF t, rev
  <2>4. Step(t, w) /\ Same(t, w, {"sessions", "issued"})
    BY <2>3, IssueSessionStep
  <2> HIDE DEF w
  <2>5. RouteGood(t) => RouteGood(w)
    BY <2>3, <2>4, RouteSame
  <2>6. Decision(s, Allow(w, rev.used))
    BY <1>1, <2>1, <2>4, <2>5, GoOnDecision
  <2> QED
    BY <2>2, <2>6
<1> QED
  BY <1>2, <1>3

\* A grant that a decision used up.
LEMMA UsedGrant ==
    ASSUME NEW s, NEW t, NEW e \in DOMAIN s.grants, s.grants[e].used # TRUE,
           t.grants[e].used = TRUE
    PROVE  Usable(s, <<"grant", e>>) /\ Consumed(t, <<"grant", e>>)
<1> DEFINE x == <<"grant", e>>
<1>1. x[1] = "grant" /\ x[2] = e
  BY Pair
<1> HIDE DEF x
<1>2. Usable(s, x) /\ Consumed(t, x)
  BY <1>1 DEF Usable, Consumed
<1> QED
  BY <1>2 DEF x

\* A denial after the session was authenticated.
LEMMA DenyAuthentic ==
    ASSUME NEW s, StoreGood(s), NEW h, NEW now \in Nat, Authentic(s, h, now)
    PROVE  \A why : Decision(s, Deny(Observed(s, now), why))
<1>1. s.actor # None /\ ~RolledBack(s, now)
  BY DEF Authentic
<1> QED
  BY <1>1, DenyObserved

\* A denial is not allowed.
LEMMA DenialIsNone ==
    \A t, why : why # "ALLOWED" => ~Allowed(Deny(t, why))
BY DEF Allowed, Deny

\* _authorize_grant_locked
LEMMA GrantAuthorizedDecision ==
    ASSUME NEW s, StoreGood(s), NEW h, NEW e, NEW purpose, NEW now \in Nat,
           NEW r, r = GrantAuthorized(s, h, e, purpose, now)
    PROVE  Decision(s, r) /\ (Allowed(r) => r.store.actor # None /\ StoreGood(r.store))
<1> SUFFICES Decision(s, r) /\ (Allowed(r) => s.actor # None)
  BY DEF Decision, Advance
<1> DEFINE auth == SessionAuthenticated(s, h, now)
           u == Observed(s, now)
           t == GrantUsed(u, e)
           used == {<<"grant", e>>}
           timely == TimeDenial(now, s.grants[e].expires, StepUpTTL)
<1>1. /\ Decision(s, auth)
      /\ Allowed(auth) => Authentic(s, h, now) /\ auth.store = u
  BY SessionAuthenticatedDecision
<1>2. CASE e \notin DOMAIN s.grants
  <2>1. r = Deny(s, "INVALID_PROOF")
    BY <1>2 DEF GrantAuthorized
  <2> QED
    BY <2>1, DenyAtOnce, DenialIsNone
<1>3. CASE e \in DOMAIN s.grants /\ ~Allowed(auth)
  BY <1>1, <1>3 DEF GrantAuthorized
<1>4. CASE e \in DOMAIN s.grants /\ Allowed(auth)
  <2>1. Authentic(s, h, now) /\ auth.store = u /\ s.actor # None
    BY <1>1, <1>4 DEF Authentic
  <2>2. r = IF s.grants[e].session # h THEN Deny(u, "WRONG_SESSION")
            ELSE IF s.grants[e].epoch # s.actor.epoch THEN Deny(u, "STALE_EPOCH")
            ELSE IF s.grants[e].purpose # purpose THEN Deny(u, "WRONG_PURPOSE")
            ELSE IF timely # "ALLOWED" THEN Deny(u, timely)
            ELSE IF s.grants[e].used THEN Deny(u, "REPLAYED")
            ELSE Allow(t, used)
    BY <1>4, <2>1 DEF GrantAuthorized
  <2>3. \A why : Decision(s, Deny(u, why))
    BY <2>1, DenyAuthentic
  <2>4. s.grants[e].used \in BOOLEAN
    BY <1>4 DEF StoreGood, GrantsGood, GrantRecord
  <2>5. StoreGood(u) /\ u.grants = s.grants /\ u.roots = s.roots
    BY <2>1, AuthenticStep
  <2>6. Step(u, t) /\ Same(u, t, {"grants"}) /\ t.grants[e].used = TRUE
    <3> HIDE DEF u
    <3> QED
      BY <1>4, <2>5, GrantUsedStep
  <2>7. s.grants[e].used # TRUE => Decision(s, Allow(t, used))
    <3> SUFFICES ASSUME s.grants[e].used # TRUE PROVE Decision(s, Allow(t, used))
      OBVIOUS
    <3> HIDE DEF t
    <3>1. t.roots = s.roots
      BY <2>5, <2>6 DEF Same, Field
    <3>2. \A x \in used : Usable(s, x) /\ Consumed(t, x)
      BY <1>4, <2>6, UsedGrant
    <3> HIDE DEF used
    <3> QED
      BY <2>1, <2>6, <3>1, <3>2, AuthenticDecision
  <2> HIDE DEF u, t, used, timely
  <2>8. CASE s.grants[e].used = TRUE
    BY <2>1, <2>2, <2>3, <2>8
  <2>9. CASE s.grants[e].used = FALSE
    BY <2>1, <2>2, <2>3, <2>7, <2>9
  <2> QED
    BY <2>4, <2>8, <2>9
<1> QED
  BY <1>2, <1>3, <1>4

\* validate_grant
LEMMA GrantValidatedDecision ==
    ASSUME NEW s, StoreGood(s), NEW h, NEW e, NEW now \in Nat
    PROVE  Decision(s, GrantValidated(s, h, e, now))
<1>1. Decision(s, Deny(s, "INVALID_PROOF"))
      /\ Decision(s, GrantAuthorized(s, h, e, s.grants[e].purpose, now))
  BY DenyAtOnce, GrantAuthorizedDecision
<1> QED
  BY <1>1 DEF GrantValidated

\* What a decision that was allowed by a grant goes on to do.
LEMMA GrantGoesOn ==
    ASSUME NEW s, StoreGood(s), NEW r, Decision(s, r), r.store.actor # None, StoreGood(r.store),
           NEW t, NEW X, Step(r.store, t), Same(r.store, t, X), "roots" \notin X
    PROVE  Decision(s, Allow(t, r.used))
<1>1. RouteGood(r.store) => RouteGood(t)
  BY RouteSame
<1> QED
  BY <1>1, GoOnDecision

\* create_authenticated_bootstrap
LEMMA AuthenticatedBootstrapCreatedDecision ==
    ASSUME NEW s, StoreGood(s), NEW h, NEW e, NEW now \in Nat
    PROVE  Decision(s, AuthenticatedBootstrapCreated(s, h, e, now))
<1> DEFINE auth == GrantAuthorized(s, h, e, "SETUP_AUTHORITY_CHANGE", now)
           t == IssueBootstrap(auth.store, None, now)
<1>1. Decision(s, auth) /\ (Allowed(auth) => auth.store.actor # None /\ StoreGood(auth.store))
  BY GrantAuthorizedDecision
<1>2. CASE ~Allowed(auth)
  BY <1>1, <1>2 DEF AuthenticatedBootstrapCreated
<1>3. CASE Allowed(auth)
  <2>1. AuthenticatedBootstrapCreated(s, h, e, now) = Allow(t, auth.used)
    BY <1>3 DEF AuthenticatedBootstrapCreated
  <2> HIDE DEF auth
  <2>2. Step(auth.store, t) /\ Same(auth.store, t, {"bootstraps", "issued"})
    BY <1>1, <1>3, IssueBootstrapStep
  <2> HIDE DEF t
  <2>3. Decision(s, Allow(t, auth.used))
    BY <1>1, <1>3, <2>2, GrantGoesOn
  <2> QED
    BY <2>1, <2>3
<1> QED
  BY <1>2, <1>3

\* renew_recovery
LEMMA RecoveryRenewedDecision ==
    ASSUME NEW s, StoreGood(s), NEW h, NEW e, NEW now \in Nat
    PROVE  Decision(s, RecoveryRenewed(s, h, e, now))
<1> DEFINE auth == GrantAuthorized(s, h, e, "KEY_RECOVERY_CHANGE", now)
           t == ConsumeRecoveries(auth.store, now)
           w == IssueRecovery(t, now)
<1>1. Decision(s, auth) /\ (Allowed(auth) => auth.store.actor # None /\ StoreGood(auth.store))
  BY GrantAuthorizedDecision
<1>2. CASE ~Allowed(auth)
  BY <1>1, <1>2 DEF RecoveryRenewed
<1>3. CASE Allowed(auth)
  <2>1. RecoveryRenewed(s, h, e, now) = Allow(w, auth.used)
    BY <1>3 DEF RecoveryRenewed
  <2> HIDE DEF auth
  <2>2. Step(auth.store, t) /\ Same(auth.store, t, {"recoveries"})
    BY <1>1, <1>3, ConsumeRecoveriesStep
  <2> HIDE DEF t
  <2>3. StoreGood(t) /\ t.actor # None
    BY <1>1, <1>3, <2>2 DEF Step, Advance
  <2>4. Step(t, w) /\ Same(t, w, {"recoveries", "issued"})
    BY <2>3, IssueRecoveryStep
  <2> HIDE DEF w
  <2>5. Step(auth.store, w) /\ Same(auth.store, w, {"recoveries"} \cup {"recoveries", "issued"})
    BY <1>1, <1>3, <2>2, <2>4, StepTwice, SameTwice
  <2>6. Decision(s, Allow(w, auth.used))
    BY <1>1, <1>3, <2>5, GrantGoesOn
  <2> QED
    BY <2>1, <2>6
<1> QED
  BY <1>2, <1>3

\* revoke_all_authenticated
LEMMA AllRevokedDecision ==
    ASSUME NEW s, StoreGood(s), NEW h, NEW e, NEW now \in Nat
    PROVE  Decision(s, AllRevoked(s, h, e, now))
<1> DEFINE auth == GrantAuthorized(s, h, e, "ALL_SESSION_REVOKE", now)
           t == NextEpoch(auth.store, now)
           w == IssueRecovery(t, now)
           X == {"actor", "sessions", "recoveries", "stepUps"} \cup {"recoveries", "issued"}
<1>1. Decision(s, auth) /\ (Allowed(auth) => auth.store.actor # None /\ StoreGood(auth.store))
  BY GrantAuthorizedDecision
<1>2. CASE ~Allowed(auth)
  BY <1>1, <1>2 DEF AllRevoked
<1>3. CASE Allowed(auth)
  <2>1. AllRevoked(s, h, e, now) = Allow(w, auth.used)
    BY <1>3 DEF AllRevoked
  <2> HIDE DEF auth
  <2>2. /\ Step(auth.store, t) /\ t.actor # None
        /\ Same(auth.store, t, {"actor", "sessions", "recoveries", "stepUps"})
    BY <1>1, <1>3, NextEpochStep
  <2> HIDE DEF t
  <2>3. StoreGood(t)
    BY <2>2 DEF Step
  <2>4. Step(t, w) /\ Same(t, w, {"recoveries", "issued"})
    BY <2>2, <2>3, IssueRecoveryStep
  <2> HIDE DEF w
  <2>5. Step(auth.store, w) /\ Same(auth.store, w, X)
    BY <1>1, <1>3, <2>2, <2>4, StepTwice, SameTwice
  <2>6. Decision(s, Allow(w, auth.used))
    BY <1>1, <1>3, <2>5, GrantGoesOn
  <2> QED
    BY <2>1, <2>6
<1> QED
  BY <1>2, <1>3

\* A step-up changes.
LEMMA StepUpReplaced ==
    ASSUME NEW s, StoreGood(s), NEW c \in DOMAIN s.stepUps, NEW v \in StepUpRecord,
           Kept(s.stepUps[c], v),
           v.retired = None => s.stepUps[c].retired = None /\ v.attempts >= 1,
           NEW t, Same(s, t, {"stepUps"}), t.stepUps = [s.stepUps EXCEPT ![c] = v]
    PROVE  /\ Step(s, t) /\ t.stepUps[c] = v
           /\ DOMAIN t.stepUps = DOMAIN s.stepUps
           /\ v.retired # None => Over(t.stepUps, t.issued.stepUps, c)
<1>1. IsStore(s) /\ StepUpRecord \in OwnCode /\ s.issued.stepUps \in Nat
      /\ CodesGood(StepUpRecord, s.stepUps, s.issued.stepUps, s.actor.epoch)
  BY Counted DEF StoreGood, OwnCode
<1> DEFINE g == [s.stepUps EXCEPT ![c] = v]
<1>2. Same(s, t, {"stepUps"}) /\ t.stepUps = g
  OBVIOUS
<1>3. /\ CodesGood(StepUpRecord, g, s.issued.stepUps, s.actor.epoch)
      /\ Later(s.stepUps, s.issued.stepUps, g, s.issued.stepUps)
      /\ v.retired # None => Over(g, s.issued.stepUps, c)
  BY <1>1, CodesReplaced
<1>4. g[c] = v /\ DOMAIN g = DOMAIN s.stepUps
  OBVIOUS
<1> HIDE DEF g
<1>5. Step(s, t)
  BY <1>2, <1>3, StepUpsChange
<1>6. t.issued = s.issued
  BY <1>2 DEF Same, Field
<1> QED
  BY <1>2, <1>3, <1>4, <1>5, <1>6

\* A recovery code changes.
LEMMA RecoveryReplaced ==
    ASSUME NEW s, StoreGood(s), NEW h \in DOMAIN s.recoveries, NEW v \in RecoveryRecord,
           Kept(s.recoveries[h], v),
           v.retired = None => s.recoveries[h].retired = None /\ v.attempts >= 1,
           NEW t, Same(s, t, {"recoveries"}), t.recoveries = [s.recoveries EXCEPT ![h] = v]
    PROVE  /\ Step(s, t) /\ t.recoveries[h] = v
           /\ DOMAIN t.recoveries = DOMAIN s.recoveries
<1>1. IsStore(s) /\ RecoveryRecord \in OwnCode /\ s.issued.recoveries \in Nat
      /\ CodesGood(RecoveryRecord, s.recoveries, s.issued.recoveries, s.actor.epoch)
  BY Counted DEF StoreGood, OwnCode
<1> DEFINE g == [s.recoveries EXCEPT ![h] = v]
<1>2. Same(s, t, {"recoveries"}) /\ t.recoveries = g
  OBVIOUS
<1>3. /\ CodesGood(RecoveryRecord, g, s.issued.recoveries, s.actor.epoch)
      /\ Later(s.recoveries, s.issued.recoveries, g, s.issued.recoveries)
  BY <1>1, CodesReplaced
<1>4. g[h] = v /\ DOMAIN g = DOMAIN s.recoveries
  OBVIOUS
<1> HIDE DEF g
<1>5. Step(s, t)
  BY <1>2, <1>3, RecoveriesChange
<1> QED
  BY <1>2, <1>4, <1>5

\* A step-up becomes a grant.
LEMMA GrantPutStore ==
    ASSUME NEW s, StoreGood(s), NEW c \in DOMAIN s.stepUps, NEW v \in GrantRecord,
           NEW t, Same(s, t, {"grants"}), t.grants = Put(s.grants, c, v)
    PROVE  /\ StoreGood(t) /\ Advance(s, t)
           /\ \A e \in DOMAIN t.grants : e # c => e \in DOMAIN s.grants /\ t.grants[e] = s.grants[e]
<1>1. IsStore(s) /\ GrantsGood(s.grants, s.issued.stepUps) /\ s.issued.stepUps \in Nat
      /\ c \in 1 .. s.issued.stepUps
  BY Counted DEF StoreGood, CodesGood, Handles
<1> DEFINE g == Put(s.grants, c, v)
<1>2. Same(s, t, {"grants"}) /\ t.grants = g
  OBVIOUS
<1>3. /\ GrantsGood(g, s.issued.stepUps) /\ DOMAIN g = DOMAIN s.grants \cup {c}
      /\ \A x \in DOMAIN s.grants : x # c => g[x] = s.grants[x]
  BY <1>1, GrantsPut
<1> HIDE DEF g
<1>4. /\ IsStore(t) /\ t.actor = s.actor /\ t.roots = s.roots /\ t.bootstraps = s.bootstraps
      /\ t.sessions = s.sessions /\ t.recoveries = s.recoveries /\ t.stepUps = s.stepUps
      /\ t.ceremonies = s.ceremonies /\ t.issued = s.issued
  BY <1>2 DEF Same, Field
<1>5. StoreGood(t)
  BY <1>2, <1>3, <1>4 DEF StoreGood
<1>6. Advance(s, t)
  BY <1>4, StepReflexive DEF Step, Advance
<1> QED
  BY <1>2, <1>3, <1>5, <1>6

\* A step-up that a decision used up.
LEMMA UsedStepUp ==
    ASSUME NEW s, NEW t, NEW c \in DOMAIN s.stepUps, s.stepUps[c].retired = None,
           Over(t.stepUps, t.issued.stepUps, c)
    PROVE  Usable(s, <<"stepUp", c>>) /\ Consumed(t, <<"stepUp", c>>)
<1> DEFINE x == <<"stepUp", c>>
<1>1. x[1] = "stepUp" /\ x[2] = c
  BY Pair
<1> HIDE DEF x
<1>2. Usable(s, x) /\ Consumed(t, x)
  BY <1>1 DEF Usable, Consumed
<1> QED
  BY <1>2 DEF x

\* The right proof of a step-up: it retires, and the grant takes its place.
LEMMA StepUpProved ==
    ASSUME NEW s, StoreGood(s), NEW c \in DOMAIN s.stepUps, s.stepUps[c].retired = None,
           NEW v \in GrantRecord, NEW z \in StepUpRecord, z.retired # None, Kept(s.stepUps[c], z),
           NEW y, Same(s, y, {"stepUps"}), y.stepUps = [s.stepUps EXCEPT ![c] = z],
           NEW t, Same(y, t, {"grants"}), t.grants = Put(y.grants, c, v)
    PROVE  /\ StoreGood(t) /\ Advance(s, t) /\ t.roots = s.roots
           /\ Over(t.stepUps, t.issued.stepUps, c)
           /\ \A e \in DOMAIN t.grants : e # c => e \in DOMAIN s.grants /\ t.grants[e] = s.grants[e]
<1>4. /\ Step(s, y) /\ DOMAIN y.stepUps = DOMAIN s.stepUps
      /\ Over(y.stepUps, y.issued.stepUps, c)
  BY StepUpReplaced
<1>5. StoreGood(y) /\ Advance(s, y) /\ c \in DOMAIN y.stepUps
  BY <1>4 DEF Step
<1>6. /\ StoreGood(t) /\ Advance(y, t)
      /\ \A e \in DOMAIN t.grants : e # c => e \in DOMAIN y.grants /\ t.grants[e] = y.grants[e]
  BY <1>5, GrantPutStore
<1>7. t.stepUps = y.stepUps /\ t.issued = y.issued /\ y.grants = s.grants /\ t.roots = s.roots
  BY DEF Same, Field
<1> QED
  BY <1>4, <1>5, <1>6, <1>7, AdvanceTwice

\* An allowed decision that proves a grant.
LEMMA ProvedDecision ==
    ASSUME NEW s, NEW t, StoreGood(t), Advance(s, t), RouteGood(s) => RouteGood(t), NEW c,
           \A e \in DOMAIN t.grants : e # c => e \in DOMAIN s.grants /\ t.grants[e] = s.grants[e],
           Usable(s, <<"stepUp", c>>), Consumed(t, <<"stepUp", c>>)
    PROVE  Decision(s, Allow(t, {<<"stepUp", c>>}))
<1> DEFINE used == {<<"stepUp", c>>}
           r == Allow(t, used)
<1>1. r.store = t /\ r.used = used /\ r.dead = {}
  BY DEF Allow, Deny
<1>2. \A x \in used : Usable(s, x) /\ Consumed(t, x)
  OBVIOUS
<1>3. <<"stepUp", c>> \in used
  OBVIOUS
<1> HIDE DEF r, used
<1>4. Decision(s, r)
  BY <1>1, <1>2, <1>3 DEF Decision
<1> QED
  BY <1>4 DEF r, used

\* A step-up is presented to the store that has authenticated its session.
LEMMA StepUpPresented ==
    ASSUME NEW u, StoreGood(u), NEW c \in DOMAIN u.stepUps, NEW ok \in BOOLEAN, NEW now \in Nat,
           NEW p, p = Present(u.stepUps[c], ok, now, StepUpTTL), NEW v, v = p.record,
           NEW t, Same(u, t, {"stepUps"}), t.stepUps = [u.stepUps EXCEPT ![c] = v]
    PROVE  /\ Step(u, t) /\ DOMAIN t.stepUps = DOMAIN u.stepUps /\ t.stepUps[c] = v
           /\ v \in StepUpRecord
           /\ p.out = "ALLOWED" => v = u.stepUps[c] /\ v.retired = None
<1>1. StepUpRecord \in Code /\ u.stepUps[c] \in StepUpRecord
      /\ (u.stepUps[c].retired = None => u.stepUps[c].attempts >= 1)
  BY DEF StoreGood, CodesGood, Code
<1>2. /\ v \in StepUpRecord /\ Kept(u.stepUps[c], v)
      /\ v.retired = None => u.stepUps[c].retired = None /\ v.attempts >= 1
      /\ p.out = "ALLOWED" => v = u.stepUps[c] /\ u.stepUps[c].retired = None
  BY <1>1, PresentedRecord
<1>3. /\ Step(u, t) /\ t.stepUps[c] = v /\ DOMAIN t.stepUps = DOMAIN u.stepUps
  BY <1>2, StepUpReplaced
<1> QED
  BY <1>2, <1>3

\* consume_step_up
LEMMA StepUpConsumedDecision ==
    ASSUME NEW s, StoreGood(s), NEW c, NEW ok \in BOOLEAN, NEW h, NEW purpose \in Purpose,
           NEW now \in Nat
    PROVE  Decision(s, StepUpConsumed(s, c, ok, h, purpose, now))
<1> DEFINE auth == SessionAuthenticated(s, h, now)
           u == Observed(s, now)
           p == Present(s.stepUps[c], ok, now, StepUpTTL)
           v == p.record
           t == [u EXCEPT !.stepUps[c] = v]
           g == [session |-> h, epoch |-> v.epoch, purpose |-> purpose,
                 expires |-> v.expires, used |-> FALSE]
           w == [t EXCEPT !.stepUps[c].retired = now, !.grants = Put(@, c, g)]
<1>1. /\ Decision(s, auth)
      /\ Allowed(auth) => Authentic(s, h, now) /\ auth.store = u
  BY SessionAuthenticatedDecision
<1>2. CASE c \notin DOMAIN s.stepUps
  BY <1>2, DenyAtOnce DEF StepUpConsumed
<1>3. CASE c \in DOMAIN s.stepUps /\ ~Allowed(auth)
  BY <1>1, <1>3 DEF StepUpConsumed
<1>4. CASE c \in DOMAIN s.stepUps /\ Allowed(auth)
  <2>1. Authentic(s, h, now) /\ auth.store = u
    BY <1>1, <1>4
  <2>2. StepUpConsumed(s, c, ok, h, purpose, now) =
           IF h # s.stepUps[c].session THEN Deny(u, "WRONG_SESSION")
           ELSE IF s.stepUps[c].epoch # s.actor.epoch THEN Deny(u, "STALE_EPOCH")
           ELSE IF p.out # "ALLOWED" THEN Deny(t, p.out)
           ELSE IF purpose # s.stepUps[c].purpose THEN Deny(t, "WRONG_PURPOSE")
           ELSE Allow(w, {<<"stepUp", c>>})
    BY <1>4, <2>1 DEF StepUpConsumed
  <2>3. /\ Step(s, u) /\ StoreGood(u) /\ u.stepUps = s.stepUps /\ u.roots = s.roots
        /\ u.grants = s.grants
    BY <2>1, AuthenticStep
  <2>4. Same(u, t, {"stepUps"}) /\ t.stepUps = [u.stepUps EXCEPT ![c] = v]
    <3>1. IsStore(u)
      BY <2>3 DEF StoreGood
    <3> HIDE DEF u, p
    <3> QED
      BY <3>1 DEF IsStore, Same, Field
  <2> DEFINE z == [t.stepUps[c] EXCEPT !.retired = now]
             y == [t EXCEPT !.stepUps[c] = z]
  <2>5. /\ Same(t, y, {"stepUps"}) /\ y.stepUps = [t.stepUps EXCEPT ![c] = z]
        /\ Same(y, w, {"grants"}) /\ w.grants = Put(y.grants, c, g)
    <3>1. IsStore(t)
      BY <2>4 DEF Same
    <3> HIDE DEF t, g
    <3> QED
      BY <3>1 DEF IsStore, Same, Field
  <2> HIDE DEF t
  <2>6. /\ Step(u, t) /\ DOMAIN t.stepUps = DOMAIN u.stepUps /\ t.stepUps[c] = v
        /\ v \in StepUpRecord
        /\ p.out = "ALLOWED" => v = s.stepUps[c] /\ v.retired = None
    <3>1. c \in DOMAIN u.stepUps /\ u.stepUps[c] = s.stepUps[c]
      BY <1>4, <2>3
    <3>2. p = Present(u.stepUps[c], ok, now, StepUpTTL) /\ v = p.record
      BY <3>1
    <3> HIDE DEF u, p, v
    <3> QED
      BY <3>1, <3>2, <2>3, <2>4, StepUpPresented
  <2> HIDE DEF u, p, v, w
  <2>7. /\ Step(s, t) /\ StoreGood(t) /\ t.roots = s.roots /\ t.grants = s.grants
        /\ Advance(s, t) /\ s.actor # None
    <3>1. Step(s, t) /\ s.actor # None
      BY <2>1, <2>3, <2>6, StepTwice DEF Authentic
    <3> QED
      BY <3>1, <2>3, <2>4 DEF Step, Same, Field
  <2>8. \A why : Decision(s, Deny(u, why)) /\ Decision(s, Deny(t, why))
    <3>1. \A why : Decision(s, Deny(u, why))
      BY <2>1, DenyAuthentic DEF u
    <3>2. RouteGood(s) => RouteGood(t)
      BY <2>7 DEF RouteGood
    <3> QED
      BY <3>1, <3>2, <2>7, DenyDecision
  <2>9. ASSUME h = s.stepUps[c].session, p.out = "ALLOWED", purpose = s.stepUps[c].purpose
        PROVE  Decision(s, Allow(w, {<<"stepUp", c>>}))
    <3>1. v = s.stepUps[c] /\ s.stepUps[c].retired = None /\ c \in DOMAIN s.stepUps
      BY <1>4, <2>6, <2>9
    <3>2. g \in GrantRecord
      BY <3>1, <2>6, <2>9 DEF GrantRecord, StepUpRecord
    <3> HIDE DEF g
    <3>3. z \in StepUpRecord /\ z.retired # None /\ Kept(t.stepUps[c], z)
      <4>1. t.stepUps[c] \in StepUpRecord /\ StepUpRecord \in Retirable /\ now # None
        BY <2>6, NoInstant DEF Retirable
      <4> QED
        BY <4>1, RetiredRecord
    <3>4. c \in DOMAIN t.stepUps /\ t.stepUps[c].retired = None
      BY <3>1, <2>3, <2>6
    <3> HIDE DEF z, y
    <3>5. /\ StoreGood(w) /\ Advance(t, w) /\ w.roots = t.roots
          /\ Over(w.stepUps, w.issued.stepUps, c)
          /\ \A e \in DOMAIN w.grants :
                e # c => e \in DOMAIN t.grants /\ w.grants[e] = t.grants[e]
      BY <3>2, <3>3, <3>4, <2>5, <2>7, StepUpProved
    <3>6. Advance(s, w)
      BY <3>5, <2>7, AdvanceTwice
    <3>7. RouteGood(s) => RouteGood(w)
      BY <3>5, <2>7 DEF RouteGood
    <3>8. Usable(s, <<"stepUp", c>>) /\ Consumed(w, <<"stepUp", c>>)
      BY <3>1, <3>5, UsedStepUp
    <3>9. \A e \in DOMAIN w.grants : e # c => e \in DOMAIN s.grants /\ w.grants[e] = s.grants[e]
      BY <3>5, <2>7
    <3> QED
      BY <3>5, <3>6, <3>7, <3>8, <3>9, ProvedDecision
  <2> QED
    BY <2>2, <2>8, <2>9
<1> QED
  BY <1>2, <1>3, <1>4

\* cancel_bootstrap
LEMMA BootstrapCancelledDecision ==
    ASSUME NEW s, StoreGood(s), NEW h, NEW now \in Nat
    PROVE  Decision(s, BootstrapCancelled(s, h, now))
<1> DEFINE f == s.bootstraps
           H == {b \in DOMAIN f : b = h /\ f[b].retired = None}
           t == [s EXCEPT !.bootstraps = Retire(f, H, now)]
<1>1. BootstrapCancelled(s, h, now) = Allow(t, {})
  BY DEF BootstrapCancelled
<1>2. IsStore(s) /\ BootstrapsGood(f, s.issued.bootstraps, s.roots, s.actor)
      /\ s.issued.bootstraps \in Nat
  BY Counted DEF StoreGood
<1>3. Same(s, t, {"bootstraps"}) /\ t.bootstraps = Retire(f, H, now)
  <2>1. IsStore(s)
    BY <1>2
  <2> HIDE DEF H
  <2> QED
    BY <2>1 DEF IsStore, Same, Field
<1> HIDE DEF H, t
<1>4. Step(s, t)
  BY <1>2, <1>3, BootstrapsRetire, BootstrapsChange
<1>5. RouteGood(s) => RouteGood(t)
  BY <1>3 DEF RouteGood, Same, Field
<1>6. Decision(s, Allow(t, {}))
  BY <1>4, <1>5, AllowDecision
<1> QED
  BY <1>1, <1>6

\* _validate_root_locked
LEMMA RootAdmitted ==
    ASSUME NEW s, NEW root, NEW purposes, RootDenial(s, root, purposes) = "ALLOWED"
    PROVE  root \in DOMAIN s.roots /\ root.purpose \in purposes /\ s.roots[root] = None
BY DEF RootDenial

\* create_root_bootstrap
LEMMA RootBootstrapCreatedDecision ==
    ASSUME NEW s, StoreGood(s), NEW root, NEW purposes,
           purposes \subseteq {"INITIAL_BOOTSTRAP", "REPROVISION"}, NEW now \in Nat
    PROVE  Decision(s, RootBootstrapCreated(s, root, purposes, now))
<1> DEFINE denial == RootDenial(s, root, purposes)
           u == Observed(s, now)
           t == IssueBootstrap(u, root, now)
           misplaced == (root.purpose = "INITIAL_BOOTSTRAP") = s.actor.initialized
<1>1. RootBootstrapCreated(s, root, purposes, now) =
         IF denial # "ALLOWED" THEN Deny(s, denial)
         ELSE IF RolledBack(s, now) THEN Deny(s, "CLOCK_ROLLBACK")
         ELSE IF misplaced THEN Deny(u, "STALE_EPOCH")
         ELSE Allow(t, {})
  BY DEF RootBootstrapCreated
<1>2. \A why : Decision(s, Deny(s, why))
  BY DenyAtOnce
<1>3. ASSUME denial = "ALLOWED", ~RolledBack(s, now)
      PROVE  /\ Decision(s, Deny(u, "STALE_EPOCH"))
             /\ ~misplaced => Decision(s, Allow(t, {}))
  <2>1. root \in DOMAIN s.roots /\ root.purpose \in purposes /\ s.roots[root] = None
    BY <1>3, RootAdmitted
  <2>2. s.actor # None /\ root \in Root /\ s.actor.initialized \in BOOLEAN
    <3>1. s.actor # None
      BY <2>1, Installed
    <3> QED
      BY <2>1, <3>1, ActorFields DEF StoreGood, RootsGood
  <2>3. Decision(s, Deny(u, "STALE_EPOCH"))
    BY <1>3, <2>2, DenyObserved
  <2>4. /\ Step(s, u) /\ Same(s, u, {"actor"}) /\ u.actor # None
        /\ u.actor.initialized = s.actor.initialized
    BY <1>3, <2>2, ObservedStep
  <2>5. StoreGood(u) /\ u.roots = s.roots
    BY <2>4 DEF Step, Same, Field
  <2>6. ASSUME ~misplaced
        PROVE  Decision(s, Allow(t, {}))
    <3>1. \/ root.purpose = "REPROVISION" /\ u.actor.initialized = TRUE
          \/ root.purpose = "INITIAL_BOOTSTRAP" /\ u.actor.initialized = FALSE
      <4>1. CASE root.purpose = "INITIAL_BOOTSTRAP"
        <5>1. s.actor.initialized = FALSE
          BY <2>2, <2>6, <4>1
        <5> QED
          BY <5>1, <4>1, <2>4
      <4>2. CASE root.purpose = "REPROVISION"
        <5>1. (root.purpose = "INITIAL_BOOTSTRAP") = FALSE
          BY <4>2
        <5>2. s.actor.initialized = TRUE
          BY <2>2, <2>6, <5>1
        <5> QED
          BY <5>2, <4>2, <2>4
      <4> QED
        BY <2>1, <4>1, <4>2
    <3> HIDE DEF u, misplaced
    <3>2. Step(u, t) /\ Same(u, t, {"bootstraps", "issued"})
      BY <3>1, <2>1, <2>2, <2>4, <2>5, IssueBootstrapStep
    <3> HIDE DEF t
    <3>3. Step(s, t) /\ Same(s, t, {"actor"} \cup {"bootstraps", "issued"})
      BY <3>2, <2>4, StepTwice, SameTwice
    <3>4. RouteGood(s) => RouteGood(t)
      BY <3>3, <2>2, RouteSame
    <3> QED
      BY <3>3, <3>4, AllowDecision
  <2> QED
    BY <2>3, <2>6
<1> HIDE DEF denial, u, t, misplaced
<1> QED
  BY <1>1, <1>2, <1>3

\* A root that a decision used up.
LEMMA UsedRoot ==
    ASSUME NEW s, NEW t, NEW root \in DOMAIN s.roots, s.roots[root] = None,
           root.number \in Nat, root.number <= t.issued.roots,
           root \in DOMAIN t.roots => t.roots[root] # None
    PROVE  Usable(s, <<"root", root>>) /\ Consumed(t, <<"root", root>>)
<1> DEFINE x == <<"root", root>>
<1>1. x[1] = "root" /\ x[2] = root
  BY Pair
<1> HIDE DEF x
<1>2. Usable(s, x) /\ Consumed(t, x)
  BY <1>1 DEF Usable, Consumed
<1> QED
  BY <1>2 DEF x

\* What is consumed is consumed after any later step.
LEMMA ConsumedThen ==
    ASSUME NEW s, NEW t, StoreGood(s), Step(s, t)
    PROVE  \A x : Consumed(s, x) => Consumed(t, x)
<1> SUFFICES ASSUME NEW x, Consumed(s, x) PROVE Consumed(t, x)
  OBVIOUS
<1>1. StoreGood(t) /\ Advance(s, t) /\ GrantsLater(s.grants, t.grants)
  BY DEF Step
<1>2. x[1] = "grant" => (x[2] \in DOMAIN t.grants => t.grants[x[2]].used = TRUE)
  BY <1>1 DEF Consumed, GrantsLater
<1> QED
  BY <1>1, <1>2, ConsumedStays

\* The emergency root is consumed: no bootstrap stands on it.
LEMMA ConsumeRootStep ==
    ASSUME NEW s, StoreGood(s), NEW root \in DOMAIN s.roots, root.purpose = "EMERGENCY_REVOKE",
           NEW now \in Nat, NEW t, t = ConsumeRoot(s, root, now)
    PROVE  /\ Step(s, t) /\ Same(s, t, {"roots"}) /\ (RouteGood(s) => RouteGood(t))
           /\ root.number \in Nat /\ root.number <= t.issued.roots /\ t.roots[root] # None
<1> DEFINE g == [s.roots EXCEPT ![root] = now]
<1>1. Same(s, t, {"roots"}) /\ t.roots = g
  BY ConsumeRootFields DEF StoreGood
<1>2. RootsGood(s.roots, s.issued.roots) /\ s.issued.roots \in Nat /\ root.number \in Nat
      /\ BootstrapsGood(s.bootstraps, s.issued.bootstraps, s.roots, s.actor)
  BY Counted DEF StoreGood, RootsGood, Root
<1>3. /\ RootsGood(g, s.issued.roots)
      /\ RootsLater(s.roots, s.issued.roots, g, s.issued.roots)
      /\ DOMAIN g = DOMAIN s.roots
      /\ root.number <= s.issued.roots /\ g[root] # None
      /\ \A q \in DOMAIN s.roots : q # root => g[q] = s.roots[q]
  BY <1>2, RootsConsume
<1>4. Route(s.roots) => Route(g)
  BY <1>2, RouteStays
<1> HIDE DEF g
<1>5. Serve(s.roots, g)
  BY <1>3 DEF Serve
<1>6. /\ IsStore(t) /\ t.actor = s.actor /\ t.bootstraps = s.bootstraps
      /\ t.sessions = s.sessions /\ t.recoveries = s.recoveries /\ t.stepUps = s.stepUps
      /\ t.grants = s.grants /\ t.ceremonies = s.ceremonies /\ t.issued = s.issued
  BY <1>1 DEF Same, Field
<1>7. BootstrapsGood(t.bootstraps, t.issued.bootstraps, t.roots, t.actor)
  BY <1>1, <1>2, <1>5, <1>6, BootstrapsStand
<1>8. StoreGood(t)
  BY <1>1, <1>3, <1>6, <1>7 DEF StoreGood
<1>9. Advance(s, t) /\ GrantsLater(s.grants, t.grants)
  BY <1>1, <1>3, <1>6, StepReflexive DEF Step, Advance
<1>10. RouteGood(s) => RouteGood(t)
  BY <1>1, <1>4, <1>6 DEF RouteGood
<1> QED
  BY <1>1, <1>2, <1>3, <1>6, <1>8, <1>9, <1>10 DEF Step

\* emergency_revoke
LEMMA EmergencyRevokedDecision ==
    ASSUME NEW s, StoreGood(s), NEW root, NEW now \in Nat
    PROVE  Decision(s, EmergencyRevoked(s, root, now))
<1> DEFINE denial == RootDenial(s, root, {"EMERGENCY_REVOKE"})
           u == Observed(s, now)
           v == ConsumeRoot(u, root, now)
           t == NextEpoch(v, now)
           used == {<<"root", root>>}
<1>1. EmergencyRevoked(s, root, now) =
         IF denial # "ALLOWED" THEN Deny(s, denial)
         ELSE IF RolledBack(s, now) THEN Deny(s, "CLOCK_ROLLBACK")
         ELSE Allow(t, used)
  BY DEF EmergencyRevoked
<1>2. \A why : Decision(s, Deny(s, why))
  BY DenyAtOnce
<1>3. ASSUME denial = "ALLOWED", ~RolledBack(s, now)
      PROVE  Decision(s, Allow(t, used))
  <2>1. root \in DOMAIN s.roots /\ root.purpose = "EMERGENCY_REVOKE" /\ s.roots[root] = None
    BY <1>3, RootAdmitted
  <2>2. s.actor # None
    BY <2>1, Installed
  <2>3. Step(s, u) /\ Same(s, u, {"actor"}) /\ u.actor # None
    BY <1>3, <2>2, ObservedStep
  <2> HIDE DEF u
  <2>4. StoreGood(u) /\ u.roots = s.roots /\ (RouteGood(s) => RouteGood(u))
    BY <2>2, <2>3, RouteSame DEF Step, Same, Field
  <2>5. /\ Step(u, v) /\ Same(u, v, {"roots"}) /\ (RouteGood(u) => RouteGood(v))
        /\ root.number \in Nat /\ root.number <= v.issued.roots /\ v.roots[root] # None
    BY <2>1, <2>4, ConsumeRootStep
  <2> HIDE DEF v
  <2>6. StoreGood(v) /\ v.actor # None
    BY <2>3, <2>5 DEF Step, Advance
  <2>7. Step(v, t) /\ Same(v, t, {"actor", "sessions", "recoveries", "stepUps"})
    BY <2>6, NextEpochStep
  <2> HIDE DEF t
  <2>8. Step(s, t)
    <3>1. Step(s, v)
      BY <2>3, <2>5, StepTwice
    <3> QED
      BY <3>1, <2>7, StepTwice
  <2>9. RouteGood(s) => RouteGood(t)
    <3>1. RouteGood(v) => RouteGood(t)
      BY <2>6, <2>7, RouteSame
    <3> QED
      BY <3>1, <2>4, <2>5
  <2>10. Usable(s, <<"root", root>>) /\ Consumed(t, <<"root", root>>)
    <3>1. t.roots = v.roots /\ t.issued = v.issued
      BY <2>7 DEF Same, Field
    <3> QED
      BY <3>1, <2>1, <2>5, UsedRoot
  <2>11. \A x \in used : Usable(s, x) /\ Consumed(t, x)
    BY <2>10
  <2> HIDE DEF used
  <2> QED
    BY <2>8, <2>9, <2>11, AllowDecision
<1> HIDE DEF denial, t, used
<1> QED
  BY <1>1, <1>2, <1>3

\* A recovery code is presented.
LEMMA RecoveryPresented ==
    ASSUME NEW u, StoreGood(u), NEW h \in DOMAIN u.recoveries, NEW ok \in BOOLEAN, NEW now \in Nat,
           NEW p, p = Present(u.recoveries[h], ok, now, RecoveryTTL), NEW v, v = p.record,
           NEW t, Same(u, t, {"recoveries"}), t.recoveries = [u.recoveries EXCEPT ![h] = v]
    PROVE  /\ Step(u, t) /\ DOMAIN t.recoveries = DOMAIN u.recoveries
           /\ p.out = "ALLOWED" => u.recoveries[h].retired = None
<1>1. RecoveryRecord \in Code /\ u.recoveries[h] \in RecoveryRecord
      /\ (u.recoveries[h].retired = None => u.recoveries[h].attempts >= 1)
  BY DEF StoreGood, CodesGood, Code
<1>2. /\ v \in RecoveryRecord /\ Kept(u.recoveries[h], v)
      /\ v.retired = None => u.recoveries[h].retired = None /\ v.attempts >= 1
      /\ p.out = "ALLOWED" => v = u.recoveries[h] /\ u.recoveries[h].retired = None
  BY <1>1, PresentedRecord
<1>3. Step(u, t) /\ DOMAIN t.recoveries = DOMAIN u.recoveries
  BY <1>2, RecoveryReplaced
<1> QED
  BY <1>2, <1>3

\* recover, with a code that is there and a clock that was not set back
LEMMA RecoveredStep ==
    ASSUME NEW s, StoreGood(s), s.actor # None, NEW h \in DOMAIN s.recoveries, NEW now \in Nat,
           NEW w, w = IssueRecovery(IssueSession(NextEpoch(ConsumeRecoveries(s, now), now), now), now)
    PROVE  Step(s, w) /\ w.roots = s.roots /\ Consumed(w, <<"recovery", h>>)
<1> DEFINE c == ConsumeRecoveries(s, now)
           e == NextEpoch(c, now)
           i == IssueSession(e, now)
<1>1. /\ Step(s, c) /\ Same(s, c, {"recoveries"})
      /\ \A k \in 1 .. s.issued.recoveries : Over(c.recoveries, s.issued.recoveries, k)
  BY ConsumeRecoveriesStep
<1>2. Consumed(c, <<"recovery", h>>)
  <2>1. h \in 1 .. s.issued.recoveries /\ c.issued = s.issued
    BY <1>1 DEF StoreGood, CodesGood, Handles, Same, Field
  <2>2. Over(c.recoveries, c.issued.recoveries, h)
    BY <1>1, <2>1
  <2> DEFINE x == <<"recovery", h>>
  <2>3. x[1] = "recovery" /\ x[2] = h
    BY Pair
  <2> HIDE DEF x, c
  <2>4. Consumed(c, x)
    BY <2>2, <2>3 DEF Consumed
  <2> QED
    BY <2>4 DEF x
<1>3. StoreGood(c) /\ c.actor # None
  BY <1>1 DEF Step, Advance
<1> HIDE DEF c
<1>4. /\ Step(c, e) /\ Same(c, e, {"actor", "sessions", "recoveries", "stepUps"})
      /\ e.actor # None
  BY <1>3, NextEpochStep
<1> HIDE DEF e
<1>5. StoreGood(e)
  BY <1>4 DEF Step
<1>6. Step(e, i) /\ Same(e, i, {"sessions", "issued"})
  BY <1>4, <1>5, IssueSessionStep
<1> HIDE DEF i
<1>7. StoreGood(i) /\ i.actor # None
  BY <1>4, <1>6 DEF Step, Advance
<1>8. Step(i, w) /\ Same(i, w, {"recoveries", "issued"})
  BY <1>7, IssueRecoveryStep DEF i, e, c
<1>9. Step(c, i)
  BY <1>3, <1>4, <1>6, StepTwice
<1>10. Step(c, w)
  BY <1>3, <1>8, <1>9, StepTwice
<1>11. Step(s, w)
  BY <1>1, <1>10, StepTwice
<1>12. w.roots = s.roots
  BY <1>1, <1>4, <1>6, <1>8 DEF Same, Field
<1> QED
  BY <1>2, <1>3, <1>10, <1>11, <1>12, ConsumedThen

\* recover
LEMMA RecoveredDecision ==
    ASSUME NEW s, StoreGood(s), NEW h, NEW ok \in BOOLEAN, NEW now \in Nat
    PROVE  Decision(s, Recovered(s, h, ok, now))
<1> DEFINE u == Observed(s, now)
           p == Present(s.recoveries[h], ok, now, RecoveryTTL)
           v == p.record
           t == [u EXCEPT !.recoveries[h] = v]
           y == [t EXCEPT !.recoveries = Retire(@, {h}, now)]
           w == IssueRecovery(IssueSession(NextEpoch(ConsumeRecoveries(t, now), now), now), now)
           used == {<<"recovery", h>>}
<1>1. CASE h \notin DOMAIN s.recoveries
  BY <1>1, DenyAtOnce DEF Recovered
<1>2. CASE h \in DOMAIN s.recoveries /\ RolledBack(s, now)
  BY <1>2, DenyAtOnce DEF Recovered
<1>3. CASE h \in DOMAIN s.recoveries /\ ~RolledBack(s, now)
  <2>1. Recovered(s, h, ok, now) =
           IF p.out # "ALLOWED" THEN Deny(t, p.out)
           ELSE IF v.epoch # s.actor.epoch THEN Deny(y, "STALE_EPOCH")
           ELSE Allow(w, used)
    BY <1>3 DEF Recovered
  <2>2. s.actor # None
    BY <1>3, Installed
  <2>3. Step(s, u) /\ Same(s, u, {"actor"}) /\ u.actor # None
    BY <1>3, <2>2, ObservedStep
  <2>4. StoreGood(u) /\ u.roots = s.roots /\ u.recoveries = s.recoveries
    BY <2>3 DEF Step, Same, Field
  <2>5. Same(u, t, {"recoveries"}) /\ t.recoveries = [u.recoveries EXCEPT ![h] = v]
    <3>1. IsStore(u)
      BY <2>4 DEF StoreGood
    <3> HIDE DEF u, p
    <3> QED
      BY <3>1 DEF IsStore, Same, Field
  <2>6. Same(t, y, {"recoveries"}) /\ y.recoveries = Retire(t.recoveries, {h}, now)
    <3>1. IsStore(t)
      BY <2>5 DEF Same
    <3> HIDE DEF t
    <3> QED
      BY <3>1 DEF IsStore, Same, Field
  <2> HIDE DEF t, y
  <2>7. /\ Step(u, t) /\ DOMAIN t.recoveries = DOMAIN u.recoveries
        /\ p.out = "ALLOWED" => s.recoveries[h].retired = None
    <3>1. h \in DOMAIN u.recoveries /\ u.recoveries[h] = s.recoveries[h]
      BY <1>3, <2>4
    <3>2. p = Present(u.recoveries[h], ok, now, RecoveryTTL) /\ v = p.record
      BY <3>1
    <3> HIDE DEF u, p, v
    <3> QED
      BY <3>1, <3>2, <2>4, <2>5, RecoveryPresented
  <2> HIDE DEF u, p, v
  <2>8. /\ Step(s, t) /\ StoreGood(t) /\ t.roots = s.roots /\ t.actor # None
        /\ h \in DOMAIN t.recoveries
    <3>1. Step(s, t)
      BY <2>3, <2>7, StepTwice
    <3> QED
      BY <1>3, <2>2, <2>4, <2>5, <2>7, <3>1 DEF Step, Advance, Same, Field
  <2>9. Step(s, y) /\ y.roots = s.roots
    <3>1. RecoveryRecord \in OwnCode /\ t.issued.recoveries \in Nat
          /\ CodesGood(RecoveryRecord, t.recoveries, t.issued.recoveries, t.actor.epoch)
      BY <2>8, Counted DEF StoreGood, OwnCode
    <3>2. /\ CodesGood(RecoveryRecord, y.recoveries, t.issued.recoveries, t.actor.epoch)
          /\ Later(t.recoveries, t.issued.recoveries, y.recoveries, t.issued.recoveries)
      BY <3>1, <2>6, CodesRetire
    <3>3. Step(t, y)
      BY <3>2, <2>6, <2>8, RecoveriesChange
    <3> QED
      BY <3>3, <2>6, <2>8, StepTwice DEF Same, Field
  <2>10. Step(t, w) /\ w.roots = s.roots /\ Consumed(w, <<"recovery", h>>)
    BY <2>8, RecoveredStep
  <2> HIDE DEF w
  <2>11. Step(s, w)
    BY <2>8, <2>10, StepTwice
  <2>12. /\ RouteGood(s) => RouteGood(t)
         /\ RouteGood(s) => RouteGood(y)
         /\ RouteGood(s) => RouteGood(w)
    BY <2>2, <2>8, <2>9, <2>10 DEF RouteGood
  <2>13. Decision(s, Deny(t, p.out)) /\ Decision(s, Deny(y, "STALE_EPOCH"))
    BY <2>8, <2>9, <2>12, DenyDecision
  <2>14. ASSUME p.out = "ALLOWED" PROVE Decision(s, Allow(w, used))
    <3>1. Usable(s, <<"recovery", h>>)
      <4>1. s.recoveries[h].retired = None /\ h \in DOMAIN s.recoveries
        BY <1>3, <2>7, <2>14
      <4> DEFINE x == <<"recovery", h>>
      <4>2. x[1] = "recovery" /\ x[2] = h
        BY Pair
      <4> HIDE DEF x
      <4>3. Usable(s, x)
        BY <4>1, <4>2 DEF Usable
      <4> QED
        BY <4>3 DEF x
    <3>2. \A x \in used : Usable(s, x) /\ Consumed(w, x)
      BY <3>1, <2>10
    <3> HIDE DEF used
    <3> QED
      BY <3>2, <2>11, <2>12, AllowDecision
  <2> HIDE DEF used
  <2> QED
    BY <2>1, <2>13, <2>14
<1> QED
  BY <1>1, <1>2, <1>3

\* The actor of a new installation: nothing is there yet.
LEMMA ActorStep ==
    ASSUME NEW s, StoreGood(s), s.actor = None, NEW a \in ActorRecord,
           NEW t, Same(s, t, {"actor"}), t.actor = a
    PROVE  Step(s, t) /\ t.actor # None /\ DOMAIN t.roots = {}
<1>1. /\ DOMAIN s.roots = {} /\ DOMAIN s.bootstraps = {} /\ DOMAIN s.sessions = {}
      /\ DOMAIN s.recoveries = {} /\ DOMAIN s.stepUps = {} /\ DOMAIN s.grants = {}
      /\ DOMAIN s.ceremonies = {}
  BY Installed
<1>2. a # None
  BY NoneAssumption
<1>3. /\ IsStore(t) /\ t.roots = s.roots /\ t.bootstraps = s.bootstraps
      /\ t.sessions = s.sessions /\ t.recoveries = s.recoveries /\ t.stepUps = s.stepUps
      /\ t.grants = s.grants /\ t.ceremonies = s.ceremonies /\ t.issued = s.issued
  BY DEF Same, Field
<1>4. BootstrapsGood(t.bootstraps, t.issued.bootstraps, t.roots, t.actor)
  <2>1. BootstrapsGood(s.bootstraps, s.issued.bootstraps, s.roots, s.actor)
    BY DEF StoreGood
  <2> QED
    BY <2>1, <1>1, <1>3 DEF BootstrapsGood
<1>5. SessionsGood(t.sessions, t.issued.sessions, t.actor.epoch)
  <2>1. SessionsGood(s.sessions, s.issued.sessions, s.actor.epoch)
    BY DEF StoreGood
  <2> QED
    BY <2>1, <1>1, <1>3 DEF SessionsGood
<1>6. /\ CodesGood(RecoveryRecord, t.recoveries, t.issued.recoveries, t.actor.epoch)
      /\ CodesGood(StepUpRecord, t.stepUps, t.issued.stepUps, t.actor.epoch)
  <2>1. /\ CodesGood(RecoveryRecord, s.recoveries, s.issued.recoveries, s.actor.epoch)
        /\ CodesGood(StepUpRecord, s.stepUps, s.issued.stepUps, s.actor.epoch)
    BY DEF StoreGood
  <2> QED
    BY <2>1, <1>1, <1>3 DEF CodesGood
<1>7. StoreGood(t)
  BY <1>2, <1>3, <1>4, <1>5, <1>6 DEF StoreGood
<1>8. Advance(s, t) /\ GrantsLater(s.grants, t.grants)
  BY <1>3, StepReflexive DEF Step, Advance
<1> QED
  BY <1>1, <1>2, <1>3, <1>7, <1>8 DEF Step

\* What Put does to the roots.
LEMMA PutRoot ==
    ASSUME NEW f, NEW r, NEW g, g = Put(f, r, None)
    PROVE  DOMAIN g = DOMAIN f \cup {r} /\ g[r] = None
BY DEF Put

\* initialize_installation
LEMMA InstallationInitializedDecision ==
    ASSUME NEW s, StoreGood(s), NEW now \in Nat
    PROVE  Decision(s, InstallationInitialized(s, now))
<1> DEFINE a == [epoch |-> 1, observed |-> now, initialized |-> FALSE]
           t == [s EXCEPT !.actor = a]
           t1 == IssueRoot(t, "INITIAL_BOOTSTRAP")
           t2 == IssueRoot(t1, "EMERGENCY_REVOKE")
           t3 == IssueRoot(t2, "REPROVISION")
<1>1. CASE s.actor # None
  BY <1>1, DenyAtOnce DEF InstallationInitialized
<1>2. CASE s.actor = None
  <2>1. InstallationInitialized(s, now) = Allow(t3, {})
    BY <1>2 DEF InstallationInitialized
  <2>2. a \in ActorRecord
    BY DEF ActorRecord
  <2>3. Same(s, t, {"actor"}) /\ t.actor = a
    <3>1. IsStore(s)
      BY DEF StoreGood
    <3> HIDE DEF a
    <3> QED
      BY <3>1 DEF IsStore, Same, Field
  <2> HIDE DEF a, t
  <2>4. Step(s, t) /\ t.actor # None /\ DOMAIN t.roots = {}
    BY <1>2, <2>2, <2>3, ActorStep
  <2>5. StoreGood(t) /\ {"INITIAL_BOOTSTRAP", "EMERGENCY_REVOKE", "REPROVISION"} \subseteq RootPurpose
    BY <2>4 DEF Step, RootPurpose
  <2> DEFINE q1 == [purpose |-> "INITIAL_BOOTSTRAP", number |-> t.issued.roots + 1]
             q2 == [purpose |-> "EMERGENCY_REVOKE", number |-> t1.issued.roots + 1]
             q3 == [purpose |-> "REPROVISION", number |-> t2.issued.roots + 1]
  <2>6. Step(t, t1) /\ t1.roots = Put(t.roots, q1, None)
    BY <2>4, <2>5, IssueRootStep
  <2> HIDE DEF t1
  <2>7. StoreGood(t1) /\ t1.actor # None
    BY <2>4, <2>6 DEF Step, Advance
  <2>8. Step(t1, t2) /\ t2.roots = Put(t1.roots, q2, None)
    BY <2>5, <2>7, IssueRootStep
  <2> HIDE DEF t2
  <2>9. StoreGood(t2) /\ t2.actor # None
    BY <2>7, <2>8 DEF Step, Advance
  <2>10. Step(t2, t3) /\ t3.roots = Put(t2.roots, q3, None)
    BY <2>5, <2>9, IssueRootStep
  <2> HIDE DEF t3
  <2>11. Step(s, t3)
    <3>1. Step(s, t1)
      BY <2>4, <2>6, StepTwice
    <3>2. Step(s, t2)
      BY <2>8, <3>1, StepTwice
    <3> QED
      BY <2>10, <3>2, StepTwice
  <2>12. /\ q1.purpose = "INITIAL_BOOTSTRAP" /\ q2.purpose = "EMERGENCY_REVOKE"
         /\ q3.purpose = "REPROVISION"
    OBVIOUS
  <2> HIDE DEF q1, q2, q3
  <2>13. DOMAIN t3.roots = {q1, q2, q3} /\ t3.roots[q3] = None
    <3>1. DOMAIN t1.roots = DOMAIN t.roots \cup {q1}
      BY <2>6, PutRoot
    <3>2. DOMAIN t2.roots = DOMAIN t1.roots \cup {q2}
      BY <2>8, PutRoot
    <3>3. DOMAIN t3.roots = DOMAIN t2.roots \cup {q3} /\ t3.roots[q3] = None
      BY <2>10, PutRoot
    <3> QED
      BY <2>4, <3>1, <3>2, <3>3
  <2>14. Route(t3.roots)
    BY <2>12, <2>13 DEF Route
  <2>15. RouteGood(s) => RouteGood(t3)
    BY <2>14 DEF RouteGood
  <2>16. Decision(s, Allow(t3, {}))
    BY <2>11, <2>15, AllowDecision
  <2> QED
    BY <2>1, <2>16
<1> QED
  BY <1>1, <1>2

\* garbage_collect
LEMMA GarbageCollectedDecision ==
    ASSUME NEW s, StoreGood(s), NEW retention \in Nat, NEW now \in Nat
    PROVE  Decision(s, GarbageCollected(s, retention, now))
<1> DEFINE cutoff == now - retention
           roots == KeptRoots(s.roots, cutoff)
           bootstraps == Collected(s.bootstraps, cutoff)
           sessions == Collected(s.sessions, cutoff)
           recoveries == Collected(s.recoveries, cutoff)
           stepUps == Collected(s.stepUps, cutoff)
           grants == KeptGrants(s.grants, cutoff)
           t == [s EXCEPT !.roots = roots, !.bootstraps = bootstraps, !.sessions = sessions,
                          !.recoveries = recoveries, !.stepUps = stepUps, !.grants = grants]
           w == GcCeremonies(t, now)
<1>1. GarbageCollected(s, retention, now) = Allow(w, {})
  BY DEF GarbageCollected, KeptRoots, KeptGrants
<1> HIDE DEF cutoff
<1>2. /\ RootsGood(s.roots, s.issued.roots)
      /\ BootstrapsGood(s.bootstraps, s.issued.bootstraps, s.roots, s.actor)
      /\ SessionsGood(s.sessions, s.issued.sessions, s.actor.epoch)
      /\ CodesGood(RecoveryRecord, s.recoveries, s.issued.recoveries, s.actor.epoch)
      /\ CodesGood(StepUpRecord, s.stepUps, s.issued.stepUps, s.actor.epoch)
      /\ GrantsGood(s.grants, s.issued.stepUps)
      /\ RecoveryRecord \in OwnCode /\ StepUpRecord \in OwnCode /\ IsStore(s)
  BY DEF StoreGood, OwnCode
<1>3. /\ s.issued.roots \in Nat /\ s.issued.bootstraps \in Nat /\ s.issued.sessions \in Nat
      /\ s.issued.recoveries \in Nat /\ s.issued.stepUps \in Nat
  BY Counted
<1>4. /\ RootsGood(roots, s.issued.roots) /\ Serve(s.roots, roots)
      /\ RootsLater(s.roots, s.issued.roots, roots, s.issued.roots)
      /\ Route(s.roots) => Route(roots)
  BY <1>2, <1>3, RootsCollected
<1>5. /\ BootstrapsGood(bootstraps, s.issued.bootstraps, s.roots, s.actor)
      /\ Later(s.bootstraps, s.issued.bootstraps, bootstraps, s.issued.bootstraps)
  BY <1>2, <1>3, BootstrapsCollected
<1>6. /\ SessionsGood(sessions, s.issued.sessions, s.actor.epoch)
      /\ SessionsLater(s.sessions, s.issued.sessions, sessions, s.issued.sessions)
  BY <1>2, <1>3, SessionsCollected
<1>7. /\ CodesGood(RecoveryRecord, recoveries, s.issued.recoveries, s.actor.epoch)
      /\ Later(s.recoveries, s.issued.recoveries, recoveries, s.issued.recoveries)
  BY <1>2, <1>3, CodesCollected
<1>8. /\ CodesGood(StepUpRecord, stepUps, s.issued.stepUps, s.actor.epoch)
      /\ Later(s.stepUps, s.issued.stepUps, stepUps, s.issued.stepUps)
  BY <1>2, <1>3, CodesCollected
<1>9. GrantsGood(grants, s.issued.stepUps) /\ GrantsLater(s.grants, grants)
  BY <1>2, GrantsCollected
<1> HIDE DEF roots, bootstraps, sessions, recoveries, stepUps, grants
<1>10. /\ IsStore(t) /\ t.actor = s.actor /\ t.issued = s.issued /\ t.ceremonies = s.ceremonies
       /\ t.roots = roots /\ t.bootstraps = bootstraps /\ t.sessions = sessions
       /\ t.recoveries = recoveries /\ t.stepUps = stepUps /\ t.grants = grants
  <2>1. IsStore(s)
    BY <1>2
  <2> QED
    BY <2>1 DEF IsStore, Field
<1> HIDE DEF t
<1>11. BootstrapsGood(t.bootstraps, t.issued.bootstraps, t.roots, t.actor)
  BY <1>4, <1>5, <1>10, BootstrapsStand
<1>12. StoreGood(t)
  BY <1>4, <1>6, <1>7, <1>8, <1>9, <1>10, <1>11 DEF StoreGood
<1>13. Step(s, t)
  BY <1>4, <1>5, <1>6, <1>7, <1>8, <1>9, <1>10, <1>12, StepReflexive DEF Step, Advance
<1>14. Step(t, w) /\ Same(t, w, {"ceremonies"})
  BY <1>12, GcCeremoniesStep
<1> HIDE DEF w
<1>15. Step(s, w)
  BY <1>13, <1>14, StepTwice
<1>16. RouteGood(s) => RouteGood(w)
  <2>1. w.roots = roots /\ w.actor = s.actor
    BY <1>10, <1>14 DEF Same, Field
  <2> QED
    BY <2>1, <1>4 DEF RouteGood
<1>17. Decision(s, Allow(w, {}))
  BY <1>15, <1>16, AllowDecision
<1> QED
  BY <1>1, <1>17

\* A ceremony begins, and the oldest tombstones go.
LEMMA CeremonyPutStep ==
    ASSUME NEW t, StoreGood(t), t.actor # None, ~(Cardinality(Running(t.ceremonies)) >= ActiveCapacity),
           NEW rec \in CeremonyRecord,
           NEW v, Same(t, v, {"ceremonies", "issued"}),
           v.ceremonies = Put(t.ceremonies, t.issued.ceremonies + 1, rec),
           v.issued = [t.issued EXCEPT !.ceremonies = t.issued.ceremonies + 1],
           NEW w, w = TrimTombstones(v)
    PROVE  Step(t, w) /\ w.roots = t.roots
<1> DEFINE f == t.ceremonies
           n == t.issued.ceremonies
           g == v.ceremonies
<1>1. /\ t.issued \in Counts /\ "ceremonies" \in Kind /\ n \in Nat /\ CeremoniesType(f, n)
  BY Counted DEF StoreGood, Kind, CeremoniesGood
<1>2. /\ v.issued \in Counts /\ v.issued.ceremonies = n + 1
      /\ v.issued.bootstraps = t.issued.bootstraps /\ v.issued.sessions = t.issued.sessions
      /\ v.issued.recoveries = t.issued.recoveries /\ v.issued.stepUps = t.issued.stepUps
      /\ v.issued.roots = t.issued.roots
  BY <1>1, CountedUp DEF Kind
<1>3. Extends(g, f, n, rec) /\ g \in [DOMAIN g -> CeremonyRecord]
  <2>1. Handles(f, n) /\ f \in [DOMAIN f -> CeremonyRecord] /\ g = Put(f, n + 1, rec)
    BY <1>1 DEF CeremoniesType
  <2>2. n \in Nat
    BY <1>1
  <2> HIDE DEF f, n, g
  <2> QED
    BY <2>1, <2>2, PutFacts, PutType
<1>4. CeremoniesType(g, n + 1) /\ IsStore(v)
  BY <1>3 DEF Extends, CeremoniesType, Same
<1>5. Cardinality(Running(g)) <= ActiveCapacity
  <2>1. IsFiniteSet(Running(f)) /\ ActiveCapacity \in Nat
    BY <1>1, CeremoniesFinite, PolicyAssumption DEF AuthPolicy
  <2>2. Running(g) \subseteq Running(f) \cup {n + 1}
    BY <1>3 DEF Running, Extends
  <2>3. /\ IsFiniteSet(Running(f) \cup {n + 1})
        /\ Cardinality(Running(f) \cup {n + 1}) <= Cardinality(Running(f)) + 1
        /\ Cardinality(Running(f)) \in Nat
    <3>1. Cardinality(Running(f)) \in Nat
      BY <2>1, FS_CardinalityType
    <3> DEFINE R == Running(f)
               x == n + 1
    <3>2. IsFiniteSet(R) /\ Cardinality(R) \in Nat
      BY <2>1, <3>1
    <3> HIDE DEF R, x
    <3>3. /\ IsFiniteSet(R \cup {x})
          /\ Cardinality(R \cup {x}) = Cardinality(R) \/ Cardinality(R \cup {x}) = Cardinality(R) + 1
      BY <3>2, FS_AddElement
    <3>4. Cardinality(R \cup {x}) <= Cardinality(R) + 1
      BY <3>2, <3>3
    <3> QED
      BY <3>1, <3>3, <3>4 DEF R, x
  <2>4. /\ Cardinality(Running(g)) <= Cardinality(Running(f) \cup {n + 1})
        /\ Cardinality(Running(g)) \in Nat /\ Cardinality(Running(f) \cup {n + 1}) \in Nat
    <3> HIDE DEF f, n, g
    <3> QED
      BY <2>2, <2>3, FS_Subset, FS_CardinalityType
  <2> QED
    BY <2>1, <2>3, <2>4
<1>6. /\ Same(v, w, {"ceremonies"}) /\ CeremoniesGood(w.ceremonies, n + 1)
      /\ DOMAIN w.ceremonies \subseteq DOMAIN g
      /\ \A c \in DOMAIN w.ceremonies : w.ceremonies[c] = g[c]
  <2>1. n + 1 \in Nat
    BY <1>1
  <2> QED
    BY <2>1, <1>4, <1>5, TrimFacts
<1>7. CeremoniesLater(f, n, w.ceremonies, n + 1)
  <2>1. n <= n + 1 /\ ~(n + 1 <= n)
    BY <1>1
  <2>2. \A c \in DOMAIN w.ceremonies : c <= n => c \in DOMAIN f /\ w.ceremonies[c] = f[c]
    BY <2>1, <1>3, <1>6 DEF Extends
  <2> HIDE DEF f, n, g
  <2> QED
    BY <2>1, <2>2 DEF CeremoniesLater
<1>8. /\ IsStore(w) /\ w.actor = t.actor /\ w.roots = t.roots /\ w.bootstraps = t.bootstraps
      /\ w.sessions = t.sessions /\ w.recoveries = t.recoveries /\ w.stepUps = t.stepUps
      /\ w.grants = t.grants /\ w.issued = v.issued
  BY <1>6 DEF Same, Field
<1>9. StoreGood(w)
  BY <1>2, <1>6, <1>8 DEF StoreGood
<1>10. Advance(t, w) /\ GrantsLater(t.grants, w.grants)
  BY <1>2, <1>7, <1>8, StepReflexive DEF Step, Advance
<1> QED
  BY <1>8, <1>9, <1>10 DEF Step

\* create_reprovision_ceremony
LEMMA CeremonyCreatedDecision ==
    ASSUME NEW s, StoreGood(s), NEW b, NEW now \in Nat
    PROVE  Decision(s, CeremonyCreated(s, b, now))
<1> DEFINE t == GcCeremonies(s, now)
           h == s.issued.ceremonies + 1
           rec == [bootstrap |-> b, expires |-> now + CeremonyTTL, terminal |-> None]
           v == [t EXCEPT !.ceremonies = Put(@, h, rec), !.issued.ceremonies = h]
           w == TrimTombstones(v)
<1>1. \A why : Decision(s, Deny(s, why))
  BY DenyAtOnce
<1>2. CASE b \notin DOMAIN s.bootstraps
  BY <1>1, <1>2 DEF CeremonyCreated
<1>3. CASE b \in DOMAIN s.bootstraps
  <2>1. CeremonyCreated(s, b, now) =
           IF ~ForReprovision(s.bootstraps[b]) THEN Deny(s, "WRONG_PURPOSE")
           ELSE IF s.bootstraps[b].root \notin DOMAIN s.roots THEN Deny(s, "STALE_EPOCH")
           ELSE IF Cardinality(Active(t)) >= ActiveCapacity THEN Deny(t, "CAPACITY_EXHAUSTED")
           ELSE Allow(w, {})
    BY <1>3 DEF CeremonyCreated
  <2>2. s.actor # None /\ b \in Nat \ {0}
    BY <1>3, Installed, Counted DEF StoreGood, BootstrapsGood, Handles
  <2>3. Step(s, t) /\ Same(s, t, {"ceremonies"})
    BY GcCeremoniesStep
  <2>4. rec \in CeremonyRecord
    BY <2>2, PolicyAssumption DEF CeremonyRecord, Instant, AuthPolicy
  <2>5. Active(t) = Running(t.ceremonies)
    BY DEF Active, Running
  <2> HIDE DEF t, rec
  <2>6. StoreGood(t) /\ t.actor # None /\ t.issued = s.issued /\ t.roots = s.roots
    BY <2>2, <2>3 DEF Step, Advance, Same, Field
  <2>7. /\ Same(t, v, {"ceremonies", "issued"})
        /\ v.ceremonies = Put(t.ceremonies, t.issued.ceremonies + 1, rec)
        /\ v.issued = [t.issued EXCEPT !.ceremonies = t.issued.ceremonies + 1]
    <3>1. IsStore(t) /\ h = t.issued.ceremonies + 1
      BY <2>6 DEF StoreGood
    <3> HIDE DEF h
    <3> QED
      BY <3>1 DEF IsStore, Same, Field
  <2> HIDE DEF v
  <2>8. /\ RouteGood(s) => RouteGood(t)
        /\ Decision(s, Deny(t, "CAPACITY_EXHAUSTED"))
    BY <2>2, <2>3, RouteSame, DenyDecision
  <2>9. ASSUME ~(Cardinality(Active(t)) >= ActiveCapacity)
        PROVE  Decision(s, Allow(w, {}))
    <3>1. Step(t, w) /\ w.roots = t.roots
      BY <2>4, <2>5, <2>6, <2>7, <2>9, CeremonyPutStep
    <3> HIDE DEF w
    <3>2. Step(s, w)
      BY <2>3, <3>1, StepTwice
    <3>3. RouteGood(s) => RouteGood(w)
      BY <2>2, <2>6, <3>1 DEF RouteGood
    <3> QED
      BY <3>2, <3>3, AllowDecision
  <2> HIDE DEF w
  <2> QED
    BY <1>1, <2>1, <2>8, <2>9
<1> QED
  BY <1>2, <1>3

\* A bootstrap code is presented.
LEMMA BootstrapPresented ==
    ASSUME NEW u, StoreGood(u), NEW h \in DOMAIN u.bootstraps, NEW ok \in BOOLEAN, NEW now \in Nat,
           NEW p, p = Present(u.bootstraps[h], ok, now, BootstrapTTL), NEW v, v = p.record,
           NEW t, Same(u, t, {"bootstraps"}), t.bootstraps = [u.bootstraps EXCEPT ![h] = v]
    PROVE  /\ Step(u, t) /\ DOMAIN t.bootstraps = DOMAIN u.bootstraps /\ t.bootstraps[h] = v
           /\ v \in BootstrapRecord
           /\ p.out = "ALLOWED" => v = u.bootstraps[h] /\ v.retired = None
<1>1. /\ BootstrapRecord \in Code /\ u.bootstraps \in [DOMAIN u.bootstraps -> BootstrapRecord]
      /\ u.bootstraps[h] \in BootstrapRecord /\ u.issued.bootstraps \in Nat
      /\ u.bootstraps[h].retired = None => u.bootstraps[h].attempts >= 1
      /\ BootstrapsGood(u.bootstraps, u.issued.bootstraps, u.roots, u.actor)
  BY Counted DEF StoreGood, BootstrapsGood, Stands, Code
<1>2. /\ v \in BootstrapRecord /\ Kept(u.bootstraps[h], v)
      /\ v.retired = None => u.bootstraps[h].retired = None /\ v.attempts >= 1
      /\ p.out = "ALLOWED" => v = u.bootstraps[h] /\ u.bootstraps[h].retired = None
  BY <1>1, PresentedRecord
<1>3. /\ BootstrapsGood(t.bootstraps, u.issued.bootstraps, u.roots, u.actor)
      /\ Later(u.bootstraps, u.issued.bootstraps, t.bootstraps, u.issued.bootstraps)
  BY <1>1, <1>2, BootstrapsReplaced
<1>4. DOMAIN t.bootstraps = DOMAIN u.bootstraps /\ t.bootstraps[h] = v
  OBVIOUS
<1>5. Step(u, t)
  BY <1>3, BootstrapsChange
<1> QED
  BY <1>2, <1>4, <1>5

\* A bootstrap without a root is spent.
LEMMA SpentStep ==
    ASSUME NEW s, StoreGood(s), NEW h \in DOMAIN s.bootstraps, s.bootstraps[h].retired = None,
           NEW v \in BootstrapRecord, v.retired # None,
           NEW t, Same(s, t, {"bootstraps"}), t.bootstraps = [s.bootstraps EXCEPT ![h] = v]
    PROVE  Step(s, t) /\ Over(t.bootstraps, t.issued.bootstraps, h)
<1>1. s.issued.bootstraps \in Nat
      /\ BootstrapsGood(s.bootstraps, s.issued.bootstraps, s.roots, s.actor)
  BY Counted DEF StoreGood
<1>2. /\ BootstrapsGood(t.bootstraps, s.issued.bootstraps, s.roots, s.actor)
      /\ Later(s.bootstraps, s.issued.bootstraps, t.bootstraps, s.issued.bootstraps)
      /\ Over(t.bootstraps, s.issued.bootstraps, h)
  BY <1>1, BootstrapsSpent
<1>3. t.issued = s.issued
  BY DEF Same, Field
<1> QED
  BY <1>2, <1>3, BootstrapsChange

\* A bootstrap is spent with its root; no other bootstrap is live.
LEMMA SpentWithRoot ==
    ASSUME NEW s, StoreGood(s), s.actor # None, NEW h \in DOMAIN s.bootstraps,
           s.bootstraps[h].retired = None, NEW v \in BootstrapRecord, v.retired # None,
           NEW root \in DOMAIN s.roots, NEW now \in Nat,
           NEW t, Same(s, t, {"actor", "roots", "bootstraps"}),
           t.actor \in ActorRecord, t.actor.epoch = s.actor.epoch,
           t.actor.observed = s.actor.observed,
           t.roots = [s.roots EXCEPT ![root] = now],
           t.bootstraps = [s.bootstraps EXCEPT ![h] = v]
    PROVE  /\ Step(s, t) /\ t.actor # None /\ Over(t.bootstraps, t.issued.bootstraps, h)
           /\ root.number \in Nat /\ root.number <= t.issued.roots /\ t.roots[root] # None
           /\ t.issued = s.issued
<1>1. /\ s.issued.bootstraps \in Nat /\ s.issued.roots \in Nat
      /\ BootstrapsGood(s.bootstraps, s.issued.bootstraps, s.roots, s.actor)
      /\ RootsGood(s.roots, s.issued.roots) /\ root.number \in Nat
  BY Counted DEF StoreGood, RootsGood, Root
<1>2. /\ BootstrapsGood(t.bootstraps, s.issued.bootstraps, t.roots, t.actor)
      /\ Later(s.bootstraps, s.issued.bootstraps, t.bootstraps, s.issued.bootstraps)
      /\ Over(t.bootstraps, s.issued.bootstraps, h)
  BY <1>1, BootstrapsSpent
<1>3. /\ RootsGood(t.roots, s.issued.roots)
      /\ RootsLater(s.roots, s.issued.roots, t.roots, s.issued.roots)
      /\ root.number <= s.issued.roots /\ t.roots[root] # None
  BY <1>1, RootsConsume
<1>4. /\ IsStore(t) /\ t.sessions = s.sessions /\ t.recoveries = s.recoveries
      /\ t.stepUps = s.stepUps /\ t.grants = s.grants /\ t.ceremonies = s.ceremonies
      /\ t.issued = s.issued
  BY DEF Same, Field
<1>5. t.actor # None /\ s.actor.epoch \in Nat /\ s.actor.observed \in Nat
  BY NoneAssumption, ActorFields
<1>6. s.actor.epoch <= t.actor.epoch /\ s.actor.observed <= t.actor.observed
  BY <1>5
<1>7. StoreGood(t)
  BY <1>2, <1>3, <1>4, <1>5 DEF StoreGood
<1>8. Advance(s, t) /\ GrantsLater(s.grants, t.grants)
  BY <1>2, <1>3, <1>4, <1>5, <1>6, StepReflexive DEF Step, Advance
<1> QED
  BY <1>1, <1>2, <1>3, <1>4, <1>5, <1>7, <1>8 DEF Step

\* The credentials that an exchange issues.
LEMMA ExchangeIssues ==
    ASSUME NEW s, StoreGood(s), s.actor # None, NEW now \in Nat,
           NEW w, w = IssueRecovery(IssueSession(s, now), now)
    PROVE  /\ Step(s, w) /\ StoreGood(w) /\ w.actor # None /\ w.roots = s.roots
           /\ w.issued.roots = s.issued.roots
<1> DEFINE i == IssueSession(s, now)
<1>1. Step(s, i) /\ Same(s, i, {"sessions", "issued"}) /\ i.issued.roots = s.issued.roots
  BY IssueSessionStep
<1>2. w = IssueRecovery(i, now)
  OBVIOUS
<1> HIDE DEF i
<1>3. StoreGood(i) /\ i.actor # None
  BY <1>1 DEF Step, Advance
<1>4. Step(i, w) /\ Same(i, w, {"recoveries", "issued"}) /\ w.issued.roots = i.issued.roots
  BY <1>2, <1>3, IssueRecoveryStep
<1>5. Step(s, w)
  BY <1>1, <1>4, StepTwice
<1>6. w.roots = s.roots /\ w.actor # None
  BY <1>1, <1>4 DEF Same, Field
<1> QED
  BY <1>1, <1>4, <1>5, <1>6 DEF Step

\* A bootstrap that a decision used up.
LEMMA UsedBootstrap ==
    ASSUME NEW s, NEW t, NEW h \in DOMAIN s.bootstraps, s.bootstraps[h].retired = None,
           Over(t.bootstraps, t.issued.bootstraps, h)
    PROVE  Usable(s, <<"bootstrap", h>>) /\ Consumed(t, <<"bootstrap", h>>)
<1> DEFINE x == <<"bootstrap", h>>
<1>1. x[1] = "bootstrap" /\ x[2] = h
  BY Pair
<1> HIDE DEF x
<1>2. Usable(s, x) /\ Consumed(t, x)
  BY <1>1 DEF Usable, Consumed
<1> QED
  BY <1>2 DEF x

\* A record that retires now.
LEMMA RetiredNow ==
    ASSUME NEW b \in BootstrapRecord, NEW now \in Nat, NEW z, z = [b EXCEPT !.retired = now]
    PROVE  z \in BootstrapRecord /\ z.retired # None
<1>1. BootstrapRecord \in Retirable /\ now # None
  BY NoInstant DEF Retirable
<1> QED
  BY <1>1, RetiredRecord

\* exchange_bootstrap
LEMMA BootstrapExchangedDecision ==
    ASSUME NEW s, StoreGood(s), NEW h, NEW ok \in BOOLEAN, NEW now \in Nat
    PROVE  Decision(s, BootstrapExchanged(s, h, ok, now))
<1> DEFINE root == s.bootstraps[h].root
           o == Observed(s, now)
           p == Present(s.bootstraps[h], ok, now, BootstrapTTL)
           v == p.record
           t == [o EXCEPT !.bootstraps[h] = v]
           u == [t EXCEPT !.bootstraps[h].retired = now]
           d == [ConsumeRoot(u, root, now) EXCEPT !.actor.initialized = TRUE]
           issue(y) == IssueRecovery(IssueSession(y, now), now)
           refused == root # None /\ (RootDenial(s, root, {root.purpose}) # "ALLOWED"
                                        \/ s.actor.initialized)
           used == {<<"bootstrap", h>>} \cup {<<"root", r>> : r \in {root} \ {None}}
<1>1. \A why : Decision(s, Deny(s, why))
  BY DenyAtOnce
<1>2. CASE h \notin DOMAIN s.bootstraps
  BY <1>1, <1>2 DEF BootstrapExchanged
<1>3. CASE h \in DOMAIN s.bootstraps /\ (ForReprovision(s.bootstraps[h]) \/ RolledBack(s, now))
  BY <1>1, <1>3 DEF BootstrapExchanged
<1>4. CASE /\ h \in DOMAIN s.bootstraps /\ ~ForReprovision(s.bootstraps[h])
           /\ ~RolledBack(s, now)
  <2>1. BootstrapExchanged(s, h, ok, now) =
           IF p.out # "ALLOWED" THEN Deny(t, p.out)
           ELSE IF refused THEN Deny(t, "STALE_EPOCH")
           ELSE Allow(issue(IF root = None THEN u ELSE d), used)
    BY <1>4 DEF BootstrapExchanged
  <2>2. s.actor # None
    BY <1>4, Installed
  <2>3. Step(s, o) /\ Same(s, o, {"actor"}) /\ o.actor # None
    BY <1>4, <2>2, ObservedStep
  <2>4. StoreGood(o) /\ o.roots = s.roots /\ o.bootstraps = s.bootstraps
    BY <2>3 DEF Step, Same, Field
  <2>5. Same(o, t, {"bootstraps"}) /\ t.bootstraps = [o.bootstraps EXCEPT ![h] = v]
    <3>1. IsStore(o)
      BY <2>4 DEF StoreGood
    <3> HIDE DEF o, p
    <3> QED
      BY <3>1 DEF IsStore, Same, Field
  <2> DEFINE z == [t.bootstraps[h] EXCEPT !.retired = now]
  <2>6. /\ Same(t, u, {"bootstraps"}) /\ u.bootstraps = [t.bootstraps EXCEPT ![h] = z]
        /\ Same(t, d, {"actor", "roots", "bootstraps"})
        /\ d.actor = [t.actor EXCEPT !.initialized = TRUE]
        /\ d.roots = [t.roots EXCEPT ![root] = now]
        /\ d.bootstraps = [t.bootstraps EXCEPT ![h] = z]
    <3>1. IsStore(t)
      BY <2>5 DEF Same
    <3> HIDE DEF t, root
    <3> QED
      BY <3>1 DEF IsStore, Same, Field, ConsumeRoot
  <2> HIDE DEF t, u, d
  <2>7. /\ Step(o, t) /\ DOMAIN t.bootstraps = DOMAIN o.bootstraps /\ t.bootstraps[h] = v
        /\ v \in BootstrapRecord
        /\ p.out = "ALLOWED" => v = s.bootstraps[h] /\ v.retired = None
    <3>1. h \in DOMAIN o.bootstraps /\ o.bootstraps[h] = s.bootstraps[h]
      BY <1>4, <2>4
    <3>2. p = Present(o.bootstraps[h], ok, now, BootstrapTTL) /\ v = p.record
      BY <3>1
    <3> HIDE DEF o, p, v
    <3> QED
      BY <3>1, <3>2, <2>4, <2>5, BootstrapPresented
  <2> HIDE DEF o, p, v
  <2>8. /\ Step(s, t) /\ StoreGood(t) /\ t.roots = s.roots /\ t.actor # None
        /\ h \in DOMAIN t.bootstraps
    <3>1. Step(s, t)
      BY <2>3, <2>7, StepTwice
    <3> QED
      BY <1>4, <2>2, <2>4, <2>5, <2>7, <3>1 DEF Step, Advance, Same, Field
  <2>9. \A why : Decision(s, Deny(t, why))
    <3>1. RouteGood(s) => RouteGood(t)
      BY <2>2, <2>8 DEF RouteGood
    <3> QED
      BY <3>1, <2>8, DenyDecision
  <2>10. z \in BootstrapRecord /\ z.retired # None
    BY <2>7, RetiredNow
  <2> HIDE DEF z
  <2>11. ASSUME p.out = "ALLOWED", root = None
         PROVE  Decision(s, Allow(issue(u), used))
    <3> DEFINE w == issue(u)
    <3>1. s.bootstraps[h].retired = None /\ t.bootstraps[h].retired = None
      BY <2>7, <2>11
    <3>2. Step(t, u) /\ Over(u.bootstraps, u.issued.bootstraps, h)
      BY <3>1, <2>6, <2>8, <2>10, SpentStep
    <3>3. StoreGood(u) /\ u.actor # None /\ u.roots = t.roots
      BY <3>2, <2>6, <2>8 DEF Step, Advance, Same, Field
    <3>4. Step(u, w) /\ w.roots = u.roots
      BY <3>3, ExchangeIssues
    <3> HIDE DEF w
    <3>5. Step(s, w)
      <4>1. Step(s, u)
        BY <3>2, <2>8, StepTwice
      <4> QED
        BY <4>1, <3>4, StepTwice
    <3>6. RouteGood(s) => RouteGood(w)
      BY <2>2, <2>8, <3>3, <3>4 DEF RouteGood
    <3>7. Usable(s, <<"bootstrap", h>>) /\ Consumed(u, <<"bootstrap", h>>)
      BY <1>4, <3>1, <3>2, UsedBootstrap
    <3>8. Consumed(w, <<"bootstrap", h>>)
      BY <3>3, <3>4, <3>7, ConsumedThen
    <3>9. used = {<<"bootstrap", h>>}
      BY <2>11
    <3>10. \A x \in used : Usable(s, x) /\ Consumed(w, x)
      BY <3>7, <3>8, <3>9
    <3> HIDE DEF used
    <3>11. Decision(s, Allow(w, used))
      BY <3>5, <3>6, <3>10, AllowDecision
    <3> QED
      BY <3>11 DEF w
  <2>12. ASSUME p.out = "ALLOWED", root # None, ~refused
         PROVE  Decision(s, Allow(issue(d), used))
    <3> DEFINE w == issue(d)
    <3>1. s.bootstraps[h].retired = None /\ t.bootstraps[h].retired = None
      BY <2>7, <2>12
    <3>2. root \in DOMAIN s.roots /\ s.roots[root] = None
      <4>1. RootDenial(s, root, {root.purpose}) = "ALLOWED"
        BY <2>12
      <4> QED
        BY <4>1, RootAdmitted
    <3>3. root.purpose # "REPROVISION"
      BY <1>4, <2>12 DEF ForReprovision
    <3> HIDE DEF root, refused
    <3>4. d.actor \in ActorRecord /\ d.actor.epoch = t.actor.epoch
          /\ d.actor.observed = t.actor.observed
      <4>1. t.actor \in ActorRecord
        BY <2>8, ActorFields
      <4> QED
        BY <4>1, <2>6 DEF ActorRecord
    <3>5. /\ Step(t, d) /\ d.actor # None /\ Over(d.bootstraps, d.issued.bootstraps, h)
          /\ root.number \in Nat /\ root.number <= d.issued.roots /\ d.roots[root] # None
      <4>1. /\ Same(t, d, {"actor", "roots", "bootstraps"})
            /\ d.roots = [t.roots EXCEPT ![root] = now]
            /\ d.bootstraps = [t.bootstraps EXCEPT ![h] = z]
        BY <2>6
      <4>2. /\ StoreGood(t) /\ t.actor # None /\ h \in DOMAIN t.bootstraps
            /\ t.bootstraps[h].retired = None /\ root \in DOMAIN t.roots
        BY <3>1, <3>2, <2>8
      <4> QED
        BY <4>1, <4>2, <3>4, <2>10, SpentWithRoot
    <3>6. StoreGood(d)
      BY <3>5 DEF Step
    <3>7. Step(d, w) /\ w.roots = d.roots
      BY <3>5, <3>6, ExchangeIssues
    <3> HIDE DEF w
    <3>8. Step(s, w)
      <4>1. Step(s, d)
        BY <3>5, <2>8, StepTwice
      <4> QED
        BY <4>1, <3>7, StepTwice
    <3>9. RouteGood(s) => RouteGood(w)
      <4>1. RootsGood(s.roots, s.issued.roots) /\ s.issued.roots \in Nat
        BY Counted DEF StoreGood
      <4>2. Route(s.roots) => Route(d.roots)
        BY <4>1, <3>2, <3>3, <2>6, <2>8, RouteStays
      <4> QED
        BY <4>2, <2>2, <3>7 DEF RouteGood
    <3>10. /\ Usable(s, <<"bootstrap", h>>) /\ Consumed(d, <<"bootstrap", h>>)
           /\ Usable(s, <<"root", root>>) /\ Consumed(d, <<"root", root>>)
      BY <1>4, <3>1, <3>2, <3>5, UsedBootstrap, UsedRoot
    <3>11. Consumed(w, <<"bootstrap", h>>) /\ Consumed(w, <<"root", root>>)
      BY <3>6, <3>7, <3>10, ConsumedThen
    <3>12. \A x \in used : x = <<"bootstrap", h>> \/ x = <<"root", root>>
      BY DEF root
    <3>13. \A x \in used : Usable(s, x) /\ Consumed(w, x)
      BY <3>10, <3>11, <3>12
    <3> HIDE DEF used
    <3>14. Decision(s, Allow(w, used))
      BY <3>8, <3>9, <3>13, AllowDecision
    <3> QED
      BY <3>14 DEF w
  <2> HIDE DEF root, refused, used, issue
  <2>13. CASE root = None
    <3>1. refused = FALSE
      BY <2>13 DEF refused
    <3> QED
      BY <3>1, <2>1, <2>9, <2>11, <2>13
  <2>14. CASE root # None
    BY <2>1, <2>9, <2>12, <2>14
  <2> QED
    BY <2>13, <2>14
<1> QED
  BY <1>2, <1>3, <1>4

\* A running ceremony burns, and the oldest tombstones go.
LEMMA CeremonyBurnt ==
    ASSUME NEW t, StoreGood(t), NEW c \in DOMAIN t.ceremonies, t.ceremonies[c].terminal = None,
           NEW r \in CeremonyRecord, r.terminal # None,
           NEW e, Same(t, e, {"ceremonies"}), e.ceremonies = [t.ceremonies EXCEPT ![c] = r],
           NEW b, b = TrimTombstones(e)
    PROVE  /\ Step(t, b) /\ Same(t, b, {"ceremonies"})
           /\ Usable(t, <<"ceremony", c>>) /\ Consumed(b, <<"ceremony", c>>)
<1> DEFINE f == t.ceremonies
           g == e.ceremonies
           n == t.issued.ceremonies
<1>1. n \in Nat /\ CeremoniesGood(f, n) /\ CeremoniesType(f, n) /\ c \in 1 .. n
  BY Counted DEF StoreGood, CeremoniesGood, CeremoniesType, Handles
<1>2. /\ DOMAIN g = DOMAIN f /\ g[c].terminal # None
      /\ \A k \in DOMAIN f : k # c => g[k] = f[k]
      /\ CeremoniesType(g, n)
  <2>1. f \in [DOMAIN f -> CeremonyRecord] /\ Handles(f, n) /\ g = [f EXCEPT ![c] = r]
        /\ c \in DOMAIN f
    BY <1>1 DEF CeremoniesType
  <2> HIDE DEF f, g, n
  <2>2. /\ DOMAIN g = DOMAIN f /\ g[c] = r /\ \A k \in DOMAIN f : k # c => g[k] = f[k]
        /\ g \in [DOMAIN g -> CeremonyRecord]
    BY <2>1
  <2> QED
    BY <2>1, <2>2 DEF CeremoniesType, Handles
<1>3. CeremoniesGood(g, n) /\ CeremoniesLater(f, n, g, n) /\ IsStore(e)
  <2>1. \A k \in DOMAIN g : g[k].terminal = None => f[k].terminal = None
    BY <1>2
  <2>2. n \in Nat /\ CeremoniesGood(f, n) /\ CeremoniesType(g, n) /\ DOMAIN g \subseteq DOMAIN f
    BY <1>1, <1>2
  <2> HIDE DEF f, g, n
  <2>3. CeremoniesGood(g, n) /\ CeremoniesLater(f, n, g, n)
    BY <2>1, <2>2, CeremoniesShrink
  <2> QED
    BY <2>3 DEF Same
<1>4. Step(t, e)
  BY <1>3, CeremoniesChange
<1>5. /\ Same(e, b, {"ceremonies"}) /\ CeremoniesGood(b.ceremonies, n)
      /\ DOMAIN b.ceremonies \subseteq DOMAIN g
      /\ \A k \in DOMAIN b.ceremonies : b.ceremonies[k] = g[k]
  BY <1>1, <1>2, <1>3, TrimFacts DEF CeremoniesGood
<1>6. CeremoniesLater(g, n, b.ceremonies, n)
  <2>1. CeremoniesType(b.ceremonies, n)
    BY <1>5 DEF CeremoniesGood
  <2> QED
    BY <2>1, <1>1, <1>3, <1>5, CeremoniesShrink
<1>7. e.issued = t.issued /\ b.issued = t.issued
  BY <1>5 DEF Same, Field
<1>8. Step(e, b)
  <2>1. StoreGood(e)
    BY <1>4 DEF Step
  <2> QED
    BY <2>1, <1>5, <1>6, <1>7, CeremoniesChange
<1>9. Step(t, b)
  BY <1>4, <1>8, StepTwice
<1>10. Same(t, b, {"ceremonies"})
  BY <1>5 DEF Same
<1>11. Usable(t, <<"ceremony", c>>) /\ Consumed(b, <<"ceremony", c>>)
  <2> DEFINE x == <<"ceremony", c>>
  <2>1. x[1] = "ceremony" /\ x[2] = c
    BY Pair
  <2>2. c \in 1 .. b.issued.ceremonies /\ (c \in DOMAIN b.ceremonies => b.ceremonies[c].terminal # None)
    BY <1>1, <1>2, <1>5, <1>7
  <2> HIDE DEF x, f, g, n
  <2>3. Usable(t, x)
    BY <2>1 DEF Usable
  <2>4. Consumed(b, x)
    BY <2>1, <2>2 DEF Consumed
  <2> QED
    BY <2>3, <2>4 DEF x
<1> QED
  BY <1>9, <1>10, <1>11

\* The exchange itself: the bootstrap and its root are spent, the old epoch
\* ends, and the new one has a session, a recovery code and a root.
LEMMA ReprovisionStep ==
    ASSUME NEW u, StoreGood(u), u.actor # None, NEW h \in DOMAIN u.bootstraps,
           u.bootstraps[h].retired = None, NEW v \in BootstrapRecord, v.retired # None,
           NEW root \in DOMAIN u.roots, u.roots[root] = None, root.purpose = "REPROVISION",
           NEW now \in Nat,
           NEW y, Same(u, y, {"roots", "bootstraps"}),
           y.roots = [u.roots EXCEPT ![root] = now],
           y.bootstraps = [u.bootstraps EXCEPT ![h] = v],
           NEW w, w = ReplacementRoot(IssueRecovery(IssueSession(NextEpoch(y, now), now), now))
    PROVE  /\ Step(u, w) /\ (RouteGood(u) => RouteGood(w))
           /\ Consumed(w, <<"bootstrap", h>>) /\ Consumed(w, <<"root", root>>)
<1> DEFINE d == NextEpoch(y, now)
           i == IssueRecovery(IssueSession(d, now), now)
           q == [purpose |-> "REPROVISION", number |-> i.issued.roots + 1]
<1>1. w = IssueRoot(i, "REPROVISION") /\ "REPROVISION" \in RootPurpose
  BY DEF ReplacementRoot, RootPurpose
<1>2. /\ Step(u, y) /\ y.actor # None /\ Over(y.bootstraps, y.issued.bootstraps, h)
      /\ root.number \in Nat /\ root.number <= y.issued.roots /\ y.roots[root] # None
      /\ y.issued = u.issued
  <2>1. Same(u, y, {"actor", "roots", "bootstraps"}) /\ y.actor = u.actor
    BY DEF Same, Field
  <2>2. y.actor \in ActorRecord
    BY <2>1, ActorFields
  <2> QED
    BY <2>1, <2>2, SpentWithRoot
<1>3. StoreGood(y)
  BY <1>2 DEF Step
<1>4. Consumed(y, <<"bootstrap", h>>) /\ Consumed(y, <<"root", root>>)
  BY <1>2, UsedBootstrap, UsedRoot
<1>5. /\ Step(y, d) /\ Same(y, d, {"actor", "sessions", "recoveries", "stepUps"})
      /\ d.actor # None
  BY <1>2, <1>3, NextEpochStep
<1> HIDE DEF d
<1>6. StoreGood(d) /\ d.roots = y.roots /\ d.issued = y.issued
  BY <1>5 DEF Step, Same, Field
<1>7. /\ Step(d, i) /\ StoreGood(i) /\ i.actor # None /\ i.roots = d.roots
      /\ i.issued.roots = d.issued.roots
  BY <1>5, <1>6, ExchangeIssues
<1> HIDE DEF i
<1>8. Step(i, w) /\ w.roots = Put(i.roots, q, None)
  BY <1>1, <1>7, IssueRootStep
<1>9. Step(y, w)
  <2>1. Step(y, i)
    BY <1>3, <1>5, <1>7, StepTwice
  <2> QED
    BY <2>1, <1>3, <1>8, StepTwice
<1>10. Step(u, w)
  BY <1>2, <1>9, StepTwice
<1>11. RouteGood(u) => RouteGood(w)
  <2> DEFINE n == u.issued.roots
             g == [u.roots EXCEPT ![root] = now]
             k == Put(g, [purpose |-> "REPROVISION", number |-> n + 1], None)
  <2>1. RootsGood(u.roots, u.issued.roots) /\ u.issued.roots \in Nat
    BY Counted DEF StoreGood
  <2>2. Route(u.roots) => Route(k)
    BY <2>1, RouteReplaced
  <2>3. w.roots = k
    BY <1>2, <1>6, <1>7, <1>8
  <2> HIDE DEF k
  <2> QED
    BY <2>2, <2>3 DEF RouteGood
<1> QED
  BY <1>3, <1>4, <1>9, <1>10, <1>11, ConsumedThen

\* exchange_reprovision_bootstrap
LEMMA ReprovisionExchangedDecision ==
    ASSUME NEW s, StoreGood(s), NEW h, NEW c, NEW ok \in BOOLEAN, NEW now \in Nat
    PROVE  Decision(s, ReprovisionExchanged(s, h, c, ok, now))
<1> DEFINE t == GcCeremonies(s, now)
           root == t.bootstraps[h].root
           e == [t EXCEPT !.ceremonies[c].terminal = now]
           burnt == TrimTombstones(e)
           p == Present(t.bootstraps[h], ok, now, BootstrapTTL)
           v == p.record
           o == Observed(burnt, now)
           u == [o EXCEPT !.bootstraps[h] = v]
           done == [NextEpoch(ConsumeRoot(u, root, now), now) EXCEPT !.bootstraps[h].retired = now]
           w == ReplacementRoot(IssueRecovery(IssueSession(done, now), now))
           used == {<<"bootstrap", h>>, <<"root", root>>, <<"ceremony", c>>}
           met == /\ c \in DOMAIN s.ceremonies /\ s.ceremonies[c].bootstrap = h
                  /\ c \in DOMAIN t.ceremonies /\ t.ceremonies[c].terminal = None
                  /\ h \in DOMAIN t.bootstraps /\ root \in DOMAIN t.roots
<1>1. /\ Step(s, t) /\ Same(s, t, {"ceremonies"}) /\ DOMAIN t.ceremonies \subseteq DOMAIN s.ceremonies
      /\ \A k \in DOMAIN t.ceremonies :
            t.ceremonies[k].terminal = None => s.ceremonies[k].terminal = None
  BY GcCeremoniesStep
<1>2. \A why : Decision(s, Deny(s, why)) /\ Decision(s, Deny(t, why))
  <2>1. \A why : Decision(s, Deny(s, why))
    BY DenyAtOnce
  <2>2. RouteGood(s) => RouteGood(t)
    BY <1>1 DEF RouteGood, Same, Field
  <2> HIDE DEF t
  <2> QED
    BY <1>1, <2>1, <2>2, DenyDecision
<1>3. CASE ~met
  <2>1. \/ ReprovisionExchanged(s, h, c, ok, now) = Deny(s, "INVALID_PROOF")
        \/ ReprovisionExchanged(s, h, c, ok, now) = Deny(t, "INVALID_PROOF")
        \/ ReprovisionExchanged(s, h, c, ok, now) = Deny(t, "TERMINAL")
        \/ ReprovisionExchanged(s, h, c, ok, now) = Deny(t, "WRONG_PURPOSE")
    <3> HIDE DEF t
    <3> QED
      BY <1>3 DEF ReprovisionExchanged, t
  <2> HIDE DEF t
  <2> QED
    BY <1>2, <2>1
<1>4. CASE met
  <2>1. ReprovisionExchanged(s, h, c, ok, now) =
           IF RolledBack(t, now) THEN Deny(burnt, "CLOCK_ROLLBACK")
           ELSE IF t.bootstraps[h].retired # None THEN Deny(u, "REPLAYED")
           ELSE IF p.out # "ALLOWED" THEN Deny(u, p.out)
           ELSE IF t.roots[root] # None \/ ~t.actor.initialized THEN Deny(u, "STALE_EPOCH")
           ELSE Allow(w, used)
    BY <1>4 DEF ReprovisionExchanged
  <2>2. /\ c \in DOMAIN t.ceremonies /\ t.ceremonies[c].terminal = None
        /\ h \in DOMAIN t.bootstraps /\ root \in DOMAIN t.roots /\ c \in DOMAIN s.ceremonies
        /\ StoreGood(t) /\ Advance(s, t)
    BY <1>1, <1>4 DEF Step
  <2> HIDE DEF t, met
  <2>3. /\ t.actor # None /\ s.actor # None /\ t.roots = s.roots /\ t.bootstraps = s.bootstraps
        /\ t.actor = s.actor
    BY <1>1, <2>2, Installed DEF Same, Field
  <2> DEFINE r == [t.ceremonies[c] EXCEPT !.terminal = now]
  <2>4. Same(t, e, {"ceremonies"}) /\ e.ceremonies = [t.ceremonies EXCEPT ![c] = r]
    <3>1. IsStore(t)
      BY <2>2 DEF StoreGood
    <3> QED
      BY <3>1 DEF IsStore, Same, Field
  <2>5. r \in CeremonyRecord /\ r.terminal # None
    <3>1. t.ceremonies[c] \in CeremonyRecord /\ now \in Instant /\ now # None
      BY <2>2, NoInstant DEF StoreGood, CeremoniesGood, CeremoniesType
    <3> QED
      BY <3>1, EndedCeremony
  <2> HIDE DEF e, r
  <2>6. /\ Step(t, burnt) /\ Same(t, burnt, {"ceremonies"})
        /\ Usable(t, <<"ceremony", c>>) /\ Consumed(burnt, <<"ceremony", c>>)
    BY <2>2, <2>4, <2>5, CeremonyBurnt
  <2> HIDE DEF burnt
  <2>7. /\ StoreGood(burnt) /\ burnt.roots = t.roots /\ burnt.bootstraps = t.bootstraps
        /\ burnt.actor = t.actor /\ Step(s, burnt)
    BY <1>1, <2>6, StepTwice DEF Step, Same, Field
  <2>8. Decision(s, Deny(burnt, "CLOCK_ROLLBACK"))
    <3>1. RouteGood(s) => RouteGood(burnt)
      BY <2>3, <2>7 DEF RouteGood
    <3> QED
      BY <3>1, <2>7, DenyDecision
  <2>9. ASSUME ~RolledBack(t, now)
        PROVE  /\ \A why : Decision(s, Deny(u, why))
               /\ t.bootstraps[h].retired = None /\ p.out = "ALLOWED" /\ t.roots[root] = None
                     /\ t.actor.initialized => Decision(s, Allow(w, used))
    <3>1. Step(burnt, o) /\ Same(burnt, o, {"actor"}) /\ o.actor # None
          /\ o.actor.initialized = t.actor.initialized
      <4>1. ~RolledBack(burnt, now) /\ burnt.actor # None
        BY <2>3, <2>7, <2>9 DEF RolledBack
      <4> QED
        BY <4>1, <2>7, ObservedStep
    <3>2. StoreGood(o) /\ o.roots = t.roots /\ o.bootstraps = t.bootstraps
      BY <3>1, <2>7 DEF Step, Same, Field
    <3>3. Same(o, u, {"bootstraps"}) /\ u.bootstraps = [o.bootstraps EXCEPT ![h] = v]
      <4>1. IsStore(o)
        BY <3>2 DEF StoreGood
      <4> HIDE DEF o, p
      <4> QED
        BY <4>1 DEF IsStore, Same, Field
    <3> DEFINE z == [u.bootstraps[h] EXCEPT !.retired = now]
               y == [u EXCEPT !.roots[root] = now, !.bootstraps[h] = z]
    <3>4. /\ Same(u, y, {"roots", "bootstraps"}) /\ y.roots = [u.roots EXCEPT ![root] = now]
          /\ y.bootstraps = [u.bootstraps EXCEPT ![h] = z]
          /\ done = NextEpoch(y, now)
      <4>1. IsStore(u)
        BY <3>3 DEF Same
      <4> HIDE DEF u, root
      <4>2. /\ Same(u, y, {"roots", "bootstraps"}) /\ y.roots = [u.roots EXCEPT ![root] = now]
            /\ y.bootstraps = [u.bootstraps EXCEPT ![h] = z]
        BY <4>1 DEF IsStore, Same, Field
      <4>3. done = NextEpoch(y, now)
        BY <4>1 DEF IsStore, Field, NextEpoch, RetireActorAuthority, ConsumeRoot
      <4> QED
        BY <4>2, <4>3
    <3>5. w = ReplacementRoot(IssueRecovery(IssueSession(NextEpoch(y, now), now), now))
      BY <3>4
    <3> HIDE DEF u, y, done, w
    <3>6. /\ Step(o, u) /\ DOMAIN u.bootstraps = DOMAIN o.bootstraps /\ u.bootstraps[h] = v
          /\ v \in BootstrapRecord
          /\ p.out = "ALLOWED" => v = t.bootstraps[h] /\ v.retired = None
      <4>1. h \in DOMAIN o.bootstraps /\ o.bootstraps[h] = t.bootstraps[h]
        BY <2>2, <3>2
      <4>2. p = Present(o.bootstraps[h], ok, now, BootstrapTTL) /\ v = p.record
        BY <4>1
      <4> HIDE DEF o, p, v
      <4> QED
        BY <4>1, <4>2, <3>2, <3>3, BootstrapPresented
    <3> HIDE DEF o, p, v
    <3>7. Step(s, u) /\ Step(burnt, u)
      <4>1. Step(burnt, u)
        BY <2>7, <3>1, <3>6, StepTwice
      <4> QED
        BY <4>1, <2>7, StepTwice
    <3>8. /\ StoreGood(u) /\ u.actor # None /\ u.roots = t.roots
          /\ u.actor.initialized = t.actor.initialized /\ h \in DOMAIN u.bootstraps
      BY <2>2, <3>1, <3>2, <3>3, <3>6 DEF Step, Same, Field
    <3>9. RouteGood(s) => RouteGood(u)
      BY <2>3, <3>8 DEF RouteGood
    <3>10. \A why : Decision(s, Deny(u, why))
      BY <3>7, <3>9, DenyDecision
    <3>11. ASSUME t.bootstraps[h].retired = None, p.out = "ALLOWED", t.roots[root] = None,
                  t.actor.initialized
           PROVE  Decision(s, Allow(w, used))
      <4>1. root.purpose = "REPROVISION"
        <5>1. Stands(t.bootstraps[h], t.roots, t.actor) /\ t.actor.initialized \in BOOLEAN
          BY <2>2, <2>3, <3>11, ActorFields DEF StoreGood, BootstrapsGood
        <5>2. root # None
          BY <2>2, NoneAssumption DEF StoreGood, RootsGood
        <5>3. t.actor.initialized # FALSE
          BY <3>11
        <5> QED
          BY <5>1, <5>2, <5>3 DEF Stands
      <4>2. z \in BootstrapRecord /\ z.retired # None
        BY <3>6, RetiredNow
      <4>3. root \in DOMAIN u.roots /\ u.roots[root] = None /\ u.bootstraps[h].retired = None
        BY <2>2, <3>6, <3>8, <3>11
      <4> HIDE DEF z, root
      <4>4. /\ Step(u, w) /\ (RouteGood(u) => RouteGood(w))
            /\ Consumed(w, <<"bootstrap", h>>) /\ Consumed(w, <<"root", root>>)
        BY <4>1, <4>2, <4>3, <3>4, <3>5, <3>8, ReprovisionStep
      <4>5. Consumed(w, <<"ceremony", c>>)
        <5>1. Step(burnt, w)
          BY <2>7, <3>7, <4>4, StepTwice
        <5> QED
          BY <5>1, <2>6, <2>7, ConsumedThen
      <4>6. Step(s, w)
        BY <3>7, <4>4, StepTwice
      <4>7. Usable(s, <<"bootstrap", h>>) /\ Usable(s, <<"root", root>>)
        <5>1. h \in DOMAIN s.bootstraps /\ s.bootstraps[h].retired = None
              /\ root \in DOMAIN s.roots /\ s.roots[root] = None
          BY <2>2, <2>3, <3>11
        <5> DEFINE x == <<"bootstrap", h>>
                   k == <<"root", root>>
        <5>2. x[1] = "bootstrap" /\ x[2] = h /\ k[1] = "root" /\ k[2] = root
          BY Pair
        <5> HIDE DEF x, k
        <5>3. Usable(s, x) /\ Usable(s, k)
          BY <5>1, <5>2 DEF Usable
        <5> QED
          BY <5>3 DEF x, k
      <4>8. Usable(s, <<"ceremony", c>>)
        <5>1. c \in DOMAIN s.ceremonies /\ s.ceremonies[c].terminal = None
          BY <1>1, <2>2
        <5> DEFINE x == <<"ceremony", c>>
        <5>2. x[1] = "ceremony" /\ x[2] = c
          BY Pair
        <5> HIDE DEF x
        <5>3. Usable(s, x)
          BY <5>1, <5>2 DEF Usable
        <5> QED
          BY <5>3 DEF x
      <4>9. \A x \in used : Usable(s, x) /\ Consumed(w, x)
        BY <4>4, <4>5, <4>7, <4>8
      <4>10. RouteGood(s) => RouteGood(w)
        BY <3>9, <4>4
      <4> HIDE DEF used
      <4> QED
        BY <4>6, <4>9, <4>10, AllowDecision
    <3> QED
      BY <3>10, <3>11
  <2> HIDE DEF root, p, u, w, used
  <2> QED
    BY <2>1, <2>8, <2>9
<1> QED
  BY <1>3, <1>4

-----------------------------------------------------------------------------
(* The inductive invariant.                                                *)

\* What was consumed stays consumed, a grant has consumed its step-up, and
\* what was found dead is dead.
History ==
    /\ \A x \in spent : Consumed(store, x) /\ (x[1] = "grant" => <<"stepUp", x[2]>> \in spent)
    /\ \A e \in DOMAIN store.grants : <<"stepUp", e>> \in spent
    /\ reused = FALSE
    /\ \A h \in dead : Dead(store, h)

AuthInv == StoreGood(store) /\ RouteGood(store) /\ History

\* Nothing is good.
LEMMA EmptyGood == StoreGood(EmptyStore) /\ RouteGood(EmptyStore)
<1> DEFINE s == EmptyStore
<1>1. /\ IsStore(s) /\ s.actor = None /\ s.issued \in Counts
      /\ \A k \in DOMAIN s.issued : s.issued[k] = 0
  BY DEF EmptyStore, IsStore, Field, Counts
<1>2. /\ s.roots = <<>> /\ s.bootstraps = <<>> /\ s.sessions = <<>> /\ s.recoveries = <<>>
      /\ s.stepUps = <<>> /\ s.grants = <<>> /\ s.ceremonies = <<>>
  BY DEF EmptyStore
<1>3. /\ s.issued.roots = 0 /\ s.issued.bootstraps = 0 /\ s.issued.sessions = 0
      /\ s.issued.recoveries = 0 /\ s.issued.stepUps = 0 /\ s.issued.ceremonies = 0
  BY DEF EmptyStore
<1> HIDE DEF s
<1>4. DOMAIN <<>> = {} /\ \A S : <<>> \in [{} -> S]
  OBVIOUS
<1>5. \A n, S : Handles(<<>>, n) /\ <<>> \in [DOMAIN <<>> -> S]
  BY <1>4 DEF Handles
<1>6. RootsGood(<<>>, 0)
  BY <1>4, <1>5 DEF RootsGood
<1>7. BootstrapsGood(<<>>, 0, <<>>, None)
  BY <1>4, <1>5 DEF BootstrapsGood
<1>8. \A epoch : SessionsGood(<<>>, 0, epoch)
  BY <1>4, <1>5 DEF SessionsGood
<1>9. \A S, epoch : CodesGood(S, <<>>, 0, epoch)
  BY <1>4, <1>5 DEF CodesGood
<1>10. GrantsGood(<<>>, 0)
  BY <1>5 DEF GrantsGood
<1>11. CeremoniesGood(<<>>, 0)
  <2>1. Running(<<>>) = {} /\ Cardinality({}) = 0
    BY <1>4, FS_EmptySet DEF Running
  <2>2. ActiveCapacity \in Nat /\ TombstoneCapacity \in Nat
    BY PolicyAssumption DEF AuthPolicy
  <2>3. 0 <= ActiveCapacity /\ 0 <= ActiveCapacity + TombstoneCapacity
    BY <2>2
  <2> QED
    BY <2>1, <2>3, <1>4, <1>5 DEF CeremoniesGood, CeremoniesType
<1>12. StoreGood(s)
  BY <1>1, <1>2, <1>3, <1>6, <1>7, <1>8, <1>9, <1>10, <1>11 DEF StoreGood
<1>13. RouteGood(s)
  BY <1>1 DEF RouteGood
<1> QED
  BY <1>12, <1>13 DEF s

\* The invariant holds initially.
LEMMA AuthInitially == Init => AuthInv
<1> SUFFICES ASSUME Init PROVE AuthInv
  OBVIOUS
<1>1. store = EmptyStore /\ spent = {} /\ dead = {} /\ reused = FALSE
  BY DEF Init
<1>2. DOMAIN store.grants = {}
  BY <1>1 DEF EmptyStore
<1>3. StoreGood(store) /\ RouteGood(store)
  BY <1>1, EmptyGood
<1>4. History
  BY <1>1, <1>2 DEF History
<1> QED
  BY <1>3, <1>4 DEF AuthInv

\* Taking a decision keeps the invariant: what it uses was usable, so nothing
\* that was spent before, and what it consumes stays consumed.
LEMMA TakeKeeps ==
    ASSUME AuthInv, NEW r, Decision(store, r), Take(r)
    PROVE  AuthInv'
<1>1. /\ store' = r.store /\ spent' = spent \cup r.used
      /\ reused' = (reused \/ r.used \cap spent # {}) /\ dead' = dead \cup r.dead
  BY DEF Take
<1>2. /\ StoreGood(store) /\ RouteGood(store)
      /\ \A x \in spent : Consumed(store, x) /\ (x[1] = "grant" => <<"stepUp", x[2]>> \in spent)
      /\ \A e \in DOMAIN store.grants : <<"stepUp", e>> \in spent
      /\ reused = FALSE
      /\ \A h \in dead : Dead(store, h)
  BY DEF AuthInv, History
<1>3. /\ StoreGood(r.store) /\ Advance(store, r.store) /\ RouteGood(r.store)
      /\ \A e \in DOMAIN r.store.grants :
            \/ e \in DOMAIN store.grants
               /\ (store.grants[e].used = TRUE => r.store.grants[e].used = TRUE)
            \/ <<"stepUp", e>> \in r.used
      /\ \A x \in r.used : Usable(store, x) /\ Consumed(r.store, x)
      /\ \A h \in r.dead : Dead(r.store, h)
  BY <1>2 DEF Decision
<1>4. \A x \in r.used : x \notin spent
  BY <1>2, <1>3, ConsumedIsNotUsable
<1>5. reused' = FALSE
  BY <1>1, <1>2, <1>4
<1>6. ASSUME NEW x \in spent PROVE Consumed(r.store, x)
  <2>1. Consumed(store, x)
    BY <1>2
  <2>2. ASSUME x[1] = "grant", x[2] \in DOMAIN r.store.grants
        PROVE  r.store.grants[x[2]].used = TRUE
    <3>1. x[2] \in DOMAIN store.grants => store.grants[x[2]].used = TRUE
      BY <2>1, <2>2 DEF Consumed
    <3>2. <<"stepUp", x[2]>> \notin r.used
      BY <1>2, <1>4, <2>2
    <3> QED
      BY <3>1, <3>2, <2>2, <1>3
  <2> QED
    BY <2>1, <2>2, <1>2, <1>3, ConsumedStays
<1>7. ASSUME NEW x \in r.used, x[1] = "grant" PROVE <<"stepUp", x[2]>> \in spent
  <2>1. x[2] \in DOMAIN store.grants
    BY <1>3, <1>7 DEF Usable
  <2> QED
    BY <2>1, <1>2
<1>8. \A x \in spent' : Consumed(r.store, x) /\ (x[1] = "grant" => <<"stepUp", x[2]>> \in spent')
  BY <1>1, <1>2, <1>3, <1>6, <1>7
<1>9. \A e \in DOMAIN r.store.grants : <<"stepUp", e>> \in spent'
  BY <1>1, <1>2, <1>3
<1>10. \A h \in dead' : Dead(r.store, h)
  BY <1>1, <1>2, <1>3, DeadStays
<1>11. History'
  BY <1>1, <1>5, <1>8, <1>9, <1>10 DEF History
<1> QED
  BY <1>1, <1>3, <1>11 DEF AuthInv

\* What a call does: it takes the outcome of a decision.
Taken == \E r : Decision(store, r) /\ Take(r)

\* Every call takes the outcome of its decision.
LEMMA NextDecides ==
    ASSUME AuthInv, Next
    PROVE  Taken
<1>1. StoreGood(store) /\ Retention \subseteq Nat /\ Time \subseteq Nat
  BY PolicyAssumption DEF AuthInv, AuthPolicy, Time
<1>2. PICK now \in Time : Next!(now)
  BY DEF Next
<1>3. now \in Nat
  BY <1>1
<1>4. CASE Provision(now)
  BY <1>4, <1>1, <1>3, InstallationInitializedDecision DEF Taken, Provision
<1>5. ASSUME NEW root \in IssuedRoots, BeginBootstrap(root, now) PROVE Taken
  <2>1. Decision(store, RootBootstrapCreated(store, root, {"INITIAL_BOOTSTRAP", "REPROVISION"}, now))
    BY <1>1, <1>3, RootBootstrapCreatedDecision
  <2> QED
    BY <2>1, <1>5 DEF Taken, BeginBootstrap
<1>6. ASSUME NEW root \in IssuedRoots, BeginReprovision(root, now) PROVE Taken
  <2>1. Decision(store, RootBootstrapCreated(store, root, {"REPROVISION"}, now))
    BY <1>1, <1>3, RootBootstrapCreatedDecision
  <2> QED
    BY <2>1, <1>6 DEF Taken, BeginReprovision, ReprovisionBootstrapCreated
<1>7. ASSUME NEW root \in IssuedRoots, EmergencyRevoke(root, now) PROVE Taken
  BY <1>7, <1>1, <1>3, EmergencyRevokedDecision DEF Taken, EmergencyRevoke
<1>8. ASSUME NEW b, CancelBootstrap(b, now) PROVE Taken
  BY <1>8, <1>1, <1>3, BootstrapCancelledDecision DEF Taken, CancelBootstrap
<1>9. ASSUME NEW b, AuthorizeReprovisionCeremony(b, now) PROVE Taken
  BY <1>9, <1>1, <1>3, CeremonyCreatedDecision DEF Taken, AuthorizeReprovisionCeremony
<1>10. ASSUME NEW b, NEW ok \in BOOLEAN, ExchangeBootstrap(b, ok, now) PROVE Taken
  BY <1>10, <1>1, <1>3, BootstrapExchangedDecision DEF Taken, ExchangeBootstrap
<1>11. ASSUME NEW b, NEW c, NEW ok \in BOOLEAN, ExchangeConfirmedReprovision(b, c, ok, now)
       PROVE  Taken
  BY <1>11, <1>1, <1>3, ReprovisionExchangedDecision DEF Taken, ExchangeConfirmedReprovision
<1>12. ASSUME NEW h, AuthenticateSession(h, now) PROVE Taken
  BY <1>12, <1>1, <1>3, SessionAuthenticatedDecision DEF Taken, AuthenticateSession
<1>13. ASSUME NEW h, RotateSession(h, now) PROVE Taken
  BY <1>13, <1>1, <1>3, SessionRotatedDecision DEF Taken, RotateSession
<1>14. ASSUME NEW h, RevokeSession(h, now) PROVE Taken
  BY <1>14, <1>1, <1>3, SessionRevokedDecision DEF Taken, RevokeSession
<1>15. ASSUME NEW h, NEW purpose \in Purpose, IssueStepUp(h, purpose, now) PROVE Taken
  BY <1>15, <1>1, <1>3, StepUpCreatedDecision DEF Taken, IssueStepUp
<1>16. ASSUME NEW h, NEW purpose \in Purpose, NEW c, NEW ok \in BOOLEAN,
              ConsumeStepUp(c, ok, h, purpose, now)
       PROVE  Taken
  BY <1>16, <1>1, <1>3, StepUpConsumedDecision DEF Taken, ConsumeStepUp
<1>17. ASSUME NEW h, NEW e, BeginAuthenticatedBootstrap(h, e, now) PROVE Taken
  BY <1>17, <1>1, <1>3, AuthenticatedBootstrapCreatedDecision
     DEF Taken, BeginAuthenticatedBootstrap
<1>18. ASSUME NEW h, NEW e, RenewRecovery(h, e, now) PROVE Taken
  BY <1>18, <1>1, <1>3, RecoveryRenewedDecision DEF Taken, RenewRecovery
<1>19. ASSUME NEW h, NEW e, RevokeAllAuthenticated(h, e, now) PROVE Taken
  BY <1>19, <1>1, <1>3, AllRevokedDecision DEF Taken, RevokeAllAuthenticated
<1>20. ASSUME NEW h, NEW e, ValidateGrant(h, e, now) PROVE Taken
  BY <1>20, <1>1, <1>3, GrantValidatedDecision DEF Taken, ValidateGrant
<1>21. ASSUME NEW h, NEW ok \in BOOLEAN, Recover(h, ok, now) PROVE Taken
  BY <1>21, <1>1, <1>3, RecoveredDecision DEF Taken, Recover
<1>22. ASSUME NEW retention \in Retention, GarbageCollect(retention, now) PROVE Taken
  <2>1. retention \in Nat
    BY <1>1, <1>22
  <2> QED
    BY <2>1, <1>22, <1>1, <1>3, GarbageCollectedDecision DEF Taken, GarbageCollect
<1> QED
  BY <1>2, <1>4, <1>5, <1>6, <1>7, <1>8, <1>9, <1>10, <1>11, <1>12, <1>13, <1>14, <1>15, <1>16,
     <1>17, <1>18, <1>19, <1>20, <1>21, <1>22

\* Every call keeps the invariant, and goes on from what there was.
LEMMA NextKeeps ==
    ASSUME AuthInv, Next
    PROVE  AuthInv' /\ Advance(store, store')
<1>1. PICK r : Decision(store, r) /\ Take(r)
  BY NextDecides DEF Taken
<1>2. Advance(store, store')
  BY <1>1 DEF Decision, Take
<1> QED
  BY <1>1, <1>2, TakeKeeps

\* The invariant reads the variables of the store only.
LEMMA StutterKeeps ==
    ASSUME AuthInv, UNCHANGED vars
    PROVE  AuthInv'
BY DEF AuthInv, History, vars

\* The invariant holds in every behaviour of the store.
THEOREM AuthInvHolds == Spec => []AuthInv
<1>1. AuthInv /\ [Next]_vars => AuthInv'
  BY NextKeeps, StutterKeeps
<1> QED
  BY <1>1, AuthInitially, PTL DEF Spec

-----------------------------------------------------------------------------
(* What the invariant says.                                                *)

\* The records and the counters have their types.
LEMMA InvType == AuthInv => TypeOK
<1> SUFFICES ASSUME AuthInv PROVE TypeOK
  OBVIOUS
<1>1. StoreGood(store) /\ reused = FALSE /\ \A h \in dead : Dead(store, h)
  BY DEF AuthInv, History
<1>2. \A n : \A h \in 1 .. n : h \in Nat \ {0}
  OBVIOUS
<1>3. Table(store.bootstraps, BootstrapRecord)
  BY <1>1, <1>2 DEF StoreGood, BootstrapsGood, Handles, Table
<1>4. Table(store.sessions, SessionRecord)
  BY <1>1, <1>2 DEF StoreGood, SessionsGood, Handles, Table
<1>5. Table(store.recoveries, RecoveryRecord) /\ Table(store.stepUps, StepUpRecord)
  BY <1>1, <1>2 DEF StoreGood, CodesGood, Handles, Table
<1>6. Table(store.grants, GrantRecord)
  BY <1>1, <1>2 DEF StoreGood, GrantsGood, Handles, Table
<1>7. Table(store.ceremonies, CeremonyRecord)
  BY <1>1, <1>2 DEF StoreGood, CeremoniesGood, CeremoniesType, Handles, Table
<1>8. /\ DOMAIN store.roots \subseteq Root
      /\ \A r \in DOMAIN store.roots : store.roots[r] \in Instant
  BY <1>1 DEF StoreGood, RootsGood
<1>9. \A k \in DOMAIN store.issued : store.issued[k] \in Nat
  BY <1>1 DEF StoreGood, Counts
<1>10. dead \subseteq Nat
  BY <1>1, <1>2 DEF Dead
<1>11. store.actor \in ActorRecord \cup {None}
  BY <1>1 DEF StoreGood
<1> QED
  BY <1>1, <1>3, <1>4, <1>5, <1>6, <1>7, <1>8, <1>9, <1>10, <1>11 DEF TypeOK

\* A live root bootstrap stands on a live root that is admissible.
LEMMA InvStands == AuthInv => BootstrapStands
<1> SUFFICES ASSUME AuthInv, NEW b \in DOMAIN store.bootstraps,
                    store.bootstraps[b].retired = None, store.bootstraps[b].root # None
             PROVE  LET root == store.bootstraps[b].root
                    IN  /\ RootDenial(store, root, {"INITIAL_BOOTSTRAP", "REPROVISION"}) = "ALLOWED"
                        /\ (root.purpose = "REPROVISION") = store.actor.initialized
  BY DEF BootstrapStands
<1> DEFINE root == store.bootstraps[b].root
<1>1. StoreGood(store)
  BY DEF AuthInv
<1>2. Stands(store.bootstraps[b], store.roots, store.actor)
  BY <1>1 DEF StoreGood, BootstrapsGood
<1>3. /\ root \in DOMAIN store.roots /\ store.roots[root] = None
      /\ \/ root.purpose = "REPROVISION" /\ store.actor.initialized = TRUE
         \/ root.purpose = "INITIAL_BOOTSTRAP" /\ store.actor.initialized = FALSE
  BY <1>2 DEF Stands
<1>4. RootDenial(store, root, {"INITIAL_BOOTSTRAP", "REPROVISION"}) = "ALLOWED"
  BY <1>3 DEF RootDenial
<1>5. (root.purpose = "REPROVISION") = store.actor.initialized
  <2>1. CASE root.purpose = "REPROVISION" /\ store.actor.initialized = TRUE
    BY <2>1
  <2>2. CASE root.purpose = "INITIAL_BOOTSTRAP" /\ store.actor.initialized = FALSE
    BY <2>2
  <2> QED
    BY <2>1, <2>2, <1>3
<1> QED
  BY <1>4, <1>5

\* There is one route back into an installation.
LEMMA InvRoute == AuthInv => ReprovisionRoute
<1> SUFFICES ASSUME AuthInv, store.actor # None
             PROVE  Cardinality({root \in DOMAIN store.roots :
                        root.purpose = "REPROVISION" /\ store.roots[root] = None}) = 1
  BY DEF ReprovisionRoute
<1>1. Route(store.roots)
  BY DEF AuthInv, RouteGood
<1>2. PICK r \in DOMAIN store.roots : \A q \in DOMAIN store.roots :
         (q.purpose = "REPROVISION" /\ store.roots[q] = None) <=> q = r
  BY <1>1 DEF Route
<1>3. {root \in DOMAIN store.roots : root.purpose = "REPROVISION" /\ store.roots[root] = None} = {r}
  BY <1>2
<1> QED
  BY <1>3, FS_Singleton

\* The ceremonies are within their capacities.
LEMMA InvRetention == AuthInv => CeremonyRetention
<1>1. Active(store) = Running(store.ceremonies)
  BY DEF Active, Running
<1> QED
  BY <1>1 DEF AuthInv, StoreGood, CeremoniesGood, CeremonyRetention

\* What is not retired is of the epoch.
LEMMA InvFence == AuthInv => EpochFence
<1> SUFFICES ASSUME AuthInv PROVE EpochFence
  OBVIOUS
<1>1. StoreGood(store)
  BY DEF AuthInv
<1>2. \A h \in DOMAIN store.sessions :
         store.sessions[h].retired = None => store.sessions[h].epoch = store.actor.epoch
  BY <1>1 DEF StoreGood, SessionsGood
<1>3. /\ \A h \in DOMAIN store.recoveries :
            store.recoveries[h].retired = None => store.recoveries[h].epoch = store.actor.epoch
      /\ \A h \in DOMAIN store.stepUps :
            store.stepUps[h].retired = None => store.stepUps[h].epoch = store.actor.epoch
  BY <1>1 DEF StoreGood, CodesGood
<1>4. ASSUME NEW kind \in {"sessions", "recoveries", "stepUps"}
      PROVE  \A h \in DOMAIN store[kind] :
                store[kind][h].retired = None => store[kind][h].epoch = store.actor.epoch
  <2>1. CASE kind = "sessions"
    BY <2>1, <1>2
  <2>2. CASE kind = "recoveries"
    BY <2>2, <1>3
  <2>3. CASE kind = "stepUps"
    BY <2>3, <1>3
  <2> QED
    BY <2>1, <2>2, <2>3
<1> QED
  BY <1>4 DEF EpochFence

\* The dead are not authenticated, at any instant.
LEMMA InvDead == AuthInv => DeadStaysDead
<1> SUFFICES ASSUME AuthInv, NEW h \in dead, NEW now \in Time,
                    Allowed(SessionAuthenticated(store, h, now))
             PROVE  FALSE
  BY DEF DeadStaysDead
<1> DEFINE r == SessionAuthenticated(store, h, now)
<1>1. StoreGood(store) /\ Dead(store, h) /\ now \in Nat
  BY PolicyAssumption DEF AuthInv, History, AuthPolicy, Time
<1>2. Authentic(store, h, now)
  <2>1. r = SessionAuthenticated(store, h, now) /\ Allowed(r)
    OBVIOUS
  <2> HIDE DEF r
  <2> QED
    BY <2>1, <1>1, SessionAuthenticatedDecision
<1>3. /\ h \in DOMAIN store.sessions /\ store.sessions[h].retired = None
      /\ store.sessions[h].epoch = store.actor.epoch /\ ~RolledBack(store, now)
      /\ store.actor # None
  BY <1>2 DEF Authentic
<1>4. store.sessions[h].expires \in Nat /\ store.actor.epoch \in Nat /\ store.actor.observed \in Nat
  BY <1>1, <1>3, ActorFields DEF StoreGood, SessionsGood, SessionRecord
<1>5. store.sessions[h].expires <= store.actor.observed
  BY <1>1, <1>3, <1>4 DEF Dead
<1>6. now >= store.sessions[h].expires
  BY <1>1, <1>3, <1>4, <1>5 DEF RolledBack
<1>7. TimeDenial(now, store.sessions[h].expires, SessionTTL) # "ALLOWED"
  BY <1>6 DEF TimeDenial
<1>8. r.out # "ALLOWED"
  BY <1>3, <1>7 DEF SessionAuthenticated, Deny, Allow
<1> QED
  BY <1>8 DEF Allowed

-----------------------------------------------------------------------------
(* The row.                                                                *)

\* The records of f as the codec reads them back.
ReadBack(E) == [h \in {e[1] : e \in E} |-> (CHOOSE e \in E : e[1] = h)[2]]

\* Reading the entries of a table gives the table.
LEMMA EntriesRead ==
    ASSUME NEW f, f = [h \in DOMAIN f |-> f[h]]
    PROVE  ReadBack(Entries(f)) = f
<1> DEFINE E == Entries(f)
<1>1. \A e : e \in E <=> \E h \in DOMAIN f : e = <<h, f[h]>>
  BY DEF Entries
<1>2. \A h \in DOMAIN f : <<h, f[h]>> \in E
  BY <1>1
<1>3. {e[1] : e \in E} = DOMAIN f
  <2>1. \A e \in E : e[1] \in DOMAIN f
    BY <1>1, Pair
  <2>2. \A h \in DOMAIN f : \E e \in E : e[1] = h
    BY <1>2, Pair
  <2> HIDE DEF E
  <2> QED
    BY <2>1, <2>2
<1>4. ASSUME NEW h \in DOMAIN f PROVE (CHOOSE e \in E : e[1] = h)[2] = f[h]
  <2>1. \A e \in E : e[1] = h => e = <<h, f[h]>>
    BY <1>1
  <2>2. \E e \in E : e[1] = h
    BY <1>2
  <2> HIDE DEF E
  <2> DEFINE d == CHOOSE e \in E : e[1] = h
  <2>3. d \in E /\ d[1] = h
    BY <2>2
  <2> HIDE DEF d
  <2>4. d[2] = f[h]
    BY <2>1, <2>3, Pair
  <2> QED
    BY <2>4 DEF d
<1> HIDE DEF E
<1>5. ReadBack(E) = [h \in DOMAIN f |-> f[h]]
  BY <1>3, <1>4 DEF ReadBack
<1> QED
  BY <1>5 DEF E

\* The tables of a store are functions.
LEMMA Tables ==
    ASSUME NEW s, StoreGood(s)
    PROVE  /\ s.roots \in [DOMAIN s.roots -> Instant]
           /\ s.bootstraps \in [DOMAIN s.bootstraps -> BootstrapRecord]
           /\ s.sessions \in [DOMAIN s.sessions -> SessionRecord]
           /\ s.recoveries \in [DOMAIN s.recoveries -> RecoveryRecord]
           /\ s.stepUps \in [DOMAIN s.stepUps -> StepUpRecord]
           /\ s.grants \in [DOMAIN s.grants -> GrantRecord]
           /\ s.ceremonies \in [DOMAIN s.ceremonies -> CeremonyRecord]
BY DEF StoreGood, RootsGood, BootstrapsGood, SessionsGood, CodesGood, GrantsGood, CeremoniesGood,
       CeremoniesType

\* What a snapshot keeps is restored.
LEMMA SnapshotRestores ==
    ASSUME NEW s, StoreGood(s)
    PROVE  Restore(Snapshot(s), s.issued) = s
<1> DEFINE doc == Snapshot(s)
           t == Restore(doc, s.issued)
<1>1. /\ doc.records["roots"] = Entries(s.roots)
      /\ doc.records["bootstraps"] = Entries(s.bootstraps)
      /\ doc.records["sessions"] = Entries(s.sessions)
      /\ doc.records["recoveries"] = Entries(s.recoveries)
      /\ doc.records["stepUps"] = Entries(s.stepUps)
      /\ doc.records["grants"] = Entries(s.grants)
      /\ doc.records["ceremonies"] = Entries(s.ceremonies)
      /\ doc.actors = {s.actor} \ {None}
  BY DEF Snapshot, Collection
<1> HIDE DEF doc
<1>2. (IF doc.actors = {} THEN None ELSE CHOOSE a \in doc.actors : TRUE) = s.actor
  <2>1. CASE s.actor = None
    BY <2>1, <1>1
  <2>2. CASE s.actor # None
    <3>1. doc.actors = {s.actor}
      BY <2>2, <1>1
    <3>2. (CHOOSE a \in doc.actors : TRUE) \in doc.actors
      BY <3>1
    <3> QED
      BY <3>1, <3>2
  <2> QED
    BY <2>1, <2>2
<1>3. t = [actor |-> IF doc.actors = {} THEN None ELSE CHOOSE a \in doc.actors : TRUE,
           roots |-> ReadBack(doc.records["roots"]), bootstraps |-> ReadBack(doc.records["bootstraps"]),
           sessions |-> ReadBack(doc.records["sessions"]),
           recoveries |-> ReadBack(doc.records["recoveries"]),
           stepUps |-> ReadBack(doc.records["stepUps"]), grants |-> ReadBack(doc.records["grants"]),
           ceremonies |-> ReadBack(doc.records["ceremonies"]), issued |-> s.issued]
  BY DEF Restore, ReadBack
<1> HIDE DEF t
<1>4. /\ ReadBack(Entries(s.roots)) = s.roots /\ ReadBack(Entries(s.bootstraps)) = s.bootstraps
      /\ ReadBack(Entries(s.sessions)) = s.sessions /\ ReadBack(Entries(s.recoveries)) = s.recoveries
      /\ ReadBack(Entries(s.stepUps)) = s.stepUps /\ ReadBack(Entries(s.grants)) = s.grants
      /\ ReadBack(Entries(s.ceremonies)) = s.ceremonies
  <2>1. \A S, f : f \in [DOMAIN f -> S] => f = [h \in DOMAIN f |-> f[h]]
    OBVIOUS
  <2> QED
    BY <2>1, Tables, EntriesRead
<1>5. t = [actor |-> s.actor, roots |-> s.roots, bootstraps |-> s.bootstraps,
           sessions |-> s.sessions, recoveries |-> s.recoveries, stepUps |-> s.stepUps,
           grants |-> s.grants, ceremonies |-> s.ceremonies, issued |-> s.issued]
  BY <1>1, <1>2, <1>3, <1>4
<1>6. IsStore(s)
  BY DEF StoreGood
<1>7. t = s
  BY <1>5, <1>6 DEF IsStore, Field
<1> QED
  BY <1>7 DEF t, doc

\* The entries of a table, of records that a row may hold.
LEMMA EntriesType ==
    ASSUME NEW f, NEW K, NEW S, NEW V, f \in [DOMAIN f -> S], DOMAIN f \subseteq K, S \subseteq V
    PROVE  Entries(f) \in SUBSET (K \X V)
BY DEF Entries

\* What is written is a row, so not None.
LEMMA RowWritten ==
    ASSUME NEW s, StoreGood(s)
    PROVE  [doc |-> Snapshot(s), registry |-> AuthorityRegistry(s)] # None
<1> DEFINE K == Nat \cup Root
           V == UNION {Instant, BootstrapRecord, SessionRecord, RecoveryRecord, StepUpRecord,
                       GrantRecord, CeremonyRecord}
<1>1. /\ Instant \subseteq V /\ BootstrapRecord \subseteq V /\ SessionRecord \subseteq V
      /\ RecoveryRecord \subseteq V /\ StepUpRecord \subseteq V /\ GrantRecord \subseteq V
      /\ CeremonyRecord \subseteq V
  OBVIOUS
<1>2. \A n : 1 .. n \subseteq K
  OBVIOUS
<1>3. /\ DOMAIN s.roots \subseteq K /\ DOMAIN s.bootstraps \subseteq K
      /\ DOMAIN s.sessions \subseteq K /\ DOMAIN s.recoveries \subseteq K
      /\ DOMAIN s.stepUps \subseteq K /\ DOMAIN s.grants \subseteq K
      /\ DOMAIN s.ceremonies \subseteq K
  <2>1. DOMAIN s.roots \subseteq K
    BY DEF StoreGood, RootsGood
  <2> HIDE DEF K
  <2> QED
    BY <2>1, <1>2 DEF StoreGood, BootstrapsGood, SessionsGood, CodesGood, GrantsGood,
                      CeremoniesGood, CeremoniesType, Handles
<1> HIDE DEF K, V
<1>4. /\ Entries(s.roots) \in SUBSET (K \X V) /\ Entries(s.bootstraps) \in SUBSET (K \X V)
      /\ Entries(s.sessions) \in SUBSET (K \X V) /\ Entries(s.recoveries) \in SUBSET (K \X V)
      /\ Entries(s.stepUps) \in SUBSET (K \X V) /\ Entries(s.grants) \in SUBSET (K \X V)
      /\ Entries(s.ceremonies) \in SUBSET (K \X V)
  BY <1>1, <1>3, Tables, EntriesType
<1>5. [name \in Collection |-> Entries(s[name])] \in [Collection -> SUBSET (K \X V)]
  <2>1. ASSUME NEW name \in Collection PROVE Entries(s[name]) \in SUBSET (K \X V)
    BY <1>4 DEF Collection
  <2> QED
    BY <2>1
<1>6. {s.actor} \ {None} \in SUBSET ActorRecord
  BY DEF StoreGood
<1>7. Snapshot(s) \in Document
  BY <1>5, <1>6 DEF Snapshot, Document, K, V
<1>8. AuthorityRegistry(s) \in SUBSET ({"root", "operator", "service"} \X (Root \cup {1}))
  BY DEF AuthorityRegistry, StoreGood, RootsGood
<1>9. [doc |-> Snapshot(s), registry |-> AuthorityRegistry(s)] \in Row
  BY <1>7, <1>8 DEF Row
<1> QED
  BY <1>9, RowAssumption

\* The row is the store that was decided on last, and it loads; the sessions
\* whose secrets were handed out were issued.
RowGood ==
    IF row = None
      THEN store = EmptyStore
      ELSE /\ row = [doc |-> Snapshot(store), registry |-> AuthorityRegistry(store)]
           /\ Loads(store)

DurableInv ==
    /\ AuthInv
    /\ RowGood
    /\ \A h \in delivered : h \in 1 .. store.issued.sessions

\* A step of the durable store is one of the store, or none.
LEMMA TransactIsNext == [Transact]_durableVars => [Next]_vars
BY DEF Transact, Decided, RolledBackWork, durableVars, vars

\* A decision that is written keeps the invariant.
LEMMA DecidedKeeps ==
    ASSUME DurableInv, Decided, Answered \/ OutcomeUnknown
    PROVE  DurableInv'
<1>1. AuthInv' /\ Advance(store, store')
  BY NextKeeps DEF DurableInv, Decided
<1>2. StoreGood(store) /\ StoreGood(store')
  BY <1>1 DEF AuthInv, DurableInv
<1>3. row' = [doc |-> Snapshot(store'), registry |-> AuthorityRegistry(store')] /\ Loads(store')
  BY DEF Decided, WriteRow, Loads, RecordsLoad, RootsLoad, SessionsLoad, CeremoniesLoad
<1>4. row' # None
  BY <1>2, <1>3, RowWritten
<1>5. RowGood'
  BY <1>3, <1>4 DEF RowGood
<1>6. /\ store.issued.sessions \in Nat /\ store'.issued.sessions \in Nat
      /\ store.issued.sessions <= store'.issued.sessions
  BY <1>1, <1>2, Counted DEF Advance, SessionsLater, Later
<1>7. DOMAIN store'.sessions \subseteq 1 .. store'.issued.sessions
  BY <1>2 DEF StoreGood, SessionsGood, Handles
<1>8. \A h \in 1 .. store.issued.sessions : h \in 1 .. store'.issued.sessions
  BY <1>6
<1>9. \A h \in delivered' : h \in delivered \/ h \in DOMAIN store'.sessions
  BY DEF Answered, OutcomeUnknown, Minted
<1>10. \A h \in delivered' : h \in 1 .. store'.issued.sessions
  BY <1>7, <1>8, <1>9 DEF DurableInv
<1> QED
  BY <1>1, <1>5, <1>10 DEF DurableInv

\* So does every other step.
LEMMA DurableStutterKeeps ==
    ASSUME DurableInv, UNCHANGED <<vars, row, delivered>>
    PROVE  DurableInv'
<1>1. AuthInv'
  BY StutterKeeps DEF DurableInv
<1>2. store' = store /\ row' = row /\ delivered' = delivered
  BY DEF vars
<1>3. RowGood'
  BY <1>2 DEF DurableInv, RowGood
<1> QED
  BY <1>1, <1>2, <1>3 DEF DurableInv

-----------------------------------------------------------------------------
(* The theorems.                                                           *)

\* The records of the store have the types of domain/auth.py, in every
\* behaviour.
THEOREM TypeCorrect == Spec => []TypeOK
BY AuthInvHolds, InvType, PTL

\* One-use authority is used once, whatever is collected in between
\* (consumed, retired_at_utc and used_at_utc in volatile.py): a handle is never
\* issued twice, and a grant that was collected is not proved again.
THEOREM CredentialsAreUsedOnce == Spec => []OneUse
<1>1. AuthInv => OneUse
  BY DEF AuthInv, History, OneUse
<1> QED
  BY <1>1, AuthInvHolds, PTL

\* A session that _authenticate_session_locked denied as stale, revoked or
\* expired is never authenticated again.
THEOREM SessionsStayDead == Spec => []DeadStaysDead
BY AuthInvHolds, InvDead, PTL

\* Advancing the epoch leaves no live session, recovery or step-up of the old one
\* (_retire_actor_authority).  Bootstraps carry no epoch and are not spoken of.
THEOREM EpochsAreFenced == Spec => []EpochFence
BY AuthInvHolds, InvFence, PTL

\* A root bootstrap that may still be exchanged has a root that exchange
\* accepts (create_root_bootstrap, exchange_bootstrap, garbage_collect).
THEOREM BootstrapsStandOnRoots == Spec => []BootstrapStands
BY AuthInvHolds, InvStands, PTL

\* An installation has exactly one live reprovision root, however many were
\* consumed, replaced and collected.
THEOREM OneRouteBack == Spec => []ReprovisionRoute
BY AuthInvHolds, InvRoute, PTL

\* For every two capacities, the active ceremonies are within the first, and all
\* that the store keeps within their sum (_gc_reprovision_ceremonies_locked,
\* _trim_reprovision_tombstones_locked).  The tombstones alone are not bounded by
\* the second.
THEOREM CeremoniesAreBounded == Spec => []CeremonyRetention
BY AuthInvHolds, InvRetention, PTL

\* The durable store takes no step that the store it restores would not take:
\* what fails leaves the decision out altogether.
THEOREM DurableImplementsStore == DurableSpec => Spec
<1>1. DurableInit => Init
  BY DEF DurableInit
<1> QED
  BY <1>1, TransactIsNext, PTL DEF DurableSpec, Spec

\* The invariant of the durable store holds in every behaviour of it.
THEOREM DurableInvHolds == DurableSpec => []DurableInv
<1>1. DurableInit => DurableInv
  BY AuthInitially DEF DurableInit, DurableInv, RowGood, Init
<1>2. DurableInv /\ [Transact]_durableVars => DurableInv'
  <2> SUFFICES ASSUME DurableInv, [Transact]_durableVars PROVE DurableInv'
    OBVIOUS
  <2>1. CASE Decided /\ (Answered \/ OutcomeUnknown)
    BY <2>1, DecidedKeeps
  <2>2. CASE UNCHANGED <<vars, row>> /\ OutcomeUnknown
    BY <2>2, DurableStutterKeeps DEF OutcomeUnknown
  <2>3. CASE UNCHANGED durableVars
    BY <2>3, DurableStutterKeeps DEF durableVars
  <2> QED
    BY <2>1, <2>2, <2>3 DEF Transact, RolledBackWork
<1> QED
  BY <1>1, <1>2, PTL DEF DurableSpec

\* Whatever was committed loads again, and the next decision starts from all
\* that was decided before (_snapshot, _restore, _load_state).
THEOREM RowsRestore == DurableSpec => []RestoresDecisions
<1>1. DurableInv => RestoresDecisions
  <2> SUFFICES ASSUME DurableInv PROVE RestoresDecisions
    OBVIOUS
  <2>1. CASE row = None
    BY <2>1 DEF DurableInv, RowGood, RestoresDecisions, StateLoads, LoadState
  <2>2. CASE row # None
    <3>1. /\ row.doc = Snapshot(store) /\ row.registry = AuthorityRegistry(store)
          /\ Loads(store) /\ StoreGood(store)
      BY <2>2 DEF DurableInv, RowGood, AuthInv
    <3>2. LoadState(row) = store
      BY <2>2, <3>1, SnapshotRestores DEF LoadState
    <3> QED
      BY <3>1, <3>2 DEF RestoresDecisions, StateLoads
  <2> QED
    BY <2>1, <2>2
<1> QED
  BY <1>1, DurableInvHolds, PTL

\* A secret is handed out only for a session that was committed, though a
\* commit that raises may have happened (_latch_recovery).
THEOREM DeliveredSessionsAreDurable == DurableSpec => []DeliveredIsDurable
<1>1. DurableInv => DeliveredIsDurable
  <2>1. \A n : \A h \in 1 .. n : h <= n
    OBVIOUS
  <2> QED
    BY <2>1 DEF DurableInv, DeliveredIsDurable
<1> QED
  BY <1>1, DurableInvHolds, PTL
=============================================================================
