----------------------------- MODULE AuthStore -----------------------------
(***************************************************************************)
(* The authentication decisions of one installation: root capabilities,    *)
(* bootstrap codes, sessions, step-ups and the grants they prove, recovery *)
(* codes and reprovision ceremonies (adapters/auth/volatile.py), asked for *)
(* through AuthService (application/auth.py).                              *)
(*                                                                         *)
(* The store decides under one lock, so a decision is one step.  It is     *)
(* written as an operator on the store s that gives its outcome; an action *)
(* is a call of the service, which takes the outcome of the decision it    *)
(* asks for.  In DurableAuthStore a transaction has to commit it.          *)
(*                                                                         *)
(* Handles are never reused: they are numbered in the order of issue.  A   *)
(* secret is right or wrong.  A session, root, service or operator secret  *)
(* that is wrong is denied before anything is read or written; the wrong   *)
(* proofs that count are ok = FALSE.  One flag suffices for consumed (or   *)
(* revoked) and retired_at_utc: the code always sets them together.  The   *)
(* not-before instant of a record is its expiry less its time to live.     *)
(***************************************************************************)
EXTENDS Integers, FiniteSets, FiniteSetsExt, Functions

CONSTANTS
    None,               \* no instant, no root
    ReprovisionEnabled, \* AuthServiceMode.SYNTHETIC_FULL
    BootstrapTTL, SessionTTL, StepUpTTL, RecoveryTTL, CeremonyTTL,
    ActivationDelay, MaxAttempts,
    ActiveCapacity, TombstoneCapacity, ReplaySeconds,
    Retention,          \* the retentions that garbage_collect is called with
    Purpose,            \* AuthPurpose: the three the store uses, and others
    \* Bounds of the model: the last instant, the records of each kind, the
    \* reprovision roots.
    MaxTime, MaxBootstraps, MaxSessions, MaxRecoveries, MaxStepUps, MaxCeremonies, MaxRoots

Time == 0 .. MaxTime

\* What composition may choose.
AuthPolicy ==
    /\ {BootstrapTTL, SessionTTL, StepUpTTL, RecoveryTTL, CeremonyTTL} \subseteq Nat \ {0}
    /\ {ActivationDelay, ReplaySeconds, MaxTime} \subseteq Nat
    /\ {MaxAttempts, ActiveCapacity, TombstoneCapacity} \subseteq Nat \ {0}
    /\ Retention \subseteq Nat
    /\ ReprovisionEnabled \in BOOLEAN
    /\ None \notin Int
    /\ {"SETUP_AUTHORITY_CHANGE", "KEY_RECOVERY_CHANGE", "ALL_SESSION_REVOKE"} \subseteq Purpose

ASSUME PolicyAssumption == AuthPolicy

VARIABLES
    store,      \* what VolatileAuthDecisionStore keeps
    spent,      \* the one-use credentials that an allowed decision consumed (history)
    reused,     \* whether one of them was consumed again (history)
    dead        \* the sessions that a decision denied for good (history)

vars == <<store, spent, reused, dead>>

-----------------------------------------------------------------------------
(* The records.                                                            *)

Instant == Nat \cup {None}

RootPurpose == {"INITIAL_BOOTSTRAP", "EMERGENCY_REVOKE", "REPROVISION"}

\* A root handle with the purpose it was issued for.
Root == [purpose : RootPurpose, number : Nat \ {0}]

\* ActorRecord; None before initialize_installation
ActorRecord == [epoch : Nat \ {0}, observed : Nat, initialized : BOOLEAN]

BootstrapRecord ==
    [root : Root \cup {None}, expires : Nat, attempts : 0 .. MaxAttempts, retired : Instant]

SessionRecord == [epoch : Nat \ {0}, expires : Nat, retired : Instant]

RecoveryRecord ==
    [epoch : Nat \ {0}, expires : Nat, attempts : 0 .. MaxAttempts, retired : Instant]

StepUpRecord ==
    [session : Nat \ {0}, epoch : Nat \ {0}, purpose : Purpose,
     expires : Nat, attempts : 0 .. MaxAttempts, retired : Instant]

\* GrantProvenanceRecord of the grant that the step-up of the same handle proved
GrantRecord ==
    [session : Nat \ {0}, epoch : Nat \ {0}, purpose : Purpose, expires : Nat, used : BOOLEAN]

\* ReprovisionCeremonyRecord
CeremonyRecord == [bootstrap : Nat \ {0}, expires : Nat, terminal : Instant]

ASSUME NoneAssumption == None \notin Root \cup ActorRecord

EmptyStore ==
    [actor |-> None, roots |-> <<>>, bootstraps |-> <<>>, sessions |-> <<>>,
     recoveries |-> <<>>, stepUps |-> <<>>, grants |-> <<>>, ceremonies |-> <<>>,
     issued |-> [bootstraps |-> 0, sessions |-> 0, recoveries |-> 0, stepUps |-> 0,
                 ceremonies |-> 0, roots |-> 0]]

Put(f, k, v) == [x \in DOMAIN f \cup {k} |-> IF x = k THEN v ELSE f[x]]

-----------------------------------------------------------------------------
(* Outcomes.  used and dead are what the history records.                  *)

Deny(s, why) ==
    [store |-> s, out |-> why, used |-> {}, dead |-> {}]

Allow(s, used) == [Deny(s, "ALLOWED") EXCEPT !.used = used]

Allowed(r) == r.out = "ALLOWED"

-----------------------------------------------------------------------------
(* What the decisions share.                                               *)

\* AuthService._window: when what is issued now expires
Expiry(now, ttl) == now + ActivationDelay + ttl

\* _observe, the denial and the assignment
RolledBack(s, now) == now < s.actor.observed

\* An observation that is forgotten.
ObservedNothing(s, now) == s

Observed(s, now) == [s EXCEPT !.actor.observed = now]

\* _time_denial
TimeDenial(now, expires, ttl) ==
    CASE now < expires - ttl -> "NOT_YET_VALID"
      [] now >= expires      -> "EXPIRED"
      [] OTHER               -> "ALLOWED"

\* A wrong proof that never exhausts the code.
UnlimitedProof(code, now) == [code EXCEPT !.attempts = @ - 1]

\* _wrong_proof
WrongProof(code, now) ==
    IF code.attempts = 1
      THEN [code EXCEPT !.attempts = 0, !.retired = now]
      ELSE [code EXCEPT !.attempts = @ - 1]

\* A bootstrap, recovery or step-up code is presented: what becomes of its
\* record and why it is denied.  Expiry retires it, a wrong proof costs it
\* an attempt; a right one leaves it for the caller to consume.
Present(code, ok, now, ttl) ==
    LET timely == TimeDenial(now, code.expires, ttl)
        burnt  == WrongProof(code, now)
    IN  IF code.retired # None
          THEN [record |-> code,
                out |-> IF code.attempts = 0 THEN "ATTEMPTS_EXHAUSTED" ELSE "REPLAYED"]
        ELSE IF timely = "EXPIRED"
          THEN [record |-> [code EXCEPT !.retired = now], out |-> timely]
        ELSE IF timely # "ALLOWED" \/ ok
          THEN [record |-> code, out |-> timely]
        ELSE [record |-> burnt,
              out |-> IF burnt.attempts = 0 THEN "ATTEMPTS_EXHAUSTED" ELSE "INVALID_PROOF"]

-----------------------------------------------------------------------------
(* Issuing and retiring.                                                   *)

IssueSession(s, now) ==
    LET h == s.issued.sessions + 1
    IN  [s EXCEPT
            !.sessions = Put(@, h, [epoch |-> s.actor.epoch, expires |-> Expiry(now, SessionTTL),
                                    retired |-> None]),
            !.issued.sessions = h]

IssueRecovery(s, now) ==
    LET h == s.issued.recoveries + 1
    IN  [s EXCEPT
            !.recoveries = Put(@, h, [epoch |-> s.actor.epoch, expires |-> Expiry(now, RecoveryTTL),
                                      attempts |-> MaxAttempts, retired |-> None]),
            !.issued.recoveries = h]

IssueRoot(s, purpose) ==
    LET n == s.issued.roots + 1
    IN  [s EXCEPT !.roots = Put(@, [purpose |-> purpose, number |-> n], None),
                  !.issued.roots = n]

\* The records of f whose handles are in H retire.
Retire(f, H, now) ==
    [h \in DOMAIN f |-> IF h \in H THEN [f[h] EXCEPT !.retired = now] ELSE f[h]]

RetireAll(f, now) == Retire(f, DOMAIN f, now)

\* Earlier bootstraps stay good.
KeepBootstraps(s, now) == s

\* _invalidate_bootstraps
InvalidateBootstraps(s, now) ==
    [s EXCEPT !.bootstraps = Retire(@, {h \in DOMAIN @ : @[h].retired = None}, now)]

IssueBootstrap(s, root, now) ==
    LET h == s.issued.bootstraps + 1
    IN  [InvalidateBootstraps(s, now) EXCEPT
            !.bootstraps = Put(@, h, [root |-> root, expires |-> Expiry(now, BootstrapTTL),
                                      attempts |-> MaxAttempts, retired |-> None]),
            !.issued.bootstraps = h]

\* A root that survives its use.
KeepRoot(s, root, now) == s

\* _consume_root
ConsumeRoot(s, root, now) == [s EXCEPT !.roots[root] = now]

\* A reprovision without a successor of its root.
NoReplacementRoot(s) == s

\* The replacement root of a reprovision.
ReplacementRoot(s) == IssueRoot(s, "REPROVISION")

\* _consume_actor_recoveries
ConsumeRecoveries(s, now) == [s EXCEPT !.recoveries = RetireAll(@, now)]

\* A revocation that forgets the recovery codes.
RetireSessionsAndStepUps(s, now) ==
    [s EXCEPT !.sessions = RetireAll(@, now), !.stepUps = RetireAll(@, now)]

\* _retire_actor_authority
RetireActorAuthority(s, now) ==
    [s EXCEPT !.sessions = RetireAll(@, now),
              !.stepUps = RetireAll(@, now),
              !.recoveries = RetireAll(@, now)]

\* actor.epoch += 1, and the authority of the old epoch with it
NextEpoch(s, now) == RetireActorAuthority([s EXCEPT !.actor.epoch = @ + 1], now)

\* A session ends, and the challenges it was given.
EndSession(s, h, now) ==
    [s EXCEPT !.sessions = Retire(@, {h}, now),
              !.stepUps = Retire(@, {c \in DOMAIN @ : @[c].session = h}, now)]

-----------------------------------------------------------------------------
(* Roots and bootstraps.                                                   *)

\* initialize_installation
InstallationInitialized(s, now) ==
    IF s.actor # None
      THEN Deny(s, "RAISED")
      ELSE LET t == [s EXCEPT !.actor = [epoch |-> 1, observed |-> now, initialized |-> FALSE]]
           IN  Allow(IssueRoot(IssueRoot(IssueRoot(t, "INITIAL_BOOTSTRAP"), "EMERGENCY_REVOKE"),
                               "REPROVISION"), {})

\* _validate_root_locked
RootDenial(s, root, purposes) ==
    IF root \notin DOMAIN s.roots THEN "INVALID_PROOF"
    ELSE IF root.purpose \notin purposes THEN "WRONG_PURPOSE"
    ELSE IF s.roots[root] # None THEN "STALE_EPOCH"
    ELSE "ALLOWED"

\* create_root_bootstrap.  The initial root serves only before the actor is
\* initialized, the reprovision root only after.
RootBootstrapCreated(s, root, purposes, now) ==
    LET denial == RootDenial(s, root, purposes)
    IN  IF denial # "ALLOWED" THEN Deny(s, denial)
        ELSE IF RolledBack(s, now) THEN Deny(s, "CLOCK_ROLLBACK")
        ELSE IF (root.purpose = "INITIAL_BOOTSTRAP") = s.actor.initialized
          THEN Deny(Observed(s, now), "STALE_EPOCH")
        ELSE Allow(IssueBootstrap(Observed(s, now), root, now), {})

\* create_reprovision_bootstrap: the same, from the credential alone
ReprovisionBootstrapCreated(s, root, now) ==
    RootBootstrapCreated(s, root, {"REPROVISION"}, now)

\* cancel_bootstrap reads no clock but its own
BootstrapCancelled(s, h, now) ==
    Allow([s EXCEPT !.bootstraps =
              Retire(@, {b \in DOMAIN @ : b = h /\ @[b].retired = None}, now)], {})

ForReprovision(bootstrap) == bootstrap.root # None /\ bootstrap.root.purpose = "REPROVISION"

\* exchange_bootstrap: initial and authenticated bootstraps only
BootstrapExchanged(s, h, ok, now) ==
    IF h \notin DOMAIN s.bootstraps THEN Deny(s, "INVALID_PROOF")
    ELSE IF ForReprovision(s.bootstraps[h]) THEN Deny(s, "WRONG_PURPOSE")
    ELSE IF RolledBack(s, now) THEN Deny(s, "CLOCK_ROLLBACK")
    ELSE LET root == s.bootstraps[h].root
             p    == Present(s.bootstraps[h], ok, now, BootstrapTTL)
             t    == [Observed(s, now) EXCEPT !.bootstraps[h] = p.record]
             u    == [t EXCEPT !.bootstraps[h].retired = now]
             done == IF root = None THEN u
                     ELSE [ConsumeRoot(u, root, now) EXCEPT !.actor.initialized = TRUE]
         IN  IF p.out # "ALLOWED" THEN Deny(t, p.out)
             ELSE IF root # None /\ (RootDenial(s, root, {root.purpose}) # "ALLOWED"
                                       \/ s.actor.initialized)
               THEN Deny(t, "STALE_EPOCH")
             ELSE Allow(IssueRecovery(IssueSession(done, now), now),
                        {<<"bootstrap", h>>} \cup {<<"root", r>> : r \in {root} \ {None}})

-----------------------------------------------------------------------------
(* Reprovision ceremonies.                                                 *)

Active(s) == {c \in DOMAIN s.ceremonies : s.ceremonies[c].terminal = None}

Tombstones(s) == DOMAIN s.ceremonies \ Active(s)

\* _gc_reprovision_ceremonies_locked
GcCeremonies(s, now) ==
    LET terminal(c) == IF c.terminal = None /\ now >= c.expires THEN c.expires ELSE c.terminal
        forgotten(c) == terminal(c) # None /\ now >= terminal(c) + ReplaySeconds
        kept == {c \in DOMAIN s.ceremonies : ~forgotten(s.ceremonies[c])}
    IN  [s EXCEPT !.ceremonies =
            [c \in kept |-> [s.ceremonies[c] EXCEPT !.terminal = terminal(s.ceremonies[c])]]]

\* Whether tombstone c goes before d.  Equal instants are ordered by handle.
Older(s, c, d) ==
    \/ s.ceremonies[c].terminal < s.ceremonies[d].terminal
    \/ s.ceremonies[c].terminal = s.ceremonies[d].terminal /\ c < d

\* Tombstones that are never evicted.
KeepTombstones(s) == s

\* _trim_reprovision_tombstones_locked keeps the newest tombstones
TrimTombstones(s) ==
    LET newer(c) == {d \in Tombstones(s) : Older(s, c, d)}
        doomed == {c \in Tombstones(s) : Cardinality(newer(c)) >= TombstoneCapacity}
    IN  [s EXCEPT !.ceremonies = Restrict(@, DOMAIN @ \ doomed)]

\* create_reprovision_ceremony.  It neither asks whether the bootstrap is
\* still unconsumed nor observes the clock.
CeremonyCreated(s, b, now) ==
    IF b \notin DOMAIN s.bootstraps THEN Deny(s, "INVALID_PROOF")
    ELSE IF ~ForReprovision(s.bootstraps[b]) THEN Deny(s, "WRONG_PURPOSE")
    ELSE IF s.bootstraps[b].root \notin DOMAIN s.roots THEN Deny(s, "STALE_EPOCH")
    ELSE LET t == GcCeremonies(s, now)
             h == s.issued.ceremonies + 1
         IN  IF Cardinality(Active(t)) >= ActiveCapacity THEN Deny(t, "CAPACITY_EXHAUSTED")
             ELSE Allow(TrimTombstones(
                          [t EXCEPT
                             !.ceremonies = Put(@, h, [bootstrap |-> b,
                                                       expires |-> now + CeremonyTTL,
                                                       terminal |-> None]),
                             !.issued.ceremonies = h]), {})

\* exchange_reprovision_bootstrap.  The ceremony burns first, whatever the
\* bootstrap then turns out to be worth.  (An expired ceremony is terminal
\* after the collection: the second test of its expiry never succeeds.)
ReprovisionExchanged(s, h, c, ok, now) ==
    LET t == GcCeremonies(s, now)
    IN  IF c \notin DOMAIN s.ceremonies \/ s.ceremonies[c].bootstrap # h
          THEN Deny(s, "INVALID_PROOF")
        ELSE IF c \notin DOMAIN t.ceremonies THEN Deny(t, "INVALID_PROOF")
        ELSE IF t.ceremonies[c].terminal # None THEN Deny(t, "TERMINAL")
        ELSE IF h \notin DOMAIN t.bootstraps THEN Deny(t, "INVALID_PROOF")
        ELSE IF t.bootstraps[h].root \notin DOMAIN t.roots THEN Deny(t, "WRONG_PURPOSE")
        ELSE LET root  == t.bootstraps[h].root
                 burnt == TrimTombstones([t EXCEPT !.ceremonies[c].terminal = now])
                 p     == Present(t.bootstraps[h], ok, now, BootstrapTTL)
                 u     == [Observed(burnt, now) EXCEPT !.bootstraps[h] = p.record]
                 done  == [NextEpoch(ConsumeRoot(u, root, now), now) EXCEPT
                             !.bootstraps[h].retired = now]
             IN  IF RolledBack(t, now) THEN Deny(burnt, "CLOCK_ROLLBACK")
                 ELSE IF t.bootstraps[h].retired # None THEN Deny(u, "REPLAYED")
                 ELSE IF p.out # "ALLOWED" THEN Deny(u, p.out)
                 ELSE IF t.roots[root] # None \/ ~t.actor.initialized THEN Deny(u, "STALE_EPOCH")
                 ELSE Allow(ReplacementRoot(IssueRecovery(IssueSession(done, now), now)),
                            {<<"bootstrap", h>>, <<"root", root>>, <<"ceremony", c>>})

-----------------------------------------------------------------------------
(* Sessions, step-ups and grants.                                          *)

\* _authenticate_session_locked.  The last three denials are for good.
SessionAuthenticated(s, h, now) ==
    IF h \notin DOMAIN s.sessions THEN Deny(s, "SESSION_NOT_FOUND")
    ELSE IF RolledBack(s, now) THEN Deny(s, "CLOCK_ROLLBACK")
    ELSE LET t       == Observed(s, now)
             timely  == TimeDenial(now, s.sessions[h].expires, SessionTTL)
             over(why) == [Deny(t, why) EXCEPT !.dead = {h}]
         IN  IF s.sessions[h].epoch # s.actor.epoch THEN over("STALE_EPOCH")
             ELSE IF s.sessions[h].retired # None THEN over("REVOKED")
             ELSE IF timely = "EXPIRED" THEN over("EXPIRED")
             ELSE IF timely # "ALLOWED" THEN Deny(t, timely)
             ELSE Allow(t, {})

\* create_step_up
StepUpCreated(s, h, purpose, now) ==
    LET auth == SessionAuthenticated(s, h, now)
        c    == s.issued.stepUps + 1
    IN  IF ~Allowed(auth) THEN auth
        ELSE Allow([auth.store EXCEPT
                      !.stepUps = Put(@, c, [session |-> h, epoch |-> s.sessions[h].epoch,
                                             purpose |-> purpose,
                                             expires |-> Expiry(now, StepUpTTL),
                                             attempts |-> MaxAttempts, retired |-> None]),
                      !.issued.stepUps = c], {})

\* consume_step_up: the challenge becomes the provenance of a grant
StepUpConsumed(s, c, ok, h, purpose, now) ==
    LET auth == SessionAuthenticated(s, h, now)
    IN  IF c \notin DOMAIN s.stepUps THEN Deny(s, "INVALID_PROOF")
        ELSE IF ~Allowed(auth) THEN auth
        ELSE IF h # s.stepUps[c].session THEN Deny(auth.store, "WRONG_SESSION")
        ELSE IF s.stepUps[c].epoch # s.actor.epoch THEN Deny(auth.store, "STALE_EPOCH")
        ELSE LET p == Present(s.stepUps[c], ok, now, StepUpTTL)
                 t == [auth.store EXCEPT !.stepUps[c] = p.record]
             IN  IF p.out # "ALLOWED" THEN Deny(t, p.out)
                 ELSE IF purpose # s.stepUps[c].purpose THEN Deny(t, "WRONG_PURPOSE")
                 ELSE Allow([t EXCEPT
                               !.stepUps[c].retired = now,
                               !.grants = Put(@, c, [session |-> h, epoch |-> p.record.epoch,
                                                     purpose |-> purpose,
                                                     expires |-> p.record.expires,
                                                     used |-> FALSE])],
                            {<<"stepUp", c>>})

\* A grant whose use is not recorded.
GrantUnmarked(s, e) == s

\* Replay state of the grant: used_at_utc
GrantUsed(s, e) == [s EXCEPT !.grants[e].used = TRUE]

\* _authorize_grant_locked with consume=True
GrantAuthorized(s, h, e, purpose, now) ==
    LET auth == SessionAuthenticated(s, h, now)
    IN  IF e \notin DOMAIN s.grants THEN Deny(s, "INVALID_PROOF")
        ELSE IF ~Allowed(auth) THEN auth
        ELSE LET g      == s.grants[e]
                 timely == TimeDenial(now, g.expires, StepUpTTL)
             IN  IF g.session # h THEN Deny(auth.store, "WRONG_SESSION")
                 ELSE IF g.epoch # s.actor.epoch THEN Deny(auth.store, "STALE_EPOCH")
                 ELSE IF g.purpose # purpose THEN Deny(auth.store, "WRONG_PURPOSE")
                 ELSE IF timely # "ALLOWED" THEN Deny(auth.store, timely)
                 ELSE IF g.used THEN Deny(auth.store, "REPLAYED")
                 ELSE Allow(GrantUsed(auth.store, e), {<<"grant", e>>})

\* validate_grant
GrantValidated(s, h, e, now) ==
    IF e \notin DOMAIN s.grants THEN Deny(s, "INVALID_PROOF")
    ELSE GrantAuthorized(s, h, e, s.grants[e].purpose, now)

\* create_authenticated_bootstrap
AuthenticatedBootstrapCreated(s, h, e, now) ==
    LET auth == GrantAuthorized(s, h, e, "SETUP_AUTHORITY_CHANGE", now)
    IN  IF ~Allowed(auth) THEN auth
        ELSE Allow(IssueBootstrap(auth.store, None, now), auth.used)

\* rotate_session
SessionRotated(s, h, now) ==
    LET auth == SessionAuthenticated(s, h, now)
    IN  IF ~Allowed(auth) THEN auth
        ELSE Allow(IssueSession(EndSession(auth.store, h, now), now), {<<"session", h>>})

\* revoke_session
SessionRevoked(s, h, now) ==
    LET auth == SessionAuthenticated(s, h, now)
    IN  IF ~Allowed(auth) THEN auth
        ELSE Allow(EndSession(auth.store, h, now), {<<"session", h>>})

-----------------------------------------------------------------------------
(* Recovery, revocation and retention.                                     *)

\* renew_recovery
RecoveryRenewed(s, h, e, now) ==
    LET auth == GrantAuthorized(s, h, e, "KEY_RECOVERY_CHANGE", now)
    IN  IF ~Allowed(auth) THEN auth
        ELSE Allow(IssueRecovery(ConsumeRecoveries(auth.store, now), now), auth.used)

\* revoke_all_authenticated
AllRevoked(s, h, e, now) ==
    LET auth == GrantAuthorized(s, h, e, "ALL_SESSION_REVOKE", now)
    IN  IF ~Allowed(auth) THEN auth
        ELSE Allow(IssueRecovery(NextEpoch(auth.store, now), now), auth.used)

\* emergency_revoke
EmergencyRevoked(s, root, now) ==
    LET denial == RootDenial(s, root, {"EMERGENCY_REVOKE"})
        t      == NextEpoch(ConsumeRoot(Observed(s, now), root, now), now)
    IN  IF denial # "ALLOWED" THEN Deny(s, denial)
        ELSE IF RolledBack(s, now) THEN Deny(s, "CLOCK_ROLLBACK")
        ELSE Allow(t, {<<"root", root>>})

\* recover
Recovered(s, h, ok, now) ==
    IF h \notin DOMAIN s.recoveries THEN Deny(s, "INVALID_PROOF")
    ELSE IF RolledBack(s, now) THEN Deny(s, "CLOCK_ROLLBACK")
    ELSE LET p == Present(s.recoveries[h], ok, now, RecoveryTTL)
             t == [Observed(s, now) EXCEPT !.recoveries[h] = p.record]
             u == NextEpoch(ConsumeRecoveries(t, now), now)
         IN  IF p.out # "ALLOWED" THEN Deny(t, p.out)
             ELSE IF p.record.epoch # s.actor.epoch
               THEN Deny([t EXCEPT !.recoveries = Retire(@, {h}, now)], "STALE_EPOCH")
             ELSE Allow(IssueRecovery(IssueSession(u, now), now), {<<"recovery", h>>})

\* garbage_collect: what is retired or expired by the cutoff goes
Past(instant, cutoff) == instant # None /\ instant <= cutoff

Collected(f, cutoff) ==
    RestrictValues(f, LAMBDA r : ~Past(r.retired, cutoff) /\ ~Past(r.expires, cutoff))

GarbageCollected(s, retention, now) ==
    LET cutoff == now - retention
    IN  Allow(GcCeremonies(
                [s EXCEPT !.roots = RestrictValues(@, LAMBDA retired : ~Past(retired, cutoff)),
                          !.bootstraps = Collected(@, cutoff),
                          !.sessions = Collected(@, cutoff),
                          !.recoveries = Collected(@, cutoff),
                          !.stepUps = Collected(@, cutoff),
                          !.grants = RestrictValues(@, LAMBDA g : ~Past(g.expires, cutoff))],
                now), {})

-----------------------------------------------------------------------------
(* What AuthService asks of the store, at any instant its clock may show.  *)
(* A decision that issues a record is asked for while the bounds allow it. *)

Room(kinds) == \A k \in kinds :
    store.issued[k] < [bootstraps |-> MaxBootstraps, sessions |-> MaxSessions,
                       recoveries |-> MaxRecoveries, stepUps |-> MaxStepUps,
                       ceremonies |-> MaxCeremonies, roots |-> MaxRoots][k]

IssuedRoots ==
    {r \in [purpose : RootPurpose, number : 1 .. store.issued.roots] :
        r.purpose = CASE r.number = 1 -> "INITIAL_BOOTSTRAP"
                      [] r.number = 2 -> "EMERGENCY_REVOKE"
                      [] OTHER        -> "REPROVISION"}

Issued(kind) == 1 .. store.issued[kind]

\* The store keeps what it decided.
Take(r) ==
    /\ store' = r.store
    /\ spent' = spent \cup r.used
    /\ reused' = (reused \/ r.used \cap spent # {})
    /\ dead' = dead \cup r.dead

\* TrustedLocalAuthSetup.provision
Provision(now) ==
    Take(InstallationInitialized(store, now))

\* begin_bootstrap; a custodied service refuses the reprovision root
BeginBootstrap(root, now) ==
    /\ ReprovisionEnabled \/ root.purpose # "REPROVISION"
    /\ Room({"bootstraps"})
    /\ Take(RootBootstrapCreated(store, root, {"INITIAL_BOOTSTRAP", "REPROVISION"}, now))

\* begin_authenticated_bootstrap
BeginAuthenticatedBootstrap(h, e, now) ==
    /\ Room({"bootstraps"})
    /\ Take(AuthenticatedBootstrapCreated(store, h, e, now))

\* begin_reprovision
BeginReprovision(root, now) ==
    /\ ReprovisionEnabled
    /\ Room({"bootstraps"})
    /\ Take(ReprovisionBootstrapCreated(store, root, now))

\* cancel_bootstrap
CancelBootstrap(b, now) ==
    Take(BootstrapCancelled(store, b, now))

\* exchange_bootstrap and _exchange_bootstrap
ExchangeBootstrap(b, ok, now) ==
    /\ Room({"sessions", "recoveries"})
    /\ Take(BootstrapExchanged(store, b, ok, now))

\* authorize_reprovision_ceremony
AuthorizeReprovisionCeremony(b, now) ==
    /\ ReprovisionEnabled
    /\ Room({"ceremonies"})
    /\ Take(CeremonyCreated(store, b, now))

\* exchange_confirmed_reprovision
ExchangeConfirmedReprovision(b, c, ok, now) ==
    /\ ReprovisionEnabled
    /\ Room({"sessions", "recoveries", "roots"})
    /\ Take(ReprovisionExchanged(store, b, c, ok, now))

\* authenticate_session
AuthenticateSession(h, now) ==
    Take(SessionAuthenticated(store, h, now))

\* issue_step_up
IssueStepUp(h, purpose, now) ==
    /\ Room({"stepUps"})
    /\ Take(StepUpCreated(store, h, purpose, now))

\* consume_step_up
ConsumeStepUp(c, ok, h, purpose, now) ==
    Take(StepUpConsumed(store, c, ok, h, purpose, now))

\* rotate_session
RotateSession(h, now) ==
    /\ Room({"sessions"})
    /\ Take(SessionRotated(store, h, now))

\* revoke_session
RevokeSession(h, now) ==
    Take(SessionRevoked(store, h, now))

\* renew_recovery
RenewRecovery(h, e, now) ==
    /\ Room({"recoveries"})
    /\ Take(RecoveryRenewed(store, h, e, now))

\* revoke_all_authenticated
RevokeAllAuthenticated(h, e, now) ==
    /\ Room({"recoveries"})
    /\ Take(AllRevoked(store, h, e, now))

\* emergency_revoke
EmergencyRevoke(root, now) ==
    Take(EmergencyRevoked(store, root, now))

\* recover
Recover(h, ok, now) ==
    /\ Room({"sessions", "recoveries"})
    /\ Take(Recovered(store, h, ok, now))

\* validate_grant
ValidateGrant(h, e, now) ==
    Take(GrantValidated(store, h, e, now))

\* garbage_collect
GarbageCollect(retention, now) ==
    Take(GarbageCollected(store, retention, now))

Init ==
    /\ store = EmptyStore
    /\ spent = {} /\ dead = {}
    /\ reused = FALSE

Next ==
    \E now \in Time :
        \/ Provision(now)
        \/ \E root \in IssuedRoots :
              \/ BeginBootstrap(root, now)
              \/ BeginReprovision(root, now)
              \/ EmergencyRevoke(root, now)
        \/ \E b \in Issued("bootstraps") :
              \/ CancelBootstrap(b, now)
              \/ AuthorizeReprovisionCeremony(b, now)
              \/ \E ok \in BOOLEAN :
                    \/ ExchangeBootstrap(b, ok, now)
                    \/ \E c \in Issued("ceremonies") :
                          ExchangeConfirmedReprovision(b, c, ok, now)
        \/ \E h \in Issued("sessions") :
              \/ AuthenticateSession(h, now)
              \/ RotateSession(h, now)
              \/ RevokeSession(h, now)
              \/ \E purpose \in Purpose :
                    \/ IssueStepUp(h, purpose, now)
                    \/ \E c \in Issued("stepUps"), ok \in BOOLEAN :
                          ConsumeStepUp(c, ok, h, purpose, now)
              \/ \E e \in Issued("stepUps") :
                    \/ BeginAuthenticatedBootstrap(h, e, now)
                    \/ RenewRecovery(h, e, now)
                    \/ RevokeAllAuthenticated(h, e, now)
                    \/ ValidateGrant(h, e, now)
        \/ \E h \in Issued("recoveries"), ok \in BOOLEAN : Recover(h, ok, now)
        \/ \E retention \in Retention : GarbageCollect(retention, now)

Spec == Init /\ [][Next]_vars

-----------------------------------------------------------------------------
(* Properties.                                                             *)

Table(f, S) == DOMAIN f \subseteq Nat \ {0} /\ \A h \in DOMAIN f : f[h] \in S

\* The records have the types of domain/auth.py.
TypeOK ==
    /\ store.actor \in ActorRecord \cup {None}
    /\ DOMAIN store.roots \subseteq Root /\ \A r \in DOMAIN store.roots : store.roots[r] \in Instant
    /\ Table(store.bootstraps, BootstrapRecord)
    /\ Table(store.sessions, SessionRecord)
    /\ Table(store.recoveries, RecoveryRecord)
    /\ Table(store.stepUps, StepUpRecord)
    /\ Table(store.grants, GrantRecord)
    /\ Table(store.ceremonies, CeremonyRecord)
    /\ \A k \in DOMAIN store.issued : store.issued[k] \in Nat
    /\ reused \in BOOLEAN /\ dead \subseteq Nat

\* One-use authority is used once: no bootstrap, root, ceremony, step-up,
\* grant or recovery is the ground of two allowed decisions, and no session
\* is rotated or revoked twice, whatever is collected in between.
OneUse == ~reused

\* A session that a decision found stale, revoked or expired is never
\* authenticated again, not even by a clock that was set back.
DeadStaysDead ==
    \A h \in dead, now \in Time : ~Allowed(SessionAuthenticated(store, h, now))

\* A session, recovery or step-up that has not been retired belongs to the
\* current epoch, so both revocations and recovery retire every one of the old
\* (_retire_actor_authority).  Not a bootstrap: it carries no epoch, and one that
\* is outstanding when the epoch advances can still be exchanged.
EpochFence ==
    \A kind \in {"sessions", "recoveries", "stepUps"} : \A h \in DOMAIN store[kind] :
        store[kind][h].retired = None => store[kind][h].epoch = store.actor.epoch

\* A root bootstrap that may still be exchanged has its root: the root is
\* there, unconsumed, and admissible in the state the actor is in.  The
\* operator who holds the code is not told STALE_EPOCH.
BootstrapStands ==
    \A b \in DOMAIN store.bootstraps :
        LET root == store.bootstraps[b].root
        IN  store.bootstraps[b].retired = None /\ root # None =>
                /\ RootDenial(store, root, {"INITIAL_BOOTSTRAP", "REPROVISION"}) = "ALLOWED"
                /\ (root.purpose = "REPROVISION") = store.actor.initialized

\* An installation always has exactly one usable reprovision root.
ReprovisionRoute ==
    store.actor # None =>
        Cardinality({root \in DOMAIN store.roots :
            root.purpose = "REPROVISION" /\ store.roots[root] = None}) = 1

\* The active ceremonies are within their capacity, and active ones and tombstones
\* together within the sum of the two.  The tombstones alone may exceed theirs:
\* collection turns active ceremonies into tombstones without trimming
\* (_gc_reprovision_ceremonies_locked), so what bounds the table is the total.
CeremonyRetention ==
    /\ Cardinality(Active(store)) <= ActiveCapacity
    /\ Cardinality(DOMAIN store.ceremonies) <= ActiveCapacity + TombstoneCapacity

=============================================================================
