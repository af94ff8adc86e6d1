------------------------- MODULE OwnerFileProvider -------------------------
(***************************************************************************)
(* OwnerFileSecretProvider: wrapping keys read from owner-only files       *)
(* (adapters/keys/owner_file.py), with the one-use preparations and key    *)
(* handles it issues (application/keys.py).                                *)
(*                                                                         *)
(* One process holds several providers, each on a path.  What it knows of  *)
(* a wrapping key (nonces used, sentinels authenticated, wraps counted) is *)
(* shared by every provider of that key.  Each operation opens the source, *)
(* works and opens the source again under the provider's lock: three steps *)
(* between which files are replaced and other providers act.               *)
(***************************************************************************)
EXTENDS KeyRecords

CONSTANTS Provider, Path, Handle,
          WrapLimit,    \* the process_wrap_limit of every provider
          MaxId         \* the bound on the versions of a key file

ASSUME ProviderAssumption == WrapLimit \in Nat \ {0} /\ MaxId \in Nat \ {0}

VARIABLES
    source,     \* what each path holds
    domain,     \* _PROCESS_WRAP_STATES, _LIVE_KEY_PROVIDERS: one per key
    provider,   \* the provider objects
    call,       \* the operation that holds each provider's _state_lock
    prep,       \* the preparations issued
    handle,     \* the key handles issued
    wrapped,    \* the wrapped keys that complete_profile_key returned
    sealed      \* how often a key and nonce encrypted a profile key (history)

providerVars == <<source, domain, provider, call, prep, handle, wrapped, sealed>>

\* A file is one version of the bytes at a path.  Every replacement or change,
\* the restoration of an earlier file too, has a new identity (inode, ctime).
Source == [status : SourceStatus, key : Key, id : 1..MaxId]

\* _SourcePin: the identity of parent and file, and the digest of the key.
Pin == [key : Key, id : 1..MaxId]

ASSUME ProviderNone == None \notin Provider \cup Path \cup Key \cup Pin

\* _ProcessWrapState, and the live provider of the key.  A sentinel record is
\* its own commitment.
DomainState == [count : 0..WrapLimit, used : SUBSET Nonce, sentinels : SUBSET Sentinel,
                reuse : BOOLEAN, live : Provider \cup {None}]

UnknownDomain == [count |-> 0, used |-> {}, sentinels |-> {}, reuse |-> FALSE, live |-> None]

\* OwnerFileSecretProvider; wrap is the key whose _wrap_state it uses.
ProviderState == [path : Path \cup {None}, sentinel : Sentinel \cup {None},
                  pin : Pin \cup {None}, wrap : Key \cup {None},
                  latched : BOOLEAN, status : SourceStatus]

NoProvider == [path |-> None, sentinel |-> None, pin |-> None, wrap |-> None,
               latched |-> FALSE, status |-> "unavailable"]

\* ProfileDekHandle, before it is entered, and where there is none.
NewHandle(p) == [owner |-> p, state |-> "issued"]

NoHandle == [owner |-> None, state |-> "closed"]

\* ProfileKeyPreparation, by provider p for a binding, under the key k.
NewPreparation(p, b, n, k) ==
    [owner |-> p, binding |-> b, nonce |-> n, key |-> k, consumed |-> FALSE, completing |-> FALSE]

\* _source_status_for
SourceStatusFor(code) ==
    CASE code = "unsafe_storage"   -> "unsafe"
      [] code = "malformed_record" -> "corrupt"
      [] code \in {"catalog_key_mismatch", "nonce_reuse", "provider_already_active",
                   "usage_limit"} -> "readable"
      [] OTHER -> "unavailable"

\* The operation under way: its argument, what it saw when it first opened the
\* source, whether it has worked and with which result.
Op == {"status", "readiness", "prepare", "complete", "unwrap"}

\* Between two operations: whether the last one gave a result.  No caller tells one
\* failure from another.
Ended(code) == [op |-> "none", code |-> IF code = "ok" THEN "ok" ELSE "refused"]

Live(p) == provider[p].path # None

\* Nobody holds the provider's lock.
Free(p) == call[p].op = "none"

Return(p, code) == call' = [call EXCEPT ![p] = Ended(code)]

Latch(p, status) == [p EXCEPT !.latched = TRUE, !.status = status, !.pin = None]

-----------------------------------------------------------------------------
(* The source.  _open_source either fails or returns the version that is   *)
(* at the path: it compares the file before, during and after it reads it. *)

\* _open_source, _open_private_parent, _validate_file: what one call returns.
OpenSource(path) ==
    LET s == source[path]
    IN  {[code |-> "unavailable"]} \cup
        CASE s.status = "readable" -> {[code |-> "ok", pin |-> [key |-> s.key, id |-> s.id]],
                                       [code |-> "unsafe_storage"]}
          [] s.status = "unsafe"   -> {[code |-> "unsafe_storage"]}
          [] s.status = "corrupt"  -> {[code |-> "malformed_record"]}
          [] OTHER                 -> {}

\* _status_for_pin_difference
StatusForPinDifference(current, expected) ==
    IF current.key # expected.key THEN "readable" ELSE "unsafe"

\* The first half of _material_session: s is what _open_source returned, pin the
\* required pin; the code with which the session is refused, or "ok".
Entered(s, pin) ==
    IF s.code # "ok" THEN s.code
    ELSE IF pin # None /\ s.pin # pin THEN "recovery_required" ELSE "ok"

\* The provider after a session that was refused at its start.
Refused(p, s, pin) ==
    IF s.code = "ok" THEN Latch(p, StatusForPinDifference(s.pin, pin))
    ELSE Latch(p, SourceStatusFor(s.code))

\* The second half: the file is read again and must still be what it was.  A
\* failure of the work itself is reported only when the source has not changed.
Left(s, seen) ==
    CASE s.code # "ok"  -> s.code
      [] s.pin # seen   -> "unsafe_storage"
      [] OTHER          -> "ok"

\* A key file is created, replaced, damaged or removed (the operator).
ChangeSource(path, status, k) ==
    /\ source[path].id < MaxId
    /\ source' = [source EXCEPT ![path] = [status |-> status, key |-> k, id |-> @.id + 1]]
    /\ UNCHANGED <<domain, provider, call, prep, handle, wrapped, sealed>>

-----------------------------------------------------------------------------
(* Composition.                                                            *)

\* __init__: one live provider for each path.
Construct(p, path, s) ==
    /\ ~Live(p)
    /\ \A q \in Provider : provider[q].path # path
    /\ provider' = [provider EXCEPT ![p] = [NoProvider EXCEPT !.path = path, !.sentinel = s]]
    /\ UNCHANGED <<source, domain, call, prep, handle, wrapped, sealed>>

\* The last reference is dropped: the weak registries forget the provider.  Its
\* preparations and handles refer to it, so they are gone as well.
Drop(p) ==
    /\ Live(p) /\ Free(p)
    /\ provider' = [provider EXCEPT ![p] = NoProvider]
    /\ domain' = [k \in Key |-> IF domain[k].live = p THEN [domain[k] EXCEPT !.live = None]
                                ELSE domain[k]]
    /\ prep' = {r \in prep : r.owner # p}
    /\ handle' = [h \in Handle |-> IF handle[h].owner = p
                                   THEN NoHandle ELSE handle[h]]
    /\ UNCHANGED <<source, call, wrapped, sealed>>

-----------------------------------------------------------------------------
(* An operation opens the source.                                          *)

\* _require_ready: why the provider cannot work.
NotReady(p) ==
    LET v == provider[p]
    IN  CASE v.latched               -> "recovery_required"
          [] v.wrap = None           -> "readiness_required"
          [] v.pin = None            -> "readiness_required"
          [] domain[v.wrap].reuse    -> "recovery_required"
          [] OTHER                   -> "ok"

\* _require_ready refuses; a collision that another provider met is latched here.
RefuseUnready(p) ==
    /\ NotReady(p) # "ok"
    /\ provider' = IF NotReady(p) = "recovery_required" /\ ~provider[p].latched
                   THEN [provider EXCEPT ![p] = Latch(@, "readable")] ELSE provider
    /\ Return(p, NotReady(p))

\* _material_session up to its yield.
Enter(p, op, arg) ==
    \E s \in OpenSource(provider[p].path) :
        LET code == Entered(s, provider[p].pin)
        IN  IF code = "ok"
            THEN /\ call' = [call EXCEPT ![p] =
                       [op |-> op, arg |-> arg, seen |-> s.pin,
                        code |-> "ok", worked |-> FALSE]]
                 /\ UNCHANGED provider
            ELSE /\ Return(p, code)
                 /\ provider' = [provider EXCEPT ![p] = Refused(@, s, @.pin)]

\* source_status, when the provider has a pin; without one it changes nothing.
SourceStatusBegin(p) ==
    /\ Live(p) /\ Free(p) /\ provider[p].pin # None
    /\ Enter(p, "status", None)
    /\ UNCHANGED <<source, domain, prep, handle, wrapped, sealed>>

\* readiness
ReadinessBegin(p) ==
    /\ Live(p) /\ Free(p)
    /\ IF provider[p].latched
       THEN /\ Return(p, "recovery_required")
            /\ UNCHANGED provider
       ELSE Enter(p, "readiness", None)
    /\ UNCHANGED <<source, domain, prep, handle, wrapped, sealed>>

\* prepare_profile_key
PrepareBegin(p, b) ==
    /\ Live(p) /\ Free(p)
    /\ \/ RefuseUnready(p)
       \/ NotReady(p) = "ok" /\ Enter(p, "prepare", b)
    /\ UNCHANGED <<source, domain, prep, handle, wrapped, sealed>>

\* _handle_is_current, _preparation_is_current: answered under the lock.
IsCurrent(p) ==
    /\ ~provider[p].latched
    /\ provider[p].wrap # None /\ ~domain[provider[p].wrap].reuse

\* (As it would be if a preparation were not marked as used.)
ConsumeAgain(p, r) ==
    /\ r \in prep /\ r.owner = p /\ Free(p)
    /\ prep' = (prep \ {r}) \cup {[r EXCEPT !.completing = IsCurrent(p)]}
    /\ UNCHANGED <<source, domain, provider, call, handle, wrapped, sealed>>

\* complete_profile_key, ProfileKeyPreparation._consume: the preparation is
\* consumed before anything else is looked at.  The lock is taken after that.
Consume(p, r) ==
    /\ r \in prep /\ r.owner = p /\ ~r.consumed /\ Free(p)
    /\ prep' = (prep \ {r}) \cup {[r EXCEPT !.consumed = TRUE, !.completing = IsCurrent(p)]}
    /\ UNCHANGED <<source, domain, provider, call, handle, wrapped, sealed>>

CompleteBegin(p, r) ==
    /\ r \in prep /\ r.owner = p /\ r.completing /\ Free(p)
    /\ prep' = (prep \ {r}) \cup {[r EXCEPT !.completing = FALSE]}
    /\ \/ RefuseUnready(p)
       \/ NotReady(p) = "ok" /\ Enter(p, "complete", r)
       \/ NotReady(p) = "ok" /\ Return(p, "unavailable") /\ UNCHANGED provider
    /\ UNCHANGED <<source, domain, handle, wrapped, sealed>>

\* unwrap_profile_key of a record of this provider's key reference and binding.
UnwrapBegin(p, w, h) ==
    /\ Live(p) /\ Free(p)
    /\ \/ RefuseUnready(p)
       \/ NotReady(p) = "ok" /\ Enter(p, "unwrap", [record |-> w, handle |-> h])
    /\ UNCHANGED <<source, domain, prep, handle, wrapped, sealed>>

-----------------------------------------------------------------------------
(* It works.                                                               *)

Working(p, op) == call[p].op = op /\ ~call[p].worked

Worked(p, code) == call' = [call EXCEPT ![p].worked = TRUE, ![p].code = code]

\* The sentinel does not authenticate, or decryption fails: recovery is latched
\* at once.
SentinelRejected(p) ==
    /\ Working(p, "readiness")
    /\ \E code \in {"catalog_key_mismatch", "unavailable"} :
          /\ code = "catalog_key_mismatch" => provider[p].sentinel.key # call[p].seen.key
          /\ provider' = [provider EXCEPT ![p] = Latch(@, SourceStatusFor(code))]
          /\ Worked(p, code)
    /\ UNCHANGED <<source, domain, prep, handle, wrapped, sealed>>

\* _record_authenticated_sentinel
Collides(s, d) ==
    \/ s.nonce \in d.used
    \/ \E t \in d.sentinels : t.nonce = s.nonce /\ t # s

RecordAuthenticatedSentinel(p) ==
    /\ Working(p, "readiness") /\ provider[p].sentinel.key = call[p].seen.key
    /\ LET k == call[p].seen.key
           s == provider[p].sentinel
       IN  IF domain[k].reuse \/ Collides(s, domain[k])
           THEN Worked(p, "nonce_reuse") /\ domain' = [domain EXCEPT ![k].reuse = TRUE]
           ELSE Worked(p, "ok") /\ domain' = [domain EXCEPT ![k].sentinels = @ \cup {s}]
    /\ UNCHANGED <<source, provider, prep, handle, wrapped, sealed>>

\* _reserve_nonce refuses.
ReserveRefused(p) ==
    /\ Working(p, "prepare")
    /\ LET d == domain[provider[p].wrap]
       IN  \/ d.reuse /\ Worked(p, "nonce_reuse")
           \/ ~d.reuse /\ d.count >= WrapLimit /\ Worked(p, "usage_limit")
           \/ ~d.reuse /\ d.count < WrapLimit /\ Worked(p, "unavailable")
    /\ UNCHANGED <<source, domain, provider, prep, handle, wrapped, sealed>>

\* _reserve_nonce draws n.
ReserveNonce(p, n) ==
    /\ Working(p, "prepare")
    /\ LET k == provider[p].wrap
           d == domain[k]
       IN  /\ ~d.reuse /\ d.count < WrapLimit
           /\ IF n \in d.used \/ \E s \in d.sentinels : s.nonce = n
              THEN /\ domain' = [domain EXCEPT ![k].reuse = TRUE]
                   /\ Worked(p, "nonce_reuse")
              ELSE /\ domain' = [domain EXCEPT ![k].used = @ \cup {n}, ![k].count = @ + 1]
                   /\ call' = [call EXCEPT ![p].worked = TRUE,
                                           ![p].arg = [binding |-> @, nonce |-> n]]
    /\ UNCHANGED <<source, provider, prep, handle, wrapped, sealed>>

\* complete_profile_key encrypts a new random key under the prepared nonce.
Encrypt(p) ==
    /\ Working(p, "complete")
    /\ \E code \in {"ok", "unavailable"} : Worked(p, code)
    /\ sealed' = [sealed EXCEPT ![call[p].seen.key][call[p].arg.nonce] = @ + 1]
    /\ UNCHANGED <<source, domain, provider, prep, handle, wrapped>>

\* unwrap_profile_key decrypts; source_status only reads.
Decrypt(p) ==
    /\ \/ /\ Working(p, "unwrap")
          /\ \/ Worked(p, "unavailable")
             \/ Worked(p, IF call[p].arg.record.key = call[p].seen.key
                          THEN "ok" ELSE "catalog_key_mismatch")
       \/ Working(p, "status") /\ Worked(p, "ok")
    /\ UNCHANGED <<source, domain, provider, prep, handle, wrapped, sealed>>

-----------------------------------------------------------------------------
(* The source is opened again and the operation returns.                   *)

\* The second open found the source unchanged.
Revalidated(p) == \E s \in OpenSource(provider[p].path) : Left(s, call[p].seen) = "ok"

\* The operation fails because the source changed under it.
LeaveChanged(p) ==
    /\ call[p].op \in Op /\ call[p].worked
    /\ \E s \in OpenSource(provider[p].path) :
           LET code == Left(s, call[p].seen)
           IN  /\ code # "ok"
               /\ provider' = [provider EXCEPT ![p] = Latch(@, SourceStatusFor(code))]
               /\ Return(p, IF call[p].code = "ok" THEN code ELSE call[p].code)
    /\ UNCHANGED <<source, domain, prep, handle, wrapped, sealed>>

\* The source is the same and the work had failed.  A readiness that fails and a
\* record that does not authenticate latch recovery; a refused nonce does not.
LeaveFailed(p) ==
    /\ call[p].op \in Op /\ call[p].worked /\ call[p].code # "ok"
    /\ Revalidated(p)
    /\ provider' = IF ~provider[p].latched
                      /\ \/ call[p].op = "readiness"
                         \/ call[p].op = "unwrap" /\ call[p].code = "catalog_key_mismatch"
                   THEN [provider EXCEPT ![p] = Latch(@, SourceStatusFor(call[p].code))]
                   ELSE provider
    /\ Return(p, call[p].code)
    /\ UNCHANGED <<source, domain, prep, handle, wrapped, sealed>>

\* The work is done and the source is the same.
Leaves(p, op) ==
    /\ call[p].op = op /\ call[p].worked /\ call[p].code = "ok"
    /\ Revalidated(p)

SourceStatusEnd(p) ==
    /\ Leaves(p, "status")
    /\ Return(p, "ok")
    /\ UNCHANGED <<source, domain, provider, prep, handle, wrapped, sealed>>

\* (As it would be if the key had no single live provider.)
ReadinessEndShared(p) ==
    /\ Leaves(p, "readiness")
    /\ domain' = [domain EXCEPT ![call[p].seen.key].live = p]
    /\ provider' = [provider EXCEPT ![p].wrap = call[p].seen.key, ![p].pin = call[p].seen]
    /\ Return(p, "ok")
    /\ UNCHANGED <<source, prep, handle, wrapped, sealed>>

\* _activate_key_domain, and the pin is set.
ReadinessEnd(p) ==
    /\ Leaves(p, "readiness")
    /\ LET k == call[p].seen.key
           d == domain[k]
           code == CASE d.reuse \/ provider[p].sentinel \notin d.sentinels -> "nonce_reuse"
                     [] d.live \notin {None, p} -> "provider_already_active"
                     [] OTHER -> "ok"
       IN  IF code = "ok"
           THEN /\ domain' = [domain EXCEPT ![k].live = p]
                /\ provider' = [provider EXCEPT ![p].wrap = k, ![p].pin = call[p].seen]
                /\ Return(p, "ok")
           ELSE /\ provider' = [provider EXCEPT ![p] = Latch(@, SourceStatusFor(code))]
                /\ Return(p, code)
                /\ UNCHANGED domain
    /\ UNCHANGED <<source, prep, handle, wrapped, sealed>>

\* _assert_domain_unlatched_locked, the last look before a result is handed out.
DomainLatched(p) == domain[provider[p].wrap].reuse

RefuseLatched(p) ==
    /\ DomainLatched(p)
    /\ provider' = [provider EXCEPT ![p] = Latch(@, "readable")]
    /\ Return(p, "recovery_required")

PrepareEnd(p) ==
    /\ Leaves(p, "prepare")
    /\ \/ RefuseLatched(p) /\ UNCHANGED prep
       \/ /\ ~DomainLatched(p)
          /\ prep' = prep \cup {NewPreparation(p, call[p].arg.binding, call[p].arg.nonce,
                                               provider[p].wrap)}
          /\ Return(p, "ok") /\ UNCHANGED provider
    /\ UNCHANGED <<source, domain, handle, wrapped, sealed>>

CompleteEnd(p) ==
    /\ Leaves(p, "complete")
    /\ \/ RefuseLatched(p) /\ UNCHANGED wrapped
       \/ /\ ~DomainLatched(p)
          /\ wrapped' = wrapped \cup {[binding |-> call[p].arg.binding,
                                       nonce |-> call[p].arg.nonce, key |-> call[p].seen.key]}
          /\ Return(p, "ok") /\ UNCHANGED provider
    /\ UNCHANGED <<source, domain, prep, handle, sealed>>

UnwrapEnd(p) ==
    /\ Leaves(p, "unwrap")
    /\ \/ RefuseLatched(p) /\ UNCHANGED handle
       \/ /\ ~DomainLatched(p)
          /\ handle' = [handle EXCEPT ![call[p].arg.handle] = NewHandle(p)]
          /\ Return(p, "ok") /\ UNCHANGED provider
    /\ UNCHANGED <<source, domain, prep, wrapped, sealed>>

-----------------------------------------------------------------------------
(* ProfileDekHandle.  Its own lock is held while an operation runs, and    *)
(* the check takes and frees the provider's lock before the key is used.   *)

Accepted(h) == Free(handle[h].owner) /\ IsCurrent(handle[h].owner)

HandleStep(h, from, to) ==
    /\ handle[h].state = from
    /\ handle' = [handle EXCEPT ![h].state = to]
    /\ UNCHANGED <<source, domain, provider, call, prep, wrapped, sealed>>

\* __enter__
EnterHandle(h) == HandleStep(h, "issued", "active") /\ Accepted(h)

\* use: the check, and then the operation and the overwriting of the buffer.
UseHandle(h) == HandleStep(h, "active", "in_use") /\ Accepted(h)

FinishUse(h) == HandleStep(h, "in_use", "closed")

\* close, __exit__, __del__
CloseHandle(h) == \E s \in {"issued", "active"} : HandleStep(h, s, "closed")

-----------------------------------------------------------------------------
Begin(p) ==
    \/ SourceStatusBegin(p) \/ ReadinessBegin(p)
    \/ \E b \in Binding : PrepareBegin(p, b)
    \/ \E r \in prep : Consume(p, r) \/ CompleteBegin(p, r)
    \/ \E w \in wrapped, h \in Handle : handle[h].state = "closed" /\ UnwrapBegin(p, w, h)

Work(p) ==
    \/ SentinelRejected(p) \/ RecordAuthenticatedSentinel(p)
    \/ ReserveRefused(p) \/ \E n \in Nonce : ReserveNonce(p, n)
    \/ Encrypt(p) \/ Decrypt(p)

End(p) ==
    \/ LeaveChanged(p) \/ LeaveFailed(p)
    \/ SourceStatusEnd(p) \/ ReadinessEnd(p) \/ PrepareEnd(p) \/ CompleteEnd(p) \/ UnwrapEnd(p)

HandleNext(h) == EnterHandle(h) \/ UseHandle(h) \/ FinishUse(h) \/ CloseHandle(h)

ProviderInit ==
    /\ source \in [Path -> {s \in Source : s.id = 1 /\ s.status = "readable"}]
    /\ domain = [k \in Key |-> UnknownDomain]
    /\ provider = [p \in Provider |-> NoProvider]
    /\ call = [p \in Provider |-> Ended("ok")]
    /\ prep = {} /\ wrapped = {}
    /\ handle = [h \in Handle |-> NoHandle]
    /\ sealed = [k \in Key |-> [n \in Nonce |-> 0]]

ProviderNext ==
    \/ \E path \in Path, status \in SourceStatus, k \in Key : ChangeSource(path, status, k)
    \/ \E p \in Provider :
           \/ \E path \in Path, s \in Sentinel : Construct(p, path, s)
           \/ Drop(p) \/ Begin(p) \/ Work(p) \/ End(p)
    \/ \E h \in Handle : HandleNext(h)

ProviderSpec == ProviderInit /\ [][ProviderNext]_providerVars

-----------------------------------------------------------------------------
(* Properties.                                                             *)

ProviderTypeOK ==
    /\ source \in [Path -> Source]
    /\ domain \in [Key -> DomainState]
    /\ provider \in [Provider -> ProviderState]
    /\ \A p \in Provider : call[p].op \in Op \cup {"none"} /\ call[p].code \in Code \cup {"refused"}
    /\ \A r \in prep : r.owner \in Provider /\ r.nonce \in domain[r.key].used
    /\ handle \in [Handle -> [owner : Provider \cup {None},
                              state : {"issued", "active", "in_use", "closed"}]]
    /\ wrapped \subseteq WrappedKey

\* No nonce encrypts two profile keys under one wrapping key, and none encrypts a
\* profile key that a sentinel authenticated in this process has used, whatever
\* preparations are completed twice or at once, whatever providers come and go
\* and whatever is done to the files (ProfileKeyPreparation._consume,
\* _reserve_nonce, _record_authenticated_sentinel).
NonceEncryptsOnce ==
    \A k \in Key :
        /\ \A n \in Nonce : sealed[k][n] <= 1
        /\ \A s \in domain[k].sentinels : sealed[k][s.nonce] = 0

\* Two live providers never share a wrapping key, also when the copies of one key
\* file are at two paths and both become ready at once (_activate_key_domain).
OneProviderPerKey ==
    \A p, q \in Provider :
        (Live(p) /\ Live(q) /\ provider[p].wrap # None /\ provider[p].wrap = provider[q].wrap)
            => p = q
=============================================================================
