---------------------- MODULE OwnerFileProviderProofs ----------------------
(***************************************************************************)
(* The safety of the key provider, proved for any number of providers,     *)
(* paths, keys, nonces and versions of a file.                             *)
(*                                                                         *)
(* The right to encrypt under a nonce is a token.  _reserve_nonce makes    *)
(* it, a preparation carries it, and it is spent when the preparation's    *)
(* completion encrypts.  The invariant says where the token of a key and   *)
(* nonce can be: in a prepare that has drawn its nonce, in a preparation   *)
(* that is not used up, or in a completion that has not encrypted yet, and *)
(* in one of them only.  What ties the three together is that a key has    *)
(* one live provider, and that a provider works under one key for as long  *)
(* as it lives.                                                            *)
(***************************************************************************)
EXTENDS OwnerFileProvider, TLAPS

Preparation == [owner : Provider, binding : Binding, nonce : Nonce, key : Key,
                consumed : BOOLEAN, completing : BOOLEAN]

\* The calls that are under way, whatever their argument.
InCall(c) ==
    /\ c = [op |-> c.op, arg |-> c.arg, seen |-> c.seen, code |-> c.code, worked |-> c.worked]
    /\ c.op \in Op /\ c.seen \in Pin /\ c.worked \in BOOLEAN
    /\ c.worked = FALSE => c.code = "ok"

Types ==
    /\ source \in [Path -> Source]
    /\ domain \in [Key -> [count : Nat, used : SUBSET Nonce, sentinels : SUBSET Sentinel,
                           reuse : BOOLEAN, live : Provider \cup {None}]]
    /\ provider \in [Provider -> ProviderState]
    /\ sealed \in [Key -> [Nonce -> Nat]]
    /\ prep \subseteq Preparation

CallType ==
    /\ call = [p \in Provider |-> call[p]]
    /\ \A p \in Provider : call[p].op = "none" \/ InCall(call[p])

\* A provider works under one key, and is the live provider of that key.
Activated(p) ==
    /\ provider[p].path = None => provider[p].wrap = None /\ Free(p)
    /\ provider[p].path # None => provider[p].sentinel \in Sentinel
    /\ provider[p].wrap # None => domain[provider[p].wrap].live = p
    /\ provider[p].pin # None => provider[p].pin.key = provider[p].wrap
    /\ provider[p].wrap # None /\ provider[p].pin = None => provider[p].latched = TRUE
    /\ call[p].op = "readiness" /\ call[p].code = "ok" /\ provider[p].wrap # None =>
           provider[p].wrap = call[p].seen.key
    /\ call[p].op \in {"prepare", "complete"} => provider[p].wrap # None

\* A preparation that can still be completed.
Alive(r) == r.consumed = FALSE \/ r.completing = TRUE

Prepared ==
    /\ \A r \in prep :
        /\ provider[r.owner].wrap = r.key
        /\ r.nonce \in domain[r.key].used
        /\ r.completing = TRUE => r.consumed = TRUE
        /\ Alive(r) => sealed[r.key][r.nonce] = 0
    /\ \A r, x \in prep : r.key = x.key /\ r.nonce = x.nonce => r = x

\* p has drawn a nonce that no preparation carries yet.
Drawn(p) == call[p].op = "prepare" /\ call[p].worked = TRUE /\ call[p].code = "ok"

DrawnOnce(p) ==
    Drawn(p) =>
        LET k == provider[p].wrap
            n == call[p].arg.nonce
        IN  /\ n \in Nonce /\ n \in domain[k].used /\ sealed[k][n] = 0
            /\ call[p].arg.binding \in Binding
            /\ \A r \in prep : ~(r.key = k /\ r.nonce = n)

\* p is about to encrypt.
Encrypting(p) == call[p].op = "complete" /\ call[p].worked = FALSE

EncryptsNew(p) ==
    Encrypting(p) =>
        LET k == call[p].seen.key
            n == call[p].arg.nonce
        IN  /\ provider[p].wrap = k
            /\ n \in Nonce /\ n \in domain[k].used /\ sealed[k][n] = 0
            /\ \A r \in prep : r.key = k /\ r.nonce = n => ~Alive(r)

\* The argument of a prepare that has not drawn its nonce.
Asked(p) == call[p].op = "prepare" /\ call[p].worked = FALSE => call[p].arg \in Binding

\* Nonces that have encrypted, are reserved or belong to a sentinel.
Nonces ==
    \A k \in Key :
        /\ \A n \in Nonce : sealed[k][n] <= 1 /\ (sealed[k][n] # 0 => n \in domain[k].used)
        /\ \A s \in domain[k].sentinels : s.nonce \notin domain[k].used

ProviderInv ==
    /\ Types
    /\ CallType
    /\ \A p \in Provider : Activated(p)
    /\ Prepared
    /\ \A p \in Provider : DrawnOnce(p) /\ EncryptsNew(p) /\ Asked(p)
    /\ Nonces

-----------------------------------------------------------------------------
(* The steps of a call.                                                    *)

\* Recovery is latched, or it is not.
Latches(p) ==
    \/ provider' = provider
    \/ \E st \in SourceStatus : provider' = [provider EXCEPT ![p] = Latch(@, st)]

\* Latching recovery changes neither the key nor the sentinel of a provider.
LEMMA LatchKeeps ==
    ASSUME ProviderInv, NEW p \in Provider, Latches(p)
    PROVE  /\ provider' \in [Provider -> ProviderState]
           /\ \A q \in Provider \ {p} : provider'[q] = provider[q]
           /\ \A q \in Provider :
                /\ provider'[q].path = provider[q].path
                /\ provider'[q].sentinel = provider[q].sentinel
                /\ provider'[q].wrap = provider[q].wrap
                /\ \/ /\ provider'[q].pin = provider[q].pin
                      /\ provider'[q].latched = provider[q].latched
                   \/ provider'[q].pin = None /\ provider'[q].latched = TRUE
<1>1. provider \in [Provider -> ProviderState]
  BY DEF ProviderInv, Types
<1>2. CASE provider' = provider
  BY <1>1, <1>2
<1>3. ASSUME NEW st \in SourceStatus, provider' = [provider EXCEPT ![p] = Latch(@, st)]
      PROVE  /\ provider' \in [Provider -> ProviderState]
             /\ provider'[p].path = provider[p].path
             /\ provider'[p].sentinel = provider[p].sentinel
             /\ provider'[p].wrap = provider[p].wrap
             /\ provider'[p].pin = None /\ provider'[p].latched = TRUE
             /\ \A q \in Provider \ {p} : provider'[q] = provider[q]
  BY <1>1, <1>3 DEF Latch, ProviderState
<1> QED
  BY <1>1, <1>2, <1>3 DEF Latches

\* The statuses that are reported are statuses.
LEMMA StatusTypes ==
    /\ \A code : SourceStatusFor(code) \in SourceStatus
    /\ \A a, b : StatusForPinDifference(a, b) \in SourceStatus
    /\ "readable" \in SourceStatus
BY DEF SourceStatusFor, StatusForPinDifference, SourceStatus

\* What another provider's step may do under the key of q.
Undisturbed(q) ==
    /\ call'[q] = call[q] /\ provider'[q] = provider[q]
    /\ LET k == provider[q].wrap
       IN  k # None =>
            /\ domain'[k].live = domain[k].live
            /\ domain[k].used \subseteq domain'[k].used
            /\ sealed'[k] = sealed[k]
            /\ \A r \in prep' : r.key = k => r \in prep

\* Then what holds of q holds after the step.
LEMMA Bystander ==
    ASSUME ProviderInv, NEW q \in Provider, Undisturbed(q)
    PROVE  Activated(q)' /\ DrawnOnce(q)' /\ EncryptsNew(q)' /\ Asked(q)'
<1>1. Activated(q) /\ DrawnOnce(q) /\ EncryptsNew(q) /\ Asked(q)
  BY DEF ProviderInv
<1>2. call'[q] = call[q] /\ provider'[q] = provider[q]
  BY DEF Undisturbed
<1>3. Activated(q)'
  BY <1>1, <1>2 DEF Activated, Undisturbed, Free
<1>4. Asked(q)'
  BY <1>1, <1>2 DEF Asked
<1>5. call[q].op \in {"prepare", "complete"} =>
        /\ provider[q].wrap # None
        /\ domain[provider[q].wrap].used \subseteq domain'[provider[q].wrap].used
        /\ sealed'[provider[q].wrap] = sealed[provider[q].wrap]
        /\ \A r \in prep' : r.key = provider[q].wrap => r \in prep
  BY <1>1 DEF Activated, Undisturbed
<1>6. DrawnOnce(q)'
  BY <1>1, <1>2, <1>5 DEF DrawnOnce, Drawn
<1>7. EncryptsNew(q)'
  BY <1>1, <1>2, <1>5 DEF EncryptsNew, Encrypting, Alive
<1> QED
  BY <1>3, <1>4, <1>6, <1>7

\* The preparations stay what they are while their keys and nonces do.
LEMMA PreparedStays ==
    ASSUME ProviderInv, prep' \subseteq prep,
           \A r \in prep' : provider'[r.owner].wrap = provider[r.owner].wrap,
           \A k \in Key : domain[k].used \subseteq domain'[k].used,
           sealed' = sealed
    PROVE  Prepared'
<1>1. prep \subseteq Preparation
  BY DEF ProviderInv, Types
<1>2. Prepared
  BY DEF ProviderInv
<1> QED
  BY <1>1, <1>2 DEF Prepared, Preparation, Alive

\* A call that ends gives up what it held: a drawn nonce is lost, never reused.
LEMMA EndKeepsInv ==
    ASSUME ProviderInv, NEW p \in Provider, NEW code, Return(p, code), Latches(p),
           UNCHANGED <<source, domain, prep, sealed>>
    PROVE  ProviderInv'
<1>1. /\ call'[p].op = "none"
      /\ \A q \in Provider \ {p} : call'[q] = call[q]
      /\ call' = [q \in Provider |-> call'[q]]
  BY DEF Return, Ended, ProviderInv, CallType
<1>2. Types' /\ Nonces'
  BY LatchKeeps DEF ProviderInv, Types, Nonces
<1>3. CallType'
  BY <1>1 DEF ProviderInv, CallType
<1>4. ASSUME NEW q \in Provider, q # p
      PROVE  Activated(q)' /\ DrawnOnce(q)' /\ EncryptsNew(q)' /\ Asked(q)'
  BY <1>1, <1>4, LatchKeeps, Bystander DEF Undisturbed
<1>5. Activated(p)'
  <2>1. Activated(p)
    BY DEF ProviderInv
  <2> QED
    BY <1>1, <2>1, LatchKeeps DEF Activated, Free
<1>6. Prepared'
  BY LatchKeeps, PreparedStays DEF ProviderInv, Types, Preparation
<1>7. DrawnOnce(p)' /\ EncryptsNew(p)' /\ Asked(p)'
  BY <1>1 DEF DrawnOnce, Drawn, EncryptsNew, Encrypting, Asked
<1> QED
  BY <1>2, <1>3, <1>4, <1>5, <1>6, <1>7 DEF ProviderInv

\* The record of a call that begins.
NewCall(op, arg, seen) ==
    [op |-> op, arg |-> arg, seen |-> seen, code |-> "ok", worked |-> FALSE]

\* A call that has opened the source is one under way.
LEMMA NewCallType ==
    ASSUME NEW op \in Op, NEW arg, NEW seen \in Pin
    PROVE  InCall(NewCall(op, arg, seen))
BY DEF InCall, NewCall

\* A call that begins takes nothing: its provider is live, and works under the
\* key that its source shows, if it has worked before.
LEMMA BeginKeepsInv ==
    ASSUME ProviderInv, NEW p \in Provider, NEW op \in Op, NEW arg, NEW seen \in Pin,
           Live(p), Free(p), op # "complete",
           op = "readiness" /\ provider[p].wrap # None => provider[p].wrap = seen.key,
           op = "prepare" => provider[p].wrap # None /\ arg \in Binding,
           call' = [call EXCEPT ![p] = NewCall(op, arg, seen)],
           UNCHANGED <<source, domain, provider, prep, sealed>>
    PROVE  ProviderInv'
<1>1. /\ call'[p] = NewCall(op, arg, seen)
      /\ \A q \in Provider \ {p} : call'[q] = call[q]
      /\ call' = [q \in Provider |-> call'[q]]
  BY DEF ProviderInv, CallType
<1>2. Types' /\ Nonces' /\ Prepared'
  BY DEF ProviderInv, Types, Nonces, Prepared
<1>3. CallType'
  BY <1>1 DEF ProviderInv, CallType, InCall, NewCall
<1>4. ASSUME NEW q \in Provider PROVE Activated(q)'
  BY <1>1 DEF ProviderInv, Activated, Free, Live, NewCall
<1>5. ASSUME NEW q \in Provider PROVE DrawnOnce(q)' /\ EncryptsNew(q)' /\ Asked(q)'
  BY <1>1 DEF ProviderInv, DrawnOnce, Drawn, EncryptsNew, Encrypting, Asked, NewCall
<1> QED
  BY <1>2, <1>3, <1>4, <1>5 DEF ProviderInv

\* What the first half of a session does: it begins the call with what it saw,
\* which is the pin if there is one, or it latches recovery and returns.
LEMMA EnterSteps ==
    ASSUME ProviderInv, NEW p \in Provider, NEW op, NEW arg, Live(p), Enter(p, op, arg)
    PROVE  \/ \E code : Return(p, code) /\ Latches(p)
           \/ \E seen \in Pin :
                /\ call' = [call EXCEPT ![p] = NewCall(op, arg, seen)]
                /\ UNCHANGED provider
                /\ provider[p].pin # None => seen = provider[p].pin
<1>1. provider[p].path \in Path /\ source \in [Path -> Source]
  BY DEF ProviderInv, Types, ProviderState, Live
<1>2. PICK s \in OpenSource(provider[p].path) :
        LET code == Entered(s, provider[p].pin)
        IN  IF code = "ok"
            THEN /\ call' = [call EXCEPT ![p] =
                       [op |-> op, arg |-> arg, seen |-> s.pin,
                        code |-> "ok", worked |-> FALSE]]
                 /\ UNCHANGED provider
            ELSE /\ Return(p, code)
                 /\ provider' = [provider EXCEPT ![p] = Refused(@, s, @.pin)]
  BY DEF Enter
<1>3. CASE Entered(s, provider[p].pin) = "ok"
  <2>1. s.code = "ok" /\ (provider[p].pin # None => s.pin = provider[p].pin)
    BY <1>3 DEF Entered
  <2>2. s.pin \in Pin
    BY <1>1, <2>1 DEF OpenSource, Source, Pin
  <2> QED
    BY <1>2, <1>3, <2>1, <2>2 DEF NewCall
<1>4. CASE Entered(s, provider[p].pin) # "ok"
  <2>1. PICK st \in SourceStatus : Refused(provider[p], s, provider[p].pin) = Latch(provider[p], st)
    BY StatusTypes DEF Refused
  <2>2. provider' = [provider EXCEPT ![p] = Latch(@, st)]
    BY <1>2, <1>4, <2>1 DEF ProviderInv, Types
  <2> QED
    BY <1>2, <1>4, <2>2 DEF Latches
<1> QED
  BY <1>3, <1>4

\* A refusal of _require_ready ends the call.
LEMMA RefuseUnreadyKeeps ==
    ASSUME ProviderInv, NEW p \in Provider, RefuseUnready(p)
    PROVE  \E code : Return(p, code) /\ Latches(p)
<1>1. Latches(p)
  BY StatusTypes DEF RefuseUnready, Latches
<1> QED
  BY <1>1 DEF RefuseUnready

\* A provider that is ready has a key, which is the key of its pin.
LEMMA ReadyHasKey ==
    ASSUME ProviderInv, NEW p \in Provider, NotReady(p) = "ok"
    PROVE  /\ provider[p].wrap # None /\ provider[p].pin # None
           /\ provider[p].pin.key = provider[p].wrap
<1>1. provider[p].wrap # None /\ provider[p].pin # None
  BY DEF NotReady
<1> QED
  BY <1>1 DEF ProviderInv, Activated

\* A call that works and fails, or that draws no nonce.
LEMMA WorkedKeepsInv ==
    ASSUME ProviderInv, NEW p \in Provider, NEW code, call[p].op \in Op, Worked(p, code),
           Latches(p), provider' = provider \/ code # "ok",
           call[p].op = "prepare" => code # "ok",
           call[p].op = "readiness" => code # "ok",
           UNCHANGED <<source, domain, prep, sealed>>
    PROVE  ProviderInv'
<1>1. InCall(call[p])
  BY DEF ProviderInv, CallType, Op
<1>2. /\ call'[p] = [call[p] EXCEPT !.worked = TRUE, !.code = code]
      /\ \A q \in Provider \ {p} : call'[q] = call[q]
      /\ call' = [q \in Provider |-> call'[q]]
  BY DEF ProviderInv, CallType, Worked
<1>3. /\ call'[p].op = call[p].op /\ call'[p].arg = call[p].arg /\ call'[p].seen = call[p].seen
      /\ call'[p].code = code /\ call'[p].worked = TRUE
      /\ InCall(call'[p])
  BY <1>1, <1>2 DEF InCall
<1>4. Types' /\ Nonces'
  BY LatchKeeps DEF ProviderInv, Types, Nonces
<1>5. CallType'
  BY <1>2, <1>3 DEF ProviderInv, CallType
<1>6. ASSUME NEW q \in Provider, q # p
      PROVE  Activated(q)' /\ DrawnOnce(q)' /\ EncryptsNew(q)' /\ Asked(q)'
  BY <1>2, <1>6, LatchKeeps, Bystander DEF Undisturbed
<1>7. Activated(p)'
  <2>1. Activated(p) /\ call[p].op # "none"
    BY DEF ProviderInv, Op
  <2> QED
    BY <1>3, <2>1, LatchKeeps DEF Activated, Free
<1>8. Prepared'
  BY LatchKeeps, PreparedStays DEF ProviderInv, Types, Preparation
<1>9. DrawnOnce(p)' /\ EncryptsNew(p)' /\ Asked(p)'
  BY <1>3 DEF DrawnOnce, Drawn, EncryptsNew, Encrypting, Asked
<1> QED
  BY <1>4, <1>5, <1>6, <1>7, <1>8, <1>9 DEF ProviderInv

-----------------------------------------------------------------------------
(* Composition.                                                            *)

\* The operator's changes to a file touch no provider.
LEMMA ChangeSourceKeepsInv ==
    ASSUME ProviderInv, NEW path \in Path, NEW status \in SourceStatus, NEW k \in Key,
           ChangeSource(path, status, k)
    PROVE  ProviderInv'
<1>1. UNCHANGED <<domain, provider, call, prep, handle, wrapped, sealed>>
  BY DEF ChangeSource
<1>2. source' \in [Path -> Source]
  <2>1. source \in [Path -> Source] /\ source[path] \in Source /\ source[path].id < MaxId
    BY DEF ProviderInv, Types, ChangeSource
  <2>2. source[path].id + 1 \in 1..MaxId
    BY <2>1, ProviderAssumption DEF Source
  <2> QED
    BY <2>1, <2>2 DEF ChangeSource, Source
<1>3. Types' /\ CallType' /\ Prepared' /\ Nonces'
  BY <1>1, <1>2 DEF ProviderInv, Types, CallType, Prepared, Nonces
<1>4. ASSUME NEW q \in Provider
      PROVE  Activated(q)' /\ DrawnOnce(q)' /\ EncryptsNew(q)' /\ Asked(q)'
  BY <1>1, Bystander DEF Undisturbed
<1> QED
  BY <1>3, <1>4 DEF ProviderInv

\* A provider that is constructed has no key yet.
LEMMA ConstructKeepsInv ==
    ASSUME ProviderInv, NEW p \in Provider, NEW path \in Path, NEW s \in Sentinel,
           Construct(p, path, s)
    PROVE  ProviderInv'
<1>1. UNCHANGED <<source, domain, call, prep, handle, wrapped, sealed>> /\ provider[p].path = None
  BY DEF Construct, Live
<1>2. provider[p].wrap = None /\ call[p].op = "none"
  BY <1>1 DEF ProviderInv, Activated, Free
<1>3. provider \in [Provider -> ProviderState]
  BY DEF ProviderInv, Types
<1>4. /\ provider' \in [Provider -> ProviderState]
      /\ provider'[p] = [path |-> path, sentinel |-> s, pin |-> None, wrap |-> None,
                         latched |-> FALSE, status |-> "unavailable"]
      /\ \A q \in Provider \ {p} : provider'[q] = provider[q]
  BY <1>3 DEF Construct, NoProvider, ProviderState, SourceStatus
<1>5. Types' /\ CallType' /\ Nonces'
  BY <1>1, <1>4 DEF ProviderInv, Types, CallType, Nonces
<1>6. ASSUME NEW q \in Provider, q # p
      PROVE  Activated(q)' /\ DrawnOnce(q)' /\ EncryptsNew(q)' /\ Asked(q)'
  BY <1>1, <1>4, <1>6, Bystander DEF Undisturbed
<1>7. Activated(p)'
  BY <1>1, <1>2, <1>4, ProviderNone DEF Activated, Free
<1>8. DrawnOnce(p)' /\ EncryptsNew(p)' /\ Asked(p)'
  BY <1>1, <1>2 DEF DrawnOnce, Drawn, EncryptsNew, Encrypting, Asked
<1>9. \A r \in prep : provider'[r.owner].wrap = provider[r.owner].wrap
  BY <1>2, <1>4 DEF ProviderInv, Types, Preparation
<1>10. Prepared'
  BY <1>1, <1>9, PreparedStays
<1> QED
  BY <1>5, <1>6, <1>7, <1>8, <1>10 DEF ProviderInv

\* A provider that is dropped takes its preparations with it, so that its key is
\* free for another.
LEMMA DropKeepsInv ==
    ASSUME ProviderInv, NEW p \in Provider, Drop(p)
    PROVE  ProviderInv'
<1>1. /\ UNCHANGED <<source, call, wrapped, sealed>> /\ call[p].op = "none"
      /\ prep' = {r \in prep : r.owner # p}
  BY DEF Drop, Free
<1>2. /\ provider \in [Provider -> ProviderState] /\ prep \subseteq Preparation
      /\ domain \in [Key -> [count : Nat, used : SUBSET Nonce, sentinels : SUBSET Sentinel,
                             reuse : BOOLEAN, live : Provider \cup {None}]]
  BY DEF ProviderInv, Types
<1>3. /\ provider' \in [Provider -> ProviderState]
      /\ provider'[p] = NoProvider
      /\ \A q \in Provider \ {p} : provider'[q] = provider[q]
  BY <1>2 DEF Drop, NoProvider, ProviderState, SourceStatus
<1>4. ASSUME NEW k \in Key
      PROVE  /\ domain'[k] \in [count : Nat, used : SUBSET Nonce, sentinels : SUBSET Sentinel,
                                 reuse : BOOLEAN, live : Provider \cup {None}]
             /\ domain'[k].used = domain[k].used /\ domain'[k].sentinels = domain[k].sentinels
             /\ domain[k].live # p => domain'[k].live = domain[k].live
  BY <1>2 DEF Drop
<1>5. domain' \in [Key -> [count : Nat, used : SUBSET Nonce, sentinels : SUBSET Sentinel,
                           reuse : BOOLEAN, live : Provider \cup {None}]]
  BY <1>4 DEF Drop
<1>6. Types' /\ CallType' /\ Nonces'
  BY <1>1, <1>2, <1>3, <1>4, <1>5 DEF ProviderInv, Types, CallType, Nonces
<1>7. ASSUME NEW q \in Provider, q # p
      PROVE  Activated(q)' /\ DrawnOnce(q)' /\ EncryptsNew(q)' /\ Asked(q)'
  <2>1. provider[q].wrap # None => provider[q].wrap \in Key /\ domain[provider[q].wrap].live = q
    BY <1>2 DEF ProviderInv, Activated, ProviderState
  <2>2. Undisturbed(q)
    BY <1>1, <1>3, <1>4, <1>7, <2>1 DEF Undisturbed
  <2> QED
    BY <2>2, Bystander
<1>8. Activated(p)'
  BY <1>1, <1>3 DEF Activated, NoProvider, Free
<1>9. DrawnOnce(p)' /\ EncryptsNew(p)' /\ Asked(p)'
  BY <1>1 DEF DrawnOnce, Drawn, EncryptsNew, Encrypting, Asked
<1>10. \A r \in prep' : provider'[r.owner].wrap = provider[r.owner].wrap
  BY <1>1, <1>2, <1>3 DEF Preparation
<1>11. Prepared'
  BY <1>1, <1>4, <1>10, PreparedStays
<1> QED
  BY <1>6, <1>7, <1>8, <1>9, <1>11 DEF ProviderInv

-----------------------------------------------------------------------------
(* The operations open the source.                                         *)

\* Two providers have no key in common.
LEMMA KeysApart ==
    ASSUME ProviderInv, NEW p \in Provider, NEW q \in Provider, p # q, provider[p].wrap # None
    PROVE  provider[q].wrap # provider[p].wrap
BY DEF ProviderInv, Activated

\* source_status and unwrap_profile_key take no nonce; readiness works under the
\* key that the provider has, if it has one; prepare_profile_key needs one.
LEMMA EnterKeepsInv ==
    ASSUME ProviderInv, NEW p \in Provider, NEW op \in Op, NEW arg, Live(p), Free(p),
           op # "complete", Enter(p, op, arg),
           op = "readiness" => provider[p].latched = FALSE,
           op = "prepare" => provider[p].wrap # None /\ arg \in Binding,
           UNCHANGED <<source, domain, prep, sealed>>
    PROVE  ProviderInv'
<1>1. CASE \E code : Return(p, code) /\ Latches(p)
  BY <1>1, EndKeepsInv
<1>2. ASSUME NEW seen \in Pin,
             call' = [call EXCEPT ![p] = NewCall(op, arg, seen)],
             UNCHANGED provider,
             provider[p].pin # None => seen = provider[p].pin
      PROVE  ProviderInv'
  <2>1. op = "readiness" /\ provider[p].wrap # None => provider[p].wrap = seen.key
    BY <1>2 DEF ProviderInv, Activated
  <2> QED
    BY <1>2, <2>1, BeginKeepsInv
<1> QED
  BY <1>1, <1>2, EnterSteps

\* source_status opens the source.
LEMMA SourceStatusBeginKeepsInv ==
    ASSUME ProviderInv, NEW p \in Provider, SourceStatusBegin(p)
    PROVE  ProviderInv'
BY EnterKeepsInv DEF SourceStatusBegin, Op

\* readiness opens the source, unless recovery is latched.
LEMMA ReadinessBeginKeepsInv ==
    ASSUME ProviderInv, NEW p \in Provider, ReadinessBegin(p)
    PROVE  ProviderInv'
<1>1. provider[p].latched \in BOOLEAN
  BY DEF ProviderInv, Types, ProviderState
<1>2. CASE provider[p].latched = TRUE
  BY <1>2, EndKeepsInv DEF ReadinessBegin, Latches
<1>3. CASE provider[p].latched = FALSE
  BY <1>3, EnterKeepsInv DEF ReadinessBegin, Op
<1> QED
  BY <1>1, <1>2, <1>3

\* prepare_profile_key opens the source.
LEMMA PrepareBeginKeepsInv ==
    ASSUME ProviderInv, NEW p \in Provider, NEW b \in Binding, PrepareBegin(p, b)
    PROVE  ProviderInv'
<1>1. CASE RefuseUnready(p)
  BY <1>1, RefuseUnreadyKeeps, EndKeepsInv DEF PrepareBegin
<1>2. CASE NotReady(p) = "ok" /\ Enter(p, "prepare", b)
  BY <1>2, ReadyHasKey, EnterKeepsInv DEF PrepareBegin, Op
<1> QED
  BY <1>1, <1>2 DEF PrepareBegin

\* unwrap_profile_key opens the source.
LEMMA UnwrapBeginKeepsInv ==
    ASSUME ProviderInv, NEW p \in Provider, NEW w, NEW h, UnwrapBegin(p, w, h)
    PROVE  ProviderInv'
<1>1. CASE RefuseUnready(p)
  BY <1>1, RefuseUnreadyKeeps, EndKeepsInv DEF UnwrapBegin
<1>2. CASE NotReady(p) = "ok" /\ Enter(p, "unwrap", [record |-> w, handle |-> h])
  BY <1>2, EnterKeepsInv DEF UnwrapBegin, Op
<1> QED
  BY <1>1, <1>2 DEF UnwrapBegin

\* A preparation is replaced by a later state of itself.
Later(r, x) ==
    /\ x \in Preparation
    /\ x.owner = r.owner /\ x.nonce = r.nonce /\ x.key = r.key
    /\ x.completing = TRUE => x.consumed = TRUE
    /\ Alive(x) => Alive(r)

\* A preparation is replaced by itself with other marks.
LEMMA ReplaceKeeps ==
    ASSUME ProviderInv, NEW p \in Provider, NEW r \in prep, r.owner = p, NEW x, Later(r, x),
           prep' = (prep \ {r}) \cup {x}, Latches(p),
           \A q \in Provider \ {p} : call'[q] = call[q],
           UNCHANGED <<source, domain, sealed>>
    PROVE  /\ Types' /\ Prepared' /\ Nonces'
           /\ \A q \in Provider \ {p} :
                Activated(q)' /\ DrawnOnce(q)' /\ EncryptsNew(q)' /\ Asked(q)'
<1>1. /\ r \in Preparation /\ prep \subseteq Preparation /\ Prepared
      /\ x \in Preparation /\ x.owner = r.owner /\ x.nonce = r.nonce /\ x.key = r.key
  BY DEF ProviderInv, Types, Later
<1>2. Types' /\ Nonces'
  BY <1>1, LatchKeeps DEF ProviderInv, Types, Nonces
<1>3. \A y \in prep' : y \in prep \/ y = x
  OBVIOUS
<1>4. Prepared'
  <2>1. ASSUME NEW y \in prep'
        PROVE  /\ provider'[y.owner].wrap = y.key
               /\ y.nonce \in domain'[y.key].used
               /\ y.completing = TRUE => y.consumed = TRUE
               /\ Alive(y) => sealed'[y.key][y.nonce] = 0
    <3>1. CASE y \in prep
      BY <1>1, <3>1, LatchKeeps DEF Prepared, Preparation
    <3>2. CASE y = x
      <4>1. /\ provider[r.owner].wrap = r.key /\ r.nonce \in domain[r.key].used
            /\ Alive(r) => sealed[r.key][r.nonce] = 0
        BY <1>1 DEF Prepared
      <4> QED
        BY <1>1, <3>2, <4>1, LatchKeeps DEF Preparation, Later
    <3> QED
      BY <1>3, <3>1, <3>2
  <2>2. ASSUME NEW y \in prep', NEW z \in prep', y.key = z.key, y.nonce = z.nonce
        PROVE  y = z
    <3>1. \A u, v \in prep : u.key = v.key /\ u.nonce = v.nonce => u = v
      BY <1>1 DEF Prepared
    <3> QED
      BY <1>1, <2>2, <3>1
  <2> QED
    BY <2>1, <2>2 DEF Prepared, Alive
<1>5. ASSUME NEW q \in Provider, q # p
      PROVE  Activated(q)' /\ DrawnOnce(q)' /\ EncryptsNew(q)' /\ Asked(q)'
  <2>1. provider[p].wrap = x.key /\ x.key # None
    BY <1>1, ProviderNone DEF Prepared, Preparation
  <2>2. provider[q].wrap # x.key
    BY <1>5, <2>1, KeysApart
  <2>3. Undisturbed(q)
    BY <1>3, <1>5, <2>2, LatchKeeps DEF Undisturbed
  <2> QED
    BY <2>3, Bystander
<1> QED
  BY <1>2, <1>4, <1>5

\* _consume: the preparation is used before anything else is looked at.
LEMMA ConsumeKeepsInv ==
    ASSUME ProviderInv, NEW p \in Provider, NEW r \in prep, Consume(p, r)
    PROVE  ProviderInv'
<1>1. /\ r.owner = p /\ r.consumed = FALSE /\ call[p].op = "none" /\ r \in Preparation
      /\ UNCHANGED <<source, domain, provider, call, handle, wrapped, sealed>>
  BY DEF Consume, Free, ProviderInv, Types, Preparation
<1>2. (IsCurrent(p)) \in BOOLEAN
  BY DEF IsCurrent
<1> DEFINE x == [r EXCEPT !.consumed = TRUE, !.completing = IsCurrent(p)]
<1>3. Later(r, x)
  BY <1>1, <1>2 DEF Later, Preparation, Alive
<1>4. prep' = (prep \ {r}) \cup {x} /\ Latches(p)
  BY <1>1 DEF Consume, Latches
<1> HIDE DEF x
<1>5. /\ Types' /\ Prepared' /\ Nonces'
      /\ \A q \in Provider \ {p} :
           Activated(q)' /\ DrawnOnce(q)' /\ EncryptsNew(q)' /\ Asked(q)'
  BY <1>1, <1>3, <1>4, ReplaceKeeps
<1>6. CallType'
  BY <1>1 DEF ProviderInv, CallType
<1>7. Activated(p)'
  BY <1>1 DEF ProviderInv, Activated, Free
<1>8. DrawnOnce(p)' /\ EncryptsNew(p)' /\ Asked(p)'
  BY <1>1 DEF DrawnOnce, Drawn, EncryptsNew, Encrypting, Asked
<1> QED
  BY <1>5, <1>6, <1>7, <1>8 DEF ProviderInv

\* complete_profile_key takes the preparation: it is dead, and the call that may
\* begin is the one place where its nonce can still be spent.
LEMMA CompleteBeginKeepsInv ==
    ASSUME ProviderInv, NEW p \in Provider, NEW r \in prep, CompleteBegin(p, r)
    PROVE  ProviderInv'
<1>1. /\ r.owner = p /\ r.completing = TRUE /\ call[p].op = "none" /\ r \in Preparation
      /\ UNCHANGED <<source, domain, handle, wrapped, sealed>>
      /\ call = [q \in Provider |-> call[q]]
  BY DEF CompleteBegin, Free, ProviderInv, Types, CallType, Preparation
<1>2. /\ provider[p].wrap = r.key /\ r.nonce \in domain[r.key].used /\ r.consumed = TRUE
      /\ sealed[r.key][r.nonce] = 0 /\ r.key \in Key /\ r.nonce \in Nonce
  BY <1>1 DEF ProviderInv, Prepared, Alive, Preparation
<1> DEFINE x == [r EXCEPT !.completing = FALSE]
<1>3. Later(r, x) /\ ~Alive(x) /\ x.key = r.key /\ x.nonce = r.nonce
  BY <1>1, <1>2 DEF Later, Preparation, Alive
<1>4. prep' = (prep \ {r}) \cup {x}
  BY DEF CompleteBegin
<1> HIDE DEF x
<1>5. \/ \E code : Return(p, code) /\ Latches(p)
      \/ \E seen \in Pin :
            /\ call' = [call EXCEPT ![p] = NewCall("complete", r, seen)]
            /\ UNCHANGED provider /\ seen.key = r.key
  <2>1. CASE RefuseUnready(p)
    BY <2>1, RefuseUnreadyKeeps
  <2>2. CASE NotReady(p) = "ok" /\ Enter(p, "complete", r)
    <3>1. provider[p].pin # None /\ provider[p].pin.key = r.key
      BY <1>2, <2>2, ReadyHasKey
    <3>2. Live(p)
      BY <1>1, <1>2, ProviderNone DEF ProviderInv, Activated, Live
    <3> QED
      BY <2>2, <3>1, <3>2, EnterSteps
  <2>3. CASE NotReady(p) = "ok" /\ Return(p, "unavailable") /\ UNCHANGED provider
    BY <2>3 DEF Latches
  <2> QED
    BY <2>1, <2>2, <2>3 DEF CompleteBegin
<1>6. Latches(p) /\ (\A q \in Provider \ {p} : call'[q] = call[q])
      /\ call' = [q \in Provider |-> call'[q]]
  BY <1>1, <1>5 DEF Latches, Return
<1>7. /\ Types' /\ Prepared' /\ Nonces'
      /\ \A q \in Provider \ {p} :
           Activated(q)' /\ DrawnOnce(q)' /\ EncryptsNew(q)' /\ Asked(q)'
  BY <1>1, <1>3, <1>4, <1>6, ReplaceKeeps
<1>8. CASE \E code : Return(p, code)
  <2>1. call'[p].op = "none"
    BY <1>1, <1>8 DEF Return, Ended
  <2>2. CallType'
    BY <1>6, <2>1 DEF ProviderInv, CallType
  <2>3. Activated(p)
    BY DEF ProviderInv
  <2>4. Activated(p)'
    BY <1>1, <1>6, <2>1, <2>3, LatchKeeps DEF Activated, Free
  <2>5. DrawnOnce(p)' /\ EncryptsNew(p)' /\ Asked(p)'
    BY <2>1 DEF DrawnOnce, Drawn, EncryptsNew, Encrypting, Asked
  <2> QED
    BY <1>7, <2>2, <2>4, <2>5 DEF ProviderInv
<1>9. ASSUME NEW seen \in Pin,
             call' = [call EXCEPT ![p] = NewCall("complete", r, seen)],
             UNCHANGED provider, seen.key = r.key
      PROVE  ProviderInv'
  <2>1. call'[p] = NewCall("complete", r, seen)
    BY <1>1, <1>9
  <2>2. /\ call'[p].op = "complete" /\ call'[p].seen.key = r.key /\ call'[p].arg = r
        /\ InCall(call'[p])
    <3>1. "complete" \in Op
      BY DEF Op
    <3>2. InCall(call'[p])
      BY <2>1, <3>1, NewCallType
    <3> QED
      BY <1>9, <2>1, <3>2 DEF NewCall
  <2>3. CallType'
    BY <1>6, <2>2 DEF ProviderInv, CallType
  <2>4. Activated(p) /\ r.key # None
    BY <1>2, ProviderNone DEF ProviderInv
  <2>5. Activated(p)'
    BY <1>1, <1>2, <1>9, <2>2, <2>4 DEF Activated, Free
  <2>6. \A y \in prep' : y.key = r.key /\ y.nonce = r.nonce => ~Alive(y)
    <3>1. \A y \in prep : y.key = r.key /\ y.nonce = r.nonce => y = r
      BY DEF ProviderInv, Prepared
    <3> QED
      BY <1>3, <1>4, <3>1
  <2>7. EncryptsNew(p)'
    BY <1>1, <1>2, <1>9, <2>2, <2>6 DEF EncryptsNew, Encrypting, Alive
  <2>8. DrawnOnce(p)' /\ Asked(p)'
    BY <2>2 DEF DrawnOnce, Drawn, Asked
  <2> QED
    BY <1>7, <2>3, <2>5, <2>7, <2>8 DEF ProviderInv
<1> QED
  BY <1>5, <1>8, <1>9

-----------------------------------------------------------------------------
(* The operations work.                                                    *)

\* The records of what the process knows of a key.
Known == [count : Nat, used : SUBSET Nonce, sentinels : SUBSET Sentinel,
          reuse : BOOLEAN, live : Provider \cup {None}]

\* A sentinel that does not authenticate latches recovery.
LEMMA SentinelRejectedKeepsInv ==
    ASSUME ProviderInv, NEW p \in Provider, SentinelRejected(p)
    PROVE  ProviderInv'
<1>1. call[p].op = "readiness" /\ UNCHANGED <<source, domain, prep, handle, wrapped, sealed>>
  BY DEF SentinelRejected, Working
<1>2. PICK code \in {"catalog_key_mismatch", "unavailable"} :
        /\ provider' = [provider EXCEPT ![p] = Latch(@, SourceStatusFor(code))]
        /\ Worked(p, code)
  BY DEF SentinelRejected
<1>3. Latches(p)
  BY <1>2, StatusTypes DEF Latches
<1> QED
  BY <1>1, <1>2, <1>3, WorkedKeepsInv DEF Op

\* _reserve_nonce refuses.
LEMMA ReserveRefusedKeepsInv ==
    ASSUME ProviderInv, NEW p \in Provider, ReserveRefused(p)
    PROVE  ProviderInv'
<1>1. /\ call[p].op = "prepare"
      /\ UNCHANGED <<source, domain, provider, prep, handle, wrapped, sealed>>
  BY DEF ReserveRefused, Working
<1>2. PICK code \in {"nonce_reuse", "usage_limit", "unavailable"} : Worked(p, code)
  BY DEF ReserveRefused
<1> QED
  BY <1>1, <1>2, WorkedKeepsInv DEF Op, Latches

\* Decryption changes only the call.
LEMMA DecryptKeepsInv ==
    ASSUME ProviderInv, NEW p \in Provider, Decrypt(p)
    PROVE  ProviderInv'
<1>1. /\ call[p].op \in {"unwrap", "status"}
      /\ UNCHANGED <<source, domain, provider, prep, handle, wrapped, sealed>>
  BY DEF Decrypt, Working
<1>2. PICK code : Worked(p, code)
  BY DEF Decrypt
<1> QED
  BY <1>1, <1>2, WorkedKeepsInv DEF Op, Latches

\* An authenticated sentinel is remembered only if no profile key was wrapped, or
\* may be wrapped, under its nonce.
LEMMA RecordAuthenticatedSentinelKeepsInv ==
    ASSUME ProviderInv, NEW p \in Provider, RecordAuthenticatedSentinel(p)
    PROVE  ProviderInv'
<1> DEFINE k == call[p].seen.key
           s == provider[p].sentinel
<1>1. /\ call[p].op = "readiness" /\ call[p].worked = FALSE
      /\ UNCHANGED <<source, provider, prep, handle, wrapped, sealed>>
  BY DEF RecordAuthenticatedSentinel, Working, ProviderInv, CallType, InCall
<1>2. InCall(call[p]) /\ call[p].code = "ok" /\ call[p].seen \in Pin /\ k \in Key
  BY <1>1 DEF ProviderInv, CallType, InCall, Pin
<1>3. s \in Sentinel
  BY <1>1 DEF ProviderInv, Activated, Free
<1>4. domain \in [Key -> Known]
  BY DEF ProviderInv, Types, Known
<1>5. PICK code : Worked(p, code)
  BY DEF RecordAuthenticatedSentinel
<1>6. /\ call'[p] = [call[p] EXCEPT !.worked = TRUE, !.code = code]
      /\ \A q \in Provider \ {p} : call'[q] = call[q]
      /\ call' = [q \in Provider |-> call'[q]]
  BY <1>5 DEF ProviderInv, CallType, Worked
<1>7. /\ call'[p].op = "readiness" /\ call'[p].seen = call[p].seen /\ InCall(call'[p])
  BY <1>1, <1>2, <1>6 DEF InCall
<1>8. /\ domain' \in [Key -> Known]
      /\ \A j \in Key : domain'[j].used = domain[j].used /\ domain'[j].live = domain[j].live
      /\ \A j \in Key : \A t \in domain'[j].sentinels :
            t \in domain[j].sentinels \/ t.nonce \notin domain[j].used
  <2>1. CASE domain[k].reuse \/ Collides(s, domain[k])
    <3>1. domain' = [domain EXCEPT ![k].reuse = TRUE]
      BY <2>1 DEF RecordAuthenticatedSentinel
    <3> QED
      BY <1>2, <1>4, <3>1 DEF Known
  <2>2. CASE ~(domain[k].reuse \/ Collides(s, domain[k]))
    <3>1. domain' = [domain EXCEPT ![k].sentinels = @ \cup {s}]
      BY <2>2 DEF RecordAuthenticatedSentinel
    <3>2. s.nonce \notin domain[k].used
      BY <2>2 DEF Collides
    <3>3. domain' \in [Key -> Known]
      BY <1>2, <1>3, <1>4, <3>1 DEF Known
    <3>4. \A j \in Key : /\ domain'[j].used = domain[j].used /\ domain'[j].live = domain[j].live
                         /\ j # k => domain'[j].sentinels = domain[j].sentinels
      BY <1>2, <1>4, <3>1 DEF Known
    <3>5. domain'[k].sentinels = domain[k].sentinels \cup {s}
      BY <1>2, <1>4, <3>1 DEF Known
    <3> QED
      BY <3>2, <3>3, <3>4, <3>5
  <2> QED
    BY <2>1, <2>2
<1> HIDE DEF k, s
<1>9. Types'
  BY <1>1, <1>8 DEF ProviderInv, Types, Known
<1>10. Nonces'
  BY <1>1, <1>8 DEF ProviderInv, Nonces
<1>11. CallType'
  BY <1>6, <1>7 DEF ProviderInv, CallType
<1>12. \A q \in Provider : provider[q].wrap # None => provider[q].wrap \in Key
  BY DEF ProviderInv, Types, ProviderState
<1>13. ASSUME NEW q \in Provider, q # p
       PROVE  Activated(q)' /\ DrawnOnce(q)' /\ EncryptsNew(q)' /\ Asked(q)'
  BY <1>1, <1>6, <1>8, <1>12, <1>13, Bystander DEF Undisturbed
<1>14. Activated(p)'
  <2>1. Activated(p)
    BY DEF ProviderInv
  <2> QED
    BY <1>1, <1>2, <1>7, <1>8, <1>12, <2>1 DEF Activated, Free
<1>15. Prepared'
  BY <1>1, <1>8, PreparedStays
<1>16. DrawnOnce(p)' /\ EncryptsNew(p)' /\ Asked(p)'
  BY <1>7 DEF DrawnOnce, Drawn, EncryptsNew, Encrypting, Asked
<1> QED
  BY <1>9, <1>10, <1>11, <1>13, <1>14, <1>15, <1>16 DEF ProviderInv

\* _reserve_nonce: the nonce it draws is new to the key, so nothing was sealed
\* under it and no preparation carries it.
LEMMA ReserveNonceKeepsInv ==
    ASSUME ProviderInv, NEW p \in Provider, NEW n \in Nonce, ReserveNonce(p, n)
    PROVE  ProviderInv'
<1> DEFINE k == provider[p].wrap
<1>1. /\ call[p].op = "prepare" /\ call[p].worked = FALSE
      /\ UNCHANGED <<source, provider, prep, handle, wrapped, sealed>>
  BY DEF ReserveNonce, Working, ProviderInv, CallType, InCall
<1>2. InCall(call[p]) /\ call[p].code = "ok" /\ call[p].arg \in Binding
  BY <1>1 DEF ProviderInv, CallType, InCall, Asked
<1>3. k \in Key /\ k # None
  BY <1>1 DEF ProviderInv, Activated, Types, ProviderState
<1>4. domain \in [Key -> Known]
  BY DEF ProviderInv, Types, Known
<1>5. \A q \in Provider : provider[q].wrap # None => provider[q].wrap \in Key
  BY DEF ProviderInv, Types, ProviderState
<1>6. CASE n \in domain[k].used \/ \E s \in domain[k].sentinels : s.nonce = n
  <2>1. domain' = [domain EXCEPT ![k].reuse = TRUE] /\ Worked(p, "nonce_reuse")
    BY <1>6 DEF ReserveNonce
  <2>2. /\ domain' \in [Key -> Known]
        /\ \A j \in Key : /\ domain'[j].used = domain[j].used /\ domain'[j].live = domain[j].live
                           /\ domain'[j].sentinels = domain[j].sentinels
    BY <1>3, <1>4, <2>1 DEF Known
  <2>3. /\ call'[p] = [call[p] EXCEPT !.worked = TRUE, !.code = "nonce_reuse"]
        /\ \A q \in Provider \ {p} : call'[q] = call[q]
        /\ call' = [q \in Provider |-> call'[q]]
    BY <2>1 DEF ProviderInv, CallType, Worked
  <2>4. /\ call'[p].op = "prepare" /\ call'[p].code = "nonce_reuse" /\ call'[p].worked = TRUE
        /\ InCall(call'[p])
    BY <1>1, <1>2, <2>3 DEF InCall
  <2>5. Types' /\ Nonces'
    BY <1>1, <2>2 DEF ProviderInv, Types, Nonces, Known
  <2>6. CallType'
    BY <2>3, <2>4 DEF ProviderInv, CallType
  <2>7. ASSUME NEW q \in Provider, q # p
        PROVE  Activated(q)' /\ DrawnOnce(q)' /\ EncryptsNew(q)' /\ Asked(q)'
    BY <1>1, <1>5, <2>2, <2>3, <2>7, Bystander DEF Undisturbed
  <2>8. Activated(p)
    BY DEF ProviderInv
  <2>9. Activated(p)'
    BY <1>1, <1>3, <2>2, <2>4, <2>8 DEF Activated, Free
  <2>10. Prepared'
    BY <1>1, <2>2, PreparedStays
  <2>11. DrawnOnce(p)' /\ EncryptsNew(p)' /\ Asked(p)'
    BY <2>4 DEF DrawnOnce, Drawn, EncryptsNew, Encrypting, Asked
  <2> QED
    BY <2>5, <2>6, <2>7, <2>9, <2>10, <2>11 DEF ProviderInv
<1>7. CASE ~(n \in domain[k].used \/ \E s \in domain[k].sentinels : s.nonce = n)
  <2>1. /\ domain' = [domain EXCEPT ![k].used = @ \cup {n}, ![k].count = @ + 1]
        /\ call' = [call EXCEPT ![p].worked = TRUE, ![p].arg = [binding |-> @, nonce |-> n]]
    BY <1>7 DEF ReserveNonce
  <2>2. /\ domain' \in [Key -> Known]
        /\ \A j \in Key : /\ domain'[j].live = domain[j].live
                           /\ domain'[j].sentinels = domain[j].sentinels
        /\ \A j \in Key \ {k} : domain'[j].used = domain[j].used
        /\ domain'[k].used = domain[k].used \cup {n}
    BY <1>3, <1>4, <2>1 DEF Known
  <2>3. /\ call'[p] = [call[p] EXCEPT !.worked = TRUE, !.arg = [binding |-> @, nonce |-> n]]
        /\ \A q \in Provider \ {p} : call'[q] = call[q]
        /\ call' = [q \in Provider |-> call'[q]]
    BY <2>1 DEF ProviderInv, CallType
  <2>4. /\ call'[p].op = "prepare" /\ call'[p].code = "ok" /\ call'[p].worked = TRUE
        /\ call'[p].arg = [binding |-> call[p].arg, nonce |-> n]
        /\ InCall(call'[p])
    BY <1>1, <1>2, <2>3 DEF InCall
  <2>5. Types'
    BY <1>1, <2>2 DEF ProviderInv, Types, Known
  <2>6. Nonces'
    <3>1. Nonces
      BY DEF ProviderInv
    <3>2. \A s \in domain[k].sentinels : s.nonce # n
      BY <1>7
    <3>3. ASSUME NEW j \in Key
          PROVE  /\ \A m \in Nonce : sealed'[j][m] <= 1 /\ (sealed'[j][m] # 0 => m \in domain'[j].used)
                 /\ \A s \in domain'[j].sentinels : s.nonce \notin domain'[j].used
      <4>1. /\ \A m \in Nonce : sealed[j][m] <= 1 /\ (sealed[j][m] # 0 => m \in domain[j].used)
            /\ \A s \in domain[j].sentinels : s.nonce \notin domain[j].used
        BY <3>1 DEF Nonces
      <4>2. CASE j = k
        BY <1>1, <2>2, <3>2, <4>1, <4>2
      <4>3. CASE j # k
        BY <1>1, <2>2, <4>1, <4>3
      <4> QED
        BY <4>2, <4>3
    <3> QED
      BY <3>3 DEF Nonces
  <2>7. CallType'
    BY <2>3, <2>4 DEF ProviderInv, CallType
  <2>8. ASSUME NEW q \in Provider, q # p
        PROVE  Activated(q)' /\ DrawnOnce(q)' /\ EncryptsNew(q)' /\ Asked(q)'
    BY <1>1, <1>5, <2>2, <2>3, <2>8, Bystander DEF Undisturbed
  <2>9. Activated(p)
    BY DEF ProviderInv
  <2>10. Activated(p)'
    BY <1>1, <1>3, <2>2, <2>4, <2>9 DEF Activated, Free
  <2>11. ASSUME NEW j \in Key PROVE domain[j].used \subseteq domain'[j].used
    <3>1. CASE j = k
      BY <2>2, <3>1
    <3>2. CASE j # k
      BY <2>2, <3>2
    <3> QED
      BY <3>1, <3>2
  <2>12. Prepared'
    BY <1>1, <2>11, PreparedStays
  <2>13. sealed[k][n] = 0
    BY <1>3, <1>7 DEF ProviderInv, Nonces
  <2>14. \A r \in prep : ~(r.key = k /\ r.nonce = n)
    BY <1>7 DEF ProviderInv, Prepared
  <2>15. call'[p].arg.nonce = n /\ call'[p].arg.binding = call[p].arg
    BY <2>4
  <2>16. n \in domain'[k].used
    BY <2>2
  <2>17. DrawnOnce(p)'
    BY <1>1, <1>2, <2>13, <2>14, <2>15, <2>16 DEF DrawnOnce
  <2>18. EncryptsNew(p)' /\ Asked(p)'
    BY <2>4 DEF EncryptsNew, Encrypting, Asked
  <2> QED
    BY <2>5, <2>6, <2>7, <2>8, <2>10, <2>12, <2>17, <2>18 DEF ProviderInv
<1> QED
  BY <1>6, <1>7

\* The encryption spends the nonce: nothing else holds it.
LEMMA EncryptKeepsInv ==
    ASSUME ProviderInv, NEW p \in Provider, Encrypt(p)
    PROVE  ProviderInv'
<1> DEFINE k == call[p].seen.key
           n == call[p].arg.nonce
<1>1. /\ call[p].op = "complete" /\ call[p].worked = FALSE
      /\ UNCHANGED <<source, domain, provider, prep, handle, wrapped>>
      /\ sealed' = [sealed EXCEPT ![k][n] = @ + 1]
  BY DEF Encrypt, Working, ProviderInv, CallType, InCall
<1>2. /\ InCall(call[p]) /\ k \in Key /\ k # None /\ k = provider[p].wrap
      /\ n \in Nonce /\ n \in domain[k].used /\ sealed[k][n] = 0
      /\ \A r \in prep : r.key = k /\ r.nonce = n => ~Alive(r)
  BY <1>1, ProviderNone DEF ProviderInv, CallType, InCall, Pin, EncryptsNew, Encrypting
<1>3. PICK code : Worked(p, code)
  BY DEF Encrypt
<1>4. /\ call'[p] = [call[p] EXCEPT !.worked = TRUE, !.code = code]
      /\ \A q \in Provider \ {p} : call'[q] = call[q]
      /\ call' = [q \in Provider |-> call'[q]]
  BY <1>3 DEF ProviderInv, CallType, Worked
<1>5. call'[p].op = "complete" /\ call'[p].worked = TRUE /\ InCall(call'[p])
  BY <1>1, <1>2, <1>4 DEF InCall
<1>6. sealed \in [Key -> [Nonce -> Nat]]
  BY DEF ProviderInv, Types
<1>7. /\ sealed' \in [Key -> [Nonce -> Nat]]
      /\ \A j \in Key \ {k} : sealed'[j] = sealed[j]
      /\ \A m \in Nonce \ {n} : sealed'[k][m] = sealed[k][m]
      /\ sealed'[k][n] = 1
  BY <1>1, <1>2, <1>6
<1> HIDE DEF k, n
<1>8. Types'
  BY <1>1, <1>7 DEF ProviderInv, Types
<1>9. CallType'
  BY <1>4, <1>5 DEF ProviderInv, CallType
<1>10. Nonces'
  <2>1. ASSUME NEW j \in Key, NEW m \in Nonce
        PROVE  sealed'[j][m] <= 1 /\ (sealed'[j][m] # 0 => m \in domain[j].used)
    <3>1. sealed[j][m] <= 1 /\ (sealed[j][m] # 0 => m \in domain[j].used)
      BY DEF ProviderInv, Nonces
    <3>2. CASE j = k /\ m = n
      BY <1>2, <1>7, <3>2
    <3>3. CASE j # k \/ m # n
      BY <1>7, <3>1, <3>3
    <3> QED
      BY <3>2, <3>3
  <2> QED
    BY <1>1, <2>1 DEF ProviderInv, Nonces
<1>11. ASSUME NEW q \in Provider, q # p
       PROVE  Activated(q)' /\ DrawnOnce(q)' /\ EncryptsNew(q)' /\ Asked(q)'
  <2>1. provider[q].wrap # k /\ (provider[q].wrap # None => provider[q].wrap \in Key)
    BY <1>2, <1>11, KeysApart DEF ProviderInv, Types, ProviderState
  <2>2. Undisturbed(q)
    BY <1>1, <1>4, <1>7, <1>11, <2>1 DEF Undisturbed
  <2> QED
    BY <2>2, Bystander
<1>12. Activated(p)'
  <2>1. Activated(p)
    BY DEF ProviderInv
  <2> QED
    BY <1>1, <1>5, <2>1 DEF Activated, Free
<1>13. DrawnOnce(p)' /\ EncryptsNew(p)' /\ Asked(p)'
  BY <1>5 DEF DrawnOnce, Drawn, EncryptsNew, Encrypting, Asked
<1>14. Prepared'
  <2>1. prep \subseteq Preparation /\ Prepared
    BY DEF ProviderInv, Types
  <2>2. ASSUME NEW r \in prep, Alive(r)
        PROVE  sealed'[r.key][r.nonce] = 0
    <3>1. r.key \in Key /\ r.nonce \in Nonce /\ sealed[r.key][r.nonce] = 0
      BY <2>1, <2>2 DEF Prepared, Preparation
    <3>2. r.key # k \/ r.nonce # n
      BY <1>2, <2>2
    <3> QED
      BY <1>7, <3>1, <3>2
  <2> QED
    BY <1>1, <2>1, <2>2 DEF Prepared, Alive
<1> QED
  BY <1>8, <1>9, <1>10, <1>11, <1>12, <1>13, <1>14 DEF ProviderInv

-----------------------------------------------------------------------------
(* The operations return.                                                  *)

\* A source that changed under the call latches recovery.
LEMMA LeaveChangedKeepsInv ==
    ASSUME ProviderInv, NEW p \in Provider, LeaveChanged(p)
    PROVE  ProviderInv'
<1>1. UNCHANGED <<source, domain, prep, handle, wrapped, sealed>>
  BY DEF LeaveChanged
<1>2. PICK s \in OpenSource(provider[p].path) :
        /\ provider' = [provider EXCEPT ![p] = Latch(@, SourceStatusFor(Left(s, call[p].seen)))]
        /\ Return(p, IF call[p].code = "ok" THEN Left(s, call[p].seen) ELSE call[p].code)
  BY DEF LeaveChanged
<1>3. Latches(p)
  BY <1>2, StatusTypes DEF Latches
<1> QED
  BY <1>1, <1>2, <1>3, EndKeepsInv

\* Work that failed is reported.
LEMMA LeaveFailedKeepsInv ==
    ASSUME ProviderInv, NEW p \in Provider, LeaveFailed(p)
    PROVE  ProviderInv'
<1>1. UNCHANGED <<source, domain, prep, handle, wrapped, sealed>> /\ Return(p, call[p].code)
  BY DEF LeaveFailed
<1>2. Latches(p)
  BY StatusTypes DEF LeaveFailed, Latches
<1> QED
  BY <1>1, <1>2, EndKeepsInv

\* source_status returns.
LEMMA SourceStatusEndKeepsInv ==
    ASSUME ProviderInv, NEW p \in Provider, SourceStatusEnd(p)
    PROVE  ProviderInv'
BY EndKeepsInv DEF SourceStatusEnd, Latches

\* A result that is withheld because of a collision ends the call.
LEMMA RefuseLatchedKeeps ==
    ASSUME ProviderInv, NEW p \in Provider, RefuseLatched(p)
    PROVE  Latches(p) /\ Return(p, "recovery_required")
BY StatusTypes DEF RefuseLatched, Latches

\* complete_profile_key returns the wrapped key.
LEMMA CompleteEndKeepsInv ==
    ASSUME ProviderInv, NEW p \in Provider, CompleteEnd(p)
    PROVE  ProviderInv'
<1>1. UNCHANGED <<source, domain, prep, handle, sealed>>
  BY DEF CompleteEnd
<1>2. CASE RefuseLatched(p)
  BY <1>1, <1>2, RefuseLatchedKeeps, EndKeepsInv
<1>3. CASE Return(p, "ok") /\ UNCHANGED provider
  BY <1>1, <1>3, EndKeepsInv DEF Latches
<1> QED
  BY <1>2, <1>3 DEF CompleteEnd

\* unwrap_profile_key returns a handle.
LEMMA UnwrapEndKeepsInv ==
    ASSUME ProviderInv, NEW p \in Provider, UnwrapEnd(p)
    PROVE  ProviderInv'
<1>1. UNCHANGED <<source, domain, prep, wrapped, sealed>>
  BY DEF UnwrapEnd
<1>2. CASE RefuseLatched(p)
  BY <1>1, <1>2, RefuseLatchedKeeps, EndKeepsInv
<1>3. CASE Return(p, "ok") /\ UNCHANGED provider
  BY <1>1, <1>3, EndKeepsInv DEF Latches
<1> QED
  BY <1>2, <1>3 DEF UnwrapEnd

\* The drawn nonce passes to the preparation.
LEMMA PrepareEndKeepsInv ==
    ASSUME ProviderInv, NEW p \in Provider, PrepareEnd(p)
    PROVE  ProviderInv'
<1>1. UNCHANGED <<source, domain, handle, wrapped, sealed>>
  BY DEF PrepareEnd
<1>2. CASE RefuseLatched(p) /\ UNCHANGED prep
  BY <1>1, <1>2, RefuseLatchedKeeps, EndKeepsInv
<1>3. CASE /\ prep' = prep \cup {NewPreparation(p, call[p].arg.binding, call[p].arg.nonce,
                                               provider[p].wrap)}
           /\ Return(p, "ok") /\ UNCHANGED provider
  <2>1. Drawn(p) /\ call[p].op = "prepare"
    BY DEF PrepareEnd, Leaves, Drawn, ProviderInv, CallType, InCall
  <2> DEFINE k == provider[p].wrap
             n == call[p].arg.nonce
             x == NewPreparation(p, call[p].arg.binding, n, k)
  <2>2. /\ n \in Nonce /\ n \in domain[k].used /\ sealed[k][n] = 0
        /\ call[p].arg.binding \in Binding
        /\ \A r \in prep : ~(r.key = k /\ r.nonce = n)
    BY <2>1 DEF ProviderInv, DrawnOnce
  <2>3. k \in Key /\ k # None
    BY <2>1 DEF ProviderInv, Activated, Types, ProviderState
  <2>4. /\ x \in Preparation /\ x.owner = p /\ x.nonce = n /\ x.key = k
        /\ x.completing = FALSE
    BY <2>2, <2>3 DEF NewPreparation, Preparation
  <2>5. prep' = prep \cup {x}
    BY <1>3
  <2>6. k = provider[p].wrap
    OBVIOUS
  <2> HIDE DEF x, n, k
  <2>7. /\ call'[p].op = "none"
        /\ \A q \in Provider \ {p} : call'[q] = call[q]
        /\ call' = [q \in Provider |-> call'[q]]
    BY <1>3 DEF Return, Ended, ProviderInv, CallType
  <2>8. Types' /\ Nonces'
    BY <1>1, <1>3, <2>4, <2>5 DEF ProviderInv, Types, Nonces
  <2>9. CallType'
    BY <2>7 DEF ProviderInv, CallType
  <2>10. Prepared'
    <3>1. Prepared /\ prep \subseteq Preparation
      BY DEF ProviderInv, Types
    <3>2. ASSUME NEW y \in prep'
          PROVE  /\ provider[y.owner].wrap = y.key
                 /\ y.nonce \in domain[y.key].used
                 /\ y.completing = TRUE => y.consumed = TRUE
                 /\ Alive(y) => sealed[y.key][y.nonce] = 0
      <4>1. CASE y \in prep
        BY <3>1, <4>1 DEF Prepared
      <4>2. CASE y = x
        BY <2>2, <2>4, <2>6, <4>2
      <4> QED
        BY <2>5, <4>1, <4>2
    <3>3. ASSUME NEW y \in prep', NEW z \in prep', y.key = z.key, y.nonce = z.nonce
          PROVE  y = z
      <4>1. \A u, v \in prep : u.key = v.key /\ u.nonce = v.nonce => u = v
        BY <3>1 DEF Prepared
      <4> QED
        BY <2>2, <2>4, <2>5, <3>3, <4>1
    <3> QED
      BY <1>1, <1>3, <3>2, <3>3 DEF Prepared, Alive
  <2>11. ASSUME NEW q \in Provider, q # p
         PROVE  Activated(q)' /\ DrawnOnce(q)' /\ EncryptsNew(q)' /\ Asked(q)'
    <3>1. provider[q].wrap # k
      BY <2>3, <2>6, <2>11, KeysApart
    <3>2. Undisturbed(q)
      BY <1>1, <1>3, <2>4, <2>5, <2>7, <2>11, <3>1 DEF Undisturbed
    <3> QED
      BY <3>2, Bystander
  <2>12. Activated(p)'
    <3>1. Activated(p)
      BY DEF ProviderInv
    <3> QED
      BY <1>1, <1>3, <2>7, <3>1 DEF Activated, Free
  <2>13. DrawnOnce(p)' /\ EncryptsNew(p)' /\ Asked(p)'
    BY <2>7 DEF DrawnOnce, Drawn, EncryptsNew, Encrypting, Asked
  <2> QED
    BY <2>8, <2>9, <2>10, <2>11, <2>12, <2>13 DEF ProviderInv
<1> QED
  BY <1>2, <1>3 DEF PrepareEnd

\* _activate_key_domain: a provider gets a key that no other provider works
\* under, or the one it has.
LEMMA ReadinessEndKeepsInv ==
    ASSUME ProviderInv, NEW p \in Provider, ReadinessEnd(p)
    PROVE  ProviderInv'
<1> DEFINE k == call[p].seen.key
           code == CASE domain[k].reuse \/ provider[p].sentinel \notin domain[k].sentinels -> "nonce_reuse"
                     [] domain[k].live \notin {None, p} -> "provider_already_active"
                     [] OTHER -> "ok"
<1>1. UNCHANGED <<source, prep, handle, wrapped, sealed>>
  BY DEF ReadinessEnd
<1>2. CASE code # "ok"
  <2>1. /\ provider' = [provider EXCEPT ![p] = Latch(@, SourceStatusFor(code))]
        /\ Return(p, code)
        /\ UNCHANGED domain
    BY <1>2 DEF ReadinessEnd
  <2>2. Latches(p)
    BY <2>1, StatusTypes DEF Latches
  <2> HIDE DEF code
  <2> QED
    BY <1>1, <2>1, <2>2, EndKeepsInv
<1>3. CASE code = "ok"
  <2>1. /\ domain' = [domain EXCEPT ![k].live = p]
        /\ provider' = [provider EXCEPT ![p].wrap = k, ![p].pin = call[p].seen]
        /\ Return(p, "ok")
    BY <1>3 DEF ReadinessEnd
  <2>2. domain[k].live \in {None, p}
    BY <1>3
  <2>3. call[p].op = "readiness" /\ call[p].code = "ok"
    BY DEF ReadinessEnd, Leaves
  <2>4. call[p].seen \in Pin /\ k \in Key /\ k # None /\ call[p].seen # None
    BY <2>3, ProviderNone DEF ProviderInv, CallType, InCall, Pin
  <2>5. domain \in [Key -> Known] /\ provider \in [Provider -> ProviderState]
    BY DEF ProviderInv, Types, Known
  <2>6. k = call[p].seen.key
    OBVIOUS
  <2> HIDE DEF k, code
  <2>7. /\ domain' \in [Key -> Known] /\ domain'[k].live = p
        /\ \A j \in Key : domain'[j].used = domain[j].used /\ domain'[j].sentinels = domain[j].sentinels
        /\ \A j \in Key \ {k} : domain'[j].live = domain[j].live
    BY <2>1, <2>4, <2>5 DEF Known
  <2>8. /\ provider' \in [Provider -> ProviderState]
        /\ \A q \in Provider \ {p} : provider'[q] = provider[q]
        /\ provider'[p].path = provider[p].path /\ provider'[p].sentinel = provider[p].sentinel
        /\ provider'[p].wrap = k /\ provider'[p].pin = call[p].seen
    BY <2>1, <2>4, <2>5 DEF ProviderState
  <2>9. /\ call'[p].op = "none"
        /\ \A q \in Provider \ {p} : call'[q] = call[q]
        /\ call' = [q \in Provider |-> call'[q]]
    BY <2>1 DEF Return, Ended, ProviderInv, CallType
  <2>10. Activated(p) /\ provider[p].path # None /\ (provider[p].wrap # None => provider[p].wrap = k)
    BY <2>3, <2>6 DEF ProviderInv, Activated, Free
  <2>11. Types' /\ Nonces'
    BY <1>1, <2>7, <2>8 DEF ProviderInv, Types, Nonces, Known
  <2>12. CallType'
    BY <2>9 DEF ProviderInv, CallType
  <2>13. ASSUME NEW q \in Provider, q # p
         PROVE  Activated(q)' /\ DrawnOnce(q)' /\ EncryptsNew(q)' /\ Asked(q)'
    <3>1. provider[q].wrap # None => provider[q].wrap \in Key /\ domain[provider[q].wrap].live = q
      BY <2>5 DEF ProviderInv, Activated, ProviderState
    <3>2. provider[q].wrap # k
      BY <2>2, <2>4, <2>13, <3>1, ProviderNone
    <3>3. Undisturbed(q)
      BY <1>1, <2>7, <2>8, <2>9, <2>13, <3>1, <3>2 DEF Undisturbed
    <3> QED
      BY <3>3, Bystander
  <2>14. Activated(p)'
    BY <2>4, <2>6, <2>7, <2>8, <2>9, <2>10 DEF Activated
  <2>15. DrawnOnce(p)' /\ EncryptsNew(p)' /\ Asked(p)'
    BY <2>9 DEF DrawnOnce, Drawn, EncryptsNew, Encrypting, Asked
  <2>16. ASSUME NEW r \in prep PROVE provider'[r.owner].wrap = provider[r.owner].wrap
    <3>1. r \in Preparation /\ provider[r.owner].wrap = r.key
      BY DEF ProviderInv, Types, Prepared
    <3>2. r.owner \in Provider /\ r.key # None
      BY <3>1, ProviderNone DEF Preparation
    <3> QED
      BY <2>8, <2>10, <3>1, <3>2
  <2>17. Prepared'
    BY <1>1, <2>7, <2>16, PreparedStays
  <2> QED
    BY <2>11, <2>12, <2>13, <2>14, <2>15, <2>17 DEF ProviderInv
<1> QED
  BY <1>2, <1>3

-----------------------------------------------------------------------------
(* The theorems.                                                           *)

\* A key handle is entered, used and closed: nothing of the invariant moves.
LEMMA HandleKeepsInv ==
    ASSUME ProviderInv, UNCHANGED <<source, domain, provider, call, prep, sealed>>
    PROVE  ProviderInv'
<1>1. Types' /\ CallType' /\ Prepared' /\ Nonces'
  BY DEF ProviderInv, Types, CallType, Prepared, Nonces
<1>2. ASSUME NEW q \in Provider
      PROVE  Activated(q)' /\ DrawnOnce(q)' /\ EncryptsNew(q)' /\ Asked(q)'
  BY Bystander DEF Undisturbed
<1> QED
  BY <1>1, <1>2 DEF ProviderInv

\* At the start there is no provider and nothing is sealed.
LEMMA InitEstablishesInv == ProviderInit => ProviderInv
<1> SUFFICES ASSUME ProviderInit PROVE ProviderInv
  OBVIOUS
<1>1. source \in [Path -> Source] /\ prep = {} /\ UnknownDomain \in Known /\ NoProvider \in ProviderState
  BY DEF ProviderInit, UnknownDomain, Known, NoProvider, ProviderState, SourceStatus
<1>2. /\ domain = [k \in Key |-> UnknownDomain] /\ provider = [p \in Provider |-> NoProvider]
      /\ call = [p \in Provider |-> Ended("ok")]
      /\ sealed = [k \in Key |-> [n \in Nonce |-> 0]]
  BY DEF ProviderInit
<1>3. Types
  BY <1>1, <1>2 DEF Types, Known
<1>4. \A p \in Provider : call[p].op = "none" /\ provider[p] = NoProvider
  BY <1>2 DEF Ended
<1>5. CallType
  BY <1>2, <1>4 DEF CallType
<1>6. \A p \in Provider : Activated(p) /\ DrawnOnce(p) /\ EncryptsNew(p) /\ Asked(p)
  BY <1>4 DEF Activated, DrawnOnce, Drawn, EncryptsNew, Encrypting, Asked, Free, NoProvider
<1>7. Prepared /\ Nonces
  BY <1>1, <1>2 DEF Prepared, Nonces, UnknownDomain
<1> QED
  BY <1>3, <1>5, <1>6, <1>7 DEF ProviderInv

\* Every step keeps the invariant.
LEMMA NextKeepsInv == ProviderInv /\ [ProviderNext]_providerVars => ProviderInv'
<1> SUFFICES ASSUME ProviderInv, [ProviderNext]_providerVars PROVE ProviderInv'
  OBVIOUS
<1>1. ASSUME NEW path \in Path, NEW status \in SourceStatus, NEW k \in Key,
             ChangeSource(path, status, k)
      PROVE  ProviderInv'
  BY <1>1, ChangeSourceKeepsInv
<1>2. ASSUME NEW p \in Provider, NEW path \in Path, NEW s \in Sentinel, Construct(p, path, s)
      PROVE  ProviderInv'
  BY <1>2, ConstructKeepsInv
<1>3. ASSUME NEW p \in Provider, Drop(p) PROVE ProviderInv'
  BY <1>3, DropKeepsInv
<1>4. ASSUME NEW p \in Provider, Begin(p) PROVE ProviderInv'
  BY <1>4, SourceStatusBeginKeepsInv, ReadinessBeginKeepsInv, PrepareBeginKeepsInv,
     ConsumeKeepsInv, CompleteBeginKeepsInv, UnwrapBeginKeepsInv DEF Begin
<1>5. ASSUME NEW p \in Provider, Work(p) PROVE ProviderInv'
  BY <1>5, SentinelRejectedKeepsInv, RecordAuthenticatedSentinelKeepsInv, ReserveRefusedKeepsInv,
     ReserveNonceKeepsInv, EncryptKeepsInv, DecryptKeepsInv DEF Work
<1>6. ASSUME NEW p \in Provider, End(p) PROVE ProviderInv'
  BY <1>6, LeaveChangedKeepsInv, LeaveFailedKeepsInv, SourceStatusEndKeepsInv,
     ReadinessEndKeepsInv, PrepareEndKeepsInv, CompleteEndKeepsInv, UnwrapEndKeepsInv DEF End
<1>7. ASSUME NEW h \in Handle, HandleNext(h) PROVE ProviderInv'
  BY <1>7, HandleKeepsInv
     DEF HandleNext, EnterHandle, UseHandle, FinishUse, CloseHandle, HandleStep
<1>8. CASE UNCHANGED providerVars
  BY <1>8, HandleKeepsInv DEF providerVars
<1> QED
  BY <1>1, <1>2, <1>3, <1>4, <1>5, <1>6, <1>7, <1>8 DEF ProviderNext

\* The invariant of the provider, for every number of providers, paths and keys.
THEOREM ProviderInvariance == ProviderSpec => []ProviderInv
<1>1. ProviderInit => ProviderInv
  BY InitEstablishesInv
<1>2. ProviderInv /\ [ProviderNext]_providerVars => ProviderInv'
  BY NextKeepsInv
<1> QED
  BY <1>1, <1>2, PTL DEF ProviderSpec

\* No nonce ever encrypts two profile keys under one wrapping key, or a profile
\* key and a sentinel that was authenticated in the process (_reserve_nonce,
\* ProfileKeyPreparation._consume, _record_authenticated_sentinel).
THEOREM NonceTheorem == ProviderSpec => []NonceEncryptsOnce
<1>1. ProviderInv => NonceEncryptsOnce
  <2> SUFFICES ASSUME ProviderInv, NEW k \in Key
               PROVE  /\ \A n \in Nonce : sealed[k][n] <= 1
                      /\ \A s \in domain[k].sentinels : sealed[k][s.nonce] = 0
    BY DEF NonceEncryptsOnce
  <2>1. domain[k].sentinels \subseteq Sentinel
    BY DEF ProviderInv, Types
  <2> QED
    BY <2>1 DEF ProviderInv, Nonces, Sentinel
<1> QED
  BY <1>1, ProviderInvariance, PTL

\* Two live providers never work under one wrapping key (_activate_key_domain).
THEOREM KeyTheorem == ProviderSpec => []OneProviderPerKey
<1>1. ProviderInv => OneProviderPerKey
  BY KeysApart DEF OneProviderPerKey
<1> QED
  BY <1>1, ProviderInvariance, PTL

=============================================================================
