-------------------------- MODULE KeyServiceProofs --------------------------
(***************************************************************************)
(* The safety of the key service over the catalog and the provider, proved *)
(* for every number of keys, nonces, bindings and versions of a key file.  *)
(*                                                                         *)
(* The provider forgets its nonces when the process ends; what prevents    *)
(* their reuse is the ledger.  The invariant follows a creation from the   *)
(* reservation, which finds the nonce new to the ledger, to the one        *)
(* encryption under it, and says why the key that encrypts is the one the  *)
(* catalog has committed to: the provider's sentinel is the catalog's, and *)
(* its pin is a source that the sentinel authenticated under.              *)
(***************************************************************************)
EXTENDS KeyService, OwnerFileProviderProofs, FiniteSetTheorems

(* The catalog.                                                            *)

\* The tables that transactions commit.
IsTables(d) ==
    d = [catalog |-> d.catalog, ledger |-> d.ledger, sentinel |-> d.sentinel, keys |-> d.keys]

TableTypes(d) ==
    /\ IsTables(d)
    /\ d.catalog \in CatalogRow \cup {None} /\ d.ledger \subseteq Reservation
    /\ d.sentinel \in SentinelRow \cup {None} /\ d.keys \subseteq WrappedRow
    /\ IsFiniteSet(d.ledger)

\* They pass the strict load, an interrupted ceremony can be resumed, and every
\* ciphertext is under the key that the catalog committed to.
Loads(d) ==
    /\ ValidateLedger(d) /\ ValidateSentinel(d)
    /\ d.catalog.state = "preparing" =>
          \A r \in d.ledger : r.purpose = "sentinel" => r.lifecycle = "reserved"
    /\ d.sentinel # None => d.sentinel.key = d.catalog.commitment
    /\ \A w \in d.keys : w.key = d.catalog.commitment

Tables(d) ==
    /\ TableTypes(d)
    /\ SchemaAccepts(d)
    /\ d.catalog = None => d.ledger = {} /\ d.sentinel = None /\ d.keys = {}
    /\ d.catalog # None => Loads(d)

\* The ledger holds the nonce, for that purpose.
Holds(d, n, purpose) == \E r \in d.ledger : r.nonce = n /\ r.purpose = purpose

\* The key that returned w is stored.
Stored(d, w) ==
    \E v \in d.keys, r \in d.ledger :
        v.binding = w.binding /\ v.key = w.key /\ r.seq = v.seq /\ r.nonce = w.nonce

\* What no transaction undoes.
Grows(d, e) ==
    /\ d.catalog # None =>
          /\ e.catalog # None /\ e.catalog.commitment = d.catalog.commitment
          /\ d.catalog.state = "recovery_required" => e.catalog.state = "recovery_required"
    /\ d.sentinel # None => e.sentinel = d.sentinel
    /\ d.keys \subseteq e.keys
    /\ \A r \in d.ledger : \E x \in e.ledger :
          x.seq = r.seq /\ x.nonce = r.nonce /\ x.purpose = r.purpose

-----------------------------------------------------------------------------
(* The invariant.                                                          *)

\* The steps of a call that hold a preparation.
Creating == {"prepare", "reserve", "consume", "complete", "publish"}

Calls == {"none"} \cup Composing \cup Reconciling \cup {"create", "open"}

\* The steps of each call; any of them may end in a recovery of the catalog.
Steps(op) ==
    CASE op = "none"                     -> {"none"}
      [] op = "compose"                  -> {"load", "construct", "readiness", "recover"}
      [] op = "initialize"               -> {"commitment", "begin", "seal", "reseal", "finish"}
      [] op = "resume"                   -> {"load", "record", "seal", "reseal", "finish"}
      [] op = "reconcile_initialization" -> {"load", "record", "seal", "reseal", "finish"}
      [] op = "reconcile_profile_key"    -> {"load", "construct", "readiness", "fetch", "unwrap"}
      [] op = "create"                   -> {"load", "readiness", "recover"} \cup Creating
      [] OTHER                           -> {"load", "readiness", "fetch", "unwrap", "recover"}

Draft == [owner : {P}, binding : Binding, nonce : Nonce, key : Key \cup {None},
          consumed : BOOLEAN, completing : BOOLEAN]

TaskType ==
    [op : Calls, step : UNION {Steps(op) : op \in Calls}, waiting : BOOLEAN,
     binding : Binding \cup {None}, nonce : Nonce \cup {None}, seq : Nat,
     key : Key \cup {None}, pin : Pin \cup {None}]

ServiceTypes ==
    /\ source \in [Path -> Source]
    /\ provider \in [Provider -> ProviderState]
    /\ call = [p \in Provider |-> call[p]]
    /\ sealed \in [Key -> [Nonce -> Nat]]
    /\ prep \subseteq Draft /\ wrapped \subseteq WrappedKey /\ granted \subseteq WrappedKey
    /\ sentinelSeals \subseteq [key : Key, nonce : Nonce]
    /\ composed \in BOOLEAN /\ latch \in BOOLEAN
    /\ runtime \in {"down", "open", "recovery", "abandoned", "closed"}

\* What a process that has ended leaves.
Process == runtime = "down" => task = NoTask /\ provider[P] = NoProvider

\* The call under way.
TaskOK ==
    /\ task \in TaskType /\ task.step \in Steps(task.op)
    /\ task.op = "none" => task = NoTask
    /\ task.op \in Reconciling => composed = FALSE
    /\ task.op = "create" => task.binding \in Binding
    /\ task.waiting = TRUE => task.step \in {"readiness", "prepare", "complete", "unwrap"}
    /\ task.step = "begin" => task.nonce \in Nonce /\ task.key \in Key
    /\ task.step \in {"seal", "reseal", "finish"} =>
          /\ db.catalog # None /\ task.key = db.catalog.commitment
          /\ task.nonce \in Nonce /\ Holds(db, task.nonce, "sentinel")
    /\ task.step \in {"reseal", "finish"} => task.pin # None /\ task.pin.key = task.key
    /\ task.step \in {"construct", "recover"} => db.catalog # None /\ db.sentinel # None

\* The provider, and its operation that runs for the call.
Serves ==
    /\ provider[P].path = None => provider[P] = NoProvider /\ prep = {}
    /\ provider[P].path # None =>
          /\ db.catalog # None /\ db.sentinel # None
          /\ provider[P].sentinel \in Sentinel
          /\ provider[P].sentinel.key = db.catalog.commitment
    /\ provider[P].pin # None => provider[P].pin.key = provider[P].sentinel.key
    /\ task.waiting = TRUE => provider[P].path # None
    /\ task.waiting = FALSE => call[P].op = "none"

\* What the operation works with.
Operation ==
    call[P].op # "none" =>
        /\ InCall(call[P]) /\ call[P].op = task.step
        /\ call[P].op = "readiness" /\ call[P].worked = TRUE /\ call[P].code = "ok" =>
              call[P].seen.key = provider[P].sentinel.key
        /\ call[P].op = "prepare" =>
              IF call[P].worked = FALSE THEN call[P].arg \in Binding
              ELSE call[P].code = "ok" => call[P].arg.binding \in Binding /\ call[P].arg.nonce \in Nonce
        /\ call[P].op = "complete" =>
              /\ call[P].arg \in Draft /\ call[P].arg.nonce = task.nonce
              /\ call[P].seen.key = provider[P].sentinel.key

\* The preparation of a creation, with the nonce that the ledger holds for it.
Preparing ==
    /\ \A r, x \in prep : r.nonce = x.nonce
    /\ task.step \notin Creating \cup {"recover"} => prep = {}
    /\ task.step = "prepare" /\ (task.waiting = FALSE \/ call[P].op # "none") => prep = {}
    /\ task.step \in {"reserve", "consume", "complete"} =>
          /\ task.nonce \in Nonce
          /\ \A r \in prep : r.nonce = task.nonce
    /\ task.step \in {"consume", "complete"} => Holds(db, task.nonce, "profile")

\* The nonce of a creation that has not encrypted yet.
Unspent ==
    \/ task.step = "consume"
    \/ /\ task.step = "complete"
       /\ task.waiting = FALSE \/ (call[P].op = "complete" /\ call[P].worked = FALSE)

Fresh == Unspent => \A k \in Key : sealed[k][task.nonce] = 0

\* What was encrypted is in the ledger, once.
Seals ==
    \A k \in Key, n \in Nonce :
        /\ sealed[k][n] <= 1
        /\ sealed[k][n] # 0 =>
              db.catalog # None /\ db.catalog.commitment = k /\ Holds(db, n, "profile")

\* So is every sentinel, and what was returned is stored.
History ==
    /\ \A x \in sentinelSeals :
          db.catalog # None /\ db.catalog.commitment = x.key /\ Holds(db, x.nonce, "sentinel")
    /\ \A w \in wrapped : db.catalog # None /\ w.key = db.catalog.commitment
    /\ \A w \in granted : Stored(db, w)

ServiceInv ==
    /\ ServiceTypes /\ Tables(db) /\ Process /\ TaskOK /\ Serves /\ Operation
    /\ Preparing /\ Fresh /\ Seals /\ History

-----------------------------------------------------------------------------
(* The transactions keep the tables.                                       *)

\* The composition has a provider, a path and an installation.
LEMMA Composition == P \in Provider /\ KeyPath \in Path /\ Install \in Installation
<1>1. Provider # {} /\ Path # {} /\ Installation # {}
  BY CompositionAssumption, FS_EmptySet
<1> QED
  BY <1>1 DEF P, KeyPath, Install

\* A growth of the tables keeps what the ledger holds and what is stored.
LEMMA GrowsKeeps ==
    ASSUME NEW d, NEW e, Grows(d, e)
    PROVE  /\ \A n, purpose : Holds(d, n, purpose) => Holds(e, n, purpose)
           /\ \A w : Stored(d, w) => Stored(e, w)
<1>1. \A n, purpose : Holds(d, n, purpose) => Holds(e, n, purpose)
  BY DEF Grows, Holds
<1>2. ASSUME NEW w, Stored(d, w) PROVE Stored(e, w)
  <2>1. PICK v \in d.keys, r \in d.ledger :
          v.binding = w.binding /\ v.key = w.key /\ r.seq = v.seq /\ r.nonce = w.nonce
    BY <1>2 DEF Stored
  <2>2. PICK x \in e.ledger : x.seq = r.seq /\ x.nonce = r.nonce
    BY DEF Grows
  <2>3. v \in e.keys
    BY DEF Grows
  <2> QED
    BY <2>1, <2>2, <2>3 DEF Stored
<1> QED
  BY <1>1, <1>2

\* Growing by nothing.
LEMMA GrowsReflexive == \A d : Grows(d, d)
BY DEF Grows

\* A staged transaction that is accepted is one that the schema accepts.
LEMMA StageAccepts ==
    ASSUME NEW d, Stage(d).code = "ok"
    PROVE  SchemaAccepts(d) /\ Stage(d).tables = d
BY DEF Stage

\* The updates of the tables, field by field.
Updated(d, e, c, l, s, w) ==
    IsTables(e) /\ e.catalog = c /\ e.ledger = l /\ e.sentinel = s /\ e.keys = w

\* The row of the catalog alone (require_recovery).
LEMMA UpdateCatalog ==
    ASSUME NEW d, IsTables(d), NEW c, NEW e, e = [d EXCEPT !.catalog = c]
    PROVE  Updated(d, e, c, d.ledger, d.sentinel, d.keys)
BY DEF IsTables, Updated

\* The row and its first reservation (begin_initialization).
LEMMA UpdateCatalogAndLedger ==
    ASSUME NEW d, IsTables(d), NEW c, NEW l, NEW e, e = [d EXCEPT !.catalog = c, !.ledger = l]
    PROVE  Updated(d, e, c, l, d.sentinel, d.keys)
BY DEF IsTables, Updated

\* The ledger and the row (reserve_profile_preparation).
LEMMA UpdateLedger ==
    ASSUME NEW d, IsTables(d), NEW c, NEW l, NEW e, e = [d EXCEPT !.ledger = l, !.catalog = c]
    PROVE  Updated(d, e, c, l, d.sentinel, d.keys)
BY DEF IsTables, Updated

\* The sentinel, its reservation and the row (finish_initialization).
LEMMA UpdateSentinel ==
    ASSUME NEW d, IsTables(d), NEW c, NEW l, NEW s, NEW e, e = [d EXCEPT !.sentinel = s, !.ledger = l, !.catalog = c]
    PROVE  Updated(d, e, c, l, s, d.keys)
BY DEF IsTables, Updated

\* A key, its reservation and the row (publish_profile_key).
LEMMA UpdateKeys ==
    ASSUME NEW d, IsTables(d), NEW c, NEW l, NEW w, NEW e, e = [d EXCEPT !.keys = w, !.ledger = l, !.catalog = c]
    PROVE  Updated(d, e, c, l, d.sentinel, w)
BY DEF IsTables, Updated

\* begin_initialization makes a preparing catalog with its one reservation.
LEMMA BeginTables ==
    ASSUME NEW d, Tables(d), NEW n \in Nonce, NEW k \in Key,
           BeginInitialization(d, n, k).code = "ok"
    PROVE  LET e == BeginInitialization(d, n, k).tables
           IN  /\ Tables(e) /\ Grows(d, e)
               /\ e.catalog # None /\ e.catalog.commitment = k /\ Holds(e, n, "sentinel")
<1> DEFINE x == [seq |-> 1, nonce |-> n, purpose |-> "sentinel",
                 lifecycle |-> "reserved", binding |-> None]
           c == [state |-> "preparing", revision |-> 1, used |-> 1, commitment |-> k]
           e == [d EXCEPT !.catalog = c, !.ledger = {x}]
<1>1. d.catalog = None /\ BeginInitialization(d, n, k) = Stage(e)
  BY DEF BeginInitialization, Raise
<1>2. SchemaAccepts(e) /\ BeginInitialization(d, n, k).tables = e
  BY <1>1, StageAccepts
<1>3. /\ IsTables(d)
      /\ d.ledger = {} /\ d.sentinel = None /\ d.keys = {}
  BY <1>1 DEF Tables, TableTypes
<1>4. /\ IsTables(e)
      /\ e.catalog = c /\ e.ledger = {x} /\ e.sentinel = None /\ e.keys = {}
  <2>1. e = [d EXCEPT !.catalog = c, !.ledger = {x}]
    OBVIOUS
  <2> HIDE DEF x, c, e
  <2>2. Updated(d, e, c, {x}, d.sentinel, d.keys)
    BY <1>3, <2>1, UpdateCatalogAndLedger
  <2> QED
    BY <1>3, <2>2 DEF Updated
<1>5. c \in CatalogRow /\ x \in Reservation /\ c # None
  BY CatalogNone DEF CatalogRow, Reservation, CatalogState, Lifecycle
<1>6. IsFiniteSet({x}) /\ Cardinality({x}) = 1
  BY FS_Singleton
<1>7. /\ c.used = 1 /\ c.state = "preparing" /\ c.commitment = k
      /\ x.seq = 1 /\ x.purpose = "sentinel" /\ x.lifecycle = "reserved" /\ x.nonce = n
  OBVIOUS
<1> HIDE DEF x, c, e
<1>8. TableTypes(e)
  BY <1>4, <1>5, <1>6 DEF TableTypes
<1>9. ValidateLedger(e)
  BY <1>4, <1>6, <1>7 DEF ValidateLedger
<1>10. Loads(e)
  BY <1>4, <1>7, <1>9 DEF Loads, ValidateSentinel
<1>11. Tables(e)
  BY <1>2, <1>4, <1>5, <1>8, <1>10 DEF Tables
<1>12. Grows(d, e)
  BY <1>1, <1>3 DEF Grows
<1>13. Holds(e, n, "sentinel")
  BY <1>4, <1>7 DEF Holds
<1> QED
  BY <1>2, <1>4, <1>5, <1>7, <1>11, <1>12, <1>13

\* Committing a reservation changes nothing else of the ledger.
LEMMA CommittedKeeps ==
    ASSUME NEW L \in SUBSET Reservation, NEW y \in L, IsFiniteSet(L),
           \A r, s \in L : r.seq = s.seq => r = s,
           NEW M, M = Committed(L, y.seq), NEW x, x = [y EXCEPT !.lifecycle = "committed"]
    PROVE  /\ M = (L \ {y}) \cup {x} /\ M \subseteq Reservation
           /\ x \in Reservation
           /\ x.seq = y.seq /\ x.nonce = y.nonce /\ x.purpose = y.purpose
           /\ x.binding = y.binding /\ x.lifecycle = "committed"
           /\ IsFiniteSet(M) /\ Cardinality(M) = Cardinality(L)
<1>1. /\ x \in Reservation /\ x.seq = y.seq /\ x.nonce = y.nonce /\ x.purpose = y.purpose
      /\ x.binding = y.binding /\ x.lifecycle = "committed"
  BY DEF Reservation, Lifecycle
<1>2. M = (L \ {y}) \cup {x}
  <2>1. \A r \in L : r.seq = y.seq <=> r = y
    OBVIOUS
  <2> QED
    BY <2>1 DEF Committed
<1>3. x \notin L \ {y}
  BY <1>1
<1>4. IsFiniteSet(L \ {y}) /\ Cardinality(L \ {y}) = Cardinality(L) - 1
  BY FS_RemoveElement
<1>5. IsFiniteSet(M) /\ Cardinality(M) = Cardinality(L \ {y}) + 1
  <2>1. /\ IsFiniteSet((L \ {y}) \cup {x})
        /\ Cardinality((L \ {y}) \cup {x}) = Cardinality(L \ {y}) + 1
    BY <1>3, <1>4, FS_AddElement
  <2> QED
    BY <1>2, <2>1
<1>6. Cardinality(L) \in Nat
  BY FS_CardinalityType
<1>7. Cardinality(M) = Cardinality(L)
  BY <1>4, <1>5, <1>6
<1> QED
  BY <1>1, <1>2, <1>5, <1>7

\* A catalog row after the updates of the transactions.
LEMMA AdvancedRow ==
    ASSUME NEW row \in CatalogRow, NEW st \in CatalogState
    PROVE  /\ Advanced(row) \in CatalogRow
           /\ Advanced(row).state = row.state /\ Advanced(row).used = row.used
           /\ Advanced(row).commitment = row.commitment
           /\ Advanced([row EXCEPT !.state = st]) \in CatalogRow
           /\ Advanced([row EXCEPT !.state = st]).state = st
           /\ Advanced([row EXCEPT !.state = st]).used = row.used
           /\ Advanced([row EXCEPT !.state = st]).commitment = row.commitment
           /\ Advanced([row EXCEPT !.used = @ + 1]) \in CatalogRow
           /\ Advanced([row EXCEPT !.used = @ + 1]).state = row.state
           /\ Advanced([row EXCEPT !.used = @ + 1]).used = row.used + 1
           /\ Advanced([row EXCEPT !.used = @ + 1]).commitment = row.commitment
<1>1. ASSUME NEW z \in CatalogRow
      PROVE  /\ Advanced(z) \in CatalogRow
             /\ Advanced(z).state = z.state /\ Advanced(z).used = z.used
             /\ Advanced(z).commitment = z.commitment
  BY DEF Advanced, CatalogRow
<1>2. LET z == [row EXCEPT !.state = st]
      IN  z \in CatalogRow /\ z.state = st /\ z.used = row.used /\ z.commitment = row.commitment
  BY DEF CatalogRow
<1>3. LET z == [row EXCEPT !.used = @ + 1]
      IN  z \in CatalogRow /\ z.state = row.state /\ z.used = row.used + 1
          /\ z.commitment = row.commitment
  BY DEF CatalogRow
<1>4. /\ Advanced([row EXCEPT !.state = st]) \in CatalogRow
      /\ Advanced([row EXCEPT !.state = st]).state = st
      /\ Advanced([row EXCEPT !.state = st]).used = row.used
      /\ Advanced([row EXCEPT !.state = st]).commitment = row.commitment
  <2> DEFINE z == [row EXCEPT !.state = st]
  <2>1. z \in CatalogRow /\ z.state = st /\ z.used = row.used /\ z.commitment = row.commitment
    BY <1>2
  <2> HIDE DEF z
  <2>2. /\ Advanced(z) \in CatalogRow /\ Advanced(z).state = st /\ Advanced(z).used = row.used
        /\ Advanced(z).commitment = row.commitment
    BY <1>1, <2>1
  <2> QED
    BY <2>2 DEF z
<1>5. /\ Advanced([row EXCEPT !.used = @ + 1]) \in CatalogRow
      /\ Advanced([row EXCEPT !.used = @ + 1]).state = row.state
      /\ Advanced([row EXCEPT !.used = @ + 1]).used = row.used + 1
      /\ Advanced([row EXCEPT !.used = @ + 1]).commitment = row.commitment
  <2> DEFINE z == [row EXCEPT !.used = @ + 1]
  <2>1. /\ z \in CatalogRow /\ z.state = row.state /\ z.used = row.used + 1
        /\ z.commitment = row.commitment
    BY <1>3
  <2> HIDE DEF z
  <2>2. /\ Advanced(z) \in CatalogRow /\ Advanced(z).state = row.state
        /\ Advanced(z).used = row.used + 1 /\ Advanced(z).commitment = row.commitment
    BY <1>1, <2>1
  <2> QED
    BY <2>2 DEF z
<1> QED
  BY <1>1, <1>4, <1>5

\* What the tables of an initialized catalog are.
LEMMA Initialized ==
    ASSUME NEW d, Tables(d), d.catalog # None
    PROVE  /\ IsTables(d) /\ d.catalog \in CatalogRow /\ d.ledger \subseteq Reservation
           /\ d.sentinel \in SentinelRow \cup {None} /\ d.keys \subseteq WrappedRow
           /\ IsFiniteSet(d.ledger)
           /\ \A r, s \in d.ledger : r.seq = s.seq => r = s
           /\ \A r, s \in d.ledger : r.nonce = s.nonce => r = s
           /\ ValidateLedger(d) /\ ValidateSentinel(d) /\ Loads(d)
           /\ LoadSnapshot(d) = "ok"
<1>1. TableTypes(d) /\ SchemaAccepts(d) /\ Loads(d)
  BY DEF Tables
<1>2. ValidateLedger(d) /\ ValidateSentinel(d)
  BY <1>1 DEF Loads
<1>3. /\ \A r, s \in d.ledger : r.seq = s.seq => r = s
      /\ \A r, s \in d.ledger : r.nonce = s.nonce => r = s
  BY <1>1 DEF SchemaAccepts
<1> QED
  BY <1>1, <1>2, <1>3 DEF TableTypes, LoadSnapshot

\* A reservation is committed, with its key if it is one of a profile.
LEMMA CommittedLedger ==
    ASSUME NEW d, Tables(d), d.catalog # None, NEW y \in d.ledger, NEW e,
           e.ledger = Committed(d.ledger, y.seq), e.catalog.used = d.catalog.used,
           d.keys \subseteq e.keys,
           \A w \in e.keys : w \in d.keys \/ (w.seq = y.seq /\ w.binding = y.binding),
           y.purpose = "profile" => \E w \in e.keys : w.seq = y.seq /\ w.binding = y.binding
    PROVE  /\ ValidateLedger(e) /\ e.ledger \subseteq Reservation /\ IsFiniteSet(e.ledger)
           /\ \A r \in d.ledger : \E x \in e.ledger :
                 x.seq = r.seq /\ x.nonce = r.nonce /\ x.purpose = r.purpose
           /\ \A r \in e.ledger : r.seq = y.seq => r.lifecycle = "committed"
           /\ \E r \in e.ledger : r.seq = y.seq /\ r.lifecycle = "committed" /\ r.purpose = y.purpose
<1> DEFINE L == d.ledger
           x == [y EXCEPT !.lifecycle = "committed"]
<1>1. /\ L \subseteq Reservation /\ IsFiniteSet(L)
      /\ \A r, s \in L : r.seq = s.seq => r = s
      /\ ValidateLedger(d)
  BY Initialized
<1>2. /\ e.ledger = (L \ {y}) \cup {x} /\ e.ledger \subseteq Reservation
      /\ x.seq = y.seq /\ x.nonce = y.nonce /\ x.purpose = y.purpose
      /\ x.binding = y.binding /\ x.lifecycle = "committed"
      /\ IsFiniteSet(e.ledger) /\ Cardinality(e.ledger) = Cardinality(L)
  <2>1. L \in SUBSET Reservation /\ y \in L /\ e.ledger = Committed(L, y.seq)
    BY <1>1
  <2>2. x = [y EXCEPT !.lifecycle = "committed"]
    OBVIOUS
  <2> HIDE DEF L, x
  <2> QED
    BY <1>1, <2>1, <2>2, CommittedKeeps
<1> HIDE DEF x
<1>3. \A r \in L : \E z \in e.ledger :
        /\ z.seq = r.seq /\ z.nonce = r.nonce /\ z.purpose = r.purpose
        /\ z.binding = r.binding
        /\ r.lifecycle = "committed" => z.lifecycle = "committed"
  BY <1>2
<1>4. \A z \in e.ledger : z.seq = y.seq => z = x
  BY <1>1, <1>2
<1>5. ValidateLedger(e)
  <2>1. Cardinality(e.ledger) = e.catalog.used
    BY <1>1, <1>2 DEF ValidateLedger
  <2>2. \E r \in e.ledger : r.seq = 1 /\ r.purpose = "sentinel"
    <3>1. PICK r \in L : r.seq = 1 /\ r.purpose = "sentinel"
      BY <1>1 DEF ValidateLedger
    <3> QED
      BY <1>3, <3>1
  <2>3. \E r \in e.ledger : r.seq = e.catalog.used
    <3>1. PICK r \in L : r.seq = d.catalog.used
      BY <1>1 DEF ValidateLedger
    <3> QED
      BY <1>3, <3>1
  <2>4. ASSUME NEW r \in e.ledger
        PROVE  /\ r.seq \in 1..e.catalog.used
               /\ r.purpose = "sentinel" <=> r.seq = 1
    <3>1. CASE r \in L
      BY <1>1, <3>1 DEF ValidateLedger
    <3>2. CASE r = x
      BY <1>1, <1>2, <3>2 DEF ValidateLedger
    <3> QED
      BY <1>2, <3>1, <3>2
  <2>5. ASSUME NEW w \in e.keys
        PROVE  \E r \in e.ledger : r.seq = w.seq /\ r.lifecycle = "committed" /\ r.binding = w.binding
    <3>1. CASE w \in d.keys
      <4>1. PICK r \in L : r.seq = w.seq /\ r.lifecycle = "committed" /\ r.binding = w.binding
        BY <1>1, <3>1 DEF ValidateLedger
      <4> QED
        BY <1>3, <4>1
    <3>2. CASE w.seq = y.seq /\ w.binding = y.binding
      BY <1>2, <3>2
    <3> QED
      BY <3>1, <3>2
  <2>6. ASSUME NEW r \in e.ledger, r.purpose = "profile", r.lifecycle = "committed"
        PROVE  \E w \in e.keys : w.seq = r.seq /\ w.binding = r.binding
    <3>1. CASE r \in L
      BY <1>1, <2>6, <3>1 DEF ValidateLedger
    <3>2. CASE r = x
      BY <1>2, <2>6, <3>2
    <3> QED
      BY <1>2, <3>1, <3>2
  <2> QED
    BY <2>1, <2>2, <2>3, <2>4, <2>5, <2>6 DEF ValidateLedger
<1> QED
  BY <1>2, <1>3, <1>4, <1>5

\* finish_initialization activates the catalog with the sentinel.
LEMMA FinishTables ==
    ASSUME NEW d, Tables(d), NEW seq, NEW s, d.catalog # None => s.key = d.catalog.commitment,
           FinishInitialization(d, seq, s).code = "ok"
    PROVE  LET e == FinishInitialization(d, seq, s).tables
           IN  Tables(e) /\ Grows(d, e)
<1> DEFINE c == Advanced([d.catalog EXCEPT !.state = "active"])
           v == [seq |-> seq, key |-> s.key]
           l == Committed(d.ledger, seq)
           e == [d EXCEPT !.sentinel = v, !.ledger = l, !.catalog = c]
<1>1. /\ LoadSnapshot(d) = "ok" /\ d.catalog.state = "preparing"
      /\ FinishInitialization(d, seq, s) = Stage(e)
  BY DEF FinishInitialization, Raise
<1>2. PICK y \in d.ledger : y.seq = seq /\ y.purpose = "sentinel" /\ y.lifecycle = "reserved"
  BY DEF FinishInitialization, Raise
<1>3. d.catalog # None
  BY <1>1 DEF LoadSnapshot
<1>4. /\ IsTables(d) /\ d.catalog \in CatalogRow /\ d.ledger \subseteq Reservation
      /\ d.keys \subseteq WrappedRow /\ ValidateSentinel(d) /\ Loads(d)
  BY <1>3, Initialized
<1>5. SchemaAccepts(e) /\ FinishInitialization(d, seq, s).tables = e
  BY <1>1, StageAccepts
<1>6. c \in CatalogRow /\ c.state = "active" /\ c.used = d.catalog.used /\ c.commitment = d.catalog.commitment
  BY <1>4, AdvancedRow DEF CatalogState
<1>7. v \in SentinelRow /\ v.key = d.catalog.commitment /\ v.seq = seq
  BY <1>2, <1>3, <1>4 DEF SentinelRow, CatalogRow, Reservation
<1>8. e = [d EXCEPT !.sentinel = v, !.ledger = l, !.catalog = c] /\ l = Committed(d.ledger, y.seq)
  BY <1>2
<1> HIDE DEF c, v, l, e
<1>9. IsTables(e) /\ e.catalog = c /\ e.ledger = l /\ e.sentinel = v /\ e.keys = d.keys
  <2>1. Updated(d, e, c, l, v, d.keys)
    BY <1>4, <1>8, UpdateSentinel
  <2> QED
    BY <2>1 DEF Updated
<1>10. c # None /\ v # None
  BY <1>6, <1>7, CatalogNone
<1>11. /\ ValidateLedger(e) /\ e.ledger \subseteq Reservation /\ IsFiniteSet(e.ledger)
       /\ \A r \in d.ledger : \E x \in e.ledger :
             x.seq = r.seq /\ x.nonce = r.nonce /\ x.purpose = r.purpose
       /\ \E r \in e.ledger : r.seq = y.seq /\ r.lifecycle = "committed" /\ r.purpose = y.purpose
  <2>1. e.ledger = Committed(d.ledger, y.seq) /\ e.catalog.used = d.catalog.used
    BY <1>6, <1>8, <1>9
  <2>2. y.purpose # "profile" /\ e.keys = d.keys
    BY <1>2, <1>9
  <2> QED
    BY <1>3, <2>1, <2>2, CommittedLedger
<1>12. ValidateSentinel(e)
  BY <1>2, <1>6, <1>7, <1>9, <1>10, <1>11 DEF ValidateSentinel
<1>13. Loads(e)
  BY <1>4, <1>6, <1>7, <1>9, <1>11, <1>12 DEF Loads
<1>14. Tables(e)
  BY <1>4, <1>5, <1>6, <1>7, <1>9, <1>10, <1>11, <1>13 DEF Tables, TableTypes
<1>15. d.sentinel = None
  BY <1>1, <1>4 DEF ValidateSentinel
<1>16. Grows(d, e)
  BY <1>1, <1>6, <1>9, <1>10, <1>11, <1>15 DEF Grows
<1> QED
  BY <1>5, <1>14, <1>16

\* An active catalog.
LEMMA ActiveCatalog ==
    ASSUME NEW d, LoadActive(d) = "ok"
    PROVE  d.catalog # None /\ d.catalog.state = "active"
BY DEF LoadActive, LoadSnapshot

\* reserve_profile_preparation adds a reservation with a nonce that is new to
\* the ledger.
LEMMA ReserveTables ==
    ASSUME NEW d, Tables(d), NEW b \in Binding, NEW n \in Nonce,
           ReserveProfilePreparation(d, b, n).code = "ok"
    PROVE  LET e == ReserveProfilePreparation(d, b, n).tables
           IN  /\ Tables(e) /\ Grows(d, e)
               /\ e.catalog.used \in Nat /\ Holds(e, n, "profile")
               /\ \A r \in d.ledger : r.nonce # n
<1> DEFINE c == Advanced([d.catalog EXCEPT !.used = @ + 1])
           x == [seq |-> d.catalog.used + 1, nonce |-> n, purpose |-> "profile",
                 lifecycle |-> "reserved", binding |-> b]
           l == d.ledger \cup {x}
           e == [d EXCEPT !.ledger = l, !.catalog = c]
<1>1. /\ LoadActive(d) = "ok" /\ (\A r \in d.ledger : r.nonce # n)
      /\ ReserveProfilePreparation(d, b, n) = Stage(e)
  <2>1. LoadActive(d) = "ok"
    BY DEF ReserveProfilePreparation, Raise
  <2>2. \A r \in d.ledger : r.nonce # n
    BY <2>1 DEF ReserveProfilePreparation, Raise
  <2>3. ProfileRow(d, b) = {} /\ ProfileReservationRow(d, b) = {}
    BY <2>1 DEF ReserveProfilePreparation, Raise
  <2>4. ~(d.catalog.used >= UsageLimit)
    BY <2>1, <2>2, <2>3 DEF ReserveProfilePreparation, Raise
  <2>5. ReserveProfilePreparation(d, b, n) = Stage(e)
    BY <2>1, <2>2, <2>3, <2>4 DEF ReserveProfilePreparation
  <2> QED
    BY <2>1, <2>2, <2>5
<1>2. d.catalog # None /\ d.catalog.state = "active"
  BY <1>1, ActiveCatalog
<1>3. /\ IsTables(d) /\ d.catalog \in CatalogRow /\ d.ledger \subseteq Reservation
      /\ d.sentinel \in SentinelRow \cup {None} /\ IsFiniteSet(d.ledger)
      /\ d.keys \subseteq WrappedRow /\ ValidateLedger(d) /\ ValidateSentinel(d) /\ Loads(d)
  BY <1>2, Initialized
<1>4. SchemaAccepts(e) /\ ReserveProfilePreparation(d, b, n).tables = e
  BY <1>1, StageAccepts
<1>5. /\ c \in CatalogRow /\ c.state = "active" /\ c.used = d.catalog.used + 1
      /\ c.commitment = d.catalog.commitment /\ c.used \in Nat /\ d.catalog.used \in Nat
  BY <1>2, <1>3, AdvancedRow DEF CatalogState, CatalogRow
<1>6. /\ x \in Reservation /\ x.seq = d.catalog.used + 1 /\ x.nonce = n /\ x.purpose = "profile"
      /\ x.lifecycle = "reserved"
  BY <1>5 DEF Reservation, Lifecycle
<1>7. e = [d EXCEPT !.ledger = l, !.catalog = c] /\ l = d.ledger \cup {x}
  OBVIOUS
<1> HIDE DEF c, x, l, e
<1>8. IsTables(e) /\ e.catalog = c /\ e.ledger = l /\ e.sentinel = d.sentinel /\ e.keys = d.keys
  <2>1. Updated(d, e, c, l, d.sentinel, d.keys)
    BY <1>3, <1>7, UpdateLedger
  <2> QED
    BY <2>1 DEF Updated
<1>9. c # None
  BY <1>5, CatalogNone
<1>10. d.catalog.used >= 1
  BY <1>3, <1>5 DEF ValidateLedger
<1>11. x \notin d.ledger
  BY <1>3, <1>5, <1>6 DEF ValidateLedger
<1>12. IsFiniteSet(l) /\ Cardinality(l) = c.used
  BY <1>3, <1>5, <1>7, <1>11, FS_AddElement DEF ValidateLedger
<1>13. ValidateLedger(e)
  <2>1. \A r \in e.ledger : r.seq \in 1..c.used /\ (r.purpose = "sentinel" <=> r.seq = 1)
    BY <1>3, <1>5, <1>6, <1>7, <1>8, <1>10 DEF ValidateLedger
  <2>2. \A w \in e.keys : \E r \in e.ledger :
          r.seq = w.seq /\ r.lifecycle = "committed" /\ r.binding = w.binding
    BY <1>3, <1>7, <1>8 DEF ValidateLedger
  <2>3. \A r \in e.ledger : r.purpose = "profile" /\ r.lifecycle = "committed" =>
          \E w \in e.keys : w.seq = r.seq /\ w.binding = r.binding
    BY <1>3, <1>6, <1>7, <1>8 DEF ValidateLedger
  <2>4. /\ \E r \in e.ledger : r.seq = 1 /\ r.purpose = "sentinel"
        /\ \E r \in e.ledger : r.seq = c.used
    BY <1>3, <1>5, <1>6, <1>7, <1>8 DEF ValidateLedger
  <2> QED
    BY <1>8, <1>12, <2>1, <2>2, <2>3, <2>4 DEF ValidateLedger
<1>14. ValidateSentinel(e)
  BY <1>2, <1>3, <1>5, <1>7, <1>8 DEF ValidateSentinel
<1>15. Loads(e)
  BY <1>3, <1>5, <1>8, <1>13, <1>14 DEF Loads
<1>16. Tables(e)
  BY <1>3, <1>4, <1>5, <1>6, <1>7, <1>8, <1>9, <1>12, <1>15 DEF Tables, TableTypes
<1>17. Grows(d, e)
  BY <1>2, <1>5, <1>7, <1>8, <1>9 DEF Grows
<1>18. Holds(e, n, "profile")
  BY <1>6, <1>7, <1>8 DEF Holds
<1> QED
  BY <1>1, <1>4, <1>5, <1>8, <1>16, <1>17, <1>18

\* publish_profile_key commits the reservation with the key.
LEMMA PublishTables ==
    ASSUME NEW d, Tables(d), NEW seq, NEW w \in WrappedKey,
           d.catalog # None => w.key = d.catalog.commitment,
           PublishProfileKey(d, seq, w).code = "ok"
    PROVE  LET e == PublishProfileKey(d, seq, w).tables
           IN  Tables(e) /\ Grows(d, e) /\ Stored(e, w)
<1> DEFINE c == Advanced(d.catalog)
           v == [binding |-> w.binding, seq |-> seq, key |-> w.key]
           m == d.keys \cup {v}
           l == Committed(d.ledger, seq)
           e == [d EXCEPT !.keys = m, !.ledger = l, !.catalog = c]
<1>1. /\ LoadActive(d) = "ok" /\ ReservationMatches(d, seq, w.binding, w.nonce)
      /\ PublishProfileKey(d, seq, w) = Stage(e)
  <2>1. LoadActive(d) = "ok"
    BY DEF PublishProfileKey, Raise
  <2>2. ReservationMatches(d, seq, w.binding, w.nonce)
    BY <2>1 DEF PublishProfileKey, Raise
  <2>3. ProfileRow(d, w.binding) = {}
    BY <2>1, <2>2 DEF PublishProfileKey, Raise
  <2>4. PublishProfileKey(d, seq, w) = Stage(e)
    BY <2>1, <2>2, <2>3 DEF PublishProfileKey
  <2> QED
    BY <2>1, <2>2, <2>4
<1>2. PICK y \in d.ledger : y.seq = seq /\ y.nonce = w.nonce /\ y.purpose = "profile" /\ y.binding = w.binding
  BY <1>1 DEF ReservationMatches
<1>3. d.catalog # None /\ d.catalog.state = "active"
  BY <1>1, ActiveCatalog
<1>4. /\ IsTables(d) /\ d.catalog \in CatalogRow /\ d.ledger \subseteq Reservation
      /\ d.sentinel \in SentinelRow \cup {None}
      /\ d.keys \subseteq WrappedRow /\ ValidateSentinel(d) /\ Loads(d)
      /\ \A r, s \in d.ledger : r.seq = s.seq => r = s
  BY <1>3, Initialized
<1>5. SchemaAccepts(e) /\ PublishProfileKey(d, seq, w).tables = e
  BY <1>1, StageAccepts
<1>6. c \in CatalogRow /\ c.state = "active" /\ c.used = d.catalog.used /\ c.commitment = d.catalog.commitment
  BY <1>3, <1>4, AdvancedRow DEF CatalogState
<1>7. v \in WrappedRow /\ v.key = w.key /\ v.binding = w.binding /\ v.seq = y.seq /\ v.key = d.catalog.commitment
  BY <1>2, <1>3, <1>4 DEF WrappedRow, WrappedKey, Reservation
<1>8. /\ e = [d EXCEPT !.keys = m, !.ledger = l, !.catalog = c] /\ l = Committed(d.ledger, y.seq)
      /\ m = d.keys \cup {v}
  BY <1>2
<1> HIDE DEF c, v, l, m, e
<1>9. IsTables(e) /\ e.catalog = c /\ e.ledger = l /\ e.sentinel = d.sentinel /\ e.keys = m
  <2>1. Updated(d, e, c, l, d.sentinel, m)
    BY <1>4, <1>8, UpdateKeys
  <2> QED
    BY <2>1 DEF Updated
<1>10. c # None
  BY <1>6, CatalogNone
<1>11. /\ ValidateLedger(e) /\ e.ledger \subseteq Reservation /\ IsFiniteSet(e.ledger)
       /\ \A r \in d.ledger : \E x \in e.ledger :
             x.seq = r.seq /\ x.nonce = r.nonce /\ x.purpose = r.purpose
       /\ \A r \in e.ledger : r.seq = y.seq => r.lifecycle = "committed"
  <2>1. e.ledger = Committed(d.ledger, y.seq) /\ e.catalog.used = d.catalog.used
    BY <1>6, <1>8, <1>9
  <2>2. /\ d.keys \subseteq e.keys
        /\ \A u \in e.keys : u \in d.keys \/ (u.seq = y.seq /\ u.binding = y.binding)
        /\ \E u \in e.keys : u.seq = y.seq /\ u.binding = y.binding
    BY <1>2, <1>7, <1>8, <1>9
  <2> QED
    BY <1>3, <2>1, <2>2, CommittedLedger
<1>12. ValidateSentinel(e)
  <2>1. d.sentinel # None
    BY <1>3, <1>4 DEF ValidateSentinel
  <2>2. PICK r \in d.ledger : r.seq = d.sentinel.seq /\ r.lifecycle = "committed" /\ r.purpose = "sentinel"
    BY <1>4, <2>1 DEF ValidateSentinel
  <2>3. r \in e.ledger
    <3>1. r.seq # y.seq
      BY <1>2, <1>4, <2>2
    <3>2. r \in Committed(d.ledger, y.seq)
      BY <3>1 DEF Committed
    <3> QED
      BY <1>8, <1>9, <3>2
  <2> QED
    BY <1>6, <1>9, <2>1, <2>2, <2>3 DEF ValidateSentinel
<1>13. Loads(e)
  BY <1>4, <1>6, <1>7, <1>8, <1>9, <1>11, <1>12 DEF Loads
<1>14. Tables(e)
  BY <1>4, <1>5, <1>6, <1>7, <1>8, <1>9, <1>10, <1>11, <1>13 DEF Tables, TableTypes
<1>15. Grows(d, e)
  BY <1>3, <1>6, <1>8, <1>9, <1>10, <1>11 DEF Grows
<1>16. Stored(e, w)
  <2>1. PICK x \in e.ledger : x.seq = y.seq /\ x.nonce = y.nonce
    BY <1>11
  <2> QED
    BY <1>2, <1>7, <1>8, <1>9, <2>1 DEF Stored
<1> QED
  BY <1>5, <1>14, <1>15, <1>16

\* require_recovery changes the state of a catalog that has its sentinel.
LEMMA RecoverTables ==
    ASSUME NEW d, Tables(d), d.catalog # None, d.sentinel # None, RequireRecovery(d).code = "ok"
    PROVE  LET e == RequireRecovery(d).tables
           IN  /\ Tables(e) /\ Grows(d, e)
               /\ e.catalog # None /\ e.catalog.state = "recovery_required"
<1> DEFINE c == Advanced([d.catalog EXCEPT !.state = "recovery_required"])
           e == [d EXCEPT !.catalog = c]
<1>1. /\ IsTables(d) /\ d.catalog \in CatalogRow /\ d.ledger \subseteq Reservation
      /\ d.sentinel \in SentinelRow \cup {None} /\ IsFiniteSet(d.ledger)
      /\ d.keys \subseteq WrappedRow /\ ValidateLedger(d) /\ ValidateSentinel(d) /\ Loads(d)
      /\ LoadSnapshot(d) = "ok"
  BY Initialized
<1>2. CASE d.catalog.state = "recovery_required"
  BY <1>1, <1>2, GrowsReflexive DEF RequireRecovery, Raise
<1>3. CASE d.catalog.state # "recovery_required"
  <2>1. RequireRecovery(d) = Stage(e)
    BY <1>1, <1>3 DEF RequireRecovery
  <2>2. SchemaAccepts(e) /\ RequireRecovery(d).tables = e
    BY <2>1, StageAccepts
  <2>3. /\ c \in CatalogRow /\ c.state = "recovery_required" /\ c.used = d.catalog.used
        /\ c.commitment = d.catalog.commitment
    BY <1>1, AdvancedRow DEF CatalogState
  <2>4. e = [d EXCEPT !.catalog = c]
    OBVIOUS
  <2> HIDE DEF c, e
  <2>5. IsTables(e) /\ e.catalog = c /\ e.ledger = d.ledger /\ e.sentinel = d.sentinel /\ e.keys = d.keys
    <3>1. Updated(d, e, c, d.ledger, d.sentinel, d.keys)
      BY <1>1, <2>4, UpdateCatalog
    <3> QED
      BY <3>1 DEF Updated
  <2>6. c # None
    BY <2>3, CatalogNone
  <2>7. ValidateLedger(e)
    BY <1>1, <2>3, <2>5 DEF ValidateLedger
  <2>8. ValidateSentinel(e)
    BY <1>1, <2>3, <2>5 DEF ValidateSentinel
  <2>9. Loads(e)
    BY <1>1, <2>3, <2>5, <2>7, <2>8 DEF Loads
  <2>10. Tables(e)
    BY <1>1, <2>2, <2>3, <2>5, <2>6, <2>9 DEF Tables, TableTypes
  <2>11. Grows(d, e)
    BY <2>3, <2>5, <2>6 DEF Grows
  <2> QED
    BY <2>2, <2>3, <2>5, <2>6, <2>10, <2>11
<1> QED
  BY <1>2, <1>3

-----------------------------------------------------------------------------
(* What a step on the catalog leaves.                                      *)

\* The tables have grown, and the process has not ended.
Moves ==
    /\ Tables(db') /\ Grows(db, db')
    /\ runtime # "down" /\ runtime' \in {"open", "recovery", "abandoned", "closed"}
    /\ latch' \in BOOLEAN

\* Where a catalog step starts.
Ready ==
    /\ Tables(db) /\ latch \in BOOLEAN
    /\ runtime \in {"open", "recovery", "abandoned", "closed"}

\* A read changes no table.
LEMMA ReadMoves ==
    ASSUME Ready, NEW loaded, NEW code, Read(loaded, code) \/ ReconciliationRead(loaded, code)
    PROVE  Moves /\ db' = db /\ (code = "ok" => loaded = "ok")
<1>1. db' = db
  BY DEF Read, ReconciliationRead, catalogVars
<1>2. runtime' \in {"open", "recovery", "abandoned", "closed"} /\ latch' \in BOOLEAN
  BY DEF Ready, Read, ReconciliationRead, catalogVars, Abandon, Abandoned, Closed
<1>3. code = "ok" => loaded = "ok"
  BY DEF Read, ReconciliationRead
<1> QED
  BY <1>1, <1>2, <1>3, GrowsReflexive DEF Ready, Moves

\* A transaction commits its tables or none.
LEMMA TransactMoves ==
    ASSUME Ready, NEW t, NEW code, Transact(t, code) \/ ReconciliationFinish(t, code),
           t.code = "ok" => Tables(t.tables) /\ Grows(db, t.tables)
    PROVE  Moves /\ (code = "ok" => t.code = "ok" /\ db' = t.tables)
<1>1. db' = db \/ (t.code = "ok" /\ db' = t.tables)
  BY DEF Transact, ReconciliationFinish, catalogVars
<1>2. Tables(db') /\ Grows(db, db')
  BY <1>1, GrowsReflexive DEF Ready
<1>3. runtime' \in {"open", "recovery", "abandoned", "closed"} /\ latch' \in BOOLEAN
  BY DEF Ready, Transact, ReconciliationFinish, catalogVars, Abandon, Abandoned, Closed
<1>4. code = "ok" => t.code = "ok" /\ db' = t.tables
  BY DEF Transact, ReconciliationFinish
<1> QED
  BY <1>2, <1>3, <1>4 DEF Ready, Moves

-----------------------------------------------------------------------------
(* The scripts.                                                            *)

\* The step after one that occurs once in a script.
LEMMA NextInScript ==
    ASSUME NEW s, NEW i \in DOMAIN s, \A j \in DOMAIN s : s[j] = s[i] => j = i
    PROVE  s[(CHOOSE j \in DOMAIN s : s[j] = s[i]) + 1] = s[i + 1]
<1>1. (CHOOSE j \in DOMAIN s : s[j] = s[i]) = i
  OBVIOUS
<1> QED
  BY <1>1

\* The steps of every call, in their order.
LEMMA AfterSteps ==
    /\ After("compose", "load") = "construct"
    /\ After("compose", "construct") = "readiness"
    /\ After("initialize", "commitment") = "begin"
    /\ After("initialize", "begin") = "seal"
    /\ After("initialize", "seal") = "reseal"
    /\ After("initialize", "reseal") = "finish"
    /\ After("resume", "load") = "record"
    /\ After("resume", "record") = "seal"
    /\ After("resume", "seal") = "reseal"
    /\ After("resume", "reseal") = "finish"
    /\ After("reconcile_initialization", "load") = "record"
    /\ After("reconcile_initialization", "record") = "seal"
    /\ After("reconcile_initialization", "seal") = "reseal"
    /\ After("reconcile_initialization", "reseal") = "finish"
    /\ After("reconcile_profile_key", "load") = "construct"
    /\ After("reconcile_profile_key", "construct") = "readiness"
    /\ After("reconcile_profile_key", "readiness") = "fetch"
    /\ After("reconcile_profile_key", "fetch") = "unwrap"
    /\ After("create", "load") = "readiness"
    /\ After("create", "readiness") = "prepare"
    /\ After("create", "prepare") = "reserve"
    /\ After("create", "reserve") = "consume"
    /\ After("create", "consume") = "complete"
    /\ After("create", "complete") = "publish"
    /\ After("open", "load") = "readiness"
    /\ After("open", "readiness") = "fetch"
    /\ After("open", "fetch") = "unwrap"
<1>1. /\ After("compose", "load") = "construct"
      /\ After("compose", "construct") = "readiness"
  <2> DEFINE s == ComposeNativeKeyCatalog
  <2>1. Script("compose") = s
    BY DEF Script
  <2>2. /\ DOMAIN s = 1..3
        /\ s[1] = "load"
        /\ s[2] = "construct"
        /\ s[3] = "readiness"
    BY DEF ComposeNativeKeyCatalog
  <2> HIDE DEF s
  <2>3. \A i, j \in DOMAIN s : s[i] = s[j] => i = j
    BY <2>2
  <2>4. After("compose", "load") = "construct"
    <3>1. 1 \in DOMAIN s /\ s[1] = "load"
      BY <2>2
    <3>2. s[(CHOOSE j \in DOMAIN s : s[j] = s[1]) + 1] = s[1 + 1]
      BY <2>3, <3>1, NextInScript
    <3> QED
      BY <2>1, <2>2, <3>1, <3>2 DEF After
  <2>5. After("compose", "construct") = "readiness"
    <3>1. 2 \in DOMAIN s /\ s[2] = "construct"
      BY <2>2
    <3>2. s[(CHOOSE j \in DOMAIN s : s[j] = s[2]) + 1] = s[2 + 1]
      BY <2>3, <3>1, NextInScript
    <3> QED
      BY <2>1, <2>2, <3>1, <3>2 DEF After
  <2> QED
    BY <2>4, <2>5
<1>2. /\ After("initialize", "commitment") = "begin"
      /\ After("initialize", "begin") = "seal"
      /\ After("initialize", "seal") = "reseal"
      /\ After("initialize", "reseal") = "finish"
  <2> DEFINE s == InitializeNativeKeyCatalog
  <2>1. Script("initialize") = s
    BY DEF Script
  <2>2. /\ DOMAIN s = 1..5
        /\ s[1] = "commitment"
        /\ s[2] = "begin"
        /\ s[3] = "seal"
        /\ s[4] = "reseal"
        /\ s[5] = "finish"
    BY DEF InitializeNativeKeyCatalog
  <2> HIDE DEF s
  <2>3. \A i, j \in DOMAIN s : s[i] = s[j] => i = j
    BY <2>2
  <2>4. After("initialize", "commitment") = "begin"
    <3>1. 1 \in DOMAIN s /\ s[1] = "commitment"
      BY <2>2
    <3>2. s[(CHOOSE j \in DOMAIN s : s[j] = s[1]) + 1] = s[1 + 1]
      BY <2>3, <3>1, NextInScript
    <3> QED
      BY <2>1, <2>2, <3>1, <3>2 DEF After
  <2>5. After("initialize", "begin") = "seal"
    <3>1. 2 \in DOMAIN s /\ s[2] = "begin"
      BY <2>2
    <3>2. s[(CHOOSE j \in DOMAIN s : s[j] = s[2]) + 1] = s[2 + 1]
      BY <2>3, <3>1, NextInScript
    <3> QED
      BY <2>1, <2>2, <3>1, <3>2 DEF After
  <2>6. After("initialize", "seal") = "reseal"
    <3>1. 3 \in DOMAIN s /\ s[3] = "seal"
      BY <2>2
    <3>2. s[(CHOOSE j \in DOMAIN s : s[j] = s[3]) + 1] = s[3 + 1]
      BY <2>3, <3>1, NextInScript
    <3> QED
      BY <2>1, <2>2, <3>1, <3>2 DEF After
  <2>7. After("initialize", "reseal") = "finish"
    <3>1. 4 \in DOMAIN s /\ s[4] = "reseal"
      BY <2>2
    <3>2. s[(CHOOSE j \in DOMAIN s : s[j] = s[4]) + 1] = s[4 + 1]
      BY <2>3, <3>1, NextInScript
    <3> QED
      BY <2>1, <2>2, <3>1, <3>2 DEF After
  <2> QED
    BY <2>4, <2>5, <2>6, <2>7
<1>3. /\ After("resume", "load") = "record"
      /\ After("resume", "record") = "seal"
      /\ After("resume", "seal") = "reseal"
      /\ After("resume", "reseal") = "finish"
  <2> DEFINE s == ResumeInitialization
  <2>1. Script("resume") = s
    BY DEF Script
  <2>2. /\ DOMAIN s = 1..5
        /\ s[1] = "load"
        /\ s[2] = "record"
        /\ s[3] = "seal"
        /\ s[4] = "reseal"
        /\ s[5] = "finish"
    BY DEF ResumeInitialization
  <2> HIDE DEF s
  <2>3. \A i, j \in DOMAIN s : s[i] = s[j] => i = j
    BY <2>2
  <2>4. After("resume", "load") = "record"
    <3>1. 1 \in DOMAIN s /\ s[1] = "load"
      BY <2>2
    <3>2. s[(CHOOSE j \in DOMAIN s : s[j] = s[1]) + 1] = s[1 + 1]
      BY <2>3, <3>1, NextInScript
    <3> QED
      BY <2>1, <2>2, <3>1, <3>2 DEF After
  <2>5. After("resume", "record") = "seal"
    <3>1. 2 \in DOMAIN s /\ s[2] = "record"
      BY <2>2
    <3>2. s[(CHOOSE j \in DOMAIN s : s[j] = s[2]) + 1] = s[2 + 1]
      BY <2>3, <3>1, NextInScript
    <3> QED
      BY <2>1, <2>2, <3>1, <3>2 DEF After
  <2>6. After("resume", "seal") = "reseal"
    <3>1. 3 \in DOMAIN s /\ s[3] = "seal"
      BY <2>2
    <3>2. s[(CHOOSE j \in DOMAIN s : s[j] = s[3]) + 1] = s[3 + 1]
      BY <2>3, <3>1, NextInScript
    <3> QED
      BY <2>1, <2>2, <3>1, <3>2 DEF After
  <2>7. After("resume", "reseal") = "finish"
    <3>1. 4 \in DOMAIN s /\ s[4] = "reseal"
      BY <2>2
    <3>2. s[(CHOOSE j \in DOMAIN s : s[j] = s[4]) + 1] = s[4 + 1]
      BY <2>3, <3>1, NextInScript
    <3> QED
      BY <2>1, <2>2, <3>1, <3>2 DEF After
  <2> QED
    BY <2>4, <2>5, <2>6, <2>7
<1>4. /\ After("reconcile_initialization", "load") = "record"
      /\ After("reconcile_initialization", "record") = "seal"
      /\ After("reconcile_initialization", "seal") = "reseal"
      /\ After("reconcile_initialization", "reseal") = "finish"
  <2> DEFINE s == ReconcileInitialization
  <2>1. Script("reconcile_initialization") = s
    BY DEF Script
  <2>2. /\ DOMAIN s = 1..5
        /\ s[1] = "load"
        /\ s[2] = "record"
        /\ s[3] = "seal"
        /\ s[4] = "reseal"
        /\ s[5] = "finish"
    BY DEF ReconcileInitialization
  <2> HIDE DEF s
  <2>3. \A i, j \in DOMAIN s : s[i] = s[j] => i = j
    BY <2>2
  <2>4. After("reconcile_initialization", "load") = "record"
    <3>1. 1 \in DOMAIN s /\ s[1] = "load"
      BY <2>2
    <3>2. s[(CHOOSE j \in DOMAIN s : s[j] = s[1]) + 1] = s[1 + 1]
      BY <2>3, <3>1, NextInScript
    <3> QED
      BY <2>1, <2>2, <3>1, <3>2 DEF After
  <2>5. After("reconcile_initialization", "record") = "seal"
    <3>1. 2 \in DOMAIN s /\ s[2] = "record"
      BY <2>2
    <3>2. s[(CHOOSE j \in DOMAIN s : s[j] = s[2]) + 1] = s[2 + 1]
      BY <2>3, <3>1, NextInScript
    <3> QED
      BY <2>1, <2>2, <3>1, <3>2 DEF After
  <2>6. After("reconcile_initialization", "seal") = "reseal"
    <3>1. 3 \in DOMAIN s /\ s[3] = "seal"
      BY <2>2
    <3>2. s[(CHOOSE j \in DOMAIN s : s[j] = s[3]) + 1] = s[3 + 1]
      BY <2>3, <3>1, NextInScript
    <3> QED
      BY <2>1, <2>2, <3>1, <3>2 DEF After
  <2>7. After("reconcile_initialization", "reseal") = "finish"
    <3>1. 4 \in DOMAIN s /\ s[4] = "reseal"
      BY <2>2
    <3>2. s[(CHOOSE j \in DOMAIN s : s[j] = s[4]) + 1] = s[4 + 1]
      BY <2>3, <3>1, NextInScript
    <3> QED
      BY <2>1, <2>2, <3>1, <3>2 DEF After
  <2> QED
    BY <2>4, <2>5, <2>6, <2>7
<1>5. /\ After("reconcile_profile_key", "load") = "construct"
      /\ After("reconcile_profile_key", "construct") = "readiness"
      /\ After("reconcile_profile_key", "readiness") = "fetch"
      /\ After("reconcile_profile_key", "fetch") = "unwrap"
  <2> DEFINE s == ReconcileNativeProfileKey
  <2>1. Script("reconcile_profile_key") = s
    BY DEF Script
  <2>2. /\ DOMAIN s = 1..5
        /\ s[1] = "load"
        /\ s[2] = "construct"
        /\ s[3] = "readiness"
        /\ s[4] = "fetch"
        /\ s[5] = "unwrap"
    BY DEF ReconcileNativeProfileKey
  <2> HIDE DEF s
  <2>3. \A i, j \in DOMAIN s : s[i] = s[j] => i = j
    BY <2>2
  <2>4. After("reconcile_profile_key", "load") = "construct"
    <3>1. 1 \in DOMAIN s /\ s[1] = "load"
      BY <2>2
    <3>2. s[(CHOOSE j \in DOMAIN s : s[j] = s[1]) + 1] = s[1 + 1]
      BY <2>3, <3>1, NextInScript
    <3> QED
      BY <2>1, <2>2, <3>1, <3>2 DEF After
  <2>5. After("reconcile_profile_key", "construct") = "readiness"
    <3>1. 2 \in DOMAIN s /\ s[2] = "construct"
      BY <2>2
    <3>2. s[(CHOOSE j \in DOMAIN s : s[j] = s[2]) + 1] = s[2 + 1]
      BY <2>3, <3>1, NextInScript
    <3> QED
      BY <2>1, <2>2, <3>1, <3>2 DEF After
  <2>6. After("reconcile_profile_key", "readiness") = "fetch"
    <3>1. 3 \in DOMAIN s /\ s[3] = "readiness"
      BY <2>2
    <3>2. s[(CHOOSE j \in DOMAIN s : s[j] = s[3]) + 1] = s[3 + 1]
      BY <2>3, <3>1, NextInScript
    <3> QED
      BY <2>1, <2>2, <3>1, <3>2 DEF After
  <2>7. After("reconcile_profile_key", "fetch") = "unwrap"
    <3>1. 4 \in DOMAIN s /\ s[4] = "fetch"
      BY <2>2
    <3>2. s[(CHOOSE j \in DOMAIN s : s[j] = s[4]) + 1] = s[4 + 1]
      BY <2>3, <3>1, NextInScript
    <3> QED
      BY <2>1, <2>2, <3>1, <3>2 DEF After
  <2> QED
    BY <2>4, <2>5, <2>6, <2>7
<1>6. /\ After("create", "load") = "readiness"
      /\ After("create", "readiness") = "prepare"
      /\ After("create", "prepare") = "reserve"
      /\ After("create", "reserve") = "consume"
      /\ After("create", "consume") = "complete"
      /\ After("create", "complete") = "publish"
  <2> DEFINE s == CreateProfileKey
  <2>1. Script("create") = s
    BY DEF Script
  <2>2. /\ DOMAIN s = 1..7
        /\ s[1] = "load"
        /\ s[2] = "readiness"
        /\ s[3] = "prepare"
        /\ s[4] = "reserve"
        /\ s[5] = "consume"
        /\ s[6] = "complete"
        /\ s[7] = "publish"
    BY DEF CreateProfileKey
  <2> HIDE DEF s
  <2>3. \A i, j \in DOMAIN s : s[i] = s[j] => i = j
    BY <2>2
  <2>4. After("create", "load") = "readiness"
    <3>1. 1 \in DOMAIN s /\ s[1] = "load"
      BY <2>2
    <3>2. s[(CHOOSE j \in DOMAIN s : s[j] = s[1]) + 1] = s[1 + 1]
      BY <2>3, <3>1, NextInScript
    <3> QED
      BY <2>1, <2>2, <3>1, <3>2 DEF After
  <2>5. After("create", "readiness") = "prepare"
    <3>1. 2 \in DOMAIN s /\ s[2] = "readiness"
      BY <2>2
    <3>2. s[(CHOOSE j \in DOMAIN s : s[j] = s[2]) + 1] = s[2 + 1]
      BY <2>3, <3>1, NextInScript
    <3> QED
      BY <2>1, <2>2, <3>1, <3>2 DEF After
  <2>6. After("create", "prepare") = "reserve"
    <3>1. 3 \in DOMAIN s /\ s[3] = "prepare"
      BY <2>2
    <3>2. s[(CHOOSE j \in DOMAIN s : s[j] = s[3]) + 1] = s[3 + 1]
      BY <2>3, <3>1, NextInScript
    <3> QED
      BY <2>1, <2>2, <3>1, <3>2 DEF After
  <2>7. After("create", "reserve") = "consume"
    <3>1. 4 \in DOMAIN s /\ s[4] = "reserve"
      BY <2>2
    <3>2. s[(CHOOSE j \in DOMAIN s : s[j] = s[4]) + 1] = s[4 + 1]
      BY <2>3, <3>1, NextInScript
    <3> QED
      BY <2>1, <2>2, <3>1, <3>2 DEF After
  <2>8. After("create", "consume") = "complete"
    <3>1. 5 \in DOMAIN s /\ s[5] = "consume"
      BY <2>2
    <3>2. s[(CHOOSE j \in DOMAIN s : s[j] = s[5]) + 1] = s[5 + 1]
      BY <2>3, <3>1, NextInScript
    <3> QED
      BY <2>1, <2>2, <3>1, <3>2 DEF After
  <2>9. After("create", "complete") = "publish"
    <3>1. 6 \in DOMAIN s /\ s[6] = "complete"
      BY <2>2
    <3>2. s[(CHOOSE j \in DOMAIN s : s[j] = s[6]) + 1] = s[6 + 1]
      BY <2>3, <3>1, NextInScript
    <3> QED
      BY <2>1, <2>2, <3>1, <3>2 DEF After
  <2> QED
    BY <2>4, <2>5, <2>6, <2>7, <2>8, <2>9
<1>7. /\ After("open", "load") = "readiness"
      /\ After("open", "readiness") = "fetch"
      /\ After("open", "fetch") = "unwrap"
  <2> DEFINE s == OpenProfileKey
  <2>1. Script("open") = s
    BY DEF Script
  <2>2. /\ DOMAIN s = 1..4
        /\ s[1] = "load"
        /\ s[2] = "readiness"
        /\ s[3] = "fetch"
        /\ s[4] = "unwrap"
    BY DEF OpenProfileKey
  <2> HIDE DEF s
  <2>3. \A i, j \in DOMAIN s : s[i] = s[j] => i = j
    BY <2>2
  <2>4. After("open", "load") = "readiness"
    <3>1. 1 \in DOMAIN s /\ s[1] = "load"
      BY <2>2
    <3>2. s[(CHOOSE j \in DOMAIN s : s[j] = s[1]) + 1] = s[1 + 1]
      BY <2>3, <3>1, NextInScript
    <3> QED
      BY <2>1, <2>2, <3>1, <3>2 DEF After
  <2>5. After("open", "readiness") = "fetch"
    <3>1. 2 \in DOMAIN s /\ s[2] = "readiness"
      BY <2>2
    <3>2. s[(CHOOSE j \in DOMAIN s : s[j] = s[2]) + 1] = s[2 + 1]
      BY <2>3, <3>1, NextInScript
    <3> QED
      BY <2>1, <2>2, <3>1, <3>2 DEF After
  <2>6. After("open", "fetch") = "unwrap"
    <3>1. 3 \in DOMAIN s /\ s[3] = "fetch"
      BY <2>2
    <3>2. s[(CHOOSE j \in DOMAIN s : s[j] = s[3]) + 1] = s[3 + 1]
      BY <2>3, <3>1, NextInScript
    <3> QED
      BY <2>1, <2>2, <3>1, <3>2 DEF After
  <2> QED
    BY <2>4, <2>5, <2>6
<1> QED
  BY <1>1, <1>2, <1>3, <1>4, <1>5, <1>6, <1>7

-----------------------------------------------------------------------------
(* The operations of the provider, as the service sees them.               *)

Waits == {"readiness", "prepare", "complete", "unwrap"}

\* The call goes on with its provider operation.
SameTask ==
    /\ task' \in TaskType /\ task'.waiting = TRUE
    /\ task'.op = task.op /\ task'.step = task.step /\ task'.binding = task.binding
    /\ task'.nonce = task.nonce /\ task'.key = task.key /\ task'.pin = task.pin

\* What such a step leaves alone.
OnlyProvider ==
    /\ SameTask /\ task.step \in Waits /\ provider[P].path # None
    /\ UNCHANGED <<catalogVars, source, composed, granted, sentinelSeals>>
    /\ provider' \in [Provider -> ProviderState]
    /\ provider'[P].path = provider[P].path /\ provider'[P].sentinel = provider[P].sentinel
    /\ provider'[P].pin # None => provider'[P].pin.key = provider[P].sentinel.key
    /\ call' = [p \in Provider |-> call'[p]]

\* The parts of the invariant that the operation cannot disturb.
LEMMA OnlyProviderKeeps ==
    ASSUME ServiceInv, OnlyProvider
    PROVE  Tables(db)' /\ Process' /\ TaskOK' /\ (prep' = {} \/ provider'[P].path # None) /\ Serves'
<1>1. /\ UNCHANGED <<db, runtime, latch>> /\ provider[P].path # None /\ task.step \in Waits
      /\ SameTask /\ UNCHANGED composed
  BY DEF OnlyProvider, catalogVars
<1>2. task.step # "none" /\ task.op # "none"
  BY <1>1 DEF Waits, ServiceInv, TaskOK, Steps
<1>3. Tables(db)'
  BY <1>1 DEF ServiceInv
<1>4. Process'
  <2>1. runtime # "down"
    BY <1>2 DEF ServiceInv, Process, NoTask
  <2> QED
    BY <1>1, <2>1 DEF ServiceInv, Process
<1>5. TaskOK'
  BY <1>1, <1>2 DEF ServiceInv, TaskOK, SameTask, Waits, Holds
<1>6. Serves'
  BY <1>1 DEF ServiceInv, Serves, OnlyProvider, SameTask
<1> QED
  BY <1>1, <1>3, <1>4, <1>5, <1>6 DEF OnlyProvider

\* An operation returns, or is refused before it starts.
LEMMA ReturnedKeepsInv ==
    ASSUME ServiceInv, OnlyProvider, UNCHANGED sealed, NEW code, Return(P, code),
           prep' \subseteq Draft,
           \/ \A r \in prep' : \E x \in prep : r.nonce = x.nonce
           \/ task.step = "prepare" /\ \A r, x \in prep' : r.nonce = x.nonce,
           wrapped' \subseteq WrappedKey,
           \A w \in wrapped' : w \in wrapped \/ w.key = provider[P].sentinel.key
    PROVE  ServiceInv'
<1>1. /\ UNCHANGED <<db, runtime, latch>> /\ provider[P].path # None /\ task.step \in Waits
      /\ SameTask /\ UNCHANGED <<source, composed, granted, sentinelSeals>>
  BY DEF OnlyProvider, catalogVars
<1>2. call'[P].op = "none" /\ call'[P].code = IF code = "ok" THEN "ok" ELSE "refused"
  BY Composition DEF Return, Ended, ServiceInv, ServiceTypes
<1>3. Tables(db)' /\ Process' /\ TaskOK' /\ Serves'
  BY OnlyProviderKeeps
<1>4. ServiceTypes'
  BY <1>1 DEF ServiceInv, ServiceTypes, OnlyProvider
<1>5. Operation'
  BY <1>2 DEF Operation
<1>6. Preparing'
  <2>1. Preparing /\ task'.step = task.step /\ task'.waiting = TRUE /\ task'.nonce = task.nonce
    BY <1>1 DEF ServiceInv, SameTask
  <2>2. \A r, x \in prep' : r.nonce = x.nonce
    BY <2>1 DEF Preparing
  <2>3. task.step \notin Creating \cup {"recover"} => prep' = {}
    BY <2>1 DEF Preparing, Creating
  <2>4. task.step \in {"reserve", "consume", "complete"} => \A r \in prep' : r.nonce = task.nonce
    BY <2>1 DEF Preparing
  <2> QED
    BY <1>1, <1>2, <2>1, <2>2, <2>3, <2>4 DEF Preparing, Holds
<1>7. Fresh' /\ Seals'
  BY <1>1, <1>2 DEF ServiceInv, Fresh, Unspent, Seals, SameTask, Waits, Holds
<1>8. History'
  <2>1. db.catalog # None /\ provider[P].sentinel.key = db.catalog.commitment
    BY <1>1 DEF ServiceInv, Serves
  <2> QED
    BY <1>1, <2>1 DEF ServiceInv, History, Holds, Stored
<1> QED
  BY <1>3, <1>4, <1>5, <1>6, <1>7, <1>8 DEF ServiceInv

\* An operation starts.
LEMMA BeganKeepsInv ==
    ASSUME ServiceInv, OnlyProvider, UNCHANGED <<provider, sealed, wrapped>>, task.waiting = FALSE,
           NEW arg, NEW seen \in Pin, call' = [call EXCEPT ![P] = NewCall(task.step, arg, seen)],
           task.step = "prepare" => arg \in Binding,
           task.step = "complete" =>
               arg \in Draft /\ arg.nonce = task.nonce /\ seen.key = provider[P].sentinel.key,
           prep' \subseteq Draft, \A r \in prep' : \E x \in prep : r.nonce = x.nonce
    PROVE  ServiceInv'
<1>1. /\ UNCHANGED <<db, runtime, latch>> /\ provider[P].path # None /\ task.step \in Waits
      /\ SameTask /\ UNCHANGED <<source, composed, granted, sentinelSeals>>
  BY DEF OnlyProvider, catalogVars
<1>2. call'[P] = NewCall(task.step, arg, seen)
  BY Composition DEF ServiceInv, ServiceTypes
<1>3. /\ call'[P].op = task.step /\ call'[P].arg = arg /\ call'[P].seen = seen
      /\ call'[P].worked = FALSE /\ InCall(call'[P])
  <2>1. task.step \in Op
    BY <1>1 DEF Waits, Op
  <2>2. InCall(call'[P])
    BY <1>2, <2>1, NewCallType
  <2> QED
    BY <1>2, <2>2 DEF NewCall
<1>4. Tables(db)' /\ Process' /\ TaskOK' /\ Serves'
  BY OnlyProviderKeeps
<1>5. ServiceTypes'
  BY <1>1 DEF ServiceInv, ServiceTypes, OnlyProvider
<1>6. Operation'
  BY <1>1, <1>3 DEF Operation, SameTask
<1>7. Preparing'
  <2>1. Preparing /\ task'.step = task.step /\ task'.nonce = task.nonce
    BY <1>1 DEF ServiceInv, SameTask
  <2>2. \A r, x \in prep' : r.nonce = x.nonce
    BY <2>1 DEF Preparing
  <2>3. prep = {} => prep' = {}
    OBVIOUS
  <2>4. task.step \in {"reserve", "consume", "complete"} => \A r \in prep' : r.nonce = task.nonce
    BY <2>1 DEF Preparing
  <2> QED
    BY <1>1, <2>1, <2>2, <2>3, <2>4 DEF Preparing, Holds
<1>8. Fresh' /\ Seals'
  BY <1>1 DEF ServiceInv, Fresh, Unspent, Seals, SameTask, Waits, Holds
<1>9. History'
  BY <1>1 DEF ServiceInv, History, Holds, Stored
<1> QED
  BY <1>4, <1>5, <1>6, <1>7, <1>8, <1>9 DEF ServiceInv

\* An operation works: only its own record changes, and what was encrypted.
LEMMA WorksKeepsInv ==
    ASSUME ServiceInv, OnlyProvider, UNCHANGED <<prep, wrapped>>, call[P].op # "none",
           InCall(call'[P]), call'[P].op = call[P].op, call'[P].seen = call[P].seen,
           call'[P].worked = TRUE,
           call[P].op = "readiness" /\ call'[P].code = "ok" =>
               call[P].seen.key = provider[P].sentinel.key,
           call[P].op = "prepare" /\ call'[P].code = "ok" =>
               call'[P].arg.binding \in Binding /\ call'[P].arg.nonce \in Nonce,
           call[P].op = "complete" => call'[P].arg = call[P].arg,
           sealed' \in [Key -> [Nonce -> Nat]], Seals'
    PROVE  ServiceInv'
<1>1. /\ UNCHANGED <<db, runtime, latch>> /\ provider[P].path # None /\ task.step \in Waits
      /\ SameTask /\ UNCHANGED <<source, composed, granted, sentinelSeals>>
  BY DEF OnlyProvider, catalogVars
<1>2. Tables(db)' /\ Process' /\ TaskOK' /\ Serves'
  BY OnlyProviderKeeps
<1>3. ServiceTypes'
  BY <1>1 DEF ServiceInv, ServiceTypes, OnlyProvider
<1>4. /\ call[P].op = task.step
      /\ call[P].op = "complete" =>
            /\ call[P].arg \in Draft /\ call[P].arg.nonce = task.nonce
            /\ call[P].seen.key = provider[P].sentinel.key
  BY DEF ServiceInv, Operation
<1>5. Operation'
  BY <1>1, <1>4 DEF Operation, SameTask, OnlyProvider
<1>6. Preparing'
  BY <1>1, <1>4 DEF ServiceInv, Preparing, SameTask, Holds
<1>7. Fresh'
  BY <1>1, <1>4 DEF Fresh, Unspent, SameTask, Waits
<1>8. History'
  BY <1>1 DEF ServiceInv, History, Holds, Stored
<1> QED
  BY <1>2, <1>3, <1>5, <1>6, <1>7, <1>8 DEF ServiceInv

\* The call waits for an operation that is under way.
LEMMA UnderWay ==
    ASSUME ServiceInv, call[P].op # "none"
    PROVE  /\ task.waiting = TRUE /\ task.step = call[P].op /\ task.step \in Waits
           /\ provider[P].path # None /\ InCall(call[P])
<1>1. task.waiting = TRUE
  BY DEF ServiceInv, Serves, TaskOK, TaskType
<1>2. task.step = call[P].op /\ InCall(call[P]) /\ provider[P].path # None
  BY <1>1 DEF ServiceInv, Operation, Serves
<1>3. task.step \in Waits
  BY <1>1 DEF ServiceInv, TaskOK, Waits
<1> QED
  BY <1>1, <1>2, <1>3

\* What latching does to the provider.
LEMMA LatchesProvider ==
    ASSUME ServiceInv, Latches(P)
    PROVE  /\ provider' \in [Provider -> ProviderState]
           /\ provider'[P].path = provider[P].path /\ provider'[P].sentinel = provider[P].sentinel
           /\ provider'[P].pin = provider[P].pin \/ provider'[P].pin = None
<1>1. provider \in [Provider -> ProviderState]
  BY DEF ServiceInv, ServiceTypes
<1>2. CASE provider' = provider
  BY <1>1, <1>2
<1>3. ASSUME NEW st \in SourceStatus, provider' = [provider EXCEPT ![P] = Latch(@, st)]
      PROVE  /\ provider' \in [Provider -> ProviderState]
             /\ provider'[P].path = provider[P].path /\ provider'[P].sentinel = provider[P].sentinel
             /\ provider'[P].pin = None
  BY <1>1, <1>3, Composition DEF Latch, ProviderState
<1> QED
  BY <1>2, <1>3 DEF Latches

\* A step of the operation, for which the call waits.
LEMMA OperationFrame ==
    ASSUME ServiceInv, call[P].op # "none", Latches(P),
           call' = [p \in Provider |-> call'[p]],
           UNCHANGED <<catalogVars, serviceVars, source>>
    PROVE  OnlyProvider
<1>1. SameTask
  BY UnderWay DEF ServiceInv, TaskOK, SameTask, serviceVars
<1>2. provider'[P].pin # None => provider'[P].pin.key = provider[P].sentinel.key
  BY LatchesProvider DEF ServiceInv, Serves
<1> QED
  BY <1>1, <1>2, UnderWay, LatchesProvider DEF OnlyProvider, serviceVars

\* The record of an operation that has worked.
LEMMA WorkedCall ==
    ASSUME ServiceInv, call[P].op # "none", NEW code, Worked(P, code)
    PROVE  /\ call' = [p \in Provider |-> call'[p]]
           /\ call'[P].op = call[P].op /\ call'[P].arg = call[P].arg /\ call'[P].seen = call[P].seen
           /\ call'[P].code = code /\ call'[P].worked = TRUE /\ InCall(call'[P])
<1>1. /\ call'[P] = [call[P] EXCEPT !.worked = TRUE, !.code = code]
      /\ call' = [p \in Provider |-> call'[p]]
  BY Composition DEF ServiceInv, ServiceTypes, Worked
<1> QED
  BY <1>1, UnderWay DEF InCall

\* The operation works and encrypts nothing.
LEMMA WorkedKeepsService ==
    ASSUME ServiceInv, call[P].op # "none", NEW code, Worked(P, code), Latches(P),
           (provider' = provider /\ call[P].code = "ok") \/ code # "ok",
           call[P].op = "readiness" /\ code = "ok" => call[P].seen.key = provider[P].sentinel.key,
           call[P].op = "prepare" => code # "ok",
           UNCHANGED <<catalogVars, serviceVars, source, sealed, prep, wrapped>>
    PROVE  ServiceInv'
<1>1. OnlyProvider
  BY WorkedCall, OperationFrame
<1>2. Seals' /\ sealed' \in [Key -> [Nonce -> Nat]]
  BY DEF ServiceInv, Seals, ServiceTypes, catalogVars, Holds
<1> QED
  BY <1>1, <1>2, WorkedCall, WorksKeepsInv

\* The work of every operation.
LEMMA WorkKeepsInv ==
    ASSUME ServiceInv, Work(P), UNCHANGED <<catalogVars, serviceVars>>
    PROVE  ServiceInv'
<1>0. P \in Provider /\ (\A op \in Op : op # "none")
  BY Composition DEF Op
<1>1. ASSUME NEW op \in Op, Working(P, op)
      PROVE  call[P].op # "none" /\ call[P].op = op /\ call[P].worked = FALSE /\ call[P].code = "ok"
  BY <1>0, <1>1, UnderWay DEF Working, InCall
<1>2. CASE SentinelRejected(P)
  <2>1. PICK code \in {"catalog_key_mismatch", "unavailable"} :
          /\ provider' = [provider EXCEPT ![P] = Latch(@, SourceStatusFor(code))]
          /\ Worked(P, code)
    BY <1>2 DEF SentinelRejected
  <2>2. Latches(P)
    BY <2>1, StatusTypes DEF Latches
  <2>3. call[P].op = "readiness" /\ UNCHANGED <<source, sealed, prep, wrapped>>
    BY <1>2 DEF SentinelRejected, Working
  <2> QED
    BY <2>1, <2>2, <2>3, WorkedKeepsService
<1>3. CASE RecordAuthenticatedSentinel(P)
  <2>1. /\ call[P].op = "readiness" /\ call[P].code = "ok"
        /\ provider[P].sentinel.key = call[P].seen.key
        /\ UNCHANGED <<source, provider, sealed, prep, wrapped>>
    BY <1>1, <1>3 DEF RecordAuthenticatedSentinel, Op
  <2>2. PICK code : Worked(P, code)
    BY <1>3 DEF RecordAuthenticatedSentinel
  <2> QED
    BY <2>1, <2>2, WorkedKeepsService DEF Latches
<1>4. CASE ReserveRefused(P)
  <2>1. call[P].op = "prepare" /\ UNCHANGED <<source, provider, sealed, prep, wrapped>>
    BY <1>4 DEF ReserveRefused, Working
  <2>2. PICK code \in {"nonce_reuse", "usage_limit", "unavailable"} : Worked(P, code)
    BY <1>4 DEF ReserveRefused
  <2> QED
    BY <2>1, <2>2, WorkedKeepsService DEF Latches
<1>5. ASSUME NEW n \in Nonce, ReserveNonce(P, n) PROVE ServiceInv'
  <2>1. /\ call[P].op = "prepare" /\ call[P].code = "ok" /\ call[P].worked = FALSE
        /\ UNCHANGED <<source, provider, sealed, prep, wrapped>>
    BY <1>1, <1>5 DEF ReserveNonce, Op
  <2>2. CASE Worked(P, "nonce_reuse")
    BY <2>1, <2>2, WorkedKeepsService DEF Latches
  <2>3. CASE call' = [call EXCEPT ![P].worked = TRUE, ![P].arg = [binding |-> @, nonce |-> n]]
    <3>1. /\ call'[P] = [call[P] EXCEPT !.worked = TRUE, !.arg = [binding |-> @, nonce |-> n]]
          /\ call' = [p \in Provider |-> call'[p]]
      BY <1>0, <2>3 DEF ServiceInv, ServiceTypes
    <3>2. /\ call'[P].op = "prepare" /\ call'[P].seen = call[P].seen /\ call'[P].code = "ok"
          /\ call'[P].worked = TRUE /\ InCall(call'[P])
          /\ call'[P].arg = [binding |-> call[P].arg, nonce |-> n]
      BY <2>1, <3>1, UnderWay DEF InCall
    <3>3. call[P].arg \in Binding
      BY <2>1 DEF ServiceInv, Operation
    <3>4. call'[P].arg.binding \in Binding /\ call'[P].arg.nonce \in Nonce
      BY <3>2, <3>3
    <3>5. OnlyProvider
      BY <2>1, <3>1, OperationFrame DEF Latches
    <3>6. Seals' /\ sealed' \in [Key -> [Nonce -> Nat]]
      BY <2>1 DEF ServiceInv, Seals, ServiceTypes, catalogVars, Holds
    <3> QED
      BY <2>1, <3>2, <3>4, <3>5, <3>6, WorksKeepsInv
  <2> QED
    BY <1>5, <2>2, <2>3 DEF ReserveNonce
<1>6. CASE Encrypt(P)
  <2> DEFINE k == call[P].seen.key
             n == call[P].arg.nonce
  <2>1. /\ call[P].op = "complete" /\ call[P].code = "ok" /\ call[P].worked = FALSE
        /\ UNCHANGED <<source, provider, prep, wrapped>>
        /\ sealed' = [sealed EXCEPT ![k][n] = @ + 1]
    BY <1>1, <1>6 DEF Encrypt, Op
  <2>2. PICK code : Worked(P, code)
    BY <1>6 DEF Encrypt
  <2>3. /\ n = task.nonce /\ n \in Nonce /\ k = provider[P].sentinel.key
        /\ task.step = "complete" /\ provider[P].path # None
    BY <2>1, UnderWay DEF ServiceInv, Operation, Draft
  <2>4. db.catalog # None /\ k = db.catalog.commitment /\ k \in Key
    BY <2>3 DEF ServiceInv, Serves, Sentinel
  <2>5. Holds(db, n, "profile") /\ sealed[k][n] = 0
    BY <2>1, <2>3, <2>4 DEF ServiceInv, Preparing, Fresh, Unspent
  <2>6. sealed \in [Key -> [Nonce -> Nat]]
    BY DEF ServiceInv, ServiceTypes
  <2>7. /\ sealed' \in [Key -> [Nonce -> Nat]]
        /\ \A j \in Key \ {k} : sealed'[j] = sealed[j]
        /\ \A m \in Nonce \ {n} : sealed'[k][m] = sealed[k][m]
        /\ sealed'[k][n] = 1
    BY <2>1, <2>3, <2>4, <2>5, <2>6
  <2>8. Seals'
    <3> HIDE DEF k, n
    <3>1. UNCHANGED db
      BY DEF catalogVars
    <3>2. ASSUME NEW j \in Key, NEW m \in Nonce
          PROVE  /\ sealed'[j][m] <= 1
                 /\ sealed'[j][m] # 0 =>
                       db.catalog # None /\ db.catalog.commitment = j /\ Holds(db, m, "profile")
      <4>1. CASE j = k /\ m = n
        BY <2>4, <2>5, <2>7, <4>1
      <4>2. CASE j # k \/ m # n
        <5>1. sealed'[j][m] = sealed[j][m]
          BY <2>7, <4>2
        <5> QED
          BY <5>1 DEF ServiceInv, Seals
      <4> QED
        BY <4>1, <4>2
    <3> QED
      BY <3>1, <3>2 DEF Seals, Holds
  <2>9. OnlyProvider
    BY <2>1, <2>2, WorkedCall, OperationFrame DEF Latches
  <2> HIDE DEF k, n
  <2> QED
    BY <2>1, <2>2, <2>7, <2>8, <2>9, WorkedCall, WorksKeepsInv
<1>7. CASE Decrypt(P)
  <2>1. /\ call[P].op \in {"unwrap", "status"} /\ call[P].code = "ok"
        /\ UNCHANGED <<source, provider, sealed, prep, wrapped>>
    BY <1>1, <1>7 DEF Decrypt, Op
  <2>2. PICK code : Worked(P, code)
    BY <1>7 DEF Decrypt
  <2> QED
    BY <2>1, <2>2, WorkedKeepsService DEF Latches
<1> QED
  BY <1>2, <1>3, <1>4, <1>5, <1>6, <1>7 DEF Work

\* An operation under way returns and changes only its provider.
LEMMA EndedKeepsService ==
    ASSUME ServiceInv, call[P].op # "none", NEW code, Return(P, code), Latches(P),
           code # "ok" \/ (provider' = provider /\ call[P].code = "ok"),
           UNCHANGED <<catalogVars, serviceVars, source, sealed, prep, wrapped>>
    PROVE  ServiceInv'
<1>1. call' = [p \in Provider |-> call'[p]]
  BY DEF Return, ServiceInv, ServiceTypes
<1>2. OnlyProvider
  BY <1>1, OperationFrame
<1>3. prep' \subseteq Draft /\ wrapped' \subseteq WrappedKey
  BY DEF ServiceInv, ServiceTypes
<1> QED
  BY <1>2, <1>3, ReturnedKeepsInv

\* The source is opened again and the operation returns.
LEMMA OperationEndKeepsInv ==
    ASSUME ServiceInv, End(P), UNCHANGED <<catalogVars, serviceVars>>
    PROVE  ServiceInv'
<1>0. P \in Provider /\ (\A op \in Op : op # "none")
  BY Composition DEF Op
<1>1. ASSUME RefuseLatched(P), call[P].op # "none",
             UNCHANGED <<source, sealed, prep, wrapped>>
      PROVE  ServiceInv'
  <2>1. Latches(P) /\ Return(P, "recovery_required")
    BY <1>1 DEF RefuseLatched, Latches, SourceStatus
  <2> QED
    BY <1>1, <2>1, EndedKeepsService
<1>2. ASSUME NEW op \in Op, Leaves(P, op)
      PROVE  /\ call[P].op # "none" /\ call[P].op = op /\ call[P].code = "ok"
             /\ call[P].worked = TRUE
  BY <1>0, <1>2, UnderWay DEF Leaves, InCall
<1>3. CASE LeaveChanged(P)
  <2>1. call[P].op # "none" /\ UNCHANGED <<source, sealed, prep, wrapped>>
    BY <1>0, <1>3 DEF LeaveChanged
  <2>2. PICK s \in OpenSource(provider[P].path) :
           LET code == Left(s, call[P].seen)
           IN  /\ code # "ok"
               /\ provider' = [provider EXCEPT ![P] = Latch(@, SourceStatusFor(code))]
               /\ Return(P, IF call[P].code = "ok" THEN code ELSE call[P].code)
    BY <1>3 DEF LeaveChanged
  <2>3. Latches(P)
    BY <2>2, StatusTypes DEF Latches
  <2>4. PICK code : code # "ok" /\ Return(P, code)
    BY <2>2
  <2> QED
    BY <2>1, <2>3, <2>4, EndedKeepsService
<1>4. CASE LeaveFailed(P)
  <2>1. /\ call[P].op # "none" /\ UNCHANGED <<source, sealed, prep, wrapped>>
        /\ call[P].code # "ok" /\ Return(P, call[P].code)
    BY <1>0, <1>4 DEF LeaveFailed
  <2>2. Latches(P)
    BY <1>4, StatusTypes DEF LeaveFailed, Latches
  <2> QED
    BY <2>1, <2>2, EndedKeepsService
<1>5. CASE SourceStatusEnd(P)
  <2>1. call[P].op # "none" /\ call[P].code = "ok"
    BY <1>2, <1>5 DEF SourceStatusEnd, Op
  <2> QED
    BY <1>5, <2>1, EndedKeepsService DEF SourceStatusEnd, Latches
<1>6. CASE ReadinessEnd(P)
  <2>1. /\ call[P].op # "none" /\ call[P].op = "readiness" /\ call[P].code = "ok"
        /\ call[P].worked = TRUE
        /\ UNCHANGED <<source, sealed, prep, wrapped>>
    BY <1>2, <1>6 DEF ReadinessEnd, Op
  <2>2. CASE /\ provider' = [provider EXCEPT ![P].wrap = call[P].seen.key, ![P].pin = call[P].seen]
             /\ Return(P, "ok")
    <3>1. call[P].seen \in Pin /\ call[P].seen.key \in Key
      BY <2>1, UnderWay DEF InCall, Pin
    <3>2. provider \in [Provider -> ProviderState]
      BY DEF ServiceInv, ServiceTypes
    <3>3. /\ provider' \in [Provider -> ProviderState]
          /\ provider'[P].path = provider[P].path /\ provider'[P].sentinel = provider[P].sentinel
          /\ provider'[P].pin = call[P].seen
      BY <1>0, <2>2, <3>1, <3>2 DEF ProviderState
    <3>4. call[P].seen.key = provider[P].sentinel.key
      BY <2>1 DEF ServiceInv, Operation
    <3>5. SameTask
      BY <2>1, UnderWay DEF ServiceInv, TaskOK, SameTask, serviceVars
    <3>6. call' = [p \in Provider |-> call'[p]]
      BY <2>2 DEF Return, ServiceInv, ServiceTypes
    <3>7. OnlyProvider
      BY <2>1, <3>3, <3>4, <3>5, <3>6, UnderWay DEF OnlyProvider, serviceVars
    <3>8. prep' \subseteq Draft /\ wrapped' \subseteq WrappedKey
      BY <2>1 DEF ServiceInv, ServiceTypes
    <3> QED
      BY <2>1, <2>2, <3>7, <3>8, ReturnedKeepsInv
  <2>3. ASSUME NEW code, code # "ok", Return(P, code),
               provider' = [provider EXCEPT ![P] = Latch(@, SourceStatusFor(code))]
        PROVE  ServiceInv'
    <3>1. Latches(P)
      BY <2>3, StatusTypes DEF Latches
    <3> QED
      BY <2>1, <2>3, <3>1, EndedKeepsService
  <2> QED
    BY <1>6, <2>2, <2>3 DEF ReadinessEnd
<1>7. CASE PrepareEnd(P)
  <2>1. /\ call[P].op # "none" /\ call[P].op = "prepare" /\ call[P].code = "ok"
        /\ call[P].worked = TRUE
        /\ UNCHANGED <<source, sealed, wrapped>>
    BY <1>2, <1>7 DEF PrepareEnd, Op
  <2> DEFINE r == NewPreparation(P, call[P].arg.binding, call[P].arg.nonce, provider[P].wrap)
  <2>2. CASE /\ prep' = prep \cup {r}
             /\ Return(P, "ok") /\ UNCHANGED provider
    <3>1. call[P].arg.binding \in Binding /\ call[P].arg.nonce \in Nonce
      BY <2>1 DEF ServiceInv, Operation
    <3>2. provider[P].wrap \in Key \cup {None}
      BY <1>0 DEF ServiceInv, ServiceTypes, ProviderState
    <3>3. r \in Draft
      BY <3>1, <3>2 DEF NewPreparation, Draft
    <3> HIDE DEF r
    <3>4. prep = {} /\ task.step = "prepare"
      BY <2>1, UnderWay DEF ServiceInv, Preparing
    <3>5. prep' = {r}
      BY <2>2, <3>4
    <3>6. prep' \subseteq Draft /\ \A x, y \in prep' : x.nonce = y.nonce
      BY <3>3, <3>5
    <3>7. call' = [p \in Provider |-> call'[p]]
      BY <2>2 DEF Return, ServiceInv, ServiceTypes
    <3>8. OnlyProvider
      BY <2>1, <2>2, <3>7, OperationFrame DEF Latches
    <3>9. wrapped' \subseteq WrappedKey
      BY <2>1 DEF ServiceInv, ServiceTypes
    <3> QED
      BY <2>1, <2>2, <3>4, <3>6, <3>8, <3>9, ReturnedKeepsInv
  <2> QED
    BY <1>1, <1>7, <2>1, <2>2 DEF PrepareEnd
<1>8. CASE CompleteEnd(P)
  <2>1. /\ call[P].op # "none" /\ call[P].op = "complete" /\ call[P].code = "ok"
        /\ UNCHANGED <<source, sealed, prep>>
    BY <1>2, <1>8 DEF CompleteEnd, Op
  <2> DEFINE w == [binding |-> call[P].arg.binding, nonce |-> call[P].arg.nonce,
                   key |-> call[P].seen.key]
  <2>2. CASE /\ wrapped' = wrapped \cup {w}
             /\ Return(P, "ok") /\ UNCHANGED provider
    <3>1. call[P].arg \in Draft /\ call[P].seen.key = provider[P].sentinel.key
      BY <2>1 DEF ServiceInv, Operation
    <3>2. call[P].seen.key \in Key
      BY <2>1, UnderWay DEF InCall, Pin
    <3>3. w \in WrappedKey /\ w.key = provider[P].sentinel.key
      BY <3>1, <3>2 DEF Draft, WrappedKey
    <3> HIDE DEF w
    <3>4. wrapped' \subseteq WrappedKey /\ prep' \subseteq Draft
      BY <2>1, <2>2, <3>3 DEF ServiceInv, ServiceTypes
    <3>5. call' = [p \in Provider |-> call'[p]]
      BY <2>2 DEF Return, ServiceInv, ServiceTypes
    <3>6. OnlyProvider
      BY <2>1, <2>2, <3>5, OperationFrame DEF Latches
    <3> QED
      BY <2>1, <2>2, <3>3, <3>4, <3>6, ReturnedKeepsInv
  <2> QED
    BY <1>1, <1>8, <2>1, <2>2 DEF CompleteEnd
<1>9. CASE UnwrapEnd(P)
  <2>1. /\ call[P].op # "none" /\ call[P].code = "ok"
        /\ UNCHANGED <<source, sealed, prep, wrapped>>
    BY <1>2, <1>9 DEF UnwrapEnd, Op
  <2>2. CASE Return(P, "ok") /\ UNCHANGED provider
    BY <2>1, <2>2, EndedKeepsService DEF Latches
  <2> QED
    BY <1>1, <1>9, <2>1, <2>2 DEF UnwrapEnd
<1> QED
  BY <1>3, <1>4, <1>5, <1>6, <1>7, <1>8, <1>9 DEF End

\* The step with which a call begins an operation.
CallBegins ==
    /\ provider[P].path # None /\ task.step \in Waits /\ task.waiting = FALSE
    /\ task' = [task EXCEPT !.waiting = TRUE]
    /\ UNCHANGED <<catalogVars, source, composed, granted, sentinelSeals, wrapped, sealed>>
    /\ prep' \subseteq Draft /\ \A r \in prep' : \E x \in prep : r.nonce = x.nonce

\* It is a step of the provider alone.
LEMMA CallBeginsFrame ==
    ASSUME ServiceInv, CallBegins, Latches(P), call' = [p \in Provider |-> call'[p]]
    PROVE  OnlyProvider
<1>1. task \in TaskType
  BY DEF ServiceInv, TaskOK
<1>2. SameTask
  BY <1>1 DEF CallBegins, SameTask, TaskType
<1>3. provider'[P].pin # None => provider'[P].pin.key = provider[P].sentinel.key
  BY LatchesProvider DEF ServiceInv, Serves
<1> QED
  BY <1>2, <1>3, LatchesProvider DEF CallBegins, OnlyProvider

\* The operation is refused.
LEMMA RefusedKeepsInv ==
    ASSUME ServiceInv, CallBegins, NEW code, code # "ok", Return(P, code), Latches(P)
    PROVE  ServiceInv'
<1>1. call' = [p \in Provider |-> call'[p]]
  BY DEF Return, ServiceInv, ServiceTypes
<1>2. OnlyProvider
  BY <1>1, CallBeginsFrame
<1>3. wrapped' \subseteq WrappedKey /\ wrapped' = wrapped
  BY DEF ServiceInv, ServiceTypes, CallBegins
<1> QED
  BY <1>2, <1>3, ReturnedKeepsInv DEF CallBegins

\* It opens the source.
LEMMA OpenedKeepsInv ==
    ASSUME ServiceInv, CallBegins, NEW arg, Enter(P, task.step, arg),
           task.step = "prepare" => arg \in Binding,
           task.step = "complete" =>
               arg \in Draft /\ arg.nonce = task.nonce /\ provider[P].pin # None
    PROVE  ServiceInv'
<1>1. /\ provider[P].path \in Path /\ source \in [Path -> Source]
      /\ provider \in [Provider -> ProviderState]
  BY Composition DEF ServiceInv, ServiceTypes, ProviderState, CallBegins
<1>2. PICK s \in OpenSource(provider[P].path) :
        LET code == Entered(s, provider[P].pin)
        IN  IF code = "ok"
            THEN /\ call' = [call EXCEPT ![P] =
                       [op |-> task.step, arg |-> arg, seen |-> s.pin,
                        code |-> "ok", worked |-> FALSE]]
                 /\ UNCHANGED provider
            ELSE /\ Return(P, code)
                 /\ provider' = [provider EXCEPT ![P] = Refused(@, s, @.pin)]
  BY DEF Enter
<1>3. CASE Entered(s, provider[P].pin) = "ok"
  <2>1. s.code = "ok" /\ (provider[P].pin # None => s.pin = provider[P].pin)
    BY <1>3 DEF Entered
  <2>2. s.pin \in Pin
    BY <1>1, <2>1 DEF OpenSource, Source, Pin
  <2>3. call' = [call EXCEPT ![P] = NewCall(task.step, arg, s.pin)] /\ UNCHANGED provider
    BY <1>2, <1>3 DEF NewCall
  <2>4. call' = [p \in Provider |-> call'[p]]
    BY <2>3 DEF ServiceInv, ServiceTypes
  <2>5. OnlyProvider
    BY <2>3, <2>4, CallBeginsFrame DEF Latches
  <2>6. task.step = "complete" => s.pin.key = provider[P].sentinel.key
    BY <2>1 DEF ServiceInv, Serves
  <2> QED
    BY <2>2, <2>3, <2>5, <2>6, BeganKeepsInv DEF CallBegins
<1>4. CASE Entered(s, provider[P].pin) # "ok"
  <2>1. PICK st \in SourceStatus : Refused(provider[P], s, provider[P].pin) = Latch(provider[P], st)
    BY StatusTypes DEF Refused
  <2>2. provider' = [provider EXCEPT ![P] = Latch(@, st)]
    BY <1>1, <1>2, <1>4, <2>1
  <2> QED
    BY <1>2, <1>4, <2>2, RefusedKeepsInv DEF Latches
<1> QED
  BY <1>3, <1>4

\* _require_ready refuses.
LEMMA UnreadyKeepsInv ==
    ASSUME ServiceInv, CallBegins, RefuseUnready(P)
    PROVE  ServiceInv'
<1>1. Latches(P)
  BY DEF RefuseUnready, Latches, SourceStatus
<1> QED
  BY <1>1, RefusedKeepsInv DEF RefuseUnready

\* A provider that is ready has a pin.
LEMMA ReadyPinned ==
    ASSUME ServiceInv, NotReady(P) = "ok"
    PROVE  provider[P].pin # None
<1>1. provider[P].latched \in BOOLEAN
  BY Composition DEF ServiceInv, ServiceTypes, ProviderState
<1> QED
  BY <1>1 DEF NotReady

\* The service begins an operation of its provider.
LEMMA CallProviderKeepsInv ==
    ASSUME ServiceInv, CallProvider
    PROVE  ServiceInv'
<1>0. P \in Provider
  BY Composition
<1>1. /\ task.waiting = FALSE
      /\ task' = [task EXCEPT !.waiting = TRUE]
      /\ UNCHANGED <<catalogVars, composed, granted, sentinelSeals>>
  BY DEF CallProvider, ServiceInv, TaskOK, TaskType
<1>2. prep \subseteq Draft
  BY DEF ServiceInv, ServiceTypes
<1>3. CASE task.step = "readiness" /\ ReadinessBegin(P)
  <2>1. CallBegins
    BY <1>1, <1>2, <1>3 DEF CallBegins, ReadinessBegin, Live, Waits
  <2>2. provider[P].latched \in BOOLEAN
    BY <1>0 DEF ServiceInv, ServiceTypes, ProviderState
  <2>3. CASE provider[P].latched = TRUE
    BY <1>3, <2>1, <2>3, RefusedKeepsInv DEF ReadinessBegin, Latches
  <2>4. CASE provider[P].latched = FALSE
    BY <1>3, <2>1, <2>4, OpenedKeepsInv DEF ReadinessBegin
  <2> QED
    BY <2>2, <2>3, <2>4
<1>4. CASE task.step = "prepare" /\ PrepareBegin(P, task.binding)
  <2>1. CallBegins
    BY <1>1, <1>2, <1>4 DEF CallBegins, PrepareBegin, Live, Waits
  <2>2. task.binding \in Binding
    <3>1. task.op = "create"
      BY <1>4 DEF ServiceInv, TaskOK, Steps, TaskType, Calls, Composing, Reconciling
    <3> QED
      BY <3>1 DEF ServiceInv, TaskOK
  <2> QED
    BY <1>4, <2>1, <2>2, UnreadyKeepsInv, ReadyPinned, OpenedKeepsInv DEF PrepareBegin
<1>5. ASSUME NEW r \in prep, task.step = "complete", CompleteBegin(P, r)
      PROVE  ServiceInv'
  <2>1. r \in Draft /\ r.nonce = task.nonce
    BY <1>2, <1>5 DEF ServiceInv, Preparing
  <2>2. /\ [r EXCEPT !.completing = FALSE] \in Draft
        /\ [r EXCEPT !.completing = FALSE].nonce = r.nonce
    BY <2>1 DEF Draft
  <2>3. prep' \subseteq Draft /\ \A x \in prep' : \E y \in prep : x.nonce = y.nonce
    BY <1>2, <1>5, <2>2 DEF CompleteBegin
  <2>4. provider[P].path # None
    BY <1>5 DEF ServiceInv, Serves
  <2>5. CallBegins
    BY <1>1, <1>5, <2>3, <2>4 DEF CallBegins, CompleteBegin, Waits
  <2>6. CASE Return(P, "unavailable") /\ UNCHANGED provider
    BY <2>5, <2>6, RefusedKeepsInv DEF Latches
  <2> QED
    BY <1>5, <2>1, <2>5, <2>6, UnreadyKeepsInv, ReadyPinned, OpenedKeepsInv DEF CompleteBegin
<1>6. ASSUME NEW w, NEW h, task.step = "unwrap", UnwrapBegin(P, w, h)
      PROVE  ServiceInv'
  <2>1. CallBegins
    BY <1>1, <1>2, <1>6 DEF CallBegins, UnwrapBegin, Live, Waits
  <2> QED
    BY <1>6, <2>1, UnreadyKeepsInv, ReadyPinned, OpenedKeepsInv DEF UnwrapBegin
<1> QED
  BY <1>3, <1>4, <1>5, <1>6 DEF CallProvider

-----------------------------------------------------------------------------
(* The steps of a call between two operations.                             *)

\* A call that is between two operations can act on the catalog.
LEMMA RunningTask ==
    ASSUME ServiceInv, NEW step, Running(step), step # "none"
    PROVE  /\ task \in TaskType /\ task.step = step /\ task.waiting = FALSE /\ call[P].op = "none"
           /\ step \in Steps(task.op) /\ task.op \in Calls \ {"none"} /\ Ready /\ runtime # "down"
<1>1. /\ task \in TaskType /\ task.step = step /\ task.waiting = FALSE
      /\ step \in Steps(task.op)
  BY DEF ServiceInv, TaskOK, Running, TaskType
<1>2. task.op \in Calls \ {"none"}
  BY <1>1 DEF Steps, TaskType
<1>3. runtime # "down"
  BY <1>2 DEF ServiceInv, Process, NoTask
<1>4. Ready
  BY <1>3 DEF ServiceInv, ServiceTypes, Process, Ready
<1>5. call[P].op = "none"
  BY <1>1 DEF ServiceInv, Serves
<1> QED
  BY <1>1, <1>2, <1>3, <1>4, <1>5

\* A step that leaves the catalog alone.
LEMMA StillMoves ==
    ASSUME Ready, runtime # "down", UNCHANGED catalogVars
    PROVE  Moves /\ db' = db
BY GrowsReflexive DEF Ready, Moves, catalogVars

\* The parts of the invariant about the past hold of the tables that have grown.
LEMMA GrowthKeeps ==
    ASSUME ServiceInv, Moves
    PROVE  /\ \A k \in Key, n \in Nonce : sealed[k][n] # 0 =>
                 db'.catalog # None /\ db'.catalog.commitment = k /\ Holds(db', n, "profile")
           /\ \A x \in sentinelSeals :
                 db'.catalog # None /\ db'.catalog.commitment = x.key /\ Holds(db', x.nonce, "sentinel")
           /\ \A w \in wrapped : db'.catalog # None /\ w.key = db'.catalog.commitment
           /\ \A w \in granted : Stored(db', w)
           /\ provider[P].path # None =>
                 /\ db'.catalog # None /\ db'.sentinel # None
                 /\ provider[P].sentinel.key = db'.catalog.commitment
<1>1. Grows(db, db')
  BY DEF Moves
<1>2. /\ \A n, purpose : Holds(db, n, purpose) => Holds(db', n, purpose)
      /\ \A w : Stored(db, w) => Stored(db', w)
  BY <1>1, GrowsKeeps
<1>3. db.catalog # None => db'.catalog # None /\ db'.catalog.commitment = db.catalog.commitment
  BY <1>1 DEF Grows
<1>4. db.sentinel # None => db'.sentinel # None
  BY <1>1 DEF Grows
<1>5. \A k \in Key, n \in Nonce : sealed[k][n] # 0 =>
        db'.catalog # None /\ db'.catalog.commitment = k /\ Holds(db', n, "profile")
  BY <1>2, <1>3 DEF ServiceInv, Seals
<1>6. /\ \A x \in sentinelSeals :
           db'.catalog # None /\ db'.catalog.commitment = x.key /\ Holds(db', x.nonce, "sentinel")
      /\ \A w \in wrapped : db'.catalog # None /\ w.key = db'.catalog.commitment
      /\ \A w \in granted : Stored(db', w)
  BY <1>2, <1>3 DEF ServiceInv, History
<1> QED
  BY <1>3, <1>4, <1>5, <1>6 DEF ServiceInv, Serves

\* The call ends.
Ends == task' = NoTask /\ DropLocals /\ UNCHANGED <<composed, sentinelSeals>>

\* What a call drops when it ends: its preparation, and a provider without a service.
LEMMA DropLocalsDrops ==
    ASSUME ServiceInv, DropLocals
    PROVE  /\ UNCHANGED <<source, call, sealed>> /\ prep' = {} /\ wrapped' \subseteq wrapped
           /\ \/ provider' = [provider EXCEPT ![P] = NoProvider]
              \/ provider' = provider /\ (provider[P].path = None \/ composed = TRUE)
<1>1. composed \in BOOLEAN /\ prep \subseteq Draft
  BY DEF ServiceInv, ServiceTypes
<1>2. CASE Live(P) /\ composed = FALSE
  <2>1. Drop(P)
    BY <1>2 DEF DropLocals
  <2>2. \A r \in prep : r.owner = P
    BY <1>1 DEF Draft
  <2> QED
    BY <2>1, <2>2 DEF Drop
<1>3. CASE ~(Live(P) /\ composed = FALSE)
  <2>1. prep' = {} /\ wrapped' = {} /\ UNCHANGED <<source, domain, provider, call, handle, sealed>>
    BY <1>1, <1>3 DEF DropLocals
  <2> QED
    BY <1>1, <1>3, <2>1 DEF Live
<1> QED
  BY <1>2, <1>3

\* A call that ends, with a result or without.
LEMMA EndsKeepsInv ==
    ASSUME ServiceInv, Moves, Ends, call[P].op = "none",
           granted' \subseteq WrappedKey, \A w \in granted' : Stored(db', w)
    PROVE  ServiceInv'
<1>1. /\ UNCHANGED <<source, call, sealed, composed, sentinelSeals>>
      /\ prep' = {} /\ wrapped' \subseteq wrapped
      /\ \/ provider' = [provider EXCEPT ![P] = NoProvider]
         \/ provider' = provider /\ (provider[P].path = None \/ composed = TRUE)
      /\ task' = NoTask
  BY DropLocalsDrops DEF Ends
<1>2. /\ task'.op = "none" /\ task'.step = "none" /\ task'.waiting = FALSE
      /\ task' \in TaskType /\ task'.step \in Steps(task'.op)
  BY <1>1 DEF NoTask, TaskType, Steps, Calls
<1>3. provider \in [Provider -> ProviderState] /\ NoProvider \in ProviderState
  BY DEF ServiceInv, ServiceTypes, NoProvider, ProviderState, SourceStatus
<1>4. /\ provider' \in [Provider -> ProviderState]
      /\ provider'[P] = NoProvider \/ (provider'[P] = provider[P] /\ composed = TRUE)
  BY <1>1, <1>3, Composition DEF ServiceInv, Serves
<1>5. ServiceTypes'
  BY <1>1, <1>4 DEF ServiceInv, ServiceTypes, Moves
<1>6. Tables(db)' /\ Process'
  BY DEF Moves, Process
<1>7. TaskOK'
  BY <1>1, <1>2 DEF TaskOK, Reconciling
<1>8. Serves'
  <2>1. NoProvider.path = None /\ NoProvider.pin = None
    BY DEF NoProvider
  <2> QED
    BY <1>1, <1>2, <1>4, <2>1, GrowthKeeps DEF ServiceInv, Serves
<1>9. Operation'
  BY <1>1 DEF Operation
<1>10. Preparing' /\ Fresh'
  BY <1>1, <1>2 DEF Preparing, Fresh, Unspent, Creating
<1>11. Seals' /\ History'
  BY <1>1, GrowthKeeps DEF ServiceInv, Seals, History
<1> QED
  BY <1>5, <1>6, <1>7, <1>8, <1>9, <1>10, <1>11 DEF ServiceInv

\* An error is raised and the call ends.
LEMMA GiveUpKeepsInv ==
    ASSUME ServiceInv, Moves, EndCall, call[P].op = "none"
    PROVE  ServiceInv'
<1>1. Ends /\ granted' = granted
  BY DEF EndCall, Ends
<1>2. granted' \subseteq WrappedKey
  BY <1>1 DEF ServiceInv, ServiceTypes
<1>3. \A w \in granted' : Stored(db', w)
  BY <1>1, GrowthKeeps
<1> QED
  BY <1>1, <1>2, <1>3, EndsKeepsInv

\* The call goes on.
GoesOn ==
    /\ task' \in TaskType /\ task'.waiting = FALSE
    /\ UNCHANGED <<source, provider, call, sealed, wrapped, granted>>
    /\ prep' \subseteq Draft /\ composed' \in BOOLEAN

\* The parts of the invariant that a step within a call cannot disturb.
LEMMA GoesOnKeepsInv ==
    ASSUME ServiceInv, Moves, GoesOn, TaskOK', Preparing', Fresh', call[P].op = "none",
           provider[P].path = None => prep' = {},
           \A x \in sentinelSeals' : x \in sentinelSeals \/
              (/\ x \in [key : Key, nonce : Nonce]
               /\ db'.catalog # None /\ db'.catalog.commitment = x.key
               /\ Holds(db', x.nonce, "sentinel"))
    PROVE  ServiceInv'
<1>1. /\ UNCHANGED <<source, provider, call, sealed, wrapped, granted>>
      /\ prep' \subseteq Draft /\ composed' \in BOOLEAN /\ task'.waiting = FALSE
  BY DEF GoesOn
<1>2. sentinelSeals' \subseteq [key : Key, nonce : Nonce]
  BY DEF ServiceInv, ServiceTypes
<1>3. ServiceTypes'
  BY <1>1, <1>2 DEF ServiceInv, ServiceTypes, Moves
<1>4. Tables(db)' /\ Process'
  BY DEF Moves, Process
<1>5. Serves'
  BY <1>1, GrowthKeeps DEF ServiceInv, Serves
<1>6. Operation'
  BY <1>1 DEF Operation
<1>7. Seals' /\ History'
  BY <1>1, GrowthKeeps DEF ServiceInv, Seals, History
<1> QED
  BY <1>3, <1>4, <1>5, <1>6, <1>7 DEF ServiceInv

\* The task after a step of its script that sets what t sets.
LEMMA ProceedsTo ==
    ASSUME NEW t \in TaskType, t.op = task.op, NEW st, After(task.op, task.step) = st,
           st \in Steps(task.op), Proceed(t)
    PROVE  /\ task' \in TaskType /\ task'.waiting = FALSE /\ task'.step = st
           /\ task'.op = task.op /\ task'.binding = t.binding /\ task'.nonce = t.nonce
           /\ task'.seq = t.seq /\ task'.key = t.key /\ task'.pin = t.pin
<1>1. st \in UNION {Steps(op) : op \in Calls}
  BY DEF TaskType
<1>2. task' = [t EXCEPT !.step = st, !.waiting = FALSE]
  BY DEF Proceed
<1> QED
  BY <1>1, <1>2 DEF TaskType

\* The call goes on to a step that holds no preparation.
LEMMA PlainKeepsInv ==
    ASSUME ServiceInv, NEW step, Running(step), step \notin Creating \cup {"none", "recover"}, Moves,
           task' \in TaskType, task'.waiting = FALSE, task'.op = task.op, task'.binding = task.binding,
           task'.step \in Steps(task.op) \ (Creating \cup {"none", "recover"}),
           UNCHANGED <<providerVars, composed, granted>>,
           task'.step = "begin" => task'.nonce \in Nonce /\ task'.key \in Key,
           task'.step \in {"seal", "reseal", "finish"} =>
               /\ db'.catalog # None /\ task'.key = db'.catalog.commitment
               /\ task'.nonce \in Nonce /\ Holds(db', task'.nonce, "sentinel"),
           task'.step \in {"reseal", "finish"} => task'.pin # None /\ task'.pin.key = task'.key,
           task'.step = "construct" => db'.catalog # None /\ db'.sentinel # None,
           \A x \in sentinelSeals' : x \in sentinelSeals \/
              (/\ x \in [key : Key, nonce : Nonce]
               /\ db'.catalog # None /\ db'.catalog.commitment = x.key
               /\ Holds(db', x.nonce, "sentinel"))
    PROVE  ServiceInv'
<1>1. /\ task.step = step /\ call[P].op = "none" /\ task.op \in Calls \ {"none"}
  BY RunningTask
<1>2. GoesOn /\ UNCHANGED prep
  BY DEF GoesOn, providerVars, ServiceInv, ServiceTypes
<1>3. TaskOK'
  BY <1>1 DEF ServiceInv, TaskOK
<1>4. prep' = {}
  BY <1>1, <1>2 DEF ServiceInv, Preparing
<1>5. Preparing' /\ Fresh'
  BY <1>4 DEF Preparing, Fresh, Unspent, Creating
<1> QED
  BY <1>1, <1>2, <1>3, <1>4, <1>5, GoesOnKeepsInv

\* The call raises an error between two operations.
LEMMA RaisesKeepsInv ==
    ASSUME ServiceInv, NEW step, Running(step), step # "none", Moves, GiveUp
    PROVE  ServiceInv'
<1>1. call[P].op = "none"
  BY RunningTask
<1> QED
  BY <1>1, GiveUpKeepsInv DEF GiveUp

\* What a catalog that can be loaded has.
LEMMA LoadedTables ==
    ASSUME NEW d, Tables(d), LoadSnapshot(d) = "ok"
    PROVE  /\ d.catalog # None /\ d.catalog.commitment \in Key
           /\ SentinelReservation(d) \in d.ledger /\ SentinelReservation(d).nonce \in Nonce
           /\ Holds(d, SentinelReservation(d).nonce, "sentinel")
           /\ d.catalog.state # "preparing" => d.sentinel # None
<1>1. d.catalog # None
  BY DEF LoadSnapshot
<1>2. /\ d.catalog \in CatalogRow /\ d.ledger \subseteq Reservation
      /\ ValidateLedger(d) /\ ValidateSentinel(d)
  BY <1>1, Initialized
<1>3. \E r \in d.ledger : r.purpose = "sentinel"
  BY <1>2 DEF ValidateLedger
<1>4. SentinelReservation(d) \in d.ledger /\ SentinelReservation(d).purpose = "sentinel"
  BY <1>3 DEF SentinelReservation
<1> HIDE DEF SentinelReservation
<1>5. d.catalog.commitment \in Key /\ SentinelReservation(d).nonce \in Nonce
  BY <1>2, <1>4 DEF CatalogRow, Reservation
<1>6. Holds(d, SentinelReservation(d).nonce, "sentinel")
  BY <1>4 DEF Holds
<1>7. d.catalog.state # "preparing" => d.sentinel # None
  BY <1>2 DEF ValidateSentinel
<1> QED
  BY <1>1, <1>4, <1>5, <1>6, <1>7

\* load_catalog: an active catalog has the sentinel that the provider is built with.
LEMMA LoadCatalogKeepsInv ==
    ASSUME ServiceInv, LoadCatalog
    PROVE  ServiceInv'
<1>1. Running("load")
  BY DEF LoadCatalog
<1>2. /\ task \in TaskType /\ task.step = "load" /\ "load" \in Steps(task.op)
      /\ task.op \in Calls \ {"none"} /\ Ready /\ runtime # "down"
  BY <1>1, RunningTask
<1>3. PICK code :
        /\ Read(LoadedFor(task.op), code) \/ ReconciliationRead(LoadedFor(task.op), code)
        /\ Answer(code)
  BY DEF LoadCatalog
<1>4. Moves /\ db' = db /\ (code = "ok" => LoadedFor(task.op) = "ok")
  BY <1>2, <1>3, ReadMoves
<1>5. CASE GiveUp
  BY <1>1, <1>4, <1>5, RaisesKeepsInv
<1>6. CASE code = "ok" /\ Proceed(task) /\ Quiet
  <2>1. /\ Tables(db) /\ LoadSnapshot(db) = "ok" /\ db.catalog.state = Required(task.op)
    BY <1>4, <1>6 DEF LoadedFor, ServiceInv
  <2>2. task.op \in {"compose", "resume", "reconcile_initialization", "reconcile_profile_key",
                     "create", "open"}
    BY <1>2 DEF Steps, Calls, Composing, Reconciling
  <2> DEFINE st == After(task.op, task.step)
  <2>3. /\ st \in Steps(task.op) /\ st \in {"construct", "record", "readiness"}
        /\ st = "construct" => task.op \in {"compose", "reconcile_profile_key"}
    BY <1>2, <2>2, AfterSteps DEF Steps
  <2>4. st = After(task.op, task.step)
    OBVIOUS
  <2> HIDE DEF st
  <2>5. /\ task' \in TaskType /\ task'.waiting = FALSE /\ task'.step = st
        /\ task'.op = task.op /\ task'.binding = task.binding
    BY <1>2, <1>6, <2>3, <2>4, ProceedsTo
  <2>6. st = "construct" => db.catalog # None /\ db.sentinel # None
    <3>1. st = "construct" => db.catalog.state = "active"
      BY <2>1, <2>3 DEF Required
    <3> QED
      BY <2>1, <3>1, LoadedTables
  <2>7. UNCHANGED <<providerVars, composed, granted, sentinelSeals>>
    BY <1>6 DEF Quiet
  <2>8. st \notin Creating \cup {"none", "recover", "begin", "seal", "reseal", "finish"}
        /\ "load" \notin Creating \cup {"none", "recover"}
    BY <2>3 DEF Creating
  <2> QED
    BY <1>1, <1>4, <2>3, <2>5, <2>6, <2>7, <2>8, PlainKeepsInv
<1> QED
  BY <1>3, <1>5, <1>6 DEF Answer

\* load_initialization: the nonce in hand is the one in the ledger.
LEMMA LoadRecordKeepsInv ==
    ASSUME ServiceInv, LoadRecord
    PROVE  ServiceInv'
<1>1. Running("record")
  BY DEF LoadRecord
<1>2. /\ task \in TaskType /\ task.step = "record" /\ "record" \in Steps(task.op)
      /\ task.op \in Calls \ {"none"} /\ Ready /\ runtime # "down"
  BY <1>1, RunningTask
<1> DEFINE loaded == LoadInitialization(db)
           t == [task EXCEPT !.seq = 1, !.nonce = SentinelReservation(db).nonce,
                             !.key = db.catalog.commitment]
<1>3. PICK code :
        /\ Read(loaded, code) \/ ReconciliationRead(loaded, code)
        /\ (code = "ok" /\ Quiet /\ Proceed(t)) \/ (code # "ok" /\ GiveUp)
  BY DEF LoadRecord
<1>4. Moves /\ db' = db /\ (code = "ok" => loaded = "ok")
  <2> HIDE DEF loaded
  <2> QED
    BY <1>2, <1>3, ReadMoves
<1>5. CASE GiveUp
  BY <1>1, <1>4, <1>5, RaisesKeepsInv
<1>6. CASE code = "ok" /\ Quiet /\ Proceed(t)
  <2>1. Tables(db) /\ LoadSnapshot(db) = "ok"
    BY <1>4, <1>6 DEF LoadInitialization, ServiceInv
  <2>2. /\ db.catalog # None /\ db.catalog.commitment \in Key
        /\ SentinelReservation(db).nonce \in Nonce
        /\ Holds(db, SentinelReservation(db).nonce, "sentinel")
    BY <2>1, LoadedTables
  <2>3. task.op \in {"resume", "reconcile_initialization"}
    BY <1>2 DEF Steps, Creating, Calls, Composing, Reconciling
  <2>4. After(task.op, task.step) = "seal" /\ "seal" \in Steps(task.op)
    BY <1>2, <2>3, AfterSteps DEF Steps
  <2>5. /\ t \in TaskType /\ t.op = task.op /\ t.nonce = SentinelReservation(db).nonce
        /\ t.key = db.catalog.commitment /\ t.binding = task.binding
    BY <1>2, <2>2 DEF TaskType
  <2>6. Proceed(t)
    BY <1>6
  <2> HIDE DEF t
  <2>7. /\ task' \in TaskType /\ task'.waiting = FALSE /\ task'.step = "seal"
        /\ task'.op = task.op /\ task'.binding = task.binding
        /\ task'.nonce = SentinelReservation(db).nonce /\ task'.key = db.catalog.commitment
    BY <2>4, <2>5, <2>6, ProceedsTo
  <2>8. UNCHANGED <<providerVars, composed, granted, sentinelSeals>>
    BY <1>6 DEF Quiet
  <2>9. {"seal", "record"} \cap (Creating \cup {"none", "recover"}) = {}
    BY DEF Creating
  <2> QED
    BY <1>1, <1>4, <2>2, <2>4, <2>7, <2>8, <2>9, PlainKeepsInv
<1> QED
  BY <1>3, <1>5, <1>6

\* begin_initialization: the nonce and the commitment in hand are in the tables.
LEMMA BeginCatalogKeepsInv ==
    ASSUME ServiceInv, BeginCatalog
    PROVE  ServiceInv'
<1>1. Running("begin")
  BY DEF BeginCatalog
<1>2. /\ task \in TaskType /\ task.step = "begin" /\ "begin" \in Steps(task.op)
      /\ task.op \in Calls \ {"none"} /\ Ready /\ runtime # "down"
  BY <1>1, RunningTask
<1> DEFINE b == BeginInitialization(db, task.nonce, task.key)
           t == [task EXCEPT !.seq = 1]
<1>3. PICK code :
        /\ Transact(b, code)
        /\ (code = "ok" /\ Proceed(t) /\ Quiet) \/ (code # "ok" /\ GiveUp)
  BY DEF BeginCatalog
<1>4. task.nonce \in Nonce /\ task.key \in Key
  BY <1>2 DEF ServiceInv, TaskOK
<1>5. b.code = "ok" =>
        /\ Tables(b.tables) /\ Grows(db, b.tables)
        /\ b.tables.catalog # None /\ b.tables.catalog.commitment = task.key
        /\ Holds(b.tables, task.nonce, "sentinel")
  BY <1>4, BeginTables DEF ServiceInv
<1>6. Moves /\ (code = "ok" => b.code = "ok" /\ db' = b.tables)
  <2> HIDE DEF b
  <2> QED
    BY <1>2, <1>3, <1>5, TransactMoves
<1>7. CASE GiveUp
  BY <1>1, <1>6, <1>7, RaisesKeepsInv
<1>8. CASE code = "ok" /\ Proceed(t) /\ Quiet
  <2>1. task.op = "initialize"
    BY <1>2 DEF Steps, Creating, Calls, Composing, Reconciling
  <2>2. After(task.op, task.step) = "seal" /\ "seal" \in Steps(task.op)
    BY <1>2, <2>1, AfterSteps DEF Steps
  <2>3. /\ t \in TaskType /\ t.op = task.op /\ t.nonce = task.nonce
        /\ t.key = task.key /\ t.binding = task.binding
    BY <1>2 DEF TaskType
  <2>4. Proceed(t)
    BY <1>8
  <2> HIDE DEF t, b
  <2>5. /\ task' \in TaskType /\ task'.waiting = FALSE /\ task'.step = "seal"
        /\ task'.op = task.op /\ task'.binding = task.binding
        /\ task'.nonce = task.nonce /\ task'.key = task.key
    BY <2>2, <2>3, <2>4, ProceedsTo
  <2>6. UNCHANGED <<providerVars, composed, granted, sentinelSeals>>
    BY <1>8 DEF Quiet
  <2>7. {"seal", "begin"} \cap (Creating \cup {"none", "recover"}) = {}
    BY DEF Creating
  <2>8. /\ db'.catalog # None /\ task'.key = db'.catalog.commitment
        /\ task'.nonce \in Nonce /\ Holds(db', task'.nonce, "sentinel")
    BY <1>4, <1>5, <1>6, <1>8, <2>5
  <2> QED
    BY <1>1, <1>6, <2>2, <2>5, <2>6, <2>7, <2>8, PlainKeepsInv
<1> QED
  BY <1>3, <1>7, <1>8

\* finish_initialization: the sentinel stored is under the committed key.
LEMMA FinishCatalogKeepsInv ==
    ASSUME ServiceInv, FinishCatalog
    PROVE  ServiceInv'
<1>1. Running("finish")
  BY DEF FinishCatalog
<1>2. /\ task \in TaskType /\ task.step = "finish" /\ call[P].op = "none"
      /\ task.op \in Calls \ {"none"} /\ Ready /\ runtime # "down"
  BY <1>1, RunningTask
<1> DEFINE s == [install |-> Install, nonce |-> task.nonce, key |-> task.pin.key]
           t == FinishInitialization(db, task.seq, s)
<1>3. PICK code :
        /\ Transact(t, code) \/ ReconciliationFinish(t, code)
        /\ \/ /\ code = "ok" /\ task.op \notin Reconciling
              /\ task' = [NoTask EXCEPT !.op = "compose", !.step = "load"] /\ Quiet
           \/ GiveUp
  BY DEF FinishCatalog
<1>4. s.key = db.catalog.commitment
  BY <1>2 DEF ServiceInv, TaskOK
<1>5. t.code = "ok" => Tables(t.tables) /\ Grows(db, t.tables)
  <2> HIDE DEF s
  <2> QED
    BY <1>4, FinishTables DEF ServiceInv
<1> HIDE DEF t
<1>6. Moves
  BY <1>2, <1>3, <1>5, TransactMoves
<1>7. CASE GiveUp
  BY <1>1, <1>6, <1>7, RaisesKeepsInv
<1>8. CASE task' = [NoTask EXCEPT !.op = "compose", !.step = "load"] /\ Quiet
  <2>1. task'.op = "compose" /\ task'.step = "load" /\ task'.waiting = FALSE
    BY <1>8 DEF NoTask
  <2>2. task'.step \in Steps(task'.op) /\ task'.op \in Calls
    BY <2>1 DEF Steps, Calls, Composing
  <2>3. task' \in TaskType
    <3>1. /\ task'.step \in UNION {Steps(op) : op \in Calls}
          /\ task'.op \in Calls
      BY <2>2
    <3> QED
      BY <1>8, <3>1 DEF NoTask, TaskType
  <2>4. UNCHANGED <<providerVars, composed, granted, sentinelSeals>>
    BY <1>8 DEF Quiet
  <2>5. GoesOn /\ UNCHANGED prep
    BY <2>1, <2>3, <2>4 DEF GoesOn, providerVars, ServiceInv, ServiceTypes
  <2>6. TaskOK'
    BY <2>1, <2>2, <2>3 DEF TaskOK, Reconciling
  <2>7. prep' = {}
    BY <1>2, <2>5 DEF ServiceInv, Preparing, Creating
  <2>8. Preparing' /\ Fresh'
    BY <2>1, <2>7 DEF Preparing, Fresh, Unspent, Creating
  <2> QED
    BY <1>2, <1>6, <2>4, <2>5, <2>6, <2>7, <2>8, GoesOnKeepsInv
<1> QED
  BY <1>3, <1>7, <1>8

\* The nonce that is reserved was new to the ledger, so nothing was encrypted under it.
LEMMA ReserveCatalogKeepsInv ==
    ASSUME ServiceInv, ReserveCatalog
    PROVE  ServiceInv'
<1>1. Running("reserve")
  BY DEF ReserveCatalog
<1>2. /\ task \in TaskType /\ task.step = "reserve" /\ "reserve" \in Steps(task.op)
      /\ call[P].op = "none" /\ task.op \in Calls \ {"none"} /\ Ready /\ runtime # "down"
  BY <1>1, RunningTask
<1>3. task.op = "create"
  BY <1>2 DEF Steps, Calls, Composing, Reconciling
<1>4. /\ task.binding \in Binding /\ task.nonce \in Nonce
      /\ \A r \in prep : r.nonce = task.nonce
  BY <1>2, <1>3 DEF ServiceInv, TaskOK, Preparing
<1> DEFINE b == ReserveProfilePreparation(db, task.binding, task.nonce)
           t == [task EXCEPT !.seq = db'.catalog.used]
<1>5. PICK code :
        /\ Transact(b, code)
        /\ (code = "ok" /\ Proceed(t) /\ Quiet) \/ (code # "ok" /\ GiveUp)
  BY DEF ReserveCatalog
<1>6. b.code = "ok" =>
        /\ Tables(b.tables) /\ Grows(db, b.tables)
        /\ b.tables.catalog.used \in Nat /\ Holds(b.tables, task.nonce, "profile")
        /\ \A r \in db.ledger : r.nonce # task.nonce
  BY <1>4, ReserveTables DEF ServiceInv
<1> HIDE DEF b
<1>7. Moves /\ (code = "ok" => b.code = "ok" /\ db' = b.tables)
  BY <1>2, <1>5, <1>6, TransactMoves
<1>8. CASE GiveUp
  BY <1>1, <1>7, <1>8, RaisesKeepsInv
<1>9. CASE code = "ok" /\ Proceed(t) /\ Quiet
  <2>1. After(task.op, task.step) = "consume" /\ "consume" \in Steps(task.op)
    BY <1>2, <1>3, AfterSteps DEF Steps, Creating
  <2>2. db'.catalog.used \in Nat /\ Holds(db', task.nonce, "profile")
    BY <1>6, <1>7, <1>9
  <2>3. /\ t \in TaskType /\ t.op = task.op /\ t.nonce = task.nonce /\ t.binding = task.binding
    BY <1>2, <2>2 DEF TaskType
  <2>4. Proceed(t)
    BY <1>9
  <2> HIDE DEF t
  <2>5. /\ task' \in TaskType /\ task'.waiting = FALSE /\ task'.step = "consume"
        /\ task'.op = "create" /\ task'.binding = task.binding /\ task'.nonce = task.nonce
    BY <1>3, <2>1, <2>3, <2>4, ProceedsTo
  <2>6. UNCHANGED <<providerVars, composed, granted, sentinelSeals>>
    BY <1>9 DEF Quiet
  <2>7. GoesOn /\ UNCHANGED <<prep, sealed>>
    BY <2>5, <2>6 DEF GoesOn, providerVars, ServiceInv, ServiceTypes
  <2>8. TaskOK'
    BY <1>3, <1>4, <2>1, <2>5 DEF TaskOK, Reconciling
  <2>9. Preparing'
    BY <1>4, <2>2, <2>5, <2>7 DEF Preparing, Creating
  <2>10. Fresh'
    <3>1. ~Holds(db, task.nonce, "profile")
      BY <1>6, <1>7, <1>9 DEF Holds
    <3>2. \A k \in Key : sealed[k][task.nonce] = 0
      BY <1>4, <3>1 DEF ServiceInv, Seals
    <3> QED
      BY <2>5, <2>7, <3>2 DEF Fresh
  <2>11. provider[P].path = None => prep' = {}
    BY <2>7 DEF ServiceInv, Serves
  <2> QED
    BY <1>2, <1>7, <2>6, <2>7, <2>8, <2>9, <2>10, <2>11, GoesOnKeepsInv
<1> QED
  BY <1>5, <1>8, <1>9

\* publish_profile_key: what is returned is stored.
LEMMA PublishCatalogKeepsInv ==
    ASSUME ServiceInv, PublishCatalog
    PROVE  ServiceInv'
<1>1. Running("publish")
  BY DEF PublishCatalog
<1>2. /\ call[P].op = "none" /\ Ready /\ runtime # "down"
  BY <1>1, RunningTask
<1>3. PICK w \in wrapped :
        LET t == PublishProfileKey(db, task.seq, w)
        IN  \E code : /\ Transact(t, code)
                      /\ \/ /\ code = "ok" /\ task' = NoTask /\ granted' = granted \cup {w}
                            /\ DropLocals /\ UNCHANGED <<composed, sentinelSeals, reported>>
                         \/ code # "ok" /\ GiveUp
  BY DEF PublishCatalog
<1> DEFINE t == PublishProfileKey(db, task.seq, w)
<1>4. PICK code :
        /\ Transact(t, code)
        /\ \/ code = "ok" /\ Ends /\ granted' = granted \cup {w}
           \/ code # "ok" /\ GiveUp
  BY <1>3 DEF Ends
<1>5. /\ w \in WrappedKey /\ granted \subseteq WrappedKey
      /\ w.key = db.catalog.commitment
  BY DEF ServiceInv, ServiceTypes, History
<1>6. t.code = "ok" => Tables(t.tables) /\ Grows(db, t.tables) /\ Stored(t.tables, w)
  BY <1>5, PublishTables DEF ServiceInv
<1> HIDE DEF t
<1>7. Moves /\ (code = "ok" => t.code = "ok" /\ db' = t.tables)
  BY <1>2, <1>4, <1>6, TransactMoves
<1>8. CASE GiveUp
  BY <1>1, <1>7, <1>8, RaisesKeepsInv
<1>9. CASE code = "ok" /\ Ends /\ granted' = granted \cup {w}
  <2>1. \A v \in granted' : Stored(db', v)
    BY <1>6, <1>7, <1>9, GrowthKeeps
  <2>2. granted' \subseteq WrappedKey
    BY <1>5, <1>9
  <2> QED
    BY <1>2, <1>7, <1>9, <2>1, <2>2, EndsKeepsInv
<1> QED
  BY <1>4, <1>8, <1>9

\* load_profile_key, reconcile_profile_key.
LEMMA FetchCatalogKeepsInv ==
    ASSUME ServiceInv, FetchCatalog
    PROVE  ServiceInv'
<1>1. Running("fetch")
  BY DEF FetchCatalog
<1>2. /\ task \in TaskType /\ task.step = "fetch" /\ "fetch" \in Steps(task.op)
      /\ task.op \in Calls \ {"none"} /\ Ready /\ runtime # "down"
  BY <1>1, RunningTask
<1>3. PICK loaded, code :
        /\ Read(loaded, code) \/ ReconciliationRead(loaded, code)
        /\ Answer(code)
  BY DEF FetchCatalog
<1>4. Moves /\ db' = db
  BY <1>2, <1>3, ReadMoves
<1>5. CASE GiveUp
  BY <1>1, <1>4, <1>5, RaisesKeepsInv
<1>6. CASE Proceed(task) /\ Quiet
  <2>1. task.op \in {"open", "reconcile_profile_key"}
    BY <1>2 DEF Steps, Creating, Calls, Composing, Reconciling
  <2>2. After(task.op, task.step) = "unwrap" /\ "unwrap" \in Steps(task.op)
    BY <1>2, <2>1, AfterSteps DEF Steps
  <2>3. /\ task' \in TaskType /\ task'.waiting = FALSE /\ task'.step = "unwrap"
        /\ task'.op = task.op /\ task'.binding = task.binding
    BY <1>2, <1>6, <2>2, ProceedsTo
  <2>4. UNCHANGED <<providerVars, composed, granted, sentinelSeals>>
    BY <1>6 DEF Quiet
  <2>5. {"unwrap", "fetch"} \cap (Creating \cup {"none", "recover"}) = {}
    BY DEF Creating
  <2> QED
    BY <1>1, <1>4, <2>2, <2>3, <2>4, <2>5, PlainKeepsInv
<1> QED
  BY <1>3, <1>5, <1>6 DEF Answer

\* require_recovery: the tables grow, or stay.
LEMMA RecoverCatalogKeepsInv ==
    ASSUME ServiceInv, RecoverCatalog
    PROVE  ServiceInv'
<1>1. Running("recover")
  BY DEF RecoverCatalog
<1>2. call[P].op = "none" /\ Ready /\ runtime # "down" /\ task.step = "recover"
  BY <1>1, RunningTask
<1>3. db.catalog # None /\ db.sentinel # None /\ Tables(db)
  BY <1>2 DEF ServiceInv, TaskOK
<1> DEFINE t == RequireRecovery(db)
<1>4. PICK code : Transact(t, code)
  BY DEF RecoverCatalog
<1>5. t.code = "ok" => Tables(t.tables) /\ Grows(db, t.tables)
  BY <1>3, RecoverTables
<1> HIDE DEF t
<1>6. Moves
  BY <1>2, <1>4, <1>5, TransactMoves
<1> QED
  BY <1>2, <1>6, GiveUpKeepsInv DEF RecoverCatalog

-----------------------------------------------------------------------------
(* The sentinel administration.                                            *)

\* What a source that was read is.
LEMMA ReadSource ==
    ASSUME ServiceInv, NEW s \in ReadExistingSource, s.code = "ok"
    PROVE  s.pin \in Pin /\ s.pin.key \in Key /\ s.pin # None
<1>1. KeyPath \in Path /\ source \in [Path -> Source]
  BY Composition DEF ServiceInv, ServiceTypes
<1>2. s.pin \in Pin
  BY <1>1 DEF ReadExistingSource, OpenSource, Source, Pin
<1> QED
  BY <1>2, ProviderNone DEF Pin

\* read_source_commitment.
LEMMA ReadCommitmentKeepsInv ==
    ASSUME ServiceInv, ReadCommitment
    PROVE  ServiceInv'
<1>1. Running("commitment")
  BY DEF ReadCommitment
<1>2. /\ task \in TaskType /\ task.step = "commitment" /\ "commitment" \in Steps(task.op)
      /\ task.op \in Calls \ {"none"} /\ Ready /\ runtime # "down"
  BY <1>1, RunningTask
<1>3. Moves /\ db' = db
  BY <1>2, StillMoves DEF ReadCommitment
<1>4. CASE GiveUp
  BY <1>1, <1>3, <1>4, RaisesKeepsInv
<1>5. ASSUME NEW s \in ReadExistingSource, NEW n \in Nonce, s.code = "ok", Quiet,
             Proceed([task EXCEPT !.nonce = n, !.key = s.pin.key])
      PROVE  ServiceInv'
  <2> DEFINE t == [task EXCEPT !.nonce = n, !.key = s.pin.key]
  <2>1. s.pin.key \in Key
    BY <1>5, ReadSource
  <2>2. /\ t \in TaskType /\ t.op = task.op /\ t.nonce = n /\ t.key = s.pin.key
        /\ t.binding = task.binding
    BY <1>2, <2>1 DEF TaskType
  <2>3. task.op = "initialize"
    BY <1>2 DEF Steps, Creating, Calls, Composing, Reconciling
  <2>4. After(task.op, task.step) = "begin" /\ "begin" \in Steps(task.op)
    BY <1>2, <2>3, AfterSteps DEF Steps
  <2>5. Proceed(t)
    BY <1>5
  <2> HIDE DEF t
  <2>6. /\ task' \in TaskType /\ task'.waiting = FALSE /\ task'.step = "begin"
        /\ task'.op = task.op /\ task'.binding = task.binding
        /\ task'.nonce = n /\ task'.key = s.pin.key
    BY <2>2, <2>4, <2>5, ProceedsTo
  <2>7. UNCHANGED <<providerVars, composed, granted, sentinelSeals>>
    BY <1>5 DEF Quiet
  <2>8. {"commitment", "begin"} \cap (Creating \cup {"none", "recover"}) = {}
    BY DEF Creating
  <2> QED
    BY <1>1, <1>3, <2>1, <2>4, <2>6, <2>7, <2>8, PlainKeepsInv
<1> QED
  BY <1>4, <1>5 DEF ReadCommitment

\* create_readiness_sentinel: the key and nonce are those of the tables.
LEMMA SealSentinelKeepsInv ==
    ASSUME ServiceInv, SealSentinel
    PROVE  ServiceInv'
<1>1. Running("seal")
  BY DEF SealSentinel
<1>2. /\ task \in TaskType /\ task.step = "seal" /\ "seal" \in Steps(task.op)
      /\ task.op \in Calls \ {"none"} /\ Ready /\ runtime # "down"
  BY <1>1, RunningTask
<1>3. Moves /\ db' = db
  BY <1>2, StillMoves DEF SealSentinel
<1>4. CASE GiveUp
  BY <1>1, <1>3, <1>4, RaisesKeepsInv
<1>5. ASSUME NEW s \in ReadExistingSource, s.code = "ok", s.pin.key = task.key,
             Proceed([task EXCEPT !.pin = s.pin]),
             sentinelSeals' = sentinelSeals \cup {[key |-> s.pin.key, nonce |-> task.nonce]},
             UNCHANGED <<providerVars, composed, granted>>
      PROVE  ServiceInv'
  <2> DEFINE t == [task EXCEPT !.pin = s.pin]
             x == [key |-> s.pin.key, nonce |-> task.nonce]
  <2>1. s.pin \in Pin /\ s.pin.key \in Key /\ s.pin # None
    BY <1>5, ReadSource
  <2>2. /\ t \in TaskType /\ t.op = task.op /\ t.nonce = task.nonce /\ t.key = task.key
        /\ t.binding = task.binding /\ t.pin = s.pin
    BY <1>2, <2>1 DEF TaskType
  <2>3. task.op \in {"initialize", "resume", "reconcile_initialization"}
    BY <1>2 DEF Steps, Creating, Calls, Composing, Reconciling
  <2>4. After(task.op, task.step) = "reseal" /\ "reseal" \in Steps(task.op)
    BY <1>2, <2>3, AfterSteps DEF Steps
  <2>5. Proceed(t)
    BY <1>5
  <2>6. /\ db.catalog # None /\ task.key = db.catalog.commitment
        /\ task.nonce \in Nonce /\ Holds(db, task.nonce, "sentinel")
    BY <1>2 DEF ServiceInv, TaskOK
  <2>7. x \in [key : Key, nonce : Nonce] /\ x.key = task.key /\ x.nonce = task.nonce
    BY <1>5, <2>1, <2>6
  <2>8. sentinelSeals' = sentinelSeals \cup {x}
    BY <1>5
  <2> HIDE DEF t, x
  <2>9. /\ task' \in TaskType /\ task'.waiting = FALSE /\ task'.step = "reseal"
        /\ task'.op = task.op /\ task'.binding = task.binding
        /\ task'.nonce = task.nonce /\ task'.key = task.key /\ task'.pin = s.pin
    BY <2>2, <2>4, <2>5, ProceedsTo
  <2>10. {"seal", "reseal"} \cap (Creating \cup {"none", "recover"}) = {}
    BY DEF Creating
  <2>11. \A z \in sentinelSeals' : z \in sentinelSeals \/
              (/\ z \in [key : Key, nonce : Nonce]
               /\ db'.catalog # None /\ db'.catalog.commitment = z.key
               /\ Holds(db', z.nonce, "sentinel"))
    BY <1>3, <2>6, <2>7, <2>8
  <2> QED
    BY <1>1, <1>3, <1>5, <2>1, <2>4, <2>6, <2>9, <2>10, <2>11, PlainKeepsInv
<1> QED
  BY <1>4, <1>5 DEF SealSentinel

\* The second reading of the source by create_readiness_sentinel.
LEMMA ResealSentinelKeepsInv ==
    ASSUME ServiceInv, ResealSentinel
    PROVE  ServiceInv'
<1>1. Running("reseal")
  BY DEF ResealSentinel
<1>2. /\ task \in TaskType /\ task.step = "reseal" /\ "reseal" \in Steps(task.op)
      /\ task.op \in Calls \ {"none"} /\ Ready /\ runtime # "down"
  BY <1>1, RunningTask
<1>3. Moves /\ db' = db
  BY <1>2, StillMoves DEF ResealSentinel
<1>4. CASE GiveUp
  BY <1>1, <1>3, <1>4, RaisesKeepsInv
<1>5. CASE Proceed(task) /\ Quiet
  <2>1. task.op \in {"initialize", "resume", "reconcile_initialization"}
    BY <1>2 DEF Steps, Creating, Calls, Composing, Reconciling
  <2>2. After(task.op, task.step) = "finish" /\ "finish" \in Steps(task.op)
    BY <1>2, <2>1, AfterSteps DEF Steps
  <2>3. /\ db.catalog # None /\ task.key = db.catalog.commitment
        /\ task.nonce \in Nonce /\ Holds(db, task.nonce, "sentinel")
        /\ task.pin # None /\ task.pin.key = task.key
    BY <1>2 DEF ServiceInv, TaskOK
  <2>4. /\ task' \in TaskType /\ task'.waiting = FALSE /\ task'.step = "finish"
        /\ task'.op = task.op /\ task'.binding = task.binding
        /\ task'.nonce = task.nonce /\ task'.key = task.key /\ task'.pin = task.pin
    BY <1>2, <1>5, <2>2, ProceedsTo
  <2>5. UNCHANGED <<providerVars, composed, granted, sentinelSeals>>
    BY <1>5 DEF Quiet
  <2>6. {"finish", "reseal"} \cap (Creating \cup {"none", "recover"}) = {}
    BY DEF Creating
  <2> QED
    BY <1>1, <1>3, <2>2, <2>3, <2>4, <2>5, <2>6, PlainKeepsInv
<1> QED
  BY <1>4, <1>5 DEF ResealSentinel, Answer

-----------------------------------------------------------------------------
(* The other steps of a call.                                              *)

\* The new provider has the sentinel of the catalog.
LEMMA ConstructProviderKeepsInv ==
    ASSUME ServiceInv, ConstructProvider
    PROVE  ServiceInv'
<1>1. Running("construct")
  BY DEF ConstructProvider
<1>2. /\ task \in TaskType /\ task.step = "construct" /\ "construct" \in Steps(task.op)
      /\ task.op \in Calls \ {"none"} /\ Ready /\ runtime # "down" /\ call[P].op = "none"
  BY <1>1, RunningTask
<1>3. Moves /\ db' = db
  BY <1>2, StillMoves DEF ConstructProvider
<1> DEFINE s == [install |-> Install, nonce |-> SentinelReservation(db).nonce,
                 key |-> db.sentinel.key]
<1>4. /\ Construct(P, KeyPath, s) /\ Proceed(task)
      /\ UNCHANGED <<catalogVars, composed, granted, sentinelSeals>>
  BY DEF ConstructProvider
<1>5. db.catalog # None /\ db.sentinel # None /\ Tables(db)
  BY <1>2 DEF ServiceInv, TaskOK
<1>6. /\ db.sentinel \in SentinelRow /\ Loads(db) /\ LoadSnapshot(db) = "ok"
      /\ SentinelReservation(db).nonce \in Nonce
  BY <1>5, Initialized, LoadedTables
<1>7. s \in Sentinel /\ s.key = db.catalog.commitment
  BY <1>5, <1>6, Composition DEF Sentinel, SentinelRow, Loads
<1> HIDE DEF s
<1>8. /\ provider' = [provider EXCEPT ![P] = [NoProvider EXCEPT !.path = KeyPath, !.sentinel = s]]
      /\ UNCHANGED <<source, call, prep, wrapped, sealed>>
      /\ provider[P].path = None
  BY <1>4 DEF Construct, Live
<1>9. /\ provider' \in [Provider -> ProviderState]
      /\ provider'[P].path = KeyPath /\ provider'[P].sentinel = s /\ provider'[P].pin = None
      /\ KeyPath # None
  BY <1>7, <1>8, Composition, ProviderNone
     DEF ServiceInv, ServiceTypes, NoProvider, ProviderState, SourceStatus
<1>10. prep' = {}
  BY <1>8 DEF ServiceInv, Serves
<1>11. task.op \in {"compose", "reconcile_profile_key"}
  BY <1>2 DEF Steps, Creating, Calls, Composing, Reconciling
<1>12. After(task.op, task.step) = "readiness" /\ "readiness" \in Steps(task.op)
  BY <1>2, <1>11, AfterSteps DEF Steps
<1>13. /\ task' \in TaskType /\ task'.waiting = FALSE /\ task'.step = "readiness"
       /\ task'.op = task.op /\ task'.binding = task.binding
  BY <1>2, <1>4, <1>12, ProceedsTo
<1>14. ServiceTypes'
  BY <1>4, <1>8, <1>9 DEF ServiceInv, ServiceTypes, catalogVars
<1>15. Tables(db)' /\ Process'
  BY <1>3 DEF Moves, Process
<1>16. TaskOK'
  BY <1>4, <1>11, <1>12, <1>13 DEF ServiceInv, TaskOK
<1>17. Serves'
  BY <1>2, <1>3, <1>5, <1>7, <1>8, <1>9, <1>10, <1>13 DEF Serves
<1>18. Operation'
  BY <1>2, <1>8 DEF Operation
<1>19. Preparing' /\ Fresh'
  BY <1>10, <1>13 DEF Preparing, Fresh, Unspent, Creating
<1>20. Seals' /\ History'
  BY <1>3, <1>4, <1>8, GrowthKeeps DEF ServiceInv, Seals, History
<1> QED
  BY <1>14, <1>15, <1>16, <1>17, <1>18, <1>19, <1>20 DEF ServiceInv

\* The preparation is consumed; its nonce has encrypted nothing yet.
LEMMA ConsumePreparationKeepsInv ==
    ASSUME ServiceInv, ConsumePreparation
    PROVE  ServiceInv'
<1>1. Running("consume")
  BY DEF ConsumePreparation
<1>2. /\ task \in TaskType /\ task.step = "consume" /\ "consume" \in Steps(task.op)
      /\ task.op \in Calls \ {"none"} /\ Ready /\ runtime # "down" /\ call[P].op = "none"
  BY <1>1, RunningTask
<1>3. Moves /\ db' = db
  BY <1>2, StillMoves DEF ConsumePreparation
<1>4. PICK r \in prep : Consume(P, r) /\ Proceed(task)
  BY DEF ConsumePreparation
<1>5. /\ prep' = (prep \ {r}) \cup {[r EXCEPT !.consumed = TRUE, !.completing = IsCurrent(P)]}
      /\ UNCHANGED <<source, provider, call, wrapped, sealed, composed, granted, sentinelSeals>>
  BY <1>4 DEF Consume, ConsumePreparation
<1>6. /\ task.nonce \in Nonce /\ Holds(db, task.nonce, "profile")
      /\ \A x \in prep : x.nonce = task.nonce
      /\ \A k \in Key : sealed[k][task.nonce] = 0
  BY <1>2 DEF ServiceInv, Preparing, Fresh, Unspent
<1>7. prep \subseteq Draft
  BY DEF ServiceInv, ServiceTypes
<1>8. IsCurrent(P) \in BOOLEAN
  BY DEF IsCurrent
<1> DEFINE x == [r EXCEPT !.consumed = TRUE, !.completing = IsCurrent(P)]
<1>9. x \in Draft /\ x.nonce = r.nonce
  BY <1>7, <1>8 DEF Draft
<1>10. prep' = (prep \ {r}) \cup {x}
  BY <1>5
<1> HIDE DEF x
<1>11. prep' \subseteq Draft /\ \A y \in prep' : y.nonce = task.nonce
  BY <1>6, <1>7, <1>9, <1>10
<1>12. task.op = "create"
  BY <1>2 DEF Steps, Calls, Composing, Reconciling
<1>13. After(task.op, task.step) = "complete" /\ "complete" \in Steps(task.op)
  BY <1>2, <1>12, AfterSteps DEF Steps, Creating
<1>14. /\ task' \in TaskType /\ task'.waiting = FALSE /\ task'.step = "complete"
       /\ task'.op = "create" /\ task'.binding = task.binding /\ task'.nonce = task.nonce
  BY <1>2, <1>4, <1>12, <1>13, ProceedsTo
<1>15. GoesOn
  BY <1>5, <1>11, <1>14 DEF GoesOn, ServiceInv, ServiceTypes
<1>16. TaskOK'
  BY <1>12, <1>13, <1>14 DEF ServiceInv, TaskOK, Reconciling
<1>17. Preparing'
  BY <1>3, <1>6, <1>11, <1>14 DEF Preparing, Creating
<1>18. Fresh'
  BY <1>5, <1>6, <1>14 DEF Fresh
<1>19. provider[P].path # None
  BY DEF ServiceInv, Serves
<1> QED
  BY <1>2, <1>3, <1>5, <1>15, <1>16, <1>17, <1>18, <1>19, GoesOnKeepsInv

\* A call whose operation has ended.
LEMMA WaitingTask ==
    ASSUME ServiceInv, task.waiting = TRUE
    PROVE  /\ task \in TaskType /\ task.step \in Waits /\ task.step \in Steps(task.op)
           /\ task.op \in Calls \ {"none"} /\ Ready /\ runtime # "down"
           /\ db.catalog # None /\ db.sentinel # None /\ provider[P].path # None
<1>1. task \in TaskType /\ task.step \in Waits /\ task.step \in Steps(task.op)
  BY DEF ServiceInv, TaskOK, Waits
<1>2. task.op \in Calls \ {"none"}
  BY <1>1 DEF Steps, TaskType, Waits
<1>3. runtime # "down"
  BY <1>2 DEF ServiceInv, Process, NoTask
<1>4. Ready
  BY <1>3 DEF ServiceInv, ServiceTypes, Process, Ready
<1>5. provider[P].path # None /\ db.catalog # None /\ db.sentinel # None
  BY DEF ServiceInv, Serves
<1> QED
  BY <1>1, <1>2, <1>3, <1>4, <1>5

\* The result of an operation is taken, or recovery follows.
LEMMA TakeResultKeepsInv ==
    ASSUME ServiceInv, TakeResult
    PROVE  ServiceInv'
<1>1. task.waiting = TRUE /\ call[P].op = "none" /\ UNCHANGED catalogVars
  BY DEF TakeResult, Free, ServiceInv, TaskOK, TaskType
<1>2. /\ task \in TaskType /\ task.step \in Waits /\ task.step \in Steps(task.op)
      /\ task.op \in Calls \ {"none"} /\ Ready /\ runtime # "down"
      /\ db.catalog # None /\ db.sentinel # None /\ provider[P].path # None
  BY <1>1, WaitingTask
<1>3. Moves /\ db' = db
  BY <1>1, <1>2, StillMoves
<1>4. prep \subseteq Draft /\ composed \in BOOLEAN
  BY DEF ServiceInv, ServiceTypes
<1>5. CASE call[P].code # "ok" /\ ProviderFailed
  <2>1. CASE task.op \in Reconciling /\ GiveUp
    BY <1>1, <1>3, <2>1, GiveUpKeepsInv DEF GiveUp
  <2>2. CASE /\ task.op \notin Reconciling
             /\ task' = [task EXCEPT !.step = "recover", !.waiting = FALSE]
             /\ UNCHANGED <<providerVars, composed, granted, sentinelSeals>>
    <3>1. "recover" \in Steps(task.op)
      BY <1>2, <2>2 DEF Steps, Waits, Calls, Composing, Reconciling
    <3>2. "recover" \in UNION {Steps(op) : op \in Calls}
      BY <1>2, <3>1
    <3>3. /\ task' \in TaskType /\ task'.waiting = FALSE /\ task'.step = "recover"
          /\ task'.op = task.op /\ task'.binding = task.binding
      BY <1>2, <2>2, <3>2 DEF TaskType
    <3>4. GoesOn /\ UNCHANGED prep
      BY <1>4, <2>2, <3>3 DEF GoesOn, providerVars
    <3>5. TaskOK'
      BY <1>2, <1>3, <2>2, <3>1, <3>3 DEF ServiceInv, TaskOK
    <3>6. Preparing' /\ Fresh'
      BY <3>3, <3>4 DEF ServiceInv, Preparing, Fresh, Unspent, Creating
    <3> QED
      BY <1>1, <1>2, <1>3, <2>2, <3>3, <3>4, <3>5, <3>6, GoesOnKeepsInv
  <2> QED
    BY <1>5, <2>1, <2>2 DEF ProviderFailed
<1>6. CASE /\ call[P].code = "ok" /\ task.step = "readiness" /\ task.op \in Composing
           /\ composed' = TRUE /\ task' = NoTask
           /\ UNCHANGED <<providerVars, granted, sentinelSeals>>
  <2>1. /\ task'.op = "none" /\ task'.step = "none" /\ task'.waiting = FALSE
        /\ task' \in TaskType /\ task'.step \in Steps(task'.op)
    BY <1>6 DEF NoTask, TaskType, Steps, Calls
  <2>2. GoesOn /\ UNCHANGED prep
    BY <1>4, <1>6, <2>1 DEF GoesOn, providerVars
  <2>3. TaskOK'
    BY <1>6, <2>1 DEF TaskOK, Reconciling
  <2>4. prep' = {}
    BY <1>6, <2>2 DEF ServiceInv, Preparing, Creating
  <2>5. Preparing' /\ Fresh'
    BY <2>1, <2>4 DEF Preparing, Fresh, Unspent, Creating
  <2> QED
    BY <1>1, <1>3, <1>6, <2>2, <2>3, <2>4, <2>5, GoesOnKeepsInv
<1>7. CASE /\ call[P].code = "ok" /\ task.step = "prepare" /\ Quiet
           /\ \E r \in prep : Proceed([task EXCEPT !.nonce = r.nonce])
  <2>1. PICK r \in prep : Proceed([task EXCEPT !.nonce = r.nonce])
    BY <1>7
  <2> DEFINE t == [task EXCEPT !.nonce = r.nonce]
  <2>2. r.nonce \in Nonce
    BY <1>4 DEF Draft
  <2>3. t \in TaskType /\ t.op = task.op /\ t.nonce = r.nonce /\ t.binding = task.binding
    BY <1>2, <2>2 DEF TaskType
  <2>4. Proceed(t)
    BY <2>1
  <2> HIDE DEF t
  <2>5. task.op = "create"
    BY <1>2, <1>7 DEF Steps, Calls, Composing, Reconciling
  <2>6. After(task.op, task.step) = "reserve" /\ "reserve" \in Steps(task.op)
    BY <1>7, <2>5, AfterSteps DEF Steps, Creating
  <2>7. /\ task' \in TaskType /\ task'.waiting = FALSE /\ task'.step = "reserve"
        /\ task'.op = "create" /\ task'.binding = task.binding /\ task'.nonce = r.nonce
    BY <2>3, <2>4, <2>5, <2>6, ProceedsTo
  <2>8. UNCHANGED <<providerVars, composed, granted, sentinelSeals>>
    BY <1>7 DEF Quiet
  <2>9. GoesOn /\ UNCHANGED prep
    BY <1>4, <2>7, <2>8 DEF GoesOn, providerVars
  <2>10. TaskOK'
    BY <2>5, <2>6, <2>7 DEF ServiceInv, TaskOK, Reconciling
  <2>11. Preparing' /\ Fresh'
    BY <2>2, <2>7, <2>9 DEF ServiceInv, Preparing, Fresh, Unspent, Creating
  <2> QED
    BY <1>1, <1>2, <1>3, <1>7, <2>8, <2>9, <2>10, <2>11, GoesOnKeepsInv
<1>8. CASE call[P].code = "ok" /\ GiveUp
  BY <1>1, <1>3, <1>8, GiveUpKeepsInv DEF GiveUp
<1>9. CASE /\ call[P].code = "ok"
           /\ task.step = "complete" \/ (task.step = "readiness" /\ task.op \notin Composing)
           /\ Proceed(task) /\ Quiet
  <2> DEFINE st == After(task.op, task.step)
  <2>1. /\ st \in Steps(task.op)
        /\ \/ task.step = "complete" /\ task.op = "create" /\ st = "publish"
           \/ task.step = "readiness" /\ task.op = "create" /\ st = "prepare"
           \/ task.step = "readiness" /\ st = "fetch"
    <3>1. CASE task.step = "complete"
      <4>1. task.op = "create"
        BY <1>2, <3>1 DEF Steps, Calls, Composing, Reconciling
      <4> QED
        BY <3>1, <4>1, AfterSteps DEF Steps, Creating
    <3>2. CASE task.step = "readiness" /\ task.op \notin Composing
      <4>1. task.op \in {"create", "open", "reconcile_profile_key"}
        BY <1>2, <3>2 DEF Steps, Calls, Composing, Reconciling
      <4> QED
        BY <3>2, <4>1, AfterSteps DEF Steps, Creating
    <3> QED
      BY <1>9, <3>1, <3>2
  <2>2. st = After(task.op, task.step)
    OBVIOUS
  <2> HIDE DEF st
  <2>3. /\ task' \in TaskType /\ task'.waiting = FALSE /\ task'.step = st
        /\ task'.op = task.op /\ task'.binding = task.binding
    BY <1>2, <1>9, <2>1, <2>2, ProceedsTo
  <2>4. UNCHANGED <<providerVars, composed, granted, sentinelSeals>>
    BY <1>9 DEF Quiet
  <2>5. GoesOn /\ UNCHANGED prep
    BY <1>4, <2>3, <2>4 DEF GoesOn, providerVars
  <2>6. TaskOK'
    BY <1>2, <2>1, <2>3, <2>4 DEF ServiceInv, TaskOK
  <2>7. Preparing' /\ Fresh'
    <3>1. task.step = "readiness" => prep' = {}
      BY <2>5 DEF ServiceInv, Preparing, Creating
    <3> QED
      BY <2>1, <2>3, <2>5, <3>1 DEF ServiceInv, Preparing, Fresh, Unspent, Creating
  <2> QED
    BY <1>1, <1>2, <1>3, <1>9, <2>4, <2>5, <2>6, <2>7, GoesOnKeepsInv
<1> QED
  BY <1>5, <1>6, <1>7, <1>8, <1>9 DEF TakeResult

-----------------------------------------------------------------------------
(* Calls begin, and everything else.                                       *)

\* Where each script begins.
LEMMA FirstSteps ==
    /\ \A op \in {"compose", "resume", "reconcile_initialization", "reconcile_profile_key",
                  "create", "open"} : Script(op)[1] = "load" /\ "load" \in Steps(op)
    /\ Script("initialize")[1] = "commitment" /\ "commitment" \in Steps("initialize")
BY DEF Script, Steps, ComposeNativeKeyCatalog, InitializeNativeKeyCatalog, ResumeInitialization,
       ReconcileInitialization, ReconcileNativeProfileKey, CreateProfileKey, OpenProfileKey

\* A call begins.
LEMMA StartKeepsInv ==
    ASSUME ServiceInv, NEW op \in Calls \ {"none"}, NEW b \in Binding \cup {None}, Start(op, b),
           op \in Reconciling => composed = FALSE, op = "create" => b \in Binding
    PROVE  ServiceInv'
<1> DEFINE st == Script(op)[1]
<1>1. st \in {"load", "commitment"} /\ st \in Steps(op)
  BY FirstSteps DEF Calls, Composing, Reconciling
<1>2. /\ task = NoTask /\ runtime # "down"
      /\ task' = [NoTask EXCEPT !.op = op, !.step = st, !.binding = b]
      /\ UNCHANGED <<catalogVars, providerVars, composed, granted, sentinelSeals>>
  BY DEF Start
<1> HIDE DEF st
<1>3. st \in UNION {Steps(o) : o \in Calls}
  BY <1>1
<1>4. /\ task' \in TaskType /\ task'.waiting = FALSE /\ task'.step = st
      /\ task'.op = op /\ task'.binding = b
  BY <1>2, <1>3 DEF NoTask, TaskType
<1>5. task.op = "none" /\ task.step = "none" /\ task.waiting = FALSE
  BY <1>2 DEF NoTask
<1>6. Ready
  BY <1>2 DEF ServiceInv, ServiceTypes, Process, Ready
<1>7. Moves /\ db' = db
  BY <1>2, <1>6, StillMoves
<1>8. call[P].op = "none"
  BY <1>5 DEF ServiceInv, Serves
<1>9. GoesOn /\ UNCHANGED <<prep, composed>>
  BY <1>2, <1>4 DEF GoesOn, providerVars, ServiceInv, ServiceTypes
<1>10. prep' = {}
  BY <1>5, <1>9 DEF ServiceInv, Preparing, Creating
<1>11. TaskOK'
  BY <1>1, <1>4, <1>9 DEF TaskOK
<1>12. Preparing' /\ Fresh'
  BY <1>1, <1>4, <1>10 DEF Preparing, Fresh, Unspent, Creating
<1> QED
  BY <1>2, <1>7, <1>8, <1>9, <1>10, <1>11, <1>12, GoesOnKeepsInv

\* The calls of the bootstrap and of the service begin.
LEMMA StartsKeepInv ==
    ASSUME ServiceInv,
           \/ \E op \in Composing \cup Reconciling : StartBootstrap(op)
           \/ \E op \in {"create", "open"}, b \in Binding : StartService(op, b)
    PROVE  ServiceInv'
<1>1. composed \in BOOLEAN
  BY DEF ServiceInv, ServiceTypes
<1>2. ASSUME NEW op \in Composing \cup Reconciling, StartBootstrap(op) PROVE ServiceInv'
  <2>1. PICK b \in Binding \cup {None} : Start(op, b)
    BY <1>2 DEF StartBootstrap
  <2>2. composed = FALSE
    BY <1>1, <1>2 DEF StartBootstrap
  <2>3. op \in Calls \ {"none"} /\ op # "create"
    BY DEF Calls, Composing, Reconciling
  <2> QED
    BY <2>1, <2>2, <2>3, StartKeepsInv
<1>3. ASSUME NEW op \in {"create", "open"}, NEW b \in Binding, StartService(op, b)
      PROVE  ServiceInv'
  <2>1. Start(op, b)
    BY <1>3 DEF StartService
  <2>2. op \in Calls \ {"none"} /\ op \notin Reconciling
    BY DEF Calls, Reconciling
  <2> QED
    BY <2>1, <2>2, StartKeepsInv
<1> QED
  BY <1>2, <1>3

\* The key file is replaced, or a handle is used.
LEMMA ServiceEnvironmentKeepsInv ==
    ASSUME ServiceInv, Environment
    PROVE  ServiceInv'
<1>1. UNCHANGED <<provider, call, prep, wrapped, sealed, catalogVars, serviceVars>>
  BY DEF Environment, ChangeSource, HandleNext, EnterHandle, UseHandle, FinishUse, CloseHandle,
         HandleStep
<1>2. UNCHANGED <<db, runtime, latch, task, composed, granted, sentinelSeals>>
  BY <1>1 DEF catalogVars, serviceVars
<1>3. source \in [Path -> Source] /\ KeyPath \in Path
  BY Composition DEF ServiceInv, ServiceTypes
<1>4. source' \in [Path -> Source]
  <2>1. ASSUME NEW status \in SourceStatus, NEW k \in Key, ChangeSource(KeyPath, status, k)
        PROVE  source' \in [Path -> Source]
    <3>1. source[KeyPath].id + 1 \in 1..MaxId
      BY <1>3, <2>1, ProviderAssumption DEF ChangeSource, Source
    <3>2. [status |-> status, key |-> k, id |-> source[KeyPath].id + 1] \in Source
      BY <3>1 DEF Source
    <3> QED
      BY <1>3, <2>1, <3>2 DEF ChangeSource
  <2>2. ASSUME NEW h \in Handle, HandleNext(h) PROVE source' \in [Path -> Source]
    BY <1>3, <2>2 DEF HandleNext, EnterHandle, UseHandle, FinishUse, CloseHandle, HandleStep
  <2> QED
    BY <2>1, <2>2 DEF Environment
<1>5. ServiceTypes'
  BY <1>1, <1>2, <1>4 DEF ServiceInv, ServiceTypes
<1>6. Tables(db)' /\ Process' /\ TaskOK' /\ Serves' /\ Operation'
  BY <1>1, <1>2 DEF ServiceInv, Process, TaskOK, Serves, Operation, Holds
<1>7. Preparing' /\ Fresh' /\ Seals' /\ History'
  BY <1>1, <1>2 DEF ServiceInv, Preparing, Fresh, Unspent, Seals, History, Holds, Stored
<1> QED
  BY <1>5, <1>6, <1>7 DEF ServiceInv

\* The runtime is closed under the call; the tables stay as they are.
LEMMA CloseProcessKeepsInv ==
    ASSUME ServiceInv, CloseProcess
    PROVE  ServiceInv'
<1>1. /\ UNCHANGED <<db, providerVars, serviceVars>> /\ runtime # "down"
      /\ runtime' \in {"abandoned", "closed"} /\ latch' \in BOOLEAN
  BY DEF CloseProcess, CloseRuntime, Closed, Abandoned, ServiceInv, ServiceTypes
<1>2. UNCHANGED <<source, provider, call, prep, wrapped, sealed, task, composed, granted,
                  sentinelSeals>>
  BY <1>1 DEF providerVars, serviceVars
<1>3. ServiceTypes'
  BY <1>1, <1>2 DEF ServiceInv, ServiceTypes
<1>4. Tables(db)' /\ Process' /\ TaskOK' /\ Serves' /\ Operation'
  BY <1>1, <1>2 DEF ServiceInv, Process, TaskOK, Serves, Operation, Holds
<1>5. Preparing' /\ Fresh' /\ Seals' /\ History'
  BY <1>1, <1>2 DEF ServiceInv, Preparing, Fresh, Unspent, Seals, History, Holds, Stored
<1> QED
  BY <1>3, <1>4, <1>5 DEF ServiceInv

\* The end of the process forgets everything but the tables and what was encrypted.
LEMMA StopProcessKeepsInv ==
    ASSUME ServiceInv, StopProcess
    PROVE  ServiceInv'
<1>1. /\ UNCHANGED <<db, source, sealed, granted, sentinelSeals>>
      /\ runtime' = "down" /\ latch' \in BOOLEAN
      /\ provider' = [p \in Provider |-> NoProvider] /\ call' = [p \in Provider |-> Ended("ok")]
      /\ prep' = {} /\ wrapped' = {} /\ task' = NoTask /\ composed' = FALSE
  BY DEF StopProcess, StopRuntime, ServiceInv, ServiceTypes
<1>2. /\ task'.op = "none" /\ task'.step = "none" /\ task'.waiting = FALSE
      /\ task' \in TaskType /\ task'.step \in Steps(task'.op)
  BY <1>1 DEF NoTask, TaskType, Steps, Calls
<1>3. /\ provider'[P] = NoProvider /\ provider' \in [Provider -> ProviderState]
      /\ call'[P].op = "none" /\ call' = [p \in Provider |-> call'[p]]
  BY <1>1, Composition DEF NoProvider, ProviderState, SourceStatus, Ended
<1>4. NoProvider.path = None /\ NoProvider.pin = None
  BY DEF NoProvider
<1>5. ServiceTypes'
  BY <1>1, <1>3 DEF ServiceInv, ServiceTypes
<1>6. Tables(db)' /\ Process' /\ TaskOK' /\ Serves' /\ Operation'
  BY <1>1, <1>2, <1>3, <1>4 DEF ServiceInv, Process, TaskOK, Serves, Operation, Reconciling
<1>7. Preparing' /\ Fresh'
  BY <1>1, <1>2 DEF Preparing, Fresh, Unspent, Creating
<1>8. Seals' /\ History'
  BY <1>1 DEF ServiceInv, Seals, History, Holds, Stored
<1> QED
  BY <1>5, <1>6, <1>7, <1>8 DEF ServiceInv

\* The process starts, or the operator clears the latch.
LEMMA StartProcessKeepsInv ==
    ASSUME ServiceInv, StartProcess
    PROVE  ServiceInv'
<1>1. /\ runtime = "down" /\ UNCHANGED <<db, providerVars, serviceVars>>
      /\ runtime' \in {"down", "open", "recovery"} /\ latch' \in BOOLEAN
  BY DEF StartProcess, StartRuntime, ClearLatch, ServiceInv, ServiceTypes
<1>2. UNCHANGED <<source, provider, call, prep, wrapped, sealed, task, composed, granted,
                  sentinelSeals>>
  BY <1>1 DEF providerVars, serviceVars
<1>3. provider[P] = NoProvider /\ task = NoTask
  BY <1>1 DEF ServiceInv, Process
<1>4. ServiceTypes'
  BY <1>1, <1>2 DEF ServiceInv, ServiceTypes
<1>5. Tables(db)' /\ Process' /\ TaskOK' /\ Serves' /\ Operation'
  BY <1>1, <1>2, <1>3 DEF ServiceInv, Process, TaskOK, Serves, Operation, Holds
<1>6. Preparing' /\ Fresh' /\ Seals' /\ History'
  BY <1>1, <1>2 DEF ServiceInv, Preparing, Fresh, Unspent, Seals, History, Holds, Stored
<1> QED
  BY <1>4, <1>5, <1>6 DEF ServiceInv

-----------------------------------------------------------------------------
(* The theorems.                                                           *)

\* The invariant holds of the empty tables.
LEMMA InitEstablishesServiceInv == Init => ServiceInv
<1> SUFFICES ASSUME Init PROVE ServiceInv
  OBVIOUS
<1>1. /\ db = EmptyTables /\ runtime = "down" /\ latch = FALSE
      /\ task = NoTask /\ composed = FALSE /\ granted = {} /\ sentinelSeals = {}
      /\ source \in [Path -> Source] /\ provider = [p \in Provider |-> NoProvider]
      /\ call = [p \in Provider |-> Ended("ok")] /\ prep = {} /\ wrapped = {}
      /\ sealed = [k \in Key |-> [n \in Nonce |-> 0]]
  BY DEF Init, CatalogInit, ProviderInit
<1>2. /\ task.op = "none" /\ task.step = "none" /\ task.waiting = FALSE
      /\ task \in TaskType /\ task.step \in Steps(task.op)
  BY <1>1 DEF NoTask, TaskType, Steps, Calls
<1>3. /\ provider[P] = NoProvider /\ provider \in [Provider -> ProviderState]
      /\ call[P].op = "none" /\ call = [p \in Provider |-> call[p]]
  BY <1>1, Composition DEF NoProvider, ProviderState, SourceStatus, Ended
<1>4. NoProvider.path = None /\ NoProvider.pin = None
  BY DEF NoProvider
<1>5. sealed \in [Key -> [Nonce -> Nat]] /\ \A k \in Key, n \in Nonce : sealed[k][n] = 0
  BY <1>1
<1>6. ServiceTypes
  BY <1>1, <1>3, <1>5 DEF ServiceTypes
<1>7. db.catalog = None /\ db.ledger = {} /\ db.sentinel = None /\ db.keys = {} /\ IsTables(db)
  BY <1>1 DEF EmptyTables, IsTables
<1>8. Tables(db)
  BY <1>7, FS_EmptySet DEF Tables, TableTypes, SchemaAccepts
<1>9. Process /\ TaskOK /\ Serves /\ Operation
  BY <1>1, <1>2, <1>3, <1>4 DEF Process, TaskOK, Serves, Operation, Reconciling
<1>10. Preparing /\ Fresh
  BY <1>1, <1>2 DEF Preparing, Fresh, Unspent, Creating
<1>11. Seals /\ History
  BY <1>1, <1>5 DEF Seals, History
<1> QED
  BY <1>6, <1>8, <1>9, <1>10, <1>11 DEF ServiceInv

\* Every step keeps the invariant.
LEMMA NextKeepsServiceInv == ServiceInv /\ [Next]_vars => ServiceInv'
<1> SUFFICES ASSUME ServiceInv, [Next]_vars PROVE ServiceInv'
  OBVIOUS
<1>1. CASE UNCHANGED vars
  <2>1. UNCHANGED <<db, runtime, latch, task, composed, granted, sentinelSeals>>
    BY <1>1 DEF vars, catalogVars, serviceVars
  <2>2. UNCHANGED <<source, provider, call, prep, wrapped, sealed>>
    BY <1>1 DEF vars, providerVars
  <2>3. ServiceTypes' /\ Tables(db)' /\ Process' /\ TaskOK' /\ Serves' /\ Operation'
    BY <2>1, <2>2 DEF ServiceInv, ServiceTypes, Process, TaskOK, Serves, Operation, Holds
  <2>4. Preparing' /\ Fresh' /\ Seals' /\ History'
    BY <2>1, <2>2 DEF ServiceInv, Preparing, Fresh, Unspent, Seals, History, Holds, Stored
  <2> QED
    BY <2>3, <2>4 DEF ServiceInv
<1>2. CASE CatalogStep
  BY <1>2, LoadCatalogKeepsInv, LoadRecordKeepsInv, BeginCatalogKeepsInv, FinishCatalogKeepsInv,
     ReserveCatalogKeepsInv, PublishCatalogKeepsInv, FetchCatalogKeepsInv, RecoverCatalogKeepsInv
     DEF CatalogStep
<1>3. CASE SentinelStep
  BY <1>3, ReadCommitmentKeepsInv, SealSentinelKeepsInv, ResealSentinelKeepsInv DEF SentinelStep
<1>4. CASE CallStep
  BY <1>4, ConstructProviderKeepsInv, CallProviderKeepsInv, ConsumePreparationKeepsInv,
     TakeResultKeepsInv DEF CallStep
<1>5. CASE ProviderStep
  BY <1>5, WorkKeepsInv, OperationEndKeepsInv DEF ProviderStep
<1>6. CASE \/ \E op \in Composing \cup Reconciling : StartBootstrap(op)
           \/ \E op \in {"create", "open"}, b \in Binding : StartService(op, b)
  BY <1>6, StartsKeepInv
<1>7. CASE Environment
  BY <1>7, ServiceEnvironmentKeepsInv
<1>8. CASE CloseProcess
  BY <1>8, CloseProcessKeepsInv
<1>9. CASE StopProcess
  BY <1>9, StopProcessKeepsInv
<1>10. CASE StartProcess
  BY <1>10, StartProcessKeepsInv
<1> QED
  BY <1>1, <1>2, <1>3, <1>4, <1>5, <1>6, <1>7, <1>8, <1>9, <1>10 DEF Next, TaskStep

\* The invariant holds in every reachable state of the service.
THEOREM ServiceInvariance == Spec => []ServiceInv
BY InitEstablishesServiceInv, NextKeepsServiceInv, PTL DEF Spec

\* No nonce encrypts twice under one wrapping key over the whole life of the
\* installation, and none that a sentinel was sealed with encrypts a profile key
\* (reserve_profile_preparation, create_readiness_sentinel).
THEOREM NonceLifeTheorem == Spec => []NonceNeverReused
<1>1. ServiceInv => NonceNeverReused
  <2> SUFFICES ASSUME ServiceInv, NEW k \in Key, NEW n \in Nonce
               PROVE  /\ sealed[k][n] <= 1
                      /\ [key |-> k, nonce |-> n] \in sentinelSeals => sealed[k][n] = 0
    BY DEF NonceNeverReused
  <2>1. sealed[k][n] <= 1
    BY DEF ServiceInv, Seals
  <2>2. ASSUME [key |-> k, nonce |-> n] \in sentinelSeals, sealed[k][n] # 0 PROVE FALSE
    <3>1. db.catalog # None /\ Holds(db, n, "profile")
      BY <2>2 DEF ServiceInv, Seals
    <3>2. Holds(db, n, "sentinel")
      BY <2>2 DEF ServiceInv, History
    <3>3. PICK r \in db.ledger : r.nonce = n /\ r.purpose = "profile"
      BY <3>1 DEF Holds
    <3>4. PICK x \in db.ledger : x.nonce = n /\ x.purpose = "sentinel"
      BY <3>2 DEF Holds
    <3>5. r = x
      BY <3>1, <3>3, <3>4, Initialized DEF ServiceInv
    <3> QED
      BY <3>3, <3>4, <3>5
  <2> QED
    BY <2>1, <2>2
<1> QED
  BY <1>1, ServiceInvariance, PTL

\* A nonce is in the durable ledger of its key before anything is encrypted under
\* it (create_profile_key, begin_initialization).
THEOREM ReservedTheorem == Spec => []SealedIsReserved
<1>1. ServiceInv => SealedIsReserved
  <2> SUFFICES ASSUME ServiceInv, NEW k \in Key, NEW n \in Nonce,
                      sealed[k][n] > 0 \/ [key |-> k, nonce |-> n] \in sentinelSeals
               PROVE  (\E r \in db.ledger : r.nonce = n) /\ db.catalog.commitment = k
    BY DEF SealedIsReserved
  <2>1. CASE sealed[k][n] > 0
    <3>1. sealed[k][n] # 0
      BY <2>1 DEF ServiceInv, ServiceTypes
    <3> QED
      BY <3>1 DEF ServiceInv, Seals, Holds
  <2>2. CASE [key |-> k, nonce |-> n] \in sentinelSeals
    BY <2>2 DEF ServiceInv, History, Holds
  <2> QED
    BY <2>1, <2>2
<1> QED
  BY <1>1, ServiceInvariance, PTL

\* A wrapped key that create_profile_key returned stays in the catalog for ever.
THEOREM GrantedTheorem == Spec => []GrantedIsDurable
<1>1. ServiceInv => GrantedIsDurable
  <2> SUFFICES ASSUME ServiceInv, NEW w \in granted PROVE w \in Records(db, w.binding)
    BY DEF GrantedIsDurable
  <2>1. w \in WrappedKey
    BY DEF ServiceInv, ServiceTypes
  <2>2. PICK v \in db.keys, r \in db.ledger :
          v.binding = w.binding /\ v.key = w.key /\ r.seq = v.seq /\ r.nonce = w.nonce
    BY DEF ServiceInv, History, Stored
  <2>3. \A x \in db.ledger : x.seq = r.seq => x = r
    BY DEF ServiceInv, Tables, SchemaAccepts
  <2>4. At(db, v.seq) = r
    BY <2>2, <2>3 DEF At
  <2>5. w = [binding |-> w.binding, nonce |-> At(db, v.seq).nonce, key |-> v.key]
    BY <2>1, <2>2, <2>4 DEF WrappedKey
  <2>6. v \in ProfileRow(db, w.binding)
    BY <2>2 DEF ProfileRow
  <2> QED
    BY <2>5, <2>6 DEF Records
<1> QED
  BY <1>1, ServiceInvariance, PTL

\* The sentinel and every published key are under the key that the first
\* transaction committed to (source_commitment, the provider's pin).
THEOREM OneKeyTheorem == Spec => []OneKeyAuthenticates
<1>1. ServiceInv => OneKeyAuthenticates
  BY DEF ServiceInv, Tables, Loads, OneKeyAuthenticates
<1> QED
  BY <1>1, ServiceInvariance, PTL

\* Every catalog that was committed passes the strict load, and a preparing one
\* can be resumed (_load_snapshot, _load_initialization_record).
THEOREM LoadsTheorem == Spec => []CatalogLoads
<1>1. ServiceInv => CatalogLoads
  <2> SUFFICES ASSUME ServiceInv, db.catalog # None
               PROVE  /\ LoadSnapshot(db) = "ok"
                      /\ db.catalog.state = "preparing" => LoadInitialization(db) = "ok"
    BY DEF CatalogLoads
  <2>1. /\ LoadSnapshot(db) = "ok" /\ ValidateLedger(db) /\ Loads(db)
        /\ \A r, s \in db.ledger : r.seq = s.seq => r = s
    BY Initialized DEF ServiceInv
  <2>2. ASSUME db.catalog.state = "preparing" PROVE LoadInitialization(db) = "ok"
    <3> DEFINE s == {r \in db.ledger : r.purpose = "sentinel" /\ r.lifecycle = "reserved"}
    <3>1. PICK x \in db.ledger : x.seq = 1 /\ x.purpose = "sentinel"
      BY <2>1 DEF ValidateLedger
    <3>2. \A r \in db.ledger : r.purpose = "sentinel" => r = x
      BY <2>1, <3>1 DEF ValidateLedger
    <3>3. x.lifecycle = "reserved"
      BY <2>1, <2>2, <3>1 DEF Loads
    <3>4. s = {x}
      BY <3>1, <3>2, <3>3
    <3>5. Cardinality(s) = 1
      BY <3>4, FS_Singleton
    <3> QED
      BY <2>1, <2>2, <3>5 DEF LoadInitialization
  <2> QED
    BY <2>1, <2>2
<1> QED
  BY <1>1, ServiceInvariance, PTL

-----------------------------------------------------------------------------
(* Recovery, once a caller was told of it, is final.                       *)

Handles == handle \in [Handle -> [owner : Provider \cup {None},
                                  state : {"issued", "active", "in_use", "closed"}]]

\* The catalog refuses every call, and none gets past its first steps.
Told ==
    /\ reported \in BOOLEAN
    /\ reported = TRUE =>
          /\ db.catalog # None /\ db.catalog.state = "recovery_required"
          /\ task.step \in {"none", "load", "commitment", "begin"}

FinalInv == ServiceInv /\ Handles /\ Told

\* No key is opened.
NoneOpened == \A h \in Handle : handle'[h].state = "issued" => handle[h].state = "issued"

\* A call that ends opens no key.
LEMMA EndHandles ==
    ASSUME Handles, DropLocals
    PROVE  Handles' /\ NoneOpened /\ UNCHANGED sealed
<1>1. CASE Drop(P)
  <2>1. /\ handle' = [h \in Handle |-> IF handle[h].owner = P THEN NoHandle ELSE handle[h]]
        /\ UNCHANGED sealed
    BY <1>1 DEF Drop
  <2>2. NoHandle.state = "closed" /\ NoHandle \in [owner : Provider \cup {None},
                                state : {"issued", "active", "in_use", "closed"}]
    BY DEF NoHandle
  <2> QED
    BY <2>1, <2>2 DEF Handles, NoneOpened
<1>2. CASE UNCHANGED <<handle, sealed>>
  BY <1>2 DEF Handles, NoneOpened
<1> QED
  BY <1>1, <1>2 DEF DropLocals

\* Nor does the owner of the key file or the user of a handle.
LEMMA EnvironmentHandles ==
    ASSUME Handles, Environment
    PROVE  Handles' /\ NoneOpened /\ UNCHANGED <<sealed, catalogVars, serviceVars>>
<1>1. UNCHANGED <<sealed, catalogVars, serviceVars>>
  BY DEF Environment, ChangeSource, HandleNext, EnterHandle, UseHandle, FinishUse, CloseHandle,
         HandleStep
<1>2. ASSUME NEW status \in SourceStatus, NEW k \in Key, ChangeSource(KeyPath, status, k)
      PROVE  Handles' /\ NoneOpened
  BY <1>2 DEF ChangeSource, Handles, NoneOpened
<1>3. ASSUME NEW h \in Handle, NEW from, NEW to \in {"active", "in_use", "closed"},
             HandleStep(h, from, to)
      PROVE  Handles' /\ NoneOpened
  BY <1>3 DEF HandleStep, Handles, NoneOpened
<1>4. ASSUME NEW h \in Handle, HandleNext(h) PROVE Handles' /\ NoneOpened
  BY <1>3, <1>4 DEF HandleNext, EnterHandle, UseHandle, FinishUse, CloseHandle
<1> QED
  BY <1>1, <1>2, <1>4 DEF Environment

\* The handles keep their type.
LEMMA NextKeepsHandles ==
    ASSUME ServiceInv, Handles, [Next]_vars
    PROVE  Handles'
<1>1. ASSUME UNCHANGED handle PROVE Handles'
  BY <1>1 DEF Handles
<1>2. ASSUME GiveUp \/ EndCall \/ DropLocals PROVE Handles'
  BY <1>2, EndHandles DEF GiveUp, EndCall
<1>3. CASE UNCHANGED vars
  BY <1>1, <1>3 DEF vars, providerVars
<1>4. ASSUME Quiet PROVE Handles'
  BY <1>1, <1>4 DEF Quiet, providerVars
<1>5. CASE CatalogStep
  BY <1>2, <1>4, <1>5 DEF CatalogStep, LoadCatalog, LoadRecord, BeginCatalog, FinishCatalog,
     ReserveCatalog, PublishCatalog, FetchCatalog, RecoverCatalog, Answer
<1>6. CASE SentinelStep
  BY <1>1, <1>2, <1>4, <1>6 DEF SentinelStep, ReadCommitment, SealSentinel, ResealSentinel, Answer,
     providerVars
<1>7. CASE CallStep
  <2>1. CASE ConstructProvider \/ ConsumePreparation
    BY <1>1, <2>1 DEF ConstructProvider, ConsumePreparation, Construct, Consume
  <2>2. CASE CallProvider
    BY <1>1, <2>2 DEF CallProvider, ReadinessBegin, PrepareBegin, CompleteBegin, UnwrapBegin,
       Enter, RefuseUnready
  <2>3. CASE TakeResult
    BY <1>1, <1>2, <1>4, <2>3 DEF TakeResult, ProviderFailed, providerVars
  <2> QED
    BY <1>7, <2>1, <2>2, <2>3 DEF CallStep
<1>8. CASE ProviderStep
  <2>1. CASE Work(P)
    BY <1>1, <2>1 DEF Work, SentinelRejected, RecordAuthenticatedSentinel, ReserveRefused,
       ReserveNonce, Encrypt, Decrypt
  <2>2. CASE UnwrapEnd(P)
    <3>1. \/ UNCHANGED handle
          \/ \E h : handle' = [handle EXCEPT ![h] = NewHandle(P)]
      BY <2>2 DEF UnwrapEnd
    <3>2. NewHandle(P) \in [owner : Provider \cup {None},
                            state : {"issued", "active", "in_use", "closed"}]
      BY Composition DEF NewHandle
    <3> QED
      BY <1>1, <3>1, <3>2 DEF Handles
  <2>3. CASE \/ LeaveChanged(P) \/ LeaveFailed(P) \/ SourceStatusEnd(P) \/ ReadinessEnd(P)
             \/ PrepareEnd(P) \/ CompleteEnd(P)
    BY <1>1, <2>3 DEF LeaveChanged, LeaveFailed, SourceStatusEnd, ReadinessEnd, PrepareEnd,
       CompleteEnd
  <2> QED
    BY <1>8, <2>1, <2>2, <2>3 DEF ProviderStep, End
<1>9. CASE \/ \E op \in Composing \cup Reconciling : StartBootstrap(op)
           \/ \E op \in {"create", "open"}, b \in Binding : StartService(op, b)
  BY <1>1, <1>9 DEF StartBootstrap, StartService, Start, providerVars
<1>10. CASE Environment
  BY <1>10, EnvironmentHandles
<1>11. CASE CloseProcess \/ StartProcess
  BY <1>1, <1>11 DEF CloseProcess, StartProcess, providerVars
<1>12. CASE StopProcess
  <2>1. handle' = [h \in Handle |-> NoHandle]
    BY <1>12 DEF StopProcess
  <2> QED
    BY <2>1 DEF Handles, NoHandle
<1> QED
  BY <1>3, <1>5, <1>6, <1>7, <1>8, <1>9, <1>10, <1>11, <1>12 DEF Next, TaskStep

\* The only step that tells a caller has written the state of the catalog.
LEMMA TellsOfRecovery ==
    ASSUME ServiceInv, reported = FALSE, [Next]_vars
    PROVE  Told'
<1>1. ASSUME UNCHANGED reported PROVE Told'
  BY <1>1 DEF Told
<1>2. CASE RecoverCatalog
  <2>1. Running("recover")
    BY <1>2 DEF RecoverCatalog
  <2>2. Ready /\ task.step = "recover"
    BY <2>1, RunningTask
  <2>3. db.catalog # None /\ db.sentinel # None /\ Tables(db)
    BY <2>2 DEF ServiceInv, TaskOK
  <2> DEFINE t == RequireRecovery(db)
  <2>4. PICK code : Transact(t, code) /\ reported' = (reported \/ code = "ok")
    BY <1>2 DEF RecoverCatalog
  <2>5. t.code = "ok" =>
          /\ Tables(t.tables) /\ Grows(db, t.tables)
          /\ t.tables.catalog # None /\ t.tables.catalog.state = "recovery_required"
    BY <2>3, RecoverTables
  <2> HIDE DEF t
  <2>6. code = "ok" => db'.catalog # None /\ db'.catalog.state = "recovery_required"
    BY <2>2, <2>4, <2>5, TransactMoves
  <2>7. task'.step = "none"
    BY <1>2 DEF RecoverCatalog, EndCall, NoTask
  <2> QED
    BY <2>4, <2>6, <2>7 DEF Told
<1>3. CASE UNCHANGED vars
  BY <1>1, <1>3 DEF vars, serviceVars
<1>4. CASE \/ LoadCatalog \/ LoadRecord \/ BeginCatalog \/ FinishCatalog \/ ReserveCatalog
           \/ PublishCatalog \/ FetchCatalog
  BY <1>1, <1>4 DEF LoadCatalog, LoadRecord, BeginCatalog, FinishCatalog, ReserveCatalog,
     PublishCatalog, FetchCatalog, Answer, Quiet, GiveUp
<1>5. CASE SentinelStep
  BY <1>1, <1>5 DEF SentinelStep, ReadCommitment, SealSentinel, ResealSentinel, Answer, Quiet,
     GiveUp
<1>6. CASE CallStep
  BY <1>1, <1>6 DEF CallStep, ConstructProvider, CallProvider, ConsumePreparation, TakeResult,
     ProviderFailed, Quiet, GiveUp
<1>7. CASE ProviderStep \/ Environment \/ CloseProcess \/ StartProcess \/ StopProcess
  BY <1>1, <1>7 DEF ProviderStep, Environment, CloseProcess, StartProcess, StopProcess, serviceVars
<1>8. CASE \/ \E op \in Composing \cup Reconciling : StartBootstrap(op)
           \/ \E op \in {"create", "open"}, b \in Binding : StartService(op, b)
  BY <1>1, <1>8 DEF StartBootstrap, StartService, Start
<1> QED
  BY <1>2, <1>3, <1>4, <1>5, <1>6, <1>7, <1>8 DEF Next, TaskStep, CatalogStep

\* What a step leaves alone once a caller was told.
Frozen == UNCHANGED <<reported, db, sealed, sentinelSeals, granted>> /\ NoneOpened

\* A call that ends then.
LEMMA EndsFrozen ==
    ASSUME Handles, Told, reported = TRUE, GiveUp, UNCHANGED db
    PROVE  Told' /\ Frozen
<1>1. UNCHANGED <<reported, sentinelSeals, granted>> /\ task' = NoTask /\ DropLocals
  BY DEF GiveUp, EndCall
<1>2. UNCHANGED sealed /\ NoneOpened
  BY <1>1, EndHandles
<1>3. task'.step = "none"
  BY <1>1 DEF NoTask
<1> QED
  BY <1>1, <1>2, <1>3 DEF Told, Frozen

\* No step of a call gets past load_catalog or begin_initialization, and nothing
\* else touches the tables or opens a key.
LEMMA ToldIsFinal ==
    ASSUME FinalInv, reported = TRUE, [Next]_vars
    PROVE  Told' /\ Frozen
<1>1. /\ ServiceInv /\ Handles /\ Told
      /\ db.catalog # None /\ db.catalog.state = "recovery_required"
      /\ task.step \in {"none", "load", "commitment", "begin"}
  BY DEF FinalInv, Told
<1>2. task.waiting = FALSE /\ call[P].op = "none" /\ LoadSnapshot(db) = "ok"
  <2>1. task.waiting = FALSE
    BY <1>1 DEF ServiceInv, TaskOK, TaskType
  <2>2. LoadSnapshot(db) = "ok"
    BY <1>1, Initialized DEF ServiceInv
  <2> QED
    BY <1>1, <2>1, <2>2 DEF ServiceInv, Serves
<1>3. ASSUME UNCHANGED <<reported, db, sealed, sentinelSeals, granted, handle>>,
             task'.step \in {"none", "load", "commitment", "begin"}
      PROVE  Told' /\ Frozen
  BY <1>1, <1>3 DEF Told, Frozen, NoneOpened
<1>4. CASE UNCHANGED vars
  BY <1>1, <1>3, <1>4 DEF vars, catalogVars, providerVars, serviceVars
<1>5. CASE LoadCatalog
  <2>1. Running("load")
    BY <1>5 DEF LoadCatalog
  <2>2. Ready
    BY <1>1, <2>1, RunningTask
  <2>3. PICK code :
          /\ Read(LoadedFor(task.op), code) \/ ReconciliationRead(LoadedFor(task.op), code)
          /\ Answer(code)
    BY <1>5 DEF LoadCatalog
  <2>4. db' = db /\ (code = "ok" => LoadedFor(task.op) = "ok")
    BY <2>2, <2>3, ReadMoves
  <2>5. LoadedFor(task.op) # "ok"
    BY <1>1, <1>2 DEF LoadedFor, Required
  <2>6. GiveUp
    BY <2>3, <2>4, <2>5 DEF Answer
  <2> QED
    BY <1>1, <2>4, <2>6, EndsFrozen
<1>6. CASE BeginCatalog
  <2>1. Running("begin")
    BY <1>6 DEF BeginCatalog
  <2> DEFINE b == BeginInitialization(db, task.nonce, task.key)
  <2>2. b.code = "identity_mismatch"
    BY <1>1 DEF BeginInitialization, Raise
  <2>3. PICK code :
          /\ Transact(b, code)
          /\ (code = "ok" /\ Quiet) \/ (code # "ok" /\ GiveUp)
    BY <1>6 DEF BeginCatalog
  <2> HIDE DEF b
  <2>4. db' = db /\ code # "ok"
    BY <2>2, <2>3 DEF Transact, catalogVars
  <2> QED
    BY <1>1, <2>3, <2>4, EndsFrozen
<1>7. CASE ReadCommitment
  <2>1. Running("commitment") /\ UNCHANGED db
    BY <1>7 DEF ReadCommitment, catalogVars
  <2>2. CASE GiveUp
    BY <1>1, <2>1, <2>2, EndsFrozen
  <2>3. ASSUME NEW s, NEW n, Proceed([task EXCEPT !.nonce = n, !.key = s.pin.key]), Quiet
        PROVE  Told' /\ Frozen
    <3>1. task \in TaskType /\ task.step = "commitment" /\ "commitment" \in Steps(task.op)
      BY <1>1, <2>1, RunningTask
    <3>2. task.op = "initialize"
      BY <1>1, <2>1, <3>1, RunningTask DEF Steps, Creating, Calls, Composing, Reconciling
    <3>3. After(task.op, task.step) = "begin"
      BY <3>1, <3>2, AfterSteps
    <3>4. task'.step = "begin"
      BY <2>3, <3>1, <3>3 DEF Proceed, TaskType
    <3> QED
      BY <1>3, <2>1, <2>3, <3>4 DEF Quiet, providerVars
  <2> QED
    BY <1>7, <2>2, <2>3 DEF ReadCommitment
<1>8. CASE \/ LoadRecord \/ FinishCatalog \/ ReserveCatalog \/ PublishCatalog \/ FetchCatalog
           \/ RecoverCatalog \/ SealSentinel \/ ResealSentinel
  BY <1>1, <1>8 DEF LoadRecord, FinishCatalog, ReserveCatalog, PublishCatalog, FetchCatalog,
     RecoverCatalog, SealSentinel, ResealSentinel, Running
<1>9. CASE CallStep
  BY <1>1, <1>2, <1>9 DEF CallStep, ConstructProvider, CallProvider, ConsumePreparation,
     TakeResult, Running
<1>10. CASE ProviderStep
  <2>1. CASE Work(P)
    BY <1>2, <2>1 DEF Work, SentinelRejected, RecordAuthenticatedSentinel, ReserveRefused,
       ReserveNonce, Encrypt, Decrypt, Working
  <2>2. CASE End(P)
    BY <1>2, <2>2 DEF End, LeaveChanged, LeaveFailed, SourceStatusEnd, ReadinessEnd, PrepareEnd,
       CompleteEnd, UnwrapEnd, Leaves, Op
  <2> QED
    BY <1>10, <2>1, <2>2 DEF ProviderStep
<1>11. ASSUME NEW op \in Calls \ {"none"}, NEW b, Start(op, b) PROVE Told' /\ Frozen
  <2>1. Script(op)[1] \in {"load", "commitment"}
    BY FirstSteps DEF Calls, Composing, Reconciling
  <2>2. /\ task' = [NoTask EXCEPT !.op = op, !.step = Script(op)[1], !.binding = b]
        /\ UNCHANGED <<catalogVars, providerVars, granted, sentinelSeals, reported>>
    BY <1>11 DEF Start
  <2>3. task'.step = Script(op)[1]
    BY <2>2 DEF NoTask
  <2> QED
    BY <1>3, <2>1, <2>2, <2>3 DEF catalogVars, providerVars
<1>12. CASE \/ \E op \in Composing \cup Reconciling : StartBootstrap(op)
            \/ \E op \in {"create", "open"}, b \in Binding : StartService(op, b)
  <2>1. Composing \cup Reconciling \cup {"create", "open"} \subseteq Calls \ {"none"}
    BY DEF Calls, Composing, Reconciling
  <2> QED
    BY <1>11, <1>12, <2>1 DEF StartBootstrap, StartService
<1>13. CASE Environment
  BY <1>1, <1>13, EnvironmentHandles DEF Told, Frozen, catalogVars, serviceVars
<1>14. CASE CloseProcess \/ StartProcess
  BY <1>1, <1>3, <1>14 DEF CloseProcess, CloseRuntime, StartProcess, StartRuntime, ClearLatch,
     providerVars, serviceVars
<1>15. CASE StopProcess
  <2>1. /\ UNCHANGED <<reported, db, sealed, sentinelSeals, granted>> /\ task' = NoTask
        /\ handle' = [h \in Handle |-> NoHandle]
    BY <1>15 DEF StopProcess, StopRuntime
  <2>2. task'.step = "none" /\ NoneOpened
    BY <2>1 DEF NoTask, NoHandle, NoneOpened
  <2> QED
    BY <1>1, <2>1, <2>2 DEF Told, Frozen
<1> QED
  BY <1>4, <1>5, <1>6, <1>7, <1>8, <1>9, <1>10, <1>12, <1>13, <1>14, <1>15
     DEF Next, TaskStep, CatalogStep, SentinelStep

\* Once a caller was told that a failure of the provider requires recovery, key work
\* is over for good: no table changes, nothing is encrypted, no key is returned and
\* none is opened (KeyCatalogService, require_recovery).
THEOREM FinalTheorem == Spec => RecoveryIsFinal
<1>1. Init => FinalInv
  <2> SUFFICES ASSUME Init PROVE Handles /\ Told
    BY InitEstablishesServiceInv DEF FinalInv
  <2>1. handle = [h \in Handle |-> NoHandle] /\ reported = FALSE
    BY DEF Init, ProviderInit
  <2> QED
    BY <2>1 DEF Handles, Told, NoHandle
<1>2. FinalInv /\ [Next]_vars => FinalInv'
  <2> SUFFICES ASSUME FinalInv, [Next]_vars PROVE FinalInv'
    OBVIOUS
  <2>1. ServiceInv /\ Handles /\ reported \in BOOLEAN
    BY DEF FinalInv, Told
  <2>2. ServiceInv' /\ Handles'
    BY <2>1, NextKeepsServiceInv, NextKeepsHandles
  <2>3. Told'
    BY <2>1, TellsOfRecovery, ToldIsFinal
  <2> QED
    BY <2>2, <2>3 DEF FinalInv
<1>3. FinalInv /\ [Next]_vars =>
        [reported =>
          /\ UNCHANGED <<reported, db, sealed, sentinelSeals, granted>>
          /\ \A h \in Handle : handle'[h].state = "issued" => handle[h].state = "issued"]_vars
  <2> SUFFICES ASSUME FinalInv, [Next]_vars, reported
               PROVE  /\ UNCHANGED <<reported, db, sealed, sentinelSeals, granted>>
                      /\ \A h \in Handle : handle'[h].state = "issued" => handle[h].state = "issued"
    OBVIOUS
  <2>1. reported = TRUE
    BY DEF FinalInv, Told
  <2> QED
    BY <2>1, ToldIsFinal DEF Frozen, NoneOpened
<1> QED
  BY <1>1, <1>2, <1>3, PTL DEF Spec, RecoveryIsFinal
=============================================================================
