--------------------------- MODULE SQLiteRuntime ---------------------------
(***************************************************************************)
(* The owner of the SQLite database: the writer lease, the dirty marker,   *)
(* the recovery latch, the readiness of the runtime and the units of work  *)
(* it admits (durability.py, unit_of_work.py, database.py).                *)
(*                                                                         *)
(* A runtime is one SQLiteRuntime object; several compete for one          *)
(* database, in one process or in many.  Threads call the runtime at once. *)
(* A step stands for what a thread does between two points at which        *)
(* another may intervene: a locked section, or file operations that only   *)
(* the owner of the lease performs.  A process may die at every point, the *)
(* machine may lose its power, and every call to the system may fail.      *)
(*                                                                         *)
(* The operator states tell apart what the code tells apart: READY,        *)
(* RECOVERY_REQUIRED, and every state that a pause publishes (PAUSED).     *)
(* external_actions_must_remain_paused is operator # "READY" in the code:  *)
(* both are set at start-up and in _pause, and nowhere else.               *)
(***************************************************************************)
EXTENDS Naturals, FiniteSets

CONSTANTS Runtime, Thread, None

ASSUME OwnerAssumption == None \notin Runtime /\ None \notin Thread

VARIABLES
    flock,      \* the runtime that holds the lock file, or None
    marker,     \* the dirty marker
    latch,      \* the recovery latch
    rt,         \* the runtimes
    pc,         \* where each thread is in a call on each runtime
    owed        \* whether an ownership ended with something to recover (history)

vars == <<flock, marker, latch, rt, pc, owed>>

Role == {"ALL_IN_ONE", "MIGRATION"}

LeaseLifecycle == {"ACTIVE", "SEALED", "INACTIVE"}

Operator == {"READY", "RECOVERY_REQUIRED", "PAUSED"}

-----------------------------------------------------------------------------
(* The two state files.  seen is what a process reads; data and entry say  *)
(* whether the bytes and the directory entry have been synchronised.       *)

Content == {"absent", "partial", "whole"}

File == [seen : Content, data : BOOLEAN, entry : BOOLEAN]

Durable(c) == [seen |-> c, data |-> TRUE, entry |-> TRUE]

\* _create_state_file: f becomes g, and ok says whether it returns.  A file
\* that is there already only has its directory synchronised; one with the
\* wrong bytes is refused; a new one can fail at open, write and either fsync.
CreateStateFile(f, g, ok) ==
    \/ f.seen = "whole" /\ ok /\ g = [f EXCEPT !.entry = TRUE]
    \/ f.seen = "absent" /\ ok /\ g = Durable("whole")
    \/ ~ok /\ g = f
    \/ /\ f.seen = "absent" /\ ~ok
       /\ \/ g = [seen |-> "partial", data |-> FALSE, entry |-> FALSE]
          \/ \E d \in BOOLEAN : g = [seen |-> "whole", data |-> d, entry |-> FALSE]

\* _remove_state_file
RemoveStateFile(f, g, ok) ==
    \/ ok /\ f.seen # "absent" /\ g = Durable("absent")
    \/ ~ok /\ g = f
    \/ ~ok /\ f.seen # "absent" /\ g = [seen |-> "absent", data |-> TRUE, entry |-> FALSE]

\* What a loss of power can leave of a file.
Survivors(f) ==
    CASE f.entry /\ f.data  -> {f.seen}
      [] f.entry /\ ~f.data -> {"partial", f.seen}
      [] ~f.entry /\ f.data -> {"absent", "whole"}
      [] OTHER              -> Content

\* _preserve_recovery_state
PreserveRecoveryState(ok) ==
    \E marked, latched \in BOOLEAN, m, l \in File :
        /\ CreateStateFile(marker, m, marked)
        /\ IF marked THEN CreateStateFile(latch, l, latched)
                     ELSE l = latch /\ ~latched
        /\ marker' = m
        /\ latch' = l
        /\ ok = latched

-----------------------------------------------------------------------------
(* Runtimes.                                                               *)

\* lifecycle and work are the locks of that name; out counts the connections
\* checked out; mustLatch is requires_latch of a clean close.  unproven
\* and failure are history: a write that no validated shutdown has covered,
\* and a pause published by database work.
RuntimeState ==
    [lease : LeaseLifecycle, role : Role, closed : BOOLEAN,
     accepting : BOOLEAN, operator : Operator, requires : BOOLEAN,
     lifecycle : Thread \cup {None}, work : BOOLEAN, out : Nat,
     mustLatch : BOOLEAN,
     unproven : BOOLEAN, failure : BOOLEAN]

NoRuntime ==
    [lease |-> "INACTIVE", role |-> "ALL_IN_ONE", closed |-> TRUE,
     accepting |-> FALSE, operator |-> "READY", requires |-> FALSE,
     lifecycle |-> None, work |-> FALSE, out |-> 0, mustLatch |-> FALSE,
     unproven |-> FALSE, failure |-> FALSE]

\* A unit of work or a recovery inspection that holds the reservation.
WorkStep == {"admitted", "working", "committing", "reading", "connecting",
             "closing", "reporting", "releasing"}

\* A shutdown that holds the reservation.
ShutdownStep == {"sealing", "validating", "validated", "latching", "unmarking",
                 "unlocking", "invalid", "failed", "forsaking",
                 "forsakenSealing", "forsakenUnlocking", "closed", "leaving"}

Step == {"idle", "starting", "opening", "givingUp", "inspecting", "migrating",
         "disconnecting", "refused", "closeReserving", "abandonReserving",
         "blocked"} \cup WorkStep \cup ShutdownStep

Owns(r) == rt[r].lease \in {"ACTIVE", "SEALED"}

Goto(r, t, step) == pc' = [pc EXCEPT ![r][t] = step]

At(r, t, step) == pc[r][t] = step

\* The end of r's ownership leaves something to recover.
Unfinished(r) == Owns(r) /\ (rt[r].unproven \/ rt[r].failure)

\* assert_accepting_new_work
Accepting(r) == rt[r].lease = "ACTIVE" /\ ~rt[r].closed /\ rt[r].accepting

\* _assert_reconciliation_work
Reconcilable(r) ==
    /\ rt[r].lease = "ACTIVE" /\ ~rt[r].closed
    /\ rt[r].requires /\ ~rt[r].accepting
    /\ rt[r].operator = "RECOVERY_REQUIRED"

\* The runtime after a failure of database work that is classified
\* (_handle_driver_error, _handle_uow_cleanup_failure) and so pauses it, or
\* after one that is not.
AfterFailure(s) ==
    {s, [s EXCEPT !.accepting = FALSE, !.operator = "PAUSED", !.failure = TRUE]}

Paused(s) == [s EXCEPT !.accepting = FALSE, !.operator = "PAUSED"]

\* unseal_after_failed_shutdown
Unsealed(s) ==
    [s EXCEPT !.lease = IF s.lease = "SEALED" /\ s.out = 0 THEN "ACTIVE" ELSE @]

\* The locks that close_cleanly and abandon give back.
Left(s) == [s EXCEPT !.work = FALSE, !.lifecycle = None, !.mustLatch = FALSE]

Init ==
    /\ flock = None
    /\ marker = Durable("absent")
    /\ latch = Durable("absent")
    /\ rt = [r \in Runtime |-> NoRuntime]
    /\ pc = [r \in Runtime |-> [t \in Thread |-> "idle"]]
    /\ owed = FALSE

-----------------------------------------------------------------------------
(* SQLiteRuntime.open                                                      *)

\* SQLiteWriterLease.acquire
Acquire(r, t, role) ==
    /\ \A u \in Thread : At(r, u, "idle")
    /\ rt[r].lease = "INACTIVE"
    /\ flock = None
    /\ flock' = r
    /\ rt' = [rt EXCEPT ![r] = [NoRuntime EXCEPT !.lease = "ACTIVE", !.role = role]]
    /\ Goto(r, t, "starting")
    /\ UNCHANGED <<marker, latch, owed>>

\* The state files are read, an inherited marker is turned into a latch, a
\* migration is refused under a latch, and the marker is set.
MarkDirty(r, t) ==
    /\ At(r, t, "starting")
    /\ \E latched, marked \in BOOLEAN, l, m \in File :
        /\ IF "partial" \in {marker.seen, latch.seen}
           THEN l = latch /\ ~latched
           ELSE IF marker.seen = "whole"
           THEN CreateStateFile(latch, l, latched)
           ELSE l = latch /\ latched
        /\ IF latched /\ ~(rt[r].role = "MIGRATION" /\ l.seen = "whole")
           THEN CreateStateFile(marker, m, marked)
           ELSE m = marker /\ ~marked
        /\ latch' = l
        /\ marker' = m
        /\ Goto(r, t, IF marked THEN "opening" ELSE "givingUp")
        /\ rt' = [rt EXCEPT ![r].requires = l.seen = "whole"]
    /\ UNCHANGED <<flock, owed>>

\* The engine is created, quick_check and the recovery checkpoint pass.
OpenRuntime(r, t) ==
    /\ At(r, t, "opening")
    /\ rt' = [rt EXCEPT ![r].closed = FALSE,
                        ![r].accepting = ~rt[r].requires,
                        ![r].operator = IF rt[r].requires
                                        THEN "RECOVERY_REQUIRED" ELSE "READY"]
    /\ Goto(r, t, "idle")
    /\ UNCHANGED <<flock, marker, latch, owed>>

RefuseDatabase(r, t) ==
    /\ At(r, t, "opening")
    /\ Goto(r, t, "givingUp")
    /\ UNCHANGED <<flock, marker, latch, rt, owed>>

\* The lease is released, or the lock file cannot be unlocked and stays
\* locked until the process ends.
GiveUp(r, t) ==
    /\ At(r, t, "givingUp")
    /\ \/ flock' = None /\ rt' = [rt EXCEPT ![r] = NoRuntime]
       \/ UNCHANGED <<flock, rt>>
    /\ Goto(r, t, "idle")
    /\ UNCHANGED <<marker, latch, owed>>

-----------------------------------------------------------------------------
(* Units of work.                                                          *)

\* unit_of_work, __enter__ and _admit_application_work.  A migration has no
\* units of work: it connects by itself (Connect).
Admit(r, t) ==
    /\ At(r, t, "idle")
    /\ rt[r].role = "ALL_IN_ONE"
    /\ Accepting(r) /\ ~rt[r].work
    /\ rt' = [rt EXCEPT ![r].work = TRUE]
    /\ Goto(r, t, "admitted")
    /\ UNCHANGED <<flock, marker, latch, owed>>

\* As BeginImmediate would be if a checkout that was refused were still
\* returned to the pool and counted there.
BeginUncounted(r, t) ==
    /\ At(r, t, "admitted")
    /\ \/ rt' = [rt EXCEPT ![r].out = @ + 1] /\ Goto(r, t, "working")
       \/ UNCHANGED rt /\ Goto(r, t, "closing")
    /\ UNCHANGED <<flock, marker, latch, owed>>

\* The session checks its connection out and begins its transaction, or
\* fails before or after the checkout.
BeginImmediate(r, t) ==
    /\ At(r, t, "admitted")
    /\ \/ /\ rt[r].lease = "ACTIVE"
          /\ rt' = [rt EXCEPT ![r].out = @ + 1]
          /\ Goto(r, t, "working")
       \/ /\ rt[r].lease = "ACTIVE"
          /\ \E s \in AfterFailure(rt[r]) :
                rt' = [rt EXCEPT ![r] = [s EXCEPT !.out = @ + 1]]
          /\ Goto(r, t, "closing")
       \/ /\ \E s \in AfterFailure(rt[r]) : rt' = [rt EXCEPT ![r] = s]
          /\ Goto(r, t, "releasing")
    /\ UNCHANGED <<flock, marker, latch, owed>>

\* rollback, by the caller or by __exit__.
Rollback(r, t) ==
    /\ At(r, t, "working")
    /\ \E s \in AfterFailure(rt[r]) : rt' = [rt EXCEPT ![r] = s]
    /\ Goto(r, t, "closing")
    /\ UNCHANGED <<flock, marker, latch, owed>>

\* commit asks again whether the runtime accepts work, and rolls back if not ...
CommitGuard(r, t) ==
    /\ At(r, t, "working")
    /\ \/ Accepting(r) /\ UNCHANGED rt /\ Goto(r, t, "committing")
       \/ /\ ~Accepting(r)
          /\ \E s \in AfterFailure(rt[r]) : rt' = [rt EXCEPT ![r] = s]
          /\ Goto(r, t, "closing")
    /\ UNCHANGED <<flock, marker, latch, owed>>

\* ... and then commits.  A commit that fails may have taken effect.
Commit(r, t) ==
    /\ At(r, t, "committing")
    /\ \/ rt' = [rt EXCEPT ![r].unproven = TRUE]
       \/ \E s \in AfterFailure(rt[r]), applied \in BOOLEAN :
            rt' = [rt EXCEPT ![r] = [s EXCEPT !.unproven = @ \/ applied]]
    /\ Goto(r, t, "closing")
    /\ UNCHANGED <<flock, marker, latch, owed>>

\* Session.close returns the connection, and may then still fail.
CloseSession(r, t) ==
    /\ At(r, t, "closing")
    /\ rt' = [rt EXCEPT ![r].out = @ - 1]
    /\ Goto(r, t, "releasing") \/ Goto(r, t, "reporting")
    /\ UNCHANGED <<flock, marker, latch, owed>>

\* _report_cleanup_failure
ReportCleanupFailure(r, t) ==
    /\ At(r, t, "reporting")
    /\ rt' = [rt EXCEPT ![r] = [Paused(@) EXCEPT !.failure = TRUE]]
    /\ Goto(r, t, "releasing")
    /\ UNCHANGED <<flock, marker, latch, owed>>

\* _release_work_once
ReleaseWork(r, t) ==
    /\ At(r, t, "releasing")
    /\ rt' = [rt EXCEPT ![r].work = FALSE]
    /\ Goto(r, t, "idle")
    /\ UNCHANGED <<flock, marker, latch, owed>>

-----------------------------------------------------------------------------
(* Recovery inspection, and the migration's own connection.                *)

\* _admit_reconciliation_work looks at the readiness first ...
AskReconciliation(r, t) ==
    /\ At(r, t, "idle")
    /\ Reconcilable(r)
    /\ Goto(r, t, "inspecting")
    /\ UNCHANGED <<flock, marker, latch, rt, owed>>

\* As ReserveReconciliation would be if it did not look at the reservation.
ReserveReconciliationAnyway(r, t) ==
    /\ At(r, t, "inspecting")
    /\ rt' = [rt EXCEPT ![r].work = TRUE]
    /\ Goto(r, t, "connecting")
    /\ UNCHANGED <<flock, marker, latch, owed>>

\* ... and reserves the work afterwards, without holding the readiness lock.
ReserveReconciliation(r, t) ==
    /\ At(r, t, "inspecting")
    /\ IF rt[r].work
       THEN Goto(r, t, "idle") /\ UNCHANGED rt
       ELSE Goto(r, t, "connecting") /\ rt' = [rt EXCEPT ![r].work = TRUE]
    /\ UNCHANGED <<flock, marker, latch, owed>>

\* register_checkout refuses a lease that is sealed or gone.
ConnectReader(r, t) ==
    /\ At(r, t, "connecting")
    /\ IF rt[r].lease = "ACTIVE"
       THEN rt' = [rt EXCEPT ![r].out = @ + 1] /\ Goto(r, t, "reading")
       ELSE UNCHANGED rt /\ Goto(r, t, "releasing")
    /\ UNCHANGED <<flock, marker, latch, owed>>

\* The reader asks before each of its statements, one of them may fail, and
\* it leaves.
LeaveReader(r, t) ==
    /\ At(r, t, "reading")
    /\ \/ UNCHANGED rt
       \/ Reconcilable(r) /\ \E s \in AfterFailure(rt[r]) : rt' = [rt EXCEPT ![r] = s]
    /\ Goto(r, t, "closing")
    /\ UNCHANGED <<flock, marker, latch, owed>>

\* The key catalog writes under the same admission: it asks again inside its
\* transaction, and commits.
FinishInitialization(r, t) ==
    /\ At(r, t, "reading")
    /\ Reconcilable(r)
    /\ \E s \in AfterFailure(rt[r]) :
        rt' = [rt EXCEPT ![r] = [s EXCEPT !.unproven = TRUE]]
    /\ Goto(r, t, "closing")
    /\ UNCHANGED <<flock, marker, latch, owed>>

\* A migration connects once, as soon as its runtime is open.
Connect(r, t) ==
    /\ At(r, t, "idle")
    /\ rt[r].role = "MIGRATION" /\ Accepting(r) /\ rt[r].out = 0
    /\ rt' = [rt EXCEPT ![r].out = @ + 1]
    /\ Goto(r, t, "migrating")
    /\ UNCHANGED <<flock, marker, latch, owed>>

Migrate(r, t) ==
    /\ At(r, t, "migrating")
    /\ \E s \in AfterFailure(rt[r]), applied \in BOOLEAN :
        rt' = [rt EXCEPT ![r] = [s EXCEPT !.unproven = @ \/ applied]]
    /\ Goto(r, t, "disconnecting")
    /\ UNCHANGED <<flock, marker, latch, owed>>

Disconnect(r, t) ==
    /\ At(r, t, "disconnecting")
    /\ rt' = [rt EXCEPT ![r].out = @ - 1]
    /\ Goto(r, t, "idle")
    /\ UNCHANGED <<flock, marker, latch, owed>>

-----------------------------------------------------------------------------
(* close_cleanly and abandon.                                              *)

\* The lifecycle lock is taken and new work is denied.
BeginShutdown(r, t, step) ==
    /\ At(r, t, "idle")
    /\ ~rt[r].closed /\ rt[r].lifecycle = None
    /\ rt' = [rt EXCEPT ![r].lifecycle = t, ![r].accepting = FALSE]
    /\ Goto(r, t, step)
    /\ UNCHANGED <<flock, marker, latch, owed>>

\* A second call finds the lock taken ...
RefuseShutdown(r, t) ==
    /\ At(r, t, "idle")
    /\ ~rt[r].closed /\ rt[r].lifecycle # None
    /\ Goto(r, t, "refused")
    /\ UNCHANGED <<flock, marker, latch, rt, owed>>

\* ... and pauses the runtime before it raises.
PauseRefused(r, t) ==
    /\ At(r, t, "refused")
    /\ rt' = [rt EXCEPT ![r] = Paused(@)]
    /\ Goto(r, t, "idle")
    /\ UNCHANGED <<flock, marker, latch, owed>>

\* As _deny_new_work_and_reserve_shutdown would be if it did not wait for the
\* reservation of the units of work.
ReserveRegardless(r, t) ==
    /\ pc[r][t] \in {"closeReserving", "abandonReserving"}
    /\ Goto(r, t, IF At(r, t, "closeReserving") THEN "sealing" ELSE "forsaking")
    /\ UNCHANGED <<flock, marker, latch, rt, owed>>

\* _deny_new_work_and_reserve_shutdown
Reserve(r, t) ==
    /\ pc[r][t] \in {"closeReserving", "abandonReserving"}
    /\ IF rt[r].work
       THEN /\ rt' = [rt EXCEPT ![r] = Paused(@)]
            /\ Goto(r, t, "blocked")
       ELSE /\ rt' = [rt EXCEPT ![r].work = TRUE]
            /\ Goto(r, t, IF At(r, t, "closeReserving") THEN "sealing" ELSE "forsaking")
    /\ UNCHANGED <<flock, marker, latch, owed>>

\* Blocked by active work: the evidence is preserved and the call raises.
Blocked(r, t) ==
    /\ At(r, t, "blocked")
    /\ \E ok \in BOOLEAN : PreserveRecoveryState(ok)
    /\ rt' = [rt EXCEPT ![r] = [Paused(@) EXCEPT !.lifecycle = None]]
    /\ Goto(r, t, "idle")
    /\ UNCHANGED <<flock, owed>>

\* As seal_for_shutdown would be without its count of connections.
SealRegardless(r, t) ==
    /\ At(r, t, "sealing")
    /\ rt' = [rt EXCEPT ![r].lease = "SEALED"]
    /\ Goto(r, t, "validating")
    /\ UNCHANGED <<flock, marker, latch, owed>>

\* seal_for_shutdown
Seal(r, t) ==
    /\ At(r, t, "sealing")
    /\ IF rt[r].out = 0
       THEN rt' = [rt EXCEPT ![r].lease = "SEALED"] /\ Goto(r, t, "validating")
       ELSE UNCHANGED rt /\ Goto(r, t, "invalid")
    /\ UNCHANGED <<flock, marker, latch, owed>>

\* The truncating checkpoint and quick_check, on the one connection that
\* shutdown_maintenance admits.
ValidateShutdown(r, t) ==
    /\ At(r, t, "validating")
    /\ \/ /\ rt' = [rt EXCEPT ![r].unproven = FALSE]
          /\ Goto(r, t, "validated")
       \/ /\ UNCHANGED rt \/ rt' = [rt EXCEPT ![r] = Paused(@)]
          /\ Goto(r, t, "invalid")
    /\ UNCHANGED <<flock, marker, latch, owed>>

\* As KeepOwnership would be without unseal_after_failed_shutdown.
KeepOwnershipSealed(r, t) ==
    /\ At(r, t, "invalid")
    /\ \E ok \in BOOLEAN : PreserveRecoveryState(ok)
    /\ rt' = [rt EXCEPT ![r] = Paused(@)]
    /\ Goto(r, t, "leaving")
    /\ UNCHANGED <<flock, owed>>

\* A clean close that could not be validated.
KeepOwnership(r, t) ==
    /\ At(r, t, "invalid")
    /\ \E ok \in BOOLEAN : PreserveRecoveryState(ok)
    /\ rt' = [rt EXCEPT ![r] = Unsealed(Paused(@))]
    /\ Goto(r, t, "leaving")
    /\ UNCHANGED <<flock, owed>>

\* requires_latch is read under the readiness lock ...
DecideLatch(r, t) ==
    /\ At(r, t, "validated")
    /\ rt' = [rt EXCEPT ![r].mustLatch = rt[r].operator # "READY"]
    /\ Goto(r, t, "latching")
    /\ UNCHANGED <<flock, marker, latch, owed>>

\* ... and acted upon, and the engine is disposed of.
SetLatch(r, t) ==
    /\ At(r, t, "latching")
    /\ \E latched, disposed \in BOOLEAN, l \in File :
        /\ IF rt[r].mustLatch THEN CreateStateFile(latch, l, latched)
                              ELSE l = latch /\ latched
        /\ latch' = l
        /\ Goto(r, t, IF latched /\ disposed THEN "unmarking" ELSE "failed")
    /\ UNCHANGED <<flock, marker, rt, owed>>

RemoveMarker(r, t) ==
    /\ At(r, t, "unmarking")
    /\ \E ok \in BOOLEAN, m \in File :
        /\ RemoveStateFile(marker, m, ok)
        /\ marker' = m
        /\ Goto(r, t, IF ok THEN "unlocking" ELSE "failed")
    /\ UNCHANGED <<flock, latch, rt, owed>>

\* SQLiteWriterLease.release
Unlock(r, t) ==
    /\ At(r, t, "unlocking")
    /\ \/ /\ flock' = None
          /\ rt' = [rt EXCEPT ![r].lease = "INACTIVE"]
          /\ owed' = (owed \/ Unfinished(r))
          /\ Goto(r, t, "closed")
       \/ Goto(r, t, "failed") /\ UNCHANGED <<flock, rt, owed>>
    /\ UNCHANGED <<marker, latch>>

\* A validated close that could not put away its evidence.
RestoreEvidence(r, t) ==
    /\ At(r, t, "failed")
    /\ \E ok \in BOOLEAN : PreserveRecoveryState(ok)
    /\ rt' = [rt EXCEPT ![r] = Unsealed(Paused(@))]
    /\ Goto(r, t, "leaving")
    /\ UNCHANGED <<flock, owed>>

\* The end of a call that raised, and of one that returned.  Nothing reads
\* the fields of a closed runtime again but its locks, which are free.
Leave(r, t) ==
    /\ pc[r][t] \in {"leaving", "closed"}
    /\ rt' = [rt EXCEPT ![r] = IF At(r, t, "closed") THEN NoRuntime ELSE Left(@)]
    /\ Goto(r, t, "idle")
    /\ UNCHANGED <<flock, marker, latch, owed>>

\* abandon pauses and preserves the evidence before it touches the lease.
Forsake(r, t) ==
    /\ At(r, t, "forsaking")
    /\ \E ok \in BOOLEAN :
        /\ PreserveRecoveryState(ok)
        /\ Goto(r, t, IF ok THEN "forsakenSealing" ELSE "leaving")
    /\ rt' = [rt EXCEPT ![r] = Paused(@)]
    /\ UNCHANGED <<flock, owed>>

SealForsaken(r, t) ==
    /\ At(r, t, "forsakenSealing")
    /\ IF rt[r].out = 0
       THEN rt' = [rt EXCEPT ![r].lease = "SEALED"] /\ Goto(r, t, "forsakenUnlocking")
       ELSE UNCHANGED rt /\ Goto(r, t, "leaving")
    /\ UNCHANGED <<flock, marker, latch, owed>>

UnlockForsaken(r, t) ==
    /\ At(r, t, "forsakenUnlocking")
    /\ \/ /\ flock' = None
          /\ rt' = [rt EXCEPT ![r].lease = "INACTIVE"]
          /\ owed' = TRUE
          /\ Goto(r, t, "closed")
       \/ /\ rt' = [rt EXCEPT ![r] = Unsealed(@)]
          /\ Goto(r, t, "leaving")
          /\ UNCHANGED <<flock, owed>>
    /\ UNCHANGED <<marker, latch>>

-----------------------------------------------------------------------------
(* The environment.                                                        *)

\* A process ends: its lock goes with it, its files stay as they are seen.
Die(r) ==
    /\ Owns(r) \/ rt[r] # NoRuntime
    /\ flock' = IF flock = r THEN None ELSE flock
    /\ owed' = (owed \/ Unfinished(r))
    /\ rt' = [rt EXCEPT ![r] = NoRuntime]
    /\ pc' = [pc EXCEPT ![r] = [t \in Thread |-> "idle"]]
    /\ UNCHANGED <<marker, latch>>

\* The machine stops: what was not synchronised may be lost.
PowerLoss ==
    /\ \E m \in Survivors(marker), l \in Survivors(latch) :
        marker' = Durable(m) /\ latch' = Durable(l)
    /\ flock' = None
    /\ owed' = (owed \/ \E r \in Runtime : Unfinished(r))
    /\ rt' = [r \in Runtime |-> NoRuntime]
    /\ pc' = [r \in Runtime |-> [t \in Thread |-> "idle"]]

Open(r, t) ==
    \/ \E role \in Role : Acquire(r, t, role)
    \/ MarkDirty(r, t) \/ OpenRuntime(r, t) \/ RefuseDatabase(r, t) \/ GiveUp(r, t)

UnitOfWork(r, t) ==
    \/ Admit(r, t) \/ BeginImmediate(r, t) \/ Rollback(r, t)
    \/ CommitGuard(r, t) \/ Commit(r, t) \/ CloseSession(r, t)
    \/ ReportCleanupFailure(r, t) \/ ReleaseWork(r, t)

OtherWork(r, t) ==
    \/ AskReconciliation(r, t) \/ ReserveReconciliation(r, t)
    \/ ConnectReader(r, t) \/ LeaveReader(r, t) \/ FinishInitialization(r, t)
    \/ Connect(r, t) \/ Migrate(r, t) \/ Disconnect(r, t)

Shutdown(r, t) ==
    \/ BeginShutdown(r, t, "closeReserving") \/ BeginShutdown(r, t, "abandonReserving")
    \/ RefuseShutdown(r, t) \/ PauseRefused(r, t)
    \/ Reserve(r, t) \/ Blocked(r, t) \/ Seal(r, t) \/ ValidateShutdown(r, t)
    \/ KeepOwnership(r, t) \/ DecideLatch(r, t) \/ SetLatch(r, t)
    \/ RemoveMarker(r, t) \/ Unlock(r, t) \/ RestoreEvidence(r, t)
    \/ Leave(r, t) \/ Forsake(r, t) \/ SealForsaken(r, t) \/ UnlockForsaken(r, t)

Next ==
    \/ \E r \in Runtime, t \in Thread :
        Open(r, t) \/ UnitOfWork(r, t) \/ OtherWork(r, t) \/ Shutdown(r, t)
    \/ \E r \in Runtime : Die(r)
    \/ PowerLoss

Spec == Init /\ [][Next]_vars

-----------------------------------------------------------------------------
(* Correctness.                                                            *)

\* Every variable has its type.
TypeOK ==
    /\ flock \in Runtime \cup {None}
    /\ marker \in File /\ latch \in File
    /\ rt \in [Runtime -> RuntimeState]
    /\ pc \in [Runtime -> [Thread -> Step]]
    /\ owed \in BOOLEAN

\* No runtime takes up new work while something is owed to recovery: a write
\* that no validated shutdown covered, a failure of database work that paused
\* its runtime, an ownership that was abandoned.  It holds through every
\* order of commits, cleanups and shutdowns, failures of every system call,
\* the death of processes and the loss of power.
RecoveryRemembered ==
    \A r \in Runtime : Accepting(r) => ~owed

\* Whenever a thread works on the database its runtime owns the lock file, its
\* lease is not sealed, and a start after a crash would find the dirty marker
\* or the recovery latch.
WorkIsCovered ==
    \A r \in Runtime, t \in Thread :
        pc[r][t] \in {"working", "committing", "reading", "migrating"} =>
            /\ flock = r
            /\ rt[r].lease = "ACTIVE"
            /\ \E f \in {marker, latch} : f.seen = "whole" /\ f.entry

\* The reservation is held by exactly one thread: units of work, recovery
\* inspections and shutdowns never overlap, and none gives up the
\* reservation of another or ends without giving up its own.
OneAtATime ==
    \A r \in Runtime :
        LET holders == {t \in Thread : pc[r][t] \in WorkStep \cup ShutdownStep}
        IN  /\ Cardinality(holders) <= 1
            /\ rt[r].work <=> holders # {}

\* A shutdown that failed can be tried again: a lease is sealed only while
\* the shutdown that sealed it is still on its way.
ShutdownCanBeRetried ==
    \A r \in Runtime :
        rt[r].lease = "SEALED" =>
            \E t \in Thread :
                /\ rt[r].lifecycle = t
                /\ pc[r][t] \in ShutdownStep \ {"sealing", "leaving", "closed"}

\* When a clean close has removed the dirty marker, a runtime that has been
\* paused, as a second shutdown call pauses it, has its recovery latch: the
\* next owner finds that it has to recover.
PauseIsLatched ==
    \A r \in Runtime, t \in Thread :
        At(r, t, "unlocking") /\ rt[r].operator # "READY" => latch.seen = "whole"
=============================================================================
