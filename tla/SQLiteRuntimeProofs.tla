------------------------ MODULE SQLiteRuntimeProofs ------------------------
(***************************************************************************)
(* The safety of the owner of the database, proved for every number of     *)
(* runtimes and of threads.                                                *)
(*                                                                         *)
(* The invariant has two layers.  LocksOK(s, p) relates the state s of one *)
(* runtime to the places p of its threads: who holds the reservation, the  *)
(* lifecycle lock and the connection, and what that says of the lease.  It *)
(* mentions no file.  Evidence(r) says, for the runtime that owns the lock *)
(* file, which of the marker and the latch a start after a crash would     *)
(* find; it stands because only the owner touches those files.             *)
(***************************************************************************)
EXTENDS SQLiteRuntime, FiniteSetTheorems, TLAPS

-----------------------------------------------------------------------------
(* The locks of one runtime.                                               *)

Holds(p, t) == p[t] \in WorkStep \cup ShutdownStep

Closes(p, t) ==
    p[t] \in {"closeReserving", "abandonReserving", "blocked"} \cup ShutdownStep

Connects(p, t) ==
    p[t] \in {"working", "committing", "reading", "closing", "migrating", "disconnecting"}

Starts(p, t) == p[t] \in {"starting", "opening", "givingUp"}

\* The shutdown has sealed the lease.
SealedStep == {"validating", "validated", "latching", "unmarking", "unlocking",
               "failed", "forsakenUnlocking"}

\* The reservation is one thread's, the lifecycle lock the shutdown's.
Reservation(s, p) ==
    /\ \A t, u \in Thread : Holds(p, t) /\ Holds(p, u) => t = u
    /\ \A t \in Thread : Holds(p, t) => s.work = TRUE
    /\ s.work = TRUE => \E t \in Thread : Holds(p, t)
    /\ \A t \in Thread : s.lifecycle = t <=> Closes(p, t)

\* The connection is one thread's; units of work and inspections belong to the
\* one role, migrations to the other.
Connection(s, p) ==
    /\ \A t, u \in Thread : Connects(p, t) /\ Connects(p, u) => t = u
    /\ \A t \in Thread : Connects(p, t) => s.out = 1
    /\ s.out # 0 => \E t \in Thread : Connects(p, t)
    /\ s.lease # "ACTIVE" => s.out = 0
    /\ \A t \in Thread :
        /\ p[t] \in {"migrating", "disconnecting"} => s.role = "MIGRATION"
        /\ p[t] \in WorkStep \cup {"inspecting"} => s.role = "ALL_IN_ONE"
        /\ p[t] = "opening" /\ s.role = "MIGRATION" => s.requires = FALSE
    /\ s.role = "MIGRATION" /\ s.closed = FALSE => s.requires = FALSE

\* What the places of the threads say of the lease.
Lease(s, p) ==
    /\ s.closed = TRUE /\ s.lease # "INACTIVE" =>
           \A t \in Thread : p[t] = "idle" \/ Starts(p, t)
    /\ s.closed = FALSE /\ s.lease = "INACTIVE" => \E t \in Thread : p[t] = "closed"
    /\ s.lease = "SEALED" => \E t \in Thread : p[t] \in SealedStep \cup {"invalid"}
    /\ \A t \in Thread :
        /\ Starts(p, t) => /\ s.closed = TRUE /\ s.lease = "ACTIVE"
                           /\ \A u \in Thread \ {t} : p[u] = "idle"
        /\ Closes(p, t) => s.closed = FALSE
        /\ p[t] \in SealedStep => s.lease = "SEALED"
        /\ p[t] = "invalid" => s.lease # "INACTIVE"
        /\ p[t] = "closed" => s.lease = "INACTIVE"
        /\ Closes(p, t) /\ p[t] \notin SealedStep \cup {"invalid", "closed"} => s.lease = "ACTIVE"
        /\ p[t] \in {"admitted", "working", "committing", "reading", "closing", "reporting",
                     "migrating"} => s.lease = "ACTIVE" /\ s.closed = FALSE

LocksOK(s, p) == Reservation(s, p) /\ Connection(s, p) /\ Lease(s, p)

\* The lock file is locked by the runtime whose lease is held.
OwnerLocked == \A r \in Runtime : Owns(r) <=> flock = r

-----------------------------------------------------------------------------
(* The evidence, of a runtime in state s with its threads at p, in the     *)
(* marker m and the latch l, when o says whether recovery is owed.         *)

Set(f) == f.seen = "whole" /\ f.entry = TRUE

\* A file of which a loss of power leaves something.
Lasting(f) == f.seen # "absent" /\ f.entry = TRUE

Covered(m, l) == Set(m) \/ Set(l)

Touched(s) == s.unproven = TRUE \/ s.failure = TRUE

\* What the fields of an open runtime say of the files.
OpenEvidence(s, m, l, o) ==
    /\ s.requires = TRUE => l.seen = "whole" /\ Covered(m, l)
    /\ s.operator = "READY" => l.seen = "absent"
    /\ s.operator = "RECOVERY_REQUIRED" => s.requires = TRUE
    /\ s.accepting = TRUE =>
           s.operator = "READY" /\ s.requires = FALSE /\ s.lifecycle = None /\ Set(m)
    /\ o = TRUE => s.requires = TRUE

\* What the place of a thread says of the files.
ThreadEvidence(s, place, m, l, o) ==
    /\ place = "opening" =>
           /\ Set(m)
           /\ s.requires = TRUE => l.seen = "whole"
           /\ s.requires = FALSE => l.seen = "absent" /\ o = FALSE
    /\ place \in {"admitted", "working", "committing", "closing", "reporting", "migrating"}
           => Covered(m, l)
    /\ place \in {"inspecting", "connecting", "reading"} => s.requires = TRUE
    /\ place \in {"validated", "latching", "unmarking", "unlocking"} => s.unproven = FALSE
    /\ place = "latching" =>
           IF s.mustLatch THEN s.operator # "READY"
                          ELSE l.seen = "absent" /\ s.failure = FALSE
    /\ place = "unmarking" => /\ l.seen = "whole" => l.entry = TRUE
                              /\ s.failure = TRUE => Set(l)
    /\ place \in {"forsakenSealing", "forsakenUnlocking"} => Set(l)

Evidence(s, p, m, l, o) ==
    s.lease # "INACTIVE" =>
        /\ Touched(s) => Covered(m, l)
        /\ s.closed = TRUE => ~Touched(s)
        /\ s.failure = TRUE => s.operator # "READY"
        /\ s.closed = FALSE => OpenEvidence(s, m, l, o)
        /\ \A t \in Thread : ThreadEvidence(s, p[t], m, l, o)

\* What is owed outlives the loss of power.
Files(m, l, o) == o = TRUE => Lasting(m) \/ Lasting(l)

Inv ==
    /\ TypeOK
    /\ OwnerLocked
    /\ \A r \in Runtime : LocksOK(rt[r], pc[r])
    /\ \A r \in Runtime : Evidence(rt[r], pc[r], marker, latch, owed)
    /\ Files(marker, latch, owed)

\* Thread t of r goes to b and leaves r in the state z.
Moves(r, t, z, b) ==
    /\ z \in RuntimeState /\ b \in Step
    /\ rt' = [rt EXCEPT ![r] = z]
    /\ pc' = [pc EXCEPT ![r] = [pc[r] EXCEPT ![t] = b]]

-----------------------------------------------------------------------------
(* The locks: one lemma for each way in which a step changes them.         *)

\* The fields that no unit of work, inspection or migration changes.
SameOwner(s, z) ==
    z.lease = s.lease /\ z.role = s.role /\ z.closed = s.closed /\ z.requires = s.requires

SameLocks(s, z) ==
    SameOwner(s, z) /\ z.work = s.work /\ z.lifecycle = s.lifecycle /\ z.out = s.out

\* The thread goes on without touching a lock.
Walk(s, from, to) ==
    \/ from = "working" /\ to \in {"committing", "closing"}
    \/ from = "committing" /\ to = "closing"
    \/ from = "reading" /\ to = "closing"
    \/ from \in {"admitted", "reporting", "connecting"} /\ to = "releasing"
    \/ from = "migrating" /\ to = "disconnecting"
    \/ from = "inspecting" /\ to = "idle"
    \/ from = "idle" /\ to = "inspecting" /\ s.closed = FALSE /\ s.role = "ALL_IN_ONE"
    \/ from = "idle" /\ to = "refused" /\ s.closed = FALSE
    \/ from = "refused" /\ to = "idle"
    \/ from = "opening" /\ to = "givingUp"
    \/ from = "givingUp" /\ to = "idle"

WalkDown(from, to) ==
    \/ from \in {"closeReserving", "abandonReserving"} /\ to = "blocked"
    \/ from = "sealing" /\ to = "invalid"
    \/ from = "validating" /\ to \in {"validated", "invalid"}
    \/ from = "validated" /\ to = "latching"
    \/ from = "latching" /\ to \in {"unmarking", "failed"}
    \/ from = "unmarking" /\ to \in {"unlocking", "failed"}
    \/ from = "unlocking" /\ to = "failed"
    \/ from = "forsaking" /\ to \in {"forsakenSealing", "leaving"}
    \/ from = "forsakenSealing" /\ to = "leaving"

\* A thread that goes on within its unit of work keeps the locks in order.
LEMMA WalkKeepsLocks ==
    ASSUME Inv, NEW r \in Runtime, NEW t \in Thread, NEW z, NEW b, Moves(r, t, z, b),
           SameLocks(rt[r], z), Walk(rt[r], pc[r][t], b)
    PROVE  LocksOK(rt'[r], pc'[r])
<1>0. /\ rt[r] \in RuntimeState /\ z \in RuntimeState /\ pc[r] \in [Thread -> Step]
      /\ b \in Step
      /\ rt'[r] = z /\ pc'[r] = [pc[r] EXCEPT ![t] = b] /\ pc'[r] \in [Thread -> Step]
      /\ LocksOK(rt[r], pc[r])
  BY DEF Moves, Inv, TypeOK
<1> SUFFICES LocksOK(z, pc'[r])
  BY <1>0
<1> USE OwnerAssumption DEF SameLocks, SameOwner, WorkStep, ShutdownStep, Step, Walk
<1>1. Reservation(z, pc'[r])
  BY <1>0 DEF LocksOK, Reservation, Lease, Starts, Holds, Closes
<1>2. Connection(z, pc'[r])
  BY <1>0
  DEF LocksOK, Reservation, Lease, Starts, SealedStep, Holds, Connection, Connects, RuntimeState
<1>3. Lease(z, pc'[r])
  BY <1>0
  DEF LocksOK, Reservation, Connection, Holds, Connects, Lease, Starts, Closes, SealedStep,
         RuntimeState, LeaseLifecycle
<1> QED
  BY <1>1, <1>2, <1>3 DEF LocksOK

\* So does a shutdown that goes on with the lease as it is.
LEMMA WalkDownKeepsLocks ==
    ASSUME Inv, NEW r \in Runtime, NEW t \in Thread, NEW z, NEW b, Moves(r, t, z, b),
           SameLocks(rt[r], z), WalkDown(pc[r][t], b)
    PROVE  LocksOK(rt'[r], pc'[r])
<1>0. /\ rt[r] \in RuntimeState /\ z \in RuntimeState /\ pc[r] \in [Thread -> Step]
      /\ b \in Step
      /\ rt'[r] = z /\ pc'[r] = [pc[r] EXCEPT ![t] = b] /\ pc'[r] \in [Thread -> Step]
      /\ LocksOK(rt[r], pc[r])
  BY DEF Moves, Inv, TypeOK
<1> SUFFICES LocksOK(z, pc'[r])
  BY <1>0
<1> USE OwnerAssumption DEF SameLocks, SameOwner, WorkStep, ShutdownStep, Step, WalkDown
<1>1. Reservation(z, pc'[r])
  BY <1>0 DEF LocksOK, Reservation, Lease, Starts, Holds, Closes
<1>2. Connection(z, pc'[r])
  BY <1>0
  DEF LocksOK, Reservation, Lease, Starts, SealedStep, Holds, Connection, Connects, RuntimeState
<1>3. Lease(z, pc'[r])
  BY <1>0
  DEF LocksOK, Reservation, Connection, Holds, Connects, Lease, Starts, Closes, SealedStep,
         RuntimeState, LeaseLifecycle
<1> QED
  BY <1>1, <1>2, <1>3 DEF LocksOK

\* A checkout happens under an active lease, by the only thread that may have
\* one.
LEMMA CheckOutKeepsLocks ==
    ASSUME Inv, NEW r \in Runtime, NEW t \in Thread, NEW z, NEW b, Moves(r, t, z, b),
           SameOwner(rt[r], z), z.work = rt[r].work, z.lifecycle = rt[r].lifecycle,
           z.out = rt[r].out + 1,
           rt[r].lease = "ACTIVE",
           \/ pc[r][t] = "admitted" /\ b \in {"working", "closing"}
           \/ pc[r][t] = "connecting" /\ b = "reading" /\ rt[r].closed = FALSE
           \/ pc[r][t] = "idle" /\ b = "migrating" /\ rt[r].out = 0 /\ rt[r].closed = FALSE
                /\ rt[r].role = "MIGRATION"
    PROVE  LocksOK(rt'[r], pc'[r])
<1>0. /\ rt[r] \in RuntimeState /\ z \in RuntimeState /\ pc[r] \in [Thread -> Step]
      /\ b \in Step
      /\ rt'[r] = z /\ pc'[r] = [pc[r] EXCEPT ![t] = b] /\ pc'[r] \in [Thread -> Step]
      /\ LocksOK(rt[r], pc[r])
  BY DEF Moves, Inv, TypeOK
<1> SUFFICES LocksOK(z, pc'[r])
  BY <1>0
<1> USE OwnerAssumption DEF SameLocks, SameOwner, WorkStep, ShutdownStep, Step
<1>1. Reservation(z, pc'[r])
  BY <1>0 DEF LocksOK, Reservation, Lease, Starts, Holds, Closes
<1>2. Connection(z, pc'[r])
  BY <1>0
  DEF LocksOK, Reservation, Lease, Starts, SealedStep, Holds, Connection, Connects, RuntimeState
<1>3. Lease(z, pc'[r])
  BY <1>0
  DEF LocksOK, Reservation, Connection, Holds, Connects, Lease, Starts, Closes, SealedStep,
         RuntimeState, LeaseLifecycle
<1> QED
  BY <1>1, <1>2, <1>3 DEF LocksOK

\* The connection is returned by the thread that has it.
LEMMA CheckInKeepsLocks ==
    ASSUME Inv, NEW r \in Runtime, NEW t \in Thread, NEW z, NEW b, Moves(r, t, z, b),
           SameOwner(rt[r], z), z.work = rt[r].work, z.lifecycle = rt[r].lifecycle,
           z.out = rt[r].out - 1,
           \/ pc[r][t] = "closing" /\ b \in {"releasing", "reporting"}
           \/ pc[r][t] = "disconnecting" /\ b = "idle"
    PROVE  LocksOK(rt'[r], pc'[r])
<1>0. /\ rt[r] \in RuntimeState /\ z \in RuntimeState /\ pc[r] \in [Thread -> Step]
      /\ b \in Step
      /\ rt'[r] = z /\ pc'[r] = [pc[r] EXCEPT ![t] = b] /\ pc'[r] \in [Thread -> Step]
      /\ LocksOK(rt[r], pc[r])
  BY DEF Moves, Inv, TypeOK
<1> SUFFICES LocksOK(z, pc'[r])
  BY <1>0
<1> USE OwnerAssumption DEF SameLocks, SameOwner, WorkStep, ShutdownStep, Step
<1>1. Reservation(z, pc'[r])
  BY <1>0 DEF LocksOK, Reservation, Lease, Starts, Holds, Closes
<1>2. Connection(z, pc'[r])
  BY <1>0
  DEF LocksOK, Reservation, Lease, Starts, SealedStep, Holds, Connection, Connects, RuntimeState
<1>3. Lease(z, pc'[r])
  BY <1>0
  DEF LocksOK, Reservation, Connection, Holds, Connects, Lease, Starts, Closes, SealedStep,
         RuntimeState, LeaseLifecycle
<1> QED
  BY <1>1, <1>2, <1>3 DEF LocksOK

\* The reservation is taken when it is free.
LEMMA ReserveKeepsLocks ==
    ASSUME Inv, NEW r \in Runtime, NEW t \in Thread, NEW z, NEW b, Moves(r, t, z, b),
           SameOwner(rt[r], z), z.lifecycle = rt[r].lifecycle, z.out = rt[r].out,
           rt[r].work = FALSE, z.work = TRUE,
           \/ /\ pc[r][t] = "idle" /\ b = "admitted"
              /\ rt[r].lease = "ACTIVE" /\ rt[r].closed = FALSE /\ rt[r].role = "ALL_IN_ONE"
           \/ pc[r][t] = "inspecting" /\ b = "connecting"
           \/ pc[r][t] = "closeReserving" /\ b = "sealing"
           \/ pc[r][t] = "abandonReserving" /\ b = "forsaking"
    PROVE  LocksOK(rt'[r], pc'[r])
<1>0. /\ rt[r] \in RuntimeState /\ z \in RuntimeState /\ pc[r] \in [Thread -> Step]
      /\ b \in Step
      /\ rt'[r] = z /\ pc'[r] = [pc[r] EXCEPT ![t] = b] /\ pc'[r] \in [Thread -> Step]
      /\ LocksOK(rt[r], pc[r])
  BY DEF Moves, Inv, TypeOK
<1> SUFFICES LocksOK(z, pc'[r])
  BY <1>0
<1> USE OwnerAssumption DEF SameLocks, SameOwner, WorkStep, ShutdownStep, Step
<1>1. Reservation(z, pc'[r])
  BY <1>0 DEF LocksOK, Reservation, Lease, Starts, Holds, Closes
<1>2. Connection(z, pc'[r])
  BY <1>0
  DEF LocksOK, Reservation, Lease, Starts, SealedStep, Holds, Connection, Connects, RuntimeState
<1>3. Lease(z, pc'[r])
  BY <1>0
  DEF LocksOK, Reservation, Connection, Holds, Connects, Lease, Starts, Closes, SealedStep,
         RuntimeState, LeaseLifecycle
<1> QED
  BY <1>1, <1>2, <1>3 DEF LocksOK

\* The reservation is given up by the thread that has it.
LEMMA ReleaseKeepsLocks ==
    ASSUME Inv, NEW r \in Runtime, NEW t \in Thread, NEW z, NEW b, Moves(r, t, z, b),
           SameOwner(rt[r], z), z.lifecycle = rt[r].lifecycle, z.out = rt[r].out,
           z.work = FALSE,
           pc[r][t] = "releasing", b = "idle"
    PROVE  LocksOK(rt'[r], pc'[r])
<1>0. /\ rt[r] \in RuntimeState /\ z \in RuntimeState /\ pc[r] \in [Thread -> Step]
      /\ b \in Step
      /\ rt'[r] = z /\ pc'[r] = [pc[r] EXCEPT ![t] = b] /\ pc'[r] \in [Thread -> Step]
      /\ LocksOK(rt[r], pc[r])
  BY DEF Moves, Inv, TypeOK
<1> SUFFICES LocksOK(z, pc'[r])
  BY <1>0
<1> USE OwnerAssumption DEF SameLocks, SameOwner, WorkStep, ShutdownStep, Step
<1>1. Reservation(z, pc'[r])
  BY <1>0 DEF LocksOK, Reservation, Lease, Starts, Holds, Closes
<1>2. Connection(z, pc'[r])
  BY <1>0
  DEF LocksOK, Reservation, Lease, Starts, SealedStep, Holds, Connection, Connects, RuntimeState
<1>3. Lease(z, pc'[r])
  BY <1>0
  DEF LocksOK, Reservation, Connection, Holds, Connects, Lease, Starts, Closes, SealedStep,
         RuntimeState, LeaseLifecycle
<1> QED
  BY <1>1, <1>2, <1>3 DEF LocksOK

\* A shutdown takes the lifecycle lock when it is free.
LEMMA LockKeepsLocks ==
    ASSUME Inv, NEW r \in Runtime, NEW t \in Thread, NEW z, NEW b, Moves(r, t, z, b),
           SameOwner(rt[r], z), z.work = rt[r].work, z.out = rt[r].out, rt[r].closed = FALSE,
           rt[r].lifecycle = None, z.lifecycle = t,
           pc[r][t] = "idle", b \in {"closeReserving", "abandonReserving"}
    PROVE  LocksOK(rt'[r], pc'[r])
<1>0. /\ rt[r] \in RuntimeState /\ z \in RuntimeState /\ pc[r] \in [Thread -> Step]
      /\ b \in Step
      /\ rt'[r] = z /\ pc'[r] = [pc[r] EXCEPT ![t] = b] /\ pc'[r] \in [Thread -> Step]
      /\ LocksOK(rt[r], pc[r])
  BY DEF Moves, Inv, TypeOK
<1> SUFFICES LocksOK(z, pc'[r])
  BY <1>0
<1> USE OwnerAssumption DEF SameLocks, SameOwner, WorkStep, ShutdownStep, Step
<1>1. Reservation(z, pc'[r])
  BY <1>0 DEF LocksOK, Reservation, Lease, Starts, Holds, Closes
<1>2. Connection(z, pc'[r])
  BY <1>0
  DEF LocksOK, Reservation, Lease, Starts, SealedStep, Holds, Connection, Connects, RuntimeState
<1>3. Lease(z, pc'[r])
  BY <1>0
  DEF LocksOK, Reservation, Connection, Holds, Connects, Lease, Starts, Closes, SealedStep,
         RuntimeState, LeaseLifecycle
<1> QED
  BY <1>1, <1>2, <1>3 DEF LocksOK

\* A shutdown that was blocked gives the lifecycle lock up.
LEMMA UnblockKeepsLocks ==
    ASSUME Inv, NEW r \in Runtime, NEW t \in Thread, NEW z, NEW b, Moves(r, t, z, b),
           SameOwner(rt[r], z), z.work = rt[r].work, z.out = rt[r].out, z.lifecycle = None,
           pc[r][t] = "blocked", b = "idle"
    PROVE  LocksOK(rt'[r], pc'[r])
<1>0. /\ rt[r] \in RuntimeState /\ z \in RuntimeState /\ pc[r] \in [Thread -> Step]
      /\ b \in Step
      /\ rt'[r] = z /\ pc'[r] = [pc[r] EXCEPT ![t] = b] /\ pc'[r] \in [Thread -> Step]
      /\ LocksOK(rt[r], pc[r])
  BY DEF Moves, Inv, TypeOK
<1> SUFFICES LocksOK(z, pc'[r])
  BY <1>0
<1> USE OwnerAssumption DEF SameLocks, SameOwner, WorkStep, ShutdownStep, Step
<1>1. Reservation(z, pc'[r])
  BY <1>0 DEF LocksOK, Reservation, Lease, Starts, Holds, Closes
<1>2. Connection(z, pc'[r])
  BY <1>0
  DEF LocksOK, Reservation, Lease, Starts, SealedStep, Holds, Connection, Connects, RuntimeState
<1>3. Lease(z, pc'[r])
  BY <1>0
  DEF LocksOK, Reservation, Connection, Holds, Connects, Lease, Starts, Closes, SealedStep,
         RuntimeState, LeaseLifecycle
<1> QED
  BY <1>1, <1>2, <1>3 DEF LocksOK

\* The lease is sealed when no connection is out.
LEMMA SealKeepsLocks ==
    ASSUME Inv, NEW r \in Runtime, NEW t \in Thread, NEW z, NEW b, Moves(r, t, z, b),
           z.role = rt[r].role, z.closed = rt[r].closed, z.requires = rt[r].requires,
           z.work = rt[r].work,
           z.lifecycle = rt[r].lifecycle, z.out = rt[r].out, rt[r].out = 0, z.lease = "SEALED",
           \/ pc[r][t] = "sealing" /\ b = "validating"
           \/ pc[r][t] = "forsakenSealing" /\ b = "forsakenUnlocking"
    PROVE  LocksOK(rt'[r], pc'[r])
<1>0. /\ rt[r] \in RuntimeState /\ z \in RuntimeState /\ pc[r] \in [Thread -> Step]
      /\ b \in Step
      /\ rt'[r] = z /\ pc'[r] = [pc[r] EXCEPT ![t] = b] /\ pc'[r] \in [Thread -> Step]
      /\ LocksOK(rt[r], pc[r])
  BY DEF Moves, Inv, TypeOK
<1> SUFFICES LocksOK(z, pc'[r])
  BY <1>0
<1> USE OwnerAssumption DEF SameLocks, SameOwner, WorkStep, ShutdownStep, Step
<1>1. Reservation(z, pc'[r])
  BY <1>0 DEF LocksOK, Reservation, Lease, Starts, Holds, Closes
<1>2. Connection(z, pc'[r])
  BY <1>0
  DEF LocksOK, Reservation, Lease, Starts, SealedStep, Holds, Connection, Connects, RuntimeState
<1>3. Lease(z, pc'[r])
  BY <1>0
  DEF LocksOK, Reservation, Connection, Holds, Connects, Lease, Starts, Closes, SealedStep,
         RuntimeState, LeaseLifecycle
<1> QED
  BY <1>1, <1>2, <1>3 DEF LocksOK

\* A shutdown that failed unseals the lease, on which no connection is out.
LEMMA UnsealKeepsLocks ==
    ASSUME Inv, NEW r \in Runtime, NEW t \in Thread, NEW z, NEW b, Moves(r, t, z, b),
           z.role = rt[r].role, z.closed = rt[r].closed, z.requires = rt[r].requires,
           z.work = rt[r].work,
           z.lifecycle = rt[r].lifecycle, z.out = rt[r].out,
           z.lease = IF rt[r].lease = "SEALED" /\ rt[r].out = 0 THEN "ACTIVE" ELSE rt[r].lease,
           pc[r][t] \in {"invalid", "failed", "forsakenUnlocking"}, b = "leaving"
    PROVE  LocksOK(rt'[r], pc'[r])
<1>0. /\ rt[r] \in RuntimeState /\ z \in RuntimeState /\ pc[r] \in [Thread -> Step]
      /\ b \in Step
      /\ rt'[r] = z /\ pc'[r] = [pc[r] EXCEPT ![t] = b] /\ pc'[r] \in [Thread -> Step]
      /\ LocksOK(rt[r], pc[r])
  BY DEF Moves, Inv, TypeOK
<1> SUFFICES LocksOK(z, pc'[r])
  BY <1>0
<1> USE OwnerAssumption DEF SameLocks, SameOwner, WorkStep, ShutdownStep, Step
<1>1. Reservation(z, pc'[r])
  BY <1>0 DEF LocksOK, Reservation, Lease, Starts, Holds, Closes
<1>2. Connection(z, pc'[r])
  BY <1>0
  DEF LocksOK, Reservation, Lease, Starts, SealedStep, Holds, Connection, Connects, RuntimeState
<1>3. Lease(z, pc'[r])
  BY <1>0
  DEF LocksOK, Reservation, Connection, Holds, Connects, Lease, Starts, Closes, SealedStep,
         RuntimeState, LeaseLifecycle
<1> QED
  BY <1>1, <1>2, <1>3 DEF LocksOK

\* The lock file is unlocked by the shutdown that sealed the lease.
LEMMA UnlockKeepsLocks ==
    ASSUME Inv, NEW r \in Runtime, NEW t \in Thread, NEW z, NEW b, Moves(r, t, z, b),
           z.role = rt[r].role, z.closed = rt[r].closed, z.requires = rt[r].requires,
           z.work = rt[r].work,
           z.lifecycle = rt[r].lifecycle, z.out = rt[r].out, z.lease = "INACTIVE",
           pc[r][t] \in {"unlocking", "forsakenUnlocking"}, b = "closed"
    PROVE  LocksOK(rt'[r], pc'[r])
<1>0. /\ rt[r] \in RuntimeState /\ z \in RuntimeState /\ pc[r] \in [Thread -> Step]
      /\ b \in Step
      /\ rt'[r] = z /\ pc'[r] = [pc[r] EXCEPT ![t] = b] /\ pc'[r] \in [Thread -> Step]
      /\ LocksOK(rt[r], pc[r])
  BY DEF Moves, Inv, TypeOK
<1> SUFFICES LocksOK(z, pc'[r])
  BY <1>0
<1> USE OwnerAssumption DEF SameLocks, SameOwner, WorkStep, ShutdownStep, Step
<1>1. Reservation(z, pc'[r])
  BY <1>0 DEF LocksOK, Reservation, Lease, Starts, Holds, Closes
<1>2. Connection(z, pc'[r])
  BY <1>0
  DEF LocksOK, Reservation, Lease, Starts, SealedStep, Holds, Connection, Connects, RuntimeState
<1>3. Lease(z, pc'[r])
  BY <1>0
  DEF LocksOK, Reservation, Connection, Holds, Connects, Lease, Starts, Closes, SealedStep,
         RuntimeState, LeaseLifecycle
<1> QED
  BY <1>1, <1>2, <1>3 DEF LocksOK

\* A shutdown that failed gives back the reservation and the lifecycle lock.
LEMMA LeaveKeepsLocks ==
    ASSUME Inv, NEW r \in Runtime, NEW t \in Thread, NEW z, NEW b, Moves(r, t, z, b),
           SameOwner(rt[r], z), z.out = rt[r].out, z.work = FALSE, z.lifecycle = None,
           pc[r][t] = "leaving", b = "idle"
    PROVE  LocksOK(rt'[r], pc'[r])
<1>0. /\ rt[r] \in RuntimeState /\ z \in RuntimeState /\ pc[r] \in [Thread -> Step]
      /\ b \in Step
      /\ rt'[r] = z /\ pc'[r] = [pc[r] EXCEPT ![t] = b] /\ pc'[r] \in [Thread -> Step]
      /\ LocksOK(rt[r], pc[r])
  BY DEF Moves, Inv, TypeOK
<1> SUFFICES LocksOK(z, pc'[r])
  BY <1>0
<1> USE OwnerAssumption DEF SameLocks, SameOwner, WorkStep, ShutdownStep, Step
<1>1. Reservation(z, pc'[r])
  BY <1>0 DEF LocksOK, Reservation, Lease, Starts, Holds, Closes
<1>2. Connection(z, pc'[r])
  BY <1>0
  DEF LocksOK, Reservation, Lease, Starts, SealedStep, Holds, Connection, Connects, RuntimeState
<1>3. Lease(z, pc'[r])
  BY <1>0
  DEF LocksOK, Reservation, Connection, Holds, Connects, Lease, Starts, Closes, SealedStep,
         RuntimeState, LeaseLifecycle
<1> QED
  BY <1>1, <1>2, <1>3 DEF LocksOK

\* A shutdown that succeeded leaves a runtime that holds nothing.
LEMMA CloseKeepsLocks ==
    ASSUME Inv, NEW r \in Runtime, NEW t \in Thread, NEW z, NEW b, Moves(r, t, z, b),
           z = NoRuntime, pc[r][t] = "closed", b = "idle"
    PROVE  LocksOK(rt'[r], pc'[r])
<1>0. /\ rt[r] \in RuntimeState /\ z \in RuntimeState /\ pc[r] \in [Thread -> Step]
      /\ b \in Step
      /\ rt'[r] = z /\ pc'[r] = [pc[r] EXCEPT ![t] = b] /\ pc'[r] \in [Thread -> Step]
      /\ LocksOK(rt[r], pc[r])
  BY DEF Moves, Inv, TypeOK
<1> SUFFICES LocksOK(z, pc'[r])
  BY <1>0
<1> USE OwnerAssumption DEF SameLocks, SameOwner, WorkStep, ShutdownStep, Step, NoRuntime
<1>1. Reservation(z, pc'[r])
  BY <1>0 DEF LocksOK, Reservation, Lease, Starts, Holds, Closes
<1>2. Connection(z, pc'[r])
  BY <1>0
  DEF LocksOK, Reservation, Lease, Starts, SealedStep, Holds, Connection, Connects, RuntimeState
<1>3. Lease(z, pc'[r])
  BY <1>0
  DEF LocksOK, Reservation, Connection, Holds, Connects, Lease, Starts, Closes, SealedStep,
         RuntimeState, LeaseLifecycle
<1> QED
  BY <1>1, <1>2, <1>3 DEF LocksOK

\* A runtime starts with every lock free.
LEMMA AcquireKeepsLocks ==
    ASSUME Inv, NEW r \in Runtime, NEW t \in Thread, NEW z, NEW b, Moves(r, t, z, b),
           \A u \in Thread : pc[r][u] = "idle", b = "starting",
           z.lease = "ACTIVE", z.closed = TRUE, z.work = FALSE, z.lifecycle = None, z.out = 0
    PROVE  LocksOK(rt'[r], pc'[r])
<1>0. /\ rt[r] \in RuntimeState /\ z \in RuntimeState /\ pc[r] \in [Thread -> Step]
      /\ b \in Step
      /\ rt'[r] = z /\ pc'[r] = [pc[r] EXCEPT ![t] = b] /\ pc'[r] \in [Thread -> Step]
      /\ LocksOK(rt[r], pc[r])
  BY DEF Moves, Inv, TypeOK
<1> SUFFICES LocksOK(z, pc'[r])
  BY <1>0
<1> USE OwnerAssumption DEF SameLocks, SameOwner, WorkStep, ShutdownStep, Step
<1>1. Reservation(z, pc'[r])
  BY <1>0 DEF LocksOK, Reservation, Lease, Starts, Holds, Closes
<1>2. Connection(z, pc'[r])
  BY <1>0
  DEF LocksOK, Reservation, Lease, Starts, SealedStep, Holds, Connection, Connects, RuntimeState
<1>3. Lease(z, pc'[r])
  BY <1>0
  DEF LocksOK, Reservation, Connection, Holds, Connects, Lease, Starts, Closes, SealedStep,
         RuntimeState, LeaseLifecycle
<1> QED
  BY <1>1, <1>2, <1>3 DEF LocksOK

\* A start that set its marker knows whether a recovery is required; a
\* migration does not go on if it is.
LEMMA MarkKeepsLocks ==
    ASSUME Inv, NEW r \in Runtime, NEW t \in Thread, NEW z, NEW b, Moves(r, t, z, b),
           z.lease = rt[r].lease, z.role = rt[r].role, z.closed = rt[r].closed,
           z.work = rt[r].work,
           z.lifecycle = rt[r].lifecycle, z.out = rt[r].out, pc[r][t] = "starting",
           b = "givingUp" \/ (b = "opening" /\ (rt[r].role = "MIGRATION" => z.requires = FALSE))
    PROVE  LocksOK(rt'[r], pc'[r])
<1>0. /\ rt[r] \in RuntimeState /\ z \in RuntimeState /\ pc[r] \in [Thread -> Step]
      /\ b \in Step
      /\ rt'[r] = z /\ pc'[r] = [pc[r] EXCEPT ![t] = b] /\ pc'[r] \in [Thread -> Step]
      /\ LocksOK(rt[r], pc[r])
  BY DEF Moves, Inv, TypeOK
<1> SUFFICES LocksOK(z, pc'[r])
  BY <1>0
<1> USE OwnerAssumption DEF SameLocks, SameOwner, WorkStep, ShutdownStep, Step
<1>1. Reservation(z, pc'[r])
  BY <1>0 DEF LocksOK, Reservation, Lease, Starts, Holds, Closes
<1>2. Connection(z, pc'[r])
  BY <1>0
  DEF LocksOK, Reservation, Lease, Starts, SealedStep, Holds, Connection, Connects, RuntimeState
<1>3. Lease(z, pc'[r])
  BY <1>0
  DEF LocksOK, Reservation, Connection, Holds, Connects, Lease, Starts, Closes, SealedStep,
         RuntimeState, LeaseLifecycle
<1> QED
  BY <1>1, <1>2, <1>3 DEF LocksOK

\* A runtime opens with every other thread idle.
LEMMA OpenKeepsLocks ==
    ASSUME Inv, NEW r \in Runtime, NEW t \in Thread, NEW z, NEW b, Moves(r, t, z, b),
           z.lease = rt[r].lease, z.role = rt[r].role, z.requires = rt[r].requires,
           z.work = rt[r].work,
           z.lifecycle = rt[r].lifecycle, z.out = rt[r].out, z.closed = FALSE,
           pc[r][t] = "opening", b = "idle"
    PROVE  LocksOK(rt'[r], pc'[r])
<1>0. /\ rt[r] \in RuntimeState /\ z \in RuntimeState /\ pc[r] \in [Thread -> Step]
      /\ b \in Step
      /\ rt'[r] = z /\ pc'[r] = [pc[r] EXCEPT ![t] = b] /\ pc'[r] \in [Thread -> Step]
      /\ LocksOK(rt[r], pc[r])
  BY DEF Moves, Inv, TypeOK
<1> SUFFICES LocksOK(z, pc'[r])
  BY <1>0
<1> USE OwnerAssumption DEF SameLocks, SameOwner, WorkStep, ShutdownStep, Step
<1>1. Reservation(z, pc'[r])
  BY <1>0 DEF LocksOK, Reservation, Lease, Starts, Holds, Closes
<1>2. Connection(z, pc'[r])
  BY <1>0
  DEF LocksOK, Reservation, Lease, Starts, SealedStep, Holds, Connection, Connects, RuntimeState
<1>3. Lease(z, pc'[r])
  BY <1>0
  DEF LocksOK, Reservation, Connection, Holds, Connects, Lease, Starts, Closes, SealedStep,
         RuntimeState, LeaseLifecycle
<1> QED
  BY <1>1, <1>2, <1>3 DEF LocksOK

\* A start that gave up leaves a runtime that holds nothing.
LEMMA GiveUpKeepsLocks ==
    ASSUME Inv, NEW r \in Runtime, NEW t \in Thread, NEW z, NEW b, Moves(r, t, z, b),
           z = NoRuntime, pc[r][t] = "givingUp", b = "idle"
    PROVE  LocksOK(rt'[r], pc'[r])
<1>0. /\ rt[r] \in RuntimeState /\ z \in RuntimeState /\ pc[r] \in [Thread -> Step]
      /\ b \in Step
      /\ rt'[r] = z /\ pc'[r] = [pc[r] EXCEPT ![t] = b] /\ pc'[r] \in [Thread -> Step]
      /\ LocksOK(rt[r], pc[r])
  BY DEF Moves, Inv, TypeOK
<1> SUFFICES LocksOK(z, pc'[r])
  BY <1>0
<1> USE OwnerAssumption DEF SameLocks, SameOwner, WorkStep, ShutdownStep, Step, NoRuntime
<1>1. Reservation(z, pc'[r])
  BY <1>0 DEF LocksOK, Reservation, Lease, Starts, Holds, Closes
<1>2. Connection(z, pc'[r])
  BY <1>0
  DEF LocksOK, Reservation, Lease, Starts, SealedStep, Holds, Connection, Connects, RuntimeState
<1>3. Lease(z, pc'[r])
  BY <1>0
  DEF LocksOK, Reservation, Connection, Holds, Connects, Lease, Starts, Closes, SealedStep,
         RuntimeState, LeaseLifecycle
<1> QED
  BY <1>1, <1>2, <1>3 DEF LocksOK

-----------------------------------------------------------------------------
(* The evidence: one lemma for each way in which a step changes it.        *)

\* Places of which the evidence asks nothing.
Plain == {"idle", "starting", "givingUp", "disconnecting", "refused", "closeReserving",
          "abandonReserving", "blocked", "releasing", "sealing", "validating", "invalid",
          "failed", "forsaking", "closed", "leaving"}

\* At most a pause is published.
Quiet(s, z) ==
    /\ z.closed = s.closed /\ z.requires = s.requires /\ z.mustLatch = s.mustLatch
    /\ z.unproven = s.unproven /\ z.failure = s.failure
    /\ z.operator \in {s.operator, "PAUSED"}
    /\ \/ z.accepting = FALSE
       \/ z.accepting = s.accepting /\ z.operator = s.operator /\ z.lifecycle = s.lifecycle

\* Database work may have written, and may have failed and paused the runtime.
Works(s, z) ==
    /\ SameOwner(s, z) /\ z.lifecycle = s.lifecycle /\ z.mustLatch = s.mustLatch
    /\ z.unproven = TRUE \/ z.unproven = s.unproven
    /\ \/ z.accepting = s.accepting /\ z.operator = s.operator /\ z.failure = s.failure
       \/ z.accepting = FALSE /\ z.operator = "PAUSED" /\ z.failure = TRUE

\* A step that leaves the files alone and writes nothing keeps the evidence.
LEMMA QuietKeepsEvidence ==
    ASSUME Inv, NEW r \in Runtime, NEW t \in Thread, NEW z, NEW b, Moves(r, t, z, b),
           Quiet(rt[r], z), z.lease # "INACTIVE" => rt[r].lease # "INACTIVE",
           UNCHANGED <<marker, latch, owed>>,
           \/ b \in Plain
           \/ pc[r][t] = "idle" /\ b = "admitted" /\ rt[r].accepting = TRUE /\ rt[r].closed = FALSE
           \/ pc[r][t] = "idle" /\ b = "migrating" /\ rt[r].accepting = TRUE /\ rt[r].closed = FALSE
           \/ pc[r][t] = "idle" /\ b = "inspecting" /\ rt[r].requires = TRUE
           \/ pc[r][t] = "inspecting" /\ b = "connecting"
           \/ pc[r][t] = "connecting" /\ b = "reading"
           \/ pc[r][t] \in {"admitted", "working", "closing"}
                /\ b \in {"working", "committing", "closing", "reporting"}
           \/ pc[r][t] = "forsakenSealing" /\ b = "forsakenUnlocking"
    PROVE  Evidence(rt'[r], pc'[r], marker', latch', owed')
<1>0. /\ rt[r] \in RuntimeState /\ z \in RuntimeState /\ pc[r] \in [Thread -> Step]
      /\ b \in Step
      /\ rt'[r] = z /\ pc'[r] = [pc[r] EXCEPT ![t] = b] /\ pc'[r] \in [Thread -> Step]
      /\ LocksOK(rt[r], pc[r])
      /\ marker \in File /\ latch \in File /\ owed \in BOOLEAN
      /\ marker' \in File /\ latch' \in File /\ owed' \in BOOLEAN
      /\ Evidence(rt[r], pc[r], marker, latch, owed)
  BY DEF Moves, Inv, TypeOK
<1> SUFFICES Evidence(z, pc'[r], marker', latch', owed')
  BY <1>0
<1> USE OwnerAssumption DEF Quiet, Works, SameOwner, WorkStep, ShutdownStep, Step, Plain,
        Covered, Set, Touched
<1>1. \A u \in Thread : z.lease # "INACTIVE" => ThreadEvidence(z, pc'[r][u], marker', latch', owed')
  BY <1>0
  DEF Evidence, ThreadEvidence, OpenEvidence, LocksOK, Reservation, Connection, Connects,
      Holds, Closes,
         Lease, SealedStep, RuntimeState, File, Starts
<1>2. z.lease # "INACTIVE" /\ z.closed = FALSE => OpenEvidence(z, marker', latch', owed')
  BY <1>0
  DEF Evidence, ThreadEvidence, OpenEvidence, LocksOK, Reservation, Connection, Connects,
      Holds, Closes,
         Lease, SealedStep, RuntimeState, File, Starts
<1> QED
  BY <1>0, <1>1, <1>2
  DEF Evidence, ThreadEvidence, OpenEvidence, LocksOK, Lease, Closes, SealedStep,
         RuntimeState, File, Starts

\* Database work happens where the marker or the latch covers it.
LEMMA WorkKeepsEvidence ==
    ASSUME Inv, NEW r \in Runtime, NEW t \in Thread, NEW z, NEW b, Moves(r, t, z, b),
           Works(rt[r], z), UNCHANGED <<marker, latch, owed>>,
           pc[r][t] \in {"admitted", "working", "committing", "reading", "migrating", "reporting"},
           b \in {"closing", "disconnecting", "releasing"}
    PROVE  Evidence(rt'[r], pc'[r], marker', latch', owed')
<1>0. /\ rt[r] \in RuntimeState /\ z \in RuntimeState /\ pc[r] \in [Thread -> Step]
      /\ b \in Step
      /\ rt'[r] = z /\ pc'[r] = [pc[r] EXCEPT ![t] = b] /\ pc'[r] \in [Thread -> Step]
      /\ LocksOK(rt[r], pc[r])
      /\ marker \in File /\ latch \in File /\ owed \in BOOLEAN
      /\ marker' \in File /\ latch' \in File /\ owed' \in BOOLEAN
      /\ Evidence(rt[r], pc[r], marker, latch, owed)
  BY DEF Moves, Inv, TypeOK
<1> SUFFICES Evidence(z, pc'[r], marker', latch', owed')
  BY <1>0
<1> USE OwnerAssumption DEF Quiet, Works, SameOwner, WorkStep, ShutdownStep, Step, Plain,
        Covered, Set, Touched
<1>1. \A u \in Thread : z.lease # "INACTIVE" => ThreadEvidence(z, pc'[r][u], marker', latch', owed')
  BY <1>0
  DEF Evidence, ThreadEvidence, OpenEvidence, LocksOK, Reservation, Connection, Connects,
      Holds, Closes,
         Lease, SealedStep, RuntimeState, File, Starts
<1>2. z.lease # "INACTIVE" /\ z.closed = FALSE => OpenEvidence(z, marker', latch', owed')
  BY <1>0
  DEF Evidence, ThreadEvidence, OpenEvidence, LocksOK, Reservation, Connection, Connects,
      Holds, Closes,
         Lease, SealedStep, RuntimeState, File, Starts
<1> QED
  BY <1>0, <1>1, <1>2
  DEF Evidence, ThreadEvidence, OpenEvidence, LocksOK, Lease, Closes, SealedStep,
         RuntimeState, File, Starts

\* A validated shutdown has nothing unproven left.
LEMMA ValidateKeepsEvidence ==
    ASSUME Inv, NEW r \in Runtime, NEW t \in Thread, NEW z, NEW b, Moves(r, t, z, b),
           z = [rt[r] EXCEPT !.unproven = FALSE], UNCHANGED <<marker, latch, owed>>,
           pc[r][t] = "validating", b = "validated"
    PROVE  Evidence(rt'[r], pc'[r], marker', latch', owed')
<1>0. /\ rt[r] \in RuntimeState /\ z \in RuntimeState /\ pc[r] \in [Thread -> Step]
      /\ b \in Step
      /\ rt'[r] = z /\ pc'[r] = [pc[r] EXCEPT ![t] = b] /\ pc'[r] \in [Thread -> Step]
      /\ LocksOK(rt[r], pc[r])
      /\ marker \in File /\ latch \in File /\ owed \in BOOLEAN
      /\ marker' \in File /\ latch' \in File /\ owed' \in BOOLEAN
      /\ Evidence(rt[r], pc[r], marker, latch, owed)
  BY DEF Moves, Inv, TypeOK
<1> SUFFICES Evidence(z, pc'[r], marker', latch', owed')
  BY <1>0
<1> USE OwnerAssumption DEF Quiet, Works, SameOwner, WorkStep, ShutdownStep, Step, Plain,
        Covered, Set, Touched
<1>1. \A u \in Thread : z.lease # "INACTIVE" => ThreadEvidence(z, pc'[r][u], marker', latch', owed')
  BY <1>0
  DEF Evidence, ThreadEvidence, OpenEvidence, LocksOK, Reservation, Connection, Connects,
      Holds, Closes,
         Lease, SealedStep, RuntimeState, File, Starts
<1>2. z.lease # "INACTIVE" /\ z.closed = FALSE => OpenEvidence(z, marker', latch', owed')
  BY <1>0
  DEF Evidence, ThreadEvidence, OpenEvidence, LocksOK, Reservation, Connection, Connects,
      Holds, Closes,
         Lease, SealedStep, RuntimeState, File, Starts
<1> QED
  BY <1>0, <1>1, <1>2
  DEF Evidence, ThreadEvidence, OpenEvidence, LocksOK, Lease, Closes, SealedStep,
         RuntimeState, File, Starts

\* A shutdown that decides that it needs no latch finds a runtime that was
\* never paused.
LEMMA DecideKeepsEvidence ==
    ASSUME Inv, NEW r \in Runtime, NEW t \in Thread, NEW z, NEW b, Moves(r, t, z, b),
           z = [rt[r] EXCEPT !.mustLatch = (rt[r].operator # "READY")],
           UNCHANGED <<marker, latch, owed>>,
           pc[r][t] = "validated", b = "latching"
    PROVE  Evidence(rt'[r], pc'[r], marker', latch', owed')
<1>0. /\ rt[r] \in RuntimeState /\ z \in RuntimeState /\ pc[r] \in [Thread -> Step]
      /\ b \in Step
      /\ rt'[r] = z /\ pc'[r] = [pc[r] EXCEPT ![t] = b] /\ pc'[r] \in [Thread -> Step]
      /\ LocksOK(rt[r], pc[r])
      /\ marker \in File /\ latch \in File /\ owed \in BOOLEAN
      /\ marker' \in File /\ latch' \in File /\ owed' \in BOOLEAN
      /\ Evidence(rt[r], pc[r], marker, latch, owed)
  BY DEF Moves, Inv, TypeOK
<1> SUFFICES Evidence(z, pc'[r], marker', latch', owed')
  BY <1>0
<1> USE OwnerAssumption DEF Quiet, Works, SameOwner, WorkStep, ShutdownStep, Step, Plain,
        Covered, Set, Touched
<1>1. \A u \in Thread : z.lease # "INACTIVE" => ThreadEvidence(z, pc'[r][u], marker', latch', owed')
  BY <1>0
  DEF Evidence, ThreadEvidence, OpenEvidence, LocksOK, Reservation, Connection, Connects,
      Holds, Closes,
         Lease, SealedStep, RuntimeState, File, Starts
<1>2. z.lease # "INACTIVE" /\ z.closed = FALSE => OpenEvidence(z, marker', latch', owed')
  BY <1>0
  DEF Evidence, ThreadEvidence, OpenEvidence, LocksOK, Reservation, Connection, Connects,
      Holds, Closes,
         Lease, SealedStep, RuntimeState, File, Starts
<1> QED
  BY <1>0, <1>1, <1>2
  DEF Evidence, ThreadEvidence, OpenEvidence, LocksOK, Lease, Closes, SealedStep,
         RuntimeState, File, Starts

\* The latch is set before the marker goes.
LEMMA SetLatchKeepsEvidence ==
    ASSUME Inv, NEW r \in Runtime, NEW t \in Thread, NEW z, NEW b, Moves(r, t, z, b),
           marker' \in File, latch' \in File, z = rt[r], UNCHANGED <<marker, owed>>,
           pc[r][t] = "latching", b \in {"unmarking", "failed"},
           Set(latch) => Set(latch'), latch.seen # "absent" => latch'.seen = latch.seen,
           rt[r].mustLatch = FALSE => latch' = latch,
           rt[r].mustLatch = TRUE /\ b = "unmarking" => Set(latch')
    PROVE  Evidence(rt'[r], pc'[r], marker', latch', owed')
<1>0. /\ rt[r] \in RuntimeState /\ z \in RuntimeState /\ pc[r] \in [Thread -> Step]
      /\ b \in Step
      /\ rt'[r] = z /\ pc'[r] = [pc[r] EXCEPT ![t] = b] /\ pc'[r] \in [Thread -> Step]
      /\ LocksOK(rt[r], pc[r])
      /\ marker \in File /\ latch \in File /\ owed \in BOOLEAN
      /\ marker' \in File /\ latch' \in File /\ owed' \in BOOLEAN
      /\ Evidence(rt[r], pc[r], marker, latch, owed)
  BY DEF Moves, Inv, TypeOK
<1> SUFFICES Evidence(z, pc'[r], marker', latch', owed')
  BY <1>0
<1> USE OwnerAssumption DEF Quiet, Works, SameOwner, WorkStep, ShutdownStep, Step, Plain,
        Covered, Set, Touched
<1>1. \A u \in Thread : z.lease # "INACTIVE" => ThreadEvidence(z, pc'[r][u], marker', latch', owed')
  BY <1>0
  DEF Evidence, ThreadEvidence, OpenEvidence, LocksOK, Reservation, Connection, Connects,
      Holds, Closes,
         Lease, SealedStep, RuntimeState, File, Starts
<1>2. z.lease # "INACTIVE" /\ z.closed = FALSE => OpenEvidence(z, marker', latch', owed')
  BY <1>0
  DEF Evidence, ThreadEvidence, OpenEvidence, LocksOK, Reservation, Connection, Connects,
      Holds, Closes,
         Lease, SealedStep, RuntimeState, File, Starts
<1> QED
  BY <1>0, <1>1, <1>2
  DEF Evidence, ThreadEvidence, OpenEvidence, LocksOK, Lease, Closes, SealedStep,
         RuntimeState, File, Starts

\* A marker is removed when the latch covers what there is to recover.
LEMMA RemoveKeepsEvidence ==
    ASSUME Inv, NEW r \in Runtime, NEW t \in Thread, NEW z, NEW b, Moves(r, t, z, b),
           marker' \in File, latch' \in File, z = rt[r], UNCHANGED <<latch, owed>>,
           pc[r][t] = "unmarking", b \in {"unlocking", "failed"}
    PROVE  Evidence(rt'[r], pc'[r], marker', latch', owed')
<1>0. /\ rt[r] \in RuntimeState /\ z \in RuntimeState /\ pc[r] \in [Thread -> Step]
      /\ b \in Step
      /\ rt'[r] = z /\ pc'[r] = [pc[r] EXCEPT ![t] = b] /\ pc'[r] \in [Thread -> Step]
      /\ LocksOK(rt[r], pc[r])
      /\ marker \in File /\ latch \in File /\ owed \in BOOLEAN
      /\ marker' \in File /\ latch' \in File /\ owed' \in BOOLEAN
      /\ Evidence(rt[r], pc[r], marker, latch, owed)
  BY DEF Moves, Inv, TypeOK
<1> SUFFICES Evidence(z, pc'[r], marker', latch', owed')
  BY <1>0
<1> USE OwnerAssumption DEF Quiet, Works, SameOwner, WorkStep, ShutdownStep, Step, Plain,
        Covered, Set, Touched
<1>1. \A u \in Thread : z.lease # "INACTIVE" => ThreadEvidence(z, pc'[r][u], marker', latch', owed')
  BY <1>0
  DEF Evidence, ThreadEvidence, OpenEvidence, LocksOK, Reservation, Connection, Connects,
      Holds, Closes,
         Lease, SealedStep, RuntimeState, File, Starts
<1>2. z.lease # "INACTIVE" /\ z.closed = FALSE => OpenEvidence(z, marker', latch', owed')
  BY <1>0
  DEF Evidence, ThreadEvidence, OpenEvidence, LocksOK, Reservation, Connection, Connects,
      Holds, Closes,
         Lease, SealedStep, RuntimeState, File, Starts
<1> QED
  BY <1>0, <1>1, <1>2
  DEF Evidence, ThreadEvidence, OpenEvidence, LocksOK, Lease, Closes, SealedStep,
         RuntimeState, File, Starts

\* A shutdown that fails pauses the runtime, and sets the evidence where it
\* can.
LEMMA PreserveKeepsEvidence ==
    ASSUME Inv, NEW r \in Runtime, NEW t \in Thread, NEW z, NEW b, Moves(r, t, z, b),
           marker' \in File, latch' \in File, Quiet(rt[r], z), z.operator = "PAUSED",
           z.accepting = FALSE, owed' = owed,
           Set(marker) => Set(marker'), Set(latch) => Set(latch'),
           latch.seen = "whole" => latch'.seen = "whole",
           pc[r][t] \in {"blocked", "invalid", "failed", "forsaking"},
           b \in {"idle", "leaving"} \/ (b = "forsakenSealing" /\ Set(latch'))
    PROVE  Evidence(rt'[r], pc'[r], marker', latch', owed')
<1>0. /\ rt[r] \in RuntimeState /\ z \in RuntimeState /\ pc[r] \in [Thread -> Step]
      /\ b \in Step
      /\ rt'[r] = z /\ pc'[r] = [pc[r] EXCEPT ![t] = b] /\ pc'[r] \in [Thread -> Step]
      /\ LocksOK(rt[r], pc[r])
      /\ marker \in File /\ latch \in File /\ owed \in BOOLEAN
      /\ marker' \in File /\ latch' \in File /\ owed' \in BOOLEAN
      /\ Evidence(rt[r], pc[r], marker, latch, owed)
  BY DEF Moves, Inv, TypeOK
<1> SUFFICES Evidence(z, pc'[r], marker', latch', owed')
  BY <1>0
<1> USE OwnerAssumption DEF Quiet, Works, SameOwner, WorkStep, ShutdownStep, Step, Plain,
        Covered, Set, Touched
<1>1. \A u \in Thread : z.lease # "INACTIVE" => ThreadEvidence(z, pc'[r][u], marker', latch', owed')
  BY <1>0
  DEF Evidence, ThreadEvidence, OpenEvidence, LocksOK, Reservation, Connection, Connects,
      Holds, Closes,
         Lease, SealedStep, RuntimeState, File, Starts
<1>2. z.lease # "INACTIVE" /\ z.closed = FALSE => OpenEvidence(z, marker', latch', owed')
  BY <1>0
  DEF Evidence, ThreadEvidence, OpenEvidence, LocksOK, Reservation, Connection, Connects,
      Holds, Closes,
         Lease, SealedStep, RuntimeState, File, Starts
<1> QED
  BY <1>0, <1>1, <1>2
  DEF Evidence, ThreadEvidence, OpenEvidence, LocksOK, Lease, Closes, SealedStep,
         RuntimeState, File, Starts

-----------------------------------------------------------------------------
(* From one runtime to the whole state.                                    *)

\* The lock file is taken from nobody, given up by its owner, or left alone.
LockFile(r, z) ==
    \/ flock' = flock /\ (z.lease = "INACTIVE" <=> rt[r].lease = "INACTIVE")
    \/ flock = None /\ flock' = r /\ z.lease # "INACTIVE"
    \/ Owns(r) /\ flock' = None /\ z.lease = "INACTIVE"

\* A step of one runtime keeps the invariant when it keeps that runtime's part
\* of it and what is owed, and when only the owner of the lock file touches the
\* state files: the evidence of any other runtime does not depend on them.
LEMMA OneRuntimeSteps ==
    ASSUME Inv, NEW r \in Runtime, NEW t \in Thread, NEW z, NEW b, Moves(r, t, z, b),
           LockFile(r, z),
           marker' \in File, latch' \in File, owed' \in BOOLEAN,
           Owns(r) \/ UNCHANGED <<marker, latch, owed>>,
           LocksOK(rt'[r], pc'[r]),
           Evidence(rt'[r], pc'[r], marker', latch', owed'),
           Files(marker', latch', owed')
    PROVE  Inv'
<1>1. TypeOK'
  BY DEF Inv, TypeOK, Moves, LockFile
<1>2. /\ z \in RuntimeState /\ rt'[r] = z /\ pc'[r] = [pc[r] EXCEPT ![t] = b]
      /\ \A x \in Runtime \ {r} : rt'[x] = rt[x] /\ pc'[x] = pc[x]
  BY DEF Inv, TypeOK, Moves
<1>3. OwnerLocked'
  BY <1>2, OwnerAssumption
  DEF Inv, TypeOK, OwnerLocked, Owns, LockFile, RuntimeState, LeaseLifecycle
<1>4. \A x \in Runtime : LocksOK(rt'[x], pc'[x])
  BY <1>2 DEF Inv
<1>5. ASSUME NEW x \in Runtime \ {r} PROVE Evidence(rt'[x], pc'[x], marker', latch', owed')
  <2>1. Evidence(rt[x], pc[x], marker, latch, owed)
    BY DEF Inv
  <2>2. CASE Owns(r)
    <3>1. rt[x].lease = "INACTIVE"
      BY <2>2 DEF Inv, TypeOK, OwnerLocked, Owns, RuntimeState, LeaseLifecycle
    <3> QED
      BY <3>1, <1>2 DEF Evidence
  <2>3. CASE UNCHANGED <<marker, latch, owed>>
    BY <2>1, <2>3, <1>2
  <2> QED
    BY <2>2, <2>3
<1> QED
  BY <1>1, <1>2, <1>3, <1>4, <1>5 DEF Inv

\* In particular a step that leaves the files and the lock file alone.
LEMMA FilesAlone ==
    ASSUME Inv, NEW r \in Runtime, NEW t \in Thread, NEW z, NEW b, Moves(r, t, z, b),
           UNCHANGED <<flock, marker, latch, owed>>,
           z.lease = "INACTIVE" <=> rt[r].lease = "INACTIVE",
           LocksOK(rt'[r], pc'[r]),
           Evidence(rt'[r], pc'[r], marker', latch', owed')
    PROVE  Inv'
<1>1. /\ marker' \in File /\ latch' \in File /\ owed' \in BOOLEAN
      /\ Files(marker', latch', owed')
  BY DEF Inv, TypeOK
<1> QED
  BY <1>1, OneRuntimeSteps DEF LockFile

\* What creating a state file does: when it returns the file is set; it never
\* takes evidence away.
LEMMA CreateSets ==
    ASSUME NEW f \in File, NEW g \in File, NEW ok \in BOOLEAN, CreateStateFile(f, g, ok)
    PROVE  /\ ok => Set(g)
           /\ Set(f) => Set(g)
           /\ Lasting(f) => Lasting(g)
           /\ f.seen # "absent" => g.seen = f.seen
BY DEF CreateStateFile, Set, Lasting, File, Durable, Content

\* Preserving the evidence takes none away, and sets the latch when it returns.
LEMMA PreserveSets ==
    ASSUME TypeOK, NEW ok \in BOOLEAN, PreserveRecoveryState(ok)
    PROVE  /\ marker' \in File /\ latch' \in File
           /\ Set(marker) => Set(marker')
           /\ Set(latch) => Set(latch')
           /\ Lasting(marker) => Lasting(marker')
           /\ Lasting(latch) => Lasting(latch')
           /\ latch.seen # "absent" => latch'.seen = latch.seen
           /\ ok => Set(latch')
<1>1. PICK marked \in BOOLEAN, latched \in BOOLEAN, m \in File, l \in File :
        /\ CreateStateFile(marker, m, marked)
        /\ IF marked THEN CreateStateFile(latch, l, latched) ELSE l = latch /\ ~latched
        /\ marker' = m
        /\ latch' = l
        /\ ok = latched
  BY DEF PreserveRecoveryState
<1>2. /\ Set(marker) => Set(m)
      /\ Lasting(marker) => Lasting(m)
  BY <1>1, CreateSets DEF TypeOK
<1>3. CASE marked
  BY <1>1, <1>2, <1>3, CreateSets DEF TypeOK
<1>4. CASE ~marked
  BY <1>1, <1>2, <1>4
<1> QED
  BY <1>3, <1>4

\* A failure of database work, classified or not.
LEMMA FailureWorks ==
    ASSUME NEW s \in RuntimeState, NEW z \in AfterFailure(s)
    PROVE  z \in RuntimeState /\ Works(s, z) /\ SameLocks(s, z) /\ z.unproven = s.unproven
BY DEF AfterFailure, RuntimeState, Works, SameLocks, SameOwner, Operator

\* A write that may have been applied.
LEMMA AppliedWorks ==
    ASSUME NEW s \in RuntimeState, NEW y \in RuntimeState, NEW a \in BOOLEAN,
           Works(s, y), SameLocks(s, y)
    PROVE  LET z == [y EXCEPT !.unproven = @ \/ a]
           IN  z \in RuntimeState /\ Works(s, z) /\ SameLocks(s, z)
<1>1. CASE a = TRUE
  <2>1. [y EXCEPT !.unproven = @ \/ a] = [y EXCEPT !.unproven = TRUE]
    BY <1>1
  <2> QED
    BY <2>1 DEF RuntimeState, Works, SameLocks, SameOwner
<1>2. CASE a = FALSE
  <2>1. (y.unproven \/ a) = y.unproven
    BY <1>2 DEF RuntimeState
  <2>2. [y EXCEPT !.unproven = @ \/ a] = y
    BY <2>1 DEF RuntimeState
  <2> QED
    BY <2>2
<1> QED
  BY <1>1, <1>2

\* A pause changes nothing else.
LEMMA PausedIsQuiet ==
    ASSUME NEW s \in RuntimeState
    PROVE  /\ Paused(s) \in RuntimeState /\ Quiet(s, Paused(s)) /\ SameLocks(s, Paused(s))
           /\ Paused(s).operator = "PAUSED" /\ Paused(s).accepting = FALSE
<1> DEFINE z == Paused(s)
<1>1. z \in RuntimeState
  BY DEF Paused, RuntimeState, Operator
<1>2. z.operator = "PAUSED" /\ z.accepting = FALSE
  BY DEF Paused, RuntimeState
<1>3. /\ SameLocks(s, z)
      /\ z.mustLatch = s.mustLatch /\ z.unproven = s.unproven /\ z.failure = s.failure
  BY DEF Paused, RuntimeState, SameLocks, SameOwner
<1> HIDE DEF z
<1>4. Quiet(s, z)
  BY <1>2, <1>3 DEF Quiet, SameLocks, SameOwner
<1> QED
  BY <1>1, <1>2, <1>3, <1>4 DEF z

\* The facts that the parts of the invariant about one runtime give.
LEMMA OfRuntime ==
    ASSUME Inv, NEW r \in Runtime, NEW t \in Thread
    PROVE  /\ rt[r] \in RuntimeState /\ pc[r] \in [Thread -> Step] /\ pc[r][t] \in Step
           /\ marker \in File /\ latch \in File /\ owed \in BOOLEAN
           /\ LocksOK(rt[r], pc[r])
           /\ Evidence(rt[r], pc[r], marker, latch, owed)
           /\ Files(marker, latch, owed)
           /\ \A b \in Step : [pc[r] EXCEPT ![t] = b] \in [Thread -> Step]
BY DEF Inv, TypeOK
-----------------------------------------------------------------------------
(* The actions.                                                            *)

\* A database that is refused leaves the start to give up.
LEMMA RefuseDatabaseKeepsInv ==
    ASSUME Inv, NEW r \in Runtime, NEW t \in Thread, RefuseDatabase(r, t)
    PROVE  Inv'
<1>1. pc[r][t] = "opening" /\ UNCHANGED <<flock, marker, latch, owed>>
  BY OfRuntime DEF RefuseDatabase, At, RuntimeState
<1>2. CASE /\ UNCHANGED rt /\ Goto(r, t, "givingUp")
  <2> DEFINE z == rt[r]
  <2>1. z \in RuntimeState
    BY <1>1, OfRuntime DEF RuntimeState, LeaseLifecycle, Operator, Role
  <2>2. /\ z.lease = "INACTIVE" <=> rt[r].lease = "INACTIVE"
        /\ SameLocks(rt[r], z)
        /\ Quiet(rt[r], z)
    BY <1>1, <1>2, <2>1, OfRuntime
    DEF RuntimeState, LeaseLifecycle, Operator, Role, SameLocks, SameOwner, Quiet,
        Works, Plain, Owns
  <2>3. Moves(r, t, z, "givingUp")
    BY <1>2, <2>1, OfRuntime DEF Moves, Goto, Step, WorkStep, ShutdownStep, Inv, TypeOK
  <2> HIDE DEF z
  <2>4. LocksOK(rt'[r], pc'[r])
    BY <1>1, <1>2, <2>2, <2>3, WalkKeepsLocks DEF Walk
  <2>5. Evidence(rt'[r], pc'[r], marker', latch', owed')
    BY <1>1, <1>2, <2>2, <2>3, QuietKeepsEvidence DEF Plain
  <2> QED
    BY <1>1, <2>2, <2>3, <2>4, <2>5, FilesAlone
<1> QED
  BY OfRuntime, <1>2 DEF RefuseDatabase, RuntimeState

\* A unit of work is admitted while the runtime accepts work, with the marker
\* set.
LEMMA AdmitKeepsInv ==
    ASSUME Inv, NEW r \in Runtime, NEW t \in Thread, Admit(r, t)
    PROVE  Inv'
<1>1. pc[r][t] = "idle" /\ UNCHANGED <<flock, marker, latch, owed>>
      /\ rt[r].work = FALSE /\ rt[r].lease = "ACTIVE" /\ rt[r].closed = FALSE
      /\ rt[r].accepting = TRUE /\ rt[r].role = "ALL_IN_ONE"
  BY OfRuntime DEF Admit, At, RuntimeState, Accepting
<1>2. CASE /\ rt' = [rt EXCEPT ![r].work = TRUE] /\ Goto(r, t, "admitted")
  <2> DEFINE z == [rt[r] EXCEPT !.work = TRUE]
  <2>1. z \in RuntimeState
    BY <1>1, OfRuntime DEF RuntimeState, LeaseLifecycle, Operator, Role
  <2>2. /\ z.lease = "INACTIVE" <=> rt[r].lease = "INACTIVE"
        /\ SameOwner(rt[r], z)
        /\ Quiet(rt[r], z)
        /\ z.lifecycle = rt[r].lifecycle
        /\ z.out = rt[r].out
        /\ z.work = TRUE
    BY <1>1, <1>2, <2>1, OfRuntime
    DEF RuntimeState, LeaseLifecycle, Operator, Role, SameLocks, SameOwner, Quiet,
        Works, Plain, Owns
  <2>3. Moves(r, t, z, "admitted")
    BY <1>2, <2>1, OfRuntime DEF Moves, Goto, Step, WorkStep, ShutdownStep, Inv, TypeOK
  <2> HIDE DEF z
  <2>4. LocksOK(rt'[r], pc'[r])
    BY <1>1, <1>2, <2>2, <2>3, ReserveKeepsLocks
  <2>5. Evidence(rt'[r], pc'[r], marker', latch', owed')
    BY <1>1, <1>2, <2>2, <2>3, QuietKeepsEvidence DEF Plain
  <2> QED
    BY <1>1, <2>2, <2>3, <2>4, <2>5, FilesAlone
<1> QED
  BY OfRuntime, <1>2 DEF Admit, RuntimeState

\* A unit of work checks its connection out, or fails before or after.
LEMMA BeginImmediateKeepsInv ==
    ASSUME Inv, NEW r \in Runtime, NEW t \in Thread, BeginImmediate(r, t)
    PROVE  Inv'
<1>1. pc[r][t] = "admitted" /\ UNCHANGED <<flock, marker, latch, owed>>
  BY OfRuntime DEF BeginImmediate, At, RuntimeState
<1>2. CASE /\ rt[r].lease = "ACTIVE" /\ rt' = [rt EXCEPT ![r].out = @ + 1]
           /\ Goto(r, t, "working")
  <2> DEFINE z == [rt[r] EXCEPT !.out = @ + 1]
  <2>1. z \in RuntimeState
    BY <1>1, OfRuntime DEF RuntimeState, LeaseLifecycle, Operator, Role
  <2>2. /\ z.lease = "INACTIVE" <=> rt[r].lease = "INACTIVE"
        /\ SameOwner(rt[r], z)
        /\ Quiet(rt[r], z)
        /\ z.work = rt[r].work
        /\ z.lifecycle = rt[r].lifecycle
        /\ z.out = rt[r].out + 1
    BY <1>1, <1>2, <2>1, OfRuntime
    DEF RuntimeState, LeaseLifecycle, Operator, Role, SameLocks, SameOwner, Quiet,
        Works, Plain, Owns
  <2>3. Moves(r, t, z, "working")
    BY <1>2, <2>1, OfRuntime DEF Moves, Goto, Step, WorkStep, ShutdownStep, Inv, TypeOK
  <2> HIDE DEF z
  <2>4. LocksOK(rt'[r], pc'[r])
    BY <1>1, <1>2, <2>2, <2>3, CheckOutKeepsLocks
  <2>5. Evidence(rt'[r], pc'[r], marker', latch', owed')
    BY <1>1, <1>2, <2>2, <2>3, QuietKeepsEvidence DEF Plain
  <2> QED
    BY <1>1, <2>2, <2>3, <2>4, <2>5, FilesAlone
<1>3. CASE /\ rt[r].lease = "ACTIVE"
           /\ (\E s \in AfterFailure(rt[r]) : rt' = [rt EXCEPT ![r] = [s EXCEPT !.out = @ + 1]])
         /\ Goto(r, t, "closing")
  <2>1. PICK y \in AfterFailure(rt[r]) : rt' = [rt EXCEPT ![r] = [y EXCEPT !.out = @ + 1]]
    BY <1>3
  <2>2. y \in RuntimeState /\ Works(rt[r], y) /\ SameLocks(rt[r], y) /\ y.unproven = rt[r].unproven
    BY FailureWorks, OfRuntime
  <2> DEFINE z == [y EXCEPT !.out = @ + 1]
  <2>3. z \in RuntimeState
    BY <1>1, <2>1, <2>2, OfRuntime DEF RuntimeState, LeaseLifecycle, Operator, Role
  <2>4. /\ z.lease = "INACTIVE" <=> rt[r].lease = "INACTIVE"
        /\ SameOwner(rt[r], z)
        /\ Works(rt[r], z)
        /\ z.work = rt[r].work
        /\ z.lifecycle = rt[r].lifecycle
        /\ z.out = rt[r].out + 1
    BY <1>1, <1>3, <2>1, <2>2, <2>3, OfRuntime
    DEF RuntimeState, LeaseLifecycle, Operator, Role, SameLocks, SameOwner, Quiet,
        Works, Plain, Owns
  <2>5. Moves(r, t, z, "closing")
    BY <1>3, <2>1, <2>2, <2>3, OfRuntime
    DEF Moves, Goto, Step, WorkStep, ShutdownStep, Inv, TypeOK
  <2> HIDE DEF z
  <2>6. LocksOK(rt'[r], pc'[r])
    BY <1>1, <1>3, <2>4, <2>5, CheckOutKeepsLocks
  <2>7. Evidence(rt'[r], pc'[r], marker', latch', owed')
    BY <1>1, <1>3, <2>4, <2>5, WorkKeepsEvidence DEF Plain
  <2> QED
    BY <1>1, <2>4, <2>5, <2>6, <2>7, FilesAlone
<1>4. CASE /\ (\E s \in AfterFailure(rt[r]) : rt' = [rt EXCEPT ![r] = s])
           /\ Goto(r, t, "releasing")
  <2>1. PICK y \in AfterFailure(rt[r]) : rt' = [rt EXCEPT ![r] = y]
    BY <1>4
  <2>2. y \in RuntimeState /\ Works(rt[r], y) /\ SameLocks(rt[r], y) /\ y.unproven = rt[r].unproven
    BY FailureWorks, OfRuntime
  <2> DEFINE z == y
  <2>3. z \in RuntimeState
    BY <1>1, <2>1, <2>2, OfRuntime DEF RuntimeState, LeaseLifecycle, Operator, Role
  <2>4. /\ z.lease = "INACTIVE" <=> rt[r].lease = "INACTIVE"
        /\ SameLocks(rt[r], z)
        /\ Works(rt[r], z)
    BY <1>1, <1>4, <2>1, <2>2, <2>3, OfRuntime
    DEF RuntimeState, LeaseLifecycle, Operator, Role, SameLocks, SameOwner, Quiet,
        Works, Plain, Owns
  <2>5. Moves(r, t, z, "releasing")
    BY <1>4, <2>1, <2>2, <2>3, OfRuntime
    DEF Moves, Goto, Step, WorkStep, ShutdownStep, Inv, TypeOK
  <2> HIDE DEF z
  <2>6. LocksOK(rt'[r], pc'[r])
    BY <1>1, <1>4, <2>4, <2>5, WalkKeepsLocks DEF Walk
  <2>7. Evidence(rt'[r], pc'[r], marker', latch', owed')
    BY <1>1, <1>4, <2>4, <2>5, WorkKeepsEvidence DEF Plain
  <2> QED
    BY <1>1, <2>4, <2>5, <2>6, <2>7, FilesAlone
<1> QED
  BY OfRuntime, <1>2, <1>3, <1>4 DEF BeginImmediate, RuntimeState

\* A rollback pauses the runtime when it fails.
LEMMA RollbackKeepsInv ==
    ASSUME Inv, NEW r \in Runtime, NEW t \in Thread, Rollback(r, t)
    PROVE  Inv'
<1>1. pc[r][t] = "working" /\ UNCHANGED <<flock, marker, latch, owed>>
  BY OfRuntime DEF Rollback, At, RuntimeState
<1>2. CASE /\ (\E s \in AfterFailure(rt[r]) : rt' = [rt EXCEPT ![r] = s])
           /\ Goto(r, t, "closing")
  <2>1. PICK y \in AfterFailure(rt[r]) : rt' = [rt EXCEPT ![r] = y]
    BY <1>2
  <2>2. y \in RuntimeState /\ Works(rt[r], y) /\ SameLocks(rt[r], y) /\ y.unproven = rt[r].unproven
    BY FailureWorks, OfRuntime
  <2> DEFINE z == y
  <2>3. z \in RuntimeState
    BY <1>1, <2>1, <2>2, OfRuntime DEF RuntimeState, LeaseLifecycle, Operator, Role
  <2>4. /\ z.lease = "INACTIVE" <=> rt[r].lease = "INACTIVE"
        /\ SameLocks(rt[r], z)
        /\ Works(rt[r], z)
    BY <1>1, <1>2, <2>1, <2>2, <2>3, OfRuntime
    DEF RuntimeState, LeaseLifecycle, Operator, Role, SameLocks, SameOwner, Quiet,
        Works, Plain, Owns
  <2>5. Moves(r, t, z, "closing")
    BY <1>2, <2>1, <2>2, <2>3, OfRuntime
    DEF Moves, Goto, Step, WorkStep, ShutdownStep, Inv, TypeOK
  <2> HIDE DEF z
  <2>6. LocksOK(rt'[r], pc'[r])
    BY <1>1, <1>2, <2>4, <2>5, WalkKeepsLocks DEF Walk
  <2>7. Evidence(rt'[r], pc'[r], marker', latch', owed')
    BY <1>1, <1>2, <2>4, <2>5, WorkKeepsEvidence DEF Plain
  <2> QED
    BY <1>1, <2>4, <2>5, <2>6, <2>7, FilesAlone
<1> QED
  BY OfRuntime, <1>2 DEF Rollback, RuntimeState

\* The second look before a commit.
LEMMA CommitGuardKeepsInv ==
    ASSUME Inv, NEW r \in Runtime, NEW t \in Thread, CommitGuard(r, t)
    PROVE  Inv'
<1>1. pc[r][t] = "working" /\ UNCHANGED <<flock, marker, latch, owed>>
  BY OfRuntime DEF CommitGuard, At, RuntimeState
<1>2. CASE /\ UNCHANGED rt /\ Goto(r, t, "committing")
  <2> DEFINE z == rt[r]
  <2>1. z \in RuntimeState
    BY <1>1, OfRuntime DEF RuntimeState, LeaseLifecycle, Operator, Role
  <2>2. /\ z.lease = "INACTIVE" <=> rt[r].lease = "INACTIVE"
        /\ SameLocks(rt[r], z)
        /\ Quiet(rt[r], z)
    BY <1>1, <1>2, <2>1, OfRuntime
    DEF RuntimeState, LeaseLifecycle, Operator, Role, SameLocks, SameOwner, Quiet,
        Works, Plain, Owns
  <2>3. Moves(r, t, z, "committing")
    BY <1>2, <2>1, OfRuntime DEF Moves, Goto, Step, WorkStep, ShutdownStep, Inv, TypeOK
  <2> HIDE DEF z
  <2>4. LocksOK(rt'[r], pc'[r])
    BY <1>1, <1>2, <2>2, <2>3, WalkKeepsLocks DEF Walk
  <2>5. Evidence(rt'[r], pc'[r], marker', latch', owed')
    BY <1>1, <1>2, <2>2, <2>3, QuietKeepsEvidence DEF Plain
  <2> QED
    BY <1>1, <2>2, <2>3, <2>4, <2>5, FilesAlone
<1>3. CASE /\ (\E s \in AfterFailure(rt[r]) : rt' = [rt EXCEPT ![r] = s])
           /\ Goto(r, t, "closing")
  <2>1. PICK y \in AfterFailure(rt[r]) : rt' = [rt EXCEPT ![r] = y]
    BY <1>3
  <2>2. y \in RuntimeState /\ Works(rt[r], y) /\ SameLocks(rt[r], y) /\ y.unproven = rt[r].unproven
    BY FailureWorks, OfRuntime
  <2> DEFINE z == y
  <2>3. z \in RuntimeState
    BY <1>1, <2>1, <2>2, OfRuntime DEF RuntimeState, LeaseLifecycle, Operator, Role
  <2>4. /\ z.lease = "INACTIVE" <=> rt[r].lease = "INACTIVE"
        /\ SameLocks(rt[r], z)
        /\ Works(rt[r], z)
    BY <1>1, <1>3, <2>1, <2>2, <2>3, OfRuntime
    DEF RuntimeState, LeaseLifecycle, Operator, Role, SameLocks, SameOwner, Quiet,
        Works, Plain, Owns
  <2>5. Moves(r, t, z, "closing")
    BY <1>3, <2>1, <2>2, <2>3, OfRuntime
    DEF Moves, Goto, Step, WorkStep, ShutdownStep, Inv, TypeOK
  <2> HIDE DEF z
  <2>6. LocksOK(rt'[r], pc'[r])
    BY <1>1, <1>3, <2>4, <2>5, WalkKeepsLocks DEF Walk
  <2>7. Evidence(rt'[r], pc'[r], marker', latch', owed')
    BY <1>1, <1>3, <2>4, <2>5, WorkKeepsEvidence DEF Plain
  <2> QED
    BY <1>1, <2>4, <2>5, <2>6, <2>7, FilesAlone
<1> QED
  BY OfRuntime, <1>2, <1>3 DEF CommitGuard, RuntimeState

\* A commit leaves a write unproven, where the evidence covers it.
LEMMA CommitKeepsInv ==
    ASSUME Inv, NEW r \in Runtime, NEW t \in Thread, Commit(r, t)
    PROVE  Inv'
<1>1. pc[r][t] = "committing" /\ UNCHANGED <<flock, marker, latch, owed>>
  BY OfRuntime DEF Commit, At, RuntimeState
<1>2. CASE /\ rt' = [rt EXCEPT ![r].unproven = TRUE] /\ Goto(r, t, "closing")
  <2> DEFINE z == [rt[r] EXCEPT !.unproven = TRUE]
  <2>1. z \in RuntimeState
    BY <1>1, OfRuntime DEF RuntimeState, LeaseLifecycle, Operator, Role
  <2>2. /\ z.lease = "INACTIVE" <=> rt[r].lease = "INACTIVE"
        /\ SameLocks(rt[r], z)
        /\ Works(rt[r], z)
    BY <1>1, <1>2, <2>1, OfRuntime
    DEF RuntimeState, LeaseLifecycle, Operator, Role, SameLocks, SameOwner, Quiet,
        Works, Plain, Owns
  <2>3. Moves(r, t, z, "closing")
    BY <1>2, <2>1, OfRuntime DEF Moves, Goto, Step, WorkStep, ShutdownStep, Inv, TypeOK
  <2> HIDE DEF z
  <2>4. LocksOK(rt'[r], pc'[r])
    BY <1>1, <1>2, <2>2, <2>3, WalkKeepsLocks DEF Walk
  <2>5. Evidence(rt'[r], pc'[r], marker', latch', owed')
    BY <1>1, <1>2, <2>2, <2>3, WorkKeepsEvidence DEF Plain
  <2> QED
    BY <1>1, <2>2, <2>3, <2>4, <2>5, FilesAlone
<1>3. CASE /\ (\E s \in AfterFailure(rt[r]), applied \in BOOLEAN :
               rt' = [rt EXCEPT ![r] = [s EXCEPT !.unproven = @ \/ applied]])
         /\ Goto(r, t, "closing")
  <2>1. PICK y \in AfterFailure(rt[r]), a \in BOOLEAN :
          rt' = [rt EXCEPT ![r] = [y EXCEPT !.unproven = @ \/ a]]
    BY <1>3
  <2>2. y \in RuntimeState /\ Works(rt[r], y) /\ SameLocks(rt[r], y) /\ y.unproven = rt[r].unproven
    BY FailureWorks, OfRuntime
  <2> DEFINE z == [y EXCEPT !.unproven = @ \/ a]
  <2>3. z \in RuntimeState
    BY <1>1, <2>1, <2>2, AppliedWorks, OfRuntime
  <2>4. /\ z.lease = "INACTIVE" <=> rt[r].lease = "INACTIVE"
        /\ SameLocks(rt[r], z)
        /\ Works(rt[r], z)
    BY <1>1, <1>3, <2>1, <2>2, AppliedWorks, <2>3, OfRuntime
    DEF SameLocks, SameOwner
  <2>5. Moves(r, t, z, "closing")
    BY <1>3, <2>1, <2>2, <2>3, OfRuntime
    DEF Moves, Goto, Step, WorkStep, ShutdownStep, Inv, TypeOK
  <2> HIDE DEF z
  <2>6. LocksOK(rt'[r], pc'[r])
    BY <1>1, <1>3, <2>4, <2>5, WalkKeepsLocks DEF Walk
  <2>7. Evidence(rt'[r], pc'[r], marker', latch', owed')
    BY <1>1, <1>3, <2>4, <2>5, WorkKeepsEvidence DEF Plain
  <2> QED
    BY <1>1, <2>4, <2>5, <2>6, <2>7, FilesAlone
<1> QED
  BY OfRuntime, <1>2, <1>3 DEF Commit, RuntimeState

\* The connection of a unit of work is returned.
LEMMA CloseSessionKeepsInv ==
    ASSUME Inv, NEW r \in Runtime, NEW t \in Thread, CloseSession(r, t)
    PROVE  Inv'
<1>1. pc[r][t] = "closing" /\ UNCHANGED <<flock, marker, latch, owed>>
      /\ rt[r].out = 1
  BY OfRuntime DEF CloseSession, At, RuntimeState, LocksOK, Connection, Connects
<1>2. CASE /\ rt' = [rt EXCEPT ![r].out = @ - 1] /\ Goto(r, t, "releasing")
  <2> DEFINE z == [rt[r] EXCEPT !.out = @ - 1]
  <2>1. z \in RuntimeState
    BY <1>1, OfRuntime DEF RuntimeState, LeaseLifecycle, Operator, Role
  <2>2. /\ z.lease = "INACTIVE" <=> rt[r].lease = "INACTIVE"
        /\ SameOwner(rt[r], z)
        /\ Quiet(rt[r], z)
        /\ z.work = rt[r].work
        /\ z.lifecycle = rt[r].lifecycle
        /\ z.out = rt[r].out - 1
    BY <1>1, <1>2, <2>1, OfRuntime
    DEF RuntimeState, LeaseLifecycle, Operator, Role, SameLocks, SameOwner, Quiet,
        Works, Plain, Owns
  <2>3. Moves(r, t, z, "releasing")
    BY <1>2, <2>1, OfRuntime DEF Moves, Goto, Step, WorkStep, ShutdownStep, Inv, TypeOK
  <2> HIDE DEF z
  <2>4. LocksOK(rt'[r], pc'[r])
    BY <1>1, <1>2, <2>2, <2>3, CheckInKeepsLocks
  <2>5. Evidence(rt'[r], pc'[r], marker', latch', owed')
    BY <1>1, <1>2, <2>2, <2>3, QuietKeepsEvidence DEF Plain
  <2> QED
    BY <1>1, <2>2, <2>3, <2>4, <2>5, FilesAlone
<1>3. CASE /\ rt' = [rt EXCEPT ![r].out = @ - 1] /\ Goto(r, t, "reporting")
  <2> DEFINE z == [rt[r] EXCEPT !.out = @ - 1]
  <2>1. z \in RuntimeState
    BY <1>1, OfRuntime DEF RuntimeState, LeaseLifecycle, Operator, Role
  <2>2. /\ z.lease = "INACTIVE" <=> rt[r].lease = "INACTIVE"
        /\ SameOwner(rt[r], z)
        /\ Quiet(rt[r], z)
        /\ z.work = rt[r].work
        /\ z.lifecycle = rt[r].lifecycle
        /\ z.out = rt[r].out - 1
    BY <1>1, <1>3, <2>1, OfRuntime
    DEF RuntimeState, LeaseLifecycle, Operator, Role, SameLocks, SameOwner, Quiet,
        Works, Plain, Owns
  <2>3. Moves(r, t, z, "reporting")
    BY <1>3, <2>1, OfRuntime DEF Moves, Goto, Step, WorkStep, ShutdownStep, Inv, TypeOK
  <2> HIDE DEF z
  <2>4. LocksOK(rt'[r], pc'[r])
    BY <1>1, <1>3, <2>2, <2>3, CheckInKeepsLocks
  <2>5. Evidence(rt'[r], pc'[r], marker', latch', owed')
    BY <1>1, <1>3, <2>2, <2>3, QuietKeepsEvidence DEF Plain
  <2> QED
    BY <1>1, <2>2, <2>3, <2>4, <2>5, FilesAlone
<1> QED
  BY OfRuntime, <1>2, <1>3 DEF CloseSession, RuntimeState

\* A cleanup that fails pauses the runtime.
LEMMA ReportCleanupFailureKeepsInv ==
    ASSUME Inv, NEW r \in Runtime, NEW t \in Thread, ReportCleanupFailure(r, t)
    PROVE  Inv'
<1>1. pc[r][t] = "reporting" /\ UNCHANGED <<flock, marker, latch, owed>>
  BY OfRuntime DEF ReportCleanupFailure, At, RuntimeState
<1>2. CASE /\ rt' = [rt EXCEPT ![r] = [Paused(@) EXCEPT !.failure = TRUE]]
           /\ Goto(r, t, "releasing")
  <2> DEFINE z == [Paused(rt[r]) EXCEPT !.failure = TRUE]
  <2>1. z \in RuntimeState
    BY <1>1, OfRuntime DEF RuntimeState, LeaseLifecycle, Operator, Role, Paused
  <2>2. /\ z.lease = "INACTIVE" <=> rt[r].lease = "INACTIVE"
        /\ SameLocks(rt[r], z)
        /\ Works(rt[r], z)
    BY <1>1, <1>2, <2>1, OfRuntime
    DEF RuntimeState, LeaseLifecycle, Operator, Role, SameLocks, SameOwner, Quiet,
        Works, Plain, Owns, Paused
  <2>3. Moves(r, t, z, "releasing")
    BY <1>2, <2>1, OfRuntime DEF Moves, Goto, Step, WorkStep, ShutdownStep, Inv, TypeOK
  <2> HIDE DEF z
  <2>4. LocksOK(rt'[r], pc'[r])
    BY <1>1, <1>2, <2>2, <2>3, WalkKeepsLocks DEF Walk
  <2>5. Evidence(rt'[r], pc'[r], marker', latch', owed')
    BY <1>1, <1>2, <2>2, <2>3, WorkKeepsEvidence DEF Plain
  <2> QED
    BY <1>1, <2>2, <2>3, <2>4, <2>5, FilesAlone
<1> QED
  BY OfRuntime, <1>2 DEF ReportCleanupFailure, RuntimeState

\* The reservation is given up at the end of the work.
LEMMA ReleaseWorkKeepsInv ==
    ASSUME Inv, NEW r \in Runtime, NEW t \in Thread, ReleaseWork(r, t)
    PROVE  Inv'
<1>1. pc[r][t] = "releasing" /\ UNCHANGED <<flock, marker, latch, owed>>
  BY OfRuntime DEF ReleaseWork, At, RuntimeState
<1>2. CASE /\ rt' = [rt EXCEPT ![r].work = FALSE] /\ Goto(r, t, "idle")
  <2> DEFINE z == [rt[r] EXCEPT !.work = FALSE]
  <2>1. z \in RuntimeState
    BY <1>1, OfRuntime DEF RuntimeState, LeaseLifecycle, Operator, Role
  <2>2. /\ z.lease = "INACTIVE" <=> rt[r].lease = "INACTIVE"
        /\ SameOwner(rt[r], z)
        /\ Quiet(rt[r], z)
        /\ z.lifecycle = rt[r].lifecycle
        /\ z.out = rt[r].out
        /\ z.work = FALSE
    BY <1>1, <1>2, <2>1, OfRuntime
    DEF RuntimeState, LeaseLifecycle, Operator, Role, SameLocks, SameOwner, Quiet,
        Works, Plain, Owns
  <2>3. Moves(r, t, z, "idle")
    BY <1>2, <2>1, OfRuntime DEF Moves, Goto, Step, WorkStep, ShutdownStep, Inv, TypeOK
  <2> HIDE DEF z
  <2>4. LocksOK(rt'[r], pc'[r])
    BY <1>1, <1>2, <2>2, <2>3, ReleaseKeepsLocks
  <2>5. Evidence(rt'[r], pc'[r], marker', latch', owed')
    BY <1>1, <1>2, <2>2, <2>3, QuietKeepsEvidence DEF Plain
  <2> QED
    BY <1>1, <2>2, <2>3, <2>4, <2>5, FilesAlone
<1> QED
  BY OfRuntime, <1>2 DEF ReleaseWork, RuntimeState

\* An inspection is asked for where a recovery is required.
LEMMA AskReconciliationKeepsInv ==
    ASSUME Inv, NEW r \in Runtime, NEW t \in Thread, AskReconciliation(r, t)
    PROVE  Inv'
<1>1. pc[r][t] = "idle" /\ UNCHANGED <<flock, marker, latch, owed>>
      /\ rt[r].closed = FALSE /\ rt[r].requires = TRUE /\ rt[r].role = "ALL_IN_ONE"
  BY OfRuntime DEF AskReconciliation, At, RuntimeState, Reconcilable, LocksOK, Connection, Role
<1>2. CASE /\ UNCHANGED rt /\ Goto(r, t, "inspecting")
  <2> DEFINE z == rt[r]
  <2>1. z \in RuntimeState
    BY <1>1, OfRuntime DEF RuntimeState, LeaseLifecycle, Operator, Role
  <2>2. /\ z.lease = "INACTIVE" <=> rt[r].lease = "INACTIVE"
        /\ SameLocks(rt[r], z)
        /\ Quiet(rt[r], z)
    BY <1>1, <1>2, <2>1, OfRuntime
    DEF RuntimeState, LeaseLifecycle, Operator, Role, SameLocks, SameOwner, Quiet,
        Works, Plain, Owns
  <2>3. Moves(r, t, z, "inspecting")
    BY <1>2, <2>1, OfRuntime DEF Moves, Goto, Step, WorkStep, ShutdownStep, Inv, TypeOK
  <2> HIDE DEF z
  <2>4. LocksOK(rt'[r], pc'[r])
    BY <1>1, <1>2, <2>2, <2>3, WalkKeepsLocks DEF Walk
  <2>5. Evidence(rt'[r], pc'[r], marker', latch', owed')
    BY <1>1, <1>2, <2>2, <2>3, QuietKeepsEvidence DEF Plain
  <2> QED
    BY <1>1, <2>2, <2>3, <2>4, <2>5, FilesAlone
<1> QED
  BY OfRuntime, <1>2 DEF AskReconciliation, RuntimeState

\* The inspection reserves the work, or finds it reserved.
LEMMA ReserveReconciliationKeepsInv ==
    ASSUME Inv, NEW r \in Runtime, NEW t \in Thread, ReserveReconciliation(r, t)
    PROVE  Inv'
<1>1. pc[r][t] = "inspecting" /\ UNCHANGED <<flock, marker, latch, owed>>
  BY OfRuntime DEF ReserveReconciliation, At, RuntimeState
<1>2. CASE /\ UNCHANGED rt /\ Goto(r, t, "idle")
  <2> DEFINE z == rt[r]
  <2>1. z \in RuntimeState
    BY <1>1, OfRuntime DEF RuntimeState, LeaseLifecycle, Operator, Role
  <2>2. /\ z.lease = "INACTIVE" <=> rt[r].lease = "INACTIVE"
        /\ SameLocks(rt[r], z)
        /\ Quiet(rt[r], z)
    BY <1>1, <1>2, <2>1, OfRuntime
    DEF RuntimeState, LeaseLifecycle, Operator, Role, SameLocks, SameOwner, Quiet,
        Works, Plain, Owns
  <2>3. Moves(r, t, z, "idle")
    BY <1>2, <2>1, OfRuntime DEF Moves, Goto, Step, WorkStep, ShutdownStep, Inv, TypeOK
  <2> HIDE DEF z
  <2>4. LocksOK(rt'[r], pc'[r])
    BY <1>1, <1>2, <2>2, <2>3, WalkKeepsLocks DEF Walk
  <2>5. Evidence(rt'[r], pc'[r], marker', latch', owed')
    BY <1>1, <1>2, <2>2, <2>3, QuietKeepsEvidence DEF Plain
  <2> QED
    BY <1>1, <2>2, <2>3, <2>4, <2>5, FilesAlone
<1>3. CASE /\ rt[r].work = FALSE /\ rt' = [rt EXCEPT ![r].work = TRUE]
           /\ Goto(r, t, "connecting")
  <2> DEFINE z == [rt[r] EXCEPT !.work = TRUE]
  <2>1. z \in RuntimeState
    BY <1>1, OfRuntime DEF RuntimeState, LeaseLifecycle, Operator, Role
  <2>2. /\ z.lease = "INACTIVE" <=> rt[r].lease = "INACTIVE"
        /\ SameOwner(rt[r], z)
        /\ Quiet(rt[r], z)
        /\ z.lifecycle = rt[r].lifecycle
        /\ z.out = rt[r].out
        /\ z.work = TRUE
    BY <1>1, <1>3, <2>1, OfRuntime
    DEF RuntimeState, LeaseLifecycle, Operator, Role, SameLocks, SameOwner, Quiet,
        Works, Plain, Owns
  <2>3. Moves(r, t, z, "connecting")
    BY <1>3, <2>1, OfRuntime DEF Moves, Goto, Step, WorkStep, ShutdownStep, Inv, TypeOK
  <2> HIDE DEF z
  <2>4. LocksOK(rt'[r], pc'[r])
    BY <1>1, <1>3, <2>2, <2>3, ReserveKeepsLocks
  <2>5. Evidence(rt'[r], pc'[r], marker', latch', owed')
    BY <1>1, <1>3, <2>2, <2>3, QuietKeepsEvidence DEF Plain
  <2> QED
    BY <1>1, <2>2, <2>3, <2>4, <2>5, FilesAlone
<1> QED
  BY OfRuntime, <1>2, <1>3 DEF ReserveReconciliation, RuntimeState

\* An inspection connects under an active lease only.
LEMMA ConnectReaderKeepsInv ==
    ASSUME Inv, NEW r \in Runtime, NEW t \in Thread, ConnectReader(r, t)
    PROVE  Inv'
<1>1. pc[r][t] = "connecting" /\ UNCHANGED <<flock, marker, latch, owed>>
  BY OfRuntime DEF ConnectReader, At, RuntimeState
<1>2. CASE /\ rt[r].lease = "ACTIVE" /\ rt' = [rt EXCEPT ![r].out = @ + 1]
           /\ Goto(r, t, "reading")
  <2> DEFINE z == [rt[r] EXCEPT !.out = @ + 1]
  <2>1. z \in RuntimeState
    BY <1>1, OfRuntime DEF RuntimeState, LeaseLifecycle, Operator, Role
  <2>2. /\ z.lease = "INACTIVE" <=> rt[r].lease = "INACTIVE"
        /\ SameOwner(rt[r], z)
        /\ Quiet(rt[r], z)
        /\ z.work = rt[r].work
        /\ z.lifecycle = rt[r].lifecycle
        /\ z.out = rt[r].out + 1
        /\ rt[r].closed = FALSE
    BY <1>1, <1>2, <2>1, OfRuntime
    DEF RuntimeState, LeaseLifecycle, Operator, Role, SameLocks, SameOwner, Quiet,
        Works, Plain, Owns, LocksOK, Lease, Closes, SealedStep, Starts, WorkStep, ShutdownStep
  <2>3. Moves(r, t, z, "reading")
    BY <1>2, <2>1, OfRuntime DEF Moves, Goto, Step, WorkStep, ShutdownStep, Inv, TypeOK
  <2> HIDE DEF z
  <2>4. LocksOK(rt'[r], pc'[r])
    BY <1>1, <1>2, <2>2, <2>3, CheckOutKeepsLocks
  <2>5. Evidence(rt'[r], pc'[r], marker', latch', owed')
    BY <1>1, <1>2, <2>2, <2>3, QuietKeepsEvidence DEF Plain
  <2> QED
    BY <1>1, <2>2, <2>3, <2>4, <2>5, FilesAlone
<1>3. CASE /\ UNCHANGED rt /\ Goto(r, t, "releasing")
  <2> DEFINE z == rt[r]
  <2>1. z \in RuntimeState
    BY <1>1, OfRuntime DEF RuntimeState, LeaseLifecycle, Operator, Role
  <2>2. /\ z.lease = "INACTIVE" <=> rt[r].lease = "INACTIVE"
        /\ SameLocks(rt[r], z)
        /\ Quiet(rt[r], z)
    BY <1>1, <1>3, <2>1, OfRuntime
    DEF RuntimeState, LeaseLifecycle, Operator, Role, SameLocks, SameOwner, Quiet,
        Works, Plain, Owns
  <2>3. Moves(r, t, z, "releasing")
    BY <1>3, <2>1, OfRuntime DEF Moves, Goto, Step, WorkStep, ShutdownStep, Inv, TypeOK
  <2> HIDE DEF z
  <2>4. LocksOK(rt'[r], pc'[r])
    BY <1>1, <1>3, <2>2, <2>3, WalkKeepsLocks DEF Walk
  <2>5. Evidence(rt'[r], pc'[r], marker', latch', owed')
    BY <1>1, <1>3, <2>2, <2>3, QuietKeepsEvidence DEF Plain
  <2> QED
    BY <1>1, <2>2, <2>3, <2>4, <2>5, FilesAlone
<1> QED
  BY OfRuntime, <1>2, <1>3 DEF ConnectReader, RuntimeState

\* An inspection ends, and may have failed.
LEMMA LeaveReaderKeepsInv ==
    ASSUME Inv, NEW r \in Runtime, NEW t \in Thread, LeaveReader(r, t)
    PROVE  Inv'
<1>1. pc[r][t] = "reading" /\ UNCHANGED <<flock, marker, latch, owed>>
  BY OfRuntime DEF LeaveReader, At, RuntimeState
<1>2. CASE /\ UNCHANGED rt /\ Goto(r, t, "closing")
  <2> DEFINE z == rt[r]
  <2>1. z \in RuntimeState
    BY <1>1, OfRuntime DEF RuntimeState, LeaseLifecycle, Operator, Role
  <2>2. /\ z.lease = "INACTIVE" <=> rt[r].lease = "INACTIVE"
        /\ SameLocks(rt[r], z)
        /\ Works(rt[r], z)
    BY <1>1, <1>2, <2>1, OfRuntime
    DEF RuntimeState, LeaseLifecycle, Operator, Role, SameLocks, SameOwner, Quiet,
        Works, Plain, Owns
  <2>3. Moves(r, t, z, "closing")
    BY <1>2, <2>1, OfRuntime DEF Moves, Goto, Step, WorkStep, ShutdownStep, Inv, TypeOK
  <2> HIDE DEF z
  <2>4. LocksOK(rt'[r], pc'[r])
    BY <1>1, <1>2, <2>2, <2>3, WalkKeepsLocks DEF Walk
  <2>5. Evidence(rt'[r], pc'[r], marker', latch', owed')
    BY <1>1, <1>2, <2>2, <2>3, WorkKeepsEvidence DEF Plain
  <2> QED
    BY <1>1, <2>2, <2>3, <2>4, <2>5, FilesAlone
<1>3. CASE /\ (\E s \in AfterFailure(rt[r]) : rt' = [rt EXCEPT ![r] = s])
           /\ Goto(r, t, "closing")
  <2>1. PICK y \in AfterFailure(rt[r]) : rt' = [rt EXCEPT ![r] = y]
    BY <1>3
  <2>2. y \in RuntimeState /\ Works(rt[r], y) /\ SameLocks(rt[r], y) /\ y.unproven = rt[r].unproven
    BY FailureWorks, OfRuntime
  <2> DEFINE z == y
  <2>3. z \in RuntimeState
    BY <1>1, <2>1, <2>2, OfRuntime DEF RuntimeState, LeaseLifecycle, Operator, Role
  <2>4. /\ z.lease = "INACTIVE" <=> rt[r].lease = "INACTIVE"
        /\ SameLocks(rt[r], z)
        /\ Works(rt[r], z)
    BY <1>1, <1>3, <2>1, <2>2, <2>3, OfRuntime
    DEF RuntimeState, LeaseLifecycle, Operator, Role, SameLocks, SameOwner, Quiet,
        Works, Plain, Owns
  <2>5. Moves(r, t, z, "closing")
    BY <1>3, <2>1, <2>2, <2>3, OfRuntime
    DEF Moves, Goto, Step, WorkStep, ShutdownStep, Inv, TypeOK
  <2> HIDE DEF z
  <2>6. LocksOK(rt'[r], pc'[r])
    BY <1>1, <1>3, <2>4, <2>5, WalkKeepsLocks DEF Walk
  <2>7. Evidence(rt'[r], pc'[r], marker', latch', owed')
    BY <1>1, <1>3, <2>4, <2>5, WorkKeepsEvidence DEF Plain
  <2> QED
    BY <1>1, <2>4, <2>5, <2>6, <2>7, FilesAlone
<1> QED
  BY OfRuntime, <1>2, <1>3 DEF LeaveReader, RuntimeState

\* The key catalog writes under the admission of an inspection.
LEMMA FinishInitializationKeepsInv ==
    ASSUME Inv, NEW r \in Runtime, NEW t \in Thread, FinishInitialization(r, t)
    PROVE  Inv'
<1>1. pc[r][t] = "reading" /\ UNCHANGED <<flock, marker, latch, owed>>
  BY OfRuntime DEF FinishInitialization, At, RuntimeState
<1>2. CASE /\ (\E s \in AfterFailure(rt[r]) : rt' = [rt EXCEPT ![r] = [s EXCEPT !.unproven = TRUE]])
         /\ Goto(r, t, "closing")
  <2>1. PICK y \in AfterFailure(rt[r]) : rt' = [rt EXCEPT ![r] = [y EXCEPT !.unproven = TRUE]]
    BY <1>2
  <2>2. y \in RuntimeState /\ Works(rt[r], y) /\ SameLocks(rt[r], y) /\ y.unproven = rt[r].unproven
    BY FailureWorks, OfRuntime
  <2> DEFINE z == [y EXCEPT !.unproven = TRUE]
  <2>3. z \in RuntimeState
    BY <1>1, <2>1, <2>2, OfRuntime DEF RuntimeState, LeaseLifecycle, Operator, Role
  <2>4. /\ z.lease = "INACTIVE" <=> rt[r].lease = "INACTIVE"
        /\ SameLocks(rt[r], z)
        /\ Works(rt[r], z)
    BY <1>1, <1>2, <2>1, <2>2, <2>3, OfRuntime
    DEF RuntimeState, LeaseLifecycle, Operator, Role, SameLocks, SameOwner, Quiet,
        Works, Plain, Owns
  <2>5. Moves(r, t, z, "closing")
    BY <1>2, <2>1, <2>2, <2>3, OfRuntime
    DEF Moves, Goto, Step, WorkStep, ShutdownStep, Inv, TypeOK
  <2> HIDE DEF z
  <2>6. LocksOK(rt'[r], pc'[r])
    BY <1>1, <1>2, <2>4, <2>5, WalkKeepsLocks DEF Walk
  <2>7. Evidence(rt'[r], pc'[r], marker', latch', owed')
    BY <1>1, <1>2, <2>4, <2>5, WorkKeepsEvidence DEF Plain
  <2> QED
    BY <1>1, <2>4, <2>5, <2>6, <2>7, FilesAlone
<1> QED
  BY OfRuntime, <1>2 DEF FinishInitialization, RuntimeState

\* A migration connects when no connection is out.
LEMMA ConnectKeepsInv ==
    ASSUME Inv, NEW r \in Runtime, NEW t \in Thread, Connect(r, t)
    PROVE  Inv'
<1>1. pc[r][t] = "idle" /\ UNCHANGED <<flock, marker, latch, owed>>
      /\ rt[r].lease = "ACTIVE" /\ rt[r].closed = FALSE /\ rt[r].accepting = TRUE
      /\ rt[r].role = "MIGRATION" /\ rt[r].out = 0
  BY OfRuntime DEF Connect, At, RuntimeState, Accepting
<1>2. CASE /\ rt' = [rt EXCEPT ![r].out = @ + 1] /\ Goto(r, t, "migrating")
  <2> DEFINE z == [rt[r] EXCEPT !.out = @ + 1]
  <2>1. z \in RuntimeState
    BY <1>1, OfRuntime DEF RuntimeState, LeaseLifecycle, Operator, Role
  <2>2. /\ z.lease = "INACTIVE" <=> rt[r].lease = "INACTIVE"
        /\ SameOwner(rt[r], z)
        /\ Quiet(rt[r], z)
        /\ z.work = rt[r].work
        /\ z.lifecycle = rt[r].lifecycle
        /\ z.out = rt[r].out + 1
    BY <1>1, <1>2, <2>1, OfRuntime
    DEF RuntimeState, LeaseLifecycle, Operator, Role, SameLocks, SameOwner, Quiet,
        Works, Plain, Owns
  <2>3. Moves(r, t, z, "migrating")
    BY <1>2, <2>1, OfRuntime DEF Moves, Goto, Step, WorkStep, ShutdownStep, Inv, TypeOK
  <2> HIDE DEF z
  <2>4. LocksOK(rt'[r], pc'[r])
    BY <1>1, <1>2, <2>2, <2>3, CheckOutKeepsLocks
  <2>5. Evidence(rt'[r], pc'[r], marker', latch', owed')
    BY <1>1, <1>2, <2>2, <2>3, QuietKeepsEvidence DEF Plain
  <2> QED
    BY <1>1, <2>2, <2>3, <2>4, <2>5, FilesAlone
<1> QED
  BY OfRuntime, <1>2 DEF Connect, RuntimeState

\* A migration writes.
LEMMA MigrateKeepsInv ==
    ASSUME Inv, NEW r \in Runtime, NEW t \in Thread, Migrate(r, t)
    PROVE  Inv'
<1>1. pc[r][t] = "migrating" /\ UNCHANGED <<flock, marker, latch, owed>>
  BY OfRuntime DEF Migrate, At, RuntimeState
<1>2. CASE /\ (\E s \in AfterFailure(rt[r]), applied \in BOOLEAN :
               rt' = [rt EXCEPT ![r] = [s EXCEPT !.unproven = @ \/ applied]])
         /\ Goto(r, t, "disconnecting")
  <2>1. PICK y \in AfterFailure(rt[r]), a \in BOOLEAN :
          rt' = [rt EXCEPT ![r] = [y EXCEPT !.unproven = @ \/ a]]
    BY <1>2
  <2>2. y \in RuntimeState /\ Works(rt[r], y) /\ SameLocks(rt[r], y) /\ y.unproven = rt[r].unproven
    BY FailureWorks, OfRuntime
  <2> DEFINE z == [y EXCEPT !.unproven = @ \/ a]
  <2>3. z \in RuntimeState
    BY <1>1, <2>1, <2>2, AppliedWorks, OfRuntime
  <2>4. /\ z.lease = "INACTIVE" <=> rt[r].lease = "INACTIVE"
        /\ SameLocks(rt[r], z)
        /\ Works(rt[r], z)
    BY <1>1, <1>2, <2>1, <2>2, AppliedWorks, <2>3, OfRuntime
    DEF SameLocks, SameOwner
  <2>5. Moves(r, t, z, "disconnecting")
    BY <1>2, <2>1, <2>2, <2>3, OfRuntime
    DEF Moves, Goto, Step, WorkStep, ShutdownStep, Inv, TypeOK
  <2> HIDE DEF z
  <2>6. LocksOK(rt'[r], pc'[r])
    BY <1>1, <1>2, <2>4, <2>5, WalkKeepsLocks DEF Walk
  <2>7. Evidence(rt'[r], pc'[r], marker', latch', owed')
    BY <1>1, <1>2, <2>4, <2>5, WorkKeepsEvidence DEF Plain
  <2> QED
    BY <1>1, <2>4, <2>5, <2>6, <2>7, FilesAlone
<1> QED
  BY OfRuntime, <1>2 DEF Migrate, RuntimeState

\* A migration returns its connection.
LEMMA DisconnectKeepsInv ==
    ASSUME Inv, NEW r \in Runtime, NEW t \in Thread, Disconnect(r, t)
    PROVE  Inv'
<1>1. pc[r][t] = "disconnecting" /\ UNCHANGED <<flock, marker, latch, owed>>
      /\ rt[r].out = 1
  BY OfRuntime DEF Disconnect, At, RuntimeState, LocksOK, Connection, Connects
<1>2. CASE /\ rt' = [rt EXCEPT ![r].out = @ - 1] /\ Goto(r, t, "idle")
  <2> DEFINE z == [rt[r] EXCEPT !.out = @ - 1]
  <2>1. z \in RuntimeState
    BY <1>1, OfRuntime DEF RuntimeState, LeaseLifecycle, Operator, Role
  <2>2. /\ z.lease = "INACTIVE" <=> rt[r].lease = "INACTIVE"
        /\ SameOwner(rt[r], z)
        /\ Quiet(rt[r], z)
        /\ z.work = rt[r].work
        /\ z.lifecycle = rt[r].lifecycle
        /\ z.out = rt[r].out - 1
    BY <1>1, <1>2, <2>1, OfRuntime
    DEF RuntimeState, LeaseLifecycle, Operator, Role, SameLocks, SameOwner, Quiet,
        Works, Plain, Owns
  <2>3. Moves(r, t, z, "idle")
    BY <1>2, <2>1, OfRuntime DEF Moves, Goto, Step, WorkStep, ShutdownStep, Inv, TypeOK
  <2> HIDE DEF z
  <2>4. LocksOK(rt'[r], pc'[r])
    BY <1>1, <1>2, <2>2, <2>3, CheckInKeepsLocks
  <2>5. Evidence(rt'[r], pc'[r], marker', latch', owed')
    BY <1>1, <1>2, <2>2, <2>3, QuietKeepsEvidence DEF Plain
  <2> QED
    BY <1>1, <2>2, <2>3, <2>4, <2>5, FilesAlone
<1> QED
  BY OfRuntime, <1>2 DEF Disconnect, RuntimeState

\* A shutdown takes the lifecycle lock and denies new work.
LEMMA BeginShutdownKeepsInv ==
    ASSUME Inv, NEW r \in Runtime, NEW t \in Thread,
           NEW step \in {"closeReserving", "abandonReserving"}, BeginShutdown(r, t, step)
    PROVE  Inv'
<1>1. pc[r][t] = "idle" /\ UNCHANGED <<flock, marker, latch, owed>>
      /\ rt[r].closed = FALSE /\ rt[r].lifecycle = None
  BY OfRuntime DEF BeginShutdown, At, RuntimeState
<1>2. CASE /\ rt' = [rt EXCEPT ![r].lifecycle = t, ![r].accepting = FALSE] /\ Goto(r, t, step)
  <2> DEFINE z == [rt[r] EXCEPT !.lifecycle = t, !.accepting = FALSE]
  <2>1. z \in RuntimeState
    BY <1>1, OfRuntime DEF RuntimeState, LeaseLifecycle, Operator, Role
  <2>2. /\ z.lease = "INACTIVE" <=> rt[r].lease = "INACTIVE"
        /\ SameOwner(rt[r], z)
        /\ Quiet(rt[r], z)
        /\ z.work = rt[r].work
        /\ z.out = rt[r].out
        /\ z.lifecycle = t
    BY <1>1, <1>2, <2>1, OfRuntime
    DEF RuntimeState, LeaseLifecycle, Operator, Role, SameLocks, SameOwner, Quiet,
        Works, Plain, Owns
  <2>3. Moves(r, t, z, step)
    BY <1>2, <2>1, OfRuntime DEF Moves, Goto, Step, WorkStep, ShutdownStep, Inv, TypeOK
  <2> HIDE DEF z
  <2>4. LocksOK(rt'[r], pc'[r])
    BY <1>1, <1>2, <2>2, <2>3, LockKeepsLocks
  <2>5. Evidence(rt'[r], pc'[r], marker', latch', owed')
    BY <1>1, <1>2, <2>2, <2>3, QuietKeepsEvidence DEF Plain
  <2> QED
    BY <1>1, <2>2, <2>3, <2>4, <2>5, FilesAlone
<1> QED
  BY OfRuntime, <1>2 DEF BeginShutdown, RuntimeState

\* A second shutdown is refused.
LEMMA RefuseShutdownKeepsInv ==
    ASSUME Inv, NEW r \in Runtime, NEW t \in Thread, RefuseShutdown(r, t)
    PROVE  Inv'
<1>1. pc[r][t] = "idle" /\ UNCHANGED <<flock, marker, latch, owed>>
      /\ rt[r].closed = FALSE
  BY OfRuntime DEF RefuseShutdown, At, RuntimeState
<1>2. CASE /\ UNCHANGED rt /\ Goto(r, t, "refused")
  <2> DEFINE z == rt[r]
  <2>1. z \in RuntimeState
    BY <1>1, OfRuntime DEF RuntimeState, LeaseLifecycle, Operator, Role
  <2>2. /\ z.lease = "INACTIVE" <=> rt[r].lease = "INACTIVE"
        /\ SameLocks(rt[r], z)
        /\ Quiet(rt[r], z)
    BY <1>1, <1>2, <2>1, OfRuntime
    DEF RuntimeState, LeaseLifecycle, Operator, Role, SameLocks, SameOwner, Quiet,
        Works, Plain, Owns
  <2>3. Moves(r, t, z, "refused")
    BY <1>2, <2>1, OfRuntime DEF Moves, Goto, Step, WorkStep, ShutdownStep, Inv, TypeOK
  <2> HIDE DEF z
  <2>4. LocksOK(rt'[r], pc'[r])
    BY <1>1, <1>2, <2>2, <2>3, WalkKeepsLocks DEF Walk
  <2>5. Evidence(rt'[r], pc'[r], marker', latch', owed')
    BY <1>1, <1>2, <2>2, <2>3, QuietKeepsEvidence DEF Plain
  <2> QED
    BY <1>1, <2>2, <2>3, <2>4, <2>5, FilesAlone
<1> QED
  BY OfRuntime, <1>2 DEF RefuseShutdown, RuntimeState

\* The refused shutdown pauses the runtime.
LEMMA PauseRefusedKeepsInv ==
    ASSUME Inv, NEW r \in Runtime, NEW t \in Thread, PauseRefused(r, t)
    PROVE  Inv'
<1>1. pc[r][t] = "refused" /\ UNCHANGED <<flock, marker, latch, owed>>
  BY OfRuntime DEF PauseRefused, At, RuntimeState
<1>2. CASE /\ rt' = [rt EXCEPT ![r] = Paused(@)] /\ Goto(r, t, "idle")
  <2> DEFINE z == Paused(rt[r])
  <2>1. z \in RuntimeState
    BY <1>1, PausedIsQuiet, OfRuntime
  <2>2. /\ z.lease = "INACTIVE" <=> rt[r].lease = "INACTIVE"
        /\ SameLocks(rt[r], z)
        /\ Quiet(rt[r], z)
    BY <1>1, <1>2, PausedIsQuiet, <2>1, OfRuntime
    DEF SameLocks, SameOwner
  <2>3. Moves(r, t, z, "idle")
    BY <1>2, <2>1, OfRuntime DEF Moves, Goto, Step, WorkStep, ShutdownStep, Inv, TypeOK
  <2> HIDE DEF z
  <2>4. LocksOK(rt'[r], pc'[r])
    BY <1>1, <1>2, <2>2, <2>3, WalkKeepsLocks DEF Walk
  <2>5. Evidence(rt'[r], pc'[r], marker', latch', owed')
    BY <1>1, <1>2, <2>2, <2>3, QuietKeepsEvidence DEF Plain
  <2> QED
    BY <1>1, <2>2, <2>3, <2>4, <2>5, FilesAlone
<1> QED
  BY OfRuntime, <1>2 DEF PauseRefused, RuntimeState

\* A shutdown seals the lease when no connection is out.
LEMMA SealKeepsInv ==
    ASSUME Inv, NEW r \in Runtime, NEW t \in Thread, Seal(r, t)
    PROVE  Inv'
<1>1. pc[r][t] = "sealing" /\ UNCHANGED <<flock, marker, latch, owed>>
  BY OfRuntime DEF Seal, At, RuntimeState
<1>2. CASE /\ rt[r].out = 0 /\ rt' = [rt EXCEPT ![r].lease = "SEALED"]
           /\ Goto(r, t, "validating")
  <2> DEFINE z == [rt[r] EXCEPT !.lease = "SEALED"]
  <2>1. z \in RuntimeState
    BY <1>1, OfRuntime DEF RuntimeState, LeaseLifecycle, Operator, Role
  <2>2. /\ z.lease = "INACTIVE" <=> rt[r].lease = "INACTIVE"
        /\ Quiet(rt[r], z)
        /\ z.role = rt[r].role
        /\ z.closed = rt[r].closed
        /\ z.requires = rt[r].requires
        /\ z.work = rt[r].work
        /\ z.lifecycle = rt[r].lifecycle
        /\ z.out = rt[r].out
        /\ z.lease = "SEALED"
        /\ Owns(r)
    BY <1>1, <1>2, <2>1, OfRuntime
    DEF RuntimeState, LeaseLifecycle, Operator, Role, SameLocks, SameOwner, Quiet,
        Works, Plain, Owns, LocksOK, Lease, Closes, SealedStep, Starts, WorkStep, ShutdownStep
  <2>3. Moves(r, t, z, "validating")
    BY <1>2, <2>1, OfRuntime DEF Moves, Goto, Step, WorkStep, ShutdownStep, Inv, TypeOK
  <2> HIDE DEF z
  <2>4. LocksOK(rt'[r], pc'[r])
    BY <1>1, <1>2, <2>2, <2>3, SealKeepsLocks
  <2>5. Evidence(rt'[r], pc'[r], marker', latch', owed')
    BY <1>1, <1>2, <2>2, <2>3, QuietKeepsEvidence DEF Plain
  <2> QED
    BY <1>1, <2>2, <2>3, <2>4, <2>5, FilesAlone
<1>3. CASE /\ UNCHANGED rt /\ Goto(r, t, "invalid")
  <2> DEFINE z == rt[r]
  <2>1. z \in RuntimeState
    BY <1>1, OfRuntime DEF RuntimeState, LeaseLifecycle, Operator, Role
  <2>2. /\ z.lease = "INACTIVE" <=> rt[r].lease = "INACTIVE"
        /\ SameLocks(rt[r], z)
        /\ Quiet(rt[r], z)
    BY <1>1, <1>3, <2>1, OfRuntime
    DEF RuntimeState, LeaseLifecycle, Operator, Role, SameLocks, SameOwner, Quiet,
        Works, Plain, Owns
  <2>3. Moves(r, t, z, "invalid")
    BY <1>3, <2>1, OfRuntime DEF Moves, Goto, Step, WorkStep, ShutdownStep, Inv, TypeOK
  <2> HIDE DEF z
  <2>4. LocksOK(rt'[r], pc'[r])
    BY <1>1, <1>3, <2>2, <2>3, WalkDownKeepsLocks DEF WalkDown
  <2>5. Evidence(rt'[r], pc'[r], marker', latch', owed')
    BY <1>1, <1>3, <2>2, <2>3, QuietKeepsEvidence DEF Plain
  <2> QED
    BY <1>1, <2>2, <2>3, <2>4, <2>5, FilesAlone
<1> QED
  BY OfRuntime, <1>2, <1>3 DEF Seal, RuntimeState

\* The shutdown is validated, or not.
LEMMA ValidateShutdownKeepsInv ==
    ASSUME Inv, NEW r \in Runtime, NEW t \in Thread, ValidateShutdown(r, t)
    PROVE  Inv'
<1>1. pc[r][t] = "validating" /\ UNCHANGED <<flock, marker, latch, owed>>
  BY OfRuntime DEF ValidateShutdown, At, RuntimeState
<1>2. CASE /\ rt' = [rt EXCEPT ![r].unproven = FALSE] /\ Goto(r, t, "validated")
  <2> DEFINE z == [rt[r] EXCEPT !.unproven = FALSE]
  <2>1. z \in RuntimeState
    BY <1>1, OfRuntime DEF RuntimeState, LeaseLifecycle, Operator, Role
  <2>2. /\ z.lease = "INACTIVE" <=> rt[r].lease = "INACTIVE"
        /\ SameLocks(rt[r], z)
    BY <1>1, <1>2, <2>1, OfRuntime
    DEF RuntimeState, LeaseLifecycle, Operator, Role, SameLocks, SameOwner, Quiet,
        Works, Plain, Owns
  <2>3. Moves(r, t, z, "validated")
    BY <1>2, <2>1, OfRuntime DEF Moves, Goto, Step, WorkStep, ShutdownStep, Inv, TypeOK
  <2> HIDE DEF z
  <2>4. LocksOK(rt'[r], pc'[r])
    BY <1>1, <1>2, <2>2, <2>3, WalkDownKeepsLocks DEF WalkDown
  <2>5. Evidence(rt'[r], pc'[r], marker', latch', owed')
    BY <1>1, <1>2, <2>2, <2>3, ValidateKeepsEvidence DEF Plain, z
  <2> QED
    BY <1>1, <2>2, <2>3, <2>4, <2>5, FilesAlone
<1>3. CASE /\ UNCHANGED rt /\ Goto(r, t, "invalid")
  <2> DEFINE z == rt[r]
  <2>1. z \in RuntimeState
    BY <1>1, OfRuntime DEF RuntimeState, LeaseLifecycle, Operator, Role
  <2>2. /\ z.lease = "INACTIVE" <=> rt[r].lease = "INACTIVE"
        /\ SameLocks(rt[r], z)
        /\ Quiet(rt[r], z)
    BY <1>1, <1>3, <2>1, OfRuntime
    DEF RuntimeState, LeaseLifecycle, Operator, Role, SameLocks, SameOwner, Quiet,
        Works, Plain, Owns
  <2>3. Moves(r, t, z, "invalid")
    BY <1>3, <2>1, OfRuntime DEF Moves, Goto, Step, WorkStep, ShutdownStep, Inv, TypeOK
  <2> HIDE DEF z
  <2>4. LocksOK(rt'[r], pc'[r])
    BY <1>1, <1>3, <2>2, <2>3, WalkDownKeepsLocks DEF WalkDown
  <2>5. Evidence(rt'[r], pc'[r], marker', latch', owed')
    BY <1>1, <1>3, <2>2, <2>3, QuietKeepsEvidence DEF Plain
  <2> QED
    BY <1>1, <2>2, <2>3, <2>4, <2>5, FilesAlone
<1>4. CASE /\ rt' = [rt EXCEPT ![r] = Paused(@)] /\ Goto(r, t, "invalid")
  <2> DEFINE z == Paused(rt[r])
  <2>1. z \in RuntimeState
    BY <1>1, PausedIsQuiet, OfRuntime
  <2>2. /\ z.lease = "INACTIVE" <=> rt[r].lease = "INACTIVE"
        /\ SameLocks(rt[r], z)
        /\ Quiet(rt[r], z)
    BY <1>1, <1>4, PausedIsQuiet, <2>1, OfRuntime
    DEF SameLocks, SameOwner
  <2>3. Moves(r, t, z, "invalid")
    BY <1>4, <2>1, OfRuntime DEF Moves, Goto, Step, WorkStep, ShutdownStep, Inv, TypeOK
  <2> HIDE DEF z
  <2>4. LocksOK(rt'[r], pc'[r])
    BY <1>1, <1>4, <2>2, <2>3, WalkDownKeepsLocks DEF WalkDown
  <2>5. Evidence(rt'[r], pc'[r], marker', latch', owed')
    BY <1>1, <1>4, <2>2, <2>3, QuietKeepsEvidence DEF Plain
  <2> QED
    BY <1>1, <2>2, <2>3, <2>4, <2>5, FilesAlone
<1> QED
  BY OfRuntime, <1>2, <1>3, <1>4 DEF ValidateShutdown, RuntimeState

\* The shutdown decides whether it needs a latch.
LEMMA DecideLatchKeepsInv ==
    ASSUME Inv, NEW r \in Runtime, NEW t \in Thread, DecideLatch(r, t)
    PROVE  Inv'
<1>1. pc[r][t] = "validated" /\ UNCHANGED <<flock, marker, latch, owed>>
  BY OfRuntime DEF DecideLatch, At, RuntimeState
<1>2. CASE /\ rt' = [rt EXCEPT ![r].mustLatch = rt[r].operator # "READY"]
           /\ Goto(r, t, "latching")
  <2>0. (rt[r].operator # "READY") \in BOOLEAN
    OBVIOUS
  <2> DEFINE z == [rt[r] EXCEPT !.mustLatch = rt[r].operator # "READY"]
  <2>1. z \in RuntimeState
    BY <1>1, <2>0, OfRuntime DEF RuntimeState, LeaseLifecycle, Operator, Role
  <2>2. /\ z.lease = "INACTIVE" <=> rt[r].lease = "INACTIVE"
        /\ SameLocks(rt[r], z)
    BY <1>1, <1>2, <2>0, <2>1, OfRuntime
    DEF RuntimeState, LeaseLifecycle, Operator, Role, SameLocks, SameOwner, Quiet,
        Works, Plain, Owns
  <2>3. Moves(r, t, z, "latching")
    BY <1>2, <2>0, <2>1, OfRuntime DEF Moves, Goto, Step, WorkStep, ShutdownStep, Inv, TypeOK
  <2> HIDE DEF z
  <2>4. LocksOK(rt'[r], pc'[r])
    BY <1>1, <1>2, <2>2, <2>3, WalkDownKeepsLocks DEF WalkDown
  <2>5. Evidence(rt'[r], pc'[r], marker', latch', owed')
    BY <1>1, <1>2, <2>2, <2>3, DecideKeepsEvidence DEF Plain, z
  <2> QED
    BY <1>1, <2>2, <2>3, <2>4, <2>5, FilesAlone
<1> QED
  BY OfRuntime, <1>2 DEF DecideLatch, RuntimeState

\* abandon seals the lease when no connection is out.
LEMMA SealForsakenKeepsInv ==
    ASSUME Inv, NEW r \in Runtime, NEW t \in Thread, SealForsaken(r, t)
    PROVE  Inv'
<1>1. pc[r][t] = "forsakenSealing" /\ UNCHANGED <<flock, marker, latch, owed>>
  BY OfRuntime DEF SealForsaken, At, RuntimeState
<1>2. CASE /\ rt[r].out = 0 /\ rt' = [rt EXCEPT ![r].lease = "SEALED"]
           /\ Goto(r, t, "forsakenUnlocking")
  <2> DEFINE z == [rt[r] EXCEPT !.lease = "SEALED"]
  <2>1. z \in RuntimeState
    BY <1>1, OfRuntime DEF RuntimeState, LeaseLifecycle, Operator, Role
  <2>2. /\ z.lease = "INACTIVE" <=> rt[r].lease = "INACTIVE"
        /\ Quiet(rt[r], z)
        /\ z.role = rt[r].role
        /\ z.closed = rt[r].closed
        /\ z.requires = rt[r].requires
        /\ z.work = rt[r].work
        /\ z.lifecycle = rt[r].lifecycle
        /\ z.out = rt[r].out
        /\ z.lease = "SEALED"
        /\ Owns(r)
    BY <1>1, <1>2, <2>1, OfRuntime
    DEF RuntimeState, LeaseLifecycle, Operator, Role, SameLocks, SameOwner, Quiet,
        Works, Plain, Owns, LocksOK, Lease, Closes, SealedStep, Starts, WorkStep, ShutdownStep
  <2>3. Moves(r, t, z, "forsakenUnlocking")
    BY <1>2, <2>1, OfRuntime DEF Moves, Goto, Step, WorkStep, ShutdownStep, Inv, TypeOK
  <2> HIDE DEF z
  <2>4. LocksOK(rt'[r], pc'[r])
    BY <1>1, <1>2, <2>2, <2>3, SealKeepsLocks
  <2>5. Evidence(rt'[r], pc'[r], marker', latch', owed')
    BY <1>1, <1>2, <2>2, <2>3, QuietKeepsEvidence DEF Plain
  <2> QED
    BY <1>1, <2>2, <2>3, <2>4, <2>5, FilesAlone
<1>3. CASE /\ UNCHANGED rt /\ Goto(r, t, "leaving")
  <2> DEFINE z == rt[r]
  <2>1. z \in RuntimeState
    BY <1>1, OfRuntime DEF RuntimeState, LeaseLifecycle, Operator, Role
  <2>2. /\ z.lease = "INACTIVE" <=> rt[r].lease = "INACTIVE"
        /\ SameLocks(rt[r], z)
        /\ Quiet(rt[r], z)
    BY <1>1, <1>3, <2>1, OfRuntime
    DEF RuntimeState, LeaseLifecycle, Operator, Role, SameLocks, SameOwner, Quiet,
        Works, Plain, Owns
  <2>3. Moves(r, t, z, "leaving")
    BY <1>3, <2>1, OfRuntime DEF Moves, Goto, Step, WorkStep, ShutdownStep, Inv, TypeOK
  <2> HIDE DEF z
  <2>4. LocksOK(rt'[r], pc'[r])
    BY <1>1, <1>3, <2>2, <2>3, WalkDownKeepsLocks DEF WalkDown
  <2>5. Evidence(rt'[r], pc'[r], marker', latch', owed')
    BY <1>1, <1>3, <2>2, <2>3, QuietKeepsEvidence DEF Plain
  <2> QED
    BY <1>1, <2>2, <2>3, <2>4, <2>5, FilesAlone
<1> QED
  BY OfRuntime, <1>2, <1>3 DEF SealForsaken, RuntimeState

\* The fields of a runtime that was unsealed.
LEMMA UnsealedFields ==
    ASSUME NEW s \in RuntimeState
    PROVE  LET z == Unsealed(s)
           IN  /\ z \in RuntimeState
               /\ z.lease = IF s.lease = "SEALED" /\ s.out = 0 THEN "ACTIVE" ELSE s.lease
               /\ z.lease = "INACTIVE" <=> s.lease = "INACTIVE"
               /\ z.role = s.role /\ z.closed = s.closed /\ z.requires = s.requires
               /\ z.work = s.work /\ z.lifecycle = s.lifecycle /\ z.out = s.out
               /\ z.mustLatch = s.mustLatch /\ z.unproven = s.unproven /\ z.failure = s.failure
               /\ z.operator = s.operator /\ z.accepting = s.accepting
BY DEF Unsealed, RuntimeState, LeaseLifecycle

\* A thread of a shutdown that has not unlocked the lock file is the owner's.
LEMMA ShutdownOwns ==
    ASSUME Inv, NEW r \in Runtime, NEW t \in Thread,
           pc[r][t] \in {"blocked", "forsaking", "forsakenSealing", "leaving", "invalid"} \cup SealedStep
    PROVE  Owns(r)
BY OfRuntime
DEF LocksOK, Lease, Closes, SealedStep, ShutdownStep, Owns, RuntimeState, LeaseLifecycle

\* A thread that is starting is the owner's.
LEMMA StartOwns ==
    ASSUME Inv, NEW r \in Runtime, NEW t \in Thread, Starts(pc[r], t)
    PROVE  Owns(r) /\ rt[r].closed = TRUE /\ rt[r].lease = "ACTIVE"
BY OfRuntime DEF LocksOK, Lease, Owns

\* A shutdown that takes its reservation, or that is blocked by active work.
LEMMA ReserveKeepsInv ==
    ASSUME Inv, NEW r \in Runtime, NEW t \in Thread, Reserve(r, t)
    PROVE  Inv'
<1>1. pc[r][t] \in {"closeReserving", "abandonReserving"} /\ UNCHANGED <<flock, marker, latch, owed>>
  BY DEF Reserve
<1>2. CASE rt' = [rt EXCEPT ![r] = Paused(@)] /\ Goto(r, t, "blocked")
  <2> DEFINE z == Paused(rt[r])
  <2>1. z \in RuntimeState /\ SameLocks(rt[r], z) /\ Quiet(rt[r], z)
    BY PausedIsQuiet, OfRuntime
  <2>2. Moves(r, t, z, "blocked") /\ (z.lease = "INACTIVE" <=> rt[r].lease = "INACTIVE")
    BY <1>2, <2>1, OfRuntime DEF Moves, Goto, Step, Inv, TypeOK, SameLocks, SameOwner
  <2> HIDE DEF z
  <2>3. LocksOK(rt'[r], pc'[r])
    BY <1>1, <2>1, <2>2, WalkDownKeepsLocks DEF WalkDown
  <2>4. Evidence(rt'[r], pc'[r], marker', latch', owed')
    BY <1>1, <2>1, <2>2, QuietKeepsEvidence DEF Plain
  <2> QED
    BY <1>1, <2>2, <2>3, <2>4, FilesAlone
<1>3. CASE /\ rt[r].work = FALSE /\ rt' = [rt EXCEPT ![r].work = TRUE]
           /\ \/ pc[r][t] = "closeReserving" /\ Goto(r, t, "sealing")
              \/ pc[r][t] = "abandonReserving" /\ Goto(r, t, "forsaking")
  <2> DEFINE z == [rt[r] EXCEPT !.work = TRUE]
  <2>1. z \in RuntimeState
    BY OfRuntime DEF RuntimeState
  <2>2. /\ z.lease = "INACTIVE" <=> rt[r].lease = "INACTIVE"
        /\ SameOwner(rt[r], z) /\ Quiet(rt[r], z) /\ z.work = TRUE
        /\ z.lifecycle = rt[r].lifecycle /\ z.out = rt[r].out
    BY OfRuntime DEF RuntimeState, SameOwner, Quiet
  <2>3. PICK b \in {"sealing", "forsaking"} :
          /\ Moves(r, t, z, b)
          /\ \/ pc[r][t] = "closeReserving" /\ b = "sealing"
             \/ pc[r][t] = "abandonReserving" /\ b = "forsaking"
    BY <1>3, <2>1, OfRuntime DEF Moves, Goto, Step, ShutdownStep, Inv, TypeOK
  <2> HIDE DEF z
  <2>4. LocksOK(rt'[r], pc'[r])
    BY <1>3, <2>2, <2>3, ReserveKeepsLocks
  <2>5. Evidence(rt'[r], pc'[r], marker', latch', owed')
    BY <1>1, <2>2, <2>3, QuietKeepsEvidence DEF Plain
  <2> QED
    BY <1>1, <2>2, <2>3, <2>4, <2>5, FilesAlone
<1> QED
  BY OfRuntime, <1>2, <1>3 DEF Reserve, At, RuntimeState

\* Preserving the evidence keeps what is owed.
LEMMA PreserveKeepsFiles ==
    ASSUME Inv, NEW ok \in BOOLEAN, PreserveRecoveryState(ok), owed' = owed
    PROVE  /\ marker' \in File /\ latch' \in File /\ owed' \in BOOLEAN
           /\ Files(marker', latch', owed')
           /\ Set(marker) => Set(marker')
           /\ Set(latch) => Set(latch')
           /\ latch.seen = "whole" => latch'.seen = "whole"
           /\ ok => Set(latch')
<1>1. TypeOK /\ Files(marker, latch, owed)
  BY DEF Inv
<1> QED
  BY <1>1, PreserveSets DEF Files, TypeOK

\* A shutdown that active work blocks.
LEMMA BlockedKeepsInv ==
    ASSUME Inv, NEW r \in Runtime, NEW t \in Thread, Blocked(r, t)
    PROVE  Inv'
<1>1. PICK ok \in BOOLEAN : PreserveRecoveryState(ok)
  BY DEF Blocked
<1>2. /\ pc[r][t] = "blocked" /\ UNCHANGED <<flock, owed>> /\ Goto(r, t, "idle")
      /\ rt' = [rt EXCEPT ![r] = [Paused(@) EXCEPT !.lifecycle = None]]
  BY DEF Blocked, At
<1>3. Owns(r)
  BY <1>2, ShutdownOwns
<1> DEFINE y == Paused(rt[r])
           z == [y EXCEPT !.lifecycle = None]
<1>4. /\ y \in RuntimeState /\ SameLocks(rt[r], y) /\ Quiet(rt[r], y)
      /\ y.operator = "PAUSED" /\ y.accepting = FALSE
  BY PausedIsQuiet, OfRuntime
<1> HIDE DEF y
<1>5. z \in RuntimeState
  BY <1>4 DEF RuntimeState
<1>6. /\ z.lease = "INACTIVE" <=> rt[r].lease = "INACTIVE"
      /\ SameOwner(rt[r], z) /\ z.work = rt[r].work /\ z.out = rt[r].out /\ z.lifecycle = None
      /\ Quiet(rt[r], z) /\ z.operator = "PAUSED" /\ z.accepting = FALSE
  BY <1>4 DEF RuntimeState, SameLocks, SameOwner, Quiet
<1>7. Moves(r, t, z, "idle")
  BY <1>2, <1>5, OfRuntime DEF Moves, Goto, Step, Inv, TypeOK, y
<1> HIDE DEF z
<1>8. LocksOK(rt'[r], pc'[r])
  BY <1>2, <1>6, <1>7, UnblockKeepsLocks
<1>9. Evidence(rt'[r], pc'[r], marker', latch', owed')
  BY <1>1, <1>2, <1>6, <1>7, PreserveKeepsFiles, PreserveKeepsEvidence
<1> QED
  BY <1>1, <1>2, <1>3, <1>6, <1>7, <1>8, <1>9, PreserveKeepsFiles, OneRuntimeSteps DEF LockFile

\* A clean close that could not be validated keeps its ownership.
LEMMA KeepOwnershipKeepsInv ==
    ASSUME Inv, NEW r \in Runtime, NEW t \in Thread, KeepOwnership(r, t)
    PROVE  Inv'
<1>1. PICK ok \in BOOLEAN : PreserveRecoveryState(ok)
  BY DEF KeepOwnership
<1>2. /\ pc[r][t] = "invalid" /\ UNCHANGED <<flock, owed>> /\ Goto(r, t, "leaving")
      /\ rt' = [rt EXCEPT ![r] = Unsealed(Paused(@))]
  BY DEF KeepOwnership, At
<1>3. Owns(r)
  BY <1>2, ShutdownOwns DEF SealedStep
<1> DEFINE y == Paused(rt[r])
           z == Unsealed(y)
<1>4. /\ y \in RuntimeState /\ SameLocks(rt[r], y) /\ Quiet(rt[r], y)
      /\ y.operator = "PAUSED" /\ y.accepting = FALSE
  BY PausedIsQuiet, OfRuntime
<1>5. Moves(r, t, z, "leaving")
  BY <1>2, <1>4, UnsealedFields, OfRuntime DEF Moves, Goto, Step, ShutdownStep, Inv, TypeOK
<1> HIDE DEF y
<1>6. LocksOK(rt'[r], pc'[r])
  BY <1>2, <1>4, <1>5, UnsealedFields, UnsealKeepsLocks DEF SameLocks, SameOwner
<1>7. Quiet(rt[r], z) /\ z.operator = "PAUSED" /\ z.accepting = FALSE
  BY <1>4, UnsealedFields DEF Quiet
<1>8. z.lease = "INACTIVE" <=> rt[r].lease = "INACTIVE"
  BY <1>4, UnsealedFields DEF SameLocks, SameOwner
<1> HIDE DEF z
<1>9. Evidence(rt'[r], pc'[r], marker', latch', owed')
  BY <1>1, <1>2, <1>5, <1>7, PreserveKeepsFiles, PreserveKeepsEvidence
<1> QED
  BY <1>1, <1>2, <1>3, <1>5, <1>6, <1>8, <1>9, PreserveKeepsFiles, OneRuntimeSteps DEF LockFile

\* A validated close that failed restores its evidence.
LEMMA RestoreEvidenceKeepsInv ==
    ASSUME Inv, NEW r \in Runtime, NEW t \in Thread, RestoreEvidence(r, t)
    PROVE  Inv'
<1>1. PICK ok \in BOOLEAN : PreserveRecoveryState(ok)
  BY DEF RestoreEvidence
<1>2. /\ pc[r][t] = "failed" /\ UNCHANGED <<flock, owed>> /\ Goto(r, t, "leaving")
      /\ rt' = [rt EXCEPT ![r] = Unsealed(Paused(@))]
  BY DEF RestoreEvidence, At
<1>3. Owns(r)
  BY <1>2, ShutdownOwns DEF SealedStep
<1> DEFINE y == Paused(rt[r])
           z == Unsealed(y)
<1>4. /\ y \in RuntimeState /\ SameLocks(rt[r], y) /\ Quiet(rt[r], y)
      /\ y.operator = "PAUSED" /\ y.accepting = FALSE
  BY PausedIsQuiet, OfRuntime
<1>5. Moves(r, t, z, "leaving")
  BY <1>2, <1>4, UnsealedFields, OfRuntime DEF Moves, Goto, Step, ShutdownStep, Inv, TypeOK
<1> HIDE DEF y
<1>6. LocksOK(rt'[r], pc'[r])
  BY <1>2, <1>4, <1>5, UnsealedFields, UnsealKeepsLocks DEF SameLocks, SameOwner
<1>7. Quiet(rt[r], z) /\ z.operator = "PAUSED" /\ z.accepting = FALSE
  BY <1>4, UnsealedFields DEF Quiet
<1>8. z.lease = "INACTIVE" <=> rt[r].lease = "INACTIVE"
  BY <1>4, UnsealedFields DEF SameLocks, SameOwner
<1> HIDE DEF z
<1>9. Evidence(rt'[r], pc'[r], marker', latch', owed')
  BY <1>1, <1>2, <1>5, <1>7, PreserveKeepsFiles, PreserveKeepsEvidence
<1> QED
  BY <1>1, <1>2, <1>3, <1>5, <1>6, <1>8, <1>9, PreserveKeepsFiles, OneRuntimeSteps DEF LockFile

\* abandon preserves its evidence before it gives the lock file up.
LEMMA ForsakeKeepsInv ==
    ASSUME Inv, NEW r \in Runtime, NEW t \in Thread, Forsake(r, t)
    PROVE  Inv'
<1>1. PICK ok \in BOOLEAN :
        PreserveRecoveryState(ok) /\ Goto(r, t, IF ok THEN "forsakenSealing" ELSE "leaving")
  BY DEF Forsake
<1>2. /\ pc[r][t] = "forsaking" /\ UNCHANGED <<flock, owed>>
      /\ rt' = [rt EXCEPT ![r] = Paused(@)]
  BY DEF Forsake, At
<1>3. Owns(r)
  BY <1>2, ShutdownOwns
<1> DEFINE z == Paused(rt[r])
           b == IF ok THEN "forsakenSealing" ELSE "leaving"
<1>4. /\ z \in RuntimeState /\ SameLocks(rt[r], z) /\ Quiet(rt[r], z)
      /\ z.operator = "PAUSED" /\ z.accepting = FALSE
  BY PausedIsQuiet, OfRuntime
<1>5. Moves(r, t, z, b)
  BY <1>1, <1>2, <1>4, OfRuntime DEF Moves, Goto, Step, ShutdownStep, Inv, TypeOK
<1>6. z.lease = "INACTIVE" <=> rt[r].lease = "INACTIVE"
  BY <1>4 DEF SameLocks, SameOwner
<1>7. b \in {"forsakenSealing", "leaving"} /\ (b = "leaving" \/ (b = "forsakenSealing" /\ Set(latch')))
  BY <1>1, <1>2, PreserveKeepsFiles
<1> HIDE DEF z, b
<1>8. LocksOK(rt'[r], pc'[r])
  BY <1>2, <1>4, <1>5, <1>7, WalkDownKeepsLocks DEF WalkDown
<1>9. Evidence(rt'[r], pc'[r], marker', latch', owed')
  BY <1>1, <1>2, <1>4, <1>5, <1>7, PreserveKeepsFiles, PreserveKeepsEvidence
<1> QED
  BY <1>1, <1>2, <1>3, <1>5, <1>6, <1>8, <1>9, PreserveKeepsFiles, OneRuntimeSteps DEF LockFile

\* The latch is set, and the marker still stands.
LEMMA SetLatchKeepsInv ==
    ASSUME Inv, NEW r \in Runtime, NEW t \in Thread, SetLatch(r, t)
    PROVE  Inv'
<1>1. PICK latched \in BOOLEAN, disposed \in BOOLEAN, l \in File :
        /\ IF rt[r].mustLatch THEN CreateStateFile(latch, l, latched) ELSE l = latch /\ latched
        /\ latch' = l
        /\ Goto(r, t, IF latched /\ disposed THEN "unmarking" ELSE "failed")
  BY DEF SetLatch
<1>2. pc[r][t] = "latching" /\ UNCHANGED <<flock, marker, rt, owed>>
  BY DEF SetLatch, At
<1>3. Owns(r)
  BY <1>2, ShutdownOwns DEF SealedStep
<1> DEFINE b == IF latched /\ disposed THEN "unmarking" ELSE "failed"
<1>4. Moves(r, t, rt[r], b)
  BY <1>1, <1>2, OfRuntime DEF Moves, Goto, Step, ShutdownStep, Inv, TypeOK
<1>5. /\ b \in {"unmarking", "failed"} /\ latch' \in File
      /\ Set(latch) => Set(latch')
      /\ Lasting(latch) => Lasting(latch')
      /\ latch.seen # "absent" => latch'.seen = latch.seen
      /\ rt[r].mustLatch = FALSE => latch' = latch
      /\ rt[r].mustLatch = TRUE /\ b = "unmarking" => Set(latch')
  BY <1>1, CreateSets, OfRuntime
<1> HIDE DEF b
<1>6. LocksOK(rt'[r], pc'[r])
  BY <1>2, <1>4, <1>5, WalkDownKeepsLocks DEF WalkDown, SameLocks, SameOwner
<1>7. Evidence(rt'[r], pc'[r], marker', latch', owed')
  BY <1>2, <1>4, <1>5, OfRuntime, SetLatchKeepsEvidence
<1>8. Files(marker', latch', owed') /\ marker' \in File /\ owed' \in BOOLEAN
  BY <1>2, <1>5, OfRuntime DEF Files
<1> QED
  BY <1>2, <1>3, <1>4, <1>5, <1>6, <1>7, <1>8, OneRuntimeSteps DEF LockFile

\* The marker is removed when nothing depends on it.
LEMMA RemoveMarkerKeepsInv ==
    ASSUME Inv, NEW r \in Runtime, NEW t \in Thread, RemoveMarker(r, t)
    PROVE  Inv'
<1>1. PICK ok \in BOOLEAN, m \in File :
        RemoveStateFile(marker, m, ok) /\ marker' = m /\ Goto(r, t, IF ok THEN "unlocking" ELSE "failed")
  BY DEF RemoveMarker
<1>2. pc[r][t] = "unmarking" /\ UNCHANGED <<flock, latch, rt, owed>>
  BY DEF RemoveMarker, At
<1>3. Owns(r) /\ rt[r].closed = FALSE
  BY <1>2, ShutdownOwns, OfRuntime DEF SealedStep, LocksOK, Lease, Closes, ShutdownStep
<1> DEFINE b == IF ok THEN "unlocking" ELSE "failed"
<1>4. Moves(r, t, rt[r], b) /\ b \in {"unlocking", "failed"}
  BY <1>1, <1>2, OfRuntime DEF Moves, Goto, Step, ShutdownStep, Inv, TypeOK
<1> HIDE DEF b
<1>5. LocksOK(rt'[r], pc'[r])
  BY <1>2, <1>4, WalkDownKeepsLocks DEF WalkDown, SameLocks, SameOwner
<1>6. marker' \in File /\ latch' \in File /\ owed' \in BOOLEAN
  BY <1>1, <1>2, OfRuntime
<1>7. Evidence(rt'[r], pc'[r], marker', latch', owed')
  BY <1>2, <1>4, <1>6, RemoveKeepsEvidence
<1>8. owed = TRUE => Lasting(latch)
  BY <1>2, <1>3, OfRuntime
  DEF Evidence, OpenEvidence, ThreadEvidence, Lasting, Set, Owns, File, RuntimeState,
      LeaseLifecycle
<1>9. Files(marker', latch', owed')
  BY <1>2, <1>8, OfRuntime DEF Files
<1> QED
  BY <1>2, <1>3, <1>4, <1>5, <1>6, <1>7, <1>9, OneRuntimeSteps DEF LockFile

\* Covered evidence is lasting evidence.
LEMMA CoveredLasts ==
    ASSUME NEW m \in File, NEW l \in File, Covered(m, l)
    PROVE  Lasting(m) \/ Lasting(l)
BY DEF Covered, Set, Lasting, File

\* The end of an ownership: what it leaves to recover has its evidence.
LEMMA UnfinishedLasts ==
    ASSUME Inv, NEW r \in Runtime, Unfinished(r)
    PROVE  Lasting(marker) \/ Lasting(latch)
<1>1. /\ rt[r] \in RuntimeState /\ marker \in File /\ latch \in File
      /\ Evidence(rt[r], pc[r], marker, latch, owed)
  BY DEF Inv, TypeOK
<1>2. Owns(r) /\ Touched(rt[r])
  BY <1>1 DEF Unfinished, Touched, RuntimeState
<1>3. Covered(marker, latch)
  BY <1>1, <1>2 DEF Evidence, Owns
<1> QED
  BY <1>1, <1>3, CoveredLasts

\* The lock file is given up at the end of a validated close.
LEMMA UnlockKeepsInv ==
    ASSUME Inv, NEW r \in Runtime, NEW t \in Thread, Unlock(r, t)
    PROVE  Inv'
<1>1. pc[r][t] = "unlocking" /\ UNCHANGED <<marker, latch>>
  BY DEF Unlock, At
<1>2. Owns(r)
  BY <1>1, ShutdownOwns DEF SealedStep
<1>3. CASE /\ flock' = None /\ rt' = [rt EXCEPT ![r].lease = "INACTIVE"]
           /\ owed' = (owed \/ Unfinished(r)) /\ Goto(r, t, "closed")
  <2> DEFINE z == [rt[r] EXCEPT !.lease = "INACTIVE"]
  <2>1. z \in RuntimeState
    BY OfRuntime DEF RuntimeState, LeaseLifecycle
  <2>2. /\ z.lease = "INACTIVE" /\ z.role = rt[r].role /\ z.closed = rt[r].closed
        /\ z.requires = rt[r].requires /\ z.work = rt[r].work
        /\ z.lifecycle = rt[r].lifecycle /\ z.out = rt[r].out
    BY OfRuntime DEF RuntimeState
  <2>3. Moves(r, t, z, "closed")
    BY <1>3, <2>1, OfRuntime DEF Moves, Goto, Step, ShutdownStep, Inv, TypeOK
  <2> HIDE DEF z
  <2>4. LocksOK(rt'[r], pc'[r])
    BY <1>1, <2>2, <2>3, UnlockKeepsLocks
  <2>5. Evidence(rt'[r], pc'[r], marker', latch', owed')
    BY <2>2, <2>3, OfRuntime DEF Moves, Evidence, Inv, TypeOK
  <2>6. owed' \in BOOLEAN
    BY <1>3
  <2>7. owed' = TRUE => owed = TRUE \/ Unfinished(r)
    BY <1>3, OfRuntime
  <2>8. Files(marker', latch', owed') /\ marker' \in File /\ latch' \in File
    BY <1>1, <2>7, OfRuntime, UnfinishedLasts DEF Files
  <2> QED
    BY <1>2, <1>3, <2>2, <2>3, <2>4, <2>5, <2>6, <2>8, OneRuntimeSteps DEF LockFile
<1>4. CASE Goto(r, t, "failed") /\ UNCHANGED <<flock, rt, owed>>
  <2>1. Moves(r, t, rt[r], "failed")
    BY <1>4, OfRuntime DEF Moves, Goto, Step, ShutdownStep, Inv, TypeOK
  <2>2. LocksOK(rt'[r], pc'[r])
    BY <1>1, <2>1, WalkDownKeepsLocks DEF WalkDown, SameLocks, SameOwner
  <2>3. Evidence(rt'[r], pc'[r], marker', latch', owed')
    BY <1>1, <1>4, <2>1, QuietKeepsEvidence DEF Plain, Quiet
  <2> QED
    BY <1>1, <1>4, <2>1, <2>2, <2>3, FilesAlone
<1> QED
  BY <1>3, <1>4 DEF Unlock

\* The lock file is given up by abandon, with the latch set.
LEMMA UnlockForsakenKeepsInv ==
    ASSUME Inv, NEW r \in Runtime, NEW t \in Thread, UnlockForsaken(r, t)
    PROVE  Inv'
<1>1. pc[r][t] = "forsakenUnlocking" /\ UNCHANGED <<marker, latch>>
  BY DEF UnlockForsaken, At
<1>2. Owns(r)
  BY <1>1, ShutdownOwns DEF SealedStep
<1>3. CASE /\ flock' = None /\ rt' = [rt EXCEPT ![r].lease = "INACTIVE"]
           /\ owed' = TRUE /\ Goto(r, t, "closed")
  <2> DEFINE z == [rt[r] EXCEPT !.lease = "INACTIVE"]
  <2>1. z \in RuntimeState
    BY OfRuntime DEF RuntimeState, LeaseLifecycle
  <2>2. /\ z.lease = "INACTIVE" /\ z.role = rt[r].role /\ z.closed = rt[r].closed
        /\ z.requires = rt[r].requires /\ z.work = rt[r].work
        /\ z.lifecycle = rt[r].lifecycle /\ z.out = rt[r].out
    BY OfRuntime DEF RuntimeState
  <2>3. Moves(r, t, z, "closed")
    BY <1>3, <2>1, OfRuntime DEF Moves, Goto, Step, ShutdownStep, Inv, TypeOK
  <2> HIDE DEF z
  <2>4. LocksOK(rt'[r], pc'[r])
    BY <1>1, <2>2, <2>3, UnlockKeepsLocks
  <2>5. Evidence(rt'[r], pc'[r], marker', latch', owed')
    BY <2>2, <2>3, OfRuntime DEF Moves, Evidence, Inv, TypeOK
  <2>6. Set(latch)
    BY <1>1, <1>2, OfRuntime DEF Evidence, ThreadEvidence, Owns
  <2>7. Files(marker', latch', owed') /\ marker' \in File /\ latch' \in File /\ owed' \in BOOLEAN
    BY <1>1, <1>3, <2>6, OfRuntime DEF Files, Set, Lasting
  <2> QED
    BY <1>2, <1>3, <2>2, <2>3, <2>4, <2>5, <2>7, OneRuntimeSteps DEF LockFile
<1>4. CASE rt' = [rt EXCEPT ![r] = Unsealed(@)] /\ Goto(r, t, "leaving") /\ UNCHANGED <<flock, owed>>
  <2> DEFINE z == Unsealed(rt[r])
  <2>1. Moves(r, t, z, "leaving")
    BY <1>4, UnsealedFields, OfRuntime DEF Moves, Goto, Step, ShutdownStep, Inv, TypeOK
  <2>2. LocksOK(rt'[r], pc'[r])
    BY <1>1, <2>1, UnsealedFields, OfRuntime, UnsealKeepsLocks
  <2>3. Quiet(rt[r], z) /\ (z.lease = "INACTIVE" <=> rt[r].lease = "INACTIVE")
    BY UnsealedFields, OfRuntime DEF Quiet
  <2> HIDE DEF z
  <2>4. Evidence(rt'[r], pc'[r], marker', latch', owed')
    BY <1>1, <1>4, <2>1, <2>3, QuietKeepsEvidence DEF Plain
  <2> QED
    BY <1>1, <1>4, <2>1, <2>2, <2>3, <2>4, FilesAlone
<1> QED
  BY <1>3, <1>4 DEF UnlockForsaken

\* A shutdown that failed leaves the evidence as it is; one that succeeded
\* leaves a runtime that owns nothing.
LEMMA LeaveKeepsInv ==
    ASSUME Inv, NEW r \in Runtime, NEW t \in Thread, Leave(r, t)
    PROVE  Inv'
<1>1. Goto(r, t, "idle") /\ UNCHANGED <<flock, marker, latch, owed>>
  BY DEF Leave
<1>2. CASE pc[r][t] = "leaving" /\ rt' = [rt EXCEPT ![r] = Left(@)]
  <2> DEFINE z == Left(rt[r])
  <2>1. z \in RuntimeState
    BY OfRuntime DEF RuntimeState, Left
  <2>2. /\ SameOwner(rt[r], z) /\ z.out = rt[r].out /\ z.work = FALSE /\ z.lifecycle = None
        /\ z.operator = rt[r].operator /\ z.accepting = rt[r].accepting
        /\ z.unproven = rt[r].unproven /\ z.failure = rt[r].failure
    BY OfRuntime DEF RuntimeState, Left, SameOwner
  <2>3. Moves(r, t, z, "idle")
    BY <1>1, <1>2, <2>1, OfRuntime DEF Moves, Goto, Step, Inv, TypeOK
  <2> HIDE DEF z
  <2>4. LocksOK(rt'[r], pc'[r])
    BY <1>2, <2>2, <2>3, LeaveKeepsLocks
  <2>5. rt'[r] = z /\ pc'[r] = [pc[r] EXCEPT ![t] = "idle"]
    BY <2>3, OfRuntime DEF Moves, Inv, TypeOK
  <2>6. ASSUME NEW u \in Thread
        PROVE  z.lease # "INACTIVE" => ThreadEvidence(z, pc'[r][u], marker, latch, owed)
    <3>1. pc[r][u] # "latching"
      BY <1>2, OfRuntime DEF LocksOK, Reservation, Holds, ShutdownStep
    <3>2. pc'[r][u] \in {pc[r][u], "idle"}
      BY <2>5, OfRuntime
    <3> QED
      BY <3>1, <3>2, <2>2, OfRuntime DEF Evidence, ThreadEvidence, SameOwner
  <2>7. Evidence(z, pc'[r], marker, latch, owed)
    BY <2>2, <2>6, OfRuntime, OwnerAssumption DEF Evidence, OpenEvidence, SameOwner, Touched
  <2> QED
    BY <1>1, <2>2, <2>3, <2>4, <2>5, <2>7, FilesAlone DEF SameOwner
<1>3. CASE pc[r][t] = "closed" /\ rt' = [rt EXCEPT ![r] = NoRuntime]
  <2>1. NoRuntime \in RuntimeState /\ NoRuntime.lease = "INACTIVE"
    BY DEF NoRuntime, RuntimeState, LeaseLifecycle, Role, Operator
  <2>2. Moves(r, t, NoRuntime, "idle")
    BY <1>1, <1>3, <2>1, OfRuntime DEF Moves, Goto, Step, Inv, TypeOK
  <2>3. LocksOK(rt'[r], pc'[r])
    BY <1>3, <2>2, CloseKeepsLocks
  <2>4. Evidence(rt'[r], pc'[r], marker', latch', owed')
    BY <2>1, <2>2, OfRuntime DEF Moves, Evidence, Inv, TypeOK
  <2>5. rt[r].lease = "INACTIVE"
    BY <1>3, OfRuntime DEF LocksOK, Lease
  <2> QED
    BY <1>1, <2>1, <2>2, <2>3, <2>4, <2>5, FilesAlone
<1> QED
  BY <1>2, <1>3 DEF Leave, At

\* A runtime takes the lock file that nobody holds.
LEMMA AcquireKeepsInv ==
    ASSUME Inv, NEW r \in Runtime, NEW t \in Thread, NEW role \in Role, Acquire(r, t, role)
    PROVE  Inv'
<1> DEFINE z == [NoRuntime EXCEPT !.lease = "ACTIVE", !.role = role]
<1>1. /\ \A u \in Thread : pc[r][u] = "idle"
      /\ flock = None /\ flock' = r /\ rt' = [rt EXCEPT ![r] = z] /\ Goto(r, t, "starting")
      /\ UNCHANGED <<marker, latch, owed>>
  BY DEF Acquire, At
<1>2. z \in RuntimeState
  BY DEF NoRuntime, RuntimeState, LeaseLifecycle, Role, Operator
<1>3. /\ z.lease = "ACTIVE" /\ z.closed = TRUE /\ z.work = FALSE /\ z.lifecycle = None
      /\ z.out = 0
      /\ z.unproven = FALSE /\ z.failure = FALSE
  BY DEF NoRuntime
<1>4. Moves(r, t, z, "starting")
  BY <1>1, <1>2, OfRuntime DEF Moves, Goto, Step, Inv, TypeOK
<1> HIDE DEF z
<1>5. LocksOK(rt'[r], pc'[r])
  BY <1>1, <1>3, <1>4, AcquireKeepsLocks
<1>6. rt'[r] = z /\ \A u \in Thread : pc'[r][u] \in {"idle", "starting"}
  BY <1>1, <1>4, OfRuntime DEF Moves, Inv, TypeOK
<1>7. Evidence(rt'[r], pc'[r], marker', latch', owed')
  BY <1>3, <1>6 DEF Evidence, ThreadEvidence, Touched
<1> QED
  BY <1>1, <1>3, <1>4, <1>5, <1>7, OfRuntime, OneRuntimeSteps DEF LockFile

\* The start reads the state files.  It goes on only with the marker set, and it
\* knows of everything that is owed.
LEMMA MarkDirtyKeepsInv ==
    ASSUME Inv, NEW r \in Runtime, NEW t \in Thread, MarkDirty(r, t)
    PROVE  Inv'
<1>1. pc[r][t] = "starting" /\ UNCHANGED <<flock, owed>>
  BY DEF MarkDirty, At
<1>2. PICK latched \in BOOLEAN, marked \in BOOLEAN, l \in File, m \in File :
        /\ IF "partial" \in {marker.seen, latch.seen}
           THEN l = latch /\ ~latched
           ELSE IF marker.seen = "whole"
           THEN CreateStateFile(latch, l, latched)
           ELSE l = latch /\ latched
        /\ IF latched /\ ~(rt[r].role = "MIGRATION" /\ l.seen = "whole")
           THEN CreateStateFile(marker, m, marked)
           ELSE m = marker /\ ~marked
        /\ latch' = l
        /\ marker' = m
        /\ Goto(r, t, IF marked THEN "opening" ELSE "givingUp")
        /\ rt' = [rt EXCEPT ![r].requires = l.seen = "whole"]
  BY DEF MarkDirty
<1> DEFINE z == [rt[r] EXCEPT !.requires = l.seen = "whole"]
           b == IF marked THEN "opening" ELSE "givingUp"
<1>3. Owns(r) /\ rt[r].closed = TRUE /\ rt[r].lease = "ACTIVE"
  BY <1>1, StartOwns DEF Starts
<1>4. (l.seen = "whole") \in BOOLEAN
  OBVIOUS
<1>5. z \in RuntimeState
  BY <1>4, OfRuntime DEF RuntimeState
<1>6. /\ z.lease = rt[r].lease /\ z.role = rt[r].role /\ z.closed = rt[r].closed
      /\ z.work = rt[r].work /\ z.lifecycle = rt[r].lifecycle /\ z.out = rt[r].out
      /\ z.unproven = rt[r].unproven /\ z.failure = rt[r].failure
      /\ z.operator = rt[r].operator
  BY OfRuntime DEF RuntimeState
<1>7. (z.requires = TRUE <=> l.seen = "whole") /\ (z.requires = FALSE <=> l.seen # "whole")
  BY <1>4, OfRuntime DEF RuntimeState
<1>8. Moves(r, t, z, b)
  BY <1>2, <1>5, OfRuntime DEF Moves, Goto, Step, Inv, TypeOK
<1>9. /\ b = "opening" => marked
      /\ b \in {"opening", "givingUp"}
  OBVIOUS
<1>10. /\ Lasting(latch) => Lasting(l)
       /\ Lasting(marker) => Lasting(m)
       /\ marked => /\ Set(m) /\ latched /\ "partial" \notin {marker.seen, latch.seen}
                    /\ ~(rt[r].role = "MIGRATION" /\ l.seen = "whole")
                    /\ marker.seen = "whole" => Set(l)
                    /\ marker.seen # "whole" => l = latch
  BY <1>2, OfRuntime, CreateSets
<1> HIDE DEF z, b
<1>11. LocksOK(rt'[r], pc'[r])
  BY <1>1, <1>6, <1>7, <1>8, <1>9, <1>10, MarkKeepsLocks
<1>12. Files(marker', latch', owed') /\ marker' \in File /\ latch' \in File /\ owed' \in BOOLEAN
  BY <1>1, <1>2, <1>10, OfRuntime DEF Files
<1>13. b = "opening" => l.seen \in {"absent", "whole"} /\ (owed = TRUE => l.seen = "whole")
  BY <1>9, <1>10, OfRuntime DEF Files, Lasting, Set, File, Content
<1>14. rt'[r] = z /\ \A u \in Thread : pc'[r][u] = IF u = t THEN b ELSE "idle"
  <2>1. \A u \in Thread \ {t} : pc[r][u] = "idle"
    BY <1>1, OfRuntime DEF LocksOK, Lease, Starts
  <2> QED
    BY <2>1, <1>8, OfRuntime DEF Moves, Inv, TypeOK
<1>15. ThreadEvidence(z, b, m, l, owed)
  BY <1>7, <1>9, <1>10, <1>13, OfRuntime DEF ThreadEvidence
<1>16. ThreadEvidence(z, "idle", m, l, owed)
  BY DEF ThreadEvidence
<1>17. Evidence(z, pc'[r], m, l, owed)
  BY <1>3, <1>6, <1>14, <1>15, <1>16, OfRuntime DEF Evidence, Touched
<1> QED
  BY <1>1, <1>2, <1>3, <1>6, <1>8, <1>11, <1>12, <1>14, <1>17, OneRuntimeSteps DEF LockFile

\* The runtime opens: it accepts work when no recovery is required.
LEMMA OpenRuntimeKeepsInv ==
    ASSUME Inv, NEW r \in Runtime, NEW t \in Thread, OpenRuntime(r, t)
    PROVE  Inv'
<1> DEFINE op == IF rt[r].requires THEN "RECOVERY_REQUIRED" ELSE "READY"
           z == [rt[r] EXCEPT !.closed = FALSE, !.accepting = ~rt[r].requires, !.operator = op]
<1>1. /\ pc[r][t] = "opening" /\ UNCHANGED <<flock, marker, latch, owed>>
      /\ rt' = [rt EXCEPT ![r].closed = FALSE, ![r].accepting = ~rt[r].requires, ![r].operator = op]
      /\ Goto(r, t, "idle")
  BY DEF OpenRuntime, At
<1>2. rt' = [rt EXCEPT ![r] = z]
  BY <1>1, OfRuntime DEF Inv, TypeOK, RuntimeState
<1>3. (~rt[r].requires) \in BOOLEAN
  OBVIOUS
<1>4. z \in RuntimeState
  BY <1>3, OfRuntime DEF RuntimeState, Operator
<1>5. /\ z.lease = rt[r].lease /\ z.role = rt[r].role /\ z.requires = rt[r].requires
      /\ z.work = rt[r].work /\ z.lifecycle = rt[r].lifecycle /\ z.out = rt[r].out
      /\ z.unproven = rt[r].unproven /\ z.failure = rt[r].failure
      /\ z.closed = FALSE /\ z.operator = op
  BY OfRuntime DEF RuntimeState
<1>6. z.accepting = TRUE => rt[r].requires = FALSE
  BY OfRuntime DEF RuntimeState
<1>7. Moves(r, t, z, "idle")
  BY <1>1, <1>2, <1>4, OfRuntime DEF Moves, Goto, Step, Inv, TypeOK
<1>8. /\ rt[r].requires = TRUE => z.operator = "RECOVERY_REQUIRED"
      /\ rt[r].requires = FALSE => z.operator = "READY"
  BY <1>5
<1> HIDE DEF z, op
<1>9. LocksOK(rt'[r], pc'[r])
  BY <1>1, <1>5, <1>7, OpenKeepsLocks
<1>10. /\ rt'[r] = z /\ \A u \in Thread : pc'[r][u] = "idle"
       /\ rt[r].closed = TRUE /\ rt[r].lease = "ACTIVE" /\ rt[r].lifecycle = None
       /\ rt[r].unproven = FALSE /\ rt[r].failure = FALSE
  <2>1. \A u \in Thread \ {t} : pc[r][u] = "idle"
    BY <1>1, OfRuntime DEF LocksOK, Lease, Starts
  <2>2. rt[r].closed = TRUE /\ rt[r].lease = "ACTIVE"
    BY <1>1, StartOwns DEF Starts
  <2>3. \A u \in Thread : rt[r].lifecycle # u
    BY <1>1, <2>1, OfRuntime DEF LocksOK, Reservation, Closes, ShutdownStep
  <2>4. rt[r].unproven = FALSE /\ rt[r].failure = FALSE
    BY <2>2, OfRuntime DEF Evidence, Touched, RuntimeState
  <2> QED
    BY <1>7, <2>1, <2>2, <2>3, <2>4, OfRuntime DEF Moves, Inv, TypeOK, RuntimeState
<1>11. OpenEvidence(z, marker, latch, owed)
  <2>1. ThreadEvidence(rt[r], pc[r][t], marker, latch, owed)
    BY <1>10, OfRuntime DEF Evidence
  <2>2. rt[r].requires \in BOOLEAN
    BY OfRuntime DEF RuntimeState
  <2> QED
    BY <1>1, <1>5, <1>6, <1>8, <1>10, <2>1, <2>2, OfRuntime
    DEF OpenEvidence, ThreadEvidence, Covered
<1>12. Evidence(z, pc'[r], marker, latch, owed)
  BY <1>5, <1>10, <1>11 DEF Evidence, ThreadEvidence, Touched
<1> QED
  BY <1>1, <1>5, <1>7, <1>9, <1>10, <1>12, FilesAlone

\* A start that failed releases the lock file, or cannot.
LEMMA GiveUpKeepsInv ==
    ASSUME Inv, NEW r \in Runtime, NEW t \in Thread, GiveUp(r, t)
    PROVE  Inv'
<1>1. pc[r][t] = "givingUp" /\ UNCHANGED <<marker, latch, owed>> /\ Goto(r, t, "idle")
  BY DEF GiveUp, At
<1>2. Owns(r)
  BY <1>1, StartOwns DEF Starts
<1>3. CASE flock' = None /\ rt' = [rt EXCEPT ![r] = NoRuntime]
  <2>1. NoRuntime \in RuntimeState /\ NoRuntime.lease = "INACTIVE"
    BY DEF NoRuntime, RuntimeState, LeaseLifecycle, Role, Operator
  <2>2. Moves(r, t, NoRuntime, "idle")
    BY <1>1, <1>3, <2>1, OfRuntime DEF Moves, Goto, Step, Inv, TypeOK
  <2>3. LocksOK(rt'[r], pc'[r])
    BY <1>1, <2>2, GiveUpKeepsLocks
  <2>4. Evidence(rt'[r], pc'[r], marker', latch', owed')
    BY <2>1, <2>2, OfRuntime DEF Moves, Evidence, Inv, TypeOK
  <2> QED
    BY <1>1, <1>2, <1>3, <2>1, <2>2, <2>3, <2>4, OfRuntime, OneRuntimeSteps DEF LockFile
<1>4. CASE UNCHANGED <<flock, rt>>
  <2>1. Moves(r, t, rt[r], "idle")
    BY <1>1, <1>4, OfRuntime DEF Moves, Goto, Step, Inv, TypeOK
  <2>2. LocksOK(rt'[r], pc'[r])
    BY <1>1, <2>1, WalkKeepsLocks DEF Walk, SameLocks, SameOwner
  <2>3. Evidence(rt'[r], pc'[r], marker', latch', owed')
    BY <1>1, <2>1, QuietKeepsEvidence DEF Plain, Quiet
  <2> QED
    BY <1>1, <1>4, <2>1, <2>2, <2>3, FilesAlone
<1> QED
  BY <1>3, <1>4 DEF GiveUp

-----------------------------------------------------------------------------
(* The environment, and the theorems.                                      *)

\* A runtime that holds nothing and whose threads are idle.
LEMMA NothingHeld ==
    /\ NoRuntime \in RuntimeState
    /\ [t \in Thread |-> "idle"] \in [Thread -> Step]
    /\ LocksOK(NoRuntime, [t \in Thread |-> "idle"])
    /\ \A m, l, o : Evidence(NoRuntime, [t \in Thread |-> "idle"], m, l, o)
<1> DEFINE p == [t \in Thread |-> "idle"]
<1>1. NoRuntime \in RuntimeState
  BY DEF NoRuntime, RuntimeState, LeaseLifecycle, Role, Operator
<1>2. p \in [Thread -> Step] /\ \A t \in Thread : p[t] = "idle"
  BY DEF Step
<1>3. Reservation(NoRuntime, p)
  BY <1>2, OwnerAssumption DEF NoRuntime, Reservation, Holds, Closes, WorkStep, ShutdownStep
<1>4. Connection(NoRuntime, p)
  BY <1>2 DEF NoRuntime, Connection, Connects, WorkStep
<1>5. Lease(NoRuntime, p)
  BY <1>2 DEF NoRuntime, Lease, Starts, Closes, SealedStep, ShutdownStep
<1>6. \A m, l, o : Evidence(NoRuntime, p, m, l, o)
  BY DEF NoRuntime, Evidence
<1> QED
  BY <1>1, <1>2, <1>3, <1>4, <1>5, <1>6 DEF LocksOK

\* The invariant holds at the start.
LEMMA InitEstablishesInv ==
    ASSUME Init
    PROVE  Inv
<1>1. TypeOK
  BY NothingHeld DEF Init, TypeOK, File, Content, Durable
<1>2. OwnerLocked
  BY OwnerAssumption DEF Init, OwnerLocked, Owns, NoRuntime
<1>3. \A r \in Runtime : LocksOK(rt[r], pc[r]) /\ Evidence(rt[r], pc[r], marker, latch, owed)
  BY NothingHeld DEF Init
<1>4. Files(marker, latch, owed)
  BY DEF Init, Files
<1> QED
  BY <1>1, <1>2, <1>3, <1>4 DEF Inv

\* The end of a process leaves the evidence of what it had not finished.
LEMMA DieKeepsInv ==
    ASSUME Inv, NEW r \in Runtime, Die(r)
    PROVE  Inv'
<1> DEFINE p == [t \in Thread |-> "idle"]
<1>1. /\ flock' = IF flock = r THEN None ELSE flock
      /\ owed' = (owed \/ Unfinished(r))
      /\ rt' = [rt EXCEPT ![r] = NoRuntime]
      /\ pc' = [pc EXCEPT ![r] = p]
      /\ UNCHANGED <<marker, latch>>
  BY DEF Die
<1>2. /\ rt'[r] = NoRuntime /\ pc'[r] = p
      /\ \A x \in Runtime \ {r} : rt'[x] = rt[x] /\ pc'[x] = pc[x]
  BY <1>1 DEF Inv, TypeOK
<1>3. owed' \in BOOLEAN
  BY <1>1
<1>4. TypeOK'
  BY <1>1, <1>3, NothingHeld DEF Inv, TypeOK
<1>5. OwnerLocked'
  BY <1>1, <1>2, OwnerAssumption DEF Inv, OwnerLocked, Owns, NoRuntime
<1>6. \A x \in Runtime : LocksOK(rt'[x], pc'[x])
  BY <1>2, NothingHeld DEF Inv
<1>7. ~Unfinished(r) => owed' = owed
  BY <1>1 DEF Inv, TypeOK
<1>8. Files(marker', latch', owed')
  BY <1>1, <1>7, UnfinishedLasts DEF Files, Inv
<1>9. ASSUME NEW x \in Runtime \ {r} PROVE Evidence(rt'[x], pc'[x], marker', latch', owed')
  <2>1. CASE Unfinished(r)
    <3>1. rt[x].lease = "INACTIVE"
      BY <2>1 DEF Unfinished, Inv, TypeOK, OwnerLocked, Owns, RuntimeState, LeaseLifecycle
    <3> QED
      BY <3>1, <1>2 DEF Evidence
  <2>2. CASE ~Unfinished(r)
    BY <2>2, <1>1, <1>2, <1>7 DEF Inv
  <2> QED
    BY <2>1, <2>2
<1>10. \A x \in Runtime : Evidence(rt'[x], pc'[x], marker', latch', owed')
  BY <1>2, <1>9, NothingHeld
<1> QED
  BY <1>4, <1>5, <1>6, <1>8, <1>10 DEF Inv

\* Lasting evidence survives a loss of power.
LEMMA LastingSurvives ==
    ASSUME NEW f \in File, NEW c \in Survivors(f)
    PROVE  Durable(c) \in File /\ (Lasting(f) => Lasting(Durable(c)))
BY DEF Survivors, File, Content, Durable, Lasting

\* A loss of power ends every runtime, and leaves lasting evidence.
LEMMA PowerLossKeepsInv ==
    ASSUME Inv, PowerLoss
    PROVE  Inv'
<1>1. PICK m \in Survivors(marker), l \in Survivors(latch) :
        marker' = Durable(m) /\ latch' = Durable(l)
  BY DEF PowerLoss
<1>2. /\ flock' = None
      /\ owed' = (owed \/ \E r \in Runtime : Unfinished(r))
      /\ rt' = [r \in Runtime |-> NoRuntime]
      /\ pc' = [r \in Runtime |-> [t \in Thread |-> "idle"]]
  BY DEF PowerLoss
<1>3. owed' \in BOOLEAN
  BY <1>2
<1>4. marker' \in File /\ latch' \in File
  BY <1>1, LastingSurvives DEF Inv, TypeOK
<1>5. TypeOK'
  BY <1>2, <1>3, <1>4, NothingHeld DEF TypeOK
<1>6. OwnerLocked'
  BY <1>2, OwnerAssumption DEF OwnerLocked, Owns, NoRuntime
<1>7. \A r \in Runtime : LocksOK(rt'[r], pc'[r]) /\ Evidence(rt'[r], pc'[r], marker', latch', owed')
  BY <1>2, NothingHeld
<1>8. ASSUME owed' = TRUE PROVE Lasting(marker) \/ Lasting(latch)
  <2>1. owed = TRUE \/ \E r \in Runtime : Unfinished(r)
    BY <1>2, <1>8 DEF Inv, TypeOK
  <2> QED
    BY <2>1, UnfinishedLasts DEF Inv, Files
<1>9. Files(marker', latch', owed')
  BY <1>1, <1>8, LastingSurvives DEF Files, Inv, TypeOK
<1> QED
  BY <1>5, <1>6, <1>7, <1>9 DEF Inv

\* Every step keeps the invariant.
LEMMA NextKeepsInv ==
    ASSUME Inv, [Next]_vars
    PROVE  Inv'
<1>1. ASSUME NEW r \in Runtime, NEW t \in Thread, Open(r, t) PROVE Inv'
  BY <1>1, AcquireKeepsInv, MarkDirtyKeepsInv, OpenRuntimeKeepsInv, RefuseDatabaseKeepsInv,
     GiveUpKeepsInv DEF Open
<1>2. ASSUME NEW r \in Runtime, NEW t \in Thread, UnitOfWork(r, t) PROVE Inv'
  BY <1>2, AdmitKeepsInv, BeginImmediateKeepsInv, RollbackKeepsInv, CommitGuardKeepsInv,
     CommitKeepsInv, CloseSessionKeepsInv, ReportCleanupFailureKeepsInv, ReleaseWorkKeepsInv
  DEF UnitOfWork
<1>3. ASSUME NEW r \in Runtime, NEW t \in Thread, OtherWork(r, t) PROVE Inv'
  BY <1>3, AskReconciliationKeepsInv, ReserveReconciliationKeepsInv, ConnectReaderKeepsInv,
     LeaveReaderKeepsInv, FinishInitializationKeepsInv, ConnectKeepsInv, MigrateKeepsInv,
     DisconnectKeepsInv DEF OtherWork
<1>4. ASSUME NEW r \in Runtime, NEW t \in Thread, Shutdown(r, t) PROVE Inv'
  BY <1>4, BeginShutdownKeepsInv, RefuseShutdownKeepsInv, PauseRefusedKeepsInv, ReserveKeepsInv,
     BlockedKeepsInv, SealKeepsInv, ValidateShutdownKeepsInv, KeepOwnershipKeepsInv,
     DecideLatchKeepsInv, SetLatchKeepsInv, RemoveMarkerKeepsInv, UnlockKeepsInv,
     RestoreEvidenceKeepsInv, LeaveKeepsInv, ForsakeKeepsInv, SealForsakenKeepsInv,
     UnlockForsakenKeepsInv DEF Shutdown
<1>5. CASE UNCHANGED vars
  BY <1>5 DEF vars, Inv, TypeOK, OwnerLocked, Owns
<1> QED
  BY <1>1, <1>2, <1>3, <1>4, <1>5, DieKeepsInv, PowerLossKeepsInv DEF Next

\* The invariant holds of every behaviour.
THEOREM Invariance == Spec => []Inv
<1>1. Init => Inv
  BY InitEstablishesInv
<1>2. Inv /\ [Next]_vars => Inv'
  BY NextKeepsInv
<1> QED
  BY <1>1, <1>2, PTL DEF Spec

\* The variables keep their types.
THEOREM TypeCorrect == Spec => []TypeOK
<1>1. Inv => TypeOK
  BY DEF Inv
<1> QED
  BY <1>1, Invariance, PTL

\* No runtime takes up new work while something is owed to recovery: the start
\* finds the lasting evidence, requires recovery and does not accept.
THEOREM RecoveryTheorem == Spec => []RecoveryRemembered
<1>1. ASSUME Inv PROVE RecoveryRemembered
  <2> SUFFICES ASSUME NEW r \in Runtime, Accepting(r) PROVE ~owed
    BY DEF RecoveryRemembered
  <2>1. /\ rt[r] \in RuntimeState /\ owed \in BOOLEAN
        /\ Evidence(rt[r], pc[r], marker, latch, owed)
    BY <1>1 DEF Inv, TypeOK
  <2>2. rt[r].lease = "ACTIVE" /\ rt[r].closed = FALSE /\ rt[r].accepting = TRUE
    BY <2>1 DEF Accepting, RuntimeState
  <2> QED
    BY <2>1, <2>2 DEF Evidence, OpenEvidence
<1> QED
  BY <1>1, Invariance, PTL

\* Database work happens under the lock file and an unsealed lease, with
\* evidence that a start after a crash would find.
THEOREM CoverTheorem == Spec => []WorkIsCovered
<1>1. ASSUME Inv PROVE WorkIsCovered
  <2> SUFFICES ASSUME NEW r \in Runtime, NEW t \in Thread,
                      pc[r][t] \in {"working", "committing", "reading", "migrating"}
               PROVE  /\ flock = r
                      /\ rt[r].lease = "ACTIVE"
                      /\ \E f \in {marker, latch} : f.seen = "whole" /\ f.entry
    BY DEF WorkIsCovered
  <2>1. rt[r].lease = "ACTIVE" /\ rt[r].closed = FALSE
    BY <1>1, OfRuntime DEF LocksOK, Lease
  <2>2. flock = r
    BY <1>1, <2>1 DEF Inv, OwnerLocked, Owns
  <2>3. Covered(marker, latch)
    BY <1>1, <2>1, OfRuntime DEF Evidence, ThreadEvidence, OpenEvidence
  <2>4. \E f \in {marker, latch} : f.seen = "whole" /\ f.entry
    BY <2>3 DEF Covered, Set
  <2> QED
    BY <2>1, <2>2, <2>4
<1> QED
  BY <1>1, Invariance, PTL

\* The reservation is held by exactly one thread.
THEOREM ReservationTheorem == Spec => []OneAtATime
<1>1. ASSUME Inv PROVE OneAtATime
  <2> SUFFICES ASSUME NEW r \in Runtime
               PROVE  LET holders == {t \in Thread : pc[r][t] \in WorkStep \cup ShutdownStep}
                      IN  /\ Cardinality(holders) <= 1
                          /\ rt[r].work <=> holders # {}
    BY DEF OneAtATime
  <2> DEFINE holders == {t \in Thread : pc[r][t] \in WorkStep \cup ShutdownStep}
  <2>1. Reservation(rt[r], pc[r]) /\ rt[r].work \in BOOLEAN
    BY <1>1 DEF Inv, LocksOK, TypeOK, RuntimeState
  <2>2. rt[r].work <=> holders # {}
    BY <2>1 DEF Reservation, Holds
  <2>3. CASE holders = {}
    BY <2>3, <2>2, FS_EmptySet
  <2>4. CASE holders # {}
    <3>1. PICK t \in Thread : t \in holders
      BY <2>4
    <3>2. holders = {t}
      BY <3>1, <2>1 DEF Reservation, Holds
    <3> QED
      BY <3>2, <2>2, FS_Singleton
  <2> QED
    BY <2>3, <2>4
<1> QED
  BY <1>1, Invariance, PTL

\* A lease is sealed only while the shutdown that sealed it is on its way.
THEOREM RetryTheorem == Spec => []ShutdownCanBeRetried
<1>1. ASSUME Inv PROVE ShutdownCanBeRetried
  BY <1>1 DEF Inv, ShutdownCanBeRetried, LocksOK, Lease, Reservation, Closes, SealedStep,
              ShutdownStep
<1> QED
  BY <1>1, Invariance, PTL
=============================================================================
