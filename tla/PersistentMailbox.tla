-------------------------- MODULE PersistentMailbox --------------------------
(***************************************************************************)
(* The durable mailbox: PersistentMailboxRepository of                     *)
(* services/runner_mailbox/persistent.py.  Several processes hold a handle *)
(* on one SQLite database with a single encrypted state row.  A call takes *)
(* SQLite's write transaction (BEGIN IMMEDIATE), hydrates a repository     *)
(* from the row, applies one operation to it, replaces the row if the      *)
(* operation changed anything, commits, and only then answers.             *)
(*                                                                         *)
(* The variables of MailboxRepository are the committed row.  The write    *)
(* transaction excludes every other, so there is at most one hydrated      *)
(* repository: the variables named w...  SQLite itself is external: it is  *)
(* modelled by its write lock, its atomic commit and its failures.         *)
(***************************************************************************)
EXTENDS MailboxRepository

CONSTANTS
    Handle,         \* the handles (one per process)
    MaxGeneration   \* _MAX_FRAME_GENERATION

ASSUME GenerationAssumption == MaxGeneration \in Nat \ {0}

ASSUME HandleAssumption == None \notin Handle

VARIABLES
    generation,     \* generation of the row, NoGeneration before there is one
    wRecords, wTombstones, wHighWater, wTotal,  \* the hydrated repository
    writer,         \* the handle with the open write transaction, or None
    phase,          \* how far each handle is in its call
    answer,         \* the credentials each pending answer hands out
    known           \* the digests of the credentials connectors have been given

row == <<records, tombstones, highWater, total, generation>>
work == <<wRecords, wTombstones, wHighWater, wTotal>>
vars == <<row, work, writer, phase, answer, known>>

Work == INSTANCE MailboxRepository
            WITH records <- wRecords, tombstones <- wTombstones,
                 highWater <- wHighWater, total <- wTotal

NoGeneration == -1

Phase == {"closed", "idle", "loaded", "applied", "committed", "poisoned"}

-----------------------------------------------------------------------------
(* Frames.                                                                 *)

\* _validate_repository_semantics together with the authentication of every
\* retained frame, of the row and of the hydrated repository.
ValidRow == LifecycleValid /\ TimesOrdered /\ CredentialsDistinct /\ QuotaAccounting
ValidWork == /\ Work!LifecycleValid /\ Work!TimesOrdered
             /\ Work!CredentialsDistinct /\ Work!QuotaAccounting

\* _load_repository accepts the row.
Loadable == generation < MaxGeneration /\ ValidRow

\* Lets the last generation be written that no reader accepts.
WritableUpToLimit == generation + 1 <= MaxGeneration /\ ValidWork

\* _write_repository accepts the hydrated repository.
Writable == generation + 1 < MaxGeneration /\ ValidWork

Changed == work # repository

\* Hydrates a repository that was not read from the row.
LoadStale == UNCHANGED work

\* The hydrated repository is what the row holds.
Load ==
    /\ wRecords' = records
    /\ wTombstones' = tombstones
    /\ wHighWater' = highWater
    /\ wTotal' = total

\* The hydrated repository is dropped when its transaction ends.
Drop ==
    /\ wRecords' = [m \in Mailbox |-> NoRecord]
    /\ wTombstones' = [m \in Mailbox |-> NoTime]
    /\ wHighWater' = NoTime
    /\ wTotal' = [active |-> 0, evidence |-> 0, committed |-> 0]

\* The row becomes the hydrated repository, in one generation.
Replace ==
    /\ records' = wRecords
    /\ tombstones' = wTombstones
    /\ highWater' = wHighWater
    /\ total' = wTotal
    /\ generation' = generation + 1

-----------------------------------------------------------------------------
(* Handles.                                                                *)

SystemInit ==
    /\ Init
    /\ generation = NoGeneration
    /\ Work!Init
    /\ writer = None
    /\ phase = [h \in Handle |-> "closed"]
    /\ answer = [h \in Handle |-> {}]
    /\ known = {}

\* __init__: the first handle writes an empty repository, later ones check
\* that the row loads.  A row that does not load, or a peer that keeps the
\* write transaction for longer than the timeout, leaves no handle.
Open(h) ==
    /\ phase[h] = "closed"
    /\ writer = None
    /\ generation = NoGeneration \/ Loadable
    /\ generation' = IF generation = NoGeneration THEN 0 ELSE generation
    /\ phase' = [phase EXCEPT ![h] = "idle"]
    /\ UNCHANGED <<repository, work, writer, answer, known>>

\* A transaction of h ends and h goes on to p.
EndTransaction(h, p) ==
    /\ phase' = [phase EXCEPT ![h] = p]
    /\ writer' = None
    /\ Drop

\* _transition up to the operation.  A handle whose row does not load is
\* poisoned.  When a peer has the write transaction, the call answers
\* CONTENDED and changes nothing.
Begin(h) ==
    /\ phase[h] = "idle"
    /\ writer = None
    /\ IF Loadable
       THEN /\ phase' = [phase EXCEPT ![h] = "loaded"]
            /\ writer' = h
            /\ Load
       ELSE EndTransaction(h, "poisoned")
    /\ UNCHANGED <<row, answer, known>>

\* Credentials that have left core or are about to.
GivenOut == known \cup UNION {answer[h] : h \in Handle}

\* Core's new credentials are random: connectors hold none of them.
FreshlyIssued ==
    \A m \in Mailbox :
        LET r == wRecords[m]
            s == wRecords'[m]
        IN  /\ r.state = "ABSENT" /\ s.state = "EMPTY"
                  => {s.action, s.collect} \cap GivenOut = {}
            /\ r.state = "EMPTY" /\ s.state = "OFFERED"
                  => s.resultCredential \notin GivenOut

\* What the answer to the operation hands out: core passes the claim
\* credential of a mailbox it opened on to a connector, and a successful
\* claim answers the result credential.
HandedOut ==
    LET opened == {m \in Mailbox : /\ wRecords[m].state = "ABSENT"
                                   /\ wRecords'[m].state = "EMPTY"}
        claimed == {m \in Mailbox : /\ wRecords[m].state = "OFFERED"
                                    /\ wRecords'[m].state = "CLAIMED_ONCE"}
    IN  {wRecords'[m].claim : m \in opened}
            \cup {wRecords[m].resultCredential : m \in claimed}

\* The operation runs on the hydrated repository, with whatever instant the
\* clock of its process shows.
Apply(h) ==
    /\ phase[h] = "loaded"
    /\ \E now \in Time :
          \/ \E c \in known : Work!ConnectorOperation(c, now)
          \/ \E t \in CredentialTriple : Work!CoreOperation(t, now)
          \/ Work!MaintenanceOperation(Maintenance, now)
    /\ FreshlyIssued
    /\ answer' = [answer EXCEPT ![h] = HandedOut]
    /\ phase' = [phase EXCEPT ![h] = "applied"]
    /\ UNCHANGED <<row, writer, known>>

\* Returns the denial without ending the transaction.
DenyInTransaction(h) ==
    /\ phase[h] = "loaded"
    /\ phase' = [phase EXCEPT ![h] = "idle"]
    /\ UNCHANGED <<row, work, writer, answer, known>>

\* The operation denies without a change: the transaction is rolled back.
Deny(h) ==
    /\ phase[h] = "loaded"
    /\ EndTransaction(h, "idle")
    /\ UNCHANGED <<row, answer, known>>

\* The operation answers INTERNAL_UNCERTAINTY, for a clock behind the
\* installation's or a tombstone horizon that overflows: the handle is
\* poisoned and the transaction rolled back.
RefuseInstant(h) ==
    /\ phase[h] = "loaded"
    /\ \E now \in Time : ~Work!InstallationNow(now) \/ ~TombstoneFits(now)
    /\ EndTransaction(h, "poisoned")
    /\ UNCHANGED <<row, answer, known>>

\* Nothing to write: the transaction is rolled back and the call answers.
RollbackUnchanged(h) ==
    /\ phase[h] = "applied"
    /\ ~Changed
    /\ EndTransaction(h, "committed")
    /\ UNCHANGED <<row, answer, known>>

\* Answers without the commit.
AnswerBeforeCommit(h) ==
    /\ phase[h] = "applied"
    /\ Changed /\ Writable
    /\ EndTransaction(h, "committed")
    /\ UNCHANGED <<row, answer, known>>

\* _write_repository and _commit_then_reply, as far as the commit.
CommitThenReply(h) ==
    /\ phase[h] = "applied"
    /\ Changed /\ Writable
    /\ Replace
    /\ EndTransaction(h, "committed")
    /\ UNCHANGED <<answer, known>>

\* _write_repository refuses: the generations are used up.
RefuseFrame(h) ==
    /\ phase[h] = "applied"
    /\ Changed /\ ~Writable
    /\ EndTransaction(h, "poisoned")
    /\ answer' = [answer EXCEPT ![h] = {}]
    /\ UNCHANGED <<row, known>>

\* The write or the commit reports an error.  The handle is poisoned and the
\* code does not roll back: the commit may have reached the disk after all,
\* SQLite may have rolled back, or the transaction stays open.
CommitFails(h) ==
    /\ phase[h] = "applied"
    /\ Changed /\ Writable
    /\ \/ Replace /\ writer' = None
       \/ UNCHANGED row /\ writer' \in {h, None}
    /\ Drop
    /\ phase' = [phase EXCEPT ![h] = "poisoned"]
    /\ answer' = [answer EXCEPT ![h] = {}]
    /\ UNCHANGED known

\* BEGIN or the read of the row reports an error other than contention: the
\* handle is poisoned, and an open transaction stays open.
ReadFails(h) ==
    /\ phase[h] = "idle"
    /\ writer = None
    /\ phase' = [phase EXCEPT ![h] = "poisoned"]
    /\ writer' \in {h, None}
    /\ UNCHANGED <<row, work, answer, known>>

\* The call answers its caller.
Reply(h) ==
    /\ phase[h] = "committed"
    /\ phase' = [phase EXCEPT ![h] = "idle"]
    /\ known' = known \cup answer[h]
    /\ answer' = [answer EXCEPT ![h] = {}]
    /\ UNCHANGED <<row, work, writer>>

\* h lets go of its connection, and SQLite of its transaction.
Disconnect(h) ==
    /\ phase' = [phase EXCEPT ![h] = "closed"]
    /\ answer' = [answer EXCEPT ![h] = {}]
    /\ IF writer = h THEN writer' = None /\ Drop ELSE UNCHANGED <<writer, work>>
    /\ UNCHANGED <<row, known>>

\* close: the only thing a poisoned handle still does.
Close(h) == phase[h] \in {"idle", "poisoned"} /\ Disconnect(h)

\* The process ends inside a call, and a pending answer with it.
Die(h) == phase[h] \in {"loaded", "applied", "committed"} /\ Disconnect(h)

\* The steps of a call that its thread takes by itself.
InCall(h) ==
    \/ Apply(h) \/ Deny(h) \/ RefuseInstant(h)
    \/ RollbackUnchanged(h) \/ CommitThenReply(h) \/ RefuseFrame(h)
    \/ CommitFails(h) \/ Reply(h)

SystemNext ==
    \E h \in Handle :
        Open(h) \/ Begin(h) \/ ReadFails(h) \/ InCall(h) \/ Close(h) \/ Die(h)

\* A thread inside a call keeps running.
Fairness == \A h \in Handle : WF_vars(InCall(h))

SystemSpec == SystemInit /\ [][SystemNext]_vars /\ Fairness

-----------------------------------------------------------------------------
(* Correctness.                                                            *)

\* Whatever handles do at once, wherever processes die and commits fail, the
\* row only ever changes by one operation of the one-process repository at a
\* time, applied to the row as it was: no lost update, no half operation.
DiskImplementsRepository == Spec

\* A credential that reached a caller is one the disk knows to be delivered:
\* no process that starts or restarts finds the action still on offer.
AnswersAreDurable ==
    \A m \in Mailbox :
        records[m].state = "OFFERED" => records[m].resultCredential \notin known

\* No handle ever writes a row that locks every handle out of the database,
\* neither by its generation nor by what it holds.
RowLoads == generation # NoGeneration => Loadable

\* A call never keeps the write transaction from the other processes for
\* good, unless its handle reports that it must be recovered.
LockReleased ==
    \A h \in Handle : writer = h ~> (writer # h \/ phase[h] = "poisoned")

=============================================================================
