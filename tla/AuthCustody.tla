---------------------------- MODULE AuthCustody ----------------------------
(***************************************************************************)
(* Custody of the five authentication secrets of an installation in an     *)
(* owner-only file (adapters/auth/owner_file_custody.py), and the two      *)
(* compositions that need file and durable store to agree: the ceremony    *)
(* that provisions an empty installation and the opening of an existing    *)
(* one (bootstrap/auth_custody.py).                                        *)
(*                                                                         *)
(* The store is what DurableAuthStore shows of it: an installation is      *)
(* initialised once, in a transaction whose outcome may be unknown.  One   *)
(* process owns it; its threads run the compositions at once.  The         *)
(* operator may change the file, the process may die and power may fail    *)
(* between any two steps.                                                  *)
(***************************************************************************)
EXTENDS Naturals, FiniteSets

CONSTANTS Thread, Binding,
          Expected,     \* the binding of this installation
          None,
          MaxMinted,    \* the bound on the bundles that are minted
          MaxId         \* the bound on the files that are ever at the path

ASSUME CustodyAssumption == Expected \in Binding /\ MaxMinted \in Nat /\ MaxId \in Nat

VARIABLES
    file,       \* what the name refers to
    files,      \* the number of files made so far
    minted,     \* the number of bundles minted so far
    installed,  \* the bundle whose digests the durable store holds
    runtime,    \* the SQLiteRuntime of the process
    custody,    \* the OwnerFileAuthCustody of the process
    task,       \* the composition each thread runs
    released,   \* the bundles in compositions that were returned (history)
    loaded,     \* the bundles that this process's custody returned (history)
    touched     \* whether the operator ever changed the file (history)

vars == <<file, files, minted, installed, runtime, custody, task, released, loaded, touched>>

\* AuthCustodyBundle: its five credentials were minted together.
Bundle == [binding : Binding, secret : 1..MaxMinted]

\* A file with its identity and its content, None for what does not parse; safe
\* stands for owner, mode, type and links, data and name say what fsync has made
\* durable.
File == [id : 1..MaxId, content : Bundle \cup {None},
         safe : BOOLEAN, data : BOOLEAN, name : BOOLEAN]

\* _Pin: identity and digest.
Pin == [id : 1..MaxId, content : Bundle]

\* The absence of a file, a bundle or a pin is none of them.
ASSUME NoneAssumption == None \notin Bundle \cup File \cup Pin

Fresh == [pin |-> None, latched |-> FALSE]

Idle == [step |-> "idle", bundle |-> None, id |-> 0, exists |-> FALSE]

At(t, step) == task[t].step = step

Goto(t, step) == task' = [task EXCEPT ![t].step = step]

\* The call returns or raises, and its secrets go with it.
Finish(t) == task' = [task EXCEPT ![t] = Idle]

\* A step that fails and has changed nothing: a system call fails, a directory
\* is refused, the runtime is not open.
Refuse(t) ==
    /\ Finish(t)
    /\ UNCHANGED <<file, files, minted, installed, runtime, custody, released, loaded, touched>>

-----------------------------------------------------------------------------
(* The two compositions begin.                                             *)

Start(t, step) ==
    /\ task[t] = Idle
    /\ Goto(t, step)
    /\ UNCHANGED <<file, files, minted, installed, runtime, custody, released, loaded, touched>>

\* provision_custodied_auth: auth_state_exists, and the bundle is minted.
StateIsEmpty(t) ==
    /\ At(t, "provision")
    /\ \/ /\ runtime = "open" /\ installed = None /\ minted < MaxMinted
          /\ minted' = minted + 1
          /\ task' = [task EXCEPT ![t].step = "create",
                                  ![t].bundle = [binding |-> Expected, secret |-> minted + 1]]
          /\ UNCHANGED <<file, files, installed, runtime, custody, released, loaded, touched>>
       \/ Refuse(t)

\* open_custodied_auth: auth_state_exists, whose answer is used after the status.
StateExists(t) ==
    /\ At(t, "open")
    /\ \/ /\ runtime = "open"
          /\ task' = [task EXCEPT ![t].step = "status", ![t].exists = (installed # None)]
          /\ UNCHANGED <<file, files, minted, installed, runtime, custody, released, loaded, touched>>
       \/ Refuse(t)

-----------------------------------------------------------------------------
(* provision_empty.  The descriptor refers to the file that was created,   *)
(* whatever the name refers to by now.                                     *)

Mine(t) == file # None /\ file.id = task[t].id

\* O_CREAT | O_EXCL
CreateNew(t) ==
    /\ At(t, "create")
    /\ \/ /\ file = None /\ files < MaxId
          /\ file' = [id |-> files + 1, content |-> None, safe |-> TRUE,
                      data |-> FALSE, name |-> FALSE]
          /\ files' = files + 1
          /\ task' = [task EXCEPT ![t].step = "write", ![t].id = files + 1]
          /\ UNCHANGED <<minted, installed, runtime, custody, released, loaded, touched>>
       \/ Refuse(t)

\* The write loop, to its end.  A write that fails leaves a partial file.
WritePayload(t) ==
    /\ At(t, "write")
    /\ \/ /\ file' = IF Mine(t) THEN [file EXCEPT !.content = task[t].bundle] ELSE file
          /\ Goto(t, "sync")
          /\ UNCHANGED <<files, minted, installed, runtime, custody, released, loaded, touched>>
       \/ Refuse(t)

\* fsync of the file, and the check of its links and size.
SyncFile(t) ==
    /\ At(t, "sync")
    /\ \/ /\ file' = IF Mine(t) THEN [file EXCEPT !.data = TRUE] ELSE file
          /\ Goto(t, "syncdir")
          /\ UNCHANGED <<files, minted, installed, runtime, custody, released, loaded, touched>>
       \/ Refuse(t)

\* (As it would be if the directory were not synchronised.)
SyncNothing(t) ==
    /\ At(t, "syncdir")
    /\ Goto(t, "initialize")
    /\ UNCHANGED <<file, files, minted, installed, runtime, custody, released, loaded, touched>>

\* fsync of the directory.
SyncDirectory(t) ==
    /\ At(t, "syncdir")
    /\ \/ /\ file' = IF file = None THEN None ELSE [file EXCEPT !.name = TRUE]
          /\ Goto(t, "initialize")
          /\ UNCHANGED <<files, minted, installed, runtime, custody, released, loaded, touched>>
       \/ Refuse(t)

\* initialize_installation of the durable store.  An installation that exists
\* is refused; a commit that raises has happened or not, and the runtime is
\* abandoned.
InitializeInstallation(t) ==
    /\ At(t, "initialize")
    /\ \/ /\ runtime = "open" /\ installed = None
          /\ \/ installed' = task[t].bundle /\ Goto(t, "verify") /\ UNCHANGED runtime
             \/ installed' \in {None, task[t].bundle} /\ Finish(t) /\ runtime' = "abandoned"
          /\ UNCHANGED <<file, files, minted, custody, released, loaded, touched>>
       \/ Refuse(t)

-----------------------------------------------------------------------------
(* The runtime reader.  A call holds its lock; _read compares the file, its *)
(* name and its ancestry before and after, so that it returns one version. *)

\* _serialize and _parse: a complete record is one bundle, and only a bundle of
\* the expected binding is accepted.
Parses(content) == content # None /\ content.binding = Expected

\* _read: the pins of what can be read.
Read ==
    IF file # None /\ file.safe /\ Parses(file.content)
    THEN {[id |-> file.id, content |-> file.content]} ELSE {}

\* (As it would be if the source were read afresh each time.)
UnpinnedAccess(pin) == custody' = [custody EXCEPT !.pin = pin]

\* The source that was read is the one this reader has seen before.
Access(pin) == custody.pin \in {None, pin} /\ custody' = [custody EXCEPT !.pin = pin]

\* Whatever is refused latches the reader: an unsafe or malformed file, one that
\* is not the pinned one, a system call that fails.
Latch(t) == Finish(t) /\ custody' = [custody EXCEPT !.latched = TRUE]

\* status.  An absent file is not a failure, and a latched reader reads nothing.
Status(t) ==
    /\ At(t, "status")
    /\ \/ /\ ~custody.latched
          /\ \/ /\ \E pin \in Read : Access(pin)
                /\ IF task[t].exists THEN Goto(t, "load") ELSE Finish(t)
             \/ Latch(t)
          /\ UNCHANGED <<file, files, minted, installed, runtime, released, loaded, touched>>
       \/ (custody.latched \/ file = None) /\ Refuse(t)

\* load
Load(t) ==
    /\ At(t, "load")
    /\ \/ /\ ~custody.latched
          /\ \/ \E pin \in Read :
                   /\ Access(pin)
                   /\ loaded' = loaded \cup {pin.content}
                   /\ task' = [task EXCEPT ![t].step = "verify", ![t].bundle = pin.content]
             \/ Latch(t) /\ UNCHANGED loaded
          /\ UNCHANGED <<file, files, minted, installed, runtime, released, touched>>
       \/ custody.latched /\ Refuse(t)

-----------------------------------------------------------------------------
\* (As it would be if only the presence of the state were required.)
ComposeUnverified(t) ==
    /\ At(t, "verify")
    /\ runtime = "open" /\ installed # None
    /\ released' = released \cup {task[t].bundle}
    /\ Finish(t)
    /\ UNCHANGED <<file, files, minted, installed, runtime, custody, loaded, touched>>

\* _compose, verify_loaded_composition: the authorities are released.
Compose(t) ==
    /\ At(t, "verify")
    /\ \/ /\ runtime = "open" /\ installed = task[t].bundle
          /\ released' = released \cup {task[t].bundle}
          /\ Finish(t)
          /\ UNCHANGED <<file, files, minted, installed, runtime, custody, loaded, touched>>
       \/ Refuse(t)

-----------------------------------------------------------------------------
(* The environment.                                                        *)

\* The operator restores a file, puts another in its place, or removes it.  Only
\* the ceremony mints bundles of this installation.
ChangeFile ==
    /\ \/ file # None /\ file' = None /\ UNCHANGED files
       \/ /\ files < MaxId /\ files' = files + 1
          /\ \E c \in {b \in Bundle : b.binding = Expected => b.secret <= minted} \cup {None},
                safe \in BOOLEAN :
                file' = [id |-> files + 1, content |-> c, safe |-> safe,
                         data |-> TRUE, name |-> TRUE]
    /\ touched' = TRUE
    /\ UNCHANGED <<minted, installed, runtime, custody, task, released, loaded>>

\* The process ends and another one takes over, after the operator has cleared
\* the recovery latch if there was one.
Restart ==
    /\ runtime' = "open" /\ custody' = Fresh /\ loaded' = {}
    /\ task' = [t \in Thread |-> Idle]

Die ==
    /\ Restart
    /\ UNCHANGED <<file, files, minted, installed, released, touched>>

\* What fsync has not made durable may be lost, the name and the bytes apart.
PowerLoss ==
    /\ Restart
    /\ \/ file # None /\ ~file.name /\ file' = None
       \/ file # None /\ ~file.data /\ file' = [file EXCEPT !.content = None]
    /\ UNCHANGED <<files, minted, installed, released, touched>>

-----------------------------------------------------------------------------
Init ==
    /\ file = None /\ files = 0 /\ minted = 0
    /\ installed = None /\ runtime = "open"
    /\ custody = Fresh
    /\ task = [t \in Thread |-> Idle]
    /\ released = {} /\ loaded = {} /\ touched = FALSE

Provision(t) ==
    \/ Start(t, "provision") \/ StateIsEmpty(t) \/ CreateNew(t) \/ WritePayload(t)
    \/ SyncFile(t) \/ SyncDirectory(t) \/ InitializeInstallation(t)

Open(t) == Start(t, "open") \/ StateExists(t) \/ Status(t) \/ Load(t)

Next ==
    \/ \E t \in Thread : Provision(t) \/ Open(t) \/ Compose(t)
    \/ ChangeFile \/ Die \/ PowerLoss

Spec == Init /\ [][Next]_vars

-----------------------------------------------------------------------------
(* Properties.                                                             *)

TypeOK ==
    /\ file \in File \cup {None} /\ files \in 0..MaxId /\ minted \in 0..MaxMinted
    /\ installed \in Bundle \cup {None} /\ runtime \in {"open", "abandoned"}
    /\ custody \in [pin : Pin \cup {None}, latched : BOOLEAN]
    /\ \A t \in Thread :
          /\ task[t].step = "idle" => task[t] = Idle
          /\ task[t].step \in {"create", "write", "sync", "syncdir", "initialize", "verify"}
                => task[t].bundle \in Bundle
          /\ task[t].id \in 0..files
    /\ released \subseteq Bundle /\ loaded \subseteq Bundle /\ touched \in BOOLEAN

\* Authorities are released only when the file and the durable store agree, and
\* the store never comes to disagree with what was released: not when two
\* ceremonies race, an initialisation has an unknown outcome, or the operator
\* puts another valid file of the same binding in place (_compose).
ReleasedAgree == \A b \in released : installed = b

\* While the operator leaves the file alone, an installation that the durable
\* store has initialised finds its secrets in the file, whatever process died
\* and whenever power failed: custody is durable before the store commits, and
\* no ceremony replaces it (provision_custodied_auth, provision_empty).
CustodyFirst ==
    installed # None /\ ~touched => file # None /\ file.content = installed

\* One reader never returns two bundles: a source that changed between two loads,
\* even to another complete file, latches it (OwnerFileAuthCustody).
OneBundlePerReader == Cardinality(loaded) <= 1
=============================================================================
