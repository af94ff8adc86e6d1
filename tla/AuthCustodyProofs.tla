-------------------------- MODULE AuthCustodyProofs --------------------------
(***************************************************************************)
(* Proofs about the custody of the authentication secrets, for any number  *)
(* of threads, bindings, bundles and files.                                *)
(*                                                                         *)
(* The argument: while the operator leaves the file alone, at most one     *)
(* thread is between the creation of the file and the commit of the store, *)
(* and the file is the one it created (OneWriter).  What that thread has   *)
(* synchronised so far (WriterSynced) is all of the file when it commits.  *)
(***************************************************************************)
EXTENDS AuthCustody, FiniteSetTheorems, TLAPS

\* From the creation of the file to the commit of the store.
Writing == {"write", "sync", "syncdir", "initialize"}

Step == {"idle", "provision", "open", "create", "status", "load", "verify"} \cup Writing

TaskType == task \in [Thread -> [step : Step, bundle : Bundle \cup {None},
                                 id : 0..MaxId, exists : BOOLEAN]]

\* What TypeOK says of one task.
TaskOK(t) ==
    /\ task[t].step = "idle" => task[t] = Idle
    /\ task[t].step \in {"create", "write", "sync", "syncdir", "initialize", "verify"}
          => task[t].bundle \in Bundle
    /\ task[t].id \in 0..files

\* At most one thread writes, and to the file at the path.
OneWriter ==
    /\ \A t \in Thread : task[t].step \in Writing => Mine(t)
    /\ \A t, u \in Thread : task[t].step \in Writing /\ task[u].step \in Writing => t = u

\* What the writer has written and synchronised.
WriterSynced ==
    \A t \in Thread :
        /\ task[t].step \in {"sync", "syncdir", "initialize"} => file.content = task[t].bundle
        /\ task[t].step \in {"syncdir", "initialize"} => file.data = TRUE
        /\ task[t].step = "initialize" => file.name = TRUE

\* The secrets of an initialised installation cannot be lost, and nobody writes.
CustodyKept ==
    installed # None =>
        /\ file # None /\ file.content = installed
        /\ file.data = TRUE /\ file.name = TRUE
        /\ \A t \in Thread : task[t].step \notin Writing

\* What a reader has returned is what it has pinned.
LoadedPinned ==
    loaded \subseteq (IF custody.pin = None THEN {} ELSE {custody.pin.content})

Inv ==
    /\ TypeOK /\ TaskType
    /\ ReleasedAgree
    /\ ~touched => OneWriter /\ WriterSynced /\ CustodyKept
    /\ LoadedPinned

-----------------------------------------------------------------------------
(* Facts that several steps share.                                         *)

\* A file keeps its identity and content when it is synchronised.
LEMMA SyncedFile ==
    ASSUME NEW f \in File
    PROVE  /\ [f EXCEPT !.data = TRUE] \in File
           /\ [f EXCEPT !.data = TRUE].id = f.id
           /\ [f EXCEPT !.data = TRUE].content = f.content
           /\ [f EXCEPT !.data = TRUE].data = TRUE
           /\ [f EXCEPT !.data = TRUE].name = f.name
           /\ [f EXCEPT !.name = TRUE] \in File
           /\ [f EXCEPT !.name = TRUE].id = f.id
           /\ [f EXCEPT !.name = TRUE].content = f.content
           /\ [f EXCEPT !.name = TRUE].data = f.data
           /\ [f EXCEPT !.name = TRUE].name = TRUE
BY DEF File

\* The end of a call leaves every task of its type.
LEMMA FinishTypes ==
    ASSUME Inv, NEW t \in Thread, Finish(t), UNCHANGED files
    PROVE  TaskType' /\ \A u \in Thread : TaskOK(u)'
BY CustodyAssumption DEF Inv, TypeOK, TaskType, TaskOK, Step, Writing, Finish, Idle

\* So does going on to a step that needs no more than the task has.
LEMMA GotoTypes ==
    ASSUME Inv, NEW t \in Thread, NEW step \in Step \ {"idle"}, Goto(t, step),
           step \in {"create", "write", "sync", "syncdir", "initialize", "verify"}
              => task[t].bundle \in Bundle,
           UNCHANGED files
    PROVE  TaskType' /\ \A u \in Thread : TaskOK(u)'
BY DEF Inv, TypeOK, TaskType, TaskOK, Goto

\* What is read is a pin, and the file at the path.
LEMMA ReadTypes ==
    ASSUME Inv, NEW pin \in Read
    PROVE  pin \in Pin /\ pin.content \in Bundle /\ pin # None
<1>1. file \in File /\ file.content \in Bundle
  BY NoneAssumption DEF Inv, TypeOK, Read, File, Parses
<1>. QED
  BY <1>1, NoneAssumption DEF Read, File, Pin

\* The step changes nothing but the tasks and the reader.
Frame == UNCHANGED <<file, files, minted, installed, runtime, released, touched>>

\* A thread that leaves or never was in a writing step changes no fact about the
\* file.
LEMMA NoWriter ==
    ASSUME Inv, ~touched', UNCHANGED <<file, installed, touched>>, TaskType',
           \A u \in Thread : task'[u] = task[u] \/ task'[u].step \notin Writing
    PROVE  (OneWriter /\ WriterSynced /\ CustodyKept)'
BY DEF Inv, OneWriter, WriterSynced, CustodyKept, Mine, Writing

-----------------------------------------------------------------------------
(* One lemma per step of a thread.                                         *)

\* A call that ends without an effect, as every refusal does.
LEMMA RefuseKeepsInv ==
    ASSUME Inv, NEW t \in Thread, Refuse(t)
    PROVE  Inv'
<1>1. TypeOK' /\ TaskType'
  <2>1. TaskType'
    BY CustodyAssumption DEF Inv, TypeOK, TaskType, Step, Writing, Refuse,
       Finish, Idle
  <2>2. ASSUME NEW u \in Thread PROVE TaskOK(u)'
    BY CustodyAssumption DEF Inv, TypeOK, TaskOK, TaskType, Step, Writing,
       Refuse, Finish, Idle
  <2>3. file' \in File \cup {None} /\ files' \in 0..MaxId /\ minted' \in 0..MaxMinted
    BY CustodyAssumption DEF Inv, TypeOK, Refuse, Finish, Idle
  <2>4. installed' \in Bundle \cup {None} /\ runtime' \in {"open", "abandoned"}
    BY DEF Inv, TypeOK, Refuse, Finish, Idle
  <2>5. custody' \in [pin : Pin \cup {None}, latched : BOOLEAN]
    BY DEF Inv, TypeOK, Refuse, Finish, Idle
  <2>6. released' \subseteq Bundle /\ loaded' \subseteq Bundle /\ touched' \in BOOLEAN
    BY DEF Inv, TypeOK, Refuse, Finish, Idle
  <2>. QED
    BY <2>1, <2>2, <2>3, <2>4, <2>5, <2>6 DEF TypeOK, TaskOK
<1>2. ReleasedAgree' /\ LoadedPinned'
  BY DEF Inv, ReleasedAgree, LoadedPinned, Refuse, Finish, Idle
<1>3. ASSUME ~touched' PROVE (OneWriter /\ WriterSynced /\ CustodyKept)'
  BY <1>3 DEF Inv, TaskType, OneWriter, WriterSynced, CustodyKept, Mine,
     Writing, Refuse, Finish, Idle
<1>. QED
  BY <1>1, <1>2, <1>3 DEF Inv

\* A composition begins.
LEMMA StartKeepsInv ==
    ASSUME Inv, NEW t \in Thread, NEW step \in {"provision", "open"}, Start(t, step)
    PROVE  Inv'
<1>1. TypeOK' /\ TaskType'
  <2>1. TaskType'
    BY CustodyAssumption DEF Inv, TypeOK, TaskType, Step, Writing, Start,
       Goto, Idle
  <2>2. ASSUME NEW u \in Thread PROVE TaskOK(u)'
    BY CustodyAssumption DEF Inv, TypeOK, TaskOK, TaskType, Step, Writing,
       Start, Goto, Idle
  <2>3. file' \in File \cup {None} /\ files' \in 0..MaxId /\ minted' \in 0..MaxMinted
    BY CustodyAssumption DEF Inv, TypeOK, Start, Goto, Idle
  <2>4. installed' \in Bundle \cup {None} /\ runtime' \in {"open", "abandoned"}
    BY DEF Inv, TypeOK, Start, Goto, Idle
  <2>5. custody' \in [pin : Pin \cup {None}, latched : BOOLEAN]
    BY DEF Inv, TypeOK, Start, Goto, Idle
  <2>6. released' \subseteq Bundle /\ loaded' \subseteq Bundle /\ touched' \in BOOLEAN
    BY DEF Inv, TypeOK, Start, Goto, Idle
  <2>. QED
    BY <2>1, <2>2, <2>3, <2>4, <2>5, <2>6 DEF TypeOK, TaskOK
<1>2. ReleasedAgree' /\ LoadedPinned'
  BY DEF Inv, ReleasedAgree, LoadedPinned, Start, Goto, Idle
<1>3. ASSUME ~touched' PROVE (OneWriter /\ WriterSynced /\ CustodyKept)'
  BY <1>3 DEF Inv, TaskType, OneWriter, WriterSynced, CustodyKept, Mine,
     Writing, Start, Goto, Idle
<1>. QED
  BY <1>1, <1>2, <1>3 DEF Inv

\* provision_custodied_auth finds the store empty and mints a bundle.
LEMMA StateIsEmptyKeepsInv ==
    ASSUME Inv, NEW t \in Thread, StateIsEmpty(t)
    PROVE  Inv'
<1>. SUFFICES ASSUME ~Refuse(t) PROVE Inv'
  BY RefuseKeepsInv
<1>1. TypeOK' /\ TaskType'
  <2>1. TaskType'
    BY CustodyAssumption DEF Inv, TypeOK, TaskType, Step, Writing, Bundle,
       StateIsEmpty, At
  <2>2. ASSUME NEW u \in Thread PROVE TaskOK(u)'
    BY CustodyAssumption DEF Inv, TypeOK, TaskOK, TaskType, Step, Writing,
       Bundle, StateIsEmpty, At
  <2>3. file' \in File \cup {None} /\ files' \in 0..MaxId /\ minted' \in 0..MaxMinted
    BY CustodyAssumption DEF Inv, TypeOK, StateIsEmpty, At
  <2>4. installed' \in Bundle \cup {None} /\ runtime' \in {"open", "abandoned"}
    BY DEF Inv, TypeOK, StateIsEmpty, At
  <2>5. custody' \in [pin : Pin \cup {None}, latched : BOOLEAN]
    BY DEF Inv, TypeOK, StateIsEmpty, At
  <2>6. released' \subseteq Bundle /\ loaded' \subseteq Bundle /\ touched' \in BOOLEAN
    BY DEF Inv, TypeOK, StateIsEmpty, At
  <2>. QED
    BY <2>1, <2>2, <2>3, <2>4, <2>5, <2>6 DEF TypeOK, TaskOK
<1>2. ReleasedAgree' /\ LoadedPinned'
  BY DEF Inv, ReleasedAgree, LoadedPinned, StateIsEmpty, At
<1>3. ASSUME ~touched' PROVE (OneWriter /\ WriterSynced /\ CustodyKept)'
  BY <1>3 DEF Inv, TaskType, OneWriter, WriterSynced, CustodyKept, Mine,
     Writing, StateIsEmpty, At
<1>. QED
  BY <1>1, <1>2, <1>3 DEF Inv

\* open_custodied_auth asks whether the store is initialised.
LEMMA StateExistsKeepsInv ==
    ASSUME Inv, NEW t \in Thread, StateExists(t)
    PROVE  Inv'
<1>. SUFFICES ASSUME ~Refuse(t) PROVE Inv'
  BY RefuseKeepsInv
<1>1. TypeOK' /\ TaskType'
  <2>1. TaskType'
    BY CustodyAssumption DEF Inv, TypeOK, TaskType, Step, Writing,
       StateExists, At
  <2>2. ASSUME NEW u \in Thread PROVE TaskOK(u)'
    BY CustodyAssumption DEF Inv, TypeOK, TaskOK, TaskType, Step, Writing,
       StateExists, At
  <2>3. file' \in File \cup {None} /\ files' \in 0..MaxId /\ minted' \in 0..MaxMinted
    BY CustodyAssumption DEF Inv, TypeOK, StateExists, At
  <2>4. installed' \in Bundle \cup {None} /\ runtime' \in {"open", "abandoned"}
    BY DEF Inv, TypeOK, StateExists, At
  <2>5. custody' \in [pin : Pin \cup {None}, latched : BOOLEAN]
    BY DEF Inv, TypeOK, StateExists, At
  <2>6. released' \subseteq Bundle /\ loaded' \subseteq Bundle /\ touched' \in BOOLEAN
    BY DEF Inv, TypeOK, StateExists, At
  <2>. QED
    BY <2>1, <2>2, <2>3, <2>4, <2>5, <2>6 DEF TypeOK, TaskOK
<1>2. ReleasedAgree' /\ LoadedPinned'
  BY DEF Inv, ReleasedAgree, LoadedPinned, StateExists, At
<1>3. ASSUME ~touched' PROVE (OneWriter /\ WriterSynced /\ CustodyKept)'
  BY <1>3 DEF Inv, TaskType, OneWriter, WriterSynced, CustodyKept, Mine,
     Writing, StateExists, At
<1>. QED
  BY <1>1, <1>2, <1>3 DEF Inv

\* O_EXCL: while the operator stays away no other thread writes.
LEMMA CreateNewKeepsInv ==
    ASSUME Inv, NEW t \in Thread, CreateNew(t)
    PROVE  Inv'
<1>. SUFFICES ASSUME ~Refuse(t) PROVE Inv'
  BY RefuseKeepsInv
<1>. DEFINE new == [id |-> files + 1, content |-> None, safe |-> TRUE,
                    data |-> FALSE, name |-> FALSE]
<1>1. /\ At(t, "create") /\ file = None /\ files < MaxId
      /\ file' = new /\ files' = files + 1
      /\ task' = [task EXCEPT ![t].step = "write", ![t].id = files + 1]
      /\ UNCHANGED <<minted, installed, runtime, custody, released, loaded, touched>>
  BY DEF CreateNew
<1>2. files \in Nat /\ files + 1 \in 1..MaxId /\ files + 1 \in 0..MaxId
  BY <1>1, CustodyAssumption DEF Inv, TypeOK
<1>3. new \in File
  BY <1>2 DEF File
<1>4. TaskType'
  BY <1>1, <1>2 DEF Inv, TaskType, Step, Writing
<1>5. ASSUME NEW u \in Thread PROVE TaskOK(u)'
  BY <1>1, <1>2 DEF Inv, TypeOK, TaskType, TaskOK, At
<1>6. TypeOK'
  BY <1>1, <1>2, <1>3, <1>5 DEF Inv, TypeOK, TaskOK
<1>7. ReleasedAgree' /\ LoadedPinned'
  BY <1>1 DEF Inv, ReleasedAgree, LoadedPinned
<1>8. ASSUME ~touched' PROVE (OneWriter /\ WriterSynced /\ CustodyKept)'
  <2>1. \A u \in Thread : task[u].step \notin Writing
    BY <1>1, <1>8 DEF Inv, OneWriter, Mine
  <2>2. installed = None
    BY <1>1, <1>8 DEF Inv, CustodyKept
  <2>3. new # None
    BY <1>3, NoneAssumption
  <2>. QED
    BY <1>1, <2>1, <2>2, <2>3 DEF Inv, TaskType, OneWriter, WriterSynced, CustodyKept,
       Mine, Writing
<1>. QED
  BY <1>4, <1>6, <1>7, <1>8 DEF Inv

\* The descriptor writes to the file at the path.
LEMMA WritePayloadKeepsInv ==
    ASSUME Inv, NEW t \in Thread, WritePayload(t)
    PROVE  Inv'
<1>. SUFFICES ASSUME ~Refuse(t) PROVE Inv'
  BY RefuseKeepsInv
<1>1. TypeOK' /\ TaskType'
  <2>1. TaskType'
    BY CustodyAssumption DEF Inv, TypeOK, TaskType, Step, Writing,
       WritePayload, At, Goto, Mine
  <2>2. ASSUME NEW u \in Thread PROVE TaskOK(u)'
    BY CustodyAssumption DEF Inv, TypeOK, TaskOK, TaskType, Step, Writing,
       WritePayload, At, Goto, Mine
  <2>3. file' \in File \cup {None} /\ files' \in 0..MaxId /\ minted' \in 0..MaxMinted
    BY CustodyAssumption DEF Inv, TypeOK, File, TaskOK, WritePayload, At,
       Goto, Mine
  <2>4. installed' \in Bundle \cup {None} /\ runtime' \in {"open", "abandoned"}
    BY DEF Inv, TypeOK, WritePayload, At, Goto, Mine
  <2>5. custody' \in [pin : Pin \cup {None}, latched : BOOLEAN]
    BY DEF Inv, TypeOK, WritePayload, At, Goto, Mine
  <2>6. released' \subseteq Bundle /\ loaded' \subseteq Bundle /\ touched' \in BOOLEAN
    BY DEF Inv, TypeOK, WritePayload, At, Goto, Mine
  <2>. QED
    BY <2>1, <2>2, <2>3, <2>4, <2>5, <2>6 DEF TypeOK, TaskOK
<1>2. ReleasedAgree' /\ LoadedPinned'
  BY DEF Inv, ReleasedAgree, LoadedPinned, WritePayload, At, Goto, Mine
<1>3. ASSUME ~touched' PROVE (OneWriter /\ WriterSynced /\ CustodyKept)'
  BY <1>3, NoneAssumption DEF Inv, TaskType, OneWriter, WriterSynced,
     CustodyKept, Mine, Writing, TypeOK, File, WritePayload, At, Goto
<1>. QED
  BY <1>1, <1>2, <1>3 DEF Inv

\* fsync of the file.
LEMMA SyncFileKeepsInv ==
    ASSUME Inv, NEW t \in Thread, SyncFile(t)
    PROVE  Inv'
<1>. SUFFICES ASSUME ~Refuse(t) PROVE Inv'
  BY RefuseKeepsInv
<1>1. /\ At(t, "sync") /\ Goto(t, "syncdir")
      /\ file' = (IF Mine(t) THEN [file EXCEPT !.data = TRUE] ELSE file)
      /\ UNCHANGED <<files, minted, installed, runtime, custody, released, loaded, touched>>
  BY DEF SyncFile
<1>2. file' \in File \cup {None}
  BY <1>1, SyncedFile DEF Inv, TypeOK, Mine
<1>3. task[t].bundle \in Bundle
  BY <1>1 DEF Inv, TypeOK, At
<1>4. TaskType' /\ \A u \in Thread : TaskOK(u)'
  BY <1>1, <1>3, GotoTypes DEF Step, Writing
<1>5. TypeOK'
  BY <1>1, <1>2, <1>4 DEF Inv, TypeOK, TaskOK
<1>6. ReleasedAgree' /\ LoadedPinned'
  BY <1>1 DEF Inv, ReleasedAgree, LoadedPinned
<1>7. ASSUME ~touched' PROVE (OneWriter /\ WriterSynced /\ CustodyKept)'
  <2>1. /\ Mine(t) /\ file \in File /\ file # None
        /\ \A u \in Thread \ {t} : task[u].step \notin Writing
    BY <1>1, <1>7 DEF Inv, TypeOK, OneWriter, Mine, At, Writing
  <2>2. file' = [file EXCEPT !.data = TRUE]
    BY <1>1, <2>1
  <2>3. /\ file' \in File /\ file' # None /\ file'.id = file.id
        /\ file'.content = file.content /\ file'.data = TRUE
        /\ file'.name = file.name
    BY <2>1, <2>2, SyncedFile, NoneAssumption
  <2>4. /\ task'[t].step = "syncdir" /\ task'[t].id = task[t].id
        /\ task'[t].bundle = task[t].bundle
        /\ \A u \in Thread \ {t} : task'[u] = task[u]
    BY <1>1 DEF Inv, TaskType, Goto
  <2>5. OneWriter'
    BY <2>1, <2>3, <2>4 DEF OneWriter, Mine
  <2>6. WriterSynced'
    BY <1>1, <1>7, <2>1, <2>3, <2>4 DEF Inv, WriterSynced, At, Writing
  <2>7. CustodyKept'
    BY <1>1, <1>7 DEF Inv, CustodyKept, At, Writing
  <2>. QED
    BY <2>5, <2>6, <2>7
<1>. QED
  BY <1>4, <1>5, <1>6, <1>7 DEF Inv

\* fsync of the directory.
LEMMA SyncDirectoryKeepsInv ==
    ASSUME Inv, NEW t \in Thread, SyncDirectory(t)
    PROVE  Inv'
<1>. SUFFICES ASSUME ~Refuse(t) PROVE Inv'
  BY RefuseKeepsInv
<1>1. /\ At(t, "syncdir") /\ Goto(t, "initialize")
      /\ file' = (IF file = None THEN None ELSE [file EXCEPT !.name = TRUE])
      /\ UNCHANGED <<files, minted, installed, runtime, custody, released, loaded, touched>>
  BY DEF SyncDirectory
<1>2. file' \in File \cup {None}
  BY <1>1, SyncedFile DEF Inv, TypeOK, Mine
<1>3. task[t].bundle \in Bundle
  BY <1>1 DEF Inv, TypeOK, At
<1>4. TaskType' /\ \A u \in Thread : TaskOK(u)'
  BY <1>1, <1>3, GotoTypes DEF Step, Writing
<1>5. TypeOK'
  BY <1>1, <1>2, <1>4 DEF Inv, TypeOK, TaskOK
<1>6. ReleasedAgree' /\ LoadedPinned'
  BY <1>1 DEF Inv, ReleasedAgree, LoadedPinned
<1>7. ASSUME ~touched' PROVE (OneWriter /\ WriterSynced /\ CustodyKept)'
  <2>1. /\ Mine(t) /\ file \in File /\ file # None
        /\ \A u \in Thread \ {t} : task[u].step \notin Writing
    BY <1>1, <1>7 DEF Inv, TypeOK, OneWriter, Mine, At, Writing
  <2>2. file' = [file EXCEPT !.name = TRUE]
    BY <1>1, <2>1
  <2>3. /\ file' \in File /\ file' # None /\ file'.id = file.id
        /\ file'.content = file.content /\ file'.name = TRUE
        /\ file'.data = file.data
    BY <2>1, <2>2, SyncedFile, NoneAssumption
  <2>4. /\ task'[t].step = "initialize" /\ task'[t].id = task[t].id
        /\ task'[t].bundle = task[t].bundle
        /\ \A u \in Thread \ {t} : task'[u] = task[u]
    BY <1>1 DEF Inv, TaskType, Goto
  <2>5. OneWriter'
    BY <2>1, <2>3, <2>4 DEF OneWriter, Mine
  <2>6. WriterSynced'
    BY <1>1, <1>7, <2>1, <2>3, <2>4 DEF Inv, WriterSynced, At, Writing
  <2>7. CustodyKept'
    BY <1>1, <1>7 DEF Inv, CustodyKept, At, Writing
  <2>. QED
    BY <2>5, <2>6, <2>7
<1>. QED
  BY <1>4, <1>5, <1>6, <1>7 DEF Inv

\* The store commits, or the outcome is unknown; the file is durable by now.
LEMMA InitializeInstallationKeepsInv ==
    ASSUME Inv, NEW t \in Thread, InitializeInstallation(t)
    PROVE  Inv'
<1>. SUFFICES ASSUME ~Refuse(t) PROVE Inv'
  BY RefuseKeepsInv
<1>1. /\ At(t, "initialize") /\ installed = None
      /\ installed' \in {None, task[t].bundle}
      /\ Goto(t, "verify") \/ Finish(t)
      /\ runtime' \in {runtime, "abandoned"}
      /\ UNCHANGED <<file, files, minted, custody, released, loaded, touched>>
  BY DEF InitializeInstallation
<1>2. task[t].bundle \in Bundle
  BY <1>1 DEF Inv, TypeOK, At
<1>3. TaskType' /\ \A u \in Thread : TaskOK(u)'
  BY <1>1, <1>2, FinishTypes, GotoTypes DEF Step
<1>4. TypeOK'
  BY <1>1, <1>2, <1>3 DEF Inv, TypeOK, TaskOK
<1>5. released = {}
  BY <1>1, NoneAssumption DEF Inv, TypeOK, ReleasedAgree
<1>6. ReleasedAgree' /\ LoadedPinned'
  BY <1>1, <1>5 DEF Inv, ReleasedAgree, LoadedPinned
<1>7. ASSUME ~touched' PROVE (OneWriter /\ WriterSynced /\ CustodyKept)'
  <2>1. \A u \in Thread : IF u = t THEN task'[u].step \in {"verify", "idle"}
                                   ELSE task'[u] = task[u] /\ task[u].step \notin Writing
    BY <1>1, <1>7 DEF Inv, TaskType, OneWriter, At, Writing, Goto, Finish, Idle
  <2>2. \A u \in Thread : task'[u].step \notin Writing
    BY <2>1 DEF Writing
  <2>3. /\ file # None /\ file.content = task[t].bundle
        /\ file.data = TRUE /\ file.name = TRUE
    BY <1>1, <1>7 DEF Inv, OneWriter, WriterSynced, Mine, At, Writing
  <2>. QED
    BY <1>1, <2>2, <2>3 DEF OneWriter, WriterSynced, CustodyKept, Writing
<1>. QED
  BY <1>3, <1>4, <1>6, <1>7 DEF Inv

\* status pins the source or latches the reader.
LEMMA StatusKeepsInv ==
    ASSUME Inv, NEW t \in Thread, Status(t)
    PROVE  Inv'
<1>. SUFFICES ASSUME ~Refuse(t) PROVE Inv'
  BY RefuseKeepsInv
<1>1. /\ At(t, "status") /\ Frame /\ UNCHANGED loaded
      /\ Goto(t, "load") \/ Finish(t)
      /\ \/ \E pin \in Read : Access(pin)
         \/ custody' = [custody EXCEPT !.latched = TRUE]
  BY DEF Status, Latch, Frame
<1>2. TaskType' /\ \A u \in Thread : TaskOK(u)'
  BY <1>1, FinishTypes, GotoTypes DEF Step, Frame
<1>3. custody' \in [pin : Pin \cup {None}, latched : BOOLEAN] /\ LoadedPinned'
  <2>1. CASE custody' = [custody EXCEPT !.latched = TRUE]
    BY <1>1, <2>1 DEF Inv, TypeOK, LoadedPinned
  <2>2. CASE \E pin \in Read : Access(pin)
    BY <1>1, <2>2, ReadTypes DEF Inv, TypeOK, LoadedPinned, Access
  <2>. QED
    BY <1>1, <2>1, <2>2
<1>4. TypeOK' /\ ReleasedAgree'
  BY <1>1, <1>2, <1>3 DEF Inv, TypeOK, TaskOK, ReleasedAgree, Frame
<1>5. \A u \in Thread : task'[u] = task[u] \/ task'[u].step \notin Writing
  BY <1>1 DEF Inv, TaskType, Goto, Finish, Idle, Writing
<1>. QED
  BY <1>1, <1>2, <1>3, <1>4, <1>5, NoWriter DEF Inv, Frame

\* load returns what is pinned.
LEMMA LoadKeepsInv ==
    ASSUME Inv, NEW t \in Thread, Load(t)
    PROVE  Inv'
<1>. SUFFICES ASSUME ~Refuse(t) PROVE Inv'
  BY RefuseKeepsInv
<1>1. At(t, "load") /\ Frame
  BY DEF Load, Frame
<1>2. CASE Latch(t) /\ UNCHANGED loaded
  <2>1. TaskType' /\ \A u \in Thread : TaskOK(u)'
    BY <1>1, <1>2, FinishTypes DEF Latch, Frame
  <2>2. custody' \in [pin : Pin \cup {None}, latched : BOOLEAN] /\ LoadedPinned'
    BY <1>2 DEF Inv, TypeOK, LoadedPinned, Latch
  <2>3. TypeOK' /\ ReleasedAgree'
    BY <1>1, <1>2, <2>1, <2>2 DEF Inv, TypeOK, TaskOK, ReleasedAgree, Frame
  <2>4. \A u \in Thread : task'[u] = task[u] \/ task'[u].step \notin Writing
    BY <1>2 DEF Inv, TaskType, Latch, Finish, Idle, Writing
  <2>. QED
    BY <1>1, <2>1, <2>2, <2>3, <2>4, NoWriter DEF Inv, Frame
<1>3. ASSUME NEW pin \in Read, Access(pin), loaded' = loaded \cup {pin.content},
             task' = [task EXCEPT ![t].step = "verify", ![t].bundle = pin.content]
      PROVE  Inv'
  <2>1. pin \in Pin /\ pin.content \in Bundle /\ pin # None
    BY ReadTypes
  <2>2. TaskType' /\ \A u \in Thread : TaskOK(u)'
    BY <1>1, <1>3, <2>1 DEF Inv, TypeOK, TaskType, TaskOK, Step, Frame
  <2>3. custody' \in [pin : Pin \cup {None}, latched : BOOLEAN] /\ LoadedPinned'
    BY <1>3, <2>1 DEF Inv, TypeOK, LoadedPinned, Access
  <2>4. TypeOK' /\ ReleasedAgree'
    BY <1>1, <1>3, <2>1, <2>2, <2>3 DEF Inv, TypeOK, TaskOK, ReleasedAgree, Frame
  <2>5. \A u \in Thread : task'[u] = task[u] \/ task'[u].step \notin Writing
    BY <1>3 DEF Inv, TaskType, Writing
  <2>. QED
    BY <1>1, <2>2, <2>3, <2>4, <2>5, NoWriter DEF Inv, Frame
<1>. QED
  BY <1>2, <1>3 DEF Load

\* _compose releases what the store agrees with.
LEMMA ComposeKeepsInv ==
    ASSUME Inv, NEW t \in Thread, Compose(t)
    PROVE  Inv'
<1>. SUFFICES ASSUME ~Refuse(t) PROVE Inv'
  BY RefuseKeepsInv
<1>1. /\ At(t, "verify") /\ installed = task[t].bundle /\ Finish(t)
      /\ released' = released \cup {task[t].bundle}
      /\ UNCHANGED <<file, files, minted, installed, runtime, custody, loaded, touched>>
  BY DEF Compose
<1>2. TaskType' /\ \A u \in Thread : TaskOK(u)'
  BY <1>1, FinishTypes
<1>3. TypeOK' /\ ReleasedAgree' /\ LoadedPinned'
  BY <1>1, <1>2 DEF Inv, TypeOK, TaskOK, ReleasedAgree, LoadedPinned, At
<1>4. \A u \in Thread : task'[u] = task[u] \/ task'[u].step \notin Writing
  BY <1>1 DEF Inv, TaskType, Finish, Idle, Writing
<1>. QED
  BY <1>1, <1>2, <1>3, <1>4, NoWriter DEF Inv

-----------------------------------------------------------------------------
(* The environment, and the theorems.                                      *)

\* A process that starts has nothing under way and nothing loaded.
LEMMA RestartTypes ==
    ASSUME Inv, Restart, UNCHANGED files
    PROVE  /\ TaskType' /\ \A u \in Thread : task'[u] = Idle /\ TaskOK(u)'
           /\ custody' \in [pin : Pin \cup {None}, latched : BOOLEAN]
           /\ LoadedPinned' /\ loaded' = {} /\ runtime' = "open"
<1>1. task' = [u \in Thread |-> Idle] /\ files' \in 0..MaxId
  BY DEF Restart, Inv, TypeOK
<1>2. TaskType'
  BY <1>1, CustodyAssumption DEF TaskType, Step, Idle
<1>3. \A u \in Thread : task'[u] = Idle /\ TaskOK(u)'
  BY <1>1, CustodyAssumption DEF TaskOK, Idle
<1>. QED
  BY <1>2, <1>3 DEF Restart, Fresh, LoadedPinned

\* What the operator does to the files keeps the invariant.
LEMMA EnvironmentKeepsInv ==
    ASSUME Inv, ChangeFile \/ Die \/ PowerLoss
    PROVE  Inv'
<1>1. CASE ChangeFile
  <2>1. files' \in 0..MaxId /\ file' \in File \cup {None} /\ files' >= files
    <3>1. CASE file' = None /\ UNCHANGED files
      BY <3>1, CustodyAssumption DEF Inv, TypeOK
    <3>2. ASSUME files < MaxId, files' = files + 1,
                 NEW c \in Bundle \cup {None}, NEW safe \in BOOLEAN,
                 file' = [id |-> files + 1, content |-> c, safe |-> safe,
                          data |-> TRUE, name |-> TRUE]
          PROVE  files' \in 0..MaxId /\ file' \in File /\ files' >= files
      <4>1. files \in Nat /\ files + 1 \in 1..MaxId
        BY <3>2, CustodyAssumption DEF Inv, TypeOK
      <4>. QED
        BY <3>2, <4>1, CustodyAssumption DEF File
    <3>. QED
      BY <1>1, <3>1, <3>2 DEF ChangeFile
  <2>2. \A u \in Thread : TaskOK(u)'
    BY <1>1, <2>1, CustodyAssumption DEF Inv, TypeOK, TaskOK, ChangeFile
  <2>3. TypeOK' /\ TaskType' /\ ReleasedAgree' /\ LoadedPinned' /\ touched'
    BY <1>1, <2>1, <2>2 DEF Inv, TypeOK, TaskOK, TaskType, ReleasedAgree, LoadedPinned,
       ChangeFile
  <2>. QED
    BY <2>3 DEF Inv
<1>2. CASE Die
  <2>1. TypeOK' /\ TaskType' /\ ReleasedAgree' /\ LoadedPinned'
    BY <1>2, RestartTypes DEF Inv, TypeOK, TaskOK, ReleasedAgree, Die
  <2>2. \A u \in Thread : task'[u].step \notin Writing
    BY <1>2, RestartTypes DEF Die, Idle, Writing
  <2>. QED
    BY <1>2, <2>1, <2>2, NoWriter DEF Inv, Die
<1>3. CASE PowerLoss
  <2>1. file' \in File \cup {None}
    <3>1. CASE file' = None
      BY <3>1
    <3>2. CASE file # None /\ file' = [file EXCEPT !.content = None]
      BY <3>2 DEF Inv, TypeOK, File
    <3>. QED
      BY <1>3, <3>1, <3>2 DEF PowerLoss
  <2>2. TypeOK' /\ TaskType' /\ ReleasedAgree' /\ LoadedPinned'
    BY <1>3, <2>1, RestartTypes DEF Inv, TypeOK, TaskOK, ReleasedAgree, PowerLoss
  <2>3. \A u \in Thread : task'[u].step \notin Writing
    BY <1>3, RestartTypes DEF PowerLoss, Idle, Writing
  <2>4. ASSUME ~touched' PROVE (OneWriter /\ WriterSynced /\ CustodyKept)'
    <3>1. installed = None
      BY <1>3, <2>4 DEF Inv, CustodyKept, PowerLoss
    <3>. QED
      BY <1>3, <2>3, <3>1 DEF OneWriter, WriterSynced, CustodyKept, PowerLoss, Writing
  <2>. QED
    BY <2>2, <2>4 DEF Inv
<1>. QED
  BY <1>1, <1>2, <1>3

\* The invariant holds before any set-up.
LEMMA InitEstablishesInv == Init => Inv
<1>. SUFFICES ASSUME Init PROVE Inv
  OBVIOUS
<1>1. TaskType /\ \A t \in Thread : TaskOK(t) /\ task[t].step \notin Writing
  BY CustodyAssumption DEF Init, TaskType, TaskOK, Step, Writing, Idle
<1>2. custody \in [pin : Pin \cup {None}, latched : BOOLEAN] /\ touched \in BOOLEAN
  BY DEF Init, Fresh
<1>3. TypeOK
  BY <1>1, <1>2, CustodyAssumption DEF Init, TypeOK, TaskOK
<1>. QED
  BY <1>1, <1>3 DEF Init, Inv, ReleasedAgree, OneWriter, WriterSynced, CustodyKept,
     LoadedPinned, Fresh, Writing

\* Every step keeps the invariant.
LEMMA NextKeepsInv == Inv /\ [Next]_vars => Inv'
<1>. SUFFICES ASSUME Inv, [Next]_vars PROVE Inv'
  OBVIOUS
<1>1. ASSUME NEW t \in Thread, Provision(t) PROVE Inv'
  BY <1>1, StartKeepsInv, StateIsEmptyKeepsInv, CreateNewKeepsInv, WritePayloadKeepsInv,
     SyncFileKeepsInv, SyncDirectoryKeepsInv, InitializeInstallationKeepsInv DEF Provision
<1>2. ASSUME NEW t \in Thread, Open(t) PROVE Inv'
  BY <1>2, StartKeepsInv, StateExistsKeepsInv, StatusKeepsInv, LoadKeepsInv DEF Open
<1>3. CASE UNCHANGED vars
  BY <1>3 DEF vars, Inv, TypeOK, TaskType, ReleasedAgree, OneWriter, WriterSynced,
     CustodyKept, LoadedPinned, Mine
<1>. QED
  BY <1>1, <1>2, <1>3, ComposeKeepsInv, EnvironmentKeepsInv DEF Next

\* The inductive invariant holds in every state that ceremonies, openings, the
\* operator, deaths and losses of power reach.
THEOREM Invariance == Spec => []Inv
BY InitEstablishesInv, NextKeepsInv, PTL DEF Spec

\* A composition is returned only for the bundle the durable store holds, and the
\* store never comes to hold another (_compose, provision_custodied_auth).
THEOREM ReleasedTheorem == Spec => []ReleasedAgree
<1>1. Inv => ReleasedAgree
  BY DEF Inv
<1>. QED
  BY <1>1, Invariance, PTL

\* While the operator leaves the file alone, the secrets of an initialised
\* installation are in it, through deaths and losses of power (provision_empty).
THEOREM CustodyTheorem == Spec => []CustodyFirst
<1>1. Inv => CustodyFirst
  BY DEF Inv, CustodyFirst, CustodyKept
<1>. QED
  BY <1>1, Invariance, PTL

\* One OwnerFileAuthCustody never returns two bundles.
THEOREM ReaderTheorem == Spec => []OneBundlePerReader
<1>1. ASSUME Inv PROVE OneBundlePerReader
  <2>1. PICK b : loaded \in SUBSET {b}
    BY <1>1 DEF Inv, LoadedPinned
  <2>2. Cardinality(loaded) <= Cardinality({b}) /\ Cardinality({b}) = 1
    BY <2>1, FS_Singleton, FS_Subset
  <2>3. Cardinality(loaded) \in Nat
    BY <2>1, FS_Singleton, FS_Subset, FS_CardinalityType
  <2>. QED
    BY <2>2, <2>3 DEF OneBundlePerReader
<1>. QED
  BY <1>1, Invariance, PTL
=============================================================================
