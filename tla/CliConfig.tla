------------------------------- MODULE CliConfig --------------------------------
(***************************************************************************)
(* CLI configuration: how the app takes over the configuration file of one *)
(* CLI agent, keeps the user's original in a backup, and restores it.      *)
(*                                                                         *)
(* A file is what the user wrote in it (base) and the gateway settings put *)
(* into it (patch); its hash is the file.  The commands run one at a time  *)
(* on the main thread.  Each write or removal on disk is a step: the app   *)
(* may crash between two, the write may fail, before or after the rename   *)
(* that makes it visible.  The user edits the files with other programs.   *)
(* Permission bits and the swap file of Windows are left out.              *)
(***************************************************************************)
CONSTANTS
    Paths,          \* the places the agent may keep its file
    Texts,          \* what a user may write
    Malformed,      \* texts that do not parse
    Gens,           \* gateway url, token and models of a request
    Missing,        \* no file
    Empty,          \* the base of a file the app created
    NoGen,          \* no gateway settings
    NoRecord,       \* no ownership record
    Troubles        \* what may go wrong: a write or removal fails, the app
                    \* crashes, the user edits a file while a command runs

ASSUME CliAssumption ==
    /\ Malformed \subseteq Texts
    /\ Empty \notin Texts
    /\ NoGen \notin Gens
    /\ Troubles \subseteq {"fail", "crash", "race"}
    /\ Missing \notin [base : Texts \cup {Empty}, patch : Gens \cup {NoGen}]
    /\ NoRecord \notin
         [path     : Paths,
          app      : [base : Texts \cup {Empty}, patch : Gens],
          original : [base : Texts \cup {Empty}, patch : Gens \cup {NoGen}] \cup {Missing}]

Files    == [base : Texts \cup {Empty}, patch : Gens \cup {NoGen}]
Optional == Files \cup {Missing}

\* OwnershipRecord; original_existed is original # Missing.
Records == [path : Paths, app : [base : Texts \cup {Empty}, patch : Gens],
            original : Optional]

VARIABLES
    file,       \* the agent's files
    backup,     \* backup.bin
    record,     \* record.json
    location,   \* where the agent looks today
    pc, job,    \* the command under way, and what it has read
    writer,     \* who wrote each file: history
    work,       \* the text the user has in each file: history
    owned,      \* the user's file when the app took it over: history
    trouble     \* what has gone wrong so far: history

disk    == <<file, backup, record>>
history == <<writer, work, owned>>
calm    == <<location, trouble>>
vars    == <<disk, pc, job, history, calm>>

NoText == Missing

UserFile(t) == [base |-> t, patch |-> NoGen]

\* No command is under way.
NoJob == [path |-> CHOOSE p \in Paths : TRUE, adopt |-> FALSE,
          current |-> Missing, app |-> Missing, original |-> Missing]

Init ==
    /\ work \in [Paths -> Texts \cup {NoText}]
    /\ file = [p \in Paths |-> IF work[p] = NoText THEN Missing ELSE UserFile(work[p])]
    /\ backup = Missing
    /\ record = NoRecord
    /\ location \in Paths
    /\ pc = "idle"
    /\ job = NoJob
    /\ writer = [p \in Paths |-> "user"]
    /\ owned = Missing
    /\ trouble = {}

-----------------------------------------------------------------------------
(* The user, and the agent.                                                *)

MayEdit ==
    \/ pc = "idle" /\ UNCHANGED trouble
    \/ pc # "idle" /\ "race" \in Troubles /\ trouble' = trouble \cup {"race"}

\* The user saves a text, over the gateway settings or beside them.
UserWrites(p, t) ==
    /\ MayEdit
    /\ \E keep \in IF file[p] = Missing THEN {FALSE} ELSE BOOLEAN :
         file' = [file EXCEPT ![p] =
                    [base |-> t, patch |-> IF keep THEN file[p].patch ELSE NoGen]]
    /\ writer' = [writer EXCEPT ![p] = "user"]
    /\ work' = [work EXCEPT ![p] = t]
    /\ UNCHANGED <<backup, record, location, pc, job, owned>>

UserDeletes(p) ==
    /\ MayEdit
    /\ file[p] # Missing
    /\ file' = [file EXCEPT ![p] = Missing]
    /\ writer' = [writer EXCEPT ![p] = "user"]
    /\ work' = [work EXCEPT ![p] = NoText]
    /\ UNCHANGED <<backup, record, location, pc, job, owned>>

\* target_path: omo keeps its file below agent/ once that directory exists.  It
\* is only looked at when configure begins, so a move during a command is one
\* after it.
AgentMoves ==
    /\ pc = "idle"
    /\ location' \in Paths
    /\ UNCHANGED <<disk, pc, job, history, trouble>>

-----------------------------------------------------------------------------
(* configure.                                                              *)

\* Mutant: the path is resolved afresh, whatever the record says.
ManagedTarget_Fresh == location

\* managed_target: a record pins the path that was written.
ManagedTarget == IF record = NoRecord THEN location ELSE record.path

\* A file that is there and is not what the app wrote.
HoldsUserEdit(current) ==
    record # NoRecord /\ current # Missing /\ current # record.app

Generate(current, g) ==
    [base |-> IF current = Missing THEN Empty ELSE current.base, patch |-> g]

\* Mutant: a file written again takes the app's own output for the original.
OriginalBytes_Current(current) == current

\* The file restore will put back.
OriginalBytes(current) ==
    IF record = NoRecord \/ HoldsUserEdit(current) THEN current
    ELSE IF record.original = Missing THEN Missing ELSE backup

\* configure reads the record and the file, and generates; a conflict, a
\* malformed file and a missing backup end it here.
Configure(g, adopt) ==
    LET current == file[ManagedTarget] IN
    /\ pc = "idle"
    /\ HoldsUserEdit(current) => adopt
    /\ current # Missing => current.base \notin Malformed
    /\ record # NoRecord /\ ~HoldsUserEdit(current) /\ record.original # Missing
         => backup # Missing
    /\ job' = [path |-> ManagedTarget, adopt |-> HoldsUserEdit(current), current |-> current,
               app |-> Generate(current, g), original |-> OriginalBytes(current)]
    /\ pc' = IF OriginalBytes(current) = Missing THEN "target" ELSE "backup"
    /\ UNCHANGED <<disk, calm, history>>

Ends == pc' = "idle" /\ job' = NoJob

\* A fault; it may cut an adoption short.
Fault ==
    trouble' = trouble \cup {"fault"} \cup IF job.adopt THEN {"adoption"} ELSE {}

\* A write or a removal fails.
Fails == "fail" \in Troubles /\ Fault

WriteBackup ==
    /\ pc = "backup"
    /\ backup' = job.original
    /\ pc' = "target" /\ UNCHANGED job
    /\ UNCHANGED <<file, record, calm, history>>

\* atomic_write fails, before or after its rename.
WriteBackupFails ==
    /\ Fails
    /\ pc = "backup"
    /\ backup' \in {backup, job.original}
    /\ Ends
    /\ UNCHANGED <<file, record, location, history>>

\* The app's bytes appear in the file.
TakesOver ==
    /\ file' = [file EXCEPT ![job.path] = job.app]
    /\ writer' = [writer EXCEPT ![job.path] = "app"]
    /\ owned' = IF writer[job.path] = "user" /\ job.original = job.current
                  THEN job.current ELSE owned
    /\ UNCHANGED work

WriteTarget ==
    /\ pc = "target"
    /\ TakesOver
    /\ pc' = "record" /\ UNCHANGED job
    /\ UNCHANGED <<backup, record, calm>>

WriteTargetFails ==
    /\ Fails
    /\ pc = "target"
    /\ TakesOver \/ UNCHANGED <<file, history>>
    /\ Ends
    /\ UNCHANGED <<backup, record, location>>

\* Mutant: the record describes the file that was read.
JobRecord_Read == [path |-> job.path, app |-> job.current, original |-> job.original]

JobRecord == [path |-> job.path, app |-> job.app, original |-> job.original]

WriteRecord ==
    /\ pc = "record"
    /\ record' = JobRecord
    /\ Ends
    /\ UNCHANGED <<file, backup, calm, history>>

WriteRecordFails ==
    /\ Fails
    /\ pc = "record"
    /\ record' \in {record, JobRecord}
    /\ pc' = "rollback" /\ UNCHANGED job
    /\ UNCHANGED <<file, backup, location, history>>

\* The file becomes f; the user's text in it is whatever it was.
Puts(f, who) ==
    /\ file' = [file EXCEPT ![job.path] = f]
    /\ writer' = [writer EXCEPT ![job.path] = who]
    /\ UNCHANGED <<work, owned>>

\* Mutant: the file is taken for the app's own, and removed.
Rollback_Removes ==
    /\ pc = "rollback"
    /\ Puts(Missing, "user")
    /\ Ends
    /\ UNCHANGED <<backup, record, calm>>

\* rollback_target, whose own failure is ignored.
Rollback ==
    /\ pc = "rollback"
    /\ \/ Puts(job.original, "user") /\ UNCHANGED trouble
       \/ Fails /\ UNCHANGED <<file, history>>
    /\ Ends
    /\ UNCHANGED <<backup, record, location>>

-----------------------------------------------------------------------------
(* restore.                                                                *)

\* restore reads the record, the file and the backup; a user's edit and a
\* backup that is not the recorded original end it here.
Restore ==
    /\ pc = "idle"
    /\ record # NoRecord
    /\ LET current == file[record.path] IN
         /\ ~HoldsUserEdit(current)
         /\ record.original # Missing => backup = record.original
         /\ job' = [path |-> record.path, adopt |-> FALSE, current |-> current,
                    app |-> record.app, original |-> record.original]
    /\ pc' = "put"
    /\ UNCHANGED <<disk, calm, history>>

\* Mutant: the backup is moved into place.
PutOriginal_Moves ==
    /\ pc = "put"
    /\ Puts(job.original, "user")
    /\ backup' = Missing
    /\ pc' = "drop" /\ UNCHANGED job
    /\ UNCHANGED <<record, calm>>

PutOriginal ==
    /\ pc = "put"
    /\ Puts(job.original, "user")
    /\ pc' = "drop" /\ UNCHANGED job
    /\ UNCHANGED <<backup, record, calm>>

PutOriginalFails ==
    /\ Fails
    /\ pc = "put"
    /\ \/ UNCHANGED <<file, history>>
       \/ job.original # Missing /\ Puts(job.original, "user")
    /\ Ends
    /\ UNCHANGED <<backup, record, location>>

DropRecord ==
    /\ pc = "drop"
    /\ record' = NoRecord
    /\ pc' = "clean" /\ UNCHANGED job
    /\ UNCHANGED <<file, backup, calm, history>>

DropRecordFails ==
    /\ Fails
    /\ pc = "drop"
    /\ IF job.current = Missing THEN Ends ELSE pc' = "undo" /\ UNCHANGED job
    /\ UNCHANGED <<disk, location, history>>

\* rollback_target to the app's bytes.
UndoPut ==
    /\ pc = "undo"
    /\ \/ Puts(job.current, "app") /\ UNCHANGED trouble
       \/ Fails /\ UNCHANGED <<file, history>>
    /\ Ends
    /\ UNCHANGED <<backup, record, location>>

\* The backup is removed; a failure is ignored.
DropBackup ==
    /\ pc = "clean"
    /\ \/ /\ backup' = IF job.original # Missing THEN Missing ELSE backup
          /\ UNCHANGED trouble
       \/ Fails /\ UNCHANGED backup
    /\ Ends
    /\ UNCHANGED <<file, record, location, history>>

-----------------------------------------------------------------------------

Crash ==
    /\ "crash" \in Troubles
    /\ pc # "idle"
    /\ Fault
    /\ Ends
    /\ UNCHANGED <<disk, location, history>>

UserStep ==
    \/ \E p \in Paths : UserDeletes(p) \/ \E t \in Texts : UserWrites(p, t)
    \/ AgentMoves

ConfigureStep ==
    \/ \E g \in Gens, adopt \in BOOLEAN : Configure(g, adopt)
    \/ WriteBackup \/ WriteBackupFails
    \/ WriteTarget \/ WriteTargetFails
    \/ WriteRecord \/ WriteRecordFails \/ Rollback

RestoreStep ==
    \/ Restore
    \/ PutOriginal \/ PutOriginalFails
    \/ DropRecord \/ DropRecordFails \/ UndoPut \/ DropBackup

Next == UserStep \/ ConfigureStep \/ RestoreStep \/ Crash

Spec == Init /\ [][Next]_vars

-----------------------------------------------------------------------------
(* Properties.                                                             *)

Pcs == {"idle", "backup", "target", "record", "rollback", "put", "drop", "undo", "clean"}

\* Every variable keeps its type.
TypeOK ==
    /\ file \in [Paths -> Optional]
    /\ backup \in Optional
    /\ record \in Records \cup {NoRecord}
    /\ location \in Paths
    /\ pc \in Pcs
    /\ job \in [path : Paths, adopt : BOOLEAN,
               current : Optional, app : Optional, original : Optional]
    /\ writer \in [Paths -> {"user", "app"}]
    /\ work \in [Paths -> Texts \cup {NoText}]
    /\ owned \in Optional
    /\ trouble \subseteq {"fault", "adoption", "race"}

\* No adoption was cut short, whose backup a later configure takes on trust, and
\* the user wrote under no running command.
Sheltered == trouble \cap {"adoption", "race"} = {}

\* What the user last wrote in a file is in it.
TextKept ==
    \A p \in Paths : work[p] # NoText => file[p] # Missing /\ file[p].base = work[p]

\* CONTRACTS.md: "Writes ... preserve unrelated settings", "Conflicts don't
\* overwrite user edits".  What the user last wrote in a file is still there,
\* through every failed write, rollback and crash.
UserSettingsKept == Sheltered => TextKept

Restored == pc = "put" /\ pc' = "drop"

\* However often the file was configured, adopted, deleted and rewritten,
\* restore puts back the user's file of the moment the app took it over.
RestorePutsBack == [][Restored /\ trouble = {} => file'[job.path] = owned]_vars

\* A file the app wrote has a record, so restore can find it: an agent that
\* moves its configuration does not strand the file.
NoStrandedFile ==
    pc = "idle" /\ trouble = {} => \A p \in Paths :
        writer[p] = "app" => record # NoRecord /\ record.path = p

\* A record that names an original has a backup to go with it, after any
\* fault: neither configure nor restore is ever refused for want of it.
BackupOutlivesRecord ==
    record # NoRecord /\ record.original # Missing => backup # Missing
=============================================================================
