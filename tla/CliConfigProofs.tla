---------------------------- MODULE CliConfigProofs ----------------------------
(***************************************************************************)
(* Proofs about CliConfig, for any paths, texts and gateway settings.      *)
(***************************************************************************)
EXTENDS CliConfig, TLAPS

-----------------------------------------------------------------------------
(* The backup outlives the record, whatever fails.                         *)

\* What the command under way will rely on is in the backup.
BackupInv ==
    /\ BackupOutlivesRecord
    /\ pc = "backup" => job.original # Missing
    /\ pc \in {"target", "record"} /\ job.original # Missing => backup # Missing
    /\ pc = "clean" => record = NoRecord

\* Every step keeps the backup of the recorded original.
LEMMA BackupNext ==
  BackupInv /\ [Next]_vars => BackupInv'
<1> SUFFICES ASSUME BackupInv, [Next]_vars PROVE BackupInv'
  OBVIOUS
<1> USE CliAssumption DEF BackupInv, BackupOutlivesRecord, disk, history, calm, Ends
<1>1. CASE UserStep
  <2>1. UNCHANGED <<backup, record, pc, job>>
    BY <1>1 DEF UserStep, UserDeletes, UserWrites, AgentMoves
  <2> QED
    BY <2>1
<1>2. ASSUME NEW g \in Gens, NEW adopt \in BOOLEAN, Configure(g, adopt)
      PROVE  BackupInv'
  <2> DEFINE cur == file[ManagedTarget]
             org == OriginalBytes(cur)
  <2>1. /\ job'.original = org
        /\ pc' = IF org = Missing THEN "target" ELSE "backup"
        /\ UNCHANGED <<record, backup>>
    BY <1>2 DEF Configure
  <2> HIDE DEF org
  <2> QED
    BY <2>1
<1>3. CASE WriteBackup \/ WriteBackupFails
  BY <1>3 DEF WriteBackup, WriteBackupFails
<1>4. CASE WriteTarget \/ WriteTargetFails
  BY <1>4 DEF WriteTarget, WriteTargetFails
<1>5. CASE WriteRecord \/ WriteRecordFails
  <2>1. /\ pc = "record" /\ record' \in {record, JobRecord} /\ UNCHANGED backup
        /\ pc' = "idle" \/ (pc' = "rollback" /\ UNCHANGED job)
    BY <1>5 DEF WriteRecord, WriteRecordFails
  <2>2. JobRecord.original = job.original
    BY DEF JobRecord
  <2> QED
    BY <2>1, <2>2
<1>6. CASE Rollback
  BY <1>6 DEF Rollback
<1>7. CASE RestoreStep
  BY <1>7 DEF RestoreStep, Restore, PutOriginal, PutOriginalFails, DropRecord,
     DropRecordFails, UndoPut, DropBackup
<1>8. CASE Crash \/ UNCHANGED vars
  BY <1>8 DEF Crash, vars
<1> QED
  BY <1>1, <1>2, <1>3, <1>4, <1>5, <1>6, <1>7, <1>8 DEF Next, ConfigureStep

\* A record that names an original has a backup, after any crash or failure.
THEOREM BackupSurvives == Spec => []BackupOutlivesRecord
<1>1. Init => BackupInv
  BY DEF Init, BackupInv, BackupOutlivesRecord
<1>2. BackupInv => BackupOutlivesRecord
  BY DEF BackupInv
<1> QED
  BY <1>1, <1>2, BackupNext, PTL DEF Spec

-----------------------------------------------------------------------------
(* Types.                                                                  *)

AppFiles == [base : Texts \cup {Empty}, patch : Gens]
Jobs     == [path : Paths, adopt : BOOLEAN,
             current : Optional, app : Optional, original : Optional]

Configuring == {"backup", "target", "record", "rollback"}
Restoring   == {"put", "drop", "undo"}

\* What configure writes carries gateway settings.
TypeInv ==
    /\ TypeOK
    /\ pc \in Configuring => job.app \in AppFiles

LEMMA NoJobType == Paths # {} => NoJob \in Jobs
  BY DEF NoJob, Jobs, Optional

LEMMA GenerateType ==
  ASSUME NEW g \in Gens, NEW f \in Optional
  PROVE  Generate(f, g) \in AppFiles
  BY DEF Generate, AppFiles, Optional, Files

LEMMA AppFilesOptional == AppFiles \subseteq Optional
  BY DEF AppFiles, Optional, Files

LEMMA TypeUser == TypeInv /\ UserStep => TypeInv'
<1> SUFFICES ASSUME TypeInv, UserStep PROVE TypeInv'
  OBVIOUS
<1> USE CliAssumption DEF TypeInv, TypeOK, disk, history, MayEdit
<1>1. ASSUME NEW p \in Paths, UserDeletes(p) PROVE TypeInv'
  <2>1. Missing \in Optional /\ NoText \in Texts \cup {NoText}
    BY DEF Optional
  <2> QED
    BY <1>1, <2>1 DEF UserDeletes
<1>2. ASSUME NEW p \in Paths, NEW t \in Texts, UserWrites(p, t) PROVE TypeInv'
  <2>1. PICK f \in Files : file' = [file EXCEPT ![p] = f]
    <3>1. PICK keep \in IF file[p] = Missing THEN {FALSE} ELSE BOOLEAN :
             file' = [file EXCEPT ![p] =
                        [base |-> t, patch |-> IF keep THEN file[p].patch ELSE NoGen]]
      BY <1>2 DEF UserWrites
    <3>2. keep => file[p] \in Files
      BY <3>1 DEF Optional
    <3> QED
      BY <3>1, <3>2 DEF Files
  <2>2. f \in Optional
    BY DEF Optional
  <2> QED
    BY <1>2, <2>1, <2>2 DEF UserWrites
<1>3. CASE AgentMoves
  BY <1>3 DEF AgentMoves
<1> QED
  BY <1>1, <1>2, <1>3 DEF UserStep

LEMMA TypeConfigure ==
  ASSUME TypeInv, NEW g \in Gens, NEW adopt \in BOOLEAN, Configure(g, adopt)
  PROVE  TypeInv'
<1> DEFINE path == ManagedTarget
           cur == file[path]
           app == Generate(cur, g)
           org == OriginalBytes(cur)
           edit == HoldsUserEdit(cur)
<1>1. /\ job' = [path |-> path, adopt |-> edit, current |-> cur, app |-> app,
                 original |-> org]
      /\ pc' \in {"target", "backup"}
      /\ UNCHANGED <<file, backup, record, location, writer, work, owned, trouble>>
  BY DEF Configure, disk, history, calm
<1>2. path \in Paths /\ cur \in Optional
  BY DEF TypeInv, TypeOK, ManagedTarget, Records
<1>3. app \in AppFiles /\ app \in Optional
  BY <1>2, GenerateType, AppFilesOptional
<1>4. org \in Optional
  BY <1>2 DEF TypeInv, TypeOK, OriginalBytes, Optional
<1>5. edit \in BOOLEAN
  BY DEF HoldsUserEdit
<1> HIDE DEF path, cur, app, org, edit
<1>6. job' \in Jobs /\ job'.app \in AppFiles
  BY <1>1, <1>2, <1>3, <1>4, <1>5 DEF Jobs
<1> QED
  BY <1>1, <1>6 DEF TypeInv, TypeOK, Jobs, Pcs

LEMMA TypeWrites ==
  ASSUME TypeInv, ConfigureStep,
         \A g \in Gens, adopt \in BOOLEAN : ~Configure(g, adopt)
  PROVE  TypeInv'
<1>1. location \in Paths /\ NoJob \in Jobs
  BY NoJobType DEF TypeInv, TypeOK
<1>2. pc \in Configuring => job.app \in AppFiles /\ job.app \in Optional
  BY AppFilesOptional DEF TypeInv
<1>3. job \in Jobs /\ job.path \in Paths /\ job.original \in Optional
      /\ job.current \in Optional
  BY DEF TypeInv, TypeOK, Jobs
<1> USE DEF Ends, Fails, Fault, disk, history, calm
<1>4. CASE WriteBackup \/ WriteBackupFails
  BY <1>1, <1>2, <1>3, <1>4 DEF WriteBackup, WriteBackupFails, TypeInv, TypeOK, Pcs,
     Configuring, Jobs
<1>5. CASE WriteTarget \/ WriteTargetFails
  BY <1>1, <1>2, <1>3, <1>5 DEF WriteTarget, WriteTargetFails, TakesOver, TypeInv, TypeOK,
     Pcs, Configuring, Jobs
<1>6. CASE WriteRecord \/ WriteRecordFails
  <2>1. pc = "record" => JobRecord \in Records
    BY <1>2, <1>3 DEF JobRecord, Records, AppFiles, Configuring
  <2> QED
    BY <1>1, <1>2, <1>3, <1>6, <2>1 DEF WriteRecord, WriteRecordFails, TypeInv, TypeOK, Pcs,
       Configuring, Jobs
<1>7. CASE Rollback
  BY <1>1, <1>3, <1>7 DEF Rollback, Puts, TypeInv, TypeOK, Pcs, Configuring, Jobs
<1> QED
  BY <1>4, <1>5, <1>6, <1>7 DEF ConfigureStep

LEMMA TypeRestores == TypeInv /\ RestoreStep => TypeInv'
<1> SUFFICES ASSUME TypeInv, RestoreStep PROVE TypeInv'
  OBVIOUS
<1>1. NoJob \in Jobs
  BY NoJobType DEF TypeInv, TypeOK
<1>2. job \in Jobs /\ job.path \in Paths /\ job.original \in Optional
      /\ job.current \in Optional
  BY DEF TypeInv, TypeOK, Jobs
<1> USE DEF Ends, Fails, Fault, disk, history, calm
<1>3. CASE Restore
  <2>1. /\ record.path \in Paths /\ record.app \in Optional
        /\ record.original \in Optional /\ file[record.path] \in Optional
    BY <1>3, AppFilesOptional DEF Restore, TypeInv, TypeOK, Records, AppFiles
  <2>2. job' \in Jobs
    BY <1>3, <2>1 DEF Restore, Jobs
  <2> QED
    BY <1>3, <2>2 DEF Restore, TypeInv, TypeOK, Jobs, Pcs, Configuring
<1>4. CASE PutOriginal \/ PutOriginalFails \/ UndoPut
  BY <1>1, <1>2, <1>4 DEF PutOriginal, PutOriginalFails, UndoPut, Puts, TypeInv, TypeOK,
     Pcs, Configuring, Jobs
<1>5. CASE DropRecord
  BY <1>5 DEF DropRecord, TypeInv, TypeOK, Pcs, Configuring
<1>6. CASE DropRecordFails
  BY <1>1, <1>6 DEF DropRecordFails, TypeInv, TypeOK, Pcs, Configuring, Jobs
<1>7. CASE DropBackup
  BY <1>1, <1>7 DEF DropBackup, TypeInv, TypeOK, Pcs, Configuring, Jobs, Optional
<1> QED
  BY <1>3, <1>4, <1>5, <1>6, <1>7 DEF RestoreStep

LEMMA TypeNext == TypeInv /\ [Next]_vars => TypeInv'
<1> SUFFICES ASSUME TypeInv, [Next]_vars PROVE TypeInv'
  OBVIOUS
<1>1. CASE Crash
  BY <1>1, NoJobType DEF Crash, Ends, Fault, TypeInv, TypeOK, disk, history, Jobs, Pcs,
     Configuring
<1>2. CASE UNCHANGED vars
  BY <1>2 DEF vars, TypeInv, TypeOK, disk, history, calm
<1> QED
  BY <1>1, <1>2, TypeUser, TypeConfigure, TypeWrites, TypeRestores DEF Next, ConfigureStep

LEMMA TypeInit == Init => TypeInv
<1> SUFFICES ASSUME Init PROVE TypeInv
  OBVIOUS
<1>1. NoJob \in Jobs
  BY NoJobType DEF Init
<1> QED
  BY <1>1 DEF Init, TypeInv, TypeOK, Jobs, Optional, Files, UserFile, Pcs, Configuring

\* Every variable keeps its type, for any paths, texts, settings and troubles.
THEOREM TypeCorrect == Spec => []TypeOK
<1>1. TypeInv => TypeOK
  BY DEF TypeInv
<1> QED
  BY <1>1, TypeInit, TypeNext, PTL DEF Spec

-----------------------------------------------------------------------------
(* The user's settings are kept, whatever fails or crashes.                *)

\* An original carries the text the app's file was generated over.
Over(app, original) ==
    app.base = Empty \/ (original # Missing /\ original.base = app.base)

\* The backup is the recorded original, or that of an adoption under way.
RecordInv ==
    record # NoRecord =>
        /\ Over(record.app, record.original)
        /\ record.original # Missing /\ ~(job.adopt /\ pc \in {"target", "record"}) =>
             backup = record.original

\* f holds the user's text of the file the command works on.
Holds(f) == work[job.path] # NoText => f # Missing /\ f.base = work[job.path]

\* What configure has read is still so, and a rollback undoes no adoption.
ConfigureInv ==
    pc \in Configuring =>
        /\ Holds(job.app)
        /\ Over(job.app, job.original)
        /\ pc = "backup" /\ ~job.adopt /\ record # NoRecord /\ record.original # Missing =>
             job.original = record.original
        /\ pc \in {"target", "record"} /\ job.original # Missing =>
             backup = job.original
        /\ pc = "rollback" => ~job.adopt

\* Both files restore may put in place hold the user's text.
RestoreInv ==
    /\ pc \in Restoring => Holds(job.original) /\ (job.current # Missing => Holds(job.current))
    /\ pc \in Restoring => ~job.adopt
    /\ pc = "undo" => job.current # Missing
    /\ pc = "clean" => record = NoRecord

\* What holds as long as no adoption is cut short and no edit races a command.
Kept == RecordInv /\ ConfigureInv /\ RestoreInv /\ TextKept

SettingsInv == TypeInv /\ (Sheltered => Kept)

LEMMA SettingsInit == Init => SettingsInv
  BY TypeInit, CliAssumption DEF Init, SettingsInv, Kept, RecordInv, ConfigureInv,
     RestoreInv, TextKept, Configuring, Restoring, UserFile, NoText

\* The user acts between commands.
LEMMA SettingsUser ==
  ASSUME TypeInv, Kept, UserStep, Sheltered'
  PROVE  Kept'
<1> USE CliAssumption DEF Kept, TypeInv, TypeOK, RecordInv, ConfigureInv, RestoreInv, TextKept,
     Configuring, Restoring, disk, history, Optional, Files, NoText, MayEdit, Sheltered
<1>1. ASSUME NEW p \in Paths, UserDeletes(p) PROVE Kept'
  <2>1. /\ pc = "idle" /\ file' = [file EXCEPT ![p] = Missing]
        /\ work' = [work EXCEPT ![p] = NoText]
        /\ UNCHANGED <<backup, record, pc, job>>
    BY <1>1 DEF UserDeletes
  <2> QED
    BY <2>1
<1>2. ASSUME NEW p \in Paths, NEW t \in Texts, UserWrites(p, t) PROVE Kept'
  <2>1. PICK f : f # Missing /\ f.base = t /\ file' = [file EXCEPT ![p] = f]
    <3>1. PICK keep \in IF file[p] = Missing THEN {FALSE} ELSE BOOLEAN :
             file' = [file EXCEPT ![p] =
                        [base |-> t, patch |-> IF keep THEN file[p].patch ELSE NoGen]]
      BY <1>2 DEF UserWrites
    <3>2. [base |-> t, patch |-> IF keep THEN file[p].patch ELSE NoGen] \in Files
      BY <3>1
    <3> QED
      BY <3>1, <3>2
  <2>2. /\ pc = "idle" /\ work' = [work EXCEPT ![p] = t]
        /\ UNCHANGED <<backup, record, pc, job>>
    BY <1>2 DEF UserWrites
  <2> QED
    BY <2>1, <2>2
<1>3. CASE AgentMoves
  <2>1. pc = "idle" /\ UNCHANGED <<file, backup, record, pc, job, work>>
    BY <1>3 DEF AgentMoves
  <2> QED
    BY <2>1
<1> QED
  BY <1>1, <1>2, <1>3 DEF UserStep

\* configure generates over the file it read; the original it keeps is that
\* file, or the recorded one when the file is gone or the app's own.
LEMMA SettingsConfigure ==
  ASSUME TypeInv, Kept, NEW g \in Gens, NEW adopt \in BOOLEAN, Configure(g, adopt)
  PROVE  Kept'
<1> DEFINE path == ManagedTarget
           cur == file[path]
           app == Generate(cur, g)
           org == OriginalBytes(cur)
           edit == HoldsUserEdit(cur)
<1>1. /\ pc = "idle"
      /\ job' = [path |-> path, adopt |-> edit, current |-> cur, app |-> app,
                 original |-> org]
      /\ pc' = IF org = Missing THEN "target" ELSE "backup"
      /\ UNCHANGED <<file, backup, record, work>>
  BY DEF Configure, disk, history
<1>2. path \in Paths /\ cur \in Optional
  BY DEF TypeInv, TypeOK, ManagedTarget, Records
<1>3. app \in AppFiles /\ app # Missing
  BY <1>2, GenerateType, CliAssumption DEF AppFiles
<1>4. app.base = IF cur = Missing THEN Empty ELSE cur.base
  BY DEF Generate
<1>5. /\ record = NoRecord \/ edit => org = cur
      /\ record # NoRecord /\ ~edit => org = record.original
  BY <1>1 DEF Kept, RecordInv, OriginalBytes
<1>6. edit => record # NoRecord /\ cur # Missing
  BY DEF HoldsUserEdit
<1>7. Over(app, org)
  <2>1. CASE record = NoRecord \/ edit
    BY <2>1, <1>4, <1>5 DEF Over
  <2>2. CASE record # NoRecord /\ cur = Missing
    BY <2>2, <1>4 DEF Over
  <2>3. CASE record # NoRecord /\ ~edit /\ cur # Missing
    <3>1. cur = record.app
      BY <2>3 DEF HoldsUserEdit
    <3> QED
      BY <2>3, <3>1, <1>4, <1>5 DEF Kept, RecordInv, Over
  <2> QED
    BY <2>1, <2>2, <2>3
<1>8. work[path] # NoText => app # Missing /\ app.base = work[path]
  BY <1>2, <1>3, <1>4 DEF Kept, TextKept
<1> HIDE DEF path, cur, app, org, edit
<1>9. /\ job'.path = path /\ job'.current = cur /\ job'.app = app /\ job'.original = org
      /\ job'.adopt = edit
      /\ pc' \in {"target", "backup"} /\ (pc' = "target" => org = Missing)
  BY <1>1
<1>10. TextKept' /\ RecordInv'
  BY <1>1, <1>9 DEF Kept, RecordInv, TextKept
<1>11. ConfigureInv'
  BY <1>1, <1>5, <1>7, <1>8, <1>9 DEF ConfigureInv, Holds
<1>12. RestoreInv'
  BY <1>9 DEF RestoreInv, Restoring
<1> QED
  BY <1>10, <1>11, <1>12 DEF Kept

\* The file a command works on comes to hold f, and keeps the user's text.
LEMMA PutsKeeps ==
  ASSUME TypeInv, TextKept, NEW f, Holds(f),
         UNCHANGED file \/ file' = [file EXCEPT ![job.path] = f], UNCHANGED work
  PROVE  TextKept'
  BY DEF TypeInv, TypeOK, TextKept, Holds

\* A command that ends leaves only the record and the texts to keep.
LEMMA EndsKeeps ==
  ASSUME Ends, TextKept',
         record' # NoRecord => /\ Over(record'.app, record'.original)
                               /\ record'.original # Missing => backup' = record'.original
  PROVE  Kept'
  BY DEF Ends, Kept, RecordInv, ConfigureInv, RestoreInv, Configuring, Restoring

\* A fault that leaves the state sheltered has cut short no adoption.
LEMMA FaultShelters ==
  ASSUME Fault, Sheltered'
  PROVE  ~job.adopt
  BY DEF Fault, Sheltered

\* The writes of configure.
LEMMA SettingsWrites ==
  ASSUME TypeInv, Kept, WriteBackup \/ WriteTarget \/ WriteRecord
  PROVE  Kept'
<1> USE DEF disk, history
<1>1. CASE WriteBackup
  <2>1. /\ pc = "backup" /\ pc' = "target" /\ backup' = job.original
        /\ UNCHANGED <<file, record, job, work>>
    BY <1>1 DEF WriteBackup
  <2>2. RecordInv'
    BY <2>1 DEF Kept, ConfigureInv, RecordInv, Configuring
  <2>3. TextKept' /\ ConfigureInv' /\ RestoreInv'
    BY <2>1 DEF Kept, TextKept, ConfigureInv, RestoreInv, Configuring, Restoring, Holds
  <2> QED
    BY <2>2, <2>3 DEF Kept
<1>2. CASE WriteTarget
  <2>1. /\ pc = "target" /\ pc' = "record"
        /\ file' = [file EXCEPT ![job.path] = job.app]
        /\ UNCHANGED <<backup, record, job, work>>
    BY <1>2 DEF WriteTarget, TakesOver
  <2>2. TextKept'
    BY <2>1, PutsKeeps DEF Kept, ConfigureInv, Configuring
  <2>3. RecordInv' /\ ConfigureInv' /\ RestoreInv'
    BY <2>1 DEF Kept, RecordInv, ConfigureInv, RestoreInv, Configuring, Restoring, Holds
  <2> QED
    BY <2>2, <2>3 DEF Kept
<1>3. CASE WriteRecord
  <2>1. pc = "record" /\ record' = JobRecord /\ Ends /\ UNCHANGED <<file, backup, work>>
    BY <1>3 DEF WriteRecord
  <2>2. JobRecord.app = job.app /\ JobRecord.original = job.original
    BY DEF JobRecord
  <2>3. TextKept'
    BY <2>1 DEF Kept, TextKept
  <2> QED
    BY <2>1, <2>2, <2>3, EndsKeeps DEF Kept, ConfigureInv, Configuring
<1> QED
  BY <1>1, <1>2, <1>3

\* The writes of configure that fail, without an adoption under way.
LEMMA SettingsWriteFails ==
  ASSUME TypeInv, Kept, ~job.adopt,
         WriteBackupFails \/ WriteTargetFails \/ WriteRecordFails \/ Rollback
  PROVE  Kept'
<1> USE DEF disk, history
<1>1. CASE WriteBackupFails
  <2>1. pc = "backup" /\ backup' \in {backup, job.original} /\ Ends
        /\ UNCHANGED <<file, record, work>>
    BY <1>1 DEF WriteBackupFails
  <2>2. TextKept'
    BY <2>1 DEF Kept, TextKept
  <2> QED
    BY <2>1, <2>2, EndsKeeps DEF Kept, ConfigureInv, RecordInv, Configuring
<1>2. CASE WriteTargetFails
  <2>1. /\ pc = "target" /\ Ends
        /\ UNCHANGED file \/ file' = [file EXCEPT ![job.path] = job.app]
        /\ UNCHANGED <<backup, record, work>>
    BY <1>2 DEF WriteTargetFails, TakesOver
  <2>2. TextKept'
    BY <2>1, PutsKeeps DEF Kept, ConfigureInv, Configuring
  <2> QED
    BY <2>1, <2>2, EndsKeeps DEF Kept, RecordInv
<1>3. CASE WriteRecordFails
  <2>1. /\ pc = "record" /\ pc' = "rollback" /\ record' \in {record, JobRecord}
        /\ UNCHANGED <<file, backup, job, work>>
    BY <1>3 DEF WriteRecordFails
  <2>2. JobRecord.app = job.app /\ JobRecord.original = job.original
    BY DEF JobRecord
  <2>3. RecordInv'
    BY <2>1, <2>2 DEF Kept, RecordInv, ConfigureInv, Configuring
  <2> HIDE DEF RecordInv
  <2>4. TextKept' /\ ConfigureInv' /\ RestoreInv'
    BY <2>1 DEF Kept, TextKept, ConfigureInv, RestoreInv, Configuring, Restoring, Holds
  <2> QED
    BY <2>3, <2>4 DEF Kept
<1>4. CASE Rollback
  <2>1. /\ pc = "rollback" /\ Ends
        /\ UNCHANGED file \/ file' = [file EXCEPT ![job.path] = job.original]
        /\ UNCHANGED <<backup, record, work>>
    BY <1>4 DEF Rollback, Puts
  <2>2. work[job.path] # NoText => work[job.path] \in Texts
    BY DEF TypeInv, TypeOK
  <2>3. Holds(job.original)
    BY <2>1, <2>2, CliAssumption DEF Kept, ConfigureInv, Configuring, Holds, Over
  <2>4. TextKept'
    BY <2>1, <2>3, PutsKeeps DEF Kept
  <2> QED
    BY <2>1, <2>4, EndsKeeps DEF Kept, RecordInv
<1> QED
  BY <1>1, <1>2, <1>3, <1>4

\* restore only starts on a file that is gone or the app's own.
LEMMA SettingsRestore ==
  ASSUME TypeInv, Kept, Restore
  PROVE  Kept'
<1> DEFINE cur == file[record.path]
<1>1. /\ pc = "idle" /\ pc' = "put" /\ record # NoRecord
      /\ cur = Missing \/ cur = record.app
      /\ job' = [path |-> record.path, adopt |-> FALSE, current |-> cur,
                 app |-> record.app, original |-> record.original]
      /\ UNCHANGED <<file, backup, record, work>>
  BY DEF Restore, HoldsUserEdit, disk, history
<1>2. record.path \in Paths
  BY <1>1 DEF TypeInv, TypeOK, Records
<1>3. work[record.path] # NoText =>
        /\ cur # Missing /\ cur.base = work[record.path]
        /\ record.original # Missing /\ record.original.base = work[record.path]
  <2> SUFFICES ASSUME work[record.path] # NoText
               PROVE  /\ cur # Missing /\ cur.base = work[record.path]
                      /\ record.original # Missing /\ record.original.base = work[record.path]
    OBVIOUS
  <2>1. cur # Missing /\ cur.base = work[record.path] /\ cur = record.app
    BY <1>1, <1>2 DEF Kept, TextKept
  <2>2. work[record.path] \in Texts
    BY <1>2 DEF TypeInv, TypeOK
  <2> QED
    BY <1>1, <2>1, <2>2, CliAssumption DEF Kept, RecordInv, Over
<1> HIDE DEF cur
<1>4. /\ job'.path = record.path /\ job'.current = cur /\ job'.adopt = FALSE
      /\ job'.app = record.app /\ job'.original = record.original
  BY <1>1
<1>5. RecordInv' /\ TextKept'
  BY <1>1, <1>4 DEF Kept, RecordInv, TextKept
<1>6. ConfigureInv' /\ RestoreInv'
  BY <1>1, <1>3, <1>4 DEF ConfigureInv, RestoreInv, Configuring, Restoring, Holds
<1> QED
  BY <1>5, <1>6 DEF Kept

\* Both files restore may put in place hold the user's text, and the record
\* goes before its backup.
LEMMA SettingsPuts ==
  ASSUME TypeInv, Kept,
         PutOriginal \/ PutOriginalFails \/ DropRecord \/ DropRecordFails
           \/ UndoPut \/ DropBackup
  PROVE  Kept'
<1> USE DEF disk, history
<1>1. CASE PutOriginal \/ PutOriginalFails \/ UndoPut
  <2>1. PICK f \in {job.original, job.current} :
           Holds(f) /\ (UNCHANGED file \/ file' = [file EXCEPT ![job.path] = f])
    BY <1>1 DEF PutOriginal, PutOriginalFails, UndoPut, Puts, Kept, RestoreInv, Restoring
  <2>2. /\ pc \in {"put", "undo"} /\ UNCHANGED <<backup, record, work>>
        /\ Ends \/ (pc' = "drop" /\ pc = "put" /\ UNCHANGED job)
    BY <1>1 DEF PutOriginal, PutOriginalFails, UndoPut, Puts
  <2>3. TextKept'
    BY <2>1, <2>2, PutsKeeps DEF Kept
  <2>4. record # NoRecord /\ record.original # Missing => backup = record.original
    BY <2>2 DEF Kept, RecordInv
  <2>5. CASE Ends
    BY <2>2, <2>3, <2>4, <2>5, EndsKeeps DEF Kept, RecordInv
  <2>6. CASE pc' = "drop" /\ pc = "put" /\ UNCHANGED job
    BY <2>2, <2>3, <2>6 DEF Kept, RecordInv, ConfigureInv, RestoreInv, Configuring,
       Restoring, Holds
  <2> QED
    BY <2>2, <2>5, <2>6
<1>2. CASE DropRecord
  <2>1. pc' = "clean" /\ record' = NoRecord /\ UNCHANGED <<file, backup, job, work>>
    BY <1>2 DEF DropRecord
  <2> QED
    BY <2>1 DEF Kept, RecordInv, ConfigureInv, RestoreInv, TextKept, Configuring, Restoring
<1>3. CASE DropRecordFails
  <2>1. /\ pc = "drop" /\ UNCHANGED <<file, backup, record, work>>
        /\ Ends \/ (pc' = "undo" /\ job.current # Missing /\ UNCHANGED job)
    BY <1>3 DEF DropRecordFails
  <2>2. TextKept'
    BY <2>1 DEF Kept, TextKept
  <2>3. CASE Ends
    BY <2>1, <2>2, <2>3, EndsKeeps DEF Kept, RecordInv
  <2>4. CASE pc' = "undo" /\ job.current # Missing /\ UNCHANGED job
    BY <2>1, <2>2, <2>4 DEF Kept, RecordInv, ConfigureInv, RestoreInv, Configuring,
       Restoring, Holds
  <2> QED
    BY <2>1, <2>3, <2>4
<1>4. CASE DropBackup
  <2>1. pc = "clean" /\ Ends /\ UNCHANGED <<file, record, work>>
    BY <1>4 DEF DropBackup
  <2>2. TextKept'
    BY <2>1 DEF Kept, TextKept
  <2> QED
    BY <2>1, <2>2, EndsKeeps DEF Kept, RestoreInv
<1> QED
  BY <1>1, <1>2, <1>3, <1>4

\* A crash ends the command where it is.
LEMMA SettingsCrash ==
  ASSUME Kept, Crash, ~job.adopt
  PROVE  Kept'
<1>1. Ends /\ UNCHANGED <<file, backup, record, work>>
  BY DEF Crash, disk, history
<1>2. TextKept'
  BY <1>1 DEF Kept, TextKept
<1> QED
  BY <1>1, <1>2, EndsKeeps DEF Kept, RecordInv

\* Troubles are never forgotten.
LEMMA TroubleStays ==
  ASSUME [Next]_vars
  PROVE  trouble \subseteq trouble'
  BY DEF Next, vars, calm, UserStep, UserDeletes, UserWrites, AgentMoves, MayEdit, ConfigureStep,
     Configure, WriteBackup, WriteBackupFails, WriteTarget, WriteTargetFails, WriteRecord,
     WriteRecordFails, Rollback, RestoreStep, Restore, PutOriginal, PutOriginalFails,
     DropRecord, DropRecordFails, UndoPut, DropBackup, Crash, Fails, Fault

LEMMA ShelterNext ==
  ASSUME TypeInv, [Next]_vars, Sheltered'
  PROVE  Sheltered
  BY TroubleStays DEF Sheltered

\* Every step keeps the user's settings.
LEMMA SettingsNext == SettingsInv /\ [Next]_vars => SettingsInv'
<1> SUFFICES ASSUME SettingsInv, [Next]_vars, Sheltered' PROVE Kept'
  BY TypeNext DEF SettingsInv
<1>1. TypeInv /\ Kept
  BY ShelterNext DEF SettingsInv
<1>2. CASE UserStep
  BY <1>1, <1>2, SettingsUser
<1>3. ASSUME NEW g \in Gens, NEW adopt \in BOOLEAN, Configure(g, adopt) PROVE Kept'
  BY <1>1, <1>3, SettingsConfigure
<1>4. CASE WriteBackup \/ WriteTarget \/ WriteRecord
  BY <1>1, <1>4, SettingsWrites
<1>5. CASE WriteBackupFails \/ WriteTargetFails \/ WriteRecordFails
  <2>1. ~job.adopt
    BY <1>5, FaultShelters DEF WriteBackupFails, WriteTargetFails, WriteRecordFails, Fails
  <2> QED
    BY <1>1, <1>5, <2>1, SettingsWriteFails
<1>6. CASE Rollback
  BY <1>1, <1>6, SettingsWriteFails DEF Kept, ConfigureInv, Configuring, Rollback
<1>7. CASE RestoreStep
  BY <1>1, <1>7, SettingsRestore, SettingsPuts DEF RestoreStep
<1>8. CASE Crash
  BY <1>1, <1>8, FaultShelters, SettingsCrash DEF Crash
<1>9. CASE UNCHANGED vars
  BY <1>1, <1>9 DEF vars, disk, history, Kept, RecordInv, ConfigureInv, RestoreInv, TextKept,
     Configuring, Restoring, Holds
<1> QED
  BY <1>2, <1>3, <1>4, <1>5, <1>6, <1>7, <1>8, <1>9 DEF Next, ConfigureStep

\* Unless an adoption is cut short or a file is edited under a running command,
\* whatever the user last wrote is in the file, through every failed write,
\* rollback and crash.
THEOREM SettingsSurvive == Spec => []UserSettingsKept
<1>1. SettingsInv => UserSettingsKept
  BY DEF SettingsInv, UserSettingsKept, Kept
<1> QED
  BY <1>1, SettingsInit, SettingsNext, PTL DEF Spec

-----------------------------------------------------------------------------
(* No file is stranded.                                                    *)

\* A file of the app's is the recorded one, or that of the command which is about to
\* record it; restore has taken it back before it drops the record.
StrandInv ==
    trouble = {} =>
        /\ pc \notin {"rollback", "undo"}
        /\ pc # "idle" /\ record # NoRecord => record.path = job.path
        /\ pc = "put" => record # NoRecord
        /\ \A p \in Paths : writer[p] = "app" =>
              /\ pc \notin {"drop", "clean"}
              /\ pc # "record" => record # NoRecord /\ record.path = p
              /\ pc = "record" => p = job.path

\* Every step keeps each file of the app's in reach of its record.
LEMMA StrandNext == TypeInv /\ StrandInv /\ [Next]_vars => StrandInv'
<1> SUFFICES ASSUME TypeInv, StrandInv, [Next]_vars, trouble' = {} PROVE StrandInv'
  BY DEF StrandInv
<1> USE DEF disk, history, calm, Ends
<1>1. trouble = {} /\ ~ Fails /\ ~ Fault
  BY TroubleStays DEF Fails, Fault
<1>2. CASE UserStep
  <2>1. /\ pc = "idle" /\ UNCHANGED <<record, pc, job>>
        /\ \A p \in Paths : writer'[p] = "app" => writer[p] = "app"
    BY <1>2 DEF UserStep, UserDeletes, UserWrites, AgentMoves, MayEdit, TypeInv, TypeOK
  <2> QED
    BY <1>1, <2>1 DEF StrandInv
<1>3. ASSUME NEW g \in Gens, NEW adopt \in BOOLEAN, Configure(g, adopt) PROVE StrandInv'
  <2>1. /\ pc = "idle" /\ pc' \in {"target", "backup"} /\ UNCHANGED <<record, writer>>
        /\ job'.path = ManagedTarget
    BY <1>3 DEF Configure
  <2> QED
    BY <1>1, <2>1 DEF StrandInv, ManagedTarget
<1>4. CASE WriteBackup
  BY <1>1, <1>4 DEF WriteBackup, StrandInv
<1>5. CASE WriteTarget
  <2>1. /\ pc = "target" /\ pc' = "record" /\ UNCHANGED <<record, job>>
        /\ writer' = [writer EXCEPT ![job.path] = "app"]
    BY <1>5 DEF WriteTarget, TakesOver
  <2>2. \A p \in Paths : writer[p] = "app" => p = job.path
    BY <1>1, <2>1 DEF StrandInv
  <2>3. \A p \in Paths : writer'[p] = "app" => p = job.path
    BY <2>1, <2>2 DEF TypeInv, TypeOK
  <2> QED
    BY <1>1, <2>1, <2>3 DEF StrandInv
<1>6. CASE WriteRecord
  <2>1. pc = "record" /\ pc' = "idle" /\ record' = JobRecord /\ UNCHANGED writer
    BY <1>6 DEF WriteRecord
  <2>2. JobRecord.path = job.path
    BY DEF JobRecord
  <2>3. record' # NoRecord
    <3>1. JobRecord \in Records
      BY <2>1 DEF JobRecord, Records, AppFiles, TypeInv, TypeOK, Configuring
    <3> QED
      BY <2>1, <3>1, CliAssumption DEF Records, Optional, Files
  <2> QED
    BY <1>1, <2>1, <2>2, <2>3 DEF StrandInv
<1>7. CASE Restore
  <2>1. /\ pc = "idle" /\ pc' = "put" /\ record # NoRecord /\ UNCHANGED <<record, writer>>
        /\ job'.path = record.path
    BY <1>7 DEF Restore
  <2> QED
    BY <1>1, <2>1 DEF StrandInv
<1>8. CASE PutOriginal
  <2>1. /\ pc = "put" /\ pc' = "drop" /\ UNCHANGED <<record, job>>
        /\ writer' = [writer EXCEPT ![job.path] = "user"]
    BY <1>8 DEF PutOriginal, Puts
  <2>2. \A p \in Paths : writer'[p] # "app"
    BY <1>1, <2>1 DEF StrandInv, TypeInv, TypeOK
  <2> QED
    BY <1>1, <2>1, <2>2 DEF StrandInv
<1>9. CASE DropRecord \/ DropBackup
  BY <1>1, <1>9 DEF DropRecord, DropBackup, StrandInv
<1>10. CASE UNCHANGED vars
  BY <1>10 DEF vars, StrandInv
<1>11. ~ Rollback /\ ~ UndoPut
  BY <1>1 DEF StrandInv, Rollback, UndoPut
<1> QED
  BY <1>1, <1>2, <1>3, <1>4, <1>5, <1>6, <1>7, <1>8, <1>9, <1>10, <1>11
  DEF Next, ConfigureStep, RestoreStep, WriteBackupFails, WriteTargetFails, WriteRecordFails,
      PutOriginalFails, DropRecordFails, Crash

\* A file the app wrote has a record that names it, as long as nothing fails: an agent
\* that moves its configuration does not strand the file.
THEOREM FilesStayInReach == Spec => []NoStrandedFile
<1>1. Init => StrandInv
  BY DEF Init, StrandInv
<1>2. StrandInv => NoStrandedFile
  BY DEF StrandInv, NoStrandedFile
<1>3. Spec => []StrandInv
  BY <1>1, StrandNext, TypeInit, TypeNext, PTL DEF Spec
<1> QED
  BY <1>2, <1>3, PTL
-----------------------------------------------------------------------------
(* Restore puts back the user's file.                                      *)

\* What restore would put back is the user's file of the last take-over, or the command
\* under way is about to make it so; and a file of the app's is as the app wrote it.
OwnedInv ==
    trouble = {} =>
        /\ pc \in {"idle", "backup", "target", "put"} /\ record # NoRecord =>
             record.original = owned
        /\ pc \in {"backup", "target"} =>
             \/ job.original = owned
             \/ job.original = job.current /\ writer[job.path] = "user"
        /\ pc \in {"record", "put"} => job.original = owned
        /\ \A p \in Paths : writer[p] = "app" =>
             file[p] = IF pc = "record" THEN job.app ELSE record.app

LEMMA OwnedNext ==
  SettingsInv /\ StrandInv /\ OwnedInv /\ [Next]_vars => OwnedInv'
<1> SUFFICES ASSUME SettingsInv, StrandInv, OwnedInv, [Next]_vars, trouble' = {} PROVE OwnedInv'
  BY DEF OwnedInv
<1> USE DEF disk, history, calm, Ends
<1>1. trouble = {} /\ ~ Fails /\ ~ Fault
  BY TroubleStays DEF Fails, Fault
<1>2. TypeInv /\ Kept
  BY <1>1 DEF SettingsInv, Sheltered
<1>3. CASE UserStep
  <2>1. /\ pc = "idle" /\ UNCHANGED <<record, owned, pc>>
        /\ \A p \in Paths : writer'[p] = "app" => writer[p] = "app" /\ file'[p] = file[p]
    BY <1>2, <1>3 DEF UserStep, UserDeletes, UserWrites, AgentMoves, MayEdit, TypeInv, TypeOK
  <2> QED
    BY <1>1, <2>1 DEF OwnedInv
<1>4. ASSUME NEW g \in Gens, NEW adopt \in BOOLEAN, Configure(g, adopt) PROVE OwnedInv'
  <2> DEFINE current == file[ManagedTarget]
  <2>1. /\ pc = "idle" /\ pc' \in {"target", "backup"}
        /\ UNCHANGED <<file, backup, record, writer, owned>>
        /\ job'.path = ManagedTarget /\ job'.current = current
        /\ job'.original = OriginalBytes(current)
    BY <1>4 DEF Configure
  <2>2. ManagedTarget \in Paths
    BY <1>2 DEF ManagedTarget, TypeInv, TypeOK, Records
  <2> HIDE DEF current
  <2>3. CASE record = NoRecord \/ HoldsUserEdit(current)
    <3>1. job'.original = current
      BY <2>1, <2>3 DEF OriginalBytes
    <3>2. writer[ManagedTarget] # "app"
      BY <1>1, <2>1, <2>2, <2>3 DEF StrandInv, OwnedInv, HoldsUserEdit, current
    <3>3. writer[ManagedTarget] = "user"
      BY <1>2, <2>2, <3>2 DEF TypeInv, TypeOK
    <3> QED
      BY <1>1, <2>1, <3>1, <3>3 DEF OwnedInv
  <2>4. CASE record # NoRecord /\ ~HoldsUserEdit(current)
    <3>1. job'.original = record.original
      BY <1>2, <2>1, <2>4 DEF OriginalBytes, Kept, RecordInv
    <3> QED
      BY <1>1, <2>1, <2>4, <3>1 DEF OwnedInv
  <2> QED
    BY <2>3, <2>4
<1>5. CASE WriteBackup
  BY <1>1, <1>5 DEF WriteBackup, OwnedInv
<1>6. CASE WriteTarget
  <2>1. /\ pc = "target" /\ pc' = "record" /\ UNCHANGED <<record, job>>
        /\ file' = [file EXCEPT ![job.path] = job.app]
        /\ writer' = [writer EXCEPT ![job.path] = "app"]
        /\ owned' = IF writer[job.path] = "user" /\ job.original = job.current
                      THEN job.current ELSE owned
    BY <1>6 DEF WriteTarget, TakesOver
  <2>2. job.original = owned'
    BY <1>1, <2>1 DEF OwnedInv
  <2>3. \A p \in Paths : writer[p] = "app" => p = job.path
    BY <1>1, <2>1 DEF StrandInv
  <2>4. \A p \in Paths : writer'[p] = "app" => file'[p] = job.app
    BY <1>2, <2>1, <2>3 DEF TypeInv, TypeOK
  <2> QED
    BY <2>1, <2>2, <2>4 DEF OwnedInv
<1>7. CASE WriteRecord
  <2>1. /\ pc = "record" /\ pc' = "idle" /\ UNCHANGED <<file, writer, owned>>
        /\ record'.app = job.app /\ record'.original = job.original
    BY <1>7 DEF WriteRecord, JobRecord
  <2> QED
    BY <1>1, <2>1 DEF OwnedInv
<1>8. CASE Restore
  <2>1. /\ pc = "idle" /\ pc' = "put" /\ record # NoRecord
        /\ UNCHANGED <<file, record, writer, owned>>
        /\ job'.original = record.original
    BY <1>8 DEF Restore
  <2> QED
    BY <1>1, <2>1 DEF OwnedInv
<1>9. CASE PutOriginal
  <2>1. /\ pc = "put" /\ pc' = "drop" /\ writer' = [writer EXCEPT ![job.path] = "user"]
    BY <1>9 DEF PutOriginal, Puts
  <2>2. \A p \in Paths : writer'[p] # "app"
    BY <1>1, <1>2, <2>1 DEF StrandInv, TypeInv, TypeOK
  <2> QED
    BY <2>1, <2>2 DEF OwnedInv
<1>10. CASE DropRecord \/ DropBackup
  <2>1. /\ pc \in {"drop", "clean"} /\ pc' \in {"clean", "idle"} /\ UNCHANGED writer
        /\ record' = NoRecord
    BY <1>2, <1>10 DEF DropRecord, DropBackup, Kept, RestoreInv
  <2>2. \A p \in Paths : writer'[p] # "app"
    BY <1>1, <2>1 DEF StrandInv
  <2> QED
    BY <2>1, <2>2 DEF OwnedInv
<1>11. CASE UNCHANGED vars
  BY <1>11 DEF vars, OwnedInv
<1>12. ~ Rollback /\ ~ UndoPut
  BY <1>1 DEF StrandInv, Rollback, UndoPut
<1> QED
  BY <1>1, <1>3, <1>4, <1>5, <1>6, <1>7, <1>8, <1>9, <1>10, <1>11, <1>12
  DEF Next, ConfigureStep, RestoreStep, WriteBackupFails, WriteTargetFails, WriteRecordFails,
      PutOriginalFails, DropRecordFails, Crash

\* What restore puts in place is what the user had there.
PutsOwned == Restored /\ trouble = {} => file'[job.path] = owned

\* However often the file was configured, adopted, deleted and rewritten in between, as
\* long as nothing fails restore puts back the user's file of the last take-over.
THEOREM RestoreUndoes == Spec => RestorePutsBack
<1>1. Init => StrandInv /\ OwnedInv
  BY DEF Init, StrandInv, OwnedInv
<1>2. TypeInv /\ OwnedInv /\ [Next]_vars => [PutsOwned]_vars
  <2> SUFFICES ASSUME TypeInv, OwnedInv, Next, Restored, trouble = {}
               PROVE  file'[job.path] = owned
    BY DEF PutsOwned
  <2>1. pc = "put" /\ pc' = "drop"
    BY DEF Restored
  <2>2. PutOriginal
    BY <2>1 DEF Next, UserStep, UserDeletes, UserWrites, AgentMoves, ConfigureStep, Configure,
       WriteBackup, WriteBackupFails, WriteTarget, WriteTargetFails, WriteRecord,
       WriteRecordFails, Rollback, RestoreStep, Restore, PutOriginalFails, DropRecord,
       DropRecordFails, UndoPut, DropBackup, Crash, Ends, MayEdit
  <2> QED
    BY <2>1, <2>2 DEF PutOriginal, Puts, OwnedInv, TypeInv, TypeOK
<1>3. Spec => [](SettingsInv /\ StrandInv /\ OwnedInv)
  <2>1. SettingsInv => TypeInv
    BY DEF SettingsInv
  <2> QED
    BY <1>1, <2>1, SettingsInit, SettingsNext, StrandNext, OwnedNext, PTL DEF Spec
<1>4. SettingsInv => TypeInv
  BY DEF SettingsInv
<1> QED
  BY <1>2, <1>3, <1>4, PTL DEF Spec, RestorePutsBack, PutsOwned
=============================================================================
