--------------------------- MODULE ProfileSyncProofs ---------------------------
(***************************************************************************)
(* Theorems about ProfileSync: its types, that every hash a run acts on is *)
(* that of a published text, from it that a run keeps the user's own, and  *)
(* that a recorded etag means the files are as the profile has them.       *)
(***************************************************************************)
EXTENDS ProfileSync, TLAPS

-----------------------------------------------------------------------------
(* The operators on one file and on one job.                               *)

LEMMA FreshIsJob == \A adopt \in BOOLEAN : Fresh(adopt) \in Jobs
<1>1. NoTexts \in Texts
  BY DEF NoTexts, Texts
<1>2. NoFile \in Files
  BY DEF NoFile, Files
<1>3. Unset \in Profiles
  BY <1>1 DEF Unset, Profiles
<1>4. 0 \in 0 .. MaxRev
  BY SyncAssumption
<1> QED
  BY <1>1, <1>2, <1>3, <1>4 DEF Fresh, Jobs

\* What merge leaves in a file is a text for each unit.
LEMMA MergedIsText ==
  ASSUME NEW p \in Profiles, NEW was, NEW text \in Texts, NEW adopt
  PROVE  Merged(p, was, text, adopt) \in Texts
  BY DEF Merged, Texts, Profiles

LEMMA FileTexts == \A f \in Files : f.text \in Texts
<1>1. NoTexts \in Texts
  BY DEF NoTexts, Texts
<1> QED
  BY <1>1 DEF Files

LEMMA NextFileIsFile ==
  ASSUME NEW j \in Jobs, NEW t \in Targets
  PROVE  NextFile(j, t) \in Files
<1>1. j.profile \in Profiles /\ j.seen[t].text \in Texts
  BY FileTexts DEF Jobs
<1> QED
  BY <1>1, MergedIsText DEF NextFile, Files

LEMMA AggregateIsText ==
  ASSUME NEW j \in Jobs
  PROVE  AggregateUnits(j) \in Texts
<1>1. j.profile.listed \in Texts /\ j.was \in Texts
  BY DEF Jobs, Profiles
<1> QED
  BY <1>1 DEF AggregateUnits, Texts

\* Unless the run adopts, a unit changes only if what was read is what was
\* last applied.
LEMMA OnlyAppliedChanges ==
  ASSUME NEW p, NEW was, NEW text, NEW adopt, ~ adopt, NEW u \in Units,
         text[u] # NoText,
         Merged(p, was, text, adopt)[u] # text[u]
  PROVE  was[u] # NoText /\ text[u] = was[u]
<1>1. u \in Managed(p) /\ u \notin Conflicts(p, was, text, adopt)
  BY DEF Merged
<1>2. p.listed[u] # text[u]
  BY <1>1 DEF Merged
<1> QED
  BY <1>1, <1>2 DEF Conflicts, LocalEdit, UnmanagedDiffers

-----------------------------------------------------------------------------
(* TypeOK.                                                                 *)

LEMMA TypeInit == Init => TypeOK
<1> SUFFICES ASSUME Init PROVE TypeOK
  OBVIOUS
<1>1. NoTexts \in Texts /\ Fresh(FALSE) \in Jobs
  BY FreshIsJob DEF NoTexts, Texts
<1>2. /\ rev \in 0 .. MaxRev /\ edits \in 0 .. MaxEdits
      /\ starts \in 0 .. MaxStarts /\ faults \in 0 .. MaxFaults
  BY SyncAssumption DEF Init
<1>3. profile \in Profiles /\ state \in States
  BY <1>1, <1>2 DEF Init, Profiles, Unset, States, EmptyState
<1>4. file \in [Targets -> Files]
  BY DEF Init, Files
<1>5. lock \in [by : Runs \cup {Nobody}, holds : {"free", "blank", "pid", "old"}]
  BY DEF Init
<1>6. pc \in [Runs -> Places] /\ job \in [Runs -> Jobs]
  BY <1>1 DEF Init, Places
<1>7. published \subseteq Units \X Values /\ hand \subseteq Targets \X Units
      /\ overlapped \in BOOLEAN
  BY DEF Init
<1> QED
  BY <1>2, <1>3, <1>4, <1>5, <1>6, <1>7 DEF TypeOK

\* The counters and what only the gateway changes.
QuietType == /\ rev' \in 0 .. MaxRev /\ profile' \in Profiles
             /\ published' \subseteq Units \X Values
             /\ overlapped' \in BOOLEAN
             /\ edits' \in 0 .. MaxEdits /\ starts' \in 0 .. MaxStarts
LEMMA QuietKeepsType == TypeOK /\ Quiet => QuietType
  BY DEF TypeOK, Quiet, gatewayVars, QuietType

LEMMA FaultCounts == TypeOK /\ Fault => faults' \in 0 .. MaxFaults
  BY SyncAssumption DEF TypeOK, Fault

LEMMA Moves ==
  ASSUME TypeOK, NEW r \in Runs, NEW p \in Places, Goto(r, p)
  PROVE  pc' \in [Runs -> Places]
  BY DEF TypeOK, Goto

LEMMA Assigns ==
  ASSUME TypeOK, NEW r \in Runs, NEW j \in Jobs, Sets(r, j)
  PROVE  job' \in [Runs -> Jobs]
  BY DEF TypeOK, Sets

LEMMA ExitsType ==
  ASSUME TypeOK, NEW r \in Runs, Exits(r) \/ Returns(r)
  PROVE  pc' \in [Runs -> Places] /\ job' \in [Runs -> Jobs]
<1>1. "idle" \in Places /\ "release" \in Places
  BY DEF Places
<1> QED
  BY <1>1, FreshIsJob, Moves, Assigns DEF Exits, Returns

LockType == lock' \in [by : Runs \cup {Nobody}, holds : {"free", "blank", "pid", "old"}]
DiskType == /\ file' \in [Targets -> Files] /\ state' \in States
            /\ hand' \subseteq Targets \X Units
LEMMA DiskKept == TypeOK /\ UNCHANGED diskVars => DiskType
  BY DEF TypeOK, diskVars, DiskType

LEMMA LockStepsType ==
  ASSUME TypeOK, NEW r \in Runs,
         \/ LockCreate(r) \/ LockHeld(r) \/ LockJudgedStale(r) \/ LockUnlink(r)
         \/ LockMark(r) \/ LockRelease(r)
  PROVE  TypeOK'
<1>1. {"lock", "mark", "unlink", "read"} \subseteq Places
  BY DEF Places, Working
<1>2. CASE LockCreate(r)
  <2>1. LockType /\ pc' \in [Runs -> Places]
    BY <1>1, <1>2, Moves DEF LockCreate, LockType
  <2> QED
    BY <1>2, <2>1, QuietKeepsType, DiskKept
       DEF LockCreate, TypeOK, QuietType, DiskType, LockType
<1>3. CASE LockHeld(r)
  BY <1>3, ExitsType, QuietKeepsType, DiskKept
     DEF LockHeld, TypeOK, QuietType, DiskType
<1>4. CASE LockJudgedStale(r)
  <2>1. pc' \in [Runs -> Places]
    BY <1>1, <1>4, Moves DEF LockJudgedStale
  <2> QED
    BY <1>4, <2>1, QuietKeepsType, DiskKept
       DEF LockJudgedStale, TypeOK, QuietType, DiskType
<1>5. CASE LockUnlink(r)
  <2>1. [job[r] EXCEPT !.attempt = 2] \in Jobs
    <3>1. job[r] \in Jobs
      BY DEF TypeOK
    <3>2. \A j \in Jobs : [j EXCEPT !.attempt = 2] \in Jobs
      BY DEF Jobs
    <3> QED
      BY <3>1, <3>2
  <2>2. pc' \in [Runs -> Places] /\ job' \in [Runs -> Jobs]
    <3>1. CASE Exits(r)
      BY <3>1, ExitsType
    <3>2. CASE Goto(r, "lock") /\ Sets(r, [job[r] EXCEPT !.attempt = 2])
      BY <1>1, <3>2, <2>1, Moves, Assigns
    <3> QED
      BY <1>5, <3>1, <3>2 DEF LockUnlink
  <2>3. LockType
    BY <1>5 DEF LockUnlink, LockType
  <2> QED
    BY <1>5, <2>2, <2>3, QuietKeepsType, DiskKept
       DEF LockUnlink, TypeOK, QuietType, DiskType, LockType
<1>6. CASE LockMark(r)
  <2>1. pc' \in [Runs -> Places]
    BY <1>1, <1>6, Moves DEF LockMark
  <2>2. LockType
    BY <1>6 DEF LockMark, LockType, TypeOK
  <2>3. overlapped' \in BOOLEAN
    BY <1>6 DEF LockMark, TypeOK
  <2> QED
    BY <1>6, <2>1, <2>2, <2>3, DiskKept
       DEF LockMark, TypeOK, gatewayVars, DiskType, LockType
<1>7. CASE LockRelease(r)
  <2>1. LockType
    BY <1>7 DEF LockRelease, LockType, TypeOK
  <2> QED
    BY <1>7, <2>1, ExitsType, QuietKeepsType, DiskKept
       DEF LockRelease, TypeOK, QuietType, DiskType, LockType
<1> QED
  BY <1>2, <1>3, <1>4, <1>5, <1>6, <1>7

LEMMA BackedIsJob ==
  ASSUME TypeOK, NEW r \in Runs, NEW t \in Targets
  PROVE  Backed(r, t) \in Jobs
<1>1. job[r] \in Jobs /\ file[t] \in Files
  BY DEF TypeOK
<1>2. \A j \in Jobs, f \in Files :
        [j EXCEPT !.todo = @ \ {t}, !.done = @ \cup {t}, !.backup[t] = f] \in Jobs
  BY DEF Jobs
<1> QED
  BY <1>1, <1>2 DEF Backed

\* One file and the units whose text that changes.
LEMMA FileSet ==
  ASSUME TypeOK, NEW t \in Targets, NEW new \in Files,
         file' = [file EXCEPT ![t] = new]
  PROVE  file' \in [Targets -> Files]
  BY DEF TypeOK

LEMMA ChangedAreUnits ==
  ASSUME NEW t \in Targets, NEW new
  PROVE  Changed(t, new) \subseteq Targets \X Units
  BY DEF Changed

LEMMA ReplacesType ==
  ASSUME TypeOK, NEW r \in Runs, NEW t \in Targets,
         Replaces(r, t) \/ UNCHANGED <<file, hand>>
  PROVE  file' \in [Targets -> Files] /\ hand' \subseteq Targets \X Units
<1>1. NextFile(job[r], t) \in Files
  BY NextFileIsFile DEF TypeOK
<1>2. CASE Replaces(r, t)
  <2>1. file' = [file EXCEPT ![t] = NextFile(job[r], t)]
    BY <1>2 DEF Replaces
  <2>2. hand' \subseteq Targets \X Units
    BY <1>2, ChangedAreUnits DEF Replaces, TypeOK
  <2> QED
    BY <1>1, <2>1, <2>2, FileSet
<1>3. CASE UNCHANGED <<file, hand>>
  BY <1>3 DEF TypeOK
<1> QED
  BY <1>2, <1>3

\* The steps of runSync up to the first write.
LEMMA ReadStepsType ==
  ASSUME TypeOK, NEW r \in Runs,
         ReadTargets(r) \/ NothingNew(r) \/ FetchOk(r) \/ FetchFails(r)
  PROVE  TypeOK'
<1>1. {"fetch", "save", "write"} \subseteq Places /\ job[r] \in Jobs
  BY DEF Places, Working, TypeOK
<1>2. CASE ReadTargets(r)
  <2>1. pc' \in [Runs -> Places] /\ job' \in [Runs -> Jobs]
    <3>1. CASE Returns(r)
      BY <3>1, ExitsType
    <3>2. ASSUME Goto(r, "fetch"),
                 Sets(r, [job[r] EXCEPT !.seen = file,
                               !.was = state.was, !.etag = state.etag])
          PROVE  pc' \in [Runs -> Places] /\ job' \in [Runs -> Jobs]
      <4>1. \A j \in Jobs, f \in [Targets -> Files], x \in States :
              [j EXCEPT !.seen = f, !.was = x.was, !.etag = x.etag] \in Jobs
        BY DEF Jobs, States
      <4>2. file \in [Targets -> Files] /\ state \in States
        BY DEF TypeOK
      <4>3. [job[r] EXCEPT !.seen = file,
                    !.was = state.was, !.etag = state.etag] \in Jobs
        BY <1>1, <4>1, <4>2
      <4> QED
        BY <1>1, <3>2, <4>3, Moves, Assigns
    <3> QED
      BY <1>2, <3>1, <3>2 DEF ReadTargets
  <2> QED
    BY <1>2, <2>1, QuietKeepsType, DiskKept
       DEF ReadTargets, TypeOK, QuietType, DiskType
<1>3. CASE NothingNew(r)
  BY <1>3, ExitsType, QuietKeepsType, DiskKept
     DEF NothingNew, TypeOK, QuietType, DiskType
<1>4. CASE FetchOk(r)
  <2> DEFINE j     == [job[r] EXCEPT !.etag = rev, !.profile = profile]
             plans == {t \in Active(j) : NextFile(j, t) # j.seen[t]}
  <2>1. Sets(r, [j EXCEPT !.todo = plans])
        /\ Goto(r, IF plans = {} THEN "save" ELSE "write")
    BY <1>4 DEF FetchOk
  <2>2. j \in Jobs
    <3>1. \A i \in Jobs, e \in 0 .. MaxRev, p \in Profiles :
            [i EXCEPT !.etag = e, !.profile = p] \in Jobs
      BY DEF Jobs
    <3> QED
      BY <1>1, <3>1 DEF TypeOK
  <2>3. plans \subseteq Targets
    BY DEF Active
  <2> HIDE DEF j, plans
  <2>4. [j EXCEPT !.todo = plans] \in Jobs
    BY <2>2, <2>3 DEF Jobs
  <2>5. pc' \in [Runs -> Places] /\ job' \in [Runs -> Jobs]
    BY <1>1, <2>1, <2>4, Moves, Assigns
  <2> QED
    BY <1>4, <2>5, QuietKeepsType, DiskKept
       DEF FetchOk, TypeOK, QuietType, DiskType
<1>5. CASE FetchFails(r)
  <2>1. faults' \in 0 .. MaxFaults
    BY <1>5, FaultCounts DEF FetchFails
  <2> QED
    BY <1>5, <2>1, ExitsType, DiskKept
       DEF FetchFails, TypeOK, gatewayVars, DiskType
<1> QED
  BY <1>2, <1>3, <1>4, <1>5

\* writeTargets and rollback.
LEMMA WriteStepsType ==
  ASSUME TypeOK, NEW r \in Runs,
         WriteTarget(r) \/ TargetGone(r) \/ BackupFails(r) \/ WriteFails(r)
  PROVE  TypeOK'
<1>1. {"rollback", "save", "write"} \subseteq Places
  BY DEF Places, Working
<1>2. CASE WriteTarget(r)
  <2>1. PICK t \in Targets :
          /\ Replaces(r, t) /\ Sets(r, Backed(r, t))
          /\ Goto(r, IF job[r].todo = {t} THEN "save" ELSE "write")
    BY <1>2 DEF WriteTarget
  <2>2. file' \in [Targets -> Files] /\ hand' \subseteq Targets \X Units
    BY <2>1, ReplacesType
  <2>3. job' \in [Runs -> Jobs]
    BY <2>1, BackedIsJob, Assigns
  <2>4. pc' \in [Runs -> Places]
    BY <1>1, <2>1, Moves
  <2> QED
    BY <1>2, <2>2, <2>3, <2>4, QuietKeepsType DEF WriteTarget, TypeOK, QuietType
<1>3. CASE TargetGone(r)
  <2>1. pc' \in [Runs -> Places]
    BY <1>1, <1>3, Moves DEF TargetGone
  <2> QED
    BY <1>3, <2>1, QuietKeepsType, DiskKept
       DEF TargetGone, TypeOK, QuietType, DiskType
<1>4. CASE BackupFails(r)
  <2>1. pc' \in [Runs -> Places] /\ faults' \in 0 .. MaxFaults
    BY <1>1, <1>4, Moves, FaultCounts DEF BackupFails
  <2> QED
    BY <1>4, <2>1, QuietKeepsType, DiskKept
       DEF BackupFails, TypeOK, QuietType, DiskType
<1>5. CASE WriteFails(r)
  <2>1. PICK t \in Targets :
          /\ Replaces(r, t) \/ UNCHANGED <<file, hand>>
          /\ Sets(r, Backed(r, t))
    BY <1>5 DEF WriteFails
  <2>2. file' \in [Targets -> Files] /\ hand' \subseteq Targets \X Units
    BY <2>1, ReplacesType
  <2>3. job' \in [Runs -> Jobs]
    BY <2>1, BackedIsJob, Assigns
  <2>4. pc' \in [Runs -> Places] /\ faults' \in 0 .. MaxFaults
    BY <1>1, <1>5, Moves, FaultCounts DEF WriteFails
  <2> QED
    BY <1>5, <2>2, <2>3, <2>4, QuietKeepsType DEF WriteFails, TypeOK, QuietType
<1> QED
  BY <1>2, <1>3, <1>4, <1>5

LEMMA UndoStepsType ==
  ASSUME TypeOK, NEW r \in Runs,
         RollbackTarget(r) \/ RollbackFails(r) \/ RolledBack(r)
  PROVE  TypeOK'
<1>1. \A t \in Targets : [job[r] EXCEPT !.done = @ \ {t}] \in Jobs
  <2>1. job[r] \in Jobs
    BY DEF TypeOK
  <2>2. \A j \in Jobs, t \in Targets : [j EXCEPT !.done = @ \ {t}] \in Jobs
    BY DEF Jobs
  <2> QED
    BY <2>1, <2>2
<1>2. CASE RollbackTarget(r)
  <2>1. PICK t \in Targets :
          /\ IF file[t].kind = "missing" THEN UNCHANGED <<file, hand>>
             ELSE /\ file' = [file EXCEPT ![t] = job[r].backup[t]]
                  /\ hand' = hand \cup Changed(t, job[r].backup[t])
          /\ Sets(r, [job[r] EXCEPT !.done = @ \ {t}])
    BY <1>2 DEF RollbackTarget
  <2>2. job[r].backup[t] \in Files
    BY DEF TypeOK, Jobs
  <2>3. file' \in [Targets -> Files] /\ hand' \subseteq Targets \X Units
    <3>1. CASE UNCHANGED <<file, hand>>
      BY <3>1 DEF TypeOK
    <3>2. CASE /\ file' = [file EXCEPT ![t] = job[r].backup[t]]
               /\ hand' = hand \cup Changed(t, job[r].backup[t])
      BY <2>2, <3>2, FileSet, ChangedAreUnits DEF TypeOK
    <3> QED
      BY <2>1, <3>1, <3>2
  <2>4. job' \in [Runs -> Jobs]
    BY <1>1, <2>1, Assigns
  <2> QED
    BY <1>2, <2>3, <2>4, QuietKeepsType DEF RollbackTarget, TypeOK, QuietType
<1>3. CASE RollbackFails(r)
  <2>1. PICK t \in Targets : Sets(r, [job[r] EXCEPT !.done = @ \ {t}])
    BY <1>3 DEF RollbackFails
  <2>2. job' \in [Runs -> Jobs] /\ faults' \in 0 .. MaxFaults
    BY <1>1, <1>3, <2>1, Assigns, FaultCounts DEF RollbackFails
  <2> QED
    BY <1>3, <2>2, QuietKeepsType, DiskKept
       DEF RollbackFails, TypeOK, QuietType, DiskType
<1>4. CASE RolledBack(r)
  BY <1>4, ExitsType, QuietKeepsType, DiskKept
     DEF RolledBack, TypeOK, QuietType, DiskType
<1> QED
  BY <1>2, <1>3, <1>4

LEMMA EndStepsType ==
  ASSUME TypeOK, NEW r \in Runs, SaveState(r) \/ SaveFails(r) \/ Crash(r)
  PROVE  TypeOK'
<1>1. CASE SaveState(r)
  <2>1. job[r] \in Jobs /\ 0 \in 0 .. MaxRev
    BY SyncAssumption DEF TypeOK
  <2>2. job[r].etag \in 0 .. MaxRev
    BY <2>1 DEF Jobs
  <2>3. state' \in States
    BY <1>1, <2>1, <2>2, AggregateIsText DEF SaveState, States
  <2>4. file' \in [Targets -> Files] /\ hand' \subseteq Targets \X Units
    BY <1>1 DEF SaveState, TypeOK
  <2> QED
    BY <1>1, <2>3, <2>4, ExitsType, QuietKeepsType DEF SaveState, TypeOK, QuietType
<1>2. CASE SaveFails(r)
  <2>1. faults' \in 0 .. MaxFaults
    BY <1>2, FaultCounts DEF SaveFails
  <2> QED
    BY <1>2, <2>1, ExitsType, QuietKeepsType, DiskKept
       DEF SaveFails, TypeOK, QuietType, DiskType
<1>3. CASE Crash(r)
  <2>1. faults' \in 0 .. MaxFaults
    BY <1>3, FaultCounts DEF Crash
  <2>2. LockType
    BY <1>3 DEF Crash, LockType, TypeOK
  <2> QED
    BY <1>3, <2>1, <2>2, ExitsType, QuietKeepsType, DiskKept
       DEF Crash, TypeOK, QuietType, DiskType, LockType
<1> QED
  BY <1>1, <1>2, <1>3

LEMMA StartStepsType ==
  ASSUME TypeOK, ServiceStarts \/ \E r \in Runs : UserStarts(r)
  PROVE  TypeOK'
<1>1. "lock" \in Places
  BY DEF Places
<1>2. CASE ServiceStarts
  <2>1. pc' \in [Runs -> Places] /\ job' \in [Runs -> Jobs]
    BY <1>1, <1>2, FreshIsJob, SyncAssumption, Moves, Assigns DEF ServiceStarts
  <2> QED
    BY <1>2, <2>1, DiskKept DEF ServiceStarts, TypeOK, gatewayVars, DiskType
<1>3. ASSUME NEW r \in Runs, UserStarts(r)
      PROVE  TypeOK'
  <2>1. pc' \in [Runs -> Places] /\ job' \in [Runs -> Jobs]
    BY <1>1, <1>3, FreshIsJob, Moves, Assigns DEF UserStarts
  <2>2. starts' \in 0 .. MaxStarts
    BY <1>3, SyncAssumption DEF UserStarts, TypeOK
  <2> QED
    BY <1>3, <2>1, <2>2, DiskKept DEF UserStarts, TypeOK, gatewayVars, DiskType
<1> QED
  BY <1>2, <1>3

LEMMA EnvironmentType ==
  ASSUME TypeOK, Environment
  PROVE  TypeOK'
<1>1. CASE Push
  <2>1. /\ rev' \in 0 .. MaxRev /\ profile' \in Profiles
        /\ published' = published \cup
             {<<u, profile'.listed[u]>> : u \in Listed(profile')}
    BY <1>1, SyncAssumption DEF Push, TypeOK
  <2>2. profile'.listed \in Texts
    BY <2>1 DEF Profiles
  <2>3. \A u \in Listed(profile') : u \in Units /\ profile'.listed[u] \in Values
    BY <2>2 DEF Listed, Texts
  <2>4. published' \subseteq Units \X Values
    BY <2>1, <2>3 DEF TypeOK
  <2> QED
    BY <1>1, <2>1, <2>4, DiskKept DEF Push, TypeOK, DiskType
<1>2. CASE StateLost
  <2>1. EmptyState \in States
    BY SyncAssumption DEF EmptyState, States, NoTexts, Texts
  <2>2. faults' \in 0 .. MaxFaults
    BY <1>2, FaultCounts DEF StateLost
  <2> QED
    BY <1>2, <2>1, <2>2, QuietKeepsType DEF StateLost, TypeOK, QuietType
<1>3. CASE LockGrowsOld
  <2>1. faults' \in 0 .. MaxFaults
    BY <1>3, FaultCounts DEF LockGrowsOld
  <2>2. LockType
    BY <1>3 DEF LockGrowsOld, LockType, TypeOK
  <2> QED
    BY <1>3, <2>1, <2>2, QuietKeepsType, DiskKept
       DEF LockGrowsOld, TypeOK, QuietType, DiskType, LockType
<1>4. ASSUME NEW t \in Targets, UserEdits(t)
      PROVE  TypeOK'
  <2>1. PICK new \in Files : /\ file' = [file EXCEPT ![t] = new]
                             /\ hand' = hand \cup Changed(t, new)
    BY <1>4 DEF UserEdits
  <2>2. file' \in [Targets -> Files] /\ hand' \subseteq Targets \X Units
    BY <2>1, FileSet, ChangedAreUnits DEF TypeOK
  <2>3. edits' \in 0 .. MaxEdits
    BY <1>4, SyncAssumption DEF UserEdits, TypeOK
  <2> QED
    BY <1>4, <2>2, <2>3 DEF UserEdits, TypeOK, gatewayVars
<1> QED
  BY <1>1, <1>2, <1>3, <1>4 DEF Environment

LEMMA TypeNext == TypeOK /\ [Next]_vars => TypeOK'
<1> SUFFICES ASSUME TypeOK, [Next]_vars PROVE TypeOK'
  OBVIOUS
<1>1. CASE ServiceStarts
  BY <1>1, StartStepsType
<1>2. ASSUME NEW r \in Runs, UserStarts(r) PROVE TypeOK'
  BY <1>2, StartStepsType
<1>3. ASSUME NEW r \in Runs, Advance(r) PROVE TypeOK'
  BY <1>3, LockStepsType, ReadStepsType, WriteStepsType, UndoStepsType,
     EndStepsType DEF Advance
<1>4. ASSUME NEW r \in Runs, Fails(r) PROVE TypeOK'
  BY <1>4, ReadStepsType, WriteStepsType, UndoStepsType, EndStepsType DEF Fails
<1>5. CASE Environment
  BY <1>5, EnvironmentType
<1>6. CASE UNCHANGED vars
  BY <1>6 DEF vars, gatewayVars, diskVars, TypeOK
<1> QED
  BY <1>1, <1>2, <1>3, <1>4, <1>5, <1>6 DEF Next

\* Every state of the agent, the gateway and the disk has its type, whatever
\* the runs do and whichever of their steps fail.
THEOREM TypeCorrect == Spec => []TypeOK
  BY TypeInit, TypeNext, PTL DEF Spec

-----------------------------------------------------------------------------
(* Every hash is that of a published text: the strengthening OwnTextKept   *)
(* needs, since merge overwrites what has the recorded hash.               *)

Known(x) == \A u \in Units : x[u] # NoText => <<u, x[u]>> \in published

HashInv ==
  /\ Known(profile.listed)
  /\ Known(state.was)
  /\ \A r \in Runs : Known(job[r].was) /\ Known(job[r].profile.listed)

LEMMA NoTextsKnown == Known(NoTexts)
  BY DEF Known, NoTexts

\* aggregateUnits takes each hash from the profile or from the old state.json.
LEMMA AggregateKnown ==
  ASSUME NEW j, Known(j.was), Known(j.profile.listed)
  PROVE  Known(AggregateUnits(j))
  BY DEF Known, AggregateUnits

\* A step that publishes nothing, leaves the profile and state.json as they
\* are and sets at most the job of r.
LEMMA JobStep ==
  ASSUME TypeOK, HashInv, NEW r \in Runs, NEW j,
         job' = [job EXCEPT ![r] = j],
         Known(j.was), Known(j.profile.listed),
         UNCHANGED <<profile, published, state>>
  PROVE  HashInv'
<1>1. \A q \in Runs : job'[q] = job[q] \/ job'[q] = j
  BY DEF TypeOK
<1> QED
  BY <1>1 DEF HashInv, Known

LEMMA FreshStep ==
  ASSUME TypeOK, HashInv, NEW r \in Runs,
         Exits(r) \/ Returns(r),
         UNCHANGED <<profile, published, state>>
  PROVE  HashInv'
<1>1. job' = [job EXCEPT ![r] = Fresh(FALSE)]
  BY DEF Exits, Returns, Sets
<1>2. Fresh(FALSE).was = NoTexts /\ Fresh(FALSE).profile.listed = NoTexts
  BY DEF Fresh, Unset
<1> QED
  BY <1>1, <1>2, NoTextsKnown, JobStep

LEMMA StillStep ==
  ASSUME HashInv, UNCHANGED <<profile, published, state, job>>
  PROVE  HashInv'
  BY DEF HashInv, Known

LEMMA HashInit == Init => HashInv
<1> SUFFICES ASSUME Init PROVE HashInv
  OBVIOUS
<1>1. profile.listed = NoTexts /\ state.was = NoTexts
  BY DEF Init, Unset, EmptyState
<1>2. \A r \in Runs : job[r].was = NoTexts /\ job[r].profile.listed = NoTexts
  BY DEF Init, Fresh, Unset
<1> QED
  BY <1>1, <1>2, NoTextsKnown DEF HashInv

\* A step of a run that keeps the hashes and the profile it read.
LEMMA SameHashes ==
  ASSUME TypeOK, HashInv, NEW r \in Runs, NEW j,
         j.was = job[r].was, j.profile = job[r].profile,
         Sets(r, j), UNCHANGED <<profile, published, state>>
  PROVE  HashInv'
  BY JobStep DEF HashInv, Sets

LEMMA StartsKeepHashes ==
  ASSUME TypeOK, HashInv, ServiceStarts \/ \E r \in Runs : UserStarts(r)
  PROVE  HashInv'
<1>1. ASSUME NEW r \in Runs, NEW adopt \in BOOLEAN, Sets(r, Fresh(adopt)),
             UNCHANGED <<profile, published, state>>
      PROVE  HashInv'
  <2>1. Fresh(adopt).was = NoTexts /\ Fresh(adopt).profile.listed = NoTexts
    BY DEF Fresh, Unset
  <2> QED
    BY <1>1, <2>1, NoTextsKnown, JobStep DEF Sets
<1>2. CASE ServiceStarts
  BY <1>1, <1>2, SyncAssumption DEF ServiceStarts, gatewayVars, diskVars
<1>3. ASSUME NEW r \in Runs, UserStarts(r) PROVE HashInv'
  BY <1>1, <1>3 DEF UserStarts, gatewayVars, diskVars
<1> QED
  BY <1>2, <1>3

LEMMA AdvanceKeepsHashes ==
  ASSUME TypeOK, HashInv, NEW r \in Runs, Advance(r)
  PROVE  HashInv'
<1>1. CASE LockCreate(r) \/ LockJudgedStale(r) \/ LockMark(r) \/ TargetGone(r)
  BY <1>1, StillStep DEF LockCreate, LockJudgedStale, LockMark, TargetGone,
                         Quiet, gatewayVars, diskVars
<1>2. CASE LockHeld(r) \/ LockRelease(r) \/ NothingNew(r) \/ RolledBack(r)
  BY <1>2, FreshStep DEF LockHeld, LockRelease, NothingNew, RolledBack,
                         Quiet, gatewayVars, diskVars
<1>3. CASE LockUnlink(r)
  <2>1. UNCHANGED <<profile, published, state>>
    BY <1>3 DEF LockUnlink, Quiet, gatewayVars, diskVars
  <2>2. CASE Exits(r)
    BY <2>1, <2>2, FreshStep
  <2>3. CASE Sets(r, [job[r] EXCEPT !.attempt = 2])
    <3>1. job[r] \in Jobs
      BY DEF TypeOK
    <3>2. /\ [job[r] EXCEPT !.attempt = 2].was = job[r].was
          /\ [job[r] EXCEPT !.attempt = 2].profile = job[r].profile
      BY <3>1 DEF Jobs
    <3> QED
      BY <2>1, <2>3, <3>2, SameHashes
  <2> QED
    BY <1>3, <2>2, <2>3 DEF LockUnlink
<1>4. CASE ReadTargets(r)
  <2>1. UNCHANGED <<profile, published, state>>
    BY <1>4 DEF ReadTargets, Quiet, gatewayVars, diskVars
  <2>2. CASE Returns(r)
    BY <2>1, <2>2, FreshStep
  <2>3. ASSUME NEW j, j = [job[r] EXCEPT !.seen = file,
                               !.was = state.was, !.etag = state.etag],
               Sets(r, j)
        PROVE  HashInv'
    <3>1. job[r] \in Jobs
      BY DEF TypeOK
    <3>2. j.was = state.was /\ j.profile = job[r].profile
      BY <2>3, <3>1 DEF Jobs
    <3> QED
      BY <2>1, <2>3, <3>2, JobStep DEF HashInv, Sets
  <2> QED
    BY <1>4, <2>2, <2>3 DEF ReadTargets
<1>5. CASE FetchOk(r)
  <2>1. UNCHANGED <<profile, published, state>>
    BY <1>5 DEF FetchOk, Quiet, gatewayVars, diskVars
  <2>2. PICK S : Sets(r, [[job[r] EXCEPT !.etag = rev, !.profile = profile]
                             EXCEPT !.todo = S])
    BY <1>5 DEF FetchOk
  <2> DEFINE j == [[job[r] EXCEPT !.etag = rev, !.profile = profile]
                      EXCEPT !.todo = S]
  <2>3. job[r] \in Jobs
    BY DEF TypeOK
  <2>4. j.was = job[r].was /\ j.profile = profile
    BY <2>3 DEF Jobs
  <2>5. Sets(r, j)
    BY <2>2
  <2> HIDE DEF j
  <2> QED
    BY <2>1, <2>4, <2>5, JobStep DEF HashInv, Sets
<1>6. CASE WriteTarget(r)
  <2>1. UNCHANGED <<profile, published, state>>
    BY <1>6 DEF WriteTarget, Quiet, gatewayVars
  <2>2. PICK t \in Targets : Sets(r, Backed(r, t))
    BY <1>6 DEF WriteTarget
  <2>3. Backed(r, t).was = job[r].was /\ Backed(r, t).profile = job[r].profile
    BY DEF TypeOK, Jobs, Backed
  <2> QED
    BY <2>1, <2>2, <2>3, SameHashes
<1>7. CASE RollbackTarget(r)
  <2>1. UNCHANGED <<profile, published, state>>
    BY <1>7 DEF RollbackTarget, Quiet, gatewayVars
  <2>2. PICK t \in Targets : Sets(r, [job[r] EXCEPT !.done = @ \ {t}])
    BY <1>7 DEF RollbackTarget
  <2>3. /\ [job[r] EXCEPT !.done = @ \ {t}].was = job[r].was
        /\ [job[r] EXCEPT !.done = @ \ {t}].profile = job[r].profile
    BY DEF TypeOK, Jobs
  <2> QED
    BY <2>1, <2>2, <2>3, SameHashes
<1>8. CASE SaveState(r)
  <2>1. /\ state'.was = AggregateUnits(job[r])
        /\ UNCHANGED <<profile, published>>
        /\ job' = [job EXCEPT ![r] = Fresh(FALSE)]
    BY <1>8 DEF SaveState, Returns, Sets, Quiet, gatewayVars
  <2>2. Known(AggregateUnits(job[r]))
    BY AggregateKnown DEF HashInv
  <2>3. \A q \in Runs : job'[q] = job[q] \/ job'[q] = Fresh(FALSE)
    BY <2>1 DEF TypeOK
  <2>4. Fresh(FALSE).was = NoTexts /\ Fresh(FALSE).profile.listed = NoTexts
    BY DEF Fresh, Unset
  <2> HIDE DEF AggregateUnits
  <2>5. Known(state'.was) /\ Known(profile'.listed)
    BY <2>1, <2>2 DEF HashInv
  <2>6. \A q \in Runs : Known(job'[q].was) /\ Known(job'[q].profile.listed)
    BY <2>3, <2>4, NoTextsKnown DEF HashInv
  <2> QED
    BY <2>1, <2>5, <2>6 DEF HashInv, Known
<1> QED
  BY <1>1, <1>2, <1>3, <1>4, <1>5, <1>6, <1>7, <1>8 DEF Advance

LEMMA FailsKeepHashes ==
  ASSUME TypeOK, HashInv, NEW r \in Runs, Fails(r)
  PROVE  HashInv'
<1>1. CASE BackupFails(r)
  BY <1>1, StillStep DEF BackupFails, Quiet, gatewayVars, diskVars
<1>2. CASE FetchFails(r) \/ SaveFails(r) \/ Crash(r)
  BY <1>2, FreshStep DEF FetchFails, SaveFails, Crash, Quiet, gatewayVars, diskVars
<1>3. CASE WriteFails(r)
  <2>1. UNCHANGED <<profile, published, state>>
    BY <1>3 DEF WriteFails, Quiet, gatewayVars
  <2>2. PICK t \in Targets : Sets(r, Backed(r, t))
    BY <1>3 DEF WriteFails
  <2>3. Backed(r, t).was = job[r].was /\ Backed(r, t).profile = job[r].profile
    BY DEF TypeOK, Jobs, Backed
  <2> QED
    BY <2>1, <2>2, <2>3, SameHashes
<1>4. CASE RollbackFails(r)
  <2>1. UNCHANGED <<profile, published, state>>
    BY <1>4 DEF RollbackFails, Quiet, gatewayVars, diskVars
  <2>2. PICK t \in Targets : Sets(r, [job[r] EXCEPT !.done = @ \ {t}])
    BY <1>4 DEF RollbackFails
  <2>3. /\ [job[r] EXCEPT !.done = @ \ {t}].was = job[r].was
        /\ [job[r] EXCEPT !.done = @ \ {t}].profile = job[r].profile
    BY DEF TypeOK, Jobs
  <2> QED
    BY <2>1, <2>2, <2>3, SameHashes
<1> QED
  BY <1>1, <1>2, <1>3, <1>4 DEF Fails

LEMMA EnvironmentKeepsHashes ==
  ASSUME TypeOK, HashInv, Environment
  PROVE  HashInv'
<1>1. CASE Push
  <2>1. /\ published' = published \cup
             {<<u, profile'.listed[u]>> : u \in Listed(profile')}
        /\ UNCHANGED <<state, job>>
    BY <1>1 DEF Push, diskVars
  <2>2. \A u \in Units : profile'.listed[u] # NoText =>
                           <<u, profile'.listed[u]>> \in published'
    BY <2>1 DEF Listed
  <2>3. published \subseteq published'
    BY <2>1
  <2> QED
    BY <2>1, <2>2, <2>3 DEF HashInv, Known
<1>2. CASE StateLost
  <2>1. state'.was = NoTexts /\ UNCHANGED <<profile, published, job>>
    BY <1>2 DEF StateLost, EmptyState, Quiet, gatewayVars
  <2> QED
    BY <2>1, NoTextsKnown DEF HashInv, Known
<1>3. CASE LockGrowsOld \/ \E t \in Targets : UserEdits(t)
  BY <1>3, StillStep DEF LockGrowsOld, UserEdits, Quiet, gatewayVars, diskVars
<1> QED
  BY <1>1, <1>2, <1>3 DEF Environment

LEMMA HashNext == TypeOK /\ HashInv /\ [Next]_vars => HashInv'
<1> SUFFICES ASSUME TypeOK, HashInv, [Next]_vars PROVE HashInv'
  OBVIOUS
<1>1. CASE UNCHANGED vars
  BY <1>1, StillStep DEF vars, gatewayVars, diskVars
<1> QED
  BY <1>1, StartsKeepHashes, AdvanceKeepsHashes, FailsKeepHashes,
     EnvironmentKeepsHashes DEF Next

\* Every hash in state.json, and every hash and text a run is about to act on,
\* is one that some revision of the profile had (readState, aggregateUnits and
\* the write of state.json in runSync).
THEOREM HashesArePublished == Spec => []HashInv
  BY TypeInit, TypeNext, HashInit, HashNext, PTL DEF Spec

-----------------------------------------------------------------------------
(* OwnTextKept.                                                            *)

\* The write itself: what replaces a text that was read is what merge made of
\* it, and merge only overwrites what has the recorded hash.
LEMMA WriteKeepsOwn ==
  ASSUME TypeOK, HashInv, NEW r \in Runs, NEW x \in Targets,
         Replaces(r, x), ~ job[r].adopt,
         NEW t \in Targets, NEW u \in Units,
         file'[t].text[u] # file[t].text[u], file[t].text[u] # NoText,
         <<u, file[t].text[u]>> \notin published
  PROVE  job[r].seen[t].text[u] # file[t].text[u]
<1> SUFFICES ASSUME job[r].seen[t].text[u] = file[t].text[u] PROVE FALSE
  OBVIOUS
<1> DEFINE old == job[r].seen[t].text
           new == Merged(job[r].profile, job[r].was, old, job[r].adopt)
<1>1. t = x /\ file'[t] = NextFile(job[r], t)
  BY DEF Replaces, TypeOK
<1>2. file'[t].text = new
  BY <1>1 DEF NextFile
<1>3. new[u] # old[u] /\ old[u] # NoText
  BY <1>2
<1>4. job[r].was[u] # NoText /\ old[u] = job[r].was[u]
  BY <1>3, OnlyAppliedChanges
<1>5. <<u, old[u]>> \in published
  BY <1>4 DEF HashInv, Known
<1> QED
  BY <1>5

\* Any other step leaves the files, or the run's list of what it wrote.
LEMMA OtherStepsKeepOwn ==
  ASSUME TypeOK, [Next]_vars,
         NEW r \in Runs, pc[r] = "write", job'[r].done # job[r].done,
         file' # file
  PROVE  \E x \in Targets : Replaces(r, x)
<1>1. ASSUME NEW q \in Runs, q # r, NEW j, Sets(q, j)
      PROVE  FALSE
  BY <1>1 DEF Sets, TypeOK
<1>2. ASSUME NEW q \in Runs, WriteTarget(q) \/ WriteFails(q)
      PROVE  \E x \in Targets : Replaces(r, x)
  <2>1. PICK x \in Targets : /\ Replaces(q, x) \/ UNCHANGED <<file, hand>>
                             /\ Sets(q, Backed(q, x))
    BY <1>2 DEF WriteTarget, WriteFails
  <2>2. q = r
    BY <1>1, <2>1
  <2> QED
    BY <2>1, <2>2
<1>3. ASSUME NEW q \in Runs, RollbackTarget(q)
      PROVE  FALSE
  <2>1. PICK x \in Targets : Sets(q, [job[q] EXCEPT !.done = @ \ {x}])
    BY <1>3 DEF RollbackTarget
  <2>2. q = r
    BY <1>1, <2>1
  <2> QED
    BY <1>3, <2>2 DEF RollbackTarget
<1>4. ASSUME NEW t \in Targets, UserEdits(t)
      PROVE  FALSE
  BY <1>4 DEF UserEdits
<1>5. ASSUME NEW q \in Runs, Advance(q), ~ WriteTarget(q), ~ RollbackTarget(q)
      PROVE  FALSE
  BY <1>5 DEF Advance, LockCreate, LockHeld, LockJudgedStale, LockUnlink, LockMark,
     LockRelease, ReadTargets, NothingNew, FetchOk, TargetGone, RolledBack,
     SaveState, diskVars
<1>6. ASSUME NEW q \in Runs, Fails(q), ~ WriteFails(q)
      PROVE  FALSE
  BY <1>6 DEF Fails, FetchFails, BackupFails, RollbackFails, SaveFails, Crash,
     diskVars
<1>7. ServiceStarts \/ (\E q \in Runs : UserStarts(q)) \/ Push \/ StateLost
        \/ LockGrowsOld \/ UNCHANGED vars => FALSE
  BY DEF ServiceStarts, UserStarts, Push, StateLost, LockGrowsOld, vars, diskVars
<1> QED
  BY <1>2, <1>3, <1>4, <1>5, <1>6, <1>7 DEF Next, Environment

LEMMA OwnStep == TypeOK /\ HashInv /\ [Next]_vars => KeepsOwnText
<1> SUFFICES ASSUME TypeOK, HashInv, [Next]_vars PROVE KeepsOwnText
  OBVIOUS
<1> SUFFICES
      ASSUME NEW r \in Runs, NEW t \in Targets, NEW u \in Units,
             pc[r] = "write", job'[r].done # job[r].done, ~ job[r].adopt,
             file'[t].text[u] # file[t].text[u], file[t].text[u] # NoText,
             <<u, file[t].text[u]>> \notin published
      PROVE  job[r].seen[t].text[u] # file[t].text[u]
  BY DEF KeepsOwnText
<1>1. file' # file
  OBVIOUS
<1>2. PICK x \in Targets : Replaces(r, x)
  BY <1>1, OtherStepsKeepOwn
<1> QED
  BY <1>2, WriteKeepsOwn

\* A run without --adopt-sot never overwrites or removes a text that it had
\* read and that was in no revision of the profile, however runs overlap and
\* whatever fails: for any files, units, revisions and runs.
THEOREM OwnTextIsKept == Spec => OwnTextKept
  BY OwnStep, TypeInit, TypeNext, HashInit, HashNext, PTL
     DEF Spec, OwnTextKept

-----------------------------------------------------------------------------
(* CleanMeansSynced.                                                       *)

\* What a clean run leaves of a unit, and what may happen to it since.
AsListed(p, t, u) == file[t].text[u] = p.listed[u] \/ <<t, u>> \in hand
\* A file as a run read it, but for what the user has changed.
AsRead(j, t, u) == file[t].text[u] = j.seen[t].text[u] \/ <<t, u>> \in hand

\* The runs past the lock, one at most.
OneRun == \A q, r \in Runs : pc[q] \in Working /\ pc[r] \in Working => q = r
\* No etag is ahead of the gateway's.
EtagsPast == state.etag <= rev /\ \A r \in Runs : job[r].etag <= rev
\* A run that has fetched and not failed: what it has merged is the profile of
\* its etag, and the files it does not have to write any more are as listed.
Merging == {"write", "save"}
DoneListed(j) ==
    j.etag = rev =>
        /\ j.profile = profile
        /\ \A t \in Active(j) \ j.todo : \A u \in Managed(profile) \ InConflict(j, t) :
              AsListed(profile, t, u)
RunInv(r) ==
    /\ pc[r] = "fetch" => \A t \in Targets, u \in Units : AsRead(job[r], t, u)
    /\ pc[r] \in Merging => state.etag <= job[r].etag /\ DoneListed(job[r])
    /\ pc[r] = "save" => job[r].todo = {}
EtagInv ==
    state.etag = rev /\ rev # 0 =>
        \A t \in Targets, u \in Managed(profile) : AsListed(profile, t, u)
SyncInv ==
    /\ EtagsPast
    /\ ~ overlapped => OneRun /\ EtagInv /\ \A r \in Runs : RunInv(r)

LEMMA Etags ==
  ASSUME TypeOK
  PROVE  rev \in Nat /\ state.etag \in Nat /\ \A r \in Runs : job[r].etag \in Nat
  BY SyncAssumption DEF TypeOK, States, Jobs

\* The unit is as it was, or the user's.
KeptAt(t, u) ==
    \/ file'[t].text[u] = file[t].text[u] /\ (<<t, u>> \in hand => <<t, u>> \in hand')
    \/ <<t, u>> \in hand'
Kept == \A t \in Targets, u \in Units : KeptAt(t, u)

LEMMA StillKept == UNCHANGED <<file, hand>> => Kept
  BY DEF Kept, KeptAt

LEMMA SetKept ==
  ASSUME TypeOK, NEW x \in Targets, NEW new,
         file' = [file EXCEPT ![x] = new], hand' = hand \cup Changed(x, new)
  PROVE  Kept
<1> SUFFICES ASSUME NEW t \in Targets, NEW u \in Units PROVE KeptAt(t, u)
  BY DEF Kept
<1>1. CASE t = x /\ file[t].text[u] # new.text[u]
  BY <1>1 DEF KeptAt, Changed
<1>2. CASE t # x \/ file[t].text[u] = new.text[u]
  <2>1. file'[t].text[u] = file[t].text[u]
    BY <1>2 DEF TypeOK
  <2> QED
    BY <2>1 DEF KeptAt
<1> QED
  BY <1>1, <1>2

\* What a write leaves as listed: what was, and what merge puts there.
LEMMA WriteLists ==
  ASSUME TypeOK, NEW r \in Runs, NEW x \in Targets, Replaces(r, x),
         NEW t \in Targets, NEW u \in Units,
         \/ AsListed(job[r].profile, t, u)
         \/ t = x /\ u \in Managed(job[r].profile) \ InConflict(job[r], x)
  PROVE  file'[t].text[u] = job[r].profile.listed[u] \/ <<t, u>> \in hand'
<1> DEFINE new == NextFile(job[r], x)
           put == {x} \X (Managed(job[r].profile) \ InConflict(job[r], x))
<1>1. file' = [file EXCEPT ![x] = new] /\ hand' = (hand \ put) \cup (Changed(x, new) \ put)
  BY DEF Replaces
<1>2. \A v \in Managed(job[r].profile) \ InConflict(job[r], x) :
        v \in Units => new.text[v] = job[r].profile.listed[v]
  BY DEF NextFile, Merged, InConflict
<1> HIDE DEF new
<1>3. CASE <<t, u>> \in put
  BY <1>1, <1>2, <1>3 DEF TypeOK
<1>4. CASE <<t, u>> \notin put
  <2>1. AsListed(job[r].profile, t, u)
    BY <1>4
  <2>2. CASE <<t, u>> \in hand
    BY <1>1, <1>4, <2>2
  <2>3. CASE <<t, u>> \notin hand /\ t = x /\ file[t].text[u] # new.text[u]
    BY <1>1, <1>4, <2>3 DEF Changed
  <2>4. CASE <<t, u>> \notin hand /\ (t # x \/ file[t].text[u] = new.text[u])
    <3>1. file'[t].text[u] = file[t].text[u]
      BY <1>1, <2>4 DEF TypeOK
    <3> QED
      BY <2>1, <2>4, <3>1 DEF AsListed
  <2> QED
    BY <2>2, <2>3, <2>4
<1> QED
  BY <1>3, <1>4

\* A run that this step does not touch.
LEMMA OtherRun ==
  ASSUME TypeOK, NEW q \in Runs, RunInv(q), Kept, UNCHANGED <<rev, profile>>,
         pc'[q] = pc[q], job'[q] = job[q],
         state' \in {state, EmptyState}
  PROVE  RunInv(q)'
<1>1. job[q].etag \in Nat /\ state'.etag \in {state.etag, 0} /\ state.etag \in Nat
  BY Etags DEF EmptyState
<1>2. \A t \in Targets, u \in Units : AsRead(job[q], t, u) => AsRead(job[q], t, u)'
  BY DEF AsRead, Kept, KeptAt
<1>3. \A t \in Targets, u \in Units :
        AsListed(profile, t, u) => AsListed(profile, t, u)'
  BY DEF AsListed, Kept, KeptAt
<1>4. DoneListed(job[q]) => DoneListed(job[q])'
  <2> SUFFICES ASSUME DoneListed(job[q]), job[q].etag = rev
               PROVE  /\ job[q].profile = profile
                      /\ \A t \in Active(job[q]) \ job[q].todo :
                           \A u \in Managed(profile) \ InConflict(job[q], t) :
                             AsListed(profile, t, u)'
    BY DEF DoneListed, Active, InConflict
  <2>1. Active(job[q]) \subseteq Targets /\ Managed(profile) \subseteq Units
    BY DEF Active, Managed, Listed, Tombstones, TypeOK, Profiles
  <2> QED
    BY <1>3, <2>1 DEF DoneListed
<1>5. pc[q] = "fetch" => \A t \in Targets, u \in Units : AsRead(job[q], t, u)'
  BY <1>2 DEF RunInv
<1>6. pc[q] \in Merging => state'.etag <= job[q].etag /\ DoneListed(job[q])'
  BY <1>1, <1>4 DEF RunInv
<1> QED
  BY <1>5, <1>6 DEF RunInv

LEMMA ManagedUnits == TypeOK => Managed(profile) \subseteq Units
  BY DEF Managed, Listed, Tombstones, TypeOK, Profiles

LEMMA EtagKept ==
  ASSUME TypeOK, EtagInv, Kept, UNCHANGED <<rev, profile>>,
         state' \in {state, EmptyState}
  PROVE  EtagInv'
<1> SUFFICES ASSUME state'.etag = rev, rev # 0,
                    NEW t \in Targets, NEW u \in Managed(profile)
             PROVE  AsListed(profile, t, u)'
  BY DEF EtagInv
<1>1. state' = state
  BY DEF EmptyState
<1>2. AsListed(profile, t, u) /\ KeptAt(t, u)
  BY <1>1, ManagedUnits DEF EtagInv, Kept
<1> QED
  BY <1>2 DEF AsListed, KeptAt

\* A step of no run, or of the user, or one that a run is no part of.
LEMMA BesideRuns ==
  ASSUME TypeOK, SyncInv, Kept, UNCHANGED <<rev, profile, pc, job, overlapped>>,
         state' \in {state, EmptyState}
  PROVE  SyncInv'
<1>1. EtagsPast'
  BY Etags DEF SyncInv, EtagsPast, EmptyState
<1>2. ASSUME ~ overlapped PROVE OneRun' /\ EtagInv' /\ \A r \in Runs : RunInv(r)'
  <2>1. OneRun /\ EtagInv /\ \A r \in Runs : RunInv(r)
    BY <1>2 DEF SyncInv
  <2>2. OneRun'
    BY <2>1 DEF OneRun
  <2>3. EtagInv'
    BY <2>1, EtagKept
  <2>4. \A r \in Runs : RunInv(r)'
    BY <2>1, OtherRun
  <2> QED
    BY <2>2, <2>3, <2>4
<1> QED
  BY <1>1, <1>2 DEF SyncInv

\* Nobody else is past the lock when r is.
Alone(r) == overlapped' \/ \A q \in Runs \ {r} : pc[q] \notin Working
LEMMA WorkingAlone ==
  ASSUME SyncInv, NEW r \in Runs, pc[r] \in Working, UNCHANGED overlapped
  PROVE  Alone(r)
  BY DEF SyncInv, OneRun, Alone

\* One run moves.
Steps(r, p, j) == Goto(r, p) /\ job' = [job EXCEPT ![r] = j]
LEMMA AloneAfter ==
  ASSUME TypeOK, NEW r \in Runs, NEW p, Goto(r, p), OneRun, ~ overlapped',
         p \in Working => Alone(r)
  PROVE  OneRun'
<1>1. \A q \in Runs : pc'[q] = IF q = r THEN p ELSE pc[q]
  BY DEF Goto, TypeOK
<1> QED
  BY <1>1 DEF OneRun, Alone

\* A run moves to a step where it promises nothing.
LEMMA RunMoves ==
  ASSUME TypeOK, SyncInv, NEW r \in Runs, NEW p, NEW j, Steps(r, p, j),
         p \notin Merging, p # "fetch", p \in Working => Alone(r),
         j.etag <= rev, Kept, UNCHANGED <<rev, profile>>,
         state' = state, overlapped => overlapped'
  PROVE  SyncInv'
<1>1. \A q \in Runs \ {r} : pc'[q] = pc[q] /\ job'[q] = job[q]
  BY DEF Steps, Goto, TypeOK
<1>2. pc'[r] = p /\ job'[r] = j
  BY DEF Steps, Goto, TypeOK
<1>3. EtagsPast'
  BY <1>1, <1>2 DEF SyncInv, EtagsPast
<1>4. ASSUME ~ overlapped' PROVE OneRun' /\ EtagInv' /\ \A q \in Runs : RunInv(q)'
  <2>1. OneRun /\ EtagInv /\ \A q \in Runs : RunInv(q)
    BY <1>4 DEF SyncInv
  <2>2. OneRun'
    BY <1>4, <2>1, AloneAfter DEF Steps
  <2>3. EtagInv'
    BY <2>1, EtagKept
  <2>4. \A q \in Runs \ {r} : RunInv(q)'
    BY <1>1, <2>1, OtherRun
  <2>5. RunInv(r)'
    BY <1>2 DEF RunInv, Merging
  <2> QED
    BY <2>2, <2>3, <2>4, <2>5
<1> QED
  BY <1>3, <1>4 DEF SyncInv

LEMMA FreshEtag == TypeOK => \A a \in BOOLEAN : Fresh(a).etag <= rev
  BY Etags DEF Fresh

LEMMA LeavesSync ==
  ASSUME TypeOK, SyncInv, NEW r \in Runs, Exits(r) \/ Returns(r),
         Kept, UNCHANGED <<rev, profile>>, state' = state, UNCHANGED overlapped
  PROVE  SyncInv'
<1>1. PICK p \in {"idle", "release"} : Steps(r, p, Fresh(FALSE))
  BY DEF Exits, Returns, Sets, Steps
<1>2. p \notin Working /\ p \notin Merging /\ p # "fetch"
  BY DEF Working, Merging
<1> QED
  BY <1>1, <1>2, RunMoves, FreshEtag

LEMMA StartsKeepSync ==
  ASSUME TypeOK, SyncInv, ServiceStarts \/ \E r \in Runs : UserStarts(r)
  PROVE  SyncInv'
<1>1. PICK r \in Runs, a \in BOOLEAN :
        /\ Goto(r, "lock") /\ Sets(r, Fresh(a))
        /\ UNCHANGED <<gatewayVars, diskVars, overlapped>>
  BY SyncAssumption DEF ServiceStarts, UserStarts
<1>2. Steps(r, "lock", Fresh(a)) /\ Kept
  BY <1>1, StillKept DEF Sets, Steps, diskVars
<1>3. "lock" \notin Working /\ "lock" \notin Merging
  BY DEF Working, Merging
<1> QED
  BY <1>1, <1>2, <1>3, RunMoves, FreshEtag DEF gatewayVars, diskVars

\* A step that changes where the run is, and not what it has.
LEMMA PlaceOnly ==
  ASSUME TypeOK, SyncInv, NEW r \in Runs, NEW p, Goto(r, p), job' = job,
         p \notin Merging, p # "fetch", p \in Working => Alone(r),
         UNCHANGED <<gatewayVars, diskVars>>, overlapped => overlapped'
  PROVE  SyncInv'
<1>1. Steps(r, p, job[r])
  BY DEF Steps, TypeOK
<1>2. Kept
  BY StillKept DEF diskVars
<1>3. job[r].etag <= rev
  BY DEF SyncInv, EtagsPast
<1> QED
  BY <1>1, <1>2, <1>3, RunMoves DEF gatewayVars, diskVars

LEMMA LockKeepsSync ==
  ASSUME TypeOK, SyncInv, NEW r \in Runs,
         \/ LockCreate(r) \/ LockHeld(r) \/ LockJudgedStale(r) \/ LockUnlink(r)
         \/ LockMark(r) \/ LockRelease(r)
  PROVE  SyncInv'
<1>1. {"mark", "unlink", "lock", "read"} \cap Merging = {}
  BY DEF Merging
<1>2. {"mark", "unlink", "lock"} \cap Working = {}
  BY DEF Working
<1>3. UNCHANGED <<file, hand>> => Kept
  BY StillKept
<1>4. CASE LockCreate(r)
  BY <1>1, <1>2, <1>4, PlaceOnly DEF LockCreate, Quiet
<1>5. CASE LockHeld(r)
  BY <1>3, <1>5, LeavesSync DEF LockHeld, Quiet, gatewayVars, diskVars
<1>6. CASE LockJudgedStale(r)
  BY <1>1, <1>2, <1>6, PlaceOnly DEF LockJudgedStale, Quiet
<1>7. CASE LockUnlink(r)
  <2>1. UNCHANGED <<gatewayVars, diskVars, overlapped>>
    BY <1>7 DEF LockUnlink, Quiet
  <2>2. CASE Exits(r)
    BY <1>3, <2>1, <2>2, LeavesSync DEF gatewayVars, diskVars
  <2>3. CASE Goto(r, "lock") /\ Sets(r, [job[r] EXCEPT !.attempt = 2])
    <3>1. Steps(r, "lock", [job[r] EXCEPT !.attempt = 2])
      BY <2>3 DEF Steps, Sets
    <3>2. [job[r] EXCEPT !.attempt = 2].etag <= rev
      BY DEF SyncInv, EtagsPast, TypeOK, Jobs
    <3> QED
      BY <1>1, <1>2, <1>3, <2>1, <3>1, <3>2, RunMoves DEF gatewayVars, diskVars
  <2> QED
    BY <1>7, <2>2, <2>3 DEF LockUnlink
<1>8. CASE LockMark(r)
  <2>1. Goto(r, "read") /\ job' = job /\ UNCHANGED <<gatewayVars, diskVars>>
    BY <1>8 DEF LockMark
  <2>2. overlapped' = (overlapped \/ \E q \in Runs \ {r} : pc[q] \in Working)
    BY <1>8 DEF LockMark
  <2>3. Alone(r) /\ (overlapped => overlapped')
    BY <2>2 DEF Alone
  <2> QED
    BY <1>1, <2>1, <2>3, PlaceOnly
<1>9. CASE LockRelease(r)
  BY <1>3, <1>9, LeavesSync DEF LockRelease, Quiet, gatewayVars, diskVars
<1> QED
  BY <1>4, <1>5, <1>6, <1>7, <1>8, <1>9

\* A run moves and what it will go on to do is shown by the caller.
LEMMA RunPromises ==
  ASSUME TypeOK, SyncInv, NEW r \in Runs, NEW p, NEW j, Steps(r, p, j),
         pc[r] \in Working, UNCHANGED <<rev, profile, overlapped, state>>,
         j.etag <= rev,
         ~ overlapped => EtagInv' /\ RunInv(r)'
  PROVE  SyncInv'
<1>1. \A q \in Runs \ {r} : pc'[q] = pc[q] /\ job'[q] = job[q]
  BY DEF Steps, Goto, TypeOK
<1>2. job'[r] = j
  BY DEF Steps, TypeOK
<1>3. EtagsPast'
  BY <1>1, <1>2 DEF SyncInv, EtagsPast
<1>4. ASSUME ~ overlapped PROVE OneRun' /\ EtagInv' /\ \A q \in Runs : RunInv(q)'
  <2>1. OneRun
    BY <1>4 DEF SyncInv
  <2>2. OneRun'
    BY <1>4, <2>1, AloneAfter, WorkingAlone DEF Steps
  <2>3. ASSUME NEW q \in Runs, q # r PROVE RunInv(q)'
    <3>1. pc'[q] \notin Working
      BY <1>1, <2>1, <2>3 DEF OneRun
    <3>2. pc'[q] # "fetch" /\ pc'[q] \notin Merging /\ pc'[q] # "save"
      BY <3>1 DEF Working, Merging
    <3> QED
      BY <3>2 DEF RunInv
  <2> QED
    BY <1>4, <2>2, <2>3
<1> QED
  BY <1>3, <1>4 DEF SyncInv

LEMMA ReadKeepsSync ==
  ASSUME TypeOK, SyncInv, NEW r \in Runs, ReadTargets(r)
  PROVE  SyncInv'
<1>1. pc[r] = "read" /\ pc[r] \in Working
      /\ UNCHANGED <<file, hand, state, rev, profile, overlapped>>
  BY DEF ReadTargets, Quiet, gatewayVars, diskVars, Working
<1>2. CASE Returns(r)
  BY <1>1, <1>2, LeavesSync, StillKept
<1>3. ASSUME Goto(r, "fetch"),
             Sets(r, [job[r] EXCEPT !.seen = file,
                            !.was = state.was, !.etag = state.etag])
      PROVE  SyncInv'
  <2> DEFINE j == [job[r] EXCEPT !.seen = file,
                          !.was = state.was, !.etag = state.etag]
  <2>1. Steps(r, "fetch", j)
    BY <1>3 DEF Steps, Sets
  <2>2. j.etag = state.etag /\ j.seen = file
    BY DEF TypeOK, Jobs
  <2> HIDE DEF j
  <2>3. j.etag <= rev
    BY <2>2 DEF SyncInv, EtagsPast
  <2>4. pc'[r] = "fetch" /\ job'[r] = j
    BY <2>1 DEF Steps, Goto, TypeOK
  <2>5. RunInv(r)'
    BY <1>1, <2>2, <2>4 DEF RunInv, AsRead, Merging
  <2>6. ~ overlapped => EtagInv'
    BY <1>1, EtagKept, StillKept DEF SyncInv
  <2> QED
    BY <1>1, <2>1, <2>3, <2>5, <2>6, RunPromises
<1> QED
  BY <1>2, <1>3 DEF ReadTargets

LEMMA FetchKeepsSync ==
  ASSUME TypeOK, SyncInv, NEW r \in Runs, FetchOk(r)
  PROVE  SyncInv'
<1> DEFINE i     == [job[r] EXCEPT !.etag = rev, !.profile = profile]
           plans == {t \in Active(i) : NextFile(i, t) # i.seen[t]}
           j     == [i EXCEPT !.todo = plans]
           p     == IF plans = {} THEN "save" ELSE "write"
<1>1. Steps(r, p, j)
  BY DEF FetchOk, Steps, Sets
<1>2. pc[r] = "fetch" /\ pc[r] \in Working
      /\ UNCHANGED <<file, hand, state, rev, profile, overlapped>>
  BY DEF FetchOk, Quiet, gatewayVars, diskVars, Working
<1>3. i.etag = rev /\ i.profile = profile /\ i.seen = job[r].seen /\ i \in Jobs
  BY DEF TypeOK, Jobs
<1> HIDE DEF i
<1>4. j.etag = rev /\ j.profile = profile /\ j.seen = job[r].seen /\ j.todo = plans
      /\ j.was = i.was /\ j.adopt = i.adopt
  BY <1>3 DEF Jobs
<1>5. Active(j) = Active(i) /\ \A t : InConflict(j, t) = InConflict(i, t)
  BY <1>3, <1>4 DEF Active, InConflict
<1>6. (p = "save" => j.todo = {}) /\ p # "fetch"
  BY <1>4
<1>7. \A t \in Active(i) \ plans : NextFile(i, t) = i.seen[t] /\ t \in Targets
  BY DEF Active
<1>8. ASSUME NEW t \in Active(i) \ plans, NEW u \in Managed(profile) \ InConflict(i, t),
             \A x \in Targets, v \in Units : AsRead(job[r], x, v)
      PROVE  AsListed(profile, t, u)
  <2>1. u \in Units
    BY ManagedUnits
  <2>2. NextFile(i, t).text[u] = profile.listed[u]
    BY <1>3, <2>1 DEF NextFile, Merged, InConflict
  <2>3. job[r].seen[t].text[u] = profile.listed[u]
    BY <1>3, <1>7, <2>2
  <2> QED
    BY <1>7, <1>8, <2>1, <2>3 DEF AsRead, AsListed
<1> HIDE DEF plans, j, p
<1>9. pc'[r] = p /\ job'[r] = j
  BY <1>1 DEF Steps, Goto, TypeOK
<1>10. j.etag <= rev /\ state.etag <= j.etag
  BY <1>4, Etags DEF SyncInv, EtagsPast
<1>11. ASSUME ~ overlapped PROVE EtagInv' /\ RunInv(r)'
  <2>1. EtagInv'
    BY <1>2, <1>11, EtagKept, StillKept DEF SyncInv
  <2>2. \A x \in Targets, v \in Units : AsRead(job[r], x, v)
    BY <1>2, <1>11 DEF SyncInv, RunInv
  <2>3. \A t \in Active(j) \ j.todo : \A u \in Managed(profile) \ InConflict(j, t) :
          AsListed(profile, t, u)
    BY <1>4, <1>5, <1>8, <2>2
  <2>4. DoneListed(job[r])'
    BY <1>2, <1>4, <1>9, <2>3 DEF DoneListed, AsListed, Active, InConflict
  <2> QED
    BY <1>2, <1>6, <1>9, <1>10, <2>1, <2>4 DEF RunInv
<1> QED
  BY <1>1, <1>2, <1>10, <1>11, RunPromises

\* A write while the state has the current etag is of the current profile.
LEMMA WriteKeepsEtag ==
  ASSUME TypeOK, SyncInv, ~ overlapped, NEW r \in Runs, pc[r] = "write",
         NEW x \in Targets, Replaces(r, x) \/ UNCHANGED <<file, hand>>,
         UNCHANGED <<rev, profile, state>>
  PROVE  EtagInv'
<1>1. EtagInv /\ RunInv(r)
  BY DEF SyncInv
<1>2. CASE UNCHANGED <<file, hand>>
  BY <1>1, <1>2, EtagKept, StillKept
<1>3. CASE Replaces(r, x)
  <2>1. state.etag <= job[r].etag /\ job[r].etag <= rev /\ DoneListed(job[r])
    BY <1>1 DEF RunInv, Merging, SyncInv, EtagsPast
  <2>2. state.etag = rev => job[r].profile = profile
    BY <2>1, Etags DEF DoneListed
  <2> SUFFICES ASSUME state.etag = rev, rev # 0,
                      NEW t \in Targets, NEW u \in Managed(profile)
               PROVE  AsListed(profile, t, u)'
    BY DEF EtagInv
  <2>3. AsListed(job[r].profile, t, u) /\ u \in Units
    BY <1>1, <2>2, ManagedUnits DEF EtagInv
  <2>4. file'[t].text[u] = job[r].profile.listed[u] \/ <<t, u>> \in hand'
    BY <1>3, <2>3, WriteLists
  <2> QED
    BY <2>2, <2>4 DEF AsListed
<1> QED
  BY <1>2, <1>3

LEMMA BackedJob ==
  ASSUME TypeOK, NEW r \in Runs, NEW x \in Targets
  PROVE  /\ Backed(r, x).etag = job[r].etag
         /\ Backed(r, x).profile = job[r].profile
         /\ Backed(r, x).todo = job[r].todo \ {x}
         /\ Active(Backed(r, x)) = Active(job[r])
         /\ \A t : InConflict(Backed(r, x), t) = InConflict(job[r], t)
<1>1. job[r] \in Jobs
  BY DEF TypeOK
<1>2. \A f : \A j \in Jobs :
        LET b == [j EXCEPT !.todo = @ \ {x}, !.done = @ \cup {x}, !.backup[x] = f]
        IN  /\ b.etag = j.etag /\ b.profile = j.profile /\ b.todo = j.todo \ {x}
            /\ b.seen = j.seen /\ b.was = j.was /\ b.adopt = j.adopt
  BY DEF Jobs
<1> QED
  BY <1>1, <1>2 DEF Backed, Active, InConflict

LEMMA WriteKeepsSync ==
  ASSUME TypeOK, SyncInv, NEW r \in Runs, WriteTarget(r)
  PROVE  SyncInv'
<1>1. PICK x \in Targets :
        /\ First(x, job[r].todo)
        /\ Replaces(r, x) /\ Sets(r, Backed(r, x))
        /\ Goto(r, IF job[r].todo = {x} THEN "save" ELSE "write")
  BY DEF WriteTarget
<1> DEFINE p == IF job[r].todo = {x} THEN "save" ELSE "write"
           b == Backed(r, x)
<1>2. pc[r] = "write" /\ pc[r] \in Working /\ pc[r] \in Merging
      /\ UNCHANGED <<state, rev, profile, overlapped>>
  BY DEF WriteTarget, Quiet, gatewayVars, Working, Merging
<1>3. Steps(r, p, b)
  BY <1>1 DEF Steps, Sets
<1>4. b.etag = job[r].etag /\ b.etag <= rev
  BY BackedJob DEF SyncInv, EtagsPast
<1>5. (p = "save" => b.todo = {}) /\ p \in Merging /\ p # "fetch"
  BY BackedJob DEF Merging
<1> HIDE DEF p, b
<1>6. pc'[r] = p /\ job'[r] = b
  BY <1>3 DEF Steps, Goto, TypeOK
<1>7. ASSUME ~ overlapped PROVE EtagInv' /\ RunInv(r)'
  <2>1. EtagInv'
    BY <1>1, <1>2, <1>7, WriteKeepsEtag
  <2>2. state.etag <= job[r].etag /\ DoneListed(job[r])
    BY <1>2, <1>7 DEF SyncInv, RunInv
  <2>3. ASSUME b.etag = rev
        PROVE  /\ b.profile = profile
               /\ \A t \in Active(b) \ b.todo :
                    \A u \in Managed(profile) \ InConflict(b, t) :
                      AsListed(profile, t, u)'
    <3>1. job[r].profile = profile /\ b.profile = profile
      BY <1>4, <2>2, <2>3, BackedJob DEF DoneListed, b
    <3>2. ASSUME NEW t \in Active(b) \ b.todo,
                 NEW u \in Managed(profile) \ InConflict(b, t)
          PROVE  AsListed(profile, t, u)'
      <4>1. t \in Active(job[r]) /\ (t \notin job[r].todo \/ t = x)
        BY BackedJob DEF b
      <4>2. t \in Targets /\ u \in Units /\ u \notin InConflict(job[r], t)
        BY <4>1, BackedJob, ManagedUnits DEF Active, b
      <4>3. \/ AsListed(job[r].profile, t, u)
            \/ t = x /\ u \in Managed(job[r].profile) \ InConflict(job[r], x)
        BY <1>4, <2>2, <2>3, <3>1, <4>1, <4>2 DEF DoneListed
      <4>4. file'[t].text[u] = job[r].profile.listed[u] \/ <<t, u>> \in hand'
        BY <1>1, <4>2, <4>3, WriteLists
      <4> QED
        BY <1>2, <3>1, <4>4 DEF AsListed
    <3> QED
      BY <3>1, <3>2
  <2>4. DoneListed(job[r])'
    BY <1>2, <1>6, <2>3 DEF DoneListed, Active, InConflict
  <2> QED
    BY <1>2, <1>4, <1>5, <1>6, <2>1, <2>2, <2>4 DEF RunInv
<1> QED
  BY <1>2, <1>3, <1>4, <1>7, RunPromises

LEMMA FailedKeepsSync ==
  ASSUME TypeOK, SyncInv, NEW r \in Runs, WriteFails(r)
  PROVE  SyncInv'
<1>1. PICK x \in Targets :
        /\ Replaces(r, x) \/ UNCHANGED <<file, hand>>
        /\ Sets(r, Backed(r, x))
  BY DEF WriteFails
<1>2. pc[r] = "write" /\ pc[r] \in Working /\ Goto(r, "rollback")
      /\ UNCHANGED <<state, rev, profile, overlapped>>
  BY DEF WriteFails, Quiet, gatewayVars, Working
<1>3. Steps(r, "rollback", Backed(r, x))
  BY <1>1, <1>2 DEF Steps, Sets
<1>4. Backed(r, x).etag <= rev
  BY BackedJob DEF SyncInv, EtagsPast
<1>5. ~ overlapped => EtagInv'
  BY <1>1, <1>2, WriteKeepsEtag
<1>6. pc'[r] = "rollback"
  BY <1>2 DEF Goto, TypeOK
<1>7. RunInv(r)'
  BY <1>6 DEF RunInv, Merging
<1> QED
  BY <1>2, <1>3, <1>4, <1>5, <1>7, RunPromises

LEMMA UndoKeepsSync ==
  ASSUME TypeOK, SyncInv, NEW r \in Runs,
         \/ TargetGone(r) \/ BackupFails(r) \/ RollbackTarget(r)
         \/ RollbackFails(r) \/ RolledBack(r)
  PROVE  SyncInv'
<1>1. {"rollback", "write"} \subseteq Working /\ "rollback" \notin Merging
  BY DEF Working, Merging
<1>2. CASE TargetGone(r) \/ BackupFails(r)
  <2>1. pc[r] = "write" /\ Goto(r, "rollback")
        /\ UNCHANGED <<diskVars, job, gatewayVars, overlapped>>
    BY <1>2 DEF TargetGone, BackupFails, Quiet
  <2> QED
    BY <1>1, <2>1, WorkingAlone, PlaceOnly
<1>3. CASE RollbackTarget(r) \/ RollbackFails(r)
  <2>1. PICK x \in Targets :
          /\ Sets(r, [job[r] EXCEPT !.done = @ \ {x}])
          /\ \/ UNCHANGED <<file, hand>>
             \/ /\ file' = [file EXCEPT ![x] = job[r].backup[x]]
                /\ hand' = hand \cup Changed(x, job[r].backup[x])
    BY <1>3 DEF RollbackTarget, RollbackFails, diskVars
  <2>2. pc[r] = "rollback" /\ pc' = pc
        /\ UNCHANGED <<state, rev, profile, overlapped>>
    BY <1>3 DEF RollbackTarget, RollbackFails, Quiet, gatewayVars, diskVars
  <2>3. Kept
    BY <2>1, SetKept, StillKept
  <2>4. Steps(r, "rollback", [job[r] EXCEPT !.done = @ \ {x}])
    BY <2>1, <2>2 DEF Steps, Sets, Goto, TypeOK
  <2>5. [job[r] EXCEPT !.done = @ \ {x}].etag <= rev
    BY DEF SyncInv, EtagsPast, TypeOK, Jobs
  <2> QED
    BY <1>1, <2>2, <2>3, <2>4, <2>5, WorkingAlone, RunMoves
<1>4. CASE RolledBack(r)
  BY <1>4, LeavesSync, StillKept DEF RolledBack, Quiet, gatewayVars, diskVars
<1> QED
  BY <1>2, <1>3, <1>4

\* A clean run has written all it had to, in all the files.
LEMMA SaveKeepsSync ==
  ASSUME TypeOK, SyncInv, NEW r \in Runs, SaveState(r)
  PROVE  SyncInv'
<1>1. pc[r] = "save" /\ pc[r] \in Merging /\ pc[r] \in Working
      /\ UNCHANGED <<file, hand, rev, profile, overlapped>>
  BY DEF SaveState, Quiet, gatewayVars, Merging, Working
<1>2. state'.etag = IF Clean(job[r]) THEN job[r].etag ELSE 0
  BY DEF SaveState
<1>3. pc'[r] = "release" /\ job'[r] = Fresh(FALSE) /\ Goto(r, "release")
  BY DEF SaveState, Returns, Goto, Sets, TypeOK
<1>4. \A q \in Runs \ {r} : pc'[q] = pc[q] /\ job'[q] = job[q]
  BY DEF SaveState, Returns, Goto, Sets, TypeOK
<1>5. EtagsPast'
  <2>1. rev' = rev /\ EtagsPast /\ rev \in Nat
    BY <1>1, Etags DEF SyncInv
  <2>2. state'.etag <= rev
    BY <1>2, <2>1 DEF EtagsPast
  <2>3. \A q \in Runs : job'[q].etag <= rev
    <3>1. Fresh(FALSE).etag <= rev
      BY FreshEtag
    <3> QED
      BY <1>3, <1>4, <2>1, <3>1 DEF EtagsPast
  <2> QED
    BY <2>1, <2>2, <2>3 DEF EtagsPast
<1>6. ASSUME ~ overlapped PROVE OneRun' /\ EtagInv' /\ \A q \in Runs : RunInv(q)'
  <2>1. OneRun /\ RunInv(r)
    BY <1>6 DEF SyncInv
  <2>2. OneRun'
    <3>1. "release" \notin Working
      BY DEF Working
    <3> QED
      BY <1>1, <1>3, <1>6, <2>1, <3>1, AloneAfter
  <2>3. EtagInv'
    <3> SUFFICES ASSUME state'.etag = rev, rev # 0,
                        NEW t \in Targets, NEW u \in Managed(profile)
                 PROVE  AsListed(profile, t, u)
      BY <1>1 DEF EtagInv, AsListed
    <3>1. Clean(job[r]) /\ job[r].etag = rev
      BY <1>2
    <3>2. DoneListed(job[r]) /\ job[r].todo = {}
      BY <1>1, <2>1 DEF RunInv
    <3>3. t \in Active(job[r]) \ job[r].todo /\ InConflict(job[r], t) = {}
      BY <3>1, <3>2 DEF Clean
    <3> QED
      BY <3>1, <3>2, <3>3 DEF DoneListed
  <2>4. \A q \in Runs : RunInv(q)'
    <3> SUFFICES ASSUME NEW q \in Runs PROVE RunInv(q)'
      OBVIOUS
    <3>1. pc'[q] \notin Working \/ q = r
      BY <1>1, <1>4, <2>1 DEF OneRun
    <3>2. pc'[q] # "fetch" /\ pc'[q] \notin Merging /\ pc'[q] # "save"
      BY <1>3, <3>1 DEF Working, Merging
    <3> QED
      BY <3>2 DEF RunInv
  <2> QED
    BY <2>2, <2>3, <2>4
<1> QED
  BY <1>1, <1>5, <1>6 DEF SyncInv

LEMMA EndKeepsSync ==
  ASSUME TypeOK, SyncInv, NEW r \in Runs,
         NothingNew(r) \/ FetchFails(r) \/ SaveFails(r) \/ Crash(r)
  PROVE  SyncInv'
<1>1. (Exits(r) \/ Returns(r)) /\ UNCHANGED <<diskVars, gatewayVars, overlapped>>
  BY DEF NothingNew, FetchFails, SaveFails, Crash, Quiet
<1> QED
  BY <1>1, LeavesSync, StillKept DEF gatewayVars, diskVars

LEMMA EnvironmentKeepsSync ==
  ASSUME TypeOK, SyncInv, Environment
  PROVE  SyncInv'
<1>1. CASE Push
  <2>1. rev' = rev + 1 /\ UNCHANGED <<file, hand, state, pc, job, overlapped>>
    BY <1>1 DEF Push, diskVars
  <2>2. state.etag < rev' /\ \A r \in Runs : job[r].etag < rev'
    BY <2>1, Etags DEF SyncInv, EtagsPast
  <2>3. EtagsPast' /\ EtagInv' /\ \A r \in Runs : DoneListed(job[r])'
    BY <2>1, <2>2, Etags DEF EtagsPast, EtagInv, DoneListed
  <2>4. ASSUME NEW r \in Runs, RunInv(r) PROVE RunInv(r)'
    BY <2>1, <2>3, <2>4 DEF RunInv, AsRead
  <2>5. OneRun => OneRun'
    BY <2>1 DEF OneRun
  <2> QED
    BY <2>1, <2>3, <2>4, <2>5 DEF SyncInv
<1>2. CASE StateLost
  BY <1>2, BesideRuns, StillKept DEF StateLost, Quiet, gatewayVars
<1>3. CASE LockGrowsOld
  BY <1>3, BesideRuns, StillKept DEF LockGrowsOld, Quiet, gatewayVars, diskVars
<1>4. ASSUME NEW t \in Targets, UserEdits(t) PROVE SyncInv'
  <2>1. PICK new \in Files : file' = [file EXCEPT ![t] = new]
                             /\ hand' = hand \cup Changed(t, new)
    BY <1>4 DEF UserEdits
  <2>2. Kept
    BY <2>1, SetKept
  <2> QED
    BY <1>4, <2>2, BesideRuns DEF UserEdits, gatewayVars
<1> QED
  BY <1>1, <1>2, <1>3, <1>4 DEF Environment

LEMMA SyncInit == Init => SyncInv
<1> SUFFICES ASSUME Init PROVE SyncInv
  OBVIOUS
<1>1. \A r \in Runs : pc[r] = "idle" /\ job[r] = Fresh(FALSE)
  BY DEF Init
<1>2. EtagsPast
  BY <1>1, SyncAssumption DEF Init, EtagsPast, EmptyState, Fresh
<1>3. OneRun /\ \A r \in Runs : RunInv(r)
  BY <1>1 DEF OneRun, RunInv, Working, Merging
<1>4. EtagInv
  BY DEF Init, EtagInv
<1> QED
  BY <1>2, <1>3, <1>4 DEF SyncInv

LEMMA SyncNext == TypeOK /\ SyncInv /\ [Next]_vars => SyncInv'
<1> SUFFICES ASSUME TypeOK, SyncInv, [Next]_vars PROVE SyncInv'
  OBVIOUS
<1>1. CASE UNCHANGED vars
  BY <1>1, BesideRuns, StillKept DEF vars, gatewayVars, diskVars
<1>2. ASSUME NEW r \in Runs, Advance(r) PROVE SyncInv'
  BY <1>2, LockKeepsSync, ReadKeepsSync, EndKeepsSync, FetchKeepsSync,
     WriteKeepsSync, UndoKeepsSync, SaveKeepsSync DEF Advance
<1>3. ASSUME NEW r \in Runs, Fails(r) PROVE SyncInv'
  BY <1>3, EndKeepsSync, UndoKeepsSync, FailedKeepsSync DEF Fails
<1> QED
  BY <1>1, <1>2, <1>3, StartsKeepSync, EnvironmentKeepsSync DEF Next

\* Unless two runs have been past the lock at once, an etag that makes the
\* gateway answer 304 means every unit of the profile is as it lists it or is
\* the user's, for any number of files, units, edits and faults (runSync's
\* clean, and the etag it records).
THEOREM CleanIsSynced == Spec => []CleanMeansSynced
<1>1. SyncInv => CleanMeansSynced
  BY DEF SyncInv, EtagInv, AsListed, CleanMeansSynced
<1> QED
  BY <1>1, TypeInit, TypeNext, SyncInit, SyncNext, PTL DEF Spec

=============================================================================
