------------------------------ MODULE ProfileSync ------------------------------
(***************************************************************************)
(* omo-profile-sync: the agent that merges the omo profile the gateway     *)
(* publishes into the omo model files of one machine, beside a user who    *)
(* edits the same files.                                                   *)
(*                                                                         *)
(* A service starts a run every minute and the user may start one by hand; *)
(* a pid lock is to keep them apart.  A run is a process of its own.  Its  *)
(* steps here are: each access to the lock, the reading of the targets and *)
(* of state.json, the fetch, each target's backup and write (or roll-back) *)
(* and the write of state.json.  The hash of a unit is the unit's text.    *)
(***************************************************************************)
EXTENDS Integers, FiniteSets

CONSTANTS
    NTargets,       \* models.json files; syncPaths lists them in this order
    Units,          \* "compat" and "model:<id>" keys
    Values,         \* the texts a unit may have
    NoText,         \* an absent unit; also an absent hash
    Runs, Service,  \* processes under way at once, and the service's
    Nobody,         \* a process that is gone
    MaxRev,         \* bound: revisions of the profile
    MaxEdits,       \* bound: edits of the files
    MaxStarts,      \* bound: runs the user starts
    MaxFaults       \* bound: crashes, failed calls, a lock grown old

ASSUME SyncAssumption ==
    /\ NTargets \in Nat \ {0} /\ MaxRev \in Nat
    /\ MaxEdits \in Nat /\ MaxStarts \in Nat /\ MaxFaults \in Nat
    /\ NoText \notin Values /\ Nobody \notin Runs /\ Service \in Runs

Targets  == 1 .. NTargets
Texts    == [Units -> Values \cup {NoText}]
NoTexts  == [u \in Units |-> NoText]
\* A file that parses and has providers.mahoquot is "whole"; one without it
\* is "bare".
Files    == [kind : {"whole"}, text : Texts]
              \cup [kind : {"missing", "broken", "bare"}, text : {NoTexts}]
Profiles == [listed : Texts, remove : SUBSET Units]
Unset    == [listed |-> NoTexts, remove |-> {}]
States   == [etag : 0 .. MaxRev, was : Texts]
EmptyState == [etag |-> 0, was |-> NoTexts]

VARIABLES
    rev, profile,   \* the gateway's profile
    published,      \* history: every text a unit has had in a profile
    file,           \* the targets on disk
    state,          \* state.json: the etag of the last clean run, and H
    lock,           \* the lock file: who made it, and what it holds
    pc, job,        \* the runs, and what each has in memory
    hand,           \* history: units whose text is the user's
    overlapped,     \* history: two runs have been past the lock at once
    edits, starts, faults   \* counters for the bounds

gatewayVars == <<rev, profile, published>>
diskVars    == <<file, state, hand>>
vars == <<gatewayVars, diskVars, lock, pc, job, overlapped, edits, starts, faults>>

Working == {"read", "fetch", "write", "rollback", "save"}
Places  == {"idle", "lock", "unlink", "mark", "release"} \cup Working
Jobs == [adopt : BOOLEAN, attempt : 1 .. 2, seen : [Targets -> Files],
         was : Texts, etag : 0 .. MaxRev, profile : Profiles,
         todo : SUBSET Targets, done : SUBSET Targets,
         backup : [Targets -> Files]]
NoFile == [kind |-> "missing", text |-> NoTexts]
Fresh(adopt) ==
    [adopt |-> adopt, attempt |-> 1, seen |-> [t \in Targets |-> NoFile],
     was |-> NoTexts, etag |-> 0, profile |-> Unset, todo |-> {}, done |-> {},
     backup |-> [t \in Targets |-> NoFile]]

Init ==
    /\ rev = 0 /\ profile = Unset /\ published = {}
    /\ file \in [Targets -> [kind : {"whole"}, text : Texts]]
    /\ state = EmptyState
    /\ lock = [by |-> Nobody, holds |-> "free"]
    /\ pc = [r \in Runs |-> "idle"]
    /\ job = [r \in Runs |-> Fresh(FALSE)]
    /\ hand = Targets \X Units
    /\ overlapped = FALSE
    /\ edits = 0 /\ starts = 0 /\ faults = 0

-----------------------------------------------------------------------------
(* merge: what a run makes of one file.  p is the profile, was the hashes  *)
(* of state.json, text the file's units.                                   *)

Listed(p)     == {u \in Units : p.listed[u] # NoText}
Tombstones(p) == p.remove \ Listed(p)
Managed(p)    == Listed(p) \cup Tombstones(p)

LocallyRemoved(p, was, text) ==
    {u \in Listed(p) : text[u] = NoText /\ was[u] # NoText}
LocalEdit(p, was, text) ==
    {u \in Managed(p) : text[u] # NoText /\ was[u] # NoText /\ text[u] # was[u]}
\* Mutant: a tombstone does not ask whether the model was ever synced.
UnmanagedDiffers_Listed(p, was, text) ==
    {u \in Listed(p) :
        text[u] # NoText /\ was[u] = NoText /\ text[u] # p.listed[u]}
UnmanagedDiffers(p, was, text) ==
    {u \in Managed(p) :
        text[u] # NoText /\ was[u] = NoText /\ text[u] # p.listed[u]}

Conflicts(p, was, text, adopt) ==
    LocallyRemoved(p, was, text) \cup
    IF adopt THEN {}
    ELSE LocalEdit(p, was, text) \cup UnmanagedDiffers(p, was, text)

Merged(p, was, text, adopt) ==
    [u \in Units |-> IF u \in Managed(p) \ Conflicts(p, was, text, adopt)
                     THEN p.listed[u] ELSE text[u]]

-----------------------------------------------------------------------------
(* One run, over its job.                                                  *)

Active(j) == {t \in Targets : j.seen[t].kind = "whole"}
InConflict(j, t) == Conflicts(j.profile, j.was, j.seen[t].text, j.adopt)
NextFile(j, t) == [kind |-> "whole",
                text |-> Merged(j.profile, j.was, j.seen[t].text, j.adopt)]
\* Mutant: only files skipped keep a run from being clean.
Clean_InSpiteOfConflicts(j) == Active(j) = Targets
Clean(j) == Active(j) = Targets /\ \A t \in Targets : InConflict(j, t) = {}

\* A unit in conflict in any file keeps its old hash in all of them.
AggregateUnits(j) ==
    [u \in Units |->
        IF u \in Managed(j.profile) /\ \A t \in Active(j) : u \notin InConflict(j, t)
        THEN j.profile.listed[u] ELSE j.was[u]]

Goto(r, p) == pc' = [pc EXCEPT ![r] = p]
Sets(r, j) == job' = [job EXCEPT ![r] = j]
\* The exit of a process, or the end of a run.
Exits(r) == Goto(r, "idle") /\ Sets(r, Fresh(FALSE))
\* runSync returns: what it had in memory is gone, the lock is still held.
Returns(r) == Goto(r, "release") /\ Sets(r, Fresh(FALSE))
Fault == faults < MaxFaults /\ faults' = faults + 1

Quiet == UNCHANGED <<gatewayVars, overlapped, edits, starts>>

-----------------------------------------------------------------------------
(* acquireLock and the release it returns.                                 *)

\* The service's timer.
ServiceStarts ==
    /\ pc[Service] = "idle"
    /\ Goto(Service, "lock") /\ Sets(Service, Fresh(FALSE))
    /\ UNCHANGED <<gatewayVars, diskVars, lock, overlapped, edits, starts, faults>>

\* The user runs sync.ts, with --adopt-sot or without.
UserStarts(r) ==
    /\ r # Service /\ pc[r] = "idle"
    /\ starts < MaxStarts /\ starts' = starts + 1
    /\ Goto(r, "lock")
    /\ \E adopt \in BOOLEAN : Sets(r, Fresh(adopt))
    /\ UNCHANGED <<gatewayVars, diskVars, lock, overlapped, edits, faults>>

\* openSync with O_EXCL: the file is there, and empty.
LockCreate(r) ==
    /\ pc[r] = "lock" /\ lock.holds = "free"
    /\ lock' = [by |-> r, holds |-> "blank"]
    /\ Goto(r, "mark")
    /\ UNCHANGED <<diskVars, job, faults>> /\ Quiet

\* Mutant: the pid is not asked for.
Live_AnyPid == lock.holds = "pid"
Live == lock.by \in Runs /\ lock.holds = "pid"

\* Another live run holds it: exit 0.
LockHeld(r) ==
    /\ pc[r] = "lock" /\ Live
    /\ Exits(r)
    /\ UNCHANGED <<diskVars, lock, faults>> /\ Quiet

\* No pid in it, a dead one's, or ten minutes old.
LockJudgedStale(r) ==
    /\ pc[r] = "lock" /\ lock.holds # "free" /\ ~ Live
    /\ Goto(r, "unlink")
    /\ UNCHANGED <<diskVars, lock, job, faults>> /\ Quiet

\* Mutant: attempts are not counted.
LockUnlink_AnyTimes(r) ==
    /\ pc[r] = "unlink"
    /\ lock' = [by |-> Nobody, holds |-> "free"]
    /\ IF lock.holds = "free" THEN Exits(r)
       ELSE Goto(r, "lock") /\ Sets(r, [job[r] EXCEPT !.attempt = @ + 1])
    /\ UNCHANGED <<diskVars, faults>> /\ Quiet
\* The file unlinked is whichever is there now; two attempts and the run ends.
LockUnlink(r) ==
    /\ pc[r] = "unlink"
    /\ lock' = [by |-> Nobody, holds |-> "free"]
    /\ IF lock.holds = "free" \/ job[r].attempt = 2 THEN Exits(r)
       ELSE Goto(r, "lock") /\ Sets(r, [job[r] EXCEPT !.attempt = 2])
    /\ UNCHANGED <<diskVars, faults>> /\ Quiet

\* writeSync of the pid, to the file this run made: nobody sees it when
\* another run has unlinked that file since.
LockMark(r) ==
    /\ pc[r] = "mark"
    /\ lock' = IF lock.by = r THEN [lock EXCEPT !.holds = "pid"] ELSE lock
    /\ overlapped' = (overlapped \/ \E q \in Runs \ {r} : pc[q] \in Working)
    /\ Goto(r, "read")
    /\ UNCHANGED <<gatewayVars, diskVars, job, edits, starts, faults>>

\* release(): unlinks the lock only if this run's pid is in it.
LockRelease(r) ==
    /\ pc[r] = "release"
    /\ lock' = IF lock.by = r /\ lock.holds # "blank"
               THEN [by |-> Nobody, holds |-> "free"] ELSE lock
    /\ Exits(r)
    /\ UNCHANGED <<diskVars, faults>> /\ Quiet

-----------------------------------------------------------------------------
(* runSync.                                                                *)

\* A target that does not parse, or none to work on, ends the run.
ReadTargets(r) ==
    /\ pc[r] = "read"
    /\ IF \/ \E t \in Targets : file[t].kind = "broken"
          \/ \A t \in Targets : file[t].kind # "whole"
       THEN Returns(r)
       ELSE /\ Goto(r, "fetch")
            /\ Sets(r, [job[r] EXCEPT !.seen = file,
                               !.was = state.was, !.etag = state.etag])
    /\ UNCHANGED <<diskVars, lock, faults>> /\ Quiet

\* fetchProfile with the etag that was read: 304, or revision 0.
NothingNew(r) ==
    /\ pc[r] = "fetch"
    /\ rev = 0 \/ (job[r].etag = rev /\ ~ job[r].adopt)
    /\ Returns(r)
    /\ UNCHANGED <<diskVars, lock, faults>> /\ Quiet

\* The answer is merged with what was read before the call.
FetchOk(r) ==
    /\ pc[r] = "fetch"
    /\ rev # 0 /\ (job[r].etag # rev \/ job[r].adopt)
    /\ LET j == [job[r] EXCEPT !.etag = rev, !.profile = profile]
           plans == {t \in Active(j) : NextFile(j, t) # j.seen[t]}
       IN  /\ Sets(r, [j EXCEPT !.todo = plans])
           /\ Goto(r, IF plans = {} THEN "save" ELSE "write")
    /\ UNCHANGED <<diskVars, lock, faults>> /\ Quiet

\* Unreachable, timed out, refused or malformed.
FetchFails(r) ==
    /\ pc[r] = "fetch" /\ Fault
    /\ Returns(r)
    /\ UNCHANGED <<gatewayVars, diskVars, lock, overlapped, edits, starts>>

-----------------------------------------------------------------------------
(* writeTargets: back up, write and re-read each file; on any failure put  *)
(* the backups of all that were touched back.                              *)

First(t, S) == t \in S /\ \A x \in S : t <= x
Changed(t, new) == {<<t, u>> : u \in {u \in Units : file[t].text[u] # new.text[u]}}

Backed(r, t) ==
    [job[r] EXCEPT !.todo = @ \ {t}, !.done = @ \cup {t}, !.backup[t] = file[t]]
\* The units that merge takes from the profile stop being the user's; a unit in
\* conflict is written back as it was read, over what the user set since.
Replaces(r, t) ==
    LET new == NextFile(job[r], t)
        put == {t} \X (Managed(job[r].profile) \ InConflict(job[r], t))
    IN  /\ file' = [file EXCEPT ![t] = new]
        /\ hand' = (hand \ put) \cup (Changed(t, new) \ put)

WriteTarget(r) ==
    /\ pc[r] = "write"
    /\ \E t \in Targets :
        /\ First(t, job[r].todo) /\ file[t].kind # "missing"
        /\ Replaces(r, t) /\ Sets(r, Backed(r, t))
        /\ Goto(r, IF job[r].todo = {t} THEN "save" ELSE "write")
    /\ UNCHANGED <<state, lock, faults>> /\ Quiet

\* copyFileSync fails: the file is gone.
TargetGone(r) ==
    /\ pc[r] = "write"
    /\ \E t \in Targets : First(t, job[r].todo) /\ file[t].kind = "missing"
    /\ Goto(r, "rollback")
    /\ UNCHANGED <<diskVars, lock, job, faults>> /\ Quiet

BackupFails(r) ==
    /\ pc[r] = "write" /\ Fault
    /\ Goto(r, "rollback")
    /\ UNCHANGED <<diskVars, lock, job>> /\ Quiet

\* The rename fails, or the file written does not read back.
WriteFails(r) ==
    /\ pc[r] = "write" /\ Fault
    /\ \E t \in Targets :
        /\ First(t, job[r].todo) /\ file[t].kind # "missing"
        /\ Replaces(r, t) \/ UNCHANGED <<file, hand>>
        /\ Sets(r, Backed(r, t))
    /\ Goto(r, "rollback")
    /\ UNCHANGED <<state, lock>> /\ Quiet

\* One backup put back; statSync keeps a file deleted meanwhile deleted.  The
\* units it changes are the user's again.
RollbackTarget(r) ==
    /\ pc[r] = "rollback"
    /\ \E t \in Targets :
        /\ First(t, job[r].done)
        /\ LET old == job[r].backup[t]
           IN  IF file[t].kind = "missing" THEN UNCHANGED <<file, hand>>
               ELSE /\ file' = [file EXCEPT ![t] = old]
                    /\ hand' = hand \cup Changed(t, old)
        /\ Sets(r, [job[r] EXCEPT !.done = @ \ {t}])
    /\ UNCHANGED <<state, lock, pc, faults>> /\ Quiet

\* rollback logs the failure and goes on with the next file.
RollbackFails(r) ==
    /\ pc[r] = "rollback" /\ Fault
    /\ \E t \in Targets :
        /\ First(t, job[r].done)
        /\ Sets(r, [job[r] EXCEPT !.done = @ \ {t}])
    /\ UNCHANGED <<diskVars, lock, pc>> /\ Quiet

RolledBack(r) ==
    /\ pc[r] = "rollback" /\ job[r].done = {}
    /\ Returns(r)
    /\ UNCHANGED <<diskVars, lock, faults>> /\ Quiet

\* state.json: the hashes always, the etag after a clean run only.
SaveState(r) ==
    /\ pc[r] = "save"
    /\ state' = [etag |-> IF Clean(job[r]) THEN job[r].etag ELSE 0,
                 was |-> AggregateUnits(job[r])]
    /\ Returns(r)
    /\ UNCHANGED <<file, hand, lock, faults>> /\ Quiet

SaveFails(r) ==
    /\ pc[r] = "save" /\ Fault
    /\ Returns(r)
    /\ UNCHANGED <<diskVars, lock>> /\ Quiet

\* A kill, a power cut: what the run did so far stays, its pid is dead.
Crash(r) ==
    /\ pc[r] # "idle" /\ Fault
    /\ Exits(r)
    /\ lock' = IF lock.by = r THEN [lock EXCEPT !.by = Nobody] ELSE lock
    /\ UNCHANGED diskVars /\ Quiet

-----------------------------------------------------------------------------
(* The rest of the machine, and the gateway.                               *)

\* PUT with If-Match, --push-seed's or another machine's.
Push ==
    /\ rev < MaxRev /\ rev' = rev + 1
    /\ profile' \in Profiles
    /\ published' = published \cup
           {<<u, profile'.listed[u]>> : u \in Listed(profile')}
    /\ UNCHANGED <<diskVars, lock, pc, job, overlapped, edits, starts, faults>>

\* The user edits, breaks, deletes or restores a file.
UserEdits(t) ==
    /\ edits < MaxEdits /\ edits' = edits + 1
    /\ \E new \in Files :
        /\ new # file[t]
        /\ file' = [file EXCEPT ![t] = new]
        /\ hand' = hand \cup Changed(t, new)
    /\ UNCHANGED <<gatewayVars, state, lock, pc, job, overlapped, starts, faults>>

\* state.json deleted or unreadable: readState starts from nothing.
StateLost ==
    /\ Fault
    /\ state # EmptyState /\ state' = EmptyState
    /\ UNCHANGED <<file, hand, lock, pc, job>> /\ Quiet

\* The machine slept for ten minutes with the lock held.
LockGrowsOld ==
    /\ Fault
    /\ lock.holds = "pid" /\ lock' = [lock EXCEPT !.holds = "old"]
    /\ UNCHANGED <<diskVars, pc, job>> /\ Quiet

Advance(r) ==
    \/ LockCreate(r) \/ LockHeld(r) \/ LockJudgedStale(r) \/ LockUnlink(r)
    \/ LockMark(r) \/ LockRelease(r)
    \/ ReadTargets(r) \/ NothingNew(r) \/ FetchOk(r)
    \/ WriteTarget(r) \/ TargetGone(r) \/ RollbackTarget(r) \/ RolledBack(r)
    \/ SaveState(r)
Fails(r) ==
    \/ FetchFails(r) \/ BackupFails(r) \/ WriteFails(r) \/ RollbackFails(r)
    \/ SaveFails(r) \/ Crash(r)
Environment ==
    \/ Push \/ StateLost \/ LockGrowsOld \/ \E t \in Targets : UserEdits(t)

Next ==
    \/ ServiceStarts
    \/ \E r \in Runs : UserStarts(r) \/ Advance(r) \/ Fails(r)
    \/ Environment

Spec == Init /\ [][Next]_vars

\* The timer fires every minute and a run's own steps do not wait for
\* anything but the fetch, which has a timeout.
FairSpec ==
    /\ Spec
    /\ WF_vars(ServiceStarts)
    /\ \A r \in Runs : WF_vars(Advance(r))

-----------------------------------------------------------------------------
(* Properties.                                                             *)

TypeOK ==
    /\ rev \in 0 .. MaxRev /\ profile \in Profiles
    /\ published \subseteq Units \X Values
    /\ file \in [Targets -> Files]
    /\ state \in States
    /\ lock \in [by : Runs \cup {Nobody}, holds : {"free", "blank", "pid", "old"}]
    /\ pc \in [Runs -> Places]
    /\ job \in [Runs -> Jobs]
    /\ hand \subseteq Targets \X Units
    /\ overlapped \in BOOLEAN
    /\ edits \in 0 .. MaxEdits /\ starts \in 0 .. MaxStarts
    /\ faults \in 0 .. MaxFaults

\* A step of a run without --adopt-sot does not overwrite or remove a text that
\* was never in a profile, unless the user put it there after the run had read
\* the file.
KeepsOwnText ==
    \A r \in Runs, t \in Targets, u \in Units :
        LET text == file[t].text[u]
        IN  /\ pc[r] = "write" /\ job'[r].done # job[r].done
            /\ ~ job[r].adopt
            /\ file'[t].text[u] # text /\ text # NoText
            /\ <<u, text>> \notin published
            => job[r].seen[t].text[u] # text

\* No run ever does otherwise: merge's rules, and state.json's hashes that they
\* rest on, keep what the user wrote.
OwnTextKept == [][KeepsOwnText]_vars

\* While state.json has the current etag every later run is answered 304 and
\* does nothing.  So each unit of the profile is as the profile has it, but
\* for those the user has changed; runs that overlap can break this (clean and
\* the etag in runSync).
CleanMeansSynced ==
    (state.etag = rev /\ rev # 0 /\ ~ overlapped) =>
        \A t \in Targets, u \in Managed(profile) :
            \/ file[t].kind # "whole"
            \/ file[t].text[u] = profile.listed[u]
            \/ <<t, u>> \in hand

\* What the agent owes the unit of a file: the profile's text, a conflict that
\* each run reports, or nothing since the user edited it after a clean run.
Settled(t, u) ==
    \/ rev = 0 \/ \E x \in Targets : file[x].kind = "broken"
    \/ file[t].kind # "whole" \/ u \notin Managed(profile)
    \/ file[t].text[u] = profile.listed[u]
    \/ u \in Conflicts(profile, state.was, file[t].text, FALSE)
    \/ state.etag = rev /\ <<t, u>> \in hand

\* Whatever failed or crashed, each unit is settled again and again; the
\* service's next runs repair what a run left half done (the whole of runSync,
\* started every minute).
Converges ==
    \A t \in Targets, u \in Units : []<>(overlapped \/ Settled(t, u))
=============================================================================
