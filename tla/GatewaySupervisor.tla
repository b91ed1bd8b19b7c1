-------------------------- MODULE GatewaySupervisor --------------------------
(***************************************************************************)
(* The desktop's supervision of the local gateway process: the shared      *)
(* GatewayProcess state, the commands that start, stop and restart it, one *)
(* watchdog thread per lifecycle, and the child processes themselves.      *)
(*                                                                         *)
(* Synchronous Tauri commands run on the main thread, so at most one of    *)
(* start, stop, restart and quit is under way; install_update is async and *)
(* runs beside it.  Every load or store of the shared atomics is a step of *)
(* its own.  There is no clock: a timeout may fire whenever the awaited    *)
(* condition is false, a backoff sleep may end at any time, and an uptime  *)
(* of HEALTHY_THRESHOLD is the action Age.  Locals of a thread or command  *)
(* go back to their initial value when it returns.                         *)
(*                                                                         *)
(* A child is named by the number of its launch, so a reaped pid is never  *)
(* given to another process.  Bounds: MaxLaunches children, MaxLifecycles  *)
(* watchdog threads, MaxBoots runs of the app.                             *)
(***************************************************************************)
EXTENDS Naturals

CONSTANTS
    MaxLaunches,        \* bound: child processes ever launched
    MaxLifecycles,      \* bound: watchdog threads ever started
    MaxBoots,           \* bound: times the app is started
    MaxRapidFailures,   \* MAX_RAPID_FAILURES, 5 in the code
    ZombieIsRunning,    \* kill(pid, 0) finds an exited, unreaped child (Unix)
    Commands            \* the commands the user issues

ASSUME BoundsAssumption ==
    /\ MaxLaunches \in Nat
    /\ MaxLifecycles \in Nat
    /\ MaxBoots \in Nat
    /\ MaxRapidFailures \in Nat
    /\ ZombieIsRunning \in BOOLEAN
    /\ Commands \subseteq {"start", "stop", "restart", "update", "quit", "kill"}

Children  == 1..MaxLaunches
Watchdogs == 1..MaxLifecycles
Callers   == {"main", "updater"}
NoPid     == 0

VARIABLES
    \* the operating system: children, those whose app has died, how many
    \* were launched, and whether a foreign process listens on the port
    proc, orphans, launched, foreign,
    \* GatewayProcess, and GATEWAY_CHILD_PID
    pid, mirror, stop_intended, last_failure,
    \* watchdog threads: program counter, child, failures, healthy uptime
    wpc, wchild, wfails, waged, lifecycles,
    \* commands: program counter, what follows a stop, the pid a stop loaded,
    \* the child spawn_gateway has launched, the main thread's last answer
    cpc, after, target, fresh, reply,
    \* the app itself, and whether start or restart was ever issued: history
    app, boots, respawned

osVars   == <<proc, orphans, launched, foreign>>
pidVars  == <<pid, mirror>>
flagVars == <<stop_intended, last_failure>>
wdVars   == <<wpc, wchild, wfails, waged, lifecycles>>
callVars == <<cpc, after, target, fresh, reply>>
appVars  == <<app, boots, respawned>>
vars == <<osVars, pidVars, flagVars, wdVars, callVars, appVars>>

Live          == {"starting", "listening"}
Running(c)    == proc[c] \in Live \/ (ZombieIsRunning /\ proc[c] = "zombie")
OwnListeners  == {c \in Children : proc[c] = "listening"}
PortListening == foreign \/ OwnListeners # {}

\* main() has just called spawn_gateway.
Init ==
    /\ proc = [c \in Children |-> "unborn"]
    /\ orphans = {}
    /\ launched = 0
    /\ foreign \in BOOLEAN
    /\ pid = NoPid
    /\ mirror = NoPid
    /\ stop_intended = FALSE
    /\ last_failure = FALSE
    /\ wpc = [w \in Watchdogs |-> "off"]
    /\ wchild = [w \in Watchdogs |-> NoPid]
    /\ wfails = [w \in Watchdogs |-> 0]
    /\ waged = [w \in Watchdogs |-> FALSE]
    /\ lifecycles = 0
    /\ cpc = [a \in Callers |-> IF a = "main" THEN "clearFailure" ELSE "idle"]
    /\ after = [a \in Callers |-> IF a = "main" THEN "startup" ELSE "none"]
    /\ target = [a \in Callers |-> NoPid]
    /\ fresh = NoPid
    /\ reply = "none"
    /\ app = "up"
    /\ boots = 1
    /\ respawned = FALSE

-----------------------------------------------------------------------------
(* The operating system and the children.                                  *)

SetProc(c, state) == proc' = [proc EXCEPT ![c] = state]

\* The child opens its listening socket.
ChildListens(c) ==
    /\ proc[c] = "starting"
    /\ ~PortListening
    /\ SetProc(c, "listening")
    /\ UNCHANGED <<orphans, launched, foreign, pidVars, flagVars, wdVars,
                   callVars, appVars>>

\* The child exits: a crash, a refused configuration, a busy port, or a
\* shutdown request it has honoured.
ChildExits(c) ==
    /\ proc[c] \in Live
    /\ SetProc(c, "zombie")
    /\ UNCHANGED <<orphans, launched, foreign, pidVars, flagVars, wdVars,
                   callVars, appVars>>

\* init reaps a child whose app is gone.
InitReaps(c) ==
    /\ c \in orphans
    /\ proc[c] = "zombie"
    /\ SetProc(c, "reaped")
    /\ UNCHANGED <<orphans, launched, foreign, pidVars, flagVars, wdVars,
                   callVars, appVars>>

\* A process that is not the app's takes or leaves the gateway port.
ForeignListener ==
    /\ foreign \/ ~PortListening
    /\ foreign' = ~foreign
    /\ UNCHANGED <<proc, orphans, launched, pidVars, flagVars, wdVars,
                   callVars, appVars>>

\* What launch_gateway_process does to the process table.
LaunchChild ==
    /\ launched < MaxLaunches
    /\ launched' = launched + 1
    /\ SetProc(launched + 1, "starting")
    /\ UNCHANGED <<orphans, foreign>>

-----------------------------------------------------------------------------
(* The watchdog thread: gateway_watchdog_loop.                             *)

WGoto(w, pc) == wpc' = [wpc EXCEPT ![w] = pc]

\* The thread returns.
Retire(w) ==
    /\ WGoto(w, "done")
    /\ wchild' = [wchild EXCEPT ![w] = NoPid]
    /\ wfails' = [wfails EXCEPT ![w] = 0]
    /\ waged' = [waged EXCEPT ![w] = FALSE]
    /\ UNCHANGED lifecycles

\* The child it waits for has been up for HEALTHY_THRESHOLD.
Age(w) ==
    /\ wpc[w] = "wait"
    /\ proc[wchild[w]] \in Live
    /\ waged' = [waged EXCEPT ![w] = TRUE]
    /\ UNCHANGED <<osVars, pidVars, flagVars, wpc, wchild, wfails, lifecycles,
                   callVars, appVars>>

\* Mutant: the loop goes on without waiting for the exit.
WatchdogReaps_NoWait(w) ==
    /\ wpc[w] = "wait"
    /\ WGoto(w, "clear")
    /\ UNCHANGED <<osVars, pidVars, flagVars, wchild, wfails, waged, lifecycles,
                   callVars, appVars>>

\* child.wait() returns.
WatchdogReaps(w) ==
    /\ wpc[w] = "wait"
    /\ proc[wchild[w]] = "zombie"
    /\ SetProc(wchild[w], "reaped")
    /\ WGoto(w, "clear")
    /\ UNCHANGED <<orphans, launched, foreign, pidVars, flagVars, wchild, wfails,
                   waged, lifecycles, callVars, appVars>>

\* Mutants: the cell is stored instead of exchanged, is left alone, or gets a
\* sentinel outside the pids.
ClearedPid_Store(c)    == NoPid
ClearedPid_Skip(c)     == pid
ClearedPid_Sentinel(c) == IF pid = c THEN MaxLaunches + 1 ELSE pid
ClearedMirror_Store(c) == NoPid

\* clear_gateway_pid: compare-and-exchange on each of the two cells.
ClearedPid(c)    == IF pid = c THEN NoPid ELSE pid
ClearedMirror(c) == IF mirror = c THEN NoPid ELSE mirror

WatchdogClearsPid(w) ==
    /\ wpc[w] = "clear"
    /\ pid' = ClearedPid(wchild[w])
    /\ WGoto(w, "clearMirror")
    /\ UNCHANGED <<osVars, mirror, flagVars, wchild, wfails, waged, lifecycles,
                   callVars, appVars>>

WatchdogClearsMirror(w) ==
    /\ wpc[w] = "clearMirror"
    /\ mirror' = ClearedMirror(wchild[w])
    /\ WGoto(w, "check")
    /\ UNCHANGED <<osVars, pid, flagVars, wchild, wfails, waged, lifecycles,
                   callVars, appVars>>

\* RespawnPolicy::record_exit: the failure count after this exit, and
\* whether it is one too many.
RecordExit(w) == IF waged[w] THEN 0 ELSE wfails[w] + 1

\* Mutant: one failure more than the policy allows.
TooMany_Late(w) == ~waged[w] /\ RecordExit(w) > MaxRapidFailures

TooMany(w) == ~waged[w] /\ RecordExit(w) >= MaxRapidFailures

WatchdogStops(w) ==
    /\ wpc[w] = "check"
    /\ stop_intended
    /\ Retire(w)
    /\ UNCHANGED <<osVars, pidVars, flagVars, callVars, appVars>>

WatchdogDecides(w) ==
    /\ wpc[w] = "check"
    /\ ~stop_intended
    /\ WGoto(w, IF TooMany(w) THEN "giveUp" ELSE "backoff")
    /\ wfails' = [wfails EXCEPT ![w] = RecordExit(w)]
    /\ waged' = [waged EXCEPT ![w] = FALSE]
    /\ UNCHANGED <<osVars, pidVars, flagVars, wchild, lifecycles, callVars, appVars>>

\* GiveUp: record_child_failure and return.
WatchdogGivesUp(w) ==
    /\ wpc[w] = "giveUp"
    /\ last_failure' = TRUE
    /\ Retire(w)
    /\ UNCHANGED <<osVars, pidVars, stop_intended, callVars, appVars>>

\* The backoff sleep is over and stop_intended is read once more.
WatchdogWakes(w) ==
    /\ wpc[w] = "backoff"
    /\ IF stop_intended
         THEN Retire(w)
         ELSE WGoto(w, "launch") /\ UNCHANGED <<wchild, wfails, waged, lifecycles>>
    /\ UNCHANGED <<osVars, pidVars, flagVars, callVars, appVars>>

WatchdogLaunches(w) ==
    /\ wpc[w] = "launch"
    /\ LaunchChild
    /\ wchild' = [wchild EXCEPT ![w] = launched + 1]
    /\ WGoto(w, "publish")
    /\ UNCHANGED <<pidVars, flagVars, wfails, waged, lifecycles, callVars, appVars>>

\* Mutant: the thread returns without recording why.
WatchdogLaunchFails_Silent(w) ==
    /\ wpc[w] = "launch"
    /\ Retire(w)
    /\ UNCHANGED <<osVars, pidVars, flagVars, callVars, appVars>>

\* launch_gateway_process failed: record_failure and return.
WatchdogLaunchFails(w) ==
    /\ wpc[w] = "launch"
    /\ last_failure' = TRUE
    /\ Retire(w)
    /\ UNCHANGED <<osVars, pidVars, stop_intended, callVars, appVars>>

WatchdogPublishesPid(w) ==
    /\ wpc[w] = "publish"
    /\ pid' = wchild[w]
    /\ WGoto(w, "publishMirror")
    /\ UNCHANGED <<osVars, mirror, flagVars, wchild, wfails, waged, lifecycles,
                   callVars, appVars>>

WatchdogPublishesMirror(w) ==
    /\ wpc[w] = "publishMirror"
    /\ mirror' = wchild[w]
    /\ WGoto(w, "wait")
    /\ UNCHANGED <<osVars, pid, flagVars, wchild, wfails, waged, lifecycles,
                   callVars, appVars>>

WatchdogStep(w) ==
    \/ WatchdogReaps(w)
    \/ WatchdogClearsPid(w)
    \/ WatchdogClearsMirror(w)
    \/ WatchdogStops(w)
    \/ WatchdogDecides(w)
    \/ WatchdogGivesUp(w)
    \/ WatchdogWakes(w)
    \/ WatchdogLaunches(w)
    \/ WatchdogLaunchFails(w)
    \/ WatchdogPublishesPid(w)
    \/ WatchdogPublishesMirror(w)

-----------------------------------------------------------------------------
(* Commands.  Goto and Answer move a caller's program counter.             *)

Goto(a, pc) ==
    /\ cpc' = [cpc EXCEPT ![a] = pc]
    /\ UNCHANGED <<after, target, reply>>

Answer(a, r) ==
    /\ cpc' = [cpc EXCEPT ![a] = "idle"]
    /\ after' = [after EXCEPT ![a] = "none"]
    /\ target' = [target EXCEPT ![a] = NoPid]
    /\ reply' = IF a = "main" THEN r ELSE reply

\* Command c begins on a free caller a, at pc; k is what follows its stop.
Issue(a, c, pc, k) ==
    /\ app = "up"
    /\ c \in Commands
    /\ cpc[a] = "idle"
    /\ cpc' = [cpc EXCEPT ![a] = pc]
    /\ after' = [after EXCEPT ![a] = k]
    /\ reply' = IF a = "main" THEN "none" ELSE reply
    /\ respawned' = (respawned \/ c \in {"start", "restart"})
    /\ UNCHANGED <<osVars, pidVars, flagVars, wdVars, target, fresh, app, boots>>

StartGateway   == Issue("main", "start", "portCheck", "report")
StopGateway    == Issue("main", "stop", "stopLoad", "answer")
RestartGateway == Issue("main", "restart", "stopLoad", "respawn")
QuitApp        == Issue("main", "quit", "stopLoad", "exit")
InstallUpdate  == Issue("updater", "update", "stopLoad", "download")

\* start_gateway: an already listening port is success, a tracked child is
\* only waited for, otherwise spawn_gateway runs.
StartChecksPort ==
    /\ cpc["main"] = "portCheck"
    /\ IF PortListening THEN Answer("main", "Running") ELSE Goto("main", "pidCheck")
    /\ UNCHANGED <<osVars, pidVars, flagVars, wdVars, fresh, appVars>>

StartChecksPid ==
    /\ cpc["main"] = "pidCheck"
    /\ Goto("main", IF pid = NoPid THEN "clearFailure" ELSE "awaitReady")
    /\ UNCHANGED <<osVars, pidVars, flagVars, wdVars, fresh, appVars>>

-----------------------------------------------------------------------------
(* spawn_gateway and spawn_gateway_child, on the main thread.              *)

SpawnClearsFailure ==
    /\ cpc["main"] = "clearFailure"
    /\ last_failure' = FALSE
    /\ Goto("main", "checkPort")
    /\ UNCHANGED <<osVars, pidVars, stop_intended, wdVars, fresh, appVars>>

\* Any error before the child runs: binary missing, port held by a process
\* that is not ours, no home, no secret store, key provisioning, spawn error.
SpawnFails ==
    /\ cpc["main"] \in {"checkPort", "provision", "launch"}
    /\ last_failure' = TRUE
    /\ Answer("main", "Err")
    /\ UNCHANGED <<osVars, pidVars, stop_intended, wdVars, fresh, appVars>>

\* reclaim_gateway_port_on signals a listener that runs our own binary, and
\* never a foreign one.
SpawnChecksPort ==
    /\ cpc["main"] = "checkPort"
    /\ ~foreign
    /\ \E killed \in SUBSET OwnListeners :
         proc' = [c \in Children |-> IF c \in killed THEN "zombie" ELSE proc[c]]
    /\ Goto("main", IF PortListening THEN "reclaim" ELSE "provision")
    /\ UNCHANGED <<orphans, launched, foreign, pidVars, flagVars, wdVars, fresh,
                   appVars>>

\* The reclaimed listener is gone, or waiting for it timed out; what counts
\* is whether the port is free now.
SpawnReclaimed ==
    /\ cpc["main"] = "reclaim"
    /\ IF PortListening
         THEN last_failure' = TRUE /\ Answer("main", "Err")
         ELSE Goto("main", "provision") /\ UNCHANGED last_failure
    /\ UNCHANGED <<osVars, pidVars, stop_intended, wdVars, fresh, appVars>>

\* "Clear the stop-intended flag for this new lifecycle."
SpawnClearsIntent ==
    /\ cpc["main"] = "provision"
    /\ stop_intended' = FALSE
    /\ Goto("main", "launch")
    /\ UNCHANGED <<osVars, pidVars, last_failure, wdVars, fresh, appVars>>

SpawnLaunches ==
    /\ cpc["main"] = "launch"
    /\ lifecycles < MaxLifecycles
    /\ LaunchChild
    /\ fresh' = launched + 1
    /\ Goto("main", "publish")
    /\ UNCHANGED <<pidVars, flagVars, wdVars, appVars>>

SpawnPublishesPid ==
    /\ cpc["main"] = "publish"
    /\ pid' = fresh
    /\ Goto("main", "publishMirror")
    /\ UNCHANGED <<osVars, mirror, flagVars, wdVars, fresh, appVars>>

SpawnPublishesMirror ==
    /\ cpc["main"] = "publishMirror"
    /\ mirror' = fresh
    /\ Goto("main", "watch")
    /\ UNCHANGED <<osVars, pid, flagVars, wdVars, fresh, appVars>>

\* The watchdog thread starts with a new RespawnPolicy.  The start-up spawn
\* does not wait for the gateway to listen.
SpawnStartsWatchdog ==
    /\ cpc["main"] = "watch"
    /\ lifecycles' = lifecycles + 1
    /\ WGoto(lifecycles + 1, "wait")
    /\ wchild' = [wchild EXCEPT ![lifecycles + 1] = fresh]
    /\ fresh' = NoPid
    /\ IF after["main"] = "startup" THEN Answer("main", "none")
                                    ELSE Goto("main", "awaitReady")
    /\ UNCHANGED <<osVars, pidVars, flagVars, wfails, waged, appVars>>

\* wait_for_gateway_ready_port.
BecomesReady ==
    /\ cpc["main"] = "awaitReady"
    /\ PortListening
    /\ Answer("main", "Running")
    /\ UNCHANGED <<osVars, pidVars, flagVars, wdVars, fresh, appVars>>

\* Mutant: the wait has no timeout and does not look at the pid.
ReadyTimesOut_Never == FALSE

\* The port stays closed until the timeout, or the pid is cleared.
ReadyTimesOut ==
    /\ cpc["main"] = "awaitReady"
    /\ ~PortListening
    /\ cpc' = [cpc EXCEPT !["main"] = "stopLoad"]
    /\ after' = [after EXCEPT !["main"] = "report"]
    /\ UNCHANGED <<osVars, pidVars, flagVars, wdVars, target, fresh, reply, appVars>>

\* record_child_failure for a start or restart that never listened.
ReportNotReady ==
    /\ cpc["main"] = "report"
    /\ last_failure' = TRUE
    /\ Answer("main", "Err")
    /\ UNCHANGED <<osVars, pidVars, stop_intended, wdVars, fresh, appVars>>

-----------------------------------------------------------------------------
(* stop_owned_gateway, called by a, and what its caller does next.         *)

\* r is what stop_gateway would answer; every other caller goes on.
StopReturns(a, r) ==
    CASE after[a] = "answer"   -> Answer(a, r)
      [] after[a] = "report"   -> Goto(a, "report")
      [] after[a] = "respawn"  -> Goto(a, "clearFailure")
      [] after[a] = "download" -> Goto(a, "download")
      [] OTHER                 -> Goto(a, "exit")

\* No child of ours: nothing is stopped and stop_intended is left alone.
StopFindsNothing(a) ==
    /\ cpc[a] = "stopLoad"
    /\ pid = NoPid
    /\ StopReturns(a, IF PortListening THEN "Running" ELSE "Stopped")
    /\ UNCHANGED <<osVars, pidVars, flagVars, wdVars, fresh, appVars>>

StopLoadsPid(a) ==
    /\ cpc[a] = "stopLoad"
    /\ pid # NoPid
    /\ target' = [target EXCEPT ![a] = pid]
    /\ cpc' = [cpc EXCEPT ![a] = "setIntent"]
    /\ UNCHANGED <<osVars, pidVars, flagVars, wdVars, after, fresh, reply, appVars>>

\* Only the callers that pass a Config ask the gateway to shut itself down.
StopSetsIntent(a) ==
    /\ cpc[a] = "setIntent"
    /\ stop_intended' = TRUE
    /\ Goto(a, IF after[a] = "report" THEN "signal" ELSE "graceful")
    /\ UNCHANGED <<osVars, pidVars, last_failure, wdVars, fresh, appVars>>

StopWaitsGracefully(a) ==
    /\ cpc[a] = "graceful"
    /\ Goto(a, IF Running(target[a]) THEN "signal" ELSE "clear")
    /\ UNCHANGED <<osVars, pidVars, flagVars, wdVars, fresh, appVars>>

\* SIGTERM, then SIGKILL: the two together always kill a live process.
StopSignals(a) ==
    /\ cpc[a] = "signal"
    /\ IF proc[target[a]] \in Live THEN SetProc(target[a], "zombie")
                                   ELSE UNCHANGED proc
    /\ Goto(a, "awaitDead")
    /\ UNCHANGED <<orphans, launched, foreign, pidVars, flagVars, wdVars, fresh,
                   appVars>>

StopSeesDead(a) ==
    /\ cpc[a] = "awaitDead"
    /\ ~Running(target[a]) \/ pid # target[a]
    /\ Goto(a, "clear")
    /\ UNCHANGED <<osVars, pidVars, flagVars, wdVars, fresh, appVars>>

\* "did not exit after SIGKILL", for a child nobody has reaped in time:
\* stop_gateway and install_update answer with the error, the other callers
\* ignore it.
StopGivesUp(a) ==
    /\ cpc[a] = "awaitDead"
    /\ Running(target[a]) /\ pid = target[a]
    /\ IF after[a] = "download" THEN Answer(a, "Err") ELSE StopReturns(a, "Err")
    /\ UNCHANGED <<osVars, pidVars, flagVars, wdVars, fresh, appVars>>

StopClearsPid(a) ==
    /\ cpc[a] = "clear"
    /\ pid' = ClearedPid(target[a])
    /\ Goto(a, "clearMirror")
    /\ UNCHANGED <<osVars, mirror, flagVars, wdVars, fresh, appVars>>

StopClearsMirror(a) ==
    /\ cpc[a] = "clearMirror"
    /\ mirror' = ClearedMirror(target[a])
    /\ StopReturns(a, "Stopped")
    /\ UNCHANGED <<osVars, pid, flagVars, wdVars, fresh, appVars>>

StopStep(a) ==
    \/ StopFindsNothing(a)
    \/ StopLoadsPid(a)
    \/ StopSetsIntent(a)
    \/ StopWaitsGracefully(a)
    \/ StopSignals(a)
    \/ StopSeesDead(a)
    \/ StopGivesUp(a)
    \/ StopClearsPid(a)
    \/ StopClearsMirror(a)

-----------------------------------------------------------------------------
(* The end of the app, and its next start.                                 *)

\* install_update: the download failed and the app carries on.
DownloadFails ==
    /\ cpc["updater"] = "download"
    /\ Answer("updater", "Err")
    /\ UNCHANGED <<osVars, pidVars, flagVars, wdVars, fresh, appVars>>

\* install_update: app.restart() makes the event loop quit.
UpdateInstalls ==
    /\ cpc["updater"] = "download"
    /\ cpc["main"] = "idle"
    /\ cpc' = [cpc EXCEPT !["updater"] = "idle", !["main"] = "stopLoad"]
    /\ after' = [after EXCEPT !["updater"] = "none", !["main"] = "exit"]
    /\ target' = [target EXCEPT !["updater"] = NoPid]
    /\ reply' = "none"
    /\ UNCHANGED <<osVars, pidVars, flagVars, wdVars, fresh, appVars>>

\* The app's memory and threads disappear; its children go to init.
AppGone ==
    /\ app' = "down"
    /\ orphans' = {c \in Children : proc[c] # "unborn"}
    /\ pid' = NoPid
    /\ mirror' = NoPid
    /\ stop_intended' = FALSE
    /\ last_failure' = FALSE
    /\ wpc' = [w \in Watchdogs |-> IF w <= lifecycles THEN "done" ELSE "off"]
    /\ wchild' = [w \in Watchdogs |-> NoPid]
    /\ wfails' = [w \in Watchdogs |-> 0]
    /\ waged' = [w \in Watchdogs |-> FALSE]
    /\ cpc' = [a \in Callers |-> "idle"]
    /\ after' = [a \in Callers |-> "none"]
    /\ target' = [a \in Callers |-> NoPid]
    /\ fresh' = NoPid
    /\ reply' = "none"
    /\ respawned' = FALSE
    /\ UNCHANGED <<launched, foreign, lifecycles, boots>>

\* terminate_gateway_on_exit: swap the mirror and SIGTERM what it named.  It
\* runs at exit and on SIGTERM; a killed app does not get to run it.
AppExits ==
    /\ app = "up"
    /\ cpc["main"] = "exit" \/ "kill" \in Commands
    /\ \/ UNCHANGED proc
       \/ /\ mirror # NoPid
          /\ proc[mirror] \in Live
          /\ SetProc(mirror, "zombie")
    /\ AppGone

\* The app is started again: main() calls spawn_gateway.
AppStarts ==
    /\ app = "down"
    /\ boots < MaxBoots
    /\ app' = "up"
    /\ boots' = boots + 1
    /\ cpc' = [cpc EXCEPT !["main"] = "clearFailure"]
    /\ after' = [after EXCEPT !["main"] = "startup"]
    /\ UNCHANGED <<osVars, pidVars, flagVars, wdVars, target, fresh, reply, respawned>>

-----------------------------------------------------------------------------
SpawnStep ==
    \/ SpawnClearsFailure
    \/ SpawnFails
    \/ SpawnChecksPort
    \/ SpawnReclaimed
    \/ SpawnClearsIntent
    \/ SpawnLaunches
    \/ SpawnPublishesPid
    \/ SpawnPublishesMirror
    \/ SpawnStartsWatchdog

ReadyStep ==
    \/ StartChecksPort
    \/ StartChecksPid
    \/ BecomesReady
    \/ ReadyTimesOut
    \/ ReportNotReady

\* Steps that continue a command already issued.
MainStep == SpawnStep \/ ReadyStep \/ StopStep("main")

UserStep ==
    \/ StartGateway
    \/ StopGateway
    \/ RestartGateway
    \/ QuitApp
    \/ InstallUpdate

OsStep ==
    \/ \E c \in Children : ChildListens(c) \/ ChildExits(c) \/ InitReaps(c)
    \/ ForeignListener
    \/ \E w \in Watchdogs : Age(w)

AppStep == DownloadFails \/ UpdateInstalls \/ AppExits \/ AppStarts

Next ==
    \/ OsStep
    \/ \E w \in Watchdogs : WatchdogStep(w)
    \/ UserStep
    \/ MainStep
    \/ StopStep("updater")
    \/ AppStep

Spec == Init /\ [][Next]_vars

\* Threads and the event loop are scheduled; nothing makes a child exit, a
\* port free, or a user act.
Fairness ==
    /\ \A w \in Watchdogs : WF_vars(WatchdogStep(w))
    /\ WF_vars(MainStep)
    /\ WF_vars(StopStep("updater"))

FairSpec == Spec /\ Fairness

-----------------------------------------------------------------------------
(* Properties.                                                             *)

WatchdogPcs == {"off", "wait", "clear", "clearMirror", "check", "giveUp",
                "backoff", "launch", "publish", "publishMirror", "done"}
SpawnPcs    == {"clearFailure", "checkPort", "reclaim", "provision", "launch",
                "publish", "publishMirror", "watch"}
StopPcs     == {"stopLoad", "setIntent", "graceful", "signal", "awaitDead",
                "clear", "clearMirror"}
CallerPcs   == SpawnPcs \cup StopPcs \cup
               {"idle", "portCheck", "pidCheck", "awaitReady", "report",
                "download", "exit"}

\* Every variable keeps its type.
TypeOK ==
    /\ proc \in [Children -> {"unborn", "starting", "listening", "zombie", "reaped"}]
    /\ orphans \subseteq Children
    /\ launched \in 0..MaxLaunches
    /\ foreign \in BOOLEAN
    /\ pid \in 0..MaxLaunches
    /\ mirror \in 0..MaxLaunches
    /\ stop_intended \in BOOLEAN
    /\ last_failure \in BOOLEAN
    /\ wpc \in [Watchdogs -> WatchdogPcs]
    /\ wchild \in [Watchdogs -> 0..MaxLaunches]
    /\ wfails \in [Watchdogs -> Nat]
    /\ waged \in [Watchdogs -> BOOLEAN]
    /\ lifecycles \in 0..MaxLifecycles
    /\ cpc \in [Callers -> CallerPcs]
    /\ after \in [Callers -> {"none", "startup", "answer", "report", "respawn",
                              "download", "exit"}]
    /\ target \in [Callers -> 0..MaxLaunches]
    /\ fresh \in 0..MaxLaunches
    /\ reply \in {"none", "Running", "Stopped", "Err"}
    /\ app \in {"up", "down"}
    /\ boots \in Nat
    /\ respawned \in BOOLEAN

Watching(w) == wpc[w] \notin {"off", "done"}
OwnLive     == {c \in Children \ orphans : proc[c] \in Live}

\* Supervision never lapses in silence: outside spawn_gateway, either a
\* watchdog thread is at work, or the stop was asked for, or the console has
\* a failure to show.
OutageIsExplained ==
    app = "up" /\ cpc["main"] \notin SpawnPcs =>
        \/ \E w \in Watchdogs : Watching(w)
        \/ stop_intended
        \/ last_failure

\* The pid cells name a reaped process, whose number the system may reuse and
\* stop_owned_gateway would signal, only while the thread that reaped it is on
\* its way to clear them.
NoRecycledPid ==
    \A c \in Children : proc[c] = "reaped" =>
        /\ pid = c => \E w \in Watchdogs : wchild[w] = c /\ wpc[w] = "clear"
        /\ mirror = c =>
             \E w \in Watchdogs : wchild[w] = c /\ wpc[w] \in {"clear", "clearMirror"}

\* A tracked gateway is forgotten only once it is dead: neither a watchdog nor
\* a stop that saw an older child clears the pid of the one running now.
ForgottenOnlyWhenDead ==
    [][app = "up" /\ app' = "up" /\ pid # NoPid /\ pid' = NoPid
         => proc[pid] \notin Live]_vars

\* Until a start or restart, which may spawn beside a watchdog asleep in its backoff,
\* the app never runs two gateways of its own, whatever crashes, stops and updates.
SingleGateway ==
    ~respawned => \A c, d \in OwnLive : c = d

\* A running gateway is the one both cells name, once its launcher has stored
\* them: stop_gateway and the exit handler can reach it.
OwnGatewayIsTracked ==
    ~respawned => \A c \in OwnLive :
        \/ pid = c /\ mirror = c
        \/ fresh = c /\ cpc["main"] \in {"publish", "publishMirror"}
        \/ \E w \in Watchdogs :
             wchild[w] = c /\ wpc[w] \in {"publish", "publishMirror"}

\* stop_intended is "set to true when the user or the app deliberately stops
\* the gateway": after stop_gateway has answered Stopped no thread is left that
\* would start it again.
StopIsFinal ==
    reply = "Stopped" => stop_intended \/ \A w \in Watchdogs : ~Watching(w)

\* With threads scheduled, an unexpected outage ends: the gateway is running
\* again, or its failure is on record, or someone asked for the stop.
OutageEnds ==
    (app = "up" /\ OwnLive = {} /\ ~stop_intended)
        ~> (OwnLive # {} \/ last_failure \/ stop_intended \/ app = "down")

\* Every command comes back with an answer, whatever the child does.
CommandsAnswer ==
    cpc["main"] \notin {"idle", "exit"} ~> cpc["main"] \in {"idle", "exit"}

-----------------------------------------------------------------------------
(* The service that the app, its commands and its watchdogs provide.       *)

\* spawn_gateway before its child runs, and after.
LaunchPcs  == {"clearFailure", "checkPort", "reclaim", "provision", "launch"}
PublishPcs == SpawnPcs \ LaunchPcs

\* What supervision is doing while no gateway runs, from the pc of the thread
\* that was started last: until a start or restart no other is at work.
ThreadPhase(pc) ==
    CASE pc \in {"off", "done"}       -> IF last_failure THEN "failed" ELSE "off"
      [] pc \in {"backoff", "launch"} -> "retrying"
      [] pc = "giveUp"                -> "exhausted"
      [] OTHER                        -> "down"

OutagePhase ==
    CASE cpc["main"] \in LaunchPcs  -> "starting"
      [] cpc["main"] \in PublishPcs -> "down"
      [] OTHER -> ThreadPhase(IF lifecycles = 0 THEN "off" ELSE wpc[lifecycles])

Phase ==
    CASE app = "down"                 -> "closed"
      [] app = "up" /\ respawned      -> "free"
      [] app = "up" /\ ~respawned     -> IF OwnLive # {} THEN "up" ELSE OutagePhase

\* Nothing is promised of the rest after a start or restart.
Supervised == app = "up" /\ ~respawned
Failures   == IF Supervised /\ lifecycles > 0 THEN wfails[lifecycles] ELSE 0
Healthy    == Supervised /\ lifecycles > 0 /\ waged[lifecycles]
Stopping   == Supervised /\ stop_intended

Service == INSTANCE SupervisedService WITH
               phase    <- Phase,
               launches <- launched,
               failures <- Failures,
               healthy  <- Healthy,
               stopping <- Stopping

\* The policy as a whole: an exit is followed by a new launch, unless the stop was
\* asked for or it was the MAX_RAPID_FAILURES-th in a row without a healthy run
\* (RespawnPolicy); then, and after a launch that failed, nothing is launched any
\* more, and one gateway runs at a time, until a start or restart.
ImplementsService == Service!Spec
=============================================================================
