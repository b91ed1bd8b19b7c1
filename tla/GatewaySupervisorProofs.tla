----------------------- MODULE GatewaySupervisorProofs -----------------------
(***************************************************************************)
(* Proofs about GatewaySupervisor, for every value of its constants.       *)
(***************************************************************************)
EXTENDS GatewaySupervisor, TLAPS

\* spawn_gateway_child has room for the watchdog it is about to start.
RoomForWatchdog ==
    cpc["main"] \in {"publish", "publishMirror", "watch"} =>
        lifecycles < MaxLifecycles

TypeInv == TypeOK /\ RoomForWatchdog

LEMMA InitTypeInv == Init => TypeInv
<1> SUFFICES ASSUME Init PROVE TypeInv
  OBVIOUS
<1> USE BoundsAssumption DEF Init, NoPid
<1>1. /\ cpc \in [Callers -> CallerPcs]
      /\ cpc["main"] = "clearFailure"
  BY DEF CallerPcs, SpawnPcs, StopPcs, Callers
<1>2. wpc \in [Watchdogs -> WatchdogPcs]
  BY DEF WatchdogPcs
<1>3. after \in [Callers -> {"none", "startup", "answer", "report", "respawn",
                            "download", "exit"}]
  BY DEF Callers
<1>4. /\ wchild \in [Watchdogs -> 0..MaxLaunches]
      /\ wfails \in [Watchdogs -> Nat]
      /\ waged \in [Watchdogs -> BOOLEAN]
      /\ target \in [Callers -> 0..MaxLaunches]
  OBVIOUS
<1>5. /\ proc \in [Children -> {"unborn", "starting", "listening", "zombie", "reaped"}]
      /\ orphans \subseteq Children
      /\ launched \in 0..MaxLaunches
      /\ pid \in 0..MaxLaunches
      /\ mirror \in 0..MaxLaunches
      /\ lifecycles \in 0..MaxLifecycles
      /\ fresh \in 0..MaxLaunches
      /\ boots \in Nat
  OBVIOUS
<1> QED
  BY <1>1, <1>2, <1>3, <1>4, <1>5 DEF TypeInv, TypeOK, RoomForWatchdog

LEMMA OsTypeInv == TypeInv /\ OsStep => TypeInv'
<1> SUFFICES ASSUME TypeInv, OsStep PROVE TypeInv'
  OBVIOUS
<1> USE DEF TypeInv, TypeOK, RoomForWatchdog, pidVars, flagVars, wdVars, callVars, appVars, SetProc
<1>1. ASSUME NEW c \in Children, ChildListens(c) \/ ChildExits(c) \/ InitReaps(c)
      PROVE  TypeInv'
  BY <1>1 DEF ChildListens, ChildExits, InitReaps
<1>2. CASE ForeignListener
  BY <1>2 DEF ForeignListener
<1>3. ASSUME NEW w \in Watchdogs, Age(w)
      PROVE  TypeInv'
  BY <1>3 DEF Age, osVars
<1> QED
  BY <1>1, <1>2, <1>3 DEF OsStep

LEMMA WatchdogTypeInv ==
  ASSUME TypeInv, NEW w \in Watchdogs, WatchdogStep(w)
  PROVE  TypeInv'
<1> USE BoundsAssumption DEF TypeInv, TypeOK, RoomForWatchdog, osVars, pidVars, flagVars, wdVars,
     callVars, appVars, SetProc, WGoto, Retire, WatchdogPcs, NoPid, Children, Watchdogs
<1>1. CASE WatchdogReaps(w)
  BY <1>1 DEF WatchdogReaps
<1>2. CASE WatchdogClearsPid(w)
  BY <1>2 DEF WatchdogClearsPid, ClearedPid
<1>3. CASE WatchdogClearsMirror(w)
  BY <1>3 DEF WatchdogClearsMirror, ClearedMirror
<1>4. CASE WatchdogStops(w)
  BY <1>4 DEF WatchdogStops
<1>5. CASE WatchdogDecides(w)
  <2>1. RecordExit(w) \in Nat
    BY DEF RecordExit
  <2> QED
    BY <1>5, <2>1 DEF WatchdogDecides
<1>6. CASE WatchdogGivesUp(w)
  BY <1>6 DEF WatchdogGivesUp
<1>7. CASE WatchdogWakes(w)
  <2>1. CASE stop_intended
    <3>1. Retire(w) /\ UNCHANGED <<osVars, pidVars, flagVars, callVars, appVars>>
      BY <1>7, <2>1, Zenon DEF WatchdogWakes
    <3> QED
      BY <3>1
  <2>2. CASE ~stop_intended
    BY <1>7, <2>2 DEF WatchdogWakes
  <2> QED
    BY <2>1, <2>2
<1>8. CASE WatchdogLaunches(w)
  BY <1>8 DEF WatchdogLaunches, LaunchChild
<1>9. CASE WatchdogLaunchFails(w)
  BY <1>9 DEF WatchdogLaunchFails
<1>10. CASE WatchdogPublishesPid(w)
  BY <1>10 DEF WatchdogPublishesPid
<1>11. CASE WatchdogPublishesMirror(w)
  BY <1>11 DEF WatchdogPublishesMirror
<1> QED
  BY <1>1, <1>2, <1>3, <1>4, <1>5, <1>6, <1>7, <1>8, <1>9, <1>10, <1>11 DEF WatchdogStep

\* Issuing a command, and going on with one, keeps the types.
LEMMA UserTypeInv == TypeInv /\ UserStep => TypeInv'
<1> SUFFICES ASSUME TypeInv,
                    NEW a \in Callers, NEW c,
                    NEW pc \in {"portCheck", "stopLoad"},
                    NEW k \in {"report", "answer", "respawn", "exit", "download"},
                    Issue(a, c, pc, k)
             PROVE  TypeInv'
  BY DEF UserStep, StartGateway, StopGateway, RestartGateway, QuitApp, InstallUpdate,
     Callers
<1> USE DEF Issue, TypeInv, TypeOK, osVars, pidVars, flagVars, wdVars, appVars
<1>1. pc \in CallerPcs
  BY DEF CallerPcs, StopPcs
<1> QED
  BY <1>1 DEF RoomForWatchdog

LEMMA SpawnTypeInv == TypeInv /\ SpawnStep => TypeInv'
<1> SUFFICES ASSUME TypeInv, SpawnStep PROVE TypeInv'
  OBVIOUS
<1>0. "main" \in Callers
  BY DEF Callers
<1> USE <1>0, BoundsAssumption DEF TypeInv, TypeOK, RoomForWatchdog, osVars, pidVars,
     flagVars, wdVars, appVars, SetProc, WGoto, Goto, Answer, NoPid, WatchdogPcs,
     CallerPcs, SpawnPcs, StopPcs, Children, Watchdogs
<1>1. CASE SpawnClearsFailure
  BY <1>1 DEF SpawnClearsFailure
<1>2. CASE SpawnFails
  BY <1>2 DEF SpawnFails
<1>3. CASE SpawnChecksPort
  BY <1>3 DEF SpawnChecksPort
<1>4. CASE SpawnReclaimed
  <2>1. CASE PortListening
    <3>1. /\ last_failure' = TRUE
          /\ Answer("main", "Err")
          /\ UNCHANGED <<osVars, pidVars, stop_intended, wdVars, fresh, appVars>>
      BY <1>4, <2>1, Zenon DEF SpawnReclaimed
    <3> QED
      BY <3>1
  <2>2. CASE ~PortListening
    BY <1>4, <2>2 DEF SpawnReclaimed
  <2> QED
    BY <2>1, <2>2
<1>5. CASE SpawnClearsIntent
  BY <1>5 DEF SpawnClearsIntent
<1>6. CASE SpawnLaunches
  BY <1>6 DEF SpawnLaunches, LaunchChild
<1>7. CASE SpawnPublishesPid
  BY <1>7 DEF SpawnPublishesPid
<1>8. CASE SpawnPublishesMirror
  BY <1>8 DEF SpawnPublishesMirror
<1>9. CASE SpawnStartsWatchdog
  <2>1. lifecycles' \in 0..MaxLifecycles
    BY <1>9 DEF SpawnStartsWatchdog
  <2>2. /\ cpc' \in [Callers -> CallerPcs]
        /\ cpc'["main"] \in {"idle", "awaitReady"}
        /\ after' \in [Callers -> {"none", "startup", "answer", "report", "respawn",
                                   "download", "exit"}]
        /\ target' \in [Callers -> 0..MaxLaunches]
        /\ reply' \in {"none", "Running", "Stopped", "Err"}
    <3>1. CASE Answer("main", "none")
      BY <3>1
    <3>2. CASE Goto("main", "awaitReady")
      BY <3>2
    <3> QED
      BY <1>9, <3>1, <3>2 DEF SpawnStartsWatchdog
  <2> QED
    BY <1>9, <2>1, <2>2 DEF SpawnStartsWatchdog
<1> QED
  BY <1>1, <1>2, <1>3, <1>4, <1>5, <1>6, <1>7, <1>8, <1>9 DEF SpawnStep

LEMMA ReadyTypeInv == TypeInv /\ ReadyStep => TypeInv'
<1> SUFFICES ASSUME TypeInv, ReadyStep PROVE TypeInv'
  OBVIOUS
<1>0. "main" \in Callers
  BY DEF Callers
<1> USE <1>0, BoundsAssumption DEF TypeInv, TypeOK, RoomForWatchdog, osVars, pidVars,
     flagVars, wdVars, appVars, Goto, Answer, NoPid, CallerPcs, SpawnPcs, StopPcs
<1>1. CASE StartChecksPort
  BY <1>1 DEF StartChecksPort
<1>2. CASE StartChecksPid
  BY <1>2 DEF StartChecksPid
<1>3. CASE BecomesReady
  BY <1>3 DEF BecomesReady
<1>4. CASE ReadyTimesOut
  BY <1>4 DEF ReadyTimesOut
<1>5. CASE ReportNotReady
  BY <1>5 DEF ReportNotReady
<1> QED
  BY <1>1, <1>2, <1>3, <1>4, <1>5 DEF ReadyStep

\* Where a stop can lead its caller.
LEMMA StopReturnsSomewhere ==
  ASSUME TypeOK, NEW a \in Callers, NEW r \in {"Running", "Stopped", "Err"},
         StopReturns(a, r)
  PROVE  /\ \E pc \in {"idle", "report", "clearFailure", "download", "exit"} :
              cpc' = [cpc EXCEPT ![a] = pc]
         /\ after' \in [Callers -> {"none", "startup", "answer", "report", "respawn",
                                    "download", "exit"}]
         /\ target' \in [Callers -> 0..MaxLaunches]
         /\ reply' \in {"none", "Running", "Stopped", "Err"}
<1> USE BoundsAssumption DEF TypeOK, Answer, Goto, NoPid
<1>1. CASE after[a] = "answer"
  BY <1>1 DEF StopReturns
<1>2. CASE after[a] # "answer"
  BY <1>2 DEF StopReturns
<1> QED
  BY <1>1, <1>2

LEMMA StopTypeInv ==
  ASSUME TypeInv, NEW a \in Callers, StopStep(a)
  PROVE  TypeInv'
<1> USE BoundsAssumption DEF TypeInv, TypeOK, RoomForWatchdog, osVars, pidVars, flagVars,
     wdVars, appVars, NoPid
<1>0. ASSUME NEW r \in {"Running", "Stopped", "Err"}, StopReturns(a, r),
             UNCHANGED <<osVars, pid, flagVars, wdVars, fresh, appVars>>,
             mirror' \in 0..MaxLaunches
      PROVE  TypeInv'
  <2>1. PICK pc \in {"idle", "report", "clearFailure", "download", "exit"} :
            cpc' = [cpc EXCEPT ![a] = pc]
    BY <1>0, StopReturnsSomewhere
  <2>2. cpc' \in [Callers -> CallerPcs]
    BY <2>1 DEF CallerPcs, SpawnPcs
  <2>3. RoomForWatchdog'
    BY <1>0, <2>1
  <2>4. /\ after' \in [Callers -> {"none", "startup", "answer", "report", "respawn",
                                   "download", "exit"}]
        /\ target' \in [Callers -> 0..MaxLaunches]
        /\ reply' \in {"none", "Running", "Stopped", "Err"}
    BY <1>0, StopReturnsSomewhere
  <2> QED
    BY <1>0, <2>2, <2>3, <2>4
<1>1. CASE StopFindsNothing(a)
  BY <1>0, <1>1 DEF StopFindsNothing
<1>2. CASE StopLoadsPid(a)
  BY <1>2 DEF StopLoadsPid, CallerPcs, StopPcs
<1>3. CASE StopSetsIntent(a)
  BY <1>3 DEF StopSetsIntent, Goto, CallerPcs, StopPcs
<1>4. CASE StopWaitsGracefully(a)
  BY <1>4 DEF StopWaitsGracefully, Goto, CallerPcs, StopPcs
<1>5. CASE StopSignals(a)
  BY <1>5 DEF StopSignals, Goto, CallerPcs, StopPcs, SetProc
<1>6. CASE StopSeesDead(a)
  BY <1>6 DEF StopSeesDead, Goto, CallerPcs, StopPcs
<1>7. CASE StopGivesUp(a)
  <2>1. CASE after[a] = "download"
    <3>1. /\ Answer(a, "Err")
          /\ UNCHANGED <<osVars, pidVars, flagVars, wdVars, fresh, appVars>>
      BY <1>7, <2>1, Zenon DEF StopGivesUp
    <3> QED
      BY <3>1 DEF Answer, CallerPcs
  <2>2. CASE after[a] # "download"
    BY <1>0, <1>7, <2>2 DEF StopGivesUp
  <2> QED
    BY <2>1, <2>2
<1>8. CASE StopClearsPid(a)
  BY <1>8 DEF StopClearsPid, ClearedPid, Goto, CallerPcs, StopPcs
<1>9. CASE StopClearsMirror(a)
  BY <1>0, <1>9 DEF StopClearsMirror, ClearedMirror
<1> QED
  BY <1>1, <1>2, <1>3, <1>4, <1>5, <1>6, <1>7, <1>8, <1>9 DEF StopStep

LEMMA AppTypeInv == TypeInv /\ AppStep => TypeInv'
<1> SUFFICES ASSUME TypeInv, AppStep PROVE TypeInv'
  OBVIOUS
<1>0. /\ "main" \in Callers
      /\ "updater" \in Callers
      /\ {"idle", "stopLoad", "clearFailure"} \subseteq CallerPcs
  BY DEF Callers, CallerPcs, SpawnPcs, StopPcs
<1> USE <1>0, BoundsAssumption DEF TypeInv, TypeOK, RoomForWatchdog, osVars, pidVars,
     flagVars, wdVars, appVars, NoPid
<1>1. CASE DownloadFails
  BY <1>1 DEF DownloadFails, Answer
<1>2. CASE UpdateInstalls
  BY <1>2 DEF UpdateInstalls
<1>3. CASE AppExits
  <2>1. proc' \in [Children -> {"unborn", "starting", "listening", "zombie", "reaped"}]
    BY <1>3 DEF AppExits, SetProc
  <2>2. /\ wpc' \in [Watchdogs -> WatchdogPcs]
        /\ wchild' \in [Watchdogs -> 0..MaxLaunches]
        /\ wfails' \in [Watchdogs -> Nat]
        /\ waged' \in [Watchdogs -> BOOLEAN]
    BY <1>3 DEF AppExits, AppGone, WatchdogPcs
  <2>3. /\ cpc' \in [Callers -> CallerPcs]
        /\ cpc'["main"] = "idle"
        /\ after' \in [Callers -> {"none", "startup", "answer", "report", "respawn",
                                   "download", "exit"}]
        /\ target' \in [Callers -> 0..MaxLaunches]
    BY <1>3 DEF AppExits, AppGone
  <2> QED
    BY <1>3, <2>1, <2>2, <2>3 DEF AppExits, AppGone
<1>4. CASE AppStarts
  BY <1>4 DEF AppStarts
<1> QED
  BY <1>1, <1>2, <1>3, <1>4 DEF AppStep

LEMMA NextTypeInv == TypeInv /\ [Next]_vars => TypeInv'
<1> SUFFICES ASSUME TypeInv, [Next]_vars PROVE TypeInv'
  OBVIOUS
<1>1. CASE Next
  BY <1>1, OsTypeInv, WatchdogTypeInv, UserTypeInv, SpawnTypeInv, ReadyTypeInv,
     StopTypeInv, AppTypeInv DEF Next, MainStep, Callers
<1>2. CASE UNCHANGED vars
  BY <1>2 DEF vars, TypeInv, TypeOK, RoomForWatchdog, osVars, pidVars, flagVars, wdVars,
     callVars, appVars
<1> QED
  BY <1>1, <1>2

\* Every variable of the supervisor keeps its type, for every bound.
THEOREM TypeCorrect == Spec => []TypeOK
<1>1. TypeInv => TypeOK
  BY DEF TypeInv
<1> QED
  BY <1>1, InitTypeInv, NextTypeInv, PTL DEF Spec
-----------------------------------------------------------------------------
(* Supervision never lapses in silence.                                    *)

\* A step that leaves the threads and the flags alone, and does not leave
\* spawn_gateway or start the app, cannot make an outage unexplained.
LEMMA OutageUntouched ==
  ASSUME OutageIsExplained, UNCHANGED <<wpc, flagVars, app>>,
         cpc'["main"] \in SpawnPcs \/ cpc'["main"] = cpc["main"] \/ cpc["main"] \notin SpawnPcs
  PROVE  OutageIsExplained'
  BY DEF OutageIsExplained, Watching, flagVars

LEMMA WatchdogOutage ==
  ASSUME TypeInv, OutageIsExplained, NEW w \in Watchdogs, WatchdogStep(w)
  PROVE  OutageIsExplained'
<1> USE DEF TypeInv, TypeOK, OutageIsExplained, Watching, flagVars, callVars, appVars,
     WGoto, Retire
<1>1. CASE \/ WatchdogReaps(w) \/ WatchdogClearsPid(w) \/ WatchdogClearsMirror(w)
           \/ WatchdogLaunches(w) \/ WatchdogPublishesPid(w) \/ WatchdogPublishesMirror(w)
  <2>1. wpc'[w] \in {"clear", "clearMirror", "check", "publish", "publishMirror", "wait"}
    BY <1>1 DEF WatchdogReaps, WatchdogClearsPid, WatchdogClearsMirror, WatchdogLaunches,
       WatchdogPublishesPid, WatchdogPublishesMirror
  <2> QED
    BY <2>1
<1>2. CASE WatchdogStops(w)
  BY <1>2 DEF WatchdogStops
<1>3. CASE WatchdogDecides(w)
  <2>1. wpc'[w] \in {"giveUp", "backoff"}
    BY <1>3 DEF WatchdogDecides
  <2> QED
    BY <2>1
<1>4. CASE WatchdogGivesUp(w) \/ WatchdogLaunchFails(w)
  BY <1>4 DEF WatchdogGivesUp, WatchdogLaunchFails
<1>5. CASE WatchdogWakes(w)
  <2>1. CASE stop_intended
    <3>1. stop_intended'
      BY <1>5, <2>1, Zenon DEF WatchdogWakes
    <3> QED
      BY <3>1
  <2>2. CASE ~stop_intended
    <3>1. wpc'[w] = "launch"
      BY <1>5, <2>2 DEF WatchdogWakes
    <3> QED
      BY <3>1
  <2> QED
    BY <2>1, <2>2
<1> QED
  BY <1>1, <1>2, <1>3, <1>4, <1>5 DEF WatchdogStep

LEMMA SpawnOutage == TypeInv /\ OutageIsExplained /\ SpawnStep => OutageIsExplained'
<1> SUFFICES ASSUME TypeInv, OutageIsExplained, SpawnStep PROVE OutageIsExplained'
  OBVIOUS
<1>0. "main" \in Callers
  BY DEF Callers
<1> USE <1>0 DEF TypeInv, TypeOK, Goto
<1>1. CASE SpawnFails
  BY <1>1, Zenon DEF SpawnFails, OutageIsExplained
<1>2. CASE SpawnReclaimed
  <2>1. last_failure' \/ cpc'["main"] \in SpawnPcs
    BY <1>2 DEF SpawnReclaimed, SpawnPcs
  <2> QED
    BY <2>1, Zenon DEF OutageIsExplained
<1>3. CASE SpawnStartsWatchdog
  <2>1. /\ lifecycles + 1 \in Watchdogs
        /\ wpc' = [wpc EXCEPT ![lifecycles + 1] = "wait"]
    BY <1>3, BoundsAssumption DEF SpawnStartsWatchdog, WGoto, RoomForWatchdog, Watchdogs
  <2>2. wpc'[lifecycles + 1] = "wait"
    BY <2>1
  <2> QED
    BY <2>1, <2>2 DEF OutageIsExplained, Watching
<1>4. CASE \/ SpawnClearsFailure \/ SpawnChecksPort \/ SpawnClearsIntent
           \/ SpawnLaunches \/ SpawnPublishesPid \/ SpawnPublishesMirror
  <2>1. cpc'["main"] \in SpawnPcs
    BY <1>4 DEF SpawnClearsFailure, SpawnChecksPort, SpawnClearsIntent, SpawnLaunches,
       SpawnPublishesPid, SpawnPublishesMirror, SpawnPcs
  <2> QED
    BY <2>1 DEF OutageIsExplained
<1> QED
  BY <1>1, <1>2, <1>3, <1>4 DEF SpawnStep

LEMMA StopOutage ==
  ASSUME TypeInv, OutageIsExplained, NEW a \in Callers, StopStep(a)
  PROVE  OutageIsExplained'
<1>1. \/ cpc'["main"] = cpc["main"]
      \/ cpc["main"] \in StopPcs
  BY DEF StopStep, StopPcs, StopFindsNothing, StopLoadsPid, StopSetsIntent,
     StopWaitsGracefully, StopSignals, StopSeesDead, StopGivesUp, StopClearsPid,
     StopClearsMirror, StopReturns, Answer, Goto, Callers, TypeInv, TypeOK
<1>2. StopPcs \cap SpawnPcs = {}
  BY DEF StopPcs, SpawnPcs
<1>3. CASE StopSetsIntent(a)
  BY <1>3, Zenon DEF StopSetsIntent, OutageIsExplained
<1>4. CASE ~StopSetsIntent(a)
  <2>1. UNCHANGED <<wpc, flagVars, app>>
    BY <1>4 DEF StopStep, StopFindsNothing, StopLoadsPid, StopWaitsGracefully, StopSignals,
       StopSeesDead, StopGivesUp, StopClearsPid, StopClearsMirror, wdVars, flagVars, appVars
  <2> QED
    BY <1>1, <1>2, <2>1, OutageUntouched
<1> QED
  BY <1>3, <1>4

LEMMA NextOutage ==
  TypeInv /\ OutageIsExplained /\ [Next]_vars => OutageIsExplained'
<1> SUFFICES ASSUME TypeInv, OutageIsExplained, [Next]_vars PROVE OutageIsExplained'
  OBVIOUS
<1>0. "main" \in Callers /\ "updater" \in Callers
  BY DEF Callers
<1> USE DEF osVars, pidVars, flagVars, wdVars, callVars, appVars
<1>1. CASE OsStep
  BY <1>1, OutageUntouched DEF OsStep, ChildListens, ChildExits, InitReaps, ForeignListener, Age
<1>2. CASE UserStep
  <2>1. /\ UNCHANGED <<wpc, flagVars, app>>
        /\ cpc'["main"] = cpc["main"] \/ cpc["main"] = "idle"
    BY <1>0, <1>2 DEF UserStep, StartGateway, StopGateway, RestartGateway, QuitApp,
       InstallUpdate, Issue, TypeInv, TypeOK
  <2> QED
    BY <2>1, OutageUntouched DEF SpawnPcs
<1>3. CASE ReadyStep
  <2>1. CASE ReportNotReady
    BY <2>1, Zenon DEF ReportNotReady, OutageIsExplained
  <2>2. CASE ~ReportNotReady
    <3>1. /\ UNCHANGED <<wpc, flagVars, app>>
          /\ cpc["main"] \in {"portCheck", "pidCheck", "awaitReady"}
      BY <1>3, <2>2 DEF ReadyStep, StartChecksPort, StartChecksPid, BecomesReady, ReadyTimesOut
    <3> QED
      BY <3>1, OutageUntouched DEF SpawnPcs
  <2> QED
    BY <2>1, <2>2
<1>4. CASE AppStep
  <2>1. CASE DownloadFails
    BY <1>0, <2>1, OutageUntouched DEF DownloadFails, Answer, TypeInv, TypeOK
  <2>2. CASE UpdateInstalls
    BY <1>0, <2>2, OutageUntouched DEF UpdateInstalls, SpawnPcs
  <2>3. CASE AppExits
    BY <2>3 DEF AppExits, AppGone, OutageIsExplained
  <2>4. CASE AppStarts
    BY <1>0, <2>4 DEF AppStarts, OutageIsExplained, SpawnPcs, TypeInv, TypeOK
  <2> QED
    BY <1>4, <2>1, <2>2, <2>3, <2>4 DEF AppStep
<1>5. CASE UNCHANGED vars
  BY <1>5, OutageUntouched DEF vars
<1> QED
  BY <1>0, <1>1, <1>2, <1>3, <1>4, <1>5, WatchdogOutage, SpawnOutage, StopOutage
     DEF Next, MainStep

\* Outside spawn_gateway, a watchdog is at work, or the stop was intended, or
\* the console has a failure to show.
THEOREM OutageAlwaysExplained == Spec => []OutageIsExplained
<1>1. Init => OutageIsExplained
  BY DEF Init, OutageIsExplained, SpawnPcs, Callers
<1> QED
  BY <1>1, InitTypeInv, NextTypeInv, NextOutage, PTL DEF Spec
-----------------------------------------------------------------------------
(* Which process a pid names.  IdInv says which thread owns which child.   *)

\* Children are numbered in launch order and threads in start order, and
\* nothing names a later child.
Numbered ==
    /\ \A c \in Children : c > launched => proc[c] = "unborn"
    /\ orphans \subseteq 1..launched
    /\ pid <= launched /\ mirror <= launched /\ fresh <= launched
    /\ \A w \in Watchdogs : wchild[w] <= launched
    /\ \A a \in Callers : target[a] <= launched
    /\ \A w \in Watchdogs : w > lifecycles => wpc[w] = "off"

\* The children of an earlier run of the app are named by nothing.
OrphansForgotten ==
    \A c \in orphans :
        /\ pid # c /\ mirror # c /\ fresh # c
        /\ \A w \in Watchdogs : wchild[w] # c

\* No child has two owners.
OneOwner ==
    \A w \in Watchdogs : wchild[w] # NoPid =>
        /\ wchild[w] # fresh
        /\ \A v \in Watchdogs : wchild[v] = wchild[w] => v = w

\* Only the thread that waits for a child reaps it.
OwnedUnreaped ==
    /\ \A w \in Watchdogs :
         /\ wpc[w] \in {"publish", "publishMirror", "wait"} =>
              wchild[w] # NoPid /\ proc[wchild[w]] # "reaped"
         /\ wpc[w] = "clear" => wchild[w] # NoPid /\ proc[wchild[w]] = "reaped"
    /\ cpc["main"] \in {"publish", "publishMirror", "watch"} =>
         fresh # NoPid /\ proc[fresh] # "reaped"

\* A child is published once: before that nothing names it.
Unpublished ==
    /\ \A w \in Watchdogs : wpc[w] = "publish" =>
         pid # wchild[w] /\ \A a \in Callers : target[a] # wchild[w]
    /\ cpc["main"] = "publish" =>
         pid # fresh /\ \A a \in Callers : target[a] # fresh

\* A stop that is about to clear the pid has a dead child, or one no longer
\* tracked.
SafeToClear ==
    \A a \in Callers :
        /\ cpc[a] \in {"setIntent", "graceful", "signal", "awaitDead", "clear"} =>
             target[a] # NoPid
        /\ cpc[a] = "clear" => (pid = target[a] => proc[target[a]] \notin Live)

IdInv ==
    /\ Numbered
    /\ OrphansForgotten
    /\ OneOwner
    /\ OwnedUnreaped
    /\ Unpublished
    /\ SafeToClear
    /\ NoRecycledPid

\* What IdInv is about, besides proc.
idVars == <<orphans, launched, pid, mirror, fresh, wpc, wchild, lifecycles, cpc, target>>

LEMMA OsIdInv == TypeInv /\ IdInv /\ OsStep => IdInv'
<1> SUFFICES ASSUME TypeInv, IdInv, OsStep PROVE IdInv'
  OBVIOUS
<1> USE BoundsAssumption DEF TypeInv, TypeOK, IdInv, NoPid, Children, Watchdogs, idVars
<1>1. ASSUME NEW c \in Children, proc[c] \in Live, NEW s \in {"listening", "zombie"},
             proc' = [proc EXCEPT ![c] = s], UNCHANGED idVars
      PROVE  IdInv'
  <2>1. Numbered' /\ OrphansForgotten' /\ OneOwner' /\ Unpublished'
    BY <1>1 DEF Numbered, OrphansForgotten, OneOwner, Unpublished, Live
  <2>2. OwnedUnreaped'
    BY <1>1 DEF OwnedUnreaped, Live
  <2>3. SafeToClear'
    BY <1>1 DEF SafeToClear, Live
  <2>4. NoRecycledPid'
    BY <1>1 DEF NoRecycledPid, Live
  <2> QED
    BY <2>1, <2>2, <2>3, <2>4
<1>2. ASSUME NEW c \in Children, c \in orphans, proc[c] = "zombie",
             proc' = [proc EXCEPT ![c] = "reaped"], UNCHANGED idVars
      PROVE  IdInv'
  <2>1. Numbered' /\ OrphansForgotten' /\ OneOwner' /\ Unpublished'
    BY <1>2 DEF Numbered, OrphansForgotten, OneOwner, Unpublished
  <2>2. OwnedUnreaped'
    BY <1>2 DEF OwnedUnreaped, OrphansForgotten
  <2>3. SafeToClear'
    BY <1>2 DEF SafeToClear, Live
  <2>4. NoRecycledPid'
    BY <1>2 DEF NoRecycledPid, OrphansForgotten
  <2> QED
    BY <2>1, <2>2, <2>3, <2>4
<1>3. CASE UNCHANGED <<idVars, proc>>
  BY <1>3 DEF Numbered, OrphansForgotten, OneOwner, OwnedUnreaped, Unpublished, SafeToClear,
     NoRecycledPid
<1> QED
  <2> USE DEF pidVars, flagVars, wdVars, callVars, appVars, osVars, SetProc
  <2>1. ASSUME NEW c \in Children, ChildListens(c) \/ ChildExits(c) PROVE IdInv'
    BY <1>1, <2>1 DEF ChildListens, ChildExits, Live
  <2>2. ASSUME NEW c \in Children, InitReaps(c) PROVE IdInv'
    BY <1>2, <2>2 DEF InitReaps
  <2>3. ASSUME NEW w \in Watchdogs, Age(w) PROVE IdInv'
    BY <1>3, <2>3 DEF Age
  <2>4. CASE ForeignListener
    BY <1>3, <2>4 DEF ForeignListener
  <2> QED
    BY <2>1, <2>2, <2>3, <2>4 DEF OsStep

\* A step that reaps nobody, and leaves the pids and the threads that are
\* clearing them alone, keeps NoRecycledPid.
LEMMA RecycledUntouched ==
  ASSUME NoRecycledPid, UNCHANGED <<pid, mirror>>,
         \A c \in Children : proc'[c] = "reaped" => proc[c] = "reaped",
         \A v \in Watchdogs : wpc[v] \in {"clear", "clearMirror"} =>
             wpc'[v] = wpc[v] /\ wchild'[v] = wchild[v]
  PROVE  NoRecycledPid'
<1> SUFFICES ASSUME NEW c \in Children, proc'[c] = "reaped"
             PROVE  /\ pid = c => \E w \in Watchdogs : wchild'[w] = c /\ wpc'[w] = "clear"
                    /\ mirror = c => \E w \in Watchdogs :
                         wchild'[w] = c /\ wpc'[w] \in {"clear", "clearMirror"}
  BY DEF NoRecycledPid
<1>1. ASSUME pid = c PROVE \E w \in Watchdogs : wchild'[w] = c /\ wpc'[w] = "clear"
  <2>1. PICK w \in Watchdogs : wchild[w] = c /\ wpc[w] = "clear"
    BY <1>1 DEF NoRecycledPid
  <2> QED
    BY <2>1
<1>2. ASSUME mirror = c
      PROVE  \E w \in Watchdogs : wchild'[w] = c /\ wpc'[w] \in {"clear", "clearMirror"}
  <2>1. PICK w \in Watchdogs : wchild[w] = c /\ wpc[w] \in {"clear", "clearMirror"}
    BY <1>2 DEF NoRecycledPid
  <2> QED
    BY <2>1
<1> QED
  BY <1>1, <1>2

\* A thread that keeps its child or drops it takes no other's.
LEMMA OneOwnerKept ==
  ASSUME OneOwner, UNCHANGED fresh,
         \A v \in Watchdogs : wchild'[v] = wchild[v] \/ wchild'[v] = NoPid
  PROVE  OneOwner'
  BY DEF OneOwner

\* The rest of IdInv, for a step that touches neither the children nor the cells.
LEMMA OrphansKept ==
  ASSUME OrphansForgotten, orphans \subseteq Children,
         UNCHANGED <<orphans, pid, mirror, fresh>>,
         \A v \in Watchdogs : wchild'[v] = wchild[v] \/ wchild'[v] = NoPid
  PROVE  OrphansForgotten'
  BY DEF OrphansForgotten, NoPid, Children

LEMMA OwnedKept ==
  ASSUME OwnedUnreaped, UNCHANGED <<proc, fresh, cpc>>,
         \A v \in Watchdogs : wpc'[v] \in {"publish", "publishMirror", "wait", "clear"} =>
           wpc'[v] = wpc[v] /\ wchild'[v] = wchild[v]
  PROVE  OwnedUnreaped'
  BY DEF OwnedUnreaped

LEMMA SafeToClearKept ==
  ASSUME SafeToClear, UNCHANGED <<pid, proc>>,
         \A a \in Callers :
           cpc'[a] \in {"setIntent", "graceful", "signal", "awaitDead", "clear"} =>
             cpc'[a] = cpc[a] /\ target'[a] = target[a]
  PROVE  SafeToClear'
  BY DEF SafeToClear

\* A thread that only moves, outside the pcs IdInv is about, or returns.
LEMMA WatchdogMovesIdInv ==
  ASSUME TypeInv, IdInv, NEW w \in Watchdogs,
         wpc[w] \in {"check", "giveUp", "backoff", "launch"},
         NEW pc \in {"giveUp", "backoff", "launch", "done"},
         wpc' = [wpc EXCEPT ![w] = pc],
         wchild' \in {wchild, [wchild EXCEPT ![w] = NoPid]},
         UNCHANGED <<proc, orphans, launched, pid, mirror, fresh, lifecycles, cpc, target>>
  PROVE  IdInv'
<1>0. wpc \in [Watchdogs -> WatchdogPcs] /\ wchild \in [Watchdogs -> 0..MaxLaunches]
  BY DEF TypeInv, TypeOK
<1>1. /\ wpc'[w] = pc
      /\ wchild'[w] = wchild[w] \/ wchild'[w] = NoPid
      /\ \A v \in Watchdogs : v # w => wpc'[v] = wpc[v] /\ wchild'[v] = wchild[v]
  BY <1>0
<1>10. \A v \in Watchdogs : wchild'[v] = wchild[v] \/ wchild'[v] = NoPid
  BY <1>1
<1>11. \A v \in Watchdogs : wpc'[v] \in {"publish", "publishMirror", "wait", "clear"} =>
         wpc'[v] = wpc[v] /\ wchild'[v] = wchild[v]
  BY <1>1
<1>12. orphans \subseteq Children
  BY DEF TypeInv, TypeOK
<1>4. OrphansForgotten'
  BY <1>10, <1>12, OrphansKept DEF IdInv
<1>5. OneOwner'
  BY <1>10, OneOwnerKept DEF IdInv
<1>6. OwnedUnreaped'
  BY <1>11, OwnedKept DEF IdInv
<1>8. SafeToClear'
  BY SafeToClearKept DEF IdInv
<1> USE BoundsAssumption DEF TypeInv, TypeOK, IdInv, NoPid, Children, Watchdogs
<1>2. w <= lifecycles
  BY DEF Numbered
<1>3. Numbered'
  BY <1>1, <1>2 DEF Numbered
<1>7. Unpublished'
  BY <1>1 DEF Unpublished
<1>9. NoRecycledPid'
  <2>1. \A v \in Watchdogs : wpc[v] \in {"clear", "clearMirror"} =>
          wpc'[v] = wpc[v] /\ wchild'[v] = wchild[v]
    BY <1>1
  <2> QED
    BY <2>1, RecycledUntouched
<1> QED
  BY <1>3, <1>4, <1>5, <1>6, <1>7, <1>8, <1>9

LEMMA WatchdogIdInv ==
  ASSUME TypeInv, IdInv, NEW w \in Watchdogs, WatchdogStep(w)
  PROVE  IdInv'
<1> USE BoundsAssumption DEF TypeInv, TypeOK, IdInv, NoPid, Children, Watchdogs
<1>1. CASE WatchdogReaps(w)
  <2>1. /\ wpc[w] = "wait" /\ wpc' = [wpc EXCEPT ![w] = "clear"]
        /\ wchild[w] \in Children /\ proc[wchild[w]] = "zombie"
        /\ proc' = [proc EXCEPT ![wchild[w]] = "reaped"]
        /\ UNCHANGED <<orphans, launched, pid, mirror, fresh, wchild, lifecycles, cpc, target>>
    BY <1>1 DEF WatchdogReaps, OwnedUnreaped, SetProc, WGoto, pidVars, callVars
  <2>2. Numbered' /\ OrphansForgotten' /\ OneOwner'
    BY <2>1 DEF Numbered, OrphansForgotten, OneOwner
  <2>3. OwnedUnreaped'
    BY <2>1 DEF OwnedUnreaped, OneOwner
  <2>4. Unpublished' /\ SafeToClear'
    BY <2>1 DEF Unpublished, SafeToClear, Live
  <2>5. NoRecycledPid'
    BY <2>1 DEF NoRecycledPid
  <2> QED
    BY <2>2, <2>3, <2>4, <2>5
<1>2. CASE WatchdogClearsPid(w)
  <2>1. /\ wpc[w] = "clear" /\ wpc' = [wpc EXCEPT ![w] = "clearMirror"]
        /\ pid' = IF pid = wchild[w] THEN NoPid ELSE pid
        /\ UNCHANGED <<proc, orphans, launched, mirror, fresh, wchild, lifecycles, cpc, target>>
    BY <1>2 DEF WatchdogClearsPid, ClearedPid, WGoto, osVars, callVars
  <2>2. Numbered' /\ OrphansForgotten' /\ OneOwner'
    BY <2>1 DEF Numbered, OrphansForgotten, OneOwner
  <2>3. OwnedUnreaped'
    BY <2>1 DEF OwnedUnreaped
  <2>4. Unpublished' /\ SafeToClear'
    BY <2>1 DEF Unpublished, SafeToClear, OwnedUnreaped
  <2>5. NoRecycledPid'
    BY <2>1 DEF NoRecycledPid
  <2> QED
    BY <2>2, <2>3, <2>4, <2>5
<1>3. CASE WatchdogClearsMirror(w)
  <2>1. /\ wpc[w] = "clearMirror" /\ wpc' = [wpc EXCEPT ![w] = "check"]
        /\ mirror' = IF mirror = wchild[w] THEN NoPid ELSE mirror
        /\ UNCHANGED <<proc, orphans, launched, pid, fresh, wchild, lifecycles, cpc, target>>
    BY <1>3 DEF WatchdogClearsMirror, ClearedMirror, WGoto, osVars, callVars
  <2>2. Numbered' /\ OrphansForgotten' /\ OneOwner'
    BY <2>1 DEF Numbered, OrphansForgotten, OneOwner
  <2>3. OwnedUnreaped' /\ Unpublished' /\ SafeToClear'
    BY <2>1 DEF OwnedUnreaped, Unpublished, SafeToClear
  <2>4. NoRecycledPid'
    BY <2>1 DEF NoRecycledPid
  <2> QED
    BY <2>2, <2>3, <2>4
<1>4. CASE WatchdogStops(w) \/ WatchdogGivesUp(w) \/ WatchdogLaunchFails(w)
  BY <1>4, WatchdogMovesIdInv DEF WatchdogStops, WatchdogGivesUp, WatchdogLaunchFails,
     Retire, WGoto, osVars, pidVars, callVars
<1>5. CASE WatchdogDecides(w)
  BY <1>5, WatchdogMovesIdInv DEF WatchdogDecides, WGoto, osVars, pidVars, callVars
<1>6. CASE WatchdogWakes(w)
  <2>1. CASE stop_intended
    <3>1. /\ wpc[w] = "backoff"
          /\ Retire(w) /\ UNCHANGED <<osVars, pidVars, flagVars, callVars, appVars>>
      BY <1>6, <2>1, Zenon DEF WatchdogWakes
    <3> QED
      BY <3>1, WatchdogMovesIdInv DEF Retire, WGoto, osVars, pidVars, callVars
  <2>2. CASE ~stop_intended
    BY <1>6, <2>2, WatchdogMovesIdInv DEF WatchdogWakes, WGoto, osVars, pidVars, callVars
  <2> QED
    BY <2>1, <2>2
<1>7. CASE WatchdogLaunches(w)
  <2>1. /\ wpc[w] = "launch" /\ wpc' = [wpc EXCEPT ![w] = "publish"]
        /\ launched + 1 \in Children /\ launched' = launched + 1
        /\ proc[launched + 1] = "unborn"
        /\ proc' = [proc EXCEPT ![launched + 1] = "starting"]
        /\ wchild' = [wchild EXCEPT ![w] = launched + 1]
        /\ UNCHANGED <<orphans, pid, mirror, fresh, lifecycles, cpc, target>>
    BY <1>7 DEF WatchdogLaunches, LaunchChild, SetProc, WGoto, pidVars, callVars, Numbered
  <2>2. Numbered' /\ OrphansForgotten'
    BY <2>1 DEF Numbered, OrphansForgotten
  <2>3. OneOwner'
    <3>1. fresh # launched + 1 /\ \A v \in Watchdogs : wchild[v] # launched + 1
      BY DEF Numbered
    <3> QED
      BY <2>1, <3>1 DEF OneOwner
  <2>4. OwnedUnreaped' /\ Unpublished'
    BY <2>1 DEF OwnedUnreaped, Unpublished, Numbered
  <2>5. SafeToClear'
    BY <2>1 DEF SafeToClear, Numbered
  <2>6. NoRecycledPid'
    <3>1. \A c \in Children : proc'[c] = "reaped" => proc[c] = "reaped"
      BY <2>1
    <3>2. \A v \in Watchdogs : wpc[v] \in {"clear", "clearMirror"} =>
            wpc'[v] = wpc[v] /\ wchild'[v] = wchild[v]
      BY <2>1
    <3>3. UNCHANGED <<pid, mirror>>
      BY <2>1
    <3> QED
      BY <3>1, <3>2, <3>3, RecycledUntouched
  <2> QED
    BY <2>2, <2>3, <2>4, <2>5, <2>6
<1>8. CASE WatchdogPublishesPid(w)
  <2>1. /\ wpc[w] = "publish" /\ wpc' = [wpc EXCEPT ![w] = "publishMirror"]
        /\ pid' = wchild[w]
        /\ UNCHANGED <<proc, orphans, launched, mirror, fresh, wchild, lifecycles, cpc, target>>
    BY <1>8 DEF WatchdogPublishesPid, WGoto, osVars, callVars
  <2>2. Numbered' /\ OrphansForgotten' /\ OneOwner'
    BY <2>1 DEF Numbered, OrphansForgotten, OneOwner
  <2>3. OwnedUnreaped'
    BY <2>1 DEF OwnedUnreaped
  <2>4. Unpublished' /\ SafeToClear'
    BY <2>1 DEF Unpublished, SafeToClear, OneOwner, OwnedUnreaped
  <2>5. NoRecycledPid'
    BY <2>1 DEF NoRecycledPid, OwnedUnreaped
  <2> QED
    BY <2>2, <2>3, <2>4, <2>5
<1>9. CASE WatchdogPublishesMirror(w)
  <2>1. /\ wpc[w] = "publishMirror" /\ wpc' = [wpc EXCEPT ![w] = "wait"]
        /\ mirror' = wchild[w]
        /\ UNCHANGED <<proc, orphans, launched, pid, fresh, wchild, lifecycles, cpc, target>>
    BY <1>9 DEF WatchdogPublishesMirror, WGoto, osVars, callVars
  <2>2. Numbered' /\ OrphansForgotten' /\ OneOwner'
    BY <2>1 DEF Numbered, OrphansForgotten, OneOwner
  <2>3. OwnedUnreaped' /\ Unpublished' /\ SafeToClear'
    BY <2>1 DEF OwnedUnreaped, Unpublished, SafeToClear
  <2>4. NoRecycledPid'
    BY <2>1 DEF NoRecycledPid, OwnedUnreaped
  <2> QED
    BY <2>2, <2>3, <2>4
<1> QED
  BY <1>1, <1>2, <1>3, <1>4, <1>5, <1>6, <1>7, <1>8, <1>9 DEF WatchdogStep

\* A step of the commands that publishes nothing: pids are at most dropped,
\* children at most killed.
LEMMA CallersMoveIdInv ==
  ASSUME TypeInv, IdInv,
         UNCHANGED <<orphans, launched, pid, fresh, wpc, wchild, lifecycles>>,
         \A c \in Children : proc'[c] = proc[c] \/ (proc[c] \in Live /\ proc'[c] = "zombie"),
         mirror' = mirror \/ mirror' = NoPid,
         \A a \in Callers :
            /\ target'[a] = target[a] \/ target'[a] = NoPid
            /\ cpc'[a] \in {"setIntent", "graceful", "signal", "awaitDead", "clear"} =>
                 target'[a] = target[a] /\ target[a] # NoPid
            /\ cpc'[a] = "clear" => (pid = target[a] => proc'[target[a]] \notin Live),
         cpc'["main"] \in {"publish", "publishMirror", "watch"} =>
            cpc'["main"] = cpc["main"]
  PROVE  IdInv'
<1> USE BoundsAssumption DEF TypeInv, TypeOK, IdInv, NoPid, Children, Watchdogs
<1>1. Numbered'
  <2>1. ASSUME NEW c \in Children, c > launched
        PROVE  proc'[c] = "unborn"
    <3>1. proc[c] = "unborn"
      BY <2>1 DEF Numbered
    <3> QED
      BY <3>1, Zenon DEF Live
  <2>2. ASSUME NEW a \in Callers
        PROVE  target'[a] <= launched
    <3>1. target[a] <= launched
      BY DEF Numbered
    <3>2. target'[a] = target[a] \/ target'[a] = 0
      BY Zenon
    <3> QED
      BY <3>1, <3>2
  <2>3. mirror' <= launched
    BY DEF Numbered
  <2> QED
    BY <2>1, <2>2, <2>3 DEF Numbered
<1>2. OrphansForgotten' /\ OneOwner'
  BY DEF OrphansForgotten, OneOwner
<1>3. OwnedUnreaped'
  <2>1. \A c \in Children : proc'[c] = "reaped" <=> proc[c] = "reaped"
    BY DEF Live
  <2> QED
    BY <2>1 DEF OwnedUnreaped
<1>4. Unpublished'
  BY DEF Unpublished, OwnedUnreaped
<1>5. SafeToClear'
  BY DEF SafeToClear
<1>6. NoRecycledPid'
  <2>1. \A c \in Children : proc'[c] = "reaped" => proc[c] = "reaped"
    OBVIOUS
  <2>2. CASE mirror' = mirror
    BY <2>1, <2>2, RecycledUntouched
  <2>3. CASE mirror' = NoPid
    BY <2>1, <2>3 DEF NoRecycledPid
  <2> QED
    BY <2>2, <2>3
<1> QED
  BY <1>1, <1>2, <1>3, <1>4, <1>5, <1>6

LEMMA UserIdInv == TypeInv /\ IdInv /\ UserStep => IdInv'
<1> SUFFICES ASSUME TypeInv, IdInv,
                    NEW a \in Callers, NEW c, NEW pc \in {"portCheck", "stopLoad"}, NEW k,
                    Issue(a, c, pc, k)
             PROVE  IdInv'
  BY DEF UserStep, StartGateway, StopGateway, RestartGateway, QuitApp, InstallUpdate,
     Callers
<1>1. /\ cpc[a] = "idle" /\ cpc' = [cpc EXCEPT ![a] = pc]
      /\ UNCHANGED <<proc, orphans, launched, pid, mirror, fresh, wpc, wchild, lifecycles,
                     target>>
  BY DEF Issue, osVars, pidVars, wdVars
<1> QED
  BY <1>1, CallersMoveIdInv DEF IdInv, SafeToClear, TypeInv, TypeOK

LEMMA ReadyIdInv == TypeInv /\ IdInv /\ ReadyStep => IdInv'
<1> SUFFICES ASSUME TypeInv, IdInv, ReadyStep PROVE IdInv'
  OBVIOUS
<1>1. /\ UNCHANGED <<proc, orphans, launched, pid, mirror, fresh, wpc, wchild, lifecycles>>
      /\ target' = target \/ target' = [target EXCEPT !["main"] = NoPid]
      /\ \E pc \in {"idle", "pidCheck", "clearFailure", "awaitReady", "stopLoad"} :
           cpc' = [cpc EXCEPT !["main"] = pc]
  BY DEF ReadyStep, StartChecksPort, StartChecksPid, BecomesReady, ReadyTimesOut,
     ReportNotReady, Answer, Goto, osVars, pidVars, wdVars
<1> QED
  BY <1>1, CallersMoveIdInv DEF IdInv, SafeToClear, TypeInv, TypeOK, Callers, NoPid

LEMMA StopIdInv ==
  ASSUME TypeInv, IdInv, NEW a \in Callers, StopStep(a)
  PROVE  IdInv'
<1> USE DEF TypeInv, TypeOK, osVars, pidVars, wdVars
<1>0. ASSUME NEW r \in {"Running", "Stopped", "Err"}, StopReturns(a, r),
             UNCHANGED <<proc, orphans, launched, pid, fresh, wpc, wchild, lifecycles>>,
             mirror' = mirror \/ mirror' = NoPid
      PROVE  IdInv'
  <2>1. PICK pc \in {"idle", "report", "clearFailure", "download", "exit"} :
            cpc' = [cpc EXCEPT ![a] = pc]
    BY <1>0, StopReturnsSomewhere
  <2>2. target' = target \/ target' = [target EXCEPT ![a] = NoPid]
    BY <1>0 DEF StopReturns, Answer, Goto
  <2> QED
    BY <1>0, <2>1, <2>2, CallersMoveIdInv DEF IdInv, SafeToClear
<1>1. CASE StopFindsNothing(a)
  BY <1>0, <1>1 DEF StopFindsNothing
<1>2. CASE StopLoadsPid(a)
  <2> USE BoundsAssumption DEF IdInv, NoPid, Children, Watchdogs
  <2>1. /\ cpc' = [cpc EXCEPT ![a] = "setIntent"] /\ cpc[a] = "stopLoad"
        /\ target' = [target EXCEPT ![a] = pid] /\ pid # NoPid
        /\ UNCHANGED <<proc, orphans, launched, pid, mirror, fresh, wpc, wchild, lifecycles>>
    BY <1>2 DEF StopLoadsPid
  <2>2. Numbered' /\ OrphansForgotten' /\ OneOwner' /\ OwnedUnreaped'
    BY <2>1 DEF Numbered, OrphansForgotten, OneOwner, OwnedUnreaped, Callers
  <2>3. Unpublished' /\ SafeToClear'
    BY <2>1 DEF Unpublished, SafeToClear, Callers
  <2>4. NoRecycledPid'
    BY <2>1, RecycledUntouched
  <2> QED
    BY <2>2, <2>3, <2>4
<1>3. CASE StopSetsIntent(a)
  BY <1>3, CallersMoveIdInv DEF StopSetsIntent, Goto, IdInv, SafeToClear
<1>4. CASE StopWaitsGracefully(a)
  BY <1>4, CallersMoveIdInv DEF StopWaitsGracefully, Goto, IdInv, SafeToClear, Running
<1>5. CASE StopSignals(a)
  <2>1. /\ cpc' = [cpc EXCEPT ![a] = "awaitDead"] /\ cpc[a] = "signal"
        /\ UNCHANGED <<orphans, launched, pid, mirror, fresh, wpc, wchild, lifecycles, target>>
    BY <1>5 DEF StopSignals, Goto
  <2>2. \A c \in Children :
           proc'[c] = proc[c] \/ (proc[c] \in Live /\ proc'[c] = "zombie")
    BY <1>5 DEF StopSignals, SetProc
  <2>3. target[a] # NoPid
    BY <2>1 DEF IdInv, SafeToClear
  <2>4. \A b \in Callers : b # a => cpc'[b] = cpc[b]
    BY <2>1
  <2>5. \A b \in Callers : cpc'[b] = "clear" =>
           (pid = target[b] => proc'[target[b]] \notin Live)
    <3> SUFFICES ASSUME NEW b \in Callers, cpc'[b] = "clear", pid = target[b]
                 PROVE  proc'[target[b]] \notin Live
      OBVIOUS
    <3>1. b # a /\ cpc[b] = "clear"
      BY <2>1, <2>4
    <3>2. target[b] \in Children /\ proc[target[b]] \notin Live
      BY <3>1, BoundsAssumption DEF IdInv, SafeToClear, Children, NoPid
    <3> QED
      BY <2>2, <3>2
  <2>6. cpc'[a] = "awaitDead"
    BY <2>1
  <2>7. \A b \in Callers :
           cpc'[b] \in {"setIntent", "graceful", "signal", "awaitDead", "clear"} =>
             target'[b] = target[b] /\ target[b] # NoPid
    BY <2>1, <2>3, <2>4 DEF IdInv, SafeToClear
  <2>8. cpc'["main"] \in {"publish", "publishMirror", "watch"} =>
           cpc'["main"] = cpc["main"]
    BY <2>4, <2>6 DEF Callers
  <2> QED
    BY <2>1, <2>2, <2>5, <2>7, <2>8, CallersMoveIdInv
<1>6. CASE StopSeesDead(a)
  BY <1>6, CallersMoveIdInv DEF StopSeesDead, Goto, IdInv, SafeToClear, Running
<1>7. CASE StopGivesUp(a)
  <2>1. CASE after[a] = "download"
    <3>1. /\ Answer(a, "Err")
          /\ UNCHANGED <<osVars, pidVars, flagVars, wdVars, fresh, appVars>>
      BY <1>7, <2>1, Zenon DEF StopGivesUp
    <3> QED
      BY <3>1, CallersMoveIdInv DEF Answer, IdInv, SafeToClear
  <2>2. CASE after[a] # "download"
    BY <1>0, <1>7, <2>2 DEF StopGivesUp
  <2> QED
    BY <2>1, <2>2
<1>8. CASE StopClearsPid(a)
  <2> USE BoundsAssumption DEF IdInv, NoPid, Children, Watchdogs
  <2>1. /\ cpc' = [cpc EXCEPT ![a] = "clearMirror"] /\ cpc[a] = "clear"
        /\ pid' = IF pid = target[a] THEN NoPid ELSE pid
        /\ UNCHANGED <<proc, orphans, launched, mirror, fresh, wpc, wchild, lifecycles, target>>
    BY <1>8 DEF StopClearsPid, ClearedPid, Goto
  <2>2. Numbered' /\ OrphansForgotten' /\ OneOwner' /\ OwnedUnreaped'
    BY <2>1 DEF Numbered, OrphansForgotten, OneOwner, OwnedUnreaped, Callers
  <2>3. Unpublished' /\ SafeToClear'
    BY <2>1 DEF Unpublished, SafeToClear, OwnedUnreaped, Callers
  <2>4. NoRecycledPid'
    <3>1. CASE pid' = pid
      BY <2>1, <3>1, RecycledUntouched
    <3>2. CASE pid' = NoPid
      BY <2>1, <3>2 DEF NoRecycledPid
    <3> QED
      BY <2>1, <3>1, <3>2
  <2> QED
    BY <2>2, <2>3, <2>4
<1>9. CASE StopClearsMirror(a)
  BY <1>0, <1>9 DEF StopClearsMirror, ClearedMirror
<1> QED
  BY <1>1, <1>2, <1>3, <1>4, <1>5, <1>6, <1>7, <1>8, <1>9 DEF StopStep

LEMMA SpawnIdInv == TypeInv /\ IdInv /\ SpawnStep => IdInv'
<1> SUFFICES ASSUME TypeInv, IdInv, SpawnStep PROVE IdInv'
  OBVIOUS
<1>0. "main" \in Callers
  BY DEF Callers
<1> USE <1>0 DEF TypeInv, TypeOK, osVars, pidVars, wdVars
<1>1. CASE SpawnClearsFailure \/ SpawnFails \/ SpawnReclaimed \/ SpawnClearsIntent
  <2>1. /\ UNCHANGED <<proc, orphans, launched, pid, mirror, fresh, wpc, wchild, lifecycles>>
        /\ target' = target \/ target' = [target EXCEPT !["main"] = NoPid]
        /\ \E pc \in {"checkPort", "idle", "provision", "launch"} :
             cpc' = [cpc EXCEPT !["main"] = pc]
    BY <1>1 DEF SpawnClearsFailure, SpawnFails, SpawnReclaimed, SpawnClearsIntent, Answer, Goto
  <2> QED
    BY <2>1, CallersMoveIdInv DEF IdInv, SafeToClear, Callers
<1>2. CASE SpawnChecksPort
  <2>1. /\ UNCHANGED <<orphans, launched, pid, mirror, fresh, wpc, wchild, lifecycles, target>>
        /\ \E pc \in {"reclaim", "provision"} : cpc' = [cpc EXCEPT !["main"] = pc]
    BY <1>2 DEF SpawnChecksPort, Goto
  <2>2. \A c \in Children :
           proc'[c] = proc[c] \/ (proc[c] \in Live /\ proc'[c] = "zombie")
    BY <1>2 DEF SpawnChecksPort, OwnListeners, Live
  <2>3. \A b \in Callers : cpc'[b] = cpc[b] \/ cpc'[b] \in {"reclaim", "provision"}
    BY <2>1
  <2>4. \A b \in Callers : cpc'[b] = "clear" =>
           (pid = target[b] => proc'[target[b]] \notin Live)
    <3> SUFFICES ASSUME NEW b \in Callers, cpc'[b] = "clear", pid = target[b]
                 PROVE  proc'[target[b]] \notin Live
      OBVIOUS
    <3>1. cpc[b] = "clear"
      BY <2>3
    <3>2. target[b] \in Children /\ proc[target[b]] \notin Live
      BY <3>1, BoundsAssumption DEF IdInv, SafeToClear, Children, NoPid
    <3> QED
      BY <2>2, <3>2
  <2>5. \A b \in Callers :
           cpc'[b] \in {"setIntent", "graceful", "signal", "awaitDead", "clear"} =>
             target'[b] = target[b] /\ target[b] # NoPid
    BY <2>1, <2>3 DEF IdInv, SafeToClear
  <2>6. cpc'["main"] \in {"publish", "publishMirror", "watch"} =>
           cpc'["main"] = cpc["main"]
    BY <2>3
  <2> QED
    BY <2>1, <2>2, <2>4, <2>5, <2>6, CallersMoveIdInv
<1> USE BoundsAssumption DEF IdInv, NoPid, Children, Watchdogs
<1>3. CASE SpawnLaunches
  <2>1. /\ cpc["main"] = "launch" /\ cpc' = [cpc EXCEPT !["main"] = "publish"]
        /\ launched + 1 \in Children /\ launched' = launched + 1
        /\ proc[launched + 1] = "unborn"
        /\ proc' = [proc EXCEPT ![launched + 1] = "starting"]
        /\ fresh' = launched + 1
        /\ UNCHANGED <<orphans, pid, mirror, wpc, wchild, lifecycles, target>>
    BY <1>3 DEF SpawnLaunches, LaunchChild, SetProc, Goto, Numbered
  <2>2. Numbered' /\ OrphansForgotten'
    BY <2>1 DEF Numbered, OrphansForgotten
  <2>3. OneOwner'
    BY <2>1 DEF OneOwner, Numbered
  <2>4. OwnedUnreaped' /\ Unpublished'
    BY <2>1 DEF OwnedUnreaped, Unpublished, Numbered
  <2>5. SafeToClear'
    BY <2>1 DEF SafeToClear, Numbered
  <2>6. NoRecycledPid'
    <3>1. \A c \in Children : proc'[c] = "reaped" => proc[c] = "reaped"
      BY <2>1
    <3> QED
      BY <2>1, <3>1, RecycledUntouched
  <2> QED
    BY <2>2, <2>3, <2>4, <2>5, <2>6
<1>4. CASE SpawnPublishesPid
  <2>1. /\ cpc["main"] = "publish" /\ cpc' = [cpc EXCEPT !["main"] = "publishMirror"]
        /\ pid' = fresh
        /\ UNCHANGED <<proc, orphans, launched, mirror, fresh, wpc, wchild, lifecycles, target>>
    BY <1>4 DEF SpawnPublishesPid, Goto
  <2>2. Numbered' /\ OrphansForgotten' /\ OneOwner'
    BY <2>1 DEF Numbered, OrphansForgotten, OneOwner
  <2>3. OwnedUnreaped' /\ Unpublished'
    BY <2>1 DEF OwnedUnreaped, Unpublished, OneOwner
  <2>4. SafeToClear'
    BY <2>1 DEF SafeToClear, Unpublished, OwnedUnreaped
  <2>5. NoRecycledPid'
    BY <2>1 DEF NoRecycledPid, OwnedUnreaped
  <2> QED
    BY <2>2, <2>3, <2>4, <2>5
<1>5. CASE SpawnPublishesMirror
  <2>1. /\ cpc["main"] = "publishMirror" /\ cpc' = [cpc EXCEPT !["main"] = "watch"]
        /\ mirror' = fresh
        /\ UNCHANGED <<proc, orphans, launched, pid, fresh, wpc, wchild, lifecycles, target>>
    BY <1>5 DEF SpawnPublishesMirror, Goto
  <2>2. Numbered' /\ OrphansForgotten' /\ OneOwner'
    BY <2>1 DEF Numbered, OrphansForgotten, OneOwner
  <2>3. OwnedUnreaped' /\ Unpublished' /\ SafeToClear'
    BY <2>1 DEF OwnedUnreaped, Unpublished, SafeToClear
  <2>4. NoRecycledPid'
    BY <2>1 DEF NoRecycledPid, OwnedUnreaped
  <2> QED
    BY <2>2, <2>3, <2>4
<1>6. CASE SpawnStartsWatchdog
  <2> DEFINE n == lifecycles + 1
  <2>1. /\ cpc["main"] = "watch" /\ n \in Watchdogs /\ wpc[n] = "off"
        /\ lifecycles' = n /\ wpc' = [wpc EXCEPT ![n] = "wait"]
        /\ wchild' = [wchild EXCEPT ![n] = fresh] /\ fresh' = NoPid
        /\ UNCHANGED <<proc, orphans, launched, pid, mirror>>
    BY <1>6 DEF SpawnStartsWatchdog, WGoto, RoomForWatchdog, Numbered
  <2>2. /\ cpc' = [cpc EXCEPT !["main"] = "idle"] \/ cpc' = [cpc EXCEPT !["main"] = "awaitReady"]
        /\ target' = target \/ target' = [target EXCEPT !["main"] = NoPid]
    BY <1>6 DEF SpawnStartsWatchdog, Answer, Goto
  <2>3. /\ \A a \in Callers : target'[a] = target[a] \/ target'[a] = NoPid
        /\ cpc'["main"] \in {"idle", "awaitReady"}
        /\ \A a \in Callers : cpc'[a] \notin {"idle", "awaitReady"} =>
             cpc'[a] = cpc[a] /\ target'[a] = target[a]
    BY <2>2
  <2> HIDE DEF n
  <2>4. Numbered'
    <3>1. ASSUME NEW a \in Callers
          PROVE  target'[a] <= launched
      <4>1. target'[a] = target[a] \/ target'[a] = NoPid
        BY <2>3
      <4>2. target[a] <= launched
        BY DEF Numbered
      <4> QED
        BY <4>1, <4>2
    <3>2. ASSUME NEW w \in Watchdogs
          PROVE  wchild'[w] <= launched
      <4>1. wchild'[w] = wchild[w] \/ wchild'[w] = fresh
        BY <2>1
      <4>2. wchild[w] <= launched /\ fresh <= launched
        BY DEF Numbered
      <4> QED
        BY <4>1, <4>2
    <3>3. \A w \in Watchdogs : w > n => wpc'[w] = "off"
      BY <2>1 DEF Numbered, n
    <3> QED
      BY <2>1, <3>1, <3>2, <3>3 DEF Numbered
  <2>5. OrphansForgotten'
    BY <2>1 DEF OrphansForgotten
  <2>6. OneOwner'
    BY <2>1 DEF OneOwner, OwnedUnreaped
  <2>7. OwnedUnreaped'
    BY <2>1, <2>3 DEF OwnedUnreaped
  <2>8. Unpublished'
    BY <2>1, <2>3 DEF Unpublished, OwnedUnreaped
  <2>9. SafeToClear'
    BY <2>1, <2>3, SafeToClearKept
  <2>10. NoRecycledPid'
    <3>1. \A v \in Watchdogs : wpc[v] \in {"clear", "clearMirror"} =>
            wpc'[v] = wpc[v] /\ wchild'[v] = wchild[v]
      BY <2>1
    <3> QED
      BY <2>1, <3>1, RecycledUntouched
  <2> QED
    BY <2>4, <2>5, <2>6, <2>7, <2>8, <2>9, <2>10
<1> QED
  BY <1>1, <1>2, <1>3, <1>4, <1>5, <1>6 DEF SpawnStep

LEMMA AppIdInv == TypeInv /\ IdInv /\ AppStep => IdInv'
<1> SUFFICES ASSUME TypeInv, IdInv, AppStep PROVE IdInv'
  OBVIOUS
<1> USE DEF TypeInv, TypeOK, osVars, pidVars, wdVars
<1>1. CASE DownloadFails \/ UpdateInstalls \/ AppStarts
  <2>1. /\ UNCHANGED <<proc, orphans, launched, pid, mirror, fresh, wpc, wchild, lifecycles>>
        /\ target' = target \/ target' = [target EXCEPT !["updater"] = NoPid]
        /\ \A a \in Callers : cpc'[a] \notin {"idle", "stopLoad", "clearFailure"} =>
             cpc'[a] = cpc[a] /\ target'[a] = target[a]
    BY <1>1 DEF DownloadFails, UpdateInstalls, AppStarts, Answer, Callers
  <2> QED
    BY <2>1, CallersMoveIdInv DEF IdInv, SafeToClear, Callers
<1>2. CASE AppExits
  <2> USE BoundsAssumption DEF IdInv, NoPid, Children, Watchdogs
  <2>1. /\ orphans' = {c \in Children : proc[c] # "unborn"}
        /\ pid' = NoPid /\ mirror' = NoPid /\ fresh' = NoPid
        /\ wpc' = [w \in Watchdogs |-> IF w <= lifecycles THEN "done" ELSE "off"]
        /\ wchild' = [w \in Watchdogs |-> NoPid]
        /\ cpc' = [a \in Callers |-> "idle"]
        /\ target' = [a \in Callers |-> NoPid]
        /\ UNCHANGED <<launched, lifecycles>>
    BY <1>2 DEF AppExits, AppGone
  <2>2. \A c \in Children : proc'[c] = "unborn" <=> proc[c] = "unborn"
    BY <1>2 DEF AppExits, SetProc, Live
  <2>3. Numbered'
    BY <2>1, <2>2 DEF Numbered
  <2>4. OrphansForgotten' /\ OneOwner'
    BY <2>1 DEF OrphansForgotten, OneOwner
  <2>5. OwnedUnreaped' /\ Unpublished' /\ SafeToClear'
    BY <2>1 DEF OwnedUnreaped, Unpublished, SafeToClear, Callers
  <2>6. NoRecycledPid'
    BY <2>1 DEF NoRecycledPid
  <2> QED
    BY <2>3, <2>4, <2>5, <2>6
<1> QED
  BY <1>1, <1>2 DEF AppStep

LEMMA NextIdInv == TypeInv /\ IdInv /\ [Next]_vars => IdInv'
<1> SUFFICES ASSUME TypeInv, IdInv, [Next]_vars PROVE IdInv'
  OBVIOUS
<1>1. CASE UNCHANGED vars
  BY <1>1 DEF vars, osVars, pidVars, flagVars, wdVars, callVars, appVars, IdInv, Numbered,
     OrphansForgotten, OneOwner, OwnedUnreaped, Unpublished, SafeToClear, NoRecycledPid
<1> QED
  BY <1>1, OsIdInv, WatchdogIdInv, UserIdInv, SpawnIdInv, ReadyIdInv, StopIdInv, AppIdInv
     DEF Next, MainStep, Callers

LEMMA InitIdInv == Init => IdInv
<1> USE BoundsAssumption DEF Init, NoPid, Children, Watchdogs, Callers
<1>1. Init => Numbered /\ OrphansForgotten /\ OneOwner
  BY DEF Numbered, OrphansForgotten, OneOwner
<1>2. Init => OwnedUnreaped /\ Unpublished /\ SafeToClear
  BY DEF OwnedUnreaped, Unpublished, SafeToClear
<1>3. Init => NoRecycledPid
  BY DEF NoRecycledPid
<1> QED
  BY <1>1, <1>2, <1>3 DEF IdInv

\* The pids stop_owned_gateway and the exit handler would signal never name a
\* process the system is free to replace, but for the moment in which the
\* thread that reaped it clears them.
THEOREM PidsNeverRecycled == Spec => []NoRecycledPid
<1>1. IdInv => NoRecycledPid
  BY DEF IdInv
<1> QED
  BY <1>1, InitTypeInv, NextTypeInv, InitIdInv, NextIdInv, PTL DEF Spec

\* The only steps that clear the pid are the watchdog that reaped the child and
\* the stop that saw it dead, or gone from the cell.
LEMMA PidClearedWhenDead ==
  ASSUME TypeInv, IdInv, [Next]_vars, app' = "up", pid # NoPid, pid' = NoPid
  PROVE  proc[pid] \notin Live
<1> USE DEF osVars, pidVars, flagVars, wdVars, callVars, appVars
<1>1. ASSUME NEW w \in Watchdogs, WatchdogStep(w)
      PROVE  proc[pid] \notin Live
  <2>1. CASE WatchdogClearsPid(w)
    BY <2>1 DEF WatchdogClearsPid, ClearedPid, IdInv, OwnedUnreaped, Live
  <2>2. CASE WatchdogPublishesPid(w)
    BY <2>2 DEF WatchdogPublishesPid, IdInv, OwnedUnreaped
  <2>3. CASE ~WatchdogClearsPid(w) /\ ~WatchdogPublishesPid(w)
    <3>1. pid' = pid
      BY <1>1, <2>3 DEF WatchdogStep, WatchdogReaps, WatchdogClearsMirror, WatchdogStops,
         WatchdogDecides, WatchdogGivesUp, WatchdogWakes, WatchdogLaunches,
         WatchdogLaunchFails, WatchdogPublishesMirror
    <3> QED
      BY <3>1
  <2> QED
    BY <2>1, <2>2, <2>3
<1>2. ASSUME NEW a \in Callers, StopStep(a)
      PROVE  proc[pid] \notin Live
  <2>1. CASE StopClearsPid(a)
    BY <2>1 DEF StopClearsPid, ClearedPid, IdInv, SafeToClear
  <2>2. CASE ~StopClearsPid(a)
    <3>1. pid' = pid
      BY <1>2, <2>2 DEF StopStep, StopFindsNothing, StopLoadsPid, StopSetsIntent,
         StopWaitsGracefully, StopSignals, StopSeesDead, StopGivesUp, StopClearsMirror
    <3> QED
      BY <3>1
  <2> QED
    BY <2>1, <2>2
<1>3. CASE SpawnStep
  <2>1. CASE SpawnPublishesPid
    BY <2>1 DEF SpawnPublishesPid, IdInv, OwnedUnreaped
  <2>2. CASE ~SpawnPublishesPid
    <3>1. pid' = pid
      BY <1>3, <2>2 DEF SpawnStep, SpawnClearsFailure, SpawnFails, SpawnChecksPort,
         SpawnReclaimed, SpawnClearsIntent, SpawnLaunches, SpawnPublishesMirror,
         SpawnStartsWatchdog
    <3> QED
      BY <3>1
  <2> QED
    BY <2>1, <2>2
<1>4. CASE OsStep \/ UserStep \/ ReadyStep \/ UNCHANGED vars
  <2>1. pid' = pid
    BY <1>4 DEF OsStep, ChildListens, ChildExits, InitReaps, ForeignListener, Age, UserStep,
       StartGateway, StopGateway, RestartGateway, QuitApp, InstallUpdate, Issue, ReadyStep,
       StartChecksPort, StartChecksPid, BecomesReady, ReadyTimesOut, ReportNotReady, vars
  <2> QED
    BY <2>1
<1>5. CASE AppStep
  <2>1. pid' = pid
    BY <1>5 DEF AppStep, DownloadFails, UpdateInstalls, AppExits, AppGone, AppStarts
  <2> QED
    BY <2>1
<1> QED
  BY <1>1, <1>2, <1>3, <1>4, <1>5 DEF Next, MainStep, Callers

\* A gateway that still runs is never forgotten, whichever of its watchdog, a
\* start and a stop touch the pid at the same time.
THEOREM RunningGatewayStaysTracked == Spec => ForgottenOnlyWhenDead
<1>1. TypeInv /\ IdInv /\ [Next]_vars =>
        [app = "up" /\ app' = "up" /\ pid # NoPid /\ pid' = NoPid
           => proc[pid] \notin Live]_vars
  BY PidClearedWhenDead
<1> QED
  BY <1>1, InitTypeInv, NextTypeInv, InitIdInv, NextIdInv, PTL
     DEF Spec, ForgottenOnlyWhenDead
-----------------------------------------------------------------------------
(* One gateway until a start or restart.  LifeInv says where the callers   *)
(* are until then, which thread owns a live child, and that the cells name  *)
(* it.                                                                      *)

\* Only the start-up spawns, and a stop is a stop's, a quit's or an update's.
Place ==
    /\ cpc["updater"] \in StopPcs \cup {"idle", "download"}
    /\ cpc["updater"] \in StopPcs => after["updater"] = "download"
    /\ app = "down" => /\ ~respawned /\ ~last_failure
                       /\ cpc = [a \in Callers |-> "idle"]
                       /\ \A w \in Watchdogs : ~Watching(w)
    /\ ~respawned =>
         /\ cpc["main"] \in SpawnPcs \cup StopPcs \cup {"idle", "exit"}
         /\ cpc["main"] \in SpawnPcs => after["main"] = "startup"
         /\ cpc["main"] \in StopPcs => after["main"] \in {"answer", "exit"}

\* One thread watches, and nothing watches while main spawns.
OneWatcher ==
    ~respawned =>
        /\ \A v, w \in Watchdogs : Watching(v) /\ Watching(w) => v = w
        /\ cpc["main"] \in SpawnPcs => \A w \in Watchdogs : ~Watching(w)
        /\ cpc["main"] \in SpawnPcs \ {"clearFailure"} => ~last_failure

\* A live child is main's fresh one or the one its thread waits for.
Owner(c) ==
    \/ cpc["main"] \in {"publish", "publishMirror", "watch"} /\ fresh = c
    \/ \E w \in Watchdogs :
         wchild[w] = c /\ wpc[w] \in {"publish", "publishMirror", "wait"}

LiveOwned == ~respawned => \A c \in OwnLive : Owner(c)

\* The cells name a live child as soon as its launcher has stored it.
LiveTracked ==
    ~respawned =>
        /\ \A w \in Watchdogs :
             /\ wpc[w] \in {"publishMirror", "wait"} /\ proc[wchild[w]] \in Live
                  => pid = wchild[w]
             /\ wpc[w] = "wait" /\ proc[wchild[w]] \in Live => mirror = wchild[w]
        /\ cpc["main"] \in {"publishMirror", "watch"} /\ proc[fresh] \in Live
             => pid = fresh
        /\ cpc["main"] = "watch" /\ proc[fresh] \in Live => mirror = fresh

\* What a stop is about to clear is dead.
DeadTargets ==
    ~respawned => \A a \in Callers :
        /\ cpc[a] \in StopPcs \ {"stopLoad"} =>
              target[a] \in Children \ orphans
        /\ cpc[a] \in {"clear", "clearMirror"} => proc[target[a]] \notin Live

\* Until a start or restart, a failure is recorded only where no thread watches.
FailureAtRest ==
    ~respawned /\ last_failure => \A w \in Watchdogs : ~Watching(w)

LifeInv ==
    /\ Place
    /\ OneWatcher
    /\ LiveOwned
    /\ LiveTracked
    /\ DeadTargets
    /\ FailureAtRest

\* A step after which no child is live that was not before.
NoneBorn == \A c \in Children : proc'[c] \in Live => proc[c] \in Live

\* Main neither enters nor leaves the pcs in which it has a child of its own.
MainKeepsChild ==
    \/ cpc'["main"] = cpc["main"]
    \/ /\ cpc["main"] \notin {"publish", "publishMirror", "watch"}
       /\ cpc'["main"] \notin {"publish", "publishMirror", "watch"}

\* Callers only move out of a stop that has a target, or stay in it.
StopsOnlyLeft ==
    \A a \in Callers :
        \/ cpc'[a] = cpc[a] /\ target'[a] = target[a]
        \/ cpc'[a] \notin StopPcs \ {"stopLoad"}

\* A step in which children may only die keeps what LifeInv says of them, if it
\* leaves the threads and the cells alone.
LEMMA LiveKept ==
  ASSUME TypeInv, IdInv, LiveOwned, LiveTracked, respawned => respawned',
         UNCHANGED <<orphans, pid, mirror, wpc, wchild, fresh>>,
         NoneBorn, MainKeepsChild
  PROVE  LiveOwned' /\ LiveTracked'
<1> USE DEF NoneBorn, MainKeepsChild
<1>1. LiveOwned'
  <2> SUFFICES ASSUME ~respawned', NEW c \in Children \ orphans, proc'[c] \in Live
               PROVE  Owner(c)'
    BY DEF LiveOwned, OwnLive
  <2>1. Owner(c)
    BY DEF LiveOwned, OwnLive
  <2> QED
    BY <2>1 DEF Owner
<1>2. LiveTracked'
  <2> SUFFICES ASSUME ~respawned' PROVE LiveTracked'
    BY DEF LiveTracked
  <2>1. \A w \in Watchdogs : wpc[w] \in {"publishMirror", "wait"} => wchild[w] \in Children
    BY BoundsAssumption DEF TypeInv, TypeOK, IdInv, OwnedUnreaped, NoPid, Children
  <2>2. cpc["main"] \in {"publishMirror", "watch"} => fresh \in Children
    BY BoundsAssumption DEF TypeInv, TypeOK, IdInv, OwnedUnreaped, NoPid, Children
  <2> QED
    BY <2>1, <2>2 DEF LiveTracked
<1> QED
  BY <1>1, <1>2

LEMMA DeadKept ==
  ASSUME TypeInv, DeadTargets, respawned => respawned', UNCHANGED orphans,
         NoneBorn, StopsOnlyLeft
  PROVE  DeadTargets'
<1> USE DEF NoneBorn, StopsOnlyLeft
<1>1. SUFFICES ASSUME ~respawned', NEW a \in Callers,
                      cpc'[a] = cpc[a], target'[a] = target[a]
               PROVE  /\ cpc[a] \in StopPcs \ {"stopLoad"} =>
                           target[a] \in Children \ orphans
                      /\ cpc[a] \in {"clear", "clearMirror"} => proc'[target[a]] \notin Live
  BY DEF DeadTargets, StopPcs
<1> QED
  BY <1>1 DEF DeadTargets, StopPcs

LEMMA OsLifeInv == TypeInv /\ IdInv /\ LifeInv /\ OsStep => LifeInv'
<1> SUFFICES ASSUME TypeInv, IdInv, LifeInv, OsStep PROVE LifeInv'
  OBVIOUS
<1>1. UNCHANGED <<orphans, pidVars, flagVars, wpc, wchild, callVars, appVars>>
  BY DEF OsStep, ChildListens, ChildExits, InitReaps, ForeignListener, Age, osVars, wdVars
<1>2. NoneBorn
  <2> USE DEF NoneBorn, SetProc, Live, TypeInv, TypeOK
  <2>1. ASSUME NEW c \in Children, ChildListens(c) \/ ChildExits(c) \/ InitReaps(c)
        PROVE  NoneBorn
    BY <2>1 DEF ChildListens, ChildExits, InitReaps
  <2>2. CASE proc' = proc
    BY <2>2
  <2> QED
    BY <2>1, <2>2 DEF OsStep, ForeignListener, Age, osVars
<1>3. /\ UNCHANGED <<pid, mirror, last_failure, cpc, after, target, fresh, app, respawned>>
      /\ (respawned => respawned')
  BY <1>1 DEF pidVars, flagVars, callVars, appVars
<1>4. Place' /\ OneWatcher' /\ FailureAtRest'
  BY <1>1, <1>3 DEF LifeInv, Place, OneWatcher, FailureAtRest, Watching
<1>5. MainKeepsChild /\ StopsOnlyLeft
  BY <1>3 DEF MainKeepsChild, StopsOnlyLeft
<1>6. LiveOwned' /\ LiveTracked'
  BY <1>1, <1>2, <1>3, <1>5, LiveKept DEF LifeInv
<1>7. DeadTargets'
  BY <1>1, <1>2, <1>3, <1>5, DeadKept DEF LifeInv
<1> QED
  BY <1>4, <1>6, <1>7 DEF LifeInv

LEMMA UserLifeInv == TypeInv /\ IdInv /\ LifeInv /\ UserStep => LifeInv'
<1>0. "main" \in Callers /\ "updater" \in Callers
  BY DEF Callers
<1> SUFFICES ASSUME TypeInv, IdInv, LifeInv, NEW a \in Callers, NEW c, NEW pc, NEW k,
                    Issue(a, c, pc, k),
                    \/ a = "main" /\ c \in {"start", "restart"}
                    \/ a = "main" /\ pc = "stopLoad" /\ k \in {"answer", "exit"}
                    \/ a = "updater" /\ pc = "stopLoad" /\ k = "download"
             PROVE  LifeInv'
  BY <1>0 DEF UserStep, StartGateway, StopGateway, RestartGateway, QuitApp, InstallUpdate
<1>2. /\ app = "up" /\ app' = "up" /\ cpc[a] = "idle"
      /\ UNCHANGED <<proc, orphans, pid, mirror, last_failure, wpc, wchild, target, fresh>>
  BY DEF Issue, osVars, pidVars, flagVars, wdVars
<1>3. /\ cpc'[a] = pc /\ after'[a] = k
      /\ \A b \in Callers : b # a => cpc'[b] = cpc[b] /\ after'[b] = after[b]
  BY DEF Issue, TypeInv, TypeOK
<1>4. respawned' = (respawned \/ c \in {"start", "restart"})
  BY DEF Issue
<1>5. \/ a = "main" /\ respawned'
      \/ a = "main" /\ cpc'[a] = "stopLoad" /\ after'[a] \in {"answer", "exit"}
      \/ a = "updater" /\ cpc'[a] = "stopLoad" /\ after'[a] = "download"
  BY <1>3, <1>4
<1>6. respawned => respawned'
  BY <1>4
<1>7. Place'
  BY <1>0, <1>2, <1>3, <1>5, <1>6 DEF LifeInv, Place, StopPcs, SpawnPcs, Callers
<1>8. CASE respawned'
  BY <1>7, <1>8 DEF LifeInv, OneWatcher, LiveOwned, LiveTracked, DeadTargets, FailureAtRest
<1>9. CASE ~respawned'
  <2>1. cpc'[a] = "stopLoad"
    BY <1>5, <1>9
  <2>2. OneWatcher' /\ FailureAtRest'
    BY <1>0, <1>2, <1>3, <1>6, <2>1
       DEF LifeInv, OneWatcher, FailureAtRest, Watching, SpawnPcs
  <2>3. NoneBorn
    BY <1>2 DEF NoneBorn
  <2>4. MainKeepsChild
    BY <1>0, <1>2, <1>3, <2>1 DEF MainKeepsChild
  <2>5. StopsOnlyLeft
    BY <1>2, <1>3, <2>1 DEF StopsOnlyLeft
  <2>6. LiveOwned' /\ LiveTracked'
    BY <1>2, <1>6, <2>3, <2>4, LiveKept DEF LifeInv
  <2>7. DeadTargets'
    BY <1>2, <1>6, <2>3, <2>5, DeadKept DEF LifeInv
  <2> QED
    BY <1>7, <2>2, <2>6, <2>7 DEF LifeInv
<1> QED
  BY <1>8, <1>9

\* After a start or restart LifeInv only asks for Place.
LEMMA RespawnedLifeInv == Place' /\ respawned' => LifeInv'
  BY DEF LifeInv, OneWatcher, LiveOwned, LiveTracked, DeadTargets, FailureAtRest

LEMMA InitLifeInv == Init => LifeInv
<1> SUFFICES ASSUME Init PROVE LifeInv
  OBVIOUS
<1>1. Place /\ OneWatcher /\ FailureAtRest
  BY DEF Init, Place, OneWatcher, FailureAtRest, Watching, Callers, SpawnPcs, StopPcs
<1>2. LiveOwned /\ LiveTracked
  BY DEF Init, LiveOwned, LiveTracked, OwnLive, Live, Callers
<1>3. DeadTargets
  BY DEF Init, DeadTargets, Callers, StopPcs
<1> QED
  BY <1>1, <1>2, <1>3 DEF LifeInv

LEMMA AppLifeInv == TypeInv /\ IdInv /\ LifeInv /\ AppStep => LifeInv'
<1> SUFFICES ASSUME TypeInv, IdInv, LifeInv, AppStep PROVE LifeInv'
  OBVIOUS
<1>0. "main" \in Callers /\ "updater" \in Callers
  BY DEF Callers
<1> USE DEF osVars, pidVars, flagVars, wdVars, appVars
<1>1. CASE DownloadFails \/ UpdateInstalls \/ AppStarts
  <2>1. /\ UNCHANGED <<proc, orphans, pid, mirror, last_failure, wpc, wchild, fresh, respawned>>
        /\ app' = app \/ (app = "down" /\ app' = "up")
        /\ (respawned => respawned')
    BY <1>1 DEF DownloadFails, UpdateInstalls, AppStarts
  <2>2. /\ cpc'["updater"] = cpc["updater"] \/ cpc'["updater"] = "idle"
        /\ cpc'["updater"] \in StopPcs => after'["updater"] = after["updater"]
        /\ \/ UNCHANGED <<cpc["main"], after["main"]>>
           \/ app = "down" /\ cpc'["main"] = "clearFailure" /\ after'["main"] = "startup"
           \/ cpc["main"] = "idle" /\ cpc'["main"] = "stopLoad" /\ after'["main"] = "exit"
    BY <1>0, <1>1 DEF DownloadFails, UpdateInstalls, AppStarts, Answer, TypeInv, TypeOK, StopPcs
  <2>3. app' = "up"
    BY <1>0, <1>1 DEF DownloadFails, UpdateInstalls, AppStarts, LifeInv, Place, TypeInv, TypeOK
  <2>4. Place'
    BY <1>0, <2>1, <2>2, <2>3 DEF LifeInv, Place, SpawnPcs, StopPcs
  <2>5. OneWatcher' /\ FailureAtRest'
    BY <2>1, <2>2 DEF LifeInv, Place, OneWatcher, FailureAtRest, Watching, SpawnPcs
  <2>6. NoneBorn
    BY <2>1 DEF NoneBorn
  <2>7. MainKeepsChild
    BY <1>0, <2>2 DEF MainKeepsChild, LifeInv, Place
  <2>8. StopsOnlyLeft
    BY <1>1 DEF StopsOnlyLeft, DownloadFails, UpdateInstalls, AppStarts, Answer, Callers, StopPcs,
       TypeInv, TypeOK
  <2>9. LiveOwned' /\ LiveTracked'
    BY <2>1, <2>6, <2>7, LiveKept DEF LifeInv
  <2>10. DeadTargets'
    BY <2>1, <2>6, <2>8, DeadKept DEF LifeInv
  <2> QED
    BY <2>4, <2>5, <2>9, <2>10 DEF LifeInv
<1>2. CASE AppExits
  <2>1. /\ app' = "down" /\ respawned' = FALSE /\ last_failure' = FALSE
        /\ orphans' = {c \in Children : proc[c] # "unborn"}
        /\ wpc' = [w \in Watchdogs |-> IF w <= lifecycles THEN "done" ELSE "off"]
        /\ cpc' = [a \in Callers |-> "idle"]
    BY <1>2 DEF AppExits, AppGone
  <2>2. \A c \in Children \ orphans' : proc'[c] \notin Live
    BY <1>2, <2>1 DEF AppExits, SetProc, Live, TypeInv, TypeOK
  <2>3. \A w \in Watchdogs : wpc'[w] \in {"done", "off"}
    BY <2>1
  <2>4. Place' /\ OneWatcher' /\ FailureAtRest'
    BY <1>0, <2>1, <2>3 DEF Place, OneWatcher, FailureAtRest, Watching, SpawnPcs, StopPcs
  <2>5. LiveOwned' /\ LiveTracked'
    BY <1>0, <2>1, <2>2, <2>3 DEF LiveOwned, LiveTracked, OwnLive
  <2>6. DeadTargets'
    BY <2>1 DEF DeadTargets, StopPcs
  <2> QED
    BY <2>4, <2>5, <2>6 DEF LifeInv
<1> QED
  BY <1>1, <1>2 DEF AppStep

LEMMA StopReturnsPlace ==
  ASSUME TypeInv, IdInv, LifeInv, NEW a \in Callers, NEW r, StopReturns(a, r),
         cpc[a] \in StopPcs
  PROVE  /\ \A b \in Callers : b # a =>
              cpc'[b] = cpc[b] /\ after'[b] = after[b] /\ target'[b] = target[b]
         /\ cpc'[a] \notin StopPcs
         /\ a = "updater" => cpc'[a] = "download"
         /\ a = "main" /\ ~respawned => cpc'[a] \in {"idle", "exit"}
<1> USE DEF TypeInv, TypeOK
<1>1. CASE after[a] = "answer"
  BY <1>1 DEF StopReturns, Answer, LifeInv, Place, StopPcs
<1>2. CASE after[a] # "answer"
  <2>1. PICK pc \in {"report", "clearFailure", "download", "exit"} : Goto(a, pc)
    BY <1>2 DEF StopReturns
  <2>2. a = "updater" => cpc'[a] = "download"
    BY <1>2, <2>1 DEF StopReturns, Goto, LifeInv, Place
  <2>3. a = "main" /\ ~respawned => cpc'[a] \in {"idle", "exit"}
    BY <1>2, <2>1 DEF StopReturns, Goto, LifeInv, Place
  <2> QED
    BY <2>1, <2>2, <2>3 DEF Goto, StopPcs
<1> QED
  BY <1>1, <1>2

LEMMA ReadyLifeInv == TypeInv /\ IdInv /\ LifeInv /\ ReadyStep => LifeInv'
<1> SUFFICES ASSUME TypeInv, IdInv, LifeInv, ReadyStep PROVE LifeInv'
  OBVIOUS
<1>0. "main" \in Callers /\ "updater" \in Callers
  BY DEF Callers
<1>1. cpc["main"] \in {"portCheck", "pidCheck", "awaitReady", "report"}
  BY DEF ReadyStep, StartChecksPort, StartChecksPid, BecomesReady, ReadyTimesOut, ReportNotReady
<1>2. respawned /\ app # "down"
  BY <1>0, <1>1 DEF LifeInv, Place, SpawnPcs, StopPcs
<1>3. UNCHANGED <<app, respawned>>
  BY DEF ReadyStep, StartChecksPort, StartChecksPid, BecomesReady, ReadyTimesOut,
     ReportNotReady, appVars
<1>4. cpc'["updater"] = cpc["updater"] /\ after'["updater"] = after["updater"]
  BY <1>0 DEF ReadyStep, StartChecksPort, StartChecksPid, BecomesReady, ReadyTimesOut,
     ReportNotReady, Answer, Goto, TypeInv, TypeOK
<1>5. respawned' /\ app' # "down"
  BY <1>2, <1>3
<1> QED
  BY <1>4, <1>5 DEF LifeInv, Place, OneWatcher, LiveOwned, LiveTracked, DeadTargets,
     FailureAtRest

\* The caller goes on with its stop, or returns from it.
StopGoesOn(a) ==
    /\ \A b \in Callers : b # a =>
         cpc'[b] = cpc[b] /\ after'[b] = after[b] /\ target'[b] = target[b]
    /\ \/ cpc'[a] \in StopPcs /\ after'[a] = after[a]
       \/ a = "updater" /\ cpc'[a] \in {"idle", "download"}
       \/ a = "main" /\ cpc'[a] \notin StopPcs /\ (~respawned => cpc'[a] \in {"idle", "exit"})

LEMMA StopGoesOnStep ==
  ASSUME TypeInv, IdInv, LifeInv, NEW a \in Callers, StopStep(a)
  PROVE  StopGoesOn(a)
<1>0. "main" \in Callers /\ "updater" \in Callers
  BY DEF Callers
<1>a. /\ cpc[a] \in StopPcs
      /\ UNCHANGED <<orphans, last_failure, wpc, wchild, fresh, app, respawned>>
  BY DEF StopStep, StopFindsNothing, StopLoadsPid, StopSetsIntent, StopWaitsGracefully,
     StopSignals, StopSeesDead, StopGivesUp, StopClearsPid, StopClearsMirror, StopPcs,
     osVars, pidVars, flagVars, wdVars, appVars
<1>b. /\ app = "up"
      /\ a = "main" /\ ~respawned => after[a] \in {"answer", "exit"}
      /\ a = "updater" => after[a] = "download"
  BY <1>0, <1>a DEF LifeInv, Place, TypeInv, TypeOK, StopPcs, Callers
<1> USE <1>b DEF StopGoesOn, Callers, TypeInv, TypeOK
<1>1. ASSUME NEW r, StopReturns(a, r) PROVE StopGoesOn(a)
  BY <1>a, <1>1, StopReturnsPlace
<1>2. CASE StopFindsNothing(a)
  BY <1>1, <1>2 DEF StopFindsNothing
<1>3. CASE StopLoadsPid(a)
  BY <1>3 DEF StopLoadsPid, StopPcs
<1>4. CASE StopSetsIntent(a)
  BY <1>4 DEF StopSetsIntent, Goto, StopPcs
<1>5. CASE StopWaitsGracefully(a)
  BY <1>5 DEF StopWaitsGracefully, Goto, StopPcs
<1>6. CASE StopSignals(a)
  BY <1>6 DEF StopSignals, Goto, StopPcs
<1>7. CASE StopSeesDead(a)
  BY <1>7 DEF StopSeesDead, Goto, StopPcs
<1>8. CASE StopGivesUp(a)
  <2>1. CASE after[a] = "download"
    <3>1. Answer(a, "Err")
      BY <1>8, <2>1, Zenon DEF StopGivesUp
    <3>2. a = "updater" \/ respawned
      BY <1>b, <2>1
    <3> QED
      BY <3>1, <3>2 DEF Answer, StopPcs
  <2>2. CASE after[a] # "download"
    BY <1>1, <1>8, <2>2, Zenon DEF StopGivesUp
  <2> QED
    BY <2>1, <2>2
<1>9. CASE StopClearsPid(a)
  BY <1>9 DEF StopClearsPid, Goto, StopPcs
<1>10. CASE StopClearsMirror(a)
  BY <1>1, <1>10 DEF StopClearsMirror
<1> QED
  BY <1>2, <1>3, <1>4, <1>5, <1>6, <1>7, <1>8, <1>9, <1>10 DEF StopStep

LEMMA StopLifeInv ==
  ASSUME TypeInv, IdInv, LifeInv, NEW a \in Callers, StopStep(a)
  PROVE  LifeInv'
<1>0. "main" \in Callers /\ "updater" \in Callers
  BY DEF Callers
<1>1. /\ cpc[a] \in StopPcs
      /\ UNCHANGED <<orphans, last_failure, wpc, wchild, fresh, app, respawned>>
  BY DEF StopStep, StopFindsNothing, StopLoadsPid, StopSetsIntent, StopWaitsGracefully,
     StopSignals, StopSeesDead, StopGivesUp, StopClearsPid, StopClearsMirror, StopPcs,
     osVars, pidVars, flagVars, wdVars, appVars
<1>2. /\ app = "up"
      /\ a = "main" /\ ~respawned => after[a] \in {"answer", "exit"}
      /\ a = "updater" => after[a] = "download"
  BY <1>0, <1>1 DEF LifeInv, Place, TypeInv, TypeOK, StopPcs, Callers
<1>3. NoneBorn
  BY DEF StopStep, StopFindsNothing, StopLoadsPid, StopSetsIntent, StopWaitsGracefully,
     StopSignals, StopSeesDead, StopGivesUp, StopClearsPid, StopClearsMirror, SetProc,
     osVars, NoneBorn, Live, TypeInv, TypeOK
<1>4. StopGoesOn(a)
  BY StopGoesOnStep
<1>5. a = "main" \/ a = "updater"
  BY DEF Callers
<1>6. Place'
  BY <1>0, <1>1, <1>2, <1>4, <1>5 DEF StopGoesOn, LifeInv, Place, SpawnPcs, StopPcs
<1>7. SUFFICES ASSUME ~respawned PROVE LifeInv'
  BY <1>1, <1>6, RespawnedLifeInv
<1>8. /\ cpc'["main"] \in SpawnPcs => cpc'["main"] = cpc["main"]
      /\ MainKeepsChild
  BY <1>0, <1>1, <1>4, <1>5, <1>7 DEF StopGoesOn, MainKeepsChild, SpawnPcs, StopPcs
<1>9. OneWatcher' /\ FailureAtRest'
  BY <1>1, <1>8 DEF LifeInv, OneWatcher, FailureAtRest, Watching
<1>10. LiveOwned'
  <2> SUFFICES ASSUME NEW c \in Children \ orphans, proc'[c] \in Live PROVE Owner(c)'
    BY <1>1 DEF LiveOwned, OwnLive
  <2>1. Owner(c)
    BY <1>3, <1>7 DEF LifeInv, LiveOwned, OwnLive, NoneBorn
  <2> QED
    BY <1>1, <1>8, <2>1 DEF Owner, MainKeepsChild
\* A live child's pid stays in the cells: only a dead target is cleared.
<1>11. /\ pid' = pid \/ (pid = target[a] /\ proc[target[a]] \notin Live)
       /\ mirror' = mirror \/ (mirror = target[a] /\ proc[target[a]] \notin Live)
  BY <1>7 DEF StopStep, StopFindsNothing, StopLoadsPid, StopSetsIntent, StopWaitsGracefully,
     StopSignals, StopSeesDead, StopGivesUp, StopClearsPid, StopClearsMirror, ClearedPid,
     ClearedMirror, pidVars, LifeInv, DeadTargets, StopPcs
<1>12. LiveTracked'
  <2>1. \A w \in Watchdogs : wpc[w] \in {"publishMirror", "wait"} => wchild[w] \in Children
    BY BoundsAssumption DEF TypeInv, TypeOK, IdInv, OwnedUnreaped, NoPid, Children
  <2>2. cpc["main"] \in {"publishMirror", "watch"} => fresh \in Children
    BY BoundsAssumption DEF TypeInv, TypeOK, IdInv, OwnedUnreaped, NoPid, Children
  <2>3. ASSUME NEW c \in Children, proc'[c] \in Live
        PROVE  proc[c] \in Live /\ (pid = c => pid' = c) /\ (mirror = c => mirror' = c)
    BY <1>3, <1>11, <2>3 DEF NoneBorn
  <2>4. ASSUME NEW w \in Watchdogs
        PROVE  /\ wpc'[w] \in {"publishMirror", "wait"} /\ proc'[wchild'[w]] \in Live
                    => pid' = wchild'[w]
               /\ wpc'[w] = "wait" /\ proc'[wchild'[w]] \in Live => mirror' = wchild'[w]
    BY <1>1, <1>7, <2>1, <2>3 DEF LifeInv, LiveTracked
  <2>5. /\ cpc'["main"] \in {"publishMirror", "watch"} /\ proc'[fresh'] \in Live => pid' = fresh'
        /\ cpc'["main"] = "watch" /\ proc'[fresh'] \in Live => mirror' = fresh'
    BY <1>1, <1>7, <1>8, <2>2, <2>3 DEF LifeInv, LiveTracked, MainKeepsChild
  <2> QED
    BY <2>4, <2>5 DEF LiveTracked
<1>13. DeadTargets'
  <2> USE DEF StopPcs
  <2>1. SUFFICES ASSUME cpc'[a] \in StopPcs \ {"stopLoad"}
                 PROVE  /\ target'[a] \in Children \ orphans
                        /\ cpc'[a] \in {"clear", "clearMirror"} => proc'[target'[a]] \notin Live
    BY <1>1, <1>3, <1>4, <1>7 DEF StopGoesOn, LifeInv, DeadTargets, NoneBorn
  <2> USE <2>1 DEF TypeInv, TypeOK
  <2>2. CASE StopLoadsPid(a)
    BY <2>2, BoundsAssumption DEF StopLoadsPid, IdInv, OrphansForgotten, NoPid, Children
  <2>3. cpc[a] \in StopPcs \ {"stopLoad"} => target[a] \in Children \ orphans
    BY <1>7 DEF LifeInv, DeadTargets
  <2>4. CASE StopSetsIntent(a)
    BY <2>3, <2>4 DEF StopSetsIntent, Goto
  <2>5. CASE StopWaitsGracefully(a)
    BY <2>3, <2>5 DEF StopWaitsGracefully, Goto, osVars, Running
  <2>6. CASE StopSignals(a)
    BY <2>3, <2>6 DEF StopSignals, Goto
  <2>7. CASE StopSeesDead(a)
    <3>1. cpc[a] = "awaitDead" /\ UNCHANGED <<proc, target>> /\ target[a] \in Children \ orphans
      BY <2>3, <2>7 DEF StopSeesDead, Goto, osVars
    <3>2. ASSUME proc[target[a]] \in Live PROVE pid = target[a]
      <4>1. Owner(target[a])
        BY <1>7, <3>1, <3>2 DEF LifeInv, LiveOwned, OwnLive
      <4>2. CASE cpc["main"] \in {"publish", "publishMirror", "watch"} /\ fresh = target[a]
        BY <1>7, <3>2, <4>2 DEF LifeInv, LiveTracked, IdInv, Unpublished
      <4>3. CASE \E w \in Watchdogs : /\ wchild[w] = target[a]
                                      /\ wpc[w] \in {"publish", "publishMirror", "wait"}
        BY <1>7, <3>2, <4>3 DEF LifeInv, LiveTracked, IdInv, Unpublished
      <4> QED
        BY <4>1, <4>2, <4>3 DEF Owner
    <3> QED
      BY <2>7, <3>1, <3>2 DEF StopSeesDead, Running
  <2>8. CASE StopClearsPid(a)
    BY <1>7, <2>3, <2>8 DEF StopClearsPid, Goto, osVars, LifeInv, DeadTargets
  <2>9. ASSUME NEW r, StopReturns(a, r) PROVE FALSE
    BY <1>1, <2>9, StopReturnsPlace
  <2>10. CASE StopFindsNothing(a) \/ StopGivesUp(a) \/ StopClearsMirror(a)
    <3>1. CASE after[a] = "download" /\ StopGivesUp(a)
      <4>1. Answer(a, "Err")
        BY <3>1, Zenon DEF StopGivesUp
      <4> QED
        BY <4>1 DEF Answer
    <3> QED
      BY <2>9, <2>10, <3>1, Zenon DEF StopFindsNothing, StopGivesUp, StopClearsMirror
  <2> QED
    BY <2>2, <2>4, <2>5, <2>6, <2>7, <2>8, <2>10 DEF StopStep
<1> QED
  BY <1>6, <1>9, <1>10, <1>12, <1>13 DEF LifeInv

LEMMA SpawnLifeInv == TypeInv /\ IdInv /\ LifeInv /\ SpawnStep => LifeInv'
<1> SUFFICES ASSUME TypeInv, IdInv, LifeInv, SpawnStep PROVE LifeInv'
  OBVIOUS
<1>0. "main" \in Callers /\ "updater" \in Callers
  BY DEF Callers
<1> USE DEF osVars, pidVars, flagVars, wdVars, appVars
<1>1. /\ cpc["main"] \in SpawnPcs
      /\ UNCHANGED <<orphans, app, respawned>>
  BY DEF SpawnStep, SpawnClearsFailure, SpawnFails, SpawnChecksPort, SpawnReclaimed,
     SpawnClearsIntent, SpawnLaunches, SpawnPublishesPid, SpawnPublishesMirror,
     SpawnStartsWatchdog, LaunchChild, SpawnPcs
<1>2. /\ app = "up"
      /\ ~respawned => after["main"] = "startup"
  BY <1>0, <1>1 DEF LifeInv, Place, TypeInv, TypeOK, SpawnPcs
<1>3. /\ \A b \in Callers : b # "main" =>
           cpc'[b] = cpc[b] /\ after'[b] = after[b] /\ target'[b] = target[b]
      /\ ~respawned =>
           \/ cpc'["main"] \in SpawnPcs \ {"clearFailure"} /\ after'["main"] = "startup"
           \/ cpc'["main"] = "idle"
  <2> USE DEF Answer, Goto, TypeInv, TypeOK, SpawnPcs
  <2>1. CASE SpawnStartsWatchdog
    <3>1. CASE after["main"] = "startup"
      <4>1. Answer("main", "none")
        BY <2>1, <3>1, Zenon DEF SpawnStartsWatchdog
      <4> QED
        BY <1>0, <4>1
    <3>2. CASE after["main"] # "startup"
      <4>1. Goto("main", "awaitReady")
        BY <2>1, <3>2, Zenon DEF SpawnStartsWatchdog
      <4> QED
        BY <1>0, <1>2, <3>2, <4>1
    <3> QED
      BY <3>1, <3>2
  <2>2. CASE SpawnReclaimed
    <3>1. CASE PortListening
      <4>1. Answer("main", "Err")
        BY <2>2, <3>1, Zenon DEF SpawnReclaimed
      <4> QED
        BY <1>0, <4>1
    <3>2. CASE ~PortListening
      <4>1. Goto("main", "provision")
        BY <2>2, <3>2, Zenon DEF SpawnReclaimed
      <4> QED
        BY <1>0, <1>2, <4>1
    <3> QED
      BY <3>1, <3>2
  <2>3. CASE SpawnFails
    BY <1>0, <2>3 DEF SpawnFails
  <2>4. CASE \/ SpawnClearsFailure \/ SpawnChecksPort \/ SpawnClearsIntent \/ SpawnLaunches
             \/ SpawnPublishesPid \/ SpawnPublishesMirror
    BY <1>0, <1>2, <2>4 DEF SpawnClearsFailure, SpawnChecksPort, SpawnClearsIntent,
       SpawnLaunches, SpawnPublishesPid, SpawnPublishesMirror
  <2> QED
    BY <2>1, <2>2, <2>3, <2>4 DEF SpawnStep
<1>4. Place'
  BY <1>0, <1>1, <1>2, <1>3 DEF LifeInv, Place, SpawnPcs, StopPcs
<1>5. SUFFICES ASSUME ~respawned PROVE LifeInv'
  BY <1>1, <1>4, RespawnedLifeInv
<1>6. \A w \in Watchdogs : ~Watching(w)
  BY <1>1, <1>5 DEF LifeInv, OneWatcher
<1>7. StopsOnlyLeft
  BY <1>0, <1>3, <1>5 DEF StopsOnlyLeft, Callers, SpawnPcs, StopPcs
\* Before the launch no child is live.
<1>8. CASE \/ SpawnClearsFailure \/ SpawnFails \/ SpawnChecksPort \/ SpawnReclaimed
           \/ SpawnClearsIntent
  <2>1. UNCHANGED <<pid, mirror, wpc, wchild, fresh>>
    BY <1>8 DEF SpawnClearsFailure, SpawnFails, SpawnChecksPort, SpawnReclaimed, SpawnClearsIntent
  <2>2. NoneBorn
    BY <1>8 DEF SpawnClearsFailure, SpawnFails, SpawnChecksPort, SpawnReclaimed,
       SpawnClearsIntent, NoneBorn, Live
  <2>3. /\ cpc["main"] \notin {"publish", "publishMirror", "watch"}
        /\ cpc'["main"] \notin {"publish", "publishMirror", "watch"}
        /\ cpc'["main"] \in SpawnPcs => ~last_failure'
    <3> USE <1>0, <1>5 DEF Answer, Goto, TypeInv, TypeOK, SpawnPcs
    <3>1. CASE SpawnReclaimed
      <4>1. CASE PortListening
        <5>1. Answer("main", "Err")
          BY <3>1, <4>1, Zenon DEF SpawnReclaimed
        <5> QED
          BY <3>1, <5>1 DEF SpawnReclaimed
      <4>2. CASE ~PortListening
        <5>1. Goto("main", "provision") /\ UNCHANGED last_failure
          BY <3>1, <4>2, Zenon DEF SpawnReclaimed
        <5> QED
          BY <3>1, <5>1 DEF SpawnReclaimed, LifeInv, OneWatcher
      <4> QED
        BY <4>1, <4>2
    <3>2. CASE SpawnFails
      BY <3>2 DEF SpawnFails
    <3>3. CASE SpawnClearsFailure
      BY <3>3 DEF SpawnClearsFailure
    <3>4. CASE SpawnChecksPort \/ SpawnClearsIntent
      BY <3>4 DEF SpawnChecksPort, SpawnClearsIntent, LifeInv, OneWatcher
    <3> QED
      BY <1>8, <3>1, <3>2, <3>3, <3>4
  <2>4. OneWatcher' /\ FailureAtRest'
    BY <1>6, <2>1, <2>3 DEF OneWatcher, FailureAtRest, Watching
  <2>5. LiveOwned' /\ LiveTracked'
    BY <1>1, <1>5, <2>1, <2>2, <2>3, LiveKept DEF LifeInv, MainKeepsChild
  <2>6. DeadTargets'
    BY <1>1, <1>5, <1>7, <2>2, DeadKept DEF LifeInv
  <2> QED
    BY <1>4, <2>4, <2>5, <2>6 DEF LifeInv
<1>9. CASE SpawnLaunches
  <2> USE <1>9 DEF SpawnLaunches, LaunchChild, SetProc, Goto
  <2>1. /\ cpc["main"] = "launch" /\ cpc'["main"] = "publish"
        /\ launched + 1 \in Children /\ fresh' = launched + 1
        /\ UNCHANGED <<orphans, last_failure, pid, mirror, wpc, wchild, target>>
    BY <1>0, BoundsAssumption DEF TypeInv, TypeOK, Children
  <2>2. \A c \in Children : c # launched + 1 => proc'[c] = proc[c]
    BY DEF TypeInv, TypeOK
  <2>3. OneWatcher' /\ FailureAtRest'
    BY <1>5, <1>6, <2>1 DEF LifeInv, OneWatcher, FailureAtRest, Watching, SpawnPcs
  <2>4. \A c \in OwnLive : FALSE
    BY <1>5, <1>6, <2>1 DEF LifeInv, LiveOwned, Owner, Watching
  <2>5. LiveOwned'
    BY <2>1, <2>2, <2>4 DEF LiveOwned, OwnLive, Owner
  <2>6. LiveTracked'
    BY <1>6, <2>1 DEF LiveTracked, Watching
  <2>7. DeadTargets'
    <3>1. \A b \in Callers : target[b] # launched + 1
      BY BoundsAssumption DEF IdInv, Numbered, TypeInv, TypeOK
    <3> QED
      BY <1>0, <1>3, <1>5, <2>1, <2>2, <3>1 DEF LifeInv, DeadTargets, StopPcs
  <2> QED
    BY <1>4, <2>3, <2>5, <2>6, <2>7 DEF LifeInv
<1>10. CASE SpawnPublishesPid \/ SpawnPublishesMirror
  <2> USE <1>10 DEF SpawnPublishesPid, SpawnPublishesMirror, Goto
  <2>1. /\ cpc["main"] \in {"publish", "publishMirror"}
        /\ cpc'["main"] \in {"publishMirror", "watch"}
        /\ UNCHANGED <<proc, orphans, last_failure, wpc, wchild, fresh, target>>
    BY <1>0 DEF TypeInv, TypeOK
  <2>2. OneWatcher' /\ FailureAtRest'
    BY <1>5, <1>6, <2>1 DEF LifeInv, OneWatcher, FailureAtRest, Watching, SpawnPcs
  <2>3. LiveOwned'
    BY <1>5, <1>6, <2>1 DEF LifeInv, LiveOwned, OwnLive, Owner, Watching
  <2>4. LiveTracked'
    BY <1>0, <1>5, <1>6, <2>1 DEF LifeInv, LiveTracked, Watching, TypeInv, TypeOK
  <2>5. NoneBorn
    BY <2>1 DEF NoneBorn
  <2>6. DeadTargets'
    BY <1>1, <1>5, <1>7, <2>5, DeadKept DEF LifeInv
  <2> QED
    BY <1>4, <2>2, <2>3, <2>4, <2>6 DEF LifeInv
<1>11. CASE SpawnStartsWatchdog
  <2> USE <1>11 DEF SpawnStartsWatchdog, WGoto
  <2> DEFINE n == lifecycles + 1
  <2>1. /\ cpc["main"] = "watch" /\ cpc'["main"] = "idle" /\ n \in Watchdogs
        /\ UNCHANGED <<proc, orphans, pid, mirror, last_failure>>
    BY <1>0, <1>2, <1>5, BoundsAssumption
       DEF Answer, TypeInv, TypeOK, RoomForWatchdog, Watchdogs
  <2>2. /\ wpc'[n] = "wait" /\ wchild'[n] = fresh
        /\ \A w \in Watchdogs : w # n => wpc'[w] = wpc[w] /\ wchild'[w] = wchild[w]
    BY <2>1 DEF TypeInv, TypeOK
  <2> HIDE DEF n
  <2>3. ~last_failure
    BY <1>1, <1>5, <2>1 DEF LifeInv, OneWatcher, SpawnPcs
  <2>4. OneWatcher' /\ FailureAtRest'
    BY <1>6, <2>1, <2>2, <2>3 DEF OneWatcher, FailureAtRest, Watching, SpawnPcs
  <2>5. LiveOwned'
    <3> SUFFICES ASSUME NEW c \in OwnLive PROVE Owner(c)'
      BY <2>1 DEF LiveOwned, OwnLive
    <3>1. fresh = c
      BY <1>5, <1>6 DEF LifeInv, LiveOwned, Owner, Watching
    <3> QED
      BY <2>1, <2>2, <3>1 DEF Owner
  <2>6. LiveTracked'
    BY <1>5, <1>6, <2>1, <2>2 DEF LifeInv, LiveTracked, Watching
  <2>7. NoneBorn
    BY <2>1 DEF NoneBorn
  <2>8. DeadTargets'
    BY <1>1, <1>5, <1>7, <2>7, DeadKept DEF LifeInv
  <2> QED
    BY <1>4, <2>4, <2>5, <2>6, <2>8 DEF LifeInv
<1> QED
  BY <1>8, <1>9, <1>10, <1>11 DEF SpawnStep

LEMMA WatchdogLifeInv ==
  ASSUME TypeInv, IdInv, LifeInv, NEW w \in Watchdogs, WatchdogStep(w)
  PROVE  LifeInv'
<1> USE DEF osVars, pidVars, flagVars, callVars, appVars
<1>1. /\ Watching(w)
      /\ UNCHANGED <<orphans, fresh, cpc, after, target, app, respawned>>
  BY DEF WatchdogStep, WatchdogReaps, WatchdogClearsPid, WatchdogClearsMirror, WatchdogStops,
     WatchdogDecides, WatchdogGivesUp, WatchdogWakes, WatchdogLaunches, WatchdogLaunchFails,
     WatchdogPublishesPid, WatchdogPublishesMirror, LaunchChild, Watching
<1>2. app = "up"
  BY <1>1 DEF LifeInv, Place, TypeInv, TypeOK
<1>3. \A v \in Watchdogs : v # w => wpc'[v] = wpc[v] /\ wchild'[v] = wchild[v]
  <2> USE DEF WGoto, Retire, TypeInv, TypeOK
  <2>1. CASE WatchdogWakes(w)
    <3>1. CASE stop_intended
      <4>1. Retire(w)
        BY <2>1, <3>1, Zenon DEF WatchdogWakes
      <4> QED
        BY <4>1
    <3>2. CASE ~stop_intended
      <4>1. WGoto(w, "launch") /\ UNCHANGED wchild
        BY <2>1, <3>2, Zenon DEF WatchdogWakes
      <4> QED
        BY <4>1
    <3> QED
      BY <3>1, <3>2
  <2>2. CASE ~WatchdogWakes(w)
    BY <2>2 DEF WatchdogStep, WatchdogReaps, WatchdogClearsPid, WatchdogClearsMirror,
       WatchdogStops, WatchdogDecides, WatchdogGivesUp, WatchdogLaunches, WatchdogLaunchFails,
       WatchdogPublishesPid, WatchdogPublishesMirror
  <2> QED
    BY <2>1, <2>2
<1>4. Place'
  BY <1>1, <1>2 DEF LifeInv, Place
<1>5. SUFFICES ASSUME ~respawned PROVE LifeInv'
  BY <1>1, <1>4, RespawnedLifeInv
<1>6. /\ cpc["main"] \notin SpawnPcs
      /\ \A v \in Watchdogs : v # w => ~Watching(v)
      /\ ~last_failure
  BY <1>1, <1>5 DEF LifeInv, OneWatcher, FailureAtRest, TypeInv, TypeOK
<1>7. OneWatcher'
  BY <1>1, <1>3, <1>6 DEF OneWatcher, Watching
<1>8. FailureAtRest'
  <2>1. CASE WatchdogGivesUp(w) \/ WatchdogLaunchFails(w)
    <3>1. wpc'[w] = "done"
      BY <2>1 DEF WatchdogGivesUp, WatchdogLaunchFails, Retire, WGoto, TypeInv, TypeOK
    <3> QED
      BY <1>3, <1>6, <3>1 DEF FailureAtRest, Watching
  <2>2. CASE ~WatchdogGivesUp(w) /\ ~WatchdogLaunchFails(w)
    <3>1. last_failure' = last_failure
      BY <2>2 DEF WatchdogStep, WatchdogReaps, WatchdogClearsPid, WatchdogClearsMirror,
         WatchdogStops, WatchdogDecides, WatchdogWakes, WatchdogLaunches,
         WatchdogPublishesPid, WatchdogPublishesMirror
    <3> QED
      BY <1>6, <3>1 DEF FailureAtRest
  <2> QED
    BY <2>1, <2>2
\* Only this thread can own a live child.
<1>9. \A c \in OwnLive : wchild[w] = c /\ wpc[w] \in {"publish", "publishMirror", "wait"}
  BY <1>5, <1>6 DEF LifeInv, LiveOwned, Owner, Watching, SpawnPcs
<1>10. ASSUME /\ \A c \in OwnLive' : /\ wchild'[w] = c
                                     /\ wpc'[w] \in {"publish", "publishMirror", "wait"},
              wpc'[w] \in {"publishMirror", "wait"} /\ proc'[wchild'[w]] \in Live
                => pid' = wchild'[w],
              wpc'[w] = "wait" /\ proc'[wchild'[w]] \in Live => mirror' = wchild'[w]
       PROVE  LiveOwned' /\ LiveTracked'
  <2>1. LiveOwned'
    BY <1>10 DEF LiveOwned, Owner
  <2>2. LiveTracked'
    BY <1>1, <1>3, <1>6, <1>10 DEF LiveTracked, Watching, SpawnPcs
  <2> QED
    BY <2>1, <2>2
<1>11. CASE WatchdogLaunches(w)
  <2> USE <1>11 DEF WatchdogLaunches, LaunchChild, SetProc, WGoto
  <2>1. /\ launched + 1 \in Children /\ wchild'[w] = launched + 1 /\ wpc'[w] = "publish"
        /\ wpc[w] = "launch"
    BY BoundsAssumption DEF TypeInv, TypeOK, Children
  <2>2. \A c \in Children : c # launched + 1 => proc'[c] = proc[c]
    BY DEF TypeInv, TypeOK
  <2>3. \A c \in OwnLive' : c = launched + 1
    BY <1>1, <1>9, <2>1, <2>2 DEF OwnLive
  <2>4. LiveOwned' /\ LiveTracked'
    BY <1>10, <2>1, <2>3
  <2>5. \A b \in Callers : target[b] # launched + 1
    BY BoundsAssumption DEF IdInv, Numbered, TypeInv, TypeOK
  <2>6. DeadTargets'
    BY <1>1, <1>5, <2>2, <2>5 DEF LifeInv, DeadTargets
  <2> QED
    BY <1>4, <1>7, <1>8, <2>4, <2>6 DEF LifeInv
<1>12. CASE ~WatchdogLaunches(w)
  <2>1. NoneBorn
    BY <1>12 DEF WatchdogStep, WatchdogReaps, WatchdogClearsPid, WatchdogClearsMirror,
       WatchdogStops, WatchdogDecides, WatchdogGivesUp, WatchdogWakes, WatchdogLaunchFails,
       WatchdogPublishesPid, WatchdogPublishesMirror, SetProc, NoneBorn, Live, TypeInv, TypeOK
  <2>2. StopsOnlyLeft
    BY <1>1 DEF StopsOnlyLeft
  <2>3. DeadTargets'
    BY <1>1, <1>5, <2>1, <2>2, DeadKept DEF LifeInv
  <2>4. \A c \in OwnLive' : c \in OwnLive
    BY <1>1, <2>1 DEF OwnLive, NoneBorn
  <2>5. LiveOwned' /\ LiveTracked'
    <3> USE DEF WGoto, TypeInv, TypeOK
    <3>1. CASE WatchdogPublishesPid(w)
      <4>1. /\ wpc[w] = "publish" /\ wpc'[w] = "publishMirror" /\ pid' = wchild[w]
            /\ wchild' = wchild
        BY <3>1 DEF WatchdogPublishesPid
      <4> QED
        BY <1>9, <1>10, <2>4, <4>1
    <3>2. CASE WatchdogPublishesMirror(w)
      <4>1. /\ wpc[w] = "publishMirror" /\ wpc'[w] = "wait" /\ mirror' = wchild[w]
            /\ UNCHANGED <<proc, pid, wchild>>
        BY <3>2 DEF WatchdogPublishesMirror
      <4>2. proc[wchild[w]] \in Live => pid = wchild[w]
        BY <1>5, <4>1 DEF LifeInv, LiveTracked
      <4> QED
        BY <1>9, <1>10, <2>4, <4>1, <4>2
    <3>3. CASE WatchdogReaps(w)
      <4>1. wpc'[w] = "clear" /\ (wchild[w] \in Children => proc'[wchild[w]] = "reaped")
        BY <3>3 DEF WatchdogReaps, SetProc
      <4>2. \A c \in OwnLive' : FALSE
        BY <1>9, <2>4, <4>1 DEF OwnLive, Live
      <4> QED
        BY <1>10, <4>1, <4>2
    <3>4. CASE ~WatchdogPublishesPid(w) /\ ~WatchdogPublishesMirror(w) /\ ~WatchdogReaps(w)
      <4>1. /\ wpc[w] \notin {"publish", "publishMirror", "wait"}
            /\ wpc'[w] \notin {"publish", "publishMirror", "wait"}
        <5>1. CASE WatchdogWakes(w)
          <6>1. wpc[w] = "backoff" /\ (Retire(w) \/ WGoto(w, "launch"))
            BY <5>1, Zenon DEF WatchdogWakes
          <6> QED
            BY <6>1 DEF Retire
        <5>2. CASE ~WatchdogWakes(w)
          BY <1>12, <3>4, <5>2 DEF WatchdogStep, WatchdogClearsPid, WatchdogClearsMirror,
             WatchdogStops, WatchdogDecides, WatchdogGivesUp, WatchdogLaunchFails, Retire
        <5> QED
          BY <5>1, <5>2
      <4> QED
        BY <1>9, <1>10, <2>4, <4>1
    <3> QED
      BY <3>1, <3>2, <3>3, <3>4
  <2> QED
    BY <1>4, <1>7, <1>8, <2>3, <2>5 DEF LifeInv
<1> QED
  BY <1>11, <1>12

LEMMA NextLifeInv == TypeInv /\ IdInv /\ LifeInv /\ [Next]_vars => LifeInv'
<1> SUFFICES ASSUME TypeInv, IdInv, LifeInv, [Next]_vars PROVE LifeInv'
  OBVIOUS
<1>1. CASE UNCHANGED vars
  BY <1>1 DEF vars, osVars, pidVars, flagVars, wdVars, callVars, appVars, LifeInv, Place,
     OneWatcher, Watching, LiveOwned, OwnLive, Owner, LiveTracked, DeadTargets,
     FailureAtRest
<1> QED
  BY <1>1, OsLifeInv, WatchdogLifeInv, UserLifeInv, SpawnLifeInv, ReadyLifeInv, StopLifeInv,
     AppLifeInv DEF Next, MainStep, Callers

\* Until a start or restart is issued the app never has two live gateways of
\* its own, for any number of launches, lifecycles and app runs.
THEOREM OneGateway == Spec => []SingleGateway
<1>1. LifeInv => SingleGateway
  <2> SUFFICES ASSUME LifeInv, ~respawned, NEW c \in OwnLive, NEW d \in OwnLive PROVE c = d
    BY DEF SingleGateway
  <2>1. Owner(c) /\ Owner(d)
    BY DEF LifeInv, LiveOwned
  <2> QED
    BY <2>1 DEF Owner, LifeInv, OneWatcher, Watching, SpawnPcs
<1> QED
  BY <1>1, InitTypeInv, NextTypeInv, InitIdInv, NextIdInv, InitLifeInv, NextLifeInv, PTL
     DEF Spec

\* Until then a live gateway is the one the pid and its mirror name, once its
\* launcher has stored them: a stop and the exit handler reach it.
THEOREM GatewayReachable == Spec => []OwnGatewayIsTracked
<1>1. LifeInv => OwnGatewayIsTracked
  <2> SUFFICES ASSUME LifeInv, ~respawned, NEW c \in OwnLive
               PROVE  \/ pid = c /\ mirror = c
                      \/ fresh = c /\ cpc["main"] \in {"publish", "publishMirror"}
                      \/ \E w \in Watchdogs :
                           wchild[w] = c /\ wpc[w] \in {"publish", "publishMirror"}
    BY DEF OwnGatewayIsTracked
  <2>1. Owner(c) /\ proc[c] \in Live
    BY DEF LifeInv, LiveOwned, OwnLive
  <2> QED
    BY <2>1 DEF Owner, LifeInv, LiveTracked
<1> QED
  BY <1>1, InitTypeInv, NextTypeInv, InitIdInv, NextIdInv, InitLifeInv, NextLifeInv, PTL
     DEF Spec

-----------------------------------------------------------------------------
(* GatewaySupervisor implements SupervisedService.  ServiceInv says where  *)
(* the newest thread is, so that what it counts is what the service counts.*)

\* Until a start or restart, only the thread started last is at work.
NewestWatches ==
    ~respawned => \A w \in Watchdogs : Watching(w) => w = lifecycles

\* A thread that does not watch has counted nothing.
Forgets ==
    \A w \in Watchdogs : ~Watching(w) => wfails[w] = 0 /\ waged[w] = FALSE

\* Nobody is asked to stop a gateway that was never launched.
NothingToStop ==
    app = "down" \/ (~respawned /\ cpc["main"] \in LaunchPcs) =>
        /\ pid = NoPid
        /\ stop_intended = FALSE
        /\ cpc["updater"] \notin StopPcs \ {"stopLoad"}

ServiceInv == NewestWatches /\ Forgets /\ NothingToStop

LEMMA InitServiceInv == Init => ServiceInv
  BY DEF Init, ServiceInv, NewestWatches, Forgets, NothingToStop, Watching, Callers, StopPcs

\* What keeps the threads keeps what is said of them.
LEMMA ThreadsKept ==
  ASSUME ServiceInv, UNCHANGED <<wpc, wfails, waged, lifecycles>>, respawned => respawned'
  PROVE  NewestWatches' /\ Forgets'
  BY DEF ServiceInv, NewestWatches, Forgets, Watching

LEMMA OsServiceInv == TypeInv /\ LifeInv /\ ServiceInv /\ OsStep => ServiceInv'
<1> SUFFICES ASSUME TypeInv, LifeInv, ServiceInv, OsStep PROVE ServiceInv'
  OBVIOUS
<1> USE DEF osVars, pidVars, flagVars, wdVars, callVars, appVars
<1>1. UNCHANGED <<pid, stop_intended, wpc, wfails, lifecycles, cpc, app, respawned>>
  BY DEF OsStep, ChildListens, ChildExits, InitReaps, ForeignListener, Age
<1>2. NothingToStop'
  BY <1>1 DEF ServiceInv, NothingToStop
<1>3. \A w \in Watchdogs : ~Watching(w) => waged'[w] = waged[w]
  BY DEF OsStep, ChildListens, ChildExits, InitReaps, ForeignListener, Age, Watching,
     TypeInv, TypeOK
<1>4. NewestWatches' /\ Forgets'
  BY <1>1, <1>3 DEF ServiceInv, NewestWatches, Forgets, Watching
<1> QED
  BY <1>2, <1>4 DEF ServiceInv

LEMMA WatchdogServiceInv ==
  ASSUME TypeInv, LifeInv, ServiceInv, NEW w \in Watchdogs, WatchdogStep(w)
  PROVE  ServiceInv'
<1> USE DEF osVars, pidVars, flagVars, callVars, appVars
<1>1. Watching(w) /\ UNCHANGED <<stop_intended, lifecycles, cpc, app, respawned>>
  <2>1. CASE WatchdogWakes(w)
    <3>1. wpc[w] = "backoff" /\ (Retire(w) \/ UNCHANGED lifecycles)
          /\ UNCHANGED <<stop_intended, cpc, app, respawned>>
      BY <2>1, Zenon DEF WatchdogWakes
    <3> QED
      BY <3>1 DEF Retire, Watching
  <2>2. CASE ~WatchdogWakes(w)
    BY <2>2 DEF WatchdogStep, WatchdogReaps, WatchdogClearsPid, WatchdogClearsMirror,
       WatchdogStops, WatchdogDecides, WatchdogGivesUp, WatchdogLaunches, WatchdogLaunchFails,
       WatchdogPublishesPid, WatchdogPublishesMirror, LaunchChild, Watching, Retire
  <2> QED
    BY <2>1, <2>2
<1>2. app = "up"
  BY <1>1 DEF LifeInv, Place, TypeInv, TypeOK
<1>3. NothingToStop'
  BY <1>1, <1>2 DEF NothingToStop, LifeInv, OneWatcher, SpawnPcs, LaunchPcs
<1>4. /\ \A v \in Watchdogs : v # w =>
           wpc'[v] = wpc[v] /\ wfails'[v] = wfails[v] /\ waged'[v] = waged[v]
      /\ wpc'[w] \in {"off", "done"} => wfails'[w] = 0 /\ waged'[w] = FALSE
  <2> USE DEF WGoto, Retire, TypeInv, TypeOK
  <2>1. CASE WatchdogWakes(w)
    <3>1. CASE stop_intended
      <4>1. Retire(w)
        BY <2>1, <3>1, Zenon DEF WatchdogWakes
      <4> QED
        BY <4>1
    <3>2. CASE ~stop_intended
      <4>1. WGoto(w, "launch") /\ UNCHANGED <<wfails, waged>>
        BY <2>1, <3>2, Zenon DEF WatchdogWakes
      <4> QED
        BY <4>1
    <3> QED
      BY <3>1, <3>2
  <2>2. CASE WatchdogDecides(w)
    BY <2>2 DEF WatchdogDecides
  <2>3. CASE ~WatchdogWakes(w) /\ ~WatchdogDecides(w)
    BY <2>3 DEF WatchdogStep, WatchdogReaps, WatchdogClearsPid, WatchdogClearsMirror,
       WatchdogStops, WatchdogGivesUp, WatchdogLaunches, WatchdogLaunchFails,
       WatchdogPublishesPid, WatchdogPublishesMirror
  <2> QED
    BY <2>1, <2>2, <2>3
<1>5. NewestWatches'
  BY <1>1, <1>4 DEF ServiceInv, NewestWatches, Watching
<1>6. Forgets'
  BY <1>4 DEF ServiceInv, Forgets, Watching
<1> QED
  BY <1>3, <1>5, <1>6 DEF ServiceInv

LEMMA UserServiceInv == TypeInv /\ LifeInv /\ ServiceInv /\ UserStep => ServiceInv'
<1>0. "main" \in Callers /\ "updater" \in Callers
  BY DEF Callers
<1> SUFFICES ASSUME TypeInv, LifeInv, ServiceInv, NEW a \in Callers, NEW c, NEW pc, NEW k,
                    Issue(a, c, pc, k), pc \in {"portCheck", "stopLoad"}
             PROVE  ServiceInv'
  BY <1>0 DEF UserStep, StartGateway, StopGateway, RestartGateway, QuitApp, InstallUpdate
<1>1. /\ app' = "up" /\ (respawned => respawned')
      /\ UNCHANGED <<pid, stop_intended, wpc, wfails, waged, lifecycles>>
  BY DEF Issue, osVars, pidVars, flagVars, wdVars
<1>2. /\ cpc'[a] = pc /\ \A b \in Callers : b # a => cpc'[b] = cpc[b]
  BY DEF Issue, TypeInv, TypeOK
<1>3. NothingToStop'
  BY <1>0, <1>1, <1>2 DEF ServiceInv, NothingToStop, LaunchPcs, StopPcs, Callers
<1> QED
  BY <1>1, <1>3, ThreadsKept DEF ServiceInv

LEMMA SpawnServiceInv == TypeInv /\ LifeInv /\ ServiceInv /\ SpawnStep => ServiceInv'
<1> SUFFICES ASSUME TypeInv, LifeInv, ServiceInv, SpawnStep PROVE ServiceInv'
  OBVIOUS
<1>0. "main" \in Callers /\ "updater" \in Callers
  BY DEF Callers
<1> USE DEF osVars, pidVars, flagVars, wdVars, appVars
<1>1. cpc["main"] \in SpawnPcs /\ UNCHANGED <<app, respawned>>
  BY DEF SpawnStep, SpawnClearsFailure, SpawnFails, SpawnChecksPort, SpawnReclaimed,
     SpawnClearsIntent, SpawnLaunches, SpawnPublishesPid, SpawnPublishesMirror,
     SpawnStartsWatchdog, SpawnPcs
<1>2. app = "up"
  BY <1>0, <1>1 DEF LifeInv, Place, TypeInv, TypeOK, SpawnPcs
<1>3. CASE SpawnStartsWatchdog
  <2> DEFINE n == lifecycles + 1
  <2>1. /\ n \in Watchdogs /\ lifecycles' = n /\ UNCHANGED <<wfails, waged>>
        /\ wpc' = [wpc EXCEPT ![n] = "wait"]
    BY <1>3, BoundsAssumption
       DEF SpawnStartsWatchdog, WGoto, TypeInv, TypeOK, RoomForWatchdog, Watchdogs
  <2> HIDE DEF n
  <2>2. wpc'[n] = "wait" /\ \A w \in Watchdogs : w # n => wpc'[w] = wpc[w]
    BY <2>1 DEF TypeInv, TypeOK
  <2>3. cpc'["main"] \notin LaunchPcs
    <3>1. Answer("main", "none") \/ Goto("main", "awaitReady")
      BY <1>3, Zenon DEF SpawnStartsWatchdog
    <3> QED
      BY <1>0, <3>1 DEF Answer, Goto, LaunchPcs, TypeInv, TypeOK
  <2>4. NothingToStop'
    BY <1>1, <1>2, <2>3 DEF NothingToStop
  <2>5. NewestWatches' /\ Forgets'
    BY <1>1, <2>1, <2>2
       DEF ServiceInv, NewestWatches, Forgets, Watching, LifeInv, OneWatcher
  <2> QED
    BY <2>4, <2>5 DEF ServiceInv
<1>4. CASE ~SpawnStartsWatchdog
  <2>1. UNCHANGED <<wpc, wfails, waged, lifecycles>>
    BY <1>4 DEF SpawnStep, SpawnClearsFailure, SpawnFails, SpawnChecksPort, SpawnReclaimed,
       SpawnClearsIntent, SpawnLaunches, SpawnPublishesPid, SpawnPublishesMirror
  <2>2. SUFFICES ASSUME ~respawned, cpc'["main"] \in LaunchPcs PROVE NothingToStop'
    BY <1>1, <1>2, <2>1, ThreadsKept DEF ServiceInv, NothingToStop
  <2>3. \/ SpawnClearsFailure \/ SpawnFails \/ SpawnChecksPort \/ SpawnReclaimed
        \/ SpawnClearsIntent
    BY <1>0, <1>4, <2>2 DEF SpawnStep, SpawnLaunches, SpawnPublishesPid, SpawnPublishesMirror,
       Goto, LaunchPcs, TypeInv, TypeOK
  <2>4. /\ cpc["main"] \in LaunchPcs
        /\ pid' = pid /\ (stop_intended' = stop_intended \/ stop_intended' = FALSE)
        /\ cpc'["updater"] = cpc["updater"]
    <3>1. CASE SpawnReclaimed
      <4>1. Answer("main", "Err") \/ Goto("main", "provision")
        BY <3>1, Zenon DEF SpawnReclaimed
      <4> QED
        BY <1>0, <3>1, <4>1 DEF SpawnReclaimed, Answer, Goto, LaunchPcs, TypeInv, TypeOK
    <3>2. CASE ~SpawnReclaimed
      BY <1>0, <2>3, <3>2 DEF SpawnClearsFailure, SpawnFails, SpawnChecksPort,
         SpawnClearsIntent, Answer, Goto, LaunchPcs, TypeInv, TypeOK
    <3> QED
      BY <3>1, <3>2
  <2> QED
    BY <2>2, <2>4 DEF ServiceInv, NothingToStop
<1> QED
  BY <1>3, <1>4

LEMMA ReadyServiceInv == TypeInv /\ LifeInv /\ ServiceInv /\ ReadyStep => ServiceInv'
<1> SUFFICES ASSUME TypeInv, LifeInv, ServiceInv, ReadyStep PROVE ServiceInv'
  OBVIOUS
<1>0. "main" \in Callers
  BY DEF Callers
<1>1. cpc["main"] \in {"portCheck", "pidCheck", "awaitReady", "report"}
  BY DEF ReadyStep, StartChecksPort, StartChecksPid, BecomesReady, ReadyTimesOut, ReportNotReady
<1>2. respawned /\ app # "down"
  BY <1>0, <1>1 DEF LifeInv, Place, SpawnPcs, StopPcs
<1>3. UNCHANGED <<wpc, wfails, waged, lifecycles, app, respawned>>
  BY DEF ReadyStep, StartChecksPort, StartChecksPid, BecomesReady, ReadyTimesOut,
     ReportNotReady, appVars, wdVars
<1> QED
  BY <1>2, <1>3, ThreadsKept DEF ServiceInv, NothingToStop

LEMMA StopServiceInv ==
  ASSUME TypeInv, IdInv, LifeInv, ServiceInv, NEW a \in Callers, StopStep(a)
  PROVE  ServiceInv'
<1>0. "main" \in Callers /\ "updater" \in Callers /\ (a = "main" \/ a = "updater")
  BY DEF Callers
<1>1. /\ cpc[a] \in StopPcs
      /\ UNCHANGED <<wpc, wfails, waged, lifecycles, app, respawned>>
  BY DEF StopStep, StopFindsNothing, StopLoadsPid, StopSetsIntent, StopWaitsGracefully,
     StopSignals, StopSeesDead, StopGivesUp, StopClearsPid, StopClearsMirror, StopPcs,
     wdVars, appVars
<1>2. app = "up"
  BY <1>0, <1>1 DEF LifeInv, Place, TypeInv, TypeOK, StopPcs
<1>3. SUFFICES ASSUME ~respawned, cpc'["main"] \in LaunchPcs PROVE NothingToStop'
  BY <1>1, <1>2, ThreadsKept DEF ServiceInv, NothingToStop
<1>4. StopGoesOn(a)
  BY StopGoesOnStep
<1>5. a = "updater" /\ cpc["main"] \in LaunchPcs
  BY <1>0, <1>1, <1>3, <1>4 DEF StopGoesOn, LaunchPcs, StopPcs
<1>6. pid = NoPid /\ stop_intended = FALSE /\ cpc[a] = "stopLoad"
  BY <1>1, <1>3, <1>5 DEF ServiceInv, NothingToStop
<1>7. StopFindsNothing(a)
  BY <1>6 DEF StopStep, StopLoadsPid, StopSetsIntent, StopWaitsGracefully, StopSignals,
     StopSeesDead, StopGivesUp, StopClearsPid, StopClearsMirror
<1>8. UNCHANGED <<pid, stop_intended>>
  BY <1>7 DEF StopFindsNothing, pidVars, flagVars
<1>9. cpc'[a] = "download"
  <2>1. PICK r : StopReturns(a, r)
    BY <1>7 DEF StopFindsNothing
  <2> QED
    BY <1>1, <1>5, <2>1, StopReturnsPlace
<1> QED
  BY <1>5, <1>6, <1>8, <1>9 DEF NothingToStop, StopPcs

LEMMA AppServiceInv == TypeInv /\ LifeInv /\ ServiceInv /\ AppStep => ServiceInv'
<1> SUFFICES ASSUME TypeInv, LifeInv, ServiceInv, AppStep PROVE ServiceInv'
  OBVIOUS
<1>0. "main" \in Callers /\ "updater" \in Callers
  BY DEF Callers
<1> USE DEF pidVars, flagVars, wdVars, appVars
<1>1. CASE AppExits
  <2>1. /\ app' = "down" /\ respawned' = FALSE /\ pid' = NoPid /\ stop_intended' = FALSE
        /\ wpc' = [w \in Watchdogs |-> IF w <= lifecycles THEN "done" ELSE "off"]
        /\ wfails' = [w \in Watchdogs |-> 0] /\ waged' = [w \in Watchdogs |-> FALSE]
        /\ cpc' = [b \in Callers |-> "idle"]
    BY <1>1 DEF AppExits, AppGone
  <2> QED
    BY <1>0, <2>1 DEF ServiceInv, NewestWatches, Forgets, NothingToStop, Watching, StopPcs
<1>2. CASE DownloadFails \/ UpdateInstalls \/ AppStarts
  <2>1. /\ UNCHANGED <<pid, stop_intended, wpc, wfails, waged, lifecycles, respawned>>
        /\ app' = "up"
    BY <1>0, <1>2 DEF DownloadFails, UpdateInstalls, AppStarts, LifeInv, Place, TypeInv, TypeOK
  <2>2. NothingToStop'
    BY <1>0, <1>2, <2>1 DEF DownloadFails, UpdateInstalls, AppStarts, Answer, ServiceInv,
       NothingToStop, LaunchPcs, StopPcs, TypeInv, TypeOK
  <2> QED
    BY <2>1, <2>2, ThreadsKept DEF ServiceInv
<1> QED
  BY <1>1, <1>2 DEF AppStep

LEMMA NextServiceInv ==
  TypeInv /\ IdInv /\ LifeInv /\ ServiceInv /\ [Next]_vars => ServiceInv'
<1> SUFFICES ASSUME TypeInv, IdInv, LifeInv, ServiceInv, [Next]_vars PROVE ServiceInv'
  OBVIOUS
<1>1. CASE UNCHANGED vars
  BY <1>1, ThreadsKept DEF vars, pidVars, flagVars, wdVars, callVars, appVars, ServiceInv,
     NothingToStop
<1> QED
  BY <1>1, OsServiceInv, WatchdogServiceInv, UserServiceInv, SpawnServiceInv, ReadyServiceInv,
     StopServiceInv, AppServiceInv DEF Next, MainStep, Callers

\* What the service is, while it is supervised, in terms of the thread at work.
MappedTo ==
    /\ \A w \in Watchdogs : Watching(w) =>
         /\ Failures = wfails[w] /\ Healthy = waged[w]
         /\ OutagePhase = ThreadPhase(wpc[w])
         /\ cpc["main"] \notin SpawnPcs
    /\ (\A w \in Watchdogs : ~Watching(w)) =>
         /\ Failures = 0 /\ Healthy = FALSE
         /\ cpc["main"] \notin SpawnPcs =>
              OutagePhase = IF last_failure THEN "failed" ELSE "off"
    /\ cpc["main"] \in LaunchPcs => OutagePhase = "starting"
    /\ cpc["main"] \in PublishPcs => OutagePhase = "down"
    /\ Phase = IF OwnLive # {} THEN "up" ELSE OutagePhase

SupInv == TypeInv /\ IdInv /\ LifeInv /\ ServiceInv

LEMMA Mapped == SupInv /\ Supervised => MappedTo
<1> SUFFICES ASSUME SupInv, Supervised PROVE MappedTo
  OBVIOUS
<1> USE DEF SupInv, TypeInv, TypeOK
<1>1. app = "up" /\ ~respawned
  BY DEF Supervised
<1>2. ASSUME NEW w \in Watchdogs, Watching(w)
      PROVE  /\ Failures = wfails[w] /\ Healthy = waged[w]
             /\ OutagePhase = ThreadPhase(wpc[w])
             /\ cpc["main"] \notin SpawnPcs
  <2>1. lifecycles = w /\ lifecycles > 0 /\ lifecycles # 0
    BY <1>1, <1>2, BoundsAssumption DEF ServiceInv, NewestWatches, Watchdogs
  <2>2. cpc["main"] \notin SpawnPcs
    BY <1>1, <1>2 DEF LifeInv, OneWatcher
  <2>3. OutagePhase = ThreadPhase(wpc[w])
    BY <2>1, <2>2 DEF OutagePhase, LaunchPcs, PublishPcs, SpawnPcs
  <2>4. waged[w] \in BOOLEAN
    OBVIOUS
  <2> QED
    BY <2>1, <2>2, <2>3, <2>4 DEF Failures, Healthy
<1>3. ASSUME \A w \in Watchdogs : ~Watching(w)
      PROVE  /\ Failures = 0 /\ Healthy = FALSE
             /\ cpc["main"] \notin SpawnPcs =>
                  OutagePhase = IF last_failure THEN "failed" ELSE "off"
  <2>1. CASE lifecycles = 0
    BY <2>1 DEF Failures, Healthy, OutagePhase, ThreadPhase, LaunchPcs, PublishPcs, SpawnPcs
  <2>2. CASE lifecycles # 0
    <3>1. lifecycles \in Watchdogs /\ lifecycles > 0
      BY <2>2, BoundsAssumption DEF Watchdogs
    <3>2. /\ wfails[lifecycles] = 0 /\ waged[lifecycles] = FALSE
          /\ wpc[lifecycles] \in {"off", "done"}
      BY <1>3, <3>1 DEF ServiceInv, Forgets, Watching
    <3> QED
      BY <2>2, <3>1, <3>2
         DEF Failures, Healthy, OutagePhase, ThreadPhase, LaunchPcs, PublishPcs, SpawnPcs
  <2> QED
    BY <2>1, <2>2
<1>4. /\ cpc["main"] \in LaunchPcs => OutagePhase = "starting"
      /\ cpc["main"] \in PublishPcs => OutagePhase = "down"
  BY DEF OutagePhase, LaunchPcs, PublishPcs, SpawnPcs
<1>5. Phase = IF OwnLive # {} THEN "up" ELSE OutagePhase
  BY <1>1 DEF Phase
<1> QED
  BY <1>2, <1>3, <1>4, <1>5 DEF MappedTo

\* The phase a thread at pc stands for.
LEMMA ThreadPhases ==
  /\ \A pc \in {"wait", "clear", "clearMirror", "check", "publish", "publishMirror"} :
       ThreadPhase(pc) = "down"
  /\ \A pc \in {"backoff", "launch"} : ThreadPhase(pc) = "retrying"
  /\ ThreadPhase("giveUp") = "exhausted"
  BY DEF ThreadPhase

\* When the gateway is found dead, its thread, or main, has yet to count the exit.
LEMMA OutageOfOwner ==
  ASSUME SupInv, Supervised, OwnLive # {}
  PROVE  OutagePhase = "down"
<1>1. PICK c \in OwnLive : Owner(c)
  BY DEF SupInv, LifeInv, LiveOwned, Supervised
<1>2. MappedTo
  BY Mapped
<1>3. CASE cpc["main"] \in {"publish", "publishMirror", "watch"}
  BY <1>2, <1>3 DEF MappedTo, PublishPcs, SpawnPcs, LaunchPcs
<1>4. ASSUME NEW w \in Watchdogs, wpc[w] \in {"publish", "publishMirror", "wait"}
      PROVE  OutagePhase = "down"
  BY <1>2, <1>4, ThreadPhases DEF MappedTo, Watching
<1> QED
  BY <1>1, <1>3, <1>4 DEF Owner

ServiceStep == [Service!Next]_(Service!vars)

\* A step of the service, for the proof to aim at.
LEMMA ServiceStutters ==
  ASSUME UNCHANGED <<Phase, launched, Failures, Healthy, Stopping>>
  PROVE  ServiceStep
  BY DEF ServiceStep, Service!vars

\* A step that changes nothing the service counts, in which gateways may only
\* exit, is an exit or nothing.
LEMMA QuietStep ==
  ASSUME SupInv, Supervised, Supervised', MappedTo, MappedTo', NoneBorn,
         UNCHANGED <<orphans, launched, Failures, Healthy, Stopping, OutagePhase>>
  PROVE  ServiceStep
<1>1. OwnLive' \subseteq OwnLive
  BY DEF OwnLive, NoneBorn
<1>2. CASE (OwnLive' # {}) <=> (OwnLive # {})
  BY <1>2, ServiceStutters DEF MappedTo
<1>3. CASE OwnLive' = {} /\ OwnLive # {}
  <2>1. Phase = "up" /\ Phase' = "down"
    BY <1>3, OutageOfOwner DEF MappedTo
  <2>2. Service!Exits
    BY <2>1 DEF Service!Exits
  <2> QED
    BY <2>2 DEF ServiceStep, Service!Next
<1> QED
  BY <1>1, <1>2, <1>3

\* What the service counts depends on the threads, and on main's stage.
LEMMA CountsKept ==
  ASSUME Supervised, Supervised', UNCHANGED <<wpc, wfails, waged, lifecycles, stop_intended>>
  PROVE  UNCHANGED <<Failures, Healthy, Stopping>>
  BY DEF Failures, Healthy, Stopping

LEMMA OutageKept ==
  ASSUME UNCHANGED <<wpc, lifecycles, last_failure>>,
         \/ cpc'["main"] = cpc["main"]
         \/ cpc["main"] \notin SpawnPcs /\ cpc'["main"] \notin SpawnPcs
  PROVE  OutagePhase' = OutagePhase
  BY DEF OutagePhase, ThreadPhase, LaunchPcs, PublishPcs, SpawnPcs

\* No gateway runs while the thread at work has none, or main has yet to launch it.
LEMMA NoneRuns ==
  ASSUME SupInv, Supervised,
         \/ \E w \in Watchdogs : /\ Watching(w)
                                 /\ wpc[w] \notin {"publish", "publishMirror", "wait"}
         \/ \A w \in Watchdogs : ~Watching(w)
  PROVE  cpc["main"] \notin PublishPcs => OwnLive = {}
<1> SUFFICES ASSUME cpc["main"] \notin PublishPcs, NEW c \in OwnLive PROVE FALSE
  OBVIOUS
<1>1. Owner(c)
  BY DEF SupInv, LifeInv, LiveOwned, Supervised
<1>2. \A v, w \in Watchdogs : Watching(v) /\ Watching(w) => v = w
  BY DEF SupInv, LifeInv, OneWatcher, Supervised
<1> QED
  BY <1>1, <1>2 DEF Owner, Watching, PublishPcs, SpawnPcs, LaunchPcs

LEMMA OsService ==
  ASSUME SupInv, Supervised, Supervised', MappedTo, MappedTo', OsStep
  PROVE  ServiceStep
<1> USE DEF osVars, pidVars, flagVars, callVars, appVars
<1>1. UNCHANGED <<orphans, launched, stop_intended, last_failure, cpc, wpc, wfails, lifecycles>>
  BY DEF OsStep, ChildListens, ChildExits, InitReaps, ForeignListener, Age, wdVars
<1>2. OutagePhase' = OutagePhase
  BY <1>1, OutageKept
<1>3. NoneBorn
  <2> USE DEF NoneBorn, SetProc, Live, SupInv, TypeInv, TypeOK
  <2>1. ASSUME NEW c \in Children, ChildListens(c) \/ ChildExits(c) \/ InitReaps(c)
        PROVE  NoneBorn
    BY <2>1 DEF ChildListens, ChildExits, InitReaps
  <2>2. CASE proc' = proc
    BY <2>2
  <2> QED
    BY <2>1, <2>2 DEF OsStep, ForeignListener, Age
<1>4. ASSUME NEW w \in Watchdogs, Age(w) PROVE ServiceStep
  <2>1. /\ wpc[w] = "wait" /\ Watching(w) /\ Watching(w)'
        /\ waged'[w] = TRUE /\ wfails' = wfails /\ proc' = proc
    BY <1>4 DEF Age, Watching, SupInv, TypeInv, TypeOK
  <2>2. wchild[w] \in OwnLive
    <3>1. wchild[w] \in Children /\ proc[wchild[w]] \in Live
      BY <1>4, <2>1, BoundsAssumption
         DEF Age, SupInv, IdInv, OwnedUnreaped, TypeInv, TypeOK, NoPid, Children
    <3> QED
      BY <3>1 DEF OwnLive, SupInv, IdInv, OrphansForgotten
  <2>3. OwnLive' # {}
    BY <1>1, <2>1, <2>2 DEF OwnLive
  <2>4. /\ Phase = "up" /\ Phase' = "up" /\ Healthy' = TRUE /\ Failures' = Failures
    BY <2>1, <2>2, <2>3 DEF MappedTo
  <2>5. Stopping' = Stopping
    BY <1>1 DEF Stopping
  <2>6. Service!GrowsHealthy
    BY <1>1, <2>4, <2>5 DEF Service!GrowsHealthy
  <2> QED
    BY <2>6 DEF ServiceStep, Service!Next
<1>5. CASE waged' = waged
  BY <1>1, <1>2, <1>3, <1>5, CountsKept, QuietStep
<1> QED
  BY <1>4, <1>5 DEF OsStep, ChildListens, ChildExits, InitReaps, ForeignListener, wdVars

LEMMA WatchdogService ==
  ASSUME SupInv, Supervised, Supervised', MappedTo, MappedTo',
         NEW w \in Watchdogs, WatchdogStep(w)
  PROVE  ServiceStep
<1> USE DEF osVars, pidVars, flagVars, callVars, appVars
<1>1. /\ Watching(w) /\ UNCHANGED <<orphans, cpc>>
      /\ stop_intended' = stop_intended
  BY DEF WatchdogStep, WatchdogReaps, WatchdogClearsPid, WatchdogClearsMirror, WatchdogStops,
     WatchdogDecides, WatchdogGivesUp, WatchdogWakes, WatchdogLaunches, WatchdogLaunchFails,
     WatchdogPublishesPid, WatchdogPublishesMirror, LaunchChild, Watching
<1>2. /\ cpc["main"] \notin SpawnPcs /\ last_failure = FALSE
      /\ \A v \in Watchdogs : v # w => ~Watching(v)
  BY <1>1 DEF MappedTo, SupInv, LifeInv, FailureAtRest, OneWatcher, Supervised,
     TypeInv, TypeOK
<1>3. /\ Failures = wfails[w] /\ Healthy = waged[w] /\ OutagePhase = ThreadPhase(wpc[w])
      /\ Stopping = stop_intended /\ Stopping' = stop_intended
  BY <1>1 DEF MappedTo, Stopping, SupInv, TypeInv, TypeOK, Supervised
\* The thread goes on, or it returns and nobody watches.
<1>4. Watching(w)' => /\ Failures' = wfails'[w] /\ Healthy' = waged'[w]
                      /\ OutagePhase' = ThreadPhase(wpc[w])'
  BY DEF MappedTo
<1>5. ASSUME Retire(w)
      PROVE  /\ Failures' = 0 /\ Healthy' = FALSE
             /\ OutagePhase' = IF last_failure' THEN "failed" ELSE "off"
  <2>1. \A v \in Watchdogs : ~Watching(v)'
    BY <1>2, <1>5 DEF Retire, WGoto, Watching, SupInv, TypeInv, TypeOK
  <2> QED
    BY <1>1, <1>2, <2>1 DEF MappedTo
<1>6. ASSUME wpc[w] \in {"check", "giveUp", "backoff", "launch"} PROVE OwnLive = {}
  BY <1>1, <1>2, <1>6, NoneRuns DEF PublishPcs
<1>7. ASSUME wpc[w] \in {"check", "giveUp", "backoff", "launch"}, proc' = proc
      PROVE  Phase = ThreadPhase(wpc[w]) /\ Phase' = OutagePhase'
  <2>1. OwnLive = {} /\ OwnLive' = {}
    BY <1>1, <1>6, <1>7 DEF OwnLive
  <2> QED
    BY <1>3, <2>1 DEF MappedTo
<1>8. ASSUME UNCHANGED <<launched, wfails, waged>>, NoneBorn,
             \/ /\ wpc[w] \in {"wait", "clear", "clearMirror", "publish", "publishMirror"}
                /\ wpc'[w] \in {"wait", "clear", "clearMirror", "check", "publishMirror"}
             \/ wpc[w] = "backoff" /\ wpc'[w] = "launch"
      PROVE  ServiceStep
  <2>1. Watching(w)'
    BY <1>8 DEF Watching
  <2>2. OutagePhase' = OutagePhase
    <3>1. OutagePhase' = ThreadPhase(wpc[w])'
      BY <1>4, <2>1
    <3>2. last_failure' = last_failure \/ wpc'[w] \notin {"off", "done"}
      BY <2>1 DEF Watching
    <3> QED
      BY <1>3, <1>8, <3>1 DEF ThreadPhase
  <2> QED
    BY <1>1, <1>3, <1>4, <1>8, <2>1, <2>2, QuietStep
<1>9. ASSUME NEW p, Service!Settles(p), UNCHANGED <<launched, Stopping>>,
             \/ Phase \in {"exhausted", "retrying"} /\ p = "failed"
             \/ Phase \in {"down", "retrying"} /\ Stopping /\ p = "off"
      PROVE  ServiceStep
  BY <1>9 DEF ServiceStep, Service!Next, Service!GivesUp, Service!RelaunchFails, Service!Ends
<1> USE DEF WGoto, SupInv, TypeInv, TypeOK
<1>10. CASE WatchdogReaps(w)
  <2>1. NoneBorn
    BY <1>10 DEF WatchdogReaps, NoneBorn, SetProc, Live
  <2> QED
    BY <1>8, <1>10, <2>1 DEF WatchdogReaps
<1>11. CASE WatchdogClearsPid(w) \/ WatchdogClearsMirror(w)
  BY <1>8, <1>11 DEF WatchdogClearsPid, WatchdogClearsMirror, NoneBorn
<1>12. CASE WatchdogPublishesPid(w) \/ WatchdogPublishesMirror(w)
  BY <1>8, <1>12 DEF WatchdogPublishesPid, WatchdogPublishesMirror, NoneBorn
<1>13. CASE WatchdogStops(w)
  <2>1. /\ wpc[w] = "check" /\ stop_intended /\ Retire(w)
        /\ UNCHANGED <<proc, launched, last_failure>>
    BY <1>13 DEF WatchdogStops
  <2>2. Phase = "down" /\ Service!Settles("off")
    BY <1>2, <1>5, <1>7, <2>1, ThreadPhases DEF Service!Settles
  <2> QED
    BY <1>3, <1>9, <2>1, <2>2
<1>14. CASE WatchdogDecides(w)
  <2>1. /\ wpc[w] = "check" /\ ~stop_intended /\ UNCHANGED <<proc, launched>>
        /\ wpc'[w] = (IF TooMany(w) THEN "giveUp" ELSE "backoff")
        /\ wfails'[w] = RecordExit(w) /\ waged'[w] = FALSE
    BY <1>14 DEF WatchdogDecides
  <2>2. Watching(w)'
    BY <2>1 DEF Watching
  <2>3. /\ Failures' = (IF Healthy THEN 0 ELSE Failures + 1) /\ Healthy' = FALSE
        /\ TooMany(w) <=> ~Healthy /\ Failures' >= MaxRapidFailures
    BY <1>3, <1>4, <2>1, <2>2 DEF RecordExit, TooMany
  <2>4. Phase = "down" /\ Phase' = (IF TooMany(w) THEN "exhausted" ELSE "retrying")
    <3>1. Phase = "down" /\ Phase' = ThreadPhase(wpc[w])'
      BY <1>4, <1>7, <2>1, <2>2, ThreadPhases
    <3> QED
      BY <2>1, <3>1 DEF ThreadPhase
  <2>5. Service!Counts
    BY <1>3, <2>1, <2>3, <2>4 DEF Service!Counts
  <2> QED
    BY <2>5 DEF ServiceStep, Service!Next
<1>15. CASE WatchdogGivesUp(w)
  <2>1. wpc[w] = "giveUp" /\ last_failure' = TRUE /\ Retire(w) /\ UNCHANGED <<proc, launched>>
    BY <1>15 DEF WatchdogGivesUp
  <2>2. Phase = "exhausted" /\ Service!Settles("failed")
    BY <1>5, <1>7, <2>1, ThreadPhases DEF Service!Settles
  <2>3. UNCHANGED <<launched, Stopping>>
    BY <1>3, <2>1
  <2> QED
    BY <1>9, <2>2, <2>3
<1>16. CASE WatchdogWakes(w)
  <2>1. wpc[w] = "backoff" /\ UNCHANGED <<proc, launched, last_failure>>
    BY <1>16 DEF WatchdogWakes
  <2>2. CASE stop_intended
    <3>1. Retire(w)
      BY <1>16, <2>2, Zenon DEF WatchdogWakes
    <3>2. Phase = "retrying" /\ Service!Settles("off")
      BY <1>2, <1>5, <1>7, <2>1, <3>1, ThreadPhases DEF Service!Settles
    <3> QED
      BY <1>3, <1>9, <2>1, <2>2, <3>2
  <2>3. CASE ~stop_intended
    <3>1. WGoto(w, "launch") /\ UNCHANGED <<wfails, waged>>
      BY <1>16, <2>3, Zenon DEF WatchdogWakes
    <3> QED
      BY <1>8, <2>1, <3>1 DEF NoneBorn
  <2> QED
    BY <2>2, <2>3
<1>17. CASE WatchdogLaunches(w)
  <2>1. /\ wpc[w] = "launch" /\ wpc'[w] = "publish" /\ launched' = launched + 1
        /\ UNCHANGED <<wfails, waged>>
        /\ launched + 1 \in Children /\ proc'[launched + 1] = "starting"
    BY <1>17, BoundsAssumption DEF WatchdogLaunches, LaunchChild, SetProc, Children
  <2>2. launched + 1 \in OwnLive'
    BY <1>1, <2>1 DEF OwnLive, Live, IdInv, Numbered
  <2>3. Phase = "retrying" /\ Phase' = "up"
    BY <1>3, <1>6, <2>1, <2>2, ThreadPhases DEF MappedTo
  <2>4. Failures' = Failures /\ Healthy' = Healthy
    BY <1>3, <1>4, <2>1 DEF Watching
  <2>5. Service!Relaunches
    BY <1>3, <2>1, <2>3, <2>4 DEF Service!Relaunches
  <2> QED
    BY <2>5 DEF ServiceStep, Service!Next
<1>18. CASE WatchdogLaunchFails(w)
  <2>1. wpc[w] = "launch" /\ last_failure' = TRUE /\ Retire(w) /\ UNCHANGED <<proc, launched>>
    BY <1>18 DEF WatchdogLaunchFails
  <2>2. Phase = "retrying" /\ Service!Settles("failed")
    BY <1>5, <1>7, <2>1, ThreadPhases DEF Service!Settles
  <2>3. UNCHANGED <<launched, Stopping>>
    BY <1>3, <2>1
  <2> QED
    BY <1>9, <2>2, <2>3
<1> QED
  BY <1>10, <1>11, <1>12, <1>13, <1>14, <1>15, <1>16, <1>17, <1>18 DEF WatchdogStep

\* A step of main outside spawn_gateway, or of the updater, that only moves the caller.
LEMMA CallerService ==
  ASSUME SupInv, Supervised, Supervised', MappedTo, MappedTo', NoneBorn,
         UNCHANGED <<orphans, launched, flagVars, wdVars>>,
         \/ cpc'["main"] = cpc["main"]
         \/ cpc["main"] \notin SpawnPcs /\ cpc'["main"] \notin SpawnPcs
  PROVE  ServiceStep
<1>1. UNCHANGED <<wpc, wfails, waged, lifecycles, stop_intended, last_failure>>
  BY DEF flagVars, wdVars
<1>2. UNCHANGED <<Failures, Healthy, Stopping, OutagePhase>>
  BY <1>1, CountsKept, OutageKept
<1> QED
  BY <1>2, QuietStep

LEMMA UserService ==
  ASSUME SupInv, Supervised, Supervised', MappedTo, MappedTo', UserStep
  PROVE  ServiceStep
<1>0. "main" \in Callers /\ "updater" \in Callers
  BY DEF Callers
<1> SUFFICES ASSUME NEW a \in Callers, NEW c, NEW pc, NEW k, Issue(a, c, pc, k),
                    pc \in {"portCheck", "stopLoad"}
             PROVE  ServiceStep
  BY <1>0 DEF UserStep, StartGateway, StopGateway, RestartGateway, QuitApp, InstallUpdate
<1>1. NoneBorn /\ UNCHANGED <<orphans, launched, flagVars, wdVars>>
  BY DEF Issue, NoneBorn, osVars
<1>2. \/ cpc'["main"] = cpc["main"]
      \/ cpc["main"] \notin SpawnPcs /\ cpc'["main"] \notin SpawnPcs
  BY <1>0 DEF Issue, SpawnPcs, SupInv, TypeInv, TypeOK
<1> QED
  BY <1>1, <1>2, CallerService

LEMMA SpawnService ==
  ASSUME SupInv, Supervised, Supervised', MappedTo, MappedTo', SpawnStep
  PROVE  ServiceStep
<1>0. "main" \in Callers
  BY DEF Callers
<1> USE DEF osVars, pidVars, flagVars, wdVars, appVars
<1>1. cpc["main"] \in SpawnPcs /\ UNCHANGED orphans
  BY DEF SpawnStep, SpawnClearsFailure, SpawnFails, SpawnChecksPort, SpawnReclaimed,
     SpawnClearsIntent, SpawnLaunches, SpawnPublishesPid, SpawnPublishesMirror,
     SpawnStartsWatchdog, LaunchChild, SpawnPcs
<1>2. /\ \A w \in Watchdogs : ~Watching(w)
      /\ Failures = 0 /\ Healthy = FALSE /\ Stopping = stop_intended
  BY <1>1 DEF SupInv, LifeInv, OneWatcher, Supervised, MappedTo, Stopping, TypeInv, TypeOK
<1>3. cpc["main"] \in LaunchPcs =>
        OwnLive = {} /\ Phase = "starting" /\ stop_intended = FALSE
  BY <1>2, NoneRuns
     DEF MappedTo, SupInv, ServiceInv, NothingToStop, Supervised, LaunchPcs, PublishPcs
<1>4. (\A w \in Watchdogs : ~Watching(w)') => Failures' = 0 /\ Healthy' = FALSE
  BY DEF MappedTo
\* Before the launch: main goes on, or records why it does not.
<1>5. ASSUME cpc["main"] \in LaunchPcs, cpc'["main"] \in LaunchPcs, stop_intended' = FALSE,
             NoneBorn, UNCHANGED <<launched, wpc>>
      PROVE  ServiceStep
  <2>1. Failures' = 0 /\ Healthy' = FALSE
    BY <1>2, <1>4, <1>5 DEF Watching
  <2>2. OutagePhase = "starting" /\ OutagePhase' = "starting"
    BY <1>5 DEF MappedTo
  <2>3. Stopping = FALSE /\ Stopping' = FALSE
    BY <1>3, <1>5 DEF Stopping
  <2> QED
    BY <1>1, <1>2, <1>5, <2>1, <2>2, <2>3, QuietStep
<1>6. ASSUME cpc["main"] \in LaunchPcs, cpc'["main"] = "idle", last_failure' = TRUE,
             UNCHANGED <<proc, launched, stop_intended, wpc>>
      PROVE  ServiceStep
  <2>1. Failures' = 0 /\ Healthy' = FALSE /\ OutagePhase' = "failed"
    BY <1>2, <1>6 DEF MappedTo, Watching, SpawnPcs
  <2>2. OwnLive' = {}
    BY <1>1, <1>3, <1>6 DEF OwnLive
  <2>3. Phase = "starting" /\ Phase' = "failed"
    BY <1>3, <1>6, <2>1, <2>2 DEF MappedTo
  <2>4. Stopping' = Stopping
    BY <1>6 DEF Stopping, Supervised
  <2>5. Service!LaunchFails
    BY <1>6, <2>1, <2>3, <2>4 DEF Service!LaunchFails, Service!Settles
  <2> QED
    BY <2>5 DEF ServiceStep, Service!Next
<1> USE DEF Goto, Answer, SupInv, TypeInv, TypeOK
<1>7. CASE SpawnClearsFailure
  BY <1>0, <1>3, <1>5, <1>7 DEF SpawnClearsFailure, NoneBorn, LaunchPcs
<1>8. CASE SpawnFails
  BY <1>0, <1>6, <1>8 DEF SpawnFails, LaunchPcs
<1>9. CASE SpawnChecksPort
  <2>1. NoneBorn
    BY <1>9 DEF SpawnChecksPort, NoneBorn, Live
  <2> QED
    BY <1>0, <1>3, <1>5, <1>9, <2>1 DEF SpawnChecksPort, LaunchPcs
<1>10. CASE SpawnReclaimed
  <2>1. cpc["main"] = "reclaim" /\ UNCHANGED <<proc, launched, stop_intended, wpc>>
    BY <1>10 DEF SpawnReclaimed
  <2>2. CASE PortListening
    <3>1. last_failure' = TRUE /\ Answer("main", "Err")
      BY <1>10, <2>2, Zenon DEF SpawnReclaimed
    <3> QED
      BY <1>0, <1>6, <2>1, <3>1 DEF LaunchPcs
  <2>3. CASE ~PortListening
    <3>1. Goto("main", "provision")
      BY <1>10, <2>3, Zenon DEF SpawnReclaimed
    <3> QED
      BY <1>0, <1>3, <1>5, <2>1, <3>1 DEF LaunchPcs, NoneBorn
  <2> QED
    BY <2>2, <2>3
<1>11. CASE SpawnClearsIntent
  BY <1>0, <1>5, <1>11 DEF SpawnClearsIntent, NoneBorn, LaunchPcs
<1>12. CASE SpawnLaunches
  <2>1. /\ cpc["main"] \in LaunchPcs /\ launched' = launched + 1
        /\ UNCHANGED <<stop_intended, wpc>>
        /\ launched + 1 \in Children /\ proc'[launched + 1] = "starting"
    BY <1>12, BoundsAssumption DEF SpawnLaunches, LaunchChild, SetProc, Children, LaunchPcs
  <2>2. launched + 1 \in OwnLive'
    BY <1>1, <2>1 DEF OwnLive, Live, IdInv, Numbered
  <2>3. Phase = "starting" /\ Phase' = "up"
    BY <1>3, <2>1, <2>2 DEF MappedTo
  <2>4. Failures' = 0 /\ Healthy' = FALSE
    BY <1>2, <1>4, <2>1 DEF Watching
  <2>5. Stopping' = Stopping
    BY <2>1 DEF Stopping, Supervised
  <2>6. Service!Launches
    BY <1>2, <2>1, <2>3, <2>4, <2>5 DEF Service!Launches
  <2> QED
    BY <2>6 DEF ServiceStep, Service!Next
<1>13. CASE SpawnPublishesPid \/ SpawnPublishesMirror
  <2>1. /\ cpc["main"] \in PublishPcs /\ cpc'["main"] \in PublishPcs
        /\ UNCHANGED <<proc, launched, stop_intended, wpc, wfails, waged, lifecycles>>
    BY <1>0, <1>13 DEF SpawnPublishesPid, SpawnPublishesMirror, PublishPcs, SpawnPcs, LaunchPcs
  <2>2. OutagePhase = "down" /\ OutagePhase' = "down"
    BY <2>1 DEF MappedTo
  <2> QED
    BY <1>1, <2>1, <2>2, CountsKept, QuietStep DEF NoneBorn
\* The new thread has counted nothing.
<1>14. CASE SpawnStartsWatchdog
  <2>1. PICK n \in Watchdogs : /\ wpc'[n] = "wait" /\ cpc["main"] \in PublishPcs
                               /\ UNCHANGED <<proc, launched, stop_intended, wfails, waged>>
    <3>1. lifecycles + 1 \in Watchdogs
      BY <1>14, BoundsAssumption DEF SpawnStartsWatchdog, RoomForWatchdog, Watchdogs
    <3> QED
      BY <1>14, <3>1 DEF SpawnStartsWatchdog, WGoto, PublishPcs, SpawnPcs, LaunchPcs
  <2>2. wfails[n] = 0 /\ waged[n] = FALSE
    BY <1>2, <2>1 DEF ServiceInv, Forgets
  <2>3. /\ Failures' = wfails'[n] /\ Healthy' = waged'[n]
        /\ OutagePhase' = ThreadPhase(wpc[n])'
    BY <2>1 DEF MappedTo, Watching
  <2>4. OutagePhase = "down" /\ OutagePhase' = "down"
    <3>1. ThreadPhase(wpc[n])' = "down"
      BY <2>1 DEF ThreadPhase
    <3> QED
      BY <2>1, <2>3, <3>1 DEF MappedTo
  <2>5. Stopping' = Stopping
    BY <2>1 DEF Stopping, Supervised
  <2> QED
    BY <1>1, <1>2, <2>1, <2>2, <2>3, <2>4, <2>5, QuietStep DEF NoneBorn
<1> QED
  BY <1>7, <1>8, <1>9, <1>10, <1>11, <1>12, <1>13, <1>14 DEF SpawnStep

LEMMA StopService ==
  ASSUME SupInv, Supervised, Supervised', MappedTo, MappedTo', NEW a \in Callers, StopStep(a)
  PROVE  ServiceStep
<1>0. "main" \in Callers /\ "updater" \in Callers /\ (a = "main" \/ a = "updater")
  BY DEF Callers
<1>1. cpc[a] \in StopPcs /\ UNCHANGED <<orphans, launched, last_failure, wdVars>>
  BY DEF StopStep, StopFindsNothing, StopLoadsPid, StopSetsIntent, StopWaitsGracefully,
     StopSignals, StopSeesDead, StopGivesUp, StopClearsPid, StopClearsMirror, StopPcs,
     osVars, flagVars
<1>2. \/ cpc'["main"] = cpc["main"]
      \/ cpc["main"] \notin SpawnPcs /\ cpc'["main"] \notin SpawnPcs
  <2>1. StopGoesOn(a)
    BY StopGoesOnStep DEF SupInv
  <2> QED
    BY <1>0, <1>1, <2>1 DEF StopGoesOn, Supervised, SpawnPcs, StopPcs
<1>3. CASE StopSetsIntent(a)
  <2>1. cpc[a] = "setIntent" /\ stop_intended' = TRUE /\ proc' = proc
    BY <1>3 DEF StopSetsIntent, osVars
  <2>2. cpc["main"] \notin LaunchPcs
    BY <1>0, <2>1 DEF SupInv, ServiceInv, NothingToStop, Supervised, LaunchPcs, StopPcs
  <2>3. OutagePhase' = OutagePhase
    BY <1>1, <1>2, OutageKept DEF wdVars
  <2>4. /\ Phase' = Phase /\ Failures' = Failures /\ Healthy' = Healthy
    <3>1. OwnLive' = OwnLive
      BY <1>1, <2>1 DEF OwnLive
    <3>2. Failures' = Failures /\ Healthy' = Healthy
      BY <1>1 DEF Failures, Healthy, wdVars
    <3> QED
      BY <2>3, <3>1, <3>2 DEF MappedTo
  <2>5. Phase \in {"up", "down", "retrying", "exhausted", "failed", "off"}
    BY <2>2 DEF MappedTo, OutagePhase, ThreadPhase
  <2>6. Stopping' = TRUE
    BY <2>1 DEF Stopping
  <2>7. Service!StopAsked
    BY <1>1, <2>4, <2>5, <2>6 DEF Service!StopAsked
  <2> QED
    BY <2>7 DEF ServiceStep, Service!Next
<1>4. CASE ~StopSetsIntent(a)
  <2>1. UNCHANGED flagVars
    BY <1>4 DEF StopStep, StopFindsNothing, StopLoadsPid, StopWaitsGracefully,
       StopSignals, StopSeesDead, StopGivesUp, StopClearsPid, StopClearsMirror
  <2>2. NoneBorn
    BY <1>4 DEF StopStep, StopFindsNothing, StopLoadsPid, StopWaitsGracefully, StopSignals,
       StopSeesDead, StopGivesUp, StopClearsPid, StopClearsMirror, SetProc, osVars, NoneBorn,
       Live, SupInv, TypeInv, TypeOK
  <2> QED
    BY <1>1, <1>2, <2>1, <2>2, CallerService
<1> QED
  BY <1>3, <1>4

\* What a step does to the app, and to the number of launches.
LEMMA AppMoves ==
  ASSUME SupInv, [Next]_vars
  PROVE  /\ launched' \in {launched, launched + 1}
         /\ app = "down" => \/ AppStarts
                            \/ UNCHANGED <<launched, app>>
         /\ app = "up" => \/ AppExits
                          \/ app' = "up" /\ (respawned => respawned')
<1>0. "main" \in Callers /\ "updater" \in Callers
  BY DEF Callers
<1> DEFINE Goal == /\ launched' \in {launched, launched + 1}
                   /\ app = "down" => \/ AppStarts
                                      \/ UNCHANGED <<launched, app>>
                   /\ app = "up" => \/ AppExits
                                    \/ app' = "up" /\ (respawned => respawned')
<1> USE DEF osVars, pidVars, flagVars, wdVars, appVars
<1>1. app = "down" => /\ cpc["main"] = "idle" /\ cpc["updater"] = "idle"
                      /\ \A w \in Watchdogs : ~Watching(w)
  BY <1>0 DEF SupInv, LifeInv, Place
<1>2. CASE OsStep
  BY <1>2 DEF OsStep, ChildListens, ChildExits, InitReaps, ForeignListener, Age
<1>3. ASSUME NEW w \in Watchdogs, WatchdogStep(w) PROVE Goal
  <2>1. /\ Watching(w) /\ UNCHANGED <<app, respawned>>
        /\ launched' \in {launched, launched + 1}
    BY <1>3 DEF WatchdogStep, WatchdogReaps, WatchdogClearsPid, WatchdogClearsMirror,
       WatchdogStops, WatchdogDecides, WatchdogGivesUp, WatchdogWakes, WatchdogLaunches,
       WatchdogLaunchFails, WatchdogPublishesPid, WatchdogPublishesMirror, LaunchChild, Watching
  <2> QED
    BY <1>1, <2>1
<1>4. CASE UserStep
  BY <1>4 DEF UserStep, StartGateway, StopGateway, RestartGateway, QuitApp, InstallUpdate, Issue
<1>5. CASE SpawnStep
  <2>1. /\ cpc["main"] \in SpawnPcs /\ UNCHANGED <<app, respawned>>
        /\ launched' \in {launched, launched + 1}
    BY <1>5 DEF SpawnStep, SpawnClearsFailure, SpawnFails, SpawnChecksPort, SpawnReclaimed,
       SpawnClearsIntent, SpawnLaunches, SpawnPublishesPid, SpawnPublishesMirror,
       SpawnStartsWatchdog, LaunchChild, SpawnPcs
  <2> QED
    BY <1>1, <2>1 DEF SpawnPcs
<1>6. CASE ReadyStep
  <2>1. UNCHANGED <<app, respawned, launched>>
    BY <1>6 DEF ReadyStep, StartChecksPort, StartChecksPid, BecomesReady, ReadyTimesOut,
       ReportNotReady
  <2> QED
    BY <2>1
<1>7. ASSUME NEW a \in Callers, StopStep(a) PROVE Goal
  <2>1. UNCHANGED <<app, respawned, launched>>
    BY <1>7 DEF StopStep, StopFindsNothing, StopLoadsPid, StopSetsIntent, StopWaitsGracefully,
       StopSignals, StopSeesDead, StopGivesUp, StopClearsPid, StopClearsMirror
  <2> QED
    BY <2>1
<1>8. CASE AppStep
  <2>1. CASE AppExits
    BY <2>1 DEF AppExits, AppGone
  <2>2. CASE DownloadFails \/ UpdateInstalls \/ AppStarts
    BY <2>2 DEF DownloadFails, UpdateInstalls, AppStarts
  <2> QED
    BY <1>8, <2>1, <2>2 DEF AppStep
<1>9. CASE UNCHANGED vars
  BY <1>9 DEF vars
<1> QED
  BY <1>0, <1>2, <1>3, <1>4, <1>5, <1>6, <1>7, <1>8, <1>9 DEF Next, MainStep

\* Before the app runs, when it ends, and from a start or restart on, nothing is
\* promised but that launches are counted one by one.
LEMMA UnsupervisedService ==
  ASSUME SupInv, SupInv', [Next]_vars, ~(Supervised /\ Supervised'),
         Supervised' => MappedTo'
  PROVE  ServiceStep
<1>0. "main" \in Callers
  BY DEF Callers
<1>1. /\ app \in {"up", "down"} /\ app' \in {"up", "down"}
      /\ respawned \in BOOLEAN /\ respawned' \in BOOLEAN
  BY DEF SupInv, TypeInv, TypeOK
<1>2. ~Supervised => Failures = 0 /\ Healthy = FALSE /\ Stopping = FALSE
  BY DEF Failures, Healthy, Stopping
<1>3. ~Supervised' => Failures' = 0 /\ Healthy' = FALSE /\ Stopping' = FALSE
  BY DEF Failures, Healthy, Stopping
<1>4. /\ app = "down" => Phase = "closed"
      /\ app = "up" /\ respawned => Phase = "free"
      /\ app = "up" /\ ~respawned => Phase # "closed"
  BY DEF Phase, OutagePhase, ThreadPhase
<1>5. /\ app' = "down" => Phase' = "closed"
      /\ app' = "up" /\ respawned' => Phase' = "free"
  BY DEF Phase
<1>6. CASE app = "down" /\ AppStarts
  <2>1. /\ app' = "up" /\ cpc'["main"] = "clearFailure"
        /\ UNCHANGED <<proc, orphans, launched, stop_intended, wpc, respawned>>
    BY <1>0, <1>6 DEF AppStarts, osVars, flagVars, wdVars, SupInv, TypeInv, TypeOK
  <2>2. /\ ~respawned /\ stop_intended = FALSE /\ cpc["main"] = "idle"
        /\ \A w \in Watchdogs : ~Watching(w)
    BY <1>0, <1>6 DEF SupInv, LifeInv, Place, ServiceInv, NothingToStop
  <2>3. OwnLive' = {}
    <3>1. OwnLive = {}
      BY <2>2 DEF SupInv, LifeInv, LiveOwned, Owner, Watching
    <3> QED
      BY <2>1, <3>1 DEF OwnLive
  <2>4. Supervised' /\ ~Supervised
    BY <1>6, <2>1, <2>2 DEF Supervised
  <2>5. Failures' = 0 /\ Healthy' = FALSE
    BY <2>1, <2>2, <2>4 DEF MappedTo, Watching
  <2>6. Stopping' = FALSE
    BY <2>1, <2>2 DEF Stopping
  <2>7. Phase' = "starting"
    BY <2>1, <2>3, <2>4 DEF MappedTo, LaunchPcs
  <2>8. Service!Opens
    BY <1>2, <1>4, <1>6, <2>1, <2>4, <2>5, <2>6, <2>7 DEF Service!Opens, Service!Settles
  <2> QED
    BY <2>8 DEF ServiceStep, Service!Next
<1>7. CASE app = "down" /\ UNCHANGED <<launched, app>>
  <2>1. ~Supervised /\ ~Supervised'
    BY <1>7 DEF Supervised
  <2> QED
    BY <1>2, <1>3, <1>4, <1>5, <1>7, <2>1, ServiceStutters
<1>8. CASE app = "up" /\ AppExits
  <2>1. app' = "down" /\ launched' = launched /\ ~Supervised'
    BY <1>8 DEF AppExits, AppGone, Supervised
  <2>2. Service!Closes
    BY <1>1, <1>3, <1>4, <1>5, <1>8, <2>1 DEF Service!Closes, Service!Settles
  <2> QED
    BY <2>2 DEF ServiceStep, Service!Next
<1>9. CASE app = "up" /\ app' = "up" /\ respawned'
  <2>1. ~Supervised'
    BY <1>9 DEF Supervised
  <2>2. launched' \in {launched, launched + 1}
    BY AppMoves
  <2>3. Service!Commanded
    BY <1>1, <1>3, <1>4, <1>5, <1>9, <2>1, <2>2 DEF Service!Commanded, Service!Settles
  <2> QED
    BY <2>3 DEF ServiceStep, Service!Next
<1>10. app = "up" /\ app' = "up" => respawned'
  BY <1>1, AppMoves DEF Supervised, AppExits, AppGone
<1> QED
  BY <1>1, <1>6, <1>7, <1>8, <1>9, <1>10, AppMoves

LEMMA StepIsServiceStep ==
  ASSUME SupInv, SupInv', [Next]_vars, Supervised => MappedTo, Supervised' => MappedTo'
  PROVE  ServiceStep
<1>1. CASE ~(Supervised /\ Supervised')
  BY <1>1, UnsupervisedService
<1> SUFFICES ASSUME Supervised, Supervised', MappedTo, MappedTo' PROVE ServiceStep
  BY <1>1
<1>2. CASE ReadyStep
  <2>1. cpc["main"] \in {"portCheck", "pidCheck", "awaitReady", "report"}
    BY <1>2 DEF ReadyStep, StartChecksPort, StartChecksPid, BecomesReady, ReadyTimesOut,
       ReportNotReady
  <2> QED
    BY <2>1 DEF SupInv, LifeInv, Place, Supervised, SpawnPcs, StopPcs
<1>3. CASE AppStep
  <2>1. ~AppExits /\ ~AppStarts
    BY DEF AppExits, AppGone, AppStarts, Supervised
  <2>2. NoneBorn /\ UNCHANGED <<orphans, launched, flagVars, wdVars>>
    BY <1>3, <2>1 DEF AppStep, DownloadFails, UpdateInstalls, NoneBorn, osVars
  <2>3. \/ cpc'["main"] = cpc["main"]
        \/ cpc["main"] \notin SpawnPcs /\ cpc'["main"] \notin SpawnPcs
    BY <1>3, <2>1 DEF AppStep, DownloadFails, UpdateInstalls, Answer, SpawnPcs, Callers,
       SupInv, TypeInv, TypeOK
  <2> QED
    BY <2>2, <2>3, CallerService
<1>4. CASE UNCHANGED vars
  <2>1. NoneBorn /\ UNCHANGED <<orphans, launched, flagVars, wdVars, cpc>>
    BY <1>4 DEF vars, osVars, callVars, NoneBorn
  <2> QED
    BY <2>1, CallerService
<1> QED
  BY <1>2, <1>3, <1>4, OsService, WatchdogService, UserService, SpawnService, StopService
     DEF Next, MainStep, Callers

LEMMA InitIsServiceInit == Init => Service!Init
<1> SUFFICES ASSUME Init PROVE Service!Init
  OBVIOUS
<1>1. /\ app = "up" /\ respawned = FALSE /\ cpc["main"] = "clearFailure" /\ launched = 0
      /\ lifecycles = 0 /\ stop_intended = FALSE
  BY DEF Init, Callers
<1>2. OwnLive = {}
  BY DEF Init, OwnLive, Live
<1>3. Phase = "starting"
  <2>1. OutagePhase = "starting"
    BY <1>1 DEF OutagePhase, LaunchPcs, PublishPcs
  <2> QED
    BY <1>1, <1>2, <2>1 DEF Phase
<1>4. Failures = 0 /\ Healthy = FALSE /\ Stopping = FALSE
  BY <1>1, BoundsAssumption DEF Failures, Healthy, Stopping
<1> QED
  BY <1>1, <1>3, <1>4 DEF Service!Init

\* Whatever the commands, the updater, the exit handler and the children do in
\* between, the app and its watchdogs are the supervised service.
THEOREM ServiceImplemented == Spec => ImplementsService
<1>1. Init => SupInv
  BY InitTypeInv, InitIdInv, InitLifeInv, InitServiceInv DEF SupInv
<1>2. SupInv /\ [Next]_vars => SupInv'
  BY NextTypeInv, NextIdInv, NextLifeInv, NextServiceInv DEF SupInv
<1>3. SupInv /\ SupInv' /\ [Next]_vars /\ (Supervised => MappedTo) /\ (Supervised' => MappedTo')
        => [Service!Next]_(Service!vars)
  BY StepIsServiceStep DEF ServiceStep
<1>4. SupInv => (Supervised => MappedTo)
  BY Mapped
<1> QED
  BY <1>1, <1>2, <1>3, <1>4, InitIsServiceInit, PTL DEF Spec, ImplementsService, Service!Spec
=============================================================================
