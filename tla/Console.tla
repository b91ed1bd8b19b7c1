--------------------------------- MODULE Console ---------------------------------
(***************************************************************************)
(* The console's connection: the polling hook and the settings form over   *)
(* one connection and one load state, with the application's handlers that *)
(* move both at once.  A step of the polling hook re-renders, so the form's *)
(* effects run in the same step; a step of the form leaves polling alone.  *)
(***************************************************************************)
EXTENDS GatewayPolling

CONSTANT MaxReadFailures    \* bound: failed reads of the form

ASSUME ConsoleAssumption == MaxReadFailures \in Nat

VARIABLES       \* of the form (ConnectionSettings)
    gateway, visible, latch, provLatch, status, wasOnline, form, provs, reads,
    saves, readFailures

Settings == INSTANCE ConnectionSettings

pollingVars == <<clients, up, version, hidden, rounds, tick, awaiting, firstLoad,
                 loadState, lifecycle, stats, inventory, tail, patch, strayed,
                 failures>>
formVars == <<gateway, visible, latch, provLatch, status, wasOnline, form, provs,
              reads, saves, readFailures>>
consoleVars == <<pollingVars, events, formVars>>

ConsoleInit == Init /\ Settings!Init

\* The gateway was switched on or off: toggleGateway and retryGateway drop the latch.
GatewaySwitched ==
    /\ \E w \in awaiting : GatewayStopped(w) \/ GatewayStarted(w)
    /\ Settings!DroppedByApp

ConnectionSaved == Connect /\ Settings!ConnectionSaved
KeyChanged      == Connect /\ Settings!KeyChanged

\* Every other step of the polling hook.
PollingSteps ==
    /\ \/ Tick
       \/ \E s \in Slots : Lands(s)
       \/ \E w \in awaiting :
              Refreshes(w) \/ WaitFails(w) \/ DisableShown(w) \/ EditShown(w)
       \/ ClickRefresh \/ Focus \/ VisibilityChanges \/ ToggleGateway
       \/ RetryGateway \/ StatusRead \/ EditAccount \/ DataChanges
    /\ Settings!PollingMoved

\* saveConfig: config.yaml is saved at the running gateway, and the latch dropped.
ConfigSaved ==
    /\ Event /\ UNCHANGED pollingVars
    /\ Settings!DroppedByApp

FormClicks ==
    /\ Event /\ UNCHANGED pollingVars
    /\ Settings!Clicks

FormAnswers == UNCHANGED <<pollingVars, events>> /\ Settings!Answers

ConsoleNext ==
    \/ GatewaySwitched \/ ConnectionSaved \/ KeyChanged \/ PollingSteps
    \/ ConfigSaved \/ FormClicks \/ FormAnswers

ConsoleSpec == ConsoleInit /\ [][ConsoleNext]_consoleVars

-----------------------------------------------------------------------------
(* Properties.                                                             *)

\* The two hooks keep their types when they share a connection.
ConsoleTypeOK == TypeOK /\ Settings!TypeOK

\* Save never writes the form's defaults, or values read from another gateway,
\* over a gateway's own: with the real sequences of load states and connections
\* that polling and the application's handlers make.
OnlyOwnValuesSaved == Settings!OnlyOwnValuesSaved
=============================================================================
