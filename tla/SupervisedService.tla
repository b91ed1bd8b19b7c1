---------------------------- MODULE SupervisedService ----------------------------
(***************************************************************************)
(* What the application promises about the gateway it starts and watches,  *)
(* from its launch until the user starts or restarts the gateway by hand:  *)
(* one gateway at a time; one that has exited is launched again unless the *)
(* stop was asked for or it failed too often in a row; and once            *)
(* supervision has ended nothing is launched any more.                     *)
(* GatewaySupervisor implements it.                                        *)
(***************************************************************************)
EXTENDS Naturals

CONSTANT MaxRapidFailures   \* exits in a row, none after a healthy run

VARIABLES
    phase,      \* what supervision is doing
    launches,   \* gateways ever launched
    failures,   \* exits in a row of gateways that were not healthy
    healthy,    \* the gateway has been up for long enough
    stopping    \* the application was told to stop the gateway

vars == <<phase, launches, failures, healthy, stopping>>

Init ==
    /\ phase = "starting"
    /\ launches = 0
    /\ failures = 0
    /\ healthy = FALSE
    /\ stopping = FALSE

\* Supervision goes to phase p and has nothing to remember of the gateway.
Settles(p) == phase' = p /\ failures' = 0 /\ healthy' = FALSE

-----------------------------------------------------------------------------
(* The first launch, when the application starts.                          *)

Launches ==
    /\ phase = "starting"
    /\ phase' = "up"
    /\ launches' = launches + 1
    /\ UNCHANGED <<failures, healthy, stopping>>

LaunchFails ==
    /\ phase = "starting"
    /\ Settles("failed")
    /\ UNCHANGED <<launches, stopping>>

-----------------------------------------------------------------------------
(* The gateway runs, exits and is launched again.                          *)

GrowsHealthy ==
    /\ phase = "up"
    /\ healthy' = TRUE
    /\ UNCHANGED <<phase, launches, failures, stopping>>

Exits ==
    /\ phase = "up"
    /\ phase' = "down"
    /\ UNCHANGED <<launches, failures, healthy, stopping>>

\* The exit is counted: it starts a new row after a healthy run.
Counts ==
    /\ phase = "down" /\ ~ stopping
    /\ failures' = IF healthy THEN 0 ELSE failures + 1
    /\ phase' = IF ~ healthy /\ failures' >= MaxRapidFailures THEN "exhausted"
                                                              ELSE "retrying"
    /\ healthy' = FALSE
    /\ UNCHANGED <<launches, stopping>>

Relaunches ==
    /\ phase = "retrying"
    /\ phase' = "up"
    /\ launches' = launches + 1
    /\ UNCHANGED <<failures, healthy, stopping>>

RelaunchFails ==
    /\ phase = "retrying"
    /\ Settles("failed")
    /\ UNCHANGED <<launches, stopping>>

GivesUp ==
    /\ phase = "exhausted"
    /\ Settles("failed")
    /\ UNCHANGED <<launches, stopping>>

-----------------------------------------------------------------------------
(* Stopping, commands that launch, and the end of the application.         *)

StopAsked ==
    /\ phase \in {"up", "down", "retrying", "exhausted", "failed", "off"}
    /\ stopping' = TRUE
    /\ UNCHANGED <<phase, launches, failures, healthy>>

\* Supervision ends because the stop was asked for.
Ends ==
    /\ phase \in {"down", "retrying"} /\ stopping
    /\ Settles("off")
    /\ UNCHANGED <<launches, stopping>>

\* A start or a restart, after which nothing is promised.
Commanded ==
    /\ phase # "closed"
    /\ Settles("free") /\ stopping' = FALSE
    /\ launches' \in {launches, launches + 1}

Closes ==
    /\ phase # "closed"
    /\ Settles("closed") /\ stopping' = FALSE
    /\ UNCHANGED launches

Opens ==
    /\ phase = "closed"
    /\ Settles("starting")
    /\ UNCHANGED <<launches, stopping>>

Next ==
    \/ Launches \/ LaunchFails
    \/ GrowsHealthy \/ Exits \/ Counts
    \/ Relaunches \/ RelaunchFails \/ GivesUp
    \/ StopAsked \/ Ends
    \/ Commanded \/ Closes \/ Opens

Spec == Init /\ [][Next]_vars
=============================================================================
