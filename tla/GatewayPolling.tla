----------------------------- MODULE GatewayPolling -----------------------------
(***************************************************************************)
(* The console's polling hook, useGatewayPolling: a chain of polls, the    *)
(* refreshes that a click, the focus, a visible window and the gateway's   *)
(* own switch add to it, what it shows of their answers while the user     *)
(* connects the console to another gateway, and the application's handlers *)
(* that write to what it shows: an account's edit, the gateway's status.   *)
(*                                                                         *)
(* JavaScript runs one handler at a time: a step ends at an await, and a   *)
(* new connection (`clients`) re-renders and runs its effects in one step. *)
(* A round is in flight from its first request to its last answer; any     *)
(* number overlap, and pollGeneration says which one was begun last.  Only *)
(* equality with pollGeneration is ever asked, so a round carries that     *)
(* answer, `fresh`, and every increment clears it in all others.           *)
(***************************************************************************)
EXTENDS Naturals, FiniteSets

CONSTANTS
    MaxClients,     \* bound: connections made, numbered from 1
    Slots,          \* bound: the rounds in flight at once
    MaxChanges,     \* bound: changes of the gateways' data
    MaxFailures,    \* bound: requests that fail although the gateway is up
    MaxEvents       \* bound: clicks, edits, focuses, shows, hides and switches

ASSUME PollingAssumption ==
    /\ MaxClients \in Nat \ {0}
    /\ {MaxChanges, MaxFailures, MaxEvents} \subseteq Nat

VARIABLES
    clients,    \* the connection
    up,         \* the managed gateway runs
    version,    \* of the data the gateways would answer with
    hidden,     \* document.hidden
    rounds,     \* what runs of runRound are doing
    tick,       \* the poll chain: its timer is armed, or it awaits its round
    awaiting,   \* handlers that await something before they refresh or write
    firstLoad, loadState, lifecycle,
    stats,      \* shown: the statistics
    inventory,  \* shown: credentials and models
    tail,       \* shown: logs and the model registry
    patch,      \* shown: the edit a handler has put on top of the inventory
    strayed,    \* history: a handler of a replaced connection has begun a round,
                \* or written to what is shown, since
    failures, events

envVars   == <<up, version, hidden>>
shownVars == <<stats, inventory, tail, patch>>
stateVars == <<firstLoad, loadState, lifecycle>>
boundVars == <<failures, events>>
vars == <<clients, envVars, rounds, tick, awaiting, stateVars, shownVars,
          strayed, boundVars>>

Clients    == 1..MaxClients
LoadStates == {"loading", "online", "relay-locked", "stopped", "starting"}
Callers    == {"tick", "manual", "other"}
Edits      == {"disable", "enable", "order"}
Waits      == {"manual", "visible", "start", "stop"} \cup Edits

\* An answer on display: whose it is, and how recent.  Connection 0: none.
Answers == [c : 0..MaxClients, saw : 0..MaxChanges]
Nothing == [c |-> 0, saw |-> 0]

\* An edit on display: of which connection's account, and the data it made.
Patches   == [c : 0..MaxClients, saw : 0..MaxChanges, by : Edits \cup {"none"}]
Unpatched == [c |-> 0, saw |-> 0, by |-> "none"]

Stages == {"free", "stats", "stats back", "extras", "extras back"}
Idle   == [at |-> "free", c |-> 0, by |-> "other", fresh |-> FALSE, saw |-> 0]

-----------------------------------------------------------------------------
(* runRound.                                                               *)

\* ++pollGeneration: no round in flight is the last begun one any more.
Outdated(rs) == [s \in Slots |-> [rs[s] EXCEPT !.fresh = FALSE]]

\* Mutant: a round takes the generation it finds.
Begun_NotCounted(rs, s, c, by) ==
    [rs EXCEPT ![s] = [at |-> "stats", c |-> c, by |-> by, fresh |-> TRUE, saw |-> 0]]

Begun(rs, s, c, by) ==
    [Outdated(rs) EXCEPT ![s] = [at |-> "stats", c |-> c, by |-> by,
                                 fresh |-> TRUE, saw |-> 0]]

\* runRound up to its first await, called with the connection c of its closure.
BeginRound(c, by) ==
    /\ \E s \in Slots : rounds[s].at = "free" /\ rounds' = Begun(rounds, s, c, by)
    /\ loadState' = IF firstLoad THEN "loading" ELSE loadState
    /\ strayed' = (strayed \/ c # clients)
    /\ UNCHANGED <<firstLoad, lifecycle>>

\* Mutant: the chain goes on only after a round that was not superseded.
Return_Superseded(s) ==
    /\ rounds' = [rounds EXCEPT ![s] = Idle]
    /\ tick' = IF rounds[s].by = "tick" /\ rounds[s].fresh THEN "armed" ELSE tick

\* runRound returns; the tick that awaited it arms its timer again.
Return(s) ==
    /\ rounds' = [rounds EXCEPT ![s] = Idle]
    /\ tick' = IF rounds[s].by = "tick" THEN "armed" ELSE tick

Goes(s, stage) ==
    /\ rounds' = [rounds EXCEPT ![s].at = stage, ![s].saw = version]
    /\ UNCHANGED tick

\* The gateway handles a request of the round; the answer is on its way.
Handles(s) ==
    /\ up
    /\ \/ rounds[s].at = "stats"  /\ Goes(s, "stats back")
       \/ rounds[s].at = "extras" /\ Goes(s, "extras back")
    /\ UNCHANGED <<clients, envVars, awaiting, stateVars, shownVars, strayed,
                   boundVars>>

\* generation !== pollGeneration.current
Superseded(s) == ~ rounds[s].fresh

Dropped(s) ==
    /\ rounds[s].at # "free"
    /\ Superseded(s)
    /\ Return(s)
    /\ UNCHANGED <<clients, envVars, awaiting, stateVars, shownVars, strayed,
                   boundVars>>

Answer(s) == [c |-> rounds[s].c, saw |-> rounds[s].saw]

StatsLand(s) ==
    /\ rounds[s].at = "stats back" /\ ~ Superseded(s)
    /\ rounds' = [rounds EXCEPT ![s].at = "extras"]
    /\ stats' = Answer(s)
    /\ loadState' = "online" /\ lifecycle' = "running" /\ firstLoad' = FALSE
    /\ UNCHANGED <<clients, envVars, tick, awaiting, inventory, tail, patch,
                   strayed, boundVars>>

\* A request fails because the gateway is down, or for a reason of its own.
Fails == IF up THEN failures < MaxFailures /\ failures' = failures + 1
               ELSE UNCHANGED failures

\* Mutant: the lifecycle is shown as it is.
FailedState_Lifecycle == lifecycle
FailedState == IF lifecycle = "stopped" THEN "stopped" ELSE "starting"

StatsFail(s) ==
    /\ rounds[s].at = "stats" /\ ~ Superseded(s)
    /\ Fails
    /\ \/ up /\ loadState' = "relay-locked"
       \/ loadState' = FailedState
    /\ firstLoad' = FALSE
    /\ Return(s)
    /\ UNCHANGED <<clients, envVars, awaiting, lifecycle, shownVars, strayed,
                   events>>

\* allSettled: credentials and models keep their last good value when their
\* requests fail, logs and registry are cleared.  An answer replaces what an edit
\* has put on display.
ExtrasLand(s) ==
    /\ rounds[s].at = "extras back" /\ ~ Superseded(s)
    /\ \/ /\ inventory' = Answer(s) /\ patch' = Unpatched
          /\ tail' = Answer(s) /\ UNCHANGED failures
       \/ Fails /\ UNCHANGED <<inventory, patch>> /\ tail' \in {Answer(s), Nothing}
       \/ Fails /\ inventory' = Answer(s) /\ patch' = Unpatched /\ tail' = Nothing
    /\ Return(s)
    /\ UNCHANGED <<clients, envVars, awaiting, stateVars, stats, strayed, events>>

ExtrasFail(s) ==
    /\ rounds[s].at = "extras" /\ ~ Superseded(s)
    /\ ~ up
    /\ tail' = Nothing
    /\ Return(s)
    /\ UNCHANGED <<clients, envVars, awaiting, stateVars, stats, inventory, patch,
                   strayed, boundVars>>

Lands(s) ==
    \/ Handles(s) \/ Dropped(s) \/ StatsLand(s) \/ StatsFail(s) \/ ExtrasLand(s)
    \/ ExtrasFail(s)

-----------------------------------------------------------------------------
(* Who calls runRound.                                                     *)

\* The poll chain's timer fires; a hidden window only arms it again.
Tick ==
    /\ tick = "armed" /\ ~ hidden
    /\ BeginRound(clients, "tick")
    /\ tick' = "round"
    /\ UNCHANGED <<clients, envVars, awaiting, shownVars, boundVars>>

Event == events < MaxEvents /\ events' = events + 1

ManualRefreshing ==
    \/ \E w \in awaiting : w.what = "manual"
    \/ \E s \in Slots : rounds[s].by = "manual"

\* Handlers that await something first: refreshNow the usage pass, a window
\* that becomes visible the same, the gateway's switch the native command, an edit
\* its save; saw is the data that the save has made.
Awaits(what) == awaiting' = awaiting \cup {[what |-> what, c |-> clients, saw |-> 0]}

ClickRefresh ==
    /\ Event
    /\ ~ ManualRefreshing
    /\ Awaits("manual")
    /\ UNCHANGED <<clients, envVars, rounds, tick, stateVars, shownVars, strayed,
                   failures>>

Focus ==
    /\ Event
    /\ ~ hidden
    /\ BeginRound(clients, "other")
    /\ UNCHANGED <<clients, envVars, tick, awaiting, shownVars, failures>>

VisibilityChanges ==
    /\ Event
    /\ hidden' = ~ hidden
    /\ IF hidden THEN Awaits("visible") ELSE UNCHANGED awaiting
    /\ UNCHANGED <<clients, up, version, rounds, tick, stateVars, shownVars,
                   strayed, failures>>

ToggleGateway ==
    /\ Event
    /\ \A w \in awaiting : w.what \notin {"start", "stop"}
    /\ Awaits(IF lifecycle = "running" THEN "stop" ELSE "start")
    /\ UNCHANGED <<clients, envVars, rounds, tick, stateVars, shownVars, strayed,
                   failures>>

\* The banner of a recorded failure, shown until the console is online, starts the
\* gateway whatever its status.
RetryGateway ==
    /\ Event
    /\ loadState # "online"
    /\ \A w \in awaiting : w.what \notin {"start", "stop"}
    /\ Awaits("start")
    /\ UNCHANGED <<clients, envVars, rounds, tick, stateVars, shownVars, strayed,
                   failures>>

\* The answer to gateway_status, which the application asks for when it starts: as
\* the gateway was when the command looked, so it may be old by now.  One that says
\* what is shown changes nothing.
StatusRead ==
    /\ Event
    /\ lifecycle' \in {"running", "stopped"} \ {lifecycle}
    /\ UNCHANGED <<clients, envVars, rounds, tick, awaiting, firstLoad, loadState,
                   shownVars, strayed, failures>>

\* An account is disabled, enabled or moved in the order.  The gateway saves it as
\* it is asked to; a refused edit is a click that changes nothing.
EditAccount ==
    /\ Event
    /\ up /\ inventory # Nothing
    /\ version < MaxChanges /\ version' = version + 1
    /\ \E what \in Edits :
          awaiting' = awaiting \cup {[what |-> what, c |-> clients, saw |-> version']}
    /\ UNCHANGED <<clients, up, hidden, rounds, tick, stateVars, shownVars, strayed,
                   failures>>

\* What was awaited is over: refresh() runs with the handler's own connection.
Refreshes(w) ==
    /\ w \in awaiting /\ w.what \in {"manual", "visible"}
    /\ awaiting' = awaiting \ {w}
    /\ BeginRound(w.c, IF w.what = "manual" THEN "manual" ELSE "other")
    /\ UNCHANGED <<clients, envVars, tick, shownVars, boundVars>>

\* stopManagedGateway or startManagedGateway returns, or throws.
GatewayStopped(w) ==
    /\ w \in awaiting /\ w.what = "stop"
    /\ awaiting' = awaiting \ {w}
    /\ up' = FALSE /\ lifecycle' = "stopped" /\ loadState' = "stopped"
    /\ UNCHANGED <<clients, version, hidden, rounds, tick, firstLoad, shownVars,
                   strayed, boundVars>>

GatewayStarted(w) ==
    /\ w \in awaiting /\ w.what = "start"
    /\ awaiting' = awaiting \ {w}
    /\ up' = TRUE /\ lifecycle' = "running"
    /\ \E s \in Slots : /\ rounds[s].at = "free"
                        /\ rounds' = Begun(rounds, s, w.c, "other")
    /\ loadState' = IF firstLoad THEN "loading" ELSE "starting"
    /\ strayed' = (strayed \/ w.c # clients)
    /\ UNCHANGED <<clients, version, hidden, tick, firstLoad, shownVars, boundVars>>

\* setCredentials(current => ...): whichever inventory is on display; another
\* connection's may or may not have a credential of that name.
Patched(w) ==
    \/ inventory # Nothing /\ patch' = [c |-> w.c, saw |-> w.saw, by |-> w.what]
    \/ (inventory = Nothing \/ w.c # clients) /\ UNCHANGED patch

\* Disabled: refresh begins its round before any other handler runs.
DisableShown(w) ==
    /\ w \in awaiting /\ w.what = "disable"
    /\ awaiting' = awaiting \ {w}
    /\ Patched(w)
    /\ BeginRound(w.c, "other")
    /\ UNCHANGED <<clients, envVars, tick, stats, inventory, tail, boundVars>>

\* Enabled: a usage pass comes before refresh, as for a visible window.  An order
\* is not refreshed.
EditShown(w) ==
    /\ w \in awaiting /\ w.what \in {"enable", "order"}
    /\ awaiting' = (awaiting \ {w}) \cup
          {v \in {[what |-> "visible", c |-> w.c, saw |-> 0]} : w.what = "enable"}
    /\ Patched(w)
    /\ strayed' = (strayed \/ w.c # clients)
    /\ UNCHANGED <<clients, envVars, rounds, tick, stateVars, stats, inventory, tail,
                   boundVars>>

\* A native command throws, or an edit's answer is lost.
WaitFails(w) ==
    /\ w \in awaiting /\ w.what \in {"start", "stop"} \cup Edits
    /\ awaiting' = awaiting \ {w}
    /\ UNCHANGED <<clients, envVars, rounds, tick, stateVars, shownVars, strayed,
                   boundVars>>

-----------------------------------------------------------------------------
(* Another connection, and the gateways.                                   *)

\* The cancelled chain's round has nobody to return to.
Cancelled(rs) ==
    [s \in Slots |-> [rs[s] EXCEPT !.by = IF @ = "tick" THEN "other" ELSE @]]

\* Mutant: the render and the effect's clean-up leave pollGeneration alone.
Orphaned_Fresh(rs) == Cancelled(rs)
Orphaned(rs) == Outdated(Cancelled(rs))

\* The user connects to another gateway, or with another key: what was shown is
\* reset, and the new chain's first tick begins a round unless it is hidden.
Connect ==
    /\ Event
    /\ clients < MaxClients /\ clients' = clients + 1
    /\ stats' = Nothing /\ inventory' = Nothing /\ tail' = Nothing
    /\ patch' = Unpatched
    /\ loadState' = "loading" /\ firstLoad' = TRUE
    /\ strayed' = FALSE
    /\ IF hidden
         THEN tick' = "armed" /\ rounds' = Orphaned(rounds)
         ELSE /\ tick' = "round"
              /\ \E s \in Slots :
                    /\ rounds[s].at = "free"
                    /\ rounds' = Begun(Orphaned(rounds), s, clients', "tick")
    /\ UNCHANGED <<envVars, awaiting, lifecycle, failures>>

DataChanges ==
    /\ version < MaxChanges /\ version' = version + 1
    /\ UNCHANGED <<clients, up, hidden, rounds, tick, awaiting, stateVars,
                   shownVars, strayed, boundVars>>

Init ==
    /\ clients = 1
    /\ up \in BOOLEAN
    /\ version = 0
    /\ hidden \in BOOLEAN
    /\ rounds = [s \in Slots |-> Idle]
    /\ tick = "armed"
    /\ awaiting = {}
    /\ firstLoad = TRUE /\ loadState = "loading" /\ lifecycle = "running"
    /\ stats = Nothing /\ inventory = Nothing /\ tail = Nothing
    /\ patch = Unpatched
    /\ strayed = FALSE
    /\ failures = 0 /\ events = 0

Handlers ==
    \E w \in awaiting :
        \/ Refreshes(w) \/ GatewayStopped(w) \/ GatewayStarted(w) \/ WaitFails(w)
        \/ DisableShown(w) \/ EditShown(w)
User ==
    \/ ClickRefresh \/ Focus \/ VisibilityChanges \/ ToggleGateway \/ RetryGateway
    \/ EditAccount \/ StatusRead \/ Connect

Next == Tick \/ (\E s \in Slots : Lands(s)) \/ Handlers \/ User \/ DataChanges

Spec == Init /\ [][Next]_vars

\* Timers fire, requests end in an answer or a timeout (api.ts), and so do the
\* native commands.  A step of a full set of slots waits for one to be free.
Fairness ==
    /\ SF_vars(Tick)
    /\ SF_vars(Handlers)
    /\ \A s \in Slots : WF_vars(Lands(s))

FairSpec == Spec /\ Fairness

-----------------------------------------------------------------------------
(* Properties.                                                             *)

Round == [at : Stages, c : 0..MaxClients, by : Callers, fresh : BOOLEAN,
          saw : 0..MaxChanges]

TypeOK ==
    /\ clients \in Clients
    /\ up \in BOOLEAN /\ version \in 0..MaxChanges /\ hidden \in BOOLEAN
    /\ rounds \in [Slots -> Round]
    /\ tick \in {"armed", "round"}
    /\ awaiting \subseteq [what : Waits, c : Clients, saw : 0..MaxChanges]
    /\ firstLoad \in BOOLEAN /\ loadState \in LoadStates
    /\ lifecycle \in {"running", "stopped"}
    /\ {stats, inventory, tail} \subseteq Answers /\ patch \in Patches
    /\ strayed \in BOOLEAN
    /\ failures \in 0..MaxFailures /\ events \in 0..MaxEvents

\* After the user has connected to another gateway nothing of the previous one
\* is on display, however late its answers arrive (the generation checks of
\* runRound), nor an edit of one of its accounts, unless a handler that was
\* awaiting something when the connection was replaced has begun a round for it or
\* shown its edit.
ShownIsOfTheConnection ==
    ~ strayed => {stats.c, inventory.c, tail.c, patch.c} \subseteq {0, clients}

\* What is on display of one connection never goes back to an older answer,
\* however the answers of overlapping rounds are ordered.
Older(new, old) == new.c = old.c /\ new.saw < old.saw
StepsForward ==
    /\ ~ Older(stats', stats)
    /\ ~ Older(inventory', inventory)
    /\ ~ Older(tail', tail) \/ tail' = Nothing
NothingStepsBack == [][StepsForward]_vars

\* An account shown as disabled is not shown as enabled again by a poll that was
\* answered before it was disabled: setCredentialDisabled supersedes the rounds in
\* flight in the step that shows the edit.
EditKept ==
    patch.by = "disable" /\ patch.c = clients /\ clients' = clients /\ patch' = Unpatched
        => inventory'.saw >= patch.saw
DisabledStays == [][EditKept]_vars

\* A visible console settles: polling goes on whatever was superseded, and the
\* display ends up with the current data of the current connection, and no edit on
\* top of it, while the gateway runs, and says it is not online while it does not.
Current(answer) == answer = [c |-> clients, saw |-> version]
SettlesOnCurrent ==
    <>[](~ hidden) =>
        <>[](IF up THEN /\ loadState = "online" /\ Current(stats)
                        /\ Current(inventory) /\ patch = Unpatched
                   ELSE loadState # "online")

=============================================================================
