----------------------------- MODULE CodexInstances -----------------------------
(***************************************************************************)
(* Codex instances: the launcher's map of owned processes, the account     *)
(* reservations the gateway's scheduler keeps for them, and the console's  *)
(* card that launches and stops them.                                      *)
(*                                                                         *)
(* The commands are async and run beside each other: a step ends at every  *)
(* await and at every release of the launcher's mutex.  The card disables  *)
(* its buttons while one launch or stop is under way (codexBusy), but a    *)
(* list starts whenever the settings surface opens.  Every launch has an   *)
(* id of its own, codex-<uuid>.  A list marks the exited processes and     *)
(* copies the map in one step.                                             *)
(***************************************************************************)
CONSTANTS
    Instances,      \* bound: the ids of the launches, each used once
    Accounts,       \* the codex accounts
    Lists,          \* bound: lists under way at once, besides a launch's own
    NoAccount,      \* no account
    GatewayFails    \* a call to the gateway may fail or lose its answer

ASSUME CodexAssumption ==
    /\ NoAccount \notin Accounts
    /\ GatewayFails \in BOOLEAN
    /\ "command" \notin Lists

Listers == Lists \cup {"command"}
States  == {"absent", "Running", "Crashed"}

VARIABLES
    reserved,   \* at the gateway: the account each instance id holds
    lost,       \* history: ids for which a call to the gateway has failed
    held,       \* the launcher's map: InstanceState of each id
    account,    \* the account each id was launched for
    child,      \* the owned processes
    homes,      \* the instance homes on disk
    pc, id,     \* the launch or stop under way, and its instance
    lpc, todo, view,  \* lists: crashed ids still to release, and the answer
    shown,      \* the card's codexInstances
    app, doomed \* the app's exit: ids stop_all has still to stop

gatewayVars  == <<reserved, lost>>
launcherVars == <<held, account, child, homes>>
commandVars  == <<pc, id>>
listVars     == <<lpc, todo, view>>
exitVars     == <<app, doomed>>
vars == <<gatewayVars, launcherVars, commandVars, listVars, shown, exitVars>>

Init ==
    /\ reserved = [i \in Instances |-> NoAccount]
    /\ lost = {}
    /\ held = [i \in Instances |-> "absent"]
    /\ account = [i \in Instances |-> NoAccount]
    /\ child = [i \in Instances |-> "none"]
    /\ homes = {}
    /\ pc = "idle"
    /\ id \in Instances
    /\ lpc = [l \in Listers |-> "idle"]
    /\ todo = [l \in Listers |-> {}]
    /\ view = [l \in Listers |-> held]
    /\ shown = held
    /\ app = "up"
    /\ doomed = {}

-----------------------------------------------------------------------------
(* The gateway and the processes.                                          *)

\* scheduler_reservation sets the account of id i to a: it is answered, or it
\* fails or its answer is lost, and then it may or may not have been carried out.
Answered(i, a) == reserved' = [reserved EXCEPT ![i] = a] /\ UNCHANGED lost
Unanswered(i, a) ==
    /\ GatewayFails
    /\ reserved' \in {reserved, [reserved EXCEPT ![i] = a]}
    /\ lost' = lost \cup {i}

\* DELETE of a reservation whose failure the caller ignores.
Release(i) == Answered(i, NoAccount) \/ Unanswered(i, NoAccount)

\* The Codex process ends by itself.
ChildExits(i) ==
    /\ child[i] = "running"
    /\ child' = [child EXCEPT ![i] = "exited"]
    /\ UNCHANGED <<gatewayVars, held, account, homes, commandVars, listVars,
                   shown, exitVars>>

-----------------------------------------------------------------------------
(* launch_codex_instance.                                                  *)

Return == pc' = "idle" /\ UNCHANGED id

\* The card offers the accounts no shown instance is running for.
ClickLaunch(i, a) ==
    /\ app = "up" /\ pc = "idle"
    /\ account[i] = NoAccount
    /\ \A j \in Instances : ~(shown[j] = "Running" /\ account[j] = a)
    /\ account' = [account EXCEPT ![i] = a]
    /\ pc' = "reserve" /\ id' = i
    /\ UNCHANGED <<gatewayVars, held, child, homes, listVars, shown, exitVars>>

\* POST: the scheduler accepts.
ReserveAccepted ==
    /\ pc = "reserve"
    /\ Answered(id, account[id])
    /\ pc' = "launch" /\ UNCHANGED id
    /\ UNCHANGED <<launcherVars, listVars, shown, exitVars>>

\* POST: the scheduler refuses, or its acceptance is lost on the way back.
ReserveFails ==
    /\ pc = "reserve"
    /\ UNCHANGED gatewayVars \/ Unanswered(id, account[id])
    /\ Return
    /\ UNCHANGED <<launcherVars, listVars, shown, exitVars>>

\* Mutant: only the instance id is looked up.
Bound_ById(i, a) == held[i] # "absent"

\* launch_with_binary: the account has an instance, whatever its state.
Bound(i, a) == \E j \in Instances : held[j] # "absent" /\ account[j] = a

Launch ==
    /\ pc = "launch"
    /\ ~Bound(id, account[id])
    /\ held' = [held EXCEPT ![id] = "Running"]
    /\ child' = [child EXCEPT ![id] = "running"]
    /\ homes' = homes \cup {id}
    /\ pc' = "relist" /\ UNCHANGED id
    /\ UNCHANGED <<gatewayVars, account, listVars, shown, exitVars>>

\* Mutant: the reservation of a refused launch is kept.
LaunchRefused_Keeps ==
    /\ pc = "launch"
    /\ Bound(id, account[id])
    /\ Return
    /\ UNCHANGED <<gatewayVars, launcherVars, listVars, shown, exitVars>>

LaunchRefused ==
    /\ pc = "launch"
    /\ Bound(id, account[id])
    /\ pc' = "rollback" /\ UNCHANGED id
    /\ UNCHANGED <<gatewayVars, launcherVars, listVars, shown, exitVars>>

\* No executable, or the home or the process could not be made.
LaunchFails ==
    /\ pc = "launch"
    /\ homes' \in {homes, homes \cup {id}}
    /\ pc' = "rollback" /\ UNCHANGED id
    /\ UNCHANGED <<gatewayVars, held, account, child, listVars, shown, exitVars>>

Rollback ==
    /\ pc = "rollback"
    /\ Release(id)
    /\ Return
    /\ UNCHANGED <<launcherVars, listVars, shown, exitVars>>

-----------------------------------------------------------------------------
(* stop_codex_instance.                                                    *)

ClickStop(i) ==
    /\ app = "up" /\ pc = "idle"
    /\ shown[i] # "absent"
    /\ pc' = "remove" /\ id' = i
    /\ UNCHANGED <<gatewayVars, launcherVars, listVars, shown, exitVars>>

\* CodexLauncher::stop takes the instance out of the map under the mutex ...
StopRemoves ==
    /\ pc = "remove"
    /\ held' = [held EXCEPT ![id] = "absent"]
    /\ pc' = IF held[id] = "absent" THEN "release" ELSE "kill"
    /\ UNCHANGED <<id, gatewayVars, account, child, homes, listVars, shown, exitVars>>

\* Mutant: the process is signalled and not waited for.
StopKills_NoWait ==
    /\ pc = "kill"
    /\ homes' = homes \ {id}
    /\ pc' = "release" /\ UNCHANGED id
    /\ UNCHANGED <<gatewayVars, held, account, child, listVars, shown, exitVars>>

\* ... and kills, waits and removes the home without it.
StopKills ==
    /\ pc = "kill"
    /\ child' = [child EXCEPT ![id] = "exited"]
    /\ homes' = homes \ {id}
    /\ pc' = "release" /\ UNCHANGED id
    /\ UNCHANGED <<gatewayVars, held, account, listVars, shown, exitVars>>

StopReleases ==
    /\ pc = "release"
    /\ Answered(id, NoAccount)
    /\ shown' = held
    /\ Return
    /\ UNCHANGED <<launcherVars, listVars, exitVars>>

\* The DELETE fails, or its answer is lost: the card keeps what it shows.
StopReleaseFails ==
    /\ pc = "release"
    /\ Unanswered(id, NoAccount)
    /\ Return
    /\ UNCHANGED <<launcherVars, listVars, shown, exitVars>>

-----------------------------------------------------------------------------
(* list_codex_instances.                                                   *)

\* Mutant: every instance is released, not only the crashed ones.
Crashed_All(map) == {i \in Instances : map[i] # "absent"}

Crashed(map) == {i \in Instances : map[i] = "Crashed"}

\* Mutant: an exited instance gets a state the console does not know.
Reaped_Unknown ==
    [i \in Instances |->
        IF held[i] # "absent" /\ child[i] = "exited" THEN "Exited" ELSE held[i]]

\* reap: an instance whose process has exited is marked.
Reaped ==
    [i \in Instances |->
        IF held[i] # "absent" /\ child[i] = "exited" THEN "Crashed" ELSE held[i]]

ListReads(l) ==
    /\ IF l = "command" THEN pc = "relist" /\ app # "gone" ELSE app = "up"
    /\ lpc[l] = "idle"
    /\ held' = Reaped
    /\ view' = [view EXCEPT ![l] = Reaped]
    /\ todo' = [todo EXCEPT ![l] = Crashed(Reaped)]
    /\ lpc' = [lpc EXCEPT ![l] = "release"]
    /\ UNCHANGED <<gatewayVars, account, child, homes, commandVars, shown, exitVars>>

ListReleases(l, i) ==
    /\ lpc[l] = "release"
    /\ i \in todo[l]
    /\ Release(i)
    /\ todo' = [todo EXCEPT ![l] = @ \ {i}]
    /\ UNCHANGED <<launcherVars, commandVars, lpc, view, shown, exitVars>>

\* The answer replaces what the card shows; a launch's own list ends it.
ListReturns(l) ==
    /\ lpc[l] = "release"
    /\ todo[l] = {}
    /\ shown' = view[l]
    /\ lpc' = [lpc EXCEPT ![l] = "idle"]
    /\ view' = [view EXCEPT ![l] = [i \in Instances |-> "absent"]]
    /\ IF l = "command" THEN Return ELSE UNCHANGED commandVars
    /\ UNCHANGED <<gatewayVars, launcherVars, todo, exitVars>>

-----------------------------------------------------------------------------
(* cleanup_on_app_exit: stop_all, on the main thread.                      *)

ExitBegins ==
    /\ app = "up"
    /\ app' = "closing"
    /\ doomed' = {i \in Instances : held[i] # "absent"}
    /\ UNCHANGED <<gatewayVars, launcherVars, commandVars, listVars, shown>>

ExitStops(i) ==
    /\ i \in doomed
    /\ doomed' = doomed \ {i}
    /\ IF held[i] = "absent"
         THEN UNCHANGED <<held, child, homes>>
         ELSE /\ held' = [held EXCEPT ![i] = "absent"]
              /\ child' = [child EXCEPT ![i] = "exited"]
              /\ homes' = homes \ {i}
    /\ UNCHANGED <<gatewayVars, account, commandVars, listVars, shown, app>>

\* The app's process and its threads end.
ExitEnds ==
    /\ app = "closing"
    /\ doomed = {}
    /\ app' = "gone"
    /\ pc' = "idle"
    /\ lpc' = [l \in Listers |-> "idle"]
    /\ todo' = [l \in Listers |-> {}]
    /\ UNCHANGED <<gatewayVars, launcherVars, id, view, shown, doomed>>

CommandStep ==
    \/ ReserveAccepted \/ ReserveFails
    \/ Launch \/ LaunchRefused \/ LaunchFails \/ Rollback
    \/ StopRemoves \/ StopKills \/ StopReleases \/ StopReleaseFails

ClickStep ==
    \E i \in Instances : ClickStop(i) \/ \E a \in Accounts : ClickLaunch(i, a)

ListStep(l) ==
    \/ ListReads(l)
    \/ \E i \in Instances : ListReleases(l, i)
    \/ ListReturns(l)

ExitStep == ExitBegins \/ (\E i \in Instances : ExitStops(i)) \/ ExitEnds

Next ==
    \/ \E i \in Instances : ChildExits(i)
    \/ ClickStep
    \/ CommandStep
    \/ \E l \in Listers : ListStep(l)
    \/ ExitStep

Spec == Init /\ [][Next]_vars

-----------------------------------------------------------------------------
(* Properties.                                                             *)

Pcs == {"idle", "reserve", "launch", "rollback", "relist", "remove", "kill", "release"}

\* Every variable keeps its type.
TypeOK ==
    /\ reserved \in [Instances -> Accounts \cup {NoAccount}]
    /\ lost \subseteq Instances
    /\ held \in [Instances -> States]
    /\ account \in [Instances -> Accounts \cup {NoAccount}]
    /\ child \in [Instances -> {"none", "running", "exited"}]
    /\ homes \subseteq Instances
    /\ pc \in Pcs
    /\ id \in Instances
    /\ lpc \in [Listers -> {"idle", "release"}]
    /\ todo \in [Listers -> SUBSET Instances]
    /\ view \in [Listers -> [Instances -> States]]
    /\ shown \in [Instances -> States]
    /\ app \in {"up", "closing", "gone"}
    /\ doomed \subseteq Instances

\* CONTRACTS.md: "Bound accounts are unavailable to the scheduler until their
\* owned process exits".  No list, rollback, stop or lost answer releases the
\* account of a process that still runs, or removes its home.
SessionKeepsItsBinding ==
    \A i \in Instances : child[i] = "running" =>
        reserved[i] = account[i] /\ i \in homes

\* Two live sessions never share an account, even while a stop has already
\* taken one out of the map and not yet killed it.
OneSessionPerAccount ==
    app = "up" =>
        \A i, j \in Instances :
            child[i] = "running" /\ child[j] = "running" /\ account[i] = account[j]
                => i = j

Idle == pc = "idle" /\ \A l \in Listers : lpc[l] = "idle"

\* The other half of the same sentence: once the commands are done, and unless
\* a call to the gateway went wrong, only an instance the launcher takes for
\* running holds an account.
ReleasedAfterExit ==
    app = "up" /\ Idle =>
        \A i \in Instances \ lost : reserved[i] # NoAccount => held[i] = "Running"

-----------------------------------------------------------------------------
(* What the launcher and the scheduler's reservations implement together.  *)

Running  == {i \in Instances : child[i] = "running"}
Lent     == {<<i, account[i]>> : i \in Running}
Withheld == {reserved[i] : i \in Instances} \ {NoAccount}

Pool == INSTANCE AccountPool WITH
            Sessions <- Instances,
            open     <- app = "up",
            using    <- Lent,
            ended    <- {i \in Instances : child[i] = "exited"},
            withheld <- Withheld

\* Every step of a launch, a stop, a list, the exit or a process lends, ends or
\* gives back one account in the order AccountPool allows, or none: the order of
\* reservation, launch, kill and release, beside the lists that release too.
ImplementsAccountPool == Pool!Spec
=============================================================================
