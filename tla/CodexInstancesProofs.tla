------------------------- MODULE CodexInstancesProofs -------------------------
(***************************************************************************)
(* Proofs about CodexInstances, for any number of ids, accounts and lists  *)
(* under way, and a gateway that loses answers.                            *)
(***************************************************************************)
EXTENDS CodexInstances, TLAPS

\* What the launch or stop under way has established.
CommandInv ==
    /\ pc # "idle" => app # "gone"
    /\ pc \in {"reserve", "launch", "rollback"} =>
         child[id] = "none" /\ account[id] # NoAccount
    /\ pc = "launch" => reserved[id] = account[id]
    /\ pc = "kill" => child[id] # "none"
    /\ pc = "release" => child[id] # "running"
    /\ lpc["command"] = "release" => pc = "relist"

\* What the launcher's map says of the processes.
MapInv ==
    \A i \in Instances :
        /\ child[i] # "none" => account[i] # NoAccount
        /\ held[i] # "absent" => child[i] # "none"
        /\ held[i] = "Crashed" => child[i] = "exited"
        /\ child[i] = "running" /\ app # "gone" =>
             held[i] = "Running" \/ (pc = "kill" /\ id = i)

\* A list only releases what has exited.
ListInv == \A l \in Listers : \A i \in todo[l] : child[i] = "exited"

Inv == TypeOK /\ CommandInv /\ MapInv /\ ListInv /\ SessionKeepsItsBinding

LEMMA InitInv == Init => Inv
  BY CodexAssumption DEF Init, Inv, TypeOK, CommandInv, MapInv, ListInv,
     SessionKeepsItsBinding, States, Pcs, Listers

LEMMA ClickInv == Inv /\ ClickStep => Inv'
<1> SUFFICES ASSUME Inv, NEW i \in Instances,
                    ClickStop(i) \/ \E a \in Accounts : ClickLaunch(i, a)
             PROVE  Inv'
  BY DEF ClickStep
<1> USE CodexAssumption DEF Inv, TypeOK, CommandInv, MapInv, ListInv, SessionKeepsItsBinding,
     gatewayVars, launcherVars, commandVars, listVars, exitVars, Pcs
<1>1. CASE ClickStop(i)
  BY <1>1 DEF ClickStop
<1>2. ASSUME NEW a \in Accounts, ClickLaunch(i, a)
      PROVE  Inv'
  <2>1. /\ account[i] = NoAccount /\ account' = [account EXCEPT ![i] = a]
        /\ pc = "idle" /\ pc' = "reserve" /\ id' = i /\ app = "up"
        /\ UNCHANGED <<reserved, lost, held, child, homes, listVars, shown, exitVars>>
    BY <1>2 DEF ClickLaunch
  <2>2. child[i] = "none"
    BY <2>1
  <2> QED
    BY <2>1, <2>2
<1> QED
  BY <1>1, <1>2

LEMMA CommandStepInv == Inv /\ CommandStep => Inv'
<1> SUFFICES ASSUME Inv, CommandStep PROVE Inv'
  OBVIOUS
<1> USE CodexAssumption DEF Inv, TypeOK, CommandInv, MapInv, ListInv, SessionKeepsItsBinding,
     gatewayVars, launcherVars, commandVars, listVars, exitVars, Pcs, Return, Answered, Unanswered
<1>1. CASE ReserveAccepted
  BY <1>1 DEF ReserveAccepted
<1>2. CASE ReserveFails
  BY <1>2 DEF ReserveFails
<1>3. CASE Launch
  <2>1. /\ pc = "launch" /\ pc' = "relist"
        /\ held' = [held EXCEPT ![id] = "Running"]
        /\ child' = [child EXCEPT ![id] = "running"]
        /\ homes' = homes \cup {id}
        /\ UNCHANGED <<id, reserved, lost, account, listVars, shown, exitVars>>
    BY <1>3 DEF Launch
  <2>2. TypeOK' /\ CommandInv'
    BY <2>1 DEF States
  <2>3. MapInv'
    BY <2>1
  <2>4. ListInv' /\ SessionKeepsItsBinding'
    BY <2>1
  <2> QED
    BY <2>2, <2>3, <2>4
<1>4. CASE LaunchRefused
  BY <1>4 DEF LaunchRefused
<1>5. CASE LaunchFails
  BY <1>5 DEF LaunchFails
<1>6. CASE Rollback
  BY <1>6 DEF Rollback, Release
<1>7. CASE StopRemoves
  <2>1. /\ pc = "remove" /\ held' = [held EXCEPT ![id] = "absent"]
        /\ UNCHANGED <<id, reserved, lost, account, child, homes, listVars, shown, exitVars>>
        /\ \/ held[id] = "absent" /\ pc' = "release"
           \/ held[id] # "absent" /\ pc' = "kill"
    BY <1>7 DEF StopRemoves
  <2>2. TypeOK' /\ ListInv' /\ SessionKeepsItsBinding'
    BY <2>1 DEF States
  <2>3. MapInv'
    BY <2>1
  <2>4. CommandInv'
    BY <2>1
  <2> QED
    BY <2>2, <2>3, <2>4
<1>8. CASE StopKills
  BY <1>8 DEF StopKills
<1>9. CASE StopReleases
  BY <1>9 DEF StopReleases
<1>10. CASE StopReleaseFails
  BY <1>10 DEF StopReleaseFails
<1> QED
  BY <1>1, <1>2, <1>3, <1>4, <1>5, <1>6, <1>7, <1>8, <1>9, <1>10 DEF CommandStep

LEMMA ListStepInv ==
  ASSUME Inv, NEW l \in Listers, ListStep(l)
  PROVE  Inv'
<1> USE CodexAssumption DEF Inv, TypeOK, CommandInv, MapInv, ListInv, SessionKeepsItsBinding,
     gatewayVars, launcherVars, commandVars, listVars, exitVars, Pcs, Return
<1>1. CASE ListReads(l)
  <2>1. \A i \in Instances :
           /\ Reaped[i] \in States
           /\ Reaped[i] = "Crashed" => child[i] = "exited"
           /\ Reaped[i] # "absent" => held[i] # "absent"
           /\ child[i] = "running" => Reaped[i] = held[i]
    BY DEF Reaped, States
  <2>2. Reaped \in [Instances -> States]
    BY <2>1 DEF Reaped
  <2>3. /\ held' = Reaped /\ view' = [view EXCEPT ![l] = Reaped]
        /\ todo' = [todo EXCEPT ![l] = Crashed(Reaped)]
        /\ lpc' = [lpc EXCEPT ![l] = "release"]
        /\ l = "command" => pc = "relist"
        /\ UNCHANGED <<reserved, lost, account, child, homes, pc, id, shown, app, doomed>>
    BY <1>1 DEF ListReads
  <2>4. Crashed(Reaped) \subseteq Instances /\ \A i \in Crashed(Reaped) : child[i] = "exited"
    BY <2>1 DEF Crashed
  <2> HIDE DEF Reaped, Crashed
  <2>5. TypeOK'
    BY <2>2, <2>3, <2>4
  <2>6. CommandInv' /\ SessionKeepsItsBinding'
    BY <2>3
  <2>7. MapInv'
    BY <2>1, <2>3
  <2>8. ListInv'
    BY <2>3, <2>4
  <2> QED
    BY <2>5, <2>6, <2>7, <2>8
<1>2. ASSUME NEW i \in Instances, ListReleases(l, i)
      PROVE  Inv'
  <2>1. /\ i \in todo[l] /\ todo' = [todo EXCEPT ![l] = todo[l] \ {i}]
        /\ reserved' = reserved \/ reserved' = [reserved EXCEPT ![i] = NoAccount]
        /\ lost' = lost \/ lost' = lost \cup {i}
        /\ UNCHANGED <<held, account, child, homes, pc, id, lpc, view, shown, app, doomed>>
    BY <1>2 DEF ListReleases, Release, Answered, Unanswered
  <2>2. child[i] = "exited"
    BY <2>1
  <2>3. TypeOK' /\ ListInv' /\ MapInv' /\ SessionKeepsItsBinding'
    BY <2>1, <2>2
  <2>4. CommandInv'
    BY <2>1, <2>2
  <2> QED
    BY <2>3, <2>4
<1>3. CASE ListReturns(l)
  <2>1. /\ shown' = view[l] /\ lpc' = [lpc EXCEPT ![l] = "idle"]
        /\ view' = [view EXCEPT ![l] = [i \in Instances |-> "absent"]]
        /\ UNCHANGED <<reserved, lost, held, account, child, homes, id, todo, app, doomed>>
        /\ (l # "command" /\ pc' = pc) \/ (l = "command" /\ pc' = "idle")
    BY <1>3 DEF ListReturns
  <2>2. TypeOK'
    BY <2>1 DEF States
  <2>3. CommandInv' /\ ListInv' /\ SessionKeepsItsBinding'
    BY <2>1
  <2>4. MapInv'
    <3>1. pc = "kill" => pc' = "kill"
      BY <1>3, CodexAssumption DEF ListReturns
    <3> QED
      BY <2>1, <3>1
  <2> QED
    BY <2>2, <2>3, <2>4
<1> QED
  BY <1>1, <1>2, <1>3 DEF ListStep

LEMMA ExitInv == Inv /\ ExitStep => Inv'
<1> SUFFICES ASSUME Inv, ExitStep PROVE Inv'
  OBVIOUS
<1> USE CodexAssumption DEF Inv, TypeOK, CommandInv, MapInv, ListInv, SessionKeepsItsBinding,
     gatewayVars, launcherVars, commandVars, listVars, exitVars, Pcs
<1>1. CASE ExitBegins
  BY <1>1 DEF ExitBegins
<1>2. ASSUME NEW i \in Instances, ExitStops(i)
      PROVE  Inv'
  <2>1. CASE held[i] = "absent"
    <3>1. UNCHANGED <<reserved, lost, held, account, child, homes, pc, id, lpc, todo, view, shown,
                      app>> /\ doomed' = doomed \ {i}
      BY <1>2, <2>1 DEF ExitStops
    <3> QED
      BY <3>1
  <2>2. CASE held[i] # "absent"
    <3>1. /\ held' = [held EXCEPT ![i] = "absent"]
          /\ child' = [child EXCEPT ![i] = "exited"]
          /\ homes' = homes \ {i} /\ doomed' = doomed \ {i}
          /\ UNCHANGED <<reserved, lost, account, pc, id, lpc, todo, view, shown, app>>
      BY <1>2, <2>2 DEF ExitStops
    <3>2. TypeOK' /\ ListInv' /\ SessionKeepsItsBinding'
      BY <3>1 DEF States
    <3>3. CommandInv'
      BY <2>2, <3>1
    <3>4. MapInv'
      BY <2>2, <3>1
    <3> QED
      BY <3>2, <3>3, <3>4
  <2> QED
    BY <2>1, <2>2
<1>3. CASE ExitEnds
  BY <1>3 DEF ExitEnds, Listers
<1> QED
  BY <1>1, <1>2, <1>3 DEF ExitStep

\* Every step keeps the invariant.
LEMMA NextInv == Inv /\ [Next]_vars => Inv'
<1> SUFFICES ASSUME Inv, [Next]_vars PROVE Inv'
  OBVIOUS
<1>1. ASSUME NEW i \in Instances, ChildExits(i)
      PROVE  Inv'
  BY <1>1 DEF ChildExits, Inv, TypeOK, CommandInv, MapInv, ListInv, SessionKeepsItsBinding,
     gatewayVars, launcherVars, commandVars, listVars, exitVars
<1>2. CASE UNCHANGED vars
  BY <1>2 DEF vars, Inv, TypeOK, CommandInv, MapInv, ListInv, SessionKeepsItsBinding,
     gatewayVars, launcherVars, commandVars, listVars, exitVars
<1> QED
  BY <1>1, <1>2, ClickInv, CommandStepInv, ListStepInv, ExitInv DEF Next

\* The launcher's map, the reservations and the lists under way agree with the
\* processes in every reachable state.
THEOREM Invariance == Spec => []Inv
  BY InitInv, NextInv, PTL DEF Spec

\* The commands, the lists and the pool they share keep their types, also with the
\* app closing in the middle of any of them.
THEOREM TypeCorrect == Spec => []TypeOK
<1>1. Inv => TypeOK
  BY DEF Inv
<1> QED
  BY <1>1, Invariance, PTL

\* Whatever lists, rollbacks, stops and lost answers interleave, the account of
\* a running session stays reserved for it and its home stays on disk.
THEOREM BindingKept == Spec => []SessionKeepsItsBinding
<1>1. Inv => SessionKeepsItsBinding
  BY DEF Inv
<1> QED
  BY <1>1, Invariance, PTL

\* Only a launch starts a session, and no click renames a session's account.
LEMMA OneSessionNext ==
  Inv /\ OneSessionPerAccount /\ [Next]_vars => OneSessionPerAccount'
<1> SUFFICES ASSUME Inv, OneSessionPerAccount, [Next]_vars, app' = "up",
                    NEW i \in Instances, NEW j \in Instances,
                    child'[i] = "running", child'[j] = "running",
                    account'[i] = account'[j]
             PROVE  i = j
  BY DEF OneSessionPerAccount
<1> USE DEF gatewayVars, launcherVars, commandVars, listVars, exitVars
<1>1. CASE Launch
  <2>1. /\ pc = "launch" /\ ~Bound(id, account[id])
        /\ child' = [child EXCEPT ![id] = "running"]
        /\ UNCHANGED <<account, app>>
    BY <1>1 DEF Launch
  <2>2. \A k \in Instances : child[k] = "running" => account[k] # account[id]
    BY <2>1 DEF Inv, MapInv, Bound
  <2>3. \A k \in Instances : child'[k] = "running" => k = id \/ child[k] = "running"
    BY <2>1 DEF Inv, TypeOK
  <2> QED
    BY <2>1, <2>2, <2>3 DEF OneSessionPerAccount
<1>2. ASSUME NEW k \in Instances, NEW a \in Accounts, ClickLaunch(k, a)
      PROVE  i = j
  <2>1. /\ app = "up" /\ account[k] = NoAccount
        /\ account' = [account EXCEPT ![k] = a] /\ UNCHANGED child
    BY <1>2 DEF ClickLaunch
  <2>2. i # k /\ j # k
    BY <2>1 DEF Inv, MapInv
  <2>3. account'[i] = account[i] /\ account'[j] = account[j]
    BY <2>1, <2>2 DEF Inv, TypeOK
  <2> QED
    BY <2>1, <2>3 DEF OneSessionPerAccount
<1>3. ASSUME UNCHANGED <<account, app>>,
             \A k \in Instances : child'[k] = "running" => child[k] = "running"
      PROVE  i = j
  BY <1>3 DEF OneSessionPerAccount
<1>4. ASSUME NEW k \in Instances, ChildExits(k) PROVE i = j
  <2>1. UNCHANGED <<account, app>> /\ child' = [child EXCEPT ![k] = "exited"]
    BY <1>4 DEF ChildExits
  <2> QED
    BY <1>3, <2>1 DEF Inv, TypeOK
<1>5. CASE StopKills
  <2>1. UNCHANGED <<account, app>> /\ child' = [child EXCEPT ![id] = "exited"]
    BY <1>5 DEF StopKills
  <2> QED
    BY <1>3, <2>1 DEF Inv, TypeOK
<1>6. CASE UNCHANGED <<account, app, child>>
  BY <1>3, <1>6
<1>7. ASSUME NEW k \in Instances, ClickStop(k) PROVE UNCHANGED <<account, app, child>>
  BY <1>7 DEF ClickStop
<1>8. ASSUME CommandStep, ~Launch, ~StopKills PROVE UNCHANGED <<account, app, child>>
  BY <1>8 DEF CommandStep, ReserveAccepted, ReserveFails, LaunchRefused, LaunchFails,
     Rollback, StopRemoves, StopReleases, StopReleaseFails
<1>9. ASSUME NEW l \in Listers, ListStep(l) PROVE UNCHANGED <<account, app, child>>
  BY <1>9 DEF ListStep, ListReads, ListReleases, ListReturns
<1>10. ASSUME ExitStep PROVE i = j
  <2>1. ASSUME NEW k \in Instances, ExitStops(k) PROVE i = j
    <3>1. /\ UNCHANGED <<account, app>>
          /\ UNCHANGED child \/ child' = [child EXCEPT ![k] = "exited"]
      BY <2>1 DEF ExitStops
    <3> QED
      BY <1>3, <3>1 DEF Inv, TypeOK
  <2> QED
    BY <1>10, <2>1 DEF ExitStep, ExitBegins, ExitEnds
<1>11. CASE UNCHANGED vars
  BY <1>6, <1>11 DEF vars
<1> QED
  BY <1>1, <1>2, <1>4, <1>5, <1>6, <1>7, <1>8, <1>9, <1>10, <1>11 DEF Next, ClickStep

\* Two live sessions never share an account while the app runs.
THEOREM OneAccountOneSession == Spec => []OneSessionPerAccount
<1>1. Init => OneSessionPerAccount
  BY DEF Init, OneSessionPerAccount
<1> QED
  BY <1>1, OneSessionNext, Invariance, PTL DEF Spec

-----------------------------------------------------------------------------
(* The refinement of AccountPool.                                          *)

\* The accounts a step of the pool changes, in terms of the launcher's state.
Ended == {i \in Instances : child[i] = "exited"}

\* An id holds its own account or none.
ReservedInv == \A i \in Instances : reserved[i] \in {NoAccount, account[i]}

\* Only the reservation of an id whose account is known is ever made.
LEMMA ReservedNext == Inv /\ ReservedInv /\ [Next]_vars => ReservedInv'
<1> SUFFICES ASSUME Inv, ReservedInv, [Next]_vars
             PROVE  ReservedInv'
  OBVIOUS
<1> USE DEF gatewayVars, launcherVars, commandVars, listVars, exitVars
<1>t. reserved \in [Instances -> Accounts \cup {NoAccount}] /\ id \in Instances
        /\ account \in [Instances -> Accounts \cup {NoAccount}]
  BY DEF Inv, TypeOK
<1>1. ASSUME NEW i \in Instances, NEW x \in {NoAccount, account[i]}, UNCHANGED account,
             Answered(i, x) \/ Unanswered(i, x)
      PROVE  ReservedInv'
  BY <1>1, <1>t DEF Answered, Unanswered, ReservedInv
<1>2. ASSUME UNCHANGED <<reserved, account>> PROVE ReservedInv'
  BY <1>2 DEF ReservedInv
<1>3. ASSUME NEW i \in Instances, NEW a \in Accounts, ClickLaunch(i, a)
      PROVE  ReservedInv'
  BY <1>3, <1>t DEF ClickLaunch, ReservedInv
<1>4. ASSUME NEW i \in Instances, ClickStop(i) \/ ChildExits(i) PROVE ReservedInv'
  BY <1>2, <1>4 DEF ClickStop, ChildExits
<1>5. CASE ReserveAccepted
  BY <1>1, <1>5, <1>t DEF ReserveAccepted
<1>6. CASE ReserveFails
  BY <1>1, <1>2, <1>6, <1>t DEF ReserveFails
<1>7. CASE Rollback \/ StopReleases \/ StopReleaseFails
  BY <1>1, <1>7, <1>t DEF Rollback, StopReleases, StopReleaseFails, Release
<1>8. CASE Launch \/ LaunchRefused \/ LaunchFails \/ StopRemoves \/ StopKills
  BY <1>2, <1>8 DEF Launch, LaunchRefused, LaunchFails, StopRemoves, StopKills
<1>9. ASSUME NEW l \in Listers, ListStep(l) PROVE ReservedInv'
  <2>1. ASSUME NEW i \in Instances, ListReleases(l, i) PROVE ReservedInv'
    BY <1>1, <2>1 DEF ListReleases, Release
  <2>2. CASE ListReads(l) \/ ListReturns(l)
    BY <1>2, <2>2 DEF ListReads, ListReturns
  <2> QED
    BY <1>9, <2>1, <2>2 DEF ListStep
<1>10. CASE ExitStep
  BY <1>2, <1>10 DEF ExitStep, ExitBegins, ExitStops, ExitEnds
<1>11. CASE UNCHANGED vars
  BY <1>2, <1>11 DEF vars
<1> QED
  BY <1>3, <1>4, <1>5, <1>6, <1>7, <1>8, <1>9, <1>10, <1>11
     DEF Next, ClickStep, CommandStep

PoolStep == [Pool!Next]_(Pool!vars)

\* What a step leaves of the pool.
LentSame == Lent' = Lent /\ Ended' = Ended /\ (app = "up")' = (app = "up")

LEMMA PoolStutters == LentSame /\ Withheld' = Withheld => PoolStep
  BY DEF PoolStep, LentSame, Ended, Pool!vars

\* Neither the account nor the process of an id changes.
LEMMA SameProcesses ==
  ASSUME UNCHANGED <<account, child>>, (app' = "up") = (app = "up")
  PROVE  LentSame
  BY DEF LentSame, Lent, Running, Ended

\* A reservation is made, deleted, or kept.
LEMMA ReservationStep ==
  ASSUME Inv, ReservedInv, NEW i \in Instances, NEW x \in {NoAccount, account[i]},
         Answered(i, x) \/ Unanswered(i, x), x = NoAccount => child[i] # "running",
         LentSame
  PROVE  PoolStep
<1>t. /\ reserved \in [Instances -> Accounts \cup {NoAccount}]
      /\ account \in [Instances -> Accounts \cup {NoAccount}]
  BY DEF Inv, TypeOK
<1>1. CASE reserved' = reserved
  BY <1>1, PoolStutters DEF Withheld
<1>2. CASE reserved' = [reserved EXCEPT ![i] = x] /\ x # NoAccount
  <2>1. x \in Accounts /\ x = account[i]
    BY <1>2, <1>t
  <2>2. Withheld' = Withheld \cup {x}
    BY <1>2, <1>t, <2>1 DEF Withheld, ReservedInv
  <2>3. Pool!Withhold(x)
    BY <2>2 DEF Pool!Withhold, LentSame, Ended
  <2> QED
    BY <2>1, <2>3 DEF PoolStep, Pool!Next
<1>3. CASE reserved' = [reserved EXCEPT ![i] = x] /\ x = NoAccount
  <2> DEFINE old == reserved[i]
  <2>1. CASE \E j \in Instances \ {i} : reserved[j] = old
    <3>1. Withheld' = Withheld
      BY <1>3, <1>t, <2>1 DEF Withheld
    <3> QED
      BY <3>1, PoolStutters
  <2>2. CASE old = NoAccount
    <3>1. Withheld' = Withheld
      BY <1>3, <1>t, <2>2 DEF Withheld
    <3> QED
      BY <3>1, PoolStutters
  <2>3. CASE old # NoAccount /\ ~ \E j \in Instances \ {i} : reserved[j] = old
    <3>1. Withheld' = Withheld \ {old} /\ old \in Accounts
      BY <1>3, <1>t, <2>3 DEF Withheld
    <3>2. \A j \in Instances : child[j] = "running" => account[j] # old
      BY <1>3, <2>3 DEF Inv, SessionKeepsItsBinding
    <3>3. ~ Pool!InUse(old)
      BY <3>2 DEF Pool!InUse, Lent, Running
    <3>4. Pool!GiveBack(old)
      BY <3>1, <3>3 DEF Pool!GiveBack, LentSame, Ended
    <3> QED
      BY <3>1, <3>4 DEF PoolStep, Pool!Next
  <2> QED
    BY <2>1, <2>2, <2>3
<1> QED
  BY <1>1, <1>2, <1>3 DEF Answered, Unanswered

\* A running process ends, or one that is not running is left as ended.
LEMMA EndStep ==
  ASSUME Inv, NEW i \in Instances, child[i] # "none",
         child' = [child EXCEPT ![i] = "exited"], UNCHANGED <<reserved, account, app>>
  PROVE  PoolStep
<1>t. /\ child \in [Instances -> {"none", "running", "exited"}]
      /\ account \in [Instances -> Accounts \cup {NoAccount}]
  BY DEF Inv, TypeOK
<1>1. Withheld' = Withheld
  BY DEF Withheld
<1>2. CASE child[i] = "running"
  <2>1. PICK a \in Accounts : a = account[i]
    BY <1>2, <1>t DEF Inv, MapInv
  <2>2. <<i, a>> \in Lent
    BY <1>2, <2>1 DEF Lent, Running
  <2>3. Running' = Running \ {i}
    BY <1>t DEF Running
  <2>4. Lent' = Lent \ {<<i, a>>}
    BY <2>1, <2>3 DEF Lent
  <2>5. Ended' = Ended \cup {i}
    BY <1>t DEF Ended
  <2>6. Pool!End(i, a)
    BY <1>1, <2>2, <2>4, <2>5 DEF Pool!End, Ended
  <2> QED
    BY <2>6 DEF PoolStep, Pool!Next
<1>3. CASE child[i] # "running"
  <2>1. child' = child
    BY <1>3, <1>t
  <2> QED
    BY <1>1, <2>1, SameProcesses, PoolStutters
<1> QED
  BY <1>2, <1>3

LEMMA LaunchIsBegin == Inv /\ ReservedInv /\ Launch => PoolStep
<1> SUFFICES ASSUME Inv, ReservedInv, Launch PROVE PoolStep
  OBVIOUS
<1> DEFINE a == account[id]
<1>t. /\ child \in [Instances -> {"none", "running", "exited"}] /\ id \in Instances
      /\ account \in [Instances -> Accounts \cup {NoAccount}]
  BY DEF Inv, TypeOK
<1>1. /\ pc = "launch" /\ ~ Bound(id, a)
      /\ child' = [child EXCEPT ![id] = "running"]
      /\ UNCHANGED <<reserved, account, app>>
  BY DEF Launch, gatewayVars, exitVars
<1>2. child[id] = "none" /\ a \in Accounts /\ reserved[id] = a /\ app # "gone"
  BY <1>1, <1>t DEF Inv, CommandInv
<1>3. a \in Withheld
  BY <1>2, <1>t, CodexAssumption DEF Withheld
<1>4. ~ Pool!InUse(a)
  <2>1. \A j \in Instances : child[j] = "running" => account[j] # a
    BY <1>1, <1>2 DEF Inv, MapInv, Bound
  <2> QED
    BY <2>1 DEF Pool!InUse, Lent, Running
<1>5. id \notin Ended /\ \A b \in Accounts : <<id, b>> \notin Lent
  BY <1>2 DEF Ended, Lent, Running
<1>6. Running' = Running \cup {id}
  BY <1>1, <1>t DEF Running
<1>7. Lent' = Lent \cup {<<id, a>>}
  BY <1>1, <1>6 DEF Lent
<1>8. Ended' = Ended /\ Withheld' = Withheld
  BY <1>1, <1>2, <1>t DEF Ended, Withheld
<1>9. Pool!Begin(id, a)
  BY <1>1, <1>3, <1>4, <1>5, <1>7, <1>8 DEF Pool!Begin, Ended
<1> QED
  BY <1>2, <1>9, <1>t DEF PoolStep, Pool!Next

\* Every step is a step of the pool, or leaves it as it is.
LEMMA NextIsPoolStep == Inv /\ ReservedInv /\ [Next]_vars => PoolStep
<1> SUFFICES ASSUME Inv, ReservedInv, [Next]_vars PROVE PoolStep
  OBVIOUS
<1> USE DEF gatewayVars, launcherVars, commandVars, listVars, exitVars
<1>t. id \in Instances
  BY DEF Inv, TypeOK
<1>1. ASSUME UNCHANGED <<reserved, account, child>>, (app' = "up") = (app = "up")
      PROVE  PoolStep
  BY <1>1, SameProcesses, PoolStutters DEF Withheld
<1>2. ASSUME NEW i \in Instances, NEW x \in {NoAccount, account[i]},
             Answered(i, x) \/ Unanswered(i, x), x = NoAccount => child[i] # "running",
             UNCHANGED <<account, child, app>>
      PROVE  PoolStep
  BY <1>2, SameProcesses, ReservationStep
<1>3. ASSUME NEW i \in Instances, NEW a \in Accounts, ClickLaunch(i, a)
      PROVE  PoolStep
  <2>1. /\ account' = [account EXCEPT ![i] = a] /\ account[i] = NoAccount
        /\ UNCHANGED <<reserved, child, app>>
    BY <1>3 DEF ClickLaunch
  <2>2. \A j \in Running : j # i
    BY <2>1 DEF Inv, MapInv, Running
  <2>3. Running' = Running /\ Ended' = Ended /\ Withheld' = Withheld
    BY <2>1 DEF Running, Ended, Withheld
  <2>4. \A j \in Running : account'[j] = account[j]
    BY <2>1, <2>2 DEF Inv, TypeOK, Running
  <2>5. Lent' = Lent
    BY <2>3, <2>4 DEF Lent
  <2> QED
    BY <2>1, <2>3, <2>5, PoolStutters DEF LentSame
<1>4. ASSUME NEW i \in Instances, ClickStop(i) PROVE PoolStep
  BY <1>1, <1>4 DEF ClickStop
<1>5. ASSUME NEW i \in Instances, ChildExits(i) PROVE PoolStep
  <2>1. /\ child[i] # "none" /\ child' = [child EXCEPT ![i] = "exited"]
        /\ UNCHANGED <<reserved, account, app>>
    BY <1>5 DEF ChildExits
  <2> QED
    BY <2>1, EndStep
<1>6. CASE ReserveAccepted \/ ReserveFails
  <2>1. account[id] # NoAccount /\ child[id] = "none"
    BY <1>6 DEF ReserveAccepted, ReserveFails, Inv, CommandInv
  <2> QED
    BY <1>1, <1>2, <1>6, <1>t, <2>1 DEF ReserveAccepted, ReserveFails
<1>7. CASE Rollback \/ StopReleases \/ StopReleaseFails
  <2>1. child[id] # "running"
    BY <1>7 DEF Rollback, StopReleases, StopReleaseFails, Inv, CommandInv
  <2>2. /\ Answered(id, NoAccount) \/ Unanswered(id, NoAccount)
        /\ UNCHANGED <<account, child, app>>
    BY <1>7 DEF Rollback, StopReleases, StopReleaseFails, Release
  <2> QED
    BY <1>2, <1>t, <2>1, <2>2
<1>8. CASE LaunchRefused \/ LaunchFails \/ StopRemoves
  BY <1>1, <1>8 DEF LaunchRefused, LaunchFails, StopRemoves
<1>9. CASE StopKills
  <2>1. /\ child[id] # "none" /\ child' = [child EXCEPT ![id] = "exited"]
        /\ UNCHANGED <<reserved, account, app>>
    BY <1>9 DEF StopKills, Inv, CommandInv
  <2> QED
    BY <1>t, <2>1, EndStep
<1>10. ASSUME NEW l \in Listers, ListStep(l) PROVE PoolStep
  <2>1. ASSUME NEW i \in Instances, ListReleases(l, i) PROVE PoolStep
    <3>1. child[i] # "running"
      BY <2>1 DEF ListReleases, Inv, ListInv
    <3> QED
      BY <1>2, <2>1, <3>1 DEF ListReleases, Release
  <2>2. CASE ListReads(l) \/ ListReturns(l)
    BY <1>1, <2>2 DEF ListReads, ListReturns
  <2> QED
    BY <1>10, <2>1, <2>2 DEF ListStep
<1>11. CASE ExitStep
  <2>1. CASE ExitBegins
    <3>1. /\ app = "up" /\ app' = "closing" /\ UNCHANGED <<reserved, account, child>>
      BY <2>1 DEF ExitBegins
    <3>2. Lent' = Lent /\ Ended' = Ended /\ Withheld' = Withheld
      BY <3>1 DEF Lent, Running, Ended, Withheld
    <3>3. Pool!Close
      BY <3>1, <3>2 DEF Pool!Close, Ended
    <3> QED
      BY <3>3 DEF PoolStep, Pool!Next
  <2>2. ASSUME NEW i \in Instances, ExitStops(i) PROVE PoolStep
    <3>1. UNCHANGED <<reserved, account, app>>
      BY <2>2 DEF ExitStops
    <3>2. CASE held[i] = "absent"
      BY <1>1, <2>2, <3>1, <3>2 DEF ExitStops
    <3>3. CASE held[i] # "absent"
      <4>1. child[i] # "none" /\ child' = [child EXCEPT ![i] = "exited"]
        BY <2>2, <3>3 DEF ExitStops, Inv, MapInv
      <4> QED
        BY <3>1, <4>1, EndStep
    <3> QED
      BY <3>2, <3>3
  <2>3. CASE ExitEnds
    BY <1>1, <2>3 DEF ExitEnds
  <2> QED
    BY <1>11, <2>1, <2>2, <2>3 DEF ExitStep
<1>12. CASE UNCHANGED vars
  BY <1>1, <1>12 DEF vars
<1> QED
  BY <1>3, <1>4, <1>5, <1>6, <1>7, <1>8, <1>9, <1>10, <1>11, <1>12, LaunchIsBegin
     DEF Next, ClickStep, CommandStep

\* The launcher, its lists and the reservations at the gateway implement the
\* pool of accounts, whatever interleaves and whichever calls fail.
THEOREM PoolImplemented == Spec => ImplementsAccountPool
<1>1. Init => Pool!Init /\ ReservedInv
  BY DEF Init, Pool!Init, Lent, Running, Withheld, ReservedInv
<1>2. Spec => []ReservedInv
  BY <1>1, ReservedNext, Invariance, PTL DEF Spec
<1>3. Inv /\ ReservedInv /\ [Next]_vars => [Pool!Next]_(Pool!vars)
  BY NextIsPoolStep DEF PoolStep
<1> QED
  BY <1>1, <1>2, <1>3, Invariance, PTL DEF Spec, ImplementsAccountPool, Pool!Spec

-----------------------------------------------------------------------------
(* Accounts come back.                                                     *)

\* An account that is held is a running instance's, or a command or a list is on
\* its way to release it; a list that is over has nothing left to release, nor has
\* stop_all anything to stop before the exit.
PendingInv ==
    app = "up" =>
        /\ doomed = {}
        /\ \A l \in Listers : lpc[l] = "idle" => todo[l] = {}
        /\ \A i \in Instances \ lost : reserved[i] # NoAccount =>
              \/ held[i] = "Running"
              \/ id = i /\ pc \in {"launch", "rollback", "kill", "release"}
              \/ \E l \in Listers : i \in todo[l]

\* What a call that releases id i leaves behind.
LEMMA GatewayCall ==
  ASSUME TypeOK, NEW i \in Instances, Answered(i, NoAccount) \/ Unanswered(i, NoAccount)
  PROVE  /\ lost \subseteq lost'
         /\ i \in lost' \/ reserved'[i] = NoAccount
         /\ \A j \in Instances \ {i} : reserved'[j] = reserved[j]
  BY DEF TypeOK, Answered, Unanswered

LEMMA PendingNext == Inv /\ PendingInv /\ [Next]_vars => PendingInv'
<1> SUFFICES ASSUME Inv, PendingInv, [Next]_vars, app' = "up" PROVE PendingInv'
  BY DEF PendingInv
<1> USE DEF gatewayVars, launcherVars, commandVars, listVars, exitVars
<1>0. TypeOK
  BY DEF Inv
<1>1. ASSUME NEW k \in Instances, ChildExits(k) PROVE PendingInv'
  BY <1>1 DEF ChildExits, PendingInv
<1>2. ASSUME NEW k \in Instances, ClickStop(k) \/ \E a \in Accounts : ClickLaunch(k, a)
      PROVE  PendingInv'
  BY <1>2 DEF ClickStop, ClickLaunch, PendingInv
<1>3. CASE ReserveAccepted
  BY <1>0, <1>3 DEF ReserveAccepted, Answered, PendingInv, TypeOK
<1>4. CASE ReserveFails
  <2>1. /\ pc = "reserve" /\ pc' = "idle" /\ UNCHANGED <<held, id, lpc, todo, app, doomed>>
        /\ \/ UNCHANGED <<reserved, lost>>
           \/ /\ lost' = lost \cup {id}
              /\ reserved' \in {reserved, [reserved EXCEPT ![id] = account[id]]}
    BY <1>4 DEF ReserveFails, Unanswered, Return
  <2>2. lost \subseteq lost'
    BY <2>1
  <2>3. \A i \in Instances \ lost' : reserved'[i] = reserved[i]
    BY <1>0, <2>1 DEF TypeOK
  <2> QED
    BY <2>1, <2>2, <2>3 DEF PendingInv
<1>5. CASE Launch
  BY <1>0, <1>5 DEF Launch, PendingInv, TypeOK
<1>6. CASE LaunchRefused \/ LaunchFails
  BY <1>6 DEF LaunchRefused, LaunchFails, PendingInv
<1>7. CASE Rollback \/ StopReleases \/ StopReleaseFails
  <2>1. /\ Answered(id, NoAccount) \/ Unanswered(id, NoAccount)
        /\ UNCHANGED <<held, id, lpc, todo, app, doomed>>
    BY <1>7 DEF Rollback, StopReleases, StopReleaseFails, Release, Return
  <2>2. /\ lost \subseteq lost'
        /\ id \in lost' \/ reserved'[id] = NoAccount
        /\ \A i \in Instances \ {id} : reserved'[i] = reserved[i]
    <3>1. id \in Instances
      BY <1>0 DEF TypeOK
    <3> QED
      BY <1>0, <2>1, <3>1, GatewayCall
  <2>3. ASSUME NEW i \in Instances \ lost', reserved'[i] # NoAccount
        PROVE  held'[i] = "Running" \/ \E l \in Listers : i \in todo'[l]
    <3>1. i # id /\ i \in Instances \ lost /\ reserved[i] # NoAccount
      BY <2>2, <2>3
    <3> QED
      BY <2>1, <3>1 DEF PendingInv
  <2> QED
    BY <2>1, <2>3 DEF PendingInv
<1>8. CASE StopRemoves
  <2>1. /\ held' = [held EXCEPT ![id] = "absent"] /\ pc' \in {"release", "kill"}
        /\ pc = "remove" /\ UNCHANGED <<reserved, lost, id, lpc, todo, app, doomed>>
    BY <1>8 DEF StopRemoves
  <2> QED
    BY <1>0, <2>1 DEF PendingInv, TypeOK
<1>9. CASE StopKills
  BY <1>9 DEF StopKills, PendingInv
<1>10. ASSUME NEW l \in Listers, ListReads(l) PROVE PendingInv'
  <2>1. /\ held' = Reaped /\ todo' = [todo EXCEPT ![l] = Crashed(Reaped)]
        /\ lpc' = [lpc EXCEPT ![l] = "release"] /\ lpc[l] = "idle"
        /\ UNCHANGED <<reserved, lost, pc, id, app, doomed>>
    BY <1>10 DEF ListReads
  <2>2. \A i \in Instances : held[i] = "Running" => Reaped[i] = "Running" \/ i \in Crashed(Reaped)
    BY DEF Reaped, Crashed
  <2>3. app = "up" /\ todo[l] = {}
    BY <2>1 DEF PendingInv
  <2>4. todo' [l] = Crashed(Reaped) /\ \A m \in Listers \ {l} : todo'[m] = todo[m]
    BY <1>0, <2>1 DEF TypeOK
  <2>5. \A m \in Listers : lpc'[m] = "idle" => todo'[m] = {}
    BY <1>0, <2>1, <2>3, <2>4 DEF PendingInv, TypeOK
  <2> HIDE DEF Reaped, Crashed
  <2> QED
    BY <2>1, <2>2, <2>3, <2>4, <2>5 DEF PendingInv
<1>11. ASSUME NEW l \in Listers, NEW k \in Instances, ListReleases(l, k) PROVE PendingInv'
  <2>1. /\ todo' = [todo EXCEPT ![l] = todo[l] \ {k}]
        /\ Answered(k, NoAccount) \/ Unanswered(k, NoAccount)
        /\ UNCHANGED <<held, pc, id, lpc, app, doomed>>
    BY <1>11 DEF ListReleases, Release
  <2>0. /\ lost \subseteq lost'
        /\ k \in lost' \/ reserved'[k] = NoAccount
        /\ \A i \in Instances \ {k} : reserved'[i] = reserved[i]
    BY <1>0, <2>1, GatewayCall
  <2>2. /\ \A m \in Listers : todo'[m] \subseteq todo[m]
        /\ \A i \in Instances \ {k} : /\ reserved'[i] = reserved[i]
                                      /\ \A m \in Listers : i \in todo[m] => i \in todo'[m]
        /\ k \in lost' \/ reserved'[k] = NoAccount
    BY <1>0, <2>0, <2>1 DEF TypeOK
  <2>3. \A m \in Listers : lpc'[m] = "idle" => todo'[m] = {}
    BY <2>1, <2>2 DEF PendingInv
  <2>4. ASSUME NEW i \in Instances \ lost', reserved'[i] # NoAccount
        PROVE  \/ held'[i] = "Running"
               \/ id' = i /\ pc' \in {"launch", "rollback", "kill", "release"}
               \/ \E m \in Listers : i \in todo'[m]
    <3>1. i # k /\ i \in Instances \ lost /\ reserved[i] # NoAccount
      BY <2>0, <2>1, <2>2, <2>4
    <3> QED
      BY <2>1, <2>2, <3>1 DEF PendingInv
  <2> QED
    BY <2>1, <2>3, <2>4 DEF PendingInv
<1>12. ASSUME NEW l \in Listers, ListReturns(l) PROVE PendingInv'
  <2>1. /\ todo[l] = {} /\ lpc' = [lpc EXCEPT ![l] = "idle"]
        /\ UNCHANGED <<reserved, lost, held, id, todo, app, doomed>>
        /\ (pc' = pc) \/ (l = "command" /\ lpc[l] = "release")
    BY <1>12 DEF ListReturns, Return
  <2>2. pc' = pc \/ pc = "relist"
    BY <2>1 DEF Inv, CommandInv
  <2> QED
    BY <1>0, <2>1, <2>2 DEF PendingInv, TypeOK
<1>13. CASE ExitStep
  <2>1. ASSUME NEW k \in Instances, ExitStops(k) PROVE FALSE
    BY <2>1 DEF ExitStops, PendingInv
  <2> QED
    BY <1>13, <2>1 DEF ExitStep, ExitBegins, ExitEnds
<1>14. CASE UNCHANGED vars
  BY <1>14 DEF vars, PendingInv
<1> QED
  BY <1>1, <1>2, <1>3, <1>4, <1>5, <1>6, <1>7, <1>8, <1>9, <1>10, <1>11, <1>12, <1>13, <1>14
  DEF Next, ClickStep, CommandStep, ListStep

\* Accounts come back: once the commands and the lists are done, and unless a
\* call to the gateway went wrong, only an instance the launcher takes for
\* running holds an account.
THEOREM AccountsComeBack == Spec => []ReleasedAfterExit
<1>1. Init => PendingInv
  BY DEF Init, PendingInv
<1>2. PendingInv => ReleasedAfterExit
  BY DEF PendingInv, ReleasedAfterExit, Idle
<1>3. Spec => []PendingInv
  BY <1>1, PendingNext, Invariance, PTL DEF Spec
<1> QED
  BY <1>2, <1>3, PTL
=============================================================================
