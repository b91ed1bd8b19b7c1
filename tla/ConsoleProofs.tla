------------------------------ MODULE ConsoleProofs ------------------------------
(***************************************************************************)
(* Proofs about the console's connection: the polling hook alone, and the  *)
(* settings form composed with it, for any number of connections, rounds   *)
(* and reads in flight, changes, failures and events.                      *)
(***************************************************************************)
EXTENDS Console, TLAPS

-----------------------------------------------------------------------------
(* The polling hook: its invariant.                                        *)

Rounds == [Slots -> Round]

\* An answer on display is no newer than the data.
Seen(x) == x.saw <= version /\ (x.c = 0 => x.saw = 0)

\* Only the round begun last counts, and unless a handler of a replaced
\* connection has begun it, it is the connection's own.
FreshInv ==
    /\ \A s, t \in Slots : rounds[s].fresh /\ rounds[t].fresh => s = t
    /\ \A s \in Slots : rounds[s].fresh => rounds[s].c \in Clients
    /\ ~ strayed => \A s \in Slots : rounds[s].fresh => rounds[s].c = clients

\* The answer that counts is not older than what it will replace.
SawInv ==
    /\ Seen(stats) /\ Seen(inventory) /\ Seen(tail)
    /\ \A s \in Slots :
          /\ rounds[s].fresh => rounds[s].saw <= version
          /\ rounds[s].fresh /\ rounds[s].at = "stats back" =>
                stats.saw <= rounds[s].saw
          /\ rounds[s].fresh /\ rounds[s].at = "extras back" =>
                inventory.saw <= rounds[s].saw /\ tail.saw <= rounds[s].saw

\* The edit on display is part of the data, and what a round has on its way that
\* counts is no older than an account's disabling on display.
PatchInv ==
    /\ patch.saw <= version
    /\ patch.by = "disable" =>
          \A s \in Slots : rounds[s].fresh /\ rounds[s].at = "extras back" =>
             patch.saw <= rounds[s].saw

PollingInv == TypeOK /\ FreshInv /\ SawInv /\ PatchInv /\ ShownIsOfTheConnection

\* The saves that handlers have been answered are part of the data.
WaitInv == \A w \in awaiting : w.saw <= version

HookInv == PollingInv /\ WaitInv

-----------------------------------------------------------------------------
(* The helpers.                                                            *)

LEMMA IdleType == Idle \in Round
  BY PollingAssumption DEF Idle, Round, Stages, Callers

LEMMA OutdatedFacts ==
  ASSUME NEW rs \in Rounds
  PROVE  Outdated(rs) \in Rounds /\ \A t \in Slots : ~ Outdated(rs)[t].fresh
  BY DEF Outdated, Rounds, Round

LEMMA CancelledFacts ==
  ASSUME NEW rs \in Rounds
  PROVE  Cancelled(rs) \in Rounds
  BY DEF Cancelled, Rounds, Round, Callers

LEMMA OrphanedFacts ==
  ASSUME NEW rs \in Rounds
  PROVE  Orphaned(rs) \in Rounds /\ \A t \in Slots : ~ Orphaned(rs)[t].fresh
  BY OutdatedFacts, CancelledFacts DEF Orphaned

\* After a round has begun no other one counts.
LEMMA BegunFacts ==
  ASSUME NEW rs \in Rounds, NEW s \in Slots, NEW c \in Clients, NEW by \in Callers
  PROVE  /\ Begun(rs, s, c, by) \in Rounds
         /\ \A t \in Slots : Begun(rs, s, c, by)[t].fresh =>
               /\ t = s /\ Begun(rs, s, c, by)[t].c = c
               /\ Begun(rs, s, c, by)[t].at = "stats" /\ Begun(rs, s, c, by)[t].saw = 0
<1> DEFINE new == [at |-> "stats", c |-> c, by |-> by, fresh |-> TRUE, saw |-> 0]
<1>1. new \in Round
  BY PollingAssumption DEF Round, Stages, Clients
<1>2. Begun(rs, s, c, by) = [Outdated(rs) EXCEPT ![s] = new]
  BY DEF Begun
<1> HIDE DEF new
<1>3. Begun(rs, s, c, by) \in Rounds
  BY <1>1, <1>2, OutdatedFacts DEF Rounds
<1>4. /\ Begun(rs, s, c, by)[s] = new
      /\ \A t \in Slots \ {s} : ~ Begun(rs, s, c, by)[t].fresh
  BY <1>2, OutdatedFacts DEF Rounds
<1>5. new.c = c /\ new.at = "stats" /\ new.saw = 0
  BY DEF new
<1> QED
  BY <1>3, <1>4, <1>5

\* The numbers that answers are compared by.
LEMMA NatFacts ==
  ASSUME TypeOK
  PROVE  /\ version \in Nat /\ 0 <= version
         /\ stats.saw \in Nat /\ inventory.saw \in Nat /\ tail.saw \in Nat
         /\ patch.saw \in Nat
         /\ \A s \in Slots : rounds[s].saw \in Nat
         /\ \A w \in awaiting : w.saw \in Nat /\ w.c \in Clients
<1>1. stats \in Answers /\ inventory \in Answers /\ tail \in Answers
  BY DEF TypeOK
<1>2. \A n \in 0..MaxChanges : n \in Nat
  BY PollingAssumption
<1> QED
  BY <1>1, <1>2 DEF TypeOK, Answers, Patches, Round

LEMMA NoClientZero == 0 \notin Clients
  BY PollingAssumption DEF Clients

LEMMA NothingFacts == Nothing.c = 0 /\ Nothing.saw = 0
  BY DEF Nothing

LEMMA UnpatchedFacts ==
  Unpatched \in Patches /\ Unpatched.c = 0 /\ Unpatched.saw = 0 /\ Unpatched.by = "none"
  BY PollingAssumption DEF Unpatched, Patches

\* An edit is shown, or not: as data that is there.
LEMMA PatchedFacts ==
  ASSUME TypeOK, NEW w \in awaiting, w.what \in Edits, Patched(w)
  PROVE  /\ patch' \in Patches
         /\ patch' = patch \/ (patch'.saw = w.saw /\ patch'.c = w.c /\ patch'.by = w.what)
<1> DEFINE edit == [c |-> w.c, saw |-> w.saw, by |-> w.what]
<1>1. w.c \in 0..MaxClients /\ w.saw \in 0..MaxChanges
  BY PollingAssumption DEF TypeOK, Clients
<1>2. edit \in Patches /\ edit.c = w.c /\ edit.saw = w.saw /\ edit.by = w.what
  BY <1>1 DEF Patches
<1> HIDE DEF edit
<1>3. patch' = edit \/ patch' = patch
  BY DEF Patched, edit
<1> QED
  BY <1>2, <1>3 DEF TypeOK

-----------------------------------------------------------------------------
(* Steps that begin no round, in terms of what they do to the rounds.      *)

\* The answers on display stay, and no round becomes fresh or changes while it is;
\* an edit that is no disabling may be shown.
LEMMA QuietStep ==
  ASSUME PollingInv, UNCHANGED <<clients, stats, inventory, tail>>, version' >= version,
         rounds' \in Rounds, TypeOK', strayed => strayed',
         patch' = patch \/ (patch'.saw <= version /\ patch'.by # "disable"),
         patch' = patch \/ (~ strayed' => patch'.c = clients),
         \A s \in Slots : rounds'[s].fresh => rounds'[s] = rounds[s]
  PROVE  PollingInv' /\ StepsForward
<1>1. FreshInv'
  BY DEF PollingInv, FreshInv
<1>2. SawInv' /\ StepsForward
  <2>1. /\ stats' = stats /\ inventory' = inventory /\ tail' = tail
        /\ version \in Nat /\ version' \in Nat
        /\ stats.saw \in Nat /\ inventory.saw \in Nat /\ tail.saw \in Nat
    BY PollingAssumption DEF PollingInv, TypeOK, Answers
  <2>2. Seen(stats)' /\ Seen(inventory)' /\ Seen(tail)'
    <3>1. version <= version' /\ Seen(stats) /\ Seen(inventory) /\ Seen(tail)
      BY <2>1 DEF PollingInv, SawInv
    <3>2. ASSUME NEW x, x.saw \in Nat, Seen(x) PROVE x.saw <= version' /\ (x.c = 0 => x.saw = 0)
      BY <2>1, <3>1, <3>2 DEF Seen
    <3> QED
      BY <2>1, <3>1, <3>2 DEF Seen
  <2>3. \A s \in Slots : rounds'[s].fresh =>
           /\ rounds[s].at = "stats back" => stats'.saw <= rounds'[s].saw
           /\ rounds[s].at = "extras back" =>
                 inventory'.saw <= rounds'[s].saw /\ tail'.saw <= rounds'[s].saw
    BY <2>1 DEF PollingInv, SawInv
  <2>5. \A s \in Slots : rounds'[s].fresh => rounds'[s].saw <= version'
    <3> SUFFICES ASSUME NEW s \in Slots, rounds'[s].fresh PROVE rounds'[s].saw <= version'
      OBVIOUS
    <3>1. rounds'[s] = rounds[s] /\ rounds[s].fresh
      OBVIOUS
    <3>2. rounds[s].saw \in Nat
      BY NatFacts DEF PollingInv
    <3>3. rounds[s].saw <= version
      BY <3>1 DEF PollingInv, SawInv
    <3> QED
      BY <2>1, <3>1, <3>2, <3>3
  <2>4. SawInv'
    BY <2>2, <2>3, <2>5 DEF SawInv
  <2> QED
    BY <2>1, <2>4 DEF StepsForward, Older
<1>3. ShownIsOfTheConnection'
  BY DEF PollingInv, ShownIsOfTheConnection
<1>4. PatchInv'
  <2>1. patch'.saw <= version'
    <3>1. patch.saw <= version
      BY DEF PollingInv, PatchInv
    <3>2. patch'.saw <= version
      BY <3>1
    <3>3. patch'.saw \in Nat /\ version \in Nat /\ version' \in Nat
      BY NatFacts, PollingAssumption DEF PollingInv, TypeOK, Patches
    <3> QED
      BY <3>2, <3>3
  <2>2. patch'.by = "disable" => patch' = patch
    OBVIOUS
  <2> QED
    BY <2>1, <2>2 DEF PollingInv, PatchInv
<1> QED
  BY <1>1, <1>2, <1>3, <1>4 DEF PollingInv

\* A round begins; the answers on display stay.
LEMMA BeginStep ==
  ASSUME PollingInv, NEW rs \in Rounds, NEW s \in Slots, NEW c \in Clients, NEW by \in Callers,
         rounds' = Begun(rs, s, c, by), UNCHANGED <<clients, version, stats, inventory, tail>>,
         patch' = patch \/ (patch'.saw <= version /\ patch'.c = c),
         strayed' = (strayed \/ c # clients), TypeOK'
  PROVE  PollingInv' /\ StepsForward
<1>b. \A t \in Slots : rounds'[t].fresh =>
        t = s /\ rounds'[t].c = c /\ rounds'[t].at = "stats"
  BY BegunFacts
<1>1. FreshInv'
  BY <1>b DEF FreshInv
<1>2. SawInv' /\ StepsForward
  <2>1. /\ stats' = stats /\ inventory' = inventory /\ tail' = tail /\ version' = version
        /\ version \in Nat
        /\ stats.saw \in Nat /\ inventory.saw \in Nat /\ tail.saw \in Nat
    BY NatFacts DEF PollingInv
  <2>2. \A t \in Slots : rounds'[t].fresh => rounds'[t].at = "stats" /\ rounds'[t].saw = 0
    BY BegunFacts
  <2>3. \A t \in Slots : rounds'[t].fresh =>
          rounds'[t].saw <= version' /\ rounds'[t].at \notin {"stats back", "extras back"}
    <3>1. 0 <= version'
      BY <2>1, NatFacts DEF PollingInv
    <3> QED
      BY <2>2, <3>1
  <2>4. Seen(stats)' /\ Seen(inventory)' /\ Seen(tail)'
    <3>1. Seen(stats) /\ Seen(inventory) /\ Seen(tail)
      BY DEF PollingInv, SawInv
    <3> QED
      BY <2>1, <3>1 DEF Seen
  <2>5. SawInv'
    BY <2>3, <2>4 DEF SawInv
  <2> QED
    BY <2>1, <2>5 DEF StepsForward, Older
<1>3. ShownIsOfTheConnection'
  BY DEF PollingInv, ShownIsOfTheConnection
<1>4. PatchInv'
  BY <1>b DEF PollingInv, PatchInv
<1> QED
  BY <1>1, <1>2, <1>3, <1>4 DEF PollingInv

-----------------------------------------------------------------------------
(* Types.                                                                  *)

LEMMA AnswerType == ASSUME TypeOK, NEW s \in Slots PROVE Answer(s) \in Answers
  BY DEF TypeOK, Answer, Answers, Round

LEMMA LandsType == ASSUME TypeOK, NEW s \in Slots, Lands(s) PROVE TypeOK'
<1> USE PollingAssumption DEF TypeOK, envVars, shownVars, stateVars, boundVars
<1>1. ASSUME Return(s) PROVE rounds' \in [Slots -> Round] /\ tick' \in {"armed", "round"}
  BY <1>1, IdleType DEF Return
<1>2. ASSUME NEW stage \in Stages, Goes(s, stage)
      PROVE  rounds' \in [Slots -> Round] /\ tick' \in {"armed", "round"}
  BY <1>2 DEF Goes, Round
<1>3. ASSUME Fails PROVE failures' \in 0..MaxFailures
  BY <1>3 DEF Fails
<1>4. Nothing \in Answers
  BY DEF Nothing, Answers
<1>5. CASE Handles(s)
  BY <1>2, <1>5 DEF Handles, Stages
<1>6. CASE Dropped(s)
  BY <1>1, <1>6 DEF Dropped
<1>7. CASE StatsLand(s)
  <2>1. rounds' \in [Slots -> Round]
    BY <1>7 DEF StatsLand, Round, Stages
  <2> QED
    BY <1>7, <2>1, AnswerType DEF StatsLand, LoadStates
<1>8. CASE StatsFail(s)
  BY <1>1, <1>3, <1>8 DEF StatsFail, FailedState, LoadStates
<1>9. CASE ExtrasLand(s)
  BY <1>1, <1>3, <1>4, <1>9, AnswerType, UnpatchedFacts DEF ExtrasLand
<1>10. CASE ExtrasFail(s)
  BY <1>1, <1>4, <1>10 DEF ExtrasFail
<1> QED
  BY <1>5, <1>6, <1>7, <1>8, <1>9, <1>10 DEF Lands

LEMMA BeginRoundType ==
  ASSUME TypeOK, NEW c \in Clients, NEW by \in Callers, BeginRound(c, by)
  PROVE  /\ rounds' \in [Slots -> Round] /\ loadState' \in LoadStates
         /\ strayed' \in BOOLEAN
         /\ UNCHANGED <<firstLoad, lifecycle>>
<1>1. PICK s \in Slots : rounds' = Begun(rounds, s, c, by)
  BY DEF BeginRound
<1>2. rounds' \in [Slots -> Round]
  BY <1>1, BegunFacts DEF TypeOK, Rounds
<1> QED
  BY <1>2 DEF BeginRound, TypeOK, LoadStates

LEMMA HandlerType ==
  ASSUME TypeOK, NEW w \in awaiting,
         \/ Refreshes(w) \/ GatewayStopped(w) \/ GatewayStarted(w) \/ WaitFails(w)
         \/ DisableShown(w) \/ EditShown(w)
  PROVE  TypeOK'
<1> USE PollingAssumption
    DEF TypeOK, envVars, shownVars, stateVars, boundVars
<1> DEFINE Waiting == [what : Waits, c : Clients, saw : 0..MaxChanges]
<1>1. w.c \in Clients /\ awaiting \ {w} \subseteq Waiting
  OBVIOUS
<1>2. CASE Refreshes(w)
  <2>1. PICK by \in Callers : BeginRound(w.c, by)
    BY <1>2 DEF Refreshes, Callers
  <2>2. /\ rounds' \in [Slots -> Round] /\ loadState' \in LoadStates
        /\ strayed' \in BOOLEAN
        /\ UNCHANGED <<firstLoad, lifecycle>>
    BY <1>1, <2>1, BeginRoundType
  <2> QED
    BY <1>1, <1>2, <2>2 DEF Refreshes
<1>3. CASE GatewayStopped(w)
  BY <1>1, <1>3 DEF GatewayStopped, LoadStates
<1>4. CASE GatewayStarted(w)
  <2>1. PICK s \in Slots : rounds' = Begun(rounds, s, w.c, "other")
    BY <1>4 DEF GatewayStarted
  <2>2. rounds' \in [Slots -> Round]
    BY <1>1, <2>1, BegunFacts DEF Rounds, Callers
  <2> QED
    BY <1>1, <1>4, <2>2 DEF GatewayStarted, LoadStates
<1>5. CASE WaitFails(w)
  BY <1>1, <1>5 DEF WaitFails
<1>6. CASE DisableShown(w)
  <2>1. "other" \in Callers /\ BeginRound(w.c, "other")
    BY <1>6 DEF DisableShown, Callers
  <2>2. /\ rounds' \in [Slots -> Round] /\ loadState' \in LoadStates
        /\ strayed' \in BOOLEAN
        /\ UNCHANGED <<firstLoad, lifecycle>>
    BY <1>1, <2>1, BeginRoundType
  <2>3. patch' \in Patches
    BY <1>6, PatchedFacts DEF DisableShown, Edits
  <2> QED
    BY <1>1, <1>6, <2>2, <2>3 DEF DisableShown
<1>7. CASE EditShown(w)
  <2>1. patch' \in Patches
    BY <1>7, PatchedFacts DEF EditShown, Edits
  <2>2. [what |-> "visible", c |-> w.c, saw |-> 0] \in Waiting
    BY <1>1 DEF Waits
  <2>3. awaiting' \subseteq Waiting
    BY <1>1, <1>7, <2>2 DEF EditShown
  <2>4. strayed' \in BOOLEAN
    BY <1>7 DEF EditShown
  <2> QED
    BY <1>7, <2>1, <2>3, <2>4 DEF EditShown
<1> QED
  BY <1>2, <1>3, <1>4, <1>5, <1>6, <1>7

LEMMA TickType == TypeOK /\ Tick => TypeOK'
<1> SUFFICES ASSUME TypeOK, Tick PROVE TypeOK'
  OBVIOUS
<1>1. clients \in Clients /\ "tick" \in Callers /\ BeginRound(clients, "tick")
  BY DEF TypeOK, Tick, Callers
<1>2. /\ rounds' \in [Slots -> Round] /\ loadState' \in LoadStates
      /\ strayed' \in BOOLEAN
      /\ UNCHANGED <<firstLoad, lifecycle>>
  BY <1>1, BeginRoundType
<1> QED
  BY <1>2 DEF Tick, TypeOK, envVars, shownVars, boundVars

LEMMA UserType == TypeOK /\ User => TypeOK'
<1> SUFFICES ASSUME TypeOK, User PROVE TypeOK'
  OBVIOUS
<1> USE PollingAssumption
    DEF TypeOK, envVars, shownVars, stateVars, boundVars
<1>1. ASSUME Event PROVE events' \in 0..MaxEvents
  BY <1>1 DEF Event
<1>2. ASSUME NEW what \in Waits, Awaits(what)
      PROVE  awaiting' \subseteq [what : Waits, c : Clients, saw : 0..MaxChanges]
  BY <1>2 DEF Awaits
<1>3. CASE ClickRefresh
  BY <1>1, <1>2, <1>3 DEF ClickRefresh, Waits
<1>4. CASE Focus
  <2>1. clients \in Clients /\ "other" \in Callers /\ BeginRound(clients, "other")
    BY <1>4 DEF Focus, Callers
  <2>2. /\ rounds' \in [Slots -> Round] /\ loadState' \in LoadStates
        /\ strayed' \in BOOLEAN
        /\ UNCHANGED <<firstLoad, lifecycle>>
    BY <2>1, BeginRoundType
  <2> QED
    BY <1>1, <1>4, <2>2 DEF Focus
<1>5. CASE VisibilityChanges
  BY <1>1, <1>2, <1>5 DEF VisibilityChanges, Waits
<1>6. CASE ToggleGateway \/ RetryGateway
  BY <1>1, <1>2, <1>6 DEF ToggleGateway, RetryGateway, Waits
<1>7. CASE Connect
  <2>1. clients' \in Clients
    BY <1>7 DEF Connect, Clients
  <2>2. Orphaned(rounds) \in Rounds /\ Nothing \in Answers
    BY OrphanedFacts DEF Rounds, Nothing, Answers
  <2>3. rounds' \in [Slots -> Round] /\ tick' \in {"armed", "round"}
    <3>1. CASE hidden
      BY <1>7, <2>2, <3>1 DEF Connect, Rounds
    <3>2. CASE ~ hidden
      <4>1. PICK s \in Slots : rounds' = Begun(Orphaned(rounds), s, clients', "tick")
        BY <1>7, <3>2 DEF Connect
      <4>2. tick' = "round"
        BY <1>7, <3>2 DEF Connect
      <4> QED
        BY <2>1, <2>2, <4>1, <4>2, BegunFacts DEF Rounds, Callers
    <3> QED
      BY <3>1, <3>2
  <2>4. awaiting' \subseteq [what : Waits, c : Clients, saw : 0..MaxChanges]
    BY <1>7 DEF Connect
  <2> QED
    BY <1>1, <1>7, <2>1, <2>2, <2>3, <2>4, UnpatchedFacts DEF Connect, LoadStates
<1>8. CASE StatusRead
  BY <1>1, <1>8 DEF StatusRead
<1>9. CASE EditAccount
  <2>1. version' \in 0..MaxChanges
    BY <1>9 DEF EditAccount
  <2>2. PICK what \in Edits :
          awaiting' = awaiting \cup {[what |-> what, c |-> clients, saw |-> version']}
    BY <1>9 DEF EditAccount
  <2>3. awaiting' \subseteq [what : Waits, c : Clients, saw : 0..MaxChanges]
    BY <2>1, <2>2 DEF Waits
  <2> QED
    BY <1>1, <1>9, <2>1, <2>3 DEF EditAccount
<1> HIDE DEF TypeOK, envVars, shownVars, stateVars, boundVars
<1> QED
  BY <1>3, <1>4, <1>5, <1>6, <1>7, <1>8, <1>9 DEF User

LEMMA InitType == Init => TypeOK
<1> SUFFICES ASSUME Init PROVE TypeOK
  OBVIOUS
<1>1. Nothing \in Answers /\ {stats, inventory, tail} \subseteq Answers
  BY PollingAssumption DEF Init, Nothing, Answers
<1>2. rounds \in [Slots -> Round]
  BY IdleType DEF Init
<1>3. /\ clients \in Clients /\ version \in 0..MaxChanges
      /\ failures \in 0..MaxFailures /\ events \in 0..MaxEvents
  BY PollingAssumption DEF Init, Clients
<1> QED
  BY <1>1, <1>2, <1>3, UnpatchedFacts DEF Init, TypeOK, LoadStates

LEMMA NextType == TypeOK /\ [Next]_vars => TypeOK'
<1> SUFFICES ASSUME TypeOK, [Next]_vars PROVE TypeOK'
  OBVIOUS
<1>1. CASE DataChanges
  BY <1>1, PollingAssumption
     DEF DataChanges, TypeOK, shownVars, stateVars, boundVars
<1>2. CASE UNCHANGED vars
  BY <1>2 DEF vars, TypeOK, envVars, shownVars, stateVars, boundVars
<1>3. CASE Handlers
  BY <1>3, HandlerType DEF Handlers
<1> QED
  BY <1>1, <1>2, <1>3, TickType, UserType, LandsType DEF Next

\* Every variable keeps its type, whatever the bounds.
THEOREM PollingTypes == Spec => []TypeOK
  BY InitType, NextType, PTL DEF Spec

-----------------------------------------------------------------------------
(* Every step keeps the invariant, and shows nothing older.                *)

\* A round returns: it counts no more, and the others are as they were.
LEMMA ReturnFacts ==
  ASSUME TypeOK, NEW s \in Slots, Return(s)
  PROVE  \A t \in Slots : rounds'[t].fresh => t # s /\ rounds'[t] = rounds[t]
  BY DEF Return, Idle, TypeOK

\* Steps after which no round counts are judged by what they show alone.
LEMMA NoneFreshStep ==
  ASSUME TypeOK', \A t \in Slots : ~ rounds'[t].fresh,
         Seen(stats)', Seen(inventory)', Seen(tail)', patch'.saw <= version',
         ShownIsOfTheConnection'
  PROVE  PollingInv'
  BY DEF PollingInv, FreshInv, SawInv, PatchInv

LEMMA HandlesStep ==
  ASSUME PollingInv, TypeOK', NEW s \in Slots, Handles(s)
  PROVE  PollingInv' /\ StepsForward
<1>1. /\ stats' = stats /\ inventory' = inventory /\ tail' = tail /\ version' = version
      /\ clients' = clients /\ strayed' = strayed /\ patch' = patch
  BY DEF Handles, envVars, shownVars
<1>2. /\ \A t \in Slots : rounds'[t].fresh = rounds[t].fresh /\ rounds'[t].c = rounds[t].c
      /\ \A t \in Slots \ {s} : rounds'[t] = rounds[t]
      /\ rounds'[s].saw = version
  <2>1. PICK stage \in Stages : rounds' = [rounds EXCEPT ![s].at = stage, ![s].saw = version]
    BY DEF Handles, Goes, Stages
  <2> QED
    BY <2>1 DEF PollingInv, TypeOK, Round
<1>3. /\ version \in Nat
      /\ stats.saw \in Nat /\ inventory.saw \in Nat /\ tail.saw \in Nat
  BY NatFacts DEF PollingInv
<1>4. FreshInv'
  BY <1>1, <1>2 DEF PollingInv, FreshInv
<1>5. SawInv'
  <2>1. Seen(stats) /\ Seen(inventory) /\ Seen(tail)
    BY DEF PollingInv, SawInv
  <2>2. /\ stats.saw <= version /\ inventory.saw <= version /\ tail.saw <= version
        /\ version <= version
    BY <1>3, <2>1 DEF Seen
  <2>3. Seen(stats)' /\ Seen(inventory)' /\ Seen(tail)'
    BY <1>1, <2>1 DEF Seen
  <2>4. ASSUME NEW t \in Slots, rounds'[t].fresh
        PROVE  /\ rounds'[t].saw <= version'
               /\ rounds'[t].at = "stats back" => stats'.saw <= rounds'[t].saw
               /\ rounds'[t].at = "extras back" =>
                    inventory'.saw <= rounds'[t].saw /\ tail'.saw <= rounds'[t].saw
    <3>1. CASE t = s
      BY <1>1, <1>2, <2>2, <3>1
    <3>2. CASE t # s
      <4>1. rounds'[t] = rounds[t]
        BY <1>2, <3>2
      <4> QED
        BY <1>1, <2>4, <4>1 DEF PollingInv, SawInv
    <3> QED
      BY <3>1, <3>2
  <2> QED
    BY <2>3, <2>4 DEF SawInv
<1>6. StepsForward
  BY <1>1, <1>3 DEF StepsForward, Older
<1>7. PatchInv'
  <2>1. patch.saw <= version
    BY DEF PollingInv, PatchInv
  <2>2. ASSUME NEW t \in Slots, patch.by = "disable", rounds'[t].fresh,
               rounds'[t].at = "extras back"
        PROVE  patch.saw <= rounds'[t].saw
    BY <1>2, <2>1, <2>2 DEF PollingInv, PatchInv
  <2> QED
    BY <1>1, <2>1, <2>2 DEF PatchInv
<1> QED
  BY <1>1, <1>4, <1>5, <1>6, <1>7 DEF PollingInv, ShownIsOfTheConnection

LEMMA StatsLandStep ==
  ASSUME PollingInv, TypeOK', NEW s \in Slots, StatsLand(s)
  PROVE  PollingInv' /\ StepsForward
<1>1. /\ inventory' = inventory /\ tail' = tail /\ version' = version
      /\ clients' = clients /\ strayed' = strayed /\ patch' = patch
      /\ stats'.c = rounds[s].c /\ stats'.saw = rounds[s].saw
  BY DEF StatsLand, envVars, Answer
<1>2. /\ \A t \in Slots : rounds'[t].fresh = rounds[t].fresh /\ rounds'[t].c = rounds[t].c
      /\ \A t \in Slots : rounds'[t].saw = rounds[t].saw
      /\ rounds'[s].at = "extras" /\ rounds[s].fresh /\ rounds[s].at = "stats back"
  BY DEF StatsLand, Superseded, PollingInv, TypeOK, Round
<1>3. /\ version \in Nat /\ rounds[s].saw \in Nat
      /\ stats.saw \in Nat /\ inventory.saw \in Nat /\ tail.saw \in Nat
  BY NatFacts DEF PollingInv
<1>4. \A t \in Slots : rounds'[t].fresh => t = s
  BY <1>2 DEF PollingInv, FreshInv
<1>5. FreshInv'
  BY <1>1, <1>2 DEF PollingInv, FreshInv
<1>6. stats.saw <= rounds[s].saw /\ rounds[s].saw <= version
  BY <1>2 DEF PollingInv, SawInv
<1>7. rounds[s].c # 0
  BY <1>2, NoClientZero DEF PollingInv, FreshInv
<1>8. SawInv'
  <2>1. Seen(stats)' /\ Seen(inventory)' /\ Seen(tail)'
    BY <1>1, <1>6, <1>7 DEF PollingInv, SawInv, Seen
  <2> QED
    BY <1>1, <1>2, <1>4, <1>6, <2>1 DEF SawInv
<1>9. StepsForward
  BY <1>1, <1>3, <1>6 DEF StepsForward, Older
<1>10. ShownIsOfTheConnection'
  BY <1>1, <1>2 DEF PollingInv, FreshInv, ShownIsOfTheConnection
<1>11. PatchInv'
  BY <1>1, <1>2, <1>4 DEF PollingInv, PatchInv
<1> QED
  BY <1>5, <1>8, <1>9, <1>10, <1>11 DEF PollingInv

LEMMA ExtrasStep ==
  ASSUME PollingInv, TypeOK', NEW s \in Slots, ExtrasLand(s) \/ ExtrasFail(s)
  PROVE  PollingInv' /\ StepsForward
<1>1. /\ stats' = stats /\ version' = version
      /\ clients' = clients /\ strayed' = strayed
      /\ rounds[s].fresh /\ Return(s)
  BY DEF ExtrasLand, ExtrasFail, envVars, Superseded
<1>2. \A t \in Slots : ~ rounds'[t].fresh
  BY <1>1, ReturnFacts DEF PollingInv, FreshInv
<1>3. /\ inventory' = inventory \/ (inventory' = Answer(s) /\ rounds[s].at = "extras back")
      /\ tail' = Nothing \/ (tail' = Answer(s) /\ rounds[s].at = "extras back")
  <2>1. CASE ExtrasLand(s)
    <3>1. tail' \in {Answer(s), Nothing} \/ tail' = Answer(s) \/ tail' = Nothing
      BY <2>1 DEF ExtrasLand
    <3>2. inventory' = inventory \/ inventory' = Answer(s)
      BY <2>1 DEF ExtrasLand
    <3>3. rounds[s].at = "extras back"
      BY <2>1 DEF ExtrasLand
    <3> QED
      BY <3>1, <3>2, <3>3
  <2>2. CASE ExtrasFail(s)
    BY <2>2 DEF ExtrasFail
  <2> QED
    BY <2>1, <2>2
<1>4. /\ version \in Nat /\ rounds[s].saw \in Nat
      /\ stats.saw \in Nat /\ inventory.saw \in Nat /\ tail.saw \in Nat
  BY NatFacts DEF PollingInv
<1>5. /\ rounds[s].saw <= version /\ rounds[s].c # 0
      /\ ~ strayed => rounds[s].c = clients
      /\ rounds[s].at = "extras back" =>
            inventory.saw <= rounds[s].saw /\ tail.saw <= rounds[s].saw
  BY <1>1, NoClientZero DEF PollingInv, FreshInv, SawInv
<1>6. Answer(s).c = rounds[s].c /\ Answer(s).saw = rounds[s].saw
  BY DEF Answer
<1>10. patch' = patch \/ patch' = Unpatched
  BY DEF ExtrasLand, ExtrasFail
<1>11. patch'.saw <= version'
  BY <1>1, <1>4, <1>10, NatFacts, UnpatchedFacts DEF PollingInv, PatchInv
<1>7. Seen(stats)' /\ Seen(inventory)' /\ Seen(tail)'
  <2>1. Seen(Answer(s)) /\ Seen(Nothing)
    BY <1>4, <1>5, <1>6, NatFacts, NothingFacts DEF PollingInv, Seen
  <2>2. Seen(stats) /\ Seen(inventory)
    BY DEF PollingInv, SawInv
  <2> QED
    BY <1>1, <1>3, <2>1, <2>2 DEF Seen
<1>8. ShownIsOfTheConnection'
  BY <1>1, <1>3, <1>5, <1>6, <1>10, NothingFacts, UnpatchedFacts
     DEF PollingInv, ShownIsOfTheConnection
<1>9. StepsForward
  <2>1. ~ Older(stats, stats) /\ ~ Older(inventory, inventory)
    <3>1. \A n \in Nat : ~ (n < n)
      OBVIOUS
    <3> QED
      BY <1>4, <3>1 DEF Older
  <2>2. rounds[s].at = "extras back" =>
          ~ Older(Answer(s), inventory) /\ ~ Older(Answer(s), tail)
    <3>1. \A m, n \in Nat : m <= n => ~ (n < m)
      OBVIOUS
    <3> QED
      BY <1>4, <1>5, <1>6, <3>1 DEF Older
  <2> QED
    BY <1>1, <1>3, <2>1, <2>2 DEF StepsForward
<1> QED
  BY <1>2, <1>7, <1>8, <1>9, <1>11, NoneFreshStep

LEMMA LandsStep ==
  ASSUME PollingInv, TypeOK', NEW s \in Slots, Lands(s)
  PROVE  PollingInv' /\ StepsForward
<1>1. ASSUME Return(s), UNCHANGED <<clients, version, strayed, shownVars>>
      PROVE  PollingInv' /\ StepsForward
  <2>1. \A t \in Slots : rounds'[t].fresh => rounds'[t] = rounds[t]
    BY <1>1, ReturnFacts DEF PollingInv
  <2>2. rounds' \in Rounds /\ version' >= version
    BY <1>1, PollingAssumption DEF PollingInv, TypeOK, Rounds
  <2> QED
    BY <1>1, <2>1, <2>2, QuietStep DEF shownVars
<1>2. CASE Dropped(s)
  BY <1>1, <1>2 DEF Dropped, envVars
<1>3. CASE StatsFail(s)
  BY <1>1, <1>3 DEF StatsFail, envVars
<1> QED
  BY <1>2, <1>3, HandlesStep, StatsLandStep, ExtrasStep DEF Lands

LEMMA ConnectStep ==
  ASSUME PollingInv, TypeOK', Connect
  PROVE  PollingInv' /\ StepsForward
<1>1. /\ stats' = Nothing /\ inventory' = Nothing /\ tail' = Nothing
      /\ strayed' = FALSE /\ version' = version /\ clients' \in Clients
      /\ patch' = Unpatched
  BY DEF Connect, envVars, TypeOK
<1>2. Orphaned(rounds) \in Rounds /\ \A t \in Slots : ~ Orphaned(rounds)[t].fresh
  BY OrphanedFacts DEF PollingInv, TypeOK, Rounds
<1>3. /\ \A t, u \in Slots : rounds'[t].fresh /\ rounds'[u].fresh => t = u
      /\ \A t \in Slots : rounds'[t].fresh =>
            rounds'[t].c = clients' /\ rounds'[t].at = "stats" /\ rounds'[t].saw = 0
  <2>1. CASE hidden
    BY <1>2, <2>1 DEF Connect
  <2>2. CASE ~ hidden
    <3>1. PICK s \in Slots : rounds' = Begun(Orphaned(rounds), s, clients', "tick")
      BY <2>2 DEF Connect
    <3>2. \A t \in Slots : rounds'[t].fresh =>
            t = s /\ rounds'[t].c = clients' /\ rounds'[t].at = "stats" /\ rounds'[t].saw = 0
      <4>1. "tick" \in Callers /\ clients' \in Clients
        BY <1>1 DEF Callers
      <4> HIDE DEF Callers, Clients
      <4>2. PICK c \in Clients : c = clients'
        BY <4>1
      <4>3. PICK rs \in Rounds : rs = Orphaned(rounds)
        BY <1>2
      <4> QED
        BY <3>1, <4>1, <4>2, <4>3, BegunFacts
    <3> QED
      BY <3>2
  <2> QED
    BY <2>1, <2>2
<1>4. Nothing.c = 0 /\ Nothing.saw = 0 /\ version \in Nat
  BY NatFacts, NothingFacts DEF PollingInv
<1>5. FreshInv'
  BY <1>1, <1>3 DEF FreshInv
<1>6. Seen(stats)' /\ Seen(inventory)' /\ Seen(tail)'
  <2>1. stats'.saw <= version /\ inventory'.saw <= version /\ tail'.saw <= version
    BY <1>1, <1>4, NatFacts DEF PollingInv
  <2> QED
    BY <1>1, <1>4, <2>1 DEF Seen
<1>7. SawInv'
  <2>1. \A t \in Slots : rounds'[t].fresh =>
          rounds'[t].saw <= version' /\ rounds'[t].at \notin {"stats back", "extras back"}
    <3>1. 0 <= version'
      BY <1>1, NatFacts DEF PollingInv
    <3> QED
      BY <1>3, <3>1
  <2> QED
    BY <1>6, <2>1 DEF SawInv
<1>8. StepsForward
  <2>1. \A x \in Answers : Seen(x) => ~ Older(Nothing, x)
    BY <1>4 DEF Seen, Older
  <2> QED
    BY <1>1, <2>1 DEF PollingInv, TypeOK, SawInv, StepsForward
<1>9. ShownIsOfTheConnection'
  BY <1>1, <1>4, UnpatchedFacts DEF ShownIsOfTheConnection
<1>10. PatchInv'
  BY <1>1, NatFacts, UnpatchedFacts DEF PollingInv, PatchInv
<1> QED
  BY <1>5, <1>7, <1>8, <1>9, <1>10 DEF PollingInv

\* The steps of handlers and of the user that leave the connection and what is
\* shown alone: they begin a round or touch none.
LEMMA CallerStep ==
  ASSUME HookInv, TypeOK', Tick \/ Handlers \/ User, ~ Connect
  PROVE  PollingInv' /\ StepsForward
<1>0. /\ clients \in Clients /\ rounds \in Rounds
      /\ version \in Nat /\ version' \in Nat /\ PollingInv
      /\ \A w \in awaiting : w.c \in Clients
  BY PollingAssumption DEF HookInv, PollingInv, TypeOK, Rounds
<1>1. ASSUME NEW c \in Clients, NEW by \in Callers, BeginRound(c, by),
             UNCHANGED <<clients, version, stats, inventory, tail>>,
             patch' = patch \/ (patch'.saw <= version /\ patch'.c = c)
      PROVE  PollingInv' /\ StepsForward
  <2>1. PICK s \in Slots : rounds' = Begun(rounds, s, c, by)
    BY <1>1 DEF BeginRound
  <2> QED
    BY <1>0, <1>1, <2>1, BeginStep DEF BeginRound
<1>2. ASSUME UNCHANGED <<clients, rounds, strayed, shownVars>>, version' >= version
      PROVE  PollingInv' /\ StepsForward
  BY <1>0, <1>2, QuietStep DEF shownVars
<1>3. CASE Tick
  BY <1>0, <1>1, <1>3 DEF Tick, Callers, envVars, shownVars
<1>4. CASE Handlers
  <2>1. PICK w \in awaiting :
          \/ Refreshes(w) \/ GatewayStopped(w) \/ GatewayStarted(w) \/ WaitFails(w)
          \/ DisableShown(w) \/ EditShown(w)
    BY <1>4 DEF Handlers
  <2>2. CASE Refreshes(w)
    <3>1. PICK by \in Callers : BeginRound(w.c, by)
      BY <2>2 DEF Refreshes, Callers
    <3> QED
      BY <1>0, <1>1, <2>2, <3>1 DEF Refreshes, envVars, shownVars
  <2>3. CASE GatewayStarted(w)
    <3>1. PICK s \in Slots : rounds' = Begun(rounds, s, w.c, "other")
      BY <2>3 DEF GatewayStarted
    <3>2. /\ "other" \in Callers /\ UNCHANGED <<clients, version, shownVars>>
          /\ strayed' = (strayed \/ w.c # clients)
      BY <2>3 DEF GatewayStarted, Callers
    <3> QED
      BY <1>0, <3>1, <3>2, BeginStep DEF shownVars
  <2>4. CASE GatewayStopped(w)
    BY <1>0, <1>2, <2>4 DEF GatewayStopped
  <2>5. CASE WaitFails(w)
    BY <1>0, <1>2, <2>5 DEF WaitFails, envVars
  <2>e. ASSUME w.what \in Edits, Patched(w)
        PROVE  patch' = patch \/ (/\ patch'.saw <= version /\ patch'.c = w.c
                                  /\ patch'.by = w.what)
    <3>1. w.saw <= version
      BY DEF HookInv, WaitInv
    <3> QED
      BY <1>0, <2>e, <3>1, PatchedFacts DEF PollingInv
  <2>6. CASE DisableShown(w)
    <3>1. w.what \in Edits /\ Patched(w) /\ BeginRound(w.c, "other") /\ "other" \in Callers
          /\ UNCHANGED <<clients, version, stats, inventory, tail>>
      BY <2>6 DEF DisableShown, Edits, Callers, envVars
    <3> QED
      BY <1>0, <1>1, <2>e, <3>1
  <2>7. CASE EditShown(w)
    <3>1. /\ w.what \in Edits /\ w.what # "disable" /\ Patched(w)
          /\ UNCHANGED <<clients, version, rounds, stats, inventory, tail>>
          /\ strayed' = (strayed \/ w.c # clients)
      BY <2>7 DEF EditShown, Edits, envVars
    <3>2. /\ patch' = patch \/ (patch'.saw <= version /\ patch'.by # "disable")
          /\ patch' = patch \/ (~ strayed' => patch'.c = clients)
      <4>1. patch' = patch \/ (/\ patch'.saw <= version /\ patch'.c = w.c
                               /\ patch'.by = w.what)
        BY <2>e, <3>1
      <4>2. ~ strayed' => w.c = clients
        BY <3>1
      <4> QED
        BY <3>1, <4>1, <4>2
    <3>3. strayed => strayed'
      BY <3>1
    <3>6. version' >= version
      <4>1. version' = version
        BY <3>1
      <4> QED
        BY <1>0, <4>1
    <3>4. \A t \in Slots : rounds'[t].fresh => rounds'[t] = rounds[t]
      BY <3>1
    <3>5. rounds' \in Rounds
      BY <1>0, <3>1
    <3> QED
      BY <1>0, <3>1, <3>2, <3>3, <3>4, <3>5, <3>6, QuietStep
  <2> QED
    BY <2>1, <2>2, <2>3, <2>4, <2>5, <2>6, <2>7
<1>5. CASE User
  <2>1. CASE ClickRefresh
    BY <1>0, <1>2, <2>1 DEF ClickRefresh, envVars
  <2>2. CASE Focus
    BY <1>0, <1>1, <2>2 DEF Focus, Callers, envVars, shownVars
  <2>3. CASE VisibilityChanges
    BY <1>0, <1>2, <2>3 DEF VisibilityChanges
  <2>4. CASE ToggleGateway \/ RetryGateway
    BY <1>0, <1>2, <2>4 DEF ToggleGateway, RetryGateway, envVars
  <2>5. CASE StatusRead
    BY <1>0, <1>2, <2>5 DEF StatusRead, envVars
  <2>6. CASE EditAccount
    BY <1>0, <1>2, <2>6 DEF EditAccount
  <2> QED
    BY <1>5, <2>1, <2>2, <2>3, <2>4, <2>5, <2>6 DEF User
<1> QED
  BY <1>3, <1>4, <1>5

LEMMA HookInvInit == Init => HookInv
<1> SUFFICES ASSUME Init PROVE HookInv
  OBVIOUS
<1>1. TypeOK
  BY InitType
<1>2. /\ stats = Nothing /\ inventory = Nothing /\ tail = Nothing /\ version = 0
      /\ patch = Unpatched /\ awaiting = {}
      /\ \A s \in Slots : ~ rounds[s].fresh
  BY DEF Init, Idle
<1>3. Seen(Nothing) /\ ShownIsOfTheConnection
  BY <1>2, NothingFacts, UnpatchedFacts DEF Seen, ShownIsOfTheConnection
<1>4. FreshInv /\ SawInv
  BY <1>2, <1>3 DEF FreshInv, SawInv
<1>5. PatchInv
  BY <1>2, UnpatchedFacts DEF PatchInv
<1> QED
  BY <1>1, <1>2, <1>3, <1>4, <1>5 DEF PollingInv, HookInv, WaitInv

\* What a handler waits for is the saved edit of EditAccount, or carries no data.
LEMMA WaitStep ==
  ASSUME TypeOK, TypeOK', WaitInv, [Next]_vars
  PROVE  WaitInv'
<1>1. /\ version \in Nat /\ version' \in Nat
      /\ \A w \in awaiting : w.saw \in Nat /\ w.saw <= version
  BY NatFacts, PollingAssumption DEF TypeOK, WaitInv
<1>2. ASSUME version' = version, \A w \in awaiting' : w \in awaiting \/ w.saw = 0
      PROVE  WaitInv'
  BY <1>1, <1>2 DEF WaitInv
<1>3. ASSUME NEW what, Awaits(what) PROVE \A w \in awaiting' : w \in awaiting \/ w.saw = 0
  BY <1>3 DEF Awaits
<1>4. ASSUME NEW s \in Slots, Lands(s) PROVE WaitInv'
  BY <1>2, <1>4 DEF Lands, Handles, Dropped, StatsLand, StatsFail, ExtrasLand, ExtrasFail,
     envVars
<1>5. CASE Handlers
  <2>1. PICK w \in awaiting :
          \/ Refreshes(w) \/ GatewayStopped(w) \/ GatewayStarted(w) \/ WaitFails(w)
          \/ DisableShown(w) \/ EditShown(w)
    BY <1>5 DEF Handlers
  <2>2. CASE EditShown(w)
    BY <1>2, <2>2 DEF EditShown, envVars
  <2>3. CASE ~ EditShown(w)
    BY <1>2, <2>1, <2>3 DEF Refreshes, GatewayStopped, GatewayStarted, WaitFails,
       DisableShown, envVars
  <2> QED
    BY <2>2, <2>3
<1>6. CASE ClickRefresh \/ VisibilityChanges \/ ToggleGateway \/ RetryGateway
  BY <1>2, <1>3, <1>6 DEF ClickRefresh, VisibilityChanges, ToggleGateway, RetryGateway,
     envVars
<1>7. CASE Focus \/ StatusRead \/ Connect \/ Tick \/ UNCHANGED vars
  BY <1>2, <1>7 DEF Focus, StatusRead, Connect, Tick, vars, envVars
<1>8. ASSUME version' = version + 1,
             \A w \in awaiting' : w \in awaiting \/ w.saw = version'
      PROVE  WaitInv'
  BY <1>1, <1>8 DEF WaitInv
<1>9. CASE EditAccount
  BY <1>8, <1>9 DEF EditAccount
<1>10. CASE DataChanges
  BY <1>8, <1>10 DEF DataChanges
<1> QED
  BY <1>4, <1>5, <1>6, <1>7, <1>9, <1>10 DEF Next, User

LEMMA HookInvStep == HookInv /\ [Next]_vars => HookInv' /\ StepsForward
<1> SUFFICES ASSUME HookInv, [Next]_vars PROVE PollingInv' /\ StepsForward /\ WaitInv'
  BY DEF HookInv
<1>0. PollingInv
  BY DEF HookInv
<1>1. TypeOK'
  BY <1>0, NextType DEF PollingInv
<1>2. version \in Nat /\ version' \in Nat /\ rounds' \in Rounds
  BY <1>0, <1>1, PollingAssumption DEF PollingInv, TypeOK, Rounds
<1>6. WaitInv'
  BY <1>0, <1>1, WaitStep DEF HookInv, PollingInv
<1>s. ASSUME UNCHANGED <<clients, rounds, strayed, shownVars>>, version' >= version
      PROVE  PollingInv' /\ StepsForward
  BY <1>0, <1>1, <1>2, <1>s, QuietStep DEF shownVars
<1>3. CASE DataChanges
  <2>1. version' = version + 1 /\ UNCHANGED <<clients, rounds, strayed, shownVars>>
    BY <1>3 DEF DataChanges
  <2>2. version' >= version
    BY <1>2, <2>1
  <2> QED
    BY <1>6, <1>s, <2>1, <2>2
<1>4. CASE UNCHANGED vars
  <2>1. version' = version /\ UNCHANGED <<clients, rounds, strayed, shownVars>>
    BY <1>4 DEF vars, envVars
  <2>2. version' >= version
    BY <1>2, <2>1
  <2> QED
    BY <1>6, <1>s, <2>1, <2>2
<1>5. CASE Connect
  BY <1>0, <1>1, <1>5, <1>6, ConnectStep
<1> QED
  BY <1>0, <1>1, <1>3, <1>4, <1>5, <1>6, CallerStep, LandsStep DEF Next

\* An answer that replaces the disabling of an account is no older than it; nothing
\* else takes it off the display, another connection apart.
LEMMA KeptStep ==
  ASSUME HookInv, [Next]_vars
  PROVE  EditKept
<1>1. PollingInv /\ clients \in Nat
  BY PollingAssumption DEF HookInv, PollingInv, TypeOK, Clients
<1>2. ASSUME patch' = patch \/ patch'.by # "none" PROVE EditKept
  BY <1>2, UnpatchedFacts DEF EditKept
<1>3. ASSUME NEW s \in Slots, ExtrasLand(s) PROVE EditKept
  <2>1. rounds[s].fresh /\ rounds[s].at = "extras back"
    BY <1>3 DEF ExtrasLand, Superseded
  <2>2. /\ patch' = patch \/ inventory' = Answer(s)
        /\ patch.by = "disable" => patch.saw <= Answer(s).saw
    BY <1>1, <1>3, <2>1 DEF ExtrasLand, PollingInv, PatchInv, Answer
  <2>3. Answer(s).saw \in Nat /\ patch.saw \in Nat
    BY <1>1, NatFacts DEF PollingInv, Answer
  <2> QED
    BY <1>2, <2>2, <2>3 DEF EditKept
<1>4. ASSUME NEW s \in Slots, Lands(s), ~ ExtrasLand(s) PROVE EditKept
  BY <1>2, <1>4 DEF Lands, Handles, Dropped, StatsLand, StatsFail, ExtrasFail, shownVars
<1>5. CASE Handlers
  <2>1. PICK w \in awaiting :
          \/ Refreshes(w) \/ GatewayStopped(w) \/ GatewayStarted(w) \/ WaitFails(w)
          \/ DisableShown(w) \/ EditShown(w)
    BY <1>5 DEF Handlers
  <2>2. CASE DisableShown(w) \/ EditShown(w)
    <3>1. w.what \in Edits /\ w.what # "none" /\ Patched(w)
      BY <2>2 DEF DisableShown, EditShown, Edits
    <3> QED
      BY <1>1, <1>2, <3>1, PatchedFacts DEF PollingInv
  <2>3. CASE ~ (DisableShown(w) \/ EditShown(w))
    BY <1>2, <2>1, <2>3 DEF Refreshes, GatewayStopped, GatewayStarted, WaitFails, shownVars
  <2> QED
    BY <2>2, <2>3
<1>6. CASE \/ Tick \/ ClickRefresh \/ Focus \/ VisibilityChanges \/ ToggleGateway
           \/ RetryGateway \/ EditAccount \/ StatusRead \/ DataChanges \/ UNCHANGED vars
  BY <1>2, <1>6 DEF Tick, ClickRefresh, Focus, VisibilityChanges, ToggleGateway,
     RetryGateway, EditAccount, StatusRead, DataChanges, vars, shownVars
<1>7. CASE Connect
  <2>1. clients' # clients
    BY <1>1, <1>7 DEF Connect
  <2> QED
    BY <2>1 DEF EditKept
<1> QED
  BY <1>3, <1>4, <1>5, <1>6, <1>7 DEF Next, User

\* Whatever is in flight when the console is connected to another gateway, and
\* whenever it answers, nothing of the previous one is on display unless a
\* waiting handler of the previous connection has begun a round since.
THEOREM OnlyTheConnectionShown == Spec => []ShownIsOfTheConnection
<1>1. HookInv => ShownIsOfTheConnection
  BY DEF HookInv, PollingInv
<1> QED
  BY <1>1, HookInvInit, HookInvStep, PTL DEF Spec

\* Overlapping rounds, however many and in whatever order they answer, never put
\* an older answer in the place of a newer one of the same connection.
THEOREM DisplayGoesForward == Spec => NothingStepsBack
<1>1. HookInv /\ [Next]_vars => HookInv' /\ [StepsForward]_vars
  BY HookInvStep
<1> QED
  BY <1>1, HookInvInit, PTL DEF Spec, NothingStepsBack

\* An account shown as disabled is never shown as enabled again by an answer from
\* before, however many rounds were in flight when it was disabled.
THEOREM DisabledIsKept == Spec => DisabledStays
<1>1. HookInv /\ [Next]_vars => HookInv' /\ [EditKept]_vars
  BY HookInvStep, KeptStep
<1> QED
  BY <1>1, HookInvInit, PTL DEF Spec, DisabledStays

-----------------------------------------------------------------------------
(* The settings form over it: its invariant.                               *)

Kinds == {"all", "providers"}
Own(values) == values = gateway[clients]

\* Where values came from: what a latch or the status vouches for was read from
\* the gateway of the moment, and so will be what an effect still listens to.
FormInv ==
    /\ latch \in BOOLEAN /\ provLatch \in BOOLEAN
    /\ latch \/ status = "loaded" => Own(form)
    /\ provLatch => Own(provs)

ReadsInv ==
    /\ reads \subseteq Settings!Reads
    /\ \A r \in reads : r.active => r.c = clients

PlaceInv == clients \in 1..MaxClients /\ gateway \in [1..MaxClients -> 1..MaxClients]

Inv == PlaceInv /\ FormInv /\ ReadsInv /\ OnlyOwnValuesSaved

-----------------------------------------------------------------------------
(* A render.                                                               *)

LEMMA EndedFacts ==
  ASSUME NEW rs \in SUBSET Settings!Reads, NEW kinds
  PROVE  /\ Settings!Ended(rs, kinds) \subseteq Settings!Reads
         /\ \A r \in Settings!Ended(rs, kinds) : r.active => r \in rs /\ r.kind \notin kinds
<1> SUFFICES ASSUME NEW r \in Settings!Ended(rs, kinds)
             PROVE  r \in Settings!Reads /\ (r.active => r \in rs /\ r.kind \notin kinds)
  OBVIOUS
<1>1. PICK q \in rs : r = IF q.kind \in kinds THEN [q EXCEPT !.active = FALSE] ELSE q
  BY DEF Settings!Ended
<1>2. q \in Settings!Reads
  OBVIOUS
<1>3. /\ [q EXCEPT !.active = FALSE] \in Settings!Reads
      /\ [q EXCEPT !.active = FALSE].active = FALSE
  BY <1>2 DEF Settings!Reads
<1>4. CASE q.kind \in kinds
  BY <1>1, <1>3, <1>4
<1>5. CASE q.kind \notin kinds
  BY <1>1, <1>2, <1>5
<1> QED
  BY <1>4, <1>5

LEMMA AsksFacts ==
  ASSUME clients' \in 1..MaxClients, NEW kind \in Kinds
  PROVE  Settings!Asks(kind) \in Settings!Reads /\ Settings!Asks(kind).c = clients'
  BY DEF Settings!Asks, Settings!Reads, Kinds

\* After a handler has left latches and a status that vouch for what they should,
\* the render and its effects do too.
LEMMA RenderedFacts ==
  ASSUME NEW l \in BOOLEAN, NEW p \in BOOLEAN, NEW st, NEW rs \in SUBSET reads, ReadsInv,
         PlaceInv', Settings!Rendered(l, p, st, rs),
         l \/ st = "loaded" => Own(form)', p => Own(provs)'
  PROVE  FormInv' /\ ReadsInv'
<1> DEFINE drops == Settings!GoesOffline(l)
           l2    == l /\ ~ drops
           p2    == p /\ ~ drops
           seen  == IF Settings!Moved(l)
                      THEN Settings!StatusAfter(l, IF drops THEN "loading" ELSE st)
                      ELSE st
           kinds == (IF Settings!Moved(l) \/ drops THEN {"all"} ELSE {}) \cup
                    (IF Settings!ProvidersMoved(l, p) \/ drops THEN {"providers"} ELSE {})
           asked == (IF Settings!Moved(l) \/ drops THEN Settings!ScalarRead(l2) ELSE {})
              \cup (IF Settings!ProvidersMoved(l, p) \/ drops
                      THEN Settings!ProviderRead(l2, p2) ELSE {})
<1>1. /\ latch' = l2 /\ provLatch' = p2
      /\ status' = IF drops THEN Settings!StatusAfter(l2, seen) ELSE seen
      /\ reads' = Settings!Ended(rs, kinds) \cup asked
  BY DEF Settings!Rendered
<1>2. FormInv'
  <2>1. seen = "loaded" => l \/ st = "loaded"
    BY DEF Settings!StatusAfter
  <2>2. status' = "loaded" => l \/ st = "loaded"
    BY <1>1, <2>1 DEF Settings!StatusAfter
  <2>3. (latch' => l) /\ (provLatch' => p)
    BY <1>1
  <2>4. latch' \in BOOLEAN /\ provLatch' \in BOOLEAN
    BY <1>1
  <2> HIDE DEF drops, l2, p2, seen
  <2> QED
    BY <2>2, <2>3, <2>4 DEF FormInv
<1>3. ReadsInv'
  <2>1. asked \subseteq {Settings!Asks("all"), Settings!Asks("providers")}
    BY DEF Settings!ScalarRead, Settings!ProviderRead
  <2>2. asked \subseteq Settings!Reads /\ \A r \in asked : r.c = clients'
    BY <2>1, AsksFacts DEF PlaceInv, Kinds
  <2>3. clients' # clients => kinds = Kinds
    BY DEF Settings!Moved, Settings!ProvidersMoved, Kinds
  <2> HIDE DEF asked, kinds
  <2>4. rs \subseteq Settings!Reads
    BY DEF ReadsInv
  <2>5. /\ Settings!Ended(rs, kinds) \subseteq Settings!Reads
        /\ \A r \in Settings!Ended(rs, kinds) : r.active => r \in rs /\ r.kind \notin kinds
    BY <2>4, EndedFacts
  <2>6. \A r \in Settings!Reads : r.kind \in Kinds
    BY DEF Settings!Reads, Kinds
  <2>7. \A r \in Settings!Ended(rs, kinds) : r.active => r.c = clients'
    BY <2>3, <2>4, <2>5, <2>6 DEF ReadsInv
  <2>8. Settings!Reads' = Settings!Reads
    BY DEF Settings!Reads
  <2> QED
    BY <1>1, <2>2, <2>5, <2>7, <2>8 DEF ReadsInv
<1> QED
  BY <1>2, <1>3

-----------------------------------------------------------------------------
(* The steps.                                                              *)

LEMMA InvInit == ConsoleInit => Inv
<1> SUFFICES ASSUME ConsoleInit PROVE Inv
  OBVIOUS
<1>1. clients = 1 /\ Settings!Init
  BY DEF ConsoleInit, Init
<1>2. PlaceInv
  BY <1>1, PollingAssumption, ConsoleAssumption DEF Settings!Init, PlaceInv
<1>3. FormInv /\ OnlyOwnValuesSaved
  BY <1>1 DEF Settings!Init, FormInv, OnlyOwnValuesSaved, Settings!OnlyOwnValuesSaved
<1>4. ReadsInv
  BY <1>1, <1>2 DEF Settings!Init, ReadsInv, Settings!Reads, PlaceInv
<1> QED
  BY <1>2, <1>3, <1>4 DEF Inv

\* The connection changes by Connect only.
LEMMA ConnectionStays ==
  ASSUME GatewaySwitched \/ PollingSteps \/ ConfigSaved \/ FormClicks \/ FormAnswers
  PROVE  clients' = clients
<1>1. CASE GatewaySwitched
  BY <1>1 DEF GatewaySwitched, GatewayStopped, GatewayStarted
<1>2. CASE PollingSteps
  <2>1. ASSUME NEW s \in Slots, Lands(s) PROVE clients' = clients
    BY <2>1 DEF Lands, Handles, Dropped, StatsLand,
       StatsFail, ExtrasLand, ExtrasFail
  <2>2. ASSUME NEW w \in awaiting,
               Refreshes(w) \/ WaitFails(w) \/ DisableShown(w) \/ EditShown(w)
        PROVE  clients' = clients
    BY <2>2 DEF Refreshes, WaitFails, DisableShown, EditShown
  <2>3. ASSUME \/ Tick \/ ClickRefresh \/ Focus \/ VisibilityChanges
               \/ ToggleGateway \/ RetryGateway \/ StatusRead \/ EditAccount \/ DataChanges
        PROVE  clients' = clients
    BY <2>3 DEF Tick, ClickRefresh, Focus, VisibilityChanges, ToggleGateway, RetryGateway,
       StatusRead, EditAccount, DataChanges
  <2> QED
    BY <1>2, <2>1, <2>2, <2>3 DEF PollingSteps
<1>3. CASE ConfigSaved \/ FormClicks \/ FormAnswers
  BY <1>3 DEF ConfigSaved, FormClicks, FormAnswers, pollingVars
<1> QED
  BY <1>1, <1>2, <1>3

\* The latch is dropped, with the values where they are.
LEMMA DroppedFacts ==
  ASSUME Inv, PlaceInv', Settings!Dropped
  PROVE  FormInv' /\ ReadsInv'
  BY RenderedFacts DEF Settings!Dropped, Inv

\* A render after which values and connection stand where they stood.
LEMMA SameFacts ==
  ASSUME Inv, PlaceInv', NEW rs \in SUBSET reads,
         Settings!Rendered(latch, provLatch, status, rs),
         gateway'[clients'] = gateway[clients], UNCHANGED <<form, provs>>
  PROVE  FormInv' /\ ReadsInv'
<1>1. (latch \/ status = "loaded" => Own(form)') /\ (provLatch => Own(provs)')
  BY DEF Inv, FormInv, Own
<1>2. latch \in BOOLEAN /\ provLatch \in BOOLEAN /\ ReadsInv
  BY DEF Inv, FormInv
<1> QED
  BY <1>1, <1>2, RenderedFacts

\* A step without a render takes nothing from what is vouched for.
LEMMA QuietFacts ==
  ASSUME Inv, UNCHANGED <<clients, gateway, latch, provLatch, form>>,
         reads' \subseteq reads, status' = "loaded" => status = "loaded",
         UNCHANGED provs
  PROVE  FormInv' /\ ReadsInv'
  BY DEF Inv, FormInv, ReadsInv, Own, Settings!Reads

LEMMA SavedStay ==
  ASSUME Inv, saves' \subseteq saves
  PROVE  OnlyOwnValuesSaved'
  BY DEF Inv, OnlyOwnValuesSaved, Settings!OnlyOwnValuesSaved

LEMMA InvStep == Inv /\ [ConsoleNext]_consoleVars => Inv'
<1> SUFFICES ASSUME Inv, [ConsoleNext]_consoleVars PROVE Inv'
  OBVIOUS
<1>0. PlaceInv /\ FormInv /\ ReadsInv
  BY DEF Inv
<1>1. CASE GatewaySwitched \/ ConfigSaved
  <2>1. Settings!DroppedByApp /\ clients' = clients
    BY <1>1, ConnectionStays DEF GatewaySwitched, ConfigSaved
  <2>2. Settings!Dropped /\ gateway' = gateway /\ saves' = saves
    BY <2>1 DEF Settings!DroppedByApp
  <2>3. PlaceInv'
    BY <1>0, <2>1, <2>2 DEF PlaceInv
  <2> QED
    BY <2>2, <2>3, DroppedFacts, SavedStay DEF Inv
<1>2. CASE ConnectionSaved \/ KeyChanged
  <2>1. /\ clients' = clients + 1 /\ clients < MaxClients
        /\ Settings!ConnectionSaved \/ Settings!KeyChanged
    BY <1>2 DEF ConnectionSaved, KeyChanged, Connect
  <2>2. clients' \in 1..MaxClients
    BY <1>0, <2>1, PollingAssumption, ConsoleAssumption DEF PlaceInv
  <2>3. CASE Settings!ConnectionSaved
    <3>1. PICK g \in Settings!Gateways : gateway' = [gateway EXCEPT ![clients'] = g]
      BY <2>3 DEF Settings!ConnectionSaved
    <3>2. PlaceInv'
      BY <1>0, <2>2, <3>1 DEF PlaceInv, Settings!Gateways
    <3> QED
      BY <2>3, <3>2, DroppedFacts, SavedStay DEF Inv, Settings!ConnectionSaved
  <2>4. CASE Settings!KeyChanged
    <3>1. /\ gateway' = [gateway EXCEPT ![clients'] = gateway[clients]]
          /\ UNCHANGED <<form, provs, saves>>
          /\ Settings!Rendered(latch, provLatch, status, reads)
      BY <2>4 DEF Settings!KeyChanged
    <3>2. PlaceInv' /\ gateway'[clients'] = gateway[clients]
      BY <1>0, <2>2, <3>1 DEF PlaceInv
    <3> QED
      BY <3>1, <3>2, SameFacts, SavedStay DEF Inv
  <2> QED
    BY <2>1, <2>3, <2>4
<1>3. CASE PollingSteps
  <2>1. /\ clients' = clients /\ UNCHANGED <<gateway, form, provs, saves>>
        /\ Settings!Rendered(latch, provLatch, status, reads)
    BY <1>3, ConnectionStays DEF PollingSteps, Settings!PollingMoved
  <2>2. PlaceInv' /\ gateway'[clients'] = gateway[clients]
    BY <1>0, <2>1 DEF PlaceInv
  <2> QED
    BY <2>1, <2>2, SameFacts, SavedStay DEF Inv
<1>4. CASE FormClicks
  <2>1. clients' = clients
    BY <1>4, ConnectionStays
  <2>2. CASE Settings!SurfaceChanges
    <3>1. /\ UNCHANGED <<gateway, form, provs, saves>>
          /\ Settings!Rendered(latch, provLatch, status, reads)
      BY <2>2 DEF Settings!SurfaceChanges
    <3>2. PlaceInv' /\ gateway'[clients'] = gateway[clients]
      BY <1>0, <2>1, <3>1 DEF PlaceInv
    <3> QED
      BY <3>1, <3>2, SameFacts, SavedStay DEF Inv
  <2>3. ASSUME NEW kind \in {"all", "providers"}, Settings!ClickSave(kind) PROVE Inv'
    <3>1. /\ UNCHANGED <<gateway, latch, provLatch, status, form, provs, reads>>
          /\ saves' = {[to |-> gateway[clients], kind |-> kind,
                        from |-> IF kind = "all" THEN form ELSE provs]}
          /\ status = "loaded" /\ (kind = "providers" => provLatch)
      BY <2>3 DEF Settings!ClickSave, Settings!MaySave, Settings!formVars
    <3>2. PlaceInv'
      BY <1>0, <2>1, <3>1 DEF PlaceInv
    <3>3. FormInv' /\ ReadsInv'
      BY <2>1, <3>1, QuietFacts
    <3>4. (IF kind = "all" THEN form ELSE provs) = gateway[clients]
      BY <1>0, <3>1 DEF FormInv, Own
    <3>5. OnlyOwnValuesSaved'
      BY <3>1, <3>4 DEF OnlyOwnValuesSaved, Settings!OnlyOwnValuesSaved
    <3> QED
      BY <3>2, <3>3, <3>5 DEF Inv
  <2> QED
    BY <1>4, <2>2, <2>3 DEF FormClicks, Settings!Clicks
<1>5. CASE FormAnswers
  <2>1. clients' = clients /\ Settings!Answers
    BY <1>5, ConnectionStays DEF FormAnswers
  <2>2. ASSUME gateway' = gateway PROVE PlaceInv' /\ gateway'[clients'] = gateway[clients]
    BY <1>0, <2>1, <2>2 DEF PlaceInv
  <2>3. ASSUME NEW r \in reads, Settings!ReadLands(r) PROVE Inv'
    <3>1. PICK table \in BOOLEAN :
             /\ provs' = IF table THEN gateway[r.c] ELSE provs
             /\ Settings!Rendered(TRUE, table, "loaded", reads \ {r})
      BY <2>3 DEF Settings!ReadLands
    <3>2. /\ UNCHANGED <<gateway, saves>> /\ form' = gateway[r.c] /\ r.c = clients
      BY <1>0, <2>3 DEF Settings!ReadLands, Settings!Listens, ReadsInv
    <3>3. PlaceInv'
      BY <2>2, <3>2
    <3>4. Own(form)' /\ (table => Own(provs)')
      BY <2>1, <3>1, <3>2 DEF Own
    <3>5. reads \ {r} \in SUBSET reads
      OBVIOUS
    <3>6. FormInv' /\ ReadsInv'
      BY <1>0, <3>1, <3>3, <3>4, <3>5, RenderedFacts
    <3> QED
      BY <3>2, <3>3, <3>6, SavedStay DEF Inv
  <2>4. ASSUME NEW r \in reads, Settings!ProvidersLand(r) PROVE Inv'
    <3>1. /\ UNCHANGED <<gateway, saves, form>> /\ provs' = gateway[clients]
          /\ Settings!Rendered(latch, TRUE, status, reads \ {r})
      BY <1>0, <2>4 DEF Settings!ProvidersLand, Settings!Listens, ReadsInv
    <3>2. PlaceInv'
      BY <2>2, <3>1
    <3>3. (latch \/ status = "loaded" => Own(form)') /\ Own(provs)'
      BY <1>0, <2>1, <3>1 DEF FormInv, Own
    <3>4. latch \in BOOLEAN /\ reads \ {r} \in SUBSET reads
      BY <1>0 DEF FormInv
    <3>5. FormInv' /\ ReadsInv'
      BY <1>0, <3>1, <3>2, <3>3, <3>4, RenderedFacts
    <3> QED
      BY <3>1, <3>2, <3>5, SavedStay DEF Inv
  <2>5. ASSUME NEW r \in reads,
               \/ Settings!ReadFails(r) \/ Settings!ProvidersFail(r) \/ Settings!ReadIgnored(r)
        PROVE  Inv'
    <3>1. /\ UNCHANGED <<gateway, saves, latch, provLatch, form, provs>>
          /\ reads' = reads \ {r} /\ (status' = "loaded" => status = "loaded")
      BY <2>5 DEF Settings!ReadFails, Settings!ProvidersFail, Settings!ReadIgnored,
         Settings!formVars
    <3>2. FormInv' /\ ReadsInv'
      BY <2>1, <3>1, QuietFacts
    <3> QED
      BY <2>2, <3>1, <3>2, SavedStay DEF Inv
  <2>6. CASE Settings!SaveAnswered
    <3>1. gateway' = gateway /\ saves' = {} /\ Settings!Dropped
      BY <2>6 DEF Settings!SaveAnswered
    <3>2. FormInv' /\ ReadsInv'
      BY <2>2, <3>1, DroppedFacts
    <3> QED
      BY <2>2, <3>1, <3>2, SavedStay DEF Inv
  <2>7. CASE Settings!SaveFails
    <3>1. /\ UNCHANGED <<gateway, latch, provLatch, status, form, provs, reads>>
          /\ saves' = {}
      BY <2>7 DEF Settings!SaveFails, Settings!formVars
    <3>2. FormInv' /\ ReadsInv'
      BY <2>1, <3>1, QuietFacts
    <3> QED
      BY <2>2, <3>1, <3>2, SavedStay DEF Inv
  <2> QED
    BY <2>1, <2>3, <2>4, <2>5, <2>6, <2>7 DEF Settings!Answers
<1>6. CASE UNCHANGED consoleVars
  <2>1. UNCHANGED <<clients, gateway, latch, provLatch, status, form, provs, reads, saves>>
    BY <1>6 DEF consoleVars, pollingVars, formVars
  <2>2. FormInv' /\ ReadsInv'
    BY <2>1, QuietFacts
  <2> QED
    BY <1>0, <2>1, <2>2, SavedStay DEF Inv, PlaceInv
<1> QED
  BY <1>1, <1>2, <1>3, <1>4, <1>5, <1>6 DEF ConsoleNext

-----------------------------------------------------------------------------
(* The polling hook under the form.                                        *)

\* Composed with the form, a step is one of the hook or leaves the hook alone.
LEMMA PollingMovesItself ==
  ASSUME [ConsoleNext]_consoleVars
  PROVE  Next \/ UNCHANGED pollingVars
<1>1. CASE GatewaySwitched
  BY <1>1 DEF GatewaySwitched, Next, Handlers
<1>2. CASE ConnectionSaved \/ KeyChanged
  BY <1>2 DEF ConnectionSaved, KeyChanged, Next, User
<1>3. CASE PollingSteps
  BY <1>3 DEF PollingSteps, Next, Handlers, User
<1>4. CASE ConfigSaved \/ FormClicks
  BY <1>4 DEF ConfigSaved, FormClicks
<1>5. CASE FormAnswers \/ UNCHANGED consoleVars
  BY <1>5 DEF FormAnswers, consoleVars, pollingVars
<1> QED
  BY <1>1, <1>2, <1>3, <1>4, <1>5 DEF ConsoleNext

LEMMA EventsCounted ==
  ASSUME events \in 0..MaxEvents, [ConsoleNext]_consoleVars, UNCHANGED pollingVars, ~ Next
  PROVE  events' \in 0..MaxEvents
<1>1. MaxEvents \in Nat
  BY PollingAssumption, ConsoleAssumption
<1>2. ASSUME Event PROVE events' \in 0..MaxEvents
  BY <1>1, <1>2 DEF Event
<1>3. ~ (GatewaySwitched \/ ConnectionSaved \/ KeyChanged \/ PollingSteps)
  BY DEF GatewaySwitched, ConnectionSaved, KeyChanged, PollingSteps, Next,
     Handlers, User
<1>4. CASE ConfigSaved \/ FormClicks
  BY <1>2, <1>4 DEF ConfigSaved, FormClicks
<1>5. CASE FormAnswers \/ UNCHANGED consoleVars
  BY <1>5 DEF FormAnswers, consoleVars
<1> QED
  BY <1>3, <1>4, <1>5 DEF ConsoleNext

LEMMA PollingUnderForm ==
  ASSUME HookInv, [ConsoleNext]_consoleVars
  PROVE  HookInv' /\ StepsForward /\ EditKept
<1>1. CASE Next
  BY <1>1, HookInvStep, KeptStep
<1>2. CASE UNCHANGED pollingVars /\ ~ Next
  <2>0. PollingInv
    BY DEF HookInv
  <2>1. events' \in 0..MaxEvents
    BY <1>2, <2>0, EventsCounted DEF PollingInv, TypeOK
  <2>2. /\ UNCHANGED <<clients, up, version, hidden, rounds, tick, awaiting, firstLoad,
                       loadState, lifecycle, stats, inventory, tail, patch, strayed,
                       failures>>
    BY <1>2 DEF pollingVars
  <2>3. TypeOK'
    BY <2>0, <2>1, <2>2 DEF PollingInv, TypeOK
  <2>4. rounds' \in Rounds /\ version' >= version
    BY <2>0, <2>2, <2>3, PollingAssumption, ConsoleAssumption DEF PollingInv, TypeOK, Rounds
  <2>5. PollingInv' /\ StepsForward
    BY <2>0, <2>2, <2>3, <2>4, QuietStep
  <2>6. WaitInv'
    BY <2>2 DEF HookInv, WaitInv
  <2>7. EditKept
    BY <2>2, UnpatchedFacts DEF EditKept
  <2> QED
    BY <2>5, <2>6, <2>7 DEF HookInv
<1> QED
  BY <1>1, <1>2, PollingMovesItself

-----------------------------------------------------------------------------
(* Types of the form.                                                      *)

Statuses == {"loading", "loaded", "error"}

LEMMA GatewayNumber == \A c \in 1..MaxClients : c \in 0..MaxClients
  BY PollingAssumption, ConsoleAssumption

LEMMA RenderedTypes ==
  ASSUME NEW l, NEW p, NEW rs, NEW st \in Statuses, Settings!Rendered(l, p, st, rs)
  PROVE  status' \in Statuses /\ wasOnline' \in BOOLEAN
<1>1. \A m, s : s \in Statuses => Settings!StatusAfter(m, s) \in Statuses
  BY DEF Settings!StatusAfter, Statuses
<1>2. wasOnline' \in BOOLEAN
  BY DEF Settings!Rendered
<1>3. "loading" \in Statuses
  BY DEF Statuses
<1>4. status' \in Statuses
  BY <1>1, <1>3 DEF Settings!Rendered
<1> QED
  BY <1>2, <1>4

\* What Inv does not say of the form's types.
FormTypes ==
    /\ visible \in BOOLEAN /\ wasOnline \in BOOLEAN /\ status \in Statuses
    /\ form \in 0..MaxClients /\ provs \in 0..MaxClients
    /\ saves \subseteq Settings!Saves /\ readFailures \in 0..MaxReadFailures

LEMMA FormTypesSuffice == Inv /\ FormTypes => Settings!TypeOK
  BY DEF Inv, FormInv, PlaceInv, ReadsInv, FormTypes, Statuses, Settings!TypeOK,
     Settings!Gateways

LEMMA FormTypesInit == ConsoleInit => FormTypes
<1> SUFFICES ASSUME ConsoleInit PROVE FormTypes
  OBVIOUS
<1>1. 0 \in 0..MaxClients /\ 0 \in 0..MaxReadFailures
  BY PollingAssumption, ConsoleAssumption
<1> QED
  BY <1>1 DEF ConsoleInit, Settings!Init, FormTypes, Statuses

\* A render with the values where they are, and a save at most forgotten.
LEMMA RenderKeepsTypes ==
  ASSUME FormTypes, NEW l, NEW p, NEW rs, NEW st \in Statuses,
         Settings!Rendered(l, p, st, rs), visible' \in BOOLEAN, saves' \subseteq saves,
         UNCHANGED <<form, provs, readFailures>>
  PROVE  FormTypes'
<1>1. status' \in Statuses /\ wasOnline' \in BOOLEAN
  BY RenderedTypes
<1> QED
  BY <1>1 DEF FormTypes, Settings!Saves, Settings!Gateways

LEMMA AnswersKeepTypes ==
  ASSUME Inv, FormTypes, Settings!Answers
  PROVE  FormTypes'
<1>0. \A r \in reads : gateway[r.c] \in 0..MaxClients
  <2>1. \A r \in reads : r.c \in 1..MaxClients
    BY DEF Inv, ReadsInv, Settings!Reads
  <2> QED
    BY <2>1, GatewayNumber DEF Inv, PlaceInv
<1>1. MaxReadFailures \in Nat
  BY PollingAssumption, ConsoleAssumption
<1>2. "loading" \in Statuses /\ "loaded" \in Statuses /\ "error" \in Statuses
      /\ status \in Statuses
  BY DEF Statuses, FormTypes
<1>3. ASSUME NEW r \in reads, Settings!ReadLands(r) PROVE FormTypes'
  <2>1. PICK table \in BOOLEAN :
          /\ readFailures' = IF table THEN readFailures ELSE readFailures + 1
          /\ readFailures' <= MaxReadFailures
          /\ provs' = IF table THEN gateway[r.c] ELSE provs
          /\ Settings!Rendered(TRUE, table, "loaded", reads \ {r})
    BY <1>3 DEF Settings!ReadLands
  <2>2. form' = gateway[r.c] /\ UNCHANGED <<visible, saves>>
    BY <1>3 DEF Settings!ReadLands
  <2>3. status' \in Statuses /\ wasOnline' \in BOOLEAN
    BY <1>2, <2>1, RenderedTypes
  <2>4. readFailures' \in 0..MaxReadFailures
    BY <1>1, <2>1 DEF FormTypes
  <2>5. provs' \in 0..MaxClients /\ form' \in 0..MaxClients
    BY <1>0, <2>1, <2>2 DEF FormTypes
  <2> QED
    BY <2>2, <2>3, <2>4, <2>5 DEF FormTypes, Settings!Saves, Settings!Gateways
<1>4. ASSUME NEW r \in reads, Settings!ProvidersLand(r) PROVE FormTypes'
  <2>1. /\ UNCHANGED <<visible, form, saves, readFailures>> /\ provs' = gateway[r.c]
        /\ Settings!Rendered(latch, TRUE, status, reads \ {r})
    BY <1>4 DEF Settings!ProvidersLand
  <2>2. status' \in Statuses /\ wasOnline' \in BOOLEAN
    BY <1>2, <2>1, RenderedTypes
  <2> QED
    BY <1>0, <2>1, <2>2 DEF FormTypes, Settings!Saves, Settings!Gateways
<1>5. ASSUME NEW r \in reads, Settings!ReadFails(r) \/ Settings!ProvidersFail(r)
      PROVE  FormTypes'
  <2>1. /\ readFailures < MaxReadFailures /\ readFailures' = readFailures + 1
        /\ status' \in {status, "error"}
        /\ UNCHANGED <<visible, wasOnline, form, provs, saves>>
    BY <1>5 DEF Settings!ReadFails, Settings!ProvidersFail, Settings!formVars
  <2>2. readFailures' \in 0..MaxReadFailures
    BY <1>1, <2>1 DEF FormTypes
  <2> QED
    BY <1>2, <2>1, <2>2 DEF FormTypes, Settings!Saves, Settings!Gateways
<1>6. ASSUME NEW r \in reads, Settings!ReadIgnored(r) PROVE FormTypes'
  BY <1>6 DEF Settings!ReadIgnored, Settings!formVars, FormTypes, Settings!Saves,
     Settings!Gateways
<1>7. CASE Settings!SaveAnswered
  <2>1. /\ UNCHANGED <<visible, form, provs, readFailures>> /\ saves' = {}
        /\ Settings!Rendered(FALSE, FALSE, "loading", reads)
    BY <1>7 DEF Settings!SaveAnswered, Settings!Dropped
  <2>2. visible' \in BOOLEAN /\ saves' \subseteq saves
    BY <2>1 DEF FormTypes
  <2> QED
    BY <1>2, <2>1, <2>2, RenderKeepsTypes
<1>8. CASE Settings!SaveFails
  BY <1>8 DEF Settings!SaveFails, Settings!formVars, FormTypes, Settings!Saves,
     Settings!Gateways
<1> QED
  BY <1>3, <1>4, <1>5, <1>6, <1>7, <1>8 DEF Settings!Answers

LEMMA FormTypesStep ==
  ASSUME Inv, FormTypes, [ConsoleNext]_consoleVars
  PROVE  FormTypes'
<1>1. "loading" \in Statuses /\ status \in Statuses /\ visible \in BOOLEAN
  BY DEF Statuses, FormTypes
<1>2. ASSUME Settings!Dropped, UNCHANGED <<visible, form, provs, saves, readFailures>>
      PROVE  FormTypes'
  BY <1>1, <1>2, RenderKeepsTypes DEF Settings!Dropped
<1>3. ASSUME Settings!Rendered(latch, provLatch, status, reads),
             UNCHANGED <<form, provs, saves, readFailures>>, visible' \in BOOLEAN
      PROVE  FormTypes'
  BY <1>1, <1>3, RenderKeepsTypes
<1>4. CASE GatewaySwitched \/ ConfigSaved
  BY <1>2, <1>4 DEF GatewaySwitched, ConfigSaved, Settings!DroppedByApp
<1>5. CASE ConnectionSaved
  BY <1>2, <1>5 DEF ConnectionSaved, Settings!ConnectionSaved
<1>6. CASE KeyChanged \/ PollingSteps
  BY <1>1, <1>3, <1>6 DEF KeyChanged, PollingSteps, Settings!KeyChanged,
     Settings!PollingMoved
<1>7. CASE FormClicks
  <2>1. CASE Settings!SurfaceChanges
    BY <1>1, <1>3, <2>1 DEF Settings!SurfaceChanges
  <2>2. ASSUME NEW kind \in {"all", "providers"}, Settings!ClickSave(kind)
        PROVE  FormTypes'
    <3>1. /\ UNCHANGED <<visible, status, wasOnline, form, provs, readFailures>>
          /\ saves' = {[to |-> gateway[clients], kind |-> kind,
                        from |-> IF kind = "all" THEN form ELSE provs]}
      BY <2>2 DEF Settings!ClickSave, Settings!formVars
    <3>2. (IF kind = "all" THEN form ELSE provs) \in 0..MaxClients
      BY DEF FormTypes
    <3>3. gateway[clients] \in 1..MaxClients
      BY DEF Inv, PlaceInv
    <3>4. saves' \subseteq Settings!Saves
      BY <3>1, <3>2, <3>3 DEF Settings!Saves, Settings!Gateways
    <3> QED
      BY <3>1, <3>4 DEF FormTypes, Settings!Saves, Settings!Gateways
  <2> QED
    BY <1>7, <2>1, <2>2 DEF FormClicks, Settings!Clicks
<1>8. CASE FormAnswers
  BY <1>8, AnswersKeepTypes DEF FormAnswers
<1>9. CASE UNCHANGED consoleVars
  BY <1>9 DEF consoleVars, formVars, FormTypes, Settings!Saves, Settings!Gateways
<1> QED
  BY <1>4, <1>5, <1>6, <1>7, <1>8, <1>9 DEF ConsoleNext

-----------------------------------------------------------------------------
(* The console.                                                            *)

ConsoleInv == Inv /\ FormTypes /\ HookInv

LEMMA ConsoleInvInit == ConsoleInit => ConsoleInv
  BY InvInit, FormTypesInit, HookInvInit DEF ConsoleInit, ConsoleInv

LEMMA ConsoleInvStep ==
  ConsoleInv /\ [ConsoleNext]_consoleVars => ConsoleInv' /\ StepsForward /\ EditKept
  BY InvStep, FormTypesStep, PollingUnderForm DEF ConsoleInv

LEMMA ConsoleInvariance == ConsoleSpec => []ConsoleInv
  BY ConsoleInvInit, ConsoleInvStep, PTL DEF ConsoleSpec

\* The two hooks keep their types over the connection they share.
THEOREM ConsoleTypes == ConsoleSpec => []ConsoleTypeOK
<1>1. ConsoleInv => ConsoleTypeOK
  BY FormTypesSuffice DEF ConsoleInv, HookInv, PollingInv, ConsoleTypeOK
<1> QED
  BY <1>1, ConsoleInvariance, PTL

\* Save never writes defaults, or values read from another gateway, over a
\* gateway's own: the latches and the status of useConnectionSettings vouch for the
\* form through every sequence of load states, connections, reads and failures.
THEOREM SavesOwnValues == ConsoleSpec => []OnlyOwnValuesSaved
<1>1. ConsoleInv => OnlyOwnValuesSaved
  BY DEF ConsoleInv, Inv
<1> QED
  BY <1>1, ConsoleInvariance, PTL

\* In the console, too, what is on display is of its connection, an edit included,
\* never goes back, and keeps an account that was disabled: the load states and
\* connections the form moves with do not loosen what the hook alone ensures.
THEOREM ConsoleShowsItsConnection ==
  ConsoleSpec => []ShownIsOfTheConnection /\ NothingStepsBack /\ DisabledStays
<1>1. ConsoleInv => ShownIsOfTheConnection
  BY DEF ConsoleInv, HookInv, PollingInv
<1>2. ConsoleInv /\ [ConsoleNext]_consoleVars => [StepsForward]_vars /\ [EditKept]_vars
  BY ConsoleInvStep
<1>3. ConsoleSpec => []ConsoleInv /\ [][ConsoleNext]_consoleVars
  BY ConsoleInvariance DEF ConsoleSpec
<1> QED
  BY <1>1, <1>2, <1>3, PTL DEF NothingStepsBack, DisabledStays
=============================================================================
