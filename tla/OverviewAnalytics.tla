---------------------------- MODULE OverviewAnalytics ----------------------------
(***************************************************************************)
(* The usage history of the overview, useOverviewAnalytics: rounds of      *)
(* requests, one cache entry per range and dimension, and the analytics    *)
(* built of an entry for the metric and the accounts of the moment.  What  *)
(* is built is kept when a rebuild would give the same (lastBuild), rows   *)
(* of another key stay on display while `isLoading` says so, and telemetry *)
(* stands in where a first round fails.                                    *)
(*                                                                         *)
(* A handler, the render it causes and that render's effects are one step. *)
(* A new list of samples changes no part of the state that is kept here.   *)
(***************************************************************************)
EXTENDS Naturals

CONSTANTS
    CacheKeys,      \* pairs of a range and a dimension
    Metrics,
    MaxClients,     \* bound: connections made, numbered from 1
    MaxGeneration,  \* bound: of generationRef
    MaxAccounts     \* bound: changes of the accounts' identities

ASSUME AnalyticsAssumption ==
    /\ MaxClients \in Nat \ {0} /\ MaxGeneration \in Nat \ {0}
    /\ MaxAccounts \in Nat

VARIABLES
    clients, key, metric, accounts,
    enabled,        \* the overview is open
    cache,          \* by key: the responses of a round
    generation, rounds, isLoading,
    shown,          \* analytics
    lastBuild,
    error           \* whose failure is reported, 0: none

props == <<clients, key, metric, accounts, enabled>>
vars  == <<props, cache, generation, rounds, isLoading, shown, lastBuild, error>>

Generations == 0..MaxGeneration
\* The responses of the round of that generation, with connection c.
Entries     == [generation : Generations, c : 0..MaxClients]
Uncached    == [generation |-> 0, c |-> 0]
NoBuild     == [key |-> "none"]

\* What analytics were made of: the responses of a round of connection c, or
\* telemetry, which is of no connection.
Analytics == [source : {"none", "history", "telemetry"}, c : 0..MaxClients,
              key : CacheKeys, metric : Metrics, accounts : 0..MaxAccounts]
Builds == [key : CacheKeys, metric : Metrics, responses : Entries,
           accounts : 0..MaxAccounts]

Round(g, c, k) == [generation |-> g, c |-> c, key |-> k, at |-> "ranking"]

-----------------------------------------------------------------------------
(* Building.                                                               *)

Build(k, responses) ==
    [key |-> k, metric |-> metric', responses |-> responses, accounts |-> accounts']

\* Mutant: the metric is not among the inputs compared.
BuildsMatch_AnyMetric(last, built) ==
    last # NoBuild /\ last.key = built.key /\ last.responses = built.responses
        /\ last.accounts = built.accounts
BuildsMatch(last, built) == last = built

\* The analytics on display become those of the responses.
Shows(k, responses) ==
    /\ lastBuild' = Build(k, responses)
    /\ shown' = [source |-> "history", c |-> responses.c, key |-> k,
                 metric |-> metric', accounts |-> accounts']

\* In a render: unless they already are.
ShowsCached(k) ==
    IF BuildsMatch(lastBuild, Build(k, cache[k]))
      THEN UNCHANGED <<shown, lastBuild>>
      ELSE Shows(k, cache[k])

FallsBack(k) ==
    /\ lastBuild' = NoBuild
    /\ shown' = [source |-> "telemetry", c |-> 0, key |-> k,
                 metric |-> metric', accounts |-> accounts']

\* The adjustments of a render in which the metric or the accounts are new.
Rebuilds ==
    IF cache[key] # Uncached THEN ShowsCached(key)
    ELSE IF shown.source = "telemetry" THEN FallsBack(key)
    ELSE UNCHANGED <<shown, lastBuild>>

-----------------------------------------------------------------------------
(* executeRound.                                                           *)

\* Mutant: the generation is taken before it is incremented.
Mine_Before(g) == g - 1
Mine(g) == g

\* executeRound of connection c and key k, up to its first request; n counts a
\* bump of the render before it.
Begins(c, k, n) ==
    LET g == generation + n + 1
    IN  /\ g <= MaxGeneration
        /\ generation' = g
        /\ rounds' = rounds \cup {Round(Mine(g), c, k)}

Superseded(r) == r.generation # generation

Dropped(r) ==
    /\ Superseded(r)
    /\ rounds' = rounds \ {r}
    /\ UNCHANGED <<props, cache, generation, isLoading, shown, lastBuild, error>>

RankingLands(r) ==
    /\ r.at = "ranking" /\ ~ Superseded(r)
    /\ rounds' = (rounds \ {r}) \cup {[r EXCEPT !.at = "series"]}
    /\ UNCHANGED <<props, cache, generation, isLoading, shown, lastBuild, error>>

Responses(r) == [generation |-> r.generation, c |-> r.c]

SeriesLands(r) ==
    /\ UNCHANGED props
    /\ r.at = "series" /\ ~ Superseded(r)
    /\ rounds' = rounds \ {r}
    /\ cache' = [cache EXCEPT ![r.key] = Responses(r)]
    /\ Shows(r.key, Responses(r))
    /\ error' = 0
    /\ isLoading' = FALSE
    /\ UNCHANGED generation

\* Mutant: a failure is reported as of the round.
Reported_Round(r) == r.generation
Reported(r) == r.c

\* Over a cached entry only a failure the operator must act on is reported;
\* without one, telemetry stands in, and an operational failure is not reported.
Fails(r) ==
    /\ UNCHANGED props
    /\ ~ Superseded(r)
    /\ rounds' = rounds \ {r}
    /\ IF cache[r.key] # Uncached
         THEN error' \in {error, Reported(r)} /\ UNCHANGED <<shown, lastBuild>>
         ELSE error' \in {0, Reported(r)} /\ FallsBack(r.key)
    /\ isLoading' = FALSE
    /\ UNCHANGED <<cache, generation>>

Answered(r) == Dropped(r) \/ RankingLands(r) \/ SeriesLands(r) \/ Fails(r)

-----------------------------------------------------------------------------
(* What changes the hook's arguments, or asks for a round.                 *)

\* The minute's timer, and a window that becomes visible.
Repeats ==
    /\ enabled
    /\ Begins(clients, key, 0)
    /\ isLoading' = (isLoading \/ cache[key] = Uncached)
    /\ UNCHANGED <<props, cache, shown, lastBuild, error>>

\* A cached key is on display at once; rows of the old key stay while another loads.
ChangeKey(k) ==
    /\ enabled /\ k # key /\ key' = k
    /\ UNCHANGED <<clients, metric, accounts, enabled>>
    /\ Begins(clients, k, 0)
    /\ IF cache[k] # Uncached
         THEN isLoading' = FALSE /\ ShowsCached(k)
         ELSE isLoading' = TRUE /\ UNCHANGED <<shown, lastBuild>>
    /\ UNCHANGED <<cache, error>>

\* Changing only the metric begins no round.
ChangeMetric(m) ==
    /\ enabled /\ m # metric /\ metric' = m
    /\ UNCHANGED <<clients, key, accounts, enabled>>
    /\ Rebuilds
    /\ UNCHANGED <<cache, generation, rounds, isLoading, error>>

\* A poll brings accounts with other identities.
AccountsChange ==
    /\ accounts < MaxAccounts /\ accounts' = accounts + 1
    /\ UNCHANGED <<clients, key, metric, enabled>>
    /\ Rebuilds
    /\ UNCHANGED <<cache, generation, rounds, isLoading, error>>

Cleared == [k \in CacheKeys |-> Uncached]

\* The render of another connection clears the cache and bumps the generation;
\* the effect begins a round if the overview is open.
Connect ==
    /\ clients < MaxClients /\ clients' = clients + 1
    /\ UNCHANGED <<key, metric, accounts, enabled>>
    /\ cache' = Cleared
    /\ IF enabled
         THEN /\ Begins(clients', key, 1)
              /\ isLoading' = (isLoading \/ cache'[key] = Uncached)
         ELSE /\ generation < MaxGeneration /\ generation' = generation + 1
              /\ UNCHANGED <<rounds, isLoading>>
    /\ UNCHANGED <<shown, lastBuild, error>>

OpenOverview ==
    /\ ~ enabled /\ enabled' = TRUE
    /\ UNCHANGED <<clients, key, metric, accounts>>
    /\ Begins(clients, key, 0)
    /\ isLoading' = (isLoading \/ cache[key] = Uncached)
    /\ UNCHANGED <<cache, shown, lastBuild, error>>

\* A round in flight goes on and lands.
LeaveOverview ==
    /\ enabled /\ enabled' = FALSE
    /\ UNCHANGED <<clients, key, metric, accounts, cache, generation, rounds,
                   isLoading, shown, lastBuild, error>>

\* Mounted with the overview open: its first round has begun.
Init ==
    /\ clients = 1 /\ accounts = 0
    /\ key \in CacheKeys /\ metric \in Metrics
    /\ enabled = TRUE /\ isLoading = TRUE
    /\ cache = [k \in CacheKeys |-> Uncached]
    /\ generation = 1
    /\ rounds = {Round(1, 1, key)}
    /\ shown = [source |-> "none", c |-> 0, key |-> key, metric |-> metric,
                accounts |-> 0]
    /\ lastBuild = NoBuild
    /\ error = 0

Next ==
    \/ \E r \in rounds : Answered(r)
    \/ \E k \in CacheKeys : ChangeKey(k)
    \/ \E m \in Metrics : ChangeMetric(m)
    \/ Repeats \/ AccountsChange \/ Connect \/ OpenOverview \/ LeaveOverview

Spec == Init /\ [][Next]_vars

\* A request ends in an answer, an error or after REQUEST_TIMEOUT_MS; the two that
\* a round makes one after the other end before the timer's minute is over.
FairSpec == Spec /\ WF_vars(\E r \in rounds : Answered(r))

-----------------------------------------------------------------------------
(* Properties.                                                             *)

TypeOK ==
    /\ clients \in 1..MaxClients /\ key \in CacheKeys /\ metric \in Metrics
    /\ accounts \in 0..MaxAccounts
    /\ enabled \in BOOLEAN /\ isLoading \in BOOLEAN
    /\ cache \in [CacheKeys -> Entries]
    /\ generation \in Generations
    /\ rounds \subseteq [generation : Generations, c : 1..MaxClients,
                         key : CacheKeys, at : {"ranking", "series"}]
    /\ shown \in Analytics
    /\ lastBuild \in Builds \cup {NoBuild}
    /\ error \in 0..MaxClients

\* Rows that are not marked as loading are what the controls say: of the range
\* and dimension, the metric and the accounts of the moment, and never of a
\* gateway the console has left, whose failure is not reported either.
ShownFits ==
    enabled /\ ~ isLoading =>
        /\ <<shown.source, shown.c>> \in {<<"history", clients>>, <<"telemetry", 0>>}
        /\ shown.key = key /\ shown.metric = metric /\ shown.accounts = accounts
        /\ error \in {0, clients}

\* An open overview does not stay in the loading state, whichever rounds were
\* superseded and however often the user came and went.
LoadingEnds == enabled /\ isLoading ~> ~ (enabled /\ isLoading)
=============================================================================
