------------------------- MODULE OverviewAnalyticsProofs -------------------------
(***************************************************************************)
(* Proofs about OverviewAnalytics, for any number of connections, rounds,  *)
(* ranges, dimensions, metrics and changes of the accounts.                *)
(***************************************************************************)
EXTENDS OverviewAnalytics, TLAPS

\* The round that counts is of the connection and the key of the moment.
FreshInv ==
    \A r \in rounds : /\ r.generation <= generation
                      /\ ~ Superseded(r) => r.c = clients /\ r.key = key

\* The cache is of the connection, and a failure reported beside it too.
CacheInv ==
    \A k \in CacheKeys : cache[k] # Uncached =>
        cache[k].c = clients /\ error \in {0, clients}

\* What is remembered of the last build is what is on display.
BuildInv ==
    lastBuild # NoBuild =>
        shown = [source |-> "history", c |-> lastBuild.responses.c,
                 key |-> lastBuild.key, metric |-> lastBuild.metric,
                 accounts |-> lastBuild.accounts]

Made(source, c, k, m, n) ==
    [source |-> source, c |-> c, key |-> k, metric |-> m, accounts |-> n]

\* A cached key is on display, and nothing loads.
CachedShown ==
    cache[key] # Uncached =>
        ~ isLoading /\ shown = Made("history", clients, key, metric, accounts)

\* Without it an open overview that loads nothing fell back to telemetry.
UncachedShown ==
    enabled /\ ~ isLoading /\ cache[key] = Uncached =>
        shown = Made("telemetry", 0, key, metric, accounts) /\ error \in {0, clients}

Inv == TypeOK /\ FreshInv /\ CacheInv /\ BuildInv /\ CachedShown /\ UncachedShown

-----------------------------------------------------------------------------
(* Records and numbers.                                                    *)

Rounds == [generation : Generations, c : 1..MaxClients, key : CacheKeys,
           at : {"ranking", "series"}]

LEMMA NoBuildFacts == NoBuild \notin Builds
  BY DEF NoBuild, Builds

LEMMA UncachedFacts == Uncached \in Entries /\ Uncached.c = 0 /\ Uncached.generation = 0
  BY AnalyticsAssumption DEF Uncached, Entries, Generations

LEMMA ResponsesFacts ==
  ASSUME NEW r \in Rounds
  PROVE  Responses(r) \in Entries /\ Responses(r).c = r.c /\ Responses(r) # Uncached
<1>1. r.c \in 0..MaxClients /\ r.c # 0 /\ r.generation \in Generations
  BY AnalyticsAssumption DEF Rounds
<1> QED
  BY <1>1 DEF Responses, Entries, Uncached

LEMMA TypeFacts ==
  ASSUME TypeOK
  PROVE  /\ clients \in 1..MaxClients /\ clients \in Nat /\ clients # 0
         /\ generation \in Nat /\ generation \in Generations
         /\ accounts \in Nat
         /\ rounds \subseteq Rounds
         /\ \A k \in CacheKeys : cache[k] \in Entries
  BY AnalyticsAssumption DEF TypeOK, Generations, Rounds

\* A round begun is the newest.
LEMMA BeginsFacts ==
  ASSUME TypeOK, FreshInv, NEW c \in 1..MaxClients, NEW k \in CacheKeys, NEW n \in {0, 1},
         Begins(c, k, n), clients' = c, key' = k
  PROVE  /\ generation' \in Generations /\ rounds' \subseteq Rounds
         /\ FreshInv'
<1> DEFINE g == generation + n + 1
           r0 == Round(g, c, k)
<1>1. /\ g \in Nat /\ g > generation /\ g \in Generations
      /\ generation' = g /\ rounds' = rounds \cup {r0}
  <2>1. g <= MaxGeneration /\ generation' = g /\ rounds' = rounds \cup {r0}
    BY DEF Begins, Mine
  <2> QED
    BY <2>1, TypeFacts, AnalyticsAssumption DEF Generations
<1>2. r0 \in Rounds /\ r0.generation = g /\ r0.c = c /\ r0.key = k
  BY <1>1 DEF Round, Rounds
<1> HIDE DEF g, r0
<1>3. \A r \in rounds : r.generation \in Nat /\ r.generation <= generation /\ generation \in Nat
  BY TypeFacts, AnalyticsAssumption DEF FreshInv, Rounds, Generations
<1>4. \A r \in rounds : r.generation <= g /\ r.generation # g
  BY <1>1, <1>3
<1> QED
  BY <1>1, <1>2, <1>4, TypeFacts DEF FreshInv, Superseded

-----------------------------------------------------------------------------
(* What is put on display.                                                 *)

InputsType == metric' \in Metrics /\ accounts' \in 0..MaxAccounts
ShownType  == shown \in Analytics /\ lastBuild \in Builds \cup {NoBuild}

LEMMA ShowsFacts ==
  ASSUME InputsType, NEW k \in CacheKeys, NEW e \in Entries, Shows(k, e)
  PROVE  ShownType' /\ BuildInv' /\ shown' = Made("history", e.c, k, metric', accounts')
<1>1. Build(k, e) \in Builds /\ lastBuild' = Build(k, e)
  BY DEF Build, Builds, InputsType, Shows
<1>2. /\ Build(k, e).key = k /\ Build(k, e).metric = metric'
      /\ Build(k, e).responses = e /\ Build(k, e).accounts = accounts'
  BY DEF Build
<1>3. shown' = [source |-> "history", c |-> e.c, key |-> k, metric |-> metric',
                accounts |-> accounts']
  BY DEF Shows
<1>4. shown' \in Analytics
  BY <1>3 DEF Analytics, Entries, InputsType
<1> QED
  BY <1>1, <1>2, <1>3, <1>4 DEF ShownType, BuildInv, Made

LEMMA ShowsCachedFacts ==
  ASSUME ShownType, BuildInv, InputsType, NEW k \in CacheKeys, cache[k] \in Entries,
         ShowsCached(k)
  PROVE  ShownType' /\ BuildInv' /\ shown' = Made("history", cache[k].c, k, metric', accounts')
<1>1. CASE BuildsMatch(lastBuild, Build(k, cache[k]))
  <2>1. /\ lastBuild = Build(k, cache[k]) /\ UNCHANGED <<shown, lastBuild>>
    BY <1>1 DEF BuildsMatch, ShowsCached
  <2>2. Build(k, cache[k]) \in Builds
    BY DEF Build, Builds, InputsType
  <2>3. lastBuild # NoBuild
    BY <2>1, <2>2, NoBuildFacts
  <2>4. /\ lastBuild.key = k /\ lastBuild.metric = metric'
        /\ lastBuild.responses = cache[k] /\ lastBuild.accounts = accounts'
    BY <2>1 DEF Build
  <2> QED
    BY <2>1, <2>3, <2>4 DEF BuildInv, ShownType, Made
<1>2. CASE ~ BuildsMatch(lastBuild, Build(k, cache[k]))
  BY <1>2, ShowsFacts DEF ShowsCached
<1> QED
  BY <1>1, <1>2

LEMMA FallsBackFacts ==
  ASSUME InputsType, NEW k \in CacheKeys, FallsBack(k)
  PROVE  ShownType' /\ BuildInv' /\ shown' = Made("telemetry", 0, k, metric', accounts')
<1>1. /\ lastBuild' = NoBuild
      /\ shown' = [source |-> "telemetry", c |-> 0, key |-> k, metric |-> metric',
                   accounts |-> accounts']
  BY DEF FallsBack
<1>2. shown' \in Analytics
  BY <1>1, AnalyticsAssumption DEF Analytics, InputsType
<1> QED
  BY <1>1, <1>2 DEF ShownType, BuildInv, Made

LEMMA RebuildsFacts ==
  ASSUME TypeOK, BuildInv, InputsType, Rebuilds
  PROVE  /\ ShownType' /\ BuildInv'
         /\ cache[key] # Uncached => shown' = Made("history", cache[key].c, key, metric', accounts')
         /\ cache[key] = Uncached /\ shown.source = "telemetry" =>
               shown' = Made("telemetry", 0, key, metric', accounts')
<1>0. ShownType /\ key \in CacheKeys /\ cache[key] \in Entries
  BY DEF TypeOK, ShownType
<1>1. CASE cache[key] # Uncached /\ ShowsCached(key)
  BY <1>0, <1>1, ShowsCachedFacts
<1>2. CASE cache[key] = Uncached /\ FallsBack(key)
  BY <1>0, <1>2, FallsBackFacts
<1>3. CASE cache[key] = Uncached /\ shown.source # "telemetry" /\ UNCHANGED <<shown, lastBuild>>
  BY <1>0, <1>3 DEF ShownType, BuildInv
<1> QED
  BY <1>1, <1>2, <1>3 DEF Rebuilds

-----------------------------------------------------------------------------
(* The steps.                                                              *)

LEMMA InvInit == Init => Inv
<1> SUFFICES ASSUME Init PROVE Inv
  OBVIOUS
<1>1. /\ 1 \in Nat /\ 0 \in Nat /\ 1 \in 1..MaxClients /\ 0 \in 0..MaxClients
      /\ 1 \in Generations /\ 0 \in 0..MaxAccounts
  BY AnalyticsAssumption DEF Generations
<1>2. key \in CacheKeys /\ metric \in Metrics
  BY DEF Init
<1>3. cache \in [CacheKeys -> Entries] /\ \A k \in CacheKeys : cache[k] = Uncached
  BY UncachedFacts DEF Init
<1>4. Round(1, 1, key) \in Rounds /\ Round(1, 1, key).generation = 1
      /\ Round(1, 1, key).c = 1 /\ Round(1, 1, key).key = key
  BY <1>1, <1>2 DEF Round, Rounds
<1>5. rounds = {Round(1, 1, key)} /\ generation = 1 /\ clients = 1
  BY DEF Init
<1>6. shown \in Analytics
  BY <1>1, <1>2 DEF Init, Analytics
<1>7. TypeOK
  <2>1. rounds \subseteq Rounds /\ clients \in 1..MaxClients /\ generation \in Generations
    BY <1>1, <1>4, <1>5
  <2> QED
    BY <1>1, <1>2, <1>3, <1>6, <2>1 DEF Init, TypeOK, Rounds
<1>8. FreshInv
  BY <1>1, <1>4, <1>5 DEF FreshInv
<1>9. CacheInv /\ CachedShown
  BY <1>2, <1>3 DEF CacheInv, CachedShown
<1>10. BuildInv /\ UncachedShown
  BY DEF Init, BuildInv, UncachedShown
<1> QED
  BY <1>7, <1>8, <1>9, <1>10 DEF Inv

\* A round that goes takes nothing from the others.
LEMMA RoundGoes ==
  ASSUME TypeOK, FreshInv, NEW r \in rounds, rounds' = rounds \ {r},
         UNCHANGED <<clients, key, generation>>
  PROVE  rounds' \subseteq Rounds /\ FreshInv'
  BY TypeFacts DEF FreshInv, Superseded

LEMMA InvStep == Inv /\ [Next]_vars => Inv'
<1> SUFFICES ASSUME Inv, [Next]_vars PROVE Inv'
  OBVIOUS
<1>0. TypeOK /\ FreshInv /\ CacheInv /\ BuildInv /\ CachedShown /\ UncachedShown
  BY DEF Inv
<1>a. /\ ShownType /\ key \in CacheKeys /\ metric \in Metrics /\ accounts \in 0..MaxAccounts
      /\ \A k \in CacheKeys : cache[k] \in Entries
      /\ clients \in 1..MaxClients /\ clients \in 0..MaxClients /\ 0 \in 0..MaxClients
      /\ rounds \subseteq Rounds /\ generation \in Generations /\ generation \in Nat
  BY <1>0, TypeFacts, AnalyticsAssumption DEF TypeOK, ShownType
<1>1. ASSUME NEW r \in rounds, Dropped(r) PROVE Inv'
  <2>1. /\ UNCHANGED <<clients, key, metric, accounts, enabled, cache, generation,
                       isLoading, shown, lastBuild, error>>
        /\ rounds' = rounds \ {r}
    BY <1>1 DEF Dropped, props
  <2>2. rounds' \subseteq Rounds /\ FreshInv'
    BY <1>0, <2>1, RoundGoes
  <2>3. TypeOK'
    BY <1>0, <2>1, <2>2 DEF TypeOK, Rounds
  <2>4. CacheInv' /\ BuildInv' /\ CachedShown' /\ UncachedShown'
    BY <1>0, <2>1 DEF CacheInv, BuildInv, CachedShown, UncachedShown, Made
  <2> QED
    BY <2>2, <2>3, <2>4 DEF Inv
<1>2. ASSUME NEW r \in rounds, RankingLands(r) PROVE Inv'
  <2> DEFINE r2 == [r EXCEPT !.at = "series"]
  <2>1. /\ UNCHANGED <<clients, key, metric, accounts, enabled, cache, generation,
                       isLoading, shown, lastBuild, error>>
        /\ rounds' = (rounds \ {r}) \cup {r2}
    BY <1>2 DEF RankingLands, props
  <2>2. r2 \in Rounds /\ r2.generation = r.generation /\ r2.c = r.c /\ r2.key = r.key
    <3>1. r \in Rounds
      BY <1>a
    <3> QED
      BY <3>1 DEF Rounds
  <2> HIDE DEF r2
  <2>3. rounds' \subseteq Rounds /\ FreshInv'
    BY <1>0, <1>a, <2>1, <2>2 DEF FreshInv, Superseded
  <2>4. TypeOK'
    BY <1>0, <2>1, <2>3 DEF TypeOK, Rounds
  <2>5. CacheInv' /\ BuildInv' /\ CachedShown' /\ UncachedShown'
    BY <1>0, <2>1 DEF CacheInv, BuildInv, CachedShown, UncachedShown, Made
  <2> QED
    BY <2>3, <2>4, <2>5 DEF Inv
<1>3. ASSUME NEW r \in rounds, SeriesLands(r) PROVE Inv'
  <2>1. /\ UNCHANGED <<clients, key, metric, accounts, enabled, generation>>
        /\ rounds' = rounds \ {r}
        /\ cache' = [cache EXCEPT ![r.key] = Responses(r)]
        /\ Shows(r.key, Responses(r)) /\ error' = 0 /\ isLoading' = FALSE
        /\ r \in Rounds /\ r.c = clients /\ r.key = key
    BY <1>0, <1>3, <1>a DEF SeriesLands, props, FreshInv
  <2>2. Responses(r) \in Entries /\ Responses(r).c = clients /\ Responses(r) # Uncached
    BY <2>1, ResponsesFacts
  <2>3. /\ ShownType' /\ BuildInv'
        /\ shown' = Made("history", clients, key, metric', accounts')
    BY <1>a, <2>1, <2>2, ShowsFacts DEF InputsType
  <2>4. rounds' \subseteq Rounds /\ FreshInv'
    BY <1>0, <2>1, RoundGoes
  <2>5. cache' \in [CacheKeys -> Entries]
    BY <1>0, <2>1, <2>2 DEF TypeOK
  <2>6. TypeOK'
    BY <1>0, <1>a, <2>1, <2>3, <2>4, <2>5 DEF TypeOK, Rounds, ShownType
  <2>7. CacheInv'
    BY <1>0, <1>a, <2>1, <2>2 DEF CacheInv, TypeOK
  <2>8. cache'[key'] # Uncached
    BY <1>0, <1>a, <2>1, <2>2 DEF TypeOK
  <2>9. CachedShown' /\ UncachedShown'
    BY <2>1, <2>3, <2>8 DEF CachedShown, UncachedShown
  <2> QED
    BY <2>3, <2>4, <2>6, <2>7, <2>9 DEF Inv
<1>4. ASSUME NEW r \in rounds, Fails(r) PROVE Inv'
  <2>1. /\ UNCHANGED <<clients, key, metric, accounts, enabled, generation, cache>>
        /\ rounds' = rounds \ {r} /\ isLoading' = FALSE
        /\ r \in Rounds /\ r.c = clients /\ r.key = key
    BY <1>0, <1>4, <1>a DEF Fails, props, FreshInv
  <2>2. rounds' \subseteq Rounds /\ FreshInv'
    BY <1>0, <2>1, RoundGoes
  <2>3. CASE cache[key] # Uncached /\ error' \in {error, clients} /\ UNCHANGED <<shown, lastBuild>>
    <3>1. TypeOK'
      BY <1>0, <1>a, <2>1, <2>2, <2>3 DEF TypeOK, Rounds
    <3>2. CacheInv'
      BY <1>0, <2>1, <2>3 DEF CacheInv
    <3>3. BuildInv' /\ CachedShown' /\ UncachedShown'
      BY <1>0, <2>1, <2>3 DEF BuildInv, CachedShown, UncachedShown, Made
    <3> QED
      BY <2>2, <3>1, <3>2, <3>3 DEF Inv
  <2>4. CASE cache[key] = Uncached /\ error' \in {0, clients} /\ FallsBack(key)
    <3>1. /\ ShownType' /\ BuildInv'
          /\ shown' = Made("telemetry", 0, key, metric', accounts')
      BY <1>a, <2>1, <2>4, FallsBackFacts DEF InputsType
    <3>2. TypeOK'
      BY <1>0, <1>a, <2>1, <2>2, <2>4, <3>1 DEF TypeOK, Rounds, ShownType
    <3>3. CacheInv'
      BY <1>0, <2>1, <2>4 DEF CacheInv
    <3>4. CachedShown' /\ UncachedShown'
      BY <2>1, <2>4, <3>1 DEF CachedShown, UncachedShown
    <3> QED
      BY <2>2, <3>1, <3>2, <3>3, <3>4 DEF Inv
  <2> QED
    BY <1>4, <2>1, <2>3, <2>4 DEF Fails, Reported
<1>5. CASE Repeats \/ OpenOverview
  <2>1. /\ Begins(clients, key, 0)
        /\ isLoading' = (isLoading \/ cache[key] = Uncached)
        /\ UNCHANGED <<clients, key, metric, accounts, cache, shown, lastBuild, error>>
        /\ enabled' = TRUE
    BY <1>0, <1>5 DEF Repeats, OpenOverview, props, TypeOK
  <2>2. generation' \in Generations /\ rounds' \subseteq Rounds /\ FreshInv'
    BY <1>0, <1>a, <2>1, BeginsFacts
  <2>3. TypeOK'
    BY <1>0, <2>1, <2>2 DEF TypeOK, Rounds
  <2>4. CacheInv' /\ BuildInv' /\ CachedShown' /\ UncachedShown'
    BY <1>0, <2>1 DEF CacheInv, BuildInv, CachedShown, UncachedShown, Made
  <2> QED
    BY <2>2, <2>3, <2>4 DEF Inv
<1>6. ASSUME NEW k \in CacheKeys, ChangeKey(k) PROVE Inv'
  <2>1. /\ Begins(clients, k, 0) /\ key' = k
        /\ UNCHANGED <<clients, metric, accounts, enabled, cache, error>>
    BY <1>6 DEF ChangeKey
  <2>2. generation' \in Generations /\ rounds' \subseteq Rounds /\ FreshInv'
    BY <1>0, <1>a, <2>1, BeginsFacts
  <2>3. CacheInv'
    BY <1>0, <2>1 DEF CacheInv
  <2>4. CASE cache[k] # Uncached /\ isLoading' = FALSE /\ ShowsCached(k)
    <3>1. /\ ShownType' /\ BuildInv'
          /\ shown' = Made("history", cache[k].c, k, metric', accounts')
      BY <1>0, <1>a, <2>1, <2>4, ShowsCachedFacts DEF InputsType
    <3>2. cache[k].c = clients
      BY <1>0, <2>4 DEF CacheInv
    <3>3. TypeOK'
      BY <1>0, <2>1, <2>2, <2>4, <3>1 DEF TypeOK, Rounds, ShownType
    <3>4. CachedShown' /\ UncachedShown'
      BY <2>1, <2>4, <3>1, <3>2 DEF CachedShown, UncachedShown
    <3> QED
      BY <2>2, <2>3, <3>1, <3>3, <3>4 DEF Inv
  <2>5. CASE cache[k] = Uncached /\ isLoading' = TRUE /\ UNCHANGED <<shown, lastBuild>>
    <3>1. TypeOK'
      BY <1>0, <2>1, <2>2, <2>5 DEF TypeOK, Rounds
    <3>2. BuildInv' /\ CachedShown' /\ UncachedShown'
      BY <1>0, <2>1, <2>5 DEF BuildInv, CachedShown, UncachedShown
    <3> QED
      BY <2>2, <2>3, <3>1, <3>2 DEF Inv
  <2> QED
    BY <1>6, <2>4, <2>5 DEF ChangeKey
<1>7. ASSUME AccountsChange \/ \E m \in Metrics : ChangeMetric(m) PROVE Inv'
  <2>1. /\ InputsType /\ Rebuilds
        /\ UNCHANGED <<clients, key, enabled, cache, generation, rounds, isLoading, error>>
    <3>1. CASE AccountsChange
      <4>1. accounts' \in 0..MaxAccounts
        BY <1>a, <3>1, AnalyticsAssumption DEF AccountsChange
      <4> QED
        BY <1>a, <3>1, <4>1 DEF AccountsChange, InputsType
    <3>2. CASE \E m \in Metrics : ChangeMetric(m)
      BY <1>a, <3>2 DEF ChangeMetric, InputsType
    <3> QED
      BY <1>7, <3>1, <3>2
  <2>2. /\ ShownType' /\ BuildInv'
        /\ cache[key] # Uncached => shown' = Made("history", cache[key].c, key, metric', accounts')
        /\ cache[key] = Uncached /\ shown.source = "telemetry" =>
              shown' = Made("telemetry", 0, key, metric', accounts')
    BY <1>0, <2>1, RebuildsFacts
  <2>3. TypeOK'
    BY <1>0, <2>1, <2>2 DEF TypeOK, InputsType, ShownType
  <2>4. FreshInv' /\ CacheInv'
    BY <1>0, <2>1 DEF FreshInv, CacheInv, Superseded
  <2>5. CachedShown'
    BY <1>0, <1>a, <2>1, <2>2 DEF CachedShown, CacheInv
  <2>6. enabled /\ ~ isLoading /\ cache[key] = Uncached => shown.source = "telemetry"
    BY <1>0 DEF UncachedShown, Made
  <2>7. UncachedShown'
    BY <1>0, <2>1, <2>2, <2>6 DEF UncachedShown
  <2> QED
    BY <2>2, <2>3, <2>4, <2>5, <2>7 DEF Inv
<1>8. CASE Connect
  <2>1. /\ clients' = clients + 1 /\ clients < MaxClients
        /\ UNCHANGED <<key, metric, accounts, enabled, shown, lastBuild, error>>
        /\ cache' = Cleared
    BY <1>8 DEF Connect
  <2>2. clients' \in 1..MaxClients
    BY <1>a, <2>1, AnalyticsAssumption
  <2>3. /\ cache' \in [CacheKeys -> Entries]
        /\ \A k \in CacheKeys : cache'[k] = Uncached
    BY <2>1, UncachedFacts DEF Cleared
  <2>4. CacheInv' /\ BuildInv' /\ CachedShown'
    BY <1>0, <1>a, <2>1, <2>3 DEF CacheInv, BuildInv, CachedShown
  <2>5. CASE enabled
    <3>1. /\ Begins(clients', key, 1)
          /\ isLoading' = (isLoading \/ cache'[key] = Uncached)
      BY <1>8, <2>5 DEF Connect
    <3>2. generation' \in Generations /\ rounds' \subseteq Rounds /\ FreshInv'
      BY <1>0, <1>a, <2>1, <2>2, <3>1, BeginsFacts
    <3>3. isLoading' = TRUE
      BY <1>0, <1>a, <2>3, <3>1 DEF TypeOK
    <3>4. TypeOK'
      BY <1>0, <2>1, <2>2, <2>3, <3>2, <3>3 DEF TypeOK, Rounds
    <3> QED
      BY <2>4, <3>2, <3>3, <3>4 DEF Inv, UncachedShown
  <2>6. CASE ~ enabled
    <3>1. /\ generation < MaxGeneration /\ generation' = generation + 1
          /\ UNCHANGED <<rounds, isLoading>>
      BY <1>8, <2>6 DEF Connect
    <3>2. generation' \in Generations /\ generation' > generation /\ generation' \in Nat
      BY <1>a, <3>1, AnalyticsAssumption DEF Generations
    <3>3. \A r \in rounds : r.generation \in Nat /\ r.generation <= generation
      BY <1>0, <1>a, AnalyticsAssumption DEF FreshInv, Rounds, Generations
    <3>4. \A r \in rounds : r.generation <= generation' /\ r.generation # generation'
      BY <1>a, <3>2, <3>3
    <3>5. FreshInv'
      BY <3>1, <3>4 DEF FreshInv, Superseded
    <3>6. TypeOK'
      BY <1>0, <2>1, <2>2, <2>3, <3>1, <3>2 DEF TypeOK
    <3> QED
      BY <2>1, <2>4, <2>6, <3>5, <3>6 DEF Inv, UncachedShown
  <2> QED
    BY <2>5, <2>6
<1>9. CASE LeaveOverview
  <2>1. /\ UNCHANGED <<clients, key, metric, accounts, cache, generation, rounds,
                       isLoading, shown, lastBuild, error>>
        /\ enabled' = FALSE
    BY <1>9 DEF LeaveOverview
  <2>2. TypeOK'
    BY <1>0, <2>1 DEF TypeOK
  <2> QED
    BY <1>0, <2>1, <2>2
    DEF Inv, FreshInv, Superseded, CacheInv, BuildInv, CachedShown, UncachedShown, Made
<1>10. CASE UNCHANGED vars
  <2>1. UNCHANGED <<clients, key, metric, accounts, enabled, cache, generation, rounds,
                    isLoading, shown, lastBuild, error>>
    BY <1>10 DEF vars, props
  <2>2. TypeOK'
    BY <1>0, <2>1 DEF TypeOK
  <2> QED
    BY <1>0, <2>1, <2>2
    DEF Inv, FreshInv, Superseded, CacheInv, BuildInv, CachedShown, UncachedShown, Made
<1> QED
  BY <1>1, <1>2, <1>3, <1>4, <1>5, <1>6, <1>7, <1>8, <1>9, <1>10 DEF Next, Answered

LEMMA ShownSuffices ==
  ASSUME Inv
  PROVE  ShownFits
<1> SUFFICES ASSUME enabled, ~ isLoading PROVE
        /\ <<shown.source, shown.c>> \in {<<"history", clients>>, <<"telemetry", 0>>}
        /\ shown.key = key /\ shown.metric = metric /\ shown.accounts = accounts
        /\ error \in {0, clients}
  BY DEF ShownFits
<1>1. CASE cache[key] # Uncached
  <2>1. shown = Made("history", clients, key, metric, accounts)
    BY <1>1 DEF Inv, CachedShown
  <2>2. error \in {0, clients}
    BY <1>1 DEF Inv, CacheInv, TypeOK
  <2> QED
    BY <2>1, <2>2 DEF Made
<1>2. CASE cache[key] = Uncached
  <2>1. shown = Made("telemetry", 0, key, metric, accounts) /\ error \in {0, clients}
    BY <1>2 DEF Inv, UncachedShown
  <2> QED
    BY <2>1 DEF Made
<1> QED
  BY <1>1, <1>2

-----------------------------------------------------------------------------
(* The theorems.                                                           *)

LEMMA Invariance == Spec => []Inv
  BY InvInit, InvStep, PTL DEF Spec

\* The hook's state keeps its types; with it, rounds are numbered within the bound.
THEOREM AnalyticsTypes == Spec => []TypeOK
<1>1. Inv => TypeOK
  BY DEF Inv
<1> QED
  BY <1>1, Invariance, PTL

\* Rows that are not marked as loading fit the controls and the gateway, however
\* many rounds were superseded, cached or answered late.
THEOREM ShownAlwaysFits == Spec => []ShownFits
<1>1. Inv => ShownFits
  BY ShownSuffices
<1> QED
  BY <1>1, Invariance, PTL
=============================================================================
