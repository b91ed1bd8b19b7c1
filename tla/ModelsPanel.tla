------------------------------- MODULE ModelsPanel -------------------------------
(***************************************************************************)
(* The panel that switches a provider's models off and on.  The gateway    *)
(* keeps the disabled models in one table; the panel reads it when it      *)
(* opens, and every toggle changes the panel's copy at once and saves the  *)
(* whole of it.                                                            *)
(*                                                                         *)
(* The table is that of one provider: its models, under whichever alias.   *)
(* A step is what JavaScript runs up to an await; a request is handled     *)
(* when the gateway answers and ends when the answer lands.                *)
(***************************************************************************)
EXTENDS Naturals, Sequences, SequencesExt

CONSTANTS
    Models,         \* the provider's models
    MaxClients,     \* bound: gateways the console talks to, one after another
    MaxEvents,      \* bound: what the user does
    MaxFailures     \* bound: calls that fail

VARIABLES
    clients, events, failures,
    table,          \* at the gateways: the models disabled at each
    panel,          \* modelsProvider is set
    loading, error, \* modelsLoading, and modelsError is set
    listed,         \* registryModels were read once
    excluded,       \* excludedModelsRef, and what the rows show
    pendingModel,   \* the models whose row is locked: one or none
    loads,          \* reads of openProviderModels in flight
    saves,          \* saves in flight, in the order of their toggles
    disturbed       \* since the panel opened, a save overtook an earlier one, failed
                    \* after the gateway had applied it or another carried it, was in
                    \* flight already, or the gateway changed: history

rowVars   == <<listed, excluded, pendingModel>>
panelVars == <<panel, loading, error, rowVars, loads, saves, disturbed>>
vars == <<clients, events, failures, table, panelVars>>

\* newest: request is modelsRequest.current.
Load == [client : 1..MaxClients, newest : BOOLEAN,
         answer : {[phase |-> "sent"], [phase |-> "failed"]}
                  \cup [phase : {"done"}, excluded : SUBSET Models]]

\* carried: a later toggle has saved this one's change with its own.
Save == [model : Models, was : BOOLEAN, next : SUBSET Models, client : 1..MaxClients,
         phase : {"sent", "done", "failed"}, carried : BOOLEAN]

Init ==
    /\ clients = 1 /\ events = 0 /\ failures = 0
    /\ table = [c \in 1..MaxClients |-> {}]
    /\ panel = FALSE /\ loading = FALSE /\ error = FALSE
    /\ listed = FALSE /\ excluded = {} /\ pendingModel = {}
    /\ loads = {} /\ saves = <<>>
    /\ disturbed = FALSE

Event   == events < MaxEvents /\ events' = events + 1 /\ UNCHANGED <<clients, failures>>
Failure == failures < MaxFailures /\ failures' = failures + 1 /\ UNCHANGED <<clients, events>>
NoEvent == UNCHANGED <<clients, events, failures>>

-----------------------------------------------------------------------------
(* openProviderModels.                                                     *)

\* modelsRequest goes up: no read in flight is the newest.
Superseded == {[l EXCEPT !.newest = FALSE] : l \in loads}

\* The rows keep what an earlier opening left in them until the read lands.
OpenPanel ==
    /\ Event /\ ~panel
    /\ panel' = TRUE /\ loading' = TRUE /\ error' = FALSE
    /\ loads' = Superseded \cup
                {[client |-> clients, newest |-> TRUE, answer |-> [phase |-> "sent"]]}
    /\ disturbed' = (saves # <<>>)
    /\ UNCHANGED <<table, rowVars, saves>>

ClosePanel ==
    /\ Event /\ panel
    /\ panel' = FALSE
    /\ loads' = Superseded
    /\ UNCHANGED <<table, loading, error, rowVars, saves, disturbed>>

LoadAnswered(l, answer) ==
    /\ l \in loads /\ l.answer.phase = "sent"
    /\ loads' = (loads \ {l}) \cup {[l EXCEPT !.answer = answer]}
    /\ UNCHANGED <<table, panel, loading, error, rowVars, saves, disturbed>>

\* Both of the reads' answers, when the second of them is given.
LoadHandled(l) ==
    /\ NoEvent
    /\ LoadAnswered(l, [phase |-> "done", excluded |-> table[l.client]])

LoadFails(l) == Failure /\ LoadAnswered(l, [phase |-> "failed"])

\* Mutant: only the gateway is compared.
Current_Client(l) == l.client = clients

\* current()
Current(l) == l.newest /\ l.client = clients

\* An answer that is not current changes nothing, loading included.
LoadLands(l) ==
    /\ l \in loads /\ l.answer.phase # "sent"
    /\ loads' = loads \ {l}
    /\ IF ~Current(l)
         THEN UNCHANGED <<loading, error, listed, excluded>>
         ELSE /\ loading' = FALSE
              /\ IF l.answer.phase = "failed"
                   THEN error' = TRUE /\ UNCHANGED <<listed, excluded>>
                   ELSE listed' = TRUE /\ excluded' = l.answer.excluded /\ UNCHANGED error
    /\ NoEvent /\ UNCHANGED <<table, panel, pendingModel, saves, disturbed>>

-----------------------------------------------------------------------------
(* toggleModelDisabled.                                                    *)

\* withModelDisabled
WithModel(models, m, disabled) == IF disabled THEN models \cup {m} ELSE models \ {m}

\* Mutant: every toggle in flight keeps its row locked.
Locked_Each(m) == pendingModel \cup {m}

\* setPendingModel: there is one slot.
Locked(m) == {m}

\* The row's box is there once the list was read; it is locked while its own toggle is
\* the last one made.  The save carries every toggle before it.
Toggle(m) ==
    /\ Event
    /\ panel /\ ~loading /\ listed
    /\ m \notin pendingModel
    /\ LET was  == m \in excluded
           next == WithModel(excluded, m, ~was)
       IN /\ excluded' = next
          /\ saves' = Append([i \in DOMAIN saves |-> [saves[i] EXCEPT !.carried = TRUE]],
                             [model |-> m, was |-> was, next |-> next, client |-> clients,
                              phase |-> "sent", carried |-> FALSE])
    /\ pendingModel' = Locked(m)
    /\ UNCHANGED <<table, panel, loading, error, listed, loads, disturbed>>

Sent(i) == saves[i].phase = "sent"
Ends(i, phase) == saves' = [saves EXCEPT ![i].phase = phase]

\* The gateway takes the table of the i-th save, in whatever order saves reach it.
SaveHandled(i) ==
    /\ Sent(i)
    /\ table' = [table EXCEPT ![saves[i].client] = saves[i].next]
    /\ Ends(i, "done")
    /\ disturbed' = (disturbed \/ \E j \in 1..i - 1 : Sent(j))
    /\ NoEvent /\ UNCHANGED <<panel, loading, error, rowVars, loads>>

\* The request fails, before or after the gateway has applied it.
SaveFails(i) ==
    /\ Failure
    /\ Sent(i)
    /\ Ends(i, "failed")
    /\ \/ UNCHANGED <<table, disturbed>>
       \/ /\ table' = [table EXCEPT ![saves[i].client] = saves[i].next]
          /\ disturbed' = TRUE
    /\ UNCHANGED <<panel, loading, error, rowVars, loads>>

\* The refresh that follows a save never throws.
SaveReturns(i) ==
    /\ saves[i].phase = "done"
    /\ saves' = RemoveAt(saves, i)
    /\ pendingModel' = pendingModel \ {saves[i].model}
    /\ NoEvent
    /\ UNCHANGED <<table, panel, loading, error, listed, excluded, loads, disturbed>>

\* "Roll back only this model; a toggle made meanwhile stays applied."
SaveRollsBack(i) ==
    /\ saves[i].phase = "failed"
    /\ excluded' = WithModel(excluded, saves[i].model, saves[i].was)
    /\ disturbed' = (disturbed \/ saves[i].carried)
    /\ saves' = RemoveAt(saves, i)
    /\ pendingModel' = pendingModel \ {saves[i].model}
    /\ NoEvent /\ UNCHANGED <<table, panel, loading, error, listed, loads>>

\* The console talks to another gateway; the panel, if open, keeps the old one's rows.
Reconnected ==
    /\ disturbed' = TRUE
    /\ UNCHANGED <<table, panel, loading, error, rowVars, loads, saves>>

-----------------------------------------------------------------------------
Steps ==
    \/ \E l \in loads : LoadHandled(l) \/ LoadFails(l) \/ LoadLands(l)
    \/ \E i \in DOMAIN saves :
         SaveHandled(i) \/ SaveFails(i) \/ SaveReturns(i) \/ SaveRollsBack(i)

PanelClicks == ClosePanel \/ \E m \in Models : Toggle(m)

-----------------------------------------------------------------------------
(* Properties.                                                             *)

\* Every variable keeps its type.
TypeOK ==
    /\ clients \in 1..MaxClients /\ events \in 0..MaxEvents /\ failures \in 0..MaxFailures
    /\ table \in [1..MaxClients -> SUBSET Models]
    /\ {panel, loading, error, listed, disturbed} \subseteq BOOLEAN
    /\ excluded \subseteq Models
    /\ pendingModel \subseteq Models /\ \A m, n \in pendingModel : m = n
    /\ loads \subseteq Load
    /\ saves \in Seq(Save)

\* "The gateway's list is authoritative": once its reads and saves have ended, the open
\* panel shows the gateway's table, however often it was closed and opened, in whatever
\* order reads landed, and after toggles that overlapped and a save that failed, as
\* long as none of the cases that disturbed names has happened since it opened.
PanelTellsTruth ==
    panel /\ ~loading /\ ~error /\ saves = <<>> /\ ~disturbed
        => excluded = table[clients]
=============================================================================
