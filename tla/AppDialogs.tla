-------------------------------- MODULE AppDialogs --------------------------------
(***************************************************************************)
(* The two drawers over the accounts surface: the one that adds an account  *)
(* and the one with a provider's models.  Each covers the rest of the       *)
(* console, so opening one needs the other closed; what they have asked     *)
(* goes on after they are closed, and both ask the gateway the console      *)
(* talks to at the time.                                                    *)
(***************************************************************************)
EXTENDS Naturals, FiniteSets

CONSTANTS Sessions, NoSession, Models, MaxClients, MaxReads, MaxEvents, MaxFailures

ASSUME DialogsAssumption ==
    /\ NoSession \notin Sessions
    /\ MaxClients \in Nat \ {0}
    /\ {MaxReads, MaxEvents, MaxFailures} \subseteq Nat

VARIABLES
    clients, events, failures,
    granted, home, begin, authorization, settled, reads, open, pending, latest, strayed,
    table, panel, loading, error, listed, excluded, pendingModel, loads, saves, disturbed

Sign  == INSTANCE Authorization
Panel == INSTANCE ModelsPanel

signVars  == <<granted, home, begin, authorization, settled, reads, open, pending,
               latest, strayed>>
panelVars == <<table, panel, loading, error, listed, excluded, pendingModel, loads,
               saves, disturbed>>
vars == <<clients, events, failures, signVars, panelVars>>

Init == Sign!Init /\ Panel!Init

SignClicks  == Sign!DialogClicks /\ UNCHANGED panelVars
SignOpens   == ~panel /\ Sign!Opens /\ UNCHANGED panelVars
SignSteps   == Sign!Steps /\ UNCHANGED panelVars
PanelClicks == Panel!PanelClicks /\ UNCHANGED signVars
PanelOpens  == ~open /\ Panel!OpenPanel /\ UNCHANGED signVars
PanelSteps  == Panel!Steps /\ UNCHANGED signVars

\* A saved URL or a key read from the keychain takes effect, whatever is open by then.
Switched ==
    /\ clients < MaxClients /\ clients' = clients + 1
    /\ events < MaxEvents /\ events' = events + 1
    /\ Sign!Reconnected /\ Panel!Reconnected
    /\ UNCHANGED failures

Next ==
    \/ SignClicks \/ SignOpens \/ SignSteps
    \/ PanelClicks \/ PanelOpens \/ PanelSteps
    \/ Switched

Spec == Init /\ [][Next]_vars

\* setInterval goes on ticking, and every request is answered or times out.
Fairness ==
    /\ WF_vars(Sign!Tick /\ UNCHANGED panelVars)
    /\ WF_vars(Sign!Answered /\ UNCHANGED panelVars)
    /\ WF_vars(Sign!Lands /\ UNCHANGED panelVars)

FairSpec == Spec /\ Fairness

-----------------------------------------------------------------------------
(* Properties.                                                             *)

\* Both drawers keep their types.
TypeOK == Sign!TypeOK /\ Panel!TypeOK

\* "a completion can never be handled twice": a session whose outcome was applied
\* never waits again, and the dialog shows the session opened last (Authorization).
ShownIsCurrent == Sign!ShownIsCurrent

\* "this updates itself": the outcome of the session that is shown is noticed.
OutcomeIsNoticed == Sign!OutcomeIsNoticed

\* Once its reads and saves have ended, the panel shows the gateway's table.
PanelTellsTruth == Panel!PanelTellsTruth
=============================================================================
