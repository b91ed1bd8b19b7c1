------------------------------ MODULE Authorization ------------------------------
(***************************************************************************)
(* Signing in to a provider: the console begins a session at the gateway,  *)
(* opens the provider's page and asks the gateway for the outcome, every   *)
(* three seconds and when the user clicks Check.                           *)
(*                                                                         *)
(* A step is what JavaScript runs up to an await.  An answer is given when *)
(* the gateway handles the request and applied when it lands.  The clock   *)
(* is left out: a tick comes at any time.  Equal reads in flight are one.  *)
(* All sessions are with one provider, so the keys of the busy slot are    *)
(* equal; what other surfaces put into the slot is left out.  Awaiting a   *)
(* refresh matters only for the slot.                                      *)
(***************************************************************************)
EXTENDS Naturals, FiniteSets

CONSTANTS
    Sessions,       \* bound: the sessions ever begun
    NoSession,      \* no session
    MaxClients,     \* bound: gateways the console talks to, one after another
    MaxReads,       \* bound: questions in flight at once
    MaxEvents,      \* bound: what the user does
    MaxFailures     \* bound: calls that fail

VARIABLES
    clients, events, failures,
    granted,        \* at the gateways: the state of each session
    home,           \* the gateway each session was begun at
    begin,          \* where beginOnboarding is with each session
    authorization,  \* what the dialog shows
    settled,        \* settledAuthStates
    reads,          \* questions in flight
    open, pending,  \* onboardingOpen, and the busy slot
    latest,         \* the session whose page was opened last: history
    strayed         \* a check's answer was applied when its session was no longer
                    \* shown: history

sessionVars == <<granted, home, begin>>
shownVars   == <<authorization, settled, reads, open, pending, latest, strayed>>
vars == <<clients, events, failures, sessionVars, shownVars>>

Nothing == [state |-> NoSession, status |-> "none"]
Shown   == [state : Sessions, status : {"pending", "ok", "error"}] \cup {Nothing}
Read    == [by : {"timer", "check"}, state : Sessions, client : 1..MaxClients,
            answer : {"none", "pending", "ok", "error", "failed", "refresh"}]

Init ==
    /\ clients = 1 /\ events = 0 /\ failures = 0
    /\ granted = [s \in Sessions |-> "none"]
    /\ home = [s \in Sessions |-> 0]
    /\ begin = [s \in Sessions |-> "none"]
    /\ authorization = Nothing
    /\ settled = {}
    /\ reads = {}
    /\ open = FALSE
    /\ pending = ""
    /\ latest = NoSession
    /\ strayed = FALSE

Event   == events < MaxEvents /\ events' = events + 1 /\ UNCHANGED <<clients, failures>>
Failure == failures < MaxFailures /\ failures' = failures + 1 /\ UNCHANGED <<clients, events>>
NoEvent == UNCHANGED <<clients, events, failures>>

\* blocks(pending, "onboarding"), and releasePending.
Blocked      == pending \in {"auth", "auth-status"}
Released(key) == IF pending = key THEN "" ELSE pending

-----------------------------------------------------------------------------
(* The dialog and its effect.                                              *)

\* The session the poll effect asks about when a is shown.
Watched(a) == IF a.status = "pending" THEN a.state ELSE NoSession

\* Mutant: the clean-up only clears the timer.
Uncancelled_All(a, left) == left

\* Of the reads in left, those that are not cancelled once a is shown: the clean-up
\* of the effect cancels the timer's.
Uncancelled(a, left) ==
    IF Watched(a) = Watched(authorization) THEN left ELSE {r \in left : r.by = "check"}

Shows(a, left) == authorization' = a /\ reads' = Uncancelled(a, left)

\* openOnboarding drops what was shown; the re-login of an account whose provider has
\* several methods opens the dialog and keeps it.
OpenDialog ==
    /\ Event /\ ~open
    /\ open' = TRUE
    /\ \E a \in {Nothing, authorization} : Shows(a, reads)
    /\ UNCHANGED <<sessionVars, settled, pending, latest, strayed>>

CloseDialog ==
    /\ Event /\ open
    /\ open' = FALSE
    /\ UNCHANGED <<sessionVars, authorization, settled, reads, pending, latest, strayed>>

-----------------------------------------------------------------------------
(* beginOnboarding.                                                        *)

UnderWay(s) == begin[s] \in {"asked", "opening"}

\* A method is clicked in the dialog, or an account's re-login, which opens the dialog
\* and does not ask for the busy slot.
Begin(s) ==
    /\ Event
    /\ begin[s] = "none"
    /\ open => ~Blocked
    /\ begin' = [begin EXCEPT ![s] = "asked"]
    /\ home' = [home EXCEPT ![s] = clients]
    /\ open' = TRUE /\ pending' = "auth"
    /\ UNCHANGED <<granted, authorization, settled, reads, latest, strayed>>

\* beginProviderAuth is answered; the provider's page is to be opened.
BeginAnswered(s) ==
    /\ begin[s] = "asked"
    /\ granted' = [granted EXCEPT ![s] = "pending"]
    /\ begin' = [begin EXCEPT ![s] = "opening"]
    /\ NoEvent /\ UNCHANGED <<home, shownVars>>

\* The page is open.
BeginShown(s) ==
    /\ begin[s] = "opening"
    /\ begin' = [begin EXCEPT ![s] = "done"]
    /\ Shows([state |-> s, status |-> "pending"], reads)
    /\ latest' = s
    /\ pending' = Released("auth")
    /\ NoEvent /\ UNCHANGED <<granted, home, settled, open, strayed>>

\* The request or the page fails; the session may exist nevertheless.
BeginFails(s) ==
    /\ Failure
    /\ UnderWay(s)
    /\ begin' = [begin EXCEPT ![s] = "done"]
    /\ \/ UNCHANGED granted
       \/ begin[s] = "asked" /\ granted' = [granted EXCEPT ![s] = "pending"]
    /\ pending' = Released("auth")
    /\ UNCHANGED <<home, authorization, settled, reads, open, latest, strayed>>

\* The user approves or refuses on the provider's page, or the session expires.
Decided(s) ==
    /\ granted[s] = "pending"
    /\ \E outcome \in {"ok", "error"} : granted' = [granted EXCEPT ![s] = outcome]
    /\ NoEvent /\ UNCHANGED <<home, begin, shownVars>>

-----------------------------------------------------------------------------
(* Asking for the outcome, and settleAuthorization.                        *)

Ask(by, s) == [by |-> by, state |-> s, client |-> clients, answer |-> "none"]

Asks(by, s) ==
    /\ Cardinality(reads) < MaxReads
    /\ s \notin settled
    /\ reads' = reads \cup {Ask(by, s)}

\* Mutant: the timer is a timeout that nothing sets again after a failure.
Tick_Once ==
    /\ failures = 0 /\ Watched(authorization) # NoSession
    /\ Ask("timer", authorization.state) \notin reads
    /\ Asks("timer", authorization.state)
    /\ NoEvent /\ UNCHANGED <<sessionVars, authorization, settled, open, pending, latest, strayed>>

\* The effect's timer, whether or not its last question is answered.
Tick ==
    /\ Watched(authorization) # NoSession
    /\ Ask("timer", authorization.state) \notin reads
    /\ Asks("timer", authorization.state)
    /\ NoEvent /\ UNCHANGED <<sessionVars, authorization, settled, open, pending, latest, strayed>>

\* checkAuthorization: the button is there while the dialog shows a pending session.
ClickCheck ==
    /\ Event /\ open /\ ~Blocked
    /\ Watched(authorization) # NoSession
    /\ Asks("check", authorization.state)
    /\ pending' = "auth-status"
    /\ UNCHANGED <<sessionVars, authorization, settled, open, latest, strayed>>

Unhandled(r) == r \in reads /\ r.answer = "none"
Replaced(r, answer) == (reads \ {r}) \cup {[r EXCEPT !.answer = answer]}

\* The gateway answers; one that did not begin the session does not know it.
Handled(r) ==
    /\ Unhandled(r)
    /\ \E answer \in IF home[r.state] = r.client THEN {granted[r.state]}
                                                 ELSE {"error", "failed"} :
         reads' = Replaced(r, answer)
    /\ NoEvent
    /\ UNCHANGED <<sessionVars, authorization, settled, open, pending, latest, strayed>>

ReadFails(r) ==
    /\ Failure
    /\ Unhandled(r)
    /\ reads' = Replaced(r, "failed")
    /\ UNCHANGED <<sessionVars, authorization, settled, open, pending, latest, strayed>>

\* Mutant: only the timer looks at settledAuthStates, before it asks.
Settled_Never(s) == FALSE

\* settledAuthStates has the session: another read has applied its outcome.
Settled(s) == s \in settled

\* settleAuthorization of r's answer, when only the reads in left go on.
Settles(r, left) ==
    IF Settled(r.state)
    THEN UNCHANGED <<authorization, settled, open>> /\ reads' = left
    ELSE /\ settled' = IF r.answer = "pending" THEN settled ELSE settled \cup {r.state}
         /\ IF r.answer = "ok"
              THEN open' = FALSE /\ Shows(Nothing, left)
              ELSE /\ Shows([state |-> r.state, status |-> r.answer], left)
                   /\ UNCHANGED open

\* An answer to the timer is applied if it is an outcome.
TimerLands(r) ==
    /\ r \in reads /\ r.by = "timer" /\ r.answer # "none"
    /\ IF r.answer \in {"ok", "error"}
         THEN Settles(r, reads \ {r})
         ELSE reads' = reads \ {r} /\ UNCHANGED <<authorization, settled, open>>
    /\ NoEvent /\ UNCHANGED <<sessionVars, pending, latest, strayed>>

\* An answer to the user's check is applied whatever is shown by now; the busy slot is
\* released at the end, after a refresh if an account was added.
CheckLands(r) ==
    /\ r \in reads /\ r.by = "check" /\ r.answer \in {"pending", "ok", "error"}
    /\ IF r.answer = "ok" /\ ~Settled(r.state)
         THEN Settles(r, Replaced(r, "refresh")) /\ UNCHANGED pending
         ELSE Settles(r, reads \ {r}) /\ pending' = Released("auth-status")
    /\ strayed' = (strayed \/ (~Settled(r.state) /\ authorization.state # r.state))
    /\ NoEvent /\ UNCHANGED <<sessionVars, latest>>

CheckEnds(r) ==
    /\ r \in reads /\ r.by = "check" /\ r.answer \in {"failed", "refresh"}
    /\ reads' = reads \ {r}
    /\ pending' = Released("auth-status")
    /\ NoEvent /\ UNCHANGED <<sessionVars, authorization, settled, open, latest, strayed>>

\* The console talks to another gateway: the poll effect runs again.
Reconnected ==
    /\ reads' = {r \in reads : r.by = "check"}
    /\ UNCHANGED <<sessionVars, authorization, settled, open, pending, latest, strayed>>

-----------------------------------------------------------------------------
BeginSteps == \E s \in Sessions : BeginAnswered(s) \/ BeginShown(s) \/ BeginFails(s) \/ Decided(s)

Answered == \E r \in reads : Handled(r)
Lands    == \E r \in reads : TimerLands(r) \/ CheckLands(r) \/ CheckEnds(r)

Steps == BeginSteps \/ Tick \/ Answered \/ Lands \/ \E r \in reads : ReadFails(r)

\* What the user does in the dialog, and what opens it.
DialogClicks == CloseDialog \/ ClickCheck \/ \E s \in Sessions : open /\ Begin(s)
Opens        == OpenDialog \/ \E s \in Sessions : ~open /\ Begin(s)

-----------------------------------------------------------------------------
(* Properties.                                                             *)

\* Every variable keeps its type.
TypeOK ==
    /\ clients \in 1..MaxClients /\ events \in 0..MaxEvents /\ failures \in 0..MaxFailures
    /\ granted \in [Sessions -> {"none", "pending", "ok", "error"}]
    /\ home \in [Sessions -> 0..MaxClients]
    /\ begin \in [Sessions -> {"none", "asked", "opening", "done"}]
    /\ authorization \in Shown
    /\ settled \subseteq Sessions
    /\ reads \subseteq Read
    /\ open \in BOOLEAN
    /\ pending \in {"", "auth", "auth-status"}
    /\ latest \in Sessions \cup {NoSession}
    /\ strayed \in BOOLEAN

\* "a completion can never be handled twice": a session whose outcome was applied
\* never waits again, although the timer's reads and the user's checks overlap and
\* land in any order; and what is shown is the session whose page was opened last,
\* unless the answer to the user's check of a session since left put that one back.
ShownIsCurrent ==
    /\ Watched(authorization) \notin settled
    /\ ~strayed => authorization.state \in {latest, NoSession}

\* "Approve in the provider window; this updates itself": the outcome of the session
\* that is shown is noticed, unless the user leaves it or its gateway.
Awaited(s) == authorization.state = s /\ home[s] = clients

OutcomeIsNoticed ==
    \A s \in Sessions :
        (Awaited(s) /\ granted[s] \in {"ok", "error"}) ~> (s \in settled \/ ~Awaited(s))
=============================================================================
