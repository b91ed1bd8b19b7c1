---------------------------- MODULE AppDialogsProofs ----------------------------
(***************************************************************************)
(* Proofs about the two drawers: what the sign-in dialog shows and what    *)
(* the models panel shows, for any sessions, models, gateways, reads and   *)
(* saves in flight, failures and events.                                   *)
(***************************************************************************)
EXTENDS AppDialogs, Sequences, SequenceTheorems, TLAPS

-----------------------------------------------------------------------------
(* What both drawers count.                                                *)

CountsOK ==
    clients \in 1..MaxClients /\ events \in 0..MaxEvents /\ failures \in 0..MaxFailures

LEMMA CountsInit == clients = 1 /\ events = 0 /\ failures = 0 => CountsOK
  BY DialogsAssumption DEF CountsOK

LEMMA ClientNumber == CountsOK => clients \in 0..MaxClients
<1>1. MaxClients \in Nat
  BY DialogsAssumption
<1> QED
  BY <1>1 DEF CountsOK

LEMMA CountsStep ==
  ASSUME CountsOK,
         \/ UNCHANGED <<clients, events, failures>>
         \/ events < MaxEvents /\ events' = events + 1 /\ UNCHANGED <<clients, failures>>
         \/ failures < MaxFailures /\ failures' = failures + 1 /\ UNCHANGED <<clients, events>>
         \/ /\ clients < MaxClients /\ clients' = clients + 1
            /\ events < MaxEvents /\ events' = events + 1 /\ UNCHANGED failures
  PROVE  CountsOK'
<1>1. MaxEvents \in Nat /\ MaxFailures \in Nat /\ MaxClients \in Nat
  BY DialogsAssumption
<1> QED
  BY <1>1 DEF CountsOK

-----------------------------------------------------------------------------
(* The sign-in dialog: its invariant.                                      *)

Done == {s \in Sessions : begin[s] = "done"}

\* Nothing is asked, shown or settled of a session whose page was not opened.
BegunInv ==
    /\ settled \subseteq Done
    /\ authorization.state \in Done \cup {NoSession}
    /\ \A r \in reads : r.state \in Done

\* The timer's reads in flight are of the session that is waiting.
TimersOf(rs) == \A r \in rs : r.by = "timer" => r.state = Sign!Watched(authorization)
TimerInv == TimersOf(reads)

SignInv == Sign!TypeOK /\ BegunInv /\ TimerInv /\ Sign!ShownIsCurrent

LEMMA UncancelledFacts ==
  ASSUME NEW a, NEW left, TimersOf(left)
  PROVE  /\ Sign!Uncancelled(a, left) \subseteq left
         /\ \A r \in Sign!Uncancelled(a, left) :
              r.by = "timer" => r.state = Sign!Watched(a)
<1>1. CASE Sign!Watched(a) = Sign!Watched(authorization)
  BY <1>1 DEF Sign!Uncancelled, TimersOf
<1>2. CASE Sign!Watched(a) # Sign!Watched(authorization)
  <2>1. Sign!Uncancelled(a, left) = {r \in left : r.by = "check"}
    BY <1>2 DEF Sign!Uncancelled
  <2> QED
    BY <2>1
<1> QED
  BY <1>1, <1>2

\* What is shown changes to a.
LEMMA ShowsFacts ==
  ASSUME NEW a, NEW left, TimersOf(left), Sign!Shows(a, left)
  PROVE  authorization' = a /\ reads' \subseteq left /\ TimerInv'
<1>1. authorization' = a /\ reads' = Sign!Uncancelled(a, left)
  BY DEF Sign!Shows
<1>2. Sign!Watched(authorization)' = Sign!Watched(a)
  BY <1>1 DEF Sign!Watched
<1> QED
  BY <1>1, <1>2, UncancelledFacts DEF TimerInv, TimersOf

\* What is shown stays; reads are answered, dropped or asked about what is shown.
LEMMA StillShown ==
  ASSUME SignInv, UNCHANGED <<authorization, settled, latest, strayed>>,
         Done \subseteq Done',
         \A r \in reads' :
            \/ \E q \in reads : r.by = q.by /\ r.state = q.state
            \/ r.state = Sign!Watched(authorization) /\ r.state # NoSession
  PROVE  BegunInv' /\ TimerInv' /\ Sign!ShownIsCurrent'
<1>1. Sign!Watched(authorization)' = Sign!Watched(authorization)
  BY DEF Sign!Watched
<1>2. Sign!ShownIsCurrent'
  BY <1>1 DEF SignInv, Sign!ShownIsCurrent
<1>3. Sign!Watched(authorization) \in Done \cup {NoSession}
  BY DEF Sign!Watched, SignInv, BegunInv
<1>4. BegunInv'
  BY <1>3 DEF SignInv, BegunInv
<1>5. TimerInv'
  BY <1>1 DEF SignInv, TimerInv, TimersOf
<1> QED
  BY <1>2, <1>4, <1>5

-----------------------------------------------------------------------------
(* Its steps.                                                              *)

LEMMA DialogOpens ==
  ASSUME SignInv, Sign!OpenDialog
  PROVE  SignInv'
<1>1. PICK a \in {Sign!Nothing, authorization} : Sign!Shows(a, reads)
  BY DEF Sign!OpenDialog
<1>2. /\ UNCHANGED <<granted, home, begin, settled, pending, latest, strayed>>
      /\ open' = TRUE /\ CountsOK'
  BY CountsStep DEF Sign!OpenDialog, Sign!Event, Sign!sessionVars, SignInv, Sign!TypeOK,
     CountsOK
<1>3. authorization' = a /\ reads' \subseteq reads /\ TimerInv'
  BY <1>1, ShowsFacts DEF SignInv, TimerInv
<1>4. Sign!TypeOK'
  <2>1. a \in Sign!Shown
    BY DEF SignInv, Sign!TypeOK, Sign!Shown
  <2> QED
    BY <1>2, <1>3, <2>1 DEF SignInv, Sign!TypeOK, CountsOK
<1>5. Sign!Nothing.state = NoSession /\ Sign!Nothing.status = "none"
  BY DEF Sign!Nothing
<1>6. a.state \in Done \cup {NoSession} /\ Done' = Done
  BY <1>2, <1>5 DEF SignInv, BegunInv, Done
<1>7. BegunInv'
  BY <1>2, <1>3, <1>6 DEF SignInv, BegunInv
<1>8. Sign!ShownIsCurrent'
  <2>1. CASE a = authorization
    BY <1>2, <1>3, <2>1 DEF SignInv, Sign!ShownIsCurrent, Sign!Watched
  <2>2. CASE a = Sign!Nothing
    <3>1. Sign!Watched(authorization)' = NoSession /\ authorization'.state = NoSession
      BY <1>3, <1>5, <2>2 DEF Sign!Watched
    <3>2. NoSession \notin settled'
      BY <1>2, DialogsAssumption DEF SignInv, Sign!TypeOK
    <3> QED
      BY <3>1, <3>2 DEF Sign!ShownIsCurrent
  <2> QED
    BY <2>1, <2>2
<1> QED
  BY <1>3, <1>4, <1>7, <1>8 DEF SignInv

LEMMA QuietSignSteps ==
  ASSUME SignInv,
         \/ Sign!CloseDialog
         \/ \E s \in Sessions : Sign!Begin(s) \/ Sign!BeginAnswered(s)
                                \/ Sign!BeginFails(s) \/ Sign!Decided(s)
  PROVE  SignInv'
<1>h. clients \in 0..MaxClients
  BY ClientNumber DEF SignInv, Sign!TypeOK, CountsOK
<1> USE DialogsAssumption DEF Sign!sessionVars, Sign!shownVars, Sign!Event, Sign!NoEvent,
        Sign!Failure
<1>1. UNCHANGED <<authorization, settled, reads, latest, strayed>>
  BY DEF Sign!CloseDialog, Sign!Begin, Sign!BeginAnswered, Sign!BeginFails, Sign!Decided
<1>2. Done \subseteq Done'
  BY DEF Done, Sign!CloseDialog, Sign!Begin, Sign!BeginAnswered, Sign!BeginFails,
     Sign!Decided, Sign!UnderWay, SignInv, Sign!TypeOK
<1>c. CountsOK'
  BY CountsStep DEF Sign!CloseDialog, Sign!Begin, Sign!BeginAnswered, Sign!BeginFails,
     Sign!Decided, SignInv, Sign!TypeOK, CountsOK
<1>3. Sign!TypeOK'
  <2> USE <1>c DEF SignInv, Sign!TypeOK, Sign!Released, CountsOK
  <2>1. CASE Sign!CloseDialog
    BY <2>1 DEF Sign!CloseDialog
  <2>2. ASSUME NEW s \in Sessions, Sign!Begin(s) PROVE Sign!TypeOK'
    <3>2. home' \in [Sessions -> 0..MaxClients]
      BY <1>h, <2>2 DEF Sign!Begin
    <3>3. begin' = [begin EXCEPT ![s] = "asked"] /\ open' = TRUE /\ pending' = "auth"
          /\ UNCHANGED <<granted, authorization, settled, reads, latest, strayed>>
      BY <2>2 DEF Sign!Begin
    <3> QED
      BY <3>2, <3>3
  <2>3. ASSUME NEW s \in Sessions, Sign!BeginAnswered(s) PROVE Sign!TypeOK'
    BY <2>3 DEF Sign!BeginAnswered
  <2>4. ASSUME NEW s \in Sessions, Sign!BeginFails(s) PROVE Sign!TypeOK'
    <3>1. begin' = [begin EXCEPT ![s] = "done"] /\ pending' = Sign!Released("auth")
          /\ UNCHANGED <<home, authorization, settled, reads, open, latest, strayed>>
      BY <2>4 DEF Sign!BeginFails
    <3>2. granted' = granted \/ granted' = [granted EXCEPT ![s] = "pending"]
      BY <2>4 DEF Sign!BeginFails
    <3> QED
      BY <3>1, <3>2
  <2>5. ASSUME NEW s \in Sessions, Sign!Decided(s) PROVE Sign!TypeOK'
    BY <2>5 DEF Sign!Decided
  <2> HIDE DEF SignInv, Sign!TypeOK, CountsOK
  <2> QED
    BY <2>1, <2>2, <2>3, <2>4, <2>5
<1>4. BegunInv' /\ TimerInv' /\ Sign!ShownIsCurrent'
  BY <1>1, <1>2, StillShown
<1> QED
  BY <1>3, <1>4 DEF SignInv

\* The provider's page is open: the session is shown, and was never settled.
LEMMA PageOpens ==
  ASSUME SignInv, NEW s \in Sessions, Sign!BeginShown(s)
  PROVE  SignInv'
<1> DEFINE a == [state |-> s, status |-> "pending"]
<1>1. /\ begin[s] = "opening" /\ begin' = [begin EXCEPT ![s] = "done"]
      /\ Sign!Shows(a, reads) /\ latest' = s
      /\ UNCHANGED <<clients, events, failures, granted, home, settled, open, strayed>>
      /\ pending' = Sign!Released("auth")
  BY DEF Sign!BeginShown, Sign!NoEvent
<1>2. authorization' = a /\ reads' \subseteq reads /\ TimerInv'
  BY <1>1, ShowsFacts DEF SignInv, TimerInv
<1>3. Sign!TypeOK'
  BY <1>1, <1>2, DialogsAssumption DEF SignInv, Sign!TypeOK, Sign!Shown, Sign!Released
<1>4. s \notin settled /\ s \in Done' /\ Done \subseteq Done'
  BY <1>1 DEF SignInv, BegunInv, Done, Sign!TypeOK
<1>5. BegunInv'
  BY <1>1, <1>2, <1>4 DEF SignInv, BegunInv
<1>6. Sign!ShownIsCurrent'
  BY <1>1, <1>2, <1>4 DEF Sign!ShownIsCurrent, Sign!Watched
<1> QED
  BY <1>2, <1>3, <1>5, <1>6 DEF SignInv

\* A question is asked, answered at the gateway, lost, or its answer dropped.
LEMMA ReadSteps ==
  ASSUME SignInv,
         \/ Sign!Tick \/ Sign!ClickCheck
         \/ \E r \in reads : Sign!Handled(r) \/ Sign!ReadFails(r) \/ Sign!CheckEnds(r)
  PROVE  SignInv'
<1> USE DialogsAssumption DEF Sign!sessionVars, Sign!Event, Sign!NoEvent, Sign!Failure
<1>1. UNCHANGED <<granted, home, begin, authorization, settled, open, latest, strayed,
                  clients>>
  BY DEF Sign!Tick, Sign!ClickCheck, Sign!Handled, Sign!ReadFails, Sign!CheckEnds
<1>2. Done' = Done
  BY <1>1 DEF Done
<1>3. CountsOK' /\ pending' \in {"", "auth", "auth-status"}
  <2>1. CountsOK
    BY DEF SignInv, Sign!TypeOK, CountsOK
  <2>2. CountsOK'
    BY <2>1, CountsStep DEF Sign!Tick, Sign!ClickCheck, Sign!Handled, Sign!ReadFails,
       Sign!CheckEnds
  <2>3. pending' \in {pending, "auth-status", ""}
    BY DEF Sign!Tick, Sign!ClickCheck, Sign!Handled, Sign!ReadFails, Sign!CheckEnds,
       Sign!Released
  <2> QED
    BY <2>2, <2>3 DEF SignInv, Sign!TypeOK
<1>4. ASSUME Sign!Tick \/ Sign!ClickCheck
      PROVE  \A r \in reads' : r \in reads \/
                (/\ r.state = Sign!Watched(authorization) /\ r.state # NoSession
                 /\ r \in Sign!Read)
  <2>1. PICK by \in {"timer", "check"} : Sign!Asks(by, authorization.state)
    BY <1>4 DEF Sign!Tick, Sign!ClickCheck
  <2>2. Sign!Watched(authorization) # NoSession
    BY <1>4 DEF Sign!Tick, Sign!ClickCheck
  <2>3. Sign!Watched(authorization) = authorization.state /\ authorization.state \in Sessions
    <3>1. authorization.status = "pending" /\ authorization.state # NoSession
      BY <2>2 DEF Sign!Watched
    <3>2. authorization.state \in Done \cup {NoSession}
      BY DEF SignInv, BegunInv
    <3> QED
      BY <3>1, <3>2 DEF Sign!Watched, Done
  <2>4. reads' = reads \cup {Sign!Ask(by, authorization.state)}
    BY <2>1 DEF Sign!Asks
  <2>5. Sign!Ask(by, authorization.state) \in Sign!Read
    BY <2>3 DEF Sign!Ask, Sign!Read, SignInv, Sign!TypeOK
  <2>6. Sign!Ask(by, authorization.state).state = authorization.state
    BY DEF Sign!Ask
  <2> QED
    BY <2>2, <2>3, <2>4, <2>5, <2>6
<1>5. ASSUME NEW r \in reads, Sign!Handled(r) \/ Sign!ReadFails(r) \/ Sign!CheckEnds(r)
      PROVE  \A q \in reads' :
               q \in Sign!Read /\ \E x \in reads : q.by = x.by /\ q.state = x.state
  <2>1. r \in Sign!Read
    BY DEF SignInv, Sign!TypeOK
  <2>2. ASSUME NEW answer \in {"none", "pending", "ok", "error", "failed", "refresh"}
        PROVE  /\ [r EXCEPT !.answer = answer] \in Sign!Read
               /\ [r EXCEPT !.answer = answer].by = r.by
               /\ [r EXCEPT !.answer = answer].state = r.state
    BY <2>1 DEF Sign!Read
  <2>3. CASE Sign!Handled(r)
    <3>1. PICK answer \in {"none", "pending", "ok", "error", "failed"} :
             reads' = Sign!Replaced(r, answer)
      BY <2>1, <2>3 DEF Sign!Handled, SignInv, Sign!TypeOK, Sign!Read
    <3> QED
      BY <2>2, <3>1 DEF Sign!Replaced, SignInv, Sign!TypeOK
  <2>4. CASE Sign!ReadFails(r)
    BY <2>2, <2>4 DEF Sign!ReadFails, Sign!Replaced, SignInv, Sign!TypeOK
  <2>5. CASE Sign!CheckEnds(r)
    BY <2>5 DEF Sign!CheckEnds, SignInv, Sign!TypeOK
  <2> QED
    BY <1>5, <2>3, <2>4, <2>5
<1>6. /\ reads' \subseteq Sign!Read
      /\ \A r \in reads' :
            \/ \E q \in reads : r.by = q.by /\ r.state = q.state
            \/ r.state = Sign!Watched(authorization) /\ r.state # NoSession
  BY <1>4, <1>5 DEF SignInv, Sign!TypeOK
<1>7. Sign!TypeOK'
  BY <1>1, <1>3, <1>6 DEF SignInv, Sign!TypeOK, CountsOK
<1>8. BegunInv' /\ TimerInv' /\ Sign!ShownIsCurrent'
  BY <1>1, <1>2, <1>6, StillShown
<1> QED
  BY <1>7, <1>8 DEF SignInv

\* An answer is applied: the session it is of stays shown, or is settled for good.
LEMMA SettlesFacts ==
  ASSUME SignInv, NEW r \in reads, NEW left \in SUBSET Sign!Read, TimersOf(left),
         \A q \in left : q.state \in Done,
         r.answer \in {"pending", "ok", "error"}, Sign!Settles(r, left),
         UNCHANGED <<begin, latest>>, strayed => strayed',
         strayed' \/ r.state \in settled \/ authorization.state = r.state
  PROVE  /\ authorization' \in Sign!Shown /\ settled' \subseteq Sessions
         /\ reads' \subseteq Sign!Read /\ (open \in BOOLEAN => open' \in BOOLEAN)
         /\ BegunInv' /\ TimerInv' /\ Sign!ShownIsCurrent'
<1>1. Done' = Done /\ r.state \in Done /\ r.state \in Sessions
  BY DEF Done, SignInv, BegunInv
<1>n. NoSession \notin Sessions /\ settled \subseteq Sessions
      /\ authorization \in Sign!Shown
  BY DialogsAssumption DEF SignInv, Sign!TypeOK
<1>2. CASE r.state \in settled
  <2>1. UNCHANGED <<authorization, settled, open>> /\ reads' = left
    BY <1>2 DEF Sign!Settles, Sign!Settled
  <2>2. Sign!Watched(authorization)' = Sign!Watched(authorization)
    BY <2>1 DEF Sign!Watched
  <2>3. TimerInv'
    BY <2>1, <2>2 DEF TimerInv, TimersOf
  <2>4. BegunInv'
    BY <1>1, <2>1 DEF SignInv, BegunInv
  <2>5. Sign!ShownIsCurrent'
    BY <2>1, <2>2 DEF SignInv, Sign!ShownIsCurrent
  <2> QED
    BY <1>n, <2>1, <2>3, <2>4, <2>5
<1>3. CASE r.state \notin settled
  <2>1. /\ settled' = IF r.answer = "pending" THEN settled ELSE settled \cup {r.state}
        /\ \/ r.answer = "ok" /\ open' = FALSE /\ Sign!Shows(Sign!Nothing, left)
           \/ /\ r.answer # "ok" /\ open' = open
              /\ Sign!Shows([state |-> r.state, status |-> r.answer], left)
    BY <1>3 DEF Sign!Settles, Sign!Settled
  <2>2. settled' \subseteq Done' /\ settled' \subseteq Sessions
    BY <1>1, <1>n, <2>1 DEF SignInv, BegunInv
  <2>3. Sign!Nothing \in Sign!Shown /\ Sign!Nothing.state = NoSession
        /\ Sign!Nothing.status = "none"
    BY DEF Sign!Shown, Sign!Nothing
  <2>4. CASE r.answer = "ok" /\ open' = FALSE /\ Sign!Shows(Sign!Nothing, left)
    <3>1. authorization' = Sign!Nothing /\ reads' \subseteq left /\ TimerInv'
      BY <2>4, ShowsFacts
    <3>2. BegunInv'
      BY <1>1, <2>2, <2>3, <3>1 DEF BegunInv
    <3>3. Sign!ShownIsCurrent'
      BY <1>n, <2>2, <2>3, <3>1 DEF Sign!ShownIsCurrent, Sign!Watched
    <3> QED
      BY <2>2, <2>3, <2>4, <3>1, <3>2, <3>3
  <2>5. CASE /\ r.answer # "ok" /\ open' = open
             /\ Sign!Shows([state |-> r.state, status |-> r.answer], left)
    <3>1. authorization' = [state |-> r.state, status |-> r.answer]
          /\ reads' \subseteq left /\ TimerInv'
      BY <2>5, ShowsFacts
    <3>2. BegunInv'
      BY <1>1, <2>2, <3>1 DEF BegunInv
    <3>3. authorization' \in Sign!Shown
      BY <1>1, <2>5, <3>1 DEF Sign!Shown
    <3>4. Sign!Watched(authorization)' \notin settled'
      <4>1. CASE r.answer = "pending"
        BY <1>3, <2>1, <3>1, <4>1 DEF Sign!Watched
      <4>2. CASE r.answer = "error"
        BY <1>n, <2>2, <3>1, <4>2 DEF Sign!Watched
      <4> QED
        BY <2>5, <4>1, <4>2
    <3>5. ~ strayed' => authorization'.state \in {latest', NoSession}
      BY <1>3, <3>1 DEF SignInv, Sign!ShownIsCurrent
    <3> QED
      BY <2>2, <2>5, <3>1, <3>2, <3>3, <3>4, <3>5 DEF Sign!ShownIsCurrent
  <2> QED
    BY <2>1, <2>4, <2>5
<1> QED
  BY <1>2, <1>3

\* The timer's answer is of the session that is waiting.
LEMMA TimerLandsStep ==
  ASSUME SignInv, NEW r \in reads, Sign!TimerLands(r)
  PROVE  SignInv'
<1>1. UNCHANGED <<clients, events, failures, granted, home, begin, pending, latest, strayed>>
      /\ r.by = "timer"
  BY DEF Sign!TimerLands, Sign!NoEvent, Sign!sessionVars
<1>2. CASE r.answer \in {"ok", "error"}
  <2>1. Sign!Settles(r, reads \ {r})
    BY <1>2 DEF Sign!TimerLands
  <2>2. authorization.state = r.state
    <3>1. r.state = Sign!Watched(authorization) /\ r.state \in Sessions
      BY <1>1 DEF SignInv, TimerInv, TimersOf, Sign!TypeOK, Sign!Read
    <3> QED
      BY <3>1, DialogsAssumption DEF Sign!Watched
  <2>3. /\ reads \ {r} \in SUBSET Sign!Read /\ TimersOf(reads \ {r})
        /\ \A q \in reads \ {r} : q.state \in Done
    BY DEF SignInv, TimerInv, TimersOf, BegunInv, Sign!TypeOK
  <2>4. /\ authorization' \in Sign!Shown /\ settled' \subseteq Sessions
        /\ reads' \subseteq Sign!Read /\ (open \in BOOLEAN => open' \in BOOLEAN)
        /\ BegunInv' /\ TimerInv' /\ Sign!ShownIsCurrent'
    BY <1>1, <1>2, <2>1, <2>2, <2>3, SettlesFacts
  <2> QED
    BY <1>1, <2>4 DEF SignInv, Sign!TypeOK
<1>3. CASE r.answer \notin {"ok", "error"}
  <2>1. reads' = reads \ {r} /\ UNCHANGED <<authorization, settled, open>>
    BY <1>3 DEF Sign!TimerLands
  <2>2. BegunInv' /\ TimerInv' /\ Sign!ShownIsCurrent'
    BY <1>1, <2>1, StillShown DEF Done
  <2> QED
    BY <1>1, <2>1, <2>2 DEF SignInv, Sign!TypeOK
<1> QED
  BY <1>2, <1>3

LEMMA CheckLandsStep ==
  ASSUME SignInv, NEW r \in reads, Sign!CheckLands(r)
  PROVE  SignInv'
<1>1. UNCHANGED <<clients, events, failures, granted, home, begin, latest>>
      /\ r.by = "check" /\ r.answer \in {"pending", "ok", "error"}
      /\ strayed' = (strayed \/ (r.state \notin settled /\ authorization.state # r.state))
  BY DEF Sign!CheckLands, Sign!NoEvent, Sign!sessionVars, Sign!Settled
<1>2. PICK left \in {Sign!Replaced(r, "refresh"), reads \ {r}} :
         Sign!Settles(r, left) /\ pending' \in {pending, Sign!Released("auth-status")}
  BY DEF Sign!CheckLands
<1>3. /\ left \in SUBSET Sign!Read /\ TimersOf(left)
      /\ \A q \in left : q.state \in Done
  <2>1. reads \subseteq Sign!Read /\ TimersOf(reads) /\ \A q \in reads : q.state \in Done
    BY DEF SignInv, TimerInv, BegunInv, Sign!TypeOK
  <2> DEFINE n == [r EXCEPT !.answer = "refresh"]
  <2>2. n \in Sign!Read /\ n.by = "check" /\ n.state = r.state
    BY <1>1, <2>1 DEF Sign!Read
  <2>3. \A q \in left : q \in reads \/ q = n
    BY DEF Sign!Replaced
  <2> HIDE DEF n
  <2> QED
    BY <2>1, <2>2, <2>3 DEF TimersOf
<1>4. strayed' \in BOOLEAN /\ (strayed => strayed')
      /\ (strayed' \/ r.state \in settled \/ authorization.state = r.state)
  BY <1>1 DEF SignInv, Sign!TypeOK
<1>5. /\ authorization' \in Sign!Shown /\ settled' \subseteq Sessions
      /\ reads' \subseteq Sign!Read /\ (open \in BOOLEAN => open' \in BOOLEAN)
      /\ BegunInv' /\ TimerInv' /\ Sign!ShownIsCurrent'
  BY <1>1, <1>2, <1>3, <1>4, SettlesFacts
<1>6. pending' \in {"", "auth", "auth-status"}
  BY <1>2 DEF Sign!Released, SignInv, Sign!TypeOK
<1> QED
  BY <1>1, <1>4, <1>5, <1>6 DEF SignInv, Sign!TypeOK

LEMMA SignStays ==
  ASSUME SignInv, UNCHANGED signVars, CountsOK'
  PROVE  SignInv'
  BY DEF signVars, SignInv, BegunInv, TimerInv, TimersOf, Done, Sign!TypeOK,
     Sign!ShownIsCurrent, Sign!Watched, CountsOK

LEMMA SignReconnects ==
  ASSUME SignInv, Sign!Reconnected, CountsOK'
  PROVE  SignInv'
<1>1. UNCHANGED <<granted, home, begin, authorization, settled, open, pending, latest, strayed>>
      /\ reads' \subseteq reads
  BY DEF Sign!Reconnected, Sign!sessionVars
<1>2. BegunInv' /\ TimerInv' /\ Sign!ShownIsCurrent'
  BY <1>1, StillShown DEF Done
<1> QED
  BY <1>1, <1>2 DEF SignInv, Sign!TypeOK, CountsOK

LEMMA SignNext ==
  ASSUME SignInv, Sign!DialogClicks \/ Sign!Opens \/ Sign!Steps
  PROVE  SignInv'
  BY DialogOpens, QuietSignSteps, PageOpens, ReadSteps, TimerLandsStep, CheckLandsStep
     DEF Sign!DialogClicks, Sign!Opens, Sign!Steps, Sign!BeginSteps, Sign!Answered, Sign!Lands

LEMMA SignInit == Sign!Init => SignInv
<1> SUFFICES ASSUME Sign!Init PROVE SignInv
  OBVIOUS
<1>1. Sign!TypeOK
  <2>1. CountsOK
    BY CountsInit DEF Sign!Init
  <2>3. 0 \in 0..MaxClients
    BY DialogsAssumption
  <2>2. authorization \in Sign!Shown
    BY DEF Sign!Init, Sign!Shown
  <2> QED
    BY <2>1, <2>2, <2>3 DEF Sign!Init, Sign!TypeOK, CountsOK
<1>2. authorization.state = NoSession /\ authorization.status = "none"
  BY DEF Sign!Init, Sign!Nothing
<1> QED
  BY <1>1, <1>2 DEF Sign!Init, SignInv, BegunInv, TimerInv, TimersOf, Sign!ShownIsCurrent,
     Sign!Watched

-----------------------------------------------------------------------------
(* The models panel: its invariant.                                        *)

\* Only the read of the last opening can set what the panel shows.
OneNewest ==
    /\ \A l \in loads : l.newest => panel /\ loading
    /\ \A l, k \in loads : l.newest /\ k.newest => l = k

\* A save that no later toggle has carried is the last one.
OnlyLastUncarried == \A i \in DOMAIN saves : ~ saves[i].carried => i = Len(saves)

\* Rolling this one back will disturb the panel.
Doomed == \E i \in DOMAIN saves : saves[i].phase = "failed" /\ saves[i].carried

\* While it loads, nothing is saved and the answer is the gateway's table.
Reading ==
    /\ saves = <<>>
    /\ \A l \in loads : l.newest =>
          /\ l.client = clients
          /\ l.answer.phase = "done" => l.answer.excluded = table[clients]

\* What the panel shows when the i-th save is the last one, and what the toggle
\* of the i-th save found.
After(i) ==
    IF i = 0 \/ saves[i].phase = "done" THEN table[clients] ELSE saves[i].next
Found(i) == Panel!WithModel(saves[i].next, saves[i].model, saves[i].was)

\* The gateway has taken the first saves, in order; each of the others adds one
\* toggle to what the one before it saves.
InStep ==
    /\ \A i \in DOMAIN saves : saves[i].client = clients
    /\ \A i \in DOMAIN saves : saves[i].phase = "done" =>
          \A j \in 1..i : saves[j].phase = "done"
    /\ \A i \in DOMAIN saves : saves[i].phase # "done" => Found(i) = After(i - 1)
    /\ excluded = After(Len(saves))

PanelInv ==
    panel /\ ~ disturbed =>
        /\ loading => Reading
        /\ ~ loading /\ ~ error /\ ~ Doomed => InStep

DrawerInv == Panel!TypeOK /\ OneNewest /\ OnlyLastUncarried /\ PanelInv

\* With no save left there is nothing to be in step with but the table.
LEMMA DrawerTells == DrawerInv => Panel!PanelTellsTruth
<1> SUFFICES ASSUME DrawerInv, panel, ~ loading, ~ error, saves = <<>>, ~ disturbed
             PROVE  excluded = table[clients]
  BY DEF Panel!PanelTellsTruth
<1>1. ~ Doomed /\ Len(saves) = 0
  BY DEF Doomed
<1>2. InStep
  BY <1>1 DEF DrawerInv, PanelInv
<1> QED
  BY <1>1, <1>2 DEF InStep, After

-----------------------------------------------------------------------------
(* Sequences of saves.                                                     *)

LEMMA RemoveAtFacts ==
  ASSUME NEW S, NEW s \in Seq(S), NEW i \in 1..Len(s)
  PROVE  /\ Panel!RemoveAt(s, i) \in Seq(S)
         /\ Len(Panel!RemoveAt(s, i)) = Len(s) - 1
         /\ \A j \in 1..Len(s) - 1 :
              Panel!RemoveAt(s, i)[j] = IF j < i THEN s[j] ELSE s[j + 1]
<1> DEFINE a == SubSeq(s, 1, i - 1)
           b == SubSeq(s, i + 1, Len(s))
<1>1. a \in Seq(S) /\ Len(a) = i - 1 /\ \A j \in 1..i - 1 : a[j] = s[j]
  OBVIOUS
<1>2. b \in Seq(S) /\ Len(b) = Len(s) - i /\ \A j \in 1..Len(s) - i : b[j] = s[i + j]
  OBVIOUS
<1>3. Panel!RemoveAt(s, i) = a \o b
  BY DEF Panel!RemoveAt
<1> HIDE DEF a, b
<1>4. /\ a \o b \in Seq(S) /\ Len(a \o b) = Len(a) + Len(b)
      /\ \A j \in 1..Len(a) + Len(b) :
           (a \o b)[j] = IF j <= Len(a) THEN a[j] ELSE b[j - Len(a)]
  BY <1>1, <1>2, ConcatProperties
<1>5. Len(a) + Len(b) = Len(s) - 1
  BY <1>1, <1>2
<1>6. ASSUME NEW j \in 1..Len(s) - 1
      PROVE  (a \o b)[j] = IF j < i THEN s[j] ELSE s[j + 1]
  <2>1. CASE j < i
    BY <1>1, <1>4, <1>5, <2>1
  <2>2. CASE ~ j < i
    <3>1. j - Len(a) \in 1..Len(s) - i /\ i + (j - Len(a)) = j + 1
      BY <1>1, <2>2
    <3>2. (a \o b)[j] = b[j - Len(a)]
      BY <1>1, <1>4, <1>5, <2>2
    <3> QED
      BY <1>2, <2>2, <3>1, <3>2
  <2> QED
    BY <2>1, <2>2
<1> QED
  BY <1>3, <1>4, <1>5, <1>6

LEMMA PhaseFacts ==
  ASSUME NEW x \in Panel!Save, NEW phase \in {"sent", "done", "failed"}
  PROVE  LET y == [x EXCEPT !.phase = phase]
         IN  /\ y \in Panel!Save /\ y.phase = phase /\ y.client = x.client
             /\ y.model = x.model /\ y.was = x.was /\ y.next = x.next
             /\ y.carried = x.carried
  BY DEF Panel!Save

LEMMA CarriedFacts ==
  ASSUME NEW x \in Panel!Save
  PROVE  LET y == [x EXCEPT !.carried = TRUE]
         IN  /\ y \in Panel!Save /\ y.carried /\ y.client = x.client
             /\ y.model = x.model /\ y.was = x.was /\ y.next = x.next
             /\ y.phase = x.phase
  BY DEF Panel!Save

LEMMA EndsFacts ==
  ASSUME saves \in Seq(Panel!Save), NEW i \in DOMAIN saves,
         NEW phase \in {"sent", "done", "failed"}, Panel!Ends(i, phase)
  PROVE  /\ saves' \in Seq(Panel!Save) /\ Len(saves') = Len(saves)
         /\ DOMAIN saves' = DOMAIN saves
         /\ saves'[i].phase = phase
         /\ \A j \in DOMAIN saves : j # i => saves'[j] = saves[j]
         /\ \A j \in DOMAIN saves :
              /\ saves'[j].client = saves[j].client /\ saves'[j].model = saves[j].model
              /\ saves'[j].was = saves[j].was /\ saves'[j].next = saves[j].next
              /\ saves'[j].carried = saves[j].carried
<1>1. PICK y : y = [saves[i] EXCEPT !.phase = phase]
  OBVIOUS
<1>2. saves' = [saves EXCEPT ![i] = y]
  BY <1>1, Zenon DEF Panel!Ends
<1>3. saves[i] \in Panel!Save
  OBVIOUS
<1>4. /\ y \in Panel!Save /\ y.phase = phase /\ y.client = saves[i].client
      /\ y.model = saves[i].model /\ y.was = saves[i].was /\ y.next = saves[i].next
      /\ y.carried = saves[i].carried
  BY <1>1, <1>3, PhaseFacts, Zenon
<1>5. saves' \in Seq(Panel!Save) /\ Len(saves') = Len(saves) /\ DOMAIN saves' = DOMAIN saves
  BY <1>2, <1>4
<1>6. saves'[i] = y /\ \A j \in DOMAIN saves : j # i => saves'[j] = saves[j]
  BY <1>2
<1> QED
  BY <1>4, <1>5, <1>6

\* The saves before a toggle, all carried by it, and the save of the toggle.
LEMMA AppendFacts ==
  ASSUME saves \in Seq(Panel!Save), NEW new \in Panel!Save,
         saves' = Append([i \in DOMAIN saves |-> [saves[i] EXCEPT !.carried = TRUE]], new)
  PROVE  /\ saves' \in Seq(Panel!Save) /\ Len(saves') = Len(saves) + 1
         /\ saves'[Len(saves) + 1] = new
         /\ \A j \in DOMAIN saves :
              /\ saves'[j].client = saves[j].client /\ saves'[j].model = saves[j].model
              /\ saves'[j].was = saves[j].was /\ saves'[j].next = saves[j].next
              /\ saves'[j].phase = saves[j].phase /\ saves'[j].carried
<1> DEFINE all == [i \in DOMAIN saves |-> [saves[i] EXCEPT !.carried = TRUE]]
<1>2. /\ DOMAIN saves = 1..Len(saves) /\ Len(saves) \in Nat
      /\ \A j \in DOMAIN saves : saves[j] \in Panel!Save
  OBVIOUS
<1>1. \A j \in DOMAIN saves :
        /\ all[j] \in Panel!Save /\ all[j].carried /\ all[j].client = saves[j].client
        /\ all[j].model = saves[j].model /\ all[j].was = saves[j].was
        /\ all[j].next = saves[j].next /\ all[j].phase = saves[j].phase
  <2> TAKE j \in DOMAIN saves
  <2>1. saves[j] \in Panel!Save
    BY <1>2
  <2>2. all[j] = [saves[j] EXCEPT !.carried = TRUE]
    BY Zenon
  <2> QED
    BY <2>1, <2>2, CarriedFacts, Zenon
<1>3. DOMAIN all = DOMAIN saves /\ all = [i \in DOMAIN saves |-> all[i]]
  BY Zenon
<1>6. saves' = Append(all, new)
  BY Zenon
<1> HIDE DEF all
<1>4. all \in Seq(Panel!Save) /\ Len(all) = Len(saves)
  <2>1. all \in [1..Len(saves) -> Panel!Save]
    BY <1>1, <1>2, <1>3
  <2> QED
    BY <1>2, <2>1, SeqDef
<1>7. /\ saves' \in Seq(Panel!Save) /\ Len(saves') = Len(all) + 1
      /\ saves'[Len(all) + 1] = new /\ \A j \in 1..Len(all) : saves'[j] = all[j]
  BY <1>4, <1>6, AppendProperties
<1>8. ASSUME NEW j \in DOMAIN saves
      PROVE  /\ saves'[j].client = saves[j].client /\ saves'[j].model = saves[j].model
             /\ saves'[j].was = saves[j].was /\ saves'[j].next = saves[j].next
             /\ saves'[j].phase = saves[j].phase /\ saves'[j].carried
  BY <1>1, <1>2, <1>4, <1>7
<1> QED
  BY <1>4, <1>7, <1>8

LEMMA ToggledBack ==
  ASSUME NEW X, NEW m
  PROVE  Panel!WithModel(Panel!WithModel(X, m, ~ (m \in X)), m, m \in X) = X
  BY DEF Panel!WithModel

-----------------------------------------------------------------------------
(* Reading the table: opening, closing, and the answers.                   *)

LEMMA SupersededFacts ==
  ASSUME loads \subseteq Panel!Load
  PROVE  \A l \in Panel!Superseded : l \in Panel!Load /\ ~ l.newest
  BY DEF Panel!Superseded, Panel!Load

LEMMA PanelOpensStep ==
  ASSUME DrawerInv, Panel!OpenPanel
  PROVE  DrawerInv'
<1> DEFINE new == [client |-> clients, newest |-> TRUE, answer |-> [phase |-> "sent"]]
<1>1. /\ panel' = TRUE /\ loading' = TRUE /\ error' = FALSE
      /\ loads' = Panel!Superseded \cup {new}
      /\ disturbed' = (saves # <<>>)
      /\ UNCHANGED <<clients, failures, table, listed, excluded, pendingModel, saves>>
  BY DEF Panel!OpenPanel, Panel!Event, Panel!rowVars
<1>2. CountsOK'
  BY CountsStep DEF Panel!OpenPanel, Panel!Event, DrawerInv, Panel!TypeOK, CountsOK
<1>3. new \in Panel!Load /\ new.newest /\ new.client = clients /\ new.answer.phase # "done"
  BY DEF Panel!Load, DrawerInv, Panel!TypeOK
<1> HIDE DEF new
<1>4. \A l \in loads' : l \in Panel!Load /\ (l.newest => l = new)
  BY <1>1, <1>3, SupersededFacts DEF DrawerInv, Panel!TypeOK
<1>5. Panel!TypeOK'
  BY <1>1, <1>2, <1>4 DEF DrawerInv, Panel!TypeOK, CountsOK
<1>6. OneNewest' /\ OnlyLastUncarried'
  BY <1>1, <1>4 DEF OneNewest, OnlyLastUncarried, DrawerInv
<1>7. PanelInv'
  BY <1>1, <1>3, <1>4 DEF PanelInv, Reading
<1> QED
  BY <1>5, <1>6, <1>7 DEF DrawerInv

LEMMA PanelClosesStep ==
  ASSUME DrawerInv, Panel!ClosePanel
  PROVE  DrawerInv'
<1>1. /\ panel' = FALSE /\ loads' = Panel!Superseded
      /\ UNCHANGED <<table, loading, error, listed, excluded, pendingModel, saves, disturbed>>
  BY DEF Panel!ClosePanel, Panel!rowVars
<1>2. CountsOK'
  BY CountsStep DEF Panel!ClosePanel, Panel!Event, DrawerInv, Panel!TypeOK, CountsOK
<1>3. \A l \in loads' : l \in Panel!Load /\ ~ l.newest
  BY <1>1, SupersededFacts DEF DrawerInv, Panel!TypeOK
<1>4. Panel!TypeOK'
  BY <1>1, <1>2, <1>3 DEF DrawerInv, Panel!TypeOK, CountsOK
<1> QED
  BY <1>1, <1>3, <1>4 DEF DrawerInv, OneNewest, OnlyLastUncarried, PanelInv

\* A read is answered, with the table of the gateway it was sent to, or fails.
LEMMA LoadAnsweredStep ==
  ASSUME DrawerInv, CountsOK', clients' = clients, NEW l \in loads, NEW answer,
         Panel!LoadAnswered(l, answer),
         [l EXCEPT !.answer = answer] \in Panel!Load,
         answer.phase = "done" => answer.excluded = table[l.client]
  PROVE  DrawerInv'
<1> DEFINE k == [l EXCEPT !.answer = answer]
<1>1. /\ loads' = (loads \ {l}) \cup {k}
      /\ UNCHANGED <<table, panel, loading, error, listed, excluded, pendingModel, saves,
                     disturbed>>
  BY DEF Panel!LoadAnswered, Panel!rowVars
<1>2. l \in Panel!Load /\ k \in Panel!Load
  BY DEF DrawerInv, Panel!TypeOK
<1>3. k.client = l.client /\ k.newest = l.newest /\ k.answer = answer
  BY <1>2 DEF Panel!Load
<1> HIDE DEF k
<1>4. Panel!TypeOK'
  BY <1>1, <1>2 DEF DrawerInv, Panel!TypeOK, CountsOK
<1>5. OneNewest'
  BY <1>1, <1>3 DEF DrawerInv, OneNewest
<1>6. OnlyLastUncarried'
  BY <1>1 DEF DrawerInv, OnlyLastUncarried
<1>7. Reading => Reading'
  BY <1>1, <1>3 DEF Reading
<1>8. PanelInv'
  BY <1>1, <1>7 DEF DrawerInv, PanelInv, Doomed, InStep, After, Found
<1> QED
  BY <1>4, <1>5, <1>6, <1>8 DEF DrawerInv

LEMMA LoadIsAnswered ==
  ASSUME DrawerInv, NEW l \in loads, Panel!LoadHandled(l) \/ Panel!LoadFails(l)
  PROVE  DrawerInv'
<1>1. CountsOK' /\ clients' = clients
  BY CountsStep DEF Panel!LoadHandled, Panel!LoadFails, Panel!NoEvent, Panel!Failure,
     DrawerInv, Panel!TypeOK, CountsOK
<1>2. l \in Panel!Load /\ table[l.client] \in SUBSET Models
  BY DEF DrawerInv, Panel!TypeOK, Panel!Load
<1>3. CASE Panel!LoadHandled(l)
  <2> DEFINE answer == [phase |-> "done", excluded |-> table[l.client]]
  <2>1. answer \in [phase : {"done"}, excluded : SUBSET Models]
    BY <1>2
  <2>2. Panel!LoadAnswered(l, answer) /\ answer.excluded = table[l.client]
    BY <1>3 DEF Panel!LoadHandled
  <2> HIDE DEF answer
  <2>3. [l EXCEPT !.answer = answer] \in Panel!Load
    BY <1>2, <2>1 DEF Panel!Load
  <2> QED
    BY <1>1, <2>2, <2>3, LoadAnsweredStep
<1>4. CASE Panel!LoadFails(l)
  <2> DEFINE answer == [phase |-> "failed"]
  <2>1. answer.phase = "failed" /\ answer \in {[phase |-> "sent"], [phase |-> "failed"]}
    OBVIOUS
  <2>2. Panel!LoadAnswered(l, answer)
    BY <1>4 DEF Panel!LoadFails
  <2> HIDE DEF answer
  <2>3. [l EXCEPT !.answer = answer] \in Panel!Load
    BY <1>2, <2>1 DEF Panel!Load
  <2> QED
    BY <1>1, <2>1, <2>2, <2>3, LoadAnsweredStep
<1> QED
  BY <1>3, <1>4

LEMMA LoadLandsStep ==
  ASSUME DrawerInv, NEW l \in loads, Panel!LoadLands(l)
  PROVE  DrawerInv'
<1>1. /\ loads' = loads \ {l} /\ l.answer.phase # "sent"
      /\ UNCHANGED <<clients, events, failures, table, panel, pendingModel, saves, disturbed>>
  BY DEF Panel!LoadLands, Panel!NoEvent
<1>2. OnlyLastUncarried'
  BY <1>1 DEF DrawerInv, OnlyLastUncarried
<1>3. CASE ~ Panel!Current(l)
  <2>1. UNCHANGED <<loading, error, listed, excluded>>
    BY <1>3 DEF Panel!LoadLands
  <2>2. Panel!TypeOK'
    BY <1>1, <2>1 DEF DrawerInv, Panel!TypeOK
  <2>3. OneNewest' /\ (Reading => Reading')
    BY <1>1, <2>1 DEF DrawerInv, OneNewest, Reading
  <2>4. PanelInv'
    BY <1>1, <2>1, <2>3 DEF DrawerInv, PanelInv, Doomed, InStep, After, Found
  <2> QED
    BY <1>2, <2>2, <2>3, <2>4 DEF DrawerInv
<1>4. CASE Panel!Current(l)
  <2>1. l.newest /\ l.client = clients /\ panel /\ loading
    BY <1>4 DEF Panel!Current, DrawerInv, OneNewest
  <2>2. /\ loading' = FALSE
        /\ IF l.answer.phase = "failed"
             THEN error' = TRUE /\ UNCHANGED <<listed, excluded>>
             ELSE listed' = TRUE /\ excluded' = l.answer.excluded /\ UNCHANGED error
    BY <1>4 DEF Panel!LoadLands
  <2>3. l.answer.phase # "failed"
          => l.answer.phase = "done" /\ l.answer.excluded \in SUBSET Models
    BY <1>1 DEF DrawerInv, Panel!TypeOK, Panel!Load
  <2>4. Panel!TypeOK'
    <3>1. excluded' \subseteq Models /\ error' \in BOOLEAN /\ listed' \in BOOLEAN
      BY <2>2, <2>3 DEF DrawerInv, Panel!TypeOK
    <3> QED
      BY <1>1, <2>2, <3>1 DEF DrawerInv, Panel!TypeOK
  <2>5. OneNewest'
    BY <1>1, <2>1 DEF DrawerInv, OneNewest
  <2>6. PanelInv'
    <3>1. SUFFICES ASSUME ~ disturbed', ~ error' PROVE InStep'
      BY <2>2 DEF PanelInv
    <3>2. Reading
      BY <1>1, <2>1, <3>1 DEF DrawerInv, PanelInv
    <3>3. excluded' = table[clients]
      BY <2>1, <2>2, <2>3, <3>1, <3>2 DEF Reading
    <3>4. saves' = <<>> /\ Len(saves') = 0 /\ DOMAIN saves' = {}
      BY <1>1, <3>2 DEF Reading
    <3> QED
      BY <1>1, <3>3, <3>4 DEF InStep, After
  <2> QED
    BY <1>2, <2>4, <2>5, <2>6 DEF DrawerInv
<1> QED
  BY <1>3, <1>4

-----------------------------------------------------------------------------
(* Toggles and their saves.                                                *)

LEMMA SavesFacts ==
  ASSUME DrawerInv
  PROVE  /\ saves \in Seq(Panel!Save) /\ Len(saves) \in Nat
         /\ DOMAIN saves = 1..Len(saves)
         /\ \A i \in DOMAIN saves :
              saves[i] \in Panel!Save /\ saves[i].phase \in {"sent", "done", "failed"}
<1>1. saves \in Seq(Panel!Save)
  BY DEF DrawerInv, Panel!TypeOK
<1>2. \A i \in DOMAIN saves : saves[i] \in Panel!Save
  BY <1>1
<1>3. \A x \in Panel!Save : x.phase \in {"sent", "done", "failed"}
  BY DEF Panel!Save
<1>4. Len(saves) \in Nat /\ DOMAIN saves = 1..Len(saves)
  BY <1>1
<1> QED
  BY <1>1, <1>2, <1>3, <1>4

LEMMA NothingSavedWhileReading ==
  ASSUME DrawerInv, panel, ~ disturbed, loading, NEW i \in DOMAIN saves
  PROVE  FALSE
<1>1. saves = <<>>
  BY DEF DrawerInv, PanelInv, Reading
<1> QED
  BY <1>1

LEMMA ToggleStep ==
  ASSUME DrawerInv, NEW m \in Models, Panel!Toggle(m)
  PROVE  DrawerInv'
<1> DEFINE was  == m \in excluded
           next == Panel!WithModel(excluded, m, ~ was)
           new  == [model |-> m, was |-> was, next |-> next, client |-> clients,
                    phase |-> "sent", carried |-> FALSE]
<1>n. PICK n \in Nat : n = Len(saves)
  BY SavesFacts
<1>1. /\ panel /\ ~ loading /\ excluded' = next
      /\ saves' = Append([i \in DOMAIN saves |-> [saves[i] EXCEPT !.carried = TRUE]], new)
      /\ pendingModel' = {m}
      /\ UNCHANGED <<clients, table, panel, loading, error, listed, loads, disturbed>>
  BY Zenon DEF Panel!Toggle, Panel!Event, Panel!Locked
<1>2. CountsOK'
  BY CountsStep DEF Panel!Toggle, Panel!Event, DrawerInv, Panel!TypeOK, CountsOK
<1>3. next \subseteq Models
  BY DEF Panel!WithModel, DrawerInv, Panel!TypeOK
<1>4. new \in Panel!Save
  <2>1. clients \in 1..MaxClients /\ was \in BOOLEAN
    BY DEF DrawerInv, Panel!TypeOK
  <2> HIDE DEF was, next
  <2> QED
    BY <1>3, <2>1 DEF Panel!Save
<1>5. /\ new.phase = "sent" /\ new.next = next /\ new.client = clients
      /\ ~ new.carried
      /\ Panel!WithModel(new.next, new.model, new.was) = excluded
  <2>1. Panel!WithModel(next, m, was) = excluded
    BY ToggledBack, Zenon
  <2> HIDE DEF next, was
  <2> QED
    BY <2>1
<1> HIDE DEF new, next, was
<1>6. /\ saves' \in Seq(Panel!Save) /\ Len(saves') = n + 1 /\ saves'[n + 1] = new
      /\ \A j \in DOMAIN saves :
           /\ saves'[j].client = saves[j].client /\ saves'[j].model = saves[j].model
           /\ saves'[j].was = saves[j].was /\ saves'[j].next = saves[j].next
           /\ saves'[j].phase = saves[j].phase /\ saves'[j].carried
  BY <1>n, <1>1, <1>4, AppendFacts DEF DrawerInv, Panel!TypeOK
<1>7. n \in Nat /\ DOMAIN saves = 1..n
  BY <1>n, SavesFacts
<1>8. DOMAIN saves' = 1..n + 1 /\ Len(saves') = n + 1
  BY <1>6
<1>9. Panel!TypeOK'
  BY <1>1, <1>2, <1>3, <1>6 DEF DrawerInv, Panel!TypeOK, CountsOK
<1>10. OneNewest'
  BY <1>1 DEF DrawerInv, OneNewest
<1>11. OnlyLastUncarried'
  BY <1>6, <1>7, <1>8 DEF OnlyLastUncarried
<1>12. PanelInv'
  <2>1. SUFFICES ASSUME ~ disturbed', ~ error', ~ Doomed' PROVE InStep'
    BY <1>1 DEF PanelInv
  <2>2. \A j \in DOMAIN saves : saves[j].phase # "failed"
    BY <1>6, <1>7, <1>8, <2>1 DEF Doomed
  <2>3. InStep
    BY <1>1, <2>1, <2>2 DEF DrawerInv, PanelInv, Doomed
  <2>4. \A i \in 0..n : After(i)' = After(i)
    BY <1>1, <1>6, <1>7 DEF After
  <2>5. \A i \in 1..n : Found(i)' = Found(i)
    BY <1>6, <1>7 DEF Found
  <2>6. Found(n + 1)' = excluded /\ After(n + 1)' = excluded'
    BY <1>1, <1>5, <1>6, <1>7 DEF Found, After
  <2>7. After(n) = excluded
    BY <1>n, <2>3 DEF InStep
  <2>8. \A i \in 1..n + 1 : saves'[i].client = clients'
    BY <1>1, <1>5, <1>6, <1>7, <2>3 DEF InStep
  <2>9. ASSUME NEW i \in 1..n + 1, saves'[i].phase = "done", NEW j \in 1..i
        PROVE  saves'[j].phase = "done"
    <3>1. i \in 1..n
      BY <1>5, <1>6, <1>7, <2>9
    <3>2. saves[i].phase = "done" /\ j \in 1..n
      BY <1>6, <1>7, <2>9, <3>1
    <3>3. saves[j].phase = "done"
      BY <1>7, <2>3, <3>1, <3>2 DEF InStep
    <3> QED
      BY <1>6, <1>7, <3>2, <3>3
  <2>10. ASSUME NEW i \in 1..n + 1, saves'[i].phase # "done"
         PROVE  Found(i)' = After(i - 1)'
    <3>1. CASE i = n + 1
      BY <1>7, <2>4, <2>6, <2>7, <3>1
    <3>2. CASE i \in 1..n
      <4>1. Found(i) = After(i - 1)
        BY <1>6, <1>7, <2>3, <2>10, <3>2 DEF InStep
      <4> QED
        BY <1>7, <2>4, <2>5, <3>2, <4>1
    <3> QED
      BY <1>7, <3>1, <3>2
  <2> QED
    BY <1>8, <2>6, <2>8, <2>9, <2>10 DEF InStep
<1> QED
  BY <1>9, <1>10, <1>11, <1>12 DEF DrawerInv

\* A save ends at the gateway or fails: what does not depend on which.
LEMMA SaveEndsFacts ==
  ASSUME DrawerInv, CountsOK', clients' = clients, NEW i \in DOMAIN saves,
         NEW phase \in {"done", "failed"}, Panel!Ends(i, phase),
         table' \in [1..MaxClients -> SUBSET Models], disturbed' \in BOOLEAN,
         UNCHANGED <<panel, loading, error, listed, excluded, pendingModel, loads>>
  PROVE  /\ Panel!TypeOK' /\ OneNewest' /\ OnlyLastUncarried'
         /\ Len(saves') = Len(saves) /\ DOMAIN saves' = DOMAIN saves
         /\ \A j \in DOMAIN saves : saves'[j].client = saves[j].client
                                    /\ saves'[j].next = saves[j].next
                                    /\ saves'[j].carried = saves[j].carried
                                    /\ Found(j)' = Found(j)
         /\ \A j \in DOMAIN saves : j # i => saves'[j].phase = saves[j].phase
         /\ saves'[i].phase = phase
<1>1. /\ saves' \in Seq(Panel!Save) /\ Len(saves') = Len(saves)
      /\ DOMAIN saves' = DOMAIN saves
      /\ saves'[i].phase = phase
      /\ \A j \in DOMAIN saves : j # i => saves'[j] = saves[j]
      /\ \A j \in DOMAIN saves :
           /\ saves'[j].client = saves[j].client /\ saves'[j].model = saves[j].model
           /\ saves'[j].was = saves[j].was /\ saves'[j].next = saves[j].next
           /\ saves'[j].carried = saves[j].carried
  BY EndsFacts DEF DrawerInv, Panel!TypeOK
<1>2. Panel!TypeOK'
  BY <1>1 DEF DrawerInv, Panel!TypeOK, CountsOK
<1>3. OneNewest' /\ OnlyLastUncarried'
  BY <1>1 DEF DrawerInv, OneNewest, OnlyLastUncarried
<1>4. \A j \in DOMAIN saves : Found(j)' = Found(j)
  BY <1>1 DEF Found
<1> QED
  BY <1>1, <1>2, <1>3, <1>4

\* What is before an index is an index, and not the last one.
LEMMA EarlierIndex ==
  ASSUME NEW n \in Nat, NEW i \in 1..n, NEW j \in 1..i - 1
  PROVE  j \in 1..n /\ j # n
  OBVIOUS

LEMMA SaveHandledStep ==
  ASSUME DrawerInv, NEW i \in DOMAIN saves, Panel!SaveHandled(i)
  PROVE  DrawerInv'
<1>1. /\ saves[i].phase = "sent" /\ Panel!Ends(i, "done")
      /\ table' = [table EXCEPT ![saves[i].client] = saves[i].next]
      /\ disturbed' = (disturbed \/ \E j \in 1..i - 1 : saves[j].phase = "sent")
      /\ UNCHANGED <<clients, events, failures, panel, loading, error, listed, excluded,
                     pendingModel, loads>>
  BY DEF Panel!SaveHandled, Panel!Sent, Panel!NoEvent, Panel!rowVars
<1>2. CountsOK'
  BY <1>1 DEF DrawerInv, Panel!TypeOK, CountsOK
<1>3. /\ Len(saves) \in Nat /\ DOMAIN saves = 1..Len(saves)
      /\ saves[i].next \in SUBSET Models /\ saves[i].client \in 1..MaxClients
      /\ \A j \in DOMAIN saves : saves[j].phase \in {"sent", "done", "failed"}
  BY SavesFacts DEF Panel!Save
<1>4. table' \in [1..MaxClients -> SUBSET Models] /\ disturbed' \in BOOLEAN
      /\ table'[saves[i].client] = saves[i].next
  BY <1>1, <1>3 DEF DrawerInv, Panel!TypeOK
<1>5. /\ Panel!TypeOK' /\ OneNewest' /\ OnlyLastUncarried'
      /\ Len(saves') = Len(saves) /\ DOMAIN saves' = DOMAIN saves
      /\ \A j \in DOMAIN saves : saves'[j].client = saves[j].client
                                 /\ saves'[j].next = saves[j].next
                                 /\ saves'[j].carried = saves[j].carried
                                 /\ Found(j)' = Found(j)
      /\ \A j \in DOMAIN saves : j # i => saves'[j].phase = saves[j].phase
      /\ saves'[i].phase = "done"
  BY <1>1, <1>2, <1>4, SaveEndsFacts
<1>6. ASSUME panel', ~ disturbed', loading' PROVE FALSE
  BY <1>1, <1>6, NothingSavedWhileReading
<1>7. ASSUME panel', ~ disturbed', ~ loading', ~ error', ~ Doomed' PROVE InStep'
  <2>1. ~ Doomed
    BY <1>1, <1>5, <1>7 DEF Doomed
  <2>2. InStep
    BY <1>1, <1>7, <2>1 DEF DrawerInv, PanelInv
  <2>3. \A j \in 1..i - 1 : saves[j].phase = "done"
    <3> TAKE j \in 1..i - 1
    <3>1. j \in DOMAIN saves /\ j # Len(saves)
      <4>1. i \in 1..Len(saves) /\ Len(saves) \in Nat
        BY <1>3
      <4>2. j \in 1..Len(saves) /\ j # Len(saves)
        BY <4>1, EarlierIndex
      <4> QED
        BY <1>3, <4>2
    <3>2. saves[j].phase # "sent"
      BY <1>1, <1>7
    <3>3. saves[j].phase # "failed"
      BY <2>1, <3>1 DEF Doomed, DrawerInv, OnlyLastUncarried
    <3> QED
      BY <1>3, <3>1, <3>2, <3>3
  <2>4. table'[clients'] = saves[i].next
    BY <1>1, <1>4, <2>2 DEF InStep
  <2>5. \A j \in i..Len(saves) : saves[j].phase # "done"
    BY <1>1, <1>3, <2>2 DEF InStep
  <2>6. \A j \in i..Len(saves) : After(j)' = After(j)
    <3> TAKE j \in i..Len(saves)
    <3>1. j \in DOMAIN saves /\ j # 0 /\ After(j) = saves[j].next
      BY <1>3, <2>5 DEF After
    <3>2. CASE j = i
      BY <1>5, <2>4, <3>1, <3>2 DEF After
    <3>3. CASE j # i
      BY <1>5, <2>5, <3>1, <3>3 DEF After
    <3> QED
      BY <3>2, <3>3
  <2>7. \A j \in DOMAIN saves' : saves'[j].client = clients'
    BY <1>1, <1>5, <2>2 DEF InStep
  <2>8. \A j \in DOMAIN saves' : saves'[j].phase = "done" =>
           \A k \in 1..j : saves'[k].phase = "done"
    <3> SUFFICES ASSUME NEW j \in DOMAIN saves, saves'[j].phase = "done", NEW k \in 1..j
                 PROVE  saves'[k].phase = "done"
      BY <1>5
    <3>1. j \in 1..i
      BY <1>3, <1>5, <2>5
    <3>2. k \in DOMAIN saves /\ (k = i \/ k \in 1..i - 1)
      BY <1>3, <3>1
    <3> QED
      BY <1>3, <1>5, <2>3, <3>2
  <2>9. \A j \in DOMAIN saves' : saves'[j].phase # "done" => Found(j)' = After(j - 1)'
    <3> SUFFICES ASSUME NEW j \in DOMAIN saves, saves'[j].phase # "done"
                 PROVE  Found(j)' = After(j - 1)'
      BY <1>5
    <3>1. j # i /\ saves[j].phase # "done" /\ j \in 1..Len(saves)
      BY <1>3, <1>5
    <3>2. j - 1 \in i..Len(saves)
      BY <1>3, <2>3, <3>1
    <3>3. Found(j) = After(j - 1)
      BY <2>2, <3>1 DEF InStep
    <3> QED
      BY <1>5, <2>6, <3>2, <3>3
  <2>10. excluded' = After(Len(saves))'
    <3>1. Len(saves) \in i..Len(saves)
      BY <1>3
    <3> QED
      BY <1>1, <1>5, <2>2, <2>6, <3>1 DEF InStep
  <2> QED
    BY <2>7, <2>8, <2>9, <2>10 DEF InStep
<1> QED
  BY <1>5, <1>6, <1>7 DEF DrawerInv, PanelInv

LEMMA SaveFailsStep ==
  ASSUME DrawerInv, NEW i \in DOMAIN saves, Panel!SaveFails(i)
  PROVE  DrawerInv'
<1>1. /\ saves[i].phase = "sent" /\ Panel!Ends(i, "failed")
      /\ \/ UNCHANGED <<table, disturbed>>
         \/ /\ table' = [table EXCEPT ![saves[i].client] = saves[i].next]
            /\ disturbed' = TRUE
      /\ UNCHANGED <<clients, events, panel, loading, error, listed, excluded,
                     pendingModel, loads>>
  BY DEF Panel!SaveFails, Panel!Sent, Panel!Failure, Panel!rowVars
<1>2. CountsOK'
  BY CountsStep DEF Panel!SaveFails, Panel!Failure, DrawerInv, Panel!TypeOK, CountsOK
<1>3. /\ Len(saves) \in Nat /\ DOMAIN saves = 1..Len(saves)
      /\ saves[i].next \in SUBSET Models /\ saves[i].client \in 1..MaxClients
  BY SavesFacts DEF Panel!Save
<1>4. table' \in [1..MaxClients -> SUBSET Models] /\ disturbed' \in BOOLEAN
  BY <1>1, <1>3 DEF DrawerInv, Panel!TypeOK
<1>5. /\ Panel!TypeOK' /\ OneNewest' /\ OnlyLastUncarried'
      /\ Len(saves') = Len(saves) /\ DOMAIN saves' = DOMAIN saves
      /\ \A j \in DOMAIN saves : saves'[j].client = saves[j].client
                                 /\ saves'[j].next = saves[j].next
                                 /\ saves'[j].carried = saves[j].carried
                                 /\ Found(j)' = Found(j)
      /\ \A j \in DOMAIN saves : j # i => saves'[j].phase = saves[j].phase
      /\ saves'[i].phase = "failed"
  BY <1>1, <1>2, <1>4, SaveEndsFacts
<1>6. ASSUME panel', ~ disturbed', loading' PROVE FALSE
  BY <1>1, <1>6, NothingSavedWhileReading
<1>7. ASSUME panel', ~ disturbed', ~ loading', ~ error', ~ Doomed' PROVE InStep'
  <2>1. ~ Doomed /\ UNCHANGED <<table, disturbed>>
    BY <1>1, <1>5, <1>7 DEF Doomed
  <2>2. InStep
    BY <1>1, <1>7, <2>1 DEF DrawerInv, PanelInv
  <2>3. \A j \in DOMAIN saves : saves'[j].phase = "done" <=> saves[j].phase = "done"
    BY <1>1, <1>5
  <2>4. \A j \in 0..Len(saves) : After(j)' = After(j)
    BY <1>1, <1>3, <1>5, <2>1, <2>3 DEF After
  <2>5. \A j \in DOMAIN saves' : saves'[j].client = clients'
    BY <1>1, <1>5, <2>2 DEF InStep
  <2>6. \A j \in DOMAIN saves' : saves'[j].phase = "done" =>
           \A k \in 1..j : saves'[k].phase = "done"
    BY <1>3, <1>5, <2>2, <2>3 DEF InStep
  <2>7. \A j \in DOMAIN saves' : saves'[j].phase # "done" => Found(j)' = After(j - 1)'
    BY <1>3, <1>5, <2>2, <2>3, <2>4 DEF InStep
  <2>8. excluded' = After(Len(saves))'
    BY <1>1, <1>3, <1>5, <2>2, <2>4 DEF InStep
  <2> QED
    BY <2>5, <2>6, <2>7, <2>8 DEF InStep
<1> QED
  BY <1>5, <1>6, <1>7 DEF DrawerInv, PanelInv

\* A save leaves the queue: what does not depend on how it ended.
LEMMA RemovedFacts ==
  ASSUME DrawerInv, NEW i \in DOMAIN saves, NEW n \in Nat, n = Len(saves),
         saves' = Panel!RemoveAt(saves, i), pendingModel' = pendingModel \ {saves[i].model},
         UNCHANGED <<clients, events, failures, table, panel, loading, error, listed, loads>>,
         excluded' \in SUBSET Models, disturbed' \in BOOLEAN
  PROVE  /\ Panel!TypeOK' /\ OneNewest' /\ OnlyLastUncarried'
         /\ i \in 1..n /\ Len(saves') = n - 1 /\ DOMAIN saves' = 1..n - 1
         /\ \A j \in 1..n - 1 : j < i => saves'[j] = saves[j]
         /\ \A j \in 1..n - 1 : j >= i => saves'[j] = saves[j + 1]
         /\ (saves[i].phase # "failed" \/ ~ saves[i].carried) /\ Doomed => Doomed'
<1>1. saves \in Seq(Panel!Save) /\ DOMAIN saves = 1..n /\ i \in 1..n
  BY SavesFacts
<1>2. /\ saves' \in Seq(Panel!Save) /\ Len(saves') = n - 1
      /\ \A j \in 1..n - 1 : saves'[j] = IF j < i THEN saves[j] ELSE saves[j + 1]
  BY <1>1, RemoveAtFacts
<1>3. DOMAIN saves' = 1..n - 1
  BY <1>2
<1>4. /\ \A j \in 1..n - 1 : j < i => saves'[j] = saves[j]
      /\ \A j \in 1..n - 1 : j >= i => saves'[j] = saves[j + 1]
  BY <1>1, <1>2
<1>5. Panel!TypeOK' /\ OneNewest'
  BY <1>2 DEF DrawerInv, Panel!TypeOK, OneNewest
<1>6. OnlyLastUncarried'
  <2> SUFFICES ASSUME NEW j \in 1..n - 1, ~ saves'[j].carried PROVE j = n - 1
    BY <1>2, <1>3 DEF OnlyLastUncarried
  <2>1. \A k \in 1..n : ~ saves[k].carried => k = n
    BY <1>1 DEF DrawerInv, OnlyLastUncarried
  <2>2. CASE j < i
    BY <1>1, <1>4, <2>1, <2>2
  <2>3. CASE j >= i
    BY <1>1, <1>4, <2>1, <2>3
  <2> QED
    BY <1>1, <2>2, <2>3
<1>7. ASSUME saves[i].phase # "failed" \/ ~ saves[i].carried, Doomed PROVE Doomed'
  <2>1. PICK k \in 1..n : saves[k].phase = "failed" /\ saves[k].carried
    BY <1>1, <1>7 DEF Doomed
  <2>2. k # i
    BY <1>7, <2>1
  <2>3. CASE k < i
    BY <1>1, <1>3, <1>4, <2>1, <2>3 DEF Doomed
  <2>4. CASE k > i
    <3>1. k - 1 \in 1..n - 1 /\ k - 1 >= i /\ (k - 1) + 1 = k
      BY <1>1, <2>4
    <3>2. saves'[k - 1] = saves[k]
      BY <1>4, <3>1
    <3> QED
      BY <1>3, <2>1, <3>1, <3>2 DEF Doomed
  <2> QED
    BY <1>1, <2>2, <2>3, <2>4
<1> QED
  BY <1>1, <1>2, <1>3, <1>4, <1>5, <1>6, <1>7

LEMMA SaveReturnsStep ==
  ASSUME DrawerInv, NEW i \in DOMAIN saves, Panel!SaveReturns(i)
  PROVE  DrawerInv'
<1>n. PICK n \in Nat : n = Len(saves)
  BY SavesFacts
<1>1. /\ saves[i].phase = "done" /\ saves' = Panel!RemoveAt(saves, i)
      /\ pendingModel' = pendingModel \ {saves[i].model}
      /\ UNCHANGED <<clients, events, failures, table, panel, loading, error, listed,
                     excluded, loads, disturbed>>
  BY DEF Panel!SaveReturns, Panel!NoEvent
<1>2. excluded' \in SUBSET Models /\ disturbed' \in BOOLEAN
  BY <1>1 DEF DrawerInv, Panel!TypeOK
<1>3. /\ Panel!TypeOK' /\ OneNewest' /\ OnlyLastUncarried'
      /\ i \in 1..n /\ Len(saves') = n - 1 /\ DOMAIN saves' = 1..n - 1
      /\ \A j \in 1..n - 1 : j < i => saves'[j] = saves[j]
      /\ \A j \in 1..n - 1 : j >= i => saves'[j] = saves[j + 1]
      /\ (saves[i].phase # "failed" \/ ~ saves[i].carried) /\ Doomed => Doomed'
  BY <1>n, <1>1, <1>2, RemovedFacts
<1>4. ASSUME panel', ~ disturbed', loading' PROVE FALSE
  BY <1>1, <1>4, NothingSavedWhileReading
<1>5. ASSUME panel', ~ disturbed', ~ loading', ~ error', ~ Doomed' PROVE InStep'
  <2>1. InStep
    BY <1>1, <1>3, <1>5 DEF DrawerInv, PanelInv
  <2>2. DOMAIN saves = 1..n
    BY <1>n, SavesFacts
  <2>3. \A j \in 1..i : saves[j].phase = "done"
    BY <1>1, <2>1 DEF InStep
  <2>4. \A j \in i..n : After(j - 1)' = After(j)
    <3> TAKE j \in i..n
    <3>1. CASE j = i
      <4>1. j - 1 = 0 \/ (j - 1 \in 1..n - 1 /\ j - 1 < i /\ j - 1 \in 1..i)
        BY <1>3, <3>1
      <4>2. j - 1 = 0 \/ saves'[j - 1].phase = "done"
        BY <1>3, <2>3, <4>1
      <4> QED
        BY <1>1, <3>1, <4>2 DEF After
    <3>2. CASE j # i
      <4>1. j - 1 \in 1..n - 1 /\ j - 1 >= i /\ (j - 1) + 1 = j /\ j # 0 /\ j - 1 # 0
        BY <1>3, <3>2
      <4>2. saves'[j - 1] = saves[j]
        BY <1>3, <4>1
      <4> QED
        BY <1>1, <4>1, <4>2 DEF After
    <3> QED
      BY <3>1, <3>2
  <2>5. \A j \in DOMAIN saves' : saves'[j].client = clients'
    <3> SUFFICES ASSUME NEW j \in 1..n - 1 PROVE saves'[j].client = clients
      BY <1>1, <1>3
    <3>1. j \in 1..n /\ j + 1 \in 1..n /\ (j < i \/ j >= i)
      BY <1>3
    <3> QED
      BY <1>3, <2>1, <2>2, <3>1 DEF InStep
  <2>6. \A j \in DOMAIN saves' : saves'[j].phase = "done" =>
           \A k \in 1..j : saves'[k].phase = "done"
    <3> SUFFICES ASSUME NEW j \in 1..n - 1, saves'[j].phase = "done", NEW k \in 1..j
                 PROVE  saves'[k].phase = "done"
      BY <1>3
    <3>1. CASE k < i
      BY <1>3, <2>3, <3>1
    <3>2. CASE k >= i
      <4>1. /\ k \in 1..n - 1 /\ j >= i
            /\ j + 1 \in 1..n /\ k + 1 \in 1..j + 1
        BY <1>3, <3>2
      <4>2. saves[j + 1].phase = "done"
        BY <1>3, <4>1
      <4>3. saves[k + 1].phase = "done"
        BY <2>1, <2>2, <4>1, <4>2 DEF InStep
      <4> QED
        BY <1>3, <3>2, <4>1, <4>3
    <3> QED
      BY <1>3, <3>1, <3>2
  <2>7. \A j \in DOMAIN saves' : saves'[j].phase # "done" => Found(j)' = After(j - 1)'
    <3> SUFFICES ASSUME NEW j \in 1..n - 1, saves'[j].phase # "done"
                 PROVE  Found(j)' = After(j - 1)'
      BY <1>3
    <3>1. j >= i
      BY <1>3, <2>3
    <3>2. saves'[j] = saves[j + 1] /\ j + 1 \in 1..n /\ (j + 1) - 1 = j
      BY <1>3, <3>1
    <3>3. Found(j + 1) = After(j)
      BY <2>1, <2>2, <3>2 DEF InStep
    <3>4. Found(j)' = Found(j + 1)
      BY <3>2 DEF Found
    <3>5. j \in i..n
      BY <1>3, <3>1
    <3> QED
      BY <2>4, <3>3, <3>4, <3>5
  <2>8. excluded' = After(Len(saves))'
    <3>1. n \in i..n /\ Len(saves') = n - 1
      BY <1>3
    <3>2. excluded = After(n)
      BY <1>n, <2>1 DEF InStep
    <3>3. After(Len(saves))' = After(n - 1)'
      BY <3>1 DEF After
    <3> QED
      BY <1>1, <2>4, <3>1, <3>2, <3>3
  <2> QED
    BY <2>5, <2>6, <2>7, <2>8 DEF InStep
<1> QED
  BY <1>3, <1>4, <1>5 DEF DrawerInv, PanelInv

LEMMA SaveRollsBackStep ==
  ASSUME DrawerInv, NEW i \in DOMAIN saves, Panel!SaveRollsBack(i)
  PROVE  DrawerInv'
<1>n. PICK n \in Nat : n = Len(saves)
  BY SavesFacts
<1>1. /\ saves[i].phase = "failed" /\ saves' = Panel!RemoveAt(saves, i)
      /\ excluded' = Panel!WithModel(excluded, saves[i].model, saves[i].was)
      /\ disturbed' = (disturbed \/ saves[i].carried)
      /\ pendingModel' = pendingModel \ {saves[i].model}
      /\ UNCHANGED <<clients, events, failures, table, panel, loading, error, listed, loads>>
  BY DEF Panel!SaveRollsBack, Panel!NoEvent
<1>2. excluded' \in SUBSET Models /\ disturbed' \in BOOLEAN
  <2>1. saves[i].model \in Models /\ saves[i].carried \in BOOLEAN
    BY SavesFacts DEF Panel!Save
  <2> QED
    BY <1>1, <2>1 DEF Panel!WithModel, DrawerInv, Panel!TypeOK
<1>3. /\ Panel!TypeOK' /\ OneNewest' /\ OnlyLastUncarried'
      /\ i \in 1..n /\ Len(saves') = n - 1 /\ DOMAIN saves' = 1..n - 1
      /\ \A j \in 1..n - 1 : j < i => saves'[j] = saves[j]
      /\ \A j \in 1..n - 1 : j >= i => saves'[j] = saves[j + 1]
      /\ (saves[i].phase # "failed" \/ ~ saves[i].carried) /\ Doomed => Doomed'
  BY <1>n, <1>1, <1>2, RemovedFacts
<1>4. ASSUME panel', ~ disturbed', loading' PROVE FALSE
  BY <1>1, <1>4, NothingSavedWhileReading
<1>5. ASSUME panel', ~ disturbed', ~ loading', ~ error', ~ Doomed' PROVE InStep'
  <2>1. ~ saves[i].carried /\ ~ disturbed
    BY <1>1, <1>5
  <2>2. i = n
    BY <1>n, <2>1 DEF DrawerInv, OnlyLastUncarried
  <2>3. InStep
    BY <1>1, <1>3, <1>5, <2>1 DEF DrawerInv, PanelInv
  <2>4. DOMAIN saves = 1..n
    BY <1>n, SavesFacts
  <2>5. \A j \in 1..n - 1 : saves'[j] = saves[j]
    BY <1>3, <2>2
  <2>6. \A j \in 0..n - 1 : After(j)' = After(j)
    BY <1>1, <2>5 DEF After
  <2>7. excluded = saves[n].next
    BY <1>n, <1>1, <1>3, <2>2, <2>3 DEF InStep, After
  <2>8. Found(n) = After(n - 1)
    BY <1>1, <1>3, <2>2, <2>3, <2>4 DEF InStep
  <2>9. excluded' = After(Len(saves))'
    <3>1. excluded' = After(n - 1)
      BY <1>1, <2>2, <2>7, <2>8 DEF Found
    <3>2. n - 1 \in 0..n - 1 /\ Len(saves') = n - 1
      BY <1>3
    <3>3. After(Len(saves))' = After(n - 1)'
      BY <3>2 DEF After
    <3> QED
      BY <2>6, <3>1, <3>2, <3>3
  <2>10. \A j \in DOMAIN saves' : saves'[j].client = clients'
    BY <1>1, <1>3, <2>3, <2>4, <2>5 DEF InStep
  <2>11. \A j \in DOMAIN saves' : saves'[j].phase = "done" =>
            \A k \in 1..j : saves'[k].phase = "done"
    BY <1>3, <2>3, <2>4, <2>5 DEF InStep
  <2>12. \A j \in DOMAIN saves' : saves'[j].phase # "done" => Found(j)' = After(j - 1)'
    <3> SUFFICES ASSUME NEW j \in 1..n - 1, saves'[j].phase # "done"
                 PROVE  Found(j)' = After(j - 1)'
      BY <1>3
    <3>1. saves'[j] = saves[j] /\ j \in 1..n /\ j - 1 \in 0..n - 1
      BY <2>5
    <3>2. Found(j) = After(j - 1) /\ Found(j)' = Found(j)
      BY <2>3, <2>4, <3>1 DEF InStep, Found
    <3> QED
      BY <2>6, <3>1, <3>2
  <2> QED
    BY <2>9, <2>10, <2>11, <2>12 DEF InStep
<1> QED
  BY <1>3, <1>4, <1>5 DEF DrawerInv, PanelInv

-----------------------------------------------------------------------------
(* The panel through every step of the application.                        *)

LEMMA DrawerStays ==
  ASSUME DrawerInv, UNCHANGED panelVars, clients' = clients, CountsOK'
  PROVE  DrawerInv'
<1>1. Panel!TypeOK'
  BY DEF panelVars, DrawerInv, Panel!TypeOK, CountsOK
<1>2. OneNewest' /\ OnlyLastUncarried'
  BY DEF panelVars, DrawerInv, OneNewest, OnlyLastUncarried
<1>3. PanelInv'
  BY DEF panelVars, DrawerInv, PanelInv, Reading, Doomed, InStep, After, Found
<1> QED
  BY <1>1, <1>2, <1>3 DEF DrawerInv

LEMMA DrawerReconnects ==
  ASSUME DrawerInv, Panel!Reconnected, CountsOK'
  PROVE  DrawerInv'
<1>1. /\ disturbed' = TRUE
      /\ UNCHANGED <<table, panel, loading, error, listed, excluded, pendingModel, loads,
                     saves>>
  BY DEF Panel!Reconnected, Panel!rowVars
<1>2. Panel!TypeOK'
  BY <1>1 DEF DrawerInv, Panel!TypeOK, CountsOK
<1> QED
  BY <1>1, <1>2 DEF DrawerInv, OneNewest, OnlyLastUncarried, PanelInv

LEMMA DrawerNext ==
  ASSUME DrawerInv, Panel!OpenPanel \/ Panel!PanelClicks \/ Panel!Steps
  PROVE  DrawerInv'
  BY PanelOpensStep, PanelClosesStep, ToggleStep, LoadIsAnswered, LoadLandsStep,
     SaveHandledStep, SaveFailsStep, SaveReturnsStep, SaveRollsBackStep
     DEF Panel!PanelClicks, Panel!Steps

LEMMA DrawerInit == Panel!Init => DrawerInv
<1> SUFFICES ASSUME Panel!Init PROVE DrawerInv
  OBVIOUS
<1>1. CountsOK
  BY CountsInit DEF Panel!Init
<1>2. saves = <<>> /\ loads = {} /\ panel = FALSE
  BY DEF Panel!Init
<1>3. Panel!TypeOK
  <2>1. table \in [1..MaxClients -> SUBSET Models]
    BY DEF Panel!Init
  <2>2. saves \in Seq(Panel!Save)
    BY <1>2
  <2>3. {panel, loading, error, listed, disturbed} \subseteq BOOLEAN
    BY DEF Panel!Init
  <2>4. excluded = {} /\ pendingModel = {}
    BY DEF Panel!Init
  <2> QED
    BY <1>1, <1>2, <2>1, <2>2, <2>3, <2>4 DEF Panel!TypeOK, CountsOK
<1> QED
  BY <1>2, <1>3 DEF DrawerInv, OneNewest, OnlyLastUncarried, PanelInv

-----------------------------------------------------------------------------
(* Both drawers.                                                           *)

AppInv == SignInv /\ DrawerInv

LEMMA AppInit == Init => AppInv
  BY SignInit, DrawerInit DEF Init, AppInv

\* Neither drawer counts a client while the other one moves.
LEMMA SignKeepsCounts ==
  ASSUME SignInv, Sign!DialogClicks \/ Sign!Opens \/ Sign!Steps
  PROVE  clients' = clients /\ CountsOK'
<1>1. SignInv'
  BY SignNext
<1>2. clients' = clients
  BY DEF Sign!DialogClicks, Sign!Opens, Sign!Steps, Sign!BeginSteps, Sign!Answered,
     Sign!Lands, Sign!OpenDialog, Sign!CloseDialog, Sign!Begin, Sign!BeginAnswered,
     Sign!BeginFails, Sign!BeginShown, Sign!Decided, Sign!Tick, Sign!ClickCheck,
     Sign!Handled, Sign!ReadFails, Sign!CheckEnds, Sign!TimerLands, Sign!CheckLands,
     Sign!Event, Sign!NoEvent, Sign!Failure
<1> QED
  BY <1>1, <1>2 DEF SignInv, Sign!TypeOK, CountsOK

LEMMA AppNext ==
  ASSUME AppInv, [Next]_vars
  PROVE  AppInv'
<1> USE DEF AppInv
<1>1. CASE SignClicks \/ SignOpens \/ SignSteps
  <2>1. (Sign!DialogClicks \/ Sign!Opens \/ Sign!Steps) /\ UNCHANGED panelVars
    BY <1>1 DEF SignClicks, SignOpens, SignSteps
  <2> QED
    BY <2>1, SignNext, SignKeepsCounts, DrawerStays
<1>2. CASE PanelClicks \/ PanelOpens \/ PanelSteps
  <2>1. (Panel!PanelClicks \/ Panel!OpenPanel \/ Panel!Steps) /\ UNCHANGED signVars
    BY <1>2 DEF PanelClicks, PanelOpens, PanelSteps
  <2>2. DrawerInv'
    BY <2>1, DrawerNext
  <2>3. CountsOK'
    BY <2>2 DEF DrawerInv, Panel!TypeOK, CountsOK
  <2> QED
    BY <2>1, <2>2, <2>3, SignStays
<1>3. CASE Switched
  <2>1. Sign!Reconnected /\ Panel!Reconnected
    BY <1>3 DEF Switched
  <2>2. CountsOK'
    BY <1>3, CountsStep DEF Switched, SignInv, Sign!TypeOK, CountsOK
  <2> QED
    BY <2>1, <2>2, SignReconnects, DrawerReconnects
<1>4. CASE UNCHANGED vars
  <2>1. UNCHANGED <<clients, events, failures>> /\ UNCHANGED signVars /\ UNCHANGED panelVars
    BY <1>4 DEF vars
  <2>2. CountsOK'
    BY <2>1 DEF SignInv, Sign!TypeOK, CountsOK
  <2> QED
    BY <2>1, <2>2, SignStays, DrawerStays
<1> QED
  BY <1>1, <1>2, <1>3, <1>4 DEF Next

LEMMA AppInvariance == Spec => []AppInv
  BY AppInit, AppNext, PTL DEF Spec

\* Both drawers keep their types, whatever overlaps.
THEOREM DialogTypes == Spec => []TypeOK
<1>1. AppInv => TypeOK
  BY DEF AppInv, SignInv, DrawerInv, TypeOK
<1> QED
  BY <1>1, AppInvariance, PTL

\* The sign-in dialog ("a completion can never be handled twice"): a session whose
\* outcome was applied never waits again, and what is shown is of the session opened
\* last, whichever questions overlap, fail, or outlive their session and the dialog.
THEOREM SessionShownIsCurrent == Spec => []ShownIsCurrent
<1>1. AppInv => ShownIsCurrent
  BY DEF AppInv, SignInv, ShownIsCurrent
<1> QED
  BY <1>1, AppInvariance, PTL

\* The models panel ("the gateway's list is authoritative"): with its reads and saves
\* over, the open panel shows the gateway's table, through overlapping toggles, saves
\* that fail, and reads that land after the panel was closed and opened again.
THEOREM PanelShowsTable == Spec => []PanelTellsTruth
<1>1. AppInv => PanelTellsTruth
  BY DrawerTells DEF AppInv, PanelTellsTruth
<1> QED
  BY <1>1, AppInvariance, PTL

=============================================================================
