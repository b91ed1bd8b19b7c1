------------------------------- MODULE AccountPool -------------------------------
(***************************************************************************)
(* What the desktop promises about the codex accounts it lends to sessions: *)
(* an account in use is kept from the scheduler from before its session    *)
(* begins until after it has ended, a session begins once and keeps its    *)
(* account, and while the application is open no two sessions share one.   *)
(* CodexInstances implements it.                                           *)
(***************************************************************************)
CONSTANTS Sessions, Accounts

VARIABLES
    open,       \* the application is open
    using,      \* the running sessions, each with its account
    ended,      \* sessions that have run
    withheld    \* accounts the scheduler must not use

vars == <<open, using, ended, withheld>>

InUse(a) == \E s \in Sessions : <<s, a>> \in using

Init == open = TRUE /\ using = {} /\ ended = {} /\ withheld = {}

Withhold(a) ==
    /\ withheld' = withheld \cup {a}
    /\ UNCHANGED <<open, using, ended>>

GiveBack(a) ==
    /\ ~ InUse(a)
    /\ withheld' = withheld \ {a}
    /\ UNCHANGED <<open, using, ended>>

Begin(s, a) ==
    /\ a \in withheld
    /\ s \notin ended /\ \A b \in Accounts : <<s, b>> \notin using
    /\ open => ~ InUse(a)
    /\ using' = using \cup {<<s, a>>}
    /\ UNCHANGED <<open, ended, withheld>>

End(s, a) ==
    /\ <<s, a>> \in using
    /\ using' = using \ {<<s, a>>}
    /\ ended' = ended \cup {s}
    /\ UNCHANGED <<open, withheld>>

Close ==
    /\ open /\ open' = FALSE
    /\ UNCHANGED <<using, ended, withheld>>

Next ==
    \/ \E a \in Accounts : Withhold(a) \/ GiveBack(a)
    \/ \E s \in Sessions, a \in Accounts : Begin(s, a) \/ End(s, a)
    \/ Close

Spec == Init /\ [][Next]_vars
=============================================================================
