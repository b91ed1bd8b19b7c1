--------------------------- MODULE ConnectionSettings ---------------------------
(***************************************************************************)
(* The settings form of the console, useConnectionSettings: the gateway's  *)
(* scalars and its table of provider proxies are read into a form, and the *)
(* form is written back by Save.  What keeps defaults, or another          *)
(* gateway's values, from being written over a gateway's own is the latch  *)
(* settingsLoaded with the external status the Save gate asks.             *)
(*                                                                         *)
(* The connection and its load state belong to the polling hook; a step of *)
(* theirs, or of the application, re-renders and runs this hook's effects  *)
(* in the same step (Rendered).  Composed in Console.                      *)
(***************************************************************************)
EXTENDS Naturals, FiniteSets

CONSTANTS
    MaxClients,     \* bound: connections made, numbered from 1
    MaxReadFailures \* bound: failed reads

VARIABLES
    clients, loadState,  \* of the polling hook
    gateway,    \* the gateway each connection leads to
    visible,    \* the settings surface is open
    latch,      \* settingsLoaded
    provLatch,  \* providersLoaded
    status,     \* settingsScalarsStatus, outside React
    wasOnline,  \* gatewayWasOnlineRef
    form,       \* the gateway the form's scalars were read from, 0: defaults
    provs,      \* the same for the table of provider proxies
    reads,      \* reads in flight; the effect that began one may have ended
    saves,      \* what Save has sent: values of one gateway to another
    readFailures

formVars == <<latch, provLatch, status, form, provs>>
setVars  == <<gateway, visible, formVars, wasOnline, reads, saves, readFailures>>

Gateways == 1..MaxClients
Reads == [kind : {"all", "providers"}, c : 1..MaxClients, active : BOOLEAN]
Saves == [to : Gateways, from : 0..MaxClients, kind : {"all", "providers"}]

Asks(kind) == [kind |-> kind, c |-> clients', active |-> TRUE]

\* An effect's clean-up: its read may still be answered, to nobody.
Ended(rs, kinds) ==
    {IF r.kind \in kinds THEN [r EXCEPT !.active = FALSE] ELSE r : r \in rs}

-----------------------------------------------------------------------------
(* What the effects do of the state l, p, st, rs that a handler leaves     *)
(* behind.                                                                 *)

Locked == loadState' = "relay-locked"

\* The first effect: an online gateway that no longer is one drops the latch.
GoesOffline(l) == wasOnline /\ loadState' # "online" /\ l

\* The second effect, in a render that sees the latch as l.
StatusAfter(l, st) ==
    IF l THEN IF st = "error" THEN st ELSE "loaded"
    ELSE IF Locked THEN st ELSE "loading"

ScalarRead(l)       == IF ~ l /\ ~ Locked THEN {Asks("all")} ELSE {}
ProviderRead(l, p)  == IF l /\ ~ p /\ ~ Locked THEN {Asks("providers")} ELSE {}

\* A dependency of the read effect has changed.
Moved(l) ==
    \/ clients' # clients \/ loadState' # loadState \/ visible' # visible
    \/ l # latch

ProvidersMoved(l, p) ==
    clients' # clients \/ loadState' # loadState \/ l # latch \/ p # provLatch

\* The render after a handler has set the latches to l and p, the status to st
\* and left the reads rs: the effects run with what the render saw, and when the
\* first one drops the latch, once more without it.
Rendered(l, p, st, rs) ==
    LET drops == GoesOffline(l)
        l2    == l /\ ~ drops
        p2    == p /\ ~ drops
        seen  == IF Moved(l) THEN StatusAfter(l, IF drops THEN "loading" ELSE st)
                             ELSE st
        ended == Ended(rs, (IF Moved(l) \/ drops THEN {"all"} ELSE {}) \cup
                           (IF ProvidersMoved(l, p) \/ drops THEN {"providers"} ELSE {}))
    IN  /\ latch' = l2 /\ provLatch' = p2
        /\ wasOnline' = (loadState' = "online")
        /\ status' = IF drops THEN StatusAfter(l2, seen) ELSE seen
        /\ reads' = ended
              \cup (IF Moved(l) \/ drops THEN ScalarRead(l2) ELSE {})
              \cup (IF ProvidersMoved(l, p) \/ drops THEN ProviderRead(l2, p2) ELSE {})

\* The polling hook moved by itself.
PollingMoved ==
    /\ UNCHANGED <<gateway, visible, form, provs, saves, readFailures>>
    /\ Rendered(latch, provLatch, status, reads)

\* setSettingsLoaded(false), called by the application or after a save.
Dropped == Rendered(FALSE, FALSE, "loading", reads)

DroppedByApp == UNCHANGED <<gateway, visible, form, provs, saves, readFailures>> /\ Dropped

\* onSaveConnection: another gateway, and the latch is dropped with it.  Another
\* key: a new connection to the same gateway, and nothing is dropped here.
ConnectionSaved ==
    /\ UNCHANGED <<visible, form, provs, saves, readFailures>>
    /\ \E g \in Gateways : gateway' = [gateway EXCEPT ![clients'] = g]
    /\ Dropped

KeyChanged ==
    /\ UNCHANGED <<visible, form, provs, saves, readFailures>>
    /\ gateway' = [gateway EXCEPT ![clients'] = gateway[clients]]
    /\ Rendered(latch, provLatch, status, reads)

-----------------------------------------------------------------------------
(* Steps of the hook itself; the polling hook stands still.                *)

SurfaceChanges ==
    /\ UNCHANGED <<gateway, form, provs, saves, readFailures>>
    /\ visible' = ~ visible
    /\ Rendered(latch, provLatch, status, reads)

\* Mutant: the answer is taken although the effect has ended.
Listens_Always(r) == TRUE
Listens(r) == r.active

\* All five scalars have answered; the provider table may have failed.
ReadLands(r) ==
    /\ UNCHANGED <<gateway, visible, saves>>
    /\ r \in reads /\ r.kind = "all" /\ Listens(r)
    /\ \E table \in BOOLEAN :
          /\ readFailures' = IF table THEN readFailures ELSE readFailures + 1
          /\ readFailures' <= MaxReadFailures
          /\ provs' = IF table THEN gateway[r.c] ELSE provs
          /\ Rendered(TRUE, table, "loaded", reads \ {r})
    /\ form' = gateway[r.c]

\* A scalar's read fails, or answers something the console does not understand.
ReadFails(r) ==
    /\ r \in reads /\ r.kind = "all" /\ Listens(r)
    /\ readFailures < MaxReadFailures /\ readFailures' = readFailures + 1
    /\ status' = "error"
    /\ reads' = reads \ {r}
    /\ UNCHANGED <<gateway, visible, latch, provLatch, wasOnline, form, provs,
                   saves>>

ProvidersLand(r) ==
    /\ UNCHANGED <<gateway, visible, form, saves, readFailures>>
    /\ r \in reads /\ r.kind = "providers" /\ Listens(r)
    /\ provs' = gateway[r.c]
    /\ Rendered(latch, TRUE, status, reads \ {r})

ProvidersFail(r) ==
    /\ r \in reads /\ r.kind = "providers" /\ Listens(r)
    /\ readFailures < MaxReadFailures /\ readFailures' = readFailures + 1
    /\ reads' = reads \ {r}
    /\ UNCHANGED <<gateway, visible, formVars, wasOnline, saves>>

ReadIgnored(r) ==
    /\ r \in reads /\ ~ Listens(r)
    /\ reads' = reads \ {r}
    /\ UNCHANGED <<gateway, visible, formVars, wasOnline, saves, readFailures>>

\* The gates of saveProxySettings and saveProviderProxySettings.
MaySave(kind) == status = "loaded" /\ (kind = "providers" => provLatch)

\* The form's values go to the connection of the render that was clicked.
ClickSave(kind) ==
    /\ saves = {}
    /\ MaySave(kind)
    /\ saves' = {[to |-> gateway[clients], kind |-> kind,
                  from |-> IF kind = "all" THEN form ELSE provs]}
    /\ UNCHANGED <<gateway, visible, formVars, wasOnline, reads, readFailures>>

\* The scalars are saved: drop the latch, so that they are read again.
SaveAnswered ==
    /\ UNCHANGED <<gateway, visible, form, provs, readFailures>>
    /\ \E s \in saves : s.kind = "all"
    /\ saves' = {}
    /\ Dropped

SaveFails ==
    /\ saves # {}
    /\ saves' = {}
    /\ UNCHANGED <<gateway, visible, formVars, wasOnline, reads, readFailures>>

Init ==
    /\ gateway = [c \in 1..MaxClients |-> 1]
    /\ visible = FALSE
    /\ latch = FALSE /\ provLatch = FALSE /\ status = "loading"
    /\ wasOnline = FALSE
    /\ form = 0 /\ provs = 0
    /\ reads = {[kind |-> "all", c |-> clients, active |-> TRUE]}
    /\ saves = {}
    /\ readFailures = 0

Answers ==
    \/ \E r \in reads : \/ ReadLands(r) \/ ReadFails(r) \/ ProvidersLand(r)
                        \/ ProvidersFail(r) \/ ReadIgnored(r)
    \/ SaveAnswered \/ SaveFails

Clicks == SurfaceChanges \/ \E kind \in {"all", "providers"} : ClickSave(kind)

-----------------------------------------------------------------------------
(* Properties.                                                             *)

TypeOK ==
    /\ gateway \in [1..MaxClients -> Gateways]
    /\ {visible, latch, provLatch, wasOnline} \subseteq BOOLEAN
    /\ status \in {"loading", "loaded", "error"}
    /\ {form, provs} \subseteq 0..MaxClients
    /\ reads \subseteq Reads /\ saves \subseteq Saves
    /\ readFailures \in 0..MaxReadFailures

\* The form's defaults, or values read from another gateway, are never saved over
\* a gateway's live values, for the scalars and for the provider table: whatever
\* reads were abandoned, failed or late, and however the connection changed.
OnlyOwnValuesSaved == \A s \in saves : s.from = s.to
=============================================================================
