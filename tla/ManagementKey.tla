------------------------------ MODULE ManagementKey ------------------------------
(***************************************************************************)
(* The management key of the gateway the application owns.  The gateway    *)
(* knows a hash of it, in config.yaml; the key itself is in the keychain.  *)
(* provision_management_key_from_profiles makes the two agree before each  *)
(* start of the gateway, over a file that the user edits and the gateway   *)
(* rewrites, and what it returns at launch is the key the console uses.    *)
(*                                                                         *)
(* Within an application it runs on the main thread, one call at a time;   *)
(* nothing keeps a second application from running beside the first.       *)
(***************************************************************************)
EXTENDS Naturals

CONSTANTS
    Apps,       \* applications of one user
    UserKeys,   \* keys the user may choose
    NoKey,
    MaxEdits,   \* bound: what the user does to the file and the UI profile
    MaxFaults   \* bound: failing reads and writes

ASSUME KeyAssumption ==
    /\ Apps \cap UserKeys = {} /\ NoKey \notin Apps \cup UserKeys
    /\ MaxEdits \in Nat /\ MaxFaults \in Nat

VARIABLES
    config,     \* config.yaml: the secret, and the version of all other text
    dedicated,  \* the keychain's entry "owned-gateway"
    general,    \* secrets.json: the UI profile's key
    running,    \* applications that run
    job,        \* the call of each application
    boot,       \* the key each console was given at launch
    written,    \* history: what the user last wrote in config.yaml
    late,       \* history: the user wrote between a call's last look and its rename
    overlapped, \* history: calls of two applications overlapped
    ok,         \* history: the last call succeeded, the secret not edited since
    edited,     \* history: the secret was edited since the application's launch
    edits, faults

stores  == <<config, dedicated, general>>
history == <<written, late, overlapped, ok, edited>>
vars    == <<stores, running, job, boot, history, edits, faults>>

\* The key a minting call of application a makes: once an application has stored
\* one, the entry is never empty again, so that it stores at most one.
Minted == Apps
Keys   == UserKeys \cup Minted

\* The key is in the file as the user wrote it, or as a bcrypt hash.
Texts   == [state : {"unset"}, key : {NoKey}, rest : 0..MaxEdits]
               \cup [state : {"plain", "hash"}, key : Keys, rest : 0..MaxEdits]
Empty   == [state |-> "unset", key |-> NoKey, rest |-> 0]

Stages  == {"read", "stored", "general", "check", "write", "verify", "recheck",
            "rename"}
NoJob   == [at |-> "idle", call |-> "start", existing |-> Empty, key |-> NoKey,
            clean |-> FALSE]

-----------------------------------------------------------------------------
(* provision_management_key_from_profiles, one access to the outside a step *)

At(a, stage) == job[a].at = stage

\* Ok(key): at launch the key goes into the console's initialisation script.
Returns(a) ==
    /\ job'  = [job EXCEPT ![a] = NoJob]
    /\ boot' = IF job[a].call = "boot" THEN [boot EXCEPT ![a] = job[a].key] ELSE boot
    /\ ok'   = [ok EXCEPT ![a] = job[a].clean]

Errs(a) ==
    /\ job'  = [job EXCEPT ![a] = NoJob]
    /\ boot' = IF job[a].call = "boot" THEN [boot EXCEPT ![a] = NoKey] ELSE boot
    /\ ok'   = [ok EXCEPT ![a] = FALSE]

Goes(a, stage) ==
    /\ job' = [job EXCEPT ![a].at = stage]
    /\ UNCHANGED <<boot, ok>>

GoesWith(a, stage, key) ==
    /\ job' = [job EXCEPT ![a].at = stage, ![a].key = key]
    /\ UNCHANGED <<boot, ok>>

others == <<running, written, late, overlapped, edited, edits>>

ReadConfig(a) ==
    /\ At(a, "read")
    /\ job' = [job EXCEPT ![a].at = "stored", ![a].existing = config]
    /\ UNCHANGED <<stores, boot, ok, others, faults>>

\* Mutant: an empty entry is taken for a key.
Reused_Empty(a) == dedicated
\* The stored key, or a new one.
Reused(a) == IF dedicated # NoKey THEN dedicated ELSE a

\* Mutant: a stored key is taken to be the configured one.
Fits_Always(key, text) == key # NoKey
Fits(key, text) == key = text.key

\* Mutant: a new key goes into the file first.
FirstStore_File == "recheck"
FirstStore == "write"

ReadStored(a) ==
    /\ At(a, "stored")
    /\ LET text == job[a].existing
       IN  \/ text.state = "hash" /\ Fits(dedicated, text)
              /\ GoesWith(a, "check", dedicated)
           \/ text.state = "hash" /\ ~ Fits(dedicated, text) /\ Goes(a, "general")
           \/ text.state = "plain" /\ GoesWith(a, "check", text.key)
           \/ text.state = "unset" /\ GoesWith(a, FirstStore, Reused(a))
    /\ UNCHANGED <<stores, others, faults>>

\* The keychain's key is not the configured one: the UI profile's may be.
ReadGeneral(a) ==
    /\ At(a, "general")
    /\ IF Fits(general, job[a].existing) THEN GoesWith(a, "check", general) ELSE Errs(a)
    /\ UNCHANGED <<stores, others, faults>>

Check(a) ==
    /\ At(a, "check")
    /\ IF dedicated = job[a].key THEN Returns(a) ELSE Goes(a, "write")
    /\ UNCHANGED <<stores, others, faults>>

\* write_verified, two accesses.
Write(a) ==
    /\ At(a, "write")
    /\ dedicated' = job[a].key
    /\ Goes(a, "verify")
    /\ UNCHANGED <<config, general, others, faults>>

Verify(a) ==
    /\ At(a, "verify")
    /\ \/ dedicated # job[a].key /\ Errs(a)
       \/ dedicated = job[a].key /\ job[a].existing.state # "unset" /\ Returns(a)
       \/ dedicated = job[a].key /\ job[a].existing.state = "unset" /\ Goes(a, "recheck")
    /\ UNCHANGED <<stores, others, faults>>

\* Mutant: the staged file is renamed over whatever is there.
Untouched_Any(a) == TRUE
Untouched(a) == config = job[a].existing

\* The new text is staged in a file of its own; the old one is read again.
Recheck(a) ==
    /\ At(a, "recheck")
    /\ IF Untouched(a) THEN Goes(a, "rename") ELSE Errs(a)
    /\ UNCHANGED <<stores, others, faults>>

Rename(a) ==
    /\ At(a, "rename")
    /\ config' = [job[a].existing EXCEPT !.state = "hash", !.key = job[a].key]
    /\ Returns(a)
    /\ UNCHANGED <<dedicated, general, others, faults>>

\* The keychain is locked, a file cannot be read or written.
Fault(a) ==
    /\ job[a].at \in Stages
    /\ faults < MaxFaults /\ faults' = faults + 1
    /\ Errs(a)
    /\ UNCHANGED <<stores, others>>

Provision(a) ==
    \/ ReadConfig(a) \/ ReadStored(a) \/ ReadGeneral(a) \/ Check(a)
    \/ Write(a) \/ Verify(a) \/ Recheck(a) \/ Rename(a) \/ Fault(a)

-----------------------------------------------------------------------------
(* The application.                                                        *)

Begins(a, call) ==
    /\ job' = [job EXCEPT ![a] = [at |-> "read", call |-> call, existing |-> Empty,
                                  key |-> NoKey, clean |-> TRUE]]
    /\ ok' = [ok EXCEPT ![a] = FALSE]
    /\ overlapped' = (overlapped \/ \E b \in Apps \ {a} : job[b].at \in Stages)

\* main, before it has a window.
Launch(a) ==
    /\ a \notin running
    /\ running' = running \cup {a}
    /\ Begins(a, "boot")
    /\ edited' = [edited EXCEPT ![a] = FALSE]
    /\ UNCHANGED <<stores, boot, written, late, edits, faults>>

\* spawn_gateway: at the end of main, and for the commands that start a gateway.
\* What its call returns is dropped: the console keeps the key it has.
StartGateway(a) ==
    /\ a \in running /\ At(a, "idle")
    /\ Begins(a, "start")
    /\ UNCHANGED <<stores, running, boot, written, late, edited, edits, faults>>

\* The application exits or is killed, wherever it is.
Dies(a) ==
    /\ a \in running
    /\ running' = running \ {a}
    /\ job' = [job EXCEPT ![a] = NoJob]
    /\ boot' = [boot EXCEPT ![a] = NoKey]
    /\ ok' = [ok EXCEPT ![a] = FALSE]
    /\ UNCHANGED <<stores, written, late, overlapped, edited, edits, faults>>

-----------------------------------------------------------------------------
(* The user, and the gateway.                                              *)

Edit == edits < MaxEdits /\ edits' = edits + 1

Writes(text) ==
    /\ Edit
    /\ config' = text
    /\ late' = (late \/ \E a \in Apps : At(a, "rename"))
    /\ written' = text
    /\ UNCHANGED <<dedicated, general, running, boot, overlapped, faults>>

\* A key of the user's own, or none.
WritesSecret(key) ==
    /\ Writes([config EXCEPT !.key = key,
                             !.state = IF key = NoKey THEN "unset" ELSE "plain"])
    /\ ok' = [a \in Apps |-> FALSE]
    /\ edited' = [a \in Apps |-> TRUE]
    /\ job' = [a \in Apps |-> [job[a] EXCEPT !.clean = FALSE]]

WritesRest ==
    /\ Writes([config EXCEPT !.rest = edits + 1])
    /\ UNCHANGED <<ok, edited, job>>

\* write_secret, from the settings of an application that is not busy.
EntersKey(key) ==
    /\ Edit
    /\ \E a \in running : At(a, "idle")
    /\ general' = key
    /\ UNCHANGED <<config, dedicated, running, job, boot, history, faults>>

\* The gateway replaces a plain secret by its hash.
GatewayHashes ==
    /\ config.state = "plain"
    /\ config' = [config EXCEPT !.state = "hash"]
    /\ UNCHANGED <<dedicated, general, running, job, boot, history, edits, faults>>

User ==
    \/ \E key \in UserKeys \cup {NoKey} : WritesSecret(key)
    \/ \E key \in UserKeys : EntersKey(key)
    \/ WritesRest

Init ==
    /\ config = Empty /\ dedicated = NoKey /\ general = NoKey
    /\ running = {}
    /\ job = [a \in Apps |-> NoJob]
    /\ boot = [a \in Apps |-> NoKey]
    /\ written = Empty /\ late = FALSE /\ overlapped = FALSE
    /\ ok = [a \in Apps |-> FALSE] /\ edited = [a \in Apps |-> FALSE]
    /\ edits = 0 /\ faults = 0

Next ==
    \/ \E a \in Apps : Provision(a) \/ Launch(a) \/ StartGateway(a) \/ Dies(a)
    \/ User \/ GatewayHashes

Spec == Init /\ [][Next]_vars

-----------------------------------------------------------------------------
(* Properties.                                                             *)

Jobs == [at : Stages \cup {"idle"}, call : {"boot", "start"}, existing : Texts,
         key : Keys \cup {NoKey}, clean : BOOLEAN]

TypeOK ==
    /\ config \in Texts /\ written \in Texts
    /\ dedicated \in Keys \cup {NoKey} /\ general \in UserKeys \cup {NoKey}
    /\ running \subseteq Apps
    /\ job \in [Apps -> Jobs]
    /\ boot \in [Apps -> Keys \cup {NoKey}]
    /\ late \in BOOLEAN /\ overlapped \in BOOLEAN
    /\ ok \in [Apps -> BOOLEAN] /\ edited \in [Apps -> BOOLEAN]
    /\ edits \in 0..MaxEdits /\ faults \in 0..MaxFaults

\* The gateway never holds the hash of a key that was minted for it and that is
\* not in the keychain, whatever call failed or was killed in the middle:
\* nobody else knows that key.  (write_verified comes before the rename.)
\* Two applications that provision at once can lock each other out.
NotLockedOut ==
    ~ overlapped /\ config.state = "hash" /\ config.key \in Minted
        => dedicated = config.key

\* The key the console sends: its own, or (read_secret) the keychain's, or the UI
\* profile's.
ConsoleKey(a) ==
    IF boot[a] # NoKey THEN boot[a]
    ELSE IF dedicated # NoKey THEN dedicated ELSE general

\* After a call has succeeded the console's key opens the gateway for as long as
\* the user leaves the secret alone, through later calls, failures and deaths of
\* both applications; a console that was given a key at launch keeps that one,
\* so that an edit it has lived through may leave it outside.
ConsoleKeyOpens ==
    \A a \in Apps :
        ok[a] /\ ~ overlapped /\ (boot[a] # NoKey => ~ edited[a])
            => config.state # "unset" /\ ConsoleKey(a) = config.key

\* What the user wrote in config.yaml stays: provisioning adds a secret where
\* there is none and changes nothing else, even when the user edits the file
\* under it, but for an edit between the second look and the rename.
EditsKept ==
    ~ late => /\ config.rest = written.rest
              /\ written.key # NoKey => config.key = written.key
=============================================================================
