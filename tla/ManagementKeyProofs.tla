--------------------------- MODULE ManagementKeyProofs ---------------------------
(***************************************************************************)
(* Proofs about ManagementKey, for any number of applications, keys, edits *)
(* and faults.                                                             *)
(***************************************************************************)
EXTENDS ManagementKey, TLAPS

-----------------------------------------------------------------------------
(* The stages of a call.                                                   *)

Past(a)  == job[a].at \in Stages \ {"read"}
Keyed(a) == job[a].at \in {"check", "write", "verify", "recheck", "rename"}
Final(a) == job[a].at \in {"recheck", "rename"}

\* What a call remembers, stage by stage: which text it read and which key it
\* settled on.
CallInv ==
    \A a \in Apps :
        /\ Keyed(a) => job[a].key \in Keys
        /\ job[a].at = "general" => job[a].existing.state = "hash"
        /\ job[a].at = "check" => job[a].existing.state # "unset"
        /\ Final(a) => job[a].existing.state = "unset"
        /\ Keyed(a) /\ job[a].existing.state # "unset" => job[a].key = job[a].existing.key

\* A call about to rename read the text that the user wrote last.
EditInv ==
    ~ late => \A a \in Apps :
        At(a, "rename") => job[a].existing.rest = written.rest /\ written.key = NoKey

Inv == TypeOK /\ CallInv /\ EditInv /\ EditsKept

\* A key in plain text is one of the user's, in the file and in a call's memory.
PlainIsUsers ==
    /\ config.state = "plain" => config.key \in UserKeys
    /\ \A a \in Apps : job[a].existing.state = "plain" => job[a].existing.key \in UserKeys

OneCall ==
    ~ overlapped =>
        \A a, b \in Apps : job[a].at \in Stages /\ job[b].at \in Stages => a = b

\* While a minted key's hash is in the file, a call that has read the file has
\* read it there.
MintedSeen ==
    ~ overlapped /\ config.state = "hash" /\ config.key \in Minted =>
        \A a \in Apps : Past(a) => /\ job[a].existing.state = "hash"
                                   /\ job[a].existing.key = config.key

\* write_verified comes first.
StoredFirst == ~ overlapped => \A a \in Apps : Final(a) => dedicated = job[a].key

LockInv == PlainIsUsers /\ OneCall /\ MintedSeen /\ StoredFirst /\ NotLockedOut

\* A call during which the secret was not edited knows the configured key.
CleanInv ==
    ~ overlapped => \A a \in Apps :
        Past(a) /\ job[a].clean /\ job[a].existing.state # "unset"
            => config.state # "unset" /\ config.key = job[a].existing.key

\* After a success the keychain has the configured key, and every call since
\* has read that key.
SuccessInv ==
    ~ overlapped => \A a \in Apps : ok[a] =>
        /\ config.state # "unset" /\ dedicated = config.key
        /\ \A b \in Apps : Past(b) => /\ job[b].existing.state # "unset"
                                      /\ job[b].existing.key = config.key

\* A console that lived through no edit of the secret was given the configured
\* key, and no call since then has found the secret missing.
BootInv ==
    ~ overlapped => \A a \in Apps : boot[a] # NoKey /\ ~ edited[a] =>
        /\ config.state # "unset" /\ boot[a] = config.key
        /\ \A b \in Apps : Past(b) => job[b].existing.state # "unset"

LaunchInv ==
    \A a \in Apps :
        /\ a \notin running => boot[a] = NoKey /\ job[a].at \notin Stages
        /\ job[a].at \in Stages /\ job[a].call = "boot" /\ ~ edited[a] => job[a].clean

OpenInv == CleanInv /\ SuccessInv /\ BootInv /\ LaunchInv

-----------------------------------------------------------------------------
(* Records, and what a step does to the calls.                             *)

LEMMA TextFacts ==
  ASSUME NEW t \in Texts
  PROVE  /\ t = [state |-> t.state, key |-> t.key, rest |-> t.rest]
         /\ t.state \in {"unset", "plain", "hash"} /\ t.rest \in 0..MaxEdits
         /\ t.key \in Keys \cup {NoKey}
         /\ t.state = "unset" <=> t.key = NoKey
         /\ t.state # "unset" <=> t.key \in Keys
  BY KeyAssumption DEF Texts, Keys, Minted

LEMMA TextMade ==
  ASSUME NEW t \in Texts, NEW k \in Keys, NEW st \in {"plain", "hash"}
  PROVE  [t EXCEPT !.state = st, !.key = k] \in Texts
  BY TextFacts DEF Texts

\* One call changes, to this.
Moved(a, stage, text, key, call, clean) ==
    /\ job' \in [Apps -> Jobs]
    /\ \A b \in Apps \ {a} : job'[b] = job[b]
    /\ job'[a].at = stage /\ job'[a].existing = text /\ job'[a].key = key
    /\ job'[a].call = call /\ job'[a].clean = clean

LEMMA EmptyIsText == Empty \in Texts
  BY KeyAssumption DEF Empty, Texts

LEMMA NoJobFacts ==
  /\ NoJob \in Jobs /\ NoJob.at = "idle" /\ NoJob.call = "start" /\ NoJob.existing = Empty
  /\ NoJob.key = NoKey /\ NoJob.clean = FALSE
  BY EmptyIsText DEF NoJob, Jobs

LEMMA MovedTo ==
  ASSUME TypeOK, NEW a \in Apps, NEW j \in Jobs, job' = [job EXCEPT ![a] = j]
  PROVE  Moved(a, j.at, j.existing, j.key, j.call, j.clean)
  BY DEF TypeOK, Moved

LEMMA GoesFacts ==
  ASSUME TypeOK, NEW a \in Apps, NEW stage \in Stages, Goes(a, stage)
  PROVE  /\ Moved(a, stage, job[a].existing, job[a].key, job[a].call, job[a].clean)
         /\ UNCHANGED <<boot, ok>>
<1> DEFINE j == [job[a] EXCEPT !.at = stage]
<1>1. job[a] \in Jobs
  BY DEF TypeOK
<1>2. /\ j \in Jobs /\ j.at = stage /\ j.existing = job[a].existing
      /\ j.key = job[a].key /\ j.call = job[a].call /\ j.clean = job[a].clean
  BY <1>1 DEF Jobs
<1>3. job' = [job EXCEPT ![a] = j] /\ UNCHANGED <<boot, ok>>
  BY DEF Goes
<1> HIDE DEF j
<1> QED
  BY <1>2, <1>3, MovedTo

LEMMA GoesWithFacts ==
  ASSUME TypeOK, NEW a \in Apps, NEW stage \in Stages, NEW key \in Keys \cup {NoKey},
         GoesWith(a, stage, key)
  PROVE  /\ Moved(a, stage, job[a].existing, key, job[a].call, job[a].clean)
         /\ UNCHANGED <<boot, ok>>
<1> DEFINE j == [job[a] EXCEPT !.at = stage, !.key = key]
<1>1. job[a] \in Jobs
  BY DEF TypeOK
<1>2. /\ j \in Jobs /\ j.at = stage /\ j.existing = job[a].existing
      /\ j.key = key /\ j.call = job[a].call /\ j.clean = job[a].clean
  BY <1>1 DEF Jobs
<1>3. job' = [job EXCEPT ![a] = j] /\ UNCHANGED <<boot, ok>>
  BY DEF GoesWith
<1> HIDE DEF j
<1> QED
  BY <1>2, <1>3, MovedTo

LEMMA ReturnsFacts ==
  ASSUME TypeOK, NEW a \in Apps, Returns(a)
  PROVE  /\ Moved(a, "idle", Empty, NoKey, "start", FALSE)
         /\ boot' \in [Apps -> Keys \cup {NoKey}] /\ ok' \in [Apps -> BOOLEAN]
         /\ \A b \in Apps \ {a} : boot'[b] = boot[b] /\ ok'[b] = ok[b]
         /\ ok'[a] = job[a].clean
         /\ boot'[a] = IF job[a].call = "boot" THEN job[a].key ELSE boot[a]
<1>1. job[a] \in Jobs
  BY DEF TypeOK
<1>2. job[a].key \in Keys \cup {NoKey} /\ job[a].clean \in BOOLEAN
  BY <1>1 DEF Jobs
<1>3. Moved(a, "idle", Empty, NoKey, "start", FALSE)
  BY NoJobFacts, MovedTo DEF Returns
<1> QED
  BY <1>2, <1>3 DEF Returns, TypeOK

LEMMA ErrsFacts ==
  ASSUME TypeOK, NEW a \in Apps, Errs(a)
  PROVE  /\ Moved(a, "idle", Empty, NoKey, "start", FALSE)
         /\ boot' \in [Apps -> Keys \cup {NoKey}] /\ ok' \in [Apps -> BOOLEAN]
         /\ \A b \in Apps \ {a} : boot'[b] = boot[b] /\ ok'[b] = ok[b]
         /\ ok'[a] = FALSE
         /\ boot'[a] = IF job[a].call = "boot" THEN NoKey ELSE boot[a]
<1>1. Moved(a, "idle", Empty, NoKey, "start", FALSE)
  BY NoJobFacts, MovedTo DEF Errs
<1> QED
  BY <1>1 DEF Errs, TypeOK

LEMMA BeginsFacts ==
  ASSUME TypeOK, NEW a \in Apps, NEW call \in {"boot", "start"}, Begins(a, call)
  PROVE  /\ Moved(a, "read", Empty, NoKey, call, TRUE)
         /\ ok' \in [Apps -> BOOLEAN] /\ ok'[a] = FALSE
         /\ \A b \in Apps \ {a} : ok'[b] = ok[b]
         /\ overlapped' \in BOOLEAN /\ (overlapped => overlapped')
         /\ ~ overlapped' => \A b \in Apps \ {a} : job[b].at \notin Stages
<1> DEFINE j == [at |-> "read", call |-> call, existing |-> Empty, key |-> NoKey,
                 clean |-> TRUE]
<1>1. /\ j \in Jobs /\ j.at = "read" /\ j.existing = Empty
      /\ j.key = NoKey /\ j.call = call /\ j.clean = TRUE
  BY EmptyIsText DEF Jobs, Stages
<1>2. job' = [job EXCEPT ![a] = j]
  BY DEF Begins
<1> HIDE DEF j
<1>3. Moved(a, "read", Empty, NoKey, call, TRUE)
  BY <1>1, <1>2, MovedTo
<1> QED
  BY <1>3 DEF Begins, TypeOK

-----------------------------------------------------------------------------
(* The steps of a call, by what they do.                                   *)

KeyedStages == {"check", "write", "verify", "recheck", "rename"}

\* On to a next stage, the stores unchanged.
Advances(a) ==
    \E stage \in Stages \ {"read"}, key \in Keys \cup {NoKey} :
        /\ Past(a)
        /\ Moved(a, stage, job[a].existing, key, job[a].call, job[a].clean)
        /\ UNCHANGED <<stores, boot, ok, others, faults>>
        /\ stage \in KeyedStages => key \in Keys
        /\ stage = "general" => job[a].existing.state = "hash"
        /\ stage = "check" => job[a].existing.state # "unset"
        /\ stage = "recheck" => job[a].existing.state = "unset" /\ dedicated = key
        /\ stage = "rename" => /\ At(a, "recheck") /\ key = job[a].key
                               /\ config = job[a].existing
        /\ stage \in KeyedStages /\ job[a].existing.state # "unset" =>
              key = job[a].existing.key

\* The configured key is the stored one.
Succeeds(a) ==
    /\ Past(a) /\ Keyed(a) /\ Returns(a)
    /\ dedicated = job[a].key /\ job[a].existing.state # "unset"
    /\ UNCHANGED <<stores, others, faults>>

GivesUp(a) ==
    /\ job[a].at \in Stages /\ Errs(a)
    /\ UNCHANGED <<stores, others>> /\ faults' \in 0..MaxFaults

LEMMA ProvisionSteps ==
  ASSUME Inv, NEW a \in Apps, Provision(a)
  PROVE  ReadConfig(a) \/ Write(a) \/ Rename(a) \/ Advances(a) \/ Succeeds(a) \/ GivesUp(a)
<1>1. /\ TypeOK /\ job[a] \in Jobs /\ job[a].existing \in Texts
      /\ dedicated \in Keys \cup {NoKey}
  BY DEF Inv, TypeOK, Jobs
<1>2. CASE ReadStored(a)
  <2>1. /\ UNCHANGED <<stores, others, faults>> /\ Past(a)
    BY <1>2 DEF ReadStored, At, Past, Stages
  <2>2. CASE job[a].existing.state = "hash" /\ dedicated = job[a].existing.key
                /\ GoesWith(a, "check", dedicated)
    <3>1. dedicated \in Keys
      BY <1>1, <2>2, TextFacts
    <3>2. /\ Moved(a, "check", job[a].existing, dedicated, job[a].call, job[a].clean)
          /\ UNCHANGED <<boot, ok>>
      BY <1>1, <2>2, GoesWithFacts DEF Stages
    <3> QED
      BY <1>1, <2>1, <2>2, <3>1, <3>2 DEF Advances, Stages, KeyedStages
  <2>3. CASE job[a].existing.state = "hash" /\ Goes(a, "general")
    <3>1. /\ Moved(a, "general", job[a].existing, job[a].key, job[a].call, job[a].clean)
          /\ UNCHANGED <<boot, ok>>
      BY <1>1, <2>3, GoesFacts DEF Stages
    <3>2. job[a].key \in Keys \cup {NoKey}
      BY <1>1 DEF Jobs
    <3> QED
      BY <2>1, <2>3, <3>1, <3>2 DEF Advances, Stages, KeyedStages
  <2>4. CASE job[a].existing.state = "plain" /\ GoesWith(a, "check", job[a].existing.key)
    <3>1. job[a].existing.key \in Keys
      BY <1>1, <2>4, TextFacts
    <3>2. /\ Moved(a, "check", job[a].existing, job[a].existing.key, job[a].call, job[a].clean)
          /\ UNCHANGED <<boot, ok>>
      BY <1>1, <2>4, <3>1, GoesWithFacts DEF Stages
    <3> QED
      BY <2>1, <2>4, <3>1, <3>2 DEF Advances, Stages, KeyedStages
  <2>5. CASE job[a].existing.state = "unset" /\ GoesWith(a, "write", Reused(a))
    <3>1. Reused(a) \in Keys
      BY <1>1 DEF Reused, Keys, Minted
    <3>2. /\ Moved(a, "write", job[a].existing, Reused(a), job[a].call, job[a].clean)
          /\ UNCHANGED <<boot, ok>>
      BY <1>1, <2>5, <3>1, GoesWithFacts DEF Stages
    <3> QED
      BY <2>1, <2>5, <3>1, <3>2 DEF Advances, Stages, KeyedStages
  <2> QED
    BY <1>2, <2>2, <2>3, <2>4, <2>5 DEF ReadStored, Fits, FirstStore
<1>3. CASE ReadGeneral(a)
  <2>1. /\ UNCHANGED <<stores, others, faults>> /\ Past(a) /\ job[a].at \in Stages
        /\ job[a].existing.state = "hash"
    BY <1>3 DEF ReadGeneral, At, Past, Stages, Inv, CallInv
  <2>2. CASE Errs(a)
    BY <1>1, <2>1, <2>2 DEF GivesUp, TypeOK
  <2>3. CASE general = job[a].existing.key /\ GoesWith(a, "check", general)
    <3>1. general \in Keys
      BY <1>1, <2>1, <2>3, TextFacts
    <3>2. /\ Moved(a, "check", job[a].existing, general, job[a].call, job[a].clean)
          /\ UNCHANGED <<boot, ok>>
      BY <1>1, <2>3, <3>1, GoesWithFacts DEF Stages
    <3> QED
      BY <2>1, <2>3, <3>1, <3>2 DEF Advances, Stages, KeyedStages
  <2> QED
    BY <1>3, <2>2, <2>3 DEF ReadGeneral, Fits
<1>4. CASE Check(a)
  <2>1. /\ UNCHANGED <<stores, others, faults>> /\ Past(a) /\ Keyed(a)
        /\ job[a].existing.state # "unset" /\ job[a].key \in Keys
        /\ job[a].key = job[a].existing.key
    BY <1>4 DEF Check, At, Past, Keyed, Stages, Inv, CallInv
  <2>2. CASE dedicated = job[a].key /\ Returns(a)
    BY <2>1, <2>2 DEF Succeeds
  <2>3. CASE Goes(a, "write")
    <3>1. /\ Moved(a, "write", job[a].existing, job[a].key, job[a].call, job[a].clean)
          /\ UNCHANGED <<boot, ok>>
      BY <1>1, <2>3, GoesFacts DEF Stages
    <3> QED
      BY <2>1, <3>1 DEF Advances, Stages, KeyedStages
  <2> QED
    BY <1>4, <2>2, <2>3 DEF Check
<1>5. CASE Verify(a)
  <2>1. /\ UNCHANGED <<stores, others, faults>> /\ Past(a) /\ Keyed(a) /\ job[a].at \in Stages
        /\ job[a].key \in Keys
    BY <1>5 DEF Verify, At, Past, Keyed, Stages, Inv, CallInv
  <2>2. CASE Errs(a)
    BY <1>1, <2>1, <2>2 DEF GivesUp, TypeOK
  <2>3. CASE dedicated = job[a].key /\ job[a].existing.state # "unset" /\ Returns(a)
    BY <2>1, <2>3 DEF Succeeds
  <2>4. CASE dedicated = job[a].key /\ job[a].existing.state = "unset" /\ Goes(a, "recheck")
    <3>1. /\ Moved(a, "recheck", job[a].existing, job[a].key, job[a].call, job[a].clean)
          /\ UNCHANGED <<boot, ok>>
      BY <1>1, <2>4, GoesFacts DEF Stages
    <3> QED
      BY <2>1, <2>4, <3>1 DEF Advances, Stages, KeyedStages
  <2> QED
    BY <1>5, <2>2, <2>3, <2>4 DEF Verify
<1>6. CASE Recheck(a)
  <2>1. /\ UNCHANGED <<stores, others, faults>> /\ Past(a) /\ job[a].at \in Stages
        /\ job[a].key \in Keys /\ At(a, "recheck") /\ job[a].existing.state = "unset"
    BY <1>6 DEF Recheck, At, Past, Keyed, Final, Stages, Inv, CallInv
  <2>2. CASE Errs(a)
    BY <1>1, <2>1, <2>2 DEF GivesUp, TypeOK
  <2>3. CASE config = job[a].existing /\ Goes(a, "rename")
    <3>1. /\ Moved(a, "rename", job[a].existing, job[a].key, job[a].call, job[a].clean)
          /\ UNCHANGED <<boot, ok>>
      BY <1>1, <2>3, GoesFacts DEF Stages
    <3> QED
      BY <2>1, <2>3, <3>1 DEF Advances, Stages, KeyedStages
  <2> QED
    BY <1>6, <2>2, <2>3 DEF Recheck, Untouched
<1>7. CASE Fault(a)
  <2>1. faults' \in 0..MaxFaults
    BY <1>1, <1>7, KeyAssumption DEF Fault, TypeOK
  <2> QED
    BY <1>7, <2>1 DEF Fault, GivesUp
<1> QED
  BY <1>2, <1>3, <1>4, <1>5, <1>6, <1>7 DEF Provision

-----------------------------------------------------------------------------
(* Types, and what a call remembers.                                       *)

\* What the user's writes of config.yaml do to the rest.
LEMMA WritesFacts ==
  ASSUME Inv, NEW text \in Texts, Writes(text)
  PROVE  /\ config' = text /\ written' = text /\ UNCHANGED <<dedicated, general, running, boot, overlapped, faults>>
         /\ edits' \in 0..MaxEdits /\ late' \in BOOLEAN
         /\ ~ late' => ~ late /\ \A a \in Apps : ~ At(a, "rename")
<1>1. edits' \in 0..MaxEdits
  BY KeyAssumption DEF Inv, TypeOK, Writes, Edit
<1> QED
  BY <1>1 DEF Writes, Inv, TypeOK

\* An edit of the secret marks the calls under way.
LEMMA WritesSecretFacts ==
  ASSUME Inv, NEW key \in UserKeys \cup {NoKey}, WritesSecret(key)
  PROVE  /\ config' \in Texts /\ Writes(config') /\ config'.key = key
         /\ config'.state = IF key = NoKey THEN "unset" ELSE "plain"
         /\ job' \in [Apps -> Jobs]
         /\ \A a \in Apps : /\ job'[a].at = job[a].at /\ job'[a].existing = job[a].existing
                            /\ job'[a].key = job[a].key /\ job'[a].call = job[a].call
                            /\ job'[a].clean = FALSE
         /\ ok' = [a \in Apps |-> FALSE] /\ edited' = [a \in Apps |-> TRUE]
<1> DEFINE text == [config EXCEPT !.key = key, !.state = IF key = NoKey THEN "unset" ELSE "plain"]
           marked(a) == [job[a] EXCEPT !.clean = FALSE]
<1>1. config \in Texts
  BY DEF Inv, TypeOK
<1>2. /\ text \in Texts /\ text.key = key
      /\ text.state = IF key = NoKey THEN "unset" ELSE "plain"
  BY <1>1, TextFacts, KeyAssumption DEF Texts, Keys
<1>3. Writes(text) /\ config' = text
  BY DEF WritesSecret, Writes
<1>4. \A a \in Apps : job[a] \in Jobs
  BY DEF Inv, TypeOK
<1>5. \A a \in Apps :
         /\ marked(a) \in Jobs /\ marked(a).at = job[a].at
         /\ marked(a).existing = job[a].existing /\ marked(a).key = job[a].key
         /\ marked(a).call = job[a].call /\ marked(a).clean = FALSE
  BY <1>4 DEF Jobs
<1>6. /\ job' = [a \in Apps |-> marked(a)]
      /\ ok' = [a \in Apps |-> FALSE] /\ edited' = [a \in Apps |-> TRUE]
  BY DEF WritesSecret
<1> HIDE DEF text, marked
<1> QED
  BY <1>2, <1>3, <1>5, <1>6

LEMMA WritesRestFacts ==
  ASSUME Inv, WritesRest
  PROVE  /\ config' \in Texts /\ Writes(config') /\ config'.key = config.key
         /\ config'.state = config.state /\ UNCHANGED <<ok, edited, job>>
<1> DEFINE text == [config EXCEPT !.rest = edits + 1]
<1>1. config \in Texts /\ edits + 1 \in 0..MaxEdits
  BY KeyAssumption DEF Inv, TypeOK, WritesRest, Writes, Edit
<1>2. text \in Texts /\ text.key = config.key /\ text.state = config.state
  BY <1>1, TextFacts DEF Texts
<1>3. Writes(text) /\ config' = text /\ UNCHANGED <<ok, edited, job>>
  BY DEF WritesRest, Writes
<1> HIDE DEF text
<1> QED
  BY <1>2, <1>3

LEMMA HashesFacts ==
  ASSUME Inv, GatewayHashes
  PROVE  /\ config' \in Texts /\ config'.key = config.key /\ config'.state = "hash"
         /\ config'.rest = config.rest /\ config.state = "plain"
         /\ UNCHANGED <<dedicated, general, running, job, boot, history, edits, faults>>
<1>1. config \in Texts /\ config.state = "plain"
  BY DEF Inv, TypeOK, GatewayHashes
<1>2. config.key \in Keys
  BY <1>1, TextFacts
<1>3. config' = [config EXCEPT !.state = "hash"]
  BY DEF GatewayHashes
<1>4. [config EXCEPT !.state = "hash"] \in Texts
  BY <1>1, <1>2, TextFacts DEF Texts
<1> QED
  BY <1>1, <1>3, <1>4, TextFacts DEF GatewayHashes

LEMMA RenameFacts ==
  ASSUME Inv, NEW a \in Apps, Rename(a)
  PROVE  /\ config' \in Texts /\ config'.state = "hash" /\ config'.key = job[a].key
         /\ config'.rest = job[a].existing.rest /\ job[a].key \in Keys
         /\ job[a].existing.state = "unset"
         /\ Returns(a) /\ UNCHANGED <<dedicated, general, others, faults>>
<1>1. /\ job[a].existing \in Texts /\ job[a].key \in Keys /\ job[a].existing.state = "unset"
  BY DEF Inv, TypeOK, CallInv, Jobs, Rename, At, Keyed, Final
<1>2. config' = [job[a].existing EXCEPT !.state = "hash", !.key = job[a].key]
  BY DEF Rename
<1>3. config' \in Texts
  BY <1>1, <1>2, TextMade
<1> QED
  BY <1>1, <1>2, <1>3, TextFacts DEF Rename

\* A step after which one call stands at such a stage keeps the rest.
LEMMA CallMoves ==
  ASSUME Inv, NEW a \in Apps, NEW stage, NEW text, NEW key, NEW call, NEW clean,
         Moved(a, stage, text, key, call, clean),
         stage \in KeyedStages => key \in Keys,
         stage = "general" => text.state = "hash",
         stage = "check" => text.state # "unset",
         stage \in {"recheck", "rename"} => text.state = "unset",
         stage \in KeyedStages /\ text.state # "unset" => key = text.key
  PROVE  CallInv'
  BY DEF Inv, CallInv, Keyed, Final, Moved, KeyedStages

LEMMA InvInit == Init => Inv
<1> SUFFICES ASSUME Init PROVE Inv
  OBVIOUS
<1>1. TypeOK
  <2>1. config \in Texts /\ written \in Texts /\ job \in [Apps -> Jobs]
    BY EmptyIsText, NoJobFacts DEF Init
  <2>2. 0 \in 0..MaxEdits /\ 0 \in 0..MaxFaults
    BY KeyAssumption
  <2> QED
    BY <2>1, <2>2 DEF Init, TypeOK
<1>2. \A a \in Apps : job[a].at = "idle"
  BY NoJobFacts DEF Init
<1>3. CallInv /\ EditInv
  BY <1>2 DEF CallInv, EditInv, Keyed, Final, At
<1>4. EditsKept
  BY DEF Init, EditsKept
<1> QED
  BY <1>1, <1>3, <1>4 DEF Inv

LEMMA InvStep == Inv /\ [Next]_vars => Inv'
<1> SUFFICES ASSUME Inv, [Next]_vars PROVE Inv'
  OBVIOUS
<1>0. TypeOK /\ CallInv /\ EditInv /\ EditsKept
  BY DEF Inv
<1>1. ASSUME NEW a \in Apps, ReadConfig(a) PROVE Inv'
  <2>1. /\ Moved(a, "stored", config, job[a].key, job[a].call, job[a].clean)
        /\ UNCHANGED <<stores, boot, ok, others, faults>>
    <3> DEFINE j == [job[a] EXCEPT !.at = "stored", !.existing = config]
    <3>1. job[a] \in Jobs /\ config \in Texts
      BY <1>0 DEF TypeOK
    <3>2. /\ j \in Jobs /\ j.at = "stored" /\ j.existing = config
          /\ j.key = job[a].key /\ j.call = job[a].call /\ j.clean = job[a].clean
      BY <3>1 DEF Jobs, Stages
    <3>3. job' = [job EXCEPT ![a] = j] /\ UNCHANGED <<stores, boot, ok, others, faults>>
      BY <1>1 DEF ReadConfig
    <3> HIDE DEF j
    <3> QED
      BY <1>0, <3>2, <3>3, MovedTo
  <2>2. TypeOK'
    BY <1>0, <2>1 DEF TypeOK, Moved, stores, others
  <2>3. CallInv'
    BY <2>1, CallMoves DEF KeyedStages
  <2>4. EditInv' /\ EditsKept'
    BY <1>0, <2>1 DEF EditInv, EditsKept, Moved, At, stores, others
  <2> QED
    BY <2>2, <2>3, <2>4 DEF Inv
<1>2. ASSUME NEW a \in Apps, Advances(a) PROVE Inv'
  <2>1. PICK stage \in Stages \ {"read"}, key \in Keys \cup {NoKey} :
           /\ Past(a)
           /\ Moved(a, stage, job[a].existing, key, job[a].call, job[a].clean)
           /\ UNCHANGED <<stores, boot, ok, others, faults>>
           /\ stage \in KeyedStages => key \in Keys
           /\ stage = "general" => job[a].existing.state = "hash"
           /\ stage = "check" => job[a].existing.state # "unset"
           /\ stage = "recheck" => job[a].existing.state = "unset" /\ dedicated = key
           /\ stage = "rename" => /\ At(a, "recheck") /\ key = job[a].key
                                  /\ config = job[a].existing
           /\ stage \in KeyedStages /\ job[a].existing.state # "unset" =>
                 key = job[a].existing.key
    BY <1>2 DEF Advances
  <2>2. TypeOK'
    BY <1>0, <2>1 DEF TypeOK, Moved, stores, others
  <2>3. stage \in {"recheck", "rename"} => job[a].existing.state = "unset"
    BY <1>0, <2>1 DEF CallInv, Final, At
  <2>4. CallInv'
    BY <2>1, <2>3, CallMoves
  <2>5. ~ late /\ stage = "rename" =>
           job[a].existing.rest = written.rest /\ written.key = NoKey
    <3>1. job[a].existing \in Texts
      BY <1>0 DEF TypeOK, Jobs
    <3> QED
      BY <1>0, <2>1, <2>3, <3>1, TextFacts DEF EditsKept
  <2>6. EditInv' /\ EditsKept'
    BY <1>0, <2>1, <2>5 DEF EditInv, EditsKept, Moved, At, stores, others
  <2> QED
    BY <2>2, <2>4, <2>6 DEF Inv
<1>3. ASSUME NEW a \in Apps, Succeeds(a) PROVE Inv'
  <2>1. /\ Moved(a, "idle", Empty, NoKey, "start", FALSE)
        /\ boot' \in [Apps -> Keys \cup {NoKey}] /\ ok' \in [Apps -> BOOLEAN]
        /\ UNCHANGED <<stores, others, faults>>
    BY <1>0, <1>3, ReturnsFacts DEF Succeeds
  <2>2. TypeOK'
    BY <1>0, <2>1 DEF TypeOK, Moved, stores, others
  <2>3. CallInv'
    BY <2>1, CallMoves DEF KeyedStages
  <2>4. EditInv' /\ EditsKept'
    BY <1>0, <2>1 DEF EditInv, EditsKept, Moved, At, stores, others
  <2> QED
    BY <2>2, <2>3, <2>4 DEF Inv
<1>4. ASSUME NEW a \in Apps, GivesUp(a) PROVE Inv'
  <2>1. /\ Moved(a, "idle", Empty, NoKey, "start", FALSE)
        /\ boot' \in [Apps -> Keys \cup {NoKey}] /\ ok' \in [Apps -> BOOLEAN]
        /\ UNCHANGED <<stores, others>> /\ faults' \in 0..MaxFaults
    BY <1>0, <1>4, ErrsFacts DEF GivesUp
  <2>2. TypeOK'
    BY <1>0, <2>1 DEF TypeOK, Moved, stores, others
  <2>3. CallInv'
    BY <2>1, CallMoves DEF KeyedStages
  <2>4. EditInv' /\ EditsKept'
    BY <1>0, <2>1 DEF EditInv, EditsKept, Moved, At, stores, others
  <2> QED
    BY <2>2, <2>3, <2>4 DEF Inv
<1>5. ASSUME NEW a \in Apps, Write(a) PROVE Inv'
  <2>1. /\ Moved(a, "verify", job[a].existing, job[a].key, job[a].call, job[a].clean)
        /\ UNCHANGED <<boot, ok>>
    BY <1>0, <1>5, GoesFacts DEF Write, Stages
  <2>2. /\ job[a].key \in Keys /\ dedicated' = job[a].key
        /\ UNCHANGED <<config, general, others, faults>>
        /\ job[a].existing.state # "unset" => job[a].key = job[a].existing.key
    BY <1>0, <1>5 DEF Write, CallInv, At, Keyed
  <2>3. TypeOK'
    BY <1>0, <2>1, <2>2 DEF TypeOK, Moved, others
  <2>4. CallInv'
    BY <2>1, <2>2, CallMoves
  <2>5. EditInv' /\ EditsKept'
    BY <1>0, <2>1, <2>2 DEF EditInv, EditsKept, Moved, At, others
  <2> QED
    BY <2>3, <2>4, <2>5 DEF Inv
<1>6. ASSUME NEW a \in Apps, Rename(a) PROVE Inv'
  <2>1. /\ Moved(a, "idle", Empty, NoKey, "start", FALSE)
        /\ boot' \in [Apps -> Keys \cup {NoKey}] /\ ok' \in [Apps -> BOOLEAN]
        /\ UNCHANGED <<dedicated, general, others, faults>>
        /\ config' \in Texts /\ config'.rest = job[a].existing.rest
    BY <1>0, <1>6, ReturnsFacts, RenameFacts
  <2>2. TypeOK'
    BY <1>0, <2>1 DEF TypeOK, Moved, others
  <2>3. CallInv'
    BY <2>1, CallMoves DEF KeyedStages
  <2>4. At(a, "rename")
    BY <1>6 DEF Rename
  <2>5. EditInv' /\ EditsKept'
    BY <1>0, <2>1, <2>4 DEF EditInv, EditsKept, Moved, At, others
  <2> QED
    BY <2>2, <2>3, <2>5 DEF Inv
<1>7. ASSUME NEW a \in Apps, Launch(a) \/ StartGateway(a) PROVE Inv'
  <2>1. PICK call \in {"boot", "start"} : Begins(a, call)
    BY <1>7 DEF Launch, StartGateway
  <2>2. /\ Moved(a, "read", Empty, NoKey, call, TRUE)
        /\ ok' \in [Apps -> BOOLEAN] /\ overlapped' \in BOOLEAN
    BY <1>0, <2>1, BeginsFacts
  <2>3. /\ UNCHANGED <<stores, boot, written, late, edits, faults>>
        /\ running' \subseteq Apps /\ edited' \in [Apps -> BOOLEAN]
    BY <1>0, <1>7 DEF Launch, StartGateway, TypeOK
  <2>4. TypeOK'
    BY <1>0, <2>2, <2>3 DEF TypeOK, Moved, stores
  <2>5. CallInv'
    BY <2>2, CallMoves DEF KeyedStages
  <2>6. EditInv' /\ EditsKept'
    BY <1>0, <2>2, <2>3 DEF EditInv, EditsKept, Moved, At, stores
  <2> QED
    BY <2>4, <2>5, <2>6 DEF Inv
<1>8. ASSUME NEW a \in Apps, Dies(a) PROVE Inv'
  <2>1. Moved(a, "idle", Empty, NoKey, "start", FALSE)
    BY <1>0, <1>8, NoJobFacts, MovedTo DEF Dies
  <2>2. /\ UNCHANGED <<stores, written, late, overlapped, edited, edits, faults>>
        /\ running' \subseteq Apps /\ boot' \in [Apps -> Keys \cup {NoKey}]
        /\ ok' \in [Apps -> BOOLEAN]
    BY <1>0, <1>8 DEF Dies, TypeOK
  <2>3. TypeOK'
    BY <1>0, <2>1, <2>2 DEF TypeOK, Moved, stores
  <2>4. CallInv'
    BY <2>1, CallMoves DEF KeyedStages
  <2>5. EditInv' /\ EditsKept'
    BY <1>0, <2>1, <2>2 DEF EditInv, EditsKept, Moved, At, stores
  <2> QED
    BY <2>3, <2>4, <2>5 DEF Inv
<1>9. ASSUME NEW key \in UserKeys \cup {NoKey}, WritesSecret(key) PROVE Inv'
  <2>1. /\ config' \in Texts /\ written' = config' /\ job' \in [Apps -> Jobs]
        /\ UNCHANGED <<dedicated, general, running, boot, overlapped, faults>>
        /\ edits' \in 0..MaxEdits /\ late' \in BOOLEAN
        /\ ~ late' => ~ late /\ \A a \in Apps : ~ At(a, "rename")
        /\ \A a \in Apps : /\ job'[a].at = job[a].at /\ job'[a].existing = job[a].existing
                           /\ job'[a].key = job[a].key
        /\ ok' = [a \in Apps |-> FALSE] /\ edited' = [a \in Apps |-> TRUE]
    BY <1>9, WritesSecretFacts, WritesFacts
  <2>2. TypeOK'
    BY <1>0, <2>1 DEF TypeOK
  <2>3. CallInv'
    BY <1>0, <2>1 DEF CallInv, Keyed, Final
  <2>4. EditInv' /\ EditsKept'
    BY <1>0, <2>1 DEF EditInv, EditsKept, At
  <2> QED
    BY <2>2, <2>3, <2>4 DEF Inv
<1>10. CASE WritesRest
  <2>1. /\ config' \in Texts /\ written' = config'
        /\ UNCHANGED <<dedicated, general, running, boot, overlapped, faults, ok, edited, job>>
        /\ edits' \in 0..MaxEdits /\ late' \in BOOLEAN
        /\ ~ late' => ~ late /\ \A a \in Apps : ~ At(a, "rename")
    BY <1>10, WritesRestFacts, WritesFacts
  <2>2. TypeOK'
    BY <1>0, <2>1 DEF TypeOK
  <2>3. CallInv'
    BY <1>0, <2>1 DEF CallInv, Keyed, Final
  <2>4. EditInv' /\ EditsKept'
    BY <1>0, <2>1 DEF EditInv, EditsKept, At
  <2> QED
    BY <2>2, <2>3, <2>4 DEF Inv
<1>11. ASSUME NEW key \in UserKeys, EntersKey(key) PROVE Inv'
  <2>1. edits' \in 0..MaxEdits
    BY <1>0, <1>11, KeyAssumption DEF TypeOK, EntersKey, Edit
  <2>2. TypeOK'
    BY <1>0, <1>11, <2>1 DEF TypeOK, EntersKey, history
  <2>3. CallInv' /\ EditInv' /\ EditsKept'
    BY <1>0, <1>11
    DEF CallInv, Keyed, Final, EditInv, EditsKept, At, EntersKey, history
  <2> QED
    BY <2>2, <2>3 DEF Inv
<1>12. CASE GatewayHashes
  <2>1. /\ config' \in Texts /\ config'.key = config.key /\ config'.rest = config.rest
        /\ UNCHANGED <<dedicated, general, running, job, boot, history, edits, faults>>
    BY <1>12, HashesFacts
  <2>2. TypeOK'
    BY <1>0, <2>1 DEF TypeOK, history
  <2>3. CallInv' /\ EditInv' /\ EditsKept'
    BY <1>0, <2>1 DEF CallInv, Keyed, Final, EditInv, EditsKept, At, history
  <2> QED
    BY <2>2, <2>3 DEF Inv
<1>13. CASE UNCHANGED vars
  BY <1>0, <1>13
  DEF Inv, TypeOK, CallInv, Keyed, Final, EditInv, EditsKept, At, vars, stores, history
<1> QED
  BY <1>1, <1>2, <1>3, <1>4, <1>5, <1>6, <1>7, <1>8, <1>9, <1>10, <1>11, <1>12, <1>13,
     ProvisionSteps
  DEF Next, User

-----------------------------------------------------------------------------
(* The minted key.                                                         *)

\* What Past, Keyed and Final say of a call that has moved.
LEMMA MovedStages ==
  ASSUME NEW a \in Apps, NEW stage, NEW text, NEW key, NEW call, NEW clean,
         Moved(a, stage, text, key, call, clean)
  PROVE  /\ Past(a)' <=> stage \in Stages \ {"read"}
         /\ Final(a)' <=> stage \in {"recheck", "rename"}
         /\ \A b \in Apps \ {a} : (Past(b)' <=> Past(b)) /\ (Final(b)' <=> Final(b))
  BY DEF Moved, Past, Final

LEMMA IdleFacts == Empty.state = "unset" /\ Empty.key = NoKey /\ "idle" \notin Stages
  BY DEF Empty, Stages

\* While no call overlaps another, the other calls do nothing.
LEMMA OthersIdle ==
  ASSUME OneCall, ~ overlapped, NEW a \in Apps, job[a].at \in Stages
  PROVE  \A b \in Apps \ {a} : job[b].at \notin Stages /\ ~ Past(b) /\ ~ Final(b)
  BY DEF OneCall, Past, Final, Stages

\* A call that ends leaves LockInv as it is, the stores being unchanged.
LEMMA CallEnds ==
  ASSUME LockInv, NEW a \in Apps, Moved(a, "idle", Empty, NoKey, "start", FALSE),
         UNCHANGED <<config, dedicated, overlapped>>
  PROVE  LockInv'
<1>1. PlainIsUsers'
  BY IdleFacts DEF LockInv, PlainIsUsers, Moved
<1>2. OneCall'
  BY IdleFacts DEF LockInv, OneCall, Moved
<1>3. MintedSeen'
  BY IdleFacts, MovedStages DEF LockInv, MintedSeen, Moved
<1>4. StoredFirst'
  BY MovedStages DEF LockInv, StoredFirst, Moved
<1>5. NotLockedOut'
  BY DEF LockInv, NotLockedOut
<1> QED
  BY <1>1, <1>2, <1>3, <1>4, <1>5 DEF LockInv

LEMMA LockInit == Init => LockInv
<1> SUFFICES ASSUME Init PROVE LockInv
  OBVIOUS
<1>1. \A a \in Apps : job[a].at = "idle" /\ job[a].existing.state = "unset"
  BY NoJobFacts, IdleFacts DEF Init
<1>2. config.state = "unset"
  BY IdleFacts DEF Init
<1> QED
  BY <1>1, <1>2
  DEF LockInv, PlainIsUsers, OneCall, MintedSeen, StoredFirst, NotLockedOut, Past, Final, Stages

LEMMA LockStep == Inv /\ LockInv /\ [Next]_vars => LockInv'
<1> SUFFICES ASSUME Inv, LockInv, [Next]_vars PROVE LockInv'
  OBVIOUS
<1>0. /\ TypeOK /\ CallInv
      /\ PlainIsUsers /\ OneCall /\ MintedSeen /\ StoredFirst /\ NotLockedOut
  BY DEF Inv, LockInv
<1>a. /\ config \in Texts /\ \A a \in Apps : job[a].existing \in Texts
      /\ UserKeys \cap Minted = {}
  BY <1>0, KeyAssumption DEF TypeOK, Jobs, Minted
<1>1. ASSUME NEW a \in Apps, ReadConfig(a) PROVE LockInv'
  <2>1. /\ \A b \in Apps \ {a} : job'[b] = job[b]
        /\ job'[a].at = "stored" /\ job'[a].existing = config
        /\ UNCHANGED <<config, dedicated, overlapped>> /\ job[a].at \in Stages
    BY <1>0, <1>1 DEF ReadConfig, TypeOK, Jobs, stores, others, At, Stages
  <2>2. PlainIsUsers'
    BY <1>0, <2>1 DEF PlainIsUsers
  <2>3. OneCall'
    BY <1>0, <2>1 DEF OneCall
  <2>4. MintedSeen'
    BY <1>0, <2>1 DEF MintedSeen, Past
  <2>5. StoredFirst' /\ NotLockedOut'
    BY <1>0, <2>1 DEF StoredFirst, NotLockedOut, Final
  <2> QED
    BY <2>2, <2>3, <2>4, <2>5 DEF LockInv
<1>2. ASSUME NEW a \in Apps, Advances(a) PROVE LockInv'
  <2>1. PICK stage \in Stages \ {"read"}, key \in Keys \cup {NoKey} :
           /\ Past(a)
           /\ Moved(a, stage, job[a].existing, key, job[a].call, job[a].clean)
           /\ UNCHANGED <<stores, boot, ok, others, faults>>
           /\ stage = "recheck" => dedicated = key
           /\ stage = "rename" => At(a, "recheck") /\ key = job[a].key
    BY <1>2 DEF Advances
  <2>2. UNCHANGED <<config, dedicated, overlapped>> /\ job[a].at \in Stages
    BY <2>1 DEF stores, others, Past
  <2>3. PlainIsUsers'
    BY <1>0, <2>1, <2>2 DEF PlainIsUsers, Moved
  <2>4. OneCall'
    BY <1>0, <2>1, <2>2 DEF OneCall, Moved
  <2>5. MintedSeen'
    BY <1>0, <2>1, <2>2, MovedStages DEF MintedSeen, Moved
  <2>6. ~ overlapped /\ stage \in {"recheck", "rename"} => dedicated = key
    BY <1>0, <2>1 DEF StoredFirst, Final, At
  <2>7. StoredFirst'
    BY <1>0, <2>1, <2>2, <2>6, MovedStages DEF StoredFirst, Moved
  <2>8. NotLockedOut'
    BY <1>0, <2>2 DEF NotLockedOut
  <2> QED
    BY <2>3, <2>4, <2>5, <2>7, <2>8 DEF LockInv
<1>3. ASSUME NEW a \in Apps, Succeeds(a) \/ GivesUp(a) PROVE LockInv'
  <2>1. Moved(a, "idle", Empty, NoKey, "start", FALSE)
    BY <1>0, <1>3, ReturnsFacts, ErrsFacts DEF Succeeds, GivesUp
  <2>2. UNCHANGED <<config, dedicated, overlapped>>
    BY <1>3 DEF Succeeds, GivesUp, stores, others
  <2> QED
    BY <2>1, <2>2, CallEnds
<1>4. ASSUME NEW a \in Apps, Write(a) PROVE LockInv'
  <2>1. /\ Moved(a, "verify", job[a].existing, job[a].key, job[a].call, job[a].clean)
        /\ dedicated' = job[a].key /\ UNCHANGED <<config, overlapped>>
        /\ job[a].at \in Stages /\ Past(a) /\ Keyed(a)
    BY <1>0, <1>4, GoesFacts DEF Write, Stages, others, At, Past, Keyed
  <2>2. PlainIsUsers' /\ OneCall'
    BY <1>0, <2>1 DEF PlainIsUsers, OneCall, Moved, Stages
  <2>3. MintedSeen'
    BY <1>0, <2>1, MovedStages DEF MintedSeen, Moved, Stages
  <2>4. StoredFirst'
    BY <1>0, <2>1, OthersIdle, MovedStages DEF StoredFirst
  <2>5. NotLockedOut'
    BY <1>0, <2>1 DEF NotLockedOut, MintedSeen, CallInv
  <2> QED
    BY <2>2, <2>3, <2>4, <2>5 DEF LockInv
<1>5. ASSUME NEW a \in Apps, Rename(a) PROVE LockInv'
  <2>1. /\ Moved(a, "idle", Empty, NoKey, "start", FALSE)
        /\ config'.state = "hash" /\ config'.key = job[a].key
        /\ UNCHANGED <<dedicated, overlapped>> /\ job[a].at \in Stages /\ Final(a)
    BY <1>0, <1>5, ReturnsFacts, RenameFacts DEF others, Rename, At, Final, Stages
  <2>2. PlainIsUsers'
    BY <1>0, <2>1, IdleFacts DEF PlainIsUsers, Moved
  <2>3. OneCall'
    BY <1>0, <2>1, IdleFacts DEF OneCall, Moved
  <2>6. ~ overlapped => \A b \in Apps : ~ Past(b)' /\ ~ Final(b)'
    <3>1. ~ Past(a)' /\ ~ Final(a)'
      BY <2>1 DEF Moved, Past, Final, Stages
    <3>2. ~ overlapped => \A b \in Apps \ {a} : ~ Past(b) /\ ~ Final(b)
      BY <1>0, <2>1, OthersIdle
    <3>3. \A b \in Apps \ {a} : (Past(b)' <=> Past(b)) /\ (Final(b)' <=> Final(b))
      BY <2>1, MovedStages
    <3> QED
      BY <3>1, <3>2, <3>3
  <2>4. MintedSeen' /\ StoredFirst'
    BY <2>1, <2>6 DEF MintedSeen, StoredFirst
  <2>5. NotLockedOut'
    BY <1>0, <2>1 DEF NotLockedOut, StoredFirst
  <2> QED
    BY <2>2, <2>3, <2>4, <2>5 DEF LockInv
<1>6. ASSUME NEW a \in Apps, Launch(a) \/ StartGateway(a) PROVE LockInv'
  <2>1. PICK call \in {"boot", "start"} : Begins(a, call)
    BY <1>6 DEF Launch, StartGateway
  <2>2. /\ Moved(a, "read", Empty, NoKey, call, TRUE)
        /\ overlapped => overlapped'
        /\ ~ overlapped' => \A b \in Apps \ {a} : job[b].at \notin Stages
        /\ UNCHANGED <<config, dedicated>>
    BY <1>0, <1>6, <2>1, BeginsFacts DEF Launch, StartGateway, stores
  <2>3. PlainIsUsers' /\ OneCall'
    BY <1>0, <2>2, IdleFacts DEF PlainIsUsers, OneCall, Moved
  <2>4. MintedSeen' /\ StoredFirst'
    BY <1>0, <2>2, MovedStages DEF MintedSeen, StoredFirst, Moved
  <2>5. NotLockedOut'
    BY <1>0, <2>2 DEF NotLockedOut
  <2> QED
    BY <2>3, <2>4, <2>5 DEF LockInv
<1>7. ASSUME NEW a \in Apps, Dies(a) PROVE LockInv'
  <2>1. Moved(a, "idle", Empty, NoKey, "start", FALSE)
    BY <1>0, <1>7, NoJobFacts, MovedTo DEF Dies
  <2> QED
    BY <1>7, <2>1, CallEnds DEF Dies, stores
<1>8. ASSUME NEW key \in UserKeys \cup {NoKey}, WritesSecret(key) PROVE LockInv'
  <2>1. /\ config'.key = key /\ config'.state = IF key = NoKey THEN "unset" ELSE "plain"
        /\ UNCHANGED <<dedicated, overlapped>>
        /\ \A a \in Apps : /\ job'[a].at = job[a].at /\ job'[a].existing = job[a].existing
                           /\ job'[a].key = job[a].key
    BY <1>8, WritesSecretFacts, WritesFacts
  <2> QED
    BY <1>0, <2>1
    DEF LockInv, PlainIsUsers, OneCall, MintedSeen, StoredFirst, NotLockedOut, Past, Final
<1>9. CASE WritesRest
  <2>1. /\ config'.key = config.key /\ config'.state = config.state
        /\ UNCHANGED <<dedicated, overlapped, job>>
    BY <1>9, WritesRestFacts, WritesFacts
  <2> QED
    BY <1>0, <2>1
    DEF LockInv, PlainIsUsers, OneCall, MintedSeen, StoredFirst, NotLockedOut, Past, Final
<1>10. ASSUME NEW key \in UserKeys, EntersKey(key) PROVE LockInv'
  <2>1. UNCHANGED <<config, dedicated, overlapped, job>>
    BY <1>10 DEF EntersKey, history
  <2> QED
    BY <1>0, <2>1
    DEF LockInv, PlainIsUsers, OneCall, MintedSeen, StoredFirst, NotLockedOut, Past, Final
<1>11. CASE GatewayHashes
  <2>1. /\ config'.key = config.key /\ config'.state = "hash" /\ config.state = "plain"
        /\ UNCHANGED <<dedicated, overlapped, job>>
    BY <1>11, HashesFacts DEF history
  <2>2. config'.key \notin Minted
    BY <1>0, <1>a, <2>1 DEF PlainIsUsers
  <2> QED
    BY <1>0, <2>1, <2>2
    DEF LockInv, PlainIsUsers, OneCall, MintedSeen, StoredFirst, NotLockedOut, Past, Final
<1>12. CASE UNCHANGED vars
  BY <1>0, <1>12
  DEF LockInv, PlainIsUsers, OneCall, MintedSeen, StoredFirst, NotLockedOut, Past, Final,
      vars, stores, history
<1> QED
  BY <1>1, <1>2, <1>3, <1>4, <1>5, <1>6, <1>7, <1>8, <1>9, <1>10, <1>11, <1>12,
     ProvisionSteps
  DEF Next, User

-----------------------------------------------------------------------------
(* The console's key.                                                      *)

LEMMA OpenInit == Init => OpenInv
<1> SUFFICES ASSUME Init PROVE OpenInv
  OBVIOUS
<1>1. \A a \in Apps : job[a].at = "idle"
  BY NoJobFacts DEF Init
<1>2. \A a \in Apps : boot[a] = NoKey /\ ok[a] = FALSE
  BY DEF Init
<1> QED
  BY <1>1, <1>2 DEF OpenInv, CleanInv, SuccessInv, BootInv, LaunchInv, Past, Stages

\* A call that fails or dies: no console gains a key, nothing succeeds.
LEMMA CallFails ==
  ASSUME OpenInv, NEW a \in Apps, Moved(a, "idle", Empty, NoKey, "start", FALSE),
         UNCHANGED <<config, dedicated, overlapped, edited>>, ok'[a] = FALSE,
         \A b \in Apps \ {a} : boot'[b] = boot[b] /\ ok'[b] = ok[b],
         boot'[a] \in {NoKey, boot[a]},
         a \notin running' => boot'[a] = NoKey,
         \A b \in Apps \ {a} : b \notin running' => b \notin running
  PROVE  OpenInv'
<1>0. /\ CleanInv /\ SuccessInv /\ BootInv /\ LaunchInv
      /\ ~ Past(a)' /\ \A b \in Apps \ {a} : Past(b)' <=> Past(b)
      /\ \A b \in Apps \ {a} : job'[b] = job[b]
  BY IdleFacts, MovedStages DEF OpenInv, Moved
<1>1. CleanInv'
  BY <1>0 DEF CleanInv
<1>2. SuccessInv'
  BY <1>0 DEF SuccessInv
<1>3. BootInv'
  BY <1>0 DEF BootInv
<1>4. LaunchInv'
  BY <1>0, IdleFacts DEF LaunchInv, Moved
<1> QED
  BY <1>1, <1>2, <1>3, <1>4 DEF OpenInv

\* A call that succeeds leaves its key in the keychain and as the configured one.
LEMMA CallSucceeds ==
  ASSUME Inv, OneCall, OpenInv, NEW a \in Apps, job[a].at \in Stages, Returns(a),
         UNCHANGED <<dedicated, overlapped, edited, running>>,
         ~ overlapped => dedicated = job[a].key,
         ~ overlapped /\ job[a].clean => config'.state # "unset" /\ config'.key = job[a].key,
         \A c \in Apps : ~ overlapped /\ c # a /\ ok[c] =>
            config'.state # "unset" /\ dedicated = config'.key,
         \A c \in Apps : ~ overlapped /\ boot[c] # NoKey /\ ~ edited[c] =>
            config'.state # "unset" /\ boot[c] = config'.key,
         config' \in Texts
  PROVE  OpenInv'
<1>0. /\ CleanInv /\ SuccessInv /\ BootInv /\ LaunchInv
  BY DEF OpenInv
<1>1. /\ Moved(a, "idle", Empty, NoKey, "start", FALSE)
      /\ \A b \in Apps \ {a} : boot'[b] = boot[b] /\ ok'[b] = ok[b]
      /\ ok'[a] = job[a].clean
      /\ boot'[a] = IF job[a].call = "boot" THEN job[a].key ELSE boot[a]
  BY ReturnsFacts DEF Inv
<1>2. /\ \A b \in Apps \ {a} : job'[b] = job[b] /\ (Past(b)' <=> Past(b))
      /\ job'[a].at \notin Stages /\ ~ Past(a)'
  BY <1>1, IdleFacts, MovedStages DEF Moved
<1>3. ~ overlapped => \A b \in Apps : ~ Past(b)'
  BY <1>2, OthersIdle
<1>4. CleanInv'
  BY <1>3 DEF CleanInv
<1>5. SuccessInv'
  BY <1>1, <1>3 DEF SuccessInv
<1>6. BootInv'
  <2>1. job[a].call = "boot" /\ ~ edited[a] => job[a].clean
    BY <1>0 DEF LaunchInv
  <2> QED
    BY <1>1, <1>3, <2>1 DEF BootInv
<1>7. LaunchInv'
  BY <1>0, <1>1, <1>2 DEF LaunchInv
<1> QED
  BY <1>4, <1>5, <1>6, <1>7 DEF OpenInv

LEMMA OpenStep == Inv /\ LockInv /\ OpenInv /\ [Next]_vars => OpenInv'
<1> SUFFICES ASSUME Inv, LockInv, OpenInv, [Next]_vars PROVE OpenInv'
  OBVIOUS
<1>0. /\ TypeOK /\ CallInv
      /\ OneCall /\ StoredFirst
      /\ CleanInv /\ SuccessInv /\ BootInv /\ LaunchInv
  BY DEF Inv, LockInv, OpenInv
<1>a. config \in Texts /\ \A a \in Apps : job[a].existing \in Texts
  BY <1>0 DEF TypeOK, Jobs
<1>1. ASSUME NEW a \in Apps, ReadConfig(a) PROVE OpenInv'
  <2>1. /\ \A b \in Apps \ {a} : job'[b] = job[b]
        /\ job'[a].at = "stored" /\ job'[a].existing = config
        /\ job'[a].call = job[a].call /\ job'[a].clean = job[a].clean
        /\ UNCHANGED <<config, dedicated, overlapped, boot, ok, edited, running>>
        /\ job[a].at \in Stages
    BY <1>0, <1>1 DEF ReadConfig, TypeOK, Jobs, stores, others, At, Stages
  <2>2. \A b \in Apps \ {a} : Past(b)' <=> Past(b)
    BY <2>1 DEF Past
  <2>3. CleanInv' /\ SuccessInv' /\ BootInv'
    BY <1>0, <2>1, <2>2 DEF CleanInv, SuccessInv, BootInv
  <2>4. LaunchInv'
    BY <1>0, <2>1 DEF LaunchInv, Stages
  <2> QED
    BY <2>3, <2>4 DEF OpenInv
<1>2. ASSUME NEW a \in Apps, Advances(a) \/ Write(a) PROVE OpenInv'
  <2>1. PICK stage \in Stages \ {"read"}, key \in Keys \cup {NoKey} :
           /\ Past(a)
           /\ Moved(a, stage, job[a].existing, key, job[a].call, job[a].clean)
           /\ UNCHANGED <<config, overlapped, boot, ok, edited, running>>
           /\ dedicated' = dedicated \/ job[a].existing.state = "unset"
                 \/ dedicated' = job[a].existing.key
    <3>1. CASE Advances(a)
      BY <3>1 DEF Advances, stores, others
    <3>2. CASE Write(a)
      <4>1. /\ Moved(a, "verify", job[a].existing, job[a].key, job[a].call, job[a].clean)
            /\ UNCHANGED <<boot, ok, config, overlapped, edited, running>>
            /\ dedicated' = job[a].key /\ Past(a) /\ Keyed(a)
        BY <1>0, <3>2, GoesFacts DEF Write, Stages, others, At, Past, Keyed
      <4>2. job[a].key \in Keys \cup {NoKey} /\ "verify" \in Stages \ {"read"}
        BY <1>0 DEF TypeOK, Jobs, Stages
      <4>3. job[a].existing.state = "unset" \/ dedicated' = job[a].existing.key
        BY <1>0, <4>1 DEF CallInv
      <4> QED
        BY <4>1, <4>2, <4>3
    <3> QED
      BY <1>2, <3>1, <3>2
  <2>2. /\ \A b \in Apps : Past(b)' <=> Past(b)
        /\ \A b \in Apps : /\ job'[b].existing = job[b].existing /\ job'[b].clean = job[b].clean
                           /\ job'[b].call = job[b].call
                           /\ job'[b].at \in Stages <=> job[b].at \in Stages
    BY <2>1, MovedStages DEF Moved, Past
  <2>3. CleanInv' /\ BootInv'
    BY <1>0, <2>1, <2>2 DEF CleanInv, BootInv
  <2>4. SuccessInv'
    BY <1>0, <2>1, <2>2 DEF SuccessInv
  <2>5. LaunchInv'
    BY <1>0, <2>1, <2>2 DEF LaunchInv
  <2> QED
    BY <2>3, <2>4, <2>5 DEF OpenInv
<1>3. ASSUME NEW a \in Apps, Succeeds(a) PROVE OpenInv'
  <2>1. /\ UNCHANGED <<config, dedicated, overlapped, edited, running>>
        /\ Past(a) /\ Keyed(a) /\ Returns(a) /\ job[a].at \in Stages
        /\ dedicated = job[a].key /\ job[a].existing.state # "unset"
        /\ job[a].key = job[a].existing.key
    BY <1>0, <1>3 DEF Succeeds, stores, others, CallInv, Past
  <2>2. ~ overlapped /\ job[a].clean => config'.state # "unset" /\ config'.key = job[a].key
    BY <1>0, <2>1 DEF CleanInv
  <2>3. \A c \in Apps : ~ overlapped /\ c # a /\ ok[c] =>
           config'.state # "unset" /\ dedicated = config'.key
    BY <1>0, <2>1 DEF SuccessInv
  <2>4. \A c \in Apps : ~ overlapped /\ boot[c] # NoKey /\ ~ edited[c] =>
           config'.state # "unset" /\ boot[c] = config'.key
    BY <1>0, <2>1 DEF BootInv
  <2>5. config' \in Texts
    BY <1>a, <2>1
  <2> QED
    BY <1>0, <2>1, <2>2, <2>3, <2>4, <2>5, CallSucceeds
<1>4. ASSUME NEW a \in Apps, Rename(a) PROVE OpenInv'
  <2>1. /\ config' \in Texts /\ config'.state = "hash" /\ config'.key = job[a].key
        /\ job[a].existing.state = "unset" /\ job[a].at \in Stages /\ Past(a) /\ Final(a)
        /\ Returns(a) /\ UNCHANGED <<dedicated, overlapped, edited, running>>
    BY <1>4, RenameFacts DEF others, Rename, At, Past, Final, Stages
  <2>2. ~ overlapped => dedicated = job[a].key
    BY <1>0, <2>1 DEF StoredFirst
  <2>3. \A c \in Apps : ~ overlapped => ok[c] # TRUE
    BY <1>0, <2>1 DEF SuccessInv
  <2>4. \A c \in Apps : ~ overlapped => ~ (boot[c] # NoKey /\ ~ edited[c])
    BY <1>0, <2>1 DEF BootInv
  <2>5. ~ overlapped /\ job[a].clean => config'.state # "unset" /\ config'.key = job[a].key
    BY <2>1
  <2>6. \A c \in Apps : ~ overlapped /\ c # a /\ ok[c] =>
           config'.state # "unset" /\ dedicated = config'.key
    BY <2>1, <2>2
  <2>7. \A c \in Apps : ~ overlapped /\ boot[c] # NoKey /\ ~ edited[c] =>
           config'.state # "unset" /\ boot[c] = config'.key
    BY <2>4
  <2> QED
    BY <1>0, <2>1, <2>2, <2>5, <2>6, <2>7, CallSucceeds
<1>5. ASSUME NEW a \in Apps, GivesUp(a) PROVE OpenInv'
  <2>1. /\ Moved(a, "idle", Empty, NoKey, "start", FALSE)
        /\ \A b \in Apps \ {a} : boot'[b] = boot[b] /\ ok'[b] = ok[b]
        /\ ok'[a] = FALSE /\ boot'[a] \in {NoKey, boot[a]}
        /\ UNCHANGED <<config, dedicated, overlapped, edited, running>>
    BY <1>0, <1>5, ErrsFacts DEF GivesUp, stores, others
  <2>2. a \notin running' => boot'[a] = NoKey
    BY <1>0, <2>1 DEF LaunchInv
  <2> QED
    BY <2>1, <2>2, CallFails
<1>6. ASSUME NEW a \in Apps, Dies(a) PROVE OpenInv'
  <2>1. Moved(a, "idle", Empty, NoKey, "start", FALSE)
    BY <1>0, <1>6, NoJobFacts, MovedTo DEF Dies
  <2>2. /\ \A b \in Apps \ {a} : boot'[b] = boot[b] /\ ok'[b] = ok[b]
        /\ ok'[a] = FALSE /\ boot'[a] = NoKey
        /\ UNCHANGED <<config, dedicated, overlapped, edited>>
        /\ \A b \in Apps \ {a} : b \notin running' => b \notin running
    BY <1>0, <1>6 DEF Dies, TypeOK, stores
  <2> QED
    BY <2>1, <2>2, CallFails
<1>7. ASSUME NEW a \in Apps, Launch(a) \/ StartGateway(a) PROVE OpenInv'
  <2>1. PICK call \in {"boot", "start"} : Begins(a, call)
    BY <1>7 DEF Launch, StartGateway
  <2>2. /\ Moved(a, "read", Empty, NoKey, call, TRUE)
        /\ overlapped => overlapped'
        /\ ok'[a] = FALSE /\ \A b \in Apps \ {a} : ok'[b] = ok[b]
        /\ UNCHANGED <<config, dedicated, boot>> /\ a \in running'
        /\ \A b \in Apps \ {a} : edited'[b] = edited[b] /\ (b \in running' <=> b \in running)
        /\ edited'[a] = edited[a] \/ a \notin running
    <3>1. /\ Moved(a, "read", Empty, NoKey, call, TRUE)
          /\ overlapped => overlapped'
          /\ ok'[a] = FALSE /\ \A b \in Apps \ {a} : ok'[b] = ok[b]
      BY <1>0, <2>1, BeginsFacts
    <3>2. UNCHANGED <<config, dedicated, boot>>
      BY <1>7 DEF Launch, StartGateway, stores
    <3>3. CASE Launch(a)
      <4>1. /\ a \notin running /\ running' = running \cup {a}
            /\ edited' = [edited EXCEPT ![a] = FALSE] /\ edited \in [Apps -> BOOLEAN]
        BY <1>0, <3>3 DEF Launch, TypeOK
      <4>2. \A b \in Apps \ {a} : edited'[b] = edited[b] /\ (b \in running' <=> b \in running)
        BY <4>1
      <4> QED
        BY <3>1, <3>2, <4>1, <4>2
    <3>4. CASE StartGateway(a)
      BY <3>1, <3>2, <3>4 DEF StartGateway
    <3> QED
      BY <1>7, <3>3, <3>4
  <2>3. /\ ~ Past(a)' /\ \A b \in Apps \ {a} : (Past(b)' <=> Past(b)) /\ job'[b] = job[b]
        /\ job'[a].at = "read" /\ job'[a].clean = TRUE
    BY <2>2, MovedStages DEF Moved
  <2>4. CleanInv'
    BY <1>0, <2>2, <2>3 DEF CleanInv
  <2>5. SuccessInv'
    BY <1>0, <2>2, <2>3 DEF SuccessInv
  <2>6. a \notin running => boot[a] = NoKey
    BY <1>0 DEF LaunchInv
  <2>7. BootInv'
    BY <1>0, <2>2, <2>3, <2>6 DEF BootInv
  <2>8. LaunchInv'
    BY <1>0, <2>2, <2>3 DEF LaunchInv
  <2> QED
    BY <2>4, <2>5, <2>7, <2>8 DEF OpenInv
<1>8. ASSUME NEW key \in UserKeys \cup {NoKey}, WritesSecret(key) PROVE OpenInv'
  <2>1. /\ \A a \in Apps : job'[a].at = job[a].at /\ job'[a].clean = FALSE
        /\ \A a \in Apps : ok'[a] = FALSE /\ edited'[a] = TRUE
        /\ UNCHANGED <<boot, running>>
    BY <1>8, WritesSecretFacts, WritesFacts
  <2> QED
    BY <1>0, <2>1 DEF OpenInv, CleanInv, SuccessInv, BootInv, LaunchInv
<1>9. CASE WritesRest
  <2>1. /\ config'.key = config.key /\ config'.state = config.state
        /\ UNCHANGED <<dedicated, overlapped, job, boot, ok, edited, running>>
    BY <1>9, WritesRestFacts, WritesFacts
  <2> QED
    BY <1>0, <2>1 DEF OpenInv, CleanInv, SuccessInv, BootInv, LaunchInv, Past
<1>10. ASSUME NEW key \in UserKeys, EntersKey(key) PROVE OpenInv'
  <2>1. UNCHANGED <<config, dedicated, overlapped, job, boot, ok, edited, running>>
    BY <1>10 DEF EntersKey, history
  <2> QED
    BY <1>0, <2>1 DEF OpenInv, CleanInv, SuccessInv, BootInv, LaunchInv, Past
<1>11. CASE GatewayHashes
  <2>1. /\ config'.key = config.key /\ config'.state = "hash"
        /\ UNCHANGED <<dedicated, overlapped, job, boot, ok, edited, running>>
    BY <1>11, HashesFacts DEF history
  <2> QED
    BY <1>0, <2>1 DEF OpenInv, CleanInv, SuccessInv, BootInv, LaunchInv, Past
<1>12. CASE UNCHANGED vars
  <2>1. UNCHANGED <<config, dedicated, overlapped, job, boot, ok, edited, running>>
    BY <1>12 DEF vars, stores, history
  <2> QED
    BY <1>0, <2>1 DEF OpenInv, CleanInv, SuccessInv, BootInv, LaunchInv, Past
<1> QED
  BY <1>1, <1>2, <1>3, <1>4, <1>5, <1>6, <1>7, <1>8, <1>9, <1>10, <1>11, <1>12,
     ProvisionSteps
  DEF Next, User

\* With the keychain's or the launch's key the console opens the gateway.
LEMMA OpenSuffices ==
  ASSUME Inv, OpenInv
  PROVE  ConsoleKeyOpens
<1> SUFFICES ASSUME NEW a \in Apps, ok[a], ~ overlapped, boot[a] # NoKey => ~ edited[a]
             PROVE  config.state # "unset" /\ ConsoleKey(a) = config.key
  BY DEF ConsoleKeyOpens
<1>1. config.state # "unset" /\ dedicated = config.key
  BY DEF OpenInv, SuccessInv
<1>2. dedicated # NoKey
  BY <1>1, TextFacts, KeyAssumption DEF Inv, TypeOK, Keys, Minted
<1>3. boot[a] # NoKey => boot[a] = config.key
  BY DEF OpenInv, BootInv
<1> QED
  BY <1>1, <1>2, <1>3 DEF ConsoleKey

-----------------------------------------------------------------------------
(* The theorems.                                                           *)

LEMMA Invariance == Spec => [](Inv /\ LockInv /\ OpenInv)
<1>1. Init => Inv /\ LockInv /\ OpenInv
  BY InvInit, LockInit, OpenInit
<1>2. Inv /\ LockInv /\ OpenInv /\ [Next]_vars => (Inv /\ LockInv /\ OpenInv)'
  BY InvStep, LockStep, OpenStep
<1> QED
  BY <1>1, <1>2, PTL DEF Spec

\* The stores, the calls and the consoles' keys keep their types: a call stores
\* and renames only a key it has settled on.
THEOREM KeyTypes == Spec => []TypeOK
<1>1. Inv => TypeOK
  BY DEF Inv
<1> QED
  BY <1>1, Invariance, PTL

\* provision_management_key_from_profiles keeps what the user wrote in
\* config.yaml, for any number of applications, unless the user writes between
\* a call's second look and its rename.
THEOREM UserEditsKept == Spec => []EditsKept
<1>1. Inv => EditsKept
  BY DEF Inv
<1> QED
  BY <1>1, Invariance, PTL

\* A minted key whose hash the gateway holds is in the keychain, whatever failed
\* or died, as long as no two applications provision at once.
THEOREM NobodyLockedOut == Spec => []NotLockedOut
<1>1. LockInv => NotLockedOut
  BY DEF LockInv
<1> QED
  BY <1>1, Invariance, PTL

\* After a success the console's key opens the gateway until the user edits the
\* secret, as long as no two applications provision at once.
THEOREM ConsoleStaysIn == Spec => []ConsoleKeyOpens
<1>1. Inv /\ OpenInv => ConsoleKeyOpens
  BY OpenSuffices
<1> QED
  BY <1>1, Invariance, PTL
=============================================================================
