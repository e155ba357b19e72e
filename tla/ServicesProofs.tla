--------------------------- MODULE ServicesProofs ---------------------------
(* The web hook's copy of the store, the user's settings, what an agent is   *)
(* taught and given as tools, what is kept of a conversation (its row,       *)
(* metadata and metrics) and what the resolver pushes and tells: for each an *)
(* invariant that its own steps keep, and with them the theorems for the     *)
(* specification that MCServices checks, whose steps are each one of a part  *)
(* and leave the variables of all others alone.                              *)
EXTENDS MCServices, SequenceTheorems, FiniteSetTheorems, NaturalsInduction, TLAPS

-----------------------------------------------------------------------------
(* BatchedWebHookFileStore: a path's newest version is in the copy or on its way. *)

SentBatch == [batch : [Paths -> Nat], left : Nat \ {0}]
FileChange == [path : Paths, version : Nat \ {0}]

HookTypeOK ==
  /\ local \in [Paths -> Nat] /\ remote \in [Paths -> Nat] /\ batch \in [Paths -> Nat]
  /\ writing \in [Writers -> FileChange \cup {Nothing}]
  /\ timer \in BOOLEAN /\ sending \subseteq SentBatch
  /\ hookMet \in [versions : Nat, dropped : BOOLEAN, overtaken : BOOLEAN]

\* No copy of a path is newer than the store, nor the store than the count of changes.
NoneNewer ==
  /\ \A p \in Paths : local[p] <= hookMet.versions /\ remote[p] <= local[p] /\ batch[p] <= local[p]
  /\ \A s \in sending, p \in Paths : s.batch[p] <= local[p]
  /\ \A w \in Writers : writing[w] # Nothing => writing[w].version <= local[writing[w].path]

\* The newest version of a path is in the copy, queued, on its way, or about to be queued.
Carried(p) ==
  \/ remote[p] = local[p] \/ batch[p] = local[p]
  \/ \E s \in sending : s.batch[p] = local[p]
  \/ \E w \in Writers : /\ writing[w] # Nothing /\ writing[w].path = p
                        /\ writing[w].version = local[p]

HookInv ==
  /\ HookTypeOK /\ NoneNewer
  /\ batch # EmptyBatch => timer
  /\ hookMet.dropped \/ hookMet.overtaken \/ \A p \in Paths : Carried(p)

\* The invariant holds at first.
LEMMA HookInvInit == HookInit => HookInv
<1> SUFFICES ASSUME HookInit PROVE HookInv
  OBVIOUS
<1>1. /\ local = EmptyBatch /\ remote = EmptyBatch /\ batch = EmptyBatch
      /\ writing = [w \in Writers |-> Nothing] /\ timer = FALSE /\ sending = {}
      /\ hookMet = [versions |-> 0, dropped |-> FALSE, overtaken |-> FALSE]
  BY DEF HookInit
<1>2. EmptyBatch \in [Paths -> Nat] /\ \A p \in Paths : EmptyBatch[p] = 0
  BY DEF EmptyBatch
<1>3. HookTypeOK
  BY <1>1, <1>2 DEF HookTypeOK
<1>4. NoneNewer
  BY <1>1, <1>2 DEF NoneNewer
<1> QED BY <1>1, <1>2, <1>3, <1>4 DEF HookInv, Carried

\* A write or delete of the wrapped store is carried by its writer.
LEMMA ChangesFileKeeps ==
  ASSUME HookInv, NEW w \in Writers, NEW p \in Paths, ChangesFile(w, p)
  PROVE  HookInv'
<1> DEFINE v == hookMet.versions + 1
           c == [path |-> p, version |-> v]
<1>1. v \in Nat \ {0} /\ c \in FileChange /\ c # Nothing /\ c.path = p /\ c.version = v
  BY DEF HookInv, HookTypeOK, FileChange, Nothing
<1>2. /\ local' = [local EXCEPT ![p] = v] /\ writing' = [writing EXCEPT ![w] = c]
      /\ hookMet' = [hookMet EXCEPT !.versions = v] /\ writing[w] = Nothing
      /\ UNCHANGED <<remote, batch, timer, sending>>
  BY DEF ChangesFile
<1>3. hookMet'.versions = v /\ hookMet'.dropped = hookMet.dropped /\ hookMet'.overtaken = hookMet.overtaken
  BY <1>2 DEF HookInv, HookTypeOK
<1>4. HookTypeOK'
  BY <1>1, <1>2 DEF HookInv, HookTypeOK
<1>5. \A q \in Paths : local[q] < v /\ local'[q] = IF q = p THEN v ELSE local[q]
  BY <1>2 DEF HookInv, HookTypeOK, NoneNewer
<1>6. \A x \in Writers : writing'[x] = IF x = w THEN c ELSE writing[x]
  BY <1>2 DEF HookInv, HookTypeOK
<1> HIDE DEF v, c
<1>7. NoneNewer'
  <2>1. \A q \in Paths : local'[q] <= v /\ remote'[q] <= local'[q] /\ batch'[q] <= local'[q]
    BY <1>1, <1>2, <1>5 DEF HookInv, HookTypeOK, NoneNewer
  <2>2. ASSUME NEW s \in sending', NEW q \in Paths PROVE s.batch[q] <= local'[q]
    BY <1>1, <1>2, <1>5 DEF HookInv, HookTypeOK, NoneNewer, SentBatch
  <2>3. ASSUME NEW x \in Writers, writing'[x] # Nothing
        PROVE  writing'[x].version <= local'[writing'[x].path]
    <3>1. CASE x = w
      BY <3>1, <1>1, <1>5, <1>6
    <3>2. CASE x # w
      <4>1. writing'[x] = writing[x] /\ writing[x] \in FileChange
        BY <3>2, <2>3, <1>6 DEF HookInv, HookTypeOK
      <4>2. writing[x].version <= local[writing[x].path] /\ writing[x].path \in Paths
        BY <4>1, <2>3 DEF HookInv, NoneNewer, FileChange
      <4> QED BY <4>1, <4>2, <1>1, <1>5 DEF HookInv, HookTypeOK, FileChange
    <3> QED BY <3>1, <3>2
  <2> QED BY <2>1, <2>2, <2>3, <1>3 DEF NoneNewer
<1>8. ASSUME NEW q \in Paths, Carried(q) PROVE Carried(q)'
  <2>1. CASE q = p
    BY <2>1, <1>1, <1>5, <1>6 DEF Carried
  <2>2. CASE q # p
    <3>1. local'[q] = local[q]
      BY <2>2, <1>5
    <3>2. ASSUME NEW x \in Writers, writing[x] # Nothing PROVE writing'[x] = writing[x]
      BY <3>2, <1>2, <1>6
    <3> QED BY <3>1, <3>2, <1>2, <1>8 DEF Carried
  <2> QED BY <2>1, <2>2
<1> QED BY <1>2, <1>3, <1>4, <1>7, <1>8 DEF HookInv, EmptyBatch

\* Handing a batch to the pool keeps its versions on their way.
LEMMA QueuesUpdateKeeps ==
  ASSUME HookInv, NEW w \in Writers, QueuesUpdate(w)
  PROVE  HookInv'
<1>1. PICK c \in FileChange : c = writing[w] /\ c.path \in Paths /\ c.version \in Nat \ {0} /\ c # Nothing
  BY DEF HookInv, HookTypeOK, QueuesUpdate, FileChange
<1>2. PICK b \in [Paths -> Nat] : b = [batch EXCEPT ![c.path] = c.version]
  BY <1>1 DEF HookInv, HookTypeOK
<1>3. /\ \/ Enqueue(b)
         \/ batch' = b /\ timer' = TRUE /\ UNCHANGED sending
      /\ hookMet' = [hookMet EXCEPT !.overtaken = @ \/ c.version < local[c.path]]
      /\ writing' = [writing EXCEPT ![w] = Nothing]
      /\ UNCHANGED <<local, remote>>
  BY <1>1, <1>2 DEF QueuesUpdate
<1>4. /\ hookMet'.versions = hookMet.versions /\ hookMet'.dropped = hookMet.dropped
      /\ hookMet'.overtaken = (hookMet.overtaken \/ c.version < local[c.path])
  BY <1>3 DEF HookInv, HookTypeOK
<1>5. hookMet' \in [versions : Nat, dropped : BOOLEAN, overtaken : BOOLEAN]
  BY <1>3 DEF HookInv, HookTypeOK
<1>6. \A q \in Paths : b[q] = IF q = c.path THEN c.version ELSE batch[q]
  BY <1>1, <1>2 DEF HookInv, HookTypeOK
<1>7. \A q \in Paths : b[q] <= local[q]
  BY <1>1, <1>6 DEF HookInv, HookTypeOK, NoneNewer
<1>8. PICK s \in SentBatch : s = [batch |-> b, left |-> MaxSends] /\ s.batch = b
  <2>1. MaxSends \in Nat \ {0}
    BY WebHookAssumption
  <2>2. [batch |-> b, left |-> MaxSends] \in SentBatch
    BY <2>1 DEF SentBatch
  <2> QED BY <2>2
<1>9. \/ batch' = EmptyBatch /\ timer' = FALSE /\ sending' = sending \cup {s}
      \/ batch' = b /\ timer' = TRUE /\ sending' = sending
  BY <1>3, <1>8 DEF Enqueue
<1>10. \A x \in Writers : writing'[x] = IF x = w THEN Nothing ELSE writing[x]
  BY <1>3 DEF HookInv, HookTypeOK
<1>11. EmptyBatch \in [Paths -> Nat] /\ \A q \in Paths : EmptyBatch[q] = 0
  BY DEF EmptyBatch
<1>12. HookTypeOK'
  BY <1>3, <1>5, <1>9, <1>11 DEF HookInv, HookTypeOK
<1>13. NoneNewer'
  <2>1. ASSUME NEW q \in Paths
        PROVE  local'[q] <= hookMet'.versions /\ remote'[q] <= local'[q] /\ batch'[q] <= local'[q]
    BY <1>3, <1>4, <1>7, <1>9, <1>11 DEF HookInv, HookTypeOK, NoneNewer
  <2>2. ASSUME NEW t \in sending', NEW q \in Paths PROVE t.batch[q] <= local'[q]
    BY <1>3, <1>7, <1>8, <1>9 DEF HookInv, NoneNewer
  <2>3. ASSUME NEW x \in Writers, writing'[x] # Nothing
        PROVE  writing'[x].version <= local'[writing'[x].path]
    BY <2>3, <1>3, <1>10 DEF HookInv, NoneNewer
  <2> QED BY <2>1, <2>2, <2>3 DEF NoneNewer
<1>14. ASSUME NEW q \in Paths, Carried(q), ~hookMet'.overtaken PROVE Carried(q)'
  <2>1. c.path = q => c.version = local[q]
    <3>1. c.version <= local[c.path]
      BY <1>1 DEF HookInv, NoneNewer
    <3>2. ~(c.version < local[c.path]) /\ local[c.path] \in Nat /\ c.version \in Nat
      BY <1>1, <1>4, <1>14 DEF HookInv, HookTypeOK
    <3> QED BY <3>1, <3>2
  <2>2. (batch[q] = local[q] \/ c.path = q) => b[q] = local[q]
    BY <2>1, <1>6
  <2>3. b[q] = local[q] => Carried(q)'
    BY <1>3, <1>8, <1>9 DEF Carried
  <2>4. ASSUME NEW x \in Writers, writing[x] # Nothing, writing[x].path = q, q # c.path
        PROVE  writing'[x] = writing[x]
    BY <2>4, <1>1, <1>10
  <2> QED BY <2>2, <2>3, <2>4, <1>3, <1>9, <1>14 DEF Carried
<1>15. batch' # EmptyBatch => timer'
  BY <1>9
<1> QED BY <1>4, <1>12, <1>13, <1>14, <1>15, <1>11 DEF HookInv, EmptyBatch

\* The timer and flush only move the batch into the pool.
LEMMA EnqueuesKeeps ==
  ASSUME HookInv, Enqueue(batch), UNCHANGED <<local, remote, writing, hookMet>>
  PROVE  HookInv'
<1>1. PICK s \in SentBatch : s = [batch |-> batch, left |-> MaxSends] /\ s.batch = batch
  <2>1. MaxSends \in Nat \ {0}
    BY WebHookAssumption
  <2>2. [batch |-> batch, left |-> MaxSends] \in SentBatch
    BY <2>1 DEF SentBatch, HookInv, HookTypeOK
  <2> QED BY <2>2
<1>2. batch' = EmptyBatch /\ timer' = FALSE /\ sending' = sending \cup {s}
  BY <1>1 DEF Enqueue
<1>3. EmptyBatch \in [Paths -> Nat] /\ \A q \in Paths : EmptyBatch[q] = 0
  BY DEF EmptyBatch
<1>4. HookTypeOK'
  BY <1>2, <1>3 DEF HookInv, HookTypeOK
<1>5. NoneNewer'
  BY <1>1, <1>2, <1>3 DEF HookInv, HookTypeOK, NoneNewer
<1>6. ASSUME NEW q \in Paths, Carried(q) PROVE Carried(q)'
  BY <1>1, <1>2, <1>6 DEF Carried
<1> QED BY <1>2, <1>3, <1>4, <1>5, <1>6 DEF HookInv, EmptyBatch

\* What is applied is the copy's, and what it was newer than was overtaken.
LEMMA AppliesKeeps ==
  ASSUME HookInv, NEW s \in sending, Applies(s)
  PROVE  HookInv'
<1>1. /\ remote' = [p \in Paths |-> IF s.batch[p] # 0 THEN s.batch[p] ELSE remote[p]]
      /\ hookMet' = [hookMet EXCEPT !.overtaken =
                       @ \/ \E p \in Paths : s.batch[p] # 0 /\ s.batch[p] < remote[p]]
      /\ UNCHANGED <<local, writing, batch, timer>>
  BY DEF Applies
<1>2. s \in SentBatch /\ s.batch \in [Paths -> Nat] /\ s.left \in Nat \ {0}
  BY DEF HookInv, HookTypeOK, SentBatch
<1>3. /\ sending' \subseteq SentBatch
      /\ \A t \in sending' : \E u \in sending : t.batch = u.batch
      /\ \A t \in sending : t # s => t \in sending'
  BY <1>2 DEF Applies, HookInv, HookTypeOK, SentBatch
<1>4. /\ hookMet'.versions = hookMet.versions /\ hookMet'.dropped = hookMet.dropped
      /\ hookMet' \in [versions : Nat, dropped : BOOLEAN, overtaken : BOOLEAN]
      /\ hookMet'.overtaken = (hookMet.overtaken \/ \E p \in Paths : s.batch[p] # 0 /\ s.batch[p] < remote[p])
  BY <1>1 DEF HookInv, HookTypeOK
<1>5. \A q \in Paths : remote'[q] = IF s.batch[q] # 0 THEN s.batch[q] ELSE remote[q]
  BY <1>1
<1>6. HookTypeOK'
  BY <1>1, <1>2, <1>3, <1>4 DEF HookInv, HookTypeOK
<1>7. NoneNewer'
  <2>1. ASSUME NEW q \in Paths
        PROVE  local'[q] <= hookMet'.versions /\ remote'[q] <= local'[q] /\ batch'[q] <= local'[q]
    BY <1>1, <1>4, <1>5 DEF HookInv, NoneNewer
  <2>2. ASSUME NEW t \in sending', NEW q \in Paths PROVE t.batch[q] <= local'[q]
    BY <1>1, <1>3 DEF HookInv, NoneNewer
  <2>3. ASSUME NEW x \in Writers, writing'[x] # Nothing
        PROVE  writing'[x].version <= local'[writing'[x].path]
    BY <2>3, <1>1 DEF HookInv, NoneNewer
  <2> QED BY <2>1, <2>2, <2>3 DEF NoneNewer
<1>8. ASSUME NEW q \in Paths, Carried(q), ~hookMet'.overtaken PROVE Carried(q)'
  <2>1. /\ local[q] \in Nat /\ remote[q] \in Nat /\ s.batch[q] \in Nat
        /\ remote[q] <= local[q] /\ s.batch[q] <= local[q]
        /\ s.batch[q] # 0 => remote[q] <= s.batch[q]
    BY <1>2, <1>4, <1>8 DEF HookInv, HookTypeOK, NoneNewer
  <2>2. remote[q] = local[q] \/ s.batch[q] = local[q] => remote'[q] = local[q]
    BY <2>1, <1>5
  <2>3. local'[q] = local[q] /\ batch' = batch /\ writing' = writing
    BY <1>1
  <2> QED BY <2>2, <2>3, <1>3, <1>8 DEF Carried
<1> QED BY <1>1, <1>4, <1>6, <1>7, <1>8 DEF HookInv, EmptyBatch

\* A failed request is sent again with the same batch, or what it held counts as dropped.
LEMMA SendFailsKeeps ==
  ASSUME HookInv, NEW s \in sending, SendFails(s)
  PROVE  HookInv'
<1>1. /\ hookMet' = [hookMet EXCEPT !.dropped = @ \/ (s.left = 1 /\ s.batch # EmptyBatch)]
      /\ UNCHANGED <<local, remote, writing, batch, timer>>
  BY DEF SendFails
<1>2. s \in SentBatch /\ s.batch \in [Paths -> Nat] /\ s.left \in Nat \ {0}
  BY DEF HookInv, HookTypeOK, SentBatch
<1>3. /\ sending' \subseteq SentBatch
      /\ \A t \in sending' : \E u \in sending : t.batch = u.batch
      /\ \A t \in sending : t # s => t \in sending'
      /\ s.left # 1 => \E t \in sending' : t.batch = s.batch
  <2>1. CASE s.left > 1
    <3>1. PICK r \in SentBatch : r = [s EXCEPT !.left = @ - 1] /\ r.batch = s.batch
      <4>1. s.left - 1 \in Nat \ {0} /\ s = [batch |-> s.batch, left |-> s.left]
        BY <2>1, <1>2 DEF SentBatch
      <4>2. [batch |-> s.batch, left |-> s.left - 1] \in SentBatch
        BY <4>1, <1>2 DEF SentBatch
      <4>3. [s EXCEPT !.left = @ - 1] = [batch |-> s.batch, left |-> s.left - 1]
        BY <4>1
      <4> QED BY <4>2, <4>3
    <3>2. sending' = (sending \ {s}) \cup {r}
      BY <2>1, <3>1 DEF SendFails
    <3> QED BY <3>1, <3>2 DEF HookInv, HookTypeOK
  <2>2. CASE ~(s.left > 1)
    <3>1. sending' = sending \ {s} /\ s.left = 1
      BY <2>2, <1>2 DEF SendFails
    <3> QED BY <3>1 DEF HookInv, HookTypeOK
  <2> QED BY <2>1, <2>2
<1>4. /\ hookMet'.versions = hookMet.versions /\ hookMet'.overtaken = hookMet.overtaken
      /\ hookMet' \in [versions : Nat, dropped : BOOLEAN, overtaken : BOOLEAN]
      /\ hookMet'.dropped = (hookMet.dropped \/ (s.left = 1 /\ s.batch # EmptyBatch))
  BY <1>1 DEF HookInv, HookTypeOK
<1>5. HookTypeOK'
  BY <1>1, <1>3, <1>4 DEF HookInv, HookTypeOK
<1>6. NoneNewer'
  BY <1>1, <1>3, <1>4 DEF HookInv, NoneNewer
<1>7. ASSUME NEW q \in Paths, Carried(q), ~hookMet'.dropped PROVE Carried(q)'
  <2>1. CASE s.left # 1
    BY <2>1, <1>1, <1>3, <1>7 DEF Carried
  <2>2. CASE s.left = 1
    <3>1. s.batch[q] = 0
      BY <2>2, <1>4, <1>7 DEF EmptyBatch
    <3>2. s.batch[q] = local[q] => remote[q] = local[q]
      BY <3>1 DEF HookInv, HookTypeOK, NoneNewer
    <3> QED BY <3>2, <1>1, <1>3, <1>7 DEF Carried
  <2> QED BY <2>1, <2>2
<1> QED BY <1>1, <1>4, <1>5, <1>6, <1>7 DEF HookInv, EmptyBatch

\* Every step keeps the invariant.
LEMMA HookInvNext == HookInv /\ [HookNext]_hookVars => HookInv'
<1> SUFFICES ASSUME HookInv, [HookNext]_hookVars PROVE HookInv'
  OBVIOUS
<1>1. ASSUME NEW w \in Writers, QueuesUpdate(w) PROVE HookInv'
  BY <1>1, QueuesUpdateKeeps
<1>2. ASSUME NEW w \in Writers, NEW p \in Paths, ChangesFile(w, p) PROVE HookInv'
  BY <1>2, ChangesFileKeeps
<1>3. CASE TimerFires
  BY <1>3, EnqueuesKeeps DEF TimerFires
<1>4. CASE Flush
  BY <1>4, EnqueuesKeeps DEF Flush
<1>5. ASSUME NEW s \in sending, Applies(s) PROVE HookInv'
  BY <1>5, AppliesKeeps
<1>6. ASSUME NEW s \in sending, SendFails(s) PROVE HookInv'
  BY <1>6, SendFailsKeeps
<1>7. CASE UNCHANGED hookVars
  BY <1>7 DEF hookVars, HookInv, HookTypeOK, NoneNewer, Carried, EmptyBatch
<1> QED BY <1>1, <1>2, <1>3, <1>4, <1>5, <1>6, <1>7 DEF HookNext

\* The invariant gives what the run checks.
LEMMA HookInvTells == HookInv => HookCatchesUp
<1> SUFFICES ASSUME HookInv, sending = {}, batch = EmptyBatch,
                    \A w \in Writers : writing[w] = Nothing,
                    ~hookMet.dropped, ~hookMet.overtaken
             PROVE  remote = local
  BY DEF HookCatchesUp, HookInv
<1>1. ASSUME NEW p \in Paths PROVE remote[p] = local[p]
  BY DEF HookInv, HookTypeOK, NoneNewer, Carried, EmptyBatch
<1> QED BY <1>1 DEF HookInv, HookTypeOK

-----------------------------------------------------------------------------
(* The configuration: a layer over the one before it.                        *)

\* The layers a value may come from, the configurations of a model, and where the load is.
LlmValues == {"default", "toml", "fast", "env"}
LlmModels == [Fields -> LlmValues]
LoadStages == {"new", "toml", "env", "final", "done", "failed"}

\* The kinds of values of the configuration.
ConfigTypeOK ==
  /\ loadStage \in LoadStages /\ toml \in Sections /\ envSet \in SUBSET Fields
  /\ heap \in Seq(LlmModels) /\ llms \in [Names -> Nat] /\ condenserLlm \in Nat
  /\ cliRuntime \in BOOLEAN /\ chosenLlm \in Names \cup {"none"}

\* The base section as the environment leaves it.
BaseModel == [f \in Fields |-> IF f \in envSet THEN "env" ELSE BaseLlm(toml)[f]]

\* Before the arguments are read: the base model is the first, the named one the second.
BeforeArgs ==
  loadStage \notin {"done", "failed"} =>
    /\ ((heap = <<BaseModel>> /\ llms["fast"] = 0) \/ heap = <<BaseModel, NamedLlm(toml)>>)
    /\ llms["llm"] = 1 /\ llms["fast"] \in {0, 2} /\ (llms["fast"] = 2 => toml.fast = "good")
    /\ condenserLlm \in {0, 1, 2} /\ (condenserLlm = 2 => toml.condenser = "fast")
    /\ chosenLlm = "none"

\* What no layer has been read into yet.
Untouched ==
  /\ loadStage = "new" => toml = NoToml /\ heap = <<Defaults>> /\ llms["fast"] = 0 /\ condenserLlm = 0
  /\ loadStage \in {"new", "toml"} => envSet = {}

\* A secret was made by a process that found none.
SecretsMade ==
  /\ secretFile # 0 => secretFile \in Loaders /\ secretSeen[secretFile] = "missing"
  /\ \A p \in Loaders : secretOf[p] # 0 => secretOf[p] \in Loaders /\ secretSeen[secretOf[p]] = "missing"
  /\ DOMAIN secretSeen = Loaders /\ DOMAIN secretOf = Loaders

\* The inductive invariant of the configuration.
ConfigInv ==
  /\ ConfigTypeOK /\ BeforeArgs /\ Untouched /\ Layered /\ CondenserFollows /\ NoJupyterInCli /\ SecretsMade

\* What the sections give are configurations of a model.
LEMMA BaseLlmType == \A t \in Sections : BaseLlm(t) \in LlmModels /\ NamedLlm(t) \in LlmModels /\ Defaults \in LlmModels
                        /\ SectionAlone \in LlmModels /\ (~HasLlmSection(t) => BaseLlm(t) = Defaults)
<1> TAKE t \in Sections
<1>1. Defaults \in LlmModels /\ [f \in Fields |-> "toml"] \in LlmModels
  BY DEF Defaults, LlmModels, LlmValues
<1>2. BaseLlm(t) \in LlmModels
  BY <1>1 DEF BaseLlm
<1> QED BY <1>1, <1>2 DEF NamedLlm, SectionAlone, HasLlmSection, BaseLlm, LlmModels, LlmValues, Fields

\* The invariant of the configuration holds at first.
LEMMA ConfigStarts == ConfigInit => ConfigInv
<1> SUFFICES ASSUME ConfigInit PROVE ConfigInv
  OBVIOUS
<1>1. NoToml \in Sections /\ BaseLlm(NoToml) = Defaults
  BY DEF NoToml, Sections, BaseLlm
<1>2. Defaults \in LlmModels
  BY <1>1, BaseLlmType
<1>3. ConfigTypeOK
  <2>1. <<Defaults>> \in Seq(LlmModels)
    BY <1>2
  <2> QED BY <1>1, <2>1 DEF ConfigInit, ConfigTypeOK, LoadStages, Names
<1>4. BaseModel = Defaults
  BY <1>1 DEF BaseModel, ConfigInit, Defaults
<1>5. BeforeArgs /\ Untouched
  BY <1>1, <1>4 DEF BeforeArgs, Untouched, ConfigInit, Names
<1>6. Layered /\ CondenserFollows /\ NoJupyterInCli
  BY DEF ConfigInit, Layered, CondenserFollows, NoJupyterInCli
<1>7. SecretsMade
  BY DEF ConfigInit, SecretsMade
<1> QED BY <1>3, <1>5, <1>6, <1>7 DEF ConfigInv

\* It is kept when the file is read,
LEMMA ReadsTomlKeeps == ASSUME ConfigInv, NEW t \in Sections, ReadsToml(t) PROVE ConfigInv'
<1>1. /\ loadStage = "new" /\ toml' = t
      /\ UNCHANGED <<envSet, cliRuntime, chosenLlm, secretFile, secretSeen, secretOf>>
      /\ llms' = [n \in Names |-> IF n = "llm" THEN 1 ELSE IF t.fast = "good" THEN 2 ELSE 0]
  BY DEF ReadsToml, secretVars
<1>2. envSet = {} /\ heap = <<Defaults>> /\ chosenLlm = "none"
  BY <1>1 DEF ConfigInv, Untouched, BeforeArgs
<1>3. /\ BaseLlm(t) \in LlmModels /\ NamedLlm(t) \in LlmModels /\ Defaults \in LlmModels
      /\ (~HasLlmSection(t) => BaseLlm(t) = Defaults)
  BY BaseLlmType
<1>4. BaseModel' = BaseLlm(t)
  BY <1>1, <1>2, <1>3 DEF BaseModel, LlmModels
<1>5. /\ ((heap' = <<BaseLlm(t)>> /\ ~HasLlmSection(t)) \/ heap' = <<BaseLlm(t), NamedLlm(t)>>)
      /\ heap' \in Seq(LlmModels)
  <2>1. CASE HasLlmSection(t)
    BY <1>3, <2>1 DEF ReadsToml
  <2>2. CASE ~HasLlmSection(t)
    BY <1>2, <1>3, <2>2 DEF ReadsToml
  <2> QED BY <2>1, <2>2
<1>6. /\ llms'["llm"] = 1 /\ llms'["fast"] \in {0, 2} /\ (llms'["fast"] = 2 => t.fast = "good")
      /\ (llms'["fast"] = 2 => HasLlmSection(t)) /\ llms' \in [Names -> Nat]
  BY <1>1 DEF Names, HasLlmSection
<1>7. \/ loadStage' = "failed" /\ UNCHANGED condenserLlm
      \/ loadStage' = "toml" /\ condenserLlm' = CondenserFor(t, llms')
  BY DEF ReadsToml
<1>8. condenserLlm' \in {0, 1, 2} /\ (condenserLlm' = 2 => t.condenser = "fast")
  <2>1. CASE loadStage' = "failed" /\ UNCHANGED condenserLlm
    BY <1>1, <2>1 DEF ConfigInv, Untouched
  <2>2. CASE condenserLlm' = CondenserFor(t, llms')
    <3>1. t.condenser \in {"none", "fast", "unknownName", "noop", "bad"}
      BY DEF Sections
    <3>2. CASE t.condenser \in {"none", "unknownName"}
      BY <1>6, <2>2, <3>2 DEF CondenserFor
    <3>3. CASE t.condenser = "fast"
      BY <1>6, <2>2, <3>3 DEF CondenserFor
    <3>4. CASE t.condenser \in {"noop", "bad"}
      BY <1>6, <2>2, <3>4 DEF CondenserFor
    <3> QED BY <3>1, <3>2, <3>3, <3>4
  <2> QED BY <1>7, <2>1, <2>2
<1>9. ConfigTypeOK'
  BY <1>1, <1>5, <1>6, <1>7, <1>8 DEF ConfigInv, ConfigTypeOK, LoadStages
<1>10. BeforeArgs'
  BY <1>1, <1>2, <1>4, <1>5, <1>6, <1>8 DEF BeforeArgs
<1>11. Untouched'
  BY <1>1, <1>2, <1>7 DEF Untouched
<1>12. Layered' /\ CondenserFollows' /\ NoJupyterInCli'
  BY <1>7 DEF Layered, CondenserFollows, NoJupyterInCli
<1>13. SecretsMade'
  BY <1>1 DEF ConfigInv, SecretsMade
<1> QED BY <1>9, <1>10, <1>11, <1>12, <1>13 DEF ConfigInv

\* when there is none,
LEMMA NoFileKeeps == ConfigInv /\ NoFile => ConfigInv'
<1> SUFFICES ASSUME ConfigInv, NoFile PROVE ConfigInv'
  OBVIOUS
<1>1. /\ loadStage = "new" /\ loadStage' = "toml"
      /\ UNCHANGED <<toml, envSet, heap, llms, condenserLlm, jupyter, cliRuntime, chosenLlm, secretFile, secretSeen, secretOf>>
  BY DEF NoFile, layerVars, secretVars
<1>2. ConfigTypeOK'
  BY <1>1 DEF ConfigInv, ConfigTypeOK, LoadStages
<1>3. BeforeArgs' /\ Untouched' /\ SecretsMade'
  BY <1>1 DEF ConfigInv, BeforeArgs, Untouched, SecretsMade, BaseModel
<1>4. Layered' /\ CondenserFollows' /\ NoJupyterInCli'
  BY <1>1 DEF Layered, CondenserFollows, NoJupyterInCli
<1> QED BY <1>2, <1>3, <1>4 DEF ConfigInv

\* when the environment is read,
LEMMA ReadsEnvKeeps ==
  ASSUME ConfigInv, NEW set \in SUBSET Fields, NEW wrong \in SUBSET Fields, NEW cli \in BOOLEAN, ReadsEnv(set, wrong, cli)
  PROVE  ConfigInv'
<1>1. /\ loadStage = "toml" /\ loadStage' = "env" /\ envSet' \in SUBSET Fields /\ cliRuntime' \in BOOLEAN
      /\ heap' = [heap EXCEPT ![llms["llm"]] = [f \in Fields |-> IF f \in envSet' THEN "env" ELSE heap[llms["llm"]][f]]]
      /\ UNCHANGED <<toml, llms, condenserLlm, jupyter, chosenLlm, secretFile, secretSeen, secretOf>>
  BY DEF ReadsEnv, secretVars
<1>2. /\ envSet = {} /\ llms["llm"] = 1
      /\ ((heap = <<BaseModel>> /\ llms["fast"] = 0) \/ heap = <<BaseModel, NamedLlm(toml)>>)
  BY <1>1 DEF ConfigInv, BeforeArgs, Untouched
<1>3. BaseLlm(toml) \in LlmModels /\ NamedLlm(toml) \in LlmModels
  BY BaseLlmType DEF ConfigInv, ConfigTypeOK
<1>4. BaseModel = BaseLlm(toml) /\ BaseModel' = [f \in Fields |-> IF f \in envSet' THEN "env" ELSE BaseModel[f]]
  BY <1>1, <1>2, <1>3 DEF BaseModel, LlmModels
<1>5. BaseModel' \in LlmModels
  BY <1>1, <1>3, <1>4 DEF LlmModels, LlmValues
<1>6. heap' = [heap EXCEPT ![1] = BaseModel']
  <2>1. heap[1] = BaseModel
    BY <1>2
  <2>2. heap' = [heap EXCEPT ![1] = [f \in Fields |-> IF f \in envSet' THEN "env" ELSE heap[1][f]]]
    BY <1>1, <1>2
  <2> QED BY <1>4, <2>1, <2>2
<1>7. /\ ((heap' = <<BaseModel'>> /\ llms["fast"] = 0) \/ heap' = <<BaseModel', NamedLlm(toml)>>)
      /\ heap' \in Seq(LlmModels)
  <2>1. CASE heap = <<BaseModel>> /\ llms["fast"] = 0
    <3>1. heap' = <<BaseModel'>>
      BY <1>6, <2>1
    <3> QED BY <1>5, <2>1, <3>1
  <2>2. CASE heap = <<BaseModel, NamedLlm(toml)>>
    <3>1. heap' = <<BaseModel', NamedLlm(toml)>>
      BY <1>6, <2>2
    <3> QED BY <1>3, <1>5, <3>1
  <2> QED BY <1>2, <2>1, <2>2
<1>8. ConfigTypeOK'
  BY <1>1, <1>7 DEF ConfigInv, ConfigTypeOK, LoadStages
<1>9. BeforeArgs'
  BY <1>1, <1>7 DEF ConfigInv, BeforeArgs
<1>10. Untouched' /\ Layered' /\ CondenserFollows' /\ NoJupyterInCli'
  BY <1>1 DEF Untouched, Layered, CondenserFollows, NoJupyterInCli
<1>11. SecretsMade'
  BY <1>1 DEF ConfigInv, SecretsMade
<1> QED BY <1>8, <1>9, <1>10, <1>11 DEF ConfigInv

\* (what the layers say stays while they do,)
LEMMA LayersKept ==
  ConfigInv /\ UNCHANGED <<loadStage, toml, envSet, heap, llms, condenserLlm, jupyter, cliRuntime, chosenLlm>>
    => (ConfigTypeOK /\ BeforeArgs /\ Untouched /\ Layered /\ CondenserFollows /\ NoJupyterInCli)'
BY DEF ConfigInv, ConfigTypeOK, BeforeArgs, Untouched, Layered, CondenserFollows, NoJupyterInCli, BaseModel, Effective

\* when a process looks for the file of the secret,
LEMMA LooksForSecretKeeps == ASSUME ConfigInv, NEW p \in Loaders, LooksForSecret(p) PROVE ConfigInv'
<1>1. (ConfigTypeOK /\ BeforeArgs /\ Untouched /\ Layered /\ CondenserFollows /\ NoJupyterInCli)'
  BY LayersKept DEF LooksForSecret, layerVars
<1>2. SecretsMade'
  BY DEF ConfigInv, SecretsMade, LooksForSecret
<1> QED BY <1>1, <1>2 DEF ConfigInv

\* when it makes one,
LEMMA MakesSecretKeeps == ASSUME ConfigInv, NEW p \in Loaders, MakesSecret(p) PROVE ConfigInv'
<1>1. (ConfigTypeOK /\ BeforeArgs /\ Untouched /\ Layered /\ CondenserFollows /\ NoJupyterInCli)'
  BY LayersKept DEF MakesSecret, layerVars
<1>2. SecretsMade'
  BY DEF ConfigInv, SecretsMade, MakesSecret
<1> QED BY <1>1, <1>2 DEF ConfigInv

\* when the configuration is made final,
LEMMA FinalizesKeeps == ConfigInv /\ Finalizes => ConfigInv'
<1> SUFFICES ASSUME ConfigInv, Finalizes PROVE ConfigInv'
  OBVIOUS
<1>1. /\ loadStage = "env" /\ loadStage' = "final" /\ jupyter' = (IF cliRuntime THEN {} ELSE jupyter)
      /\ UNCHANGED <<toml, envSet, heap, llms, condenserLlm, cliRuntime, chosenLlm, secretFile, secretSeen, secretOf>>
  BY DEF Finalizes, secretVars
<1>2. ConfigTypeOK'
  BY <1>1 DEF ConfigInv, ConfigTypeOK, LoadStages
<1>3. BeforeArgs' /\ Untouched' /\ SecretsMade'
  BY <1>1 DEF ConfigInv, BeforeArgs, Untouched, SecretsMade, BaseModel
<1>4. Layered' /\ CondenserFollows' /\ NoJupyterInCli'
  BY <1>1 DEF Layered, CondenserFollows, NoJupyterInCli
<1> QED BY <1>2, <1>3, <1>4 DEF ConfigInv

\* when the arguments name no model,
LEMMA ChoosesNothingKeeps == ConfigInv /\ ChoosesNothing => ConfigInv'
<1> SUFFICES ASSUME ConfigInv, ChoosesNothing PROVE ConfigInv'
  OBVIOUS
<1>1. /\ loadStage = "final" /\ loadStage' = "done"
      /\ UNCHANGED <<toml, envSet, heap, llms, condenserLlm, jupyter, cliRuntime, chosenLlm, secretFile, secretSeen, secretOf>>
  BY DEF ChoosesNothing, layerVars, secretVars
<1>2. /\ (heap = <<BaseModel>> \/ heap = <<BaseModel, NamedLlm(toml)>>)
      /\ llms["llm"] = 1 /\ condenserLlm \in {0, 1, 2} /\ (condenserLlm = 2 => toml.condenser = "fast") /\ chosenLlm = "none"
  BY <1>1 DEF ConfigInv, BeforeArgs
<1>3. heap[1] = BaseModel
  BY <1>2
<1>4. ConfigTypeOK'
  BY <1>1 DEF ConfigInv, ConfigTypeOK, LoadStages
<1>5. BeforeArgs' /\ Untouched' /\ SecretsMade'
  BY <1>1 DEF ConfigInv, BeforeArgs, Untouched, SecretsMade
<1>6. Layered'
  BY <1>1, <1>2, <1>3 DEF Layered, Effective, BaseModel
<1>7. CondenserFollows'
  BY <1>1, <1>2 DEF CondenserFollows, Effective
<1>8. NoJupyterInCli'
  BY <1>1 DEF ConfigInv, NoJupyterInCli
<1> QED BY <1>4, <1>5, <1>6, <1>7, <1>8 DEF ConfigInv

\* and when they do: the named one, or one of the section alone.
LEMMA ChoosesLlmKeeps == ASSUME ConfigInv, NEW name \in Names, NEW own \in BOOLEAN, ChoosesLlm(name, own) PROVE ConfigInv'
<1>1. /\ loadStage = "final" /\ chosenLlm' = name
      /\ UNCHANGED <<toml, envSet, condenserLlm, jupyter, cliRuntime, secretFile, secretSeen, secretOf>>
      /\ \/ llms[name] # 0 /\ loadStage' = "done" /\ llms' = [llms EXCEPT !["llm"] = llms[name]] /\ heap' = heap
         \/ /\ llms[name] = 0 /\ toml.fast = "none" /\ loadStage' = "done" /\ heap' = Append(heap, SectionAlone)
            /\ llms' = [llms EXCEPT !["llm"] = Len(heap')]
         \/ loadStage' = "failed" /\ UNCHANGED <<heap, llms>>
  BY DEF ChoosesLlm, secretVars
<1>2. /\ ((heap = <<BaseModel>> /\ llms["fast"] = 0) \/ heap = <<BaseModel, NamedLlm(toml)>>)
      /\ llms["llm"] = 1 /\ llms["fast"] \in {0, 2} /\ (llms["fast"] = 2 => toml.fast = "good")
      /\ condenserLlm \in {0, 1, 2} /\ (condenserLlm = 2 => toml.condenser = "fast") /\ llms \in [Names -> Nat]
  BY <1>1 DEF ConfigInv, BeforeArgs, ConfigTypeOK
<1>3. SectionAlone \in LlmModels /\ BaseLlm(toml) \in LlmModels /\ NamedLlm(toml) \in LlmModels /\ heap \in Seq(LlmModels) /\ toml \in Sections
  BY BaseLlmType DEF ConfigInv, ConfigTypeOK
<1>4. heap' \in Seq(LlmModels) /\ llms' \in [Names -> Nat]
  <2>1. heap' \in Seq(LlmModels) /\ Len(heap') \in Nat
    BY <1>1, <1>3
  <2> QED BY <1>1, <1>2, <2>1
<1>5. ConfigTypeOK'
  BY <1>1, <1>4 DEF ConfigInv, ConfigTypeOK, LoadStages
<1>6. BeforeArgs' /\ Untouched' /\ SecretsMade'
  BY <1>1 DEF ConfigInv, BeforeArgs, Untouched, SecretsMade
<1>7. NoJupyterInCli'
  BY <1>1 DEF ConfigInv, NoJupyterInCli
<1>8. Layered' /\ CondenserFollows'
  <2>1. CASE llms[name] # 0 /\ loadStage' = "done" /\ llms' = [llms EXCEPT !["llm"] = llms[name]] /\ heap' = heap
    <3>1. CASE name = "llm"
      <4>1. llms'["llm"] = 1 /\ heap'[1] = BaseModel /\ chosenLlm' = "llm"
        BY <1>1, <1>2, <2>1, <3>1 DEF Names
      <4> QED BY <1>1, <1>2, <4>1 DEF Layered, CondenserFollows, Effective, BaseModel
    <3>2. CASE name = "fast"
      <4>1. llms'["llm"] = 2 /\ heap'[2] = NamedLlm(toml) /\ chosenLlm' = "fast" /\ toml.fast = "good"
        BY <1>1, <1>2, <2>1, <3>2 DEF Names
      <4>2. \A f \in Fields : NamedLlm(toml)[f] = IF f = "model" THEN "fast" ELSE BaseLlm(toml)[f]
        BY <1>3 DEF NamedLlm, LlmModels
      <4> QED BY <1>1, <4>1, <4>2 DEF Layered, CondenserFollows, Effective
    <3> QED BY <3>1, <3>2 DEF Names
  <2>2. CASE /\ llms[name] = 0 /\ toml.fast = "none" /\ loadStage' = "done" /\ heap' = Append(heap, SectionAlone)
             /\ llms' = [llms EXCEPT !["llm"] = Len(heap')]
    <3>1. name = "fast"
      BY <1>2, <2>2 DEF Names
    <3>2. heap'[llms'["llm"]] = SectionAlone
      BY <1>2, <1>3, <2>2 DEF Names
    <3>3. \A f \in Fields : SectionAlone[f] = IF f = "model" THEN "fast" ELSE "default"
      BY DEF SectionAlone, Defaults, Fields
    <3> QED BY <1>1, <2>2, <3>1, <3>2, <3>3 DEF Layered, CondenserFollows, Effective
  <2>3. CASE loadStage' = "failed"
    BY <2>3 DEF Layered, CondenserFollows
  <2> QED BY <1>1, <2>1, <2>2, <2>3
<1> QED BY <1>5, <1>6, <1>7, <1>8 DEF ConfigInv

\* Every step keeps it.
LEMMA ConfigSteps == ConfigInv /\ ConfigNext => ConfigInv'
BY ReadsTomlKeeps, NoFileKeeps, ReadsEnvKeeps, LooksForSecretKeeps, MakesSecretKeeps, FinalizesKeeps,
   ChoosesNothingKeeps, ChoosesLlmKeeps DEF ConfigNext

\* So does a step of another part.
LEMMA ConfigFrame == ConfigInv /\ UNCHANGED configVars => ConfigInv'
<1> SUFFICES ASSUME ConfigInv, UNCHANGED configVars PROVE ConfigInv'
  OBVIOUS
<1>1. (ConfigTypeOK /\ BeforeArgs /\ Untouched /\ Layered /\ CondenserFollows /\ NoJupyterInCli)'
  BY LayersKept DEF configVars
<1>2. SecretsMade'
  BY DEF ConfigInv, SecretsMade, configVars
<1> QED BY <1>1, <1>2 DEF ConfigInv

\* The invariant gives what the run checks.
LEMMA ConfigTells == ConfigInv => ConfigLayered
<1> SUFFICES ASSUME ConfigInv PROVE SecretsAgree
  BY DEF ConfigInv, ConfigLayered
<1> DEFINE Missed == {r \in Loaders : secretSeen[r] = "missing"}
<1> SUFFICES ASSUME NEW p \in Loaders, NEW q \in Loaders, secretOf[p] # 0, secretOf[q] # 0, secretOf[p] # secretOf[q]
             PROVE  Cardinality(Missed) > 1
  BY DEF SecretsAgree
<1>1. secretOf[p] \in Missed /\ secretOf[q] \in Missed
  BY DEF ConfigInv, SecretsMade
<1>2. IsFiniteSet(Missed)
  BY FS_Subset, LoadersAssumption
<1>3. Cardinality({secretOf[p], secretOf[q]}) = 2
  <2>1. IsFiniteSet({secretOf[p]}) /\ Cardinality({secretOf[p]}) = 1
    BY FS_Singleton
  <2>2. {secretOf[p], secretOf[q]} = {secretOf[p]} \cup {secretOf[q]}
    OBVIOUS
  <2> QED BY <2>1, <2>2, FS_AddElement
<1>4. Cardinality({secretOf[p], secretOf[q]}) <= Cardinality(Missed) /\ Cardinality(Missed) \in Nat
  <2>1. {secretOf[p], secretOf[q]} \subseteq Missed
    BY <1>1
  <2> QED BY <1>2, <2>1, FS_Subset, FS_CardinalityType
<1> QED BY <1>3, <1>4

-----------------------------------------------------------------------------
(* The user's secrets: what is stored was checked.                           *)

\* The tokens and the secrets, the requests and the steps they are at.
TokenMaps == [Hubs -> Nat]
CustomMaps == [CustomNames -> Nat]
SecretFiles == [tokens : TokenMaps, custom : CustomMaps]
StoreOps == {"tokens", "unset", "create", "rename", "delete"}
SecretReqs == [op : StoreOps \cup {"none", "migrate"}, at : {"idle", "check", "load", "store", "migrate", "invalidate"},
               new : [Hubs -> {Absent, 1, Unchanged}], name : CustomNames, to : CustomNames, seen : SecretFiles, no : Nat]

\* The kinds of values of the store of secrets.
SecretTypeOK ==
  /\ secretStore \in SecretFiles /\ serialSecrets \in SecretFiles /\ legacyTokens \in TokenMaps
  /\ secretReq \in [SecretRequests -> SecretReqs] /\ secretOps \in Nat /\ secretOps <= MaxSecretOps + 1
  /\ wroteOver \in BOOLEAN /\ overMigrated \in BOOLEAN

\* Every token was checked by a request that is not later than the count of requests.
Sound(t, n, good) == \A p \in Hubs : t[p] <= n /\ (t[p] # 0 => \E q \in Hubs : <<q, t[p]>> \in good)

\* So were the tokens a request read, and those it brought once it has checked them.
ReqSound(q, n, good) ==
  /\ q.no <= n /\ Sound(q.seen.tokens, n, good)
  /\ (q.at \in {"load", "store"} => q.op \in StoreOps)
  /\ (q.op = "tokens" /\ q.at \in {"load", "store"} /\ Fresh(q) # {} => \E p \in Hubs : <<p, q.no>> \in good)
  /\ (q.at = "migrate" => q.seen.custom = NoSecrets.custom)

\* The inductive invariant of the store: what a request writes was checked.
StoreInv ==
  /\ SecretTypeOK /\ Sound(secretStore.tokens, secretOps, goodTokens) /\ Sound(legacyTokens, secretOps, goodTokens)
  /\ \A r \in SecretRequests : ReqSound(secretReq[r], secretOps, goodTokens)
  /\ NoUpdateLost

\* An empty store is sound.
LEMMA NothingSound ==
  /\ NoSecrets \in SecretFiles /\ NoSecrets.tokens \in TokenMaps /\ NoSecrets.custom \in CustomMaps
  /\ \A good : \A n \in Nat : Sound(NoSecrets.tokens, n, good)
  /\ IdleSecret \in SecretReqs /\ (\A good : \A n \in Nat : ReqSound(IdleSecret, n, good))
<1>1. PICK s : s = NoSecrets
  OBVIOUS
<1>2. s \in SecretFiles /\ s.tokens = [p \in Hubs |-> 0] /\ s.custom = [n \in CustomNames |-> 0]
  BY <1>1 DEF NoSecrets, SecretFiles, TokenMaps, CustomMaps
<1>3. s.tokens \in TokenMaps /\ s.custom \in CustomMaps
  BY <1>2 DEF TokenMaps, CustomMaps
<1>4. \A good : \A n \in Nat : Sound(s.tokens, n, good)
  BY <1>2 DEF Sound
<1>5. PICK q : q = [op |-> "none", at |-> "idle", new |-> [p \in Hubs |-> 0], name |-> "api", to |-> "api", seen |-> s, no |-> 0]
  OBVIOUS
<1>6. q = IdleSecret
  BY <1>1, <1>5 DEF IdleSecret
<1>7. q \in SecretReqs /\ q.at = "idle" /\ q.seen = s /\ q.no = 0
  BY <1>2, <1>5 DEF SecretReqs, StoreOps, Absent, CustomNames
<1>8. \A good : \A n \in Nat : ReqSound(q, n, good)
  BY <1>4, <1>7 DEF ReqSound
<1> QED BY <1>1, <1>2, <1>3, <1>4, <1>6, <1>7, <1>8

\* What was checked stays so while requests are counted and checked,
LEMMA SoundGrows ==
  ASSUME NEW t \in TokenMaps, NEW n \in Nat, NEW m \in Nat, n <= m, NEW good, NEW more, good \subseteq more, Sound(t, n, good)
  PROVE  Sound(t, m, more)
<1> SUFFICES ASSUME NEW p \in Hubs PROVE t[p] <= m /\ (t[p] # 0 => \E q \in Hubs : <<q, t[p]>> \in more)
  BY DEF Sound
<1>1. t[p] <= n /\ t[p] \in Nat /\ (t[p] # 0 => \E q \in Hubs : <<q, t[p]>> \in good)
  BY DEF Sound, TokenMaps
<1>2. t[p] <= m
  BY <1>1
<1> QED BY <1>1, <1>2

\* and so does what the requests hold.
LEMMA ReqSoundGrows ==
  ASSUME NEW q \in SecretReqs, NEW n \in Nat, NEW m \in Nat, n <= m, NEW good, NEW more, good \subseteq more, ReqSound(q, n, good)
  PROVE  ReqSound(q, m, more)
<1>1. q.seen.tokens \in TokenMaps /\ q.no \in Nat
  BY DEF SecretReqs, SecretFiles
<1>2. Sound(q.seen.tokens, m, more)
  <2>1. Sound(q.seen.tokens, n, good)
    BY DEF ReqSound
  <2> QED BY <1>1, <2>1, SoundGrows
<1>3. q.no <= m
  BY <1>1 DEF ReqSound
<1> QED BY <1>2, <1>3 DEF ReqSound

\* A request that goes on leaves the others as they are.
LEMMA RequestMoves ==
  ASSUME StoreInv, NEW r \in SecretRequests, NEW e \in SecretReqs, secretReq' = [secretReq EXCEPT ![r] = e],
         secretOps' \in Nat, secretOps <= secretOps', goodTokens \subseteq goodTokens', ReqSound(e, secretOps', goodTokens')
  PROVE  /\ secretReq' \in [SecretRequests -> SecretReqs]
         /\ \A q \in SecretRequests : ReqSound(secretReq'[q], secretOps', goodTokens')
<1>1. secretReq \in [SecretRequests -> SecretReqs] /\ secretOps \in Nat
  BY DEF StoreInv, SecretTypeOK
<1>2. secretReq' \in [SecretRequests -> SecretReqs]
  BY <1>1
<1>3. ASSUME NEW q \in SecretRequests PROVE ReqSound(secretReq'[q], secretOps', goodTokens')
  <2>1. CASE q = r
    BY <1>1, <2>1
  <2>2. CASE q # r
    <3>1. secretReq'[q] = secretReq[q] /\ secretReq[q] \in SecretReqs /\ ReqSound(secretReq[q], secretOps, goodTokens)
      BY <1>1, <2>2 DEF StoreInv
    <3>2. ReqSound(secretReq[q], secretOps', goodTokens')
      BY <1>1, <3>1, ReqSoundGrows
    <3> QED BY <3>1, <3>2
  <2> QED BY <2>1, <2>2
<1> QED BY <1>2, <1>3

\* The invariant of the store holds at first.
LEMMA StoreStarts == UserSecretInit => StoreInv
<1> SUFFICES ASSUME UserSecretInit PROVE StoreInv
  OBVIOUS
<1>1. /\ secretStore \in {NoSecrets, [tokens |-> OldToken, custom |-> [n \in CustomNames |-> IF n = "api" THEN 1 ELSE 0]]}
      /\ serialSecrets = secretStore /\ legacyTokens \in {NoSecrets.tokens, OldToken}
      /\ secretReq = [r \in SecretRequests |-> IdleSecret] /\ secretOps = 1 /\ goodTokens = {<<"github", 1>>}
      /\ wroteOver = FALSE /\ overMigrated = FALSE
  BY DEF UserSecretInit
<1>2. OldToken \in TokenMaps /\ Sound(OldToken, 1, goodTokens)
  BY <1>1 DEF OldToken, TokenMaps, Sound, Hubs
<1>3. secretStore \in SecretFiles /\ Sound(secretStore.tokens, 1, goodTokens)
  <2>1. CASE secretStore = NoSecrets
    BY <2>1, NothingSound
  <2>2. CASE secretStore = [tokens |-> OldToken, custom |-> [n \in CustomNames |-> IF n = "api" THEN 1 ELSE 0]]
    <3>1. [n \in CustomNames |-> IF n = "api" THEN 1 ELSE 0] \in CustomMaps
      BY DEF CustomMaps
    <3> QED BY <1>2, <2>2, <3>1 DEF SecretFiles
  <2> QED BY <1>1, <2>1, <2>2
<1>4. legacyTokens \in TokenMaps /\ Sound(legacyTokens, 1, goodTokens)
  BY <1>1, <1>2, NothingSound
<1>5. SecretTypeOK
  <2>1. secretOps \in Nat /\ secretOps <= MaxSecretOps + 1
    BY <1>1, SecretsAssumption
  <2>2. secretReq \in [SecretRequests -> SecretReqs]
    BY <1>1, NothingSound
  <2>3. wroteOver \in BOOLEAN /\ overMigrated \in BOOLEAN
    BY <1>1
  <2> QED BY <1>1, <1>3, <1>4, <2>1, <2>2, <2>3 DEF SecretTypeOK
<1>6. \A r \in SecretRequests : ReqSound(secretReq[r], secretOps, goodTokens)
  BY <1>1, NothingSound
<1> QED BY <1>1, <1>3, <1>4, <1>5, <1>6 DEF StoreInv, NoUpdateLost

\* A request that begins.
LEMMA SecretStartsKeeps ==
  ASSUME StoreInv, NEW r \in SecretRequests, NEW e \in SecretReqs, SecretStarts(r, e),
         Sound(e.seen.tokens, secretOps, goodTokens), e.at \notin {"store"},
         e.at = "load" => e.op \in StoreOps \ {"tokens"}, e.at = "migrate" => e.seen.custom = NoSecrets.custom
  PROVE  StoreInv'
<1>1. /\ secretOps < MaxSecretOps /\ secretOps' = secretOps + 1
      /\ secretReq' = [secretReq EXCEPT ![r] = [e EXCEPT !.no = secretOps']]
      /\ UNCHANGED <<secretStore, legacyTokens, goodTokens, serialSecrets, wroteOver, overMigrated>>
  BY DEF SecretStarts
<1>2. PICK n \in Nat : n = secretOps
  BY DEF StoreInv, SecretTypeOK
<1>3. secretOps' = n + 1 /\ n + 1 \in Nat /\ n <= n + 1 /\ n + 1 <= MaxSecretOps + 1
  BY <1>1, <1>2, SecretsAssumption
<1>4. PICK f : f = [e EXCEPT !.no = n + 1]
  OBVIOUS
<1>5. f \in SecretReqs /\ f.no = n + 1 /\ f.op = e.op /\ f.at = e.at /\ f.seen = e.seen /\ f.new = e.new
  BY <1>3, <1>4 DEF SecretReqs
<1>6. e.seen.tokens \in TokenMaps
  BY DEF SecretReqs, SecretFiles
<1>7. ReqSound(f, n + 1, goodTokens)
  <2>1. Sound(e.seen.tokens, n + 1, goodTokens)
    BY <1>2, <1>3, <1>6, SoundGrows
  <2> QED BY <1>3, <1>5, <2>1 DEF ReqSound, StoreOps
<1>8. /\ secretReq' \in [SecretRequests -> SecretReqs]
      /\ \A q \in SecretRequests : ReqSound(secretReq'[q], secretOps', goodTokens')
  BY <1>1, <1>2, <1>3, <1>4, <1>5, <1>7, RequestMoves
<1>9. secretStore.tokens \in TokenMaps /\ legacyTokens \in TokenMaps
  BY DEF StoreInv, SecretTypeOK, SecretFiles
<1>10. Sound(secretStore.tokens, n + 1, goodTokens) /\ Sound(legacyTokens, n + 1, goodTokens)
  BY <1>2, <1>3, <1>9, SoundGrows DEF StoreInv
<1>11. SecretTypeOK'
  BY <1>1, <1>3, <1>8 DEF StoreInv, SecretTypeOK
<1>12. NoUpdateLost'
  BY <1>1 DEF StoreInv, NoUpdateLost
<1> QED BY <1>1, <1>3, <1>8, <1>10, <1>11, <1>12 DEF StoreInv

\* A request of any kind begins.
LEMMA RequestsBegin ==
  ASSUME StoreInv, NEW r \in SecretRequests,
         \/ \E kinds \in [Hubs -> {Absent, 1, Unchanged}] : BringsTokens(r, kinds)
         \/ \E op \in {"create", "delete", "rename", "unset"}, n \in CustomNames, m \in CustomNames : AsksCustom(r, op, n, m)
         \/ ReadsSettings(r)
  PROVE  StoreInv'
<1>1. /\ IdleSecret \in SecretReqs /\ IdleSecret.seen = NoSecrets /\ NoSecrets \in SecretFiles
      /\ secretOps \in Nat /\ Sound(NoSecrets.tokens, secretOps, goodTokens)
  BY NothingSound DEF StoreInv, SecretTypeOK, IdleSecret
<1>2. CASE \E kinds \in [Hubs -> {Absent, 1, Unchanged}] : BringsTokens(r, kinds)
  <2>1. PICK kinds \in [Hubs -> {Absent, 1, Unchanged}] : BringsTokens(r, kinds)
    BY <1>2
  <2>2. PICK e : e = [IdleSecret EXCEPT !.op = "tokens", !.at = "check", !.new = kinds]
    OBVIOUS
  <2>3. e \in SecretReqs /\ e.at = "check" /\ e.seen = NoSecrets
    BY <1>1, <2>2 DEF SecretReqs, StoreOps
  <2>4. SecretStarts(r, e)
    BY <2>1, <2>2 DEF BringsTokens
  <2> QED BY <1>1, <2>3, <2>4, SecretStartsKeeps
<1>3. CASE \E op \in {"create", "delete", "rename", "unset"}, n \in CustomNames, m \in CustomNames : AsksCustom(r, op, n, m)
  <2>1. PICK op \in {"create", "delete", "rename", "unset"}, n \in CustomNames, m \in CustomNames : AsksCustom(r, op, n, m)
    BY <1>3
  <2>2. PICK e : e = [IdleSecret EXCEPT !.op = op, !.at = "load", !.name = n, !.to = m]
    OBVIOUS
  <2>3. e \in SecretReqs /\ e.at = "load" /\ e.op = op /\ e.seen = NoSecrets
    BY <1>1, <2>2 DEF SecretReqs, StoreOps
  <2>4. SecretStarts(r, e)
    BY <2>1, <2>2 DEF AsksCustom
  <2>5. op \in StoreOps \ {"tokens"}
    BY DEF StoreOps
  <2> QED BY <1>1, <2>3, <2>4, <2>5, SecretStartsKeeps
<1>4. CASE ReadsSettings(r)
  <2>1. PICK s : s = [NoSecrets EXCEPT !.tokens = legacyTokens]
    OBVIOUS
  <2>2. s \in SecretFiles /\ s.tokens = legacyTokens /\ s.custom = NoSecrets.custom
    BY <1>1, <2>1 DEF StoreInv, SecretTypeOK, SecretFiles
  <2>3. PICK e : e = [IdleSecret EXCEPT !.op = "migrate", !.at = "migrate", !.seen = s]
    OBVIOUS
  <2>4. e \in SecretReqs /\ e.at = "migrate" /\ e.seen = s
    BY <1>1, <2>2, <2>3 DEF SecretReqs, StoreOps
  <2>5. e = [IdleSecret EXCEPT !.op = "migrate", !.at = "migrate", !.seen.tokens = legacyTokens]
    BY <1>1, <2>1, <2>3
  <2>6. SecretStarts(r, e)
    BY <1>4, <2>5 DEF ReadsSettings
  <2> QED BY <2>2, <2>4, <2>6, SecretStartsKeeps DEF StoreInv
<1> QED BY <1>2, <1>3, <1>4

\* A request applied to a sound store leaves a sound one.
LEMMA AppliedSound ==
  ASSUME NEW q \in SecretReqs, NEW s \in SecretFiles, q.op \in StoreOps
  PROVE  /\ Applied(q, s) \in SecretFiles
         /\ \A good : \A n \in Nat :
              q.no <= n /\ Sound(s.tokens, n, good) /\ (q.op = "tokens" /\ Fresh(q) # {} => \E p \in Hubs : <<p, q.no>> \in good)
                => Sound(Applied(q, s).tokens, n, good)
<1>1. /\ s.tokens \in TokenMaps /\ s.custom \in CustomMaps /\ q.no \in Nat /\ q.name \in CustomNames /\ q.to \in CustomNames
      /\ q.new \in [Hubs -> {Absent, 1, Unchanged}]
  BY DEF SecretFiles, SecretReqs
<1>2. CASE SecretRefused(q, s)
  BY <1>2 DEF Applied
<1>3. CASE ~SecretRefused(q, s) /\ q.op = "tokens"
  <2>1. PICK e : e = [s EXCEPT !.tokens = Merged(q, s)]
    OBVIOUS
  <2>2. e = Applied(q, s)
    BY <1>3, <2>1 DEF Applied
  <2>3. Merged(q, s) \in TokenMaps
    BY <1>1 DEF Merged, TokenMaps
  <2>4. e \in SecretFiles /\ e.tokens = Merged(q, s)
    BY <2>1, <2>3 DEF SecretFiles
  <2>5. ASSUME NEW good, NEW n \in Nat, q.no <= n, Sound(s.tokens, n, good), Fresh(q) # {} => \E p \in Hubs : <<p, q.no>> \in good
        PROVE  Sound(Merged(q, s), n, good)
    <3> SUFFICES ASSUME NEW p \in Hubs
                 PROVE  Merged(q, s)[p] <= n /\ (Merged(q, s)[p] # 0 => \E h \in Hubs : <<h, Merged(q, s)[p]>> \in good)
      BY DEF Sound
    <3>1. Merged(q, s)[p] = IF q.new[p] = 1 THEN q.no ELSE IF q.new[p] = Unchanged THEN s.tokens[p] ELSE 0
      BY DEF Merged
    <3>2. s.tokens[p] <= n /\ (s.tokens[p] # 0 => \E h \in Hubs : <<h, s.tokens[p]>> \in good)
      BY <2>5 DEF Sound
    <3>3. q.new[p] = 1 => \E h \in Hubs : <<h, q.no>> \in good
      BY <2>5 DEF Fresh
    <3>4. CASE q.new[p] = 1
      BY <2>5, <3>1, <3>3, <3>4
    <3>5. CASE q.new[p] # 1
      BY <3>1, <3>2, <3>5
    <3> QED BY <3>4, <3>5
  <2> QED BY <1>3, <2>2, <2>4, <2>5
<1>4. CASE ~SecretRefused(q, s) /\ q.op = "unset"
  <2>1. PICK e : e = [s EXCEPT !.tokens = NoSecrets.tokens]
    OBVIOUS
  <2>2. e = Applied(q, s)
    BY <1>4, <2>1 DEF Applied
  <2>3. e \in SecretFiles /\ e.tokens = NoSecrets.tokens
    BY <2>1, NothingSound DEF SecretFiles
  <2> QED BY <2>2, <2>3, NothingSound
<1>5. CASE ~SecretRefused(q, s) /\ q.op \in {"create", "rename", "delete"}
  <2>1. PICK c \in CustomMaps : Applied(q, s) = [s EXCEPT !.custom = c]
    <3>1. CASE q.op = "create"
      <4>1. PICK c : c = [s.custom EXCEPT ![q.name] = q.no]
        OBVIOUS
      <4>2. c \in CustomMaps
        BY <1>1, <4>1 DEF CustomMaps
      <4>3. Applied(q, s) = [s EXCEPT !.custom = c]
        BY <1>5, <3>1, <4>1 DEF Applied, SecretFiles
      <4> QED BY <4>2, <4>3
    <3>2. CASE q.op = "rename"
      <4>1. PICK c : c = [n \in CustomNames |-> IF n = q.to THEN s.custom[q.name] ELSE IF n = q.name THEN 0 ELSE s.custom[n]]
        OBVIOUS
      <4>2. c \in CustomMaps
        BY <1>1, <4>1 DEF CustomMaps
      <4>3. Applied(q, s) = [s EXCEPT !.custom = c]
        BY <1>5, <3>2, <4>1 DEF Applied, SecretFiles
      <4> QED BY <4>2, <4>3
    <3>3. CASE q.op = "delete"
      <4>1. PICK c : c = [s.custom EXCEPT ![q.name] = 0]
        OBVIOUS
      <4>2. c \in CustomMaps
        BY <1>1, <4>1 DEF CustomMaps
      <4>3. Applied(q, s) = [s EXCEPT !.custom = c]
        BY <1>5, <3>3, <4>1 DEF Applied, SecretFiles
      <4> QED BY <4>2, <4>3
    <3> QED BY <1>5, <3>1, <3>2, <3>3
  <2>2. PICK e : e = [s EXCEPT !.custom = c]
    OBVIOUS
  <2>3. e \in SecretFiles /\ e.tokens = s.tokens
    BY <1>1, <2>2 DEF SecretFiles
  <2> QED BY <2>1, <2>2, <2>3
<1> QED BY <1>2, <1>3, <1>4, <1>5 DEF StoreOps

\* A request that goes on or ends without writing.
LEMMA RequestGoesOn ==
  ASSUME StoreInv, NEW r \in SecretRequests, NEW e \in SecretReqs, secretReq' = [secretReq EXCEPT ![r] = e],
         goodTokens \subseteq goodTokens', ReqSound(e, secretOps, goodTokens'), legacyTokens' \in {legacyTokens, NoSecrets.tokens},
         UNCHANGED <<secretStore, secretOps, serialSecrets, wroteOver, overMigrated>>
  PROVE  StoreInv'
<1>1. secretOps \in Nat /\ secretOps <= secretOps
  BY DEF StoreInv, SecretTypeOK
<1>2. /\ secretReq' \in [SecretRequests -> SecretReqs]
      /\ \A q \in SecretRequests : ReqSound(secretReq'[q], secretOps', goodTokens')
  BY <1>1, RequestMoves
<1>3. legacyTokens' \in TokenMaps /\ Sound(legacyTokens', secretOps, goodTokens')
  BY <1>1, NothingSound, SoundGrows DEF StoreInv, SecretTypeOK
<1>4. Sound(secretStore.tokens, secretOps, goodTokens')
  <2>1. secretStore.tokens \in TokenMaps
    BY DEF StoreInv, SecretTypeOK, SecretFiles
  <2> QED BY <1>1, <2>1, SoundGrows DEF StoreInv
<1>5. SecretTypeOK' /\ NoUpdateLost'
  BY <1>2, <1>3 DEF StoreInv, SecretTypeOK, NoUpdateLost
<1> QED BY <1>2, <1>3, <1>4, <1>5 DEF StoreInv

\* The hosts are asked about the tokens that a request brings.
LEMMA ChecksTokensKeeps ==
  ASSUME StoreInv, NEW r \in SecretRequests, NEW bad \in SUBSET Hubs, NEW last \in Hubs, ChecksTokens(r, bad, last)
  PROVE  StoreInv'
<1>1. PICK q \in SecretReqs : q = secretReq[r] /\ ReqSound(q, secretOps, goodTokens)
  BY DEF StoreInv, SecretTypeOK
<1>2. /\ q.op = "tokens" /\ q.at = "check" /\ (Fresh(q) # {} => last \in Fresh(q))
      /\ secretReq' = [secretReq EXCEPT ![r] = IF last \in bad THEN IdleSecret ELSE [q EXCEPT !.at = "load"]]
      /\ goodTokens' = goodTokens \union {<<p, q.no>> : p \in Fresh(q) \ bad}
      /\ UNCHANGED <<secretStore, legacyTokens, secretOps, serialSecrets, wroteOver, overMigrated>>
  BY <1>1 DEF ChecksTokens
<1>3. goodTokens \subseteq goodTokens' /\ secretOps \in Nat /\ secretOps <= secretOps
  BY <1>2 DEF StoreInv, SecretTypeOK
<1>4. CASE last \in bad
  BY <1>2, <1>3, <1>4, NothingSound, RequestGoesOn
<1>5. CASE last \notin bad
  <2>1. PICK e : e = [q EXCEPT !.at = "load"]
    OBVIOUS
  <2>2. e \in SecretReqs /\ e.op = q.op /\ e.at = "load" /\ e.new = q.new /\ e.no = q.no /\ e.seen = q.seen
    BY <2>1 DEF SecretReqs
  <2>3. Fresh(e) = Fresh(q)
    BY <2>2 DEF Fresh
  <2>4. Fresh(q) # {} => \E p \in Hubs : <<p, q.no>> \in goodTokens'
    BY <1>2, <1>5 DEF Fresh
  <2>5. ReqSound(q, secretOps, goodTokens')
    BY <1>1, <1>3, ReqSoundGrows
  <2>6. ReqSound(e, secretOps, goodTokens')
    BY <1>2, <2>2, <2>3, <2>4, <2>5 DEF ReqSound, StoreOps
  <2>7. secretReq' = [secretReq EXCEPT ![r] = e]
    BY <1>2, <1>5, <2>1
  <2> QED BY <1>2, <1>3, <2>2, <2>6, <2>7, RequestGoesOn
<1> QED BY <1>4, <1>5

\* A request that a host refuses, that is cut off or that only forgets the session writes nothing.
LEMMA RequestsGiveUp ==
  ASSUME StoreInv, NEW r \in SecretRequests, HostRefused(r) \/ Invalidates(r) \/ MigrationCut(r)
  PROVE  StoreInv'
<1>1. /\ secretReq' = [secretReq EXCEPT ![r] = IdleSecret] /\ goodTokens' = goodTokens
      /\ legacyTokens' \in {legacyTokens, NoSecrets.tokens}
      /\ UNCHANGED <<secretStore, secretOps, serialSecrets, wroteOver, overMigrated>>
  BY DEF HostRefused, Invalidates, MigrationCut
<1>2. secretOps \in Nat
  BY DEF StoreInv, SecretTypeOK
<1> QED BY <1>1, <1>2, NothingSound, RequestGoesOn

\* The store is read,
LEMMA LoadsSecretsKeeps == ASSUME StoreInv, NEW r \in SecretRequests, LoadsSecrets(r) PROVE StoreInv'
<1>1. PICK q \in SecretReqs : q = secretReq[r] /\ ReqSound(q, secretOps, goodTokens)
  BY DEF StoreInv, SecretTypeOK
<1>2. /\ q.at = "load" /\ goodTokens' = goodTokens
      /\ secretReq' = [secretReq EXCEPT ![r] = IF SecretRefused(q, secretStore) THEN IdleSecret
                                               ELSE [q EXCEPT !.at = "store", !.seen = secretStore]]
      /\ UNCHANGED <<secretStore, legacyTokens, secretOps, serialSecrets, wroteOver, overMigrated>>
  BY <1>1 DEF LoadsSecrets
<1>3. secretOps \in Nat /\ secretStore \in SecretFiles /\ Sound(secretStore.tokens, secretOps, goodTokens)
  BY DEF StoreInv, SecretTypeOK
<1>4. CASE SecretRefused(q, secretStore)
  BY <1>2, <1>3, <1>4, NothingSound, RequestGoesOn
<1>5. CASE ~SecretRefused(q, secretStore)
  <2>1. PICK e : e = [q EXCEPT !.at = "store", !.seen = secretStore]
    OBVIOUS
  <2>2. e \in SecretReqs /\ e.op = q.op /\ e.at = "store" /\ e.new = q.new /\ e.no = q.no /\ e.seen = secretStore
    BY <1>3, <2>1 DEF SecretReqs
  <2>3. Fresh(e) = Fresh(q)
    BY <2>2 DEF Fresh
  <2>4. ReqSound(e, secretOps, goodTokens)
    BY <1>1, <1>2, <1>3, <2>2, <2>3 DEF ReqSound
  <2>5. secretReq' = [secretReq EXCEPT ![r] = e]
    BY <1>2, <1>5, <2>1
  <2> QED BY <1>2, <2>2, <2>4, <2>5, RequestGoesOn
<1> QED BY <1>4, <1>5

\* written,
LEMMA StoresSecretsKeeps == ASSUME StoreInv, NEW r \in SecretRequests, StoresSecrets(r) PROVE StoreInv'
<1>1. PICK q \in SecretReqs : q = secretReq[r] /\ ReqSound(q, secretOps, goodTokens)
  BY DEF StoreInv, SecretTypeOK
<1>2. /\ q.at = "store" /\ secretStore' = Applied(q, q.seen) /\ serialSecrets' = Applied(q, serialSecrets)
      /\ wroteOver' = (wroteOver \/ q.seen # secretStore)
      /\ secretReq' = [secretReq EXCEPT ![r] = IdleSecret]
      /\ UNCHANGED <<legacyTokens, secretOps, goodTokens, overMigrated>>
  BY <1>1 DEF StoresSecrets
<1>3. /\ secretOps \in Nat /\ secretOps <= secretOps /\ serialSecrets \in SecretFiles /\ q.seen \in SecretFiles
      /\ wroteOver \in BOOLEAN
  BY DEF StoreInv, SecretTypeOK, SecretReqs
<1>4. /\ q.op \in StoreOps /\ q.no <= secretOps /\ Sound(q.seen.tokens, secretOps, goodTokens)
      /\ (q.op = "tokens" /\ Fresh(q) # {} => \E p \in Hubs : <<p, q.no>> \in goodTokens)
  BY <1>1, <1>2 DEF ReqSound
<1>5. /\ Applied(q, q.seen) \in SecretFiles /\ Applied(q, serialSecrets) \in SecretFiles
      /\ Sound(Applied(q, q.seen).tokens, secretOps, goodTokens)
  BY <1>3, <1>4, AppliedSound
<1>6. /\ secretReq' \in [SecretRequests -> SecretReqs]
      /\ \A p \in SecretRequests : ReqSound(secretReq'[p], secretOps', goodTokens')
  BY <1>2, <1>3, NothingSound, RequestMoves
<1>7. wroteOver' \in BOOLEAN
  BY <1>2, <1>3
<1>8. NoUpdateLost'
  BY <1>2, <1>3 DEF StoreInv, NoUpdateLost
<1>9. SecretTypeOK'
  BY <1>2, <1>5, <1>6, <1>7 DEF StoreInv, SecretTypeOK
<1> QED BY <1>2, <1>5, <1>6, <1>8, <1>9 DEF StoreInv

\* and filled from the tokens of the old settings.
LEMMA MigratesKeeps == ASSUME StoreInv, NEW r \in SecretRequests, Migrates(r) PROVE StoreInv'
<1>1. PICK q \in SecretReqs : q = secretReq[r] /\ ReqSound(q, secretOps, goodTokens)
  BY DEF StoreInv, SecretTypeOK
<1>2. PICK e : e = [q EXCEPT !.at = "invalidate"]
  OBVIOUS
<1>3. e \in SecretReqs /\ e.at = "invalidate" /\ e.seen = q.seen /\ e.no = q.no
  BY <1>2 DEF SecretReqs
<1>4. PICK s : s = [serialSecrets EXCEPT !.tokens = q.seen.tokens]
  OBVIOUS
<1>5. /\ q.at = "migrate" /\ secretStore' = q.seen /\ serialSecrets' = s
      /\ overMigrated' = (overMigrated \/ secretStore # NoSecrets)
      /\ UNCHANGED <<legacyTokens, secretOps, goodTokens, wroteOver>>
  BY <1>1, <1>4 DEF Migrates
<1>6. secretReq' = [secretReq EXCEPT ![r] = e]
  BY <1>1, <1>2 DEF Migrates, StoreInv, SecretTypeOK
<1>7. /\ secretOps \in Nat /\ secretOps <= secretOps /\ serialSecrets \in SecretFiles /\ q.seen \in SecretFiles
      /\ overMigrated \in BOOLEAN /\ secretStore \in SecretFiles
  BY DEF StoreInv, SecretTypeOK, SecretReqs
<1>8. s \in SecretFiles /\ s.tokens = q.seen.tokens /\ s.custom = serialSecrets.custom
  BY <1>4, <1>7 DEF SecretFiles
<1>9. Sound(q.seen.tokens, secretOps, goodTokens) /\ q.seen.custom = NoSecrets.custom
  BY <1>1, <1>5 DEF ReqSound
<1>10. ReqSound(e, secretOps, goodTokens)
  BY <1>1, <1>3 DEF ReqSound
<1>11. /\ secretReq' \in [SecretRequests -> SecretReqs]
       /\ \A p \in SecretRequests : ReqSound(secretReq'[p], secretOps', goodTokens')
  BY <1>3, <1>5, <1>6, <1>7, <1>10, RequestMoves
<1>12. NoUpdateLost'
  <2>1. SUFFICES ASSUME ~wroteOver', ~overMigrated' PROVE q.seen = s
    BY <1>5 DEF NoUpdateLost
  <2>2. serialSecrets = NoSecrets
    BY <1>5, <2>1 DEF StoreInv, NoUpdateLost
  <2>3. s.custom = q.seen.custom
    BY <1>8, <1>9, <2>2
  <2> QED BY <1>7, <1>8, <2>3 DEF SecretFiles
<1>13. overMigrated' \in BOOLEAN
  BY <1>5, <1>7
<1>14. SecretTypeOK'
  BY <1>5, <1>7, <1>8, <1>11, <1>13 DEF StoreInv, SecretTypeOK
<1> QED BY <1>5, <1>9, <1>11, <1>12, <1>14 DEF StoreInv

\* A step that is not the store's keeps its invariant.
LEMMA StoreFrame == StoreInv /\ UNCHANGED storeVars => StoreInv'
BY DEF StoreInv, SecretTypeOK, NoUpdateLost, storeVars

\* Every step keeps it.
LEMMA StoreSteps == StoreInv /\ UserSecretNext => StoreInv'
<1> SUFFICES ASSUME StoreInv, UserSecretNext PROVE StoreInv'
  OBVIOUS
<1>1. ASSUME NEW r \in SecretRequests,
        \/ \E kinds \in [Hubs -> {Absent, 1, Unchanged}] : BringsTokens(r, kinds)
        \/ \E op \in {"create", "delete"}, n \in CustomNames : AsksCustom(r, op, n, n)
        \/ \E n, m \in CustomNames : AsksCustom(r, "rename", n, m)
        \/ AsksCustom(r, "unset", "api", "api") \/ ReadsSettings(r)
      PROVE StoreInv'
  BY <1>1, RequestsBegin DEF CustomNames
<1>2. ASSUME SecretSession \/ (\E p \in Hubs : Rotates(p))
               \/ (\E called \in SUBSET Hubs : \E fetched \in SUBSET called : UsesTokens(called, fetched))
      PROVE StoreInv'
  BY <1>2, StoreFrame DEF SecretSession, Rotates, UsesTokens
<1> QED BY <1>1, <1>2, ChecksTokensKeeps, RequestsGiveUp, LoadsSecretsKeeps, StoresSecretsKeeps, MigratesKeeps DEF UserSecretNext

\* The inductive invariant of a sandbox: its shell is not older than the session's tokens, and
\* what was exported last is masked.
EnvInv ==
  /\ sandboxEnv \in SecretFiles /\ bashrc \in SecretFiles /\ sessionTokens \in TokenMaps /\ managerTokens \in TokenMaps
  /\ rotations \in Nat /\ hasManager \in BOOLEAN
  /\ (sandboxEnv = NoSecrets =>
        bashrc = NoSecrets /\ sessionTokens = NoSecrets.tokens /\ managerTokens = NoSecrets.tokens)
  /\ \A p \in Hubs :
       /\ sessionTokens[p] <= MaxSecretOps + 1 /\ sessionTokens[p] <= managerTokens[p]
       /\ managerTokens[p] <= MaxSecretOps + 1 + rotations /\ bashrc.tokens[p] <= managerTokens[p]
       /\ (~hasManager => bashrc.tokens[p] <= sessionTokens[p])
  /\ ShellNotOlder /\ LastExportMasked

\* The invariant of the sandbox holds at first.
LEMMA EnvStarts == UserSecretInit => EnvInv
<1> SUFFICES ASSUME UserSecretInit PROVE EnvInv
  OBVIOUS
<1>1. /\ sandboxEnv = NoSecrets /\ bashrc = NoSecrets /\ sessionTokens = NoSecrets.tokens
      /\ managerTokens = NoSecrets.tokens /\ rotations = 0 /\ hasManager = FALSE
  BY DEF UserSecretInit
<1>2. \A p \in Hubs : NoSecrets.tokens[p] = 0
  BY DEF NoSecrets
<1>3. \A p \in Hubs : 0 <= MaxSecretOps + 1 + rotations /\ 0 <= MaxSecretOps + 1
  BY <1>1, SecretsAssumption
<1>4. \A p \in Hubs : sessionTokens[p] = 0 /\ managerTokens[p] = 0 /\ bashrc.tokens[p] = 0 /\ sandboxEnv.tokens[p] = 0
  BY <1>1, <1>2
<1>5. ShellNotOlder /\ LastExportMasked
  BY <1>4 DEF ShellNotOlder, LastExportMasked
<1>6. /\ sandboxEnv \in SecretFiles /\ bashrc \in SecretFiles /\ sessionTokens \in TokenMaps /\ managerTokens \in TokenMaps
      /\ rotations \in Nat /\ hasManager \in BOOLEAN
  BY <1>1, NothingSound
<1> QED BY <1>1, <1>3, <1>4, <1>5, <1>6 DEF EnvInv

\* What the running shell and .bashrc have after an export.
LEMMA ExportsTokens ==
  ASSUME sandboxEnv \in SecretFiles, bashrc \in SecretFiles, NEW new \in SecretFiles, Exports(new)
  PROVE  /\ sandboxEnv' \in SecretFiles /\ bashrc' \in SecretFiles
         /\ sandboxEnv'.tokens \in TokenMaps /\ bashrc'.tokens \in TokenMaps
         /\ sandboxEnv'.custom = Latest(sandboxEnv.custom, new.custom)
         /\ \A p \in Hubs : sandboxEnv'.tokens[p] = (IF new.tokens[p] # 0 THEN new.tokens[p] ELSE sandboxEnv.tokens[p])
         /\ \A p \in Hubs : bashrc'.tokens[p] = (IF bashrc.tokens[p] = 0 THEN new.tokens[p] ELSE bashrc.tokens[p])
<1>1. /\ new.tokens \in TokenMaps /\ new.custom \in CustomMaps /\ sandboxEnv.tokens \in TokenMaps
      /\ sandboxEnv.custom \in CustomMaps /\ bashrc.tokens \in TokenMaps /\ bashrc.custom \in CustomMaps
  BY DEF SecretFiles
<1>2. /\ Latest(sandboxEnv.tokens, new.tokens) \in TokenMaps /\ Earliest(bashrc.tokens, new.tokens) \in TokenMaps
      /\ Latest(sandboxEnv.custom, new.custom) \in CustomMaps /\ Earliest(bashrc.custom, new.custom) \in CustomMaps
  BY <1>1 DEF Latest, Earliest, TokenMaps, CustomMaps
<1>3. /\ \A p \in Hubs : Latest(sandboxEnv.tokens, new.tokens)[p] = (IF new.tokens[p] # 0 THEN new.tokens[p] ELSE sandboxEnv.tokens[p])
      /\ \A p \in Hubs : Earliest(bashrc.tokens, new.tokens)[p] = (IF bashrc.tokens[p] = 0 THEN new.tokens[p] ELSE bashrc.tokens[p])
  BY <1>1 DEF Latest, Earliest, TokenMaps
<1>4. PICK e, b : /\ e = [tokens |-> Latest(sandboxEnv.tokens, new.tokens), custom |-> Latest(sandboxEnv.custom, new.custom)]
                  /\ b = [tokens |-> Earliest(bashrc.tokens, new.tokens), custom |-> Earliest(bashrc.custom, new.custom)]
  OBVIOUS
<1>5. /\ e \in SecretFiles /\ e.tokens = Latest(sandboxEnv.tokens, new.tokens) /\ e.custom = Latest(sandboxEnv.custom, new.custom)
      /\ b \in SecretFiles /\ b.tokens = Earliest(bashrc.tokens, new.tokens)
  BY <1>2, <1>4 DEF SecretFiles
<1>6. sandboxEnv' = e /\ bashrc' = b
  BY <1>4 DEF Exports
<1> QED BY <1>2, <1>3, <1>5, <1>6

\* A session begins with the store's secrets.
LEMMA SecretSessionKeeps == StoreInv /\ EnvInv /\ SecretSession => EnvInv'
<1> SUFFICES ASSUME StoreInv, EnvInv, SecretSession PROVE EnvInv'
  OBVIOUS
<1>1. /\ sandboxEnv = NoSecrets /\ secretStore # NoSecrets /\ Exports(FirstEnv)
      /\ sessionTokens' = secretStore.tokens /\ managerTokens' = secretStore.tokens /\ hasManager' \in BOOLEAN
      /\ rotations' = rotations
  BY DEF SecretSession
<1>2. /\ secretStore \in SecretFiles /\ secretOps \in Nat /\ secretOps <= MaxSecretOps + 1 /\ rotations \in Nat
      /\ Sound(secretStore.tokens, secretOps, goodTokens) /\ bashrc = NoSecrets
      /\ sandboxEnv \in SecretFiles /\ bashrc \in SecretFiles
  BY <1>1 DEF StoreInv, SecretTypeOK, EnvInv
<1>3. FirstEnv = secretStore
  BY <1>2 DEF FirstEnv, SecretFiles
<1>4. /\ sandboxEnv' \in SecretFiles /\ bashrc' \in SecretFiles
      /\ sandboxEnv'.tokens \in TokenMaps /\ bashrc'.tokens \in TokenMaps
      /\ sandboxEnv'.custom = Latest(sandboxEnv.custom, secretStore.custom)
      /\ \A p \in Hubs : sandboxEnv'.tokens[p] = (IF secretStore.tokens[p] # 0 THEN secretStore.tokens[p] ELSE sandboxEnv.tokens[p])
      /\ \A p \in Hubs : bashrc'.tokens[p] = (IF bashrc.tokens[p] = 0 THEN secretStore.tokens[p] ELSE bashrc.tokens[p])
  BY <1>1, <1>2, <1>3, ExportsTokens
<1>5. /\ \A p \in Hubs : NoSecrets.tokens[p] = 0
      /\ \A n \in CustomNames : NoSecrets.custom[n] = 0
  BY DEF NoSecrets
<1>6. \A p \in Hubs : sandboxEnv'.tokens[p] = secretStore.tokens[p] /\ bashrc'.tokens[p] = secretStore.tokens[p]
  BY <1>1, <1>2, <1>4, <1>5
<1>7. secretStore.tokens \in TokenMaps /\ secretStore.custom \in CustomMaps
  BY <1>2 DEF SecretFiles
<1>8. sandboxEnv' # NoSecrets
  <2>1. sandboxEnv'.tokens = secretStore.tokens
    BY <1>4, <1>6, <1>7 DEF TokenMaps
  <2>2. sandboxEnv'.custom = secretStore.custom
    <3>1. Latest(sandboxEnv.custom, secretStore.custom) = secretStore.custom
      BY <1>1, <1>5, <1>7 DEF Latest, CustomMaps
    <3> QED BY <1>4, <3>1
  <2>3. sandboxEnv' = secretStore
    BY <1>2, <1>4, <2>1, <2>2 DEF SecretFiles
  <2> QED BY <1>1, <2>3
<1>9. \A p \in Hubs : secretStore.tokens[p] \in Nat /\ secretStore.tokens[p] <= secretOps
  BY <1>2, <1>7 DEF Sound, TokenMaps
<1>10. \A k \in Nat : k <= secretOps => k <= MaxSecretOps + 1 /\ k <= MaxSecretOps + 1 + rotations /\ k <= k /\ k >= k
  BY <1>2, SecretsAssumption
<1>11. \A p \in Hubs :
       /\ sessionTokens'[p] <= MaxSecretOps + 1 /\ sessionTokens'[p] <= managerTokens'[p]
       /\ managerTokens'[p] <= MaxSecretOps + 1 + rotations' /\ bashrc'.tokens[p] <= managerTokens'[p]
       /\ bashrc'.tokens[p] <= sessionTokens'[p] /\ sandboxEnv'.tokens[p] >= bashrc'.tokens[p]
  BY <1>1, <1>6, <1>9, <1>10
<1>12. ShellNotOlder' /\ LastExportMasked'
  BY <1>1, <1>6, <1>11 DEF ShellNotOlder, LastExportMasked
<1> QED BY <1>1, <1>2, <1>4, <1>7, <1>8, <1>11, <1>12 DEF EnvInv

\* A host gives out another token.
LEMMA RotatesKeeps == ASSUME EnvInv, NEW p \in Hubs, Rotates(p) PROVE EnvInv'
<1>1. /\ sessionTokens[p] # 0 /\ rotations' = rotations + 1
      /\ managerTokens' = [managerTokens EXCEPT ![p] = MaxSecretOps + rotations']
      /\ UNCHANGED <<sandboxEnv, bashrc, sessionTokens, hasManager, maskedSecrets>>
  BY DEF Rotates
<1>2. PICK n \in Nat : n = rotations
  BY DEF EnvInv
<1>3. PICK m \in TokenMaps : m = managerTokens
  BY DEF EnvInv
<1>4. MaxSecretOps + (n + 1) \in Nat /\ n + 1 \in Nat
  BY <1>2, SecretsAssumption
<1>5. managerTokens' \in TokenMaps /\ \A q \in Hubs : managerTokens'[q] = IF q = p THEN MaxSecretOps + (n + 1) ELSE m[q]
  BY <1>1, <1>2, <1>3, <1>4 DEF TokenMaps
<1>6. sandboxEnv # NoSecrets
  BY <1>1 DEF EnvInv, NoSecrets
<1>7. ASSUME NEW q \in Hubs
      PROVE  /\ sessionTokens[q] <= MaxSecretOps + 1 /\ sessionTokens[q] <= managerTokens'[q]
             /\ managerTokens'[q] <= MaxSecretOps + 1 + rotations' /\ bashrc.tokens[q] <= managerTokens'[q]
             /\ (~hasManager => bashrc.tokens[q] <= sessionTokens[q])
  <2>1. PICK s \in Nat, b \in Nat, k \in Nat : s = sessionTokens[q] /\ b = bashrc.tokens[q] /\ k = m[q]
    BY DEF EnvInv, TokenMaps, SecretFiles
  <2>2. s <= MaxSecretOps + 1 /\ s <= k /\ k <= MaxSecretOps + 1 + n /\ b <= k /\ (~hasManager => b <= s)
    BY <1>2, <1>3, <2>1 DEF EnvInv
  <2>3. /\ k <= MaxSecretOps + 1 + (n + 1) /\ s <= MaxSecretOps + (n + 1) /\ b <= MaxSecretOps + (n + 1)
        /\ MaxSecretOps + (n + 1) <= MaxSecretOps + 1 + (n + 1)
    BY <2>2, SecretsAssumption
  <2> QED BY <1>1, <1>2, <1>5, <2>1, <2>2, <2>3
<1>8. ShellNotOlder' /\ LastExportMasked'
  BY <1>1 DEF EnvInv, ShellNotOlder, LastExportMasked
<1> QED BY <1>1, <1>2, <1>4, <1>5, <1>6, <1>7, <1>8 DEF EnvInv

\* A command uses tokens, which are fetched and exported.
LEMMA UsesTokensKeeps ==
  ASSUME EnvInv, NEW called \in SUBSET Hubs, NEW fetched \in SUBSET called, UsesTokens(called, fetched)
  PROVE  EnvInv'
<1>1. PICK new : new = LatestTokens(called, fetched)
  OBVIOUS
<1>2. PICK e : e = [tokens |-> new, custom |-> NoSecrets.custom]
  OBVIOUS
<1>3. /\ Values(new) # {} /\ maskedSecrets' = Values(new) /\ Exports(e)
      /\ UNCHANGED <<sessionTokens, managerTokens, rotations, hasManager>>
  BY <1>1, <1>2 DEF UsesTokens
<1>4. /\ sessionTokens \in TokenMaps /\ managerTokens \in TokenMaps /\ sandboxEnv \in SecretFiles /\ bashrc \in SecretFiles
  BY DEF EnvInv
<1>5. /\ new \in TokenMaps
      /\ \A p \in Hubs : new[p] = 0 \/ (hasManager /\ new[p] = managerTokens[p]) \/ (~hasManager /\ new[p] = sessionTokens[p])
  BY <1>1, <1>4 DEF LatestTokens, TokenFor, TokenMaps
<1>6. e \in SecretFiles /\ e.tokens = new
  BY <1>2, <1>5, NothingSound DEF SecretFiles
<1>7. /\ sandboxEnv' \in SecretFiles /\ bashrc' \in SecretFiles
      /\ sandboxEnv'.tokens \in TokenMaps /\ bashrc'.tokens \in TokenMaps
      /\ \A p \in Hubs : sandboxEnv'.tokens[p] = (IF new[p] # 0 THEN new[p] ELSE sandboxEnv.tokens[p])
      /\ \A p \in Hubs : bashrc'.tokens[p] = (IF bashrc.tokens[p] = 0 THEN new[p] ELSE bashrc.tokens[p])
  BY <1>3, <1>4, <1>6, ExportsTokens
<1>8. PICK h \in Hubs : new[h] # 0 /\ new[h] \in maskedSecrets'
  BY <1>3, <1>5 DEF Values, TokenMaps
<1>9. LastExportMasked'
  BY <1>7, <1>8 DEF LastExportMasked
<1>10. sandboxEnv' # NoSecrets
  BY <1>7, <1>8 DEF NoSecrets
<1>11. ASSUME NEW p \in Hubs
       PROVE  /\ sessionTokens'[p] <= MaxSecretOps + 1 /\ sessionTokens'[p] <= managerTokens'[p]
              /\ managerTokens'[p] <= MaxSecretOps + 1 + rotations' /\ bashrc'.tokens[p] <= managerTokens'[p]
              /\ (~hasManager' => bashrc'.tokens[p] <= sessionTokens'[p])
              /\ sandboxEnv'.tokens[p] >= bashrc'.tokens[p]
  <2>1. PICK s \in Nat, k \in Nat, b \in Nat, x \in Nat, v \in Nat :
             s = sessionTokens[p] /\ k = managerTokens[p] /\ b = bashrc.tokens[p] /\ x = sandboxEnv.tokens[p] /\ v = new[p]
    BY <1>4, <1>5 DEF TokenMaps, SecretFiles
  <2>2. s <= MaxSecretOps + 1 /\ s <= k /\ k <= MaxSecretOps + 1 + rotations /\ b <= k /\ (~hasManager => b <= s) /\ x >= b
    BY <2>1 DEF EnvInv, ShellNotOlder
  <2>3. v = 0 \/ (hasManager /\ v = k) \/ (~hasManager /\ v = s)
    BY <1>5, <2>1
  <2>4. PICK y \in Nat, c \in Nat : /\ y = sandboxEnv'.tokens[p] /\ c = bashrc'.tokens[p]
                                    /\ y = (IF v # 0 THEN v ELSE x) /\ c = (IF b = 0 THEN v ELSE b)
    BY <1>7, <2>1 DEF TokenMaps
  <2>5. c <= k
    BY <2>2, <2>3, <2>4
  <2>6. ~hasManager => c <= s
    BY <2>2, <2>3, <2>4
  <2>7. y >= c
    BY <2>2, <2>3, <2>4
  <2> QED BY <1>3, <2>1, <2>2, <2>4, <2>5, <2>6, <2>7
<1>12. ShellNotOlder'
  BY <1>11 DEF ShellNotOlder
<1> QED BY <1>3, <1>4, <1>7, <1>9, <1>10, <1>11, <1>12 DEF EnvInv

\* A step that is not the sandbox's keeps its invariant.
LEMMA EnvFrame == EnvInv /\ UNCHANGED sandboxVarsOf => EnvInv'
BY DEF EnvInv, ShellNotOlder, LastExportMasked, sandboxVarsOf

\* The secrets where they are stored and where they are used.
UserSecretsInv == StoreInv /\ EnvInv

\* The invariant of the secrets holds at first.
LEMMA UserSecretsStart == UserSecretInit => UserSecretsInv
BY StoreStarts, EnvStarts DEF UserSecretsInv

\* Every step keeps it.
LEMMA UserSecretSteps == UserSecretsInv /\ UserSecretNext => UserSecretsInv'
<1> SUFFICES ASSUME UserSecretsInv, UserSecretNext PROVE EnvInv'
  BY StoreSteps DEF UserSecretsInv
<1>1. ASSUME NEW r \in SecretRequests,
        \/ \E kinds \in [Hubs -> {Absent, 1, Unchanged}] : BringsTokens(r, kinds)
        \/ \E op \in {"create", "delete"}, n \in CustomNames : AsksCustom(r, op, n, n)
        \/ \E n, m \in CustomNames : AsksCustom(r, "rename", n, m)
        \/ AsksCustom(r, "unset", "api", "api") \/ ReadsSettings(r)
      PROVE UNCHANGED sandboxVarsOf
  BY <1>1 DEF BringsTokens, AsksCustom, ReadsSettings, SecretStarts
<1>2. ASSUME NEW r \in SecretRequests,
        \/ \E bad \in SUBSET Hubs, last \in Hubs : ChecksTokens(r, bad, last)
        \/ HostRefused(r) \/ LoadsSecrets(r) \/ StoresSecrets(r) \/ Migrates(r) \/ Invalidates(r) \/ MigrationCut(r)
      PROVE UNCHANGED sandboxVarsOf
  BY <1>2 DEF ChecksTokens, HostRefused, LoadsSecrets, StoresSecrets, Migrates, Invalidates, MigrationCut
<1> QED BY <1>1, <1>2, EnvFrame, SecretSessionKeeps, RotatesKeeps, UsesTokensKeeps DEF UserSecretNext, UserSecretsInv

\* So does a step of another part.
LEMMA UserSecretsFrame == UserSecretsInv /\ UNCHANGED secretVarsAll => UserSecretsInv'
BY StoreFrame, EnvFrame DEF UserSecretsInv, secretVarsAll, storeVars, sandboxVarsOf

\* It gives what the run checks.
LEMMA UserSecretsTell == UserSecretsInv => SecretsKept
<1> SUFFICES ASSUME UserSecretsInv PROVE TokensValidated
  BY DEF UserSecretsInv, StoreInv, EnvInv, SecretsKept
<1> QED BY DEF UserSecretsInv, StoreInv, Sound, TokensValidated

-----------------------------------------------------------------------------
(* Skills: a dictionary holds the nearest of what its places gave.           *)

\* Key, of a server of version v.
KeyIn(v, s) == <<IF v = "v1" THEN "any" ELSE IF s.kind = "repo" THEN "repo" ELSE "knowledge", s.name>>

\* Place p is nearer than place q.
NearerPlace(v, p, q) ==
  IF v = "v0" THEN \/ q = "global" /\ p # "global"
                   \/ q = "home" /\ p \notin {"global", "home"}
                   \/ q = "system" /\ p \in {"org", "legacy", "repo"}
                   \/ q = "org" /\ p \in {"legacy", "repo"}
                   \/ q = "legacy" /\ p = "repo"
  ELSE \/ q = "sandbox" /\ p # "sandbox"
       \/ q = "global" /\ p \notin {"sandbox", "global"}
       \/ q = "home" /\ p \in {"special", "skills", "microagents"}
       \/ q = "microagents" /\ p \in {"special", "skills"}
       \/ q = "skills" /\ p = "special"

\* The places of a version, and those of the host, which are loaded before the workspace.
PlacesOf(v) == IF v = "v0" THEN {"global", "home", "system", "org", "legacy", "repo"}
               ELSE {"sandbox", "global", "home", "special", "skills", "microagents"}
AllPlaces == {"global", "home", "system", "org", "legacy", "repo", "sandbox", "special", "skills", "microagents"}
HostPlaces == {"global", "home", "sandbox"}

\* A dictionary holds of the skills S the nearest of each key.
Nearest(v, dict, S) ==
  /\ DOMAIN dict = {KeyIn(v, s) : s \in S}
  /\ \A k \in DOMAIN dict : /\ dict[k] \in S /\ KeyIn(v, dict[k]) = k
                            /\ \A t \in S : KeyIn(v, t) = k => t = dict[k] \/ NearerPlace(v, dict[k].place, t.place)

\* What the places P gave, and the places that are left after n of them.
FoundIn(f, places) == UNION {f[p] : p \in (DOMAIN f \cap places)}
LeftAt(v, n) == SubSeq(Places[v], n + 1, 6)

\* The inductive invariant: each dictionary holds the nearest of what its places gave.
SkillInv ==
  /\ skillServer \in {"v0", "v1"}
  /\ skillState \in {"loading", "ready", "failed"}
  /\ skillState = "loading" => \E n \in 0..5 : placesLeft = LeftAt(skillServer, n) /\ DOMAIN found = {Places[skillServer][i] : i \in 1..n}
  /\ DOMAIN found \subseteq PlacesOf(skillServer)
  /\ \A p \in DOMAIN found : \A s \in found[p] : s.place = p
  /\ skillState = "loading" => /\ Nearest(skillServer, active, FoundIn(found, HostPlaces))
                               /\ Nearest(skillServer, workspace, FoundIn(found, PlacesOf(skillServer) \ HostPlaces))
                               /\ recalled = NotAsked
  /\ skillState = "failed" => recalled = NotAsked
  /\ skillState = "ready" => Nearest(skillServer, active, AllFound)
  /\ RecallsNearest

\* The places in their order.
LEMMA PlacesAre ==
  /\ Places["v0"] = <<"global", "home", "system", "org", "legacy", "repo">>
  /\ Places["v1"] = <<"sandbox", "global", "home", "special", "skills", "microagents">>
  /\ \A v \in {"v0", "v1"} : Places[v] \in Seq(AllPlaces) /\ Len(Places[v]) = 6
<1>1. Places["v0"] = <<"global", "home", "system", "org", "legacy", "repo">>
  BY DEF Places
<1>2. Places["v1"] = <<"sandbox", "global", "home", "special", "skills", "microagents">>
  BY DEF Places
<1>3. Places["v0"] \in Seq(AllPlaces) /\ Len(Places["v0"]) = 6
  BY <1>1 DEF AllPlaces
<1>4. Places["v1"] \in Seq(AllPlaces) /\ Len(Places["v1"]) = 6
  BY <1>2 DEF AllPlaces
<1> QED BY <1>1, <1>2, <1>3, <1>4

\* The first of the places that are left is the next one.
LEMMA LeftGoesOn ==
  ASSUME NEW v \in {"v0", "v1"}, NEW n \in 0..5
  PROVE  /\ LeftAt(v, n) # <<>> /\ Head(LeftAt(v, n)) = Places[v][n + 1] /\ Len(LeftAt(v, n)) = 6 - n
         /\ n < 5 => Tail(LeftAt(v, n)) = LeftAt(v, n + 1)
<1> DEFINE s == Places[v]
<1>1. s \in Seq(AllPlaces) /\ Len(s) = 6
  BY PlacesAre
<1> HIDE DEF s
<1>2. n \in Nat /\ n <= 5
  OBVIOUS
<1>3. n + 1 \in 1 .. Len(s) /\ 6 \in n + 1 .. Len(s)
  BY <1>1, <1>2
<1>4. /\ LeftAt(v, n) # <<>> /\ Head(LeftAt(v, n)) = s[n + 1]
      /\ Tail(LeftAt(v, n)) = SubSeq(s, (n + 1) + 1, 6)
  <2>1. Head(SubSeq(s, n + 1, 6)) = s[n + 1] /\ Tail(SubSeq(s, n + 1, 6)) = SubSeq(s, (n + 1) + 1, 6)
    BY <1>1, <1>3, HeadTailOfSubSeq
  <2>2. Len(SubSeq(s, n + 1, 6)) = 6 - n
    BY <1>1, <1>2
  <2>3. LeftAt(v, n) = SubSeq(s, n + 1, 6)
    BY DEF LeftAt, s
  <2>4. Len(<<>>) = 0 /\ 6 - n # 0
    BY <1>2
  <2> QED BY <2>1, <2>2, <2>3, <2>4
<1>5. Len(LeftAt(v, n)) = 6 - n
  BY <1>1, <1>2 DEF LeftAt, s
<1> QED BY <1>4, <1>5 DEF LeftAt, s

\* The next place is nearer than those before it, but in the repository of the newer server,
\* where it is farther.
LEMMA PlacesInOrder ==
  ASSUME NEW v \in {"v0", "v1"}, NEW n \in 0..5
  PROVE  LET p == Places[v][n + 1]
             there == {Places[v][i] : i \in 1..n}
         IN  /\ p \in PlacesOf(v) /\ p \notin there
             /\ \A q \in there : q \in PlacesOf(v) /\ q # p
             /\ \A q \in there : (p \in HostPlaces \/ v = "v0") => NearerPlace(v, p, q)
             /\ (v = "v1" /\ p \notin HostPlaces) => \A q \in there : q \in HostPlaces \/ NearerPlace(v, q, p)
             /\ (v = "v1" /\ p = "sandbox") => n = 0
             /\ p \in HostPlaces \cup {"org"} => n < 5
<1> DEFINE p == Places[v][n + 1]
           there == {Places[v][i] : i \in 1..n}
<1>1. n \in {0, 1, 2, 3, 4, 5}
  OBVIOUS
<1>2. CASE v = "v0"
  <2>1. Places[v] = <<"global", "home", "system", "org", "legacy", "repo">>
    BY <1>2, PlacesAre
  <2>2. \A q \in there : \E i \in 1..n : q = Places[v][i]
    OBVIOUS
  <2>3. CASE n = 0
    BY <1>2, <2>1, <2>3 DEF PlacesOf, HostPlaces, NearerPlace
  <2>4. CASE n = 1
    BY <1>2, <2>1, <2>4 DEF PlacesOf, HostPlaces, NearerPlace
  <2>5. CASE n = 2
    BY <1>2, <2>1, <2>5 DEF PlacesOf, HostPlaces, NearerPlace
  <2>6. CASE n = 3
    BY <1>2, <2>1, <2>6 DEF PlacesOf, HostPlaces, NearerPlace
  <2>7. CASE n = 4
    BY <1>2, <2>1, <2>7 DEF PlacesOf, HostPlaces, NearerPlace
  <2>8. CASE n = 5
    BY <1>2, <2>1, <2>8 DEF PlacesOf, HostPlaces, NearerPlace
  <2> QED BY <1>1, <2>3, <2>4, <2>5, <2>6, <2>7, <2>8
<1>3. CASE v = "v1"
  <2>1. Places[v] = <<"sandbox", "global", "home", "special", "skills", "microagents">>
    BY <1>3, PlacesAre
  <2>3. CASE n = 0
    BY <1>3, <2>1, <2>3 DEF PlacesOf, HostPlaces, NearerPlace
  <2>4. CASE n = 1
    BY <1>3, <2>1, <2>4 DEF PlacesOf, HostPlaces, NearerPlace
  <2>5. CASE n = 2
    BY <1>3, <2>1, <2>5 DEF PlacesOf, HostPlaces, NearerPlace
  <2>6. CASE n = 3
    BY <1>3, <2>1, <2>6 DEF PlacesOf, HostPlaces, NearerPlace
  <2>7. CASE n = 4
    BY <1>3, <2>1, <2>7 DEF PlacesOf, HostPlaces, NearerPlace
  <2>8. CASE n = 5
    BY <1>3, <2>1, <2>8 DEF PlacesOf, HostPlaces, NearerPlace
  <2> QED BY <1>1, <2>3, <2>4, <2>5, <2>6, <2>7, <2>8
<1> QED BY <1>2, <1>3

\* Nearness counts the places in that order.
LEMMA NearnessIsOrder ==
  ASSUME skillServer \in {"v0", "v1"}, NEW p \in PlacesOf(skillServer), NEW q \in PlacesOf(skillServer)
  PROVE  Nearness(q) < Nearness(p) <=> NearerPlace(skillServer, p, q)
<1>1. CASE skillServer = "v0"
  <2>1. \A x : Nearness(x) = CHOOSE n \in 1..6 : Places["v0"][n] = x
    <3>1. DOMAIN Places["v0"] = 1..6
      BY PlacesAre
    <3> QED BY <1>1, <3>1 DEF Nearness
  <2>2. /\ Nearness("global") = 1 /\ Nearness("home") = 2 /\ Nearness("system") = 3
        /\ Nearness("org") = 4 /\ Nearness("legacy") = 5 /\ Nearness("repo") = 6
    BY <2>1, PlacesAre
  <2> QED BY <1>1, <2>2 DEF PlacesOf, NearerPlace
<1>2. CASE skillServer = "v1"
  <2> DEFINE at(x) == CHOOSE n \in 1..6 : Places["v1"][n] = x
  <2>1. \A x : Nearness(x) = IF x \in RepoPlaces THEN 20 - at(x) ELSE at(x)
    <3>1. DOMAIN Places["v1"] = 1..6
      BY PlacesAre
    <3> QED BY <1>2, <3>1 DEF Nearness
  <2>2. /\ at("sandbox") = 1 /\ at("global") = 2 /\ at("home") = 3
        /\ at("special") = 4 /\ at("skills") = 5 /\ at("microagents") = 6
    BY PlacesAre
  <2> HIDE DEF at
  <2>3. /\ Nearness("sandbox") = 1 /\ Nearness("global") = 2 /\ Nearness("home") = 3
        /\ Nearness("special") = 16 /\ Nearness("skills") = 15 /\ Nearness("microagents") = 14
    BY <2>1, <2>2 DEF RepoPlaces
  <2> QED BY <1>2, <2>3 DEF PlacesOf, NearerPlace
<1> QED BY <1>1, <1>2

\* A dictionary put over one of farther places holds the nearest of both.
LEMMA OverNearest ==
  ASSUME NEW v, NEW old, NEW new, NEW S, NEW Ts, Nearest(v, old, S), Nearest(v, new, Ts),
         \A s \in S, t \in Ts : NearerPlace(v, t.place, s.place)
  PROVE  Nearest(v, Over(old, new), S \cup Ts)
<1> DEFINE d == Over(old, new)
<1>1. DOMAIN d = DOMAIN old \cup DOMAIN new /\ \A k \in DOMAIN d : d[k] = IF k \in DOMAIN new THEN new[k] ELSE old[k]
  BY DEF Over
<1> HIDE DEF d
<1>2. DOMAIN d = {KeyIn(v, s) : s \in S \cup Ts}
  BY <1>1 DEF Nearest
<1>3. ASSUME NEW k \in DOMAIN d
      PROVE  /\ d[k] \in S \cup Ts /\ KeyIn(v, d[k]) = k
             /\ \A t \in S \cup Ts : KeyIn(v, t) = k => t = d[k] \/ NearerPlace(v, d[k].place, t.place)
  <2>1. CASE k \in DOMAIN new
    <3>1. d[k] = new[k] /\ d[k] \in Ts /\ KeyIn(v, d[k]) = k
      BY <1>1, <2>1 DEF Nearest
    <3> QED BY <2>1, <3>1 DEF Nearest
  <2>2. CASE k \notin DOMAIN new
    <3>1. d[k] = old[k] /\ k \in DOMAIN old
      BY <1>1, <2>2
    <3>2. \A t \in Ts : KeyIn(v, t) # k
      BY <2>2 DEF Nearest
    <3> QED BY <3>1, <3>2 DEF Nearest
  <2> QED BY <2>1, <2>2
<1> QED BY <1>2, <1>3 DEF Nearest, d

\* An empty dictionary holds the nearest of nothing.
LEMMA NothingNearest == \A v : Nearest(v, NoSkills, {})
BY DEF Nearest, NoSkills

\* The files of one place, each with a key of its own.
OneOfAKey(v, Ts) == \A s, t \in Ts : KeyIn(v, s) = KeyIn(v, t) => s = t

\* The dictionary of one place holds its skills.
LEMMA AsDictNearest ==
  ASSUME NEW Ts, OneOfAKey(skillServer, Ts)
  PROVE  Nearest(skillServer, AsDict(Ts), Ts)
<1> DEFINE v == skillServer
           d == AsDict(Ts)
<1>1. \A s : Key(s) = KeyIn(v, s)
  BY DEF Key, KeyIn
<1>2. DOMAIN d = {KeyIn(v, s) : s \in Ts}
  BY <1>1 DEF AsDict
<1>3. ASSUME NEW k \in DOMAIN d PROVE d[k] \in Ts /\ KeyIn(v, d[k]) = k
  <2>1. d[k] = CHOOSE s \in Ts : Key(s) = k
    BY <1>2 DEF AsDict
  <2>2. \E s \in Ts : Key(s) = k
    BY <1>1, <1>2
  <2> QED BY <1>1, <2>1, <2>2
<1> QED BY <1>2, <1>3 DEF Nearest, OneOfAKey

\* What loading the skills of a place does.
PlaceLoaded(v, p, skills) ==
  /\ skillServer = v /\ skillServer' = v /\ recalled = NotAsked /\ recalled' = NotAsked
  /\ p \in PlacesOf(v) /\ DOMAIN found' \subseteq PlacesOf(v)
  /\ \A q \in DOMAIN found' : \A s \in found'[q] : s.place = q
  /\ \A places : FoundIn(found', places) = FoundIn(found, places) \cup (IF p \in places THEN skills ELSE {})
  /\ (p \in HostPlaces \/ v = "v0") => \A t \in FoundIn(found, PlacesOf(v)), s \in skills : NearerPlace(v, s.place, t.place)
  /\ (v = "v1" /\ p \notin HostPlaces) =>
        \A t \in FoundIn(found, PlacesOf(v) \ HostPlaces), s \in skills : NearerPlace(v, t.place, s.place)
  /\ Len(placesLeft) > 1 => \E n \in 0..5 : placesLeft' = LeftAt(v, n) /\ DOMAIN found' = {Places[v][i] : i \in 1..n}
  /\ p \in HostPlaces \cup {"org"} => Len(placesLeft) > 1
  /\ (v = "v1" /\ p = "sandbox") => DOMAIN found = {}

\* A place is loaded.
LEMMA PlaceLoads ==
  ASSUME SkillInv, NEW v \in {"v0", "v1"}, NEW p, NEW skills, AtPlace(v, p), Gives(p, skills), \A s \in skills : s.place = p
  PROVE  PlaceLoaded(v, p, skills)
<1>1. /\ skillServer = v /\ skillState = "loading" /\ placesLeft # <<>> /\ Head(placesLeft) = p
      /\ placesLeft' = Tail(placesLeft) /\ UNCHANGED <<skillServer, recalled>>
      /\ found' = [q \in DOMAIN found \cup {p} |-> IF q = p THEN skills ELSE found[q]]
  BY DEF AtPlace, Gives
<1>2. PICK n \in 0..5 : placesLeft = LeftAt(v, n) /\ DOMAIN found = {Places[v][i] : i \in 1..n}
  BY <1>1 DEF SkillInv
<1>3. p = Places[v][n + 1] /\ Len(placesLeft) = 6 - n /\ (n < 5 => placesLeft' = LeftAt(v, n + 1))
  BY <1>1, <1>2, LeftGoesOn
<1>4. /\ p \in PlacesOf(v) /\ p \notin DOMAIN found
      /\ \A q \in DOMAIN found : q \in PlacesOf(v) /\ q # p
      /\ \A q \in DOMAIN found : (p \in HostPlaces \/ v = "v0") => NearerPlace(v, p, q)
      /\ (v = "v1" /\ p \notin HostPlaces) => \A q \in DOMAIN found : q \in HostPlaces \/ NearerPlace(v, q, p)
      /\ (v = "v1" /\ p = "sandbox") => n = 0
      /\ p \in HostPlaces \cup {"org"} => n < 5
  BY <1>2, <1>3, PlacesInOrder
<1>5. /\ DOMAIN found' = DOMAIN found \cup {p} /\ found'[p] = skills
      /\ \A q \in DOMAIN found : found'[q] = found[q]
  BY <1>1, <1>4
<1>6. \A q \in DOMAIN found : \A s \in found[q] : s.place = q
  BY DEF SkillInv
<1>7. ASSUME NEW places PROVE FoundIn(found', places) = FoundIn(found, places) \cup (IF p \in places THEN skills ELSE {})
  <2>1. DOMAIN found' \cap places = (DOMAIN found \cap places) \cup (IF p \in places THEN {p} ELSE {})
    BY <1>5
  <2> QED BY <1>4, <1>5, <2>1 DEF FoundIn
<1>8. Len(placesLeft) > 1 => n < 5
  BY <1>3
<1>9. ASSUME n < 5 PROVE \E m \in 0..5 : placesLeft' = LeftAt(v, m) /\ DOMAIN found' = {Places[v][i] : i \in 1..m}
  <2>1. n + 1 \in 0..5 /\ 1 .. (n + 1) = (1..n) \cup {n + 1}
    BY <1>9
  <2>2. {Places[v][i] : i \in 1 .. (n + 1)} = {Places[v][i] : i \in 1..n} \cup {Places[v][n + 1]}
    BY <2>1
  <2>3. DOMAIN found' = {Places[v][i] : i \in 1 .. (n + 1)}
    BY <1>2, <1>3, <1>5, <2>2
  <2> QED BY <1>3, <1>9, <2>1, <2>3
<1>10. n = 0 => DOMAIN found = {}
  BY <1>2
<1>11. n < 5 => Len(placesLeft) > 1
  BY <1>3
<1>12. recalled = NotAsked
  BY <1>1 DEF SkillInv
<1>13. \A places : \A t \in FoundIn(found, places) : \E q \in DOMAIN found \cap places : t \in found[q] /\ t.place = q
  BY <1>6 DEF FoundIn
<1>14. /\ (p \in HostPlaces \/ v = "v0") => \A t \in FoundIn(found, PlacesOf(v)), s \in skills : NearerPlace(v, s.place, t.place)
       /\ (v = "v1" /\ p \notin HostPlaces) =>
               \A t \in FoundIn(found, PlacesOf(v) \ HostPlaces), s \in skills : NearerPlace(v, t.place, s.place)
  <2>1. ASSUME p \in HostPlaces \/ v = "v0", NEW t \in FoundIn(found, PlacesOf(v)), NEW s \in skills
        PROVE  NearerPlace(v, s.place, t.place)
    <3>1. t.place \in DOMAIN found /\ s.place = p
      BY <1>13
    <3> QED BY <1>4, <2>1, <3>1
  <2>2. ASSUME v = "v1", p \notin HostPlaces, NEW t \in FoundIn(found, PlacesOf(v) \ HostPlaces), NEW s \in skills
        PROVE  NearerPlace(v, t.place, s.place)
    <3>1. t.place \in DOMAIN found /\ t.place \notin HostPlaces /\ s.place = p
      BY <1>13
    <3> QED BY <1>4, <2>2, <3>1
  <2> QED BY <2>1, <2>2
<1>15. \A q \in DOMAIN found' : \A s \in found'[q] : s.place = q
  BY <1>4, <1>5, <1>6
<1>16. DOMAIN found' \subseteq PlacesOf(v)
  BY <1>4, <1>5
<1> QED BY <1>1, <1>4, <1>7, <1>8, <1>9, <1>10, <1>11, <1>12, <1>14, <1>15, <1>16 DEF PlaceLoaded

\* Before a message is answered nothing was answered wrongly.
LEMMA NothingRecalled == recalled = NotAsked => RecallsNearest
BY DEF RecallsNearest, NotAsked

\* A place of the host: its skills go over those that are there.
LEMMA HostLoads ==
  ASSUME SkillInv, NEW v \in {"v0", "v1"}, NEW p \in HostPlaces, NEW skills, AtPlace(v, p), Gives(p, skills),
         \A s \in skills : s.place = p, OneOfAKey(skillServer, skills),
         \/ active' = Over(active, AsDict(skills))
         \/ v = "v1" /\ p = "sandbox" /\ active' = AsDict(skills),
         UNCHANGED <<workspace, skillState>>
  PROVE  SkillInv'
<1>1. skillState = "loading" /\ skillServer = v
  BY DEF AtPlace
<1>2. /\ Nearest(v, active, FoundIn(found, HostPlaces))
      /\ Nearest(v, workspace, FoundIn(found, PlacesOf(v) \ HostPlaces))
  BY <1>1 DEF SkillInv
<1>3. Nearest(v, AsDict(skills), skills)
  BY <1>1, AsDictNearest
<1>4. /\ \A places : FoundIn(found', places) = FoundIn(found, places) \cup (IF p \in places THEN skills ELSE {})
      /\ \A t \in FoundIn(found, PlacesOf(v)), s \in skills : NearerPlace(v, s.place, t.place)
      /\ (v = "v1" /\ p = "sandbox") => DOMAIN found = {}
      /\ \E n \in 0..5 : placesLeft' = LeftAt(v, n) /\ DOMAIN found' = {Places[v][i] : i \in 1..n}
      /\ skillServer' = v /\ recalled' = NotAsked /\ DOMAIN found' \subseteq PlacesOf(v)
      /\ \A q \in DOMAIN found' : \A s \in found'[q] : s.place = q
  <2>1. PlaceLoaded(v, p, skills)
    BY PlaceLoads
  <2> QED BY <2>1 DEF PlaceLoaded
<1>5. /\ FoundIn(found', HostPlaces) = FoundIn(found, HostPlaces) \cup skills
      /\ FoundIn(found', PlacesOf(v) \ HostPlaces) = FoundIn(found, PlacesOf(v) \ HostPlaces)
  BY <1>4
<1>6. FoundIn(found, HostPlaces) \subseteq FoundIn(found, PlacesOf(v))
  BY <1>1 DEF FoundIn, SkillInv
<1>7. Nearest(v, active', FoundIn(found', HostPlaces))
  <2>1. CASE active' = Over(active, AsDict(skills))
    <3>1. Nearest(v, Over(active, AsDict(skills)), FoundIn(found, HostPlaces) \cup skills)
      BY <1>2, <1>3, <1>4, <1>6, OverNearest
    <3> QED BY <1>5, <2>1, <3>1
  <2>2. CASE v = "v1" /\ p = "sandbox" /\ active' = AsDict(skills)
    <3>1. FoundIn(found, HostPlaces) = {}
      BY <1>4, <2>2 DEF FoundIn
    <3> QED BY <1>3, <1>5, <2>2, <3>1
  <2> QED BY <2>1, <2>2
<1>8. Nearest(v, workspace', FoundIn(found', PlacesOf(v) \ HostPlaces))
  BY <1>2, <1>5
<1>9. RecallsNearest'
  BY <1>4 DEF RecallsNearest, NotAsked
<1> QED BY <1>1, <1>4, <1>7, <1>8, <1>9 DEF SkillInv

\* A place of the workspace: what is merged of it is put over the host's at the end.
LEMMA WorkspaceLoads ==
  ASSUME SkillInv, NEW v \in {"v0", "v1"}, NEW p, p \notin HostPlaces, NEW skills, AtPlace(v, p), Gives(p, skills),
         \A s \in skills : s.place = p, OneOfAKey(skillServer, skills), NEW merged,
         merged = IF v = "v0" THEN Over(workspace, AsDict(skills)) ELSE Over(AsDict(skills), workspace),
         IF Len(placesLeft) > 1 THEN workspace' = merged /\ UNCHANGED <<active, skillState>>
         ELSE active' = Over(active, merged) /\ workspace' = NoSkills /\ skillState' = "ready"
  PROVE  SkillInv'
<1> DEFINE W == PlacesOf(v) \ HostPlaces
<1>1. skillState = "loading" /\ skillServer = v
  BY DEF AtPlace
<1>2. /\ Nearest(v, active, FoundIn(found, HostPlaces))
      /\ Nearest(v, workspace, FoundIn(found, W))
  BY <1>1 DEF SkillInv
<1>3. Nearest(v, AsDict(skills), skills)
  BY <1>1, AsDictNearest
<1>4. /\ \A places : FoundIn(found', places) = FoundIn(found, places) \cup (IF p \in places THEN skills ELSE {})
      /\ v = "v0" => \A t \in FoundIn(found, PlacesOf(v)), s \in skills : NearerPlace(v, s.place, t.place)
      /\ v = "v1" => \A t \in FoundIn(found, W), s \in skills : NearerPlace(v, t.place, s.place)
      /\ Len(placesLeft) > 1 => \E n \in 0..5 : placesLeft' = LeftAt(v, n) /\ DOMAIN found' = {Places[v][i] : i \in 1..n}
      /\ skillServer' = v /\ recalled' = NotAsked /\ DOMAIN found' \subseteq PlacesOf(v) /\ p \in PlacesOf(v)
      /\ \A q \in DOMAIN found' : \A s \in found'[q] : s.place = q
  <2>1. PlaceLoaded(v, p, skills)
    BY PlaceLoads
  <2> QED BY <2>1 DEF PlaceLoaded
<1>5. /\ FoundIn(found', HostPlaces) = FoundIn(found, HostPlaces)
      /\ FoundIn(found', W) = FoundIn(found, W) \cup skills
  BY <1>4
<1>6. Nearest(v, merged, FoundIn(found', W))
  <2>1. CASE v = "v0"
    <3>1. \A t \in FoundIn(found, W), s \in skills : NearerPlace(v, s.place, t.place)
      BY <1>4, <2>1 DEF FoundIn
    <3>2. Nearest(v, Over(workspace, AsDict(skills)), FoundIn(found, W) \cup skills)
      BY <1>2, <1>3, <3>1, OverNearest
    <3> QED BY <1>5, <2>1, <3>2
  <2>2. CASE v = "v1"
    <3>1. \A s \in skills, t \in FoundIn(found, W) : NearerPlace(v, t.place, s.place)
      BY <1>4, <2>2
    <3>2. Nearest(v, Over(AsDict(skills), workspace), skills \cup FoundIn(found, W))
      BY <1>2, <1>3, <3>1, OverNearest
    <3>3. skills \cup FoundIn(found, W) = FoundIn(found', W)
      BY <1>5
    <3> QED BY <2>2, <3>2, <3>3
  <2> QED BY <2>1, <2>2
<1>7. RecallsNearest'
  BY <1>4 DEF RecallsNearest, NotAsked
<1>8. CASE Len(placesLeft) > 1
  <2>1. workspace' = merged /\ active' = active /\ skillState' = "loading"
    BY <1>1, <1>8
  <2>2. Nearest(v, workspace', FoundIn(found', W)) /\ Nearest(v, active', FoundIn(found', HostPlaces))
    BY <1>2, <1>5, <1>6, <2>1
  <2> QED BY <1>4, <1>7, <1>8, <2>1, <2>2 DEF SkillInv
<1>9. CASE ~(Len(placesLeft) > 1)
  <2>1. active' = Over(active, merged) /\ skillState' = "ready"
    BY <1>9
  <2>2. /\ \A t \in FoundIn(found', HostPlaces) : t.place \in HostPlaces /\ t.place \in PlacesOf(v)
        /\ \A t \in FoundIn(found', W) : t.place \in W
    BY <1>4 DEF FoundIn
  <2>3. \A s \in FoundIn(found', HostPlaces), t \in FoundIn(found', W) : NearerPlace(v, t.place, s.place)
    <3> SUFFICES ASSUME NEW s \in FoundIn(found', HostPlaces), NEW t \in FoundIn(found', W)
                 PROVE  NearerPlace(v, t.place, s.place)
      OBVIOUS
    <3>1. s.place \in HostPlaces \cap PlacesOf(v) /\ t.place \in W
      BY <2>2
    <3> QED BY <3>1 DEF HostPlaces, PlacesOf, NearerPlace
  <2>4. AllFound' = FoundIn(found', HostPlaces) \cup FoundIn(found', W)
    BY <1>4 DEF AllFound, FoundIn
  <2>5. Nearest(v, active', AllFound')
    BY <1>2, <1>5, <1>6, <2>1, <2>3, <2>4, OverNearest
  <2> QED BY <1>4, <1>7, <2>1, <2>5 DEF SkillInv
<1> QED BY <1>8, <1>9

\* A directory that is given up: no session starts.
LEMMA FailsToLoad ==
  ASSUME SkillInv, NEW v \in {"v0", "v1"}, NEW p, AtPlace(v, p), Gives(p, {}), skillState' = "failed"
  PROVE  SkillInv'
<1>1. /\ skillServer' = v /\ recalled' = NotAsked /\ DOMAIN found' \subseteq PlacesOf(v)
      /\ \A q \in DOMAIN found' : \A s \in found'[q] : s.place = q
  <2>1. PlaceLoaded(v, p, {})
    BY PlaceLoads
  <2> QED BY <2>1 DEF PlaceLoaded
<1>2. RecallsNearest'
  BY <1>1 DEF RecallsNearest, NotAsked
<1> QED BY <1>1, <1>2 DEF SkillInv

\* The invariant of the skills holds at first.
LEMMA SkillsStart == SkillsInit => SkillInv
<1> SUFFICES ASSUME SkillsInit PROVE SkillInv
  OBVIOUS
<1>1. /\ skillServer \in {"v0", "v1"} /\ placesLeft = Places[skillServer] /\ DOMAIN found = {}
      /\ active = NoSkills /\ workspace = NoSkills /\ skillState = "loading" /\ recalled = NotAsked
  BY DEF SkillsInit
<1>2. \A places : FoundIn(found, places) = {}
  BY <1>1 DEF FoundIn
<1>3. placesLeft = LeftAt(skillServer, 0)
  <2>1. placesLeft \in Seq(AllPlaces) /\ Len(placesLeft) = 6
    BY <1>1, PlacesAre
  <2>2. SubSeq(placesLeft, 0 + 1, 6) = placesLeft
    BY <2>1
  <2> QED BY <1>1, <2>2 DEF LeftAt
<1>4. \E n \in 0..5 : placesLeft = LeftAt(skillServer, n) /\ DOMAIN found = {Places[skillServer][i] : i \in 1..n}
  <2>1. DOMAIN found = {Places[skillServer][i] : i \in 1..0}
    BY <1>1
  <2> QED BY <1>3, <2>1
<1>5. RecallsNearest
  BY <1>1, NothingRecalled
<1> QED BY <1>1, <1>2, <1>4, <1>5, NothingNearest DEF SkillInv

\* The files of a directory have names of their own, and so have what is made of them.
LEMMA FilesDiffer ==
  ASSUME NEW files \in SkillDirs, NEW p
  PROVE  /\ OneOfAKey(skillServer, LoadDir(files, p)) /\ \A s \in LoadDir(files, p) : s.place = p
         /\ \A read \in SUBSET files : /\ OneOfAKey(skillServer, {Load(f, p) : f \in read})
                                       /\ \A s \in {Load(f, p) : f \in read} : s.place = p
<1> DEFINE v == skillServer
           own == {Load(f, p) : f \in files}
<1>1. \A f \in files : Load(f, p).name = f.name /\ Load(f, p).place = p
  BY DEF Load
<1>2. \A s, t : KeyIn(v, s) = KeyIn(v, t) => s.name = t.name
  BY DEF KeyIn
<1>3. \A s, t \in own : KeyIn(v, s) = KeyIn(v, t) => s = t
  <2> SUFFICES ASSUME NEW f \in files, NEW g \in files, KeyIn(v, Load(f, p)) = KeyIn(v, Load(g, p)) PROVE f = g
    OBVIOUS
  <2>1. Load(f, p).name = Load(g, p).name
    BY <1>2
  <2> QED BY <1>1, <2>1, SkillDirsAssumption
<1>4. \A s \in own : s.place = p
  BY <1>1
<1>5. \A s, t \in SpecialFile(p) : s = t /\ s.place = p
  <2>1. SpecialFile(p) \subseteq {Text("agents", p)}
    <3>1. CASE p = "home" /\ "home" \in roots
      BY <3>1 DEF SpecialFile
    <3>2. CASE p \in {"system", "org", "repo"} /\ "server" \in roots
      BY <3>2 DEF SpecialFile
    <3>3. CASE ~(p = "home" /\ "home" \in roots) /\ ~(p \in {"system", "org", "repo"} /\ "server" \in roots)
      BY <3>3 DEF SpecialFile
    <3> QED BY <3>1, <3>2, <3>3
  <2>2. Text("agents", p).place = p
    BY DEF Text
  <2>3. \A s \in SpecialFile(p) : s = Text("agents", p)
    BY <2>1
  <2> QED BY <2>2, <2>3
<1>6. \A s : Key(s) = KeyIn(v, s)
  BY DEF Key, KeyIn
<1>7. OneOfAKey(v, LoadDir(files, p)) /\ \A s \in LoadDir(files, p) : s.place = p
  BY <1>3, <1>4, <1>5, <1>6 DEF OneOfAKey, LoadDir
<1>8. ASSUME NEW read \in SUBSET files
      PROVE  OneOfAKey(v, {Load(f, p) : f \in read}) /\ \A s \in {Load(f, p) : f \in read} : s.place = p
  BY <1>3, <1>4 DEF OneOfAKey
<1> QED BY <1>7, <1>8

\* So have those of a part of a directory's files.
LEMMA PartDiffers ==
  ASSUME NEW files \in SkillDirs, NEW p, NEW read, read \subseteq files
  PROVE  OneOfAKey(skillServer, {Load(f, p) : f \in read}) /\ \A s \in {Load(f, p) : f \in read} : s.place = p
<1>1. \A more \in SUBSET files : /\ OneOfAKey(skillServer, {Load(f, p) : f \in more})
                                /\ \A s \in {Load(f, p) : f \in more} : s.place = p
  BY FilesDiffer, ZenonT(60)
<1> QED BY <1>1

\* One skill or none.
LEMMA OneText == \A v, name, p : OneOfAKey(v, {Text(name, p)}) /\ OneOfAKey(v, {}) /\ Text(name, p).place = p
BY DEF OneOfAKey, Text

\* It is kept by the load of the installation's directory,
LEMMA LoadsGlobalKeeps == ASSUME SkillInv, NEW files \in SkillDirs, LoadsGlobal(files) PROVE SkillInv'
<1>1. CASE HasBadFile(files)
  BY <1>1, FailsToLoad DEF LoadsGlobal
<1>2. CASE ~HasBadFile(files)
  <2>1. /\ AtPlace("v0", "global") /\ Gives("global", LoadDir(files, "global"))
        /\ active' = Over(active, AsDict(LoadDir(files, "global"))) /\ UNCHANGED <<workspace, skillState>>
    BY <1>2 DEF LoadsGlobal
  <2> QED BY <2>1, FilesDiffer, HostLoads DEF HostPlaces
<1> QED BY <1>1, <1>2

\* of the home's,
LEMMA LoadsHomeKeeps == ASSUME SkillInv, NEW files \in SkillDirs, LoadsHome(files) PROVE SkillInv'
<1> DEFINE skills == IF HasBadFile(files) THEN {} ELSE LoadDir(files, "home")
<1>1. /\ AtPlace("v0", "home") /\ Gives("home", skills)
      /\ active' = Over(active, AsDict(skills)) /\ UNCHANGED <<workspace, skillState>>
  BY DEF LoadsHome
<1>2. OneOfAKey(skillServer, skills) /\ \A s \in skills : s.place = "home"
  BY FilesDiffer, OneText
<1> HIDE DEF skills
<1> QED BY <1>1, <1>2, HostLoads DEF HostPlaces

\* What the older server reads in the sandbox.
LEMMA RemembersKeeps ==
  ASSUME SkillInv, NEW p, p \notin HostPlaces, NEW skills, AtPlace("v0", p), Gives(p, skills),
         \A s \in skills : s.place = p, OneOfAKey(skillServer, skills), Remembers(AsDict(skills))
  PROVE  SkillInv'
<1> DEFINE merged == Over(workspace, AsDict(skills))
<1>1. IF Len(placesLeft) > 1 THEN workspace' = merged /\ UNCHANGED <<active, skillState>>
      ELSE active' = Over(active, merged) /\ workspace' = NoSkills /\ skillState' = "ready"
  BY DEF Remembers
<1>2. merged = IF "v0" = "v0" THEN Over(workspace, AsDict(skills)) ELSE Over(AsDict(skills), workspace)
  OBVIOUS
<1> HIDE DEF merged
<1> QED BY <1>1, <1>2, WorkspaceLoads

\* of a directory of the sandbox,
LEMMA LoadsFromSandboxKeeps ==
  ASSUME SkillInv, NEW files \in SkillDirs, NEW p \in {"system", "org", "repo"}, LoadsFromSandbox(p, files)
  PROVE  SkillInv'
<1> DEFINE skills == IF files = {} \/ HasBadFile(files) THEN {} ELSE LoadDir(files, p)
<1>1. AtPlace("v0", p) /\ Gives(p, skills) /\ Remembers(AsDict(skills)) /\ p \notin HostPlaces
  BY DEF LoadsFromSandbox, HostPlaces
<1>2. OneOfAKey(skillServer, skills) /\ \A s \in skills : s.place = p
  BY FilesDiffer, OneText
<1> HIDE DEF skills
<1> QED BY <1>1, <1>2, RemembersKeeps

\* of the one file of older repositories,
LEMMA LoadsLegacyKeeps == ASSUME SkillInv, NEW there, LoadsLegacy(there) PROVE SkillInv'
<1> DEFINE skills == IF there THEN {Text("repo_legacy", "legacy")} ELSE {}
<1>1. AtPlace("v0", "legacy") /\ Gives("legacy", skills) /\ Remembers(AsDict(skills)) /\ "legacy" \notin HostPlaces
  BY DEF LoadsLegacy, HostPlaces
<1>2. OneOfAKey(skillServer, skills) /\ \A s \in skills : s.place = "legacy"
  BY OneText
<1> HIDE DEF skills
<1> QED BY <1>1, <1>2, RemembersKeeps

\* by a sandbox that does not answer,
LEMMA SandboxSilentKeeps == ASSUME SkillInv, SandboxSilent PROVE SkillInv'
<1> DEFINE p == Head(placesLeft)
<1>1. /\ AtPlace("v0", p) /\ Gives(p, {}) /\ p \notin HostPlaces /\ UNCHANGED <<active, workspace>>
      /\ skillState' = (IF p = "org" THEN skillState ELSE "failed")
  BY DEF SandboxSilent, AtPlace, HostPlaces
<1> HIDE DEF p
<1>2. CASE p # "org"
  BY <1>1, <1>2, FailsToLoad
<1>3. CASE p = "org"
  <2> DEFINE W == PlacesOf("v0") \ HostPlaces
  <2>1. PlaceLoaded("v0", p, {})
    BY <1>1, PlaceLoads
  <2>2. /\ \A places : FoundIn(found', places) = FoundIn(found, places)
        /\ \E n \in 0..5 : placesLeft' = LeftAt("v0", n) /\ DOMAIN found' = {Places["v0"][i] : i \in 1..n}
        /\ skillServer = "v0" /\ skillServer' = "v0" /\ recalled' = NotAsked /\ DOMAIN found' \subseteq PlacesOf("v0")
        /\ \A q \in DOMAIN found' : \A s \in found'[q] : s.place = q
    BY <1>3, <2>1 DEF PlaceLoaded
  <2>3. skillState = "loading" /\ skillState' = "loading"
    BY <1>1, <1>3 DEF AtPlace
  <2>4. /\ Nearest("v0", active', FoundIn(found', HostPlaces))
        /\ Nearest("v0", workspace', FoundIn(found', W))
    BY <1>1, <2>2, <2>3 DEF SkillInv
  <2>5. RecallsNearest'
    BY <2>2 DEF RecallsNearest, NotAsked
  <2> QED BY <2>2, <2>3, <2>4, <2>5 DEF SkillInv
<1> QED BY <1>2, <1>3

\* by the newer server's load of the exposed addresses,
LEMMA LoadsHostsKeeps == ASSUME SkillInv, NEW exposed, LoadsHosts(exposed) PROVE SkillInv'
<1> DEFINE skills == IF exposed THEN {Text("work_hosts", "sandbox")} ELSE {}
<1>1. AtPlace("v1", "sandbox") /\ Gives("sandbox", skills) /\ active' = AsDict(skills) /\ UNCHANGED <<workspace, skillState>>
  BY DEF LoadsHosts
<1>2. OneOfAKey(skillServer, skills) /\ \A s \in skills : s.place = "sandbox"
  BY OneText
<1> HIDE DEF skills
<1> QED BY <1>1, <1>2, HostLoads DEF HostPlaces

\* of the directories of the host,
LEMMA LoadsSkillFilesKeeps ==
  ASSUME SkillInv, NEW files \in SkillDirs, NEW p \in {"global", "home"}, LoadsSkillFiles(p, files)
  PROVE  SkillInv'
<1> DEFINE skills == {Load(f, p) : f \in GoodFiles(files)}
<1>1. AtPlace("v1", p) /\ Gives(p, skills) /\ active' = Over(active, AsDict(skills)) /\ UNCHANGED <<workspace, skillState>>
  BY DEF LoadsSkillFiles
<1>2. OneOfAKey(skillServer, skills) /\ \A s \in skills : s.place = p
  <2>1. GoodFiles(files) \subseteq files
    BY DEF GoodFiles
  <2> QED BY <2>1, PartDiffers
<1> HIDE DEF skills
<1> QED BY <1>1, <1>2, HostLoads DEF HostPlaces

\* What the newer server reads of the repository.
LEMMA ReadsRepoKeeps ==
  ASSUME SkillInv, NEW p \in RepoPlaces, NEW skills, ReadsRepo(p, skills),
         \A s \in skills : s.place = p, OneOfAKey(skillServer, skills)
  PROVE  SkillInv'
<1> DEFINE merged == Over(AsDict(skills), workspace)
<1>1. /\ AtPlace("v1", p) /\ Gives(p, skills) /\ p \notin HostPlaces
      /\ IF Len(placesLeft) > 1 THEN workspace' = merged /\ UNCHANGED <<active, skillState>>
         ELSE active' = Over(active, merged) /\ workspace' = NoSkills /\ skillState' = "ready"
  BY DEF ReadsRepo, MergeRepoSkills, RepoPlaces, HostPlaces
<1>2. merged = IF "v1" = "v0" THEN Over(workspace, AsDict(skills)) ELSE Over(AsDict(skills), workspace)
  OBVIOUS
<1> HIDE DEF merged
<1> QED BY <1>1, <1>2, WorkspaceLoads

\* of the repository's own file
LEMMA LoadsSpecialFilesKeeps == ASSUME SkillInv, NEW read, LoadsSpecialFiles(read) PROVE SkillInv'
<1> DEFINE skills == IF read /\ "repo" \in roots THEN {Text("agents", "special")} ELSE {}
<1>1. ReadsRepo("special", skills)
  BY DEF LoadsSpecialFiles
<1>2. OneOfAKey(skillServer, skills) /\ \A s \in skills : s.place = "special"
  BY OneText
<1> HIDE DEF skills
<1> QED BY <1>1, <1>2, ReadsRepoKeeps DEF RepoPlaces

\* and of its directories.
LEMMA LoadsRepoDirKeeps ==
  ASSUME SkillInv, NEW files \in SkillDirs, NEW p \in {"skills", "microagents"}, LoadsRepoDir(p, files)
  PROVE  SkillInv'
<1>1. PICK read \in SUBSET GoodFiles(files) : ReadsRepo(p, {Load(f, p) : f \in read})
  BY DEF LoadsRepoDir
<1> DEFINE skills == {Load(f, p) : f \in read}
<1>2. OneOfAKey(skillServer, skills) /\ \A s \in skills : s.place = p
  <2>1. read \subseteq files
    BY DEF GoodFiles
  <2> QED BY <2>1, PartDiffers
<1>3. ReadsRepo(p, skills)
  BY <1>1
<1> HIDE DEF skills
<1> QED BY <1>2, <1>3, ReadsRepoKeeps DEF RepoPlaces

\* What is found at a place of the server.
LEMMA FoundHere == SkillInv => \A s \in AllFound : s.place \in PlacesOf(skillServer)
BY DEF SkillInv, AllFound

\* A skill of a dictionary that holds the nearest has none of its key nearer.
LEMMA NoneNearerThere ==
  ASSUME SkillInv, Nearest(skillServer, active, AllFound), NEW k \in DOMAIN active, NEW t \in AllFound, KeyIn(skillServer, t) = k
  PROVE  ~Nearer(t, active[k])
<1> DEFINE s == active[k]
<1>1. s \in AllFound /\ (t = s \/ NearerPlace(skillServer, s.place, t.place))
  BY DEF Nearest
<1>2. s.place \in PlacesOf(skillServer) /\ t.place \in PlacesOf(skillServer) /\ skillServer \in {"v0", "v1"}
  BY <1>1, FoundHere DEF SkillInv
<1>3. Nearer(t, s) <=> NearerPlace(skillServer, t.place, s.place)
  BY <1>2, NearnessIsOrder DEF Nearer
<1>4. \A p, q \in PlacesOf(skillServer) : NearerPlace(skillServer, p, q) => ~NearerPlace(skillServer, q, p) /\ p # q
  BY <1>2 DEF PlacesOf, NearerPlace
<1> QED BY <1>1, <1>2, <1>3, <1>4

\* An answer has the nearest skills that the message asks for.
LEMMA RecallsSkillsKeeps == ASSUME SkillInv, NEW words, NEW first, RecallsSkills(words, first) PROVE SkillInv'
<1>1. /\ skillServer = "v0" /\ skillState = "ready"
      /\ UNCHANGED <<skillServer, roots, placesLeft, found, active, workspace, skillState>>
      /\ recalled' = [asked |-> words, skills |-> Triggered(words) \cup
                        (IF first THEN {active[k] : k \in {j \in DOMAIN active : j[1] = "repo"}} ELSE {})]
  BY DEF RecallsSkills
<1>2. Nearest("v0", active, AllFound)
  BY <1>1 DEF SkillInv
<1>3. \A s \in recalled'.skills : \E k \in DOMAIN active : s = active[k] /\ (k[1] = "repo" \/ s.trigger \in words)
  BY <1>1 DEF Triggered
<1>4. recalled'.asked = words
  BY <1>1
<1>5. ASSUME NEW s \in recalled'.skills
      PROVE  /\ s.kind = "repo" \/ s.trigger \in words
             /\ ~\E t \in AllFound : t.name = s.name /\ (t.kind = "repo" <=> s.kind = "repo") /\ Nearer(t, s)
  <2>1. PICK k \in DOMAIN active : s = active[k] /\ (k[1] = "repo" \/ s.trigger \in words)
    BY <1>3
  <2>2. KeyIn("v0", s) = k
    BY <1>2, <2>1 DEF Nearest
  <2>3. k[1] = "repo" => s.kind = "repo"
    BY <2>2 DEF KeyIn
  <2>4. ASSUME NEW t \in AllFound, t.name = s.name, t.kind = "repo" <=> s.kind = "repo" PROVE ~Nearer(t, s)
    <3>1. KeyIn("v0", t) = k
      BY <2>2, <2>4 DEF KeyIn
    <3> QED BY <1>1, <1>2, <2>1, <3>1, NoneNearerThere
  <2> QED BY <2>1, <2>3, <2>4
<1>6. (AllFound' = AllFound) /\ (\A s, t : Nearer(t, s)' = Nearer(t, s))
  BY <1>1 DEF AllFound, Nearer, Nearness
<1>7. RecallsNearest'
  BY <1>4, <1>5, <1>6 DEF RecallsNearest
<1> QED BY <1>1, <1>6, <1>7 DEF SkillInv

\* Every step keeps the invariant.
LEMMA SkillSteps == SkillInv /\ SkillsNext => SkillInv'
BY LoadsGlobalKeeps, LoadsHomeKeeps, LoadsFromSandboxKeeps, LoadsSkillFilesKeeps, LoadsRepoDirKeeps, LoadsLegacyKeeps,
   LoadsHostsKeeps, LoadsSpecialFilesKeeps, SandboxSilentKeeps, RecallsSkillsKeeps DEF SkillsNext

\* So does a step of another part.
LEMMA SkillFrame == SkillInv /\ UNCHANGED skillVars => SkillInv'
<1> SUFFICES ASSUME SkillInv, UNCHANGED skillVars PROVE SkillInv'
  OBVIOUS
<1>1. UNCHANGED <<skillServer, placesLeft, found, active, workspace, skillState, recalled>>
  BY DEF skillVars
<1>2. AllFound' = AllFound /\ \A s, t : Nearer(s, t)' <=> Nearer(s, t)
  BY <1>1 DEF AllFound, Nearer, Nearness
<1>3. RecallsNearest'
  BY <1>1, <1>2 DEF SkillInv, RecallsNearest
<1> QED BY <1>1, <1>2, <1>3 DEF SkillInv

\* The invariant gives what the run checks.
LEMMA SkillsTell == SkillInv => SkillsKept
<1> SUFFICES ASSUME SkillInv, skillState = "ready"
             PROVE  {active[k] : k \in DOMAIN active} = {s \in AllFound : ~\E t \in AllFound : Key(t) = Key(s) /\ Nearer(t, s)}
  BY DEF SkillsKept, NearestWins, SkillInv
<1> DEFINE v == skillServer
<1>1. Nearest(v, active, AllFound)
  BY DEF SkillInv
<1>2. \A s : Key(s) = KeyIn(v, s)
  BY DEF Key, KeyIn
<1>3. ASSUME NEW k \in DOMAIN active
      PROVE  active[k] \in AllFound /\ ~\E t \in AllFound : Key(t) = Key(active[k]) /\ Nearer(t, active[k])
  <2>1. active[k] \in AllFound /\ KeyIn(v, active[k]) = k
    BY <1>1 DEF Nearest
  <2> QED BY <1>1, <1>2, <2>1, NoneNearerThere
<1>4. ASSUME NEW s \in AllFound, ~\E t \in AllFound : Key(t) = Key(s) /\ Nearer(t, s)
      PROVE  \E k \in DOMAIN active : s = active[k]
  <2> DEFINE k == KeyIn(v, s)
  <2>1. /\ k \in DOMAIN active /\ active[k] \in AllFound /\ KeyIn(v, active[k]) = k
        /\ s = active[k] \/ NearerPlace(v, active[k].place, s.place)
    BY <1>1 DEF Nearest
  <2>2. NearerPlace(v, active[k].place, s.place) => Nearer(active[k], s)
    <3>1. s.place \in PlacesOf(v) /\ active[k].place \in PlacesOf(v) /\ v \in {"v0", "v1"}
      BY <2>1, FoundHere DEF SkillInv
    <3> QED BY <3>1, NearnessIsOrder DEF Nearer
  <2> QED BY <1>2, <1>4, <2>1, <2>2
<1> QED BY <1>3, <1>4

-----------------------------------------------------------------------------
(* Tools of MCP servers: every list is asked in one order.                   *)

\* The servers, what `purpose` is besides a tool, and what a list holds.
Members == DOMAIN ToolsOf \cup {"proxy"}
Markers == {"idle", "start", "failed"}

\* The members of a list.
ItemsOf(s) == {s[i] : i \in DOMAIN s}

\* What follows the servers that get_mcp_config changes.
RestOf(runtime, conf) == ShttpServers \o (IF runtime = "cli" THEN SetToSeq(conf) ELSE <<>>)
Rest == RestOf(mcpRuntime, stdioConf)

\* The list of the configuration with the proxy added n times.
WithProxies(n) == [i \in 1 .. (Len(SseServers) + n) |-> IF i <= Len(SseServers) THEN SseServers[i] ELSE "proxy"]

\* The servers in their order, the proxy once.
InOrder(known, rest) == WithProxies(IF known = {} THEN 0 ELSE 1) \o rest

\* Where a server is first in a list.
Rank(o, s) == CHOOSE i \in DOMAIN o : o[i] = s /\ \A j \in DOMAIN o : o[j] = s => i <= j

\* Offers, with the proxies that are mounted.
OffersOf(m, s) == IF s = "proxy" THEN UNION {ToolsOf[d] : d \in Head(m)} ELSE ToolsOf[s]

\* A server comes after all that are nearer to the front, connected to or missed.
Tried(o, there, gone, next) ==
  /\ ItemsOf(there) \subseteq ItemsOf(o) /\ ItemsOf(next) \subseteq ItemsOf(o)
  /\ ItemsOf(o) \subseteq ItemsOf(there) \cup gone \cup ItemsOf(next)
  /\ \A i \in DOMAIN there, u \in ItemsOf(o) : Rank(o, u) < Rank(o, there[i]) =>
        u \in gone \/ \E j \in DOMAIN there : j < i /\ there[j] = u
  /\ \A i \in DOMAIN next, u \in ItemsOf(o) : Rank(o, u) < Rank(o, next[i]) =>
        u \in gone \/ u \in ItemsOf(there) \/ \E j \in DOMAIN next : j < i /\ next[j] = u

\* A tool is that of the first server with it but for those that were missed.
ShownFirst(o, m, tools, gone) ==
  \A t \in DOMAIN tools :
    /\ tools[t] \in ItemsOf(o) /\ t \in OffersOf(m, tools[t]) /\ t \notin Markers
    /\ \A u \in ItemsOf(o) : Rank(o, u) < Rank(o, tools[t]) => u \in gone \/ t \notin OffersOf(m, u)

\* The kinds of values of the servers and their clients.
McpTypeOK ==
  /\ mcpRuntime \in {"sandbox", "cli"} /\ stdioConf \subseteq StdioServers /\ lastUpdated \subseteq StdioServers
  /\ mounts \in Seq(SUBSET StdioServers) /\ toConnect \in Seq(Members) /\ clients \in Seq(Members)

\* What holds in a session besides the list it has: connections are made in the order of the
\* list, which is the one the tools were shown in.
SessionRest ==
  /\ IF mcpRuntime = "cli" THEN lastUpdated = {} ELSE stdioConf \subseteq lastUpdated
  /\ "proxy" \in ItemsOf(clients) => mounts # <<>>
  /\ Tried(InOrder(lastUpdated, Rest), clients, missed, toConnect)
  /\ IF purpose = "start" THEN agentTools = NoTools /\ callAnswer = NoMcpCall
     ELSE ShownFirst(InOrder(lastUpdated, Rest), mounts, agentTools, missedAtStart)
  /\ purpose \in Markers \cup DOMAIN agentTools
SessionInv ==
  /\ \E n \in Nat : sseList = WithProxies(n) /\ (n = 0 <=> lastUpdated = {})
  /\ SessionRest

\* The inductive invariant of the tools of MCP servers.
McpInv ==
  /\ McpTypeOK /\ McpKept
  /\ IF purpose = "failed" THEN callAnswer = NoMcpCall ELSE SessionInv

\* A set of numbers has a least one.
LEMMA LeastOf ==
  ASSUME NEW S, S \subseteq Nat, S # {}
  PROVE  \E i \in S : \A j \in S : i <= j
<1>1. \E x \in S : \A y \in S : ~ (<<y, x>> \in OpToRel(<, Nat))
  BY NatLessThanWellFounded, WFMin
<1>2. PICK x \in S : \A y \in S : ~ (<<y, x>> \in OpToRel(<, Nat))
  BY <1>1
<1>3. \A y \in S : ~(y < x)
  BY <1>2 DEF OpToRel
<1> QED BY <1>3

\* A server of a list is first somewhere.
LEMMA RankIs ==
  ASSUME NEW o \in Seq(Members), NEW s \in ItemsOf(o)
  PROVE  Rank(o, s) \in DOMAIN o /\ o[Rank(o, s)] = s /\ \A j \in DOMAIN o : o[j] = s => Rank(o, s) <= j
<1> DEFINE S == {i \in DOMAIN o : o[i] = s}
<1>1. S \subseteq Nat /\ S # {}
  BY DEF ItemsOf
<1>2. \E i \in S : \A j \in S : i <= j
  BY <1>1, LeastOf
<1>3. \E i \in DOMAIN o : o[i] = s /\ \A j \in DOMAIN o : o[j] = s => i <= j
  BY <1>2
<1> QED BY <1>3 DEF Rank

\* No two servers of a list are first at one place.
LEMMA RanksDiffer ==
  ASSUME NEW o \in Seq(Members), NEW s \in ItemsOf(o), NEW t \in ItemsOf(o)
  PROVE  s = t \/ Rank(o, s) < Rank(o, t) \/ Rank(o, t) < Rank(o, s)
<1>1. Rank(o, s) \in Nat /\ Rank(o, t) \in Nat /\ o[Rank(o, s)] = s /\ o[Rank(o, t)] = t
  BY RankIs
<1> QED BY <1>1

\* The list of the configuration, and how it grows.
LEMMA ProxiesType ==
  ASSUME NEW n \in Nat
  PROVE  /\ WithProxies(n) \in Seq(Members) /\ Len(WithProxies(n)) = Len(SseServers) + n
         /\ \A i \in 1 .. (Len(SseServers) + n) : WithProxies(n)[i] = IF i <= Len(SseServers) THEN SseServers[i] ELSE "proxy"
         /\ Append(WithProxies(n), "proxy") = WithProxies(n + 1)
<1> DEFINE L == Len(SseServers)
<1>1. L \in Nat /\ \A i \in 1..L : SseServers[i] \in Members
  BY McpAssumption DEF Members
<1>2. \A i \in 1 .. (L + n) : WithProxies(n)[i] \in Members
  BY <1>1 DEF WithProxies, Members
<1>3. WithProxies(n) = [i \in 1 .. (L + n) |-> WithProxies(n)[i]] /\ L + n \in Nat
  BY <1>1 DEF WithProxies
<1>4. WithProxies(n) \in Seq(Members) /\ Len(WithProxies(n)) = L + n
  BY <1>2, <1>3
<1>5. Append(WithProxies(n), "proxy") = WithProxies(n + 1)
  <2> DEFINE a == Append(WithProxies(n), "proxy")
             b == WithProxies(n + 1)
  <2>1. a \in Seq(Members) /\ Len(a) = L + n + 1
    BY <1>1, <1>4 DEF Members
  <2>2. \A i \in 1 .. (L + n + 1) : a[i] = IF i <= L + n THEN WithProxies(n)[i] ELSE "proxy"
    BY <1>1, <1>4 DEF Members
  <2>3. b = [i \in 1 .. (L + n + 1) |-> IF i <= L THEN SseServers[i] ELSE "proxy"]
    BY <1>1 DEF WithProxies
  <2>4. \A i \in 1 .. (L + n + 1) : b[i] \in Members
    BY <1>1, <2>3 DEF Members
  <2>5. b \in Seq(Members) /\ Len(b) = L + n + 1
    BY <1>1, <2>3, <2>4
  <2> HIDE DEF a, b
  <2>6. \A i \in 1 .. (L + n + 1) : a[i] = b[i]
    <3> TAKE i \in 1 .. (L + n + 1)
    <3>1. CASE i <= L + n
      <4>1. i \in 1 .. (L + n)
        BY <1>1, <3>1
      <4> QED BY <2>2, <2>3, <3>1, <4>1 DEF WithProxies
    <3>2. CASE ~(i <= L + n)
      BY <1>1, <2>2, <2>3, <3>2
    <3> QED BY <3>1, <3>2
  <2>7. a = b
    BY <2>1, <2>5, <2>6, SeqEqual
  <2> QED BY <2>7 DEF a, b
<1> QED BY <1>4, <1>5 DEF WithProxies

\* However often the list has the proxy, a server comes after all that are nearer to the front.
LEMMA ListInOrder ==
  ASSUME NEW n \in Nat, NEW rest \in Seq(Members), NEW known, n = 0 <=> known = {}
  PROVE  LET l == WithProxies(n) \o rest
             o == InOrder(known, rest)
         IN  /\ l \in Seq(Members) /\ o \in Seq(Members) /\ ItemsOf(l) = ItemsOf(o)
             /\ \A i \in DOMAIN l, u \in ItemsOf(o) : Rank(o, u) < Rank(o, l[i]) => \E j \in DOMAIN l : j < i /\ l[j] = u
<1> DEFINE L == Len(SseServers)
           M == Len(rest)
           k == IF known = {} THEN 0 ELSE 1
           l == WithProxies(n) \o rest
           o == WithProxies(k) \o rest
           toO(i) == IF i <= L THEN i ELSE IF i <= L + n THEN L + 1 ELSE i - n + k
           toL(i) == IF i <= L + k THEN i ELSE i - k + n
<1>1. L \in Nat /\ M \in Nat /\ k \in {0, 1} /\ (n = 0 <=> k = 0) /\ o = InOrder(known, rest)
  BY McpAssumption DEF InOrder
<1> HIDE DEF k
<1>2. k \in Nat
  BY <1>1
<1>3. /\ WithProxies(n) \in Seq(Members) /\ Len(WithProxies(n)) = L + n
      /\ \A i \in 1 .. (L + n) : WithProxies(n)[i] = IF i <= L THEN SseServers[i] ELSE "proxy"
      /\ WithProxies(k) \in Seq(Members) /\ Len(WithProxies(k)) = L + k
      /\ \A i \in 1 .. (L + k) : WithProxies(k)[i] = IF i <= L THEN SseServers[i] ELSE "proxy"
  BY <1>2, ProxiesType
<1>4. /\ l \in Seq(Members) /\ DOMAIN l = 1 .. (L + n + M)
      /\ \A i \in 1 .. (L + n + M) : l[i] = IF i <= L + n THEN WithProxies(n)[i] ELSE rest[i - (L + n)]
  <2>1. /\ l \in Seq(Members) /\ Len(l) = L + n + M
        /\ \A i \in 1 .. (L + n + M) : l[i] = IF i <= L + n THEN WithProxies(n)[i] ELSE rest[i - (L + n)]
    <3>1. rest \in Seq(Members) /\ M = Len(rest)
      OBVIOUS
    <3>2. /\ WithProxies(n) \o rest \in Seq(Members) /\ Len(WithProxies(n) \o rest) = Len(WithProxies(n)) + Len(rest)
          /\ \A i \in 1 .. (Len(WithProxies(n)) + Len(rest)) :
                (WithProxies(n) \o rest)[i] = IF i <= Len(WithProxies(n)) THEN WithProxies(n)[i] ELSE rest[i - Len(WithProxies(n))]
      BY <1>3, <3>1, ConcatProperties
    <3> QED BY <1>3, <3>1, <3>2
  <2> QED BY <2>1
<1>5. /\ o \in Seq(Members) /\ DOMAIN o = 1 .. (L + k + M)
      /\ \A i \in 1 .. (L + k + M) : o[i] = IF i <= L + k THEN WithProxies(k)[i] ELSE rest[i - (L + k)]
  <2>1. /\ o \in Seq(Members) /\ Len(o) = L + k + M
        /\ \A i \in 1 .. (L + k + M) : o[i] = IF i <= L + k THEN WithProxies(k)[i] ELSE rest[i - (L + k)]
    <3>1. rest \in Seq(Members) /\ M = Len(rest)
      OBVIOUS
    <3>2. /\ WithProxies(k) \o rest \in Seq(Members) /\ Len(WithProxies(k) \o rest) = Len(WithProxies(k)) + Len(rest)
          /\ \A i \in 1 .. (Len(WithProxies(k)) + Len(rest)) :
                (WithProxies(k) \o rest)[i] = IF i <= Len(WithProxies(k)) THEN WithProxies(k)[i] ELSE rest[i - Len(WithProxies(k))]
      BY <1>3, <3>1, ConcatProperties
    <3> QED BY <1>3, <3>1, <3>2
  <2> QED BY <2>1
<1> HIDE DEF l, o
<1>6. ASSUME NEW i \in DOMAIN l PROVE toO(i) \in DOMAIN o /\ o[toO(i)] = l[i]
  <2>1. i \in Nat /\ 1 <= i /\ i <= L + n + M
    BY <1>1, <1>4
  <2>2. CASE i <= L
    <3>1. toO(i) = i /\ i \in 1 .. (L + k) /\ i \in 1 .. (L + n) /\ i \in 1 .. (L + k + M)
      BY <1>1, <2>1, <2>2
    <3>2. l[i] = WithProxies(n)[i] /\ i <= L + n
      BY <1>4, <3>1
    <3>3. o[i] = WithProxies(k)[i] /\ i <= L + k
      BY <1>5, <3>1
    <3>4. WithProxies(n)[i] = SseServers[i] /\ WithProxies(k)[i] = SseServers[i]
      BY <1>3, <2>2, <3>1
    <3> QED BY <1>5, <3>1, <3>2, <3>3, <3>4
  <2>3. CASE ~(i <= L) /\ i <= L + n
    <3>1. k = 1 /\ toO(i) = L + 1 /\ L + 1 \in 1 .. (L + k) /\ i \in 1 .. (L + n) /\ L + 1 \in 1 .. (L + k + M) /\ ~(L + 1 <= L)
      BY <1>1, <2>1, <2>3
    <3>2. l[i] = "proxy"
      BY <1>3, <1>4, <2>3, <3>1
    <3>3. o[L + 1] = "proxy"
      <4>1. L + 1 <= L + k
        BY <1>1, <3>1
      <4>2. o[L + 1] = WithProxies(k)[L + 1]
        BY <1>5, <3>1, <4>1
      <4>3. WithProxies(k)[L + 1] = "proxy"
        BY <1>3, <3>1
      <4> QED BY <4>2, <4>3
    <3> QED BY <1>5, <3>1, <3>2, <3>3
  <2>4. CASE ~(i <= L + n)
    <3>1. toO(i) = i - n + k /\ i - n + k \in 1 .. (L + k + M) /\ ~(i - n + k <= L + k) /\ (i - n + k) - (L + k) = i - (L + n)
      BY <1>1, <2>1, <2>4
    <3>2. l[i] = rest[i - (L + n)]
      BY <1>4, <2>4
    <3>3. o[i - n + k] = rest[(i - n + k) - (L + k)]
      BY <1>5, <3>1
    <3> QED BY <1>5, <3>1, <3>2, <3>3
  <2> QED BY <2>2, <2>3, <2>4
<1>7. ASSUME NEW i \in DOMAIN o PROVE toL(i) \in DOMAIN l /\ l[toL(i)] = o[i]
  <2>1. i \in Nat /\ 1 <= i /\ i <= L + k + M
    BY <1>1, <1>5
  <2>2. CASE i <= L + k
    <3>1. toL(i) = i /\ i \in 1 .. (L + k) /\ i \in 1 .. (L + n) /\ i \in 1 .. (L + n + M)
      BY <1>1, <2>1, <2>2
    <3>2. l[i] = WithProxies(n)[i] /\ o[i] = WithProxies(k)[i]
      BY <1>4, <1>5, <2>2, <3>1
    <3> QED BY <1>3, <1>4, <3>1, <3>2
  <2>3. CASE ~(i <= L + k)
    <3>1. toL(i) = i - k + n /\ i - k + n \in 1 .. (L + n + M) /\ ~(i - k + n <= L + n) /\ (i - k + n) - (L + n) = i - (L + k)
      BY <1>1, <2>1, <2>3
    <3>2. l[i - k + n] = rest[(i - k + n) - (L + n)]
      BY <1>4, <3>1
    <3>3. o[i] = rest[i - (L + k)]
      BY <1>5, <2>3
    <3> QED BY <1>4, <3>1, <3>2, <3>3
  <2> QED BY <2>2, <2>3
<1>8. ItemsOf(l) = ItemsOf(o)
  <2>1. \A x \in ItemsOf(l) : x \in ItemsOf(o)
    <3> SUFFICES ASSUME NEW i \in DOMAIN l PROVE l[i] \in ItemsOf(o)
      BY DEF ItemsOf
    <3>1. toO(i) \in DOMAIN o /\ o[toO(i)] = l[i]
      BY <1>6
    <3> HIDE DEF toO
    <3> QED BY <3>1 DEF ItemsOf
  <2>2. \A x \in ItemsOf(o) : x \in ItemsOf(l)
    <3> SUFFICES ASSUME NEW i \in DOMAIN o PROVE o[i] \in ItemsOf(l)
      BY DEF ItemsOf
    <3>1. toL(i) \in DOMAIN l /\ l[toL(i)] = o[i]
      BY <1>7
    <3> HIDE DEF toL
    <3> QED BY <3>1 DEF ItemsOf
  <2> QED BY <2>1, <2>2
<1>9. ASSUME NEW i \in DOMAIN l, NEW u \in ItemsOf(o), Rank(o, u) < Rank(o, l[i])
      PROVE  \E j \in DOMAIN l : j < i /\ l[j] = u
  <2> DEFINE r == Rank(o, u)
  <2>1. r \in DOMAIN o /\ o[r] = u
    BY <1>5, RankIs
  <2>2. l[i] \in ItemsOf(o)
    BY <1>8 DEF ItemsOf
  <2>3. Rank(o, l[i]) \in DOMAIN o /\ Rank(o, l[i]) <= toO(i)
    BY <1>5, <1>6, <2>2, RankIs
  <2>4. toL(r) \in DOMAIN l /\ l[toL(r)] = u
    BY <1>7, <2>1
  <2>5. r < toO(i)
    <3>1. r \in Nat /\ Rank(o, l[i]) \in Nat /\ toO(i) \in Nat
      BY <1>5, <1>6, <2>1, <2>3
    <3> QED BY <1>9, <2>3, <3>1
  <2>6. i \in Nat /\ r \in Nat
    BY <1>4, <1>5, <2>1
  <2> HIDE DEF r
  <2>7. toL(r) < i
    BY <1>1, <2>5, <2>6
  <2> HIDE DEF toL
  <2> QED BY <2>4, <2>7
<1> QED BY <1>1, <1>4, <1>5, <1>8, <1>9 DEF l, o

\* What follows the configuration's list is a list of servers.
LEMMA RestType ==
  ASSUME NEW runtime, NEW conf \in SUBSET StdioServers
  PROVE  /\ RestOf(runtime, conf) \in Seq(Members)
         /\ \A list \in Seq(Members) :
              list \o ShttpServers \o (IF runtime = "cli" THEN SetToSeq(conf) ELSE <<>>) = list \o RestOf(runtime, conf)
<1> DEFINE last == IF runtime = "cli" THEN SetToSeq(conf) ELSE <<>>
<1>1. ShttpServers \in Seq(Members)
  BY McpAssumption DEF Members
<1>2. SetToSeq(conf) \in Seq(Members)
  <2>1. IsFiniteSet(conf)
    BY McpAssumption, FS_Subset
  <2>2. Cardinality(conf) \in Nat /\ ExistsBijection(1..Cardinality(conf), conf)
    BY <2>1, FS_CardinalityType
  <2>3. \E f \in [1..Cardinality(conf) -> conf] : IsInjective(f)
    BY <2>2 DEF ExistsBijection, Bijection, Injection, IsInjective
  <2>4. SetToSeq(conf) \in [1..Cardinality(conf) -> conf]
    BY <2>3 DEF SetToSeq
  <2>5. conf \subseteq Members
    BY McpAssumption DEF Members
  <2> QED BY <2>2, <2>4, <2>5
<1>3. last \in Seq(Members)
  BY <1>2
<1> HIDE DEF last
<1>4. ShttpServers \o last \in Seq(Members) /\ \A list \in Seq(Members) : (list \o ShttpServers) \o last = list \o (ShttpServers \o last)
  BY <1>1, <1>3, ConcatProperties, ConcatAssociative
<1> QED BY <1>4 DEF RestOf, last

\* A list that is asked from the front has tried nothing out of order.
LEMMA AskedInOrder ==
  ASSUME NEW n \in Nat, NEW rest \in Seq(Members), NEW known, n = 0 <=> known = {}
  PROVE  /\ WithProxies(n) \o rest \in Seq(Members)
         /\ Tried(InOrder(known, rest), <<>>, {}, WithProxies(n) \o rest)
<1> DEFINE l == WithProxies(n) \o rest
           o == InOrder(known, rest)
<1>1. /\ l \in Seq(Members) /\ ItemsOf(l) = ItemsOf(o)
      /\ \A i \in DOMAIN l, u \in ItemsOf(o) : Rank(o, u) < Rank(o, l[i]) => \E j \in DOMAIN l : j < i /\ l[j] = u
  BY ListInOrder
<1>2. ItemsOf(<<>>) = {} /\ DOMAIN <<>> = {}
  BY DEF ItemsOf
<1> HIDE DEF l, o
<1>3. Tried(o, <<>>, {}, l)
  BY <1>1, <1>2 DEF Tried
<1> QED BY <1>1, <1>3 DEF l, o

\* The list is asked from the front, by a client that is connected to none.
LEMMA ServersAsked ==
  ASSUME NEW n \in Nat, sseList' = WithProxies(n), n = 0 <=> lastUpdated' = {}, stdioConf' \subseteq StdioServers,
         mcpRuntime' = mcpRuntime, NEW for, AsksServers(for)
  PROVE  /\ toConnect' \in Seq(Members) /\ clients' = <<>> /\ clients' \in Seq(Members) /\ purpose' = for
         /\ Tried(InOrder(lastUpdated', Rest'), clients', missed', toConnect')
         /\ "proxy" \notin ItemsOf(clients')
<1> DEFINE rest == RestOf(mcpRuntime, stdioConf')
<1>1. rest \in Seq(Members) /\ Rest' = rest
  BY RestType DEF Rest, RestOf
<1>2. toConnect' = WithProxies(n) \o rest /\ clients' = <<>> /\ missed' = {} /\ purpose' = for
  <2>1. WithProxies(n) \in Seq(Members)
    BY ProxiesType
  <2>2. WithProxies(n) \o ShttpServers \o (IF mcpRuntime = "cli" THEN SetToSeq(stdioConf') ELSE <<>>) = WithProxies(n) \o rest
    BY <2>1, RestType
  <2> QED BY <2>2 DEF AsksServers
<1> HIDE DEF rest
<1>3. toConnect' \in Seq(Members) /\ Tried(InOrder(lastUpdated', rest), <<>>, {}, toConnect')
  BY <1>1, <1>2, AskedInOrder
<1>4. clients' \in Seq(Members) /\ "proxy" \notin ItemsOf(clients')
  BY <1>2 DEF ItemsOf
<1> QED BY <1>1, <1>2, <1>3, <1>4

\* The invariant of the tools holds at first.
LEMMA McpStarts == McpInit => McpInv
<1> SUFFICES ASSUME McpInit PROVE McpInv
  OBVIOUS
<1>1. McpTypeOK
  BY DEF McpInit, McpTypeOK
<1>2. McpKept
  BY DEF McpInit, McpKept, AnsweredByShown, ToolStaysThere, NoMcpCall
<1> QED BY <1>1, <1>2 DEF McpInit, McpInv

\* No session begins when the sandbox refuses the servers.
LEMMA UpdateRefusedKeeps == ASSUME McpInv, NEW conf \in SUBSET StdioServers, UpdateRefused(conf) PROVE McpInv'
<1>1. McpTypeOK'
  BY DEF McpInv, McpTypeOK, UpdateRefused
<1>2. purpose' = "failed" /\ callAnswer' = NoMcpCall
  BY DEF UpdateRefused
<1>3. McpKept'
  BY <1>2 DEF McpKept, AnsweredByShown, ToolStaysThere, NoMcpCall
<1> QED BY <1>1, <1>2, <1>3 DEF McpInv

\* A session begins with a list that has the proxy once or not.
LEMMA SessionBeginsKeeps ==
  ASSUME McpInv, NEW conf \in SUBSET StdioServers, NEW fresh \in BOOLEAN, McpSessionBegins(conf, fresh)
  PROVE  McpInv'
<1>1. /\ stdioConf' = conf /\ agentTools' = NoTools /\ callAnswer' = NoMcpCall /\ mcpRuntime' = mcpRuntime
      /\ AsksServers("start")
      /\ IF mcpRuntime = "cli" THEN lastUpdated' = {} /\ mounts' = <<>> /\ sseList' = SseServers
         ELSE Updates(conf, {}, IF fresh THEN <<>> ELSE mounts) /\ sseList' = WithProxy(SseServers)
  BY DEF McpSessionBegins
<1>2. SseServers = WithProxies(0)
  <2>1. WithProxies(0) \in Seq(Members) /\ Len(WithProxies(0)) = Len(SseServers)
        /\ \A i \in 1 .. Len(SseServers) : WithProxies(0)[i] = SseServers[i]
    <3>1. Len(SseServers) \in Nat
      BY McpAssumption
    <3>2. /\ WithProxies(0) \in Seq(Members) /\ Len(WithProxies(0)) = Len(SseServers) + 0
          /\ \A i \in 1 .. (Len(SseServers) + 0) : WithProxies(0)[i] = IF i <= Len(SseServers) THEN SseServers[i] ELSE "proxy"
      BY ProxiesType
    <3> QED BY <3>1, <3>2
  <2>2. SseServers \in Seq(Members)
    BY McpAssumption DEF Members
  <2> QED BY <2>1, <2>2, SeqEqual
<1>3. /\ lastUpdated' \subseteq StdioServers /\ mounts' \in Seq(SUBSET StdioServers)
      /\ IF mcpRuntime = "cli" THEN lastUpdated' = {} ELSE conf \subseteq lastUpdated'
  <2>1. CASE mcpRuntime = "cli"
    BY <1>1, <2>1
  <2>2. CASE mcpRuntime # "cli"
    <3> DEFINE there == IF fresh THEN <<>> ELSE mounts
    <3>1. there \in Seq(SUBSET StdioServers)
      BY DEF McpInv, McpTypeOK
    <3>2. Updates(conf, {}, there)
      BY <1>1, <2>2
    <3> HIDE DEF there
    <3>3. {} \cup conf \in SUBSET StdioServers
      OBVIOUS
    <3>4. Append(there, {} \cup conf) \in Seq(SUBSET StdioServers)
      BY <3>1, <3>3
    <3>5. CASE conf \subseteq {}
      BY <2>2, <3>1, <3>2, <3>5 DEF Updates
    <3>6. CASE ~(conf \subseteq {})
      BY <2>2, <3>1, <3>2, <3>4, <3>6 DEF Updates
    <3> QED BY <3>5, <3>6
  <2> QED BY <2>1, <2>2
<1>4. \E n \in Nat : sseList' = WithProxies(n) /\ (n = 0 <=> lastUpdated' = {})
  <2>1. CASE lastUpdated' = {}
    <3>1. sseList' = WithProxies(0)
      BY <1>1, <1>2, <2>1 DEF WithProxy
    <3> QED BY <2>1, <3>1
  <2>2. CASE lastUpdated' # {}
    <3>1. sseList' = Append(WithProxies(0), "proxy")
      BY <1>1, <1>2, <2>2 DEF WithProxy
    <3>2. Append(WithProxies(0), "proxy") = WithProxies(1)
      <4>1. Append(WithProxies(0), "proxy") = WithProxies(0 + 1)
        BY ProxiesType
      <4> QED BY <4>1
    <3> QED BY <2>2, <3>1, <3>2
  <2> QED BY <2>1, <2>2
<1>5. /\ toConnect' \in Seq(Members) /\ clients' \in Seq(Members) /\ purpose' = "start"
      /\ Tried(InOrder(lastUpdated', Rest'), clients', missed', toConnect')
      /\ "proxy" \notin ItemsOf(clients')
  BY <1>1, <1>4, ServersAsked
<1>6. McpTypeOK'
  BY <1>1, <1>3, <1>5 DEF McpInv, McpTypeOK
<1>7. McpKept'
  BY <1>1 DEF McpKept, AnsweredByShown, ToolStaysThere, NoMcpCall
<1>8. SessionRest'
  BY <1>1, <1>3, <1>5 DEF SessionRest, Markers
<1> QED BY <1>4, <1>5, <1>6, <1>7, <1>8 DEF McpInv, SessionInv

\* A session that goes on keeps what it was told of the servers.
LEMMA CallBeginsKeeps == ASSUME McpInv, NEW t \in DOMAIN agentTools, CallBegins(t) PROVE McpInv'
<1>1. /\ purpose = "idle" /\ AsksServers(t)
      /\ UNCHANGED <<mcpRuntime, stdioConf, missedAtStart, agentTools, callAnswer>>
      /\ IF mcpRuntime = "cli" THEN UNCHANGED <<lastUpdated, mounts, sseList>>
         ELSE Updates(stdioConf, lastUpdated, mounts) /\ sseList' = WithProxy(sseList)
  BY DEF CallBegins
<1>2. SessionInv
  BY <1>1 DEF McpInv
<1>3. UNCHANGED <<lastUpdated, mounts>>
  <2>1. CASE mcpRuntime = "cli"
    BY <1>1, <2>1
  <2>2. CASE mcpRuntime # "cli"
    <3>1. stdioConf \subseteq lastUpdated
      BY <1>2, <2>2 DEF SessionInv, SessionRest
    <3> QED BY <1>1, <2>2, <3>1 DEF Updates
  <2> QED BY <2>1, <2>2
<1>4. PICK n \in Nat : sseList = WithProxies(n) /\ (n = 0 <=> lastUpdated = {})
  BY <1>2 DEF SessionInv
<1>5. \E m \in Nat : sseList' = WithProxies(m) /\ (m = 0 <=> lastUpdated' = {})
  <2>1. CASE mcpRuntime = "cli" \/ lastUpdated = {}
    <3>1. sseList' = WithProxies(n)
      BY <1>1, <1>3, <1>4, <2>1 DEF WithProxy
    <3> QED BY <1>3, <1>4, <3>1
  <2>2. CASE ~(mcpRuntime = "cli" \/ lastUpdated = {})
    <3>1. sseList' = Append(WithProxies(n), "proxy")
      BY <1>1, <1>3, <1>4, <2>2 DEF WithProxy
    <3>2. sseList' = WithProxies(n + 1) /\ n + 1 \in Nat /\ n + 1 # 0
      <4>1. Append(WithProxies(n), "proxy") = WithProxies(n + 1)
        BY ProxiesType
      <4>2. n + 1 \in Nat /\ n + 1 # 0
        OBVIOUS
      <4> QED BY <3>1, <4>1, <4>2
    <3> QED BY <1>3, <2>2, <3>2
  <2> QED BY <2>1, <2>2
<1>6. stdioConf' \subseteq StdioServers
  BY <1>1 DEF McpInv, McpTypeOK
<1>7. /\ toConnect' \in Seq(Members) /\ clients' \in Seq(Members) /\ purpose' = t
      /\ Tried(InOrder(lastUpdated', Rest'), clients', missed', toConnect')
      /\ "proxy" \notin ItemsOf(clients')
  BY <1>1, <1>5, <1>6, ServersAsked
<1>8. McpTypeOK'
  BY <1>1, <1>3, <1>7 DEF McpInv, McpTypeOK
<1>9. McpKept'
  BY <1>1 DEF McpInv, McpKept, AnsweredByShown, ToolStaysThere
<1>10. Rest' = Rest
  BY <1>1 DEF Rest, RestOf
<1>11. /\ ShownFirst(InOrder(lastUpdated, Rest), mounts, agentTools, missedAtStart)
       /\ IF mcpRuntime = "cli" THEN lastUpdated = {} ELSE stdioConf \subseteq lastUpdated
  BY <1>1, <1>2 DEF SessionInv, SessionRest
<1>12. t \notin Markers
  BY <1>11 DEF ShownFirst
<1>13. SessionRest'
  BY <1>1, <1>3, <1>7, <1>10, <1>11, <1>12 DEF SessionRest, Markers
<1>14. purpose' # "failed"
  BY <1>7, <1>12 DEF Markers
<1> QED BY <1>5, <1>8, <1>9, <1>13, <1>14 DEF McpInv, SessionInv

\* The next server is connected to, or missed.
LEMMA NextTried ==
  ASSUME NEW o \in Seq(Members), NEW there \in Seq(Members), NEW gone, NEW next \in Seq(Members), next # <<>>,
         Tried(o, there, gone, next)
  PROVE  /\ Tried(o, Append(there, Head(next)), gone, Tail(next))
         /\ Tried(o, there, gone \cup {Head(next)}, Tail(next))
<1> DEFINE s == Head(next)
           tail == Tail(next)
           more == Append(there, s)
<1>1. /\ Len(next) \in Nat /\ Len(next) >= 1 /\ s = next[1] /\ DOMAIN next = 1 .. Len(next) /\ s \in Members
      /\ tail \in Seq(Members) /\ DOMAIN tail = 1 .. (Len(next) - 1) /\ \A i \in DOMAIN tail : tail[i] = next[i + 1]
  <2>1. /\ tail \in Seq(Members) /\ Len(tail) = Len(next) - 1 /\ \A i \in 1 .. Len(tail) : tail[i] = next[i + 1]
    BY HeadTailProperties
  <2> QED BY <2>1
<1>2. /\ more \in Seq(Members) /\ Len(there) \in Nat /\ DOMAIN there = 1 .. Len(there) /\ DOMAIN more = 1 .. (Len(there) + 1)
      /\ more[Len(there) + 1] = s /\ \A i \in DOMAIN there : more[i] = there[i]
  BY <1>1
<1> HIDE DEF s, tail, more
<1>3. ItemsOf(next) = {s} \cup ItemsOf(tail)
  <2>1. \A i \in DOMAIN next : i = 1 \/ (i - 1 \in DOMAIN tail /\ next[i] = tail[i - 1])
    <3> TAKE i \in DOMAIN next
    <3>1. CASE i # 1
      <4>1. i - 1 \in DOMAIN tail /\ (i - 1) + 1 = i
        BY <1>1, <3>1
      <4>2. tail[i - 1] = next[(i - 1) + 1]
        BY <1>1, <4>1
      <4> QED BY <4>1, <4>2
    <3> QED BY <3>1
  <2>2. \A i \in DOMAIN tail : i + 1 \in DOMAIN next /\ 1 \in DOMAIN next
    BY <1>1
  <2>3. 1 \in DOMAIN next
    BY <1>1
  <2>4. \A x \in ItemsOf(next) : x = s \/ x \in ItemsOf(tail)
    BY <1>1, <2>1 DEF ItemsOf
  <2>5. \A x \in ItemsOf(tail) : x \in ItemsOf(next)
    BY <1>1, <2>2 DEF ItemsOf
  <2>6. s \in ItemsOf(next)
    BY <1>1, <2>3 DEF ItemsOf
  <2> QED BY <2>4, <2>5, <2>6
<1>4. ItemsOf(more) = ItemsOf(there) \cup {s}
  <2>1. DOMAIN more = DOMAIN there \cup {Len(there) + 1}
    BY <1>2
  <2> QED BY <1>2, <2>1 DEF ItemsOf
<1>5. \A u \in ItemsOf(o) : Rank(o, u) < Rank(o, s) => u \in gone \/ u \in ItemsOf(there)
  <2> SUFFICES ASSUME NEW u \in ItemsOf(o), Rank(o, u) < Rank(o, s) PROVE u \in gone \/ u \in ItemsOf(there)
    OBVIOUS
  <2>1. 1 \in DOMAIN next /\ ~\E j \in DOMAIN next : j < 1
    BY <1>1
  <2> QED BY <1>1, <2>1 DEF Tried
<1>6. ASSUME NEW i \in DOMAIN tail, NEW u \in ItemsOf(o), Rank(o, u) < Rank(o, tail[i])
      PROVE  u \in gone \/ u = s \/ u \in ItemsOf(there) \/ \E j \in DOMAIN tail : j < i /\ tail[j] = u
  <2>1. i + 1 \in DOMAIN next /\ tail[i] = next[i + 1] /\ i \in Nat
    BY <1>1
  <2>2. u \in gone \/ u \in ItemsOf(there) \/ \E j \in DOMAIN next : j < i + 1 /\ next[j] = u
    BY <1>6, <2>1 DEF Tried
  <2>3. ASSUME NEW j \in DOMAIN next, j < i + 1, next[j] = u, j # 1
        PROVE  \E k \in DOMAIN tail : k < i /\ tail[k] = u
    <3>1. j - 1 \in DOMAIN tail /\ j - 1 < i /\ (j - 1) + 1 = j
      BY <1>1, <2>1, <2>3
    <3>2. tail[j - 1] = next[(j - 1) + 1]
      BY <1>1, <3>1
    <3> QED BY <2>3, <3>1, <3>2
  <2> QED BY <1>1, <2>2, <2>3
<1>7. ASSUME NEW i \in DOMAIN there, NEW u \in ItemsOf(o), Rank(o, u) < Rank(o, there[i])
      PROVE  u \in gone \/ \E j \in DOMAIN there : j < i /\ there[j] = u
  BY <1>7 DEF Tried
<1>8. /\ ItemsOf(there) \subseteq ItemsOf(o) /\ ItemsOf(next) \subseteq ItemsOf(o)
      /\ ItemsOf(o) \subseteq ItemsOf(there) \cup gone \cup ItemsOf(next)
  BY DEF Tried
<1>9. Tried(o, more, gone, tail)
  <2>1. /\ ItemsOf(more) \subseteq ItemsOf(o) /\ ItemsOf(tail) \subseteq ItemsOf(o)
        /\ ItemsOf(o) \subseteq ItemsOf(more) \cup gone \cup ItemsOf(tail)
    BY <1>3, <1>4, <1>8
  <2>2. ASSUME NEW i \in DOMAIN more, NEW u \in ItemsOf(o), Rank(o, u) < Rank(o, more[i])
        PROVE  u \in gone \/ \E j \in DOMAIN more : j < i /\ more[j] = u
    <3>1. CASE i = Len(there) + 1
      <4>1. u \in gone \/ u \in ItemsOf(there)
        BY <1>2, <1>5, <2>2, <3>1
      <4>2. ASSUME u \in ItemsOf(there) PROVE \E j \in DOMAIN more : j < i /\ more[j] = u
        <5>1. PICK j \in DOMAIN there : there[j] = u
          BY <4>2 DEF ItemsOf
        <5>2. j \in DOMAIN more /\ j < i
          BY <1>2, <3>1
        <5> QED BY <1>2, <5>1, <5>2
      <4> QED BY <4>1, <4>2
    <3>2. CASE i # Len(there) + 1
      <4>1. i \in DOMAIN there /\ more[i] = there[i]
        BY <1>2, <3>2
      <4>2. u \in gone \/ \E j \in DOMAIN there : j < i /\ there[j] = u
        BY <1>7, <2>2, <4>1
      <4>3. \A j \in DOMAIN there : j \in DOMAIN more
        BY <1>2
      <4> QED BY <1>2, <4>2, <4>3
    <3> QED BY <3>1, <3>2
  <2>3. ASSUME NEW i \in DOMAIN tail, NEW u \in ItemsOf(o), Rank(o, u) < Rank(o, tail[i])
        PROVE  u \in gone \/ u \in ItemsOf(more) \/ \E j \in DOMAIN tail : j < i /\ tail[j] = u
    BY <1>4, <1>6, <2>3
  <2> QED BY <2>1, <2>2, <2>3 DEF Tried
<1>10. Tried(o, there, gone \cup {s}, tail)
  <2>1. /\ ItemsOf(tail) \subseteq ItemsOf(o)
        /\ ItemsOf(o) \subseteq ItemsOf(there) \cup (gone \cup {s}) \cup ItemsOf(tail)
    BY <1>3, <1>8
  <2>2. ASSUME NEW i \in DOMAIN tail, NEW u \in ItemsOf(o), Rank(o, u) < Rank(o, tail[i])
        PROVE  u \in gone \cup {s} \/ u \in ItemsOf(there) \/ \E j \in DOMAIN tail : j < i /\ tail[j] = u
    BY <1>6, <2>2
  <2>3. ASSUME NEW i \in DOMAIN there, NEW u \in ItemsOf(o), Rank(o, u) < Rank(o, there[i])
        PROVE  u \in gone \cup {s} \/ \E j \in DOMAIN there : j < i /\ there[j] = u
    BY <1>7, <2>3
  <2> QED BY <1>8, <2>1, <2>2, <2>3 DEF Tried
<1> QED BY <1>9, <1>10 DEF s, tail, more

\* The servers in their order are a list of servers.
LEMMA OrderType == McpTypeOK => InOrder(lastUpdated, Rest) \in Seq(Members)
<1> SUFFICES ASSUME McpTypeOK PROVE InOrder(lastUpdated, Rest) \in Seq(Members)
  OBVIOUS
<1>1. Rest \in Seq(Members)
  BY RestType DEF McpTypeOK, Rest
<1>2. WithProxies(IF lastUpdated = {} THEN 0 ELSE 1) \in Seq(Members)
  BY ProxiesType
<1> QED BY <1>1, <1>2, ConcatProperties DEF InOrder

\* A server is connected to or missed.
LEMMA ConnectsNextKeeps == ASSUME McpInv, ConnectsNext PROVE McpInv'
<1> DEFINE s == Head(toConnect)
           o == InOrder(lastUpdated, Rest)
<1>1. /\ toConnect # <<>> /\ toConnect' = Tail(toConnect)
      /\ \/ Answering(s) /\ clients' = Append(clients, s) /\ missed' = missed
         \/ missed' = missed \cup {s} /\ clients' = clients
      /\ UNCHANGED <<mcpRuntime, stdioConf, sseList, lastUpdated, mounts, missedAtStart, agentTools, purpose, callAnswer>>
  BY DEF ConnectsNext
<1>2. toConnect \in Seq(Members) /\ clients \in Seq(Members) /\ o \in Seq(Members)
  BY OrderType DEF McpInv, McpTypeOK
<1>3. s \in Members /\ toConnect' \in Seq(Members) /\ clients' \in Seq(Members)
  <2>1. Head(toConnect) \in Members /\ Tail(toConnect) \in Seq(Members)
    BY <1>1, <1>2, HeadTailProperties
  <2>2. Append(clients, Head(toConnect)) \in Seq(Members)
    BY <1>2, <2>1
  <2> QED BY <1>1, <1>2, <2>1, <2>2
<1>4. McpTypeOK'
  BY <1>1, <1>3 DEF McpInv, McpTypeOK
<1>5. McpKept'
  BY <1>1 DEF McpInv, McpKept, AnsweredByShown, ToolStaysThere
<1>6. CASE purpose = "failed"
  BY <1>1, <1>4, <1>5, <1>6 DEF McpInv
<1>7. CASE purpose # "failed"
  <2>1. SessionInv
    BY <1>7 DEF McpInv
  <2>2. Tried(o, clients, missed, toConnect)
    BY <2>1 DEF SessionInv, SessionRest
  <2>3. /\ Tried(o, Append(clients, s), missed, Tail(toConnect))
        /\ Tried(o, clients, missed \cup {s}, Tail(toConnect))
    BY <1>1, <1>2, <2>2, NextTried
  <2>4. Tried(o, clients', missed', toConnect')
    BY <1>1, <2>3
  <2>5. o' = o
    BY <1>1 DEF Rest, RestOf
  <2>6. "proxy" \in ItemsOf(clients') => mounts' # <<>>
    <3>1. CASE Answering(s) /\ clients' = Append(clients, s)
      <4>1. \A x \in ItemsOf(clients') : x = s \/ x \in ItemsOf(clients)
        BY <1>2, <1>3, <3>1 DEF ItemsOf
      <4>2. s = "proxy" => mounts # <<>>
        BY <3>1 DEF Answering
      <4> QED BY <1>1, <2>1, <4>1, <4>2 DEF SessionInv, SessionRest
    <3>2. CASE clients' = clients
      BY <1>1, <2>1, <3>2 DEF SessionInv, SessionRest
    <3> QED BY <1>1, <3>1, <3>2
  <2>7. SessionRest'
    <3>1. /\ IF mcpRuntime' = "cli" THEN lastUpdated' = {} ELSE stdioConf' \subseteq lastUpdated'
          /\ IF purpose' = "start" THEN agentTools' = NoTools /\ callAnswer' = NoMcpCall
             ELSE ShownFirst(o, mounts', agentTools', missedAtStart')
          /\ purpose' \in Markers \cup DOMAIN agentTools'
      BY <1>1, <2>1 DEF SessionInv, SessionRest
    <3> QED BY <2>4, <2>5, <2>6, <3>1 DEF SessionRest
  <2>8. \E n \in Nat : sseList' = WithProxies(n) /\ (n = 0 <=> lastUpdated' = {})
    BY <1>1, <2>1 DEF SessionInv
  <2> QED BY <1>1, <1>4, <1>5, <1>7, <2>7, <2>8 DEF McpInv, SessionInv
<1> QED BY <1>6, <1>7

\* Of the clients with a tool, the first.
LEMMA FirstHaving ==
  ASSUME clients \in Seq(Members), NEW t, Having(t) # {}
  PROVE  /\ First(Having(t)) \in DOMAIN clients /\ t \in OffersOf(mounts, clients[First(Having(t))])
         /\ \A j \in DOMAIN clients : j < First(Having(t)) => t \notin OffersOf(mounts, clients[j])
<1>1. \A s : Offers(s) = OffersOf(mounts, s)
  BY DEF Offers, OffersOf
<1>2. Having(t) \subseteq Nat /\ Having(t) \subseteq DOMAIN clients
  BY DEF Having
<1>3. \E i \in Having(t) : \A j \in Having(t) : i <= j
  BY <1>2, LeastOf
<1>4. First(Having(t)) \in Having(t) /\ \A j \in Having(t) : First(Having(t)) <= j
  BY <1>3 DEF First
<1>5. First(Having(t)) \in Nat
  BY <1>2, <1>4
<1>6. ASSUME NEW j \in DOMAIN clients, j < First(Having(t)) PROVE t \notin OffersOf(mounts, clients[j])
  <2>1. j \in Nat /\ ~(First(Having(t)) <= j)
    BY <1>5, <1>6
  <2> QED BY <1>1, <1>4, <2>1 DEF Having
<1> QED BY <1>1, <1>2, <1>4, <1>6 DEF Having

\* A tool of a client is no marker.
LEMMA ToolsNamed ==
  ASSUME McpTypeOK, "proxy" \in ItemsOf(clients) => mounts # <<>>, NEW i \in DOMAIN clients, NEW t \in OffersOf(mounts, clients[i])
  PROVE  t \notin Markers
<1>1. clients[i] \in Members /\ clients[i] \in ItemsOf(clients)
  BY DEF McpTypeOK, ItemsOf
<1>2. CASE clients[i] # "proxy"
  <2>1. clients[i] \in DOMAIN ToolsOf /\ t \in ToolsOf[clients[i]]
    BY <1>1, <1>2 DEF Members, OffersOf
  <2> QED BY <2>1, McpAssumption DEF Markers
<1>3. CASE clients[i] = "proxy"
  <2>1. Head(mounts) \subseteq DOMAIN ToolsOf
    <3>1. mounts # <<>> /\ mounts \in Seq(SUBSET StdioServers)
      BY <1>1, <1>3 DEF McpTypeOK
    <3>2. Head(mounts) \in SUBSET StdioServers
      BY <3>1
    <3> QED BY <3>2, McpAssumption
  <2>2. PICK d \in Head(mounts) : t \in ToolsOf[d]
    BY <1>3 DEF OffersOf
  <2> QED BY <2>1, <2>2, McpAssumption DEF Markers
<1> QED BY <1>2, <1>3

\* The tools are shown, each of the first client that has it.
LEMMA ToolsListedKeeps == ASSUME McpInv, ToolsListed PROVE McpInv'
<1> DEFINE o == InOrder(lastUpdated, Rest)
<1>1. /\ purpose = "start" /\ toConnect = <<>> /\ purpose' = "idle" /\ missedAtStart' = missed
      /\ agentTools' = [t \in UNION {Offers(clients[i]) : i \in DOMAIN clients} |-> clients[First(Having(t))]]
      /\ UNCHANGED <<mcpRuntime, stdioConf, sseList, lastUpdated, mounts, toConnect, clients, missed, callAnswer>>
  BY DEF ToolsListed
<1>2. SessionInv /\ clients \in Seq(Members)
  BY <1>1 DEF McpInv, McpTypeOK
<1>3. Tried(o, clients, missed, toConnect) /\ callAnswer = NoMcpCall
  BY <1>1, <1>2 DEF SessionInv, SessionRest
<1>4. ASSUME NEW t \in DOMAIN agentTools'
      PROVE  /\ agentTools'[t] \in ItemsOf(o) /\ t \in OffersOf(mounts, agentTools'[t]) /\ t \notin Markers
             /\ \A u \in ItemsOf(o) : Rank(o, u) < Rank(o, agentTools'[t]) => u \in missed \/ t \notin OffersOf(mounts, u)
  <2> DEFINE i == First(Having(t))
  <2>1. agentTools'[t] = clients[i]
    BY <1>1
  <2>2. Having(t) # {}
    BY <1>1 DEF Having
  <2>3. /\ i \in DOMAIN clients /\ t \in OffersOf(mounts, clients[i])
        /\ \A j \in DOMAIN clients : j < i => t \notin OffersOf(mounts, clients[j])
    BY <1>2, <2>2, FirstHaving
  <2> HIDE DEF i
  <2>4. clients[i] \in ItemsOf(o)
    BY <1>3, <2>3 DEF Tried, ItemsOf
  <2>5. t \notin Markers
    BY <1>2, <2>3, ToolsNamed DEF McpInv, SessionInv, SessionRest
  <2>6. ASSUME NEW u \in ItemsOf(o), Rank(o, u) < Rank(o, clients[i]) PROVE u \in missed \/ t \notin OffersOf(mounts, u)
    <3>1. u \in missed \/ \E j \in DOMAIN clients : j < i /\ clients[j] = u
      BY <1>3, <2>3, <2>6 DEF Tried
    <3> QED BY <2>3, <3>1
  <2> QED BY <2>1, <2>3, <2>4, <2>5, <2>6
<1>5. ShownFirst(o, mounts, agentTools', missed)
  BY <1>4 DEF ShownFirst
<1>6. o' = o
  BY <1>1 DEF Rest, RestOf
<1>7. SessionRest'
  <2>1. /\ IF mcpRuntime' = "cli" THEN lastUpdated' = {} ELSE stdioConf' \subseteq lastUpdated'
        /\ "proxy" \in ItemsOf(clients') => mounts' # <<>>
        /\ Tried(o, clients', missed', toConnect')
    BY <1>1, <1>2 DEF SessionInv, SessionRest
  <2> QED BY <1>1, <1>5, <1>6, <2>1 DEF SessionRest, Markers
<1>8. \E n \in Nat : sseList' = WithProxies(n) /\ (n = 0 <=> lastUpdated' = {})
  BY <1>1, <1>2 DEF SessionInv
<1>9. McpTypeOK'
  BY <1>1 DEF McpInv, McpTypeOK
<1>10. McpKept'
  BY <1>1, <1>3 DEF McpKept, AnsweredByShown, ToolStaysThere, NoMcpCall
<1> QED BY <1>1, <1>7, <1>8, <1>9, <1>10 DEF McpInv, SessionInv

\* A call is answered by the first client that has the tool.
LEMMA CallEndsKeeps == ASSUME McpInv, CallEnds PROVE McpInv'
<1> DEFINE o == InOrder(lastUpdated, Rest)
           p == purpose
           a == agentTools[p]
<1>1. /\ p \notin Markers /\ toConnect = <<>> /\ purpose' = "idle"
      /\ callAnswer' = [tool |-> p, by |-> IF Having(p) = {} THEN "none" ELSE clients[First(Having(p))], missed |-> missed]
      /\ UNCHANGED <<mcpRuntime, stdioConf, sseList, lastUpdated, mounts, toConnect, clients, missed, missedAtStart, agentTools>>
  BY DEF CallEnds, MatchingClient, Markers
<1>2. SessionInv /\ clients \in Seq(Members) /\ o \in Seq(Members)
  BY <1>1, OrderType DEF McpInv, McpTypeOK, Markers
<1>3. /\ Tried(o, clients, missed, toConnect) /\ p \in DOMAIN agentTools
      /\ ShownFirst(o, mounts, agentTools, missedAtStart)
  BY <1>1, <1>2 DEF SessionInv, SessionRest, Markers
<1>4. /\ a \in ItemsOf(o) /\ p \in OffersOf(mounts, a)
      /\ \A u \in ItemsOf(o) : Rank(o, u) < Rank(o, a) => u \in missedAtStart \/ p \notin OffersOf(mounts, u)
  BY <1>3 DEF ShownFirst
<1>5. a \in missed \/ \E i \in DOMAIN clients : clients[i] = a
  BY <1>1, <1>3, <1>4 DEF Tried, ItemsOf
<1>6. Having(p) = {} => a \in missed
  BY <1>4, <1>5 DEF Having, Offers, OffersOf
<1>7. ASSUME Having(p) # {}, clients[First(Having(p))] # a
      PROVE  a \in missed \/ clients[First(Having(p))] \in missedAtStart
  <2> DEFINE i == First(Having(p))
  <2>1. /\ i \in DOMAIN clients /\ p \in OffersOf(mounts, clients[i])
        /\ \A j \in DOMAIN clients : j < i => p \notin OffersOf(mounts, clients[j])
    BY <1>2, <1>7, FirstHaving
  <2>2. clients[i] # a
    BY <1>7
  <2> HIDE DEF i
  <2>3. clients[i] \in ItemsOf(o)
    BY <1>3, <2>1 DEF Tried, ItemsOf
  <2>4. Rank(o, a) < Rank(o, clients[i]) \/ Rank(o, clients[i]) < Rank(o, a)
    BY <1>2, <1>4, <2>2, <2>3, RanksDiffer
  <2>5. CASE Rank(o, clients[i]) < Rank(o, a)
    BY <1>4, <2>1, <2>3, <2>5 DEF i
  <2>6. CASE Rank(o, a) < Rank(o, clients[i])
    <3>1. a \in missed \/ \E j \in DOMAIN clients : j < i /\ clients[j] = a
      BY <1>3, <1>4, <2>1, <2>6 DEF Tried
    <3> QED BY <1>4, <2>1, <3>1
  <2> QED BY <2>4, <2>5, <2>6
<1>8. Having(p) # {} => clients[First(Having(p))] # "none"
  <2> SUFFICES ASSUME Having(p) # {} PROVE clients[First(Having(p))] # "none"
    OBVIOUS
  <2>1. First(Having(p)) \in DOMAIN clients
    BY <1>2, FirstHaving
  <2>2. clients[First(Having(p))] \in Members
    BY <1>2, <2>1
  <2> QED BY <2>2, McpAssumption DEF Members
<1>9. McpKept'
  <2>1. CASE Having(p) = {}
    <3>1. callAnswer'.tool = p /\ callAnswer'.by = "none" /\ callAnswer'.missed = missed /\ agentTools' = agentTools
      BY <1>1, <2>1
    <3> QED BY <1>6, <2>1, <3>1 DEF McpKept, AnsweredByShown, ToolStaysThere
  <2>2. CASE Having(p) # {}
    <3>1. /\ callAnswer'.tool = p /\ callAnswer'.by = clients[First(Having(p))] /\ callAnswer'.missed = missed
          /\ agentTools' = agentTools /\ missedAtStart' = missedAtStart
      BY <1>1, <2>2
    <3> QED BY <1>7, <1>8, <2>2, <3>1 DEF McpKept, AnsweredByShown, ToolStaysThere
  <2> QED BY <2>1, <2>2
<1>10. o' = o
  BY <1>1 DEF Rest, RestOf
<1>11. SessionRest'
  <2>1. /\ IF mcpRuntime' = "cli" THEN lastUpdated' = {} ELSE stdioConf' \subseteq lastUpdated'
        /\ "proxy" \in ItemsOf(clients') => mounts' # <<>>
        /\ Tried(o, clients', missed', toConnect')
        /\ ShownFirst(o, mounts', agentTools', missedAtStart')
    BY <1>1, <1>2, <1>3 DEF SessionInv, SessionRest
  <2> HIDE DEF o, p, a
  <2> QED BY <1>1, <1>10, <2>1 DEF SessionRest, Markers, o
<1>12. \E n \in Nat : sseList' = WithProxies(n) /\ (n = 0 <=> lastUpdated' = {})
  BY <1>1, <1>2 DEF SessionInv
<1>13. McpTypeOK'
  BY <1>1 DEF McpInv, McpTypeOK
<1> QED BY <1>1, <1>9, <1>11, <1>12, <1>13 DEF McpInv, SessionInv

\* What is reachable is no part of the invariant.
LEMMA McpQuiet ==
  McpInv /\ UNCHANGED <<mcpRuntime, stdioConf, sseList, lastUpdated, mounts, toConnect, clients, missed, missedAtStart,
                        agentTools, purpose, callAnswer>> => McpInv'
BY DEF McpInv, McpTypeOK, McpKept, AnsweredByShown, ToolStaysThere, SessionInv, SessionRest, Rest

\* A step of another part keeps the invariant.
LEMMA McpFrame == McpInv /\ UNCHANGED mcpVars => McpInv'
BY McpQuiet DEF mcpVars

\* Every step keeps it.
LEMMA McpSteps == McpInv /\ McpNext => McpInv'
<1> SUFFICES ASSUME McpInv, McpNext PROVE McpInv'
  OBVIOUS
<1>1. ASSUME NEW s, ServerFails(s) \/ ServerBack(s) PROVE McpInv'
  BY <1>1, McpQuiet DEF ServerFails, ServerBack
<1> QED BY <1>1, UpdateRefusedKeeps, SessionBeginsKeeps, CallBeginsKeeps, ConnectsNextKeeps, ToolsListedKeeps, CallEndsKeeps
  DEF McpNext

-----------------------------------------------------------------------------
(* LlmUsage: every call is counted once, in whichever session.               *)

Metrics == [tokens : Nat, cost : Nat, there : BOOLEAN]
LlmCall == [service : LlmServices, attempt : Nat, warm : BOOLEAN, asStep : BOOLEAN]

UsageTypeOK ==
  /\ kept \in [LlmServices -> Metrics] /\ restored \in [LlmServices -> Metrics]
  /\ statsFile \in [LlmServices -> Metrics] /\ priced \in [LlmServices -> BOOLEAN]
  /\ used \in [LlmServices -> Nat] /\ forgotten \in [LlmServices -> Nat]
  /\ owed \in Nat /\ billed \in Nat /\ routed \in BOOLEAN
  /\ call \in LlmCall \cup {NoCall}

\* A service has metrics if and only if it is there, and never more cost than tokens.
WellKept(m) == /\ m.cost <= m.tokens
               /\ ~m.there => m = NoMetrics

\* What a running server has of a service: its client, which took over what was saved and
\* has counted since, or what was saved.
KeptOrRestored(s) ==
  /\ kept[s].there => statsFile[s].tokens <= kept[s].tokens
  /\ ~kept[s].there => restored[s] = statsFile[s]

UsageInv ==
  /\ UsageTypeOK /\ UsageBooks
  /\ \A s \in LlmServices : WellKept(kept[s]) /\ WellKept(statsFile[s]) /\ WellKept(restored[s])
  /\ kept = NoUsage <=> ~kept["agent"].there
  /\ kept["agent"].there => \A s \in LlmServices : KeptOrRestored(s)
  /\ call # NoCall => kept[call.service].there

\* The invariant holds at first.
LEMMA UsageStarts == UsageInit => UsageInv
BY DEF UsageInit, UsageInv, UsageTypeOK, UsageBooks, NothingCountedTwice, StepsBilled, OnRecord, WellKept,
       KeptOrRestored, Metrics, NoMetrics, NoUsage, Zero, LlmServices, LlmCall

\* Two functions to metrics are equal if they are equal for every service.
LEMMA SameMetrics ==
  ASSUME NEW f \in [LlmServices -> Metrics], NEW g \in [LlmServices -> Metrics]
  PROVE  f = g <=> \A s \in LlmServices : f[s] = g[s]
OBVIOUS

\* What a client takes over has the tokens and the cost that were saved.
LEMMA TakenKeeps ==
  ASSUME NEW s \in LlmServices, NEW f, f[s] \in Metrics, WellKept(f[s])
  PROVE  /\ Taken(s, f) \in Metrics /\ Taken(s, f).there /\ WellKept(Taken(s, f))
         /\ Taken(s, f).tokens = f[s].tokens /\ Taken(s, f).cost = f[s].cost
<1>1. PICK m \in Metrics : m = f[s]
  OBVIOUS
<1>2. CASE m.there
  BY <1>1, <1>2 DEF Taken
<1>3. CASE ~m.there
  BY <1>1, <1>3 DEF Taken, WellKept, Metrics, EmptyMetrics, NoMetrics
<1> QED BY <1>2, <1>3

\* A session takes over the saved metrics of its clients and leaves the others' in place.
LEMMA SessionBeginsKeepsBooks ==
  ASSUME UsageInv, SessionBegins PROVE UsageInv'
<1> DEFINE S == IF routed THEN {"agent", "secondary"} ELSE {"agent"}
<1>1. /\ kept = NoUsage /\ kept' = Registered(S, NoUsage, statsFile) /\ restored' = Left(S, statsFile)
      /\ priced' = [s \in LlmServices |-> TRUE]
      /\ UNCHANGED <<routed, statsFile, call, used, forgotten, owed, billed>>
  BY DEF SessionBegins
<1>2. S \subseteq LlmServices /\ "agent" \in S
  BY DEF LlmServices
<1> HIDE DEF S
<1>3. NoUsage \in [LlmServices -> Metrics] /\ ~NoUsage["agent"].there /\ \A s \in LlmServices : NoUsage[s] = NoMetrics
  BY DEF NoUsage, NoMetrics, Metrics, LlmServices
<1>4. \A s \in LlmServices : /\ WellKept(statsFile[s]) /\ statsFile[s] \in Metrics
                             /\ Taken(s, statsFile) \in Metrics /\ Taken(s, statsFile).there
                             /\ WellKept(Taken(s, statsFile)) /\ Taken(s, statsFile).tokens = statsFile[s].tokens
                             /\ Taken(s, statsFile).cost = statsFile[s].cost
  BY TakenKeeps DEF UsageInv, UsageTypeOK
<1>5. /\ kept' = [s \in LlmServices |-> IF s \in S THEN Taken(s, statsFile) ELSE NoMetrics]
      /\ restored' = [s \in LlmServices |-> IF s \in S THEN NoMetrics ELSE statsFile[s]]
  BY <1>1, <1>3 DEF Registered, Left
<1>6. NoMetrics \in Metrics /\ WellKept(NoMetrics) /\ ~NoMetrics.there /\ NoMetrics.tokens = 0 /\ NoMetrics.cost = 0
  BY DEF NoMetrics, Metrics, WellKept
<1>7. UsageTypeOK'
  BY <1>1, <1>4, <1>5, <1>6 DEF UsageInv, UsageTypeOK
<1>8. kept'["agent"].there /\ kept' # NoUsage
  BY <1>2, <1>3, <1>4, <1>5
<1>9. NothingCountedTwice'
  <2> SUFFICES ASSUME NEW s \in LlmServices
               PROVE  /\ OnRecord(s)'.tokens + forgotten'[s] = used'[s]
                      /\ OnRecord(s)'.cost <= OnRecord(s)'.tokens
    BY DEF NothingCountedTwice
  <2>1. OnRecord(s) = statsFile[s]
    BY <1>1, <1>3 DEF OnRecord
  <2>2. statsFile[s].tokens + forgotten[s] = used[s] /\ statsFile[s].cost <= statsFile[s].tokens
    BY <2>1 DEF UsageInv, UsageBooks, NothingCountedTwice
  <2>3. OnRecord(s)'.tokens = statsFile[s].tokens /\ OnRecord(s)'.cost = statsFile[s].cost
    BY <1>4, <1>5, <1>6, <1>8 DEF OnRecord
  <2> QED BY <1>1, <2>2, <2>3
<1>10. \A s \in LlmServices : WellKept(kept[s])' /\ WellKept(statsFile[s])' /\ WellKept(restored[s])'
  BY <1>1, <1>4, <1>5, <1>6 DEF WellKept
<1>11. \A s \in LlmServices : KeptOrRestored(s)'
  <2> SUFFICES ASSUME NEW s \in LlmServices PROVE KeptOrRestored(s)'
    OBVIOUS
  <2>1. CASE s \in S
    BY <1>1, <1>4, <1>5, <2>1 DEF KeptOrRestored, Metrics
  <2>2. CASE s \notin S
    BY <1>1, <1>5, <1>6, <2>2 DEF KeptOrRestored
  <2> QED BY <2>1, <2>2
<1>12. call = NoCall
  <2> SUFFICES ASSUME call # NoCall PROVE FALSE
    OBVIOUS
  <2>1. call.service \in LlmServices /\ kept[call.service].there
    BY DEF UsageInv, UsageTypeOK, LlmCall
  <2> QED BY <1>1, <1>3, <1>6, <2>1
<1>13. StepsBilled'
  BY <1>1 DEF StepsBilled, UsageInv, UsageBooks
<1> QED BY <1>1, <1>7, <1>8, <1>9, <1>10, <1>11, <1>12, <1>13 DEF UsageInv, UsageBooks

\* A client that is made late takes over what was restored for it.
LEMMA MakesClientKeepsBooks ==
  ASSUME UsageInv, MakesClient PROVE UsageInv'
<1>1. /\ kept["agent"].there /\ ~kept["title"].there
      /\ kept' = [s \in LlmServices |-> IF s = "title" THEN Taken(s, restored) ELSE kept[s]]
      /\ restored' = [s \in LlmServices |-> IF s = "title" THEN NoMetrics ELSE restored[s]]
      /\ UNCHANGED <<routed, statsFile, priced, call, used, forgotten, owed, billed>>
  BY DEF MakesClient, Registered, Left
<1>2. "agent" \in LlmServices /\ "title" \in LlmServices /\ "agent" # "title"
  BY DEF LlmServices
<1>3. /\ Taken("title", restored) \in Metrics /\ Taken("title", restored).there /\ WellKept(Taken("title", restored))
      /\ Taken("title", restored).tokens = restored["title"].tokens
      /\ Taken("title", restored).cost = restored["title"].cost
      /\ restored["title"] = statsFile["title"]
  <2>1. restored["title"] \in Metrics /\ WellKept(restored["title"])
    BY <1>2 DEF UsageInv, UsageTypeOK
  <2>2. restored["title"] = statsFile["title"]
    BY <1>1, <1>2 DEF UsageInv, KeptOrRestored
  <2> QED BY <1>2, <2>1, <2>2, TakenKeeps
<1>4. NoMetrics \in Metrics /\ WellKept(NoMetrics)
  BY DEF NoMetrics, Metrics, WellKept
<1>5. UsageTypeOK'
  BY <1>1, <1>3, <1>4 DEF UsageInv, UsageTypeOK
<1>6. kept'["agent"].there /\ kept' # NoUsage
  BY <1>1, <1>2 DEF NoUsage, NoMetrics
<1>7. NothingCountedTwice'
  <2> SUFFICES ASSUME NEW s \in LlmServices
               PROVE  /\ OnRecord(s)'.tokens + forgotten'[s] = used'[s]
                      /\ OnRecord(s)'.cost <= OnRecord(s)'.tokens
    BY DEF NothingCountedTwice
  <2>1. OnRecord(s).tokens + forgotten[s] = used[s] /\ OnRecord(s).cost <= OnRecord(s).tokens
    BY DEF UsageInv, UsageBooks, NothingCountedTwice
  <2>2. OnRecord(s)'.tokens = OnRecord(s).tokens /\ OnRecord(s)'.cost = OnRecord(s).cost
    BY <1>1, <1>2, <1>3, <1>6 DEF OnRecord
  <2> QED BY <1>1, <2>1, <2>2
<1>8. \A s \in LlmServices : WellKept(kept[s])' /\ WellKept(statsFile[s])' /\ WellKept(restored[s])'
  BY <1>1, <1>3, <1>4 DEF WellKept, UsageInv
<1>9. \A s \in LlmServices : KeptOrRestored(s)'
  <2> SUFFICES ASSUME NEW s \in LlmServices PROVE KeptOrRestored(s)'
    OBVIOUS
  <2>1. CASE s = "title"
    <3>1. statsFile["title"].tokens \in Nat
      BY <1>2 DEF UsageInv, UsageTypeOK, Metrics
    <3> QED BY <1>1, <1>2, <1>3, <2>1, <3>1 DEF KeptOrRestored
  <2>2. CASE s # "title"
    BY <1>1, <2>2 DEF KeptOrRestored, UsageInv
  <2> QED BY <2>1, <2>2
<1>10. call # NoCall => kept'[call.service].there
  <2> SUFFICES ASSUME call # NoCall PROVE kept'[call.service].there
    OBVIOUS
  <2>1. call.service \in LlmServices /\ kept[call.service].there
    BY DEF UsageInv, UsageTypeOK, LlmCall
  <2> QED BY <1>1, <1>3, <2>1
<1>11. StepsBilled'
  BY <1>1 DEF StepsBilled, UsageInv, UsageBooks
<1> QED BY <1>1, <1>5, <1>6, <1>7, <1>8, <1>9, <1>10, <1>11 DEF UsageInv, UsageBooks

\* A call is made of a client that is there; until it returns it only changes itself.
LEMMA CallUnderWayKeepsBooks ==
  ASSUME UsageInv, UNCHANGED <<routed, bookVars>>,
         call' = NoCall \/ (call' \in LlmCall /\ kept[call'.service].there)
  PROVE  UsageInv'
<1>1. UNCHANGED <<routed, kept, restored, statsFile, priced, used, forgotten, owed, billed>>
  BY DEF bookVars
<1>2. UsageTypeOK'
  BY <1>1 DEF UsageInv, UsageTypeOK
<1>3. NothingCountedTwice' /\ StepsBilled'
  BY <1>1 DEF UsageInv, UsageBooks, NothingCountedTwice, StepsBilled, OnRecord
<1>4. \A s \in LlmServices : KeptOrRestored(s)' <=> KeptOrRestored(s)
  BY <1>1 DEF KeptOrRestored
<1>5. \A s \in LlmServices : WellKept(kept[s])' /\ WellKept(statsFile[s])' /\ WellKept(restored[s])'
  BY <1>1 DEF UsageInv, WellKept
<1> QED BY <1>1, <1>2, <1>3, <1>4, <1>5 DEF UsageInv, UsageBooks

\* An answer is added to the metrics of its client and to the user's bill.
LEMMA AnswersKeepsBooks ==
  ASSUME UsageInv, Answers PROVE UsageInv'
<1>1. PICK n \in 1..2, known \in BOOLEAN :
        /\ call # NoCall /\ kept' = Recorded(call.service, n, known)
        /\ priced' = [priced EXCEPT ![call.service] = CostKnown(call.service, known)]
        /\ used' = [used EXCEPT ![call.service] = @ + n]
        /\ owed' = (IF call.asStep THEN owed + n ELSE owed)
        /\ billed' = billed + Bill(call.service, n) /\ call' = NoCall
        /\ UNCHANGED <<routed, restored, statsFile, forgotten>>
  BY DEF Answers, Finishes
<1> DEFINE c == call.service
<1>2. c \in LlmServices /\ kept[c].there /\ call.asStep \in BOOLEAN
  BY <1>1 DEF UsageInv, UsageTypeOK, LlmCall
<1>3. n \in Nat
  OBVIOUS
<1> HIDE DEF c
<1>4. kept[c] \in Metrics /\ priced[c] \in BOOLEAN
  BY <1>2 DEF UsageInv, UsageTypeOK
<1>5. PICK m \in Metrics :
        /\ kept' = [kept EXCEPT ![c] = m] /\ m.there
        /\ m.tokens = kept[c].tokens + n /\ m.cost \in {kept[c].cost, kept[c].cost + n}
  <2> DEFINE m == [kept[c] EXCEPT !.tokens = @ + n, !.cost = IF CostKnown(c, known) THEN @ + n ELSE @]
  <2>1. m \in Metrics /\ m.there /\ m.tokens = kept[c].tokens + n /\ m.cost \in {kept[c].cost, kept[c].cost + n}
    <3>1. PICK d \in {0, n} : m = [kept[c] EXCEPT !.tokens = @ + n, !.cost = @ + d]
      <4>1. CASE CostKnown(c, known)
        BY <4>1
      <4>2. CASE ~CostKnown(c, known)
        <5>1. kept[c].cost + 0 = kept[c].cost
          BY <1>4 DEF Metrics
        <5> QED BY <1>4, <4>2, <5>1
      <4> QED BY <4>1, <4>2
    <3> HIDE DEF m
    <3>2. d \in Nat /\ kept[c].tokens \in Nat /\ kept[c].cost \in Nat
      BY <1>3, <1>4 DEF Metrics
    <3>3. kept[c].tokens + n \in Nat /\ kept[c].cost + d \in Nat /\ kept[c].cost + 0 = kept[c].cost
      BY <1>3, <3>2
    <3>4. m \in Metrics /\ m.there = kept[c].there /\ m.tokens = kept[c].tokens + n /\ m.cost = kept[c].cost + d
      BY <1>4, <3>1, <3>3 DEF Metrics
    <3> QED BY <1>2, <3>3, <3>4
  <2>2. kept' = [kept EXCEPT ![c] = m]
    BY <1>1, <1>2 DEF Recorded, c, UsageInv, UsageTypeOK
  <2> QED BY <2>1, <2>2
<1>6. \A s \in LlmServices : kept'[s] = (IF s = c THEN m ELSE kept[s]) /\ kept'[s].there = kept[s].there
  BY <1>2, <1>5 DEF UsageInv, UsageTypeOK, Metrics
<1>7. kept' \in [LlmServices -> Metrics]
  BY <1>2, <1>5 DEF UsageInv, UsageTypeOK
<1>8. Bill(c, n) \in Nat /\ (IF routed THEN Bill(c, n) = 0 ELSE owed' = owed + Bill(c, n)) /\ owed' \in Nat
  BY <1>1, <1>2, <1>3 DEF Bill, UsageInv, UsageTypeOK, c
<1>9. UsageTypeOK'
  BY <1>1, <1>2, <1>3, <1>7, <1>8 DEF UsageInv, UsageTypeOK, CostKnown, c
<1>10. StepsBilled'
  <2>1. IF routed THEN billed = 0 ELSE billed = owed
    BY DEF UsageInv, UsageBooks, StepsBilled
  <2>2. billed \in Nat /\ owed \in Nat
    BY DEF UsageInv, UsageTypeOK
  <2>3. billed' = billed + Bill(c, n)
    BY <1>1 DEF c
  <2>4. IF routed THEN billed' = 0 ELSE billed' = owed'
    BY <1>8, <2>1, <2>2, <2>3
  <2> QED BY <1>1, <2>4 DEF StepsBilled
<1>11. NothingCountedTwice'
  <2> SUFFICES ASSUME NEW s \in LlmServices
               PROVE  /\ OnRecord(s)'.tokens + forgotten'[s] = used'[s]
                      /\ OnRecord(s)'.cost <= OnRecord(s)'.tokens
    BY DEF NothingCountedTwice
  <2>1. OnRecord(s).tokens + forgotten[s] = used[s] /\ OnRecord(s).cost <= OnRecord(s).tokens
    BY DEF UsageInv, UsageBooks, NothingCountedTwice
  <2>2. "agent" \in LlmServices
    BY DEF LlmServices
  <2>3. kept["agent"].there
    <3> SUFFICES ASSUME ~kept["agent"].there PROVE FALSE
      OBVIOUS
    <3>1. kept = NoUsage
      BY DEF UsageInv
    <3> QED BY <1>2, <3>1 DEF NoUsage, NoMetrics
  <2>4. kept'["agent"].there
    BY <1>6, <2>2, <2>3
  <2>5. CASE s = c
    <3>1. OnRecord(s) = kept[c] /\ OnRecord(s)' = m
      BY <1>2, <1>5, <1>6, <2>3, <2>4, <2>5 DEF OnRecord
    <3>2. used[s] \in Nat /\ forgotten[s] \in Nat /\ used'[s] = used[s] + n /\ forgotten'[s] = forgotten[s]
      BY <1>1, <1>3, <2>5 DEF UsageInv, UsageTypeOK, c
    <3>3. kept[c].tokens \in Nat /\ kept[c].cost \in Nat
      BY <1>4 DEF Metrics
    <3> QED BY <1>3, <1>5, <2>1, <3>1, <3>2, <3>3
  <2>6. CASE s # c
    <3>1. OnRecord(s)' = OnRecord(s)
      BY <1>1, <1>6, <2>3, <2>4, <2>6 DEF OnRecord
    <3>2. used'[s] = used[s] /\ forgotten'[s] = forgotten[s]
      BY <1>1, <2>6 DEF UsageInv, UsageTypeOK, c
    <3> QED BY <2>1, <3>1, <3>2
  <2> QED BY <2>5, <2>6
<1>12. \A s \in LlmServices : WellKept(kept[s])' /\ WellKept(statsFile[s])' /\ WellKept(restored[s])'
  <2>1. WellKept(kept[c]) /\ kept[c].tokens \in Nat /\ kept[c].cost \in Nat
    BY <1>2, <1>4 DEF UsageInv, Metrics
  <2>2. WellKept(m)
    BY <1>3, <1>5, <2>1 DEF WellKept
  <2> QED BY <1>1, <1>6, <2>2 DEF UsageInv, WellKept
<1>13. kept' = NoUsage <=> ~kept'["agent"].there
  <2>1. kept' # NoUsage
    BY <1>2, <1>6 DEF NoUsage, NoMetrics
  <2>2. kept # NoUsage
    BY <1>2 DEF NoUsage, NoMetrics
  <2> QED BY <1>6, <2>1, <2>2 DEF UsageInv, LlmServices
<1>14. kept'["agent"].there => \A s \in LlmServices : KeptOrRestored(s)'
  <2> SUFFICES ASSUME kept'["agent"].there, NEW s \in LlmServices PROVE KeptOrRestored(s)'
    OBVIOUS
  <2>1. KeptOrRestored(s)
    BY <1>6 DEF UsageInv, LlmServices
  <2>2. statsFile[s].tokens \in Nat /\ kept[s].tokens \in Nat
    BY DEF UsageInv, UsageTypeOK, Metrics
  <2>3. kept[s].tokens <= kept'[s].tokens
    BY <1>3, <1>5, <1>6, <2>2
  <2>4. kept'[s].tokens \in Nat
    BY <1>7 DEF Metrics
  <2>5. /\ kept'[s].there => statsFile[s].tokens <= kept'[s].tokens
        /\ ~kept'[s].there => restored[s] = statsFile[s]
    BY <1>6, <2>1, <2>2, <2>3, <2>4 DEF KeptOrRestored
  <2> QED BY <1>1, <2>5 DEF KeptOrRestored
<1> QED BY <1>1, <1>9, <1>10, <1>11, <1>12, <1>13, <1>14 DEF UsageInv, UsageBooks

\* What is saved is what is on record.
LEMMA SavesMetricsKeepsBooks ==
  ASSUME UsageInv, SavesMetrics PROVE UsageInv'
<1>1. /\ kept["agent"].there
      /\ statsFile' = [s \in LlmServices |-> IF kept[s].there THEN kept[s] ELSE restored[s]]
      /\ UNCHANGED <<routed, kept, restored, priced, used, forgotten, owed, billed, call>>
  BY DEF SavesMetrics
<1>2. UsageTypeOK'
  BY <1>1 DEF UsageInv, UsageTypeOK
<1>3. NothingCountedTwice' /\ StepsBilled'
  BY <1>1 DEF UsageInv, UsageBooks, NothingCountedTwice, StepsBilled, OnRecord
<1>4. \A s \in LlmServices : WellKept(kept[s])' /\ WellKept(statsFile[s])' /\ WellKept(restored[s])'
  BY <1>1 DEF UsageInv, WellKept
<1>5. \A s \in LlmServices : KeptOrRestored(s)'
  BY <1>1 DEF UsageInv, UsageTypeOK, Metrics, KeptOrRestored
<1> QED BY <1>1, <1>2, <1>3, <1>4, <1>5 DEF UsageInv, UsageBooks

\* A server that stops forgets what it has not saved.
LEMMA ServerStopsKeepsBooks ==
  ASSUME UsageInv, ServerStops PROVE UsageInv'
<1>1. /\ kept # NoUsage /\ kept' = NoUsage /\ restored' = NoUsage /\ call' = NoCall
      /\ forgotten' = [s \in LlmServices |->
            IF kept[s].there THEN forgotten[s] + kept[s].tokens - statsFile[s].tokens ELSE forgotten[s]]
      /\ UNCHANGED <<routed, statsFile, priced, used, owed, billed>>
  BY DEF ServerStops
<1>2. kept["agent"].there /\ \A s \in LlmServices : KeptOrRestored(s)
  BY <1>1 DEF UsageInv
<1>3. \A s \in LlmServices :
        /\ kept[s].tokens \in Nat /\ statsFile[s].tokens \in Nat /\ statsFile[s].cost \in Nat
        /\ forgotten[s] \in Nat /\ used[s] \in Nat
  BY DEF UsageInv, UsageTypeOK, Metrics
<1>4. NoUsage \in [LlmServices -> Metrics] /\ ~NoUsage["agent"].there /\ \A s \in LlmServices : WellKept(NoUsage[s])
  BY DEF NoUsage, NoMetrics, Metrics, LlmServices, WellKept
<1>5. \A s \in LlmServices : forgotten'[s] \in Nat /\ statsFile[s].tokens + forgotten'[s] = used[s]
  <2> SUFFICES ASSUME NEW s \in LlmServices
               PROVE  forgotten'[s] \in Nat /\ statsFile[s].tokens + forgotten'[s] = used[s]
    OBVIOUS
  <2>1. OnRecord(s).tokens + forgotten[s] = used[s]
    BY DEF UsageInv, UsageBooks, NothingCountedTwice
  <2>2. CASE kept[s].there
    <3>1. OnRecord(s) = kept[s] /\ statsFile[s].tokens <= kept[s].tokens
      BY <1>2, <2>2 DEF OnRecord, KeptOrRestored
    <3>2. forgotten'[s] = forgotten[s] + kept[s].tokens - statsFile[s].tokens
      BY <1>1, <2>2
    <3> QED BY <1>3, <2>1, <3>1, <3>2
  <2>3. CASE ~kept[s].there
    <3>1. OnRecord(s) = statsFile[s]
      BY <1>2, <2>3 DEF OnRecord, KeptOrRestored
    <3> QED BY <1>1, <1>3, <2>1, <2>3, <3>1
  <2> QED BY <2>2, <2>3
<1>6. forgotten' \in [LlmServices -> Nat]
  BY <1>1, <1>5
<1>7. UsageTypeOK'
  BY <1>1, <1>4, <1>6 DEF UsageInv, UsageTypeOK
<1>8. NothingCountedTwice'
  <2> SUFFICES ASSUME NEW s \in LlmServices
               PROVE  /\ OnRecord(s)'.tokens + forgotten'[s] = used'[s]
                      /\ OnRecord(s)'.cost <= OnRecord(s)'.tokens
    BY DEF NothingCountedTwice
  <2>1. OnRecord(s)' = statsFile[s]
    BY <1>1, <1>4 DEF OnRecord
  <2>2. statsFile[s].cost <= statsFile[s].tokens
    <3>1. WellKept(statsFile[s])
      BY DEF UsageInv
    <3> QED BY <3>1 DEF WellKept
  <2> QED BY <1>1, <1>5, <2>1, <2>2
<1>9. StepsBilled'
  BY <1>1 DEF StepsBilled, UsageInv, UsageBooks
<1>10. \A s \in LlmServices : WellKept(kept[s])' /\ WellKept(statsFile[s])' /\ WellKept(restored[s])'
  BY <1>1, <1>4 DEF UsageInv, WellKept
<1> QED BY <1>1, <1>4, <1>7, <1>8, <1>9, <1>10 DEF UsageInv, UsageBooks

\* A step of another part keeps the invariant.
LEMMA UsageFrame == UsageInv /\ UNCHANGED usageVars => UsageInv'
<1> SUFFICES ASSUME UsageInv, UNCHANGED usageVars PROVE UsageInv'
  OBVIOUS
<1>1. UNCHANGED <<routed, bookVars>> /\ call' = call
  BY DEF usageVars, bookVars
<1>2. call' = NoCall \/ (call' \in LlmCall /\ kept[call'.service].there)
  BY <1>1 DEF UsageInv, UsageTypeOK
<1> QED BY <1>1, <1>2, CallUnderWayKeepsBooks

\* Every step keeps it.
LEMMA UsageSteps == UsageInv /\ UsageNext => UsageInv'
<1> SUFFICES ASSUME UsageInv, UsageNext PROVE UsageInv'
  OBVIOUS
<1>1. ASSUME NEW s \in LlmServices, NEW b \in BOOLEAN, Asks(s, b) PROVE UsageInv'
  <2>1. UNCHANGED <<routed, bookVars>> /\ kept[s].there
    BY <1>1 DEF Asks
  <2>2. call' \in LlmCall /\ call'.service = s
    BY <1>1 DEF Asks, LlmCall
  <2> QED BY <2>1, <2>2, CallUnderWayKeepsBooks
<1>2. CASE StepAsks
  <2>1. \E s \in LlmServices, b \in BOOLEAN : Asks(s, b)
    BY <1>2 DEF StepAsks, LlmServices
  <2> QED BY <1>1, <2>1
<1>3. CASE TitleAsks
  BY <1>1, <1>3 DEF TitleAsks, LlmServices
<1>4. ASSUME NEW kind \in {"rate", "empty", "shutdown"}, AttemptFails(kind) PROVE UsageInv'
  <2>1. UNCHANGED <<routed, bookVars>>
    BY <1>4 DEF AttemptFails
  <2>2. call \in LlmCall /\ kept[call.service].there
    BY <1>4 DEF AttemptFails, UsageInv, UsageTypeOK
  <2>3. call' = NoCall \/ (call' \in LlmCall /\ call'.service = call.service)
    <3>1. CASE call' = NoCall
      BY <3>1
    <3>2. CASE call' = [call EXCEPT !.attempt = @ + 1, !.warm = @ \/ kind = "empty"]
      <4>1. PICK w \in BOOLEAN : w = (call.warm \/ kind = "empty")
        OBVIOUS
      <4>2. call' = [call EXCEPT !.attempt = @ + 1, !.warm = w]
        BY <3>2, <4>1
      <4>3. call.attempt + 1 \in Nat
        BY <2>2 DEF LlmCall
      <4> QED BY <2>2, <4>2, <4>3 DEF LlmCall
    <3> QED BY <1>4, <3>1, <3>2 DEF AttemptFails, Finishes
  <2> QED BY <2>1, <2>2, <2>3, CallUnderWayKeepsBooks
<1>5. CASE AttemptRaises
  <2>1. UNCHANGED <<routed, bookVars>> /\ call' = NoCall
    BY <1>5 DEF AttemptRaises, Finishes
  <2> QED BY <2>1, CallUnderWayKeepsBooks
<1> QED BY <1>2, <1>3, <1>4, <1>5, SessionBeginsKeepsBooks, MakesClientKeepsBooks, AnswersKeepsBooks,
           SavesMetricsKeepsBooks, ServerStopsKeepsBooks DEF UsageNext

-----------------------------------------------------------------------------
(* AppConversations: rows, their parents and their deletion.                 *)

NoneOr(S) == {0} \cup S
Row == [parent : NoneOr(AppConvs), title : {"default", "generated", "user"}, box : NoneOr(AppConvs)]
ConvBoxes == {"none", "starting", "up", "paused", "gone"}
StartStages == {"none", "working", "waiting", "polling", "preparing", "script", "skills", "building", "starting",
                "storing", "callbacks", "ready", "error", "abandoned"}
StartTask == [stage : StartStages, parent : NoneOr(AppConvs), box : NoneOr(AppConvs), seen : ConvBoxes]
RowWriter == [kind : {"update", "title", "rename", "poll"}, conv : AppConvs, read : Row \cup {NoRow},
              box : NoneOr(AppConvs)]

ConvTypeOK ==
  /\ rows \in [AppConvs -> Row \cup {NoRow}]
  /\ startTask \in [AppConvs -> StartTask]
  /\ appBox \in [AppConvs -> ConvBoxes]
  /\ writers \subseteq RowWriter
  /\ callback \in [AppConvs -> {"none", "active", "disabled"}]
  /\ deleting = [c \in AppConvs |-> deleting[c]]
  /\ \A c \in AppConvs : /\ deleting[c] = [todo |-> deleting[c].todo, all |-> deleting[c].all,
                                           on |-> deleting[c].on, box |-> deleting[c].box]
                         /\ deleting[c].all \subseteq AppConvs /\ deleting[c].on \in BOOLEAN
                         /\ deleting[c].box \in NoneOr(AppConvs)
  /\ erased \subseteq AppConvs /\ inAgent \subseteq AppConvs

\* What is not started has no row, and nobody is about to write one.
NotStarted(c) ==
  AtStage(c, "none") => /\ rows[c] = NoRow /\ c \notin inAgent
                        /\ \A w \in writers : w.conv # c

\* What a request has read has the parent its start asked for, and is a row unless the
\* agent server reports.
ReadsKept(w) ==
  /\ w.read = NoRow => w.kind = "update"
  /\ w.read # NoRow /\ w.kind # "update" => w.read.parent = startTask[w.conv].parent \/ w.conv \in unlinked

\* A deletion whose commit will take the conversation takes its sub-conversations with it,
\* but those that are late and those it failed to delete.
ListedOrLate(c) ==
  deleting[c].on /\ c \in deleting[c].all =>
    \A x \in AppConvs : rows[x] # NoRow /\ rows[x].parent = c =>
      x \in deleting[c].all \/ x \in late \/ x \in spared

\* After the row is stored there is one, or the conversation was deleted.
StoredOnce(c) ==
  startTask[c].stage \in {"callbacks", "ready"} => rows[c] # NoRow \/ c \in erased

ConvInv ==
  /\ ConvTypeOK /\ ConversationBooks
  /\ \A c \in AppConvs : NotStarted(c) /\ ListedOrLate(c) /\ StoredOnce(c)
  /\ \A w \in writers : ReadsKept(w)

\* The row that is none is no row.
LEMMA RowsAreRows == \A r \in Row : r # NoRow
BY DEF Row, NoRow

\* The invariant holds at first.
LEMMA ConvStarts == ConvInit => ConvInv
<1> SUFFICES ASSUME ConvInit PROVE ConvInv
  OBVIOUS
<1>1. /\ rows = [c \in AppConvs |-> NoRow] /\ inAgent = {} /\ startTask = [c \in AppConvs |-> NoTask]
      /\ callback = [c \in AppConvs |-> "none"] /\ appBox = [c \in AppConvs |-> "none"] /\ writers = {}
      /\ deleting = [c \in AppConvs |-> NoDelete] /\ erased = {} /\ late = {} /\ unlinked = {}
  BY DEF ConvInit
<1>2. NoTask \in StartTask /\ NoTask.stage = "none"
  BY DEF NoTask, StartTask, StartStages, ConvBoxes, NoneOr
<1>3. /\ NoDelete = [todo |-> NoDelete.todo, all |-> NoDelete.all, on |-> NoDelete.on, box |-> NoDelete.box]
      /\ NoDelete.all = {} /\ NoDelete.on = FALSE /\ NoDelete.box = 0
  BY DEF NoDelete
<1>4. ConvTypeOK
  BY <1>1, <1>2, <1>3 DEF ConvTypeOK, ConvBoxes, NoneOr
<1>5. ConversationBooks
  BY <1>1, <1>2 DEF ConversationBooks, NoOrphans, ParentKept, ReadyIsStored, AtStage
<1>6. \A c \in AppConvs : NotStarted(c) /\ ListedOrLate(c) /\ StoredOnce(c)
  BY <1>1, <1>2, <1>3 DEF NotStarted, ListedOrLate, StoredOnce, AtStage
<1> QED BY <1>1, <1>4, <1>5, <1>6 DEF ConvInv

\* A step that moves the start of a conversation on, or none, and may create it at its
\* agent server, or change the sandboxes: it becomes ready only from having its callback saved.
LEMMA StartMovesOn ==
  ASSUME ConvInv, ConvTypeOK', NEW c \in AppConvs, NEW s \in StartStages,
         startTask' = [startTask EXCEPT ![c] = startTask'[c]],
         startTask'[c].stage = s, startTask'[c].parent = startTask[c].parent,
         s # "none", s = "callbacks" => startTask[c].stage = "callbacks",
         s = "ready" => startTask[c].stage \in {"ready", "callbacks"} /\ callback'[c] # "none",
         \A x \in AppConvs : callback[x] # "none" => callback'[x] # "none",
         inAgent' \subseteq inAgent \cup {c},
         UNCHANGED <<rows, writers, deleting, erased, below, spared, late, unlinked>>
  PROVE  ConvInv'
<1>1. \A x \in AppConvs : /\ x # c => startTask'[x] = startTask[x]
                          /\ startTask'[x].parent = startTask[x].parent
  BY DEF ConvInv, ConvTypeOK
<1>2. NoOrphans' /\ ParentKept'
  BY <1>1 DEF ConvInv, ConversationBooks, NoOrphans, ParentKept
<1>3. ReadyIsStored'
  <2> SUFFICES ASSUME NEW x \in AppConvs, startTask'[x].stage = "ready"
               PROVE  callback'[x] # "none" /\ (rows[x] # NoRow \/ x \in erased)
    BY DEF ReadyIsStored, AtStage
  <2>1. CASE x = c
    BY <2>1 DEF ConvInv, StoredOnce
  <2>2. CASE x # c
    BY <1>1, <2>2 DEF ConvInv, ConversationBooks, ReadyIsStored, AtStage
  <2> QED BY <2>1, <2>2
<1>4. \A x \in AppConvs : NotStarted(x)'
  <2> SUFFICES ASSUME NEW x \in AppConvs, startTask'[x].stage = "none" PROVE NotStarted(x)'
    BY DEF NotStarted, AtStage
  <2>1. x # c
    OBVIOUS
  <2>2. NotStarted(x) /\ startTask'[x] = startTask[x]
    BY <1>1, <2>1 DEF ConvInv
  <2> QED BY <2>1, <2>2 DEF NotStarted, AtStage
<1>5. \A x \in AppConvs : ListedOrLate(x)'
  BY DEF ConvInv, ListedOrLate
<1>6. \A x \in AppConvs : StoredOnce(x)'
  <2> SUFFICES ASSUME NEW x \in AppConvs, startTask'[x].stage \in {"callbacks", "ready"}
               PROVE  rows[x] # NoRow \/ x \in erased
    BY DEF StoredOnce
  <2>1. CASE x = c
    BY <2>1 DEF ConvInv, StoredOnce
  <2>2. CASE x # c
    BY <1>1, <2>2 DEF ConvInv, StoredOnce
  <2> QED BY <2>1, <2>2
<1>7. \A w \in writers' : ReadsKept(w)'
  <2> SUFFICES ASSUME NEW w \in writers PROVE ReadsKept(w)'
    OBVIOUS
  <2>1. ReadsKept(w) /\ w.conv \in AppConvs
    BY DEF ConvInv, ConvTypeOK, RowWriter
  <2> QED BY <1>1, <2>1 DEF ReadsKept
<1> QED BY <1>2, <1>3, <1>4, <1>5, <1>6, <1>7 DEF ConvInv, ConversationBooks

\* A start asks for a parent when nothing is known of the conversation.
LEMMA StartRequestedKeeps ==
  ASSUME ConvInv, NEW c \in AppConvs, NEW p \in NoneOr(AppConvs), StartRequested(c, p)
  PROVE  ConvInv'
<1>1. /\ AtStage(c, "none")
      /\ p # 0 => rows[p] # NoRow
      /\ startTask' = [startTask EXCEPT ![c] = startTask'[c]]
      /\ startTask'[c] = [stage |-> "working", parent |-> p, seen |-> "none",
                          box |-> IF p = 0 THEN 0 ELSE rows[p].box]
      /\ UNCHANGED <<rows, inAgent, callback, appBox, writers, deleting, erased, below, spared, late, unlinked>>
  BY DEF StartRequested, convHistory, ConvInv, ConvTypeOK
<1>2. (IF p = 0 THEN 0 ELSE rows[p].box) \in NoneOr(AppConvs)
  BY <1>1 DEF NoneOr, ConvInv, ConvTypeOK, Row
<1>3. startTask'[c] \in StartTask
  BY <1>1, <1>2 DEF StartTask, StartStages, ConvBoxes
<1>4. ConvTypeOK'
  BY <1>1, <1>3 DEF ConvInv, ConvTypeOK
<1>5. \A x \in AppConvs : x # c => startTask'[x] = startTask[x]
  BY <1>1 DEF ConvInv, ConvTypeOK
<1>6. startTask'[c].stage = "working"
  BY <1>1
<1>7. rows[c] = NoRow /\ \A w \in writers : w.conv # c
  BY <1>1 DEF ConvInv, NotStarted
<1>8. NoOrphans' /\ ParentKept' /\ ReadyIsStored'
  BY <1>1, <1>5, <1>6, <1>7 DEF ConvInv, ConversationBooks, NoOrphans, ParentKept, ReadyIsStored, AtStage
<1>9. \A x \in AppConvs : NotStarted(x)' /\ ListedOrLate(x)' /\ StoredOnce(x)'
  BY <1>1, <1>5, <1>6 DEF ConvInv, NotStarted, ListedOrLate, StoredOnce, AtStage
<1>10. \A w \in writers' : ReadsKept(w)'
  <2> SUFFICES ASSUME NEW w \in writers PROVE ReadsKept(w)'
    BY <1>1
  <2>1. ReadsKept(w) /\ w.conv \in AppConvs /\ w.conv # c
    BY <1>7 DEF ConvInv, ConvTypeOK, RowWriter
  <2> QED BY <1>1, <1>5, <2>1 DEF ReadsKept
<1> QED BY <1>4, <1>8, <1>9, <1>10 DEF ConvInv, ConversationBooks

\* A step of a start that waits, prepares, posts, fails or is abandoned.
LEMMA StartStepsKeep ==
  ASSUME ConvInv, NEW c \in AppConvs,
         \/ TakesSandbox(c) \/ ChecksSandbox(c) \/ PollsSandbox(c) \/ PreparesRepository(c) \/ RunsSetupScript(c)
         \/ LoadsSkills(c) \/ BuildsRequest(c) \/ PostsConversation(c) \/ SavesCallbacks(c) \/ StreamAbandoned(c)
  PROVE  ConvInv'
<1>1. startTask[c] \in StartTask /\ startTask = [startTask EXCEPT ![c] = startTask[c]]
  BY DEF ConvInv, ConvTypeOK
<1>2. ASSUME NEW s \in StartStages, GoesTo(c, s)
      PROVE  /\ startTask' = [startTask EXCEPT ![c] = startTask'[c]] /\ startTask'[c] \in StartTask
             /\ startTask'[c].stage = s /\ startTask'[c].parent = startTask[c].parent
  <2>1. startTask'[c] = [startTask[c] EXCEPT !.stage = s]
    BY <1>2 DEF GoesTo, ConvInv, ConvTypeOK
  <2>2. startTask' = [startTask EXCEPT ![c] = startTask'[c]]
    BY <1>2 DEF GoesTo, ConvInv, ConvTypeOK
  <2> QED BY <1>1, <2>1, <2>2 DEF StartTask
<1>3. ASSUME NEW s \in StartStages \ {"none", "callbacks", "ready"},
             startTask' = [startTask EXCEPT ![c] = startTask'[c]], startTask'[c] \in StartTask,
             startTask'[c].stage = s, startTask'[c].parent = startTask[c].parent,
             appBox' \in [AppConvs -> ConvBoxes], inAgent' \subseteq inAgent \cup {c},
             UNCHANGED <<rows, callback, writers, deleting, erased, below, spared, late, unlinked>>
      PROVE  ConvInv'
  <2>1. startTask' \in [AppConvs -> StartTask] /\ inAgent' \subseteq AppConvs
    BY <1>3 DEF ConvInv, ConvTypeOK
  <2>2. ConvTypeOK'
    BY <1>3, <2>1 DEF ConvInv, ConvTypeOK
  <2> QED BY <1>3, <2>2, StartMovesOn
<1>4. CASE TakesSandbox(c)
  <2> DEFINE b == startTask[c].box
  <2>1. UNCHANGED <<rows, inAgent, callback, writers, deleting, erased, below, spared, late, unlinked>>
    BY <1>4 DEF TakesSandbox, convHistory
  <2>2. CASE b = 0 /\ appBox[c] = "none"
             /\ appBox' = [appBox EXCEPT ![c] = "starting"]
             /\ startTask' = [startTask EXCEPT ![c].stage = "waiting", ![c].box = c, ![c].seen = "starting"]
    <3>1. startTask'[c] = [startTask[c] EXCEPT !.stage = "waiting", !.box = c, !.seen = "starting"]
      BY <2>2 DEF ConvInv, ConvTypeOK
    <3>2. startTask'[c] \in StartTask /\ startTask'[c].stage = "waiting" /\ startTask'[c].parent = startTask[c].parent
      BY <1>1, <3>1 DEF StartTask, StartStages, ConvBoxes, NoneOr
    <3>3. startTask' = [startTask EXCEPT ![c] = startTask'[c]]
      BY <2>2 DEF ConvInv, ConvTypeOK
    <3>4. appBox' \in [AppConvs -> ConvBoxes]
      BY <2>2 DEF ConvInv, ConvTypeOK, ConvBoxes
    <3> QED BY <1>3, <2>1, <3>2, <3>3, <3>4 DEF StartStages
  <2>3. CASE b = 0 /\ GoesTo(c, "error") /\ UNCHANGED appBox
    <3>1. "error" \in StartStages \ {"none", "callbacks", "ready"} /\ appBox' \in [AppConvs -> ConvBoxes]
      BY <2>3 DEF StartStages, ConvInv, ConvTypeOK
    <3>2. GoesTo(c, "error")
      BY <2>3
    <3> HIDE DEF b
    <3> QED BY <1>2, <1>3, <2>1, <3>1, <3>2
  <2>4. CASE b # 0 /\ UNCHANGED appBox
             /\ startTask' = [startTask EXCEPT ![c].seen = appBox[b],
                                ![c].stage = IF appBox[b] = "gone" THEN "error" ELSE "waiting"]
    <3>1. b \in AppConvs
      BY <1>1, <2>4 DEF StartTask, NoneOr
    <3>2. appBox[b] \in ConvBoxes /\ appBox' \in [AppConvs -> ConvBoxes]
      BY <2>4, <3>1 DEF ConvInv, ConvTypeOK
    <3>3. PICK s \in {"error", "waiting"} :
            startTask' = [startTask EXCEPT ![c].seen = appBox[b], ![c].stage = s]
      BY <2>4
    <3> HIDE DEF b
    <3>4. startTask'[c] = [startTask[c] EXCEPT !.seen = appBox[b], !.stage = s]
      BY <3>3 DEF ConvInv, ConvTypeOK
    <3>5. startTask'[c] \in StartTask /\ startTask'[c].stage = s /\ startTask'[c].parent = startTask[c].parent
      BY <1>1, <3>2, <3>4 DEF StartTask, StartStages
    <3>6. startTask' = [startTask EXCEPT ![c] = startTask'[c]]
      BY <3>3, <3>4 DEF ConvInv, ConvTypeOK
    <3>7. s \in StartStages \ {"none", "callbacks", "ready"}
      BY DEF StartStages
    <3> QED BY <1>3, <2>1, <3>2, <3>5, <3>6, <3>7
  <2> QED BY <1>4, <2>2, <2>3, <2>4 DEF TakesSandbox
<1>5. ASSUME NEW s \in StartStages \ {"none", "callbacks", "ready"}, GoesTo(c, s),
             appBox' \in [AppConvs -> ConvBoxes], inAgent' \subseteq inAgent \cup {c},
             UNCHANGED <<rows, callback, writers, deleting, erased, below, spared, late, unlinked>>
      PROVE  ConvInv'
  BY <1>2, <1>3, <1>5
<1>6. {"error", "waiting", "polling", "preparing", "script", "skills", "building", "starting", "storing", "abandoned"}
        \subseteq StartStages \ {"none", "callbacks", "ready"}
  BY DEF StartStages
<1>7. CASE ChecksSandbox(c)
  <2>1. UNCHANGED <<rows, inAgent, callback, writers, deleting, erased, below, spared, late, unlinked>>
    BY <1>7 DEF ChecksSandbox, convHistory
  <2>2. appBox' \in [AppConvs -> ConvBoxes]
    BY <1>7 DEF ChecksSandbox, ConvInv, ConvTypeOK, ConvBoxes
  <2>3. GoesTo(c, "preparing") \/ GoesTo(c, "polling") \/ GoesTo(c, "error")
    BY <1>7 DEF ChecksSandbox, GoesTo
  <2> QED BY <1>5, <1>6, <2>1, <2>2, <2>3
<1>8. ASSUME UNCHANGED appBox PROVE appBox' \in [AppConvs -> ConvBoxes]
  BY <1>8 DEF ConvInv, ConvTypeOK
<1>9. CASE PollsSandbox(c)
  <2>1. UNCHANGED <<rows, inAgent, callback, appBox, writers, deleting, erased, below, spared, late, unlinked>>
    BY <1>9 DEF PollsSandbox, convHistory
  <2>2. GoesTo(c, "preparing") \/ GoesTo(c, "error")
    BY <1>9 DEF PollsSandbox
  <2> QED BY <1>5, <1>6, <1>8, <2>1, <2>2
<1>10. ASSUME NEW from, NEW to \in {"script", "skills", "building", "starting"}, Prepares(c, from, to) PROVE ConvInv'
  <2>1. UNCHANGED <<rows, inAgent, callback, appBox, writers, deleting, erased, below, spared, late, unlinked>>
    BY <1>10 DEF Prepares, convHistory
  <2>2. GoesTo(c, to) \/ GoesTo(c, "error")
    BY <1>10 DEF Prepares
  <2> QED BY <1>5, <1>6, <1>8, <2>1, <2>2
<1>11. CASE PostsConversation(c)
  <2>1. UNCHANGED <<rows, callback, appBox, writers, deleting, erased, below, spared, late, unlinked>>
    BY <1>11 DEF PostsConversation, convHistory
  <2>2. (GoesTo(c, "storing") \/ GoesTo(c, "error")) /\ inAgent' \subseteq inAgent \cup {c}
    BY <1>11 DEF PostsConversation
  <2> QED BY <1>5, <1>6, <1>8, <2>1, <2>2
<1>12. CASE StreamAbandoned(c)
  <2>1. UNCHANGED <<rows, inAgent, callback, appBox, writers, deleting, erased, below, spared, late, unlinked>>
    BY <1>12 DEF StreamAbandoned, convHistory
  <2>2. GoesTo(c, "abandoned")
    BY <1>12 DEF StreamAbandoned
  <2> QED BY <1>5, <1>6, <1>8, <2>1, <2>2
<1>13. CASE SavesCallbacks(c)
  <2>1. /\ startTask[c].stage = "callbacks" /\ callback' = [callback EXCEPT ![c] = "active"] /\ GoesTo(c, "ready")
        /\ UNCHANGED <<rows, inAgent, appBox, writers, deleting, erased, below, spared, late, unlinked>>
    BY <1>13 DEF SavesCallbacks, AtStage, convHistory
  <2>2. "ready" \in StartStages
    BY DEF StartStages
  <2>3. /\ startTask' = [startTask EXCEPT ![c] = startTask'[c]] /\ startTask'[c] \in StartTask
        /\ startTask'[c].stage = "ready" /\ startTask'[c].parent = startTask[c].parent
    BY <1>2, <2>1, <2>2
  <2>4. callback' \in [AppConvs -> {"none", "active", "disabled"}] /\ callback'[c] = "active"
        /\ \A x \in AppConvs : callback[x] # "none" => callback'[x] # "none"
    BY <2>1 DEF ConvInv, ConvTypeOK
  <2>5. startTask' \in [AppConvs -> StartTask]
    BY <2>3 DEF ConvInv, ConvTypeOK
  <2>6. ConvTypeOK'
    BY <2>1, <2>4, <2>5 DEF ConvInv, ConvTypeOK
  <2> QED BY <2>1, <2>2, <2>3, <2>4, <2>6, StartMovesOn
<1> QED BY <1>4, <1>7, <1>9, <1>10, <1>11, <1>12, <1>13
        DEF PreparesRepository, RunsSetupScript, LoadsSkills, BuildsRequest

\* A row is written for a conversation that has been started: its parent is the one the
\* start asked for or an update has cut it off, and it is late if a deletion of its parent
\* has begun.
LEMMA RowWritten ==
  ASSUME ConvInv, ConvTypeOK', NEW c \in AppConvs, NEW row \in Row,
         rows' = [rows EXCEPT ![c] = row], late' = NowLate(c, row),
         row.parent = startTask[c].parent \/ c \in unlinked',
         unlinked \subseteq unlinked', startTask[c].stage # "none",
         \A x \in AppConvs : startTask'[x].parent = startTask[x].parent,
         \A x \in AppConvs : x # c => startTask'[x] = startTask[x],
         startTask'[c].stage # "none", startTask'[c].stage = "ready" => startTask[c].stage = "ready",
         \A x \in AppConvs : callback[x] # "none" => callback'[x] # "none",
         writers' \subseteq writers,
         UNCHANGED <<inAgent, deleting, erased, below, spared>>
  PROVE  ConvInv'
<1>1. /\ rows'[c] = row /\ row # NoRow /\ \A x \in AppConvs : x # c => rows'[x] = rows[x]
      /\ row.parent \in NoneOr(AppConvs)
  BY RowsAreRows DEF ConvInv, ConvTypeOK, Row
<1>2. late \subseteq late'
  BY DEF NowLate
<1>3. ASSUME row.parent \in AppConvs, deleting[row.parent].on \/ row.parent \in erased PROVE c \in late'
  BY <1>3, AppConvsAssumption DEF NowLate
<1>4. NoOrphans'
  <2> SUFFICES ASSUME NEW x \in AppConvs, rows'[x] # NoRow, rows'[x].parent \in erased,
                      rows'[rows'[x].parent] = NoRow
               PROVE  x \in late' \/ x \in spared \/ rows'[x].parent \in below
    BY DEF NoOrphans
  <2>1. rows'[x].parent \in AppConvs /\ rows'[x].parent # c
    BY <1>1 DEF ConvInv, ConvTypeOK
  <2>2. CASE x = c
    BY <1>1, <1>3, <2>1, <2>2
  <2>3. CASE x # c
    BY <1>1, <1>2, <2>1, <2>3 DEF ConvInv, ConversationBooks, NoOrphans
  <2> QED BY <2>2, <2>3
<1>5. ParentKept'
  BY <1>1 DEF ConvInv, ConversationBooks, ParentKept
<1>6. ReadyIsStored'
  BY <1>1 DEF ConvInv, ConversationBooks, ReadyIsStored, AtStage
<1>7. \A x \in AppConvs : NotStarted(x)'
  BY <1>1 DEF ConvInv, NotStarted, AtStage
<1>8. \A x \in AppConvs : ListedOrLate(x)'
  <2> SUFFICES ASSUME NEW x \in AppConvs, deleting[x].on, x \in deleting[x].all, NEW y \in AppConvs,
                      rows'[y] # NoRow, rows'[y].parent = x
               PROVE  y \in deleting[x].all \/ y \in late' \/ y \in spared
    BY DEF ListedOrLate
  <2>1. CASE y = c
    BY <1>1, <1>3, <2>1
  <2>2. CASE y # c
    BY <1>1, <1>2, <2>2 DEF ConvInv, ListedOrLate
  <2> QED BY <2>1, <2>2
<1>9. \A x \in AppConvs : StoredOnce(x)'
  BY <1>1 DEF ConvInv, StoredOnce
<1>10. \A w \in writers' : ReadsKept(w)'
  <2> SUFFICES ASSUME NEW w \in writers PROVE ReadsKept(w)'
    OBVIOUS
  <2>1. ReadsKept(w) /\ w.conv \in AppConvs
    BY DEF ConvInv, ConvTypeOK, RowWriter
  <2> QED BY <2>1 DEF ReadsKept
<1> QED BY <1>4, <1>5, <1>6, <1>7, <1>8, <1>9, <1>10 DEF ConvInv, ConversationBooks

\* The start stores the row.
LEMMA StoresInfoKeeps ==
  ASSUME ConvInv, NEW c \in AppConvs, StoresInfo(c) PROVE ConvInv'
<1> DEFINE row == [parent |-> startTask[c].parent, title |-> "default", box |-> startTask[c].box]
<1>1. /\ startTask[c].stage = "storing" /\ rows' = [rows EXCEPT ![c] = row] /\ late' = NowLate(c, row)
      /\ startTask' = [startTask EXCEPT ![c].stage = "callbacks"]
      /\ UNCHANGED <<inAgent, callback, appBox, writers, deleting, erased, below, spared, unlinked>>
  BY DEF StoresInfo, AtStage, GoesTo
<1>2. startTask[c] \in StartTask
  BY DEF ConvInv, ConvTypeOK
<1>3. row \in Row /\ row.parent = startTask[c].parent
  BY <1>2 DEF Row, StartTask
<1> HIDE DEF row
<1>4. startTask'[c] = [startTask[c] EXCEPT !.stage = "callbacks"] /\ \A x \in AppConvs : x # c => startTask'[x] = startTask[x]
  BY <1>1 DEF ConvInv, ConvTypeOK
<1>5. startTask'[c] \in StartTask /\ startTask'[c].stage = "callbacks" /\ startTask'[c].parent = startTask[c].parent
  BY <1>2, <1>4 DEF StartTask, StartStages
<1>6. startTask' \in [AppConvs -> StartTask]
  BY <1>1, <1>4, <1>5 DEF ConvInv, ConvTypeOK
<1>7. rows' \in [AppConvs -> Row \cup {NoRow}]
  BY <1>1, <1>3 DEF ConvInv, ConvTypeOK
<1>8. ConvTypeOK'
  BY <1>1, <1>6, <1>7 DEF ConvInv, ConvTypeOK
<1> QED BY <1>1, <1>3, <1>4, <1>5, <1>8, RowWritten

\* A request reads the row of a conversation that has been started.
LEMMA ReadsKeeps ==
  ASSUME ConvInv, NEW c \in AppConvs, NEW kind \in {"update", "title", "rename", "poll"}, Reads(kind, c),
         startTask[c].stage # "none", rows[c] = NoRow => kind = "update"
  PROVE  ConvInv'
<1> DEFINE n == [kind |-> kind, conv |-> c, read |-> rows[c], box |-> startTask[c].box]
<1>1. /\ writers' = writers \cup {n}
      /\ UNCHANGED <<rows, inAgent, startTask, callback, appBox, deleting, erased, below, spared, late, unlinked>>
  BY DEF Reads, convHistory
<1>2. n \in RowWriter
  BY DEF RowWriter, ConvInv, ConvTypeOK, StartTask
<1>3. n.conv = c /\ n.kind = kind /\ n.read = rows[c]
  OBVIOUS
<1> HIDE DEF n
<1>4. ConvTypeOK'
  BY <1>1, <1>2 DEF ConvInv, ConvTypeOK
<1>5. ConversationBooks'
  BY <1>1 DEF ConvInv, ConversationBooks, NoOrphans, ParentKept, ReadyIsStored, AtStage
<1>6. \A x \in AppConvs : NotStarted(x)' /\ ListedOrLate(x)' /\ StoredOnce(x)'
  BY <1>1, <1>3 DEF ConvInv, NotStarted, ListedOrLate, StoredOnce, AtStage
<1>7. \A w \in writers' : ReadsKept(w)'
  BY <1>1, <1>3 DEF ConvInv, ReadsKept, ConversationBooks, ParentKept
<1> QED BY <1>4, <1>5, <1>6, <1>7 DEF ConvInv

\* It writes the row back.
LEMMA WritesRowKeeps ==
  ASSUME ConvInv, NEW w \in writers, WritesRow(w) PROVE ConvInv'
<1>1. /\ rows' = [rows EXCEPT ![w.conv] = NewRow(w)] /\ late' = NowLate(w.conv, NewRow(w))
      /\ unlinked' = unlinked \cup (IF w.kind = "update" THEN {w.conv} ELSE {})
      /\ callback' = IF w.kind = "title" THEN [callback EXCEPT ![w.conv] = "disabled"] ELSE callback
      /\ writers' = writers \ {w}
      /\ UNCHANGED <<inAgent, startTask, appBox, deleting, erased, below, spared>>
  BY DEF WritesRow
<1>2. w \in RowWriter /\ ReadsKept(w)
  BY DEF ConvInv, ConvTypeOK
<1>3. w.conv \in AppConvs /\ w.read \in Row \cup {NoRow} /\ w.box \in NoneOr(AppConvs)
      /\ w.kind \in {"update", "title", "rename", "poll"}
  BY <1>2 DEF RowWriter
<1>4. NewRow(w) \in Row /\ (NewRow(w).parent = startTask[w.conv].parent \/ w.conv \in unlinked')
  <2>1. CASE w.kind = "update"
    <3>1. (IF w.read = NoRow THEN "default" ELSE w.read.title) \in {"default", "generated", "user"}
      BY <1>3 DEF Row
    <3>2. NewRow(w) = [parent |-> 0, box |-> w.box, title |-> IF w.read = NoRow THEN "default" ELSE w.read.title]
      BY <2>1 DEF NewRow
    <3> QED BY <1>1, <1>3, <2>1, <3>1, <3>2 DEF Row, NoneOr
  <2>2. CASE w.kind # "update"
    <3>1. w.read \in Row /\ (w.read.parent = startTask[w.conv].parent \/ w.conv \in unlinked)
      BY <1>2, <1>3, <2>2, RowsAreRows DEF ReadsKept
    <3>2. NewRow(w) \in {[w.read EXCEPT !.title = "generated"], [w.read EXCEPT !.title = "user"], w.read}
      BY <1>3, <2>2 DEF NewRow
    <3>3. NewRow(w) \in Row /\ NewRow(w).parent = w.read.parent
      BY <3>1, <3>2 DEF Row
    <3> QED BY <1>1, <3>1, <3>3
  <2> QED BY <2>1, <2>2
<1>5. startTask[w.conv].stage # "none"
  BY <1>3 DEF ConvInv, NotStarted, AtStage
<1>6. /\ callback' \in [AppConvs -> {"none", "active", "disabled"}]
      /\ \A x \in AppConvs : callback[x] # "none" => callback'[x] # "none"
  BY <1>1, <1>3 DEF ConvInv, ConvTypeOK
<1>7. rows' \in [AppConvs -> Row \cup {NoRow}]
  BY <1>1, <1>3, <1>4 DEF ConvInv, ConvTypeOK
<1>8. ConvTypeOK'
  BY <1>1, <1>6, <1>7 DEF ConvInv, ConvTypeOK
<1>9. unlinked \subseteq unlinked' /\ writers' \subseteq writers
  BY <1>1
<1>10. startTask'[w.conv].stage # "none" /\ (startTask'[w.conv].stage = "ready" => startTask[w.conv].stage = "ready")
       /\ \A x \in AppConvs : startTask'[x] = startTask[x]
  BY <1>1, <1>5
<1> QED BY <1>1, <1>3, <1>4, <1>5, <1>6, <1>8, <1>9, <1>10, RowWritten

\* Sandboxes, agent servers, callbacks and writers that give up are not in the books.
LEMMA ConvQuiet ==
  ASSUME ConvInv, ConvTypeOK', inAgent' \subseteq inAgent, writers' \subseteq writers,
         UNCHANGED <<rows, startTask, callback, erased, below, spared, late, unlinked>>,
         \A c \in AppConvs : deleting'[c].on => deleting'[c].all = deleting[c].all /\ deleting[c].on
  PROVE  ConvInv'
<1>1. ConversationBooks'
  BY DEF ConvInv, ConversationBooks, NoOrphans, ParentKept, ReadyIsStored, AtStage
<1>2. \A x \in AppConvs : NotStarted(x)' /\ ListedOrLate(x)' /\ StoredOnce(x)'
  BY DEF ConvInv, NotStarted, ListedOrLate, StoredOnce, AtStage
<1>3. \A w \in writers' : ReadsKept(w)'
  BY DEF ConvInv, ReadsKept
<1> QED BY <1>1, <1>2, <1>3 DEF ConvInv

\* A field of a deletion's record changes.
LEMMA DeletionTyped ==
  ASSUME ConvTypeOK, NEW c \in AppConvs, NEW d,
         deleting' = [deleting EXCEPT ![c] = d],
         d = [todo |-> d.todo, all |-> d.all, on |-> d.on, box |-> d.box],
         d.all \subseteq AppConvs, d.on \in BOOLEAN, d.box \in NoneOr(AppConvs)
  PROVE  /\ deleting' = [x \in AppConvs |-> deleting'[x]] /\ deleting'[c] = d
         /\ \A x \in AppConvs : x # c => deleting'[x] = deleting[x]
         /\ \A x \in AppConvs : /\ deleting'[x] = [todo |-> deleting'[x].todo, all |-> deleting'[x].all,
                                                   on |-> deleting'[x].on, box |-> deleting'[x].box]
                                /\ deleting'[x].all \subseteq AppConvs /\ deleting'[x].on \in BOOLEAN
                                /\ deleting'[x].box \in NoneOr(AppConvs)
<1>1. deleting = [x \in AppConvs |-> deleting[x]]
  BY DEF ConvTypeOK
<1>2. /\ deleting' = [x \in AppConvs |-> deleting'[x]] /\ deleting'[c] = d
      /\ \A x \in AppConvs : x # c => deleting'[x] = deleting[x]
  BY <1>1
<1>3. ASSUME NEW x \in AppConvs
      PROVE  /\ deleting'[x] = [todo |-> deleting'[x].todo, all |-> deleting'[x].all,
                                on |-> deleting'[x].on, box |-> deleting'[x].box]
             /\ deleting'[x].all \subseteq AppConvs /\ deleting'[x].on \in BOOLEAN
             /\ deleting'[x].box \in NoneOr(AppConvs)
  <2>1. CASE x = c
    BY <1>2, <2>1
  <2>2. CASE x # c
    BY <1>2, <2>2 DEF ConvTypeOK
  <2> QED BY <2>1, <2>2
<1> QED BY <1>2, <1>3

\* A deletion lists the sub-conversations there are; the ones an earlier deletion failed to
\* delete are among them.
LEMMA DeleteBeginsKeeps ==
  ASSUME ConvInv, NEW c \in AppConvs, DeleteBegins(c) PROVE ConvInv'
<1>1. PICK d : /\ deleting' = [deleting EXCEPT ![c] = d]
               /\ d = [todo |-> d.todo, all |-> d.all, on |-> d.on, box |-> d.box]
               /\ d.on = TRUE /\ d.box = rows[c].box
               /\ \/ d.all = SubsOf(c) \cup {c} /\ spared' = spared \ SubsOf(c)
                  \/ d.all = {} /\ spared' = spared
  <2> DEFINE D(todo, all) == [todo |-> todo, all |-> all, on |-> TRUE, box |-> rows[c].box]
  <2>1. \A todo, all : /\ D(todo, all) = [todo |-> D(todo, all).todo, all |-> D(todo, all).all,
                                          on |-> D(todo, all).on, box |-> D(todo, all).box]
                      /\ D(todo, all).on = TRUE /\ D(todo, all).box = rows[c].box /\ D(todo, all).all = all
    OBVIOUS
  <2>2. \/ /\ deleting' = [deleting EXCEPT ![c] = D(Append(SetToSeq(SubsOf(c)), c), SubsOf(c) \cup {c})]
           /\ spared' = spared \ SubsOf(c)
        \/ deleting' = [deleting EXCEPT ![c] = D(<<>>, {})] /\ spared' = spared
    BY DEF DeleteBegins
  <2> HIDE DEF D
  <2>3. CASE /\ deleting' = [deleting EXCEPT ![c] = D(Append(SetToSeq(SubsOf(c)), c), SubsOf(c) \cup {c})]
             /\ spared' = spared \ SubsOf(c)
    <3>1. PICK d : d = D(Append(SetToSeq(SubsOf(c)), c), SubsOf(c) \cup {c})
      OBVIOUS
    <3>2. /\ d = [todo |-> d.todo, all |-> d.all, on |-> d.on, box |-> d.box]
          /\ d.on = TRUE /\ d.box = rows[c].box /\ d.all = SubsOf(c) \cup {c}
      BY <2>1, <3>1, Zenon
    <3> QED BY <2>3, <3>1, <3>2, Zenon
  <2>4. CASE deleting' = [deleting EXCEPT ![c] = D(<<>>, {})] /\ spared' = spared
    <3>1. PICK d : d = D(<<>>, {})
      OBVIOUS
    <3>2. /\ d = [todo |-> d.todo, all |-> d.all, on |-> d.on, box |-> d.box]
          /\ d.on = TRUE /\ d.box = rows[c].box /\ d.all = {}
      BY <2>1, <3>1, Zenon
    <3> QED BY <2>4, <3>1, <3>2, Zenon
  <2> QED BY <2>2, <2>3, <2>4
<1>2. rows[c] # NoRow /\ UNCHANGED <<rows, inAgent, startTask, callback, appBox, writers, erased, below, late, unlinked>>
  BY DEF DeleteBegins
<1>3. d.all \subseteq AppConvs /\ d.on \in BOOLEAN /\ d.box \in NoneOr(AppConvs)
  BY <1>1, <1>2 DEF SubsOf, ConvInv, ConvTypeOK, Row
<1>4. /\ deleting' = [x \in AppConvs |-> deleting'[x]] /\ deleting'[c] = d
      /\ \A x \in AppConvs : x # c => deleting'[x] = deleting[x]
      /\ \A x \in AppConvs : /\ deleting'[x] = [todo |-> deleting'[x].todo, all |-> deleting'[x].all,
                                                on |-> deleting'[x].on, box |-> deleting'[x].box]
                             /\ deleting'[x].all \subseteq AppConvs /\ deleting'[x].on \in BOOLEAN
                             /\ deleting'[x].box \in NoneOr(AppConvs)
  BY <1>1, <1>3, DeletionTyped DEF ConvInv
<1>5. ConvTypeOK'
  BY <1>2, <1>4 DEF ConvInv, ConvTypeOK
<1>6. \A x \in AppConvs : x \in spared /\ (rows[x].parent # c \/ rows[x] = NoRow) => x \in spared'
  BY <1>1 DEF SubsOf
<1>7. NoOrphans'
  BY <1>2, <1>6 DEF ConvInv, ConversationBooks, NoOrphans
<1>8. ParentKept' /\ ReadyIsStored'
  BY <1>2 DEF ConvInv, ConversationBooks, ParentKept, ReadyIsStored, AtStage
<1>9. \A x \in AppConvs : NotStarted(x)' /\ StoredOnce(x)'
  BY <1>2 DEF ConvInv, NotStarted, StoredOnce, AtStage
<1>10. \A x \in AppConvs : ListedOrLate(x)'
  <2> SUFFICES ASSUME NEW x \in AppConvs PROVE ListedOrLate(x)'
    OBVIOUS
  <2>1. CASE x = c
    BY <1>1, <1>2, <1>4, <2>1 DEF ListedOrLate, SubsOf
  <2>2. CASE x # c
    BY <1>2, <1>4, <1>6, <2>2 DEF ConvInv, ListedOrLate
  <2> QED BY <2>1, <2>2
<1>11. \A w \in writers' : ReadsKept(w)'
  BY <1>2 DEF ConvInv, ReadsKept
<1> QED BY <1>5, <1>7, <1>8, <1>9, <1>10, <1>11 DEF ConvInv, ConversationBooks

\* One of the listed is done with: deleted, found gone, or not deleted.
LEMMA DeletesNextKeeps ==
  ASSUME ConvInv, NEW c \in AppConvs, DeletesFromAgent(c) \/ PassesOver(c) \/ DeletionFails(c) PROVE ConvInv'
<1> DEFINE x == Head(deleting[c].todo)
<1>1. PICK all : /\ DeletesNext(c, all) /\ inAgent' \subseteq inAgent /\ spared \subseteq spared'
                 /\ all \subseteq deleting[c].all
                 /\ \A y \in deleting[c].all \ all : y = c \/ rows[y] = NoRow \/ y \in spared'
  <2>1. CASE DeletesFromAgent(c)
    BY <2>1 DEF DeletesFromAgent, AgentForgets
  <2>2. CASE PassesOver(c)
    BY <2>2 DEF PassesOver
  <2>3. CASE DeletionFails(c)
    BY <2>3 DEF DeletionFails, AgentForgets
  <2> QED BY <2>1, <2>2, <2>3
<1> DEFINE d == [todo |-> Tail(deleting[c].todo), all |-> all, on |-> TRUE, box |-> deleting[c].box]
<1>2. /\ deleting[c].on /\ deleting' = [deleting EXCEPT ![c] = d]
      /\ UNCHANGED <<rows, startTask, callback, appBox, writers, erased, below, late, unlinked>>
  BY <1>1 DEF DeletesNext
<1>3. d = [todo |-> d.todo, all |-> d.all, on |-> d.on, box |-> d.box]
      /\ d.all = all /\ d.on \in BOOLEAN /\ d.box = deleting[c].box
  OBVIOUS
<1> HIDE DEF d
<1>4. d.all \subseteq AppConvs /\ d.box \in NoneOr(AppConvs)
  BY <1>1, <1>3 DEF ConvInv, ConvTypeOK
<1>5. /\ deleting' = [y \in AppConvs |-> deleting'[y]] /\ deleting'[c] = d
      /\ \A y \in AppConvs : y # c => deleting'[y] = deleting[y]
      /\ \A y \in AppConvs : /\ deleting'[y] = [todo |-> deleting'[y].todo, all |-> deleting'[y].all,
                                                on |-> deleting'[y].on, box |-> deleting'[y].box]
                             /\ deleting'[y].all \subseteq AppConvs /\ deleting'[y].on \in BOOLEAN
                             /\ deleting'[y].box \in NoneOr(AppConvs)
  BY <1>2, <1>3, <1>4, DeletionTyped DEF ConvInv
<1>6. ConvTypeOK'
  BY <1>1, <1>2, <1>5 DEF ConvInv, ConvTypeOK
<1>7. ConversationBooks'
  BY <1>1, <1>2 DEF ConvInv, ConversationBooks, NoOrphans, ParentKept, ReadyIsStored, AtStage
<1>8. \A y \in AppConvs : NotStarted(y)' /\ StoredOnce(y)'
  BY <1>1, <1>2 DEF ConvInv, NotStarted, StoredOnce, AtStage
<1>9. \A y \in AppConvs : ListedOrLate(y)'
  <2> SUFFICES ASSUME NEW y \in AppConvs, deleting'[y].on, y \in deleting'[y].all, NEW z \in AppConvs,
                      rows[z] # NoRow, rows[z].parent = y
               PROVE  z \in deleting'[y].all \/ z \in late \/ z \in spared'
    BY <1>2 DEF ListedOrLate
  <2>1. CASE y = c
    <3>1. z \in deleting[c].all \/ z \in late \/ z \in spared
      BY <1>1, <1>2, <1>3, <1>5, <2>1 DEF ConvInv, ListedOrLate
    <3> QED BY <1>1, <1>3, <1>5, <2>1, <3>1
  <2>2. CASE y # c
    BY <1>1, <1>5, <2>2 DEF ConvInv, ListedOrLate
  <2> QED BY <2>1, <2>2
<1>10. \A w \in writers' : ReadsKept(w)'
  BY <1>2 DEF ConvInv, ReadsKept
<1> QED BY <1>6, <1>7, <1>8, <1>9, <1>10 DEF ConvInv

\* The commit fails, or the sandbox of the deleted conversation goes.
LEMMA DeletionEndsKeeps ==
  ASSUME ConvInv, NEW c \in AppConvs, CommitFails(c) \/ DeletesSandbox(c) PROVE ConvInv'
<1>1. /\ deleting' = [deleting EXCEPT ![c] = NoDelete]
      /\ UNCHANGED <<rows, inAgent, startTask, callback, writers, erased, below, spared, late, unlinked>>
  BY DEF CommitFails, DeletesSandbox, convHistory
<1>2. appBox' \in [AppConvs -> ConvBoxes]
  BY DEF CommitFails, DeletesSandbox, ConvInv, ConvTypeOK, ConvBoxes
<1>3. NoDelete = [todo |-> NoDelete.todo, all |-> NoDelete.all, on |-> NoDelete.on, box |-> NoDelete.box]
      /\ NoDelete.all \subseteq AppConvs /\ NoDelete.on = FALSE /\ NoDelete.box \in NoneOr(AppConvs)
  BY DEF NoDelete, NoneOr
<1>4. /\ deleting' = [x \in AppConvs |-> deleting'[x]] /\ deleting'[c] = NoDelete
      /\ \A x \in AppConvs : x # c => deleting'[x] = deleting[x]
      /\ \A x \in AppConvs : /\ deleting'[x] = [todo |-> deleting'[x].todo, all |-> deleting'[x].all,
                                                on |-> deleting'[x].on, box |-> deleting'[x].box]
                             /\ deleting'[x].all \subseteq AppConvs /\ deleting'[x].on \in BOOLEAN
                             /\ deleting'[x].box \in NoneOr(AppConvs)
  BY <1>1, <1>3, DeletionTyped DEF ConvInv
<1>5. ConvTypeOK'
  BY <1>1, <1>2, <1>4 DEF ConvInv, ConvTypeOK
<1>6. \A x \in AppConvs : deleting'[x].on => deleting'[x].all = deleting[x].all /\ deleting[x].on
  BY <1>3, <1>4
<1> QED BY <1>1, <1>5, <1>6, ConvQuiet

\* The commit takes the listed rows away; a row it leaves with a parent it took is late,
\* spared, or the child of a sub-conversation.
LEMMA DeleteCommitsKeeps ==
  ASSUME ConvInv, NEW c \in AppConvs, DeleteCommits(c) PROVE ConvInv'
<1> DEFINE gone == deleting[c].all
           d == [todo |-> <<>>, all |-> {}, on |-> TRUE, box |-> deleting[c].box]
<1>1. /\ deleting[c].on
      /\ rows' = [x \in AppConvs |-> IF x \in gone THEN NoRow ELSE rows[x]]
      /\ erased' = erased \cup gone /\ below' = (below \ gone) \cup (gone \ {c})
      /\ spared' = spared \ gone /\ late' = late \ gone
      /\ deleting' = [deleting EXCEPT ![c] = d]
      /\ UNCHANGED <<inAgent, startTask, callback, appBox, writers, unlinked>>
  BY DEF DeleteCommits
<1>2. gone \subseteq AppConvs /\ deleting[c].box \in NoneOr(AppConvs)
  BY DEF ConvInv, ConvTypeOK
<1>3. d = [todo |-> d.todo, all |-> d.all, on |-> d.on, box |-> d.box]
      /\ d.all = {} /\ d.on = TRUE /\ d.box = deleting[c].box
  OBVIOUS
<1> HIDE DEF d, gone
<1>4. /\ deleting' = [x \in AppConvs |-> deleting'[x]] /\ deleting'[c] = d
      /\ \A x \in AppConvs : x # c => deleting'[x] = deleting[x]
      /\ \A x \in AppConvs : /\ deleting'[x] = [todo |-> deleting'[x].todo, all |-> deleting'[x].all,
                                                on |-> deleting'[x].on, box |-> deleting'[x].box]
                             /\ deleting'[x].all \subseteq AppConvs /\ deleting'[x].on \in BOOLEAN
                             /\ deleting'[x].box \in NoneOr(AppConvs)
  BY <1>1, <1>2, <1>3, DeletionTyped DEF ConvInv
<1>5. rows' \in [AppConvs -> Row \cup {NoRow}] /\ erased' \subseteq AppConvs
  BY <1>1, <1>2 DEF ConvInv, ConvTypeOK
<1>6. ConvTypeOK'
  BY <1>1, <1>4, <1>5 DEF ConvInv, ConvTypeOK
<1>7. \A x \in AppConvs : rows'[x] # NoRow => x \notin gone /\ rows'[x] = rows[x]
  BY <1>1
<1>8. NoOrphans'
  <2> SUFFICES ASSUME NEW x \in AppConvs, rows'[x] # NoRow, rows'[x].parent \in erased',
                      rows'[rows'[x].parent] = NoRow
               PROVE  x \in late' \/ x \in spared' \/ rows'[x].parent \in below'
    BY DEF NoOrphans
  <2> DEFINE p == rows[x].parent
  <2>1. x \notin gone /\ rows'[x] = rows[x] /\ rows[x] # NoRow /\ p \in erased' /\ rows'[p] = NoRow /\ p \in AppConvs
    BY <1>5, <1>7
  <2>2. CASE p = c /\ c \in gone
    <3>1. x \in gone \/ x \in late \/ x \in spared
      BY <1>1, <2>1, <2>2 DEF ConvInv, ListedOrLate, gone
    <3> QED BY <1>1, <2>1, <3>1
  <2>3. CASE p # c /\ p \in gone
    BY <1>1, <2>1, <2>3
  <2>4. CASE p \notin gone
    <3>1. p \in erased /\ rows[p] = NoRow
      BY <1>1, <2>1, <2>4
    <3>2. x \in late \/ x \in spared \/ p \in below
      BY <2>1, <3>1 DEF ConvInv, ConversationBooks, NoOrphans
    <3> QED BY <1>1, <2>1, <2>4, <3>2
  <2> QED BY <2>2, <2>3, <2>4
<1>9. ParentKept'
  BY <1>1, <1>7 DEF ConvInv, ConversationBooks, ParentKept
<1>10. \A x \in AppConvs : rows[x] # NoRow \/ x \in erased => rows'[x] # NoRow \/ x \in erased'
  BY <1>1
<1>11. ReadyIsStored' /\ \A x \in AppConvs : StoredOnce(x)'
  BY <1>1, <1>10 DEF ConvInv, ConversationBooks, ReadyIsStored, StoredOnce, AtStage
<1>12. \A x \in AppConvs : NotStarted(x)'
  BY <1>1, <1>7 DEF ConvInv, NotStarted, AtStage
<1>13. \A x \in AppConvs : ListedOrLate(x)'
  <2> SUFFICES ASSUME NEW x \in AppConvs PROVE ListedOrLate(x)'
    OBVIOUS
  <2>1. CASE x = c
    BY <1>3, <1>4, <2>1 DEF ListedOrLate
  <2>2. CASE x # c
    BY <1>1, <1>4, <1>7, <2>2 DEF ConvInv, ListedOrLate
  <2> QED BY <2>1, <2>2
<1>14. \A w \in writers' : ReadsKept(w)'
  BY <1>1 DEF ConvInv, ReadsKept
<1> QED BY <1>6, <1>8, <1>9, <1>11, <1>12, <1>13, <1>14 DEF ConvInv, ConversationBooks

\* A step of another part keeps the invariant.
LEMMA ConvFrame == ConvInv /\ UNCHANGED convVars => ConvInv'
<1> SUFFICES ASSUME ConvInv, UNCHANGED convVars PROVE ConvInv'
  OBVIOUS
<1>1. ConvTypeOK'
  BY DEF convVars, ConvInv, ConvTypeOK
<1> QED BY <1>1, ConvQuiet DEF convVars

\* Every step keeps it.
LEMMA ConvSteps == ConvInv /\ ConvNext => ConvInv'
<1> SUFFICES ASSUME ConvInv, ConvNext PROVE ConvInv'
  OBVIOUS
<1>1. ASSUME NEW c \in AppConvs, UpdateArrives(c) \/ MessageArrives(c) \/ RenameRequested(c) \/ PollReads(c)
      PROVE  ConvInv'
  <2>1. rows[c] # NoRow \/ c \in inAgent
    BY <1>1 DEF UpdateArrives, MessageArrives, RenameRequested, PollReads
  <2>2. startTask[c].stage # "none"
    BY <2>1 DEF ConvInv, NotStarted, AtStage
  <2>3. \E kind \in {"update", "title", "rename", "poll"} : Reads(kind, c) /\ (rows[c] = NoRow => kind = "update")
    BY <1>1 DEF UpdateArrives, MessageArrives, RenameRequested, PollReads
  <2> QED BY <2>2, <2>3, ReadsKeeps
<1>2. ASSUME NEW c \in AppConvs, BoxComesUp(c) \/ BoxIsPaused(c) PROVE ConvInv'
  <2>1. UNCHANGED <<rows, inAgent, startTask, callback, writers, deleting, erased, below, spared, late, unlinked>>
    BY <1>2 DEF BoxComesUp, BoxIsPaused, convHistory
  <2>2. appBox' \in [AppConvs -> ConvBoxes]
    BY <1>2 DEF BoxComesUp, BoxIsPaused, ConvInv, ConvTypeOK, ConvBoxes
  <2>3. ConvTypeOK'
    BY <2>1, <2>2 DEF ConvInv, ConvTypeOK
  <2> QED BY <2>1, <2>3, ConvQuiet
<1>3. ASSUME NEW w \in writers, WriterFails(w) PROVE ConvInv'
  <2>1. UNCHANGED <<rows, inAgent, startTask, callback, appBox, deleting, erased, below, spared, late, unlinked>>
        /\ writers' \subseteq writers
    BY <1>3 DEF WriterFails, convHistory
  <2>2. ConvTypeOK'
    BY <2>1 DEF ConvInv, ConvTypeOK
  <2> QED BY <2>1, <2>2, ConvQuiet
<1>4. CASE \E w \in writers : WritesRow(w) \/ WriterFails(w)
  BY <1>3, <1>4, WritesRowKeeps
<1>5. ASSUME NEW c \in AppConvs,
         \/ \E p \in {0} \cup AppConvs : StartRequested(c, p)
         \/ TakesSandbox(c) \/ ChecksSandbox(c) \/ PollsSandbox(c)
         \/ PreparesRepository(c) \/ RunsSetupScript(c) \/ LoadsSkills(c) \/ BuildsRequest(c)
         \/ PostsConversation(c) \/ StoresInfo(c) \/ SavesCallbacks(c) \/ StreamAbandoned(c)
         \/ UpdateArrives(c) \/ MessageArrives(c) \/ RenameRequested(c) \/ PollReads(c)
         \/ DeleteBegins(c) \/ DeletesFromAgent(c) \/ PassesOver(c) \/ DeletionFails(c)
         \/ DeleteCommits(c) \/ CommitFails(c) \/ DeletesSandbox(c)
         \/ BoxComesUp(c) \/ BoxIsPaused(c)
      PROVE  ConvInv'
  BY <1>1, <1>2, <1>5, StartRequestedKeeps, StartStepsKeep, StoresInfoKeeps, DeleteBeginsKeeps,
     DeletesNextKeeps, DeleteCommitsKeeps, DeletionEndsKeeps DEF NoneOr
<1> QED BY <1>4, <1>5 DEF ConvNext

-----------------------------------------------------------------------------
(* ConversationRecords: the metadata file and who holds an old copy of it.    *)

RecordTitles == {"default", "template", "generated", "user"}
Record == [title : RecordTitles, branch : Nat, tokens : Nat, prs : Nat]
NewsItem == [kind : {"plain", "metrics", "git"}, tokens : Nat]
UpdateStages == {"titling", "ready", "github", "gitlab", "bitbucket", "azure_devops"}
OpenUpdate == [rec : Record, stage : UpdateStages, stale : BOOLEAN]

RecordTypeOK ==
  /\ record \in Record \cup {NoRecord}
  /\ updating \in [Updaters -> OpenUpdate \cup {NoUpdate}]
  /\ news \in Seq(NewsItem) /\ workBranch \in Nat /\ spent \in Nat
  /\ agentLoop \in BOOLEAN /\ overlapped \in BOOLEAN /\ droppedOnce \in BOOLEAN /\ startedLate \in BOOLEAN

\* A writer nobody else has written since it read.
UpToDate(u) == updating[u] # NoUpdate /\ ~updating[u].stale

\* Such a writer holds the record but for the fields it sets; a title is generated for a
\* record that has the default one.
FreshUpdates ==
  /\ UpToDate("events") => LET up == updating["events"] IN
        /\ up.rec.prs = record.prs /\ (record.title # "default" => up.rec.title = record.title)
        /\ up.stage = "titling" => record.title = "default"
  /\ UpToDate("rename") => updating["rename"].rec = [record EXCEPT !.title = "user"]
  /\ UpToDate("pr") => updating["pr"].rec = WithPullRequest(record, updating["pr"].stage)

\* Nobody counted more tokens than were spent.
CountedSpent ==
  /\ record.tokens <= spent
  /\ \A u \in Updaters : updating[u] # NoUpdate => updating[u].rec.tokens <= spent
  /\ \A i \in DOMAIN news : news[i].tokens <= spent

RecordInv ==
  /\ RecordTypeOK /\ RecordsKept /\ FreshUpdates /\ CountedSpent
  /\ record = NoRecord => \A u \in Updaters : ~UpToDate(u)

\* What is open is a record; what is none is none.
LEMMA RecordsAreRecords ==
  /\ \A r \in Record : r # NoRecord
  /\ \A o \in OpenUpdate : o # NoUpdate /\ o.stage # "none"
  /\ NoUpdate.stage = "none" /\ NoUpdate.stale = FALSE /\ NoRecord.tokens = 0
BY DEF Record, NoRecord, RecordTitles, OpenUpdate, NoUpdate, UpdateStages

\* Who has not read the record does not get an old copy.
LEMMA NoneIsStale ==
  [NoUpdate EXCEPT !.stale = @ \/ NoUpdate.stage # "none"] = NoUpdate
<1>1. PICK b \in BOOLEAN : b = (NoUpdate.stale \/ NoUpdate.stage # "none")
  OBVIOUS
<1>2. b = FALSE
  <2>1. ~NoUpdate.stale /\ NoUpdate.stage = "none"
    BY DEF NoUpdate
  <2> QED BY <1>1, <2>1, Zenon
<1>3. [NoUpdate EXCEPT !.stale = b] = [rec |-> NoRecord, stage |-> "none", stale |-> b]
  BY DEF NoUpdate
<1>4. [NoUpdate EXCEPT !.stale = b] = NoUpdate
  BY <1>2, <1>3, Zenon DEF NoUpdate
<1> QED BY <1>1, <1>4

\* The invariant holds at first.
LEMMA RecordsStart == RecordInit => RecordInv
<1> SUFFICES ASSUME RecordInit PROVE RecordInv
  OBVIOUS
<1>1. /\ record = NoRecord /\ wanted = NoRecord /\ updating = [u \in Updaters |-> NoUpdate]
      /\ news = <<>> /\ workBranch = 0 /\ spent = 0
      /\ agentLoop = FALSE /\ overlapped = FALSE /\ droppedOnce = FALSE /\ startedLate = FALSE
  BY DEF RecordInit
<1>2. <<>> \in Seq(NewsItem) /\ DOMAIN <<>> = {}
  BY EmptySeq
<1>3. RecordTypeOK
  BY <1>1, <1>2 DEF RecordTypeOK
<1>4. \A u \in Updaters : updating[u] = NoUpdate /\ ~UpToDate(u)
  BY <1>1 DEF UpToDate
<1>5. FreshUpdates /\ CountedSpent
  BY <1>1, <1>2, <1>4, RecordsAreRecords DEF FreshUpdates, CountedSpent, Updaters
<1>6. RecordsKept
  BY <1>1, RecordsAreRecords DEF RecordsKept, WritesStand, StaysDeleted
<1> QED BY <1>3, <1>4, <1>5, <1>6 DEF RecordInv

\* A step that changes neither the record nor who has read it, nor what was wanted.
LEMMA RecordQuiet ==
  ASSUME RecordInv, UNCHANGED <<record, updating, wanted, overlapped, droppedOnce>>,
         news' \in Seq(NewsItem), workBranch' \in Nat, spent' \in Nat, spent <= spent',
         agentLoop' \in BOOLEAN, startedLate' \in BOOLEAN,
         \A i \in DOMAIN news' : news'[i].tokens <= spent',
         agentLoop' /\ record = NoRecord => startedLate'
  PROVE  RecordInv'
<1>1. RecordTypeOK'
  BY DEF RecordInv, RecordTypeOK
<1>2. record.tokens \in Nat /\ \A u \in Updaters : updating[u] # NoUpdate => updating[u].rec.tokens \in Nat
  BY DEF RecordInv, RecordTypeOK, Record, OpenUpdate, NoRecord
<1>3. spent \in Nat
  BY DEF RecordInv, RecordTypeOK
<1>4. CountedSpent'
  BY <1>2, <1>3 DEF RecordInv, CountedSpent
<1>5. RecordsKept'
  BY <1>4 DEF CountedSpent, RecordInv, RecordsKept, WritesStand, StaysDeleted
<1>6. FreshUpdates'
  BY DEF RecordInv, FreshUpdates, UpToDate
<1> QED BY <1>1, <1>4, <1>5, <1>6 DEF RecordInv, UpToDate

\* An event with its tokens joins the queue.
LEMMA AgentNewsKeeps ==
  ASSUME RecordInv, NEW kind \in {"plain", "metrics", "git"}, AgentNews(kind) PROVE RecordInv'
<1> DEFINE n == [kind |-> kind, tokens |-> spent']
<1>1. /\ news' = Append(news, n) /\ spent' = (IF kind = "metrics" THEN spent + 1 ELSE spent)
      /\ workBranch' = (IF kind = "git" THEN workBranch + 1 ELSE workBranch)
      /\ UNCHANGED <<record, agentLoop, updating, wanted, overlapped, droppedOnce, startedLate>>
  BY DEF AgentNews, recordHistory
<1>2. spent \in Nat /\ workBranch \in Nat /\ news \in Seq(NewsItem)
  BY DEF RecordInv, RecordTypeOK
<1>3. spent' \in Nat /\ spent <= spent' /\ workBranch' \in Nat
  BY <1>1, <1>2
<1>4. n \in NewsItem /\ n.tokens = spent'
  BY <1>3 DEF NewsItem
<1> HIDE DEF n
<1>5. /\ news' \in Seq(NewsItem) /\ Len(news') = Len(news) + 1 /\ news'[Len(news) + 1] = n
      /\ \A i \in 1..Len(news) : news'[i] = news[i]
  BY <1>1, <1>2, <1>4, AppendProperties
<1>6. \A i \in DOMAIN news' : news'[i].tokens <= spent'
  <2> SUFFICES ASSUME NEW i \in 1..Len(news) + 1 PROVE news'[i].tokens <= spent'
    BY <1>5, LenProperties
  <2>1. Len(news) \in Nat
    BY <1>2, LenProperties
  <2>2. CASE i = Len(news) + 1
    BY <1>3, <1>4, <1>5, <2>2
  <2>3. CASE i \in 1..Len(news)
    <3>1. news[i] \in NewsItem /\ i \in DOMAIN news
      BY <1>2, <2>3, LenProperties, ElementOfSeq
    <3>2. news[i].tokens <= spent /\ news[i].tokens \in Nat
      BY <3>1 DEF RecordInv, CountedSpent, NewsItem
    <3> QED BY <1>2, <1>3, <1>5, <2>3, <3>2
  <2> QED BY <2>1, <2>2, <2>3
<1>7. agentLoop' \in BOOLEAN /\ startedLate' \in BOOLEAN /\ (agentLoop' /\ record = NoRecord => startedLate')
  BY <1>1 DEF RecordInv, RecordTypeOK, RecordsKept, StaysDeleted
<1> QED BY <1>1, <1>3, <1>5, <1>6, <1>7, RecordQuiet

\* The loop is started or stopped, or a start looks the record up, or a deletion does.
LEMMA LoopStepsKeep ==
  ASSUME RecordInv, StartLooksUp \/ StartRefused \/ StartsLoop \/ StopsLoop \/ DropLooksUp \/ DropCloses
  PROVE  RecordInv'
<1>1. UNCHANGED <<record, updating, wanted, overlapped, droppedOnce, workBranch, spent>>
  BY DEF StartLooksUp, StartRefused, StartsLoop, StopsLoop, DropLooksUp, DropCloses, recordHistory
<1>2. news' \in {news, <<>>}
  BY DEF StartLooksUp, StartRefused, StartsLoop, StopsLoop, DropLooksUp, DropCloses
<1>3. /\ news \in Seq(NewsItem) /\ workBranch \in Nat /\ spent \in Nat /\ spent <= spent
      /\ \A i \in DOMAIN news : news[i].tokens <= spent
  BY DEF RecordInv, RecordTypeOK, CountedSpent
<1>4. news' \in Seq(NewsItem) /\ \A i \in DOMAIN news' : news'[i].tokens <= spent
  <2>1. <<>> \in Seq(NewsItem) /\ DOMAIN <<>> = {}
    BY EmptySeq
  <2> QED BY <1>2, <1>3, <2>1
<1>5. /\ agentLoop' \in BOOLEAN /\ startedLate' \in BOOLEAN
      /\ agentLoop' /\ record = NoRecord => startedLate'
  <2>1. agentLoop \in BOOLEAN /\ startedLate \in BOOLEAN /\ (agentLoop /\ record = NoRecord => startedLate)
    BY DEF RecordInv, RecordTypeOK, RecordsKept, StaysDeleted
  <2>2. CASE StartsLoop
    <3>1. agentLoop' = TRUE /\ startedLate' = (startedLate \/ record = NoRecord)
      BY <2>2 DEF StartsLoop
    <3>2. PICK b \in BOOLEAN : b = (startedLate \/ record = NoRecord)
      OBVIOUS
    <3>3. startedLate' = b /\ (record = NoRecord => b)
      BY <3>1, <3>2, Zenon
    <3> QED BY <3>1, <3>3
  <2>3. CASE ~StartsLoop
    <3>1. agentLoop' \in {agentLoop, FALSE} /\ startedLate' = startedLate
      BY <2>3 DEF StartLooksUp, StartRefused, StopsLoop, DropLooksUp, DropCloses, recordHistory
    <3>2. agentLoop' \in BOOLEAN /\ startedLate' \in BOOLEAN
      BY <2>1, <3>1
    <3>3. ASSUME agentLoop', record = NoRecord PROVE startedLate'
      <4>1. agentLoop
        BY <3>1, <3>3
      <4> QED BY <2>1, <3>1, <3>3, <4>1
    <3> QED BY <3>2, <3>3
  <2> QED BY <2>2, <2>3
<1> QED BY <1>1, <1>3, <1>4, <1>5, RecordQuiet

\* A record is made when nobody has read one.
LEMMA CreatesKeeps ==
  ASSUME RecordInv, NEW title \in Titles, NEW startable \in BOOLEAN, Creates(title), CreatesLoop(startable)
  PROVE  RecordInv'
<1>1. /\ record = NoRecord /\ ~droppedOnce /\ record' = [NoRecord EXCEPT !.title = title] /\ wanted' = record'
      /\ agentLoop' = startable
      /\ UNCHANGED <<news, workBranch, spent, updating, overlapped, droppedOnce, startedLate>>
  BY DEF Creates, CreatesLoop
<1>2. record' \in Record /\ record'.tokens = 0
  BY <1>1 DEF Record, NoRecord, Titles, RecordTitles
<1>3. RecordTypeOK'
  BY <1>1, <1>2 DEF RecordInv, RecordTypeOK
<1>4. \A u \in Updaters : ~UpToDate(u)'
  BY <1>1 DEF RecordInv, UpToDate
<1>5. FreshUpdates'
  BY <1>4 DEF FreshUpdates, Updaters
<1>6. CountedSpent'
  BY <1>1, <1>2 DEF RecordInv, CountedSpent, RecordTypeOK
<1>7. RecordsKept'
  BY <1>1, <1>2, <1>6, RecordsAreRecords DEF CountedSpent, RecordsKept, WritesStand, StaysDeleted
<1> QED BY <1>3, <1>4, <1>5, <1>6, <1>7 DEF RecordInv

\* A writer reads the record: what it will write is the record but for its own fields.
LEMMA OpensUpdateKeeps ==
  ASSUME RecordInv, record # NoRecord, NEW u \in Updaters, NEW rec \in Record, NEW stage \in UpdateStages,
         OpensUpdate(u, rec, stage), rec.tokens <= spent,
         u = "events" => rec.prs = record.prs /\ rec.title = record.title
                         /\ (stage = "titling" => record.title = "default"),
         u = "rename" => rec = [record EXCEPT !.title = "user"],
         u = "pr" => rec = WithPullRequest(record, stage),
         news' \in Seq(NewsItem), \A i \in DOMAIN news' : news'[i].tokens <= spent,
         UNCHANGED <<record, agentLoop, workBranch, spent, wanted, overlapped, droppedOnce, startedLate>>
  PROVE  RecordInv'
<1> DEFINE o == [rec |-> rec, stage |-> stage, stale |-> FALSE]
<1>1. updating' = [updating EXCEPT ![u] = o]
  BY DEF OpensUpdate
<1>2. o \in OpenUpdate /\ o.rec = rec /\ o.stage = stage
  BY DEF OpenUpdate
<1> HIDE DEF o
<1>3. updating'[u] = o /\ \A x \in Updaters : x # u => updating'[x] = updating[x]
  BY <1>1 DEF RecordInv, RecordTypeOK
<1>4. RecordTypeOK'
  BY <1>1, <1>2 DEF RecordInv, RecordTypeOK
<1>5. CountedSpent'
  BY <1>2, <1>3 DEF RecordInv, CountedSpent
<1>6. RecordsKept'
  BY DEF RecordInv, RecordsKept, WritesStand, StaysDeleted
<1>7. FreshUpdates'
  <2>1. "events" \in Updaters /\ "rename" \in Updaters /\ "pr" \in Updaters
    BY DEF Updaters
  <2>2. CASE u = "events"
    BY <1>2, <1>3, <2>1, <2>2 DEF RecordInv, FreshUpdates, UpToDate
  <2>3. CASE u = "rename"
    BY <1>2, <1>3, <2>1, <2>3 DEF RecordInv, FreshUpdates, UpToDate
  <2>4. CASE u = "pr"
    BY <1>2, <1>3, <2>1, <2>4 DEF RecordInv, FreshUpdates, UpToDate
  <2> QED BY <2>2, <2>3, <2>4 DEF Updaters
<1> QED BY <1>4, <1>5, <1>6, <1>7 DEF RecordInv

\* The first event's callback reads the record, unless it is gone.
LEMMA UpdateReadsKeeps ==
  ASSUME RecordInv, UpdateReads PROVE RecordInv'
<1> DEFINE n == Head(news)
           rec == WithNews(record, n)
           stage == IF record.title = "default" THEN "titling" ELSE "ready"
<1>1. /\ news # <<>> /\ news' = Tail(news)
      /\ IF record = NoRecord THEN UNCHANGED updating ELSE OpensUpdate("events", rec, stage)
      /\ UNCHANGED <<record, agentLoop, workBranch, spent, wanted, overlapped, droppedOnce, startedLate>>
  BY DEF UpdateReads, recordHistory
<1>2. /\ news \in Seq(NewsItem) /\ workBranch \in Nat /\ spent \in Nat
      /\ \A i \in DOMAIN news : news[i].tokens <= spent
  BY DEF RecordInv, RecordTypeOK, CountedSpent
<1>3. /\ news' \in Seq(NewsItem) /\ n \in NewsItem /\ n = news[1] /\ 1 \in DOMAIN news
      /\ \A i \in DOMAIN news' : i + 1 \in DOMAIN news /\ news'[i] = news[i + 1]
  <2>1. Len(news) \in Nat \ {0} /\ DOMAIN news = 1..Len(news)
    BY <1>1, <1>2, EmptySeq, LenProperties
  <2>2. /\ Tail(news) \in Seq(NewsItem) /\ n \in NewsItem /\ Len(Tail(news)) = Len(news) - 1
        /\ \A i \in 1..Len(Tail(news)) : Tail(news)[i] = news[i + 1]
    BY <1>1, <1>2, HeadTailProperties
  <2>3. n = news[1]
    BY <1>2
  <2>4. DOMAIN news' = 1..Len(Tail(news))
    BY <1>1, <2>2, LenProperties
  <2> HIDE DEF n
  <2> QED BY <1>1, <2>1, <2>2, <2>3, <2>4
<1>4. \A i \in DOMAIN news' : news'[i].tokens <= spent
  BY <1>2, <1>3
<1>5. CASE record = NoRecord
  <2>1. agentLoop' \in BOOLEAN /\ startedLate' \in BOOLEAN /\ (agentLoop' /\ record = NoRecord => startedLate')
    BY <1>1 DEF RecordInv, RecordTypeOK, RecordsKept, StaysDeleted
  <2>2. spent' \in Nat /\ workBranch' \in Nat /\ spent <= spent' /\ \A i \in DOMAIN news' : news'[i].tokens <= spent'
    BY <1>1, <1>2, <1>4
  <2>3. UNCHANGED <<record, updating, wanted, overlapped, droppedOnce>>
    BY <1>1, <1>5
  <2> QED BY <1>3, <2>1, <2>2, <2>3, RecordQuiet
<1>6. CASE record # NoRecord
  <2>1. record \in Record /\ record.tokens <= spent
    BY <1>6 DEF RecordInv, RecordTypeOK, CountedSpent
  <2>2. n.tokens \in Nat /\ n.tokens <= spent
    BY <1>2, <1>3 DEF NewsItem
  <2> HIDE DEF n
  <2>3. BranchSeen(record.branch) \in Nat
    BY <1>2, <2>1 DEF BranchSeen, Record
  <2>4. rec \in Record /\ rec.prs = record.prs /\ rec.title = record.title /\ rec.tokens <= spent
    BY <2>1, <2>2, <2>3 DEF WithNews, Record
  <2>5. /\ stage \in UpdateStages /\ "events" \in Updaters
        /\ stage = "titling" => record.title = "default"
    BY DEF UpdateStages, Updaters
  <2>6. OpensUpdate("events", rec, stage)
    BY <1>1, <1>6
  <2> HIDE DEF rec, stage
  <2> QED BY <1>1, <1>3, <1>4, <1>6, <2>4, <2>5, <2>6, OpensUpdateKeeps
<1> QED BY <1>5, <1>6

\* A title comes back for a record that had the default one.
LEMMA TitledKeeps ==
  ASSUME RecordInv, NEW title \in GeneratedTitles, Titled(title) PROVE RecordInv'
<1> DEFINE o == [updating["events"] EXCEPT !.stage = "ready", !.rec.title = title]
<1>1. /\ updating["events"].stage = "titling"
      /\ UNCHANGED <<record, agentLoop, news, workBranch, spent, wanted, overlapped, droppedOnce, startedLate>>
  BY DEF Titled, recordHistory
<1>2. "events" \in Updaters /\ updating["events"] \in OpenUpdate
  BY <1>1, RecordsAreRecords DEF RecordInv, RecordTypeOK, Updaters
<1>3. updating' = [updating EXCEPT !["events"] = o]
  BY <1>2 DEF Titled, RecordInv, RecordTypeOK
<1>4. /\ o \in OpenUpdate /\ o.stale = updating["events"].stale /\ o.stage = "ready"
      /\ o.rec.tokens = updating["events"].rec.tokens /\ o.rec.prs = updating["events"].rec.prs
  BY <1>2 DEF OpenUpdate, UpdateStages, Record, GeneratedTitles, RecordTitles
<1> HIDE DEF o
<1>5. updating'["events"] = o /\ \A x \in Updaters : x # "events" => updating'[x] = updating[x]
  BY <1>2, <1>3 DEF RecordInv, RecordTypeOK
<1>6. RecordTypeOK'
  BY <1>1, <1>3, <1>4 DEF RecordInv, RecordTypeOK
<1>7. o # NoUpdate /\ updating["events"] # NoUpdate
  BY <1>2, <1>4, RecordsAreRecords
<1>8. CountedSpent'
  BY <1>1, <1>4, <1>5, <1>7 DEF RecordInv, CountedSpent
<1>9. RecordsKept'
  BY <1>1 DEF RecordInv, RecordsKept, WritesStand, StaysDeleted
<1>10. \A x \in Updaters : UpToDate(x)' <=> UpToDate(x)
  BY <1>4, <1>5, <1>7 DEF UpToDate
<1>11. FreshUpdates'
  <2>1. UpToDate("events") => record.title = "default" /\ o.rec.prs = record.prs
    BY <1>1, <1>4 DEF RecordInv, FreshUpdates
  <2>2. /\ "events" \in Updaters /\ "rename" \in Updaters /\ "pr" \in Updaters
        /\ "events" # "rename" /\ "events" # "pr"
    BY DEF Updaters
  <2> QED BY <1>1, <1>4, <1>5, <1>10, <2>1, <2>2 DEF RecordInv, FreshUpdates
<1> QED BY <1>1, <1>6, <1>8, <1>9, <1>10, <1>11 DEF RecordInv

\* A rename and a tool that opened a pull request read the record.
LEMMA OtherReadsKeep ==
  ASSUME RecordInv, RenameReads \/ \E host \in {"github", "gitlab", "bitbucket", "azure_devops"} : PrReads(host)
  PROVE  RecordInv'
<1>1. /\ record # NoRecord
      /\ UNCHANGED <<record, agentLoop, news, workBranch, spent, wanted, overlapped, droppedOnce, startedLate>>
  BY DEF RenameReads, PrReads, recordHistory
<1>2. record \in Record /\ record.tokens <= spent
  BY <1>1 DEF RecordInv, RecordTypeOK, CountedSpent
<1>3. news' \in Seq(NewsItem) /\ \A i \in DOMAIN news' : news'[i].tokens <= spent
  BY <1>1 DEF RecordInv, RecordTypeOK, CountedSpent
<1>4. CASE RenameReads
  <2> DEFINE rec == [record EXCEPT !.title = "user"]
  <2>1. rec \in Record /\ rec.tokens = record.tokens
    BY <1>2 DEF Record, RecordTitles
  <2>2. OpensUpdate("rename", rec, "ready")
    BY <1>4 DEF RenameReads
  <2>3. "ready" \in UpdateStages /\ "rename" \in Updaters
    BY DEF UpdateStages, Updaters
  <2>4. rec.tokens <= spent
    BY <1>2, <2>1
  <2>5. rec = [record EXCEPT !.title = "user"]
    OBVIOUS
  <2> HIDE DEF rec
  <2> QED BY <1>1, <1>3, <2>1, <2>2, <2>3, <2>4, <2>5, OpensUpdateKeeps
<1>5. ASSUME NEW host \in {"github", "gitlab", "bitbucket", "azure_devops"}, PrReads(host) PROVE RecordInv'
  <2> DEFINE rec == WithPullRequest(record, host)
  <2>1. rec \in Record /\ rec.tokens = record.tokens
    BY <1>2 DEF WithPullRequest, Record
  <2>2. OpensUpdate("pr", rec, host)
    BY <1>5 DEF PrReads
  <2>3. host \in UpdateStages /\ "pr" \in Updaters
    BY DEF UpdateStages, Updaters
  <2>4. rec.tokens <= spent
    BY <1>2, <2>1
  <2>5. rec = WithPullRequest(record, host)
    OBVIOUS
  <2> HIDE DEF rec
  <2> QED BY <1>1, <1>3, <2>1, <2>2, <2>3, <2>4, <2>5, OpensUpdateKeeps
<1> QED BY <1>4, <1>5

\* A record is written back: it is what was wanted if nobody wrote since it was read, and
\* whoever else has read it holds an old copy from now on.
LEMMA SavesKeeps ==
  ASSUME RecordInv, NEW u \in Updaters, updating[u] # NoUpdate, NEW intended, Saves(u, intended),
         ~overlapped /\ UpToDate(u) => intended = updating[u].rec,
         UNCHANGED <<agentLoop, news, workBranch, spent, droppedOnce, startedLate>>
  PROVE  RecordInv'
<1> DEFINE o == updating[u]
<1>1. /\ record' = o.rec /\ wanted' = intended /\ overlapped' = (overlapped \/ o.stale)
      /\ updating' = [x \in Updaters |-> IF x = u THEN NoUpdate
                         ELSE [updating[x] EXCEPT !.stale = @ \/ updating[x].stage # "none"]]
  BY DEF Saves
<1>2. o \in OpenUpdate
  BY DEF RecordInv, RecordTypeOK
<1>3. o.rec \in Record /\ o.stale \in BOOLEAN /\ o.rec.tokens <= spent
  BY <1>2 DEF OpenUpdate, RecordInv, CountedSpent
<1>4. UpToDate(u) <=> ~o.stale
  BY DEF UpToDate
<1> HIDE DEF o
<1>5. \A x \in Updaters : /\ updating'[x] \in OpenUpdate \cup {NoUpdate} /\ ~UpToDate(x)'
                          /\ updating'[x] # NoUpdate => updating[x] # NoUpdate /\ updating'[x].rec = updating[x].rec
  <2> SUFFICES ASSUME NEW x \in Updaters
               PROVE  /\ updating'[x] \in OpenUpdate \cup {NoUpdate} /\ ~UpToDate(x)'
                      /\ updating'[x] # NoUpdate => updating[x] # NoUpdate /\ updating'[x].rec = updating[x].rec
    OBVIOUS
  <2>1. CASE x = u
    BY <1>1, <2>1 DEF UpToDate
  <2>2. CASE x # u /\ updating[x] = NoUpdate
    <3>1. updating'[x] = NoUpdate
      BY <1>1, <2>2, NoneIsStale
    <3> QED BY <2>2, <3>1 DEF UpToDate
  <2>3. CASE x # u /\ updating[x] # NoUpdate
    <3>1. updating[x] \in OpenUpdate /\ updating[x].stage # "none"
      BY <2>3, RecordsAreRecords DEF RecordInv, RecordTypeOK
    <3>2. updating'[x] = [updating[x] EXCEPT !.stale = TRUE]
      BY <1>1, <2>3, <3>1 DEF OpenUpdate
    <3>3. updating'[x] \in OpenUpdate /\ updating'[x].stale = TRUE /\ updating'[x].rec = updating[x].rec
      BY <3>1, <3>2 DEF OpenUpdate
    <3> QED BY <2>3, <3>3 DEF UpToDate
  <2> QED BY <2>1, <2>2, <2>3
<1>7. overlapped' \in BOOLEAN /\ updating' \in [Updaters -> OpenUpdate \cup {NoUpdate}]
  <2>1. overlapped \in BOOLEAN
    BY DEF RecordInv, RecordTypeOK
  <2>2. overlapped' \in BOOLEAN
    BY <1>1, <1>3, <2>1
  <2> QED BY <1>1, <1>5, <2>2
<1>8. RecordTypeOK'
  BY <1>1, <1>3, <1>7 DEF RecordInv, RecordTypeOK
<1>9. CountedSpent'
  BY <1>1, <1>3, <1>5 DEF RecordInv, CountedSpent
<1>10. FreshUpdates'
  BY <1>5 DEF FreshUpdates, Updaters
<1>11. WritesStand'
  BY <1>1, <1>3, <1>4 DEF WritesStand, o
<1>12. StaysDeleted'
  <2>1. record' # NoRecord
    BY <1>1, <1>3, RecordsAreRecords
  <2>2. droppedOnce => overlapped'
    <3>1. CASE record = NoRecord
      <4>1. ~UpToDate(u)
        BY <3>1 DEF RecordInv
      <4> QED BY <1>1, <1>4, <4>1
    <3>2. CASE record # NoRecord
      BY <1>1, <3>2 DEF RecordInv, RecordsKept, StaysDeleted
    <3> QED BY <3>1, <3>2
  <2> QED BY <2>1, <2>2 DEF StaysDeleted
<1>13. RecordsKept'
  BY <1>9, <1>11, <1>12 DEF CountedSpent, RecordsKept
<1> QED BY <1>5, <1>8, <1>9, <1>10, <1>13 DEF RecordInv

\* The three writers.
LEMMA WritersKeep ==
  ASSUME RecordInv, UpdateSaves \/ RenameSaves \/ PrSaves PROVE RecordInv'
<1>1. UNCHANGED <<agentLoop, news, workBranch, spent, droppedOnce, startedLate>>
  BY DEF UpdateSaves, RenameSaves, PrSaves
<1>2. /\ ~overlapped => record = wanted
      /\ \A u \in Updaters : UpToDate(u) => record \in Record
  BY DEF RecordInv, RecordTypeOK, RecordsKept, WritesStand
<1>3. \A u \in Updaters : updating[u].stage # "none" => updating[u] # NoUpdate
  BY RecordsAreRecords
<1>4. \A u \in Updaters : updating[u] # NoUpdate => updating[u] \in OpenUpdate /\ updating[u].rec \in Record
  BY DEF RecordInv, RecordTypeOK, OpenUpdate
<1>5. "events" \in Updaters /\ "rename" \in Updaters /\ "pr" \in Updaters
  BY DEF Updaters
<1>6. FreshUpdates
  BY DEF RecordInv
<1>7. CASE UpdateSaves
  <2> DEFINE rec == updating["events"].rec
             intended == [wanted EXCEPT !.tokens = rec.tokens, !.branch = rec.branch,
                                        !.title = IF @ = "default" THEN rec.title ELSE @]
  <2>1. updating["events"].stage = "ready" /\ Saves("events", intended)
    BY <1>7 DEF UpdateSaves
  <2>2. updating["events"] # NoUpdate /\ rec \in Record
    BY <1>3, <1>4, <1>5, <2>1
  <2>3. ~overlapped /\ UpToDate("events") => intended = rec
    <3> SUFFICES ASSUME ~overlapped, UpToDate("events") PROVE intended = rec
      OBVIOUS
    <3>1. wanted \in Record /\ wanted = record
      BY <1>2, <1>5
    <3>2. rec.prs = wanted.prs /\ (wanted.title # "default" => rec.title = wanted.title)
      BY <1>6, <3>1 DEF FreshUpdates
    <3> HIDE DEF rec
    <3> QED BY <2>2, <3>1, <3>2 DEF Record
  <2> HIDE DEF intended
  <2> QED BY <1>1, <1>5, <2>1, <2>2, <2>3, SavesKeeps DEF rec
<1>8. CASE RenameSaves
  <2> DEFINE intended == [wanted EXCEPT !.title = "user"]
  <2>1. updating["rename"].stage = "ready" /\ Saves("rename", intended)
    BY <1>8 DEF RenameSaves
  <2>2. updating["rename"] # NoUpdate
    BY <1>3, <1>5, <2>1
  <2>3. ~overlapped /\ UpToDate("rename") => intended = updating["rename"].rec
    BY <1>2, <1>6 DEF FreshUpdates
  <2> HIDE DEF intended
  <2> QED BY <1>1, <1>5, <2>1, <2>2, <2>3, SavesKeeps
<1>9. CASE PrSaves
  <2> DEFINE intended == WithPullRequest(wanted, updating["pr"].stage)
  <2>1. updating["pr"] # NoUpdate /\ Saves("pr", intended)
    BY <1>9 DEF PrSaves
  <2>2. ~overlapped /\ UpToDate("pr") => intended = updating["pr"].rec
    BY <1>2, <1>6 DEF FreshUpdates
  <2> HIDE DEF intended
  <2> QED BY <1>1, <1>5, <2>1, <2>2, SavesKeeps
<1> QED BY <1>7, <1>8, <1>9

\* The record is erased: whoever has read it holds an old copy, and a loop that runs was
\* started beside the deletion.
LEMMA DropErasesKeeps ==
  ASSUME RecordInv, DropErases PROVE RecordInv'
<1>1. /\ record' = NoRecord /\ wanted' = NoRecord /\ droppedOnce' = TRUE
      /\ startedLate' = (startedLate \/ agentLoop)
      /\ updating' = [u \in Updaters |-> [updating[u] EXCEPT !.stale = @ \/ updating[u].stage # "none"]]
      /\ UNCHANGED <<agentLoop, news, workBranch, spent, overlapped>>
  BY DEF DropErases
<1>2. \A x \in Updaters : /\ updating'[x] \in OpenUpdate \cup {NoUpdate} /\ ~UpToDate(x)'
                          /\ updating'[x] # NoUpdate => updating[x] # NoUpdate /\ updating'[x].rec = updating[x].rec
  <2> SUFFICES ASSUME NEW x \in Updaters
               PROVE  /\ updating'[x] \in OpenUpdate \cup {NoUpdate} /\ ~UpToDate(x)'
                      /\ updating'[x] # NoUpdate => updating[x] # NoUpdate /\ updating'[x].rec = updating[x].rec
    OBVIOUS
  <2>1. CASE updating[x] = NoUpdate
    <3>1. updating'[x] = NoUpdate
      BY <1>1, <2>1, NoneIsStale
    <3> QED BY <3>1 DEF UpToDate
  <2>2. CASE updating[x] # NoUpdate
    <3>1. updating[x] \in OpenUpdate /\ updating[x].stage # "none"
      BY <2>2, RecordsAreRecords DEF RecordInv, RecordTypeOK
    <3>2. updating'[x] = [updating[x] EXCEPT !.stale = TRUE]
      BY <1>1, <3>1 DEF OpenUpdate
    <3>3. updating'[x] \in OpenUpdate /\ updating'[x].stale = TRUE /\ updating'[x].rec = updating[x].rec
      BY <3>1, <3>2 DEF OpenUpdate
    <3> QED BY <2>2, <3>3 DEF UpToDate
  <2> QED BY <2>1, <2>2
<1>3. updating' \in [Updaters -> OpenUpdate \cup {NoUpdate}]
  BY <1>1, <1>2
<1>4. startedLate' \in BOOLEAN
  BY <1>1 DEF RecordInv, RecordTypeOK
<1>5. RecordTypeOK'
  BY <1>1, <1>3, <1>4 DEF RecordInv, RecordTypeOK
<1>6. CountedSpent'
  <2>1. record'.tokens = 0 /\ spent \in Nat
    BY <1>1, RecordsAreRecords DEF RecordInv, RecordTypeOK
  <2> QED BY <1>1, <1>2, <2>1 DEF RecordInv, CountedSpent
<1>7. FreshUpdates'
  BY <1>2 DEF FreshUpdates, Updaters
<1>8. RecordsKept'
  BY <1>1, <1>6 DEF CountedSpent, RecordsKept, WritesStand, StaysDeleted
<1> QED BY <1>2, <1>5, <1>6, <1>7, <1>8 DEF RecordInv

\* A step of another part keeps the invariant.
LEMMA RecordsFrame == RecordInv /\ UNCHANGED recordVars => RecordInv'
<1> SUFFICES ASSUME RecordInv, UNCHANGED recordVars PROVE RecordInv'
  OBVIOUS
<1>1. UNCHANGED <<record, updating, wanted, overlapped, droppedOnce, news, workBranch, spent, agentLoop, startedLate>>
  BY DEF recordVars
<1>2. /\ news' \in Seq(NewsItem) /\ workBranch' \in Nat /\ spent' \in Nat /\ spent <= spent'
      /\ agentLoop' \in BOOLEAN /\ startedLate' \in BOOLEAN /\ \A i \in DOMAIN news' : news'[i].tokens <= spent'
      /\ agentLoop' /\ record = NoRecord => startedLate'
  BY <1>1 DEF RecordInv, RecordTypeOK, CountedSpent, RecordsKept, StaysDeleted
<1> QED BY <1>1, <1>2, RecordQuiet

\* Every step keeps it.
LEMMA RecordSteps == RecordInv /\ RecordNext => RecordInv'
BY CreatesKeeps, LoopStepsKeep, AgentNewsKeeps, UpdateReadsKeeps, TitledKeeps, OtherReadsKeep, WritersKeep,
   DropErasesKeeps DEF RecordNext, create_pr, create_mr, create_bitbucket_pr, create_azure_devops_pr

-----------------------------------------------------------------------------
(* IssueResolver: what is pushed, opened and told.                            *)

Hosted == {"origin", "fork"}
BranchNames == {"main", "feature"} \cup FixBranches
Commits == {Theirs(b) : b \in {"m", "f", "main", "feature"}} \cup {Fix(k, n) : k \in Kinds, n \in Nat}
ResolverStages == {"idle", "clone", "lookup", "checkout", "work", "judge", "write",
                   "patch", "name", "push", "open", "comment", "reply"}
ResolverJob ==
  [at : ResolverStages, kind : Kinds, base : SUBSET Commits, mixed : BOOLEAN, patch : {"none", "some"},
   success : BOOLEAN, judged : BOOLEAN, out : Nat, tree : SUBSET Commits, name : {"none", "feature"} \cup FixBranches,
   left : SUBSET Nat]
ResolverOutput ==
  [kind : Kinds, number : {1, 2}, base : SUBSET Commits, mixed : BOOLEAN, patch : {"none", "some"},
   success : BOOLEAN, explained : BOOLEAN]
PullRequest == [to : Hosted, head : FixBranches, tree : SUBSET Commits, mixed : BOOLEAN]

RemoteTypeOK ==
  /\ repos \in [Hosted -> [BranchNames -> SUBSET Commits]]
  /\ clone \in [on : {"none", "main", "feature"}, main : SUBSET Commits, feature : SUBSET Commits]
  /\ outputs \in Seq(ResolverOutput) /\ opened \subseteq PullRequest /\ commands \in Nat

\* What an agent starts from holds no fix of an issue, and for an issue only what the
\* default branch holds.
BaseSound(kind, base, mixed) ==
  /\ Fixes(base, "issue") = {}
  /\ kind = "issue" => mixed \/ base \subseteq repos["origin"].main

\* Fixes of issues are on their own branches, and a clone has no fix: it had fetched the
\* user's branch before anything was pushed there.
FixesPlaced ==
  /\ Fixes(repos["origin"].main, "issue") = {} /\ Fixes(repos["origin"].feature, "issue") = {}
  /\ repos["origin"].feature # {}
  /\ clone.main \subseteq repos["origin"].main
  /\ Fixes(clone.feature, "issue") = {} /\ Fixes(clone.feature, "pr") = {}
  /\ clone.feature = {} => Fixes(repos["origin"].feature, "pr") = {}
  /\ \A r \in Hosted, b \in FixBranches : \A x \in Fixes(repos[r][b], "issue") :
        \E n \in 0 .. commands : x = Fix("issue", n)

\* Each result started from such a base, and the one of a pull request from a clone that
\* has its branch.
OutputsSound ==
  \A i \in DOMAIN outputs : /\ BaseSound(outputs[i].kind, outputs[i].base, outputs[i].mixed)
                            /\ outputs[i].kind = "pr" => clone.feature # {}

\* The branch of each pull request holds a fix.
OpenedPushed == \A p \in opened : Fixes(repos[p.to][p.head], "issue") # {}

\* What is to be pushed holds the fix of this command.
TreeSound ==
  /\ Fixes(job.tree, job.kind) = {Fix(job.kind, commands)}
  /\ job.kind = "issue" => /\ job.mixed \/ job.tree \ Fixes(job.tree, "issue") \subseteq repos["origin"].main
                           /\ job.at # "name" => job.name \in FixBranches
  /\ job.kind = "pr" => /\ job.at = "push" /\ job.name = "feature" /\ Fixes(job.tree, "issue") = {}
                        /\ clone.feature # {}

JobSound ==
  /\ job \in ResolverJob
  /\ job.at \in {"lookup", "checkout", "work", "judge", "write"} => BaseSound(job.kind, job.base, job.mixed)
  /\ job.at = "checkout" => job.kind = "pr"
  /\ job.at \in {"work", "judge", "write"} /\ job.kind = "pr" => clone.feature # {}
  /\ job.at = "patch" => job.out \in DOMAIN outputs
  /\ job.at \in {"name", "push", "open"} => TreeSound
  /\ job.at \in {"patch", "name", "push"} =>
        \A r \in Hosted, b \in FixBranches : Fix("issue", commands) \notin repos[r][b]
  /\ job.at = "open" => /\ \A p \in opened : ~(p.to = PushTo /\ p.head = job.name)
                        /\ Fixes(repos[PushTo][job.name], "issue") # {}
  /\ job.at \in {"comment", "reply"} => Fixes(repos["origin"].feature, "pr") # {}

ResolverInv == RemoteTypeOK /\ FixesPlaced /\ OutputsSound /\ OpenedPushed /\ ResolverKept /\ JobSound

\* The fixes of more, of two sets, and of one.
LEMMA FixesOfSets ==
  /\ \A S, U, k : S \subseteq U => Fixes(S, k) \subseteq Fixes(U, k)
  /\ \A S, U, k : Fixes(S \cup U, k) = Fixes(S, k) \cup Fixes(U, k)
  /\ \A n, k : Fixes({Fix(k, n)}, k) = {Fix(k, n)}
  /\ \A n : Fixes({Fix("pr", n)}, "issue") = {}
  /\ \A b, k : b # "fix" => Fixes({Theirs(b)}, k) = {}
  /\ \A k : Fixes({}, k) = {}
  /\ \A m, n, k : Fix(k, m) = Fix(k, n) => m = n
BY DEF Fixes, Fix, Theirs

\* A command that stops.
LEMMA IdleIsSound ==
  ASSUME job' = NoJob PROVE JobSound'
<1>1. NoJob \in ResolverJob /\ NoJob.at = "idle"
  BY DEF NoJob, ResolverJob, ResolverStages, Kinds
<1> QED BY <1>1 DEF JobSound

\* The invariant holds at first.
LEMMA ResolverStarts == ResolverInit => ResolverInv
<1> SUFFICES ASSUME ResolverInit PROVE ResolverInv
  OBVIOUS
<1> DEFINE m == {Theirs("m")}
           f == {Theirs("m"), Theirs("f")}
<1>1. /\ repos = [r \in Hosted |-> IF r = "origin" THEN [NoBranches EXCEPT !.main = m, !.feature = f] ELSE NoBranches]
      /\ clone = [on |-> "none", main |-> {}, feature |-> {}] /\ outputs = <<>> /\ job = NoJob /\ opened = {}
      /\ tellings = {} /\ commands = 0
  BY DEF ResolverInit, Hosted
<1>2. m \subseteq Commits /\ f \subseteq Commits
  BY DEF Commits
<1>3. \A k : Fixes(m, k) = {} /\ Fixes(f, k) = {} /\ Fixes({}, k) = {} /\ f # {}
  BY DEF Fixes, Theirs
<1> HIDE DEF m, f
<1>4. /\ NoBranches \in [BranchNames -> SUBSET Commits] /\ \A b \in BranchNames : NoBranches[b] = {}
      /\ "main" \in BranchNames /\ "feature" \in BranchNames /\ FixBranches \subseteq BranchNames
      /\ "main" \notin FixBranches /\ "feature" \notin FixBranches
  BY DEF NoBranches, BranchNames, FixBranches
<1>5. /\ repos \in [Hosted -> [BranchNames -> SUBSET Commits]]
      /\ repos["origin"].main = m /\ repos["origin"].feature = f
      /\ \A r \in Hosted, b \in FixBranches : repos[r][b] = {}
  BY <1>1, <1>2, <1>4 DEF Hosted
<1>6. <<>> \in Seq(ResolverOutput) /\ DOMAIN <<>> = {}
  BY EmptySeq
<1>7. RemoteTypeOK
  BY <1>1, <1>5, <1>6 DEF RemoteTypeOK
<1>8. FixesPlaced
  BY <1>1, <1>3, <1>5 DEF FixesPlaced
<1>9. OutputsSound /\ OpenedPushed
  BY <1>1, <1>6 DEF OutputsSound, OpenedPushed
<1>10. ResolverKept
  <2>1. Cardinality(Fixes(repos["origin"].feature, "pr")) = 0
    BY <1>3, <1>5, FS_EmptySet
  <2>2. PushedOnce
    BY <2>1 DEF PushedOnce
  <2>3. PullRequestIsFix /\ BranchOfItsOwn /\ ToldAfterPush
    BY <1>1 DEF PullRequestIsFix, BranchOfItsOwn, ToldAfterPush
  <2> QED BY <2>2, <2>3 DEF ResolverKept
<1>11. NoJob \in ResolverJob /\ NoJob.at = "idle"
  BY DEF NoJob, ResolverJob, ResolverStages, Kinds
<1>12. JobSound
  BY <1>1, <1>11 DEF JobSound
<1> QED BY <1>7, <1>8, <1>9, <1>10, <1>12 DEF ResolverInv

\* A step that changes the command at hand and nothing that is pushed, cloned or stored.
LEMMA JobMoves ==
  ASSUME ResolverInv, JobSound', UNCHANGED <<repos, opened, tellings, clone, outputs, commands>>
  PROVE  ResolverInv'
<1>1. RemoteTypeOK' /\ FixesPlaced' /\ OpenedPushed'
  BY DEF ResolverInv, RemoteTypeOK, FixesPlaced, OpenedPushed
<1>2. OutputsSound'
  BY DEF ResolverInv, OutputsSound, BaseSound
<1>3. ResolverKept'
  BY DEF ResolverInv, ResolverKept, PullRequestIsFix, BranchOfItsOwn, ToldAfterPush, PushedOnce
<1> QED BY <1>1, <1>2, <1>3 DEF ResolverInv

\* The same of a step that begins a command.
LEMMA CommandBegins ==
  ASSUME ResolverInv, JobSound', commands' = commands + 1, UNCHANGED <<repos, opened, tellings, clone, outputs>>
  PROVE  ResolverInv'
<1>0. commands \in Nat
  BY DEF ResolverInv, RemoteTypeOK
<1>1. RemoteTypeOK' /\ OpenedPushed'
  BY <1>0 DEF ResolverInv, RemoteTypeOK, OpenedPushed
<1>2. OutputsSound'
  BY DEF ResolverInv, OutputsSound, BaseSound
<1>3. ResolverKept'
  BY DEF ResolverInv, ResolverKept, PullRequestIsFix, BranchOfItsOwn, ToldAfterPush, PushedOnce
<1>4. FixesPlaced'
  <2>1. 0 .. commands \subseteq 0 .. commands'
    BY <1>0
  <2> QED BY <2>1 DEF ResolverInv, FixesPlaced
<1> QED BY <1>1, <1>2, <1>3, <1>4 DEF ResolverInv

\* A command begins, on an issue or a pull request or to send a result.
LEMMA ResolveStartsKeeps ==
  ASSUME ResolverInv, NEW k \in Kinds, ResolveStarts(k) PROVE ResolverInv'
<1>1. /\ job' = [NoJob EXCEPT !.at = "clone", !.kind = k] /\ commands' = commands + 1
      /\ UNCHANGED <<repos, opened, tellings, clone, outputs>>
  BY DEF ResolveStarts, Begins, remoteVars
<1>2. job' \in ResolverJob /\ job'.at = "clone"
  BY <1>1 DEF NoJob, ResolverJob, ResolverStages, Kinds
<1>3. JobSound'
  BY <1>2 DEF JobSound
<1> QED BY <1>1, <1>3, CommandBegins

\* The fix of a command that begins is nowhere yet.
LEMMA FixIsNew ==
  ASSUME ResolverInv
  PROVE  \A r \in Hosted, b \in FixBranches : Fix("issue", commands + 1) \notin repos[r][b]
<1> SUFFICES ASSUME NEW r \in Hosted, NEW b \in FixBranches, Fix("issue", commands + 1) \in repos[r][b] PROVE FALSE
  OBVIOUS
<1>1. Fix("issue", commands + 1) \in Fixes(repos[r][b], "issue")
  BY DEF Fixes, Fix
<1>2. PICK n \in 0 .. commands : Fix("issue", commands + 1) = Fix("issue", n)
  BY <1>1 DEF ResolverInv, FixesPlaced
<1>3. commands + 1 = n
  BY <1>2, FixesOfSets
<1> QED BY <1>3 DEF ResolverInv, RemoteTypeOK

LEMMA SendStartsKeeps ==
  ASSUME ResolverInv, NEW k \in Kinds, NEW onFailure \in BOOLEAN, SendStarts(k, onFailure) PROVE ResolverInv'
<1> DEFINE i == Sent(k)
<1>1. /\ i # 0 /\ commands' = commands + 1 /\ UNCHANGED <<repos, opened, tellings, clone, outputs>>
      /\ job' = IF outputs[i].success \/ onFailure THEN [NoJob EXCEPT !.at = "patch", !.kind = k, !.out = i] ELSE NoJob
  BY DEF SendStarts, Begins, remoteVars
<1>2. i \in DOMAIN outputs /\ i \in Nat
  <2> DEFINE I == {n \in 1 .. Len(outputs) : outputs[n].number = Number(k)}
  <2>1. i = IF I # {} THEN Min(I) ELSE 0
    BY DEF Sent, SelectInSeq
  <2>2. PICK n \in I : TRUE
    BY <1>1, <2>1
  <2>3. outputs \in Seq(ResolverOutput)
    BY DEF ResolverInv, RemoteTypeOK
  <2>4. I \subseteq Nat
    OBVIOUS
  <2>5. \E m \in I : \A x \in I : m <= x
    BY <2>2, <2>4, LeastOf
  <2>6. i \in I
    BY <2>1, <2>2, <2>5 DEF Min
  <2> QED BY <2>6, <2>3
<1> HIDE DEF i
<1>3. CASE outputs[i].success \/ onFailure
  <2>1. job' = [NoJob EXCEPT !.at = "patch", !.kind = k, !.out = i]
    BY <1>1, <1>3
  <2>2. job' \in ResolverJob /\ job'.at = "patch" /\ job'.out = i
    BY <1>2, <2>1 DEF NoJob, ResolverJob, ResolverStages, Kinds
  <2>3. \A r \in Hosted, b \in FixBranches : Fix("issue", commands') \notin repos'[r][b]
    BY <1>1, FixIsNew
  <2>4. JobSound'
    BY <1>1, <1>2, <2>2, <2>3 DEF JobSound
  <2> QED BY <1>1, <2>4, CommandBegins
<1>4. CASE ~(outputs[i].success \/ onFailure)
  BY <1>1, <1>4, IdleIsSound, CommandBegins
<1> QED BY <1>3, <1>4

\* A command that stops leaves everything as it is.
LEMMA StopsKeep ==
  ASSUME ResolverInv, AlreadyDone \/ NoHeadBranch \/ NoChanges \/ PushRejected \/ JobFails PROVE ResolverInv'
<1>1. job' = NoJob /\ UNCHANGED <<repos, opened, tellings, clone, outputs, commands>>
  BY DEF AlreadyDone, NoHeadBranch, NoChanges, PushRejected, JobFails, remoteVars
<1> QED BY <1>1, IdleIsSound, JobMoves

LEMMA NotDoneKeeps ==
  ASSUME ResolverInv, NotDone PROVE ResolverInv'
<1>1. /\ job.at = "lookup" /\ job' = [job EXCEPT !.at = IF job.kind = "pr" THEN "checkout" ELSE "work"]
      /\ UNCHANGED <<repos, opened, tellings, clone, outputs, commands>> /\ job \in ResolverJob
      /\ BaseSound(job.kind, job.base, job.mixed)
  BY DEF NotDone, At, remoteVars, ResolverInv, JobSound
<1>2. /\ job' \in ResolverJob /\ job'.kind = job.kind /\ job'.base = job.base /\ job'.mixed = job.mixed
      /\ job'.at = IF job.kind = "pr" THEN "checkout" ELSE "work"
  BY <1>1 DEF ResolverJob, ResolverStages
<1>3. BaseSound(job.kind, job.base, job.mixed)'
  BY <1>1, <1>2 DEF BaseSound
<1>4. JobSound'
  BY <1>2, <1>3 DEF JobSound
<1> QED BY <1>1, <1>4, JobMoves

LEMMA AgentWorksKeeps ==
  ASSUME ResolverInv, NEW patch \in {"none", "some"}, NEW crashed \in BOOLEAN, AgentWorks(patch, crashed)
  PROVE  ResolverInv'
<1>1. /\ job.at = "work"
      /\ job' = [job EXCEPT !.at = IF crashed THEN "write" ELSE "judge", !.patch = patch, !.success = FALSE]
      /\ UNCHANGED <<repos, opened, tellings, clone, outputs, commands>> /\ job \in ResolverJob
      /\ BaseSound(job.kind, job.base, job.mixed) /\ (job.kind = "pr" => clone.feature # {})
  BY DEF AgentWorks, At, remoteVars, ResolverInv, JobSound
<1>2. PICK no \in BOOLEAN : no = FALSE
  OBVIOUS
<1>3. PICK next \in {"write", "judge"} : next = IF crashed THEN "write" ELSE "judge"
  OBVIOUS
<1>4. job' = [job EXCEPT !.at = next, !.patch = patch, !.success = no]
  BY <1>1, <1>2, <1>3
<1>5. /\ job' \in ResolverJob /\ job'.kind = job.kind /\ job'.base = job.base /\ job'.mixed = job.mixed
      /\ job'.at \in {"write", "judge"}
  BY <1>1, <1>4 DEF ResolverJob, ResolverStages
<1>6. BaseSound(job.kind, job.base, job.mixed)'
  BY <1>1, <1>5 DEF BaseSound
<1>7. JobSound'
  BY <1>1, <1>5, <1>6 DEF JobSound
<1> QED BY <1>1, <1>7, JobMoves

LEMMA JudgesKeeps ==
  ASSUME ResolverInv, NEW success \in BOOLEAN, Judges(success) PROVE ResolverInv'
<1>1. /\ job.at = "judge" /\ job' = [job EXCEPT !.at = "write", !.success = success, !.judged = TRUE]
      /\ UNCHANGED <<repos, opened, tellings, clone, outputs, commands>> /\ job \in ResolverJob
      /\ BaseSound(job.kind, job.base, job.mixed) /\ (job.kind = "pr" => clone.feature # {})
  BY DEF Judges, At, remoteVars, ResolverInv, JobSound
<1>2. PICK yes \in BOOLEAN : yes = TRUE
  OBVIOUS
<1>3. job' = [job EXCEPT !.at = "write", !.success = success, !.judged = yes]
  BY <1>1, <1>2
<1>4. /\ job' \in ResolverJob /\ job'.kind = job.kind /\ job'.base = job.base /\ job'.mixed = job.mixed
      /\ job'.at = "write"
  BY <1>1, <1>3 DEF ResolverJob, ResolverStages
<1>5. BaseSound(job.kind, job.base, job.mixed)'
  BY <1>1, <1>4 DEF BaseSound
<1>6. JobSound'
  BY <1>1, <1>4, <1>5 DEF JobSound
<1> QED BY <1>1, <1>6, JobMoves

\* The patched copy: the base of the result, or the clone's branch, and the fix.
LEMMA PatchesKeeps ==
  ASSUME ResolverInv, Patches PROVE ResolverInv'
<1> DEFINE o == outputs[job.out]
           kind == o.kind
           fix == Fix(kind, commands)
           base == IF kind = "pr" THEN clone.feature ELSE o.base
           tree == base \union {fix}
<1>1. /\ job.at = "patch" /\ UNCHANGED <<repos, opened, tellings, clone, outputs, commands>> /\ job \in ResolverJob
      /\ job.out \in DOMAIN outputs
      /\ job' = [job EXCEPT !.at = IF kind = "pr" THEN "push" ELSE "name", !.kind = kind, !.mixed = o.mixed,
                            !.tree = tree, !.name = IF kind = "pr" THEN "feature" ELSE "none"]
      /\ \A r \in Hosted, b \in FixBranches : Fix("issue", commands) \notin repos[r][b]
  BY DEF Patches, At, remoteVars, ResolverInv, JobSound
<1>2. /\ o \in ResolverOutput /\ commands \in Nat /\ clone.feature \in SUBSET Commits
  BY <1>1, ElementOfSeq DEF ResolverInv, RemoteTypeOK
<1>3. BaseSound(kind, o.base, o.mixed) /\ (kind = "pr" => clone.feature # {})
  BY <1>1 DEF ResolverInv, OutputsSound
<1>4. kind \in Kinds /\ o.mixed \in BOOLEAN /\ base \in SUBSET Commits /\ fix \in Commits
  BY <1>2 DEF ResolverOutput, Commits
<1>5. tree \in SUBSET Commits
  BY <1>4
<1>6. /\ Fixes(tree, kind) = {fix} /\ (kind = "pr" => Fixes(tree, "issue") = {})
  <2>1. Fixes(base, kind) = {} /\ (kind = "pr" => Fixes(base, "issue") = {})
    BY <1>3, <1>4 DEF BaseSound, ResolverInv, FixesPlaced, Kinds
  <2>2. \A k : Fixes(tree, k) = Fixes(base, k) \cup Fixes({fix}, k)
    BY FixesOfSets
  <2> QED BY <2>1, <2>2, FixesOfSets
<1>7. kind = "issue" => o.mixed \/ tree \ Fixes(tree, "issue") \subseteq repos["origin"].main
  BY <1>3, <1>6 DEF BaseSound
<1> HIDE DEF o, kind, fix, base, tree
<1>8. PICK m \in BOOLEAN : m = o.mixed
  BY <1>4
<1>9. PICK name \in {"feature", "none"} : name = IF kind = "pr" THEN "feature" ELSE "none"
  <2>1. CASE kind = "pr"
    BY <2>1
  <2>2. CASE kind # "pr"
    BY <2>2
  <2> QED BY <2>1, <2>2
<1>10. PICK at \in {"push", "name"} : at = IF kind = "pr" THEN "push" ELSE "name"
  <2>1. CASE kind = "pr"
    BY <2>1
  <2>2. CASE kind # "pr"
    BY <2>2
  <2> QED BY <2>1, <2>2
<1>11. job' = [job EXCEPT !.at = at, !.kind = kind, !.mixed = m, !.tree = tree, !.name = name]
  BY <1>1, <1>8, <1>10, <1>9
<1>12. /\ job' \in ResolverJob /\ job'.at = at /\ job'.kind = kind /\ job'.mixed = m /\ job'.tree = tree
       /\ job'.name = name
  BY <1>1, <1>4, <1>5, <1>11 DEF ResolverJob, ResolverStages
<1>13. TreeSound'
  <2>1. Fixes(job'.tree, job'.kind) = {Fix(job'.kind, commands')}
    BY <1>1, <1>6, <1>12 DEF fix
  <2>2. job'.kind = "issue" => /\ job'.mixed \/ job'.tree \ Fixes(job'.tree, "issue") \subseteq repos'["origin"].main
                               /\ job'.at # "name" => job'.name \in FixBranches
    BY <1>1, <1>7, <1>8, <1>10, <1>9, <1>12
  <2>3. job'.kind = "pr" => /\ job'.at = "push" /\ job'.name = "feature" /\ Fixes(job'.tree, "issue") = {}
                            /\ clone'.feature # {}
    BY <1>1, <1>3, <1>6, <1>10, <1>9, <1>12
  <2> QED BY <2>1, <2>2, <2>3 DEF TreeSound
<1>14. JobSound'
  BY <1>1, <1>10, <1>12, <1>13 DEF JobSound
<1> QED BY <1>1, <1>14, JobMoves

\* A branch is named: a free one, or the first though it may be there.
LEMMA NamesKeep ==
  ASSUME ResolverInv, NamesBranch \/ NameMisread PROVE ResolverInv'
<1> DEFINE FirstFree(b) == /\ repos["origin"][b] = {}
                           /\ \A c \in FixBranches : repos["origin"][c] = {} =>
                                 \/ b = c
                                 \/ <<b, c>> \in {<<"fix", "fix-try2">>, <<"fix", "fix-try3">>, <<"fix-try2", "fix-try3">>}
<1>1. ASSUME NamesBranch PROVE \E b \in FixBranches : FirstFree(b)
  <2>1. PICK b \in FixBranches : repos["origin"][b] = {}
    BY <1>1 DEF NamesBranch
  <2>2. CASE repos["origin"]["fix"] = {}
    BY <2>2 DEF FixBranches
  <2>3. CASE repos["origin"]["fix"] # {} /\ repos["origin"]["fix-try2"] = {}
    BY <2>3 DEF FixBranches
  <2>4. CASE repos["origin"]["fix"] # {} /\ repos["origin"]["fix-try2"] # {}
    BY <2>1, <2>4 DEF FixBranches
  <2> QED BY <2>2, <2>3, <2>4
<1>2. PICK name \in FixBranches : job' = [job EXCEPT !.at = "push", !.name = name]
  <2>1. CASE NamesBranch
    <3>1. FreeName \in FixBranches
      BY <1>1, <2>1 DEF FreeName
    <3> QED BY <2>1, <3>1 DEF NamesBranch
  <2>2. CASE NameMisread
    BY <2>2 DEF NameMisread, FixBranches
  <2> QED BY <2>1, <2>2
<1>3. /\ job.at = "name" /\ UNCHANGED <<repos, opened, tellings, clone, outputs, commands>> /\ job \in ResolverJob
      /\ TreeSound /\ \A r \in Hosted, b \in FixBranches : Fix("issue", commands) \notin repos[r][b]
  BY DEF NamesBranch, NameMisread, At, remoteVars, ResolverInv, JobSound
<1>4. /\ job' \in ResolverJob /\ job'.at = "push" /\ job'.name = name
      /\ job'.kind = job.kind /\ job'.mixed = job.mixed /\ job'.tree = job.tree
  BY <1>2, <1>3 DEF ResolverJob, ResolverStages
<1>5. TreeSound'
  <2>1. job.kind # "pr"
    BY <1>3 DEF TreeSound
  <2> QED BY <1>3, <1>4, <2>1 DEF TreeSound
<1>6. JobSound'
  BY <1>3, <1>4, <1>5 DEF JobSound
<1> QED BY <1>3, <1>6, JobMoves

\* The clone of a command, made of the default branch or as it was left.
LEMMA ClonesKeeps ==
  ASSUME ResolverInv, Clones_ PROVE ResolverInv'
<1>1. /\ job.at = "clone" /\ UNCHANGED <<repos, opened, tellings, outputs, commands>> /\ job \in ResolverJob
      /\ clone' = IF clone.on = "none" THEN [clone EXCEPT !.on = "main", !.main = repos["origin"].main] ELSE clone
      /\ job' = [job EXCEPT !.at = "lookup", !.base = clone'[clone'.on], !.mixed = clone.on = "feature"]
  BY DEF Clones_, At, remoteVars, ResolverInv, JobSound
<1>2. /\ clone \in [on : {"none", "main", "feature"}, main : SUBSET Commits, feature : SUBSET Commits]
      /\ repos["origin"].main \in SUBSET Commits
  BY DEF ResolverInv, RemoteTypeOK, Hosted, BranchNames
<1>3. /\ clone' \in [on : {"none", "main", "feature"}, main : SUBSET Commits, feature : SUBSET Commits]
      /\ clone'.on # "none" /\ clone'.feature = clone.feature
      /\ clone'.main \subseteq repos["origin"].main
      /\ clone'.on = "main" \/ clone.on = "feature"
      /\ clone.on = "feature" => clone'.on = "feature"
  <2>1. clone.main \subseteq repos["origin"].main
    BY DEF ResolverInv, FixesPlaced
  <2>2. CASE clone.on = "none"
    BY <1>1, <1>2, <2>2
  <2>3. CASE clone.on # "none"
    BY <1>1, <1>2, <2>1, <2>3
  <2> QED BY <2>2, <2>3
<1>4. PICK base \in SUBSET Commits : base = clone'[clone'.on]
  BY <1>3
<1>5. PICK mixed \in BOOLEAN : mixed <=> clone.on = "feature"
  OBVIOUS
<1>6. job' = [job EXCEPT !.at = "lookup", !.base = base, !.mixed = mixed]
  <2>1. mixed = (clone.on = "feature")
    BY <1>5
  <2> QED BY <1>1, <1>4, <2>1, Zenon
<1>7. /\ job' \in ResolverJob /\ job'.at = "lookup" /\ job'.base = base /\ job'.mixed = mixed
      /\ job'.kind = job.kind
  BY <1>1, <1>6 DEF ResolverJob, ResolverStages
<1>8. Fixes(base, "issue") = {} /\ (mixed \/ base \subseteq repos["origin"].main)
  <2>1. CASE clone'.on = "main"
    <3>1. base = clone'.main
      BY <1>4, <2>1
    <3>2. Fixes(repos["origin"].main, "issue") = {}
      BY DEF ResolverInv, FixesPlaced
    <3> QED BY <1>3, <3>1, <3>2, FixesOfSets
  <2>2. CASE clone'.on # "main"
    <3>1. base = clone'.feature /\ mixed
      BY <1>3, <1>4, <1>5, <2>2
    <3> QED BY <1>3, <3>1 DEF ResolverInv, FixesPlaced
  <2> QED BY <2>1, <2>2
<1>9. JobSound'
  <2>1. BaseSound(job.kind, job.base, job.mixed)'
    BY <1>1, <1>7, <1>8 DEF BaseSound
  <2> QED BY <1>7, <2>1 DEF JobSound
<1>10. RemoteTypeOK' /\ OpenedPushed'
  BY <1>1, <1>3 DEF ResolverInv, RemoteTypeOK, OpenedPushed
<1>11. FixesPlaced'
  BY <1>1, <1>3 DEF ResolverInv, FixesPlaced
<1>12. OutputsSound'
  BY <1>1, <1>3 DEF ResolverInv, OutputsSound, BaseSound
<1>13. ResolverKept'
  BY <1>1 DEF ResolverInv, ResolverKept, PullRequestIsFix, BranchOfItsOwn, ToldAfterPush, PushedOnce
<1> QED BY <1>9, <1>10, <1>11, <1>12, <1>13 DEF ResolverInv

\* The user's branch is fetched, unless the clone has one of its name.
LEMMA ChecksOutHeadKeeps ==
  ASSUME ResolverInv, ChecksOutHead PROVE ResolverInv'
<1> DEFINE head == IF clone.feature = {} THEN repos["origin"].feature ELSE clone.feature
<1>1. /\ job.at = "checkout" /\ UNCHANGED <<repos, opened, tellings, outputs, commands>> /\ job \in ResolverJob
      /\ clone' = [clone EXCEPT !.on = "feature", !.feature = head] /\ job.kind = "pr"
      /\ job' = [job EXCEPT !.at = "work", !.base = clone'.feature, !.mixed = FALSE]
  BY DEF ChecksOutHead, At, remoteVars, ResolverInv, JobSound
<1>2. /\ clone \in [on : {"none", "main", "feature"}, main : SUBSET Commits, feature : SUBSET Commits]
      /\ head \in SUBSET Commits
  BY DEF ResolverInv, RemoteTypeOK, Hosted, BranchNames
<1>3. Fixes(head, "issue") = {} /\ Fixes(head, "pr") = {} /\ head # {}
  BY DEF ResolverInv, FixesPlaced
<1> HIDE DEF head
<1>4. /\ clone' \in [on : {"none", "main", "feature"}, main : SUBSET Commits, feature : SUBSET Commits]
      /\ clone'.main = clone.main /\ clone'.feature = head
  BY <1>1, <1>2
<1>5. PICK no \in BOOLEAN : no = FALSE
  OBVIOUS
<1>6. job' = [job EXCEPT !.at = "work", !.base = head, !.mixed = no]
  BY <1>1, <1>4, <1>5
<1>7. job' \in ResolverJob /\ job'.at = "work" /\ job'.base = head /\ job'.kind = "pr"
  BY <1>1, <1>2, <1>6 DEF ResolverJob, ResolverStages
<1>8. JobSound'
  BY <1>3, <1>4, <1>7 DEF JobSound, BaseSound
<1>9. RemoteTypeOK' /\ OpenedPushed'
  BY <1>1, <1>4 DEF ResolverInv, RemoteTypeOK, OpenedPushed
<1>10. FixesPlaced'
  BY <1>1, <1>3, <1>4 DEF ResolverInv, FixesPlaced
<1>11. OutputsSound'
  BY <1>1, <1>3, <1>4 DEF ResolverInv, OutputsSound, BaseSound
<1>12. ResolverKept'
  BY <1>1 DEF ResolverInv, ResolverKept, PullRequestIsFix, BranchOfItsOwn, ToldAfterPush, PushedOnce
<1> QED BY <1>8, <1>9, <1>10, <1>11, <1>12 DEF ResolverInv

\* The result is appended to the output.
LEMMA WritesOutputKeeps ==
  ASSUME ResolverInv, WritesOutput PROVE ResolverInv'
<1> DEFINE o == [kind |-> job.kind, number |-> Number(job.kind), base |-> job.base, mixed |-> job.mixed,
                 patch |-> job.patch, success |-> job.success,
                 explained |-> job.judged /\ job.kind = "pr" /\ Feedback.threads > 0]
<1>1. /\ job.at = "write" /\ job' = NoJob /\ UNCHANGED <<repos, opened, tellings, clone, commands>>
      /\ outputs' = Append(outputs, o) /\ job \in ResolverJob
      /\ BaseSound(job.kind, job.base, job.mixed) /\ (job.kind = "pr" => clone.feature # {})
  BY DEF WritesOutput, At, remoteVars, ResolverInv, JobSound
<1>2. /\ o \in ResolverOutput /\ o.kind = job.kind /\ o.base = job.base /\ o.mixed = job.mixed
  <2>1. PICK e \in BOOLEAN : e <=> job.judged /\ job.kind = "pr" /\ Feedback.threads > 0
    OBVIOUS
  <2>2. e = (job.judged /\ job.kind = "pr" /\ Feedback.threads > 0)
    BY <2>1
  <2>3. Number(job.kind) \in {1, 2}
    BY DEF Number
  <2>4. o = [kind |-> job.kind, number |-> Number(job.kind), base |-> job.base, mixed |-> job.mixed,
             patch |-> job.patch, success |-> job.success, explained |-> e]
    BY <2>2, Zenon
  <2> QED BY <1>1, <2>3, <2>4 DEF ResolverOutput, ResolverJob
<1> HIDE DEF o
<1>3. outputs \in Seq(ResolverOutput)
  BY DEF ResolverInv, RemoteTypeOK
<1>4. /\ outputs' \in Seq(ResolverOutput)
      /\ \A i \in DOMAIN outputs' : outputs'[i] = o \/ (i \in DOMAIN outputs /\ outputs'[i] = outputs[i])
  BY <1>1, <1>2, <1>3, AppendProperties
<1>5. RemoteTypeOK' /\ FixesPlaced' /\ OpenedPushed'
  BY <1>1, <1>4 DEF ResolverInv, RemoteTypeOK, FixesPlaced, OpenedPushed
<1>6. OutputsSound'
  BY <1>1, <1>2, <1>4 DEF ResolverInv, OutputsSound, BaseSound
<1>7. ResolverKept'
  BY <1>1 DEF ResolverInv, ResolverKept, PullRequestIsFix, BranchOfItsOwn, ToldAfterPush, PushedOnce
<1> QED BY <1>1, <1>5, <1>6, <1>7, IdleIsSound DEF ResolverInv

\* The push of a pull request's fix: the user's branch is the patched copy.
LEMMA FixIsPushed ==
  ASSUME ResolverInv, Pushes, job.kind = "pr" PROVE ResolverInv'
<1>1. /\ job.at = "push" /\ UNCHANGED <<clone, outputs, opened, tellings, commands>> /\ job \in ResolverJob
      /\ repos' = [repos EXCEPT !["origin"]["feature"] = job.tree] /\ TreeSound
      /\ job' = [job EXCEPT !.at = "comment", !.left = Feedback.ids]
  BY DEF Pushes, At, ResolverInv, JobSound, PushTo, TreeSound
<1>2. /\ repos \in [Hosted -> [BranchNames -> SUBSET Commits]] /\ job.tree \in SUBSET Commits
      /\ "origin" \in Hosted /\ "feature" \in BranchNames /\ "main" \in BranchNames
      /\ FixBranches \subseteq BranchNames /\ "feature" \notin FixBranches /\ "main" # "feature"
  BY <1>1 DEF ResolverInv, RemoteTypeOK, ResolverJob, Hosted, BranchNames, FixBranches
<1>3. /\ repos' \in [Hosted -> [BranchNames -> SUBSET Commits]]
      /\ repos'["origin"].main = repos["origin"].main /\ repos'["origin"].feature = job.tree
      /\ \A r \in Hosted, b \in FixBranches : repos'[r][b] = repos[r][b]
  BY <1>1, <1>2
<1>4. /\ Fixes(job.tree, "pr") = {Fix("pr", commands)} /\ Fixes(job.tree, "issue") = {}
      /\ clone.feature # {}
  BY <1>1 DEF TreeSound
<1>5. job.tree # {}
  BY <1>4, FixesOfSets
<1>6. RemoteTypeOK'
  BY <1>1, <1>3 DEF ResolverInv, RemoteTypeOK
<1>7. FixesPlaced'
  <2>1. /\ Fixes(repos'["origin"].main, "issue") = {} /\ Fixes(repos'["origin"].feature, "issue") = {}
        /\ repos'["origin"].feature # {} /\ clone.main \subseteq repos'["origin"].main
    BY <1>3, <1>4, <1>5 DEF ResolverInv, FixesPlaced
  <2>2. /\ Fixes(clone.feature, "issue") = {} /\ Fixes(clone.feature, "pr") = {}
        /\ \A r \in Hosted, b \in FixBranches : \A x \in Fixes(repos'[r][b], "issue") :
              \E n \in 0 .. commands : x = Fix("issue", n)
    <3>1. \A r \in Hosted, b \in FixBranches : \A x \in Fixes(repos[r][b], "issue") :
             \E n \in 0 .. commands : x = Fix("issue", n)
      BY DEF ResolverInv, FixesPlaced
    <3>2. \A r \in Hosted, b \in FixBranches : Fixes(repos'[r][b], "issue") = Fixes(repos[r][b], "issue")
      BY <1>3
    <3>3. Fixes(clone.feature, "issue") = {} /\ Fixes(clone.feature, "pr") = {}
      BY DEF ResolverInv, FixesPlaced
    <3> QED BY <3>1, <3>2, <3>3
  <2> QED BY <1>1, <1>4, <2>1, <2>2 DEF FixesPlaced
<1>8. OutputsSound'
  BY <1>1, <1>3 DEF ResolverInv, OutputsSound, BaseSound
<1>9. OpenedPushed'
  <2>1. opened \subseteq PullRequest
    BY DEF ResolverInv, RemoteTypeOK
  <2>2. \A p \in opened : p.to \in Hosted /\ p.head \in FixBranches
    BY <2>1 DEF PullRequest
  <2>3. \A p \in opened : repos'[p.to][p.head] = repos[p.to][p.head]
    BY <1>3, <2>2
  <2>4. \A p \in opened : Fixes(repos[p.to][p.head], "issue") # {}
    BY DEF ResolverInv, OpenedPushed
  <2>5. opened' = opened
    BY <1>1
  <2> QED BY <2>3, <2>4, <2>5 DEF OpenedPushed
<1>10. ResolverKept'
  <2>1. Cardinality({Fix("pr", commands)}) = 1
    BY FS_Singleton
  <2>2. PushedOnce'
    <3>1. Cardinality(Fixes(repos'["origin"].feature, "pr")) = 1
      BY <1>3, <1>4, <2>1
    <3> QED BY <3>1 DEF PushedOnce
  <2>3. PullRequestIsFix' /\ BranchOfItsOwn'
    BY <1>1, <1>3 DEF ResolverInv, ResolverKept, PullRequestIsFix, BranchOfItsOwn
  <2>4. ToldAfterPush'
    BY <1>3, <1>4 DEF ToldAfterPush
  <2> QED BY <2>2, <2>3, <2>4 DEF ResolverKept
<1>11. JobSound'
  <2>1. Feedback.ids \subseteq Nat
    BY DEF Feedback, GithubFeedback, GitlabFeedback, BitbucketFeedback, AzureFeedback
  <2>2. job' \in ResolverJob /\ job'.at = "comment"
    BY <1>1, <2>1 DEF ResolverJob, ResolverStages
  <2> QED BY <1>3, <1>4, <2>2 DEF JobSound
<1> QED BY <1>6, <1>7, <1>8, <1>9, <1>10, <1>11 DEF ResolverInv

\* The push of an issue's fix: its branch is the patched copy.
LEMMA BranchIsPushed ==
  ASSUME ResolverInv, Pushes, job.kind = "issue" PROVE ResolverInv'
<1> DEFINE to == PushTo
           name == job.name
<1>1. /\ job.at = "push" /\ UNCHANGED <<clone, outputs, opened, tellings, commands, forked>> /\ job \in ResolverJob
      /\ repos' = [repos EXCEPT ![to][name] = job.tree] /\ TreeSound
      /\ job' = [job EXCEPT !.at = "open", !.left = Feedback.ids]
      /\ \A r \in Hosted, b \in FixBranches : Fix("issue", commands) \notin repos[r][b]
      /\ repos[to][name] \subseteq job.tree /\ name \in FixBranches
  BY DEF Pushes, At, ResolverInv, JobSound, TreeSound, FastForward, givenVars
<1>2. /\ repos \in [Hosted -> [BranchNames -> SUBSET Commits]] /\ job.tree \in SUBSET Commits
      /\ to \in Hosted /\ "origin" \in Hosted /\ "feature" \in BranchNames /\ "main" \in BranchNames
      /\ FixBranches \subseteq BranchNames /\ "feature" \notin FixBranches /\ "main" \notin FixBranches
      /\ commands \in Nat
  BY <1>1 DEF ResolverInv, RemoteTypeOK, ResolverJob, Hosted, BranchNames, FixBranches, PushTo
<1>3. /\ Fixes(job.tree, "issue") = {Fix("issue", commands)}
      /\ job.mixed \/ job.tree \ Fixes(job.tree, "issue") \subseteq repos["origin"].main
  BY <1>1 DEF TreeSound
<1>4. \A p \in opened : ~(p.to = to /\ p.head = name)
  <2> SUFFICES ASSUME NEW p \in opened, p.to = to, p.head = name PROVE FALSE
    OBVIOUS
  <2>1. PICK x : x \in Fixes(repos[to][name], "issue")
    BY DEF ResolverInv, OpenedPushed
  <2>2. x \in repos[to][name]
    BY <2>1 DEF Fixes
  <2>3. x \in Fixes(job.tree, "issue")
    BY <1>1, <2>1, FixesOfSets
  <2> QED BY <1>1, <1>2, <1>3, <2>2, <2>3
<1>5. PushTo' = to
  <2>1. job'.kind = job.kind
    BY <1>1 DEF ResolverJob
  <2> QED BY <1>1, <2>1 DEF PushTo
<1> HIDE DEF to, name
<1>6. /\ repos' \in [Hosted -> [BranchNames -> SUBSET Commits]]
      /\ repos'["origin"].main = repos["origin"].main /\ repos'["origin"].feature = repos["origin"].feature
      /\ repos'[to][name] = job.tree
      /\ \A r \in Hosted, b \in FixBranches : repos'[r][b] = repos[r][b] \/ (r = to /\ b = name)
  BY <1>1, <1>2
<1>7. RemoteTypeOK'
  BY <1>1, <1>6 DEF ResolverInv, RemoteTypeOK
<1>8. FixesPlaced'
  <2>1. \A r \in Hosted, b \in FixBranches : \A x \in Fixes(repos'[r][b], "issue") :
           \E n \in 0 .. commands : x = Fix("issue", n)
    <3> SUFFICES ASSUME NEW r \in Hosted, NEW b \in FixBranches, NEW x \in Fixes(repos'[r][b], "issue")
                 PROVE  \E n \in 0 .. commands : x = Fix("issue", n)
      OBVIOUS
    <3>1. CASE r = to /\ b = name
      BY <1>2, <1>3, <1>6, <3>1
    <3>2. CASE ~(r = to /\ b = name)
      BY <1>6, <3>2 DEF ResolverInv, FixesPlaced
    <3> QED BY <3>1, <3>2
  <2> QED BY <1>1, <1>6, <2>1 DEF ResolverInv, FixesPlaced
<1>9. OutputsSound'
  BY <1>1, <1>6 DEF ResolverInv, OutputsSound, BaseSound
<1>10. OpenedPushed'
  <2>1. opened \subseteq PullRequest
    BY DEF ResolverInv, RemoteTypeOK
  <2>2. \A p \in opened : p.to \in Hosted /\ p.head \in FixBranches
    BY <2>1 DEF PullRequest
  <2>3. \A p \in opened : repos'[p.to][p.head] = repos[p.to][p.head]
    BY <1>4, <1>6, <2>2
  <2>4. \A p \in opened : Fixes(repos[p.to][p.head], "issue") # {}
    BY DEF ResolverInv, OpenedPushed
  <2>5. opened' = opened
    BY <1>1
  <2> QED BY <2>3, <2>4, <2>5 DEF OpenedPushed
<1>11. ResolverKept'
  BY <1>1, <1>6 DEF ResolverInv, ResolverKept, PullRequestIsFix, BranchOfItsOwn, ToldAfterPush, PushedOnce
<1>12. JobSound'
  <2>1. Feedback.ids \subseteq Nat
    BY DEF Feedback, GithubFeedback, GitlabFeedback, BitbucketFeedback, AzureFeedback
  <2>2. /\ job' \in ResolverJob /\ job'.at = "open" /\ job'.kind = "issue" /\ job'.tree = job.tree
        /\ job'.name = name /\ job'.mixed = job.mixed
    BY <1>1, <2>1 DEF ResolverJob, ResolverStages, name
  <2>3. TreeSound'
    BY <1>1, <1>3, <1>6, <2>2 DEF TreeSound
  <2>4. Fixes(repos'[PushTo'][job'.name], "issue") # {}
    BY <1>3, <1>5, <1>6, <2>2
  <2>5. \A p \in opened' : ~(p.to = PushTo' /\ p.head = job'.name)
    BY <1>1, <1>4, <1>5, <2>2
  <2> QED BY <2>2, <2>3, <2>4, <2>5 DEF JobSound
<1> QED BY <1>7, <1>8, <1>9, <1>10, <1>11, <1>12 DEF ResolverInv

\* The pull request is opened.
LEMMA OpensKeeps ==
  ASSUME ResolverInv, OpensPullRequest PROVE ResolverInv'
<1> DEFINE pr == [to |-> PushTo, head |-> job.name, tree |-> job.tree, mixed |-> job.mixed]
<1>1. /\ job.at = "open" /\ job' = NoJob /\ opened' = opened \union {pr} /\ job \in ResolverJob /\ TreeSound
      /\ UNCHANGED <<repos, tellings, clone, outputs, commands>>
      /\ \A p \in opened : ~(p.to = PushTo /\ p.head = job.name)
      /\ Fixes(repos[PushTo][job.name], "issue") # {}
  BY DEF OpensPullRequest, At, ResolverInv, JobSound
<1>2. job.kind = "issue" /\ job.name \in FixBranches
  <2>1. job.kind \in {"issue", "pr"}
    BY <1>1 DEF ResolverJob, Kinds
  <2> QED BY <1>1, <2>1 DEF TreeSound
<1>3. /\ pr \in PullRequest /\ pr.to = PushTo /\ pr.head = job.name /\ pr.tree = job.tree /\ pr.mixed = job.mixed
  BY <1>1, <1>2 DEF PullRequest, ResolverJob, PushTo, Hosted
<1> HIDE DEF pr
<1>4. RemoteTypeOK' /\ FixesPlaced'
  BY <1>1, <1>3 DEF ResolverInv, RemoteTypeOK, FixesPlaced
<1>5. OutputsSound'
  BY <1>1 DEF ResolverInv, OutputsSound, BaseSound
<1>6. OpenedPushed'
  BY <1>1, <1>3 DEF ResolverInv, OpenedPushed
<1>7. PullRequestIsFix'
  <2>1. Cardinality(Fixes(pr.tree, "issue")) = 1
    BY <1>1, <1>2, <1>3, FS_Singleton DEF TreeSound
  <2>2. pr.mixed \/ pr.tree \ Fixes(pr.tree, "issue") \subseteq repos["origin"].main
    BY <1>1, <1>2, <1>3 DEF TreeSound
  <2> QED BY <1>1, <2>1, <2>2 DEF ResolverInv, ResolverKept, PullRequestIsFix
<1>8. BranchOfItsOwn'
  BY <1>1, <1>3 DEF ResolverInv, ResolverKept, BranchOfItsOwn
<1>9. ToldAfterPush' /\ PushedOnce'
  BY <1>1 DEF ResolverInv, ResolverKept, ToldAfterPush, PushedOnce
<1> QED BY <1>1, <1>4, <1>5, <1>6, <1>7, <1>8, <1>9, IdleIsSound DEF ResolverInv, ResolverKept

\* A comment or a reply: what is told of was pushed.
LEMMA TellsKeeps ==
  ASSUME ResolverInv, Replies \/ \E p \in BOOLEAN : Comments(p) PROVE ResolverInv'
<1>1. /\ job.at \in {"comment", "reply"} /\ UNCHANGED <<repos, opened, clone, outputs, commands>> /\ job \in ResolverJob
      /\ Fixes(repos["origin"].feature, "pr") # {}
  BY DEF Replies, Comments, At, ResolverInv, JobSound
<1>2. PICK at \in {"idle", "reply"}, left \in SUBSET job.left :
         job' = NoJob \/ job' = [job EXCEPT !.at = at, !.left = left]
  <2>1. CASE Replies
    <3> DEFINE t == CHOOSE x \in job.left : \A y \in job.left : x <= y
    <3>1. job' = (IF job.left = {t} THEN NoJob ELSE [job EXCEPT !.left = job.left \ {t}]) /\ job.at = "reply"
      BY <1>1, <2>1 DEF Replies, At, ResolverJob
    <3>2. [job EXCEPT !.left = job.left \ {t}] = [job EXCEPT !.at = "reply", !.left = job.left \ {t}]
      BY <1>1, <3>1 DEF ResolverJob
    <3> QED BY <3>1, <3>2
  <2>2. CASE \E p \in BOOLEAN : Comments(p)
    <3> DEFINE read == outputs[job.out].explained
               at == IF job.left = {} \/ ~read THEN "idle" ELSE "reply"
               left == IF read THEN job.left ELSE {}
    <3>1. job' = [job EXCEPT !.at = at, !.left = left]
      BY <1>1, <2>2 DEF Comments, ResolverJob
    <3>2. at \in {"idle", "reply"} /\ left \in SUBSET job.left
      OBVIOUS
    <3> QED BY <3>1, <3>2
  <2> QED BY <2>1, <2>2
<1>3. JobSound'
  <2>1. CASE job' = NoJob
    BY <2>1, IdleIsSound
  <2>2. CASE job' = [job EXCEPT !.at = at, !.left = left]
    <3>1. job' \in ResolverJob /\ job'.at \in {"idle", "reply"}
      BY <1>1, <2>2 DEF ResolverJob, ResolverStages
    <3> QED BY <1>1, <3>1 DEF JobSound
  <2> QED BY <1>2, <2>1, <2>2
<1>4. RemoteTypeOK' /\ FixesPlaced' /\ OpenedPushed'
  BY <1>1 DEF ResolverInv, RemoteTypeOK, FixesPlaced, OpenedPushed
<1>5. OutputsSound'
  BY <1>1 DEF ResolverInv, OutputsSound, BaseSound
<1>6. ResolverKept'
  BY <1>1 DEF ResolverInv, ResolverKept, PullRequestIsFix, BranchOfItsOwn, ToldAfterPush, PushedOnce
<1> QED BY <1>3, <1>4, <1>5, <1>6 DEF ResolverInv

\* Somebody else pushes: a branch grows by what is no fix.
LEMMA OthersPushKeeps ==
  ASSUME ResolverInv, NEW b \in {"main", "feature"}, OthersPush(b) PROVE ResolverInv'
<1> DEFINE more == repos["origin"][b] \union {Theirs(b)}
<1>1. /\ repos' = [repos EXCEPT !["origin"][b] = more]
      /\ UNCHANGED <<forked, opened, tellings, clone, outputs, job, commands>>
  BY DEF OthersPush, givenVars
<1>2. /\ repos \in [Hosted -> [BranchNames -> SUBSET Commits]]
      /\ "origin" \in Hosted /\ "feature" \in BranchNames /\ "main" \in BranchNames /\ b \in BranchNames
      /\ FixBranches \subseteq BranchNames /\ "feature" \notin FixBranches /\ "main" \notin FixBranches
      /\ Theirs(b) \in Commits
  BY DEF ResolverInv, RemoteTypeOK, Hosted, BranchNames, FixBranches, Commits
<1>3. more \in SUBSET Commits /\ more # {} /\ \A k : Fixes(more, k) = Fixes(repos["origin"][b], k)
  <2>1. \A k : Fixes({Theirs(b)}, k) = {}
    BY FixesOfSets
  <2>2. \A k : Fixes(more, k) = Fixes(repos["origin"][b], k) \cup Fixes({Theirs(b)}, k)
    BY FixesOfSets
  <2>3. \A k : Fixes(more, k) = Fixes(repos["origin"][b], k)
    BY <2>1, <2>2
  <2> QED BY <1>2, <2>3
<1> HIDE DEF more
<1>4. /\ repos' \in [Hosted -> [BranchNames -> SUBSET Commits]]
      /\ repos'["origin"].main = IF b = "main" THEN more ELSE repos["origin"].main
      /\ repos'["origin"].feature = IF b = "feature" THEN more ELSE repos["origin"].feature
      /\ \A r \in Hosted, x \in FixBranches : repos'[r][x] = repos[r][x]
  BY <1>1, <1>2, <1>3
<1>5. /\ \A k : Fixes(repos'["origin"].main, k) = Fixes(repos["origin"].main, k)
      /\ \A k : Fixes(repos'["origin"].feature, k) = Fixes(repos["origin"].feature, k)
      /\ repos["origin"].main \subseteq repos'["origin"].main
      /\ repos["origin"].feature # {} => repos'["origin"].feature # {}
  BY <1>3, <1>4 DEF more
<1>6. RemoteTypeOK'
  BY <1>1, <1>4 DEF ResolverInv, RemoteTypeOK
<1>7. FixesPlaced'
  <2>1. /\ Fixes(repos'["origin"].main, "issue") = {} /\ Fixes(repos'["origin"].feature, "issue") = {}
        /\ repos'["origin"].feature # {} /\ clone.main \subseteq repos'["origin"].main
        /\ clone.feature = {} => Fixes(repos'["origin"].feature, "pr") = {}
    BY <1>5 DEF ResolverInv, FixesPlaced
  <2>2. /\ Fixes(clone.feature, "issue") = {} /\ Fixes(clone.feature, "pr") = {}
        /\ \A r \in Hosted, x \in FixBranches : \A y \in Fixes(repos'[r][x], "issue") :
              \E n \in 0 .. commands : y = Fix("issue", n)
    <3>1. \A r \in Hosted, x \in FixBranches : \A y \in Fixes(repos[r][x], "issue") :
             \E n \in 0 .. commands : y = Fix("issue", n)
      BY DEF ResolverInv, FixesPlaced
    <3>2. \A r \in Hosted, x \in FixBranches : Fixes(repos'[r][x], "issue") = Fixes(repos[r][x], "issue")
      BY <1>4
    <3> QED BY <3>1, <3>2 DEF ResolverInv, FixesPlaced
  <2> QED BY <1>1, <2>1, <2>2 DEF FixesPlaced
<1>8. OutputsSound'
  BY <1>1, <1>5 DEF ResolverInv, OutputsSound, BaseSound
<1>9. OpenedPushed'
  <2>1. opened \subseteq PullRequest
    BY DEF ResolverInv, RemoteTypeOK
  <2>2. \A p \in opened : p.to \in Hosted /\ p.head \in FixBranches
    BY <2>1 DEF PullRequest
  <2>3. \A p \in opened : repos'[p.to][p.head] = repos[p.to][p.head]
    BY <1>4, <2>2
  <2>4. \A p \in opened : Fixes(repos[p.to][p.head], "issue") # {}
    BY DEF ResolverInv, OpenedPushed
  <2>5. opened' = opened
    BY <1>1
  <2> QED BY <2>3, <2>4, <2>5 DEF OpenedPushed
<1>10. ResolverKept'
  <2>1. PushedOnce' /\ ToldAfterPush'
    BY <1>1, <1>5 DEF ResolverInv, ResolverKept, PushedOnce, ToldAfterPush
  <2>2. PullRequestIsFix' /\ BranchOfItsOwn'
    BY <1>1, <1>5 DEF ResolverInv, ResolverKept, PullRequestIsFix, BranchOfItsOwn
  <2> QED BY <2>1, <2>2 DEF ResolverKept
<1>11. JobSound'
  <2>1. /\ job \in ResolverJob
        /\ job.at \in {"lookup", "checkout", "work", "judge", "write"} => BaseSound(job.kind, job.base, job.mixed)'
        /\ job.at = "checkout" => job.kind = "pr"
        /\ job.at \in {"work", "judge", "write"} /\ job.kind = "pr" => clone.feature # {}
        /\ job.at = "patch" => job.out \in DOMAIN outputs
    BY <1>1, <1>5 DEF ResolverInv, JobSound, BaseSound
  <2>2. job.at \in {"name", "push", "open"} => TreeSound'
    BY <1>1, <1>5 DEF ResolverInv, JobSound, TreeSound
  <2>3. job.at \in {"patch", "name", "push"} =>
           \A r \in Hosted, x \in FixBranches : Fix("issue", commands) \notin repos'[r][x]
    BY <1>4 DEF ResolverInv, JobSound
  <2>4. job.at = "open" => /\ \A p \in opened : ~(p.to = PushTo /\ p.head = job.name)
                           /\ Fixes(repos'[PushTo][job.name], "issue") # {}
    <3> SUFFICES ASSUME job.at = "open" PROVE /\ \A p \in opened : ~(p.to = PushTo /\ p.head = job.name)
                                              /\ Fixes(repos'[PushTo][job.name], "issue") # {}
      OBVIOUS
    <3>1. TreeSound /\ job.kind \in {"issue", "pr"}
      BY DEF ResolverInv, JobSound, ResolverJob, Kinds
    <3>2. job.name \in FixBranches /\ PushTo \in Hosted
      BY <3>1 DEF TreeSound, PushTo, Hosted
    <3> QED BY <1>4, <3>2 DEF ResolverInv, JobSound
  <2>5. job.at \in {"comment", "reply"} => Fixes(repos'["origin"].feature, "pr") # {}
    BY <1>5 DEF ResolverInv, JobSound
  <2>6. PushTo' = PushTo
    BY <1>1 DEF PushTo
  <2> QED BY <1>1, <2>1, <2>2, <2>3, <2>4, <2>5, <2>6 DEF JobSound
<1> QED BY <1>6, <1>7, <1>8, <1>9, <1>10, <1>11 DEF ResolverInv

\* A step of another service leaves the invariant as it is.
LEMMA ResolverFrame == ResolverInv /\ UNCHANGED resolverVars => ResolverInv'
<1> SUFFICES ASSUME ResolverInv, UNCHANGED resolverVars PROVE ResolverInv'
  OBVIOUS
<1>1. UNCHANGED <<repos, opened, tellings, clone, outputs, commands, job, forked>>
  BY DEF resolverVars
<1>2. JobSound'
  BY <1>1 DEF ResolverInv, JobSound, BaseSound, TreeSound, PushTo
<1> QED BY <1>1, <1>2, JobMoves

\* Every step of the resolver keeps the invariant.
LEMMA ResolverSteps == ResolverInv /\ ResolverNext => ResolverInv'
<1> SUFFICES ASSUME ResolverInv, ResolverNext PROVE ResolverInv'
  OBVIOUS
<1>1. ASSUME Pushes PROVE ResolverInv'
  <2>1. job.kind \in {"issue", "pr"}
    BY DEF ResolverInv, JobSound, ResolverJob, Kinds
  <2> QED BY <1>1, <2>1, FixIsPushed, BranchIsPushed
<1>2. ASSUME (\E k \in Kinds : ResolveStarts(k) \/ \E f \in BOOLEAN : SendStarts(k, f)) PROVE ResolverInv'
  BY <1>2, ResolveStartsKeeps, SendStartsKeeps
<1>3. ASSUME (\E p \in {"none", "some"}, c \in BOOLEAN : AgentWorks(p, c)) \/ \E s \in BOOLEAN : Judges(s)
      PROVE ResolverInv'
  BY <1>3, AgentWorksKeeps, JudgesKeeps
<1>4. ASSUME \E b \in {"main", "feature"} : OthersPush(b) PROVE ResolverInv'
  BY <1>4, OthersPushKeeps
<1> QED BY <1>1, <1>2, <1>3, <1>4, StopsKeep, NotDoneKeeps, PatchesKeeps, NamesKeep, ClonesKeeps,
           ChecksOutHeadKeeps, WritesOutputKeeps, OpensKeeps, TellsKeeps DEF ResolverNext

-----------------------------------------------------------------------------
(* The composed services.                                                    *)

\* A step is one of a part, and leaves the variables of all others alone.
LEMMA PartsApart ==
  [Next]_vars => /\ HookNext \/ UNCHANGED hookVars
                 /\ ConfigNext \/ UNCHANGED configVars
                 /\ UserSecretNext \/ UNCHANGED secretVarsAll
                 /\ SkillsNext \/ UNCHANGED skillVars
                 /\ McpNext \/ UNCHANGED mcpVars
                 /\ ConvNext \/ UNCHANGED convVars
                 /\ RecordNext \/ UNCHANGED recordVars
                 /\ UsageNext \/ UNCHANGED usageVars
                 /\ ResolverNext \/ UNCHANGED resolverVars
  BY DEF Next, vars

\* Whatever the numbers of writers, paths, changes and attempts: a queued change has its
\* timer, and a copy at rest is the store's, unless a batch was dropped or overtaken.
THEOREM HookCopyCatchesUp == Spec => []HookCatchesUp
<1>1. Init => HookInv
  BY HookInvInit DEF Init
<1>2. HookInv /\ [Next]_vars => HookInv'
  BY PartsApart, HookInvNext
<1> QED
  BY <1>1, <1>2, HookInvTells, PTL DEF Spec

\* The model a session uses has each value of the last layer that gives it, the condenser
\* the model it names, and two processes one secret unless both found none; no update
\* of the secrets is lost to an overlapping request but by a write of the whole store,
\* what is stored was checked, and a sandbox's shell has no older tokens than its session;
\* and each pull request of the resolver holds one fix and is on a branch of its own, the
\* user's branch is given one fix at most, and nothing is told of one before it is pushed:
\* for any number of processes, requests, rotations and commands.
THEOREM UserSettingsKept == Spec => []UserKept
<1>1. Init => ConfigInv /\ UserSecretsInv /\ ResolverInv
  BY ConfigStarts, UserSecretsStart, ResolverStarts DEF Init
<1>2. ConfigInv /\ UserSecretsInv /\ ResolverInv /\ [Next]_vars => ConfigInv' /\ UserSecretsInv' /\ ResolverInv'
  BY PartsApart, ConfigSteps, ConfigFrame, UserSecretSteps, UserSecretsFrame, ResolverSteps, ResolverFrame
<1>3. ConfigInv /\ UserSecretsInv /\ ResolverInv => UserKept
  BY ConfigTells, UserSecretsTell DEF UserKept, ResolverInv
<1> QED
  BY <1>1, <1>2, <1>3, PTL DEF Spec

\* An agent has, of the skills of a name, the nearest that could be read; and a call of a
\* tool goes to the server it was shown for unless that one cannot be reached, or the one
\* that answers was missed when the session began: for any directories, servers, tools,
\* sessions, calls and outages.
THEOREM ToolsStayTheirServers == Spec => []ToolsKept
<1>1. Init => SkillInv /\ McpInv
  BY SkillsStart, McpStarts DEF Init
<1>2. SkillInv /\ McpInv /\ [Next]_vars => SkillInv' /\ McpInv'
  BY PartsApart, SkillSteps, SkillFrame, McpSteps, McpFrame
<1>3. SkillInv /\ McpInv => ToolsKept
  BY SkillsTell DEF ToolsKept, McpInv
<1> QED
  BY <1>1, <1>2, <1>3, PTL DEF Spec

\* A sub-conversation's row outlives its parent's only where the deletion could not see it,
\* failed to delete it (which is logged and goes on) or went no further down; it keeps its
\* parent unless an update web hook wrote it, and is there once its start is ready; what was written to a conversation's metadata stands and a deleted record stays
\* deleted; and each answer of a model is counted once and billed: for any number of
\* conversations, requests, updates, answers and sessions.
THEOREM ConversationsStayKept == Spec => []ConversationsKept
<1>1. Init => ConvInv /\ RecordInv /\ UsageInv
  BY ConvStarts, RecordsStart, UsageStarts DEF Init
<1>2. ConvInv /\ RecordInv /\ UsageInv /\ [Next]_vars => ConvInv' /\ RecordInv' /\ UsageInv'
  BY PartsApart, ConvSteps, ConvFrame, RecordSteps, RecordsFrame, UsageSteps, UsageFrame
<1>3. ConvInv /\ RecordInv /\ UsageInv => ConversationsKept
  BY DEF ConversationsKept, ConvInv, RecordInv, UsageInv
<1> QED
  BY <1>1, <1>2, <1>3, PTL DEF Spec
=============================================================================
