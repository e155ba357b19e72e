---------------------------- MODULE ConfigLayers ----------------------------
(* How the configuration of a process is put together: defaults, the         *)
(* sections of config.toml, the environment, the final tweaks, and the       *)
(* command line.  Model configurations are objects that the list of models,  *)
(* the agents and their condensers share, so that who sees a later change    *)
(* depends on who holds which object.  A value is named by the layer it      *)
(* comes from.  Two processes that share a file store make its secret.       *)
EXTENDS Naturals, FiniteSets, Sequences
CONSTANTS Loaders          \* processes, the first of which is followed in full

ASSUME LoadersAssumption == 1 \in Loaders /\ IsFiniteSet(Loaders)

VARIABLES
    loadStage,     \* of process 1: "new" "toml" "env" "final" "done" "failed"
    toml,          \* the state of each section of config.toml
    envSet,        \* fields of the default model set in the environment
    heap,          \* the model configurations, by object
    llms,          \* name of a configuration -> object, 0 for none
    condenserLlm,  \* object the default agent's condenser uses, 0 for none
    jupyter,       \* agents with Jupyter enabled
    cliRuntime,    \* the CLI runtime is selected
    chosenLlm,     \* the -l argument, or "none"
    secretFile,    \* the JWT secret in the file store, 0 for none
    secretSeen,    \* what each process read there: "unread" or a secret
    secretOf       \* the secret each process uses
configVars == <<loadStage, toml, envSet, heap, llms, condenserLlm, jupyter, cliRuntime, chosenLlm,
                secretFile, secretSeen, secretOf>>
secretVars == <<secretFile, secretSeen, secretOf>>
layerVars == <<toml, envSet, heap, llms, condenserLlm, jupyter, cliRuntime, chosenLlm>>

Fields == {"model", "key"}
Names == {"llm", "fast"}
Defaults == [f \in Fields |-> "default"]
NoToml == [llm |-> "none", fast |-> "none", condenser |-> "none", sandbox |-> "none"]

ConfigInit ==
    /\ loadStage = "new" /\ toml = NoToml /\ envSet = {} /\ heap = <<Defaults>>
    /\ llms = [n \in Names |-> IF n = "llm" THEN 1 ELSE 0] /\ condenserLlm = 0
    /\ jupyter = {"agent"} /\ cliRuntime = FALSE /\ chosenLlm = "none"
    /\ secretFile = 0 /\ secretSeen = [p \in Loaders |-> "unread"] /\ secretOf = [p \in Loaders |-> 0]

-----------------------------------------------------------------------------
(* config.toml *)

\* LLMConfig.from_toml_section: the base section, or the defaults when it is
\* invalid, and under each named section, unless that is invalid.
BaseLlm(t) == IF t.llm = "good" THEN [f \in Fields |-> "toml"] ELSE Defaults
NamedLlm(t) == [BaseLlm(t) EXCEPT !["model"] = "fast"]
\* get_llm_config_arg: the section of a file by itself, over the defaults.
SectionAlone == [Defaults EXCEPT !["model"] = "fast"]
\* AgentConfig.from_toml_section: the default agent and the valid named sections.
AgentSections == {{"agent"}, {"agent", "custom"}}
HasLlmSection(t) == t.llm # "none" \/ t.fast # "none"

\* The condenser section: none and the default one takes the default model; a model
\* by name, or the default one when there is no such name; what cannot be built is
\* replaced by the condenser that does nothing.
CondenserFor(t, names) ==
    CASE t.condenser \in {"none", "unknownName"} -> names["llm"]
      [] t.condenser = "fast" -> IF names["fast"] # 0 THEN names["fast"] ELSE names["llm"]
      [] t.condenser \in {"noop", "bad"} -> 0

\* Each section is applied on its own; an invalid sandbox section ends the program.
ReadsToml(t) ==
    /\ loadStage = "new" /\ toml' = t
    /\ heap' = (IF HasLlmSection(t) THEN <<BaseLlm(t), NamedLlm(t)>> ELSE heap)
    /\ llms' = [n \in Names |-> IF n = "llm" THEN 1 ELSE IF t.fast = "good" THEN 2 ELSE 0]
    /\ IF t.sandbox = "bad" THEN loadStage' = "failed" /\ UNCHANGED condenserLlm
       ELSE loadStage' = "toml" /\ condenserLlm' = CondenserFor(t, llms')
    /\ jupyter' \in AgentSections
    /\ UNCHANGED <<envSet, cliRuntime, chosenLlm, secretVars>>
\* Without a file, or with one that cannot be parsed, not even the default condenser
\* is set.
NoFile ==
    /\ loadStage = "new" /\ loadStage' = "toml" /\ UNCHANGED <<layerVars, secretVars>>

-----------------------------------------------------------------------------
(* The environment and the final tweaks *)

\* load_from_env changes the default model's configuration in place.  An empty
\* value, or one of a wrong type, is passed over.
ReadsEnv(set, wrong, cli) ==
    /\ loadStage = "toml" /\ loadStage' = "env" /\ envSet' = set \ wrong
    /\ heap' = [heap EXCEPT ![llms["llm"]] = [f \in Fields |-> IF f \in envSet' THEN "env" ELSE @[f]]]
    /\ cliRuntime' = cli
    /\ UNCHANGED <<toml, llms, condenserLlm, jupyter, chosenLlm, secretVars>>

\* get_or_create_jwt_secret: read, and write a new one if there is none.
LooksForSecret(p) ==
    /\ secretSeen[p] = "unread" /\ (p = 1 => loadStage = "env")
    /\ secretSeen' = [secretSeen EXCEPT ![p] = IF secretFile = 0 THEN "missing" ELSE "there"]
    /\ secretOf' = [secretOf EXCEPT ![p] = secretFile]
    /\ UNCHANGED <<loadStage, layerVars, secretFile>>
MakesSecret(p) ==
    /\ secretSeen[p] = "missing" /\ secretOf[p] = 0
    /\ secretFile' = p /\ secretOf' = [secretOf EXCEPT ![p] = p]
    /\ UNCHANGED <<loadStage, layerVars, secretSeen>>

MutFinalizes ==
    /\ loadStage = "env" /\ secretOf[1] # 0 /\ loadStage' = "final"
    /\ jupyter' = (IF cliRuntime THEN jupyter \ {"agent"} ELSE jupyter)
    /\ UNCHANGED <<toml, envSet, heap, llms, condenserLlm, cliRuntime, chosenLlm, secretVars>>
\* The CLI runtime has no Jupyter: it is turned off for every agent.
Finalizes ==
    /\ loadStage = "env" /\ secretOf[1] # 0 /\ loadStage' = "final"
    /\ jupyter' = (IF cliRuntime THEN {} ELSE jupyter)
    /\ UNCHANGED <<toml, envSet, heap, llms, condenserLlm, cliRuntime, chosenLlm, secretVars>>

-----------------------------------------------------------------------------
(* The command line *)

\* -l: a loaded configuration becomes the default one; another is looked up in the
\* configuration file, where an invalid section ends the program, and in the
\* user's own, where the section stands alone.
ChoosesLlm(name, inUserFile) ==
    /\ loadStage = "final" /\ chosenLlm' = name
    /\ IF llms[name] # 0 THEN loadStage' = "done" /\ llms' = [llms EXCEPT !["llm"] = llms[name]] /\ UNCHANGED heap
       ELSE IF toml.fast = "none" /\ inUserFile
       THEN /\ loadStage' = "done" /\ heap' = Append(heap, SectionAlone)
            /\ llms' = [llms EXCEPT !["llm"] = Len(heap')]
       ELSE loadStage' = "failed" /\ UNCHANGED <<heap, llms>>
    /\ UNCHANGED <<toml, envSet, condenserLlm, jupyter, cliRuntime, secretVars>>
ChoosesNothing == loadStage = "final" /\ loadStage' = "done" /\ UNCHANGED <<layerVars, secretVars>>

Sections == [llm : {"none", "good", "bad"}, fast : {"none", "good", "bad"}, sandbox : {"none", "bad"},
             condenser : {"none", "fast", "unknownName", "noop", "bad"}]
ConfigNext ==
    \/ \E t \in Sections : ReadsToml(t)
    \/ NoFile \/ Finalizes \/ ChoosesNothing
    \/ \E set, wrong \in SUBSET Fields, cli \in BOOLEAN : ReadsEnv(set, wrong, cli)
    \/ \E p \in Loaders : LooksForSecret(p) \/ MakesSecret(p)
    \/ \E name \in Names, own \in BOOLEAN : ChoosesLlm(name, own)

-----------------------------------------------------------------------------
Effective == heap[llms["llm"]]
\* The order of load_openhands_config and setup_config_from_args: the command line
\* over the environment over config.toml over the defaults; one bad section spoils no other.  The
\* environment is about the default configuration alone: one chosen by -l has the
\* values of its own section and, from config.toml, of the base section.
Layered ==
    loadStage = "done" => \A f \in Fields :
        LET below == BaseLlm(toml)[f] IN
        Effective[f] = CASE chosenLlm = "fast" -> IF f = "model" THEN "fast" ELSE IF toml.fast = "good" THEN below ELSE "default"
                         [] OTHER -> IF f \in envSet THEN "env" ELSE below
\* The condenser sees the values of the agent's model, the environment's too, unless
\* it has one of its own or -l has chosen another.
CondenserFollows ==
    loadStage = "done" /\ condenserLlm # 0 /\ chosenLlm # "fast" /\ toml.condenser # "fast" =>
        heap[condenserLlm] = Effective
\* With the CLI runtime no agent is left with Jupyter.
NoJupyterInCli == loadStage \in {"final", "done"} /\ cliRuntime => jupyter = {}
\* Processes that share a file store share its secret, unless both found none.
SecretsAgree ==
    \A p, q \in Loaders : secretOf[p] # 0 /\ secretOf[q] # 0 =>
        secretOf[p] = secretOf[q] \/ (secretSeen[p] = "missing" /\ secretSeen[q] = "missing")
                                  \/ Cardinality({r \in Loaders : secretSeen[r] = "missing"}) > 1

\* The configuration of a process.
ConfigLayered == Layered /\ CondenserFollows /\ NoJupyterInCli /\ SecretsAgree
=============================================================================
