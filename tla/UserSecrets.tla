---------------------------- MODULE UserSecrets ----------------------------
(* The user's secrets: provider tokens and custom secrets in one file that   *)
(* every request reads and writes as a whole, the tokens older versions kept *)
(* in the settings, and what a session makes of them: the environment of its *)
(* sandbox, and the values its event stream masks.  Tokens are numbered in   *)
(* the order in which they came to be.                                       *)
EXTENDS Naturals, FiniteSets
CONSTANTS SecretRequests, MaxSecretOps, MaxRotations

ASSUME SecretsAssumption == MaxSecretOps \in Nat /\ MaxRotations \in Nat

VARIABLES
    secretStore,     \* the file: [tokens, custom]; 0 stands for none
    legacyTokens,    \* provider tokens that still stand in the settings
    secretReq,       \* what each request is doing
    secretOps,       \* requests made, which also number the tokens
    goodTokens,      \* tokens that were found valid
    serialSecrets,   \* what the file would hold had no two requests overlapped
    wroteOver,      \* a request wrote over what another wrote after its own read
    overMigrated,    \* the migration replaced a file that held something
    sandboxEnv,      \* session: [tokens, custom] of the running shell
    bashrc,          \* ... and of every later shell
    sessionTokens,   \* the tokens the session was started with
    managerTokens,   \* the latest tokens, as the token manager has them
    rotations,       \* tokens replaced while the session ran
    hasManager,      \* the session can ask the token manager
    maskedSecrets    \* what the event stream masks
secretVarsAll == <<secretStore, legacyTokens, secretReq, secretOps, goodTokens, serialSecrets, wroteOver,
                   overMigrated, sandboxEnv, bashrc, sessionTokens, managerTokens, rotations, hasManager,
                   maskedSecrets>>
storeVars == <<secretStore, legacyTokens, secretReq, secretOps, goodTokens, serialSecrets, wroteOver, overMigrated>>
sandboxVarsOf == <<sandboxEnv, bashrc, sessionTokens, managerTokens, rotations, hasManager, maskedSecrets>>

Hubs == {"github", "gitlab"}
CustomNames == {"api", "db"}
NoSecrets == [tokens |-> [p \in Hubs |-> 0], custom |-> [n \in CustomNames |-> 0]]
OldToken == [p \in Hubs |-> IF p = "github" THEN 1 ELSE 0]
IdleSecret == [op |-> "none", at |-> "idle", new |-> [p \in Hubs |-> 0], name |-> "api", to |-> "api",
               seen |-> NoSecrets, no |-> 0]
\* In a request for tokens: the provider is absent, or comes without a token.
Absent == 0
Unchanged == 1000

UserSecretInit ==
    /\ secretStore \in {NoSecrets, [tokens |-> OldToken, custom |-> [n \in CustomNames |-> IF n = "api" THEN 1 ELSE 0]]}
    /\ serialSecrets = secretStore /\ legacyTokens \in {NoSecrets.tokens, OldToken}
    /\ secretReq = [r \in SecretRequests |-> IdleSecret] /\ secretOps = 1 /\ goodTokens = {<<"github", 1>>}
    /\ wroteOver = FALSE /\ overMigrated = FALSE
    /\ sandboxEnv = NoSecrets /\ bashrc = NoSecrets /\ sessionTokens = NoSecrets.tokens
    /\ managerTokens = NoSecrets.tokens /\ rotations = 0 /\ hasManager = FALSE /\ maskedSecrets = {}

-----------------------------------------------------------------------------
(* The requests that change the file *)

SecretStarts(r, new) ==
    /\ secretReq[r].at = "idle" /\ secretOps < MaxSecretOps /\ secretOps' = secretOps + 1
    /\ secretReq' = [secretReq EXCEPT ![r] = [new EXCEPT !.no = secretOps']]
    /\ UNCHANGED <<secretStore, legacyTokens, goodTokens, serialSecrets, wroteOver, overMigrated, sandboxVarsOf>>
BringsTokens(r, kinds) ==
    /\ SecretStarts(r, [IdleSecret EXCEPT !.op = "tokens", !.at = "check", !.new = kinds])
AsksCustom(r, op, name, to) == SecretStarts(r, [IdleSecret EXCEPT !.op = op, !.at = "load", !.name = name, !.to = to])

\* check_provider_tokens: every token is tried, and the message is that of the last
\* one: an invalid token before it goes unnoticed.
Fresh(q) == {p \in Hubs : q.new[p] = 1}
ChecksTokens(r, bad, last) ==
    LET q == secretReq[r] IN
    /\ q.op = "tokens" /\ q.at = "check" /\ bad \subseteq Fresh(q)
    /\ Fresh(q) # {} => last \in Fresh(q)
    /\ secretReq' = [secretReq EXCEPT ![r] = IF last \in bad THEN IdleSecret ELSE [q EXCEPT !.at = "load"]]
    /\ goodTokens' = goodTokens \union {<<p, q.no>> : p \in Fresh(q) \ bad}
    /\ UNCHANGED <<secretStore, legacyTokens, secretOps, serialSecrets, wroteOver, overMigrated, sandboxVarsOf>>
\* A token kept under another host is tried there.
HostRefused(r) ==
    /\ secretReq[r].op = "tokens" /\ secretReq[r].at = "check"
    /\ \E p \in Hubs : secretReq[r].new[p] = Unchanged /\ secretStore.tokens[p] # 0
    /\ secretReq' = [secretReq EXCEPT ![r] = IdleSecret]
    /\ UNCHANGED <<secretStore, legacyTokens, secretOps, goodTokens, serialSecrets, wroteOver, overMigrated, sandboxVarsOf>>

\* What a request makes of what it read; "refused" changes nothing.
SecretRefused(q, s) ==
    \/ q.op = "create" /\ s.custom[q.name] # 0
    \/ q.op \in {"rename", "delete"} /\ s.custom[q.name] = 0
    \/ q.op = "rename" /\ q.to # q.name /\ s.custom[q.to] # 0
Merged(q, s) == [p \in Hubs |-> IF q.new[p] = 1 THEN q.no ELSE IF q.new[p] = Unchanged THEN s.tokens[p] ELSE 0]
Applied(q, s) ==
    IF SecretRefused(q, s) THEN s ELSE
    CASE q.op = "tokens" -> [s EXCEPT !.tokens = Merged(q, s)]
      [] q.op = "unset" -> [s EXCEPT !.tokens = NoSecrets.tokens]
      [] q.op = "create" -> [s EXCEPT !.custom[q.name] = q.no]
      [] q.op = "rename" -> [s EXCEPT !.custom = [n \in CustomNames |-> IF n = q.to THEN s.custom[q.name]
                                                   ELSE IF n = q.name THEN 0 ELSE @[n]]]
      [] q.op = "delete" -> [s EXCEPT !.custom[q.name] = 0]

\* Reading and writing the file leave the event loop to the other requests.
LoadsSecrets(r) ==
    LET q == secretReq[r] IN
    /\ q.at = "load"
    /\ secretReq' = [secretReq EXCEPT ![r] = IF SecretRefused(q, secretStore) THEN IdleSecret
                                             ELSE [q EXCEPT !.at = "store", !.seen = secretStore]]
    /\ UNCHANGED <<secretStore, legacyTokens, secretOps, goodTokens, serialSecrets, wroteOver, overMigrated, sandboxVarsOf>>
MutStoresSecrets(r) ==
    LET q == secretReq[r] IN
    /\ q.at = "store"
    /\ secretStore' = (IF q.op = "create" THEN [Applied(q, q.seen) EXCEPT !.tokens = NoSecrets.tokens] ELSE Applied(q, q.seen))
    /\ serialSecrets' = Applied(q, serialSecrets)
    /\ wroteOver' = (wroteOver \/ q.seen # secretStore)
    /\ secretReq' = [secretReq EXCEPT ![r] = IdleSecret]
    /\ UNCHANGED <<legacyTokens, secretOps, goodTokens, overMigrated, sandboxVarsOf>>
StoresSecrets(r) ==
    LET q == secretReq[r] IN
    /\ q.at = "store"
    /\ secretStore' = Applied(q, q.seen) /\ serialSecrets' = Applied(q, serialSecrets)
    /\ wroteOver' = (wroteOver \/ q.seen # secretStore)
    /\ secretReq' = [secretReq EXCEPT ![r] = IdleSecret]
    /\ UNCHANGED <<legacyTokens, secretOps, goodTokens, overMigrated, sandboxVarsOf>>

-----------------------------------------------------------------------------
(* The migration, in every request for the settings *)

ReadsSettings(r) ==
    /\ legacyTokens # NoSecrets.tokens
    /\ SecretStarts(r, [IdleSecret EXCEPT !.op = "migrate", !.at = "migrate", !.seen.tokens = legacyTokens])
\* invalidate_legacy_secrets_store: the file is replaced, not merged.
Migrates(r) ==
    LET q == secretReq[r] IN
    /\ q.at = "migrate" /\ secretStore' = q.seen
    /\ serialSecrets' = [serialSecrets EXCEPT !.tokens = q.seen.tokens]
    /\ overMigrated' = (overMigrated \/ secretStore # NoSecrets)
    /\ secretReq' = [secretReq EXCEPT ![r].at = "invalidate"]
    /\ UNCHANGED <<legacyTokens, secretOps, goodTokens, wroteOver, sandboxVarsOf>>
Invalidates(r) ==
    /\ secretReq[r].at = "invalidate" /\ legacyTokens' = NoSecrets.tokens
    /\ secretReq' = [secretReq EXCEPT ![r] = IdleSecret]
    /\ UNCHANGED <<secretStore, secretOps, goodTokens, serialSecrets, wroteOver, overMigrated, sandboxVarsOf>>
\* The server stops in between: the next request migrates again.
MigrationCut(r) ==
    /\ secretReq[r].at = "invalidate" /\ secretReq' = [secretReq EXCEPT ![r] = IdleSecret]
    /\ UNCHANGED <<secretStore, legacyTokens, secretOps, goodTokens, serialSecrets, wroteOver, overMigrated, sandboxVarsOf>>

-----------------------------------------------------------------------------
(* A session *)

Values(f) == {f[x] : x \in DOMAIN f} \ {0}
\* add_env_vars: the running shell has the new values, .bashrc keeps a line it has.
Latest(old, new) == [x \in DOMAIN new |-> IF new[x] # 0 THEN new[x] ELSE old[x]]
Earliest(old, new) == [x \in DOMAIN new |-> IF old[x] = 0 THEN new[x] ELSE old[x]]
Exports(new) ==
    /\ sandboxEnv' = [tokens |-> Latest(sandboxEnv.tokens, new.tokens), custom |-> Latest(sandboxEnv.custom, new.custom)]
    /\ bashrc' = [tokens |-> Earliest(bashrc.tokens, new.tokens), custom |-> Earliest(bashrc.custom, new.custom)]
\* The environment a runtime starts with: the custom secrets, then the tokens.
FirstEnv == [tokens |-> secretStore.tokens, custom |-> secretStore.custom]
\* The second call to set_secrets replaces what the first one gave the event stream.
SecretSession ==
    /\ sandboxEnv = NoSecrets /\ secretStore # NoSecrets
    /\ Exports(FirstEnv) /\ sessionTokens' = secretStore.tokens
    /\ managerTokens' = secretStore.tokens /\ hasManager' \in BOOLEAN /\ UNCHANGED rotations
    /\ maskedSecrets' = (IF Values(secretStore.custom) # {} THEN Values(secretStore.custom) ELSE Values(secretStore.tokens))
    /\ UNCHANGED storeVars
\* The provider, or the user, replaces a token.
Rotates(p) ==
    /\ sessionTokens[p] # 0 /\ rotations < MaxRotations /\ rotations' = rotations + 1
    /\ managerTokens' = [managerTokens EXCEPT ![p] = MaxSecretOps + rotations']
    /\ UNCHANGED <<storeVars, sandboxEnv, bashrc, sessionTokens, hasManager, maskedSecrets>>
\* _get_latest_provider_token: none if it cannot be fetched; and get_env_vars.
TokenFor(p, fetched) ==
    IF ~hasManager THEN sessionTokens[p] ELSE IF p \in fetched THEN managerTokens[p] ELSE 0
LatestTokens(called, fetched) ==
    [p \in Hubs |-> IF p \in called /\ sessionTokens[p] # 0 THEN TokenFor(p, fetched) ELSE 0]
\* _export_latest_git_provider_tokens, before a command that names providers.
UsesTokens(called, fetched) ==
    LET new == LatestTokens(called, fetched) IN
    /\ Values(new) # {}
    /\ maskedSecrets' = Values(new) /\ Exports([tokens |-> new, custom |-> NoSecrets.custom])
    /\ UNCHANGED <<storeVars, sessionTokens, managerTokens, rotations, hasManager>>

UserSecretNext ==
    \/ \E r \in SecretRequests :
        \/ \E kinds \in [Hubs -> {Absent, 1, Unchanged}] : BringsTokens(r, kinds)
        \/ \E op \in {"create", "delete"}, n \in CustomNames : AsksCustom(r, op, n, n)
        \/ \E n, m \in CustomNames : AsksCustom(r, "rename", n, m)
        \/ AsksCustom(r, "unset", "api", "api")
        \/ \E bad \in SUBSET Hubs, last \in Hubs : ChecksTokens(r, bad, last)
        \/ HostRefused(r) \/ LoadsSecrets(r) \/ StoresSecrets(r)
        \/ ReadsSettings(r) \/ Migrates(r) \/ Invalidates(r) \/ MigrationCut(r)
    \/ SecretSession
    \/ \E p \in Hubs : Rotates(p)
    \/ \E called \in SUBSET Hubs : \E fetched \in SUBSET called : UsesTokens(called, fetched)

-----------------------------------------------------------------------------
\* Every request changes what it is about and nothing else, unless two overlap or
\* the migration found a file.
NoUpdateLost == ~wroteOver /\ ~overMigrated => secretStore = serialSecrets
\* Of the tokens a request stored, one at least was found valid.
TokensValidated ==
    \A p \in Hubs : secretStore.tokens[p] # 0 => \E q \in Hubs : <<q, secretStore.tokens[p]>> \in goodTokens
\* The running shell has no older a token than a new shell would get.
ShellNotOlder == \A p \in Hubs : sandboxEnv.tokens[p] >= bashrc.tokens[p]
\* Of the tokens given to the sandbox since its start, the last ones are masked.
LastExportMasked ==
    (\E p \in Hubs : sandboxEnv.tokens[p] # sessionTokens[p]) => \E p \in Hubs : sandboxEnv.tokens[p] \in maskedSecrets
\* What the user keeps in the file, and what the sandbox gets of it.
SecretsKept == NoUpdateLost /\ TokensValidated /\ ShellNotOlder /\ LastExportMasked
=============================================================================
