# LumioVibe in TLA+

LumioVibe lets a user build Move applications on the Lumio chain by talking to an
agent. It is a fork of OpenHands (agent controller, event stream, runtimes, web
server) with its own billing: LLM tokens are paid from a balance that a Move
contract keeps on chain. This directory models the parts of it that keep state
under concurrency and failure, checks them with TLC on small instances, and proves
the most important results with TLAPS for every instance.

`PROJECT.json` lists the components, the runs, the mutants that show each property
can fail, the source lines behind each definition, the hazards and the theorems.

## 1. Inventory

| Component | State it keeps | Operations | Talks to | Module |
|---|---|---|---|---|
| `vibe_balance.move` | balances, whitelist, price, treasury per store | initialize, whitelist (single and batch), deposit, set_token_price, batch_deduct | wallets, the server's admin key | `VibeBalance` |
| `BalanceManager`, `LumioService`, wallet and balance routes | cached balances, accumulated tokens, price, lock, flush task | initialize, check_balance, add_tokens, refresh, periodic flush, stop | the node, routes, agent controllers (other threads) | `Billing` |
| `EventStream`, `EventStore` | cur_id, write page, files, cache pages, queue, callbacks, thread pools | add_event, subscribe, unsubscribe, close, search_events | every component of a conversation | `EventLog`, `EventStream` |
| `AgentController`, `StateTracker`, control flags | agent_state, pending action, limits, history | on_event and its handlers, set_agent_state_to, _step | event stream, LLM, `BalanceManager`, session | `AgentController`, `Delegation`, `LoopDetection` |
| `StuckDetector`, condensers, `View`, `ConversationMemory` | analysis, cached view; else functions of the history | is_stuck, condense, process_events | controller, agent | `LoopDetection`, `History` |
| `Memory`, microagents, skills | knowledge loaded from several places | load, recall | event stream, workspace | `Skills` |
| LLM client, registry, metrics, agents | metrics per service, pending calls | completion with retries, save and restore, conversion of tool calls | providers, controller | `LlmUsage`, `ToolCalls` |
| `WebSession`, `AgentSession`, `ServerConversation`, standalone manager | connection, stream, controller, runtime, active and detached conversations | join, attach, detach, start, close, clean-up | web socket, controller, runtime | `Sessions` |
| nested manager | conversations it is starting; else Docker's containers | start, limit, stop | container engine, nested servers | `NestedConversations` |
| V0 conversation routes and store | a metadata file per conversation | create, follow events, rename, record a pull request, delete, list | file store, V1 table | `ConversationRecords` |
| App server (V1) | start tasks, rows, callbacks, sandboxes | start, web hooks, rename, poll, delete; start, pause, resume and delete sandboxes | agent servers, SQL, Docker, remote API | `AppConversations`, `SandboxServices` |
| runtimes (Docker, local, remote, Kubernetes, CLI) | the sandbox, port locks, warm servers | connect, attach, pause, resume, close, delete | container engine, APIs, event stream | `DockerRuntime`, `LocalServers`, `RemoteRuntime`, `Shells` |
| images | tags and layers | look up, build, pull, push | Docker, remote builder | `ImageBuild` |
| action execution server | shell, kernel, browser, lock | run one action at a time | its clients | `ActionServer` |
| shells (tmux, PowerShell) | the pane or job that runs, what was shown | execute, close | the shell | `Shells` |
| tools of the sandbox | browser process and pipe, kernel and web socket, the window on a file, the draft of an edit | browse, run a cell, open and scroll, edit | action server, LLM | `SandboxTools`, `FileTools` |
| workspace set-up, templates | clone, hook, microagents, project | clone, setup script, git hook, template | runtime, git | `WorkspaceSetup` |
| `DeploymentManager` | metadata files, containers | start, stop, redeploy, status | container engine | `Deployments` |
| file stores and web hooks | a batch and its timer | write, delete, send | HTTP | `WebHookStore` |
| MCP tools | listed tools, proxy | list, call, remount | MCP servers, sandbox | `McpTools` |
| configuration | layers, shared model configurations, the secret of the file store | load | files, environment | `ConfigLayers` |
| secrets and settings | tokens and custom secrets in a file, environment of the sandbox, masks | store, migrate, refresh, export | routes, sandbox, event stream | `UserSecrets` |
| integrations | none (asks the services) | list, verify, search, refresh a token | hosting services | `GitHosts` |
| resolver | output directory: clone, results, patched copy | resolve an issue, send a pull request, apply patches | hosting services, agent | `IssueResolver`, `Patching` |
| command line runs, replay | the task, the trajectory and its cursor, the saved state, interrupts | set up, watch, answer, replay, save, exit | controller, user, runtime | `HeadlessRun` |
| contract templates, security analyzers, frontend | see section 6 | | | |

What is hard here, and what makes each part correct:

* **Billing** crosses an HTTP answer, a mempool, a sequence number, a periodic task
  that awaits in the middle of a read-and-reset, and threads that add usage
  meanwhile. Correct means: nobody pays for more than they used; no two deductions
  of the same usage are under way; usage is flushed; the lock is given back; the
  contract's balances, events and treasury agree.
* **The event stream** hands out ids under a lock and then writes files, stores
  pages and queues the event outside it; a dispatcher thread and a pool per
  subscriber deliver it while subscribers come and go and the process may die.
  Correct means: an event is never overwritten and never delivered twice; all
  subscribers see one order; nothing runs for a subscriber that is gone; a reader
  sees what was stored; delivery and `close()` end.
* **The controller** is a state machine driven by events that were queued before
  its last decision, with one action pending, a confirmation that names no action,
  two limits that errors and resumptions touch, and a session thread that may set
  ERROR at any time. Correct means: an idle agent has nothing pending; the limits
  hold; an action runs once, and only on a confirmation given for it; a pending
  action is answered; a message leads to a step.
* **Sessions** start for minutes while they are joined, borrowed, stopped and cleaned
  up. Correct means: a conversation in use is up; one loop per conversation; what is
  closed has released its sandbox; what is idle is passivated.
* **Shells and sandbox tools** answer over channels that know nothing of calls: a
  screen, a pipe, a web socket. Correct means: an answer is that of the call, after
  time-outs and late answers too.
* **Runtimes and sandboxes** are made and ended through calls that may fail and may
  have been carried out all the same. Correct means: nothing runs that nobody will
  end, and no two use one port.
* **Records** (metadata files, SQL rows, deployment metadata, secrets) are read, kept
  over an await and written back whole. Correct means: what was written stands, and
  what was deleted stays deleted.
* **What the model is told** is made of a history that is cut, condensed, rebuilt and
  converted. Correct means: the interface accepts it, nothing is counted twice, and
  the agent gets what it was promised.

## 2. Plan

Done: every module of section 3 and the proofs of section 5. All properties of the run
`runtime` are proved for the specification that the run checks.

Left, in this order:

1. Proofs about what `AgentKept` says of control rather than of data: who is told what in
   `Delegation`, and in `HeadlessRun` the answers, the resumed sessions and the end.
2. A deletion that goes further down than the sub-conversations of the deleted one, should the
   app server get one: `NoOrphans` would then lose an excuse.
3. The walk over branches in `GitHosts`; the browsing agents' history.

## 3. The modules

Each component has a module with its variables, one action per handler or, where the
code awaits, per stretch between two awaits, and its own `...Next`. The components that
share state are composed: `Billing` extends `VibeBalance` and drives it through the
node; `EventStream` instantiates `EventLog`; `Sessions` has sessions, lent conversations,
requests and the clean-up on one loop. The others meet only through calls whose outcome
the caller sees, so each is checked against every outcome. `MCRuntime` and `MCServices`
put such modules into one run each: `part` is chosen in `Init` and never changes, the
part's variables move by its own next-state relation and all others stay at their
initial values, so a run explores the sum of the parts, not their product.

### `VibeBalance` - the contract

State: one `BalanceStore` per publishing account (`stores`, `balances`, `whitelist`,
`tokenPrice`, `treasury`), the users' coins outside (`wallet`) and the sums of the
emitted events (`paid`, `taken`). One action per entry function; an abort is a
disabled action, because a Move transaction that aborts changes nothing. `batch_deduct`
is the loop it is: it goes over the vectors, skips users who cannot pay, and is written
as a recursive function so that it can be proved about. Amounts are bounded by
`MaxU64` and the arithmetic aborts above it. Anybody may publish a store of their own;
the views and `deposit` use the one at `@vibe_balance`.

### `Billing` - BalanceManager, LumioService, the routes, the node

Extends `VibeBalance`. A coroutine's step ends at an `await`; agent controllers are
threads and interleave everywhere (`session`). The flush task (`flush`) goes through
"sleep", "sequence", "submit" and "answer", holding `lock`. The node (`chainSeq`,
`mempool`) executes a transaction whose sequence number is the current one, and may
expire it. `Faults` names what may go wrong: a lost answer, a failed submission or read,
a misread sequence number (the code returns 0), an expired transaction, a thread switch
inside `add_tokens`, an LLM call that raises, `stop()`, a restart of the server. `used`,
`charged` and `handed` are history.

### `EventLog` - what the stream promises

A log in which an id is never used for two stored entries and no entry changes, across
crashes too; within one process a subscriber gets an entry at most once, and only if it
is stored.

### `EventStream` - threads, files, pages, queue and pools

`add_event` is four steps (`AssignId` under the lock, `WriteFile`, `StoreCachePage`,
`PutInQueue`), interleaved between adding threads. The write page is shared, as the
list object is in the code, so a thread may store a page a sibling has extended. The
dispatcher takes an event and submits to one subscriber after the other; `submit` on a
pool that was shut down or does not exist yet ends the dispatcher, as the uncaught
exception does. Subscribing registers the callback before its pool; cleaning up stops
the pool before it removes the callback; `close()` stops the dispatcher and cleans up
one callback at a time. `Crash` loses everything but the files. `ImplementsLog` is
`EventLog!LogSpec` under the mapping from files and calls to `log` and `seen`.

Abstractions: one callback per subscriber id; `cur_id` is computed when a process
starts; callbacks end; secrets are not rewritten; the error handler of a future only
logs.

### `AgentController` - the control loop

`ctl` holds the agent state, the pending action, and both control flags. `pc` says
where the controller's thread is: between events, about to `_step`, or in `agent.step`.
Each kind of event has its handler action, each way out of `_step` and of `agent.step`
its own. The user, the runtime and the memory are actions over queues that keep the
order of `add_event`. A `status_callback('error', ...)` is a report (`reports`) that
reaches the controller through the session's thread any time later, also in the middle
of `agent.step`: `StatusError`. `answered` is what `_reset` looks up in the history.

Abstractions: the stream is a queue per subscriber (section on `EventStream` for what is
behind it); `AgentStateChangedObservation`, which no modelled component reacts to, is
left out; a tool call is a number and each `agent.step` is a call of cost one (an agent
that serves a queued tool call without an LLM call costs less); the handlers are atomic
with respect to status errors, except for `agent.step`; the frontend offers confirm and
reject only for an action that awaits them, until one is clicked. Delegates and
the rebuilt history are in `Delegation`, loop recovery in `LoopDetection`; replay and the
command line are in `HeadlessRun`.

### `Sessions` - conversations on one server

A step is the code between two suspensions of the event loop. A session, and a
conversation lent to requests, is named by the request or connection that made it.
`Scenarios` says who does what: two starts at the limit, a stop and a rejoin, requests
beside a session, a request under a stop; every interleaving of each is explored.

### The shells: `Shells`

There are three. `BashSession`: keys typed into a pane and not yet read, a capture with
prompts, polls that may find a time limit passed. A prompt is the number of the command that ended
before it, which stands for the exit code it carries. `PowershellSession`: jobs, the active
one, and how many of its lines were shown. `CLIRuntime`: a pipe, the buffer of the text
stream that `select` does not see, a process that ends or times out.

### The runtimes: `DockerRuntime`, `LocalServers`, `RemoteRuntime`

`DockerRuntime` has the lock files of the ports down to the inode (a lock belongs to
the open file, its name may be unlinked by then), containers, and connect, attach,
close and crash. `LocalServers` has the two tables of servers, the threads that make
warm ones, and the actions a runtime sends to the server it took to be its own. `RemoteRuntime` has an API whose calls may fail after they were carried out.
In the same module, `KubernetesRuntime` makes and deletes five resources one call at a time.

### In the sandbox: `ActionServer`, `SandboxTools`, `FileTools`

`ActionServer`: clients that give up, a server that goes on, the directories of shell
and kernel. `SandboxTools` has the browser, a process with its pipe and the attempts to
start it, and the kernel: output and reply of a cell on two channels in any merge, lost
connections, cells that ignore the interrupt. `FileTools`: the arithmetic of the window
over files of every length up to the bound, which may change behind it; and the edits a
second model drafts, with lint and corrections that are edits themselves.

### Around it: `ImageBuild`, `WorkspaceSetup`, `Deployments`, `SandboxServices`, `NestedConversations`

`ImageBuild`: three tags, what they say and what the image holds, several builders
at once. Docker looks the first tag up again before it gives its image the second: with four
builders layers pile up that way, which two builders of the run's instance cannot show (a
first form of `FewLayers` passed there and is false). `FewLayers` now states the sharp bound
unless an image was relabelled; TLC checked it for four builders too (1 126 418 states). `WorkspaceSetup`: every command of a session's start may succeed, fail, or leave
unknown whether it ran. `Deployments`: the metadata that a start reads before its health check and
writes back after it; the container engine may raise when the container is to run, or while the
start waits, and then the container is left as it is. `SandboxServices`: the limit and the pauses it causes, over Docker, a
remote API with rows, or processes. `NestedConversations`: a server per container.

### Conversations: `AppConversations`, `ConversationRecords`, `WebHookStore`

The first two have one record with several writers, each of which reads it, waits and
writes it back; `ConversationRecords` has also the tools that record a pull request, and a
walk over two lists with one combined page id; a deletion in `AppConversations` goes through its
list of sub-conversations one by one, each of which is deleted, found gone, or fails and is left; the last a batch, its timer and a thread pool that may reorder.

### The agent: `History`, `LoopDetection`, `Delegation`, `LlmUsage`, `ToolCalls`, `HeadlessRun`

`History` has `View.from_events` and each condenser as an operator over the history and
`process_events` as one over the view, in a conversation that grows, is stopped
and overflows. The condensers are any their constructors accept (`CondenserAssumption`), and the
instance has the largest `keep_first` too. `LoopDetection` has the scenarios of the stuck detector over palettes of
events; the reference is `Repeats`, which says what a loop is. `Delegation` has both
agents on one stream and the history that a restart rebuilds. `LlmUsage` has the metrics
of each service over sessions. `ToolCalls` writes and reads back the text form of calls;
a value is the kind of text it is (plain, holding a closing tag, holding a call).
`HeadlessRun` has runs from the command line, one after the other on one session: the main
task that looks at the agent once a second, the callback that answers for the user, the
recorded trajectory that `ReplayManager` plays before the agent decides, the two interrupts
and the state that is saved and restored.

### What it is given: `Skills`, `McpTools`, `ConfigLayers`, `UserSecrets`

Places that give skills, one over the other; MCP servers that come and go; model
configurations as objects that several holders share; one file of secrets, what a
sandbox has of it and what its stream masks.

### Repositories: `GitHosts`, `IssueResolver`, `Patching`

Three kinds of paging under change; two commands over one output directory, stopped
anywhere; and the patch formats: `diff` (external) writes an edit in a format, and
what is parsed and applied is compared with the new file.

## 4. The runs

| Run | Bounds | Shows |
|---|---|---|
| `contract` | 2 users, 2 publishing accounts, u64 of 0..8, batches of up to 2 entries | `BalanceIsLedger`: balance = deposits - deductions, for overflowing, duplicate, unaffordable and unlisted entries; `StoresSound`: types, a treasury that covers the balances, and nothing in foreign stores; `DepositNeverOverflows`; `BatchChargesEachAlone`: a batch charges as its entries one by one would |
| `billing` | 2 users with a session each, 1 request, 2 tokens, 1 price change, 2 transactions | `NoOvercharge`, `OneDeductionPending` with failed submissions, misread sequence numbers, expiry and restart |
| `billing_live` | 1 user, 2 sessions, 3 tokens, 6 transactions | `FlushReleasesLock`, `UsageIsFlushed`, with `stop()`, expiry, failing reads and interrupted `add_tokens` |
| `billing_forgotten` | 1 user, 2 sessions, no faults | finding: `NoUsageForgotten` fails, tokens added during a flush are zeroed with the flushed ones |
| `stream` | 2 adding threads, 2 subscribers, 2 events, pages of 2, write errors, unsubscribe, close | `DeliveryOrder`: one order for all, which respects each thread's; `StreamSound`: nothing runs for a subscriber that is gone or a stream that is closed |
| `stream_restart` | 2 threads, 1 subscriber, 3 events, pages of 2, 1 crash | `SearchMatchesUntilCrash`, the refinement `ImplementsLog`, `CachePagesFinal`, and under fairness `EventReachesSubscribers` and `CloseEnds` |
| `controller` | 3 things the user does, 2 iterations and a budget of 3 calls per extension, confirmation mode, all faults | `IdleHasNoPending`, `CallsBounded`, `ConfirmedRunsOnce`, `PendingIsAnswered`, and under fairness `MessageStartsStep` |
| `controller_lost_message` | 2 user events, no faults | finding: a message sent while `agent.step` runs is never served if that step finishes or waits |
| `sessions` | 2 conversations, a limit of 1, 2 connections, 3 requests, 4 scenarios | `HeldConversationIsUp`, `OnlyEarlyAttachClosesStream`, `TwoLoopsOnlyAtLimit`, `LeakOnlyWhileStarting`, and under fairness `IdleSessionPassivated` |
| `sessions_closed_early` | the same | finding: `ClosedMeansReleased` fails, `close()` does not wait for a start |
| `runtime` | 17 parts, bounds below | `ShellsAnswer`, `RuntimesAccounted`, `ActionsSeeEarlierOnes`, `ToolsAnswer`, `SandboxContents`, `DeploymentBooks`, `SandboxBooks` |
| `services` | 17 parts, bounds below | `HookCatchesUp`, `PromptWellFormed`, `ConversationsKept`, `AgentKept`, `ToolsKept`, `UserKept`, `ListsAndPatchesKept`, and the action property `CondensationMakesRoom` |

The properties of the last two runs are conjunctions, one conjunct per part, each
with mutants of its own:

| Property | Conjuncts |
|---|---|
| `ShellsAnswer` | `AnswersOwnCommand` (tmux), `FollowedJobShownOnce` (PowerShell), `CliOutputWhole` |
| `RuntimesAccounted` | `CollisionNeedsLateUnlink` (Docker ports), `ServersAccounted` (local), `RunningIsClaimed` (remote), `WholeOrGone` (Kubernetes) |
| `ToolsAnswer` | `BrowserAnswers`, `CellsAnswered`, `WindowKept`, `EditsTold` |
| `SandboxContents` | `ImagesTrue`, `WorkspaceKept` |
| `SandboxBooks` | `SandboxesTracked`, `NestedBooks` |
| `ConversationsKept` | `ConversationBooks` (V1 rows), `RecordsKept` (V0 metadata), `UsageBooks` |
| `AgentKept` | `LoopsBroken`, `DelegationKept`, `ToolCallsKept`, `HeadlessKept` (`ReplayUndisturbed`, `AskingIsAnswered`, `ResumesAfterFailure`, `EndIsFinal`) |
| `ToolsKept` | `SkillsKept`, `McpKept` |
| `UserKept` | `ConfigLayered`, `SecretsKept`, `ResolverKept` |
| `ListsAndPatchesKept` | `HostsAnswer`, `PagesWhole`, `PatchApplied` |

Bounds of `runtime` (`Runtime.cfg`): 4 commands of a shell, 3 PowerShell calls, 3 Docker
runtimes of two conversations over 2 ports and 1 restart, 3 local runtimes with 1 warm
server, 3 remote and 3 Kubernetes runtimes (one of each attached) with 2 and 1 faults, 2 clients of
the action server, 4 browser calls, 3 cells with 3 lost connections, files of up to 13
lines under a window of 4, 2 edits, 2 image builders with 3 requests, 2 session starts,
6 deployment operations over 4 ticks, 2 concurrent sandbox requests with a limit of
2, 2 nested conversations with a limit of 1. Bounds of `services` (`Services.cfg`): 3
versions of 2 paths and 2 sends, histories of up to 11 events with 2 user messages, 2
conversations with 2 writers or 4 requests, 5 conversations on pages of 1, 14 events for the stuck
detector, 2 LLM sessions of 3 calls, 7 messages with 1 model change, 2 processes that
load the configuration, 2 secret requests and 1 rotation, 4 repositories and 1 change, 4
resolver commands and 1 fault, 2 MCP sessions with 1 outage, edit scripts of up to 5 lines,
12 delegate events with 1 restart, 2 command line runs with 2 decisions of the agent and 1
error of the runtime each, over four trajectories.

Why the bounds are enough: every hazard needs at most two of anything that races (two
threads on one page, a flush and an `add_tokens`, two reports, two entries for one
user, two writers of one record), and one more of what is counted. With pages of 2 and 3
events a page fills, is shared and is followed by another. Three user events give a
message, an interruption and a resumption or confirmation, which is what the limits, the
confirmation and the pending action need. The stuck detector's longest scenario needs
six steps of two events and what stands before them. A file of 13 lines is three windows of 4
and one line, which is where the arithmetic of the windows has its edges. The mutants of
`PROJECT.json` show that each property is within reach of a plausible mistake under
these same bounds. `runtime` uses the symmetry of the two ports, which no definition
tells apart; no liveness property is checked there.

Deadlock is not checked in the stream, controller, session, runtime and service runs: a
conversation may come to rest. It is checked in the contract and billing runs.

**Fairness.** Weak fairness of each coroutine's and thread's next step: the event loop
and the operating system schedule what is ready, HTTP calls have timeouts, LLM calls
return or raise. The node executes what is executable. Subscribers' callbacks end. In
`Sessions` the clean-up task and what it closes go on. No fairness is assumed of users, admins,
faults, crashes, subscribe, unsubscribe or `close()` being called; nor strong fairness of
anything.

**Excuses stated in the properties.** A property that the code keeps except in one
circumstance names the circumstance, so that anything else that breaks it is found:

* `NoOvercharge` is checked without the fault of a lost answer: when the node accepted a
  deduction and the answer is lost, the flush is repeated and the usage charged twice. Nor may
  `add_tokens` be interrupted between its read and its write: it would restore what a flush zeroed.
* `UsageIsFlushed` ends when the flush task was stopped. Accepted usage may stay uncharged:
  the contract skips a user who cannot pay without an abort, which is its design.
* `SearchMatchesUntilCrash` ends with a crash: a cache page that held an event whose file was never
  written hides the event that later gets its id. `EventReachesSubscribers` excuses a
  dispatcher that an exception has ended: a `submit` to a pool that is shut down, or not
  there yet, ends it for every subscriber.
* `MessageStartsStep` ends when an error or the user comes in between or the agent leaves
  the running state, which `controller_lost_message` shows is needed; a resume after a
  pause takes no step, which the code leaves open. `IdleHasNoPending` and
  `PendingIsAnswered` make an exception for an error that came while `agent.step` was
  running (`raced`): `_step` does not look at the state after it.
* `OnlyEarlyAttachClosesStream`, `TwoLoopsOnlyAtLimit` and `LeakOnlyWhileStarting` each name
  the one race that breaks what a reader would expect.
* In the runtimes and services: a prompt seen before the keys were read; a name unlinked while
  another runtime had the file open; API calls that failed; a record written by somebody
  who had read it before another's write (`overlapped`, `late`, `unlinked`); a sub-conversation
  whose own deletion failed in that of its parent, which is logged and leaves an orphan (`spared`);
  a deployment stopped after its start had raised over a container that runs (`earlyStop`); an
  `ErrorObservation` taken for success (`blurred`); a start that met another start; an image
  that was replaced while its builder was about to give it a second name (`relabelled`); a
  router, whose own metrics never grow, so nothing is billed (`StepsBilled`).
* `CondensationMakesRoom` names the summarizer whose `keep_first` is one below half of `max_size`
  (`NoTail`): its constructor accepts it, its tail is empty and the slice ends at -0, so it raises at
  every step once the history has outgrown it. The property says that such a summarizer never
  condenses, and that no other condenser raises because of a long history.
* `WindowKept` allows one line that is never shown: when a file ends exactly one window after
  the line that was scrolled to, the window begins one line later. In a file of 201 lines
  with windows of 100, `open_file` shows 1 to 100 and `scroll_down` 102 to 201, although
  `file_ops.py:189` tells the agent to scroll down and up to view the complete file.
* `PatchApplied` names the context hunks and `ed` scripts that `patch.py` reads correctly; a
  renamed file loses what was changed in it.

## 5. What is proved

All constants are arbitrary, within the named assumptions of the modules
(`U64Assumption`, `SupplyAssumption`, `ContractAssumption`, `BillingAssumption`,
`ControllerAssumption`, `StreamAssumption`, `SessionsAssumption`, `ActionServerAssumption`,
`DockerAssumption`, `LocalAssumption`, `RemoteAssumption`, `KubeAssumption`,
`WindowAssumption`, `DraftAssumption`, `LoadersAssumption`, `SecretsAssumption`,
`SkillDirsAssumption`, `McpAssumption`, `SandboxAssumption`, `MaxNestedAssumption`,
`AppConvsAssumption`); TLC
evaluates these on the instances. They say that
bounds are numbers and sets finite, that the names that stand for "none" are not among the
ports, processes and sandboxes, and that a window has at least one line (`WINDOW` is 100 in the
code) and a draft at least one attempt; that there is a first process, two files of a directory of skills
have two names, every server in a list offers a known set of tools, and no tool is named like
a state of the session; that more than one sandbox may run at a time (with room for one the code
refuses every start), that the nested conversations are finitely many and at least one may run, and
that 0, which stands for no parent, is no conversation.

* `ContractTypeCorrect`, `LedgerCorrect`, `ForeignStoresHarmless`
  (`VibeBalanceProofs`). The inductive invariant `ContractInv` joins the types, the
  ledger equation for every store, that foreign stores are empty and that an unpublished
  store has nothing. `batch_deduct` is a loop: `LoopKeepsBooks` is an induction over
  its index, by `NatSetInduction` (a set of naturals that contains 0 and is
  closed under successor is all of them, from the least-number principle, because the
  library's induction theorem takes an operator parameter).
* `BillingTypeCorrect`, `BillingKeepsLedger`: `TypeInv` adds the server's and the
  chain's types; every step of the server either leaves the contract alone or is a step
  of it.
* `OneDeductionAtATime`: at most one deduction is pending under every fault.
  `Discipline` is needed: the lock keeps initialisation and flush apart, a flush never
  holds a sequence number from the future, and what is in the mempool carries the
  current one, so a second accepted deduction would have to carry the same.
* `NobodyOvercharged`: if no answer is lost and `add_tokens` is not interrupted, no user
  is charged for more than they used. `ChargeInv` counts, for each user, what was
  charged, what the pending transaction may charge and what is left in the accumulator
  for a later flush; while an accepted flush has not yet reset the accumulator the
  submitted part is not counted twice (`Remaining`).
* `StoresAreSound`, `DepositsFit`, `BatchesChargeAlone`, and `BillingKeepsStores` under
  `Billing`. Sums over all users change by what one entry changes (`SumOverChange` and its
  kin, proved from the definition of the folds). `CoinsKept` says that wallets and
  treasuries together are the supply, from which no sum of a deposit can exceed
  `MaxU64` (`SupplyAssumption`: the coins in existence fit 64 bits). `ChargedSoFar` is the
  invariant of the loop of `batch_deduct`: after `i` entries their users are charged what
  each can pay, and the others have what they had.
* `StreamIsSound`, `EventsInOrder`, `StreamImplementsLog`, `CachePagesStay`,
  `SearchIsRight` (`EventStreamProofs`). `StreamInv` joins four parts. `SoundInv`: types, and
  a removed or closed subscriber has no task left. `FlowInv`: what a subscriber was called
  with, then what is in its pool, in the dispatcher's hand and in the queue, has its file and
  comes in one order, the same for all subscribers and each thread's own (`Leads`, `Reach`).
  `PageInv`: all pages but the last are full, ids are consecutive, and a stored page is one
  of this process or precedes all of its ids. `FirstProcess`: before a crash, every file
  and every stored page is from this process's pages. The refinement uses `SoundInv` and
  `FlowInv`; each action of the stream maps to an action of the log or a stutter.
* `ControllerIdle`, `ControllerConfirmed`, `ControllerPendingAnswered`,
  `ControllerCallsBounded` (`AgentControllerProofs`), for every limit, mode, number of user
  events and set of faults. `ControlInv` joins `Typed`, `Refers` (events refer to what
  came before them), `Thinks` (nothing is pending while `agent.step` runs, and only a status
  error can have changed the state meanwhile), `Once` (a tool call has one action to run,
  or has run) and `Asked` (who awaits a confirmation has an action that awaits it, and nothing
  overtakes the answer). `Pends` adds that a pending action has its answer under way.
  `Limited` counts steps and money against the user events that raised the limits
  (`UserEvents`, `Handled`).
* `HeldStaysUp`, `StreamsStayOpen`, `OneLoopBelowLimit`, `ClosedHoldsNothing`
  (`SessionsProofs`), for any requests, conversations, limit and scenario.
  `Serving` says what a closed session has (`Sound`), that an unclosed session is in the
  table unless somebody waited at the limit (`Placed`, `Tabled`), and whose stream a lent
  conversation shares (`Streamed`). `Held` says that the active count of a conversation
  is the number of requests that hold it, that it is then up (`Lendable`), and that while a
  request connects under the lock there is neither an active nor a detached one.
  An earlier form of `TwoLoopsOnlyAtLimit`, which blamed any starter that waited at the
  limit, passed on the instance and could not be proved: one that waited for a third
  conversation would have excused the second loop. It now names a starter of the same
  conversation.

* `HookCopyCatchesUp` (`ServicesProofs`), for any writers, paths, changes and retries. `HookInv`
  follows the newest version of each path: it is in the copy, in the batch, in a batch that is
  being sent, or in the hand of a writer that is about to queue it (`Carried`), and a batch
  that is not empty has its timer. A step that could break this sets one of the two excuses of the
  property.
* `ConversationsStayKept`, in the same module, for any conversations, requests, updates, answers and
  sessions. `ConvInv` says that a row whose parent a deletion is about to take is taken with it,
  was written later, or failed to be deleted (`ListedOrLate`), that a start which has stored its row finds it or the
  conversation was deleted (`StoredOnce`), and that a request's copy of a row has the parent the start asked
  for, unless the request is an update web hook (`ReadsKept`). `RecordInv`: an open update that nobody overtook
  holds the record as it is but for what it sets itself (`FreshUpdates`), so writing it back loses nothing, and the
  tokens in the record, in every open copy and in the events still to come were spent (`CountedSpent`). `UsageInv`:
  a running server's metrics of a service are those it took over and what was counted since
  (`KeptOrRestored`), so saving them replaces the file's by no less.
* `UserSettingsKept`, in the same module, for any processes, requests, rotations and commands. `ConfigInv` says
  of every step of the load which objects there are and who shares them: until the arguments are
  read the base model is the first object and the named one, if any, the second, so a
  layer that writes through one name is seen through the others that name it. A secret that a process
  uses was made by one that had found none (`SecretsMade`). `UserSecretsInv` joins `StoreInv`, every token
  that is stored or about to be stored was checked by a request that is not later than the count
  (`Sound`, `ReqSound`), and `EnvInv`, what the shell of the sandbox has against what the session
  was given. `ResolverInv` follows a fix: fixes of issues are on branches of their own, each made by
  a command that has begun (`FixesPlaced`), so the one of a new command is nowhere yet
  (`FixIsNew`); the branch of every pull request holds a fix (`OpenedPushed`), so a push that is a
  fast-forward never goes to the branch of another pull request; and the clone, which fetched the
  user's branch before anything was pushed there, holds no fix, so what is pushed to that branch
  holds one.
* `ToolsStayTheirServers`, in the same module, for any directories, servers, tools and outages.
  `SkillInv`: after each place, what a dictionary holds is of every name the nearest of what its places
  gave (`Nearest`), and the two dictionaries of a V1 session are of disjoint places. `McpInv` has all
  lists of servers in one order, the one the tools were shown in (`InOrder`), the proxy added
  once or several times (`WithProxies`); a server that is connected to or about to be comes after all that are
  nearer to the front, unless those were missed (`Tried`), so the first client with a tool of the
  name is the server it was shown for or comes after one that was missed (`ShownFirst`).

The theorems of `RuntimeProofs` are about the composed specification of the run `runtime`. For
each part a lemma says that its invariant holds at the start, one that each of its steps keeps
it, one that a step of another part does (its variables do not change), and one that it gives the
conjunct of the property. `PartsApart` takes a step of the whole apart into a step of one
part and the unchanged variables of all others. The lemmas of the shells, the tools, the
sandbox services and the nested conversations are in `SandboxProofs`. The theorems of `ServicesProofs` are made the same way for the run `services`.

* `ShellsAnswerTheirOwn`. `BashInv`: the screen's last prompt is that of a command that was
  typed, and unless input reached the prompt no prompt of a later command can be in the
  capture. `PsInv`: what was shown of a job and what is still to be read make up its lines, and a job
  that was taken off the table was shown whole or given up in a way the property names. `CliInv`: what
  was read, then the buffer, then the pipe are the lines printed, in this order, until the
  reader gives up; so what `select` does not see is either in the answer or the call has failed.
* `NothingRunsUnaccounted`. `DockerInv` follows a port's lock to the inode: a runtime that holds a port
  has the lock of the file it opened, and two can only have different files under one name if the
  name was unlinked after the second had opened it. `ServersInv`: a server process that lives is in
  the running table, warm, being made, in the hand of one runtime, or an orphan the code is
  known to leave. `RemoteInv`: a sandbox that runs is claimed by a runtime that will stop it, or
  excused by a lost answer. `KubeInv`: which of the five resources exist follows from where
  the creation or the deletion stands.
* `ToolsAnswerTheirOwn`. `BrowserInv`: the pipe to the browser holds the actions after those its
  page was led through, and each answer in the pipe back is the page after its action. `JupyterInv`: the kernel's
  output of the cell that is gathered, what is still on its way and what a lost
  connection swallowed are what the cell printed, in order, and output of an older cell can
  only stand before. `WindowInv`: the lines seen since the file was opened are those up
  to the end of the window, less the one line of section 4. `EditInv`: a draft and its answer
  belong to the version of the file they were made from, and no more drafts are asked of the
  model than the retries allow.
* `SandboxHoldsWhatItSays`. `ImageInv` follows a tag from the lookup to the build, the push and
  the second name: what an image is named says what it holds, at every builder and in the registry,
  and the layers on top of each other stay in the bound unless one was relabelled. `WorkspaceInv`: the
  hook, the microagents and the project are in the workspace when the session has been told so.

* `ActionsRunInOrder`, for any clients, attempts and lost answers. `ActionInv`
  says of every request in line that it was sent, that it is not older than what its client
  was answered or what ran (`Known`), that a client's requests and repeats stand as they were sent
  (`Before`), and that nothing moves between the reset of the kernel's directory and its cell.
* `DeploymentBooksKept`, for any requests, in any overlap. `DeployInv` needs
  that no copy of the metadata is newer than the file, that a start whose copy is as new as the
  file is the start of the container that runs, and that what is charged was run before this
  container; a container reported running was not reported to have started before it did.
* `SandboxesOnTheBooks`, for any requests, sandboxes, conversations and faults. Both halves
  rest on `FirstOnes`: if the members of a finite set have different numbers, the list of the
  first n by number leaves out at most the others, so closing the oldest down to the
  limit leaves room. `SandboxInv` counts, from the moment a request has looked, what runs of
  the sandboxes it saw, other than those it is still to pause, could not pause or another
  request resumed (`Spared`): no step adds to that, because what begins to run was either never
  started before, so nobody saw it, or is resumed, and then all who count keep it; and what a
  request saw of a remote service stays on the books while it runs (`SeenWas`), so a pause cannot
  miss it. `NestedInv` says that a start past the limit is booked as starting
  (`StartsAreBooked`), that two starts of one conversation, or a start and an older one's task,
  are known to have met (`MeetingsSpoil`, `RunningSpoils`), and that while no two starts
  have been in progress at once, the one that is finds fewer containers than allowed, not
  counting those it has yet to close (`RoomIsLeft`).

Eleven of the modules had to change before they could be reasoned about; each change keeps to
the source. `OpensLock` now says that a path free of a file gets a new one only while there is one left
in the bound; `CloseEffect` is one definition; a runtime's bounds are named assumptions; `Shells` and
`RemoteRuntime` took in the modules of their kin. `ConfigLayers` makes its table of models over all
names at once, and `UserSecrets` applies a request after the refusal is ruled out; both say what they
said. `McpTools` names its assumptions. `SandboxServices` and `NestedConversations` say which are the
oldest by how many are not newer, where they sorted a set into a sequence. Two changes were corrections that the proofs asked for. `NoOrphans` is false of three
generations: `_delete_sub_conversations` deletes the sub-conversations of the deleted conversation and
not theirs, so the row of one of these keeps a parent that is gone. The instance of two conversations
could not show it. `AppConversations` now remembers which rows were deleted as sub-conversations
(`below`), the property makes an exception for their own, and it was checked with
three conversations as well (4 requests, 435 236 states; the run has two, also with 4
requests). And in `Skills` two
skills of one name in a directory were both kept, although the code keeps them in a dictionary by
name; now the directory's own `agents` file replaces the special one, and the instance
has such a directory.

Every inductive invariant was checked by TLC as an invariant of the run of its module
before it was proved (`ControlInv` on 430 650 states, `StreamInv` on 715 787 of `stream` and
317 612 of `stream_restart`, `Serving` and `Held` on 305 977, the contract's on 16 209,
`DeployInv` on 293 172 with three requests, `HookInv` on 7 599, `ConfigInv` on 137 760,
`UserSecretsInv` on 227 734, `SandboxInv` on 165 306, `NestedInv` on 29 584, `ResolverInv` on 79 816, `SkillInv` on 105 884, `McpInv` on 91 934, `ActionInv` on 3 085 473
with two actions for each client, `DockerInv` on 1.9 million, `JupyterInv` on 39 512 and
`ImageInv` on 17.5 million with three builders).

Only model-checked:

* Liveness and everything that rests on fairness: out of the prover's reach.
* `PromptWellFormed`, `AgentKept` and `ListsAndPatchesKept`. Their modules compare a
  recursive computation over data with a reference (`History`, `LoopDetection`, `ToolCalls`,
  `Patching`, the pages of `GitHosts`, the walk of `ConversationRecords`), or what is left of a list with
  the list (`Delegation`, `HeadlessRun`): they are checked over bounded inputs, because
  induction over data is out of the prover's reach.

## 6. What is not modelled

* Text, formats and cryptography: prompts, wording, BCS and signatures, the parsing of a
  shell command, the Dockerfile, headers of version control systems in patches, binary
  patches, queries and answers of each hosting service.
* The contract
  templates (staking, swap, token, NFT, counter): examples that are copied into a user's
  workspace and edited there. Security analyzers: a risk level per action, an input of
  the controller without state of its own. The frontend, except for when it offers a confirmation.
* SQL and the injection of services in the app server; S3 and Google clients; forwarding of
  requests to nested servers; the browsing agents.
* Code that nothing calls: the fifth scenario of the stuck detector (no component
  adds an `AgentCondensationObservation` to a history), `attempt_loop_recovery`,
  `cleanup_stale_locks`, the helpers `_build_conversation_result_set`,
  `_parse_combined_page_id`, `_fetch_v1_conversations_safe`, `_process_v0_conversations`,
  `_apply_microagent_filters` and `_create_combined_page_id` of
  `manage_conversations.py`, the conversion of several calls in one message of
  `fn_call_converter.py`, and the disabled routes that store and reset the settings.
* Filters, limits and direction of `search_events`.

## 7. Further hazards

`PROJECT.json` lists the forty hazards that matter most. These were met as well; a name in
brackets is the property that covers one, and where there is none the last sentence says why.

**agenthub**

* `agenthub/codeact_agent/function_calling.py:89`: One call of an answer that is refused drops the
  others of the same answer. [`AgentKept`]

**app_server**

* `app_server/sandbox/sandbox_service.py:91`: The limit counts RUNNING sandboxes only: those still
  starting are not counted and not paused, so a burst of starts exceeds it. [`SandboxBooks`]
* `app_server/sandbox/sandbox_service.py:83`: Two starts count before either has paused or created:
  each pauses by its own snapshot, and one may resume what the other is about to pause.
  [`SandboxBooks`]
* `app_server/sandbox/process_sandbox_service.py:93`: _find_unused_port tests a port that the agent
  server binds seconds later: two starts get the same port, and the second is told ready by the
  first one's server. [`SandboxBooks`]
* `app_server/event_callback/webhook_router.py:107`: on_conversation_update rebuilds the row without
  parent_conversation_id: the sub-conversation is no longer deleted with its parent.
  [`ConversationsKept`]
* `app_server/app_conversation/live_status_app_conversation_service.py:892`: A deletion goes one level
  down: the sub-conversations of a deleted sub-conversation keep a parent that is gone (`below`).
  [`ConversationsKept`]
* `app_server/app_conversation/live_status_app_conversation_service.py:902`: The sub-conversations
  are listed once: one whose start is under way stores its row after the deletion of its parent.
  [`ConversationsKept`]
* `server/routes/manage_conversations.py:588`: The commit of a deletion fails: the agent servers have
  forgotten the conversations whose rows stay, the sandbox is kept, and the request still answers
  that the conversation was deleted. The behaviour is in the model (CommitFails); nothing in the
  repository says what is to become of the rows.
* `app_server/app_conversation/live_status_app_conversation_service.py:474`: A paused sandbox is
  resumed and then judged by the status read before: every start on a paused sandbox ends in ERROR.
  The behaviour is in the model (ChecksSandbox); no text of the repository promises that such a
  start works, so no property is stated.
* `app_server/app_conversation/app_conversation_router.py:428`: A client that leaves a streamed
  start closes the generator where it yielded: the saved task keeps a status that is neither READY
  nor ERROR for ever. The stage "abandoned" of the model; that every task ends is false and nowhere
  promised.
* `app_server/app_conversation/skill_loader.py:213`: A file the sandbox fails to show is left out of
  the skills without a word, and the next place's of that name is used. [`ToolsKept`]
* `app_server/app_conversation/skill_loader.py:260`: Three places of a repository are merged first
  one wins and then put over the rest last one wins. [`ToolsKept`]

**contracts**

* `contracts/vibe-balance/sources/vibe_balance.move:259`: tokens * price overflows u64 and aborts
  the whole batch, the other users' entries included. [`BalanceIsLedger`]
* `contracts/vibe-balance/sources/vibe_balance.move:239`: Anyone may create a store of their own;
  deposits and deductions must never touch one store's books with another's signer. [`StoresSound`]
* `contracts/vibe-balance/sources/vibe_balance.move:264`: A user who cannot pay is skipped without
  an abort: the server sees success and zeroes usage that was not charged. Accepted is not charged:
  stated in the README as the contract's design; a property that compares usage with charges from
  below fails for it and the code promises none.

**controller**

* `controller/agent_controller.py:906`: agent.step raises after the LLM has answered (a malformed
  action): the tokens are spent and never reported. Billing has the step that raises; the code
  promises no lower bound on what is billed.
* `controller/agent_controller.py:864`: The agent steps only when nothing is pending: a recall that
  is never answered, or an observation whose cause is not the pending id, blocks it for good.
  [`MessageStartsStep`, `PendingIsAnswered`]
* `controller/agent_controller.py:591`: A user message replaces a pending action that awaits
  confirmation or is being executed; its late observation must not release the recall.
  [`PendingIsAnswered`, `ConfirmedRunsOnce`]
* `controller/agent_controller.py:506`: Resuming a paused agent sets RUNNING and takes no step: if
  the pending answer came while it was paused, the agent waits in RUNNING until the next event.
  MessageStartsStep excuses a message that the user's own pause interrupted; the code does not say
  who should step after a resume.
* `controller/state/state.py:310`: The view is cached under the history's length, and process_events
  inserts messages into the cached list. Every step adds an event before the next one, so the cached
  view is not used twice.
* `controller/state/state.py:306`: The view is cached by the length of the history: a history that a
  loop recovery cut and that grew to the same length again is not seen, and the agent acts on the
  removed events. [`AgentKept`]
* `controller/stuck.py:83`: is_stuck returns before it clears the old analysis when fewer than three
  events follow the user's message: a recovery action then cuts the new history at the old place.
  The behaviour is in the model (Analysed); StartKnown is about the agent that stands in the error,
  where the analysis is current.
* `controller/stuck.py:164`: The start of the loop is looked up by equality: an equal action earlier
  in the history is found first. [`AgentKept`]
* `controller/state/state_tracker.py:138`: After a restart during a delegation the delegate is gone
  and its events stand in the parent's history. [`AgentKept`]
* `controller/agent_controller.py:467`: Events are forwarded to the delegate's _on_event, which
  never forwards: a delegation that reaches a delegate leaves everyone waiting. The state "nested"
  of the model; the shipped agents delegate one level only, and a second delegation needs a late
  observation.
* `controller/agent_controller.py:1383`: The controller reads the metrics of agent.llm; with a
  router these never grow, the chosen client keeps the books: nothing is billed. [`ConversationsKept`]

**core**

* `core/main.py:347`: What is saved after a run begins with the system's message, and a trajectory
  that does not begin with a message of the user or the agent is refused: a run cannot be replayed
  from what the previous one saved. The model refuses it too (load_replay_log); one of
  the trajectories of the run is such.
* `core/main.py:200`: The last error is saved with the state and nothing clears it: a
  session that failed once is told to get back on track in every later run, whatever it is asked
  to do. `ResumesAfterFailure` states what the code does. [`AgentKept`]
* `core/config/utils.py:890`: -l replaces the default model's configuration; the default condenser
  was built from the old object and goes on with the old model and key. [`UserKept`]
* `core/config/utils.py:371`: Two processes that start on an empty file store both find no secret
  and both write one: the first one's tokens are void after its restart. [`UserKept`]
* `core/config/utils.py:333`: The condenser is given the model's configuration before the
  environment is read: it follows only because the environment changes the object in place.
  [`UserKept`]
* `core/config/utils.py:321`: The default condenser is set where config.toml is read: without a file
  there is none, whatever enable_default_condenser says. The behaviour is in the model (NoFile);
  enable_default_condenser is then met by the session, which builds its own pipeline.

**deployment**

* `deployment/deployment_manager.py:374`: redeploy_contract reads the metadata, stops the deployment
  (which saves the cost) and saves its own older copy. [`DeploymentBooks`]
* `deployment/deployment_manager.py:350`: A stop while the deployment is still starting, or
  after its start has raised over a running container, charges from the started_at of the session
  before. [`DeploymentBooks`]

**events**

* `events/stream.py:147`: A callback is registered before its pool: an event dispatched in between
  raises KeyError in the dispatcher thread. [`EventReachesSubscribers`]
* `events/stream.py:120`: The clean-up checks, shuts down and deletes without a lock while the
  dispatcher submits: a task left behind would call a callback that is gone. [`StreamSound`]
* `events/stream.py:199`: The event's file is written and the page write raises: the event is stored
  and never dispatched. [`ImplementsLog`]
* `events/event_store.py:145`: get_latest_event reads the file of an id that add_event has handed
  out and not yet written. A FileNotFoundError at the caller, not a wrong answer; no caller in the
  server uses get_latest_event on a live stream.
* `events/event_store.py:57`: cur_id is computed on first use without the lock; a reader that
  computes it beside the first add_event can set it back. The session adds its first event before
  any other thread holds the stream (session.py:138), so the model computes it when a process
  starts.
* `events/stream.py:215`: set_secrets replaces what an earlier call gave: after a refresh only the
  tokens of that refresh are masked. [`UserKept`]

**integrations**

* `integrations/provider.py:255`: A call that fails on a later page drops everything its service has
  given so far; the others are listed as if nothing had happened. [`ListsAndPatchesKept`]
* `integrations/github/service/repos.py:38`: Repositories are pushed or deleted between two numbered
  pages: one is shown twice, another one not at all. [`ListsAndPatchesKept`]
* `integrations/provider.py:660`: The repository is verified with the service the user named and
  cloned without it: of two services that know the name the first one is cloned. [`ListsAndPatchesKept`]
* `integrations/service_types.py:394`: A service that cannot be reached looks like a repository
  without microagents. [`ListsAndPatchesKept`]
* `integrations/provider.py:345`: _deduplicate_repositories remembers ids and looks for full names:
  it removes nothing. The names and ids of a Repository are one value in the model.
* `integrations/provider.py:525`: get_branches asks the services in order for each page: when one
  fails in the middle of a walk the next page is another service's. The walk over branches is not
  modelled.

**llm**

* `llm/retry_mixin.py:39`: The retry count is set on the exception before a sleep; after the last
  attempt there is no sleep, so the exception that reaches the controller has none and the agent is
  left RATE_LIMITED instead of stopped. The behaviour is in the model (AttemptFails); the
  conversation leaves RATE_LIMITED by the user's next message.
* `llm/llm.py:803`: One response whose cost cannot be computed turns cost_metric_supported off for
  good: later costs are not added and the budget no longer grows. [`ConversationsKept`]
* `llm/llm.py:352`: An answer without choices, or one that cannot be converted, was charged by the
  provider and is never recorded. The provider's own books are outside the system; the model counts
  the answers that are returned.
* `llm/fn_call_converter.py:558`: A conversation that was led with function calling goes on with a
  model without: an answer with several calls, a value with a closing tag or a parameter the tool
  lacks makes the conversion of the history fail at every step. [`AgentKept`]
* `llm/fn_call_converter.py:696`: A value that holds the text of a call leaves the answer without
  its end: it is taken for a message, and the agent waits for the user. [`AgentKept`]

**memory**

* `memory/conversation_memory.py:870`: After many condensations the view may have lost the system
  message or the first message of the user; the prompt must start with both. [`PromptWellFormed`]
* `memory/condenser/impl/conversation_window_condenser.py:60`: The context overflows although
  nothing can be forgotten (no user message in the view, one event besides the essential ones, or a
  summary): an empty condensation is recorded and the same prompt overflows again, until the
  iteration limit. [`CondensationMakesRoom`]
* `memory/condenser/impl/recent_events_condenser.py:20`: RecentEventsCondenser repeats the first
  events of a history shorter than max_events, and with max_events no larger than keep_first returns
  the whole history. PromptWellFormed excludes views with repeated events; the condenser is not the
  default.
* `memory/memory.py:282`: The two kinds are kept by name in two dictionaries: a repository that
  turns a global knowledge microagent into an always active one has both. [`ToolsKept`]

**microagent**

* `microagent/microagent.py:332`: One bad file ends the load of its directory: among the
  installation's it keeps every session from starting, elsewhere it takes the good files beside it
  with it. [`ToolsKept`]
* `microagent/microagent.py:301`: A directory of the sandbox is unpacked into a temporary one and
  AGENTS.md is looked for two levels above that, at the root of the server's own disk; the
  repository's is not read. Part of the model (SpecialFile); which file should be read is not a
  property of the order of steps.
* `microagent/microagent.py:144`: A task is triggered by the name in its header, which is 'default'
  when the header has none, while its own name comes from the path: two such files answer to
  /default. Part of the model (Trigger).

**resolver**

* `resolver/issue_resolver.py:565`: The clone of an earlier command is used as it is: after a pull
  request it is on that branch, and the next issue is fixed, and its pull request made, on top of
  it. [`UserKept`]
* `resolver/issue_resolver.py:641`: The head branch is fetched and then checked out: a local branch
  of an earlier command stays where it was, and the push is refused at the end. [`UserKept`]
* `resolver/interfaces/github.py:205`: branch_exists takes every answer but 200 for 'does not
  exist': a failing check takes a name that is in use. [`UserKept`]
* `resolver/issue_resolver.py:611`: An output is looked up by its number alone: where issues and
  merge requests are counted apart, the second of a number is skipped and the first one's fix is
  sent for it. [`UserKept`]
* `resolver/send_pull_request.py:333`: A free branch name is looked for in the original repository
  and the branch pushed to the fork, which may have one of that name. [`UserKept`]
* `resolver/send_pull_request.py:66`: A diff with 'rename from' in it moves the file and goes on to
  the next: what was changed in the renamed file is lost. [`ListsAndPatchesKept`]
* `resolver/patching/patch.py:812`: The place of a replaced line in an ed script is computed by a
  formula its author does not trust; it is right for replacements by one line. [`ListsAndPatchesKept`]
* `resolver/patching/patch.py:722`: The two parts of a context hunk are read until one of them ends:
  lines at the end of the other one are dropped. [`ListsAndPatchesKept`]
* `resolver/patching/apply.py:117`: Old line numbers are corrected by what was deleted and inserted
  so far, new ones are taken as they are. [`ListsAndPatchesKept`]

**runtime**

* `runtime/utils/bash.py:552`: A command times out and ends later, output scrolls its prompt away,
  input is typed meanwhile: prompts are told apart only by their number and by the end of the
  screen. [`ShellsAnswer`]
* `runtime/utils/windows_bash.py:809`: A job found to have ended between two calls: _last_job_output
  is reset before it is taken off the output, so lines already shown are shown again, and the call's
  own command is silently not run. [`ShellsAnswer`]
* `runtime/utils/windows_bash.py:1388`: A call that times out must remember exactly what it showed
  for the next one to show the rest. [`ShellsAnswer`]
* `runtime/impl/docker/docker_runtime.py:644`: An exited container keeps its port while its lock is
  gone: when it is started again the port may be another's, and the start fails.
  [`RuntimesAccounted`]
* `runtime/impl/docker/docker_runtime.py:606`: A container that failed to start on a taken port
  stays in state created; a later attach only starts exited ones and waits 120 seconds for nothing.
  Modelled (Creates, Attaches, NeverAnswers); the code promises nothing for it.
* `runtime/impl/docker/docker_runtime.py:607`: On a name conflict the container of the same
  conversation is removed although another process may be using it. Modelled (Creates); names are
  shared by design.
* `runtime/utils/port_lock.py:230`: cleanup_stale_locks, which removes lock files of dead processes,
  has no caller. A lock of a dead process is released by the kernel; only its file stays.
* `runtime/impl/action_execution/action_execution_client.py:336`: The client gives up on an action
  while the server goes on with it; the next action queues behind it, and a late answer must not be
  taken for the next one's. [`ActionsSeeEarlierOnes`]
* `runtime/action_execution_server.py:463`: Jupyter's directory is reset only when the shell's
  differs from the one it was last put in: after a cell changes directory it runs elsewhere than the
  observation says. [`ActionsSeeEarlierOnes`]
* `runtime/action_execution_server.py:253`: A browser that failed to start is never started again:
  browse returns before _ensure_browser_ready can restart it. Modelled (Browses) as an error for
  good; the code has no path to check.
* `runtime/impl/local/local_runtime.py:385`: Each connect makes up for the missing warm servers
  without counting those that threads are making: more than desired are started.
  [`RuntimesAccounted`]
* `runtime/impl/local/local_runtime.py:500`: A runtime that is closed late takes the conversation's
  current server out of the table, though it may be another runtime's. [`RuntimesAccounted`]
* `runtime/impl/local/local_runtime.py:545`: delete of the last conversation ends the warm servers,
  but a thread may add one right after. [`RuntimesAccounted`]
* `runtime/impl/local/local_runtime.py:290`: When a warm server's directory cannot be removed the
  server was already taken off the list: it runs on and nobody ends it. [`RuntimesAccounted`]
* `runtime/impl/remote/remote_runtime.py:129`: A session closed while connect is under way has no
  sandbox to stop yet; the thread goes on and starts one. [`RuntimesAccounted`]
* `runtime/impl/remote/remote_runtime.py:578`: A request through an attached runtime wakes a paused
  sandbox which no runtime pauses again. [`RuntimesAccounted`]
* `runtime/impl/kubernetes/kubernetes_runtime.py:387`: The clean-up ends at the first resource that
  is missing and leaves the rest, and a failed creation leaves what it made: the names are taken for
  the next start. [`RuntimesAccounted`]
* `runtime/impl/kubernetes/kubernetes_runtime.py:642`: The volume found by _pvc_exists is deleted by
  a delete before the pod is created. [`RuntimesAccounted`]
* `runtime/impl/kubernetes/kubernetes_runtime.py:95`: The shutdown listener is registered once, by
  the first runtime, and cleans up that runtime's conversation only. Process exit is outside the
  model.
* `runtime/base.py:574`: Moving the user's pre-commit hook: an ErrorObservation has no exit code and
  is taken for success, so the new hook may be written over the user's. [`SandboxContents`]
* `runtime/base.py:516`: The setup script is published as an event, which the subscribed runtime
  executes, and run directly as well: it runs twice. The behaviour is in the model (RunsScript,
  ScriptEventRuns); no text of the repository promises one execution.
* `runtime/impl/cli/cli_runtime.py:385`: A command that ends before its first line was read leaves
  `line` unbound: the error is swallowed and its output lost. [`ShellsAnswer`]
* `runtime/impl/cli/cli_runtime.py:373`: select looks at the pipe while earlier lines wait in the
  stream's buffer: they must still come out, once and in order, when the command ends or times out.
  [`ShellsAnswer`]
* `runtime/impl/cli/cli_runtime.py:386`: readline after the loop has no timeout: a background
  process that keeps the pipe open, or a command that ignores SIGTERM, blocks the runtime for ever.
  The model blocks there too (CanRead); that the call returns is false under every fairness the code
  gives.
* `runtime/base.py:303`: A refreshed token is exported to the running shell; .bashrc already has a
  line for it and keeps the old one, which every new shell reads. [`UserKept`]
* `runtime/builder/docker.py:131`: Between the checks and the list of missing names another runtime
  builds the same image: every name is taken, tags[0] raises and the start fails although its image
  is there. [`SandboxContents`]
* `runtime/builder/remote.py:80`: A build that is not done after half an hour raises here and goes
  on at the server, which tags its image later. [`SandboxContents`]
* `runtime/utils/runtime_build.py:346`: The tags do not hash extra_deps: a request with other extra
  packages is given, or builds on, an image without them. The tags say nothing of extra packages, so
  no tag is false; the model keeps them as `extras` of an image.
* `runtime/utils/runtime_build.py:289`: skills/ and bins/ are copied into the image and not hashed:
  a change of them alone reuses the old image. A gap of the source hash, not a matter of order: the
  files that are hashed are one version in the model.
* `runtime/utils/runtime_build.py:184`: The sources are hashed first and copied after the lookups:
  an edit in between makes an image of other sources under the tag. The model takes the checkout as
  fixed while an image is built, as it is on a server.
* `runtime/browser/browser_env.py:65`: A browser that is slow to start is closed with its pipe: the
  retries of the decorator start a process that cannot be handed the closed pipe, and the first of
  them ends the attempt. [`ToolsAnswer`]
* `runtime/browser/browser_env.py:123`: A browser process that died is not noticed: every later step
  waits its whole time, and nothing starts another. What the code does, not a race: in the model a
  dead process stays dead and StepTimesOut is all that is left.
* `runtime/action_execution_server.py:649`: A browse while the browser is still starting is answered
  that it is not supported: self.browser is looked at before _ensure_browser_ready, which would have
  waited. The model's StepSends is only enabled once the browser is ready; the refusal changes
  nothing.
* `runtime/plugins/jupyter/execute_server.py:217`: The reply ends the wait; what the cell printed
  comes on another channel and may come after it. [`ToolsAnswer`]
* `runtime/plugins/jupyter/execute_server.py:234`: A timed out cell may ignore the interrupt and go
  on: its output and its reply come while the next cell is waited for, which runs only after it.
  [`ToolsAnswer`]
* `runtime/plugins/jupyter/execute_server.py:182`: The web socket is lost in the middle of a cell:
  the reader waits on until the heartbeat, and what was on the way is missing from the answer.
  [`ToolsAnswer`]
* `runtime/plugins/jupyter/__init__.py:133`: A gateway that ends at its start closes its output:
  readline returns nothing and the loop goes on for ever, so the action server never comes up. The
  start of the gateway is not in the model, which begins with a gateway that listens.
* `runtime/action_execution_server.py:930`: An error while the proxy is remounted is answered with
  success and a log: the client takes the servers for known and never asks again. [`ToolsKept`]
* `runtime/mcp/proxy/manager.py:124`: The earlier mount is looked for as a string among the routes
  and never found: the first proxy goes on answering, and a session that comes back to the sandbox
  with other servers has the tools of the old ones. [`ToolsKept`]
* `runtime/impl/action_execution/action_execution_client.py:447`: The configuration is copied one
  level deep and the proxy is added to the list both share: every call adds it again, and connects
  once more than the call before. Part of the model (WithProxy adds to sseList); the growth has no
  bound in the code and the calls of a session are bounded in the model.
* `runtime/plugins/agent_skills/file_ops/file_ops.py:149`: When the file ends exactly one window
  after the line that was scrolled to, the start is pushed one line past it: in a file of 201 lines
  open_file shows 1 to 100, scroll_down 102 to 201, and line 101 is never shown. [`ToolsAnswer`]
* `runtime/plugins/agent_skills/file_ops/file_ops.py:266`: The line kept from the last call is
  clamped to the file as it is now: a file that became shorter, or was removed and written again,
  must still give a window inside it. [`ToolsAnswer`]
* `runtime/utils/edit.py:392`: What becomes of the write is not looked at: an edit whose write
  failed is answered as done. [`ToolsAnswer`]
* `runtime/utils/edit.py:404`: Every correction may ask for drafts and for corrections of its own:
  the calls of the model for one edit are bounded by correct_num and the retries of a draft only
  together. [`ToolsAnswer`]

**server**

* `server/services/balance_manager.py:135`: add_tokens reads, adds and writes in the agent's thread
  while the flush zeroes the same entry in the server's. [`NoOvercharge`]
* `server/services/lumio_service.py:188`: An error while reading the sequence number yields 0, which
  is below the real one: the submission must be refused and retried, not charged twice.
  [`OneDeductionPending`, `NoOvercharge`]
* `server/services/balance_manager.py:178`: refresh_balance stores a balance fetched before a flush
  after the flush lowered the cached one. The cache is only a display and an admission check; the
  charge itself is covered by NoOvercharge, which does not depend on it.
* `server/services/balance_manager.py:49`: The price is read once at initialisation; the contract's
  may change and the admission check goes on with the old one. The chain charges with its own price;
  Billing lets the price change at any time in every run, so NoOvercharge holds in tokens whatever
  the price.
* `server/services/balance_manager.py:21`: The accumulators are in memory: a restart forgets the
  usage not yet flushed. [`NoOvercharge`]
* `server/conversation_manager/standalone_conversation_manager.py:220`: wait_all cancels a close
  that waits for a start longer than 90 s: _closed is set, the session has left the table, and
  nothing is released. LeakOnlyWhileStarting excludes the cancelled close: the code promises nothing
  for it.
* `server/conversation_manager/standalone_conversation_manager.py:470`: A client joins while
  _close_session disconnects the others: it finds the session in the table, is not on the list and
  stays registered to a conversation without a session. Reachable in the model (StopAndRejoin); its
  messages raise no_conversation until it reconnects, and the code promises nothing else.
* `server/session/agent_session.py:247`: runtime.close runs later in a thread pool and stops the
  container by the conversation's name, which a session started in between may be using.
  RuntimeStops has the step; the name of the container is shared by design and no check exists that
  a property could test.
* `server/listen_socket.py:86`: Events added after the replay and before the socket enters the room
  reach neither the replay nor the room. Events are not part of Sessions; the client asks again with
  latest_event_id when it reconnects.
* `server/routes/manage_conversations.py:615`: The deletion of a conversation commits the removal of
  the sandbox's row although stopping the runtime failed: the runtime goes on without a row.
  [`SandboxBooks`]
* `server/routes/manage_conversations.py:591`: Deleting a sub-conversation deletes the sandbox it
  shares with its parent. The behaviour is in the model (DeletesSandbox); that the parent's sandbox
  survives is nowhere promised.
* `server/session/agent_session.py:570`: The template command answered by an ErrorObservation is
  reported to the agent as success. [`SandboxContents`]
* `server/services/conversation_stats.py:50`: A service restored and not made again in this session
  must not lose its metrics when the conversation is saved. [`ConversationsKept`]
* `server/conversation_manager/standalone_conversation_manager.py:574`: The callback reads the
  metadata, asks a model for a title and writes the whole record: a rename by the user meanwhile is
  overwritten by the generated title. [`ConversationsKept`]
* `server/routes/mcp.py:82`: The tool that records a pull request writes back all it read: the
  title, branch or tokens written meanwhile are lost. [`ConversationsKept`]
* `server/routes/manage_conversations.py:649`: A writer that read before the deletion makes the
  metadata file again: a conversation without events is listed. [`ConversationsKept`]
* `server/routes/manage_conversations.py:816`: A start that looked the record up before a deletion
  starts a loop for a conversation that is gone. [`ConversationsKept`]
* `server/services/conversation_service.py:121`: The record is saved before the settings and the key
  are looked at: a request that is refused leaves a conversation in the list. [`ConversationsKept`]
* `server/routes/manage_conversations.py:437`: Both sources advance by a page though the cut at the
  limit dropped part of what they gave: the dropped conversations are on no page.
  [`ListsAndPatchesKept`]
* `server/routes/secrets.py:209`: Every request loads the file, waits, and writes all of it back: of
  two that overlap the first one's change is lost. [`UserKept`]
* `server/routes/secrets.py:74`: The message of an earlier token is overwritten by that of a later
  one in the same request: an invalid token is stored beside a valid one. [`UserKept`]
* `server/conversation_manager/docker_nested_conversation_manager.py:636`: An exited container is
  started again and nothing is posted to its server: the conversation is reported as running.
  [`SandboxBooks`]
* `server/conversation_manager/docker_nested_conversation_manager.py:160`: Two starts check the
  limit before either has a container: more run than allowed; of one conversation, the second
  removes the first one's container. [`SandboxBooks`]
* `server/conversation_manager/docker_nested_conversation_manager.py:334`: close_session appends
  /api/conversations/<id> to an address that ends in it: the graceful stop is refused every time and
  the container is stopped at once. In the model as it is (BoxStopped); the comment at line 317
  promises a graceful stop first.

**storage**

* `storage/batched_web_hook.py:214`: A batch is dropped after its third failure with a log line.
  [`HookCatchesUp`]
* `storage/batched_web_hook.py:86`: Two writers of one path change the store in one order and queue
  in the other. [`HookCatchesUp`]
* `storage/conversation/file_conversation_store.py:96`: The number of conversations counts those
  that cannot be loaded: the last pages may be empty. [`ListsAndPatchesKept`]
