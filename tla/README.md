# OpenZosma in TLA+

OpenZosma is a multi-user agent platform.  Chat front ends (web dashboard over a WebSocket,
A2A over HTTP, Slack) talk to a gateway; the gateway hands turns to an orchestrator that keeps
one sandbox (an OpenShell pod) per user; a sandbox server inside the pod runs agent sessions
and streams their events back.  These modules model the parts of the system whose correctness
depends on the order of events.  Everything runs on Node.js: code between two awaits is atomic,
and calls interleave at every await.  That is the grain of the actions below.

## 1. Inventory

| Component (source) | State it keeps | Operations | Talks to | Hard behaviour |
|---|---|---|---|---|
| SandboxManager (`packages/orchestrator/src/sandbox-manager.ts`, `health.ts`; rows in `packages/db/src/queries/user-sandboxes.ts`; CLI in `packages/sandbox/src/client.ts`) | `sandboxes` cache, `locks`, `allocatedPorts`; rows of `user_sandboxes`; pods and port forwards of OpenShell | ensure, refresh, suspend, destroy, health check | Postgres, OpenShell CLI, `GET /health` | calls interleave at every await; a restart loses cache, locks and ports but not rows and pods; every CLI or database call can fail |
| OrchestratorSessionManager (`packages/orchestrator/src/session-manager.ts`, `sandbox-http-client.ts`) | `sessions` registry, `activeSessions` of a SandboxState | createSession, deleteSession, sendMessage (with one retry), steer, cancel, file and knowledge-base calls | SandboxManager, sandbox server | sandbox suspended, lost or replaced while a session is registered |
| Sandbox server (`packages/sandbox-server/src/agent.ts`, `server.ts`, `file-scanner.ts`) | sessions, turn controllers, file snapshots, labels | create, message (SSE), cancel, delete, artifact scan | agent provider, workspace files | overlapping turns of one session, cancellation racing the end of a turn |
| Gateway (`packages/gateway/src/ws.ts`, `session-manager.ts`, `app.ts`) | `activeTurns` by session, sessions, emitters, `initLock` | message, cancel, steer, socket close; create/delete session; subscribe | orchestrator or local agent provider | a new message aborts the turn before it, whose clean-up comes later; one socket closing while another streams |
| Pi agent turn (`packages/agents/src/pi.agent.ts`) | event queue, waiting resolver, done, toolRunning, idle timer | sendMessage (generator), enqueue, abort, dispose | LLM SDK callbacks | producer/consumer hand-off between callbacks and a generator; watchdog |
| A2A executor (`packages/a2a/src/executor.ts`, `packages/gateway/src/a2a.ts`) | abort controllers by task | onMessageSend, onMessageStream, cancelTask, onCancel | gateway sessions | two messages on a task; a consumer that stops reading |
| Slack adapter (`packages/adapters/slack/src/index.ts`) | thread-to-session map, per-session queues, busy set | handleMessage, drainQueue, processMessage | gateway sessions, Slack API | messages arriving while a turn runs or while the session is being created |
| pi-harness (`packages/pi-harness/src/*`) | sessions with last activity; the terminal's controller and flags | create, delete, message, idle sweep; lines, Ctrl+C, session switch in the terminal | agent provider | sweep racing a turn, a line typed over a reply |
| Memory (`packages/zosma-mem/src/*`) | entities, archive, co-access graph, one engine per agent session | retrieve, reinforce, ingest, collect | files | engines with copies of one directory's state |
| Web chat stream (`apps/web/src/components/organisms/chat-view/hooks/use-chat-stream.ts`) | streaming flag, socket ref, queued messages, segments | send, steer, queue, stop, drain | gateway WebSocket | callbacks of an older socket after a newer one was opened; effects that run again |
| Knowledge base (`apps/web/src/components/organisms/knowledge-base/*`, `apps/web/src/app/api/knowledge-base/*`, `apps/web/src/lib/knowledge-base.ts`, sandbox server) | directory on the web host, copy in the sandbox, content cache and debounced save of the editor | type, create, rename, move, delete, save, sync, pull | gateway, sandbox | syncs nobody awaits or orders; one debouncer for all files; a sandbox that starts or stops meanwhile |
| User files (`apps/web/src/app/(application)/files/page.tsx`, `apps/web/src/hooks/use-files.ts`, sandbox server's user-files routes) | cached listings, directory shown; files in the sandbox | upload, folder, rename, delete, navigate | gateway, sandbox | listings fetched before and delivered after a mutation |
| API keys, RBAC, quota checks, other queries, integrations, skills, reports, installer, logger, gRPC stubs, remaining web UI | database rows or none | request handlers | Postgres, external APIs | mostly single statements and I/O |

What makes each correct, in one line each:

* **SandboxManager** - one sandbox per user; a client is routed to its own user's sandbox; ports
  are neither leaked nor shared; the row tells the truth after every ending; every lock is released.
* **Orchestrator sessions** - a registered session is served by the user's live sandbox; a prompt
  is delivered at most once although sendMessage retries.
* **Sandbox server, gateway, A2A** - cancel reaches the turn that runs; one turn per session.
* **Pi agent turn** - every event reaches the consumer in order, and the generator ends.
* **Slack** - turns of a session are sequential and in arrival order; no message is stranded;
  one session per thread.
* **Harness** - the sweep spares sessions in use.
* **Memory** - a fact is archived only after the collections that the configuration asks for.
* **Web chat** - a reply keeps its own segments, stop finds its socket, a queued message is sent.
* **Knowledge base, user files** - what the page shows and what the sandbox holds agree once
  everything under way has ended, or a named event explains why not.

## 2. Plan

Written, in this order: `SandboxManager` over `KeyedMutex`, `PiAgentTurn` over `EventStream`,
`SlackQueue` (a second implementation of `KeyedMutex`), `SandboxAgent`, `GatewayTurns`,
`OrchestratorSessions`, `GatewaySessions`; then `ChatStream` on top of `GatewayTurns` (the web client and
the gateway's socket handler as one system), `TaskExecutor`, `Harness`, `Memory`, `KnowledgeBase`, `UserFiles`.
Then proofs (section 5): by now every invariant and every action property that a run
checks is a theorem, and so are the three refinements (`SandboxManager` and `SlackQueue` of `KeyedMutex`, `PiAgentTurn` of
`EventStream`) and the one of `ChatStream` to `GatewayTurns`.

Left, in this order:

1. `TurnChain`: `GatewayTurns` composed with `SandboxAgent` (the gateway's controller and the
   sandbox's controller of one turn, and the SSE connection between them).  Both ends are
   modelled alone today; a cancel that is true at one end and not at the other is not.
2. Proofs: a safety core for `QueueMoves` (what the view has queued has a reply whose end will send it), as `LockOwned`
   and `PromiseOwned` are for `LockReleased` and `LockPasses`; the type invariant of `UserFiles`.

## 3. The modules

In every module an action is the outcome of one awaited call (or one callback, one incoming
message, one timer) together with the synchronous code up to the next await; the request of the
awaited call was issued by the action before.  Operators named as mutants are single-fault variants
of the definition that follows them; they are not part of any specification.

### `KeyedMutex`, `EventStream` (abstract)

What two kinds of component promise.  `KeyedMutex`: at most one agent works on a key, and a crash
frees all.  `EventStream`: what is sent is received once and in order, and the stream closes only
when everything was received, or the consumer has left.

### `SandboxManager` (`packages/orchestrator/src/sandbox-manager.ts`)

| Variable | Code |
|---|---|
| `sandboxes`, `locks`, `allocatedPorts` | the three fields of the class; lost by `Restart` |
| `rows` | the row of `user_sandboxes` of each user; survives |
| `pods`, `forwards` | OpenShell sandboxes by name, and the sandbox each localhost port leads to; pods survive, a restart keeps all forwards or loses all |
| `calls` | calls in flight: the await each is at, its user and what it read |
| `faults`, `restarts` | bounds |

Actions: `StartEnsure`/join and the steps of `ensureSandboxInternal`, `resumeSandbox`, `createSandbox`
and their catch blocks; the steps of `suspendSandbox`, `destroySandbox`, `healthCheckAll` (one
user's iteration each; ticks may overlap) and `refreshPortForward`; a pod that becomes ready or
dies, a forward that dies, a restart.

Any two calls overlap as they like.  `SandboxHistory` adds two histories and nothing else: `crossed`, the users of whom
two calls were at work at once, one of them without the lock (suspension, destruction, refresh, the aftermath of a failed
probe), and `abandoned`, those of whom destroySandbox met a creation or could not delete the pod.

Abstractions.  A query's read and its continuation are one step.  Names are pairs of a user and one
of `Gens` suffixes; without a fresh name the insertion rejects.  `Refs` are the identities of
`SandboxState` objects, which `===` compares.  A CLI call fails in both of the ways the client knows: it rejects, or, in
`get`, it exits with 1, which the client reads as "gone" (client.ts:128-137); a CLI that throws while `waitReady`
polls rejects the creation.  `forwardStop` of the configured agent port in destroy's
lookup path touches no port of the range.  Best-effort uploads, the creation hook and the injected
environment leave no state in the manager.  `lastActivityAt` and `activeSessions` belong to
`OrchestratorSessions`, so here suspension may begin whenever a sandbox is ready.  A detached
`sandbox create` process of the CLI survives a restart.  A forward to an occupied port fails.

### `OrchestratorSessions` (`packages/orchestrator/src/session-manager.ts`, `sandbox-http-client.ts`)

`registry` is the `sessions` map; `cached`/`tracked` are the user's `SandboxState` (by number) and its
`activeSessions`; `box` says how often the live pod was told to create each session; `calls` are the
calls in progress.  Actions: createSession, deleteSession, destroyUserSandbox, sendMessage with its
refresh and single retry, the file operations that ensure a sandbox; idle suspension and a failed
health probe on the manager's side.  One user; `SandboxManager` is reduced to the cached state and
the pod behind it, and `Ensure` gives the cached state, a reattached one or a new pod.  Idle
suspension happens only when calls are idle or stream events, because the idle timeout is longer
than a creation.  An HTTP failure may strike before or after the sandbox handled the request.  A
stream that was seen to deliver does not record which attempt delivered it.  The write of touchSandbox may reject, which
ends the call.

### `SandboxAgent` (`packages/sandbox-server/src/agent.ts`, `server.ts`, `file-scanner.ts`)

`sessions`, `controllers`, `snapshots` are the maps of the class; `turns` are calls of sendMessage with
the snapshot each compares with; `version` is the workspace, shared by all sessions of the pod, as a
version number per file; `reported`, `owed` and `overlapped` are histories.  Actions: create, message,
disconnect, cancel and delete routes; the scans after a tool call and after the stream, the snapshot kept
for the next turn, a stream that throws or whose consumer leaves at any of its yields, and files being written.  An aborted turn ends through the
normal end of its stream.

### `GatewayTurns` (`packages/gateway/src/ws.ts`)

`activeTurns` is the module-wide map of controllers, `turns` the streamResponse calls in progress,
`open` the sockets, `robbed` a history: the turns whose entry the end of an older turn has removed.  Actions: connect, message, cancel, close, and the end of a
stream (normal, by abort or by an exception: the same `finally`).

### `GatewaySessions` (`packages/gateway/src/session-manager.ts`)

| Variable | Code |
|---|---|
| `orchestrated` | whether the constructor got an orchestrator; chosen in `Init` and fixed |
| `sessions`, `emitters`, `objects` | the two maps; SessionState objects and emitters are numbered, so that a replaced one is told from its successor |
| `begun` | ids in use; locally, ids whose directory holds the knowledge-base link |
| `agents`, `failed` | histories: agents built per id, an agent that could not be built |
| `initLock`, `resolved`, `timers` | the chain of promises, by number, and the 100 ms timers that resolve them |
| `calls` | createSession and sendMessage, by the await they are at, that of the agent's configuration included |
| `subs` | subscribe: its emitter, backlog, promise and signal |

The two modes share sendMessage, the emitters and subscribe and differ in createSession.  A second local creation
of an id fails at the synchronous `symlinkSync`, before it takes a place in the chain; a configuration that cannot
be read rejects the creation there too, and the link stays.  deleteSession and
destroySandbox are their synchronous parts; the orchestrator's part is in `OrchestratorSessions`, and destroySandbox
drops any of the user's sessions, those the orchestrator still knows (330-336).  All sessions
are of one user, message contents and stored messages are left out, the error event of an orchestrator's stream
and the end of that stream are one step.

### `PiAgentTurn` (`packages/agents/src/pi.agent.ts`)

One call of sendMessage: `pc` and `left` are the generator (and its consumer), `queue` and `done` the
hand-off from the callbacks, `toolRunning` and `timer` the watchdog, `signal`/`aborted` the abort paths,
`sdk` and `tools` the external agent loop.  The resolver of the awaited promise is set exactly while
`pc = "awaiting"`.  Events are reduced to five kinds.  The memory context is one await before the
turn; reinforcement and fact extraction come after the turn and are left out.  After agent_end the SDK may retry or
compact and go on (`Resume`), although `done` is set.

### `SlackQueue` (`packages/adapters/slack/src/index.ts`)

`sessionMap`, `queues` and `active` are the adapter's maps; `stage`, `thread`, `session` follow each
message through handleMessage; `drainer` is the message whose handler runs the drain loop's current
item.  Actions: receive, drop (unknown user, failed createSession), look-up and creation of the
session, enqueue with the start of the loop, the turn's timeout, end or exception, up to three refused
replies, and the loop's next item.  `TurnTimeoutEnv` is SLACK_TURN_TIMEOUT_MS, where 0 means the
default of 120000.

### `ChatStream` (`use-chat-stream.ts` over `ws.ts`)

Extends `GatewayTurns`, whose actions are the gateway's end of each frame.

| Variable | Code |
|---|---|
| `calls` | the handlesubmit invocation that uses a socket: saving the message, streaming, storing the reply |
| `ready`, `up`, `down`, `mute` | readyState, frames to the gateway in order, a turn_end on its way back, a turn that ended without one |
| `wsRef`, `streaming`, `queue`, `segs` | the refs and the state of the view; segments are the submissions they belong to |
| `changed`, `due`, `ended` | a save the view has not refetched, the drain effect that has to run, a history |

Actions: submit, queue, steer, stop, the save and its failure, open, frames, turn_end, close, lost connections, the
drain effect, the refetch.  Every conversation has an agent participant (without one nothing is sent); a conversation has
one view; React runs a due effect before the next event of its view; a frame sent on a socket that is not open
is dropped, as the code's readyState test has it.

### `TaskExecutor` (`packages/a2a/src/executor.ts`, `packages/gateway/src/a2a.ts`)

`abortControllers` is the map by task, `requests` where each onMessageSend or onMessageStream is, `contested` a
history.  Actions: receive, createSession's outcome, the first yield, the end of the turn, the consumer that leaves (at the
greeting, before the `try`, or later), cancelTask with onCancel.  An entry made before the first yield leaks
when the consumer leaves there (executor.ts:154); the model has it.

### `Harness` (`packages/pi-harness/src/*`)

`live`, `lastActive` are the server's map and lastActiveAt of its objects, `clock` the minutes at which the
sweep runs, `posts` the message requests, `tui` and `reading` the terminal.  Actions: create, delete, message, sweep; the
terminal's lines, `/new`, `/switch`, `/quit` and Ctrl+C, which in the code aborts the reply and also closes
the readline interface, hence ends the session and the client; a reply whose fetch fails on the network.

### `Memory` (`packages/zosma-mem/src/*` as `pi.agent.ts` uses it)

`facts` with score and belowThresholdCycles, `aged`, `coAccess` per engine and `saved` on disk, `injections` and
`extracts` of the turns in progress, `streak` a history.  Every engine operation is synchronous, hence one step.
Scores are the integral part of the code's, clamped to `MaxScore`; the decay is reduced to "outweighs the score or not".
The relevance of a fact to a message is a free choice.  A new fact that is not a decision scores 0, which is below
the threshold.  Each engine writes its whole co-access graph over what others wrote; dispose is in the
model although nothing in the repository calls it, so that engines live as long as the process.  Turns of one agent
session come one after the other here; the code lets them overlap.

### `KnowledgeBase`

| Variable | Code |
|---|---|
| `local`, `folders` | files and directories under KNOWLEDGE_BASE_PATH |
| `sandbox`, `phase` | the copy in the pod, and whether the pod is off, starting (uploaded to, not cached yet) or ready |
| `wire`, `pull` | fire-and-forget syncs in flight, in any order; what a running "Sync from Agent" has received |
| `cache`, `pending`, `puts` | contentCache, the one save the debouncer holds, saves in flight |
| `behind`, `unsaved` | histories: files on which an excepted event happened |

Actions: type, create, rename, move, delete files and folders, the save and its handler, the syncs and their failures, start of the
sandbox with or without the upload, suspension, the pull in two steps, deletion by the agent.  Contents are
numbers that never repeat; folders are flat.

### `UserFiles`

`files`, `folders` are what is in the pod; `lists` and `fetches` the query cache, `currentPath` the directory shown, `jobs` and
`done` the mutations in flight and answered.  Actions: navigate, focus, a fetch in two steps (read, delivered), the four mutations, their
outcomes and the invalidation on success, changes by the agent, loss of the sandbox.  Folders are made in the root only, the tree of the
side bar and the dialogs are left out.

### `MC*`

Each `MC` module declares the symmetry set of its instance.  Four of them put programs into one run that have nothing
in common but their place in the system: `MCTurnQueues` (`PiAgentTurn`, `SlackQueue`), `MCGateway` (`ChatStream` with
`GatewayTurns`, `GatewaySessions`), `MCAgentHosts` (`SandboxAgent`,
`TaskExecutor`, `Harness`, `Memory`, `OrchestratorSessions`), `MCSandboxClients` (`KnowledgeBase`, `UserFiles`).  There a variable
(`side`, `part`, `host`, `client`) chosen in the initial state says whose behaviour it is, and the others stand still; since the
programs share no state, their products would show nothing more.  The system's true compositions are `ChatStream`
over `GatewayTurns`, and `SlackQueue` and `SandboxManager` over `KeyedMutex`.

## 4. The runs

| Run | Instance | Checks | States |
|---|---|---|---|
| `sandbox_history` | 2 calls, 2 names per user; one user and one port under every overlap, one failure of any kind and a restart, or 2 users and 2 ports in untroubled order, pods dying | `PortAccounting`, `ClientReachesOwner`, `RowTellsTruth`; `OnePodPerUser` | 701,492 |
| `sandbox_live` | 1 user, 2 calls, every overlap, one database/CLI/tunnel failure or one restart, dying pods, fairness | `OneLineage`, `LockOwned`, `OneCreationPerUser`, `LockReleased` | 362,970 |
| `sandbox_ports_probe` | 2 users, 2 calls, probe failures only | `RoutedToOwner` is violated | |
| `turn_queues` | agent turn: 2 tools at once, 3 events, 1 timeout; Slack: 3 messages of one thread, 3 sessions; fairness | `NoLostWakeup`, `Watched`, `Delivery`, `TurnEnds`; `NoStranded`, `OneTurnPerSession`, `Answered` | 438,098 |
| `agent_tools` | agent turn: 2 tools, 2 events, 1 timeout, fairness | `ToolsUndisturbed` is violated | |
| `slack_thread` | 2 messages of one thread | `OneSessionPerThread` is violated | |
| `agent_turns` | 2 sessions, tasks or agents, 2 turns, requests or calls; 1 file written twice; a limit of 1 session, an idle timeout of 1 minute in 2; 2 facts, archived after 2 collections; 1 failure, 2 sandbox states | `Cancellable`, `WritesAnnounced`, `NothingSkipped`; `CancelReaches`; `TurnKeepsSession`; `PruneEarned`; `RegisteredServed`, `NoReplayAfterEvents` | 1,073,646 |
| `gateway` | sockets: 1 view, 2 sockets, 2 turns, a queue of 1; sessions: 2 ids, 2 calls, 1 subscriber, 4 objects, a backlog of 2, both modes; fairness | `RegisteredIsLive`, `OneLiveTurn`, `NoOrphanTurn`, `RepliesUnmixed`, `StopReachable`, `QueueMoves`; `OneInitialiser`, `PromiseOwned`, `OneAgentPerSession`, `SubscribersHear`, `SubscriberAwake`, `LockPasses`, `SubscriptionEnds` | 362,114 |
| `web_drain` | 1 view, 2 sockets, 2 turns, a queue of 2 | `OneDrainPerEnd` is violated | |
| `gateway_close` | 2 sessions, 2 sockets, 4 turns | `CloseSparesOthers` is violated | |
| `sandbox_clients` | knowledge base: 2 folders, 1 name, 3 contents, 2 syncs in flight, 1 rare event; files: 2 names in the root, 1 in a folder, 2 mutations, 1 odd event | `Mirror`, `EditKept`, `ListShown` | 1,868,036 |
| `orch_retry` | 1 session, 1 call, 1 failure | `PromptRunsOnce` is violated | |

**Bounds.**  Every conflict in the code is between two calls, two turns, two sockets or two messages
of one key, so two of each (three messages, so that two wait behind one; four turn slots, so that two
sessions can each have an old and a new turn) produce each interleaving once.
A view needs two sockets and two turns for a late callback of the older to meet the newer; a queue of two is needed
only for the double drain.  Two collections are the configured gcPruneCycles.  Two syncs or two mutations can cross, a third is one more pair.  Two users and two ports let a
port move from one user to the other.  Two names per user let a new sandbox exist beside an old pod.
Three object identities are enough because a user has one cached state and each call keeps at most one more.
`sandbox_history` has a CONSTRAINT, `Focus`: TLC goes on from a state only while nothing has crossed or failed, or while one
user and one port are in use.  Beyond it the first three properties say nothing, and `OnePodPerUser` speaks of each user alone.
`sandbox_live` has one as well, `OneOutage`: a failed call, a restart and a pod found dead are each met alone.  It is sound
for the liveness property, because no fairness obligation rests on a failure, a restart or a dying pod: whatever the
constraint cuts, every fair step has another outcome that stays inside it.
Symmetry is used only in runs of safety properties.

**Deadlock** is checked except in `turn_queues`, `agent_tools`, `agent_turns`, `orch_retry`, `gateway` and `sandbox_clients`: a turn
ends for good, the bounds on sandbox states, contents and mutations stop the calls they bound, and when building an
agent has thrown the later local creations wait for ever (the promise of session-manager.ts:188-193 has no
`finally`).  `SlackQueue` has an explicit stuttering action for the state where all messages are over.

**Fairness.**  `sandbox_live`: weak fairness on the steps of each call and on a starting pod, because CLI
and HTTP calls carry timeouts and `waitReady` polls up to a limit.  `turn_queues`, for a turn: the event loop runs what is
ready, an armed timer fires, a tool ends, an aborted agent loop ends and its prompt settles; the LLM
itself owes nothing, which is what makes `TurnEnds` a statement about the watchdog; for Slack: the
handlers' awaited calls and replies settle, the timer fires, a turn whose signal fired ends; no turn has to
end by itself.  `gateway`, for sockets: a due effect runs, saves, frames and socket events that are under way arrive, a turn's stream ends; the
user owes nothing; for sessions: a resolved promise resumes its waiter, the 100 ms timer fires, the integrations
are read or fail, and a connected SSE client reads on; agents, turns and clients owe nothing.  The other runs
check safety only and assume no fairness.

**What the properties except, and why.**

* `PortAccounting`, `ClientReachesOwner` and `RowTellsTruth` are stated up to the first outage, restart or crossing of two
  calls of a user (`Untroubled`; a dying pod is no outage): each has its
  counterexample.  After a restart `recoverPort` may hand out a port that is taken; a database
  failure after `allocatePort` leaks the port; a failed `suspend` leaves row, pod and cache in disagreement; a
  failed probe is the finding of `sandbox_ports_probe`; a suspension deletes the cache entry that an ensureSandbox begun
  in its awaits has just set (223), so that the call resolves and nothing is ready.
* `OnePodPerUser` excepts users of whom a destruction met a creation, whose row it deletes under the pod that starts, or
  could not delete the pod, an error it ignores.
* `Cancellable`, `WritesAnnounced` and `NothingSkipped` except sessions whose turns overlapped: the first turn to end deletes
  the controller of the other.
* `OneLiveTurn` and `NoOrphanTurn` speak of every session, whatever its clients send, but not of a turn whose entry the end of
  an older, aborted turn removed (`robbed`, ws.ts:98): neither a cancel nor the next message nor a close finds it.
* `RegisteredServed` holds until a probe fails, the sandbox is destroyed or a session is deleted while
  it is created; each of the three leaves registered sessions without a sandbox that knows them.
* `TurnEnds` excepts a consumer that leaves while the LLM hangs, and an SDK that goes on after agent_end:
  the `finally` clears the timer and then awaits the prompt.
* `LockPasses` excepts chains in which building an agent has thrown.  `SubscribersHear` speaks of subscribers and
  turns that found the session state that is still there: deleteSession drops the emitter, and a subscriber
  that stays listens to one nobody uses.  In orchestrator mode a second creation of an id replaces
  state and history of the first; no property promises otherwise.
* `RepliesUnmixed` and `StopReachable` except submissions during which another one of the view streamed or its socket was not closed
  yet: all share one `segmentsRef` and one `wsRef`.  `QueueMoves` excepts a reply whose turn ends without a
  turn_end: the promise of handlesubmit waits for one of turn_end, error and close (318-322).
* `CancelReaches` excepts tasks that several requests had at once and requests that still create their session.
* `TurnKeepsSession` speaks of turns younger than the idle timeout; a longer one loses its session, because
  lastActiveAt is written at its start and end only.
* `PruneEarned` counts collections of all engines together: several sessions may archive a fact within
  one interval.  Feedback on a fact that is archived during the turn is lost.
* `Mirror` excepts files whose syncs crossed, whose sync or upload failed, whose deletion met a starting sandbox, that the
  agent changed, or whose newer change a pull met.  `EditKept` excepts files whose save was forgotten for that of another file, crossed
  another or failed, that were created, renamed or moved while a save was to come, and those a pull changed under the editor.
* `ListShown` excepts directories changed by others, a failed fetch, a lost answer, and fetches that read before a mutation and
  are delivered after its success where invalidation does not start them again (first fetches, directories left).
* A signal that fires before the listener is attached (pi.agent.ts:449) aborts nothing; a line typed over a reply in the terminal
  leaves the second reply without a controller (tui.ts:522), and Ctrl+C also ends the client; SLACK_TURN_TIMEOUT_MS=0 means the default
  (index.ts:17 says it disables the timeout).  The models have all this, no property promises otherwise.

**Disagreements between code and comments** (the six violated runs): a probe failure frees a port whose
forward lives on (`sandbox-manager.ts:316` against 709-713); two first messages of a Slack thread create two
sessions (`index.ts:507` against 231); a closing socket aborts the turns of all sockets (`ws.ts:74` against 72-73);
a retried sendMessage can run a prompt twice (`session-manager.ts:387` against 388); of two tools at once the first to end lets the
watchdog abort the other (`pi.agent.ts:218` against 209); one end of a reply can drain
two queued messages (`use-chat-stream.ts:404` against 397).

## 5. The proofs

All theorems hold for every value of the constants, under the named assumption of the module they are about
(types of the bounds, and that `None` is none of the values it stands beside); a further hypothesis is named with its theorem.
Each inductive invariant of `SandboxSerialProofs` and the modules after it was also checked by TLC on the instance of its run.

**`SandboxManagerProofs`.**  `TypeCorrect`: `Spec => []TypeOK`, one lemma per action.  `EnsureIsMutex`:
`Spec => OneCreationPerUser`, the refinement of `KeyedMutex`.  The inductive part is `LockInv`: a call
inside ensureSandboxInternal is the one whose promise the lock map holds for its user.  From it, each step of a call
keeps, acquires or releases the set of creators of a user.

In the same module, `LineageCorrect`: `Spec => []OneLineage`.  `OneLineage` alone is not inductive:
a write to the row of a destroyed sandbox might bring the row back, and a cache entry might survive
and become ready under a new row.  `LineageInv` adds `RowNamed` (a row is absent exactly when it has no name),
`CacheNamed` (what is cached has a name, what is ready has an identity), `CallNamed` (calls that write to a row
know its name) and `NotReady` (a creation that has not cached anything runs only while nothing is ready); `LockInv`
makes the creation in it unique.  The steps are grouped by what they do to rows and cache: they shrink them,
advance one call, cache one state, insert one row.

`LockOwnedCorrect`: `Spec => []LockOwned`, the safety core of `LockReleased`.  A held lock belongs to a creation in progress for
that user, and whoever joined waits for one; what liveness adds is only that such a creation goes on.  `LockOwned` is inductive with
`TypeOK`.

**`SandboxSerialProofs`** (extends the former) is about the properties of `SandboxHistory`.  No theorem restricts which calls run, when
they overlap or what fails: whatever is excepted is in the property, as a history of what has happened.
The argument has three layers.  Until calls have crossed, one call at a time works on a user's sandbox (`Apart`, with
`LockInv`), and that call, the cache and the row speak of one sandbox (`Rooted`).  `PodInv`: a live pod of a user not `abandoned`
is the one the row names, and the
row is deleted only after its pod is gone; it gives `OnePodCorrect` under every overlap, failure and restart.
`Tidy` says, for each user, what cache, row,
pod and tunnels look like at each await of the call at work, and that each allocated port has one holder (`PortsTidy`);
it holds while `Untroubled`, which the properties themselves say.  The inductive invariant is `TidyInv`, the conjunction of
the three, each under its own condition; `PortAccountingCorrect`, `ClientReachesCorrect` and `RowCorrect`
follow.  Each step of a call is proved against one local obligation (`Owed`, `Tidily`), and
one lemma carries it to the other users.

**`AgentHostsProofs`.**  One inductive invariant for each of the five programs of `MCAgentHosts`; a program that does not run
stands still in its initial state, so it is an invariant of `HostSpec` too.
* `TaskInv`: a task that was not contested has one request at work, which is aborted or owns the task's entry.
  It gives `CancelCorrect` (`CancelReaches`).
* `HarnessInv`: the entry of a running turn was active no earlier than the turn began, and is still the session's unless it was removed
  or the turn outlived the timeout.  It gives `KeepsSessionCorrect`.
* `MemoryInv`: belowThresholdCycles never exceeds the collections in a row that found the fact too low.  It gives `PruneCorrect`.
* `AgentInv`: a session whose turns never overlapped has one turn; what it owes that turn wrote after its snapshot,
  and what the snapshots of session and turn differ in was announced.  It gives `CancellableCorrect`, `WritesAnnouncedCorrect` and
  `NothingSkippedCorrect`.
* `OrchInv`: how often a prompt may have run at each await of a call (`Shaped`, from which `NoReplayCorrect` follows without
  any exception), and, while undisturbed, that a registered session nobody deletes is hosted and counted, that creations work in the
  cached sandbox, and that none is deleted while created (`Calm`).  It gives `ServedCorrect`.

`HostTypeCorrect` is the type invariant of all five.

**`TurnQueuesProofs`.**  `NoStrandedCorrect` and `OneTurnCorrect` (the refinement of `KeyedMutex`) from `QueueInv`: a session is in `active`
exactly when one drain loop works on it.  `NoStranded` is part of it: the step that ends a loop sees the queue that
the enqueuing handler saw.

**`GatewaySessionsProofs`.**  `SessionsInv` numbers the chain of promises: those before a resolved one are resolved, a timer and
a creation in progress each own one unresolved promise, and no two the same (`Chain`); an id whose directory is not linked has no
agent and no creation (`Once`); whoever holds the state a session has now holds its emitter (`Held`).  It gives
`OneInitialiserCorrect`, `OneAgentCorrect`, `SubscribersHearCorrect`, `SubscriberAwakeCorrect`, of `MCGateway`, whose other part leaves
the sessions alone.  `Counted` bounds the chain: each promise is of a linked directory of its own, and a creation that still reads its
configuration has none.  `PromiseOwnedCorrect`, the safety core of `LockPasses`, needs nothing but the types: until an agent
fails to be built, each promise passes from its creation to its timer to the resolved.

**`ChatStreamProofs`.**  `RegisteredCorrect`, `LiveTurnCorrect` and `OrphanCorrect` for the gateway alone, from `TurnsInv`, which is `RegisteredIsLive` and `OneLiveTurn`
themselves with the types: an entry is that of a turn of its own session, so that aborting it reaches the turn that goes on.
`WebImplementsGateway`: every step of the view, its sockets and the
network is a step of `ws.ts` or leaves its state alone, so the gateway's theorems hold of the composition (`WebTurnsCorrect`).
`RepliesUnmixedCorrect` and `StopReachableCorrect` from `WebInv`: a socket that is not closed is that of a submission, submissions of a view that stream
together know it (`Alone`), and the refs of the view belong to the submission that is alone (`RefHeld`, `Unmixed`).

**`SandboxClientsProofs`.**  `MirrorCorrect` and `EditKeptCorrect` from `BaseInv`.  `Mirror` speaks of files with nothing in flight;
`InStep` adds what makes it last: about a file that is not behind at most one message is on its way, in one copy, with the file's
present content.  A handler that sends several messages keeps this because they are about different files (`Disjoint`);
renaming a folder keeps it because nothing exists under the new name.  `Kept` does the same for the
editor: every save under way carries the editor's text, unless the debouncer holds a later one.  Two lemmas on
bags say what sending and taking a message does to the copies of the others.  `ListShownCorrect` from `PageInv`: while no answer is owed to the
page, what a fetch has read and what the page shows is the directory.

**`PiAgentTurnProofs`.**  `WakeupCorrect` and `DeliveryCorrect` (the refinement of `EventStream`) from `TurnInv`:
while the generator reads, what was sent is what was received followed by the queue; before the turn begins nothing
happens; a consumer that left is past the loop.  `WatchedCorrect` from `WatchInv`: while the generator reads and the
agent is not done, the timer is armed exactly when `toolRunning` is false, and `toolRunning` implies a tool; this needs no
bound on tools running at once.

**Only model-checked**: liveness (`LockReleased`, `TurnEnds`, `Answered`, `QueueMoves`, `LockPasses`, `SubscriptionEnds`),
which speaks of fairness and ENABLED and is beyond the prover; the six refutations, which are counterexamples; the type invariant of `UserFiles`.  That the bounds
of the constants are finite is used by TLC only: no theorem needs it, except where an assumption says so.

## 6. Not modelled

* The chain of one turn through gateway, orchestrator and sandbox server as one system (section 2).
* The quota of sandboxes: it is tested before the awaits of a creation and not at all for existing rows (sandbox-manager.ts:461),
  so concurrent creations may exceed it; the model has the error, no property promises the limit.
  `packages/orchestrator/src/quota.ts` is called by nothing.
* The commit indexer and reindexing of the memory package: no caller outside its tests.  `attentionWeight` of its decay is unused.
* Handlers cached per agent configuration in `packages/gateway/src/a2a.ts`, the agent card, a2a-js's task store.
* Skill routes, artifact copies and labels of the sandbox server, argument building and output parsing of the
  OpenShell client, document reports, connectors: stateless I/O.
* Authentication, API keys, RBAC, settings and the remaining queries: single statements per request.
* The attachment picker of the chat, which keeps its selection when the folder changes; the mark of agent-made files in the
  side bar (files/page.tsx:107), which compares paths with and without a leading slash.
* Installer, logger, one-shot CLI commands, the gRPC package and the SDK (stubs), the remaining React components: no
  state shared between actors.
