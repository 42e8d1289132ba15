# ShadowFlow backend: TLA+ models and proofs

ShadowFlow runs multi-agent work from a browser. This project models the parts
of its two backends where concurrency, failure and recovery live. In the Node
backend: how a *run* is started once, logged, streamed to any number of views,
persisted, cancelled and recovered; how a tool call of a model is approved; how
a group chat's team runs its graph of members, waits for a human, sends work
back and shows it; and how a workflow is scheduled. In the Python backend: how a
run walks through its workflow, waits at approval gates, is paused, rejected,
resumed from checkpoints and survives a restart; and how a breaker keeps a failing
memory from holding up its agents. Paths are relative to
`src/backend/node/src/` unless they start with `src/`; `service.py` and
`server.py` are `src/backend/python/shadowflow/runtime/service.py` and
`src/backend/python/shadowflow/server.py`, and `circuit_breaker.py` is in
`runtime/memory_bridge/` there.

Either backend is one process with one event loop. A handler runs without
interruption between two `await`s, so an action of a model is one such stretch
with all the calls it makes. What interleaves is handlers, pipelines parked at
awaits, timers, the file system, clients, and the death of the process.

## 1. Inventory

| Component | State | Operations | Talks to | Hard behaviour | What makes it correct |
|---|---|---|---|---|---|
| **Run event store** `lib/run-event-store.ts` | `pending`, `timers` (per run id), `<id>.json`, `<id>.json.tmp` | `save` (debounced), `remove`, `flush`, `loadAllSync`, `loadOneSync` | called by the bus | two system calls per flush, fire-and-forget unlink, crash between any two steps | a reader gets no file or a whole snapshot; the store is an atomic cell |
| **Run event bus** `lib/run-event-bus.ts` | per run: status, ring buffer, `nextEventId`, `started`, abort controller, clients, waiters; cleanup timers | `ensure`, `claimStart`, `emit`, `attach`/detach, `finish`, `cancel`, `shutdownActive`, `setExit`, `wait`, `reset`, cleanup, `hydrateOne`, hydration | routes, gateway runs, group chat; persists through the store | reconnects against eviction and reset, the sweep of open cards, TTLs, restart | no retained record is missed or repeated, nobody hangs, a run that is over replays to a settled timeline and keeps its outcome |
| **Run sessions** `routes/runs/run-sessions/{index,registry}.ts`, `lib/session-store.ts`, `storage/run-index.ts` | session map and files, run index rows, the pipeline's locals | `POST /`, `GET /:id/stream`, retry, resume, abort, `cancelRunSession`, the pipeline | bus, generator, critic, git, sqlite | pipelines hold only the id; retry while one is parked; expiry, shutdown, boot | one pipeline per request to run, one spender of tokens, every run and index row reaches an outcome |
| **Model turn, tool dispatch, tool approval** `lib/conversation-runtime-impl.ts`, `lib/tool-runner.ts`, `lib/tool-approval.ts` | history, pending tools, the registry of open requests | the loop of `runTurn`, `dispatchInternal`, `request`, `decide`, timeout, abort | model stream, executors, users | user, timer and signal race for one promise | fail closed; one decision per request; each `tool_use` has its `tool_result` |
| **Group chat approval gate** `routes/groups/groups-chat.ts` | `activeDagRuns`, `pendingApprovals`, half-hour timers | message, `swapDagRun`, `stopGroupFanout`, `registerPendingApproval`, the decision endpoint, text approval | team DAG | rounds overlap, team and serial ones alike; the key has neither round nor question | the round that spends is reachable; a node that waits can be decided |
| **Team DAG executor** `lib/chat-dag/run-team-dag.ts`, `node-policy.ts` | outcomes, outputs, budgets, jobs | layers, node run with timeout and retries, rework | chat, agents, hops | reviewers that send back the same member, budgets across awaits, stop at any time | budgets, failure propagation, every hand-over settled, no call after a stop |
| **DAG helpers** `dag-layers.ts`, `map-limit.ts`, `policy-gate.ts`, `rework-detect.ts` | none | layering, bounded parallelism, edge policies | DAG executor | cycles, a mapper that throws | layers respect edges; at most n at once |
| **Hops** `storage/agent-hops.ts`, `lib/chat-dag/hop-broadcast.ts` | sqlite rows, card frames, queued patches | open, start, settle, broadcast, orphan sweep | DAG executor, bus | names that arrive late, after the run has ended | no patch before its card; what is settled shows so |
| **Gateway runs** `lib/gateway-run.ts` | none of its own | begin, emit, finish | bus | a second producer of run ids | as for sessions |
| **Workflow scheduler** `workflow/scheduler.ts` | results, in-degrees, the chunk queue | layers, skip cascade, abort, the generator | executors, callers | joins and conditions over skipped nodes, a caller that leaves early | a node runs after its upstreams, none is forgotten, the stream ends |
| **Workflow nodes** `workflow/executor.ts`, `retry.ts`, `condition.ts` | none | run a node, retry, evaluate | scheduler, transports | failures as results | a result, always |
| **Runtime service** `service.py`, `server.py` | requests, runs and checkpoints in memory and in stores, pending gates, locks | run, resume, reject, submit_approval, gates with timers | HTTP clients, inbox, event bus | decision against timer, resume under a lock, what a restart forgets | histories are walks, acknowledged decisions count, paused runs are resumable |
| **Permission prompts** `runtime/permissions.py` | none of its own: the maps of the gates | ask before a dispatch, with a timer | runtime service, inbox | shares the gates' events and decisions | nothing that prompts runs unapproved |
| **Approvals inbox** `runtime/approval/service.py` | registry of questions | list, decide, stream | runtime service | several browsers | each sees a question and its end |
| **Circuit breaker** `circuit_breaker.py` | per agent and operation: closed, open or half open, the moment it opened | acquire the probe's slot, call, trip, reset | memory bridge, an external memory | calls that overlap, timeouts that come late, a probe that raises | one probe, alone; its slot is always settled; calls are let through again |
| **Python event bus and log, loop engine** | logs and queues; loops of a node | publish, subscribe; iterate | runtime service | slow subscribers | - |
| **Step store** `lib/step-store.ts` | step files | put, drop, list | retry, resume | retry while steps land | resume sees what was done |
| **Permission policy** `lib/permission-policy-v2.ts` | none | three-way verdict | tool runner | - | a table |
| **Boot and shutdown** `index.ts` | `shuttingDown` | `gracefulShutdown`, boot sweep | bus, run index | signal during runs | nothing is left running |

The frontend renders what the backends stream; the agent detection, storage CRUD,
the importers and the desktop shell keep no state the above relies on. They are
not part of this project. `PROJECT.json` lists every component with its status,
and under `hazards` what is hard to test in this code, each at its line.

## 2. Modules

| Module | Models | State and actions against the code |
|---|---|---|
| `SnapshotCell` | what the store promises about one run's snapshot | `pending`, a write in flight, unlinks not yet executed, what a reader gets |
| `RunEventStore` | the store down to `open(O_TRUNC)`, `write`, `rename`, `unlink` | paths name inodes; a flush keeps writing to the inode it opened. `Save`, `Remove`, `Flush`, `Open`, `Write`, `Rename`, `Fail`, `Unlink`, `Crash`. Refines `SnapshotCell` |
| `RunEventStoreProofs` | theorems about the store | |
| `RunEventBus` | the bus for one run id | one action per method. `log` maps retained ids to frames, `Retained` is the two-pass eviction, `ClosingFrames` the sweep. A card has its message (`open`), patches that start it again (`start`, a hop's `running`) and final ones; `Produced` is the order its producers keep to, an id announced once and patched after that. The snapshot is an instance of `SnapshotCell` |
| `MCRunEventBus` | frame sets and symmetry for TLC | |
| `RunEventBusProofs` | theorems about the bus | |
| `RunSession` | routes and pipelines of one session id | the bus is one value with an operator per method; `pc[p]` is the await a pipeline is parked at, `on[p]` the Run object whose signal it captured |
| `RunSessionProofs` | theorems about pipelines and their runs | |
| `ToolTurn`, `MCToolTurn` | turns, dispatch and the approval registry | `log[r]` holds the frames of a request; a request is open while its prompt is the only one |
| `ToolTurnProofs` | theorems about the tool loop | |
| `ApprovalGate` | rounds, asks and the two maps of the group chat | `live` is whose controller `activeDagRuns` holds, `aborted` which rounds' latest controller has fired. Team rounds: `TeamStarts`, `TeamEnds`; serial ones: `Call`, `CallReturns`, `SerialEnds`; `Swap` is what both register with. `asks[a]` is a promise, `armed` which timers are to fire |
| `TeamDag`, `MCTeamDag` | one run of a team | a worker of `mapLimit` takes a member (`Take`) and runs a job; `job[m].pc` is the await it is parked at, `job[m].node` whose run it is in: its own, the rework of a member, or a second review. Members, edges and layers are sets; `IsNext` is the order in which `mapLimit` takes them. `Collect` reads one upstream and settles its hop, `Lookup`, `Decided` and `Begin` lead to the call, `AttemptEnds` is the node policy, `OwnReturned` to `ReviewReturned` the rework loop, `Close` the end of the run with its sweep, which may throw half-way |
| `TeamDagProofs` | theorems about a team's run | |
| `WorkflowSchedulerProofs` | theorems about the scheduler | |
| `WorkflowScheduler`, `MCWorkflowScheduler` | one run of a workflow | `Pick`, `NodeEnds`, `LayerEnds` (with `Cascade`), `Stop` are the driver; `Push`, `Pull`, `Leave` the queue and its reader |
| `HopBroadcast` | the cards of one round's hops | `log` is the run's event log, `queue[h]` what waits for the names, `Resolved` their arrival, `Finish` the bus's sweep; `Flush` and `Restart` are the snapshot and the boot after a crash |
| `GroupChatProofs` | theorems about the approval gate and the cards of handovers | |
| `RuntimeService`, `MCRuntimeService` | runs of the Python runtime | `runs[r]` is the frame of `_execute` with the run's checkpoints, `known` and `stored` where its request is registered, `posts` the requests that queue for a run's lock. `Step`, `OpenGate`, `GateAnswered`, `GateTimedOut`, `End` walk; `OpenPrompt`, `PromptAnswered`, `PromptTimedOut` are the permission of a dispatch, `Skip` a node whose activation is suppressed, `Submit` and `Decide` the decisions of a client and of the inbox. `Key(r)` is what a run waits under: its own id for a gate, the inherited one of its shared state (`owner`) for a prompt, and `Told` and `Leaves` are what a decision and the end of a wait do to all who share it; `Resume`, `Reject`, `Retarget` serve; `Crash` is a restart |
| `CircuitBreaker` | the breaker of one agent and operation | `Call`, `Probe`, `Refused` are the three answers of `try_acquire_probe`; `Succeeds`, `TimesOut`, `Raises` the ends of a call; `Tick` is the clock, which counts down what is left of the window and of each call |
| `RuntimeServiceProofs` | theorems about the runtime service and the breaker | |

How they compose: `RunEventStore` implements `SnapshotCell` (checked as a
property), and `RunEventBus` and `RunSession` use the cell in place of the
store. `RunSession` keeps of the bus only status, identity, `started` and the
authors of the log; records and views are the subject of `RunEventBus`.

`TeamDag` and `ApprovalGate` meet at the approval of a node: `TeamDag` assumes
nothing of its answer, `ApprovalGate` shows when there is one.
`TeamDag` and `HopBroadcast` meet at `start` and `settle`: the executor calls them
again for hops that are settled (rework, closing sweep), and `HopBroadcast` lets it
do so in any order.

Why one run id, one session, one group is enough: every map and every file of
the modelled code is keyed by that id and no operation iterates over others
except `shutdownActive` and hydration, which treat each run alike. A team run, a
workflow run and a round's cards share nothing with others of their kind either;
runs of the Python runtime meet through resumption, so `RuntimeService` has several.

Definitions marked `Mutant:` are not part of a model. Each is a plausible bug in
the definition after it, kept so that every property can be seen to fail.

## 3. Runs

| Run | Bounds | What it shows |
|---|---|---|
| `RunEventStore.cfg` | 3 saves, 2 removes, one flush at a time, crashes and failed writes | `FileWhole` (the file is absent or whole) and `ImplementsCell` |
| `RunEventBusViews.cfg` | 2 views (symmetric), 1 waiter, cap 2, ids to 4, 2 runs of the id | `NoMissedRecord`, `ExactlyOnce`, `NobodyHangs`, `RingBounded` |
| `RunEventBusCards.cfg` | 1 card that may be started again, 1 plan row, cap 3, ids to 4, persistence and restarts | `EndsSettled`, `EndsOnce` |
| `RunSessionRerun.cfg` | 2 pipelines, 3 Run objects, retries, a working directory | `OneSpender`, `OwnFrames`, `ExecutesOnce`, `RunsEnd` |
| `RunSessionRestart.cfg` | 2 pipelines, 3 Run objects, expiry, shutdown, crash, boot, an index write that may fail | `IndexSettles` |
| `ToolTurn.cfg` | 2 turns, 2 sessions, 3 requests, 2 iterations, up to 2 calls each | `SettledOnce`, `AbortAnswers`, `HistoryPaired`, `OnlyApproved` |
| `ApprovalGate.cfg` | 1 node, 3 rounds, 2 asks | `OneLiveRound`, `RegisteredOpen`, `LoneAskKept`, `LoneAskAnswered` |
| `TeamDag.cfg` | 4 teams of 4 members (a line with an approval and a denied edge, two reviewers of one member, a cycle, a reviewer placed before the member it reviews), 2 workers, 1 fault, a stop at any moment | `ReworkBounded`, `HandoversSettled`, `DoneMeansOk`, `NoCallAfterCancel`, `RunEnds` |
| `WorkflowScheduler.cfg` | 4 graphs of 4 nodes (join behind a condition, condition behind a node that may be skipped, return edge, two conditions into one node), 2 chunks a node | `TypeOK` (in-degrees), `RunsInOrder`, `NothingForgotten`, `StreamEnds` |
| `RuntimeService.cfg` | a draft that prompts and a gate that ends the run or sends it back to the draft, either of which may be suppressed, 3 runs, 2 requests, 1 restart, 1 step per node | `ResumesOnPath`, `AckedDecisionCounts`, `PausedResumable`, `PostsAnswered` |
| `HopBroadcast.cfg` | 2 hops, 2 outcomes, 2 calls each, 1 restart | `FrameFirst`, `NothingLeftOpen`, `SettledShown` |
| `CircuitBreaker.cfg` | 3 callers, a call takes up to 2 ticks, the window 3 | `ProbesAlone`, `SlotInUse`, `KeepsTrying` |

Why the bounds are enough to see the interesting cases:

- *Store.* Three saves give one being written, one queued and one more; two
  removes give an unlink that outlives the next save. With one flush at a time
  three inodes are all that paths and open files can name at once. The theorems
  have no bounds, and the limit as a hypothesis: `FileIsWhole` and
  `StoreImplementsCell` speak of behaviours with `[]OneFlush`.
- *Bus, views.* With a cap of 2 and four ids, the ring overflows, both eviction
  rules apply (status lines and the rest), and a view can be behind by more than
  the ring holds. Two Run objects let ids restart under a cursor of the earlier
  one.
- *Bus, cards.* Four frames are a card's message, its end, its restart and its end
  again, and in a ring of three the first of them may be evicted before the sweep,
  as may the plan. What spins is judged by what a client makes of the log when it
  replays it (`Spins`, `RowSpins`), not by what the sweep looks for.
  `RecordsExit = FALSE` leaves `setExit` to the views run.
  `MaxUnlinks = 0` leaves `reset` out of this run (with persistence it issues an
  unlink); the views run has it, and `TypeCorrect` and `OutcomeFixed` are proved
  with it. Views across a restart are in no run, but `EveryoneReleased` and
  `NothingMissed` are proved with `Restart`.
- *Sessions.* Two pipelines are what it takes for one to meet the other's run;
  a third Run object is a retry of a retry or an expiry in between. Expiry and
  retry are switched apart because what section 4 says of each (points 2 and 3
  of the list) would otherwise mask the properties of the other run. `OwnFrames` is
  checked where it is hard, with retries; the theorem has the restarts.
- *Tool turn.* Two turns may share a session (and its signal) or not; a third
  request comes after two are open.
- *Gate.* Keys of different nodes never meet, so one node shows everything; the
  theorems are for any set of nodes. Three rounds give one ended, one current
  and one to come.

- *Team.* Four members make two layers of two, or four of one, with every relation
  between a reviewer and the member it reviews: one layer later, two, the same,
  earlier. Two workers interleave every pair of jobs. One fault, anywhere, is an
  agent that is gone, an attempt without text, an error or timeout, or an insert
  that throws; a second one adds states but no combination of two jobs.
- *Workflow.* Each graph has the case its comment names; all the outcomes of all
  nodes and conditions are tried in each.
- *Runtime.* Three runs are a run, its resumption, and a resumption of that; two
  requests queue for one lock; one restart falls anywhere. One step per node
  stands for the three of the code: the guard cuts a run that was sent back once,
  and resumed runs, which count from zero, walk the loop further. What these bounds
  do *not* reach is two runs of one line that prompt at the same time under their
  shared key: that takes four runs and three requests, too many states for this workflow.
  With a draft alone (`Nodes = {draft}`, `Gates = {}`, `Routes` from `draft` to
  itself and `END`, `MaxRuns = 4`, `MaxPosts = 3`, `MaxCrashes = 0`) TLC meets it
  and the invariants hold; for every workflow and every number of runs it is
  the theorem `DecisionsCount`.
- *Hops.* Two calls are start and settle, in either order, or one twice; the two
  hops meet in the log and at the restart.
- *Breaker.* Three callers are one whose timeout trips the breaker, one that was
  let through beside it and is late, and one that probes. With a window of 3 and
  calls of 2, the late one ends at every offset within the window; the theorems
  are for any number of callers and any `Timeout` below `Window`.

`CHECK_DEADLOCK FALSE` stands wherever the bounded system may stop: all ids,
requests, rounds or pipelines are used up and nothing is due. Only
`RunSessionRestart.cfg` goes without, since shutdown, boot and handlers always
leave something to do there.

### Fairness

- `RunSession!FairSpec`: weak fairness of `PipeStep(p)`, that is, an await of a
  pipeline returns: the generator ends, the critic and git answer or time out.
  Clients, timers, the disk and the process are not assumed to do anything.
- `ApprovalGate!FairSpec`: timers fire. Users are not assumed to write, decide or
  stop, nor calls to return, nor rounds to end.

- `TeamDag!Fairness`: the event loop runs every job on. Nothing is assumed of the two
  answers a job waits for: a request for approval may lose its resolver (point 4
  of section 4), and `node-policy.ts` awaits an executor without racing it with
  its timer, so that one that ignores its signal is awaited for ever. `RunEnds`
  therefore says that a run ends *or* that nothing is left of it but jobs that
  wait for such an answer.
- `WorkflowScheduler!Fairness`: driver and generator go on, and a node ends because
  its transport ends. Callers need not leave or abort. A generator that is read
  goes on; one nobody pulls stands still by design.
- `HopBroadcast`: names are resolved or fail (`Resolved`).
- `RuntimeService!Fairness`: a run's task goes on, its gate's timer fires, and the
  next in the queue for a lock gets it. Nobody has to decide anything.
- `CircuitBreaker!BreakerFairness`: the clock goes on, a refusal is returned at once, and a
  call whose time is up ends, since `wait_for` gives up. Nobody has to call, nor
  the memory to answer. `Timeout` includes the time a memory takes to let itself
  be cancelled.

The store, the bus and the tool turn have safety properties only and run under
`Spec`.

## 4. Where code and docs disagree

What was met while reading and modelling. The first five were found by model
checking and are the reason for the exceptions that the properties of their
modules make; of the rest, the properties of `TeamDag`, `WorkflowScheduler`,
`RuntimeService` and `CircuitBreaker` make exceptions where it is said.
1. *Two flushes of one run share the temporary path* (`run-event-store.ts:88`).
   The header promises "never a half-written file" (18-19). `flush()` forgets its
   timer before it awaits, so a save during a write longer than the debounce
   starts a second flush, whose `writeFile` truncates the inode the first one
   renames into place. `RunEventStore.cfg` therefore allows one flush at a time;
   with two members in `Writes`, `FileWhole` is violated.
2. *Viewing a finished session runs it again* (`run-sessions/index.ts:856`).
   "Run the pipeline EXACTLY ONCE" (952). An ended run leaves memory after 30
   minutes, its session after a day, and `GET /stream` with a session does not
   hydrate: `claimStart()` succeeds on a fresh run. With `MayExpire` in
   `RunSessionRerun.cfg`, `ExecutesOnce` is violated.
3. *An old pipeline ends the new run* (`run-sessions/index.ts:1807`), although
   `reset()` is to drop a run "so the next `claimStart` re-runs from scratch"
   (`run-event-bus.ts:210`). After a retry
   the first pipeline still unwinds and calls `finish(id)`; if a view has
   reconnected the id names the new run. The cards it closes on its way out, and what it
   was about to emit when the signal fired, land in the new run's log too.
   `OwnFrames` says what is left: no reply of its agents does, and nothing
   of a pipeline that was not told to stop. With expiry
   on top a second spender follows: the run that was ended under its pipeline
   leaves the Map while that pipeline goes on, and the next view starts a third.
   `OneSpender` is violated with `MayExpire` and `MayRerun` both `TRUE` and
   `MaxPipes = 3`.
4. *An approval promise can hang* (`groups-chat.ts:286`), though 281 says it never
   does. A second ask of the node overwrites the first resolver, and an old timer
   deletes a newer entry (288). A rework or a later round asks a node again, so this
   is no rare case. `LoneAskKept` and `LoneAskAnswered` speak of nodes
   asked about once; the theorem `OnlyRivalsMakeHang` has no such limit and says
   that these two steps are the only ones that leave a promise without its resolver.
5. *A serial round's end hides a live round* (`groups-chat.ts:1712`). The comment at
   1710 says the entry is deleted only if it is still this round's controller; the
   code deletes whatever is registered and not aborted. Small talk, then a task:
   the task's round aborts the serial one, which leaves its loop and deletes the
   task's controller. Neither stop nor the next message reaches that round any
   more. `OneLiveRound` excepts such rounds (`adrift`).

The team run: two reviewers in one layer read the rework budget of a member
before an await and write it after, so it is exceeded and the member run by two
jobs at a time (`run-team-dag.ts:352-361`; `ReworkBounded` excepts it); a rework
that fails leaves the text it was to replace, which later layers are handed as
done (191-203); a stop during the last layer returns `aborted: false` when no call
was under way; a hop that cannot be opened makes the run reject and leaves the
others open, without the closing sweep or in the middle of it; an agent that
ignores its signal holds up the run past its timeout, which `node-policy.ts:54-57`
only signals; hops into a cycle's last layer may stay
open, against the comment at 403; and a reviewer that is placed before the member
it reviews runs that member before its upstreams have run.

The workflow: conditional edges out of a skipped node are never walked, so what
they lead to ends without a result, against the comment at `scheduler.ts:394`;
`executeNode` never throws, so `max_retries` of an edge has no effect; the return
edge of a reviewer, which the loader allows, keeps its target's in-degree above
zero for ever; and a caller that leaves the generator early waits for the whole
run unless it aborts it too.

Hop cards: the closing sweep settles again what is settled, so that a row keeps
`done` or `denied` while its card says `aborted` (`run-team-dag.ts:403-424`); and a
rework starts settled hops again (281-290), after which the card says `running`,
for ever if the rework fails, since the bus's sweep takes any earlier final patch
as final (`run-event-bus.ts:295, 346`). `EndsSettled` excepts such cards
(`StartedAgain`) and no others. After a crash a row may say `done` while its
card, whose last patch was not on disk yet, is closed as `aborted`; and a card
that came or changed after the run's end stays open across a restart, which
sweeps only what was running.

The Python runtime: a rejection does not reach the gate it is meant for.
`service.py:365` and the comment at 656 say that `reject()` ends by waking the
approval gate that waits, but `_requests_by_run_id` is filled only when `_execute`
has returned (345): while a run waits at a gate it is unknown to `reject()`
(533-534), and `POST /workflow/runs/{id}/approval` with a rejection answers 404.
Approving works, since `submit_approval` does not look the request up. Further,
the paused flag of a timeout is kept in the shared state that
resumption inherits, so a gate of a resumed run that is approved pauses again;
nothing reads a gate's rejection, the run goes on; a rejection writes
`invalidated_nodes` beside the shared state, so the skipping of cached nodes it is
meant for never happens; a later decision replaces one that was acknowledged,
while the inbox's are first-wins; a decision that comes between a gate's timer
and its run is acknowledged and dropped; "P11" (`server.py:797`) serialises
concurrent resumptions, but each of them runs; a run that ends with its last
allowed step is failed; an exception is logged under the run id `unknown` and
leaves the run's event bus open; after a restart a rejected run is unknown until
a resumption reloads its request; and of the streams that watch an inbox question
only the first reports how it ended.

A permission prompt waits under the run id of the shared state (`service.py:3972`),
which a resumed run inherits from its checkpoint (1087, 1122). Runs of one line
therefore share the event and the decision of a node's prompt
(`permissions.py:103-109`): an answer meant for one wakes all, the first to read
it takes it away (138-140), and the others fail with no decision at all (`unset` in
the model); one that times out takes the event from those that still wait, who can
then only time out. The ancestor has ended and is registered, so `reject()`, which never
reaches a run that waits under its own id, does reach the prompts of its descendants.
And a gate whose activation is suppressed is passed with nobody's decision, as
a prompt is passed with no permission (1277-1286): `AckedDecisionCounts` excepts
both.

The circuit breaker: a probe that ends with any exception but a timeout, or is
cancelled, never gives its slot back. The breaker stays half open and refuses
every later call, against the recovery promised at `circuit_breaker.py:7-8`;
`SlotInUse` and `KeepsTrying` except it (`lost`). The second look at `HALF_OPEN`
when a probe has succeeded (249) never fails, by `ProbeIsAlone`, as long as a call
ends within the window.

Elsewhere: the 410 of a resume that has nothing left to do reads only the steps in
memory (`run-sessions/index.ts:2037-2046`), so that after a restart a session all
of whose steps are persisted is run again; a `remove()` during a flush lets the
file reappear (`run-event-store.ts:113`); the header (15-17) says `finish` flushes at once, but its snapshot is debounced like any other; the
sweep's patches are pushed into the log without fan-out, and may exceed the cap;
the error frame of a crashed run may carry an id a client has already passed
(`run-event-bus.ts:456`); the cleanup callback of a run that was reset expires
its successor early (600); hydrated runs get no cleanup timer; the index says
`succeeded` for a run the bus has `canceled` (`run-sessions/index.ts:1810`); the
file of an aborted session may come back (`session-store.ts:124`); stop leaves
pending approvals registered until their timer or the next round
(`groups-chat.ts:279-280` against 320-334); a message that approves a node also
starts a round, whose `swapDagRun` aborts the round just approved
(`groups-chat.ts:121-122` against 1915-1917 and 297); a stop that comes while a
serial round posts a reply is ignored, since the next agent gets a new controller
(1587), and a newer round that registers at that moment is aborted by the older
one; and the comment at 122 lists approving words that `parseApprovalDecision` (144) does not accept.

## 5. Proofs

Proved with TLAPS for all values of the constants that meet the stated
assumptions (`...Assumption` of each module):

| Module | Theorems | Inductive invariant |
|---|---|---|
| `RunEventStoreProofs` | `TypeCorrect`, `FileIsWhole`, `StoreImplementsCell` | `StagedOK /\ Owned /\ Apart /\ FileWhole`, the last three while `OneFlush` |
| `RunEventBusProofs` | `TypeCorrect`, `EveryoneReleased`, `NothingMissed`, `NoDuplicates`, `OutcomeFixed`, `SweptAtTheEnd`, `CapKept` | `TypeOK /\ NobodyHangs /\ NoMissedRecord`; with it `RingBounded`, and `Received /\ ExactlyOnce`, and `Orderly` |
| `ToolTurnProofs` | `TypeCorrect`, `OneDecision`, `AbortReleases`, `ResultsComplete`, `FailClosed` | `TypeOK /\ LogOK /\ ParkedOK /\ Kept /\ Busy /\ HistoryPaired` |
| `RunSessionProofs` | `TypeCorrect`, `OnePipelineSpends`, `LogsAreOwn`, `StartsOnce` | `TypeOK /\ BusOK(bus)`; with it `Spending /\ OneSpender /\ OwnFrames`, or `Held /\ OwnFrames`, or `Dropped` |
| `GroupChatProofs`, gate | `TypeCorrect`, `OneRoundReachable`, `DecisionsCount`, `LoneAskDecidable`, `OnlyRivalsMakeHang` | `TypeOK /\ OneLiveRound /\ RegisteredOpen /\ LoneAskKept /\ ArmedAsked` |
| `GroupChatProofs`, cards | `FramesLead`, `AllClosed` | `HopTypeOK /\ Framed(log) /\ Flushed`, with `Waits` until the restart, `Agrees` until the run's end and `Closes` after it |
| `TeamDagProofs` | `TypeCorrect`, `BudgetsHold`, `HandoversEnd`, `DoneHolds`, `CancelHolds` | `TypeOK /\ JobsOK /\ LayersOK /\ Counted /\ Ended /\ HandedOver /\ FirstText` |
| `WorkflowSchedulerProofs` | `InDegreesCount`, `Ordered`, `NobodyForgotten` | `TypeOK /\ Layered /\ Propagated /\ RunsInOrder` |
| `RuntimeServiceProofs`, service | `TypeCorrect`, `WalksStayOnPath`, `DecisionsCount`, `PausesCanResume` | `TypeOK /\ Registered`, `RunOK` of every run, `PostOK` of every request |
| `RuntimeServiceProofs`, breaker | `ProbeIsAlone`, `SlotIsHeld` | `BreakerTypeOK /\ Outlived /\ ProbesAlone /\ SlotInUse` |

*Store.* `Staged` and `Armed` (a flush under way has its snapshot, a timer its
queued one) hold whatever overlaps. The rest is proved for the behaviours that
keep to `OneFlush`, a state predicate that the theorems take as `[]OneFlush`:
`Owned` says that the one flush in flight has the temporary file to itself, empty
while it is open and whole once it is written; `Apart`, that this file is never
the one readers see. Then `rename` publishes a whole snapshot and no later `open`
truncates it. `StoreImplementsCell` maps each system call to a step of
`SnapshotCell` or a stutter: only `rename` and the unlink change what a reader
gets.

*Bus.* The log is a function whose domain stays in `1..nextId-1` (`IsLog`).
Lemmas show that trimming, appending, the sweep and hydration preserve this; in
particular the sweep's frames are finite in number, so that hydration numbers
the error frame after them. `NoMissedRecord` is inductive with the types alone:
`attach` replays everything above the cursor and registers in one step, and
`emit` adds the record to log and views in one step. `OutcomeFixed` is an action
property: every method checks the status before it writes it. `SweptAtTheEnd`
has two halves. `SweepSettles` says that the sweep finds nothing more to close in
the log it leaves, whatever was evicted before. `SweptSettles` says that then
nothing spins for a client that replays the log, cards apart that were started
again after their end; this needs the order of the log: `Orderly`, which every
step keeps (`OrderlyKept`), says of the log and of all its copies on their way to disk
that a card's or a row's message comes before its patches and comes once. It speaks of the steps that end a run and of those that bring one
back from disk; a snapshot that was over when it was saved is taken over as it is
(`TakenOver`), having been swept by then. `CapKept` needs that the two passes of the
eviction, status lines first, remove together exactly the excess (`TrimBounds`, by
counting the lowest ids of a finite set in `LowestCount`). `NoDuplicates` is carried
by `Received`: what a page has lies at or below its cursor, and below the next
id while the run goes on, so neither a replay nor `emit` repeats it.

*Tool turn.* The properties alone are not inductive. `ParkedOK` ties each parked
turn to the one request it owns, `LogOK` gives a request no log, a prompt, or a
prompt and one decision, where only a user approves, `Kept` says that no open
request belongs to a cancelled run, and `Busy` that a turn that asks or executes
has a call left to answer for. With them `FailClosed` follows: a turn leaves `ask`
for `run` only past its own request's approval and the second look at the signal.

*Sessions.* What a pipeline holds (`on[p]`) and what the Map holds (`bus.obj`) part as
soon as a run is retried or expires, and the theorems name which of the two they
rule out. Without expiry `Spending` is inductive: whoever spends holds the run
of the Map, since only a retry or a resumption replaces it and both abort it first;
but a pipeline that was told to stop may have ended it. Without retries `Held`
is stronger: only one pipeline is under way at all, and its run goes on
unless it was told to stop, so that no second stream finds a run to start.
`OwnFrames` goes along with either: a reply is emitted past a look at the signal, by
a pipeline that by `Spending` or `Held` has the Map's run (`PipedOwn`), and a run that
takes the place of another starts with an empty log. So `LogsAreOwn` holds with
any number of retries, as well as across expiry and restarts. With expiry
and retries on, neither holds, nor does `OneSpender` (point 3 of section 4).
`StartsOnce` needs `Dropped`: a run that is gone although it was started was dropped
for a retry or a resumption. `Steps` sorts the actions by what they do to pipelines and Map
(`Quiet`, `Revived`, `Begun`, `Piped`), so that each invariant has a handful of cases
and not a score.

*Gate.* `OneLiveRound` is inductive on its own: whoever registers aborts what was
there. The history variable `adrift` names the rounds that a serial round's end
removed, so the theorem says that point 5 of section 4 is the only way to lose
one. `ArmedAsked` says that a timer belongs to an ask that was made, which makes a lone ask's entry safe from timers other than its own.
`OnlyRivalsMakeHang` is the other side of point 4, and an action property: for any
number of rounds, nodes and asks, an open promise that has its resolver loses it
only in another ask of its node, which overwrites it, or in the timer of another ask.

*Team.* The invariant has a part for each thing that a job remembers across an
await. `JobsOK`: a job runs its own member or one that this member reviews, and has
read all its upstreams before it goes on; so two jobs at one member are two reviewers of
it in the same layer, the case that `ReworkBounded` excepts (`Contended`).
`Counted`: for a member nobody contends for, the budget that a job has read is
the budget still, and it is not exceeded. `Ended`: members of earlier layers have an
outcome, and of this layer those whose own run is over. `HandedOver`: a hop
from an earlier layer is settled once its receiver has read it, and `Planned` names
the hops for which every run of the receiver comes late enough, its reviewers'
reworks included. `FirstText`: a member that was not run again has a text only if it
succeeded; with it `DoneMeansOk` holds up to the reworks it excepts.
`NoCallAfterCancel` needs only the types: `Begin` alone puts a
job at its call, past its look at the signal. Each action has a lemma (`TakeKeeps` to
`CancelKeeps`), and each part a lemma about the steps that cannot disturb it
(`CountedStep`, `HandedOverStep` and so on). Layers need no induction: `LayersApart`
says that a member is in one layer, `FirstIn` that a nonempty set of positions has
a first one.

*Cards.* While the round goes on `Agrees` says of a hop that was not called again once
it was settled that nothing follows how it was settled (`LastWord`), neither in the log nor
in its queue. This is what the sweep relies on, which closes a card if no patch ever settled
it: `ClosedOK` shows that after it every such card shows how its hop ended (`Closes`).
`Flushed` keeps one of the two for the log on disk, whenever it was written, so that
`AllClosed` holds after a crash at any moment. A frame goes out once because a
card is in the log exactly if its hop is in `ready` (`Waits`).

*Workflow.* The graphs are any finite sets of edges, cycles included. `TypeOK` says
of every in-degree which edges it counts; a layer's end takes from it the edges
of the layer, a set disjoint from those that still hold the node back
(`LayerEndsInvariant`, with the cardinality of a union). `Layered` says that only
the running layer is pending, so that a free node's upstreams have all been
executed, and `Propagated` that a failure or a skip has reached every
unconditional follower, so that they have been executed *successfully*.
`CascadeSkips` gives of `cascadeSkip` what this needs: the least closed set is
closed. `NobodyForgotten` follows without induction of its own: when the queue
closes nothing is free, so a node without a result is held by an edge.

*Runtime.* A run, each of its checkpoints, and what a request to resume carries, all
say where a walk stands: what was visited, where it goes next, the paused flag. The
invariant says the same of all three (`Sane`): the place lies on a path of the
workflow, each gate and prompt passed on the way was allowed by somebody in the run's
lineage, and a set flag is `Backed` by a checkpoint at a gate. The last is stronger
than `PausedResumable`, which is not inductive: the checkpoint must be one that a
crash leaves, though the newest may still be on its way to the store. Lineage is a
least closed set rather than a recursion, so that
`LineageGrows` and `LineageUp` follow from its definition, and `Grows` collects what a
step may do without any place losing its sanity. `Local` ties the answer of a gate
or a prompt to the last decision acknowledged, for `DecisionsCount`. A step at a key
changes all runs that wait under it: `Stood` says of each what it may change in the
others (an answer with its acknowledgement, the event, never a place), and `AllStand`
that the invariant survives that. `Owned` says whose id a run's prompts carry: its
own if it was started anew, else that of a run that has been stored, and so has ended; a gate,
which waits under its own id, shares it with nobody (`SharedKey`) and never goes
without its decision.

*Breaker.* Neither property is inductive: that a probe is alone depends on the
calls let through before the breaker opened having ended by then. `Outlived` says
so step by step: while the breaker is open, a call under way has less time left
than the window. It holds when the breaker trips because `Timeout < Window`
(5 and 60 seconds in the code, `BreakerAssumption`), and a tick takes one from
each side.

The hypotheses are part of the theorems: `OnePipelineSpends` and `LogsAreOwn` take expiry
and retries one at a time, `StartsOnce` neither expiry nor restarts.

Only model-checked is liveness, which the prover does not reach: `RunsEnd`,
`IndexSettles`, `LoneAskAnswered`, `RunEnds`, `StreamEnds`, `PostsAnswered`,
`SettledShown`, `KeepsTrying`. The safety they rest on is proved where it is a
property of its own (`NobodyForgotten` for `StreamEnds`, `LoneAskDecidable` for
`LoneAskAnswered`). Every invariant and every action property that a run checks
is stated by a theorem, under the hypotheses named above.

## 6. What is abstracted

- Payloads: a frame is the kind eviction and the sweep tell apart. Timestamps,
  wording, prompts, usage counters and the journal around tool dispatch are left
  out; so are a throwing sink and a throwing listener.
- `RunSession` leaves out the step store (its answer to `resume` is a free
  choice), conversations, lessons, saved run records and the metrics endpoints.
  The stretch between `claimStart` and the `try` block is taken not to throw. That
  the write of an outcome to the index fails and is swallowed (1810) is modelled: the
  row then stays without one (`missed`) until the next boot, which `IndexSettles`
  allows.
- `ApprovalGate` has of the DAG what the gate sees of a node. Which path a round
  takes (small talk, a missing or unreadable team) is a free choice at the moment it
  registers.
- `TeamDag`: an edge policy either lets a hand-over pass, asks or denies; `warn` is
  a pass with a log line. Parallel edges of a pair are one hop. Whether a reply
  asks for rework is a free choice, as is its text.
- `WorkflowScheduler`: what a condition evaluates to and how a node ends are free
  choices. `retry.ts` has no effect (section 4), its backoff is left out.
- `RuntimeService`: the inbox is its decisions; a node is one step with a free outcome, and whether it is activated a free choice. Parallel blocks, the
  inner loops of a node, the memory and the gap detection inside a node are left
  out, as are handoffs, artifacts and the audit trail.
- `HopBroadcast`: the log is not evicted; eviction is the subject of `RunEventBus`.
- `CircuitBreaker`: recorded durations, events and the observers' `peek_open`.
- Time: in `CircuitBreaker` it is counted. Elsewhere a timer is an action that may happen once armed. `RunSession!Expire` is
  ordered by creation and does not fire within the 3 s of a shutdown, nor while a
  pipeline still unwinds from an abort: it is due 30 minutes later.

## 7. Plan

Done: every module of section 2, in the order store, bus, sessions, tool turns,
approval gate, team DAG, workflow scheduler, runtime service, hop cards, breaker;
and the theorems of section 5. Next, proofs:

1. A bus of one value, as `RunSession` has it, stated as a module of its own, and
   `RunEventBus` shown to implement it, as `RunEventStore` implements `SnapshotCell`.
2. A question that is asked once and answered at most once, which the registry of
   `ToolTurn` implements, and that of `ApprovalGate` as long as no node is asked twice.

Not modelled, though its state could be, in the order in which it would come:

- the step store: `put`, `drop` and a session's load race in memory and on disk;
- the ids of the approvals inbox and the streams that poll it;
- gateway runs as a second producer of the bus operations of `RunSession`;
- the Python event bus and its log, with slow subscribers.

Not modelled because nothing in them interleaves or outlives a call: the
permission policy (a table), policy gates and rework detection (pure functions
whose verdicts `TeamDag` takes as choices), transports and wording.
