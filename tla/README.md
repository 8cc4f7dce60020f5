# Models of AutoDOM in TLA+

AutoDOM lets the agents of several IDEs drive one browser. This directory models the parts of it
in which things happen at the same time, fail half-way or come in an order nobody chose: state machines
of the components, the runs that check them with TLC, and proofs that TLAPS checks. `PROJECT.json` lists
the components, the runs, the line of code behind every definition, the mutants that show what each
property catches, the disagreements found and the hazards. Paths below are relative to the repository; `SW` is
`extension/background/service-worker.js`, `WE` is `extension/background/workflow-engine.js`.

To run: `tlc -config MCToolLanes.cfg MCToolLanes.tla`, `tlapm ToolLanesProofs.tla` (and the other `...Proofs` modules).

## 1. The system

```
IDE ── stdio ── server process (secondary) ─┐  loopback socket
IDE ── stdio ── server process (PRIMARY) ───┴── socket ── service worker ── tabs, alarms, storage
```

Every IDE starts a server process of its own. The process that owns the port is the primary and
holds the socket of the extension; the others relay their calls through it. The service worker of
the extension is one JavaScript thread that the browser may kill at any time; it does all the work
between two `await`s without interruption, and everything interleaves at the awaits.

| Component | State | Operations | Talks to | Hard because of | What makes it correct |
|---|---|---|---|---|---|
| Tool lanes (`tool-lanes.js`) | key mutexes, gate, tickets, heldLanes of each batch | acquire, run, release, abort, timeouts, watchdog | called by every tool call of the SW | hand-over by promises, nested calls, give-ups at any point | no two calls on one tab, exclusive calls alone, no lost wake-up, nobody waits for ever |
| Scheduler (`scheduler.js`) | one map in storage, alarms, set of running ids | create, update, delete, run, fire, reconcile | alarms, workflow engine, bridge scripts | load-await-save, kills, browser closed, clock | one run per slot, no overlap, acknowledged changes stay, always armed |
| Fire times (`scheduler.js:38-62`) | none | nextFireTime | scheduler | boundaries, clock changes | first slot after now |
| Bridge calls (`server/index.js`, SW) | pendingCalls, waiters, links, registry in the SW | call, relay, result, cancel, time out | IDE, other processes, extension | lost sockets, take-over, ids that start again | own result, run at most once, cancelled work stops, always answered |
| Tab isolation (`tab-isolation.js`) | owned and adopted tabs per client, saved in the session storage | open, pin, unpin, close, finish, sweep | tools, user, browser events | awaits between look-up and use, user closes tabs, restarts | own tabs are closed, the user's are restored, never a window emptied |
| Code Mode (`server/codemode/`) | scripts, holds, suspended map, three clocks | run, resume, deny, stop | tools, confirmations | parallel calls, decisions racing timers | bounded, each call once, clock right, ends |
| Confirmations (`server/index.js:767-798`, `9083-9155`) | pendingConfirmations | hold, confirm, cancel, expire | guardrails, Code Mode | races of decision and expiry | an approval is used once |
| Election (`server/index.js:2038-2750`) | role, port, lock file, link, recovery budget | clean up, bind, join, recover, hand over, end | other processes, the lock file | several processes, a lock that is read before it is removed, a process that has handed over | who believes to be the primary has the port; all joined in the end |
| In-place restart (`self-restart.js`) | captured handshake, queue, processes | stop reading, spawn, replay, relay | IDE, successor | messages while nobody listens, late answers, a successor of the successor | the IDE cannot tell: nothing lost, nothing twice, nothing out of order |
| Connection of the extension (SW 55-112, 4720-5003, 5163-5404, 10695-10846, 12143-12278) | socket, ports, retry timer, wanted flag and auto-connect, some of it stored | connect, stop, auto-connect, fix, retry, watch, fall back, restore | bridge, popup, chat, storage, alarms | handlers of old sockets act on global variables, timers die with the worker, half-read settings | status true, a stop is final, a wanted bridge is found again |
| Ask Before Act (`action-gate.js`, SW 1370-1467, 10343-10360) | site rules, open prompts, tabs taken over | check, prompt, answer, persist, revoke, take over | chat panel, agent loop, lanes | prompt and timeout, late answers, concurrent writes, kills | nothing runs that the user has not allowed, for this call or by a rule in force |
| Runs of workflows (WE 2200-2760) | live runs, current run, batch | start, step, pause, resume, cancel, forget | pages, tabs, the store | flags read between steps, parallel batches, tabs that close | a run stops within a step; what is reported is true; every run ends |
| Saved workflows (WE 1461-1480, 1990-2030, 2366-2390) | one map in storage, undo data, chain of ends | save, delete, count a run, heal | storage | load-await-save by several parties | every run counted once, no edit undone |
| Run history (WE 1487-1573) | list in memory and in storage, timer, chain of writes | load, push, flush, clear, storage events | storage, popup | a list in two places, events of one's own writes | finished runs are there, cleared ones are not |
| Recorder (WE 1575-1811) | recording in memory and in session storage, early events | start, step, stop, hydrate | page, tabs, storage | kills of the worker, writes behind a timer | each step once and in order; a stop is final |
| Agent loop (SW 1134-1180, 1370-1470, 2200-3560) | lock of each panel, one handle, turns of a run | chat, schedule, stop, approve a plan, call a tool | action gate, lanes, model providers, chat panel | stop at any await of three different paths, two panels, kills | the stop reaches the newest run and nothing begins after it |
| Chat requests (SW 3800-3890, 6100-6420, `server/index.js` 1983-2036, 3100-3660) | requests that wait, jobs, CLI processes, stopped ids, IDE queue | ask, abort, answer, queue, respond | CLI, providers, IDE, tools | lost sockets, ids that start again, stop between two steps of a job | no request forgotten, own answer, a stopped job acts no more |
| Update flow (SW 3747-3790, 4763-4777, 10852-10885, 11080-11873, 12590-12780, `server/index.js` 4105-4384) | pending update, mark of a download, attempts and cooldown, all stored | check, set pending, record, download by the bridge, ask for a reload, reload, install | browser, bridge, popup | state spread over reloads, results lost with a socket or a worker | no reload loop; a true status; the update comes in the end |
| Reaper (`bridge-reaper.js`) | none | decideReap | processes of the machine | policy over a stale snapshot | no useful process is killed |
| Admission and windows (SW 4113-4195, 7652) | clients in progress, window chain | admit, pin, capture | lanes, tab isolation | several clients | one call per client where it matters |
| The rest | | | | | user interface, output filters, media and HAR recorders, installers: see `PROJECT.json` |

The rows from the reaper on are not modelled (section 6), and of the confirmations only those of Code Mode are.

## 2. Modules

| Module | Models | Composed with |
|---|---|---|
| `ToolLanes` | `createToolLanes` as the worker uses it | batches and their steps |
| `ToolLanesProofs` | theorems about it | extends `ToolLanes`, `TLAPS` |
| `Scheduler` | the scheduler with storage, alarms, worker, browser, bridge scripts | uses the grid that `FireTimes` justifies |
| `SchedulerProofs` | theorems about it | extends `Scheduler`, `TLAPS` |
| `FireTimes` | `nextFireTime` against its definition | |
| `BridgeCalls` | server processes, links, socket, and the call registry of the SW | client, primary, secondary and extension in one module |
| `BridgeCallsProofs` | theorems about it | extends `BridgeCalls`, `TLAPS` |
| `TabIsolation` | the tab sessions of all clients, the user and the browser | |
| `CodeMode` | scripts with the confirmations of the server | both in one module |
| `WorkflowRuns` | runs and one batch of the workflow engine | |
| `TabsAndRunsProofs` | theorems about `TabIsolation`, and about `WorkflowRuns` | extends both, which share no variable, and `TLAPS` |
| `WorkflowStore` | saved workflows, statistics, undo data | |
| `RunHistory` | the history of runs | |
| `WorkflowRecorder` | the recording and its restart | |
| `BridgeElection` | the processes of the bridge, the port, the lock file | |
| `BridgeLink` | the socket of the extension and everything that opens or closes it | `BridgeCalls` sees of it a socket that drops |
| `BridgeLinkProofs` | theorems about it | extends `BridgeLink`, `TLAPS` |
| `StdioSession` | what a client sees of its session, abstractly | implemented by `SelfRestart` |
| `SelfRestart` | processes that replace each other behind the client's pipes | refines `StdioSession` |
| `AskBeforeAct` | the decision about a call of the agent, site rules, take-over | |
| `AgentRuns` | the agent loop: locks, handle, stop, three paths | a call of a tool is `gate → lanes → tool`, of which `AskBeforeAct` and `ToolLanes` have the inside |
| `ChatRequests` | chat requests in the worker and their jobs in the server | |
| `UpdateFlow` | how the extension gets a new release and reloads | `BridgeLink` has the inside of its socket |
| `MCScheduler` | two scenes, each an instance of `Scheduler` | |
| `MCSchedulerProofs` | the theorems for its scenes | extends `MCScheduler`, two instances of `SchedulerProofs` |
| `MCParts` | seven machines that do not interact, one a behaviour | instances of `WorkflowStore`, `RunHistory`, `WorkflowRecorder`, `FireTimes`, `SelfRestart`, `BridgeElection`, `UpdateFlow` |
| `MCPartsProofs` | theorems about the parts of `MCParts`, the refinement of `StdioSession` among them | extends `MCParts`, `TLAPS` |
| `MCSafety` | five machines that do not interact, without fairness: scripts that await each call, calls without batches, the agent loop, its action gate, chat requests | `CodeMode`, instances of `ToolLanes`, `AgentRuns`, `AskBeforeAct`, `ChatRequests` |
| `SafetyProofs` | theorems about Code Mode, and about the gate, the agent loop, the chat requests and the lanes as the run of `MCSafety` has them | extends `MCSafety`, `TLAPS` |
| `MC...` | small instances of each | |

Each module has the state as variables, `Init`, one action per step of the code between two awaits,
`Next`, `Spec` and its properties at the end. Operators whose name ends in `Mutant` are broken forms
of the definition that follows them; `PROJECT.json` pairs each with a property that then fails.

### ToolLanes
A call goes `idle → gate → key → running → done`, or `failed` (refused, aborted, late) or `orphaned`
(the watchdog took its lanes while the handler runs on). `micro` is the queue of continuations: a lane
is handed over by settling a promise, and the new holder resumes later, in order. Timers fire only
when `micro` is empty, as in the event loop; other jobs of the worker interleave freely. `Parent`
makes a call a step of a batch that shares its `heldLanes`, signal and deadline; `Abortable`, `Timed` and
`Impatient` say which calls can be cancelled, have a deadline or give up waiting. Keys are numbers in
the order in which `acquire` sorts them.

### Scheduler
A job stands for one operation and moves `load → save → clear → arm → run`. Each await is a state
of its own, so that operations overlap there. Times are relative: `phase` is the distance to the next
point of the grid and `next` the stored `nextRunAt`; all time counters move together in `Tick`, which
keeps the model finite. `Kill` forgets what is in memory; `CloseBrowser` also stops time for alarms, which
may (`AlarmsPersist`) or may not survive. `orphans` are runs of scripts that the bridge continues
after the extension has given up on them.

### FireTimes
Moments are numbers, the local clock is moved once by `gap`. The state machine computes the next
run over and over from moments before, at and after the last one. The reference is the set `Slots`
of all moments at which a schedule is due.

### BridgeCalls
One module for the client's call (`call`), the processes (`role`, `linked`, `pending`, `held`,
`counter`), the messages (`fwd`, `back`, `down`, `up`) and the extension (`work`, `registry`). Links and
sockets are FIFO and lose what they carry when they drop; what is sent while the socket is down is
dropped silently (`ToExt`). The next primary takes the port in one step.

### TabIsolation
The state of a client is an object in `obj`; `client` is the map. An operation holds the *object* it
looked up, which is what makes stale objects visible: the map may have forgotten or replaced it. A
job records where an operation waits (`create`, `adopt`, `group`, `restore`, `query`, `fill`, `sweep`).
`blank` counts the tabs that AutoDOM opens so that a window is not left empty. Two simplifications:
whether a client is idle is one bit (`GetsIdle`), and `place` is where a user's tab is, home or in the group.

### CodeMode
`run` is a script, `call` a tool call, `suspended` the reported holds, `confirm` the confirmations with
the ticks they have left. A script that awaits each call (`Parallel = FALSE`) makes no step in the middle
of one; with `Parallel` it may go on at any time. `time` and `old` are the deadline as the timer and as the
interrupt handler of the sandbox see it. `told` is whether some client was given the id of a confirmation,
without which nobody can decide it.

### WorkflowRuns
A run is a record: where its loop over the steps is (`at`), its report (`status`), its flags and its tab. It looks at
the flags only in `Top` and `Step`, between two steps; `late` counts the steps it starts after it was told to pause
or to stop. `runs` is the map of live runs in the order of insertion, `current` the run that is shown. The workers
of the batch are implicit: whoever ends takes the next entry (`WorkerGoesOn`). What a step does, how it finds its
element and whether it heals is left out: it passes or fails.

### WorkflowStore, RunHistory, WorkflowRecorder
Three stores of the workflow engine. `WorkflowStore`: `writer` is a run that ends or a change by the user, with the copies it
has read; `chain` is `persistChain`, which orders the ends of runs, and `Undisturbed` the assumption under which a
change is alone with the map. `RunHistory`: the list in memory (`cache`) and on disk, the writes and storage events
on their way; `sig` tells an own write from somebody else's. Lists are sets of runs. `WorkflowRecorder`: steps are
numbered as the page makes them, a navigation has nonce 0, and the worker is down, reading or ready.

### BridgeElection
Each process has at most two tasks, the first election and a recovery, which go `clean → rm → bind → bound →
connect` and share one connection attempt (`conn`). `lock` is the process whose token is in the lock file; cleaning up
and writing it are steps of their own, which do not look again at what they remove or overwrite. `HandOver` begins a shutdown or
a restart; `Close`, `RemoveOwn` and `Exit` follow, and a process that was replaced stays behind as a relay (`closed`).

### BridgeLink
`sw` is the memory of the worker with its sockets and, in `disk`, what it has stored; every function of the code is an operator
on such a record, so that a handler that calls others is their composition. `sock` holds all sockets that are still heard of, `ws` is the
global variable. `boot` is what a new worker has read before it acts on it (`stage`). `asked` is what the user has asked for: the
properties compare the worker with it. Delays are left out: an armed timer fires at any time.

### SelfRestart and StdioSession
The messages of the client are numbered. `SelfRestart` has the pipes in front of and behind every process, the tap with
what it has captured, and the relay with its queue; a process may be replaced while its own predecessor relays. `StdioSession`
knows only what the client has sent, how much of it was served and what was answered. The refinement mapping counts the
prefix of `took` that is in order; anything else maps outside of `StdioSession`.

### AskBeforeAct
A call goes `check → prompt → persist → saving → allowed → running`, or is over. Its card in the chat panel outlives the
prompt, so that late clicks happen. `rules` is the stored map of sites, of which each change loads and saves the whole;
`granted` is what the user has allowed and not revoked since. `mine` are the tabs the user has taken over as the panel
shows it, `taken` what the worker knows of them, `session` the stored copy and `reading` what a new worker is about to
take over from it.

### AgentRuns
A run goes `opening →` its path. `path` says which of the three loops it is in: the plan by the screen (`vision`: a
snapshot, a screenshot, one answer), quick steps (`quick`: a screenshot and an answer, again and again), or turns (`turns`);
what the first two cannot do falls back to the last (`FallBack`). `left` counts the calls that are left of an answer, and
`Continue` says for each path what follows a call. `gate` stands for the rate limit, the take-over and the action gate, `lanes`
for the tool lanes; both refuse a call of a stopped run (`Refused`). `newest` is auxiliary: it names the run that
`_activeAgentRun` should be about.

### ChatRequests
`req` is what the worker waits for, `job` what the server does for it: `look` (a call that reads the page, `act` or `more`: one
that changes it), `spawn` and `cli` (a process of a CLI), `fetch` (a provider), `queue` (for the agent of the IDE). `conn`
numbers the connections; a job answers over the one its request came by, and not at all when that is closed (`Lives`). Ids start
again with the worker, `aborted` and `proc` are kept by id. The abort is a message of its own behind the request, so it meets the job at any
of its steps. What the job has done by then is not undone.

### UpdateFlow
There is one release to get. `stored` is what the storage has of it, with ages instead of times: of the mark of a download
(`sent`, `old`), of a requested reload (`just`, `long`) and of the last automatic attempt (`cool`). `task` says where
the check, the click of the user, the handlers of `onUpdateAvailable`, `onInstalled` and `ws.onopen` wait; a task remembers the
attempts it has read, since `_recordUpdateLifecycle` reads and writes the whole record. `install` says whether the
browser or the bridge brings the files, and whether a reload loads them at all. `recent` and `reloads` are auxiliary: `recent` counts
the automatic reloads and the requested ones that were given up, and only the passing of ten minutes sets it back. Minutes pass
when the worker is at rest (`Quiet`).

### MCScheduler, MCSafety and MCParts
One run explores several machines that do not interact: a rigid variable (`scene`, `part`) says which one a behaviour is of, the
others stay as they start. Every property is stated in the module of its machine.

## 3. Runs

All runs are exhaustive.

| Run | Instance | Shows |
|---|---|---|
| `lanes_batch` | a call on two tabs, a batch with a step on a tab of that call and one on its own, an exclusive call; a deadline and a signal for the batch, an acquire timeout for the step | lane exclusion, sound locks (`LocksSound`: no lost wake-up, no leak, truthful heldLanes), no late start, nobody waits for ever, and the inductive invariant of the proofs |
| `safety` | `scripts`: two scripts, an unattended one, three calls, one place; `lanes`: four calls on three lanes, three of them on one, one exclusive, two can be aborted, one has a deadline; `agent`: a run of each path, two of them on one panel and a scheduled one, two turns, two calls an answer, a kill; `ask`: two sites, three calls, a kill; `chat`: two requests, each of one of three kinds of job, a broken connection and a kill | the limit on paused scripts, a reported hold can be decided; the exclusive call alone, arrival order as far as the code keeps it; `HandleTrue`, `UserDecides`, `ChatTrue`, and `StopObeyed`: what was stopped begins no tool |
| `sched` | scene `changes`: one schedule, three jobs, two stops, changes by the user do not overlap; scene `slots`: the same with a script, three stops, a catch-up of two ticks, where changes, manual runs and patches do not overlap, and alarms, catch-up and kills do | no overlap of runs, changes stay, alarms armed; one run per slot, an enabled schedule left alone goes on running |
| `calls` | a call at the primary and one at a secondary; two of: a drop of the socket, a kill of the worker, the death of a process | own result, started once, nothing abandoned, cancellable, every call answered |
| `iso` | two clients, one tab of the user's and two others, five operations and restarts; `calm` chooses whether everything overlaps | no tab of the user's is closed by a session; when calm, tabs tracked, user's tabs home and windows kept |
| `code_parallel` | a script and an unattended one, three calls in parallel, two places | each call once, the clock right, every script ends |
| `workflow_runs` | a batch of two with concurrency one and a single run, two steps each | reports true (`ReportsTrue`: the batch within its bound, what is over is over, the current run goes on), a run stops within a step, all end |
| `parts` | `store`: two workflows, three ends of runs, an edit and a delete; `history`: three runs, a clearing, a kill; `recorder`: two recordings, three steps, two kills; `fire`: days of four units, 50 units, the clock unchanged, moved forward and moved back; `restart`: four messages, one restart; `election`: three processes, one end; `updates`: one reload allowed, two clicks, failures, broken connections or kills | `StoreKept` (workflows and run history), `RecordingKept`, `FirstSlotAfter`, `SessionKept`, `RolesTrue`, `Joined`, and `UpdatesKept`: no reload loop, a true status, the update comes in the end |
| `link` | two ports, a bridge on each or not; three commands, a kill of the worker, two troubles (a bridge ends, starts, hangs, recovers, the session times out); when calm | `LinkTrue`: the status true, one socket, a Connect or a Stop holds for the next worker, an attempt under way while the bridge is wanted; `Reconnects` |
| `undo`, `takeover`, `calls_held` | `parts`; `safety`; both calls at the secondary and one drop | a disagreement each, see section 4 |

Each run is small, but each bound is as large as the case that its properties are about needs: three parties for a lane
(holder, waiter, and one that jumps in), two awaits of two jobs plus a stop for the scheduler, a
secondary and a take-over for the bridge, two clients and a tab of each kind for isolation, two holds of
one script and a second script for Code Mode, one waiting entry and a run outside of the batch for the engine, an owner of the port, one that
joins and one that starts for the election, a port to go back to and a socket that is
not heard of any more for the connection (no behaviour needs a fifth socket at once), two runs and a third that takes the handle
for the agent, two requests that are given one id for the chat. Of the kinds of job, one that only asks a CLI and one that the words name do a part of what
an agent does, so three of the five are instantiated. `MaxCommands`, `MaxTroubles`, `MaxStops`, `MaxDrops`, `MaxKills`, `MaxCrashes`, `MaxFaults`, `MaxEnds`, `MaxRestarts`, `Restarts`,
`MaxRecordings`, `MaxSteps`, `MaxOps` and `MaxEvents` bound
events from outside, `MaxActs` how many calls one answer of a model asks for; `MaxTurns` and `MaxAttempts` are limits of the code, made small. Two bounds were also tried larger, outside of the runs: two ends of three processes in the election, two
restarts one after the other in `SelfRestart`. Deadlock is checked in every run but those of the workflow
engine, of the parts and of the connection, which come to rest when everything has happened; the other modules that come to rest say so
with an action (`AllSettled`, `AllOver`, `Rest`).
Symmetry is used in safety runs only, over jobs, clients, calls and tabs that no definition tells apart.
Every property has a mutant, a broken form of a definition under which its run fails, and one for each part when it has several (`PROJECT.json`).

### What the passing runs assume
* `Apart` (Scheduler): the named operations do not overlap the awaits of others. Without it changes and advances are
  lost (section 4); the two scenes of `sched` say what holds beside that.
* `calm` (TabIsolation): while a tab is opened or adopted no tab goes away and no session ends, tabs are
  closed by one party at a time, and the worker is killed only at rest. Section 4 says what happens without it.
  A tab that `close_tab` forgets but the browser keeps, because it is the last of its window, is exempt (`spared`).
* `OwnResult` (BridgeCalls) is stated as long as no process has died (section 4).
* `Calm` (BridgeLink): the user commands when the worker has restored its state, and while no socket is on its way out, one that
  was let go while it connected included; Fix ends in such a moment too. Section 4 says what happens otherwise.
* A tool call lasts at most one tick (CodeMode): calls have a timeout of their own, shorter than
  the life of a hold.
* Storage and alarm calls take no ticks (Scheduler): slots are at least a minute apart.
* `Apart` (WorkflowStore): a change by the user is alone with the map, from reading the workflow to saving it.
  `Apart` (WorkflowRecorder): no two calls of start and stop overlap. `Prompt` (RunHistory): writes of the history and
  their storage events do not overlap each other or a clearing. `Single` (AskBeforeAct): no two changes of the site
  rules overlap. `Apart` (UpdateFlow): the user asks for a reload while nothing else is recorded. `Overlap = FALSE` (BridgeElection): no recovery begins during the first election. Section 4 says what happens otherwise.

### Fairness
Weak fairness only; `MCParts` repeats that of its modules, each guarded by its part. In `ToolLanes` continuations and timers run, and a handler without a deadline returns;
one with a deadline may hang. In `Scheduler` awaits are answered, alarms ring, runs end, time passes, the browser
is opened again and something wakes the worker; the stops are bounded, so they end. In `BridgeCalls` only timers,
and the steps of a process that need nobody else, are fair: sockets may stay down and the extension
may never answer. In `CodeMode` calls return, timers fire and time passes; nobody has to decide
anything and no script has to end by itself. In `WorkflowRuns` awaits return; nobody has to resume a paused run. In `SelfRestart` pipes
deliver and requests are answered; the timeout of the replay need not fire. In `BridgeElection` awaits and timers end,
and a process without a connection is nudged again and again: by calls, diagnostics or the `SIGUSR2` of the native host, which
forgets earlier attempts. In `BridgeLink` events of sockets arrive, timers fire and the alarm wakes a worker, as long as it is
set; kills, commands and troubles are bounded. In `UpdateFlow` awaits and timers of the worker end before the next minute, the bridge
is found again and ends its work, runs of the agent end and the alarm rings; kills, failures and clicks are bounded.
Without the nudges of `BridgeElection` a process that has used up its attempts stays degraded, as the code intends.

## 4. Disagreements

Where the code does something else than the repository says. Three runs are kept as
examples: TLC shows that `CancelledNotSent`, `UndoKept` and `TakeoverHeld` fail.

| The repository says | The code does | To see it |
|---|---|---|
| a relayed call that its client cancelled is stopped (`server/index.js:3711`) | one that waits for the extension is not in `_proxyCalls` yet, and is sent later | run `calls_held` |
| every run keeps what it needs to be undone (`docs/WORKFLOWS.md:116`) | `saveUndo` reads and writes the map of all runs (WE 2025-2033), outside of the chain that orders the ends: of two runs that end together one loses its entry | run `undo` |
| agent calls on a tab the user has taken return `USER_TAKEOVER` (`docs/WORKFLOWS.md:273`) | the test comes before the waits for approval and lanes (SW 1393); a restarted worker reads the taken tabs back late (10346), and a take-over before that overwrites them (10354) | run `takeover` |
| stale ids are ignored (SW 3958) | ids start again in the next primary, so a late answer can be given to another call | `OwnResult` without its first line, in `calls` |
| what `schedule_update` answers | a timer that loaded the map before saves the old one | `Apart <- {}` in the scene `changes` |
| a missed run fires once (`scheduler.js:11-13`) | two schedules that fire together lose one advance | two `Ids`, both `Initial`, and `Apart <- {}` in the scene `slots`, with `OneRunPerSlot` alone; `BroughtBack` of `OncePerSlot` |
| the same | an alarm that survived rings besides the catch-up | `AlarmsPersist <- TRUE` in the scene `slots`; `Overdue` of `OncePerSlot` |
| a run is skipped while the previous one goes on (`docs/WORKFLOWS.md:197`) | after a disconnect the bridge goes on with the script | `Scripts <- Ids` in the scene `changes` |
| a restart does not orphan tabs (`tab-isolation.js:18`) | a kill during an opening does | without `calm`: `OwnedTracked` |
| a pinned tab is restored (`README.md:316`) | not when its entry was deleted during the pin | the same: `UserTabsHome` |
| never leave a window empty (`tab-isolation.js:385`) | tabs are counted before others close | the same: the last conjunct of `UserTabSafe` |
| the lives of a paused script and of its holds match (`codemode/index.js:70`) | the second of two parallel holds is reported late | `Parallel = TRUE` and `MaxSuspended = 2` in `safety`: `HoldOpen` |
| "Click Connect or enable auto-connect" (`popup.js:1012`) | after a session timeout without auto-connect `_sessionTimedOut` stays set (SW 3913) when auto-connect is enabled (5377), and every attempt returns at once (10708, 107) | an attempt under way whenever `sw.auto`, as an invariant in `link` |
| a session timeout is a final stop only until the next start (SW 3911, 5169), a stop is final (5365) | a Stop while a new worker reads its settings is overridden by what it has read before (SW 10742-10846) | `Calm = FALSE` in `link`: `LinkTrue` |
| Fix reconnects from a clean slate (SW 12258) | of a socket on its way out it takes the `onclose` away, so that `isConnected` stays true for ever (12268-12274) | `Calm = FALSE` in `link`: `Reconnects` |
| a missing bridge is retried (SW 10695-10729) | the handle of a retry that found nothing to do counts as a retry under way (10698), so that the next failure at that port arms none, and only the watchdog goes on: when the error of a socket that was let go arrives after a session timeout and auto-connect | `Quiet` without `"aborted"` and `MaxCommands = 6` in `link`: `LinkTrue` |
| the extension does not drift to the port that worked last (SW 4853) | Connect does not stop the retry for the old port, which sets `wsPort` again; the next chat message then makes it the requested port (4954-4960) | the requested port equal to `asked.port`, as an invariant in `link` |
| revoking a site (SW 5333) | when an answer for another site is being stored, that writes the rule back | `Single <- FALSE` in `MCSafety`: `UserDecides` |
| one owner of the port, everyone else a proxy (`server/index.js:1918-1919`) | a recovery that overlaps the first election makes the owner believe to be a proxy (408-417, 2758-2763, 4642-4656) | `Overlap <- TRUE` in `MCParts`: `RolesTrue` |
| a cancelled batch stops (`docs/WORKFLOWS.md:137-138`) | an entry that is being looked up has no run yet and starts all the same | `CancelBatch` between `find` and `Track` |
| runs that end while the history is cleared are kept (WE 1532) | a run is lost when its end overlaps a write or the clearing | `Prompt <- FALSE` in `MCParts`: `StoreKept` |
| `respond_to_chat` sends the answer to the chat request (`server/index.js:10955`) | the request was answered when it was queued (3550-3582), so nobody waits for the answer and the worker drops it (SW 3858-3884) | `IdeAnswerShown` of `Chat` as a property of `MCSafety`, in `safety` |
| only one run can be active at a time (SW 1140-1141) | the lock is one per panel, and runs of schedules take none: several go on, and the stop reaches the newest only | `\A r, q : Started(r) /\ Started(q) => r = q` in `AgentRuns`; `HandleTrue` says what holds |
| an ineffective reload leads to a bounded blocked state (`docs/RELEASE-READINESS-4.3.0.md:26`) | the count of attempts is lost when the lifecycle is recorded at the same time (SW 11081-11100); the automatic path counts nothing and reloads every half hour | `Apart <- FALSE` for updates in `MCParts`: `UpdatesKept` |
| an automatic reload comes ten minutes after the last (`AUTO_UPDATE_RELOAD_COOLDOWN_MS`, SW 194, 11329) | two minutes after a reload that was asked for in vain the next check removes the mark of the automatic one too (11216-11221), and goes on to reload by itself: automatic reload, Apply, both without effect, a forced check | `"auto" \in timers => recent.auto = 0` as an invariant of `UpdateFlow`; `ReloadsBounded` allows one such reload for each mark removed |
| the popup is not stuck on "Downloading" for ever (SW 4763-4765) | a download that was lost before its first report, with a reconnect within ten minutes, keeps its mark until the next reconnect, and blocks every automatic update | `Updated` without `Stuck` in `UpdateFlow` |
| the result of the bridge reloads the extension when it lands (SW 11738-11739) | when it is lost, or the worker ends in the 600 ms before the reload, the bridge finds the files current from then on, and nothing reloads | `Updated` without `Stranded` in `UpdateFlow` |
| a run of the agent is never torn down (SW 11383-11384) | the result of the bridge reloads without looking (3781), and the automatic reload has looked 500 ms and two awaits before (11312-11339) | `timers = {} \/ agent # "going"` as an invariant of `UpdateFlow` |

Others need a property of their own, which no run states; the behaviour is in the modules:
same-tab calls run in arrival order (`tool-lanes.js:5`), but a call with two lanes waits for them one after the other;
calls that move the active tab run alone (SW 4113), but a batch step keeps the shared pass of its batch;
a pinned tab belongs to one client (SW 1742), but two clients can pin it at the same time (`StartAdopt`, `Adopt`);
idle sessions are closed (`README.md:339`), but a session that has just started may be too;
holds of a gone script are not approvable (`codemode/index.js:207`), but a call in flight at the deadline leaves one;
an approval resumes the script (`codemode/index.js:272`), but not when the life of the pause ends during the call;
the caller gets the next outcome (`codemode/index.js:16-17`), but not when the script ends during a pause;
waiting is not counted (`README.md:244`), but a parallel branch is held to the old deadline (`Interrupted`);
a `run_cancel` of a batch that has finished turns its report into "cancelled" (`ViewStatus`); a kill between the last write of a stopped recording
and its draft loses it (`lost`); two starts of a recording at once both pass the test that there is none (`Apart`).

a chat request with an id that an earlier worker used and stopped is taken for stopped and never answered (`Haunted`);
a broken socket ends the waiting but not the job, which no stop reaches any more (`Broken`);
the end of a CLI deletes the entry of a newer job of the same id (`CliEnds`; `CliKnown` is stated without kills);
an agent of the bridge looks at the page once more after a stop (`Acted`), and a stop while a run still looks for its tab finds no handle (`Open`).

Beside the models: an update looks at the handle only, so an older run of the agent may be cut off (SW 11312); a message of the client that is split over two reads when its bridge is replaced is cut in two, the end of stdin
before the queue is flushed drops the queue, and a handshake of more than 256 KB is not replayed (`self-restart.js:89-103`, 218-223);
a connection attempt of a process that meanwhile becomes the primary connects it to itself (`server/index.js:2594-2626`); a call of the
agent runs on the page that the tab shows when the user has answered, not on the one the user was asked about (SW 1411-1458);
`har_stop` stops whichever recording runs (SW 8580-8591).

## 5. Proofs

`ToolLanesProofs` proves, for any set of calls, keys, batches, deadlines and timeouts that meets
`CallsAssumption`, `KeysAssumption` and `ScenarioAssumption`:

* `LanesConsistent`: `Spec => []LaneInv`, the type invariant of the locks and the bookkeeping;
* `LanesExclude`: `Spec => []LaneExclusion`;
* `GateConsistent`: `Spec => []GateInv`, the gate, the holders and `heldLanes`;
* `LocksAreSound`, `ExclusiveRunsAlone`: `LocksSound` and `ExclusiveAlone` are invariants;
* `OrderKept`: `Spec => []OrderInv`, who comes before whom; `CallsRunInOrder`: `ArrivalOrder` is an invariant;
* `LateNeverStarts`: every step meets `NoLateStart`.

`LaneExclusion` speaks of handlers, the scheduler of tickets, queues and promises, so it is not inductive.
`LaneInv` adds what connects them: a waiter in a queue is a call whose promise is pending for that very lock,
once (`WaitersPending`); every key of a ticket is locked for it, also one that was handed over and not yet
noticed (`TicketsHoldKeys`); `heldLanes` names only keys that running calls of the context hold
(`HeldLanesCovered`); what a call skipped is held by its batch (`NeedsCovered`), which is still running
(`StepsInsideBatch`). The proof has one lemma per way a ticket changes: `LockKeyInv`, `LockGateInv`,
`StartInv`, `DropWaiterInv`, and `ReleaseInv` for the three ways to end; `StepInv` maps the actions to them.
The hardest step is `ReleaseInv`: keys are given to the heads of several queues and the gate to several waiters at once.
Exclusion on a lane needs only the keys. What is said of the gate is `GateInv`, inductive together with `LaneInv`: one exclusive
call or shared ones, each of which waits for keys, runs, or has its grant on the way (`GateHolders`); a context passes once, the batch or
one step at a time (`BatchSteps`); who waits for a key or has one is past the gate (`PastGate`); the head of the queue may not pass
(`GateBlocked`); and `heldLanes` is exact, in both directions (`HeldExact`). Each way a ticket changes has a second lemma
(`ReleaseGate`, `LockKeyGate`, ...). `PassBlocks` says how far `pumpGate` goes and that whoever it leaves at the head is blocked.

The order of arrival goes through two queues and the microtasks between them, and `OrderInv` says for each that the older of two calls is
first: at the gate, and among those it has let pass and who have yet to continue (`GateOrder`); then at the smallest key of a call, the one it asks
for first (`FirstKey`), where nobody younger holds that key or waits before it (`KeyOrder`). A call that asks for its first key has just come
through the gate, and until then nobody younger got further, so it never finds a younger one ahead. The order among the microtasks
has a meaning because there is one job for each settled promise (`JobsOK`) and a pending promise is in its queue (`QueuesFull`). Beside
lemmas on sequences (`ConcatFacts`, `CutOrder`, `RemoveOrder`) there is one lemma per primitive again; the longest is `ReleaseOrder`, where one
release settles promises of several keys and of the gate at once, in an order that the invariant must not depend on beyond the gate.

Of Code Mode, `SafetyProofs` proves, for any scripts, finite set of calls, limit, lifetimes and deadlines that meet
`CodeModeAssumption`:

* `ScriptsConsistent`: `Spec => []ScriptInv`, the inductive invariant;
* `CallsRunOnce`, `PlacesBounded`, `ClocksRight`: `RanOnce`, `PausedBound`, `ClockStands` are invariants;
* `TypesHold`: so is `TypeOK`, which says that a place is taken by the hold that a live script reports and by nothing else;
* `HoldStaysOpen`: every step meets `HoldOpen`, for scripts that await each of their calls (`~Parallel`).

`RanOnce` needs to know that a call with a confirmation, or in flight, has not run yet (`RunsAhead`): approving
uses the confirmation up, and a call that returns never gets one. `ClockStands` speaks of live scripts and is
proved of all (`ClocksStand`), so that an action need not know whether its script is still there. `ScriptInv` falls
into three parts that actions change as a whole (`Parts`): scripts, calls with their confirmations, places. Three
lemmas carry most of the proof: `SettleKeeps` for the six ways a script ends, `ReportKeeps` for a hold that is
reported, and `TakeKeeps` for one that is decided, where `PlaceHandedOn` shows that handing the place to the next
hold never takes a second one. The limit needs no exact relation between the places and the scripts; `TypeOK` does, and its
invariant is `ScriptsOK`: what a script reports or keeps in its queue is a call of its own (`HoldsOwn`), so that the
end of one script frees no place of another (`SettleExact`). With `~Parallel` it also says that a live script has one call that is not
over, that this call is its hold when it is held, and that the hold has as long to live as its confirmation (`SerialOK`). A
tick passes no timer that is due, so a paused script has time left when time passes, and with it the confirmation. With `Parallel` a
second hold is reported when its confirmation is already older, and `HoldOpen` fails, see section 4.

`SafetyProofs` proves of the machine that `MCSafety` checks, for any constants that meet `PartsAssumption`: each of its parts has an
inductive invariant of its own, and a step of another part leaves it alone. Of the action gate, for any sites, calls, tiers and restarts:

* `UserDecidesThere`: `UserDecides` is an invariant.

`UserDecides` looks at calls that run; `DecidedInv` follows them from the answer to the handler. A call that is about to
store a rule has got the user's consent for its site (`WritesPermitted`), and what it has read of the map is still
permitted when it writes, because nothing is revoked in between: this is where `Single`, which the run sets, is needed, and section 4 shows what happens
without it. A call that is allowed was answered, or has seen a rule and is not destructive (`RunsPermitted`).

Of the agent loop, for any runs, panels, paths and limits:

* `HandleTrueThere`: `HandleTrue` is an invariant, with the types.

`HandleTrue` is inductive together with the types and with what bounds the turns (`RecordOK`: a run that asks its model has
one left). The proof shows once for each of the three paths that whatever a run does either goes on without touching locks and handle
(`Moves`) or ends it (`Over`), and then only looks at these two.

Of the chat requests, for any finite set of requests and any kinds, broken connections and ends of the worker:

* `ChatTrueThere`: `ChatTrue` is an invariant, with the types.

What a message, a job or an answer has to do with a request is only its id, and a worker that starts again gives ids out again.
`ChatInv` follows each request: it is on its way once and has no job yet (`UpOK`), its job has its id and its kind (`RequestOK`), an answer
on its way is one of the connection that is open (`DownOK`), and an id that counts as stopped was stopped by the user (`AbortedOK`).
`IdsOK` says how far ids can be told apart: those of the requests of one connection (`OfConn`) differ, since the counter starts again only when
the connection has broken, and those of one worker differ. This makes an answer that somebody waits for his own. A request that
waits was made over the open connection (`WaitingOK`), so its job can answer, unless it is taken for a stopped one. Every step of a job is one
of a few (`JobGoes`): it goes on, answers, or is over because of a stop.

Of the agent loop and the chat requests together:

* `StopIsObeyed`: `MCSpec => StopObeyed`, an action property.

It follows from the two case splits: a stopped run moves only to the gate or to its model, and the job of a stopped request
only looks, waits for its provider, or is over.

Of the lanes, in the scene of that run:

* `LanesOrderedThere`: `LanesOrdered` is an invariant, from `ExclusiveRunsAlone` and `CallsRunInOrder` of `ToolLanesProofs`.

`SchedulerProofs` proves, for any schedules, operations, periods, graces and faults that meet `SchedulerAssumption`:

* `TypesKept`: `TypeOK` is an invariant, with it that `running` names the runs in progress;
* `RunsApart`: so is `NoOverlap` when no run is executed in the bridge (with `Scripts` a kill leaves an orphan, see section 4);
* `ToldStaysTrue` and `AlarmsAtRest`: so are `AckedChangeKept` and `ArmedAtRest` when the user's changes overlap nothing
  (`ChangesApart`);
* `OnceForOne` and `OncePerSlot`: a schedule, and with it `OneRunPerSlot`, is run by the timer at most once in a slot unless one of three
  things happens to it: a save brings an older, due entry of it back (`BroughtBack`), the user moves its grid (`Retimed`), or its alarm has
  outlived the browser and is due while that is closed (`Overdue`).

`OncePerSlot` is not confined to the scene of the run: it is about any number of schedules and operations, which may overlap in any way
(`Apart` is arbitrary), and alarms may outlive the browser. It says that the two failures of section 4 are all there are: two schedules
that fire together run one of them twice by `BroughtBack`, an alarm that survived by `Overdue`. What it asks of the constants is that a run
is made up for no later than a run may be late (`CatchUpDelay <= Grace + 1`, in the code 5 s and 60 s).

`ChangesApart` is what the run has, too: without it a stale copy of the map undoes a change (section 4). The proof has three layers. `SchedInv` has the types and what an operation has at each of its awaits. `ChangesInv`
follows a change from its request to the answer (`ChangeTrue`), says of every other copy of the map that it agrees with storage but
for the next runs (`CopyTrue`), and of an enabled schedule without an alarm that some operation is still going to create it
(`Covered`). `SlotInv` looks at one schedule, in storage and in every copy of the map that some operation is
going to save: as long as any of them has it, it has one grid (`Lives`). Once a run by alarm has begun in a slot, the alarm is not before the
next point of the grid and the next run is that point (`SlotOK`); an operation that sets the next run has set it in its copy, the others
carry what they have read (`CopyOK`); and a timer, a start-up or a creation that is still on its way finds a slot without a run, and no
second timer on its way (`TurnOK`). Each layer has one lemma per action; most steps of the third move one job and are instances of `SlotMoves`.

`MCSchedulerProofs` carries this over to the two scenes of `MCScheduler`: a behaviour stays in its scene and is there one of `Scheduler`
with the constants of the scene, so `NoOverlap`, `AckedChangeKept` and `ArmedAtRest` hold for any schedules, operations, periods and
graces.

`MCPartsProofs` proves of the machine that `MCParts` checks, for any constants that meet `PartsAssumption`: each of five of its
parts has an inductive invariant of its own, and a step of another part leaves it alone.

Of the in-place restart, for any number of messages (more than the two of the handshake) and of restarts:

* `SessionIsKept`: `Spec => Restart!Session!Spec`. The initial states of `SelfRestart` map to those of `StdioSession`, and every step to
  a step of it or to none. What `SessionKept` says beside that, that all is answered in the end, is fairness and stays with TLC.

The messages of the client lie anywhere in a chain of pipes, queues and processes, so the invariant counts them:
in `Flows` there are for each pipe a number `x` of the client's messages that have entered it and `a` that have left it, and a line lies where these
say (`Lined`): the replayed lines of the handshake first, then the client's messages `a + 1 .. x`. `Heard` says what each process has
captured, `Greeted` that captured and still replayed lines make up one handshake, `Answers` that a request is worked on or answered in
one place only, and that the answer to a replayed `initialize` meets a relay that drops it. The counters are not variables of the model: they are witnesses, and each
step names the next ones. The lemmas are one per way to move a line: into the chain (`send`), through a relay, into a
server, by the replay, and back.

Of the election, for any processes, rounds, tries and ends, when no recovery overlaps the first election (section 4 shows what
happens when one does):

* `RolesTrueThere`: `RolesTrue` is an invariant; it states the types of `SelfRestart`, too.

`RolesTrue` speaks of what a process believes, `ElectionInv` of what it holds: the port is held by a process that is the primary, or that has
bound the port and is about to say so (`HoldsPort`), and by one that closes only until it has closed it. A process has one task at a time and none as
the primary (`OneTask`); one that elects has no connection, and tries to connect only after the port was taken (`Electing`), so that a late
connection never makes a secondary of the primary.

Of the saved workflows and the history of runs, for any workflows, ends of runs, changes and reports, when changes by the user are
alone with the map (`Undisturbed`) and no run ends while the history is being written or cleared (`Prompt`):

* `StoreKeptThere`: `StoreKept` is an invariant.

`StoreInv` follows a copy of the map from the moment it is read until it is saved: one writer at a time is between the two (`OneChanges`), the
runs because `chain` names them in their order and only its head is past the wait (`InTurn`); what is saved is then the map as it is, with one run more or with the
edit (`Saves`); and a run that heals has the edits that came before it in its copy (`Heals`). `HistoryInv` follows a report through memory,
timer, write and storage: what is in memory is what was last written, or taken over, and what has come since (`Signed`); a report that storage
does not have is in memory with a timer or a write to carry it (`ReportsKept`); the last storage event on its way is that of the value in
storage (`LastEvent`), so an older one is never the last word; and no list that is stored, or on its way, has what was cleared (`ClearedGone`).

Of the next run, for any length of the day, any steps, horizon and moment of the change of the clock:

* `FirstSlotThere`: `FirstSlotAfter` is an invariant.

The model computes the next run as the code does, from the local fields of a moment and by looking ahead for a few days; `Slots` says when a schedule is due. `Moment`
is the moment at which the local clock has run for a given time, and the proof rests on two facts: it does not decrease (`MomentLater`), so the
first day that matches gives the first slot, and a weekday comes within the days that are looked at (`WeekdayComes`). The clock
changes by one unit, as in the run. With a larger change `FirstSlotAfter` is false when the local times that are skipped lie across
midnight: a time skipped before it is due on the next day, where the day itself is looked for in vain.

`TabsAndRunsProofs` has two parts. The first proves of tab isolation, for any clients, windows and state objects, any finite sets of tabs and
of operations in progress, and any bound on operations and restarts, that meet `TabIsolationAssumption`:

* `TabsAreTracked`: `TabsTracked` is an invariant;
* `UserTabsAreSafe`: `TabsSpec => UserTabSafe`, an action property.

What they say of tabs at rest and of windows is under `calm`, as in the run; section 4 says what a kill or a race does to it. Everything
else holds whatever overlaps. The inductive invariant is `TabsInv`. Its part without `calm` says what sessions and operations can have
in hand (`TypesKept`): no session, stored or in memory, owns a tab of the user's, and an operation closes one only if it is an explicit
close of it (`JobOK`), even if the map has forgotten the object it holds. With `StoreOwed`, that the storage lags behind the map only
while an operation is going to write it, this gives the first half of `UserTabSafe`. The rest is `CalmInv`: an operation that opens
or adopts a tab has the object that is in the map (`Current`), adopted tabs come from home and no two operations adopt one (`FromHome`),
at most one operation closes tabs (`OneCloses`), every open tab of AutoDOM's is owned or about to be closed (`Kept`), every tab of the user's
that is away has somebody to put it back (`GoesHome`), and the operation that closes tabs leaves a tab in each window (`KeepsWindow`).

The second proves of workflow runs, for any runs, entries of the batch, steps and concurrency that meet `WorkflowRunsAssumption`:

* `ReportsAreTrue`: `ReportsTrue` is an invariant, with the types, the bound of the batch and the run that is shown;
* `RunsStopAtStep`: so is `StopsAtStep`.

`StopsAtStep` is inductive with what `late` means (`RecordOK`): a step that was started late is one of a run whose flag is
still set, and behind the look at the flags (`digest`) no step is late yet. `ReportsTrue` needs that the map has every run in its loop
(`Tracked`), that what the batch says of an entry is what its run is at (`ItemOK`), and that entries are taken in order
(`TakenInOrder`), so that the worker which takes the next entry replaces exactly the one that ended: this is how `Cardinality` stays
within the concurrency. Most steps change only runs in their loop (`GoingOn`); the hard one is `ItemEnds`. `MaxOf` and
`RemoveAtSet` say what the operators on the map return; that a set of numbers has a smallest element is taken from the well-founded order of
the library.

`BridgeCallsProofs` proves, for any processes, finite set of calls and numbers of drops, kills, crashes and faults that meet
`BridgeCallsAssumption`:

* `ClientGetsItsResult`, `CallStartedOnce`, `NoWorkAbandoned`: `OwnResult` (with `TypeOK`), `StartedOnce` and `NoAbandonedWork` are invariants;
* `CallStaysCancellable`: `Spec => StaysCancellable`, an action property.

Ids start at 1 in every process and are translated at the primary, so nothing can be said of an id without knowing who gave it
out. The witness `g` of `CallsInv` lists, for each process, the calls that it has numbered: no call twice (`Numbered`), so that
the counter never exceeds the number of calls. While the first primary goes on, ids mean the same everywhere (`Meant`): the id in a message,
an entry, a work record or a result is the number of its call at the process that the message, entry, record or result belongs to. This
gives `OwnResult`, and it ends where ids start again, with a take-over. `Placed` says that the message of a call is in
one place (a link, the held calls, the socket) and the extension has not heard of the call while it is: this gives
`StartedOnce` under all faults. `NoAbandonedWork` needs most (`Tidy`): a call that nobody waits for is followed by its
cancellation on its channel (`Dropped`), or the primary still waits for it and will hear of it (`Waited`), and an answer on its way back is that
of a call that is over at the primary (`Closed`). It is stated while the socket has never closed, and then the primary holds no calls
and every secondary is linked. Each part of the invariant has a section, with a lemma for each kind of step.

`BridgeLinkProofs` proves, for any ports and bridges and any number of commands, kills and troubles, when commands are `Calm`:

* `LinkKept`: `Spec => []LinkInv`, the inductive invariant;
* `LinkIsTrue`: `LinkTrue` is an invariant.

Every function of the worker is an operator on its memory, and has a lemma that says what it changes (`ConnectFacts`, `NowFacts`,
`OnCloseFacts`, ...); a handler is a composition of them, and its proof one of their lemmas. `WorkerOK` is what holds of a memory at any time.
Beside the socket in `ws` there is at most one, which was let go while it connected (`Aside`); a retry is armed only when it would connect
(`Tries`), so that none ever fires in vain and leaves its handle behind; and after a session timeout no fallback can come (`Over`).
`Stored` and `Restoring` say that the settings, the flag and what a new worker has read of them agree until it acts on them, and `Obeyed` that they
are what the user has asked for. That is what carries a Stop over a kill. The proof asked for the last part of `Calm`: without it `Tries`
is false, and so is `LinkTrue`, with more commands than the run has.

Out of the prover's reach, and left to TLC: everything under fairness (`WaitersMoveOn`, `KeepsRunning`, `UpdatesKept`, `Answered`,
`RunEnds`, `RunsEnd`, `Joined`, `Reconnects` and what `SessionKept` says of the end). `RecordingKept` filters sequences with `SelectSeq`, of which
nothing can be derived without induction over their length. Only model-checked so far, though within reach: the safety
of the updates.

## 6. Not modelled

* `bridge-reaper.js`: `decideReap` is a pure function over one snapshot of the processes, with a table of tests; what is around it
  is process I/O.
* Admission, pins and window captures: `TabIsolation` states what it assumes of them (`MayAdmit`).
* Of the agent loop and the chat: what models answer, streaming and its optional idle timeout, which provider is asked, and how answers are
  parsed. Their liveness is not stated: a provider may take as long as it likes.
* Of the connection of the extension: the search for a bridge on another port, which only shows a hint, and what happens when the
  browser starts. Of the updates: how files are downloaded, verified
  and replaced, updates of the server alone, the hint for a release that is not ready. The automation store: files. The other parts see an
  update as a worker that is killed.
* What a step of a workflow does on a page, undo execution, exports; the content of tool calls; output filters; user interface;
  API generation; media, HAR and debug recorders; installers.
