# FlupCode in TLA+

FlupCode drives a coding engine (OpenCode) unattended: it runs graphs of tasks in a project's folder,
on a schedule or on request, holds them for a person where they asked to be held, keeps them inside a
budget, checks what they did, and says all of it to a web app, a desktop app and a phone over an event
stream. This directory holds a formal model of that program's core: modules translated from the code in
`packages/`, configurations that model-check them, and proofs.

## 1. The system

Everything interesting happens in one process, the **harness server** (`packages/harness-server`): a Bun
server over one SQLite file. It is single-threaded JavaScript, so what runs between two `await`s is
atomic, and every `await` is a place where another request, another task or the scheduler's tick can
change the rows the code read before it. It can be killed at any time; only the rows survive.

| Component | State it keeps | Operations | Hard behaviour |
|---|---|---|---|
| Task runner (`runner.ts`) | per activation: a `RunContext` (pause, failure, halted, handed-on notes, waiting set) and the set of running promises | the loop of `runGraph`; `runTask` of four kinds; judge, retry, note, checkpoint, gate | several tasks in flight over one context; state read before an await; a gate, a budget and a stop that meet |
| Scheduler (`scheduler.ts`) | `stopping` set, `overBudget` map, `ticking` | `runTasks`, `approve`, `retryTask`, `cancelTask`, `resume`, `stopRun`, `checkBudgets`, `tick` | calls that interleave with a loop in flight; who drives the run afterwards |
| Store (`repository.ts`) | runs, tasks, routines, locks, events, ledger, checkpoints | conditional updates, each followed by one event | crash recovery; rows that must not be rewritten |
| Verdicts (`verdict.ts`, `verify.ts`, `visual-verify.ts`) | a verdict per task | rule, auditor, check; worst standing verdict | a late judgement over a newer one |
| Engine client (`engine.ts`, `engine-v2.ts`) | none of its own | prompt, `waitForIdle`, interrupt, answer | turns that end, hang, ask, are refused or are cut |
| Event stream (`stream.ts`) | the event log, a cursor per connection | append, catch up, gap, prune | a log pruned under reconnecting readers |
| Budgets and usage (`budget.ts`, `policy.ts`, `usage-ledger.ts`, `usage-reconciler.ts`) | append-only ledger, standings | ingest, reconcile, announce, halt | the same fact delivered twice or late |
| Routines (`schedule.ts`, scheduler's `tick`, `begin`, `execute`) | per-routine lock with a lease, last firing | due, begin, heartbeat, release, notice | a lease that lapses, a run that pauses, a throw between acquiring and running |
| Browser actions (`browser*.ts`, `action-*.ts`) | sessions per project, permits, single-use approvals, bridge peers | open, act, approve, reveal, close | a session shared with a person; approvals that expire |
| Workflows and plans (`workflow.ts`, `plan.ts`, `plans.ts`) | files | parse, validate, expand | pure |
| Checkpoints (`checkpoint.ts`, `git.ts`) | git refs | take, restore, drop | a folder that changes between plan and restore |
| Adaptive layer (`adaptive/`) | episodes, proposals, holdouts | select, learn, promote, roll back | late outcomes, retention |
| Quota poller (`quota/`) | last reading, back-off | poll, forecast | stale readings |
| Pairing and vault (`pairing.ts`, `vault.ts`) | codes, tokens, credentials | pair, refresh, revoke | expiry races |
| Remote host (`remote/src/{channel,tunnel,host,connect,relay}.ts`) | devices, channels, streams | handshake, multiplex, flow control | closed streams, credits in flight, reconnects |
| Relay (`relay/src/relay.ts`) | hosts, clients per host | authenticate, open, forward, drop | a host that reconnects while clients are open |
| Supervisor (`remote/src/supervisor.ts`) | one child, its phase, its restarts | launch, restart, stop, reap | stop during launch |
| Notifier (`remote/src/notifier.ts`) | what was pushed | follow the stream, push | reconnects without a sequence |
| Engine plugins (`remote/src/engine-plugins*.ts`) | generated plugin source | usage outbox, permissions, prompts | lost and repeated posts |
| Web client (`harness/`) | lists, reduced from events | refresh, apply | a write between two reads |
| Desktop, CLI, extension (`harness-desktop`, `flupcode-cli`, `bridge-extension`) | windows, child processes, tab scopes | start, supervise, relay CDP | process lifetimes |
| Contract, evaluation, site (`engine-contract`, `adaptive-eval`, `landing`, `wiki`) | none | types, offline evaluation, pages | none |

How they interact: the API calls the scheduler; the scheduler drives a run through a `TaskRunner`, once
per activation of `drive()`; the runner calls the engine and writes rows; each write appends an event and
runs every stream's listener before it returns; the ledger's ingest calls `checkBudgets`, which sets a
flag that the runner reads at its next await and interrupts the live sessions. A run's row
(`status`, `paused`) is the only thing readers see, and is written by the loop, by the scheduler's calls
and by recovery.

## 2. The modules

| Module | Models | Kind |
|---|---|---|
| `RunGraph` | what the runner reads off a task graph: `dependencies`, `settled`, `decide`, `condition`, `handoffFor`, `checkedTask`, `expectsFailure`, `runVerdict`, `resumePoint`, `behind`, and the new rows a retry, a resume or a fan-out adds | pure operators, recursion as recursive functions |
| `RunEngine` | a run: the loop, the bodies of its tasks, and every scheduler call on it, with restarts of the server | state machine over `RunGraph` |
| `RunLifecycle` | what a run's row promises a reader: phases, how many loops work on it, what the endings mean | abstract specification |
| `RoutineScheduler` | when a routine's runs start and what keeps them apart: tick, run now, begin, execute, locks, retries, notices | state machine with time |
| `EventStream` | the event log, its pruning and the connections that follow it | state machine |
| `UsageLedger` | the two ways a fact of the engine's usage reaches the ledger: the plugin's outbox and the reconciler | state machine |
| `BrowserDriver` | the browsers of web actions under the runs, previews, viewers and people that use them | state machine |
| `Tunnel` | requests and sockets over one secure channel, both ends | two state machines over two queues |
| `Relay` | the relay's sockets, the host's connections and the phones' | state machines over queues |
| `ChildSupervisor` | the engine's process under its supervisor, over hosts that crash | state machine |
| `MCRunEngine`, `MCRoutineScheduler`, `MCRelay` | the plans, routines and symmetries the runs are checked with | model-checking modules |
| `RunEngineProofs`, `EventStreamProofs`, `RoutineProofs`, `UsageLedgerProofs`, `SupervisorProofs`, `BrowserProofs`, `RelayProofs`, `TunnelProofs` | theorems about the module each is named for; the first also holds the lemmas about `RunGraph`'s operators | proofs |

### RunEngine and the code

A **driver** is one activation of `drive()`/`runGraph`: its own `RunContext` (`approved`, `near`, `pause`,
`failure`, `halted`, `notes`, `waiting`) and where its loop stands. Two drivers exist because nothing in
the code stops a second activation; the model has as many as `Drivers` allows. A **body** is one call of
`runTask`, at one of its awaits:

- `turn`: the session, the command, the recipe or the checks are running (`startTask` to `finishTask`);
- `judge`: an agent's row says `success` and the auditor is being asked;
- `note`: the closing note is being written;
- `close`: the checkpoint is being taken, after which a gate holds the run (`afterTask`);
- `cut`: the checkpoint of a turn stopped at its budget.

One action per synchronous stretch. `LoopStopped`, `LoopDrained` and `LoopPass` are one round of the
`while` of `runGraph` each, through `Promise.race` (`Wait`) or out of it through the end of `drive`
(`Leave`, which is `throw`, `halted` and `paused`/`done` together with what `drive` writes and
`finishRun`'s clearing of the flags). `TurnFails`, `TurnStops`, `TurnHalts`, `TurnCut`, `TurnSucceeds`,
`TurnBreaks` and `Check` are the ways a turn ends; `Judge`, `Note`, `Close` and `CloseCut` what follows.
`Approve`, `Retry`, `Cancel`, `Stop`, `Resume`/`Restored`/`RestoreFails` and `OpenThread` are the
scheduler's calls, whole, with `setPaused`, `reopenRun`, `addTasks` and `requeueTasks` inside them.
`Spend` is the ledger's insert followed by `checkBudgets`. `Crash` is the process dying and
`recoverRunning` on the next start. `Ask` and `Answered` are a session that waits on a person.

A loop that has been woken goes round before anything else happens: a settled promise resumes it in the
same turn of the event loop. The model says so with `Quiet` (no driver is at `loop`) in the guard of every
other action.

What is abstracted: a task's prompt, model, answer, tokens and error text; which verdict the rule and the
auditor reach (any the code can give); the ledger's sums, which are a level `low`, `near` or `over` that
only rises; a plan file's steps, which are up to `MaxSteps` rows; worktrees, packs, memory, artifacts,
findings and reports, which no decision of the loop reads. A routine's run is driven by `execute` rather
than `drive`, which wraps the same `runGraph`: that caller is in `RoutineScheduler`.

### RoutineScheduler and the code

Time is counted in units. `TickBegins` reads the routines that are due (the beats of `schedule.ts`, and the
retries failed runs earned) and `TickFires` begins one of that snapshot, with the `now` the tick began with, as
`tick` does: a routine that changed since is fired by what was read. `begin` has two awaits. Before the
first it takes the lock (`acquireLock`, which deletes lapsed rows and inserts), between them it reads the
workflow file, which may throw and keep the lock (`Beginning`), and after the second the run's row is written and
`execute` is entered, whose heartbeat (`Heartbeat`) renews the lease. `RunEnds` is the end of `execute` or
of `drive`: the run's row, the release of the lock, the notice of a streak. `RunPauses` releases the lock and
leaves the run to `approve`, which drives it without one. `Asked` is what people do: run now, enable, disable,
remove, stop, approve. `Restart` is the process dying, `recoverRunning` and the deletion of every lock.

An agent of a run may ask a person. With `UnattendedGate` the run is then held (`holdForRequest`: the row is `awaiting`
with `paused: request`, here the status `request`) while `execute` or `drive` still awaits its turn, lock and
heartbeat included, until it is answered or interrupted by a stop (`releaseRequest`). `approve` refuses such a run, a
restart fails it. That a gate of another branch may overwrite its reason is `RunEngine`'s (`two_drivers`): here a run
is let go before it pauses.

`Pass` lets time go on while the host is awake: no timer that is due is passed over, and what a tick or a
`begin` awaits is back within `Slack`. `Nap` is time in which no timer fires. What a run does is `RunEngine`'s:
here it ends one of four ways, pauses, or is held for a request.

### EventStream and the code

`append` writes a row and calls each live listener, which is one step. `pruneEvents` deletes all but the
newest `Keep` and whatever is older than a week; which events are older is a free choice. Event times are
taken to ascend with sequence numbers, so the stored log is an interval. A reader either resumes from the
id it last saw (`Last-Event-ID` or `?after=`, as a browser's `EventSource` does and the API's
documentation offers) or reads the lists and opens from the end, as the app's and the notifier's loops do.
A connection holds what was enqueued and not yet read; losing it loses that queue. A `Remote` reader sees
a subset, and what is withheld still moves the server's cursor.

### RunLifecycle, the abstract specification

`KeepsItsPromise` maps a run's row and drivers to `RunLifecycle` (`INSTANCE ... WITH` in `RunEngine`): the
phase is the status, with `awaiting` split into held for an answer and waiting; `driving` is the number of
loops plus the thread being opened; `stopAsked` is the scheduler's flag; `left` is whether work is queued.
Implementing it means: exactly one loop while a run is running or held and none otherwise, a run asked to
stop never pauses and only ends `stopped` (or fails with what worked on it), `success` leaves nothing
queued, and only a person takes a run from rest back to running.

### Tunnel and the code

The phone's half is `streams`, `phase`, `upload`, `received`, `taken` and `credited`; the host's is `requests`,
`run`, `size`, `window`, `sent`, `whole` and, for sockets, `sockets` and `engine`. One action per frame
handler (`reqHead`, `reqBody`, `reqEnd`, `resHead`, `resBody`, `resEnd`, `resAbort`, `credit`, `forget`, ...),
per thing the phone's app does (fetch, send its body, read, abort) and per thing the engine does (answer,
produce bytes, fail). Bytes are counted. `toHost` and `toPhone` are the channel, in order; `PhoneCloses` and
`HostCloses` close a side, which loses what was on its way to it and runs the `onClose` handlers whole.

### Relay and the code

`peer`, `registered`, `nextChannel`, `clients`, `data` and `link` are `relay.ts`'s maps and what it hangs on each
socket; `owner`, `socket`, `stopped` and `channels` are the host's end in `connect.ts`; `phone` is a client's. The
queues are the WebSockets. An end may find a connection dead before the other (`breaks`), and `Admits` is
the handshake's last step: the newest connection that proves who it is replaces the one before, whose phones
are let go. Channels are numbered from 1 on each connection, so a late close or a late frame can name a
channel that now belongs to another phone.

### ChildSupervisor and the code

A supervisor is an object: `stopEngine` drops it and the next start makes another, while what the old one
awaits goes on. `launch` holds, for each process, which supervisor awaits it and whether `waitUntilReady`
races its exit (`racing`), it is watched (`watched`) or nobody waits (`over`). `LaunchEnds` is the end of
`launch` each way, `Exits` the handler of `exited`, `Restarts` the pause's timer, `RunsSteadily` the reset of the
count. `Opens`, `Reaps`, `Reaped`, `PortTaken` and `Begins` are the desktop's `ensureServer` with `reapOrphan`;
`Retries`, `StopsEngine` and `StopReturns` the banner and the stop; `Crashes` and `Quits` end the host, after which
only processes, port and pid file are left.

### UsageLedger and the code

`Spends` is the engine giving a fact a stamp and telling the plugin, which queues it (`enqueue` drops the oldest
at `MAX_QUEUED`). `Sends`, `Taken`, `PostFails` and `TriesAgain` are the outbox's flush; a post that timed out may
still arrive (`StrayTaken`). `PassGoesOn` is one await's worth of `reconcileUsage`: the active set, a page of the
listing, a transcript, its rows, its mark, and at the end the floor. `PassFails` and `HarnessRestarts` cut a
pass short: the floor is in memory, the marks are rows. The ledger is a set, since both paths name a fact alike and
`ingest` ignores a name it has.

### BrowserDriver and the code

`sessions` and `projects` are the two maps of `createRecipeDriver`. `made` are the sessions as objects: an id may be
opened again while calls of its old session are awaited, and every continuation in the code holds the object.
`callers` are the calls: a recipe's run (`drive`: open, steps between which it may be held, close), a preview
(`previewDrive`), the routes, and the viewers whose page calls (`pageOp`) share a session with a run. `Reveal` is one
stretch of `reveal()`: close the headless Chromium, launch a headed one, bind it and publish it only if the
session is still the one registered. `Close` is `closeSession` with what `stop` and `abort` add in the same turn;
`Pause`, `Resume` and `TakeOver` are the person's. The profile's lock is Chromium's own: a launch waits until
no other holds it (`InUse`).

## 3. What is checked

Every passing run explores its whole state space, within seconds to about three minutes on two workers.

| Run | Instance | Shows |
|---|---|---|
| `run_core` | four plans, one task at a time: work behind a gate with a retried check, a fan-out, a recovery branch with `require`, one task of each other kind; approve, stop and cancel at every point, one restart; 32 thousand states | the ending, the verdicts and the gate mean what they say, and the run keeps the lifecycle's promise |
| `run_resume` | work, its check and what builds on it, all dependencies written down; approve, stop and resume from anywhere, one restart; 395 thousand states | tasks come one by one and none waits for ever; retries, resumes and restarts add rows and never rewrite a settled one, and each task starts with the notes it builds on |
| `run_parallel` | an external task behind a gate beside an agent, two drivers, two callers, every call, one restart; 159 thousand states up to symmetry | rows match bodies, a running run is driven, and a failure is never hidden, whoever drives and however the calls meet |
| `run_budget` | three plans under a budget with the near-budget policy of a gate and serial work; an agent may ask, the folder of a command may be gone; 32 thousand states, with liveness | a run that waits says what for, nothing starts over the budget, a stop ends the run, and a run comes to rest |
| `routines` | one routine of a workflow file that catches up and retries, whose agent may ask a person, over four units of time with a late answer, a nap, a restart and what people ask; 847 thousand states, with liveness | runs of a routine take turns, beats are a period apart, a streak that nothing parted is told of once, what is due fires unless a run keeps the lock for an answer |
| `stream` | two readers, one resuming and remote, three events, a log of two, a catch-up of two, a lost connection; with liveness | order, no silent gap, sound resumption, and that each event is eventually told |
| `usage` | two sessions, a queue of one, five stamps, one failure or restart of either side; 430 thousand states, with liveness | whatever the plugin loses, the reconciler finds |
| `browser` | two ids of one project, a run of a recipe, a person who opens, a viewer, two sessions in all; 459 thousand states, with liveness | browsers and reservations match sessions, reveals spare page calls, held runs are woken |
| `tunnel` | one request with or without a body, one socket, an answer of five bytes through a window of two; 611 thousand states, with liveness | flow control, whole answers, agreement of both ends, every fetch settles |
| `relay` | two places that hold the host's identity, two phones, two connections in all, two breaks; 1.6 million states up to symmetry | frames reach the phone or the wire they are meant for, and nobody is left talking to nobody |
| `supervisor` | two restarts, six processes, two supervisors a host, two crashes; 223 thousand states, with liveness | no child runs unrecorded, restarts are counted, a launch comes to an end |
| `two_drivers` | a gate beside a branch that asks | a statement in the repository that the code does not keep (section 6) |

### Properties

Of a run however the calls interleave: `BodiesMatchRows` (no task is executed twice at a time, none is
left running with nobody behind it), `RunningIsDriven`, `SettledRowsStay`, `FailureIsJudged`. Of a run of one
task at a time: `OneThenNext` (two tasks are never under way, and the graph never locks), `GateHolds`,
`HandedOn`, `FailedTaskStopsRun`, `CheckedWorkIsVerified`, `AwaitingSaysWhy`,
`BudgetHolds`, `StopEnds`, `ComesToRest` and the refinement `KeepsItsPromise`, which says among the rest
that a run that ends `success` leaves nothing queued. The second group is stated of sequential
runs because it does not hold with several tasks in flight: section 6 says where and why.

Of routines: `OneAtATime`, `NoticeOncePerStreak`, `BeatsAreApart`, `DueFires`. Of the stream: `InOrder`,
`NoSilentGap`, `ResumesFromWhatItSaw`, `EveryEventIsTold`. Of usage: `NothingSlipsPast`, `EveryFactIsStored`.
Of browsers: `BrowsersMatchSessions`, `ReservationsMatch`, `CallsAreSpared`,
`HeldRunsAreWoken`, `TakeoverIsHeard`. Of the tunnel: `WindowHolds`, `WholeOrFailed`, `BothSidesAgree`,
`EveryFetchSettles`. Of the relay: `RightWire`, `WiresAgree`, `PhonesAgree`. Of the supervisor:
`EveryChildIsRecorded`, `RestartsAreCounted`, `AnswersOrGivesUp`.

Each property of a passing run is violated by at least one mutant of a definition it depends on (the
operators commented "Mutant"), so none holds whatever the code does. Type correctness is not a property of
a run where it is a theorem (section 4); `TypeOK` of `UsageLedger`, which its theorem rests on, holds in the
instance of its run as well.

`DueFires` says what a beat that is due may wait for without end: a run of its routine that is held for an answer
nobody gives (`WaitsOnAnswer`), the bounds aside.

`NoticeOncePerStreak` says when a second notice is excused: when a run that started before the failure that was
told of ended well after it (`PartedSince`). Then the rows did not make one streak all along, and section 6 says why
the code's own words are stricter.

### Bounds

- `Drivers` (2): a third activation behaves as the second. `run_parallel` and `two_drivers` need two; the
  sequential runs keep a spare, so that a call that would start a second loop can, and the promise would
  break if it did.
- `Names`: the names of the plans at hand. A task is compared by name only for equality.
- `MaxTasks`: 8 for plans of up to four tasks; 5 and 3 where a person may retry or resume without end, which
  leaves two and one attempts beyond the plan. It bounds only what a person's calls add.
- `MaxSteps` (2) of `RunEngine`: a fan-out of none, one and several.
- `Concurrency` (`RUN_CONCURRENCY` is 4 in the code): 3, and 2 for plans of two or three tasks. No plan has more
  than that many tasks ready at once, so the ceiling binds only where the near-budget policy lowers it to 1.
- `MaxCrashes` (1) of `RunEngine`: recovery writes the same rows whatever came before, and a resume after it is a
  run like any other.
- `Callers` of `RunEngine`: two resumes under way at once is the smallest number that can meet.
- `spend` has three levels, because the code compares with two thresholds.
- `MaxSeq` 3, `Keep` 2, `MaxPending` 2: the log is pruned by count and by age, a catch-up is complete, cut
  short by the ceiling, and cut off by pruning. `MaxDrops` 1: a reader reconnects behind the log.
- `routines`: a period of 2 and a horizon `MaxNow` of 4 hold two beats, a retry in between and a lease of 3 that
  lapses; `MaxEvents` 2 is a nap or a call and the restart after it; three runs are a streak (`NoticeAt` 2) and
  the next one, and a pause lets an older one end between the others. `DueFires` leaves out what no time is left
  for: a lease that a read that threw left behind and that would lapse past `MaxNow` (`OutOfTime`), and a beat for
  which no run is left (`Room`). One routine is enough: routines share only the tick, whose snapshot is per routine.
- `tunnel`: five bytes, a window of 2, credit by 1 and chunks of at most 2 stall the sender, cross credit with
  bytes, and cut a chunk at the window. A second stream would share only the channel's order.
- `relay`: two connections are one and its replacement, two phones share or succeed to a channel's number;
  `MaxSaid` 1 is a frame that may arrive late, `MaxBreaks` 2 an end that finds its socket dead and one that answers.
- `supervisor`: `MaxRestarts` 2 (5 in the code) is a restart and the last one; six processes are the children of two
  supervisors that use all but their last restart each; two supervisors of a host overlap by what the first still
  awaits; two crashes leave an orphan and its orphan.
- `usage`: a queue and a batch of 1 overflow at the second fact; two sessions change places between pages; five
  stamps let each change while it is read. Safety also holds with three sessions and six stamps (2.1 million states).
- `browser`: two sessions in all are one and its successor, under the same id or another. `MaxSteps` 2 is a step
  boundary with a step after it. With one id safety also holds for three sessions (2.8 million states), and
  everything for one id with a preview beside the run (439 thousand).

### Fairness

`FairSpec` of `RunEngine` assumes that the process goes on: a loop that may go round does; `OpenThread`
returns (the engine answers or the call fails); a body's turn ends (`waitForIdle` polls, gives up after its
thirty minutes and reads the stop) and what follows a turn is bounded work. A check's command is killed after its fifteen
minutes (`STEP_TIMEOUT_MS`); that an external task's command ends by itself is assumed of its author, since the code
limits it only where `run.toolLimitMs` is set. It is per task and not per
action: which way a turn ends is the engine's choice. A turn that waits on a person is exempt unless the
run is stopped, because with the gate for unattended work it has no limit. Nobody has to call anything:
`ComesToRest` says that a running run ends or comes to a person, and `StopEnds` that a stop is carried out.
A crash is not part of that run, since recovery ends runs at once. The loop's fairness is stated with
`[]<>Quiet` instead of `ENABLED`, which TLC evaluates faster and means the same: a loop does not stay
ready for ever.

The other modules assume, each by weak fairness:

- `RoutineScheduler`: the interval of the tick and the heartbeats go off, awaits return, and the work of an executed
  run comes to its end or its pause, its commands included as above. A run that is held for a request is exempt unless
  it was asked to stop, as the turn that asks is in `RunEngine`: its deadline stands still, and nobody has to answer.
  So is a run whose row was deleted, of which the model does not tell whether it is held. Nothing a person does is
  assumed.
- `EventStream`: a disconnected reader tries again (both loops retry for ever) and the bytes of a live
  connection arrive.
- `UsageLedger`: the reconciler's interval goes off and its requests return, and turns end. Nothing is
  assumed of the plugin: `EveryFactIsStored` holds without it.
- `BrowserDriver`: each call goes on, since launches, closes and page calls have time limits; a held run may wait for
  ever. Each run happens once, so the runs are finitely many: a reveal waits for a boundary without a page call, and
  viewers whose calls overlap without end could keep it from one.
- `Tunnel`: frames arrive while the channel is open, a channel closed at one end closes at the other (the socket's
  close, or the relay's), the engine answers and ends or fails its answers, the reader reads.
- `ChildSupervisor`: what is awaited of a process comes (the ready check has a limit) and the pause's timer goes off.
- `Relay` is checked for safety only.

## 4. What is proved

`EventStreamProofs`, for every number of readers, every bound of the log and of the catch-up, under
`StreamAssumption`:

- `Types`: `Spec => []TypeOK`. `pruneEvents` is the step it rests on: the log's oldest entry stays past 0.
- `NothingIsLost`: with `~QuietWeeks`, `Spec => [](InOrder /\ NoSilentGap /\ ResumesFromWhatItSaw)`.
- `StreamsAreInOrder`: `Spec => []InOrder`, quiet weeks or not: a cursor may stand past an emptied log, but never
  behind what was told, so order needs only that queue, reader and cursor follow each other (`Ordered`).
- `ResumesAreHonest`: with `~QuietWeeks`, `Spec => []ResumesFromWhatItSaw`.

None of the three properties is inductive. `IInv` adds what makes them so: a live stream's cursor is the end of the
log, because it subscribes in the turn in which it catches up (`Stands`); what is queued ascends past what
the reader saw, and only its head may be a gap (`Ascends`); whatever the cursor has passed is told or
queued, and whatever the reader would resume from was told (`Covered`); and the log is never empty once
written (`NeverEmpty`). One lemma per action keeps `Follows` (`AppendFollows`, `OpenFreshFollows`,
`OpenAfterFollows`, `ReceiveFollows`, `DropFollows`), `Untouched` covers readers a step does not touch, and
`CatchUp` says what `listEvents` hands over. `Step` puts them together and `Promises` draws the three
properties from the invariant.

The assumption `~QuietWeeks` is needed. After a week in which nothing is written the hourly prune empties
the log, `MAX(seq)` is null, `lastSeq` answers 0, and a reader that resumes from 5 sees `after < last` false:
it is caught up from nothing, without a gap, although what it missed is gone. With `QuietWeeks = TRUE`
TLC finds that run for `NoSilentGap`.

`RunEngineProofs`, for every set of plans (any task graph, cyclic ones included), every ceiling, policy and
budget, and any number of drivers, callers, calls and restarts, under `RunGraphAssumption` (what tasks are
called is an arbitrary set with the empty name in it) and `EngineAssumption` (a run starts with rows that
are queued and have not begun, as `addTasks` inserts them):

- `EngineTypes`: `Spec => []TypeOK`. Beyond the shape of the records it says that every position a body, a
  note, a waiting set or a resume holds is that of a row that exists.
- `SettledForGood`: `Spec => SettledRowsStay`.
- `RowsHaveBodies`: with `~MissingFolder`, `Spec => []BodiesMatchRows`. Without that assumption it is false:
  TLC finds the counterexample with `MissingFolder = TRUE` (section 6).
- `SomebodyDrives`: with `~MissingFolder`, `Spec => []RunningIsDriven`.
- `BudgetIsKept`: `Spec => BudgetHolds`. `FailuresAreJudged`: `Spec => []FailureIsJudged`.

The invariant is `IInv == TypeOK /\ Worked /\ Manned`. `SettledRowsStay` is not inductive by itself, because a
turn that ends writes its row's status whatever it is: it is kept because a body in its turn works on a row
that is `running`, which is part of `Worked`. `Worked` in turn needs that two bodies never share a row, that
a body's row has begun (so that a resume, which requeues in place only rows that never ran, cannot requeue
it under the body), and that a body past its turn stands over a settled row. `Manned`, that a `running` row
has a body, is the half of `BodiesMatchRows` that a restart (`requeueActiveTasks` with no bodies left) and
the rejected promise of a missing folder are about.

Most steps are of three kinds, and each kind keeps the invariant by one lemma: `Aside` steps change no row
that has a body (`AsideKeeps`; every call of the scheduler, the ledger, a loop that waits or leaves),
`Ended` steps settle the row of one body (`EndedKeeps`, `SettlesKeeps`, `GoesOnKeeps`; the ends of a turn and
what follows them), and a pass of the loop begins rows and adds their bodies (`WalkedIs`, `BegunKeeps`,
`WalksKeep`, `PassKeeps`). A crash is a kind of its own.

Three invariants stand beside it. `Driven` says that a driver's own `approved` was read off the run's row, so that
a loop over budget goes on only where the row lets it, that a body's driver has not left, and `RunningIsDriven`:
a loop leaves a run that is running only where another drives it, because every way out of `runGraph` writes the row.
A rejected turn (`MissingFolder`) is the one way to leave bodies behind. `Failures` says that a failed agent or check
has a verdict of its own from the moment its row is `failed`, and that a body being judged stands over a row that
succeeded, so that what the auditor says late never replaces a failure's verdict; `FailureIsJudged` follows since
`runVerdict` takes the worst that stands.

There is one lemma per action (`TurnFailsKeeps`,
`CheckKeeps`, `ApproveKeeps`, `PutBackKeeps`, ...), and `NextKeeps` puts them together.

Of a run of one task at a time, the same module proves, for the same constants but `LoneCalls` (where somebody may
resume, nobody retries and one caller resumes):

- `OneDrives`: `Spec /\ []Serial => []OneDriver`. `WaitsForAReason`: `Spec /\ []Serial => []AwaitingSaysWhy`.
- `NotesAreHandedOn`: `Spec /\ []Serial => HandedOn`.
- `PromiseIsKept`: `Spec /\ []Serial /\ []Unstuck => KeepsItsPromise`, the refinement of `RunLifecycle`.
- `GatesHold`: with `~Budgeted`, where no row that unrolls a plan has a gate, `Spec /\ []Serial => GateHolds`.
- `FailedTasksStopRuns`: with `~Budgeted`, where nobody retries or resumes, `Spec /\ []Serial =>
  []FailedTaskStopsRun`. Section 6 has what a budget, a gated fan-out, a retry and a resume do to these two.

`Serial` says that no two bodies are under way at once. It is a hypothesis about the behaviour, because whether it
holds is up to the plan: `run_resume` checks it (`OneThenNext`), and TLC finds it for every plan of
`run_core` when a fan-out has one step (a fan-out of two has two roots), restarts, stops and cancellations included.
Without it the three safety properties are false (section 6). `LoneCalls` is needed too: two resumes that meet, or a
resume that waits for the folder while a retry reopens the run, start two drivers of any plan. `Unstuck` says that a
going run with nothing in flight has something to start or to skip; section 6 has plans without it.

Both are proved of plans written as lists, the form a workflow has when it says nothing of order. `Lists` asks
for no budget, `Calls` of approve and stop only, and plans in which every task has a name of its own and waits
for the one above, said or by default; its `when`, if it has one, names a task above, and no row unrolls a plan.
Then, with no hypothesis about the behaviour left:

- `ListsRunInTurn`: `Spec => []OneThenNext`, that is `Serial` and `Unstuck`.
- `ListsKeepTheirPromise`: `OneDriver`, `AwaitingSaysWhy`, `KeepsItsPromise`, `HandedOn`, `GateHolds` and
  `FailedTaskStopsRun`, by the theorems above.
- `ListsAreChecked`: with `CheckedLists`, lists in which no two checks are about one work and nothing is judged yet,
  `Spec => []CheckedWorkIsVerified`.

The plans `Checked`, `Mixed` and `Written` are such lists; `Recovering` (its last task waits for one two above)
and `FannedOut` are not, and stay with `run_core`. A crash, a stop and as many second tries as the checks ask
for are in it; a cancellation is not, because it breaks the order of any list of five (section 6), and neither
is a resume.

The invariant is `Alone`: one driver at most; it waits only while its body goes on; it drives a run that is
running, or held exactly while its turn asks somebody; whatever pauses its loop has been written to the row; a
run picked up by a resume is over. A loop may go round beside the body it has just started, since a skip or a
plan sends it round again: `Beside` says that such a pass finds neither the budget nor its nearness, so it
pauses nothing. There is a lemma for each shape a step leaves (`AtRest`, `Looping`, `Waiting`), and `PassTells`
and `PassGoesOn` say what a pass does to its context. Without a budget `Budgetless` says that nothing but a gate
or a request pauses anything, and two invariants stand on both. `GatesShut`: behind a gated task that is a
success and that nobody let the run past, the run is over, asked to stop, held at the gate, driven by a loop
about to pause there, or the task's own body is still on its way to the pause. `Failing`: a standing failure
nobody declared survivable is in the context of the driver, or the run has ended as `failed` or `stopped`. Both
are kept because `BodyComesTo` and `LoopComesTo` say, once, all that a step of a body or a loop may leave: for a
loop to leave, to wait or to walk its queue; for a body one row's end, its verdicts, a second try and a pause or
a failure in its driver's context. `Remembered` is what `HandedOn` needs: a driver has the note of every
success, or the body that will hand it over is still at work, or nothing more starts. It rests on `Follows`,
that a step of a body moves no row but its own. For the refinement `Moves` is the step of `RunLifecycle` written
over the engine's rows: every action makes such a move (`LoopMoves`, `BodyMoves`, `RequestMoves`, `OthersMove`),
and `HeadsAre` counts the drivers. The one step that needs `Unstuck` is a loop that breaks off with nothing
started and nothing in flight (`PassStuck`).

For a list the invariant is `Line`: the plan is done up to a `k`-th row and nothing after it has begun
(`Stands`), and what its checks sent back is done (`First`), or its last two rows are the work and the check of
the `k`-th name, tried again (`Second`); a row that runs has a body. `Dependencies` is a recursive function, and
what a retry without written dependencies inherits through it no prover here can compute; but no row of a list
is one, and for rows that say what they wait for, or are first attempts, `DependenciesAre` unfolds it once and
`ListIs` reads off what each waits for. `WhoseTurn` then finds the one row that can start or be skipped, and
shows that every other waits, by the cases of `decide`. `TurnMoves` and `TurnRetries` say that the end of that
row, or a check's second try, leaves the list standing one further on. For the checks `Spoken` says that once a
check has verified its work nothing of their names is still to come, and that until a check has ended nobody but
the rule has spoken of its work. `SpokenStays`, `SpokenOf` and `SpokenAgain` are the three kinds of step:
nothing said, a check's end, a second try; `MoreChecked` says whom the new rows and the old are about.

`RoutineProofs`, for any routines, schedules, retries, leases and numbers of runs, naps, restarts and calls, under
`RoutineAssumption`, which asks that what `begin` awaits and a heartbeat together end before a lease does
(`Slack + Renewal < Lease`; in the code seconds, and a third of the lease):

- `RoutineTypes`: `Spec => []TypeOK`.
- `RunsTakeTurns`: `Spec => []OneAtATime`.
- `BeatsKeepApart`: `Spec => []BeatsAreApart`; `NoticedOnce`: `Spec => []NoticeOncePerStreak`, naps included.

The invariant of the first two is `IInv == TypeOK /\ Threads /\ Leases`. `OneAtATime` speaks of the lock's lease, which
a late tick could find lapsed: `Leases` says how far each lease outlasts what awaits (a call of `begin` is at most `Slack`
old, a run's next heartbeat comes before its lease ends, and the clock a tick took is at most `Slack` behind), and
`Threads` that each lock has one call or one run behind it. It covers what the run of `routines` leaves out:
prompts, routines that skip, several routines in one tick.

That beats keep apart (`Paced`) goes from the rows to what is on its way: while no nap has passed, a tick's clock and
a call's beat are at least a period past the last run of the routine they were read with, `lastRunAt` is never behind
a beat that started, and of two beats in flight for one routine one will find the lock taken. That a streak is told of
once needs that an end is written once (`Working`: a run not yet over is worked on in one place) and then `Told`:
what was told of is over, nothing ended in the future, and a streak that holds a told failure has `NoticeAt` failures
already, unless it was parted. The next failure then makes it longer than the notice, which is said only at
equality.

`UsageLedgerProofs`, for any number of sessions, stamps and troubles, under `LedgerAssumption`:

- `NothingIsMissed`: `Spec => []NothingSlipsPast`.

A pass pages downward from the newest session while sessions move up, so the argument is about stamps: they only
grow and are distinct (`StampsGrow`), so a session that changed during a pass stands above all that was listed and is
met by the next pass, and what a page did not list has been listed or stands above (`PassPages`). A mark answers for
the transcript as it was read (`MarksAnswer`, `PassReads`, `PassStores`), the floor for every session below it
(`FloorHolds`).

`SupervisorProofs`, for any numbers of restarts, processes, supervisors and crashes, under `SupervisorAssumption`:

- `SupervisorTypes`: `Spec => []TypeOK`; `RestartsEnd`: `Spec => []RestartsAreCounted`.
- `ChildrenAreRecorded`: with `~ClicksWhileStopping`, `Spec => []EveryChildIsRecorded`.

The counts are an invariant of their own (`Tallied`): a supervisor's streak is at most one more than its restarts,
and at most its restarts while it pauses. What is recorded rests on who awaits what: a process that is raced or
watched is its supervisor's child or was dropped by it, timers run only of the engine that is on, and no supervisor
but the engine's has a child that was not told to stop (`Kept`). One lemma per action keeps it.

`BrowserProofs`, for any ids, projects, runs, previews, routes' calls and viewers, whatever `Shared`, `OnPaused` and
`PageFails` are, under `BrowserAssumption` (the calls are finitely many, and a viewer is not a run):

- `BrowserTypes`: `Spec => []TypeOK`; `CallsAreSafe`: `Spec => []CallsAreSpared`.
- `ReservationsHold` and `BrowsersAreOwned`: with `~PageFails`, `Spec /\ []OneProjectAnId` implies
  `[]ReservationsMatch` and `[]BrowsersMatchSessions`.
- `HeldRunsAreHeard`: with `~Shared`, `Spec /\ []OneProjectAnId => []HeldRunsAreWoken`.

`OneProjectAnId` says of a behaviour that no id is being opened for two projects at once. It always holds with one
project, which is the instance of the run `browser`, and while nobody opens one id twice at once: an id the server
makes names a run's recipe or a preview, of one project, and only the route takes any. The three properties are false
without these conditions: section 6 has the behaviours.

`CallsAreSpared` speaks of the calls in flight, and `maybeReveal` looks only at the session's count of them. So `IInv`
says that the count is right (`Counts`: `inflight` is the number of calls on the page), that a reveal is on only while
it is 0 (`Spares`), and what keeps it right when a session closes under its calls: the run it would wake is one it
holds (`Wakes`), so waking takes no call out of another session's count. `Held` and `Fits` say that a call in flight
is on a session there has been and that a call which opens, joins or runs knows its id. There is one lemma per action;
steps that leave the calls alone share `Alone`, and the two ends of a reveal `ShownKeeps` and `GiveUpKeeps`.

The other three share `BInv`. `Owned`: a session is registered under its own id, its project is reserved for that id,
and so is the project of a browser on its way, of which there is one a project. `Matched`: a reserved project has a
session or a browser on its way, and which of a session's two Chromiums runs is told by where its reveal stands.
`Holds`: a held run is held on the session registered under its id, paused, whose one `wake` is that run.

`RelayProofs`, for any places that hold the host's identity, phones, connections, breaks and limits, under
`RelayAssumption`:

- `RelayTypes`: `Spec => []TypeOK`; `FramesReachTheirWire`: `Spec => []RightWire`; `EndsAgree`:
  `Spec => []WiresAgree`; `NobodyTalksToNobody`: `Spec => []PhonesAgree`.

`WiresAgree` and `PhonesAgree` speak of a moment with nothing on its way, so the invariant says what a queue may hold.
For each connection `Fits` relates six things as sets of channels: the opens and ends on their way to the host, the
host's wires, the ends on their way back, the relay's entries and the next number. Whatever the relay keeps is opened
there, is on its way there, or is on its way back closed; no number is used twice. Each operation is one lemma about
those sets (`FitsGiven`, `FitsOpened`, `FitsEnded`, `FitsLeft`, `FitsReleased`, `FitsCut`), and each action is shown to be
one of them, with what its frames do to the queues. A data frame carries, in the model, the wire and the phone it was
sent for (`Addressed`): the channel it names is theirs as long as the host has that wire, since nothing of a channel
follows its end.

`TunnelProofs`, for any requests, sockets, windows, credit steps, chunks and sizes, under `TunnelAssumption`:

- `TunnelTypes`: `Spec => []TypeOK`; `WindowIsKept`: `Spec => []WindowHolds`; `AnswersAreWhole`:
  `Spec => []WholeOrFailed`; `SidesAgree`: `Spec => []BothSidesAgree`.

The bytes that cross are what makes these hard. `Flows(q, type, E, s, lo, hi)` says that the bytes in the frames of
one type and stream along a queue bring a running count from `lo` to `hi`, with none left past a frame that ends the
body; a sum over a queue would be recursive, and a count is an ordinary function that a frame at either end extends or
shortens (`FlowsOn`, `FlowsPast`). With it the invariant states two accounts: `received` brought to `sent` by the bytes
to the phone, and the credit on its way to the host, which with the host's window and `sent` makes `Window` and what
was credited. The window follows by arithmetic; that an answer is whole follows since its end is last of its stream.
For each stream of either kind the rest says who still holds it and which of its opening, ending and close are on
their way (`Opened`, `Ended`, `Paired`; `Running`, `Asked`, `Answered`, `Owed` for a request). One lemma per action.

Only model-checked:

- of `RunEngine`: `OneThenNext` where runs are resumed (`run_resume`), and `CheckedWorkIsVerified` and
  `KeepsItsPromise` of the plans of `run_core` that are no lists, or where tasks are cancelled. All three are
  false of some plans (section 6), so a proof has to be about a class of plans, and the one above is the class
  of lists;
- `TakeoverIsHeard` of `BrowserDriver`, `EveryFactIsStored` of `UsageLedger`, and the liveness of
  every module: liveness and `ENABLED` are outside what the prover does.

## 5. The plan

Modelled first was what the program is for, a run's life and what readers are told of it; then what starts runs
(`RoutineScheduler`), what is counted of them (`UsageLedger`), what they drive (`BrowserDriver`), and what stands
between them and a phone (`Tunnel`, `Relay`, `ChildSupervisor`). What would come next:

1. More proofs: classes of plans wider than lists (a task that waits for one further up, a fan-out of one step), and
   lists that are resumed, where `Line` has to follow the rows a resume puts back.
2. `RoutineScheduler` composed with `RunLifecycle` in place of its own runs, and `Tunnel` over `Relay` as its channel.
3. The approvals of web actions: single-use grants with a time to live, requested, granted and spent across a pause.
4. Promotion and roll-back of the adaptive layer, and pairing codes, both over rows with expiry.

## 6. Where the code and its words part

The first is a run that TLC finds violated. The others were met while modelling; most replay with the constants
given, on the module named.

Runs:

- **`two_drivers`**: "Only the last is still being driven" (`types.ts:234`). A run held for a request has
  `paused: request`; when another branch's gate closes, `setPaused` overwrites it with `gate` while the run
  stays `awaiting`, and `approve` starts a second loop beside the one in its turn. Two resumes that both
  wait for the folder also both drive (`resume` reads the run before the await and not after), and so do a resume
  that waits for it and a retry that reopens the run meanwhile.
- "Nothing else starts until somebody has read it" (`runner.ts:1335`). `afterTask` awaits the newest message, the
  checkpoint and the summary before it sets the pause, so with another branch ready the loop goes round when that
  branch's task settles and starts work behind a gate whose task is already `success`: `GateHolds` in `MCRunEngine`
  with the plans `Window`, `Concurrency` 2, `UnattendedGate` FALSE, no calls. For the same reason a budget that is
  reached while a gated task is judged returns before `afterTask`, and the gate is never set.
- "A failed task still stops the run" (`runner.ts:276`). A check that fails over a budget returns at
  `pauseForBudget` (868) before `context.failure` is set (878); once the budget is approved, the failure is
  forgotten: its dependents are skipped and the run ends `success`. `FailedTaskStopsRun` with `Budgeted` TRUE.
- "Never throws: a failure is recorded and ends the run at the loop" (`runner.ts:770`).
  `return this.runExternalTask(...)` (909) is not awaited inside the `try`, and `Bun.spawn` throws for a folder that is
  gone: the promise rejects past the catch, the row stays `running`, and the run is `failed` with a task still running.
  `BodiesMatchRows` with `MissingFolder` TRUE.
- Several failed turns: the context keeps the last failure, and an agent's failure always ends the run,
  also where a `when` expects it (`runner.ts:277`, `1026-1030`); a resume from a later task can then end
  `success` with an earlier failed task still standing.
- Handed-on notes: a task of a fan-out or of another branch that becomes ready while a dependency is still
  writing its note starts without it (`HandedOn` with the plan `FannedOut`).
- "The work it was checking" (`runner.ts:385`). A check without written dependencies is about the newest agent task
  above it, by position (`checkedTask`). A second attempt of the check is a row at the end of the run, so once it is
  resumed it is about whichever agent task is last, one that is still queued perhaps: its verdict is recorded there, its
  own retry starts that task as a root, past the check, and the run can end `success` with rows queued that wait on
  each other. `Unstuck`, and then `KeepsItsPromise`, with the plans `{Checked}` and `resume` among the calls.
- "The order still means 'after the one above' unless a task says otherwise" (`workflow.ts:260`). Of five
  agents in a row, cancel the second while the first is in its turn: the third is skipped, since what it waits for is
  stopped, and a skipped task holds nobody up, so the fourth starts beside the first. `Serial` with that plan and
  `cancel` among the calls; `Lists` therefore leaves cancellations out.
- "`human` holds the run here until somebody reads what it did and lets it through" (`workflow.ts:45`). A
  `foreach` task with a gate holds nothing: `expand` (`runner.ts:1271`) finishes its row without `afterTask`,
  and its steps do not take the gate over. `GateHolds` with the plan `FannedOut` and a gate on its second row.
- "A cycle is refused here rather than discovered by a run that waits forever" (`workflow.ts:263`). A check's
  retry can make a run wait although the graph had no cycle. In a plan of an agent that waits for the check
  below it, and that check with no `dependsOn` of its own and one retry, the check is about the task above it:
  the second check waits for that name, and the task of that name for the check. `Unstuck` with that plan; the
  run ends `success` with rows queued.
- A check speaks for its work whatever another check said of it. With a command and a look at the page both
  about one task, one may leave the work worse, or lift it, and the other's verdict stands beside it:
  `CheckedWorkIsVerified` with the plan agent, verify (visual), verify. `ListsAreChecked` is therefore about
  checks with a work of their own.
- "A failed task still stops the run" once more. `retryTask` takes any task of a failed run and reopens it in a
  fresh context, which knows nothing of the failure: retried a task other than the one that failed, what waits
  for the failure is skipped and the run ends `success`. `FailedTaskStopsRun` with the plans `{Recovering}` and
  `retry` among the calls.
- `AwaitingSaysWhy` with the plans `Parallel`: `releaseRequest` clears a reason another branch relies on.
- Of two tasks of one name in a row, which the API accepts, the second waits on its own name for ever, and
  the run ends `success` with it queued. A verdict that a check recorded is overwritten when the work it
  checked is judged after it.

Routines:

- A routine "cannot run twice at once" (`packages/harness-server/README.md:36`). A run that pauses releases its
  lock (`scheduler.ts:824`), the next beat starts another, and `approve` drives the first without the lock.
  `OneAtATime` is therefore about runs that are started or executed, not about those `approve` drives.
- "Once per streak" (`scheduler.ts:858`). The notice of a streak is missed when its last failure is written by
  `recoverRunning` or by `drive`, and told again when the run it was told on is resumed and fails (`scheduler.ts:862`).
  A run that is stopped after the notice says it again, since `finish` calls `noticeFailures` whatever the ending and
  `failedInARow` passes stopped runs over; `NoticeOncePerStreak` is about the failures of a streak. And a paused run
  that is approved late and ends well parts the streak, so that the next failure brings it back to the notice: two
  failures of what has become one streak were told of, with four runs, six units of time and no other event.
- A run whose agent asks a person keeps its routine's lock: by default it waits "without the thirty-minute cap"
  (`runner.ts:546`), and the heartbeat renews the lease as long as it does (`scheduler.ts:811`). Until it is answered
  or stopped no beat of the routine fires: `DueFires` without `WaitsOnAnswer` is false.
- A tick fires what it read when it began: a routine disabled, or run by hand, while the tick awaits may still fire.
- A tick that took its clock before a nap sets `lastRunAt` back, and a lease lapses in a nap while its run goes on,
  so the next beat may start another beside it. `BeatsAreApart` and `OneAtATime` are about a host that stays awake.
- `readWorkflow` is called after the lock is taken and outside the `try` (`scheduler.ts:767`): when it throws, the lock
  is kept until the lease ends.

Event stream:

- "That is what makes the first paint and every reconnection agree with the server"
  (`features/runs/store.ts:553`). The lists are read first (556-557) and the stream opened afterwards without a
  sequence, so what is written in between is in neither.
- "A client that falls this far behind is dropped rather than buffered" (`stream.ts:13`): `MAX_PENDING` bounds
  a catch-up only. `enqueue` does not fail on a slow reader, whose queue is unbounded.
- After a quiet week a resuming reader is not told of its gap (section 4; `repository.ts:5065`).

Browsers:

- "Stopped for good: the runner must fail with `stopped` and never resume" (`ActiveSession`). `abort` marks the session
  and closes it in the same turn, and `closeSession` clears the mark: a recipe in the pause before a retry goes on in a
  session reopened under its id. During a launch `abort` answers false and the session opens.
- "Mid-run it waits for the next step boundary" (`browser.ts:518`). Paused first, the run is held at that boundary
  already; a take over then neither forces the window, since a run is active, nor wakes the run, and a resume drops the
  wish: `TakeoverIsHeard` with `OnPaused` TRUE. The panel's button is disabled while paused, the route is not.
- A Chromium that launched and refuses its first page is left running, its project reserved (`browser.ts:435`):
  `BrowsersMatchSessions` with `PageFails` TRUE.
- "Releases whoever is held" (`browser.ts:166`): one wake per session. Of two runs held in one session the first is
  never woken: `HeldRunsAreWoken` with `Shared` TRUE and two recipes. The server starts one at a time per session.
- One id opened at once for two projects: the second session overwrites the first, whose browser nobody closes.
  `BrowsersMatchSessions` with two `Projects` and one of `Ids`.
- `closeSession` frees the project before its Chromium is gone, so a new launch or `clearData` may meet a profile in use.
- A preview is not held by a pause; a window the person closes leaves its session with a dead context until it idles out.

Tunnel, relay, supervisor:

- The test "fails pending requests when the channel closes" (`tunnel.test.ts:176`) covers a request that was sent: one
  whose own body is still being read when the channel closes never settles, nor hears an abort.
- "The host sends no more than this past what the phone said it read" (`tunnel.ts:26`): up to `CHUNK - 1` bytes more,
  since a chunk is sent whole while any window is left. A request without a route leaves its entry in `requests`.
- "Stops the child for good: no restart follows" (`supervisor.ts:178`). A `stop()` during a first launch ends in phase
  `failed`, since `start`'s `.then(giveUp)` does not look at `stopping`; the banner then offers Restart while
  `stopEngine` still waits, and that starts a child under a supervisor that is being dropped. The next start reaps it, the
  old supervisor starts another, and its late failure removes the new child's pid file: `EveryChildIsRecorded` with
  `ClicksWhileStopping` TRUE.
- `reapOrphan` leaves, and forgets, a recorded child of its own that does not answer yet (`spared`).

## 7. Not modelled, and why

- Of the components above: what a run does inside a routine, which is `RunEngine`'s; prompts, transport and polling of
  the engine's client; sums, prices and attribution of the ledger, rows its route refuses and sessions the engine
  deletes; pages, secrets, tabs, egress, permits and approvals of web actions; the channel's handshake and
  encryption, `host.ts`'s routes, push delivery, authentication failures and per-address limits of the relay.
- External code is modelled by what the source relies on: the engine keeps every fact in a transcript, stamps a session
  anew when anything in it changes and pages from the last session returned; a WebSocket delivers in order; a Chromium
  locks its profile; the exit of a process a host killed is heard before that host starts its next engine.
- Workflow parsing, plan files, route handlers and the API's schemas are data validation; the task lists they produce
  are the plans of `MCRunEngine`. Checkpoints are git plumbing around an await that is in `RunEngine`.
- The adaptive layer is off by default and never changes how a run ends; the quota poller is one periodic reading;
  pairing and the vault are small and sequential. The first is in section 5.
- Pure I/O and rendering (the web app's screens, desktop windows, the CLI, the extension, the landing pages, the
  wiki), generated plugin text, translations, generated SDK types, cryptography, schema migrations and offline
  evaluation hold no protocol of their own. They are most of the repository's lines.

## 8. Running it

    tlc -workers 2 -config run_core.cfg MCRunEngine.tla
    tlc -workers 2 -config browser.cfg BrowserDriver.tla
    tlapm RunEngineProofs.tla

The `run_*` and `two_drivers` configurations belong to `MCRunEngine`, `routines` to `MCRoutineScheduler`, `relay` to
`MCRelay`, and `stream`, `usage`, `browser`, `tunnel` and `supervisor` to `EventStream`, `UsageLedger`,
`BrowserDriver`, `Tunnel` and `ChildSupervisor`. The proofs of `RunEngineProofs`, `RoutineProofs`, `BrowserProofs`,
`RelayProofs`, `TunnelProofs` and `SupervisorProofs` take some minutes each.
