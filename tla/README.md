# Verification of Maman

Maman watches how a person works (desktop observer, browser extension), finds
repeated work, compiles it into an agent, and lets that agent read and, after an
approval, write to systems such as Salesforce or a page in the browser. This
directory models the parts of the program that decide **whether, when, how often
and where something is written**, what may be observed and kept, and what the user
is told, with the failures and interleavings that tests hardly reach. The modules
are checked with TLC on small instances; the theorems of section 5 are proved with
TLAPS for every value of the constants.

1. Inventory – 2. How the project is built – 3. Modules and the code – 4. Runs –
5. Proofs – 6. Where the code and its words disagree – 7. What is not modelled

## 1. Inventory

### Processes and how they interact

| part | where | state it keeps | talks to |
|---|---|---|---|
| Durable run workflow | `packages/agent-runtime/src/workflow.ts` | replayed workflow variables: status, gate, last diff, outputs | awaits worker activities; receives approve / reject / cancel signals |
| Worker activities | `apps/worker/src/activities.ts`, `packages/agent-runtime/src/run-engine.ts` | `runState` cache and idempotency store, both in memory | provider adapters |
| Provider adapters | `packages/connector-adapters` | none of their own (idempotency store is injected) | Salesforce, Sheets over HTTP |
| API | `apps/api/src` | none; PostgreSQL through `packages/db` | Temporal through `orchestrator.ts`; devices over HTTP |
| Database | `packages/db` | agents, immutable versions, runs, device sessions, synced events, connector accounts, audit chain | – |
| Desktop core (Rust) | `apps/desktop/src-tauri/src` | encrypted store with the event table and the sync outbox, JSON files (settings, agents, suggestions, learned workflows), trigger daemon and its spool, gate cache, pairing secret, relay | API (sync), webviews (commands, events), browser host, observer |
| Desktop windows (TS) | `apps/desktop/src` | each window its own copy of settings; the panel: agents, staged runs, run executor, suggestions, Teach Mode; the pet: its machine | core commands; each other through events; local runtime |
| Local agent runtime | `packages/agent-runtime/src/local-runtime.ts` | registered agents, cooldowns | adapters in the webview |
| Browser host and extension | `native/browser-host`, `extensions/chrome` | pairing, relay port, trace buffers per tab | desktop relay socket |
| macOS observer | `native/macos-observer` | permission and tap state, trace buffer, teach capture | desktop core over stdio |
| Libraries | `packages/pattern-engine`, `policy-engine`, `intent-layer`, `workflow-graph`, `teach-mode`, `capability-*`, `agent-compiler`, `roi-engine`, `model-provider`, `domain-packs` | none | called by the above |

`PROJECT.json` lists every component with its sources and says whether it is
modelled.

### Operations, hard behaviour and what makes each part correct

* **Durable run.** One activity at a time is awaited, but signals arrive at any
  await, every activity attempt can be lost before or after its effect, a write
  attempt can outlive its timeout, and the worker can restart between any two
  activities. Correct: what reaches the provider was approved as this step with
  this diff, is applied once, is stopped by cancel and refusal, and a run that says
  *completed* did all of it.
* **Run control (API and tables).** Every handler is a sequence of awaits on two
  stores without a common transaction. Correct: one workflow per trigger key, all
  answers to a key agree, a cancelled row means a signalled workflow.
* **Device sync.** The outbox is drained by a loop and by a command, entries are
  acknowledged after the upload, deletion races the upload, the answer to an upload
  can be lost, and one row the API refuses fails the batch it is in. Correct: nothing
  enqueued is lost while the device stays enrolled, nothing whose deletion was answered is
  uploaded, and what is queued arrives once no refused row is queued with it.
* **Agents file.** Every mutation computes the whole list, awaits its save and then
  publishes it; loads, failed saves and restarts fall in between. Correct: no agent
  gets autonomy it has not earned.
* **Trigger daemon.** Event threads and a sweep share one mutex; firings are
  announced and spooled after it is released. Correct: an occurrence fires once, a
  cooldown outlives a save of the agents.
* **Staged cards and the live page.** A firing is staged, shadowed, shown, approved
  and executed by asynchronous code over one shared list, on a page others edit.
  Correct: only what was shown is written, *verified* means the whole plan, the
  pool's books are exact, one card per window.
* **Run panel of the desktop, run panel of the server.** All runs share one set of
  module variables or one store, into which each call puts its answers as they come.
  Correct: an approval counts for what was on the screen (on the server's panel, for what
  waited there), the panel always offers a way on.
* **Browser lane and the agent's own window.** A plan is carried out step by step on a
  page that changes, scripts outlive their timeout. Correct: no edit is typed over,
  a revert restores, what is written is what was approved in the control it named.
* **Browser bridge.** Pairing, relay registration, a request pushed down one
  connection and answered up another; the service worker may be evicted. Correct: an
  answer reaches the call that asked.
* **Observation.** Supervisor with restart budget, gate cache, trace recorders with
  bounded buffers, segmentation of late events. Correct: the status is honest, no
  trace holds what was refused, episodes are whole.
* **Learning and offering.** Clustering, replay, gates, timing, quiet periods,
  compilers. Correct: what is offered was earned, shows when it may, and what is
  compiled can run and writes only after an approval.
* **Shared files.** Settings, suggestions, learned workflows and Teach Mode
  readings, written whole from copies of different ages, and the settings by three
  windows of which one announces nothing. Correct: copies follow the file, and what the
  user decided is in it, unless a call of the user's own failed or crossed another.
* **Credentials and audit.** Token refresh is read – HTTP – write without a lock, rotation
  is two statements, the audit chain is one locked head. Correct: what is taken back stops
  working, the chain is one.

The hazards, each at its line, are in `PROJECT.json` under `hazards`.

## 2. How the project is built

A component is one module: its state, one action per handler, await or step, its
properties, and a specification of its own (`DaemonSpec`, `VaultSpec`, ...). Modules that
run by themselves (`AgentRun`, `RunControl`, `OutboxSync`, `StagedRuns`) have an MC module
and one or two configurations. The desktop's smaller components are independent of each
other except for the inputs they exchange; each takes what the others do to it as an input
that may come at any time, so they can be checked one at a time. Four sum modules
(`MCDesktop`, `MCLearning`, `MCServices`, `MCShared`) put them side by side: the variable
`moving` says which component runs in a behaviour, the others stand still. A sum therefore
checks each component with every input from its neighbours, and no product of unrelated
interleavings.

`AuthorisedWrites` is the abstract specification; `AgentRun` implements it. The proofs are
in eight modules: one for each of the four large components, `DesktopProofs`,
`ServicesProofs` and `SharedProofs` for the components of three of the sums, and
`SequenceLemmas` for what they all need of sequences.

Order of the work: what can write to a customer's system first (`AgentRun`, `RunControl`),
then what carries data off the device (`OutboxSync`), then what writes on the live page
(`StagedRuns`, `BrowserLane`, `DesktopRuns`, `AgentWindow`), then the inputs that lead to it
(triggers, observation, learning, compilation) and the state around it (settings,
credentials, audit). Section 5 says which properties are proved and which are only
model-checked.

## 3. Modules and the code

`PROJECT.json` maps every definition to its lines; here is the reading guide.
Definitions whose comment begins with *Mutant* are plausible bugs of the definition
that follows them; no specification uses them.

### AgentRun – the durable run

*State.* `plan`, `mode`, `inputsReady` are the immutable input of the workflow. `pc` is
the await the workflow is parked at, `attempt` the attempt of the activity it awaits.
`status`, `summaries`, `pending`, `approval`, `rejection`, `cancellation`, `lastDiff`,
`outputs`, `warnings` are the workflow's own variables, durable because Temporal replays
them. `cache` and `ledger` are the worker's run state and idempotency store: memory, lost
by `Restart`. `wphase`, `wstep`, `wdiff`, `wtodo` describe a write attempt that executes
in the worker, which may outlive the activity it belongs to. `patched`, `bound`,
`checked`, `consents`, `lastWritable` record what really happened.

*Actions.* One per await and outcome: the activity answers, its attempt is lost and is
retried or given up; one per signal handler; one for the gate's timer; one per PATCH of
the write and one for its read-back.

*Abstractions.* A diff is the set of changes it proposes, each on a record of its own,
and its hash is injective. `lastDiffSha` and `lastDiff` are one variable; the fallback
to `proposedDiffs` is dead code because `lastDiff` is always carried. A write step's
`proposal` input is the last proposal. The read-back passes exactly if every proposed
change is on a field the adapter owns. Transient retries inside `executeStep` change no
state and are left out, and so are costs and intervention times. The policy is compiled
into the worker, so its verdict changes only with a restart.

### AuthorisedWrites – what a run promises

Per step: a diff may be granted once, a change of a granted diff may be applied once,
nothing is granted after the run is closed. `AgentRun` implements it with
`granted <- bound, applied <- patched, closed <- status \in Final`.

### RunControl – triggers, answers and the kill switch

*State.* `agent` and `row` are the tables; `phase`, `answer`, `key`, `target` the trigger
requests in progress; `approving`, `cancelling` the other handlers between their awaits;
`wf`, `approved`, `rejected`, `cancelled` the workflow and the signals it received;
`wrote`, `halted`, `refusable` record history.

*Actions.* Each await of a handler is an action, so two handlers interleave at every
await, and `ApiCrash` cuts all of them. *Abstractions.* A trigger request draws a fresh
run id, so a request and the run it would create are one thing. The workflow is reduced to
one gated write. The worker's status sink only logs, so a row is `queued` or `cancelled`
whatever the workflow does. Shadow runs, which write nothing, are left out.

### OutboxSync – from the event table to the API

*State.* `table`, `outbox`, `due`, `tombs` are the encrypted store; `lock`, `kind`,
`target`, `who` say which operation holds the store mutex, how far it is and on which
events; `keychain` and the tokens in the hands of the two syncers; `sessions`, `rows` and
`late` are the API's tables and the requests the device has given up on; `queued`,
`erased`, `doomed` record history.

*Actions.* Each SQL statement of insert, delete, delete-by-app and delete-all is a step
under the mutex, and `StoreError` or `Crash` may fall between any two. The drain, the HTTP
call, the per-row acknowledgement and the deferral are steps of the syncer that holds the
mutex. *Abstractions.* Any `Limit` due rows may be drained (their order by `created_at` is
left open); a back-off is *due or not due*; the trace flag is a Boolean input; `Invalid`
are the projections the strict contract refuses; a request given up on is kept in `late`
only if the API accepts it, since a refused one stays without effect. `sweep_retention` and `outbox_enqueue`
have no caller outside tests and the rotation route none in the client.

### StagedRuns – cards, shadows, approvals and the live page

*State.* `page` is what the browser shows, `granted` whether its origin may be acted on;
`staged` and `card` the list of cards (a card that drops off the list keeps its record,
unseen); `queue`, `running`, `inFlight` the shadow pool's module variables; `asked` the
`answerStagedRun` calls and `run` the `approveStagedRun` calls under way, each with the
proposals it has merged so far (`pass`); `run[r].sent` are writes whose dispatch timed out
and which the browser may still perform, `landed` what it performed, `status` what was
confirmed.

*Actions.* A firing is staged as a suggestion or through the pool; every control is read,
written and read back in a round trip of its own, so edits, permission changes, other
shadows and other runs fall in between. A write is refused, lands (confirmed or not), or
times out and lands or expires later, also after the run has ended. *Abstractions.* A plan
has one propose and one write step per control, as the trace compiler pairs them; a diff is
the set of its changes and the number of unreadable fields, and its hash is injective; the
origin is one and fixed; reasons why a gate or the browser refuses are one refusal. An agent
of `Asking` has one required input of source *user*. Every agent stays registered. The
button *Use this* may be pressed again while the first answer is still being worked on.

### The components of MCDesktop

* **TriggerDaemon** (`trigger_service.rs`). `listed` is the agents file, `known` what the
  daemon holds of it; `firing` and `appending` are what each thread has still to announce and
  the spool as it read it; `drain` is the panel's boot. Sweeps, event threads, saves of the
  agents, the drain and restarts interleave at every release of the mutex.
* **BrowserLane** (`plan.ts`, `execute.ts`, `inpage.ts`, `browserRun.ts`). `steps`, `at` are
  the plan being carried out; `page` and `record` what the page shows and what was saved;
  `held`, `touched`, `edits` record what fields held and who touched them. The plan is
  built as the code builds it: the steps of each change flattened into one list, then the
  save and its confirming reads.
* **DesktopRuns** (`runs.ts`, the run panel). `calls` are the async calls under way, each
  parked at an await; `active`, `plan`, `inputs`, `answers`, `resume` are the module variables
  they share. `crossed` records that a run was dismissed while a call was at work on it.
* **BrowserBridge** (`browser_bridge.rs`, `browser_relay.rs`, `browser-host`, `sw.ts`,
  `relay.ts`, `dispatch.ts`). `links` are connections with the lines not read yet, `waiters`
  the relay's pending map, `dispatches` the calls in the core, `handled` and `upward` the work
  of the service worker. Framing and cryptography are left out: a line carries the secret it
  was signed with.
* **AgentWindow** (`browser-adapters.ts`, `execute.ts`, `own-window.ts`, `agent_browser.rs`,
  `inpage.ts`). One step of an agent: `position` goes over its fields or changes, each checks
  the address (`cleared`) and then evaluates one script, which may be given up (`overdue`) and
  still run. `made`, `slipped`, `looked`, `confirmations` are history.

### The components of MCLearning

* **ActionTraces** (`ActionTrace.swift`, `main.swift`, `content.ts`, `trace.ts`). Both
  recorders, per source: trace id, assigned steps, bounded buffer; flushing gates the buffer
  again.
* **Segmentation** (`segmentation.ts`): a stream arrives in any order; the episodes are
  a recursive function over the sorted stream, compared with a reference definition of
  wholeness.
* **PatternEngine** (`similarity.ts`, `template.ts`, `scoring.ts`, `replay.ts`,
  `forming.ts`, `engine.ts`): pure operators over recorded runs, scores in thousandths.
* **Proactivity** (`extract-date.ts`, `proactivity.ts`, `proactive.ts`): the pack's timing,
  day after day, over a short calendar. `ripe` says which patterns have the repetitions and
  are within the safety bars: those are items, and their stored answers reach the dismissal
  ladder (`Decided`); the others are forming, and `refresh` hands them over as *new*.
* **Compilation** (`compiler.ts`, `compile-learned.ts`, `trace-compiler.ts`, the validator,
  the policy, `resolve.ts`): one compilation at a time, drafts and repairs with their cost.

### The components of MCServices

* **AgentStore** (`agents.ts`, `agentService.ts`): the list in the panel, the file, saves
  answered in order, the creation of an agent with the grant of its address.
* **ObserverSupervisor** (`lib.rs`): the supervisor's loop over one child, the gate's cache
  and the settings it goes by, native actions with their deadlines.
* **ServerPanel** (`serverRuns.ts`): calls that poll one run each, question by question, and share
  one `runId`, diff and pending approval. A shadow run's diff, its receipt and the last phase
  are steps of their own; `covered` says that a shadow run's diff was put over a pending
  approval, `shown` and `approvedUnder` what was clicked.
* **DesktopSurfaces** (`machine.ts`, `scheduler.ts`, `StatusBar.tsx`): pet and bar.
* **AuditChain** (`audit.ts`), **ConnectorVault** (`connectors.ts`, `vault-credentials.ts`),
  **DeviceSessions** (`server.ts`, `enrollment.ts`): the transactions of each, statement by
  statement.

### The components of MCShared

* **LocalSettings** (`settings.ts`, `bridge.ts`, `Onboarding.tsx`, `Privacy.tsx`,
  `Mother.tsx`, `PetApp.tsx`, `StatusBar.tsx`): the file, a copy per window, commands and
  replies in order, announcements, the save `hydrate` waits for with its fall to the
  defaults, and the status bar, which keeps no copy, loads and writes the file whole and
  announces nothing; `astray` are the windows it, a failed call or a missed announcement has
  left behind. **LearnedWorkflows**: the same discipline for one window, with salvage.
* **Suggestions** (`recommendations.ts`, `motherLoop.ts`): refreshes and actions that read
  memory, await a save and publish. `crossings` counts actions that began while another was
  under way.
* **TeachMode** (`teach.ts`, `teachMode.ts`, `vision.rs`, `TeachCapture.swift`): control
  lines, captures, frames and verdicts of sessions that overlap.

`Values` holds what the desktop modules share: the absent value, and the filter of an array as a
recursive function the prover can reason about: `Chosen` gives the elements, `InOrder` their positions.
`ByRank` sorts and `SumOf` adds, for the same reason by a function rather than a fold.

## 4. Runs

Twelve runs: nine pass, three end in the counterexample they are kept for.

| run | instance | shows |
|---|---|---|
| `run` | three steps, the plans of `ThreeStepPlans` (two writes on one proposal; a read before a proposal and a plain write; a plan that proposes too late), two changes of which the adapter owns one, one restart, two approvals | writes are authorised, happen once, stop at cancel and refusal; *completed* means complete; every run ends; it implements `AuthorisedWrites` |
| `control` | three requests with one key, one agent, one crash | one workflow per key, agreeing answers, honest cancelled rows, answered runs end |
| `outbox` | two events of two apps, one of them refused by the API, batches of two; three inserts and a fault with one token, or two inserts and no fault with two tokens | nothing is lost, nothing erased leaves the device; with a lasting session, and once no refused event is queued, every queued event leaves the queue |
| `staged_writes` | two agents (one asks), two fields, two cards, a list of one, two approvals, three values, one edit | only shown changes reach the page, stale runs write nothing, *verified* means the whole plan |
| `staged_pool` | two agents, one worker, one button, times 0..2, cooldown 2 | exact pool, one card per window, staged work ends; a plan that presses is never *verified* |
| `desktop` | MCDesktop: one watcher and one cron, one field with two edits in the lane, two helpers with two runs and two calls, two requests over two links, two runs of the window on three pages | firings are faithful; a revert restores; no edit is typed over; approvals count for what was shown; the panel offers a way on; answers reach their call; the window is faithful |
| `learning` | MCLearning: four observations, four stored events, four recorded runs, twelve days, patterns that become items and forming ones again, the shapes of workflow, trace and draft the compilers tell apart | traces, episodes, patterns and cards are sound; what is compiled can run and waits for approval |
| `services` | MCServices: one agent with threshold one, one observer child and one crash in the budget, two cards, two server runs and calls with two polls each, three audit events, two vault calls over three grants, two rotations over four tokens | autonomy is earned, what is shown is true, the server writes what was approved for its run and was on the screen or under a shadow run's diff, one audit chain, sound credentials |
| `shared` | MCShared: two windows and the status bar, a file that does not parse, two updates and one mishap; two drafts; two patterns of one family, two boots; two sessions with two frames | shared files are honest, decisions persist, what was saved was kept |
| `kill_switch_runs`, `cut_deletion`, `stale_gate` | small instances | violations: section 6 |

The instances have between about 10^5 (`staged_pool`, `control`) and 5 x 10^6
(`shared`) distinct states.

*Bounds.* The `Max...` constants cap counters the environment drives: restarts, crashes,
approvals, edits, calls, clock. Retry limits are smaller than the code's (2 for 3, 1 for 5)
because a limit of two already has a lost attempt that is retried and one that is not. Two
changes suffice for a write that stops halfway and one that skips a change; three steps for
two writes that share a proposal; three requests for a duplicate of a duplicate; two fields
for a write that lands before one that does not; one edit for a field that changes between
the comparison and its write; three values, because with two a write over an unseen value
could only restore the proposed one; two runs with two calls each for a call that resumes
under another run's variables. The executor's invariant `RunsInv` was also checked with three
runs and three calls. Two events, of which one is refused, make a batch of both, a queue from
which one is deleted while the other waits, and an id that is stored again after it was
uploaded or deleted. `MCOutboxSync` spends those bounds in two ways, by where a behaviour
starts: a fault and one token, or two tokens and no fault; both at once are more states
than a run should have. Two polls let a call see a run that is not over and be used up. A plan with two
proposals and queues longer than two were left out of the runs for their size; the safety
theorems cover them: no theorem assumes any of these bounds.

*Symmetry* is used in `staged_writes` only, over the two values no agent writes by itself.
Every other run has liveness or asymmetric constants.

*Deadlock* is checked for `StagedRuns`, where a firing or a grant is always possible. The
other systems stop: a run ends, requests are used up, and the bounds end the environment.

*Fairness.* `AgentRun`: weak fairness of the workflow and of a write attempt that executes,
because Temporal keeps dispatching tasks, timers and retries; users and restarts are not
fair. `RunControl`: weak fairness of the handlers' next await and of the workflow; no
request is forced to be sent. `OutboxSync`: the device's own steps and the loop's wake-up
are weakly fair; taking the mutex is strongly fair because tokio's mutex is first come,
first served; of the network it is *assumed* that a request with a batch the contract accepts,
repeated for ever, is answered at some time, and that a connection does not stay silent for
ever, since the client sets no timeout. No fairness makes the user delete a refused event:
that is the property's condition. `StagedRuns`: the next step of each
shadow, answer and run is weakly fair, because the relay and the native lane both time out
(`ACTION_TIMEOUT`, `NATIVE_ACTION_TIMEOUT`); users, firings, edits and late writes are not.
The components of the sums have no fairness: what is checked of them is safety.

## 5. Proofs

The theorems hold for every value of the constants that satisfies the named assumptions of
the modules (`NAssumption`, `PlansAssumption`, `BridgeAssumption`, ...; they say that bounds
are numbers, that the absent value is none of the values, and that a plan is a plan): any
number of steps, requests, events, agents, runs, calls or tokens, and any bound on restarts
and faults. A theorem about a component of a sum is about the component's own specification
(`DaemonSpec`, `VaultSpec`, ...), of which the sum's run is the small instance.

None of the checked invariants is inductive as it stands. Each proof states the missing part
by name; the larger ones were checked by TLC as invariants of the run first.

**`AgentRunProofs`.** `TypeCorrect` first. The safety theorems rest on one inductive
invariant, the conjunction of parts that each say what one piece of control guarantees:
`StepInv` (which awaits belong to a step and of what kind), `GateInv` (a pending approval is
for the current step and the last diff), `ClearedInv` (what has passed the gate was approved
if approval is required), `FreshInv` (a step about to write is not yet bound), `BoundInv`
(what was applied belongs to the bound diff, once), `WriterInv` (a write attempt works on the
bound diff, and what it still has to do is unapplied), `CancelInv` (a recorded cancel and the
last step it leaves free), `RefusalInv` (refused steps are unbound). `WritesAtMostOnce`, for
instance, survives a restart, which empties the idempotency store, only because a step is
bound once (`FreshInv`) and the write activity has one attempt. From it follow
`WritesAuthorised`, `WritesOnce`, `CancelStops`, `RefusalHolds`, the action property
`FinalStays`, and `RunImplementsContract`: initial states map to initial states and every
step to a step of `AuthorisedWrites` or a stutter.

`CompletedIsWhole` needs a second invariant, `CompleteInv`. `WorkInv` follows one write
attempt: what the ledger says is applied was applied, what is on the attempt's list is not,
and what it has checked is whole. `SettledInv` says of every earlier bound step that it is
whole or the run already carries a warning or failed. A restart in the middle of an attempt
loses the ledger but also the attempt, so the step can only end with a warning; that is
why *completed* without a warning is safe although the books are in memory.

**`RunControlProofs`.** `KeyInv` (a row excludes another row with its key, a started workflow
has a row), `AnswerInv` (an answer names the holder of the key), `CancelInv` (a cancel handler
past its signal has signalled) give `TriggerOnce`, `OneAnswer`, `CancelledRowsHonest`.

**`OutboxSyncProofs`.** `HolderInv` (which syncer and which batch belong to each state of the
mutex), `StoredInv` (what is about to be acknowledged is stored), `ErasedInv` (what is erased is
not in a batch under way) give `AtLeastOnce` and `DeletionHolds`.

**`StagedRunsProofs`.** `TypeCorrect` includes the bound of the pool (`PoolInv`), without which
the number of jobs to start would not be a number. `RunInv` says of every approval: before the
comparison nothing was sent (`Untouched`); a run that writes found the approved proposal again
(`Compared`); what is sent, landed and confirmed was approved (`Approved`); while it counts as
verified, every control behind it is confirmed (`Counted`); and a run whose proposal differs has
neither landed nor sent anything (`Stale`). `StaleWritesNothing` alone is not inductive: a late
write could break it, were it not known that only compared runs send. From it follow
`StaleAborts`, `VerifiedRunsAreWhole` and the action property `WritesAreShown`.
`PoolStaysExact`: queue and workers hold every agent once and apart (`Once`), so the counts
add up (`ExactInv`); the pump that starts jobs is a step of its own in the proof
(`PumpExact`). `CardsAreApart`: besides the windows, a card is in the list once
(`ListedOnce`); `PushKeeps` shows that a card is pushed only when no card of its agent in
the list is of its window, whichever order firings arrive in.

**`DesktopProofs`.**
* Trigger daemon, `FiringsStayFaithful`: `NowInv` (the daemon holds the triggers of the live
  agents, nothing is of the future), `WindowInv` (a schedule's firings are of windows of
  their own, each with an occurrence in it), `CooldownInv` (an agent that was live all the
  time has its last firing on record, through every reload).
* Run executor, `ApprovalStaysMeant` and `PanelNeverWedges`: `PhaseInv` ties the phase to
  what is pending or revertible and to the module variables, `CallsInv` says of every
  call what it may still do where it stands (`CallIsSafe`), and `Alone` that a call that
  changes the run's variables has no company. Both hold only while no run was dismissed
  during a call (`~crossed`): see section 6.
* Browser lane, `RevertsRestore` and the action property `NothingWrittenBlindly`: `PlanIs` and
  `UndoingIs` say, for diffs of any length, which steps a flattened plan has and which changes
  a filtered and reversed revert is of. On them rest `RunInv` (the plan is of the changes shown
  and writes no field twice), `UndoInv` (what is there to undo is what the run wrote and what
  the field held), `BackPlanInv` (the revert writes exactly that back and saves nothing) and
  `BackInv` (what it has written stands where nobody touched it). `RevertRestores` alone is
  not inductive: it speaks of the end, and needs to know of every step behind `at` what it did.
* Browser bridge, `WaitersAreKept`: a request is in one place at a time – on a line, being
  handled, or on its way up – (`InOnePlace`), a waiter belongs to a dispatch under way, and an
  answer that may still come finds its waiter (`WaitersInv`, `NotYetAnswered`).
* Agent window, `WindowStaysFaithful`. What was made: of each run the page took the first
  steps, in their order, each once and as confirmed (`MadeInv`), and a script that ran out of
  time is the next step of a run that goes no further (`OverdueInv`), so that it may land at
  any later moment; `StageInv` and `ReportsInv` say what is confirmed, made and reported
  at each stage. Writes on an allowed site rest on `SiteInv` (what was cleared is there unless the window
  left since). That no read shows a credential is the type of what is read: `Public` values and
  those of credential boxes are apart in the pages (`Apart`) and no action mixes them;
  `SecretsAssumption` says that a credential box's content is found nowhere else, without which
  one could not say of a value that it is the credential. `ListingIsTrue` is about the functions
  alone: for a page of any length, a control listed once resolves to itself by its listed name.

**`ServicesProofs`.** `ChainIsOne` (`LockInv`: who is past the lock goes by the head as it is;
`RowsInv`: the head is the one row that none follows), `DisconnectStays` (`UnpluggedInv`),
`RotationHolds` (`FamilyInv`, `KeychainInv`: a rotation between its two statements owns the
family it revoked), `CredentialsSound`, `AutonomyStaysEarned` (`EarnedLists`, `EarnedSaves`:
every copy of the list, those in flight too, counts no more than the approvals given),
`ServerWritesAreShown` (`CallFits`, `RunFits`: what a call still holds is what the server showed
for that run; `PanelInv`: the diff on the screen is the pending one unless a shadow run's
covers it), `StatusStaysHonest`, `SurfacesStayTrue`, `ShownStaysTrue`. Last, the pattern
engine, which is a function of what is stored: the inductive invariants (`Stored`,
`Remembered`) only say that events and runs are what the code stores, that stamps are numbers
and days never go back; the rest is about the function.
* `EpisodesStayWhole`: the loop of `segmentEpisodes` is a recursive function over the sorted
  stream, and its loop invariant, proved by induction over the events taken, says that what is
  open and every episode built are unbroken (`Sound`), and that a stretch nothing closes stays
  open until it is an episode (`StretchStaysOpen`, `StretchIsEpisode`). The sort is by rank
  (`ByRank`): every event has a place of its own, so none is lost and the stamps ascend. That an
  episode counts no invented time compares two sums term by term. `KindsAssumption`,
  `TimesAssumption` and `SizesAssumption` say that durations, gaps and limits are numbers and
  that the time an episode is given for its last event is at most the cap.
* `PatternsStayEarned`: the edit distance is a table of rows (`IsRow`, `IsTable`), whose turned
  table is the table of the exchanged sequences (`TablesTurn`), so similarity is symmetric and
  within 0..1000 (`IsSimilarity`). Complete linkage keeps every two runs of a cluster alike
  (`AreAlike`) from merge to merge and no run in two clusters. What the greedy alignment calls a match is an
  order-preserving embedding (`WalkIs`). The replay's newest runs are the
  highest positions of the cluster, and its verdicts correspond one to one to the comparable
  evidence, so its counts are those of the property. `GateAssumption` says that the window and
  the number of runs to verify are positive and the share is one in thousandths,
  `ShapesAssumption`, `TuningsAssumption`, `WorkflowsAreNumbered` and `ChainAssumption` that
  runs, options, templates and the catalogue's risks are of the kinds the code reads.
* `EvidenceStaysEarned` joins the two. The claim about forming cards is conditional on
  `VerifyMinMatch > 0`: the settings' schema allows 0, and then runs that all miss clear the
  card's gates while the replay still refuses them.

**`SharedProofs`.**
* `SettingsStayShared`: every window that can catch up with the file is about to or has
  (`ShareInv`: a call of its own is to come, a save is run and not announced yet, an
  announcement is on its way, the last load it will see read the file as it is, or it holds
  it; or it is astray). Answers come in order, so only the last one counts (`LastStays`). The
  status bar's own actions change no copy (`BarKeeps`); its save leaves astray every window
  that does not read the file afterwards. `DecisionsStayPersisted` (`Current`), `SavedStayKept` (`WordsInv`).
* `TaughtStaysHonest` and, with the settings in one behaviour, `SharedFilesStayHonest`:
  `Candid` says of every workflow in memory, on file and on its way to either that what it
  lists as missing is what it asks, and that one which was only observed does not know its
  site; `LeftAlone` that a file found unreadable is answered as unreadable and no save is
  under way while no workflow was touched too early. A list from which one is taken out
  still has one workflow for a pattern (`RemovedInOrder`).
* `TracesStaySound`: a buffer is in the order it was observed, although its oldest entries
  drop out (`InTurn`, `Kept`), a stamp on an event leads to one observation (`LeadsTo`), and
  `Assembled` says of every prefix of a buffer what the steps made of it are and what the
  last read is: the fold that assembles a trace is a recursive function, and its invariant is
  proved by induction over the prefix.
* `CompiledRunsStaySound`: `CompileInv` says of a finished request that its spec is `Backed`:
  it runs to its end, its writes wait and are allowed, its cost is within the budget. That a
  spec which passed the validator runs to its end needs the order of its steps:
  taught steps are sorted by insertion (`ByOrderIsSorted`, by induction over the steps
  placed so far), the others are numbered where they are pushed (`ProgramIs`,
  `ReconciliationIs`, `BrowserStepsAre`); with sorted steps, a producer of a lower number stands
  earlier (`PassedRunsToTheEnd`). One match of a finite set is the only one
  (`OneMatchIsCertain`), hence the field a run starts on cannot be mistaken. The assumptions
  (`PlansAreLists`, ...) say that plans, pages, traces and workflows are lists.
* `CardsStayTimely`: `ProactiveInv` holds what the entries and the answers given must say of each
  other: `EntriesInv` (a dismissal has the day of an answer), `LastWordInv` (a final word is
  the last word) and `SnoozeInv` (`Outlived`: a snooze that was asked for is the pattern's entry,
  or an answer that came after it is). An answer is given only to a card that is shown, so the property itself serves in the
  step that keeps these. `NearestClose` says, by induction over the months of the calendar, that
  the close a card counts to is the next one; `UsableIsCertain` that a date that is used was
  the only real one read; `LadderWaits` that a workflow one of whose items was put
  off waits for that snooze and a rung, unless something of it was accepted since. The
  assumptions say that the months have days and the labels and packs are of the kinds the code reads.

**`SequenceLemmas`** states what the other proofs use of sequences in terms of the elements
at their positions. The library's induction theorems take an operator as a parameter, which the
provers cannot instantiate; `NatSetInduction` states induction with a set instead (a set that
holds 0 and is closed under successor holds every number) and follows from the library's theorem that
every non-empty set has a minimal element. With it `ChosenIs`, `InOrderIs` and `FlattenIs` say, for lists
of every length, what a filter leaves, at which positions, and where an element of a flattened
list comes from.

*Only model-checked.* The liveness properties (`RunTerminates`, `AnsweredRunsEnd`,
`QueuedEventsArrive`, `StagedWorkEnds`), because the prover has no rules for fairness and
`ENABLED`. Every safety invariant and action property of a passing run is stated by a theorem.
## 6. Where the code and its words disagree

Three runs end in a counterexample; `PROJECT.json` quotes the lines.

* `kill_switch_runs`: the kill switch updates rows that no workflow reads.
* `cut_deletion`: a deletion cut off after its first statement leaves the projection queued,
  and deleting again does not reach it.
* `stale_gate`: a gate load that read the settings before a save caches them after the save has
  cleared the cache, so events are kept although the user paused.

Everything below was met in the same way – a property or an assumption of a proof that the
code does not keep – and is not kept as a run. Where the code says otherwise, it is noted.

*Durable runs and run control.* The receipt is built from the worker's memory: after a restart,
or a `finalizeRun` attempt whose answer was lost, a completed run reports no writes. A request
cut off between the row and the workflow leaves a key whose retries are all answered with a run
that never starts. The trigger route does not look at the agent's state, so an agent the
kill switch paused runs at the next trigger (RUNBOOK: "Re-enable agents individually
afterward"); the switch leaves draft and degraded agents as they are, although its comment
says every non-retired agent. A step marked failed by a timeout may have applied changes,
while the receipt counts none; the receipt calls every completed write step independently
verified, also when the read-back failed (the run then ends with warnings).

*Sync.* One refused projection keeps the rows drained with it from arriving, for as long as it is
queued: it is deferred with them and drained with them again, and only the deletion of its event
ends that. Without that condition TLC refutes `QueuedEventsArrive`. Nothing reads the
deletion tombstones, so a deleted event that is stored again reappears (RETENTION.md); the
`event_id` of a browser event is the hash of its shape, so that happens. A request the device
has given up on may be stored after its deletion was answered. A syncer that read the token
before it waited for the mutex uploads after `device_unenroll`. A server that accepts the
connection and stays silent keeps the store mutex for ever.

*Staged runs.* A stale card says "Review and approve again" and offers the button, but
`approveStagedRun` acts only on a card of kind *shadow*, so it does nothing. An answer that
lands late puts an executing card back to *shadow*, and it can then be approved a second time.
Each write step of a compiled agent is a plan of its own: when one is refused, the next one
(pressing Save, say) is still performed, although `browser-adapters.ts` says that the plan halts
on the first failure. A plan with a press, or with a field that already holds its value, never
counts as verified.

*Run panel.* `runs.ts:311–316`: spec, state and plan of the current run are module variables. If a
run is dismissed (Done) while a call is still at work on it – Approve clicked twice, Done clicked
while the second is in flight – the call resumes under the next run's variables and may write that
run's approved diff with the other's plan. With three runs and three calls TLC finds it; that is
why `ApprovalIsMeant` and `PanelOffersAWayOn` carry the condition `~crossed`, and the proof shows
nothing else is needed. Done clicked while a revert is in flight wedges the panel. Approve and
Reject both clicked before the next state is drawn write after the rejection. The server panel
gives up after its poll budget and reports *failed* while the server still runs; two starts share
one `runId` and one pending approval. A shadow run begun earlier puts its diff on the screen when it
is answered, `serverRuns.ts:184`, over the diff of a supervised run that already waits; Approve then
sends the pending hash, and the server accepts it, so what is written was not what was on the screen
(docs/LIVE_DEMO.md: the run "pauses at the approval gate with the exact diff"). The hash check
protects the write from another run's approval, not from this; `ServerWritesWhatWasShown` says as
much.

*Agents and triggers.* A firing is always spooled, so it is replayed at the next boot although it
was handled; a failed drain says "file stays for next boot" after the file was read and removed.
Creating an agent before the store is hydrated overwrites the file. A stale load may be published
after a save. A record edited in place keeps the edit when its save fails. Drafts are registered
at restore although the daemon says drafts never fire; archived agents still run from the panel.
An archive is lost when a runtime activity is being recorded.

*Bridge and extension.* `register_relay` may take a request for "the reply". After a restart of the
desktop the worker's port is non-null, so `ensureRelayPort` never reconnects, although `sw.ts` says
it does. A lost answer to the pairing leaves two different secrets.

*The agent's own window.* The script's refusals `target_not_found`, `target_ambiguous` and
`not_editable` are not in the contract and surface as "did not match the contract". A write whose
before or after value looks like a secret lands and is reported failed. The adapters'
`halted` is never true, because skipped steps are pushed too. The write drops `nth`. The user's
presence is asked once per plan, though the comment says "at THIS moment"; the page may leave between
the check of the address and the script, though `own-window.ts` says the check is "at the instant
of the action". A script that ran out of time may still land.

*Observer and traces.* Control lines queued while no observer runs are not dropped, though
`lib.rs` says so. A native action may be performed after its timeout. A spawn error makes the
supervisor give up for good. The status stays *observing* for the two seconds after a crash.
The Swift recorder flushes only inside `recordObservation`. An app that is refused by its
display name only becomes a step of a trace (`TracesAreSound` excludes it by name).

*Teach Mode.* Frames sent after Stop, or of a replaced session, join the review; the *ended* of an
old session ends the new one; `saveKept` twice stores twice; Stop is not delivered while a vision
call is awaited; the observer's frame metadata lack two fields of the schema, so every
observation is skipped. No screen calls `useTeach` yet.

*Suggestions and proactivity.* Overlapping refreshes and actions lose decisions (`crossings`).
*Never* does not cover the family once the medoid's signature changes. The pet's wave can spend
the last of the budget and hide the card it announces; a card dismissed on the proactive surface
is hidden for good. Quiet periods do drop cards (header invariant 3 says otherwise). The
not-now ladder never passes its first rung for one pattern. A "Not now" on a card whose pattern is
forming gets no rung and does not hold back the workflow's other patterns, because
`recommendations.ts:471-474` hands forming patterns over as *new*; only its own snooze is waited for. An acceptance stamped 1970 does not
clear the ladder although the comment says so. `forming.ts` counts raw runs tested while the
gate counts usable ones, shows volume bars for template patterns, and shows a met replay gate
at `verify_min_match_pct` 0 that `evaluateVerification` refuses. A label with two dates keeps
an ISO or named date usable.

*Pet.* A failed tick leaves it *thinking*; it shows *working* over a pending approval; one run's
success clears `running` while another runs.

*Settings.* Windows save whole copies of different age: a lost update can undo a pause or restore a
removed site. The status bar, a third writer, loads the file and saves all of it with following turned
off: a save of the panel between the two is taken back, although `StatusBar.tsx:95-96` says "a
merge-read keeps us from clobbering concurrent edits", and nothing is announced, so the copies of the
others keep following on until they next load, and their next change turns it on again. When the save
that ends a lapsed pause fails inside `hydrate`, its catch sets the copy to the defaults: the panel
shows the onboarding again, and a change made then writes defaults over the file. The pet drops and re-registers its listener at every change of its animal, and an
announcement in the gap is missed; its menu is usable before its first load and then writes
defaults over the file; a failed load leaves defaults that the next change writes. *Resume*
turns `observation_paused` off before consent although `Onboarding.tsx:10` says it stays (the
observer also checks consent).

*Learned workflows.* Records discarded on salvage are lost at the next save though a comment says
they are kept; a refused save leaves the changed list in memory; `startFor` before the first load
overwrites the file (no screen calls it).

*Compilation.* Taught references to a step's output never compile. The usage of dropped drafts and
of naming is not reported. Trace-compiled agents never meet the organisation's policy. A mixed
browser intent without the browser capability answers *needs_runtime*. A control label with
`&`, `;` or `$` trips V-EXEC-1; a model's draft that fills or presses in propose mode always fails
V-RISK-2; a trace of more than ten presses fails only at finalize, after its agent was stored.

*Connectors, devices, audit.* A refresh in flight undoes a disconnect; every connect makes a new row
and a refresh overwrites every row's token. A rotation cut between its two statements, or whose
answer is lost, leaves a dead token while the panel says enrolled; a late `syncNow` sets the phase
*enrolled* without a token; re-enrolment leaves earlier sessions live. `verifyAuditChain` orders by
`occurred_at, id`, so clock skew breaks an intact chain, and on an empty table it says valid
whatever the head says.

## 7. What is not modelled

See the components with status `not_modelled` in `PROJECT.json`. Out of reach or without state
worth checking: DOM and accessibility I/O, rendering, HTTP clients, wire framing and
cryptography, generated tables, text and prompt processing, ROI sums, the intent tables and the
workflow graph (both stateless), and lifecycles that no caller keeps.
