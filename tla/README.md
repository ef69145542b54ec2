# Dapier in TLA+

Dapier runs automations: a trigger event arrives, every published workflow that
matches it runs its chain of steps, and each step is recorded. The program is a
set of Lambda functions around DynamoDB tables and one SQS event queue. It is
correct when a step's side effect happens once although messages are delivered
more than once, when no run is lost although any invocation may die at any
point, and when pauses, retries, cancels and switches do not get in each
other's way. Around that core stand the parts that produce events and the parts
that keep rows several invocations rewrite at once. This directory models them,
checks them with TLC and proves with TLAPS what the rest stands on.

Source references are relative to `src/src/dapier/` unless they start at `src/`.

## 1. Inventory

| Component | State it keeps | Operations | What is hard |
|---|---|---|---|
| **Step ledger** `engine/worker.py`, `engine/logic_pkg/execution.py` | executions table: `status`, `lease_until` per execution id | `_is_pending` (conditional put), `_quota_pending`, `_mark_completed`, `_release_action`, `_close_paused_step`, `_cancel_paused_step`, `_mark_reused`, `api_cancel` | two deliveries at one step, takeover of a dead holder, unconditional updates |
| **Event worker** `engine/worker.py` | SQS messages (event, attempt, resume envelope), what one invocation holds in memory | `handler`, `execute`, `_park_suspension`, `_resume_run`, `_schedule_retry` | redelivery, crash between writes, early arrival, partial park, operator changes while parked |
| **Chain engine** `engine/logic_pkg/` | the stack of running chains, the segments of a suspension | `run_chain`, `_run_step`, `_handle_error`, `_run_for_each`, `_run_condition`, `_run_paths`, `resume_chain` | what is left after an unwind at any nesting, filters against loops and branches, error policies of wrappers |
| **Inbox** `triggers/inbox.py` | one row per event | `record`, `ignore`, `complete`, `api_replay` | rewritten by every delivery of the event |
| **Run history** `api/runs.py` | reads the step records; `api_cancel` flips them | `run_summary`, `api_cancel`, `api_replay` | rolls up whatever records a crash left |
| **Lifecycle and published store** `api/designer_store/`, `triggers/published_workflows.py`, `triggers/failure_counts.py` | live item with its revision, version records, drafts, failure streak | `publish`, `api_toggle`, `api_auto_pause`, `api_delete`, rollback, drafts, tags | read-modify-write without a condition |
| **Poll triggers** `triggers/poll_triggers.py`, `triggers/seen.py` | cursor, seen-set, trigger record | `fire`, `run_poll_now`, `api_reset`, `api_delete`, `remember`, `forget` | concurrent fires and resets, the cursor moves only after an item ran |
| **Webhooks** `api/router.py`, `triggers/hook_triggers.py`, `triggers/seen.py` | the claim per delivery, the inline run | claim, publish, release, the run under `response.mode: sync` | retries of the provider, expiry of a claim, a budget that ends in mid-chain |
| **Dropbox resolver** `triggers/intake/dropbox_resolver.py` | cursor and one rev per file | `resolve_account`, `process_entry` | concurrent resolvers, rejected cursors, death between two writes |
| **Schedules** `triggers/schedule_triggers.py`, `triggers/schedule_times.py` | the schedule's row, its EventBridge rule and target | `api_save`, `api_set_enabled`, `api_delete`, `record_fire`; cron and rate arithmetic | two systems, one of which may fail; calendar edges |
| **Digests** `engine/actions/digest.py` | items in arrival order | `run_digest_add`, `run_digest_flush` | counts that are stale when used |
| **Notices** `engine/notify.py` | one claim per run and kind | `_claim_notice`, `_send`, `_release_notice` | failing sends, death between claim and send |
| **Connections and tokens** `connections/` | credential records with a version | `refresh_and_store`, `revoke_connection`, `oauth_callback` | concurrent refresh, revoke under a refresh |
| **Device sessions** `auth/device_sessions.py` | grant, user-code pointer, sessions | `lookup`, `decide`, `poll`, `refresh`, `revoke` | decisions racing peeks and polls |
| **Task budget** `engine/usage.py` | counters per month | `enforce`, `add_task` | refuses in the middle of a run |
| **Designer, console, CLI, connectors** | none the core depends on | request handling, provider calls | not modelled |

The components meet in three places. Producers (webhook, intake, schedule, poll
now, inbox replay, run replay) send to the event queue; the worker is the only
consumer. Step records are shared by all worker invocations, by the poll fires
(which gate their items' steps the same way) and by the runs API. Published
workflows are read by every sweep and every resume and written by the designer,
the toggle and the auto-pause. Everything else keeps rows of its own.

What makes the components correct:

* *Ledger* - one holder per step; a finished step never runs again and never
  loses its outcome; what a delivery walks past is finished.
* *Worker* - every run is walked to its end, parked, or visibly stopped; every
  message is settled; a pause is always closed; inbox and history tell the outcome.
* *Chain engine* - a suspended and resumed walk is the walk it would have been.
* *Lifecycle* - a switch that was acknowledged holds; one event does not make a
  streak; the last versions can be rolled back to.
* *Polls, webhooks, resolver* - every item, delivery or change reaches its
  workflows, and its effect happens once.
* *Schedules* - a stored schedule has a rule that fires it, when it says.
* *Digests* - only what is over the cap is dropped.
* *Grants, tokens, notices* - at most one winner, and a loser destroys nothing.

`PROJECT.json` lists the hazards, each at the line where it bites.

## 2. Modules

| Module | Role |
|---|---|
| `StepOnce` | What the ledger promises: a step is run by one invocation at a time, and once finished by none. No clock, no records. |
| `StepLedger`, `StepLedger_proofs` | The executions table with every writer of a step record, whole-second time, invocations with a deadline; its theorems. |
| `Worker`, `Worker_proofs` | One trigger event from its first delivery to the last acknowledgement: messages, invocations, chains, parks, resumes, retries, the operator. Leases without a clock. Its theorems. |
| `RunHistory` | The roll-up of `run_summary` over the records of `Worker`. |
| `Carriers`, `Carriers_proofs` | Who carries a step until it is settled: the inductive invariant behind the end of an event, and the theorems about it, about the run history, the inbox row and the pauses. Nothing in `Carriers` is code. |
| `PollFire`, `PollFire_proofs` | One poll trigger: fires side by side, cursor, seen-set, the per-item step gate, resets, delete and re-create; its theorems. |
| `HookIntake` | One stored webhook from delivery to answer, with the consumer of the queue as far as intake needs it. |
| `DeviceGrant` | One pairing and the sessions that grow out of it. |
| `Credentials`, `Credentials_proofs` | The stored credential of one OAuth connection; its theorems, and those of `DeviceGrant`. |
| `Published`, `Published_proofs` | The published definition of one workflow, its versions and its failure streak; its theorems. |
| `CronTimes` | The arithmetic of schedule times: one question per behaviour, with every input. |
| `Schedules` | One schedule: the row, the rule, and everybody who writes either. |
| `DropboxResolver` | From "this account changed" to file events. |
| `Digest` | The items one digest collects across runs. |
| `Notices`, `Notices_proofs` | The mails about failed runs of one workflow; its theorems. |
| `Control_proofs` | The theorems about `HookIntake`, `Schedules`, `DropboxResolver` and `Digest`, and about the composition of all nine. |
| `MCStepLedger`, `MCWorker`, `MCCarriers`, `MCWorkerNested`, `MCWorkerStops`, `MCPollFire` | Instances for TLC. |
| `MCControl` | The nine components that share no state, side by side: `part` picks the one that moves. |

**`StepLedger`.** `status` and `lease` are the two attributes the conditional
writes look at; `now` is `int(time.time())`. An invocation (`up`, `deadline`)
lives at most `Timeout` seconds (`src/template.yaml` 709). `held[w]` is what `w`
gated in and has not closed. `Gate` is the conditional put that succeeds,
`GateRefused` the one that fails, `ReadBack` the two reads behind it (the first
is not consistent, so `LeaseBusy` is always possible; the second is), `Close`,
`Release` and `MarkHandled` are the after hook, the error hook and the second
mark of `on_fail` / `on_error`. `ClosePaused`, `CancelPaused` and `MarkReused`
are the writers that hold no lease, and `OverBudget` the refusal of
`_quota_pending`, which writes the record before the gate is asked. The four
sets `Handled`, `Pausing`, `Reusable` and `Metered` say which special writers a
step is exposed to; `Sealed` steps have none, so only a gate and its holder's
close-out write them.

**`Worker`.** `queue` is a bag (SQS promises no order), a message carries its
`receives` and is dead-lettered at `MaxReceive`. `inv[w]` is the memory of one
invocation: `pc` says which part of `handler` runs, `stack` is the Python call
stack of `run_chain` (one frame per chain, innermost first), `sweep` the positions of
the workflows `execute` has still in front of it (the least is next), `segments`
what `resume_chain` still has in front of it, `tail` the segments a suspension has
collected, `parks` the suspensions `execute` keeps. A step is two or more
actions: `Take` / `PassBy` / `Busy` (the gate), then `RunStep` or `FailStep`,
`Handled`, `EndChain` for a wrapper. So a crash may fall between any two
writes to the tables. What the model leaves out of an action: telemetry,
outputs, templates, metrics and notices (`Notices` has those), and
`inbox.complete` is one step with the acknowledgement.

How the two meet: `Worker` has no clock. It keeps only whether the taker of a lease
is alive, gone, or the lease is over, which is sound because `StepLedger`
proves that a lease outlives its taker (`LeaseCovers` in `LedgerInv`). The stale
first read-back of the ledger behaves as if `Busy` had been met a moment earlier,
so `Worker` reads once. A step's close-out cannot be late in `Worker` for
the same reason. Task budgets and replay markers exist in `StepLedger` only.

Other limits of `Worker`, all of them named: one event per behaviour (events
share no step record, since the execution id contains the event id); workflows
are turned off but not back on, and `off` stands for disabled or auto-paused (an
unpublished workflow differs only in that its retry policy is gone);
`branch` stands for condition, paths and decision with the branch already
chosen, `loop` for `for_each` with its item list already read; a `delay` is one
past the inline cap, a shorter one is an `action`; `union` and `digest` are not
modelled; the auto-pause may trip at any failed delivery
that `_notification_attempt` lets through, since the streak depends on other
events.

**`PollFire`.** `fire[f]` is the memory of one invocation: the items it listed
(`todo`), the seen-set as it loaded it (`mem`), the position it will store
(`next`), the item's step. `ledger` is what the step gate left for each item.
Both cursor modes are in one model: `watermark` lists the whole source,
`next_cursor` a page. The operator resets (to now, to a date), deletes and
re-creates the poll under running fires; each of those is two writes.

**`HookIntake`.** `entry[k]` is the seen row's entry of a delivery, `call[r]` one
request from `claim` to its answer; each of the calls of `claim` (the conditional
update, the read behind a refused one, the put of the whole set) is an action. An
inline run walks numbered steps, one of
them a branch; the connector call (`RunAction`) and the close-out behind it
(`MarkDone`) are two actions, and the invocation may die, or the write fail, between
them. The budget may pass between any two steps, and what it skipped goes to
the queue. The provider sends again when it was told of a failure or gave up
waiting, while the earlier call may still run. `Consume` and the steps of the
"worker" are the worker's replay of that event.

**`DeviceGrant`, `Credentials`, `Published`, `Schedules`, `DropboxResolver`,
`Digest`, `Notices`** have one shape: rows as the tables keep them, one record per
concurrent call with the place it stands at and what it has read, and one action
per read or write of a call, so that calls interleave and die between any two.
Variables marked `history` record what a property speaks of (what somebody
meant, what went out, which calls overlapped) and are never read by a guard of
the code's actions. Where the code makes no promise, the property names the
exception instead of the model leaving the case out; section 6 lists them.

Where the code goes through a list in the order of its keys (the entries of a
Dropbox page, the items of a digest), the model keeps the numbers of the entries in
a set and takes the least.

In `Credentials` a refresh is tried for an expired access token and for one the provider
rejects (`Reject`), a consent may bring no refresh token and put back the one that was
read before its exchange (`ExchangeCode`), and a record may hold an access token alone.

**`CronTimes`** models pure functions: hours and minutes are one thing, the slot
of a day, and a zone changes its offset at most once in the horizon. The
definitions of the code (`Fires` walks local days, `NearestWeekday` steps
outwards) are compared with what the words mean (`FiresInOrder`, `DaysMatch`).

**`MCControl`.** The nine components have rows and callers of their own and no
action of one is enabled or changed by another, so the composition of all of
them has, for properties of single components, the same behaviours as each
alone. `part` is chosen at the start and only that component moves; the others
stay in an initial state. This checks nine state spaces in one run and
claims nothing about interaction. That the composition does implement each component is a
theorem (`PartsKeepToThemselves`). `HookIntake` and `PollFire` contain the part of
the worker they interact with.

## 3. Runs

| Run | Instance | Properties | Shows |
|---|---|---|---|
| `step_ledger` | 2 workers, a plain step and one that is handled, parkable and reusable; lease = timeout = 1, clock to 4 | `LedgerInv` (inductive, with the type invariant), `MutualExclusion`, `PassedFinished`, `FinishedForGood`, `ImplementsStepOnce` | the gate's condition with the tightest lease the code has (300 s against 300 s); four ticks let a lease be taken, run out, be taken over and run out again |
| `worker` | workflows `wait` (a branch with a send and a long delay, a filter that says no, a step behind it) and `post` (an action with 2 attempts); `send` and `post` may fail; 2 receives, one early arrival; one crash or failed enqueue anywhere | `WorkerInv` (inductive, with the type invariant), `HistoryTells`, `NothingLost`, `NothingParked`, `InOrder`, `ImplementsStepOnce`, `Drains` | the whole life of an event under redelivery, retry, a park two chains deep and its resume, with fairness |
| `worker_operator` | one workflow: a send with 2 attempts, a long delay, a loop over two items whose failure runs a recovery chain; the event enqueued twice, 2 receives; the workflow may be turned off, the parked run cancelled | `CarriedOn` (inductive), `NothingParked`, `NothingLost`, `RowKeepsUp`; also evaluates `Trees`, the hypothesis of the theorems | nobody's switch strands a pause or loses a live run, with two sweeps, their retries and two continuations of one run; every order in which they close the inbox row, where the note of an overtaken retry is the only step that leaves it behind |
| `poll` | a scheduled and a manual fire, 3 items, pages of 2 with one repeated, `max_items` 1, two workflows, one of which filters; one fault, one manual fire, reset, delete or expiry | `PollInv` (inductive, with the type invariant), `NothingSkipped`, `EveryItemRuns` | no interleaving of fires and resets passes an item over, and every item runs in the end |
| `control` | nine components, see below | `ControlTypeOK` (the inductive invariants of all nine but the grants', and the types of `CronTimes`), and one or more properties each | the rows around the worker |

The bounds of `control`, component by component:

| Part | Bounds | Properties |
|---|---|---|
| grant | 2 operators, 2 clients, 3 secrets, 2 attempts (exact when two looks are enough to spend it) | `GrantInv` (inductive, proved), `OneHeir`, `OwnedByApprover`, `DecisionStands` |
| hook | 2 deliveries, 2 requests, a branch with one step and a step behind it, 2 tries, 2 faults (a fault is also a close-out that is not written) | `EffectOnce`, `AcceptedIsServed`, `FailedIsRetryable` |
| cred | 2 refreshers beside an admin and a consent, 3 tokens; access tokens expire, are rejected or are replaced by a consent without a refresh token while the version is below 2; one revoke or delete, one consent, one lost exchange | `RevokedStaysEmpty`, `StoredTokenWorks` |
| pub | 2 callers, 2 failing events, threshold 2, streaks of 3 (so that a, b, a happens), 2 kept versions, 3 revisions, 3 calls, one death | `SwitchHolds`, `VersionsKept`, `StreakCountsEvents` |
| cron | every month shape (28 to 31 days from any weekday), 3 slots a day, offsets from -2 to 1, 9 moments | `DaysMatch`, `FiresInOrder` |
| drop | 2 files, 3 changes, pages of 1, 2 resolvers, one rejected or expired cursor, one break | `PassedIsPublished` |
| sched | 2 callers, 2 expressions, 4 calls or fires, 2 outages | `StoredFires` |
| digest | 2 concurrent steps, cap 2, 5 adds, 2 flushes, one break | `NothingDropped`, `CapHolds` |
| notice | 3 failing runs, 2 of them continuations, 2 reporters, 3 reports, 2 mishaps | `OneMail`, `FailedIsTold` |

Two actors are enough for the races of this code: every one is between a read
and a write of one call and a write of another. The other bounds let each
interesting thing happen once more than is needed to go wrong (a redelivery of a
redelivery, a digest that overflows behind a flush, an outage while an outage is
mended). The callers of all components (`p1`, `p2`) and the files are symmetric in `control`, workers in
`worker_operator` and `step_ledger`; the runs with liveness
use none.

The invariants of `Worker` are about the whole event: `InOrder` (nothing runs
before the sealed steps ahead of it are completed, whichever delivery gets
there), `NothingLost` and `NothingParked` (when the queue is empty and nothing
was dead-lettered, every workflow was walked, stopped at a filter, turned off or
cancelled, and no step still reads delayed), `HistoryTells` (the
roll-up of the run agrees with what was walked; a workflow that was turned
off in mid-run is left on purpose, with what it had recorded) and `RowKeepsUp` (as long
as the inbox row reads matched or the event is on its way, no step but a `LateNote`
ends that). A dead letter excuses
`NothingLost` and `NothingParked`: that is what the redrive policy and its alarm
are for. `NothingParked` is checked where no branch that parks handles its own failure: one whose
`on_fail: continue` absorbs a `LeaseBusy` (`worker_busy`) leaves the pause behind it.
Deadlock is not checked where the system really stops: a drained queue, a
bounded clock, an answered question.

Seven runs end in a violation, each of something the repository says of itself
(quoted in `PROJECT.json`):

| Run | Property | What the code does |
|---|---|---|
| `step_ledger_metered` | `FinishedIsDeduped` | the budget is checked before the dedupe and its refusal writes the record: a redelivery fails a finished step |
| `worker_branch` | `StopsHold` | a branch stopped by its filter is recorded `completed`; a redelivery walks past it and runs what is behind |
| `worker_loop` | `EveryItemWalked` | after a pause in a loop item, a filter in the rest of that item ends the whole run |
| `worker_cancel` | `OneSideWins` | the resume closes a pause without a condition, after a separate read: a cancel in between is overwritten |
| `worker_busy` | `BusyIsNotSkipped` | a `LeaseBusy` inside a branch is absorbed by the branch's `on_fail: continue`: the lease of a parked branch runs out, a duplicate takes the branch again, meets the lease of the pause in it, and records the branch as skipped while the resumed run is at the step behind the pause |
| `worker_inbox` | `InboxTells` | the retry is sent before its sender notes it on the inbox row: a retry that is through first has its "matched" overwritten for good |
| `poll_filter` | `FilterHolds` | a poll fire passes the bare gate, which answers `False` for a finished filter: an item that is fired again walks past the filter that said no |

**Fairness.** `Drains` needs weak fairness of `Deliver(w)` (Lambda polls the
queue), of `Handle(w)` (a running invocation goes on; a crash is not fair and
ends it, which returns the message) and of `Expire(s)` (time passes every lease).
`EveryItemRuns` needs the same of a poll (`PollFair`): the EventBridge rule starts
fires while the trigger exists, a running fire goes on, a lease runs out, the
operator's call returns. Nothing is assumed of failures, crashes, the producer
or the operator. The other components promise nothing that must happen
eventually without somebody calling them again.

## 4. Proofs

`StepLedger_proofs` proves, for every set of steps and workers, every lease and
timeout with `Timeout <= Lease`, and an unbounded number of takeovers:

* `LedgerInvariant`: `Spec => []LedgerInv`;
* `LeasesExclude`, `DedupeIsSound`: mutual exclusion and soundness of the dedupe;
* `FinishedIsFinal`: the action property `FinishedForGood`;
* `LedgerImplementsStepOnce`: `Spec => Once!Spec`, by step simulation.

The argument. Mutual exclusion alone is not inductive: a gate that finds an
expired lease needs to know that the old holder is dead. `Alive` (an invocation
that is up has not passed its deadline, one that is down holds nothing) and
`LeaseCovers` (the deadline of a holder is at most the lease of what it holds)
give that: `lease[s] < now <= deadline[w] <= lease[s]` is a contradiction. This
is where `TimesAssumption` (`Timeout <= Lease`) is used. `HeldProcessing` and
`WritersKnown` keep the other writers away from sealed steps, which
`PassedFinished` and `FinishedForGood` need. The assumptions on the constants are
`KindsAssumption` (the special sets are subsets of the steps) and
`TimesAssumption`; both are evaluated by TLC in every run of the ledger.

`Credentials_proofs` proves of `DeviceGrant`, for any number of operators, clients and secrets and
any attempt budget:

* `GrantInvariant`: `GrantSpec => []GrantInv`;
* `NoSecondHeir` (`OneHeir`), `SessionsOfApprover` (`OwnedByApprover`);
* `DecisionIsFinal`: the action property `DecisionStands`;
* `BudgetHolds` (`WithinBudget`).

The argument. `OneHeir` and `OwnedByApprover` speak of sessions that exist; the
races are decided earlier, between a read and the conditional write behind it. The
invariant therefore says what the calls in flight know: `Decided` (a decided
grant and its recorded approver agree with the verdict), `Undelivered` (while
the grant can still be delivered it has no heir), `MintersKnow` (a client that
is about to claim the grant read the approver that is recorded), `Refreshing` (one
that is about to replace a session has minted nothing yet) and `Lineage` (a session
acts for the owner of what it was minted from). `WithinBudget` needs that the
counter only grows under the guard that compares it.

`Worker_proofs` proves, for any workflows (chains, branches, loops, recoveries and
policies of any shape), any number of workers, deliveries, receives, retries, parks,
hops, crashes and failed enqueues:

* `WorkerInvariant`: `Spec => []WorkerInv`;
* `WorkerImplementsStepOnce`: `Spec => ImplementsStepOnce`, the same abstract
  specification that `StepLedger` implements, here behind whole deliveries;
* `WalksInOrder`: `Spec => []InOrder`, under the hypothesis `DistinctIds`.

The argument. `RunnersHold`: whoever runs a sealed step came through its gate, so the
record reads processing under its own lease; a lease that is over has no runner, so
a gate that passes finds nobody, and none of the writers without a lease (close-out
of a pause, skip, cancel) can meet a sealed step. For the order, the invariant must
speak of every place a remainder can wait: `ChainsReady` says of each chain that an
invocation has in hand (the stack under the step that runs, the segments of a resume,
the tail of an unwind, the suspensions it has collected) and of each message on the
queue that all the sealed steps ahead of each of its steps are done or come first in
it. Every action keeps it because it only cuts off heads that are done, or moves
remainders from one place to another; a filter or an exception that leaves a chain
drops the rest of it. `TypeOK` is part of it, since a frame is only known to carry steps
by its type. `ChainsAssumption` and `BoundsAssumption` say that chains are
sequences of steps, that a wrapper has a body, and that the bounds are numbers.
`DistinctIds` is needed for the order alone and is a hypothesis of that theorem, not
an assumption: `src/.agents/skills/create-flows/SKILL.md` (76, 142) asks for unique ids
and nothing in `api/designer_store/validation.py` enforces them. A step that occurs twice
would be walked past at its second place by the record of its first.

`Carriers_proofs` follows the event to its end, for any workflows that are trees of steps
(`Trees`, below), and any number of workers, deliveries, receives, retries, parks, hops,
crashes, failed enqueues and operator calls:

* `CarriersStand`: `Spec => []CarriedOn`; `NothingIsLost` (`NothingLost`);
* `HistoryIsTrue` (`HistoryTells`): what the roll-up says of a run is so;
* `RowIsKeptUp` (`RowKeepsUp`): no step leaves the inbox row behind the event, other than the
  note of a retry that is already through; `InboxIsTrue`: in every behaviour without such a
  note `InboxTells` holds, with any retry policies (both of events that match a workflow);
* `PausesAreAwaited`: a pause in a workflow's own chain that still reads delayed when
  all is quiet belongs to a run that was stopped;
* `NothingStaysParked` (`NothingParked`): where nothing interrupts a run, no pause is left.

The argument. `NothingLost` speaks only of the moment when the queue is empty, so it says
nothing about the steps that lead there. `CarriedOn` says for every step of a workflow's
own chain, in every state, who will see to it. Either it is settled; or the run is stopped
at it or ahead of it, by a filter or a cancel; or its workflow is off; or the event was
dead-lettered; or it is `Carried`: by a message that names it, by an invocation that has it
before it (the sweep, the chain in hand, what it parks, what it is about to hand on), or by
one whose exception will give its message back. Each action hands a step from one carrier
to the next before it lets go, and where two carriers hold the same step (duplicates,
a park beside its own redelivery) it does not matter which of them lets go. When the
queue is empty and nobody is at work there are no carriers, and `NothingLost` follows. The
other half of `CarriedOn`, `Shapes`, is needed because a carrier is described by its memory: the
frames of an invocation are, innermost first, what is left inside one step of the chain
and last what is left of the chain itself (`Line`), so that dropping an inner
remainder loses no step of the chain, and a continuation holds only what its message
names (`WithinMessage`), so that giving the message back gives all of it back.

The hypothesis `Trees` has three parts. `DistinctIds` is the one of `WalksInOrder`. `Nested` says
that a step belongs to one step of one chain, which is how definitions are
written (`Root` names it; the constant occurs only here). `FiltersOnSpine` says that a
filter that says no is not inside a branch or a loop: what happens otherwise is what the
runs `worker_branch` and `worker_loop` show, and `NothingLost` is false then. TLC evaluates
`Trees` on the instance of `worker_operator`.

`HistoryIsTrue` adds `LeasesRun` (a record that reads processing without a lease that is over has a
live holder or an orphaned lease) and reads `CarriedOn` at the end: a run that reads
completed or filtered has no step behind it that is not settled. `HistoryTells` also
excuses a run whose event was dead-lettered by a fault; the theorem leaves every
dead letter out of its first half. `RowIsKeptUp` looks at the step that
acknowledges a message: whoever writes another note than "matched" gives its message
back, parks, or has sent a retry that is still on its way, unless that retry was overtaken, which
is what `LateNote` says and what `worker_inbox` shows to happen. `InboxTells` is false in that
run, so `InboxIsTrue` assumes that no such step occurs; it does not assume away retries,
nor any other order of them. `NothingStaysParked` has the hypothesis `Uninterrupted`: no
filter says no, nobody cancels, delays stand in the chain itself. The checked
instances go beyond it, and `NothingParked` holds there: `worker` has a filter that says no and its delay
in a branch, `worker_operator` the cancels. Without it `NothingParked` is not true of every workflow: a pause
that a duplicate opens behind a cancel, or behind a stopping filter that failed and was
skipped in one delivery and said no in another, has nobody to close it when its suspension is
thrown away. `PausesAreAwaited` says what is left then.

`PollFire_proofs` proves, for any number of items, fires, steps and workflows, any page
size, overlap and budget, and any number of failures, deaths, manual fires, resets,
deletes and expiries, `PollInvariant` and `NeverSkips` (`NothingSkipped`). A fire stores a
position that it worked out from a page it listed long before, so the invariant says
what each caller knows meanwhile. `CallerKnows`: the running copy of the seen-set and
everything up to a position that was read is passed; a watermark page has no gaps, so
all in front of the item in hand is passed as long as there is budget; every item up
to the continuation of a cursor page is passed or still on it. `FireKnows`: the steps of
the item in front of the current one are settled, and the record of a step that runs
is its fire's own. `OperatorKnows` does the same for a reset, whose waived items are
recorded. `PollAssumption` has the steps of one workflow next to each other in the numbering.

`Control_proofs` holds the theorems of four components whose state is a few rows, and of the
whole control plane.

* *Schedules*: `ScheduleInvariant`, `StoredSchedulesFire` (`StoredFires`). `SoFar` says at each of
  its steps what a call that is alone has made of the rule and of the row; `Alone`
  that a lone call is really alone until an overlap is recorded; and the two agree
  unless some call stands between its two writes.
* *Webhooks*: `HookInvariant`, `HookEffectsOnce` (`EffectOnce`), `HookServesAccepted`
  (`AcceptedIsServed`), `HookRetriesFailed` (`FailedIsRetryable`). A step took effect once if it is
  recorded done, once more for each connector call whose close-out was never written
  (`unrecorded`), and once more while one waits for its close-out (`EffectsRecorded`); a runner holds the records
  of its step and of the branch around it (`Leases`); a walk that has skipped nothing has
  run what is behind it (`Ran`), and the worker's skips nothing; a live claim is
  some call's, unless the delivery was served or torn (`LiveOwned`, `ReadSet`).
  `HookAssumption` keeps the names of requests and of statuses apart.
* *Dropbox*: `DropInvariant`, `CursorPassesNothing` (`PassedIsPublished`). Every change behind a
  resolver's place that it does not hold, and behind the stored cursor, is `Settled`:
  published, lost or hidden for one of the reasons named, or a file's change in
  somebody's hand. A stored rev is settled by whoever stored it (`RowKnows`), which is
  what lets another resolver take the change for known.
* *Digests*: `DigestInvariant`, `DigestKeepsItems` (`NothingDropped`), `DigestHoldsCap` (`CapHolds`).
  The cap does not follow from what any single add knows: it is kept because, for every
  subset of the adds under way, what they leave and their own items fit
  (`RoomFor`). An add that nobody overtook drops only items with a full digest behind
  them (`MakesRoom`). The arithmetic stands on `OldestCount`, that the oldest `n` of a finite
  set are `n` of them, by the least counterexample. `CapAssumption`: the cap is a positive number
  and the concurrent steps are finitely many.
* *The whole*: `PartsKeepToThemselves` shows by step simulation that the specification of
  `MCControl` implements that of each of its nine components. So the inductive invariants
  hold in it side by side (`ControlPlaneInvariant`: `ControlTypeOK`), and so do the
  properties that the run `control` checks (`ControlPlaneKeepsPromises`), but for those of
  `CronTimes`.

`Notices_proofs` proves, for any number of runs, continuations, reporters and mishaps:

* `NoticeInvariant`, `MailedOnce` (`OneMail`). `OneMail` alone is not inductive, because a mail
  goes out a step after its claim. `HoldersClaim` says that the claim a reporter is about
  to honour or to drop is there and is nobody else's; `ClaimTells`, that no mail has
  gone out under a claim that is absent or still to be honoured.
* `TellInvariant`, `FailuresAreTold` (`FailedIsTold`). `TellInv`: a notice that is due was told, or
  somebody is at it; a claim is being honoured, was honoured, or is stranded.

`Published_proofs` proves, for any callers, events, threshold, revisions and calls:

* `StreakInvariant`, `OneEventNeverTrips` (`StreakCountsEvents`). The event counted last has
  failed; the streak is the number of events that failed and of the recounts among them,
  and while only one has failed there is no recount.
* `PublishedInvariant`, `OffStaysOff` (`SwitchHolds`), `HistoryStays` (`VersionsKept`). The writes are
  unconditional, so all three parts hold while no write went over another and no
  deleted workflow was published again. `InTurn`: a draft or a call under way was read from a
  revision that was live; `StaysOff`: behind a switch-off every draft is older than
  it, which the stale guard of `api_publish` sees, and nobody is about to put the
  workflow on; `Recorded`: a version that waits for its record is the one that was live.
  `PublishedAssumption`: threshold, kept versions and revisions are positive numbers.

`Credentials_proofs` proves of `Credentials`, for any refreshers, versions, tokens and revocations:

* `CredInvariant`, `RevokeIsFinal` (`RevokedStaysEmpty`). `VersionGrows` is what it stands on:
  until a consent or a delete breaks the line of versions, nobody has read a version
  that is yet to come, and behind a revoke everybody's reading is older than the
  record, so a conditional put of theirs cannot pass.
* `TokenInvariant`, `RefreshKeepsToken` (`StoredTokenWorks`). With a provider that replaces
  refresh tokens (`Rotated`): whoever holds the stored token read the stored version, unless a consent put
  that token back; a
  token that waits to be stored is accepted, is not the stored one and is nobody
  else's, so that the exchange of another cannot spend it; and behind a spent
  token that is still stored comes a write that will pass. With one that keeps
  them (`Kept`), whatever was issued is accepted or was withdrawn.

TLC checks every inductive invariant before the provers see it: `LedgerInv` in
`step_ledger`, `WorkerInv` in `worker`, `PollInv` in `poll`, `GrantInv` in `control`, and
`HookInv`, `SchedInv`, `DropInv`, `DigestInv`, `CredInv`, `TokenInv`, `PubInv` (which contains
`StreakInv`), `NoticeInv` and `TellInv` as parts of `ControlTypeOK`.

What is only model-checked:

* what the hypotheses above leave out: `NothingParked` beside cancels (`worker_operator`)
  and of a delay inside a branch (`worker`), and `HistoryTells` behind a dead letter that no fault caused
  (`worker`);
* `DaysMatch` and `FiresInOrder` of `CronTimes`. The first has no parameters and TLC looks at every
  month there is; the second selects from sequences and counts, which is
  induction over data;
* `Drains` and `EveryItemRuns`: liveness is out of the prover's reach;
* the violation runs.

## 5. Not modelled

* **Size.** The implementation is some 60 000 lines; most of it is connectors,
  runners of outside services, HTTP routing, the console's views, validation and
  the command line client: one request, one answer, no state of their own. The
  map covers the stateful core, a few per cent of the lines.
* **Outside services.** A connector call is a step that succeeds or fails. Whether
  the provider's own side is idempotent is not Dapier's.
* **Data.** Predicates, templates, outputs, redaction, signatures and parsing are
  functions of one event. `union` and the `digest` logic step (`engine/actions/digests.py`)
  are left out of `Worker`; `digest_add` and `digest_flush` are in `Digest`.
* **Worker.** Direct schedule and poll invocations, RPC, refused senders, replay
  envelopes. A schedule fire mints a fresh event id per invocation, so a Lambda
  retry of it runs finished steps again; that is outside the queue's protocol.
* **Polls.** Authentication, parsing, items without an id, an item whose workflow
  parks (the fire treats the suspension as a failure and stops at that item).
* **Lifecycle.** Rename, the git commit, subscription reconcile; the look for
  parked runs before a delete (the worker drops such a run at its resume).
* **Webhooks.** Hooks without dedupe, the challenge handshake, a delay inside an
  inline run.
* **Tokens.** `auth/api_tokens.py` is one row and one write; Slack and the token
  providers differ from the modelled refresh only in what they send.

## 6. Where the code promises less than it says

Found while modelling, and stated as an exception in the property named:

* `PassedIsPublished`: a resolver that breaks between `put_file` and the publish
  (`triggers/intake/dropbox_resolver.py` 193-194) leaves a change that its rerun
  takes for known, although lines 14-16 say a crash re-processes the delta. A
  deleted path's row is never removed (line 10 says it is), and a second
  deletion of a path has the id of the first.
* `StoredFires`: `record_fire` (`triggers/schedule_triggers.py` 227-232) puts back the row
  it read; over a delete that ran meanwhile it re-creates the schedule without
  its rule, which lines 219-221 exclude.
* `FailedIsTold`: `_claim_notice` (`engine/notify.py` 124) reads `event["id"]`, and a
  continuation's envelope has no `id` at its top level: all parked runs of a
  workflow share one claim. The notice of a pause gets one attempt.
* `NothingDropped`: an add whose count was overtaken drops more than the cap asks
  for (`engine/actions/digest.py` 151-157); a flush that dies behind its deletes takes
  the batch with it.
* `EffectOnce`: a step may take effect once more for each connector call whose close-out was
  never written (`unrecorded`): the call returns, the invocation dies or `_mark_completed`
  fails, the lease runs out, and whoever comes next runs the step again. The docstring of
  the inline run (`api/router.py` 483) says "Exactly-once"; what the code gives is at
  least once, with one repetition per break between the call and its record.
* `AcceptedIsServed`: the steps of a branch that the inline budget cuts short are run by nobody.
  The branch is closed as completed and the queue's run passes it, although
  `api/router.py` 486-492 leaves "the un-run tail" to the worker. The property speaks of the
  workflow's own chain.
* `StreakCountsEvents`: `record_failure` (`triggers/failure_counts.py` 89-90) remembers the last
  event only. Where a fails, b fails and a is delivered again and fails, the streak reads 3 for
  two events (`recounted`), although lines 14-15 say that "a redelivered record of the same
  failed event must not count twice" and lines 72-74 that it reports the current count
  "without counting again". `src/tests/test_auto_pause.py` 189 tests the redelivery of the event
  that counted last. The property holds the rest: nothing else is counted, and one event
  alone never makes a streak of two.
* `StoredTokenWorks`: a consent that brings no refresh token puts back the one that was read
  before the exchange (`connections/oauth_flow.py` 146, 196-198), without a condition. A refresh
  that rotates the token in between leaves the consent to store a spent one (`reused`).
* `FiresInOrder`: in the days around a change of the offset it leaves out expressions with a slot
  in the hour the zone skips. `fires` (`triggers/schedule_times.py` 182-197) yields such a slot at
  the moment behind the gap, after which a later slot may name an earlier one, although its
  docstring (183) says "in order".
* `HistoryTells`: a run that died between two steps on its last delivery reads
  completed (`api/runs.py` 221), and so does one whose workflow was turned off between
  two deliveries, with the steps it had walked.
* `InOrder` needs `DistinctIds`. A step without an `id` is named by its position
  (`_step_id`, `engine/logic_pkg/core.py` 117-120), and `resume_chain`
  (`engine/logic_pkg/chains.py` 57-110) walks a remainder with positions that start
  over. So behind a delay a step without an `id` takes the name of an earlier one of
  its chain, finds that record finished and is walked past.
* `SwitchHolds`, `VersionsKept`, `RevokedStaysEmpty`: unconditional writes that overlap
  (`clashed`, `rewound`) and revisions that start over behind a delete (`reborn`). So a lost
  update between two overlapping publishes is not caught, and neither is a refresh that read before a delete
  and stores behind it (`put_credential_if_version`, `connections/credentials.py` 54-82, passes
  where the record is absent).

## 7. Plan

All modules of the plan are written, and every safety property of a passing run but the two
of `CronTimes` is a theorem, those of `Worker`'s end of an event under the hypotheses that
section 4 names. What would come next: `NothingParked` with cancels, which needs the duplicates of a pause told apart; and in
the model, an event source that fires the poll's items into `Worker`, so that a poll whose item
parks can be followed to its end.

## 8. Running

    tlc -workers 2 -config MCWorker.cfg MCWorker
    tlc -workers 2 -config MCControl.cfg MCControl
    tlapm StepLedger_proofs.tla

and the same for the other instances in `PROJECT.json` and the other `_proofs` modules.
