# A verification project for GHOST-Chimera

GHOST-Chimera is a local agent runtime: a console and a gateway, an agent that plans and
calls tools, a background "stealth" loop that proposes and asks, connectors that act on
the user's accounts, and a trust layer that is meant to keep all of this under the user's
control. What carries that promise is small and stateful: an approval ledger, a queue that
mirrors it, durable runs with checkpoints, and automations that park writes until
they are approved. Around it work the engine that keeps the tokens of the user's accounts,
the daemon that runs schedules, the enricher that spends money on cloud calls, and the loop
that acts until a human takes over. These are modelled and model-checked, and almost every safety
property that is checked on a small instance is also proved for every value of the constants. The
rest of the program is inventoried below with what would be worth stating about it.

Paths are relative to the repository; `connectors/x.py` stands for
`ghostchimera/connectors/x.py`.

## Inventory

### What is modelled

| Component | State | Operations | Talks to |
|---|---|---|---|
| Action approval ledger, `connectors/action_approvals.py` | SQLite table `action_approvals`; one connection and lock per store object | `request`, `decide`, `consume`, `pending`, `describe`, `sweep` | opened per HTTP request by the token engine, once per process by the stealth service |
| Stealth approval queue, `stealth/approvals.py` | a dictionary of asks in memory | `request`, `approve`, `deny`, `sync`, `sweep`, `attach_authority` | mirrors each ask in the ledger; read by the loop and the console's Trust list |
| Trust runtime, `trust_runtime.py` over `state_io.py` | `run_index.json`, `approvals.json`, one journal per run; a lock file per store | `create_run`, `record_step`, `create_approval`, `resolve_approval`, `resume_run`, integrity check | the daemon, the agent and the console; may confirm decisions with the ledger |
| Automations, `connectors/automations.py` | `automations.json` and its copy in the engine, `automations_runs.jsonl`, the poll thread | `create`, `set_enabled`, `delete`, `fire`, `execute_approved`, `tick` | IMAP through `integrations/mail_basic.py`; the token engine's proxy, which consumes approvals |
| Token engine, `connectors/auth_engine.py` | encrypted tokens in SQLite, one file per pending login; in memory a lock per connection and the nonces used, both per engine object | `authorize_url`, `handle_callback`, `start_device_login`, `poll_device_login`, `import_gh_cli`, `get_valid_token`, `revoke` | the providers' token endpoints; made anew by each console request and each run of an automation |
| Cloud enrichment, `stealth/cloud_worker.py` | result cache, calls in flight with their callbacks, calls of the last minute, pending count; a thread pool | `request`, the worker's call, `wait_idle`, `close` | called by the loop; calls a model |
| Cron scheduler and daemon, `chimera_pilot/cron_scheduler.py`, `always_on/daemon.py`, `service_registry.py` | `cron_jobs.json` and a copy in each scheduler object; loop thread, gateway, worker pool, PID file (not modelled) | `add_job`, `remove_job`, `enable_job`, `disable_job`, `tick`, `start`, `stop`, webhooks | the console's own scheduler object writes the same file |
| Stealth loop, `stealth/loop.py`, `runtime.py`, `store.py`, `agent_prompt.py`, `connectors/stealth_service.py` | interventions in memory, their jobs, the journal's rows | an event or an agent's output becomes an intervention; preparation, injection, drafts and their approval, outcomes, restore | hosts, operators, delivery through the connectors |
| Stealth takeover, `stealth/takeover.py` | the active takeover, the policy's `enabled` before it | `start`, `release`, `status`, the executors' guard | the loop's policy, which `/ghost pause` and `resume` set too |

How they meet: an automation that writes to a provider asks the ledger; the operator
decides on the ledger's record (console) or on the queue's item (loop), the run's
checkpoint may be linked to the same record, and only the proxy's `consume` lets
the write through, with a token that the engine refreshes first. The daemon hosts the scheduler and
the gateway; the loop judges events, enriches some of them in the cloud, and leaves the desktop to
the human during a takeover.

### Hard behaviours

* *Interleaving.* The gateway serves each request in a thread, and each request opens its
  own ledger object and its own token engine: the object's lock excludes nobody else. SELECT and
  UPDATE are separate statements. The poll thread and the cron loop work from snapshots while
  consoles edit what they run. Two operators report on one intervention.
* *Crash and restart.* A trust-runtime mutator writes up to three files in a row; an append
  may stop half way; the queue is memory only; a mail check remembers at its end; nonces are
  forgotten, jobs are not restored.
* *Two copies of one fact.* Item and record, index and journal, checkpoint and ledger,
  message number and message, schedules in two objects and a file, row and provider, the policy
  and what a takeover remembers of it.
* *Time.* Expiry is lazy: a record past its deadline stays PENDING, and a takeover goes on, until
  somebody looks. Budgets and caches slide.
* *Failure in the middle.* Mirrors that fail silently, approvals spent on calls that fail,
  provider answers that are lost after the provider has acted, a start of which one service fails.

The list with lines, `hazards` in PROJECT.json, names the property that watches each, or
says why none does.

### What would make each component correct

* Ledger: an approval authorises one action once; a verdict is final; expiry touches
  undecided records only. As an abstract specification: **ActionGrant**.
* Queue: local state never ahead of the ledger; after a restart nothing that can
  be decided is invisible; the bound holds; asks close.
* Trust runtime: the journal verifies, retried steps are recorded once, runs resume at
  safe boundaries only and once per boundary, checkpoints agree with the ledger.
* Automations: behind the write gate no call without an approval and one call per grant; one firing per due time
  and per message.
* Token engine: a refresh token is not refused through the engine's own doing; the last login,
  import or revocation stands; a callback that arrives again is not honoured again.
* Enricher: the pending count is honest, one call per key at a time, the budget holds in every
  minute, who waits is released.
* Scheduler and daemon: the file holds what was saved last, a due time runs once and does run, a
  stop leaves nothing behind.
* Loop and takeover: an outcome counts once, what was delivered is closed, and after a takeover the
  loop is as it was found.

### The rest of the system (not modelled yet, or not at all)

| Component | State | Behaviour that is hard | Properties worth stating |
|---|---|---|---|
| Autonomy queue, `chimera_pilot/autonomy_queue.py` | whole job list in one file, copied into each instance | two instances, crash while running | no job lost, none runs twice, none runs for ever |
| Console runs, `control_plane/run_jobs.py` | run table and semaphore | cancel against completion | terminal is final |
| Proposals and governance, `stealth/graduation.py`, `governance.py` | bounded proposals, maturity per workflow | eviction under pressure, gates per tier | a proposal is handed off only at a sufficient level |
| Event bus, attention, scoring, budgets of the loop, `stealth/event_bus.py`, ... | seen ids, log, sliding windows | re-entrant delivery, bounded memory of ids | an event is delivered at most once while its id is remembered |
| Credential pool, remote control, `chimera_pilot/credential_pool.py`, `integrations/remote_control.py` | entries by provider, pending remote approvals | read, network call, write back | a rotation is not undone |
| Pilot execution, `chimera_pilot/task_dag.py`, `executor*.py`, `subagent.py` | DAG, cancellation token, depth | repair of a failed node, cancellation of a group | what is done is not redone; depth bounded |
| Admission, `capability_admission.py` | status by capability in one unlocked file | lost update | a revoked capability does not return |
| SaaS worker queue and store, `saas/` | leases in memory | lease runs out under a slow worker | one live lease per run |
| Model routing, `model_layer/` | token bucket, daily quotas, spend | check, then spend | a cap is not passed |

Left out for good, with the reason: the HTTP surface and front ends (routing,
rendering, prompts), the agent's model calls and prompt assembly, skills and memory
lookups, evaluation, demos, sandboxing, observability and MCP adapters are data transformation and I/O;
audit and safety policy record under one lock or classify text.

## Modules

| Module | Content |
|---|---|
| `ActionGrant` | what an approval promises: one verdict or lapse, spent once if granted, the end is final |
| `ActionApprovals` | the ledger; implements `ActionGrant` when its callers share a store object |
| `ActionApprovalsProofs` | its theorems |
| `ApprovalQueue` | queue, ledger and the two surfaces that decide |
| `ApprovalQueueProofs` | its theorems |
| `TrustRuntime` | durable runs, checkpoints, journal, crashes |
| `TrustRuntimeProofs` | its theorems |
| `Automations` | triggers, parked writes, mail checks |
| `AutomationsProofs` | its theorems |
| `TokenEngine` | one connection: logins, refreshes, revocation, restarts, several engines |
| `TokenEngineProofs` | its theorems |
| `CloudEnricher` | cache, calls in flight, budget, thread pool, close |
| `CloudEnricherProofs` | its theorems |
| `CronDaemon` | daemon, scheduler loop, the console's scheduler object, one file, webhooks |
| `CronDaemonProofs` | its theorems |
| `StealthLoop` | interventions from event or agent output to outcome, jobs, drafts, journal; takeovers |
| `StealthLoopProofs` | its theorems |
| `MC...` | instances for TLC: who shares which store or engine, symmetry |

Operators introduced by a comment `mutant:` are wrong on purpose and used by nothing; each
is a plausible bug in the definition that follows it, which the property named in
PROJECT.json detects when it takes that definition's place.

### ActionApprovals

`ledger` is the table. A caller's `call` holds what a Python frame holds between two
statements: the clock read at the top of `decide` and `consume` (`at`), the branch taken
after the SELECT (`pc`). `DecideCall`, `DecideRead`, then `DecideWrite` or `DecideLate`
are the call, the SELECT and the two UPDATEs; `ConsumeCall`, `ConsumeRead`, `ConsumeWrite`
likewise. `StoreOf` says through which object a caller goes; a caller between SELECT and
UPDATE holds that object's lock (`LockFree`). `Sweep` is `pending()` and `sweep()`: the
same UPDATE against a clock read earlier. `Abort` ends a call before its UPDATE: a crash, or
SQLite's busy error. `verdicts`, `grants` and `uses` are history. An action is a model value:
the digest is taken to be injective.

### ApprovalQueue

An ask has an `item` and, unless mirroring failed, a `record`. `request()` holds no lock, and `filing` says how
far it has come: `Ask` (room, and the first clock), `Insert` (the item is in the queue), `File` (the ledger's
record, with a clock of its own), `Link` (the item learns its record's id). A decision is a `call`: `Reading` is the ledger's SELECT, `Take`
and `TakeLate` its UPDATEs, of which the one that writes a verdict asks for no state, `Abort` a ledger that raises, `CloseItem` and `Settle`
what the queue then does to its item. The queue's deciders go through one store and exclude each other
(`StoreIsFree`); the console's decide route (`DecideRecord`) opens a store per request and excludes nobody.
`sync()` is a `scan`: the list of linked items, then `Look` and `Copy` for each, then `Sweep`. Listing expires
records lazily (`ListPending`); a restart loses items, calls and filings and imports the pending
records (`Restart`, `Attach`). The minimum of one second that the import gives an item is `Later(1, ...)`: an
imported item may outlive its record. `early` notes a decision on an item that has no record yet, `verdicts` what the
ledger committed: both are history.

### TrustRuntime

A mutator takes the store's lock, reads, and then knows its writes: `Enter` puts them
in `proc[p].todo`, and `Write` does the next one. That is the order of the code's file
writes, so a crash (`Stop`) leaves what a crash leaves. A record's hash is the number of
its append, and its key is what `redact_secret_values` leaves of it (`Stored`): a key that names a secret-like tool
(`Secretive`) is not found again. Checkpoint and resume keys are made of ids and hashes and are taken to be
stored as given. The ledger behind a linked checkpoint has a life of its own: `LedgerMoves` is expiry, use, and a
verdict of another store, which overwrites whatever is there; `FoundPending(k, late)` and `AfterDecide` are the decision
of `resolve_approval` itself, which may be such a stale one (`late`). `said` notes the verdicts a record was given.
`Tear` leaves half a line, and the next record appended is lost with it, which
is what `append_line` and `_read_jsonl` do. `resumes` notes from which last record
each resume that returned had started. Sessions, evaluations, MCP trust and export are
not modelled: they share the files' primitives and no state with runs.

### Automations

`fire` is four steps: the guard under the lock (`Begin`), the action (`Act`), the update
of the automation (`Update`), the record of the run (`Park`). `execute_approved` is
`Execute` (look at the log), `Consume`, `Call`, `Complete`; nothing is held between them. `gate` is
`write_approval_required()`: off unless switched on, so both are initial states and `SetGate` moves it; without it
`Consume` looks at no approval. `Answer` is the ledger's `decide`, whose verdict overwrites what is there, a used
approval as well, and its expiry. `grants` and `calls` count by approval, `bare` notes a call on none, `lifted` that the
gate was off: history.
A mail check holds the engine's lock from `Look` to `Save`, with the firings inside. The
mailbox is external: unread matching messages in order, `first` the number of the oldest;
deleting an older message lowers it. `TextBefore` is Python's order on the numbers as
strings, which is the order the trim uses. Abstracted: filters and mail the user reads, the
throttle between checks (the poller may check at any time), notification, the 200-run
window, failures to save. A write is taken not to be a GET. There is one engine with one poll thread, as in a process whose
first requests do not race (see below).

### TokenEngine

Locks and rows are per connection, so one connection is followed. Token n is what the provider's n-th
answer granted; `live` is the set of refresh tokens it still honours, since the code's only way to learn
of a spent one is `invalid_grant`. A refresh is `GetValidToken` (the row is read under the engine's
lock), `RefreshGranted`, `RefreshRefused` or `RefreshUnsent` (the network), `StoreRefreshed` or `Flag`
(the UPSERT, or the UPDATE of the status); an answer may be lost after the provider has acted. `EngineOf`
says whose lock a caller takes. A browser login is `Callback` (the nonce), `PopPkce` and `UnlinkPkce` (the
file is read, then removed), `CodeGranted`, `StoreLogin`; a device login keeps its file until the provider
has answered. A login may bring no refresh token. The provider of the model withdraws a token only when it is spent, and
never of its own accord, so `RefusalsExplained` is about the refusals that are the engine's own doing. Encryption,
scopes and the other rows are left out.

### CloudEnricher

Every block under the enricher's lock is one action; calls, callbacks and `executor.submit` are actions of
their own, because they run without it. `mode` is chosen at the start. The cache is a sequence, least
recently used first, as the `OrderedDict` is: `Without` takes an entry out. `Forgotten` is how many calls the
loop of `_take_budget` drops, from the oldest to the first that is younger than a minute, and `Recent` what it
leaves. A call that raises drops the callbacks of everybody who had joined it (`Return`): their requests are
"dropped" and nobody is told. `close()` is two actions, the flag and the executor's shutdown, with `wait` either way.

### CronDaemon

`jobs` is each scheduler object's dictionary, `file` the one `cron_jobs.json`. Console requests go to an object of the
console's own, or, where the console was given the daemon's scheduler, to that one (`Hosted`). A save is a snapshot
(`StartSave`) and a replacement (`EndSave`), which may fail without anybody being told: memory then has what the file
has not. The lock covers both halves in `remove_job`, `enable_job`, `disable_job`, not in `add_job` or after a run, and
the temporary name is shared, so saves that overlap can leave either image, the earlier file, or one that does not
parse. `writer` is the object whose memory was saved last, or nobody after a save of it that failed or
overlapped another. The loop is `Check`, `StartRun`, `EndRun`, `EndTick`, `Wake`. `StartDaemon` starts all
services, of which the gateway may fail to bind; `StopDaemon`, `EndJoin`, `CloseThePool`, `EndStop` are `stop()`.
`EndJoin` gives up on a loop that is running a job, as `join(timeout)` does. A second signal calls `stop()`
on top of the first: the nested call passes over the services, which the first still holds, and closes the pool, so `CloseThePool` may
come while the loop is joined. Cron expressions and times are abstracted to "due" (`FallDue`), the PID file is left out.

### StealthLoop

An intervention's `item` is its state in memory, `row` the journal's. `Judge` and `Create` are an event
under the loop's lock, `Draft` and `AgentActs` an agent's output, `Take`, `Finish`, `Requeue` the background
job, `Observe`, `Consume`, `Close`, `Record`, `Count` the steps of `observe_outcome`, which no lock joins, and
`Approve`, `Send`, `JournalApproval` those of `approve_draft`; each write to the journal may fail. The
takeover has its hook into the loop (`Start(hooked)`), runs over its time (`Overrun`), and ends by `Release` or
when somebody looks (`Status`). Scoring, attention, budgets, workflow memory, the bus and the text of prompts are
abstracted: they choose which event becomes an intervention, and the model lets any. The hooks of a takeover into
the loop may fail at its start and at its end, as their exceptions are suppressed. `Draft` takes an intervention through
QUEUED, PREPARING and READY in one step, since the caller's thread does so with nothing to stop it in between that others act
on; the journal's write when cloud text is attached (`loop.py:545`) and the synchronous fallback (`hosts.py:225`) are left
out.

## Runs

| Run | Question | Result |
|---|---|---|
| `ledger_racing_stores` | what survives when every request has its own store? | uses are covered by grants; a verdict nobody contradicted is not taken back |
| `ledger_one_store` | what does one store give? | single use, implements `ActionGrant` |
| `ledger_replay` | is an approval single use across stores? | no: the finding below |
| `queue_polled` | do queue and ledger agree, over restarts and failed mirrors? | items show committed verdicts only, nothing pending is invisible, asks close; but for decisions made before the record was linked |
| `runs_concurrent` | do runs work when nothing fails? | index accurate, denied runs stay down, one resume per boundary, verdicts final |
| `runs_crashes` | what does no crash break? | chain, keys that are stored as given, no resume past an open ask, agreement with a ledger not told both verdicts |
| `automations_writes` | what do two consoles and the poller do to one parked write? | behind the gate at most one call per grant, none without; due times fire once |
| `automations_mail` | when does mail fire twice? | only for an expunged older message or a check cut short, as long as mail fits the memory |
| `tokens_racing` | when is a refresh refused, does a connection change hands, is a code presented twice? | only for a lost answer or two engines with one token; only by a refresh under way; only by two engines that read one file |
| `cloud_busy` | is the bookkeeping right while calls fail, time goes on and the enricher closes? | count honest, one call per key, budget kept in every window, waiters let go, by an answer or by a failed call that tells them nothing |
| `cron_daemon` | what do two scheduler objects, failing starts, stops and restarts do? | the file is the last writer's unless its save failed or overlapped another, one run per due time, stopped is quiet, due runs |
| `stealth_taken` | do outcomes, deliveries and takeovers come out right? | counted once, closed once delivered, restored as found, but for the named exceptions |

### Finding

`decide()` writes its verdict without a state clause (`connectors/action_approvals.py:152`). Store A approves,
the approval is consumed, store B, which had read PENDING, commits its own approval: the spent record is
APPROVED and is consumed again. The documentation says an approval authorises its action once
(`docs/TRUST_LAYER.md:16`). `ledger_replay` shows it.

### What the properties leave room for

These happen in the models, as they can in the code; each property is as strong as it is true,
and the exception is named in it.

* A record decided in the console and then in the queue before a `sync`: the item becomes EXPIRED for good
  though the record holds a verdict (`stealth/approvals.py:236`; the docstring at line 132 says otherwise).
* An ask is in the queue before it has a record (`stealth/approvals.py:317` and 318). An approval in between settles the item
  locally, and the record filed afterwards stays PENDING with no open item. `NeverAhead` and `PendingIsVisible` except
  it (`early`), and nothing else.
* A decision of another store that read PENDING early enough overwrites any later state of the record
  (`connectors/action_approvals.py:152`, the finding). So an item, or a checkpoint confirmed with the ledger, may say the one verdict and
  the record the other, if the record was given both; and a used approval may come back and be used again, which
  `CallsAreApproved` counts as a second grant.
* "Idempotency keys prevent duplicate step records" (`docs/TRUST_RUNTIME.md:45`), but a step's key is redacted when it
  is stored (`trust_runtime.py:402`) and looked up as given (1215): a key that names a secret-like tool, as
  `record_tool_call` makes them (437), is recorded again at every retry. `KeysUnique` speaks of keys stored as given.
* "No approval, no execution" (`docs/AUTOMATIONS.md:21-25`; also `connectors/automations.py:8`), but the gate is off by
  default (`connectors/auth_engine.py:405`), and then `execute_approved` calls the provider whatever the approval says.
  `CallsAreApproved` lets a call go on no approval only if the gate was off at some time.
* Two first requests make two automation engines, each with a poll thread (`connectors/console_routes.py:1243` looks up
  and stores without a lock). `CronFiresOnce` is about one.
* A half line left by a crash swallows the record of a later resume, and the boundary is resumed again
  (`state_io.py:177`). `ResumesOnce` holds wherever appends are whole, crashes or not, and is proved for that.
* After a crash between approvals file and journal a denied run has the status `pending_approval` and no pending
  checkpoint, and `resume_run` accepts it (`trust_runtime.py:541`). `DeniedStaysDown` and `IndexAccurate` hold where mutators run to their
  end, and are proved for that.
* The poller "fires once per message UID, and remembers seen UIDs so nothing double-fires" (`docs/AUTOMATIONS.md:11`), but
  what `SEARCH` returns are sequence numbers (`integrations/mail_basic.py:111`): they shift when older mail is
  deleted, and the unread message fires again. `RefiresAreExplained` names the shift, and says that
  nothing but it and a check cut short makes a message fire again.
* A revocation or a new login during a refresh: the refreshed row is inserted anew, or written over
  the new one (`connectors/auth_engine.py:1131`). `LastWordStands` excepts a refresh under way.
* Two engines refresh with one token, and the later is refused and demotes the connection that
  the earlier renewed (`auth_engine.py:1088`). `RefusalsExplained` names it.
* `close(wait=False)` of the enricher never takes cancelled calls off the count (`stealth/cloud_worker.py:195`):
  after it `PendingCounts` promises a bound from one side only.
* A schedule added in the console is erased by the daemon object's next save, which holds what it loaded at its
  start (`chimera_pilot/cron_scheduler.py:355`). `FileIsTheWriters` says whose schedules the file holds.
* A save that fails is swallowed (`chimera_pilot/cron_scheduler.py:364`): the request succeeds, the file keeps the old
  schedules. `FileIsTheWriters` is silent from then to the next save of that object that succeeds.
* A cloud call that raises drops its callbacks (`stealth/cloud_worker.py:208`). `WaitersReleased` says that every request
  comes to an end, a dropped one included, not that its requester hears of it.
* A `stop()` on top of another returns while services are being stopped (`always_on/daemon.py:231`). `StoppedIsQuiet` is about
  the first.
* A daemon whose gateway failed to bind has a running loop that `stop()` does not stop
  (`always_on/daemon.py:229`), and a loop in the middle of a job outlives the join. `leftover` records both.
* Two outcomes reported at one moment both count (`stealth/loop.py:1002`). `OutcomesExplained` says that
  nothing else does.
* `takeover.start` over an overdue takeover takes the paused loop for its prior state (`stealth/takeover.py:61`), and
  the loop stays paused. `RestoredAsFound` excepts it, and a takeover one of whose hooks failed (`takeover.py:84`).
* A retried preparation finds the intervention in PREPARING and raises each time (`stealth/runtime.py:162`), and an executor
  that has looked at the takeover goes on while the human drives (`stealth/computer_live.py:46`); neither harms a
  property stated here.
* The policy's `enabled` stops events from becoming interventions, not an agent's output from being acted on
  (`stealth/agent_prompt.py:149`): `AgentActs` has no such guard.

### Bounds, and why they are enough

* Ledger, racing: one record, two deciders, one consumer, two stores, so that some
  callers share a lock and some do not; two actions, one of them a read, so that the refusal of
  GET and the mismatch of digests occur; `MaxTime` 2 with a lifetime of 1 gives a clock
  before, at and after the deadline. Records do not influence each other except in a sweep, for
  which `ledger_one_store` has two.
* Queue: one ask, since asks share nothing but the room and the store's lock; two deciders, so that queue and queue, queue and
  console, console and console race; one sync; lifetime 2 and `MaxTime` 4, so that the ask can be filed late, restarted over,
  imported with a rest of its time, and lapse. `ImportMayFail` is FALSE: with an unreadable ledger visibility and the
  limit are lost, by the code's choice to continue.
* Trust runtime: two processes; two checkpoints without crashes; one, linked to a ledger record, with crashes, torn
  appends, and two keys of which one is redacted. `MaxAppends` 7 and 4 leave room for create, two asks, two decisions and two
  resumes, or for create, ask, decision and resume, with fewer of these and a retried step; a mutator enters only if its appends
  may begin. `ResumesOnce` fails when an append may tear, `IndexAccurate` and `DeniedStaysDown` when mutators may
  die (see above), so they belong to the run without crashes.
* Automations, writes: two consoles and the poller, two run ids (of which a completion takes one), one due time, one
  restart, and `MaxGrants` 2 in all, so that an approval can be revived and used again.
* Automations, mail: three messages and one older one, one restart. `FetchMax` 2 and `MaxSeen` 3 can both be exceeded, so
  `WithinMemory` is false in some states: when more is unread than a fetch returns, a message nobody looked at may be
  deleted and one that has fired takes its number; when more numbers were in use than are remembered, the trim in text order
  drops the newest. Then mail fires again for reasons `RefiresAreExplained` does not count. With two messages or fewer come
  it speaks, over expunged mail, a cut check and up to four firings of a message.
* Token engine: two threads on one engine and one on another, so that a lock is shared and is not; one login of either
  kind; `MaxTokens` 3 is a login, its refresh, and another login, import or refresh beside it; one restart.
* Enricher: three requests for two keys on two threads: one joins, one is accepted beside, one finds the bound
  (`MaxPending` 2), the budget (2 per `Minute` of 2 ticks) or the cache (one entry, one tick) exhausted; `MaxTime` 2
  lets the budget's window and the cache's entry pass once. Both modes are initial states.
* Daemon: one schedule, added, enabled, disabled and removed by a console thread with an object of its own and by one
  on the daemon's, so that a schedule changes or is gone while it waits to be run or runs; two due times, one webhook,
  two restarts of either process, one loop thread. Saves that fail or overlap, a join that gives up, a nested stop and a
  start that fails all occur. With two loop threads the instance is too large for TLC in the time a run may take, so a second
  loop beside one that outlived its join is covered by the proofs only, and by them as an exception (`leftover`). With one schedule
  `DueRuns` says that a due run happens over stops, restarts and changes, not that it does among other schedules.
* Loop: one intervention, since interventions share no state but the takeover, the loop's lock and the pool;
  two operators; two attempts of the job; two takeovers, so that the second may replace an overdue one; one
  command of pause or resume; one restart.

Deadlock is checked by the ledger's and the queue's runs. The other instances stop when their bounded appends,
arrivals, due times, run ids, tokens, requests, restarts or interventions are used up.
Symmetry is used where no constant or property tells values apart and no liveness is checked: the processes of
`TrustRuntime`, callers and run ids of `Automations`, the two threads that share an engine in `TokenEngine`, the
operators of `StealthLoop`.

### Fairness

Three runs check liveness. `FairSpec` of `ApprovalQueue` assumes that the clock goes on and
that the operator keeps looking: the console lists the pending approvals when its page is
loaded and after each decision (`renderPendingApprovals` in `app.js`, the route
`auth_approval_pending`), and this listing is what expires records. No background job
does, so without a visitor an overdue ask stays PENDING for ever: the assumption is about
the environment and `EveryAskCloses` says no more than that a visitor suffices. No fairness
is assumed of decisions, of `sync` or of the import.

`FairSpec` of `CloudEnricher` assumes weak fairness of what a thread that has begun goes on to do: a caller's
submission and inline call, the pool's threads taking work, calling, telling and settling. Threads are
scheduled by the interpreter, and a cloud call ends because its client has a timeout. Nothing is assumed of
requests, of `close`, or of the clock. `FairSpec` of `CronDaemon` assumes the same of the threads of the daemon's
process, its loops and the requests on its own scheduler, and that a run ends, which the code itself does not enforce: a schedule's prompt that never returns
blocks the loop, and `DueRuns` says that nothing else does. The wait of the loop has a timeout, hence `Wake`. No
fairness is assumed of the daemon's start and stop.

## Proofs

All theorems are for arbitrary constants under the assumptions next to their declaration. These say that
bounds and limits are natural numbers, positive where the code insists or makes no sense otherwise
(lifetimes, the queue's limit, `MaxPending`, `CacheSize`, the minute, workers and attempts, `FetchMax` and
`MaxSeen`, the number of the first message), and
how sets of names lie: reads are actions, linked checkpoints are checkpoints, a login is by browser or device,
loops are numbered and no console request, the poller is no console request. Where a property
counts, what it counts is assumed finite: the enricher's requests and threads (`PendingCounts`), the operators
of the loop (`TypeOK` bounds an intervention's count by their number), the messages of a mailbox
(`TypeOK` bounds the numbers remembered), the checkpoints (`TypeOK` and `IndexAccurate` count a run's open
asks). Nothing else is assumed finite. What a theorem assumes beyond this it states.

Each of the invariants below was checked by TLC on the module's instances before it was proved. The proofs
share a plan: for each action a lemma says what it does to the part of the state that the invariant
speaks of, and the invariant is shown to survive that effect; the actions that do not touch this part are
handled together, once (`TokensAside`, `LoginsAside`, `ExclusiveFrame`, `CountedFrame` and the like).

`ActionApprovalsProofs`

* `TypeCorrect`. `TypeOK` is not inductive: an UPDATE of a row that does not exist would
  produce a non-row. `TypeInv` adds `RowPresent`, that the row a caller is about to update is
  in the table, since no operation deletes.
* `UsesCovered` and `VerdictIsFinal` follow each row through each action: the lemma `RowSteps` lists
  the transitions of a row, and both invariants are shown to survive each transition. For the
  verdict this needs that a stale `DecideLate` and a stale `ConsumeWrite` carry the state
  clause that `DecideWrite` lacks.
* `OneStoreSingleUse`, `OneStoreDecisionsAgree`, `OneStoreImplementsGrant` assume that all callers go
  through one store object. `LockInv` then says that at most one caller is between
  SELECT and UPDATE and that what it read still holds; so each UPDATE finds the state its
  SELECT saw, rows move as `ActionGrant` allows, and each step maps to a step or a stutter.

`ApprovalQueueProofs`

* `QueueTypeCorrect`, `QueueNeverAhead` and `QueueShowsPending`. None of the last two is inductive. `QueueInv` adds: how far
  a filing has come and what is there by then (`FilingSound`); a record holds a verdict only if it was given it
  (`RecordSound`); an item that shows a verdict was decided early or shows one the ledger was given, a linked one has a
  record, and a closed one was decided early, is overdue or has nothing left to decide (`ItemSound`); what can be decided has an
  item (`Kept`); a decision about to settle an item has its verdict committed, and a late one has nothing to decide
  (`CallSound`); what a scan is about to copy, the record has said (`ScanSound`); a process that has not
  attached its queue has no items and nothing in hand (`Detached`). `Onward` collects what may happen to records meanwhile without harm
  to those; each group of actions has one lemma.

`TrustRuntimeProofs`

* `RunsChainVerifies`, `RunsKeysUnique`, `RunsPendingBlocksResume`, `RunsLedgerAgrees` and
  `RunsResolvedIsFinal`, with crashes and torn appends or without. A mutator writes what it computed when it
  took the lock, so none of them is inductive: `RunsInv` adds that at most one process has writes left
  (`Exclusive`) and that those writes are still right (`WritesFresh`): the approvals file comes first, keeps
  every resolved checkpoint and claims no more than the ledger was told; there is at most one journal
  record, it follows the last one, and its key is new unless redaction rewrote it. `EnteringWrites` says this of every
  mutator's list of writes, `EnterKeeps`, `WriteKeeps` and `StopKeeps` carry it through the steps.
  Stopping anywhere is harmless to these five because dropping writes keeps the rest right.
* `RunsTypeCorrect`, with crashes too. That a journal has no more records than appends began, and that the index counts
  no more steps, needs the order of what a mutator has still to write. `FilesInv` adds it: a whole file
  comes first, each journal record is followed by the touch that counts it, a touch comes last, a checkpoint
  is in the approvals file before its keys are in the journal (`Planned`); runs and checkpoints that are recorded exist
  (`Known`, `KeysKept`); the last record has the greatest hash (`HashesGrow`); and a record that is not counted yet is
  the difference between index and journal at most (`Owed`, `StepsBounded`). One lemma says of each mutator that it enters
  with such a plan (`CreateRunEnters` to `ResolveEnters`), one that what is left after a write is such a plan still.
* `RunsResumesOnce` assumes whole appends (`~TornAppends`), and crashes are allowed. `Behind`: a resume names the last
  record, appends one behind it before it returns, and all the records that earlier resumes started from are
  older. TLC refutes the property where an append may tear.
* `RunsIndexAccurate` assumes that mutators run to their end (`~MayCrash`, `~TornAppends`). `Counted`: the index lacks
  the one record that is appended and not counted, and a run no mutator is writing has its open asks counted.
  TLC refutes the property where they may die.
* `RunsDeniedStaysDown` assumes the same, and `CallersEndNothing`: no status that callers of `record_step` pass is
  one a resume accepts. That is so of every caller in the repository (they record `completed`, `failed`, `blocked`, `ok`
  and `error`), but `record_step` itself takes any string, and TLC refutes the property for a caller that records
  `interrupted`. `Down`: a refused run that rests is at no boundary, in index and journal, and a mutator that will leave
  a run refused is no resume and writes no boundary status.

`AutomationsProofs`

* `AutomationsCallsAreApproved`. `Backed` counts for each approval the calls made on it, the threads about to call on it, and
  one more while it is open: together no more than the times it was granted (`Covered`); and who is about to call on
  none has found the gate off (`Unguarded`). `Consume` turns an open approval into a thread about to call, `Call` a thread into a call, and a
  stale verdict opens the approval again only by one more grant.
* `AutomationsCronFiresOnce`. `CronOwed`: what the poller has in its list, or would take at its next tick, is owed; a
  firing that has begun is not yet counted in the automation (`Polling`), and each restart forgives one.
* `AutomationsTypeCorrect`. The bound on the numbers remembered (`SeenFits`) needs that the trim keeps no
  more than it should: `TrimmedFits` maps what is kept to its rank in text order, and ranks differ.
* `AutomationsRefiresAreExplained`, as long as the mail fits the memory, which the property says itself (`WithinMemory`): a
  fetch returns all the mail there is, and fewer numbers have been in use than are remembered. `MailInv` keeps an account
  per automation and message: its firings, one more if it is still to come in the check under way, and one more if what is
  known does not cover the numbers from the oldest unread message's up to its own, which are those it may yet take, never
  exceed what there are explanations for (`SavedKnows`, `CheckKnows`). `Arrive` and `Expunge` leave it so (`BoxMoves`),
  `ExpungeOld` and a `Restart` in a check add an explanation, `Examine` turns the message to come into one that fired,
  and `Save` moves to the automation what the check knew, all of it (`TrimmedKeepsAll`).

`TokenEngineProofs`

* `EngineTypeCorrect`: `TypeOK` is inductive.
* `EngineRefusalsExplained`. `RefreshInv` follows every refresh token to where it is: callers of one engine
  refresh one at a time (`OnePerEngine`); a token two callers have in hand is shared (`HeldTwice`); an answer not
  stored yet is known to one caller (`Unstored`); and each token in hand, and the row's, is honoured, lost, shared or
  about to be replaced (`HandsAccounted`, `RowAccounted`).
* `EngineLastWordStands`. `WordInv` adds that row, tokens in hand and answers descend from the login they claim
  (`Lineage`) and that a refresh began with what stands, unless one was under way when the last word was said.
* `EngineCodePresentedOnce`. `CallbackInv`: one engine handles a callback once; two callers that carry one
  login are of two engines and noted; a code that is or was presented has no file any more.

`CloudEnricherProofs`

* `EnricherOneCallPerKey`. `Exclusive` treats submitting, queued and called alike: each is in flight and its key is no
  other's. That a returning call fails nobody who is still submitting needs `Waiters`: who is in a key's
  list has asked, and submits that key's call if any.
* `EnricherPendingCounts`. `Counted`: the count is the number of submitters, queued keys and busy threads, by the
  effect of each action on the three cardinalities, or more once closed; at most `MaxPending`.
* `EnricherBudgetKept`. `BudgetInv`: what `_calls` holds is the end of the history of accepted calls and what
  it has dropped is a minute old (`Remembers`), so a budget's worth of calls takes a minute (`Spaced`); the calls of a
  window then lie in an interval of `Budget` positions from its first.
* `EnricherTypeCorrect`, with `CacheKept`: one entry per key, so as many keys as entries.

`CronDaemonProofs`

* `DaemonFileIsTheWriters`. `FileInv`: saves that are under way together know it (`MixedSaves`), a save that is
  alone writes what its scheduler has in memory, or another change of it is still to be saved (`SavesCurrent`), and while
  there is a `writer`, neither failed nor overlapped since, the file is what it has in memory or it is still saving (`Faithful`).
* `DaemonDueOnce` and `DaemonStoppedIsQuiet`. `OneLoop`: with no leftovers there is at most one live loop, the one
  `stop()` will join; then `RunsOwed`: a schedule that waits for this loop, or is due and
  not being run, has been due more often than it ran, even if it was disabled, enabled or removed since.
  `PoolQuiet` says the same of the webhook tasks.
* `DaemonTypeCorrect`.

`StealthLoopProofs`

* `LoopOutcomesExplained` and `LoopDeliveredIsClosed`. `LoopInv`: how far an intervention must have come for a
  thread to be where it is (`Stages`), what the journal holds of one that is closed (`Closed`), that reports which did not
  cross come one at a time (`OneReport`), and that what was begun has somebody to finish it (`Attended`).
* `LoopRestoredAsFound` needs the takeover's part of the state only (`TakeoverInv`).
* `LoopTypeCorrect`: the outcomes counted and the reports under way are together no more than the operators.

`OneStoreDecisionsAgree` states `DecisionsAgree`, which has no run of its own: it follows from the same
invariant as single use.

Only model-checked:

* `EveryAskCloses`, `WaitersReleased` and `DueRuns`: liveness is beyond the prover.
* What `TrustRuntime` promises of index and denials when mutators die: nothing, so nothing is stated.
* The finding, by nature.

## Plan

In order of importance; the first twelve steps are done.

1. `ActionGrant`, `ActionApprovals`: the ledger every write depends on; proofs.
2. `ApprovalQueue`: the second surface; proofs of agreement and visibility.
3. `TrustRuntime`: durable runs under crashes.
4. `Automations`: the longest path from trigger to provider call.
5. `TrustRuntimeProofs`: what no crash can break, for any number of runs, checkpoints and processes.
6. `TokenEngine`: several engines, a provider that forgets what it has spent, restarts.
7. `CloudEnricher`: bookkeeping under a lock, calls outside it; liveness of those who wait.
8. `CronDaemon`: two objects over one file, and the daemon's life cycle.
9. `StealthLoop`: from event to outcome, and takeovers.
10. Proofs for `TokenEngine`, `CloudEnricher`, `CronDaemon` and `StealthLoop`: each safety property that is checked.
11. `AutomationsProofs`: calls are approved, cron fires once, repeated firings have a reason.
12. The rest of `TrustRuntime`, without crashes: what a mutator has still to write makes up the difference between
    index and journal (`IndexAccurate`); a resume's key is recorded behind the record it started from, and hashes grow
    (`ResumesOnce`); the status that a denial writes last stays until somebody writes (`DeniedStaysDown`, for
    callers that record no resumable status).
13. `AutonomyQueue` with console runs: instances with a copy each over one file; a job starts once and ends.
14. `CredentialPool`, `Proposals`, `Admission`: small machines, each with one or two invariants worth having.
