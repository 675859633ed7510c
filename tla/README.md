# A verification project for atum-code-orchestrator

TLA+ models of the agent-job supervisor and its companions, the TLC runs that
check them on small instances, and TLAPS proofs of what matters most for every
value of the constants. All line numbers refer to the repository's files; `S`
is `tools/agent_job_supervisor.py`.

## 1. The system and its parts

One daemon (`S`) owns every provider process (Claude Code, Codex, OpenCode).
Callers reach it with one JSON request per connection on a Unix socket. Its
state is a SQLite database and a directory of logs. The daemon is a single
asyncio thread: between two `await`s nothing else runs.

| Part | State | Operations | What is hard | What must hold |
| --- | --- | --- | --- | --- |
| Job lifecycle (`JobStore`, `_scheduler`, `_run_job`, `serve`) | `jobs` and `deliveries` rows; `tasks`, `processes` in memory; process groups in the system | submit, cancel, inbox acknowledgement, scheduler pass, task, reconcile, reap, shutdown | every `await` of a task is a point where a request, a deadline, the exit of the provider, a shutdown or a crash can come first; the prompt may not be read, a cleanup or a pass may raise | one verdict and one delivery per job, at most one launch, limits held, in-flight rows always owned, verdict only after the process is gone, every job ends but for the waits that section 4 names |
| Route ledger (`create_route_decision`, `route_feedback`, `reconcile_route_session`) | `route_decisions` rows | decide, feedback, reconcile, status, prune | leases expire between steps, feedback is repeated or late, a session is reconciled after its lease is gone, an answer is lost | active reservations within the limit, one end per lease, escalation at most once |
| Provider health (`refresh_provider_health`, `record_provider_rate_limit`, `_effective_provider_limits`, `evaluate_health`) | `provider_health` rows, a snapshot in memory, CodexBar's history file | refresh by a request or the scheduler, rate limit of a job | one row is rewritten by readers and by failures in any order; the scheduler uses an old snapshot; states remember states | cooldowns last as long as announced, no slot meanwhile and slots afterwards, hysteresis |
| Routing policy and quota broker (`agent_routing_policy.py`, `agent_quota_broker.py`) | none; pure functions over intent and health | `decide`, rebalance, escalate, enforce | four corrections, each rewriting what the one before chose | no provider called by itself, a failed parent excluded, an explicit target kept, an automatic route served |
| Read, long poll, event journal (`read`, `read_wait`, `_signal_change`, `_record_event`, `_read_events`) | `change_events`, journal and partial-response files, sequence numbers, summaries | append, truncate, page, register, wait, signal, clean up | changes between a read and the wait, waiters that share an event, liveness that changes with time, budgets, torn writes, also inside a character, two commits with a crash between, restarts | no lost wake-up, sequence numbers grow, paging loses and repeats nothing, drops are announced |
| Job client and delegate (`agent_job_client.py`, `delegate.py`) with the idempotency keys of `JobStore.create` | idempotency key; attempt; cursors | submit with one retry, poll, print, cancel on interrupt | the answer of an accepted submission is lost, by a timeout or by a daemon that ends; the retry may reach a daemon with another configuration; what was printed and what was retained differ | at most one job per submission; a refusal only after a reconfiguration; all that was retained is printed |
| Provider event decoders (`agent_job_events.py`) | `_provider_state`: blocks streamed so far, those consumed by a snapshot, those that overflowed; ordinals and keys of snapshots; remembered tools; a buffer of bytes | feed a line, finish | one text arrives as deltas, as a snapshot that lags or is repeated, and as the result; every memory is bounded | the answer once and in order; beyond a bound nothing twice; a tool starts once |
| CAO bridge (`cao_job_bridge.py`) | the request it is at, failures of the poll, exit code; a session in CAO | POST, poll with retries, output, DELETE | a signal or a timeout while the launch is on its way; a second signal in the cleanup | no session is left that the cleanup could have reached |
| Check server (`agent_job_check_server.py`) with `_reap_check_processes` and `_cleanup_job_runtime` of `S` | threads of checks, `RUN_LOCK`, `ACTIVE_PROCESS`, the process record in the runtime directory | run a check, time out, kill, end on a signal, end with the provider | a check is in a session of its own, so that a signal to the job's group does not reach it; the server or the daemon may die between any two steps | one check at a time; no check outlives its job; the server ends |
| Supervisor installer (`install_agent_job_supervisor.py`) | the service definition (plist), launchd's loaded service | ping, list jobs, bootout, write, bootstrap, kickstart, verify | jobs move while it asks; a daemon started by hand answers, perhaps with a pid that launchd's begins with; every command may fail | listed jobs are spared; what it reports is launchd's daemon under the new definition |
| Client installer (`install_agent_job_clients.py`) | targets, their backups by suffix | preview, check the backup slots, update one target after another, roll back | a failure or a kill between two steps, a backup made by half, a suffix used again, clients that write meanwhile | the user's part is never lost; a failed update is undone |
| Migration gate (`agent_job_migration_gate.py`) | none; reads reports, the service definition and finished rows | evaluate thresholds, write a verdict | none that interleaves | - |
| Review core, CLI, MCP server | none | translate a typed request | none | - |
| Command building, workspace copies, sandbox profiles | files | build, stage, clean | none that interleaves | - |

How they interact: the client, the review core and the routing policy only send
requests; every change of a job ends with `_signal_change`, which wakes
`read_wait`; the scheduler asks for a health snapshot and derives the effective
limits; a task that meets a rate limit records it in the provider's health;
`route_decide` composes policy, health and ledger; the decoders turn what a
task reads from the provider into the events of the journal; the check server
and the bridge run in the provider's process group, get its signals, and leave
a directory or a session that somebody has to clean up; the supervisor
installer ends and starts the daemon that jobs and callers depend on.

## 2. Modules

| Module | What it is |
| --- | --- |
| `JobSupervisor` | the daemon: rows, scheduler, tasks, processes, start, shutdown, crash |
| `JobContract` | the abstract specification: what a caller is promised about one job |
| `JobSupervisorRefines` | the refinement mapping between the two |
| `RoutePolicy` | `decide` and its corrections, as operators |
| `RouteRequest` | one `route_decide` over all intents and health snapshots |
| `RouteLedger` | the `route_decisions` table over `RoutePolicy` |
| `ProviderHealth` | one provider's health row, the scheduler's snapshot, the telemetry |
| `EventJournal` | one job's journal, partial response and summary |
| `Reading` | readers and delegates of one job, over `EventJournal` |
| `EventDecoder` | the Claude decoder of provider events, and the provider as far as it writes them |
| `ServiceInstaller` | the installer of the service, with launchd and the daemon as it meets them |
| `Submission` | callers with their retry, over `ServiceInstaller`: the daemon ends and is replaced under them |
| `ClientInstaller` | targets, backups, and the program that updates them |
| `HelperHost` | the supervisor as the processes around one job meet it |
| `CheckServer`, `CaoBridge` | the two helpers of a job, each over `HelperHost` |
| `JobHelpers` | the composition: one job with its host and its helper |
| `MCJobSupervisor`, `MCRouteRequest`, `MCRouteLedger`, `MCProviderHealth`, `MCReading`, `MCEventDecoder`, `MCSubmission`, `MCClientInstaller`, `MCJobHelpers` | instances for TLC |
| `JobSupervisorProofs` | type correctness, the inductive invariant, the safety invariants, finality and single launch; the concurrency limit and the order of the queue; the refinement |
| `RoutingProofs` | what every route is, and the ledger's inductive invariant and what follows |
| `ProviderHealthProofs` | the health's inductive invariant and what follows |
| `ReadingProofs` | the journal's numbers and budgets, and its readers' wake-ups, pages and output |
| `EventDecoderProofs` | the answer once and in order, nothing twice, tools once |
| `SubmissionProofs` | callers, rows, daemon, launchd and installer |
| `JobHelpersProofs` | the lock, the kills and the records of checks, and the bridge's session |
| `ClientInstallerProofs` | the user's part and the rollback |

Every property of a passing run has a mutant: a plausible bug of the code,
defined next to the operator it replaces ("Mutation: ..."), under which TLC
finds the property violated.

### JobSupervisor

| Variable | Code |
| --- | --- |
| `status`, `kind`, `cancelReq`, `pgid` | the columns `status`, `failure_kind`, `cancel_requested`, and `pid`/`pgid`/`process_start` of `jobs` |
| `late` | "the clock is past the job's current deadline": the queue deadline while queued, the run deadline once running |
| `delivery` | the job's row of `deliveries`, unacknowledged or acknowledged |
| `stage` | the `await` of `_run_job` at which the job's task is suspended |
| `outcome`, `exitZero`, `lost` | locals of `_run_job`: the outcome so far, `returncode == 0`, `capture_failure.done()` |
| `proc` | the process group: the leader runs, only a descendant holding a pipe is left, or nothing |
| `phase` | where `serve()` is; `starts` counts incarnations; `reap` is where each orphan's reaper is |

Each action is the code between two awaits. A `_run_job` task goes
created, building, spawned, feeding, watching, (terminating,) collecting,
cleanup; it leaves that path through aborting ("Cancelled during provider
launch"), erroring (`except Exception`) and unwinding (`except CancelledError`).
`feeding` is `await proc.stdin.drain()` (S:2237), before the loop that looks at
cancel, deadline and capture; `Fed` ends it, for a provider that takes its prompt
from the command line at once. `CleanupFails` leaves the task `leaked`: when
`_cleanup_job_runtime` raises, the line that drops the task (S:2326) is skipped,
and only the end of the daemon frees the slot. `Schedule` is one whole pass of
`_scheduler`: retention, queue deadlines, unsupported providers and claims,
because the pass never awaits. `PassFails` is a pass that raises after its
retention: a log cannot be removed, or a task is counted whose row is pruned
(`Blocked`, S:2347). Retention does not ask for tasks (`Prunable`).
`InterruptInFlight` is the single commit of `_interrupt_in_flight`, used at
start and at shutdown. After SIGTERM the daemon closes its listener (`closing`:
accepted connections are still answered), marks rows and stops the scheduler
(`draining`: tasks still run), cancels the tasks (`stopping`) and exits.

Abstractions: contents of prompts, logs and events are left out; time is the
set of jobs whose deadline has passed; a rejected or repeated submission
changes no row and is a stuttering step; health snapshots are any function to
available, pressured or rate limited; committed rows survive a crash (the
documentation allows a power loss to drop the newest WAL commits; that is not
modelled); SQLite itself does not fail inside a handler that records a verdict;
one daemon owns the state directory (`flock`).

Fairness (`FairSpec`): the event loop resumes every task that can go on, the
scheduler and the reaper loop, `_terminate` sends SIGKILL after ten seconds,
launchd starts the daemon again (`DaemonFairness`, weak fairness of each), and
descendants of a provider that hold a pipe end at some time, without which a
task may wait for ever (section 4). `drain()` returns once the group is gone,
since its pipe is broken then; of a provider that lives nothing is assumed, nor
of callers, crashes and cleanups. That deadlines pass is an assumption of two
properties only (`InTime => ...` in `AcceptedJobsFinish` and `SlotsAreReturned`);
`EndsUnaided` owes nothing to deadlines. The three properties name what the code
cannot end by itself: `[]Unfed` (a live provider that never reads its prompt),
`stage = "leaked"`, and `[]Wedged` (a leaked task whose row is pruned, so that
every pass raises). None of the three is a step the model may take to make a
property hold: they come from `Fed`, `CleanupFails` and `Prunable` as the code has
them, and section 4 says what they mean to a user.

### RoutePolicy and RouteRequest

`Route` is what `route_decide` stores (S:2586-2607): `Decide` (the lanes direct,
`agent_jobs` and `native_subagent`, the default targets, the rule that no
provider answers a caller of its own family), then `Rebalance` (a pressured
default gives way to its fallback), `Escalate` (the parent's provider is
excluded) and `Enforce` (an automatic route to an unavailable provider becomes
its fallback or direct), in the order of the code. `RouteRequest` asks it with
any intent of `Asked` that `normalize_intent` lets through (`ValidIntent`), any
health snapshot of `HealthMet` and any provider of the parent; `reply` holds the
request and its route, so the properties are invariants of `RequestSpec`.
`RequestAssumption` says only what an intent and a snapshot are. Aliases of
models, worker profiles and the wording of reasons are left out.

`AutomaticIsServed` says where an automatic route ends: at a target that is not
cooling down or exhausted; direct just when there is none but the parent's; away
from a serving default only to a lighter one, where unknown health counts as no
load for the fallback and as no reason to leave for the default; and with the
other target as its fallback, whatever that one's health. When both targets are
only cooling down the composed code goes direct; the documents and a test of the
balancing alone say otherwise (section 4). `NeverLeadsBack` exempts explicit
targets from the rule on families, as the code does: an operator may ask for the
caller's own family.

### RouteLedger

| Variable | Code |
| --- | --- |
| `rows`, `kept` | `route_decisions`: `reservation_status`, outcome, lease end, request and route; `kept` are the rows not pruned (what a pruned row held stays in `rows` for the properties) |
| `issued` | ids given so far, in order of creation |
| `now` | `_now()` |
| `answer` | the answer of the last `route_decide` |

`RouteDecide` is one transaction: expiry of lapsed leases, the look-up of a
repeated escalation, counting, admission, insertion. A refused request rolls
back and is a stuttering step. `RouteStatus` also expires leases, because the
code does. Ids are fresh, so pruning and repeating are told apart.

### ProviderHealth

| Variable | Code |
| --- | --- |
| `file` | the last sample of each window in CodexBar's history file; written by CodexBar only |
| `row` | `state` and `cooldown_until` of `provider_health` |
| `snapshot` | `_capacity_health` and its next refresh |
| `answer` | what the last step told a caller or the scheduler |
| `history` | not code: the latest announced end of a cooldown, and whether pressure was seen that was not yet seen to end |

`Pass` is a scheduler pass with `_effective_provider_limits`; `RouteDecide` and
`RouteStatus` refresh the row as requests do; `RateLimited` is a job that fails
on a rate limit. The thresholds are those of the code; the samples of the run
lie between and beyond them. Fairness: the scheduler loops (`Pass`) and the
clock runs (`Tick`).

### EventJournal and Reading

| Variable | Code |
| --- | --- |
| `file` | the journal, one element per write; a torn write has no newline |
| `memory` | `event_sequences`, `event_truncated`, `event_summaries`, `event_decoders` of the job |
| `partial` | the partial response file |
| `row` | `journal_truncated`, `partial_response_truncated`, `semantic_normalization_failed` |
| `stamp` | counts changes of `last_event_at` and `last_output_at` (they are in `read_wait`'s fingerprint) |
| `stalled` | the public status is `possibly_stalled` (S:1775-1784), which time alone brings about |
| `died` | not code: a daemon died between two writes that belong together |
| `answer` | not code: what the provider has said |
| `event` | the job's event in `change_events` |
| `deferred` | which asyncio: before Python 3.12 `wait_for` starts `event.wait()` in a task of its own |
| `reader` | each caller: where it is in `read_wait`, its event cursor, what it got, what `delegate.py` has printed |

A delta first goes to the partial response, then takes a number, then is
written, dropped for the budget, or fails; the action is the whole of
`_record_event`. The writes of one record are one step, except where a daemon can
die between two of them and the difference can be seen: the verdict and
`job_terminal` with the flags that come with it (`DiesEnding`, S:1995 and S:1987,
in `_finish_job` and in the reconciliation of a start), and the partial response
and the journal (`Restart`); `died` remembers it. Reads are atomic since no read
awaits. Cursors are counted in writes instead of bytes: every read leaves them at
the end of a write. A torn write may stop inside a character (`garbled`); once a
later write has ended that line, `json.loads` raises `UnicodeDecodeError`, which
`_read_events` does not catch (S:2721-2723), so a read that comes to it is refused
and its cursor stays (`Undecodable`, `Refused`). `Fingerprint` has the public
status: `Stalls` changes it and signals nobody. Texts are one character each. The
combined and raw logs are left out but for the signals they give; so are tool
events, lines that are whole but damaged, and the commit of a shutdown that marks
rows without a signal (S:2989): connections are dropped then (`Restarts`), except
that Python 3.12 and later wait for open requests first.
Fairness: the event loop resumes a waiter whose event is set.

### EventDecoder

| Variable | Code |
| --- | --- |
| `state` | `_provider_state`: the stream's blocks with kind and text, those consumed by a snapshot, those over the tracked length, whether the stream is still tracked, ordinals, seen keys and previous fingerprint of the remembered messages, remembered tools |
| `emitted`, `started` | the text of the message deltas and the tools of the `tool_started` events so far |
| `message`, `open`, `calls`, `sent`, `pipe` | the provider (external): the message it is in, the blocks whose snapshot is to come, tools called, the record written last, records not yet decoded |
| `said`, `exceeded` | not code: what the answer consists of; a bound of the decoder was exceeded |

A letter carries its place in the answer. The decoder compares letters only;
the places let the properties say "once" and "in order" although two blocks may
have the same text. `ClaudeEvents` is `_claude_events` record by record, with
the bound of the remembered messages, the key of a repeated snapshot, the match
of a snapshot with a streamed block and the suffix that is left to emit. The
provider may leave deltas out, write a snapshot late or twice, write records of
a subagent, call tools with and without a block of their own, and be killed
with half a record. Two things it is assumed not to do, and both matter
(section 4): say the same block twice in a row, and write a snapshot that lags
in the middle of a later block. Left out: usage, progress and thinking events,
redaction, the cutting of bytes into lines; and the normalizers of Codex and
OpenCode, which map one record at a time and remember open tools only.

### ServiceInstaller and Submission

| Variable | Code |
| --- | --- |
| `daemon` | the process that holds the lock: serving, stopping or gone; its identifier, its definition, and whether launchd started it |
| `loaded`, `plist` | launchd's loaded definition and the one on disk, numbered as they were written |
| `jobs` | rows of the store: caller, idempotency key, request hash, status; and, not code, the attempt and the definition under which a row was made |
| `inst` | `install()`: the command it is at, `old_ping`, the jobs found, the process that became ready, the pid that `launchctl print` shows |
| `caller` | `agent_job_client.submit`: attempt, waiting or done, what it was told |
| `calls` | requests that a daemon has got: read and answered, or not |
| `steady` | not code: jobs in flight ever since the installer looked |

The answer to any request may be missing and any launchctl command may fail; the
result of `bootout` is not looked at (`install_agent_job_supervisor.py:267`), and
a failed installation may be started again. `Verified` is the test of line 291: the
pid of the daemon that answered is looked for in the text of `launchctl print`,
so it need only be the beginning of the pid shown (`Begins` on the `Digits` of
pids), and whether that daemon still serves is not asked. A daemon that stops goes on serving
open connections, so a request can be committed and its answer lost. A request
hash contains the configuration, so a retry after a reconfiguration is another
request under the same key. `Die` stands for a crash and for the end of a
shutdown; the tasks of a job are one `Progress` action here, since
`JobSupervisor` has them. Nothing is fair; the properties are safety.

### HelperHost, CheckServer, CaoBridge and JobHelpers

| Variable | Code |
| --- | --- |
| `kind` | a native provider with a check server, or the bridge as the provider |
| `host` | the job's task and daemon: running, `_terminate`, cleaning, removing, finished; or down, cleaning stale directories, reaping |
| `group`, `pending` | living processes of the provider's group, and those with a SIGTERM not yet handled |
| `forgotten` | the orphan list was committed as interrupted and then lost |
| `stage`, `active`, `server`, `watching` | threads of `run_check`, `ACTIVE_PROCESS`, the interpreter, `_watch_parent` |
| `procs` | processes of a check: its leader and others it started |
| `record`, `runtime` | the process record, and the directory it is in |
| `step`, `failures`, `code` | the bridge's request, `poll_failures`, exit code |
| `session`, `turn`, `inFlight` | CAO (external): the session, its terminal, a POST that was given up |
| `escaped`, `lost` | not code: checks and sessions that a SIGKILL, a lost record or a failed DELETE put out of reach |

Each thread of a check goes lock, files, process, `_set_active_process`, record,
polling, kill, answer; every one of these is a point where a signal, the end of
the provider, a SIGKILL of the group or the removal of the directory can come.
`_cleanup_job_runtime` reads the records, kills what they name and removes the
directory, as the task ends and, for stale directories, as a daemon starts. The
bridge is its sequence of requests, each of which may be served, refused or
left unanswered, with `request_stop` raised in any of them.

Fairness (`FairHelperSpec`, for `ServerEnds` only): the threads of the server go
on and its interpreter ends when they have. Nothing is assumed of the processes
of checks, of the provider, the supervisor or CAO: the timeout of a check is
what lets its thread go on. A check whose processes start a session of their own,
and a second check server of the same job, are outside the model: no kill of the
group and no record would reach the first.

### ClientInstaller

| Variable | Code |
| --- | --- |
| `disk`, `backup` | a target and its backups: the version of the user's own part, and whether the managed part is up to date |
| `run` | `apply_changes`: the operation it is at, `existed`, `completed`, the changes of the plan, the backup suffix, the outcome |
| `runs` | runs so far |
| `latest`, `before`, `torn` | not code: the user's last version, what the targets held when the run came to them (edits before that included), targets with a backup made by half |

A file enters `completed` before its operation begins, a link that exists after
its backup is made, as in the code. A backup or a restoring copy can be torn; a
run can be killed at every step; the user or a client edits a file the run has
not come to. How a configuration is parsed and merged is left out: merging
keeps the user's part and brings the managed part up to date.

### Runs and what they show

| Run | Bounds | Shows |
| --- | --- | --- |
| `supervisor_restart` (180,451 states) | 2 jobs, 1 provider, limit 1, health changing at every pass, 2 incarnations, job 1 owned | what a row says is true of process, delivery and task; verdicts are final; one launch; the limit, the order of the queue, and the refinement of `JobContract` |
| `supervisor_progress` (55,956) | 2 jobs of a provider that later releases drop, limit 1, 2 incarnations, `FairSpec` | every accepted job ends, every slot returns; a cancelled job and a job of a dropped provider end without a deadline's help; each with the exceptions that section 4 names |
| `route_requests` (1,152,001) | every intent and health snapshot, parent or none | what the composition of the corrections promises of the route and its fallback |
| `ledger` | 3 decisions, 2 sessions, 2 intents, limit 1, lease 2, retention 0, clock to 2 | the limit is exact, a lease ends once, an escalation happens once |
| `health` | 1 window, 4 loads, windows that reset at once or never, 2 cooldowns, clock to 5 | cooldowns, pressure and slots, and that slots come back |
| `reading` (196,161) | 2 texts of 3 widths, a budget of 4 for both files, 1 delegate, 1 plain reader, 1 chunk of output, pages of one record, any number of restarts | journal, pages, wake-ups and what a delegate prints, also beside lines that cannot be read |
| `decoder` | 2 texts, 1 the beginning of the other, 2 messages of up to 3 blocks, 1 record in the pipe; bounds of 2 blocks, 2 characters, 1 message, 1 tool | the answer once and in order, nothing twice beyond the bounds, tools start once |
| `submission` (2,268,493) | 1 caller, 3 daemon processes, one with a pid that another one's begins with, 2 installations, the second with another configuration | one job per submission, a refusal only of a row that the first attempt made under another configuration, listed jobs spared, installed means launchd's |
| `helpers` | 2 checks, 2 crashes, 2 retries of the poll | one check at a time, what may outlive a job or a bridge, the server ends |
| `clients` | 1 link and 2 files, 2 suffixes, 3 runs, 2 versions of the user's part | the user's part survives, a failed update is undone |
| `provider_survives`, `lost_wakeup` | 1 job and 3 incarnations; as `reading` | places where the documentation says more than the code does (section 4) |

Why they are enough. Two jobs and one slot are enough for a job to wait for
another one's cleanup, for the younger to overtake the older, and for a task left
behind by one to stop the passes that the other waits for; two incarnations for a crash at every stage followed by reconcile and reaping (three
to lose an orphan while reaping). Three decisions are a parent, its escalation
and a competitor; a retention below the lease lets every row be pruned as soon
as it may. In `health` the clock outlasts two cooldowns and a refresh interval.
In `reading` a wide text can be dropped where a narrow one after it fits, the
journal can be too full for the warning or for the terminal event, a daemon can
die with either missing, a line can be torn inside a character and ended later
with a reader before, at and behind it, and a second reader can disturb the first. In `decoder` every bound can be exceeded, a block
can be the beginning of another one, and the second message pushes the first out
of the memory. In `submission` both attempts can meet different daemons, one of
them under another configuration, with a crash between; a daemon started by hand
can answer in the place of launchd's, with the beginning of its pid. In `helpers` a second
check waits for the lock while the first is killed, and the second crash comes
during the cleanup after the first. In `clients` a run can fail, the next can
find its leftovers, and a third can use its suffix. The proofs remove these
bounds for the safety properties they cover.

## 3. Proofs

Every invariant and action property of a passing run is a theorem. What is
only model-checked is liveness, which needs fairness and `ENABLED` and is beyond
the prover: `AcceptedJobsFinish`, `SlotsAreReturned`, `EndsUnaided`,
`SlotsComeBack`, `EndReachesReaders`, `ServerEnds`. The inductive invariants,
and the weaker statements that the runs leave to them (`FailureKindIsTrue`,
`NoSlotWhileCooling`, `LeasesWithinLimit`, `DeniedOnlyWhenFull`,
`JoinRateIsShare`, the type invariants), are theorems without a run of their
own.

The library's induction theorems take an operator as a parameter, which the
provers cannot instantiate. Where a proof needs induction it takes the least
element of a set of counterexamples instead (`LeastElement`, from
`NatLessThanWellFounded` and `WFMin`): `ReadingProofs` shows so that a recursive
function on an interval exists and is unique, which is what the sums of the
budget, the pages and the texts are.

`JobSupervisorProofs`, from the single assumption `ConstantsAssumption` (finitely
many jobs, positive limits, providers for all jobs):

- `TypeCorrect`: type invariant.
- `InvariantHolds`: the inductive invariant `IndInv`, of which the type invariant
  and the safety invariants are conjuncts. None of the safety
  invariants is inductive alone: that a verdict means a stopped process needs to
  know that a task before its launch has no process, that a task which has
  recorded its verdict is in its cleanup, that an interrupted row under a working
  task means that a shutdown is draining. `StageMatchesRow`,
  `ProcessMatchesRow`, `KindMatchesRow` and `TaskMatchesDaemon` say this job by
  job; the proof shows once that a step which leaves a job alone keeps it
  (`Frame`) and once what a verdict written by a task keeps (`ConcludesKeeps`),
  and then goes through the actions.
- `RowsAreOwned`, `VerdictsAreStopped`, `DeliveriesMatch`,
  `CompletedIsCaptured`, `KindsAreTrue`: corollaries.
- `VerdictsAreFinal`, `LaunchesOnce`: action properties from `IndInv`.
- `CapacityNeverExceeded`, `QueueIsFair`: a claimed set has a last member, and
  everything claimed for its provider is it or ahead of it; so a pass fits into
  the free slots, and whoever is ahead of a claimed job is claimed.
- `ContractIsKept`: every step is, for every job, a move of `JobContract`.

`RoutingProofs`, from `PolicyAssumption`, `RequestAssumption` and
`LedgerAssumption` (what the constants of the policy, the requests and the ledger
are):

- `RepliesTyped`, `RoutesLeave`, `RoutesAreServed`: what `route_decide` promises of
  every request, snapshot and parent, not only of those a run enumerates. Each is
  carried through the corrections in their order: `GoodRoute` (a route is a lane
  with known providers, and never falls back to itself) and `Away` (a durable job
  leaves the caller's family, with its fallback too) hold of what `Decide` returns
  and are kept by `Rebalance`, `Escalate` and `Enforce`. That the parent's provider
  is excluded and that an automatic route is served hold only from the correction
  on that brings them about; the later ones are shown not to undo them
  (`BalancedJob`, `EscalatedProvider`, `CorrectedIsServed`).
- `LedgerInvariantHolds`: `LedgerInv`. That active leases stay within the limit
  is a matter of counting; that an escalation happens once is not inductive
  alone: retention may delete rows, and a deleted child would let a repeated
  escalation through. `ChildOutlivesParent` (a child is created after its parent
  and pruned no earlier) and `LeaseIsBounded` (no lease ends later than one
  lease time from now) carry it.
- `LeasesNeverExceedLimit`, `RefusedOnlyWhenFull`, `EscalatesOnlyOnce`,
  `JoinRateHolds` follow, and `LimitHoldsExactly` from the first two: no lease
  beyond the limit, no refusal below it. `LeasesEndOnlyOnce` is the action
  property.

`ProviderHealthProofs`, from `HealthAssumption` (any windows, loads, cooldowns,
intervals and slots):

- `HealthInvariantHolds`: `HealthInv`. `RowInv` says that the row keeps the
  latest announced end while it lies ahead, and that its state remembers
  pressure; `SnapshotInv` that a snapshot shows a cooldown which began while it
  was held, and that one which withholds slots is renewed within an interval
  after the cooldown's end. Neither is provable without the other, since a pass
  reads one and writes both.
- `CooldownIsKept`, `NoSlotsWhileCooling`, `SlotsAreWithheldBriefly`,
  `PressureIsRemembered` follow. They hold for any number of windows, which the
  run does not show.

`ReadingProofs`, from `JournalAssumption` and `ReadingAssumption` (any readers,
budgets, texts, widths and pages; the warning is not longer than `job_terminal`):

- `NumbersGrow` from `JournalInv`: the numbers of the intact records grow along
  the journal, and while the daemon remembers a number it is the last one. After a
  restart it does not; then it is found again by reading the journal, which is why
  the two belong together.
- `DropsAreAnnounced` from `BudgetInv`: what memory knows of a dropped text is in
  the row or in a warning, or else the journal is too full for the warning, hence
  for `job_terminal`, whose failure makes the row say it. The verdict and that
  record are two commits; a daemon that dies between them (`died`) is exempt, and
  section 4 says what is lost then.
- `WakeupsReach` from `WakeInv`: a suspended reader is attached to the event of the
  registry, or the job has ended. A reader has missed no change of its fingerprint
  but one, that the job ran into `possibly_stalled` (`OnlyStalled`). It holds where `wait_for` begins `event.wait()`
  at once (not `deferred`); section 4 has the other case.
- `PagesAreComplete` and `AllIsPrinted` from `ReadersInv`: what a reader got is what
  can be read up to its cursor, in order; the journal only grows, so appending
  between two pages changes nothing behind a cursor, and a read that raises leaves
  its cursor. That the cursor of a delegate always comes to the end is not claimed:
  it does not get past a line that is no UTF-8. What a delegate that is done
  has printed ends with the partial response, unless the journal failed.
- `ReadingTyped`: the type invariant, which says of every cursor and of every
  record handed out that it is in the journal.

`EventDecoderProofs`, from `DecoderAssumption` (any texts, bounds and length of the
pipe; a text that fills the tracked length exactly is not the beginning of
another one):

- `AnswerIsComplete`, `NothingIsRepeated`, `ToolsStartOnce` from one invariant,
  `Inv`. The provider runs ahead of the decoder, which makes a direct invariant
  unmanageable: the state of the decoder lags behind by what is in the pipe. But
  the decoder does not act back on the provider, so a record is as good as decoded
  when it is written. `RunOK` speaks of the run that decoding the pipe will be, and
  of its last configuration; `Feed` takes the first step of that run and leaves
  its end where it was, and every step of the provider adds one step.
- At that end `TrackOK` pairs the streamed entries that no snapshot has consumed,
  one to one, with the blocks of the message that have begun to be streamed and
  wait for their snapshot. An entry holds the beginning of its block, or all that
  is tracked of it. Two equal blocks of one message may be matched the wrong way
  round; then the pairing is exchanged, which is why the invariant says that a
  pairing exists and not which.
- `TextOK` says that the text of the run is spread over what was said so far
  (`Spoken`), and is all of it unless a bound was exceeded. `KeysOK` says that the
  next snapshot is not taken for a repetition and that a repeated one is, which
  the eviction of older messages does not touch; `ToolsOK` that a tool that was
  started and still runs is remembered.

`SubmissionProofs`, from `ServiceAssumption` and `CallerAssumption` (any callers,
configurations, daemon processes and installations):

- `SubmissionInvariant`: `SubmissionInv`. That a caller has one job is a
  statement about rows, but the row may be made by a request whose caller has
  long given up and whose daemon is stopping. `RowInv` gives every row the key of
  its caller and every key one row; `AnswerInv` says of every answer, also of one
  that is still on its way, that it is true of the rows and stays so, since rows
  keep key, caller and hash while only their status moves.
- `OneJobPerSubmission` follows. `RefusalsAreReconfigurations` says of a refused
  caller that it is at its second attempt, and that the row in its way was made by
  its first, under an earlier definition of the service with another
  configuration. `RowInv` knows the attempt and the definition that made a row,
  and `AttemptInv` that no request is ahead of its caller.
- `ListedJobsAreSpared` from `SpareInv`: between its two questions a job that was
  launching at the first and has not ended is running, or found already. With the
  questions in the other order that is false.
- `InstalledAreLaunchds` from `PlistInv` and `ReadyInv`: once a bootstrap has
  succeeded the loaded definition is the one just written, and a daemon that
  launchd started since runs it. `launchctl print` shows launchd's process only;
  so if the pid shown is the pid that answered, it was launchd's, under the
  definition on disk, and else it merely begins with it. Pids are any numbers
  with different digits (`ServiceAssumption`).

`JobHelpersProofs`, for any checks, crashes and retries:

- `HelperInvariant`: `HelperInv`. `LockInv` ties every process of a check to the
  thread that has the lock and has not killed the group yet. Once the server is
  dead its threads do nothing, and `CleanupInv` says that what is still alive has
  a record that a cleanup is about to read, or escaped for one of the reasons the
  model names; for that, a check that is polled must have its record as long as
  the job runs. `SessionInv` is the same for the bridge.
- `ChecksRunAlone`, `ChecksEndWithTheJob`, `SessionsEndWithTheBridge` follow.

`ClientInstallerProofs`, from `ClientAssumption` (finitely many targets, any
suffixes, runs and edits):

- `ClientInvariant`: `ClientInv`. Neither property is inductive: the rollback
  removes a target before it copies the backup back. `PlaceInv` and `PendingInv`
  say where the program is and that a target it has not come to is untouched with
  a free slot; `RemovableInv` that what the rollback removes is in its slot;
  `UndoInv` that what it puts back is what was there.
- `UserPartIsNeverLost`, `FailedRunsAreUndone` follow.

## 4. Where the documentation and the code differ

Each of these has a run whose counterexample shows it:

- `docs/AGENT_JOB_SUPERVISOR.md:515`: a provider does not survive a restart. It
  does if the daemon died before recording the process, or while reaping
  (`provider_survives`).
- `docs/CLIENT_INTEGRATION.md:213`: a waiting read wakes on output, liveness or
  terminal state. All waiters of a job share one event that each clears before
  it waits. On Python 3.10 and 3.11, which the repository supports and tests
  with, a change that is signalled right after a reader suspended, and cleared
  by a second reader before the first has begun to wait, is lost to the first
  until the next change or its timeout (`lost_wakeup`). The end of a job is not
  lost, whichever version (`EndReachesReaders`): a second reader that sees it
  answers and does not clear.

Met while modelling, without a run of their own. Job lifecycle, routing and
reading:

- `docs/AGENT_JOB_SUPERVISOR.md:66`: every terminal transition creates a
  delivery. A task that concludes while a shutdown drains replaces the
  interrupted row; `INSERT OR IGNORE` (S:1148) leaves the delivery of the first
  verdict, so an owner that acknowledged it hears nothing of the second.
- `skills/agent-jobs/SKILL.md:138`: jobs run until deadline, cancellation or
  provider termination. A prompt is written and drained before anything of that is
  looked at (S:2235-2238), and before stdout is read: a provider that does not read
  a prompt larger than its pipe holds the job and its slot, cancelled or overdue,
  until it exits or the daemon stops (`[]Unfed` in `AcceptedJobsFinish`,
  `SlotsAreReturned`, `EndsUnaided`; each is violated without it). After the
  leader's exit the task waits for its output readers with no deadline (S:2277), so
  a descendant that holds a pipe holds them too.
- A cleanup of the runtime directory that raises skips the line that drops the task
  (S:2322-2326). The row has its verdict; the slot stays taken until the daemon
  ends (`leaked`). If retention then deletes the row, `store.get` raises at S:2347
  for the task that is left, in every pass, and no queued job of any provider is
  claimed or timed out until the daemon is restarted (`Wedged`).
- `docs/AGENT_JOB_SUPERVISOR.md:509` reserves `cancelled` for jobs whose caller
  asked. A shutdown that marks a row interrupted during its launch makes the
  task finish it as "Cancelled during provider launch" (S:2213).
- `docs/CLIENT_INTEGRATION.md:125-128` describes the reservation state of an
  answer. A repeated escalation is answered with the first answer's state,
  although the lease may have ended since (S:895).
- `docs/SESSION_LOG.md:216-219` says that two temporary cooldowns no longer
  degrade a route to direct, `docs/CLIENT_INTEGRATION.md:200` that cooldowns retain
  queued recovery, and a test of `rebalance_default_route` alone
  (`tools/tests/test_agent_quota_broker.py:193`) that it keeps the route. But
  `route_decide` goes on to `enforce_provider_availability`, for ordinary default
  routes too, which takes a provider that is cooling down for an unavailable one
  (`agent_quota_broker.py:313`), so the answer is direct. `AutomaticIsServed` states
  what the composition does.
- `docs/AGENT_JOB_SUPERVISOR.md:344`: an exhausted provider recovers at 95% or
  below. A rate limit overwrites the state, and after the cooldown 96% is only
  pressured (`agent_quota_broker.py:205`).
- `docs/AGENT_JOB_SUPERVISOR.md:335`: telemetry older than two hours is stale.
  Its age is that of the freshest window, so an old sample of another window
  counts on (`agent_quota_broker.py:127`).
- `docs/AGENT_JOB_SUPERVISOR.md:540`: `journal_truncated` and the partial state
  are kept. If `job_terminal` cannot be written, flags that were only in memory
  are lost, and a cut answer reads as `complete` (S:1998-2007). The verdict and the
  flags are two commits (S:1995, S:1987), of a task and of the reconciliation of a
  start; a daemon that dies between them loses them as well, and with a journal too
  full for its warning nothing says that text was dropped (`died`).
- `docs/AGENT_JOB_SUPERVISOR.md:538-540`: damaged journal data cannot wedge later
  reads. `_read_events` takes `json.JSONDecodeError` for a corrupt record
  (S:2721-2723). A line torn inside a UTF-8 character, once a later record has ended
  it, raises `UnicodeDecodeError` instead, and every read from a cursor before it
  fails (`Undecodable`).
- `docs/CLIENT_INTEGRATION.md:213`: a waiting read wakes on liveness. The public
  status is in the fingerprint (S:2838-2841), but it becomes `possibly_stalled` by
  time alone (S:1775-1784) and nobody signals that, so the reader sees it with the
  next signal or at its timeout (`OnlyStalled` in `NoLostWakeup`).
- When budgets made the journal and the partial response differ, a delegate
  prints the whole partial response after what it printed already
  (`delegate.py:112-115`).

Decoding:

- Snapshots are matched with streamed blocks by text. A snapshot that lags until
  a later block of the same message has just its text so far is matched with
  that block, and the text is said again; two equal blocks one after the other
  are taken for one that was repeated. The model assumes of the provider that
  neither happens.
- `docs/AGENT_JOB_SUPERVISOR.md:421-424`: exceeding either bound suppresses the
  recovery of the message. Exceeding the length of a block suppresses that of
  the block only (`agent_job_events.py:222`). A block that fills the tracked
  length exactly and is the beginning of another one is matched with it
  (`DecoderAssumption` excludes this).
- Suppression ends with the next `message_start`, so it goes on into messages
  that come without a stream.
- Beyond 256 remembered tools a tool starts twice.

Installers:

- `docs/MIGRATION.md:50-51`: the installer refuses to proceed while active jobs
  exist. When the first ping is not answered it does not ask, which
  `docs/session-logs/2026-10-07-output-capture.md:82-86` records as a known hazard;
  `SparesListedJobs` has the condition. It also waits for the old daemon's
  socket, not for its process; a failed bootstrap leaves no service; and
  `kickstart -k` ends the jobs that the daemon started by bootstrap has claimed.
- The installer reports a daemon if `pid = N` occurs in the text of `launchctl
  print` (`install_agent_job_supervisor.py:291`), which is also so when launchd's pid
  only begins with N: a daemon started by hand passes, and launchd's own ends for
  want of the lock. The daemon that answered may have ended since.
- `docs/CLIENT_INTEGRATION.md:36-37`: all prior targets are restored if a write
  fails. When the copy of a backup itself fails halfway, the rollback of the
  failed run puts the half copy over the original, which was still intact
  (`install_agent_job_clients.py:556`; `torn` in the model).
- A file that a client creates between the look at the targets and a failing
  operation is removed by the rollback, and edits made after a target's update
  are undone with it. The backup of an abandoned run may come back where a later
  run found no target.
- A connection that ends after the commit without an answer is an error the
  client does not retry, unlike a timeout. A request hash contains the
  configuration, so a retry after a reconfiguration is refused, although the caller
  has changed nothing.
- From Python 3.12.1 on, leaving `async with server` waits for open long polls
  before the shutdown marks rows.

Helpers of a job:

- A SIGTERM between a check's start and `_set_active_process` leaves the check to
  its timeout, and the server waits for it.
- A cleanup of stale directories that fails ends a daemon which has already
  committed its interrupted rows (S:2967-2968), so the next one does not know the
  orphans.
- The reaping of an orphan gives it one second; the bridge's DELETE may take
  three. A second SIGTERM interrupts the DELETE. A launch that was given up may
  reach CAO after the DELETE. In each case the session is left to CAO's own
  deadline (`lost` in the model).

## 5. Plan and what is not modelled

Done: the job lifecycle and its contract, routing policy, route ledger, provider
health, journal and reading, Claude's decoder, submission and the service
installer, the client installer, the check server and the CAO bridge; with proofs
of the safety properties of all of them.

Next: the type invariants of the submission, helper and installer models as
theorems of their own, and a refinement of the route ledger (a lease as its
caller sees it: reserved, then ended once) beside the one of the job.

Not modelled:

- Migration gate: it reads reports, the service definition and the rows of
  finished canary jobs, compares them with thresholds and writes a verdict that no
  other part reads. It runs once and alone.
- Normalizers of Codex and OpenCode: one record to some events, with no memory
  but open tools. Oversized and damaged lines.
- Process identifiers that the system gives to another process between the two
  signals of the reaper (S:2421); the outcome is the system's.
- Power loss that drops committed transactions from the WAL.
- `uninstall` and `status` of the supervisor installer, `--check` and the text of
  previews of the client installer: the same commands without a decision between
  them.
- Review core, CLI and MCP server: stateless translation. Command building,
  workspace copies and sandbox profiles: data. Bootstrap and CI: a sequential
  script and build configuration.
