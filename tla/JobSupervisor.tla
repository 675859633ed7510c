---------------------------- MODULE JobSupervisor ----------------------------
(***************************************************************************)
(* The agent-job daemon of src/tools/agent_job_supervisor.py: the durable   *)
(* job rows and inbox deliveries (JobStore), the scheduler, one asyncio     *)
(* task per claimed job (Supervisor._run_job), the provider process that    *)
(* task owns, and the start, shutdown, crash and orphan reaping of the      *)
(* daemon itself (Supervisor.serve).                                        *)
(*                                                                          *)
(* The daemon is a single asyncio thread: the code between two awaits is    *)
(* atomic, so every action below runs from one await to the next.  Rows     *)
(* are committed by SQLite before the await, so they survive a crash; tasks *)
(* and the list of orphans live in memory; provider processes belong to the *)
(* operating system and survive everything but a signal.                    *)
(***************************************************************************)
EXTENDS Naturals, FiniteSets

CONSTANTS
  NumJobs,      \* bound: how many jobs are ever submitted
  Provider,     \* the providers a job may name
  ProviderOf,   \* the provider column of each job
  Owned,        \* the jobs submitted with a non-empty owner
  Limit,        \* provider_limits
  Retired,      \* providers a release after the first incarnation dropped
  Dynamic,      \* AGENT_JOB_DYNAMIC_CONCURRENCY
  MaxStarts     \* bound: how many daemon incarnations are started

\* Job ids are fresh uuids; numbering them in submission order makes the
\* created_at order of the queue the order of the numbers.
Jobs == 1..NumJobs

ASSUME ConstantsAssumption ==
  /\ NumJobs \in Nat
  /\ ProviderOf \in [Jobs -> Provider]
  /\ Owned \subseteq Jobs
  /\ Limit \in [Provider -> Nat \ {0}]
  /\ Retired \subseteq Provider
  /\ Dynamic \in BOOLEAN
  /\ MaxStarts \in Nat \ {0}

VARIABLES
  status,     \* jobs.status ("none" before submission, "pruned" once deleted)
  kind,       \* jobs.failure_kind
  cancelReq,  \* the jobs whose cancel_requested is set
  pgid,       \* the jobs with pid, pgid and process_start recorded
  late,       \* jobs whose current (queue or run) deadline has passed
  delivery,   \* the job's deliveries row: "none", "unacked" or "acked"
  stage,      \* where the job's task is; "none" when it has no task
  outcome,    \* the local variables outcome and failure_kind of _run_job
  exitZero,   \* jobs whose task has proc.returncode 0
  lost,       \* jobs whose task has its capture_failure future set
  proc,       \* the provider's process group
  phase,      \* where serve() is
  starts,     \* incarnations started so far
  reap        \* per orphan, where _reap_orphaned_job is

rowVars == <<status, kind, cancelReq, pgid, late, delivery>>
localVars == <<outcome, exitZero, lost>>
daemonVars == <<phase, starts, reap>>
vars == <<rowVars, stage, localVars, proc, daemonVars>>

Terminal == {"completed", "failed", "cancelled", "interrupted"}
InFlight == {"launching", "running"}
Status == {"none", "queued", "pruned"} \cup InFlight \cup Terminal

Kind == {"", "cancelled", "queue_timeout", "launch_error", "timeout",
         "output_capture", "provider_exit", "rate_limit",
         "supervisor_shutdown", "supervisor_restart"}

(***************************************************************************)
(* The awaits at which a task can be suspended.                            *)
(*   created      scheduled by create_task, not yet run                    *)
(*   building     await to_thread(command_builder), create_subprocess_exec *)
(*   spawned      the process exists; awaiting the two ps probes           *)
(*   aborting     "Cancelled during provider launch": awaiting _terminate  *)
(*   feeding      the row is running; awaiting proc.stdin.drain()          *)
(*   watching     the once-a-second wait loop                              *)
(*   terminating  the loop decided an outcome: awaiting _terminate         *)
(*   collecting   the leader is gone: awaiting the two output readers      *)
(*   erroring     an exception: awaiting _terminate                        *)
(*   unwinding    a CancelledError: awaiting _terminate                    *)
(*   cleanup      finally: awaiting the removal of the runtime directory   *)
(*   leaked       that removal raised: the task is over, but tasks.pop was *)
(*                skipped and self.tasks holds it as long as the daemon     *)
(*                lives                                                     *)
(***************************************************************************)
Terminating == {"aborting", "terminating", "erroring", "unwinding"}
Stage == {"none", "created", "building", "spawned", "feeding", "watching",
          "collecting", "cleanup", "leaked"} \cup Terminating

\* "leader": the provider runs; "descendant": it exited, but a process it
\* started still holds the output pipes; "dead": the whole group is gone.
Proc == {"none", "leader", "descendant", "dead"}

\* "closing": the listener is closed, connections drain; "draining": rows are
\* marked, reaper and scheduler cancelled; "stopping": the tasks are cancelled.
Phase == {"down", "up", "closing", "draining", "stopping"}

Serving == phase # "down"
HasTask(j) == stage[j] # "none"
Stopped(j) == proc[j] # "leader"

TypeOK ==
  /\ status \in [Jobs -> Status]
  /\ kind \in [Jobs -> Kind]
  /\ cancelReq \in SUBSET Jobs
  /\ pgid \in SUBSET Jobs
  /\ late \in SUBSET Jobs
  /\ delivery \in [Jobs -> {"none", "unacked", "acked"}]
  /\ stage \in [Jobs -> Stage]
  /\ outcome \in [Jobs -> {"completed", "cancelled", "timeout", "output_capture"}]
  /\ proc \in [Jobs -> Proc]
  /\ exitZero \in SUBSET Jobs
  /\ lost \in SUBSET Jobs
  /\ phase \in Phase
  /\ starts \in 0..MaxStarts
  /\ reap \in [Jobs -> {"none", "probe", "grace"}]

Init ==
  /\ status = [j \in Jobs |-> "none"]
  /\ kind = [j \in Jobs |-> ""]
  /\ cancelReq = {}
  /\ pgid = {}
  /\ late = {}
  /\ delivery = [j \in Jobs |-> "none"]
  /\ stage = [j \in Jobs |-> "none"]
  /\ outcome = [j \in Jobs |-> "completed"]
  /\ proc = [j \in Jobs |-> "none"]
  /\ exitZero = {}
  /\ lost = {}
  /\ phase = "down"
  /\ starts = 0
  /\ reap = [j \in Jobs |-> "none"]

-----------------------------------------------------------------------------
(* The store: terminal updates and the inbox row they insert.              *)

\* INSERT OR IGNORE INTO deliveries ... WHERE owner <> ''
Delivered(j) ==
  IF j \in Owned /\ delivery[j] = "none" THEN "unacked" ELSE delivery[j]

\* _finish_job: one committed update that makes the row terminal.
Finish(j, s, k) ==
  /\ status' = [status EXCEPT ![j] = s]
  /\ kind' = [kind EXCEPT ![j] = k]
  /\ delivery' = [delivery EXCEPT ![j] = Delivered(j)]
  /\ late' = late \ {j}

\* Mutation: launching rows forgotten.
InterruptibleRunning == {j \in Jobs : status[j] = "running"}

\* The rows _interrupt_in_flight turns terminal.
Interruptible == {j \in Jobs : status[j] \in InFlight}

\* Mutation: the second statement, the deliveries, missing.
InterruptSilently(k) ==
  /\ status' = [j \in Jobs |-> IF j \in Interruptible THEN "interrupted" ELSE status[j]]
  /\ kind' = [j \in Jobs |-> IF j \in Interruptible THEN k ELSE kind[j]]
  /\ late' = late \ Interruptible
  /\ UNCHANGED delivery

\* Mutation: in-flight rows put back into the queue.
InterruptByRequeue(k) ==
  /\ status' = [j \in Jobs |-> IF j \in Interruptible THEN "queued" ELSE status[j]]
  /\ late' = late \ Interruptible
  /\ UNCHANGED <<kind, delivery>>

\* One commit for every in-flight row; no waiter is signalled.
InterruptInFlight(k) ==
  /\ status' = [j \in Jobs |-> IF j \in Interruptible THEN "interrupted" ELSE status[j]]
  /\ kind' = [j \in Jobs |-> IF j \in Interruptible THEN k ELSE kind[j]]
  /\ delivery' = [j \in Jobs |-> IF j \in Interruptible THEN Delivered(j) ELSE delivery[j]]
  /\ late' = late \ Interruptible

-----------------------------------------------------------------------------
(* Requests on the socket.  Connections accepted before the listener closes *)
(* are still answered while the daemon shuts down.                          *)

Supported == IF starts <= 1 THEN Provider ELSE Provider \ Retired

\* A request that is rejected, or that repeats the idempotency key of an earlier
\* job, changes no row.
Submit(j) ==
  /\ Serving
  /\ status[j] = "none"
  /\ \A i \in Jobs : i > j => status[i] = "none"
  /\ ProviderOf[j] \in Supported
  /\ status' = [status EXCEPT ![j] = "queued"]
  /\ UNCHANGED <<kind, cancelReq, pgid, late, delivery, stage, localVars, proc, daemonVars>>

\* Mutation: the handler finishes a job in any state.
CancelFinishesAny(j) == status[j] # "none"

\* A queued job is finished by the handler itself.
CancelFinishes(j) == status[j] = "queued"

Cancel(j) ==
  /\ Serving
  /\ status[j] \in {"queued"} \cup InFlight
  /\ cancelReq' = cancelReq \cup {j}
  /\ IF CancelFinishes(j)
     THEN Finish(j, "cancelled", "cancelled")
     ELSE UNCHANGED <<status, kind, delivery, late>>
  /\ UNCHANGED <<pgid, stage, localVars, proc, daemonVars>>

\* inbox with ack_delivery_ids: the exact owner acknowledges the delivery.
Acknowledge(j) ==
  /\ Serving
  /\ delivery[j] = "unacked"
  /\ delivery' = [delivery EXCEPT ![j] = "acked"]
  /\ UNCHANGED <<status, kind, cancelReq, pgid, late, stage, localVars, proc, daemonVars>>

-----------------------------------------------------------------------------
(* One pass of _scheduler, which awaits nothing until it sleeps.           *)

Health == IF Dynamic THEN {"available", "pressured", "rate_limited"} ELSE {"available"}

\* _effective_provider_limits for a health snapshot h.
Effective(h) ==
  [p \in Provider |->
     CASE h[p] = "rate_limited" -> 0
       [] h[p] = "pressured" -> IF Limit[p] > 1 THEN Limit[p] - 1 ELSE 1
       [] OTHER -> Limit[p]]

Expired == {j \in Jobs : status[j] = "queued" /\ j \in late}

Unsupported ==
  {j \in Jobs : status[j] = "queued" /\ j \notin late /\ ProviderOf[j] \notin Supported}

\* The slots a provider's tasks hold: a task keeps its slot until its cleanup
\* is over, whatever its row says.
TasksOf(p) == {j \in Jobs : HasTask(j) /\ ProviderOf[j] = p}
Busy(p) == Cardinality(TasksOf(p))

Eligible ==
  {j \in Jobs : status[j] = "queued" /\ j \notin Expired \cup Unsupported /\ ~HasTask(j)}

\* Mutation: active[provider] += 1 missing.
AheadNone(j) == {}

\* Mutation: ORDER BY created_at DESC.
AheadNewest(j) == {i \in Eligible : i > j /\ ProviderOf[i] = ProviderOf[j]}

\* The eligible jobs of the same provider that the pass meets before j.
Ahead(j) == {i \in Eligible : i < j /\ ProviderOf[i] = ProviderOf[j]}

Claimed(eff) ==
  {j \in Eligible :
     Busy(ProviderOf[j]) + Cardinality(Ahead(j)) < eff[ProviderOf[j]]}

\* Mutation: retention by age alone.
PrunableAny == {j \in Jobs : status[j] \notin {"none", "queued", "pruned"}}

\* Rows past JOB_RETENTION_SECONDS; store.prune does not ask whether the
\* daemon still holds a task for one of them.
Prunable == {j \in Jobs : status[j] \in Terminal}

\* store.get raises for a task whose row an earlier pass, or this one, pruned.
Blocked(old) == \E j \in Jobs : HasTask(j) /\ (status[j] = "pruned" \/ j \in old)

\* The pass raises after the rows are deleted: an unlink of a log failed, or the
\* tasks cannot be counted.
PassFails(old) ==
  /\ phase \in {"up", "closing"}
  /\ old # {} \/ Blocked(old)
  /\ status' = [j \in Jobs |-> IF j \in old THEN "pruned" ELSE status[j]]
  /\ kind' = [j \in Jobs |-> IF j \in old THEN "" ELSE kind[j]]
  /\ delivery' = [j \in Jobs |-> IF j \in old THEN "none" ELSE delivery[j]]
  /\ cancelReq' = cancelReq \ old
  /\ pgid' = pgid \ old
  /\ UNCHANGED <<late, stage, localVars, proc, daemonVars>>

Schedule(eff, old) ==
  /\ phase \in {"up", "closing"}
  /\ ~Blocked(old)
  /\ status' = [j \in Jobs |->
       CASE j \in old -> "pruned"
         [] j \in Expired \cup Unsupported -> "failed"
         [] j \in Claimed(eff) -> "launching"
         [] OTHER -> status[j]]
  /\ kind' = [j \in Jobs |->
       CASE j \in old -> ""
         [] j \in Expired -> "queue_timeout"
         [] j \in Unsupported -> "launch_error"
         [] OTHER -> kind[j]]
  /\ delivery' = [j \in Jobs |->
       CASE j \in old -> "none"
         [] j \in Expired \cup Unsupported -> Delivered(j)
         [] OTHER -> delivery[j]]
  /\ cancelReq' = cancelReq \ old
  /\ pgid' = pgid \ old
  /\ late' = late \ Expired
  /\ stage' = [j \in Jobs |-> IF j \in Claimed(eff) THEN "created" ELSE stage[j]]
  /\ UNCHANGED <<localVars, proc, daemonVars>>

-----------------------------------------------------------------------------
(* _run_job, one action per stretch between two awaits.                    *)

\* The first step of the task: the checks before anything is launched.
Begin(j) ==
  /\ stage[j] = "created"
  /\ \/ /\ status[j] # "launching"
        /\ stage' = [stage EXCEPT ![j] = "cleanup"]
        /\ UNCHANGED <<status, kind, delivery, late>>
     \/ /\ status[j] = "launching" /\ j \in cancelReq
        /\ stage' = [stage EXCEPT ![j] = "cleanup"]
        /\ Finish(j, "cancelled", "cancelled")
     \/ /\ status[j] = "launching" /\ j \notin cancelReq /\ j \in late
        /\ stage' = [stage EXCEPT ![j] = "cleanup"]
        /\ Finish(j, "failed", "queue_timeout")
     \/ /\ status[j] = "launching" /\ j \notin cancelReq /\ j \notin late
        /\ stage' = [stage EXCEPT ![j] = "building"]
        /\ UNCHANGED <<status, kind, delivery, late>>
  /\ UNCHANGED <<cancelReq, pgid, localVars, proc, daemonVars>>

\* create_subprocess_exec returns; processes[job_id] is set.
Spawn(j) ==
  /\ stage[j] = "building"
  /\ stage' = [stage EXCEPT ![j] = "spawned"]
  /\ proc' = [proc EXCEPT ![j] = "leader"]
  /\ UNCHANGED <<rowVars, localVars, daemonVars>>

\* The command builder or the exec raised: no process, the row fails.
BuildFails(j) ==
  /\ stage[j] = "building"
  /\ stage' = [stage EXCEPT ![j] = "cleanup"]
  /\ Finish(j, "failed", "launch_error")
  /\ UNCHANGED <<cancelReq, pgid, localVars, proc, daemonVars>>

\* current["cancel_requested"] or current["status"] != "launching"
LaunchRevoked(j) == j \in cancelReq \/ status[j] # "launching"

\* The ps probes answered: the row becomes running, or the launch is undone.
Probed(j) ==
  /\ stage[j] = "spawned"
  /\ IF LaunchRevoked(j)
     THEN /\ stage' = [stage EXCEPT ![j] = "aborting"]
          /\ UNCHANGED <<status, pgid, late>>
     ELSE /\ stage' = [stage EXCEPT ![j] = "feeding"]
          /\ status' = [status EXCEPT ![j] = "running"]
          /\ pgid' = pgid \cup {j}
          /\ late' = late \ {j}   \* the run deadline starts now
  /\ UNCHANGED <<kind, cancelReq, delivery, localVars, proc, daemonVars>>

\* drain() returns: the provider has read its prompt, or left the pipe.  Until
\* then nothing else is looked at, neither a cancel nor the deadline.
Fed(j) ==
  /\ stage[j] = "feeding"
  /\ stage' = [stage EXCEPT ![j] = "watching"]
  /\ UNCHANGED <<rowVars, localVars, proc, daemonVars>>

\* Mutation: the verdict is written before _terminate is awaited.
AbortedAtOnce(j) ==
  /\ stage[j] = "aborting"
  /\ stage' = [stage EXCEPT ![j] = "cleanup"]
  /\ Finish(j, "cancelled", "cancelled")
  /\ UNCHANGED <<cancelReq, pgid, localVars, proc, daemonVars>>

Aborted(j) ==
  /\ stage[j] = "aborting"
  /\ Stopped(j)
  /\ stage' = [stage EXCEPT ![j] = "cleanup"]
  /\ Finish(j, "cancelled", "cancelled")
  /\ UNCHANGED <<cancelReq, pgid, localVars, proc, daemonVars>>

\* A ps probe, the write to the provider's stdin, the store or, once the output
\* is complete, the recording of a rate limit raised.
Raise(j) ==
  /\ \/ stage[j] \in {"spawned", "feeding", "watching"}
     \/ stage[j] = "collecting" /\ proc[j] = "dead"
  /\ stage' = [stage EXCEPT ![j] = "erroring"]
  /\ UNCHANGED <<rowVars, localVars, proc, daemonVars>>

Errored(j) ==
  /\ stage[j] = "erroring"
  /\ Stopped(j)
  /\ stage' = [stage EXCEPT ![j] = "cleanup"]
  /\ Finish(j, "failed", "launch_error")
  /\ UNCHANGED <<cancelReq, pgid, localVars, proc, daemonVars>>

\* Mutation: no deadline check in the loop.
WatchVerdictUntimed(j) ==
  CASE j \in cancelReq -> "cancelled"
    [] j \notin cancelReq /\ j \in lost -> "output_capture"
    [] OTHER -> "completed"

\* Mutation: the flag is not read again once the job runs.
WatchVerdictDeaf(j) ==
  CASE j \in late -> "timeout"
    [] j \notin late /\ j \in lost -> "output_capture"
    [] OTHER -> "completed"

\* The wait loop: cancel before deadline before capture failure, each only
\* while returncode is None; otherwise the loop is left with the outcome so far.
WatchVerdict(j) ==
  CASE j \in cancelReq -> "cancelled"
    [] j \notin cancelReq /\ j \in late -> "timeout"
    [] j \notin cancelReq /\ j \notin late /\ j \in lost -> "output_capture"
    [] OTHER -> "completed"

Watch(j) ==
  /\ stage[j] = "watching"
  /\ \/ /\ ~Stopped(j)
        /\ WatchVerdict(j) # "completed"
        /\ outcome' = [outcome EXCEPT ![j] = WatchVerdict(j)]
        /\ stage' = [stage EXCEPT ![j] = "terminating"]
     \/ /\ Stopped(j)
        /\ stage' = [stage EXCEPT ![j] = "collecting"]
        /\ UNCHANGED outcome
  /\ UNCHANGED <<rowVars, exitZero, lost, proc, daemonVars>>

Terminated(j) ==
  /\ stage[j] = "terminating"
  /\ Stopped(j)
  /\ stage' = [stage EXCEPT ![j] = "collecting"]
  /\ UNCHANGED <<rowVars, localVars, proc, daemonVars>>

\* Mutation: a capture failure after the exit is not looked at.
VerdictLossy(j, limited) ==
  CASE outcome[j] # "completed" -> outcome[j]
    [] outcome[j] = "completed" /\ j \notin exitZero ->
         IF limited THEN "rate_limit" ELSE "provider_exit"
    [] OTHER -> "completed"

\* What the job is finished with once its output is complete; limited says
\* whether rate_limit_cooldown recognises the provider's stderr.
Verdict(j, limited) ==
  CASE outcome[j] # "completed" -> outcome[j]
    [] outcome[j] = "completed" /\ j \in lost -> "output_capture"
    [] outcome[j] = "completed" /\ j \notin lost /\ j \notin exitZero ->
         IF limited THEN "rate_limit" ELSE "provider_exit"
    [] OTHER -> "completed"

StatusOf(v) == IF v \in {"completed", "cancelled"} THEN v ELSE "failed"
KindOf(v) == IF v = "completed" THEN "" ELSE v

\* Both readers reached end of file, which needs every holder of the pipes gone.
Collected(j, limited) ==
  /\ stage[j] = "collecting"
  /\ proc[j] = "dead"
  /\ stage' = [stage EXCEPT ![j] = "cleanup"]
  /\ Finish(j, StatusOf(Verdict(j, limited)), KindOf(Verdict(j, limited)))
  /\ UNCHANGED <<cancelReq, pgid, localVars, proc, daemonVars>>

\* except CancelledError, after _terminate.
Unwound(j) ==
  /\ stage[j] = "unwinding"
  /\ Stopped(j)
  /\ stage' = [stage EXCEPT ![j] = "cleanup"]
  /\ Finish(j, "interrupted", "supervisor_shutdown")
  /\ UNCHANGED <<cancelReq, pgid, localVars, proc, daemonVars>>

\* The locals of tasks that end.
Forget(S) ==
  /\ outcome' = [j \in Jobs |-> IF j \in S THEN "completed" ELSE outcome[j]]
  /\ exitZero' = exitZero \ S
  /\ lost' = lost \ S

\* The end of finally: the task leaves self.tasks and frees its slot.
Cleanup(j) ==
  /\ stage[j] = "cleanup"
  /\ stage' = [stage EXCEPT ![j] = "none"]
  /\ Forget({j})
  /\ UNCHANGED <<rowVars, proc, daemonVars>>

\* _cleanup_job_runtime raised: the slot stays taken.
CleanupFails(j) ==
  /\ stage[j] = "cleanup"
  /\ stage' = [stage EXCEPT ![j] = "leaked"]
  /\ Forget({j})
  /\ UNCHANGED <<rowVars, proc, daemonVars>>

-----------------------------------------------------------------------------
(* The operating system and the clock.                                     *)

\* The provider exits, by itself or on SIGTERM; its code reaches its task.
ProviderExits(j, zero, rest) ==
  /\ proc[j] = "leader"
  /\ proc' = [proc EXCEPT ![j] = rest]
  /\ zero => HasTask(j)
  /\ exitZero' = IF zero THEN exitZero \cup {j} ELSE exitZero
  /\ UNCHANGED <<rowVars, stage, outcome, lost, daemonVars>>

DescendantExits(j) ==
  /\ proc[j] = "descendant"
  /\ proc' = [proc EXCEPT ![j] = "dead"]
  /\ UNCHANGED <<rowVars, stage, localVars, daemonVars>>

\* Mutation: SIGKILL only for a job that was already running.
KillGroupRunning(j) ==
  /\ stage[j] = "terminating"
  /\ proc[j] = "leader"
  /\ proc' = [proc EXCEPT ![j] = "dead"]
  /\ UNCHANGED <<rowVars, stage, localVars, daemonVars>>

\* _terminate's ten seconds are over and the leader is still there: SIGKILL
\* to the whole group.
KillGroup(j) ==
  /\ stage[j] \in Terminating
  /\ proc[j] = "leader"
  /\ proc' = [proc EXCEPT ![j] = "dead"]
  /\ UNCHANGED <<rowVars, stage, localVars, daemonVars>>

\* _capture_stream: appending the output raised.
CaptureFails(j) ==
  /\ stage[j] \in {"watching", "terminating", "collecting"}
  /\ j \notin lost
  /\ lost' = lost \cup {j}
  /\ UNCHANGED <<rowVars, stage, outcome, exitZero, proc, daemonVars>>

\* The queue deadline while queued, the run deadline while running.
DeadlinePasses(j) ==
  /\ \/ status[j] = "queued"
     \/ status[j] = "launching" /\ stage[j] = "created"
     \/ status[j] = "running"
  /\ j \notin late
  /\ late' = late \cup {j}
  /\ UNCHANGED <<status, kind, cancelReq, pgid, delivery, stage, localVars, proc, daemonVars>>

-----------------------------------------------------------------------------
(* The daemon: serve().                                                    *)

\* The lock, _reconcile_interrupted, the bind, then the reaper and the scheduler.
Start ==
  /\ phase = "down"
  /\ starts < MaxStarts
  /\ phase' = "up"
  /\ starts' = starts + 1
  /\ InterruptInFlight("supervisor_restart")
  /\ reap' = [j \in Jobs |-> IF j \in Interruptible THEN "probe" ELSE "none"]
  /\ UNCHANGED <<cancelReq, pgid, stage, localVars, proc>>

\* _reap_orphaned_job up to its sleep: SIGTERM if the recorded identity is that
\* of a live process, nothing otherwise.
ReapProbe(j) ==
  /\ reap[j] = "probe"
  /\ reap' = [reap EXCEPT ![j] =
                IF j \in pgid /\ proc[j] = "leader" THEN "grace" ELSE "none"]
  /\ UNCHANGED <<rowVars, stage, localVars, proc, phase, starts>>

\* After the grace second: SIGKILL to whatever is left of the group.
ReapKill(j) ==
  /\ reap[j] = "grace"
  /\ reap' = [reap EXCEPT ![j] = "none"]
  /\ proc' = [proc EXCEPT ![j] = "dead"]
  /\ UNCHANGED <<rowVars, stage, localVars, phase, starts>>

\* SIGTERM to the daemon: serve_forever closes the listener and waits for the
\* open connections.
Close ==
  /\ phase = "up"
  /\ starts < MaxStarts
  /\ phase' = "closing"
  /\ UNCHANGED <<rowVars, stage, localVars, proc, starts, reap>>

\* The finally of serve() up to awaiting the cancelled reaper and scheduler.
MarkShutdown ==
  /\ phase = "closing"
  /\ phase' = "draining"
  /\ InterruptInFlight("supervisor_shutdown")
  /\ reap' = [j \in Jobs |-> "none"]
  /\ UNCHANGED <<cancelReq, pgid, stage, localVars, proc, starts>>

\* Where a CancelledError takes a task: one that never ran has no handler to
\* run, one in its except clause goes straight to finally, one in its finally
\* ends, and every other one unwinds through except CancelledError.
CancelledStage(s) ==
  CASE s \in {"none", "created", "cleanup", "leaked"} -> "none"
    [] s \in {"erroring", "unwinding"} -> "cleanup"
    [] OTHER -> "unwinding"

CancelTasks ==
  /\ phase = "draining"
  /\ phase' = "stopping"
  /\ stage' = [j \in Jobs |-> CancelledStage(stage[j])]
  /\ Forget({j \in Jobs : CancelledStage(stage[j]) = "none"})
  /\ UNCHANGED <<rowVars, proc, starts, reap>>

\* Every task ended within the grace period.
Exit ==
  /\ phase = "stopping"
  /\ \A j \in Jobs : stage[j] \in {"none", "leaked"}
  /\ phase' = "down"
  /\ stage' = [j \in Jobs |-> "none"]
  /\ UNCHANGED <<rowVars, localVars, proc, starts, reap>>

\* The process dies (SIGKILL, or the shutdown grace period runs out with
\* tasks left): whatever was in memory is gone.
Crash ==
  /\ Serving
  /\ starts < MaxStarts
  /\ phase' = "down"
  /\ stage' = [j \in Jobs |-> "none"]
  /\ Forget(Jobs)
  /\ reap' = [j \in Jobs |-> "none"]
  /\ UNCHANGED <<rowVars, proc, starts>>

-----------------------------------------------------------------------------

Request(j) == Submit(j) \/ Cancel(j) \/ Acknowledge(j)

Scan ==
  \E old \in SUBSET Prunable :
    PassFails(old) \/ \E h \in [Provider -> Health] : Schedule(Effective(h), old)

TaskStep(j) ==
  \/ Begin(j) \/ Spawn(j) \/ BuildFails(j) \/ Probed(j) \/ Aborted(j) \/ Errored(j)
  \/ Watch(j) \/ Terminated(j) \/ (\E limited \in BOOLEAN : Collected(j, limited))
  \/ Unwound(j) \/ Cleanup(j) \/ CleanupFails(j)

Exits(j) == \E zero \in BOOLEAN, rest \in {"descendant", "dead"} : ProviderExits(j, zero, rest)

ReapStep(j) == ReapProbe(j) \/ ReapKill(j)

Shutdown == MarkShutdown \/ CancelTasks \/ Exit

Next ==
  \/ \E j \in Jobs :
       \/ Request(j) \/ TaskStep(j) \/ Fed(j) \/ Raise(j)
       \/ Exits(j) \/ DescendantExits(j) \/ KillGroup(j) \/ CaptureFails(j)
       \/ DeadlinePasses(j) \/ ReapStep(j)
  \/ Scan
  \/ Start \/ Close \/ Shutdown \/ Crash

Spec == Init /\ [][Next]_vars

-----------------------------------------------------------------------------
(* Safety.                                                                 *)

\* A provider never has more tasks than its configured limit, although the
\* scheduler counts once per pass and a slot outlives its row's verdict.
CapacityHeld == \A p \in Provider : Cardinality(TasksOf(p)) <= Limit[p]

\* "No caller can observe a job the daemon no longer owns": while the daemon
\* answers, an in-flight row has a task at the matching point of _run_job.
InFlightRowsAreOwned ==
  Serving => \A j \in Jobs :
    /\ status[j] = "launching" =>
         stage[j] \in {"created", "building", "spawned", "aborting", "erroring"}
    /\ status[j] = "running" =>
         stage[j] \in {"feeding", "watching", "terminating", "collecting", "erroring"}

\* A row that says completed, failed or cancelled has no provider behind it any
\* more: every path waits for _terminate or for the exit before the verdict.
VerdictMeansStopped ==
  \A j \in Jobs : status[j] \in {"completed", "failed", "cancelled"} => proc[j] # "leader"

\* The inbox has exactly one delivery for every retained terminal job with an
\* owner, none for any other, through cancels, restarts, crashes and pruning.
DeliveryMatchesOutcome ==
  \A j \in Jobs : (delivery[j] # "none") <=> (j \in Owned /\ status[j] \in Terminal)

\* "Exit zero is not success when its output was lost": completed means code
\* zero and both streams captured, also when the capture fails after the exit
\* (the task still knows both until its cleanup is over).
CompletedMeansCaptured ==
  \A j \in Jobs : status[j] = "completed" /\ stage[j] = "cleanup" => j \in exitZero /\ j \notin lost

\* What a failure says happened did happen: a queue timeout never had a
\* process, a run outcome belongs to a process whose identity was recorded.
FailureKindIsTrue ==
  \A j \in Jobs :
    /\ kind[j] = "queue_timeout" => proc[j] = "none"
    /\ kind[j] \in {"timeout", "output_capture", "provider_exit", "rate_limit"} => j \in pgid

\* A terminal status is final, except that the stretch of a shutdown between
\* the marking commit and the cancellation of the tasks may still replace an
\* interrupted row by the task's own verdict.
VerdictIsFinal ==
  [][\A j \in Jobs :
       status[j] \in Terminal /\ status'[j] # status[j] =>
         status'[j] = "pruned" \/ (status[j] = "interrupted" /\ phase = "draining")]_vars

\* "Launches it once": no restart, crash or race starts a second process.
LaunchedAtMostOnce ==
  [][\A j \in Jobs : proc'[j] = "leader" => proc[j] \in {"none", "leader"}]_vars

\* The queue is first come first served per provider: a pass never claims a job
\* and leaves an older one of the same provider queued.
NoOvertaking ==
  [][\A i, j \in Jobs :
       /\ i < j /\ ProviderOf[i] = ProviderOf[j]
       /\ status[i] = "queued" /\ status'[i] = "queued"
       => ~(status[j] = "queued" /\ status'[j] = "launching")]_vars

-----------------------------------------------------------------------------
(* The inductive invariant behind the safety properties: how a row, its     *)
(* task, its process and the phase of the daemon go together.               *)

\* A task stands where its row says, except that marking a shutdown may have
\* interrupted the row under it; one that is unwinding was cancelled by it.
StageMatchesRow(j) ==
  /\ stage[j] \in {"created", "building", "spawned", "aborting"} => status[j] \in {"launching", "interrupted"}
  /\ stage[j] \in {"feeding", "watching", "terminating", "collecting"} => status[j] \in {"running", "interrupted"}
  /\ stage[j] = "erroring" => status[j] \in {"launching", "running", "interrupted"}
  /\ stage[j] = "unwinding" => status[j] = "interrupted"
  /\ stage[j] \in {"cleanup", "leaked"} => status[j] \in Terminal \cup {"pruned"}
  /\ status[j] = "interrupted" /\ stage[j] \notin {"none", "cleanup", "leaked"} => phase \in {"draining", "stopping"}

\* A process exists only behind a task that has launched it or a row that was
\* claimed, and its identity is recorded before the row runs.
ProcessMatchesRow(j) ==
  /\ status[j] \in {"none", "queued"} => proc[j] = "none" /\ stage[j] = "none"
  /\ stage[j] \in {"created", "building"} => proc[j] = "none"
  /\ stage[j] \in {"spawned", "aborting", "feeding", "watching", "terminating", "erroring"} => proc[j] # "none"
  /\ stage[j] = "collecting" => proc[j] \in {"descendant", "dead"}
  /\ stage[j] \in {"feeding", "watching", "terminating", "collecting"} => j \in pgid

KindMatchesRow(j) ==
  /\ status[j] \notin Terminal => kind[j] = ""
  /\ status[j] = "interrupted" => kind[j] \in {"supervisor_shutdown", "supervisor_restart"}

\* Tasks live in the daemon's memory, and a shutdown leaves no row in flight.
TaskMatchesDaemon(j) ==
  /\ phase = "down" => stage[j] = "none" /\ reap[j] = "none"
  /\ phase \in {"draining", "stopping"} => status[j] \notin InFlight /\ reap[j] = "none"
  /\ phase = "stopping" => stage[j] \in {"none", "unwinding", "cleanup", "leaked"}
  /\ reap[j] # "none" => stage[j] = "none" /\ status[j] \in Terminal \cup {"pruned"}
  /\ reap[j] = "grace" => proc[j] # "none"

\* A row, its task, its process and the daemon agree at every moment, and with
\* them everything the safety properties say.
IndInv ==
  /\ TypeOK
  /\ \A j \in Jobs :
       StageMatchesRow(j) /\ ProcessMatchesRow(j) /\ KindMatchesRow(j) /\ TaskMatchesDaemon(j)
  /\ InFlightRowsAreOwned /\ VerdictMeansStopped /\ CompletedMeansCaptured
  /\ FailureKindIsTrue /\ DeliveryMatchesOutcome

-----------------------------------------------------------------------------
(* What the documentation says and the code does not do.                   *)

\* "A job's provider process does not survive a daemon restart": once the
\* reaper of a new incarnation is done, no provider runs without a task.
NoProviderSurvivesRestart ==
  phase = "up" /\ (\A j \in Jobs : reap[j] = "none") =>
    \A j \in Jobs : proc[j] = "leader" => HasTask(j)

-----------------------------------------------------------------------------
(* Liveness.  The event loop runs every ready task, the scheduler loops, the *)
(* reaper and the shutdown run to their end and launchd starts the daemon    *)
(* again; nothing is assumed of callers, of providers or of crashes.         *)

DaemonFairness ==
  /\ \A j \in Jobs : WF_vars(TaskStep(j)) /\ WF_vars(KillGroup(j)) /\ WF_vars(ReapStep(j))
  /\ WF_vars(Scan) /\ WF_vars(Start) /\ WF_vars(Shutdown)

\* The environment ends the descendants that hold a pipe, and the pipe of a
\* group that is gone is broken: drain() waits for a live provider only.
FairSpec ==
  /\ Spec
  /\ DaemonFairness
  /\ \A j \in Jobs : WF_vars(DescendantExits(j)) /\ WF_vars(proc[j] = "dead" /\ Fed(j))

\* Deadlines pass, which only the properties that need it assume.
InTime == \A j \in Jobs : WF_vars(DeadlinePasses(j))

Over(j) == status[j] \in Terminal \cup {"pruned"}

\* A provider that runs and does not read its prompt.
Unfed(j) == stage[j] = "feeding" /\ proc[j] = "leader"

\* A task left behind by a failed cleanup outlived its row.
Wedged == \E j \in Jobs : HasTask(j) /\ status[j] = "pruned"

\* Every accepted job reaches a verdict, also through restarts and crashes and
\* when its provider is no longer supported, except where the program has
\* nothing left that would end the wait: a provider that never reads its prompt,
\* and a scheduler none of whose passes gets through any more.
AcceptedJobsFinish ==
  InTime => \A j \in Jobs : status[j] = "queued" ~> (Over(j) \/ []Unfed(j) \/ []Wedged)

\* A slot is always given back, whatever became of job and daemon, with the two
\* exceptions of a prompt that is never read and of a cleanup that raised.
SlotsAreReturned ==
  InTime => \A j \in Jobs :
    HasTask(j) ~> (~HasTask(j) \/ []Unfed(j) \/ stage[j] = "leaked")

\* A cancelled job ends unless it is still being fed, and a queued job of a
\* provider that a release removed fails as long as passes get through, without
\* help from deadlines or from the provider: neither waits for its time or
\* stalls the queue.
EndsUnaided ==
  \A j \in Jobs :
    /\ j \in cancelReq ~> (Over(j) \/ []Unfed(j))
    /\ status[j] = "queued" /\ ProviderOf[j] \notin Supported ~> (Over(j) \/ []Wedged)
=============================================================================
