------------------------- MODULE JobSupervisorProofs -------------------------
(***************************************************************************)
(* Theorems about JobSupervisor, for every number of jobs and incarnations, *)
(* every assignment of jobs to providers and every concurrency limit.       *)
(***************************************************************************)
EXTENDS JobSupervisorRefines, FiniteSetTheorems, WellFoundedInduction, TLAPS

-----------------------------------------------------------------------------
(* Type correctness.                                                       *)

\* The bound on incarnations is a positive number.
LEMMA StartsBound == MaxStarts \in Nat /\ MaxStarts # 0
BY ConstantsAssumption DEF ConstantsAssumption

\* The initial state is well typed.
LEMMA InitTyped == Init => TypeOK
<1> SUFFICES ASSUME Init PROVE TypeOK
  OBVIOUS
<1>1. starts = 0
  BY DEF Init
<1>2. starts \in 0..MaxStarts
  BY <1>1, StartsBound
<1> QED
  BY <1>2 DEF Init, TypeOK, Status, Kind, Stage, Proc, Phase

\* The columns a terminal update writes.
RowsTyped ==
  /\ status \in [Jobs -> Status]
  /\ kind \in [Jobs -> Kind]
  /\ delivery \in [Jobs -> {"none", "unacked", "acked"}]
  /\ late \in SUBSET Jobs

\* A terminal update of one row keeps the columns typed.
LEMMA FinishTyped ==
  ASSUME TypeOK, NEW j \in Jobs, NEW s \in Status, NEW k \in Kind, Finish(j, s, k)
  PROVE  RowsTyped'
BY DEF TypeOK, RowsTyped, Finish, Delivered

\* So does the update of every in-flight row at a start or a shutdown.
LEMMA InterruptTyped ==
  ASSUME TypeOK, NEW k \in Kind, InterruptInFlight(k)
  PROVE  RowsTyped'
<1>1. "interrupted" \in Status
  BY DEF Status, Terminal
<1> QED
  BY <1>1 DEF TypeOK, RowsTyped, InterruptInFlight, Delivered

\* The values that terminal updates write.
LEMMA WrittenValues ==
  /\ {"failed", "cancelled", "interrupted", "completed"} \subseteq Status
  /\ {"cancelled", "queue_timeout", "launch_error", "supervisor_shutdown", "supervisor_restart"} \subseteq Kind
BY DEF Status, Terminal, Kind

\* The last update of _run_job writes a status and a failure kind.
LEMMA VerdictTyped ==
  ASSUME TypeOK, NEW j \in Jobs, NEW limited \in BOOLEAN
  PROVE  /\ StatusOf(Verdict(j, limited)) \in {"completed", "cancelled", "failed"}
         /\ KindOf(Verdict(j, limited)) \in Kind
<1>1. outcome[j] \in {"completed", "cancelled", "timeout", "output_capture"}
  BY DEF TypeOK
<1>2. Verdict(j, limited) \in
        {"completed", "cancelled", "timeout", "output_capture", "rate_limit", "provider_exit"}
  BY <1>1 DEF Verdict
<1> QED
  BY <1>2 DEF StatusOf, KindOf, Kind

\* Requests keep the state well typed.
LEMMA RequestTyped == ASSUME TypeOK, NEW j \in Jobs, Request(j) PROVE TypeOK'
<1>1. CASE Submit(j)
  BY <1>1 DEF Submit, TypeOK, Status, localVars, daemonVars
<1>2. CASE Cancel(j)
  BY <1>2 DEF Cancel, CancelFinishes, Finish, Delivered, TypeOK, Status, Kind, Terminal, localVars, daemonVars
<1>3. CASE Acknowledge(j)
  BY <1>3 DEF Acknowledge, TypeOK, localVars, daemonVars
<1> QED BY <1>1, <1>2, <1>3 DEF Request

\* A pass of the scheduler keeps the state well typed.
LEMMA ScheduleTyped ==
  ASSUME TypeOK, NEW eff, NEW old \in SUBSET Prunable, Schedule(eff, old) PROVE TypeOK'
BY DEF Schedule, TypeOK, Status, Kind, Stage, Terminal, InFlight, Delivered, localVars, daemonVars

\* So does a pass that raises.
LEMMA PassFailsTyped ==
  ASSUME TypeOK, NEW old \in SUBSET Prunable, PassFails(old) PROVE TypeOK'
BY DEF PassFails, TypeOK, Status, Kind, localVars, daemonVars

\* Every step of a task keeps the state well typed.
LEMMA TaskTyped == ASSUME TypeOK, NEW j \in Jobs, TaskStep(j) PROVE TypeOK'
<1>1. CASE Begin(j)
  <2>1. RowsTyped'
    <3>1. CASE UNCHANGED <<status, kind, delivery, late>>
      BY <3>1 DEF RowsTyped, TypeOK
    <3>2. CASE Finish(j, "cancelled", "cancelled")
      BY <3>2, FinishTyped, WrittenValues
    <3>3. CASE Finish(j, "failed", "queue_timeout")
      BY <3>3, FinishTyped, WrittenValues
    <3> QED BY <1>1, <3>1, <3>2, <3>3 DEF Begin
  <2>2. stage' = [stage EXCEPT ![j] = "cleanup"] \/ stage' = [stage EXCEPT ![j] = "building"]
    BY <1>1 DEF Begin
  <2>3. stage' \in [Jobs -> Stage]
    BY <2>2 DEF TypeOK, Stage
  <2> QED BY <1>1, <2>1, <2>3 DEF Begin, RowsTyped, TypeOK, localVars, daemonVars
<1>2. CASE Spawn(j)
  BY <1>2 DEF Spawn, TypeOK, Stage, Proc, rowVars, localVars, daemonVars
<1>3. CASE BuildFails(j)
  <2>1. RowsTyped'
    BY <1>3, FinishTyped, WrittenValues DEF BuildFails
  <2> QED BY <1>3, <2>1 DEF BuildFails, RowsTyped, TypeOK, Stage, localVars, daemonVars
<1>4. CASE Probed(j)
  <2>1. CASE LaunchRevoked(j)
    BY <1>4, <2>1 DEF Probed, TypeOK, Stage, Terminating, localVars, daemonVars
  <2>2. CASE ~LaunchRevoked(j)
    BY <1>4, <2>2 DEF Probed, TypeOK, Status, InFlight, Stage, localVars, daemonVars
  <2> QED BY <2>1, <2>2
<1>5. CASE Aborted(j)
  <2>1. RowsTyped'
    BY <1>5, FinishTyped, WrittenValues DEF Aborted
  <2> QED BY <1>5, <2>1 DEF Aborted, RowsTyped, TypeOK, Stage, localVars, daemonVars
<1>6. CASE Errored(j)
  <2>1. RowsTyped'
    BY <1>6, FinishTyped, WrittenValues DEF Errored
  <2> QED BY <1>6, <2>1 DEF Errored, RowsTyped, TypeOK, Stage, localVars, daemonVars
<1>7. CASE Watch(j)
  BY <1>7 DEF Watch, WatchVerdict, TypeOK, Stage, Terminating, rowVars, daemonVars
<1>8. CASE Terminated(j)
  BY <1>8 DEF Terminated, TypeOK, Stage, rowVars, localVars, daemonVars
<1>9. ASSUME NEW limited \in BOOLEAN, Collected(j, limited) PROVE TypeOK'
  <2>1. RowsTyped'
    BY <1>9, FinishTyped, VerdictTyped, WrittenValues DEF Collected
  <2> QED BY <1>9, <2>1 DEF Collected, RowsTyped, TypeOK, Stage, localVars, daemonVars
<1>10. CASE Unwound(j)
  <2>1. RowsTyped'
    BY <1>10, FinishTyped, WrittenValues DEF Unwound
  <2> QED BY <1>10, <2>1 DEF Unwound, RowsTyped, TypeOK, Stage, localVars, daemonVars
<1>11. CASE Cleanup(j) \/ CleanupFails(j)
  BY <1>11 DEF Cleanup, CleanupFails, Forget, TypeOK, Stage, rowVars, daemonVars
<1> QED BY <1>1, <1>2, <1>3, <1>4, <1>5, <1>6, <1>7, <1>8, <1>9, <1>10, <1>11 DEF TaskStep

\* So do the failures of a task, the provider, the clock and the reaper.
LEMMA EnvironmentTyped ==
  ASSUME TypeOK, NEW j \in Jobs,
         \/ Fed(j) \/ Raise(j) \/ Exits(j) \/ DescendantExits(j) \/ KillGroup(j)
         \/ CaptureFails(j) \/ DeadlinePasses(j) \/ ReapStep(j)
  PROVE  TypeOK'
<1>1. CASE Fed(j) \/ Raise(j)
  BY <1>1 DEF Fed, Raise, TypeOK, Stage, Terminating, rowVars, localVars, daemonVars
<1>2. CASE Exits(j)
  BY <1>2 DEF Exits, ProviderExits, TypeOK, Proc, rowVars, daemonVars
<1>3. CASE DescendantExits(j) \/ KillGroup(j)
  BY <1>3 DEF DescendantExits, KillGroup, TypeOK, Proc, rowVars, localVars, daemonVars
<1>4. CASE CaptureFails(j)
  BY <1>4 DEF CaptureFails, TypeOK, rowVars, daemonVars
<1>5. CASE DeadlinePasses(j)
  BY <1>5 DEF DeadlinePasses, TypeOK, localVars, daemonVars
<1>6. CASE ReapStep(j)
  BY <1>6 DEF ReapStep, ReapProbe, ReapKill, TypeOK, Proc, rowVars, localVars
<1> QED BY <1>1, <1>2, <1>3, <1>4, <1>5, <1>6

\* So do the start, the shutdown and the crash of the daemon.
LEMMA DaemonTyped ==
  ASSUME TypeOK, Start \/ Close \/ Shutdown \/ Crash
  PROVE  TypeOK'
<1>1. CASE Start
  <2>1. RowsTyped'
    BY <1>1, InterruptTyped, WrittenValues DEF Start
  <2>2. starts' \in 0..MaxStarts
    BY <1>1, StartsBound DEF Start, TypeOK
  <2> QED BY <1>1, <2>1, <2>2 DEF Start, RowsTyped, TypeOK, Phase, localVars
<1>2. CASE Close
  BY <1>2 DEF Close, TypeOK, Phase, rowVars, localVars
<1>3. CASE MarkShutdown
  <2>1. RowsTyped'
    BY <1>3, InterruptTyped, WrittenValues DEF MarkShutdown
  <2> QED BY <1>3, <2>1 DEF MarkShutdown, RowsTyped, TypeOK, Phase, localVars
<1>4. CASE CancelTasks
  <2>1. stage' \in [Jobs -> Stage]
    BY <1>4 DEF CancelTasks, CancelledStage, Stage, Terminating
  <2> QED BY <1>4, <2>1 DEF CancelTasks, Forget, TypeOK, Phase, rowVars
<1>5. CASE Exit
  BY <1>5 DEF Exit, TypeOK, Phase, Stage, rowVars, localVars
<1>6. CASE Crash
  BY <1>6 DEF Crash, Forget, TypeOK, Phase, Stage, rowVars
<1> QED BY <1>1, <1>2, <1>3, <1>4, <1>5, <1>6 DEF Shutdown

\* Type correctness is inductive.
LEMMA NextTyped == TypeOK /\ [Next]_vars => TypeOK'
<1> SUFFICES ASSUME TypeOK, [Next]_vars PROVE TypeOK'
  OBVIOUS
<1>1. ASSUME NEW j \in Jobs, Request(j) \/ TaskStep(j) PROVE TypeOK'
  BY <1>1, RequestTyped, TaskTyped
<1>2. CASE Scan
  BY <1>2, ScheduleTyped, PassFailsTyped DEF Scan
<1>3. CASE UNCHANGED vars
  BY <1>3 DEF TypeOK, vars, rowVars, localVars, daemonVars
<1> QED BY <1>1, <1>2, <1>3, EnvironmentTyped, DaemonTyped DEF Next

\* Every variable of the daemon keeps its type.
THEOREM TypeCorrect == Spec => []TypeOK
BY InitTyped, NextTyped, PTL DEF Spec

-----------------------------------------------------------------------------
(* The inductive invariant.                                                *)

\* What IndInv says of one job.
JobInv(j) ==
  /\ StageMatchesRow(j) /\ ProcessMatchesRow(j) /\ KindMatchesRow(j) /\ TaskMatchesDaemon(j)
  /\ Serving => /\ status[j] = "launching" =>
                     stage[j] \in {"created", "building", "spawned", "aborting", "erroring"}
                /\ status[j] = "running" =>
                     stage[j] \in {"feeding", "watching", "terminating", "collecting", "erroring"}
  /\ status[j] \in {"completed", "failed", "cancelled"} => proc[j] # "leader"
  /\ status[j] = "completed" /\ stage[j] = "cleanup" => j \in exitZero /\ j \notin lost
  /\ kind[j] = "queue_timeout" => proc[j] = "none"
  /\ kind[j] \in {"timeout", "output_capture", "provider_exit", "rate_limit"} => j \in pgid
  /\ (delivery[j] # "none") <=> (j \in Owned /\ status[j] \in Terminal)

\* IndInv is type correctness and JobInv for every job.
LEMMA IndInvByJob == IndInv <=> TypeOK /\ \A j \in Jobs : JobInv(j)
BY DEF IndInv, JobInv, InFlightRowsAreOwned, VerdictMeansStopped, CompletedMeansCaptured,
       FailureKindIsTrue, DeliveryMatchesOutcome

\* The initial state satisfies it.
LEMMA InitInvariant == Init => IndInv
<1> SUFFICES ASSUME Init PROVE IndInv
  OBVIOUS
<1>1. ASSUME NEW j \in Jobs PROVE JobInv(j)
  BY DEF Init, JobInv, StageMatchesRow, ProcessMatchesRow, KindMatchesRow, TaskMatchesDaemon,
         Serving, HasTask, Terminal, InFlight
<1> QED BY <1>1, InitTyped, IndInvByJob

\* Nothing that JobInv speaks of changes for job i.
Same(i) ==
  /\ status'[i] = status[i] /\ kind'[i] = kind[i]
  /\ (delivery'[i] # "none") <=> (delivery[i] # "none")
  /\ stage'[i] = stage[i] /\ proc'[i] = proc[i] /\ reap'[i] = reap[i] /\ phase' = phase
  /\ i \in pgid' <=> i \in pgid
  /\ i \in exitZero' <=> i \in exitZero
  /\ i \in lost' <=> i \in lost

\* A step that leaves a job alone keeps what is known of it.
LEMMA Frame == ASSUME NEW i \in Jobs, JobInv(i), Same(i) PROVE JobInv(i)'
<1>1. StageMatchesRow(i)' /\ ProcessMatchesRow(i)'
  BY DEF Same, JobInv, StageMatchesRow, ProcessMatchesRow, Terminal
<1>2. KindMatchesRow(i)' /\ TaskMatchesDaemon(i)'
  BY DEF Same, JobInv, KindMatchesRow, TaskMatchesDaemon, Terminal, InFlight
<1> QED
  BY <1>1, <1>2 DEF Same, JobInv, Serving, HasTask, Terminal

\* A task that gives its row a verdict and goes to its cleanup.
Concludes(j, s, k) ==
  /\ Finish(j, s, k)
  /\ stage[j] # "none"
  /\ stage' = [stage EXCEPT ![j] = "cleanup"]
  /\ UNCHANGED <<cancelReq, pgid, localVars, proc, daemonVars>>

\* Every other job is left alone by it.
LEMMA ConcludesFrame ==
  ASSUME TypeOK, NEW j \in Jobs, NEW s, NEW k, Concludes(j, s, k), NEW i \in Jobs, i # j
  PROVE  Same(i)
BY DEF TypeOK, Concludes, Finish, Same, localVars, daemonVars

\* It keeps the invariant when the verdict is true and the process is gone.
LEMMA ConcludesKeeps ==
  ASSUME TypeOK, NEW j \in Jobs, JobInv(j), NEW s \in Terminal, NEW k \in Kind, Concludes(j, s, k),
         s = "interrupted" => k = "supervisor_shutdown",
         s # "interrupted" => proc[j] # "leader",
         s = "completed" => j \in exitZero /\ j \notin lost,
         k = "queue_timeout" => proc[j] = "none",
         k \in {"timeout", "output_capture", "provider_exit", "rate_limit"} => j \in pgid
  PROVE  JobInv(j)'
<1>1. /\ status'[j] = s /\ kind'[j] = k /\ stage'[j] = "cleanup"
      /\ proc'[j] = proc[j] /\ reap'[j] = reap[j] /\ phase' = phase
      /\ pgid' = pgid /\ exitZero' = exitZero /\ lost' = lost
      /\ delivery'[j] = IF j \in Owned /\ delivery[j] = "none" THEN "unacked" ELSE delivery[j]
  BY DEF TypeOK, Concludes, Finish, Delivered, localVars, daemonVars
<1>2. reap[j] = "none" /\ phase # "down" /\ status[j] \notin {"none", "queued"}
  BY DEF Concludes, JobInv, TaskMatchesDaemon, ProcessMatchesRow, TypeOK
<1>3. (delivery[j] # "none") => j \in Owned
  BY DEF JobInv
<1>4. StageMatchesRow(j)' /\ ProcessMatchesRow(j)' /\ TaskMatchesDaemon(j)'
  BY <1>1, <1>2 DEF StageMatchesRow, ProcessMatchesRow, TaskMatchesDaemon, Terminal, InFlight
<1>5. KindMatchesRow(j)'
  BY <1>1 DEF KindMatchesRow
<1> QED
  BY <1>1, <1>2, <1>3, <1>4, <1>5 DEF JobInv, Terminal, Serving, HasTask

\* Requests keep the invariant.
LEMMA RequestKeeps ==
  ASSUME TypeOK, NEW i \in Jobs, JobInv(i), NEW j \in Jobs, JobInv(j), Request(j)
  PROVE  JobInv(i)'
<1>1. CASE i # j
  <2>1. Same(i)
    BY <1>1 DEF Request, Submit, Cancel, CancelFinishes, Acknowledge, Finish, Same, TypeOK, localVars, daemonVars
  <2> QED BY <2>1, Frame
<1>2. CASE i = j /\ Submit(j)
  BY <1>2 DEF Submit, JobInv, StageMatchesRow, ProcessMatchesRow, KindMatchesRow, TaskMatchesDaemon,
       Serving, HasTask, TypeOK, Terminal, InFlight, localVars, daemonVars
<1>3. CASE i = j /\ Cancel(j) /\ ~CancelFinishes(j)
  <2>1. Same(i)
    BY <1>3 DEF Cancel, Same, localVars, daemonVars
  <2> QED BY <2>1, Frame
<1>4. CASE i = j /\ Cancel(j) /\ CancelFinishes(j)
  <2>1. /\ status'[j] = "cancelled" /\ kind'[j] = "cancelled" /\ stage'[j] = "none" /\ proc'[j] = "none"
        /\ reap'[j] = reap[j] /\ phase' = phase /\ reap[j] = "none"
        /\ delivery'[j] = IF j \in Owned /\ delivery[j] = "none" THEN "unacked" ELSE delivery[j]
    BY <1>4 DEF TypeOK, Cancel, CancelFinishes, Finish, Delivered, localVars, daemonVars, JobInv,
                ProcessMatchesRow, TaskMatchesDaemon, Terminal
  <2>2. delivery[j] = "none"
    BY <1>4 DEF CancelFinishes, JobInv, Terminal
  <2> QED
    BY <1>4, <2>1, <2>2 DEF JobInv, StageMatchesRow, ProcessMatchesRow, KindMatchesRow, TaskMatchesDaemon,
        Serving, HasTask, Terminal, InFlight
<1>5. CASE i = j /\ Acknowledge(j)
  <2>1. delivery[j] # "none" /\ delivery'[j] # "none"
    BY <1>5 DEF Acknowledge, TypeOK
  <2>2. Same(i)
    BY <1>5, <2>1 DEF Acknowledge, Same, localVars, daemonVars
  <2> QED BY <2>2, Frame
<1> QED BY <1>1, <1>2, <1>3, <1>4, <1>5 DEF Request

\* Every step of a task keeps the invariant.
LEMMA TaskKeeps ==
  ASSUME TypeOK, NEW i \in Jobs, JobInv(i), NEW j \in Jobs, JobInv(j), TaskStep(j)
  PROVE  JobInv(i)'
<1> DEFINE Own == Begin(j) \/ Spawn(j) \/ Probed(j) \/ Watch(j) \/ Terminated(j)
               \/ Cleanup(j) \/ CleanupFails(j)
<1>1. ASSUME NEW s \in Terminal, NEW k \in Kind, Concludes(j, s, k),
             s = "interrupted" => k = "supervisor_shutdown",
             s # "interrupted" => proc[j] # "leader",
             s = "completed" => j \in exitZero /\ j \notin lost,
             k = "queue_timeout" => proc[j] = "none",
             k \in {"timeout", "output_capture", "provider_exit", "rate_limit"} => j \in pgid
      PROVE  JobInv(i)'
  <2>1. CASE i = j
    BY <1>1, <2>1, ConcludesKeeps
  <2>2. CASE i # j
    BY <1>1, <2>2, ConcludesFrame, Frame
  <2> QED BY <2>1, <2>2
<1>2. CASE BuildFails(j) \/ Aborted(j) \/ Errored(j) \/ Unwound(j)
  <2>1. CASE BuildFails(j)
    <3>1. Concludes(j, "failed", "launch_error") /\ proc[j] = "none"
      BY <2>1 DEF BuildFails, Concludes, JobInv, ProcessMatchesRow
    <3> QED BY <1>1, <3>1 DEF Terminal, Kind
  <2>2. CASE Aborted(j)
    <3>1. Concludes(j, "cancelled", "cancelled") /\ proc[j] # "leader"
      BY <2>2 DEF Aborted, Concludes, Stopped
    <3> QED BY <1>1, <3>1 DEF Terminal, Kind
  <2>3. CASE Errored(j)
    <3>1. Concludes(j, "failed", "launch_error") /\ proc[j] # "leader"
      BY <2>3 DEF Errored, Concludes, Stopped
    <3> QED BY <1>1, <3>1 DEF Terminal, Kind
  <2>4. CASE Unwound(j)
    <3>1. Concludes(j, "interrupted", "supervisor_shutdown")
      BY <2>4 DEF Unwound, Concludes
    <3> QED BY <1>1, <3>1 DEF Terminal, Kind
  <2> QED BY <1>2, <2>1, <2>2, <2>3, <2>4
<1>3. ASSUME NEW limited \in BOOLEAN, Collected(j, limited) PROVE JobInv(i)'
  <2> DEFINE v == Verdict(j, limited)
  <2>1. Concludes(j, StatusOf(v), KindOf(v)) /\ proc[j] # "leader" /\ j \in pgid
    BY <1>3 DEF Collected, Concludes, JobInv, ProcessMatchesRow
  <2>2. StatusOf(v) \in {"completed", "cancelled", "failed"} /\ KindOf(v) \in Kind
    BY VerdictTyped
  <2>3. v # "queue_timeout" /\ v # ""
    BY DEF Verdict, TypeOK
  <2>4. v = "completed" => j \in exitZero /\ j \notin lost
    BY DEF Verdict
  <2>5. StatusOf(v) = "completed" => v = "completed"
    BY DEF StatusOf
  <2>6. KindOf(v) # "queue_timeout"
    BY <2>3 DEF KindOf
  <2> HIDE DEF v
  <2> QED BY <1>1, <2>1, <2>2, <2>4, <2>5, <2>6 DEF Terminal
<1>4. CASE Own /\ i # j
  <2>1. Same(i)
    BY <1>4 DEF Begin, Spawn, Probed, Watch, Terminated, Cleanup, CleanupFails, Forget, Finish, Same, TypeOK,
                rowVars, localVars, daemonVars
  <2> QED BY <2>1, Frame
<1>5. CASE Begin(j) /\ i = j
  <2>1. stage[j] = "created" /\ proc[j] = "none" /\ status[j] \in {"launching", "interrupted"}
    BY <1>5 DEF Begin, JobInv, StageMatchesRow, ProcessMatchesRow
  <2>2. CASE Finish(j, "cancelled", "cancelled") /\ stage' = [stage EXCEPT ![j] = "cleanup"]
    <3>1. Concludes(j, "cancelled", "cancelled")
      BY <1>5, <2>1, <2>2 DEF Begin, Concludes
    <3> QED BY <1>1, <2>1, <3>1 DEF Terminal, Kind
  <2>3. CASE Finish(j, "failed", "queue_timeout") /\ stage' = [stage EXCEPT ![j] = "cleanup"]
    <3>1. Concludes(j, "failed", "queue_timeout")
      BY <1>5, <2>1, <2>3 DEF Begin, Concludes
    <3> QED BY <1>1, <2>1, <3>1 DEF Terminal, Kind
  <2>4. CASE /\ UNCHANGED <<status, kind, delivery, late>>
             /\ \/ status[j] # "launching" /\ stage' = [stage EXCEPT ![j] = "cleanup"]
                \/ status[j] = "launching" /\ stage' = [stage EXCEPT ![j] = "building"]
    <3>1. UNCHANGED <<status, kind, delivery, pgid, localVars, proc, daemonVars>>
      BY <1>5, <2>4 DEF Begin
    <3>2. CASE status[j] = "launching"
      <4>1. stage'[j] = "building"
        BY <2>4, <3>2 DEF TypeOK
      <4> QED
        BY <1>5, <2>1, <3>1, <3>2, <4>1 DEF JobInv, StageMatchesRow, ProcessMatchesRow, KindMatchesRow,
             TaskMatchesDaemon, Serving, HasTask, Terminal, InFlight, localVars, daemonVars
    <3>3. CASE status[j] = "interrupted"
      <4>1. stage'[j] = "cleanup"
        BY <2>4, <3>3 DEF TypeOK
      <4> QED
        BY <1>5, <2>1, <3>1, <3>3, <4>1 DEF JobInv, StageMatchesRow, ProcessMatchesRow, KindMatchesRow,
             TaskMatchesDaemon, Serving, HasTask, Terminal, InFlight, localVars, daemonVars
    <3> QED BY <2>1, <3>2, <3>3
  <2> QED BY <1>5, <2>2, <2>3, <2>4 DEF Begin
<1>6. CASE Spawn(j) /\ i = j
  BY <1>6 DEF TypeOK, JobInv, StageMatchesRow, ProcessMatchesRow, KindMatchesRow, TaskMatchesDaemon,
         Serving, HasTask, Terminal, InFlight, Spawn, rowVars, localVars, daemonVars
<1>7. CASE Probed(j) /\ i = j
  <2>1. CASE LaunchRevoked(j)
    BY <1>7, <2>1 DEF TypeOK, JobInv, StageMatchesRow, ProcessMatchesRow, KindMatchesRow, TaskMatchesDaemon,
         Serving, HasTask, Terminal, InFlight, Probed, localVars, daemonVars
  <2>2. CASE ~LaunchRevoked(j)
    <3>1. /\ stage[j] = "spawned" /\ status[j] = "launching"
          /\ stage'[j] = "feeding" /\ status'[j] = "running" /\ j \in pgid'
          /\ UNCHANGED <<kind, delivery, localVars, proc, daemonVars>>
      BY <1>7, <2>2 DEF Probed, LaunchRevoked, TypeOK
    <3> QED
      BY <1>7, <3>1 DEF JobInv, StageMatchesRow, ProcessMatchesRow, KindMatchesRow, TaskMatchesDaemon,
           Serving, HasTask, Terminal, InFlight, localVars, daemonVars
  <2> QED BY <2>1, <2>2
<1>8. CASE Watch(j) /\ i = j
  <2>1. /\ stage[j] = "watching" /\ UNCHANGED <<rowVars, exitZero, lost, proc, daemonVars>>
        /\ \/ stage'[j] = "terminating"
           \/ stage'[j] = "collecting" /\ proc[j] # "leader"
    BY <1>8 DEF Watch, Stopped, TypeOK
  <2> QED
    BY <1>8, <2>1 DEF TypeOK, JobInv, StageMatchesRow, ProcessMatchesRow, KindMatchesRow, TaskMatchesDaemon,
         Serving, HasTask, Terminal, InFlight, Proc, rowVars, daemonVars
<1>9. CASE Terminated(j) /\ i = j
  BY <1>9 DEF TypeOK, JobInv, StageMatchesRow, ProcessMatchesRow, KindMatchesRow, TaskMatchesDaemon,
         Serving, HasTask, Terminal, InFlight, Terminated, Stopped, Proc, rowVars, localVars, daemonVars
<1>10. CASE (Cleanup(j) \/ CleanupFails(j)) /\ i = j
  <2>1. /\ stage[j] = "cleanup" /\ stage'[j] \in {"none", "leaked"}
        /\ UNCHANGED <<rowVars, proc, daemonVars>>
    BY <1>10 DEF Cleanup, CleanupFails, TypeOK
  <2> QED
    BY <1>10, <2>1 DEF JobInv, StageMatchesRow, ProcessMatchesRow, KindMatchesRow, TaskMatchesDaemon,
         Serving, Terminal, InFlight, rowVars, daemonVars
<1> QED BY <1>2, <1>3, <1>4, <1>5, <1>6, <1>7, <1>8, <1>9, <1>10 DEF TaskStep

\* The failures of a task, the provider, the clock and the reaper keep it.
LEMMA EnvironmentKeeps ==
  ASSUME TypeOK, NEW i \in Jobs, JobInv(i), NEW j \in Jobs, JobInv(j),
         \/ Fed(j) \/ Raise(j) \/ Exits(j) \/ DescendantExits(j) \/ KillGroup(j)
         \/ CaptureFails(j) \/ DeadlinePasses(j) \/ ReapStep(j)
  PROVE  JobInv(i)'
<1>1. CASE i # j
  <2>1. Same(i)
    BY <1>1 DEF Fed, Raise, Exits, ProviderExits, DescendantExits, KillGroup, CaptureFails, DeadlinePasses,
                ReapStep, ReapProbe, ReapKill, Same, TypeOK, rowVars, localVars, daemonVars
  <2> QED BY <2>1, Frame
<1>2. CASE i = j /\ (Fed(j) \/ Raise(j))
  BY <1>2 DEF TypeOK, JobInv, StageMatchesRow, ProcessMatchesRow, KindMatchesRow, TaskMatchesDaemon,
         Serving, HasTask, Terminal, InFlight, Fed, Raise, rowVars, localVars, daemonVars
<1>3. CASE i = j /\ (Exits(j) \/ DescendantExits(j) \/ KillGroup(j) \/ ReapKill(j))
  <2>1. /\ proc[j] # "none" /\ proc'[j] \in {"descendant", "dead"}
        /\ reap'[j] \in {reap[j], "none"}
        /\ j \in exitZero => j \in exitZero'
        /\ UNCHANGED <<rowVars, stage, lost, phase>>
    BY <1>3 DEF Exits, ProviderExits, DescendantExits, KillGroup, ReapKill, TypeOK, JobInv,
                TaskMatchesDaemon, daemonVars, localVars
  <2>2. stage[j] \notin {"created", "building"} /\ status[j] \notin {"none", "queued"}
        /\ kind[j] # "queue_timeout"
    BY <2>1 DEF JobInv, ProcessMatchesRow
  <2>3. StageMatchesRow(j)' /\ ProcessMatchesRow(j)'
    BY <2>1, <2>2 DEF StageMatchesRow, ProcessMatchesRow, JobInv, rowVars
  <2>4. KindMatchesRow(j)' /\ TaskMatchesDaemon(j)'
    BY <2>1 DEF KindMatchesRow, TaskMatchesDaemon, JobInv, rowVars
  <2> QED
    BY <1>3, <2>1, <2>2, <2>3, <2>4 DEF JobInv, Serving, HasTask, Terminal, rowVars
<1>4. CASE i = j /\ CaptureFails(j)
  BY <1>4 DEF TypeOK, JobInv, StageMatchesRow, ProcessMatchesRow, KindMatchesRow, TaskMatchesDaemon,
         Serving, HasTask, Terminal, InFlight, CaptureFails, rowVars, daemonVars
<1>5. CASE i = j /\ DeadlinePasses(j)
  <2>1. Same(i)
    BY <1>5 DEF DeadlinePasses, Same, localVars, daemonVars
  <2> QED BY <2>1, Frame
<1>6. CASE i = j /\ ReapProbe(j)
  <2>1. /\ reap[j] = "probe" /\ reap'[j] \in {"none", "grace"}
        /\ reap'[j] = "grace" => proc[j] # "none"
        /\ UNCHANGED <<rowVars, stage, localVars, proc, phase>>
    BY <1>6 DEF ReapProbe, TypeOK
  <2> QED
    BY <1>6, <2>1 DEF JobInv, StageMatchesRow, ProcessMatchesRow, KindMatchesRow, TaskMatchesDaemon,
         Serving, HasTask, Terminal, InFlight, rowVars, localVars
<1> QED BY <1>1, <1>2, <1>3, <1>4, <1>5, <1>6 DEF ReapStep

\* A pass of the scheduler keeps the invariant.
LEMMA ScheduleKeeps ==
  ASSUME TypeOK, NEW i \in Jobs, JobInv(i), NEW eff, NEW old \in SUBSET Prunable, Schedule(eff, old)
  PROVE  JobInv(i)'
<1>1. CASE i \in old
  <2>1. /\ status[i] \in Terminal /\ stage[i] = "none"
        /\ i \notin Claimed(eff) /\ i \notin Expired /\ i \notin Unsupported
    BY <1>1 DEF Schedule, Blocked, Prunable, HasTask, Claimed, Eligible, Expired, Unsupported, Terminal
  <2>2. /\ status'[i] = "pruned" /\ kind'[i] = "" /\ delivery'[i] = "none" /\ stage'[i] = stage[i]
        /\ UNCHANGED <<localVars, proc, daemonVars>>
    BY <1>1, <2>1 DEF Schedule
  <2>3. phase \in {"up", "closing"}
    BY DEF Schedule
  <2>4. StageMatchesRow(i)' /\ ProcessMatchesRow(i)' /\ KindMatchesRow(i)' /\ TaskMatchesDaemon(i)'
    BY <2>1, <2>2, <2>3 DEF StageMatchesRow, ProcessMatchesRow, KindMatchesRow, TaskMatchesDaemon,
         JobInv, Terminal, InFlight, daemonVars
  <2> QED
    BY <2>1, <2>2, <2>3, <2>4 DEF JobInv, Serving, HasTask, Terminal
<1>2. CASE i \notin old /\ i \in Expired \cup Unsupported
  <2>1. status[i] = "queued" /\ i \notin Claimed(eff)
    BY <1>2 DEF Expired, Unsupported, Claimed, Eligible
  <2>2. stage[i] = "none" /\ proc[i] = "none" /\ reap[i] = "none" /\ delivery[i] = "none" /\ phase # "down"
    BY <2>1 DEF JobInv, ProcessMatchesRow, TaskMatchesDaemon, Terminal, Schedule
  <2>3. /\ status'[i] = "failed" /\ kind'[i] \in {"queue_timeout", "launch_error"}
        /\ delivery'[i] = IF i \in Owned THEN "unacked" ELSE "none"
        /\ stage'[i] = "none"
        /\ UNCHANGED <<localVars, proc, daemonVars>>
    BY <1>2, <2>1, <2>2 DEF Schedule, Delivered
  <2> QED
    BY <2>1, <2>2, <2>3 DEF JobInv, StageMatchesRow, ProcessMatchesRow, KindMatchesRow, TaskMatchesDaemon,
         Serving, HasTask, Terminal, InFlight, localVars, daemonVars
<1>3. CASE i \in Claimed(eff)
  <2>1. status[i] = "queued" /\ i \notin Expired \cup Unsupported \cup old
    BY <1>3 DEF Claimed, Eligible, Prunable, Terminal
  <2>2. proc[i] = "none" /\ reap[i] = "none" /\ kind[i] = "" /\ phase \in {"up", "closing"}
    BY <2>1 DEF JobInv, ProcessMatchesRow, TaskMatchesDaemon, KindMatchesRow, Terminal, Schedule
  <2>3. /\ status'[i] = "launching" /\ kind'[i] = kind[i] /\ delivery'[i] = delivery[i]
        /\ stage'[i] = "created"
        /\ UNCHANGED <<localVars, proc, daemonVars>>
    BY <1>3, <2>1 DEF Schedule
  <2> QED
    BY <2>1, <2>2, <2>3 DEF JobInv, StageMatchesRow, ProcessMatchesRow, KindMatchesRow, TaskMatchesDaemon,
         Serving, HasTask, Terminal, InFlight, localVars, daemonVars
<1>4. CASE i \notin Expired \cup Unsupported \cup old \cup Claimed(eff)
  <2>1. Same(i)
    BY <1>4 DEF Schedule, Same, localVars, daemonVars
  <2> QED BY <2>1, Frame
<1> QED BY <1>1, <1>2, <1>3, <1>4

\* So does a pass that raises, although it may prune the row of a task.
LEMMA PassFailsKeeps ==
  ASSUME TypeOK, NEW i \in Jobs, JobInv(i), NEW old \in SUBSET Prunable, PassFails(old)
  PROVE  JobInv(i)'
<1>1. CASE i \in old
  <2>1. status[i] \in Terminal /\ phase \in {"up", "closing"}
    BY <1>1 DEF Prunable, PassFails
  <2>2. stage[i] \in {"none", "cleanup", "leaked"}
    BY <2>1 DEF JobInv, StageMatchesRow, TaskMatchesDaemon, Terminal, TypeOK, Stage, Terminating
  <2>3. /\ status'[i] = "pruned" /\ kind'[i] = "" /\ delivery'[i] = "none"
        /\ UNCHANGED <<stage, localVars, proc, daemonVars>>
    BY <1>1 DEF PassFails
  <2> QED
    BY <2>1, <2>2, <2>3 DEF JobInv, StageMatchesRow, ProcessMatchesRow, KindMatchesRow, TaskMatchesDaemon,
         Serving, Terminal, InFlight, daemonVars
<1>2. CASE i \notin old
  <2>1. Same(i)
    BY <1>2 DEF PassFails, Same, localVars, daemonVars
  <2> QED BY <2>1, Frame
<1> QED BY <1>1, <1>2

\* So do the start, the shutdown and the crash of the daemon.
LEMMA DaemonKeeps ==
  ASSUME TypeOK, NEW i \in Jobs, JobInv(i), Start \/ Close \/ Shutdown \/ Crash
  PROVE  JobInv(i)'
<1>1. ASSUME NEW k \in {"supervisor_shutdown", "supervisor_restart"}, InterruptInFlight(k)
      PROVE  /\ i \in Interruptible =>
                  status'[i] = "interrupted" /\ kind'[i] = k
                  /\ ((delivery'[i] # "none") <=> i \in Owned)
             /\ i \notin Interruptible =>
                  status'[i] = status[i] /\ kind'[i] = kind[i] /\ delivery'[i] = delivery[i]
  BY <1>1 DEF InterruptInFlight, Delivered, TypeOK, JobInv
<1>2. CASE Start
  <2>1. /\ stage[i] = "none" /\ phase' = "up"
        /\ reap'[i] = IF i \in Interruptible THEN "probe" ELSE "none"
        /\ UNCHANGED <<cancelReq, pgid, stage, localVars, proc>>
    BY <1>2 DEF Start, JobInv, TaskMatchesDaemon
  <2>2. CASE i \in Interruptible
    BY <1>1, <1>2, <2>1, <2>2 DEF Start, JobInv, StageMatchesRow, ProcessMatchesRow, KindMatchesRow, TaskMatchesDaemon,
         Serving, HasTask, Terminal, InFlight, localVars
  <2>3. CASE i \notin Interruptible
    BY <1>1, <1>2, <2>1, <2>3 DEF Start, Interruptible, JobInv, StageMatchesRow, ProcessMatchesRow, KindMatchesRow, TaskMatchesDaemon,
         Serving, HasTask, Terminal, InFlight, localVars
  <2> QED BY <2>2, <2>3
<1>3. CASE Close
  BY <1>3 DEF Close, JobInv, StageMatchesRow, ProcessMatchesRow, KindMatchesRow, TaskMatchesDaemon,
       Serving, HasTask, Terminal, InFlight, rowVars, localVars
<1>4. CASE MarkShutdown
  <2>1. /\ phase = "closing" /\ phase' = "draining" /\ reap'[i] = "none"
        /\ UNCHANGED <<cancelReq, pgid, stage, localVars, proc>>
    BY <1>4 DEF MarkShutdown
  <2>2. CASE i \in Interruptible
    BY <1>1, <1>4, <2>1, <2>2 DEF MarkShutdown, Interruptible, JobInv, StageMatchesRow, ProcessMatchesRow, KindMatchesRow, TaskMatchesDaemon,
         Serving, HasTask, Terminal, InFlight, localVars
  <2>3. CASE i \notin Interruptible
    BY <1>1, <1>4, <2>1, <2>3 DEF MarkShutdown, Interruptible, JobInv, StageMatchesRow, ProcessMatchesRow, KindMatchesRow, TaskMatchesDaemon,
         Serving, HasTask, Terminal, InFlight, localVars
  <2> QED BY <2>2, <2>3
<1>5. CASE CancelTasks
  <2>1. /\ phase = "draining" /\ phase' = "stopping" /\ stage'[i] = CancelledStage(stage[i])
        /\ status[i] \notin InFlight /\ reap[i] = "none"
        /\ UNCHANGED <<rowVars, proc, reap>>
    BY <1>5 DEF CancelTasks, JobInv, TaskMatchesDaemon
  <2>2. /\ stage'[i] \in {"none", "cleanup", "unwinding"}
        /\ stage'[i] = "cleanup" => stage[i] \in {"erroring", "unwinding"}
        /\ stage'[i] = "unwinding" => stage[i] \notin {"none", "created", "cleanup", "leaked"}
    BY <2>1 DEF CancelledStage
  <2>3. stage'[i] # "none" => status[i] = "interrupted" /\ proc[i] = proc'[i]
    BY <2>1, <2>2 DEF JobInv, StageMatchesRow, InFlight, TypeOK, Stage, Terminating
  <2>4. StageMatchesRow(i)' /\ KindMatchesRow(i)' /\ TaskMatchesDaemon(i)'
    BY <2>1, <2>2, <2>3 DEF StageMatchesRow, KindMatchesRow, TaskMatchesDaemon, JobInv,
         Terminal, InFlight, rowVars
  <2>5. ProcessMatchesRow(i)'
    BY <2>1, <2>2, <2>3 DEF ProcessMatchesRow, JobInv, rowVars
  <2> QED
    BY <2>1, <2>3, <2>4, <2>5 DEF JobInv, Serving, HasTask, Terminal, InFlight, rowVars
<1>6. CASE Exit
  BY <1>6 DEF Exit, HasTask, JobInv, StageMatchesRow, ProcessMatchesRow, KindMatchesRow, TaskMatchesDaemon,
       Serving, Terminal, InFlight, rowVars, localVars
<1>7. CASE Crash
  <2>1. /\ phase' = "down" /\ stage'[i] = "none" /\ reap'[i] = "none" /\ UNCHANGED <<rowVars, proc>>
    BY <1>7 DEF Crash
  <2> QED
    BY <2>1 DEF JobInv, StageMatchesRow, ProcessMatchesRow, KindMatchesRow, TaskMatchesDaemon,
       Serving, HasTask, Terminal, InFlight, rowVars
<1> QED BY <1>2, <1>3, <1>4, <1>5, <1>6, <1>7 DEF Shutdown

\* The inductive invariant is inductive.
LEMMA NextKeeps == IndInv /\ [Next]_vars => IndInv'
<1> SUFFICES ASSUME IndInv, [Next]_vars PROVE IndInv'
  OBVIOUS
<1>1. TypeOK /\ \A i \in Jobs : JobInv(i)
  BY IndInvByJob
<1>2. TypeOK'
  BY <1>1, NextTyped
<1>3. ASSUME NEW i \in Jobs PROVE JobInv(i)'
  <2>1. ASSUME NEW j \in Jobs, Request(j) \/ TaskStep(j) PROVE JobInv(i)'
    BY <1>1, <2>1, RequestKeeps, TaskKeeps
  <2>2. CASE Scan
    BY <1>1, <2>2, ScheduleKeeps, PassFailsKeeps DEF Scan
  <2>3. CASE UNCHANGED vars
    <3>1. Same(i)
      BY <2>3 DEF Same, vars, rowVars, localVars, daemonVars
    <3> QED BY <1>1, <3>1, Frame
  <2> QED BY <1>1, <2>1, <2>2, <2>3, EnvironmentKeeps, DaemonKeeps DEF Next
<1>4. IndInv' <=> TypeOK' /\ \A i \in Jobs : JobInv(i)'
  BY DEF IndInv, JobInv, InFlightRowsAreOwned, VerdictMeansStopped, CompletedMeansCaptured,
         FailureKindIsTrue, DeliveryMatchesOutcome
<1> QED BY <1>2, <1>3, <1>4

\* The rows, the tasks, the processes and the daemon always agree.
THEOREM InvariantHolds == Spec => []IndInv
BY InitInvariant, NextKeeps, PTL DEF Spec

\* While the daemon answers, every in-flight row has its task.
THEOREM RowsAreOwned == Spec => []InFlightRowsAreOwned
<1>1. IndInv => InFlightRowsAreOwned
  BY DEF IndInv
<1> QED BY <1>1, InvariantHolds, PTL

\* A verdict is given only once the provider is gone.
THEOREM VerdictsAreStopped == Spec => []VerdictMeansStopped
<1>1. IndInv => VerdictMeansStopped
  BY DEF IndInv
<1> QED BY <1>1, InvariantHolds, PTL

\* Inbox deliveries match the outcomes of owned jobs.
THEOREM DeliveriesMatch == Spec => []DeliveryMatchesOutcome
<1>1. IndInv => DeliveryMatchesOutcome
  BY DEF IndInv
<1> QED BY <1>1, InvariantHolds, PTL

\* Success is never claimed for lost output or a non-zero exit.
THEOREM CompletedIsCaptured == Spec => []CompletedMeansCaptured
<1>1. IndInv => CompletedMeansCaptured
  BY DEF IndInv
<1> QED BY <1>1, InvariantHolds, PTL

\* Failure kinds tell what happened.
THEOREM KindsAreTrue == Spec => []FailureKindIsTrue
<1>1. IndInv => FailureKindIsTrue
  BY DEF IndInv
<1> QED BY <1>1, InvariantHolds, PTL

-----------------------------------------------------------------------------
(* What a step may never do.                                               *)

\* A row that is terminal while its task still works was marked by a shutdown
\* that has not yet cancelled the task.
LEMMA ActiveTaskOfTerminalRow ==
  ASSUME NEW j \in Jobs, JobInv(j), TypeOK, status[j] \in Terminal,
         stage[j] \notin {"none", "cleanup", "leaked", "unwinding"}
  PROVE  status[j] = "interrupted" /\ phase = "draining"
BY DEF JobInv, StageMatchesRow, TaskMatchesDaemon, Terminal, TypeOK, Stage, Terminating

\* No step replaces a terminal status, except by pruning or in that stretch.
LEMMA TerminalStep ==
  ASSUME TypeOK, NEW i \in Jobs, JobInv(i), Next, status[i] \in Terminal, status'[i] # status[i]
  PROVE  status'[i] = "pruned" \/ (status[i] = "interrupted" /\ phase = "draining")
<1>1. ASSUME NEW j \in Jobs, Request(j)
      PROVE  FALSE
  BY <1>1 DEF Request, Submit, Cancel, CancelFinishes, Acknowledge, Finish, TypeOK, Terminal, InFlight
<1>2. ASSUME NEW j \in Jobs, TaskStep(j)
      PROVE  status[i] = "interrupted" /\ phase = "draining"
  <2>1. CASE Begin(j)
    BY <2>1 DEF Begin, Finish, TypeOK, Terminal
  <2>2. CASE Spawn(j) \/ Watch(j) \/ Terminated(j) \/ Cleanup(j) \/ CleanupFails(j)
    BY <2>2 DEF Spawn, Watch, Terminated, Cleanup, CleanupFails, rowVars
  <2>3. CASE Probed(j)
    <3>1. CASE LaunchRevoked(j)
      BY <2>3, <3>1 DEF Probed
    <3>2. CASE ~LaunchRevoked(j)
      BY <2>3, <3>2 DEF Probed, LaunchRevoked, TypeOK, Terminal
    <3> QED BY <3>1, <3>2
  <2>4. ASSUME NEW s, NEW k, Finish(j, s, k), stage[j] \in {"building", "aborting", "erroring", "collecting"}
        PROVE  status[i] = "interrupted" /\ phase = "draining"
    <3>1. i = j
      BY <2>4 DEF Finish, TypeOK
    <3> QED BY <2>4, <3>1, ActiveTaskOfTerminalRow
  <2>5. CASE BuildFails(j) \/ Aborted(j) \/ Errored(j)
    BY <2>4, <2>5 DEF BuildFails, Aborted, Errored
  <2>6. ASSUME NEW limited \in BOOLEAN, Collected(j, limited)
        PROVE  status[i] = "interrupted" /\ phase = "draining"
    BY <2>4, <2>6 DEF Collected
  <2>7. CASE Unwound(j)
    <3>1. i = j => status[i] = "interrupted"
      BY <2>7 DEF Unwound, JobInv, StageMatchesRow
    <3> QED BY <2>7, <3>1 DEF Unwound, Finish, TypeOK
  <2> QED BY <1>2, <2>1, <2>2, <2>3, <2>5, <2>6, <2>7 DEF TaskStep
<1>3. ASSUME NEW j \in Jobs,
             \/ Fed(j) \/ Raise(j) \/ Exits(j) \/ DescendantExits(j) \/ KillGroup(j)
             \/ CaptureFails(j) \/ DeadlinePasses(j) \/ ReapStep(j)
      PROVE  FALSE
  BY <1>3 DEF Fed, Raise, Exits, ProviderExits, DescendantExits, KillGroup, CaptureFails, DeadlinePasses,
              ReapStep, ReapProbe, ReapKill, rowVars
<1>4. ASSUME NEW eff, NEW old \in SUBSET Prunable, Schedule(eff, old)
      PROVE  status'[i] = "pruned"
  <2>1. i \notin Expired /\ i \notin Unsupported /\ i \notin Claimed(eff)
    BY DEF Expired, Unsupported, Claimed, Eligible, Terminal
  <2> QED BY <1>4, <2>1 DEF Schedule
<1>5. CASE Scan
  <2>1. ASSUME NEW old, PassFails(old) PROVE status'[i] = "pruned"
    BY <2>1 DEF PassFails
  <2> QED BY <1>4, <1>5, <2>1 DEF Scan
<1>6. CASE Start \/ MarkShutdown
  BY <1>6 DEF Start, MarkShutdown, InterruptInFlight, Interruptible, Terminal, InFlight
<1>7. CASE Close \/ CancelTasks \/ Exit \/ Crash
  BY <1>7 DEF Close, CancelTasks, Exit, Crash, rowVars
<1> QED BY <1>1, <1>2, <1>3, <1>5, <1>6, <1>7 DEF Next, Shutdown

\* A verdict is final.
THEOREM VerdictsAreFinal == Spec => VerdictIsFinal
<1>1. IndInv /\ [Next]_vars =>
        [\A j \in Jobs :
           status[j] \in Terminal /\ status'[j] # status[j] =>
             status'[j] = "pruned" \/ (status[j] = "interrupted" /\ phase = "draining")]_vars
  BY TerminalStep, IndInvByJob
<1> QED BY <1>1, InvariantHolds, PTL DEF Spec, VerdictIsFinal

\* Only a task that is building its command starts a process, and it has none.
LEMMA LaunchStep ==
  ASSUME TypeOK, NEW i \in Jobs, JobInv(i), Next, proc'[i] = "leader"
  PROVE  proc[i] \in {"none", "leader"}
<1>1. ASSUME NEW j \in Jobs, Request(j) PROVE proc' = proc
  BY <1>1 DEF Request, Submit, Cancel, Acknowledge
<1>2. ASSUME NEW j \in Jobs, Spawn(j) PROVE proc[i] \in {"none", "leader"}
  BY <1>2 DEF Spawn, JobInv, ProcessMatchesRow, TypeOK
<1>3. ASSUME NEW j \in Jobs, TaskStep(j), ~Spawn(j) PROVE proc' = proc
  BY <1>3 DEF TaskStep, Begin, BuildFails, Probed, Aborted, Errored, Watch, Terminated, Collected,
              Unwound, Cleanup, CleanupFails
<1>4. ASSUME NEW j \in Jobs,
             \/ Fed(j) \/ Raise(j) \/ Exits(j) \/ DescendantExits(j) \/ KillGroup(j)
             \/ CaptureFails(j) \/ DeadlinePasses(j) \/ ReapStep(j)
      PROVE  proc[i] = "leader"
  BY <1>4 DEF Fed, Raise, Exits, ProviderExits, DescendantExits, KillGroup, CaptureFails, DeadlinePasses,
              ReapStep, ReapProbe, ReapKill, TypeOK
<1>5. CASE Scan \/ Start \/ Close \/ Shutdown \/ Crash
  BY <1>5 DEF Scan, Schedule, PassFails, Start, Close, Shutdown, MarkShutdown, CancelTasks, Exit, Crash
<1> QED BY <1>1, <1>2, <1>3, <1>4, <1>5 DEF Next

\* A job is launched at most once, through every restart and crash.
THEOREM LaunchesOnce == Spec => LaunchedAtMostOnce
<1>1. IndInv /\ [Next]_vars =>
        [\A j \in Jobs : proc'[j] = "leader" => proc[j] \in {"none", "leader"}]_vars
  BY LaunchStep, IndInvByJob
<1> QED BY <1>1, InvariantHolds, PTL DEF Spec, LaunchedAtMostOnce

-----------------------------------------------------------------------------
(***************************************************************************)
(* The queue: a provider is never given more tasks than its limit, and its *)
(* jobs are claimed in the order they were submitted.                      *)
(***************************************************************************)

\* A non-empty set of jobs has a last one.
LEMMA LastOfJobs ==
  ASSUME NEW C \in SUBSET Jobs, C # {}
  PROVE  \E m \in C : \A j \in C : j <= m
<1> DEFINE Less == OpToRel(<, Nat)
           Back == {NumJobs - j : j \in C}
<1>0. NumJobs \in Nat
  BY ConstantsAssumption DEF ConstantsAssumption
<1>1. Back \subseteq Nat /\ Back # {}
  <2>1. ASSUME NEW j \in C PROVE NumJobs - j \in Nat
    BY <1>0 DEF Jobs
  <2> QED BY <2>1
<1>2. PICK b \in Back : \A c \in Back : ~(<<c, b>> \in Less)
  <2>1. IsWellFoundedOn(Less, Nat)
    BY NatLessThanWellFounded
  <2> HIDE DEF Less, Back
  <2> QED BY <1>1, <2>1, WFMin
<1>3. \A c \in Back : ~(c < b)
  BY <1>1, <1>2 DEF OpToRel
<1>4. PICK m \in C : b = NumJobs - m
  OBVIOUS
<1>5. ASSUME NEW j \in C PROVE j <= m
  <2>1. ~(NumJobs - j < NumJobs - m)
    BY <1>3, <1>4
  <2> QED BY <2>1, <1>0 DEF Jobs
<1> QED BY <1>5

\* Sets of jobs are finite.
LEMMA JobsFinite == ASSUME NEW S \in SUBSET Jobs PROVE IsFiniteSet(S) /\ Cardinality(S) \in Nat
<1>1. IsFiniteSet(Jobs)
  BY ConstantsAssumption, FS_Interval DEF ConstantsAssumption, Jobs
<1> QED BY <1>1, FS_Subset, FS_CardinalityType

\* A subset has no more jobs.
LEMMA JobsMonotone ==
  ASSUME NEW S \in SUBSET Jobs, NEW T \in SUBSET S PROVE Cardinality(T) <= Cardinality(S)
BY JobsFinite, FS_Subset

\* A union has no more jobs than its parts together.
LEMMA JobsUnion ==
  ASSUME NEW S \in SUBSET Jobs, NEW T \in SUBSET Jobs
  PROVE  Cardinality(S \cup T) <= Cardinality(S) + Cardinality(T)
<1>1. Cardinality(S \cup T) = Cardinality(S) + Cardinality(T) - Cardinality(S \cap T)
  BY JobsFinite, FS_Union
<1>2. Cardinality(S \cap T) \in Nat
  BY JobsFinite
<1> QED BY <1>1, <1>2, JobsFinite

\* A pass gives a provider at most the free slots of its effective limit.
LEMMA PassFits ==
  ASSUME NEW p \in Provider, NEW eff \in [Provider -> Nat], {j \in Claimed(eff) : ProviderOf[j] = p} # {}
  PROVE  Busy(p) + Cardinality({j \in Claimed(eff) : ProviderOf[j] = p}) <= eff[p]
<1> DEFINE C == {j \in Claimed(eff) : ProviderOf[j] = p}
<1>1. C \subseteq Jobs /\ C \subseteq Eligible
  BY DEF Claimed, Eligible
<1>2. PICK m \in C : \A j \in C : j <= m
  BY <1>1, LastOfJobs
<1>3. C \subseteq Ahead(m) \cup {m} /\ Ahead(m) \subseteq Jobs /\ m \in Jobs
  BY <1>1, <1>2 DEF Ahead, Jobs, Eligible
<1>4. Cardinality(C) <= Cardinality(Ahead(m)) + 1
  <2>1. Cardinality(Ahead(m) \cup {m}) <= Cardinality(Ahead(m)) + 1
    BY <1>3, JobsFinite, FS_AddElement
  <2>2. Cardinality(C) <= Cardinality(Ahead(m) \cup {m})
    BY <1>3, JobsMonotone
  <2> HIDE DEF C
  <2> QED BY <1>1, <1>3, <2>1, <2>2, JobsFinite
<1>5. Busy(p) + Cardinality(Ahead(m)) < eff[p]
  BY <1>2 DEF Claimed
<1>6. Busy(p) \in Nat
  BY JobsFinite DEF Busy, TasksOf
<1> HIDE DEF C
<1>7. QED BY <1>1, <1>3, <1>4, <1>5, <1>6, JobsFinite DEF C

-----------------------------------------------------------------------------
(* The concurrency limit.                                                  *)

\* Provider health only ever lowers a limit.
LEMMA EffectiveBounded ==
  ASSUME NEW h \in [Provider -> Health]
  PROVE  /\ Effective(h) \in [Provider -> Nat]
         /\ \A p \in Provider : Effective(h)[p] <= Limit[p]
<1>1. ASSUME NEW p \in Provider PROVE Effective(h)[p] \in Nat /\ Effective(h)[p] <= Limit[p]
  <2>1. Limit[p] \in Nat \ {0}
    BY ConstantsAssumption DEF ConstantsAssumption
  <2>2. Effective(h)[p] \in {0, IF Limit[p] > 1 THEN Limit[p] - 1 ELSE 1, Limit[p]}
    BY DEF Effective
  <2> QED BY <2>1, <2>2
<1> QED BY <1>1 DEF Effective

\* Only a pass of the scheduler creates tasks.
LEMMA TasksComeFromScheduler ==
  ASSUME TypeOK, [Next]_vars, ~Scan, NEW i \in Jobs, stage[i] = "none"
  PROVE  stage'[i] = "none"
<1>1. ASSUME NEW j \in Jobs, Request(j) PROVE stage' = stage
  BY <1>1 DEF Request, Submit, Cancel, Acknowledge
<1>2. ASSUME NEW j \in Jobs, TaskStep(j) PROVE stage'[i] = "none"
  BY <1>2 DEF TaskStep, Begin, Spawn, BuildFails, Probed, Aborted, Errored, Watch, Terminated,
              Collected, Unwound, Cleanup, CleanupFails, TypeOK
<1>3. ASSUME NEW j \in Jobs,
             \/ Fed(j) \/ Raise(j) \/ Exits(j) \/ DescendantExits(j) \/ KillGroup(j)
             \/ CaptureFails(j) \/ DeadlinePasses(j) \/ ReapStep(j)
      PROVE  stage'[i] = "none"
  BY <1>3 DEF Fed, Raise, Exits, ProviderExits, DescendantExits, KillGroup, CaptureFails, DeadlinePasses,
              ReapStep, ReapProbe, ReapKill, TypeOK
<1>4. CASE Start \/ Close \/ MarkShutdown \/ Exit \/ Crash
  BY <1>4 DEF Start, Close, MarkShutdown, Exit, Crash
<1>5. CASE CancelTasks
  <2>1. CancelledStage("none") = "none"
    BY DEF CancelledStage
  <2> QED BY <1>5, <2>1 DEF CancelTasks
<1>6. CASE UNCHANGED vars
  BY <1>6 DEF vars
<1> QED BY <1>1, <1>2, <1>3, <1>4, <1>5, <1>6 DEF Next, Shutdown

\* The limit is kept by every step.
LEMMA CapacityStep ==
  ASSUME TypeOK, CapacityHeld, [Next]_vars, NEW p \in Provider
  PROVE  Cardinality(TasksOf(p)') <= Limit[p]
<1>1. Limit[p] \in Nat
  BY ConstantsAssumption DEF ConstantsAssumption
<1>2. TasksOf(p) \subseteq Jobs /\ TasksOf(p)' \subseteq Jobs
  BY DEF TasksOf
<1>3. CASE TasksOf(p)' \subseteq TasksOf(p)
  <2>1. Cardinality(TasksOf(p)') <= Cardinality(TasksOf(p))
    BY <1>2, <1>3, JobsMonotone
  <2>2. Cardinality(TasksOf(p)) <= Limit[p]
    BY DEF CapacityHeld
  <2> QED BY <1>1, <1>2, <2>1, <2>2, JobsFinite
<1>4. CASE ~Scan
  <2>1. TasksOf(p)' \subseteq TasksOf(p)
    BY <1>4, TasksComeFromScheduler DEF TasksOf, HasTask
  <2> QED BY <1>3, <2>1
<1>5. ASSUME NEW h \in [Provider -> Health], NEW old \in SUBSET Prunable, Schedule(Effective(h), old)
      PROVE  Cardinality(TasksOf(p)') <= Limit[p]
  <2> DEFINE eff == Effective(h)
             C == {j \in Claimed(eff) : ProviderOf[j] = p}
  <2>1. TasksOf(p)' \subseteq TasksOf(p) \cup C
    BY <1>5 DEF Schedule, TasksOf, HasTask
  <2>2. CASE C = {}
    BY <1>3, <2>1, <2>2
  <2>3. CASE C # {}
    <3>1. Busy(p) + Cardinality(C) <= eff[p]
      BY <2>3, PassFits, EffectiveBounded
    <3>2. eff[p] \in Nat /\ eff[p] <= Limit[p]
      BY EffectiveBounded
    <3>3. C \subseteq Jobs
      BY DEF Claimed, Eligible
    <3> HIDE DEF C, eff
    <3>4. Cardinality(TasksOf(p)') <= Cardinality(TasksOf(p) \cup C)
      BY <1>2, <2>1, <3>3, JobsMonotone
    <3>5. Cardinality(TasksOf(p) \cup C) <= Cardinality(TasksOf(p)) + Cardinality(C)
      BY <1>2, <3>3, JobsUnion
    <3>6. /\ Cardinality(TasksOf(p)') \in Nat /\ Cardinality(TasksOf(p)) \in Nat
          /\ Cardinality(C) \in Nat /\ Cardinality(TasksOf(p) \cup C) \in Nat
      BY <1>2, <3>3, JobsFinite
    <3> QED BY <1>1, <3>1, <3>2, <3>4, <3>5, <3>6 DEF Busy
  <2> QED BY <2>2, <2>3
<1>6. ASSUME NEW old, PassFails(old) PROVE Cardinality(TasksOf(p)') <= Limit[p]
  <2>1. TasksOf(p)' = TasksOf(p)
    BY <1>6 DEF PassFails, TasksOf, HasTask
  <2> QED BY <1>3, <2>1
<1> QED BY <1>4, <1>5, <1>6 DEF Scan

\* No provider ever has more tasks than its limit, through every restart.
THEOREM CapacityNeverExceeded == Spec => []CapacityHeld
<1>1. Init => CapacityHeld
  <2> SUFFICES ASSUME Init, NEW p \in Provider PROVE Cardinality(TasksOf(p)) <= Limit[p]
    BY DEF CapacityHeld
  <2>1. TasksOf(p) = {}
    BY DEF Init, TasksOf, HasTask
  <2>2. Cardinality(TasksOf(p)) = 0
    BY <2>1, FS_EmptySet
  <2> QED BY <2>2, ConstantsAssumption DEF ConstantsAssumption
<1>2. TypeOK /\ CapacityHeld /\ [Next]_vars => CapacityHeld'
  BY CapacityStep DEF CapacityHeld
<1> QED BY <1>1, <1>2, TypeCorrect, PTL DEF Spec

-----------------------------------------------------------------------------
(* First come, first served.                                               *)

\* Whoever is claimed, an eligible job ahead of it is claimed too.
LEMMA AheadIsClaimed ==
  ASSUME NEW eff \in [Provider -> Nat], NEW j \in Claimed(eff), NEW i \in Eligible, i < j,
         ProviderOf[i] = ProviderOf[j]
  PROVE  i \in Claimed(eff)
<1>1. i \in Jobs /\ j \in Jobs /\ j \in Eligible
  BY DEF Claimed, Eligible
<1>2. ProviderOf[j] \in Provider
  BY <1>1, ConstantsAssumption DEF ConstantsAssumption
<1>3. Ahead(i) \subseteq Ahead(j) /\ Ahead(j) \subseteq Jobs
  BY <1>1 DEF Ahead, Jobs, Eligible
<1>4. Cardinality(Ahead(i)) <= Cardinality(Ahead(j))
  BY <1>3, JobsMonotone
<1>5. Busy(ProviderOf[j]) + Cardinality(Ahead(j)) < eff[ProviderOf[j]]
  BY DEF Claimed
<1>6. /\ Busy(ProviderOf[j]) \in Nat /\ Cardinality(Ahead(i)) \in Nat
      /\ Cardinality(Ahead(j)) \in Nat /\ eff[ProviderOf[j]] \in Nat
  BY <1>2, <1>3, JobsFinite DEF Busy, TasksOf
<1>7. Busy(ProviderOf[i]) + Cardinality(Ahead(i)) < eff[ProviderOf[i]]
  BY <1>4, <1>5, <1>6
<1> QED BY <1>7 DEF Claimed

\* A step that claims a job leaves no older job of its provider queued.
LEMMA QueueStep ==
  ASSUME TypeOK, NEW i \in Jobs, NEW j \in Jobs, JobInv(i), Next,
         i < j, ProviderOf[i] = ProviderOf[j], status[i] = "queued", status'[i] = "queued",
         status[j] = "queued", status'[j] = "launching"
  PROVE  FALSE
<1>1. ASSUME NEW h \in [Provider -> Health], NEW old \in SUBSET Prunable, Schedule(Effective(h), old)
      PROVE  FALSE
  <2>1. i \notin old /\ j \notin old
    BY DEF Prunable, Terminal
  <2>2. i \notin Expired \cup Unsupported
    <3>1. i \notin Claimed(Effective(h)) \/ i \notin Expired \cup Unsupported
      BY DEF Claimed, Eligible
    <3> QED BY <1>1, <2>1, <3>1 DEF Schedule
  <2>3. i \in Eligible
    BY <2>2 DEF Eligible, JobInv, ProcessMatchesRow, HasTask
  <2>4. j \in Claimed(Effective(h))
    BY <1>1, <2>1 DEF Schedule
  <2>5. i \in Claimed(Effective(h))
    BY <2>3, <2>4, AheadIsClaimed, EffectiveBounded
  <2> QED BY <1>1, <2>1, <2>2, <2>5 DEF Schedule
<1>2. ASSUME NEW k \in Jobs, Request(k) \/ TaskStep(k) PROVE FALSE
  <2>1. CASE Request(k)
    BY <2>1 DEF Request, Submit, Cancel, Acknowledge, Finish, TypeOK
  <2>2. ASSUME NEW s \in {"completed", "cancelled", "failed", "interrupted"}, NEW f, Finish(k, s, f)
        PROVE  FALSE
    BY <2>2 DEF Finish, TypeOK
  <2>3. CASE Begin(k)
    BY <2>2, <2>3 DEF Begin
  <2>4. CASE Spawn(k) \/ Watch(k) \/ Terminated(k) \/ Cleanup(k) \/ CleanupFails(k)
    BY <2>4 DEF Spawn, Watch, Terminated, Cleanup, CleanupFails, rowVars
  <2>5. CASE Probed(k)
    BY <2>5 DEF Probed, TypeOK
  <2>6. CASE BuildFails(k) \/ Aborted(k) \/ Errored(k) \/ Unwound(k)
    BY <2>2, <2>6 DEF BuildFails, Aborted, Errored, Unwound
  <2>7. ASSUME NEW limited \in BOOLEAN, Collected(k, limited) PROVE FALSE
    BY <2>2, <2>7, VerdictTyped DEF Collected
  <2> QED BY <1>2, <2>1, <2>3, <2>4, <2>5, <2>6, <2>7 DEF TaskStep
<1>3. ASSUME NEW k \in Jobs,
             \/ Fed(k) \/ Raise(k) \/ Exits(k) \/ DescendantExits(k) \/ KillGroup(k)
             \/ CaptureFails(k) \/ DeadlinePasses(k) \/ ReapStep(k)
      PROVE  FALSE
  BY <1>3 DEF Fed, Raise, Exits, ProviderExits, DescendantExits, KillGroup, CaptureFails, DeadlinePasses,
              ReapStep, ReapProbe, ReapKill, rowVars
<1>4. CASE Start \/ MarkShutdown
  BY <1>4 DEF Start, MarkShutdown, InterruptInFlight, Interruptible, InFlight
<1>5. CASE Close \/ CancelTasks \/ Exit \/ Crash
  BY <1>5 DEF Close, CancelTasks, Exit, Crash, rowVars
<1>6. ASSUME NEW old, PassFails(old) PROVE FALSE
  BY <1>6 DEF PassFails
<1> QED BY <1>1, <1>2, <1>3, <1>4, <1>5, <1>6 DEF Next, Scan, Shutdown

\* The queue of a provider is first come, first served.
THEOREM QueueIsFair == Spec => NoOvertaking
<1>1. IndInv /\ [Next]_vars =>
        [\A i, j \in Jobs :
           /\ i < j /\ ProviderOf[i] = ProviderOf[j]
           /\ status[i] = "queued" /\ status'[i] = "queued"
           => ~(status[j] = "queued" /\ status'[j] = "launching")]_vars
  BY QueueStep, IndInvByJob
<1> QED BY <1>1, InvariantHolds, PTL DEF Spec, NoOvertaking

-----------------------------------------------------------------------------
(***************************************************************************)
(* The daemon implements JobContract: each of its steps is, for every job, *)
(* a move the contract allows.                                             *)
(***************************************************************************)

\* What a step does to the row and the delivery of job i.
Keeps(i) == ViewOf(status'[i]) = ViewOf(status[i]) /\ delivery'[i] = delivery[i]
Accepts(i) == status[i] = "none" /\ status'[i] = "queued" /\ delivery'[i] = delivery[i]
Admits(i) == status[i] = "queued" /\ status'[i] = "launching" /\ delivery'[i] = delivery[i]
ConcludesRow(i) ==
  /\ \/ status[i] = "queued" /\ status'[i] \in {"failed", "cancelled"} /\ proc[i] = "none"
     \/ status[i] \in InFlight \cup {"interrupted"} /\ status'[i] \in Terminal
  /\ status'[i] # "interrupted" => proc[i] # "leader"
  /\ delivery'[i] = Delivered(i)
Acknowledges(i) == delivery[i] = "unacked" /\ delivery'[i] = "acked" /\ status'[i] = status[i]
Purges(i) == status[i] \in Terminal /\ status'[i] = "pruned" /\ delivery'[i] = "none"

RowMove(i) ==
  Keeps(i) \/ Accepts(i) \/ Admits(i) \/ ConcludesRow(i) \/ Acknowledges(i) \/ Purges(i)

\* What a step does to its process.
ProcMove(i) ==
  \/ proc'[i] = proc[i]
  \/ proc[i] = "none" /\ proc'[i] = "leader" /\ status[i] \in InFlight \cup {"interrupted"}
  \/ proc[i] # "none" /\ proc'[i] \in {"descendant", "dead"}

\* Such a step is a move of the contract.
LEMMA MovesMap ==
  ASSUME TypeOK, TypeOK', NEW i \in Jobs, RowMove(i), ProcMove(i)
  PROVE  Contract!Move(i)
<1> DEFINE view == [j \in Jobs |-> ViewOf(status[j])]
           work == [j \in Jobs |-> WorkOf(proc[j])]
<1>1. /\ status[i] \in Status /\ status'[i] \in Status
      /\ proc[i] \in Proc /\ proc'[i] \in Proc
  BY DEF TypeOK
<1>2. /\ view[i] = ViewOf(status[i]) /\ view'[i] = ViewOf(status'[i])
      /\ work[i] = WorkOf(proc[i]) /\ work'[i] = WorkOf(proc'[i])
  OBVIOUS
<1>3. Contract!WorkMoves(i)
  <2>1. status[i] \in InFlight \cup {"interrupted"} => ViewOf(status[i]) \in {"active", "interrupted"}
    BY DEF ViewOf, InFlight
  <2> QED BY <1>1, <1>2, <2>1 DEF ProcMove, Contract!WorkMoves, WorkOf, Proc
<1>4. Keeps(i) => Contract!Keep(i)
  BY <1>2 DEF Keeps, Contract!Keep
<1>5. Accepts(i) => Contract!Accept(i)
  BY <1>2 DEF Accepts, Contract!Accept, ViewOf, InFlight
<1>6. Admits(i) => Contract!Admit(i)
  BY <1>2 DEF Admits, Contract!Admit, ViewOf, InFlight
<1>7. ConcludesRow(i) => Contract!Conclude(i)
  <2> SUFFICES ASSUME ConcludesRow(i) PROVE Contract!Conclude(i)
    OBVIOUS
  <2>1. status'[i] \in Terminal
    BY DEF ConcludesRow, Terminal
  <2>2. view'[i] = status'[i]
    BY <1>2, <2>1 DEF ViewOf, Terminal, InFlight
  <2>3. CASE status[i] = "queued"
    <3>1. view[i] = "queued" /\ work[i] = "never"
      BY <1>2, <2>3 DEF ViewOf, WorkOf, InFlight, ConcludesRow
    <3> QED BY <2>2, <2>3, <3>1 DEF ConcludesRow, Delivered, Contract!Conclude, InFlight
  <2>4. CASE status[i] \in InFlight \cup {"interrupted"}
    <3>1. view[i] \in {"active", "interrupted"}
      BY <1>2, <2>4 DEF ViewOf, InFlight
    <3>2. proc[i] # "leader" => work[i] # "alive"
      BY <1>1, <1>2 DEF WorkOf, Proc
    <3> QED BY <2>1, <2>2, <3>1, <3>2 DEF ConcludesRow, Delivered, Contract!Conclude, Contract!Concluded, Terminal
  <2> QED BY <2>3, <2>4 DEF ConcludesRow
<1>8. Acknowledges(i) => Contract!Acknowledge(i)
  BY <1>2 DEF Acknowledges, Contract!Acknowledge
<1>9. Purges(i) => Contract!Purge(i)
  BY <1>2 DEF Purges, Contract!Purge, Contract!Concluded, ViewOf, Terminal, InFlight
<1> QED BY <1>3, <1>4, <1>5, <1>6, <1>7, <1>8, <1>9 DEF RowMove, Contract!Move

\* Every step treats every process as the contract says.
LEMMA ProcStep ==
  ASSUME TypeOK, NEW i \in Jobs, JobInv(i), Next
  PROVE  ProcMove(i)
<1>1. ASSUME NEW j \in Jobs, Request(j) PROVE proc' = proc
  BY <1>1 DEF Request, Submit, Cancel, Acknowledge
<1>2. ASSUME NEW j \in Jobs, Spawn(j) PROVE ProcMove(i)
  BY <1>2 DEF Spawn, JobInv, StageMatchesRow, ProcessMatchesRow, ProcMove, InFlight, TypeOK
<1>3. ASSUME NEW j \in Jobs, TaskStep(j), ~Spawn(j) PROVE proc' = proc
  BY <1>3 DEF TaskStep, Begin, BuildFails, Probed, Aborted, Errored, Watch, Terminated, Collected,
              Unwound, Cleanup, CleanupFails
<1>4. ASSUME NEW j \in Jobs,
             \/ Fed(j) \/ Raise(j) \/ Exits(j) \/ DescendantExits(j) \/ KillGroup(j)
             \/ CaptureFails(j) \/ DeadlinePasses(j) \/ ReapStep(j)
      PROVE  ProcMove(i)
  <2>1. CASE Fed(j) \/ Raise(j) \/ CaptureFails(j) \/ DeadlinePasses(j) \/ ReapProbe(j)
    BY <2>1 DEF Fed, Raise, CaptureFails, DeadlinePasses, ReapProbe, ProcMove
  <2>2. CASE Exits(j) \/ DescendantExits(j) \/ KillGroup(j)
    BY <2>2 DEF Exits, ProviderExits, DescendantExits, KillGroup, ProcMove, TypeOK
  <2>3. CASE ReapKill(j)
    BY <2>3 DEF ReapKill, JobInv, TaskMatchesDaemon, ProcMove, TypeOK
  <2> QED BY <1>4, <2>1, <2>2, <2>3 DEF ReapStep
<1>5. CASE Scan \/ Start \/ Close \/ Shutdown \/ Crash
  BY <1>5 DEF Scan, Schedule, PassFails, Start, Close, Shutdown, MarkShutdown, CancelTasks, Exit, Crash, ProcMove
<1> QED BY <1>1, <1>2, <1>3, <1>4, <1>5 DEF Next, ProcMove

\* A terminal update by a task concludes the row.
LEMMA FinishConcludes ==
  ASSUME TypeOK, NEW j \in Jobs, NEW s \in Terminal, NEW k, Finish(j, s, k),
         status[j] \in InFlight \cup {"interrupted"}, s # "interrupted" => proc[j] # "leader",
         NEW i \in Jobs
  PROVE  RowMove(i)
<1>1. CASE i = j
  BY <1>1 DEF Finish, TypeOK, RowMove, ConcludesRow
<1>2. CASE i # j
  BY <1>2 DEF Finish, TypeOK, RowMove, Keeps
<1> QED BY <1>1, <1>2

\* Every step treats every row and its delivery as the contract says.
LEMMA RowStep ==
  ASSUME TypeOK, \A i \in Jobs : JobInv(i), NEW i \in Jobs, Next
  PROVE  RowMove(i)
<1>0. ASSUME status'[i] = status[i], delivery'[i] = delivery[i] PROVE RowMove(i)
  BY <1>0 DEF RowMove, Keeps
<1>1. ASSUME NEW j \in Jobs, Request(j) PROVE RowMove(i)
  <2>1. CASE Submit(j)
    BY <2>1 DEF Submit, RowMove, Accepts, Keeps, TypeOK
  <2>2. CASE Cancel(j) /\ CancelFinishes(j)
    <3>1. proc[j] = "none"
      BY <2>2 DEF CancelFinishes, JobInv, ProcessMatchesRow
    <3> QED BY <2>2, <3>1 DEF Cancel, CancelFinishes, Finish, RowMove, ConcludesRow, Keeps, TypeOK
  <2>3. CASE Cancel(j) /\ ~CancelFinishes(j)
    BY <1>0, <2>3 DEF Cancel
  <2>4. CASE Acknowledge(j)
    BY <2>4 DEF Acknowledge, RowMove, Acknowledges, Keeps, TypeOK
  <2> QED BY <1>1, <2>1, <2>2, <2>3, <2>4 DEF Request
<1>2. ASSUME NEW j \in Jobs, TaskStep(j) PROVE RowMove(i)
  <2>0. JobInv(j)
    OBVIOUS
  <2>1. CASE Begin(j)
    <3>1. proc[j] = "none"
      BY <2>0, <2>1 DEF Begin, JobInv, ProcessMatchesRow
    <3>2. CASE UNCHANGED <<status, kind, delivery, late>>
      BY <1>0, <3>2
    <3>3. ASSUME NEW s \in Terminal, NEW k, status[j] = "launching", Finish(j, s, k) PROVE RowMove(i)
      BY <3>1, <3>3, FinishConcludes DEF InFlight
    <3> QED BY <2>1, <3>2, <3>3 DEF Begin, Terminal
  <2>2. CASE Spawn(j) \/ Watch(j) \/ Terminated(j) \/ Cleanup(j) \/ CleanupFails(j)
    BY <1>0, <2>2 DEF Spawn, Watch, Terminated, Cleanup, CleanupFails, rowVars
  <2>3. CASE Probed(j)
    <3>1. CASE LaunchRevoked(j)
      BY <1>0, <2>3, <3>1 DEF Probed
    <3>2. CASE ~LaunchRevoked(j)
      BY <2>3, <3>2 DEF Probed, LaunchRevoked, TypeOK, RowMove, Keeps, ViewOf, InFlight
    <3> QED BY <3>1, <3>2
  <2>4. ASSUME stage[j] \in {"building", "aborting", "erroring", "collecting", "unwinding"}
        PROVE  status[j] \in InFlight \cup {"interrupted"}
    BY <2>0, <2>4 DEF JobInv, StageMatchesRow, InFlight
  <2>5. CASE BuildFails(j)
    BY <2>0, <2>4, <2>5, FinishConcludes DEF BuildFails, JobInv, ProcessMatchesRow, Terminal
  <2>6. CASE Aborted(j) \/ Errored(j) \/ Unwound(j)
    BY <2>4, <2>6, FinishConcludes DEF Aborted, Errored, Unwound, Stopped, Terminal
  <2>7. ASSUME NEW limited \in BOOLEAN, Collected(j, limited) PROVE RowMove(i)
    BY <2>4, <2>7, FinishConcludes, VerdictTyped DEF Collected, Terminal
  <2> QED BY <1>2, <2>1, <2>2, <2>3, <2>5, <2>6, <2>7 DEF TaskStep
<1>3. ASSUME NEW j \in Jobs,
             \/ Fed(j) \/ Raise(j) \/ Exits(j) \/ DescendantExits(j) \/ KillGroup(j)
             \/ CaptureFails(j) \/ DeadlinePasses(j) \/ ReapStep(j)
      PROVE  RowMove(i)
  BY <1>0, <1>3 DEF Fed, Raise, Exits, ProviderExits, DescendantExits, KillGroup, CaptureFails, DeadlinePasses,
              ReapStep, ReapProbe, ReapKill, rowVars
<1>4. ASSUME NEW eff, NEW old \in SUBSET Prunable, Schedule(eff, old) PROVE RowMove(i)
  <2>1. CASE i \in old
    <3>1. status[i] \in Terminal /\ i \notin Expired /\ i \notin Unsupported
      BY <2>1 DEF Prunable, Expired, Unsupported, Terminal
    <3>2. i \notin Claimed(eff)
      BY <3>1 DEF Claimed, Eligible, Terminal
    <3> QED BY <1>4, <2>1, <3>1, <3>2 DEF Schedule, RowMove, Purges
  <2>2. CASE i \in Expired \cup Unsupported
    <3>1. status[i] = "queued" /\ i \notin old /\ i \notin Claimed(eff)
      BY <2>2 DEF Prunable, Expired, Unsupported, Claimed, Eligible, Terminal
    <3>2. proc[i] = "none"
      BY <3>1 DEF JobInv, ProcessMatchesRow
    <3>3. status'[i] = "failed" /\ delivery'[i] = Delivered(i)
      BY <1>4, <2>2, <3>1 DEF Schedule
    <3> QED BY <3>1, <3>2, <3>3 DEF RowMove, ConcludesRow
  <2>3. CASE i \in Claimed(eff)
    <3>1. status[i] = "queued" /\ i \notin old /\ i \notin Expired \cup Unsupported
      BY <2>3 DEF Prunable, Claimed, Eligible, Terminal
    <3> QED BY <1>4, <2>3, <3>1 DEF Schedule, RowMove, Admits
  <2>4. CASE i \notin old \cup Expired \cup Unsupported \cup Claimed(eff)
    BY <1>0, <1>4, <2>4 DEF Schedule
  <2> QED BY <2>1, <2>2, <2>3, <2>4
<1>5. CASE Start \/ MarkShutdown
  <2>1. CASE i \in Interruptible
    BY <1>5, <2>1 DEF Start, MarkShutdown, InterruptInFlight, Interruptible, RowMove, ConcludesRow, Terminal
  <2>2. CASE i \notin Interruptible
    BY <1>0, <1>5, <2>2 DEF Start, MarkShutdown, InterruptInFlight
  <2> QED BY <2>1, <2>2
<1>6. CASE Close \/ CancelTasks \/ Exit \/ Crash
  BY <1>0, <1>6 DEF Close, CancelTasks, Exit, Crash, rowVars
<1>7. ASSUME NEW old \in SUBSET Prunable, PassFails(old) PROVE RowMove(i)
  <2>1. CASE i \in old
    BY <1>7, <2>1 DEF PassFails, Prunable, RowMove, Purges
  <2>2. CASE i \notin old
    BY <1>0, <1>7, <2>2 DEF PassFails
  <2> QED BY <2>1, <2>2
<1> QED BY <1>1, <1>2, <1>3, <1>4, <1>5, <1>6, <1>7 DEF Next, Scan, Shutdown

\* The daemon starts where the contract starts.
LEMMA InitMaps == Init => Contract!Init
<1> SUFFICES ASSUME Init PROVE Contract!Init
  OBVIOUS
<1>1. ASSUME NEW j \in Jobs PROVE ViewOf(status[j]) = "absent" /\ WorkOf(proc[j]) = "never"
  BY DEF Init, ViewOf, WorkOf, InFlight
<1>2. delivery = [j \in Jobs |-> "none"]
  BY DEF Init
<1> QED BY <1>1, <1>2 DEF Contract!Init

\* Every step of the daemon is a step of the contract, or leaves it unchanged.
LEMMA NextMaps == IndInv /\ [Next]_vars => [Contract!Next]_Contract!vars
<1> SUFFICES ASSUME IndInv, [Next]_vars PROVE [Contract!Next]_Contract!vars
  OBVIOUS
<1>1. CASE Next
  <2>1. TypeOK /\ TypeOK' /\ \A i \in Jobs : JobInv(i)
    BY IndInvByJob, NextTyped
  <2>2. ASSUME NEW i \in Jobs PROVE Contract!Move(i)
    BY <1>1, <2>1, MovesMap, RowStep, ProcStep
  <2> QED BY <2>2 DEF Contract!Next
<1>2. CASE UNCHANGED vars
  BY <1>2 DEF vars, rowVars, Contract!vars
<1> QED BY <1>1, <1>2

\* The daemon implements the contract.
THEOREM ContractIsKept == Spec => ContractKept
BY InitMaps, NextMaps, InvariantHolds, PTL DEF Spec, ContractKept, Contract!Spec
=============================================================================
