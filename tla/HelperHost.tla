---------------------------- MODULE HelperHost ----------------------------
(***************************************************************************)
(* The supervisor as the processes around one job meet it                  *)
(* (tools/agent_job_supervisor.py): signals to the provider's process      *)
(* group, the cleanup of the job's runtime directory when its task ends,   *)
(* and after a crash the cleanup of stale directories and the reaping of   *)
(* the provider that was left.  JobSupervisor models the task itself.      *)
(*                                                                         *)
(* The group holds the provider and, for a job with checks, the check      *)
(* server it has started; with CAO the provider is the bridge.             *)
(***************************************************************************)
EXTENDS Naturals, FiniteSets

CONSTANT MaxCrashes   \* crashes of the daemon

VARIABLES
  kind,       \* "native" with a check server, or "cao"
  host,       \* what the supervisor does about the job
  group,      \* processes of the group that are alive
  pending,    \* those with a SIGTERM not yet handled
  crashes,    \* crashes so far
  forgotten   \* the orphan is not known to the next start any more

hostVars == <<kind, host, group, pending, crashes, forgotten>>

HostInit ==
  /\ kind \in {"native", "cao"}
  /\ group = IF kind = "native" THEN {"provider", "server"} ELSE {"provider"}
  /\ host = "running" /\ pending = {} /\ crashes = 0 /\ forgotten = FALSE

Alive(process) == process \in group

\* A process of the group ends by itself.
Leaves(process) ==
  /\ group' = group \ {process}
  /\ pending' = pending \ {process}

------------------------------------------------------------------------------
\* _terminate, for a cancellation, a deadline or a failed capture; a shutdown
\* that cancels the task meanwhile begins it once more.
Terminate ==
  /\ host \in {"running", "terminating"} /\ Alive("provider")
  /\ host' = IF host = "running" THEN "terminating" ELSE "stopping"
  /\ pending' = group
  /\ UNCHANGED <<kind, group, crashes, forgotten>>

\* The provider has not ended after the grace period: the group is killed.
Escalate ==
  /\ host \in {"terminating", "stopping"} /\ Alive("provider")
  /\ host' = "cleaning"
  /\ group' = {} /\ pending' = {}
  /\ UNCHANGED <<kind, crashes, forgotten>>

\* The provider has ended; what else is in the group is left alone.
ProviderEnded ==
  /\ host \in {"running", "terminating", "stopping"} /\ ~Alive("provider")
  /\ host' = "cleaning"
  /\ UNCHANGED <<kind, group, pending, crashes, forgotten>>

\* A native provider ends, by itself or on a signal.
ProviderExits ==
  /\ kind = "native" /\ Alive("provider")
  /\ Leaves("provider")
  /\ UNCHANGED <<kind, host, crashes, forgotten>>

Crash ==
  /\ host \notin {"down", "finished"} /\ crashes < MaxCrashes
  /\ host' = "down" /\ crashes' = crashes + 1
  /\ forgotten' = (forgotten \/ host \in {"stale", "removing stale", "orphans", "reaping"})
  /\ UNCHANGED <<kind, group, pending>>

\* _reconcile_interrupted commits before stale directories are cleaned up.
Start ==
  /\ host = "down"
  /\ host' = "stale"
  /\ UNCHANGED <<kind, group, pending, crashes, forgotten>>

\* _reap_orphaned_jobs: SIGTERM, a second, SIGKILL
ReapOrphan ==
  /\ host = "orphans"
  /\ IF Alive("provider") /\ ~forgotten
     THEN host' = "reaping" /\ pending' = group
     ELSE host' = "finished" /\ UNCHANGED pending
  /\ UNCHANGED <<kind, group, crashes, forgotten>>

\* The second signal goes to the group, whether or not its leader has ended.
KillOrphan ==
  /\ host = "reaping"
  /\ host' = "finished"
  /\ group' = {} /\ pending' = {}
  /\ UNCHANGED <<kind, crashes, forgotten>>
=============================================================================
