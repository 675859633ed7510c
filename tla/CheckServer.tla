---------------------------- MODULE CheckServer ----------------------------
(***************************************************************************)
(* The MCP server that runs the approved checks of one native job          *)
(* (tools/agent_job_check_server.py), with the cleanup that the supervisor *)
(* does behind it (tools/agent_job_supervisor.py).                         *)
(*                                                                         *)
(* Every check is a thread that takes RUN_LOCK and starts a process in a   *)
(* session of its own, so a signal to the job's group does not reach it:   *)
(* the server kills it, or the supervisor by the record the server wrote.  *)
(***************************************************************************)
EXTENDS HelperHost

CONSTANT Checks   \* the calls the provider makes

VARIABLES
  stage,     \* where the thread of each call is
  procs,     \* processes of the check that are alive: the leader, others
  record,    \* the check has a process record in the runtime directory
  active,    \* ACTIVE_PROCESS: at most one check
  server,    \* "serving", or "ending" until its threads are done
  watching,  \* the parent watcher has not fired yet
  runtime,   \* the job's runtime directory exists
  escaped    \* checks that neither the server nor a record could reach

checkVars == <<stage, procs, record, active, server, watching, runtime, escaped>>

CheckInit ==
  /\ stage = [c \in Checks |-> "none"]
  /\ procs = [c \in Checks |-> {}]
  /\ record = [c \in Checks |-> FALSE]
  /\ active = {}
  /\ server = "serving"
  /\ watching = TRUE /\ runtime = TRUE
  /\ escaped = {}

Running == {"starting", "spawned", "active", "polling", "stopping", "killed"}

\* A step of a thread of the server, which leaves the group alone.
Thread(c, from, to) ==
  /\ Alive("server") /\ stage[c] = from
  /\ stage' = [stage EXCEPT ![c] = to]
  /\ UNCHANGED <<hostVars, server, watching, runtime, escaped>>

------------------------------------------------------------------------------
\* run_check, while the provider and the server's event loop are there
Ask(c) ==
  /\ Alive("provider") /\ server = "serving"
  /\ Thread(c, "none", "waiting")
  /\ UNCHANGED <<procs, record, active>>

\* Mutation: the lock is not taken.
Unlocked == TRUE

\* Mutation: the lock is not released.
KeptForEver == \A c \in Checks : stage[c] \notin Running \cup {"answered"}

\* RUN_LOCK
LockFree == \A c \in Checks : stage[c] \notin Running

\* The two output files are opened in the runtime directory.
Enter(c) ==
  /\ LockFree
  /\ Thread(c, "waiting", IF runtime THEN "starting" ELSE "answered")
  /\ UNCHANGED <<procs, record, active>>

Spawn(c) ==
  /\ Thread(c, "starting", "spawned")
  /\ procs' = [procs EXCEPT ![c] = {"leader"}]
  /\ UNCHANGED <<record, active>>

SetActive(c) ==
  /\ Thread(c, "spawned", "active")
  /\ active' = {c}
  /\ UNCHANGED <<procs, record>>

\* Without the directory the write is an OSError, which ends the check.
Record(c) ==
  /\ Thread(c, "active", IF runtime THEN "polling" ELSE "stopping")
  /\ record' = [record EXCEPT ![c] = runtime]
  /\ UNCHANGED <<procs, active>>

\* The leader has ended, the time is over, the output is too large, or the
\* output files are gone.
StopPolling(c) ==
  /\ Thread(c, "polling", "stopping")
  /\ UNCHANGED <<procs, record, active>>

\* _kill_group: the group is killed even when its leader has ended.
GroupKilled(processes) == {}

Kill(c) ==
  /\ Thread(c, "stopping", "killed")
  /\ procs' = [procs EXCEPT ![c] = GroupKilled(@)]
  /\ UNCHANGED <<record, active>>

\* The rest of the finally block, and the release of the lock.
Finish(c) ==
  /\ Thread(c, "killed", "answered")
  /\ active' = {}
  /\ record' = [record EXCEPT ![c] = FALSE]
  /\ UNCHANGED procs

\* The check's processes: one more is started, the leader ends.
Fork(c) ==
  /\ "leader" \in procs[c] /\ "others" \notin procs[c]
  /\ procs' = [procs EXCEPT ![c] = @ \cup {"others"}]
  /\ UNCHANGED <<hostVars, stage, record, active, server, watching, runtime, escaped>>

LeaderEnds(c) ==
  /\ "leader" \in procs[c]
  /\ procs' = [procs EXCEPT ![c] = @ \ {"leader"}]
  /\ UNCHANGED <<hostVars, stage, record, active, server, watching, runtime, escaped>>

------------------------------------------------------------------------------
\* _stop_active_process
ActiveStopped == [c \in Checks |-> IF c \in active THEN GroupKilled(procs[c]) ELSE procs[c]]

\* _termination_handler: the event loop ends; the interpreter then waits for
\* the threads, those that queue for the lock too.
OnSigterm ==
  /\ Alive("server") /\ "server" \in pending
  /\ procs' = ActiveStopped
  /\ server' = "ending" /\ pending' = pending \ {"server"}
  /\ UNCHANGED <<kind, host, group, crashes, forgotten>>
  /\ UNCHANGED <<stage, record, active, watching, runtime, escaped>>

\* _watch_parent fires once.
ParentGone ==
  /\ Alive("server") /\ ~Alive("provider") /\ watching
  /\ procs' = ActiveStopped
  /\ watching' = FALSE
  /\ UNCHANGED <<hostVars, stage, record, active, server, runtime, escaped>>

\* The provider's end of stdin is closed.
StdinEnds ==
  /\ Alive("server") /\ ~Alive("provider") /\ server = "serving"
  /\ server' = "ending"
  /\ UNCHANGED <<hostVars, stage, procs, record, active, watching, runtime, escaped>>

ServerExits ==
  /\ Alive("server") /\ server = "ending"
  /\ \A c \in Checks : stage[c] \in {"none", "answered"}
  /\ Leaves("server")
  /\ UNCHANGED <<kind, host, crashes, forgotten, checkVars>>

\* What a SIGKILL of the server leaves behind without a record: a process just
\* started, and one whose record went with the directory.
Unreachable ==
  {c \in Checks : /\ Alive("server")
                  /\ procs[c] # {}
                  /\ stage[c] \in {"spawned", "active"} \/ ~runtime}

ServerKilled ==
  /\ escaped' = escaped \cup Unreachable
  /\ UNCHANGED <<stage, procs, record, active, server, watching, runtime>>

------------------------------------------------------------------------------
\* Mutation: the directory is removed without a look at the records.
NotReaped(c) == procs[c]

\* _reap_check_processes: the group of a record is killed while its leader is
\* the process that was recorded.
Reaped(c) == IF record[c] /\ "leader" \in procs[c] THEN {} ELSE procs[c]

Leaderless == {c \in Checks : record[c] /\ procs[c] = {"others"}}

\* _cleanup_job_runtime at the end of the task, and the same for every directory
\* found by _cleanup_stale_runtime_dirs.
Reap ==
  /\ host \in {"cleaning", "stale"}
  /\ host' = IF host = "cleaning" THEN "removing" ELSE "removing stale"
  /\ procs' = [c \in Checks |-> Reaped(c)]
  /\ escaped' = escaped \cup Leaderless
  /\ record' = [c \in Checks |-> FALSE]
  /\ UNCHANGED <<kind, group, pending, crashes, forgotten>>
  /\ UNCHANGED <<stage, active, server, watching, runtime>>

Remove ==
  /\ host \in {"removing", "removing stale"}
  /\ host' = IF host = "removing" THEN "finished" ELSE "orphans"
  /\ runtime' = FALSE
  /\ record' = [c \in Checks |-> FALSE]
  /\ UNCHANGED <<kind, group, pending, crashes, forgotten>>
  /\ UNCHANGED <<stage, procs, active, server, watching, escaped>>

\* rmtree fails when a check still writes there: the end of a job goes on, a
\* starting daemon ends.
RemoveFails ==
  /\ host \in {"removing", "removing stale"}
  /\ runtime
  /\ \E c \in Checks : procs[c] # {} \/ stage[c] \in Running
  /\ IF host = "removing"
     THEN host' = "finished" /\ UNCHANGED <<crashes, forgotten>>
     ELSE /\ crashes < MaxCrashes
          /\ host' = "down" /\ crashes' = crashes + 1
          /\ forgotten' = TRUE
  /\ UNCHANGED <<kind, group, pending, checkVars>>

CheckStep(c) ==
  \/ Ask(c) \/ Enter(c) \/ Spawn(c) \/ SetActive(c) \/ Record(c)
  \/ StopPolling(c) \/ Kill(c) \/ Finish(c) \/ Fork(c) \/ LeaderEnds(c)

ServerStep == OnSigterm \/ ParentGone \/ StdinEnds \/ ServerExits

CleanupStep == Reap \/ Remove \/ RemoveFails

------------------------------------------------------------------------------
\* RUN_LOCK and the killed groups together keep it to one check at a time: no
\* process of a check runs next to a process of another one, whoever ended the
\* first and however.
OneCheckAtATime ==
  \A c, d \in Checks : procs[c] # {} /\ procs[d] # {} => c = d

\* When the job is over and its check server is gone, a process of a check is
\* left only if it never had a record that the cleanup could use.
NoCheckOutlivesJob ==
  host = "finished" /\ ~Alive("server") => \A c \in Checks : procs[c] # {} => c \in escaped
=============================================================================
