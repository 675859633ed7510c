---------------------------- MODULE Submission ----------------------------
(***************************************************************************)
(* Submitting a job (tools/agent_job_client.py, Supervisor.submit and      *)
(* JobStore.create): one idempotency key for both attempts of a caller,    *)
(* over connections that time out or break when the daemon ends, to        *)
(* daemons that may run under another configuration than the one that took *)
(* the first attempt.                                                      *)
(***************************************************************************)
EXTENDS ServiceInstaller

CONSTANTS Callers,   \* callers of submit, each of which submits one job
          Config     \* the part of a definition that the request hash contains

\* The job that is there before was submitted by somebody else.
ASSUME CallerAssumption == "other" \notin Callers

VARIABLES
  caller,    \* [attempt, state, answer]
  calls      \* requests at a daemon: [by, attempt, pid, result]

submissionVars == <<caller, calls>>

Attempts == 2

SubmissionInit ==
  /\ caller = [c \in Callers |-> [attempt |-> 0, state |-> "ready", answer |-> <<>>]]
  /\ calls = {}

\* Mutation: every attempt has a key of its own.
KeyOfAttempt(c, attempt) == <<c, attempt>>

Key(c, attempt) == <<c>>

\* Mutation: the hash depends on the process that computes it.
HashByProcess == daemon.pid

\* request_hash: of a request, the part that a configuration may change.
Hash == Config[daemon.plist]

------------------------------------------------------------------------------
(* The caller                                                              *)

Finish(c, answer) == [caller EXCEPT ![c].state = "done", ![c].answer = answer]

\* SupervisorUnavailable
Unavailable(c, attempt) ==
  IF attempt = Attempts THEN Finish(c, <<"unavailable">>)
  ELSE [caller EXCEPT ![c].state = "ready", ![c].attempt = attempt]

Try(c) ==
  /\ caller[c].state = "ready"
  /\ LET attempt == caller[c].attempt + 1 IN
       IF Up
       THEN /\ caller' = [caller EXCEPT ![c].state = "waiting", ![c].attempt = attempt]
            /\ calls' = calls \cup {[by |-> c, attempt |-> attempt, pid |-> daemon.pid,
                                     result |-> <<>>]}
       ELSE caller' = Unavailable(c, attempt) /\ UNCHANGED calls
  /\ UNCHANGED serviceVars

\* No answer in time; the request stays where it is.
TimeOut(c) ==
  /\ caller[c].state = "waiting"
  /\ caller' = Unavailable(c, caller[c].attempt)
  /\ UNCHANGED <<calls, serviceVars>>

Waits(call) == caller[call.by].state = "waiting" /\ caller[call.by].attempt = call.attempt
Served(call) == daemon.state # "down" /\ daemon.pid = call.pid

\* The process is gone: a request it has not read is reset, or both are closed
\* without an answer, which is not retried.
Cut(call) ==
  /\ ~Served(call)
  /\ calls' = calls \ {call}
  /\ IF Waits(call)
     THEN \/ call.result = <<>> /\ caller' = Unavailable(call.by, call.attempt)
          \/ caller' = Finish(call.by, <<"invalid">>)
     ELSE UNCHANGED caller
  /\ UNCHANGED serviceVars

------------------------------------------------------------------------------
(* The daemon, which serves open connections while it stops, too           *)

Known(key) == {j \in DOMAIN jobs : jobs[j].key = key}

Answered(call, result) == calls' = (calls \ {call}) \cup {[call EXCEPT !.result = result]}

\* JobStore.create finds a row of the key (a refusal has, as history, the
\* definition its daemon runs under) ...
Repeat(call) ==
  /\ Served(call) /\ call.result = <<>>
  /\ \E j \in Known(Key(call.by, call.attempt)) :
       Answered(call, IF jobs[j].hash = Hash THEN <<"job", j>> ELSE <<"refused", daemon.plist>>)
  /\ UNCHANGED <<caller, serviceVars>>

\* ... or commits a new one.
Create(call) ==
  /\ Served(call) /\ call.result = <<>>
  /\ LET key == Key(call.by, call.attempt) IN
       /\ Known(key) = {}
       /\ jobs' = Append(jobs, [by |-> call.by, key |-> key, hash |-> Hash, status |-> "queued",
                            attempt |-> call.attempt, under |-> daemon.plist])
       /\ Answered(call, <<"job", Len(jobs) + 1>>)
  /\ UNCHANGED <<caller, daemon, loaded, plist, inst, steady>>

\* The answer is written, to a caller that may have left.
Reply(call) ==
  /\ Served(call) /\ call.result # <<>>
  /\ calls' = calls \ {call}
  /\ caller' = IF Waits(call) THEN Finish(call.by, call.result) ELSE caller
  /\ UNCHANGED serviceVars

SubmissionStep ==
  \/ \E c \in Callers : Try(c) \/ TimeOut(c)
  \/ \E call \in calls : Cut(call) \/ Repeat(call) \/ Create(call) \/ Reply(call)
------------------------------------------------------------------------------
vars == <<serviceVars, submissionVars>>

Init == ServiceInit /\ SubmissionInit

Next ==
  \/ SubmissionStep
  \/ (DaemonStep \/ InstallerStep) /\ UNCHANGED submissionVars

Spec == Init /\ [][Next]_vars

\* An installer whose questions were answered does not stop a job that was in
\* flight when it began to ask, however the job moved between its questions.
SparesListedJobs == At("bootout") /\ inst.old # 0 => steady = {}

\* The daemon in whose name the installer says "Installed and started" is one that
\* launchd launched from the definition just written, not the one that was there
\* before and not one started by hand; unless launchctl printed another pid, that
\* only begins with its.
InstalledIsLaunchds ==
  At("installed") =>
    \/ inst.ready.managed /\ inst.ready.plist = plist
    \/ inst.shown # inst.ready.pid /\ Begins(inst.ready.pid, inst.shown)

\* A submission makes one job, through both attempts, late requests of the
\* first, and daemons that end before or after the commit; a caller that gets
\* a job gets its own.
SubmittedOnce ==
  \A c \in Callers :
    /\ \A i, j \in DOMAIN jobs : jobs[i].by = c /\ jobs[j].by = c => i = j
    /\ caller[c].state = "done" /\ caller[c].answer[1] = "job" =>
         jobs[caller[c].answer[2]].by = c

\* A caller is told that its key belongs to another job only at its second attempt,
\* and only when the service was configured anew between the two: its first made the
\* row at a daemon of an earlier definition, which has another configuration than that
\* of the daemon that refuses.
RefusedMeansReconfigured ==
  \A c \in Callers :
    caller[c].answer # <<>> /\ caller[c].answer[1] = "refused" =>
      /\ caller[c].attempt = Attempts
      /\ \E j \in DOMAIN jobs :
           /\ jobs[j].by = c /\ jobs[j].attempt = 1
           /\ jobs[j].under < caller[c].answer[2]
           /\ Config[jobs[j].under] # Config[caller[c].answer[2]]
=============================================================================
