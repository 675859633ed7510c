-------------------------- MODULE SubmissionProofs --------------------------
(***************************************************************************)
(* Proofs about Submission, for any callers, configurations, daemon        *)
(* processes and runs of the installer: a submission makes one job, a      *)
(* refusal means another configuration, no job in flight is stopped by an  *)
(* installer that asked, and what it verifies is launchd's.                *)
(***************************************************************************)
EXTENDS Submission, TLAPS

Hashes == {0} \cup {Config[p] : p \in Nat}
Statuses == {"queued", "launching", "running", "ended", "interrupted"}
Row == [by : Callers \cup {"other"}, key : {<<c>> : c \in Callers \cup {"other"}},
        hash : Hashes, status : Statuses, attempt : Nat, under : Nat]
Answers == {<<>>, <<"unavailable">>, <<"invalid">>} \cup {<<"refused", q>> : q \in Nat}
           \cup {<<"job", j>> : j \in Nat}
Steps == {"idle", "failed", "installed", "ping", "launching", "running", "bootout", "await",
          "write", "bootstrap", "kickstart", "ready", "verify"}

Daemons == [state : {"up", "stopping", "down"}, pid : Nat, plist : Nat, managed : BOOLEAN]
Runs == [pc : Steps, runs : Nat, old : Nat, found : SUBSET Nat, ready : Daemons, shown : Nat]

ServiceTypeOK ==
  /\ daemon \in Daemons
  /\ loaded \in Nat /\ plist \in Nat
  /\ inst \in Runs
  /\ steady \subseteq Nat

CallTypeOK ==
  /\ caller \in [Callers -> [attempt : Nat, state : {"ready", "waiting", "done"}, answer : Answers]]
  /\ calls \subseteq [by : Callers, attempt : Nat, pid : Nat, result : Answers]

\* The installer asks its two questions about the jobs that were in flight at
\* the first one: those that did not end since were launching, or are running.
SpareInv ==
  /\ At("ping") => inst.old = 0
  /\ At("running") => steady \subseteq {j \in DOMAIN jobs : j \in inst.found \/ jobs[j].status = "running"}
  /\ SparesListedJobs

\* What launchd has not loaded it does not keep, and what it loads is never older
\* than what runs; from the bootstrap on it has the definition just written.
PlistInv ==
  /\ daemon.plist \in 1 .. plist /\ loaded \in 0 .. plist
  /\ loaded = 0 => ~(Up /\ daemon.managed)
  /\ loaded # 0 => daemon.plist <= loaded
  /\ inst.pc \in {"kickstart", "ready", "verify"} =>
       loaded = plist /\ (Up /\ daemon.managed => daemon.plist = plist)

\* The daemon that was ready is the one that is there, or one before it; if it was
\* launchd's, it runs what was written.
ReadyInv ==
  /\ At("verify") =>
       /\ inst.ready.pid <= daemon.pid
       /\ inst.ready.pid = daemon.pid => inst.ready.managed = daemon.managed
       /\ inst.ready.managed => inst.ready.plist = plist
  /\ InstalledIsLaunchds

\* A row has the key of its caller, which no other row has, and the hash of a
\* definition no later than that of the daemon.
RowInv ==
  /\ jobs \in Seq(Row)
  /\ \A i \in DOMAIN jobs :
       /\ jobs[i].key = <<jobs[i].by>>
       /\ jobs[i].by \in Callers =>
            jobs[i].under \in 1 .. daemon.plist /\ jobs[i].hash = Config[jobs[i].under]
  /\ \A i, j \in DOMAIN jobs : jobs[i].by = jobs[j].by => i = j

\* An attempt makes one request, which is over when it has made a row.
AttemptInv ==
  /\ \A c \in Callers :
       /\ caller[c].attempt \in 0 .. Attempts
       /\ caller[c].state = "ready" => caller[c].attempt < Attempts
  /\ \A call \in calls : call.attempt \in 1 .. caller[call.by].attempt
  /\ \A one, other \in calls : one.by = other.by /\ one.attempt = other.attempt => one = other
  /\ \A j \in DOMAIN jobs :
       jobs[j].by \in Callers =>
         /\ jobs[j].attempt \in 1 .. caller[jobs[j].by].attempt
         /\ \A call \in calls :
              call.by = jobs[j].by /\ call.attempt = jobs[j].attempt => call.result # <<>>

\* A row of the caller that another attempt made at a daemon of an earlier
\* definition, which has another configuration than definition q.
Conflicts(c, attempt, q) ==
  \E j \in DOMAIN jobs :
    /\ jobs[j].by = c /\ jobs[j].attempt # attempt
    /\ jobs[j].under < q /\ Config[jobs[j].under] # Config[q]

\* What an attempt of a caller may be told.
True(c, attempt, answer) ==
  \/ answer \in {<<>>, <<"unavailable">>, <<"invalid">>}
  \/ \E q \in Nat : answer = <<"refused", q>> /\ Conflicts(c, attempt, q)
  \/ \E j \in DOMAIN jobs : answer = <<"job", j>> /\ jobs[j].by = c

AnswerInv ==
  /\ \A call \in calls : True(call.by, call.attempt, call.result)
  /\ \A c \in Callers : True(c, caller[c].attempt, caller[c].answer)
  /\ \A c \in Callers : caller[c].state = "done" <=> caller[c].answer # <<>>

\* The inductive invariant.
SubmissionInv ==
  /\ ServiceTypeOK /\ SpareInv /\ PlistInv /\ ReadyInv /\ RowInv
  /\ CallTypeOK /\ AttemptInv /\ AnswerInv

------------------------------------------------------------------------------
LEMMA InitHolds == Init => SubmissionInv
<1> SUFFICES ASSUME Init PROVE SubmissionInv
  OBVIOUS
<1>1. ServiceTypeOK
  BY DEF Init, ServiceInit, ServiceTypeOK, Steps, Daemons, Runs, None
<1>2. CallTypeOK
  BY DEF Init, SubmissionInit, CallTypeOK, Answers
<1>3. SpareInv /\ PlistInv /\ ReadyInv
  <2>1. inst.pc = "idle"
    BY DEF Init, ServiceInit
  <2>2. PlistInv
    <3>1. PICK by \in {"launchd", "hand"} :
             /\ daemon = [state |-> "up", pid |-> 1, plist |-> 1, managed |-> by = "launchd"]
             /\ loaded = IF by = "launchd" THEN 1 ELSE 0
      BY DEF Init, ServiceInit
    <3>2. plist = 1 /\ daemon.plist = 1 /\ loaded \in {0, 1}
      BY <3>1 DEF Init, ServiceInit
    <3>3. loaded = 0 => ~daemon.managed
      <4>1. CASE by = "launchd"
        BY <3>1, <4>1
      <4>2. CASE by = "hand"
        <5>1. daemon.managed = ("hand" = "launchd")
          BY <3>1, <4>2
        <5> QED BY <5>1
      <4> QED BY <4>1, <4>2
    <3> QED BY <2>1, <3>2, <3>3 DEF PlistInv
  <2> QED BY <2>1, <2>2 DEF SpareInv, ReadyInv, InstalledIsLaunchds, SparesListedJobs, At
<1>4. RowInv /\ AttemptInv
  <2> DEFINE first == [by |-> "other", key |-> <<"other">>, hash |-> 0, status |-> "queued",
                       attempt |-> 0, under |-> 1]
  <2>1. first \in Row /\ first.by = "other" /\ first.key = <<"other">>
    BY DEF Row, Hashes, Statuses
  <2>2. jobs = <<first>>
    BY DEF Init, ServiceInit
  <2> HIDE DEF first
  <2>3. jobs \in Seq(Row) /\ DOMAIN jobs = {1} /\ jobs[1] = first
    BY <2>1, <2>2
  <2>4. RowInv
    BY <2>1, <2>3, CallerAssumption DEF RowInv
  <2>5. AttemptInv
    BY <2>1, <2>3, CallerAssumption DEF AttemptInv, Init, SubmissionInit, Attempts
  <2> QED BY <2>4, <2>5
<1>5. AnswerInv
  BY DEF Init, SubmissionInit, AnswerInv, True
<1> QED BY <1>1, <1>2, <1>3, <1>4, <1>5 DEF SubmissionInv

\* What history tells of a row stays.
Extended ==
  /\ DOMAIN jobs \subseteq DOMAIN jobs'
  /\ \A j \in DOMAIN jobs :
       /\ jobs'[j].by = jobs[j].by /\ jobs'[j].attempt = jobs[j].attempt
       /\ jobs'[j].under = jobs[j].under

\* Rows that are added keep what was answered true.
LEMMA TrueStays ==
  ASSUME Extended, NEW c, NEW attempt, NEW answer, True(c, attempt, answer)
  PROVE  True(c, attempt, answer)'
<1>1. ASSUME NEW q \in Nat, Conflicts(c, attempt, q)
      PROVE  Conflicts(c, attempt, q)'
  BY <1>1 DEF Conflicts, Extended
<1>2. CASE answer \in {<<>>, <<"unavailable">>, <<"invalid">>}
  BY <1>2 DEF True
<1>3. CASE \E q \in Nat : answer = <<"refused", q>> /\ Conflicts(c, attempt, q)
  BY <1>1, <1>3 DEF True
<1>4. CASE \E j \in DOMAIN jobs : answer = <<"job", j>> /\ jobs[j].by = c
  BY <1>4 DEF True, Extended
<1> QED BY <1>2, <1>3, <1>4 DEF True

\* The definition under which daemons run does not get older.
Newer == daemon.plist \in Nat /\ daemon'.plist \in Nat /\ daemon.plist <= daemon'.plist

\* A change of statuses is no more than that.
LEMMA StatusesOnly ==
  ASSUME RowInv, Newer,
         NEW f, DOMAIN f = DOMAIN jobs, \A j \in DOMAIN jobs : f[j] \in Statuses,
         jobs' = [j \in DOMAIN jobs |-> [jobs[j] EXCEPT !.status = f[j]]]
  PROVE  RowInv' /\ Extended /\ DOMAIN jobs' = DOMAIN jobs
<1>1. \A j \in DOMAIN jobs : jobs[j] \in Row /\ jobs'[j] = [jobs[j] EXCEPT !.status = f[j]]
  BY DEF RowInv
<1>2. \A j \in DOMAIN jobs : /\ jobs'[j] \in Row /\ jobs'[j].by = jobs[j].by
                             /\ jobs'[j].key = jobs[j].key /\ jobs'[j].hash = jobs[j].hash
                             /\ jobs'[j].attempt = jobs[j].attempt /\ jobs'[j].under = jobs[j].under
  BY <1>1 DEF Row
<1>3. DOMAIN jobs' = DOMAIN jobs
  OBVIOUS
<1>4. jobs' \in Seq(Row)
  <2>1. Len(jobs) \in Nat /\ DOMAIN jobs = 1 .. Len(jobs)
    BY DEF RowInv
  <2>2. jobs' \in [1 .. Len(jobs) -> Row]
    BY <1>2, <2>1
  <2> QED BY <2>1, <2>2, SMT
<1>5. Extended
  BY <1>2, <1>3 DEF Extended
<1>6. \A p \in 1 .. daemon.plist : p \in 1 .. daemon'.plist
  BY DEF Newer
<1>7. ASSUME NEW i \in DOMAIN jobs'
      PROVE  /\ jobs'[i].key = <<jobs'[i].by>>
             /\ jobs'[i].by \in Callers =>
                  jobs'[i].under \in 1 .. daemon'.plist /\ jobs'[i].hash = Config[jobs'[i].under]
  BY <1>2, <1>3, <1>6 DEF RowInv
<1>8. ASSUME NEW i \in DOMAIN jobs', NEW j \in DOMAIN jobs', jobs'[i].by = jobs'[j].by
      PROVE  i = j
  BY <1>2, <1>3, <1>8 DEF RowInv
<1> QED BY <1>3, <1>4, <1>5, <1>7, <1>8 DEF RowInv

------------------------------------------------------------------------------
(* The daemon and the installer                                            *)

\* What becomes of the rows when a process starts or is asked to stop.
LEMMA InterruptedIsStatuses ==
  ASSUME RowInv, Newer, jobs' = Interrupted
  PROVE  RowInv' /\ Extended /\ DOMAIN jobs' = DOMAIN jobs
<1> DEFINE f == [j \in DOMAIN jobs |-> IF j \in Active THEN "interrupted" ELSE jobs[j].status]
<1>1. \A j \in DOMAIN jobs : jobs[j] \in Row
  BY DEF RowInv
<1>2. DOMAIN f = DOMAIN jobs /\ \A j \in DOMAIN jobs : f[j] \in Statuses
  BY <1>1 DEF Row, Statuses
<1>3. ASSUME NEW j \in DOMAIN jobs
      PROVE  (IF j \in Active THEN [jobs[j] EXCEPT !.status = "interrupted"] ELSE jobs[j])
             = [jobs[j] EXCEPT !.status = f[j]]
  BY <1>1 DEF Row
<1>4. jobs' = [j \in DOMAIN jobs |-> [jobs[j] EXCEPT !.status = f[j]]]
  BY <1>3 DEF Interrupted
<1> HIDE DEF f
<1> QED BY <1>2, <1>4, StatusesOnly

LEMMA ProgressIsStatuses ==
  ASSUME RowInv, Newer,
         NEW j \in DOMAIN jobs, NEW to \in Statuses, jobs' = [jobs EXCEPT ![j].status = to]
  PROVE  RowInv' /\ Extended /\ DOMAIN jobs' = DOMAIN jobs
<1> DEFINE f == [i \in DOMAIN jobs |-> IF i = j THEN to ELSE jobs[i].status]
<1>1. \A i \in DOMAIN jobs : jobs[i] \in Row
  BY DEF RowInv
<1>2. DOMAIN f = DOMAIN jobs /\ \A i \in DOMAIN jobs : f[i] \in Statuses
  BY <1>1 DEF Row
<1>3. ASSUME NEW i \in DOMAIN jobs
      PROVE  jobs'[i] = [jobs[i] EXCEPT !.status = f[i]]
  BY <1>1 DEF Row
<1>4. DOMAIN jobs' = DOMAIN jobs /\ jobs' = [i \in DOMAIN jobs |-> jobs'[i]]
  OBVIOUS
<1>5. jobs' = [i \in DOMAIN jobs |-> [jobs[i] EXCEPT !.status = f[i]]]
  BY <1>3, <1>4
<1> HIDE DEF f
<1> QED BY <1>2, <1>5, StatusesOnly

LEMMA RowsUntouched ==
  ASSUME RowInv, Newer, UNCHANGED jobs
  PROVE  RowInv' /\ Extended /\ DOMAIN jobs' = DOMAIN jobs
<1>1. \A q \in 1 .. daemon.plist : q \in 1 .. daemon'.plist
  BY DEF Newer
<1> QED BY <1>1 DEF RowInv, Extended

\* Every step of the daemon and of the installer keeps the types and the rows.
LEMMA ServiceKeepsTypes ==
  ASSUME ServiceTypeOK, RowInv, DaemonStep \/ InstallerStep
  PROVE  ServiceTypeOK'
<1>0. DOMAIN jobs \subseteq Nat
  BY DEF RowInv
<1>n. None \in Daemons
  BY DEF None, Daemons
<1>f. Fails => inst' \in Runs
  BY <1>n DEF Fails, Runs, ServiceTypeOK, Steps
<1> USE DEF ServiceTypeOK, Steps, Goto, InstallerOnly, Daemons, Runs
<1>1. CASE Launch
  BY <1>1 DEF Launch
<1>2. CASE Die
  BY <1>2 DEF Die
<1>3. ASSUME NEW j \in DOMAIN jobs, NEW from, NEW to, Progress(j, from, to)
      PROVE  ServiceTypeOK'
  BY <1>3 DEF Progress
<1>4. CASE Install
  BY <1>4, <1>n DEF Install
<1>5. CASE Ping
  BY <1>5 DEF Ping
<1>6. ASSUME NEW k \in 1 .. 2, ListJobs(k)
      PROVE  ServiceTypeOK'
  <2> DEFINE found == {j \in DOMAIN jobs : jobs[j].status = Listed[k]}
  <2>1. found \subseteq Nat /\ Active \subseteq Nat
    BY <1>0 DEF Active
  <2>2. UNCHANGED <<daemon, loaded, plist>> /\ steady' \subseteq Nat
    BY <1>6, <2>1 DEF ListJobs
  <2>3. \/ Fails
        \/ inst' = [inst EXCEPT !.found = found, !.pc = "running"]
        \/ inst' = [inst EXCEPT !.pc = "bootout"]
    BY <1>6 DEF ListJobs
  <2> HIDE DEF found
  <2>4. inst' \in Runs
    BY <1>f, <2>1, <2>3
  <2> QED BY <2>2, <2>4
<1>7. CASE Bootout
  BY <1>7 DEF Bootout
<1>8. CASE AwaitGone \/ AwaitTimedOut
  BY <1>8, <1>f DEF AwaitGone, AwaitTimedOut
<1>9. CASE WritePlist
  BY <1>9 DEF WritePlist
<1>10. CASE Bootstrap
  BY <1>10, <1>f DEF Bootstrap
<1>11. CASE Kickstart
  BY <1>11, <1>f DEF Kickstart
<1>12. CASE Ready
  BY <1>12, <1>f DEF Ready
<1>13. CASE Verify
  <2>1. \A p \in 1 .. MaxPids : p \in Nat
    BY ServiceAssumption
  <2>2. inst' \in Runs
    BY <1>13, <1>f, <2>1 DEF Verify
  <2> QED BY <1>13, <2>2 DEF Verify
<1> QED BY <1>1, <1>2, <1>3, <1>4, <1>5, <1>6, <1>7, <1>8, <1>9, <1>10, <1>11, <1>12, <1>13
     DEF DaemonStep, InstallerStep

LEMMA ServiceKeepsRows ==
  ASSUME ServiceTypeOK, PlistInv, RowInv, DaemonStep \/ InstallerStep
  PROVE  RowInv' /\ Extended /\ DOMAIN jobs' = DOMAIN jobs
<1>0. daemon.plist \in Nat /\ loaded \in Nat
  BY DEF ServiceTypeOK, Daemons
<1>n. daemon'.plist = daemon.plist => Newer
  BY <1>0 DEF Newer
<1>1. CASE Launch
  <2>1. Newer /\ jobs' = Interrupted
    BY <1>0, <1>1 DEF Launch, Newer, PlistInv
  <2> QED BY <2>1, InterruptedIsStatuses
<1>2. CASE Bootout
  <2>1. daemon'.plist = daemon.plist
    BY <1>2 DEF Bootout, ServiceTypeOK, Daemons
  <2>2. CASE jobs' = Interrupted
    BY <1>n, <2>1, <2>2, InterruptedIsStatuses
  <2>3. CASE UNCHANGED jobs
    BY <1>n, <2>1, <2>3, RowsUntouched
  <2> QED BY <1>2, <2>2, <2>3 DEF Bootout
<1>3. ASSUME NEW j \in DOMAIN jobs, NEW from, NEW to \in Statuses, Progress(j, from, to)
      PROVE  RowInv' /\ Extended /\ DOMAIN jobs' = DOMAIN jobs
  BY <1>n, <1>3, ProgressIsStatuses DEF Progress
<1>4. CASE \/ Die \/ Install \/ Ping \/ \E k \in 1 .. 2 : ListJobs(k)
           \/ AwaitGone \/ AwaitTimedOut \/ WritePlist \/ Bootstrap \/ Kickstart \/ Ready \/ Verify
  <2>1. UNCHANGED jobs /\ daemon'.plist = daemon.plist
    BY <1>4 DEF Die, Install, Ping, ListJobs, AwaitGone, AwaitTimedOut, WritePlist, Bootstrap,
           Kickstart, Ready, Verify, InstallerOnly, ServiceTypeOK, Daemons
  <2> QED BY <1>n, <2>1, RowsUntouched
<1> QED BY <1>1, <1>2, <1>3, <1>4 DEF DaemonStep, InstallerStep, Statuses

\* The two questions of the installer, each with its own next step.
LEMMA FirstQuestion ==
  ASSUME ListJobs(1)
  PROVE  /\ UNCHANGED jobs
         /\ \/ /\ inst' = [inst EXCEPT !.found = {j \in DOMAIN jobs : jobs[j].status = "launching"},
                                    !.pc = "running"]
               /\ steady' = Active
            \/ Fails /\ steady' = {}
<1> DEFINE found == {j \in DOMAIN jobs : jobs[j].status = Listed[1]}
<1>1. Listed[1] = "launching" /\ 1 # 2
  BY DEF Listed
<1>2. UNCHANGED jobs
  BY DEF ListJobs
<1>3. \/ inst' = [inst EXCEPT !.found = found, !.pc = "running"] /\ steady' = Active
      \/ Fails /\ steady' = {}
  BY <1>1, Zenon DEF ListJobs
<1>4. found = {j \in DOMAIN jobs : jobs[j].status = "launching"}
  BY <1>1
<1> HIDE DEF found
<1> QED BY <1>2, <1>3, <1>4

LEMMA SecondQuestion ==
  ASSUME ListJobs(2)
  PROVE  /\ At("running")
         /\ \/ /\ inst.found \cup {j \in DOMAIN jobs : jobs[j].status = "running"} = {}
               /\ steady' = steady /\ inst' = [inst EXCEPT !.pc = "bootout"]
            \/ Fails /\ steady' = {}
<1> DEFINE found == {j \in DOMAIN jobs : jobs[j].status = Listed[2]}
<1>1. Listed[2] = "running" /\ <<"launching", "running">>[2] = "running" /\ 2 # 1
  BY DEF Listed
<1>2. At("running")
  BY <1>1, Zenon DEF ListJobs
<1>3. \/ inst.found \cup found = {} /\ steady' = steady /\ inst' = [inst EXCEPT !.pc = "bootout"]
      \/ Fails /\ steady' = {}
  BY <1>1, Zenon DEF ListJobs, Goto
<1>4. found = {j \in DOMAIN jobs : jobs[j].status = "running"}
  BY <1>1
<1> HIDE DEF found
<1> QED BY <1>2, <1>3, <1>4

\* A job in flight goes from launching to running, or is not steady any more;
\* after the second question none is left that is.
LEMMA ServiceKeepsSpare ==
  ASSUME ServiceTypeOK, RowInv, SpareInv, DaemonStep \/ InstallerStep
  PROVE  SpareInv'
<1> USE DEF SpareInv, SparesListedJobs, At
<1>1. CASE Launch
  BY <1>1 DEF Launch
<1>2. CASE Die
  BY <1>2 DEF Die
<1>3. ASSUME NEW j \in DOMAIN jobs, NEW from, NEW to,
             <<from, to>> \in {<<"queued", "launching">>, <<"launching", "running">>,
                               <<"launching", "ended">>, <<"running", "ended">>},
             Progress(j, from, to)
      PROVE  SpareInv'
  <2>1. UNCHANGED inst /\ steady' \subseteq steady
    BY <1>3 DEF Progress
  <2>2. ASSUME At("running"), NEW i \in steady', i \notin inst.found
        PROVE  i \in DOMAIN jobs' /\ jobs'[i].status = "running"
    <3>1. i \in DOMAIN jobs /\ jobs[i].status = "running"
      BY <2>1, <2>2
    <3>2. DOMAIN jobs' = DOMAIN jobs
      BY <1>3 DEF Progress
    <3>3. CASE i = j
      BY <1>3, <2>2, <3>1, <3>3 DEF Progress
    <3>4. CASE i # j
      BY <1>3, <3>1, <3>4 DEF Progress
    <3> QED BY <3>1, <3>2, <3>3, <3>4
  <2>3. ASSUME At("running"), NEW i \in steady'
        PROVE  i \in DOMAIN jobs'
    BY <1>3, <2>1, <2>3 DEF Progress
  <2> QED BY <2>1, <2>2, <2>3
<1>4. CASE Install
  BY <1>4 DEF Install
<1>5. CASE Ping
  BY <1>5 DEF Ping, Goto, InstallerOnly, ServiceTypeOK, Runs
<1>f. Fails => inst'.pc = "failed"
  BY DEF Fails
<1>6. CASE ListJobs(1)
  <2>1. inst'.pc \in {"running", "failed"}
    BY <1>6, <1>f, FirstQuestion DEF ServiceTypeOK, Runs
  <2>2. ASSUME inst'.pc = "running"
        PROVE  /\ inst'.found = {j \in DOMAIN jobs : jobs[j].status = "launching"}
               /\ steady' = Active /\ UNCHANGED jobs
    BY <1>6, <1>f, <2>2, FirstQuestion DEF ServiceTypeOK, Runs
  <2> QED BY <2>1, <2>2 DEF Active, InFlight
<1>7. CASE ListJobs(2)
  <2>1. At("running") /\ inst'.pc \in {"bootout", "failed"}
    BY <1>7, <1>f, SecondQuestion DEF ServiceTypeOK, Runs
  <2>2. ASSUME inst'.pc = "bootout"
        PROVE  /\ inst.found = {} /\ {j \in DOMAIN jobs : jobs[j].status = "running"} = {}
               /\ steady' = steady
    BY <1>7, <1>f, <2>2, SecondQuestion DEF ServiceTypeOK, Runs
  <2> QED BY <2>1, <2>2
<1>8. CASE Bootout \/ AwaitGone \/ AwaitTimedOut \/ WritePlist \/ Bootstrap \/ Kickstart \/ Ready \/ Verify
  <2>1. inst'.pc \notin {"ping", "running", "bootout"}
    BY <1>8, <1>f DEF Bootout, AwaitGone, AwaitTimedOut, WritePlist, Bootstrap, Kickstart, Ready, Verify,
           Goto, ServiceTypeOK, Runs
  <2> QED BY <2>1
<1>9. (\E k \in 1 .. 2 : ListJobs(k)) => ListJobs(1) \/ ListJobs(2)
  OBVIOUS
<1> QED BY <1>1, <1>2, <1>3, <1>4, <1>5, <1>6, <1>7, <1>8, <1>9 DEF DaemonStep, InstallerStep

\* launchd starts what is loaded, which is what was written last once the
\* bootstrap found nothing loaded.
LEMMA ServiceKeepsPlist ==
  ASSUME ServiceTypeOK, PlistInv, DaemonStep \/ InstallerStep
  PROVE  PlistInv'
<1>f. Fails => inst'.pc = "failed"
  BY DEF Fails
<1> USE DEF PlistInv, ServiceTypeOK, Daemons, Runs, Up, At, Goto, InstallerOnly
<1>1. CASE Launch
  BY <1>1 DEF Launch
<1>2. CASE Die
  BY <1>2 DEF Die
<1>3. ASSUME NEW j, NEW from, NEW to, Progress(j, from, to)
      PROVE  PlistInv'
  BY <1>3 DEF Progress
<1>4. CASE Install
  BY <1>4 DEF Install
<1>5. CASE Ping
  BY <1>5 DEF Ping
<1>6. ASSUME NEW k \in 1 .. 2, ListJobs(k)
      PROVE  PlistInv'
  <2>1. inst'.pc \in {"running", "bootout", "failed"} /\ UNCHANGED <<daemon, loaded, plist>>
    BY <1>6, <1>f DEF ListJobs
  <2> QED BY <2>1
<1>7. CASE Bootout
  BY <1>7 DEF Bootout
<1>8. CASE AwaitGone \/ AwaitTimedOut
  BY <1>8, <1>f DEF AwaitGone, AwaitTimedOut
<1>9. CASE WritePlist
  BY <1>9 DEF WritePlist
<1>10. CASE Bootstrap
  BY <1>10, <1>f DEF Bootstrap
<1>11. CASE Kickstart
  BY <1>11, <1>f DEF Kickstart
<1>12. CASE Ready \/ Verify
  BY <1>12, <1>f DEF Ready, Verify
<1> QED BY <1>1, <1>2, <1>3, <1>4, <1>5, <1>6, <1>7, <1>8, <1>9, <1>10, <1>11, <1>12
     DEF DaemonStep, InstallerStep

\* What was ready when the installer asked may be gone when launchctl answers, but
\* it does not change: another process has another pid.
LEMMA ServiceKeepsReady ==
  ASSUME ServiceTypeOK, PlistInv, ReadyInv, DaemonStep \/ InstallerStep
  PROVE  ReadyInv'
<1>f. Fails => inst'.pc = "failed"
  BY DEF Fails
<1> USE DEF ReadyInv, InstalledIsLaunchds, At
<1>1. CASE \/ Launch \/ Die
           \/ \E j \in DOMAIN jobs, from, to \in {"queued", "launching", "running", "ended"} :
                Progress(j, from, to)
  <2>1. UNCHANGED <<inst, plist>>
    BY <1>1 DEF Launch, Die, Progress
  <2>2. /\ daemon.pid \in Nat /\ daemon'.pid \in Nat /\ daemon'.pid >= daemon.pid
        /\ daemon'.pid = daemon.pid => daemon'.managed = daemon.managed
    BY <1>1 DEF Launch, Die, Progress, ServiceTypeOK, Daemons
  <2>3. inst.ready.pid \in Nat
    BY DEF ServiceTypeOK, Runs, Daemons
  <2>4. At("verify")' => inst.ready.pid <= daemon'.pid
    BY <2>1, <2>2, <2>3
  <2>5. At("verify")' /\ inst.ready.pid = daemon'.pid => inst.ready.managed = daemon'.managed
    BY <2>1, <2>2, <2>3
  <2> QED BY <2>1, <2>4, <2>5
<1>2. CASE Ready
  <2>1. CASE Up /\ inst' = [inst EXCEPT !.pc = "verify", !.ready = daemon]
    <3>1. inst'.pc = "verify" /\ inst'.ready = daemon /\ UNCHANGED <<daemon, plist>>
      BY <1>2, <2>1 DEF Ready, InstallerOnly, ServiceTypeOK, Runs
    <3>2. daemon.managed => daemon.plist = plist
      BY <1>2, <2>1 DEF Ready, PlistInv
    <3> QED BY <3>1, <3>2 DEF ServiceTypeOK, Daemons
  <2>2. CASE Fails
    BY <1>f, <2>2
  <2> QED BY <1>2, <2>1, <2>2 DEF Ready
<1>3. CASE Verify
  <2>1. ASSUME NEW p \in 1 .. MaxPids, Verified(p),
               inst' = [inst EXCEPT !.pc = "installed", !.shown = p]
        PROVE  ReadyInv'
    <3>1. /\ inst'.pc = "installed" /\ inst'.shown = p /\ inst'.ready = inst.ready
          /\ UNCHANGED <<daemon, plist>> /\ At("verify")
      BY <1>3, <2>1 DEF Verify, InstallerOnly, ServiceTypeOK, Runs
    <3>2. inst.ready.pid <= daemon.pid /\ inst.ready.pid \in Nat /\ daemon.pid \in Nat
      BY <3>1 DEF ServiceTypeOK, Runs, Daemons
    <3>3. CASE p = inst.ready.pid
      <4>1. p = daemon.pid /\ daemon.managed
        BY <2>1, <3>2, <3>3 DEF Verified, Shown
      <4>2. inst.ready.managed /\ inst.ready.plist = plist
        BY <3>1, <3>3, <4>1
      <4> QED BY <3>1, <4>2
    <3>4. CASE p # inst.ready.pid
      <4>1. Begins(inst.ready.pid, p)
        BY <2>1 DEF Verified
      <4>2. Begins(inst'.ready.pid, inst'.shown)
        BY <3>1, <4>1
      <4>3. InstalledIsLaunchds'
        BY <3>1, <3>4, <4>2 DEF Begins
      <4> QED BY <3>1, <4>3
    <3> QED BY <3>3, <3>4
  <2>2. CASE Fails
    BY <1>f, <2>2
  <2> QED BY <1>3, <2>1, <2>2 DEF Verify
<1>4. CASE \/ Install \/ Ping \/ Bootout \/ AwaitGone \/ AwaitTimedOut \/ WritePlist
           \/ Bootstrap \/ Kickstart
           \/ \E k \in 1 .. 2 : ListJobs(k)
  <2>1. ASSUME NEW k \in 1 .. 2, ListJobs(k)
        PROVE  inst'.pc \in {"running", "bootout", "failed"}
    BY <1>f, <2>1 DEF ListJobs, Goto, ServiceTypeOK, Runs
  <2>2. ASSUME Install \/ Ping \/ Bootout \/ AwaitGone \/ WritePlist
        PROVE  inst'.pc \in {"ping", "launching", "bootout", "write", "await", "bootstrap"}
    <3> USE DEF Goto, ServiceTypeOK, Runs
    <3>1. CASE Install
      BY <3>1 DEF Install
    <3>2. CASE Ping
      BY <3>2 DEF Ping
    <3>3. CASE Bootout
      BY <3>3 DEF Bootout
    <3>4. CASE AwaitGone \/ WritePlist
      BY <3>4 DEF AwaitGone, WritePlist
    <3> QED BY <2>2, <3>1, <3>2, <3>3, <3>4
  <2>3. ASSUME AwaitTimedOut \/ Bootstrap \/ Kickstart
        PROVE  inst'.pc \in {"failed", "kickstart", "ready"}
    BY <1>f, <2>3 DEF AwaitTimedOut, Bootstrap, Kickstart, Goto, ServiceTypeOK, Runs
  <2>4. inst'.pc \notin {"verify", "installed"}
    BY <1>4, <2>1, <2>2, <2>3
  <2> QED BY <2>4
<1> QED BY <1>1, <1>2, <1>3, <1>4 DEF DaemonStep, InstallerStep

------------------------------------------------------------------------------
(* The callers and their requests                                          *)

\* A new row is the only one of its caller.
LEMMA CreateKeepsRows ==
  ASSUME ServiceTypeOK, CallTypeOK, PlistInv, RowInv, NEW call \in calls, Create(call)
  PROVE  /\ RowInv' /\ Extended
         /\ \A j \in DOMAIN jobs : jobs'[j] = jobs[j]
         /\ Len(jobs) \in Nat /\ DOMAIN jobs = 1 .. Len(jobs) /\ DOMAIN jobs' = 1 .. Len(jobs) + 1
         /\ jobs'[Len(jobs) + 1].by = call.by /\ jobs'[Len(jobs) + 1].attempt = call.attempt
<1> DEFINE row == [by |-> call.by, key |-> <<call.by>>, hash |-> Hash, status |-> "queued",
                   attempt |-> call.attempt, under |-> daemon.plist]
<1>1. call.by \in Callers /\ call.attempt \in Nat
  BY DEF CallTypeOK
<1>2. /\ daemon.plist \in Nat /\ daemon.plist \in 1 .. daemon.plist
      /\ daemon' = daemon
  BY DEF PlistInv, ServiceTypeOK, Daemons, Create
<1>3. /\ row \in Row /\ row.by = call.by /\ row.key = <<call.by>> /\ row.attempt = call.attempt
      /\ row.under = daemon.plist /\ row.hash = Config[daemon.plist]
  <2>1. Hash \in Hashes
    BY <1>2 DEF Hash, Hashes
  <2>2. <<call.by>> \in {<<c>> : c \in Callers \cup {"other"}}
    BY <1>1
  <2>3. row \in Row
    BY <1>1, <1>2, <2>1, <2>2 DEF Row, Statuses
  <2> QED BY <2>3 DEF Hash
<1>4. jobs' = Append(jobs, row)
  BY DEF Create, Key
<1>5. \A j \in DOMAIN jobs : jobs[j].key # <<call.by>>
  BY DEF Create, Known, Key
<1>6. \A j \in DOMAIN jobs : jobs[j].by # call.by
  BY <1>5 DEF RowInv
<1> HIDE DEF row
<1>7. /\ jobs' \in Seq(Row) /\ Len(jobs) \in Nat
      /\ DOMAIN jobs = 1 .. Len(jobs) /\ DOMAIN jobs' = 1 .. Len(jobs) + 1
      /\ jobs'[Len(jobs) + 1] = row
      /\ \A j \in 1 .. Len(jobs) : jobs'[j] = jobs[j]
  BY <1>3, <1>4 DEF RowInv
<1>8. ASSUME NEW i \in DOMAIN jobs'
      PROVE  /\ jobs'[i].key = <<jobs'[i].by>>
             /\ jobs'[i].by \in Callers =>
                  jobs'[i].under \in 1 .. daemon'.plist /\ jobs'[i].hash = Config[jobs'[i].under]
  <2>1. CASE i \in DOMAIN jobs
    BY <1>2, <1>7, <2>1 DEF RowInv
  <2>2. CASE i = Len(jobs) + 1
    BY <1>2, <1>3, <1>7, <2>2
  <2> QED BY <1>7, <2>1, <2>2
<1>9. ASSUME NEW i \in DOMAIN jobs', NEW j \in DOMAIN jobs', jobs'[i].by = jobs'[j].by
      PROVE  i = j
  <2>1. CASE i \in DOMAIN jobs /\ j \in DOMAIN jobs
    BY <1>7, <1>9, <2>1 DEF RowInv
  <2>2. CASE i \in DOMAIN jobs /\ j = Len(jobs) + 1
    BY <1>3, <1>6, <1>7, <1>9, <2>2
  <2>3. CASE i = Len(jobs) + 1 /\ j \in DOMAIN jobs
    BY <1>3, <1>6, <1>7, <1>9, <2>3
  <2>4. CASE i = Len(jobs) + 1 /\ j = Len(jobs) + 1
    BY <2>4
  <2> QED BY <1>7, <2>1, <2>2, <2>3, <2>4
<1>10. RowInv'
  BY <1>7, <1>8, <1>9 DEF RowInv
<1> QED BY <1>3, <1>7, <1>10 DEF Extended

\* A step of a caller or of one of its requests leaves the service alone, but
\* for a new row.
LEMMA StepKeepsService ==
  ASSUME SubmissionInv, SubmissionStep
  PROVE  ServiceTypeOK' /\ SpareInv' /\ PlistInv' /\ ReadyInv' /\ RowInv' /\ Extended
<1> USE DEF SubmissionInv
<1>1. ASSUME NEW call \in calls, Create(call)
      PROVE  ServiceTypeOK' /\ SpareInv' /\ PlistInv' /\ ReadyInv' /\ RowInv' /\ Extended
  <2>1. UNCHANGED <<daemon, loaded, plist, inst, steady>>
    BY <1>1 DEF Create
  <2>2. RowInv' /\ Extended /\ \A j \in DOMAIN jobs : jobs'[j] = jobs[j]
    BY <1>1, CreateKeepsRows
  <2>3. SpareInv'
    BY <2>1, <2>2 DEF SpareInv, SparesListedJobs, At, Extended
  <2>4. ReadyInv'
    BY <2>1 DEF ReadyInv, InstalledIsLaunchds, At
  <2> QED BY <2>1, <2>2, <2>3, <2>4 DEF ServiceTypeOK, PlistInv, Up
<1>2. CASE UNCHANGED serviceVars
  <2>1. RowInv' /\ Extended
    BY <1>2, RowsUntouched DEF serviceVars, ServiceTypeOK, Daemons, Newer
  <2>2. ReadyInv'
    BY <1>2 DEF serviceVars, ReadyInv, InstalledIsLaunchds, At
  <2> QED BY <1>2, <2>1, <2>2 DEF serviceVars, ServiceTypeOK, SpareInv, SparesListedJobs, PlistInv, Up, At
<1>3. UNCHANGED serviceVars \/ \E call \in calls : Create(call)
  BY DEF SubmissionStep, Try, TimeOut, Cut, Repeat, Reply
<1> QED BY <1>1, <1>2, <1>3

CallRec == [by : Callers, attempt : Nat, pid : Nat, result : Answers]
CallerRec == [attempt : Nat, state : {"ready", "waiting", "done"}, answer : Answers]

\* What holds of the callers, the requests and the rows together.
CallInv == CallTypeOK /\ AttemptInv /\ AnswerInv

\* One caller moves on, and requests may go.
LEMMA CallerMoves ==
  ASSUME CallInv, UNCHANGED jobs, calls' \subseteq calls,
         NEW c \in Callers, NEW r \in CallerRec, caller' = [caller EXCEPT ![c] = r],
         r.attempt \in caller[c].attempt .. Attempts,
         r.state = "ready" => r.attempt < Attempts,
         r.state = "done" <=> r.answer # <<>>,
         True(c, r.attempt, r.answer)
  PROVE  CallInv'
<1> USE DEF CallInv
<1>0. caller \in [Callers -> CallerRec] /\ calls \subseteq CallRec
  BY DEF CallTypeOK, CallerRec, CallRec
<1>1. CallTypeOK'
  BY <1>0 DEF CallTypeOK, CallerRec, CallRec
<1>2. caller'[c] = r /\ \A d \in Callers \ {c} : caller'[d] = caller[d]
  BY <1>0
<1>3. \A d \in Callers : \A n \in 1 .. caller[d].attempt : n \in 1 .. caller'[d].attempt
  <2>1. \A d \in Callers : caller[d].attempt \in Nat
    BY <1>0 DEF CallerRec
  <2>2. \A n \in 1 .. caller[c].attempt : n \in 1 .. r.attempt
    BY <2>1 DEF CallerRec
  <2> QED BY <1>2, <2>2
<1>4. AttemptInv'
  <2>1. ASSUME NEW d \in Callers
        PROVE  /\ caller'[d].attempt \in 0 .. Attempts
               /\ caller'[d].state = "ready" => caller'[d].attempt < Attempts
    <3>1. CASE d = c
      BY <1>0, <1>2, <3>1 DEF CallerRec, Attempts
    <3>2. CASE d # c
      BY <1>2, <3>2 DEF AttemptInv
    <3> QED BY <3>1, <3>2
  <2>2. ASSUME NEW call \in calls'
        PROVE  call.attempt \in 1 .. caller'[call.by].attempt
    <3>1. call \in calls /\ call.by \in Callers
      BY <1>0 DEF CallRec
    <3> QED BY <1>3, <3>1 DEF AttemptInv
  <2>3. ASSUME NEW j \in DOMAIN jobs', jobs'[j].by \in Callers
        PROVE  /\ jobs'[j].attempt \in 1 .. caller'[jobs'[j].by].attempt
               /\ \A call \in calls' :
                    call.by = jobs'[j].by /\ call.attempt = jobs'[j].attempt => call.result # <<>>
    BY <1>3, <2>3 DEF AttemptInv
  <2>4. \A one, other \in calls' : one.by = other.by /\ one.attempt = other.attempt => one = other
    BY DEF AttemptInv
  <2> QED BY <2>1, <2>2, <2>3, <2>4 DEF AttemptInv
<1>5. AnswerInv'
  <2>1. Extended
    BY DEF Extended
  <2>2. ASSUME NEW call \in calls'
        PROVE  True(call.by, call.attempt, call.result)'
    BY <2>1, TrueStays DEF AnswerInv
  <2>3. True(c, r.attempt, r.answer)'
    BY <2>1, TrueStays
  <2>4. ASSUME NEW d \in Callers
        PROVE  /\ True(d, caller[d].attempt, caller[d].answer)'
               /\ caller'[d].state = "done" <=> caller'[d].answer # <<>>
    <3>1. CASE d = c
      BY <1>2, <2>3, <3>1 DEF True
    <3>2. CASE d # c
      <4>1. True(d, caller[d].attempt, caller[d].answer)
        BY DEF AnswerInv
      <4>2. ASSUME NEW n, NEW answer, n = caller[d].attempt, answer = caller[d].answer
            PROVE  True(d, n, answer)'
        BY <2>1, <4>1, <4>2, TrueStays
      <4>3. caller'[d].attempt = caller[d].attempt /\ caller'[d].answer = caller[d].answer
        BY <1>2, <3>2
      <4> QED BY <1>2, <3>2, <4>2, <4>3 DEF AnswerInv
    <3> QED BY <3>1, <3>2
  <2> QED BY <2>2, <2>4 DEF AnswerInv
<1> QED BY <1>1, <1>4, <1>5

\* A caller that has no answer may try again, or has had its attempts.
LEMMA UnavailableMoves ==
  ASSUME CallInv, UNCHANGED jobs, calls' \subseteq calls,
         NEW c \in Callers, NEW attempt \in caller[c].attempt .. Attempts,
         caller[c].state # "done", caller' = Unavailable(c, attempt)
  PROVE  CallInv'
<1>1. caller[c] \in CallerRec /\ caller \in [Callers -> CallerRec]
  BY DEF CallInv, CallTypeOK, CallerRec
<1>2. caller[c].answer = <<>> /\ caller[c].attempt \in 0 .. Attempts
  BY DEF CallInv, AnswerInv, AttemptInv
<1>3. CASE attempt = Attempts
  <2> DEFINE r == [caller[c] EXCEPT !.state = "done", !.answer = <<"unavailable">>]
  <2>1. caller' = [caller EXCEPT ![c] = r]
    BY <1>1, <1>3 DEF Unavailable, Finish, CallerRec
  <2>2. /\ r \in CallerRec /\ r.state = "done" /\ r.answer = <<"unavailable">>
        /\ r.answer # <<>> /\ r.attempt = caller[c].attempt
    BY <1>1 DEF CallerRec, Answers
  <2>3. True(c, r.attempt, r.answer)
    BY <2>2 DEF True
  <2>4. r.attempt \in caller[c].attempt .. Attempts
    BY <1>2, <2>2 DEF Attempts
  <2> HIDE DEF r
  <2> QED BY <2>1, <2>2, <2>3, <2>4, CallerMoves
<1>4. CASE attempt # Attempts
  <2> DEFINE r == [caller[c] EXCEPT !.state = "ready", !.attempt = attempt]
  <2>1. caller' = [caller EXCEPT ![c] = r]
    BY <1>1, <1>4 DEF Unavailable, CallerRec
  <2>0. attempt \in Nat
    BY <1>2 DEF Attempts
  <2>2. r \in CallerRec /\ r.state = "ready" /\ r.answer = <<>> /\ r.attempt = attempt
    BY <1>1, <1>2, <2>0 DEF CallerRec
  <2>3. True(c, r.attempt, r.answer)
    BY <2>2 DEF True
  <2>4. r.attempt \in caller[c].attempt .. Attempts /\ r.attempt < Attempts
    BY <1>2, <1>4, <2>2 DEF Attempts
  <2> HIDE DEF r
  <2> QED BY <2>1, <2>2, <2>3, <2>4, CallerMoves
<1> QED BY <1>3, <1>4

\* A caller has its answer.
LEMMA FinishMoves ==
  ASSUME CallInv, UNCHANGED jobs, calls' \subseteq calls,
         NEW c \in Callers, NEW answer \in Answers, answer # <<>>,
         True(c, caller[c].attempt, answer), caller' = Finish(c, answer)
  PROVE  CallInv'
<1>1. caller[c] \in CallerRec /\ caller \in [Callers -> CallerRec]
  BY DEF CallInv, CallTypeOK, CallerRec
<1> DEFINE r == [caller[c] EXCEPT !.state = "done", !.answer = answer]
<1>2. caller' = [caller EXCEPT ![c] = r]
  BY <1>1 DEF Finish, CallerRec
<1>3. r \in CallerRec /\ r.state = "done" /\ r.answer = answer /\ r.attempt = caller[c].attempt
  BY <1>1 DEF CallerRec
<1>4. r.attempt \in caller[c].attempt .. Attempts
  BY <1>3 DEF CallInv, AttemptInv, Attempts
<1> HIDE DEF r
<1> QED BY <1>2, <1>3, <1>4, CallerMoves

\* Requests go, and no caller moves.
LEMMA CallsGo ==
  ASSUME CallInv, UNCHANGED <<jobs, caller>>, calls' \subseteq calls
  PROVE  CallInv'
<1>1. CallTypeOK'
  BY DEF CallInv, CallTypeOK
<1>2. AttemptInv'
  BY DEF CallInv, AttemptInv
<1>3. \A c, n, answer : True(c, n, answer)' = True(c, n, answer)
  BY DEF True, Conflicts
<1>4. AnswerInv'
  BY <1>3 DEF CallInv, AnswerInv
<1> QED BY <1>1, <1>2, <1>4 DEF CallInv


\* A request is answered, and a row may have been made for it.
LEMMA AnsweredMoves ==
  ASSUME CallInv, UNCHANGED caller, Extended, NEW call \in calls, NEW result \in Answers,
         call.result = <<>>, result # <<>>, Answered(call, result),
         True(call.by, call.attempt, result)',
         \A j \in DOMAIN jobs' :
           \/ j \in DOMAIN jobs
           \/ jobs'[j].by = call.by /\ jobs'[j].attempt = call.attempt
  PROVE  CallInv'
<1> USE DEF CallInv
<1> DEFINE done == [call EXCEPT !.result = result]
<1>0. caller \in [Callers -> CallerRec] /\ calls \subseteq CallRec
  BY DEF CallTypeOK, CallerRec, CallRec
<1>1. calls' = (calls \ {call}) \cup {done}
  BY DEF Answered
<1>2. /\ done \in CallRec /\ done.by = call.by /\ done.attempt = call.attempt
      /\ done.result = result
  BY <1>0 DEF CallRec
<1> HIDE DEF done
<1>3. CallTypeOK'
  BY <1>0, <1>1, <1>2 DEF CallTypeOK, CallerRec, CallRec
<1>4. AttemptInv'
  <2>1. \A one \in calls' : one.attempt \in 1 .. caller'[one.by].attempt
    BY <1>1, <1>2 DEF AttemptInv
  <2>2. \A one, other \in calls' : one.by = other.by /\ one.attempt = other.attempt => one = other
    BY <1>1, <1>2 DEF AttemptInv
  <2>3. ASSUME NEW j \in DOMAIN jobs', jobs'[j].by \in Callers
        PROVE  /\ jobs'[j].attempt \in 1 .. caller'[jobs'[j].by].attempt
               /\ \A one \in calls' :
                    one.by = jobs'[j].by /\ one.attempt = jobs'[j].attempt => one.result # <<>>
    <3>1. CASE j \in DOMAIN jobs
      <4>1. jobs'[j].by = jobs[j].by /\ jobs'[j].attempt = jobs[j].attempt
        BY <3>1 DEF Extended
      <4>2. /\ jobs[j].attempt \in 1 .. caller[jobs[j].by].attempt
            /\ \A one \in calls :
                 one.by = jobs[j].by /\ one.attempt = jobs[j].attempt => one.result # <<>>
        BY <2>3, <3>1, <4>1 DEF AttemptInv
      <4> QED BY <1>1, <1>2, <4>1, <4>2
    <3>2. CASE jobs'[j].by = call.by /\ jobs'[j].attempt = call.attempt
      <4>1. call.attempt \in 1 .. caller[call.by].attempt
        BY DEF AttemptInv
      <4>2. \A one \in calls : one.by = call.by /\ one.attempt = call.attempt => one = call
        BY DEF AttemptInv
      <4> QED BY <1>1, <1>2, <3>2, <4>1, <4>2
    <3> QED BY <3>1, <3>2
  <2> QED BY <2>1, <2>2, <2>3 DEF AttemptInv
<1>5. AnswerInv'
  <2>1. ASSUME NEW one \in calls
        PROVE  True(one.by, one.attempt, one.result)'
    BY TrueStays DEF AnswerInv
  <2>2. True(done.by, done.attempt, done.result)'
    BY <1>2 DEF True, Conflicts
  <2>3. \A one \in calls' : True(one.by, one.attempt, one.result)'
    BY <1>1, <2>1, <2>2
  <2>4. \A d, n, answer : True(d, n, answer) => True(d, n, answer)'
    BY TrueStays
  <2>5. \A d \in Callers : True(d, caller[d].attempt, caller[d].answer)'
    BY <2>4 DEF AnswerInv
  <2> QED BY <2>3, <2>5 DEF AnswerInv
<1> QED BY <1>3, <1>4, <1>5

\* A row of the caller of an open request is of another attempt, and if its hash is
\* another, of an earlier definition.
LEMMA RefusedConflicts ==
  ASSUME SubmissionInv, NEW call \in calls, call.result = <<>>,
         NEW j \in DOMAIN jobs, jobs[j].by = call.by, jobs[j].hash # Hash
  PROVE  Conflicts(call.by, call.attempt, daemon.plist)
<1>1. call.by \in Callers
  BY DEF SubmissionInv, CallTypeOK
<1>2. jobs[j].under \in 1 .. daemon.plist /\ jobs[j].hash = Config[jobs[j].under]
  BY <1>1 DEF SubmissionInv, RowInv
<1>3. jobs[j].attempt # call.attempt
  BY <1>1 DEF SubmissionInv, AttemptInv
<1>4. Config[jobs[j].under] # Config[daemon.plist] /\ jobs[j].under # daemon.plist
  BY <1>2 DEF Hash
<1>5. jobs[j].under < daemon.plist
  BY <1>2, <1>4 DEF SubmissionInv, ServiceTypeOK, Daemons
<1> QED BY <1>3, <1>4, <1>5 DEF Conflicts

LEMMA TryKeeps ==
  ASSUME SubmissionInv, NEW c \in Callers, Try(c)
  PROVE  CallInv'
<1>0. CallInv /\ UNCHANGED jobs
  BY DEF SubmissionInv, CallInv, Try, serviceVars
<1>1. /\ caller \in [Callers -> CallerRec] /\ calls \subseteq CallRec
      /\ caller[c].attempt \in 0 .. Attempts - 1 /\ caller[c].state = "ready"
      /\ caller[c].answer = <<>>
  BY <1>0 DEF CallInv, CallTypeOK, CallerRec, CallRec, AttemptInv, AnswerInv, Try, Attempts
<1> DEFINE attempt == caller[c].attempt + 1
           new == [by |-> c, attempt |-> attempt, pid |-> daemon.pid, result |-> <<>>]
           r == [caller[c] EXCEPT !.state = "waiting", !.attempt = attempt]
<1>2. attempt \in caller[c].attempt .. Attempts /\ attempt \in Nat /\ attempt > caller[c].attempt
  BY <1>1 DEF Attempts
<1>3. CASE ~Up
  <2>1. caller' = Unavailable(c, attempt) /\ UNCHANGED calls
    BY <1>3 DEF Try
  <2> HIDE DEF attempt
  <2> QED BY <1>0, <1>1, <1>2, <2>1, UnavailableMoves
<1>4. CASE Up
  <2>1. /\ caller' = [caller EXCEPT ![c] = r] /\ calls' = calls \cup {new}
    BY <1>1, <1>4 DEF Try, CallerRec
  <2>2. /\ new \in CallRec /\ new.by = c /\ new.attempt = attempt /\ new.result = <<>>
    BY <1>2 DEF CallRec, Answers, SubmissionInv, ServiceTypeOK, Daemons
  <2>3. /\ r \in CallerRec /\ r.attempt = attempt /\ r.state = "waiting" /\ r.answer = <<>>
    BY <1>1, <1>2 DEF CallerRec
  <2> HIDE DEF new, r, attempt
  <2>4. caller'[c] = r /\ \A d \in Callers \ {c} : caller'[d] = caller[d]
    BY <1>1, <2>1
  <2>5. CallTypeOK'
    BY <1>1, <2>1, <2>2, <2>3 DEF CallTypeOK, CallerRec, CallRec
  <2>6. \A call \in calls : call.by = c => call.attempt # attempt
    <3>1. ASSUME NEW call \in calls, call.by = c
          PROVE  call.attempt \in 1 .. caller[c].attempt
      BY <1>0, <3>1 DEF CallInv, AttemptInv
    <3> QED BY <1>1, <1>2, <3>1
  <2>7. \A n \in 1 .. caller[c].attempt : n \in 1 .. attempt /\ n # attempt
    BY <1>1, <1>2
  <2>8. AttemptInv'
    <3>1. ASSUME NEW d \in Callers
          PROVE  /\ caller'[d].attempt \in 0 .. Attempts
                 /\ caller'[d].state = "ready" => caller'[d].attempt < Attempts
      <4>1. CASE d = c
        BY <1>1, <1>2, <2>3, <2>4, <4>1 DEF Attempts
      <4>2. CASE d # c
        BY <1>0, <2>4, <4>2 DEF CallInv, AttemptInv
      <4> QED BY <4>1, <4>2
    <3>2. ASSUME NEW call \in calls'
          PROVE  call.attempt \in 1 .. caller'[call.by].attempt
      <4>1. CASE call = new
        BY <1>1, <1>2, <2>2, <2>3, <2>4, <4>1 DEF Attempts
      <4>2. CASE call \in calls /\ call.by = c
        BY <1>0, <2>3, <2>4, <2>7, <4>2 DEF CallInv, AttemptInv
      <4>3. CASE call \in calls /\ call.by # c
        BY <1>0, <1>1, <2>4, <4>3 DEF CallInv, AttemptInv, CallRec
      <4> QED BY <2>1, <4>1, <4>2, <4>3
    <3>3. \A one, other \in calls' : one.by = other.by /\ one.attempt = other.attempt => one = other
      BY <1>0, <2>1, <2>2, <2>6 DEF CallInv, AttemptInv
    <3>4. ASSUME NEW j \in DOMAIN jobs', jobs'[j].by \in Callers
          PROVE  /\ jobs'[j].attempt \in 1 .. caller'[jobs'[j].by].attempt
                 /\ \A call \in calls' :
                      call.by = jobs'[j].by /\ call.attempt = jobs'[j].attempt => call.result # <<>>
      <4>1. /\ j \in DOMAIN jobs /\ jobs[j].by \in Callers
            /\ jobs'[j] = jobs[j]
        BY <1>0, <3>4
      <4>2. /\ jobs[j].attempt \in 1 .. caller[jobs[j].by].attempt
            /\ \A call \in calls :
                 call.by = jobs[j].by /\ call.attempt = jobs[j].attempt => call.result # <<>>
        BY <1>0, <4>1 DEF CallInv, AttemptInv
      <4>3. CASE jobs[j].by = c
        BY <2>1, <2>2, <2>3, <2>4, <2>7, <4>1, <4>2, <4>3
      <4>4. CASE jobs[j].by # c
        BY <2>1, <2>2, <2>4, <4>1, <4>2, <4>4
      <4> QED BY <4>3, <4>4
    <3> QED BY <3>1, <3>2, <3>3, <3>4 DEF AttemptInv
  <2>9. AnswerInv'
    <3>1. \A d, n, answer : True(d, n, answer)' = True(d, n, answer)
      BY <1>0 DEF True, Conflicts
    <3>2. True(c, attempt, <<>>) /\ \A d \in Callers : True(d, caller[d].attempt, caller[d].answer)
      BY <1>0 DEF True, CallInv, AnswerInv
    <3>3. \A d \in Callers : True(d, caller'[d].attempt, caller'[d].answer)
      BY <2>3, <2>4, <3>2
    <3>4. \A call \in calls' : True(call.by, call.attempt, call.result)
      BY <1>0, <2>1, <2>2, <3>2 DEF CallInv, AnswerInv
    <3>5. \A d \in Callers : caller'[d].state = "done" <=> caller'[d].answer # <<>>
      BY <1>0, <2>3, <2>4 DEF CallInv, AnswerInv
    <3> QED BY <3>1, <3>3, <3>4, <3>5 DEF AnswerInv
  <2> QED BY <2>5, <2>8, <2>9 DEF CallInv
<1> QED BY <1>3, <1>4

LEMMA StepKeepsCalls ==
  ASSUME SubmissionInv, SubmissionStep
  PROVE  CallInv'
<1>0. CallInv /\ calls \subseteq CallRec /\ caller \in [Callers -> CallerRec]
  BY DEF SubmissionInv, CallInv, CallTypeOK, CallRec, CallerRec
<1>w. ASSUME NEW c \in Callers, caller[c].state = "waiting"
      PROVE  caller[c].attempt \in caller[c].attempt .. Attempts
  BY <1>0 DEF CallInv, AttemptInv, Attempts
<1>1. ASSUME NEW c \in Callers, TimeOut(c)
      PROVE  CallInv'
  <2>1. /\ UNCHANGED jobs /\ calls' \subseteq calls /\ caller[c].state = "waiting"
        /\ caller' = Unavailable(c, caller[c].attempt)
    BY <1>1 DEF TimeOut, serviceVars
  <2> QED BY <1>0, <1>w, <2>1, UnavailableMoves
<1>2. ASSUME NEW call \in calls, Cut(call)
      PROVE  CallInv'
  <2>1. UNCHANGED jobs /\ calls' \subseteq calls /\ call.by \in Callers
    BY <1>0, <1>2 DEF Cut, serviceVars, CallRec
  <2>2. CASE ~Waits(call)
    BY <1>0, <1>2, <2>1, <2>2, CallsGo DEF Cut
  <2>3. CASE Waits(call)
    <3>1. call.attempt = caller[call.by].attempt /\ caller[call.by].state = "waiting"
      BY <2>3 DEF Waits
    <3>2. CASE caller' = Unavailable(call.by, call.attempt)
      <4>1. call.attempt \in caller[call.by].attempt .. Attempts
        BY <1>w, <2>1, <3>1
      <4> QED BY <1>0, <2>1, <3>1, <3>2, <4>1, UnavailableMoves
    <3>3. CASE caller' = Finish(call.by, <<"invalid">>)
      <4>1. /\ <<"invalid">> \in Answers /\ <<"invalid">> # <<>>
            /\ True(call.by, caller[call.by].attempt, <<"invalid">>)
        BY DEF Answers, True
      <4> QED BY <1>0, <2>1, <3>3, <4>1, FinishMoves
    <3> QED BY <1>2, <2>3, <3>2, <3>3 DEF Cut
  <2> QED BY <2>2, <2>3
<1>3. ASSUME NEW call \in calls, Repeat(call)
      PROVE  CallInv'
  <2>0. UNCHANGED <<caller, jobs>> /\ Extended /\ call.result = <<>> /\ call.by \in Callers
    BY <1>0, <1>3 DEF Repeat, serviceVars, Extended, CallRec
  <2>1. PICK j \in Known(Key(call.by, call.attempt)) :
          Answered(call, IF jobs[j].hash = Hash THEN <<"job", j>> ELSE <<"refused", daemon.plist>>)
    BY <1>3 DEF Repeat
  <2>2. j \in DOMAIN jobs /\ j \in Nat /\ jobs[j].key = <<call.by>>
    BY <2>1 DEF SubmissionInv, RowInv, Known, Key
  <2>3. jobs[j].by = call.by
    BY <2>2 DEF SubmissionInv, RowInv
  <2>4. CASE jobs[j].hash = Hash
    <3>1. /\ <<"job", j>> \in Answers /\ <<"job", j>> # <<>>
          /\ True(call.by, call.attempt, <<"job", j>>)
      BY <2>2, <2>3 DEF Answers, True
    <3>2. True(call.by, call.attempt, <<"job", j>>)'
      BY <2>0, <3>1, TrueStays
    <3> QED BY <1>0, <2>0, <2>1, <2>4, <3>1, <3>2, AnsweredMoves
  <2>5. CASE jobs[j].hash # Hash
    <3>1. PICK q \in Nat : q = daemon.plist
      BY DEF SubmissionInv, ServiceTypeOK, Daemons
    <3>2. /\ <<"refused", q>> \in Answers /\ <<"refused", q>> # <<>>
          /\ True(call.by, call.attempt, <<"refused", q>>)
      BY <2>0, <2>2, <2>3, <2>5, <3>1, RefusedConflicts DEF Answers, True
    <3>3. True(call.by, call.attempt, <<"refused", q>>)'
      BY <2>0, <3>2, TrueStays
    <3> QED BY <1>0, <2>0, <2>1, <2>5, <3>1, <3>2, <3>3, AnsweredMoves
  <2> QED BY <2>4, <2>5
<1>4. ASSUME NEW call \in calls, Create(call)
      PROVE  CallInv'
  <2>1. /\ Extended /\ Len(jobs) \in Nat
        /\ DOMAIN jobs = 1 .. Len(jobs) /\ DOMAIN jobs' = 1 .. Len(jobs) + 1
        /\ jobs'[Len(jobs) + 1].by = call.by /\ jobs'[Len(jobs) + 1].attempt = call.attempt
    BY <1>4, CreateKeepsRows DEF SubmissionInv
  <2>2. PICK n \in Nat : n = Len(jobs) + 1
    BY <2>1
  <2>3. <<"job", n>> \in Answers /\ <<"job", n>> # <<>> /\ True(call.by, call.attempt, <<"job", n>>)'
    BY <2>1, <2>2 DEF Answers, True
  <2>4. UNCHANGED caller /\ call.result = <<>> /\ Answered(call, <<"job", n>>)
    BY <1>4, <2>2 DEF Create
  <2>5. \A j \in DOMAIN jobs' :
          j \in DOMAIN jobs \/ (jobs'[j].by = call.by /\ jobs'[j].attempt = call.attempt)
    BY <2>1
  <2> QED BY <1>0, <2>1, <2>3, <2>4, <2>5, AnsweredMoves
<1>5. ASSUME NEW call \in calls, Reply(call)
      PROVE  CallInv'
  <2>1. /\ UNCHANGED jobs /\ calls' \subseteq calls /\ call.by \in Callers
        /\ call.result \in Answers /\ call.result # <<>>
    BY <1>0, <1>5 DEF Reply, serviceVars, CallRec
  <2>2. CASE ~Waits(call)
    BY <1>0, <1>5, <2>1, <2>2, CallsGo DEF Reply
  <2>3. CASE Waits(call)
    <3>1. caller' = Finish(call.by, call.result)
      BY <1>5, <2>3 DEF Reply
    <3>2. True(call.by, caller[call.by].attempt, call.result)
      BY <1>0, <2>3 DEF CallInv, AnswerInv, Waits
    <3> QED BY <1>0, <2>1, <3>1, <3>2, FinishMoves
  <2> QED BY <2>2, <2>3
<1> QED BY <1>1, <1>2, <1>3, <1>4, <1>5, TryKeeps DEF SubmissionStep

------------------------------------------------------------------------------
LEMMA StepKeeps == SubmissionInv /\ [Next]_vars => SubmissionInv'
<1> SUFFICES ASSUME SubmissionInv, [Next]_vars PROVE SubmissionInv'
  OBVIOUS
<1> USE DEF SubmissionInv
<1>1. CASE SubmissionStep
  BY <1>1, StepKeepsService, StepKeepsCalls DEF CallInv
<1>2. CASE (DaemonStep \/ InstallerStep) /\ UNCHANGED submissionVars
  <2>1. /\ ServiceTypeOK' /\ SpareInv' /\ PlistInv' /\ ReadyInv' /\ RowInv'
        /\ Extended /\ DOMAIN jobs' = DOMAIN jobs
    BY <1>2, ServiceKeepsTypes, ServiceKeepsRows, ServiceKeepsSpare, ServiceKeepsPlist, ServiceKeepsReady
  <2>2. UNCHANGED <<caller, calls>>
    BY <1>2 DEF submissionVars
  <2>3. CallTypeOK'
    BY <2>2 DEF CallTypeOK
  <2>4. AttemptInv'
    BY <2>1, <2>2 DEF AttemptInv, Extended
  <2>5. AnswerInv'
    <3>1. \A c, n, answer : True(c, n, answer) => True(c, n, answer)'
      BY <2>1, TrueStays
    <3> QED BY <2>2, <3>1 DEF AnswerInv
  <2> QED BY <2>1, <2>3, <2>4, <2>5
<1>3. CASE UNCHANGED vars
  <2>1. UNCHANGED <<daemon, loaded, plist, jobs, inst, steady, caller, calls>>
    BY <1>3 DEF vars, serviceVars, submissionVars
  <2>2. RowInv' /\ ServiceTypeOK' /\ SpareInv' /\ PlistInv' /\ ReadyInv'
    BY <2>1 DEF RowInv, ServiceTypeOK, SpareInv, SparesListedJobs, PlistInv, ReadyInv,
           InstalledIsLaunchds, Up, At
  <2>3. CallInv'
    BY <2>1, CallsGo DEF CallInv
  <2> QED BY <2>2, <2>3 DEF CallInv
<1> QED BY <1>1, <1>2, <1>3 DEF Next

\* The inductive invariant, which the theorems below are read off.
THEOREM SubmissionInvariant == Spec => []SubmissionInv
<1>1. SubmissionInv /\ [Next]_vars => SubmissionInv'
  BY StepKeeps
<1> QED BY InitHolds, <1>1, PTL DEF Spec

\* Both attempts of a caller lead to one job, whatever requests of the first are
\* still on their way and whichever daemon takes them, and to no other's.
THEOREM OneJobPerSubmission == Spec => []SubmittedOnce
<1>1. SubmissionInv => SubmittedOnce
  <2> SUFFICES ASSUME SubmissionInv, NEW c \in Callers
               PROVE  /\ \A i, j \in DOMAIN jobs : jobs[i].by = c /\ jobs[j].by = c => i = j
                      /\ caller[c].state = "done" /\ caller[c].answer[1] = "job" =>
                           jobs[caller[c].answer[2]].by = c
    BY DEF SubmittedOnce
  <2>1. \A i, j \in DOMAIN jobs : jobs[i].by = c /\ jobs[j].by = c => i = j
    BY DEF SubmissionInv, RowInv
  <2>2. ASSUME caller[c].state = "done", caller[c].answer[1] = "job"
        PROVE  jobs[caller[c].answer[2]].by = c
    <3>1. True(c, caller[c].attempt, caller[c].answer) /\ caller[c].answer # <<>>
      BY <2>2 DEF SubmissionInv, AnswerInv
    <3>2. PICK j \in DOMAIN jobs : caller[c].answer = <<"job", j>> /\ jobs[j].by = c
      BY <2>2, <3>1 DEF True
    <3> QED BY <3>2
  <2> QED BY <2>1, <2>2
<1> QED BY <1>1, SubmissionInvariant, PTL

\* A refusal is the second attempt's, and between the two the service was configured
\* anew: the row is the first attempt's and has an earlier definition's configuration.
THEOREM RefusalsAreReconfigurations == Spec => []RefusedMeansReconfigured
<1>1. SubmissionInv => RefusedMeansReconfigured
  <2> SUFFICES ASSUME SubmissionInv, NEW c \in Callers, caller[c].answer # <<>>,
                      caller[c].answer[1] = "refused"
               PROVE  /\ caller[c].attempt = Attempts
                      /\ \E j \in DOMAIN jobs :
                           /\ jobs[j].by = c /\ jobs[j].attempt = 1
                           /\ jobs[j].under < caller[c].answer[2]
                           /\ Config[jobs[j].under] # Config[caller[c].answer[2]]
    BY DEF RefusedMeansReconfigured
  <2>1. PICK q \in Nat : caller[c].answer = <<"refused", q>> /\ Conflicts(c, caller[c].attempt, q)
    BY DEF SubmissionInv, AnswerInv, True
  <2>2. PICK j \in DOMAIN jobs :
          /\ jobs[j].by = c /\ jobs[j].attempt # caller[c].attempt
          /\ jobs[j].under < q /\ Config[jobs[j].under] # Config[q]
    BY <2>1 DEF Conflicts
  <2>3. jobs[j].attempt \in 1 .. caller[c].attempt /\ caller[c].attempt \in 0 .. 2
    BY <2>2 DEF SubmissionInv, AttemptInv, Attempts
  <2>4. jobs[j].attempt = 1 /\ caller[c].attempt = 2
    BY <2>2, <2>3
  <2> QED BY <2>1, <2>2, <2>4 DEF Attempts
<1> QED BY <1>1, SubmissionInvariant, PTL

\* No job can slip between the two questions of an installer that had answers.
THEOREM ListedJobsAreSpared == Spec => []SparesListedJobs
<1>1. SubmissionInv => SparesListedJobs
  BY DEF SubmissionInv, SpareInv
<1> QED BY <1>1, SubmissionInvariant, PTL

\* What an installation calls started is launchd's and new, however processes end and
\* start around it, unless the text it looked for was the beginning of another pid.
THEOREM InstalledAreLaunchds == Spec => []InstalledIsLaunchds
<1>1. SubmissionInv => InstalledIsLaunchds
  BY DEF SubmissionInv, ReadyInv
<1> QED BY <1>1, SubmissionInvariant, PTL
=============================================================================
