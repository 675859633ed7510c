---------------------------- MODULE ServiceInstaller ----------------------------
(***************************************************************************)
(* The installer of the supervisor's launchd service                       *)
(* (tools/install_agent_job_supervisor.py), with launchd and the daemon as *)
(* far as the installer meets them.  It looks for jobs in flight, takes    *)
(* the old service out, writes the new definition, brings the service in,  *)
(* restarts it and verifies that the daemon that answers is launchd's.     *)
(* Any request to the daemon may go unanswered, and any launchctl command  *)
(* may fail.                                                               *)
(*                                                                         *)
(* A definition of the service (plist) is a number, in the order written.  *)
(***************************************************************************)
EXTENDS Naturals, Sequences, SequencesExt

CONSTANTS MaxPids,      \* bound: processes, numbered in the order they start
          MaxInstalls,  \* bound: runs of the installer
          Digits        \* what is printed for the pid of a process

ASSUME ServiceAssumption ==
  /\ MaxPids \in Nat \ {0} /\ MaxInstalls \in Nat
  /\ \A p, q \in 1 .. MaxPids : p # q => Digits[p] # Digits[q]

VARIABLES
  daemon,    \* [state, pid, plist, managed by launchd]
  loaded,    \* the definition launchd has loaded, 0 if none
  plist,     \* the definition on disk
  jobs,      \* rows of the store: [by, key, hash, status], and as history the attempt
             \* that made the row and the definition its daemon ran under
  inst,      \* the installer: [pc, old pid, jobs it found, daemon that is ready (the
             \* pid; the rest is history), pid that launchctl shows]
  steady     \* history: jobs in flight ever since the installer looked

serviceVars == <<daemon, loaded, plist, jobs, inst, steady>>

InFlight == {"launching", "running"}
Active == {j \in DOMAIN jobs : jobs[j].status \in InFlight}

\* Before the installer has met a daemon.
None == [state |-> "down", pid |-> 0, plist |-> 0, managed |-> FALSE]

ServiceInit ==
  /\ \E by \in {"launchd", "hand"} :
       /\ daemon = [state |-> "up", pid |-> 1, plist |-> 1, managed |-> by = "launchd"]
       /\ loaded = IF by = "launchd" THEN 1 ELSE 0
  /\ plist = 1
  /\ jobs = <<[by |-> "other", key |-> <<"other">>, hash |-> 0, status |-> "queued",
              attempt |-> 0, under |-> 1]>>
  /\ inst = [pc |-> "idle", runs |-> 0, old |-> 0, found |-> {}, ready |-> None, shown |-> 0]
  /\ steady = {}

------------------------------------------------------------------------------
(* The daemon and launchd (external)                                       *)

Up == daemon.state = "up"

\* Rows in flight become interrupted: at the start of a daemon and when it is
\* asked to stop.
Interrupted ==
  [j \in DOMAIN jobs |-> IF j \in Active THEN [jobs[j] EXCEPT !.status = "interrupted"]
                         ELSE jobs[j]]

\* launchd keeps a loaded service alive; a process that finds the lock taken
\* exits at once.
Launch ==
  /\ loaded # 0 /\ daemon.state = "down" /\ daemon.pid < MaxPids
  /\ daemon' = [state |-> "up", pid |-> daemon.pid + 1, plist |-> loaded, managed |-> TRUE]
  /\ jobs' = Interrupted /\ steady' = {}
  /\ UNCHANGED <<loaded, plist, inst>>

\* The process ends, in the course of its shutdown or by a crash.
Die ==
  /\ daemon.state # "down"
  /\ daemon' = [daemon EXCEPT !.state = "down"]
  /\ steady' = {}
  /\ UNCHANGED <<loaded, plist, jobs, inst>>

\* A row goes from queued through launching and running to a verdict.
Progress(j, from, to) ==
  /\ Up /\ jobs[j].status = from
  /\ jobs' = [jobs EXCEPT ![j].status = to]
  /\ steady' = IF to = "ended" THEN steady \ {j} ELSE steady
  /\ UNCHANGED <<daemon, loaded, plist, inst>>

DaemonStep ==
  \/ Launch \/ Die
  \/ \E j \in DOMAIN jobs :
       \/ Progress(j, "queued", "launching")
       \/ Progress(j, "launching", "running")
       \/ Progress(j, "launching", "ended")
       \/ Progress(j, "running", "ended")

------------------------------------------------------------------------------
(* The installer                                                           *)

At(pc) == inst.pc = pc
Goto(pc) == inst' = [inst EXCEPT !.pc = pc]
InstallerOnly == UNCHANGED <<daemon, loaded, plist, jobs, steady>>
Fails == inst' = [pc |-> "failed", runs |-> inst.runs, old |-> 0, found |-> {}, ready |-> None,
                  shown |-> 0]

Install ==
  /\ inst.pc \in {"idle", "failed", "installed"} /\ inst.runs < MaxInstalls
  /\ inst' = [pc |-> "ping", runs |-> inst.runs + 1, old |-> 0, found |-> {},
              ready |-> None, shown |-> 0]
  /\ InstallerOnly

\* old_ping
Ping ==
  /\ At("ping")
  /\ \/ Up /\ inst' = [inst EXCEPT !.pc = "launching", !.old = daemon.pid]
     \/ Goto("bootout")
  /\ InstallerOnly

\* Mutation: the running jobs are listed first.
FirstRunning == <<"running", "launching">>

\* The statuses _active_jobs lists, in order.
Listed == <<"launching", "running">>

ListJobs(k) ==
  /\ At(<<"launching", "running">>[k])
  /\ LET found == {j \in DOMAIN jobs : jobs[j].status = Listed[k]} IN
       \/ Up /\ k = 1 /\ steady' = Active
          /\ inst' = [inst EXCEPT !.found = found, !.pc = "running"]
       \/ /\ Up /\ k = 2 /\ inst.found \cup found = {} /\ UNCHANGED steady
          /\ Goto("bootout")
       \/ Fails /\ steady' = {}
  /\ UNCHANGED <<daemon, loaded, plist, jobs>>

\* launchd unloads the service and stops its process; the socket is gone at
\* once, the process not.  The installer does not ask whether it did.
Bootout ==
  /\ At("bootout")
  /\ \/ /\ loaded' = 0
        /\ IF Up /\ daemon.managed
           THEN daemon' = [daemon EXCEPT !.state = "stopping"] /\ jobs' = Interrupted
           ELSE UNCHANGED <<daemon, jobs>>
     \/ UNCHANGED <<loaded, daemon, jobs>>
  /\ Goto(IF inst.old = 0 THEN "write" ELSE "await")
  /\ steady' = {} /\ UNCHANGED plist

\* The old process does not answer any more, or only this once.
AwaitGone ==
  /\ At("await")
  /\ Goto("write")
  /\ InstallerOnly

AwaitTimedOut ==
  /\ At("await") /\ Up /\ daemon.pid = inst.old
  /\ Fails
  /\ InstallerOnly

WritePlist ==
  /\ At("write")
  /\ plist' = plist + 1
  /\ Goto("bootstrap")
  /\ UNCHANGED <<daemon, loaded, jobs, steady>>

Bootstrap ==
  /\ At("bootstrap")
  /\ \/ loaded = 0 /\ loaded' = plist /\ Goto("kickstart")
     \/ UNCHANGED loaded /\ Fails
  /\ UNCHANGED <<daemon, plist, jobs, steady>>

\* kickstart -k: launchd's process is killed and started again.
Kickstart ==
  /\ At("kickstart")
  /\ \/ /\ daemon' = IF daemon.managed THEN [daemon EXCEPT !.state = "down"] ELSE daemon
        /\ Goto("ready")
     \/ UNCHANGED daemon /\ Fails
  /\ UNCHANGED <<loaded, plist, jobs, steady>>

IsNew == inst.old = 0 \/ daemon.pid # inst.old

Ready ==
  /\ At("ready")
  /\ \/ Up /\ IsNew /\ inst' = [inst EXCEPT !.pc = "verify", !.ready = daemon]
     \/ Fails
  /\ InstallerOnly

\* launchctl print (external) names the process that launchd keeps: the daemon, or
\* a new one that does not serve yet, or never will because the lock is taken.
Shown(p) ==
  /\ loaded # 0
  /\ IF daemon.state # "down" /\ daemon.managed
     THEN p = daemon.pid ELSE p \in daemon.pid + 1 .. MaxPids

\* Mutation: the process is not compared with the one that answered.
VerifiedShown(p) == Shown(p)

\* What is printed begins with the pid of the daemon that answered.
Begins(p, q) == IsPrefix(Digits[p], Digits[q])

\* The pid is looked for in the text, and need not be all that is printed.
Verified(p) == Shown(p) /\ Begins(inst.ready.pid, p)

Verify ==
  /\ At("verify")
  /\ \/ \E p \in 1 .. MaxPids :
          Verified(p) /\ inst' = [inst EXCEPT !.pc = "installed", !.shown = p]
     \/ Fails
  /\ InstallerOnly

InstallerStep ==
  \/ Install \/ Ping \/ \E k \in 1 .. 2 : ListJobs(k)
  \/ Bootout \/ AwaitGone \/ AwaitTimedOut \/ WritePlist
  \/ Bootstrap \/ Kickstart \/ Ready \/ Verify
=============================================================================
