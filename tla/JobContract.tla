----------------------------- MODULE JobContract -----------------------------
(***************************************************************************)
(* What the daemon promises a caller about its jobs, without scheduler,     *)
(* tasks, restarts or processes identities: the lifecycle of a row, the one *)
(* inbox delivery of a concluded job and the one execution it may cause.    *)
(* Several jobs may move in one step (a restart interrupts all of them).    *)
(***************************************************************************)
CONSTANTS
  Jobs,   \* the jobs callers may submit
  Owned   \* those with an owner to deliver to

VARIABLES
  view,   \* lifecycle as a caller sees it
  mail,   \* the inbox delivery: "none", "unacked" or "acked"
  work    \* the provider execution: "never", "alive" or "over"

vars == <<view, mail, work>>

Concluded == {"completed", "failed", "cancelled", "interrupted"}

Init ==
  /\ view = [j \in Jobs |-> "absent"]
  /\ mail = [j \in Jobs |-> "none"]
  /\ work = [j \in Jobs |-> "never"]

Keep(j) == view'[j] = view[j] /\ mail'[j] = mail[j]

Accept(j) == view[j] = "absent" /\ view'[j] = "queued" /\ mail'[j] = mail[j]

Admit(j) == view[j] = "queued" /\ view'[j] = "active" /\ mail'[j] = mail[j]

\* An admitted job, or one an ending daemon has already given up, concludes; a
\* verdict is only given once the execution is over.  A delivery is posted once.
Conclude(j) ==
  /\ \/ view[j] = "queued" /\ view'[j] \in {"failed", "cancelled"} /\ work[j] = "never"
     \/ view[j] \in {"active", "interrupted"} /\ view'[j] \in Concluded
  /\ view'[j] # "interrupted" => work[j] # "alive"
  /\ mail'[j] = IF j \in Owned /\ mail[j] = "none" THEN "unacked" ELSE mail[j]

Acknowledge(j) == mail[j] = "unacked" /\ mail'[j] = "acked" /\ view'[j] = view[j]

Purge(j) == view[j] \in Concluded /\ view'[j] = "gone" /\ mail'[j] = "none"

\* Work starts at most once and never for a job that still waits or has been
\* given a verdict.
WorkMoves(j) ==
  \/ work'[j] = work[j]
  \/ work[j] = "never" /\ work'[j] = "alive" /\ view[j] \in {"active", "interrupted"}
  \/ work[j] = "alive" /\ work'[j] = "over"

Move(j) ==
  /\ Keep(j) \/ Accept(j) \/ Admit(j) \/ Conclude(j) \/ Acknowledge(j) \/ Purge(j)
  /\ WorkMoves(j)

Next == \A j \in Jobs : Move(j)

Spec == Init /\ [][Next]_vars
=============================================================================
