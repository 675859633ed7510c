------------------------ MODULE JobSupervisorRefines -------------------------
(***************************************************************************)
(* The daemon keeps the contract: the refinement mapping from JobSupervisor *)
(* to JobContract.                                                          *)
(***************************************************************************)
EXTENDS JobSupervisor

ViewOf(s) ==
  CASE s = "none" -> "absent"
    [] s \in InFlight -> "active"
    [] s = "pruned" -> "gone"
    [] OTHER -> s

WorkOf(g) ==
  CASE g = "none" -> "never"
    [] g = "leader" -> "alive"
    [] OTHER -> "over"

Contract == INSTANCE JobContract WITH
  view <- [j \in Jobs |-> ViewOf(status[j])],
  mail <- delivery,
  work <- [j \in Jobs |-> WorkOf(proc[j])]

\* Every behaviour of the daemon, with its crashes and shutdowns, is one the
\* contract allows.
ContractKept == Contract!Spec
=============================================================================
