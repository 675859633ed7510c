--------------------------- MODULE MCJobSupervisor ---------------------------
(***************************************************************************)
(* Instances of JobSupervisor for TLC.                                     *)
(***************************************************************************)
EXTENDS JobSupervisorRefines

CONSTANT p

OneProvider == {p}

\* Every job names p.
AllOnP == [j \in Jobs |-> p]

\* Only the first job has an owner.
FirstOwned == {1}

LimitOne == [x \in Provider |-> 1]

OnlyP == {p}
None == {}
=============================================================================
