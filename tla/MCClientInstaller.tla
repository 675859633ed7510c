---------------------------- MODULE MCClientInstaller ----------------------------
(***************************************************************************)
(* Instances of ClientInstaller for TLC.                                   *)
(***************************************************************************)
EXTENDS ClientInstaller

SkillAndFiles == [skill |-> 1, config |-> 2, guidance |-> 3]
=============================================================================
