---------------------------- MODULE MCSubmission ----------------------------
(***************************************************************************)
(* Instances of Submission for TLC.                                        *)
(***************************************************************************)
EXTENDS Submission

\* The second installation changes the configuration.
SecondChanges == <<1, 1, 2>>
\* The pid of the third process begins with that of the first.
Pids == << <<1>>, <<2>>, <<1, 2>> >>
=============================================================================
