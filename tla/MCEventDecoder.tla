---------------------------- MODULE MCEventDecoder ----------------------------
(***************************************************************************)
(* Instances of EventDecoder for TLC.                                      *)
(***************************************************************************)
EXTENDS EventDecoder

\* One text begins the other, which exceeds the tracked length.
TwoTexts == {<<"a">>, <<"a", "b", "a">>}
=============================================================================
