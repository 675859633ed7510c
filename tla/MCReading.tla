------------------------------ MODULE MCReading ------------------------------
(***************************************************************************)
(* Instances of Reading for TLC.                                           *)
(***************************************************************************)
EXTENDS Reading

\* A text can be dropped where a smaller one fits, one can fill the journal so that
\* not even the warning about the next fits, and a write can stop within a character
\* of several bytes.
Widths123 == {1, 2, 3}
\* A page is one record.
ShortPages == {1}
=============================================================================
