--------------------------- MODULE MCProviderHealth ---------------------------
(***************************************************************************)
(* Instances of ProviderHealth for TLC.                                    *)
(***************************************************************************)
EXTENDS ProviderHealth

Load(u, p) == [used |-> u, pressure |-> p]

\* Below every threshold, between exit and entry of pressure, above the entry
\* of pressure, above the entry of exhaustion.
FourLoads == {Load(60, 60), Load(60, 80), Load(60, 90), Load(99, 99)}

OneWindow == {"session"}
\* A window that resets at the next tick, and one that outlasts the run.
ShortOrLong == {1, 9}
TwoCooldowns == {1, 2}
=============================================================================
