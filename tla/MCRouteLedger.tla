---------------------------- MODULE MCRouteLedger ----------------------------
(***************************************************************************)
(* Instances of RouteLedger for TLC.                                       *)
(***************************************************************************)
EXTENDS RouteLedger

\* A focused Codex implementation that a native worker may take.
Focused ==
  [version |-> 2, caller |-> "codex", surface |-> "codex", callerFamily |-> "",
   capability |-> "engineering", fits |-> TRUE, durable |-> TRUE, native |-> TRUE,
   explicit |-> "", model |-> "default", session |-> "", parent |-> 0]

\* A plan, which goes to Claude or to OpenCode.
Plan == [Focused EXCEPT !.capability = "thinking"]

TwoIntents == {Focused, Plan}

Idle == [state |-> "unknown", pressure |-> 0]
AllIdle == [p \in Targets |-> Idle]
OnlyIdle == {AllIdle}

TwoSessions == {"s", "t"}
Outcomes == {"escalated", "completed"}
=============================================================================
