--------------------------- MODULE MCRouteRequest ----------------------------
(***************************************************************************)
(* Instances of RouteRequest for TLC.                                      *)
(***************************************************************************)
EXTENDS RouteRequest

\* An explicit target with the family of its model, which matters for
\* OpenCode only.
Explicit == {<<"", "default">>, <<"codex", "default">>, <<"claude", "default">>}
            \cup {<<"opencode", f>> : f \in {"default", "openai", "anthropic"}}

\* A caller with its surface and, for OpenCode, the family of its model.
Who == {<<"codex", "codex", "">>, <<"claude", "claude-code", "">>,
        <<"claude", "claude-desktop", "">>, <<"hermes", "hermes", "">>}
       \cup {<<"opencode", "opencode", f>> : f \in {"", "openai", "anthropic", "meta"}}

AllIntents ==
  {[version |-> v, caller |-> w[1], surface |-> w[2], callerFamily |-> w[3],
    capability |-> c, fits |-> f, durable |-> d, native |-> n,
    explicit |-> e[1], model |-> e[2], session |-> s, parent |-> p] :
   v \in {1, 2}, w \in Who, c \in {"review", "engineering", "thinking"},
   f \in BOOLEAN, d \in BOOLEAN, n \in BOOLEAN, e \in Explicit,
   s \in {"", "s"}, p \in {0, 1}}

\* "unknown", "stale" and "available" are treated alike; 85 and 95 are two
\* pressures that can be compared.
Health == [state : {"unknown", "rate_limited", "exhausted"}, pressure : {0}]
          \cup [state : {"pressured"}, pressure : {85, 95}]
AllSnapshots == [Targets -> Health]
=============================================================================
