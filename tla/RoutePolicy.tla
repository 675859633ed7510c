----------------------------- MODULE RoutePolicy -----------------------------
(***************************************************************************)
(* The route of one request: decide of src/tools/agent_routing_policy.py,   *)
(* then the three corrections that Supervisor.route_decide applies to it in *)
(* this order: rebalance_default_route (agent_quota_broker.py),             *)
(* apply_one_hop_escalation (agent_routing_policy.py) and                   *)
(* enforce_provider_availability (agent_quota_broker.py).  All of it is a   *)
(* function of the intent, the health snapshot and the parent's provider.   *)
(*                                                                          *)
(* Capabilities are their three classes; complexity, risk, scope, duration  *)
(* and durability are the one bit "fits" that the policy asks of them;      *)
(* model names are their families; model aliases and reasons are left out.  *)
(***************************************************************************)
EXTENDS Naturals

CONSTANTS
  Mode,          \* AGENT_JOB_ROUTING_MODE
  QuotaRouting,  \* AGENT_JOB_QUOTA_ROUTING
  DefaultFamily  \* the family of AGENT_JOB_OPENCODE_DEFAULT_MODEL

ASSUME PolicyAssumption ==
  /\ Mode \in {"shadow", "codex_canary", "surface_canary"}
  /\ QuotaRouting \in BOOLEAN
  \* OPENCODE_EXCLUDED_DEFAULT_FAMILIES; a model without a known family is of
  \* the family "unknown".
  /\ DefaultFamily \in STRING \ {"openai", "anthropic", ""}

Callers == {"codex", "claude", "opencode", "hermes"}
Targets == {"codex", "claude", "opencode"}
Lanes == {"direct", "agent_jobs", "native_subagent"}

CallerSurfaces ==
  [codex |-> {"codex"}, claude |-> {"claude-code", "claude-desktop"},
   opencode |-> {"opencode"}, hermes |-> {"hermes"}]

\* SURFACE_CAPABILITY_MATRIX: every surface may declare durable jobs.
NativeSurfaces == {"codex", "claude-code"}

\* CALLER_FAMILIES and TARGET_FAMILIES; OpenCode runs models of any family.
FamilyOf == [codex |-> "openai", claude |-> "anthropic"]

\* NATIVE_CAPABILITIES, by class
NativeCapability ==
  [codex |-> {"engineering"}, claude |-> {"thinking"}, opencode |-> {}, hermes |-> {}]

\* normalize_intent: what it refuses never becomes a decision.
ValidIntent(i) ==
  /\ i.surface \in CallerSurfaces[i.caller]
  /\ i.version \in {1, 2}
  /\ i.parent # 0 => i.version = 2 /\ i.session # ""

Durable(i) == i.version = 1 \/ i.durable
Native(i) == i.native /\ (i.version = 1 \/ i.surface \in NativeSurfaces)

Canary(i) ==
  \/ Mode = "codex_canary" /\ i.caller = "codex" /\ i.surface = "codex"
  \/ /\ Mode = "surface_canary"
     /\ i.version = 2
     /\ i.surface \in {"codex", "claude-code", "claude-desktop", "opencode"}

-----------------------------------------------------------------------------
Direct == [lane |-> "direct", provider |-> "", fallback |-> ""]
Job(p, q) == [lane |-> "agent_jobs", provider |-> p, fallback |-> q]
Worker(p) == [lane |-> "native_subagent", provider |-> p, fallback |-> ""]

\* Model names that mean the configured default are resolved first.
ExplicitFamily(i) == IF i.model = "default" THEN DefaultFamily ELSE i.model

\* An OpenCode model of the caller's own family is not cross-family.
SameFamily(i) ==
  /\ i.explicit = "opencode"
  /\ i.caller \in DOMAIN FamilyOf
  /\ ExplicitFamily(i) = FamilyOf[i.caller]

ExplicitRoute(i) ==
  IF i.explicit = i.caller \/ SameFamily(i) THEN Direct ELSE Job(i.explicit, "")

NativeFits(i) ==
  /\ Canary(i)
  /\ i.capability \in NativeCapability[i.caller]
  /\ i.fits
  /\ Native(i)
  /\ i.session # ""

\* _default_targets: the target and its fallback
DefaultTargets(i) ==
  CASE i.capability = "review" /\ i.caller \in {"codex", "hermes"} -> Job("opencode", "claude")
    [] i.capability = "review" /\ i.caller = "claude" -> Job("codex", "opencode")
    [] i.capability = "review" /\ i.caller = "opencode" -> Job("codex", "claude")
    [] i.capability = "engineering" /\ i.caller # "codex" -> Job("codex", "")
    [] i.capability = "thinking" /\ i.caller \in {"codex", "hermes"} -> Job("claude", "opencode")
    [] i.capability = "thinking" /\ i.caller = "opencode" -> Job("claude", "codex")
    [] OTHER -> Direct

\* Mutation: nobody asks for the family of the caller's model.
SharesFamilyNever(i, p) == FALSE

\* The target p runs models of the family that an OpenCode caller runs.
SharesFamily(i, p) ==
  /\ i.caller = "opencode"
  /\ p \in DOMAIN FamilyOf
  /\ FamilyOf[p] = i.callerFamily

\* The target t and its fallback without what is not cross-family.
Narrowed(i, t) ==
  LET drop == SharesFamily(i, t.provider)
      dropFallback == SharesFamily(i, t.fallback)
  IN IF ~drop /\ ~dropFallback THEN t
     ELSE IF ~drop THEN Job(t.provider, "")
     ELSE IF t.fallback # "" /\ ~dropFallback THEN Job(t.fallback, "")
     ELSE Direct

DefaultRoute(i) == Narrowed(i, DefaultTargets(i))

Chosen(i) ==
  IF i.explicit # "" THEN ExplicitRoute(i)
  ELSE IF NativeFits(i) THEN Worker(i.caller)
  ELSE DefaultRoute(i)

Decide(i) ==
  IF Chosen(i).lane = "agent_jobs" /\ ~Durable(i) THEN Direct ELSE Chosen(i)

-----------------------------------------------------------------------------
(* Health: state and, for a pressured provider, its pressure.              *)

Unavailable(h, p) == p # "" /\ h[p].state \in {"rate_limited", "exhausted"}

\* Mutation: pressures are not compared.
FallbackRefusedUnavailable(d, h) == Unavailable(h, d.fallback)

\* Moving to the fallback would not help.
FallbackRefused(d, h) ==
  \/ Unavailable(h, d.fallback)
  \/ /\ h[d.fallback].state = "pressured"
     /\ h[d.provider].state = "pressured"
     /\ h[d.fallback].pressure >= h[d.provider].pressure

\* Only a durable job with a fallback, away from a provider in trouble.
Rebalanced(d, h) ==
  /\ d.lane = "agent_jobs"
  /\ d.fallback # ""
  /\ h[d.provider].state \in {"pressured", "rate_limited", "exhausted"}

\* rebalance_default_route
Rebalance(d, h) ==
  IF ~Rebalanced(d, h) THEN d
  ELSE IF ~FallbackRefused(d, h) THEN Job(d.fallback, d.provider)
  ELSE IF h[d.provider].state = "exhausted" THEN Direct
  ELSE d

\* apply_one_hop_escalation: never the parent's provider, no further fallback.
Escalate(d, previous, h) ==
  IF d.lane = "direct" \/ d.provider # previous THEN [d EXCEPT !.fallback = ""]
  ELSE IF d.lane = "agent_jobs" /\ d.fallback # "" /\ ~Unavailable(h, d.fallback)
    THEN Job(d.fallback, "")
  ELSE Direct

\* enforce_provider_availability
Enforce(d, h) == IF Unavailable(h, d.provider) THEN Direct ELSE d

\* Supervisor.route_decide up to the admission.
Route(i, h, previous) ==
  LET automatic == QuotaRouting /\ i.explicit = ""
      balanced == IF automatic THEN Rebalance(Decide(i), h) ELSE Decide(i)
      escalated == IF i.parent # 0 THEN Escalate(balanced, previous, h) ELSE balanced
  IN IF automatic THEN Enforce(escalated, h) ELSE escalated
=============================================================================
