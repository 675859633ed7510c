---------------------------- MODULE RouteRequest -----------------------------
(***************************************************************************)
(* Every request that Supervisor.route_decide can be asked, one at a time:  *)
(* a valid intent, a health snapshot and, for an escalation, the provider   *)
(* of the parent decision.  The properties say what the composition of      *)
(* decide, rebalance, escalation and enforcement promises; each correction  *)
(* alone is simple, their order and their common result are not.            *)
(***************************************************************************)
EXTENDS RoutePolicy

CONSTANTS
  Asked,     \* the intents asked, with session and parent
  HealthMet  \* the health snapshots met

\* What normalize_intent lets through and what the quota broker reports.  A
\* caller names its model only when it is OpenCode, "" is no family.
ASSUME RequestAssumption ==
  /\ Asked \subseteq
       [version : {1, 2}, caller : Callers,
        surface : UNION {CallerSurfaces[c] : c \in Callers},
        callerFamily : STRING, capability : {"review", "engineering", "thinking"},
        fits : BOOLEAN, durable : BOOLEAN, native : BOOLEAN,
        explicit : Targets \cup {""}, model : STRING, session : STRING, parent : Nat]
  /\ \A i \in Asked : i.caller # "opencode" => i.callerFamily = ""
  /\ HealthMet \subseteq
       [Targets -> [state : {"unknown", "stale", "available", "pressured",
                             "rate_limited", "exhausted"},
                    pressure : Nat]]

VARIABLE
  reply  \* the request and its route, once answered

None == [intent |-> "none"]

InitReply == reply = None

\* parent is the provider of the previous decision, "" when it was direct.
RouteReply(i, h, parent) ==
  /\ ValidIntent(i)
  \* A snapshot that was not taken knows nothing.
  /\ QuotaRouting \/ \A p \in Targets : h[p].state = "unknown"
  /\ i.parent = 0 => parent = ""
  /\ reply' = [intent |-> i, health |-> h, parent |-> parent,
               route |-> Route(i, h, parent)]

NextReply ==
  /\ reply = None
  /\ \E i \in Asked, h \in HealthMet, parent \in Targets \cup {""} :
       RouteReply(i, h, parent)

RequestSpec == InitReply /\ [][NextReply]_reply

Provider == reply.route.provider

-----------------------------------------------------------------------------
ReplyTypeOK == reply # None => reply.route \in
  [lane : Lanes, provider : Targets \cup {""}, fallback : Targets \cup {""}]

\* The families of the models that the caller and the target p run.
OwnFamily(i) ==
  IF i.caller \in DOMAIN FamilyOf THEN FamilyOf[i.caller] ELSE i.callerFamily
Family(i, p) ==
  IF p \in DOMAIN FamilyOf THEN FamilyOf[p]
  ELSE IF i.explicit = "opencode" THEN ExplicitFamily(i)
  ELSE DefaultFamily

\* Only an explicit target may share the family of the caller.
Foreign(i, p) ==
  p = "" \/ (p # i.caller /\ (i.explicit = "" => Family(i, p) # OwnFamily(i)))

\* A durable job never goes back to the family of its caller, neither at once
\* nor through the fallback, whatever the corrections did
\* (CLIENT_INTEGRATION: "routes cross-family", "never to itself").
NeverToItself ==
  (reply # None /\ reply.route.lane = "agent_jobs") =>
    /\ Foreign(reply.intent, Provider)
    /\ Foreign(reply.intent, reply.route.fallback)
    /\ Provider # reply.route.fallback

\* An escalation never returns to the provider of its parent, neither as the
\* default, as the fallback, as a native worker nor by explicit request
\* (CLIENT_INTEGRATION: "the parent's provider is always excluded").
ParentExcluded ==
  (reply # None /\ reply.intent.parent # 0) =>
    /\ Provider # "" => Provider # reply.parent
    /\ reply.route.fallback = ""

\* No route leads back, to the caller's family or to the provider that failed.
NeverLeadsBack == NeverToItself /\ ParentExcluded

\* Moving from p to q lightens the load; health that is not known counts as none.
Lightens(h, p, q) ==
  /\ h[p].state = "pressured"
  /\ h[q].state = "pressured" => h[q].pressure < h[p].pressure

\* An automatic route ends at a target of the policy that is not cooling down or
\* exhausted, and goes direct just when there is none but the provider that failed:
\* also when both only cool down, where the balancing alone would keep the route.  A
\* target that serves is left only for a lighter one, and unless it escalates a route
\* names the other target as its fallback, whatever the health of that.
AutomaticIsServed ==
  (reply # None /\ QuotaRouting /\ reply.intent.explicit = "") =>
    LET h == reply.health
        first == Decide(reply.intent)
        targets == {first.provider, first.fallback} \ {"", reply.parent}
    IN /\ IF Provider = "" THEN \A p \in targets : Unavailable(h, p)
          ELSE Provider \in targets /\ ~Unavailable(h, Provider)
       /\ (/\ Provider # first.provider /\ Provider # ""
           /\ first.provider \in targets /\ ~Unavailable(h, first.provider)) =>
            Lightens(h, first.provider, Provider)
       /\ Provider # "" /\ reply.intent.parent = 0 =>
            {Provider, reply.route.fallback} = {first.provider, first.fallback}
=============================================================================
