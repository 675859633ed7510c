---------------------------- MODULE RoutingProofs ----------------------------
(***************************************************************************)
(* Proofs about RoutePolicy, RouteRequest and RouteLedger, for every        *)
(* configuration of the policy, health snapshot, limit, lease time,         *)
(* retention and number of decisions.  The route of the policy is a good    *)
(* one (GoodRoute), foreign to its caller (Away), and ends at a provider    *)
(* that serves.  A step of the ledger is either quiet, and then only moves  *)
(* rows (Moved) and prunes no child before its parent (Retained), or admits *)
(* one decision (Admission); both keep LedgerInv, and Moved is all that     *)
(* LeasesEndOnce asks.                                                      *)
(***************************************************************************)
EXTENDS RouteLedger, RouteRequest, FiniteSetTheorems, TLAPS

\* Who asks the policy: all that its result depends on for its type.
Asker(i) == i.caller \in Callers /\ i.explicit \in Targets \cup {""}

LEMMA RequestsAreAskers ==
  /\ \A i \in Request : Asker(i)
  /\ \A i \in Asked : Asker(i)
<1>1. \A i \in Request : Asker(i)
  BY DEF Asker, Request
<1>2. ASSUME NEW i \in Asked PROVE Asker(i)
  BY RequestAssumption DEF Asker
<1> QED BY <1>1, <1>2

RouteRecord == [lane : Lanes, provider : Targets \cup {""}, fallback : Targets \cup {""}]

\* A route names a provider unless it is direct, has no fallback equal to it,
\* and is a native worker only for an enforced request.
GoodRoute(i, r) ==
  /\ r \in RouteRecord
  /\ r.lane = "direct" => r.provider = ""
  /\ r.provider = r.fallback => r.fallback = ""
  /\ r.lane = "native_subagent" => Canary(i)

LEMMA DirectIsGood ==
  ASSUME NEW i
  PROVE  GoodRoute(i, Direct)
BY DEF GoodRoute, Direct, RouteRecord, Lanes, Targets

LEMMA JobIsGood ==
  ASSUME NEW i, NEW p \in Targets, NEW q \in Targets \cup {""}, p # q
  PROVE  GoodRoute(i, Job(p, q))
BY DEF GoodRoute, Job, RouteRecord, Lanes, Targets

LEMMA WorkerIsGood ==
  ASSUME NEW i, NEW p \in Targets, Canary(i)
  PROVE  GoodRoute(i, Worker(p))
BY DEF GoodRoute, Worker, RouteRecord, Lanes, Targets

\* The rows of the table of default targets.
TargetPairs == {Job("opencode", "claude"), Job("codex", "opencode"),
                Job("codex", "claude"), Job("codex", ""), Job("claude", "opencode"),
                Job("claude", "codex"), Direct}

LEMMA DefaultTargetsCases ==
  ASSUME NEW i
  PROVE  DefaultTargets(i) \in TargetPairs
<1> USE DEF TargetPairs
<1> DEFINE t == DefaultTargets(i)
<1>1. CASE i.capability = "review"
  <2>1. CASE i.caller \in {"codex", "hermes"}
    BY <1>1, <2>1 DEF DefaultTargets
  <2>2. CASE i.caller = "claude"
    BY <1>1, <2>2 DEF DefaultTargets
  <2>3. CASE i.caller = "opencode"
    BY <1>1, <2>3 DEF DefaultTargets
  <2>4. CASE i.caller \notin Callers
    BY <1>1, <2>4 DEF DefaultTargets, Callers
  <2> QED BY <2>1, <2>2, <2>3, <2>4 DEF Callers
<1>2. CASE i.capability = "engineering"
  BY <1>2 DEF DefaultTargets
<1>3. CASE i.capability = "thinking"
  <2>1. CASE i.caller \in {"codex", "hermes"}
    BY <1>3, <2>1 DEF DefaultTargets
  <2>2. CASE i.caller = "opencode"
    BY <1>3, <2>2 DEF DefaultTargets
  <2>3. CASE i.caller \notin {"codex", "hermes", "opencode"}
    BY <1>3, <2>3 DEF DefaultTargets
  <2> QED BY <2>1, <2>2, <2>3
<1>4. CASE i.capability \notin {"review", "engineering", "thinking"}
  BY <1>4 DEF DefaultTargets
<1> QED BY <1>1, <1>2, <1>3, <1>4

LEMMA PairOrDirect ==
  ASSUME NEW t \in TargetPairs
  PROVE  t = Direct \/ \E p \in Targets, q \in Targets \cup {""} : p # q /\ t = Job(p, q)
BY DEF Targets, TargetPairs

LEMMA NarrowedGood ==
  ASSUME NEW i, NEW t,
         t = Direct \/ \E p \in Targets, q \in Targets \cup {""} : p # q /\ t = Job(p, q)
  PROVE  GoodRoute(i, Narrowed(i, t))
<1>1. CASE t = Direct
  <2>1. t.provider = "" /\ t.fallback = ""
    BY <1>1 DEF Direct
  <2>2. ~SharesFamily(i, "")
    BY DEF SharesFamily, FamilyOf
  <2>3. Narrowed(i, t) = t
    BY <2>1, <2>2 DEF Narrowed
  <2> QED BY <1>1, <2>3, DirectIsGood
<1>2. CASE \E p \in Targets, q \in Targets \cup {""} : p # q /\ t = Job(p, q)
  <2>1. PICK p \in Targets, q \in Targets \cup {""} : p # q /\ t = Job(p, q)
    BY <1>2
  <2>2. t.provider = p /\ t.fallback = q
    BY <2>1 DEF Job
  <2>3. \/ Narrowed(i, t) = t
        \/ Narrowed(i, t) = Job(p, "")
        \/ q # "" /\ Narrowed(i, t) = Job(q, "")
        \/ Narrowed(i, t) = Direct
    BY <2>2 DEF Narrowed
  <2>4. p # "" /\ "" \in Targets \cup {""} /\ (q # "" => q \in Targets)
    BY DEF Targets
  <2>5. GoodRoute(i, t) /\ GoodRoute(i, Job(p, ""))
    BY <2>1, <2>4, JobIsGood
  <2>6. q # "" => GoodRoute(i, Job(q, ""))
    BY <2>4, JobIsGood
  <2> QED BY <2>3, <2>5, <2>6, DirectIsGood
<1> QED BY <1>1, <1>2

LEMMA DefaultRouteGood ==
  ASSUME NEW i
  PROVE  GoodRoute(i, DefaultRoute(i))
<1>1. \/ DefaultTargets(i) = Direct
      \/ \E p \in Targets, q \in Targets \cup {""} : p # q /\ DefaultTargets(i) = Job(p, q)
  BY DefaultTargetsCases, PairOrDirect
<1>2. GoodRoute(i, Narrowed(i, DefaultTargets(i)))
  BY <1>1, NarrowedGood
<1> QED BY <1>2 DEF DefaultRoute

LEMMA DecideGood ==
  ASSUME NEW i, Asker(i)
  PROVE  GoodRoute(i, Decide(i))
<1>1. CASE i.explicit # ""
  <2>1. ExplicitRoute(i) \in {Direct, Job(i.explicit, "")}
    BY DEF ExplicitRoute
  <2>2. Decide(i) \in {Direct, Job(i.explicit, "")}
    BY <1>1, <2>1 DEF Decide, Chosen
  <2>3. i.explicit \in Targets
    BY <1>1 DEF Asker
  <2> QED BY <1>1, <2>2, <2>3, DirectIsGood, JobIsGood
<1>2. CASE i.explicit = "" /\ NativeFits(i)
  <2>1. Decide(i) = Worker(i.caller)
    BY <1>2 DEF Decide, Chosen, Worker
  <2>2. Canary(i) /\ i.capability \in NativeCapability[i.caller]
    BY <1>2 DEF NativeFits
  <2>3. i.caller # "hermes"
    BY <2>2 DEF NativeCapability
  <2>4. i.caller \in Targets
    BY <2>3 DEF Asker, Callers, Targets
  <2> QED BY <2>1, <2>2, <2>4, WorkerIsGood
<1>3. CASE i.explicit = "" /\ ~NativeFits(i)
  <2>1. Decide(i) \in {DefaultRoute(i), Direct}
    BY <1>3 DEF Decide, Chosen
  <2> QED BY <2>1, DefaultRouteGood, DirectIsGood
<1> QED BY <1>1, <1>2, <1>3

LEMMA RebalanceGood ==
  ASSUME NEW i, NEW d, NEW h, GoodRoute(i, d)
  PROVE  GoodRoute(i, Rebalance(d, h))
<1>1. Rebalance(d, h) \in {d, Direct}
        \/ (d.lane = "agent_jobs" /\ d.fallback # "" /\ Rebalance(d, h) = Job(d.fallback, d.provider))
  BY DEF Rebalance, Rebalanced
<1>2. CASE Rebalance(d, h) \in {d, Direct}
  BY <1>2, DirectIsGood
<1>3. CASE d.lane = "agent_jobs" /\ d.fallback # "" /\ Rebalance(d, h) = Job(d.fallback, d.provider)
  <2>1. d.fallback \in Targets /\ d.provider \in Targets \cup {""} /\ d.fallback # d.provider
    BY <1>3 DEF GoodRoute, RouteRecord
  <2> QED BY <1>3, <2>1, JobIsGood
<1> QED BY <1>1, <1>2, <1>3

\* An escalated route is good and avoids the parent's provider.
LEMMA EscalateGood ==
  ASSUME NEW i, NEW d, NEW h, NEW previous, GoodRoute(i, d)
  PROVE  /\ GoodRoute(i, Escalate(d, previous, h))
         /\ Escalate(d, previous, h).provider # "" => Escalate(d, previous, h).provider # previous
<1> DEFINE e == Escalate(d, previous, h)
<1>1. CASE d.lane = "direct" \/ d.provider # previous
  <2>1. e = [d EXCEPT !.fallback = ""]
    BY <1>1 DEF Escalate
  <2>2. d \in RouteRecord
    BY DEF GoodRoute
  <2>3. e \in RouteRecord /\ e.fallback = "" /\ e.provider = d.provider /\ e.lane = d.lane
    BY <2>1, <2>2 DEF RouteRecord
  <2> QED BY <1>1, <2>3 DEF GoodRoute
<1>2. CASE /\ ~(d.lane = "direct" \/ d.provider # previous)
           /\ d.lane = "agent_jobs" /\ d.fallback # "" /\ ~Unavailable(h, d.fallback)
  <2>1. e = Job(d.fallback, "")
    BY <1>2 DEF Escalate
  <2>2. d.fallback \in Targets /\ d.fallback # previous
    BY <1>2 DEF GoodRoute, RouteRecord
  <2>3. Job(d.fallback, "").provider = d.fallback
    BY DEF Job
  <2>4. GoodRoute(i, Job(d.fallback, ""))
    BY <1>2, <2>2, JobIsGood
  <2> QED BY <2>1, <2>2, <2>3, <2>4
<1>3. CASE /\ ~(d.lane = "direct" \/ d.provider # previous)
           /\ ~(d.lane = "agent_jobs" /\ d.fallback # "" /\ ~Unavailable(h, d.fallback))
  <2>1. e = Direct
    BY <1>3 DEF Escalate
  <2>2. Direct.provider = ""
    BY DEF Direct
  <2> QED BY <2>1, <2>2, DirectIsGood
<1> QED BY <1>1, <1>2, <1>3

LEMMA EnforceGood ==
  ASSUME NEW i, NEW d, NEW h, GoodRoute(i, d)
  PROVE  GoodRoute(i, Enforce(d, h))
BY DirectIsGood DEF Enforce

LEMMA RouteIsGood ==
  ASSUME NEW i, Asker(i), NEW h, NEW previous
  PROVE  /\ GoodRoute(i, Route(i, h, previous))
         /\ (i.parent # 0 /\ Route(i, h, previous).provider # "") =>
              Route(i, h, previous).provider # previous
<1> DEFINE automatic == QuotaRouting /\ i.explicit = ""
           balanced == IF automatic THEN Rebalance(Decide(i), h) ELSE Decide(i)
           escalated == IF i.parent # 0 THEN Escalate(balanced, previous, h) ELSE balanced
<1>1. GoodRoute(i, balanced)
  BY DecideGood, RebalanceGood
<1>2. /\ GoodRoute(i, escalated)
      /\ (i.parent # 0 /\ escalated.provider # "") => escalated.provider # previous
  <2> HIDE DEF balanced
  <2> QED BY <1>1, EscalateGood
<1>3. Route(i, h, previous) = IF automatic THEN Enforce(escalated, h) ELSE escalated
  BY DEF Route
<1>4. Enforce(escalated, h) = escalated \/ Enforce(escalated, h) = Direct
  BY DEF Enforce
<1>5. Direct.provider = ""
  BY DEF Direct
<1> HIDE DEF automatic, escalated
<1> QED BY <1>2, <1>3, <1>4, <1>5, DirectIsGood

-----------------------------------------------------------------------------
(* The answer to a single request.                                         *)

\* A durable job goes to providers that are foreign to the caller.
Away(i, r) ==
  r.lane = "agent_jobs" =>
    /\ r.provider \in Targets
    /\ Foreign(i, r.provider) /\ Foreign(i, r.fallback)
    /\ r.provider # r.fallback

LEMMA DirectIsAway ==
  ASSUME NEW i
  PROVE  Away(i, Direct)
BY DEF Away, Direct

LEMMA WorkerIsAway ==
  ASSUME NEW i, NEW p
  PROVE  Away(i, Worker(p))
BY DEF Away, Worker

LEMMA JobIsAway ==
  ASSUME NEW i, NEW p \in Targets, NEW q, p # q, Foreign(i, p), Foreign(i, q)
  PROVE  Away(i, Job(p, q))
BY DEF Away, Job

LEMMA JobAlone ==
  ASSUME NEW i, NEW p \in Targets, Foreign(i, p)
  PROVE  Away(i, Job(p, ""))
<1>1. Foreign(i, "") /\ p # ""
  BY DEF Foreign, Targets
<1> QED BY <1>1, JobIsAway

\* An explicit target is another provider than the caller.
LEMMA ExplicitAway ==
  ASSUME NEW i, Asker(i), i.explicit # ""
  PROVE  Away(i, ExplicitRoute(i))
<1>1. CASE ExplicitRoute(i) = Direct
  BY <1>1, DirectIsAway
<1>2. CASE ExplicitRoute(i) # Direct
  <2>1. ExplicitRoute(i) = Job(i.explicit, "") /\ i.explicit # i.caller
    BY <1>2 DEF ExplicitRoute
  <2>2. i.explicit \in Targets
    BY DEF Asker
  <2>3. Foreign(i, i.explicit)
    BY <2>1 DEF Foreign
  <2> QED BY <2>1, <2>2, <2>3, JobAlone
<1> QED BY <1>1, <1>2

\* What the table may propose to a caller, before it is narrowed.
Proposal(i, t) ==
  /\ t.provider # i.caller \/ t.provider = ""
  /\ t.fallback # i.caller \/ t.fallback = ""
  /\ i.caller = "opencode" =>
       t.provider \in {"codex", "claude", ""} /\ t.fallback \in {"codex", "claude", ""}

LEMMA TableByCaller ==
  ASSUME NEW i, Asker(i)
  PROVE  Proposal(i, DefaultTargets(i))
<1> DEFINE t == DefaultTargets(i)
<1>1. CASE i.capability = "review" /\ i.caller \in {"codex", "hermes"}
  <2>1. t = Job("opencode", "claude")
    BY <1>1 DEF DefaultTargets
  <2> QED BY <1>1, <2>1 DEF Job, Proposal
<1>2. CASE i.capability = "review" /\ i.caller = "claude"
  <2>1. t = Job("codex", "opencode")
    BY <1>2 DEF DefaultTargets
  <2> QED BY <1>2, <2>1 DEF Job, Proposal
<1>3. CASE i.capability = "review" /\ i.caller = "opencode"
  <2>1. t = Job("codex", "claude")
    BY <1>3 DEF DefaultTargets
  <2> QED BY <1>3, <2>1 DEF Job, Proposal
<1>4. CASE i.capability = "engineering" /\ i.caller # "codex"
  <2>1. t = Job("codex", "")
    BY <1>4 DEF DefaultTargets
  <2>2. Job("codex", "").provider = "codex" /\ Job("codex", "").fallback = ""
    BY DEF Job
  <2> HIDE DEF t
  <2>3. Proposal(i, t)
    BY <1>4, <2>1, <2>2 DEF Proposal
  <2> QED BY <2>3 DEF t
<1>5. CASE i.capability = "thinking" /\ i.caller \in {"codex", "hermes"}
  <2>1. t = Job("claude", "opencode")
    BY <1>5 DEF DefaultTargets
  <2> QED BY <1>5, <2>1 DEF Job, Proposal
<1>6. CASE i.capability = "thinking" /\ i.caller = "opencode"
  <2>1. t = Job("claude", "codex")
    BY <1>6 DEF DefaultTargets
  <2> QED BY <1>6, <2>1 DEF Job, Proposal
<1>7. CASE /\ i.capability # "review"
           /\ i.capability = "engineering" => i.caller = "codex"
           /\ i.capability = "thinking" => i.caller = "claude"
  <2>1. t = Direct
    BY <1>7 DEF DefaultTargets
  <2>2. Direct.provider = "" /\ Direct.fallback = ""
    BY DEF Direct
  <2> HIDE DEF t
  <2>3. Proposal(i, t)
    BY <2>1, <2>2 DEF Proposal
  <2> QED BY <2>3 DEF t
<1> QED BY <1>1, <1>2, <1>3, <1>4, <1>5, <1>6, <1>7 DEF Asker, Callers

\* What normalize_intent makes of the model of a caller that is not OpenCode.
Named(i) == i.caller # "opencode" => i.callerFamily = ""

\* A target of the table is foreign unless it shares the family of the model
\* that an OpenCode caller runs.
LEMMA TargetForeign ==
  ASSUME NEW i, Asker(i), Named(i), i.explicit = "", NEW p \in Targets,
         p # i.caller,
         i.caller = "opencode" => p \in {"codex", "claude"},
         ~SharesFamily(i, p)
  PROVE  Foreign(i, p)
<1>1. DOMAIN FamilyOf = {"codex", "claude"} /\ FamilyOf["codex"] = "openai"
        /\ FamilyOf["claude"] = "anthropic"
  BY DEF FamilyOf
<1>2. DefaultFamily \notin {"openai", "anthropic", ""}
  BY PolicyAssumption
<1>3. Family(i, p) = IF p \in {"codex", "claude"} THEN FamilyOf[p] ELSE DefaultFamily
  BY <1>1 DEF Family
<1>4. CASE i.caller \in {"codex", "claude"}
  <2>1. OwnFamily(i) = FamilyOf[i.caller]
    BY <1>1, <1>4 DEF OwnFamily
  <2>2. Family(i, p) # OwnFamily(i)
    BY <1>1, <1>2, <1>3, <1>4, <2>1
  <2> QED BY <2>2 DEF Foreign
<1>5. CASE i.caller = "hermes"
  <2>1. OwnFamily(i) = ""
    BY <1>1, <1>5 DEF OwnFamily, Named
  <2>2. Family(i, p) # ""
    BY <1>1, <1>2, <1>3
  <2> QED BY <2>1, <2>2 DEF Foreign
<1>6. CASE i.caller = "opencode"
  <2>1. OwnFamily(i) = i.callerFamily
    BY <1>1, <1>6 DEF OwnFamily
  <2>2. p \in {"codex", "claude"}
    BY <1>6
  <2>3. Family(i, p) = FamilyOf[p]
    BY <1>3, <2>2
  <2>4. FamilyOf[p] # i.callerFamily
    BY <1>1, <1>6, <2>2 DEF SharesFamily
  <2> QED BY <2>1, <2>3, <2>4 DEF Foreign
<1> QED BY <1>4, <1>5, <1>6 DEF Asker, Callers

LEMMA DefaultAway ==
  ASSUME NEW i, Asker(i), Named(i), i.explicit = ""
  PROVE  Away(i, DefaultRoute(i))
<1> DEFINE t == DefaultTargets(i)
           n == DefaultRoute(i)
<1>1. n = Narrowed(i, t)
  BY DEF DefaultRoute
<1>2. t = Direct \/ \E p \in Targets, q \in Targets \cup {""} : p # q /\ t = Job(p, q)
  BY DefaultTargetsCases, PairOrDirect
<1>3. CASE t = Direct
  <2>1. ~SharesFamily(i, "")
    BY DEF SharesFamily, FamilyOf
  <2>2. t.provider = "" /\ t.fallback = ""
    <3>1. Direct.provider = "" /\ Direct.fallback = ""
      BY DEF Direct
    <3> HIDE DEF t
    <3> QED BY <1>3, <3>1
  <2>3. n = t
    BY <1>1, <2>1, <2>2 DEF Narrowed
  <2> QED BY <1>3, <2>3, DirectIsAway
<1>4. CASE t # Direct
  <2>1. PICK p \in Targets, q \in Targets \cup {""} : p # q /\ t = Job(p, q)
    BY <1>2, <1>4
  <2>2. t.provider = p /\ t.fallback = q
    <3>1. Job(p, q).provider = p /\ Job(p, q).fallback = q
      BY DEF Job
    <3> HIDE DEF t
    <3> QED BY <2>1, <3>1
  <2>3. p # ""
    BY DEF Targets
  <2>4. /\ p # i.caller
        /\ i.caller = "opencode" => p \in {"codex", "claude"}
        /\ q # "" => q # i.caller
        /\ (i.caller = "opencode" /\ q # "") => q \in {"codex", "claude"}
    <3>1. Proposal(i, t)
      BY TableByCaller
    <3> HIDE DEF t
    <3> QED BY <2>2, <2>3, <3>1 DEF Proposal
  <2>5. ~SharesFamily(i, p) => Foreign(i, p)
    BY <2>4, TargetForeign
  <2>6. ~SharesFamily(i, q) => Foreign(i, q)
    <3>1. CASE q = ""
      BY <3>1 DEF Foreign
    <3>2. CASE q # ""
      BY <2>4, <3>2, TargetForeign
    <3> QED BY <3>1, <3>2
  <2>7. CASE ~SharesFamily(i, p) /\ ~SharesFamily(i, q)
    <3>1. n = Job(p, q)
      BY <1>1, <2>1, <2>2, <2>7 DEF Narrowed
    <3> QED BY <2>1, <2>5, <2>6, <2>7, <3>1, JobIsAway
  <2>8. CASE ~SharesFamily(i, p) /\ SharesFamily(i, q)
    <3>1. n = Job(p, "")
      BY <1>1, <2>2, <2>8 DEF Narrowed
    <3> QED BY <2>5, <2>8, <3>1, JobAlone
  <2>9. CASE SharesFamily(i, p) /\ ~SharesFamily(i, q) /\ q # ""
    <3>1. n = Job(q, "")
      BY <1>1, <2>2, <2>9 DEF Narrowed
    <3> QED BY <2>6, <2>9, <3>1, JobAlone
  <2>10. CASE SharesFamily(i, p) /\ (SharesFamily(i, q) \/ q = "")
    <3>1. n = Direct
      BY <1>1, <2>2, <2>10 DEF Narrowed
    <3> QED BY <3>1, DirectIsAway
  <2> QED BY <2>7, <2>8, <2>9, <2>10
<1> QED BY <1>3, <1>4

LEMMA DecideAway ==
  ASSUME NEW i, Asker(i), Named(i)
  PROVE  Away(i, Decide(i))
<1>1. Decide(i) \in {Chosen(i), Direct}
  BY DEF Decide
<1>2. CASE i.explicit # ""
  <2>1. Chosen(i) = ExplicitRoute(i)
    BY <1>2 DEF Chosen
  <2> QED BY <1>1, <1>2, <2>1, ExplicitAway, DirectIsAway
<1>3. CASE i.explicit = ""
  <2>1. Chosen(i) \in {Worker(i.caller), DefaultRoute(i)}
    BY <1>3 DEF Chosen
  <2> QED BY <1>1, <1>3, <2>1, WorkerIsAway, DefaultAway, DirectIsAway
<1> QED BY <1>2, <1>3

LEMMA RebalanceAway ==
  ASSUME NEW i, NEW d, NEW h, GoodRoute(i, d), Away(i, d)
  PROVE  Away(i, Rebalance(d, h))
<1>1. \/ Rebalance(d, h) \in {d, Direct}
      \/ d.lane = "agent_jobs" /\ d.fallback # "" /\ Rebalance(d, h) = Job(d.fallback, d.provider)
  BY DEF Rebalance, Rebalanced
<1>2. CASE Rebalance(d, h) \in {d, Direct}
  BY <1>2, DirectIsAway
<1>3. CASE d.lane = "agent_jobs" /\ d.fallback # "" /\ Rebalance(d, h) = Job(d.fallback, d.provider)
  <2>1. Foreign(i, d.provider) /\ Foreign(i, d.fallback) /\ d.provider # d.fallback
    BY <1>3 DEF Away
  <2>2. d.fallback \in Targets
    BY <1>3 DEF GoodRoute, RouteRecord
  <2> QED BY <1>3, <2>1, <2>2, JobIsAway
<1> QED BY <1>1, <1>2, <1>3

LEMMA EscalateAway ==
  ASSUME NEW i, NEW d, NEW h, NEW previous, GoodRoute(i, d), Away(i, d)
  PROVE  /\ Away(i, Escalate(d, previous, h))
         /\ Escalate(d, previous, h).fallback = ""
<1> DEFINE e == Escalate(d, previous, h)
<1>1. CASE d.lane = "direct" \/ d.provider # previous
  <2>1. e = [d EXCEPT !.fallback = ""]
    BY <1>1 DEF Escalate
  <2>2. e.fallback = "" /\ e.provider = d.provider /\ e.lane = d.lane
    BY <2>1 DEF GoodRoute, RouteRecord
  <2>3. Foreign(i, "") /\ "" \notin Targets
    BY DEF Foreign, Targets
  <2>4. Away(i, e)
    <3> HIDE DEF e
    <3> QED BY <2>2, <2>3 DEF Away
  <2> QED BY <2>2, <2>4
<1>2. CASE /\ ~(d.lane = "direct" \/ d.provider # previous)
           /\ d.lane = "agent_jobs" /\ d.fallback # "" /\ ~Unavailable(h, d.fallback)
  <2>1. e = Job(d.fallback, "")
    BY <1>2 DEF Escalate
  <2>2. d.fallback \in Targets /\ Foreign(i, d.fallback)
    BY <1>2 DEF GoodRoute, RouteRecord, Away
  <2>3. Job(d.fallback, "").fallback = ""
    BY DEF Job
  <2> QED BY <2>1, <2>2, <2>3, JobAlone
<1>3. CASE /\ ~(d.lane = "direct" \/ d.provider # previous)
           /\ ~(d.lane = "agent_jobs" /\ d.fallback # "" /\ ~Unavailable(h, d.fallback))
  <2>1. e = Direct
    BY <1>3 DEF Escalate
  <2>2. Direct.fallback = ""
    BY DEF Direct
  <2> QED BY <2>1, <2>2, DirectIsAway
<1> QED BY <1>1, <1>2, <1>3

\* The stages of a route: balanced, escalated and enforced.
Balanced(i, h) ==
  IF QuotaRouting /\ i.explicit = "" THEN Rebalance(Decide(i), h) ELSE Decide(i)
Escalated(i, h, previous) ==
  IF i.parent # 0 THEN Escalate(Balanced(i, h), previous, h) ELSE Balanced(i, h)

LEMMA RouteStages ==
  ASSUME NEW i, NEW h, NEW previous
  PROVE  Route(i, h, previous) =
           IF QuotaRouting /\ i.explicit = "" THEN Enforce(Escalated(i, h, previous), h)
           ELSE Escalated(i, h, previous)
BY DEF Route, Balanced, Escalated

LEMMA RouteIsAway ==
  ASSUME NEW i, Asker(i), Named(i), NEW h, NEW previous
  PROVE  /\ Away(i, Route(i, h, previous))
         /\ i.parent # 0 => Route(i, h, previous).fallback = ""
<1>1. GoodRoute(i, Balanced(i, h)) /\ Away(i, Balanced(i, h))
  BY DecideGood, RebalanceGood, DecideAway, RebalanceAway DEF Balanced
<1>2. /\ Away(i, Escalated(i, h, previous))
      /\ i.parent # 0 => Escalated(i, h, previous).fallback = ""
  BY <1>1, EscalateAway DEF Escalated
<1>3. Route(i, h, previous) \in {Escalated(i, h, previous), Direct}
  BY RouteStages DEF Enforce
<1>4. Direct.fallback = ""
  BY DEF Direct
<1> QED BY <1>2, <1>3, <1>4, DirectIsAway

\* No provider.
Nothing == ""

\* What AutomaticIsServed says of a route r that began as d.
Permitted(d, previous) == {d.provider, d.fallback} \ {Nothing, previous}
Served(d, h, previous, escalates, r) ==
  /\ IF r.provider = Nothing THEN \A p \in Permitted(d, previous) : Unavailable(h, p)
     ELSE r.provider \in Permitted(d, previous) /\ ~Unavailable(h, r.provider)
  /\ (/\ r.provider # d.provider /\ r.provider # Nothing
      /\ d.provider \in Permitted(d, previous) /\ ~Unavailable(h, d.provider)) =>
       Lightens(h, d.provider, r.provider)
  /\ r.provider # Nothing /\ ~escalates => {r.provider, r.fallback} = {d.provider, d.fallback}

\* The policy alone gives a durable job, a native worker or nothing.
LEMMA DecidePlain ==
  ASSUME NEW i, i.explicit = "", Decide(i).lane # "agent_jobs"
  PROVE  Decide(i) \in {Direct, Worker(i.caller)}
<1>1. Decide(i) \in {Worker(i.caller), DefaultRoute(i), Direct}
  BY DEF Decide, Chosen
<1>2. DefaultTargets(i) = Direct \/ \E p, q : DefaultTargets(i) = Job(p, q)
  BY DefaultTargetsCases DEF TargetPairs
<1>3. DefaultRoute(i) = Direct \/ \E p, q : DefaultRoute(i) = Job(p, q)
  BY <1>2 DEF DefaultRoute, Narrowed
<1>4. \A p, q : Job(p, q).lane = "agent_jobs"
  BY DEF Job
<1> QED BY <1>1, <1>3, <1>4

\* The balancing of a job for p with fallback q: it stays unless q is lighter, goes
\* to q that serves, or is given up when neither does.
LEMMA BalancedJob ==
  ASSUME NEW d, NEW h, NEW p \in Targets, NEW q \in Targets \cup {Nothing}, p # q,
         d.lane = "agent_jobs", d.provider = p, d.fallback = q,
         \A t \in Targets : h[t].pressure \in Nat,
         NEW b, b = Rebalance(d, h)
  PROVE  \/ /\ b = d
            /\ Unavailable(h, p) => q = Nothing \/ Unavailable(h, q)
         \/ /\ b = Job(q, p) /\ q # Nothing /\ ~Unavailable(h, q)
            /\ Unavailable(h, p) \/ Lightens(h, p, q)
         \/ b = Direct /\ Unavailable(h, p) /\ q # Nothing /\ Unavailable(h, q)
<1>0. p # Nothing
  BY DEF Targets, Nothing
<1>r. Rebalanced(d, h) <=> q # Nothing /\ h[p].state \in {"pressured", "rate_limited", "exhausted"}
  BY DEF Rebalanced, Nothing
<1>u. \A t : Unavailable(h, t) <=> t # Nothing /\ h[t].state \in {"rate_limited", "exhausted"}
  BY DEF Unavailable, Nothing
<1>1. CASE ~Rebalanced(d, h)
  <2>1. b = d
    BY <1>1 DEF Rebalance
  <2>2. Unavailable(h, p) => q = Nothing
    BY <1>1, <1>r, <1>u
  <2> QED BY <2>1, <2>2
<1>2. CASE Rebalanced(d, h) /\ ~FallbackRefused(d, h)
  <2>1. b = Job(q, p) /\ q # Nothing /\ ~Unavailable(h, q)
    BY <1>2, <1>r DEF Rebalance, FallbackRefused
  <2>2. ASSUME ~Unavailable(h, p)
        PROVE  Lightens(h, p, q)
    <3>1. h[p].state = "pressured"
      BY <1>0, <1>2, <1>r, <1>u, <2>2
    <3>2. h[q].state = "pressured" => ~(h[q].pressure >= h[p].pressure)
      BY <1>2, <3>1 DEF FallbackRefused
    <3>3. h[q].pressure \in Nat /\ h[p].pressure \in Nat
      BY <2>1
    <3>4. h[q].state = "pressured" => h[q].pressure < h[p].pressure
      <4>1. PICK x \in Nat, y \in Nat : x = h[q].pressure /\ y = h[p].pressure
        BY <3>3
      <4>2. ~(x >= y) => x < y
        OBVIOUS
      <4> QED BY <3>2, <4>1, <4>2
    <3> QED BY <3>1, <3>4 DEF Lightens
  <2> QED BY <2>1, <2>2
<1>3. CASE Rebalanced(d, h) /\ FallbackRefused(d, h)
  <2>1. q # Nothing
    BY <1>3, <1>r
  <2>2. Unavailable(h, p) => Unavailable(h, q)
    BY <1>3, <1>u DEF FallbackRefused
  <2>3. CASE h[p].state = "exhausted"
    <3>1. b = Direct
      BY <1>3, <2>3 DEF Rebalance
    <3>2. Unavailable(h, p)
      BY <1>0, <1>u, <2>3
    <3> QED BY <2>1, <2>2, <3>1, <3>2
  <2>4. CASE h[p].state # "exhausted"
    <3>1. b = d
      BY <1>3, <2>4 DEF Rebalance
    <3> QED BY <2>2, <3>1
  <2> QED BY <2>3, <2>4
<1> QED BY <1>1, <1>2, <1>3

\* The escalation and the enforcement of the balanced route.
LEMMA EscalatedProvider ==
  ASSUME NEW b, NEW h, NEW previous, b \in RouteRecord,
         NEW e, e = Escalate(b, previous, h)
  PROVE  \/ (b.lane = "direct" \/ b.provider # previous) /\ e.provider = b.provider
         \/ /\ b.lane = "agent_jobs" /\ b.provider = previous
            /\ b.fallback # Nothing /\ ~Unavailable(h, b.fallback) /\ e.provider = b.fallback
         \/ /\ b.lane # "direct" /\ b.provider = previous
            /\ b.lane = "agent_jobs" => b.fallback = Nothing \/ Unavailable(h, b.fallback)
            /\ e.provider = Nothing
<1>1. CASE b.lane = "direct" \/ b.provider # previous
  <2>1. e = [b EXCEPT !.fallback = Nothing]
    BY <1>1 DEF Escalate, Nothing
  <2>2. [b EXCEPT !.fallback = Nothing].provider = b.provider
    BY DEF RouteRecord
  <2>3. e.provider = b.provider
    BY <2>1, <2>2, Zenon
  <2> QED BY <1>1, <2>3
<1>2. CASE ~(b.lane = "direct" \/ b.provider # previous)
  <2>1. Job(b.fallback, Nothing).provider = b.fallback /\ Direct.provider = Nothing
    BY DEF Job, Direct, Nothing
  <2>2. e = IF b.lane = "agent_jobs" /\ b.fallback # Nothing /\ ~Unavailable(h, b.fallback)
            THEN Job(b.fallback, Nothing) ELSE Direct
    BY <1>2, Zenon DEF Escalate, Nothing
  <2> QED BY <1>2, <2>1, <2>2
<1> QED BY <1>1, <1>2

\* What the policy alone gives.
Plain(d) ==
  \/ /\ d.lane = "agent_jobs" /\ d.provider \in Targets
     /\ d.fallback \in Targets \cup {Nothing} /\ d.provider # d.fallback
  \/ d = Direct
  \/ d.lane = "native_subagent" /\ d.provider # Nothing /\ d.fallback = Nothing

\* The three corrections of such a route, one after the other.
LEMMA CorrectedIsServed ==
  ASSUME NEW d, Plain(d), NEW h, \A t \in Targets : h[t].pressure \in Nat,
         NEW previous, NEW escalates \in BOOLEAN, ~escalates => previous = Nothing,
         NEW b, b = Rebalance(d, h), b \in RouteRecord,
         NEW e, e = IF escalates THEN Escalate(b, previous, h) ELSE b,
         NEW r, r = Enforce(e, h)
  PROVE  Served(d, h, previous, escalates, r)
<1>1. Direct.provider = Nothing /\ Direct.lane = "direct" /\ Direct.fallback = Nothing
  BY DEF Direct, Nothing
<1>2. ~Unavailable(h, Nothing) /\ Nothing \notin Targets
  BY DEF Unavailable, Targets, Nothing
<1>3. CASE d.lane # "agent_jobs"
  <2>1. b = d
    BY <1>3 DEF Rebalance, Rebalanced
  <2>2. CASE d = Direct
    <3>1. e.provider = Nothing
      <4>1. CASE escalates
        BY <1>1, <2>1, <2>2, <4>1, EscalatedProvider
      <4>2. CASE ~escalates
        BY <1>1, <2>1, <2>2, <4>2
      <4> QED BY <4>1, <4>2
    <3>2. r.provider = Nothing
      BY <1>2, <3>1 DEF Enforce
    <3> QED BY <1>1, <2>2, <3>2 DEF Served, Permitted
  <2>3. CASE d # Direct
    <3>0. d.lane = "native_subagent" /\ d.provider # Nothing /\ d.fallback = Nothing
      BY <1>3, <2>3 DEF Plain
    <3>1. \/ e.provider = d.provider /\ d.provider # previous
          \/ e.provider = Nothing /\ d.provider = previous
      <4>1. CASE escalates
        BY <2>1, <3>0, <4>1, EscalatedProvider
      <4>2. CASE ~escalates
        BY <2>1, <3>0, <4>2
      <4> QED BY <4>1, <4>2
    <3>2. \/ r = e /\ ~Unavailable(h, e.provider)
          \/ r = Direct /\ Unavailable(h, e.provider)
      BY DEF Enforce
    <3>3. ~escalates => e.fallback = d.fallback
      BY <2>1
    <3> QED BY <1>1, <1>2, <3>0, <3>1, <3>2, <3>3 DEF Served, Permitted
  <2> QED BY <2>2, <2>3
<1>4. CASE d.lane = "agent_jobs"
  <2>1. PICK p \in Targets, q \in Targets \cup {Nothing} : p # q /\ d.provider = p /\ d.fallback = q
    BY <1>1, <1>4 DEF Plain
  <2>2. p # Nothing
    BY <1>2
  <2>3. \/ r = e /\ ~Unavailable(h, e.provider)
        \/ r = Direct /\ Unavailable(h, e.provider)
    BY DEF Enforce
  <2>4. \/ /\ b = d
           /\ Unavailable(h, p) => q = Nothing \/ Unavailable(h, q)
        \/ /\ b = Job(q, p) /\ q # Nothing /\ ~Unavailable(h, q)
           /\ Unavailable(h, p) \/ Lightens(h, p, q)
        \/ b = Direct /\ Unavailable(h, p) /\ q # Nothing /\ Unavailable(h, q)
    BY <1>4, <2>1, BalancedJob
  <2>5. Permitted(d, previous) = {p, q} \ {Nothing, previous}
    BY <2>1 DEF Permitted
  <2>6. ~escalates => e.fallback = b.fallback
    OBVIOUS
  <2>7. CASE b = d /\ (Unavailable(h, p) => q = Nothing \/ Unavailable(h, q))
    <3>1. \/ e.provider = p /\ p # previous
          \/ p = previous /\ q # Nothing /\ ~Unavailable(h, q) /\ e.provider = q
          \/ p = previous /\ (q = Nothing \/ Unavailable(h, q)) /\ e.provider = Nothing
      <4>1. CASE escalates
        BY <1>4, <2>1, <2>7, <4>1, EscalatedProvider
      <4>2. CASE ~escalates
        BY <2>1, <2>2, <2>7, <4>2
      <4> QED BY <4>1, <4>2
    <3>2. CASE r = Direct /\ Unavailable(h, e.provider)
      <4>1. e.provider = p /\ p # previous
        BY <1>2, <3>1, <3>2
      <4>2. \A t \in Permitted(d, previous) : Unavailable(h, t)
        BY <2>5, <2>7, <3>2, <4>1
      <4> QED BY <1>1, <3>2, <4>2 DEF Served
    <3>3. CASE r = e /\ ~Unavailable(h, e.provider)
      <4>1. CASE e.provider = p /\ p # previous
        <5>1. ~escalates => r.fallback = q
          BY <2>1, <2>6, <2>7, <3>3
        <5> QED BY <2>1, <2>2, <2>5, <3>3, <4>1, <5>1 DEF Served
      <4>2. CASE p = previous /\ q # Nothing /\ ~Unavailable(h, q) /\ e.provider = q
        <5>1. escalates /\ q \in Permitted(d, previous) /\ p \notin Permitted(d, previous)
          BY <2>1, <2>2, <2>5, <4>2
        <5> QED BY <2>1, <3>3, <4>2, <5>1 DEF Served
      <4>3. CASE p = previous /\ (q = Nothing \/ Unavailable(h, q)) /\ e.provider = Nothing
        <5>1. \A t \in Permitted(d, previous) : Unavailable(h, t)
          BY <2>5, <4>3
        <5> QED BY <3>3, <4>3, <5>1 DEF Served
      <4> QED BY <3>1, <4>1, <4>2, <4>3
    <3> QED BY <2>3, <3>2, <3>3
  <2>8. CASE /\ b = Job(q, p) /\ q # Nothing /\ ~Unavailable(h, q)
             /\ Unavailable(h, p) \/ Lightens(h, p, q)
    <3>0. b.lane = "agent_jobs" /\ b.provider = q /\ b.fallback = p
      BY <2>8 DEF Job
    <3>1. \/ e.provider = q /\ q # previous
          \/ q = previous /\ ~Unavailable(h, p) /\ e.provider = p
          \/ q = previous /\ Unavailable(h, p) /\ e.provider = Nothing
      <4>1. CASE escalates
        BY <2>1, <2>2, <3>0, <4>1, EscalatedProvider
      <4>2. CASE ~escalates
        BY <2>8, <3>0, <4>2
      <4> QED BY <4>1, <4>2
    <3>2. r = e
      BY <1>2, <2>3, <2>8, <3>1
    <3>3. CASE e.provider = q /\ q # previous
      <4>1. ~escalates => r.fallback = p
        BY <2>6, <3>0, <3>2
      <4>2. q \in Permitted(d, previous) /\ {q, p} = {p, q}
        BY <2>5, <2>8, <3>3
      <4> QED BY <2>1, <2>8, <3>2, <3>3, <4>1, <4>2 DEF Served
    <3>4. CASE q = previous /\ ~Unavailable(h, p) /\ e.provider = p
      <4>1. escalates /\ p \in Permitted(d, previous)
        BY <2>1, <2>2, <2>5, <2>8, <3>4
      <4> QED BY <2>1, <2>2, <3>2, <3>4, <4>1 DEF Served
    <3>5. CASE q = previous /\ Unavailable(h, p) /\ e.provider = Nothing
      <4>1. \A t \in Permitted(d, previous) : Unavailable(h, t)
        BY <2>5, <3>5
      <4> QED BY <3>2, <3>5, <4>1 DEF Served
    <3> QED BY <3>1, <3>3, <3>4, <3>5
  <2>9. CASE b = Direct /\ Unavailable(h, p) /\ q # Nothing /\ Unavailable(h, q)
    <3>1. e.provider = Nothing
      <4>1. CASE escalates
        BY <1>1, <2>9, <4>1, EscalatedProvider
      <4>2. CASE ~escalates
        BY <1>1, <2>9, <4>2
      <4> QED BY <4>1, <4>2
    <3>2. r.provider = Nothing
      BY <1>1, <2>3, <3>1
    <3>3. \A t \in Permitted(d, previous) : Unavailable(h, t)
      BY <2>5, <2>9
    <3> QED BY <3>2, <3>3 DEF Served
  <2> QED BY <2>4, <2>7, <2>8, <2>9
<1> QED BY <1>3, <1>4

LEMMA RouteIsServed ==
  ASSUME NEW i, Asker(i), Named(i), NEW h, NEW previous,
         \A t \in Targets : h[t].pressure \in Nat,
         QuotaRouting, i.explicit = "", i.parent = 0 => previous = Nothing
  PROVE  Served(Decide(i), h, previous, i.parent # 0, Route(i, h, previous))
<1>1. Plain(Decide(i))
  <2>1. CASE Decide(i).lane = "agent_jobs"
    <3>1. Decide(i) \in RouteRecord
      BY DecideGood DEF GoodRoute
    <3>2. Decide(i).provider \in Targets /\ Decide(i).provider # Decide(i).fallback
      BY <2>1, DecideAway DEF Away
    <3>3. Decide(i).fallback \in Targets \cup {Nothing}
      BY <3>1 DEF RouteRecord, Nothing
    <3> QED BY <2>1, <3>2, <3>3 DEF Plain
  <2>2. CASE Decide(i).lane # "agent_jobs"
    <3>1. /\ Worker(i.caller).lane = "native_subagent" /\ Worker(i.caller).provider = i.caller
          /\ Worker(i.caller).fallback = Nothing /\ i.caller # Nothing
      BY DEF Worker, Asker, Callers, Nothing
    <3>2. Decide(i) \in {Direct, Worker(i.caller)}
      BY <2>2, DecidePlain
    <3> QED BY <3>1, <3>2 DEF Plain
  <2> QED BY <2>1, <2>2
<1>2. Rebalance(Decide(i), h) \in RouteRecord
  BY DecideGood, RebalanceGood DEF GoodRoute
<1>3. Balanced(i, h) = Rebalance(Decide(i), h)
  BY DEF Balanced
<1>4. Route(i, h, previous) = Enforce(Escalated(i, h, previous), h)
  BY RouteStages
<1>5. Escalated(i, h, previous) =
        IF i.parent # 0 THEN Escalate(Rebalance(Decide(i), h), previous, h) ELSE Rebalance(Decide(i), h)
  BY <1>3 DEF Escalated
<1>6. (i.parent # 0) \in BOOLEAN /\ (~(i.parent # 0) => previous = Nothing)
  OBVIOUS
<1> QED BY <1>1, <1>2, <1>4, <1>5, <1>6, CorrectedIsServed

\* The state of RouteRequest is a request as it came in, with its route.
AnswerOf(i, h, parent) ==
  /\ reply = [intent |-> i, health |-> h, parent |-> parent, route |-> Route(i, h, parent)]
  /\ i.parent = 0 => parent = ""

ReplyInv ==
  reply = None \/ \E i \in Asked, h \in HealthMet, parent \in Targets \cup {""} :
                    AnswerOf(i, h, parent)

LEMMA RepliesAreRoutes == RequestSpec => []ReplyInv
<1>1. InitReply => ReplyInv
  BY DEF InitReply, ReplyInv
<1>2. ReplyInv /\ [NextReply]_reply => ReplyInv'
  <2>1. ASSUME NextReply PROVE ReplyInv'
    BY <2>1 DEF NextReply, RouteReply, ReplyInv, AnswerOf
  <2>2. ASSUME ReplyInv, UNCHANGED reply PROVE ReplyInv'
    BY <2>2 DEF ReplyInv, AnswerOf
  <2> QED BY <2>1, <2>2
<1> QED BY <1>1, <1>2, PTL DEF RequestSpec

\* What holds of every route holds of the reply.
LEMMA ReplyFacts ==
  ASSUME ReplyInv, reply # None
  PROVE  LET i == reply.intent  h == reply.health  r == reply.route IN
         /\ Asker(i) /\ Named(i)
         /\ \A p \in Targets : h[p].pressure \in Nat
         /\ r = Route(i, h, reply.parent)
         /\ i.parent = 0 => reply.parent = ""
<1>1. PICK i \in Asked, h \in HealthMet, parent \in Targets \cup {""} : AnswerOf(i, h, parent)
  BY DEF ReplyInv
<1>2. /\ reply.intent = i /\ reply.health = h /\ reply.parent = parent
      /\ reply.route = Route(i, h, parent) /\ (i.parent = 0 => parent = "")
  BY <1>1 DEF AnswerOf
<1>3. Asker(i) /\ Named(i)
  BY RequestsAreAskers, RequestAssumption DEF Named
<1>4. \A p \in Targets : h[p].pressure \in Nat
  BY RequestAssumption
<1> QED BY <1>2, <1>3, <1>4

\* The answer of route_decide is a lane with known providers.
THEOREM RepliesTyped == RequestSpec => []ReplyTypeOK
<1>1. ASSUME ReplyInv, reply # None
      PROVE  reply.route \in RouteRecord
  <2>1. Asker(reply.intent) /\ reply.route = Route(reply.intent, reply.health, reply.parent)
    BY <1>1, ReplyFacts
  <2>2. GoodRoute(reply.intent, reply.route)
    BY <2>1, RouteIsGood
  <2> QED BY <2>2 DEF GoodRoute
<1>2. ReplyInv => ReplyTypeOK
  BY <1>1 DEF ReplyTypeOK, RouteRecord
<1> QED BY <1>2, RepliesAreRoutes, PTL

\* For every request: a durable job leaves the caller's family, with the
\* fallback too, and an escalation leaves the parent's provider.
THEOREM RoutesLeave == RequestSpec => []NeverLeadsBack
<1>1. ReplyInv => NeverToItself
  <2> SUFFICES ASSUME ReplyInv, reply # None, reply.route.lane = "agent_jobs"
               PROVE  /\ Foreign(reply.intent, Provider)
                      /\ Foreign(reply.intent, reply.route.fallback)
                      /\ Provider # reply.route.fallback
    BY DEF NeverToItself
  <2>1. /\ Asker(reply.intent) /\ Named(reply.intent)
        /\ reply.route = Route(reply.intent, reply.health, reply.parent)
    BY ReplyFacts
  <2>2. Away(reply.intent, reply.route)
    <3>1. Asker(reply.intent) /\ Named(reply.intent)
      BY <2>1
    <3>2. Away(reply.intent, Route(reply.intent, reply.health, reply.parent))
      BY <3>1, RouteIsAway
    <3> QED BY <2>1, <3>2
  <2> QED BY <2>2 DEF Away, Provider
<1>2. ReplyInv => ParentExcluded
  <2> SUFFICES ASSUME ReplyInv, reply # None, reply.intent.parent # 0
               PROVE  /\ Provider # "" => Provider # reply.parent
                      /\ reply.route.fallback = ""
    BY DEF ParentExcluded
  <2>1. /\ Asker(reply.intent) /\ Named(reply.intent)
        /\ reply.route = Route(reply.intent, reply.health, reply.parent)
    BY ReplyFacts
  <2>2. reply.route.fallback = ""
    <3>1. reply.intent.parent # 0 => Route(reply.intent, reply.health, reply.parent).fallback = ""
      BY <2>1, RouteIsAway
    <3> QED BY <2>1, <3>1
  <2>3. reply.route.provider # "" => reply.route.provider # reply.parent
    BY <2>1, RouteIsGood
  <2> QED BY <2>2, <2>3 DEF Provider
<1> QED BY <1>1, <1>2, RepliesAreRoutes, PTL DEF NeverLeadsBack

\* For every request and snapshot: an automatic route ends at a target that serves,
\* is direct only when none but the parent's does, and moves only to a lighter one.
THEOREM RoutesAreServed == RequestSpec => []AutomaticIsServed
<1>1. ReplyInv => AutomaticIsServed
  <2> SUFFICES ASSUME ReplyInv, reply # None, QuotaRouting, reply.intent.explicit = ""
               PROVE  Served(Decide(reply.intent), reply.health, reply.parent,
                             reply.intent.parent # 0, reply.route)
    BY DEF AutomaticIsServed, Served, Permitted, Provider, Nothing
  <2> QED BY ReplyFacts, RouteIsServed DEF Nothing
<1> QED BY <1>1, RepliesAreRoutes, PTL

-----------------------------------------------------------------------------
(* What a step does to the decisions already made.                         *)

LEMMA Numbers == /\ MaxDecisions \in Nat /\ MaxTime \in Nat /\ Retention \in Nat
                 /\ TTL \in Nat /\ TTL # 0 /\ Limit \in Nat /\ Limit # 0
BY LedgerAssumption

SameRow(r, q) ==
  /\ q.request = r.request /\ q.lane = r.lane /\ q.provider = r.provider
  /\ q.mode = r.mode /\ q.hop = r.hop /\ q.created = r.created
  /\ q.expires = r.expires

\* The row r may become q at this time.
Moved(r, q) ==
  /\ q \in Row
  /\ SameRow(r, q)
  /\ q.outcome = r.outcome \/ (r.outcome = "" /\ q.status # "active")
  /\ q.status = r.status \/ (r.status = "active" /\ q.status # "none")
  /\ (r.status = "active" /\ q.status = "expired") => r.expires <= now
  /\ (r.status = "active" /\ q.status = "released") => q.outcome # "" /\ now < r.expires

LEMMA StatusChange ==
  ASSUME NEW r \in Row, NEW s \in Status
  PROVE  LET q == [r EXCEPT !.status = s]
         IN q \in Row /\ SameRow(r, q) /\ q.status = s /\ q.outcome = r.outcome
BY DEF Row, SameRow

LEMMA OutcomeChange ==
  ASSUME NEW r \in Row, NEW o \in Outcome
  PROVE  LET q == [r EXCEPT !.outcome = o]
         IN q \in Row /\ SameRow(r, q) /\ q.outcome = o /\ q.status = r.status
BY DEF Row, SameRow

\* An active lease ends without a report once its time is over, or as
\* reconciled.
LEMMA MovedByEnd ==
  ASSUME NEW r, NEW q \in Row, SameRow(r, q), q.outcome = r.outcome, r.status = "active",
         \/ q.status = "expired" /\ r.expires <= now
         \/ q.status = "reconciled"
  PROVE  Moved(r, q)
BY DEF Moved

\* The first report, of a lease that ends with it or of a row without one.
LEMMA MovedByReport ==
  ASSUME NEW r, NEW q \in Row, SameRow(r, q), r.outcome = "", q.outcome # "",
         q.status # "active",
         \/ q.status = r.status
         \/ r.status = "active" /\ q.status = "released" /\ now < r.expires
         \/ r.status = "active" /\ q.status = "expired" /\ r.expires <= now
  PROVE  Moved(r, q)
BY DEF Moved

LEMMA SweptMoves ==
  ASSUME NEW d \in Ids, rows[d] \in Row, now \in Nat
  PROVE  /\ Moved(rows[d], Swept[d])
         /\ Swept[d].outcome = rows[d].outcome
         /\ (Swept[d].status = "active" /\ d \in kept) => now < rows[d].expires
         /\ d \notin kept => Swept[d] = rows[d]
         /\ \/ Swept[d].status = rows[d].status
            \/ /\ Swept[d].status = "expired"
               /\ rows[d].status = "active" /\ rows[d].expires <= now
<1> DEFINE r == rows[d]
           q == Swept[d]
<1>0. r.expires \in Nat
  BY DEF Row
<1>1. CASE Lapsed(d)
  <2>1. q = [r EXCEPT !.status = "expired"]
    BY <1>1 DEF Swept
  <2>2. d \in kept /\ r.status = "active" /\ r.expires <= now
    BY <1>1 DEF Lapsed
  <2>3. "expired" \in Status
    BY DEF Status
  <2>4. q \in Row /\ SameRow(r, q) /\ q.status = "expired" /\ q.outcome = r.outcome
    BY <2>1, <2>3, StatusChange
  <2> QED BY <2>2, <2>4, MovedByEnd
<1>2. CASE ~Lapsed(d)
  <2>1. q = r
    BY <1>2 DEF Swept
  <2>2. SameRow(r, r)
    BY DEF SameRow
  <2>3. (d \in kept /\ r.status = "active") => now < r.expires
    BY <1>0, <1>2 DEF Lapsed
  <2> QED BY <2>1, <2>2, <2>3 DEF Moved
<1> QED BY <1>1, <1>2

-----------------------------------------------------------------------------
(* Steps that make no decision.                                            *)

Past == 1..issued

PastMoves(d) ==
  /\ Moved(rows[d], rows'[d])
  /\ d \notin kept => rows'[d] = rows[d]
  /\ rows'[d].status = "active" => d \in kept'

\* Rows only move, what was pruned stays as it was, and active leases are kept.
RowsMove ==
  /\ rows' \in [Ids -> Row \cup {NoRow}]
  /\ \A d \in Ids \ Past : rows'[d] = rows[d]
  /\ \A d \in Past : PastMoves(d)

\* Retention takes no child before its parent.
Retained ==
  /\ kept' \subseteq kept
  /\ \A c, p \in Past :
       (c \in kept \ kept' /\ rows[p].created <= rows[c].created
         /\ rows[p].status # "active") => p \notin kept'

Quiet ==
  /\ issued' = issued
  /\ now' \in 0..MaxTime /\ now <= now'
  /\ answer' \in [id : 0..issued', status : {"none", "active"}, reason : {"", "full"}]
  /\ RowsMove
  /\ Retained

LEMMA RowFacts ==
  ASSUME TypeOK
  PROVE  /\ now \in Nat /\ issued \in Nat /\ issued <= MaxDecisions
         /\ Past \subseteq Ids /\ kept \subseteq Past
         /\ rows \in [Ids -> Row \cup {NoRow}]
         /\ \A d \in Past : rows[d] \in Row
         /\ \A d \in Ids \ Past : rows[d] = NoRow /\ d \notin kept
         /\ NoRow.request.parent = 0 /\ NoRow.hop = 0 /\ NoRow.created = 0
         /\ NoRow.status = "none" /\ NoRow.outcome = ""
<1>1. /\ now \in 0..MaxTime /\ issued \in 0..MaxDecisions /\ kept \in SUBSET (1..issued)
      /\ rows \in [Ids -> Row \cup {NoRow}]
      /\ \A d \in Ids : IF d <= issued THEN rows[d] \in Row ELSE rows[d] = NoRow
  BY DEF TypeOK
<1>2. now \in Nat /\ issued \in Nat /\ issued <= MaxDecisions
  BY <1>1, Numbers
<1>3. Past \subseteq Ids /\ \A d \in Ids : d \in Past <=> d <= issued
  BY <1>2, Numbers DEF Past, Ids
<1>4. kept \subseteq Past
  BY <1>1 DEF Past
<1>5. NoRow.request.parent = 0 /\ NoRow.hop = 0 /\ NoRow.created = 0
         /\ NoRow.status = "none" /\ NoRow.outcome = ""
  BY DEF NoRow, NoRequest
<1>6. \A d \in Ids \ Past : rows[d] = NoRow /\ d \notin kept
  BY <1>1, <1>3, <1>4
<1>7. \A d \in Past : rows[d] \in Row
  BY <1>1, <1>3
<1> QED BY <1>1, <1>2, <1>3, <1>4, <1>5, <1>6, <1>7

LEMMA RowParts ==
  ASSUME NEW r \in Row
  PROVE  /\ r.request \in Request /\ r.request.parent \in Ids \cup {0}
         /\ r.created \in Nat /\ r.expires \in Nat /\ r.outcome \in Outcome \cup {""}
         /\ r.status \in Status
BY DEF Row, Request

LEMMA QuietTypes ==
  ASSUME TypeOK, Quiet
  PROVE  TypeOK'
<1>1. issued' = issued /\ kept' \subseteq kept /\ now' \in 0..MaxTime
  BY DEF Quiet, Retained
<1>2. kept' \in SUBSET (1..issued')
  BY <1>1, RowFacts DEF Past
<1>3. answer' \in [id : 0..issued', status : {"none", "active"}, reason : {"", "full"}]
  BY DEF Quiet
<1>4. rows' \in [Ids -> Row \cup {NoRow}]
  BY DEF Quiet, RowsMove
<1>5. \A d \in Ids : IF d <= issued THEN rows'[d] \in Row ELSE rows'[d] = NoRow
  <2> TAKE d \in Ids
  <2>1. issued \in Nat
    BY RowFacts
  <2>1a. d \in Past <=> d <= issued
    BY <2>1, Numbers DEF Past, Ids
  <2>2. CASE d \in Past
    BY <1>1, <2>1a, <2>2 DEF Quiet, RowsMove, PastMoves, Moved
  <2>3. CASE d \notin Past
    BY <1>1, <2>1a, <2>3, RowFacts DEF Quiet, RowsMove
  <2> QED BY <2>2, <2>3
<1>6. issued \in 0..MaxDecisions
  BY DEF TypeOK
<1> QED BY <1>1, <1>2, <1>3, <1>4, <1>5, <1>6 DEF TypeOK

\* What a quiet step leaves of any row.
LEMMA QuietRow ==
  ASSUME TypeOK, Quiet, NEW d \in Ids
  PROVE  /\ SameRow(rows[d], rows'[d])
         /\ rows[d].outcome # "" => rows'[d].outcome = rows[d].outcome
         /\ rows'[d].status = "active" =>
              rows[d].status = "active" /\ rows'[d].outcome = rows[d].outcome /\ d \in kept'
         /\ rows'[d].status = "none" => rows[d].status = "none"
<1>1. CASE d \in Past
  BY <1>1 DEF Quiet, RowsMove, PastMoves, Moved
<1>2. CASE d \notin Past
  <2>1. rows'[d] = rows[d] /\ rows[d].status = "none" /\ rows[d].outcome = ""
    BY <1>2, RowFacts DEF Quiet, RowsMove
  <2> QED BY <2>1 DEF SameRow
<1> QED BY <1>1, <1>2

LEMMA ActiveIsFinite ==
  ASSUME TypeOK
  PROVE  /\ IsFiniteSet(Active(rows)) /\ Cardinality(Active(rows)) \in Nat
         /\ IsFiniteSet(Active(Swept)) /\ Cardinality(Active(Swept)) \in Nat
<1>1. IsFiniteSet(Past)
  <2>0. issued \in Nat
    BY RowFacts
  <2>1. 1 \in Int /\ issued \in Int
    BY <2>0
  <2>2. IsFiniteSet(1..issued)
    BY <2>1, FS_Interval
  <2> QED BY <2>2 DEF Past
<1>2. Active(rows) \in SUBSET Past /\ Active(Swept) \in SUBSET Past
  BY RowFacts DEF Active
<1>3. IsFiniteSet(Active(rows)) /\ IsFiniteSet(Active(Swept))
  BY <1>1, <1>2, FS_Subset
<1> QED BY <1>3, FS_CardinalityType

LEMMA QuietLimit ==
  ASSUME TypeOK, LeasesWithinLimit, Quiet
  PROVE  LeasesWithinLimit'
<1>1. Active(rows)' \in SUBSET Active(rows)
  <2>1. kept' \subseteq kept /\ kept \subseteq Ids
    BY RowFacts DEF Quiet, Retained
  <2> QED BY <2>1, QuietRow DEF Active
<1>2. /\ Cardinality(Active(rows)') <= Cardinality(Active(rows))
      /\ Cardinality(Active(rows)') \in Nat /\ Cardinality(Active(rows)) \in Nat
  BY <1>1, ActiveIsFinite, FS_Subset, FS_CardinalityType
<1>3. Cardinality(Active(rows)') <= Limit
  BY <1>2, Numbers DEF LeasesWithinLimit
<1> QED BY <1>3 DEF LeasesWithinLimit, Active

LEMMA ParentIsId ==
  ASSUME TypeOK, NEW c \in Ids, rows[c].request.parent # 0
  PROVE  rows[c].request.parent \in Ids /\ c \in Past
BY RowFacts, RowParts

LEMMA QuietEscalates ==
  ASSUME TypeOK, EscalatesOnce, Quiet
  PROVE  EscalatesOnce'
<1>1. \A c \in Ids : rows'[c].request = rows[c].request
  BY QuietRow DEF SameRow
<1>2. ASSUME NEW c \in Ids, rows'[c].request.parent # 0
      PROVE  Escalation(c, rows[c].request.parent)'
  <2> DEFINE p == rows[c].request.parent
  <2>1. rows'[c].request.parent = p /\ p # 0
    BY <1>1, <1>2
  <2>2. p \in Ids
    BY <2>1, ParentIsId
  <2>3. Escalation(c, p)
    BY <2>1 DEF EscalatesOnce
  <2>4. rows'[p].outcome = "escalated"
    BY <2>2, <2>3, QuietRow DEF Escalation
  <2>5. /\ rows'[p].mode = rows[p].mode /\ rows'[p].provider = rows[p].provider
        /\ rows'[c].provider = rows[c].provider
    BY <2>2, QuietRow DEF SameRow
  <2>6. rows'[p].request = rows[p].request /\ rows'[c].request = rows[c].request
    BY <1>1, <2>2
  <2> QED BY <2>1, <2>3, <2>4, <2>5, <2>6 DEF Escalation
<1>3. \A c, d \in Ids : (rows'[c].request.parent # 0
         /\ rows'[c].request.parent = rows'[d].request.parent) => c = d
  BY <1>1 DEF EscalatesOnce
<1> QED BY <1>2, <1>3 DEF EscalatesOnce

LEMMA QuietJoins ==
  ASSUME TypeOK, JoinRateIsShare, Quiet
  PROVE  JoinRateIsShare'
<1> SUFFICES ASSUME NEW d \in kept', rows'[d].lane = "native_subagent"
             PROVE  /\ rows'[d].status # "none"
                    /\ rows'[d].outcome # "" => rows'[d].status # "active"
  BY DEF JoinRateIsShare
<1>1. d \in kept /\ d \in Ids
  BY RowFacts DEF Quiet, Retained
<1>2. rows[d].lane = "native_subagent"
  BY <1>1, QuietRow DEF SameRow
<1>3. rows[d].status # "none" /\ (rows[d].outcome # "" => rows[d].status # "active")
  BY <1>1, <1>2 DEF JoinRateIsShare
<1> QED BY <1>1, <1>3, QuietRow

LEMMA QuietLeases ==
  ASSUME TypeOK, LeaseIsBounded, Quiet
  PROVE  LeaseIsBounded'
<1> SUFFICES ASSUME NEW d \in Ids
             PROVE  /\ rows'[d].created <= now'
                    /\ rows'[d].status = "active" =>
                         /\ d \in kept'
                         /\ rows'[d].lane = "native_subagent"
                         /\ rows'[d].outcome = ""
                         /\ rows'[d].expires = rows'[d].created + TTL
  BY DEF LeaseIsBounded
<1>1. /\ rows[d].created <= now
      /\ rows[d].status = "active" =>
           /\ rows[d].lane = "native_subagent"
           /\ rows[d].outcome = ""
           /\ rows[d].expires = rows[d].created + TTL
  BY DEF LeaseIsBounded
<1>2. /\ rows'[d].created = rows[d].created /\ rows'[d].expires = rows[d].expires
      /\ rows'[d].lane = rows[d].lane
  BY QuietRow DEF SameRow
<1>3. now \in Nat /\ now' \in Nat /\ now <= now'
  <2>1. now' \in 0..MaxTime /\ now <= now'
    BY DEF Quiet
  <2>2. now \in Nat
    BY RowFacts
  <2> QED BY <2>1, <2>2, Numbers
<1>4. rows[d].created \in Nat
  <2>1. CASE d \in Past
    BY <2>1, RowFacts, RowParts
  <2>2. CASE d \notin Past
    <3>1. rows[d] = NoRow /\ NoRow.created = 0
      BY <2>2, RowFacts
    <3> QED BY <3>1
  <2> QED BY <2>1, <2>2
<1>5. rows'[d].created <= now'
  <2>1. rows[d].created <= now
    BY <1>1
  <2>2. rows'[d].created = rows[d].created
    BY <1>2
  <2> QED BY <2>1, <2>2, <1>3, <1>4
<1>6. rows'[d].status = "active" =>
        rows[d].status = "active" /\ rows'[d].outcome = rows[d].outcome /\ d \in kept'
  BY QuietRow
<1> QED BY <1>1, <1>2, <1>5, <1>6

LEMMA QuietChildren ==
  ASSUME TypeOK, EscalatesOnce, LeaseIsBounded, ChildOutlivesParent, Quiet
  PROVE  ChildOutlivesParent'
<1> SUFFICES ASSUME NEW c \in Ids
             PROVE  /\ rows'[c].hop = (IF rows'[c].request.parent = 0 THEN 0 ELSE 1)
                    /\ rows'[c].request.parent # 0 =>
                         /\ rows'[rows'[c].request.parent].created <= rows'[c].created
                         /\ rows'[c].request.parent \in kept' => c \in kept'
  BY DEF ChildOutlivesParent
<1>1. rows'[c].request = rows[c].request /\ rows'[c].hop = rows[c].hop
        /\ rows'[c].created = rows[c].created
  BY QuietRow DEF SameRow
<1>2. rows'[c].hop = (IF rows'[c].request.parent = 0 THEN 0 ELSE 1)
  BY <1>1 DEF ChildOutlivesParent
<1>3. ASSUME rows[c].request.parent # 0
      PROVE  /\ rows'[rows[c].request.parent].created <= rows[c].created
             /\ rows[c].request.parent \in kept' => c \in kept'
  <2> DEFINE p == rows[c].request.parent
  <2>1. p \in Ids /\ c \in Past
    BY <1>3, ParentIsId
  <2>2. rows[p].created <= rows[c].created /\ (p \in kept => c \in kept)
    BY <1>3 DEF ChildOutlivesParent
  <2>3. rows'[p].created = rows[p].created
    BY <2>1, QuietRow DEF SameRow
  <2>4. rows[p].outcome = "escalated"
    BY <1>3 DEF EscalatesOnce, Escalation
  <2>5. rows[p].status # "active"
    BY <2>1, <2>4 DEF LeaseIsBounded
  <2>6. ASSUME p \in kept' PROVE c \in kept'
    <3>1. p \in kept /\ p \in Past /\ c \in kept
      BY <2>2, <2>6, RowFacts DEF Quiet, Retained
    <3> QED BY <2>1, <2>2, <2>5, <2>6, <3>1 DEF Quiet, Retained
  <2> QED BY <2>2, <2>3, <2>6
<1> QED BY <1>1, <1>2, <1>3

\* A step that makes no decision keeps the invariant.
LEMMA QuietKeeps ==
  ASSUME LedgerInv, Quiet
  PROVE  LedgerInv'
BY QuietTypes, QuietLimit, QuietEscalates, QuietJoins, QuietLeases, QuietChildren
   DEF LedgerInv


-----------------------------------------------------------------------------
(* Every action but the admission is quiet.                                *)

Answers == answer' \in [id : 0..issued', status : {"none", "active"}, reason : {"", "full"}]

LEMMA SweptFacts ==
  ASSUME TypeOK
  PROVE  /\ Swept \in [Ids -> Row \cup {NoRow}]
         /\ \A d \in Ids \ Past : Swept[d] = rows[d]
<1>1. \A d \in Ids \ Past : Swept[d] = rows[d]
  BY RowFacts DEF Swept, Lapsed
<1>2. \A d \in Ids : Swept[d] \in Row \cup {NoRow}
  <2> TAKE d \in Ids
  <2>1. CASE d \in Past
    BY <2>1, RowFacts, SweptMoves DEF Moved
  <2>2. CASE d \notin Past
    BY <2>2, <1>1, RowFacts
  <2> QED BY <2>1, <2>2
<1>3. Swept = [d \in Ids |-> Swept[d]]
  BY DEF Swept
<1> QED BY <1>1, <1>2, <1>3

\* What the sweep does to one decision that was made.
LEMMA SweptRow ==
  ASSUME LedgerInv, NEW d \in Past
  PROVE  /\ Moved(rows[d], Swept[d])
         /\ Swept[d] \in Row
         /\ Swept[d].outcome = rows[d].outcome
         /\ d \notin kept => Swept[d] = rows[d]
         /\ Swept[d].status = "active" =>
              rows[d].status = "active" /\ d \in kept /\ now < rows[d].expires
         /\ \/ Swept[d].status = rows[d].status
            \/ /\ Swept[d].status = "expired"
               /\ rows[d].status = "active" /\ rows[d].expires <= now
<1>1. TypeOK /\ LeaseIsBounded
  BY DEF LedgerInv
<1>2. d \in Ids /\ rows[d] \in Row /\ now \in Nat
  BY <1>1, RowFacts
<1>3. /\ Moved(rows[d], Swept[d])
      /\ Swept[d].outcome = rows[d].outcome
      /\ (Swept[d].status = "active" /\ d \in kept) => now < rows[d].expires
      /\ d \notin kept => Swept[d] = rows[d]
      /\ \/ Swept[d].status = rows[d].status
         \/ /\ Swept[d].status = "expired"
            /\ rows[d].status = "active" /\ rows[d].expires <= now
  BY <1>2, SweptMoves
<1>4. rows[d].status = "active" => d \in kept
  BY <1>1, <1>2 DEF LeaseIsBounded
<1>5. Swept[d] \in Row /\ (Swept[d].status = "active" => rows[d].status = "active")
  BY <1>3 DEF Moved
<1> QED BY <1>3, <1>4, <1>5

\* A step that only sweeps.
LEMMA SweepIsQuiet ==
  ASSUME LedgerInv, rows' = Swept, kept' = kept, issued' = issued, now' = now, Answers
  PROVE  Quiet
<1>1. TypeOK
  BY DEF LedgerInv
<1>2. \A d \in Past : PastMoves(d)
  BY SweptRow DEF PastMoves
<1>3. RowsMove
  BY <1>1, <1>2, SweptFacts DEF RowsMove
<1>4. Retained
  BY DEF Retained
<1>5. now \in 0..MaxTime
  BY <1>1 DEF TypeOK
<1>6. now' \in 0..MaxTime /\ now <= now'
  BY <1>5, Numbers
<1> QED BY <1>3, <1>4, <1>6 DEF Quiet, Answers

LEMMA NoAnswerIsTyped ==
  ASSUME issued' \in Nat, answer' = NoAnswer
  PROVE  Answers
<1>1. 0 \in 0..issued'
  OBVIOUS
<1> QED BY <1>1 DEF Answers, NoAnswer

LEMMA AnswerAgainIsQuiet ==
  ASSUME LedgerInv, NEW i, AnswerAgain(i), now' = now
  PROVE  Quiet
<1>1. PICK c \in Children(i.parent) :
        /\ rows' = Swept
        /\ answer' = [id |-> c, reason |-> "",
                      status |-> IF rows[c].lane = "native_subagent" THEN "active" ELSE "none"]
        /\ issued' = issued /\ kept' = kept
  BY DEF AnswerAgain
<1>2. c \in Past
  BY <1>1, RowFacts DEF Children, LedgerInv
<1>3. issued \in Nat
  BY RowFacts DEF LedgerInv
<1>4. c \in 0..issued'
  <2>1. c \in 1..issued /\ issued' = issued
    BY <1>1, <1>2 DEF Past
  <2> QED BY <1>3, <2>1
<1>5. Answers
  <2> DEFINE s == IF rows[c].lane = "native_subagent" THEN "active" ELSE "none"
  <2>1. s \in {"none", "active"}
    OBVIOUS
  <2> HIDE DEF s
  <2>2. answer' = [id |-> c, reason |-> "", status |-> s]
    BY <1>1 DEF s
  <2> QED BY <1>4, <2>1, <2>2 DEF Answers
<1> QED BY <1>1, <1>5, SweepIsQuiet

LEMMA StatusIsQuiet ==
  ASSUME LedgerInv, RouteStatus
  PROVE  Quiet
<1>1. rows' = Swept /\ kept' = kept /\ issued' = issued /\ now' = now /\ answer' = NoAnswer
  BY DEF RouteStatus
<1>2. Answers
  BY <1>1, RowFacts, NoAnswerIsTyped DEF LedgerInv
<1> QED BY <1>1, <1>2, SweepIsQuiet

LEMMA SameIsMoved ==
  ASSUME NEW r \in Row
  PROVE  Moved(r, r)
BY DEF Moved, SameRow

\* No row changes, as the clock ticks or nothing happens.
LEMMA IdleIsQuiet ==
  ASSUME LedgerInv, rows' = rows, kept' = kept, issued' = issued, Answers,
         now' \in 0..MaxTime, now <= now'
  PROVE  Quiet
<1>1. TypeOK /\ LeaseIsBounded
  BY DEF LedgerInv
<1>2. \A d \in Past : PastMoves(d)
  BY <1>1, RowFacts, SameIsMoved DEF PastMoves, LeaseIsBounded
<1>3. RowsMove
  BY <1>1, <1>2, RowFacts DEF RowsMove
<1>4. Retained
  BY DEF Retained
<1> QED BY <1>3, <1>4 DEF Quiet, Answers

LEMMA TickIsQuiet ==
  ASSUME LedgerInv, Tick
  PROVE  Quiet
<1>1. /\ now < MaxTime /\ now' = now + 1 /\ answer' = NoAnswer
      /\ issued' = issued /\ rows' = rows /\ kept' = kept
  BY DEF Tick
<1>2. now \in 0..MaxTime
  BY DEF LedgerInv, TypeOK
<1>3. now' \in 0..MaxTime /\ now <= now'
  BY <1>1, <1>2, Numbers
<1>4. Answers
  BY <1>1, RowFacts, NoAnswerIsTyped DEF LedgerInv
<1> QED BY <1>1, <1>3, <1>4, IdleIsQuiet

LEMMA StutterIsQuiet ==
  ASSUME LedgerInv, UNCHANGED vars
  PROVE  Quiet
<1>1. /\ now' = now /\ issued' = issued /\ rows' = rows /\ kept' = kept /\ answer' = answer
  BY DEF vars
<1>2. now \in 0..MaxTime
  BY DEF LedgerInv, TypeOK
<1>3. now' \in 0..MaxTime /\ now <= now'
  BY <1>1, <1>2, Numbers
<1>4. Answers
  BY <1>1 DEF LedgerInv, TypeOK, Answers
<1> QED BY <1>1, <1>3, <1>4, IdleIsQuiet

LEMMA PruneIsQuiet ==
  ASSUME LedgerInv, Prune
  PROVE  Quiet
<1>1. /\ rows' = Swept /\ kept' = {d \in kept : ~Prunable(d)} /\ answer' = NoAnswer
      /\ now' = now /\ issued' = issued
  BY DEF Prune
<1>2. TypeOK
  BY DEF LedgerInv
<1>3. \A d \in Past : PastMoves(d)
  BY <1>1, SweptRow DEF PastMoves, Prunable
<1>4. RowsMove
  BY <1>1, <1>2, <1>3, SweptFacts DEF RowsMove
<1>5. Retained
  <2>1. kept' \subseteq kept
    BY <1>1
  <2>2. ASSUME NEW c \in Past, NEW p \in Past, c \in kept \ kept',
               rows[p].created <= rows[c].created, rows[p].status # "active"
        PROVE  p \notin kept'
    <3>1. Prunable(c)
      BY <1>1, <2>2
    <3>2. rows[p].created \in Nat /\ rows[c].created \in Nat /\ now \in Nat
      BY <1>2, RowFacts, RowParts
    <3>3. rows[p].created + Retention < now
      BY <2>2, <3>1, <3>2, Numbers DEF Prunable
    <3>4. Swept[p].status # "active"
      BY <2>2, SweptRow
    <3>5. Prunable(p)
      BY <3>3, <3>4 DEF Prunable
    <3> QED BY <1>1, <3>5
  <2> QED BY <2>1, <2>2 DEF Retained
<1>6. now \in 0..MaxTime
  BY <1>2 DEF TypeOK
<1>7. now' \in 0..MaxTime /\ now <= now'
  BY <1>1, <1>6, Numbers
<1>8. Answers
  BY <1>1, <1>2, RowFacts, NoAnswerIsTyped
<1> QED BY <1>1, <1>4, <1>5, <1>7, <1>8 DEF Quiet, Answers

LEMMA ReconcileIsQuiet ==
  ASSUME LedgerInv, NEW s, NEW retained, RouteReconcile(s, retained)
  PROVE  Quiet
<1> DEFINE owned == {d \in kept : rows[d].request.session = s}
           ended == (owned \cap Active(Swept)) \ retained
<1>1. /\ rows' = [d \in Ids |-> IF d \in ended
                    THEN [Swept[d] EXCEPT !.status = "reconciled"] ELSE Swept[d]]
      /\ answer' = NoAnswer /\ now' = now /\ issued' = issued /\ kept' = kept
  BY DEF RouteReconcile
<1>2. TypeOK /\ Past \subseteq Ids /\ kept \subseteq Past
  BY RowFacts DEF LedgerInv
<1>3. \A d \in ended : d \in kept /\ Swept[d].status = "active"
  BY DEF Active
<1> HIDE DEF ended
<1>4. ASSUME NEW d \in Past
      PROVE  PastMoves(d)
  <2>1. CASE d \in ended
    <3>1. d \in kept /\ Swept[d].status = "active"
      BY <1>3, <2>1
    <3>2. rows'[d] = [Swept[d] EXCEPT !.status = "reconciled"]
      BY <1>1, <1>2, <2>1
    <3>3. "reconciled" \in Status /\ Swept[d] \in Row
      BY SweptRow DEF Status
    <3>4. /\ rows'[d] \in Row /\ SameRow(Swept[d], rows'[d])
          /\ rows'[d].status = "reconciled" /\ rows'[d].outcome = Swept[d].outcome
      BY <3>2, <3>3, StatusChange
    <3>5. SameRow(rows[d], rows'[d]) /\ rows'[d].outcome = rows[d].outcome
      BY <3>4, SweptRow DEF Moved, SameRow
    <3>6. rows[d].status = "active"
      BY <3>1, SweptRow
    <3>7. Moved(rows[d], rows'[d])
      BY <3>4, <3>5, <3>6, MovedByEnd
    <3> QED BY <3>1, <3>4, <3>7 DEF PastMoves
  <2>2. CASE d \notin ended
    <3>1. rows'[d] = Swept[d]
      BY <1>1, <1>2, <2>2
    <3> QED BY <1>1, <3>1, SweptRow DEF PastMoves
  <2> QED BY <2>1, <2>2
<1>5. \A d \in Ids \ Past : rows'[d] = rows[d]
  BY <1>1, <1>2, <1>3, SweptFacts
<1>6. rows' \in [Ids -> Row \cup {NoRow}]
  <2>1. \A d \in Ids : rows'[d] \in Row \cup {NoRow}
    BY <1>2, <1>4, <1>5, RowFacts DEF PastMoves, Moved
  <2>2. rows' = [d \in Ids |-> rows'[d]]
    BY <1>1
  <2> QED BY <2>1, <2>2
<1>7. RowsMove
  BY <1>4, <1>5, <1>6 DEF RowsMove
<1>8. Retained
  BY <1>1 DEF Retained
<1>9. now \in 0..MaxTime
  BY <1>2 DEF TypeOK
<1>10. now' \in 0..MaxTime /\ now <= now'
  BY <1>1, <1>9, Numbers
<1>11. Answers
  BY <1>1, <1>2, RowFacts, NoAnswerIsTyped
<1> QED BY <1>1, <1>7, <1>8, <1>10, <1>11 DEF Quiet, Answers

\* The row of d after the first report.
LEMMA ReportedRow ==
  ASSUME LedgerInv, NEW d \in Past, NEW o \in Outcome, d \in kept, rows[d].outcome = ""
  PROVE  LET q == [Swept[d] EXCEPT !.outcome = o,
                                   !.status = IF @ = "active" THEN "released" ELSE @]
         IN Moved(rows[d], q) /\ q.status # "active"
<1> DEFINE r == rows[d]
           w == Swept[d]
           st == IF w.status = "active" THEN "released" ELSE w.status
           q == [w EXCEPT !.outcome = o, !.status = st]
<1>1. /\ w \in Row /\ Moved(r, w) /\ w.outcome = ""
      /\ w.status = "active" => r.status = "active" /\ now < r.expires
  BY SweptRow
<1>2. w.status \in Status /\ "released" \in Status
  BY <1>1, RowParts DEF Status
<1>3. st \in Status /\ st # "active"
  BY <1>2
<1>4. \/ st = r.status
      \/ r.status = "active" /\ st = "released" /\ now < r.expires
      \/ r.status = "active" /\ st = "expired" /\ r.expires <= now
  BY SweptRow
<1> HIDE DEF st
<1>5. q \in Row /\ SameRow(w, q) /\ q.outcome = o /\ q.status = st
  BY <1>1, <1>3 DEF Row, SameRow
<1>6. SameRow(r, q)
  BY <1>1, <1>5 DEF Moved, SameRow
<1>7. o # ""
  BY LedgerAssumption
<1>8. Moved(r, q)
  BY <1>3, <1>4, <1>5, <1>6, <1>7, MovedByReport
<1> QED BY <1>3, <1>5, <1>8 DEF st

LEMMA FeedbackIsQuiet ==
  ASSUME LedgerInv, NEW d \in Ids, NEW s, NEW o \in Outcome, RouteFeedback(d, s, o)
  PROVE  Quiet
<1>1. /\ d \in kept /\ answer' = NoAnswer /\ now' = now /\ issued' = issued /\ kept' = kept
      /\ rows' = IF rows[d].outcome = "" THEN Reported(d, o) ELSE Swept
  BY DEF RouteFeedback
<1>2. TypeOK /\ Past \subseteq Ids /\ d \in Past
  BY <1>1, RowFacts DEF LedgerInv
<1>3. Answers
  BY <1>1, <1>2, RowFacts, NoAnswerIsTyped
<1>4. CASE rows[d].outcome # ""
  BY <1>1, <1>3, <1>4, SweepIsQuiet
<1>5. CASE rows[d].outcome = ""
  <2> DEFINE q == [Swept[d] EXCEPT !.outcome = o,
                                   !.status = IF @ = "active" THEN "released" ELSE @]
  <2>1. rows' = [Swept EXCEPT ![d] = q]
    BY <1>1, <1>5 DEF Reported
  <2>2. Moved(rows[d], q) /\ q.status # "active"
    BY <1>1, <1>2, <1>5, ReportedRow
  <2> HIDE DEF q
  <2>3. rows'[d] = q /\ \A e \in Ids \ {d} : rows'[e] = Swept[e]
    BY <1>2, <2>1, SweptFacts
  <2>4. \A e \in Past : PastMoves(e)
    BY <1>1, <1>2, <2>2, <2>3, SweptRow DEF PastMoves
  <2>5. \A e \in Ids \ Past : rows'[e] = rows[e]
    BY <1>2, <2>3, SweptFacts
  <2>6. rows' \in [Ids -> Row \cup {NoRow}]
    <3>1. q \in Row
      BY <2>2 DEF Moved
    <3> QED BY <1>2, <2>1, <3>1, SweptFacts
  <2>7. RowsMove
    BY <2>4, <2>5, <2>6 DEF RowsMove
  <2>8. Retained
    BY <1>1 DEF Retained
  <2>9. now \in 0..MaxTime
    BY <1>2 DEF TypeOK
  <2>10. now' \in 0..MaxTime /\ now <= now'
    <3>1. now' = now
      BY <1>1
    <3> QED BY <2>9, <3>1, Numbers
  <2> QED BY <1>1, <1>3, <2>7, <2>8, <2>10 DEF Quiet, Answers
<1> QED BY <1>4, <1>5

-----------------------------------------------------------------------------
(* The admission.                                                          *)

\* D is a row for the request i and its route.
RowFor(i, route, D) ==
  /\ D \in Row
  /\ D.request = i
  /\ D.outcome = ""
  /\ D.created = now
  /\ i.parent # 0 => D.hop = 1
  /\ i.parent = 0 => D.hop = 0
  /\ D.provider \in {"", route.provider}
  /\ D.status \in {"none", "active"}
  /\ D.status = "active" =>
       ~Full /\ D.lane = "native_subagent" /\ D.expires = now + TTL
  /\ D.lane = "native_subagent" => D.status = "active"

LEMMA DecisionIsRow ==
  ASSUME LedgerInv, NEW i \in Request, NEW route, GoodRoute(i, route)
  PROVE  RowFor(i, route, Decision(i, route))
<1> DEFINE denied == Denied(i, route)
           leased == Leased(i, route)
           r == Decision(i, route)
<1>1. now \in Nat
  BY RowFacts DEF LedgerInv
<1>2. route.lane \in Lanes /\ route.provider \in Targets \cup {""}
        /\ (route.lane = "native_subagent" => Canary(i))
  BY DEF GoodRoute, RouteRecord
<1>3. leased => route.lane = "native_subagent" /\ ~denied
  BY DEF Leased, Denied, Wanted
<1>4. route.lane = "native_subagent" => leased \/ denied
  BY <1>2 DEF Leased, Denied, Wanted
<1> HIDE DEF denied, leased
<1>5. r = [request |-> i,
           lane |-> IF denied THEN "direct" ELSE route.lane,
           provider |-> IF denied THEN "" ELSE route.provider,
           mode |-> IF Canary(i) THEN "canary" ELSE "shadow",
           hop |-> IF i.parent # 0 THEN 1 ELSE 0,
           created |-> now,
           expires |-> IF leased THEN now + TTL ELSE 0,
           status |-> IF leased THEN "active" ELSE "none",
           outcome |-> ""]
  BY DEF Decision, denied, leased
<1> HIDE DEF r
<1>6. /\ r.request = i /\ r.outcome = "" /\ r.created = now
      /\ r.lane = (IF denied THEN "direct" ELSE route.lane)
      /\ r.provider = (IF denied THEN "" ELSE route.provider)
      /\ r.hop = (IF i.parent # 0 THEN 1 ELSE 0)
      /\ r.expires = (IF leased THEN now + TTL ELSE 0)
      /\ r.status = (IF leased THEN "active" ELSE "none")
  BY <1>5
<1>7. r \in Row
  <2>1. "direct" \in Lanes /\ now + TTL \in Nat /\ {"none", "active"} \subseteq Status
    BY <1>1, Numbers DEF Lanes, Status
  <2>2. /\ (IF denied THEN "direct" ELSE route.lane) \in Lanes
        /\ (IF denied THEN "" ELSE route.provider) \in Targets \cup {""}
        /\ (IF Canary(i) THEN "canary" ELSE "shadow") \in {"shadow", "canary"}
        /\ (IF i.parent # 0 THEN 1 ELSE 0) \in {0, 1}
        /\ (IF leased THEN now + TTL ELSE 0) \in Nat
        /\ (IF leased THEN "active" ELSE "none") \in Status
        /\ "" \in Outcome \cup {""}
    BY <1>2, <2>1
  <2> QED BY <1>1, <1>5, <2>2 DEF Row
<1>8. r.lane = "native_subagent" => r.status = "active"
  BY <1>4, <1>6
<1>9. r.status = "active" => r.lane = "native_subagent" /\ r.expires = now + TTL
  BY <1>3, <1>6
<1>10. r.status = "active" => ~Full
  BY <1>6 DEF leased, Leased
<1>11. r.provider \in {"", route.provider} /\ r.status \in {"none", "active"}
  BY <1>6
<1>12. RowFor(i, route, r)
  BY <1>6, <1>7, <1>8, <1>9, <1>10, <1>11 DEF RowFor
<1> QED BY <1>12 DEF r

\* An admission that the handler lets through: the row D of the decision n.
Admission(i, route, n, D) ==
  /\ i \in Request /\ GoodRoute(i, route)
  /\ (i.parent # 0 /\ route.provider # "") => route.provider # rows[i.parent].provider
  /\ i.parent # 0 => MayEscalate(i)
  /\ ~Repeated(i)
  /\ n = issued + 1
  /\ D = Decision(i, route)
  /\ Admit(i, route)
  /\ now' = now

LEMMA AdmittedRow ==
  ASSUME LedgerInv, NEW i, NEW route, NEW n, NEW D, Admission(i, route, n, D)
  PROVE  RowFor(i, route, D)
<1>1. D = Decision(i, route) /\ i \in Request /\ GoodRoute(i, route)
  BY DEF Admission
<1>2. RowFor(i, route, Decision(i, route))
  BY <1>1, DecisionIsRow
<1> QED BY <1>1, <1>2

\* What the table holds after it.
LEMMA AdmittedRows ==
  ASSUME LedgerInv, NEW i, NEW route, NEW n, NEW D, Admission(i, route, n, D)
  PROVE  /\ n \in Ids /\ n \notin Past /\ \A d \in Past : d < n
         /\ issued' = n /\ kept' = kept \cup {n} /\ n \notin kept
         /\ D \in Row /\ rows'[n] = D
         /\ \A d \in Past : PastMoves(d) /\ rows'[d] = Swept[d]
         /\ \A d \in Ids : d \notin Past /\ d # n => rows'[d] = NoRow
         /\ rows' \in [Ids -> Row \cup {NoRow}]
<1>1. /\ issued < MaxDecisions /\ issued' = n
      /\ rows' = [Swept EXCEPT ![n] = D] /\ kept' = kept \cup {n}
  BY DEF Admission, Admit
<1>2. /\ TypeOK /\ issued \in Nat /\ kept \subseteq Past /\ Past \subseteq Ids
  BY RowFacts DEF LedgerInv
<1>3. n = issued + 1
  BY DEF Admission
<1>4. n \in Ids /\ n \notin Past /\ \A d \in Past : d < n
  BY <1>1, <1>2, <1>3, Numbers DEF Ids, Past
<1>5. D \in Row
  BY AdmittedRow DEF RowFor
<1>6. rows'[n] = D /\ \A d \in Ids \ {n} : rows'[d] = Swept[d]
  BY <1>1, <1>2, <1>4, SweptFacts
<1>7. \A d \in Past : rows'[d] = Swept[d]
  BY <1>2, <1>4, <1>6
<1>8. \A d \in Past : PastMoves(d)
  BY <1>1, <1>7, SweptRow DEF PastMoves
<1>9. \A d \in Ids : d \notin Past /\ d # n => rows'[d] = NoRow
  BY <1>2, <1>6, SweptFacts, RowFacts
<1>10. rows' \in [Ids -> Row \cup {NoRow}]
  BY <1>1, <1>2, <1>5, SweptFacts
<1> QED BY <1>1, <1>2, <1>4, <1>5, <1>6, <1>7, <1>8, <1>9, <1>10

LEMMA AdmitTypes ==
  ASSUME LedgerInv, NEW i, NEW route, NEW n, NEW D, Admission(i, route, n, D)
  PROVE  TypeOK'
<1>1. /\ TypeOK /\ issued \in Nat /\ kept \subseteq Past
  BY RowFacts DEF LedgerInv
<1>2. /\ n = issued + 1 /\ issued' = n /\ issued < MaxDecisions /\ now' = now
  BY DEF Admission, Admit
<1>3. issued' \in 0..MaxDecisions
  BY <1>1, <1>2, Numbers
<1>4. now' \in 0..MaxTime
  BY <1>1, <1>2 DEF TypeOK
<1>5. kept' \in SUBSET (1..issued')
  <2>1. 1..issued' = Past \cup {n}
    BY <1>1, <1>2 DEF Past
  <2> QED BY <1>1, <2>1, AdmittedRows
<1>6. \A d \in Ids : d <= issued' <=> (d \in Past \/ d = n)
  BY <1>1, <1>2, Numbers DEF Past, Ids
<1>7. \A d \in Ids : IF d <= issued' THEN rows'[d] \in Row ELSE rows'[d] = NoRow
  <2>1. /\ D \in Row /\ rows'[n] = D
        /\ \A d \in Past : PastMoves(d)
        /\ \A d \in Ids : d \notin Past /\ d # n => rows'[d] = NoRow
    BY AdmittedRows
  <2>2. \A d \in Past : rows'[d] \in Row
    BY <2>1 DEF PastMoves, Moved
  <2> QED BY <1>6, <2>1, <2>2
<1>8. answer' \in [id : 0..issued', status : {"none", "active"}, reason : {"", "full"}]
  <2> DEFINE s == Decision(i, route).status
             reason == IF Denied(i, route) THEN "full" ELSE ""
  <2>1. answer' = [id |-> n, status |-> s, reason |-> reason]
    BY DEF Admission, Admit
  <2>2. reason \in {"", "full"}
    OBVIOUS
  <2>3. s \in {"none", "active"}
    <3>1. D = Decision(i, route)
      BY DEF Admission
    <3> QED BY <3>1, AdmittedRow DEF RowFor
  <2>4. n \in 0..issued'
    BY <1>1, <1>2
  <2> HIDE DEF s, reason
  <2> QED BY <2>1, <2>2, <2>3, <2>4
<1>9. rows' \in [Ids -> Row \cup {NoRow}]
  BY AdmittedRows
<1> QED BY <1>3, <1>4, <1>5, <1>7, <1>8, <1>9 DEF TypeOK

LEMMA AdmitLimit ==
  ASSUME LedgerInv, NEW i, NEW route, NEW n, NEW D, Admission(i, route, n, D)
  PROVE  LeasesWithinLimit'
<1> DEFINE A == Active(Swept)
           B == {d \in kept' : rows'[d].status = "active"}
<1>1. TypeOK /\ LeasesWithinLimit /\ kept \subseteq Past /\ n \notin kept
  BY RowFacts, AdmittedRows DEF LedgerInv
<1>2. IsFiniteSet(A) /\ Cardinality(A) \in Nat /\ IsFiniteSet(Active(rows))
        /\ Cardinality(Active(rows)) \in Nat
  BY <1>1, ActiveIsFinite
<1>3. Cardinality(A) <= Limit
  <2>1. A \in SUBSET Active(rows)
    BY <1>1, SweptRow DEF Active
  <2>2. Cardinality(A) <= Cardinality(Active(rows))
    BY <1>2, <2>1, FS_Subset
  <2> QED BY <1>1, <1>2, <2>2, Numbers DEF LeasesWithinLimit
<1>4. B \subseteq A \cup {n}
  <2> SUFFICES ASSUME NEW d \in B, d # n PROVE d \in A
    OBVIOUS
  <2>1. d \in kept /\ d \in Past
    BY <1>1, AdmittedRows
  <2>2. rows'[d] = Swept[d]
    BY <2>1, AdmittedRows
  <2> QED BY <2>1, <2>2 DEF Active
<1> HIDE DEF A, B
<1>5. CASE D.status = "active"
  <2>1. Cardinality(A) < Limit
    <3>1. ~Full
      BY <1>5, AdmittedRow DEF RowFor
    <3> QED BY <1>2, <3>1, Numbers DEF Full, A
  <2>2. n \notin A
    BY <1>1 DEF A, Active
  <2>3. IsFiniteSet(A \cup {n}) /\ Cardinality(A \cup {n}) = Cardinality(A) + 1
    BY <1>2, <2>2, FS_AddElement
  <2>4. IsFiniteSet(B) /\ Cardinality(B) <= Cardinality(A \cup {n}) /\ Cardinality(B) \in Nat
    BY <1>4, <2>3, FS_Subset, FS_CardinalityType
  <2>5. Cardinality(B) <= Limit
    BY <1>2, <2>1, <2>3, <2>4, Numbers
  <2> QED BY <2>5 DEF LeasesWithinLimit, Active, B
<1>6. CASE D.status # "active"
  <2>1. rows'[n] = D
    BY AdmittedRows
  <2>2. n \notin B
    BY <1>6, <2>1 DEF B
  <2>3. B \in SUBSET A
    BY <1>4, <2>2
  <2>4. Cardinality(B) <= Cardinality(A) /\ Cardinality(B) \in Nat
    BY <1>2, <2>3, FS_Subset, FS_CardinalityType
  <2>5. Cardinality(B) <= Limit
    BY <1>2, <1>3, <2>4, Numbers
  <2> QED BY <2>5 DEF LeasesWithinLimit, Active, B
<1> QED BY <1>5, <1>6

\* The parent of a child is a decision made before, and none of those has a
\* child with the parent of the new one.
LEMMA AdmitEscalates ==
  ASSUME LedgerInv, NEW i, NEW route, NEW n, NEW D, Admission(i, route, n, D)
  PROVE  EscalatesOnce'
<1>1. TypeOK /\ EscalatesOnce /\ ChildOutlivesParent /\ Past \subseteq Ids /\ kept \subseteq Past
  BY RowFacts DEF LedgerInv
<1>2. rows'[n].request = i /\ rows'[n].provider \in {"", route.provider} /\ i \in Request
  <2>1. rows'[n] = D
    BY AdmittedRows
  <2>2. i \in Request
    BY DEF Admission
  <2>3. RowFor(i, route, D)
    BY AdmittedRow
  <2> QED BY <2>1, <2>2, <2>3 DEF RowFor
<1>3. \A d \in Past :
        /\ SameRow(rows[d], rows'[d])
        /\ rows[d].outcome # "" => rows'[d].outcome = rows[d].outcome
  BY AdmittedRows DEF PastMoves, Moved
<1>4. ASSUME NEW c \in Ids, rows'[c].request.parent # 0
      PROVE  c = n \/ (c \in Past /\ rows'[c].request = rows[c].request)
  <2>1. CASE c \in Past
    BY <1>3, <2>1 DEF SameRow
  <2>2. CASE c \notin Past /\ c # n
    <3>1. rows'[c] = NoRow
      BY <2>2, AdmittedRows
    <3>2. NoRow.request.parent = 0
      BY DEF NoRow, NoRequest
    <3> QED BY <1>4, <3>1, <3>2
  <2> QED BY <2>1, <2>2
<1>5. ASSUME NEW c \in Ids, rows'[c].request.parent # 0
      PROVE  Escalation(c, rows[c].request.parent)'
  <2> DEFINE p == rows'[c].request.parent
  <2>1. CASE c = n
    <3>1. p = i.parent /\ p # 0
      BY <1>2, <1>5, <2>1
    <3>2. /\ p \in kept /\ rows[p].request.session = i.session
          /\ rows[p].mode # "shadow" /\ rows[p].outcome = "escalated" /\ rows[p].hop < 1
      BY <3>1 DEF Admission, MayEscalate
    <3>3. p \in Past /\ p \in Ids /\ p < n
      BY <1>1, <3>2, AdmittedRows
    <3>4. rows[p].request.parent = 0
      BY <1>1, <3>2, <3>3 DEF ChildOutlivesParent
    <3>5. SameRow(rows[p], rows'[p]) /\ rows'[p].outcome = "escalated"
      BY <1>3, <3>2, <3>3
    <3>6. rows'[c].provider # "" => rows'[c].provider # rows[p].provider
      BY <1>2, <2>1, <3>1 DEF Admission
    <3> QED BY <1>2, <2>1, <3>1, <3>2, <3>3, <3>4, <3>5, <3>6 DEF Escalation, SameRow
  <2>2. CASE c # n
    <3>1. c \in Past /\ rows'[c].request = rows[c].request
      BY <1>4, <1>5, <2>2
    <3>2. p = rows[c].request.parent /\ p # 0
      BY <1>5, <3>1
    <3>3. Escalation(c, p)
      BY <1>1, <3>1, <3>2 DEF EscalatesOnce
    <3>4. p \in Ids
      BY <1>1, <3>1, <3>2, ParentIsId
    <3>5. p \in Past
      <4>1. rows[p].outcome = "escalated"
        BY <3>3 DEF Escalation
      <4> QED BY <1>1, <3>4, <4>1, RowFacts
    <3>6. SameRow(rows[p], rows'[p]) /\ SameRow(rows[c], rows'[c]) /\ rows'[p].outcome = "escalated"
      BY <1>3, <3>1, <3>3, <3>5 DEF Escalation
    <3> QED BY <3>2, <3>3, <3>6 DEF Escalation, SameRow
  <2> QED BY <2>1, <2>2
<1>6. ASSUME NEW d \in Past, i.parent # 0, rows[d].request.parent = i.parent
      PROVE  FALSE
  <2>1. i.parent \in kept
    BY <1>6 DEF Admission, MayEscalate
  <2>2. d \in kept
    BY <1>1, <1>6, <2>1 DEF ChildOutlivesParent
  <2>3. Repeated(i)
    BY <1>6, <2>2 DEF Repeated, Children
  <2> QED BY <2>3 DEF Admission
<1>7. ASSUME NEW c \in Ids, NEW d \in Ids, rows'[c].request.parent # 0,
             rows'[c].request.parent = rows'[d].request.parent
      PROVE  c = d
  <2>1. c = n \/ (c \in Past /\ rows'[c].request = rows[c].request)
    BY <1>4, <1>7
  <2>2. d = n \/ (d \in Past /\ rows'[d].request = rows[d].request)
    BY <1>4, <1>7
  <2>3. CASE c = n /\ d # n
    BY <1>2, <1>6, <1>7, <2>2, <2>3
  <2>4. CASE c # n /\ d = n
    BY <1>2, <1>6, <1>7, <2>1, <2>4
  <2>5. CASE c # n /\ d # n
    BY <1>1, <1>7, <2>1, <2>2, <2>5 DEF EscalatesOnce
  <2> QED BY <2>3, <2>4, <2>5
<1> QED BY <1>5, <1>7 DEF EscalatesOnce

LEMMA AdmitJoins ==
  ASSUME LedgerInv, NEW i, NEW route, NEW n, NEW D, Admission(i, route, n, D)
  PROVE  JoinRateIsShare'
<1> SUFFICES ASSUME NEW d \in kept', rows'[d].lane = "native_subagent"
             PROVE  /\ rows'[d].status # "none"
                    /\ rows'[d].outcome # "" => rows'[d].status # "active"
  BY DEF JoinRateIsShare
<1>1. CASE d = n
  <2>1. rows'[d] = D
    BY <1>1, AdmittedRows
  <2>2. RowFor(i, route, D)
    BY AdmittedRow
  <2> QED BY <2>1, <2>2 DEF RowFor
<1>2. CASE d # n
  <2>0. TypeOK
    BY DEF LedgerInv
  <2>1. d \in kept /\ d \in Past
    <3>1. d \in kept
      BY <1>2, AdmittedRows
    <3> QED BY <2>0, <3>1, RowFacts
  <2>2. Moved(rows[d], rows'[d])
    BY <2>1, AdmittedRows DEF PastMoves
  <2>3. rows[d].lane = "native_subagent"
    BY <2>2 DEF Moved, SameRow
  <2>4. rows[d].status # "none" /\ (rows[d].outcome # "" => rows[d].status # "active")
    BY <2>1, <2>3 DEF LedgerInv, JoinRateIsShare
  <2> QED BY <2>2, <2>4 DEF Moved
<1> QED BY <1>1, <1>2

LEMMA AdmitLeases ==
  ASSUME LedgerInv, NEW i, NEW route, NEW n, NEW D, Admission(i, route, n, D)
  PROVE  LeaseIsBounded'
<1> SUFFICES ASSUME NEW d \in Ids
             PROVE  /\ rows'[d].created <= now'
                    /\ rows'[d].status = "active" =>
                         /\ d \in kept'
                         /\ rows'[d].lane = "native_subagent"
                         /\ rows'[d].outcome = ""
                         /\ rows'[d].expires = rows'[d].created + TTL
  BY DEF LeaseIsBounded
<1>0. now \in Nat /\ now' = now
  BY RowFacts DEF LedgerInv, Admission
<1>1. CASE d = n
  <2>0. RowFor(i, route, D)
    BY AdmittedRow
  <2>1. /\ D.created = now /\ D.outcome = ""
        /\ D.status = "active" => D.lane = "native_subagent" /\ D.expires = now + TTL
    BY <2>0 DEF RowFor
  <2>2. rows'[d] = D /\ d \in kept'
    BY <1>1, AdmittedRows
  <2>3. D.created <= now'
    <3>1. D.created = now
      BY <2>0 DEF RowFor
    <3> QED BY <1>0, <3>1
  <2> QED BY <2>1, <2>2, <2>3
<1>2. CASE d \in Past
  <2>1. Moved(rows[d], rows'[d]) /\ (rows'[d].status = "active" => d \in kept')
    BY <1>2, AdmittedRows DEF PastMoves
  <2>2. /\ rows[d].created <= now
        /\ rows[d].status = "active" =>
             /\ rows[d].lane = "native_subagent"
             /\ rows[d].outcome = ""
             /\ rows[d].expires = rows[d].created + TTL
    BY DEF LedgerInv, LeaseIsBounded
  <2>3. SameRow(rows[d], rows'[d])
    BY <2>1 DEF Moved
  <2>4. rows'[d].created <= now'
    <3>1. rows'[d].created = rows[d].created
      BY <2>3 DEF SameRow
    <3> QED BY <1>0, <2>2, <3>1
  <2>5. rows'[d].status = "active" => rows[d].status = "active" /\ rows'[d].outcome = rows[d].outcome
    BY <2>1 DEF Moved
  <2> QED BY <2>1, <2>2, <2>3, <2>4, <2>5 DEF SameRow
<1>3. CASE d \notin Past /\ d # n
  <2>1. rows'[d] = NoRow
    BY <1>3, AdmittedRows
  <2>2. NoRow.created = 0 /\ NoRow.status = "none"
    BY DEF NoRow
  <2>3. rows'[d].created = 0 /\ rows'[d].status = "none"
    BY <2>1, <2>2
  <2> QED BY <1>0, <2>3
<1> QED BY <1>1, <1>2, <1>3

LEMMA AdmitChildren ==
  ASSUME LedgerInv, NEW i, NEW route, NEW n, NEW D, Admission(i, route, n, D)
  PROVE  ChildOutlivesParent'
<1> SUFFICES ASSUME NEW c \in Ids
             PROVE  /\ rows'[c].hop = (IF rows'[c].request.parent = 0 THEN 0 ELSE 1)
                    /\ rows'[c].request.parent # 0 =>
                         /\ rows'[rows'[c].request.parent].created <= rows'[c].created
                         /\ rows'[c].request.parent \in kept' => c \in kept'
  BY DEF ChildOutlivesParent
<1>1. TypeOK /\ LeaseIsBounded /\ EscalatesOnce /\ ChildOutlivesParent
        /\ Past \subseteq Ids /\ kept \subseteq Past
  BY RowFacts DEF LedgerInv
<1>2. \A d \in Past : SameRow(rows[d], rows'[d])
  BY AdmittedRows DEF PastMoves, Moved
<1>3. CASE c = n
  <2>0. rows'[c] = D
    BY <1>3, AdmittedRows
  <2>1. /\ rows'[c].request = i /\ rows'[c].created = now
        /\ rows'[c].hop = (IF i.parent = 0 THEN 0 ELSE 1)
    <3>1. RowFor(i, route, D)
      BY AdmittedRow
    <3> QED BY <2>0, <3>1 DEF RowFor
  <2>2. c \in kept'
    BY <1>3, AdmittedRows
  <2>3. i.parent # 0 => i.parent \in Past
    BY <1>1 DEF Admission, MayEscalate
  <2>4. i.parent # 0 => rows'[i.parent].created <= now
    BY <1>1, <1>2, <2>3 DEF SameRow, LeaseIsBounded
  <2> QED BY <2>1, <2>2, <2>4
<1>4. CASE c \in Past
  <2>1. rows'[c].request = rows[c].request /\ rows'[c].hop = rows[c].hop
          /\ rows'[c].created = rows[c].created
    BY <1>2, <1>4 DEF SameRow
  <2>2. rows'[c].hop = (IF rows'[c].request.parent = 0 THEN 0 ELSE 1)
    BY <1>1, <1>4, <2>1 DEF ChildOutlivesParent
  <2>3. ASSUME rows[c].request.parent # 0
        PROVE  /\ rows'[rows[c].request.parent].created <= rows[c].created
               /\ rows[c].request.parent \in kept' => c \in kept'
    <3> DEFINE p == rows[c].request.parent
    <3>1. rows[p].created <= rows[c].created /\ (p \in kept => c \in kept)
      BY <1>1, <1>4, <2>3 DEF ChildOutlivesParent
    <3>2. p \in Ids /\ rows[p].outcome = "escalated"
      BY <1>1, <1>4, <2>3, ParentIsId DEF EscalatesOnce, Escalation
    <3>3. p \in Past
      BY <1>1, <3>2, RowFacts
    <3>4. rows'[p].created = rows[p].created
      BY <1>2, <3>3 DEF SameRow
    <3>5. p \in kept' => c \in kept'
      BY <3>1, <3>3, AdmittedRows
    <3> QED BY <3>1, <3>4, <3>5
  <2> QED BY <2>1, <2>2, <2>3
<1>5. CASE c # n /\ c \notin Past
  <2>1. rows'[c] = NoRow
    BY <1>5, AdmittedRows
  <2>2. rows'[c].request.parent = 0 /\ rows'[c].hop = 0
    BY <1>1, <2>1, RowFacts
  <2> QED BY <2>2
<1> QED BY <1>3, <1>4, <1>5

LEMMA AdmissionKeeps ==
  ASSUME LedgerInv, NEW i, NEW route, NEW n, NEW D, Admission(i, route, n, D)
  PROVE  LedgerInv'
BY AdmitTypes, AdmitLimit, AdmitEscalates, AdmitJoins, AdmitLeases, AdmitChildren DEF LedgerInv

-----------------------------------------------------------------------------
(* The invariant.                                                          *)

LEMMA InitLedger ==
  ASSUME Init
  PROVE  LedgerInv
<1>1. now = 0 /\ issued = 0 /\ kept = {} /\ answer = NoAnswer /\ rows = [d \in Ids |-> NoRow]
  BY DEF Init
<1>2. /\ NoRow.request.parent = 0 /\ NoRow.hop = 0 /\ NoRow.created = 0
      /\ NoRow.status = "none" /\ NoRow.outcome = ""
  BY DEF NoRow, NoRequest
<1>3. \A d \in Ids : rows[d] = NoRow
  BY <1>1
<1>4. TypeOK
  <2>1. now \in 0..MaxTime /\ issued \in 0..MaxDecisions /\ kept \in SUBSET (1..issued)
    BY <1>1, Numbers
  <2>2. \A d \in Ids : ~(d <= issued)
    BY <1>1, Numbers DEF Ids
  <2>3. rows \in [Ids -> Row \cup {NoRow}]
    BY <1>1
  <2>4. answer \in [id : 0..issued, status : {"none", "active"}, reason : {"", "full"}]
    <3>1. 0 \in 0..issued
      BY <1>1
    <3> QED BY <1>1, <3>1 DEF NoAnswer
  <2> QED BY <1>3, <2>1, <2>2, <2>3, <2>4 DEF TypeOK
<1>5. LeasesWithinLimit
  <2>1. Active(rows) = {}
    BY <1>1 DEF Active
  <2>2. Cardinality({}) = 0
    BY FS_EmptySet
  <2> QED BY <2>1, <2>2, Numbers DEF LeasesWithinLimit
<1>6. EscalatesOnce
  BY <1>2, <1>3 DEF EscalatesOnce
<1>7. JoinRateIsShare
  BY <1>1 DEF JoinRateIsShare
<1>8. LeaseIsBounded
  <2>1. \A d \in Ids : rows[d].created <= now /\ rows[d].status # "active"
    <3>1. \A d \in Ids : rows[d].created = 0 /\ rows[d].status = "none"
      BY <1>2, <1>3
    <3>2. now = 0
      BY <1>1
    <3> QED BY <3>1, <3>2
  <2> QED BY <2>1 DEF LeaseIsBounded
<1>9. ChildOutlivesParent
  BY <1>2, <1>3 DEF ChildOutlivesParent
<1> QED BY <1>4, <1>5, <1>6, <1>7, <1>8, <1>9 DEF LedgerInv

\* Every step is quiet or an admission.
QuietOrAdmission ==
  Quiet \/ \E i, route, n, D : Admission(i, route, n, D)

LEMMA DecideIsEither ==
  ASSUME LedgerInv, NEW intent \in Intents, NEW s \in Session \cup {""},
         NEW p \in Ids \cup {0}, NEW h, RouteDecide(intent, s, p, h)
  PROVE  QuietOrAdmission
<1> DEFINE i == [intent EXCEPT !.session = s, !.parent = p]
           previous == IF p # 0 THEN rows[p].provider ELSE ""
           route == Route(i, h, previous)
<1>0. i = [intent EXCEPT !.session = s, !.parent = p]
  OBVIOUS
<1>2. /\ p # 0 => MayEscalate(i)
      /\ IF Repeated(i) THEN AnswerAgain(i) ELSE Admit(i, route)
      /\ now' = now
  BY DEF RouteDecide
<1> HIDE DEF i
<1>1. i \in Request /\ i.session = s /\ i.parent = p
  <2>1. intent \in Request
    BY LedgerAssumption
  <2> QED BY <1>0, <2>1 DEF Request
<1>3. CASE Repeated(i)
  BY <1>2, <1>3, AnswerAgainIsQuiet DEF QuietOrAdmission
<1>4. CASE ~Repeated(i)
  <2>1. /\ GoodRoute(i, route)
        /\ (i.parent # 0 /\ route.provider # "") => route.provider # previous
    BY <1>1, RouteIsGood, RequestsAreAskers
  <2>2. Admit(i, route)
    BY <1>2, <1>4
  <2> HIDE DEF route
  <2>3. Admission(i, route, issued + 1, Decision(i, route))
    BY <1>1, <1>2, <1>4, <2>1, <2>2 DEF Admission
  <2> QED BY <2>3 DEF QuietOrAdmission
<1> QED BY <1>3, <1>4

LEMMA StepIsEither ==
  ASSUME LedgerInv, [Next]_vars
  PROVE  QuietOrAdmission
<1>1. CASE Decides
  BY <1>1, DecideIsEither DEF Decides
<1>2. CASE Reports
  BY <1>2, FeedbackIsQuiet DEF Reports, QuietOrAdmission
<1>3. CASE Reconciles
  BY <1>3, ReconcileIsQuiet DEF Reconciles, QuietOrAdmission
<1>4. CASE RouteStatus
  BY <1>4, StatusIsQuiet DEF QuietOrAdmission
<1>5. CASE Prune
  BY <1>5, PruneIsQuiet DEF QuietOrAdmission
<1>6. CASE Tick
  BY <1>6, TickIsQuiet DEF QuietOrAdmission
<1>7. CASE UNCHANGED vars
  BY <1>7, StutterIsQuiet DEF QuietOrAdmission
<1> QED BY <1>1, <1>2, <1>3, <1>4, <1>5, <1>6, <1>7 DEF Next

LEMMA StepKeepsLedger ==
  ASSUME LedgerInv, [Next]_vars
  PROVE  LedgerInv'
BY StepIsEither, QuietKeeps, AdmissionKeeps DEF QuietOrAdmission

\* The inductive invariant of the route ledger, for every limit, lease time,
\* retention and number of decisions, whatever the policy's configuration.
THEOREM LedgerInvariantHolds == Spec => []LedgerInv
<1>1. Init => LedgerInv
  BY InitLedger
<1>2. LedgerInv /\ [Next]_vars => LedgerInv'
  BY StepKeepsLedger
<1> QED BY <1>1, <1>2, PTL DEF Spec

\* Every row of route_decisions is one the schema admits; provider is a real
\* target or missing.
THEOREM LedgerTypeCorrect == Spec => []TypeOK
<1>1. LedgerInv => TypeOK
  BY DEF LedgerInv
<1> QED BY <1>1, LedgerInvariantHolds, PTL

\* The admissions of create_route_decision never exceed the limit.
THEOREM LeasesNeverExceedLimit == Spec => []LeasesWithinLimit
<1>1. LedgerInv => LeasesWithinLimit
  BY DEF LedgerInv
<1> QED BY <1>1, LedgerInvariantHolds, PTL

\* An enforced decision escalates at most once, to another provider.
THEOREM EscalatesOnlyOnce == Spec => []EscalatesOnce
<1>1. LedgerInv => EscalatesOnce
  BY DEF LedgerInv
<1> QED BY <1>1, LedgerInvariantHolds, PTL

\* The join rate that route_status reports is a share.
THEOREM JoinRateHolds == Spec => []JoinRateIsShare
<1>1. LedgerInv => JoinRateIsShare
  BY DEF LedgerInv
<1> QED BY <1>1, LedgerInvariantHolds, PTL

-----------------------------------------------------------------------------
(* Leases end once.                                                        *)

LEMMA MovesAreLeaseSteps ==
  ASSUME LedgerInv, NEW d \in Past, PastMoves(d), d \notin kept => d \notin kept'
  PROVE  LeaseStep(d)
<1>1. Moved(rows[d], rows'[d])
  BY DEF PastMoves
<1>2. \/ rows'[d].status = rows[d].status
      \/ rows[d].status = "active" /\ rows'[d].status # "none"
  BY <1>1 DEF Moved
<1>3. rows[d].outcome # "" => rows'[d].outcome = rows[d].outcome
  BY <1>1 DEF Moved
<1>4. (rows[d].status = "active" /\ rows'[d].status = "expired") => rows[d].expires <= now
  BY <1>1 DEF Moved
<1>5. (rows[d].status = "active" /\ rows'[d].status = "released")
        => rows'[d].outcome # "" /\ now < rows[d].expires
  BY <1>1 DEF Moved
<1>6. d \notin kept' => rows'[d].status # "active"
  BY DEF PastMoves
<1>7. d \notin kept => d \notin kept' /\ rows'[d] = rows[d]
  BY DEF PastMoves
<1> QED BY <1>2, <1>3, <1>4, <1>5, <1>6, <1>7 DEF LeaseStep

LEMMA StepsAreLeaseSteps ==
  ASSUME LedgerInv, [Next]_vars
  PROVE  \A d \in Ids : d <= issued => LeaseStep(d)
<1> SUFFICES ASSUME NEW d \in Ids, d <= issued PROVE LeaseStep(d)
  OBVIOUS
<1>1. TypeOK /\ issued \in Nat
  BY RowFacts DEF LedgerInv
<1>2. d \in Past
  BY <1>1, Numbers DEF Ids, Past
<1>3. CASE Quiet
  <2>1. PastMoves(d)
    BY <1>2, <1>3 DEF Quiet, RowsMove
  <2>2. kept' \subseteq kept
    BY <1>3 DEF Quiet, Retained
  <2> QED BY <1>2, <2>1, <2>2, MovesAreLeaseSteps
<1>4. CASE \E i, route, n, D : Admission(i, route, n, D)
  <2>1. PICK i, route, n, D : Admission(i, route, n, D)
    BY <1>4
  <2>2. PastMoves(d) /\ d # n /\ kept' = kept \cup {n}
    BY <1>2, <2>1, AdmittedRows
  <2> QED BY <1>2, <2>2, MovesAreLeaseSteps
<1> QED BY <1>3, <1>4, StepIsEither DEF QuietOrAdmission

\* A lease ends once and for the reason it is stored with, whatever reports,
\* expiry, reconciliation and retention do in whatever order.
THEOREM LeasesEndOnlyOnce == Spec => LeasesEndOnce
<1>1. LedgerInv /\ [Next]_vars => [\A d \in Ids : d <= issued => LeaseStep(d)]_vars
  BY StepsAreLeaseSteps
<1> QED BY <1>1, LedgerInvariantHolds, PTL DEF Spec, LeasesEndOnce

-----------------------------------------------------------------------------
(* Nobody is refused while a lease is free.                                *)

Quota == Cardinality({d \in Active(rows) : rows[d].expires > now}) >= Limit

LEMMA RefusedOnlyByAdmission ==
  ASSUME Next, answer'.reason = "full", LedgerInv
  PROVE  \E i, route, n, D : Admission(i, route, n, D) /\ Denied(i, route)
<1>1. NoAnswer.reason # "full"
  BY DEF NoAnswer
<1>2. CASE Decides
  <2>1. PICK intent \in Intents, s \in Session \cup {""}, p \in Ids \cup {0}, h \in Snapshots :
          RouteDecide(intent, s, p, h)
    BY <1>2 DEF Decides
  <2> DEFINE i == [intent EXCEPT !.session = s, !.parent = p]
             previous == IF p # 0 THEN rows[p].provider ELSE ""
             route == Route(i, h, previous)
  <2>2. i = [intent EXCEPT !.session = s, !.parent = p]
    OBVIOUS
  <2>3. /\ p # 0 => MayEscalate(i)
        /\ IF Repeated(i) THEN AnswerAgain(i) ELSE Admit(i, route)
        /\ now' = now
    BY <2>1 DEF RouteDecide
  <2> HIDE DEF i
  <2>4. i \in Request /\ i.session = s /\ i.parent = p
    <3>1. intent \in Request
      BY LedgerAssumption
    <3> QED BY <2>2, <3>1 DEF Request
  <2>5. ~Repeated(i)
    <3> SUFFICES ASSUME Repeated(i) PROVE FALSE
      OBVIOUS
    <3>1. PICK c : answer' = [id |-> c, reason |-> "",
             status |-> IF rows[c].lane = "native_subagent" THEN "active" ELSE "none"]
      BY <2>3 DEF AnswerAgain
    <3> QED BY <3>1
  <2>6. /\ GoodRoute(i, route)
        /\ (i.parent # 0 /\ route.provider # "") => route.provider # previous
    BY <2>4, RouteIsGood, RequestsAreAskers
  <2> HIDE DEF route
  <2>7. Admission(i, route, issued + 1, Decision(i, route))
    BY <2>3, <2>4, <2>5, <2>6 DEF Admission
  <2>8. Denied(i, route)
    <3> DEFINE full == IF Denied(i, route) THEN "full" ELSE ""
               st == Decision(i, route).status
    <3>1. answer' = [id |-> issued + 1, status |-> st, reason |-> full]
      BY <2>3, <2>5 DEF Admit
    <3> HIDE DEF full, st
    <3>2. full = "full"
      BY <3>1
    <3> QED BY <3>2 DEF full
  <2> QED BY <2>7, <2>8
<1>3. CASE Reports
  BY <1>1, <1>3 DEF Reports, RouteFeedback
<1>4. CASE Reconciles
  BY <1>1, <1>4 DEF Reconciles, RouteReconcile
<1>5. CASE RouteStatus
  BY <1>1, <1>5 DEF RouteStatus
<1>6. CASE Prune
  BY <1>1, <1>6 DEF Prune
<1>7. CASE Tick
  BY <1>1, <1>7 DEF Tick
<1> QED BY <1>2, <1>3, <1>4, <1>5, <1>6, <1>7 DEF Next

LEMMA RefusedWhenFull ==
  ASSUME LedgerInv, NEW i, NEW route, NEW n, NEW D, Admission(i, route, n, D),
         Denied(i, route)
  PROVE  Quota'
<1> DEFINE A == Active(Swept)
           B == {d \in kept' : rows'[d].status = "active"}
           F == {d \in B : rows'[d].expires > now'}
<1>1. TypeOK /\ kept \subseteq Past
  BY RowFacts DEF LedgerInv
<1>2. Cardinality(A) >= Limit /\ Cardinality(A) \in Nat
  BY <1>1, ActiveIsFinite DEF Denied, Full
<1>3. A \subseteq F
  <2> SUFFICES ASSUME NEW d \in A PROVE d \in F
    OBVIOUS
  <2>1. d \in kept /\ d \in Past /\ Swept[d].status = "active"
    BY <1>1 DEF Active
  <2>2. rows'[d] = Swept[d] /\ d \in kept'
    BY <2>1, AdmittedRows
  <2>3. now < rows[d].expires /\ Swept[d].expires = rows[d].expires
    BY <2>1, SweptRow DEF Moved, SameRow
  <2>4. now' = now
    BY DEF Admission
  <2>5. rows'[d].expires > now'
    <3>1. now \in Nat /\ rows[d].expires \in Nat
      BY <1>1, <2>1, RowFacts, RowParts
    <3> QED BY <2>2, <2>3, <2>4, <3>1
  <2> QED BY <2>1, <2>2, <2>5
<1>4. IsFiniteSet(F)
  <2>1. TypeOK'
    BY AdmissionKeeps DEF LedgerInv
  <2>1a. kept' \in SUBSET (1..issued') /\ issued' \in 0..MaxDecisions
    BY <2>1 DEF TypeOK
  <2>1b. F \subseteq kept'
    OBVIOUS
  <2> HIDE DEF F
  <2>2. F \in SUBSET (1..issued') /\ issued' \in Nat
    BY <2>1a, <2>1b, Numbers
  <2>3. 1 \in Int /\ issued' \in Int
    BY <2>2
  <2>4. IsFiniteSet(1..issued')
    BY <2>3, FS_Interval
  <2> QED BY <2>2, <2>4, FS_Subset
<1> HIDE DEF A, F
<1>5. Cardinality(A) <= Cardinality(F) /\ Cardinality(F) \in Nat
  BY <1>3, <1>4, FS_Subset, FS_CardinalityType
<1>6. Cardinality(F) >= Limit
  BY <1>2, <1>5, Numbers
<1> QED BY <1>6 DEF Quota, Active, F

\* A native worker is refused only while the limit is taken by leases that
\* have not run out.
THEOREM RefusedOnlyWhenFull == Spec => []DeniedOnlyWhenFull
<1>1. Init => DeniedOnlyWhenFull
  <2>1. NoAnswer.reason # "full"
    BY DEF NoAnswer
  <2> QED BY <2>1 DEF Init, DeniedOnlyWhenFull
<1>2. LedgerInv /\ DeniedOnlyWhenFull /\ [Next]_vars => DeniedOnlyWhenFull'
  <2>1. ASSUME LedgerInv, Next PROVE answer'.reason = "full" => Quota'
    BY <2>1, RefusedOnlyByAdmission, RefusedWhenFull
  <2>2. CASE UNCHANGED vars
    BY <2>2 DEF vars, DeniedOnlyWhenFull, Active
  <2> QED BY <2>1, <2>2 DEF DeniedOnlyWhenFull, Quota
<1> QED BY <1>1, <1>2, LedgerInvariantHolds, PTL DEF Spec

\* The limit is neither exceeded nor left unused while work is refused.
THEOREM LimitHoldsExactly == Spec => []LimitIsExact
<1>1. LeasesWithinLimit /\ DeniedOnlyWhenFull => LimitIsExact
  BY DEF LimitIsExact
<1> QED BY <1>1, LeasesNeverExceedLimit, RefusedOnlyWhenFull, PTL
=============================================================================
