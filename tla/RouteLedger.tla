----------------------------- MODULE RouteLedger -----------------------------
(***************************************************************************)
(* The route_decisions table of src/tools/agent_job_supervisor.py and the   *)
(* five requests that change it: route_decide, route_feedback,              *)
(* route_reconcile, route_status and the retention of the scheduler.  The   *)
(* route itself comes from RoutePolicy; the ledger admits native workers up *)
(* to a machine-wide limit, leases each admission for a time, joins the     *)
(* feedback, and lets an enforced decision escalate once.                   *)
(*                                                                          *)
(* Every handler is one SQLite transaction without an await, and a request  *)
(* that is refused rolls back, also the expiry it began with: it is a       *)
(* stuttering step.  The table survives a restart and nothing else is kept. *)
(***************************************************************************)
EXTENDS RoutePolicy, FiniteSets

CONSTANTS
  MaxDecisions, \* bound: how many decisions are ever made
  Intents,      \* bound: the intents asked, without session and parent
  Session,      \* the non-empty session ids of the callers
  Snapshots,    \* bound: the health snapshots met
  Outcome,      \* ROUTE_FEEDBACK_OUTCOMES
  Limit,        \* native_reservation_limit
  TTL,          \* native_reservation_ttl
  Retention,    \* the age at which the scheduler prunes a row
  MaxTime       \* bound: the clock

\* Decision ids are fresh uuids, numbered here in the order of their creation.
Ids == 1..MaxDecisions

\* What normalize_intent lets through, and what the policy reads of it.
Request == [version : {1, 2}, caller : Callers, surface : UNION {CallerSurfaces[c] : c \in Callers},
            callerFamily : STRING, capability : {"review", "engineering", "thinking"},
            fits : BOOLEAN, durable : BOOLEAN, native : BOOLEAN,
            explicit : Targets \cup {""}, model : STRING,
            session : Session \cup {""}, parent : Ids \cup {0}]

ASSUME LedgerAssumption ==
  /\ MaxDecisions \in Nat
  /\ Intents \subseteq Request
  /\ Session \subseteq STRING
  /\ "" \notin Session
  /\ "escalated" \in Outcome /\ "" \notin Outcome
  /\ Limit \in Nat \ {0}
  /\ TTL \in Nat \ {0}
  /\ Retention \in Nat
  /\ MaxTime \in Nat

VARIABLES
  now,     \* _now()
  issued,  \* decisions made so far
  rows,    \* route_decisions; what a pruned row held stays here
  kept,    \* the decisions whose row is in the table, not pruned
  answer   \* what the last step answered to a route_decide

vars == <<now, issued, rows, kept, answer>>

Status == {"none", "active", "released", "expired", "reconciled"}

NoRequest == [session |-> "", parent |-> 0]
NoRow == [request |-> NoRequest, lane |-> "direct", provider |-> "", mode |-> "shadow",
          hop |-> 0, created |-> 0, expires |-> 0, status |-> "none", outcome |-> ""]
NoAnswer == [id |-> 0, status |-> "none", reason |-> ""]

\* mode is "shadow" exactly for the decisions that are not enforced.
Row == [request : Request, lane : Lanes, provider : Targets \cup {""},
        mode : {"shadow", "canary"}, hop : {0, 1}, created : Nat, expires : Nat,
        status : Status, outcome : Outcome \cup {""}]

TypeOK ==
  /\ now \in 0..MaxTime
  /\ issued \in 0..MaxDecisions
  /\ kept \in SUBSET (1..issued)
  /\ rows \in [Ids -> Row \cup {NoRow}]
  /\ \A d \in Ids : IF d <= issued THEN rows[d] \in Row ELSE rows[d] = NoRow
  /\ answer \in [id : 0..issued, status : {"none", "active"}, reason : {"", "full"}]

Init ==
  /\ now = 0
  /\ issued = 0
  /\ rows = [d \in Ids |-> NoRow]
  /\ kept = {}
  /\ answer = NoAnswer

-----------------------------------------------------------------------------
Active(table) == {d \in kept : table[d].status = "active"}

Lapsed(d) == d \in kept /\ rows[d].status = "active" /\ rows[d].expires <= now

\* _expire_route_reservations, with which every transaction begins
Swept == [d \in Ids |-> IF Lapsed(d) THEN [rows[d] EXCEPT !.status = "expired"]
                        ELSE rows[d]]

\* What create_route_decision asks of the parent of an escalation.
MayEscalate(i) ==
  /\ i.parent \in kept
  /\ rows[i.parent].request.session = i.session
  /\ rows[i.parent].request.caller = i.caller
  /\ rows[i.parent].request.surface = i.surface
  /\ rows[i.parent].mode # "shadow"
  /\ rows[i.parent].outcome = "escalated"
  /\ rows[i.parent].hop < 1

Children(p) == {d \in kept : rows[d].request.parent = p}

\* Mutation: a lost answer is not recognised.
RepeatedNever(i) == FALSE

Repeated(i) == i.parent # 0 /\ Children(i.parent) # {}

\* The retained response of the child, as it was written when it was made.
AnswerAgain(i) ==
  \E c \in Children(i.parent) :
    /\ rows[c].request = i
    /\ rows' = Swept
    /\ answer' = [id |-> c, reason |-> "",
                  status |-> IF rows[c].lane = "native_subagent" THEN "active" ELSE "none"]
    /\ UNCHANGED <<issued, kept>>

\* Mutation: off by one.
FullLate == Cardinality(Active(Swept)) > Limit

Full == Cardinality(Active(Swept)) >= Limit

Wanted(i, route) == route.lane = "native_subagent" /\ Canary(i)
Denied(i, route) == Wanted(i, route) /\ Full
Leased(i, route) == Wanted(i, route) /\ ~Full

\* The row of a new decision.
Decision(i, route) ==
  [request |-> i,
   lane |-> IF Denied(i, route) THEN "direct" ELSE route.lane,
   provider |-> IF Denied(i, route) THEN "" ELSE route.provider,
   mode |-> IF Canary(i) THEN "canary" ELSE "shadow",
   hop |-> IF i.parent # 0 THEN 1 ELSE 0,
   created |-> now,
   expires |-> IF Leased(i, route) THEN now + TTL ELSE 0,
   status |-> IF Leased(i, route) THEN "active" ELSE "none",
   outcome |-> ""]

Admit(i, route) ==
  /\ issued < MaxDecisions
  /\ issued' = issued + 1
  /\ rows' = [Swept EXCEPT ![issued + 1] = Decision(i, route)]
  /\ kept' = kept \cup {issued + 1}
  /\ answer' = [id |-> issued + 1, status |-> Decision(i, route).status,
                reason |-> IF Denied(i, route) THEN "full" ELSE ""]

\* route_decide: the whole handler, from the policy to the commit.
RouteDecide(intent, s, p, h) ==
  LET i == [intent EXCEPT !.session = s, !.parent = p]
      previous == IF p # 0 THEN rows[p].provider ELSE ""
  IN /\ ValidIntent(i)
     /\ p # 0 => MayEscalate(i)
     /\ IF Repeated(i) THEN AnswerAgain(i) ELSE Admit(i, Route(i, h, previous))
     /\ UNCHANGED now

\* Mutation: a late report revives the lease.
ReportedReviving(d, o) ==
  [Swept EXCEPT ![d].outcome = o,
                ![d].status = IF rows[d].status = "active" THEN "released" ELSE @]

\* The report ends a lease that is still active.
Reported(d, o) ==
  [Swept EXCEPT ![d].outcome = o,
                ![d].status = IF @ = "active" THEN "released" ELSE @]

\* The same outcome again is answered again, another one is refused.
Accepts(d, o) == rows[d].outcome \in {"", o}

RouteFeedback(d, s, o) ==
  /\ d \in kept
  /\ rows[d].request.session = s
  /\ Accepts(d, o)
  /\ rows' = IF rows[d].outcome = "" THEN Reported(d, o) ELSE Swept
  /\ answer' = NoAnswer
  /\ UNCHANGED <<now, issued, kept>>

\* reconcile_route_session: what the session does not retain is released.
RouteReconcile(s, retained) ==
  LET owned == {d \in kept : rows[d].request.session = s}
  IN /\ retained \subseteq owned
     /\ rows' = [d \in Ids |->
          IF d \in (owned \cap Active(Swept)) \ retained
            THEN [Swept[d] EXCEPT !.status = "reconciled"] ELSE Swept[d]]
     /\ answer' = NoAnswer
     /\ UNCHANGED <<now, issued, kept>>

\* route_status expires before it counts.
RouteStatus ==
  /\ rows' = Swept
  /\ answer' = NoAnswer
  /\ UNCHANGED <<now, issued, kept>>

Prunable(d) == Swept[d].status # "active" /\ rows[d].created + Retention < now

\* JobStore.prune, as far as it touches this table
Prune ==
  /\ rows' = Swept
  /\ kept' = {d \in kept : ~Prunable(d)}
  /\ answer' = NoAnswer
  /\ UNCHANGED <<now, issued>>

Tick ==
  /\ now < MaxTime
  /\ now' = now + 1
  /\ answer' = NoAnswer
  /\ UNCHANGED <<issued, rows, kept>>

Decides == \E i \in Intents, s \in Session \cup {""}, p \in Ids \cup {0}, h \in Snapshots :
             RouteDecide(i, s, p, h)
Reports == \E d \in Ids, s \in Session, o \in Outcome : RouteFeedback(d, s, o)
Reconciles == \E s \in Session, retained \in SUBSET Ids : RouteReconcile(s, retained)

Next == Decides \/ Reports \/ Reconciles \/ RouteStatus \/ Prune \/ Tick

Spec == Init /\ [][Next]_vars

-----------------------------------------------------------------------------
(* Safety.                                                                 *)

\* Native workers that may run at the same time never exceed the machine-wide
\* limit, whatever sessions report, reconcile, repeat or forget.
LeasesWithinLimit == Cardinality(Active(rows)) <= Limit

\* Work is refused a native worker only while the limit is taken by leases
\* that have not run out: a caller that never returns costs its lease's time
\* and no more.
DeniedOnlyWhenFull ==
  answer.reason = "full" =>
    Cardinality({d \in Active(rows) : rows[d].expires > now}) >= Limit

\* Both together: the limit is used in full and not exceeded.
LimitIsExact == LeasesWithinLimit /\ DeniedOnlyWhenFull

\* c escalates p, which is no escalation itself, to another provider.
Escalation(c, p) ==
  /\ p < c
  /\ rows[p].request.parent = 0
  /\ rows[p].request.session = rows[c].request.session
  /\ rows[p].mode # "shadow"
  /\ rows[p].outcome = "escalated"
  /\ rows[c].provider # "" => rows[c].provider # rows[p].provider

\* An enforced decision that its own caller reported as escalated has at most
\* one child, ever: not after a lost answer, not after the child or the parent
\* has been pruned; the child has none and goes to another provider.
EscalatesOnce ==
  /\ \A c \in Ids : rows[c].request.parent # 0 => Escalation(c, rows[c].request.parent)
  /\ \A c, d \in Ids : (rows[c].request.parent # 0
       /\ rows[c].request.parent = rows[d].request.parent) => c = d

\* route_status divides the reported native decisions by those whose lease has
\* ended: every reported one is among them, so the join rate is a share; and
\* every native decision had a lease, so none is missing below.
JoinRateIsShare ==
  \A d \in kept : rows[d].lane = "native_subagent" =>
    /\ rows[d].status # "none"
    /\ rows[d].outcome # "" => rows[d].status # "active"

-----------------------------------------------------------------------------
(* The inductive invariant.                                                *)

\* A lease belongs to a retained native decision without a report, and ends
\* within its time to live.
LeaseIsBounded ==
  \A d \in Ids :
    /\ rows[d].created <= now
    /\ rows[d].status = "active" =>
         /\ d \in kept
         /\ rows[d].lane = "native_subagent"
         /\ rows[d].outcome = ""
         /\ rows[d].expires = rows[d].created + TTL

\* A child is younger than its parent and is not pruned before it, which is
\* why a repeated escalation finds it as long as it finds the parent.
ChildOutlivesParent ==
  \A c \in Ids :
    /\ rows[c].hop = (IF rows[c].request.parent = 0 THEN 0 ELSE 1)
    /\ rows[c].request.parent # 0 =>
         /\ rows[rows[c].request.parent].created <= rows[c].created
         /\ rows[c].request.parent \in kept => c \in kept

LedgerInv ==
  /\ TypeOK
  /\ LeasesWithinLimit
  /\ EscalatesOnce
  /\ JoinRateIsShare
  /\ LeaseIsBounded
  /\ ChildOutlivesParent

-----------------------------------------------------------------------------
(* Action properties.                                                      *)

\* What a decision's lease and outcome may do in one step.  A lease that has
\* ended stays as it ended, although reports and expiry race; it ends as
\* expired only when its time is over, and as released only with the report.
\* Retention spares active leases and nothing comes back after it.
LeaseStep(d) ==
  LET old == rows[d]
      new == rows'[d]
  IN /\ old.outcome # "" => new.outcome = old.outcome
     /\ old.status # "active" => new.status = old.status
     /\ (old.status = "active" /\ new.status = "expired") => old.expires <= now
     /\ (old.status = "active" /\ new.status = "released") =>
          new.outcome # "" /\ now < old.expires
     /\ d \notin kept' => new.status # "active"
     /\ d \notin kept => d \notin kept' /\ new = old

LeasesEndOnce == [][\A d \in Ids : d <= issued => LeaseStep(d)]_vars
=============================================================================
