---------------------------- MODULE ProviderHealth ----------------------------
(***************************************************************************)
(* The health of one provider: evaluate_health of                          *)
(* src/tools/agent_quota_broker.py over the telemetry that CodexBar writes, *)
(* its row in provider_health, and the snapshot of the supervisor that      *)
(* turns it into slots.  Every provider has a row of its own; quota routing *)
(* is enabled, without it nothing of this happens.                          *)
(*                                                                          *)
(* The telemetry file, the clock and the failures of running jobs are the   *)
(* environment.  A restart keeps the row and the file.  The history is not  *)
(* part of the code: it remembers what the properties ask about the past.   *)
(***************************************************************************)
EXTENDS Integers

CONSTANTS
  Windows,       \* the quota windows of the provider
  Loads,         \* bound: pairs of used percent and pressure met
  Periods,       \* bound: how long after its capture a window resets
  Cooldowns,     \* bound: cooldowns met, default or from a reset interval
  Stale,         \* quota_stale_seconds
  RefreshEvery,  \* DYNAMIC_HEALTH_REFRESH_SECONDS
  Dynamic,       \* AGENT_JOB_DYNAMIC_CONCURRENCY
  Limit,         \* the provider's slots
  MaxTime        \* bound: the clock

PressureEnter == 85
PressureExit == 70
ExhaustedEnter == 98
ExhaustedExit == 95

ASSUME HealthAssumption ==
  \* projected_percent is at least used_percent
  /\ Loads \subseteq {l \in [used : 0..100, pressure : 0..100] : l.used <= l.pressure}
  /\ Periods \subseteq Nat \ {0}
  /\ Cooldowns \subseteq Nat \ {0}
  /\ Stale \in Nat
  /\ RefreshEvery \in Nat \ {0}
  /\ Dynamic \in BOOLEAN
  /\ Limit \in Nat \ {0}
  /\ MaxTime \in Nat

VARIABLES
  now,       \* _now()
  file,      \* the latest sample of each window in the history file
  row,       \* state and cooldown_until of provider_health; 0 for no cooldown
  snapshot,  \* _capacity_health, "none" when empty, and its next refresh
  answer,    \* what the last step told a caller or the scheduler
  history    \* the latest end of a cooldown; whether it was seen high

vars == <<now, file, row, snapshot, answer, history>>

States == {"available", "pressured", "exhausted", "rate_limited", "stale", "unknown"}
NoSample == [used |-> 0, pressure |-> 0, captured |-> -1, resets |-> -1]
Sample == [used : 0..100, pressure : 0..100, captured : Nat, resets : Nat]
NoAnswer == [by |-> "nobody", state |-> "unknown", slots |-> 0]

TypeOK ==
  /\ now \in 0..MaxTime
  /\ file \in [Windows -> Sample \cup {NoSample}]
  /\ row \in [state : States, cooldown : Nat]
  /\ snapshot \in [state : States \cup {"none"}, refreshAt : Nat]
  /\ answer \in [by : {"nobody", "route", "scheduler"}, state : States, slots : 0..Limit]
  /\ history \in [until : Nat, high : BOOLEAN]

Init ==
  /\ now = 0
  /\ file = [w \in Windows |-> NoSample]
  /\ row = [state |-> "unknown", cooldown |-> 0]
  /\ snapshot = [state |-> "none", refreshAt |-> 0]
  /\ answer = NoAnswer
  /\ history = [until |-> 0, high |-> FALSE]

-----------------------------------------------------------------------------
(* The evaluation.                                                         *)

\* read_codexbar_history: windows that have been reset do not count, but the
\* freshest capture of all of them dates the telemetry.
Present == {w \in Windows : file[w] # NoSample}
Usable == {w \in Present : file[w].resets > now}
Fresh == \E w \in Present : now - file[w].captured <= Stale

UsedOver(percent) == \E w \in Usable : file[w].used > percent
UsedFrom(percent) == \E w \in Usable : file[w].used >= percent
PressureOver(percent) == \E w \in Usable : file[w].pressure > percent
PressureFrom(percent) == \E w \in Usable : file[w].pressure >= percent

Exhausted(previous) ==
  UsedFrom(ExhaustedEnter) \/ (previous = "exhausted" /\ UsedOver(ExhaustedExit))

\* Mutation: the state during a cooldown is forgotten.
PressuredForgetful(previous) ==
  \/ PressureFrom(PressureEnter)
  \/ previous \in {"pressured", "exhausted"} /\ PressureOver(PressureExit)

Pressured(previous) ==
  \/ PressureFrom(PressureEnter)
  \/ previous \in {"pressured", "rate_limited", "exhausted"} /\ PressureOver(PressureExit)

\* evaluate_health
Evaluated(previous, cooldown) ==
  IF cooldown > now THEN "rate_limited"
  ELSE IF Present = {} THEN "unknown"
  ELSE IF Usable = {} \/ ~Fresh THEN "stale"
  ELSE IF Exhausted(previous) THEN "exhausted"
  ELSE IF Pressured(previous) THEN "pressured"
  ELSE "available"

\* refresh_provider_health: the row it writes and returns
Refreshed ==
  [state |-> Evaluated(row.state, row.cooldown),
   cooldown |-> IF row.cooldown > now THEN row.cooldown ELSE 0]

Evidence == Usable # {} /\ Fresh

\* Whether something seen before still counts: a cooldown shows nothing new,
\* and without evidence nothing is known any more.
Remembered(before, enters, stays) ==
  \/ row.cooldown > now /\ before
  \/ Evidence /\ (enters \/ (before /\ stays))

\* What a refresh has seen, for the properties.
Seen ==
  [until |-> history.until,
   high |-> Remembered(history.high, PressureFrom(PressureEnter), PressureOver(PressureExit))]

-----------------------------------------------------------------------------
(* The environment.                                                        *)

Capture(w, load, period) ==
  /\ file' = [file EXCEPT ![w] = [used |-> load.used, pressure |-> load.pressure,
                                  captured |-> now, resets |-> now + period]]
  /\ answer' = NoAnswer
  /\ UNCHANGED <<now, row, snapshot, history>>

\* The file is missing or cannot be read.
Unreadable ==
  /\ file' = [w \in Windows |-> NoSample]
  /\ answer' = NoAnswer
  /\ UNCHANGED <<now, row, snapshot, history>>

Tick ==
  /\ now < MaxTime
  /\ now' = now + 1
  /\ answer' = NoAnswer
  /\ UNCHANGED <<file, row, snapshot, history>>

-----------------------------------------------------------------------------
(* The supervisor.                                                         *)

\* Mutation: a pressured provider keeps one slot less, however few it has.
SlotsZero(state) ==
  IF state = "rate_limited" THEN 0
  ELSE IF state = "pressured" THEN Limit - 1
  ELSE Limit

\* _effective_provider_limits, from the state in the snapshot
Slots(state) ==
  IF Dynamic /\ state = "rate_limited" THEN 0
  ELSE IF Dynamic /\ state = "pressured" /\ Limit > 1 THEN Limit - 1
  ELSE Limit

\* route_decide refreshes the row and leaves the snapshot of the scheduler.
RouteDecide ==
  /\ row' = Refreshed
  /\ history' = Seen
  /\ answer' = [by |-> "route", state |-> row'.state, slots |-> 0]
  /\ UNCHANGED <<now, file, snapshot>>

\* route_status refreshes both.
RouteStatus ==
  /\ row' = Refreshed
  /\ history' = Seen
  /\ snapshot' = IF Dynamic THEN [state |-> row'.state, refreshAt |-> now + RefreshEvery]
                 ELSE snapshot
  /\ answer' = [by |-> "route", state |-> row'.state, slots |-> 0]
  /\ UNCHANGED <<now, file>>

\* Mutation: the snapshot is taken once.
DueNever == snapshot.state = "none"

Due == now >= snapshot.refreshAt

\* A pass of _scheduler, up to the slots it fills: without dynamic concurrency
\* it refreshes the row at every pass.
Pass ==
  /\ IF ~Dynamic \/ Due
       THEN /\ row' = Refreshed
            /\ history' = Seen
            /\ snapshot' = IF Dynamic
                 THEN [state |-> row'.state, refreshAt |-> now + RefreshEvery] ELSE snapshot
            /\ answer' = [by |-> "scheduler", state |-> row'.state, slots |-> Slots(row'.state)]
       ELSE /\ answer' = [by |-> "scheduler", state |-> snapshot.state,
                          slots |-> Slots(snapshot.state)]
            /\ UNCHANGED <<row, history, snapshot>>
  /\ UNCHANGED <<now, file>>

Larger(a, b) == IF a >= b THEN a ELSE b

\* Mutation: the last failure decides.
RecordedLast(end) ==
  /\ row' = [state |-> "rate_limited", cooldown |-> end]
  /\ snapshot' = [snapshot EXCEPT !.refreshAt = 0]

\* record_provider_rate_limit, and the invalidation that follows it
Recorded(end) ==
  /\ row' = [state |-> "rate_limited", cooldown |-> Larger(row.cooldown, end)]
  /\ snapshot' = [snapshot EXCEPT !.refreshAt = 0]

\* A job of the provider failed by its rate limit.  Bound: the clock runs past
\* the end of every cooldown and of the snapshot that saw it last.
RateLimited(cooldown) ==
  /\ now + cooldown + RefreshEvery <= MaxTime
  /\ Recorded(now + cooldown)
  /\ history' = [history EXCEPT !.until = Larger(@, now + cooldown)]
  /\ answer' = NoAnswer
  /\ UNCHANGED <<now, file>>

\* The snapshot is lost.
Restart ==
  /\ snapshot' = [state |-> "none", refreshAt |-> 0]
  /\ answer' = NoAnswer
  /\ UNCHANGED <<now, file, row, history>>

Captures == \E w \in Windows, l \in Loads, p \in Periods : Capture(w, l, p)
Failures == \E c \in Cooldowns : RateLimited(c)

Next == Captures \/ Unreadable \/ Tick \/ RouteDecide \/ RouteStatus \/ Pass
        \/ Failures \/ Restart

Spec == Init /\ [][Next]_vars

\* The scheduler loops and time passes; nothing is assumed of callers,
\* telemetry or failures.
FairSpec == Spec /\ WF_vars(Pass) /\ WF_vars(Tick)

-----------------------------------------------------------------------------
(* Safety.                                                                 *)

\* A cooldown lasts until the latest end that any failure announced, whatever
\* refreshes, telemetry and restarts come between: repeated failures extend
\* and never shorten it.
CooldownKept ==
  now < history.until =>
    /\ row.cooldown = history.until
    /\ row.state = "rate_limited"
    /\ answer.by = "route" => answer.state = "rate_limited"

\* With dynamic concurrency no pass of the scheduler starts a job of a provider
\* that is cooling down, although it works from a snapshot that may be old.
NoSlotWhileCooling ==
  (Dynamic /\ answer.by = "scheduler" /\ now < history.until) => answer.slots = 0

\* A pass withholds all slots only during a cooldown and until the snapshot
\* that saw it is renewed.
SlotsWithheldBriefly ==
  (answer.by = "scheduler" /\ answer.slots = 0) => now < history.until + RefreshEvery

\* Pressure that was seen is remembered through a cooldown: the provider is
\* not available again before its pressure was seen at or below the exit.
PressureOutlivesCooldown == row.state = "available" => ~history.high

\* Whatever happens, the scheduler keeps being granted slots.
SlotsComeBack == []<>(answer.by = "scheduler" /\ answer.slots > 0)

\* The row knows of every cooldown that is not over, and of pressure that was
\* seen.
RowInv ==
  /\ row.cooldown <= history.until
  /\ now < history.until => row.cooldown = history.until /\ row.state = "rate_limited"
  /\ history.high => row.state \in {"pressured", "rate_limited", "exhausted"}

\* A snapshot that is not due shows every cooldown that is not over, one that
\* shows a cooldown was taken during it, and an empty one is due.
SnapshotInv ==
  /\ Dynamic =>
       /\ now < history.until /\ now < snapshot.refreshAt => snapshot.state = "rate_limited"
       /\ snapshot.state = "rate_limited" => snapshot.refreshAt < history.until + RefreshEvery
  /\ snapshot.state = "none" => snapshot.refreshAt = 0

\* The inductive invariant: what the row and the snapshot retain of the past.
HealthInv == TypeOK /\ RowInv /\ SnapshotInv
=============================================================================
