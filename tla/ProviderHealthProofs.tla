------------------------ MODULE ProviderHealthProofs ------------------------
(***************************************************************************)
(* Proofs about ProviderHealth, for every number of windows, every load,   *)
(* cooldown, staleness and refresh interval, and every length of time.     *)
(***************************************************************************)
EXTENDS ProviderHealth, TLAPS

(***************************************************************************)
(* What evaluate_health returns, case by case.                             *)
(***************************************************************************)

\* Every evaluation is one of the six states.
LEMMA EvaluatedInStates ==
  ASSUME NEW previous, NEW cooldown
  PROVE  Evaluated(previous, cooldown) \in States
BY DEF Evaluated, States

\* A running cooldown hides the telemetry, and nothing else is a rate limit.
LEMMA EvaluatedCooling ==
  ASSUME NEW previous, NEW cooldown
  PROVE  Evaluated(previous, cooldown) = "rate_limited" <=> cooldown > now
BY DEF Evaluated

\* With evidence and no cooldown, use and pressure decide.
LEMMA EvaluatedByEvidence ==
  ASSUME NEW previous, NEW cooldown, ~(cooldown > now), Evidence
  PROVE  Evaluated(previous, cooldown) =
           IF Exhausted(previous) THEN "exhausted"
           ELSE IF Pressured(previous) THEN "pressured" ELSE "available"
<1>1. Present # {} /\ ~(Usable = {} \/ ~Fresh)
  BY DEF Evidence, Usable
<1> QED
  BY <1>1 DEF Evaluated

\* The slots granted are within the provider's limit, and there are none only
\* for a rate limit.
LEMMA SlotsInRange ==
  ASSUME NEW state
  PROVE  /\ Slots(state) \in 0..Limit
         /\ Slots(state) = 0 <=> Dynamic /\ state = "rate_limited"
<1>1. Limit \in Nat \ {0}
  BY HealthAssumption
<1> QED
  BY <1>1 DEF Slots
(***************************************************************************)
(* What a refresh keeps, whoever asks for it.                              *)
(***************************************************************************)

Refresh == row' = Refreshed /\ history' = Seen /\ UNCHANGED <<now, file>>

LEMMA RefreshKeeps ==
  ASSUME TypeOK, RowInv, Refresh
  PROVE  /\ row' \in [state : States, cooldown : Nat]
         /\ history' \in [until : Nat, high : BOOLEAN]
         /\ history'.until = history.until
         /\ row'.state = "rate_limited" <=> now < history.until
         /\ RowInv'
<1> DEFINE state == Evaluated(row.state, row.cooldown)
           rest == IF row.cooldown > now THEN row.cooldown ELSE 0
<1>1. /\ now \in Nat /\ now' = now
      /\ row.cooldown \in Nat
      /\ history.until \in Nat
  BY DEF TypeOK, Refresh
<1>2. row' = [state |-> state, cooldown |-> rest]
  BY DEF Refresh, Refreshed
<1>3. state \in States
  BY EvaluatedInStates
<1>4. rest \in Nat
  BY <1>1
<1>5. row'.state = state /\ row'.cooldown = rest
  BY <1>2
<1>6. state = "rate_limited" <=> row.cooldown > now
  BY EvaluatedCooling
<1>7. history'.until = history.until
  BY DEF Refresh, Seen
<1>8. row.cooldown > now <=> now < history.until
  BY <1>1 DEF RowInv
<1>9. row'.cooldown <= history'.until
  BY <1>1, <1>5, <1>7 DEF RowInv
<1>10. now' < history'.until => row'.cooldown = history'.until /\ row'.state = "rate_limited"
  BY <1>1, <1>5, <1>6, <1>7, <1>8 DEF RowInv
<1>11. history' \in [until : Nat, high : BOOLEAN]
  <2>1. history' = [until |-> history.until,
                    high |-> Remembered(history.high, PressureFrom(PressureEnter),
                                        PressureOver(PressureExit))]
    BY DEF Refresh, Seen
  <2>2. \A a, b, c : Remembered(a, b, c) \in BOOLEAN
    BY DEF Remembered
  <2> QED
    BY <1>1, <2>1, <2>2
<1>12. ASSUME history'.high
       PROVE  row'.state \in {"pressured", "rate_limited", "exhausted"}
  <2>1. Remembered(history.high, PressureFrom(PressureEnter), PressureOver(PressureExit))
    BY <1>12 DEF Refresh, Seen
  <2>2. CASE row.cooldown > now
    BY <1>5, <1>6, <2>2
  <2>3. CASE ~(row.cooldown > now)
    <3>1. Evidence /\ (PressureFrom(PressureEnter) \/ (history.high /\ PressureOver(PressureExit)))
      BY <2>1, <2>3 DEF Remembered
    <3>2. history.high => row.state \in {"pressured", "rate_limited", "exhausted"}
      BY DEF RowInv
    <3>3. Pressured(row.state)
      BY <3>1, <3>2 DEF Pressured
    <3>4. state = IF Exhausted(row.state) THEN "exhausted" ELSE "pressured"
      BY <2>3, <3>1, <3>3, EvaluatedByEvidence
    <3> QED
      BY <1>5, <3>4
  <2> QED
    BY <2>2, <2>3
<1> QED
  BY <1>2, <1>3, <1>4, <1>5, <1>6, <1>7, <1>8, <1>9, <1>10, <1>11, <1>12 DEF RowInv

(***************************************************************************)
(* The inductive invariant.                                                *)
(***************************************************************************)

LEMMA HealthInit == Init => HealthInv
<1> SUFFICES ASSUME Init PROVE HealthInv
  OBVIOUS
<1>1. TypeOK
  <2>1. MaxTime \in Nat /\ Limit \in Nat \ {0}
    BY HealthAssumption
  <2>2. now \in 0..MaxTime
    BY <2>1 DEF Init
  <2>3. file \in [Windows -> Sample \cup {NoSample}]
    BY DEF Init
  <2>4. row \in [state : States, cooldown : Nat]
    BY DEF Init, States
  <2>5. snapshot \in [state : States \cup {"none"}, refreshAt : Nat]
    BY DEF Init
  <2>6. answer \in [by : {"nobody", "route", "scheduler"}, state : States, slots : 0..Limit]
    BY <2>1 DEF Init, NoAnswer, States
  <2>7. history \in [until : Nat, high : BOOLEAN]
    BY DEF Init
  <2> QED
    BY <2>2, <2>3, <2>4, <2>5, <2>6, <2>7 DEF TypeOK
<1>2. RowInv
  BY DEF Init, RowInv
<1>3. SnapshotInv
  BY DEF Init, SnapshotInv
<1> QED
  BY <1>1, <1>2, <1>3 DEF HealthInv

\* The environment's actions and a restart touch neither the row nor what is
\* remembered; the clock and an invalidated snapshot only make less due.
LEMMA QuietKeeps ==
  ASSUME HealthInv, Captures \/ Unreadable \/ Tick \/ Restart
  PROVE  /\ UNCHANGED <<row, history>>
         /\ answer' = NoAnswer
         /\ HealthInv'
<1> USE DEF HealthInv
<1>1. UNCHANGED <<row, history>> /\ answer' = NoAnswer
  BY DEF Captures, Capture, Unreadable, Tick, Restart
<1>2. /\ now \in Nat /\ now' \in 0..MaxTime /\ now <= now'
      /\ history.until \in Nat
  <2>1. MaxTime \in Nat
    BY HealthAssumption
  <2>2. now \in 0..MaxTime /\ history.until \in Nat
    BY DEF TypeOK
  <2>3. now' = now \/ (now < MaxTime /\ now' = now + 1)
    BY DEF Captures, Capture, Unreadable, Tick, Restart
  <2> QED
    BY <2>1, <2>2, <2>3
<1>3. snapshot' = snapshot \/ snapshot' = [state |-> "none", refreshAt |-> 0]
  BY DEF Captures, Capture, Unreadable, Tick, Restart
<1>4. file' \in [Windows -> Sample \cup {NoSample}]
  <2>1. CASE Captures
    <3>1. PICK w \in Windows, l \in Loads, p \in Periods : Capture(w, l, p)
      BY <2>1 DEF Captures
    <3>2. /\ l \in [used : 0..100, pressure : 0..100]
          /\ p \in Nat
      BY HealthAssumption
    <3>3. now + p \in Nat
      BY <1>2, <3>2
    <3>4. [used |-> l.used, pressure |-> l.pressure,
           captured |-> now, resets |-> now + p] \in Sample
      BY <1>2, <3>2, <3>3 DEF Sample
    <3> QED
      BY <3>1, <3>4 DEF Capture, TypeOK
  <2>2. CASE Unreadable
    BY <2>2 DEF Unreadable
  <2>3. CASE Tick \/ Restart
    BY <2>3 DEF Tick, Restart, TypeOK
  <2> QED
    BY <2>1, <2>2, <2>3
<1>5. snapshot' \in [state : States \cup {"none"}, refreshAt : Nat]
  BY <1>3 DEF TypeOK
<1>6. answer' \in [by : {"nobody", "route", "scheduler"}, state : States, slots : 0..Limit]
  <2>1. Limit \in Nat
    BY HealthAssumption
  <2> QED
    BY <1>1, <2>1 DEF NoAnswer, States
<1>7. TypeOK'
  BY <1>1, <1>2, <1>4, <1>5, <1>6 DEF TypeOK
<1>8. RowInv'
  <2>1. MaxTime \in Nat
    BY HealthAssumption
  <2> QED
    BY <1>1, <1>2, <2>1 DEF RowInv
<1>9. SnapshotInv'
  <2>1. MaxTime \in Nat /\ now' \in Nat
    BY <1>2, HealthAssumption
  <2>2. snapshot.refreshAt \in Nat
    BY DEF TypeOK
  <2>3. CASE snapshot' = snapshot
    BY <1>1, <1>2, <2>1, <2>2, <2>3 DEF SnapshotInv
  <2>4. CASE snapshot' = [state |-> "none", refreshAt |-> 0]
    BY <2>1, <2>4 DEF SnapshotInv
  <2> QED
    BY <1>3, <2>3, <2>4
<1> QED
  BY <1>1, <1>7, <1>8, <1>9

\* A refresh, with the snapshot left as it was or renewed from the row.
LEMMA RefreshStep ==
  ASSUME HealthInv, Refresh,
         \/ snapshot' = snapshot
         \/ Dynamic /\ snapshot' = [state |-> row'.state, refreshAt |-> now + RefreshEvery],
         answer' \in [by : {"nobody", "route", "scheduler"}, state : States, slots : 0..Limit]
  PROVE  HealthInv'
<1>1. TypeOK /\ RowInv /\ SnapshotInv
  BY DEF HealthInv
<1>2. /\ row' \in [state : States, cooldown : Nat]
      /\ history' \in [until : Nat, high : BOOLEAN]
      /\ history'.until = history.until
      /\ row'.state = "rate_limited" <=> now < history.until
      /\ RowInv'
  BY <1>1, RefreshKeeps
<1>3. now \in Nat /\ now' = now /\ file' = file /\ history.until \in Nat
  BY <1>1 DEF TypeOK, Refresh
<1>4. RefreshEvery \in Nat
  BY HealthAssumption
<1>5. snapshot' \in [state : States \cup {"none"}, refreshAt : Nat]
  <2>1. now + RefreshEvery \in Nat
    BY <1>3, <1>4
  <2>2. row'.state \in States
    BY <1>2
  <2> QED
    BY <1>1, <2>1, <2>2 DEF TypeOK
<1>6. TypeOK'
  BY <1>1, <1>2, <1>3, <1>5 DEF TypeOK
<1>7. SnapshotInv'
  <2>1. CASE snapshot' = snapshot
    BY <1>1, <1>2, <1>3, <2>1 DEF SnapshotInv
  <2>2. CASE snapshot' = [state |-> row'.state, refreshAt |-> now + RefreshEvery]
    <3>1. snapshot'.state = row'.state /\ snapshot'.refreshAt = now + RefreshEvery
      BY <2>2
    <3>2. now < history.until => now + RefreshEvery < history.until + RefreshEvery
      BY <1>3, <1>4
    <3>3. row'.state # "none"
      BY <1>2 DEF States
    <3> QED
      BY <1>2, <1>3, <3>1, <3>2, <3>3 DEF SnapshotInv
  <2> QED
    BY <2>1, <2>2
<1> QED
  BY <1>2, <1>6, <1>7 DEF HealthInv

\* A recorded rate limit begins or extends a cooldown and invalidates the
\* snapshot.
LEMMA FailureKeeps ==
  ASSUME HealthInv, Failures
  PROVE  HealthInv' /\ answer' = NoAnswer
<1>1. PICK c \in Cooldowns : RateLimited(c)
  BY DEF Failures
<1> DEFINE end == now + c
<1>2. TypeOK /\ RowInv /\ SnapshotInv
  BY DEF HealthInv
<1>3. c \in Nat /\ c > 0 /\ now \in Nat /\ end \in Nat /\ now < end
  BY <1>2, HealthAssumption DEF TypeOK
<1>4. /\ row' = [state |-> "rate_limited", cooldown |-> Larger(row.cooldown, end)]
      /\ snapshot' = [snapshot EXCEPT !.refreshAt = 0]
      /\ history' = [history EXCEPT !.until = Larger(history.until, end)]
      /\ answer' = NoAnswer
      /\ now' = now /\ file' = file
  BY <1>1 DEF RateLimited, Recorded
<1>5. row.cooldown \in Nat /\ history.until \in Nat
  BY <1>2 DEF TypeOK
<1>6. Larger(row.cooldown, end) = Larger(history.until, end)
  BY <1>2, <1>3, <1>5 DEF Larger, RowInv
<1>7. Larger(history.until, end) \in Nat
  BY <1>3, <1>5 DEF Larger
<1>8. row'.state = "rate_limited" /\ row'.cooldown = Larger(history.until, end)
  BY <1>4, <1>6
<1>9. history'.until = Larger(history.until, end)
  BY <1>2, <1>4 DEF TypeOK
<1>10. TypeOK'
  <2>1. row' \in [state : States, cooldown : Nat]
    BY <1>4, <1>6, <1>7 DEF States
  <2>2. snapshot' \in [state : States \cup {"none"}, refreshAt : Nat]
    BY <1>2, <1>4 DEF TypeOK
  <2>3. history' \in [until : Nat, high : BOOLEAN]
    BY <1>2, <1>4, <1>7 DEF TypeOK
  <2>4. Limit \in Nat
    BY HealthAssumption
  <2>5. answer' \in [by : {"nobody", "route", "scheduler"}, state : States, slots : 0..Limit]
    BY <1>4, <2>4 DEF NoAnswer, States
  <2> QED
    BY <1>2, <1>4, <2>1, <2>2, <2>3, <2>5 DEF TypeOK
<1>11. RowInv'
  BY <1>7, <1>8, <1>9 DEF RowInv
<1>12. SnapshotInv'
  <2>1. snapshot'.refreshAt = 0
    BY <1>2, <1>4 DEF TypeOK
  <2>2. RefreshEvery \in Nat \ {0}
    BY HealthAssumption
  <2> QED
    BY <1>3, <1>4, <1>7, <1>9, <2>1, <2>2 DEF SnapshotInv
<1> QED
  BY <1>4, <1>10, <1>11, <1>12 DEF HealthInv

\* The answer of a step that refreshes.
LEMMA RefreshState ==
  ASSUME HealthInv, Refresh
  PROVE  /\ row'.state \in States
         /\ row'.state = "rate_limited" <=> now < history.until
         /\ history'.until = history.until /\ now' = now
BY RefreshKeeps DEF HealthInv, Refresh

\* A pass that is not due only looks at the snapshot.
LEMMA PassStep ==
  ASSUME HealthInv, Pass
  PROVE  \/ /\ Refresh
            /\ \/ snapshot' = snapshot
               \/ Dynamic /\ snapshot' = [state |-> row'.state, refreshAt |-> now + RefreshEvery]
            /\ answer' = [by |-> "scheduler", state |-> row'.state, slots |-> Slots(row'.state)]
         \/ /\ Dynamic /\ now < snapshot.refreshAt
            /\ answer' = [by |-> "scheduler", state |-> snapshot.state,
                          slots |-> Slots(snapshot.state)]
            /\ UNCHANGED <<now, file, row, snapshot, history>>
<1>1. CASE ~Dynamic \/ Due
  BY <1>1 DEF Pass, Refresh
<1>2. CASE ~(~Dynamic \/ Due)
  <2>1. now \in Nat /\ snapshot.refreshAt \in Nat
    BY DEF HealthInv, TypeOK
  <2>2. now < snapshot.refreshAt
    BY <1>2, <2>1 DEF Due
  <2> QED
    BY <1>2, <2>2 DEF Pass
<1> QED
  BY <1>1, <1>2

\* Every step keeps the invariant.
LEMMA HealthStep == HealthInv /\ [Next]_vars => HealthInv'
<1> SUFFICES ASSUME HealthInv, [Next]_vars PROVE HealthInv'
  OBVIOUS
<1>1. CASE Captures \/ Unreadable \/ Tick \/ Restart
  BY <1>1, QuietKeeps
<1>2. CASE Failures
  BY <1>2, FailureKeeps
<1>3. Limit \in Nat
  BY HealthAssumption
<1>4. CASE RouteDecide
  <2>1. Refresh /\ snapshot' = snapshot
        /\ answer' = [by |-> "route", state |-> row'.state, slots |-> 0]
    BY <1>4 DEF RouteDecide, Refresh
  <2>2. row'.state \in States
    BY <2>1, RefreshState
  <2>3. answer' \in [by : {"nobody", "route", "scheduler"}, state : States, slots : 0..Limit]
    BY <1>3, <2>1, <2>2
  <2> QED
    BY <2>1, <2>3, RefreshStep
<1>5. CASE RouteStatus
  <2>1. /\ Refresh
        /\ \/ snapshot' = snapshot
           \/ Dynamic /\ snapshot' = [state |-> row'.state, refreshAt |-> now + RefreshEvery]
        /\ answer' = [by |-> "route", state |-> row'.state, slots |-> 0]
    BY <1>5 DEF RouteStatus, Refresh
  <2>2. row'.state \in States
    BY <2>1, RefreshState
  <2>3. answer' \in [by : {"nobody", "route", "scheduler"}, state : States, slots : 0..Limit]
    BY <1>3, <2>1, <2>2
  <2> QED
    BY <2>1, <2>3, RefreshStep
<1>6. CASE Pass
  <2>1. CASE /\ Refresh
             /\ \/ snapshot' = snapshot
                \/ Dynamic /\ snapshot' = [state |-> row'.state, refreshAt |-> now + RefreshEvery]
             /\ answer' = [by |-> "scheduler", state |-> row'.state, slots |-> Slots(row'.state)]
    <3>1. row'.state \in States
      BY <2>1, RefreshState
    <3>2. Slots(row'.state) \in 0..Limit
      BY SlotsInRange
    <3>3. answer' \in [by : {"nobody", "route", "scheduler"}, state : States, slots : 0..Limit]
      BY <2>1, <3>1, <3>2
    <3> QED
      BY <2>1, <3>3, RefreshStep
  <2>2. CASE /\ Dynamic /\ now < snapshot.refreshAt
             /\ answer' = [by |-> "scheduler", state |-> snapshot.state,
                           slots |-> Slots(snapshot.state)]
             /\ UNCHANGED <<now, file, row, snapshot, history>>
    <3>1. snapshot.state \in States
      BY <2>2 DEF HealthInv, SnapshotInv, TypeOK
    <3>2. Slots(snapshot.state) \in 0..Limit
      BY SlotsInRange
    <3>3. answer' \in [by : {"nobody", "route", "scheduler"}, state : States, slots : 0..Limit]
      BY <2>2, <3>1, <3>2
    <3>4. TypeOK'
      BY <2>2, <3>3 DEF HealthInv, TypeOK
    <3>5. RowInv' /\ SnapshotInv'
      BY <2>2 DEF HealthInv, RowInv, SnapshotInv
    <3> QED
      BY <3>4, <3>5 DEF HealthInv
  <2> QED
    BY <1>6, <2>1, <2>2, PassStep
<1>7. CASE UNCHANGED vars
  BY <1>7 DEF vars, HealthInv, TypeOK, RowInv, SnapshotInv, Usable, Present, Fresh
<1> QED
  BY <1>1, <1>2, <1>4, <1>5, <1>6, <1>7 DEF Next

(***************************************************************************)
(* The theorems.                                                           *)
(***************************************************************************)

\* The row and the snapshot retain what the past requires.
THEOREM HealthInvariantHolds == Spec => []HealthInv
<1>1. Init => HealthInv
  BY HealthInit
<1>2. HealthInv /\ [Next]_vars => HealthInv'
  BY HealthStep
<1> QED
  BY <1>1, <1>2, PTL DEF Spec

\* The health of a provider is one of the six states, and no pass grants more
\* slots than the provider has.
THEOREM HealthTypeCorrect == Spec => []TypeOK
<1>1. HealthInv => TypeOK
  BY DEF HealthInv
<1> QED
  BY <1>1, HealthInvariantHolds, PTL

\* Pressure seen before a cooldown is remembered after it.
THEOREM PressureIsRemembered == Spec => []PressureOutlivesCooldown
<1>1. HealthInv => PressureOutlivesCooldown
  BY DEF HealthInv, RowInv, PressureOutlivesCooldown
<1> QED
  BY <1>1, HealthInvariantHolds, PTL

\* A cooldown lasts until the latest end any failure announced.
THEOREM CooldownIsKept == Spec => []CooldownKept
<1>1. Init => CooldownKept
  BY DEF Init, CooldownKept
<1>2. ASSUME HealthInv, HealthInv', CooldownKept, [Next]_vars
      PROVE  CooldownKept'
  <2>1. now' < history'.until =>
          row'.cooldown = history'.until /\ row'.state = "rate_limited"
    BY <1>2 DEF HealthInv, RowInv
  <2>2. CASE Captures \/ Unreadable \/ Tick \/ Restart \/ Failures
    <3>1. answer'.by # "route"
      BY <1>2, <2>2, QuietKeeps, FailureKeeps DEF NoAnswer
    <3> QED
      BY <2>1, <3>1 DEF CooldownKept
  <2>3. CASE RouteDecide \/ RouteStatus
    <3>1. answer'.state = row'.state
      BY <2>3 DEF RouteDecide, RouteStatus
    <3> QED
      BY <2>1, <3>1 DEF CooldownKept
  <2>4. CASE Pass
    <3>1. answer'.by # "route"
      BY <2>4 DEF Pass
    <3> QED
      BY <2>1, <3>1 DEF CooldownKept
  <2>5. CASE UNCHANGED vars
    BY <1>2, <2>5 DEF vars, CooldownKept
  <2> QED
    BY <1>2, <2>2, <2>3, <2>4, <2>5 DEF Next
<1>3. HealthInv /\ CooldownKept /\ [Next]_vars => CooldownKept'
  BY <1>2, HealthStep
<1> QED
  BY <1>1, <1>3, HealthInvariantHolds, PTL DEF Spec

\* What a pass of the scheduler answers about slots, from the invariant.
LEMMA PassAnswers ==
  ASSUME HealthInv, Pass
  PROVE  /\ Dynamic /\ now' < history'.until => answer'.slots = 0
         /\ answer'.slots = 0 => now' < history'.until + RefreshEvery
<1>1. /\ now \in Nat /\ history.until \in Nat /\ snapshot.refreshAt \in Nat
      /\ RefreshEvery \in Nat \ {0}
  BY HealthAssumption DEF HealthInv, TypeOK
<1>2. CASE /\ Refresh
           /\ answer' = [by |-> "scheduler", state |-> row'.state, slots |-> Slots(row'.state)]
  <2>1. answer'.slots = Slots(row'.state)
    BY <1>2
  <2>2. answer'.slots = 0 <=> Dynamic /\ row'.state = "rate_limited"
    BY <2>1, SlotsInRange
  <2>3. /\ row'.state = "rate_limited" <=> now < history.until
        /\ history'.until = history.until /\ now' = now
    BY <1>2, RefreshState
  <2> QED
    BY <1>1, <2>2, <2>3
<1>3. CASE /\ Dynamic /\ now < snapshot.refreshAt
           /\ answer' = [by |-> "scheduler", state |-> snapshot.state,
                         slots |-> Slots(snapshot.state)]
           /\ UNCHANGED <<now, file, row, snapshot, history>>
  <2>1. answer'.slots = Slots(snapshot.state)
    BY <1>3
  <2>2. answer'.slots = 0 <=> Dynamic /\ snapshot.state = "rate_limited"
    BY <2>1, SlotsInRange
  <2>3. /\ now < history.until => snapshot.state = "rate_limited"
        /\ snapshot.state = "rate_limited" => snapshot.refreshAt < history.until + RefreshEvery
    BY <1>3 DEF HealthInv, SnapshotInv
  <2>4. now' = now /\ history'.until = history.until
    BY <1>3
  <2> QED
    BY <1>1, <1>3, <2>2, <2>3, <2>4
<1> QED
  BY <1>2, <1>3, PassStep

\* Only a pass speaks for the scheduler.
LEMMA OthersSaySomethingElse ==
  ASSUME HealthInv, Next, ~Pass
  PROVE  answer'.by # "scheduler"
<1>1. CASE Captures \/ Unreadable \/ Tick \/ Restart \/ Failures
  BY <1>1, QuietKeeps, FailureKeeps DEF NoAnswer
<1>2. CASE RouteDecide \/ RouteStatus
  BY <1>2 DEF RouteDecide, RouteStatus
<1> QED
  BY <1>1, <1>2 DEF Next

\* No pass starts a job of a provider that is cooling down.
THEOREM NoSlotsWhileCooling == Spec => []NoSlotWhileCooling
<1>1. Init => NoSlotWhileCooling
  BY DEF Init, NoAnswer, NoSlotWhileCooling
<1>2. HealthInv /\ NoSlotWhileCooling /\ [Next]_vars => NoSlotWhileCooling'
  <2> SUFFICES ASSUME HealthInv, NoSlotWhileCooling, [Next]_vars
               PROVE  NoSlotWhileCooling'
    OBVIOUS
  <2>1. CASE Pass
    BY <2>1, PassAnswers DEF NoSlotWhileCooling
  <2>2. CASE Next /\ ~Pass
    BY <2>2, OthersSaySomethingElse DEF NoSlotWhileCooling
  <2>3. CASE UNCHANGED vars
    BY <2>3 DEF vars, NoSlotWhileCooling
  <2> QED
    BY <2>1, <2>2, <2>3
<1> QED
  BY <1>1, <1>2, HealthInvariantHolds, PTL DEF Spec

\* A pass without slots is at most one refresh later than a cooldown.
THEOREM SlotsAreWithheldBriefly == Spec => []SlotsWithheldBriefly
<1>1. Init => SlotsWithheldBriefly
  BY DEF Init, NoAnswer, SlotsWithheldBriefly
<1>2. HealthInv /\ SlotsWithheldBriefly /\ [Next]_vars => SlotsWithheldBriefly'
  <2> SUFFICES ASSUME HealthInv, SlotsWithheldBriefly, [Next]_vars
               PROVE  SlotsWithheldBriefly'
    OBVIOUS
  <2>1. CASE Pass
    BY <2>1, PassAnswers DEF SlotsWithheldBriefly
  <2>2. CASE Next /\ ~Pass
    BY <2>2, OthersSaySomethingElse DEF SlotsWithheldBriefly
  <2>3. CASE UNCHANGED vars
    BY <2>3 DEF vars, SlotsWithheldBriefly
  <2> QED
    BY <2>1, <2>2, <2>3
<1> QED
  BY <1>1, <1>2, HealthInvariantHolds, PTL DEF Spec
=============================================================================
