-------------------------- MODULE JobHelpersProofs --------------------------
(***************************************************************************)
(* Proofs about JobHelpers, for any checks, any number of crashes and any  *)
(* number of retries: no two checks run at the same time, no process of a  *)
(* check is left behind but by the two ways the cleanup cannot follow, and *)
(* no session but by a cleanup that was refused, cut short or too early.   *)
(***************************************************************************)
EXTENDS JobHelpers, TLAPS

Before == {"running", "terminating", "stopping"}

\* What the steps need to know of the values.
HelperTypeOK ==
  /\ group \subseteq {"provider", "server"}
  /\ procs \in [Checks -> SUBSET {"leader", "others"}]
  /\ record \in [Checks -> BOOLEAN]
  /\ DOMAIN stage = Checks
  /\ stage \in [Checks -> {"none", "waiting", "answered"} \cup Running]
  /\ runtime \in BOOLEAN
  /\ kind \in {"native", "cao"}

\* One thread has the lock, and only that one has a process, while it is
\* between the start and the kill.
LockInv ==
  /\ \A c, d \in Checks : stage[c] \in Running /\ stage[d] \in Running => c = d
  /\ \A c \in Checks : procs[c] # {} => stage[c] \in {"spawned", "active", "polling", "stopping"}

\* Until the cleanup, a check that is polled has a record; what the server left
\* behind is lost, or recorded until the cleanup comes to it.
CleanupInv ==
  /\ host \in Before => runtime
  /\ host \in Before => \A c \in Checks : stage[c] \in {"polling", "stopping"} => record[c]
  /\ host \in {"orphans", "reaping"} => ~runtime
  /\ ~Alive("server") =>
       \A c \in Checks : procs[c] # {} =>
         c \in escaped \/ (record[c] /\ host \in {"cleaning", "down", "stale"})

\* Only the bridge has a session.
SessionInv ==
  /\ kind = "native" => session = "none" /\ ~inFlight
  /\ SessionIsRemoved

\* The inductive invariant.
HelperInv == HelperTypeOK /\ LockInv /\ CleanupInv /\ SessionInv

------------------------------------------------------------------------------
LEMMA InitHolds == Init => HelperInv
<1> SUFFICES ASSUME Init PROVE HelperInv
  OBVIOUS
<1>1. HelperTypeOK
  BY DEF Init, HostInit, CheckInit, HelperTypeOK
<1>2. LockInv
  BY DEF Init, CheckInit, LockInv, Running
<1>3. CleanupInv
  BY DEF Init, HostInit, CheckInit, CleanupInv, Before
<1>4. SessionInv
  BY DEF Init, BridgeInit, SessionInv, SessionIsRemoved
<1> QED BY <1>1, <1>2, <1>3, <1>4 DEF HelperInv

\* A step of a thread keeps the types and the lock.
LEMMA CheckStepKeepsLock ==
  ASSUME NEW c \in Checks, HelperTypeOK, LockInv, CheckStep(c)
  PROVE  HelperTypeOK' /\ LockInv'
<1> USE DEF HelperTypeOK, LockInv, Thread, hostVars
<1>1. CASE Ask(c)
  BY <1>1 DEF Ask, Running
<1>2. CASE Enter(c)
  BY <1>2 DEF Enter, LockFree, Running
<1>3. CASE Spawn(c)
  BY <1>3 DEF Spawn, Running
<1>4. CASE SetActive(c)
  BY <1>4 DEF SetActive, Running
<1>5. CASE Record(c)
  BY <1>5 DEF Record, Running
<1>6. CASE StopPolling(c)
  BY <1>6 DEF StopPolling, Running
<1>7. CASE Kill(c)
  BY <1>7 DEF Kill, GroupKilled, Running
<1>8. CASE Finish(c)
  BY <1>8 DEF Finish, Running
<1>9. CASE Fork(c)
  BY <1>9 DEF Fork, Running
<1>10. CASE LeaderEnds(c)
  BY <1>10 DEF LeaderEnds, Running
<1> QED BY <1>1, <1>2, <1>3, <1>4, <1>5, <1>6, <1>7, <1>8, <1>9, <1>10 DEF CheckStep

\* A step of a thread keeps what the cleanup relies on: with the server alive,
\* only a check without a runtime directory goes on without a record.
LEMMA CheckStepKeepsCleanup ==
  ASSUME NEW c \in Checks, HelperTypeOK, CleanupInv, CheckStep(c)
  PROVE  CleanupInv'
<1>1. UNCHANGED <<hostVars, runtime, escaped>>
  BY DEF CheckStep, Ask, Enter, Spawn, SetActive, Record, StopPolling, Kill, Finish, Fork,
         LeaderEnds, Thread
<1>2. CASE Fork(c) \/ LeaderEnds(c)
  <2>1. \A d \in Checks : procs'[d] # {} => procs[d] # {}
    BY <1>2 DEF Fork, LeaderEnds, HelperTypeOK
  <2>2. UNCHANGED <<stage, record>>
    BY <1>2 DEF Fork, LeaderEnds
  <2> QED BY <1>1, <2>1, <2>2 DEF CleanupInv, Before, Alive, hostVars
<1>3. CASE ~(Fork(c) \/ LeaderEnds(c))
  <2>1. Alive("server")
    BY <1>3 DEF CheckStep, Ask, Enter, Spawn, SetActive, Record, StopPolling, Kill, Finish, Thread
  <2>2. host \in Before => \A d \in Checks : stage'[d] \in {"polling", "stopping"} => record'[d]
    <3> SUFFICES ASSUME host \in Before, NEW d \in Checks, stage'[d] \in {"polling", "stopping"}
                 PROVE  record'[d]
      OBVIOUS
    <3>1. runtime
      BY DEF CleanupInv
    <3>2. CASE Record(c)
      BY <3>1, <3>2 DEF Record, Thread, HelperTypeOK, CleanupInv
    <3>3. CASE Finish(c)
      BY <3>3 DEF Finish, Thread, HelperTypeOK, CleanupInv
    <3>4. CASE StopPolling(c)
      BY <3>4 DEF StopPolling, Thread, HelperTypeOK, CleanupInv
    <3>5. CASE Ask(c) \/ Enter(c) \/ Spawn(c) \/ SetActive(c) \/ Kill(c)
      BY <3>1, <3>5 DEF Ask, Enter, Spawn, SetActive, Kill, Thread, HelperTypeOK, CleanupInv
    <3> QED BY <1>3, <3>2, <3>3, <3>4, <3>5 DEF CheckStep
  <2> QED BY <1>1, <2>1, <2>2 DEF CleanupInv, Before, Alive, hostVars
<1> QED BY <1>2, <1>3

\* A signal or the end of the provider stops the active check; the server ends
\* when its threads have.
LEMMA ServerStepKeeps ==
  ASSUME HelperTypeOK, LockInv, CleanupInv, ServerStep
  PROVE  HelperTypeOK' /\ LockInv' /\ CleanupInv'
<1>1. UNCHANGED <<stage, record, runtime, escaped, host>>
  BY DEF ServerStep, OnSigterm, ParentGone, StdinEnds, ServerExits, checkVars, hostVars
<1>2. \A d \in Checks : procs'[d] \in {procs[d], {}}
  BY DEF ServerStep, OnSigterm, ParentGone, StdinEnds, ServerExits, ActiveStopped, GroupKilled,
         checkVars, HelperTypeOK
<1>2a. procs' \in [Checks -> SUBSET {"leader", "others"}]
  BY DEF ServerStep, OnSigterm, ParentGone, StdinEnds, ServerExits, ActiveStopped, GroupKilled,
         checkVars, HelperTypeOK
<1>3. group' \subseteq group /\ HelperTypeOK'
  BY <1>1, <1>2a DEF ServerStep, OnSigterm, ParentGone, StdinEnds, ServerExits, Leaves, hostVars, HelperTypeOK
<1>4. LockInv'
  BY <1>1, <1>2 DEF LockInv
<1>5. ~Alive("server")' => \A d \in Checks : procs'[d] # {} => ~Alive("server") /\ procs[d] # {}
  <2>1. CASE ServerExits
    BY <2>1, <1>2 DEF ServerExits, LockInv, checkVars
  <2>2. CASE ~ServerExits
    <3>1. group' = group
      BY <2>2 DEF ServerStep, OnSigterm, ParentGone, StdinEnds, hostVars
    <3> QED BY <3>1, <1>2 DEF Alive
  <2> QED BY <2>1, <2>2
<1>6. CleanupInv'
  BY <1>1, <1>5 DEF CleanupInv, Before
<1> QED BY <1>3, <1>4, <1>6

\* The cleanup kills what a record leads to, and counts what it does not.
LEMMA CleanupStepKeeps ==
  ASSUME HelperTypeOK, LockInv, CleanupInv, CleanupStep
  PROVE  HelperTypeOK' /\ LockInv' /\ CleanupInv'
<1>1. CASE Reap
  <2>1. HelperTypeOK' /\ UNCHANGED <<stage, group, runtime>>
    BY <1>1 DEF Reap, Reaped, HelperTypeOK
  <2>2. \A d \in Checks : procs'[d] \in {procs[d], {}}
    BY <1>1 DEF Reap, Reaped
  <2>3. LockInv'
    BY <2>1, <2>2 DEF LockInv
  <2>4. ASSUME ~Alive("server"), NEW d \in Checks, procs'[d] # {}
        PROVE  d \in escaped'
    <3>1. procs'[d] = procs[d] /\ procs[d] # {} /\ (record[d] => "leader" \notin procs[d])
      BY <1>1, <2>4 DEF Reap, Reaped
    <3>2. CASE d \in escaped
      BY <1>1, <3>2 DEF Reap
    <3>3. CASE record[d]
      <4>1. procs[d] = {"others"}
        BY <3>1, <3>3 DEF HelperTypeOK
      <4> QED BY <1>1, <3>3, <4>1 DEF Reap, Leaderless
    <3> QED BY <2>4, <3>1, <3>2, <3>3 DEF CleanupInv
  <2>5. host' \in {"removing", "removing stale"}
    BY <1>1 DEF Reap
  <2> QED BY <2>1, <2>3, <2>4, <2>5 DEF CleanupInv, Before, Alive
<1>2. CASE Remove
  <2>1. HelperTypeOK' /\ LockInv'
    BY <1>2 DEF Remove, HelperTypeOK, LockInv
  <2>2. host' \in {"finished", "orphans"} /\ ~runtime' /\ UNCHANGED <<procs, escaped, group>>
    BY <1>2 DEF Remove
  <2>3. host \notin {"cleaning", "down", "stale"}
    BY <1>2 DEF Remove
  <2> QED BY <2>1, <2>2, <2>3 DEF CleanupInv, Before, Alive
<1>3. CASE RemoveFails
  <2>1. UNCHANGED <<kind, group, stage, procs, record, runtime, escaped>>
    BY <1>3 DEF RemoveFails, checkVars
  <2>2. host' \in {"finished", "down"} /\ host \notin {"cleaning", "down", "stale"}
    BY <1>3 DEF RemoveFails
  <2> QED BY <2>1, <2>2 DEF HelperTypeOK, LockInv, CleanupInv, Before, Alive
<1> QED BY <1>1, <1>2, <1>3 DEF CleanupStep

\* What a SIGKILL of the group leaves is recorded, or counted as out of reach.
LEMMA KillKeeps ==
  ASSUME HelperTypeOK, LockInv, CleanupInv, Kill9
  PROVE  HelperTypeOK' /\ LockInv' /\ CleanupInv'
<1>1. UNCHANGED <<stage, procs, record, runtime>> /\ escaped' = escaped \cup Unreachable
  BY DEF Kill9, ServerKilled
<1>2. group' = {} /\ kind' = kind
  BY DEF Kill9, Escalate, KillOrphan
<1>3. HelperTypeOK' /\ LockInv'
  BY <1>1, <1>2 DEF HelperTypeOK, LockInv
<1>4. CASE Escalate
  <2>1. host \in Before /\ host' = "cleaning"
    BY <1>4 DEF Escalate, Before
  <2>2. ASSUME NEW d \in Checks, procs[d] # {}
        PROVE  d \in escaped' \/ record[d]
    <3>1. CASE Alive("server")
      <4>1. CASE stage[d] \in {"spawned", "active"}
        BY <1>1, <2>2, <3>1, <4>1 DEF Unreachable
      <4>2. CASE stage[d] \in {"polling", "stopping"}
        BY <2>1, <4>2 DEF CleanupInv
      <4> QED BY <2>2, <4>1, <4>2 DEF LockInv
    <3>2. CASE ~Alive("server")
      BY <1>1, <2>1, <2>2, <3>2 DEF CleanupInv, Before
    <3> QED BY <3>1, <3>2
  <2>3. CleanupInv'
    BY <1>1, <2>1, <2>2 DEF CleanupInv, Before
  <2> QED BY <1>3, <2>3
<1>5. CASE KillOrphan
  <2>1. host = "reaping" /\ host' = "finished" /\ ~runtime
    BY <1>5 DEF KillOrphan, CleanupInv
  <2>2. ASSUME NEW d \in Checks, procs[d] # {}
        PROVE  d \in escaped'
    <3>1. CASE Alive("server")
      BY <1>1, <2>1, <2>2, <3>1 DEF Unreachable
    <3>2. CASE ~Alive("server")
      BY <1>1, <2>1, <2>2, <3>2 DEF CleanupInv
    <3> QED BY <3>1, <3>2
  <2>3. CleanupInv'
    BY <1>1, <2>1, <2>2 DEF CleanupInv, Before
  <2> QED BY <1>3, <2>3
<1> QED BY <1>4, <1>5 DEF Kill9

\* What the supervisor does to the group leaves the checks and the cleanup alone.
LEMMA HostStepKeeps ==
  ASSUME HelperTypeOK, LockInv, CleanupInv,
         Terminate \/ ProviderEnded \/ ProviderExits \/ Crash \/ Start \/ ReapOrphan,
         UNCHANGED checkVars
  PROVE  HelperTypeOK' /\ LockInv' /\ CleanupInv'
<1>1. group' \in {group, group \ {"provider"}} /\ kind' = kind
  BY DEF Terminate, ProviderEnded, ProviderExits, Crash, Start, ReapOrphan, Leaves
<1>2. HelperTypeOK' /\ LockInv'
  BY <1>1 DEF HelperTypeOK, LockInv, checkVars
<1>3. Alive("server")' = Alive("server")
  BY <1>1 DEF Alive
<1>4. /\ host' \in Before => host \in Before
      /\ host' \in {"orphans", "reaping"} => host \in {"orphans", "reaping"}
  BY DEF Terminate, ProviderEnded, ProviderExits, Crash, Start, ReapOrphan, Before
<1>5. host \in {"cleaning", "down", "stale"} => host' \in {"cleaning", "down", "stale"}
  BY DEF Terminate, ProviderEnded, ProviderExits, Crash, Start, ReapOrphan
<1> QED BY <1>2, <1>3, <1>4, <1>5 DEF CleanupInv, checkVars

\* The bridge touches nothing of the group but itself.
LEMMA BridgeStepKeeps ==
  ASSUME HelperTypeOK, LockInv, CleanupInv, BridgeStep, UNCHANGED checkVars
  PROVE  HelperTypeOK' /\ LockInv' /\ CleanupInv'
<1>1. group' \in {group, group \ {"provider"}} /\ UNCHANGED <<kind, host>>
  <2>1. CASE Post \/ PostFails \/ Workdir \/ Unavailable \/ PollRefused \/ Output
    BY <2>1 DEF Post, PostFails, Workdir, Unavailable, PollRefused, Output, Ends, Leaves, hostVars
  <2>2. CASE Poll \/ Delete \/ OnStop \/ DeleteStopped \/ LateSession \/ TurnEnds
    BY <2>2 DEF Poll, Delete, OnStop, DeleteStopped, LateSession, TurnEnds, Leaves, hostVars
  <2> QED BY <2>1, <2>2 DEF BridgeStep
<1>2. HelperTypeOK' /\ LockInv'
  BY <1>1 DEF HelperTypeOK, LockInv, checkVars
<1>3. Alive("server")' = Alive("server")
  BY <1>1 DEF Alive
<1> QED BY <1>1, <1>2, <1>3 DEF CleanupInv, checkVars

\* Until its cleanup the bridge is alive; the cleanup deletes the session, or is
\* counted as lost.
LEMMA BridgeStepKeepsSession ==
  ASSUME SessionInv, BridgeStep
  PROVE  SessionInv'
<1>1. CASE Post \/ PostFails \/ Workdir \/ Unavailable \/ PollRefused \/ Output
  <2>1. kind = "cao" /\ Alive("provider")
    BY <1>1 DEF Post, PostFails, Workdir, Unavailable, PollRefused, Output, Asks
  <2>2. UNCHANGED <<kind, group>>
    BY <1>1 DEF Post, PostFails, Workdir, Unavailable, PollRefused, Output, Ends, Cleanup, hostVars
  <2> QED BY <2>1, <2>2 DEF SessionInv, SessionIsRemoved, Alive
<1>2. CASE Poll \/ OnStop
  <2>1. kind = "cao" /\ Alive("provider") /\ UNCHANGED <<kind, group>>
    BY <1>2 DEF Poll, OnStop, Asks, hostVars
  <2> QED BY <2>1 DEF SessionInv, SessionIsRemoved, Alive
<1>3. CASE Delete
  <2>1. kind = "cao" /\ kind' = kind
    BY <1>3 DEF Delete, Asks
  <2>2. session' # "live" \/ lost'
    BY <1>3 DEF Delete
  <2> QED BY <2>1, <2>2 DEF SessionInv, SessionIsRemoved
<1>4. CASE DeleteStopped
  <2>1. kind = "cao" /\ kind' = kind /\ lost'
    BY <1>4 DEF DeleteStopped, Asks
  <2> QED BY <2>1 DEF SessionInv, SessionIsRemoved
<1>5. CASE LateSession
  <2>1. kind # "native" /\ UNCHANGED <<kind, group>>
    BY <1>5 DEF LateSession, SessionInv, hostVars
  <2>2. ~Alive("provider") => lost'
    BY <1>5 DEF LateSession
  <2> QED BY <2>1, <2>2 DEF SessionInv, SessionIsRemoved, Alive
<1>6. CASE TurnEnds
  BY <1>6 DEF TurnEnds, SessionInv, SessionIsRemoved, Alive, hostVars
<1> QED BY <1>1, <1>2, <1>3, <1>4, <1>5, <1>6 DEF BridgeStep

\* The other steps leave the session; a killed bridge is counted as lost.
LEMMA OthersKeepSession ==
  ASSUME HelperTypeOK, SessionInv, [Next]_helperVars, ~BridgeStep
  PROVE  SessionInv'
<1>1. CASE /\ Terminate \/ ProviderEnded \/ ProviderExits \/ Crash \/ Start \/ ReapOrphan
           /\ UNCHANGED <<checkVars, bridgeVars>>
  <2>1. kind' = kind /\ (group' = group \/ kind = "native")
    BY <1>1 DEF Terminate, ProviderEnded, ProviderExits, Crash, Start, ReapOrphan
  <2> QED BY <1>1, <2>1 DEF SessionInv, SessionIsRemoved, Alive, bridgeVars
<1>2. CASE Kill9
  <2>1. kind' = kind /\ session' = session
    BY <1>2 DEF Kill9, Escalate, KillOrphan, BridgeKilled
  <2>2. CASE kind = "native"
    <3>1. session = "none" /\ ~inFlight'
      BY <1>2, <2>2 DEF Kill9, BridgeKilled, SessionInv
    <3> QED BY <2>1, <3>1 DEF SessionInv, SessionIsRemoved
  <2>3. CASE kind = "cao"
    <3>1. Alive("provider") => lost'
      BY <1>2, <2>3 DEF Kill9, BridgeKilled
    <3>2. lost => lost'
      BY <1>2 DEF Kill9, BridgeKilled
    <3> QED BY <2>1, <2>3, <3>1, <3>2 DEF SessionInv, SessionIsRemoved
  <2> QED BY <2>2, <2>3 DEF HelperTypeOK
<1>3. CASE \E c \in Checks : CheckStep(c) /\ UNCHANGED bridgeVars
  <2>1. UNCHANGED hostVars
    BY <1>3 DEF CheckStep, Ask, Enter, Spawn, SetActive, Record, StopPolling, Kill, Finish, Fork,
           LeaderEnds, Thread
  <2> QED BY <1>3, <2>1 DEF SessionInv, SessionIsRemoved, Alive, bridgeVars, hostVars
<1>4. CASE (ServerStep \/ CleanupStep) /\ UNCHANGED bridgeVars
  <2>1. CASE ServerStep
    <3>1. kind' = kind /\ group' \in {group, group \ {"server"}}
      BY <2>1 DEF ServerStep, OnSigterm, ParentGone, StdinEnds, ServerExits, Leaves, hostVars
    <3> QED BY <1>4, <3>1 DEF SessionInv, SessionIsRemoved, Alive, bridgeVars
  <2>2. CASE CleanupStep
    <3>1. kind' = kind /\ group' = group
      BY <2>2 DEF CleanupStep, Reap, Remove, RemoveFails
    <3> QED BY <1>4, <3>1 DEF SessionInv, SessionIsRemoved, Alive, bridgeVars
  <2> QED BY <1>4, <2>1, <2>2
<1>5. CASE UNCHANGED helperVars
  BY <1>5 DEF SessionInv, SessionIsRemoved, Alive, helperVars, hostVars, bridgeVars
<1> QED BY <1>1, <1>2, <1>3, <1>4, <1>5 DEF Next

\* The invariant is kept by every step.
LEMMA StepKeeps == HelperInv /\ [Next]_helperVars => HelperInv'
<1> SUFFICES ASSUME HelperInv, [Next]_helperVars PROVE HelperInv'
  OBVIOUS
<1>1. HelperTypeOK /\ LockInv /\ CleanupInv /\ SessionInv
  BY DEF HelperInv
<1>2. SessionInv'
  BY <1>1, BridgeStepKeepsSession, OthersKeepSession
<1>3. HelperTypeOK' /\ LockInv' /\ CleanupInv'
  <2>1. CASE /\ Terminate \/ ProviderEnded \/ ProviderExits \/ Crash \/ Start \/ ReapOrphan
             /\ UNCHANGED <<checkVars, bridgeVars>>
    BY <1>1, <2>1, HostStepKeeps
  <2>2. CASE Kill9
    BY <1>1, <2>2, KillKeeps
  <2>3. ASSUME NEW c \in Checks, CheckStep(c)
        PROVE  HelperTypeOK' /\ LockInv' /\ CleanupInv'
    BY <1>1, <2>3, CheckStepKeepsLock, CheckStepKeepsCleanup
  <2>4. CASE ServerStep
    BY <1>1, <2>4, ServerStepKeeps
  <2>5. CASE CleanupStep
    BY <1>1, <2>5, CleanupStepKeeps
  <2>6. CASE BridgeStep /\ UNCHANGED checkVars
    BY <1>1, <2>6, BridgeStepKeeps
  <2>7. CASE UNCHANGED helperVars
    BY <1>1, <2>7 DEF HelperTypeOK, LockInv, CleanupInv, Alive, helperVars, hostVars, checkVars
  <2> QED BY <2>1, <2>2, <2>3, <2>4, <2>5, <2>6, <2>7 DEF Next
<1> QED BY <1>2, <1>3 DEF HelperInv

\* The inductive invariant, which the theorems below are read off.
THEOREM HelperInvariant == HelperSpec => []HelperInv
<1>1. HelperInv /\ [Next]_helperVars => HelperInv'
  BY StepKeeps
<1> QED BY InitHolds, <1>1, PTL DEF HelperSpec

\* A call that is asked while another one runs waits for it, also after the
\* server was told to end: at no time two checks have processes.
THEOREM ChecksRunAlone == HelperSpec => []OneCheckAtATime
<1>1. HelperInv => OneCheckAtATime
  BY DEF HelperInv, LockInv, OneCheckAtATime, Running
<1> QED BY <1>1, HelperInvariant, PTL

\* Whatever ends first, provider, server or daemon, a job that is over has no
\* process of a check but one without a record the cleanup could use.
THEOREM ChecksEndWithTheJob == HelperSpec => []NoCheckOutlivesJob
<1>1. HelperInv => NoCheckOutlivesJob
  BY DEF HelperInv, CleanupInv, NoCheckOutlivesJob
<1> QED BY <1>1, HelperInvariant, PTL

\* The bridge's cleanup is reached from every request: a session is left only
\* when the DELETE failed, was interrupted or killed, or came before the launch.
THEOREM SessionsEndWithTheBridge == HelperSpec => []SessionIsRemoved
<1>1. HelperInv => SessionIsRemoved
  BY DEF HelperInv, SessionInv
<1> QED BY <1>1, HelperInvariant, PTL
=============================================================================
