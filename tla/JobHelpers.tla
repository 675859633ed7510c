---------------------------- MODULE JobHelpers ----------------------------
(***************************************************************************)
(* One job with its supervisor and the helper that runs beside it: the     *)
(* check server of a native provider, or the bridge to CAO.                *)
(***************************************************************************)
EXTENDS CheckServer, CaoBridge

helperVars == <<hostVars, checkVars, bridgeVars>>

Init == HostInit /\ CheckInit /\ BridgeInit

\* The group is killed with the helper in it.
Kill9 ==
  /\ Escalate \/ KillOrphan
  /\ ServerKilled /\ BridgeKilled

Next ==
  \/ /\ Terminate \/ ProviderEnded \/ ProviderExits \/ Crash \/ Start \/ ReapOrphan
     /\ UNCHANGED <<checkVars, bridgeVars>>
  \/ Kill9
  \/ /\ (\E c \in Checks : CheckStep(c)) \/ ServerStep \/ CleanupStep
     /\ UNCHANGED bridgeVars
  \/ /\ BridgeStep
     /\ UNCHANGED checkVars

\* The threads of the server go on, and its interpreter ends when they have.
Fairness ==
  /\ \A c \in Checks :
       /\ WF_helperVars((Enter(c) \/ Spawn(c) \/ SetActive(c) \/ Record(c) \/ StopPolling(c)
                         \/ Kill(c) \/ Finish(c)) /\ UNCHANGED bridgeVars)
  /\ WF_helperVars(ServerStep /\ UNCHANGED bridgeVars)

HelperSpec == Init /\ [][Next]_helperVars

FairHelperSpec == HelperSpec /\ Fairness

\* The check server does not outlive its provider for ever: the threads it waits
\* for end, also the one that only gets the lock when the watcher has fired.
ServerEnds == ~Alive("provider") ~> ~Alive("server")
=============================================================================
