----------------------------- MODULE CaoBridge -----------------------------
(***************************************************************************)
(* The bridge that runs one job in a CAO session (tools/cao_job_bridge.py).*)
(* CAO is known by its answers: every request may be served, refused, or   *)
(* be left without an answer, and a request the bridge gave up may still   *)
(* reach CAO.                                                              *)
(***************************************************************************)
EXTENDS HelperHost

CONSTANT PollRetries   \* POLL_RETRIES

VARIABLES
  step,      \* the request the bridge is at, or "ended"
  failures,  \* poll_failures
  code,      \* the exit code that is decided; 0 until then
  session,   \* the session in CAO: "none", "live" or "deleted"
  inFlight,  \* a POST the bridge gave up may still reach CAO
  turn,      \* the status of CAO's terminal
  printed,   \* what was printed as the result
  lost       \* the cleanup was cut short, refused, or came too early

bridgeVars == <<step, failures, code, session, inFlight, turn, printed, lost>>

BridgeInit ==
  /\ step = "post" /\ failures = 0 /\ code = 0
  /\ session = "none" /\ inFlight = FALSE
  /\ turn = "busy" /\ printed = FALSE /\ lost = FALSE

Asks(request) == kind = "cao" /\ Alive("provider") /\ step = request

\* Mutation: the launch counts as attempted once it was answered.
AfterLaunch == IF step = "post" THEN "ended" ELSE "delete"

\* The finally block: the launch was attempted before it was answered.
Cleanup == "delete"

\* The bridge's work is over with this exit code.
Ends(exit) ==
  /\ step' = Cleanup /\ code' = exit
  /\ IF step' = "ended" THEN Leaves("provider") ELSE UNCHANGED <<group, pending>>
  /\ UNCHANGED <<kind, host, crashes, forgotten, failures>>

------------------------------------------------------------------------------
\* POST /sessions: a usable terminal, or one without an id or with other tools
Post ==
  /\ Asks("post")
  /\ session' = "live"
  /\ \/ step' = "workdir" /\ UNCHANGED <<hostVars, failures, code>>
     \/ Ends(1)
  /\ UNCHANGED <<inFlight, turn, printed, lost>>

\* CAO refuses, or there is no answer within the timeout and CAO has the
\* request, now or later, or never.
PostFails ==
  /\ Asks("post")
  /\ Ends(1)
  /\ inFlight' \in BOOLEAN
  /\ UNCHANGED <<session, turn, printed, lost>>

\* GET working-directory
Workdir ==
  /\ Asks("workdir")
  /\ \/ step' = "poll" /\ UNCHANGED <<hostVars, failures, code>>
     \/ Ends(1)
  /\ UNCHANGED <<session, inFlight, turn, printed, lost>>

\* GET /terminals: the status, once it is a terminal one
Poll ==
  /\ Asks("poll")
  /\ failures' = 0
  /\ step' = IF turn = "busy" THEN "poll" ELSE "output"
  /\ UNCHANGED <<hostVars, code, session, inFlight, turn, printed, lost>>

Unavailable ==
  /\ Asks("poll")
  /\ IF failures < PollRetries
     THEN failures' = failures + 1 /\ UNCHANGED <<hostVars, step, code>>
     ELSE Ends(1)
  /\ UNCHANGED <<session, inFlight, turn, printed, lost>>

PollRefused ==
  /\ Asks("poll")
  /\ Ends(1)
  /\ UNCHANGED <<session, inFlight, turn, printed, lost>>

ExitCode == IF turn = "completed" THEN 0 ELSE 1

\* GET output: the retained result, or none, or no answer
Output ==
  /\ Asks("output")
  /\ \/ Ends(ExitCode) /\ printed' = TRUE
     \/ Ends(1) /\ UNCHANGED printed
  /\ UNCHANGED <<session, inFlight, turn, lost>>

\* DELETE of the session, by the name CAO returned or the one that was asked for
Delete ==
  /\ Asks("delete")
  /\ step' = "ended" /\ Leaves("provider")
  /\ \/ session' = (IF session = "live" THEN "deleted" ELSE session) /\ UNCHANGED lost
     \/ lost' = TRUE /\ UNCHANGED session
  /\ UNCHANGED <<kind, host, crashes, forgotten, failures, code, inFlight, turn, printed>>

------------------------------------------------------------------------------
\* request_stop raises StopRequested in the request the bridge waits for: a POST
\* may be on its way.
OnStop ==
  /\ kind = "cao" /\ Alive("provider") /\ "provider" \in pending /\ step # "delete"
  /\ step' = Cleanup /\ code' = 130
  /\ pending' = pending \ {"provider"}
  /\ inFlight' \in {inFlight, inFlight \/ step = "post"}
  /\ UNCHANGED <<kind, host, group, crashes, forgotten, failures, session, turn, printed, lost>>

\* The same in the DELETE, where it is caught as any other exception: the
\* request is given up and the exit code stays.
DeleteStopped ==
  /\ Asks("delete") /\ "provider" \in pending
  /\ step' = "ended" /\ Leaves("provider")
  /\ lost' = TRUE
  /\ session' \in {session, IF session = "live" THEN "deleted" ELSE session}
  /\ UNCHANGED <<kind, host, crashes, forgotten, failures, code, inFlight, turn, printed>>

\* CAO: a given-up POST arrives; a terminal comes to its end.
LateSession ==
  /\ inFlight
  /\ inFlight' = FALSE /\ session' = "live"
  /\ lost' = (lost \/ step = "ended" \/ ~Alive("provider"))
  /\ UNCHANGED <<hostVars, step, failures, code, turn, printed>>

TurnEnds ==
  /\ session = "live" /\ turn = "busy"
  /\ turn' \in {"completed", "error"}
  /\ UNCHANGED <<hostVars, step, failures, code, session, inFlight, printed, lost>>

\* A SIGKILL of the bridge leaves the session to CAO's own deadline.
BridgeKilled ==
  LET killed == kind = "cao" /\ Alive("provider") IN
  /\ lost' = (lost \/ killed)
  /\ inFlight' \in {inFlight, inFlight \/ (killed /\ step = "post")}
  /\ UNCHANGED <<step, failures, code, session, turn, printed>>

BridgeStep ==
  \/ Post \/ PostFails \/ Workdir \/ Poll \/ Unavailable \/ PollRefused
  \/ Output \/ Delete \/ OnStop \/ DeleteStopped \/ LateSession \/ TurnEnds

------------------------------------------------------------------------------
\* A session outlives its bridge only when the cleanup could not reach it: the
\* DELETE failed or was cut short by a second signal, the bridge was killed, or
\* CAO took up the launch after the cleanup.
SessionIsRemoved == ~Alive("provider") /\ session = "live" => lost
=============================================================================
