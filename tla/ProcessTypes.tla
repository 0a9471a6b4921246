---------------------------- MODULE ProcessTypes ----------------------------
(***************************************************************************)
(* The vocabulary of internal/process: the states of an instance, the      *)
(* observed-state machine, and the pure decisions the manager takes from   *)
(* them.  No state lives here; ProcessManager is the state machine.        *)
(***************************************************************************)
EXTENDS Naturals

\* types.go: DesiredState, ObservedState, HealthState.
Desired  == {"RUNNING", "STOPPED"}
Observed == {"STOPPED", "STARTING", "RUNNING", "STOPPING",
             "EXITED", "BACKOFF", "FATAL", "UNKNOWN"}
Health   == {"HEALTHY", "UNHEALTHY", "UNKNOWN"}

\* Instance.ExitCode: a nil pointer, zero, or a failure.
ExitCodes == {"none", "zero", "nonzero"}

\* machine.go: the inputs of the observed-state machine.
Events == {"START", "START_OK", "START_FAIL", "EXIT", "STOP", "STOPPED",
           "RETRY", "RETRIES_EXHAUSTED", "LOST"}

\* machine.go: the legal (state, event, next state) triples.
observedTransitions ==
  {<<"STOPPED",  "START",             "STARTING">>,
   <<"STARTING", "START_OK",          "RUNNING">>,
   <<"STARTING", "START_FAIL",        "BACKOFF">>,
   <<"RUNNING",  "EXIT",              "EXITED">>,
   <<"RUNNING",  "STOP",              "STOPPING">>,
   <<"STOPPING", "STOPPED",           "STOPPED">>,
   <<"EXITED",   "RETRY",             "STARTING">>,
   <<"EXITED",   "RETRIES_EXHAUSTED", "FATAL">>,
   <<"BACKOFF",  "RETRY",             "STARTING">>,
   <<"BACKOFF",  "RETRIES_EXHAUSTED", "FATAL">>,
   <<"FATAL",    "START",             "STARTING">>,
   <<"UNKNOWN",  "START_OK",          "RUNNING">>,
   <<"UNKNOWN",  "STOPPED",           "STOPPED">>}
  \cup {<<s, "LOST", "UNKNOWN">> : s \in Observed}

Legal(cur, ev) == \E n \in Observed : <<cur, ev, n>> \in observedTransitions

\* ApplyObserved with the caller's fallback for an illegal pair: every caller
\* but signalStop forces the state the event was meant to reach.
ApplyObserved(cur, ev, fallback) ==
  IF Legal(cur, ev)
  THEN CHOOSE n \in Observed : <<cur, ev, n>> \in observedTransitions
  ELSE fallback

\* exitCode(inst) of reconcile.go: a nil ExitCode counts as zero.
ExitedCleanly(exit) == exit # "nonzero"

(***************************************************************************)
(* restart.go DecideRestart, with n the number of recorded failures that   *)
(* lie inside RetryWindow.  Its answer is one of "none", "fatal",          *)
(* "restart"; the backoff delay is time and is left to the caller.         *)
(***************************************************************************)
DecideRestart(pol, desired, observed, exit, n) ==
  IF \/ desired = "STOPPED"
     \/ observed \notin {"EXITED", "BACKOFF"}
     \/ pol.mode = "never"
     \/ pol.mode = "on-failure" /\ ExitedCleanly(exit)
  THEN "none"
  ELSE IF pol.maxRetries > 0 /\ n >= pol.maxRetries
       THEN "fatal"
       ELSE "restart"

Modes == {"never", "always", "on-failure"}
=============================================================================
