----------------------------- MODULE RunPromise -----------------------------
(***************************************************************************)
(* What a backup or replication run promises whoever reads its record: it  *)
(* opens once with the units of work frozen (target nodes or routes), each *)
(* unit reports, a good report is final, and the run's verdict is the one  *)
(* its units' reports add up to, written together with the last report.    *)
(* Terms, leases, dispatchers and messages do not appear.                  *)
(***************************************************************************)
CONSTANTS Runs, Units

VARIABLES
  plan,    \* plan[r]: the units of run r, frozen when it opens
  report,  \* report[r][u]: "none", "good" or "bad"
  verdict  \* verdict[r]: "absent", "RUNNING" or the final status

vars == <<plan, report, verdict>>

Final == {"SUCCEEDED", "PARTIAL", "FAILED"}

\* The verdict a complete set of reports adds up to.
Sum(rep, P) ==
  IF \A u \in P : rep[u] = "good" THEN "SUCCEEDED"
  ELSE IF \E u \in P : rep[u] = "good" THEN "PARTIAL"
  ELSE "FAILED"

Init ==
  /\ plan = [r \in Runs |-> {}]
  /\ report = [r \in Runs |-> [u \in Units |-> "none"]]
  /\ verdict = [r \in Runs |-> "absent"]

Open(r, P) ==
  /\ verdict[r] = "absent"
  /\ verdict' = [verdict EXCEPT ![r] = "RUNNING"]
  /\ plan' = [plan EXCEPT ![r] = P]
  /\ UNCHANGED report

\* A unit reports; the last one to do so closes the run.
Report(r, u, v) ==
  /\ verdict[r] = "RUNNING" /\ report[r][u] = "none"
  /\ report' = [report EXCEPT ![r][u] = v]
  /\ verdict' = IF \A w \in plan[r] : report'[r][w] # "none"
                THEN [verdict EXCEPT ![r] = Sum(report'[r], plan[r])]
                ELSE verdict
  /\ UNCHANGED plan

\* Bad reports of a run are withdrawn and their units done again.
Redo(r, U) ==
  /\ U # {}
  /\ report' = [report EXCEPT ![r] = [u \in Units |-> IF u \in U THEN "none" ELSE @[u]]]
  /\ verdict' = [verdict EXCEPT ![r] = "RUNNING"]
  /\ UNCHANGED plan

\* Whoever reads the records changes nothing.
Read == UNCHANGED vars

Next ==
  \/ Read
  \/ \E r \in Runs :
       \/ \E P \in SUBSET Units : Open(r, P)
       \/ \E u \in plan[r], v \in {"good", "bad"} : Report(r, u, v)
       \/ \E U \in SUBSET {u \in plan[r] : report[r][u] = "bad"} : Redo(r, U)

Spec == Init /\ [][Next]_vars
=============================================================================
