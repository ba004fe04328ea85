---------------------------- MODULE TrialFunnel ----------------------------
(***************************************************************************)
(* What the lifecycle promises of each trial, with every process hidden:   *)
(* the funnel of ADR 0003.  A trial is launched at most once, its first    *)
(* terminal status is its last, and an official outcome has a verdict.     *)
(* One step may move several trials (a cancel, a restart), each of them    *)
(* along one of these edges.                                               *)
(***************************************************************************)
CONSTANT Trial
VARIABLES status, launched, verdict

vars == <<status, launched, verdict>>
Terminal == {"sealed", "anomaly", "cancelled"}

Init ==
    /\ status = [t \in Trial |-> "planned"]
    /\ launched = [t \in Trial |-> FALSE]
    /\ verdict = [t \in Trial |-> "none"]

Keeps(f, t) == f'[t] = f[t]

\* A claim comes and goes until there is a launch intent.
Claim(t)   == status[t] = "planned" /\ status'[t] = "claimed" /\ Keeps(launched, t)
Unclaim(t) == status[t] = "claimed" /\ ~launched[t] /\ status'[t] = "planned" /\ Keeps(launched, t)

\* The intent is recorded once, for a claimed trial; the claim may have been
\* cancelled while its launch was already under way.
Launch(t) ==
    /\ status[t] \in {"claimed", "cancelled"}
    /\ ~launched[t]
    /\ launched'[t]
    /\ Keeps(status, t)

Start(t) == status[t] = "claimed" /\ launched[t] /\ status'[t] = "running" /\ Keeps(launched, t)

\* Verdicts and anomalies are for launched trials; the rest can only be cancelled.
Finish(t) ==
    /\ status[t] \notin Terminal
    /\ Keeps(launched, t)
    /\ \/ status'[t] = "cancelled"
       \/ launched[t] /\ status'[t] = "anomaly"
       \/ launched[t] /\ verdict[t] # "none" /\ status'[t] = "sealed"

Idle(t) == Keeps(status, t) /\ Keeps(launched, t)

\* A launched trial gets one verdict, which may later be disqualified.
Judged(t) ==
    \/ Keeps(verdict, t)
    \/ launched[t] /\ verdict[t] = "none" /\ verdict'[t] \in {"sealed", "anomaly"}
    \/ verdict[t] = "sealed" /\ verdict'[t] = "anomaly"

Edge(t) == Claim(t) \/ Unclaim(t) \/ Launch(t) \/ Start(t) \/ Finish(t) \/ Idle(t)

Next ==
    /\ status' \in [Trial -> {"planned", "claimed", "running"} \cup Terminal]
    /\ launched' \in [Trial -> BOOLEAN]
    /\ verdict' \in [Trial -> {"none", "sealed", "anomaly"}]
    /\ \A t \in Trial : Edge(t) /\ Judged(t)

Spec == Init /\ [][Next]_vars
=============================================================================
