------------------------------- MODULE Results -------------------------------
(***************************************************************************)
(* What the results query says of the batches of one task set and target   *)
(* configuration, over every history of their trials and of the append-    *)
(* only verification rows: the verdict of a trial under a scorer, the      *)
(* point of a batch in each view with its fixed-weight bounds, the matrix. *)
(* Rates are in units of 1/Unit.                                           *)
(***************************************************************************)
EXTENDS Naturals, Sequences, FiniteSetsExt

CONSTANTS
    Plans,      \* plans of the same trials: each trial's task and batch
    Scorer,     \* scorer versions
    Default,    \* the scorer a task version pins, or None
    None,
    Verdict,    \* what successful scorings say: a pass or a failure, with submetrics
    Passing,    \* the verdicts that are passes
    Unit,       \* 1.0: divisible by every number of repetitions, and by that of tasks
    MaxRows     \* bound: verification rows

Trial == UNION {DOMAIN p : p \in Plans}

ASSUME ResultsAssumption ==
    /\ IsFiniteSet(Trial)
    /\ \A p \in Plans : DOMAIN p = Trial
    /\ \A p \in Plans, t \in Trial : Default[p[t].task] \in Scorer \cup {None}
    /\ None \notin Scorer
    /\ Passing \subseteq Verdict /\ {"queued", "error"} \cap Verdict = {}
    /\ Unit \in Nat /\ MaxRows \in Nat

VARIABLES
    plan,       \* the plan at hand
    status,     \* trials.status
    anomalous,  \* trials whose answer row is an anomaly
    rows        \* verifications, in the order of their insertion

vars == <<plan, status, anomalous, rows>>

Task == {plan[t].task : t \in Trial}
Batch == {plan[t].batch : t \in Trial}

Row == [trial : Trial, scorer : Scorer, outcome : {"queued", "error"} \cup Verdict]

TypeOK ==
    /\ plan \in Plans
    /\ status \in [Trial -> {"running", "sealed", "anomaly", "cancelled"}]
    /\ anomalous \subseteq Trial
    /\ rows \in Seq(Row)

Init ==
    /\ plan \in Plans
    /\ status = [t \in Trial |-> "running"]
    /\ anomalous = {}
    /\ rows = <<>>

\* The end of a trial: cancelled without an answer, or with the answer's status.
EndTrial(t) ==
    /\ status[t] = "running"
    /\ \E end \in {"sealed", "anomaly", "cancelled"} :
          /\ status' = [status EXCEPT ![t] = end]
          /\ anomalous' = IF end = "anomaly" THEN anomalous \cup {t} ELSE anomalous
    /\ UNCHANGED <<plan, rows>>

\* Scoring a sealed answer once more, under any scorer.
Request(t, s) ==
    /\ status[t] = "sealed" /\ Len(rows) < MaxRows
    /\ rows' = Append(rows, [trial |-> t, scorer |-> s, outcome |-> "queued"])
    /\ UNCHANGED <<plan, status, anomalous>>

\* The manager scores the rows in their order.
Score ==
    /\ \E i \in DOMAIN rows, outcome \in {"error"} \cup Verdict :
          /\ rows[i].outcome = "queued"
          /\ \A j \in 1..(i - 1) : rows[j].outcome # "queued"
          /\ rows' = [rows EXCEPT ![i].outcome = outcome]
    /\ UNCHANGED <<plan, status, anomalous>>

Next == Score \/ \E t \in Trial : EndTrial(t) \/ \E s \in Scorer : Request(t, s)

Spec == Init /\ [][Next]_vars

-----------------------------------------------------------------------------
(* The query.                                                              *)

RowsOf(t, s) == {i \in DOMAIN rows : rows[i].trial = t /\ rows[i].scorer = s}
Successes(t, s) == {rows[i].outcome : i \in RowsOf(t, s)} \cap Verdict
Current(t, s) == rows[Max(RowsOf(t, s))].outcome

\* Mutant: the latest wins.
StableAlways(t, s) == FALSE

\* _verdicts: every success counts, and the latest row is the current one.
Unstable(t, s) == \E v, w \in Successes(t, s) : v # w

\* _classify, in the order of its conditions.
Bucket(t, s) ==
    LET scored == RowsOf(t, s) # {} IN
    IF scored /\ Unstable(t, s) THEN "unstable"
    ELSE IF scored /\ Current(t, s) \in Verdict THEN "valid"
    ELSE IF scored /\ Current(t, s) = "error" THEN "score_error"
    ELSE IF t \in anomalous THEN "anomaly"
    ELSE IF status[t] = "cancelled" THEN "cancelled"
    ELSE "pending"

Passed(t, s) == Bucket(t, s) = "valid" /\ Current(t, s) \in Passing

\* A point is asked for a batch and a choice of scorer for each of its trials.
Count(S) == Cardinality(S)
Rate(n, planned) == (n * Unit) \div planned
Sum(values) == MapThenSumSet(LAMBDA x : values[x], DOMAIN values)
Mean(values) == Sum(values) \div Count(DOMAIN values)
Planned(batch) == {t \in Trial : plan[t].batch = batch}
OfTask(T, k) == {t \in T : plan[t].task = k}
Tasks(T) == {plan[t].task : t \in T}

Valid(T, pick) == {t \in T : Bucket(t, pick[t]) = "valid"}
Passes(T, pick) == {t \in T : Passed(t, pick[t])}

\* Mutant: the rate among the trials that were scored.
TaskPointOfScored(T, pick) ==
    LET n == Count(Valid(T, pick)) passes == Count(Passes(T, pick)) IN
    [planned |-> Count(T), pass |-> passes, valid |-> n,
     lower |-> IF n = 0 THEN 0 ELSE Rate(passes, n),
     upper |-> IF n = 0 THEN Unit ELSE Rate(passes, n), complete |-> n = Count(T)]

\* _task_point: the planned repetitions are the denominator, the rest is unknown.
TaskPoint(T, pick) ==
    LET n == Count(Valid(T, pick)) passes == Count(Passes(T, pick)) IN
    [planned |-> Count(T), pass |-> passes, valid |-> n,
     lower |-> Rate(passes, Count(T)),
     upper |-> Rate(passes + (Count(T) - n), Count(T)), complete |-> n = Count(T)]

\* Mutant: a batch is complete once nothing of it is pending.
BatchPointWhenDone(T, pick) ==
    LET task(k) == TaskPoint(OfTask(T, k), pick)
        lower == Mean([k \in Tasks(T) |-> task(k).lower])
        complete == \A t \in T : Bucket(t, pick[t]) # "pending"
    IN [lower |-> lower, upper |-> Mean([k \in Tasks(T) |-> task(k).upper]),
        complete |-> complete, main |-> IF complete THEN lower ELSE None]

\* _batch_point: tasks weigh the same, and only a complete batch has a main score.
BatchPoint(T, pick) ==
    LET task(k) == TaskPoint(OfTask(T, k), pick)
        lower == Mean([k \in Tasks(T) |-> task(k).lower])
        complete == \A k \in Tasks(T) : task(k).complete
    IN [lower |-> lower, upper |-> Mean([k \in Tasks(T) |-> task(k).upper]),
        complete |-> complete, main |-> IF complete THEN lower ELSE None]

\* collect: the series a batch is shown in, each by the choice of scorer it makes;
\* None is the series of a batch that no scorer has touched.
Observed(batch) == {rows[i].scorer : i \in {j \in DOMAIN rows : plan[rows[j].trial].batch = batch}}
Choice(batch, s) == [t \in Planned(batch) |-> s]
Pinned(batch) == [t \in Planned(batch) |-> Default[plan[t].task]]
HasRows(pick) == \E t \in DOMAIN pick : RowsOf(t, pick[t]) # {}

Raw(batch) ==
    {Choice(batch, s) : s \in IF Observed(batch) = {} THEN {None} ELSE Observed(batch)}
Unified(batch, s) == {pick \in {Choice(batch, s)} : HasRows(pick)}

TaskDefaults(batch) ==
    {pick \in {Pinned(batch)} : HasRows(pick) /\ \A t \in DOMAIN pick : pick[t] # None}

Points == UNION {Raw(b) \cup TaskDefaults(b) : b \in Batch}

\* Mutant: batches count by their rates, not by their trials.
CellOfRates(k, picks) ==
    LET point(pick) == TaskPoint(OfTask(DOMAIN pick, k), pick)
        batches == {pick \in picks : k \in Tasks(DOMAIN pick)}
    IN [lower |-> Mean([pick \in batches |-> point(pick).lower]),
        upper |-> Mean([pick \in batches |-> point(pick).upper])]

\* _matrix: one cell per task, pooled over the batches shown under one grading
\* standard: the trials of all of them count alike.
Cell(k, picks) ==
    LET T(pick) == OfTask(DOMAIN pick, k)
        planned == Sum([pick \in picks |-> Count(T(pick))])
        passes == Sum([pick \in picks |-> Count(Passes(T(pick), pick))])
        n == Sum([pick \in picks |-> Count(Valid(T(pick), pick))])
    IN [planned |-> planned, lower |-> Rate(passes, planned),
        upper |-> Rate(passes + (planned - n), planned), complete |-> n = planned]

-----------------------------------------------------------------------------
(* What must hold.                                                         *)

\* The score of a batch if every trial has the verdict `passing` gives it: the
\* definition of the decision record, tasks of equal weight, repetitions within.
ScoreIf(T, passing) ==
    Mean([k \in Tasks(T) |-> Rate(Count(OfTask(passing, k)), Count(OfTask(T, k)))])

\* The outcomes the unknown trials may still have.
Outcomes(T, pick) ==
    LET passes == Passes(T, pick) IN
    {passes \cup more : more \in SUBSET (T \ Valid(T, pick))}

\* "Missing bounds": whatever the unknown trials turn out to be, the batch's score
\* lies within the bounds, and both bounds are scores it can still have.
BoundsAreTight ==
    \A pick \in Points :
        LET T == DOMAIN pick
            scores == {ScoreIf(T, passing) : passing \in Outcomes(T, pick)}
            point == BatchPoint(T, pick)
        IN point.lower = Min(scores) /\ point.upper = Max(scores)

\* A main score is given exactly when every planned trial has rows that agree and
\* end in a verdict, and then it is the score of those verdicts.
MainScoreIsEarned ==
    \A pick \in Points :
        LET T == DOMAIN pick
            settled == \A t \in T :
                /\ Count(Successes(t, pick[t])) = 1
                /\ Current(t, pick[t]) \in Successes(t, pick[t])
        IN BatchPoint(T, pick).main =
            IF settled
            THEN ScoreIf(T, {t \in T : Successes(t, pick[t]) \subseteq Passing})
            ELSE None

\* Nobody reruns until pass: a trial comes to count as passed only with its first
\* verdict, or one like all its verdicts before, never with one that contradicts.
RisesAreAgreed ==
    [][ \A t \in Trial, s \in Scorer :
          ~Passed(t, s) /\ Passed(t, s)'
          => \E i \in DOMAIN rows :
                /\ rows[i].trial = t /\ rows[i].scorer = s
                /\ rows[i].outcome = "queued" /\ rows'[i].outcome \in Passing
                /\ Successes(t, s) \subseteq {rows'[i].outcome} ]_vars

\* A cell of the matrix pools the batches, each with the bounds of its missing trials.
CellsPoolBatches ==
    \A s \in Scorer : LET picks == UNION {Unified(b, s) : b \in Batch} IN
        \A k \in UNION {Tasks(DOMAIN pick) : pick \in picks} :
            LET T == UNION {OfTask(DOMAIN pick, k) : pick \in picks}
                scores == {Rate(Count(passing), Count(T)) :
                             passing \in Outcomes(T, [t \in T |-> s])}
                cell == Cell(k, picks)
            IN cell.lower = Min(scores) /\ cell.upper = Max(scores)

\* README: tasks that pin no scorer stay out of the default view.  (The others of
\* their batch are in it.)
PinnedTasksAreShown ==
    \A t \in Trial : LET s == Default[plan[t].task] IN
        s # None /\ RowsOf(t, s) # {} => TaskDefaults(plan[t].batch) # {}
==============================================================================
