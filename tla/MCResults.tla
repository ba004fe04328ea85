----------------------------- MODULE MCResults -----------------------------
(* Plans for model checking Results.                                       *)
EXTENDS Results

\* Two repetitions of one task, one of another: tasks and trials weigh differently.
Tasked == [t1 |-> [task |-> "A", batch |-> "b1"], t2 |-> [task |-> "A", batch |-> "b1"],
           t3 |-> [task |-> "B", batch |-> "b1"]]

\* Two batches of one task, of different sizes, for the matrix.
Batched == [t1 |-> [task |-> "A", batch |-> "b1"], t2 |-> [task |-> "A", batch |-> "b1"],
            t3 |-> [task |-> "A", batch |-> "b2"]]

MCPlans == {Tasked, Batched}
MCDefault == [A |-> "s1", B |-> "s2"]

\* A suite with a task older than default scorers.
MCSuite == {Tasked}
MCLegacy == [A |-> "s1", B |-> None]
============================================================================
