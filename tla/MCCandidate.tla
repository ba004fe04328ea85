---------------------------- MODULE MCCandidate ----------------------------
(* Bundles of one task name@version for model checking Candidate.          *)
EXTENDS Candidate

\* Two bundles with one scorer, and a third one that differs in its verifier too.
MCBundle == {[task |-> "t1", scorer |-> "s1", env |-> "e1"],
             [task |-> "t2", scorer |-> "s1", env |-> "e2"],
             [task |-> "t3", scorer |-> "s2", env |-> "e1"]}

\* Two edits of the [verifier] table only: it is no part of the task content.
MCTwins == {[task |-> "t1", scorer |-> "s1", env |-> "e1"],
            [task |-> "t1", scorer |-> "s2", env |-> "e1"]}
============================================================================
