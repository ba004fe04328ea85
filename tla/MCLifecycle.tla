---------------------------- MODULE MCLifecycle ----------------------------
(* Small instances of Lifecycle for TLC.                                   *)
EXTENDS LifecycleInductive

\* All trials in one experiment.
OneExperiment == [t \in Trial |-> CHOOSE e \in Experiment : TRUE]
=============================================================================
