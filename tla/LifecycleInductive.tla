------------------------ MODULE LifecycleInductive ------------------------
(***************************************************************************)
(* The inductive invariant behind the safety properties of Lifecycle: what *)
(* a launch leaves behind, and what each process may assume of the trial,  *)
(* the rows and the runs it read some commits ago.                         *)
(***************************************************************************)
EXTENDS Lifecycle

MgrTrialPc == {"mint", "create", "spawn", "record", "wait", "lostRun", "lostMark", "lostFinish"}

\* A program counter that works on a trial has one; a cancel is of one experiment.
AtHand ==
    /\ mgr.pc \in MgrTrialPc => mgr.trial \in Trial
    /\ api.pc \in StopPc => api.trial \in Trial
    /\ \A d, e \in api.exps : d = e

\* The launch intent comes first: nothing of a trial exists before its run row, and
\* a trial that can still be claimed has no run row.
LaunchFirst ==
    /\ \A t \in Trial : run[t] = "none" =>
          /\ sup[t] = "none" /\ answer[t] = "none" /\ disk[t] = "none" /\ ident[t] = "none"
          /\ trial[t] \in {"planned", "claimed", "cancelled"}
    /\ \A t \in Trial : trial[t] = "planned" => run[t] = "none"

\* run_one between its claim and its launch, and between its launch and its fork.
AtLaunch ==
    /\ mgr.pc \in {"mint", "create"} =>
          run[mgr.trial] = "none" /\ trial[mgr.trial] \in {"claimed", "cancelled"}
    /\ mgr.pc \in MgrTrialPc \ {"mint", "create"} => run[mgr.trial] # "none"
    /\ mgr.pc = "spawn" => sup[mgr.trial] = "none" /\ ident[mgr.trial] = "placeholder"

\* Lists read some commits ago hold nothing unlaunched and no withdrawn answer.
ListsHold ==
    /\ mgr.pc # "artifacts" => \A t \in mgr.work : run[t] # "none"
    /\ \A row \in mgr.rows \cup api.rows : answer[row[1]] # "none"
    /\ \A r \in api.runs : run[r[1]] # "none"
    /\ api.pc \in StopPc => run[api.trial] # "none"
    /\ api.seen # "none" => api.pc \in StopPc /\ answer[api.trial] # "none"

\* The inductive invariant: NeverRerun, SealedHasAnswer, CompletedIsDone,
\* CancelDrainsPlan and OnlyLostAreReaped are stable only together with what the
\* processes' lists and program counters stand for.
IInv ==
    /\ TypeOK
    /\ AtHand
    /\ LaunchFirst
    /\ AtLaunch
    /\ ListsHold
    /\ SealedHasAnswer
    /\ CompletedIsDone
    /\ CancelDrainsPlan
    /\ OnlyLostAreReaped
=============================================================================
