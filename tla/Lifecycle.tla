----------------------------- MODULE Lifecycle -----------------------------
(***************************************************************************)
(* Trial execution in the Agent Capability Observatory: the management API *)
(* process, the singleton execution manager and one supervisor process per *)
(* run, all writing one SQLite file.  An action is what a process does     *)
(* between two commits; a process may die between any two actions.  The    *)
(* answer on disk is followed only as far as restart recovery reads it;    *)
(* freezing and copying a workspace is module Sealing's subject.           *)
(***************************************************************************)
EXTENDS Integers, FiniteSets

CONSTANTS
    Trial,              \* planned trials: their rowids, the order of claims
    Experiment,
    ExpOf,              \* [Trial -> Experiment]
    MaxManagerCrashes,  \* bounds on the failures one behaviour may contain
    MaxApiCrashes,
    MaxKills            \* supervisors killed by the host or the watchdog

ASSUME TrialAssumption == Trial \subseteq Nat \ {0} /\ IsFiniteSet(Trial)
ASSUME ExpAssumption == ExpOf \in [Trial -> Experiment]
ASSUME BoundAssumption ==
    MaxManagerCrashes \in Nat /\ MaxApiCrashes \in Nat /\ MaxKills \in Nat

VARIABLES
    exp,        \* experiments.status
    trial,      \* trials.status
    run,        \* trial_runs.status; "none" is no row (trial_id is UNIQUE)
    ident,      \* recorded (pid, start tick): placeholder -1 or the real one
    answer,     \* sealed_answers.status; "none" is no row
    disk,       \* sealing/<run>/staging and answers/<digest> of the trial
    sup,        \* program counter of the trial's supervisor process
    timedOut,   \* handle_timeout owns the supervisor's seal
    mgr,        \* the execution manager's volatile state
    api,        \* the management API's volatile state
    faults      \* failures injected so far

rows   == <<exp, trial, run, ident, answer>>
supvars == <<sup, timedOut>>
vars   == <<exp, trial, run, ident, answer, disk, sup, timedOut, mgr, api, faults>>

NoTrial == 0
Terminal == {"sealed", "anomaly", "cancelled"}
Verdicts == {"sealed", "anomaly"}
TrialStatus == {"planned", "claimed", "running"} \cup Terminal
ExpStatus == {"planned", "running", "paused", "completed", "cancelled"}
RunStatus == {"none", "launching", "running", "finished", "error"}
Unfinished == {"launching", "running"}
Identity == {"none", "placeholder", "recorded"}
SealPc == {"copying", "copied", "published"}
SupPc == {"none", "boot", "preMark", "preFinish", "starting", "agent", "sealFailed",
          "ended", "verdict", "finishRun", "finishTrial", "crash", "crashMark",
          "crashFinish", "dead"} \cup SealPc
ReapPc == {"startReap", "loopReap"}
MgrPc == {"down", "claims", "artifacts", "reconcile", "reconciling", "pauseRead",
          "pauseWrite", "loop", "claim", "mint", "create", "spawn", "record", "wait",
          "lostRun", "lostMark", "lostFinish"} \cup ReapPc
StopPc == {"stopRead", "stopMark", "stopRun", "stopTrial"}
ApiPc == {"idle", "answered", "stopNext"} \cup StopPc

\* What the manager holds in memory: the trial at hand, the runs still to visit, the
\* answer rows and experiments it has read, and where a reaped trial returns to.
ManagerState == [pc: MgrPc, trial: Trial \cup {NoTrial}, work: SUBSET Trial,
                 rows: SUBSET (Trial \X Verdicts), exps: SUBSET Experiment,
                 ret: ReapPc \cup {"loop"}]
\* What a cancel in progress holds: its experiment, the answer rows and the runs
\* it has read, the run at hand and the answer status read for it.
ApiState == [pc: ApiPc, exps: SUBSET Experiment, rows: SUBSET (Trial \X Verdicts),
             runs: SUBSET (Trial \X Identity), trial: Trial \cup {NoTrial},
             seen: {"none"} \cup Verdicts]

TypeOK ==
    /\ exp \in [Experiment -> ExpStatus]
    /\ trial \in [Trial -> TrialStatus]
    /\ run \in [Trial -> RunStatus]
    /\ ident \in [Trial -> Identity]
    /\ answer \in [Trial -> {"none"} \cup Verdicts]
    /\ disk \in [Trial -> {"none", "staging", "complete", "published"}]
    /\ sup \in [Trial -> SupPc]
    /\ timedOut \in [Trial -> BOOLEAN]
    /\ mgr \in ManagerState
    /\ api \in ApiState
    /\ faults \in [manager: 0..MaxManagerCrashes, api: 0..MaxApiCrashes, kill: 0..MaxKills]

TrialsOf(e) == {t \in Trial : ExpOf[t] = e}
Alive(t) == sup[t] \notin {"none", "dead"}

\* The recorded identity still names the live process (runs.supervisor_matches).
Vouched(t, id) == id = "recorded" /\ Alive(t)

\* A trial whose session capability has expired (session.trial_terminated).
Terminated(t) == trial[t] = "cancelled" \/ answer[t] # "none"

ManagerDown == [pc |-> "down", trial |-> NoTrial, work |-> {}, rows |-> {},
                exps |-> {}, ret |-> "loop"]
ApiIdle == [pc |-> "idle", exps |-> {}, rows |-> {}, runs |-> {},
            trial |-> NoTrial, seen |-> "none"]

Init ==
    /\ exp = [e \in Experiment |-> "planned"]
    /\ trial = [t \in Trial |-> "planned"]
    /\ run = [t \in Trial |-> "none"]
    /\ ident = [t \in Trial |-> "none"]
    /\ answer = [t \in Trial |-> "none"]
    /\ disk = [t \in Trial |-> "none"]
    /\ sup = [t \in Trial |-> "none"]
    /\ timedOut = [t \in Trial |-> FALSE]
    /\ mgr = ManagerDown
    /\ api = ApiIdle
    /\ faults = [manager |-> 0, api |-> 0, kill |-> 0]

-----------------------------------------------------------------------------
(* The row updates every process shares.  Each is one commit.              *)

\* Mutant: a claimed trial is not counted as open.
CompletedDespiteClaims(e, st) ==
    IF /\ \A t \in TrialsOf(e) : st[t] \in Terminal \cup {"claimed"}
       /\ exp[e] \in {"planned", "running", "paused"}
    THEN [exp EXCEPT ![e] = "completed"]
    ELSE exp

\* lifecycle.complete_experiment_if_done, for trial statuses st.
Completed(e, st) ==
    IF /\ \A t \in TrialsOf(e) : st[t] \in Terminal
       /\ exp[e] \in {"planned", "running", "paused"}
    THEN [exp EXCEPT ![e] = "completed"]
    ELSE exp

\* lifecycle.finish_trial: the first legal trigger wins, a later one is a no-op.
FinishTrial(t, outcome) ==
    IF trial[t] \in Terminal
    THEN UNCHANGED <<trial, exp>>
    ELSE /\ trial' = [trial EXCEPT ![t] = outcome]
         /\ exp' = Completed(ExpOf[t], trial')

\* runs.finish_run: guarded by the run's status.
FinishRun(t, status) ==
    run' = IF run[t] \in Unfinished THEN [run EXCEPT ![t] = status] ELSE run

\* artifacts.mark_anomaly: an answer row that exists is never replaced.
MarkAnomaly(t) ==
    answer' = IF answer[t] = "none" THEN [answer EXCEPT ![t] = "anomaly"] ELSE answer

\* The outcome a finisher reads from the answer row.
OutcomeOf(t) == IF answer[t] = "none" THEN "anomaly" ELSE answer[t]

-----------------------------------------------------------------------------
(* The supervisor of trial t.                                              *)

SupGoto(t, pc) == sup' = [sup EXCEPT ![t] = pc]
SupExit(t) == SupGoto(t, "dead") /\ timedOut' = [timedOut EXCEPT ![t] = FALSE]

\* Contract, environment, target, skill or image rejected before any side effect:
\* finish_run, then _fail_before_agent_start's two writes.
RejectRun(t) ==
    /\ sup[t] = "boot"
    /\ FinishRun(t, "error")
    /\ SupGoto(t, "preMark")
    /\ UNCHANGED <<exp, trial, ident, answer, disk, timedOut, mgr, api, faults>>

RejectMark(t) ==
    /\ sup[t] = "preMark"
    /\ MarkAnomaly(t)
    /\ SupGoto(t, "preFinish")
    /\ UNCHANGED <<exp, trial, run, ident, disk, timedOut, mgr, api, faults>>

RejectFinish(t) ==
    /\ sup[t] = "preFinish"
    /\ FinishTrial(t, "anomaly")
    /\ SupExit(t)
    /\ UNCHANGED <<run, ident, answer, disk, mgr, api, faults>>

\* on_agent_start, first commit: runs.mark_running has no status guard.
MarkRunning(t) ==
    /\ sup[t] = "boot"
    /\ run' = [run EXCEPT ![t] = "running"]
    /\ SupGoto(t, "starting")
    /\ UNCHANGED <<exp, trial, ident, answer, disk, timedOut, mgr, api, faults>>

\* Mutant: the update is keyed by the trial's id alone.
MarkTrialRunningBlind(t) ==
    /\ sup[t] = "starting"
    /\ trial' = [trial EXCEPT ![t] = "running"]
    /\ SupGoto(t, "agent")
    /\ UNCHANGED <<exp, run, ident, answer, disk, timedOut, mgr, api, faults>>

\* on_agent_start, second commit: mark_trial_running, committed by add_phase.
MarkTrialRunning(t) ==
    /\ sup[t] = "starting"
    /\ trial' = IF trial[t] = "claimed" THEN [trial EXCEPT ![t] = "running"] ELSE trial
    /\ SupGoto(t, "agent")
    /\ UNCHANGED <<exp, run, ident, answer, disk, timedOut, mgr, api, faults>>

\* Where the supervisor continues once _seal_after_run returns.
AfterSeal(late) == IF late THEN "verdict" ELSE "ended"

\* artifacts.seal: an existing answer row is returned, otherwise staging begins.
EnterSeal(t, late) ==
    /\ IF answer[t] # "none"
       THEN SupGoto(t, AfterSeal(late)) /\ UNCHANGED disk
       ELSE SupGoto(t, "copying") /\ disk' = [disk EXCEPT ![t] = "staging"]

\* The AGENT_END hook: the agent exited, or the submit watcher stopped it.
AgentEnd(t) ==
    /\ sup[t] = "agent"
    /\ EnterSeal(t, FALSE)
    /\ UNCHANGED <<rows, timedOut, mgr, api, faults>>

\* Copied, validated, and the manifest written into staging.  Staging that
\* recovery removed meanwhile makes the copy fail instead (SealError).
SealCopied(t) ==
    /\ sup[t] = "copying"
    /\ disk[t] = "staging"
    /\ disk' = [disk EXCEPT ![t] = "complete"]
    /\ SupGoto(t, "copied")
    /\ UNCHANGED <<rows, timedOut, mgr, api, faults>>

\* artifacts.publish: rename staging to answers/<digest>.
SealPublished(t) ==
    /\ sup[t] = "copied"
    /\ disk[t] = "complete"
    /\ disk' = [disk EXCEPT ![t] = "published"]
    /\ SupGoto(t, "published")
    /\ UNCHANGED <<rows, timedOut, mgr, api, faults>>

\* artifacts.register: a row that exists wins.
SealRegistered(t) ==
    /\ sup[t] = "published"
    /\ answer' = IF answer[t] = "none" THEN [answer EXCEPT ![t] = "sealed"] ELSE answer
    /\ SupGoto(t, AfterSeal(timedOut[t]))
    /\ UNCHANGED <<exp, trial, run, ident, disk, timedOut, mgr, api, faults>>

\* Any SealError: _seal_after_run's handler records an anomaly in a later commit.
SealError(t) ==
    /\ sup[t] \in SealPc
    /\ SupGoto(t, "sealFailed")
    /\ UNCHANGED <<rows, disk, timedOut, mgr, api, faults>>

SealAnomaly(t) ==
    /\ sup[t] = "sealFailed"
    /\ MarkAnomaly(t)
    /\ SupGoto(t, AfterSeal(timedOut[t]))
    /\ UNCHANGED <<exp, trial, run, ident, disk, timedOut, mgr, api, faults>>

\* handle_timeout: the outer deadline, or Harbor's own agent timeout.  Before a
\* container was discovered there is nothing to seal; a seal the AGENT_END hook
\* has under way is the one whose result the timeout path then finds.
HandleTimeout(t) ==
    /\ ~timedOut[t]
    /\ timedOut' = [timedOut EXCEPT ![t] = TRUE]
    /\ \/ sup[t] = "boot" /\ SupGoto(t, "sealFailed") /\ UNCHANGED disk
       \/ sup[t] \in {"agent", "ended"} /\ EnterSeal(t, TRUE)
       \/ sup[t] \in SealPc \cup {"sealFailed"} /\ UNCHANGED <<sup, disk>>
    /\ UNCHANGED <<rows, mgr, api, faults>>

\* record_timeout_verdict: over tolerance, a sealed answer becomes an anomaly.
TimeoutVerdict(t) ==
    /\ sup[t] = "verdict"
    /\ \/ UNCHANGED answer
       \/ answer[t] = "sealed" /\ answer' = [answer EXCEPT ![t] = "anomaly"]
    /\ SupGoto(t, "finishRun")
    /\ UNCHANGED <<exp, trial, run, ident, disk, timedOut, mgr, api, faults>>

TimeoutFinishRun(t) ==
    /\ sup[t] = "finishRun"
    /\ FinishRun(t, "error")
    /\ SupGoto(t, "finishTrial")
    /\ UNCHANGED <<exp, trial, ident, answer, disk, timedOut, mgr, api, faults>>

\* Harbor returned a result: after AGENT_END, or with an environment error that
\* never reached the agent ("boot").
ResultFinishRun(t) ==
    /\ sup[t] \in {"boot", "ended"}
    /\ ~timedOut[t]
    /\ FinishRun(t, "finished")
    /\ SupGoto(t, "finishTrial")
    /\ UNCHANGED <<exp, trial, ident, answer, disk, timedOut, mgr, api, faults>>

\* _finish_trial_from_answer, after which the supervisor exits.
FinishFromAnswer(t) ==
    /\ sup[t] = "finishTrial"
    /\ FinishTrial(t, OutcomeOf(t))
    /\ SupExit(t)
    /\ UNCHANGED <<run, ident, answer, disk, mgr, api, faults>>

\* An exception reaches main: its handler finishes run, answer and trial in turn,
\* and skips the run for an interrupt (a BaseException that is no Exception).
Raise(t) ==
    /\ sup[t] \in {"boot", "starting", "agent", "ended", "verdict", "finishRun"}
    /\ \E pc \in {"crash", "crashMark"} : SupGoto(t, pc)
    /\ UNCHANGED <<rows, disk, timedOut, mgr, api, faults>>

CrashFinishRun(t) ==
    /\ sup[t] = "crash"
    /\ FinishRun(t, "error")
    /\ SupGoto(t, "crashMark")
    /\ UNCHANGED <<exp, trial, ident, answer, disk, timedOut, mgr, api, faults>>

CrashMark(t) ==
    /\ sup[t] = "crashMark"
    /\ MarkAnomaly(t)
    /\ SupGoto(t, "crashFinish")
    /\ UNCHANGED <<exp, trial, run, ident, disk, timedOut, mgr, api, faults>>

\* Mutant: the handler stops after the answer row.
CrashExit(t) ==
    /\ sup[t] = "crashFinish"
    /\ SupExit(t)
    /\ UNCHANGED <<rows, disk, mgr, api, faults>>

CrashFinish(t) ==
    /\ sup[t] = "crashFinish"
    /\ FinishTrial(t, OutcomeOf(t))
    /\ SupExit(t)
    /\ UNCHANGED <<run, ident, answer, disk, mgr, api, faults>>

\* The host kills the process, or the manager's watchdog does (proc.kill).
Killed(t) ==
    /\ Alive(t)
    /\ faults.kill < MaxKills
    /\ faults' = [faults EXCEPT !.kill = @ + 1]
    /\ SupExit(t)
    /\ UNCHANGED <<rows, disk, mgr, api>>

SupStep(t) ==
    \/ RejectRun(t) \/ RejectMark(t) \/ RejectFinish(t)
    \/ MarkRunning(t) \/ MarkTrialRunning(t) \/ AgentEnd(t)
    \/ SealCopied(t) \/ SealPublished(t) \/ SealRegistered(t)
    \/ SealError(t) \/ SealAnomaly(t)
    \/ HandleTimeout(t) \/ TimeoutVerdict(t) \/ TimeoutFinishRun(t)
    \/ ResultFinishRun(t) \/ FinishFromAnswer(t)
    \/ Raise(t) \/ CrashFinishRun(t) \/ CrashMark(t) \/ CrashFinish(t)

-----------------------------------------------------------------------------
(* The execution manager.                                                  *)

MgrGoto(pc) == mgr' = [mgr EXCEPT !.pc = pc]
\* Leaves the trial at hand for the caller, or for the next iteration of main.
MgrReturn(pc) == mgr' = [mgr EXCEPT !.pc = pc, !.trial = NoTrial, !.ret = "loop"]

\* main: the flock is free, startup_recovery begins.
ManagerStart ==
    /\ mgr.pc = "down"
    /\ MgrGoto("claims")
    /\ UNCHANGED <<rows, disk, supvars, api, faults>>

\* Mutant: every claim is reset, launched or not.
RecoverAllClaims ==
    /\ mgr.pc = "claims"
    /\ trial' = [t \in Trial |-> IF trial[t] = "claimed" THEN "planned" ELSE trial[t]]
    /\ mgr' = [mgr EXCEPT !.pc = "artifacts", !.work = Trial]
    /\ UNCHANGED <<exp, run, ident, answer, disk, supvars, api, faults>>

\* recover_stale_claims: only a claim with no launch intent is reset.
RecoverStaleClaims ==
    /\ mgr.pc = "claims"
    /\ trial' = [t \in Trial |-> IF trial[t] = "claimed" /\ run[t] = "none"
                                 THEN "planned" ELSE trial[t]]
    /\ mgr' = [mgr EXCEPT !.pc = "artifacts", !.work = Trial]
    /\ UNCHANGED <<exp, run, ident, answer, disk, supvars, api, faults>>

\* artifacts.recover for one trial's directories.  A complete manifest is
\* published and registered unless its content contradicts it; staging without
\* a manifest proves no freeze.
RecoverAnswer(t) ==
    /\ mgr.pc = "artifacts"
    /\ t \in mgr.work
    /\ mgr' = [mgr EXCEPT !.work = @ \ {t}]
    /\ \/ /\ disk[t] = "none" \/ answer[t] # "none"
          /\ UNCHANGED answer
          /\ disk' = [disk EXCEPT ![t] = IF @ = "published" THEN @ ELSE "none"]
       \/ /\ answer[t] = "none"
          /\ disk[t] \in {"complete", "published"}
          /\ answer' = [answer EXCEPT ![t] = "sealed"]
          /\ disk' = [disk EXCEPT ![t] = "published"]
       \/ /\ answer[t] = "none"
          /\ disk[t] # "none"
          /\ MarkAnomaly(t)
          /\ disk' = [disk EXCEPT ![t] = IF @ = "published" THEN @ ELSE "none"]
    /\ UNCHANGED <<exp, trial, run, ident, supvars, api, faults>>

\* Mutant: a run that never reached its agent is not looked for.
RunningRuns == {t \in Trial : run[t] = "running"}

\* runs.unfinished_runs is read once; the loop then works through that list.
UnfinishedRuns == {t \in Trial : run[t] \in Unfinished}

StartReap ==
    /\ mgr.pc = "artifacts"
    /\ mgr.work = {}
    /\ mgr' = [mgr EXCEPT !.pc = "startReap", !.work = UnfinishedRuns]
    /\ UNCHANGED <<rows, disk, supvars, api, faults>>

LoopReap ==
    /\ mgr.pc = "loop"
    /\ mgr' = [mgr EXCEPT !.pc = "loopReap", !.work = UnfinishedRuns]
    /\ UNCHANGED <<rows, disk, supvars, api, faults>>

\* reap_lost_supervisors: a vouched-for supervisor is left alone.
Reap(t) ==
    /\ mgr.pc \in ReapPc
    /\ t \in mgr.work
    /\ mgr' = IF Vouched(t, ident[t])
              THEN [mgr EXCEPT !.work = @ \ {t}]
              ELSE [mgr EXCEPT !.work = @ \ {t}, !.trial = t, !.pc = "lostRun", !.ret = mgr.pc]
    /\ UNCHANGED <<rows, disk, supvars, api, faults>>

ReapDone ==
    /\ mgr.pc \in ReapPc
    /\ mgr.work = {}
    /\ MgrGoto(IF mgr.pc = "startReap" THEN "reconcile" ELSE "claim")
    /\ UNCHANGED <<rows, disk, supvars, api, faults>>

\* _terminalize_lost_run: three commits, then back to the caller.
LostRun ==
    /\ mgr.pc = "lostRun"
    /\ FinishRun(mgr.trial, "error")
    /\ MgrGoto("lostMark")
    /\ UNCHANGED <<exp, trial, ident, answer, disk, supvars, api, faults>>

LostMark ==
    /\ mgr.pc = "lostMark"
    /\ MarkAnomaly(mgr.trial)
    /\ MgrGoto("lostFinish")
    /\ UNCHANGED <<exp, trial, run, ident, disk, supvars, api, faults>>

LostFinish ==
    /\ mgr.pc = "lostFinish"
    /\ FinishTrial(mgr.trial, OutcomeOf(mgr.trial))
    /\ MgrReturn(mgr.ret)
    /\ UNCHANGED <<run, ident, answer, disk, supvars, api, faults>>

\* Mutant: an anomaly needs no finishing.
SealedOpen(T) ==
    {<<t, answer[t]>> : t \in {u \in T : answer[u] = "sealed" /\ trial[u] \notin Terminal}}

\* Answer rows whose trial is not terminal, with the status read.
AnsweredOpen(T) ==
    {<<t, answer[t]>> : t \in {u \in T : answer[u] # "none" /\ trial[u] \notin Terminal}}

\* reconcile_terminal_trials: one read, one finish_trial per row, then the
\* experiments all of whose trials finished across the crash.
ReconcileRead ==
    /\ mgr.pc = "reconcile"
    /\ mgr' = [mgr EXCEPT !.pc = "reconciling", !.rows = AnsweredOpen(Trial)]
    /\ UNCHANGED <<rows, disk, supvars, api, faults>>

ReconcileTrial(row) ==
    /\ mgr.pc = "reconciling"
    /\ row \in mgr.rows
    /\ mgr' = [mgr EXCEPT !.rows = @ \ {row}]
    /\ FinishTrial(row[1], row[2])
    /\ UNCHANGED <<run, ident, answer, disk, supvars, api, faults>>

ReconcileExperiments ==
    /\ mgr.pc = "reconciling"
    /\ mgr.rows = {}
    /\ exp' = [e \in Experiment |->
                 IF TrialsOf(e) = {} THEN exp[e] ELSE Completed(e, trial)[e]]
    /\ MgrGoto("pauseRead")
    /\ UNCHANGED <<trial, run, ident, answer, disk, supvars, api, faults>>

\* pause_unstarted_on_restart: the UPDATE is keyed by id alone.
PauseRead ==
    /\ mgr.pc = "pauseRead"
    /\ mgr' = [mgr EXCEPT !.pc = "pauseWrite",
                 !.exps = {e \in Experiment : /\ exp[e] \in {"planned", "running"}
                                              /\ \E t \in TrialsOf(e) : trial[t] = "planned"}]
    /\ UNCHANGED <<rows, disk, supvars, api, faults>>

PauseWrite ==
    /\ mgr.pc = "pauseWrite"
    /\ exp' = [e \in Experiment |-> IF e \in mgr.exps THEN "paused" ELSE exp[e]]
    /\ mgr' = [mgr EXCEPT !.pc = "loop", !.exps = {}]
    /\ UNCHANGED <<trial, run, ident, answer, disk, supvars, api, faults>>

Active == {"planned", "running"}
Claimable == {t \in Trial : trial[t] = "planned" /\ exp[ExpOf[t]] \in Active}

\* claim_next_planned: the oldest planned trial of an active experiment.
Claim(t) ==
    /\ mgr.pc = "claim"
    /\ t \in Claimable
    /\ \A u \in Claimable : t <= u
    /\ trial' = [trial EXCEPT ![t] = "claimed"]
    /\ exp' = [exp EXCEPT ![ExpOf[t]] = "running"]
    /\ mgr' = [mgr EXCEPT !.pc = "mint", !.trial = t]
    /\ UNCHANGED <<run, ident, answer, disk, supvars, api, faults>>

ClaimNothing ==
    /\ mgr.pc = "claim"
    /\ Claimable = {}
    /\ MgrGoto("loop")
    /\ UNCHANGED <<rows, disk, supvars, api, faults>>

\* mint_session_token, served by the API process between two requests.
MintToken ==
    /\ mgr.pc = "mint"
    /\ api.pc = "idle"
    /\ ~Terminated(mgr.trial)
    /\ MgrGoto("create")
    /\ UNCHANGED <<rows, disk, supvars, api, faults>>

\* Mutant: the trial is given up instead of unclaimed.
MintFailedGivesUp ==
    /\ mgr.pc = "mint"
    /\ FinishTrial(mgr.trial, "anomaly")
    /\ MgrReturn("loop")
    /\ UNCHANGED <<run, ident, answer, disk, supvars, api, faults>>

\* No token (refused, or the API did not answer in time): unclaim, never over a
\* cancel.
MintFailed ==
    /\ mgr.pc = "mint"
    /\ trial' = IF trial[mgr.trial] = "claimed" /\ exp[ExpOf[mgr.trial]] \in Active
                THEN [trial EXCEPT ![mgr.trial] = "planned"] ELSE trial
    /\ MgrReturn("loop")
    /\ UNCHANGED <<exp, run, ident, answer, disk, supvars, api, faults>>

\* runs.create_run: the launch intent, with the placeholder pid.
CreateRun ==
    /\ mgr.pc = "create"
    /\ run' = [run EXCEPT ![mgr.trial] = "launching"]
    /\ ident' = [ident EXCEPT ![mgr.trial] = "placeholder"]
    /\ MgrGoto("spawn")
    /\ UNCHANGED <<exp, trial, answer, disk, supvars, api, faults>>

Spawn ==
    /\ mgr.pc = "spawn"
    /\ SupGoto(mgr.trial, "boot")
    /\ MgrGoto("record")
    /\ UNCHANGED <<rows, disk, timedOut, api, faults>>

SpawnFailed ==
    /\ mgr.pc = "spawn"
    /\ MgrGoto("lostRun")
    /\ UNCHANGED <<rows, disk, supvars, api, faults>>

\* runs.record_supervisor: an unreaped child still has its /proc entry.
RecordSupervisor ==
    /\ mgr.pc = "record"
    /\ ident' = [ident EXCEPT ![mgr.trial] = "recorded"]
    /\ MgrGoto("wait")
    /\ UNCHANGED <<exp, trial, run, answer, disk, supvars, api, faults>>

\* Mutant: the watchdog expires and nobody kills the child.
WaitExpires ==
    /\ mgr.pc = "wait"
    /\ IF run[mgr.trial] \in Unfinished THEN MgrGoto("lostRun") ELSE MgrReturn("loop")
    /\ UNCHANGED <<rows, disk, supvars, api, faults>>

\* The child was reaped; run_one reads the run row it left.
WaitDone ==
    /\ mgr.pc = "wait"
    /\ ~Alive(mgr.trial)
    /\ IF run[mgr.trial] \in Unfinished THEN MgrGoto("lostRun") ELSE MgrReturn("loop")
    /\ UNCHANGED <<rows, disk, supvars, api, faults>>

\* The manager process dies; its supervisors live on.
ManagerCrash ==
    /\ mgr.pc # "down"
    /\ faults.manager < MaxManagerCrashes
    /\ faults' = [faults EXCEPT !.manager = @ + 1]
    /\ mgr' = ManagerDown
    /\ UNCHANGED <<rows, disk, supvars, api>>

MgrStep ==
    \/ ManagerStart \/ RecoverStaleClaims \/ StartReap \/ LoopReap \/ ReapDone
    \/ \E t \in Trial : RecoverAnswer(t) \/ Reap(t) \/ Claim(t)
    \/ LostRun \/ LostMark \/ LostFinish
    \/ ReconcileRead \/ ReconcileExperiments
    \/ \E row \in Trial \X Verdicts : ReconcileTrial(row)
    \/ PauseRead \/ PauseWrite
    \/ ClaimNothing \/ MintToken \/ MintFailed
    \/ CreateRun \/ Spawn \/ SpawnFailed \/ RecordSupervisor \/ WaitDone

-----------------------------------------------------------------------------
(* The management API process: cancel and resume.  Its handlers block the  *)
(* event loop, so one request runs at a time.                              *)

ApiGoto(pc) == api' = [api EXCEPT !.pc = pc]

\* cancel_experiment, step 0: trials a crash left open behind an answer row.
CancelBegin(e) ==
    /\ api.pc = "idle"
    /\ exp[e] # "cancelled"
    /\ api' = [api EXCEPT !.pc = "answered", !.exps = {e}, !.rows = AnsweredOpen(TrialsOf(e))]
    /\ UNCHANGED <<rows, disk, supvars, mgr, faults>>

CancelAnswered(row) ==
    /\ api.pc = "answered"
    /\ row \in api.rows
    /\ api' = [api EXCEPT !.rows = @ \ {row}]
    /\ FinishTrial(row[1], row[2])
    /\ UNCHANGED <<run, ident, answer, disk, supvars, mgr, faults>>

\* Mutant: a claim is left to the manager.
CancelPlanned(e) ==
    [t \in Trial |-> IF ExpOf[t] = e /\ trial[t] = "planned" THEN "cancelled" ELSE trial[t]]

\* Step 1: never-launched trials can never run again.
CancelUnlaunched(e) ==
    [t \in Trial |-> IF /\ ExpOf[t] = e
                        /\ trial[t] = "planned" \/ (trial[t] = "claimed" /\ run[t] = "none")
                     THEN "cancelled" ELSE trial[t]]

\* _stop_run up to its first commit.  A vouched-for supervisor dies before its
\* answer row is read, under the write lock; otherwise add_phase commits first.
StopHead(r, rest) ==
    LET t == r[1] IN
    IF Vouched(t, r[2])
    THEN /\ SupExit(t)
         /\ api' = [api EXCEPT !.runs = rest, !.trial = t, !.seen = answer[t],
                               !.pc = IF answer[t] = "none" THEN "stopRun" ELSE "stopTrial"]
         /\ MarkAnomaly(t)
         /\ IF answer[t] = "none" THEN UNCHANGED run ELSE FinishRun(t, "error")
    ELSE /\ api' = [api EXCEPT !.runs = rest, !.trial = t, !.pc = "stopRead"]
         /\ UNCHANGED <<supvars, answer, run>>

\* Step 2's list of unfinished runs, with the identity read for each.
RunsToStop(e) == {<<t, ident[t]>> : t \in {u \in TrialsOf(e) : run[u] \in Unfinished}}

\* Step 1 is committed with the first stop or, with nothing to stop, with the
\* experiment's own status.
CancelPlan(e) ==
    /\ api.pc = "answered"
    /\ e \in api.exps
    /\ api.rows = {}
    /\ trial' = CancelUnlaunched(e)
    /\ IF RunsToStop(e) = {}
       THEN /\ exp' = [exp EXCEPT ![e] = "cancelled"]
            /\ api' = ApiIdle
            /\ UNCHANGED <<supvars, answer, run>>
       ELSE /\ UNCHANGED exp
            /\ \E r \in RunsToStop(e) : StopHead(r, RunsToStop(e) \ {r})
    /\ UNCHANGED <<ident, disk, mgr, faults>>

\* The row read decides the outcome, whatever is recorded after it.
StopRead ==
    /\ api.pc = "stopRead"
    /\ api' = [api EXCEPT !.seen = answer[api.trial],
                          !.pc = IF answer[api.trial] = "none" THEN "stopMark" ELSE "stopRun"]
    /\ UNCHANGED <<rows, disk, supvars, mgr, faults>>

StopMark ==
    /\ api.pc = "stopMark"
    /\ MarkAnomaly(api.trial)
    /\ ApiGoto("stopRun")
    /\ UNCHANGED <<exp, trial, run, ident, disk, supvars, mgr, faults>>

StopRun ==
    /\ api.pc = "stopRun"
    /\ FinishRun(api.trial, "error")
    /\ ApiGoto("stopTrial")
    /\ UNCHANGED <<exp, trial, ident, answer, disk, supvars, mgr, faults>>

\* Mutant: the trial is left to the supervisor that was just stopped.
StopTrialLeft ==
    /\ api.pc = "stopTrial"
    /\ api' = [api EXCEPT !.pc = "stopNext", !.trial = NoTrial, !.seen = "none"]
    /\ UNCHANGED <<rows, disk, supvars, mgr, faults>>

StopTrial ==
    /\ api.pc = "stopTrial"
    /\ FinishTrial(api.trial, IF api.seen = "sealed" THEN "sealed" ELSE "cancelled")
    /\ api' = [api EXCEPT !.pc = "stopNext", !.trial = NoTrial, !.seen = "none"]
    /\ UNCHANGED <<run, ident, answer, disk, supvars, mgr, faults>>

StopNext ==
    /\ api.pc = "stopNext"
    /\ \E r \in api.runs : StopHead(r, api.runs \ {r})
    /\ UNCHANGED <<exp, trial, ident, disk, mgr, faults>>

\* The final UPDATE has no status guard.
CancelEnd(e) ==
    /\ api.pc = "stopNext"
    /\ e \in api.exps
    /\ api.runs = {}
    /\ exp' = [exp EXCEPT ![e] = "cancelled"]
    /\ api' = ApiIdle
    /\ UNCHANGED <<trial, run, ident, answer, disk, supvars, mgr, faults>>

Resume(e) ==
    /\ api.pc = "idle"
    /\ exp[e] = "paused"
    /\ exp' = [exp EXCEPT ![e] = "running"]
    /\ UNCHANGED <<trial, run, ident, answer, disk, supvars, mgr, api, faults>>

\* The API process dies inside a cancel; the client may send it again.
ApiCrash ==
    /\ api.pc # "idle"
    /\ faults.api < MaxApiCrashes
    /\ faults' = [faults EXCEPT !.api = @ + 1]
    /\ api' = ApiIdle
    /\ UNCHANGED <<rows, disk, supvars, mgr>>

\* What the API does once a cancel was accepted.
CancelStep ==
    \/ \E row \in Trial \X Verdicts : CancelAnswered(row)
    \/ \E e \in Experiment : CancelPlan(e) \/ CancelEnd(e)
    \/ StopRead \/ StopMark \/ StopRun \/ StopTrial \/ StopNext

ApiStep == CancelStep \/ \E e \in Experiment : CancelBegin(e) \/ Resume(e)

Fault == ManagerCrash \/ ApiCrash \/ \E t \in Trial : Killed(t)

Next == MgrStep \/ ApiStep \/ Fault \/ \E t \in Trial : SupStep(t)

Spec == Init /\ [][Next]_vars
-----------------------------------------------------------------------------
(* Fairness.  A live process keeps taking steps: every wait in it has a    *)
(* deadline (the agent timeout, the 5 s busy timeout, the mint timeout).   *)
(* The operator restarts a dead manager; nothing obliges a client to       *)
(* cancel, resume or repeat a cancel.                                      *)

FairSpec ==
    /\ Spec
    /\ WF_vars(MgrStep)
    /\ WF_vars(CancelStep)
    /\ \A t \in Trial : WF_vars(SupStep(t))

-----------------------------------------------------------------------------
(* Safety.                                                                 *)

\* An attempted trial is never silently re-answered: once a launch intent, a
\* supervisor, files or an answer exist, no recovery, unclaim or cancel leaves the
\* trial where the next claim would launch it a second time.
NeverRerun ==
    \A t \in Trial :
        trial[t] = "planned" \/ (mgr.pc \in {"mint", "create"} /\ mgr.trial = t) =>
            run[t] = "none" /\ sup[t] = "none" /\ answer[t] = "none" /\ disk[t] = "none"

\* Official outcomes have an answer row: whichever process finished the trial as
\* sealed (supervisor, reaper, reconciliation, cancel), that row was there first.
SealedHasAnswer == \A t \in Trial : trial[t] = "sealed" => answer[t] # "none"

\* A completed experiment has nothing left to run and nothing still to be decided,
\* although claims, unclaims, cancels and startup reconciliation all race with it.
CompletedIsDone ==
    \A e \in Experiment :
        exp[e] = "completed" => \A t \in TrialsOf(e) : trial[t] \in Terminal

\* A cancelled experiment keeps no trial a manager could still claim, or would
\* have to unclaim: what the manager does between cancel's commits cannot bring
\* one back, neither while runs are being stopped nor afterwards.
CancelDrainsPlan ==
    \A e \in Experiment :
        exp[e] = "cancelled" \/ (e \in api.exps /\ api.pc \in StopPc \cup {"stopNext"}) =>
            \A t \in TrialsOf(e) :
                trial[t] # "planned" /\ (trial[t] = "claimed" => run[t] # "none")

\* The manager declares a supervisor lost only when no process of ours answers to
\* the recorded identity, also when the list of runs it works from is old.
OnlyLostAreReaped ==
    mgr.pc \in {"lostRun", "lostMark", "lostFinish"} => ~Vouched(mgr.trial, ident[mgr.trial])

-----------------------------------------------------------------------------
(* Action properties.                                                      *)

\* First legal trigger wins: a terminal trial is never re-finished or revived by
\* any process, however late its trigger lands.
TerminalIsFinal ==
    [][\A t \in Trial : trial[t] \in Terminal => trial'[t] = trial[t]]_vars

\* The answer row is written once; the only later change is a sealed answer's
\* disqualification.  An anomaly is never upgraded and no row disappears.
AnswerIsFinal ==
    [][\A t \in Trial : answer[t] # "none" =>
          answer'[t] = answer[t] \/ (answer[t] = "sealed" /\ answer'[t] = "anomaly")]_vars

\* Only an explicit cancel gives up a trial that has no answer and no run.
UnlaunchedOnlyCancelled ==
    [][\A t \in Trial : run[t] = "none" /\ trial'[t] \in Terminal /\ trial[t] \notin Terminal =>
          trial'[t] = "cancelled" /\ ExpOf[t] \in api.exps]_vars

-----------------------------------------------------------------------------
(* Liveness and refinement.                                                *)

\* A process has died between two commits of what it was doing.
Died == faults.manager + faults.api + faults.kill > 0

\* Every launch intent ends in a terminal trial, through supervisor failures,
\* timeouts, failed launches and cancels, unless a process dies on the way.
LaunchedSettles == \A t \in Trial : run[t] # "none" ~> trial[t] \in Terminal \/ Died

\* An accepted cancel reaches its end with every trial of the experiment terminal,
\* whatever the manager and the supervisors were doing when it arrived, unless a
\* process dies on the way.
CancelSettles ==
    \A e \in Experiment :
        e \in api.exps ~>
            Died \/ (api.pc = "idle" /\ \A t \in TrialsOf(e) : trial[t] \in Terminal)

\* An answer row gets its trial finished: a manager crash anywhere is made good by
\* the next start's reconciliation.  (A killed supervisor or API is, too, but only
\* if the manager happens to be restarted.)
AnsweredSettles ==
    \A t \in Trial :
        answer[t] # "none" ~> trial[t] \in Terminal \/ faults.kill + faults.api > 0

\* No run stays in flight forever: a killed supervisor is reaped, a killed reaper
\* is followed by another, a half-done cancel does not hide the run from either.
RunsEnd == \A t \in Trial : run[t] \in Unfinished ~> run[t] \notin Unfinished

\* What the rest of the system relies on, with processes and commits hidden.
Funnel == INSTANCE TrialFunnel WITH
    status <- trial,
    launched <- [t \in Trial |-> run[t] # "none"],
    verdict <- answer
ImplementsFunnel == Funnel!Spec

-----------------------------------------------------------------------------
(* Statements of the documentation and comments that the code does not     *)
(* keep; each has a configuration of its own.                              *)

\* "A cancelled experiment stays cancelled forever."
CancelIsForever ==
    [][\A e \in Experiment : exp[e] = "cancelled" => exp'[e] = "cancelled"]_vars

\* "cancelled: they can never run again."
CancelledNeverLaunches ==
    [][\A t \in Trial : trial[t] = "cancelled" /\ run[t] = "none" => run'[t] = "none"]_vars

\* "a run already finished or errored is never rewritten by a later finisher"
RunOutcomeIsFinal ==
    [][\A t \in Trial : run[t] \in {"finished", "error"} => run'[t] = run[t]]_vars

\* Adopted supervisors "record their own outcomes; the manager neither restarts
\* them nor treats them as lost".
AdoptedRecordTheirOwn ==
    [][\A t \in Trial : RecoverAnswer(t) /\ Vouched(t, ident[t]) =>
          answer'[t] = answer[t] \/ answer'[t] = "sealed"]_vars

\* "the trial must land in a terminal state even when the supervisor itself
\* crashes": a run that is over leaves its trial finished, or someone who will
\* finish it, or an answer row by which a restart or a cancel can.
NoneStranded ==
    \A t \in Trial :
        run[t] \in {"finished", "error"} /\ trial[t] \notin Terminal =>
            Alive(t) \/ answer[t] # "none" \/ mgr.trial = t \/ api.trial = t

\* The capability expires on every termination path: "revocation cannot be
\* forgotten".
TerminalRevokes == \A t \in Trial : trial[t] \in Terminal => Terminated(t)

=============================================================================
