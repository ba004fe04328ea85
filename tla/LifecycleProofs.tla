-------------------------- MODULE LifecycleProofs --------------------------
(***************************************************************************)
(* Proofs about Lifecycle for every set of trials and experiments and any  *)
(* number of failures: IInv is inductive, each safety property follows     *)
(* from it, and every step is a step of TrialFunnel.  The lemmas first say *)
(* what the shared row updates do; then, for each kind of actor, one lemma *)
(* per part of the invariant, with one step per action.                    *)
(***************************************************************************)
EXTENDS LifecycleInductive, TLAPS

\* Every API step but the two that stop a run (CancelPlan, StopNext), and the faults.
RequestOrFault ==
    \/ StopRead \/ StopMark \/ StopRun \/ StopTrial
    \/ \E e \in Experiment : CancelBegin(e) \/ CancelEnd(e) \/ Resume(e)
    \/ \E row \in Trial \X Verdicts : CancelAnswered(row)
    \/ Fault

\* The initial state satisfies the inductive invariant.
LEMMA InitInductive == Init => IInv
<1> USE TrialAssumption, ExpAssumption, BoundAssumption
<1> SUFFICES ASSUME Init PROVE IInv
  OBVIOUS
<1>1. TypeOK
  BY DEF Init, TypeOK, ManagerDown, ApiIdle, ManagerState, ApiState, ExpStatus, TrialStatus,
         Terminal, RunStatus, Identity, SupPc, MgrPc, ApiPc, NoTrial
<1>2. AtHand /\ AtLaunch /\ ListsHold
  BY DEF Init, AtHand, AtLaunch, ListsHold, MgrTrialPc, StopPc, ManagerDown, ApiIdle
<1>3. LaunchFirst
  BY DEF Init, LaunchFirst
<1>4. SealedHasAnswer /\ CompletedIsDone /\ CancelDrainsPlan /\ OnlyLostAreReaped
  BY DEF Init, SealedHasAnswer, CompletedIsDone, CancelDrainsPlan, OnlyLostAreReaped,
         ManagerDown, ApiIdle, StopPc
<1>. QED
  BY <1>1, <1>2, <1>3, <1>4 DEF IInv

-----------------------------------------------------------------------------
(* What the shared row updates do.                                         *)

\* finish_trial moves at most one trial, only out of an open status, and completes only
\* experiments it leaves without an open trial.
LEMMA FinishTrialEffect ==
    ASSUME TypeOK, NEW t \in Trial, NEW o \in Terminal, FinishTrial(t, o)
    PROVE  /\ trial' \in [Trial -> TrialStatus]
           /\ exp' \in [Experiment -> ExpStatus]
           /\ trial'[t] = (IF trial[t] \in Terminal THEN trial[t] ELSE o)
           /\ \A u \in Trial : u # t => trial'[u] = trial[u]
           /\ \A e \in Experiment :
                 \/ exp'[e] = exp[e]
                 \/ /\ exp'[e] = "completed"
                    /\ exp[e] # "cancelled"
                    /\ \A u \in TrialsOf(e) : trial'[u] \in Terminal
<1> USE ExpAssumption DEF TypeOK, TrialStatus, ExpStatus, Terminal
<1>1. CASE trial[t] \in Terminal
  BY <1>1 DEF FinishTrial
<1>2. CASE trial[t] \notin Terminal
  <2>1. trial' = [trial EXCEPT ![t] = o] /\ exp' = Completed(ExpOf[t], trial')
    BY <1>2 DEF FinishTrial
  <2>2. /\ trial' \in [Trial -> TrialStatus]
        /\ trial'[t] = o
        /\ \A u \in Trial : u # t => trial'[u] = trial[u]
    BY <2>1
  <2>3. \A e \in Experiment : exp'[e] = exp[e] \/
            /\ exp'[e] = "completed" /\ exp[e] # "cancelled"
            /\ \A u \in TrialsOf(e) : trial'[u] \in Terminal
    BY <2>1 DEF Completed
  <2>4. exp' \in [Experiment -> ExpStatus]
    BY <2>1 DEF Completed
  <2>. QED
    BY <1>2, <2>2, <2>3, <2>4
<1>. QED
  BY <1>1, <1>2

\* Entering artifacts.seal moves one supervisor and one trial's files.
LEMMA EnterSealEffect ==
    ASSUME TypeOK, NEW t \in Trial, NEW late \in BOOLEAN, EnterSeal(t, late)
    PROVE  /\ \A u \in Trial : u # t => sup'[u] = sup[u] /\ disk'[u] = disk[u]
           /\ sup'[t] \in {"copying", "verdict", "ended"}
           /\ sup' \in [Trial -> SupPc]
           /\ disk' \in [Trial -> {"none", "staging", "complete", "published"}]
<1>1. CASE answer[t] = "none"
  BY <1>1 DEF TypeOK, EnterSeal, SupGoto, SupPc, SealPc
<1>2. CASE answer[t] # "none"
  BY <1>2 DEF TypeOK, EnterSeal, SupGoto, AfterSeal, SupPc, SealPc
<1>. QED
  BY <1>1, <1>2

\* _stop_run's first commit kills, marks and ends at most the run it was given.
LEMMA StopHeadEffect ==
    ASSUME TypeOK, NEW r \in Trial \X Identity,
           NEW rest \in SUBSET (Trial \X Identity), StopHead(r, rest)
    PROVE  /\ api' \in ApiState
           /\ api'.pc \in StopPc /\ api'.trial = r[1] /\ api'.runs = rest
           /\ api'.exps = api.exps /\ api'.rows = api.rows
           /\ api'.seen \in {api.seen, answer[r[1]]}
           /\ run' \in [Trial -> RunStatus]
           /\ answer' \in [Trial -> {"none"} \cup Verdicts]
           /\ sup' \in [Trial -> SupPc]
           /\ timedOut' \in [Trial -> BOOLEAN]
           /\ \A u \in Trial : run'[u] = run[u] \/ (run[u] \in Unfinished /\ run'[u] = "error")
           /\ \A u \in Trial :
                 \/ answer'[u] = answer[u]
                 \/ u = r[1] /\ answer[u] = "none" /\ answer'[u] = "anomaly"
           /\ \A u \in Trial : sup'[u] = sup[u] \/ (u = r[1] /\ Alive(u) /\ sup'[u] = "dead")
<1>. DEFINE t == r[1]
<1>1. t \in Trial
  OBVIOUS
<1>. HIDE DEF t
<1>2. ASSUME NEW pc \in StopPc, NEW seen \in {api.seen, answer[t]},
             api' = [api EXCEPT !.runs = rest, !.trial = t, !.seen = seen, !.pc = pc]
      PROVE  /\ api' \in ApiState
             /\ api'.pc \in StopPc /\ api'.trial = t /\ api'.runs = rest
             /\ api'.exps = api.exps /\ api'.rows = api.rows
             /\ api'.seen \in {api.seen, answer[t]}
  BY <1>1, <1>2 DEF TypeOK, ApiState, ApiPc
<1>3. CASE ~Vouched(t, r[2])
  <2>1. /\ api' = [api EXCEPT !.runs = rest, !.trial = t, !.seen = api.seen, !.pc = "stopRead"]
        /\ UNCHANGED <<sup, timedOut, answer, run>>
    BY <1>3 DEF StopHead, supvars, TypeOK, ApiState, t
  <2>. QED
    BY <1>2, <2>1 DEF StopPc, TypeOK, t
<1>4. CASE Vouched(t, r[2])
  <2>1. /\ sup' = [sup EXCEPT ![t] = "dead"]
        /\ timedOut' = [timedOut EXCEPT ![t] = FALSE]
        /\ Alive(t)
    BY <1>4 DEF StopHead, SupExit, SupGoto, Vouched, t
  <2>2. api' = [api EXCEPT !.runs = rest, !.trial = t, !.seen = answer[t],
                     !.pc = IF answer[t] = "none" THEN "stopRun" ELSE "stopTrial"]
    BY <1>4 DEF StopHead, t
  <2>3. answer' = IF answer[t] = "none" THEN [answer EXCEPT ![t] = "anomaly"] ELSE answer
    BY <1>4 DEF StopHead, MarkAnomaly, t
  <2>4. run' = run \/ (run[t] \in Unfinished /\ run' = [run EXCEPT ![t] = "error"])
    BY <1>4 DEF StopHead, FinishRun, t
  <2>5. /\ api' \in ApiState
        /\ api'.pc \in StopPc /\ api'.trial = t /\ api'.runs = rest
        /\ api'.exps = api.exps /\ api'.rows = api.rows
        /\ api'.seen \in {api.seen, answer[t]}
    BY <1>2, <2>2 DEF StopPc
  <2>6. /\ answer' \in [Trial -> {"none"} \cup Verdicts]
        /\ \A u \in Trial :
              answer'[u] = answer[u] \/ (u = t /\ answer[u] = "none" /\ answer'[u] = "anomaly")
    BY <2>3 DEF Verdicts, TypeOK
  <2>7. /\ run' \in [Trial -> RunStatus]
        /\ \A u \in Trial : run'[u] = run[u] \/ (run[u] \in Unfinished /\ run'[u] = "error")
    BY <2>4 DEF RunStatus, TypeOK
  <2>8. /\ sup' \in [Trial -> SupPc]
        /\ timedOut' \in [Trial -> BOOLEAN]
        /\ \A u \in Trial : sup'[u] = sup[u] \/ (u = t /\ Alive(u) /\ sup'[u] = "dead")
    BY <2>1 DEF SupPc, TypeOK
  <2>. QED
    BY <2>5, <2>6, <2>7, <2>8 DEF t
<1>. QED
  BY <1>3, <1>4

\* StopNext takes one run of the list cancel read.
LEMMA StopNextEffect ==
    ASSUME TypeOK, StopNext
    PROVE  \E r \in api.runs :
              /\ r \in Trial \X Identity
              /\ api.runs \ {r} \in SUBSET (Trial \X Identity)
              /\ StopHead(r, api.runs \ {r})
              /\ api.pc = "stopNext"
              /\ UNCHANGED <<exp, trial, ident, disk, mgr, faults>>
  BY DEF StopNext, TypeOK, ApiState

\* CancelPlan either ends the cancel or stops a first run.
LEMMA CancelPlanEffect ==
    ASSUME TypeOK, NEW e \in Experiment, CancelPlan(e)
    PROVE  /\ api.pc = "answered" /\ e \in api.exps
           /\ trial' = CancelUnlaunched(e)
           /\ UNCHANGED <<ident, disk, mgr, faults>>
           /\ \/ /\ exp' = [exp EXCEPT ![e] = "cancelled"]
                 /\ api' = ApiIdle
                 /\ UNCHANGED <<sup, timedOut, answer, run>>
              \/ /\ exp' = exp
                 /\ \E r \in RunsToStop(e) :
                       /\ r \in Trial \X Identity
                       /\ run[r[1]] \in Unfinished
                       /\ RunsToStop(e) \ {r} \in SUBSET (Trial \X Identity)
                       /\ \A q \in RunsToStop(e) \ {r} : run[q[1]] \in Unfinished
                       /\ StopHead(r, RunsToStop(e) \ {r})
<1>1. CASE RunsToStop(e) = {}
  BY <1>1 DEF CancelPlan, supvars
<1>2. CASE RunsToStop(e) # {}
  <2>1. /\ RunsToStop(e) \subseteq Trial \X Identity
        /\ \A r \in RunsToStop(e) : run[r[1]] \in Unfinished
    BY DEF TypeOK, RunsToStop, TrialsOf
  <2>. QED
    BY <1>2, <2>1 DEF CancelPlan
<1>. QED
  BY <1>1, <1>2

\* The rows a recovery or a cancel reads are answer rows.
LEMMA AnsweredOpenEffect ==
    ASSUME TypeOK, NEW T \in SUBSET Trial
    PROVE  /\ AnsweredOpen(T) \subseteq Trial \X Verdicts
           /\ \A row \in AnsweredOpen(T) : answer[row[1]] # "none"
  BY DEF TypeOK, AnsweredOpen, Verdicts

\* _finish_trial_from_answer says sealed only when a row says so.
LEMMA OutcomeOfEffect ==
    ASSUME TypeOK, NEW t \in Trial
    PROVE  /\ OutcomeOf(t) \in Verdicts
           /\ OutcomeOf(t) = "sealed" => answer[t] # "none"
  BY DEF TypeOK, OutcomeOf, Verdicts

\* Finishing a trial leaves no open trial in a completed experiment.
LEMMA FinishKeepsDone ==
    ASSUME TypeOK, CompletedIsDone, NEW t \in Trial, NEW o \in Terminal, FinishTrial(t, o)
    PROVE  CompletedIsDone'
<1> SUFFICES ASSUME NEW e \in Experiment, exp'[e] = "completed", NEW u \in TrialsOf(e)
             PROVE  trial'[u] \in Terminal
  BY DEF CompletedIsDone, TrialsOf
<1>1. u \in Trial
  BY DEF TrialsOf
<1>2. trial[u] \in Terminal => trial'[u] \in Terminal
  BY <1>1, FinishTrialEffect
<1>3. exp[e] = "completed" \/ trial'[u] \in Terminal
  BY FinishTrialEffect
<1>. QED
  BY <1>2, <1>3 DEF CompletedIsDone

\* Finishing a trial does not refill what a cancel drained.
LEMMA FinishKeepsDrained ==
    ASSUME TypeOK, CancelDrainsPlan, NEW t \in Trial, NEW o \in Terminal, FinishTrial(t, o),
           run' = run, api'.exps = api.exps,
           api.pc \in StopPc \cup {"stopNext"} \/ api'.pc \notin StopPc \cup {"stopNext"}
    PROVE  CancelDrainsPlan'
<1> SUFFICES ASSUME NEW e \in Experiment,
                    \/ exp'[e] = "cancelled"
                    \/ e \in api'.exps /\ api'.pc \in StopPc \cup {"stopNext"},
                    NEW u \in TrialsOf(e)
             PROVE  trial'[u] # "planned" /\ (trial'[u] = "claimed" => run'[u] # "none")
  BY DEF CancelDrainsPlan, TrialsOf
<1>1. u \in Trial
  BY DEF TrialsOf
<1>2. exp[e] = "cancelled" \/ (e \in api.exps /\ api.pc \in StopPc \cup {"stopNext"})
  BY FinishTrialEffect
<1>3. trial[u] # "planned" /\ (trial[u] = "claimed" => run[u] # "none")
  BY <1>2 DEF CancelDrainsPlan
<1>4. trial'[u] = trial[u] \/ trial'[u] \in Terminal
  BY <1>1, FinishTrialEffect
<1>. QED
  BY <1>3, <1>4 DEF Terminal

\* run_one's wait returns without touching a row.
LEMMA WaitDoneEffect ==
    ASSUME WaitDone
    PROVE  /\ mgr.pc = "wait" /\ ~Alive(mgr.trial)
           /\ UNCHANGED <<exp, trial, run, ident, answer, disk, sup, timedOut, api, faults>>
           /\ \/ mgr' = [mgr EXCEPT !.pc = "lostRun"]
              \/ mgr' = [mgr EXCEPT !.pc = "loop", !.trial = NoTrial, !.ret = "loop"]
<1>1. CASE run[mgr.trial] \in Unfinished
  BY <1>1 DEF WaitDone, MgrGoto, rows, supvars
<1>2. CASE run[mgr.trial] \notin Unfinished
  BY <1>2 DEF WaitDone, MgrReturn, rows, supvars
<1>. QED
  BY <1>1, <1>2

\* Both entries into sealing leave every row alone.
LEMMA HandleTimeoutEffect ==
    ASSUME TypeOK, NEW t \in Trial, HandleTimeout(t) \/ AgentEnd(t)
    PROVE  /\ UNCHANGED <<exp, trial, run, ident, answer, mgr, api, faults>>
           /\ Alive(t)
           /\ \A u \in Trial : u # t => sup'[u] = sup[u] /\ disk'[u] = disk[u]
           /\ sup'[t] \in SealPc \cup {"sealFailed", "verdict", "ended"}
           /\ sup' \in [Trial -> SupPc]
           /\ timedOut' \in [Trial -> BOOLEAN]
           /\ disk' \in [Trial -> {"none", "staging", "complete", "published"}]
<1> USE DEF TypeOK, rows, SealPc, SupPc, Alive
<1>1. CASE AgentEnd(t)
  BY <1>1, EnterSealEffect DEF AgentEnd
<1>2. CASE HandleTimeout(t) /\ sup[t] \in {"agent", "ended"}
  <2>1. EnterSeal(t, TRUE) /\ timedOut' = [timedOut EXCEPT ![t] = TRUE]
        /\ UNCHANGED <<exp, trial, run, ident, answer, mgr, api, faults>>
    BY <1>2 DEF HandleTimeout
  <2>. QED
    BY <1>2, <2>1, EnterSealEffect
<1>3. CASE HandleTimeout(t) /\ sup[t] \notin {"agent", "ended"}
  <2>1. sup' = sup \/ sup' = [sup EXCEPT ![t] = "sealFailed"]
    BY <1>3 DEF HandleTimeout, SupGoto
  <2>2. /\ disk' = disk /\ timedOut' = [timedOut EXCEPT ![t] = TRUE]
        /\ UNCHANGED <<exp, trial, run, ident, answer, mgr, api, faults>>
        /\ Alive(t)
    BY <1>3 DEF HandleTimeout
  <2>3. sup' = sup => sup[t] \in SealPc \cup {"sealFailed"}
    BY <1>3 DEF HandleTimeout, SupGoto
  <2>. QED
    BY <2>1, <2>2, <2>3
<1>. QED
  BY <1>1, <1>2, <1>3

-----------------------------------------------------------------------------
(* The supervisors.                                                        *)

\* A supervisor step keeps every variable in its type.
LEMMA TypeSupervisor ==
    ASSUME TypeOK, AtHand, NEW t \in Trial, SupStep(t)
    PROVE  TypeOK'
<1> USE ExpAssumption, BoundAssumption
<1> USE DEF TypeOK, TrialStatus, Terminal, ExpStatus, RunStatus, SupPc, SealPc,
           Verdicts, rows, supvars
<1>1. CASE RejectRun(t)
  BY <1>1 DEF RejectRun, SupGoto, FinishRun
<1>2. CASE RejectMark(t)
  BY <1>2 DEF RejectMark, SupGoto, MarkAnomaly
<1>3. CASE RejectFinish(t)
  BY <1>3, FinishTrialEffect DEF RejectFinish, SupGoto, SupExit
<1>4. CASE MarkRunning(t)
  BY <1>4 DEF MarkRunning, SupGoto
<1>5. CASE MarkTrialRunning(t)
  BY <1>5 DEF MarkTrialRunning, SupGoto
<1>6. CASE AgentEnd(t)
  BY <1>6, HandleTimeoutEffect DEF Alive
<1>7. CASE SealCopied(t)
  BY <1>7 DEF SealCopied, SupGoto
<1>8. CASE SealPublished(t)
  BY <1>8 DEF SealPublished, SupGoto
<1>9. CASE SealRegistered(t)
  BY <1>9 DEF SealRegistered, SupGoto, AfterSeal
<1>10. CASE SealError(t)
  BY <1>10 DEF SealError, SupGoto
<1>11. CASE SealAnomaly(t)
  BY <1>11 DEF SealAnomaly, SupGoto, MarkAnomaly, AfterSeal
<1>12. CASE HandleTimeout(t)
  BY <1>12, HandleTimeoutEffect DEF Alive
<1>13. CASE TimeoutVerdict(t)
  BY <1>13 DEF TimeoutVerdict, SupGoto
<1>14. CASE TimeoutFinishRun(t)
  BY <1>14 DEF TimeoutFinishRun, SupGoto, FinishRun
<1>15. CASE ResultFinishRun(t)
  BY <1>15 DEF ResultFinishRun, SupGoto, FinishRun
<1>16. CASE FinishFromAnswer(t)
  BY <1>16, OutcomeOfEffect, FinishTrialEffect DEF FinishFromAnswer, SupGoto, SupExit
<1>17. CASE Raise(t)
  BY <1>17 DEF Raise, SupGoto
<1>18. CASE CrashFinishRun(t)
  BY <1>18 DEF CrashFinishRun, SupGoto, FinishRun
<1>19. CASE CrashMark(t)
  BY <1>19 DEF CrashMark, SupGoto, MarkAnomaly
<1>20. CASE CrashFinish(t)
  BY <1>20, OutcomeOfEffect, FinishTrialEffect DEF CrashFinish, SupGoto, SupExit
<1>. QED
  BY <1>1, <1>2, <1>3, <1>4, <1>5, <1>6, <1>7, <1>8, <1>9, <1>10, <1>11, <1>12, <1>13,
     <1>14, <1>15, <1>16, <1>17, <1>18, <1>19, <1>20 DEF SupStep

\* What one supervisor step may do to the rows and files: only its own trial's, never
\* back to "no run" or "no answer", and to the trial only what the funnel allows.
LEMMA SupEffect ==
    ASSUME TypeOK, LaunchFirst, NEW t \in Trial, SupStep(t)
    PROVE  /\ UNCHANGED <<ident, mgr, api, faults>>
           /\ Alive(t) /\ sup'[t] # "none"
           /\ run'[t] # "none"
           /\ \/ answer'[t] = answer[t]
              \/ answer[t] = "none" /\ answer'[t] \in Verdicts
              \/ answer[t] = "sealed" /\ answer'[t] = "anomaly"
           /\ \A u \in Trial \ {t} : /\ trial'[u] = trial[u] /\ run'[u] = run[u]
                                     /\ answer'[u] = answer[u] /\ disk'[u] = disk[u]
                                     /\ sup'[u] = sup[u]
           /\ \/ trial' = trial /\ exp' = exp
              \/ trial' = [trial EXCEPT ![t] = "running"] /\ trial[t] = "claimed" /\ exp' = exp
              \/ FinishTrial(t, "anomaly") /\ run' = run
              \/ FinishTrial(t, "sealed") /\ run' = run /\ answer[t] # "none" /\ answer' = answer
<1> USE DEF rows, supvars
<1>1. Alive(t) => run[t] # "none"
  BY DEF LaunchFirst, Alive
<1>2. CASE RejectRun(t)
  BY <1>1, <1>2 DEF TypeOK, RejectRun, SupGoto, FinishRun, Alive, SealPc, Unfinished,
     Verdicts
<1>3. CASE RejectMark(t)
  BY <1>1, <1>3 DEF TypeOK, RejectMark, SupGoto, MarkAnomaly, Alive, SealPc, Unfinished,
     Verdicts
<1>4. CASE RejectFinish(t)
  BY <1>1, <1>4, FinishTrialEffect DEF TypeOK, RejectFinish, SupExit, SupGoto, Alive,
     Verdicts, Terminal
<1>5. CASE MarkRunning(t)
  BY <1>1, <1>5 DEF TypeOK, MarkRunning, SupGoto, Alive, SealPc, Unfinished, Verdicts
<1>6. CASE MarkTrialRunning(t)
  BY <1>1, <1>6 DEF TypeOK, MarkTrialRunning, SupGoto, Alive, SealPc, Unfinished, Verdicts
<1>7. CASE AgentEnd(t)
  BY <1>1, <1>7, HandleTimeoutEffect DEF TypeOK, SealPc
<1>8. CASE SealCopied(t)
  BY <1>1, <1>8 DEF TypeOK, SealCopied, SupGoto, Alive, SealPc, Unfinished, Verdicts
<1>9. CASE SealPublished(t)
  BY <1>1, <1>9 DEF TypeOK, SealPublished, SupGoto, Alive, SealPc, Unfinished, Verdicts
<1>10. CASE SealRegistered(t)
  BY <1>1, <1>10 DEF TypeOK, SealRegistered, SupGoto, AfterSeal, Alive, SealPc,
     Unfinished, Verdicts
<1>11. CASE SealError(t)
  BY <1>1, <1>11 DEF TypeOK, SealError, SupGoto, Alive, SealPc, Unfinished, Verdicts
<1>12. CASE SealAnomaly(t)
  BY <1>1, <1>12 DEF TypeOK, SealAnomaly, SupGoto, MarkAnomaly, AfterSeal, Alive,
     SealPc, Unfinished, Verdicts
<1>13. CASE HandleTimeout(t)
  BY <1>1, <1>13, HandleTimeoutEffect DEF TypeOK, SealPc
<1>14. CASE TimeoutVerdict(t)
  BY <1>1, <1>14 DEF TypeOK, TimeoutVerdict, SupGoto, Alive, SealPc, Unfinished, Verdicts
<1>15. CASE TimeoutFinishRun(t)
  BY <1>1, <1>15 DEF TypeOK, TimeoutFinishRun, SupGoto, FinishRun, Alive, SealPc,
     Unfinished, Verdicts
<1>16. CASE ResultFinishRun(t)
  BY <1>1, <1>16 DEF TypeOK, ResultFinishRun, SupGoto, FinishRun, Alive, SealPc,
     Unfinished, Verdicts
<1>17. CASE FinishFromAnswer(t)
  BY <1>1, <1>17, OutcomeOfEffect, FinishTrialEffect DEF TypeOK, FinishFromAnswer,
     SupExit, SupGoto, Alive, Verdicts, Terminal
<1>18. CASE Raise(t)
  BY <1>1, <1>18 DEF TypeOK, Raise, SupGoto, Alive, SealPc, Unfinished, Verdicts
<1>19. CASE CrashFinishRun(t)
  BY <1>1, <1>19 DEF TypeOK, CrashFinishRun, SupGoto, FinishRun, Alive, SealPc,
     Unfinished, Verdicts
<1>20. CASE CrashMark(t)
  BY <1>1, <1>20 DEF TypeOK, CrashMark, SupGoto, MarkAnomaly, Alive, SealPc, Unfinished,
     Verdicts
<1>21. CASE CrashFinish(t)
  BY <1>1, <1>21, OutcomeOfEffect, FinishTrialEffect DEF TypeOK, CrashFinish, SupExit,
     SupGoto, Alive, Verdicts, Terminal
<1>. QED
  BY <1>2, <1>3, <1>4, <1>5, <1>6, <1>7, <1>8, <1>9, <1>10, <1>11, <1>12, <1>13, <1>14,
     <1>15, <1>16, <1>17, <1>18, <1>19, <1>20, <1>21 DEF SupStep

\* A supervisor step keeps the inductive invariant.
LEMMA SupKeeps ==
    ASSUME IInv, NEW t \in Trial, SupStep(t)
    PROVE  IInv'
<1>1. TypeOK'
  BY TypeSupervisor DEF IInv
<1>2. /\ UNCHANGED <<ident, mgr, api, faults>>
      /\ Alive(t) /\ sup'[t] # "none"
      /\ run'[t] # "none" /\ run[t] # "none"
      /\ answer[t] # "none" => answer'[t] # "none"
      /\ \A u \in Trial \ {t} : /\ trial'[u] = trial[u] /\ run'[u] = run[u]
                                /\ answer'[u] = answer[u] /\ disk'[u] = disk[u]
                                /\ sup'[u] = sup[u]
  BY SupEffect DEF IInv, LaunchFirst, Alive, Verdicts
<1>3. \/ trial' = trial /\ exp' = exp
      \/ trial' = [trial EXCEPT ![t] = "running"] /\ trial[t] = "claimed" /\ exp' = exp
      \/ FinishTrial(t, "anomaly") /\ run' = run
      \/ FinishTrial(t, "sealed") /\ run' = run /\ answer[t] # "none" /\ answer' = answer
  BY SupEffect DEF IInv
<1>4. /\ trial'[t] = trial[t] \/ trial'[t] \in {"running", "sealed", "anomaly"}
      /\ trial'[t] = "sealed" => trial[t] = "sealed" \/ answer'[t] # "none"
  BY <1>3, FinishTrialEffect DEF IInv, TypeOK, Terminal
<1>5. AtHand'
  BY <1>2 DEF IInv, AtHand
<1>6. LaunchFirst'
  <2> SUFFICES ASSUME NEW u \in Trial
               PROVE  /\ run'[u] = "none" =>
                            /\ sup'[u] = "none" /\ answer'[u] = "none"
                            /\ disk'[u] = "none" /\ ident'[u] = "none"
                            /\ trial'[u] \in {"planned", "claimed", "cancelled"}
                      /\ trial'[u] = "planned" => run'[u] = "none"
    BY DEF LaunchFirst
  <2>1. CASE u = t
    BY <1>2, <1>4, <2>1 DEF IInv, LaunchFirst
  <2>2. CASE u # t
    BY <1>2, <2>2 DEF IInv, LaunchFirst
  <2>. QED
    BY <2>1, <2>2
<1>7. AtLaunch'
  BY <1>2 DEF IInv, AtLaunch, AtHand, MgrTrialPc, Alive
<1>8. ListsHold'
  BY <1>2 DEF IInv, ListsHold, TypeOK, ManagerState, ApiState, AtHand
<1>9. SealedHasAnswer'
  BY <1>2, <1>4 DEF IInv, SealedHasAnswer
<1>10. OnlyLostAreReaped'
  BY <1>2 DEF IInv, OnlyLostAreReaped, Vouched, Alive, AtHand, MgrTrialPc
<1>11. CompletedIsDone'
  BY <1>3, FinishKeepsDone DEF IInv, CompletedIsDone, TrialsOf, Terminal, TypeOK
<1>12. CancelDrainsPlan'
  <2>1. CASE trial'[t] = "running" /\ exp' = exp
    BY <1>2, <2>1 DEF IInv, CancelDrainsPlan, TrialsOf
  <2>2. CASE trial' = trial /\ exp' = exp
    BY <1>2, <2>2 DEF IInv, CancelDrainsPlan, TrialsOf
  <2>3. CASE (FinishTrial(t, "anomaly") \/ FinishTrial(t, "sealed")) /\ run' = run
    BY <1>2, <2>3, FinishKeepsDrained DEF IInv, Terminal
  <2>. QED
    BY <1>3, <2>1, <2>2, <2>3 DEF IInv, TypeOK
<1>. QED
  BY <1>1, <1>5, <1>6, <1>7, <1>8, <1>9, <1>10, <1>11, <1>12 DEF IInv

\* A supervisor step moves each trial along an edge of the funnel.
LEMMA SupFunnel ==
    ASSUME IInv, NEW t \in Trial, SupStep(t), NEW u \in Trial
    PROVE  Funnel!Edge(u) /\ Funnel!Judged(u)
<1> USE DEF Funnel!Keeps
<1>1. /\ run'[t] # "none" /\ run[t] # "none"
      /\ \/ answer'[t] = answer[t]
         \/ answer[t] = "none" /\ answer'[t] \in Verdicts
         \/ answer[t] = "sealed" /\ answer'[t] = "anomaly"
      /\ \A v \in Trial \ {t} : /\ trial'[v] = trial[v] /\ run'[v] = run[v]
                                /\ answer'[v] = answer[v]
  BY SupEffect DEF IInv, LaunchFirst, Alive
<1>2. \/ trial'[t] = trial[t]
      \/ trial'[t] = "running" /\ trial[t] = "claimed"
      \/ trial'[t] = "anomaly" /\ trial[t] \notin Terminal
      \/ trial'[t] = "sealed" /\ trial[t] \notin Terminal /\ answer[t] # "none"
  BY SupEffect, FinishTrialEffect DEF IInv, TypeOK, Terminal
<1>3. Funnel!Judged(u)
  BY <1>1 DEF Funnel!Judged, Verdicts
<1>4. Funnel!Edge(u)
  BY <1>1, <1>2 DEF Funnel!Edge, Funnel!Idle, Funnel!Start, Funnel!Finish,
     Funnel!Terminal, Terminal
<1>. QED
  BY <1>3, <1>4

-----------------------------------------------------------------------------
(* Cancel, up to the first commit of a stop.                               *)

\* The effect of a stop's first commit, with the list of the remaining runs hidden.
LEMMA StopHeadKeeps ==
    ASSUME IInv, NEW r \in Trial \X Identity, NEW rest \in SUBSET (Trial \X Identity),
           StopHead(r, rest), run[r[1]] # "none", \A q \in rest : run[q[1]] # "none",
           UNCHANGED <<ident, disk, mgr, faults>>, exp' = exp,
           api.pc \in {"answered", "stopNext"},
           trial' \in [Trial -> TrialStatus],
           \A t \in Trial :
              \/ trial'[t] = trial[t]
              \/ trial'[t] = "cancelled" /\ trial[t] \in {"planned", "claimed"},
           \A e \in api.exps : \A t \in TrialsOf(e) :
              trial'[t] # "planned" /\ (trial'[t] = "claimed" => run[t] # "none")
    PROVE  IInv'
<1>. DEFINE h == r[1]
<1>1. h \in Trial
  OBVIOUS
<1>2. /\ api' \in ApiState
      /\ api'.pc \in StopPc /\ api'.trial = h /\ api'.runs = rest
      /\ api'.exps = api.exps /\ api'.rows = api.rows
      /\ api'.seen \in {api.seen, answer[h]}
  BY StopHeadEffect DEF IInv
<1>3. /\ run' \in [Trial -> RunStatus]
      /\ answer' \in [Trial -> {"none"} \cup Verdicts]
      /\ sup' \in [Trial -> SupPc]
      /\ timedOut' \in [Trial -> BOOLEAN]
  BY StopHeadEffect DEF IInv
<1>4. \A u \in Trial :
         /\ (run'[u] = "none") <=> (run[u] = "none")
         /\ answer[u] # "none" => answer'[u] = answer[u]
         /\ answer'[u] # answer[u] => u = h
         /\ sup'[u] # sup[u] => u = h /\ Alive(u) /\ sup'[u] = "dead"
  BY StopHeadEffect DEF IInv, Unfinished
<1>. HIDE DEF h
<1>5. TypeOK'
  BY <1>2, <1>3 DEF IInv, TypeOK
<1>6. AtHand'
  BY <1>1, <1>2 DEF IInv, AtHand
<1>7. LaunchFirst'
  <2>1. \A t \in Trial : run'[t] = "none" =>
           sup'[t] = "none" /\ answer'[t] = "none" /\ disk'[t] = "none" /\ ident'[t] = "none"
    BY <1>4 DEF IInv, LaunchFirst, h
  <2>2. \A t \in Trial :
           /\ run'[t] = "none" => trial'[t] \in {"planned", "claimed", "cancelled"}
           /\ trial'[t] = "planned" => run'[t] = "none"
    BY <1>4 DEF IInv, LaunchFirst
  <2>. QED
    BY <2>1, <2>2 DEF LaunchFirst
<1>8. AtLaunch'
  BY <1>4 DEF IInv, AtLaunch, AtHand, MgrTrialPc, Alive
<1>9. ListsHold'
  <2>1. /\ mgr'.pc # "artifacts" => \A t \in mgr'.work : run'[t] # "none"
        /\ \A q \in api'.runs : run'[q[1]] # "none"
        /\ api'.pc \in StopPc => run'[api'.trial] # "none"
    BY <1>1, <1>2, <1>4 DEF IInv, ListsHold, TypeOK, ManagerState, h
  <2>2. \A row \in mgr'.rows \cup api'.rows : answer'[row[1]] # "none"
    BY <1>2, <1>4 DEF IInv, ListsHold, TypeOK, ManagerState, ApiState
  <2>3. api'.seen # "none" => api'.pc \in StopPc /\ answer'[api'.trial] # "none"
    BY <1>1, <1>2, <1>4 DEF IInv, ListsHold, StopPc
  <2>. QED
    BY <2>1, <2>2, <2>3 DEF ListsHold
<1>10. SealedHasAnswer'
  BY <1>4 DEF IInv, SealedHasAnswer
<1>11. CompletedIsDone'
  BY DEF IInv, CompletedIsDone, TrialsOf, Terminal
<1>12. CancelDrainsPlan'
  BY <1>2, <1>4 DEF IInv, CancelDrainsPlan, TrialsOf
<1>13. OnlyLostAreReaped'
  BY <1>4 DEF IInv, OnlyLostAreReaped, Vouched, Alive, AtHand, MgrTrialPc
<1>. QED
  BY <1>5, <1>6, <1>7, <1>8, <1>9, <1>10, <1>11, <1>12, <1>13 DEF IInv

\* Stopping the next run keeps the inductive invariant.
LEMMA StopNextKeeps ==
    ASSUME IInv, StopNext
    PROVE  IInv'
<1>. PICK r \in api.runs :
        /\ r \in Trial \X Identity
        /\ api.runs \ {r} \in SUBSET (Trial \X Identity)
        /\ StopHead(r, api.runs \ {r})
        /\ api.pc = "stopNext"
        /\ UNCHANGED <<exp, trial, ident, disk, mgr, faults>>
  BY StopNextEffect DEF IInv
<1>1. \A q \in api.runs : run[q[1]] # "none"
  BY DEF IInv, ListsHold
<1>2. \A e \in api.exps : \A t \in TrialsOf(e) :
         trial'[t] # "planned" /\ (trial'[t] = "claimed" => run[t] # "none")
  BY DEF IInv, CancelDrainsPlan, TypeOK, ApiState
<1>3. trial' \in [Trial -> TrialStatus]
  BY DEF IInv, TypeOK
<1>. QED
  BY <1>1, <1>2, <1>3, StopHeadKeeps

\* Cancelling the plan and stopping the first run keeps the inductive invariant.
LEMMA CancelPlanKeeps ==
    ASSUME IInv, NEW e \in Experiment, CancelPlan(e)
    PROVE  IInv'
<1>1. /\ api.pc = "answered" /\ e \in api.exps
      /\ trial' = CancelUnlaunched(e)
      /\ UNCHANGED <<ident, disk, mgr, faults>>
  BY CancelPlanEffect DEF IInv
<1>2. /\ trial' \in [Trial -> TrialStatus]
      /\ \A t \in Trial :
            \/ trial'[t] = trial[t]
            \/ trial'[t] = "cancelled" /\ trial[t] \in {"planned", "claimed"}
      /\ \A t \in TrialsOf(e) :
            trial'[t] # "planned" /\ (trial'[t] = "claimed" => run[t] # "none")
  BY <1>1 DEF IInv, TypeOK, CancelUnlaunched, TrialsOf, TrialStatus, Terminal
<1>3. CASE exp' = exp /\ \E r \in RunsToStop(e) :
                 /\ r \in Trial \X Identity
                 /\ run[r[1]] \in Unfinished
                 /\ RunsToStop(e) \ {r} \in SUBSET (Trial \X Identity)
                 /\ \A q \in RunsToStop(e) \ {r} : run[q[1]] \in Unfinished
                 /\ StopHead(r, RunsToStop(e) \ {r})
  <2>. PICK r \in Trial \X Identity, rest \in SUBSET (Trial \X Identity) :
          StopHead(r, rest) /\ run[r[1]] # "none" /\ \A q \in rest : run[q[1]] # "none"
    BY <1>3 DEF Unfinished
  <2>1. \A d \in api.exps : \A t \in TrialsOf(d) :
           trial'[t] # "planned" /\ (trial'[t] = "claimed" => run[t] # "none")
    BY <1>1, <1>2 DEF IInv, AtHand
  <2>. QED
    BY <1>1, <1>2, <1>3, <2>1, StopHeadKeeps
<1>4. CASE /\ exp' = [exp EXCEPT ![e] = "cancelled"]
           /\ api' = ApiIdle
           /\ UNCHANGED <<sup, timedOut, answer, run>>
  <2>1. /\ api' \in ApiState /\ api'.pc = "idle"
        /\ api'.rows = {} /\ api'.runs = {} /\ api'.exps = {} /\ api'.seen = "none"
    BY <1>4 DEF ApiIdle, ApiState, ApiPc
  <2>2. exp' \in [Experiment -> ExpStatus]
    BY <1>4 DEF IInv, TypeOK, ExpStatus
  <2>3. TypeOK'
    BY <1>1, <1>2, <1>4, <2>1, <2>2 DEF IInv, TypeOK
  <2>4. AtHand' /\ AtLaunch'
    BY <1>1, <1>2, <1>4, <2>1 DEF IInv, AtHand, AtLaunch, StopPc, MgrTrialPc
  <2>5. LaunchFirst'
    BY <1>1, <1>2, <1>4 DEF IInv, LaunchFirst
  <2>6. ListsHold'
    BY <1>1, <1>4, <2>1 DEF IInv, ListsHold, StopPc
  <2>7. SealedHasAnswer' /\ OnlyLostAreReaped'
    BY <1>1, <1>2, <1>4 DEF IInv, SealedHasAnswer, OnlyLostAreReaped, Vouched, Alive
  <2>8. CompletedIsDone'
    BY <1>2, <1>4 DEF IInv, CompletedIsDone, TrialsOf, Terminal, TypeOK
  <2>9. CancelDrainsPlan'
    <3> SUFFICES ASSUME NEW d \in Experiment, exp'[d] = "cancelled", NEW t \in TrialsOf(d)
                 PROVE  trial'[t] # "planned" /\ (trial'[t] = "claimed" => run'[t] # "none")
      BY <2>1 DEF CancelDrainsPlan, StopPc, TrialsOf
    <3>1. d = e \/ exp[d] = "cancelled"
      BY <1>4 DEF IInv, TypeOK
    <3>. QED
      BY <1>2, <1>4, <3>1 DEF IInv, CancelDrainsPlan, TrialsOf
  <2>. QED
    BY <2>3, <2>4, <2>5, <2>6, <2>7, <2>8, <2>9 DEF IInv
<1>. QED
  BY <1>3, <1>4, CancelPlanEffect DEF IInv

\* A stop's first commit, as edges of the funnel.
LEMMA StopHeadFunnel ==
    ASSUME IInv, NEW r \in Trial \X Identity, NEW rest \in SUBSET (Trial \X Identity),
           StopHead(r, rest), run[r[1]] # "none", NEW u \in Trial,
           \/ trial'[u] = trial[u]
           \/ trial'[u] = "cancelled" /\ trial[u] \in {"planned", "claimed"}
    PROVE  Funnel!Edge(u) /\ Funnel!Judged(u)
<1>1. /\ (run'[u] = "none") <=> (run[u] = "none")
      /\ answer'[u] = answer[u] \/ (u = r[1] /\ answer[u] = "none" /\ answer'[u] = "anomaly")
  BY StopHeadEffect DEF IInv, Unfinished
<1>. QED
  BY <1>1 DEF Funnel!Edge, Funnel!Idle, Funnel!Finish, Funnel!Terminal, Funnel!Judged,
              Funnel!Keeps

\* Stopping the next run is a step of the funnel.
LEMMA StopNextFunnel ==
    ASSUME IInv, StopNext, NEW u \in Trial
    PROVE  Funnel!Edge(u) /\ Funnel!Judged(u)
<1>1. \E r \in api.runs :
        /\ r \in Trial \X Identity
        /\ api.runs \ {r} \in SUBSET (Trial \X Identity)
        /\ StopHead(r, api.runs \ {r})
        /\ run[r[1]] # "none"
        /\ trial' = trial
  BY StopNextEffect DEF IInv, ListsHold
<1>. QED
  BY <1>1, StopHeadFunnel

\* Cancelling the plan is a step of the funnel.
LEMMA CancelPlanFunnel ==
    ASSUME IInv, NEW e \in Experiment, CancelPlan(e), NEW u \in Trial
    PROVE  Funnel!Edge(u) /\ Funnel!Judged(u)
<1>1. trial'[u] = trial[u] \/ (trial'[u] = "cancelled" /\ trial[u] \in {"planned", "claimed"})
  BY CancelPlanEffect DEF IInv, CancelUnlaunched
<1>2. CASE UNCHANGED <<sup, timedOut, answer, run>>
  BY <1>1, <1>2 DEF Funnel!Edge, Funnel!Idle, Funnel!Finish, Funnel!Terminal, Funnel!Judged,
                    Funnel!Keeps
<1>3. CASE \E r \in RunsToStop(e) :
              /\ r \in Trial \X Identity
              /\ run[r[1]] \in Unfinished
              /\ RunsToStop(e) \ {r} \in SUBSET (Trial \X Identity)
              /\ StopHead(r, RunsToStop(e) \ {r})
  <2>. PICK r \in Trial \X Identity, rest \in SUBSET (Trial \X Identity) :
          StopHead(r, rest) /\ run[r[1]] # "none"
    BY <1>3 DEF Unfinished
  <2>. QED
    BY <1>1, StopHeadFunnel
<1>. QED
  BY <1>2, <1>3, CancelPlanEffect DEF IInv

-----------------------------------------------------------------------------
(* The manager, the rest of the API, the faults.                           *)

\* finish_trial for a launched trial is an edge of the funnel.
LEMMA FinishFunnel ==
    ASSUME TypeOK, NEW t \in Trial, NEW o \in Terminal, FinishTrial(t, o),
           run[t] # "none", o = "sealed" => answer[t] # "none",
           run' = run, answer' = answer, NEW u \in Trial
    PROVE  Funnel!Edge(u) /\ Funnel!Judged(u)
<1>1. trial'[u] = trial[u] \/ (u = t /\ trial[u] \notin Terminal /\ trial'[u] = o)
  BY FinishTrialEffect
<1>. QED
  BY <1>1 DEF Funnel!Edge, Funnel!Idle, Funnel!Finish, Funnel!Terminal, Funnel!Judged,
              Funnel!Keeps, Terminal

\* mark_anomaly for a launched trial is a judgement of the funnel.
LEMMA MarkFunnel ==
    ASSUME TypeOK, NEW t \in Trial, MarkAnomaly(t), run[t] # "none",
           trial' = trial, run' = run, NEW u \in Trial
    PROVE  Funnel!Edge(u) /\ Funnel!Judged(u)
<1>1. answer'[u] = answer[u] \/ (u = t /\ answer[u] = "none" /\ answer'[u] = "anomaly")
  BY DEF TypeOK, MarkAnomaly
<1>. QED
  BY <1>1 DEF Funnel!Edge, Funnel!Idle, Funnel!Judged, Funnel!Keeps

\* The manager's memory keeps its type in its own steps
LEMMA ManagerStateManager ==
    ASSUME TypeOK, AtHand, MgrStep
    PROVE  mgr' \in ManagerState
<1> USE ExpAssumption, BoundAssumption
<1> USE DEF TypeOK, ManagerState, MgrPc, NoTrial, rows, supvars
<1>1. CASE ManagerStart
  BY <1>1 DEF ManagerStart, MgrGoto
<1>2. CASE RecoverStaleClaims
  BY <1>2 DEF RecoverStaleClaims
<1>3. CASE StartReap
  <2>1. UnfinishedRuns \in SUBSET Trial
    BY DEF UnfinishedRuns
  <2>. QED
    BY <1>3, <2>1 DEF StartReap, ReapPc
<1>4. CASE LoopReap
  <2>1. UnfinishedRuns \in SUBSET Trial
    BY DEF UnfinishedRuns
  <2>. QED
    BY <1>4, <2>1 DEF LoopReap, ReapPc
<1>5. CASE ReapDone
  BY <1>5 DEF ReapDone, MgrGoto
<1>6. CASE LostRun
  BY <1>6 DEF LostRun, MgrGoto, FinishRun
<1>7. CASE LostMark
  BY <1>7 DEF LostMark, MgrGoto, MarkAnomaly
<1>8. CASE LostFinish
  BY <1>8, FinishTrialEffect DEF LostFinish, MgrReturn, OutcomeOf
<1>9. CASE ReconcileRead
  BY <1>9, AnsweredOpenEffect DEF ReconcileRead
<1>10. CASE ReconcileExperiments
  BY <1>10 DEF ReconcileExperiments, MgrGoto, Completed, TrialsOf
<1>11. CASE PauseRead
  BY <1>11 DEF PauseRead, TrialsOf
<1>12. CASE PauseWrite
  BY <1>12 DEF PauseWrite
<1>13. CASE ClaimNothing
  BY <1>13 DEF ClaimNothing, MgrGoto, Claimable, Active
<1>14. CASE MintToken
  BY <1>14 DEF MintToken, MgrGoto, Terminated
<1>15. CASE MintFailed
  BY <1>15 DEF MintFailed, MgrReturn, Active
<1>16. CASE CreateRun
  BY <1>16 DEF CreateRun, MgrGoto
<1>17. CASE Spawn
  BY <1>17 DEF Spawn, SupGoto, MgrGoto
<1>18. CASE SpawnFailed
  BY <1>18 DEF SpawnFailed, MgrGoto
<1>19. CASE RecordSupervisor
  BY <1>19 DEF RecordSupervisor, MgrGoto
<1>20. CASE WaitDone
  <2>1. CASE mgr' = [mgr EXCEPT !.pc = "lostRun"]
    BY <2>1
  <2>2. CASE mgr' = [mgr EXCEPT !.pc = "loop", !.trial = NoTrial, !.ret = "loop"]
    BY <2>2
  <2>. QED
    BY <1>20, <2>1, <2>2, WaitDoneEffect
<1>21. CASE (\E t \in Trial : RecoverAnswer(t))
  BY <1>21 DEF RecoverAnswer, MarkAnomaly
<1>22. CASE \E t \in Trial : Reap(t)
  <2>. PICK t \in Trial : Reap(t)
    BY <1>22
  <2>1. CASE Vouched(t, ident[t])
    BY <2>1 DEF Reap
  <2>2. CASE ~Vouched(t, ident[t])
    BY <2>2 DEF Reap
  <2>. QED
    BY <2>1, <2>2
<1>23. CASE \E t \in Trial : Claim(t)
  <2>. PICK t \in Trial : Claim(t)
    BY <1>23
  <2>1. mgr' = [mgr EXCEPT !.pc = "mint", !.trial = t]
    BY DEF Claim
  <2>. QED
    BY <2>1
<1>24. CASE (\E row \in Trial \X Verdicts : ReconcileTrial(row))
  BY <1>24, FinishTrialEffect DEF ReconcileTrial
<1>. QED
  BY <1>1, <1>2, <1>3, <1>4, <1>5, <1>6, <1>7, <1>8, <1>9, <1>10, <1>11, <1>12, <1>13,
     <1>14, <1>15, <1>16, <1>17, <1>18, <1>19, <1>20, <1>21, <1>22, <1>23, <1>24 DEF
     MgrStep

\* and in the API's steps and under faults.
LEMMA ManagerStateRequest ==
    ASSUME TypeOK, AtHand, RequestOrFault
    PROVE  mgr' \in ManagerState
<1> USE ExpAssumption, BoundAssumption
<1> USE DEF TypeOK, ManagerState, MgrPc, NoTrial, rows, supvars
<1>1. CASE StopRead
  BY <1>1 DEF StopRead
<1>2. CASE StopMark
  BY <1>2 DEF StopMark, ApiGoto, MarkAnomaly
<1>3. CASE StopRun
  BY <1>3 DEF StopRun, ApiGoto, FinishRun
<1>4. CASE StopTrial
  BY <1>4, FinishTrialEffect DEF StopTrial
<1>5. CASE (\E e \in Experiment : CancelEnd(e))
  BY <1>5 DEF CancelEnd, ApiIdle
<1>6. CASE (\E e \in Experiment : CancelBegin(e))
  BY <1>6, AnsweredOpenEffect DEF CancelBegin, TrialsOf
<1>7. CASE (\E e \in Experiment : Resume(e))
  BY <1>7 DEF Resume
<1>8. CASE (\E row \in Trial \X Verdicts : CancelAnswered(row))
  BY <1>8, FinishTrialEffect DEF CancelAnswered
<1>9. CASE ManagerCrash
  BY <1>9 DEF ManagerCrash, ManagerDown
<1>10. CASE ApiCrash
  BY <1>10 DEF ApiCrash, ApiIdle
<1>11. CASE (\E t \in Trial : Killed(t))
  BY <1>11 DEF Killed, SupGoto, SupExit, Alive
<1>. QED
  BY <1>1, <1>2, <1>3, <1>4, <1>5, <1>6, <1>7, <1>8, <1>9, <1>10, <1>11 DEF
     RequestOrFault, Fault

\* The API's memory keeps its type.
LEMMA ApiStateRequest ==
    ASSUME TypeOK, AtHand, RequestOrFault
    PROVE  api' \in ApiState
<1> USE ExpAssumption, BoundAssumption
<1> USE DEF TypeOK, ApiState, ApiPc, StopPc, NoTrial, rows, supvars
<1>1. CASE StopRead
  <2>1. api.trial \in Trial
    BY <1>1 DEF StopRead, AtHand
  <2>2. answer[api.trial] \in {"none"} \cup Verdicts
    BY <2>1
  <2>. QED
    BY <1>1, <2>2 DEF StopRead
<1>2. CASE StopMark
  BY <1>2 DEF StopMark, ApiGoto, MarkAnomaly
<1>3. CASE StopRun
  BY <1>3 DEF StopRun, ApiGoto, FinishRun
<1>4. CASE StopTrial
  BY <1>4, FinishTrialEffect DEF StopTrial
<1>5. CASE (\E e \in Experiment : CancelEnd(e))
  BY <1>5 DEF CancelEnd, ApiIdle
<1>6. CASE \E e \in Experiment : CancelBegin(e)
  <2>. PICK e \in Experiment : CancelBegin(e)
    BY <1>6
  <2>1. AnsweredOpen(TrialsOf(e)) \in SUBSET (Trial \X Verdicts)
    BY AnsweredOpenEffect DEF TrialsOf
  <2>. QED
    BY <2>1 DEF CancelBegin
<1>7. CASE (\E e \in Experiment : Resume(e))
  BY <1>7 DEF Resume
<1>8. CASE (\E row \in Trial \X Verdicts : CancelAnswered(row))
  BY <1>8, FinishTrialEffect DEF CancelAnswered
<1>9. CASE ManagerCrash
  BY <1>9 DEF ManagerCrash, ManagerDown
<1>10. CASE ApiCrash
  BY <1>10 DEF ApiCrash, ApiIdle
<1>11. CASE (\E t \in Trial : Killed(t))
  BY <1>11 DEF Killed, SupGoto, SupExit, Alive
<1>. QED
  BY <1>1, <1>2, <1>3, <1>4, <1>5, <1>6, <1>7, <1>8, <1>9, <1>10, <1>11 DEF
     RequestOrFault, Fault

\* Given that, a manager step keeps TypeOK.
LEMMA TypeManager ==
    ASSUME TypeOK, AtHand, mgr' \in ManagerState, MgrStep
    PROVE  TypeOK'
<1> USE ExpAssumption, BoundAssumption
<1> USE DEF TypeOK, AtHand, MgrTrialPc, TrialStatus, Terminal, Verdicts, ExpStatus,
           RunStatus, Identity, SupPc, rows, supvars
<1>1. CASE ManagerStart
  BY <1>1 DEF ManagerStart, MgrGoto
<1>2. CASE RecoverStaleClaims
  BY <1>2 DEF RecoverStaleClaims
<1>3. CASE StartReap
  BY <1>3 DEF StartReap, UnfinishedRuns
<1>4. CASE LoopReap
  BY <1>4 DEF LoopReap, UnfinishedRuns
<1>5. CASE ReapDone
  BY <1>5 DEF ReapDone, MgrGoto
<1>6. CASE LostRun
  BY <1>6 DEF LostRun, MgrGoto, FinishRun
<1>7. CASE LostMark
  BY <1>7 DEF LostMark, MgrGoto, MarkAnomaly
<1>8. CASE LostFinish
  <2>1. mgr.trial \in Trial /\ UNCHANGED <<run, ident, answer, disk, supvars, api, faults>>
        /\ FinishTrial(mgr.trial, OutcomeOf(mgr.trial))
    BY <1>8 DEF LostFinish
  <2>2. OutcomeOf(mgr.trial) \in Terminal
    BY <2>1, OutcomeOfEffect
  <2>. QED
    BY <2>1, <2>2, FinishTrialEffect
<1>9. CASE ReconcileRead
  BY <1>9, AnsweredOpenEffect DEF ReconcileRead
<1>10. CASE ReconcileExperiments
  BY <1>10 DEF ReconcileExperiments, MgrGoto, Completed, TrialsOf
<1>11. CASE PauseRead
  BY <1>11 DEF PauseRead, TrialsOf
<1>12. CASE PauseWrite
  BY <1>12 DEF PauseWrite
<1>13. CASE ClaimNothing
  BY <1>13 DEF ClaimNothing, MgrGoto, Claimable, Active
<1>14. CASE MintToken
  BY <1>14 DEF MintToken, MgrGoto, Terminated
<1>15. CASE MintFailed
  BY <1>15 DEF MintFailed, MgrReturn, Active
<1>16. CASE CreateRun
  BY <1>16 DEF CreateRun, MgrGoto
<1>17. CASE Spawn
  BY <1>17 DEF Spawn, SupGoto, MgrGoto
<1>18. CASE SpawnFailed
  BY <1>18 DEF SpawnFailed, MgrGoto
<1>19. CASE RecordSupervisor
  BY <1>19 DEF RecordSupervisor, MgrGoto
<1>20. CASE WaitDone
  BY <1>20, WaitDoneEffect
<1>21. CASE (\E t \in Trial : RecoverAnswer(t))
  BY <1>21 DEF RecoverAnswer, MarkAnomaly
<1>22. CASE (\E t \in Trial : Reap(t))
  BY <1>22 DEF Reap, Vouched, Alive
<1>23. CASE (\E t \in Trial : Claim(t))
  BY <1>23 DEF Claim, Claimable, Active
<1>24. CASE (\E row \in Trial \X Verdicts : ReconcileTrial(row))
  BY <1>24, FinishTrialEffect DEF ReconcileTrial
<1>. QED
  BY <1>1, <1>2, <1>3, <1>4, <1>5, <1>6, <1>7, <1>8, <1>9, <1>10, <1>11, <1>12, <1>13,
     <1>14, <1>15, <1>16, <1>17, <1>18, <1>19, <1>20, <1>21, <1>22, <1>23, <1>24 DEF
     MgrStep

\* Likewise the API's steps and the faults.
LEMMA TypeRequest ==
    ASSUME TypeOK, AtHand, mgr' \in ManagerState, api' \in ApiState, RequestOrFault
    PROVE  TypeOK'
<1> USE ExpAssumption, BoundAssumption
<1> USE DEF TypeOK, AtHand, StopPc, TrialStatus, Terminal, Verdicts, ExpStatus,
           RunStatus, Identity, SupPc, rows, supvars
<1>1. CASE StopRead
  BY <1>1 DEF StopRead
<1>2. CASE StopMark
  BY <1>2 DEF StopMark, ApiGoto, MarkAnomaly
<1>3. CASE StopRun
  BY <1>3 DEF StopRun, ApiGoto, FinishRun
<1>4. CASE StopTrial
  BY <1>4, FinishTrialEffect DEF StopTrial
<1>5. CASE \E e \in Experiment : CancelEnd(e)
  BY <1>5 DEF CancelEnd
<1>6. CASE (\E e \in Experiment : CancelBegin(e))
  BY <1>6, AnsweredOpenEffect DEF CancelBegin, TrialsOf
<1>7. CASE (\E e \in Experiment : Resume(e))
  BY <1>7 DEF Resume
<1>8. CASE \E row \in Trial \X Verdicts : CancelAnswered(row)
  <2>. PICK row \in Trial \X Verdicts : CancelAnswered(row)
    BY <1>8
  <2>1. row[1] \in Trial /\ row[2] \in Terminal /\ FinishTrial(row[1], row[2])
    BY DEF CancelAnswered
  <2>. QED
    BY <2>1, FinishTrialEffect DEF CancelAnswered
<1>9. CASE ManagerCrash
  BY <1>9 DEF ManagerCrash, ManagerDown
<1>10. CASE ApiCrash
  BY <1>10 DEF ApiCrash, ApiIdle
<1>11. CASE (\E t \in Trial : Killed(t))
  BY <1>11 DEF Killed, SupGoto, SupExit, Alive
<1>. QED
  BY <1>1, <1>2, <1>3, <1>4, <1>5, <1>6, <1>7, <1>8, <1>9, <1>10, <1>11 DEF
     RequestOrFault, Fault

\* A manager step keeps what launches leave behind and what lists hold.
LEMMA BooksManager ==
    ASSUME TypeOK, AtHand, LaunchFirst, AtLaunch, ListsHold, MgrStep
    PROVE  AtHand' /\ LaunchFirst' /\ AtLaunch' /\ ListsHold'
<1> USE DEF TypeOK, AtHand, LaunchFirst, AtLaunch, ListsHold, MgrTrialPc, ReapPc,
           StopPc, Terminal, SealPc, NoTrial, Unfinished, Verdicts, ManagerState, rows,
           supvars
<1>1. CASE ManagerStart
  BY <1>1 DEF ManagerStart, MgrGoto
<1>2. CASE RecoverStaleClaims
  BY <1>2 DEF RecoverStaleClaims
<1>3. CASE StartReap
  BY <1>3 DEF StartReap, UnfinishedRuns
<1>4. CASE LoopReap
  BY <1>4 DEF LoopReap, UnfinishedRuns
<1>5. CASE ReapDone
  BY <1>5 DEF ReapDone, MgrGoto
<1>6. CASE LostRun
  BY <1>6 DEF LostRun, MgrGoto, FinishRun
<1>7. CASE LostMark
  BY <1>7 DEF LostMark, MgrGoto, MarkAnomaly
<1>8. CASE LostFinish
  BY <1>8, FinishTrialEffect DEF LostFinish, MgrReturn, OutcomeOf
<1>9. CASE ReconcileRead
  BY <1>9, AnsweredOpenEffect DEF ReconcileRead
<1>10. CASE ReconcileExperiments
  BY <1>10 DEF ReconcileExperiments, MgrGoto, Completed, TrialsOf
<1>11. CASE PauseRead
  BY <1>11 DEF PauseRead, TrialsOf
<1>12. CASE PauseWrite
  BY <1>12 DEF PauseWrite
<1>13. CASE ClaimNothing
  BY <1>13 DEF ClaimNothing, MgrGoto, Claimable, Active
<1>14. CASE MintToken
  BY <1>14 DEF MintToken, MgrGoto, Terminated
<1>15. CASE MintFailed
  BY <1>15 DEF MintFailed, MgrReturn, Active
<1>16. CASE CreateRun
  BY <1>16 DEF CreateRun, MgrGoto
<1>17. CASE Spawn
  BY <1>17 DEF Spawn, SupGoto, MgrGoto
<1>18. CASE SpawnFailed
  BY <1>18 DEF SpawnFailed, MgrGoto
<1>19. CASE RecordSupervisor
  BY <1>19 DEF RecordSupervisor, MgrGoto
<1>20. CASE WaitDone
  <2>1. CASE mgr' = [mgr EXCEPT !.pc = "lostRun"]
    BY <1>20, <2>1, WaitDoneEffect
  <2>2. CASE mgr' = [mgr EXCEPT !.pc = "loop", !.trial = NoTrial, !.ret = "loop"]
    BY <1>20, <2>2, WaitDoneEffect
  <2>. QED
    BY <1>20, <2>1, <2>2, WaitDoneEffect
<1>21. CASE \E t \in Trial : RecoverAnswer(t)
  <2>. PICK t \in Trial : RecoverAnswer(t)
    BY <1>21
  <2>1. /\ UNCHANGED <<exp, trial, run, ident, sup, timedOut, api, faults>>
        /\ mgr.pc = "artifacts" /\ mgr' = [mgr EXCEPT !.work = mgr.work \ {t}]
    BY DEF RecoverAnswer
  <2>2. \A u \in Trial : u # t => answer'[u] = answer[u] /\ disk'[u] = disk[u]
    BY DEF RecoverAnswer, MarkAnomaly
  <2>3. answer[t] # "none" => answer'[t] # "none"
    BY DEF RecoverAnswer, MarkAnomaly
  <2>4. disk[t] = "none" => answer'[t] = answer[t] /\ disk'[t] = "none"
    BY DEF RecoverAnswer, MarkAnomaly
  <2>5. AtHand' /\ AtLaunch'
    BY <2>1
  <2>6. LaunchFirst'
    BY <2>1, <2>2, <2>3, <2>4
  <2>7. ListsHold'
    <3>1. \A u \in Trial : answer[u] # "none" => answer'[u] # "none"
      BY <2>2, <2>3
    <3>2. /\ mgr'.pc = "artifacts" /\ mgr'.rows = mgr.rows
          /\ run' = run /\ api' = api
      BY <2>1
    <3>3. \A row \in mgr.rows \cup api.rows : row[1] \in Trial
      BY DEF ApiState
    <3>4. api.seen # "none" => api.trial \in Trial
      OBVIOUS
    <3>. HIDE DEF TypeOK, AtHand, LaunchFirst, AtLaunch
    <3>. QED
      BY <3>1, <3>2, <3>3, <3>4
  <2>. QED
    BY <2>5, <2>6, <2>7
<1>22. CASE (\E t \in Trial : Reap(t))
  BY <1>22 DEF Reap, Vouched, Alive
<1>23. CASE (\E t \in Trial : Claim(t))
  BY <1>23 DEF Claim, Claimable, Active
<1>24. CASE (\E row \in Trial \X Verdicts : ReconcileTrial(row))
  BY <1>24, FinishTrialEffect DEF ReconcileTrial
<1>. QED
  BY <1>1, <1>2, <1>3, <1>4, <1>5, <1>6, <1>7, <1>8, <1>9, <1>10, <1>11, <1>12, <1>13,
     <1>14, <1>15, <1>16, <1>17, <1>18, <1>19, <1>20, <1>21, <1>22, <1>23, <1>24 DEF
     MgrStep

\* Likewise the API's steps and the faults.
LEMMA BooksRequest ==
    ASSUME TypeOK, AtHand, LaunchFirst, AtLaunch, ListsHold, RequestOrFault
    PROVE  AtHand' /\ LaunchFirst' /\ AtLaunch' /\ ListsHold'
<1> USE DEF TypeOK, AtHand, LaunchFirst, AtLaunch, ListsHold, MgrTrialPc, ReapPc,
           StopPc, Terminal, SealPc, NoTrial, Unfinished, Verdicts, ApiState, rows,
           supvars
<1>1. CASE StopRead
  BY <1>1 DEF StopRead
<1>2. CASE StopMark
  BY <1>2 DEF StopMark, ApiGoto, MarkAnomaly
<1>3. CASE StopRun
  BY <1>3 DEF StopRun, ApiGoto, FinishRun
<1>4. CASE StopTrial
  BY <1>4, FinishTrialEffect DEF StopTrial
<1>5. CASE (\E e \in Experiment : CancelEnd(e))
  BY <1>5 DEF CancelEnd, ApiIdle
<1>6. CASE \E e \in Experiment : CancelBegin(e)
  <2>. PICK e \in Experiment : CancelBegin(e)
    BY <1>6
  <2>1. \A row \in AnsweredOpen(TrialsOf(e)) : answer[row[1]] # "none"
    BY DEF AnsweredOpen
  <2>2. /\ UNCHANGED <<exp, trial, run, ident, answer, disk, sup, mgr>>
        /\ api'.rows = AnsweredOpen(TrialsOf(e)) /\ api'.exps = {e} /\ api'.pc = "answered"
        /\ api'.runs = api.runs /\ api'.seen = api.seen /\ api.pc = "idle"
    BY DEF CancelBegin
  <2>. QED
    BY <2>1, <2>2
<1>7. CASE (\E e \in Experiment : Resume(e))
  BY <1>7 DEF Resume
<1>8. CASE (\E row \in Trial \X Verdicts : CancelAnswered(row))
  BY <1>8, FinishTrialEffect DEF CancelAnswered
<1>9. CASE ManagerCrash
  BY <1>9 DEF ManagerCrash, ManagerDown
<1>10. CASE ApiCrash
  BY <1>10 DEF ApiCrash, ApiIdle
<1>11. CASE (\E t \in Trial : Killed(t))
  BY <1>11 DEF Killed, SupGoto, SupExit, Alive
<1>. QED
  BY <1>1, <1>2, <1>3, <1>4, <1>5, <1>6, <1>7, <1>8, <1>9, <1>10, <1>11 DEF
     RequestOrFault, Fault

\* The manager only gives up supervisors that no longer answer.
LEMMA LostManager ==
    ASSUME TypeOK, AtHand, LaunchFirst, AtLaunch, OnlyLostAreReaped, MgrStep
    PROVE  OnlyLostAreReaped'
<1> USE DEF TypeOK, AtHand, LaunchFirst, AtLaunch, OnlyLostAreReaped, MgrTrialPc,
           SealPc, NoTrial, Vouched, Alive, ReapPc, ManagerState, rows, supvars
<1>1. CASE ManagerStart
  BY <1>1 DEF ManagerStart, MgrGoto
<1>2. CASE RecoverStaleClaims
  BY <1>2 DEF RecoverStaleClaims
<1>3. CASE StartReap
  BY <1>3 DEF StartReap, UnfinishedRuns
<1>4. CASE LoopReap
  BY <1>4 DEF LoopReap, UnfinishedRuns
<1>5. CASE ReapDone
  BY <1>5 DEF ReapDone, MgrGoto
<1>6. CASE LostRun
  BY <1>6 DEF LostRun, MgrGoto, FinishRun
<1>7. CASE LostMark
  BY <1>7 DEF LostMark, MgrGoto, MarkAnomaly
<1>8. CASE LostFinish
  BY <1>8, FinishTrialEffect DEF LostFinish, MgrReturn, OutcomeOf
<1>9. CASE ReconcileRead
  BY <1>9, AnsweredOpenEffect DEF ReconcileRead
<1>10. CASE ReconcileExperiments
  BY <1>10 DEF ReconcileExperiments, MgrGoto, Completed, TrialsOf
<1>11. CASE PauseRead
  BY <1>11 DEF PauseRead, TrialsOf
<1>12. CASE PauseWrite
  BY <1>12 DEF PauseWrite
<1>13. CASE ClaimNothing
  BY <1>13 DEF ClaimNothing, MgrGoto, Claimable, Active
<1>14. CASE MintToken
  BY <1>14 DEF MintToken, MgrGoto, Terminated
<1>15. CASE MintFailed
  BY <1>15 DEF MintFailed, MgrReturn, Active
<1>16. CASE CreateRun
  BY <1>16 DEF CreateRun, MgrGoto
<1>17. CASE Spawn
  BY <1>17 DEF Spawn, SupGoto, MgrGoto
<1>18. CASE SpawnFailed
  BY <1>18 DEF SpawnFailed, MgrGoto
<1>19. CASE RecordSupervisor
  BY <1>19 DEF RecordSupervisor, MgrGoto
<1>20. CASE WaitDone
  <2>1. CASE mgr' = [mgr EXCEPT !.pc = "lostRun"]
    BY <1>20, <2>1, WaitDoneEffect
  <2>2. CASE mgr' = [mgr EXCEPT !.pc = "loop", !.trial = NoTrial, !.ret = "loop"]
    BY <1>20, <2>2, WaitDoneEffect
  <2>. QED
    BY <1>20, <2>1, <2>2, WaitDoneEffect
<1>21. CASE (\E t \in Trial : RecoverAnswer(t))
  BY <1>21 DEF RecoverAnswer, MarkAnomaly
<1>22. CASE (\E t \in Trial : Reap(t))
  BY <1>22 DEF Reap
<1>23. CASE (\E t \in Trial : Claim(t))
  BY <1>23 DEF Claim, Claimable, Active
<1>24. CASE (\E row \in Trial \X Verdicts : ReconcileTrial(row))
  BY <1>24, FinishTrialEffect DEF ReconcileTrial
<1>. QED
  BY <1>1, <1>2, <1>3, <1>4, <1>5, <1>6, <1>7, <1>8, <1>9, <1>10, <1>11, <1>12, <1>13,
     <1>14, <1>15, <1>16, <1>17, <1>18, <1>19, <1>20, <1>21, <1>22, <1>23, <1>24 DEF
     MgrStep

\* No API step or fault brings a lost supervisor back.
LEMMA LostRequest ==
    ASSUME TypeOK, AtHand, LaunchFirst, AtLaunch, OnlyLostAreReaped, RequestOrFault
    PROVE  OnlyLostAreReaped'
<1> USE DEF TypeOK, AtHand, LaunchFirst, AtLaunch, OnlyLostAreReaped, MgrTrialPc,
           SealPc, NoTrial, Vouched, Alive, ReapPc, ApiState, rows, supvars
<1>1. CASE StopRead
  BY <1>1 DEF StopRead
<1>2. CASE StopMark
  BY <1>2 DEF StopMark, ApiGoto, MarkAnomaly
<1>3. CASE StopRun
  BY <1>3 DEF StopRun, ApiGoto, FinishRun
<1>4. CASE StopTrial
  BY <1>4, FinishTrialEffect DEF StopTrial
<1>5. CASE (\E e \in Experiment : CancelEnd(e))
  BY <1>5 DEF CancelEnd, ApiIdle
<1>6. CASE (\E e \in Experiment : CancelBegin(e))
  BY <1>6, AnsweredOpenEffect DEF CancelBegin, TrialsOf
<1>7. CASE (\E e \in Experiment : Resume(e))
  BY <1>7 DEF Resume
<1>8. CASE (\E row \in Trial \X Verdicts : CancelAnswered(row))
  BY <1>8, FinishTrialEffect DEF CancelAnswered
<1>9. CASE ManagerCrash
  BY <1>9 DEF ManagerCrash, ManagerDown
<1>10. CASE ApiCrash
  BY <1>10 DEF ApiCrash, ApiIdle
<1>11. CASE (\E t \in Trial : Killed(t))
  BY <1>11 DEF Killed, SupGoto, SupExit
<1>. QED
  BY <1>1, <1>2, <1>3, <1>4, <1>5, <1>6, <1>7, <1>8, <1>9, <1>10, <1>11 DEF
     RequestOrFault, Fault

\* The manager finishes a trial as sealed only on an answer row.
LEMMA AnsweredManager ==
    ASSUME TypeOK, AtHand, ListsHold, SealedHasAnswer, MgrStep
    PROVE  SealedHasAnswer'
<1> USE DEF TypeOK, AtHand, ListsHold, SealedHasAnswer, MgrTrialPc, StopPc, Terminal,
           Verdicts, rows, supvars
<1>1. CASE UNCHANGED <<trial, answer>>
  BY <1>1
<1>2. CASE RecoverStaleClaims
  BY <1>2 DEF RecoverStaleClaims
<1>3. CASE LostMark
  BY <1>3 DEF LostMark, MgrGoto, MarkAnomaly
<1>4. CASE LostFinish
  BY <1>4, FinishTrialEffect DEF LostFinish, MgrReturn, OutcomeOf
<1>5. CASE MintFailed
  BY <1>5 DEF MintFailed, MgrReturn, Active
<1>6. CASE \E t \in Trial : RecoverAnswer(t)
  BY <1>6 DEF RecoverAnswer, MarkAnomaly
<1>7. CASE \E t \in Trial : Claim(t)
  BY <1>7 DEF Claim, Claimable, Active
<1>8. CASE \E row \in Trial \X Verdicts : ReconcileTrial(row)
  BY <1>8, FinishTrialEffect DEF ReconcileTrial
<1>. QED
  BY <1>1, <1>2, <1>3, <1>4, <1>5, <1>6, <1>7, <1>8 DEF MgrStep, ManagerStart,
     StartReap, LoopReap, ReapDone, LostRun, ReconcileRead, ReconcileExperiments,
     PauseRead, PauseWrite, ClaimNothing, MintToken, CreateRun, Spawn, SpawnFailed,
     RecordSupervisor, WaitDone, Reap

\* So does the API.
LEMMA AnsweredRequest ==
    ASSUME TypeOK, AtHand, ListsHold, SealedHasAnswer, RequestOrFault
    PROVE  SealedHasAnswer'
<1> USE DEF TypeOK, AtHand, ListsHold, SealedHasAnswer, MgrTrialPc, StopPc, Terminal,
           Verdicts, ApiState, rows, supvars
<1>1. CASE UNCHANGED <<trial, answer>>
  BY <1>1
<1>2. CASE StopMark
  BY <1>2 DEF StopMark, ApiGoto, MarkAnomaly
<1>3. CASE StopTrial
  BY <1>3, FinishTrialEffect DEF StopTrial
<1>4. CASE \E row \in Trial \X Verdicts : CancelAnswered(row)
  BY <1>4, FinishTrialEffect DEF CancelAnswered
<1>. QED
  BY <1>1, <1>2, <1>3, <1>4 DEF RequestOrFault, Fault, StopRead, StopRun, CancelEnd,
     CancelBegin, Resume, ManagerCrash, ApiCrash, Killed

\* No manager step leaves an open trial in a completed experiment.
LEMMA DoneManager ==
    ASSUME TypeOK, AtHand, CompletedIsDone, MgrStep
    PROVE  CompletedIsDone'
<1> USE DEF TypeOK, CompletedIsDone, Terminal, TrialsOf, rows, supvars
<1>1. CASE UNCHANGED <<exp, trial>>
  BY <1>1
<1>2. CASE RecoverStaleClaims
  BY <1>2 DEF RecoverStaleClaims
<1>3. CASE LostFinish
  <2>1. mgr.trial \in Trial /\ FinishTrial(mgr.trial, OutcomeOf(mgr.trial))
    BY <1>3 DEF LostFinish, AtHand, MgrTrialPc
  <2>2. OutcomeOf(mgr.trial) \in Terminal
    BY <2>1, OutcomeOfEffect DEF Verdicts
  <2>. HIDE DEF TypeOK, CompletedIsDone
  <2>. QED
    BY <2>1, <2>2, FinishKeepsDone
<1>4. CASE ReconcileExperiments
  BY <1>4 DEF ReconcileExperiments, MgrGoto, Completed
<1>5. CASE PauseWrite
  BY <1>5 DEF PauseWrite
<1>6. CASE MintFailed
  BY <1>6 DEF MintFailed, MgrReturn, Active
<1>7. CASE \E t \in Trial : Claim(t)
  BY <1>7 DEF Claim, Claimable, Active
<1>8. CASE \E row \in Trial \X Verdicts : ReconcileTrial(row)
  BY <1>8, FinishKeepsDone DEF ReconcileTrial, Verdicts
<1>. QED
  BY <1>1, <1>2, <1>3, <1>4, <1>5, <1>6, <1>7, <1>8 DEF MgrStep, ManagerStart,
     StartReap, LoopReap, ReapDone, LostRun, LostMark, ReconcileRead, PauseRead,
     ClaimNothing, MintToken, CreateRun, Spawn, SpawnFailed, RecordSupervisor, WaitDone,
     RecoverAnswer, Reap

\* Nor does an API step or a fault.
LEMMA DoneRequest ==
    ASSUME TypeOK, AtHand, CompletedIsDone, RequestOrFault
    PROVE  CompletedIsDone'
<1> USE DEF TypeOK, CompletedIsDone, Terminal, TrialsOf, ApiState, rows, supvars
<1>1. CASE UNCHANGED <<exp, trial>>
  BY <1>1
<1>2. CASE StopTrial
  BY <1>2, FinishKeepsDone DEF StopTrial, AtHand, StopPc
<1>3. CASE \E e \in Experiment : CancelEnd(e)
  BY <1>3 DEF CancelEnd, ApiIdle
<1>4. CASE \E e \in Experiment : Resume(e)
  BY <1>4 DEF Resume
<1>5. CASE \E row \in Trial \X Verdicts : CancelAnswered(row)
  BY <1>5, FinishKeepsDone DEF CancelAnswered, Verdicts
<1>. QED
  BY <1>1, <1>2, <1>3, <1>4, <1>5 DEF RequestOrFault, Fault, StopRead, StopMark,
     StopRun, CancelBegin, ManagerCrash, ApiCrash, Killed

\* No manager step brings back what a cancel drained.
LEMMA DrainedManager ==
    ASSUME TypeOK, AtHand, LaunchFirst, AtLaunch, CancelDrainsPlan, MgrStep
    PROVE  CancelDrainsPlan'
<1> USE DEF TypeOK, AtHand, LaunchFirst, AtLaunch, CancelDrainsPlan, MgrTrialPc,
           Terminal, StopPc, TrialsOf, Unfinished, rows, supvars
<1>1. CASE UNCHANGED <<exp, trial, run, api>>
  BY <1>1
<1>2. CASE RecoverStaleClaims
  BY <1>2 DEF RecoverStaleClaims
<1>3. CASE LostRun
  BY <1>3 DEF LostRun, MgrGoto, FinishRun
<1>4. CASE LostFinish
  <2>1. /\ FinishTrial(mgr.trial, OutcomeOf(mgr.trial)) /\ run' = run /\ api' = api
        /\ mgr.trial \in Trial
    BY <1>4 DEF LostFinish
  <2>2. OutcomeOf(mgr.trial) \in Terminal
    BY <2>1, OutcomeOfEffect DEF Verdicts
  <2>3. /\ api'.exps = api.exps
        /\ api.pc \in StopPc \cup {"stopNext"} \/ api'.pc \notin StopPc \cup {"stopNext"}
    BY <2>1
  <2>. HIDE DEF TypeOK, CancelDrainsPlan
  <2>. QED
    BY <2>1, <2>2, <2>3, FinishKeepsDrained
<1>5. CASE ReconcileExperiments
  BY <1>5 DEF ReconcileExperiments, MgrGoto, Completed
<1>6. CASE PauseWrite
  BY <1>6 DEF PauseWrite
<1>7. CASE MintFailed
  BY <1>7 DEF MintFailed, MgrReturn, Active
<1>8. CASE CreateRun
  BY <1>8 DEF CreateRun, MgrGoto
<1>9. CASE \E t \in Trial : Claim(t)
  BY <1>9 DEF Claim, Claimable, Active
<1>10. CASE \E row \in Trial \X Verdicts : ReconcileTrial(row)
  BY <1>10, FinishKeepsDrained DEF ReconcileTrial, Verdicts
<1>. QED
  BY <1>1, <1>2, <1>3, <1>4, <1>5, <1>6, <1>7, <1>8, <1>9, <1>10 DEF MgrStep,
     ManagerStart, StartReap, LoopReap, ReapDone, LostMark, ReconcileRead, PauseRead,
     ClaimNothing, MintToken, Spawn, SpawnFailed, RecordSupervisor, WaitDone,
     RecoverAnswer, Reap

\* Nor does an API step or a fault.
LEMMA DrainedRequest ==
    ASSUME TypeOK, AtHand, LaunchFirst, AtLaunch, CancelDrainsPlan, RequestOrFault
    PROVE  CancelDrainsPlan'
<1> USE DEF TypeOK, AtHand, LaunchFirst, AtLaunch, CancelDrainsPlan, MgrTrialPc,
           Terminal, StopPc, TrialsOf, Unfinished, ApiState, rows, supvars
<1>1. CASE UNCHANGED <<exp, trial, run, api>>
  BY <1>1
<1>2. CASE StopRead
  BY <1>2 DEF StopRead
<1>3. CASE StopMark
  BY <1>3 DEF StopMark, ApiGoto, MarkAnomaly
<1>4. CASE StopRun
  BY <1>4 DEF StopRun, ApiGoto, FinishRun
<1>5. CASE StopTrial
  <2>1. FinishTrial(api.trial, IF api.seen = "sealed" THEN "sealed" ELSE "cancelled")
        /\ api.trial \in Trial /\ run' = run
        /\ api'.exps = api.exps /\ api.pc \in StopPc \cup {"stopNext"}
    BY <1>5 DEF StopTrial
  <2>. HIDE DEF TypeOK, CancelDrainsPlan
  <2>. QED
    BY <2>1, FinishKeepsDrained
<1>6. CASE \E e \in Experiment : CancelEnd(e)
  <2>. PICK e \in Experiment : CancelEnd(e)
    BY <1>6
  <2>1. /\ trial' = trial /\ run' = run
        /\ api.pc = "stopNext" /\ e \in api.exps /\ api'.pc = "idle"
        /\ \A d \in Experiment : exp'[d] = "cancelled" => d = e \/ exp[d] = "cancelled"
    BY DEF CancelEnd, ApiIdle
  <2>2. \A d \in Experiment : exp'[d] = "cancelled" =>
           exp[d] = "cancelled" \/ (d \in api.exps /\ api.pc = "stopNext")
    BY <2>1
  <2>3. api'.pc \notin StopPc \cup {"stopNext"}
    BY <2>1
  <2>. HIDE DEF TypeOK, AtHand, LaunchFirst, AtLaunch
  <2>. QED
    BY <2>1, <2>2, <2>3
<1>7. CASE \E e \in Experiment : CancelBegin(e)
  <2>1. /\ UNCHANGED <<exp, trial, run>>
        /\ api'.pc = "answered"
    BY <1>7 DEF CancelBegin
  <2>. QED
    BY <2>1
<1>8. CASE \E e \in Experiment : Resume(e)
  <2>1. /\ UNCHANGED <<trial, run, api>>
        /\ \A d \in Experiment : exp'[d] = "cancelled" => exp[d] = "cancelled"
    BY <1>8 DEF Resume
  <2>. QED
    BY <2>1
<1>9. CASE \E row \in Trial \X Verdicts : CancelAnswered(row)
  BY <1>9, FinishKeepsDrained DEF CancelAnswered, Verdicts
<1>10. CASE ApiCrash
  BY <1>10 DEF ApiCrash, ApiIdle
<1>. QED
  BY <1>1, <1>2, <1>3, <1>4, <1>5, <1>6, <1>7, <1>8, <1>9, <1>10 DEF RequestOrFault,
     Fault, ManagerCrash, Killed

\* Each manager step moves each trial along an edge of the funnel.
LEMMA FunnelManager ==
    ASSUME TypeOK, AtHand, LaunchFirst, AtLaunch, ListsHold, NEW u \in Trial, MgrStep
    PROVE  Funnel!Edge(u) /\ Funnel!Judged(u)
<1> USE DEF TypeOK, AtHand, LaunchFirst, AtLaunch, ListsHold, MgrTrialPc, Terminal,
           Verdicts, Funnel!Keeps, Funnel!Edge, Funnel!Idle, Funnel!Claim,
           Funnel!Unclaim, Funnel!Launch, Funnel!Judged, Funnel!Terminal, rows, supvars
<1>1. CASE ManagerStart
  BY <1>1 DEF ManagerStart, MgrGoto
<1>2. CASE RecoverStaleClaims
  BY <1>2 DEF RecoverStaleClaims
<1>3. CASE StartReap
  BY <1>3 DEF StartReap, UnfinishedRuns
<1>4. CASE LoopReap
  BY <1>4 DEF LoopReap, UnfinishedRuns
<1>5. CASE ReapDone
  BY <1>5 DEF ReapDone, MgrGoto
<1>6. CASE LostRun
  BY <1>6 DEF LostRun, MgrGoto, FinishRun
<1>7. CASE LostMark
  BY <1>7 DEF LostMark, MgrGoto, MarkAnomaly
<1>8. CASE LostFinish
  <2>1. /\ FinishTrial(mgr.trial, OutcomeOf(mgr.trial)) /\ run' = run /\ answer' = answer
        /\ mgr.trial \in Trial /\ run[mgr.trial] # "none"
    BY <1>8 DEF LostFinish
  <2>2. /\ OutcomeOf(mgr.trial) \in Terminal
        /\ OutcomeOf(mgr.trial) = "sealed" => answer[mgr.trial] # "none"
    BY <2>1, OutcomeOfEffect
  <2>. HIDE DEF TypeOK, Funnel!Edge, Funnel!Judged
  <2>. QED
    BY <2>1, <2>2, FinishFunnel
<1>9. CASE ReconcileRead
  BY <1>9, AnsweredOpenEffect DEF ReconcileRead
<1>10. CASE ReconcileExperiments
  BY <1>10 DEF ReconcileExperiments, MgrGoto, Completed, TrialsOf
<1>11. CASE PauseRead
  BY <1>11 DEF PauseRead, TrialsOf
<1>12. CASE PauseWrite
  BY <1>12 DEF PauseWrite
<1>13. CASE ClaimNothing
  BY <1>13 DEF ClaimNothing, MgrGoto, Claimable, Active
<1>14. CASE MintToken
  BY <1>14 DEF MintToken, MgrGoto, Terminated
<1>15. CASE MintFailed
  <2>1. run' = run /\ answer' = answer /\ mgr.trial \in Trial /\ run[mgr.trial] = "none"
    BY <1>15 DEF MintFailed
  <2>2. trial'[u] = trial[u] \/ (u = mgr.trial /\ trial[u] = "claimed" /\ trial'[u] = "planned")
    BY <1>15 DEF MintFailed
  <2>. QED
    BY <2>1, <2>2
<1>16. CASE CreateRun
  BY <1>16 DEF CreateRun, MgrGoto
<1>17. CASE Spawn
  BY <1>17 DEF Spawn, SupGoto, MgrGoto
<1>18. CASE SpawnFailed
  BY <1>18 DEF SpawnFailed, MgrGoto
<1>19. CASE RecordSupervisor
  BY <1>19 DEF RecordSupervisor, MgrGoto
<1>20. CASE WaitDone
  BY <1>20 DEF WaitDone, MgrGoto, MgrReturn, Alive
<1>21. CASE \E t \in Trial : RecoverAnswer(t)
  <2>. PICK t \in Trial : RecoverAnswer(t)
    BY <1>21
  <2>1. trial' = trial /\ run' = run
    BY DEF RecoverAnswer
  <2>2. answer'[u] = answer[u] \/ (run[u] # "none" /\ answer[u] = "none" /\ answer'[u] \in Verdicts)
    BY DEF RecoverAnswer, MarkAnomaly
  <2>. QED
    BY <2>1, <2>2
<1>22. CASE (\E t \in Trial : Reap(t))
  BY <1>22 DEF Reap, Vouched, Alive
<1>23. CASE (\E t \in Trial : Claim(t))
  BY <1>23 DEF Claim, Claimable, Active
<1>24. CASE \E row \in Trial \X Verdicts : ReconcileTrial(row)
  <2>. PICK row \in Trial \X Verdicts : ReconcileTrial(row)
    BY <1>24
  <2>1. /\ FinishTrial(row[1], row[2]) /\ run' = run /\ answer' = answer
        /\ row[1] \in Trial /\ row[2] \in Terminal
        /\ answer[row[1]] # "none" /\ run[row[1]] # "none"
    BY DEF ReconcileTrial, Terminal
  <2>. HIDE DEF TypeOK, Funnel!Edge, Funnel!Judged
  <2>. QED
    BY <2>1, FinishFunnel
<1>. QED
  BY <1>1, <1>2, <1>3, <1>4, <1>5, <1>6, <1>7, <1>8, <1>9, <1>10, <1>11, <1>12, <1>13,
     <1>14, <1>15, <1>16, <1>17, <1>18, <1>19, <1>20, <1>21, <1>22, <1>23, <1>24 DEF
     MgrStep

\* Likewise the API's steps and the faults.
LEMMA FunnelRequest ==
    ASSUME TypeOK, AtHand, LaunchFirst, AtLaunch, ListsHold, NEW u \in Trial, RequestOrFault
    PROVE  Funnel!Edge(u) /\ Funnel!Judged(u)
<1> USE DEF TypeOK, AtHand, LaunchFirst, ListsHold, Verdicts, StopPc, Funnel!Keeps,
           Funnel!Edge, Funnel!Idle, Funnel!Judged, rows, supvars
<1>1. CASE StopRead
  BY <1>1 DEF StopRead
<1>2. CASE StopMark
  <2>1. /\ MarkAnomaly(api.trial) /\ trial' = trial /\ run' = run
        /\ api.trial \in Trial /\ run[api.trial] # "none"
    BY <1>2 DEF StopMark
  <2>. HIDE DEF TypeOK, Funnel!Edge, Funnel!Judged
  <2>. QED
    BY <2>1, MarkFunnel
<1>3. CASE StopRun
  <2>1. /\ trial' = trial /\ answer' = answer
        /\ (run'[u] = "none") <=> (run[u] = "none")
    BY <1>3 DEF StopRun, FinishRun, Unfinished
  <2>. QED
    BY <2>1
<1>4. CASE StopTrial
  <2>. DEFINE o == IF api.seen = "sealed" THEN "sealed" ELSE "cancelled"
  <2>1. /\ FinishTrial(api.trial, o) /\ run' = run /\ answer' = answer
        /\ api.trial \in Trial /\ run[api.trial] # "none"
        /\ o \in Terminal /\ (o = "sealed" => answer[api.trial] # "none")
    BY <1>4 DEF StopTrial, Terminal
  <2>. HIDE DEF TypeOK, Funnel!Edge, Funnel!Judged, o
  <2>. QED
    BY <2>1, FinishFunnel
<1>5. CASE (\E e \in Experiment : CancelEnd(e))
  BY <1>5 DEF CancelEnd, ApiIdle
<1>6. CASE (\E e \in Experiment : CancelBegin(e))
  BY <1>6, AnsweredOpenEffect DEF CancelBegin, TrialsOf
<1>7. CASE (\E e \in Experiment : Resume(e))
  BY <1>7 DEF Resume
<1>8. CASE \E row \in Trial \X Verdicts : CancelAnswered(row)
  <2>. PICK row \in Trial \X Verdicts : CancelAnswered(row)
    BY <1>8
  <2>1. /\ FinishTrial(row[1], row[2]) /\ run' = run /\ answer' = answer
        /\ row[1] \in Trial /\ row[2] \in Terminal
        /\ answer[row[1]] # "none" /\ run[row[1]] # "none"
    BY DEF CancelAnswered, Terminal
  <2>. HIDE DEF TypeOK, Funnel!Edge, Funnel!Judged
  <2>. QED
    BY <2>1, FinishFunnel
<1>9. CASE ManagerCrash
  BY <1>9 DEF ManagerCrash, ManagerDown
<1>10. CASE ApiCrash
  BY <1>10 DEF ApiCrash, ApiIdle
<1>11. CASE (\E t \in Trial : Killed(t))
  BY <1>11 DEF Killed, SupGoto, SupExit, Alive
<1>. QED
  BY <1>1, <1>2, <1>3, <1>4, <1>5, <1>6, <1>7, <1>8, <1>9, <1>10, <1>11 DEF
     RequestOrFault, Fault

-----------------------------------------------------------------------------
(* The theorems.                                                           *)

\* A manager step keeps the inductive invariant.
LEMMA ManagerKeeps ==
    ASSUME IInv, MgrStep
    PROVE  IInv'
<1>1. mgr' \in ManagerState
  BY ManagerStateManager DEF IInv
<1>2. TypeOK'
  BY <1>1, TypeManager DEF IInv
<1>3. AtHand' /\ LaunchFirst' /\ AtLaunch' /\ ListsHold'
  BY BooksManager DEF IInv
<1>4. SealedHasAnswer' /\ CompletedIsDone' /\ CancelDrainsPlan' /\ OnlyLostAreReaped'
  BY AnsweredManager, DoneManager, DrainedManager, LostManager DEF IInv
<1>. QED
  BY <1>2, <1>3, <1>4 DEF IInv

\* So does every other API step and every fault.
LEMMA RequestKeeps ==
    ASSUME IInv, RequestOrFault
    PROVE  IInv'
<1>1. mgr' \in ManagerState /\ api' \in ApiState
  BY ManagerStateRequest, ApiStateRequest DEF IInv
<1>2. TypeOK'
  BY <1>1, TypeRequest DEF IInv
<1>3. AtHand' /\ LaunchFirst' /\ AtLaunch' /\ ListsHold'
  BY BooksRequest DEF IInv
<1>4. SealedHasAnswer' /\ CompletedIsDone' /\ CancelDrainsPlan' /\ OnlyLostAreReaped'
  BY AnsweredRequest, DoneRequest, DrainedRequest, LostRequest DEF IInv
<1>. QED
  BY <1>2, <1>3, <1>4 DEF IInv

\* The kinds of step the lemmas above distinguish are all there are.
LEMMA StepKinds ==
    ASSUME Next
    PROVE  \/ \E t \in Trial : SupStep(t)
           \/ MgrStep
           \/ RequestOrFault
           \/ StopNext
           \/ \E e \in Experiment : CancelPlan(e)
  BY DEF Next, ApiStep, CancelStep, RequestOrFault

\* A stutter keeps the inductive invariant.
LEMMA StutterKeeps ==
    ASSUME IInv, UNCHANGED vars
    PROVE  IInv'
<1> USE DEF vars
<1>1. TypeOK'
  BY DEF IInv, TypeOK
<1>2. AtHand' /\ LaunchFirst' /\ AtLaunch' /\ ListsHold'
  BY DEF IInv, AtHand, LaunchFirst, AtLaunch, ListsHold
<1>3. SealedHasAnswer' /\ CompletedIsDone' /\ CancelDrainsPlan' /\ OnlyLostAreReaped'
  BY DEF IInv, SealedHasAnswer, CompletedIsDone, CancelDrainsPlan, OnlyLostAreReaped,
         Vouched, Alive
<1>. QED
  BY <1>1, <1>2, <1>3 DEF IInv

\* Every reachable state of every instance satisfies the inductive invariant.
THEOREM Inductive == Spec => []IInv
<1>1. Init => IInv
  BY InitInductive
<1>2. IInv /\ [Next]_vars => IInv'
  <2> SUFFICES ASSUME IInv, [Next]_vars PROVE IInv'
    OBVIOUS
  <2>1. CASE Next
    BY <2>1, StepKinds, SupKeeps, ManagerKeeps, RequestKeeps, StopNextKeeps, CancelPlanKeeps
  <2>2. CASE UNCHANGED vars
    BY <2>2, StutterKeeps
  <2>. QED
    BY <2>1, <2>2
<1>. QED
  BY <1>1, <1>2, PTL DEF Spec

\* All five processes keep every column and every program counter in its range.
THEOREM TypeCorrect == Spec => []TypeOK
<1>1. IInv => TypeOK
  BY DEF IInv
<1>. QED
  BY <1>1, Inductive, PTL

\* No recovery, unclaim or cancel leaves a launched trial where it would be launched
\* again, for any number of crashes: ADR 0003's "never silently re-answered".
THEOREM LaunchedOnce == Spec => []NeverRerun
<1>1. IInv => NeverRerun
  BY DEF IInv, NeverRerun, LaunchFirst, AtLaunch
<1>. QED
  BY <1>1, Inductive, PTL

\* A trial is sealed only on an answer row, whoever finishes it.
THEOREM SealedOnAnswer == Spec => []SealedHasAnswer
<1>1. IInv => SealedHasAnswer
  BY DEF IInv
<1>. QED
  BY <1>1, Inductive, PTL

\* A completed experiment has only terminal trials.
THEOREM CompletedMeansDone == Spec => []CompletedIsDone
<1>1. IInv => CompletedIsDone
  BY DEF IInv
<1>. QED
  BY <1>1, Inductive, PTL

\* A cancel leaves no trial the manager could still claim or unclaim.
THEOREM CancelDrains == Spec => []CancelDrainsPlan
<1>1. IInv => CancelDrainsPlan
  BY DEF IInv
<1>. QED
  BY <1>1, Inductive, PTL

\* The manager never gives up a supervisor that its recorded identity vouches for.
THEOREM NoLiveReaped == Spec => []OnlyLostAreReaped
<1>1. IInv => OnlyLostAreReaped
  BY DEF IInv
<1>. QED
  BY <1>1, Inductive, PTL

\* Any number of trials may take an edge of the funnel in one step.
LEMMA FunnelStep ==
    ASSUME IInv, [Next]_vars, NEW u \in Trial
    PROVE  Funnel!Edge(u) /\ Funnel!Judged(u)
<1>1. CASE \E t \in Trial : SupStep(t)
  BY <1>1, SupFunnel
<1>2. CASE MgrStep
  BY <1>2, FunnelManager DEF IInv
<1>3. CASE RequestOrFault
  BY <1>3, FunnelRequest DEF IInv
<1>4. CASE StopNext
  BY <1>4, StopNextFunnel
<1>5. CASE \E e \in Experiment : CancelPlan(e)
  BY <1>5, CancelPlanFunnel
<1>6. CASE UNCHANGED vars
  BY <1>6 DEF vars, Funnel!Edge, Funnel!Idle, Funnel!Judged, Funnel!Keeps
<1>. QED
  BY <1>1, <1>2, <1>3, <1>4, <1>5, <1>6, StepKinds

\* Lifecycle implements the funnel: with the processes hidden, every behaviour of the
\* manager, the API and the supervisors, under any failures, is one of TrialFunnel.
THEOREM Implements == Spec => ImplementsFunnel
<1>1. Init => Funnel!Init
  <2> SUFFICES ASSUME Init PROVE Funnel!Init
    OBVIOUS
  <2>1. \A t \in Trial : (run[t] # "none") = FALSE
    BY DEF Init
  <2>2. [t \in Trial |-> run[t] # "none"] = [t \in Trial |-> FALSE]
    BY <2>1, Zenon
  <2>. QED
    BY <2>2 DEF Init, Funnel!Init
<1>2. IInv /\ IInv' /\ [Next]_vars => [Funnel!Next]_(Funnel!vars)
  <2> SUFFICES ASSUME IInv, IInv', [Next]_vars PROVE Funnel!Next
    OBVIOUS
  <2>1. TypeOK'
    BY DEF IInv
  <2>2. \A t \in Trial : Funnel!Edge(t) /\ Funnel!Judged(t)
    BY FunnelStep
  <2>. QED
    BY <2>1, <2>2 DEF Funnel!Next, Funnel!Terminal, TypeOK, TrialStatus, Terminal, Verdicts
<1>. QED
  BY <1>1, <1>2, Inductive, PTL DEF Spec, ImplementsFunnel, Funnel!Spec

\* First legal trigger wins: a terminal trial keeps its status for ever.
THEOREM TerminalFinal == Spec => TerminalIsFinal
<1>1. IInv /\ [Next]_vars => \A t \in Trial : trial[t] \in Terminal => trial'[t] = trial[t]
  <2> SUFFICES ASSUME IInv, [Next]_vars, NEW t \in Trial, trial[t] \in Terminal
               PROVE  trial'[t] = trial[t]
    OBVIOUS
  <2>. QED
    BY FunnelStep DEF Funnel!Edge, Funnel!Claim, Funnel!Unclaim, Funnel!Launch,
       Funnel!Start,
                      Funnel!Finish, Funnel!Idle, Funnel!Keeps, Funnel!Terminal, Terminal
<1>. QED
  BY <1>1, Inductive, PTL DEF Spec, TerminalIsFinal

\* An answer row is written once and may only be disqualified afterwards.
THEOREM AnswerFinal == Spec => AnswerIsFinal
<1>1. IInv /\ [Next]_vars =>
        \A t \in Trial : answer[t] # "none" =>
           answer'[t] = answer[t] \/ (answer[t] = "sealed" /\ answer'[t] = "anomaly")
  BY FunnelStep DEF Funnel!Judged, Funnel!Keeps
<1>. QED
  BY <1>1, Inductive, PTL DEF Spec, AnswerIsFinal

\* Whoever finishes one trial finds its launch: finish_trial on a launched one.
LEMMA FinishesLaunched ==
    ASSUME TypeOK, NEW t \in Trial, NEW o \in Terminal, FinishTrial(t, o), run[t] # "none",
           NEW u \in Trial, run[u] = "none"
    PROVE  trial'[u] = trial[u]
  BY FinishTrialEffect

\* Outside cancel's plan, no step makes an unlaunched trial terminal.
LEMMA UnlaunchedGoOn ==
    ASSUME IInv, NEW u \in Trial, run[u] = "none", trial[u] \notin Terminal, Next,
           \A e \in Experiment : ~CancelPlan(e)
    PROVE  trial'[u] \notin Terminal
<1>0. TypeOK /\ AtHand /\ LaunchFirst /\ AtLaunch /\ ListsHold
  BY DEF IInv
<1>1. ASSUME NEW t \in Trial, SupStep(t)
      PROVE  trial'[u] = trial[u]
  <2>1. run[t] # "none" /\ \A v \in Trial \ {t} : trial'[v] = trial[v]
    BY <1>1, SupEffect DEF IInv, LaunchFirst, Alive
  <2>. QED
    BY <2>1
<1>2. CASE LostFinish
  <2>1. /\ FinishTrial(mgr.trial, OutcomeOf(mgr.trial)) /\ mgr.trial \in Trial
        /\ run[mgr.trial] # "none" /\ OutcomeOf(mgr.trial) \in Terminal
    BY <1>0, <1>2, OutcomeOfEffect
       DEF LostFinish, AtHand, AtLaunch, MgrTrialPc, Verdicts, Terminal
  <2>. QED
    BY <1>0, <2>1, FinishesLaunched
<1>3. ASSUME NEW row \in Trial \X Verdicts, ReconcileTrial(row) \/ CancelAnswered(row)
      PROVE  trial'[u] = trial[u]
  <2>1. FinishTrial(row[1], row[2]) /\ row \in mgr.rows \cup api.rows
    BY <1>3 DEF ReconcileTrial, CancelAnswered
  <2>2. row[1] \in Trial /\ row[2] \in Terminal /\ run[row[1]] # "none"
    BY <1>0, <2>1 DEF ListsHold, LaunchFirst, Verdicts, Terminal
  <2>. QED
    BY <1>0, <2>1, <2>2, FinishesLaunched
<1>4. CASE StopTrial
  <2>1. /\ FinishTrial(api.trial, IF api.seen = "sealed" THEN "sealed" ELSE "cancelled")
        /\ api.trial \in Trial /\ run[api.trial] # "none"
    BY <1>0, <1>4 DEF StopTrial, ListsHold, AtHand, StopPc
  <2>. QED
    BY <1>0, <2>1, FinishesLaunched DEF Terminal
<1>5. CASE RecoverStaleClaims \/ MintFailed \/ \E t \in Trial : Claim(t)
  <2>1. trial'[u] \in {trial[u], "planned", "claimed"}
    BY <1>0, <1>5 DEF RecoverStaleClaims, MintFailed, Claim, TypeOK, AtHand, MgrTrialPc
  <2>. QED
    BY <2>1 DEF Terminal
<1>6. CASE \/ ManagerStart \/ StartReap \/ LoopReap \/ ReapDone \/ LostRun \/ LostMark
           \/ ReconcileRead \/ ReconcileExperiments \/ PauseRead \/ PauseWrite \/ ClaimNothing
           \/ MintToken \/ CreateRun \/ Spawn \/ SpawnFailed \/ RecordSupervisor \/ WaitDone
           \/ \E t \in Trial : RecoverAnswer(t) \/ Reap(t)
  <2>1. trial' = trial
    BY <1>6, WaitDoneEffect
       DEF ManagerStart, StartReap, LoopReap, ReapDone, LostRun, LostMark, ReconcileRead,
           ReconcileExperiments, PauseRead, PauseWrite, ClaimNothing, MintToken, CreateRun, Spawn,
           SpawnFailed, RecordSupervisor, RecoverAnswer, Reap, rows
  <2>. QED
    BY <2>1
<1>7. CASE \/ StopRead \/ StopMark \/ StopRun \/ StopNext \/ Fault
           \/ \E e \in Experiment : CancelBegin(e) \/ CancelEnd(e) \/ Resume(e)
  <2>1. trial' = trial
    BY <1>7 DEF StopRead, StopMark, StopRun, StopNext, CancelBegin, CancelEnd, Resume, Fault,
                ManagerCrash, ApiCrash, Killed, rows
  <2>. QED
    BY <2>1
<1>. QED
  BY <1>1, <1>2, <1>3, <1>4, <1>5, <1>6, <1>7
     DEF Next, MgrStep, ApiStep, CancelStep

\* A trial that was never launched is given up by a cancel of its experiment and by
\* nothing else: no recovery, failed launch or reaper ends it.
THEOREM UnlaunchedCancelled == Spec => UnlaunchedOnlyCancelled
<1>1. IInv /\ [Next]_vars =>
        \A t \in Trial : run[t] = "none" /\ trial'[t] \in Terminal /\ trial[t] \notin Terminal =>
            trial'[t] = "cancelled" /\ ExpOf[t] \in api.exps
  <2> SUFFICES ASSUME IInv, [Next]_vars, NEW t \in Trial, run[t] = "none",
                      trial'[t] \in Terminal, trial[t] \notin Terminal
               PROVE  trial'[t] = "cancelled" /\ ExpOf[t] \in api.exps
    OBVIOUS
  <2>1. Next
    BY DEF vars
  <2>2. PICK e \in Experiment : CancelPlan(e)
    BY <2>1, UnlaunchedGoOn
  <2>3. trial' = CancelUnlaunched(e) /\ e \in api.exps
    BY <2>2, CancelPlanEffect DEF IInv
  <2>. QED
    BY <2>3 DEF CancelUnlaunched
<1>. QED
  BY <1>1, Inductive, PTL DEF Spec, UnlaunchedOnlyCancelled
=============================================================================
