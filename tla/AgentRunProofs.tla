--------------------------- MODULE AgentRunProofs ---------------------------
(***************************************************************************)
(* Proofs about AgentRun: whatever the adapter, the hook's threads, the    *)
(* deadline, the submission and a restarted manager do to one run, in any  *)
(* order and for any number of steps.  IInv adds to the properties what    *)
(* each of the actors has left behind at every point of the run.           *)
(***************************************************************************)
EXTENDS AgentRun, TLAPS

-----------------------------------------------------------------------------
(* The inductive invariant.                                                *)

\* Until the agent's end nobody has sealed or finished anything, and what the supervisor
\* has marked is the failed check.
NothingYet ==
    /\ sup \in {"checks", "failed", "unstarted", "start", "probe", "agent", "ended"} =>
          \A t \in Thread : hook[t] = "idle"
    /\ sup \in {"checks", "failed", "unstarted"} => passed < Len(Checks)
    /\ sup \in {"checks", "failed", "start", "probe"} => answer.status = "none"
    /\ sup \in {"checks", "failed", "unstarted", "start", "probe"} => adapter.class = "none"
    /\ sup = "unstarted" =>
          answer.status = "anomaly" /\ answer.trigger \in {TriggerOf[c] : c \in DOMAIN TriggerOf}

\* While the adapter runs, no answer is sealed.  A failure it has found is on its way to the
\* answer row, or the row is the anomaly of that failure.
FailureLeads ==
    /\ sup = "agent" => answer.status # "sealed"
    /\ sup = "agent" /\ adapter.class = "none" => answer.status = "none"
    /\ adapter.pc \in {"record", "mark"} => sup = "agent" /\ adapter.class # "none"
    /\ adapter.class # "none" =>
          \/ adapter.pc \in {"record", "mark"} /\ answer.status = "none"
          \/ adapter.pc = "over" /\ answer = [status |-> "anomaly", trigger |-> "target_failure"]

\* The phase is recorded, and read by an adoption, only of a failure that gets its row;
\* an adoption reads the list before it writes to it.
PhaseHasFailure ==
    /\ "target_failure" \in phases \cup adoption.seen =>
          adapter.class # "none" /\ adapter.pc \in {"mark", "over"}
    /\ "adopted" \in phases => adoption.pc = "done"

\* The trial is finished last.
TrialLast == sup # "over" => trial \notin Terminal

\* What the run's exit says is so from the commit of the exit on.
ExitHasReason ==
    /\ run.exit \in ConditionExits =>
          \/ sup = "failed"
          \/ /\ answer.status = "anomaly"
             /\ answer.trigger \in {"target_failure"} \cup {TriggerOf[c] : c \in DOMAIN TriggerOf}
    /\ run.exit = "submit" => sub

\* What a thread is about to publish is a copy that it has completed.
CopyIsWhole == \A t \in Thread : hook[t] = "copied" => raw[t] = "whole"

Reported == sup = "over" => trial = (IF answer.status = "none" THEN "anomaly" ELSE answer.status)

IInv ==
    /\ TypeOK /\ trace # "partial"
    /\ NothingYet /\ FailureLeads /\ PhaseHasFailure
    /\ TrialLast /\ ExitHasReason /\ CopyIsWhole /\ Reported

-----------------------------------------------------------------------------
(* The initial state and the tables of the checks.                         *)

\* Every check has its exit and its trigger, and both are among those of a failed condition.
LEMMA FailingIsKnown ==
    passed \in 0..Len(Checks) /\ passed < Len(Checks) =>
        /\ ExitOf[Failing] \in Exits \cap ConditionExits
        /\ TriggerOf[Failing] \in Triggers \cap {TriggerOf[c] : c \in DOMAIN TriggerOf}
<1> SUFFICES ASSUME passed \in 0..Len(Checks), passed < Len(Checks)
             PROVE  Failing \in DOMAIN ExitOf /\ Failing \in DOMAIN TriggerOf
  BY DEF Exits, Triggers, ConditionExits
<1>1. passed \in {0, 1, 2, 3, 4, 5, 6}
  BY DEF Checks
<1>. QED
  BY <1>1 DEF Failing, Checks, ExitOf, TriggerOf

\* The exits that a run without a failed condition can have are not among those of one.
LEMMA OtherExits == {"none", "submit", "normal", "agent_error", "timeout"} \cap ConditionExits = {}
BY DEF ConditionExits, ExitOf

\* The initial state satisfies the inductive invariant.
LEMMA InitInductive == Init => IInv
<1> SUFFICES ASSUME Init PROVE IInv
  OBVIOUS
<1>1. TypeOK
  <2>1. /\ passed \in 0..Len(Checks)
        /\ answer \in [status: {"none"} \cup Terminal, trigger: Triggers]
        /\ run \in [status: {"launching", "running", "finished", "error"}, exit: Exits]
    BY DEF Init, Checks, Triggers, Exits
  <2>2. /\ pi \in [last: {"none", "reply", "error"}, message: BOOLEAN, gaveUp: BOOLEAN, ok: BOOLEAN]
        /\ sub \in BOOLEAN
    BY DEF Init
  <2>3. /\ hook \in [Thread -> {"idle", "look", "copy", "copying", "copied", "traced", "seal",
                              "done"}]
        /\ raw \in [Thread -> {"none", "partial", "whole"}]
        /\ phases \subseteq {"target_failure", "adopted"}
        /\ adoption \in [pc: {"idle", "read", "done"}, seen: SUBSET {"target_failure"}]
    BY DEF Init
  <2>. QED
    BY <2>1, <2>2, <2>3 DEF Init, TypeOK
<1>2. NothingYet
  BY DEF Init, NothingYet, Checks
<1>3. FailureLeads /\ PhaseHasFailure /\ TrialLast /\ CopyIsWhole /\ Reported
  BY DEF Init, FailureLeads, PhaseHasFailure, TrialLast, CopyIsWhole, Reported, Terminal
<1>4. ExitHasReason
  BY OtherExits DEF Init, ExitHasReason
<1>. QED
  BY <1>1, <1>2, <1>3, <1>4 DEF IInv, Init

-----------------------------------------------------------------------------
(* The steps: one lemma for each part of the invariant.                    *)

\* Every step keeps the types.
LEMMA TypeStep == TypeOK /\ NothingYet /\ PhaseHasFailure /\ [Next]_vars => TypeOK'
<1> SUFFICES ASSUME TypeOK, NothingYet, PhaseHasFailure, [Next]_vars PROVE TypeOK'
  OBVIOUS
<1> USE DEF TypeOK, NothingYet, PhaseHasFailure, Thread, Exits, Triggers, Terminal, Checks,
            ExitOf, TriggerOf, inHarbor, tracing, watching, noted, rows
<1>1. CASE CheckPasses
  BY <1>1 DEF CheckPasses
<1>2. CASE CheckFails
  <2>1. run' \in [status: {"launching", "running", "finished", "error"}, exit: Exits]
    BY <1>2, FailingIsKnown DEF CheckFails, FinishRun
  <2>. QED
    BY <1>2, <2>1 DEF CheckFails
<1>3. CASE MarkUnstarted
  BY <1>3 DEF MarkUnstarted, MarkAnomaly, Failing
<1>4. CASE FinishUnstarted
  BY <1>4 DEF FinishUnstarted, FinishTrial
<1>5. CASE AgentStart
  BY <1>5 DEF AgentStart
<1>6. CASE ProbePasses
  BY <1>6 DEF ProbePasses
<1>7. CASE StartFails
  BY <1>7 DEF StartFails
<1>8. CASE ClaimTask
  BY <1>8 DEF ClaimTask, In, To, Raise, AdapterKeeps
<1>9. CASE ResolveCredential
  BY <1>9 DEF ResolveCredential, In, To, Raise, AdapterKeeps
<1>10. CASE WriteConfig
  BY <1>10 DEF WriteConfig, In, To, Raise, AdapterKeeps
<1>11. CASE PiEnds
  BY <1>11 DEF PiEnds, In, To, Raise, AdapterKeeps
<1>12. CASE FetchTranscript
  BY <1>12 DEF FetchTranscript, In, To, Raise, AdapterKeeps
<1>13. CASE Classify
  BY <1>13 DEF Classify, In, To, Raise, AdapterKeeps
<1>14. CASE RecordFailure
  BY <1>14 DEF RecordFailure, In, To, Raise, AdapterKeeps
<1>15. CASE MarkFailure
  BY <1>15 DEF MarkFailure, In, To, Raise, AdapterKeeps, MarkAnomaly
<1>16. CASE SubmitIntent
  <2>1. sub' \in BOOLEAN
    BY <1>16 DEF SubmitIntent, Raise
  <2>. QED
    BY <1>16, <2>1 DEF SubmitIntent, In, To, Raise, AdapterKeeps
<1>17. CASE AgentEnds
  BY <1>17 DEF AgentEnds, In
<1>18. CASE AgentTimesOut
  BY <1>18 DEF AgentTimesOut, Awaiting, To
<1>19. CASE HookTraces
  BY <1>19 DEF HookTraces, Goto
<1>20. CASE HookSeals
  BY <1>20 DEF HookSeals, Goto
<1>21. CASE HarborReturns
  BY <1>21 DEF HarborReturns
<1>22. CASE ResultRead
  BY <1>22 DEF ResultRead, FinishRun, ExitKind, MechanicalExit
<1>23. CASE FinishFromResult
  BY <1>23 DEF FinishFromResult, FinishFromAnswer, FinishTrial
<1>24. CASE Deadline
  BY <1>24 DEF Deadline, Awaiting, To
<1>25. CASE TimeoutTraces
  BY <1>25 DEF TimeoutTraces, Goto
<1>26. CASE TimeoutSeals
  BY <1>26 DEF TimeoutSeals, Goto
<1>27. CASE TimeoutSealed
  BY <1>27 DEF TimeoutSealed
<1>28. CASE Retrigger
  BY <1>28 DEF Retrigger
<1>29. CASE Verdict
  BY <1>29 DEF Verdict
<1>30. CASE TimeoutFinishes
  BY <1>30 DEF TimeoutFinishes, FinishRun
<1>31. CASE CrashFinishes
  BY <1>31 DEF CrashFinishes, FinishRun
<1>32. CASE CrashMarks
  BY <1>32 DEF CrashMarks, MarkAnomaly
<1>33. CASE CrashSettles
  BY <1>33 DEF CrashSettles, FinishFromAnswer, FinishTrial
<1>34. ASSUME NEW t \in Thread, LookForTrace(t) PROVE TypeOK'
  BY <1>34 DEF LookForTrace, Alive, Goto, ThreadKeeps, Temp
<1>35. ASSUME NEW t \in Thread, CopyTrace(t) PROVE TypeOK'
  BY <1>35 DEF CopyTrace, Alive, Goto, ThreadKeeps, Temp
<1>36. ASSUME NEW t \in Thread, CopyTraceEnds(t) PROVE TypeOK'
  BY <1>36 DEF CopyTraceEnds, Alive, Goto, ThreadKeeps, Temp
<1>37. ASSUME NEW t \in Thread, PublishTrace(t) PROVE TypeOK'
  BY <1>37 DEF PublishTrace, Alive, Goto, ThreadKeeps, Temp
<1>38. ASSUME NEW t \in Thread, Seal(t) PROVE TypeOK'
  BY <1>38 DEF Seal, Alive, Goto, ThreadKeeps, Temp, MarkAnomaly, TriggerAt
<1>39. CASE AgentSubmits
  BY <1>39 DEF AgentSubmits, In
<1>40. CASE WatchFires
  BY <1>40 DEF WatchFires, Awaiting
<1>41. CASE WatchStops
  BY <1>41 DEF WatchStops
<1>42. CASE AdoptReads
  BY <1>42 DEF AdoptReads
<1>43. CASE AdoptWrites
  BY <1>43 DEF AdoptWrites
<1>44. CASE UNCHANGED vars
  BY <1>44 DEF vars
<1>. QED
  BY <1>1, <1>2, <1>3, <1>4, <1>5, <1>6, <1>7, <1>8, <1>9, <1>10, <1>11, <1>12, <1>13, <1>14,
     <1>15, <1>16, <1>17, <1>18, <1>19, <1>20, <1>21, <1>22, <1>23, <1>24, <1>25, <1>26, <1>27,
     <1>28, <1>29, <1>30, <1>31, <1>32, <1>33, <1>34, <1>35, <1>36, <1>37, <1>38, <1>39, <1>40,
     <1>41, <1>42, <1>43, <1>44 DEF Next, Coroutine, Adapter, ThreadStep

\* Nothing is sealed or marked for another reason before the agent's end.
LEMMA NothingStep == TypeOK /\ NothingYet /\ [Next]_vars => NothingYet'
<1> SUFFICES ASSUME TypeOK, NothingYet, [Next]_vars PROVE NothingYet'
  OBVIOUS
<1> USE DEF TypeOK, NothingYet, Thread, inHarbor, tracing, watching, noted, rows
<1>1. CASE CheckPasses
  BY <1>1 DEF CheckPasses
<1>2. CASE CheckFails
  BY <1>2 DEF CheckFails, FinishRun, Failing
<1>3. CASE MarkUnstarted
  <2>1. TriggerOf[Failing] \in {TriggerOf[c] : c \in DOMAIN TriggerOf}
    BY <1>3, FailingIsKnown DEF MarkUnstarted
  <2>. QED
    BY <1>3, <2>1 DEF MarkUnstarted, MarkAnomaly
<1>4. CASE FinishUnstarted
  BY <1>4 DEF FinishUnstarted, FinishTrial
<1>5. CASE AgentStart
  BY <1>5 DEF AgentStart
<1>6. CASE ProbePasses
  BY <1>6 DEF ProbePasses
<1>7. CASE StartFails
  BY <1>7 DEF StartFails
<1>8. CASE ClaimTask
  BY <1>8 DEF ClaimTask, In, To, Raise, AdapterKeeps
<1>9. CASE ResolveCredential
  BY <1>9 DEF ResolveCredential, In, To, Raise, AdapterKeeps
<1>10. CASE WriteConfig
  BY <1>10 DEF WriteConfig, In, To, Raise, AdapterKeeps
<1>11. CASE PiEnds
  BY <1>11 DEF PiEnds, In, To, Raise, AdapterKeeps
<1>12. CASE FetchTranscript
  BY <1>12 DEF FetchTranscript, In, To, Raise, AdapterKeeps
<1>13. CASE Classify
  BY <1>13 DEF Classify, In, To, Raise, AdapterKeeps
<1>14. CASE RecordFailure
  BY <1>14 DEF RecordFailure, In, To, Raise, AdapterKeeps
<1>15. CASE MarkFailure
  BY <1>15 DEF MarkFailure, In, To, Raise, AdapterKeeps, MarkAnomaly
<1>16. CASE SubmitIntent
  BY <1>16 DEF SubmitIntent, In, To, Raise, AdapterKeeps
<1>17. CASE AgentEnds
  BY <1>17 DEF AgentEnds, In
<1>18. CASE AgentTimesOut
  BY <1>18 DEF AgentTimesOut, Awaiting, To
<1>19. CASE HookTraces
  BY <1>19 DEF HookTraces, Goto
<1>20. CASE HookSeals
  BY <1>20 DEF HookSeals, Goto
<1>21. CASE HarborReturns
  BY <1>21 DEF HarborReturns
<1>22. CASE ResultRead
  BY <1>22 DEF ResultRead, FinishRun, ExitKind, MechanicalExit
<1>23. CASE FinishFromResult
  BY <1>23 DEF FinishFromResult, FinishFromAnswer, FinishTrial
<1>24. CASE Deadline
  BY <1>24 DEF Deadline, Awaiting, To
<1>25. CASE TimeoutTraces
  BY <1>25 DEF TimeoutTraces, Goto
<1>26. CASE TimeoutSeals
  BY <1>26 DEF TimeoutSeals, Goto
<1>27. CASE TimeoutSealed
  BY <1>27 DEF TimeoutSealed
<1>28. CASE Retrigger
  BY <1>28 DEF Retrigger
<1>29. CASE Verdict
  BY <1>29 DEF Verdict
<1>30. CASE TimeoutFinishes
  BY <1>30 DEF TimeoutFinishes, FinishRun
<1>31. CASE CrashFinishes
  BY <1>31 DEF CrashFinishes, FinishRun
<1>32. CASE CrashMarks
  BY <1>32 DEF CrashMarks, MarkAnomaly
<1>33. CASE CrashSettles
  BY <1>33 DEF CrashSettles, FinishFromAnswer, FinishTrial
<1>34. ASSUME NEW t \in Thread, LookForTrace(t) PROVE NothingYet'
  BY <1>34 DEF LookForTrace, Alive, Goto, ThreadKeeps, Temp
<1>35. ASSUME NEW t \in Thread, CopyTrace(t) PROVE NothingYet'
  BY <1>35 DEF CopyTrace, Alive, Goto, ThreadKeeps, Temp
<1>36. ASSUME NEW t \in Thread, CopyTraceEnds(t) PROVE NothingYet'
  BY <1>36 DEF CopyTraceEnds, Alive, Goto, ThreadKeeps, Temp
<1>37. ASSUME NEW t \in Thread, PublishTrace(t) PROVE NothingYet'
  BY <1>37 DEF PublishTrace, Alive, Goto, ThreadKeeps, Temp
<1>38. ASSUME NEW t \in Thread, Seal(t) PROVE NothingYet'
  BY <1>38 DEF Seal, Alive, Goto, ThreadKeeps, Temp, MarkAnomaly, TriggerAt
<1>39. CASE AgentSubmits
  BY <1>39 DEF AgentSubmits, In
<1>40. CASE WatchFires
  BY <1>40 DEF WatchFires, Awaiting
<1>41. CASE WatchStops
  BY <1>41 DEF WatchStops
<1>42. CASE AdoptReads
  BY <1>42 DEF AdoptReads
<1>43. CASE AdoptWrites
  BY <1>43 DEF AdoptWrites
<1>44. CASE UNCHANGED vars
  BY <1>44 DEF vars
<1>. QED
  BY <1>1, <1>2, <1>3, <1>4, <1>5, <1>6, <1>7, <1>8, <1>9, <1>10, <1>11, <1>12, <1>13, <1>14,
     <1>15, <1>16, <1>17, <1>18, <1>19, <1>20, <1>21, <1>22, <1>23, <1>24, <1>25, <1>26, <1>27,
     <1>28, <1>29, <1>30, <1>31, <1>32, <1>33, <1>34, <1>35, <1>36, <1>37, <1>38, <1>39, <1>40,
     <1>41, <1>42, <1>43, <1>44 DEF Next, Coroutine, Adapter, ThreadStep

\* A failure found stays on its way to the answer row.
LEMMA FailureStep == TypeOK /\ NothingYet /\ FailureLeads /\ [Next]_vars => FailureLeads'
<1> SUFFICES ASSUME TypeOK, NothingYet, FailureLeads, [Next]_vars PROVE FailureLeads'
  OBVIOUS
<1> USE DEF TypeOK, NothingYet, FailureLeads, inHarbor, tracing, watching, noted, rows
<1>1. CASE CheckPasses
  BY <1>1 DEF CheckPasses
<1>2. CASE CheckFails
  BY <1>2 DEF CheckFails, FinishRun, Failing
<1>3. CASE MarkUnstarted
  BY <1>3 DEF MarkUnstarted, MarkAnomaly, Failing
<1>4. CASE FinishUnstarted
  BY <1>4 DEF FinishUnstarted, FinishTrial
<1>5. CASE AgentStart
  BY <1>5 DEF AgentStart
<1>6. CASE ProbePasses
  BY <1>6 DEF ProbePasses
<1>7. CASE StartFails
  BY <1>7 DEF StartFails
<1>8. CASE ClaimTask
  BY <1>8 DEF ClaimTask, In, To, Raise, AdapterKeeps
<1>9. CASE ResolveCredential
  BY <1>9 DEF ResolveCredential, In, To, Raise, AdapterKeeps
<1>10. CASE WriteConfig
  BY <1>10 DEF WriteConfig, In, To, Raise, AdapterKeeps
<1>11. CASE PiEnds
  BY <1>11 DEF PiEnds, In, To, Raise, AdapterKeeps
<1>12. CASE FetchTranscript
  BY <1>12 DEF FetchTranscript, In, To, Raise, AdapterKeeps
<1>13. CASE Classify
  BY <1>13 DEF Classify, In, To, Raise, AdapterKeeps
<1>14. CASE RecordFailure
  BY <1>14 DEF RecordFailure, In, To, Raise, AdapterKeeps
<1>15. CASE MarkFailure
  BY <1>15 DEF MarkFailure, In, To, Raise, AdapterKeeps, MarkAnomaly
<1>16. CASE SubmitIntent
  BY <1>16 DEF SubmitIntent, In, To, Raise, AdapterKeeps
<1>17. CASE AgentEnds
  BY <1>17 DEF AgentEnds, In
<1>18. CASE AgentTimesOut
  BY <1>18 DEF AgentTimesOut, Awaiting, To
<1>19. CASE HookTraces
  BY <1>19 DEF HookTraces, Goto
<1>20. CASE HookSeals
  BY <1>20 DEF HookSeals, Goto
<1>21. CASE HarborReturns
  BY <1>21 DEF HarborReturns
<1>22. CASE ResultRead
  BY <1>22 DEF ResultRead, FinishRun, ExitKind, MechanicalExit
<1>23. CASE FinishFromResult
  BY <1>23 DEF FinishFromResult, FinishFromAnswer, FinishTrial
<1>24. CASE Deadline
  BY <1>24 DEF Deadline, Awaiting, To
<1>25. CASE TimeoutTraces
  BY <1>25 DEF TimeoutTraces, Goto
<1>26. CASE TimeoutSeals
  BY <1>26 DEF TimeoutSeals, Goto
<1>27. CASE TimeoutSealed
  BY <1>27 DEF TimeoutSealed
<1>28. CASE Retrigger
  BY <1>28 DEF Retrigger
<1>29. CASE Verdict
  BY <1>29 DEF Verdict
<1>30. CASE TimeoutFinishes
  BY <1>30 DEF TimeoutFinishes, FinishRun
<1>31. CASE CrashFinishes
  BY <1>31 DEF CrashFinishes, FinishRun
<1>32. CASE CrashMarks
  BY <1>32 DEF CrashMarks, MarkAnomaly
<1>33. CASE CrashSettles
  BY <1>33 DEF CrashSettles, FinishFromAnswer, FinishTrial
<1>34. ASSUME NEW t \in Thread, LookForTrace(t) PROVE FailureLeads'
  BY <1>34 DEF LookForTrace, Alive, Goto, ThreadKeeps, Temp
<1>35. ASSUME NEW t \in Thread, CopyTrace(t) PROVE FailureLeads'
  BY <1>35 DEF CopyTrace, Alive, Goto, ThreadKeeps, Temp
<1>36. ASSUME NEW t \in Thread, CopyTraceEnds(t) PROVE FailureLeads'
  BY <1>36 DEF CopyTraceEnds, Alive, Goto, ThreadKeeps, Temp
<1>37. ASSUME NEW t \in Thread, PublishTrace(t) PROVE FailureLeads'
  BY <1>37 DEF PublishTrace, Alive, Goto, ThreadKeeps, Temp
<1>38. ASSUME NEW t \in Thread, Seal(t) PROVE FailureLeads'
  BY <1>38 DEF Seal, Alive, Goto, ThreadKeeps, Temp, MarkAnomaly, TriggerAt
<1>39. CASE AgentSubmits
  BY <1>39 DEF AgentSubmits, In
<1>40. CASE WatchFires
  BY <1>40 DEF WatchFires, Awaiting
<1>41. CASE WatchStops
  BY <1>41 DEF WatchStops
<1>42. CASE AdoptReads
  BY <1>42 DEF AdoptReads
<1>43. CASE AdoptWrites
  BY <1>43 DEF AdoptWrites
<1>44. CASE UNCHANGED vars
  BY <1>44 DEF vars
<1>. QED
  BY <1>1, <1>2, <1>3, <1>4, <1>5, <1>6, <1>7, <1>8, <1>9, <1>10, <1>11, <1>12, <1>13, <1>14,
     <1>15, <1>16, <1>17, <1>18, <1>19, <1>20, <1>21, <1>22, <1>23, <1>24, <1>25, <1>26, <1>27,
     <1>28, <1>29, <1>30, <1>31, <1>32, <1>33, <1>34, <1>35, <1>36, <1>37, <1>38, <1>39, <1>40,
     <1>41, <1>42, <1>43, <1>44 DEF Next, Coroutine, Adapter, ThreadStep

\* The phase stays that of a failure that is marked.
LEMMA PhaseStep ==
    TypeOK /\ NothingYet /\ FailureLeads /\ PhaseHasFailure /\ [Next]_vars => PhaseHasFailure'
<1> SUFFICES ASSUME TypeOK, NothingYet, FailureLeads, PhaseHasFailure, [Next]_vars
             PROVE  PhaseHasFailure'
  OBVIOUS
<1> USE DEF TypeOK, NothingYet, FailureLeads, PhaseHasFailure, inHarbor, tracing, watching,
            noted, rows
<1>1. CASE CheckPasses
  BY <1>1 DEF CheckPasses
<1>2. CASE CheckFails
  BY <1>2 DEF CheckFails, FinishRun, Failing
<1>3. CASE MarkUnstarted
  BY <1>3 DEF MarkUnstarted, MarkAnomaly, Failing
<1>4. CASE FinishUnstarted
  BY <1>4 DEF FinishUnstarted, FinishTrial
<1>5. CASE AgentStart
  BY <1>5 DEF AgentStart
<1>6. CASE ProbePasses
  BY <1>6 DEF ProbePasses
<1>7. CASE StartFails
  BY <1>7 DEF StartFails
<1>8. CASE ClaimTask
  BY <1>8 DEF ClaimTask, In, To, Raise, AdapterKeeps
<1>9. CASE ResolveCredential
  BY <1>9 DEF ResolveCredential, In, To, Raise, AdapterKeeps
<1>10. CASE WriteConfig
  BY <1>10 DEF WriteConfig, In, To, Raise, AdapterKeeps
<1>11. CASE PiEnds
  BY <1>11 DEF PiEnds, In, To, Raise, AdapterKeeps
<1>12. CASE FetchTranscript
  BY <1>12 DEF FetchTranscript, In, To, Raise, AdapterKeeps
<1>13. CASE Classify
  BY <1>13 DEF Classify, In, To, Raise, AdapterKeeps
<1>14. CASE RecordFailure
  BY <1>14 DEF RecordFailure, In, To, Raise, AdapterKeeps
<1>15. CASE MarkFailure
  BY <1>15 DEF MarkFailure, In, To, Raise, AdapterKeeps, MarkAnomaly
<1>16. CASE SubmitIntent
  BY <1>16 DEF SubmitIntent, In, To, Raise, AdapterKeeps
<1>17. CASE AgentEnds
  BY <1>17 DEF AgentEnds, In
<1>18. CASE AgentTimesOut
  BY <1>18 DEF AgentTimesOut, Awaiting, To
<1>19. CASE HookTraces
  BY <1>19 DEF HookTraces, Goto
<1>20. CASE HookSeals
  BY <1>20 DEF HookSeals, Goto
<1>21. CASE HarborReturns
  BY <1>21 DEF HarborReturns
<1>22. CASE ResultRead
  BY <1>22 DEF ResultRead, FinishRun, ExitKind, MechanicalExit
<1>23. CASE FinishFromResult
  BY <1>23 DEF FinishFromResult, FinishFromAnswer, FinishTrial
<1>24. CASE Deadline
  BY <1>24 DEF Deadline, Awaiting, To
<1>25. CASE TimeoutTraces
  BY <1>25 DEF TimeoutTraces, Goto
<1>26. CASE TimeoutSeals
  BY <1>26 DEF TimeoutSeals, Goto
<1>27. CASE TimeoutSealed
  BY <1>27 DEF TimeoutSealed
<1>28. CASE Retrigger
  BY <1>28 DEF Retrigger
<1>29. CASE Verdict
  BY <1>29 DEF Verdict
<1>30. CASE TimeoutFinishes
  BY <1>30 DEF TimeoutFinishes, FinishRun
<1>31. CASE CrashFinishes
  BY <1>31 DEF CrashFinishes, FinishRun
<1>32. CASE CrashMarks
  BY <1>32 DEF CrashMarks, MarkAnomaly
<1>33. CASE CrashSettles
  BY <1>33 DEF CrashSettles, FinishFromAnswer, FinishTrial
<1>34. ASSUME NEW t \in Thread, LookForTrace(t) PROVE PhaseHasFailure'
  BY <1>34 DEF LookForTrace, Alive, Goto, ThreadKeeps, Temp
<1>35. ASSUME NEW t \in Thread, CopyTrace(t) PROVE PhaseHasFailure'
  BY <1>35 DEF CopyTrace, Alive, Goto, ThreadKeeps, Temp
<1>36. ASSUME NEW t \in Thread, CopyTraceEnds(t) PROVE PhaseHasFailure'
  BY <1>36 DEF CopyTraceEnds, Alive, Goto, ThreadKeeps, Temp
<1>37. ASSUME NEW t \in Thread, PublishTrace(t) PROVE PhaseHasFailure'
  BY <1>37 DEF PublishTrace, Alive, Goto, ThreadKeeps, Temp
<1>38. ASSUME NEW t \in Thread, Seal(t) PROVE PhaseHasFailure'
  BY <1>38 DEF Seal, Alive, Goto, ThreadKeeps, Temp, MarkAnomaly, TriggerAt
<1>39. CASE AgentSubmits
  BY <1>39 DEF AgentSubmits, In
<1>40. CASE WatchFires
  BY <1>40 DEF WatchFires, Awaiting
<1>41. CASE WatchStops
  BY <1>41 DEF WatchStops
<1>42. CASE AdoptReads
  BY <1>42 DEF AdoptReads
<1>43. CASE AdoptWrites
  BY <1>43 DEF AdoptWrites
<1>44. CASE UNCHANGED vars
  BY <1>44 DEF vars
<1>. QED
  BY <1>1, <1>2, <1>3, <1>4, <1>5, <1>6, <1>7, <1>8, <1>9, <1>10, <1>11, <1>12, <1>13, <1>14,
     <1>15, <1>16, <1>17, <1>18, <1>19, <1>20, <1>21, <1>22, <1>23, <1>24, <1>25, <1>26, <1>27,
     <1>28, <1>29, <1>30, <1>31, <1>32, <1>33, <1>34, <1>35, <1>36, <1>37, <1>38, <1>39, <1>40,
     <1>41, <1>42, <1>43, <1>44 DEF Next, Coroutine, Adapter, ThreadStep

\* No step but the last one finishes the trial.
LEMMA TrialStep == TypeOK /\ NothingYet /\ TrialLast /\ [Next]_vars => TrialLast'
<1> SUFFICES ASSUME TypeOK, NothingYet, TrialLast, [Next]_vars PROVE TrialLast'
  OBVIOUS
<1> USE DEF TypeOK, NothingYet, TrialLast, Terminal, inHarbor, tracing, watching, noted, rows
<1>1. CASE CheckPasses
  BY <1>1 DEF CheckPasses
<1>2. CASE CheckFails
  BY <1>2 DEF CheckFails, FinishRun, Failing
<1>3. CASE MarkUnstarted
  BY <1>3 DEF MarkUnstarted, MarkAnomaly, Failing
<1>4. CASE FinishUnstarted
  BY <1>4 DEF FinishUnstarted, FinishTrial
<1>5. CASE AgentStart
  BY <1>5 DEF AgentStart
<1>6. CASE ProbePasses
  BY <1>6 DEF ProbePasses
<1>7. CASE StartFails
  BY <1>7 DEF StartFails
<1>8. CASE ClaimTask
  BY <1>8 DEF ClaimTask, In, To, Raise, AdapterKeeps
<1>9. CASE ResolveCredential
  BY <1>9 DEF ResolveCredential, In, To, Raise, AdapterKeeps
<1>10. CASE WriteConfig
  BY <1>10 DEF WriteConfig, In, To, Raise, AdapterKeeps
<1>11. CASE PiEnds
  BY <1>11 DEF PiEnds, In, To, Raise, AdapterKeeps
<1>12. CASE FetchTranscript
  BY <1>12 DEF FetchTranscript, In, To, Raise, AdapterKeeps
<1>13. CASE Classify
  BY <1>13 DEF Classify, In, To, Raise, AdapterKeeps
<1>14. CASE RecordFailure
  BY <1>14 DEF RecordFailure, In, To, Raise, AdapterKeeps
<1>15. CASE MarkFailure
  BY <1>15 DEF MarkFailure, In, To, Raise, AdapterKeeps, MarkAnomaly
<1>16. CASE SubmitIntent
  BY <1>16 DEF SubmitIntent, In, To, Raise, AdapterKeeps
<1>17. CASE AgentEnds
  BY <1>17 DEF AgentEnds, In
<1>18. CASE AgentTimesOut
  BY <1>18 DEF AgentTimesOut, Awaiting, To
<1>19. CASE HookTraces
  BY <1>19 DEF HookTraces, Goto
<1>20. CASE HookSeals
  BY <1>20 DEF HookSeals, Goto
<1>21. CASE HarborReturns
  BY <1>21 DEF HarborReturns
<1>22. CASE ResultRead
  BY <1>22 DEF ResultRead, FinishRun, ExitKind, MechanicalExit
<1>23. CASE FinishFromResult
  BY <1>23 DEF FinishFromResult, FinishFromAnswer, FinishTrial
<1>24. CASE Deadline
  BY <1>24 DEF Deadline, Awaiting, To
<1>25. CASE TimeoutTraces
  BY <1>25 DEF TimeoutTraces, Goto
<1>26. CASE TimeoutSeals
  BY <1>26 DEF TimeoutSeals, Goto
<1>27. CASE TimeoutSealed
  BY <1>27 DEF TimeoutSealed
<1>28. CASE Retrigger
  BY <1>28 DEF Retrigger
<1>29. CASE Verdict
  BY <1>29 DEF Verdict
<1>30. CASE TimeoutFinishes
  BY <1>30 DEF TimeoutFinishes, FinishRun
<1>31. CASE CrashFinishes
  BY <1>31 DEF CrashFinishes, FinishRun
<1>32. CASE CrashMarks
  BY <1>32 DEF CrashMarks, MarkAnomaly
<1>33. CASE CrashSettles
  BY <1>33 DEF CrashSettles, FinishFromAnswer, FinishTrial
<1>34. ASSUME NEW t \in Thread, LookForTrace(t) PROVE TrialLast'
  BY <1>34 DEF LookForTrace, Alive, Goto, ThreadKeeps, Temp
<1>35. ASSUME NEW t \in Thread, CopyTrace(t) PROVE TrialLast'
  BY <1>35 DEF CopyTrace, Alive, Goto, ThreadKeeps, Temp
<1>36. ASSUME NEW t \in Thread, CopyTraceEnds(t) PROVE TrialLast'
  BY <1>36 DEF CopyTraceEnds, Alive, Goto, ThreadKeeps, Temp
<1>37. ASSUME NEW t \in Thread, PublishTrace(t) PROVE TrialLast'
  BY <1>37 DEF PublishTrace, Alive, Goto, ThreadKeeps, Temp
<1>38. ASSUME NEW t \in Thread, Seal(t) PROVE TrialLast'
  BY <1>38 DEF Seal, Alive, Goto, ThreadKeeps, Temp, MarkAnomaly, TriggerAt
<1>39. CASE AgentSubmits
  BY <1>39 DEF AgentSubmits, In
<1>40. CASE WatchFires
  BY <1>40 DEF WatchFires, Awaiting
<1>41. CASE WatchStops
  BY <1>41 DEF WatchStops
<1>42. CASE AdoptReads
  BY <1>42 DEF AdoptReads
<1>43. CASE AdoptWrites
  BY <1>43 DEF AdoptWrites
<1>44. CASE UNCHANGED vars
  BY <1>44 DEF vars
<1>. QED
  BY <1>1, <1>2, <1>3, <1>4, <1>5, <1>6, <1>7, <1>8, <1>9, <1>10, <1>11, <1>12, <1>13, <1>14,
     <1>15, <1>16, <1>17, <1>18, <1>19, <1>20, <1>21, <1>22, <1>23, <1>24, <1>25, <1>26, <1>27,
     <1>28, <1>29, <1>30, <1>31, <1>32, <1>33, <1>34, <1>35, <1>36, <1>37, <1>38, <1>39, <1>40,
     <1>41, <1>42, <1>43, <1>44 DEF Next, Coroutine, Adapter, ThreadStep

\* A run's exit keeps its reason.
LEMMA ExitStep == IInv /\ [Next]_vars => ExitHasReason'
<1> SUFFICES ASSUME IInv, [Next]_vars PROVE ExitHasReason'
  OBVIOUS
<1> USE DEF IInv, TypeOK, NothingYet, FailureLeads, PhaseHasFailure, ExitHasReason, inHarbor,
            tracing, watching, noted, rows
<1>1. CASE CheckPasses
  BY <1>1 DEF CheckPasses
<1>2. CASE CheckFails
  <2>1. run' = run \/ run'.exit = ExitOf[Failing]
    BY <1>2 DEF CheckFails, FinishRun
  <2>2. ExitOf[Failing] # "submit"
    BY <1>2, FailingIsKnown, OtherExits DEF CheckFails
  <2>. QED
    BY <1>2, <2>1, <2>2 DEF CheckFails
<1>3. CASE MarkUnstarted
  <2>1. TriggerOf[Failing] \in {TriggerOf[c] : c \in DOMAIN TriggerOf}
    BY <1>3, FailingIsKnown DEF MarkUnstarted
  <2>. QED
    BY <1>3, <2>1 DEF MarkUnstarted, MarkAnomaly
<1>4. CASE FinishUnstarted
  BY <1>4 DEF FinishUnstarted, FinishTrial
<1>5. CASE AgentStart
  BY <1>5 DEF AgentStart
<1>6. CASE ProbePasses
  BY <1>6 DEF ProbePasses
<1>7. CASE StartFails
  BY <1>7 DEF StartFails
<1>8. CASE ClaimTask
  BY <1>8 DEF ClaimTask, In, To, Raise, AdapterKeeps
<1>9. CASE ResolveCredential
  BY <1>9 DEF ResolveCredential, In, To, Raise, AdapterKeeps
<1>10. CASE WriteConfig
  BY <1>10 DEF WriteConfig, In, To, Raise, AdapterKeeps
<1>11. CASE PiEnds
  BY <1>11 DEF PiEnds, In, To, Raise, AdapterKeeps
<1>12. CASE FetchTranscript
  BY <1>12 DEF FetchTranscript, In, To, Raise, AdapterKeeps
<1>13. CASE Classify
  BY <1>13 DEF Classify, In, To, Raise, AdapterKeeps
<1>14. CASE RecordFailure
  BY <1>14 DEF RecordFailure, In, To, Raise, AdapterKeeps
<1>15. CASE MarkFailure
  BY <1>15 DEF MarkFailure, In, To, Raise, AdapterKeeps, MarkAnomaly
<1>16. CASE SubmitIntent
  BY <1>16 DEF SubmitIntent, In, To, Raise, AdapterKeeps
<1>17. CASE AgentEnds
  BY <1>17 DEF AgentEnds, In
<1>18. CASE AgentTimesOut
  BY <1>18 DEF AgentTimesOut, Awaiting, To
<1>19. CASE HookTraces
  BY <1>19 DEF HookTraces, Goto
<1>20. CASE HookSeals
  BY <1>20 DEF HookSeals, Goto
<1>21. CASE HarborReturns
  BY <1>21 DEF HarborReturns
<1>22. CASE ResultRead
  <2>1. CASE "target_failure" \in phases
    <3>1. ExitKind # "submit"
      BY <2>1 DEF ExitKind
    <3>2. answer = [status |-> "anomaly", trigger |-> "target_failure"]
      BY <1>22, <2>1 DEF ResultRead
    <3>. QED
      BY <1>22, <3>1, <3>2 DEF ResultRead, FinishRun
  <2>2. CASE "target_failure" \notin phases
    <3>1. /\ ExitKind \in {"submit", "agent_error", "normal"}
          /\ ExitKind = "submit" => sub
      BY <2>2 DEF ExitKind, MechanicalExit
    <3>2. ExitKind \notin ConditionExits
      BY <3>1, OtherExits
    <3>. QED
      BY <1>22, <3>1, <3>2 DEF ResultRead, FinishRun
  <2>. QED
    BY <2>1, <2>2
<1>23. CASE FinishFromResult
  BY <1>23 DEF FinishFromResult, FinishFromAnswer, FinishTrial
<1>24. CASE Deadline
  BY <1>24 DEF Deadline, Awaiting, To
<1>25. CASE TimeoutTraces
  BY <1>25 DEF TimeoutTraces, Goto
<1>26. CASE TimeoutSeals
  BY <1>26 DEF TimeoutSeals, Goto
<1>27. CASE TimeoutSealed
  BY <1>27 DEF TimeoutSealed
<1>28. CASE Retrigger
  BY <1>28 DEF Retrigger
<1>29. CASE Verdict
  BY <1>29 DEF Verdict
<1>30. CASE TimeoutFinishes
  BY <1>30, OtherExits DEF TimeoutFinishes, FinishRun
<1>31. CASE CrashFinishes
  BY <1>31, OtherExits DEF CrashFinishes, FinishRun
<1>32. CASE CrashMarks
  BY <1>32 DEF CrashMarks, MarkAnomaly
<1>33. CASE CrashSettles
  BY <1>33 DEF CrashSettles, FinishFromAnswer, FinishTrial
<1>34. ASSUME NEW t \in Thread, LookForTrace(t) PROVE ExitHasReason'
  BY <1>34 DEF LookForTrace, Alive, Goto, ThreadKeeps, Temp
<1>35. ASSUME NEW t \in Thread, CopyTrace(t) PROVE ExitHasReason'
  BY <1>35 DEF CopyTrace, Alive, Goto, ThreadKeeps, Temp
<1>36. ASSUME NEW t \in Thread, CopyTraceEnds(t) PROVE ExitHasReason'
  BY <1>36 DEF CopyTraceEnds, Alive, Goto, ThreadKeeps, Temp
<1>37. ASSUME NEW t \in Thread, PublishTrace(t) PROVE ExitHasReason'
  BY <1>37 DEF PublishTrace, Alive, Goto, ThreadKeeps, Temp
<1>38. ASSUME NEW t \in Thread, Seal(t) PROVE ExitHasReason'
  BY <1>38 DEF Seal, Alive, Goto, ThreadKeeps, Temp, MarkAnomaly, TriggerAt
<1>39. CASE AgentSubmits
  BY <1>39 DEF AgentSubmits, In
<1>40. CASE WatchFires
  BY <1>40 DEF WatchFires, Awaiting
<1>41. CASE WatchStops
  BY <1>41 DEF WatchStops
<1>42. CASE AdoptReads
  BY <1>42 DEF AdoptReads
<1>43. CASE AdoptWrites
  BY <1>43 DEF AdoptWrites
<1>44. CASE UNCHANGED vars
  BY <1>44 DEF vars
<1>. QED
  BY <1>1, <1>2, <1>3, <1>4, <1>5, <1>6, <1>7, <1>8, <1>9, <1>10, <1>11, <1>12, <1>13, <1>14,
     <1>15, <1>16, <1>17, <1>18, <1>19, <1>20, <1>21, <1>22, <1>23, <1>24, <1>25, <1>26, <1>27,
     <1>28, <1>29, <1>30, <1>31, <1>32, <1>33, <1>34, <1>35, <1>36, <1>37, <1>38, <1>39, <1>40,
     <1>41, <1>42, <1>43, <1>44 DEF Next, Coroutine, Adapter, ThreadStep

\* Copies stay whole, and whole copies are published.
LEMMA CopyStep == TypeOK /\ CopyIsWhole /\ [Next]_vars => CopyIsWhole'
<1> SUFFICES ASSUME TypeOK, CopyIsWhole, [Next]_vars PROVE CopyIsWhole'
  OBVIOUS
<1> USE DEF TypeOK, CopyIsWhole, Thread, inHarbor, tracing, watching, noted, rows
<1>1. CASE CheckPasses
  BY <1>1 DEF CheckPasses
<1>2. CASE CheckFails
  BY <1>2 DEF CheckFails, FinishRun, Failing
<1>3. CASE MarkUnstarted
  BY <1>3 DEF MarkUnstarted, MarkAnomaly, Failing
<1>4. CASE FinishUnstarted
  BY <1>4 DEF FinishUnstarted, FinishTrial
<1>5. CASE AgentStart
  BY <1>5 DEF AgentStart
<1>6. CASE ProbePasses
  BY <1>6 DEF ProbePasses
<1>7. CASE StartFails
  BY <1>7 DEF StartFails
<1>8. CASE ClaimTask
  BY <1>8 DEF ClaimTask, In, To, Raise, AdapterKeeps
<1>9. CASE ResolveCredential
  BY <1>9 DEF ResolveCredential, In, To, Raise, AdapterKeeps
<1>10. CASE WriteConfig
  BY <1>10 DEF WriteConfig, In, To, Raise, AdapterKeeps
<1>11. CASE PiEnds
  BY <1>11 DEF PiEnds, In, To, Raise, AdapterKeeps
<1>12. CASE FetchTranscript
  BY <1>12 DEF FetchTranscript, In, To, Raise, AdapterKeeps
<1>13. CASE Classify
  BY <1>13 DEF Classify, In, To, Raise, AdapterKeeps
<1>14. CASE RecordFailure
  BY <1>14 DEF RecordFailure, In, To, Raise, AdapterKeeps
<1>15. CASE MarkFailure
  BY <1>15 DEF MarkFailure, In, To, Raise, AdapterKeeps, MarkAnomaly
<1>16. CASE SubmitIntent
  BY <1>16 DEF SubmitIntent, In, To, Raise, AdapterKeeps
<1>17. CASE AgentEnds
  BY <1>17 DEF AgentEnds, In
<1>18. CASE AgentTimesOut
  BY <1>18 DEF AgentTimesOut, Awaiting, To
<1>19. CASE HookTraces
  BY <1>19 DEF HookTraces, Goto
<1>20. CASE HookSeals
  BY <1>20 DEF HookSeals, Goto
<1>21. CASE HarborReturns
  BY <1>21 DEF HarborReturns
<1>22. CASE ResultRead
  BY <1>22 DEF ResultRead, FinishRun, ExitKind, MechanicalExit
<1>23. CASE FinishFromResult
  BY <1>23 DEF FinishFromResult, FinishFromAnswer, FinishTrial
<1>24. CASE Deadline
  BY <1>24 DEF Deadline, Awaiting, To
<1>25. CASE TimeoutTraces
  BY <1>25 DEF TimeoutTraces, Goto
<1>26. CASE TimeoutSeals
  BY <1>26 DEF TimeoutSeals, Goto
<1>27. CASE TimeoutSealed
  BY <1>27 DEF TimeoutSealed
<1>28. CASE Retrigger
  BY <1>28 DEF Retrigger
<1>29. CASE Verdict
  BY <1>29 DEF Verdict
<1>30. CASE TimeoutFinishes
  BY <1>30 DEF TimeoutFinishes, FinishRun
<1>31. CASE CrashFinishes
  BY <1>31 DEF CrashFinishes, FinishRun
<1>32. CASE CrashMarks
  BY <1>32 DEF CrashMarks, MarkAnomaly
<1>33. CASE CrashSettles
  BY <1>33 DEF CrashSettles, FinishFromAnswer, FinishTrial
<1>34. ASSUME NEW t \in Thread, LookForTrace(t) PROVE CopyIsWhole'
  BY <1>34 DEF LookForTrace, Alive, Goto, ThreadKeeps, Temp
<1>35. ASSUME NEW t \in Thread, CopyTrace(t) PROVE CopyIsWhole'
  BY <1>35 DEF CopyTrace, Alive, Goto, ThreadKeeps, Temp
<1>36. ASSUME NEW t \in Thread, CopyTraceEnds(t) PROVE CopyIsWhole'
  BY <1>36 DEF CopyTraceEnds, Alive, Goto, ThreadKeeps, Temp
<1>37. ASSUME NEW t \in Thread, PublishTrace(t) PROVE CopyIsWhole'
  BY <1>37 DEF PublishTrace, Alive, Goto, ThreadKeeps, Temp
<1>38. ASSUME NEW t \in Thread, Seal(t) PROVE CopyIsWhole'
  BY <1>38 DEF Seal, Alive, Goto, ThreadKeeps, Temp, MarkAnomaly, TriggerAt
<1>39. CASE AgentSubmits
  BY <1>39 DEF AgentSubmits, In
<1>40. CASE WatchFires
  BY <1>40 DEF WatchFires, Awaiting
<1>41. CASE WatchStops
  BY <1>41 DEF WatchStops
<1>42. CASE AdoptReads
  BY <1>42 DEF AdoptReads
<1>43. CASE AdoptWrites
  BY <1>43 DEF AdoptWrites
<1>44. CASE UNCHANGED vars
  BY <1>44 DEF vars
<1>. QED
  BY <1>1, <1>2, <1>3, <1>4, <1>5, <1>6, <1>7, <1>8, <1>9, <1>10, <1>11, <1>12, <1>13, <1>14,
     <1>15, <1>16, <1>17, <1>18, <1>19, <1>20, <1>21, <1>22, <1>23, <1>24, <1>25, <1>26, <1>27,
     <1>28, <1>29, <1>30, <1>31, <1>32, <1>33, <1>34, <1>35, <1>36, <1>37, <1>38, <1>39, <1>40,
     <1>41, <1>42, <1>43, <1>44 DEF Next, Coroutine, Adapter, ThreadStep

\* The last step reports the answer.
LEMMA ReportStep == IInv /\ [Next]_vars => Reported'
<1> SUFFICES ASSUME IInv, [Next]_vars PROVE Reported'
  OBVIOUS
<1> USE DEF IInv, TypeOK, NothingYet, TrialLast, Reported, inHarbor, tracing, watching, noted,
            rows
<1>1. CASE CheckPasses
  BY <1>1 DEF CheckPasses
<1>2. CASE CheckFails
  BY <1>2 DEF CheckFails, FinishRun, Failing
<1>3. CASE MarkUnstarted
  BY <1>3 DEF MarkUnstarted, MarkAnomaly, Failing
<1>4. CASE FinishUnstarted
  BY <1>4 DEF FinishUnstarted, FinishTrial
<1>5. CASE AgentStart
  BY <1>5 DEF AgentStart
<1>6. CASE ProbePasses
  BY <1>6 DEF ProbePasses
<1>7. CASE StartFails
  BY <1>7 DEF StartFails
<1>8. CASE ClaimTask
  BY <1>8 DEF ClaimTask, In, To, Raise, AdapterKeeps
<1>9. CASE ResolveCredential
  BY <1>9 DEF ResolveCredential, In, To, Raise, AdapterKeeps
<1>10. CASE WriteConfig
  BY <1>10 DEF WriteConfig, In, To, Raise, AdapterKeeps
<1>11. CASE PiEnds
  BY <1>11 DEF PiEnds, In, To, Raise, AdapterKeeps
<1>12. CASE FetchTranscript
  BY <1>12 DEF FetchTranscript, In, To, Raise, AdapterKeeps
<1>13. CASE Classify
  BY <1>13 DEF Classify, In, To, Raise, AdapterKeeps
<1>14. CASE RecordFailure
  BY <1>14 DEF RecordFailure, In, To, Raise, AdapterKeeps
<1>15. CASE MarkFailure
  BY <1>15 DEF MarkFailure, In, To, Raise, AdapterKeeps, MarkAnomaly
<1>16. CASE SubmitIntent
  BY <1>16 DEF SubmitIntent, In, To, Raise, AdapterKeeps
<1>17. CASE AgentEnds
  BY <1>17 DEF AgentEnds, In
<1>18. CASE AgentTimesOut
  BY <1>18 DEF AgentTimesOut, Awaiting, To
<1>19. CASE HookTraces
  BY <1>19 DEF HookTraces, Goto
<1>20. CASE HookSeals
  BY <1>20 DEF HookSeals, Goto
<1>21. CASE HarborReturns
  BY <1>21 DEF HarborReturns
<1>22. CASE ResultRead
  BY <1>22 DEF ResultRead, FinishRun, ExitKind, MechanicalExit
<1>23. CASE FinishFromResult
  BY <1>23 DEF FinishFromResult, FinishFromAnswer, FinishTrial
<1>24. CASE Deadline
  BY <1>24 DEF Deadline, Awaiting, To
<1>25. CASE TimeoutTraces
  BY <1>25 DEF TimeoutTraces, Goto
<1>26. CASE TimeoutSeals
  BY <1>26 DEF TimeoutSeals, Goto
<1>27. CASE TimeoutSealed
  BY <1>27 DEF TimeoutSealed
<1>28. CASE Retrigger
  BY <1>28 DEF Retrigger
<1>29. CASE Verdict
  BY <1>29 DEF Verdict
<1>30. CASE TimeoutFinishes
  BY <1>30 DEF TimeoutFinishes, FinishRun
<1>31. CASE CrashFinishes
  BY <1>31 DEF CrashFinishes, FinishRun
<1>32. CASE CrashMarks
  BY <1>32 DEF CrashMarks, MarkAnomaly
<1>33. CASE CrashSettles
  BY <1>33 DEF CrashSettles, FinishFromAnswer, FinishTrial
<1>34. ASSUME NEW t \in Thread, LookForTrace(t) PROVE Reported'
  BY <1>34 DEF LookForTrace, Alive, Goto, ThreadKeeps, Temp
<1>35. ASSUME NEW t \in Thread, CopyTrace(t) PROVE Reported'
  BY <1>35 DEF CopyTrace, Alive, Goto, ThreadKeeps, Temp
<1>36. ASSUME NEW t \in Thread, CopyTraceEnds(t) PROVE Reported'
  BY <1>36 DEF CopyTraceEnds, Alive, Goto, ThreadKeeps, Temp
<1>37. ASSUME NEW t \in Thread, PublishTrace(t) PROVE Reported'
  BY <1>37 DEF PublishTrace, Alive, Goto, ThreadKeeps, Temp
<1>38. ASSUME NEW t \in Thread, Seal(t) PROVE Reported'
  BY <1>38 DEF Seal, Alive, Goto, ThreadKeeps, Temp, MarkAnomaly, TriggerAt
<1>39. CASE AgentSubmits
  BY <1>39 DEF AgentSubmits, In
<1>40. CASE WatchFires
  BY <1>40 DEF WatchFires, Awaiting
<1>41. CASE WatchStops
  BY <1>41 DEF WatchStops
<1>42. CASE AdoptReads
  BY <1>42 DEF AdoptReads
<1>43. CASE AdoptWrites
  BY <1>43 DEF AdoptWrites
<1>44. CASE UNCHANGED vars
  BY <1>44 DEF vars
<1>. QED
  BY <1>1, <1>2, <1>3, <1>4, <1>5, <1>6, <1>7, <1>8, <1>9, <1>10, <1>11, <1>12, <1>13, <1>14,
     <1>15, <1>16, <1>17, <1>18, <1>19, <1>20, <1>21, <1>22, <1>23, <1>24, <1>25, <1>26, <1>27,
     <1>28, <1>29, <1>30, <1>31, <1>32, <1>33, <1>34, <1>35, <1>36, <1>37, <1>38, <1>39, <1>40,
     <1>41, <1>42, <1>43, <1>44 DEF Next, Coroutine, Adapter, ThreadStep

\* A published trace is a whole copy.
LEMMA TraceStep == TypeOK /\ CopyIsWhole /\ trace # "partial" /\ [Next]_vars => (trace # "partial")'
<1> SUFFICES ASSUME TypeOK, CopyIsWhole, trace # "partial", [Next]_vars PROVE (trace # "partial")'
  OBVIOUS
<1> USE DEF TypeOK, CopyIsWhole, Thread, inHarbor, tracing, watching, noted, rows
<1>1. CASE CheckPasses
  BY <1>1 DEF CheckPasses
<1>2. CASE CheckFails
  BY <1>2 DEF CheckFails, FinishRun, Failing
<1>3. CASE MarkUnstarted
  BY <1>3 DEF MarkUnstarted, MarkAnomaly, Failing
<1>4. CASE FinishUnstarted
  BY <1>4 DEF FinishUnstarted, FinishTrial
<1>5. CASE AgentStart
  BY <1>5 DEF AgentStart
<1>6. CASE ProbePasses
  BY <1>6 DEF ProbePasses
<1>7. CASE StartFails
  BY <1>7 DEF StartFails
<1>8. CASE ClaimTask
  BY <1>8 DEF ClaimTask, In, To, Raise, AdapterKeeps
<1>9. CASE ResolveCredential
  BY <1>9 DEF ResolveCredential, In, To, Raise, AdapterKeeps
<1>10. CASE WriteConfig
  BY <1>10 DEF WriteConfig, In, To, Raise, AdapterKeeps
<1>11. CASE PiEnds
  BY <1>11 DEF PiEnds, In, To, Raise, AdapterKeeps
<1>12. CASE FetchTranscript
  BY <1>12 DEF FetchTranscript, In, To, Raise, AdapterKeeps
<1>13. CASE Classify
  BY <1>13 DEF Classify, In, To, Raise, AdapterKeeps
<1>14. CASE RecordFailure
  BY <1>14 DEF RecordFailure, In, To, Raise, AdapterKeeps
<1>15. CASE MarkFailure
  BY <1>15 DEF MarkFailure, In, To, Raise, AdapterKeeps, MarkAnomaly
<1>16. CASE SubmitIntent
  BY <1>16 DEF SubmitIntent, In, To, Raise, AdapterKeeps
<1>17. CASE AgentEnds
  BY <1>17 DEF AgentEnds, In
<1>18. CASE AgentTimesOut
  BY <1>18 DEF AgentTimesOut, Awaiting, To
<1>19. CASE HookTraces
  BY <1>19 DEF HookTraces, Goto
<1>20. CASE HookSeals
  BY <1>20 DEF HookSeals, Goto
<1>21. CASE HarborReturns
  BY <1>21 DEF HarborReturns
<1>22. CASE ResultRead
  BY <1>22 DEF ResultRead, FinishRun, ExitKind, MechanicalExit
<1>23. CASE FinishFromResult
  BY <1>23 DEF FinishFromResult, FinishFromAnswer, FinishTrial
<1>24. CASE Deadline
  BY <1>24 DEF Deadline, Awaiting, To
<1>25. CASE TimeoutTraces
  BY <1>25 DEF TimeoutTraces, Goto
<1>26. CASE TimeoutSeals
  BY <1>26 DEF TimeoutSeals, Goto
<1>27. CASE TimeoutSealed
  BY <1>27 DEF TimeoutSealed
<1>28. CASE Retrigger
  BY <1>28 DEF Retrigger
<1>29. CASE Verdict
  BY <1>29 DEF Verdict
<1>30. CASE TimeoutFinishes
  BY <1>30 DEF TimeoutFinishes, FinishRun
<1>31. CASE CrashFinishes
  BY <1>31 DEF CrashFinishes, FinishRun
<1>32. CASE CrashMarks
  BY <1>32 DEF CrashMarks, MarkAnomaly
<1>33. CASE CrashSettles
  BY <1>33 DEF CrashSettles, FinishFromAnswer, FinishTrial
<1>34. ASSUME NEW t \in Thread, LookForTrace(t) PROVE (trace # "partial")'
  BY <1>34 DEF LookForTrace, Alive, Goto, ThreadKeeps, Temp
<1>35. ASSUME NEW t \in Thread, CopyTrace(t) PROVE (trace # "partial")'
  BY <1>35 DEF CopyTrace, Alive, Goto, ThreadKeeps, Temp
<1>36. ASSUME NEW t \in Thread, CopyTraceEnds(t) PROVE (trace # "partial")'
  BY <1>36 DEF CopyTraceEnds, Alive, Goto, ThreadKeeps, Temp
<1>37. ASSUME NEW t \in Thread, PublishTrace(t) PROVE (trace # "partial")'
  BY <1>37 DEF PublishTrace, Alive, Goto, ThreadKeeps, Temp
<1>38. ASSUME NEW t \in Thread, Seal(t) PROVE (trace # "partial")'
  BY <1>38 DEF Seal, Alive, Goto, ThreadKeeps, Temp, MarkAnomaly, TriggerAt
<1>39. CASE AgentSubmits
  BY <1>39 DEF AgentSubmits, In
<1>40. CASE WatchFires
  BY <1>40 DEF WatchFires, Awaiting
<1>41. CASE WatchStops
  BY <1>41 DEF WatchStops
<1>42. CASE AdoptReads
  BY <1>42 DEF AdoptReads
<1>43. CASE AdoptWrites
  BY <1>43 DEF AdoptWrites
<1>44. CASE UNCHANGED vars
  BY <1>44 DEF vars
<1>. QED
  BY <1>1, <1>2, <1>3, <1>4, <1>5, <1>6, <1>7, <1>8, <1>9, <1>10, <1>11, <1>12, <1>13, <1>14,
     <1>15, <1>16, <1>17, <1>18, <1>19, <1>20, <1>21, <1>22, <1>23, <1>24, <1>25, <1>26, <1>27,
     <1>28, <1>29, <1>30, <1>31, <1>32, <1>33, <1>34, <1>35, <1>36, <1>37, <1>38, <1>39, <1>40,
     <1>41, <1>42, <1>43, <1>44 DEF Next, Coroutine, Adapter, ThreadStep

-----------------------------------------------------------------------------
(* The theorems.                                                           *)

\* The inductive invariant holds in every state of every run: what each actor has left
\* behind (execute_run, PiAgent.run, the hook's threads, handle_timeout, main's handler).
THEOREM Inductive == Spec => []IInv
<1>1. Init => IInv
  BY InitInductive
<1>2. IInv /\ [Next]_vars => IInv'
  BY TypeStep, NothingStep, FailureStep, PhaseStep, TrialStep, ExitStep, CopyStep, ReportStep,
     TraceStep DEF IInv
<1>. QED
  BY <1>1, <1>2, PTL DEF Spec

\* What is published of Pi's transcript (_capture_pi_trace) is always one thread's complete
\* copy, and every variable keeps its type.
THEOREM TraceWhole == Spec => []TraceIsWhole
<1>1. IInv => TraceIsWhole
  BY DEF IInv, TraceIsWhole
<1>. QED
  BY <1>1, Inductive, PTL

\* Once the adapter has found that the provider or the harness failed (_record_failure),
\* neither the answer nor the trial is ever sealed officially.
THEOREM FailedIsNoSample == Spec => []FailureIsNoSample
<1>1. IInv => FailureIsNoSample
  <2> SUFFICES ASSUME IInv, adapter.class # "none"
               PROVE  answer.status # "sealed" /\ trial # "sealed"
    BY DEF FailureIsNoSample
  <2>1. answer.status # "sealed"
    BY DEF IInv, FailureLeads
  <2>2. trial # "sealed"
    BY <2>1 DEF IInv, TrialLast, Reported, Terminal
  <2>. QED
    BY <2>1, <2>2
<1>. QED
  BY <1>1, Inductive, PTL

\* When the supervisor is done, the trial's status, the answer row and the run's exit
\* agree on what happened (finish_run, mark_anomaly, _finish_trial_from_answer).
THEOREM StoriesAgree == Spec => []ExitMatchesAnswer
<1>1. IInv => ExitMatchesAnswer
  BY DEF IInv, Reported, ExitHasReason, ExitMatchesAnswer
<1>. QED
  BY <1>1, Inductive, PTL

=============================================================================
