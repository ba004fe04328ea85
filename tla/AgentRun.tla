------------------------------ MODULE AgentRun ------------------------------
(***************************************************************************)
(* One run of the Pi target in a supervisor that is not killed: the checks *)
(* before the agent starts, the adapter inside Harbor's run, the hook at   *)
(* the agent's end, the deadline, the crash handler, and what each of them *)
(* leaves in trial_runs, sealed_answers and trials.  A seal is one step    *)
(* here (Sealing has its steps); so is each other function that commits.   *)
(***************************************************************************)
EXTENDS Naturals, Sequences

VARIABLES
    sup,        \* execute_run's coroutine and main's handler
    passed,     \* how many of the checks have passed
    adapter,    \* PiAgent.run
    pi,         \* how the Pi process ended, as its transcript tells
    raised,     \* what Harbor's result says about the agent
    container,
    sub,        \* a submission is persisted
    stopped,    \* watch_submit: its step
    hook,       \* the threads that on_agent_end and handle_timeout start
    raw,        \* unredacted copies under way, by file
    trace,      \* pi-traces/<run>/transcript.jsonl
    phases,     \* trial_runs.phases, as far as decisions depend on it
    adoption,   \* a restarted manager's add_phase: its step and the list it read
    answer,     \* the sealed_answers row
    run,        \* trial_runs: status and exit_kind
    trial       \* trials.status

vars == <<sup, passed, adapter, pi, raised, container, sub, stopped, hook, raw, trace,
          phases, adoption, answer, run, trial>>
inHarbor == <<adapter, pi, raised>>
tracing == <<hook, raw, trace>>
watching == <<sub, stopped>>
noted == <<phases, adoption>>
rows == <<answer, run, trial>>

\* What is checked before any side effect, in this order, with the exit that a failure
\* records for the run and the trigger it records for the trial.
Checks == <<"contract", "instruction", "profile", "endpoint", "skills", "image", "digest">>
ExitOf == [contract |-> "contract_invalid", instruction |-> "environment_invalid",
           profile |-> "unsupported_target", endpoint |-> "environment_invalid",
           skills |-> "harness_failure", image |-> "environment_invalid",
           digest |-> "environment_invalid"]
TriggerOf == [ExitOf EXCEPT !.skills = "skill_mismatch"]
Failing == Checks[passed + 1]

Thread == {"end", "timeout"}
Exits == {"none", "submit", "normal", "agent_error", "timeout", "provider_failure"}
         \cup {ExitOf[c] : c \in DOMAIN ExitOf}
Triggers == {"none", "submit", "exit", "timeout", "target_failure", "supervisor_crash"}
            \cup {TriggerOf[c] : c \in DOMAIN TriggerOf}
Terminal == {"sealed", "anomaly"}

TypeOK ==
    /\ sup \in {"checks", "failed", "unstarted", "start", "probe", "agent", "ended", "sealing", "result",
                "deadline", "capture", "seal", "retrigger", "late", "timedOut", "finish",
                "crash", "crashAnswer", "crashTrial", "over"}
    /\ passed \in 0..Len(Checks)
    /\ adapter \in [pc: {"task", "credential", "config", "pi", "fetch", "classify", "record",
                         "mark", "submit", "over"}, class: {"none", "provider", "harness"}]
    /\ pi \in [last: {"none", "reply", "error"}, message: BOOLEAN, gaveUp: BOOLEAN, ok: BOOLEAN]
    /\ raised \in {"none", "error", "timeout"}
    /\ container \in {"none", "running", "stopped", "gone"}
    /\ sub \in BOOLEAN
    /\ stopped \in {"polling", "fired", "stopped"}
    /\ hook \in [Thread -> {"idle", "look", "copy", "copying", "copied", "traced", "seal", "done"}]
    /\ raw \in [Thread -> {"none", "partial", "whole"}]
    /\ trace \in {"none", "whole", "partial"}
    /\ phases \subseteq {"target_failure", "adopted"}
    /\ adoption \in [pc: {"idle", "read", "done"}, seen: SUBSET {"target_failure"}]
    /\ answer \in [status: {"none"} \cup Terminal, trigger: Triggers]
    /\ run \in [status: {"launching", "running", "finished", "error"}, exit: Exits]
    /\ trial \in {"claimed", "running"} \cup Terminal

Init ==
    /\ sup = "checks"
    /\ passed = 0
    /\ adapter = [pc |-> "task", class |-> "none"]
    /\ pi = [last |-> "none", message |-> FALSE, gaveUp |-> FALSE, ok |-> TRUE]
    /\ raised = "none"
    /\ container = "none"
    /\ sub = FALSE
    /\ stopped = "polling"
    /\ hook = [t \in Thread |-> "idle"]
    /\ raw = [t \in Thread |-> "none"]
    /\ trace = "none"
    /\ phases = {}
    /\ adoption = [pc |-> "idle", seen |-> {}]
    /\ answer = [status |-> "none", trigger |-> "none"]
    /\ run = [status |-> "launching", exit |-> "none"]
    /\ trial = "claimed"

-----------------------------------------------------------------------------
(* The commits.                                                            *)

\* finish_run: the first outcome wins.
FinishRun(status, exit) ==
    run' = IF run.status \in {"launching", "running"} THEN [status |-> status, exit |-> exit] ELSE run

\* mark_anomaly: never over an existing row.
MarkAnomaly(trigger) ==
    answer' = IF answer.status = "none" THEN [status |-> "anomaly", trigger |-> trigger] ELSE answer

\* finish_trial: the first terminal status wins.
FinishTrial(outcome) == trial' = IF trial \in Terminal THEN trial ELSE outcome

\* _finish_trial_from_answer: without an answer row, an anomaly.
FinishFromAnswer == FinishTrial(IF answer.status = "none" THEN "anomaly" ELSE answer.status)

-----------------------------------------------------------------------------
(* Before the agent starts.                                                *)

CheckPasses ==
    /\ sup = "checks"
    /\ passed < Len(Checks)
    /\ passed' = passed + 1
    /\ sup' = IF passed' = Len(Checks) THEN "start" ELSE "checks"
    /\ UNCHANGED <<inHarbor, container, watching, tracing, noted, rows>>

CheckFails ==
    /\ sup = "checks"
    /\ FinishRun("error", ExitOf[Failing])
    /\ sup' = "failed"
    /\ UNCHANGED <<passed, inHarbor, container, watching, tracing, noted, answer, trial>>

\* _fail_before_agent_start: the answer row, then the trial.
MarkUnstarted ==
    /\ sup = "failed"
    /\ MarkAnomaly(TriggerOf[Failing])
    /\ sup' = "unstarted"
    /\ UNCHANGED <<passed, inHarbor, container, watching, tracing, noted, run, trial>>

\* Mutant: the run's outcome is thought to be enough.
LeaveUnstarted ==
    /\ sup = "unstarted"
    /\ sup' = "over"
    /\ UNCHANGED <<passed, inHarbor, container, watching, tracing, noted, rows>>
FinishUnstarted ==
    /\ sup = "unstarted"
    /\ FinishTrial("anomaly")
    /\ sup' = "over"
    /\ UNCHANGED <<passed, inHarbor, container, watching, tracing, noted, answer, run>>

\* Harbor brings the container up; on_agent_start finds it and marks run and trial.
AgentStart ==
    /\ sup = "start"
    /\ container' = "running"
    /\ run' = [run EXCEPT !.status = "running"]
    /\ trial' = "running"
    /\ sup' = "probe"
    /\ UNCHANGED <<passed, inHarbor, watching, tracing, noted, answer>>

\* The container is inspected, its baseline taken, its network found closed.
ProbePasses ==
    /\ sup = "probe"
    /\ sup' = "agent"
    /\ UNCHANGED <<passed, inHarbor, container, watching, tracing, noted, rows>>

\* Harbor, or the start hook, fails: what Harbor then does about the agent's end is
\* not ours to know.
StartFails ==
    /\ sup \in {"start", "probe"}
    /\ raised' = "error"
    /\ adapter' = [adapter EXCEPT !.pc = "over"]
    /\ sup' \in {"ended", "result", "crash"}
    /\ UNCHANGED <<passed, pi, container, watching, tracing, noted, rows>>

-----------------------------------------------------------------------------
(* PiAgent.run.  It shares the supervisor's event loop: deadlines strike   *)
(* only while it waits for a command in the container.                     *)

In(pc) == sup = "agent" /\ adapter.pc = pc
To(pc) == adapter' = [adapter EXCEPT !.pc = pc]
Awaiting == adapter.pc \in {"config", "pi", "fetch"}
AdapterKeeps == UNCHANGED <<sup, passed, container, stopped, tracing, adoption>>
Raise == To("over") /\ raised' = "error"

ClaimTask ==
    /\ In("task")
    /\ AdapterKeeps
    /\ \/ To("credential") /\ UNCHANGED raised
       \/ Raise    \* the session API cannot be reached
    /\ UNCHANGED <<pi, sub, phases, rows>>

\* No credential, or a profile that cannot be rendered: a failure of the harness.
ResolveCredential ==
    /\ In("credential")
    /\ AdapterKeeps
    /\ \/ To("config")
       \/ adapter' = [pc |-> "record", class |-> "harness"]
    /\ UNCHANGED <<pi, raised, sub, phases, rows>>

WriteConfig ==
    /\ In("config")
    /\ AdapterKeeps
    /\ \/ container = "running" /\ To("pi") /\ UNCHANGED raised
       \/ Raise
    /\ UNCHANGED <<pi, sub, phases, rows>>

\* Pi ends by itself, or because its container was stopped.  A message_end of the
\* assistant may say "error", with or without a message; auto_retry_end may have one.
PiEnds ==
    /\ In("pi")
    /\ AdapterKeeps
    /\ pi' \in [last: {"none", "reply", "error"}, message: BOOLEAN, gaveUp: BOOLEAN, ok: BOOLEAN]
    /\ pi'.message => pi'.last = "error"
    /\ pi'.ok => container = "running"
    /\ To("fetch")
    /\ UNCHANGED <<raised, sub, phases, rows>>

\* cat in the container: nothing can be read from one that was stopped.
FetchTranscript ==
    /\ In("fetch")
    /\ AdapterKeeps
    /\ \/ container = "running" /\ To("classify") /\ UNCHANGED raised
       \/ Raise
    /\ UNCHANGED <<pi, sub, phases, rows>>

\* parse_transcript: an error is a last message that failed, with its own text or the
\* retries', or retries that gave up before any message.
ProviderFailed ==
    \/ pi.last = "error" /\ (pi.message \/ pi.gaveUp)
    \/ pi.last = "none" /\ pi.gaveUp

\* Evidence and classification come before any terminal handling.
Classify ==
    /\ In("classify")
    /\ AdapterKeeps
    /\ \/ ProviderFailed /\ adapter' = [pc |-> "record", class |-> "provider"] /\ UNCHANGED raised
       \/ ~ProviderFailed /\ ~pi.ok /\ Raise
       \/ ~ProviderFailed /\ pi.ok /\ To("submit") /\ UNCHANGED raised
    /\ UNCHANGED <<pi, sub, phases, rows>>

\* _record_failure: the phase, and then the answer row.
RecordFailure ==
    /\ In("record")
    /\ AdapterKeeps
    /\ phases' = phases \cup {"target_failure"}
    /\ To("mark")
    /\ UNCHANGED <<pi, raised, sub, rows>>

\* Mutant: the phase is thought to be enough.
RaiseFailure ==
    /\ In("mark")
    /\ AdapterKeeps
    /\ Raise
    /\ UNCHANGED <<pi, sub, phases, rows>>
MarkFailure ==
    /\ In("mark")
    /\ AdapterKeeps
    /\ MarkAnomaly("target_failure")
    /\ Raise
    /\ UNCHANGED <<pi, sub, phases, run, trial>>

\* The session accepts the intent, or refuses it because the agent sent one itself.
SubmitIntent ==
    /\ In("submit")
    /\ AdapterKeeps
    /\ \/ ~sub /\ sub' = TRUE /\ To("over") /\ UNCHANGED raised
       \/ Raise /\ UNCHANGED sub
    /\ UNCHANGED <<pi, phases, rows>>

Adapter ==
    \/ ClaimTask \/ ResolveCredential \/ WriteConfig \/ PiEnds \/ FetchTranscript
    \/ Classify \/ RecordFailure \/ MarkFailure \/ SubmitIntent

-----------------------------------------------------------------------------
(* Around the agent.                                                       *)

\* Pi's own tools reach the session gateway and may submit while Pi runs.
AgentSubmits ==
    /\ In("pi")
    /\ ~sub
    /\ container = "running"
    /\ sub' = TRUE
    /\ UNCHANGED <<sup, passed, inHarbor, container, stopped, tracing, noted, rows>>

\* watch_submit polls at an await of the others; docker stop follows in a thread.
WatchFires ==
    /\ stopped = "polling"
    /\ sub
    /\ sup = "agent"
    /\ Awaiting
    /\ stopped' = "fired"
    /\ UNCHANGED <<sup, passed, inHarbor, container, sub, tracing, noted, rows>>

WatchStops ==
    /\ stopped = "fired"
    /\ sup # "over"
    /\ stopped' = "stopped"
    /\ container' = IF container = "running" THEN "stopped" ELSE container
    /\ UNCHANGED <<sup, passed, inHarbor, sub, tracing, noted, rows>>

\* adopt_live_supervisors of a restarted manager: add_phase reads the list of phases
\* and writes it back in a later statement.
AdoptReads ==
    /\ adoption.pc = "idle"
    /\ run.status \in {"launching", "running"}
    /\ adoption' = [pc |-> "read", seen |-> phases]
    /\ UNCHANGED <<sup, passed, inHarbor, container, watching, tracing, phases, rows>>

AdoptWrites ==
    /\ adoption.pc = "read"
    /\ phases' = adoption.seen \cup {"adopted"}
    /\ adoption' = [adoption EXCEPT !.pc = "done"]
    /\ UNCHANGED <<sup, passed, inHarbor, container, watching, tracing, rows>>

-----------------------------------------------------------------------------
(* The threads: _capture_pi_trace, then _seal_after_run.                   *)

\* Mutant: one name for everybody's temporary files.
SharedTemp(t) == "end"

\* The temporary files' names hold the thread's identity.
Temp(t) == t

Alive(t, pc) == sup # "over" /\ hook[t] = pc
Goto(t, pc) == hook' = [hook EXCEPT ![t] = pc]
ThreadKeeps == UNCHANGED <<sup, passed, inHarbor, container, watching, noted, run, trial>>

LookForTrace(t) ==
    /\ Alive(t, "look")
    /\ ThreadKeeps
    /\ Goto(t, IF trace # "none" \/ container = "none" THEN "traced" ELSE "copy")
    /\ UNCHANGED <<raw, trace, answer>>

\* docker cp begins to write; it fails when there is no container or transcript, and
\* finally removes what it left.
CopyTrace(t) ==
    /\ Alive(t, "copy")
    /\ ThreadKeeps
    /\ \/ /\ container \in {"running", "stopped"}
          /\ raw' = [raw EXCEPT ![Temp(t)] = "partial"]
          /\ Goto(t, "copying")
       \/ /\ raw' = [raw EXCEPT ![Temp(t)] = "none"]
          /\ Goto(t, "traced")
    /\ UNCHANGED <<trace, answer>>

CopyTraceEnds(t) ==
    /\ Alive(t, "copying")
    /\ ThreadKeeps
    /\ raw' = [raw EXCEPT ![Temp(t)] = "whole"]
    /\ Goto(t, "copied")
    /\ UNCHANGED <<trace, answer>>

\* _compact_pi_trace and the rename, or an exception in either; then the clean-up.
PublishTrace(t) ==
    /\ Alive(t, "copied")
    /\ ThreadKeeps
    /\ trace' \in {trace} \cup ({raw[Temp(t)]} \ {"none"})
    /\ raw' = [raw EXCEPT ![Temp(t)] = "none"]
    /\ Goto(t, "traced")
    /\ UNCHANGED answer

TriggerAt(t) == CASE t = "timeout" -> "timeout" [] t = "end" /\ sub -> "submit" [] OTHER -> "exit"

\* artifacts.seal or mark_anomaly: at most one answer row per trial.
Seal(t) ==
    /\ Alive(t, "seal")
    /\ ThreadKeeps
    /\ \/ MarkAnomaly(TriggerAt(t))
       \/ /\ container \in {"running", "stopped"}
          /\ answer.status = "none"
          /\ answer' = [status |-> "sealed", trigger |-> TriggerAt(t)]
    /\ Goto(t, "done")
    /\ UNCHANGED <<raw, trace>>

ThreadStep(t) ==
    LookForTrace(t) \/ CopyTrace(t) \/ CopyTraceEnds(t) \/ PublishTrace(t) \/ Seal(t)

-----------------------------------------------------------------------------
(* The end of the run.                                                     *)

\* AGENT_END: the agent returned or raised.
AgentEnds ==
    /\ In("over")
    /\ sup' = "ended"
    /\ UNCHANGED <<passed, inHarbor, container, watching, tracing, noted, rows>>

\* Harbor's agent timeout cancels the agent, with AGENT_END all the same.
AgentTimesOut ==
    /\ sup = "agent"
    /\ Awaiting
    /\ raised' = "timeout"
    /\ To("over")
    /\ sup' = "ended"
    /\ UNCHANGED <<passed, pi, container, watching, tracing, noted, rows>>

\* on_agent_end awaits the capture, decides on the trigger, awaits the seal.
HookTraces ==
    /\ sup = "ended"
    /\ Goto("end", "look")
    /\ sup' = "sealing"
    /\ UNCHANGED <<passed, inHarbor, container, watching, raw, trace, noted, rows>>

HookSeals ==
    /\ sup = "sealing"
    /\ hook["end"] = "traced"
    /\ Goto("end", "seal")
    /\ UNCHANGED <<sup, passed, inHarbor, container, watching, raw, trace, noted, rows>>

\* Harbor removes the container and returns, or raises for a reason of its own.
HarborReturns ==
    /\ sup = "sealing"
    /\ hook["end"] = "done"
    /\ container' = "gone"
    /\ sup' \in {"result", "crash"}
    /\ UNCHANGED <<passed, inHarbor, watching, tracing, noted, rows>>

MechanicalExit ==
    IF sub /\ (raised = "error" \/ stopped = "stopped") THEN "submit"
    ELSE IF raised = "error" THEN "agent_error" ELSE "normal"

\* A recorded failure outranks the mechanical exit.
ExitKind ==
    IF "target_failure" \in phases
    THEN IF adapter.class = "provider" THEN "provider_failure" ELSE "harness_failure"
    ELSE MechanicalExit

ResultRead ==
    /\ sup = "result"
    /\ IF raised = "timeout"
       THEN sup' = "deadline" /\ UNCHANGED run
       ELSE sup' = "finish" /\ FinishRun("finished", ExitKind)
    /\ UNCHANGED <<passed, inHarbor, container, watching, tracing, noted, answer, trial>>

FinishFromResult ==
    /\ sup = "finish"
    /\ FinishFromAnswer
    /\ sup' = "over"
    /\ UNCHANGED <<passed, inHarbor, container, watching, tracing, noted, answer, run>>

-----------------------------------------------------------------------------
(* handle_timeout.                                                         *)

\* The outer deadline cancels the run task at one of its awaits.  A hook that awaits
\* its capture never gets to seal; a thread that runs goes on.
Deadline ==
    /\ \/ sup \in {"start", "probe", "sealing"}
       \/ sup = "agent" /\ Awaiting
    /\ To("over")
    /\ container' \in {container, IF container = "none" THEN "none" ELSE "gone"}
    /\ sup' = "deadline"
    /\ UNCHANGED <<passed, pi, raised, watching, tracing, noted, rows>>

TimeoutTraces ==
    /\ sup = "deadline"
    /\ Goto("timeout", "look")
    /\ sup' = "capture"
    /\ UNCHANGED <<passed, inHarbor, container, watching, raw, trace, noted, rows>>

TimeoutSeals ==
    /\ sup = "capture"
    /\ hook["timeout"] = "traced"
    /\ Goto("timeout", "seal")
    /\ sup' = "seal"
    /\ UNCHANGED <<passed, inHarbor, container, watching, raw, trace, noted, rows>>

TimeoutSealed ==
    /\ sup = "seal"
    /\ hook["timeout"] = "done"
    /\ sup' = "retrigger"
    /\ UNCHANGED <<passed, inHarbor, container, watching, tracing, noted, rows>>

\* _retrigger_answer: an 'exit' seal of the hook becomes the timeout's.
Retrigger ==
    /\ sup = "retrigger"
    /\ answer' = IF answer = [status |-> "sealed", trigger |-> "exit"]
                 THEN [answer EXCEPT !.trigger = "timeout"] ELSE answer
    /\ sup' = "late"
    /\ UNCHANGED <<passed, inHarbor, container, watching, tracing, noted, run, trial>>

\* record_timeout_verdict: a timeout answer frozen too late is an anomaly.
Verdict ==
    /\ sup = "late"
    /\ \/ UNCHANGED answer
       \/ /\ answer = [status |-> "sealed", trigger |-> "timeout"]
          /\ answer' = [answer EXCEPT !.status = "anomaly"]
    /\ sup' = "timedOut"
    /\ UNCHANGED <<passed, inHarbor, container, watching, tracing, noted, run, trial>>

TimeoutFinishes ==
    /\ sup = "timedOut"
    /\ FinishRun("error", "timeout")
    /\ sup' = "finish"
    /\ UNCHANGED <<passed, inHarbor, container, watching, tracing, noted, answer, trial>>

-----------------------------------------------------------------------------
(* main's handler.                                                         *)

CrashFinishes ==
    /\ sup = "crash"
    /\ FinishRun("error", "agent_error")
    /\ sup' = "crashAnswer"
    /\ UNCHANGED <<passed, inHarbor, container, watching, tracing, noted, answer, trial>>

CrashMarks ==
    /\ sup = "crashAnswer"
    /\ MarkAnomaly("supervisor_crash")
    /\ sup' = "crashTrial"
    /\ UNCHANGED <<passed, inHarbor, container, watching, tracing, noted, run, trial>>

\* Mutant: whatever the answer says, a crash is an anomaly.
CrashEndsTrial ==
    /\ sup = "crashTrial"
    /\ FinishTrial("anomaly")
    /\ container' = "gone"
    /\ sup' = "over"
    /\ UNCHANGED <<passed, inHarbor, watching, tracing, noted, answer, run>>
CrashSettles ==
    /\ sup = "crashTrial"
    /\ FinishFromAnswer
    /\ container' = "gone"
    /\ sup' = "over"
    /\ UNCHANGED <<passed, inHarbor, watching, tracing, noted, answer, run>>

-----------------------------------------------------------------------------
Coroutine ==
    \/ CheckPasses \/ CheckFails \/ MarkUnstarted \/ FinishUnstarted
    \/ AgentStart \/ ProbePasses \/ StartFails \/ Adapter
    \/ AgentEnds \/ AgentTimesOut \/ HookTraces \/ HookSeals \/ HarborReturns
    \/ ResultRead \/ FinishFromResult
    \/ Deadline \/ TimeoutTraces \/ TimeoutSeals \/ TimeoutSealed \/ Retrigger
    \/ Verdict \/ TimeoutFinishes
    \/ CrashFinishes \/ CrashMarks \/ CrashSettles

Next ==
    \/ Coroutine
    \/ \E t \in Thread : ThreadStep(t)
    \/ AgentSubmits \/ WatchFires \/ WatchStops
    \/ AdoptReads \/ AdoptWrites

Spec == Init /\ [][Next]_vars

\* The run has its outer deadline and every docker call a timeout, so the event loop and
\* the threads always get on; nobody else has to act.
FairSpec == Spec /\ WF_vars(Coroutine) /\ \A t \in Thread : WF_vars(ThreadStep(t))

-----------------------------------------------------------------------------
(* Properties.                                                             *)

\* "A provider failure can never win a capability seal": once the adapter has found
\* that the provider or the harness failed, no thread, deadline or submission that
\* races it makes the answer an official one.
FailureIsNoSample == adapter.class # "none" => answer.status # "sealed" /\ trial # "sealed"

\* Run, answer and trial tell the same story at the end: the trial is what the answer
\* says, a run that exits for a failure of its conditions has the anomaly of that
\* failure, and an exit by submission has one.
ConditionExits == {ExitOf[c] : c \in DOMAIN ExitOf} \cup {"provider_failure"}
ExitMatchesAnswer ==
    sup = "over" =>
        /\ trial = (IF answer.status = "none" THEN "anomaly" ELSE answer.status)
        /\ run.exit \in ConditionExits =>
              /\ answer.status = "anomaly"
              /\ answer.trigger \in {"target_failure"} \cup {TriggerOf[c] : c \in DOMAIN TriggerOf}
        /\ run.exit = "submit" => sub

\* The published trace is one thread's complete copy, when the hook and the timeout
\* path capture at once.
TraceIsWhole == TypeOK /\ trace # "partial"

\* However the run ends, by a failed check, by the agent, by a deadline or by a crash,
\* the supervisor leaves a finished run and a terminal trial.
RunIsSettled ==
    <>[](sup = "over" /\ run.status \in {"finished", "error"} /\ trial \in Terminal)

-----------------------------------------------------------------------------
(* Statements of the sources that the code does not keep.                  *)

\* "A provider failure is never a capability fail": neither when the deadline or a
\* stopped container comes before the classification.
DeadProviderIsNoSample ==
    sup = "over" /\ adapter.pc = "over" /\ ProviderFailed => trial # "sealed"

\* "An execution-condition failure the adapter recorded outranks the mechanical exit."
FailureOutranks ==
    run.status = "finished" /\ answer.trigger = "target_failure" =>
        run.exit \in {"provider_failure", "harness_failure"}

=============================================================================
