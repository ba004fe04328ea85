------------------------------ MODULE Sealing ------------------------------
(***************************************************************************)
(* The sealing of one trial's answer: the container whose workspace is     *)
(* frozen, the staging directory, answers/<digest>, the sealed_answers and *)
(* submissions rows.  Two threads of one supervisor may seal at once (the  *)
(* AGENT_END hook's, left running by a cancelled run task, and the timeout *)
(* path's), while the agent's background processes write, the session      *)
(* process accepts a submission, and a restarted manager recovers from     *)
(* what is on disk, removing what it rejects file by file while the        *)
(* supervisor may still be at work there.                                  *)
(***************************************************************************)
EXTENDS Naturals

CONSTANTS
    MaxRestarts,      \* manager restarts
    KeepsContainer    \* Harbor may leave the container up when its run is cancelled

ASSUME SealingAssumption ==
    MaxRestarts \in Nat /\ KeepsContainer \in BOOLEAN

VARIABLES
    container,  \* the agent container's state
    staging,    \* sealing/<run>/staging
    published,  \* answers/<digest>: snapshots with their manifests
    row,        \* the sealed_answers row
    sub,        \* submissions.status; "none" is no row
    sess,       \* a submit request in the session process
    sealer,     \* the two sealing threads
    sup,        \* the supervisor's coroutine
    watch,      \* watch_submit
    overdue,    \* the deadline plus tolerance has passed
    run,        \* trial_runs.status: not finished, or finished
    mgr,        \* the manager, as far as it touches this trial
    restarts,
    severed,    \* history: a manager died between a lost run's end and its anomaly
    disturbed   \* history: recovery removed staging while the supervisor was alive

vars == <<container, staging, published, row, sub, sess, sealer, sup, watch,
          overdue, run, mgr, restarts, severed, disturbed>>
dbvars == <<row, sub, sess>>
manager == <<run, mgr, restarts, severed, disturbed>>

Thread == {"hook", "timeout"}
Trigger == {"submit", "exit", "timeout", "recovery"}
Receipt == {"submission", "fresh"}

\* A snapshot is copied path by path; it is mixed if the workspace was written between its
\* first and its last path.  Of the paths recovery deleted the manifest is silent, or it
\* still names one of them.
Loss == {"none", "silent", "plain"}
Snapshot == [mixed: BOOLEAN, trig: Trigger, late: BOOLEAN, lost: Loss]
NoSnapshot == [mixed |-> FALSE, trig |-> "recovery", late |-> FALSE, lost |-> "none"]

\* held: recovery's rmtree has the directory open.
Staging == [state: {"none", "partial", "full", "manifest"}, snap: Snapshot, held: BOOLEAN]
NoStaging == [state |-> "none", snap |-> NoSnapshot, held |-> FALSE]
NoRow == [status |-> "none", trig |-> "exit", receipt |-> "fresh", snap |-> NoSnapshot]
NoThread == [pc |-> "idle", trig |-> "exit", receipt |-> "fresh", late |-> FALSE, snap |-> NoSnapshot]

\* The manager's step; the staging it removes was rejected; the manifest it registers.
Manager == [pc: {"up", "staging", "adopt", "register", "remove", "unlink", "mark", "answers",
                 "content", "cleanup", "lost"},
            reject: BOOLEAN, snap: Snapshot]
ManagerAt(pc) == [pc |-> pc, reject |-> FALSE, snap |-> NoSnapshot]

ThreadPc == {"idle", "start", "freeze", "copy", "half", "unpause", "unpauseFailed",
             "manifest", "publish", "check", "insert", "settle", "error", "anomaly", "done"}

TypeOK ==
    /\ container \in {"running", "paused", "stopped", "gone"}
    /\ staging \in Staging
    /\ published \subseteq Snapshot
    /\ row \in [status: {"none", "sealed", "anomaly"}, trig: Trigger, receipt: Receipt, snap: Snapshot]
    /\ sub \in {"none", "accepted", "sealing", "sealed", "error"}
    /\ sess \in {"idle", "authorized", "done"}
    /\ sealer \in [Thread -> [pc: ThreadPc, trig: Trigger, receipt: Receipt, late: BOOLEAN,
                              snap: Snapshot]]
    /\ sup \in {"agent", "hook", "ended", "timeout", "retrigger", "verdict", "finish",
                "exited", "dead"}
    /\ watch \in {"polling", "fired", "done"}
    /\ overdue \in BOOLEAN
    /\ run \in {"active", "finished"}
    /\ mgr \in Manager
    /\ restarts \in 0..MaxRestarts
    /\ severed \in BOOLEAN /\ disturbed \in BOOLEAN

\* From AGENT_START on: the container runs and the supervisor has its id.
Init ==
    /\ container = "running"
    /\ staging = NoStaging
    /\ published = {}
    /\ row = NoRow
    /\ sub = "none"
    /\ sess = "idle"
    /\ sealer = [s \in Thread |-> NoThread]
    /\ sup = "agent"
    /\ watch = "polling"
    /\ overdue = FALSE
    /\ run = "active"
    /\ mgr = ManagerAt("up")
    /\ restarts = 0
    /\ severed = FALSE /\ disturbed = FALSE

SupAlive == sup \notin {"exited", "dead"}
CurrentReceipt == IF sub = "none" THEN "fresh" ELSE "submission"
SetSubmission(status) == sub' = IF sub = "none" THEN sub ELSE status

-----------------------------------------------------------------------------
(* The evaluated session and its environment.                              *)

\* Anything in the container may write until it is paused, stopped or removed.  What is
\* written before a copy's first path or after its last is in all of it or in none.
AgentWrite ==
    /\ container = "running"
    /\ staging.state = "partial"
    /\ staging' = [staging EXCEPT !.snap.mixed = TRUE]
    /\ UNCHANGED <<container, published, dbvars, sealer, sup, watch, overdue, manager>>

\* trial_from_token reads, submit_session inserts in a later statement.
SubmitAuthorized ==
    /\ sess = "idle"
    /\ container = "running"
    /\ row.status = "none"
    /\ sess' = "authorized"
    /\ UNCHANGED <<container, staging, published, row, sub, sealer, sup, watch, overdue, manager>>

SubmitAccepted ==
    /\ sess = "authorized"
    /\ sess' = "done"
    /\ sub' = "accepted"
    /\ UNCHANGED <<container, staging, published, row, sealer, sup, watch, overdue, manager>>

\* The clock is read at a freeze only.
Overdue ==
    /\ ~overdue
    /\ \E s \in Thread : SupAlive /\ sealer[s].pc \in {"idle", "start", "freeze"}
    /\ overdue' = TRUE
    /\ UNCHANGED <<container, staging, published, dbvars, sealer, sup, watch, manager>>

-----------------------------------------------------------------------------
(* artifacts.seal in thread s, up to _seal_after_run's handler.            *)

\* s moves to pc; local variables other than pc are set by the steps that need it.
Go(s, pc) == sealer' = [sealer EXCEPT ![s].pc = pc]
Ends(s, pc) == sealer' = [sealer EXCEPT ![s] = [NoThread EXCEPT !.pc = pc, !.trig = sealer[s].trig]]
Returns(s) == sealer' = [sealer EXCEPT ![s] = [NoThread EXCEPT !.pc = "done"]]
InThread(s, pc) == SupAlive /\ sealer[s].pc = pc

\* An answer row ends the call; otherwise the receipt is fixed here for good.
SealEnter(s) ==
    /\ InThread(s, "start")
    /\ IF row.status # "none"
       THEN Returns(s) /\ UNCHANGED sub
       ELSE /\ sealer' = [sealer EXCEPT ![s].pc = "freeze", ![s].receipt = CurrentReceipt]
            /\ SetSubmission("sealing")
    /\ UNCHANGED <<container, staging, published, row, sess, sup, watch, overdue, manager>>

\* Mutant: the copy starts without a pause.
SealUnpaused(s) ==
    /\ InThread(s, "freeze")
    /\ sealer' = [sealer EXCEPT ![s].pc = "copy", ![s].late = overdue]
    /\ UNCHANGED <<container, staging, published, dbvars, sup, watch, overdue, manager>>

\* docker pause.  A container that is not running counts as frozen; pausing one
\* that is already paused is an error, and the handler then unpauses it.
SealPause(s) ==
    /\ InThread(s, "freeze")
    /\ container' = IF container = "running" THEN "paused" ELSE container
    /\ IF container = "paused"
       THEN Go(s, "unpauseFailed")
       ELSE sealer' = [sealer EXCEPT ![s].pc = "copy", ![s].late = overdue]
    /\ UNCHANGED <<staging, published, dbvars, sup, watch, overdue, manager>>

\* collect_workspace: staging must not exist yet, the container must.
CopyFirst(s) ==
    /\ InThread(s, "copy")
    /\ container # "gone"
    /\ staging.state = "none"
    /\ staging' = [state |-> "partial",
                   snap |-> [NoSnapshot EXCEPT !.late = sealer[s].late],
                   held |-> FALSE]
    /\ Go(s, "half")
    /\ UNCHANGED <<container, published, dbvars, sup, watch, overdue, manager>>

CopyLast(s) ==
    /\ InThread(s, "half")
    /\ container # "gone"
    /\ staging.state = "partial"
    /\ staging' = [staging EXCEPT !.state = "full"]
    /\ Go(s, "unpause")
    /\ UNCHANGED <<container, published, dbvars, sup, watch, overdue, manager>>

\* mkdir on an existing staging, docker cp failing or timing out.
CopyFails(s) ==
    /\ InThread(s, "copy") \/ InThread(s, "half")
    /\ Go(s, "unpauseFailed")
    /\ UNCHANGED <<container, staging, published, dbvars, sup, watch, overdue, manager>>

\* The finally clause unpauses whatever the outcome, and whoever paused.
SealUnpause(s) ==
    /\ InThread(s, "unpause") \/ InThread(s, "unpauseFailed")
    /\ container' = IF container = "paused" THEN "running" ELSE container
    /\ IF sealer[s].pc = "unpause" THEN Go(s, "manifest") ELSE Ends(s, "error")
    /\ UNCHANGED <<staging, published, dbvars, sup, watch, overdue, manager>>

\* validate_snapshot passed; build_manifest's result is written into staging.
SealManifest(s) ==
    /\ InThread(s, "manifest")
    /\ staging.state = "full"
    /\ staging' = [staging EXCEPT !.state = "manifest", !.snap.trig = sealer[s].trig]
    /\ Go(s, "publish")
    /\ UNCHANGED <<container, published, dbvars, sup, watch, overdue, manager>>

\* publish: one rename.  A removal that has the directory open goes on in it.
SealPublish(s) ==
    /\ InThread(s, "publish")
    /\ staging.state = "manifest"
    /\ \E lost \in {staging.snap.lost} \cup (IF staging.held THEN {"plain"} ELSE {}) :
          LET snap == [staging.snap EXCEPT !.lost = lost] IN
          /\ published' = published \cup {snap}
          /\ sealer' = [sealer EXCEPT ![s].pc = "check", ![s].snap = snap]
    /\ staging' = NoStaging
    /\ UNCHANGED <<container, dbvars, sup, watch, overdue, manager>>

\* The snapshot violates the contract, or staging vanished under the thread.
SealRejected(s) ==
    /\ InThread(s, "manifest") \/ InThread(s, "publish")
    /\ Ends(s, "error")
    /\ UNCHANGED <<container, staging, published, dbvars, sup, watch, overdue, manager>>

\* register: a SELECT, then an INSERT that the primary key may refuse.
RegisterCheck(s) ==
    /\ InThread(s, "check")
    /\ IF row.status = "none" THEN Go(s, "insert") ELSE Ends(s, "settle")
    /\ UNCHANGED <<container, staging, published, dbvars, sup, watch, overdue, manager>>

RegisterInsert(s) ==
    /\ InThread(s, "insert")
    /\ IF row.status = "none"
       THEN /\ row' = [status |-> "sealed", trig |-> sealer[s].trig,
                       receipt |-> sealer[s].receipt, snap |-> sealer[s].snap]
            /\ Ends(s, "settle")
       ELSE Ends(s, "error") /\ UNCHANGED row
    /\ UNCHANGED <<container, staging, published, sub, sess, sup, watch, overdue, manager>>

SealSettle(s) ==
    /\ InThread(s, "settle")
    /\ SetSubmission("sealed")
    /\ Returns(s)
    /\ UNCHANGED <<container, staging, published, row, sess, sup, watch, overdue, manager>>

SealFailed(s) ==
    /\ InThread(s, "error")
    /\ SetSubmission("error")
    /\ Go(s, "anomaly")
    /\ UNCHANGED <<container, staging, published, row, sess, sup, watch, overdue, manager>>

\* Mutant: an existing row is replaced.
AnomalyReplaces(trig) ==
    /\ row' = [NoRow EXCEPT !.status = "anomaly", !.trig = trig, !.receipt = CurrentReceipt]
    /\ SetSubmission("error")

\* mark_anomaly: never over an existing row.
Anomaly(trig) ==
    IF row.status = "none"
    THEN /\ row' = [NoRow EXCEPT !.status = "anomaly", !.trig = trig, !.receipt = CurrentReceipt]
         /\ SetSubmission("error")
    ELSE UNCHANGED <<row, sub>>


SealAnomaly(s) ==
    /\ InThread(s, "anomaly")
    /\ Anomaly(sealer[s].trig)
    /\ Returns(s)
    /\ UNCHANGED <<container, staging, published, sess, sup, watch, overdue, manager>>

SealStep(s) ==
    \/ SealEnter(s) \/ SealPause(s) \/ CopyFirst(s) \/ CopyLast(s) \/ CopyFails(s)
    \/ SealUnpause(s) \/ SealManifest(s) \/ SealPublish(s) \/ SealRejected(s)
    \/ RegisterCheck(s) \/ RegisterInsert(s) \/ SealSettle(s)
    \/ SealFailed(s) \/ SealAnomaly(s)

-----------------------------------------------------------------------------
(* The supervisor's coroutines.                                            *)

Begin(s, trig) == sealer' = [sealer EXCEPT ![s] = [NoThread EXCEPT !.pc = "start", !.trig = trig]]

\* watch_submit: the poll reads agent_ended, docker stop runs in a thread later.
WatchFires ==
    /\ watch = "polling"
    /\ sup = "agent"
    /\ sub # "none"
    /\ watch' = "fired"
    /\ UNCHANGED <<container, staging, published, dbvars, sealer, sup, overdue, manager>>

WatchStops ==
    /\ watch = "fired"
    /\ SupAlive
    /\ container' = IF container \in {"running", "paused"} THEN "stopped" ELSE container
    /\ watch' = "done"
    /\ UNCHANGED <<staging, published, dbvars, sealer, sup, overdue, manager>>

\* Polling ends with the agent, or with the run.
WatchReturns == watch' = IF watch = "polling" THEN "done" ELSE watch

\* on_agent_end: the trigger is what the submissions table says at that moment.
AgentEnd ==
    /\ sup = "agent"
    /\ Begin("hook", IF sub = "none" THEN "exit" ELSE "submit")
    /\ sup' = "hook"
    /\ WatchReturns
    /\ UNCHANGED <<container, staging, published, dbvars, overdue, manager>>

HookReturns ==
    /\ sup = "hook"
    /\ sealer["hook"].pc = "done"
    /\ sup' = "ended"
    /\ UNCHANGED <<container, staging, published, dbvars, sealer, watch, overdue, manager>>

\* Harbor removed the container and returned its result.
Result ==
    /\ sup = "ended"
    /\ container' = "gone"
    /\ sup' = "finish"
    /\ UNCHANGED <<staging, published, dbvars, sealer, watch, overdue, manager>>

\* handle_timeout.  Cancelling the run task does not stop the hook's thread.
Timeout ==
    /\ sup \in {"agent", "hook", "ended"}
    /\ \/ KeepsContainer /\ UNCHANGED container
       \/ container' = "gone"
    /\ Begin("timeout", "timeout")
    /\ sup' = "timeout"
    /\ WatchReturns
    /\ UNCHANGED <<staging, published, dbvars, overdue, manager>>

TimeoutSealed ==
    /\ sup = "timeout"
    /\ sealer["timeout"].pc = "done"
    /\ sup' = "retrigger"
    /\ UNCHANGED <<container, staging, published, dbvars, sealer, watch, overdue, manager>>

\* Mutant: a retriggered answer needs no verdict.
RetriggerOnly ==
    /\ sup = "retrigger"
    /\ row' = IF row.status = "sealed" /\ row.trig = "exit" THEN [row EXCEPT !.trig = "timeout"] ELSE row
    /\ sup' = "finish"
    /\ UNCHANGED <<container, staging, published, sub, sess, sealer, watch, overdue, manager>>

\* _retrigger_answer: only an 'exit' seal becomes 'timeout'.
Retrigger ==
    /\ sup = "retrigger"
    /\ row' = IF row.status = "sealed" /\ row.trig = "exit" THEN [row EXCEPT !.trig = "timeout"] ELSE row
    /\ sup' = "verdict"
    /\ UNCHANGED <<container, staging, published, sub, sess, sealer, watch, overdue, manager>>

\* record_timeout_verdict, from the row's frozen_at.
Verdict ==
    /\ sup = "verdict"
    /\ row' = IF row.status = "sealed" /\ row.snap.late THEN [row EXCEPT !.status = "anomaly"] ELSE row
    /\ sup' = "finish"
    /\ UNCHANGED <<container, staging, published, sub, sess, sealer, watch, overdue, manager>>

\* The run's end is recorded, and the process exits once its executor's threads have
\* returned.
Exit ==
    /\ sup = "finish"
    /\ \A s \in Thread : sealer[s].pc \in {"idle", "done"}
    /\ sup' = "exited"
    /\ run' = "finished"
    /\ container' = "gone"
    /\ watch' = "done"
    /\ UNCHANGED <<staging, published, dbvars, sealer, overdue, mgr, restarts, severed,
                   disturbed>>

\* SIGKILL, or cancel's SIGTERM: threads and coroutines end where they are, at the end
\* before or after the run's end was recorded.
Killed ==
    /\ SupAlive
    /\ sup' = "dead"
    /\ \/ sup = "finish" /\ run' = "finished"
       \/ UNCHANGED run
    /\ sealer' = [s \in Thread |-> NoThread]
    /\ watch' = "done"
    /\ UNCHANGED <<container, staging, published, dbvars, overdue, mgr, restarts, severed,
                   disturbed>>

SupStep ==
    WatchFires \/ WatchStops \/ AgentEnd \/ HookReturns \/ Result \/ Timeout
    \/ TimeoutSealed \/ Retrigger \/ Verdict \/ Exit

-----------------------------------------------------------------------------
(* The manager: it reaps a dead supervisor; a restart first recovers from  *)
(* disk, whether the supervisor is dead or still sealing.                  *)

ManagerGoes(pc) == mgr' = ManagerAt(pc)
history == <<severed, disturbed>>

\* A killed manager's removal stays where it was.
Restart ==
    /\ restarts < MaxRestarts
    /\ restarts' = restarts + 1
    /\ ManagerGoes("staging")
    /\ staging' = [staging EXCEPT !.held = FALSE]
    /\ severed' = (severed \/ (mgr.pc \in {"cleanup", "lost"} /\ row.status = "none"))
    /\ UNCHANGED <<container, published, dbvars, sealer, sup, watch, overdue, run, disturbed>>


\* recover, first pass: the row, the directory and its manifest are looked at.  An
\* answered trial's staging goes, a complete manifest is adopted, anything less proves
\* no freeze.
LookAtStaging ==
    /\ mgr.pc = "staging"
    /\ \/ /\ row.status # "none" \/ staging.state = "none"
          /\ ManagerGoes("remove")
       \/ /\ row.status = "none" /\ staging.state = "manifest"
          /\ ManagerGoes("adopt")
       \/ /\ row.status = "none" /\ staging.state \in {"partial", "full"}
          /\ mgr' = [ManagerAt("remove") EXCEPT !.reject = TRUE]
    /\ UNCHANGED <<container, staging, published, dbvars, sealer, sup, watch, overdue, run,
                   restarts, history>>

\* The staging is published, unless its content, which a live supervisor may have published
\* meanwhile, contradicts the manifest or the contract; a publish that finds it gone
\* raises, and the manager is started again.
AdoptStaging ==
    /\ mgr.pc = "adopt"
    /\ \/ /\ staging.state # "manifest" \/ staging.snap.lost # "none"
          /\ mgr' = [ManagerAt("remove") EXCEPT !.reject = TRUE]
          /\ UNCHANGED <<staging, published>>
       \/ /\ staging.state # "manifest"
          /\ ManagerGoes("staging")
          /\ UNCHANGED <<staging, published>>
       \/ /\ staging.state = "manifest" /\ staging.snap.lost # "plain"
          /\ published' = published \cup {staging.snap}
          /\ staging' = NoStaging
          /\ mgr' = [ManagerAt("register") EXCEPT !.snap = staging.snap]
    /\ UNCHANGED <<container, dbvars, sealer, sup, watch, overdue, run, restarts, history>>

\* register, with the manifest's trigger and the submission's receipt if there is one.
Recovered(snap) ==
    /\ row' = [status |-> "sealed", trig |-> snap.trig, receipt |-> CurrentReceipt, snap |-> snap]
    /\ SetSubmission("sealed")

RegisterStaging ==
    /\ mgr.pc = "register"
    /\ IF row.status = "none" THEN Recovered(mgr.snap) ELSE UNCHANGED row /\ SetSubmission("sealed")
    /\ ManagerGoes("remove")
    /\ UNCHANGED <<container, staging, published, sess, sealer, sup, watch, overdue, run,
                   restarts, history>>

AfterRemoval == IF mgr.reject THEN "mark" ELSE "answers"

\* rmtree(run_dir, ignore_errors): whatever staging is there now is opened, ...
RemoveStaging ==
    /\ mgr.pc = "remove"
    /\ IF staging.state = "none" THEN ManagerGoes(AfterRemoval) ELSE mgr' = [mgr EXCEPT !.pc = "unlink"]
    /\ staging' = [staging EXCEPT !.held = staging.state # "none"]
    /\ disturbed' = (disturbed \/ (staging.state # "none" /\ SupAlive /\ row.status = "none"))
    /\ UNCHANGED <<container, published, dbvars, sealer, sup, watch, overdue, run, restarts,
                   severed>>

\* ... loses its paths one by one, before or after a manifest lists them, ...
RemoveTears ==
    /\ mgr.pc = "unlink" /\ staging.held
    /\ LET lost == IF staging.state = "manifest" THEN "plain" ELSE "silent" IN
       /\ staging.snap.lost # lost
       /\ staging' = [staging EXCEPT !.snap.lost = lost]
    /\ UNCHANGED <<container, published, dbvars, sealer, sup, watch, overdue, manager>>

\* ... and is gone, unless something was added that the removal has not seen.
RemoveEnds ==
    /\ mgr.pc = "unlink"
    /\ \/ staging.held /\ staging' = NoStaging
       \/ staging' = [staging EXCEPT !.held = FALSE]
    /\ ManagerGoes(AfterRemoval)
    /\ UNCHANGED <<container, published, dbvars, sealer, sup, watch, overdue, run, restarts,
                   history>>

MarkRejected ==
    /\ mgr.pc = "mark"
    /\ Anomaly("recovery")
    /\ ManagerGoes("answers")
    /\ UNCHANGED <<container, staging, published, sess, sealer, sup, watch, overdue, run,
                   restarts, history>>

\* Second pass: published but unregistered content is registered, or contradicts its
\* manifest, or has lost the manifest itself.
RecoverPublished ==
    /\ mgr.pc = "answers"
    /\ \/ /\ row.status = "none"
          /\ \E snap \in published : snap.lost # "plain" /\ Recovered(snap)
       \/ /\ row.status = "none"
          /\ \E snap \in published : snap.lost = "plain"
          /\ Anomaly("recovery")
       \/ /\ row.status # "none" \/ \A snap \in published : snap.lost = "plain"
          /\ UNCHANGED <<row, sub>>
    /\ ManagerGoes("content")
    /\ UNCHANGED <<container, staging, published, sess, sealer, sup, watch, overdue, run,
                   restarts, history>>

\* Third pass: a registered answer whose content is missing or torn becomes an anomaly.
CheckContent ==
    /\ mgr.pc = "content"
    /\ IF row.status = "sealed" /\ (row.snap \notin published \/ row.snap.lost = "plain")
       THEN row' = [row EXCEPT !.status = "anomaly"] /\ SetSubmission("error")
       ELSE UNCHANGED <<row, sub>>
    /\ ManagerGoes("up")
    /\ UNCHANGED <<container, staging, published, sess, sealer, sup, watch, overdue, run,
                   restarts, history>>

\* A live (adopted) supervisor and a run that has ended are left alone.
Lost == sup = "dead" /\ run = "active"

\* _terminalize_lost_run, at startup or when the waiting manager sees the exit: the run
\* is finished, ...
ReapRun ==
    /\ mgr.pc = "up"
    /\ Lost
    /\ run' = "finished"
    /\ ManagerGoes("cleanup")
    /\ UNCHANGED <<container, staging, published, dbvars, sealer, sup, watch, overdue,
                   restarts, history>>

\* ... its container is removed ...
ReapContainer ==
    /\ mgr.pc = "cleanup"
    /\ container' = "gone"
    /\ ManagerGoes("lost")
    /\ UNCHANGED <<staging, published, dbvars, sealer, sup, watch, overdue, run, restarts,
                   history>>

\* ... and the anomaly recorded, in commits of their own.
ReapAnomaly ==
    /\ mgr.pc = "lost"
    /\ Anomaly("recovery")
    /\ ManagerGoes("up")
    /\ UNCHANGED <<container, staging, published, sess, sealer, sup, watch, overdue, run,
                   restarts, history>>

Recover ==
    \/ LookAtStaging \/ AdoptStaging \/ RegisterStaging
    \/ RemoveStaging \/ RemoveTears \/ RemoveEnds \/ MarkRejected
    \/ RecoverPublished \/ CheckContent
    \/ ReapRun \/ ReapContainer \/ ReapAnomaly

Next ==
    \/ AgentWrite \/ SubmitAuthorized \/ SubmitAccepted \/ Overdue
    \/ \E s \in Thread : SealStep(s)
    \/ SupStep \/ Killed \/ Restart \/ Recover

Spec == Init /\ [][Next]_vars

\* Docker commands time out, the agent's run has a deadline, and a manager that
\* was started goes through its recovery and keeps reaping.
FairSpec ==
    /\ Spec
    /\ \A s \in Thread : WF_vars(SealStep(s))
    /\ WF_vars(SupStep)
    /\ WF_vars(Recover)

-----------------------------------------------------------------------------
(* Properties.                                                             *)

\* The official answer can always be produced: the row names published content,
\* whichever of two threads or a recovery registered it.
SealedIsPublished == row.status = "sealed" => row.snap \in published

\* The official answer is the workspace at one moment: every path of it was read
\* while nothing could write.
OneMoment == row.status = "sealed" => ~row.snap.mixed

\* No path of it was deleted, unless recovery removed staging under a live supervisor.
NothingLost == row.status = "sealed" => row.snap.lost = "none" \/ disturbed

SnapshotIsAtomic == OneMoment /\ NothingLost

\* An answer sealed because of a submission carries that submission's receipt.
SubmitKeepsReceipt == row.trig = "submit" /\ row.status = "sealed" => row.receipt = "submission"

\* What the answer row says is so: its content exists, is of one moment, and goes with
\* the submission's receipt when a submission ended the run.
AnswerIsTrue == TypeOK /\ SealedIsPublished /\ SnapshotIsAtomic /\ SubmitKeepsReceipt

\* A timeout answer of a supervisor that ran to its end passed the tolerance check,
\* whichever thread froze it.
TimeoutWithinTolerance ==
    sup = "exited" /\ row.trig = "timeout" /\ row.status = "sealed" => ~row.snap.late

\* "Exactly once": content and receipt of an answer row never change, however many
\* seals, recoveries and reapers follow.
AnswerIsOnce ==
    [][row.status # "none" => row'.snap = row.snap /\ row'.receipt = row.receipt]_vars


\* A finished copy on disk that nothing was deleted from.
Recoverable ==
    \/ staging.state = "manifest" /\ staging.snap.lost = "none"
    \/ published # {} /\ \A snap \in published : snap.lost = "none"


\* "The receipt_id is the trial's single submissions receipt."
ReceiptIsTheSubmissions ==
    [][row.status = "none" /\ row'.status # "none" /\ sub # "none" => row'.receipt = "submission"]_vars

\* "a seal a dying supervisor left recoverable is published, not downgraded"
DiskTruthWins ==
    [][restarts > 0 /\ mgr.pc = "lost" /\ row.status = "none" /\ row'.status = "anomaly" /\ ~SupAlive =>
          staging.state # "manifest" /\ published = {}]_vars

\* A finished trial's capability is void: no late submission.
NoLateSubmission == [][sub = "none" /\ sub' # "none" => row.status = "none"]_vars

\* "The official answer of a trial is the workspace snapshot ACO freezes itself": no path of
\* it was deleted, also when a recovery meets the seal half-way.
AnswerIsWhole == row.status = "sealed" => row.snap.lost = "none"

\* "only within-tolerance answers stay eligible for the capability curve"
OnlyTimelyAnswers ==
    row.trig = "timeout" /\ row.status = "sealed" /\ ~SupAlive => ~row.snap.late

=============================================================================
