---------------------------- MODULE SealingProofs ----------------------------
(***************************************************************************)
(* Proofs about Sealing, for any number of manager restarts, a supervisor  *)
(* killed at any step and a recovery that removes staging under it: the    *)
(* answer row names published content and carries its receipt, nothing of  *)
(* it was deleted unless a live supervisor was disturbed, a timeout answer *)
(* was frozen in time, the row is written once, and, where a cancelled run *)
(* takes its container along, the answer is the workspace at one moment.   *)
(***************************************************************************)
EXTENDS Sealing, TLAPS

-----------------------------------------------------------------------------
(* The inductive invariant.                                                *)

Locals == [pc: ThreadPc, trig: Trigger, receipt: Receipt, late: BOOLEAN, snap: Snapshot]

\* The run has not timed out.
OnTime == sup \in {"agent", "hook", "ended"}

\* Where a seal that was entered may be, up to its answer row.
Entered == {"freeze", "copy", "half", "unpause", "unpauseFailed", "manifest", "publish",
            "check", "insert"}

\* A trigger tells what happened before: a submission, or the timeout.
TriggerIsTrue(trig) ==
    /\ trig = "submit" => sub # "none"
    /\ trig = "timeout" => ~OnTime

\* A thread registers published content under the receipt of its submission, and is done
\* when there is an answer.
ThreadIsTrue(s) ==
    /\ TriggerIsTrue(sealer[s].trig)
    /\ sealer[s].trig = "submit" /\ sealer[s].pc \in Entered => sealer[s].receipt = "submission"
    /\ sealer[s].pc \in {"check", "insert"} => sealer[s].snap \in published
    /\ sealer[s].pc \in {"settle", "done"} => row.status # "none"

\* So does the manager.
DiskIsTrue ==
    /\ TriggerIsTrue(staging.snap.trig)
    /\ \A snap \in published : TriggerIsTrue(snap.trig)
    /\ mgr.pc = "register" => mgr.snap \in published

RowIsTrue ==
    row.status = "sealed" =>
        /\ TriggerIsTrue(row.trig)
        /\ row.snap \in published
        /\ row.trig = "submit" => row.receipt = "submission"

\* The supervisor passes from the agent's end to its own only over an answer row, and from
\* a timeout over the tolerance check.
SupervisorWaits ==
    /\ sup \in {"ended", "retrigger", "verdict", "finish", "exited"} => row.status # "none"
    /\ sup \in {"finish", "exited"} /\ row.status = "sealed" /\ row.trig = "timeout" =>
          ~row.snap.late

\* While there is no answer, what a removal deletes is a dead supervisor's, and without a
\* manifest that could be adopted, or it disturbs a live one.
LossIsTold ==
    row.status = "none" =>
        /\ staging.held \/ staging.snap.lost # "none" => disturbed \/ ~SupAlive
        /\ staging.state = "manifest" /\ staging.snap.lost = "silent" => disturbed
        /\ \A snap \in published : snap.lost # "none" => disturbed

IInv == TypeOK /\ (\A s \in Thread : ThreadIsTrue(s)) /\ DiskIsTrue /\ RowIsTrue
          /\ SupervisorWaits /\ LossIsTold /\ NothingLost

\* Only one thread copies, from a container that cannot write: when the other one starts,
\* the container is gone.
CopiesAlone ==
    /\ sealer["timeout"].pc # "idle" => container = "gone"
    /\ sealer["hook"].pc \in {"copy", "half", "unpause"} => container # "running"
    /\ sealer["hook"].pc = "half" /\ staging.state = "partial" => ~staging.snap.mixed
    /\ staging.state \in {"full", "manifest"} => ~staging.snap.mixed
    /\ \A snap \in published : ~snap.mixed

-----------------------------------------------------------------------------
(* The threads and the disk, as the steps change them.                     *)

\* A step to another program point changes nothing else.
LEMMA Goes ==
    ASSUME sealer \in [Thread -> Locals], NEW s \in Thread, NEW pc \in ThreadPc, Go(s, pc)
    PROVE  /\ sealer' \in [Thread -> Locals]
           /\ \A o \in Thread \ {s} : sealer'[o] = sealer[o]
           /\ sealer'[s].pc = pc /\ sealer'[s].trig = sealer[s].trig
           /\ sealer'[s].receipt = sealer[s].receipt /\ sealer'[s].snap = sealer[s].snap
BY DEF Go, Locals

\* One that fixes the receipt, ...
LEMMA Receives ==
    ASSUME sealer \in [Thread -> Locals], NEW s \in Thread, NEW r \in Receipt,
           sealer' = [sealer EXCEPT ![s].pc = "freeze", ![s].receipt = r]
    PROVE  /\ sealer' \in [Thread -> Locals]
           /\ \A o \in Thread \ {s} : sealer'[o] = sealer[o]
           /\ sealer'[s].pc = "freeze" /\ sealer'[s].trig = sealer[s].trig
           /\ sealer'[s].receipt = r
<1>0. PICK w \in Locals : w = sealer[s]
  OBVIOUS
<1>1. [[w EXCEPT !.pc = "freeze"] EXCEPT !.receipt = r] \in Locals
  BY DEF Locals, ThreadPc
<1>2. sealer' = [sealer EXCEPT ![s] = [[w EXCEPT !.pc = "freeze"] EXCEPT !.receipt = r]]
  BY <1>0
<1>. QED
  BY <1>0, <1>1, <1>2 DEF Locals

\* ... the time of the freeze, ...
LEMMA Freezes ==
    ASSUME sealer \in [Thread -> Locals], NEW s \in Thread, NEW late \in BOOLEAN,
           sealer' = [sealer EXCEPT ![s].pc = "copy", ![s].late = late]
    PROVE  /\ sealer' \in [Thread -> Locals]
           /\ \A o \in Thread \ {s} : sealer'[o] = sealer[o]
           /\ sealer'[s].pc = "copy" /\ sealer'[s].trig = sealer[s].trig
           /\ sealer'[s].receipt = sealer[s].receipt
<1>0. PICK w \in Locals : w = sealer[s]
  OBVIOUS
<1>1. PICK x \in Locals : x = [w EXCEPT !.pc = "copy"]
  BY DEF Locals, ThreadPc
<1>2. PICK y \in Locals : y = [x EXCEPT !.late = late]
  BY DEF Locals
<1>3. sealer' = [sealer EXCEPT ![s] = y]
  BY <1>0, <1>1, <1>2
<1>4. x.pc = "copy" /\ x.trig = sealer[s].trig /\ x.receipt = sealer[s].receipt
  BY <1>0, <1>1 DEF Locals
<1>5. y.pc = x.pc /\ y.trig = x.trig /\ y.receipt = x.receipt
  BY <1>2 DEF Locals
<1>. QED
  BY <1>3, <1>4, <1>5

\* ... or the snapshot, sets that alone.
LEMMA Publishes ==
    ASSUME sealer \in [Thread -> Locals], NEW s \in Thread, NEW snap \in Snapshot,
           sealer' = [sealer EXCEPT ![s].pc = "check", ![s].snap = snap]
    PROVE  /\ sealer' \in [Thread -> Locals]
           /\ \A o \in Thread \ {s} : sealer'[o] = sealer[o]
           /\ sealer'[s].pc = "check" /\ sealer'[s].trig = sealer[s].trig
           /\ sealer'[s].receipt = sealer[s].receipt /\ sealer'[s].snap = snap
<1>0. PICK w \in Locals : w = sealer[s]
  OBVIOUS
<1>1. [[w EXCEPT !.pc = "check"] EXCEPT !.snap = snap] \in Locals
  BY DEF Locals, ThreadPc
<1>2. sealer' = [sealer EXCEPT ![s] = [[w EXCEPT !.pc = "check"] EXCEPT !.snap = snap]]
  BY <1>0
<1>. QED
  BY <1>0, <1>1, <1>2 DEF Locals

\* What is in a fresh thread, row and staging.
LEMMA Fresh ==
    /\ NoSnapshot \in Snapshot /\ ~NoSnapshot.mixed
    /\ NoSnapshot.lost = "none" /\ NoSnapshot.trig = "recovery"
    /\ NoThread \in Locals /\ NoThread.pc = "idle" /\ NoThread.trig = "exit"
    /\ NoStaging \in Staging /\ NoStaging.state = "none"
    /\ NoStaging.snap = NoSnapshot /\ ~NoStaging.held
    /\ NoRow.status = "none" /\ NoRow.snap = NoSnapshot /\ NoRow.receipt = "fresh"
    /\ CurrentReceipt \in Receipt /\ (sub # "none" => CurrentReceipt = "submission")
<1>1. /\ NoSnapshot \in Snapshot /\ ~NoSnapshot.mixed
      /\ NoSnapshot.lost = "none" /\ NoSnapshot.trig = "recovery"
  BY DEF NoSnapshot, Snapshot, Trigger, Loss
<1>. HIDE DEF NoSnapshot
<1>2. NoThread \in Locals /\ NoThread.pc = "idle" /\ NoThread.trig = "exit"
  BY <1>1 DEF NoThread, Locals, ThreadPc, Trigger, Receipt
<1>3. /\ NoStaging \in Staging /\ NoStaging.state = "none"
      /\ NoStaging.snap = NoSnapshot /\ ~NoStaging.held
  BY <1>1 DEF NoStaging, Staging
<1>. QED
  BY <1>1, <1>2, <1>3 DEF NoRow, CurrentReceipt, Receipt

\* A seal that failed or has its answer leaves only its trigger behind, ...
LEMMA EndsIn ==
    ASSUME sealer \in [Thread -> Locals], NEW s \in Thread, NEW pc \in ThreadPc, Ends(s, pc)
    PROVE  /\ sealer' \in [Thread -> Locals]
           /\ \A o \in Thread \ {s} : sealer'[o] = sealer[o]
           /\ sealer'[s].pc = pc /\ sealer'[s].trig = sealer[s].trig
<1>0. PICK trig \in Trigger : trig = sealer[s].trig
  BY DEF Locals
<1>1. PICK x \in Locals : x = [NoThread EXCEPT !.pc = pc]
  BY Fresh DEF Locals
<1>2. PICK y \in Locals : y = [x EXCEPT !.trig = trig]
  BY DEF Locals
<1>3. sealer' = [sealer EXCEPT ![s] = y]
  BY <1>0, <1>1, <1>2 DEF Ends
<1>4. x.pc = pc
  BY <1>1, Fresh DEF Locals
<1>5. y.pc = x.pc /\ y.trig = trig
  BY <1>2 DEF Locals
<1>. QED
  BY <1>0, <1>3, <1>4, <1>5

\* ... and one that returned nothing.
LEMMA ReturnsDone ==
    ASSUME sealer \in [Thread -> Locals], NEW s \in Thread, Returns(s)
    PROVE  /\ sealer' \in [Thread -> Locals]
           /\ \A o \in Thread \ {s} : sealer'[o] = sealer[o]
           /\ sealer'[s].pc = "done" /\ sealer'[s].trig = "exit"
<1>1. PICK x \in Locals : x = [NoThread EXCEPT !.pc = "done"]
  BY Fresh DEF Locals, ThreadPc
<1>2. x.pc = "done" /\ x.trig = "exit"
  BY <1>1, Fresh DEF Locals
<1>3. sealer' = [sealer EXCEPT ![s] = x]
  BY <1>1 DEF Returns
<1>. QED
  BY <1>2, <1>3

\* The snapshot a thread publishes is the one it holds.
LEMMA PublishHolds ==
    ASSUME TypeOK, NEW s \in Thread, SealPublish(s)
    PROVE  \E snap \in Snapshot :
              /\ published' = published \cup {snap}
              /\ sealer' = [sealer EXCEPT ![s].pc = "check", ![s].snap = snap]
<1>1. PICK x \in Snapshot : x = staging.snap
  BY DEF TypeOK, Staging
<1>2. PICK lost \in {x.lost} \cup (IF staging.held THEN {"plain"} ELSE {}) :
         /\ published' = published \cup {[x EXCEPT !.lost = lost]}
         /\ sealer' = [sealer EXCEPT ![s].pc = "check", ![s].snap = [x EXCEPT !.lost = lost]]
  BY <1>1 DEF SealPublish
<1>3. lost \in Loss
  BY <1>2 DEF Loss, Snapshot
<1>4. [x EXCEPT !.lost = lost] \in Snapshot
  BY <1>3 DEF Snapshot
<1>. QED
  BY <1>2, <1>4

\* A thread's step changes no other thread, and no trigger but to forget it.
LEMMA ThreadStep ==
    ASSUME TypeOK, NEW s \in Thread, SealStep(s)
    PROVE  /\ sealer' \in [Thread -> Locals]
           /\ \A o \in Thread \ {s} : sealer'[o] = sealer[o]
           /\ sealer'[s].trig \in {sealer[s].trig, "exit"}
<1> USE DEF TypeOK, Locals
<1>0. "done" \in ThreadPc /\ "error" \in ThreadPc /\ "settle" \in ThreadPc
  BY DEF ThreadPc
<1>1. CASE SealEnter(s)
  BY <1>1, ReturnsDone, Receives, Fresh DEF SealEnter
<1>2. CASE SealPause(s)
  BY <1>2, Goes, Freezes DEF SealPause, ThreadPc
<1>3. CASE SealPublish(s)
  <2>1. sealer \in [Thread -> Locals]
    OBVIOUS
  <2>2. PICK snap \in Snapshot : sealer' = [sealer EXCEPT ![s].pc = "check", ![s].snap = snap]
    BY <1>3, PublishHolds
  <2>. QED
    BY <2>1, <2>2, Publishes
<1>4. CASE CopyFirst(s)
  BY <1>4, Goes DEF CopyFirst, ThreadPc
<1>5. CASE CopyLast(s)
  BY <1>5, Goes DEF CopyLast, ThreadPc
<1>6. CASE CopyFails(s)
  BY <1>6, Goes DEF CopyFails, ThreadPc
<1>7. CASE SealUnpause(s)
  BY <1>0, <1>7, Goes, EndsIn DEF SealUnpause, ThreadPc
<1>8. CASE SealManifest(s)
  BY <1>8, Goes DEF SealManifest, ThreadPc
<1>9. CASE SealRejected(s)
  BY <1>0, <1>9, EndsIn DEF SealRejected
<1>10. CASE RegisterCheck(s)
  BY <1>0, <1>10, Goes, EndsIn DEF RegisterCheck, ThreadPc
<1>11. CASE RegisterInsert(s)
  BY <1>0, <1>11, EndsIn DEF RegisterInsert
<1>12. CASE SealSettle(s)
  BY <1>12, ReturnsDone DEF SealSettle
<1>13. CASE SealFailed(s)
  BY <1>13, Goes DEF SealFailed, ThreadPc
<1>14. CASE SealAnomaly(s)
  BY <1>14, ReturnsDone DEF SealAnomaly
<1>. QED
  BY <1>1, <1>2, <1>3, <1>4, <1>5, <1>6, <1>7, <1>8, <1>9, <1>10, <1>11, <1>12, <1>13, <1>14 DEF
     SealStep

\* A trigger is that of the way the run ended, and the hook's thread is begun at its end.
LEMMA Begins ==
    ASSUME TypeOK, NEW s \in Thread, NEW trig \in Trigger, Begin(s, trig)
    PROVE  /\ sealer' \in [Thread -> Locals]
           /\ \A o \in Thread \ {s} : sealer'[o] = sealer[o]
           /\ sealer'[s].pc = "start" /\ sealer'[s].trig = trig
<1>1. [NoThread EXCEPT !.pc = "start", !.trig = trig] \in Locals
  BY Fresh DEF Locals, ThreadPc
<1>2. /\ [NoThread EXCEPT !.pc = "start", !.trig = trig].pc = "start"
      /\ [NoThread EXCEPT !.pc = "start", !.trig = trig].trig = trig
  BY Fresh DEF Locals
<1>. QED
  BY <1>1, <1>2 DEF Begin, TypeOK, Locals

LEMMA SealerStep ==
    ASSUME TypeOK, [Next]_vars
    PROVE  /\ sealer' \in [Thread -> Locals]
           /\ \/ sealer' = sealer
              \/ \E s \in Thread : SealStep(s)
              \/ AgentEnd \/ Timeout
              \/ Killed /\ \A s \in Thread : sealer'[s] = NoThread
<1>1. \/ sealer' = sealer \/ (\E s \in Thread : SealStep(s)) \/ AgentEnd \/ Timeout \/ Killed
  BY DEF Next, SupStep, Recover, WatchFires, WatchStops, HookReturns, Result, TimeoutSealed,
     Retrigger, Verdict, Exit, LookAtStaging, AdoptStaging, RegisterStaging, RemoveStaging,
     RemoveTears, RemoveEnds, MarkRejected, RecoverPublished, CheckContent, ReapRun,
     ReapContainer, ReapAnomaly, AgentWrite, SubmitAuthorized, SubmitAccepted, Overdue, Restart,
     vars
<1>2. CASE AgentEnd
  BY <1>2, Begins DEF AgentEnd, Thread, Trigger
<1>3. CASE Timeout
  BY <1>3, Begins DEF Timeout, Thread, Trigger
<1>4. CASE Killed
  BY <1>4, Fresh DEF Killed
<1>. QED
  BY <1>1, <1>2, <1>3, <1>4, ThreadStep DEF TypeOK, Locals

\* The first path begins a copy, ...
LEMMA CopyBegins ==
    ASSUME TypeOK, NEW s \in Thread, CopyFirst(s)
    PROVE  /\ staging' \in Staging /\ staging'.state = "partial" /\ ~staging'.held
           /\ ~staging'.snap.mixed /\ staging'.snap.lost = "none"
           /\ staging'.snap.trig = "recovery"
<1>1. PICK late \in BOOLEAN : late = sealer[s].late
  BY DEF TypeOK
<1>2. PICK x \in Snapshot : x = [NoSnapshot EXCEPT !.late = late]
  BY Fresh DEF Snapshot
<1>3. ~x.mixed /\ x.lost = "none" /\ x.trig = "recovery"
  BY <1>2, Fresh DEF Snapshot
<1>4. staging' = [state |-> "partial", snap |-> x, held |-> FALSE]
  BY <1>1, <1>2 DEF CopyFirst
<1>. QED
  BY <1>3, <1>4 DEF Staging

\* ... the last one completes it, ...
LEMMA CopyEnds ==
    ASSUME TypeOK, NEW s \in Thread, CopyLast(s)
    PROVE  /\ staging' \in Staging /\ staging.state = "partial" /\ staging'.state = "full"
           /\ staging'.snap = staging.snap /\ staging'.held = staging.held
BY DEF CopyLast, TypeOK, Staging

\* ... which the manifest then describes, with the trigger of its thread.
LEMMA ManifestWritten ==
    ASSUME TypeOK, NEW s \in Thread, SealManifest(s)
    PROVE  /\ staging' \in Staging /\ staging.state = "full" /\ staging'.state = "manifest"
           /\ staging'.held = staging.held /\ SupAlive
           /\ staging'.snap.mixed = staging.snap.mixed
           /\ staging'.snap.lost = staging.snap.lost
           /\ staging'.snap.trig = sealer[s].trig
<1>1. PICK x \in Snapshot : x = staging.snap
  BY DEF TypeOK, Staging
<1>2. PICK trig \in Trigger : trig = sealer[s].trig
  BY DEF TypeOK
<1>3. PICK y \in Snapshot : y = [x EXCEPT !.trig = trig]
  BY DEF Snapshot
<1>4. y.mixed = x.mixed /\ y.lost = x.lost /\ y.trig = trig
  BY <1>3 DEF Snapshot
<1>5. staging' = [[staging EXCEPT !.state = "manifest"] EXCEPT !.snap = y]
  BY <1>1, <1>2, <1>3 DEF SealManifest
<1>6. staging.state = "full" /\ SupAlive
  BY DEF SealManifest, InThread
<1>. QED
  BY <1>1, <1>2, <1>4, <1>5, <1>6 DEF TypeOK, Staging

\* A write mixes what is half copied, ...
LEMMA WriteMixes ==
    ASSUME TypeOK, AgentWrite
    PROVE  /\ staging' \in Staging /\ staging.state = "partial" /\ staging'.state = "partial"
           /\ staging'.held = staging.held
           /\ staging'.snap.lost = staging.snap.lost /\ staging'.snap.trig = staging.snap.trig
<1>1. PICK x \in Snapshot : x = staging.snap
  BY DEF TypeOK, Staging
<1>2. PICK y \in Snapshot : y = [x EXCEPT !.mixed = TRUE]
  BY DEF Snapshot
<1>3. y.lost = x.lost /\ y.trig = x.trig
  BY <1>2 DEF Snapshot
<1>4. staging' = [staging EXCEPT !.snap = y] /\ staging.state = "partial"
  BY <1>1, <1>2 DEF AgentWrite
<1>. QED
  BY <1>1, <1>3, <1>4 DEF TypeOK, Staging

\* ... and a removal takes paths out of a directory it has open.
LEMMA RemovalTears ==
    ASSUME TypeOK, RemoveTears
    PROVE  /\ staging' \in Staging /\ staging'.state = staging.state
           /\ staging.held /\ staging'.held
           /\ staging'.snap.mixed = staging.snap.mixed /\ staging'.snap.trig = staging.snap.trig
           /\ staging.state = "manifest" => staging'.snap.lost = "plain"
<1>1. PICK x \in Snapshot : x = staging.snap
  BY DEF TypeOK, Staging
<1>2. PICK lost \in Loss : /\ lost = (IF staging.state = "manifest" THEN "plain" ELSE "silent")
                           /\ staging' = [staging EXCEPT !.snap.lost = lost]
  BY DEF RemoveTears, Loss
<1>3. PICK y \in Snapshot : y = [x EXCEPT !.lost = lost]
  BY DEF Snapshot
<1>4. y.mixed = x.mixed /\ y.trig = x.trig /\ y.lost = lost
  BY <1>3 DEF Snapshot
<1>5. staging' = [staging EXCEPT !.snap = y] /\ staging.held
  BY <1>1, <1>2, <1>3 DEF RemoveTears
<1>. QED
  BY <1>1, <1>2, <1>4, <1>5 DEF TypeOK, Staging

\* A removal opens the directory or lets it go.
LEMMA RemovalOpens ==
    ASSUME TypeOK, RemoveStaging \/ RemoveEnds \/ Restart
    PROVE  /\ staging' \in Staging
           /\ \/ staging' = NoStaging
              \/ staging'.state = staging.state /\ staging'.snap = staging.snap
           /\ staging'.held => RemoveStaging /\ staging.state # "none"
<1>1. CASE RemoveStaging
  <2>1. staging' = [staging EXCEPT !.held = (staging.state # "none")]
    BY <1>1 DEF RemoveStaging
  <2>2. PICK held \in BOOLEAN : held = (staging.state # "none")
    OBVIOUS
  <2>. QED
    BY <1>1, <2>1, <2>2 DEF TypeOK, Staging
<1>2. CASE RemoveEnds \/ Restart
  <2>1. staging' = NoStaging \/ staging' = [staging EXCEPT !.held = FALSE]
    BY <1>2 DEF RemoveEnds, Restart
  <2>. QED
    BY <2>1, Fresh DEF TypeOK, Staging
<1>. QED
  BY <1>1, <1>2

LEMMA StagingStep ==
    ASSUME TypeOK, [Next]_vars
    PROVE  /\ staging' \in Staging
           /\ \/ staging' = staging \/ staging' = NoStaging
              \/ \E s \in Thread : CopyFirst(s) \/ CopyLast(s) \/ SealManifest(s)
              \/ AgentWrite \/ RemoveStaging \/ RemoveTears \/ RemoveEnds \/ Restart
<1>1. \/ staging' = staging \/ staging' = NoStaging
      \/ \E s \in Thread : CopyFirst(s) \/ CopyLast(s) \/ SealManifest(s)
      \/ AgentWrite \/ RemoveStaging \/ RemoveTears \/ RemoveEnds \/ Restart
  BY DEF Next, SealStep, SupStep, Recover, SealEnter, SealPause, CopyFails, SealUnpause,
     SealPublish, SealRejected, RegisterCheck, RegisterInsert, SealSettle, SealFailed,
     SealAnomaly, WatchFires, WatchStops, AgentEnd, HookReturns, Result, Timeout, TimeoutSealed,
     Retrigger, Verdict, Exit, LookAtStaging, AdoptStaging, RegisterStaging, MarkRejected,
     RecoverPublished, CheckContent, ReapRun, ReapContainer, ReapAnomaly, SubmitAuthorized,
     SubmitAccepted, Overdue, Killed, vars
<1>. QED
  BY <1>1, CopyBegins, CopyEnds, ManifestWritten, WriteMixes, RemovalTears, RemovalOpens, Fresh
     DEF TypeOK

\* A supervisor that is gone does not come back, and what was disturbed stays so.
LEMMA HistoryStays ==
    ASSUME TypeOK, [Next]_vars
    PROVE  /\ SupAlive' => SupAlive
           /\ disturbed => disturbed'
           /\ disturbed' \in BOOLEAN /\ severed' \in BOOLEAN /\ run' \in {"active", "finished"}
<1>1. sup \in {"exited", "dead"} => sup' = sup
  BY DEF Next, SealStep, SupStep, Recover, SealEnter, SealPause, CopyFirst, CopyLast, CopyFails,
     SealUnpause, SealManifest, SealPublish, SealRejected, RegisterCheck, RegisterInsert,
     SealSettle, SealFailed, SealAnomaly, WatchFires, WatchStops, AgentEnd, HookReturns, Result,
     Timeout, TimeoutSealed, Retrigger, Verdict, Exit, LookAtStaging, AdoptStaging,
     RegisterStaging, RemoveStaging, RemoveTears, RemoveEnds, MarkRejected, RecoverPublished,
     CheckContent, ReapRun, ReapContainer, ReapAnomaly, AgentWrite, SubmitAuthorized,
     SubmitAccepted, Overdue, Killed, Restart, SupAlive, InThread, vars
<1>2. disturbed' = disturbed \/ RemoveStaging
  BY DEF Next, SealStep, SupStep, Recover, SealEnter, SealPause, CopyFirst, CopyLast, CopyFails,
     SealUnpause, SealManifest, SealPublish, SealRejected, RegisterCheck, RegisterInsert,
     SealSettle, SealFailed, SealAnomaly, WatchFires, WatchStops, AgentEnd, HookReturns, Result,
     Timeout, TimeoutSealed, Retrigger, Verdict, Exit, LookAtStaging, AdoptStaging,
     RegisterStaging, RemoveTears, RemoveEnds, MarkRejected, RecoverPublished, CheckContent,
     ReapRun, ReapContainer, ReapAnomaly, AgentWrite, SubmitAuthorized, SubmitAccepted, Overdue,
     Killed, Restart, manager, history, vars
<1>3. severed' = severed \/ Restart
  BY DEF Next, SealStep, SupStep, Recover, SealEnter, SealPause, CopyFirst, CopyLast, CopyFails,
     SealUnpause, SealManifest, SealPublish, SealRejected, RegisterCheck, RegisterInsert,
     SealSettle, SealFailed, SealAnomaly, WatchFires, WatchStops, AgentEnd, HookReturns, Result,
     Timeout, TimeoutSealed, Retrigger, Verdict, Exit, LookAtStaging, AdoptStaging,
     RegisterStaging, RemoveStaging, RemoveTears, RemoveEnds, MarkRejected, RecoverPublished,
     CheckContent, ReapRun, ReapContainer, ReapAnomaly, AgentWrite, SubmitAuthorized,
     SubmitAccepted, Overdue, Killed, manager, history, vars
<1>4. run' = run \/ run' = "finished"
  BY DEF Next, SealStep, SupStep, Recover, SealEnter, SealPause, CopyFirst, CopyLast, CopyFails,
     SealUnpause, SealManifest, SealPublish, SealRejected, RegisterCheck, RegisterInsert,
     SealSettle, SealFailed, SealAnomaly, WatchFires, WatchStops, AgentEnd, HookReturns, Result,
     Timeout, TimeoutSealed, Retrigger, Verdict, Exit, LookAtStaging, AdoptStaging,
     RegisterStaging, RemoveStaging, RemoveTears, RemoveEnds, MarkRejected, RecoverPublished,
     CheckContent, ReapRun, ReapContainer, ReapAnomaly, AgentWrite, SubmitAuthorized,
     SubmitAccepted, Overdue, Killed, Restart, manager, history, vars
<1>5. RemoveStaging => (disturbed => disturbed') /\ disturbed' \in BOOLEAN
  BY DEF RemoveStaging
<1>6. Restart => severed' \in BOOLEAN
  BY DEF Restart
<1>7. (disturbed => disturbed') /\ disturbed' \in BOOLEAN
  BY <1>2, <1>5 DEF TypeOK
<1>8. severed' \in BOOLEAN
  BY <1>3, <1>6 DEF TypeOK
<1>. QED
  BY <1>1, <1>4, <1>7, <1>8 DEF SupAlive, TypeOK

\* What is published is what staging held with its manifest, and stays; it has lost
\* something only to a removal, under a live supervisor or before the manifest.
LEMMA PublishedStep ==
    ASSUME TypeOK, [Next]_vars
    PROVE  /\ published' \subseteq Snapshot
           /\ \/ published' = published
              \/ \E snap \in Snapshot :
                    /\ published' = published \cup {snap} /\ staging.state = "manifest"
                    /\ snap.mixed = staging.snap.mixed /\ snap.trig = staging.snap.trig
                    /\ snap.lost # "none" =>
                          \/ SupAlive /\ (staging.held \/ staging.snap.lost # "none")
                          \/ staging.snap.lost = "silent"
<1>1. \/ published' = published \/ AdoptStaging \/ \E s \in Thread : SealPublish(s)
  BY DEF Next, SealStep, SupStep, Recover, SealEnter, SealPause, CopyFirst, CopyLast, CopyFails,
     SealUnpause, SealManifest, SealRejected, RegisterCheck, RegisterInsert, SealSettle,
     SealFailed, SealAnomaly, WatchFires, WatchStops, AgentEnd, HookReturns, Result, Timeout,
     TimeoutSealed, Retrigger, Verdict, Exit, LookAtStaging, RegisterStaging, RemoveStaging,
     RemoveTears, RemoveEnds, MarkRejected, RecoverPublished, CheckContent, ReapRun,
     ReapContainer, ReapAnomaly, AgentWrite, SubmitAuthorized, SubmitAccepted, Overdue, Killed,
     Restart, vars
<1>2. ASSUME NEW s \in Thread, SealPublish(s)
      PROVE  \E snap \in Snapshot :
                /\ published' = published \cup {snap} /\ staging.state = "manifest"
                /\ snap.mixed = staging.snap.mixed /\ snap.trig = staging.snap.trig
                /\ snap.lost # "none" => SupAlive /\ (staging.held \/ staging.snap.lost # "none")
  <2>1. PICK lost \in {staging.snap.lost} \cup (IF staging.held THEN {"plain"} ELSE {}) :
           published' = published \cup {[staging.snap EXCEPT !.lost = lost]}
    BY <1>2 DEF SealPublish
  <2>2. PICK x \in Snapshot : x = staging.snap
    BY DEF TypeOK, Staging
  <2>3. lost \in Loss /\ (lost = x.lost \/ staging.held)
    BY <2>1, <2>2 DEF Loss, Snapshot
  <2>4. PICK y \in Snapshot : y = [x EXCEPT !.lost = lost]
    BY <2>3 DEF Snapshot
  <2>5. y.mixed = x.mixed /\ y.trig = x.trig /\ y.lost = lost
    BY <2>3, <2>4 DEF Snapshot
  <2>6. SupAlive /\ staging.state = "manifest"
    BY <1>2 DEF SealPublish, InThread
  <2>7. published' = published \cup {y}
    BY <2>1, <2>2, <2>4
  <2>. QED
    BY <2>2, <2>3, <2>5, <2>6, <2>7
<1>3. CASE AdoptStaging
  <2>1. PICK x \in Snapshot : x = staging.snap
    BY DEF TypeOK, Staging
  <2>2. \/ published' = published
        \/ /\ published' = published \cup {x} /\ staging.state = "manifest"
           /\ x.lost # "plain"
    BY <1>3, <2>1 DEF AdoptStaging
  <2>3. x.lost \in {"none", "silent", "plain"}
    BY DEF Snapshot, Loss
  <2>. QED
    BY <2>1, <2>2, <2>3 DEF TypeOK
<1>. QED
  BY <1>1, <1>2, <1>3 DEF TypeOK

\* The manager's locals: it registers what it has published.
LEMMA ManagerStep ==
    ASSUME TypeOK, [Next]_vars
    PROVE  /\ mgr' \in Manager
           /\ mgr'.pc = "register" => mgr' = mgr \/ mgr'.snap \in published'
<1> DEFINE Pc == {"up", "staging", "adopt", "register", "remove", "unlink", "mark", "answers",
                  "content", "cleanup", "lost"}
<1>1. ASSUME NEW pc \in Pc
      PROVE  ManagerAt(pc) \in Manager /\ ManagerAt(pc).pc = pc
  BY Fresh DEF ManagerAt, Manager
<1>2. ASSUME NEW pc \in Pc \ {"register"}, ManagerGoes(pc)
      PROVE  mgr' \in Manager /\ mgr'.pc # "register"
  BY <1>1, <1>2 DEF ManagerGoes
<1>3. ASSUME NEW b \in BOOLEAN
      PROVE  /\ [ManagerAt("remove") EXCEPT !.reject = b] \in Manager
             /\ [ManagerAt("remove") EXCEPT !.reject = b].pc = "remove"
  BY <1>1 DEF Manager
<1>4. CASE LookAtStaging
  BY <1>2, <1>3, <1>4 DEF LookAtStaging
<1>5. CASE AdoptStaging
  <2>1. PICK snap \in Snapshot : snap = staging.snap
    BY DEF TypeOK, Staging
  <2>2. PICK m \in Manager : m = ManagerAt("register")
    BY <1>1
  <2>3. [m EXCEPT !.snap = snap] \in Manager /\ [m EXCEPT !.snap = snap].snap = snap
    BY DEF Manager
  <2>4. \/ mgr' = [ManagerAt("remove") EXCEPT !.reject = TRUE]
        \/ ManagerGoes("staging")
        \/ mgr' = [m EXCEPT !.snap = snap] /\ snap \in published'
    BY <1>5, <2>1, <2>2 DEF AdoptStaging
  <2>. QED
    BY <1>2, <1>3, <2>3, <2>4
<1>6. CASE RemoveStaging
  <2>1. AfterRemoval \in Pc \ {"register"}
    BY DEF AfterRemoval
  <2>2. PICK m \in Manager : m = mgr
    BY DEF TypeOK
  <2>3. [m EXCEPT !.pc = "unlink"] \in Manager /\ [m EXCEPT !.pc = "unlink"].pc = "unlink"
    BY DEF Manager
  <2>4. ManagerGoes(AfterRemoval) \/ mgr' = [m EXCEPT !.pc = "unlink"]
    BY <1>6, <2>2 DEF RemoveStaging
  <2>. QED
    BY <1>2, <2>1, <2>3, <2>4
<1>7. CASE RemoveEnds
  <2>1. AfterRemoval \in Pc \ {"register"}
    BY DEF AfterRemoval
  <2>. QED
    BY <1>2, <1>7, <2>1 DEF RemoveEnds
<1>8. \/ mgr' = mgr \/ LookAtStaging \/ AdoptStaging \/ RemoveStaging \/ RemoveEnds
      \/ \E pc \in Pc \ {"register"} : ManagerGoes(pc)
  <2>1. \/ mgr' = mgr \/ LookAtStaging \/ AdoptStaging \/ RemoveStaging \/ RemoveEnds
        \/ ManagerGoes("remove") \/ ManagerGoes("answers") \/ ManagerGoes("content")
        \/ ManagerGoes("up") \/ ManagerGoes("cleanup") \/ ManagerGoes("lost")
        \/ ManagerGoes("staging")
    BY DEF Next, SealStep, SupStep, Recover, SealEnter, SealPause, CopyFirst, CopyLast, CopyFails,
       SealUnpause, SealManifest, SealPublish, SealRejected, RegisterCheck, RegisterInsert,
       SealSettle, SealFailed, SealAnomaly, WatchFires, WatchStops, AgentEnd, HookReturns, Result,
       Timeout, TimeoutSealed, Retrigger, Verdict, Exit, RegisterStaging, RemoveTears,
       MarkRejected, RecoverPublished, CheckContent, ReapRun, ReapContainer, ReapAnomaly,
       AgentWrite, SubmitAuthorized, SubmitAccepted, Overdue, Killed, Restart, manager, vars
  <2>. QED
    BY <2>1
<1>. QED
  BY <1>2, <1>4, <1>5, <1>6, <1>7, <1>8 DEF TypeOK

AnswerRow == [status: {"none", "sealed", "anomaly"}, trig: Trigger, receipt: Receipt,
              snap: Snapshot]

\* Where the answer row comes from: a thread, an anomaly, the disk; after that a retrigger
\* may change its trigger, a verdict or a check of the content its status, and nothing else.
LEMMA RowStep ==
    ASSUME TypeOK, [Next]_vars
    PROVE  /\ row' \in AnswerRow
           /\ \/ row' = row
              \/ row.status = "none" /\ row'.status = "anomaly"
              \/ /\ row.status = "none"
                 /\ \E s \in Thread : /\ RegisterInsert(s) /\ row'.trig = sealer[s].trig
                                      /\ row'.receipt = sealer[s].receipt
                                      /\ row'.snap = sealer[s].snap /\ row'.status = "sealed"
              \/ /\ row.status = "none"
                 /\ \E snap \in Snapshot :
                       /\ snap \in published \/ (mgr.pc = "register" /\ snap = mgr.snap)
                       /\ row'.snap = snap /\ row'.trig = snap.trig
                       /\ row'.receipt = CurrentReceipt /\ row'.status = "sealed"
              \/ /\ row.status = "sealed" /\ row'.snap = row.snap /\ row'.receipt = row.receipt
                 /\ \/ Retrigger /\ row.trig = "exit" /\ row'.trig = "timeout"
                       /\ row'.status = "sealed"
                    \/ row'.status = "anomaly"
<1> USE DEF TypeOK, AnswerRow
<1>1. ASSUME NEW trig \in Trigger, Anomaly(trig)
      PROVE  row' = row \/ (row.status = "none" /\ row' \in AnswerRow /\ row'.status = "anomaly")
  BY <1>1, Fresh DEF Anomaly, NoRow, Trigger, Receipt
<1>2. CASE \E s \in Thread : SealAnomaly(s)
  <2>1. PICK s \in Thread : SealAnomaly(s)
    BY <1>2
  <2>2. sealer[s].trig \in Trigger
    OBVIOUS
  <2>. QED
    BY <1>1, <2>1, <2>2 DEF SealAnomaly
<1>3. CASE MarkRejected \/ ReapAnomaly
  BY <1>1, <1>3 DEF MarkRejected, ReapAnomaly, Trigger
<1>4. CASE \E s \in Thread : RegisterInsert(s) /\ row' # row
  <2>1. PICK s \in Thread : RegisterInsert(s) /\ row' # row
    BY <1>4
  <2>2. sealer[s].trig \in Trigger /\ sealer[s].receipt \in Receipt /\ sealer[s].snap \in Snapshot
    OBVIOUS
  <2>3. /\ row.status = "none"
        /\ row' = [status |-> "sealed", trig |-> sealer[s].trig,
                   receipt |-> sealer[s].receipt, snap |-> sealer[s].snap]
    BY <2>1 DEF RegisterInsert
  <2>. QED
    BY <2>1, <2>2, <2>3
<1>5. ASSUME NEW snap \in Snapshot, Recovered(snap)
      PROVE  /\ row' \in AnswerRow /\ row'.snap = snap /\ row'.trig = snap.trig
             /\ row'.receipt = CurrentReceipt /\ row'.status = "sealed"
  <2>1. snap.trig \in Trigger
    BY DEF Snapshot
  <2>. QED
    BY <1>5, <2>1, Fresh DEF Recovered
<1>6. CASE RegisterStaging /\ row' # row
  <2>1. mgr.pc = "register" /\ row.status = "none" /\ Recovered(mgr.snap)
    BY <1>6 DEF RegisterStaging
  <2>2. mgr.snap \in Snapshot
    BY DEF Manager
  <2>. QED
    BY <1>5, <2>1, <2>2
<1>7. CASE RecoverPublished /\ row' # row
  <2>1. row.status = "none" /\ (Anomaly("recovery") \/ \E snap \in published : Recovered(snap))
    BY <1>7 DEF RecoverPublished
  <2>2. CASE Anomaly("recovery")
    BY <1>1, <2>2 DEF Trigger
  <2>3. CASE \E snap \in published : Recovered(snap)
    <3>1. PICK snap \in published : Recovered(snap)
      BY <2>3
    <3>2. snap \in Snapshot
      BY <3>1
    <3>3. /\ row' \in AnswerRow /\ row'.snap = snap /\ row'.trig = snap.trig
          /\ row'.receipt = CurrentReceipt /\ row'.status = "sealed"
      BY <1>5, <3>1, <3>2
    <3>. QED
      BY <2>1, <3>1, <3>2, <3>3
  <2>. QED
    BY <2>1, <2>2, <2>3
<1>8. CASE Retrigger
  BY <1>8 DEF Retrigger, Trigger
<1>9. CASE Verdict
  BY <1>9 DEF Verdict
<1>10. CASE CheckContent
  BY <1>10 DEF CheckContent
<1>11. \/ row' = row \/ Retrigger \/ Verdict \/ MarkRejected \/ ReapAnomaly \/ RegisterStaging
       \/ RecoverPublished \/ CheckContent
       \/ \E s \in Thread : SealAnomaly(s) \/ RegisterInsert(s)
  BY DEF Next, SealStep, SupStep, Recover, SealEnter, SealPause, CopyFirst, CopyLast, CopyFails,
     SealUnpause, SealManifest, SealPublish, SealRejected, RegisterCheck, SealSettle, SealFailed,
     WatchFires, WatchStops, AgentEnd, HookReturns, Result, Timeout, TimeoutSealed, Exit,
     LookAtStaging, AdoptStaging, RemoveStaging, RemoveTears, RemoveEnds, ReapRun, ReapContainer,
     AgentWrite, SubmitAuthorized, SubmitAccepted, Overdue, Killed, Restart, dbvars, vars
<1>. QED
  BY <1>2, <1>3, <1>4, <1>6, <1>7, <1>8, <1>9, <1>10, <1>11

\* A submission, once there, stays one; a run that timed out has timed out.
LEMMA TriggersStay ==
    ASSUME TypeOK, [Next]_vars
    PROVE  /\ sub' \in {"none", "accepted", "sealing", "sealed", "error"}
           /\ sub # "none" => sub' # "none"
           /\ sup' \in {"agent", "hook", "ended", "timeout", "retrigger", "verdict", "finish",
                         "exited", "dead"}
           /\ ~OnTime => ~OnTime'
<1>1. sub' = sub \/ sub' \in {"accepted", "sealing", "sealed", "error"}
  BY DEF Next, SealStep, SupStep, Recover, SealEnter, SealPause, CopyFirst, CopyLast, CopyFails,
     SealUnpause, SealManifest, SealPublish, SealRejected, RegisterCheck, RegisterInsert,
     SealSettle, SealFailed, SealAnomaly, WatchFires, WatchStops, AgentEnd, HookReturns, Result,
     Timeout, TimeoutSealed, Retrigger, Verdict, Exit, LookAtStaging, AdoptStaging,
     RegisterStaging, RemoveStaging, RemoveTears, RemoveEnds, MarkRejected, RecoverPublished,
     CheckContent, ReapRun, ReapContainer, ReapAnomaly, AgentWrite, SubmitAuthorized,
     SubmitAccepted, Overdue, Killed, Restart, Anomaly, Recovered, SetSubmission, dbvars, vars
<1>2. \/ sup' = sup \/ WatchFires \/ AgentEnd \/ HookReturns \/ Result \/ Timeout
      \/ TimeoutSealed \/ Retrigger \/ Verdict \/ Exit \/ Killed
  BY DEF Next, SealStep, SupStep, Recover, SealEnter, SealPause, CopyFirst, CopyLast, CopyFails,
     SealUnpause, SealManifest, SealPublish, SealRejected, RegisterCheck, RegisterInsert,
     SealSettle, SealFailed, SealAnomaly, WatchStops, LookAtStaging, AdoptStaging,
     RegisterStaging, RemoveStaging, RemoveTears, RemoveEnds, MarkRejected, RecoverPublished,
     CheckContent, ReapRun, ReapContainer, ReapAnomaly, AgentWrite, SubmitAuthorized,
     SubmitAccepted, Overdue, Restart, vars
<1>3. /\ sup' \in {"agent", "hook", "ended", "timeout", "retrigger", "verdict", "finish",
                    "exited", "dead"}
      /\ ~OnTime => ~OnTime'
  BY <1>2 DEF WatchFires, AgentEnd, HookReturns, Result, Timeout, TimeoutSealed, Retrigger,
     Verdict, Exit, Killed, OnTime, TypeOK
<1>. QED
  BY <1>1, <1>3 DEF OnTime, TypeOK

LEMMA TypeStep == TypeOK /\ [Next]_vars => TypeOK'
<1> SUFFICES ASSUME TypeOK, [Next]_vars PROVE TypeOK'
  OBVIOUS
<1>1. container' \in {"running", "paused", "stopped", "gone"}
  <2>1. container' = container \/ container' \in {"running", "paused", "stopped", "gone"}
    BY DEF Next, SealStep, SupStep, Recover, SealEnter, SealPause, CopyFirst, CopyLast, CopyFails,
       SealUnpause, SealManifest, SealPublish, SealRejected, RegisterCheck, RegisterInsert,
       SealSettle, SealFailed, SealAnomaly, WatchFires, WatchStops, AgentEnd, HookReturns, Result,
       Timeout, TimeoutSealed, Retrigger, Verdict, Exit, LookAtStaging, AdoptStaging,
       RegisterStaging, RemoveStaging, RemoveTears, RemoveEnds, MarkRejected, RecoverPublished,
       CheckContent, ReapRun, ReapContainer, ReapAnomaly, AgentWrite, SubmitAuthorized,
       SubmitAccepted, Overdue, Killed, Restart, vars
  <2>. QED
    BY <2>1 DEF TypeOK
<1>2. restarts' \in 0..MaxRestarts
  <2>1. restarts' = restarts \/ (restarts < MaxRestarts /\ restarts' = restarts + 1)
    BY DEF Next, SealStep, SupStep, Recover, SealEnter, SealPause, CopyFirst, CopyLast, CopyFails,
       SealUnpause, SealManifest, SealPublish, SealRejected, RegisterCheck, RegisterInsert,
       SealSettle, SealFailed, SealAnomaly, WatchFires, WatchStops, AgentEnd, HookReturns, Result,
       Timeout, TimeoutSealed, Retrigger, Verdict, Exit, LookAtStaging, AdoptStaging,
       RegisterStaging, RemoveStaging, RemoveTears, RemoveEnds, MarkRejected, RecoverPublished,
       CheckContent, ReapRun, ReapContainer, ReapAnomaly, AgentWrite, SubmitAuthorized,
       SubmitAccepted, Overdue, Killed, Restart, manager, vars
  <2>. QED
    BY <2>1, SealingAssumption DEF TypeOK
<1>3. overdue' \in BOOLEAN
  <2>1. overdue' = overdue \/ overdue' = TRUE
    BY DEF Next, SealStep, SupStep, Recover, SealEnter, SealPause, CopyFirst, CopyLast, CopyFails,
       SealUnpause, SealManifest, SealPublish, SealRejected, RegisterCheck, RegisterInsert,
       SealSettle, SealFailed, SealAnomaly, WatchFires, WatchStops, AgentEnd, HookReturns, Result,
       Timeout, TimeoutSealed, Retrigger, Verdict, Exit, LookAtStaging, AdoptStaging,
       RegisterStaging, RemoveStaging, RemoveTears, RemoveEnds, MarkRejected, RecoverPublished,
       CheckContent, ReapRun, ReapContainer, ReapAnomaly, AgentWrite, SubmitAuthorized,
       SubmitAccepted, Overdue, Killed, Restart, vars
  <2>. QED
    BY <2>1 DEF TypeOK
<1>4. sess' \in {"idle", "authorized", "done"} /\ watch' \in {"polling", "fired", "done"}
  <2>1. sess' = sess \/ sess' \in {"authorized", "done"}
    BY DEF Next, SealStep, SupStep, Recover, SealEnter, SealPause, CopyFirst, CopyLast, CopyFails,
       SealUnpause, SealManifest, SealPublish, SealRejected, RegisterCheck, RegisterInsert,
       SealSettle, SealFailed, SealAnomaly, WatchFires, WatchStops, AgentEnd, HookReturns, Result,
       Timeout, TimeoutSealed, Retrigger, Verdict, Exit, LookAtStaging, AdoptStaging,
       RegisterStaging, RemoveStaging, RemoveTears, RemoveEnds, MarkRejected, RecoverPublished,
       CheckContent, ReapRun, ReapContainer, ReapAnomaly, AgentWrite, SubmitAuthorized,
       SubmitAccepted, Overdue, Killed, Restart, dbvars, vars
  <2>2. watch' = watch \/ watch' \in {"fired", "done"}
    BY DEF Next, SealStep, SupStep, Recover, SealEnter, SealPause, CopyFirst, CopyLast, CopyFails,
       SealUnpause, SealManifest, SealPublish, SealRejected, RegisterCheck, RegisterInsert,
       SealSettle, SealFailed, SealAnomaly, WatchFires, WatchStops, AgentEnd, HookReturns, Result,
       Timeout, TimeoutSealed, Retrigger, Verdict, Exit, LookAtStaging, AdoptStaging,
       RegisterStaging, RemoveStaging, RemoveTears, RemoveEnds, MarkRejected, RecoverPublished,
       CheckContent, ReapRun, ReapContainer, ReapAnomaly, AgentWrite, SubmitAuthorized,
       SubmitAccepted, Overdue, Killed, Restart, WatchReturns, vars
  <2>. QED
    BY <2>1, <2>2 DEF TypeOK
<1>. QED
  BY <1>1, <1>2, <1>3, <1>4, SealerStep, StagingStep, PublishedStep, ManagerStep, HistoryStays,
     RowStep, TriggersStay DEF TypeOK, Locals, AnswerRow

-----------------------------------------------------------------------------
(* What the answer rests on.                                               *)

\* What a trigger tells stays true, and an answer stays an answer.
LEMMA TrueStays ==
    ASSUME TypeOK, [Next]_vars, NEW trig, TriggerIsTrue(trig)
    PROVE  TriggerIsTrue(trig)'
BY TriggersStay DEF TriggerIsTrue

LEMMA AnswerStays ==
    ASSUME TypeOK, [Next]_vars, row.status # "none"
    PROVE  /\ row'.status # "none" /\ row'.snap = row.snap /\ row'.receipt = row.receipt
           /\ row' = row \/ Retrigger \/ row'.status = "anomaly"
BY RowStep

LEMMA ThreadElse ==
    ASSUME TypeOK, [Next]_vars, NEW o \in Thread, ThreadIsTrue(o), sealer'[o] = sealer[o]
    PROVE  ThreadIsTrue(o)'
<1>1. published \subseteq published'
  BY PublishedStep
<1>2. TriggerIsTrue(sealer[o].trig)'
  <2>1. PICK trig : trig = sealer[o].trig
    OBVIOUS
  <2>2. TriggerIsTrue(trig)'
    BY <2>1, TrueStays DEF ThreadIsTrue
  <2>. QED
    BY <2>1, <2>2 DEF TriggerIsTrue
<1>. QED
  BY <1>1, <1>2, AnswerStays DEF ThreadIsTrue

LEMMA ThreadOwn ==
    ASSUME TypeOK, [Next]_vars, NEW s \in Thread, ThreadIsTrue(s), SealStep(s)
    PROVE  ThreadIsTrue(s)'
<1>1. TriggerIsTrue(sealer[s].trig)'
  <2>1. PICK trig : trig = sealer'[s].trig
    OBVIOUS
  <2>2. TriggerIsTrue(trig)
    BY <2>1, ThreadStep DEF ThreadIsTrue, TriggerIsTrue
  <2>. QED
    BY <2>1, <2>2, TrueStays DEF TriggerIsTrue
<1>2. sealer'[s].trig = "submit" => sealer[s].trig = "submit" /\ sub # "none"
  BY ThreadStep DEF ThreadIsTrue, TriggerIsTrue
<1>3. /\ sealer'[s].trig = "submit" /\ sealer'[s].pc \in Entered =>
            sealer'[s].receipt = "submission"
      /\ sealer'[s].pc \in {"check", "insert"} => sealer'[s].snap \in published'
      /\ sealer'[s].pc \in {"settle", "done"} => row'.status # "none"
  <2> USE <1>2 DEF TypeOK, Locals, ThreadIsTrue, Entered, InThread
  <2>0. "done" \in ThreadPc /\ "error" \in ThreadPc /\ "settle" \in ThreadPc
    BY DEF ThreadPc
  <2>1. CASE SealEnter(s)
    BY <2>1, ReturnsDone, Receives, Fresh DEF SealEnter
  <2>2. CASE SealPause(s)
    BY <2>2, Goes, Freezes DEF SealPause, ThreadPc
  <2>3. CASE SealPublish(s)
    <3>1. PICK snap \in Snapshot :
             /\ published' = published \cup {snap}
             /\ sealer' = [sealer EXCEPT ![s].pc = "check", ![s].snap = snap]
      BY <2>3, PublishHolds
    <3>2. sealer[s].pc = "publish" /\ sealer \in [Thread -> Locals]
      BY <2>3 DEF SealPublish
    <3>3. /\ sealer'[s].pc = "check" /\ sealer'[s].receipt = sealer[s].receipt
          /\ sealer'[s].snap = snap
      BY <3>1, <3>2, Publishes
    <3>. QED
      BY <1>2, <3>1, <3>2, <3>3
  <2>4. CASE RegisterInsert(s)
    BY <2>0, <2>4, EndsIn DEF RegisterInsert
  <2>5. CASE SealAnomaly(s)
    BY <2>5, ReturnsDone DEF SealAnomaly, Anomaly, NoRow
  <2>6. CASE SealSettle(s)
    BY <2>6, ReturnsDone DEF SealSettle
  <2>7. CASE RegisterCheck(s)
    BY <2>0, <2>7, Goes, EndsIn DEF RegisterCheck, dbvars, ThreadPc
  <2>8. CASE CopyFirst(s) \/ CopyLast(s) \/ CopyFails(s)
    BY <2>8, Goes DEF CopyFirst, CopyLast, CopyFails, ThreadPc
  <2>9. CASE SealManifest(s) \/ SealFailed(s)
    BY <2>9, Goes DEF SealManifest, SealFailed, ThreadPc
  <2>10. CASE SealUnpause(s) \/ SealRejected(s)
    BY <2>0, <2>10, Goes, EndsIn DEF SealUnpause, SealRejected, ThreadPc
  <2>. QED
    BY <2>1, <2>2, <2>3, <2>4, <2>5, <2>6, <2>7, <2>8, <2>9, <2>10 DEF SealStep
<1>. QED
  BY <1>1, <1>3 DEF ThreadIsTrue

\* Each thread tells the truth, whoever moves.
LEMMA ThreadsStep ==
    ASSUME TypeOK, [Next]_vars, \A s \in Thread : ThreadIsTrue(s)
    PROVE  \A s \in Thread : ThreadIsTrue(s)'
<1> SUFFICES ASSUME NEW o \in Thread PROVE ThreadIsTrue(o)'
  OBVIOUS
<1>1. CASE sealer'[o] = sealer[o]
  BY <1>1, ThreadElse
<1>2. CASE SealStep(o)
  BY <1>2, ThreadOwn
<1>3. CASE AgentEnd
  <2>1. CASE o = "hook"
    BY <1>3, <2>1, Begins DEF AgentEnd, Thread, Trigger, ThreadIsTrue, TriggerIsTrue, Entered,
       dbvars
  <2>2. CASE o # "hook"
    BY <1>1, <1>3, <2>2, Begins DEF AgentEnd, Thread, Trigger
  <2>. QED
    BY <2>1, <2>2
<1>4. CASE Timeout
  <2>1. CASE o = "timeout"
    BY <1>4, <2>1, Begins DEF Timeout, Thread, Trigger, ThreadIsTrue, TriggerIsTrue, Entered,
       OnTime
  <2>2. CASE o # "timeout"
    BY <1>1, <1>4, <2>2, Begins DEF Timeout, Thread, Trigger
  <2>. QED
    BY <2>1, <2>2
<1>5. CASE sealer'[o] = NoThread
  BY <1>5, Fresh DEF ThreadIsTrue, TriggerIsTrue, Entered
<1>. QED
  BY <1>1, <1>2, <1>3, <1>4, <1>5, SealerStep, ThreadStep

LEMMA DiskStep ==
    ASSUME TypeOK, [Next]_vars, \A s \in Thread : ThreadIsTrue(s), DiskIsTrue
    PROVE  DiskIsTrue'
<1>1. \/ staging'.snap.trig \in {staging.snap.trig, "recovery"}
      \/ \E s \in Thread : staging'.snap.trig = sealer[s].trig
  BY StagingStep, CopyBegins, CopyEnds, ManifestWritten, WriteMixes, RemovalTears, RemovalOpens,
     Fresh
<1>2. PICK trig : trig = staging'.snap.trig
  OBVIOUS
<1>3. TriggerIsTrue(trig)
  BY <1>1, <1>2 DEF DiskIsTrue, ThreadIsTrue, TriggerIsTrue
<1>4. TriggerIsTrue(staging.snap.trig)'
  BY <1>2, <1>3, TrueStays DEF TriggerIsTrue
<1>5. ASSUME NEW snap \in published' PROVE TriggerIsTrue(snap.trig)'
  <2>1. TriggerIsTrue(snap.trig)
    BY PublishedStep DEF DiskIsTrue
  <2>. QED
    BY <2>1, TrueStays DEF TriggerIsTrue
<1>6. mgr'.pc = "register" => mgr'.snap \in published'
  BY ManagerStep, PublishedStep DEF DiskIsTrue
<1>. QED
  BY <1>4, <1>5, <1>6 DEF DiskIsTrue

LEMMA RowTrueStep ==
    ASSUME IInv, [Next]_vars
    PROVE  RowIsTrue'
<1> USE DEF IInv
<1> SUFFICES ASSUME row'.status = "sealed"
             PROVE  /\ TriggerIsTrue(row.trig)'
                    /\ row'.snap \in published'
                    /\ row'.trig = "submit" => row'.receipt = "submission"
  BY DEF RowIsTrue
<1>1. published \subseteq published'
  BY PublishedStep
<1>2. PICK trig : trig = row'.trig
  OBVIOUS
<1>3. /\ TriggerIsTrue(trig) \/ (TriggerIsTrue("exit") /\ Retrigger /\ trig = "timeout")
      /\ row'.snap \in published'
      /\ trig = "submit" => row'.receipt = "submission"
  <2>1. CASE row' = row
    BY <1>1, <1>2, <2>1 DEF RowIsTrue
  <2>2. ASSUME NEW s \in Thread, RegisterInsert(s), row'.trig = sealer[s].trig,
               row'.receipt = sealer[s].receipt, row'.snap = sealer[s].snap
        PROVE  /\ TriggerIsTrue(trig) /\ row'.snap \in published'
               /\ trig = "submit" => row'.receipt = "submission"
    BY <1>1, <1>2, <2>2 DEF ThreadIsTrue, RegisterInsert, InThread, Entered
  <2>3. ASSUME NEW snap, snap \in published \/ (mgr.pc = "register" /\ snap = mgr.snap),
               row'.snap = snap, row'.trig = snap.trig, row'.receipt = CurrentReceipt
        PROVE  /\ TriggerIsTrue(trig) /\ row'.snap \in published'
               /\ trig = "submit" => row'.receipt = "submission"
    <3>1. snap \in published
      BY <2>3 DEF DiskIsTrue
    <3>. QED
      BY <1>1, <1>2, <2>3, <3>1, Fresh DEF DiskIsTrue, TriggerIsTrue
  <2>4. CASE /\ row.status = "sealed" /\ row'.snap = row.snap /\ row'.receipt = row.receipt
             /\ Retrigger /\ row'.trig = "timeout"
    BY <1>1, <1>2, <2>4 DEF RowIsTrue, TriggerIsTrue
  <2>. QED
    BY <2>1, <2>2, <2>3, <2>4, RowStep
<1>4. TriggerIsTrue(trig)'
  <2>1. CASE TriggerIsTrue(trig)
    BY <2>1, TrueStays
  <2>2. CASE Retrigger /\ trig = "timeout"
    BY <2>2, TriggersStay DEF Retrigger, TriggerIsTrue, OnTime
  <2>. QED
    BY <1>3, <2>1, <2>2
<1>. QED
  BY <1>2, <1>3, <1>4 DEF TriggerIsTrue

LEMMA SupervisorStep ==
    ASSUME IInv, [Next]_vars
    PROVE  SupervisorWaits'
<1> USE DEF IInv
<1>1. \/ sup' = sup /\ ~Retrigger /\ ~Verdict
      \/ sup' \in {"hook", "timeout", "dead"}
      \/ HookReturns \/ Result \/ TimeoutSealed \/ Retrigger \/ Verdict \/ Exit
  BY DEF Next, SealStep, SupStep, Recover, SealEnter, SealPause, CopyFirst, CopyLast, CopyFails,
     SealUnpause, SealManifest, SealPublish, SealRejected, RegisterCheck, RegisterInsert,
     SealSettle, SealFailed, SealAnomaly, WatchFires, WatchStops, AgentEnd, Timeout, Retrigger,
     Verdict, LookAtStaging, AdoptStaging, RegisterStaging, RemoveStaging, RemoveTears,
     RemoveEnds, MarkRejected, RecoverPublished, CheckContent, ReapRun, ReapContainer,
     ReapAnomaly, AgentWrite, SubmitAuthorized, SubmitAccepted, Overdue, Killed, Restart, vars
<1>2. row.status # "none" => row'.status # "none"
  BY AnswerStays
<1>3. CASE sup' = sup /\ ~Retrigger /\ ~Verdict
  BY <1>2, <1>3, AnswerStays DEF SupervisorWaits
<1>4. CASE sup' \in {"hook", "timeout", "dead"}
  BY <1>4 DEF SupervisorWaits
<1>5. CASE HookReturns
  BY <1>2, <1>5 DEF HookReturns, SupervisorWaits, ThreadIsTrue, Thread
<1>6. CASE Result
  BY <1>6 DEF Result, SupervisorWaits, RowIsTrue, TriggerIsTrue, OnTime, dbvars
<1>7. CASE TimeoutSealed
  BY <1>2, <1>7 DEF TimeoutSealed, SupervisorWaits, ThreadIsTrue, Thread
<1>8. CASE Retrigger
  BY <1>2, <1>8 DEF Retrigger, SupervisorWaits
<1>9. CASE Verdict
  BY <1>2, <1>9, RowStep DEF Verdict, SupervisorWaits, TypeOK
<1>10. CASE Exit
  BY <1>10 DEF Exit, SupervisorWaits, dbvars
<1>. QED
  BY <1>1, <1>3, <1>4, <1>5, <1>6, <1>7, <1>8, <1>9, <1>10

\* Until there is an answer a removal hurts a dead supervisor's staging only, or is told.
LEMMA LossStep ==
    ASSUME IInv, [Next]_vars
    PROVE  LossIsTold'
<1> USE DEF IInv
<1> SUFFICES ASSUME row'.status = "none"
             PROVE  /\ staging'.held \/ staging'.snap.lost # "none" => disturbed' \/ ~SupAlive'
                    /\ staging'.state = "manifest" /\ staging'.snap.lost = "silent" => disturbed'
                    /\ \A snap \in published' : snap.lost # "none" => disturbed'
  BY DEF LossIsTold
<1>1. row.status = "none"
  BY AnswerStays
<1>2. /\ staging.held \/ staging.snap.lost # "none" => disturbed \/ ~SupAlive
      /\ staging.state = "manifest" /\ staging.snap.lost = "silent" => disturbed
      /\ \A snap \in published : snap.lost # "none" => disturbed
  BY <1>1 DEF LossIsTold
<1>3. (disturbed => disturbed') /\ (SupAlive' => SupAlive)
  BY HistoryStays
<1>4. /\ staging'.held \/ staging'.snap.lost # "none" => disturbed' \/ ~SupAlive'
      /\ staging'.state = "manifest" /\ staging'.snap.lost = "silent" => disturbed'
  <2>1. CASE staging' = staging
    BY <1>2, <1>3, <2>1
  <2>2. CASE staging' = NoStaging
    BY <2>2, Fresh
  <2>3. CASE \E s \in Thread : CopyFirst(s)
    BY <2>3, CopyBegins
  <2>4. CASE \E s \in Thread : CopyLast(s)
    BY <1>2, <1>3, <2>4, CopyEnds
  <2>5. CASE \E s \in Thread : SealManifest(s)
    BY <1>2, <1>3, <2>5, ManifestWritten
  <2>6. CASE AgentWrite
    BY <1>2, <1>3, <2>6, WriteMixes
  <2>7. CASE RemoveTears
    BY <1>2, <1>3, <2>7, RemovalTears
  <2>8. CASE RemoveStaging
    <3>1. staging.state # "none" /\ SupAlive => disturbed'
      BY <1>1, <2>8 DEF RemoveStaging
    <3>. QED
      BY <1>2, <1>3, <2>8, <3>1, RemovalOpens, Fresh
  <2>9. CASE RemoveEnds \/ Restart
    <3>1. ~RemoveStaging
      BY <2>9 DEF RemoveEnds, Restart, RemoveStaging, TypeOK
    <3>. QED
      BY <1>2, <1>3, <2>9, <3>1, RemovalOpens, Fresh
  <2>. QED
    BY <2>1, <2>2, <2>3, <2>4, <2>5, <2>6, <2>7, <2>8, <2>9, StagingStep
<1>5. \A snap \in published' : snap.lost # "none" => disturbed'
  BY <1>2, <1>3, PublishedStep
<1>. QED
  BY <1>4, <1>5

\* So it does not reach an answer untold: what is registered was published by then.
LEMMA NothingLostStep ==
    ASSUME IInv, [Next]_vars
    PROVE  NothingLost'
<1> USE DEF IInv
<1> SUFFICES ASSUME row'.status = "sealed"
             PROVE  row'.snap.lost = "none" \/ disturbed'
  BY DEF NothingLost
<1>1. disturbed => disturbed'
  BY HistoryStays
<1>2. CASE row.status = "none"
  <2>1. row'.snap \in published
    <3>1. ASSUME NEW s \in Thread, RegisterInsert(s) PROVE sealer[s].snap \in published
      BY <3>1 DEF ThreadIsTrue, RegisterInsert, InThread
    <3>. QED
      BY <1>2, <3>1, RowStep DEF DiskIsTrue
  <2>. QED
    BY <1>1, <1>2, <2>1 DEF LossIsTold
<1>3. CASE row.status # "none"
  <2>1. row.status = "sealed" /\ row'.snap = row.snap
    BY <1>3, RowStep
  <2>. QED
    BY <1>1, <2>1 DEF NothingLost
<1>. QED
  BY <1>2, <1>3

LEMMA InitInductive == Init => IInv /\ CopiesAlone
<1> SUFFICES ASSUME Init PROVE IInv /\ CopiesAlone
  OBVIOUS
<1>1. \A s \in Thread : sealer[s] = NoThread
  BY DEF Init
<1>2. TypeOK
  <2>1. sealer \in [Thread -> Locals]
    BY Fresh DEF Init
  <2>2. row \in AnswerRow
    BY Fresh DEF Init, NoRow, AnswerRow, Trigger, Receipt
  <2>3. restarts \in 0..MaxRestarts
    BY SealingAssumption DEF Init
  <2>4. mgr \in Manager
    BY Fresh DEF Init, ManagerAt, Manager
  <2>. QED
    BY <2>1, <2>2, <2>3, <2>4, Fresh DEF Init, TypeOK, Locals, AnswerRow
<1>3. \A s \in Thread : ThreadIsTrue(s)
  BY <1>1, Fresh DEF ThreadIsTrue, TriggerIsTrue, Entered
<1>4. DiskIsTrue /\ RowIsTrue /\ SupervisorWaits
  BY Fresh DEF Init, DiskIsTrue, RowIsTrue, SupervisorWaits, TriggerIsTrue, ManagerAt
<1>5. LossIsTold /\ NothingLost
  BY Fresh DEF Init, LossIsTold, NothingLost
<1>6. CopiesAlone
  BY <1>1, Fresh DEF Init, CopiesAlone, Thread
<1>. QED
  BY <1>2, <1>3, <1>4, <1>5, <1>6 DEF IInv

-----------------------------------------------------------------------------
(* One thread copies.                                                      *)

\* A container that was removed does not come back, and one that cannot write writes again
\* only when a thread unpauses it.
LEMMA ContainerStep ==
    ASSUME TypeOK, [Next]_vars
    PROVE  /\ container = "gone" => container' = "gone"
           /\ container # "running" /\ container' = "running" => \E s \in Thread : SealUnpause(s)
BY DEF Next, SealStep, SupStep, Recover, SealEnter, SealPause, CopyFirst, CopyLast, CopyFails,
   SealUnpause, SealManifest, SealPublish, SealRejected, RegisterCheck, RegisterInsert,
   SealSettle, SealFailed, SealAnomaly, WatchFires, WatchStops, AgentEnd, HookReturns, Result,
   Timeout, TimeoutSealed, Retrigger, Verdict, Exit, LookAtStaging, AdoptStaging, RegisterStaging,
   RemoveStaging, RemoveTears, RemoveEnds, MarkRejected, RecoverPublished, CheckContent, ReapRun,
   ReapContainer, ReapAnomaly, AgentWrite, SubmitAuthorized, SubmitAccepted, Overdue, Killed,
   Restart, vars

\* The copying thread steps from its pause to the end of its copy.
LEMMA CopyingStep ==
    ASSUME TypeOK, NEW s \in Thread, SealStep(s)
    PROVE  /\ sealer[s].pc # "idle"
           /\ sealer'[s].pc \in {"copy", "half", "unpause"} =>
                 \/ sealer[s].pc \in {"copy", "half", "unpause"} /\ UNCHANGED container
                 \/ container' # "running"
           /\ sealer'[s].pc = "half" => CopyFirst(s)
           /\ SealUnpause(s) => sealer'[s].pc \notin {"copy", "half", "unpause"}
<1> USE DEF TypeOK, Locals, InThread
<1>0. "done" \in ThreadPc /\ "error" \in ThreadPc /\ "settle" \in ThreadPc
  BY DEF ThreadPc
<1>1. CASE SealEnter(s)
  BY <1>1, ReturnsDone, Receives, Fresh DEF SealEnter
<1>2. CASE SealPause(s)
  BY <1>2, Goes, Freezes DEF SealPause, SealUnpause, ThreadPc
<1>3. CASE CopyFirst(s)
  <2>1. /\ sealer[s].pc = "copy" /\ sealer'[s].pc = "half" /\ UNCHANGED container
        /\ ~SealUnpause(s)
    BY <1>3, Goes DEF CopyFirst, SealUnpause, ThreadPc
  <2>. QED
    BY <1>3, <2>1
<1>4. CASE CopyLast(s)
  BY <1>4, Goes DEF CopyLast, SealUnpause, ThreadPc
<1>5. CASE CopyFails(s)
  BY <1>5, Goes DEF CopyFails, ThreadPc
<1>6. CASE SealUnpause(s)
  BY <1>0, <1>6, Goes, EndsIn DEF SealUnpause, ThreadPc
<1>7. CASE SealManifest(s)
  BY <1>7, Goes DEF SealManifest, ThreadPc
<1>8. CASE SealPublish(s)
  <2>1. sealer[s].pc = "publish" /\ sealer'[s].pc = "check"
    BY <1>8, PublishHolds, Publishes DEF SealPublish
  <2>. QED
    BY <2>1
<1>9. CASE SealRejected(s)
  BY <1>0, <1>9, EndsIn DEF SealRejected
<1>10. CASE RegisterCheck(s)
  BY <1>0, <1>10, Goes, EndsIn DEF RegisterCheck, ThreadPc
<1>11. CASE RegisterInsert(s)
  BY <1>0, <1>11, EndsIn DEF RegisterInsert
<1>12. CASE SealSettle(s)
  BY <1>12, ReturnsDone DEF SealSettle
<1>13. CASE SealFailed(s)
  BY <1>13, Goes DEF SealFailed, ThreadPc
<1>14. CASE SealAnomaly(s)
  BY <1>14, ReturnsDone DEF SealAnomaly
<1>. QED
  BY <1>1, <1>2, <1>3, <1>4, <1>5, <1>6, <1>7, <1>8, <1>9, <1>10, <1>11, <1>12, <1>13, <1>14 DEF
     SealStep

LEMMA CopiesAloneStep ==
    ASSUME ~KeepsContainer, IInv, CopiesAlone, [Next]_vars
    PROVE  CopiesAlone'
<1> USE DEF IInv, CopiesAlone
<1>0. "hook" \in Thread /\ "timeout" \in Thread /\ TypeOK
  BY DEF Thread
<1>1. sealer'["timeout"].pc # "idle" => container' = "gone"
  <2>1. CASE sealer'["timeout"] = sealer["timeout"]
    BY <2>1, ContainerStep
  <2>2. CASE SealStep("timeout")
    BY <1>0, <2>2, CopyingStep, ContainerStep
  <2>3. CASE AgentEnd
    BY <1>0, <2>1, <2>3, Begins DEF AgentEnd, Trigger
  <2>4. CASE Timeout
    BY <2>4 DEF Timeout
  <2>5. CASE sealer'["timeout"] = NoThread
    BY <2>5, Fresh
  <2>. QED
    BY <1>0, <2>1, <2>2, <2>3, <2>4, <2>5, SealerStep, ThreadStep
<1>2. ASSUME SealUnpause("timeout") PROVE container' = "gone"
  BY <1>0, <1>2, CopyingStep, ContainerStep DEF SealStep
<1>3. \/ sealer'["hook"] = sealer["hook"] \/ SealStep("hook")
      \/ sealer'["hook"].pc \in {"start", "idle"}
  <2>1. CASE AgentEnd
    BY <1>0, <2>1, Begins DEF AgentEnd, Trigger
  <2>2. CASE Timeout
    BY <1>0, <2>2, Begins DEF Timeout, Trigger
  <2>. QED
    BY <1>0, <2>1, <2>2, SealerStep, ThreadStep, Fresh
<1>4. sealer'["hook"].pc \in {"copy", "half", "unpause"} => container' # "running"
  <2>1. CASE sealer'["hook"] = sealer["hook"]
    <3>1. ASSUME SealUnpause("hook"), sealer["hook"].pc \in {"copy", "half", "unpause"}
          PROVE  FALSE
      BY <1>0, <2>1, <3>1, CopyingStep DEF SealStep
    <3>. QED
      BY <1>0, <1>2, <2>1, <3>1, ContainerStep DEF Thread
  <2>2. CASE SealStep("hook")
    BY <1>0, <2>2, CopyingStep
  <2>. QED
    BY <1>3, <2>1, <2>2
<1>5. \A s \in Thread : CopyFirst(s) \/ CopyLast(s) => s = "hook"
  BY CopyingStep DEF CopyFirst, CopyLast, SealStep, Thread
<1>6. ASSUME sealer'["hook"].pc = "half", staging'.state = "partial"
      PROVE  ~staging'.snap.mixed
  <2>1. CASE CopyFirst("hook")
    BY <1>0, <2>1, CopyBegins
  <2>2. CASE sealer'["hook"] = sealer["hook"]
    <3>1. ~AgentWrite /\ \A s \in Thread : ~CopyFirst(s)
      BY <1>0, <1>5, <1>6, <2>2 DEF AgentWrite, CopyFirst, InThread
    <3>2. staging'.snap.mixed = staging.snap.mixed /\ staging.state = "partial"
      BY <1>0, <1>6, <3>1, StagingStep, CopyEnds, ManifestWritten, RemovalTears, RemovalOpens,
         Fresh
    <3>. QED
      BY <1>6, <2>2, <3>2
  <2>. QED
    BY <1>0, <1>3, <1>6, <2>1, <2>2, CopyingStep
<1>7. ASSUME NEW s \in Thread, CopyLast(s) PROVE ~staging.snap.mixed
  BY <1>5, <1>7 DEF CopyLast, InThread
<1>8. staging'.state \in {"full", "manifest"} => ~staging'.snap.mixed
  BY <1>0, <1>7, StagingStep, CopyBegins, CopyEnds, ManifestWritten, WriteMixes, RemovalTears,
     RemovalOpens, Fresh
<1>9. \A snap \in published' : ~snap.mixed
  BY PublishedStep
<1>. QED
  BY <1>1, <1>4, <1>6, <1>8, <1>9

-----------------------------------------------------------------------------
(* The theorems.                                                           *)

\* Types, and what the answer row, the disk, the threads and the manager say of the run.
THEOREM Inductive == Spec => []IInv
<1>1. Init => IInv
  BY InitInductive
<1>2. IInv /\ [Next]_vars => IInv'
  BY TypeStep, ThreadsStep, DiskStep, RowTrueStep, SupervisorStep, LossStep, NothingLostStep
     DEF IInv
<1>. QED
  BY <1>1, <1>2, PTL DEF Spec

\* The answer names published content under its submission's receipt, and no path of it was
\* deleted unless a recovery met a live seal; where a cancelled run takes its container
\* along it is also of one moment, because the thread of the timeout finds no container to
\* copy from or to unpause.
THEOREM AnswerTrue == ASSUME ~KeepsContainer PROVE Spec => []AnswerIsTrue
<1>1. Init => CopiesAlone
  BY InitInductive
<1>2. IInv /\ CopiesAlone /\ [Next]_vars => CopiesAlone'
  BY CopiesAloneStep
<1>3. IInv /\ CopiesAlone => AnswerIsTrue
  BY DEF IInv, CopiesAlone, RowIsTrue, AnswerIsTrue, SealedIsPublished, SnapshotIsAtomic,
         OneMoment, SubmitKeepsReceipt
<1>. QED
  BY <1>1, <1>2, <1>3, Inductive, PTL DEF Spec

\* Whether or not the container is kept: a timeout answer of a supervisor that ran to its end
\* passed the tolerance check, whoever froze and registered it.
THEOREM TimeoutTimely == Spec => []TimeoutWithinTolerance
<1>1. IInv => TimeoutWithinTolerance
  BY DEF IInv, SupervisorWaits, TimeoutWithinTolerance
<1>. QED
  BY <1>1, Inductive, PTL

\* No seal, recovery or reaper that comes later changes the content or the receipt of an
\* answer row: register, mark_anomaly and the first two passes of recover stop at an existing
\* one, and the third one changes its status alone.
THEOREM AnswerOnce == Spec => AnswerIsOnce
<1>1. TypeOK /\ [Next]_vars =>
        [row.status # "none" => row'.snap = row.snap /\ row'.receipt = row.receipt]_vars
  BY AnswerStays
<1>2. IInv => TypeOK
  BY DEF IInv
<1>. QED
  BY <1>1, <1>2, Inductive, PTL DEF Spec, AnswerIsOnce
=============================================================================
