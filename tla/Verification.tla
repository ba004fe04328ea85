---------------------------- MODULE Verification ----------------------------
(***************************************************************************)
(* Scoring one trial's answer: the verification rows clients and the seal  *)
(* transaction queue, the attempts and verifier containers of the manager  *)
(* that works them off, and what the results page counts.  Containers of a *)
(* dead manager live on; the answer may be disqualified at any time, by a  *)
(* supervisor that is still deciding or by a restart that misses content.  *)
(***************************************************************************)
EXTENDS Naturals, Sequences, FiniteSets

CONSTANTS
    Caller,         \* requests to the management API, possibly in several workers
    Key,            \* idempotency keys of manual requests
    Scorer,         \* registered scorer versions
    DefaultScorer,  \* the one the task version declares
    MaxRestarts     \* manager crashes

Initial == "initial"    \* the reserved key of the automatic first score

ASSUME VerificationAssumption ==
    /\ DefaultScorer \in Scorer
    /\ Key # {} /\ Initial \notin Key
    /\ MaxRestarts \in Nat

VARIABLES
    sup,        \* the supervisor, from its seal to its exit
    answer,     \* sealed_answers.status
    trial,      \* trials.status
    rows,       \* verifications in rowid order, each with its attempts
    container,  \* verifier containers ever started, by <<row, attempt>>
    caller,     \* requests under way and their replies
    mgr,        \* the manager: its step, the row at hand, the outcome it holds
    restarts

vars == <<sup, answer, trial, rows, container, caller, mgr, restarts>>
supervisor == <<sup, answer, trial>>
manager == <<mgr, restarts>>

Verdict == {"pass", "fail"}
Outcome == Verdict \cup {"error"}
Attempt == [status: {"running", "succeeded", "error"}, verdict: Outcome \cup {"none"}]
Row == [key: Key \cup {Initial}, scorer: Scorer,
        status: {"queued", "running", "succeeded", "error"},
        verdict: Outcome \cup {"none"}, attempts: Seq(Attempt)]
Reply == {"none", "accepted", "replayed", "conflict", "refused"}
Request == [pc: {"idle", "insert", "done"}, key: Key, scorer: Scorer, reply: Reply]

TypeOK ==
    /\ sup \in {"agent", "verdict", "finish", "exited"}
    /\ answer \in {"none", "sealed", "anomaly"}
    /\ trial \in {"running", "sealed", "anomaly", "cancelled"}
    /\ rows \in Seq(Row)
    /\ DOMAIN container \subseteq (Nat \X Nat)
    /\ \A c \in DOMAIN container : container[c] \in {"running"} \cup Outcome
    /\ caller \in [Caller -> Request]
    /\ mgr \in [pc: {"down", "recover", "reconcile", "queue", "requeue", "loop", "check",
                     "wait", "record"}, row: Nat, outcome: Outcome]
    /\ restarts \in 0..MaxRestarts

NoRequest == [pc |-> "idle", key |-> CHOOSE k \in Key : TRUE,
              scorer |-> DefaultScorer, reply |-> "none"]
Idle(pc) == [pc |-> pc, row |-> 0, outcome |-> "error"]

Init ==
    /\ sup = "agent"
    /\ answer = "none"
    /\ trial = "running"
    /\ rows = <<>>
    /\ container = [c \in {} |-> "running"]
    /\ caller = [c \in Caller |-> NoRequest]
    /\ mgr = Idle("down")
    /\ restarts = 0

-----------------------------------------------------------------------------
(* Queueing.                                                               *)

Rows == DOMAIN rows
WithKey(key) == {i \in Rows : rows[i].key = key}
Queued(key, scorer) ==
    [key |-> key, scorer |-> scorer, status |-> "queued", verdict |-> "none", attempts |-> <<>>]

\* enqueue_default_verification: part of the caller's transaction, at most one row.
EnqueueDefault(status) ==
    rows' = IF status = "sealed" /\ answer = "sealed" /\ WithKey(Initial) = {}
            THEN Append(rows, Queued(Initial, DefaultScorer)) ELSE rows

\* Mutant: the terminal state is committed first, the request left to a later one.
FinishUnqueued(outcome) ==
    /\ trial' = IF trial = "running" THEN outcome ELSE trial
    /\ UNCHANGED rows

\* finish_trial: the terminal state and the first scoring request are one commit.
Finish(outcome) ==
    /\ trial' = IF trial = "running" THEN outcome ELSE trial
    /\ IF trial = "running" THEN EnqueueDefault(outcome) ELSE UNCHANGED rows

\* create_verification up to the insert; a row that exists answers the request.
\* Replies are given from what the row's request digest says.
ReplyFor(key, scorer) ==
    IF \E i \in WithKey(key) : rows[i].scorer = scorer THEN "replayed" ELSE "conflict"
Answered(c, reply) == caller' = [caller EXCEPT ![c].pc = "done", ![c].reply = reply]

RequestCheck(c) ==
    /\ caller[c].pc = "idle"
    /\ \E key \in Key, scorer \in Scorer :
          LET asked == [pc |-> "insert", key |-> key, scorer |-> scorer, reply |-> "none"] IN
          caller' = [caller EXCEPT ![c] =
              IF answer # "sealed" THEN [asked EXCEPT !.pc = "done", !.reply = "refused"]
              ELSE IF WithKey(key) # {}
                   THEN [asked EXCEPT !.pc = "done", !.reply = ReplyFor(key, scorer)]
                   ELSE asked]
    /\ UNCHANGED <<supervisor, rows, container, manager>>

\* Mutant: no UNIQUE constraint.
RequestInsertTwice(c) ==
    /\ caller[c].pc = "insert"
    /\ rows' = Append(rows, Queued(caller[c].key, caller[c].scorer))
    /\ Answered(c, "accepted")
    /\ UNCHANGED <<supervisor, container, manager>>

\* The insert, or the IntegrityError of the worker that lost the race on the key.
RequestInsert(c) ==
    /\ caller[c].pc = "insert"
    /\ IF WithKey(caller[c].key) = {}
       THEN /\ rows' = Append(rows, Queued(caller[c].key, caller[c].scorer))
            /\ Answered(c, "accepted")
       ELSE /\ Answered(c, ReplyFor(caller[c].key, caller[c].scorer))
            /\ UNCHANGED rows
    /\ UNCHANGED <<supervisor, container, manager>>

-----------------------------------------------------------------------------
(* The supervisor, as far as scoring depends on it.                        *)

SealAnswer ==
    /\ sup = "agent"
    /\ answer = "none"
    /\ answer' \in {"sealed", "anomaly"}
    /\ sup' \in {"verdict", "finish"}
    /\ UNCHANGED <<trial, rows, container, caller, manager>>

\* record_timeout_verdict: an answer frozen too late is disqualified.
TimeoutVerdict ==
    /\ sup = "verdict"
    /\ sup' = "finish"
    /\ \/ UNCHANGED answer
       \/ answer = "sealed" /\ answer' = "anomaly"
    /\ UNCHANGED <<trial, rows, container, caller, manager>>

FinishFromAnswer ==
    /\ sup = "finish"
    /\ sup' = "exited"
    /\ Finish(answer)
    /\ UNCHANGED <<answer, container, caller, manager>>

-----------------------------------------------------------------------------
(* The manager.                                                            *)

Goto(pc) == mgr' = [mgr EXCEPT !.pc = pc]
Over(status) == status \in {"succeeded", "error"}
AttemptsOf(i) == Len(rows[i].attempts)

ManagerStart ==
    /\ mgr.pc = "down"
    /\ Goto("recover")
    /\ UNCHANGED <<supervisor, rows, container, caller, restarts>>

\* artifacts.recover, last pass: registered content that is missing from disk or
\* contradicts its manifest turns the answer into an anomaly.
RecoverContent ==
    /\ mgr.pc = "recover"
    /\ Goto("reconcile")
    /\ \/ UNCHANGED answer
       \/ answer = "sealed" /\ answer' = "anomaly"
    /\ UNCHANGED <<sup, trial, rows, container, caller, restarts>>

\* reconcile_terminal_trials: an answer row finishes its trial.
ReconcileTrial ==
    /\ mgr.pc = "reconcile"
    /\ Goto("queue")
    /\ IF answer = "none" THEN UNCHANGED <<trial, rows>> ELSE Finish(answer)
    /\ UNCHANGED <<sup, answer, container, caller, restarts>>

ReconcileDefault ==
    /\ mgr.pc = "queue"
    /\ Goto("requeue")
    /\ EnqueueDefault(trial)
    /\ UNCHANGED <<supervisor, container, caller, restarts>>

Interrupted(a) == IF a.status = "running" THEN [status |-> "error", verdict |-> "error"] ELSE a

\* Mutant: nothing is requeued.
RequeueNothing ==
    /\ mgr.pc = "requeue"
    /\ Goto("loop")
    /\ UNCHANGED <<supervisor, rows, container, caller, restarts>>

\* requeue_stuck_running: one commit ends the attempts and resets the rows.
RequeueStuck ==
    /\ mgr.pc = "requeue"
    /\ Goto("loop")
    /\ rows' = [i \in Rows |->
                  [rows[i] EXCEPT !.status = IF @ = "running" THEN "queued" ELSE @,
                                  !.attempts = [n \in DOMAIN @ |-> Interrupted(@[n])]]]
    /\ UNCHANGED <<supervisor, container, caller, restarts>>

\* Mutant: the queue is worked off from its other end.
ClaimNewest(i) ==
    /\ mgr.pc = "loop"
    /\ rows[i].status = "queued"
    /\ \A j \in Rows : rows[j].status = "queued" => j <= i
    /\ rows' = [rows EXCEPT ![i].status = "running",
                            ![i].attempts = Append(@, [status |-> "running", verdict |-> "none"])]
    /\ mgr' = [mgr EXCEPT !.pc = "check", !.row = i]
    /\ UNCHANGED <<supervisor, container, caller, restarts>>

\* claim_next_queued: the oldest queued row, with a new attempt.
Claim(i) ==
    /\ mgr.pc = "loop"
    /\ rows[i].status = "queued"
    /\ \A j \in Rows : rows[j].status = "queued" => i <= j
    /\ rows' = [rows EXCEPT ![i].status = "running",
                            ![i].attempts = Append(@, [status |-> "running", verdict |-> "none"])]
    /\ mgr' = [mgr EXCEPT !.pc = "check", !.row = i]
    /\ UNCHANGED <<supervisor, container, caller, restarts>>

\* _execute before docker run: the answer, its content, the scorer and its bundle
\* are read again, and any of them may fail the attempt.
Refuse ==
    /\ mgr.pc = "check"
    /\ mgr' = [mgr EXCEPT !.pc = "record", !.outcome = "error"]
    /\ UNCHANGED <<supervisor, rows, container, caller, restarts>>

AtHand == <<mgr.row, AttemptsOf(mgr.row)>>

StartContainer ==
    /\ mgr.pc = "check"
    /\ answer = "sealed"
    /\ container' = [c \in DOMAIN container \cup {AtHand} |->
                       IF c = AtHand THEN "running" ELSE container[c]]
    /\ Goto("wait")
    /\ UNCHANGED <<supervisor, rows, caller, restarts>>

\* A verifier exits, with a parseable result or with an error of its own.
ContainerExits(c) ==
    /\ container[c] = "running"
    /\ \E outcome \in Outcome : container' = [container EXCEPT ![c] = outcome]
    /\ UNCHANGED <<supervisor, rows, caller, manager>>

\* Mutant: one output directory per verification, whoever wrote the result last.
OutputOfRow ==
    {container[c] : c \in {d \in DOMAIN container : d[1] = mgr.row}} \cap Outcome

\* result.json is read from the attempt's own directory.
Output == {container[AtHand]} \cap Outcome

Collect ==
    /\ mgr.pc = "wait"
    /\ \E outcome \in Output : mgr' = [mgr EXCEPT !.pc = "record", !.outcome = outcome]
    /\ UNCHANGED <<supervisor, rows, container, caller, restarts>>

\* VERIFIER_TIMEOUT_SEC: docker rm -f, and an error.
VerifierTimeout ==
    /\ mgr.pc = "wait"
    /\ container[AtHand] = "running"
    /\ container' = [container EXCEPT ![AtHand] = "error"]
    /\ mgr' = [mgr EXCEPT !.pc = "record", !.outcome = "error"]
    /\ UNCHANGED <<supervisor, rows, caller, restarts>>

Status(outcome) == IF outcome \in Verdict THEN "succeeded" ELSE "error"
Ended == [status |-> Status(mgr.outcome), verdict |-> mgr.outcome]

\* Mutant: the UPDATE of the attempts forgets their status.
RecordAllAttempts ==
    /\ mgr.pc = "record"
    /\ rows' = [rows EXCEPT ![mgr.row].status = Ended.status,
                            ![mgr.row].verdict = Ended.verdict,
                            ![mgr.row].attempts = [n \in DOMAIN @ |-> Ended]]
    /\ mgr' = Idle("loop")
    /\ UNCHANGED <<supervisor, container, caller, restarts>>

\* _record: the row and its running attempt, in one commit.
Record ==
    /\ mgr.pc = "record"
    /\ rows' = [rows EXCEPT ![mgr.row].status = Ended.status,
                            ![mgr.row].verdict = Ended.verdict,
                            ![mgr.row].attempts =
                               [n \in DOMAIN @ |-> IF @[n].status = "running" THEN Ended ELSE @[n]]]
    /\ mgr' = Idle("loop")
    /\ UNCHANGED <<supervisor, container, caller, restarts>>

ManagerCrash ==
    /\ mgr.pc # "down"
    /\ restarts < MaxRestarts
    /\ restarts' = restarts + 1
    /\ mgr' = Idle("down")
    /\ UNCHANGED <<supervisor, rows, container, caller>>

-----------------------------------------------------------------------------
MgrStep ==
    \/ ManagerStart \/ RecoverContent \/ ReconcileTrial \/ ReconcileDefault \/ RequeueStuck
    \/ \E i \in Rows : Claim(i)
    \/ Refuse \/ StartContainer \/ Collect \/ VerifierTimeout \/ Record

SupStep == SealAnswer \/ TimeoutVerdict \/ FinishFromAnswer

Next ==
    \/ MgrStep \/ SupStep \/ ManagerCrash
    \/ \E c \in Caller : RequestCheck(c) \/ RequestInsert(c)
    \/ \E c \in DOMAIN container : ContainerExits(c)

Spec == Init /\ [][Next]_vars

\* The operator restarts a dead manager, and every wait in its loop is bounded.
FairSpec == Spec /\ WF_vars(MgrStep)

-----------------------------------------------------------------------------
(* What the results page makes of the rows (results._verdicts, _classify). *)

OfScorer(s) == {i \in Rows : rows[i].scorer = s}
Latest(s) == CHOOSE i \in OfScorer(s) : \A j \in OfScorer(s) : j <= i
Verdicts(s) == {rows[i].verdict : i \in {j \in OfScorer(s) : rows[j].status = "succeeded"}}
Unstable(s) == Cardinality(Verdicts(s)) > 1

Bucket(s) ==
    CASE Unstable(s) -> "unstable"
      [] ~Unstable(s) /\ OfScorer(s) # {} /\ Over(rows[Latest(s)].status) ->
            IF rows[Latest(s)].status = "succeeded" THEN "valid" ELSE "score_error"
      [] OTHER -> IF answer = "anomaly" THEN "anomaly"
                  ELSE IF trial = "cancelled" THEN "cancelled" ELSE "pending"

-----------------------------------------------------------------------------
(* Properties.                                                             *)

\* No crash falls between an official outcome and its first scoring request: a
\* sealed trial with a sealed answer always has its initial verification.
InitialIsQueued == trial = "sealed" /\ answer = "sealed" => WithKey(Initial) # {}

\* The history matches the queue through crashes and requeues: a running row has
\* exactly its last attempt running, any other row none, and a finished row says
\* what its last attempt says.
HistoryMatches ==
    \A i \in Rows : LET a == rows[i].attempts IN
        /\ \A n \in DOMAIN a : a[n].status = "running" <=> rows[i].status = "running" /\ n = Len(a)
        /\ rows[i].status = "running" => a # <<>>
        /\ Over(rows[i].status) =>
              a[Len(a)] = [status |-> rows[i].status, verdict |-> rows[i].verdict]

\* A verdict comes from the container of the attempt that is recorded with it, not
\* from one a crashed manager left running for the same verification.
VerdictIsOwn ==
    \A i \in Rows : rows[i].status = "succeeded" =>
        container[<<i, AttemptsOf(i)>>] = rows[i].verdict

\* The history is what happened: each row in its type, with its attempts, and with the
\* verdict of its own container.
RowsAreTrue == TypeOK /\ HistoryMatches /\ VerdictIsOwn

\* Idempotent requests: under a key one request is accepted, and whoever was told
\* "accepted" or "replayed" asked for the scorer the row is for.
RequestsAreIdempotent ==
    \A c \in Caller : caller[c].reply \in {"accepted", "replayed"} =>
        /\ \E i \in WithKey(caller[c].key) : rows[i].scorer = caller[c].scorer
        /\ \A d \in Caller \ {c} : caller[d].reply = "accepted" /\ caller[c].reply = "accepted" =>
              caller[d].key # caller[c].key

\* Records are append-only: a finished verification and a finished attempt keep
\* their outcome, whatever is requeued or rescored later.
RecordsAreFinal ==
    [][\A i \in Rows :
          /\ Over(rows[i].status) => rows'[i].status = rows[i].status
                                     /\ rows'[i].verdict = rows[i].verdict
          /\ \A n \in DOMAIN rows[i].attempts :
                Over(rows[i].attempts[n].status) => rows'[i].attempts[n] = rows[i].attempts[n]]_vars

\* Scoring implements the ledger: whatever the workers, the manager's crashes and its
\* requeues do, rows are of different keys and get their outcomes in the order of their
\* insertion, each once.  A row is open until it is over, requeues included.
Outcomes ==
    [i \in Rows |-> [key |-> rows[i].key, scorer |-> rows[i].scorer,
                     outcome |-> IF Over(rows[i].status) THEN rows[i].verdict ELSE "open"]]
Ledger == INSTANCE ScoringLedger WITH Key <- Key \cup {Initial}, ledger <- Outcomes
ImplementsLedger == Ledger!Spec

\* Every accepted request is scored in the end, also when the manager dies while
\* its verifier runs.
RequestsAreScored ==
    \A key \in Key \cup {Initial} :
        WithKey(key) # {} ~> \E i \in WithKey(key) : Over(rows[i].status)

-----------------------------------------------------------------------------
(* Statements of the documentation that the code does not keep.            *)

\* Anomalies are "counted separately": no disqualified answer is a valid sample.
DisqualifiedIsNoSample == answer = "anomaly" => \A s \in Scorer : Bucket(s) # "valid"

\* "one row per actual verifier container start"
AttemptIsContainer ==
    \A i \in Rows : \A n \in DOMAIN rows[i].attempts :
        Over(rows[i].attempts[n].status) => <<i, n>> \in DOMAIN container

=============================================================================
