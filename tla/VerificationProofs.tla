-------------------------- MODULE VerificationProofs --------------------------
(***************************************************************************)
(* Proofs about Verification, for any number of requests, keys, scorers    *)
(* and manager restarts: the rows of the queue match their attempts and    *)
(* the containers these started, a finished record never changes, requests *)
(* under one key are one verification, and a sealed trial has its first.   *)
(***************************************************************************)
EXTENDS Verification, SequenceTheorems, TLAPS

-----------------------------------------------------------------------------
(* The inductive invariant.                                                *)

\* A row's attempts tell its status: the last one is running while it is, the last one says
\* what it says when it is over, and no other one is running.
Told(r) ==
    /\ \A n \in DOMAIN r.attempts :
          r.attempts[n].status = "running" <=> r.status = "running" /\ n = Len(r.attempts)
    /\ r.status = "running" => r.attempts # <<>>
    /\ Over(r.status) =>
          /\ r.attempts # <<>>
          /\ r.attempts[Len(r.attempts)] = [status |-> r.status, verdict |-> r.verdict]

\* The verdict of a scored row is that of its last attempt's container.
OwnVerdict(i) ==
    rows[i].status = "succeeded" =>
        /\ <<i, AttemptsOf(i)>> \in DOMAIN container
        /\ rows[i].verdict \in Verdict
        /\ container[<<i, AttemptsOf(i)>>] = rows[i].verdict

\* The manager works on a running row, waits for the container of its last attempt, and
\* holds a verdict only of that one.
HoldsItsRow ==
    /\ mgr.pc \in {"check", "wait", "record"} =>
          mgr.row \in Rows /\ rows[mgr.row].status = "running"
    /\ mgr.pc = "wait" => AtHand \in DOMAIN container
    /\ mgr.pc = "record" /\ mgr.outcome \in Verdict =>
          AtHand \in DOMAIN container /\ container[AtHand] = mgr.outcome

\* A supervisor past its seal has an answer; a sealed trial has its first verification.
AnswerFirst ==
    /\ sup # "agent" => answer # "none"
    /\ trial = "sealed" => WithKey(Initial) # {}

IInv ==
    /\ TypeOK
    /\ container \in [DOMAIN container -> {"running"} \cup Outcome]
    /\ \A i \in Rows : Told(rows[i]) /\ OwnVerdict(i)
    /\ HoldsItsRow
    /\ AnswerFirst
    /\ RequestsAreIdempotent

-----------------------------------------------------------------------------
(* Rows, as the manager's commits change them.                             *)

LEMMA FunctionIsSeq ==
    ASSUME NEW S, NEW k \in Nat, NEW f \in [1..k -> S]
    PROVE  f \in Seq(S) /\ Len(f) = k /\ DOMAIN f = 1..k
BY SeqDef, LenProperties

\* A finished attempt of row r is unchanged in row q.
KeepsAttempts(r, q) ==
    \A n \in DOMAIN r.attempts :
        /\ n \in DOMAIN q.attempts
        /\ Over(r.attempts[n].status) => q.attempts[n] = r.attempts[n]

\* Row q asks what row r asks, with r's finished history.
Continues(r, q) == q.key = r.key /\ q.scorer = r.scorer /\ KeepsAttempts(r, q)

NewAttempt == [status |-> "running", verdict |-> "none"]

\* A claim adds an attempt.
LEMMA Claimed ==
    ASSUME NEW r \in Row, Told(r), r.status = "queued",
           NEW q, q = [r EXCEPT !.status = "running", !.attempts = Append(r.attempts, NewAttempt)]
    PROVE  /\ q \in Row /\ Told(q) /\ Continues(r, q)
           /\ q.status = "running" /\ Len(q.attempts) = Len(r.attempts) + 1
<1>1. NewAttempt \in Attempt /\ NewAttempt.status = "running"
  BY DEF NewAttempt, Attempt
<1>2. r.attempts \in Seq(Attempt) /\ r.key \in Key \cup {Initial} /\ r.scorer \in Scorer
  BY DEF Row
<1>3. PICK a \in Seq(Attempt) : a = Append(r.attempts, NewAttempt)
  BY <1>1, <1>2, AppendProperties
<1>4. /\ a # <<>> /\ Len(a) = Len(r.attempts) + 1 /\ a[Len(a)].status = "running"
      /\ \A n \in 1..Len(r.attempts) : a[n] = r.attempts[n]
      /\ DOMAIN a = 1..Len(a) /\ DOMAIN r.attempts = 1..Len(r.attempts) /\ Len(r.attempts) \in Nat
  BY <1>1, <1>2, <1>3, AppendProperties, LenProperties
<1>5. /\ q \in Row /\ q.status = "running" /\ q.attempts = a
      /\ q.key = r.key /\ q.scorer = r.scorer
  BY <1>3 DEF Row
<1>6. Told(q)
  <2>1. \A n \in DOMAIN a : a[n].status = "running" <=> n = Len(a)
    BY <1>4 DEF Told
  <2>. QED
    BY <1>4, <1>5, <2>1 DEF Told, Over
<1>7. KeepsAttempts(r, q)
  BY <1>4, <1>5 DEF KeepsAttempts
<1>. QED
  BY <1>4, <1>5, <1>6, <1>7 DEF Continues

\* A requeue ends the attempt that was running, and with it nothing else.
LEMMA Requeued ==
    ASSUME NEW r \in Row, Told(r), NEW q,
           q = [r EXCEPT !.status = IF r.status = "running" THEN "queued" ELSE r.status,
                         !.attempts = [n \in DOMAIN r.attempts |-> Interrupted(r.attempts[n])]]
    PROVE  /\ q \in Row /\ Told(q) /\ Continues(r, q)
           /\ q.status \in {r.status, "queued"} /\ q.verdict = r.verdict /\ q.status # "running"
           /\ r.status # "running" => q.status = r.status
           /\ Len(q.attempts) = Len(r.attempts)
<1>1. /\ r.attempts \in Seq(Attempt) /\ Len(r.attempts) \in Nat
      /\ DOMAIN r.attempts = 1..Len(r.attempts)
  BY LenProperties DEF Row
<1>2. \A n \in 1..Len(r.attempts) : r.attempts[n] \in Attempt
  BY <1>1, ElementOfSeq
<1>3. \A x \in Attempt : /\ Interrupted(x) \in Attempt /\ Interrupted(x).status # "running"
                         /\ x.status # "running" => Interrupted(x) = x
  BY DEF Interrupted, Attempt, Outcome
<1>4. PICK a \in [1..Len(r.attempts) -> Attempt] :
         /\ a = [n \in DOMAIN r.attempts |-> Interrupted(r.attempts[n])]
         /\ \A n \in 1..Len(r.attempts) : a[n] = Interrupted(r.attempts[n])
  <2> DEFINE end(n) == Interrupted(r.attempts[n])
  <2>1. \A n \in 1..Len(r.attempts) : end(n) \in Attempt
    BY <1>2, <1>3
  <2>. HIDE DEF end
  <2>2. [n \in DOMAIN r.attempts |-> end(n)] \in [1..Len(r.attempts) -> Attempt]
    BY <1>1, <2>1
  <2>3. \A n \in 1..Len(r.attempts) : [m \in DOMAIN r.attempts |-> end(m)][n] = end(n)
    BY <1>1
  <2>. QED
    BY <2>2, <2>3 DEF end
<1>5. a \in Seq(Attempt) /\ Len(a) = Len(r.attempts) /\ DOMAIN a = 1..Len(r.attempts)
  BY <1>1, FunctionIsSeq
<1>6. PICK st \in {"queued", "succeeded", "error"} :
         st = IF r.status = "running" THEN "queued" ELSE r.status
  BY DEF Row
<1>7. /\ q \in Row /\ q.status = st /\ q.attempts = a
      /\ q.key = r.key /\ q.scorer = r.scorer /\ q.verdict = r.verdict
  BY <1>4, <1>5, <1>6 DEF Row
<1>8. \A n \in 1..Len(r.attempts) : /\ a[n].status # "running"
                                    /\ r.attempts[n].status # "running" => a[n] = r.attempts[n]
  <2> SUFFICES ASSUME NEW n \in 1..Len(r.attempts)
               PROVE  /\ a[n].status # "running"
                      /\ r.attempts[n].status # "running" => a[n] = r.attempts[n]
    OBVIOUS
  <2>1. PICK x \in Attempt : x = r.attempts[n]
    BY <1>2
  <2>2. a[n] = Interrupted(x)
    BY <1>4, <2>1
  <2>. QED
    BY <1>3, <2>1, <2>2
<1>9. KeepsAttempts(r, q)
  BY <1>1, <1>5, <1>7, <1>8 DEF KeepsAttempts, Over
<1>10. Told(q)
  <2>1. \A n \in DOMAIN a : a[n].status # "running"
    BY <1>5, <1>8
  <2>2. ASSUME Over(q.status)
        PROVE  a # <<>> /\ a[Len(a)] = [status |-> q.status, verdict |-> q.verdict]
    <3>1. Over(r.status) /\ r.status = q.status /\ r.attempts # <<>>
      BY <1>6, <1>7, <2>2 DEF Over, Told
    <3>2. Len(r.attempts) \in 1..Len(r.attempts) /\ a # <<>>
      BY <1>1, <1>5, <3>1, EmptySeq
    <3>3. r.attempts[Len(r.attempts)] = [status |-> r.status, verdict |-> r.verdict]
      BY <3>1 DEF Told
    <3>4. r.attempts[Len(r.attempts)].status # "running"
      BY <3>1, <3>3 DEF Over
    <3>. QED
      BY <1>5, <1>7, <1>8, <3>1, <3>2, <3>3, <3>4
  <2>. QED
    BY <1>6, <1>7, <2>1, <2>2 DEF Told
<1>. QED
  BY <1>5, <1>6, <1>7, <1>9, <1>10 DEF Continues

\* Row r with its running attempt ended as e.
Closed(r, e) ==
    [r EXCEPT !.status = e.status, !.verdict = e.verdict,
              !.attempts = [n \in DOMAIN r.attempts |->
                              IF r.attempts[n].status = "running" THEN e ELSE r.attempts[n]]]

\* A record ends a running row and its running attempt alike.
LEMMA Recorded ==
    ASSUME NEW r \in Row, Told(r), r.status = "running",
           NEW e \in Attempt, Over(e.status), NEW q, q = Closed(r, e)
    PROVE  /\ q \in Row /\ Told(q) /\ Continues(r, q)
           /\ q.status = e.status /\ q.verdict = e.verdict /\ Len(q.attempts) = Len(r.attempts)
<1>1. /\ r.attempts \in Seq(Attempt) /\ Len(r.attempts) \in Nat
      /\ DOMAIN r.attempts = 1..Len(r.attempts)
  BY LenProperties DEF Row
<1>2. \A n \in 1..Len(r.attempts) : r.attempts[n] \in Attempt
  BY <1>1, ElementOfSeq
<1>3. PICK a \in [1..Len(r.attempts) -> Attempt] :
         /\ a = [n \in DOMAIN r.attempts |->
                   IF r.attempts[n].status = "running" THEN e ELSE r.attempts[n]]
         /\ \A n \in 1..Len(r.attempts) :
                a[n] = IF r.attempts[n].status = "running" THEN e ELSE r.attempts[n]
  <2> DEFINE end(n) == IF r.attempts[n].status = "running" THEN e ELSE r.attempts[n]
  <2>1. \A n \in 1..Len(r.attempts) : end(n) \in Attempt
    BY <1>2
  <2>. HIDE DEF end
  <2>2. [n \in DOMAIN r.attempts |-> end(n)] \in [1..Len(r.attempts) -> Attempt]
    BY <1>1, <2>1
  <2>3. \A n \in 1..Len(r.attempts) : [m \in DOMAIN r.attempts |-> end(m)][n] = end(n)
    BY <1>1
  <2>. QED
    BY <2>2, <2>3 DEF end
<1>4. a \in Seq(Attempt) /\ Len(a) = Len(r.attempts) /\ DOMAIN a = 1..Len(r.attempts)
  BY <1>1, FunctionIsSeq
<1>5. e.status \in {"succeeded", "error"} /\ e.verdict \in Outcome \cup {"none"}
  BY DEF Over, Attempt
<1>6. /\ q \in Row /\ q.status = e.status /\ q.verdict = e.verdict /\ q.attempts = a
      /\ q.key = r.key /\ q.scorer = r.scorer
  BY <1>3, <1>4, <1>5 DEF Row, Closed
<1>7. KeepsAttempts(r, q)
  BY <1>1, <1>3, <1>4, <1>6 DEF KeepsAttempts, Over
<1>8. Told(q)
  <2>1. r.attempts # <<>> /\ Len(r.attempts) \in 1..Len(r.attempts)
    BY <1>1, EmptySeq DEF Told
  <2>2. a # <<>> /\ a[Len(a)] = e
    BY <1>1, <1>3, <1>4, <2>1, EmptySeq DEF Told
  <2>3. \A n \in DOMAIN a : a[n].status # "running"
    BY <1>3, <1>4, <1>5
  <2>4. e = [status |-> e.status, verdict |-> e.verdict]
    BY DEF Attempt
  <2>. QED
    BY <1>5, <1>6, <2>2, <2>3, <2>4 DEF Told
<1>. QED
  BY <1>4, <1>6, <1>7, <1>8 DEF Continues

\* A queued row has no history.
LEMMA Fresh ==
    ASSUME NEW key \in Key \cup {Initial}, NEW scorer \in Scorer
    PROVE  /\ Queued(key, scorer) \in Row /\ Told(Queued(key, scorer))
           /\ Queued(key, scorer).key = key /\ Queued(key, scorer).scorer = scorer
           /\ Queued(key, scorer).status = "queued"
<1>1. <<>> \in Seq(Attempt)
  BY EmptySeq
<1>. QED
  BY <1>1 DEF Queued, Row, Told, Over

-----------------------------------------------------------------------------
(* The queue.                                                              *)

\* A new row goes to the end.
LEMMA Appends ==
    ASSUME rows \in Seq(Row), NEW q \in Row, rows' = Append(rows, q)
    PROVE  /\ rows' \in Seq(Row)
           /\ \A i \in Rows : i \in DOMAIN rows' /\ rows'[i] = rows[i]
           /\ \A i \in DOMAIN rows' \ Rows : rows'[i] = q
           /\ Len(rows) + 1 \in DOMAIN rows' /\ rows'[Len(rows) + 1] = q
<1>1. /\ rows' \in Seq(Row) /\ Len(rows') = Len(rows) + 1
      /\ \A i \in 1..Len(rows) : rows'[i] = rows[i]
      /\ rows'[Len(rows) + 1] = q
  BY AppendProperties
<1>2. DOMAIN rows = 1..Len(rows) /\ DOMAIN rows' = 1..Len(rows') /\ Len(rows) \in Nat
  BY <1>1, LenProperties
<1>. QED
  BY <1>1, <1>2 DEF Rows

LEMMA RowTypes ==
    ASSUME rows \in Seq(Row)
    PROVE  /\ rows \in [Rows -> Row] /\ Rows = 1..Len(rows) /\ Len(rows) \in Nat
           /\ \A i \in Rows : rows[i] \in Row /\ AttemptsOf(i) \in Nat
<1>1. rows \in [1..Len(rows) -> Row] /\ Len(rows) \in Nat /\ DOMAIN rows = 1..Len(rows)
  BY LenProperties
<1>2. \A i \in 1..Len(rows) : rows[i] \in Row /\ rows[i].attempts \in Seq(Attempt)
  BY <1>1 DEF Row
<1>3. \A i \in 1..Len(rows) : Len(rows[i].attempts) \in Nat
  BY <1>2, LenProperties
<1>. QED
  BY <1>1, <1>2, <1>3 DEF Rows, AttemptsOf

\* Which commits touch the queue.
LEMMA Commits ==
    ASSUME TypeOK, [Next]_vars
    PROVE  \/ rows' = rows
           \/ \E key \in Key \cup {Initial}, scorer \in Scorer :
                 /\ rows' = Append(rows, Queued(key, scorer)) /\ WithKey(key) = {}
                 /\ UNCHANGED container
                 /\ UNCHANGED mgr \/ mgr'.pc \in {"queue", "requeue"}
           \/ RequeueStuck
           \/ \E i \in Rows : Claim(i)
           \/ Record
<1> DEFINE Enqueued ==
        rows' = Append(rows, Queued(Initial, DefaultScorer)) /\ WithKey(Initial) = {}
<1> USE VerificationAssumption DEF TypeOK
<1>1. ASSUME NEW status, EnqueueDefault(status)
      PROVE  rows' = rows \/ Enqueued
  BY <1>1 DEF EnqueueDefault
<1>2. ASSUME NEW status, Finish(status)
      PROVE  rows' = rows \/ Enqueued
  BY <1>1, <1>2 DEF Finish
<1>3. CASE FinishFromAnswer
  <2>1. rows' = rows \/ Enqueued
    BY <1>2, <1>3 DEF FinishFromAnswer
  <2>2. UNCHANGED container /\ UNCHANGED mgr
    BY <1>3 DEF FinishFromAnswer, manager
  <2>. QED
    BY <2>1, <2>2
<1>4. CASE ReconcileTrial
  <2>1. rows' = rows \/ Enqueued
    BY <1>2, <1>4 DEF ReconcileTrial
  <2>2. UNCHANGED container /\ mgr'.pc = "queue"
    BY <1>4 DEF ReconcileTrial, Goto
  <2>. QED
    BY <2>1, <2>2
<1>5. CASE ReconcileDefault
  <2>1. rows' = rows \/ Enqueued
    BY <1>1, <1>5 DEF ReconcileDefault
  <2>2. UNCHANGED container /\ mgr'.pc = "requeue"
    BY <1>5 DEF ReconcileDefault, Goto
  <2>. QED
    BY <2>1, <2>2
<1>6. ASSUME NEW c \in Caller, RequestInsert(c)
      PROVE  \/ rows' = rows
             \/ /\ rows' = Append(rows, Queued(caller[c].key, caller[c].scorer))
                /\ WithKey(caller[c].key) = {}
                /\ caller[c].key \in Key /\ caller[c].scorer \in Scorer
                /\ UNCHANGED container /\ UNCHANGED mgr
  <2>1. caller[c].key \in Key /\ caller[c].scorer \in Scorer /\ UNCHANGED container /\ UNCHANGED mgr
    BY <1>6 DEF RequestInsert, Request, manager
  <2>. QED
    BY <1>6, <2>1 DEF RequestInsert
<1>7. \/ rows' = rows \/ FinishFromAnswer \/ ReconcileTrial \/ ReconcileDefault \/ RequeueStuck
      \/ (\E i \in Rows : Claim(i)) \/ Record \/ \E c \in Caller : RequestInsert(c)
  BY DEF Next, MgrStep, SupStep, ManagerStart, RecoverContent, Refuse, StartContainer, Collect,
     VerifierTimeout, SealAnswer, TimeoutVerdict, ManagerCrash, RequestCheck, ContainerExits,
     vars
<1>. QED
  BY <1>3, <1>4, <1>5, <1>6, <1>7

\* What a step leaves of row i.
Kept(i) ==
    /\ i \in DOMAIN rows' /\ Told(rows'[i]) /\ Continues(rows[i], rows'[i])
    /\ Over(rows[i].status) => /\ rows'[i].status = rows[i].status
                              /\ rows'[i].verdict = rows[i].verdict
                              /\ Len(rows'[i].attempts) = Len(rows[i].attempts)
    /\ rows'[i].status = "succeeded" /\ rows[i].status # "succeeded" =>
          /\ Record /\ i = mgr.row
          /\ rows'[i].verdict = mgr.outcome /\ mgr.outcome \in Verdict
          /\ Len(rows'[i].attempts) = Len(rows[i].attempts)

LEMMA Same ==
    ASSUME rows \in Seq(Row), NEW i \in Rows, Told(rows[i]), i \in DOMAIN rows', rows'[i] = rows[i]
    PROVE  Kept(i)
BY DEF Kept, Continues, KeepsAttempts

\* Rows stay in their types, their order and their histories.
LEMMA RowsStep ==
    ASSUME TypeOK, \A i \in Rows : Told(rows[i]), HoldsItsRow, [Next]_vars
    PROVE  /\ rows' \in Seq(Row)
           /\ \A i \in Rows : Kept(i)
           /\ \A i \in DOMAIN rows' \ Rows : Told(rows'[i]) /\ rows'[i].status = "queued"
<1>0. rows \in Seq(Row) /\ Rows = DOMAIN rows
  BY DEF TypeOK, Rows
<1>1. CASE rows' = rows
  BY <1>0, <1>1, Same
<1>2. ASSUME NEW key \in Key \cup {Initial}, NEW scorer \in Scorer,
             rows' = Append(rows, Queued(key, scorer))
      PROVE  /\ rows' \in Seq(Row)
             /\ \A i \in Rows : Kept(i)
             /\ \A i \in DOMAIN rows' \ Rows : Told(rows'[i]) /\ rows'[i].status = "queued"
  <2>1. PICK q \in Row : q = Queued(key, scorer) /\ Told(q) /\ q.status = "queued"
    BY Fresh
  <2>2. /\ rows' \in Seq(Row)
        /\ \A i \in Rows : i \in DOMAIN rows' /\ rows'[i] = rows[i]
        /\ \A i \in DOMAIN rows' \ Rows : rows'[i] = q
    BY <1>0, <1>2, <2>1, Appends
  <2>. QED
    BY <1>0, <2>1, <2>2, Same
<1>3. CASE RequeueStuck
  <2>1. /\ \A i \in Rows :
              rows'[i] = [rows[i] EXCEPT
                 !.status = IF rows[i].status = "running" THEN "queued" ELSE rows[i].status,
                 !.attempts = [n \in DOMAIN rows[i].attempts |-> Interrupted(rows[i].attempts[n])]]
        /\ DOMAIN rows' = Rows /\ rows' = [i \in Rows |-> rows'[i]]
    BY <1>3 DEF RequeueStuck
  <2>2. ASSUME NEW i \in Rows
        PROVE  rows'[i] \in Row /\ Kept(i)
    <3>1. /\ rows'[i] \in Row /\ Told(rows'[i]) /\ Continues(rows[i], rows'[i])
          /\ rows'[i].verdict = rows[i].verdict /\ rows'[i].status # "running"
          /\ rows'[i].status \in {rows[i].status, "queued"}
          /\ rows[i].status # "running" => rows'[i].status = rows[i].status
          /\ Len(rows'[i].attempts) = Len(rows[i].attempts)
      BY <1>0, <2>1, RowTypes, Requeued
    <3>. QED
      BY <2>1, <3>1 DEF Kept, Over
  <2>3. rows' \in [1..Len(rows) -> Row] /\ Len(rows) \in Nat
    BY <1>0, <2>1, <2>2, RowTypes
  <2>. QED
    BY <2>1, <2>2, <2>3, FunctionIsSeq
<1>4. ASSUME NEW i \in Rows, Claim(i)
      PROVE  rows' \in Seq(Row) /\ DOMAIN rows' = Rows /\ \A j \in Rows : Kept(j)
  <2>1. PICK q : q = [rows[i] EXCEPT !.status = "running",
                                     !.attempts = Append(rows[i].attempts, NewAttempt)]
    OBVIOUS
  <2>2. rows' = [rows EXCEPT ![i] = q] /\ rows[i].status = "queued"
    BY <1>4, <2>1 DEF Claim, NewAttempt
  <2>3. q \in Row /\ Told(q) /\ Continues(rows[i], q) /\ q.status = "running"
    BY <1>0, <2>1, <2>2, RowTypes, Claimed
  <2>4. rows' \in [1..Len(rows) -> Row] /\ Len(rows) \in Nat /\ Rows = 1..Len(rows)
    BY <1>0, <2>2, <2>3, RowTypes
  <2>5. rows'[i] = q /\ \A j \in Rows \ {i} : rows'[j] = rows[j]
    BY <1>0, <2>2
  <2>6. Kept(i)
    BY <2>2, <2>3, <2>4, <2>5 DEF Kept, Over
  <2>. QED
    BY <1>0, <2>4, <2>5, <2>6, FunctionIsSeq, Same
<1>5. CASE Record
  <2>1. mgr.row \in Rows /\ rows[mgr.row].status = "running" /\ mgr.outcome \in Outcome
    BY <1>5 DEF Record, HoldsItsRow, TypeOK
  <2>2. PICK e : e = Ended
    OBVIOUS
  <2>3. e \in Attempt /\ Over(e.status) /\ e.verdict = mgr.outcome
        /\ (e.status = "succeeded" => mgr.outcome \in Verdict)
    BY <2>1, <2>2 DEF Ended, Status, Attempt, Over, Outcome
  <2>r. PICK r \in Row : r = rows[mgr.row] /\ Told(r) /\ r.status = "running"
    BY <1>0, <2>1, RowTypes
  <2>4. PICK q : q = Closed(r, e)
    OBVIOUS
  <2>5. rows' = [rows EXCEPT ![mgr.row] = q]
    BY <1>5, <2>2, <2>r, <2>4 DEF Record, Closed
  <2>q. /\ q \in Row /\ Told(q) /\ Continues(r, q) /\ q.status = e.status
        /\ q.verdict = e.verdict /\ Len(q.attempts) = Len(r.attempts)
    BY <2>3, <2>r, <2>4, Recorded
  <2>6. /\ q \in Row /\ Told(q) /\ Continues(rows[mgr.row], q) /\ q.status = e.status
        /\ q.verdict = e.verdict /\ Len(q.attempts) = Len(rows[mgr.row].attempts)
    BY <2>q, <2>r
  <2>7. rows' \in [1..Len(rows) -> Row] /\ Len(rows) \in Nat /\ Rows = 1..Len(rows)
    BY <1>0, <2>5, <2>6, RowTypes
  <2>8. rows'[mgr.row] = q /\ \A j \in Rows \ {mgr.row} : rows'[j] = rows[j]
    BY <1>0, <2>1, <2>5
  <2>9. Kept(mgr.row)
    BY <1>5, <2>1, <2>3, <2>6, <2>7, <2>8 DEF Kept, Over
  <2>. QED
    BY <1>0, <2>7, <2>8, <2>9, FunctionIsSeq, Same
<1>. QED
  BY <1>1, <1>2, <1>3, <1>4, <1>5, Commits

\* Containers are started once for an attempt at hand and change when they exit.
LEMMA ContainerStep ==
    ASSUME TypeOK, container \in [DOMAIN container -> {"running"} \cup Outcome], HoldsItsRow,
           [Next]_vars
    PROVE  /\ DOMAIN container \subseteq DOMAIN container' /\ DOMAIN container' \subseteq Nat \X Nat
           /\ container' \in [DOMAIN container' -> {"running"} \cup Outcome]
           /\ \A c \in DOMAIN container :
                 \/ container'[c] = container[c]
                 \/ container[c] = "running"
                 \/ StartContainer /\ c = AtHand
<1>1. CASE container' = container
  BY <1>1 DEF TypeOK
<1>2. CASE \E c \in DOMAIN container : ContainerExits(c)
  <2>1. PICK c \in DOMAIN container, outcome \in Outcome :
           container' = [container EXCEPT ![c] = outcome] /\ container[c] = "running"
    BY <1>2 DEF ContainerExits
  <2>. QED
    BY <2>1 DEF TypeOK
<1>3. CASE StartContainer
  <2>1. PICK x : x = AtHand
    OBVIOUS
  <2>2. container' = [c \in DOMAIN container \cup {x} |-> IF c = x THEN "running" ELSE container[c]]
    BY <1>3, <2>1 DEF StartContainer
  <2>3. x \in Nat \X Nat
    BY <1>3, <2>1, RowTypes DEF AtHand, StartContainer, HoldsItsRow, TypeOK
  <2>. QED
    BY <1>3, <2>1, <2>2, <2>3 DEF TypeOK
<1>4. CASE VerifierTimeout
  <2>1. PICK x : x = AtHand
    OBVIOUS
  <2>2. /\ x \in DOMAIN container /\ container[x] = "running"
        /\ container' = [container EXCEPT ![x] = "error"]
    BY <1>4, <2>1 DEF VerifierTimeout, HoldsItsRow
  <2>. QED
    BY <2>2 DEF TypeOK, Outcome
<1>5. \/ container' = container \/ StartContainer \/ VerifierTimeout
      \/ \E c \in DOMAIN container : ContainerExits(c)
  BY DEF Next, MgrStep, SupStep, ManagerStart, RecoverContent, ReconcileTrial, ReconcileDefault,
     RequeueStuck, Claim, Refuse, Collect, Record, SealAnswer, TimeoutVerdict, FinishFromAnswer,
     ManagerCrash, RequestCheck, RequestInsert, vars
<1>. QED
  BY <1>1, <1>2, <1>3, <1>4, <1>5

\* Verdicts are those of their containers.
LEMMA VerdictStep ==
    ASSUME IInv, [Next]_vars, NEW i \in DOMAIN rows'
    PROVE  OwnVerdict(i)'
<1> USE DEF IInv
<1> SUFFICES ASSUME rows'[i].status = "succeeded"
             PROVE  /\ <<i, Len(rows'[i].attempts)>> \in DOMAIN container'
                    /\ rows'[i].verdict \in Verdict
                    /\ container'[<<i, Len(rows'[i].attempts)>>] = rows'[i].verdict
  BY DEF OwnVerdict, AttemptsOf
<1>1. i \in Rows /\ Kept(i)
  BY RowsStep
<1>2. CASE rows[i].status = "succeeded"
  <2>1. /\ rows'[i].verdict = rows[i].verdict /\ rows[i].verdict \in Verdict
        /\ Len(rows'[i].attempts) = AttemptsOf(i)
        /\ <<i, AttemptsOf(i)>> \in DOMAIN container
        /\ container[<<i, AttemptsOf(i)>>] = rows[i].verdict
    BY <1>1, <1>2 DEF Kept, OwnVerdict, Over, AttemptsOf
  <2>2. ~(StartContainer /\ <<i, AttemptsOf(i)>> = AtHand)
    BY <1>2 DEF StartContainer, AtHand, HoldsItsRow
  <2>3. rows[i].verdict # "running"
    BY <2>1 DEF Verdict
  <2>. QED
    BY <2>1, <2>2, <2>3, ContainerStep
<1>3. CASE rows[i].status # "succeeded"
  <2>1. /\ Record /\ i = mgr.row /\ rows'[i].verdict = mgr.outcome /\ mgr.outcome \in Verdict
        /\ Len(rows'[i].attempts) = Len(rows[i].attempts)
    BY <1>1, <1>3 DEF Kept
  <2>2. container' = container /\ AtHand \in DOMAIN container /\ container[AtHand] = mgr.outcome
    BY <2>1 DEF Record, HoldsItsRow
  <2>. QED
    BY <2>1, <2>2 DEF AtHand, AttemptsOf
<1>. QED
  BY <1>2, <1>3

\* Whoever does not hold the manager's step leaves the row at hand alone.
LEMMA RowAtHand ==
    ASSUME IInv, [Next]_vars, UNCHANGED mgr, NEW i \in Rows
    PROVE  i \in DOMAIN rows' /\ rows'[i] = rows[i]
<1> USE DEF IInv, TypeOK
<1>1. CASE rows' = rows
  BY <1>1 DEF Rows
<1>2. ASSUME NEW key \in Key \cup {Initial}, NEW scorer \in Scorer,
             rows' = Append(rows, Queued(key, scorer))
      PROVE  i \in DOMAIN rows' /\ rows'[i] = rows[i]
  BY <1>2, Fresh, Appends
<1>3. ~RequeueStuck /\ ~Record /\ \A j \in Rows : ~Claim(j)
  <2>. HIDE DEF IInv, TypeOK
  <2>. PICK m \in [pc: {"down", "recover", "reconcile", "queue", "requeue", "loop", "check",
                        "wait", "record"}, row: Nat, outcome: Outcome] : m = mgr
    BY DEF IInv, TypeOK
  <2>1. ASSUME RequeueStuck
        PROVE  FALSE
    BY <2>1 DEF RequeueStuck, Goto
  <2>2. ASSUME Record
        PROVE  FALSE
    BY <2>2 DEF Record, Idle
  <2>3. ASSUME NEW j \in Rows, Claim(j)
        PROVE  FALSE
    BY <2>3 DEF Claim
  <2>. QED
    BY <2>1, <2>2, <2>3
<1>. QED
  BY <1>1, <1>2, <1>3, Commits

LEMMA HoldsStep ==
    ASSUME IInv, [Next]_vars
    PROVE  HoldsItsRow'
<1>. PICK m \in [pc: {"down", "recover", "reconcile", "queue", "requeue", "loop", "check",
                      "wait", "record"}, row: Nat, outcome: Outcome] : m = mgr
  BY DEF IInv, TypeOK
<1>0. HoldsItsRow /\ Rows = DOMAIN rows
  BY DEF IInv, TypeOK, Rows
<1>1. ASSUME NEW i \in Rows, Claim(i)
      PROVE  HoldsItsRow'
  <2>1. mgr'.pc = "check" /\ mgr'.row = i
    BY <1>1 DEF Claim
  <2>2. i \in DOMAIN rows' /\ rows'[i].status = "running"
    <3>1. rows \in [Rows -> Row]
      BY RowTypes DEF IInv, TypeOK
    <3>2. PICK r \in Row : r = rows[i]
      BY <3>1
    <3>3. PICK q : q = [r EXCEPT !.status = "running",
                                 !.attempts = Append(@, [status |-> "running", verdict |-> "none"])]
      OBVIOUS
    <3>4. q.status = "running"
      BY <3>2, <3>3 DEF Row
    <3>5. rows' = [rows EXCEPT ![i] = q]
      BY <1>1, <3>2, <3>3 DEF Claim
    <3>. QED
      BY <3>1, <3>4, <3>5
  <2>. QED
    BY <2>1, <2>2 DEF HoldsItsRow, Rows
<1>2. CASE Refuse
  <2>1. mgr'.pc = "record" /\ mgr'.row = mgr.row /\ mgr'.outcome = "error" /\ mgr.pc = "check"
    BY <1>2 DEF Refuse
  <2>. QED
    BY <1>0, <1>2, <2>1 DEF Refuse, HoldsItsRow, Rows, Verdict
<1>3. CASE StartContainer
  <2>1. mgr'.pc = "wait" /\ mgr'.row = mgr.row /\ mgr.pc = "check" /\ rows' = rows
    BY <1>3 DEF StartContainer, Goto
  <2>2. AtHand' = AtHand /\ AtHand \in DOMAIN container'
    BY <1>3, <2>1 DEF AtHand, AttemptsOf, StartContainer
  <2>. QED
    BY <1>0, <2>1, <2>2 DEF HoldsItsRow, Rows
<1>4. CASE Collect
  <2>1. /\ mgr'.pc = "record" /\ mgr'.row = mgr.row /\ mgr.pc = "wait" /\ rows' = rows
        /\ container' = container /\ mgr'.outcome = container[AtHand]
    BY <1>4 DEF Collect, Output
  <2>2. AtHand' = AtHand
    BY <2>1 DEF AtHand, AttemptsOf
  <2>. QED
    BY <1>0, <2>1, <2>2 DEF HoldsItsRow, Rows
<1>5. CASE VerifierTimeout
  <2>1. /\ mgr'.pc = "record" /\ mgr'.row = mgr.row /\ mgr.pc = "wait" /\ rows' = rows
        /\ mgr'.outcome = "error"
    BY <1>5 DEF VerifierTimeout
  <2>. QED
    BY <1>0, <2>1 DEF HoldsItsRow, Rows, Verdict
<1>6. CASE mgr'.pc \notin {"check", "wait", "record"}
  BY <1>6 DEF HoldsItsRow
<1>7. CASE UNCHANGED mgr
  <2>1. \A i \in Rows : i \in DOMAIN rows' /\ rows'[i] = rows[i]
    BY <1>7, RowAtHand
  <2>2. mgr.row \in Rows => AtHand' = AtHand
    BY <1>7, <2>1 DEF AtHand, AttemptsOf
  <2>3. /\ DOMAIN container \subseteq DOMAIN container'
        /\ \A c \in DOMAIN container : container'[c] = container[c] \/ container[c] = "running"
    <3>1. ~StartContainer
      BY <1>7 DEF StartContainer, Goto
    <3>. QED
      BY <3>1, ContainerStep DEF IInv
  <2>. QED
    BY <1>0, <1>7, <2>1, <2>2, <2>3 DEF HoldsItsRow, Rows, Verdict
<1>8. \/ UNCHANGED mgr \/ mgr'.pc \notin {"check", "wait", "record"}
      \/ (\E i \in Rows : Claim(i)) \/ Refuse \/ StartContainer \/ Collect \/ VerifierTimeout
  <2>1. CASE ManagerStart \/ RecoverContent \/ ReconcileTrial \/ ReconcileDefault \/ RequeueStuck
    BY <2>1 DEF ManagerStart, RecoverContent, ReconcileTrial, ReconcileDefault, RequeueStuck,
       Goto
  <2>2. CASE Record \/ ManagerCrash
    BY <2>2 DEF Record, ManagerCrash, Idle
  <2>3. CASE SupStep \/ UNCHANGED vars
    BY <2>3 DEF SupStep, SealAnswer, TimeoutVerdict, FinishFromAnswer, manager, vars
  <2>4. CASE (\E c \in Caller : RequestCheck(c) \/ RequestInsert(c))
             \/ \E c \in DOMAIN container : ContainerExits(c)
    BY <2>4 DEF RequestCheck, RequestInsert, ContainerExits, manager
  <2>. QED
    BY <2>1, <2>2, <2>3, <2>4 DEF Next, MgrStep
<1>. QED
  BY <1>1, <1>2, <1>3, <1>4, <1>5, <1>6, <1>7, <1>8

-----------------------------------------------------------------------------
(* The answer and the requests.                                            *)

\* What a row asks for never changes.
LEMMA AsksTheSame ==
    ASSUME IInv, [Next]_vars, NEW i \in Rows
    PROVE  i \in DOMAIN rows' /\ rows'[i].key = rows[i].key /\ rows'[i].scorer = rows[i].scorer
BY RowsStep DEF IInv, Kept, Continues

\* The commit that seals the trial queues its first verification.
LEMMA Sealed ==
    ASSUME IInv, Finish(answer), trial = "running", answer = "sealed"
    PROVE  WithKey(Initial)' # {}
<1>1. EnqueueDefault("sealed")
  BY DEF Finish
<1>2. CASE WithKey(Initial) # {}
  BY <1>1, <1>2 DEF EnqueueDefault, WithKey, Rows
<1>3. CASE WithKey(Initial) = {}
  <2>1. rows' = Append(rows, Queued(Initial, DefaultScorer))
    BY <1>1, <1>3 DEF EnqueueDefault
  <2>2. PICK q \in Row : q = Queued(Initial, DefaultScorer) /\ q.key = Initial
    BY VerificationAssumption, Fresh
  <2>3. Len(rows) + 1 \in DOMAIN rows' /\ rows'[Len(rows) + 1] = q
    BY <2>1, <2>2, Appends DEF IInv, TypeOK
  <2>. QED
    BY <2>2, <2>3 DEF WithKey, Rows
<1>. QED
  BY <1>2, <1>3

LEMMA AnswerStep ==
    ASSUME IInv, [Next]_vars
    PROVE  /\ AnswerFirst'
           /\ sup' \in {"agent", "verdict", "finish", "exited"}
           /\ answer' \in {"none", "sealed", "anomaly"}
           /\ trial' \in {"running", "sealed", "anomaly", "cancelled"}
<1> USE DEF IInv, TypeOK, AnswerFirst
<1>1. CASE FinishFromAnswer \/ (ReconcileTrial /\ answer # "none")
  <2>1. Finish(answer) /\ answer # "none" /\ answer' = answer /\ sup' \in {sup, "exited"}
    BY <1>1 DEF FinishFromAnswer, ReconcileTrial
  <2>2. CASE trial = "running"
    BY <2>1, <2>2, Sealed DEF Finish
  <2>3. CASE trial # "running"
    BY <2>1, <2>3, AsksTheSame DEF Finish, WithKey, Rows
  <2>. QED
    BY <2>1, <2>2, <2>3
<1>2. CASE ~(FinishFromAnswer \/ (ReconcileTrial /\ answer # "none"))
  <2>1. trial' = trial
    BY <1>2 DEF Next, MgrStep, SupStep, ManagerStart, RecoverContent, ReconcileTrial,
       ReconcileDefault, RequeueStuck, Claim, Refuse, StartContainer, Collect, VerifierTimeout,
       Record, SealAnswer, TimeoutVerdict, ManagerCrash, RequestCheck, RequestInsert,
       ContainerExits, vars, supervisor
  <2>2. trial' = "sealed" => WithKey(Initial)' # {}
    BY <2>1, AsksTheSame DEF WithKey, Rows
  <2>3. /\ sup' # "agent" => answer' # "none"
        /\ sup' \in {"agent", "verdict", "finish", "exited"}
        /\ answer' \in {"none", "sealed", "anomaly"}
    BY <1>2 DEF Next, MgrStep, SupStep, ManagerStart, RecoverContent, ReconcileTrial,
       ReconcileDefault, RequeueStuck, Claim, Refuse, StartContainer, Collect, VerifierTimeout,
       Record, SealAnswer, TimeoutVerdict, ManagerCrash, RequestCheck, RequestInsert,
       ContainerExits, vars, supervisor
  <2>. QED
    BY <2>1, <2>2, <2>3
<1>. QED
  BY <1>1, <1>2

\* What a reply changes of a request.
LEMMA Replied ==
    ASSUME caller \in [Caller -> Request], NEW c \in Caller, NEW reply \in Reply, Answered(c, reply)
    PROVE  /\ caller' \in [Caller -> Request]
           /\ \A d \in Caller \ {c} : caller'[d] = caller[d]
           /\ caller'[c].key = caller[c].key /\ caller'[c].scorer = caller[c].scorer
           /\ caller'[c].reply = reply
<1>1. PICK r \in Request : r = caller[c]
  OBVIOUS
<1>2. PICK q : q = [r EXCEPT !.pc = "done", !.reply = reply]
  OBVIOUS
<1>3. q \in Request /\ q.key = r.key /\ q.scorer = r.scorer /\ q.reply = reply
  BY <1>2 DEF Request
<1>4. caller' = [caller EXCEPT ![c] = q]
  BY <1>1, <1>2 DEF Answered
<1>. QED
  BY <1>1, <1>3, <1>4

\* A request under way is answered from the row that holds its key, or by its own row.
LEMMA RequestStep ==
    ASSUME IInv, [Next]_vars
    PROVE  caller' \in [Caller -> Request] /\ RequestsAreIdempotent'
<1>0. caller \in [Caller -> Request] /\ rows \in Seq(Row) /\ RequestsAreIdempotent
  BY DEF IInv, TypeOK
<1>. SUFFICES /\ caller' \in [Caller -> Request]
              /\ \A c \in Caller : caller'[c].reply \in {"accepted", "replayed"} =>
                    /\ \E i \in DOMAIN rows' :
                          rows'[i].key = caller'[c].key /\ rows'[i].scorer = caller'[c].scorer
                    /\ \A d \in Caller \ {c} :
                          caller'[d].reply = "accepted" /\ caller'[c].reply = "accepted" =>
                              caller'[d].key # caller'[c].key
  BY DEF RequestsAreIdempotent, WithKey, Rows
<1>1. \A c \in Caller : caller[c].reply \in {"accepted", "replayed"} =>
         /\ \E i \in Rows : rows[i].key = caller[c].key /\ rows[i].scorer = caller[c].scorer
         /\ \A d \in Caller \ {c} :
               caller[d].reply = "accepted" /\ caller[c].reply = "accepted" =>
                   caller[d].key # caller[c].key
  BY <1>0 DEF RequestsAreIdempotent, WithKey
<1>2. \A c \in Caller : caller[c].reply \in {"accepted", "replayed"} =>
         \E i \in DOMAIN rows' : rows'[i].key = caller[c].key /\ rows'[i].scorer = caller[c].scorer
  BY <1>1, AsksTheSame
<1>3. CASE caller' = caller
  BY <1>0, <1>1, <1>2, <1>3
<1>4. ASSUME NEW c \in Caller, NEW q \in Request, caller' = [caller EXCEPT ![c] = q],
             q.reply # "accepted",
             q.reply = "replayed" =>
                 \E i \in DOMAIN rows' : rows'[i].key = q.key /\ rows'[i].scorer = q.scorer
      PROVE  /\ caller' \in [Caller -> Request]
              /\ \A d \in Caller : caller'[d].reply \in {"accepted", "replayed"} =>
                    /\ \E i \in DOMAIN rows' :
                          rows'[i].key = caller'[d].key /\ rows'[i].scorer = caller'[d].scorer
                    /\ \A e \in Caller \ {d} :
                          caller'[e].reply = "accepted" /\ caller'[d].reply = "accepted" =>
                              caller'[e].key # caller'[d].key
  <2>1. caller'[c] = q /\ \A d \in Caller \ {c} : caller'[d] = caller[d]
    BY <1>0, <1>4
  <2>2. caller' \in [Caller -> Request]
    BY <1>0, <1>4
  <2>3. ASSUME NEW d \in Caller, caller'[d].reply \in {"accepted", "replayed"}
        PROVE  \E i \in DOMAIN rows' :
                  rows'[i].key = caller'[d].key /\ rows'[i].scorer = caller'[d].scorer
    BY <1>2, <1>4, <2>1, <2>3
  <2>4. ASSUME NEW d \in Caller, NEW e \in Caller \ {d},
               caller'[e].reply = "accepted" /\ caller'[d].reply = "accepted"
        PROVE  caller'[e].key # caller'[d].key
    <3>1. d # c /\ e # c
      BY <1>4, <2>1, <2>4
    <3>. QED
      BY <1>1, <2>1, <2>4, <3>1
  <2>. QED
    BY <2>2, <2>3, <2>4
<1>5. ASSUME NEW c \in Caller, RequestCheck(c)
      PROVE  \E q \in Request :
                /\ caller' = [caller EXCEPT ![c] = q]
                /\ q.reply # "accepted"
                /\ q.reply = "replayed" =>
                      \E i \in DOMAIN rows' : rows'[i].key = q.key /\ rows'[i].scorer = q.scorer
  <2>1. PICK key \in Key, scorer \in Scorer :
           LET asked == [pc |-> "insert", key |-> key, scorer |-> scorer, reply |-> "none"] IN
           caller' = [caller EXCEPT ![c] =
               IF answer # "sealed" THEN [asked EXCEPT !.pc = "done", !.reply = "refused"]
               ELSE IF WithKey(key) # {}
                    THEN [asked EXCEPT !.pc = "done", !.reply = ReplyFor(key, scorer)]
                    ELSE asked]
    BY <1>5 DEF RequestCheck
  <2>2. rows' = rows
    BY <1>5 DEF RequestCheck
  <2>3. PICK q : q =
              (LET asked == [pc |-> "insert", key |-> key, scorer |-> scorer, reply |-> "none"] IN
               IF answer # "sealed" THEN [asked EXCEPT !.pc = "done", !.reply = "refused"]
               ELSE IF WithKey(key) # {}
                    THEN [asked EXCEPT !.pc = "done", !.reply = ReplyFor(key, scorer)]
                    ELSE asked)
    OBVIOUS
  <2>4. PICK reply \in {"replayed", "conflict"} : reply = ReplyFor(key, scorer)
    BY DEF ReplyFor
  <2>5. reply = "replayed" => \E i \in Rows : rows[i].key = key /\ rows[i].scorer = scorer
    BY <2>4 DEF ReplyFor, WithKey
  <2>6. /\ q \in Request /\ q.key = key /\ q.scorer = scorer /\ q.reply # "accepted"
        /\ q.reply = "replayed" => reply = "replayed"
    BY <2>3, <2>4 DEF Request, Reply
  <2>7. caller' = [caller EXCEPT ![c] = q]
    BY <2>1, <2>3
  <2>. QED
    BY <2>2, <2>5, <2>6, <2>7 DEF Rows
<1>6. ASSUME NEW c \in Caller, RequestInsert(c)
      PROVE  /\ caller' \in [Caller -> Request]
              /\ \A d \in Caller : caller'[d].reply \in {"accepted", "replayed"} =>
                    /\ \E i \in DOMAIN rows' :
                          rows'[i].key = caller'[d].key /\ rows'[i].scorer = caller'[d].scorer
                    /\ \A e \in Caller \ {d} :
                          caller'[e].reply = "accepted" /\ caller'[d].reply = "accepted" =>
                              caller'[e].key # caller'[d].key
  <2>0. PICK k \in Key, s \in Scorer : k = caller[c].key /\ s = caller[c].scorer
    BY <1>0 DEF Request
  <2>1. CASE WithKey(k) = {}
    <3>1. Answered(c, "accepted") /\ rows' = Append(rows, Queued(k, s))
      BY <1>6, <2>0, <2>1 DEF RequestInsert
    <3>2. /\ caller' \in [Caller -> Request]
          /\ \A d \in Caller \ {c} : caller'[d] = caller[d]
          /\ caller'[c].key = k /\ caller'[c].scorer = s
      BY <1>0, <2>0, <3>1, Replied DEF Reply
    <3>3. PICK q \in Row : q = Queued(k, s) /\ q.key = k /\ q.scorer = s
      BY Fresh
    <3>4. \E i \in DOMAIN rows' : rows'[i].key = k /\ rows'[i].scorer = s
      BY <1>0, <3>1, <3>3, Appends
    <3>5. \A d \in Caller : caller[d].reply = "accepted" => caller[d].key # k
      BY <1>1, <2>1 DEF WithKey
    <3>6. ASSUME NEW d \in Caller, caller'[d].reply \in {"accepted", "replayed"}
          PROVE  \E i \in DOMAIN rows' :
                    rows'[i].key = caller'[d].key /\ rows'[i].scorer = caller'[d].scorer
      BY <1>2, <3>2, <3>4, <3>6
    <3>7. ASSUME NEW d \in Caller, NEW e \in Caller \ {d},
                 caller'[e].reply = "accepted" /\ caller'[d].reply = "accepted"
          PROVE  caller'[e].key # caller'[d].key
      BY <1>1, <3>2, <3>5, <3>7
    <3>. QED
      BY <3>2, <3>6, <3>7
  <2>2. CASE WithKey(k) # {}
    <3>1. PICK reply \in {"replayed", "conflict"} : reply = ReplyFor(k, s)
      BY DEF ReplyFor
    <3>2. Answered(c, reply) /\ rows' = rows
      BY <1>6, <2>0, <2>2, <3>1 DEF RequestInsert
    <3>3. /\ caller' \in [Caller -> Request] /\ caller'[c].key = k /\ caller'[c].scorer = s
          /\ \A d \in Caller \ {c} : caller'[d] = caller[d]
          /\ caller'[c].reply = reply
      BY <1>0, <2>0, <3>1, <3>2, Replied DEF Reply
    <3>4. reply = "replayed" => \E i \in DOMAIN rows' : rows'[i].key = k /\ rows'[i].scorer = s
      BY <3>1, <3>2 DEF ReplyFor, WithKey, Rows
    <3>5. caller' = [caller EXCEPT ![c] = caller'[c]] /\ caller'[c] \in Request
      BY <1>0, <3>3
    <3>. QED
      BY <1>4, <3>1, <3>3, <3>4, <3>5
  <2>. QED
    BY <2>1, <2>2
<1>7. \/ caller' = caller
      \/ \E c \in Caller : RequestCheck(c) \/ RequestInsert(c)
  BY DEF Next, MgrStep, SupStep, ManagerStart, RecoverContent, ReconcileTrial, ReconcileDefault,
     RequeueStuck, Claim, Refuse, StartContainer, Collect, VerifierTimeout, Record, SealAnswer,
     TimeoutVerdict, FinishFromAnswer, ManagerCrash, ContainerExits, vars
<1>. QED
  BY <1>3, <1>4, <1>5, <1>6, <1>7

-----------------------------------------------------------------------------
(* The rows in line, and the ledger they implement.                        *)

Working == {"check", "wait", "record"}

\* Only the row the manager works on is running, and every row before it is over; with the
\* manager dead or starting, a row its predecessor left running.
InLine ==
    \A i \in Rows : rows[i].status = "running" =>
        /\ mgr.pc # "loop"
        /\ mgr.pc \in Working => i = mgr.row
        /\ \A j \in Rows : j < i => Over(rows[j].status)

\* What moves the manager.
LEMMA Moves ==
    ASSUME TypeOK, [Next]_vars
    PROVE  \/ UNCHANGED mgr
           \/ RequeueStuck \/ Record \/ \E i \in Rows : Claim(i)
           \/ mgr.pc \in Working /\ mgr'.pc \in Working /\ mgr'.row = mgr.row
           \/ mgr'.pc \notin Working \cup {"loop"}
<1>1. PICK m \in [pc: {"down", "recover", "reconcile", "queue", "requeue", "loop", "check",
                       "wait", "record"}, row: Nat, outcome: Outcome] : m = mgr
  BY DEF TypeOK
<1>2. CASE Refuse \/ StartContainer \/ Collect \/ VerifierTimeout
  <2>1. mgr'.pc \in Working /\ mgr'.row = m.row
    <3>1. CASE Refuse \/ VerifierTimeout
      <4>1. mgr' = [m EXCEPT !.pc = "record", !.outcome = "error"]
        BY <1>1, <3>1 DEF Refuse, VerifierTimeout
      <4>. QED
        BY <4>1 DEF Working
    <3>2. CASE Collect
      <4>1. PICK outcome : mgr' = [m EXCEPT !.pc = "record", !.outcome = outcome]
        BY <1>1, <3>2 DEF Collect
      <4>. QED
        BY <4>1 DEF Working
    <3>3. CASE StartContainer
      <4>1. mgr' = [m EXCEPT !.pc = "wait"]
        BY <1>1, <3>3 DEF StartContainer, Goto
      <4>. QED
        BY <4>1 DEF Working
    <3>. QED
      BY <1>2, <3>1, <3>2, <3>3
  <2>2. mgr.pc \in Working
    BY <1>2 DEF Refuse, StartContainer, Collect, VerifierTimeout, Working
  <2>. QED
    BY <1>1, <2>1, <2>2 DEF Working
<1>3. CASE ManagerStart \/ RecoverContent \/ ReconcileTrial \/ ReconcileDefault
  <2>1. \E pc \in {"recover", "reconcile", "queue", "requeue"} : mgr' = [m EXCEPT !.pc = pc]
    BY <1>1, <1>3 DEF ManagerStart, RecoverContent, ReconcileTrial, ReconcileDefault, Goto
  <2>. QED
    BY <2>1 DEF Working
<1>4. CASE ManagerCrash
  BY <1>4 DEF ManagerCrash, Idle, Working
<1>5. \/ UNCHANGED mgr \/ RequeueStuck \/ Record \/ (\E i \in Rows : Claim(i)) \/ ManagerCrash
      \/ Refuse \/ StartContainer \/ Collect \/ VerifierTimeout
      \/ ManagerStart \/ RecoverContent \/ ReconcileTrial \/ ReconcileDefault
  BY DEF Next, MgrStep, SupStep, SealAnswer, TimeoutVerdict, FinishFromAnswer, RequestCheck,
     RequestInsert, ContainerExits, manager, vars
<1>. QED
  BY <1>2, <1>3, <1>4, <1>5

\* Where no commit changes a row, the new rows are queued behind the others.
LEMMA Behind ==
    ASSUME TypeOK, NEW key \in Key \cup {Initial}, NEW scorer \in Scorer,
           rows' = rows \/ rows' = Append(rows, Queued(key, scorer))
    PROVE  /\ \A i \in DOMAIN rows' : rows'[i].status = "running" =>
                 i \in Rows /\ rows[i].status = "running"
           /\ \A i \in Rows, j \in DOMAIN rows' : j < i => j \in Rows /\ rows'[j] = rows[j]
<1>1. rows \in Seq(Row) /\ Rows = 1..Len(rows) /\ Len(rows) \in Nat
  BY RowTypes DEF TypeOK
<1>2. CASE rows' = rows
  BY <1>1, <1>2 DEF Rows
<1>3. CASE rows' = Append(rows, Queued(key, scorer))
  <2>1. PICK q \in Row : q = Queued(key, scorer) /\ q.status = "queued"
    BY Fresh
  <2>2. /\ rows' \in Seq(Row)
        /\ \A i \in Rows : rows'[i] = rows[i]
        /\ \A i \in DOMAIN rows' \ Rows : rows'[i] = q
    BY <1>1, <1>3, <2>1, Appends
  <2>3. DOMAIN rows' \subseteq Nat \ {0}
    BY <2>2, LenProperties
  <2>4. ASSUME NEW i \in Rows, NEW j \in DOMAIN rows', j < i
        PROVE  j \in Rows
    BY <1>1, <2>3, <2>4
  <2>. QED
    BY <2>1, <2>2, <2>4
<1>. QED
  BY <1>2, <1>3

LEMMA LineStep ==
    ASSUME IInv, InLine, [Next]_vars
    PROVE  InLine'
<1>0. /\ TypeOK /\ rows \in Seq(Row) /\ Rows = 1..Len(rows) /\ Len(rows) \in Nat
      /\ HoldsItsRow /\ \A i \in Rows : Told(rows[i])
  BY RowTypes DEF IInv, TypeOK
<1>. SUFFICES ASSUME NEW i \in DOMAIN rows', rows'[i].status = "running"
              PROVE  /\ mgr'.pc # "loop"
                     /\ mgr'.pc \in Working => i = mgr'.row
                     /\ \A j \in DOMAIN rows' : j < i => Over(rows'[j].status)
  BY DEF InLine, Rows
<1>1. CASE RequeueStuck
  <2>1. /\ rows' = [j \in Rows |->
                  [rows[j] EXCEPT !.status = IF @ = "running" THEN "queued" ELSE @,
                                  !.attempts = [n \in DOMAIN @ |-> Interrupted(@[n])]]]
        /\ i \in Rows
    BY <1>1 DEF RequeueStuck
  <2>2. PICK r, a :
           r \in Row /\ r = rows[i] /\ a = [n \in DOMAIN r.attempts |-> Interrupted(r.attempts[n])]
    BY <1>0, <2>1, RowTypes
  <2>3. rows'[i] = [r EXCEPT !.status = IF r.status = "running" THEN "queued" ELSE r.status,
                             !.attempts = a]
    BY <2>1, <2>2
  <2>4. rows'[i].status # "running"
    BY <2>3 DEF Row
  <2>. QED
    BY <2>4
<1>2. CASE Record
  <2>1. mgr.row \in Rows /\ mgr.pc = "record" /\ i \in Rows
    BY <1>0, <1>2 DEF Record, HoldsItsRow, Rows
  <2>2. \A j \in Rows : j # mgr.row => rows'[j] = rows[j]
    BY <1>0, <1>2 DEF Record, Rows
  <2>3. i # mgr.row
    <3>1. PICK r \in Row : r = rows[mgr.row]
      BY <1>0, <2>1, RowTypes
    <3>2. PICK e : e = Ended
      OBVIOUS
    <3>3. PICK a : a = [n \in DOMAIN r.attempts |->
                          IF r.attempts[n].status = "running" THEN e ELSE r.attempts[n]]
      OBVIOUS
    <3>4. rows'[mgr.row] = [r EXCEPT !.status = e.status, !.verdict = e.verdict, !.attempts = a]
      BY <1>0, <1>2, <2>1, <3>1, <3>2, <3>3 DEF Record, Rows
    <3>5. rows'[mgr.row].status \in {"succeeded", "error"}
      BY <3>2, <3>4 DEF Ended, Status, Row
    <3>. QED
      BY <3>5
  <2>4. rows[i].status = "running"
    BY <2>1, <2>2, <2>3
  <2>5. i = mgr.row
    BY <2>1, <2>4 DEF InLine, Working
  <2>. QED
    BY <2>3, <2>5
<1>3. ASSUME NEW c \in Rows, Claim(c)
      PROVE  /\ mgr'.pc # "loop"
             /\ mgr'.pc \in Working => i = mgr'.row
             /\ \A j \in DOMAIN rows' : j < i => Over(rows'[j].status)
  <2>1. /\ mgr.pc = "loop" /\ rows[c].status = "queued" /\ DOMAIN rows' = Rows
        /\ \A j \in Rows : rows[j].status = "queued" => c <= j
        /\ \A j \in Rows : j # c => rows'[j] = rows[j]
    BY <1>0, <1>3 DEF Claim, Rows
  <2>2. mgr'.pc = "check" /\ mgr'.row = c
    BY <1>0, <1>3 DEF Claim, TypeOK
  <2>3. \A j \in Rows : rows[j].status # "running"
    BY <2>1 DEF InLine
  <2>4. i = c
    BY <2>1, <2>3
  <2>5. ASSUME NEW j \in Rows, j < c
        PROVE  Over(rows[j].status) /\ rows'[j] = rows[j]
    <3>1. rows[j] \in Row /\ rows[j].status # "queued" /\ j # c
      BY <1>0, <2>1, <2>5, RowTypes
    <3>. QED
      BY <2>1, <2>3, <3>1 DEF Row, Over
  <2>. QED
    BY <2>1, <2>2, <2>4, <2>5
<1>4. CASE ~RequeueStuck /\ ~Record /\ ~(\E c \in Rows : Claim(c))
  <2>1. PICK key \in Key \cup {Initial}, scorer \in Scorer :
           rows' = rows \/ rows' = Append(rows, Queued(key, scorer))
    BY <1>0, <1>4, Commits, VerificationAssumption
  <2>2. i \in Rows /\ rows[i].status = "running"
    BY <1>0, <2>1, Behind
  <2>3. \A j \in DOMAIN rows' : j < i => j \in Rows /\ rows'[j] = rows[j]
    BY <1>0, <2>1, <2>2, Behind
  <2>4. \A j \in DOMAIN rows' : j < i => Over(rows'[j].status)
    BY <2>2, <2>3 DEF InLine
  <2>5. mgr'.pc # "loop" /\ (mgr'.pc \in Working => i = mgr'.row)
    BY <1>0, <1>4, <2>2, Moves DEF InLine, Working
  <2>. QED
    BY <2>4, <2>5
<1>. QED
  BY <1>1, <1>2, <1>3, <1>4

\* The entry of a row.
Said(r) == [key |-> r.key, scorer |-> r.scorer,
            outcome |-> IF Over(r.status) THEN r.verdict ELSE "open"]

LEMMA LedgerOf ==
    ASSUME NEW r \in Seq(Row), NEW f, f = [i \in DOMAIN r |-> Said(r[i])],
           NEW S, S = {Said(x) : x \in Row}
    PROVE  /\ f \in Seq(S) /\ Len(f) = Len(r) /\ DOMAIN f = DOMAIN r
           /\ \A i \in DOMAIN r :
                 /\ f[i] = Said(r[i])
                 /\ f[i].key = r[i].key /\ f[i].scorer = r[i].scorer
                 /\ f[i].outcome = "open" <=> ~Over(r[i].status)
<1>1. r \in [1..Len(r) -> Row] /\ Len(r) \in Nat /\ DOMAIN r = 1..Len(r)
  BY LenProperties
<1>3. f \in [1..Len(r) -> S]
  BY <1>1
<1>4. f \in Seq(S) /\ Len(f) = Len(r) /\ DOMAIN f = DOMAIN r
  BY <1>1, <1>3, FunctionIsSeq
<1>5. \A x \in Row : /\ Said(x).key = x.key /\ Said(x).scorer = x.scorer
                     /\ Said(x).outcome = "open" <=> ~Over(x.status)
  BY DEF Said, Over, Row, Outcome, Verdict
<1>6. \A i \in DOMAIN r : r[i] \in Row /\ f[i] = Said(r[i])
  BY <1>1
<1>. QED
  BY <1>4, <1>5, <1>6

LEMMA OutcomesAre ==
    ASSUME TRUE
    PROVE  /\ Outcomes = [i \in DOMAIN rows |-> Said(rows[i])]
           /\ Outcomes' = [i \in DOMAIN rows' |-> Said(rows'[i])]
BY DEF Outcomes, Rows, Said

\* A commit that neither adds a row nor ends one leaves the ledger alone.
LEMMA Silent ==
    ASSUME rows \in Seq(Row), DOMAIN rows' = DOMAIN rows,
           \A i \in DOMAIN rows : Said(rows'[i]) = Said(rows[i])
    PROVE  Outcomes' = Outcomes
BY OutcomesAre

\* A queued row is an accepted entry.
LEMMA Accepts ==
    ASSUME TypeOK, NEW key \in Key \cup {Initial}, NEW scorer \in Scorer,
           rows' = Append(rows, Queued(key, scorer)), WithKey(key) = {}
    PROVE  Ledger!Accept(key, scorer)
<1>0. rows \in Seq(Row) /\ DOMAIN rows = 1..Len(rows) /\ Len(rows) \in Nat
  BY LenProperties DEF TypeOK
<1>1. PICK q \in Row : /\ q = Queued(key, scorer) /\ q.status = "queued"
                       /\ q.key = key /\ q.scorer = scorer
  BY Fresh
<1>2. /\ rows' \in Seq(Row) /\ Len(rows') = Len(rows) + 1
      /\ \A i \in 1..Len(rows) : rows'[i] = rows[i]
      /\ rows'[Len(rows) + 1] = q
  BY <1>0, <1>1, AppendProperties
<1>s. PICK S : S = {Said(x) : x \in Row}
  OBVIOUS
<1>3. PICK f : /\ f = Outcomes /\ f \in Seq(S) /\ Len(f) = Len(rows)
               /\ \A i \in 1..Len(rows) : f[i] = Said(rows[i]) /\ f[i].key = rows[i].key
  <2>1. PICK f : f = Outcomes /\ f = [i \in DOMAIN rows |-> Said(rows[i])]
    BY OutcomesAre
  <2>2. /\ f \in Seq(S) /\ Len(f) = Len(rows) /\ DOMAIN f = DOMAIN rows
        /\ \A i \in DOMAIN rows :
              /\ f[i] = Said(rows[i])
              /\ f[i].key = rows[i].key /\ f[i].scorer = rows[i].scorer
              /\ f[i].outcome = "open" <=> ~Over(rows[i].status)
    BY ONLY <1>0, <1>s, <2>1, LedgerOf
  <2>. QED
    BY <1>0, <2>1, <2>2
<1>4. PICK g : /\ g = Outcomes' /\ g \in Seq(S) /\ Len(g) = Len(rows')
               /\ \A i \in 1..Len(rows') : g[i] = Said(rows'[i])
  <2>1. DOMAIN rows' = 1..Len(rows')
    BY <1>2, LenProperties
  <2>2. PICK g : g = Outcomes' /\ g = [i \in DOMAIN rows' |-> Said(rows'[i])]
    BY OutcomesAre
  <2>3. /\ g \in Seq(S) /\ Len(g) = Len(rows')
        /\ \A i \in DOMAIN rows' : g[i] = Said(rows'[i])
    BY <1>2, <1>s, <2>2, LedgerOf
  <2>. QED
    BY <2>1, <2>2, <2>3
<1>5. PICK e : e = [key |-> key, scorer |-> scorer, outcome |-> "open"]
  OBVIOUS
<1>6. e = Said(q) /\ e \in S
  <2>1. e = Said(q)
    BY <1>1, <1>5 DEF Said, Over
  <2>. QED
    BY <1>s, <2>1
<1>7. PICK h \in Seq(S) :
         /\ h = Append(f, e) /\ Len(h) = Len(rows) + 1
         /\ \A i \in 1..Len(rows) : h[i] = f[i]
         /\ h[Len(rows) + 1] = e
  <2>1. PICK h : h = Append(f, e)
    OBVIOUS
  <2>2. /\ Append(f, e) \in Seq(S) /\ Len(Append(f, e)) = Len(f) + 1
        /\ \A i \in 1..Len(f) : Append(f, e)[i] = f[i]
        /\ Append(f, e)[Len(f) + 1] = e
    BY <1>3, <1>6, AppendProperties
  <2>. QED
    BY <1>3, <2>1, <2>2
<1>8. \A i \in 1..(Len(rows) + 1) : g[i] = h[i]
  <2>1. \A i \in 1..(Len(rows) + 1) : i \in 1..Len(rows) \/ i = Len(rows) + 1
    BY <1>0
  <2>2. ASSUME NEW i \in 1..Len(rows)
        PROVE  g[i] = h[i]
    <3>1. rows'[i] = rows[i] /\ i \in 1..Len(rows')
      BY <1>0, <1>2
    <3>2. g[i] = Said(rows'[i]) /\ f[i] = Said(rows[i]) /\ h[i] = f[i]
      BY <1>3, <1>4, <1>7, <3>1
    <3>. QED
      BY <3>1, <3>2
  <2>3. g[Len(rows) + 1] = h[Len(rows) + 1]
    <3>1. Len(rows) + 1 \in 1..Len(rows') /\ rows'[Len(rows) + 1] = q
      BY <1>0, <1>2
    <3>2. g[Len(rows) + 1] = Said(rows'[Len(rows) + 1])
      BY <1>4, <3>1
    <3>. QED
      BY <1>6, <1>7, <3>1, <3>2
  <2>. QED
    BY <2>1, <2>2, <2>3
<1>9. g = h
  BY <1>2, <1>4, <1>7, <1>8, SeqEqual
<1>10. \A i \in DOMAIN f : f[i].key # key
  <2>1. DOMAIN f = 1..Len(rows)
    BY <1>3, LenProperties
  <2>. QED
    BY <1>0, <1>3, <2>1 DEF WithKey, Rows
<1>. QED
  BY <1>3, <1>4, <1>5, <1>7, <1>9, <1>10 DEF Ledger!Accept

\* The record of the row in line decides the oldest open entry.
LEMMA Decides ==
    ASSUME IInv, InLine, Record
    PROVE  mgr.row \in DOMAIN Outcomes /\ mgr.outcome \in Outcome
           /\ Ledger!Decide(mgr.row, mgr.outcome)
<1>0. /\ rows \in Seq(Row) /\ mgr.pc = "record" /\ mgr.outcome \in Outcome
      /\ mgr.row \in DOMAIN rows /\ rows[mgr.row].status = "running"
      /\ DOMAIN rows = 1..Len(rows) /\ Len(rows) \in Nat
  BY LenProperties DEF IInv, TypeOK, HoldsItsRow, Record, Rows
<1>1. PICK i, w : i = mgr.row /\ w = mgr.outcome
  OBVIOUS
<1>2. PICK r \in Row : r = rows[i]
  BY <1>0, <1>1, RowTypes DEF Rows
<1>3. PICK q : q = Closed(r, Ended)
  OBVIOUS
<1>4. rows' = [rows EXCEPT ![i] = q]
  BY <1>1, <1>2, <1>3 DEF Record, Closed
<1>5. Said(q) = [key |-> r.key, scorer |-> r.scorer, outcome |-> w]
  <2>1. PICK a : a = [n \in DOMAIN r.attempts |->
                        IF r.attempts[n].status = "running" THEN Ended ELSE r.attempts[n]]
    OBVIOUS
  <2>2. q = [r EXCEPT !.status = Status(w), !.verdict = w, !.attempts = a]
    BY <1>1, <1>3, <2>1 DEF Closed, Ended
  <2>3. q.key = r.key /\ q.scorer = r.scorer /\ q.verdict = w /\ q.status = Status(w)
    BY <2>2 DEF Row
  <2>4. Over(q.status)
    BY <2>3 DEF Status, Over
  <2>. QED
    BY <2>3, <2>4 DEF Said
<1>6. PICK f : /\ f = Outcomes /\ DOMAIN f = DOMAIN rows
               /\ f = [j \in DOMAIN rows |-> Said(rows[j])]
               /\ \A j \in DOMAIN rows : f[j].outcome = "open" <=> ~Over(rows[j].status)
  <2>1. PICK f : f = Outcomes /\ f = [j \in DOMAIN rows |-> Said(rows[j])]
    BY OutcomesAre
  <2>2. PICK S : S = {Said(x) : x \in Row}
    OBVIOUS
  <2>3. \A j \in DOMAIN rows : f[j].outcome = "open" <=> ~Over(rows[j].status)
    BY <1>0, <2>1, <2>2, LedgerOf
  <2>. QED
    BY <2>1, <2>3
<1>7. Outcomes' = [f EXCEPT ![i].outcome = w]
  <2>1. Outcomes' = [j \in DOMAIN rows |-> IF j = i THEN Said(q) ELSE Said(rows[j])]
    BY <1>0, <1>1, <1>4, OutcomesAre
  <2>2. f[i] = Said(r) /\ i \in DOMAIN f
    BY <1>0, <1>1, <1>2, <1>6
  <2>3. Said(q) = [Said(r) EXCEPT !.outcome = w]
    BY <1>5 DEF Said
  <2>4. [f EXCEPT ![i].outcome = w] = [j \in DOMAIN rows |-> IF j = i THEN Said(q) ELSE f[j]]
    BY <1>6, <2>2, <2>3
  <2>. QED
    BY <1>6, <2>1, <2>4
<1>8. f[i].outcome = "open"
  BY <1>0, <1>1, <1>6 DEF Over
<1>9. \A j \in DOMAIN f : f[j].outcome = "open" => i <= j
  <2>1. \A j \in DOMAIN rows : j < i => Over(rows[j].status)
    BY <1>0, <1>1 DEF InLine, Rows
  <2>. QED
    BY <1>0, <1>1, <1>6, <2>1
<1>. QED
  BY <1>0, <1>1, <1>6, <1>7, <1>8, <1>9 DEF Ledger!Decide, Ledger!Open

-----------------------------------------------------------------------------
(* Theorems.                                                               *)

LEMMA InitInductive ==
    Init => IInv
<1>. SUFFICES ASSUME Init
              PROVE  IInv
  OBVIOUS
<1> USE VerificationAssumption DEF Init
<1>1. <<>> \in Seq(Row) /\ DOMAIN <<>> = {}
  BY EmptySeq, LenProperties
<1>2. NoRequest \in Request /\ NoRequest.reply = "none"
  BY DEF NoRequest, Request, Reply
<1>3. TypeOK
  BY <1>1, <1>2 DEF TypeOK, Idle, Outcome
<1>4. container \in [DOMAIN container -> {"running"} \cup Outcome]
  OBVIOUS
<1>5. \A i \in Rows : Told(rows[i]) /\ OwnVerdict(i)
  BY <1>1 DEF Rows
<1>6. HoldsItsRow /\ AnswerFirst
  BY DEF HoldsItsRow, AnswerFirst, Idle
<1>7. RequestsAreIdempotent
  BY <1>2 DEF RequestsAreIdempotent
<1>. QED
  BY <1>3, <1>4, <1>5, <1>6, <1>7 DEF IInv

LEMMA TypeStep ==
    ASSUME IInv, [Next]_vars
    PROVE  TypeOK'
<1>1. mgr' \in [pc: {"down", "recover", "reconcile", "queue", "requeue", "loop", "check",
                     "wait", "record"}, row: Nat, outcome: Outcome]
  <2>. PICK m \in [pc: {"down", "recover", "reconcile", "queue", "requeue", "loop", "check",
                        "wait", "record"}, row: Nat, outcome: Outcome] : m = mgr
    BY DEF IInv, TypeOK
  <2>1. \A pc \in {"down", "loop"} :
           Idle(pc) \in [pc: {"down", "recover", "reconcile", "queue", "requeue", "loop", "check",
                             "wait", "record"}, row: Nat, outcome: Outcome]
    BY DEF Idle, Outcome
  <2>2. CASE \E i \in Rows : Claim(i)
    <3>1. PICK i \in Rows : Claim(i)
      BY <2>2
    <3>2. i \in Nat
      BY RowTypes DEF IInv, TypeOK
    <3>3. mgr' = [m EXCEPT !.pc = "check", !.row = i]
      BY <3>1 DEF Claim
    <3>. QED
      BY <3>2, <3>3
  <2>3. CASE Refuse \/ VerifierTimeout
    <3>1. mgr' = [m EXCEPT !.pc = "record", !.outcome = "error"]
      BY <2>3 DEF Refuse, VerifierTimeout
    <3>. QED
      BY <3>1 DEF Outcome
  <2>4. CASE Collect
    <3>1. PICK outcome \in Outcome : mgr' = [m EXCEPT !.pc = "record", !.outcome = outcome]
      BY <2>4 DEF Collect, Output
    <3>. QED
      BY <3>1
  <2>5. CASE Record \/ ManagerCrash
    BY <2>1, <2>5 DEF Record, ManagerCrash
  <2>6. CASE ManagerStart \/ RecoverContent \/ ReconcileTrial \/ ReconcileDefault
             \/ RequeueStuck \/ StartContainer
    <3>1. \E pc \in {"recover", "reconcile", "queue", "requeue", "loop", "wait"} :
             mgr' = [m EXCEPT !.pc = pc]
      BY <2>6 DEF ManagerStart, RecoverContent, ReconcileTrial, ReconcileDefault, RequeueStuck,
         StartContainer, Goto
    <3>. QED
      BY <3>1
  <2>7. CASE UNCHANGED mgr
    BY <2>7
  <2>8. \/ UNCHANGED mgr \/ Record \/ ManagerCrash \/ (\E i \in Rows : Claim(i)) \/ Collect
        \/ Refuse \/ VerifierTimeout \/ ManagerStart \/ RecoverContent \/ ReconcileTrial
        \/ ReconcileDefault \/ RequeueStuck \/ StartContainer
    BY DEF Next, MgrStep, SupStep, SealAnswer, TimeoutVerdict, FinishFromAnswer, RequestCheck,
       RequestInsert, ContainerExits, manager, vars
  <2>. QED
    BY <2>2, <2>3, <2>4, <2>5, <2>6, <2>7, <2>8
<1>2. restarts' \in 0..MaxRestarts
  <2>1. CASE ManagerCrash
    BY <2>1, VerificationAssumption DEF ManagerCrash, IInv, TypeOK
  <2>2. CASE ~ManagerCrash
    BY <2>2 DEF Next, MgrStep, SupStep, ManagerStart, RecoverContent, ReconcileTrial,
       ReconcileDefault, RequeueStuck, Claim, Refuse, StartContainer, Collect, VerifierTimeout,
       Record, SealAnswer, TimeoutVerdict, FinishFromAnswer, RequestCheck, RequestInsert,
       ContainerExits, manager, vars, IInv, TypeOK
  <2>. QED
    BY <2>1, <2>2
<1>3. rows' \in Seq(Row)
  BY RowsStep DEF IInv
<1>4. /\ DOMAIN container' \subseteq Nat \X Nat
      /\ \A c \in DOMAIN container' : container'[c] \in {"running"} \cup Outcome
  BY ContainerStep DEF IInv
<1>. QED
  BY <1>1, <1>2, <1>3, <1>4, AnswerStep, RequestStep DEF TypeOK

\* The rows, the containers, the requests and the trial stay in step through every commit,
\* crash and late verifier.
THEOREM Inductive ==
    Spec => []IInv
<1>1. IInv /\ [Next]_vars => IInv'
  <2>. SUFFICES ASSUME IInv, [Next]_vars
                PROVE  IInv'
    OBVIOUS
  <2>1. TypeOK'
    BY TypeStep
  <2>2. container' \in [DOMAIN container' -> {"running"} \cup Outcome]
    BY ContainerStep DEF IInv
  <2>3. \A i \in DOMAIN rows' : Told(rows'[i])
    BY RowsStep DEF IInv, Kept
  <2>4. \A i \in DOMAIN rows' : OwnVerdict(i)'
    BY VerdictStep
  <2>5. HoldsItsRow'
    BY HoldsStep
  <2>6. AnswerFirst'
    BY AnswerStep
  <2>7. RequestsAreIdempotent'
    BY RequestStep
  <2>. QED
    BY <2>1, <2>2, <2>3, <2>4, <2>5, <2>6, <2>7 DEF IInv, Rows
<1>. QED
  BY <1>1, InitInductive, PTL DEF Spec

\* Every row has its history and the verdict of its own last container.
THEOREM RowsTrue ==
    Spec => []RowsAreTrue
<1>1. IInv => RowsAreTrue
  <2>. SUFFICES ASSUME IInv
                PROVE  HistoryMatches /\ VerdictIsOwn
    BY DEF IInv, RowsAreTrue
  <2>1. HistoryMatches
    BY DEF IInv, HistoryMatches, Told
  <2>2. VerdictIsOwn
    BY DEF IInv, VerdictIsOwn, OwnVerdict
  <2>. QED
    BY <2>1, <2>2
<1>. QED
  BY <1>1, Inductive, PTL

\* A trial sealed with a sealed answer has its first verification.
THEOREM InitialQueued ==
    Spec => []InitialIsQueued
<1>1. IInv => InitialIsQueued
  BY DEF IInv, AnswerFirst, InitialIsQueued
<1>. QED
  BY <1>1, Inductive, PTL

\* Requests under one key are one verification.
THEOREM Idempotent ==
    Spec => []RequestsAreIdempotent
<1>1. IInv => RequestsAreIdempotent
  BY DEF IInv
<1>. QED
  BY <1>1, Inductive, PTL

\* A finished row and a finished attempt keep their outcome.
THEOREM RecordsFinal ==
    Spec => RecordsAreFinal
<1>1. ASSUME IInv, [Next]_vars
      PROVE  [\A i \in Rows :
               /\ Over(rows[i].status) => rows'[i].status = rows[i].status
                                          /\ rows'[i].verdict = rows[i].verdict
               /\ \A n \in DOMAIN rows[i].attempts :
                     Over(rows[i].attempts[n].status) =>
                         rows'[i].attempts[n] = rows[i].attempts[n]]_vars
  <2>1. \A i \in Rows : Kept(i)
    BY <1>1, RowsStep DEF IInv
  <2>. QED
    BY <2>1 DEF Kept, Continues, KeepsAttempts
<1>. QED
  BY <1>1, Inductive, PTL DEF Spec, RecordsAreFinal

\* The manager works the queue off in its order: one row runs at a time, all before it over.
THEOREM InOrder ==
    Spec => []InLine
<1>1. Init => InLine
  BY DEF Init, InLine, Rows
<1>2. IInv /\ InLine /\ [Next]_vars => InLine'
  BY LineStep
<1>. QED
  BY <1>1, <1>2, Inductive, PTL DEF Spec

\* Scoring is the ledger: an entry for each key, decided once and in the order of requests.
THEOREM Implements ==
    Spec => ImplementsLedger
<1>1. Init => Ledger!Init
  <2>. SUFFICES ASSUME Init
                PROVE  Outcomes = <<>>
    BY DEF Ledger!Init
  <2>1. rows = <<>> /\ rows \in Seq(Row) /\ DOMAIN rows = {} /\ Len(rows) = 0
    BY EmptySeq, LenProperties DEF Init
  <2>2. PICK f : f = Outcomes /\ f = [i \in DOMAIN rows |-> Said(rows[i])]
    BY OutcomesAre
  <2>3. f \in Seq({Said(x) : x \in Row}) /\ Len(f) = 0
    BY <2>1, <2>2, LedgerOf
  <2>. QED
    BY <2>2, <2>3, EmptySeq
<1>2. IInv /\ InLine /\ [Next]_vars => [Ledger!Next]_Outcomes
  <2>. SUFFICES ASSUME IInv, InLine, [Next]_vars
                PROVE  Ledger!Next \/ Outcomes' = Outcomes
    OBVIOUS
  <2>0. TypeOK /\ rows \in Seq(Row) /\ (\A i \in Rows : rows[i] \in Row) /\ Rows = DOMAIN rows
    BY RowTypes DEF IInv, TypeOK, Rows
  <2>1. CASE rows' = rows
    BY <2>0, <2>1, Silent
  <2>2. ASSUME NEW key \in Key \cup {Initial}, NEW scorer \in Scorer,
               rows' = Append(rows, Queued(key, scorer)), WithKey(key) = {}
        PROVE  Ledger!Next
    BY <2>0, <2>2, Accepts DEF Ledger!Next
  <2>3. CASE RequeueStuck
    <3>1. ASSUME NEW i \in Rows
          PROVE  Said(rows'[i]) = Said(rows[i])
      <4>1. PICK r, a :
               /\ r \in Row /\ r = rows[i]
               /\ a = [n \in DOMAIN r.attempts |-> Interrupted(r.attempts[n])]
        BY <2>0
      <4>2. rows'[i] = [r EXCEPT !.status = IF r.status = "running" THEN "queued" ELSE r.status,
                                 !.attempts = a]
        BY <2>3, <4>1 DEF RequeueStuck
      <4>. QED
        BY <4>1, <4>2 DEF Said, Over, Row
    <3>. QED
      BY <2>0, <2>3, <3>1, Silent DEF RequeueStuck
  <2>4. ASSUME NEW c \in Rows, Claim(c)
        PROVE  Outcomes' = Outcomes
    <3>1. PICK r, a : r \in Row /\ r = rows[c] /\ a = Append(r.attempts, NewAttempt)
      BY <2>0
    <3>2. /\ rows' = [rows EXCEPT ![c] = [r EXCEPT !.status = "running", !.attempts = a]]
          /\ r.status = "queued"
      BY <2>4, <3>1 DEF Claim, NewAttempt
    <3>3. Said([r EXCEPT !.status = "running", !.attempts = a]) = Said(r)
      BY <3>2 DEF Said, Over, Row
    <3>. QED
      BY <2>0, <3>1, <3>2, <3>3, Silent
  <2>5. CASE Record
    BY <2>5, Decides DEF Ledger!Next, Outcome
  <2>. QED
    BY <2>0, <2>1, <2>2, <2>3, <2>4, <2>5, Commits
<1>. QED
  BY <1>1, <1>2, Inductive, InOrder, PTL DEF Spec, ImplementsLedger, Ledger!Spec
=============================================================================
