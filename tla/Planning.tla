------------------------------ MODULE Planning ------------------------------
(***************************************************************************)
(* Registration and experiment creation by several API processes over one  *)
(* database.  A process migrates (Migration) before it serves; a client    *)
(* that hears nothing posts the same request again, possibly to another    *)
(* process and while its first attempt still runs; a failing admission     *)
(* takes back the task row it has registered.  Every reply a process gives *)
(* is remembered, heard or not.                                            *)
(***************************************************************************)
EXTENDS Migration, FiniteSets

CONSTANTS
    Client,
    Op,         \* what clients may ask for: the union of Creates and Registers
    Target,     \* the configurations of a request, registered and deduplicated
    Provided,   \* the registry of an existing file: references with their content
    Candidate,  \* the task reference an admission registers
    NoKey,
    MaxPosts    \* times each client posts its request

\* kind "create": key, plan (a task, or a suite by reference) and reps; its targets and
\* its paid-run consent are acceptable, or it is refused as for an unknown reference.
\* kind "register": ref and content.
\* A suite's content is the sequence of its tasks' references, a task's is a string.
Creates == {op \in Op : op.kind = "create"}
Registers == Op \ Creates

\* A reference tells its kind: what is registered under a suite's is a list of tasks.
Suites == {op.ref : op \in {o \in Creates : ~o.task}}

ASSUME PlanningAssumption ==
    /\ IsFiniteSet(Target)
    /\ MaxPosts \in [Client -> Nat]
    /\ Candidate \notin DOMAIN Provided \cup Suites
    /\ \A op \in Creates : /\ DOMAIN op = {"kind", "key", "task", "ref", "reps"}
                           /\ op.task \in BOOLEAN /\ op.ref \in STRING /\ op.reps \in Nat
    /\ \A op \in Registers : /\ DOMAIN op = {"kind", "suite", "ref", "content"}
                             /\ op.ref \in Suites => op.content \in Seq(STRING)
    /\ \A ref \in Suites \cap DOMAIN Provided : Provided[ref] \in Seq(STRING)

VARIABLES
    registry,     \* versions: content by reference
    experiments,  \* experiments in creation order, each with its trials
    keys,         \* management_idempotency: request and experiment by key
    work,         \* the request each process is working on
    client,       \* each client's request and how often it was posted
    answers,      \* every reply ever given
    admission     \* the admission's row: none, registered, kept or taken back

planvars == <<registry, experiments, keys, work, client, answers, admission>>
vars == <<migvars, planvars>>

NoOp == [kind |-> "none"]
Free == [pc |-> "free", op |-> NoOp, tasks |-> <<>>]

\* A file that no release has migrated holds no versions.
Init ==
    /\ MigInit
    /\ registry = IF schema = <<>> THEN [ref \in {} |-> ""] ELSE Provided
    /\ experiments = <<>>
    /\ keys = [k \in {} |-> 0]
    /\ work = [p \in Process |-> Free]
    /\ client = [c \in Client |-> [op |-> NoOp, posts |-> 0]]
    /\ answers = {}
    /\ admission = "none"

Registered == DOMAIN registry
Extended(f, x, y) == [z \in DOMAIN f \cup {x} |-> IF z = x THEN y ELSE f[z]]

-----------------------------------------------------------------------------
(* Clients.                                                                *)

First(op) == IF op.kind = "create" THEN "key" ELSE "fetch"
Serve(p, op) == work' = [work EXCEPT ![p] = [Free EXCEPT !.pc = First(op), !.op = op]]

\* A first post, or the same request again after a timeout or a lost connection.
Post(c, p) ==
    /\ Running(p)
    /\ work[p].pc = "free"
    /\ client[c].posts < MaxPosts[c]
    /\ \E op \in IF client[c].posts = 0 THEN Op ELSE {client[c].op} :
          /\ client' = [client EXCEPT ![c] = [op |-> op, posts |-> @.posts + 1]]
          /\ Serve(p, op)
    /\ UNCHANGED <<migvars, registry, experiments, keys, answers, admission>>

At(p, pc) == Running(p) /\ work[p].pc = pc
Go(p, pc) == work' = [work EXCEPT ![p].pc = pc]

\* A 2xx reply names the experiment; a version's reply shows what was asked for.
Answer(p, code, about) ==
    /\ answers' = answers \cup {[op |-> work[p].op, code |-> code, about |-> about]}
    /\ work' = [work EXCEPT ![p] = Free]

-----------------------------------------------------------------------------
(* create_experiment.                                                      *)

\* The request digest is over the body, the key apart.
Body(op) == [op EXCEPT !.key = NoKey]
InUse(op) == op.key \in DOMAIN keys
Replay(p) ==
    LET op == work[p].op IN
    IF keys[op.key].body = Body(op) THEN Answer(p, 200, keys[op.key].experiment)
    ELSE Answer(p, 409, 0)

\* The key is looked up before anything is validated.
ReadKey(p) ==
    /\ At(p, "key")
    /\ UNCHANGED <<migvars, registry, experiments, keys, client, admission>>
    /\ IF InUse(work[p].op) THEN Replay(p) ELSE Go(p, "resolve") /\ UNCHANGED answers

\* The tasks a request selects: one, or a suite's as it lists them.
Selected(op) == IF op.task THEN <<op.ref>> ELSE registry[op.ref]

Admissible(op) ==
    /\ op.ref \in Registered
    /\ Range(Selected(op)) \subseteq Registered

\* 422 for what is not registered or not supported, 403 for a missing consent.
Refused(p) ==
    /\ At(p, "resolve")
    /\ ~Admissible(work[p].op)
    /\ Answer(p, 422, 0)
    /\ UNCHANGED <<migvars, registry, experiments, keys, client, admission>>

Resolve(p) ==
    /\ At(p, "resolve")
    /\ Admissible(work[p].op)
    /\ work' = [work EXCEPT ![p].pc = "insert", ![p].tasks = Selected(work[p].op)]
    /\ UNCHANGED <<migvars, registry, experiments, keys, client, answers, admission>>

Plan(tasks, op) == Range(tasks) \X Target \X (1..op.reps)
Experiment(p) ==
    [key |-> work[p].op.key, body |-> Body(work[p].op), tasks |-> work[p].tasks,
     trials |-> Plan(work[p].tasks, work[p].op)]

\* The constraints that the one transaction of the plan may run into.
KeyTaken(p) == InUse(work[p].op)
TaskGone(p) == mig[p].foreignKeys /\ ~(Range(work[p].tasks) \subseteq Registered)
TrialTwice(p) == ~IsInjective(work[p].tasks)
IntegrityError(p) == KeyTaken(p) \/ TaskGone(p) \/ TrialTwice(p)

Inserted(p) ==
    /\ experiments' = Append(experiments, Experiment(p))
    /\ keys' = IF work[p].op.key = NoKey THEN keys
               ELSE Extended(keys, work[p].op.key,
                             [body |-> Body(work[p].op), experiment |-> Len(experiments) + 1])
    /\ Answer(p, 202, Len(experiments) + 1)

\* Mutant: the experiment and its key are committed before the trials.
InsertKeyFirst(p) ==
    /\ At(p, "insert")
    /\ IF ~KeyTaken(p)
       THEN /\ Inserted(p)
            /\ UNCHANGED <<migvars, registry, client, admission>>
       ELSE /\ Go(p, "reread")
            /\ UNCHANGED <<migvars, registry, experiments, keys, client, answers, admission>>

\* Mutant: no UNIQUE (principal, idempotency_key).
InsertAgain(p) ==
    /\ At(p, "insert")
    /\ ~TaskGone(p) /\ ~TrialTwice(p)
    /\ Inserted(p)
    /\ UNCHANGED <<migvars, registry, client, admission>>

\* One transaction: experiment, key and trials, or nothing.
Insert(p) ==
    /\ At(p, "insert")
    /\ ~IntegrityError(p)
    /\ Inserted(p)
    /\ UNCHANGED <<migvars, registry, client, admission>>

\* Without a key the IntegrityError is raised again, a 500.
InsertFails(p) ==
    /\ At(p, "insert")
    /\ IntegrityError(p)
    /\ UNCHANGED <<migvars, registry, experiments, keys, client, admission>>
    /\ IF work[p].op.key = NoKey THEN Answer(p, 500, 0) ELSE Go(p, "reread") /\ UNCHANGED answers

\* The row of the process that won the race; without one, the answer is 409 as well.
Reread(p) ==
    /\ At(p, "reread")
    /\ IF InUse(work[p].op) THEN Replay(p) ELSE Answer(p, 409, 0)
    /\ UNCHANGED <<migvars, registry, experiments, keys, client, admission>>

-----------------------------------------------------------------------------
(* register_version.                                                       *)

Holds(op) == op.ref \in Registered /\ registry[op.ref] = op.content

\* A suite's tasks must be registered; a version that exists answers the request.
Fetch(p) ==
    /\ At(p, "fetch")
    /\ UNCHANGED <<migvars, registry, experiments, keys, client, admission>>
    /\ LET op == work[p].op IN
       IF op.suite /\ ~(Range(op.content) \subseteq Registered) THEN Answer(p, 422, 0)
       ELSE IF op.ref \notin Registered THEN Go(p, "register") /\ UNCHANGED answers
       ELSE Answer(p, IF Holds(op) THEN 200 ELSE 409, 0)

Register(p) ==
    /\ At(p, "register")
    /\ UNCHANGED <<migvars, experiments, keys, client, admission>>
    /\ IF work[p].op.ref \in Registered
       THEN Go(p, "refetch") /\ UNCHANGED <<registry, answers>>
       ELSE /\ registry' = Extended(registry, work[p].op.ref, work[p].op.content)
            /\ Answer(p, 201, 0)

\* UNIQUE (kind, name, version) refused the insert: the winner's row decides.
Refetch(p) ==
    /\ At(p, "refetch")
    /\ IF Holds(work[p].op) THEN Answer(p, 200, 0) ELSE Answer(p, 409, 0)
    /\ UNCHANGED <<migvars, registry, experiments, keys, client, admission>>

-----------------------------------------------------------------------------
(* The environment: admissions and process failures.                       *)

\* Its row is rolled back only when this registration has created it.
AdmissionRegisters ==
    /\ admission = "none"
    /\ Candidate \notin Registered
    /\ admission' = "registered"
    /\ registry' = Extended(registry, Candidate, "candidate")
    /\ UNCHANGED <<migvars, experiments, keys, work, client, answers>>

Referenced(ref) ==
    \E i \in DOMAIN experiments : \E trial \in experiments[i].trials : trial[1] = ref

\* _rollback_candidate: the row goes, unless a trial's foreign key holds it.
AdmissionFails ==
    /\ admission = "registered"
    /\ IF Referenced(Candidate)
       THEN admission' = "kept" /\ UNCHANGED registry
       ELSE /\ admission' = "gone"
            /\ registry' = [ref \in Registered \ {Candidate} |-> registry[ref]]
    /\ UNCHANGED <<migvars, experiments, keys, work, client, answers>>

\* A process killed while it serves: its open transaction, if any, never happened.
ProcessKilled(p) ==
    /\ Kill(p)
    /\ work' = [work EXCEPT ![p] = Free]
    /\ UNCHANGED <<registry, experiments, keys, client, answers, admission>>

-----------------------------------------------------------------------------
Handle(p) ==
    \/ ReadKey(p) \/ Refused(p) \/ Resolve(p) \/ Insert(p) \/ InsertFails(p) \/ Reread(p)
    \/ Fetch(p) \/ Register(p) \/ Refetch(p)

Next ==
    \/ \E p \in Process : MigStep(p) /\ UNCHANGED planvars
    \/ \E p \in Process : Handle(p) \/ ProcessKilled(p)
    \/ \E c \in Client, p \in Process : Post(c, p)
    \/ AdmissionRegisters \/ AdmissionFails

Spec == Init /\ [][Next]_vars

\* The operator restarts a process that ended, and each process runs what it began.
FairSpec == Spec /\ \A p \in Process : WF_vars(MigStep(p) /\ UNCHANGED planvars)
                                       /\ WF_vars(Handle(p))

-----------------------------------------------------------------------------
(* Properties.                                                             *)

\* A plan is created whole or not at all, whatever happens to its tasks between their
\* resolution and the insert: one trial for each task listed, target and repetition,
\* each of a registered task, and no key without the plan it stands for.
PlanIsWhole ==
    /\ \A i \in DOMAIN experiments :
          LET e == experiments[i] IN
          /\ Cardinality(e.trials) = Len(e.tasks) * Cardinality(Target) * e.body.reps
          /\ \A trial \in e.trials : trial[1] \in Registered
          /\ e.key # NoKey => e.key \in DOMAIN keys
    /\ \A k \in DOMAIN keys : keys[k].experiment \in DOMAIN experiments

\* Under one key there is one plan, and everybody who was told 2xx under that key was
\* told of that plan and had asked for it, whether a retry met its own first attempt
\* in another process, came after a crash, or raced another client.
Named(a) == a.op.kind = "create" /\ a.code \in {200, 202}
RepliesNameOnePlan ==
    /\ \A i, j \in DOMAIN experiments :
          experiments[i].key # NoKey /\ experiments[i].key = experiments[j].key => i = j
    /\ \A a \in answers : Named(a) =>
          /\ a.about \in DOMAIN experiments
          /\ experiments[a.about].body = Body(a.op)
          /\ experiments[a.about].key = a.op.key

\* Two clients that were told a reference is registered were told the same content,
\* and it is what the registry holds: versions are immutable, whoever won the race.
RegistrationAgrees ==
    \A a \in answers : a.op.kind = "register" /\ a.code \in {200, 201} =>
        a.op.ref \in Registered /\ registry[a.op.ref] = a.op.content

\* Every 2xx reply stays true: of experiments and of versions.
RepliesAreTrue == RepliesNameOnePlan /\ RegistrationAgrees

-----------------------------------------------------------------------------
(* A statement of the sources that the code does not keep.                 *)

\* 409: "this Idempotency-Key was already used with a different request"
ConflictIsReal ==
    \A a \in answers : a.op.kind = "create" /\ a.code = 409 =>
        /\ InUse(a.op)
        /\ keys[a.op.key].body # Body(a.op)

=============================================================================
