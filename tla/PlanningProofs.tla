--------------------------- MODULE PlanningProofs ---------------------------
(***************************************************************************)
(* Proofs about Planning, for any requests, clients, processes, versions   *)
(* and migrations: what was created or answered once stays so, under one   *)
(* key there is one plan, every plan is whole, and nobody serves before    *)
(* the schema is complete.                                                 *)
(***************************************************************************)
EXTENDS Planning, FiniteSetTheorems, TLAPS

-----------------------------------------------------------------------------
(* The start of a server.  MigInv speaks of the variables of Migration     *)
(* alone, and is preserved by every step of a starting process and by its  *)
(* death, for any number of processes, migrations and kills.               *)

\* Whoever runs a script holds the write lock alone.
LockHeld == \A p \in Process : mig[p].pc = "script" => writer = {p}

\* What a process believes applied is applied, and so is all that it has left behind; it
\* runs the script of a migration that exists, with the foreign keys off only then.
Behind ==
    \A p \in Process :
        /\ mig[p].seen \subseteq Applied
        /\ mig[p].at <= Len(schema) + 1
        /\ mig[p].pc = "script" => mig[p].at \in Migrations
        /\ mig[p].pc = "ready" => mig[p].at = Newest + 1
        /\ mig[p].pc \in {"list", "next", "ready"} => mig[p].foreignKeys

MigInv == MigTypeOK /\ SchemaIsInOrder /\ LockHeld /\ Behind

-----------------------------------------------------------------------------
(* The schema.                                                             *)

\* In a schema in order, the applied migrations are the first ones.
LEMMA AppliedIsPrefix ==
    ASSUME MigTypeOK, SchemaIsInOrder
    PROVE  Applied = 1..Len(schema) /\ Len(schema) \in 0..Newest
<1> USE MigrationAssumption DEF MigTypeOK, SchemaIsInOrder, Migrations
<1>1. Len(schema) \in Nat /\ DOMAIN schema = 1..Len(schema)
  OBVIOUS
<1>2. Applied = 1..Len(schema)
  BY <1>1 DEF Applied, Range
<1>3. Len(schema) = 0 \/ schema[Len(schema)] = Len(schema)
  BY <1>1
<1>4. \A i \in DOMAIN schema : schema[i] \in 1..Newest
  BY <1>1
<1>. QED
  BY <1>1, <1>2, <1>3, <1>4

\* A process that is ready has the whole schema under it.
LEMMA ReadyHasAll == MigInv => StartsAreSerial
<1> SUFFICES ASSUME MigInv PROVE ReadyIsMigrated
  BY DEF MigInv, StartsAreSerial
<1> USE DEF MigInv
<1>1. ASSUME NEW p \in Process, Running(p) PROVE Applied = Migrations /\ mig[p].foreignKeys
  <2>1. mig[p].at = Newest + 1 /\ mig[p].at <= Len(schema) + 1 /\ mig[p].foreignKeys
    BY <1>1 DEF Running, Behind
  <2>2. Len(schema) = Newest
    BY <2>1, AppliedIsPrefix, MigrationAssumption
  <2>. QED
    BY <2>1, <2>2, AppliedIsPrefix DEF Migrations
<1>. QED
  BY <1>1 DEF ReadyIsMigrated

\* The next migration goes to the end of the schema.
LEMMA CommitExtends ==
    ASSUME MigInv, NEW p \in Process, CommitScript(p)
    PROVE  /\ schema' \in Seq(Migrations)
           /\ SchemaIsInOrder'
           /\ Len(schema') = Len(schema) + 1
           /\ Len(schema) + 1 = mig[p].at
           /\ Applied' = Applied \cup {mig[p].at}
<1> USE DEF MigInv, MigTypeOK
<1>1. mig[p].at \in Migrations /\ mig[p].at <= Len(schema) + 1
  BY DEF Behind, CommitScript
<1>2. mig[p].at \notin 1..Len(schema)
  BY AppliedIsPrefix DEF CommitScript
<1>3. mig[p].at = Len(schema) + 1
  BY <1>1, <1>2, AppliedIsPrefix DEF Migrations
<1>4. /\ schema' \in Seq(Migrations)
      /\ Len(schema') = Len(schema) + 1
      /\ schema' = Append(schema, mig[p].at)
  BY <1>1 DEF CommitScript
<1>5. SchemaIsInOrder'
  BY <1>3, <1>4 DEF SchemaIsInOrder
<1>6. Applied' = Applied \cup {mig[p].at}
  <2>1. /\ DOMAIN schema' = DOMAIN schema \cup {mig[p].at}
        /\ schema'[mig[p].at] = mig[p].at
        /\ \A i \in DOMAIN schema : schema'[i] = schema[i]
    BY <1>3, <1>4
  <2>. QED
    BY <2>1 DEF Applied, Range
<1>. QED
  BY <1>3, <1>4, <1>5, <1>6

-----------------------------------------------------------------------------
(* The steps.                                                              *)

\* A new file or one of an earlier release is in order.
LEMMA MigInitInductive == MigInit => MigInv
<1> SUFFICES ASSUME MigInit PROVE MigInv
  OBVIOUS
<1> USE MigrationAssumption
<1>1. PICK n \in 0..Newest : schema = [i \in 1..n |-> i]
  BY DEF MigInit
<1>2. schema \in Seq(Migrations) /\ SchemaIsInOrder /\ Len(schema) = n
  BY <1>1 DEF Migrations, SchemaIsInOrder
<1>3. MigTypeOK
  BY <1>2 DEF MigInit, MigTypeOK, Down
<1>4. LockHeld
  BY DEF MigInit, LockHeld, Down
<1>5. Behind
  BY <1>2 DEF MigInit, Behind, Down
<1>. QED
  BY <1>2, <1>3, <1>4, <1>5 DEF MigInv

\* One process's run of migrate, with the versions it may be at.
RunsAt(versions) ==
    [pc: {"down", "list", "next", "script", "ready"}, seen: SUBSET Migrations, at: versions,
     foreignKeys: BOOLEAN]

\* A step replaces one process's run by another of the right type.
LEMMA RunReplaced ==
    ASSUME MigTypeOK, NEW p \in Process, NEW run \in RunsAt(1..Newest + 1),
           mig' = [mig EXCEPT ![p] = run],
           schema' \in Seq(Migrations), writer' \subseteq Process, kills' = kills
    PROVE  MigTypeOK'
BY DEF MigTypeOK, RunsAt

\* A run stays one when it goes on to a version in range.
LEMMA RunMoves ==
    ASSUME NEW versions, NEW run \in RunsAt(versions), NEW on \in BOOLEAN,
           NEW pc \in {"down", "list", "next", "script", "ready"}
    PROVE  /\ [run EXCEPT !.pc = pc] \in RunsAt(versions)
           /\ [run EXCEPT !.pc = pc, !.foreignKeys = on] \in RunsAt(versions)
           /\ \A seen \in SUBSET Migrations :
                 [run EXCEPT !.pc = pc, !.seen = seen] \in RunsAt(versions)
           /\ run.at + 1 \in versions =>
                 /\ [run EXCEPT !.at = @ + 1] \in RunsAt(versions)
                 /\ [run EXCEPT !.pc = pc, !.at = @ + 1, !.foreignKeys = on] \in RunsAt(versions)
BY DEF RunsAt

\* Every step of a start keeps the types.
LEMMA MigTypeStep == ASSUME MigInv, NEW p \in Process, MigStep(p) PROVE MigTypeOK'
<1>0. /\ MigTypeOK /\ Newest \in Nat
      /\ mig[p] \in RunsAt(1..Newest + 1) /\ Down \in RunsAt(1..Newest + 1)
  BY MigrationAssumption DEF MigInv, MigTypeOK, RunsAt, Down
<1>1. CASE Connect(p)
  <2>1. [Down EXCEPT !.pc = "list", !.foreignKeys = TRUE] \in RunsAt(1..Newest + 1)
    BY <1>0, RunMoves
  <2>. QED
    BY <1>0, <1>1, <2>1, RunReplaced DEF Connect, MigTypeOK
<1>2. CASE ReadApplied(p)
  <2>1. mig' = [mig EXCEPT ![p] = [mig[p] EXCEPT !.pc = "next", !.seen = Applied]]
    BY <1>2 DEF ReadApplied
  <2>2. Applied \subseteq Migrations
    BY AppliedIsPrefix, MigrationAssumption DEF MigInv, Migrations
  <2>3. [mig[p] EXCEPT !.pc = "next", !.seen = Applied] \in RunsAt(1..Newest + 1)
    BY <1>0, <2>2, RunMoves
  <2>. QED
    BY <1>0, <1>2, <2>1, <2>3, RunReplaced DEF ReadApplied, MigTypeOK
<1>3. CASE SkipApplied(p)
  <2>1. mig' = [mig EXCEPT ![p] = [mig[p] EXCEPT !.at = @ + 1]]
    BY <1>3 DEF SkipApplied
  <2>2. mig[p].at + 1 \in 1..Newest + 1
    BY <1>0, <1>3 DEF SkipApplied, Migrations, RunsAt
  <2>3. [mig[p] EXCEPT !.at = @ + 1] \in RunsAt(1..Newest + 1)
    BY <1>0, <2>2, RunMoves
  <2>. QED
    BY <1>0, <1>3, <2>1, <2>3, RunReplaced DEF SkipApplied, MigTypeOK
<1>4. CASE BeginScript(p)
  <2>1. mig' = [mig EXCEPT ![p] = [mig[p] EXCEPT !.pc = "script", !.foreignKeys = FALSE]]
    BY <1>4 DEF BeginScript
  <2>2. [mig[p] EXCEPT !.pc = "script", !.foreignKeys = FALSE] \in RunsAt(1..Newest + 1)
    BY <1>0, RunMoves
  <2>. QED
    BY <1>0, <1>4, <2>1, <2>2, RunReplaced DEF BeginScript, MigTypeOK
<1>5. CASE LockTimeout(p)
  BY <1>0, <1>5, RunReplaced DEF LockTimeout, MigTypeOK
<1>6. ASSUME mig[p].at \in Migrations, mig' = [mig EXCEPT ![p] = Onward(p)], kills' = kills,
             schema' \in Seq(Migrations), writer' = {}
      PROVE  MigTypeOK'
  <2>1. mig[p].at + 1 \in 1..Newest + 1
    BY <1>0, <1>6 DEF Migrations
  <2>2. Onward(p) \in RunsAt(1..Newest + 1)
    BY <1>0, <2>1, RunMoves DEF Onward
  <2>. QED
    BY <1>0, <1>6, <2>2, RunReplaced
<1>7. CASE AlreadyApplied(p)
  BY <1>0, <1>6, <1>7 DEF AlreadyApplied, MigInv, Behind, MigTypeOK
<1>8. CASE CommitScript(p)
  BY <1>0, <1>6, <1>8, CommitExtends DEF CommitScript, MigInv, Behind
<1>9. CASE Migrated(p)
  <2>1. mig' = [mig EXCEPT ![p] = [mig[p] EXCEPT !.pc = "ready"]]
    BY <1>9 DEF Migrated
  <2>2. [mig[p] EXCEPT !.pc = "ready"] \in RunsAt(1..Newest + 1)
    BY <1>0, RunMoves
  <2>. QED
    BY <1>0, <1>9, <2>1, <2>2, RunReplaced DEF Migrated, MigTypeOK
<1>. QED
  BY <1>1, <1>2, <1>3, <1>4, <1>5, <1>7, <1>8, <1>9 DEF MigStep

\* The lock passes from one process to another only through nobody's hands.
LEMMA LockStep == ASSUME MigInv, NEW p \in Process, MigStep(p) PROVE LockHeld'
<1> USE DEF MigInv, MigTypeOK, LockHeld, Down, Onward
<1>1. CASE Connect(p)
  BY <1>1 DEF Connect
<1>2. CASE ReadApplied(p)
  BY <1>2 DEF ReadApplied
<1>3. CASE SkipApplied(p)
  BY <1>3 DEF SkipApplied
<1>4. CASE BeginScript(p)
  BY <1>4 DEF BeginScript
<1>5. CASE LockTimeout(p)
  BY <1>5 DEF LockTimeout
<1>6. CASE AlreadyApplied(p)
  BY <1>6 DEF AlreadyApplied
<1>7. CASE CommitScript(p)
  <2>1. \A q \in Process : mig'[q].pc = "script" => q # p /\ mig'[q] = mig[q]
    BY <1>7 DEF CommitScript
  <2>2. \A q \in Process : mig[q].pc = "script" => q = p
    BY <1>7 DEF CommitScript
  <2>. QED
    BY <2>1, <2>2
<1>8. CASE Migrated(p)
  BY <1>8 DEF Migrated
<1>. QED
  BY <1>1, <1>2, <1>3, <1>4, <1>5, <1>6, <1>7, <1>8 DEF MigStep

\* A process goes past a migration only when it is applied.
LEMMA BehindStep == ASSUME MigInv, NEW p \in Process, MigStep(p) PROVE Behind' /\ SchemaIsInOrder'
<1> USE MigrationAssumption DEF MigInv, MigTypeOK, Down, Onward
<1>0. ASSUME UNCHANGED schema PROVE UNCHANGED Applied /\ SchemaIsInOrder'
  BY <1>0 DEF Applied, SchemaIsInOrder
<1>1. CASE Connect(p)
  BY <1>0, <1>1 DEF Connect, Behind
<1>2. CASE ReadApplied(p)
  BY <1>0, <1>2 DEF ReadApplied, Behind
<1>3. CASE SkipApplied(p)
  <2>1. mig[p].at + 1 <= Len(schema) + 1
    BY <1>3, AppliedIsPrefix DEF SkipApplied, Behind
  <2>. QED
    BY <1>0, <1>3, <2>1 DEF SkipApplied, Behind
<1>4. CASE BeginScript(p)
  BY <1>0, <1>4 DEF BeginScript, Behind
<1>5. CASE LockTimeout(p)
  BY <1>0, <1>5, AppliedIsPrefix DEF LockTimeout, Behind
<1>6. CASE AlreadyApplied(p)
  <2>1. mig[p].at + 1 <= Len(schema) + 1
    BY <1>6, AppliedIsPrefix DEF AlreadyApplied
  <2>. QED
    BY <1>0, <1>6, <2>1 DEF AlreadyApplied, Behind
<1>7. CASE CommitScript(p)
  <2>1. /\ SchemaIsInOrder' /\ Len(schema') = Len(schema) + 1
        /\ Len(schema) + 1 = mig[p].at /\ Applied' = Applied \cup {mig[p].at}
    BY <1>7, CommitExtends
  <2>2. Len(schema) \in Nat
    OBVIOUS
  <2>. QED
    BY <1>7, <2>1, <2>2 DEF CommitScript, Behind
<1>8. CASE Migrated(p)
  BY <1>0, <1>8 DEF Migrated, Behind
<1>. QED
  BY <1>1, <1>2, <1>3, <1>4, <1>5, <1>6, <1>7, <1>8 DEF MigStep

\* A starting process that is killed leaves the others as they were.
LEMMA KillStep == ASSUME MigInv, NEW p \in Process, Kill(p) PROVE MigInv'
<1> USE MigrationAssumption DEF MigInv, Kill, Down
<1>1. UNCHANGED Applied /\ SchemaIsInOrder'
  BY DEF Applied, SchemaIsInOrder
<1>2. MigTypeOK'
  BY DEF MigTypeOK
<1>3. LockHeld'
  BY DEF MigTypeOK, LockHeld
<1>4. Behind'
  BY <1>1, AppliedIsPrefix DEF MigTypeOK, Behind
<1>. QED
  BY <1>1, <1>2, <1>3, <1>4

\* Whatever a process does on its way to serving, the start stays in order.
LEMMA MigInvStep ==
    ASSUME MigInv, NEW p \in Process, MigStep(p) \/ Kill(p) \/ UNCHANGED migvars
    PROVE  MigInv'
<1>1. CASE MigStep(p)
  BY <1>1, MigTypeStep, LockStep, BehindStep DEF MigInv
<1>2. CASE Kill(p)
  BY <1>2, KillStep
<1>3. CASE UNCHANGED migvars
  BY <1>3 DEF migvars, MigInv, MigTypeOK, SchemaIsInOrder, LockHeld, Behind, Applied
<1>. QED
  BY <1>1, <1>2, <1>3

-----------------------------------------------------------------------------
(* The requests that running processes serve.                              *)

CreatePc == {"key", "resolve", "insert", "reread"}
RegisterPc == {"fetch", "register", "refetch"}

Keys == {op.key : op \in Creates}
Bodies == {Body(op) : op \in Creates}
Experiments ==
    [key: Keys, body: Bodies, tasks: Seq(STRING), trials: SUBSET (STRING \X Target \X Nat)]
Work == [pc: {"free"} \cup CreatePc \cup RegisterPc, op: Op \cup {NoOp}, tasks: Seq(STRING)]

-----------------------------------------------------------------------------
(* The inductive invariant.                                                *)

\* The types of what requests leave behind.
Typed ==
    /\ experiments \in Seq(Experiments)
    /\ work \in [Process -> Work]
    /\ client \in [Client -> [op: Op \cup {NoOp}, posts: Nat]]

\* A process works on a request that somebody made, with the steps of its kind.
WorkFits ==
    /\ \A p \in Process :
          /\ work[p].pc \in CreatePc => work[p].op \in Creates
          /\ work[p].pc \in RegisterPc => work[p].op \in Registers
    /\ \A c \in Client : client[c].posts # 0 => client[c].op \in Op

\* A key stands for the one experiment that was created under it.
KeysFit ==
    /\ NoKey \notin DOMAIN keys
    /\ \A key \in DOMAIN keys :
          /\ keys[key].experiment \in DOMAIN experiments
          /\ experiments[keys[key].experiment].key = key
          /\ experiments[keys[key].experiment].body = keys[key].body
    /\ \A i \in DOMAIN experiments : experiments[i].key # NoKey =>
          /\ experiments[i].key \in DOMAIN keys
          /\ keys[experiments[i].key].experiment = i

\* Under a suite's reference there is a list of tasks.
SuitesFit == \A ref \in Suites \cap Registered : registry[ref] \in Seq(STRING)

\* A reply is true of what exists now; of the admission's candidate it may have ceased to be.
IsTrue(a) ==
    /\ a.op \in Op
    /\ Named(a) => /\ a.about \in DOMAIN experiments
                   /\ experiments[a.about].body = Body(a.op)
                   /\ experiments[a.about].key = a.op.key
    /\ a.op.kind = "register" /\ a.code \in {200, 201} /\ a.op.ref # Candidate => Holds(a.op)
AnswersTrue == \A a \in answers : IsTrue(a)

\* One trial for each task listed, target and repetition, each of a registered task.
IsWhole(e) ==
    /\ Cardinality(e.trials) = Len(e.tasks) * Cardinality(Target) * e.body.reps
    /\ \A trial \in e.trials : trial[1] \in Registered
PlansWhole == \A i \in DOMAIN experiments : IsWhole(experiments[i])

IInv == MigInv /\ Typed /\ WorkFits /\ KeysFit /\ SuitesFit /\ AnswersTrue /\ PlansWhole

-----------------------------------------------------------------------------
(* Plans.                                                                  *)

\* A list without repetition has as many members as its length says.
LEMMA ListedOnce ==
    ASSUME NEW S, NEW list \in Seq(S), IsInjective(list)
    PROVE  IsFiniteSet(Range(list)) /\ Cardinality(Range(list)) = Len(list)
<1>1. Len(list) \in Nat /\ DOMAIN list = 1..Len(list)
  OBVIOUS
<1>2. list \in Bijection(1..Len(list), Range(list))
  BY <1>1 DEF Bijection, Injection, Surjection, Range, IsInjective
<1>3. ExistsBijection(1..Len(list), Range(list))
  BY <1>2 DEF ExistsBijection
<1>. QED
  BY <1>1, <1>3, FS_CountingElements, FS_NatBijection

\* The triples over three finite sets.
LEMMA TriplesCounted ==
    ASSUME NEW A, NEW B, NEW C, IsFiniteSet(A), IsFiniteSet(B), IsFiniteSet(C)
    PROVE  Cardinality(A \X B \X C) = Cardinality(A) * Cardinality(B) * Cardinality(C)
<1>. DEFINE Nested == (A \X B) \X C
            flat == [x \in Nested |-> <<x[1][1], x[1][2], x[2]>>]
<1>1. /\ IsFiniteSet(A \X B)
      /\ Cardinality(A \X B) = Cardinality(A) * Cardinality(B)
  BY FS_Product
<1>2. /\ IsFiniteSet(Nested)
      /\ Cardinality(Nested) = Cardinality(A \X B) * Cardinality(C)
  BY <1>1, FS_Product
<1>3. flat \in [Nested -> A \X B \X C]
  OBVIOUS
<1>4. ASSUME NEW x \in Nested, NEW y \in Nested, flat[x] = flat[y] PROVE x = y
  <2>1. /\ x = <<x[1], x[2]>> /\ x[1] = <<x[1][1], x[1][2]>>
        /\ y = <<y[1], y[2]>> /\ y[1] = <<y[1][1], y[1][2]>>
    OBVIOUS
  <2>2. x[1][1] = y[1][1] /\ x[1][2] = y[1][2] /\ x[2] = y[2]
    BY <1>4
  <2>. QED
    BY <2>1, <2>2
<1>5. ASSUME NEW z \in A \X B \X C PROVE \E x \in Nested : flat[x] = z
  <2>1. <<<<z[1], z[2]>>, z[3]>> \in Nested
    OBVIOUS
  <2>2. flat[<<<<z[1], z[2]>>, z[3]>>] = <<z[1], z[2], z[3]>>
    BY <2>1
  <2>. QED
    BY <2>1, <2>2
<1>6. flat \in Bijection(Nested, A \X B \X C)
  BY <1>3, <1>4, <1>5 DEF Bijection, Injection, Surjection, IsInjective
<1>7. ExistsBijection(Nested, A \X B \X C)
  BY <1>6 DEF ExistsBijection
<1>. QED
  BY <1>1, <1>2, <1>7, FS_Bijection

\* The digest's request is the request, the key apart.
LEMMA BodyKeepsRequest ==
    ASSUME NEW op \in Creates
    PROVE  Body(op) \in Bodies /\ Body(op).reps = op.reps /\ op.reps \in Nat /\ op.key \in Keys
BY PlanningAssumption DEF Body, Bodies, Keys

\* A plan has one trial for each task, target and repetition.
LEMMA PlanCounted ==
    ASSUME NEW op \in Creates, NEW tasks \in Seq(STRING), IsInjective(tasks)
    PROVE  /\ Cardinality(Plan(tasks, op)) = Len(tasks) * Cardinality(Target) * op.reps
           /\ Plan(tasks, op) \in SUBSET (STRING \X Target \X Nat)
           /\ \A trial \in Plan(tasks, op) : trial[1] \in Range(tasks)
<1>1. op.reps \in Nat
  BY BodyKeepsRequest
<1>2. IsFiniteSet(1..op.reps) /\ Cardinality(1..op.reps) = op.reps
  <2>1. \A n \in Nat : IsFiniteSet(1..n) /\ Cardinality(1..n) = n
    <3>1. TAKE n \in Nat
    <3>2. 1 \in Int /\ n \in Int
      OBVIOUS
    <3>3. IsFiniteSet(1..n) /\ Cardinality(1..n) = IF 1 > n THEN 0 ELSE n - 1 + 1
      BY <3>2, FS_Interval
    <3>. QED
      BY <3>3
  <2>. QED
    BY <1>1, <2>1
<1>3. Range(tasks) \subseteq STRING
  BY DEF Range
<1>. QED
  BY <1>1, <1>2, <1>3, ListedOnce, TriplesCounted, PlanningAssumption DEF Plan

-----------------------------------------------------------------------------
(* Answers and steps in general.                                           *)

\* The steps of one request that leave experiments, keys and versions alone.
Quiet(p) ==
    \/ ReadKey(p) \/ Refused(p) \/ InsertFails(p) \/ Reread(p) \/ Fetch(p) \/ Refetch(p)
    \/ Resolve(p)

\* A starting process takes or loses nothing of what requests have left behind.
LEMMA StepsOf ==
    ASSUME [Next]_vars
    PROVE  \/ UNCHANGED planvars
           \/ \E p \in Process : Quiet(p) \/ Insert(p) \/ Register(p) \/ ProcessKilled(p)
           \/ \E c \in Client, p \in Process : Post(c, p)
           \/ AdmissionRegisters \/ AdmissionFails
BY DEF Next, Handle, Quiet, vars

LEMMA QuietKeeps ==
    ASSUME NEW p \in Process, Quiet(p)
    PROVE  UNCHANGED <<registry, experiments, keys, client, admission>>
BY DEF Quiet, ReadKey, Refused, InsertFails, Reread, Fetch, Refetch, Resolve

\* Experiments are only added, and of the versions only the admission's candidate is ever
\* replaced or taken back.
LEMMA HistoryKept ==
    ASSUME Typed, [Next]_vars
    PROVE  /\ \A i \in DOMAIN experiments :
                 i \in DOMAIN experiments' /\ experiments'[i] = experiments[i]
           /\ \A ref \in Registered \ {Candidate} :
                 ref \in Registered' /\ registry'[ref] = registry[ref]
<1> USE DEF Registered
<1>1. CASE UNCHANGED planvars
  BY <1>1 DEF planvars
<1>2. ASSUME NEW p \in Process, Quiet(p) \/ ProcessKilled(p)
      PROVE  UNCHANGED <<registry, experiments>>
  BY <1>2, QuietKeeps DEF ProcessKilled
<1>3. ASSUME NEW c \in Client, NEW p \in Process, Post(c, p)
      PROVE  UNCHANGED <<registry, experiments>>
  BY <1>3 DEF Post
<1>4. ASSUME NEW p \in Process, Insert(p)
      PROVE  /\ UNCHANGED registry
             /\ \A i \in DOMAIN experiments :
                   i \in DOMAIN experiments' /\ experiments'[i] = experiments[i]
  <2>1. experiments' = Append(experiments, Experiment(p)) /\ UNCHANGED registry
    BY <1>4 DEF Insert, Inserted
  <2>2. Len(experiments) \in Nat /\ DOMAIN experiments = 1..Len(experiments)
    BY DEF Typed
  <2>. QED
    BY <2>1, <2>2 DEF Typed
<1>5. ASSUME NEW p \in Process, Register(p)
      PROVE  /\ UNCHANGED experiments
             /\ \A ref \in Registered : ref \in Registered' /\ registry'[ref] = registry[ref]
  BY <1>5 DEF Register, Extended
<1>6. CASE AdmissionRegisters
  BY <1>6 DEF AdmissionRegisters, Extended
<1>7. CASE AdmissionFails
  BY <1>7 DEF AdmissionFails
<1>. QED
  BY <1>1, <1>2, <1>3, <1>4, <1>5, <1>6, <1>7, StepsOf

-----------------------------------------------------------------------------
(* Types and requests.                                                     *)

\* What a request selects is a list of tasks.
LEMMA SelectedIsList ==
    ASSUME SuitesFit, NEW op \in Creates, Admissible(op)
    PROVE  Selected(op) \in Seq(STRING)
<1>1. CASE op.task
  BY <1>1, PlanningAssumption DEF Selected
<1>2. CASE ~op.task
  BY <1>2 DEF Selected, Admissible, SuitesFit, Suites
<1>. QED
  BY <1>1, <1>2

\* A process's work with another step, or with the tasks it has resolved.
LEMMA WorkMoves ==
    ASSUME Typed, NEW p \in Process, NEW pc \in CreatePc \cup RegisterPc
    PROVE  /\ [work[p] EXCEPT !.pc = pc] \in Work
           /\ [work EXCEPT ![p].pc = pc] = [work EXCEPT ![p] = [work[p] EXCEPT !.pc = pc]]
           /\ \A tasks \in Seq(STRING) :
                 /\ [work[p] EXCEPT !.pc = pc, !.tasks = tasks] \in Work
                 /\ [work EXCEPT ![p].pc = pc, ![p].tasks = tasks]
                        = [work EXCEPT ![p] = [work[p] EXCEPT !.pc = pc, !.tasks = tasks]]
BY DEF Typed, Work

LEMMA FreeIsWork == Free \in Work /\ Free.pc = "free"
BY DEF Free, Work

\* A process that works on a request answers it, or goes on with a step of its kind.
GoesOn(p, w) ==
    \/ w.pc = "free"
    \/ w.op = work[p].op /\ work[p].pc \in CreatePc /\ w.pc \in CreatePc
    \/ w.op = work[p].op /\ work[p].pc \in RegisterPc /\ w.pc \in RegisterPc

LEMMA HandleMoves ==
    ASSUME Typed, WorkFits, SuitesFit, NEW p \in Process, Quiet(p) \/ Insert(p) \/ Register(p)
    PROVE  \E w \in Work : work' = [work EXCEPT ![p] = w] /\ GoesOn(p, w)
<1>1. ASSUME work' = [work EXCEPT ![p] = Free]
      PROVE  \E w \in Work : work' = [work EXCEPT ![p] = w] /\ GoesOn(p, w)
  BY <1>1, FreeIsWork DEF GoesOn
<1>2. ASSUME NEW pc, Go(p, pc),
             \/ work[p].pc \in CreatePc /\ pc \in CreatePc
             \/ work[p].pc \in RegisterPc /\ pc \in RegisterPc
      PROVE  \E w \in Work : work' = [work EXCEPT ![p] = w] /\ GoesOn(p, w)
  <2>. DEFINE w == [work[p] EXCEPT !.pc = pc]
  <2>1. w \in Work /\ work' = [work EXCEPT ![p] = w]
    BY <1>2, WorkMoves DEF Go
  <2>2. w.pc = pc /\ w.op = work[p].op
    BY DEF Typed, Work
  <2>. QED
    BY <1>2, <2>1, <2>2 DEF GoesOn
<1>3. CASE Resolve(p)
  <2>. DEFINE tasks == Selected(work[p].op)
              w == [work[p] EXCEPT !.pc = "insert", !.tasks = tasks]
  <2>1. work[p].pc \in CreatePc /\ tasks \in Seq(STRING)
    BY <1>3, SelectedIsList DEF Resolve, At, WorkFits, CreatePc
  <2>2. w \in Work /\ work' = [work EXCEPT ![p] = w]
    BY <1>3, <2>1, WorkMoves DEF Resolve, CreatePc
  <2>3. w.pc = "insert" /\ w.op = work[p].op
    BY DEF Typed, Work
  <2>. QED
    BY <2>1, <2>2, <2>3 DEF GoesOn, CreatePc
<1>4. ASSUME NEW code, NEW about, Answer(p, code, about) PROVE work' = [work EXCEPT ![p] = Free]
  BY <1>4 DEF Answer
<1>5. ASSUME Replay(p) PROVE work' = [work EXCEPT ![p] = Free]
  BY <1>4, <1>5 DEF Replay
<1>6. ReadKey(p) => work' = [work EXCEPT ![p] = Free] \/ (work[p].pc = "key" /\ Go(p, "resolve"))
  BY <1>5 DEF ReadKey, At
<1>7. InsertFails(p) =>
          work' = [work EXCEPT ![p] = Free] \/ (work[p].pc = "insert" /\ Go(p, "reread"))
  BY <1>4 DEF InsertFails, At
<1>8. Fetch(p) =>
          work' = [work EXCEPT ![p] = Free] \/ (work[p].pc = "fetch" /\ Go(p, "register"))
  BY <1>4 DEF Fetch, At
<1>9. Register(p) =>
          work' = [work EXCEPT ![p] = Free] \/ (work[p].pc = "register" /\ Go(p, "refetch"))
  BY <1>4 DEF Register, At
<1>10. Refused(p) \/ Reread(p) \/ Refetch(p) \/ Insert(p) => work' = [work EXCEPT ![p] = Free]
  BY <1>4, <1>5 DEF Refused, Reread, Refetch, Insert, Inserted
<1>. QED
  BY <1>1, <1>2, <1>3, <1>6, <1>7, <1>8, <1>9, <1>10 DEF Quiet, CreatePc, RegisterPc

\* What the transaction of a plan inserts is an experiment.
LEMMA ExperimentTyped ==
    ASSUME Typed, WorkFits, NEW p \in Process, Insert(p)
    PROVE  /\ work[p].op \in Creates
           /\ work[p].tasks \in Seq(STRING) /\ IsInjective(work[p].tasks)
           /\ Experiment(p) \in Experiments
           /\ experiments' = Append(experiments, Experiment(p))
<1>1. work[p].op \in Creates
  BY DEF WorkFits, Insert, At, CreatePc
<1>2. work[p].tasks \in Seq(STRING) /\ IsInjective(work[p].tasks)
  BY DEF Typed, Work, Insert, IntegrityError, TrialTwice
<1>3. Experiment(p) \in Experiments
  BY <1>1, <1>2, BodyKeepsRequest, PlanCounted DEF Experiment, Experiments
<1>. QED
  BY <1>1, <1>2, <1>3 DEF Insert, Inserted

\* A request is posted to a free process.
LEMMA PostEffect ==
    ASSUME Typed, WorkFits, NEW c \in Client, NEW p \in Process, Post(c, p)
    PROVE  \E op \in Op : \E w \in Work :
              /\ client' = [client EXCEPT ![c] = [op |-> op, posts |-> client[c].posts + 1]]
              /\ work' = [work EXCEPT ![p] = w]
              /\ w.op = op
              /\ \/ op \in Creates /\ w.pc = "key"
                 \/ op \in Registers /\ w.pc = "fetch"
<1>1. PICK op \in Op : /\ client' = [client EXCEPT ![c] = [op |-> op, posts |-> @.posts + 1]]
                       /\ Serve(p, op)
  BY DEF Post, WorkFits, Typed
<1>. DEFINE w == [Free EXCEPT !.pc = First(op), !.op = op]
<1>2. First(op) \in CreatePc \cup RegisterPc
  BY DEF First, CreatePc, RegisterPc
<1>3. w \in Work /\ w.op = op /\ w.pc = First(op)
  <2>. DEFINE pc == First(op)
  <2>. HIDE DEF pc
  <2>1. pc \in CreatePc \cup RegisterPc
    BY <1>2 DEF pc
  <2>2. [Free EXCEPT !.pc = pc, !.op = op] \in Work
    BY <2>1, FreeIsWork DEF Work
  <2>3. [Free EXCEPT !.pc = pc, !.op = op].op = op /\ [Free EXCEPT !.pc = pc, !.op = op].pc = pc
    BY FreeIsWork DEF Work
  <2>. QED
    BY <2>2, <2>3 DEF pc
<1>. QED
  BY <1>1, <1>3 DEF Serve, First, Creates, Registers

\* Every step keeps the types.
LEMMA TypedStep == Typed /\ WorkFits /\ SuitesFit /\ [Next]_vars => Typed'
<1> SUFFICES ASSUME Typed, WorkFits, SuitesFit, [Next]_vars PROVE Typed'
  OBVIOUS
<1> USE DEF Typed
<1>1. CASE UNCHANGED planvars
  BY <1>1 DEF planvars
<1>2. ASSUME NEW p \in Process, Quiet(p) PROVE Typed'
  BY <1>2, HandleMoves, QuietKeeps
<1>3. ASSUME NEW p \in Process, ProcessKilled(p) PROVE Typed'
  BY <1>3, FreeIsWork DEF ProcessKilled
<1>4. ASSUME NEW p \in Process, Insert(p) PROVE Typed'
  <2>1. work' \in [Process -> Work]
    BY <1>4, HandleMoves
  <2>2. experiments' \in Seq(Experiments)
    <3>1. Experiment(p) \in Experiments /\ experiments' = Append(experiments, Experiment(p))
      BY <1>4, ExperimentTyped
    <3>. QED
      BY <3>1
  <2>. QED
    BY <1>4, <2>1, <2>2 DEF Insert
<1>5. ASSUME NEW p \in Process, Register(p) PROVE Typed'
  BY <1>5, HandleMoves DEF Register
<1>6. ASSUME NEW c \in Client, NEW p \in Process, Post(c, p) PROVE Typed'
  <2>1. UNCHANGED experiments
    BY <1>6 DEF Post
  <2>2. PICK op \in Op, w \in Work :
            /\ client' = [client EXCEPT ![c] = [op |-> op, posts |-> client[c].posts + 1]]
            /\ work' = [work EXCEPT ![p] = w]
    BY <1>6, PostEffect
  <2>3. client[c].posts + 1 \in Nat
    OBVIOUS
  <2>. QED
    BY <2>1, <2>2, <2>3
<1>7. CASE AdmissionRegisters
  BY <1>7 DEF AdmissionRegisters
<1>8. CASE AdmissionFails
  BY <1>8 DEF AdmissionFails
<1>. QED
  BY <1>1, <1>2, <1>3, <1>4, <1>5, <1>6, <1>7, <1>8, StepsOf

\* A process keeps its request until it has answered it, and takes the steps of its kind.
LEMMA WorkStep == Typed /\ WorkFits /\ SuitesFit /\ [Next]_vars => WorkFits'
<1> SUFFICES ASSUME Typed, WorkFits, SuitesFit, [Next]_vars PROVE WorkFits'
  OBVIOUS
<1> USE DEF CreatePc, RegisterPc
<1>1. CASE UNCHANGED planvars
  BY <1>1 DEF planvars, WorkFits
<1>2. ASSUME NEW p \in Process, Quiet(p) \/ Insert(p) \/ Register(p) PROVE WorkFits'
  <2>1. PICK w \in Work : work' = [work EXCEPT ![p] = w] /\ GoesOn(p, w)
    BY <1>2, HandleMoves
  <2>2. UNCHANGED client
    BY <1>2, QuietKeeps DEF Insert, Register
  <2>. QED
    BY <2>1, <2>2 DEF GoesOn, WorkFits, Typed
<1>3. ASSUME NEW p \in Process, ProcessKilled(p) PROVE WorkFits'
  BY <1>3, FreeIsWork DEF ProcessKilled, WorkFits, Typed
<1>4. ASSUME NEW c \in Client, NEW p \in Process, Post(c, p) PROVE WorkFits'
  <2>1. PICK op \in Op, w \in Work :
            /\ client' = [client EXCEPT ![c] = [op |-> op, posts |-> client[c].posts + 1]]
            /\ work' = [work EXCEPT ![p] = w]
            /\ w.op = op
            /\ \/ op \in Creates /\ w.pc = "key"
               \/ op \in Registers /\ w.pc = "fetch"
    BY <1>4, PostEffect
  <2>2. \A d \in Client : client'[d].posts # 0 => client'[d].op \in Op
    BY <2>1 DEF WorkFits, Typed
  <2>3. \A q \in Process :
            /\ work'[q].pc \in CreatePc => work'[q].op \in Creates
            /\ work'[q].pc \in RegisterPc => work'[q].op \in Registers
    BY <2>1 DEF WorkFits, Typed
  <2>. QED
    BY <2>2, <2>3 DEF WorkFits
<1>5. CASE AdmissionRegisters
  BY <1>5 DEF AdmissionRegisters, WorkFits
<1>6. CASE AdmissionFails
  BY <1>6 DEF AdmissionFails, WorkFits
<1>. QED
  BY <1>1, <1>2, <1>3, <1>4, <1>5, <1>6, StepsOf

-----------------------------------------------------------------------------
(* Keys and versions.                                                      *)

\* The key of a plan is free when its transaction commits, and stands for it afterwards.
LEMMA InsertKeysFit ==
    ASSUME Typed, WorkFits, KeysFit, NEW p \in Process, Insert(p)
    PROVE  KeysFit'
<1>. DEFINE op == work[p].op
            e == Experiment(p)
            n == Len(experiments) + 1
<1>1. /\ experiments \in Seq(Experiments) /\ e \in Experiments
      /\ experiments' = Append(experiments, e)
  BY ExperimentTyped DEF Typed
<1>2. e.key = op.key /\ e.body = Body(op)
  BY DEF Experiment
<1>3. op.key \notin DOMAIN keys
  BY DEF Insert, IntegrityError, KeyTaken, InUse
<1>4. keys' = IF op.key = NoKey THEN keys
              ELSE Extended(keys, op.key, [body |-> Body(op), experiment |-> n])
  BY DEF Insert, Inserted
<1>. HIDE DEF op, e
<1>5. /\ n \in Nat /\ n \notin DOMAIN experiments
      /\ DOMAIN experiments' = DOMAIN experiments \cup {n}
      /\ experiments'[n] = e
      /\ \A i \in DOMAIN experiments : experiments'[i] = experiments[i]
  BY <1>1
<1>. HIDE DEF n
<1>6. CASE op.key = NoKey
  BY <1>2, <1>4, <1>5, <1>6 DEF KeysFit
<1>7. CASE op.key # NoKey
  <2>1. /\ DOMAIN keys' = DOMAIN keys \cup {op.key}
        /\ keys'[op.key] = [body |-> Body(op), experiment |-> n]
        /\ \A key \in DOMAIN keys : keys'[key] = keys[key]
    BY <1>3, <1>4, <1>7 DEF Extended
  <2>. QED
    BY <1>2, <1>3, <1>5, <1>7, <2>1 DEF KeysFit
<1>. QED
  BY <1>6, <1>7

\* Nothing but the transaction of a plan touches experiments and keys.
LEMMA KeysStep == Typed /\ WorkFits /\ KeysFit /\ [Next]_vars => KeysFit'
<1> SUFFICES ASSUME Typed, WorkFits, KeysFit, [Next]_vars PROVE KeysFit'
  OBVIOUS
<1>1. ASSUME NEW p \in Process, Insert(p) PROVE KeysFit'
  BY <1>1, InsertKeysFit
<1>2. UNCHANGED <<experiments, keys>> \/ \E p \in Process : Insert(p)
  BY StepsOf, QuietKeeps
     DEF planvars, Register, ProcessKilled, Post, AdmissionRegisters, AdmissionFails
<1>3. CASE UNCHANGED <<experiments, keys>>
  BY <1>3 DEF KeysFit
<1>. QED
  BY <1>1, <1>2, <1>3

\* Suites stay lists of tasks.
LEMMA SuitesStep == WorkFits /\ SuitesFit /\ [Next]_vars => SuitesFit'
<1> SUFFICES ASSUME WorkFits, SuitesFit, [Next]_vars PROVE SuitesFit'
  OBVIOUS
<1> USE DEF SuitesFit, Registered
<1>1. ASSUME UNCHANGED registry PROVE SuitesFit'
  BY <1>1
<1>2. UNCHANGED registry \/ AdmissionRegisters \/ AdmissionFails \/ \E p \in Process : Register(p)
  BY StepsOf, QuietKeeps DEF planvars, Insert, ProcessKilled, Post
<1>3. ASSUME NEW p \in Process, Register(p) PROVE SuitesFit'
  <2>1. work[p].op \in Registers
    BY <1>3 DEF Register, At, WorkFits, RegisterPc
  <2>. QED
    BY <1>3, <2>1, PlanningAssumption DEF Register, Extended
<1>4. CASE AdmissionRegisters
  BY <1>4, PlanningAssumption DEF AdmissionRegisters, Extended
<1>5. CASE AdmissionFails
  BY <1>5 DEF AdmissionFails
<1>. QED
  BY <1>1, <1>2, <1>3, <1>4, <1>5

-----------------------------------------------------------------------------
(* Answers.                                                                *)

\* A reply that is true stays true.
LEMMA TruthKept ==
    ASSUME Typed, [Next]_vars, NEW a, IsTrue(a)
    PROVE  IsTrue(a)'
BY HistoryKept DEF IsTrue, Holds

\* A replay answers with the experiment that the key stands for.
LEMMA ReplayIsTrue ==
    ASSUME KeysFit, NEW p \in Process, work[p].op \in Creates, InUse(work[p].op), Replay(p)
    PROVE  \E a : answers' = answers \cup {a} /\ IsTrue(a)
<1>. DEFINE op == work[p].op
            Told(code, about) == [op |-> op, code |-> code, about |-> about]
<1>0. op.kind = "create" /\ op \in Op
  BY DEF Creates
<1>1. CASE keys[op.key].body = Body(op)
  <2>1. answers' = answers \cup {Told(200, keys[op.key].experiment)}
    BY <1>1 DEF Replay, Answer
  <2>2. IsTrue(Told(200, keys[op.key].experiment))
    BY <1>0, <1>1 DEF IsTrue, KeysFit, InUse
  <2>. QED
    BY <2>1, <2>2
<1>2. CASE keys[op.key].body # Body(op)
  <2>1. answers' = answers \cup {Told(409, 0)}
    BY <1>2 DEF Replay, Answer
  <2>2. IsTrue(Told(409, 0))
    BY <1>0 DEF IsTrue, Named
  <2>. QED
    BY <2>1, <2>2
<1>. QED
  BY <1>1, <1>2

\* A refusal, or an answer about a version that is held, is true.
LEMMA ToldIsTrue ==
    ASSUME NEW p \in Process, NEW code, Answer(p, code, 0),
           work[p].op \in Op,
           \/ code \in {409, 422, 500}
           \/ code = 200 /\ work[p].op \in Registers /\ Holds(work[p].op)
    PROVE  \E a : answers' = answers \cup {a} /\ IsTrue(a)
<1>. DEFINE a == [op |-> work[p].op, code |-> code, about |-> 0]
<1>1. answers' = answers \cup {a}
  BY DEF Answer
<1>2. IsTrue(a)
  BY DEF IsTrue, Named, Creates, Registers
<1>. QED
  BY <1>1, <1>2

\* Every reply of a quiet step is true.
LEMMA QuietIsTrue ==
    ASSUME WorkFits, KeysFit, NEW p \in Process, Quiet(p)
    PROVE  \/ UNCHANGED answers
           \/ \E a : answers' = answers \cup {a} /\ IsTrue(a)
<1> USE DEF At, WorkFits, CreatePc, RegisterPc
<1>0. work[p].pc # "free" => work[p].op \in Op
  BY DEF Quiet, ReadKey, Refused, InsertFails, Reread, Fetch, Refetch, Resolve, Creates,
     Registers
<1>1. CASE ReadKey(p)
  BY <1>1, ReplayIsTrue DEF ReadKey
<1>2. CASE Refused(p)
  BY <1>0, <1>2, ToldIsTrue DEF Refused
<1>3. CASE InsertFails(p)
  BY <1>0, <1>3, ToldIsTrue DEF InsertFails
<1>4. CASE Reread(p)
  BY <1>0, <1>4, ReplayIsTrue, ToldIsTrue DEF Reread
<1>5. CASE Fetch(p)
  BY <1>0, <1>5, ToldIsTrue DEF Fetch
<1>6. CASE Refetch(p)
  BY <1>0, <1>6, ToldIsTrue DEF Refetch
<1>7. CASE Resolve(p)
  BY <1>7 DEF Resolve
<1>. QED
  BY <1>1, <1>2, <1>3, <1>4, <1>5, <1>6, <1>7 DEF Quiet

\* A created plan is the one that its request asked for.
LEMMA InsertIsTrue ==
    ASSUME Typed, WorkFits, NEW p \in Process, Insert(p)
    PROVE  \E a : answers' = answers \cup {a} /\ IsTrue(a)'
<1>. DEFINE op == work[p].op
            n == Len(experiments) + 1
<1>0. PICK a : a = [op |-> op, code |-> 202, about |-> n]
  OBVIOUS
<1>1. answers' = answers \cup {a}
  BY <1>0 DEF Insert, Inserted, Answer
<1>2. /\ experiments \in Seq(Experiments) /\ Experiment(p) \in Experiments
      /\ experiments' = Append(experiments, Experiment(p))
  BY ExperimentTyped DEF Typed
<1>3. n \in DOMAIN experiments' /\ experiments'[n] = Experiment(p)
  BY <1>2
<1>4. Experiment(p).key = op.key /\ Experiment(p).body = Body(op)
  BY DEF Experiment
<1>5. op.kind = "create" /\ op \in Op
  BY ExperimentTyped DEF Creates
<1>6. IsTrue(a)'
  BY <1>0, <1>3, <1>4, <1>5 DEF IsTrue
<1>. QED
  BY <1>1, <1>6

\* A registered version is the one that its request asked for.
LEMMA RegisterIsTrue ==
    ASSUME WorkFits, NEW p \in Process, Register(p)
    PROVE  \/ UNCHANGED answers
           \/ \E a : answers' = answers \cup {a} /\ IsTrue(a)'
<1>. DEFINE op == work[p].op
<1>0. PICK a : a = [op |-> op, code |-> 201, about |-> 0]
  OBVIOUS
<1>1. CASE op.ref \in Registered
  BY <1>1 DEF Register
<1>2. CASE op.ref \notin Registered
  <2>0. op \in Op /\ op.kind # "create"
    BY DEF Register, At, WorkFits, RegisterPc, Registers, Creates
  <2>1. answers' = answers \cup {a} /\ registry' = Extended(registry, op.ref, op.content)
    BY <1>0, <1>2 DEF Register, Answer
  <2>2. op.ref \in Registered' /\ registry'[op.ref] = op.content
    BY <2>1 DEF Registered, Extended
  <2>3. IsTrue(a)'
    BY <1>0, <2>0, <2>2 DEF IsTrue, Named, Holds
  <2>. QED
    BY <2>1, <2>3
<1>. QED
  BY <1>1, <1>2

\* Every reply is true when it is given, and stays so.
LEMMA AnswersStep ==
    Typed /\ WorkFits /\ KeysFit /\ AnswersTrue /\ [Next]_vars => AnswersTrue'
<1> SUFFICES ASSUME Typed, WorkFits, KeysFit, AnswersTrue, [Next]_vars PROVE AnswersTrue'
  OBVIOUS
<1>1. \A a \in answers : IsTrue(a)'
  BY TruthKept DEF AnswersTrue
<1>2. ASSUME NEW p \in Process, Quiet(p)
      PROVE  UNCHANGED answers \/ \E a : answers' = answers \cup {a} /\ IsTrue(a)'
  BY <1>2, QuietIsTrue, TruthKept
<1>3. \/ UNCHANGED answers
      \/ \E a : answers' = answers \cup {a} /\ IsTrue(a)'
  BY <1>2, InsertIsTrue, RegisterIsTrue, StepsOf
     DEF planvars, ProcessKilled, Post, AdmissionRegisters, AdmissionFails
<1>. QED
  BY <1>1, <1>3 DEF AnswersTrue

-----------------------------------------------------------------------------
(* Whole plans.                                                            *)

\* The transaction of a plan runs in a process with foreign keys enforced, because it has
\* migrated: every trial it inserts is of a task that is registered then.
LEMMA InsertIsWhole ==
    ASSUME MigInv, Typed, WorkFits, NEW p \in Process, Insert(p)
    PROVE  IsWhole(Experiment(p))
<1>. DEFINE e == Experiment(p)
<1>1. mig[p].foreignKeys
  BY ReadyHasAll DEF Insert, At, StartsAreSerial, ReadyIsMigrated
<1>2. Range(work[p].tasks) \subseteq Registered
  BY <1>1 DEF Insert, IntegrityError, TaskGone
<1>3. /\ e.tasks = work[p].tasks
      /\ e.trials = Plan(work[p].tasks, work[p].op)
      /\ e.body.reps = work[p].op.reps
  BY BodyKeepsRequest, ExperimentTyped DEF Experiment
<1>4. /\ Cardinality(e.trials) = Len(e.tasks) * Cardinality(Target) * e.body.reps
      /\ \A trial \in e.trials : trial[1] \in Registered
  BY <1>2, <1>3, ExperimentTyped, PlanCounted
<1>. QED
  BY <1>4 DEF IsWhole

\* Plans stay whole: a version that one of their trials refers to is not taken back.
LEMMA PlansStep == MigInv /\ Typed /\ WorkFits /\ PlansWhole /\ [Next]_vars => PlansWhole'
<1> SUFFICES ASSUME MigInv, Typed, WorkFits, PlansWhole, [Next]_vars PROVE PlansWhole'
  OBVIOUS
<1>1. ASSUME NEW e, IsWhole(e), Registered \subseteq Registered' PROVE IsWhole(e)'
  BY <1>1 DEF IsWhole
<1>2. ASSUME UNCHANGED experiments, Registered \subseteq Registered' PROVE PlansWhole'
  BY <1>1, <1>2 DEF PlansWhole
<1>3. CASE UNCHANGED <<experiments, registry>>
  BY <1>2, <1>3 DEF Registered
<1>4. ASSUME NEW p \in Process, Insert(p) PROVE PlansWhole'
  <2>1. PICK e : e = Experiment(p)
    OBVIOUS
  <2>2. /\ experiments \in Seq(Experiments) /\ e \in Experiments
        /\ experiments' = Append(experiments, e)
    BY <1>4, <2>1, ExperimentTyped DEF Typed
  <2>3. Registered \subseteq Registered'
    BY <1>4 DEF Insert, Registered
  <2>4. IsWhole(e)'
    BY <1>1, <1>4, <2>1, <2>3, InsertIsWhole
  <2>5. \A i \in DOMAIN experiments' :
            \/ i \in DOMAIN experiments /\ experiments'[i] = experiments[i]
            \/ experiments'[i] = e
    BY <2>2
  <2>6. ASSUME NEW i \in DOMAIN experiments PROVE IsWhole(experiments[i])
    BY DEF PlansWhole
  <2>7. ASSUME NEW i \in DOMAIN experiments' PROVE IsWhole(experiments[i])'
    <3>1. CASE experiments'[i] = e
      BY <2>4, <3>1 DEF IsWhole
    <3>2. CASE i \in DOMAIN experiments /\ experiments'[i] = experiments[i]
      <4>1. PICK f : f = experiments[i]
        OBVIOUS
      <4>2. IsWhole(f)'
        BY <1>1, <2>3, <2>6, <3>2, <4>1
      <4>. QED
        BY <3>2, <4>1, <4>2 DEF IsWhole
    <3>. QED
      BY <2>5, <3>1, <3>2
  <2>. QED
    BY <2>7 DEF PlansWhole
<1>5. ASSUME NEW p \in Process, Register(p) PROVE PlansWhole'
  BY <1>2, <1>5 DEF Register, Registered, Extended
<1>6. CASE AdmissionRegisters
  BY <1>2, <1>6 DEF AdmissionRegisters, Registered, Extended
<1>7. CASE AdmissionFails
  <2>1. CASE Referenced(Candidate)
    BY <1>2, <1>7, <2>1 DEF AdmissionFails, Registered
  <2>2. CASE ~Referenced(Candidate)
    BY <1>7, <2>2 DEF AdmissionFails, Registered, Referenced, PlansWhole, IsWhole
  <2>. QED
    BY <2>1, <2>2
<1>8. \/ UNCHANGED <<experiments, registry>>
      \/ \E p \in Process : Insert(p) \/ Register(p)
      \/ AdmissionRegisters \/ AdmissionFails
  BY StepsOf, QuietKeeps DEF planvars, ProcessKilled, Post
<1>. QED
  BY <1>3, <1>4, <1>5, <1>6, <1>7, <1>8

-----------------------------------------------------------------------------
(* The theorems.                                                           *)

\* A step of Planning is, for the migration, one of a start, a death, or none.
LEMMA MigrationStep == MigInv /\ [Next]_vars => MigInv'
<1> SUFFICES ASSUME MigInv, [Next]_vars PROVE MigInv'
  OBVIOUS
<1>1. UNCHANGED migvars \/ \E p \in Process : MigStep(p) \/ Kill(p)
  BY DEF Next, Handle, ReadKey, Refused, Resolve, Insert, InsertFails, Reread, Fetch, Register,
         Refetch, ProcessKilled, Post, AdmissionRegisters, AdmissionFails, vars
<1>2. CASE UNCHANGED migvars
  BY <1>2 DEF migvars, MigInv, MigTypeOK, SchemaIsInOrder, LockHeld, Behind, Applied
<1>. QED
  BY <1>1, <1>2, MigInvStep

\* The initial states satisfy the inductive invariant.
LEMMA InitInductive == Init => IInv
<1> SUFFICES ASSUME Init PROVE IInv
  OBVIOUS
<1>1. MigInv
  BY MigInitInductive DEF Init
<1>2. Typed
  <2>1. work \in [Process -> Work]
    BY FreeIsWork DEF Init
  <2>2. experiments \in Seq(Experiments)
    BY DEF Init
  <2>. QED
    BY <2>1, <2>2 DEF Init, Typed
<1>3. WorkFits
  BY FreeIsWork DEF Init, WorkFits, CreatePc, RegisterPc
<1>4. KeysFit /\ AnswersTrue /\ PlansWhole
  BY DEF Init, KeysFit, AnswersTrue, PlansWhole
<1>5. SuitesFit
  BY PlanningAssumption DEF Init, SuitesFit, Registered
<1>. QED
  BY <1>1, <1>2, <1>3, <1>4, <1>5 DEF IInv

\* The inductive invariant holds in every reachable state of the API's processes.
THEOREM Inductive == Spec => []IInv
<1>1. Init => IInv
  BY InitInductive
<1>2. IInv /\ [Next]_vars => IInv'
  BY MigrationStep, TypedStep, WorkStep, KeysStep, SuitesStep, AnswersStep, PlansStep DEF IInv
<1>. QED
  BY <1>1, <1>2, PTL DEF Spec

\* db.migrate: however many processes start on one file and wherever they are killed, the
\* migrations are applied once and in order, and whoever serves has all of them.
THEOREM StartsSerial == Spec => []StartsAreSerial
<1>1. IInv => StartsAreSerial
  BY ReadyHasAll DEF IInv
<1>. QED
  BY <1>1, Inductive, PTL

\* create_experiment: a plan is there whole or not at all, and of registered tasks.
THEOREM PlansAreWhole == Spec => []PlanIsWhole
<1>1. IInv => PlanIsWhole
  BY DEF IInv, PlansWhole, IsWhole, KeysFit, PlanIsWhole
<1>. QED
  BY <1>1, Inductive, PTL

\* No client registers the reference that an admission registers and may take back.
OnlyAdmissionsRegister == \A op \in Registers : op.ref # Candidate

\* create_experiment and register_version: every 2xx reply stays true, of experiments under
\* their keys and of the versions that no admission can take back.
THEOREM RepliesStayTrue == ASSUME OnlyAdmissionsRegister PROVE Spec => []RepliesAreTrue
<1>1. IInv => RepliesAreTrue
  <2> SUFFICES ASSUME IInv PROVE RepliesAreTrue
    OBVIOUS
  <2>1. RegistrationAgrees
    <3> SUFFICES ASSUME NEW a \in answers, a.op.kind = "register", a.code \in {200, 201}
                 PROVE  Holds(a.op)
      BY DEF RegistrationAgrees, Holds
    <3>1. IsTrue(a)
      BY DEF IInv, AnswersTrue
    <3>2. a.op.ref # Candidate
      BY <3>1, OnlyAdmissionsRegister DEF IsTrue, OnlyAdmissionsRegister, Registers, Creates
    <3>. QED
      BY <3>1, <3>2 DEF IsTrue
  <2>2. RepliesNameOnePlan
    <3>1. ASSUME NEW i \in DOMAIN experiments, NEW j \in DOMAIN experiments,
                 experiments[i].key # NoKey, experiments[i].key = experiments[j].key
          PROVE  i = j
      BY <3>1 DEF IInv, KeysFit
    <3>2. \A a \in answers : IsTrue(a)
      BY DEF IInv, AnswersTrue
    <3>. QED
      BY <3>1, <3>2 DEF IsTrue, RepliesNameOnePlan
  <2>. QED
    BY <2>1, <2>2 DEF RepliesAreTrue
<1>. QED
  BY <1>1, Inductive, PTL

=============================================================================
