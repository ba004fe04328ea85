------------------------------ MODULE Candidate ------------------------------
(***************************************************************************)
(* Task admission: concurrent processes that admit bundles of one task     *)
(* name@version, next to a client planning an experiment on it and an      *)
(* operator promoting a report.  A bundle is published to two stores and   *)
(* registered as two version rows, each in a commit of its own; a failing  *)
(* attempt takes back its rows, a killed one takes back nothing.           *)
(***************************************************************************)
EXTENDS Naturals

CONSTANTS
    Admitter,       \* admission processes
    Bundle,         \* records [task, scorer, env] of content-addressed ids
    Foreign,        \* scorer ids a client may register through the registry API
    None,           \* no row, no report, nobody
    MaxAdmissions,  \* bound: attempts in all
    MaxKills        \* bound: attempts that end in SIGKILL or a power loss

Kind == {"task", "scorer"}
Task == {b.task : b \in Bundle}
Scorer == {b.scorer : b \in Bundle}
Env == {b.env : b \in Bundle}

\* The environment digest is one of the assets the task id is computed from.
ASSUME CandidateAssumption ==
    /\ Bundle # {} /\ Bundle \subseteq [task : Task, scorer : Scorer, env : Env]
    /\ \A a, b \in Bundle : a.task = b.task => a.env = b.env
    /\ None \notin Task \cup Scorer \cup Foreign \cup Admitter
    /\ MaxAdmissions \in Nat /\ MaxKills \in Nat

VARIABLES
    adm,        \* each process: its step, bundle, kind at hand, rows made, verdict
    lock,       \* holder of the flock of each scorer id
    row,        \* the id registered under the name@version, for each kind
    envs,       \* environments/: published digests
    verifiers,  \* verifiers/: published scorer ids
    trials,     \* task ids that planned trials reference
    plan,       \* a create_experiment call under way
    report,     \* admission/<task id>.json
    promo,      \* a promote call under way
    latest,     \* history: what the last finished admission of a task found
    admitted,   \* history: bundles whose registration returned
    runs, kills

vars == <<adm, lock, row, envs, verifiers, trials, plan, report, promo, latest,
          admitted, runs, kills>>
stores == <<envs, verifiers>>
client == <<trials, plan>>
reports == <<report, promo, latest>>

Critical == {"stage", "fetch", "insert", "again", "publish", "published", "rollback"}
Attempt == [pc : {"idle", "env", "lock", "rebuild", "report"} \cup Critical,
            bundle : Bundle, kind : Kind, made : SUBSET Kind,
            passed : BOOLEAN]
Report == [passed : BOOLEAN, core : BOOLEAN]

TypeOK ==
    /\ adm \in [Admitter -> Attempt]
    /\ lock \in [Scorer -> Admitter \cup {None}]
    /\ row.task \in Task \cup {None} /\ row.scorer \in Scorer \cup Foreign \cup {None}
    /\ envs \subseteq Env /\ verifiers \subseteq Scorer /\ trials \subseteq Task
    /\ plan \in [pc : {"idle", "insert", "done"}, task : Task \cup {None}]
    /\ report \in [Task -> Report \cup {None}]
    /\ promo \in [pc : {"idle", "write", "done"}, task : Task \cup {None},
                  copy : Report \cup {None}]
    /\ latest \in [Task -> BOOLEAN \cup {None}]
    /\ admitted \subseteq Bundle
    /\ runs \in 0..MaxAdmissions /\ kills \in 0..MaxKills

Init ==
    /\ adm = [a \in Admitter |->
                [pc |-> "idle", bundle |-> CHOOSE b \in Bundle : TRUE, kind |-> "task",
                 made |-> {}, passed |-> FALSE]]
    /\ lock = [s \in Scorer |-> None]
    /\ row = [k \in Kind |-> None]
    /\ envs = {} /\ verifiers = {} /\ trials = {}
    /\ plan = [pc |-> "idle", task |-> None]
    /\ report = [t \in Task |-> None]
    /\ promo = [pc |-> "idle", task |-> None, copy |-> None]
    /\ latest = [t \in Task |-> None]
    /\ admitted = {}
    /\ runs = 0 /\ kills = 0

-----------------------------------------------------------------------------
(* One attempt, from the gates to its report.                              *)

Goto(a, pc) == adm' = [adm EXCEPT ![a].pc = pc]
Fail(a) == Goto(a, "rollback")
Id(a) == adm[a].bundle[adm[a].kind]
Release(a) == lock' = [lock EXCEPT ![adm[a].bundle.scorer] = None]

\* run_admission: the gates before registration.  A gate that fails leads to
\* a report that names no task version and that nothing reads: the attempt ends.
Admit(a) ==
    /\ adm[a].pc = "idle" /\ runs < MaxAdmissions
    /\ runs' = runs + 1
    /\ \E b \in Bundle, passed \in BOOLEAN :
          adm' = [adm EXCEPT ![a] =
                    [pc |-> IF passed THEN "env" ELSE "idle", bundle |-> b, kind |-> "task",
                     made |-> {}, passed |-> FALSE]]
    /\ UNCHANGED <<lock, row, stores, client, reports, admitted, kills>>

\* environments.publish: one rename of a verified copy, or the copy found there.
EnvPublish(a) ==
    /\ adm[a].pc = "env"
    /\ envs' = envs \cup {adm[a].bundle.env}
    /\ Goto(a, "lock")
    /\ UNCHANGED <<lock, row, verifiers, client, reports, admitted, runs, kills>>

\* Mutant: a failed copy is logged and the registration goes on.
EnvFailsSilently(a) ==
    /\ adm[a].pc = "env"
    /\ Goto(a, "lock")
    /\ UNCHANGED <<lock, row, stores, client, reports, admitted, runs, kills>>

\* A copy or digest error (EnvironmentInvalid, OSError) leaves run_admission.
EnvFails(a) ==
    /\ adm[a].pc = "env"
    /\ Goto(a, "idle")
    /\ UNCHANGED <<lock, row, stores, client, reports, admitted, runs, kills>>

\* Mutant: no lock around the registration.
LockNothing(a) ==
    /\ adm[a].pc = "lock"
    /\ Goto(a, "stage")
    /\ UNCHANGED <<lock, row, stores, client, reports, admitted, runs, kills>>

\* flock(LOCK_EX) on the lock file of the scorer id.
Lock(a) ==
    /\ adm[a].pc = "lock"
    /\ lock[adm[a].bundle.scorer] = None
    /\ lock' = [lock EXCEPT ![adm[a].bundle.scorer] = a]
    /\ Goto(a, "stage")
    /\ UNCHANGED <<row, stores, client, reports, admitted, runs, kills>>

\* The private copy of the verifier bundle, digest-checked, or an error of either.
Stage(a) ==
    /\ adm[a].pc = "stage"
    /\ Goto(a, "fetch") \/ Fail(a)
    /\ UNCHANGED <<lock, row, stores, client, reports, admitted, runs, kills>>

\* register_version, for the task and then for the scorer: a row with this
\* name@version answers 200 or 409, and only a row of our own insert is ours.
Registered(a, made) ==
    adm' = [adm EXCEPT ![a].made = @ \cup made,
                       ![a].pc = IF adm[a].kind = "task" THEN "fetch" ELSE "publish",
                       ![a].kind = "scorer"]

Fetch(a) ==
    /\ adm[a].pc = "fetch"
    /\ IF row[adm[a].kind] = None THEN Goto(a, "insert")
       ELSE IF row[adm[a].kind] = Id(a) THEN Registered(a, {}) ELSE Fail(a)
    /\ UNCHANGED <<lock, row, stores, client, reports, admitted, runs, kills>>

Insert(a) ==
    /\ adm[a].pc = "insert"
    /\ IF row[adm[a].kind] = None
       THEN /\ row' = [row EXCEPT ![adm[a].kind] = Id(a)]
            /\ Registered(a, {adm[a].kind})
       ELSE Goto(a, "again") /\ UNCHANGED row
    /\ UNCHANGED <<lock, stores, client, reports, admitted, runs, kills>>

\* After the IntegrityError the row is read once more; a row rolled back since
\* is a conflict too.
FetchAgain(a) ==
    /\ adm[a].pc = "again"
    /\ IF row[adm[a].kind] = Id(a) THEN Registered(a, {}) ELSE Fail(a)
    /\ UNCHANGED <<lock, row, stores, client, reports, admitted, runs, kills>>

\* os.replace: onto nothing, or refused by the same bundle published before.
Publish(a) ==
    /\ adm[a].pc = "publish"
    /\ verifiers' = verifiers \cup {adm[a].bundle.scorer}
    /\ Goto(a, "published")
    /\ UNCHANGED <<lock, row, envs, client, reports, admitted, runs, kills>>

Return(a) ==
    /\ adm[a].pc = "published"
    /\ Goto(a, "rebuild")
    /\ admitted' = admitted \cup {adm[a].bundle}
    /\ Release(a)
    /\ UNCHANGED <<row, stores, client, reports, runs, kills>>

\* Any exception inside the locked region, Ctrl-C included.
Raised(a) ==
    /\ adm[a].pc \in Critical \ {"rollback"}
    /\ Fail(a)
    /\ UNCHANGED <<lock, row, stores, client, reports, admitted, runs, kills>>

\* Outside it: while waiting for the lock, in the last gate, at the report.
Interrupted(a) ==
    /\ adm[a].pc \in {"lock", "rebuild", "report"}
    /\ Goto(a, "idle")
    /\ UNCHANGED <<lock, row, stores, client, reports, admitted, runs, kills>>

\* After the rollback the attempt ends: an AdmissionError with a report that names
\* no task version (as in Admit), anything else with a traceback.
Own(a, k) == k \in adm[a].made /\ row[k] = adm[a].bundle[k]

\* Mutant: foreign keys are not enforced on this connection.
RollbackUnchecked(a) ==
    /\ adm[a].pc = "rollback"
    /\ row' = [k \in Kind |-> IF Own(a, k) THEN None ELSE row[k]]
    /\ Goto(a, "idle") /\ Release(a)
    /\ UNCHANGED <<stores, client, reports, admitted, runs, kills>>

\* Mutant: only the last row inserted is taken back.
RollbackLast(a) ==
    /\ adm[a].pc = "rollback"
    /\ row' = IF Own(a, adm[a].kind) /\ row.task \notin trials
              THEN [row EXCEPT ![adm[a].kind] = None] ELSE row
    /\ Goto(a, "idle") /\ Release(a)
    /\ UNCHANGED <<stores, client, reports, admitted, runs, kills>>

\* _rollback_candidate: one transaction; a trial that references the task row
\* makes it fail as a whole (FOREIGN KEY), and that error leaves the process.
Rollback(a) ==
    /\ adm[a].pc = "rollback"
    /\ row' = IF Own(a, "task") /\ row.task \in trials THEN row
              ELSE [k \in Kind |-> IF Own(a, k) THEN None ELSE row[k]]
    /\ Goto(a, "idle") /\ Release(a)
    /\ UNCHANGED <<stores, client, reports, admitted, runs, kills>>

\* rebuild_gate: over the rows by id and the stores; a missing row is a crash
\* (a TypeError nothing catches), and a bundle that is not there cannot score.
Rebuild(a) ==
    /\ adm[a].pc = "rebuild"
    /\ LET b == adm[a].bundle IN
       IF \E k \in Kind : row[k] # b[k]
       THEN Goto(a, "idle")
       ELSE \E passed \in BOOLEAN :
               /\ passed => b.scorer \in verifiers /\ b.env \in envs
               /\ adm' = [adm EXCEPT ![a].pc = "report", ![a].passed = passed]
    /\ UNCHANGED <<lock, row, stores, client, reports, admitted, runs, kills>>

\* The report of a registered version goes to admission/<task id>.json.
WriteReport(a) ==
    /\ adm[a].pc = "report"
    /\ report' = [report EXCEPT ![adm[a].bundle.task] =
                    [passed |-> adm[a].passed, core |-> FALSE]]
    /\ latest' = [latest EXCEPT ![adm[a].bundle.task] = adm[a].passed]
    /\ Goto(a, "idle")
    /\ UNCHANGED <<lock, row, stores, client, promo, admitted, runs, kills>>

\* The process dies without a rollback; the kernel drops its flock.
Kill(a) ==
    /\ adm[a].pc # "idle" /\ kills < MaxKills
    /\ kills' = kills + 1
    /\ Goto(a, "idle")
    /\ IF adm[a].pc \in Critical THEN Release(a) ELSE UNCHANGED lock
    /\ UNCHANGED <<row, stores, client, reports, admitted, runs>>

-----------------------------------------------------------------------------
(* The registry and the reports as others use them meanwhile.              *)

\* POST /versions of a scorer under the bundle's scorer name@version.
ClientRegisters ==
    /\ row.scorer = None
    /\ \E s \in Foreign : row' = [row EXCEPT !.scorer = s]
    /\ UNCHANGED <<adm, lock, stores, client, reports, admitted, runs, kills>>

\* create_experiment resolves the task version first, and inserts later.
PlanResolve ==
    /\ plan.pc = "idle" /\ row.task # None
    /\ plan' = [pc |-> "insert", task |-> row.task]
    /\ UNCHANGED <<adm, lock, row, stores, trials, reports, admitted, runs, kills>>

\* The trials reference the version: a row rolled back since is a foreign-key
\* error, and the whole plan with it.
PlanInsert ==
    /\ plan.pc = "insert"
    /\ plan' = [plan EXCEPT !.pc = "done"]
    /\ trials' = IF row.task = plan.task THEN trials \cup {plan.task} ELSE trials
    /\ UNCHANGED <<adm, lock, row, stores, reports, admitted, runs, kills>>

\* promote --to core: refused on a failing report, else the report it read is
\* written back with the promotion.
PromoteRead ==
    /\ promo.pc = "idle"
    /\ \E t \in Task :
          /\ report[t] # None /\ report[t].passed
          /\ promo' = [pc |-> "write", task |-> t, copy |-> report[t]]
    /\ UNCHANGED <<adm, lock, row, stores, client, report, latest, admitted, runs, kills>>

PromoteWrite ==
    /\ promo.pc = "write"
    /\ report' = [report EXCEPT ![promo.task] = [promo.copy EXCEPT !.core = TRUE]]
    /\ promo' = [promo EXCEPT !.pc = "done"]
    /\ UNCHANGED <<adm, lock, row, stores, client, latest, admitted, runs, kills>>

AdmitStep(a) ==
    \/ EnvPublish(a) \/ EnvFails(a) \/ Lock(a) \/ Stage(a) \/ Fetch(a) \/ Insert(a)
    \/ FetchAgain(a) \/ Publish(a) \/ Return(a) \/ Rollback(a) \/ Rebuild(a)
    \/ WriteReport(a)
Disturb(a) == Admit(a) \/ Raised(a) \/ Interrupted(a) \/ Kill(a)
ClientStep == ClientRegisters \/ PlanResolve \/ PlanInsert \/ PromoteRead \/ PromoteWrite

Next == (\E a \in Admitter : AdmitStep(a) \/ Disturb(a)) \/ ClientStep

Spec == Init /\ [][Next]_vars

-----------------------------------------------------------------------------
(* What must hold.                                                         *)

\* A trial can always materialize its workspace: the environment a task row, or
\* a trial, points at was published before the row could be seen, and stays.
EnvBeforeRow ==
    \A t \in trials \cup ({row.task} \ {None}) :
        \A b \in Bundle : b.task = t => b.env \in envs

\* No rollback takes a version from under a planned trial, whichever order the
\* plan's two statements and the attempt's commits come in.
TrialsKeepTheirTask == \A t \in trials : row.task = t

\* What a trial is run from is there: its task row and the environment this points at.
StoreIsSound == TypeOK /\ EnvBeforeRow /\ TrialsKeepTheirTask

\* A registration that returned is for good: no later attempt, failing, killed
\* or concurrent, takes away its rows or its verifier bundle.
CandidateStays ==
    \A b \in admitted :
        row.task = b.task /\ row.scorer = b.scorer /\ b.scorer \in verifiers

Quiet == kills = 0 /\ \A a \in Admitter : adm[a].pc \notin Critical

\* With no registration under way and none killed, a task row nobody has
\* planned on is a whole candidate: scorer row, verifier bundle, environment.
NoLeftover ==
    Quiet /\ row.task # None /\ row.task \notin trials =>
        \E b \in Bundle :
            b.task = row.task /\ b.scorer = row.scorer /\ b.scorer \in verifiers

\* README: a failed import or registration leaves no candidate that looks usable.
FailureLeavesNothing ==
    Quiet /\ row.task # None =>
        \E b \in Bundle :
            b.task = row.task /\ b.scorer = row.scorer /\ b.scorer \in verifiers

\* Module docstring: any failed gate means the bundle is not registered.
FailedIsUnregistered == \A t \in Task : latest[t] = FALSE => row.task # t

\* promote: a report with failing gates is not promoted to Core.
CoreHasPassed ==
    \A t \in Task : report[t] # None /\ report[t].core => latest[t] = TRUE
==============================================================================
