--------------------------- MODULE CandidateProofs ---------------------------
(***************************************************************************)
(* Proofs about Candidate, for any bundles, any number of admissions, and  *)
(* attempts that fail or are killed at any step: a row is seen only after  *)
(* its environment, a planned trial keeps its task, and, when a task id    *)
(* determines its scorer id, a registration that returned is for good and  *)
(* no attempt leaves a part of a candidate behind.                         *)
(***************************************************************************)
EXTENDS Candidate, TLAPS

-----------------------------------------------------------------------------
(* The inductive invariant.                                                *)

\* The types, those of the rows by kind and of the calls under way included.
Types ==
    /\ TypeOK
    /\ row \in [Kind -> Task \cup Scorer \cup Foreign \cup {None}]
    /\ plan.pc = "insert" => plan.task \in Task
    /\ promo.pc = "write" => promo.task \in Task /\ promo.copy \in Report

\* An attempt starts with nothing made, goes on after its environment is published, and
\* holds the lock of its scorer id throughout the registration.
Ordered(a) ==
    /\ adm[a].pc \in {"env", "lock"} => adm[a].kind = "task" /\ adm[a].made = {}
    /\ adm[a].pc \notin {"idle", "env"} => adm[a].bundle.env \in envs
    /\ adm[a].pc \in Critical => lock[adm[a].bundle.scorer] = a

IInv == Types /\ (\A a \in Admitter : Ordered(a)) /\ EnvBeforeRow /\ TrialsKeepTheirTask

\* What the lock is for holds where a task id determines its scorer id: two attempts that
\* could take each other's rows back then wait for one lock.  It is not so by itself: the
\* [verifier] table is no part of the task content.
OneScorerPerTask == \A a, b \in Bundle : a.task = b.task => a.scorer = b.scorer

\* Within the lock an attempt's rows stay: those it made, and those it found.
RowsStay(a) ==
    adm[a].pc \in Critical =>
        /\ \A k \in adm[a].made : row[k] = adm[a].bundle[k]
        /\ adm[a].kind = "scorer" /\ adm[a].pc # "rollback" => row.task = adm[a].bundle.task
        /\ adm[a].pc \in {"publish", "published"} =>
              adm[a].kind = "scorer" /\ row.scorer = adm[a].bundle.scorer
        /\ adm[a].pc = "published" => adm[a].bundle.scorer \in verifiers

\* What an attempt may take back is no part of an admitted candidate.
MadeIsUnadmitted(a) ==
    adm[a].pc \in Critical =>
        \A k \in adm[a].made, b \in admitted : b[k] # adm[a].bundle[k]

\* A scorer row is made next to a task row of one's own, or to one that trials hold.
ScorerFollowsTask(a) ==
    kills = 0 /\ adm[a].pc \in Critical /\ "scorer" \in adm[a].made =>
        "task" \in adm[a].made \/ adm[a].bundle.task \in trials

Whole == \E b \in Bundle : b.task = row.task /\ b.scorer = row.scorer /\ b.scorer \in verifiers

\* A task row is that of a whole candidate, or the attempt that made it is at work.
Accounted ==
    kills = 0 /\ row.task # None /\ row.task \notin trials =>
        \/ Whole
        \/ \E a \in Admitter :
              /\ adm[a].pc \in Critical /\ "task" \in adm[a].made
              /\ adm[a].bundle.task = row.task

LInv ==
    /\ \A a \in Admitter : RowsStay(a) /\ MadeIsUnadmitted(a) /\ ScorerFollowsTask(a)
    /\ CandidateStays
    /\ Accounted

-----------------------------------------------------------------------------
(* Attempts, as their steps change them.                                   *)

Steps == {"idle", "env", "lock", "rebuild", "report"} \cup Critical

\* A step to another program point changes nothing else.
LEMMA Goes ==
    ASSUME adm \in [Admitter -> Attempt], NEW a \in Admitter, NEW pc \in Steps, Goto(a, pc)
    PROVE  /\ adm' \in [Admitter -> Attempt]
           /\ \A o \in Admitter \ {a} : adm'[o] = adm[o]
           /\ adm'[a].pc = pc /\ adm'[a].bundle = adm[a].bundle
           /\ adm'[a].kind = adm[a].kind /\ adm'[a].made = adm[a].made
BY DEF Goto, Attempt, Steps

\* After a registration the attempt goes on with the scorer, or to its publication.
LEMMA Registers ==
    ASSUME adm \in [Admitter -> Attempt], NEW a \in Admitter, NEW made \in SUBSET Kind,
           Registered(a, made)
    PROVE  /\ adm' \in [Admitter -> Attempt]
           /\ \A o \in Admitter \ {a} : adm'[o] = adm[o]
           /\ adm'[a].pc = IF adm[a].kind = "task" THEN "fetch" ELSE "publish"
           /\ adm'[a].bundle = adm[a].bundle
           /\ adm'[a].kind = "scorer" /\ adm'[a].made = adm[a].made \cup made
<1>1. adm[a].made \cup made \in SUBSET Kind
  BY DEF Attempt
<1>2. PICK pc \in {"fetch", "publish"} : pc = IF adm[a].kind = "task" THEN "fetch" ELSE "publish"
  OBVIOUS
<1>3. adm' = [adm EXCEPT ![a] = [[[adm[a] EXCEPT !.made = adm[a].made \cup made]
                                          EXCEPT !.pc = pc] EXCEPT !.kind = "scorer"]]
  BY <1>2 DEF Registered
<1>4. [[[adm[a] EXCEPT !.made = adm[a].made \cup made] EXCEPT !.pc = pc] EXCEPT !.kind = "scorer"]
        \in Attempt
  BY <1>1, <1>2 DEF Attempt, Critical, Kind
<1>. QED
  BY <1>1, <1>2, <1>3, <1>4 DEF Attempt

\* The ids of a bundle.
LEMMA Ids ==
    ASSUME adm \in [Admitter -> Attempt], NEW a \in Admitter
    PROVE  /\ adm[a].bundle \in Bundle /\ adm[a].kind \in Kind /\ adm[a].made \subseteq Kind
           /\ adm[a].pc \in Steps /\ adm[a].passed \in BOOLEAN
           /\ adm[a].bundle.task \in Task /\ adm[a].bundle.scorer \in Scorer
           /\ adm[a].bundle.env \in Env
           /\ \A k \in Kind : adm[a].bundle[k] \in Task \cup Scorer /\ adm[a].bundle[k] # None
BY CandidateAssumption DEF Attempt, Steps, Task, Scorer, Env, Kind

-----------------------------------------------------------------------------
(* The types.                                                              *)

LEMMA InitTypes == Init => Types
<1> SUFFICES ASSUME Init PROVE Types
  OBVIOUS
<1>1. adm \in [Admitter -> Attempt]
  <2>1. (CHOOSE b \in Bundle : TRUE) \in Bundle
    BY CandidateAssumption
  <2>. QED
    BY <2>1 DEF Init, Attempt, Kind
<1>2. /\ row \in [Kind -> Task \cup Scorer \cup Foreign \cup {None}]
      /\ row.task = None /\ row.scorer = None
  BY DEF Init, Kind
<1>3. lock \in [Scorer -> Admitter \cup {None}]
  BY DEF Init
<1>4. report \in [Task -> Report \cup {None}] /\ latest \in [Task -> BOOLEAN \cup {None}]
  BY DEF Init
<1>5. /\ plan \in [pc : {"idle", "insert", "done"}, task : Task \cup {None}] /\ plan.pc = "idle"
      /\ promo \in [pc : {"idle", "write", "done"}, task : Task \cup {None},
                    copy : Report \cup {None}]
      /\ promo.pc = "idle"
  BY DEF Init
<1>6. runs \in 0..MaxAdmissions /\ kills \in 0..MaxKills
  BY CandidateAssumption DEF Init
<1>7. /\ envs \subseteq Env /\ verifiers \subseteq Scorer
      /\ trials \subseteq Task /\ admitted \subseteq Bundle
  BY DEF Init
<1>. QED
  BY <1>1, <1>2, <1>3, <1>4, <1>5, <1>6, <1>7 DEF Types, TypeOK

\* The attempts keep their type, and a step of one changes no other.
LEMMA AttemptStep ==
    ASSUME Types, NEW a \in Admitter, AdmitStep(a) \/ Disturb(a)
    PROVE  adm' \in [Admitter -> Attempt] /\ \A o \in Admitter \ {a} : adm'[o] = adm[o]
<1> USE DEF Types, TypeOK
<1>1. CASE EnvPublish(a)
  BY <1>1, Goes DEF EnvPublish, Steps, Critical, Fail
<1>2. CASE EnvFails(a)
  BY <1>2, Goes DEF EnvFails, Steps, Critical, Fail
<1>3. CASE Lock(a)
  BY <1>3, Goes DEF Lock, Steps, Critical, Fail
<1>4. CASE Stage(a)
  BY <1>4, Goes DEF Stage, Steps, Critical, Fail
<1>5. CASE Fetch(a)
  BY <1>5, Goes, Registers, Ids DEF Fetch, Steps, Critical, Fail, Kind
<1>6. CASE Insert(a)
  BY <1>6, Goes, Registers, Ids DEF Insert, Steps, Critical, Fail, Kind
<1>7. CASE FetchAgain(a)
  BY <1>7, Goes, Registers, Ids DEF FetchAgain, Steps, Critical, Fail, Kind
<1>8. CASE Publish(a)
  BY <1>8, Goes DEF Publish, Steps, Critical, Fail
<1>9. CASE Return(a)
  BY <1>9, Goes DEF Return, Steps, Critical, Fail
<1>10. CASE Rollback(a)
  BY <1>10, Goes DEF Rollback, Steps, Critical, Fail
<1>11. CASE WriteReport(a)
  BY <1>11, Goes DEF WriteReport, Steps, Critical, Fail
<1>12. CASE Raised(a)
  BY <1>12, Goes DEF Raised, Steps, Critical, Fail
<1>13. CASE Interrupted(a)
  BY <1>13, Goes DEF Interrupted, Steps, Critical, Fail
<1>14. CASE Kill(a)
  BY <1>14, Goes DEF Kill, Steps, Critical, Fail
<1>15. CASE Rebuild(a)
  <2>1. CASE Goto(a, "idle")
    BY <2>1, Goes DEF Steps
  <2>2. ASSUME NEW passed \in BOOLEAN,
               adm' = [adm EXCEPT ![a].pc = "report", ![a].passed = passed]
        PROVE  adm' \in [Admitter -> Attempt] /\ \A o \in Admitter \ {a} : adm'[o] = adm[o]
    <3>1. adm' = [adm EXCEPT ![a] = [[adm[a] EXCEPT !.pc = "report"] EXCEPT !.passed = passed]]
      BY <2>2
    <3>2. [[adm[a] EXCEPT !.pc = "report"] EXCEPT !.passed = passed] \in Attempt
      <4>1. PICK w \in Attempt : w = adm[a]
        OBVIOUS
      <4>2. [w EXCEPT !.pc = "report"] \in Attempt
        BY DEF Attempt
      <4>3. PICK x \in Attempt : x = [w EXCEPT !.pc = "report"]
        BY <4>2
      <4>4. [x EXCEPT !.passed = passed] \in Attempt
        BY DEF Attempt
      <4>. QED
        BY <4>1, <4>3, <4>4
    <3>. QED
      BY <3>1, <3>2
  <2>. QED
    BY <1>15, <2>1, <2>2 DEF Rebuild
<1>16. CASE Admit(a)
  <2>1. PICK b \in Bundle, passed \in BOOLEAN :
           adm' = [adm EXCEPT ![a] = [pc |-> IF passed THEN "env" ELSE "idle", bundle |-> b,
                                      kind |-> "task", made |-> {}, passed |-> FALSE]]
    BY <1>16 DEF Admit
  <2>2. [pc |-> IF passed THEN "env" ELSE "idle", bundle |-> b, kind |-> "task",
         made |-> {}, passed |-> FALSE] \in Attempt
    BY DEF Attempt, Kind
  <2>. QED
    BY <2>1, <2>2
<1>. QED
  BY <1>1, <1>2, <1>3, <1>4, <1>5, <1>6, <1>7, <1>8, <1>9, <1>10, <1>11, <1>12, <1>13, <1>14,
     <1>15, <1>16 DEF AdmitStep, Disturb

\* A row is written where there is none, and taken back only by the attempt that made it,
\* a task row only when no trial refers to it.
LEMMA RowStep ==
    ASSUME Types, [Next]_vars, NEW k \in Kind
    PROVE  /\ row' \in [Kind -> Task \cup Scorer \cup Foreign \cup {None}]
           /\ \/ row'[k] = row[k]
              \/ /\ row[k] = None
                 /\ \/ \E a \in Admitter :
                          Insert(a) /\ adm[a].kind = k /\ row'[k] = adm[a].bundle[k]
                    \/ k = "scorer" /\ ClientRegisters /\ row'[k] \in Foreign
              \/ \E a \in Admitter :
                    /\ Rollback(a) /\ Own(a, k) /\ row'[k] = None
                    /\ k = "task" => row.task \notin trials
<1> USE DEF Types, TypeOK
<1>1. CASE UNCHANGED row
  BY <1>1
<1>2. ASSUME NEW a \in Admitter, Insert(a), row[adm[a].kind] = None,
             row' = [row EXCEPT ![adm[a].kind] = Id(a)]
      PROVE  /\ row' \in [Kind -> Task \cup Scorer \cup Foreign \cup {None}]
             /\ row'[k] = row[k] \/ (row[k] = None /\ adm[a].kind = k /\ row'[k] = adm[a].bundle[k])
  BY <1>2, Ids DEF Id
<1>3. CASE ClientRegisters
  <2>1. PICK s \in Foreign : row' = [row EXCEPT !.scorer = s] /\ row.scorer = None
    BY <1>3 DEF ClientRegisters
  <2>. QED
    BY <1>3, <2>1 DEF Kind
<1>4. ASSUME NEW a \in Admitter, Rollback(a)
      PROVE  /\ row' \in [Kind -> Task \cup Scorer \cup Foreign \cup {None}]
             /\ \/ row'[k] = row[k]
                \/ Own(a, k) /\ row'[k] = None /\ (k = "task" => row.task \notin trials)
  <2>1. CASE row' = row
    BY <2>1
  <2>2. CASE /\ row' = [l \in Kind |-> IF Own(a, l) THEN None ELSE row[l]]
             /\ ~(Own(a, "task") /\ row.task \in trials)
    BY <2>2
  <2>. QED
    BY <1>4, <2>1, <2>2 DEF Rollback
<1>5. UNCHANGED row \/ ClientRegisters \/ \E a \in Admitter :
        \/ Rollback(a)
        \/ Insert(a) /\ row[adm[a].kind] = None /\ row' = [row EXCEPT ![adm[a].kind] = Id(a)]
  <2>1. ASSUME NEW a \in Admitter, AdmitStep(a) \/ Disturb(a)
        PROVE  \/ UNCHANGED row \/ Rollback(a)
               \/ Insert(a) /\ row[adm[a].kind] = None /\ row' = [row EXCEPT ![adm[a].kind] = Id(a)]
    BY <2>1 DEF AdmitStep, Disturb, EnvPublish, EnvFails, Lock, Stage, Fetch, Insert,
       FetchAgain,
                Publish, Return, Rebuild, WriteReport, Admit, Raised, Interrupted, Kill
  <2>2. CASE ClientStep
    BY <2>2 DEF ClientStep, PlanResolve, PlanInsert, PromoteRead, PromoteWrite
  <2>. QED
    BY <2>1, <2>2 DEF Next, vars
<1>. QED
  BY <1>1, <1>2, <1>3, <1>4, <1>5

\* A lock is taken when it is free and left by its holder alone.
LEMMA LockStep ==
    ASSUME Types, \A a \in Admitter : Ordered(a), [Next]_vars
    PROVE  /\ lock' \in [Scorer -> Admitter \cup {None}]
           /\ \A s \in Scorer :
                 \/ lock'[s] = lock[s]
                 \/ /\ lock[s] = None
                    /\ \E a \in Admitter : Lock(a) /\ adm[a].bundle.scorer = s /\ lock'[s] = a
                 \/ \E a \in Admitter :
                       /\ lock[s] = a /\ adm[a].pc \in Critical /\ adm[a].bundle.scorer = s
                       /\ Return(a) \/ Rollback(a) \/ Kill(a)
<1> USE DEF Types, TypeOK
<1>1. CASE UNCHANGED lock
  BY <1>1
<1>2. ASSUME NEW a \in Admitter, Lock(a)
      PROVE  /\ lock' \in [Scorer -> Admitter \cup {None}]
             /\ \A s \in Scorer :
                   \/ lock'[s] = lock[s]
                   \/ lock[s] = None /\ adm[a].bundle.scorer = s /\ lock'[s] = a
  BY <1>2, Ids DEF Lock
<1>3. ASSUME NEW a \in Admitter, adm[a].pc \in Critical, Release(a)
      PROVE  /\ lock' \in [Scorer -> Admitter \cup {None}]
             /\ \A s \in Scorer :
                   lock'[s] = lock[s] \/ (lock[s] = a /\ adm[a].bundle.scorer = s)
  <2>1. lock[adm[a].bundle.scorer] = a /\ adm[a].bundle.scorer \in Scorer
    BY <1>3, Ids DEF Ordered
  <2>2. PICK s0 \in Scorer : s0 = adm[a].bundle.scorer /\ lock[s0] = a
    BY <2>1
  <2>3. lock' = [lock EXCEPT ![s0] = None]
    BY <1>3, <2>2 DEF Release
  <2>4. lock \in [Scorer -> Admitter \cup {None}]
    OBVIOUS
  <2>5. lock' \in [Scorer -> Admitter \cup {None}] /\ \A s \in Scorer \ {s0} : lock'[s] = lock[s]
    BY <2>3, <2>4
  <2>. QED
    BY <2>2, <2>5
<1>4. \/ UNCHANGED lock
      \/ \E a \in Admitter :
            \/ Lock(a)
            \/ (Return(a) \/ Rollback(a) \/ Kill(a)) /\ adm[a].pc \in Critical /\ Release(a)
  <2>1. ASSUME NEW a \in Admitter, AdmitStep(a) \/ Disturb(a)
        PROVE  \/ UNCHANGED lock \/ Lock(a)
               \/ (Return(a) \/ Rollback(a) \/ Kill(a)) /\ adm[a].pc \in Critical /\ Release(a)
    BY <2>1 DEF AdmitStep, Disturb, EnvPublish, EnvFails, Lock, Stage, Fetch, Insert,
       FetchAgain, Publish, Return, Rollback, Rebuild, WriteReport, Admit, Raised, Interrupted,
       Kill, Critical
  <2>2. CASE ClientStep
    BY <2>2 DEF ClientStep, ClientRegisters, PlanResolve, PlanInsert, PromoteRead, PromoteWrite
  <2>. QED
    BY <2>1, <2>2 DEF Next, vars
<1>. QED
  BY <1>1, <1>2, <1>3, <1>4

\* What the stores, the trials and the deaths have, they keep.
LEMMA Grows ==
    ASSUME Types, [Next]_vars
    PROVE  /\ envs \subseteq envs' /\ envs' \subseteq Env
           /\ verifiers \subseteq verifiers' /\ verifiers' \subseteq Scorer
           /\ trials \subseteq trials' /\ \A t \in trials' \ trials : t = row.task /\ t \in Task
           /\ trials' # trials => row' = row
           /\ kills' = 0 => kills = 0
           /\ kills' \in 0..MaxKills /\ runs' \in 0..MaxAdmissions
<1> USE CandidateAssumption DEF Types, TypeOK
<1>1. ASSUME NEW a \in Admitter, AdmitStep(a) \/ Disturb(a)
      PROVE  /\ envs' = envs \/ envs' = envs \cup {adm[a].bundle.env}
             /\ verifiers' = verifiers \/ verifiers' = verifiers \cup {adm[a].bundle.scorer}
             /\ trials' = trials
  BY <1>1 DEF AdmitStep, Disturb, EnvPublish, EnvFails, Lock, Stage, Fetch, Insert, FetchAgain,
     Publish, Return, Rollback, Rebuild, WriteReport, Admit, Raised, Interrupted, Kill, stores,
     client
<1>2. ASSUME NEW a \in Admitter, AdmitStep(a) \/ Disturb(a)
      PROVE  /\ kills' = kills \/ (kills' = kills + 1 /\ kills < MaxKills)
             /\ runs' = runs \/ (runs' = runs + 1 /\ runs < MaxAdmissions)
  <2>1. CASE Admit(a)
    BY <2>1 DEF Admit
  <2>2. CASE Kill(a)
    BY <2>2 DEF Kill
  <2>3. CASE AdmitStep(a) \/ Raised(a) \/ Interrupted(a)
    <3>1. kills' = kills /\ runs' = runs
      BY <2>3 DEF AdmitStep, EnvPublish, EnvFails, Lock, Stage, Fetch, Insert, FetchAgain,
         Publish, Return, Rollback, Rebuild, WriteReport, Raised, Interrupted
    <3>. QED
      BY <3>1
  <2>. QED
    BY <1>2, <2>1, <2>2, <2>3 DEF Disturb
<1>3. ASSUME NEW a \in Admitter
      PROVE  adm[a].bundle.env \in Env /\ adm[a].bundle.scorer \in Scorer
  BY Ids
<1>4. CASE ClientStep
  <2>1. /\ UNCHANGED <<envs, verifiers, kills, runs>>
        /\ trials' = trials \/ PlanInsert
    BY <1>4 DEF ClientStep, ClientRegisters, PlanResolve, PlanInsert, PromoteRead, PromoteWrite,
       stores, client
  <2>2. CASE PlanInsert
    BY <2>1, <2>2 DEF PlanInsert
  <2>. QED
    BY <2>1, <2>2
<1>5. CASE UNCHANGED vars
  BY <1>5 DEF vars, stores, client
<1>. QED
  BY <1>1, <1>2, <1>3, <1>4, <1>5 DEF Next

LEMMA TypeStep ==
    ASSUME Types, \A a \in Admitter : Ordered(a), [Next]_vars
    PROVE  Types'
<1> USE DEF Types, TypeOK
<1>1. adm' \in [Admitter -> Attempt]
  <2>1. CASE ClientStep \/ UNCHANGED vars
    BY <2>1 DEF ClientStep, ClientRegisters, PlanResolve, PlanInsert, PromoteRead, PromoteWrite,
       vars
  <2>. QED
    BY <2>1, AttemptStep DEF Next
<1>2. row' \in [Kind -> Task \cup Scorer \cup Foreign \cup {None}]
  BY RowStep DEF Kind
<1>3. row'.task \in Task \cup {None} /\ row'.scorer \in Scorer \cup Foreign \cup {None}
  <2>1. ASSUME NEW a \in Admitter, NEW k \in Kind
        PROVE  /\ adm[a].bundle.task \in Task /\ adm[a].bundle.scorer \in Scorer
    BY Ids
  <2>. QED
    BY <2>1, RowStep DEF Kind
<1>4. plan' \in [pc : {"idle", "insert", "done"}, task : Task \cup {None}]
      /\ (plan'.pc = "insert" => plan'.task \in Task)
  <2>1. plan' = plan \/ PlanResolve \/ PlanInsert
    BY DEF Next, AdmitStep, Disturb, ClientStep, EnvPublish, EnvFails, Lock, Stage, Fetch,
       Insert, FetchAgain, Publish, Return, Rollback, Rebuild, WriteReport, Admit, Raised,
       Interrupted, Kill, ClientRegisters, PlanResolve, PlanInsert, PromoteRead, PromoteWrite,
       client, vars
  <2>2. CASE PlanResolve
    BY <2>2 DEF PlanResolve
  <2>3. CASE PlanInsert
    BY <2>3 DEF PlanInsert
  <2>. QED
    BY <2>1, <2>2, <2>3
<1>5. /\ report' \in [Task -> Report \cup {None}]
      /\ latest' \in [Task -> BOOLEAN \cup {None}]
      /\ promo' \in [pc : {"idle", "write", "done"}, task : Task \cup {None},
                     copy : Report \cup {None}]
      /\ (promo'.pc = "write" => promo'.task \in Task /\ promo'.copy \in Report)
  <2>1. \/ UNCHANGED <<report, latest, promo>> \/ PromoteRead \/ PromoteWrite
        \/ \E a \in Admitter : WriteReport(a)
    BY DEF Next, AdmitStep, Disturb, ClientStep, EnvPublish, EnvFails, Lock, Stage, Fetch,
       Insert, FetchAgain, Publish, Return, Rollback, Rebuild, WriteReport, Admit, Raised,
       Interrupted, Kill, ClientRegisters, PlanResolve, PlanInsert, PromoteRead, PromoteWrite,
       reports, vars
  <2>2. CASE PromoteRead
    BY <2>2 DEF PromoteRead
  <2>3. CASE PromoteWrite
    BY <2>3 DEF PromoteWrite, Report
  <2>4. ASSUME NEW a \in Admitter, WriteReport(a)
        PROVE  /\ report' \in [Task -> Report \cup {None}]
               /\ latest' \in [Task -> BOOLEAN \cup {None}] /\ promo' = promo
    BY <2>4, Ids DEF WriteReport, Report
  <2>. QED
    BY <2>1, <2>2, <2>3, <2>4
<1>6. admitted' \subseteq Bundle
  <2>1. admitted' = admitted \/ \E a \in Admitter : Return(a)
    BY DEF Next, AdmitStep, Disturb, ClientStep, EnvPublish, EnvFails, Lock, Stage, Fetch,
       Insert, FetchAgain, Publish, Return, Rollback, Rebuild, WriteReport, Admit, Raised,
       Interrupted, Kill, ClientRegisters, PlanResolve, PlanInsert, PromoteRead, PromoteWrite,
       vars
  <2>. QED
    BY <2>1, Ids DEF Return
<1>7. trials' \subseteq Task
  BY Grows
<1>. QED
  BY <1>1, <1>2, <1>3, <1>4, <1>5, <1>6, <1>7, LockStep, Grows

-----------------------------------------------------------------------------
(* What holds whatever bundles there are.                                  *)

\* The order of an attempt: the step of another changes nothing it rests on, ...
LEMMA OrderedElse ==
    ASSUME Types, \A a \in Admitter : Ordered(a), [Next]_vars,
           NEW o \in Admitter, adm'[o] = adm[o]
    PROVE  Ordered(o)'
<1>1. Ordered(o) /\ envs \subseteq envs' /\ adm[o].bundle.scorer \in Scorer
  BY Grows, Ids DEF Types, TypeOK
<1>2. ASSUME adm[o].pc \in Critical, Return(o) \/ Rollback(o) \/ Kill(o)
      PROVE  FALSE
  BY <1>2, Goes DEF Return, Rollback, Kill, Critical, Steps, Types, TypeOK
<1>3. adm[o].pc \in Critical => lock'[adm[o].bundle.scorer] = o
  <2> SUFFICES ASSUME adm[o].pc \in Critical PROVE lock'[adm[o].bundle.scorer] = o
    OBVIOUS
  <2>1. lock[adm[o].bundle.scorer] = o /\ o # None
    BY <1>1, CandidateAssumption DEF Ordered
  <2>. QED
    BY <1>1, <1>2, <2>1, LockStep
<1>. QED
  BY <1>1, <1>3 DEF Ordered

\* ... and its own step keeps it.
LEMMA OrderedOwn ==
    ASSUME Types, \A a \in Admitter : Ordered(a), [Next]_vars,
           NEW a \in Admitter, AdmitStep(a) \/ Disturb(a)
    PROVE  Ordered(a)'
<1> USE DEF Types, TypeOK, Ordered
<1>1. adm[a].bundle.scorer \in Scorer /\ adm[a].kind \in Kind
  BY Ids
<1>2. CASE EnvPublish(a)
  BY <1>1, <1>2, Goes DEF EnvPublish, Fail, Critical, Steps
<1>3. CASE EnvFails(a)
  BY <1>1, <1>3, Goes DEF EnvFails, Fail, Critical, Steps, stores
<1>4. CASE Stage(a)
  BY <1>1, <1>4, Goes DEF Stage, Fail, Critical, Steps, stores
<1>5. CASE Publish(a)
  BY <1>1, <1>5, Goes DEF Publish, Fail, Critical, Steps, stores
<1>6. CASE Return(a)
  BY <1>1, <1>6, Goes DEF Return, Fail, Critical, Steps, stores
<1>7. CASE Rollback(a)
  BY <1>1, <1>7, Goes DEF Rollback, Fail, Critical, Steps, stores
<1>8. CASE WriteReport(a)
  BY <1>1, <1>8, Goes DEF WriteReport, Fail, Critical, Steps, stores
<1>9. CASE Raised(a)
  BY <1>1, <1>9, Goes DEF Raised, Fail, Critical, Steps, stores
<1>10. CASE Interrupted(a)
  BY <1>1, <1>10, Goes DEF Interrupted, Fail, Critical, Steps, stores
<1>11. CASE Kill(a)
  BY <1>1, <1>11, Goes DEF Kill, Fail, Critical, Steps, stores
<1>12. CASE Lock(a)
  BY <1>1, <1>12, Goes DEF Lock, Critical, Steps, stores
<1>13. CASE Fetch(a)
  BY <1>1, <1>13, Goes, Registers DEF Fetch, Fail, Critical, Steps, Kind, stores
<1>14. CASE Insert(a)
  BY <1>1, <1>14, Goes, Registers DEF Insert, Fail, Critical, Steps, Kind, stores
<1>15. CASE FetchAgain(a)
  BY <1>1, <1>15, Goes, Registers DEF FetchAgain, Fail, Critical, Steps, Kind, stores
<1>16. CASE Rebuild(a)
  <2>1. adm'[a].pc \in {"idle", "report"} /\ adm'[a].bundle = adm[a].bundle
    BY <1>16 DEF Rebuild, Goto, Attempt
  <2>. QED
    BY <1>16, <2>1 DEF Rebuild, stores, Critical
<1>17. CASE Admit(a)
  <2>1. adm'[a].pc \in {"idle", "env"} /\ adm'[a].kind = "task" /\ adm'[a].made = {}
    BY <1>17 DEF Admit
  <2>. QED
    BY <2>1 DEF Critical
<1>. QED
  BY <1>2, <1>3, <1>4, <1>5, <1>6, <1>7, <1>8, <1>9, <1>10, <1>11, <1>12, <1>13, <1>14, <1>15,
     <1>16, <1>17 DEF AdmitStep, Disturb

LEMMA OrderedStep ==
    ASSUME Types, \A a \in Admitter : Ordered(a), [Next]_vars
    PROVE  \A a \in Admitter : Ordered(a)'
<1> SUFFICES ASSUME NEW o \in Admitter PROVE Ordered(o)'
  OBVIOUS
<1>1. CASE adm'[o] = adm[o]
  BY <1>1, OrderedElse
<1>2. CASE AdmitStep(o) \/ Disturb(o)
  BY <1>2, OrderedOwn
<1>3. CASE ClientStep \/ UNCHANGED vars
  BY <1>1, <1>3 DEF ClientStep, ClientRegisters, PlanResolve, PlanInsert, PromoteRead,
     PromoteWrite, vars
<1>. QED
  BY <1>1, <1>2, <1>3, AttemptStep DEF Next

\* A row seen, or planned on, has its environment published.
LEMMA EnvStep ==
    ASSUME Types, \A a \in Admitter : Ordered(a), EnvBeforeRow, [Next]_vars
    PROVE  EnvBeforeRow'
<1> SUFFICES ASSUME NEW t \in trials' \cup ({row'.task} \ {None}), NEW b \in Bundle, b.task = t
             PROVE  b.env \in envs'
  BY DEF EnvBeforeRow
<1>1. CASE t \in trials \cup ({row.task} \ {None})
  BY <1>1, Grows DEF EnvBeforeRow
<1>2. CASE t \in trials' \ trials
  <2>1. t = row.task /\ t # None
    BY <1>2, Grows, CandidateAssumption
  <2>. QED
    BY <1>1, <2>1
<1>3. CASE t = row'.task /\ row'.task # row.task /\ row'.task # None
  <2>1. PICK a \in Admitter : Insert(a) /\ row'["task"] = adm[a].bundle["task"]
    BY <1>3, RowStep DEF Kind
  <2>2. adm[a].bundle \in Bundle /\ adm[a].bundle.env \in envs
    BY <2>1, Ids DEF Insert, Ordered, Types, TypeOK
  <2>3. b.env = adm[a].bundle.env
    BY <1>3, <2>1, <2>2, CandidateAssumption
  <2>. QED
    BY <2>2, <2>3, Grows
<1>. QED
  BY <1>1, <1>2, <1>3

\* The version under a trial is taken by nobody.
LEMMA TrialsStep ==
    ASSUME Types, TrialsKeepTheirTask, [Next]_vars
    PROVE  TrialsKeepTheirTask'
<1> SUFFICES ASSUME NEW t \in trials' PROVE row'.task = t
  BY DEF TrialsKeepTheirTask
<1>1. t = row.task /\ t # None
  BY Grows, CandidateAssumption DEF TrialsKeepTheirTask, Types, TypeOK
<1>2. CASE trials' # trials
  BY <1>1, <1>2, Grows
<1>3. CASE t \in trials
  BY <1>1, <1>3, RowStep DEF Kind
<1>. QED
  BY <1>2, <1>3

\* Types, the order of every attempt, environments before rows, and trials that keep
\* their task.
THEOREM Inductive == Spec => []IInv
<1>1. Init => IInv
  <2> SUFFICES ASSUME Init PROVE IInv
    OBVIOUS
  <2>1. \A a \in Admitter : adm[a].pc = "idle"
    BY DEF Init
  <2>2. trials = {} /\ row.task = None
    BY DEF Init, Kind
  <2>. QED
    BY <2>1, <2>2, InitTypes
       DEF IInv, Ordered, EnvBeforeRow, TrialsKeepTheirTask, Critical
<1>2. IInv /\ [Next]_vars => IInv'
  BY TypeStep, OrderedStep, EnvStep, TrialsStep DEF IInv
<1>. QED
  BY <1>1, <1>2, PTL DEF Spec

\* The environment of a task row, or of a planned trial, was published before and stays:
\* environments.publish comes before register_version in every attempt.  No rollback takes
\* a version from under a planned trial: the foreign key makes the rollback fail, or the plan.
THEOREM StoreSound == Spec => []StoreIsSound
<1>1. IInv => StoreIsSound
  BY DEF IInv, Types, StoreIsSound
<1>. QED
  BY <1>1, Inductive, PTL

-----------------------------------------------------------------------------
(* What holds where a task id determines its scorer id.                    *)

\* Two attempts that could write one id, or take it back, wait for one lock.
LEMMA Alone ==
    ASSUME OneScorerPerTask, Types, NEW a \in Admitter, NEW o \in Admitter,
           Ordered(a), Ordered(o), adm[a].pc \in Critical, adm[o].pc \in Critical,
           NEW k \in Kind, adm[a].bundle[k] = adm[o].bundle[k]
    PROVE  a = o
<1>1. adm[a].bundle \in Bundle /\ adm[o].bundle \in Bundle
  BY Ids DEF Types, TypeOK
<1>2. adm[a].bundle.scorer = adm[o].bundle.scorer
  BY <1>1 DEF OneScorerPerTask, Kind
<1>. QED
  BY <1>2 DEF Ordered

\* An id that is there, and that the attempts able to take it back do not have in their
\* hands, stays.
LEMMA IdStays ==
    ASSUME Types, [Next]_vars, NEW k \in Kind, row[k] # None,
           \A a \in Admitter : ~(Rollback(a) /\ Own(a, k))
    PROVE  row'[k] = row[k]
BY RowStep

\* The ids of an attempt at work stay through a step of any other.
LEMMA OthersLeave ==
    ASSUME OneScorerPerTask, Types, \A a \in Admitter : Ordered(a), [Next]_vars,
           NEW o \in Admitter, adm[o].pc \in Critical, ~Rollback(o),
           NEW k \in Kind, row[k] = adm[o].bundle[k]
    PROVE  row'[k] = row[k]
<1>1. row[k] # None
  BY Ids DEF Types, TypeOK
<1>2. ASSUME NEW a \in Admitter, Rollback(a), Own(a, k) PROVE FALSE
  BY <1>2, Alone DEF Own, Rollback, Critical
<1>. QED
  BY <1>1, <1>2, IdStays

\* An attempt whose own step it is not keeps its rows.
LEMMA RowsElse ==
    ASSUME OneScorerPerTask, IInv, [Next]_vars, NEW o \in Admitter, RowsStay(o), adm'[o] = adm[o]
    PROVE  RowsStay(o)'
<1> SUFFICES ASSUME adm[o].pc \in Critical PROVE RowsStay(o)'
  BY DEF RowsStay
<1>1. adm[o].made \subseteq Kind /\ "task" \in Kind /\ "scorer" \in Kind
  BY Ids DEF IInv, Types, TypeOK, Kind
<1>2. ~Rollback(o)
  BY Goes DEF IInv, Types, TypeOK, Rollback, Critical, Steps
<1>3. \A k \in Kind : row[k] = adm[o].bundle[k] => row'[k] = adm[o].bundle[k]
  BY <1>2, OthersLeave DEF IInv
<1>4. verifiers \subseteq verifiers'
  BY Grows DEF IInv
<1>. QED
  BY <1>1, <1>3, <1>4 DEF RowsStay

\* Its own steps too, up to the rollback that takes them back.
LEMMA RowsOwn ==
    ASSUME OneScorerPerTask, IInv, [Next]_vars, NEW a \in Admitter, RowsStay(a),
           AdmitStep(a) \/ Disturb(a)
    PROVE  RowsStay(a)'
<1> USE DEF IInv, Types, TypeOK
<1>1. /\ adm[a].made \subseteq Kind /\ "task" \in Kind /\ "scorer" \in Kind
      /\ adm[a].kind \in Kind
  BY Ids DEF Kind
<1>2. ASSUME ~Rollback(a), adm[a].pc \in Critical
      PROVE  \A k \in Kind : row[k] = adm[a].bundle[k] => row'[k] = adm[a].bundle[k]
  BY <1>2, OthersLeave
<1>3. verifiers \subseteq verifiers'
  BY Grows
<1>5. CASE EnvPublish(a) \/ EnvFails(a) \/ Return(a) \/ Rollback(a) \/ WriteReport(a)
           \/ Interrupted(a) \/ Kill(a)
  <2>1. adm'[a].pc \notin Critical
    BY <1>5, Goes DEF EnvPublish, EnvFails, Return, Rollback, WriteReport, Interrupted, Kill,
       Critical, Steps
  <2>. QED
    BY <2>1 DEF RowsStay
<1>6. CASE Rebuild(a) \/ Admit(a)
  <2>1. adm'[a].pc \notin Critical
    BY <1>6 DEF Rebuild, Admit, Goto, Critical, Attempt
  <2>. QED
    BY <2>1 DEF RowsStay
<1>7. CASE Lock(a)
  BY <1>7, Goes DEF Lock, Ordered, RowsStay, Critical, Steps
<1>8. CASE Stage(a)
  BY <1>8, Goes DEF Stage, Fail, RowsStay, Critical, Steps
<1>9. CASE Raised(a)
  BY <1>9, Goes DEF Raised, Fail, RowsStay, Critical, Steps
<1>10. CASE Publish(a)
  BY <1>10, Goes DEF Publish, RowsStay, Critical, Steps
<1>11. CASE Fetch(a)
  BY <1>1, <1>11, Goes, Registers DEF Fetch, Fail, Id, RowsStay, Critical, Steps, Kind
<1>12. CASE FetchAgain(a)
  BY <1>1, <1>12, Goes, Registers DEF FetchAgain, Fail, Id, RowsStay, Critical, Steps, Kind
<1>13. CASE Insert(a)
  BY <1>1, <1>13, Goes, Registers DEF Insert, Id, RowsStay, Critical, Steps, Kind
<1>. QED
  BY <1>5, <1>6, <1>7, <1>8, <1>9, <1>10, <1>11, <1>12, <1>13 DEF AdmitStep, Disturb

\* In one: the rows of an attempt stay while it holds the lock.
LEMMA RowsStep ==
    ASSUME OneScorerPerTask, IInv, \A a \in Admitter : RowsStay(a), [Next]_vars
    PROVE  \A a \in Admitter : RowsStay(a)'
<1> SUFFICES ASSUME NEW o \in Admitter PROVE RowsStay(o)'
  OBVIOUS
<1>1. CASE adm'[o] = adm[o]
  BY <1>1, RowsElse
<1>2. CASE AdmitStep(o) \/ Disturb(o)
  BY <1>2, RowsOwn
<1>3. CASE ClientStep \/ UNCHANGED vars
  BY <1>1, <1>3 DEF ClientStep, ClientRegisters, PlanResolve, PlanInsert, PromoteRead,
     PromoteWrite, vars
<1>. QED
  BY <1>1, <1>2, <1>3, AttemptStep DEF Next, IInv

\* An attempt at the registration keeps its bundle and what it made, adds to it by an
\* insert alone, and ends by returning, rolling back, or dying.
LEMMA MadeOwn ==
    ASSUME Types, NEW a \in Admitter, Ordered(a), AdmitStep(a) \/ Disturb(a)
    PROVE  /\ adm'[a].pc \in Critical =>
                 /\ adm'[a].bundle = adm[a].bundle
                 /\ \/ adm[a].pc \in Critical /\ adm'[a].made = adm[a].made
                    \/ adm[a].pc \notin Critical /\ adm'[a].made = {}
                    \/ /\ Insert(a) /\ row[adm[a].kind] = None
                       /\ adm'[a].made = adm[a].made \cup {adm[a].kind}
           /\ adm[a].pc \in Critical /\ adm'[a].pc \notin Critical =>
                 Return(a) \/ Rollback(a) \/ Kill(a)
<1> USE DEF Types, TypeOK
<1>0. adm[a].kind \in Kind /\ adm[a].made \subseteq Kind
  BY Ids
<1>1. CASE EnvPublish(a) \/ EnvFails(a) \/ Return(a) \/ Rollback(a) \/ WriteReport(a)
           \/ Interrupted(a) \/ Kill(a)
  BY <1>1, Goes DEF EnvPublish, EnvFails, Return, Rollback, WriteReport, Interrupted, Kill,
     Critical, Steps
<1>2. CASE Rebuild(a) \/ Admit(a)
  BY <1>2 DEF Rebuild, Admit, Goto, Critical, Attempt
<1>3. CASE Lock(a)
  BY <1>3, Goes DEF Lock, Ordered, Critical, Steps
<1>4. CASE Stage(a) \/ Raised(a) \/ Publish(a)
  BY <1>4, Goes DEF Stage, Raised, Publish, Fail, Critical, Steps
<1>5. CASE Fetch(a) \/ FetchAgain(a)
  <2>1. adm[a].pc \in Critical
    BY <1>5 DEF Fetch, FetchAgain, Critical
  <2>2. Goto(a, "insert") \/ Fail(a) \/ Registered(a, {})
    BY <1>5 DEF Fetch, FetchAgain
  <2>3. CASE Goto(a, "insert") \/ Fail(a)
    BY <2>1, <2>3, Goes DEF Fail, Critical, Steps
  <2>4. CASE Registered(a, {})
    <3>1. {} \in SUBSET Kind /\ adm[a].made \cup {} = adm[a].made
      OBVIOUS
    <3>2. /\ adm'[a].bundle = adm[a].bundle /\ adm'[a].made = adm[a].made
          /\ adm'[a].pc \in {"fetch", "publish"}
      BY <2>4, <3>1, Registers
    <3>. QED
      BY <2>1, <3>2 DEF Critical
  <2>. QED
    BY <2>2, <2>3, <2>4
<1>6. CASE Insert(a)
  BY <1>0, <1>6, Goes, Registers DEF Insert, Critical, Steps, Kind
<1>. QED
  BY <1>1, <1>2, <1>3, <1>4, <1>5, <1>6 DEF AdmitStep, Disturb

\* A step is that of one attempt, or of none.
LEMMA Moves ==
    ASSUME Types, [Next]_vars, NEW o \in Admitter
    PROVE  adm'[o] = adm[o] \/ AdmitStep(o) \/ Disturb(o)
<1>1. CASE ClientStep \/ UNCHANGED vars
  BY <1>1 DEF ClientStep, ClientRegisters, PlanResolve, PlanInsert, PromoteRead, PromoteWrite,
     vars
<1>. QED
  BY <1>1, AttemptStep DEF Next

\* Only a registration that returns is added to the history.
LEMMA Admits ==
    ASSUME [Next]_vars, NEW b \in admitted' \ admitted
    PROVE  \E a \in Admitter : Return(a) /\ b = adm[a].bundle
BY DEF Next, AdmitStep, Disturb, ClientStep, EnvPublish, EnvFails, Lock, Stage, Fetch, Insert,
   FetchAgain, Publish, Return, Rollback, Rebuild, WriteReport, Admit, Raised, Interrupted,
   Kill, ClientRegisters, PlanResolve, PlanInsert, PromoteRead, PromoteWrite, vars

\* An admitted candidate is in nobody's hands.
LEMMA MadeStep ==
    ASSUME OneScorerPerTask, IInv, LInv, [Next]_vars, NEW o \in Admitter
    PROVE  MadeIsUnadmitted(o)'
<1> USE DEF IInv, Types, TypeOK
<1> SUFFICES ASSUME adm'[o].pc \in Critical, NEW k \in adm'[o].made, NEW b \in admitted',
                    b[k] = adm'[o].bundle[k]
             PROVE  FALSE
  BY DEF MadeIsUnadmitted
<1>1. \/ adm[o].pc \in Critical /\ k \in adm[o].made /\ adm'[o].bundle = adm[o].bundle
      \/ /\ Insert(o) /\ k = adm[o].kind /\ row[k] = None
         /\ adm'[o].bundle = adm[o].bundle /\ adm[o].pc \in Critical
  <2>1. CASE adm'[o] = adm[o]
    BY <2>1
  <2>2. CASE AdmitStep(o) \/ Disturb(o)
    BY <2>2, MadeOwn DEF Insert, Critical
  <2>. QED
    BY <2>1, <2>2, Moves
<1>2. k \in Kind
  BY <1>1, Ids
<1>3. CASE b \in admitted
  <2>1. b[k] # adm[o].bundle[k] \/ k \notin adm[o].made
    BY <1>1, <1>3 DEF LInv, MadeIsUnadmitted
  <2>2. row[k] = b[k]
    BY <1>2, <1>3 DEF LInv, CandidateStays, Kind
  <2>3. adm[o].bundle[k] # None
    BY <1>2, Ids
  <2>. QED
    BY <1>1, <2>1, <2>2, <2>3
<1>4. CASE b \notin admitted
  <2>1. PICK a \in Admitter : Return(a) /\ b = adm[a].bundle
    BY <1>4, Admits
  <2>2. adm'[a].pc \notin Critical /\ adm[a].pc \in Critical
    BY <2>1, Goes DEF Return, Critical, Steps
  <2>. QED
    BY <1>1, <1>2, <2>1, <2>2, Alone
<1>. QED
  BY <1>3, <1>4

\* An admitted candidate keeps its rows and its verifier bundle.
LEMMA CandidateStep ==
    ASSUME OneScorerPerTask, IInv, LInv, [Next]_vars
    PROVE  CandidateStays'
<1> SUFFICES ASSUME NEW b \in admitted'
             PROVE  row'.task = b.task /\ row'.scorer = b.scorer /\ b.scorer \in verifiers'
  BY DEF CandidateStays
<1>1. CASE b \in admitted
  <2>1. /\ row["task"] = b["task"] /\ row["scorer"] = b["scorer"] /\ b.scorer \in verifiers
        /\ b \in Bundle
    BY <1>1 DEF LInv, CandidateStays, IInv, Types, TypeOK
  <2>2. b["task"] # None /\ b["scorer"] # None
    BY <2>1, CandidateAssumption DEF Task, Scorer
  <2>3. ASSUME NEW k \in Kind, NEW a \in Admitter, Rollback(a), Own(a, k) PROVE FALSE
    BY <1>1, <2>1, <2>3 DEF LInv, MadeIsUnadmitted, Rollback, Own, Critical, Kind
  <2>. QED
    BY <2>1, <2>2, <2>3, IdStays, Grows DEF IInv, Kind
<1>2. CASE b \notin admitted
  <2>1. PICK a \in Admitter : Return(a) /\ b = adm[a].bundle
    BY <1>2, Admits
  <2>. QED
    BY <2>1 DEF LInv, RowsStay, Return, stores, Critical
<1>. QED
  BY <1>1, <1>2

\* A scorer row is inserted next to a task row of one's own, or one that trials hold: no
\* other attempt can be between its two.
LEMMA ScorerStep ==
    ASSUME OneScorerPerTask, IInv, LInv, [Next]_vars, NEW o \in Admitter
    PROVE  ScorerFollowsTask(o)'
<1> USE DEF IInv, Types, TypeOK
<1> SUFFICES ASSUME kills' = 0, adm'[o].pc \in Critical, "scorer" \in adm'[o].made
             PROVE  "task" \in adm'[o].made \/ adm'[o].bundle.task \in trials'
  BY DEF ScorerFollowsTask
<1>1. kills = 0 /\ trials \subseteq trials'
  BY Grows
<1>2. CASE adm[o].pc \in Critical /\ "scorer" \in adm[o].made
  <2>1. "task" \in adm[o].made \/ adm[o].bundle.task \in trials
    BY <1>1, <1>2 DEF LInv, ScorerFollowsTask
  <2>2. adm'[o].bundle = adm[o].bundle /\ adm[o].made \subseteq adm'[o].made
    BY <1>2, Moves, MadeOwn
  <2>. QED
    BY <1>1, <2>1, <2>2
<1>3. CASE Insert(o) /\ adm[o].kind = "scorer" /\ row.scorer = None
  <2>1. /\ adm[o].pc \in Critical /\ adm'[o].bundle = adm[o].bundle
        /\ adm[o].made \subseteq adm'[o].made
    BY <1>3, MadeOwn DEF AdmitStep, Insert, Critical
  <2>2. row.task = adm[o].bundle.task
    BY <1>3, <2>1 DEF LInv, RowsStay, Insert
  <2>3. row.task # None
    BY <2>2, Ids, CandidateAssumption
  <2>4. ~Whole
    BY <1>3, CandidateAssumption DEF Whole, Scorer
  <2>5. CASE row.task \in trials
    BY <1>1, <2>1, <2>2, <2>5
  <2>6. ASSUME NEW m \in Admitter, adm[m].pc \in Critical, "task" \in adm[m].made,
               adm[m].bundle.task = row.task
        PROVE  "task" \in adm[o].made
    <3>1. adm[m].bundle["task"] = adm[o].bundle["task"]
      BY <2>2, <2>6
    <3>. QED
      BY <2>1, <2>6, <3>1, Alone DEF Kind
  <2>. QED
    BY <1>1, <2>1, <2>3, <2>4, <2>5, <2>6 DEF LInv, Accounted
<1>4. ASSUME AdmitStep(o) \/ Disturb(o), Insert(o), row[adm[o].kind] = None,
             adm'[o].made = adm[o].made \cup {adm[o].kind}
      PROVE  \/ adm[o].pc \in Critical /\ "scorer" \in adm[o].made
             \/ Insert(o) /\ adm[o].kind = "scorer" /\ row.scorer = None
  BY <1>4 DEF Insert, Critical
<1>. QED
  BY <1>2, <1>3, <1>4, Moves, MadeOwn

\* A rollback that takes the scorer row of a candidate takes its task row too.
LEMMA RollbackIsWhole ==
    ASSUME IInv, NEW a \in Admitter, RowsStay(a), ScorerFollowsTask(a), Rollback(a),
           kills = 0, Own(a, "scorer"), row.task \notin trials
    PROVE  row'.task = None
<1>1. adm[a].pc \in Critical /\ "scorer" \in adm[a].made
  BY DEF Rollback, Own, Critical
<1>2. "task" \in adm[a].made
  BY <1>1 DEF ScorerFollowsTask, IInv, TrialsKeepTheirTask
<1>3. Own(a, "task")
  BY <1>1, <1>2 DEF RowsStay, Own
<1>. QED
  BY <1>3 DEF Rollback, Kind

\* The part of a candidate that is there is the whole, or its attempt is at work.
LEMMA AccountedStep ==
    ASSUME OneScorerPerTask, IInv, LInv, [Next]_vars
    PROVE  Accounted'
<1> USE DEF IInv, Types, TypeOK
<1> SUFFICES ASSUME kills' = 0, row'.task # None, row'.task \notin trials' PROVE Accounted'
  BY DEF Accounted
<1>1. kills = 0 /\ trials \subseteq trials' /\ verifiers \subseteq verifiers'
  BY Grows
<1>2. CASE row'.task # row.task
  <2>1. PICK a \in Admitter : /\ Insert(a) /\ adm[a].kind = "task" /\ row["task"] = None
                              /\ row'["task"] = adm[a].bundle["task"]
    BY <1>2, RowStep DEF Kind
  <2>2. Registered(a, {"task"})
    BY <2>1 DEF Insert
  <2>3. /\ adm'[a].pc = "fetch" /\ "task" \in adm'[a].made
        /\ adm'[a].bundle = adm[a].bundle
    BY <2>1, <2>2, Registers DEF Kind
  <2>. QED
    BY <2>1, <2>3 DEF Accounted, Critical
<1>3. CASE row'.task = row.task /\ Whole
  <2>1. PICK b \in Bundle : b.task = row.task /\ b.scorer = row.scorer /\ b.scorer \in verifiers
    BY <1>3 DEF Whole
  <2>2. row.scorer # None
    BY <2>1, CandidateAssumption DEF Scorer
  <2>3. row'["scorer"] = row["scorer"]
    <3>1. ASSUME NEW a \in Admitter, Rollback(a), Own(a, "scorer") PROVE FALSE
      BY <1>1, <1>3, <3>1, RollbackIsWhole DEF LInv
    <3>. QED
      BY <2>2, <3>1, IdStays DEF Kind
  <2>. QED
    BY <1>1, <1>3, <2>1, <2>3 DEF Accounted, Whole
<1>4. ASSUME NEW m \in Admitter, adm[m].pc \in Critical, "task" \in adm[m].made,
             adm[m].bundle.task = row.task, row'.task = row.task
      PROVE  Accounted'
  <2>1. CASE adm'[m].pc \in Critical
    <3>1. adm'[m].bundle = adm[m].bundle /\ adm[m].made \subseteq adm'[m].made
      BY <1>4, <2>1, Moves, MadeOwn
    <3>. QED
      BY <1>4, <2>1, <3>1 DEF Accounted
  <2>2. CASE Return(m)
    <3>1. /\ row.scorer = adm[m].bundle.scorer /\ adm[m].bundle.scorer \in verifiers
          /\ adm[m].bundle \in Bundle /\ row' = row
      BY <1>4, <2>2, Ids DEF LInv, RowsStay, Return
    <3>. QED
      BY <1>1, <1>4, <3>1 DEF Accounted, Whole
  <2>3. CASE Rollback(m)
    BY <1>1, <1>4, <2>3 DEF Rollback, Own, Kind
  <2>4. CASE Kill(m)
    BY <1>1, <2>4 DEF Kill
  <2>. QED
    BY <1>4, <2>1, <2>2, <2>3, <2>4, Moves, MadeOwn
<1>. QED
  BY <1>1, <1>2, <1>3, <1>4 DEF LInv, Accounted

\* With the lock: rows stay under the attempt at work on them and under every candidate
\* admitted, and a part of one is somebody's unfinished work.
THEOREM InductiveUnderLock == ASSUME OneScorerPerTask PROVE Spec => [](IInv /\ LInv)
<1>1. Init => LInv
  <2> SUFFICES ASSUME Init PROVE LInv
    OBVIOUS
  <2>1. \A a \in Admitter : adm[a].pc = "idle"
    BY DEF Init
  <2>2. admitted = {} /\ row.task = None
    BY DEF Init, Kind
  <2>. QED
    BY <2>1, <2>2 DEF LInv, RowsStay, MadeIsUnadmitted, ScorerFollowsTask, CandidateStays,
                      Accounted, Critical
<1>2. IInv /\ LInv /\ [Next]_vars => LInv'
  BY RowsStep, MadeStep, CandidateStep, ScorerStep, AccountedStep DEF LInv
<1>. QED
  BY <1>1, <1>2, Inductive, PTL DEF Spec

\* A registration that returned is for good: no attempt that fails, is killed or runs next
\* to it takes its rows or its verifier bundle, where a task id determines its scorer id.
THEOREM CandidateIsForGood == ASSUME OneScorerPerTask PROVE Spec => []CandidateStays
<1>1. LInv => CandidateStays
  BY DEF LInv
<1>. QED
  BY <1>1, InductiveUnderLock, PTL

\* Where nothing was killed and nobody is registering, a task row that no trial holds is a
\* whole candidate: a rollback takes back both rows or finds them used.
THEOREM NothingLeftOver == ASSUME OneScorerPerTask PROVE Spec => []NoLeftover
<1>1. LInv => NoLeftover
  BY DEF LInv, Accounted, Whole, NoLeftover, Quiet
<1>. QED
  BY <1>1, InductiveUnderLock, PTL
=============================================================================
