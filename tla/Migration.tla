----------------------------- MODULE Migration -----------------------------
(***************************************************************************)
(* Schema migration of the one database file (db.migrate).  Every process  *)
(* that opens a surface, the manager, an admission or an import migrates   *)
(* before it does anything else, and nothing orders them: the write lock   *)
(* of BEGIN IMMEDIATE and the primary key of schema_version do.            *)
(***************************************************************************)
EXTENDS Naturals, Sequences, SequencesExt

CONSTANTS
    Process,    \* processes that open the database
    Newest,     \* the number of the last migration file
    MaxKills    \* processes killed

ASSUME MigrationAssumption == Newest \in Nat \ {0} /\ MaxKills \in Nat

VARIABLES
    schema,     \* committed migrations, in commit order: schema_version with its effects
    writer,     \* the holder of SQLite's write lock, as a set
    mig,        \* each process's run of migrate
    kills

migvars == <<schema, writer, mig, kills>>

Migrations == 1..Newest
Applied == Range(schema)

MigTypeOK ==
    /\ schema \in Seq(Migrations)
    /\ writer \subseteq Process
    /\ mig \in [Process -> [pc: {"down", "list", "next", "script", "ready"},
                            seen: SUBSET Migrations, at: 1..Newest + 1, foreignKeys: BOOLEAN]]
    /\ kills \in 0..MaxKills

Down == [pc |-> "down", seen |-> {}, at |-> 1, foreignKeys |-> FALSE]

\* A new database file, or one that an earlier release has migrated.
MigInit ==
    /\ \E n \in 0..Newest : schema = [i \in 1..n |-> i]
    /\ writer = {}
    /\ mig = [p \in Process |-> Down]
    /\ kills = 0

-----------------------------------------------------------------------------
Onward(p) == [mig[p] EXCEPT !.pc = "next", !.at = @ + 1, !.foreignKeys = TRUE]

\* db.connect: a new connection, with foreign keys enforced.
Connect(p) ==
    /\ mig[p].pc = "down"
    /\ mig' = [mig EXCEPT ![p] = [Down EXCEPT !.pc = "list", !.foreignKeys = TRUE]]
    /\ UNCHANGED <<schema, writer, kills>>

\* The versions this process believes applied are read once, outside any transaction.
ReadApplied(p) ==
    /\ mig[p].pc = "list"
    /\ mig' = [mig EXCEPT ![p].pc = "next", ![p].seen = Applied]
    /\ UNCHANGED <<schema, writer, kills>>

SkipApplied(p) ==
    /\ mig[p].pc = "next"
    /\ mig[p].at \in mig[p].seen
    /\ mig' = [mig EXCEPT ![p].at = @ + 1]
    /\ UNCHANGED <<schema, writer, kills>>

\* PRAGMA foreign_keys=OFF, then BEGIN IMMEDIATE gets the write lock.
BeginScript(p) ==
    /\ mig[p].pc = "next"
    /\ mig[p].at \in Migrations \ mig[p].seen
    /\ writer = {}
    /\ writer' = {p}
    /\ mig' = [mig EXCEPT ![p].pc = "script", ![p].foreignKeys = FALSE]
    /\ UNCHANGED <<schema, kills>>

\* busy_timeout expires: the OperationalError ends the process.
LockTimeout(p) ==
    /\ mig[p].pc = "next"
    /\ mig[p].at \in Migrations \ mig[p].seen
    /\ writer # {}
    /\ mig' = [mig EXCEPT ![p] = Down]
    /\ UNCHANGED <<schema, writer, kills>>

\* Mutant: no ROLLBACK.  The transaction stays open, and in it the PRAGMA that turns
\* the foreign keys on again does nothing.
LeaveOpen(p) ==
    /\ mig[p].pc = "script"
    /\ mig[p].at \in Applied
    /\ mig' = [mig EXCEPT ![p] = [Onward(p) EXCEPT !.foreignKeys = FALSE]]
    /\ UNCHANGED <<schema, writer, kills>>

\* Mutant: the script is tried again instead of being skipped.
TryAgain(p) ==
    /\ mig[p].pc = "script"
    /\ mig[p].at \in Applied
    /\ writer' = {}
    /\ mig' = [mig EXCEPT ![p].pc = "next", ![p].foreignKeys = TRUE]
    /\ UNCHANGED <<schema, kills>>

\* The INSERT fails on UNIQUE(version): another process was first; ROLLBACK, skip.
AlreadyApplied(p) ==
    /\ mig[p].pc = "script"
    /\ mig[p].at \in Applied
    /\ writer' = {}
    /\ mig' = [mig EXCEPT ![p] = Onward(p)]
    /\ UNCHANGED <<schema, kills>>

\* INSERT, the migration's SQL and COMMIT; PRAGMA foreign_keys=ON.
CommitScript(p) ==
    /\ mig[p].pc = "script"
    /\ mig[p].at \notin Applied
    /\ schema' = Append(schema, mig[p].at)
    /\ writer' = {}
    /\ mig' = [mig EXCEPT ![p] = Onward(p)]
    /\ UNCHANGED kills

Migrated(p) ==
    /\ mig[p].pc = "next"
    /\ mig[p].at = Newest + 1
    /\ mig' = [mig EXCEPT ![p].pc = "ready"]
    /\ UNCHANGED <<schema, writer, kills>>

\* SIGKILL: an open transaction is rolled back by whoever opens the file next.
Kill(p) ==
    /\ mig[p].pc # "down"
    /\ kills < MaxKills
    /\ kills' = kills + 1
    /\ writer' = writer \ {p}
    /\ mig' = [mig EXCEPT ![p] = Down]
    /\ UNCHANGED schema

MigStep(p) ==
    \/ Connect(p) \/ ReadApplied(p) \/ SkipApplied(p) \/ BeginScript(p) \/ LockTimeout(p)
    \/ AlreadyApplied(p) \/ CommitScript(p) \/ Migrated(p)

-----------------------------------------------------------------------------
Running(p) == mig[p].pc = "ready"

-----------------------------------------------------------------------------
(* Properties.                                                             *)

\* However many processes start on the file at once, and wherever they are killed,
\* each migration is applied once, in the order of the files and without a gap.
SchemaIsInOrder == \A i \in DOMAIN schema : schema[i] = i

\* A process that goes on to serve works on the whole schema and with foreign keys
\* enforced, also when every migration it tried had been applied under its feet.
ReadyIsMigrated ==
    \A p \in Process : Running(p) => Applied = Migrations /\ mig[p].foreignKeys

\* What a start on a shared file guarantees, taken together.
StartsAreSerial == MigTypeOK /\ SchemaIsInOrder /\ ReadyIsMigrated

\* A process that is restarted when it fails gets to serve, although it may lose the
\* write lock, or its life, on the way.
StartsInTheEnd == \A p \in Process : <>[]Running(p)

=============================================================================
