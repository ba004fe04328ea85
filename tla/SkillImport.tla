----------------------------- MODULE SkillImport -----------------------------
(***************************************************************************)
(* Importing one skill version: concurrent processes that register the row *)
(* and copy the bundle's files, through one staging directory they share,  *)
(* to skills/<version id>/, and supervisors that mount what they find.     *)
(* rmtree opens the directory and unlinks what it listed there one by one, *)
(* relative to the descriptor: wherever another import has renamed the     *)
(* directory to meanwhile.                                                 *)
(***************************************************************************)
EXTENDS Naturals

CONSTANTS
    Importer,       \* import processes, all of the same bundle
    File,           \* the files of the bundle
    MaxImports,     \* bound: imports in all
    MaxKills        \* bound: imports that die half-way

\* A directory is the set of its entries, "." included; none at all is no directory.
Absent == {}
Empty == {"."}
Complete == File \cup Empty

ASSUME SkillAssumption ==
    /\ "." \notin File
    /\ MaxImports \in Nat /\ MaxKills \in Nat

VARIABLES
    row,        \* the skill version is registered
    staging,    \* .<id>.staging: a directory, or Absent
    dest,       \* skills/<id>: likewise
    imp,        \* each process: its step, ...
    mounts,     \* the directory contents trials were started with
    imports, kills,
    raced,      \* history: two imports have been under way at once
    torn        \* history: a directory was published while another import was removing it

vars == <<row, staging, dest, imp, mounts, imports, kills, raced, torn>>
bounds == <<imports, kills, raced, torn>>

Directory == {Absent} \cup {files \cup Empty : files \in SUBSET File}
Step == {"idle", "check", "clean", "unlink", "mkdir", "copy", "verify", "rename", "yield",
         "compare", "done", "failed", "dead"}

\* ... in a removal the step after it and the directory its descriptor holds open, the
\* files it has still to copy or to unlink, an error met while it copied.
Import == [pc : Step, then : {"mkdir", "failed", "compare"}, held : {"none", "staging", "dest"},
           todo : SUBSET File, error : BOOLEAN]
NoImport == [pc |-> "idle", then |-> "mkdir", held |-> "none", todo |-> {}, error |-> FALSE]

TypeOK ==
    /\ row \in BOOLEAN
    /\ staging \in Directory /\ dest \in Directory
    /\ imp \in [Importer -> Import]
    /\ mounts \subseteq Directory
    /\ imports \in 0..MaxImports /\ kills \in 0..MaxKills
    /\ raced \in BOOLEAN /\ torn \in BOOLEAN

Init ==
    /\ row = FALSE
    /\ staging = Absent /\ dest = Absent
    /\ imp = [i \in Importer |-> NoImport]
    /\ mounts = {}
    /\ imports = 0 /\ kills = 0
    /\ raced = FALSE /\ torn = FALSE

\* tree_digest: nothing but the complete bundle has the registered digest.
Matches(directory) == directory = Complete
Ended == {"idle", "done", "failed", "dead"}
Goto(i, pc) == imp' = [imp EXCEPT ![i].pc = pc]

\* The validated bundle's row; an identical one is already there, or an earlier
\* import's, and a retry starts over.
Register(i) ==
    /\ imp[i].pc \in Ended /\ imports < MaxImports
    /\ imports' = imports + 1
    /\ row' = TRUE
    /\ raced' = (raced \/ \E j \in Importer : imp[j].pc \notin Ended)
    /\ imp' = [imp EXCEPT ![i] = [NoImport EXCEPT !.pc = "check"]]
    /\ UNCHANGED <<staging, dest, mounts, kills, torn>>

\* Bytes that are there are compared, never replaced.
Check(i) ==
    /\ imp[i].pc = "check"
    /\ Goto(i, IF dest = Absent THEN "clean" ELSE IF Matches(dest) THEN "done" ELSE "failed")
    /\ UNCHANGED <<row, staging, dest, mounts, bounds>>

\* Mutant: what a dead import left behind stays.
CleanNothing(i) ==
    /\ imp[i].pc = "clean"
    /\ Goto(i, "mkdir")
    /\ UNCHANGED <<row, staging, dest, mounts, bounds>>

\* rmtree(staging, ignore_errors) begins: the directory is opened and listed, if there
\* is one.
OpenStaging(i, then) ==
    IF staging = Absent
    THEN Goto(i, then)
    ELSE imp' = [imp EXCEPT ![i] = [pc |-> "unlink", then |-> then, held |-> "staging",
                                    todo |-> staging \ Empty, error |-> @.error]]

\* One listed file is unlinked from the directory held open, under whatever name it has
\* by then; from a removed one there is nothing to unlink.
Unlink(i) ==
    /\ imp[i].pc = "unlink"
    /\ \E f \in imp[i].todo :
          /\ staging' = IF imp[i].held = "staging" THEN staging \ {f} ELSE staging
          /\ dest' = IF imp[i].held = "dest" THEN dest \ {f} ELSE dest
          /\ imp' = [imp EXCEPT ![i].todo = @ \ {f}]
    /\ UNCHANGED <<row, mounts, bounds>>

\* The directory itself goes by its path, if it is empty, whoever made it.
Unlinked(i) ==
    /\ imp[i].pc = "unlink" /\ imp[i].todo = {}
    /\ staging' = IF staging = Empty THEN Absent ELSE staging
    /\ imp' = [j \in Importer |->
                 IF j = i THEN [imp[j] EXCEPT !.pc = imp[j].then, !.held = "none"]
                 ELSE IF staging = Empty /\ imp[j].held = "staging"
                 THEN [imp[j] EXCEPT !.held = "none"] ELSE imp[j]]
    /\ UNCHANGED <<row, dest, mounts, bounds>>

\* What an earlier import left behind, or one under way has there, is removed.
Clean(i) ==
    /\ imp[i].pc = "clean"
    /\ OpenStaging(i, "mkdir")
    /\ UNCHANGED <<row, staging, dest, mounts, bounds>>

\* copytree makes the directory, which must not exist, ...
MakeStaging(i) ==
    /\ imp[i].pc = "mkdir"
    /\ IF staging = Absent
       THEN /\ staging' = Empty
            /\ imp' = [imp EXCEPT ![i].pc = "copy", ![i].todo = File]
       ELSE Goto(i, "failed") /\ UNCHANGED staging
    /\ UNCHANGED <<row, dest, mounts, bounds>>

\* ... copies file after file by path, and raises at the end if one failed.
CopyFile(i) ==
    /\ imp[i].pc = "copy"
    /\ \E f \in imp[i].todo, fails \in BOOLEAN :
          LET lost == fails \/ staging = Absent IN
          /\ staging' = IF lost THEN staging ELSE staging \cup {f}
          /\ imp' = [imp EXCEPT ![i].todo = @ \ {f}, ![i].error = @ \/ lost]
    /\ UNCHANGED <<row, dest, mounts, bounds>>

CopyEnds(i) ==
    /\ imp[i].pc = "copy" /\ imp[i].todo = {}
    /\ Goto(i, IF imp[i].error THEN "failed" ELSE "verify")
    /\ UNCHANGED <<row, staging, dest, mounts, bounds>>

\* The copy's digest; a file that vanishes while it is read ends the import on the spot.
Verify(i) ==
    /\ imp[i].pc = "verify"
    /\ \/ Matches(staging) /\ Goto(i, "rename")
       \/ ~Matches(staging) /\ OpenStaging(i, "failed")
       \/ (\E j \in Importer : imp[j].held = "staging") /\ Goto(i, "failed")
    /\ UNCHANGED <<row, staging, dest, mounts, bounds>>

\* Mutant: the newer copy replaces the older one.
RenameReplaces(i) ==
    /\ imp[i].pc = "rename"
    /\ dest' = staging /\ staging' = Absent
    /\ Goto(i, "done")
    /\ UNCHANGED <<row, mounts, bounds>>

\* What an open descriptor holds when staging becomes dest.
Moved(held) == IF held = "staging" THEN "dest" ELSE "none"

\* rename(staging, dest): onto nothing or an empty directory; a staging that is
\* gone, or a dest with files in it, is an OSError.  Open descriptors follow.
Rename(i) ==
    /\ imp[i].pc = "rename"
    /\ IF staging # Absent /\ dest \in {Absent, Empty}
       THEN /\ dest' = staging /\ staging' = Absent
            /\ torn' = (torn \/ \E j \in Importer : imp[j].held = "staging")
            /\ imp' = [j \in Importer |->
                         [imp[j] EXCEPT !.held = Moved(@), !.pc = IF j = i THEN "done" ELSE @]]
       ELSE Goto(i, "yield") /\ UNCHANGED <<staging, dest, torn>>
    /\ UNCHANGED <<row, mounts, imports, kills, raced>>

\* The loser of the rename removes the staging directory and compares what won.
Yield(i) ==
    /\ imp[i].pc = "yield"
    /\ OpenStaging(i, "compare")
    /\ UNCHANGED <<row, staging, dest, mounts, bounds>>

Compare(i) ==
    /\ imp[i].pc = "compare"
    /\ Goto(i, IF Matches(dest) THEN "done" ELSE "failed")
    /\ UNCHANGED <<row, staging, dest, mounts, bounds>>

Kill(i) ==
    /\ imp[i].pc \notin Ended /\ kills < MaxKills
    /\ kills' = kills + 1
    /\ imp' = [imp EXCEPT ![i] = [NoImport EXCEPT !.pc = "dead"]]
    /\ UNCHANGED <<row, staging, dest, mounts, imports, raced, torn>>

\* resolve_skill_mounts: a registered row and bytes of the registered digest;
\* anything else ends the trial before its container starts.
Mount ==
    /\ row /\ Matches(dest)
    /\ mounts' = mounts \cup {dest}
    /\ UNCHANGED <<row, staging, dest, imp, bounds>>

Proceed(i) ==
    \/ Check(i) \/ Clean(i) \/ Unlink(i) \/ Unlinked(i) \/ MakeStaging(i) \/ CopyFile(i)
    \/ CopyEnds(i) \/ Verify(i) \/ Rename(i) \/ Yield(i) \/ Compare(i)

Next == Mount \/ \E i \in Importer : Register(i) \/ Proceed(i) \/ Kill(i)

Spec == Init /\ [][Next]_vars

-----------------------------------------------------------------------------
\* What a trial mounts is what was registered, and stays so under its container.
MountsAreRegistered == \A directory \in mounts : Matches(directory) /\ dest = directory

\* No import that comes later, races or dies changes a mounted directory, as long as no
\* directory is published while another import is removing it: that removal goes on
\* under the new name.
MountsAreSound == TypeOK /\ (~torn => MountsAreRegistered)

\* An import that succeeded leaves the registered bytes, and published bytes
\* are those bytes: "copied to skills/<version-id>/ and verified".
DestIsVerified ==
    /\ dest # Absent => Matches(dest)
    /\ (\E i \in Importer : imp[i].pc = "done") => Matches(dest)

\* Imports one after the other publish complete bytes or none, wherever one of
\* them died, in a copy or in a removal, and leave what is mounted alone.
SerialIsVerified == ~raced => DestIsVerified /\ MountsAreRegistered

\* A retry is never lost to what an earlier import left on the disk: without an
\* error of its own an import does not fail, however the ones before it died.
FailsForCause == ~raced => \A i \in Importer : imp[i].pc = "failed" => imp[i].error

\* Imports that do not overlap: whatever died before, a retry succeeds and what it
\* publishes is whole.
ImportsAreSound == SerialIsVerified /\ FailsForCause
==============================================================================
