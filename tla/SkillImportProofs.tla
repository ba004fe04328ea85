-------------------------- MODULE SkillImportProofs --------------------------
(***************************************************************************)
(* Proofs about SkillImport, for any bundle and any number of importers,   *)
(* imports and deaths: what a trial mounts changes under it only when a    *)
(* directory was published while another import was removing it, and       *)
(* imports that do not race publish the registered bytes or nothing, leave *)
(* what is mounted alone and fail only for an error of their own.          *)
(***************************************************************************)
EXTENDS SkillImport, TLAPS

-----------------------------------------------------------------------------
(* The inductive invariant.                                                *)

Publishing == {"clean", "unlink", "mkdir", "copy", "verify", "rename"}

\* As long as no two imports have met, at most one is under way; ...
OneAtWork == \A i, j \in Importer : i = j \/ imp[i].pc \in Ended \/ imp[j].pc \in Ended

\* ... it publishes onto nothing what its staging holds, which is the files it has copied, ...
StagingIsOurs ==
    \A i \in Importer :
        /\ imp[i].pc \in Publishing => dest = Absent
        /\ imp[i].pc = "unlink" => /\ imp[i].then = "mkdir" /\ imp[i].held = "staging"
                                   /\ staging = imp[i].todo \cup Empty
        /\ imp[i].pc = "mkdir" => staging = Absent
        /\ imp[i].pc = "copy" => staging # Absent
        /\ imp[i].pc = "copy" /\ ~imp[i].error => File \ imp[i].todo \subseteq staging
        /\ imp[i].pc \in {"verify", "rename"} => Matches(staging)
        /\ imp[i].pc \notin {"yield", "compare"}

\* ... and what it leaves behind is whole, or the trace of an error it met.
Serial ==
    /\ OneAtWork
    /\ ~torn
    /\ StagingIsOurs
    /\ DestIsVerified
    /\ \A i \in Importer : imp[i].pc = "failed" => imp[i].error

\* A descriptor is open during a removal only, and on the published directory only if
\* that was published under a removal.
Descriptors ==
    \A i \in Importer :
        /\ imp[i].held # "none" => imp[i].pc = "unlink"
        /\ ~torn => imp[i].held # "dest"

IInv == TypeOK /\ Descriptors /\ (~torn => MountsAreRegistered) /\ (~raced => Serial)

-----------------------------------------------------------------------------
(* Directories.                                                            *)

\* A directory with its own entry is one; with one more file it still is.
LEMMA Directories ==
    /\ Absent \in Directory /\ Empty \in Directory /\ Complete \in Directory
    /\ Absent # Empty /\ Absent # Complete
    /\ \A d \in Directory : d # Absent => \A f \in File : d \cup {f} \in Directory
    /\ \A d \in Directory : \A f \in File : d \ {f} \in Directory
    /\ \A d \in Directory : d \ Empty \in SUBSET File
    /\ \A d \in Directory : d # Absent => "." \in d /\ d \subseteq Complete
<1>1. Absent \in Directory /\ Empty \in Directory /\ Complete \in Directory
  BY DEF Absent, Empty, Complete, Directory
<1>2. Absent # Empty /\ Absent # Complete
  BY DEF Absent, Empty, Complete
<1>3. ASSUME NEW d \in Directory, d # Absent
      PROVE  /\ "." \in d /\ d \subseteq Complete
             /\ \A f \in File : d \cup {f} \in Directory
  <2>1. PICK files \in SUBSET File : d = files \cup Empty
    BY <1>3 DEF Directory
  <2>2. ASSUME NEW f \in File PROVE d \cup {f} \in Directory
    <3>1. files \cup {f} \in SUBSET File /\ d \cup {f} = (files \cup {f}) \cup Empty
      BY <2>1
    <3>. QED
      BY <3>1 DEF Directory
  <2>. QED
    BY <2>1, <2>2 DEF Empty, Complete
<1>4. ASSUME NEW d \in Directory PROVE d \ Empty \in SUBSET File
  BY SkillAssumption DEF Directory, Absent, Empty
<1>5. ASSUME NEW d \in Directory, NEW f \in File PROVE d \ {f} \in Directory
  <2>1. CASE d = Absent
    BY <2>1, <1>1 DEF Absent
  <2>2. CASE d # Absent
    <3>1. PICK files \in SUBSET File : d = files \cup Empty
      BY <2>2 DEF Directory
    <3>2. f # "."
      BY SkillAssumption
    <3>3. files \ {f} \in SUBSET File /\ d \ {f} = (files \ {f}) \cup Empty
      BY <3>1, <3>2 DEF Empty
    <3>. QED
      BY <3>3 DEF Directory
  <2>. QED
    BY <2>1, <2>2
<1>. QED
  BY <1>1, <1>2, <1>3, <1>4, <1>5

\* A rename never replaces the registered bytes by others, not even those of a bundle
\* without files.
LEMMA RenameKeeps ==
    ASSUME TypeOK, NEW i \in Importer, Rename(i), Matches(dest)
    PROVE  dest' = dest
<1>1. CASE UNCHANGED dest
  BY <1>1
<1>2. CASE staging # Absent /\ dest \in {Absent, Empty} /\ dest' = staging
  <2>1. dest = Complete /\ Complete = Empty
    BY <1>2, Directories DEF Matches
  <2>2. staging \subseteq Complete /\ "." \in staging
    BY <1>2, Directories DEF TypeOK
  <2>3. staging = Empty
    BY <2>1, <2>2 DEF Empty
  <2>. QED
    BY <1>2, <2>1, <2>3
<1>. QED
  BY <1>1, <1>2 DEF Rename

-----------------------------------------------------------------------------
(* The steps.                                                              *)

LEMMA InitInductive == Init => IInv
<1> SUFFICES ASSUME Init PROVE IInv
  OBVIOUS
<1>1. TypeOK
  <2>1. imp \in [Importer -> Import]
    BY DEF Init, Import, NoImport, Step
  <2>2. imports \in 0..MaxImports /\ kills \in 0..MaxKills
    BY SkillAssumption DEF Init
  <2>3. staging \in Directory /\ dest \in Directory /\ mounts \subseteq Directory
    BY Directories DEF Init
  <2>. QED
    BY <2>1, <2>2, <2>3 DEF Init, TypeOK
<1>2. MountsAreRegistered
  BY DEF Init, MountsAreRegistered
<1>3. Serial
  BY DEF Init, NoImport, Serial, OneAtWork, StagingIsOurs, DestIsVerified, Ended, Publishing
<1>4. Descriptors
  BY DEF Init, NoImport, Descriptors
<1>. QED
  BY <1>1, <1>2, <1>3, <1>4 DEF IInv

\* The fields of an import are set one by one.
LEMMA Fields ==
    ASSUME NEW w \in Import
    PROVE  /\ \A pc \in Step : [w EXCEPT !.pc = pc] \in Import
           /\ \A held \in {"none", "staging", "dest"} : [w EXCEPT !.held = held] \in Import
           /\ \A todo \in SUBSET File : [w EXCEPT !.todo = todo] \in Import
           /\ \A error \in BOOLEAN : [w EXCEPT !.error = error] \in Import
<1>1. ASSUME NEW pc \in Step PROVE [w EXCEPT !.pc = pc] \in Import
  BY DEF Import
<1>2. ASSUME NEW held \in {"none", "staging", "dest"} PROVE [w EXCEPT !.held = held] \in Import
  BY DEF Import
<1>3. ASSUME NEW todo \in SUBSET File PROVE [w EXCEPT !.todo = todo] \in Import
  BY DEF Import
<1>4. ASSUME NEW error \in BOOLEAN PROVE [w EXCEPT !.error = error] \in Import
  BY DEF Import
<1>. QED
  BY <1>1, <1>2, <1>3, <1>4

\* The types of a removal's beginning.
LEMMA OpenType ==
    ASSUME TypeOK, NEW i \in Importer, NEW then \in {"mkdir", "failed", "compare"},
           OpenStaging(i, then)
    PROVE  imp' \in [Importer -> Import]
<1>1. CASE imp' = [imp EXCEPT ![i].pc = then]
  BY <1>1 DEF TypeOK, Import, Step
<1>2. CASE imp' = [imp EXCEPT ![i] = [pc |-> "unlink", then |-> then, held |-> "staging",
                                      todo |-> staging \ Empty, error |-> @.error]]
  <2>1. staging \ Empty \in SUBSET File /\ imp[i].error \in BOOLEAN
    BY Directories DEF TypeOK, Import
  <2>2. PICK e \in BOOLEAN : e = imp[i].error
    BY <2>1
  <2>3. PICK files \in SUBSET File : files = staging \ Empty
    BY <2>1
  <2>4. imp' = [imp EXCEPT ![i] = [pc |-> "unlink", then |-> then, held |-> "staging",
                                   todo |-> files, error |-> e]]
    BY <1>2, <2>2, <2>3
  <2>. QED
    BY <2>4 DEF TypeOK, Import, Step
<1>. QED
  BY <1>1, <1>2 DEF OpenStaging, Goto

\* Every step keeps the types.
LEMMA TypeStep == TypeOK /\ [Next]_vars => TypeOK'
<1> SUFFICES ASSUME TypeOK, [Next]_vars PROVE TypeOK'
  OBVIOUS
<1> USE SkillAssumption, Directories DEF TypeOK, Goto, bounds
<1>1. CASE Mount
  BY <1>1 DEF Mount
<1>2. ASSUME NEW i \in Importer, Register(i) PROVE TypeOK'
  <2>1. [NoImport EXCEPT !.pc = "check"] \in Import
    BY DEF NoImport, Import, Step
  <2>. QED
    BY <1>2, <2>1 DEF Register
<1>3. ASSUME NEW i \in Importer, Check(i) PROVE TypeOK'
  BY <1>3 DEF Check, Import, Step
<1>4. ASSUME NEW i \in Importer, Clean(i) PROVE TypeOK'
  BY <1>4, OpenType DEF Clean
<1>5. ASSUME NEW i \in Importer, Unlink(i) PROVE TypeOK'
  <2>1. PICK f \in imp[i].todo :
           /\ staging' = IF imp[i].held = "staging" THEN staging \ {f} ELSE staging
           /\ dest' = IF imp[i].held = "dest" THEN dest \ {f} ELSE dest
           /\ imp' = [imp EXCEPT ![i].todo = @ \ {f}]
    BY <1>5 DEF Unlink
  <2>2. f \in File
    BY <2>1 DEF Import
  <2>3. staging' \in Directory /\ dest' \in Directory
    BY <2>1, <2>2
  <2>4. imp' \in [Importer -> Import]
    <3>1. PICK files \in SUBSET File : files = imp[i].todo \ {f}
      BY DEF Import
    <3>2. imp' = [imp EXCEPT ![i].todo = files]
      BY <2>1, <3>1
    <3>. QED
      BY <3>2 DEF Import
  <2>. QED
    BY <1>5, <2>3, <2>4 DEF Unlink
<1>6. ASSUME NEW i \in Importer, Unlinked(i) PROVE TypeOK'
  <2>1. staging' \in Directory
    BY <1>6 DEF Unlinked
  <2>2. ASSUME NEW j \in Importer
        PROVE  /\ [imp[j] EXCEPT !.held = "none"] \in Import
               /\ [imp[j] EXCEPT !.pc = imp[j].then, !.held = "none"] \in Import
    <3>1. PICK w \in Import : w = imp[j]
      OBVIOUS
    <3>2. w.then \in Step
      BY DEF Import, Step
    <3>3. PICK u \in Import : u = [w EXCEPT !.pc = w.then]
      BY <3>2, Fields
    <3>4. [w EXCEPT !.held = "none"] \in Import /\ [u EXCEPT !.held = "none"] \in Import
      BY Fields
    <3>5. [w EXCEPT !.pc = w.then, !.held = "none"] = [u EXCEPT !.held = "none"]
      BY <3>3
    <3>. QED
      BY <3>1, <3>4, <3>5
  <2>3. imp' \in [Importer -> Import]
    BY <1>6, <2>2 DEF Unlinked
  <2>. QED
    BY <1>6, <2>1, <2>3 DEF Unlinked
<1>7. ASSUME NEW i \in Importer, MakeStaging(i) PROVE TypeOK'
  BY <1>7 DEF MakeStaging, Import, Step
<1>8. ASSUME NEW i \in Importer, CopyFile(i) PROVE TypeOK'
  <2>1. PICK f \in imp[i].todo, fails \in BOOLEAN :
           LET lost == fails \/ staging = Absent IN
           /\ staging' = IF lost THEN staging ELSE staging \cup {f}
           /\ imp' = [imp EXCEPT ![i].todo = @ \ {f}, ![i].error = @ \/ lost]
    BY <1>8 DEF CopyFile
  <2>2. f \in File /\ imp[i].error \in BOOLEAN /\ imp[i].todo \ {f} \in SUBSET File
    BY <2>1 DEF Import
  <2>3. staging' \in Directory
    BY <2>1, <2>2
  <2>4. PICK e \in BOOLEAN : imp' = [imp EXCEPT ![i].todo = @ \ {f}, ![i].error = e]
    BY <2>1
  <2>5. imp' \in [Importer -> Import]
    <3>1. PICK files \in SUBSET File : files = imp[i].todo \ {f}
      BY <2>2
    <3>2. PICK w \in Import : w = imp[i]
      OBVIOUS
    <3>3. PICK u \in Import : u = [w EXCEPT !.todo = files]
      BY Fields
    <3>4. PICK v \in Import : v = [u EXCEPT !.error = e]
      BY Fields
    <3>5. imp' = [imp EXCEPT ![i] = v]
      BY <2>4, <3>1, <3>2, <3>3, <3>4
    <3>. QED
      BY <3>5
  <2>. QED
    BY <1>8, <2>3, <2>5 DEF CopyFile
<1>9. ASSUME NEW i \in Importer, CopyEnds(i) PROVE TypeOK'
  BY <1>9 DEF CopyEnds, Import, Step
<1>10. ASSUME NEW i \in Importer, Verify(i) PROVE TypeOK'
  <2>1. Goto(i, "rename") \/ Goto(i, "failed") => imp' \in [Importer -> Import]
    BY DEF Import, Step
  <2>. QED
    BY <1>10, <2>1, OpenType DEF Verify
<1>11. ASSUME NEW i \in Importer, Rename(i) PROVE TypeOK'
  <2>1. CASE Goto(i, "yield") /\ UNCHANGED <<staging, dest, torn>>
    <3>1. imp' \in [Importer -> Import]
      BY <2>1 DEF Import, Step
    <3>. QED
      BY <1>11, <2>1, <3>1 DEF Rename
  <2>2. CASE /\ dest' = staging /\ staging' = Absent
             /\ torn' = (torn \/ \E j \in Importer : imp[j].held = "staging")
             /\ imp' = [j \in Importer |->
                          [imp[j] EXCEPT !.held = Moved(@), !.pc = IF j = i THEN "done" ELSE @]]
    <3>1. ASSUME NEW j \in Importer
          PROVE  [imp[j] EXCEPT !.held = Moved(@), !.pc = IF j = i THEN "done" ELSE @] \in Import
      <4>1. PICK w \in Import : w = imp[j]
        OBVIOUS
      <4>2. PICK held \in {"none", "staging", "dest"} : held = Moved(w.held)
        BY DEF Moved
      <4>3. PICK pc \in Step : pc = IF j = i THEN "done" ELSE w.pc
        BY DEF Import, Step
      <4>4. PICK u \in Import : u = [w EXCEPT !.held = held]
        BY Fields
      <4>5. [u EXCEPT !.pc = pc] \in Import
        BY Fields
      <4>6. [w EXCEPT !.held = Moved(@), !.pc = IF j = i THEN "done" ELSE @]
              = [u EXCEPT !.pc = pc]
        BY <4>2, <4>3, <4>4 DEF Import
      <4>. QED
        BY <4>1, <4>5, <4>6
    <3>2. imp' \in [Importer -> Import]
      BY <2>2, <3>1
    <3>. QED
      BY <1>11, <2>2, <3>2 DEF Rename
  <2>. QED
    BY <1>11, <2>1, <2>2 DEF Rename
<1>12. ASSUME NEW i \in Importer, Yield(i) PROVE TypeOK'
  BY <1>12, OpenType DEF Yield
<1>13. ASSUME NEW i \in Importer, Compare(i) PROVE TypeOK'
  BY <1>13 DEF Compare, Import, Step
<1>14. ASSUME NEW i \in Importer, Kill(i) PROVE TypeOK'
  <2>1. [NoImport EXCEPT !.pc = "dead"] \in Import
    BY DEF NoImport, Import, Step
  <2>. QED
    BY <1>14, <2>1 DEF Kill
<1>15. CASE UNCHANGED vars
  BY <1>15 DEF vars
<1>. QED
  BY <1>1, <1>2, <1>3, <1>4, <1>5, <1>6, <1>7, <1>8, <1>9, <1>10, <1>11, <1>12, <1>13,
     <1>14, <1>15 DEF Next, Proceed

\* What one step does to an importer's descriptor, its own and the others'.
LEMMA DescriptorStep == TypeOK /\ Descriptors /\ [Next]_vars => Descriptors'
<1> SUFFICES ASSUME TypeOK, Descriptors, [Next]_vars PROVE Descriptors'
  OBVIOUS
<1> USE DEF TypeOK, Import, Descriptors, Goto, OpenStaging, bounds
<1>1. CASE Mount \/ UNCHANGED vars
  BY <1>1 DEF Mount, vars
<1>2. ASSUME NEW i \in Importer, Register(i) PROVE Descriptors'
  BY <1>2 DEF Register, NoImport
<1>3. ASSUME NEW i \in Importer, Check(i) \/ CopyEnds(i) \/ Compare(i) \/ MakeStaging(i)
      PROVE  Descriptors'
  BY <1>3 DEF Check, CopyEnds, Compare, MakeStaging
<1>4. ASSUME NEW i \in Importer, Clean(i) \/ Verify(i) \/ Yield(i) PROVE Descriptors'
  BY <1>4 DEF Clean, Verify, Yield
<1>5. ASSUME NEW i \in Importer, Unlink(i) PROVE Descriptors'
  BY <1>5 DEF Unlink
<1>6. ASSUME NEW i \in Importer, Unlinked(i) PROVE Descriptors'
  BY <1>6 DEF Unlinked
<1>7. ASSUME NEW i \in Importer, CopyFile(i) PROVE Descriptors'
  BY <1>7 DEF CopyFile
<1>8. ASSUME NEW i \in Importer, Rename(i) PROVE Descriptors'
  <2>1. CASE Goto(i, "yield") /\ torn' = torn
    BY <1>8, <2>1 DEF Rename
  <2>2. CASE /\ torn' = (torn \/ \E j \in Importer : imp[j].held = "staging")
             /\ imp' = [j \in Importer |->
                          [imp[j] EXCEPT !.held = Moved(@), !.pc = IF j = i THEN "done" ELSE @]]
    <3>1. imp[i].held = "none"
      BY <1>8 DEF Rename
    <3>2. \A j \in Importer : /\ imp'[j].held = Moved(imp[j].held)
                              /\ j # i => imp'[j].pc = imp[j].pc
      BY <2>2
    <3>. QED
      BY <2>2, <3>1, <3>2 DEF Moved
  <2>. QED
    BY <1>8, <2>1, <2>2 DEF Rename
<1>9. ASSUME NEW i \in Importer, Kill(i) PROVE Descriptors'
  BY <1>9 DEF Kill, NoImport
<1>. QED
  BY <1>1, <1>2, <1>3, <1>4, <1>5, <1>6, <1>7, <1>8, <1>9 DEF Next, Proceed

\* Only a rename changes the published directory, and never one that is whole; unless a
\* removal holds it open.
LEMMA DestStep ==
    ASSUME TypeOK, Descriptors, ~torn, [Next]_vars, Matches(dest)
    PROVE  dest' = dest
<1>1. UNCHANGED dest \/ \E i \in Importer : Rename(i) \/ Unlink(i)
  BY DEF Next, Proceed, Mount, Register, Check, Clean, Unlinked, MakeStaging, CopyFile, CopyEnds,
         Verify, Yield, Compare, Kill, vars
<1>2. ASSUME NEW i \in Importer, Unlink(i) PROVE dest' = dest
  BY <1>2 DEF Unlink, Descriptors
<1>. QED
  BY <1>1, <1>2, RenameKeeps

\* What was torn stays so.
LEMMA TornStays == [Next]_vars /\ ~torn' => ~torn
BY DEF Next, Proceed, Mount, Register, Check, Clean, Unlink, Unlinked, MakeStaging, CopyFile,
       CopyEnds, Verify, Rename, Yield, Compare, Kill, bounds, vars

\* What is mounted stays mounted as it was.
LEMMA MountStep ==
    ASSUME TypeOK, Descriptors, ~torn => MountsAreRegistered, [Next]_vars, ~torn'
    PROVE  MountsAreRegistered'
<1>1. mounts' = mounts \/ (mounts' = mounts \cup {dest} /\ Matches(dest))
  BY DEF Next, Proceed, Mount, Register, Check, Clean, Unlink, Unlinked, MakeStaging, CopyFile,
         CopyEnds, Verify, Rename, Yield, Compare, Kill, vars
<1>2. ~torn
  BY TornStays
<1>. QED
  BY <1>1, <1>2, DestStep DEF MountsAreRegistered, Matches

\* Nobody else is at work while one importer is.
LEMMA Alone ==
    ASSUME OneAtWork, NEW i \in Importer, imp[i].pc \notin Ended
    PROVE  \A j \in Importer \ {i} : imp[j].pc \in Ended
BY DEF OneAtWork

\* A step of an importer changes nothing of another that is not at a removal.
LEMMA OthersStay ==
    ASSUME TypeOK, Descriptors, NEW i \in Importer, Register(i) \/ Proceed(i) \/ Kill(i),
           NEW j \in Importer \ {i}, imp[j].pc \in Ended
    PROVE  imp'[j].pc = imp[j].pc /\ imp'[j].error = imp[j].error
<1> USE DEF TypeOK, Import, Descriptors, Goto, OpenStaging, Ended
<1>1. CASE Register(i) \/ Kill(i)
  BY <1>1 DEF Register, Kill
<1>2. CASE Check(i) \/ Clean(i) \/ Verify(i) \/ Yield(i) \/ Compare(i) \/ CopyEnds(i)
  BY <1>2 DEF Check, Clean, Verify, Yield, Compare, CopyEnds
<1>3. CASE Unlink(i)
  BY <1>3 DEF Unlink
<1>4. CASE Unlinked(i)
  BY <1>4 DEF Unlinked
<1>5. CASE MakeStaging(i) \/ CopyFile(i)
  BY <1>5 DEF MakeStaging, CopyFile
<1>6. CASE Rename(i)
  <2>1. CASE Goto(i, "yield")
    BY <2>1
  <2>2. CASE imp' = [k \in Importer |->
                       [imp[k] EXCEPT !.held = Moved(@), !.pc = IF k = i THEN "done" ELSE @]]
    <3>1. PICK w \in Import : w = imp[j]
      OBVIOUS
    <3>2. imp'[j] = [w EXCEPT !.held = Moved(@), !.pc = w.pc]
      BY <2>2, <3>1
    <3>. QED
      BY <3>1, <3>2
  <2>. QED
    BY <1>6, <2>1, <2>2 DEF Rename
<1>. QED
  BY <1>1, <1>2, <1>3, <1>4, <1>5, <1>6 DEF Proceed

\* Imports that do not meet stay sound.
LEMMA SerialStep ==
    ASSUME TypeOK, Descriptors, ~raced => Serial, [Next]_vars, ~raced'
    PROVE  Serial'
<1>0. ~raced /\ Serial
  <2>1. raced' = raced \/ \E i \in Importer : Register(i)
    BY DEF Next, Proceed, Mount, Check, Clean, Unlink, Unlinked, MakeStaging, CopyFile, CopyEnds,
           Verify, Rename, Yield, Compare, Kill, bounds, vars
  <2>2. ~raced
    BY <2>1 DEF Register
  <2>. QED
    BY <2>2
<1>1. CASE Mount \/ UNCHANGED vars
  BY <1>0, <1>1 DEF Mount, vars, bounds, Serial, OneAtWork, StagingIsOurs, DestIsVerified
<1> SUFFICES ASSUME NEW i \in Importer, Register(i) \/ Proceed(i) \/ Kill(i) PROVE Serial'
  BY <1>1 DEF Next
<1>3. \A j \in Importer \ {i} : imp[j].pc \in Ended
  <2>1. CASE Register(i)
    BY <1>0, <2>1 DEF Register
  <2>2. CASE Proceed(i) \/ Kill(i)
    <3>1. imp[i].pc \notin Ended
      BY <2>2 DEF Proceed, Kill, Check, Clean, Unlink, Unlinked, MakeStaging, CopyFile, CopyEnds,
                  Verify, Rename, Yield, Compare, Ended
    <3>. QED
      BY <1>0, <3>1, Alone DEF Serial
  <2>. QED
    BY <2>1, <2>2
<1>2. \A j \in Importer \ {i} : imp'[j].pc = imp[j].pc /\ imp'[j].error = imp[j].error
  BY <1>3, OthersStay
<1>4. OneAtWork'
  BY <1>2, <1>3 DEF OneAtWork
<1>5. /\ ~torn'
      /\ imp'[i].pc \in Publishing => dest' = Absent
      /\ imp'[i].pc = "unlink" => /\ imp'[i].then = "mkdir" /\ imp'[i].held = "staging"
                                  /\ staging' = imp'[i].todo \cup Empty
      /\ imp'[i].pc = "mkdir" => staging' = Absent
      /\ imp'[i].pc = "copy" => staging' # Absent
      /\ imp'[i].pc = "copy" /\ ~imp'[i].error => File \ imp'[i].todo \subseteq staging'
      /\ imp'[i].pc \in {"verify", "rename"} => Matches(staging')
      /\ imp'[i].pc \notin {"yield", "compare"}
      /\ dest' # Absent => Matches(dest')
      /\ imp'[i].pc = "done" => Matches(dest')
      /\ imp'[i].pc = "failed" => imp'[i].error
      /\ Matches(dest) => Matches(dest')
  <2> USE <1>0 DEF TypeOK, Import, Serial, StagingIsOurs, DestIsVerified, Publishing, Matches,
                   Goto, bounds
  <2>1. CASE Register(i)
    BY <2>1 DEF Register, NoImport
  <2>2. CASE Check(i)
    BY <2>2 DEF Check
  <2>3. CASE Clean(i)
    <3>1. imp[i].pc = "clean" /\ staging' = staging /\ dest' = dest /\ dest = Absent /\ torn' = torn
      BY <2>3 DEF Clean
    <3>2. CASE staging = Absent
      <4>1. imp'[i].pc = "mkdir"
        BY <2>3, <3>2 DEF Clean, OpenStaging
      <4>. QED
        BY <3>1, <3>2, <4>1
    <3>3. CASE staging # Absent
      <4>1. imp'[i].pc = "unlink" /\ imp'[i].then = "mkdir" /\ imp'[i].held = "staging"
        BY <2>3, <3>3 DEF Clean, OpenStaging
      <4>2. imp'[i].todo = staging \ Empty
        BY <2>3, <3>3 DEF Clean, OpenStaging
      <4>3. "." \in staging
        BY <3>3, Directories
      <4>4. staging' = imp'[i].todo \cup Empty
        BY <3>1, <4>2, <4>3 DEF Empty
      <4>. QED
        BY <3>1, <4>1, <4>4
    <3>. QED
      BY <3>2, <3>3
  <2>12. CASE Unlink(i)
    <3>1. PICK f \in imp[i].todo :
             /\ staging' = IF imp[i].held = "staging" THEN staging \ {f} ELSE staging
             /\ dest' = IF imp[i].held = "dest" THEN dest \ {f} ELSE dest
             /\ imp' = [imp EXCEPT ![i].todo = @ \ {f}]
      BY <2>12 DEF Unlink
    <3>2. imp[i].pc = "unlink" /\ imp[i].then = "mkdir" /\ imp[i].held = "staging"
      BY <2>12 DEF Unlink
    <3>3. staging = imp[i].todo \cup Empty /\ dest = Absent
      BY <3>2
    <3>4. staging' = staging \ {f} /\ dest' = dest /\ torn' = torn
      BY <2>12, <3>1, <3>2 DEF Unlink
    <3>5. /\ imp'[i].pc = "unlink" /\ imp'[i].then = "mkdir" /\ imp'[i].held = "staging"
          /\ imp'[i].todo = imp[i].todo \ {f}
      BY <3>1, <3>2
    <3>6. f # "."
      BY <3>1, SkillAssumption
    <3>7. staging' = imp'[i].todo \cup Empty
      BY <3>3, <3>4, <3>5, <3>6 DEF Empty
    <3>. QED
      BY <3>3, <3>4, <3>5, <3>7
  <2>13. CASE Unlinked(i)
    <3>1. /\ imp[i].pc = "unlink" /\ imp[i].then = "mkdir" /\ staging = Empty /\ dest = Absent
      BY <2>13 DEF Unlinked
    <3>2. imp'[i].pc = "mkdir"
      BY <2>13, <3>1 DEF Unlinked
    <3>3. staging' = Absent /\ dest' = dest /\ torn' = torn
      BY <2>13, <3>1 DEF Unlinked
    <3>. QED
      BY <3>1, <3>2, <3>3
  <2>4. CASE MakeStaging(i)
    <3>1. /\ staging' = Empty /\ dest' = dest
          /\ imp' = [imp EXCEPT ![i].pc = "copy", ![i].todo = File]
      BY <2>4 DEF MakeStaging
    <3>2. imp'[i].pc = "copy" /\ imp'[i].todo = File
      BY <3>1
    <3>. QED
      BY <2>4, <3>1, <3>2, Directories DEF MakeStaging
  <2>5. CASE CopyFile(i)
    <3>1. PICK f \in imp[i].todo, fails \in BOOLEAN :
             LET lost == fails \/ staging = Absent IN
             /\ staging' = IF lost THEN staging ELSE staging \cup {f}
             /\ imp' = [imp EXCEPT ![i].todo = @ \ {f}, ![i].error = @ \/ lost]
      BY <2>5 DEF CopyFile
    <3>2. staging # Absent /\ dest = Absent /\ imp[i].pc = "copy"
      BY <2>5 DEF CopyFile
    <3>3. imp'[i].pc = "copy" /\ imp'[i].todo = imp[i].todo \ {f}
      BY <3>1, <3>2
    <3>4. imp'[i].error <=> imp[i].error \/ fails
      BY <3>1, <3>2
    <3>5. staging' = staging \/ staging' = staging \cup {f}
      BY <3>1
    <3>6. ~fails => staging' = staging \cup {f}
      BY <3>1, <3>2
    <3>7. ~imp'[i].error => File \ imp'[i].todo \subseteq staging'
      BY <2>5, <3>3, <3>4, <3>6 DEF CopyFile
    <3>8. staging' # Absent /\ dest' = dest /\ torn' = torn
      BY <2>5, <3>2, <3>5 DEF CopyFile, Absent
    <3>. QED
      BY <3>2, <3>3, <3>7, <3>8
  <2>6. CASE CopyEnds(i)
    <3>1. imp[i].pc = "copy" /\ imp[i].todo = {} /\ staging' = staging /\ dest' = dest
          /\ torn' = torn
      BY <2>6 DEF CopyEnds
    <3>2. CASE imp[i].error
      <4>1. imp'[i].pc = "failed" /\ imp'[i].error
        BY <2>6, <3>2 DEF CopyEnds
      <4>. QED
        BY <3>1, <4>1
    <3>3. CASE ~imp[i].error
      <4>1. imp'[i].pc = "verify"
        BY <2>6, <3>3 DEF CopyEnds
      <4>2. File \subseteq staging /\ "." \in staging /\ staging \subseteq Complete
        BY <3>1, <3>3, Directories
      <4>3. Matches(staging)
        BY <4>2 DEF Complete, Empty
      <4>. QED
        BY <3>1, <4>1, <4>3
    <3>. QED
      BY <3>2, <3>3
  <2>7. CASE Verify(i)
    BY <2>7, <1>3 DEF Verify, Descriptors, Ended
  <2>8. CASE Rename(i)
    <3>1. dest = Absent /\ staging = Complete /\ staging # Absent
      BY <2>8, Directories DEF Rename
    <3>0. /\ dest' = staging
          /\ imp' = [j \in Importer |->
                       [imp[j] EXCEPT !.held = Moved(@), !.pc = IF j = i THEN "done" ELSE @]]
      BY <2>8, <3>1 DEF Rename
    <3>2. dest' = Complete /\ imp'[i].pc = "done"
      BY <3>0, <3>1
    <3>3. \A j \in Importer : imp[j].held # "staging"
      BY <1>3, <2>8 DEF Rename, Descriptors, Ended
    <3>4. ~torn'
      BY <2>8, <3>3 DEF Rename
    <3>. QED
      BY <3>2, <3>4
  <2>9. CASE Yield(i)
    BY <2>9 DEF Yield
  <2>10. CASE Compare(i)
    BY <2>10 DEF Compare
  <2>11. CASE Kill(i)
    BY <2>11 DEF Kill, NoImport
  <2>. QED
    BY <2>1, <2>2, <2>3, <2>4, <2>5, <2>6, <2>7, <2>8, <2>9, <2>10, <2>11,
       <2>12, <2>13 DEF Proceed
<1>6. StagingIsOurs'
  BY <1>2, <1>3, <1>5 DEF StagingIsOurs, Ended, Publishing, Matches
<1>7. DestIsVerified'
  BY <1>0, <1>2, <1>5 DEF Serial, DestIsVerified, Matches
<1>8. (\A j \in Importer : imp[j].pc = "failed" => imp[j].error)'
  BY <1>0, <1>2, <1>5 DEF Serial
<1>. QED
  BY <1>4, <1>5, <1>6, <1>7, <1>8 DEF Serial

-----------------------------------------------------------------------------
(* The theorems.                                                           *)

\* Types, mounts and, until imports race, what one import at a time keeps.
THEOREM Inductive == Spec => []IInv
<1>1. Init => IInv
  BY InitInductive
<1>2. IInv /\ [Next]_vars => IInv'
  BY TypeStep, DescriptorStep, MountStep, SerialStep DEF IInv
<1>. QED
  BY <1>1, <1>2, PTL DEF Spec

\* A trial mounts what was registered, and no import that comes later, races or dies
\* changes it under the container, as long as no directory was published while another
\* import was removing it: Check never replaces bytes that are there, rename onto a
\* directory with files in it fails, and no descriptor is open on what is published.
THEOREM MountsSound == Spec => []MountsAreSound
<1>1. IInv => MountsAreSound
  BY DEF IInv, MountsAreSound
<1>. QED
  BY <1>1, Inductive, PTL

\* Imports that never overlapped: what is published is whole and what is mounted stays,
\* wherever an earlier one died, and an import fails only for an error it met itself.
THEOREM ImportsSound == Spec => []ImportsAreSound
<1>1. IInv => ImportsAreSound
  BY DEF IInv, Serial, ImportsAreSound, SerialIsVerified, FailsForCause
<1>. QED
  BY <1>1, Inductive, PTL
=============================================================================
