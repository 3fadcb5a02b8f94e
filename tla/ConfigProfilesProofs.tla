------------------------- MODULE ConfigProfilesProofs -------------------------
(***************************************************************************)
(* Theorems about ConfigProfiles for any profiles and any documents in     *)
(* them, any number of edits and of starts, and a failure or a stop after  *)
(* any write.                                                              *)
(***************************************************************************)
EXTENDS ConfigProfiles, TLAPS

Loading == {"load", "rewrite"}
Offering == {"boot", "dialog", "recreate"}
Saving == {"saveProgram", "saveProfile"}

\* What is being loaded is a profile; an old document is archived before it is
\* replaced, and a profile that does not load before it is made anew.
Replacing ==
  /\ pc \in Loading \cup Offering => target \in Profiles
  /\ pc = "rewrite" => file[target] \in archive /\ file[target].schema = "old"
  /\ pc = "recreate" => file[target] = NoDocument

\* What is being saved goes under the active name.
Targeted ==
  /\ pc \in Saving \cup {"dependencies"} => target = program
  /\ pc = "saveProgram" /\ target = None => task = "save"
  /\ pc = "dependencies" => target # None
  /\ pc = "saveProfile" => target # None /\ programDisk = program
  /\ pc \in Loading /\ task \in {"list", "delete"} => box = target
  /\ pc \in Loading /\ task = "delete" => stray = "deleted"

\* Unless one of the four causes is there, that name is the one the settings
\* were loaded from, and but for a load or Save As under way, the list shows it.
Naming ==
  stray = "none" =>
    /\ pc \in {"running", "apply", "dependencies"} \cup Saving => program = owner
    /\ pc \in {"running", "apply", "dependencies"} => program \in Existing
    /\ pc \in Saving /\ task # "saveAs" => program \in Existing
    /\ pc \in Loading /\ task \in {"list", "job"} => program = owner /\ program \in Existing
    /\ pc \in {"running", "apply"} => box = program
    /\ pc \in Saving /\ task \in {"save", "list", "delete"} => box = program
    /\ pc \in Loading /\ task = "job" => box = program

\* The application runs on settings that were valid when they were loaded, and
\* before its first load there is no profile to compare them with.
Valid ==
  /\ pc \in Loading \cup Offering \cup Saving \cup {"off", "running", "apply", "dependencies"}
  /\ pc \in {"off", "running"} => task = "none"
  /\ pc \in Loading => task \in {"start", "list", "delete", "job"}
  /\ pc \in Saving => task # "none"
  /\ pc \in {"boot", "dependencies"} => task = "start"
  /\ pc \in Offering => task \in {"start", "started"}
  /\ pc = "apply" => task = "save"
  /\ pc \in {"off", "boot", "recreate"} => active = None
  /\ settings.schema = "current"
  /\ pc \in Saving \cup {"running", "apply", "dependencies"}
       \/ (pc \in Loading /\ task # "start") => settings \in Documents

\* What the active profile's file holds is what the snapshot says it holds.
Synced ==
  ~torn /\ active \in Profiles /\ file[active] # NoDocument /\ snapshot.schema = "current"
  => file[active] = snapshot

Inv == TypeOK /\ Replacing /\ Targeted /\ Naming /\ Valid /\ Synced

-----------------------------------------------------------------------------
\* What the actions make of a document is a document.
LEMMA DocumentFacts ==
  /\ Default \in Documents /\ Default # NoDocument /\ Default.schema = "current"
  /\ NoDocument.schema = "current" /\ NoDocument \notin Documents
  /\ \A d \in Documents : Migrated(d) \in Documents /\ Migrated(d).schema = "current"
       /\ d.schema \in Schemas
BY ProfilesAssumption DEF Migrated, Default, NoDocument, Documents, Schemas

LEMMA EditedFacts ==
  ASSUME settings \in Documents, settings.schema = "current"
  PROVE  Edited \in Documents /\ Edited.schema = "current"
BY ProfilesAssumption DEF Edited, Documents

-----------------------------------------------------------------------------
LEMMA InitInv == Init => Inv
<1> SUFFICES ASSUME Init PROVE Inv
  OBVIOUS
<1> USE ProfilesAssumption, DocumentFacts DEF Init
<1>1. programDisk \in Profiles
  BY DEF Existing
<1>2. TypeOK
  BY <1>1 DEF TypeOK, Tasks, Strays
<1>3. Replacing /\ Targeted /\ Naming /\ Valid /\ Synced
  BY DEF Replacing, Targeted, Naming, Valid, Synced, Loading, Offering, Saving
<1> QED BY <1>2, <1>3 DEF Inv

LEMMA StartInv == Inv /\ Start => Inv'
<1> SUFFICES ASSUME Inv, Start PROVE Inv'
  OBVIOUS
<1> USE ProfilesAssumption, DocumentFacts
     DEF Start, Existing, files, config, Inv, Valid, Loading, Offering, Saving
<1>1. TypeOK'
  BY DEF TypeOK, Replacing, Targeted, Tasks, Strays, Existing
<1>2. Replacing' /\ Targeted'
  BY DEF TypeOK, Replacing, Targeted, Existing
<1>3. Naming'
  BY DEF TypeOK, Replacing, Targeted, Naming, Existing
<1>4. Valid'
  BY DEF TypeOK, Replacing, Targeted
<1>5. Synced'
  BY DEF TypeOK, Replacing, Targeted, Synced, Existing
<1> QED BY <1>1, <1>2, <1>3, <1>4, <1>5

LEMMA BootInv == Inv /\ Boot => Inv'
<1> SUFFICES ASSUME Inv, Boot PROVE Inv'
  OBVIOUS
<1> USE ProfilesAssumption, DocumentFacts
     DEF Boot, Starting, Inv, Valid, Loading, Offering, Saving
<1>1. TypeOK'
  BY DEF TypeOK, Replacing, Targeted, Tasks, Strays, Existing
<1>2. Replacing' /\ Targeted'
  BY DEF TypeOK, Replacing, Targeted, Existing
<1>3. Naming'
  BY DEF TypeOK, Replacing, Targeted, Naming, Existing
<1>4. Valid'
  BY DEF TypeOK, Replacing, Targeted
<1>5. Synced'
  BY DEF TypeOK, Replacing, Targeted, Synced, Existing
<1> QED BY <1>1, <1>2, <1>3, <1>4, <1>5

LEMMA LoadMissingInv == Inv /\ LoadMissing => Inv'
<1> SUFFICES ASSUME Inv, LoadMissing PROVE Inv'
  OBVIOUS
<1> USE ProfilesAssumption, DocumentFacts
     DEF LoadMissing, Activate, Starting, Inv, Valid, Loading, Offering, Saving
<1>1. TypeOK'
  BY DEF TypeOK, Replacing, Targeted, Tasks, Strays, Existing
<1>2. Replacing' /\ Targeted'
  BY DEF TypeOK, Replacing, Targeted, Existing
<1>3. Naming'
  BY DEF TypeOK, Replacing, Targeted, Naming, Existing
<1>4. Valid'
  BY DEF TypeOK, Replacing, Targeted
<1>5. Synced'
  BY DEF TypeOK, Replacing, Targeted, Synced, Existing
<1> QED BY <1>1, <1>2, <1>3, <1>4, <1>5

LEMMA LoadCurrentInv == Inv /\ LoadCurrent => Inv'
<1> SUFFICES ASSUME Inv, LoadCurrent PROVE Inv'
  OBVIOUS
<1> USE ProfilesAssumption, DocumentFacts
     DEF LoadCurrent, Activate, files, Inv, Valid, Loading, Offering, Saving
<1>1. TypeOK'
  BY DEF TypeOK, Replacing, Targeted, Tasks, Strays, Existing
<1>2. Replacing' /\ Targeted'
  BY DEF TypeOK, Replacing, Targeted, Existing
<1>3. Naming'
  BY DEF TypeOK, Replacing, Targeted, Naming, Existing
<1>4. Valid'
  BY DEF TypeOK, Replacing, Targeted
<1>5. Synced'
  BY DEF TypeOK, Replacing, Targeted, Synced, Existing
<1> QED BY <1>1, <1>2, <1>3, <1>4, <1>5

LEMMA LoadRefusedInv == Inv /\ LoadRefused => Inv'
<1> SUFFICES ASSUME Inv, LoadRefused PROVE Inv'
  OBVIOUS
<1> USE ProfilesAssumption, DocumentFacts
     DEF LoadRefused, Refused, Offered, Starting, files, Inv, Valid, Loading, Offering, Saving
<1>1. TypeOK'
  BY DEF TypeOK, Replacing, Targeted, Tasks, Strays, Existing
<1>2. Replacing' /\ Targeted'
  BY DEF TypeOK, Replacing, Targeted, Existing
<1>3. Naming'
  BY DEF TypeOK, Replacing, Targeted, Naming, Existing
<1>4. Valid'
  BY DEF TypeOK, Replacing, Targeted
<1>5. Synced'
  BY DEF TypeOK, Replacing, Targeted, Synced, Existing
<1> QED BY <1>1, <1>2, <1>3, <1>4, <1>5

LEMMA LoadInvalidInv == Inv /\ LoadInvalid => Inv'
<1> SUFFICES ASSUME Inv, LoadInvalid PROVE Inv'
  OBVIOUS
<1> USE ProfilesAssumption, DocumentFacts
     DEF LoadInvalid, Refused, Offered, Starting, files, Inv, Valid, Loading, Offering, Saving
<1>1. TypeOK'
  BY DEF TypeOK, Replacing, Targeted, Tasks, Strays, Existing
<1>2. Replacing' /\ Targeted'
  BY DEF TypeOK, Replacing, Targeted, Existing
<1>3. Naming'
  BY DEF TypeOK, Replacing, Targeted, Naming, Existing
<1>4. Valid'
  BY DEF TypeOK, Replacing, Targeted
<1>5. Synced'
  BY DEF TypeOK, Replacing, Targeted, Synced, Existing
<1> QED BY <1>1, <1>2, <1>3, <1>4, <1>5

LEMMA ArchiveOldInv == Inv /\ ArchiveOld => Inv'
<1> SUFFICES ASSUME Inv, ArchiveOld PROVE Inv'
  OBVIOUS
<1> USE ProfilesAssumption, DocumentFacts
     DEF ArchiveOld, Kept, config, Inv, Valid, Loading, Offering, Saving
<1>1. TypeOK'
  BY DEF TypeOK, Replacing, Targeted, Tasks, Strays, Existing
<1>2. Replacing' /\ Targeted'
  BY DEF TypeOK, Replacing, Targeted, Existing
<1>3. Naming'
  BY DEF TypeOK, Replacing, Targeted, Naming, Existing
<1>4. Valid'
  BY DEF TypeOK, Replacing, Targeted
<1>5. Synced'
  BY DEF TypeOK, Replacing, Targeted, Synced, Existing
<1> QED BY <1>1, <1>2, <1>3, <1>4, <1>5

LEMMA RewriteMigratedInv == Inv /\ RewriteMigrated => Inv'
<1> SUFFICES ASSUME Inv, RewriteMigrated PROVE Inv'
  OBVIOUS
<1> USE ProfilesAssumption, DocumentFacts
     DEF RewriteMigrated, Activate, Inv, Valid, Loading, Offering, Saving
<1>1. TypeOK'
  BY DEF TypeOK, Replacing, Targeted, Tasks, Strays, Existing
<1>2. Replacing' /\ Targeted'
  BY DEF TypeOK, Replacing, Targeted, Existing
<1>3. Naming'
  BY DEF TypeOK, Replacing, Targeted, Naming, Existing
<1>4. Valid'
  BY DEF TypeOK, Replacing, Targeted
<1>5. Synced'
  BY DEF TypeOK, Replacing, Targeted, Synced, Existing
<1> QED BY <1>1, <1>2, <1>3, <1>4, <1>5

LEMMA RecreateInv == Inv /\ Recreate => Inv'
<1> SUFFICES ASSUME Inv, Recreate PROVE Inv'
  OBVIOUS
<1> USE ProfilesAssumption, DocumentFacts
     DEF Recreate, Kept, Unloaded, Inv, Valid, Loading, Offering, Saving
<1>1. TypeOK'
  BY DEF TypeOK, Replacing, Targeted, Tasks, Strays, Existing
<1>2. Replacing' /\ Targeted'
  BY DEF TypeOK, Replacing, Targeted, Existing
<1>3. Naming'
  BY DEF TypeOK, Replacing, Targeted, Naming, Existing
<1>4. Valid'
  BY DEF TypeOK, Replacing, Targeted
<1>5. Synced'
  BY DEF TypeOK, Replacing, Targeted, Synced, Existing
<1> QED BY <1>1, <1>2, <1>3, <1>4, <1>5

LEMMA WriteDefaultInv == Inv /\ WriteDefault => Inv'
<1> SUFFICES ASSUME Inv, WriteDefault PROVE Inv'
  OBVIOUS
<1> USE ProfilesAssumption, DocumentFacts
     DEF WriteDefault, config, Inv, Valid, Loading, Offering, Saving
<1>1. TypeOK'
  BY DEF TypeOK, Replacing, Targeted, Tasks, Strays, Existing
<1>2. Replacing' /\ Targeted'
  BY DEF TypeOK, Replacing, Targeted, Existing
<1>3. Naming'
  BY DEF TypeOK, Replacing, Targeted, Naming, Existing
<1>4. Valid'
  BY DEF TypeOK, Replacing, Targeted
<1>5. Synced'
  BY DEF TypeOK, Replacing, Targeted, Synced, Existing
<1> QED BY <1>1, <1>2, <1>3, <1>4, <1>5

LEMMA DependenciesInv == Inv /\ Dependencies => Inv'
<1> SUFFICES ASSUME Inv, Dependencies PROVE Inv'
  OBVIOUS
<1> USE ProfilesAssumption, DocumentFacts, EditedFacts
     DEF Dependencies, files, Inv, Valid, Loading, Offering, Saving
<1>1. TypeOK'
  BY DEF TypeOK, Replacing, Targeted, Tasks, Strays, Existing
<1>2. Replacing' /\ Targeted'
  BY DEF TypeOK, Replacing, Targeted, Existing
<1>3. Naming'
  BY DEF TypeOK, Replacing, Targeted, Naming, Existing
<1>4. Valid'
  BY DEF TypeOK, Replacing, Targeted
<1>5. Synced'
  BY DEF TypeOK, Replacing, Targeted, Synced, Existing
<1> QED BY <1>1, <1>2, <1>3, <1>4, <1>5

LEMMA SaveProgramInv == Inv /\ SaveProgram => Inv'
<1> SUFFICES ASSUME Inv, SaveProgram PROVE Inv'
  OBVIOUS
<1> USE ProfilesAssumption, DocumentFacts
     DEF SaveProgram, config, Inv, Valid, Loading, Offering, Saving
<1>1. TypeOK'
  BY DEF TypeOK, Replacing, Targeted, Tasks, Strays, Existing
<1>2. Replacing' /\ Targeted'
  BY DEF TypeOK, Replacing, Targeted, Existing
<1>3. Naming'
  BY DEF TypeOK, Replacing, Targeted, Naming, Existing
<1>4. Valid'
  BY DEF TypeOK, Replacing, Targeted
<1>5. Synced'
  BY DEF TypeOK, Replacing, Targeted, Synced, Existing
<1> QED BY <1>1, <1>2, <1>3, <1>4, <1>5

LEMMA SaveProfileInv == Inv /\ SaveProfile => Inv'
<1> SUFFICES ASSUME Inv, SaveProfile PROVE Inv'
  OBVIOUS
<1> USE ProfilesAssumption, DocumentFacts
     DEF SaveProfile, Unsaved, Inv, Valid, Loading, Offering, Saving
<1>1. TypeOK'
  BY DEF TypeOK, Replacing, Targeted, Tasks, Strays, Existing
<1>2. Replacing' /\ Targeted'
  BY DEF TypeOK, Replacing, Targeted, Existing
<1>3. Naming'
  BY DEF TypeOK, Replacing, Targeted, Naming, Existing
<1>4. Valid'
  BY DEF TypeOK, Replacing, Targeted
<1>5. Synced'
  BY DEF TypeOK, Replacing, Targeted, Synced, Existing
<1> QED BY <1>1, <1>2, <1>3, <1>4, <1>5

LEMMA WriteFailsInv == Inv /\ WriteFails => Inv'
<1> SUFFICES ASSUME Inv, WriteFails PROVE Inv'
  OBVIOUS
<1> USE ProfilesAssumption, DocumentFacts
     DEF WriteFails, Starting, files, config, Inv, Valid, Loading, Offering, Saving
<1>1. TypeOK'
  BY DEF TypeOK, Replacing, Targeted, Tasks, Strays, Existing
<1>2. Replacing' /\ Targeted'
  BY DEF TypeOK, Replacing, Targeted, Existing
<1>3. Naming'
  <2>1. pc' = "running" /\ UNCHANGED <<program, owner, box, file>> /\ Existing' = Existing
    BY DEF Existing
  <2>2. CASE pc \in Saving
    <3>1. stray' = "none" => stray = "none" /\ task \in {"list", "delete", "save"}
      BY <2>2 DEF TypeOK, Tasks
    <3> QED BY <2>1, <2>2, <3>1 DEF Naming
  <2>3. CASE pc \in Loading
    <3>1. stray' = "none" => stray = "none" /\ task = "job"
      BY <2>3 DEF Targeted
    <3> QED BY <2>1, <2>3, <3>1 DEF Naming
  <2> QED BY <2>2, <2>3
<1>4. Valid'
  BY DEF TypeOK, Replacing, Targeted
<1>5. Synced'
  BY DEF TypeOK, Replacing, Targeted, Synced, Existing
<1> QED BY <1>1, <1>2, <1>3, <1>4, <1>5

LEMMA StartFailsInv == Inv /\ StartFails => Inv'
<1> SUFFICES ASSUME Inv, StartFails PROVE Inv'
  OBVIOUS
<1> USE ProfilesAssumption, DocumentFacts
     DEF StartFails, Starting, Offered, files, config, Inv, Valid, Loading, Offering, Saving
<1>1. TypeOK'
  BY DEF TypeOK, Replacing, Targeted, Tasks, Strays, Existing
<1>2. Replacing' /\ Targeted'
  BY DEF TypeOK, Replacing, Targeted, Existing
<1>3. Naming'
  BY DEF TypeOK, Replacing, Targeted, Naming, Existing
<1>4. Valid'
  BY DEF TypeOK, Replacing, Targeted
<1>5. Synced'
  BY DEF TypeOK, Replacing, Targeted, Synced, Existing
<1> QED BY <1>1, <1>2, <1>3, <1>4, <1>5

LEMMA ResetInv == Inv /\ Reset => Inv'
<1> SUFFICES ASSUME Inv, Reset PROVE Inv'
  OBVIOUS
<1> USE ProfilesAssumption, DocumentFacts
     DEF Reset, files, config, Inv, Valid, Loading, Offering, Saving
<1>1. TypeOK'
  BY DEF TypeOK, Replacing, Targeted, Tasks, Strays, Existing
<1>2. Replacing' /\ Targeted'
  BY DEF TypeOK, Replacing, Targeted, Existing
<1>3. Naming'
  BY DEF TypeOK, Replacing, Targeted, Naming, Existing
<1>4. Valid'
  BY DEF TypeOK, Replacing, Targeted
<1>5. Synced'
  BY DEF TypeOK, Replacing, Targeted, Synced, Existing
<1> QED BY <1>1, <1>2, <1>3, <1>4, <1>5

LEMMA CancelInv == Inv /\ Cancel => Inv'
<1> SUFFICES ASSUME Inv, Cancel PROVE Inv'
  OBVIOUS
<1> USE ProfilesAssumption, DocumentFacts
     DEF Cancel, Shown, files, config, Inv, Valid, Loading, Offering, Saving
<1>1. TypeOK'
  BY DEF TypeOK, Replacing, Targeted, Tasks, Strays, Existing
<1>2. Replacing' /\ Targeted'
  BY DEF TypeOK, Replacing, Targeted, Existing
<1>3. Naming'
  BY DEF TypeOK, Replacing, Targeted, Naming, Existing
<1>4. Valid'
  BY DEF TypeOK, Replacing, Targeted
<1>5. Synced'
  BY DEF TypeOK, Replacing, Targeted, Synced, Existing
<1> QED BY <1>1, <1>2, <1>3, <1>4, <1>5

LEMMA ApplyInv == Inv /\ Apply => Inv'
<1> SUFFICES ASSUME Inv, Apply PROVE Inv'
  OBVIOUS
<1> USE ProfilesAssumption, DocumentFacts, EditedFacts
     DEF Apply, files, Inv, Valid, Loading, Offering, Saving
<1>1. TypeOK'
  BY DEF TypeOK, Replacing, Targeted, Tasks, Strays, Existing
<1>2. Replacing' /\ Targeted'
  BY DEF TypeOK, Replacing, Targeted, Existing
<1>3. Naming'
  BY DEF TypeOK, Replacing, Targeted, Naming, Existing
<1>4. Valid'
  BY DEF TypeOK, Replacing, Targeted
<1>5. Synced'
  BY DEF TypeOK, Replacing, Targeted, Synced, Existing
<1> QED BY <1>1, <1>2, <1>3, <1>4, <1>5

LEMMA SaveInv == Inv /\ Save => Inv'
<1> SUFFICES ASSUME Inv, Save PROVE Inv'
  OBVIOUS
<1> USE ProfilesAssumption, DocumentFacts, EditedFacts
     DEF Save, files, Inv, Valid, Loading, Offering, Saving
<1>1. TypeOK'
  BY DEF TypeOK, Replacing, Targeted, Tasks, Strays, Existing
<1>2. Replacing' /\ Targeted'
  BY DEF TypeOK, Replacing, Targeted, Existing
<1>3. Naming'
  BY DEF TypeOK, Replacing, Targeted, Naming, Existing
<1>4. Valid'
  BY DEF TypeOK, Replacing, Targeted
<1>5. Synced'
  BY DEF TypeOK, Replacing, Targeted, Synced, Existing
<1> QED BY <1>1, <1>2, <1>3, <1>4, <1>5

LEMMA StopInv == Inv /\ Stop => Inv'
<1> SUFFICES ASSUME Inv, Stop PROVE Inv'
  OBVIOUS
<1> USE ProfilesAssumption, DocumentFacts
     DEF Stop, Unloaded, Inv, Valid, Loading, Offering, Saving
<1>1. TypeOK'
  BY DEF TypeOK, Replacing, Targeted, Tasks, Strays, Existing
<1>2. Replacing' /\ Targeted'
  BY DEF TypeOK, Replacing, Targeted, Existing
<1>3. Naming'
  BY DEF TypeOK, Replacing, Targeted, Naming, Existing
<1>4. Valid'
  BY DEF TypeOK, Replacing, Targeted
<1>5. Synced'
  BY DEF TypeOK, Replacing, Targeted, Synced, Existing
<1> QED BY <1>1, <1>2, <1>3, <1>4, <1>5

LEMMA SaveAsInv == \A p \in Profiles : Inv /\ SaveAs(p) => Inv'
<1> SUFFICES ASSUME NEW p \in Profiles, Inv, SaveAs(p) PROVE Inv'
  OBVIOUS
<1> USE ProfilesAssumption, DocumentFacts
     DEF SaveAs, files, Inv, Valid, Loading, Offering, Saving
<1>1. TypeOK'
  BY DEF TypeOK, Replacing, Targeted, Tasks, Strays, Existing
<1>2. Replacing' /\ Targeted'
  BY DEF TypeOK, Replacing, Targeted, Existing
<1>3. Naming'
  BY DEF TypeOK, Replacing, Targeted, Naming, Existing
<1>4. Valid'
  BY DEF TypeOK, Replacing, Targeted
<1>5. Synced'
  BY DEF TypeOK, Replacing, Targeted, Synced, Existing
<1> QED BY <1>1, <1>2, <1>3, <1>4, <1>5

LEMMA SelectInv == \A p \in Profiles : Inv /\ Select(p) => Inv'
<1> SUFFICES ASSUME NEW p \in Profiles, Inv, Select(p) PROVE Inv'
  OBVIOUS
<1> USE ProfilesAssumption, DocumentFacts
     DEF Select, files, config, Inv, Valid, Loading, Offering, Saving
<1>1. TypeOK'
  BY DEF TypeOK, Replacing, Targeted, Tasks, Strays, Existing
<1>2. Replacing' /\ Targeted'
  BY DEF TypeOK, Replacing, Targeted, Existing
<1>3. Naming'
  BY DEF TypeOK, Replacing, Targeted, Naming, Existing
<1>4. Valid'
  BY DEF TypeOK, Replacing, Targeted
<1>5. Synced'
  BY DEF TypeOK, Replacing, Targeted, Synced, Existing
<1> QED BY <1>1, <1>2, <1>3, <1>4, <1>5

LEMMA SwitchInv == \A p \in Profiles : Inv /\ Switch(p) => Inv'
<1> SUFFICES ASSUME NEW p \in Profiles, Inv, Switch(p) PROVE Inv'
  OBVIOUS
<1> USE ProfilesAssumption, DocumentFacts
     DEF Switch, files, config, Inv, Valid, Loading, Offering, Saving
<1>1. TypeOK'
  BY DEF TypeOK, Replacing, Targeted, Tasks, Strays, Existing
<1>2. Replacing' /\ Targeted'
  BY DEF TypeOK, Replacing, Targeted, Existing
<1>3. Naming'
  BY DEF TypeOK, Replacing, Targeted, Naming, Existing
<1>4. Valid'
  BY DEF TypeOK, Replacing, Targeted
<1>5. Synced'
  BY DEF TypeOK, Replacing, Targeted, Synced, Existing
<1> QED BY <1>1, <1>2, <1>3, <1>4, <1>5

LEMMA DeleteInv == \A p \in Profiles : Inv /\ Delete(p) => Inv'
<1> SUFFICES ASSUME NEW p \in Profiles, Inv, Delete(p) PROVE Inv'
  OBVIOUS
<1> USE ProfilesAssumption, DocumentFacts
     DEF Delete, Inv, Valid, Loading, Offering, Saving
<1>1. TypeOK'
  BY DEF TypeOK, Replacing, Targeted, Tasks, Strays, Existing
<1>2. Replacing' /\ Targeted'
  BY DEF TypeOK, Replacing, Targeted, Existing
<1>3. Naming'
  BY DEF TypeOK, Replacing, Targeted, Naming, Existing
<1>4. Valid'
  BY DEF TypeOK, Replacing, Targeted
<1>5. Synced'
  BY DEF TypeOK, Replacing, Targeted, Synced, Existing
<1> QED BY <1>1, <1>2, <1>3, <1>4, <1>5

LEMMA StutterInv == Inv /\ UNCHANGED vars => Inv'
BY DEF Inv, TypeOK, Replacing, Targeted, Naming, Valid, Synced, Loading, Offering, Saving,
       Existing, vars

LEMMA NextInv == Inv /\ [Next]_vars => Inv'
BY StartInv, BootInv, LoadMissingInv, LoadCurrentInv, LoadRefusedInv,
     LoadInvalidInv, ArchiveOldInv, RewriteMigratedInv, RecreateInv,
     WriteDefaultInv, DependenciesInv, SaveProgramInv, SaveProfileInv,
     WriteFailsInv, StartFailsInv, ResetInv, CancelInv, ApplyInv, SaveInv,
     StopInv, SaveAsInv, SelectInv, SwitchInv, DeleteInv, StutterInv DEF Next

THEOREM Inductive == Spec => []Inv
BY InitInv, NextInv, PTL DEF Spec

-----------------------------------------------------------------------------
\* Every variable stays in its range and the application runs on settings that
\* were loaded whole, for any profiles and after any failure
\* (ConfigManager.load_profile).
THEOREM TypeCorrect == Spec => []TypeOK
BY Inductive, PTL DEF Inv

\* Unless Reset, a refused choice, a deletion or a failed write of a load or Save
\* As is the cause, the active name is the one the settings came from and the
\* one the settings page shows (ConfigManager.load_profile, _swap_config).
THEOREM NameIsLoaded == Spec => []NameFollowsLoad
<1>1. Inv => NameFollowsLoad
  BY DEF Inv, Naming, NameFollowsLoad
<1> QED BY <1>1, Inductive, PTL

-----------------------------------------------------------------------------
\* A write over a profile's document has it in memory or in the archive.
LEMMA Keeping ==
  ASSUME Inv, [Next]_vars, NEW p \in Profiles
  PROVE  \/ file[p] \in {NoDocument, file'[p]} \/ file[p] \in archive' \/ owner = p
         \/ Delete(p)
         \/ SaveProfile /\ p = program /\ stray # "none"
<1> USE DEF Inv, TypeOK, files, config
<1>1. CASE LoadMissing
  BY <1>1 DEF LoadMissing
<1>2. CASE RewriteMigrated
  BY <1>2 DEF RewriteMigrated, Replacing
<1>3. CASE Recreate
  BY <1>3 DEF Recreate, Kept, Existing
<1>4. CASE WriteDefault
  BY <1>4 DEF WriteDefault, Replacing
<1>5. CASE SaveProfile
  <2>1. target = program /\ (stray = "none" => program = owner)
    BY <1>5 DEF SaveProfile, Targeted, Naming, Saving
  <2>2. p # target => file'[p] = file[p]
    BY <1>5 DEF SaveProfile
  <2> QED BY <1>5, <2>1, <2>2
<1>6. CASE \E q \in Profiles : Delete(q)
  <2>1. PICK q \in Profiles : Delete(q)
    BY <1>6
  <2>2. p # q => file'[p] = file[p]
    BY <2>1 DEF Delete
  <2> QED BY <2>1, <2>2
<1>7. CASE UNCHANGED file
  BY <1>7
<1> QED
  BY <1>1, <1>2, <1>3, <1>4, <1>5, <1>6, <1>7
     DEF Next, Start, Boot, LoadCurrent, LoadRefused, LoadInvalid, Refused, ArchiveOld,
         Dependencies, SaveProgram, WriteFails, StartFails, Reset, Cancel, Apply, Save, Stop,
         SaveAs, Select, Switch, vars

\* No migration, refused profile, failing start, failed write or stop loses a
\* profile's document; but saving under a name that one of the four causes made
\* the active one does (ConfigManager._try_migrate_profile, archive_profile, save).
THEOREM NothingIsLost == Spec => DocumentsKept
<1>1. Inv /\ [Next]_vars =>
        [\A p \in Profiles :
           \/ file[p] \in {NoDocument, file'[p]} \/ file[p] \in archive' \/ owner = p
           \/ Delete(p)
           \/ SaveProfile /\ p = program /\ stray # "none"]_vars
  BY Keeping
<1> QED BY <1>1, Inductive, PTL DEF Spec, DocumentsKept

-----------------------------------------------------------------------------
LEMMA Saves ==
  ASSUME Inv, SaveProfile, ~(torn /\ program = active)
  PROVE  file'[program] = settings /\ programDisk' = program
<1> USE DEF Inv, SaveProfile, Saving
<1>1. target = program /\ programDisk = program /\ target \in Profiles
  BY DEF Targeted, TypeOK
<1>2. CASE Unsaved(target)
  BY <1>1, <1>2 DEF TypeOK
<1>3. CASE ~Unsaved(target)
  <2>1. settings = snapshot /\ target = active /\ file[target] # NoDocument
    BY <1>3 DEF Unsaved
  <2>2. file[active] = snapshot
    BY <1>1, <2>1 DEF Synced, Valid
  <2> QED BY <1>1, <1>3, <2>1, <2>2
<1> QED BY <1>2, <1>3

\* A save that went through is on disk, although a save that sees no change
\* writes nothing, after a failed write too: but for a save under the name of the
\* profile written last before a load whose own write failed (save).
THEOREM SaveIsDurable == Spec => SavedIsOnDisk
<1>1. Inv => [SaveProfile /\ ~(torn /\ program = active) =>
               file'[program] = settings /\ programDisk' = program]_vars
  BY Saves
<1> QED BY <1>1, Inductive, PTL DEF SavedIsOnDisk
=============================================================================
