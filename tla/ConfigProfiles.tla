---------------------------- MODULE ConfigProfiles ----------------------------
(***************************************************************************)
(* The configuration profiles.  A profile is a file of settings; one of    *)
(* them is active, and the program's own small file names it.  Loading a   *)
(* profile validates it, brings an older one up to date and archives what  *)
(* it had; only a complete load replaces the settings in memory.  Every    *)
(* write replaces one file as a whole, and the application may stop        *)
(* between any two of them.                                                *)
(***************************************************************************)
EXTENDS Naturals, FiniteSets

CONSTANTS
  Profiles,  \* names a profile may have
  Initially, \* the functions of [Profiles -> documents and NoDocument] at first
  MaxEdits,  \* bound on changes of settings
  MaxStarts  \* bound on starts of the application

\* A document holds the settings of some profile, after so many edits.  An old
\* one migrates or, "unmigratable", does not; a "newer" one has a schema unknown
\* to this build; an "invalid" one has a wrong type or value, or is no TOML.
Schemas == {"current", "old", "unmigratable", "newer", "invalid"}
Documents == [owner : Profiles \cup {"defaults"}, edits : 0..MaxEdits, schema : Schemas]
NoDocument == [owner |-> "nobody", edits |-> 0, schema |-> "current"]
None == "none"

ASSUME ProfilesAssumption ==
  /\ Initially \subseteq [Profiles -> Documents \cup {NoDocument}]
  /\ None \notin Profiles /\ NoDocument.owner \notin Profiles
  /\ MaxEdits \in Nat /\ MaxStarts \in Nat

VARIABLES
  file,        \* the profiles' files
  archive,     \* the documents in old_configs
  programDisk, \* current_config in the program's file
  pc,          \* what the application is doing
  task,        \* on whose behalf it is loading or saving
  target,      \* the profile being loaded or saved
  program,     \* current_config in memory
  settings,    \* the settings in memory, the document _toml_data with them
  owner,       \* ghost: the profile they were loaded from, or are saved to
  snapshot,    \* _config_snapshot
  active,      \* _active_profile_path
  box,         \* the name the settings page's list of profiles shows
  stray,       \* ghost: why the list or current_config may name another profile
  torn,        \* ghost: a profile was loaded, but nothing saved since: it is not
               \* the active one
  starts

files == <<file, archive, programDisk>>
config == <<program, settings, owner, snapshot, active, torn>>
vars == <<file, archive, programDisk, pc, task, target, program, settings, owner,
          snapshot, active, box, stray, torn, starts>>

\* A load is asked for by a start, on the settings page (the list itself, or a
\* deletion), or for a saved job; a save by a start once it has loaded, by Save As,
\* or by anything else.
Tasks == {"none", "start", "started", "list", "delete", "job", "save", "saveAs"}
Strays == {"none", "reset", "refused", "deleted", "unwritten"}

Starting == task \in {"start", "started"}
Existing == {p \in Profiles : file[p] # NoDocument}
Default == [owner |-> "defaults", edits |-> 0, schema |-> "current"]

\* The list is filled anew: it shows current_config, or else its first entry.
Shown ==
  IF program \in Existing THEN {program} ELSE IF Existing = {} THEN {None} ELSE Existing

-----------------------------------------------------------------------------
Init ==
  /\ file \in Initially /\ archive = {} /\ programDisk \in Existing
  /\ pc = "off" /\ task = "none" /\ target = None /\ program = None
  /\ settings = NoDocument /\ owner = None /\ snapshot = NoDocument /\ active = None
  /\ box = None /\ stray = "none" /\ torn = FALSE /\ starts = 0

\* The name comes from the command line, from the splash screen's list, or else
\* from the program's file.
Start ==
  /\ pc = "off" /\ starts < MaxStarts
  /\ target' \in Existing \cup ({programDisk} \ {None})
  /\ pc' = "boot" /\ task' = "start" /\ starts' = starts + 1
  /\ UNCHANGED <<files, config, box, stray>>

\* load_program: the name is written to the program's file before the profile
\* is looked at.
Boot ==
  /\ pc = "boot"
  /\ program' = target /\ programDisk' = target /\ pc' = "load"
  /\ UNCHANGED <<file, archive, task, target, settings, owner, snapshot, active, box, stray,
                 torn, starts>>

-----------------------------------------------------------------------------
(* load_profile.                                                           *)

\* The settings are those of the document, the active name is its profile.
Activate(p, doc) ==
  /\ settings' = doc /\ owner' = p /\ program' = p /\ snapshot' = doc /\ stray' = "none"

\* A missing profile is written from the defaults; nothing is saved after it.
LoadMissing ==
  /\ pc = "load" /\ file[target] = NoDocument
  /\ file' = [file EXCEPT ![target] = Default]
  /\ Activate(target, Default) /\ active' = target /\ torn' = FALSE
  /\ IF Starting THEN pc' = "dependencies" /\ UNCHANGED <<task, box>>
                 ELSE pc' = "running" /\ task' = "none" /\ box' = target
  /\ UNCHANGED <<archive, programDisk, target, starts>>

\* Mutant: the snapshot is followed by the settings, valid or not.
LoadCurrentEarly ==
  /\ pc = "load" /\ file[target] # NoDocument /\ file[target].schema # "old"
  /\ Activate(target, file[target]) /\ torn' = (active # target)
  /\ pc' = "saveProgram"
  /\ UNCHANGED <<files, task, target, active, box, starts>>

LoadCurrent ==
  /\ pc = "load" /\ file[target] # NoDocument /\ file[target].schema = "current"
  /\ Activate(target, file[target]) /\ torn' = (active # target)
  /\ pc' = "saveProgram"
  /\ UNCHANGED <<files, task, target, active, box, starts>>

\* A document of another schema is compared with the snapshot to come; one that
\* does not migrate, or does not parse, is not.
Refused(schemas) ==
  /\ pc = "load" /\ file[target].schema \in schemas
  /\ snapshot' \in (CASE file[target].schema = "newer" -> {file[target]}
                     [] file[target].schema = "unmigratable" -> {snapshot}
                     [] OTHER -> {snapshot, file[target]})
  /\ UNCHANGED <<files, target, settings, owner, active, torn, starts>>

\* A start offers to replace the profile.
Offered == pc' = "dialog" /\ UNCHANGED <<task, box, stray>>

\* Mutant: the name is taken over before the document is known to be valid.
LoadRefusedNamed ==
  /\ Refused({"unmigratable", "newer"})
  /\ program' = target
  /\ IF Starting THEN Offered
       ELSE pc' = "running" /\ task' = "none" /\ UNCHANGED <<box, stray>>

\* ConfigSchemaError: what was loaded before stays, and the list goes back to
\* the previous name if it has one.
LoadRefused ==
  /\ Refused({"unmigratable", "newer"})
  /\ UNCHANGED program
  /\ \/ Starting /\ Offered
     \/ /\ ~Starting /\ pc' = "running" /\ task' = "none"
        /\ box' = (IF task # "job" /\ program \in Existing THEN program ELSE box)
        /\ stray' = (IF stray = "none" /\ box' # program THEN "refused" ELSE stray)

\* ConfigError, which nobody catches: the list keeps the name chosen in it.
LoadInvalid ==
  /\ Refused({"invalid"})
  /\ UNCHANGED program
  /\ \/ Starting /\ Offered
     \/ /\ ~Starting /\ pc' = "running" /\ task' = "none" /\ UNCHANGED box
        /\ stray' = (IF stray = "none" /\ box # program THEN "refused" ELSE stray)

\* Mutant: nothing is archived.
Archived(doc) == archive

\* archive_profile
Kept(doc) == archive \cup {doc}

\* The migrated document is known to be valid; the old one is archived.
ArchiveOld ==
  /\ pc = "load" /\ file[target].schema = "old"
  /\ archive' = Kept(file[target])
  /\ pc' = "rewrite"
  /\ UNCHANGED <<file, programDisk, task, target, config, box, stray, starts>>

Migrated(doc) == [doc EXCEPT !.schema = "current"]

\* The migrated document replaces it, and is loaded.
RewriteMigrated ==
  /\ pc = "rewrite"
  /\ file' = [file EXCEPT ![target] = Migrated(file[target])]
  /\ Activate(target, Migrated(file[target])) /\ torn' = (active # target)
  /\ pc' = "saveProgram"
  /\ UNCHANGED <<archive, programDisk, task, target, active, box, starts>>

-----------------------------------------------------------------------------
(* The splash screen's offer to archive a profile and make it anew.        *)

\* The ConfigManager that did not come up is given up.
Unloaded ==
  /\ program' = None /\ settings' = NoDocument /\ owner' = None
  /\ snapshot' = NoDocument /\ active' = None /\ torn' = FALSE

Recreate ==
  /\ pc = "dialog"
  /\ archive' = (IF target \in Existing THEN Kept(file[target]) ELSE archive)
  /\ file' = [file EXCEPT ![target] = NoDocument]
  /\ pc' = "recreate" /\ Unloaded
  /\ UNCHANGED <<programDisk, task, target, box, stray, starts>>

WriteDefault ==
  /\ pc = "recreate"
  /\ file' = [file EXCEPT ![target] = Default]
  /\ pc' = "boot" /\ task' = "start"
  /\ UNCHANGED <<archive, programDisk, target, config, box, stray, starts>>

-----------------------------------------------------------------------------
(* save.                                                                   *)

Edited == [settings EXCEPT !.edits = IF @ < MaxEdits THEN @ + 1 ELSE @]

\* The paths of the programs found are settings too; the start saves once more.
Dependencies ==
  /\ pc = "dependencies"
  /\ settings' \in {settings, Edited}
  /\ pc' = "saveProgram" /\ task' = "started"
  /\ UNCHANGED <<files, target, program, owner, snapshot, active, torn, box, stray, starts>>

\* Without a name, save raises after save_program.
SaveProgram ==
  /\ pc = "saveProgram"
  /\ programDisk' = program
  /\ IF target = None THEN pc' = "running" /\ task' = "none"
                      ELSE pc' = "saveProfile" /\ UNCHANGED task
  /\ UNCHANGED <<file, archive, target, config, box, stray, starts>>

\* Mutant: only a change of the text makes a write necessary.
UnsavedText(p) == settings # snapshot

Unsaved(p) == settings # snapshot \/ p # active \/ file[p] = NoDocument

\* After a load or Save As the list is filled again.
SaveProfile ==
  /\ pc = "saveProfile"
  /\ IF Unsaved(target)
       THEN file' = [file EXCEPT ![target] = settings]
            /\ snapshot' = settings /\ active' = target /\ torn' = FALSE
       ELSE UNCHANGED <<file, snapshot, active, torn>>
  /\ pc' = (CASE task = "start" -> "dependencies" [] task = "saveAs" -> "apply"
              [] OTHER -> "running")
  /\ task' = (CASE task = "start" -> "start" [] task = "saveAs" -> "save" [] OTHER -> "none")
  /\ box' = (IF task = "save" THEN box ELSE target)
  /\ UNCHANGED <<archive, programDisk, program, settings, owner, target, stray, starts>>

\* A write fails: an exception, with whatever was changed in memory before it.
\* The list is not filled again.
WriteFails ==
  /\ \/ pc \in {"rewrite", "saveProgram", "saveProfile"}
     \/ pc = "load" /\ (file[target] = NoDocument \/ file[target].schema = "old")
  /\ ~Starting /\ pc' = "running" /\ task' = "none"
  /\ stray' = (IF \/ (task = "list" /\ pc \in {"load", "rewrite"})
                  \/ (task \in {"job", "saveAs"} /\ pc \in {"saveProgram", "saveProfile"})
                 THEN "unwritten" ELSE stray)
  /\ UNCHANGED <<files, target, config, box, starts>>

\* At a start too, ConfigError leads to the offer, whatever it is about.  (The
\* OSError of another write of load_profile ends the application: Stop.)
StartFails ==
  /\ \/ pc \in {"boot", "saveProgram", "saveProfile"}
     \/ pc = "load" /\ file[target].schema = "old"
  /\ Starting /\ Offered
  /\ UNCHANGED <<files, target, config, starts>>

-----------------------------------------------------------------------------
(* The user.                                                               *)

\* Reset: the list goes back to its first name, which is not loaded.
Reset ==
  /\ pc = "running"
  /\ box' \in Existing
  /\ stray' = (IF stray = "none" /\ box' # program THEN "reset" ELSE stray)
  /\ UNCHANGED <<files, pc, task, target, config, starts>>

\* Cancel, and every other time the settings page is filled again.
Cancel ==
  /\ pc = "running"
  /\ box' \in Shown
  /\ stray' = (IF program = owner /\ program \in Existing THEN "none" ELSE stray)
  /\ UNCHANGED <<files, pc, task, target, config, starts>>

\* The settings window is applied, alone or as the end of Save As: the name in
\* the list is current_config.
Apply ==
  /\ pc \in {"running", "apply"} /\ box # None
  /\ program' = box /\ target' = box /\ pc' = "saveProgram" /\ task' = "save"
  /\ settings' \in {settings, Edited}
  /\ UNCHANGED <<files, owner, snapshot, active, torn, box, stray, starts>>

\* save, from elsewhere.
Save ==
  /\ pc = "running"
  /\ settings' \in {settings, Edited}
  /\ target' = program /\ pc' = "saveProgram" /\ task' = "save"
  /\ UNCHANGED <<files, program, owner, snapshot, active, torn, box, stray, starts>>

\* The dialog's file is one of the profiles' directory.  What the window shows
\* is applied after it.
SaveAs(p) ==
  /\ pc = "running"
  /\ program' = p /\ owner' = p /\ target' = p /\ stray' = "none"
  /\ pc' = "saveProgram" /\ task' = "saveAs"
  /\ UNCHANGED <<files, settings, snapshot, active, torn, box, starts>>

\* In the list.
Select(p) ==
  /\ pc = "running" /\ p \in Existing
  /\ box' = p /\ target' = p /\ pc' = "load" /\ task' = "list"
  /\ UNCHANGED <<files, config, stray, starts>>

\* For a saved job, whose profile need not exist any more.
Switch(p) ==
  /\ pc = "running"
  /\ target' = p /\ pc' = "load" /\ task' = "job"
  /\ UNCHANGED <<files, config, box, stray, starts>>

\* The name the list shows.  The name before it in the directory, if any,
\* becomes the active one at once; the list then shows that or the first one
\* left, and it is loaded.
Delete(p) ==
  /\ pc = "running" /\ p \in Existing /\ Cardinality(Existing) > 1
  /\ p = box
  /\ file' = [file EXCEPT ![p] = NoDocument]
  /\ \E before \in (Existing \ {p}) \cup {None} :
       /\ program' = before
       /\ target' \in (IF before = None THEN Existing \ {p} ELSE {before})
       /\ box' = target'
  /\ pc' = "load" /\ task' = "delete" /\ stray' = "deleted"
  /\ UNCHANGED <<archive, programDisk, settings, owner, snapshot, active, torn, starts>>

\* The main window is closed, saving the program's file once more, or the
\* application stops: the user declines an offer, or a crash.
Stop ==
  /\ pc # "off"
  /\ programDisk' \in {programDisk} \cup (IF pc = "running" THEN {program} ELSE {})
  /\ pc' = "off" /\ task' = "none" /\ target' = None /\ box' = None /\ stray' = "none"
  /\ Unloaded
  /\ UNCHANGED <<file, archive, starts>>

Next ==
  \/ Start \/ Boot \/ LoadMissing \/ LoadCurrent \/ LoadRefused \/ LoadInvalid
  \/ ArchiveOld \/ RewriteMigrated \/ Recreate \/ WriteDefault \/ Dependencies
  \/ SaveProgram \/ SaveProfile \/ WriteFails \/ StartFails
  \/ Reset \/ Cancel \/ Apply \/ Save \/ Stop
  \/ \E p \in Profiles : SaveAs(p) \/ Select(p) \/ Switch(p) \/ Delete(p)

Spec == Init /\ [][Next]_vars

-----------------------------------------------------------------------------
(* Properties.                                                             *)

\* Every variable stays in its range, and whatever the application runs on was
\* loaded.
TypeOK ==
  /\ file \in [Profiles -> Documents \cup {NoDocument}] /\ archive \subseteq Documents
  /\ {programDisk, program, owner, active, target, box} \subseteq Profiles \cup {None}
  /\ settings \in Documents \cup {NoDocument}
  /\ snapshot \in Documents \cup {NoDocument}
  /\ task \in Tasks /\ stray \in Strays /\ torn \in BOOLEAN
  /\ pc \in {"running", "saveProfile"} => settings # NoDocument /\ settings.schema = "current"

\* Whenever the application waits for the user, its settings are those of the
\* profile it saves them to, and the settings page's list shows that name; but
\* for four causes, each until a load or Save As: Reset moved the list, a
\* profile chosen in the list was refused and the list kept its name, a profile
\* was deleted and the one before it did not load, or a write of a load or Save
\* As failed.
NameFollowsLoad ==
  pc = "running" /\ stray = "none" => program = owner /\ box = program

\* A write over a profile's document has the old document archived, or the
\* settings that came from it in memory; but for a profile the user deletes, and
\* for one whose name became current_config for one of those four causes: that
\* is then saved over as it is.  No migration cut short, refused profile, start
\* that fails or crash does.
DocumentsKept ==
  [][\A p \in Profiles :
       \/ file[p] \in {NoDocument, file'[p]} \/ file[p] \in archive' \/ owner = p
       \/ Delete(p)
       \/ SaveProfile /\ p = program /\ stray # "none"]_vars

\* A save that went through has the settings on disk, under the name the next
\* start will use, although a save that sees no change writes nothing; but for
\* one case: the write of a load failed, and the save is under the name of the
\* profile written last before it.
SavedIsOnDisk ==
  [][SaveProfile /\ ~(torn /\ program = active) =>
       file'[program] = settings /\ programDisk' = program]_vars

\* A profile that did not load when it was chosen in the list does not become the
\* program's current_config (the comment in ConfigManager.load_profile).
RefusedIsNotActive == stray = "refused" => programDisk = owner
=============================================================================
