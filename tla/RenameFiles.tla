------------------------------ MODULE RenameFiles ------------------------------
(***************************************************************************)
(* Renaming a release in place: the files of a pack, its season folders    *)
(* and the opened folder get new names, one rename of the file system at a *)
(* time.  Any rename may fail; the journal of those done is then undone    *)
(* backwards, and undoing may fail too.  The wizard's paths follow.        *)
(*                                                                         *)
(* A path is the sequence of its names.  Files and folders are known by    *)
(* where they were at first; at[n] is where n is now.                      *)
(***************************************************************************)
EXTENDS Naturals, FiniteSets, SequencesExt

CONSTANTS
  Files, Dirs, \* the release
  Home,        \* their paths at first
  Root,        \* the opened folder, one of Dirs
  FileNames,   \* names the templates may produce
  RootNames, SeasonNames,
  CaseFold,    \* [name -> name], equal for names that differ in case only
  Spare,       \* names of temporary files
  Skipping,    \* the name of a file may fail to be generated
  MaxRuns,     \* bound on renames of one release
  MaxTaken     \* bound on files another program moves away meanwhile

Nodes == Files \cup Dirs
Gone == <<>>
Names == FileNames \cup RootNames \cup SeasonNames \cup Spare
         \cup UNION {Range(Home[n]) : n \in Nodes}
Paths == Seq(Names)

\* The release is the opened folder and what is in it: one node a path, and
\* every folder between the opened one and a node is a folder of the release.
\* No template makes a name that is used for temporary files.
ASSUME ReleaseAssumption ==
  /\ Home \in [Nodes -> Paths \ {Gone}]
  /\ Root \in Dirs /\ Files \cap Dirs = {}
  /\ \A m, n \in Nodes : Home[m] = Home[n] => m = n
  /\ \A n \in Nodes :
       /\ IsPrefix(Home[Root], Home[n])
       /\ \A k \in Len(Home[Root])..(Len(Home[n]) - 1) :
            \E d \in Dirs : Home[d] = SubSeq(Home[n], 1, k)
  /\ Spare \cap (FileNames \cup RootNames \cup SeasonNames) = {}
  /\ Skipping \in BOOLEAN /\ MaxRuns \in Nat /\ MaxTaken \in Nat

\* No folder has a name that a file has: the name of a media file ends in its
\* suffix, and the name made for a folder loses its own.
KindsApart ==
  (FileNames \cup {Last(Home[f]) : f \in Files})
    \cap (RootNames \cup SeasonNames \cup {Last(Home[d]) : d \in Dirs}) = {}

NoPlan == [file |-> <<>>, dir |-> <<>>]
NoRename == [src |-> Gone, dst |-> Gone, dir |-> FALSE]

VARIABLES
  at,       \* the disk
  known,    \* the wizard's file_list
  input,    \* the wizard's input_path
  phase,    \* "idle", "vacate", "files", "folders", "verify" or "rollback"
  plan,     \* RenamePlan: final paths of files, new names of folders by their path
  todo,     \* what is left of the phase
  second,   \* second half of a rename in two steps, or NoRename
  tracked,  \* current_paths: where the run believes the planned files are
  journal,  \* completed renames, cut short while they are undone
  complete, \* no rename failed to be undone
  outcome,  \* of the last run: "none", "success", "restored" or "partial"
  start,    \* ghost: the disk before the run
  scattered,\* ghost: some run ended "partial"
  taken,    \* ghost: files moved away by another program
  runs      \* renames so far

disk == <<at, taken>>
wizard == <<known, input, outcome, scattered>>
vars == <<at, known, input, phase, plan, todo, second, tracked, journal, complete,
          outcome, start, scattered, taken, runs>>

-----------------------------------------------------------------------------
(* Paths.                                                                  *)

Parent(p) == Front(p)
Rehome(p, src, dst) ==
  IF IsPrefix(src, p) THEN dst \o SubSeq(p, Len(src) + 1, Len(p)) ELSE p

Exists(p) == \E n \in Nodes : at[n] = p
IsFile(p) == \E f \in Files : at[f] = p
IsDir(p)  == \E d \in Dirs : at[d] = p

CaseOnly(p, q) == p # q /\ CaseFold[Last(p)] = CaseFold[Last(q)]

\* Names nothing has or had.  Bound: a run that used up Spare can only fail.
Unused ==
  Spare \ ({Last(at[n]) : n \in {n \in Nodes : at[n] # Gone}}
             \cup {Last(known[f]) : f \in Files}
             \cup {Last(tracked[f]) : f \in DOMAIN tracked}
             \cup {Last(journal[i].src) : i \in DOMAIN journal}
             \cup {Last(journal[i].dst) : i \in DOMAIN journal})

Temporary(p) == Append(Parent(p), CHOOSE t \in Unused : TRUE)

\* _relocate, final_directory: where a path ends up once each of its folders
\* that has a new name has it.
Located(p, names) ==
  [k \in 1..Len(p) |-> IF SubSeq(p, 1, k) \in DOMAIN names
                         THEN names[SubSeq(p, 1, k)] ELSE p[k]]

-----------------------------------------------------------------------------
(* The plan.                                                               *)

\* _seasons_by_directory: the folders that hold episodes.
SeasonFolders(names) == {Parent(known[f]) : f \in DOMAIN names} \ {input}

\* build_pack_rename_targets: the opened folder gets the pack's name, a folder
\* whose episodes are of one season that season's; "" is no name.
FolderNames(rootName, seasonName) ==
  [d \in {d \in {input} \cup DOMAIN seasonName :
            (IF d = input THEN rootName ELSE seasonName[d]) # ""} |->
     IF d = input THEN rootName ELSE seasonName[d]]

Effective(names) == Restrict(names, {d \in DOMAIN names : Located(d, names) # d})

\* The guards of build_pack_rename_targets failing, filenames change in place.
PlanOf(names, rootName, seasonName) ==
  LET folders == IF IsDir(input) /\ \A f \in DOMAIN names : IsPrefix(input, known[f])
                   THEN FolderNames(rootName, seasonName) ELSE <<>>
      final(f) == Append(Located(Parent(known[f]), folders), names[f])
  IN  [file |-> [f \in {f \in DOMAIN names : final(f) # known[f]} |-> final(f)],
       dir  |-> Effective(folders)]

Planned == DOMAIN plan.file

\* Files are renamed before folders, so in place.
Intermediate(p, f) ==
  LET home == Parent(known[f])
  IN  IF Located(home, p.dir) # home THEN Append(home, Last(p.file[f]))
                                     ELSE p.file[f]

Moving(p) == {f \in DOMAIN p.file : Intermediate(p, f) # known[f]}

Preflight(p) ==
  /\ \A f \in DOMAIN p.file :
       /\ IsFile(known[f])
       /\ \/ Intermediate(p, f) \in {known[g] : g \in Moving(p)}
          \/ Exists(Intermediate(p, f)) => Intermediate(p, f) = known[f]
  /\ \A f, g \in DOMAIN p.file : f # g =>
       p.file[f] # p.file[g] /\ Intermediate(p, f) # Intermediate(p, g)
  /\ \A d \in DOMAIN p.dir :
       /\ IsDir(d) /\ ~Exists(Located(d, p.dir))
       /\ \A e \in DOMAIN p.dir : d # e => Located(d, p.dir) # Located(e, p.dir)

\* _blocking_sources
Blocking(p) ==
  {f \in DOMAIN p.file : known[f] \in {Intermediate(p, g) : g \in Moving(p)}}

-----------------------------------------------------------------------------
Init ==
  /\ at = Home /\ known = [f \in Files |-> Home[f]] /\ input = Home[Root]
  /\ phase = "idle" /\ plan = NoPlan /\ todo = {} /\ second = NoRename
  /\ tracked = <<>> /\ journal = <<>> /\ complete = TRUE
  /\ outcome = "none" /\ start = Home /\ scattered = FALSE
  /\ taken = {} /\ runs = 0

\* The user accepted the preview; a plan preflight refuses changes nothing.
\* A release that lost a file is selected anew before it is renamed again.
Start ==
  /\ phase = "idle" /\ runs < MaxRuns /\ taken = {}
  /\ \E named \in (IF Skipping THEN (SUBSET Files) \ {{}} ELSE {Files}) :
     \E names \in [named -> FileNames],
        rootName \in RootNames \cup {""} :
     \E seasonName \in [SeasonFolders(names) -> SeasonNames \cup {""}] :
       LET p == PlanOf(names, rootName, seasonName) IN
       /\ p # NoPlan /\ Preflight(p)
       /\ plan' = p /\ todo' = Blocking(p)
       /\ tracked' = [f \in DOMAIN p.file |-> known[f]]
  /\ phase' = "vacate" /\ journal' = <<>> /\ complete' = TRUE
  /\ outcome' = "none" /\ start' = at /\ runs' = runs + 1
  /\ UNCHANGED <<at, taken, known, input, second, scattered>>

-----------------------------------------------------------------------------
(* One rename of the file system: the check for the target and the rename  *)
(* as one step, of the release's own files.  Another program's file at the *)
(* target only makes a rename fail, which RenameFails lets happen at any   *)
(* time; that such a file may appear between the check and the rename, and *)
(* then be replaced, is outside this specification.                        *)

\* Mutant: a name in use is taken over; the file that had it is replaced.
FreeUnchecked(src, dst) == Exists(src)

\* _reject_existing_target
Free(src, dst) == Exists(src) /\ (Exists(dst) => src = dst)

Moved(src, dst) ==
  IF src = dst THEN at
  ELSE [n \in Nodes |-> IF at[n] = dst THEN Gone ELSE Rehome(at[n], src, dst)]

Rename(src, dst, dir) ==
  /\ Free(src, dst)
  /\ at' = Moved(src, dst)
  /\ journal' = Append(journal, [src |-> src, dst |-> dst, dir |-> dir])

\* A folder takes what is in it along.
Follow(p, src, dst, dir) ==
  IF dir THEN Rehome(p, src, dst) ELSE IF p = src THEN dst ELSE p

Followed(src, dst, dir) == [f \in Planned |-> Follow(tracked[f], src, dst, dir)]

\* _rename_with_journal: a change of case only goes by way of a temporary name.
RenameJournaled(src, dst, dir) ==
  IF CaseOnly(src, dst)
    THEN /\ Unused # {}
         /\ Rename(src, Temporary(src), dir)
         /\ second' = [src |-> Temporary(src), dst |-> dst, dir |-> dir]
         /\ UNCHANGED tracked
    ELSE /\ Rename(src, dst, dir)
         /\ tracked' = Followed(src, dst, dir)
         /\ UNCHANGED second

Running == <<plan, complete, start, runs, taken>>

SecondHalf ==
  /\ second # NoRename
  /\ Rename(second.src, second.dst, second.dir)
  /\ tracked' = Followed(Last(journal).src, second.dst, second.dir)
  /\ second' = NoRename
  /\ UNCHANGED <<phase, todo>> /\ UNCHANGED Running /\ UNCHANGED wizard

Vacate(f) ==
  /\ phase = "vacate" /\ f \in todo /\ Unused # {}
  /\ Rename(tracked[f], Temporary(tracked[f]), FALSE)
  /\ tracked' = [tracked EXCEPT ![f] = Temporary(tracked[f])]
  /\ todo' = todo \ {f}
  /\ UNCHANGED <<phase, second>> /\ UNCHANGED Running /\ UNCHANGED wizard

RenameFile(f) ==
  /\ phase = "files" /\ second = NoRename /\ f \in todo
  /\ IF tracked[f] = Intermediate(plan, f)
       THEN UNCHANGED <<at, journal, second, tracked>>
       ELSE RenameJournaled(tracked[f], Intermediate(plan, f), FALSE)
  /\ todo' = todo \ {f}
  /\ UNCHANGED phase /\ UNCHANGED Running /\ UNCHANGED wizard

\* Deepest first: an ancestor's rename takes a folder's new name along.
RenameFolder(d) ==
  /\ phase = "folders" /\ second = NoRename
  /\ d \in todo /\ \A e \in todo : Len(e) <= Len(d)
  /\ RenameJournaled(d, Append(Parent(d), plan.dir[d]), TRUE)
  /\ todo' = todo \ {d}
  /\ UNCHANGED phase /\ UNCHANGED Running /\ UNCHANGED wizard

NextPhase ==
  /\ todo = {} /\ second = NoRename
  /\ \/ phase = "vacate" /\ phase' = "files" /\ todo' = Planned
     \/ phase = "files" /\ phase' = "folders" /\ todo' = DOMAIN plan.dir
     \/ phase = "folders" /\ phase' = "verify" /\ todo' = {}
  /\ UNCHANGED <<at, second, tracked, journal>>
  /\ UNCHANGED Running /\ UNCHANGED wizard

\* Mutant: the paths are those of the last rename the run knew to be complete.
ReplayNothing == tracked

\* _replay_journal
Replay ==
  LET paths[i \in 0..Len(journal)] ==
        IF i = 0 THEN [f \in Planned |-> known[f]]
        ELSE [f \in Planned |-> Follow(paths[i - 1][f], journal[i].src,
                                       journal[i].dst, journal[i].dir)]
  IN  paths[Len(journal)]

\* Mutant: the second half of a rename outlives its failure.
RenameFailsHalfway ==
  /\ second # NoRename
  /\ phase' = "rollback" /\ tracked' = Replay /\ todo' = {}
  /\ UNCHANGED <<at, journal, second>> /\ UNCHANGED Running /\ UNCHANGED wizard

\* A rename failed, or a file is not where it should be at the end.
RenameFails ==
  /\ \/ second # NoRename
     \/ phase \in {"vacate", "folders"} /\ todo # {}
     \/ phase = "files" /\ \E f \in todo : tracked[f] # Intermediate(plan, f)
     \/ phase = "verify" /\ \E f \in Planned : ~IsFile(tracked[f])
  /\ phase' = "rollback" /\ tracked' = Replay
  /\ second' = NoRename /\ todo' = {}
  /\ UNCHANGED <<at, journal>> /\ UNCHANGED Running /\ UNCHANGED wizard

UndoSucceeds ==
  /\ phase = "rollback" /\ journal # <<>>
  /\ Free(Last(journal).dst, Last(journal).src)
  /\ at' = Moved(Last(journal).dst, Last(journal).src)
  /\ tracked' = Followed(Last(journal).dst, Last(journal).src, Last(journal).dir)
  /\ journal' = Front(journal)
  /\ UNCHANGED <<phase, todo, second>> /\ UNCHANGED Running /\ UNCHANGED wizard

\* Mutant: a rename that could not be undone goes unnoticed.
UndoFailsUnnoticed ==
  /\ phase = "rollback" /\ journal # <<>>
  /\ journal' = Front(journal)
  /\ UNCHANGED <<at, phase, todo, second, tracked>> /\ UNCHANGED Running
  /\ UNCHANGED wizard

UndoFails ==
  /\ phase = "rollback" /\ journal # <<>>
  /\ complete' = FALSE
  /\ journal' = Front(journal)
  /\ UNCHANGED <<at, phase, plan, todo, second, tracked, start, runs, taken>>
  /\ UNCHANGED wizard

-----------------------------------------------------------------------------
(* The result, and the wizard's paths.                                     *)

\* apply_rename_mapping
ApplyRenameMapping(updated) ==
  /\ known' = [f \in Files |->
       IF f \in Planned /\ tracked[f] # known[f] THEN tracked[f]
       ELSE IF IsDir(updated) THEN Rehome(known[f], input, updated)
       ELSE known[f]]
  /\ input' = updated

\* _remap_input_path_from_current
InputFromFiles ==
  LET moved == {f \in Planned : Parent(known[f]) = input /\ Parent(tracked[f]) # input}
  IN  IF moved = {} THEN input ELSE Parent(tracked[CHOOSE f \in moved : TRUE])

Ended == /\ phase' = "idle" /\ journal' = <<>>
         /\ UNCHANGED <<at, plan, todo, second, tracked, complete, start, runs, taken>>

\* Mutant: the opened folder's new name is not passed on.
InputKept == input

\* _remap_input_path, of an opened folder
UpdatedInput ==
  IF input \in DOMAIN plan.dir THEN Located(input, plan.dir) ELSE input

Succeed ==
  /\ phase = "verify" /\ \A f \in Planned : IsFile(tracked[f])
  /\ ApplyRenameMapping(UpdatedInput)
  /\ outcome' = "success"
  /\ UNCHANGED scattered /\ Ended

Restored == complete /\ \A f \in Planned : IsFile(tracked[f])

Fail ==
  /\ phase = "rollback" /\ journal = <<>>
  /\ ApplyRenameMapping(InputFromFiles)
  /\ outcome' = (IF Restored THEN "restored" ELSE "partial")
  /\ scattered' = (scattered \/ ~Restored) /\ Ended

\* Another program moves a file of the release away while the run is under way.
\* What it may create is none of the release's.
Take(f) ==
  /\ phase # "idle" /\ f \notin taken /\ Cardinality(taken) < MaxTaken
  /\ at' = [at EXCEPT ![f] = Gone] /\ taken' = taken \cup {f}
  /\ UNCHANGED <<phase, plan, todo, second, tracked, journal, complete, start, runs>>
  /\ UNCHANGED wizard

RunStep ==
  \/ SecondHalf \/ NextPhase \/ RenameFails \/ UndoSucceeds \/ UndoFails
  \/ Succeed \/ Fail
  \/ \E f \in Files : Vacate(f) \/ RenameFile(f)
  \/ \E d \in DOMAIN plan.dir : RenameFolder(d)

Next == Start \/ RunStep \/ \E f \in Files : Take(f)

Spec == Init /\ [][Next]_vars

-----------------------------------------------------------------------------
(* Properties.                                                             *)

\* Every variable stays in its range, and nothing of a run is left behind.
TypeOK ==
  /\ phase \in {"idle", "verify", "rollback"} => todo = {} /\ second = NoRename
  /\ at \in [Nodes -> Paths] /\ known \in [Files -> Paths] /\ input \in Paths
  /\ phase \in {"idle", "vacate", "files", "folders", "verify", "rollback"}
  /\ Planned \subseteq Files /\ plan.file \in [Planned -> Paths]
  /\ DOMAIN plan.dir \subseteq Paths /\ plan.dir \in [DOMAIN plan.dir -> Names]
  /\ tracked \in [Planned -> Paths]
  /\ journal \in Seq([src : Paths, dst : Paths, dir : BOOLEAN])
  /\ complete \in BOOLEAN /\ outcome \in {"none", "success", "restored", "partial"}
  /\ taken \subseteq Files /\ runs \in 0..MaxRuns

\* No rename of a run ever replaces a file of the release itself: whatever fails,
\* swaps and changes of case included, and whatever names were asked for, every
\* file and folder of the release is still on the disk (_blocking_sources,
\* _reject_existing_target).
NothingReplaced == \A n \in Nodes \ taken : at[n] # Gone

\* A run that reports success has every planned file and folder under its new
\* name, and one that reports that nothing was kept has left nothing changed,
\* temporary names included.
AllOrNothing ==
  phase = "idle" =>
    /\ outcome = "success" =>
         /\ \A f \in Planned : at[f] = plan.file[f]
         /\ \A d \in DOMAIN plan.dir : IsDir(Located(d, plan.dir))
    /\ outcome = "restored" => \A n \in Nodes \ taken : at[n] = start[n]

\* Where a run ended half-way, the wizard's paths of the files it renamed are
\* still where those files are ("updated its paths to the files it could
\* locate").
PathsAreTrue == phase = "idle" => \A f \in Planned \ taken : known[f] = at[f]

\* The opened folder is followed through success and complete rollback.
InputIsTrue == phase = "idle" /\ ~scattered => input = at[Root]

\* Of a successful rename every path of the wizard follows: "When a parent
\* directory was renamed, paths under that directory are remapped even when
\* their filenames did not change."
PathsFollowFolders ==
  phase = "idle" /\ outcome = "success" => \A f \in Files \ taken : known[f] = at[f]
=============================================================================
