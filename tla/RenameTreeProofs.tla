--------------------------- MODULE RenameTreeProofs ---------------------------
(***************************************************************************)
(* Theorems about RenameFiles for any release, any names and whatever      *)
(* fails: every variable stays in its range, and no rename replaces a file.*)
(*                                                                         *)
(* The inductive invariant is about single renames: what is on the disk is *)
(* a tree, and whatever the journal, a half-done rename or the plan may    *)
(* rename next stays in its folder.  It says nothing of where a run has    *)
(* got to; for that see RenameFilesProofs.                                 *)
(***************************************************************************)
EXTENDS RenamePathProofs

\* A rename in the journal.
Op == [src : Paths, dst : Paths, dir : BOOLEAN]

\* On the disk is a tree of all that was not taken.
DiskOK ==
  /\ at \in [Nodes -> Paths] /\ taken \subseteq Files
  /\ Tree(at, Present)
  /\ \A n \in taken : at[n] = Gone

\* Every rename done stays in its folder ...
JournalOK ==
  /\ journal \in Seq(Op)
  /\ \A i \in 1..Len(journal) : Siblings(journal[i].src, journal[i].dst)

\* ... and so does what is left of one in two steps, ...
HalfOK ==
  second # NoRename =>
    /\ second \in Op /\ journal # <<>>
    /\ second.src = Last(journal).dst /\ second.dir = Last(journal).dir
    /\ Siblings(second.src, second.dst)
    /\ phase \in {"files", "folders"} /\ (second.dir <=> phase = "folders")

\* ... what the plan gives a file first, ...
PlanInPlace ==
  phase # "idle" =>
    /\ \A f \in Planned :
         Intermediate(plan, f) \in Paths /\ Siblings(Intermediate(plan, f), known[f])
    /\ \A d \in DOMAIN plan.dir : d # Gone

\* ... and where the run believes the files to be until folders are renamed.
TrackedInPlace ==
  phase \in {"vacate", "files"} => \A f \in Planned : Siblings(tracked[f], known[f])

TodoOK ==
  /\ phase \in {"vacate", "files"} => todo \subseteq Planned
  /\ phase = "folders" => todo \subseteq DOMAIN plan.dir

TreeInv ==
  TypeOK /\ DiskOK /\ JournalOK /\ HalfOK /\ PlanInPlace /\ TrackedInPlace /\ TodoOK

-----------------------------------------------------------------------------
(* One rename.                                                             *)

LEMMA NamesIn ==
  /\ FileNames \subseteq Names /\ RootNames \subseteq Names
  /\ SeasonNames \subseteq Names /\ Spare \subseteq Names
BY DEF Names

LEMMA TemporaryIs ==
  ASSUME NEW p \in Paths, p # Gone, Unused # {}
  PROVE  /\ Temporary(p) \in Paths /\ Siblings(p, Temporary(p))
         /\ Last(Temporary(p)) \in Unused /\ Unused \subseteq Spare
<1> DEFINE t == CHOOSE t \in Unused : TRUE
<1>1. t \in Unused
  OBVIOUS
<1>2. Unused \subseteq Spare
  BY DEF Unused
<1>3. t \in Names /\ Front(p) \in Paths /\ Temporary(p) = Append(Front(p), t)
  BY <1>1, <1>2, NamesIn, FrontIs DEF Temporary, Parent
<1> HIDE DEF t
<1> QED BY <1>1, <1>2, <1>3, AppendIs DEF Siblings, Parent

LEMMA FollowIs ==
  ASSUME NEW p \in Paths, NEW src \in Paths, NEW dst \in Paths, Siblings(src, dst), NEW dir
  PROVE  /\ Follow(p, src, dst, dir) \in Paths
         /\ ~dir /\ p # Gone => Siblings(Follow(p, src, dst, dir), p)
BY RehomeIs DEF Follow, Siblings

LEMMA JournalGrows ==
  ASSUME JournalOK, NEW src \in Paths, NEW dst \in Paths, Siblings(src, dst),
         NEW dir \in BOOLEAN,
         journal' = Append(journal, [src |-> src, dst |-> dst, dir |-> dir])
  PROVE  /\ JournalOK' /\ Len(journal') = Len(journal) + 1 /\ journal' # <<>>
         /\ \A i \in 1..Len(journal) : journal'[i] = journal[i]
         /\ Last(journal') = [src |-> src, dst |-> dst, dir |-> dir]
         /\ journal'[Len(journal) + 1] = [src |-> src, dst |-> dst, dir |-> dir]
<1> DEFINE op == [src |-> src, dst |-> dst, dir |-> dir]
<1>1. op \in Op /\ op.src = src /\ op.dst = dst
  BY DEF Op
<1> HIDE DEF op
<1>2. /\ journal' = Append(journal, op) /\ journal \in Seq(Op) /\ Len(journal) \in Nat
  BY LenProperties DEF op, JournalOK
<1>3. /\ journal' \in Seq(Op) /\ journal' # <<>> /\ Len(journal') = Len(journal) + 1
      /\ \A i \in 1..Len(journal) : journal'[i] = journal[i]
      /\ journal'[Len(journal) + 1] = op
  BY <1>1, <1>2, AppendProperties
<1>4. Last(journal') = op
  BY <1>3 DEF Last
<1>5. ASSUME NEW i \in 1..Len(journal') PROVE Siblings(journal'[i].src, journal'[i].dst)
  <2>1. i \in 1..Len(journal) \/ i = Len(journal) + 1
    BY <1>2, <1>3
  <2>2. CASE i \in 1..Len(journal)
    <3>1. Siblings(journal[i].src, journal[i].dst)
      BY <2>2 DEF JournalOK
    <3> QED BY <1>3, <2>2, <3>1, Zenon
  <2>3. CASE i = Len(journal) + 1
    BY <1>1, <1>3, <2>3, Zenon
  <2> QED BY <2>1, <2>2, <2>3
<1> QED BY <1>3, <1>4, <1>5 DEF op, JournalOK

LEMMA RenameStep ==
  ASSUME DiskOK, JournalOK, NEW src \in Paths, NEW dst \in Paths, Siblings(src, dst),
         NEW dir \in BOOLEAN, Rename(src, dst, dir), taken' = taken
  PROVE  DiskOK' /\ JournalOK'
<1>1. Free(src, dst) /\ at' = Moved(src, dst)
  BY DEF Rename
<1>2. /\ at' \in [Nodes -> Paths] /\ Tree(at', Present)
      /\ \A n \in taken : at'[n] = Gone
  BY <1>1, MovedIs DEF DiskOK
<1>3. Present' = Present
  BY DEF Present
<1> QED BY <1>2, <1>3, JournalGrows DEF DiskOK, Rename, Tree

-----------------------------------------------------------------------------
(* The plan.                                                               *)

LEMMA FolderNamesAre ==
  ASSUME NEW rootName \in RootNames \cup {""}, NEW S,
         NEW seasonName \in [S -> SeasonNames \cup {""}]
  PROVE  /\ DOMAIN FolderNames(rootName, seasonName) \subseteq S \cup {input}
         /\ \A d \in DOMAIN FolderNames(rootName, seasonName) :
              FolderNames(rootName, seasonName)[d] \in RootNames \cup SeasonNames
<1> DEFINE fn == FolderNames(rootName, seasonName)
<1>1. \A d \in DOMAIN fn :
        /\ d \in S \cup {input}
        /\ (IF d = input THEN rootName ELSE seasonName[d]) # ""
        /\ fn[d] = IF d = input THEN rootName ELSE seasonName[d]
  BY DEF FolderNames
<1> HIDE DEF fn
<1>2. ASSUME NEW d \in DOMAIN fn PROVE fn[d] \in RootNames \cup SeasonNames
  BY <1>1
<1> QED BY <1>1, <1>2 DEF fn

LEMMA NoFolders ==
  DOMAIN <<>> = {}
OBVIOUS

\* What is needed of a plan: it puts the named files where their folders and
\* their names say, and leaves out what stays where it is.
PlanFits(p, named, names) ==
  /\ DOMAIN names = named /\ DOMAIN p.file \subseteq named
  /\ \A f \in named :
       Append(Located(Parent(known[f]), p.dir), names[f]) =
         IF f \in DOMAIN p.file THEN p.file[f] ELSE known[f]
  /\ \A f \in DOMAIN p.file : p.file[f] # known[f]
  /\ p.file \in [DOMAIN p.file -> Paths]
  /\ DOMAIN p.dir \subseteq SeasonFolders(names) \cup {input}
  /\ DOMAIN p.dir # {} => \A f \in named : IsPrefix(input, known[f])
  /\ p.dir \in [DOMAIN p.dir -> RootNames \cup SeasonNames]
  /\ \A d \in DOMAIN p.dir : Located(d, p.dir) # d
  /\ DOMAIN p.dir \subseteq Paths

LEMMA PlanIs ==
  ASSUME known \in [Files -> Paths], input \in Paths,
         NEW named \in SUBSET Files, NEW names \in [named -> FileNames],
         NEW rootName \in RootNames \cup {""},
         NEW seasonName \in [SeasonFolders(names) -> SeasonNames \cup {""}],
         NEW p, p = PlanOf(names, rootName, seasonName)
  PROVE  PlanFits(p, named, names)
<1> DEFINE inside == IsDir(input) /\ \A f \in DOMAIN names : IsPrefix(input, known[f])
           folders == IF inside THEN FolderNames(rootName, seasonName) ELSE <<>>
           final(f) == Append(Located(Parent(known[f]), folders), names[f])
<1>1. /\ DOMAIN names = named
      /\ \A f \in named : /\ names[f] \in Names /\ known[f] \in Paths
                          /\ Parent(known[f]) \in Paths
  BY NamesIn, FrontIs DEF Parent
<1>2. SeasonFolders(names) \subseteq Paths
  BY <1>1 DEF SeasonFolders
<1>3. /\ DOMAIN folders \subseteq SeasonFolders(names) \cup {input}
      /\ \A d \in DOMAIN folders : folders[d] \in RootNames \cup SeasonNames
      /\ DOMAIN folders # {} => inside
  <2> HIDE DEF inside
  <2> QED BY FolderNamesAre, NoFolders
<1> DEFINE changed == {f \in DOMAIN names : final(f) # known[f]}
           files == [f \in changed |-> final(f)]
           dirs == Effective(folders)
<1>4. p.file = files /\ p.dir = dirs
  <2>1. p = [file |-> files, dir |-> dirs]
    BY Zenon DEF PlanOf
  <2>2. \A a, b : [file |-> a, dir |-> b].file = a /\ [file |-> a, dir |-> b].dir = b
    OBVIOUS
  <2>3. [file |-> files, dir |-> dirs].file = files /\ [file |-> files, dir |-> dirs].dir = dirs
    BY <2>2, Zenon
  <2> QED BY <2>1, <2>3, Zenon
<1> HIDE DEF folders, files, dirs
<1>5. DOMAIN folders \subseteq Paths /\ \A d \in DOMAIN folders : folders[d] \in Names
  BY <1>2, <1>3, NamesIn
<1>6. /\ DOMAIN p.dir \subseteq DOMAIN folders
      /\ \A d \in DOMAIN p.dir : p.dir[d] = folders[d] /\ Located(d, folders) # d
      /\ \A q \in Paths : Located(q, p.dir) = Located(q, folders)
  <2>1. p.dir = Effective(folders)
    BY <1>4 DEF dirs
  <2>2. \A q \in Paths :
          /\ Located(q, Effective(folders)) = Located(q, folders)
          /\ DOMAIN Effective(folders) \subseteq DOMAIN folders
          /\ \A d \in DOMAIN Effective(folders) :
               Effective(folders)[d] = folders[d] /\ Located(d, folders) # d
    BY <1>5, EffectiveSame
  <2> QED BY <2>1, <2>2
<1>7. \A f \in named : final(f) \in Paths
  BY <1>1, <1>5, LocatedIs, AppendIs
<1>8. \A f \in named :
        final(f) = Append(Located(Parent(known[f]), p.dir), names[f])
  BY <1>1, <1>6
<1> HIDE DEF final
<1>9. /\ DOMAIN p.file = {f \in named : final(f) # known[f]}
      /\ \A f \in DOMAIN p.file : p.file[f] = final(f)
      /\ p.file \in [DOMAIN p.file -> Paths]
  BY <1>1, <1>4, <1>7 DEF files
<1>10. p.dir \in [DOMAIN p.dir -> RootNames \cup SeasonNames]
  <2>1. p.dir = [d \in {d \in DOMAIN folders : Located(d, folders) # d} |-> folders[d]]
    BY <1>4 DEF dirs, Effective, Restrict
  <2> QED BY <1>3, <2>1
<1>11. \A d \in DOMAIN p.dir : Located(d, p.dir) # d
  BY <1>5, <1>6
<1> QED BY <1>1, <1>3, <1>5, <1>6, <1>8, <1>9, <1>10, <1>11 DEF PlanFits

-----------------------------------------------------------------------------
(* The first state, and the start of a run.                                *)

LEMMA TreeInit ==
  Init => TreeInv
<1> SUFFICES ASSUME Init PROVE TreeInv
  OBVIOUS
<1> USE DEF Init
<1>1. Planned = {} /\ DOMAIN plan.dir = {} /\ DOMAIN plan.file = {}
  BY NoFolders DEF Planned, NoPlan
<1>2. tracked \in [Planned -> Paths] /\ plan.file \in [Planned -> Paths]
      /\ plan.dir \in [DOMAIN plan.dir -> Names]
  BY <1>1 DEF Planned, NoPlan
<1>3. journal \in Seq(Op) /\ Len(journal) = 0
  BY EmptySeq
<1>4. Present = Nodes /\ Root \in Nodes /\ Files \subseteq Nodes
  BY ReleaseAssumption DEF Present, Nodes
<1>5. at \in [Nodes -> Paths] /\ known \in [Files -> Paths] /\ input \in Paths
  BY <1>4, ReleaseAssumption
<1>6. Tree(at, Present)
  BY <1>4, ReleaseAssumption DEF Tree
<1>7. TypeOK
  BY <1>1, <1>2, <1>3, <1>5, ReleaseAssumption DEF TypeOK, Op
<1>8. DiskOK /\ JournalOK
  BY <1>3, <1>5, <1>6 DEF DiskOK, JournalOK
<1> QED BY <1>7, <1>8 DEF TreeInv, HalfOK, PlanInPlace, TrackedInPlace, TodoOK

LEMMA IntermediateIs ==
  ASSUME NEW p, NEW f, known[f] \in Paths, known[f] # Gone,
         NEW n \in Names,
         p.file[f] = Append(Located(Parent(known[f]), p.dir), n),
         \A d \in DOMAIN p.dir : p.dir[d] \in Names
  PROVE  /\ Intermediate(p, f) = Append(Parent(known[f]), n)
         /\ Intermediate(p, f) \in Paths
         /\ Siblings(Intermediate(p, f), known[f])
         /\ Last(p.file[f]) = n /\ Front(p.file[f]) = Located(Parent(known[f]), p.dir)
<1> DEFINE home == Parent(known[f])
<1>1. home \in Paths /\ Located(home, p.dir) \in Paths
  BY FrontIs, LocatedIs DEF Parent
<1>2. Last(p.file[f]) = n /\ Front(p.file[f]) = Located(home, p.dir)
  BY <1>1, AppendIs
<1>3. Intermediate(p, f) = Append(home, n)
  BY <1>2 DEF Intermediate
<1> HIDE DEF home
<1>4. /\ Append(home, n) \in Paths /\ Append(home, n) # Gone
      /\ Front(Append(home, n)) = home
  BY <1>1, AppendIs
<1> QED BY <1>2, <1>3, <1>4 DEF Siblings, Parent, home

LEMMA StartIs ==
  ASSUME known \in [Files -> Paths], input \in Paths, Start
  PROVE  \E named \in SUBSET Files : \E names \in [named -> FileNames] :
           /\ ~Skipping => named = Files
           /\ PlanFits(plan', named, names) /\ Preflight(plan')
           /\ todo' = Blocking(plan')
           /\ tracked' = [f \in DOMAIN plan'.file |-> known[f]]
<1>1. PICK named \in (IF Skipping THEN (SUBSET Files) \ {{}} ELSE {Files}) :
        \E names \in [named -> FileNames], rootName \in RootNames \cup {""} :
        \E seasonName \in [SeasonFolders(names) -> SeasonNames \cup {""}] :
          LET p == PlanOf(names, rootName, seasonName) IN
          /\ p # NoPlan /\ Preflight(p)
          /\ plan' = p /\ todo' = Blocking(p)
          /\ tracked' = [f \in DOMAIN p.file |-> known[f]]
  BY Zenon DEF Start
<1>2. PICK names \in [named -> FileNames], rootName \in RootNames \cup {""} :
        \E seasonName \in [SeasonFolders(names) -> SeasonNames \cup {""}] :
          LET p == PlanOf(names, rootName, seasonName) IN
          /\ p # NoPlan /\ Preflight(p)
          /\ plan' = p /\ todo' = Blocking(p)
          /\ tracked' = [f \in DOMAIN p.file |-> known[f]]
  BY <1>1, Zenon
<1>3. PICK seasonName \in [SeasonFolders(names) -> SeasonNames \cup {""}] :
          LET p == PlanOf(names, rootName, seasonName) IN
          /\ p # NoPlan /\ Preflight(p)
          /\ plan' = p /\ todo' = Blocking(p)
          /\ tracked' = [f \in DOMAIN p.file |-> known[f]]
  BY <1>2, Zenon
<1>4. /\ plan' = PlanOf(names, rootName, seasonName)
      /\ Preflight(plan') /\ todo' = Blocking(plan')
      /\ tracked' = [f \in DOMAIN plan'.file |-> known[f]]
  BY <1>3, Zenon
<1>5. named \in SUBSET Files /\ (~Skipping => named = Files)
  OBVIOUS
<1>6. PlanFits(PlanOf(names, rootName, seasonName), named, names)
  BY <1>5, PlanIs, Zenon
<1>7. PlanFits(plan', named, names)
  BY <1>4, <1>6, Zenon
<1> QED BY <1>4, <1>5, <1>7, Zenon

LEMMA TreeStart ==
  ASSUME TreeInv, Start
  PROVE  TreeInv'
<1>1. /\ phase = "idle" /\ taken = {} /\ phase' = "vacate" /\ journal' = <<>>
      /\ complete' = TRUE /\ outcome' = "none" /\ runs' = runs + 1 /\ runs < MaxRuns
      /\ at' = at /\ taken' = taken /\ known' = known /\ input' = input /\ second' = second
  BY DEF Start
<1>2. TypeOK /\ DiskOK
  BY DEF TreeInv
<1>3. known \in [Files -> Paths] /\ input \in Paths
  BY <1>2 DEF TypeOK
<1>4. PICK named \in SUBSET Files : \E names \in [named -> FileNames] :
        /\ PlanFits(plan', named, names) /\ Preflight(plan')
        /\ todo' = Blocking(plan')
        /\ tracked' = [f \in DOMAIN plan'.file |-> known[f]]
  BY <1>3, StartIs, Zenon
<1>5. PICK names \in [named -> FileNames] :
        /\ PlanFits(plan', named, names) /\ Preflight(plan')
        /\ todo' = Blocking(plan')
        /\ tracked' = [f \in DOMAIN plan'.file |-> known[f]]
  BY <1>4, Zenon
<1>16. /\ DOMAIN plan'.file \subseteq named
       /\ \A f \in named :
            Append(Located(Parent(known[f]), plan'.dir), names[f]) =
              IF f \in DOMAIN plan'.file THEN plan'.file[f] ELSE known[f]
       /\ plan'.file \in [DOMAIN plan'.file -> Paths]
       /\ plan'.dir \in [DOMAIN plan'.dir -> RootNames \cup SeasonNames]
       /\ DOMAIN plan'.dir \subseteq Paths
  BY <1>5, Zenon DEF PlanFits
<1>6. /\ \A f \in DOMAIN plan'.file : f \in Files /\ names[f] \in Names
      /\ plan'.dir \in [DOMAIN plan'.dir -> Names]
  BY <1>16, NamesIn
<1>7. ASSUME NEW f \in DOMAIN plan'.file
      PROVE  /\ known[f] \in Paths /\ Siblings(Intermediate(plan', f), known[f])
             /\ Intermediate(plan', f) \in Paths
             /\ Siblings(known[f], known[f])
  <2>1. f \in Files /\ names[f] \in Names /\ known[f] \in Paths
    BY <1>3, <1>6
  <2>2. known[f] # Gone
    <3>1. PICK g \in Files : at[g] = known[f]
      BY <1>5 DEF Preflight, IsFile
    <3>2. g \in Present
      BY <1>1 DEF Present, Nodes
    <3> QED BY <1>2, <3>1, <3>2 DEF DiskOK, Tree
  <2>3. \A d \in DOMAIN plan'.dir : plan'.dir[d] \in Names
    BY <1>6
  <2>4. plan'.file[f] = Append(Located(Parent(known[f]), plan'.dir), names[f])
    BY <1>16
  <2>5. Siblings(Intermediate(plan', f), known[f]) /\ Intermediate(plan', f) \in Paths
    BY <2>1, <2>2, <2>3, <2>4, IntermediateIs
  <2> QED BY <2>1, <2>2, <2>5 DEF Siblings
<1>8. ASSUME NEW d \in DOMAIN plan'.dir PROVE d # Gone
  <2>1. PICK e \in Dirs : at[e] = d
    BY <1>5 DEF Preflight, IsDir
  <2>2. e \in Present
    BY <1>1 DEF Present, Nodes
  <2> QED BY <1>2, <2>1, <2>2 DEF DiskOK, Tree
<1>9. /\ journal' \in Seq(Op) /\ Len(journal') = 0 /\ second' = NoRename
      /\ Planned' = DOMAIN plan'.file
  BY <1>1, <1>2, EmptySeq DEF TypeOK, Planned
<1>10. TypeOK'
  <2>1. at' \in [Nodes -> Paths] /\ known' \in [Files -> Paths] /\ input' \in Paths
    BY <1>1, <1>2 DEF TypeOK
  <2>2. /\ Planned' \subseteq Files /\ plan'.file \in [Planned' -> Paths]
        /\ tracked' \in [Planned' -> Paths]
    BY <1>3, <1>5, <1>6, <1>9, <1>16
  <2>3. runs' \in 0..MaxRuns /\ taken' \subseteq Files
    <3>1. runs \in 0..MaxRuns /\ MaxRuns \in Nat
      BY <1>2, ReleaseAssumption DEF TypeOK
    <3> QED BY <1>1, <3>1
  <2> QED BY <1>1, <1>6, <1>9, <1>16, <2>1, <2>2, <2>3 DEF TypeOK, Op
<1>11. DiskOK'
  <2>1. Present' = Present
    BY <1>1 DEF Present
  <2> QED BY <1>1, <1>2, <2>1 DEF DiskOK, Tree
<1>12. JournalOK' /\ HalfOK'
  BY <1>9 DEF JournalOK, HalfOK
<1>13. PlanInPlace'
  <2>1. \A f \in DOMAIN plan'.file : Intermediate(plan, f)' = Intermediate(plan', f)
    BY <1>1 DEF Intermediate
  <2> QED BY <1>1, <1>7, <1>8, <1>9, <2>1 DEF PlanInPlace
<1>14. TrackedInPlace'
  BY <1>1, <1>5, <1>7, <1>9 DEF TrackedInPlace
<1>15. TodoOK'
  BY <1>1, <1>5, <1>9 DEF TodoOK, Blocking
<1> QED BY <1>10, <1>11, <1>12, <1>13, <1>14, <1>15 DEF TreeInv

-----------------------------------------------------------------------------
(* The other steps.                                                        *)

LEMMA FollowedIs ==
  ASSUME tracked \in [Planned -> Paths], NEW src \in Paths, NEW dst \in Paths,
         Siblings(src, dst), NEW dir
  PROVE  /\ Followed(src, dst, dir) \in [Planned -> Paths]
         /\ \A f \in Planned :
              /\ Followed(src, dst, dir)[f] = Follow(tracked[f], src, dst, dir)
              /\ ~dir => \A q : Siblings(tracked[f], q) => Siblings(Followed(src, dst, dir)[f], q)
<1>1. ASSUME NEW f \in Planned
      PROVE  /\ Follow(tracked[f], src, dst, dir) \in Paths
             /\ ~dir => \A q : Siblings(tracked[f], q) =>
                                 Siblings(Follow(tracked[f], src, dst, dir), q)
  <2>1. tracked[f] \in Paths
    OBVIOUS
  <2> QED BY <2>1, FollowIs DEF Siblings
<1> QED BY <1>1 DEF Followed

LEMMA JournaledStep ==
  ASSUME TreeInv, NEW src \in Paths, NEW dst \in Paths, Siblings(src, dst),
         NEW dir \in BOOLEAN, second = NoRename, phase \in {"files", "folders"},
         dir <=> phase = "folders", RenameJournaled(src, dst, dir),
         plan' = plan, taken' = taken, phase' = phase
  PROVE  /\ DiskOK' /\ JournalOK' /\ HalfOK'
         /\ tracked' \in [Planned -> Paths]
         /\ ~dir => \A f \in Planned : \A q : Siblings(tracked[f], q) => Siblings(tracked'[f], q)
<1>1. TypeOK /\ DiskOK /\ JournalOK /\ tracked \in [Planned -> Paths]
  BY DEF TreeInv, TypeOK
<1>2. CASE CaseOnly(src, dst)
  <2> DEFINE mid == Temporary(src)
  <2>1. /\ Unused # {} /\ Rename(src, mid, dir)
        /\ second' = [src |-> mid, dst |-> dst, dir |-> dir] /\ tracked' = tracked
    BY <1>2 DEF RenameJournaled
  <2>2. mid \in Paths /\ Siblings(src, mid)
    BY <2>1, TemporaryIs DEF Siblings
  <2> HIDE DEF mid
  <2>3. Siblings(mid, dst)
    BY <2>2 DEF Siblings
  <2>4. DiskOK' /\ JournalOK'
    BY <1>1, <2>1, <2>2, RenameStep
  <2>5. /\ journal' # <<>>
        /\ Last(journal') = [src |-> src, dst |-> mid, dir |-> dir]
    BY <1>1, <2>1, <2>2, JournalGrows DEF Rename
  <2>6. HalfOK'
    BY <2>1, <2>2, <2>3, <2>5 DEF HalfOK, Op
  <2> QED BY <1>1, <2>1, <2>4, <2>6
<1>3. CASE ~CaseOnly(src, dst)
  <2>1. /\ Rename(src, dst, dir) /\ tracked' = Followed(src, dst, dir) /\ second' = second
    BY <1>3 DEF RenameJournaled
  <2>2. DiskOK' /\ JournalOK'
    BY <1>1, <2>1, RenameStep
  <2>3. HalfOK'
    BY <2>1 DEF HalfOK
  <2> QED BY <1>1, <2>1, <2>2, <2>3, FollowedIs
<1> QED BY <1>2, <1>3

\* What a step that leaves the plan and the wizard's paths alone leaves in place.
Unplanned ==
  /\ plan' = plan /\ complete' = complete /\ runs' = runs /\ known' = known
  /\ input' = input /\ outcome' = outcome

LEMMA TreeSecondHalf ==
  ASSUME TreeInv, SecondHalf
  PROVE  TreeInv'
<1>1. /\ second # NoRename /\ Rename(second.src, second.dst, second.dir)
      /\ tracked' = Followed(Last(journal).src, second.dst, second.dir)
      /\ second' = NoRename /\ phase' = phase /\ todo' = todo /\ taken' = taken
      /\ Unplanned
  BY DEF SecondHalf, Running, wizard, Unplanned
<1>2. /\ TypeOK /\ DiskOK /\ JournalOK /\ tracked \in [Planned -> Paths]
      /\ second \in Op /\ Siblings(second.src, second.dst)
      /\ journal # <<>> /\ second.src = Last(journal).dst
      /\ phase \in {"files", "folders"} /\ (second.dir <=> phase = "folders")
      /\ PlanInPlace /\ TrackedInPlace /\ TodoOK
  BY <1>1 DEF TreeInv, TypeOK, HalfOK
<1>3. second.src \in Paths /\ second.dst \in Paths /\ second.dir \in BOOLEAN
  BY <1>2 DEF Op
<1>4. DiskOK' /\ JournalOK'
  BY <1>1, <1>2, <1>3, RenameStep
<1>5. Last(journal).src \in Paths /\ Siblings(Last(journal).src, second.dst)
  <2>1. Len(journal) \in 1..Len(journal)
    BY <1>2, EmptySeq DEF JournalOK
  <2>2. Last(journal) \in Op /\ Siblings(Last(journal).src, Last(journal).dst)
    BY <1>2, <2>1, ElementOfSeq DEF JournalOK, Last
  <2> QED BY <1>2, <2>2 DEF Siblings, Op
<1>6. /\ tracked' \in [Planned -> Paths]
      /\ ~second.dir => \A f \in Planned : \A q : Siblings(tracked[f], q) => Siblings(tracked'[f], q)
  BY <1>1, <1>2, <1>3, <1>5, FollowedIs
<1>7. Planned' = Planned
  BY <1>1 DEF Planned, Unplanned
<1>8. TypeOK'
  BY <1>1, <1>2, <1>4, <1>6, <1>7 DEF TypeOK, DiskOK, JournalOK, Op, Unplanned
<1>9. HalfOK' /\ TodoOK'
  BY <1>1, <1>2, <1>7 DEF HalfOK, TodoOK, Unplanned
<1>10. PlanInPlace'
  BY <1>1, <1>2, <1>7 DEF PlanInPlace, Unplanned, Intermediate
<1>11. TrackedInPlace'
  BY <1>1, <1>2, <1>6, <1>7 DEF TrackedInPlace, Unplanned
<1> QED BY <1>4, <1>8, <1>9, <1>10, <1>11 DEF TreeInv

LEMMA TreeVacate ==
  ASSUME TreeInv, NEW f \in Files, Vacate(f)
  PROVE  TreeInv'
<1> DEFINE mid == Temporary(tracked[f])
<1>1. /\ phase = "vacate" /\ f \in todo /\ Unused # {}
      /\ Rename(tracked[f], mid, FALSE) /\ tracked' = [tracked EXCEPT ![f] = mid]
      /\ todo' = todo \ {f} /\ phase' = phase /\ second' = second /\ taken' = taken
      /\ Unplanned
  BY DEF Vacate, Running, wizard, Unplanned
<1>2. /\ TypeOK /\ DiskOK /\ JournalOK /\ tracked \in [Planned -> Paths]
      /\ HalfOK /\ PlanInPlace /\ TrackedInPlace /\ TodoOK
  BY DEF TreeInv, TypeOK
<1>3. f \in Planned /\ tracked[f] \in Paths /\ Siblings(tracked[f], known[f])
  BY <1>1, <1>2 DEF TodoOK, TrackedInPlace
<1>4. mid \in Paths /\ Siblings(tracked[f], mid)
  BY <1>1, <1>3, TemporaryIs DEF Siblings
<1> HIDE DEF mid
<1>5. DiskOK' /\ JournalOK'
  BY <1>1, <1>2, <1>3, <1>4, RenameStep
<1>6. Planned' = Planned /\ second = NoRename
  BY <1>1, <1>2 DEF Planned, Unplanned, HalfOK
<1>7. TypeOK'
  BY <1>1, <1>2, <1>4, <1>5, <1>6 DEF TypeOK, DiskOK, JournalOK, Op, Unplanned
<1>8. HalfOK' /\ TodoOK'
  BY <1>1, <1>2, <1>6 DEF HalfOK, TodoOK, Unplanned
<1>9. PlanInPlace'
  BY <1>1, <1>2, <1>6 DEF PlanInPlace, Unplanned, Intermediate
<1>10. TrackedInPlace'
  <2>1. Siblings(mid, known[f])
    BY <1>3, <1>4 DEF Siblings
  <2> QED BY <1>1, <1>2, <1>3, <1>6, <2>1 DEF TrackedInPlace, Unplanned
<1> QED BY <1>5, <1>7, <1>8, <1>9, <1>10 DEF TreeInv

LEMMA TreeRenameFile ==
  ASSUME TreeInv, NEW f \in Files, RenameFile(f)
  PROVE  TreeInv'
<1>1. /\ phase = "files" /\ f \in todo /\ second = NoRename
      /\ todo' = todo \ {f} /\ phase' = phase /\ taken' = taken
      /\ Unplanned
  BY DEF RenameFile, Running, wizard, Unplanned
<1>2. /\ TypeOK /\ DiskOK /\ JournalOK /\ tracked \in [Planned -> Paths]
      /\ HalfOK /\ PlanInPlace /\ TrackedInPlace /\ TodoOK
  BY DEF TreeInv, TypeOK
<1>3. /\ f \in Planned /\ tracked[f] \in Paths /\ Siblings(tracked[f], known[f])
      /\ Siblings(Intermediate(plan, f), known[f])
  BY <1>1, <1>2 DEF TodoOK, TrackedInPlace, PlanInPlace
<1>4. Intermediate(plan, f) \in Paths
  BY <1>1, <1>2, <1>3 DEF PlanInPlace
<1>5. /\ DiskOK' /\ JournalOK' /\ HalfOK' /\ tracked' \in [Planned -> Paths]
      /\ \A g \in Planned : \A q : Siblings(tracked[g], q) => Siblings(tracked'[g], q)
  <2>1. CASE tracked[f] = Intermediate(plan, f)
    <3>1. at' = at /\ journal' = journal /\ second' = second /\ tracked' = tracked
      BY <2>1 DEF RenameFile
    <3> QED BY <1>1, <1>2, <3>1 DEF DiskOK, JournalOK, HalfOK, Present, Tree
  <2>2. CASE tracked[f] # Intermediate(plan, f)
    <3>1. RenameJournaled(tracked[f], Intermediate(plan, f), FALSE)
      BY <2>2 DEF RenameFile
    <3>2. Siblings(tracked[f], Intermediate(plan, f))
      BY <1>3 DEF Siblings
    <3> QED BY <1>1, <1>3, <1>4, <3>1, <3>2, JournaledStep DEF Unplanned
  <2> QED BY <2>1, <2>2
<1>6. Planned' = Planned
  BY <1>1 DEF Planned, Unplanned
<1>7. TypeOK'
  BY <1>1, <1>2, <1>5, <1>6 DEF TypeOK, DiskOK, JournalOK, Op, Unplanned
<1>8. TodoOK'
  BY <1>1, <1>2, <1>6 DEF TodoOK
<1>9. PlanInPlace'
  BY <1>1, <1>2, <1>6 DEF PlanInPlace, Unplanned, Intermediate
<1>10. TrackedInPlace'
  BY <1>1, <1>2, <1>5, <1>6 DEF TrackedInPlace, Unplanned
<1> QED BY <1>5, <1>7, <1>8, <1>9, <1>10 DEF TreeInv

LEMMA TreeRenameFolder ==
  ASSUME TreeInv, NEW d \in DOMAIN plan.dir, RenameFolder(d)
  PROVE  TreeInv'
<1> DEFINE dst == Append(Parent(d), plan.dir[d])
<1>1. /\ phase = "folders" /\ d \in todo /\ second = NoRename
      /\ RenameJournaled(d, dst, TRUE)
      /\ todo' = todo \ {d} /\ phase' = phase /\ taken' = taken
      /\ Unplanned
  BY DEF RenameFolder, Running, wizard, Unplanned
<1>2. /\ TypeOK /\ DiskOK /\ JournalOK /\ tracked \in [Planned -> Paths]
      /\ HalfOK /\ PlanInPlace /\ TodoOK
  BY DEF TreeInv, TypeOK
<1>3. /\ d \in Paths /\ d # Gone /\ plan.dir[d] \in Names
  BY <1>1, <1>2 DEF TypeOK, PlanInPlace
<1>4. dst \in Paths /\ Siblings(d, dst)
  <2>1. Parent(d) \in Paths
    BY <1>3, FrontIs DEF Parent
  <2> QED BY <1>3, <2>1, AppendIs DEF Siblings, Parent
<1> HIDE DEF dst
<1>5. /\ DiskOK' /\ JournalOK' /\ HalfOK' /\ tracked' \in [Planned -> Paths]
  BY <1>1, <1>3, <1>4, JournaledStep DEF Unplanned
<1>6. Planned' = Planned
  BY <1>1 DEF Planned, Unplanned
<1>7. TypeOK'
  BY <1>1, <1>2, <1>5, <1>6 DEF TypeOK, DiskOK, JournalOK, Op, Unplanned
<1>8. TodoOK' /\ TrackedInPlace'
  BY <1>1, <1>2, <1>6 DEF TodoOK, TrackedInPlace, Unplanned
<1>9. PlanInPlace'
  BY <1>1, <1>2, <1>6 DEF PlanInPlace, Unplanned, Intermediate
<1> QED BY <1>5, <1>7, <1>8, <1>9 DEF TreeInv

LEMMA TreeNextPhase ==
  ASSUME TreeInv, NextPhase
  PROVE  TreeInv'
<1>1. /\ todo = {} /\ second = NoRename /\ at' = at /\ second' = second
      /\ tracked' = tracked /\ journal' = journal /\ taken' = taken /\ Unplanned
      /\ \/ phase = "vacate" /\ phase' = "files" /\ todo' = Planned
         \/ phase = "files" /\ phase' = "folders" /\ todo' = DOMAIN plan.dir
         \/ phase = "folders" /\ phase' = "verify" /\ todo' = {}
  BY DEF NextPhase, Running, wizard, Unplanned
<1>2. /\ TypeOK /\ DiskOK /\ JournalOK /\ PlanInPlace /\ TrackedInPlace
  BY DEF TreeInv
<1>3. Planned' = Planned
  BY <1>1 DEF Planned, Unplanned
<1>4. DiskOK' /\ JournalOK' /\ HalfOK'
  BY <1>1, <1>2 DEF DiskOK, JournalOK, HalfOK, Present, Tree
<1>5. TypeOK'
  BY <1>1, <1>2, <1>3 DEF TypeOK, Unplanned
<1>6. PlanInPlace'
  BY <1>1, <1>2, <1>3 DEF PlanInPlace, Unplanned, Intermediate
<1>7. TrackedInPlace' /\ TodoOK'
  BY <1>1, <1>2, <1>3 DEF TrackedInPlace, TodoOK, Unplanned
<1> QED BY <1>4, <1>5, <1>6, <1>7 DEF TreeInv

LEMMA TreeRenameFails ==
  ASSUME TreeInv, RenameFails
  PROVE  TreeInv'
<1>1. /\ phase' = "rollback" /\ tracked' = Replay /\ second' = NoRename /\ todo' = {}
      /\ at' = at /\ journal' = journal /\ taken' = taken /\ Unplanned
  BY DEF RenameFails, Running, wizard, Unplanned
<1>2. /\ TypeOK /\ DiskOK /\ JournalOK /\ PlanInPlace
  BY DEF TreeInv
<1>3. phase # "idle"
  BY <1>2 DEF RenameFails, TypeOK
<1>4. Planned' = Planned /\ Replay \in [Planned -> Paths]
  BY <1>1, <1>2, ReplayType DEF Planned, Unplanned, TypeOK
<1>5. DiskOK' /\ JournalOK' /\ HalfOK'
  BY <1>1, <1>2 DEF DiskOK, JournalOK, HalfOK, Present, Tree
<1>6. TypeOK'
  BY <1>1, <1>2, <1>4 DEF TypeOK, Unplanned
<1>7. PlanInPlace'
  BY <1>1, <1>2, <1>3, <1>4 DEF PlanInPlace, Unplanned, Intermediate
<1>8. TrackedInPlace' /\ TodoOK'
  BY <1>1 DEF TrackedInPlace, TodoOK
<1> QED BY <1>5, <1>6, <1>7, <1>8 DEF TreeInv

LEMMA JournalShrinks ==
  ASSUME JournalOK, journal # <<>>, journal' = Front(journal)
  PROVE  /\ JournalOK' /\ Len(journal) \in 1..Len(journal) /\ Len(journal') = Len(journal) - 1
         /\ \A i \in 1..(Len(journal) - 1) : journal'[i] = journal[i]
         /\ Last(journal) = journal[Len(journal)] /\ Last(journal) \in Op
         /\ Siblings(Last(journal).src, Last(journal).dst)
<1>1. journal \in Seq(Op) /\ Len(journal) \in Nat /\ Len(journal) > 0
  BY EmptySeq, LenProperties DEF JournalOK
<1>2. Len(journal) \in 1..Len(journal) /\ Last(journal) \in Op
      /\ Last(journal) = journal[Len(journal)]
  BY <1>1, ElementOfSeq DEF Last
<1> DEFINE n == Len(journal) - 1
<1>3. n \in Nat /\ n \in Int /\ 1 \in Int /\ \A i \in 1..n : journal[i] \in Op
  BY <1>1, ElementOfSeq
<1>4. journal' = SubSeq(journal, 1, n)
  BY DEF Front
<1> HIDE DEF n
<1>5. /\ journal' \in Seq(Op) /\ Len(journal') = IF 1 <= n THEN n - 1 + 1 ELSE 0
      /\ \A i \in 1..(n - 1 + 1) : journal'[i] = journal[1 + i - 1]
  BY <1>3, <1>4, SubSeqProperties
<1>6. Len(journal') = n
  BY <1>3, <1>5
<1>7. ASSUME NEW i \in 1..n PROVE journal'[i] = journal[i]
  <2>1. i \in 1..(n - 1 + 1) /\ 1 + i - 1 = i
    BY <1>3
  <2> QED BY <1>5, <2>1
<1>8. ASSUME NEW i \in 1..n PROVE Siblings(journal'[i].src, journal'[i].dst)
  <2>1. i \in 1..Len(journal)
    BY <1>1 DEF n
  <2>2. Siblings(journal[i].src, journal[i].dst)
    BY <2>1 DEF JournalOK
  <2> QED BY <1>7, <2>2
<1>9. JournalOK'
  BY <1>5, <1>6, <1>8 DEF JournalOK
<1> QED BY <1>2, <1>6, <1>7, <1>9 DEF n, JournalOK

LEMMA TreeUndoSucceeds ==
  ASSUME TreeInv, UndoSucceeds
  PROVE  TreeInv'
<1> DEFINE op == Last(journal)
<1>1. /\ phase = "rollback" /\ journal # <<>> /\ Free(op.dst, op.src)
      /\ at' = Moved(op.dst, op.src) /\ tracked' = Followed(op.dst, op.src, op.dir)
      /\ journal' = Front(journal)
      /\ phase' = phase /\ todo' = todo /\ second' = second /\ taken' = taken /\ Unplanned
  BY DEF UndoSucceeds, Running, wizard, Unplanned
<1>2. /\ TypeOK /\ DiskOK /\ JournalOK /\ PlanInPlace /\ tracked \in [Planned -> Paths]
      /\ second = NoRename
  BY <1>1 DEF TreeInv, TypeOK
<1>3. JournalOK' /\ op \in Op /\ Siblings(op.src, op.dst)
  BY <1>1, <1>2, JournalShrinks
<1> HIDE DEF op
<1>4. op.src \in Paths /\ op.dst \in Paths /\ Siblings(op.dst, op.src)
  BY <1>3 DEF Op, Siblings
<1>5. /\ at' \in [Nodes -> Paths] /\ Tree(at', Present) /\ \A n \in taken : at'[n] = Gone
  BY <1>1, <1>2, <1>4, MovedIs DEF DiskOK
<1>6. Present' = Present /\ Planned' = Planned
  BY <1>1 DEF Present, Planned, Unplanned
<1>7. DiskOK'
  BY <1>1, <1>2, <1>5, <1>6 DEF DiskOK, Tree
<1>8. tracked' \in [Planned -> Paths]
  BY <1>1, <1>2, <1>4, FollowedIs
<1>9. TypeOK'
  BY <1>1, <1>2, <1>3, <1>5, <1>6, <1>8 DEF TypeOK, JournalOK, Op, Unplanned
<1>10. PlanInPlace'
  BY <1>1, <1>2, <1>6 DEF PlanInPlace, Unplanned, Intermediate
<1>11. TrackedInPlace' /\ TodoOK' /\ HalfOK'
  BY <1>1, <1>2 DEF TrackedInPlace, TodoOK, HalfOK
<1> QED BY <1>3, <1>7, <1>9, <1>10, <1>11 DEF TreeInv

LEMMA TreeUndoFails ==
  ASSUME TreeInv, UndoFails
  PROVE  TreeInv'
<1>1. /\ phase = "rollback" /\ journal # <<>> /\ journal' = Front(journal)
      /\ at' = at /\ tracked' = tracked /\ phase' = phase /\ todo' = todo
      /\ second' = second /\ taken' = taken /\ plan' = plan /\ complete' = FALSE
      /\ runs' = runs /\ known' = known /\ input' = input /\ outcome' = outcome
  BY DEF UndoFails, wizard
<1>2. /\ TypeOK /\ DiskOK /\ JournalOK /\ PlanInPlace /\ second = NoRename
  BY <1>1 DEF TreeInv, TypeOK
<1>3. JournalOK'
  BY <1>1, <1>2, JournalShrinks
<1>4. Present' = Present /\ Planned' = Planned
  BY <1>1 DEF Present, Planned
<1>5. DiskOK'
  BY <1>1, <1>2, <1>4 DEF DiskOK, Tree
<1>6. TypeOK'
  BY <1>1, <1>2, <1>3, <1>4 DEF TypeOK, JournalOK, Op
<1>7. PlanInPlace'
  BY <1>1, <1>2, <1>4 DEF PlanInPlace, Intermediate
<1>8. TrackedInPlace' /\ TodoOK' /\ HalfOK'
  BY <1>1, <1>2 DEF TrackedInPlace, TodoOK, HalfOK
<1> QED BY <1>3, <1>5, <1>6, <1>7, <1>8 DEF TreeInv

LEMMA RehomeType ==
  ASSUME NEW p \in Paths, NEW src \in Paths, NEW dst \in Paths
  PROVE  Rehome(p, src, dst) \in Paths
<1>1. Len(p) \in Nat /\ Len(src) \in Nat /\ \A k \in 1..Len(p) : p[k] \in Names
  BY PathFacts
<1>2. /\ Len(src) + 1 \in Int /\ Len(p) \in Int
      /\ \A k \in (Len(src) + 1)..Len(p) : p[k] \in Names
  BY <1>1
<1>3. SubSeq(p, Len(src) + 1, Len(p)) \in Paths
  BY <1>2, SubSeqProperties DEF Paths
<1>4. dst \o SubSeq(p, Len(src) + 1, Len(p)) \in Paths
  BY <1>3, ConcatProperties DEF Paths
<1> QED BY <1>4, Zenon DEF Rehome

LEMMA TreeResult ==
  ASSUME TreeInv, NEW updated \in Paths, ApplyRenameMapping(updated), Ended,
         outcome' \in {"success", "restored", "partial"}, todo = {}, second = NoRename
  PROVE  TreeInv'
<1>1. /\ phase' = "idle" /\ journal' = <<>> /\ at' = at /\ plan' = plan /\ todo' = todo
      /\ second' = second /\ tracked' = tracked /\ complete' = complete /\ runs' = runs
      /\ taken' = taken
  BY DEF Ended
<1>2. TypeOK /\ DiskOK /\ known \in [Files -> Paths] /\ tracked \in [Planned -> Paths]
      /\ input \in Paths
  BY DEF TreeInv, TypeOK
<1>3. known' \in [Files -> Paths] /\ input' \in Paths
  <2>1. ASSUME NEW f \in Files
        PROVE  (IF f \in Planned /\ tracked[f] # known[f] THEN tracked[f]
                ELSE IF IsDir(updated) THEN Rehome(known[f], input, updated)
                ELSE known[f]) \in Paths
    BY <1>2, RehomeType
  <2> QED BY <2>1 DEF ApplyRenameMapping
<1>4. Present' = Present /\ Planned' = Planned
  BY <1>1 DEF Present, Planned
<1>5. DiskOK'
  BY <1>1, <1>2, <1>4 DEF DiskOK, Tree
<1>6. journal' \in Seq(Op) /\ Len(journal') = 0
  BY <1>1, EmptySeq
<1>7. TypeOK'
  BY <1>1, <1>2, <1>3, <1>4, <1>6 DEF TypeOK, Op
<1>8. JournalOK' /\ HalfOK' /\ PlanInPlace' /\ TrackedInPlace' /\ TodoOK'
  BY <1>1, <1>6 DEF JournalOK, HalfOK, PlanInPlace, TrackedInPlace, TodoOK
<1> QED BY <1>5, <1>7, <1>8 DEF TreeInv

LEMMA TreeSucceed ==
  ASSUME TreeInv, Succeed
  PROVE  TreeInv'
<1>1. TypeOK /\ todo = {} /\ second = NoRename
  BY DEF TreeInv, TypeOK, Succeed
<1>2. UpdatedInput \in Paths
  BY <1>1, LocatedIs DEF UpdatedInput, TypeOK
<1> QED BY <1>1, <1>2, TreeResult DEF Succeed

LEMMA TreeFail ==
  ASSUME TreeInv, Fail
  PROVE  TreeInv'
<1>1. TypeOK /\ todo = {} /\ second = NoRename
  BY DEF TreeInv, TypeOK, Fail
<1>2. InputFromFiles \in Paths
  <2>1. \A f \in Planned : Parent(tracked[f]) \in Paths
    BY <1>1, FrontIs DEF TypeOK, Parent
  <2>2. {f \in Planned : Parent(known[f]) = input /\ Parent(tracked[f]) # input} \subseteq Planned
    OBVIOUS
  <2> QED BY <1>1, <2>1, <2>2 DEF InputFromFiles, TypeOK
<1> QED BY <1>1, <1>2, TreeResult DEF Fail

LEMMA TreeTake ==
  ASSUME TreeInv, NEW f \in Files, Take(f)
  PROVE  TreeInv'
<1>1. /\ phase # "idle" /\ at' = [at EXCEPT ![f] = Gone] /\ taken' = taken \cup {f}
      /\ phase' = phase /\ todo' = todo /\ second' = second /\ tracked' = tracked
      /\ journal' = journal /\ Unplanned
  BY DEF Take, wizard, Unplanned
<1>2. /\ TypeOK /\ DiskOK /\ JournalOK /\ HalfOK /\ PlanInPlace /\ TrackedInPlace /\ TodoOK
  BY DEF TreeInv
<1>3. Planned' = Planned /\ Present' = Present \ {f} /\ f \in Nodes /\ f \notin Dirs
      /\ Root \in Dirs /\ Dirs \subseteq Nodes /\ Gone \in Paths
  BY <1>1, EmptySeq, ReleaseAssumption DEF Present, Planned, Unplanned, Nodes, Gone, Paths
<1>4. at' \in [Nodes -> Paths] /\ \A n \in Nodes \ {f} : at'[n] = at[n]
  BY <1>1, <1>2, <1>3 DEF DiskOK
<1>5. Tree(at, Present)'
  <2>1. \A n \in Present' : n \in Present /\ at'[n] = at[n]
    BY <1>3, <1>4 DEF Present
  <2>2. at'[Root] = at[Root] /\ \A d \in Dirs : at'[d] = at[d]
    BY <1>3, <1>4
  <2>3. /\ \A n \in Present : at[n] # Gone /\ IsPrefix(at[Root], at[n])
        /\ \A m, n \in Present : at[m] = at[n] => m = n
        /\ \A n \in Present : \A k \in Len(at[Root])..(Len(at[n]) - 1) :
             \E d \in Dirs : at[d] = SubSeq(at[n], 1, k)
    BY <1>2 DEF DiskOK, Tree
  <2>4. \A n \in Present' : at'[n] # Gone /\ IsPrefix(at'[Root], at'[n])
    BY <2>1, <2>2, <2>3
  <2>5. \A m, n \in Present' : at'[m] = at'[n] => m = n
    BY <2>1, <2>3
  <2>6. \A n \in Present' : \A k \in Len(at'[Root])..(Len(at'[n]) - 1) :
          \E d \in Dirs : at'[d] = SubSeq(at'[n], 1, k)
    BY <2>1, <2>2, <2>3
  <2> QED BY <2>4, <2>5, <2>6 DEF Tree
<1>6. DiskOK'
  BY <1>1, <1>2, <1>3, <1>4, <1>5 DEF DiskOK
<1>7. TypeOK'
  BY <1>1, <1>2, <1>3, <1>4 DEF TypeOK, Unplanned
<1>8. JournalOK' /\ HalfOK' /\ TrackedInPlace' /\ TodoOK'
  BY <1>1, <1>2, <1>3 DEF JournalOK, HalfOK, TrackedInPlace, TodoOK, Unplanned
<1>9. PlanInPlace'
  BY <1>1, <1>2, <1>3 DEF PlanInPlace, Unplanned, Intermediate
<1> QED BY <1>6, <1>7, <1>8, <1>9 DEF TreeInv

LEMMA TreeNext ==
  TreeInv /\ [Next]_vars => TreeInv'
<1> SUFFICES ASSUME TreeInv, [Next]_vars PROVE TreeInv'
  OBVIOUS
<1>1. CASE UNCHANGED vars
  BY <1>1 DEF vars, TreeInv, TypeOK, DiskOK, JournalOK, HalfOK, PlanInPlace, TrackedInPlace,
              TodoOK, Planned, Intermediate, Present, Tree
<1>2. CASE Next
  BY <1>2, TreeStart, TreeSecondHalf, TreeNextPhase, TreeRenameFails, TreeUndoSucceeds,
     TreeUndoFails, TreeSucceed, TreeFail, TreeVacate, TreeRenameFile, TreeRenameFolder, TreeTake
     DEF Next, RunStep
<1> QED BY <1>1, <1>2

-----------------------------------------------------------------------------
\* Every variable stays in its range, and a run that is over, verified or
\* being undone has nothing left to do and no rename half done
\* (RenameExecutor.execute, rename_files.py:154-272).
THEOREM TypeCorrect ==
  Spec => []TypeOK
<1>1. TreeInv => TypeOK
  BY DEF TreeInv
<1> QED BY <1>1, TreeInit, TreeNext, PTL DEF Spec

\* Whatever names are asked for, whatever fails and whatever another program
\* takes away meanwhile: no rename, and no undoing of one, replaces a file or
\* a folder of the release (_reject_existing_target, rename_files.py).
THEOREM NothingIsReplaced ==
  Spec => []NothingReplaced
<1>1. TreeInv => NothingReplaced
  BY DEF TreeInv, DiskOK, Tree, Present, NothingReplaced
<1> QED BY <1>1, TreeInit, TreeNext, PTL DEF Spec
=============================================================================
