--------------------------- MODULE RenameFilesProofs ---------------------------
(***************************************************************************)
(* Theorems about whole runs of RenameFiles, for any release and any       *)
(* names, whatever rename fails, is undone or fails to be undone, and      *)
(* whatever another program takes away meanwhile: a run does all of its    *)
(* plan or none of it, and the wizard's paths are true afterwards.         *)
(*                                                                         *)
(* Two hypotheses.  No run renames a folder and leaves a file of it out    *)
(* (AllTakenAlong), as a run may whose files did not all get names: the    *)
(* path of such a file goes stale (PathsFollowFolders fails), and a later  *)
(* run may take it for another file's.  And no folder has a name that a    *)
(* file has (KindsApart).                                                  *)
(*                                                                         *)
(* The invariant follows three things.  Here says where every node is, or  *)
(* would be if nobody had taken it, by what the run knows; it is what the  *)
(* journal replays to.  The way back says that the journal leads from the  *)
(* disk before the run to the disk.  FilesOK and FoldersOK say how far the *)
(* plan is carried out: which files and folders have their new names.      *)
(***************************************************************************)
EXTENDS RenameTreeProofs

LEMMA RehomedIs ==
  ASSUME NEW p \in [Nodes -> Paths], NEW src \in Paths, NEW dst \in Paths, Siblings(src, dst)
  PROVE  /\ Rehomed(p, src, dst) \in [Nodes -> Paths]
         /\ \A n \in Nodes : /\ Rehomed(p, src, dst)[n] = Rehome(p[n], src, dst)
                             /\ Len(Rehomed(p, src, dst)[n]) = Len(p[n])
<1>1. \A n \in Nodes : Rehome(p[n], src, dst) \in Paths /\ Len(Rehome(p[n], src, dst)) = Len(p[n])
  BY RehomeIs
<1> QED BY <1>1 DEF Rehomed

-----------------------------------------------------------------------------
(* The way back.                                                           *)

\* A rename from tree p to tree q that can be undone.
Undoable(p, q, op, S) ==
  /\ q = Rehomed(p, op.src, op.dst)
  /\ op.src = op.dst \/ \A n \in S : ~IsPrefix(op.dst, p[n])

\* The trees h[0], h[1], ... the renames of journal j lead through.
Way(h, j, s, S) ==
  h[0] = s /\ \A i \in 1..Len(j) : Undoable(h[i - 1], h[i], j[i], S)

\* As long as every undone rename was really undone, the journal leads from the
\* disk before the run to the disk.
BackOK ==
  phase # "idle" /\ complete =>
    \E h \in [Nat -> [Nodes -> Paths]] :
      Way(h, journal, start, Present) /\ \A n \in Present : at[n] = h[Len(journal)][n]

\* A rename done leads one step on, ...
LEMMA BackRename ==
  ASSUME TreeInv, BackOK, phase # "idle", complete, NEW src \in Paths, NEW dst \in Paths,
         Siblings(src, dst), NEW dir \in BOOLEAN, Rename(src, dst, dir),
         start' = start, taken' = taken
  PROVE  BackOK'
<1> DEFINE n == Len(journal)
           op == [src |-> src, dst |-> dst, dir |-> dir]
<1>1. DiskOK /\ JournalOK
  BY DEF TreeInv
<1>2. /\ n \in Nat /\ Len(journal') = n + 1 /\ journal'[n + 1] = op
      /\ \A i \in 1..n : journal'[i] = journal[i]
  BY <1>1, JournalGrows, LenProperties DEF Rename, JournalOK
<1>3. op.src = src /\ op.dst = dst
  OBVIOUS
<1> HIDE DEF op
<1>4. /\ at' = Rehomed(at, src, dst)
      /\ src = dst \/ \A m \in Nodes : ~IsPrefix(dst, at[m])
      /\ at \in [Nodes -> Paths]
  BY <1>1, MovedIs DEF Rename, DiskOK
<1>5. PICK h \in [Nat -> [Nodes -> Paths]] :
        Way(h, journal, start, Present) /\ \A m \in Present : at[m] = h[n][m]
  BY DEF BackOK
<1> DEFINE g == [i \in Nat |-> IF i <= n THEN h[i] ELSE Rehomed(h[n], src, dst)]
<1>6. h[n] \in [Nodes -> Paths] /\ Rehomed(h[n], src, dst) \in [Nodes -> Paths]
  BY <1>2, RehomedIs
<1>7. /\ g \in [Nat -> [Nodes -> Paths]]
      /\ \A i \in 0..n : g[i] = h[i]
      /\ g[n + 1] = Rehomed(h[n], src, dst)
  BY <1>2, <1>6
<1> HIDE DEF g, n
<1>8. Present' = Present /\ Present \subseteq Nodes
  BY DEF Present
<1>9. ASSUME NEW i \in 1..(n + 1) PROVE Undoable(g[i - 1], g[i], journal'[i], Present)
  <2>1. i = n + 1 \/ (i \in 1..n /\ i \in 0..n /\ i - 1 \in 0..n)
    BY <1>2
  <2>2. CASE i = n + 1
    <3>1. i - 1 = n /\ n \in 0..n
      BY <1>2, <2>2
    <3>2. g[i - 1] = h[n] /\ g[i] = Rehomed(h[n], src, dst) /\ journal'[i] = op
      BY <1>2, <1>7, <2>2, <3>1
    <3>3. src = dst \/ \A m \in Present : ~IsPrefix(dst, h[n][m])
      BY <1>4, <1>5, <1>8
    <3> QED BY <1>3, <3>2, <3>3 DEF Undoable
  <2>3. CASE i \in 1..n /\ i \in 0..n /\ i - 1 \in 0..n
    <3>1. Undoable(h[i - 1], h[i], journal[i], Present)
      BY <1>5, <2>3 DEF Way, n
    <3> QED BY <1>2, <1>7, <2>3, <3>1
  <2> QED BY <2>1, <2>2, <2>3
<1>10. g[0] = start
  BY <1>2, <1>5, <1>7 DEF Way
<1>11. Way(g, journal', start', Present')
  BY <1>2, <1>8, <1>9, <1>10 DEF Way
<1>12. \A m \in Present' : at'[m] = g[Len(journal')][m]
  <2> SUFFICES ASSUME NEW m \in Present PROVE at'[m] = g[n + 1][m]
    BY <1>2, <1>8
  <2>1. m \in Nodes /\ at[m] = h[n][m]
    BY <1>5, <1>8
  <2>2. at'[m] = Rehome(at[m], src, dst) /\ g[n + 1][m] = Rehome(h[n][m], src, dst)
    <3>1. \A p : Rehomed(p, src, dst)[m] = Rehome(p[m], src, dst)
      BY <2>1, Zenon DEF Rehomed
    <3>2. at' = Rehomed(at, src, dst) /\ g[n + 1] = Rehomed(h[n], src, dst)
      BY <1>4, <1>7
    <3> QED BY <3>1, <3>2, Zenon
  <2> QED BY <2>1, <2>2, Zenon
<1> QED BY <1>7, <1>11, <1>12 DEF BackOK

LEMMA BackSame ==
  ASSUME BackOK, phase # "idle", journal' = journal, start' = start,
         complete' = complete, taken \subseteq taken',
         \A n \in Present' : at'[n] = at[n]
  PROVE  BackOK'
<1> SUFFICES ASSUME complete PROVE BackOK'
  BY DEF BackOK
<1>1. PICK h \in [Nat -> [Nodes -> Paths]] :
        Way(h, journal, start, Present) /\ \A n \in Present : at[n] = h[Len(journal)][n]
  BY DEF BackOK
<1>2. Present' \subseteq Present
  BY DEF Present
<1>3. Way(h, journal', start', Present')
  BY <1>1, <1>2 DEF Way, Undoable
<1>4. \A n \in Present' : at'[n] = h[Len(journal')][n]
  BY <1>1, <1>2
<1> QED BY <1>3, <1>4 DEF BackOK

\* ... and one undone leads a step back.
LEMMA BackUndo ==
  ASSUME TreeInv, BackOK, UndoSucceeds
  PROVE  BackOK'
<1> DEFINE n == Len(journal)
           op == Last(journal)
<1>1. /\ phase = "rollback" /\ journal # <<>> /\ Free(op.dst, op.src)
      /\ at' = Moved(op.dst, op.src) /\ journal' = Front(journal) /\ start' = start
      /\ taken' = taken /\ complete' = complete /\ phase' = phase
  BY DEF UndoSucceeds, Running
<1>2. DiskOK /\ JournalOK
  BY DEF TreeInv
<1>3. /\ n \in 1..n /\ Len(journal') = n - 1 /\ op = journal[n] /\ op \in Op
      /\ \A i \in 1..(n - 1) : journal'[i] = journal[i]
      /\ Siblings(op.src, op.dst)
  BY <1>1, <1>2, JournalShrinks
<1> HIDE DEF op, n
<1>4. op.src \in Paths /\ op.dst \in Paths /\ Siblings(op.dst, op.src)
  BY <1>3 DEF Op, Siblings
<1>5. at' = Rehomed(at, op.dst, op.src)
  BY <1>1, <1>2, <1>4, MovedIs DEF DiskOK
<1> SUFFICES ASSUME complete PROVE BackOK'
  BY <1>1 DEF BackOK
<1>6. PICK h \in [Nat -> [Nodes -> Paths]] :
        Way(h, journal, start, Present) /\ \A m \in Present : at[m] = h[n][m]
  BY <1>1 DEF BackOK, n
<1>7. Present' = Present /\ Present \subseteq Nodes
  BY <1>1 DEF Present
<1>8. /\ n - 1 \in Nat /\ h[n - 1] \in [Nodes -> Paths]
      /\ Undoable(h[n - 1], h[n], op, Present)
  <2>1. n \in 1..Len(journal) /\ n - 1 \in Nat
    BY <1>3 DEF n
  <2> QED BY <1>3, <1>6, <2>1 DEF Way
<1>9. ASSUME NEW m \in Present PROVE at'[m] = h[n - 1][m]
  <2>1. m \in Nodes /\ h[n - 1][m] \in Paths
    BY <1>7, <1>8
  <2>2. /\ h[n][m] = Rehome(h[n - 1][m], op.src, op.dst)
        /\ op.src = op.dst \/ ~IsPrefix(op.dst, h[n - 1][m])
    BY <1>8, <2>1 DEF Undoable, Rehomed
  <2>3. Rehome(Rehome(h[n - 1][m], op.src, op.dst), op.dst, op.src) = h[n - 1][m]
    BY <1>3, <1>4, <2>1, <2>2, RehomeInverse
  <2>4. at'[m] = Rehome(at[m], op.dst, op.src) /\ at[m] = h[n][m]
    BY <1>5, <1>6, <2>1 DEF Rehomed
  <2> QED BY <2>2, <2>3, <2>4
<1>10. Way(h, journal', start', Present')
  <2>1. \A i \in 1..(n - 1) : i \in 1..Len(journal) /\ journal'[i] = journal[i]
    BY <1>3 DEF n
  <2> QED BY <1>1, <1>3, <1>6, <1>7, <2>1 DEF Way
<1> QED BY <1>3, <1>7, <1>9, <1>10 DEF BackOK

-----------------------------------------------------------------------------
(* The invariant.                                                          *)

\* The last rename done.
J == Last(journal)
Forward == phase \in {"vacate", "files", "folders", "verify"}

\* Where every node is, or would be if no other program had taken it.
Here ==
  [n \in Nodes |->
     IF n \in Dirs THEN at[n]
     ELSE IF n \notin Planned THEN known[n]
     ELSE IF second = NoRename THEN tracked[n]
     ELSE Follow(tracked[n], J.src, J.dst, J.dir)]

\* Nothing ever leaves its folder: p has the depths and the folders of q.
Shape(p, q) ==
  \A n \in Nodes : /\ Len(p[n]) = Len(q[n])
                   /\ \A d \in Dirs : IsPrefix(q[d], q[n]) => IsPrefix(p[d], p[n])

HereIs ==
  /\ Here \in [Nodes -> Paths] /\ \A n \in Present : at[n] = Here[n]
  /\ Shape(Here, start)

\* Until the run fails, nothing is where something that was taken would be,
\* and the journal replays to what the run knows.
HereOK ==
  /\ phase # "idle" => HereIs
  /\ Forward => Tree(Here, Nodes) /\ Replay = [f \in Planned |-> Here[f]]

\* The wizard's paths were true before the run.
StartOK ==
  phase # "idle" =>
    /\ start \in [Nodes -> Paths] /\ Tree(start, Nodes)
    /\ \A f \in Files : known[f] = start[f]
    /\ ~scattered => input = start[Root]
    /\ Forward => complete

\* The plan puts every file where its name and those of its folders say, the
\* files that stay are in no folder that is renamed, and no new name is one
\* that a file keeps.
PlanOK ==
  phase # "idle" =>
    /\ \A f \in Files \ Planned : Located(Parent(start[f]), plan.dir) = Parent(start[f])
    /\ \A f \in Planned :
         /\ plan.file[f] = Append(Located(Parent(start[f]), plan.dir), Last(plan.file[f]))
         /\ plan.file[f] # start[f] /\ Last(plan.file[f]) \in FileNames
         /\ \A n \in Nodes : Intermediate(plan, f) = start[n] => n = f \/ n \in Planned
         /\ \A g \in Planned : Intermediate(plan, f) = Intermediate(plan, g) => f = g
    /\ \A d \in DOMAIN plan.dir :
         /\ \E e \in Dirs : start[e] = d
         /\ Located(d, plan.dir) # d /\ plan.dir[d] \in RootNames \cup SeasonNames

\* A file that is not planned stays where it is.
UnplannedOK ==
  phase # "idle" =>
    \A f \in Files \ Planned : \A i \in 1..Len(journal) :
      \/ journal[i].src = journal[i].dst
      \/ ~IsPrefix(journal[i].src, start[f]) /\ ~IsPrefix(journal[i].dst, start[f])

\* The file that has a temporary name between two steps of its rename.
Halfway(f) == second # NoRename /\ tracked[f] = J.src

\* While files are renamed the folders stay, and a file has its new name,
\* a temporary one if it was in the way, or the one it had.
FilesOK ==
  phase \in {"vacate", "files"} =>
    /\ \A d \in Dirs : at[d] = start[d]
    /\ phase = "vacate" => todo \subseteq Blocking(plan)
    /\ \A f \in Planned :
         IF phase = "files" /\ f \notin todo /\ ~Halfway(f)
           THEN tracked[f] = Intermediate(plan, f)
         ELSE IF f \in Blocking(plan) /\ (phase = "vacate" => f \notin todo)
           THEN Last(tracked[f]) \in Spare
         ELSE tracked[f] = start[f]
    /\ second # NoRename =>
         /\ \E f \in Planned \ todo : tracked[f] = J.src /\ second.dst = Intermediate(plan, f)
         /\ \A f \in Planned : tracked[f] # J.dst

\* The folders that have their new names by now, and those names.
Done == {d \in DOMAIN plan.dir \ todo : second # NoRename => d # J.src}
NewNames == Restrict(plan.dir, Done)

\* While folders are renamed, deepest first, every path has the new names of
\* those that are done, and no temporary name is anybody else's.
FoldersOK ==
  phase \in {"folders", "verify"} =>
    /\ \A e \in Dirs :
         at[e] = IF second = NoRename THEN Located(start[e], NewNames)
                 ELSE Rehome(Located(start[e], NewNames), J.src, J.dst)
    /\ \A f \in Planned :
         tracked[f] = Append(Located(Parent(start[f]), NewNames), Last(plan.file[f]))
    /\ \A e \in DOMAIN plan.dir \ todo, d \in todo : Len(d) <= Len(e)
    /\ second # NoRename =>
         /\ J.src \in DOMAIN plan.dir \ todo
         /\ second.dst = Append(Parent(J.src), plan.dir[J.src])
         /\ \A e \in Done : Len(J.src) <= Len(e)
         /\ \A e \in Dirs : ~IsPrefix(J.dst, Located(start[e], NewNames))
         /\ \A f \in Planned : ~IsPrefix(J.dst, tracked[f])
         /\ \A f \in Files \ Planned : ~IsPrefix(J.dst, start[f])

\* All names that files, and folders, have or had in this run.
FileKind ==
  FileNames \cup {Last(known[f]) : f \in Files} \cup {Last(tracked[f]) : f \in Planned}
  \cup UNION {{Last(journal[i].src), Last(journal[i].dst)} :
                i \in {i \in 1..Len(journal) : ~journal[i].dir}}
DirKind ==
  RootNames \cup SeasonNames \cup {Last(at[d]) : d \in Dirs} \cup {Last(d) : d \in DOMAIN plan.dir}
  \cup UNION {{Last(journal[i].src), Last(journal[i].dst)} :
                i \in {i \in 1..Len(journal) : journal[i].dir}}
KindsOK == FileKind \cap DirKind = {}

\* Between runs every path of the wizard's files is true.
IdleOK ==
  phase = "idle" => \A f \in Files \ taken : known[f] = at[f]

-----------------------------------------------------------------------------
(* One rename of where things are.                                         *)

LEMMA RehomeSelf ==
  ASSUME NEW src \in Paths, NEW dst \in Paths, Siblings(src, dst)
  PROVE  Rehome(src, src, dst) = dst
<1>1. /\ Rehome(src, src, dst) \in Paths /\ Len(Rehome(src, src, dst)) = Len(src)
      /\ \A k \in 1..Len(src) : Rehome(src, src, dst)[k] =
           IF IsPrefix(src, src) /\ k = Len(src) THEN dst[k] ELSE src[k]
  BY RehomeIs
<1>2. /\ Len(src) \in Nat /\ Len(src) = Len(dst) /\ Len(src) > 0
      /\ \A k \in 1..(Len(src) - 1) : src[k] = dst[k]
  BY PathFacts, SiblingsAre
<1>3. IsPrefix(src, src)
  BY <1>2, PrefixIs
<1>4. ASSUME NEW k \in 1..Len(src) PROVE Rehome(src, src, dst)[k] = dst[k]
  <2>1. k = Len(src) \/ k \in 1..(Len(src) - 1)
    BY <1>2
  <2> QED BY <1>1, <1>2, <1>3, <2>1
<1> QED BY <1>1, <1>2, <1>4, SamePath

LEMMA ShapeKept ==
  ASSUME NEW p \in [Nodes -> Paths], NEW q, Shape(p, q),
         NEW src \in Paths, NEW dst \in Paths, Siblings(src, dst)
  PROVE  Shape(Rehomed(p, src, dst), q)
<1> DEFINE r == Rehomed(p, src, dst)
<1>1. \A n \in Nodes : r[n] = Rehome(p[n], src, dst) /\ Len(r[n]) = Len(p[n])
  BY RehomedIs
<1>2. Dirs \subseteq Nodes
  BY DEF Nodes
<1> HIDE DEF r
<1>3. ASSUME NEW n \in Nodes, NEW d \in Dirs, IsPrefix(q[d], q[n])
      PROVE  IsPrefix(r[d], r[n])
  <2>1. IsPrefix(p[d], p[n]) /\ p[d] \in Paths /\ p[n] \in Paths
    BY <1>2, <1>3 DEF Shape
  <2>2. IsPrefix(Rehome(p[d], src, dst), Rehome(p[n], src, dst))
    BY <2>1, PrefixKept
  <2> QED BY <1>1, <1>2, <2>2, Zenon
<1> QED BY <1>1, <1>3 DEF Shape, r

\* A name nothing has, nothing is under.
LEMMA NotUnderNew ==
  ASSUME NEW p \in [Nodes -> Paths], Tree(p, Nodes), NEW src \in Paths, NEW dst \in Paths,
         Siblings(src, dst), NEW m \in Nodes, p[m] = src,
         src = dst \/ \A n \in Nodes : p[n] # dst
  PROVE  /\ src = dst \/ \A n \in Nodes : ~IsPrefix(dst, p[n])
         /\ Tree(Rehomed(p, src, dst), Nodes)
<1>1. ASSUME src # dst, NEW n \in Nodes, IsPrefix(dst, p[n]) PROVE FALSE
  <2>1. Root \in Nodes /\ Dirs \subseteq Nodes /\ Nodes \in SUBSET Nodes
    BY ReleaseAssumption DEF Nodes
  <2>2. Len(p[Root]) <= Len(dst)
    <3>1. IsPrefix(p[Root], src) /\ p[Root] \in Paths
      BY <2>1 DEF Tree
    <3>2. Len(p[Root]) <= Len(src)
      BY <3>1, PrefixIs
    <3> QED BY <3>2, SiblingsAre
  <2>3. dst = p[n] \/ \E d \in Dirs : p[d] = dst
    BY <1>1, <2>1, <2>2, InTree
  <2> QED BY <1>1, <2>1, <2>3
<1>2. src = dst \/ \A n \in Nodes : ~IsPrefix(dst, p[n])
  BY <1>1
<1>3. Nodes \in SUBSET Nodes /\ Dirs \subseteq Nodes
  BY DEF Nodes
<1> QED BY <1>2, <1>3, TreeKept

\* A file has nothing below it.
LEMMA OnlyTheFile ==
  ASSUME NEW p \in [Nodes -> Paths], Tree(p, Nodes), NEW f \in Files, NEW n \in Nodes,
         IsPrefix(p[f], p[n])
  PROVE  n = f
<1>1. f \in Nodes /\ Root \in Nodes /\ Dirs \subseteq Nodes /\ f \notin Dirs /\ Nodes \in SUBSET Nodes
  BY ReleaseAssumption DEF Nodes
<1>2. IsPrefix(p[Root], p[f]) /\ p[Root] \in Paths /\ p[f] \in Paths
  BY <1>1 DEF Tree
<1>3. Len(p[Root]) <= Len(p[f])
  BY <1>2, PrefixIs
<1>4. p[f] = p[n] \/ \E d \in Dirs : p[d] = p[f]
  BY <1>1, <1>2, <1>3, InTree
<1> QED BY <1>1, <1>4 DEF Tree

LEMMA ReplayIsNext ==
  \A h : Len(journal') \in Nat /\ Chain(h, Len(journal))' => Replay' = h[Len(journal')]
<1>1. \A h : Len(journal) \in Nat /\ Chain(h, Len(journal)) => Replay = h[Len(journal)]
  BY ReplayIs
<1>2. (\A h : Len(journal) \in Nat /\ Chain(h, Len(journal)) => Replay = h[Len(journal)])'
  BY <1>1, PTL
<1> QED BY <1>2
-----------------------------------------------------------------------------
\* What a step that is one rename leaves alone.
Along == Unplanned /\ start' = start /\ scattered' = scattered /\ taken' = taken

\* Where things are follows the disk, when what the run tracks does.
LEMMA HereMoves ==
  ASSUME TreeInv, HereIs, Along, NEW src \in Paths, NEW dst \in Paths, Siblings(src, dst),
         Free(src, dst), at' = Moved(src, dst),
         \A f \in Planned : Here'[f] = Rehome(Here[f], src, dst),
         \A u \in Files \ Planned : Rehome(known[u], src, dst) = known[u]
  PROVE  Here' = Rehomed(Here, src, dst) /\ HereIs'
<1>1. DiskOK /\ Here \in [Nodes -> Paths] /\ Shape(Here, start)
      /\ \A n \in Present : at[n] = Here[n]
  BY DEF TreeInv, HereIs
<1>2. at' = Rehomed(at, src, dst) /\ at \in [Nodes -> Paths]
  BY <1>1, MovedIs DEF DiskOK
<1>3. /\ Rehomed(Here, src, dst) \in [Nodes -> Paths]
      /\ \A n \in Nodes : Rehomed(Here, src, dst)[n] = Rehome(Here[n], src, dst)
      /\ \A n \in Nodes : at'[n] = Rehome(at[n], src, dst)
  BY <1>1, <1>2, RehomedIs
<1>4. Dirs \subseteq Present /\ Present' = Present /\ Planned' = Planned
      /\ Present \subseteq Nodes /\ Planned \subseteq Files
  BY <1>1, ReleaseAssumption DEF Present, Planned, Along, Unplanned, DiskOK, Nodes, TreeInv, TypeOK
<1>5. ASSUME NEW n \in Nodes PROVE Here'[n] = Rehome(Here[n], src, dst)
  <2>1. CASE n \in Dirs
    <3>1. Here'[n] = at'[n] /\ Here[n] = at[n]
      BY <2>1 DEF Here
    <3> QED BY <1>3, <3>1, Zenon
  <2>2. CASE n \in Planned
    BY <2>2
  <2>3. CASE n \in Files \ Planned
    <3>1. n \notin Dirs /\ n \notin Planned'
      BY <1>4, <2>3, ReleaseAssumption
    <3>2. Here'[n] = known'[n] /\ Here[n] = known[n] /\ known' = known
      BY <2>3, <3>1 DEF Here, Along, Unplanned
    <3>3. Rehome(known[n], src, dst) = known[n]
      BY <2>3
    <3> QED BY <3>2, <3>3
  <2> QED BY <1>4, <2>1, <2>2, <2>3 DEF Nodes
<1>6. Here' = Rehomed(Here, src, dst)
  <2>1. Here' = [n \in Nodes |-> Here'[n]]
    BY Zenon DEF Here
  <2> QED BY <1>5, <2>1, Zenon DEF Rehomed
<1>7. ASSUME NEW n \in Present' PROVE at'[n] = Here'[n]
  BY <1>1, <1>3, <1>4, <1>5
<1>8. Shape(Here', start')
  <2>1. Shape(Rehomed(Here, src, dst), start)
    BY <1>1, ShapeKept
  <2> QED BY <1>6, <2>1, Zenon DEF Along
<1> QED BY <1>3, <1>6, <1>7, <1>8 DEF HereIs

LEMMA ReplayGrows ==
  ASSUME TypeOK, JournalOK, NEW src \in Paths, NEW dst \in Paths, Siblings(src, dst),
         NEW dir \in BOOLEAN,
         journal' = Append(journal, [src |-> src, dst |-> dst, dir |-> dir]),
         known' = known, plan' = plan
  PROVE  Replay' = [f \in Planned |-> Follow(Replay[f], src, dst, dir)]
<1> DEFINE n == Len(journal)
           op == [src |-> src, dst |-> dst, dir |-> dir]
<1>1. /\ n \in Nat /\ Len(journal') = n + 1 /\ journal'[n + 1] = op
      /\ \A i \in 1..n : journal'[i] = journal[i]
  BY JournalGrows, LenProperties DEF JournalOK
<1>2. op.src = src /\ op.dst = dst /\ op.dir = dir
  OBVIOUS
<1>3. Planned' = Planned
  BY DEF Planned
<1>4. PICK h : Chain(h, n) /\ Replay = h[n]
  <2>1. \E h : Chain(h, Len(journal))
    BY ReplayType DEF TypeOK
  <2> QED BY <1>1, <2>1, ReplayIs
<1> DEFINE last == [f \in Planned |-> Follow(h[n][f], src, dst, dir)]
<1> HIDE DEF op, n, last
<1>5. PICK g : g[n + 1] = last /\ \A i \in 0..n : g[i] = h[i]
  <2> DEFINE w == [i \in 0..(n + 1) |-> IF i <= n THEN h[i] ELSE last]
  <2>1. w[n + 1] = last /\ \A i \in 0..n : w[i] = h[i]
    BY <1>1
  <2> HIDE DEF w
  <2> QED BY <2>1
<1>6. ASSUME NEW i \in 1..(n + 1)
      PROVE  g[i] = [f \in Planned |-> Follow(g[i - 1][f], journal'[i].src, journal'[i].dst,
                                               journal'[i].dir)]
  <2>1. i = n + 1 \/ (i \in 1..n /\ i \in 0..n /\ i - 1 \in 0..n)
    BY <1>1
  <2>2. CASE i = n + 1
    <3>1. i - 1 = n /\ n \in 0..n
      BY <1>1, <2>2
    <3>2. g[i - 1] = h[n] /\ g[i] = last /\ journal'[i] = op
      BY <1>1, <1>5, <2>2, <3>1
    <3> QED BY <1>2, <3>2 DEF last
  <2>3. CASE i \in 1..n /\ i \in 0..n /\ i - 1 \in 0..n
    <3>1. h[i] = Replayed(i, h[i - 1])
      BY <1>4, <2>3 DEF Chain
    <3>2. g[i] = h[i] /\ g[i - 1] = h[i - 1] /\ journal'[i] = journal[i]
      BY <1>1, <1>5, <2>3
    <3> QED BY <3>1, <3>2 DEF Replayed
  <2> QED BY <2>1, <2>2, <2>3
<1>7. g[0] = [f \in Planned |-> known[f]]
  BY <1>1, <1>4, <1>5 DEF Chain
<1>8. Chain(g, Len(journal))'
  <2>1. Chain(g, Len(journal))' <=>
          /\ g[0] = [f \in Planned' |-> known'[f]]
          /\ \A i \in 1..Len(journal') :
               g[i] = [f \in Planned' |-> Follow(g[i - 1][f], journal'[i].src,
                                                 journal'[i].dst, journal'[i].dir)]
    BY DEF Chain, Replayed
  <2> QED BY <1>1, <1>3, <1>6, <1>7, <2>1
<1>9. Replay' = g[n + 1]
  BY <1>1, <1>8, ReplayIsNext
<1> QED BY <1>4, <1>5, <1>9 DEF last

\* A rename of the run, forward, keeps what it knows true.
LEMMA ForwardStep ==
  ASSUME TreeInv, Forward, HereOK, StartOK, UnplannedOK, Along, phase' = phase,
         NEW src \in Paths, NEW dst \in Paths, Siblings(src, dst), NEW dir \in BOOLEAN,
         Rename(src, dst, dir),
         ~dir => \E g \in Planned : Here[g] = src,
         dir => \A u \in Files \ Planned : ~IsPrefix(src, known[u]),
         src = dst \/ \A f \in taken : Here[f] # dst,
         \A f \in Planned : Here'[f] = Follow(Here[f], src, dst, dir)
  PROVE  /\ HereOK' /\ UnplannedOK'
         /\ Here' = Rehomed(Here, src, dst)
         /\ src = dst \/ \A n \in Nodes : ~IsPrefix(dst, Here[n])
<1>1. /\ HereIs /\ Tree(Here, Nodes) /\ Here \in [Nodes -> Paths]
      /\ Replay = [f \in Planned |-> Here[f]]
      /\ \A n \in Present : at[n] = Here[n]
  BY DEF HereOK, HereIs, Forward
<1>2. /\ TypeOK /\ JournalOK /\ Planned \subseteq Files /\ Planned' = Planned
      /\ Free(src, dst) /\ at' = Moved(src, dst) /\ taken \subseteq Files
      /\ \A n \in taken : at[n] = Gone
      /\ journal' = Append(journal, [src |-> src, dst |-> dst, dir |-> dir])
  BY DEF TreeInv, TypeOK, Along, Unplanned, Planned, Rename, DiskOK
<1>3. PICK m \in Nodes : Here[m] = src
  <2>1. PICK m \in Nodes : at[m] = src
    BY <1>2 DEF Free, Exists
  <2>2. m \in Present
    BY <1>2, <2>1 DEF Present, Siblings
  <2> QED BY <1>1, <2>1, <2>2
<1>4. src = dst \/ \A n \in Nodes : Here[n] # dst
  <2> SUFFICES ASSUME src # dst, NEW n \in Nodes PROVE Here[n] # dst
    OBVIOUS
  <2>1. CASE n \in taken
    BY <2>1
  <2>2. CASE n \in Present
    BY <1>1, <1>2, <2>2 DEF Free, Exists
  <2> QED BY <2>1, <2>2 DEF Present
<1>5. /\ src = dst \/ \A n \in Nodes : ~IsPrefix(dst, Here[n])
      /\ Tree(Rehomed(Here, src, dst), Nodes)
  BY <1>1, <1>3, <1>4, NotUnderNew
<1>6. ASSUME ~dir, NEW n \in Nodes, IsPrefix(src, Here[n])
      PROVE  n \in Planned /\ Here[n] = src
  <2>1. PICK g \in Planned : Here[g] = src
    BY <1>6
  <2> QED BY <1>1, <1>2, <1>6, <2>1, OnlyTheFile
<1>7. ASSUME NEW f \in Planned
      PROVE  Follow(Here[f], src, dst, dir) = Rehome(Here[f], src, dst)
  <2>0. f \in Nodes /\ Here[f] \in Paths
    BY <1>1, <1>2 DEF Nodes
  <2>1. CASE dir
    BY <2>1 DEF Follow
  <2>2. CASE ~dir /\ IsPrefix(src, Here[f])
    <3>1. Here[f] = src
      BY <1>6, <2>0, <2>2
    <3> QED BY <2>2, <3>1, RehomeSelf DEF Follow
  <2>3. CASE ~dir /\ ~IsPrefix(src, Here[f])
    <3>1. Here[f] # src
      BY <2>0, <2>3, PrefixIs, PathFacts
    <3> QED BY <2>3, <3>1 DEF Follow, Rehome
  <2> QED BY <2>1, <2>2, <2>3
<1>8. ASSUME NEW u \in Files \ Planned PROVE ~IsPrefix(src, known[u])
  <2>1. Here[u] = known[u] /\ u \in Nodes
    BY ReleaseAssumption DEF Here, Nodes
  <2> QED BY <1>6, <2>1
<1>9. /\ \A f \in Planned : Here'[f] = Rehome(Here[f], src, dst)
      /\ \A u \in Files \ Planned : Rehome(known[u], src, dst) = known[u]
  BY <1>7, <1>8 DEF Rehome
<1>10. Here' = Rehomed(Here, src, dst) /\ HereIs'
  BY <1>1, <1>2, <1>9, HereMoves
<1>11. Replay' = [f \in Planned' |-> Here'[f]]
  <2>1. Replay' = [f \in Planned |-> Follow(Replay[f], src, dst, dir)]
    BY <1>2, ReplayGrows DEF Along, Unplanned
  <2>2. ASSUME NEW f \in Planned PROVE Follow(Replay[f], src, dst, dir) = Here'[f]
    BY <1>1
  <2> QED BY <1>2, <2>1, <2>2
<1>12. Tree(Here, Nodes)'
  <2>1. Tree(Here', Nodes)
    BY <1>5, <1>10
  <2> QED BY <2>1 DEF Tree
<1>13. HereOK'
  BY <1>10, <1>11, <1>12 DEF HereOK
<1>14. UnplannedOK'
  <2> SUFFICES ASSUME NEW u \in Files \ Planned, NEW i \in 1..Len(journal')
      PROVE  \/ journal'[i].src = journal'[i].dst
             \/ ~IsPrefix(journal'[i].src, start[u]) /\ ~IsPrefix(journal'[i].dst, start[u])
    <3>1. start' = start /\ phase' = phase
      BY DEF Along
    <3> QED BY <1>2, <3>1 DEF UnplannedOK
  <2>1. /\ Len(journal) \in Nat /\ Len(journal') = Len(journal) + 1
        /\ \A j \in 1..Len(journal) : journal'[j] = journal[j]
        /\ journal'[Len(journal) + 1] = [src |-> src, dst |-> dst, dir |-> dir]
    BY <1>2, JournalGrows, LenProperties DEF JournalOK
  <2>2. i \in 1..Len(journal) \/ i = Len(journal) + 1
    BY <2>1
  <2>3. CASE i \in 1..Len(journal)
    BY <2>1, <2>3 DEF UnplannedOK, Forward
  <2>4. CASE i = Len(journal) + 1
    <3>1. known[u] = start[u] /\ Here[u] = known[u] /\ u \in Nodes
      BY ReleaseAssumption DEF StartOK, Forward, Here, Nodes
    <3>2. journal'[i].src = src /\ journal'[i].dst = dst
      BY <2>1, <2>4
    <3> QED BY <1>5, <1>8, <3>1, <3>2
  <2> QED BY <2>2, <2>3, <2>4
<1> QED BY <1>5, <1>10, <1>13, <1>14

-----------------------------------------------------------------------------
(* Names of files are no names of folders.                                 *)

LEMMA LastRehome ==
  ASSUME NEW p \in Paths, NEW src \in Paths, NEW dst \in Paths, Siblings(src, dst)
  PROVE  Last(Rehome(p, src, dst)) = IF p = src THEN Last(dst) ELSE Last(p)
<1>1. CASE p = Gone
  BY <1>1, RehomeGone DEF Siblings
<1>2. CASE p # Gone
  <2> DEFINE q == Rehome(p, src, dst)
             n == Len(p)
  <2>1. /\ q \in Paths /\ Len(q) = n
        /\ \A k \in 1..n : q[k] = IF IsPrefix(src, p) /\ k = Len(src) THEN dst[k] ELSE p[k]
    BY RehomeIs
  <2>2. n \in Nat /\ n > 0 /\ n \in 1..n /\ Len(src) \in Nat /\ Len(dst) = Len(src)
    BY <1>2, PathFacts, SiblingsAre
  <2>3. Last(p) = p[n] /\ Last(q) = q[n] /\ Last(dst) = dst[Len(dst)]
    BY <2>1 DEF Last, q
  <2> HIDE DEF q, n
  <2>4. IsPrefix(src, p) /\ n = Len(src) <=> p = src
    <3>1. IsPrefix(src, p) <=> Len(src) <= n /\ \A k \in 1..Len(src) : src[k] = p[k]
      BY PrefixIs DEF n
    <3>2. IsPrefix(src, p) /\ n = Len(src) => p = src
      BY <2>2, <3>1, SamePath DEF n
    <3> QED BY <2>2, <3>1, <3>2 DEF n
  <2>5. q[n] = IF p = src THEN dst[n] ELSE p[n]
    BY <2>1, <2>2, <2>4
  <2>6. p = src => Len(dst) = n
    BY <2>2 DEF n
  <2> QED BY <2>3, <2>5, <2>6 DEF q
<1> QED BY <1>1, <1>2

\* A step keeps the kinds apart when it takes what it renames from the names of
\* its own kind and gives it a name that is not of the other.
LEMMA KindsStep ==
  ASSUME TreeInv, KindsOK, Along, NEW src \in Paths, NEW dst \in Paths, Siblings(src, dst),
         NEW dir \in BOOLEAN, Rename(src, dst, dir),
         IF dir THEN Last(src) \in DirKind /\ Last(dst) \notin FileKind
                ELSE Last(src) \in FileKind /\ Last(dst) \notin DirKind,
         \A f \in Planned : \/ Last(tracked'[f]) = Last(tracked[f])
                            \/ ~dir /\ Last(tracked'[f]) = Last(dst)
  PROVE  KindsOK'
<1>1. /\ JournalOK /\ at' = Moved(src, dst) /\ Free(src, dst) /\ DiskOK
      /\ journal' = Append(journal, [src |-> src, dst |-> dst, dir |-> dir])
  BY DEF TreeInv, Rename
<1>2. /\ Len(journal) \in Nat /\ Len(journal') = Len(journal) + 1
      /\ \A i \in 1..Len(journal) : journal'[i] = journal[i]
      /\ journal'[Len(journal) + 1] = [src |-> src, dst |-> dst, dir |-> dir]
  BY <1>1, JournalGrows, LenProperties DEF JournalOK
<1>3. /\ Planned' = Planned /\ known' = known /\ plan' = plan
  BY DEF Along, Unplanned, Planned
<1>4. ASSUME NEW i \in 1..Len(journal')
      PROVE  \/ i \in 1..Len(journal) /\ journal'[i] = journal[i]
             \/ journal'[i].src = src /\ journal'[i].dst = dst /\ journal'[i].dir = dir
  <2>1. i \in 1..Len(journal) \/ i = Len(journal) + 1
    BY <1>2
  <2>2. \A a, b, c : LET r == [src |-> a, dst |-> b, dir |-> c] IN
          r.src = a /\ r.dst = b /\ r.dir = c
    OBVIOUS
  <2> QED BY <1>2, <2>1, <2>2
<1>5. ASSUME NEW x \in FileKind' PROVE x \in FileKind \/ (~dir /\ x = Last(dst))
  <2>1. \/ x \in FileNames \/ \E f \in Files : x = Last(known[f])
        \/ \E f \in Planned : x = Last(tracked'[f])
        \/ \E i \in 1..Len(journal') :
             ~journal'[i].dir /\ (x = Last(journal'[i].src) \/ x = Last(journal'[i].dst))
    BY <1>3, <1>5 DEF FileKind
  <2>2. CASE x \in FileNames \/ \E f \in Files : x = Last(known[f])
    BY <2>2 DEF FileKind
  <2>3. CASE \E f \in Planned : x = Last(tracked'[f])
    BY <2>3 DEF FileKind
  <2>4. CASE \E i \in 1..Len(journal') :
               ~journal'[i].dir /\ (x = Last(journal'[i].src) \/ x = Last(journal'[i].dst))
    <3>1. PICK i \in 1..Len(journal') :
            ~journal'[i].dir /\ (x = Last(journal'[i].src) \/ x = Last(journal'[i].dst))
      BY <2>4
    <3>2. CASE i \in 1..Len(journal) /\ journal'[i] = journal[i]
      BY <3>1, <3>2 DEF FileKind
    <3>3. CASE journal'[i].src = src /\ journal'[i].dst = dst /\ journal'[i].dir = dir
      BY <3>1, <3>3
    <3> QED BY <1>4, <3>2, <3>3
  <2> QED BY <2>1, <2>2, <2>3, <2>4
<1>6. ASSUME NEW d \in Dirs
      PROVE  Last(at'[d]) \in DirKind \/ (dir /\ Last(at'[d]) = Last(dst))
  <2>1. at[d] \in Paths /\ at'[d] = Rehome(at[d], src, dst) /\ Last(at[d]) \in DirKind
    <3>1. at' = Rehomed(at, src, dst) /\ d \in Nodes /\ at \in [Nodes -> Paths]
      BY <1>1, MovedIs DEF DiskOK, Nodes
    <3>2. at'[d] = Rehome(at[d], src, dst)
      BY <3>1, Zenon DEF Rehomed
    <3> QED BY <3>1, <3>2 DEF DirKind
  <2>2. Last(at'[d]) = IF at[d] = src THEN Last(dst) ELSE Last(at[d])
    BY <2>1, LastRehome
  <2>3. at[d] = src => dir
    BY <2>1 DEF KindsOK
  <2> QED BY <2>1, <2>2, <2>3
<1>7. ASSUME NEW x \in DirKind' PROVE x \in DirKind \/ (dir /\ x = Last(dst))
  <2>1. \/ x \in RootNames \cup SeasonNames \/ \E d \in Dirs : x = Last(at'[d])
        \/ \E d \in DOMAIN plan.dir : x = Last(d)
        \/ \E i \in 1..Len(journal') :
             journal'[i].dir /\ (x = Last(journal'[i].src) \/ x = Last(journal'[i].dst))
    BY <1>3, <1>7 DEF DirKind
  <2>2. CASE x \in RootNames \cup SeasonNames \/ \E d \in DOMAIN plan.dir : x = Last(d)
    BY <2>2 DEF DirKind
  <2>3. CASE \E d \in Dirs : x = Last(at'[d])
    BY <1>6, <2>3
  <2>4. CASE \E i \in 1..Len(journal') :
               journal'[i].dir /\ (x = Last(journal'[i].src) \/ x = Last(journal'[i].dst))
    <3>1. PICK i \in 1..Len(journal') :
            journal'[i].dir /\ (x = Last(journal'[i].src) \/ x = Last(journal'[i].dst))
      BY <2>4
    <3>2. CASE i \in 1..Len(journal) /\ journal'[i] = journal[i]
      BY <3>1, <3>2 DEF DirKind
    <3>3. CASE journal'[i].src = src /\ journal'[i].dst = dst /\ journal'[i].dir = dir
      BY <3>1, <3>3
    <3> QED BY <1>4, <3>2, <3>3
  <2> QED BY <2>1, <2>2, <2>3, <2>4
<1> QED BY <1>5, <1>7 DEF KindsOK

LEMMA FollowedKind ==
  ASSUME TypeOK, KindsOK, NEW src \in Paths, NEW dst \in Paths, Siblings(src, dst),
         NEW dir \in BOOLEAN, dir => Last(src) \in DirKind, NEW f \in Planned
  PROVE  \/ Last(Followed(src, dst, dir)[f]) = Last(tracked[f])
         \/ ~dir /\ Last(Followed(src, dst, dir)[f]) = Last(dst)
<1>1. /\ tracked[f] \in Paths /\ Followed(src, dst, dir)[f] = Follow(tracked[f], src, dst, dir)
      /\ Last(tracked[f]) \in FileKind
  BY DEF TypeOK, Followed, FileKind
<1>2. CASE dir
  <2>1. tracked[f] # src
    BY <1>1, <1>2 DEF KindsOK
  <2> QED BY <1>1, <1>2, <2>1, LastRehome DEF Follow
<1>3. CASE ~dir
  BY <1>1, <1>3 DEF Follow
<1> QED BY <1>2, <1>3

\* A temporary name is no other file's or folder's.
LEMMA Fresh ==
  ASSUME TreeInv, Unused # {}, NEW p \in Paths, p # Gone
  PROVE  /\ Temporary(p) \in Paths /\ Siblings(p, Temporary(p))
         /\ Last(Temporary(p)) \in Spare
         /\ Last(Temporary(p)) \notin FileNames \cup RootNames \cup SeasonNames
         /\ Last(Temporary(p)) \notin FileKind
         /\ \A n \in Present : Last(Temporary(p)) # Last(at[n])
         /\ \A i \in 1..Len(journal) : /\ Last(Temporary(p)) # Last(journal[i].src)
                                       /\ Last(Temporary(p)) # Last(journal[i].dst)
<1> DEFINE t == Last(Temporary(p))
<1>1. /\ Temporary(p) \in Paths /\ Siblings(p, Temporary(p)) /\ t \in Unused /\ t \in Spare
  BY TemporaryIs
<1> HIDE DEF t
<1>2. TypeOK /\ DiskOK /\ journal \in Seq(Op)
  BY DEF TreeInv, JournalOK
<1>3. DOMAIN journal = 1..Len(journal) /\ DOMAIN tracked = Planned
  BY <1>2, LenProperties DEF TypeOK
<1>4. t \notin FileNames \cup RootNames \cup SeasonNames
  BY <1>1, ReleaseAssumption
<1>5. ASSUME NEW n \in Present PROVE t # Last(at[n])
  BY <1>1, <1>2 DEF Unused, DiskOK, Tree, Present
<1>6. \A f \in Files : t # Last(known[f])
  BY <1>1 DEF Unused
<1>7. \A f \in Planned : t # Last(tracked[f])
  BY <1>1, <1>3 DEF Unused
<1>8. \A i \in 1..Len(journal) : t # Last(journal[i].src) /\ t # Last(journal[i].dst)
  BY <1>1, <1>3 DEF Unused
<1>9. t \notin FileKind
  BY <1>4, <1>6, <1>7, <1>8 DEF FileKind
<1> QED BY <1>1, <1>4, <1>5, <1>8, <1>9 DEF t

LEMMA FreshHere ==
  ASSUME TreeInv, HereOK, phase # "idle", second = NoRename, Unused # {},
         NEW p \in Paths, p # Gone, NEW n \in Nodes
  PROVE  Here[n] # Temporary(p)
<1>1. CASE n \in Dirs
  <2>1. Here[n] = at[n] /\ n \in Present
    BY <1>1, ReleaseAssumption DEF Here, Present, TreeInv, DiskOK
  <2> QED BY <2>1, Fresh
<1>2. CASE n \in Files
  <2>1. Here[n] = IF n \in Planned THEN tracked[n] ELSE known[n]
    BY <1>2, ReleaseAssumption DEF Here
  <2>2. Last(Here[n]) \in FileKind
    BY <1>2, <2>1 DEF FileKind
  <2> QED BY <2>2, Fresh
<1> QED BY <1>1, <1>2 DEF Nodes

\* What the run was started from and what it plans to do does not change.
LEMMA StartKept ==
  ASSUME StartOK, PlanOK, phase # "idle", plan' = plan, known' = known, start' = start,
         scattered' = scattered, input' = input, Forward' => Forward /\ complete' = complete
  PROVE  StartOK' /\ PlanOK'
<1>1. /\ plan' = plan /\ known' = known /\ start' = start /\ scattered' = scattered
      /\ input' = input
  OBVIOUS
<1>2. Planned' = Planned /\ \A f : Intermediate(plan, f)' = Intermediate(plan, f)
  BY <1>1 DEF Planned, Intermediate
<1>3. StartOK'
  BY <1>1 DEF StartOK, Tree
<1>4. PlanOK'
  <2> SUFFICES ASSUME phase # "idle" PROVE PlanOK'
    OBVIOUS
  <2>1. \A f \in Files \ Planned' :
          Located(Parent(start'[f]), plan'.dir) = Parent(start'[f])
    BY <1>1, <1>2 DEF PlanOK
  <2>2. ASSUME NEW f \in Planned'
        PROVE  /\ plan'.file[f] =
                    Append(Located(Parent(start'[f]), plan'.dir), Last(plan'.file[f]))
               /\ plan'.file[f] # start'[f] /\ Last(plan'.file[f]) \in FileNames
               /\ \A n \in Nodes : Intermediate(plan, f)' = start'[n] => n = f \/ n \in Planned'
               /\ \A g \in Planned' : Intermediate(plan, f)' = Intermediate(plan, g)' => f = g
    BY <1>1, <1>2 DEF PlanOK
  <2>3. \A d \in DOMAIN plan'.dir :
          /\ \E e \in Dirs : start'[e] = d
          /\ Located(d, plan'.dir) # d /\ plan'.dir[d] \in RootNames \cup SeasonNames
    BY <1>1 DEF PlanOK
  <2> QED BY <2>1, <2>2, <2>3 DEF PlanOK
<1> QED BY <1>3, <1>4

LEMMA AlongKeeps ==
  ASSUME StartOK, PlanOK, Along, phase # "idle", Forward' => Forward
  PROVE  StartOK' /\ PlanOK'
BY StartKept DEF Along, Unplanned

LEMMA FileStep ==
  ASSUME TreeInv, HereOK, StartOK, PlanOK, UnplannedOK, KindsOK, BackOK, Along,
         phase \in {"vacate", "files"}, phase' = phase,
         NEW src \in Paths, NEW dst \in Paths, Siblings(src, dst), Rename(src, dst, FALSE),
         NEW g \in Planned, Here[g] = src,
         src = dst \/ \A f \in taken : Here[f] # dst,
         \A f \in Planned : Here'[f] = Follow(Here[f], src, dst, FALSE),
         Last(src) \in FileKind, Last(dst) \notin DirKind,
         \A f \in Planned : Last(tracked'[f]) \in {Last(tracked[f]), Last(dst)}
  PROVE  /\ HereOK' /\ StartOK' /\ PlanOK' /\ UnplannedOK' /\ KindsOK' /\ BackOK'
         /\ \A d \in Dirs : at'[d] = at[d]
<1>1. Forward /\ phase # "idle" /\ FALSE \in BOOLEAN
  BY DEF Forward
<1>2. HereOK' /\ UnplannedOK'
  <2> DEFINE dir == FALSE
  <2>1. /\ ~dir => \E h \in Planned : Here[h] = src
        /\ dir => \A u \in Files \ Planned : ~IsPrefix(src, known[u])
    OBVIOUS
  <2> QED BY <1>1, <2>1, ForwardStep
<1>3. StartOK' /\ PlanOK'
  BY <1>1, AlongKeeps
<1>4. KindsOK'
  BY <1>1, KindsStep
<1>5. BackOK'
  <2>1. complete /\ start' = start /\ taken' = taken
    BY <1>1 DEF StartOK, Along
  <2> QED BY <1>1, <2>1, BackRename
<1>6. ASSUME NEW d \in Dirs PROVE at'[d] = at[d]
  <2>1. /\ d \in Nodes /\ g \in Files /\ d # g /\ Here[d] = at[d]
        /\ Tree(Here, Nodes) /\ Here \in [Nodes -> Paths] /\ DiskOK
    BY <1>1, ReleaseAssumption DEF Nodes, TreeInv, TypeOK, Here, HereOK, HereIs
  <2>2. ~IsPrefix(src, at[d])
    BY <2>1, OnlyTheFile
  <2>3. at' = Rehomed(at, src, dst)
    BY <2>1, MovedIs DEF Rename, DiskOK
  <2>4. at'[d] = Rehome(at[d], src, dst)
    BY <2>1, <2>3, Zenon DEF Rehomed
  <2> QED BY <2>2, <2>4 DEF Rehome
<1> QED BY <1>2, <1>3, <1>4, <1>5, <1>6

-----------------------------------------------------------------------------
(* Renaming files.                                                         *)

RunOK == HereOK /\ StartOK /\ PlanOK /\ UnplannedOK /\ KindsOK /\ BackOK

LEMMA PlanSame ==
  ASSUME Unplanned
  PROVE  /\ Planned' = Planned /\ Blocking(plan)' = Blocking(plan)
         /\ \A f : Intermediate(plan, f)' = Intermediate(plan, f)
BY DEF Unplanned, Planned, Blocking, Moving, Intermediate

LEMMA HereOf ==
  ASSUME TreeInv, NEW f \in Planned
  PROVE  /\ f \in Files /\ f \in Nodes /\ tracked[f] \in Paths
         /\ Here[f] = IF second = NoRename THEN tracked[f]
                      ELSE Follow(tracked[f], J.src, J.dst, J.dir)
BY ReleaseAssumption DEF TreeInv, TypeOK, Here, Nodes

LEMMA FreshForFolders ==
  ASSUME TreeInv, PlanOK, FilesOK, phase \in {"vacate", "files"}, Unused # {},
         NEW p \in Paths, p # Gone
  PROVE  Last(Temporary(p)) \notin DirKind
<1> DEFINE t == Last(Temporary(p))
<1>1. /\ t \notin RootNames \cup SeasonNames /\ \A n \in Present : t # Last(at[n])
      /\ \A i \in 1..Len(journal) : t # Last(journal[i].src) /\ t # Last(journal[i].dst)
  BY Fresh
<1> HIDE DEF t
<1>2. \A d \in Dirs : d \in Present
  BY ReleaseAssumption DEF Present, TreeInv, DiskOK, Nodes
<1>3. ASSUME NEW d \in DOMAIN plan.dir PROVE t # Last(d)
  <2>1. PICK e \in Dirs : start[e] = d
    BY DEF PlanOK
  <2>2. at[e] = d
    BY <2>1 DEF FilesOK
  <2> QED BY <1>1, <1>2, <2>2
<1>4. t \notin DirKind
  BY <1>1, <1>2, <1>3 DEF DirKind
<1> QED BY <1>4 DEF t

LEMMA RunVacate ==
  ASSUME TreeInv, RunOK, FilesOK, NEW f \in Files, Vacate(f)
  PROVE  RunOK' /\ FilesOK'
<1> DEFINE src == tracked[f]
           mid == Temporary(tracked[f])
<1>1. /\ phase = "vacate" /\ f \in todo /\ Unused # {}
      /\ Rename(src, mid, FALSE) /\ tracked' = [tracked EXCEPT ![f] = mid]
      /\ todo' = todo \ {f} /\ phase' = phase /\ second' = second /\ Along
  BY DEF Vacate, Running, wizard, Along, Unplanned
<1>2. /\ second = NoRename /\ f \in Planned /\ tracked \in [Planned -> Paths]
      /\ src \in Paths /\ src # Gone
  BY <1>1 DEF TreeInv, TypeOK, HalfOK, TodoOK, TrackedInPlace, Siblings
<1>3. /\ Planned' = Planned /\ Blocking(plan)' = Blocking(plan)
      /\ \A g : Intermediate(plan, g)' = Intermediate(plan, g)
  BY <1>1, PlanSame DEF Along
<1>4. /\ mid \in Paths /\ Siblings(src, mid) /\ Last(mid) \in Spare
      /\ Last(mid) \notin DirKind
  BY <1>1, <1>2, Fresh, FreshForFolders DEF RunOK
<1>5. \A n \in Nodes : Here[n] # mid
  BY <1>1, <1>2, FreshHere DEF RunOK
<1> HIDE DEF mid
<1>6. \A g \in Planned : g \in Files /\ g \in Nodes /\ Here[g] = tracked[g]
  BY <1>2, HereOf
<1>7. ASSUME NEW g \in Planned, tracked[g] = src PROVE g = f
  <2>1. Tree(Here, Nodes)
    BY <1>1 DEF RunOK, HereOK, Forward
  <2> QED BY <1>2, <1>6, <1>7, <2>1 DEF Tree
<1>8. \A g \in Planned : Here'[g] = Follow(Here[g], src, mid, FALSE)
  <2> SUFFICES ASSUME NEW g \in Planned PROVE Here'[g] = Follow(Here[g], src, mid, FALSE)
    OBVIOUS
  <2>1. Here'[g] = tracked'[g]
    BY <1>1, <1>2, <1>3, <1>6, ReleaseAssumption DEF Here
  <2>2. tracked'[g] = IF g = f THEN mid ELSE tracked[g]
    BY <1>1, <1>2
  <2> QED BY <1>6, <1>7, <2>1, <2>2 DEF Follow
<1>9. /\ HereOK' /\ StartOK' /\ PlanOK' /\ UnplannedOK' /\ KindsOK' /\ BackOK'
      /\ \A d \in Dirs : at'[d] = at[d]
  <2>1. Last(src) \in FileKind
    BY <1>2 DEF FileKind
  <2>2. \A g \in Planned : Last(tracked'[g]) \in {Last(tracked[g]), Last(mid)}
    BY <1>1, <1>2
  <2>3. Here[f] = src /\ \A g \in taken : Here[g] # mid
    BY <1>2, <1>5, <1>6 DEF TreeInv, TypeOK, Nodes
  <2> HIDE DEF src
  <2> QED BY <1>1, <1>2, <1>4, <1>8, <2>1, <2>2, <2>3, FileStep DEF RunOK
<1>10. FilesOK'
  <2>1. \A d \in Dirs : at'[d] = start'[d]
    BY <1>1, <1>9 DEF FilesOK, Along
  <2>2. todo' \subseteq Blocking(plan)'
    BY <1>1, <1>3 DEF FilesOK
  <2>3. ASSUME NEW g \in Planned
        PROVE  IF g \in Blocking(plan) /\ g \notin todo' THEN Last(tracked'[g]) \in Spare
               ELSE tracked'[g] = start'[g]
    <3>1. IF g \in Blocking(plan) /\ g \notin todo THEN Last(tracked[g]) \in Spare
          ELSE tracked[g] = start[g]
      BY <1>1 DEF FilesOK
    <3>2. f \in Blocking(plan)
      BY <1>1 DEF FilesOK
    <3>3. tracked'[g] = IF g = f THEN mid ELSE tracked[g]
      BY <1>1, <1>2
    <3> QED BY <1>1, <1>4, <3>1, <3>2, <3>3 DEF Along
  <2> QED BY <1>1, <1>2, <1>3, <2>1, <2>2, <2>3 DEF FilesOK
<1> QED BY <1>9, <1>10 DEF RunOK

LEMMA ReplaySame ==
  ASSUME TypeOK, JournalOK, journal' = journal, known' = known, plan' = plan
  PROVE  Replay' = Replay
<1>1. Len(journal) \in Nat /\ Planned' = Planned
  BY LenProperties DEF JournalOK, Planned
<1>2. PICK h : Chain(h, Len(journal))
  BY ReplayType DEF TypeOK
<1>3. Chain(h, Len(journal))'
  BY <1>1, <1>2 DEF Chain, Replayed
<1> QED BY <1>1, <1>2, <1>3, ReplayIs, ReplayIsNext

\* A step that renames nothing.
LEMMA RunSame ==
  ASSUME TreeInv, RunOK, Unplanned, start' = start, scattered' = scattered,
         taken \subseteq taken', phase # "idle", Forward' => Forward,
         \A d \in Dirs : at'[d] = at[d], \A n \in Present' : at'[n] = at[n],
         tracked' = tracked, journal' = journal, second' = second
  PROVE  RunOK'
<1>1. TypeOK /\ JournalOK
  BY DEF TreeInv
<1>2. /\ Planned' = Planned /\ Present' \subseteq Present /\ plan' = plan /\ known' = known
      /\ complete' = complete
  BY DEF Unplanned, Planned, Present
<1>3. Here' = Here
  <2>1. J' = J
    BY DEF J
  <2> QED BY <1>2, <2>1 DEF Here
<1>4. HereOK'
  <2>1. HereIs => HereIs'
    BY <1>2, <1>3 DEF HereIs, Shape
  <2>2. Tree(Here, Nodes)' <=> Tree(Here, Nodes)
    BY <1>3 DEF Tree
  <2>3. Replay' = Replay
    BY <1>1, <1>2, ReplaySame
  <2> QED BY <1>2, <1>3, <2>1, <2>2, <2>3 DEF RunOK, HereOK
<1>5. StartOK' /\ PlanOK'
  BY StartKept DEF RunOK, Unplanned
<1>6. UnplannedOK'
  BY <1>2 DEF RunOK, UnplannedOK
<1>7. KindsOK'
  <2>1. FileKind' = FileKind
    BY <1>2 DEF FileKind
  <2>2. DirKind' = DirKind
    BY <1>2 DEF DirKind
  <2> QED BY <2>1, <2>2 DEF RunOK, KindsOK
<1>8. BackOK'
  BY <1>2, BackSame DEF RunOK
<1> QED BY <1>4, <1>5, <1>6, <1>7, <1>8 DEF RunOK

\* The first new path of a file: its new name in the folder it was in.
LEMMA PlanPlace ==
  ASSUME TreeInv, StartOK, PlanOK, phase # "idle", NEW f \in Planned
  PROVE  /\ Intermediate(plan, f) = Append(Parent(start[f]), Last(plan.file[f]))
         /\ Intermediate(plan, f) \in Paths /\ Siblings(Intermediate(plan, f), start[f])
         /\ Last(Intermediate(plan, f)) = Last(plan.file[f]) /\ Last(plan.file[f]) \in FileNames
         /\ known[f] = start[f] /\ start[f] # Gone
<1>1. /\ f \in Files /\ f \in Nodes /\ known[f] \in Paths /\ known[f] = start[f]
      /\ \A d \in DOMAIN plan.dir : plan.dir[d] \in Names
  BY DEF TreeInv, TypeOK, StartOK, Nodes
<1>2. start[f] # Gone
  BY <1>1 DEF StartOK, Tree
<1> DEFINE n == Last(plan.file[f])
<1>3. /\ n \in FileNames /\ n \in Names
      /\ plan.file[f] = Append(Located(Parent(known[f]), plan.dir), n)
  BY <1>1, NamesIn DEF PlanOK
<1> HIDE DEF n
<1>4. /\ Intermediate(plan, f) = Append(Parent(known[f]), n)
      /\ Intermediate(plan, f) \in Paths /\ Siblings(Intermediate(plan, f), known[f])
  BY <1>1, <1>2, <1>3, IntermediateIs
<1>5. Last(Append(Parent(known[f]), n)) = n
  <2>1. Parent(known[f]) \in Paths
    BY <1>1, FrontIs DEF Parent
  <2> QED BY <1>3, <2>1, AppendIs
<1> QED BY <1>1, <1>2, <1>3, <1>4, <1>5 DEF n

\* The name a planned file gets is no other file's, even one that is gone.
LEMMA TargetFree ==
  ASSUME TreeInv, RunOK, FilesOK, phase = "files", NEW f \in Planned, NEW g \in Files,
         Here[g] = Intermediate(plan, f),
         IF second = NoRename THEN f \in todo ELSE f \notin todo /\ tracked[f] = J.src
  PROVE  Here[f] = Intermediate(plan, f)
<1>1. /\ g \in Nodes /\ f \in Files /\ f \in Nodes /\ Planned \subseteq Files
      /\ known[g] = start[g] /\ known[f] = start[f]
      /\ Last(Intermediate(plan, f)) \in FileNames /\ Tree(start, Nodes)
  BY PlanPlace DEF TreeInv, TypeOK, RunOK, StartOK, Nodes
<1>2. second # NoRename => ~J.dir
  BY DEF TreeInv, HalfOK, J, Op
<1>3. CASE g \notin Planned
  <2>1. Here[g] = start[g]
    BY <1>1, <1>3, ReleaseAssumption DEF Here
  <2> QED BY <1>1, <1>3, <2>1 DEF RunOK, PlanOK
<1>4. CASE g \in Planned /\ Halfway(g)
  <2>1. Here[g] = J.dst /\ Here[f] = J.dst
    BY <1>2, <1>4, HereOf DEF Halfway, Follow
  <2> QED BY <2>1
<1>5. CASE g \in Planned /\ ~Halfway(g)
  <2>1. Here[g] = tracked[g]
    BY <1>2, <1>5, HereOf DEF Halfway, Follow
  <2>2. CASE g \notin todo
    <3>1. tracked[g] = Intermediate(plan, g)
      BY <1>5, <2>2 DEF FilesOK
    <3> QED BY <1>5, <2>1, <3>1 DEF RunOK, PlanOK
  <2>3. CASE g \in todo /\ g \in Blocking(plan)
    <3>1. Last(tracked[g]) \in Spare
      BY <1>5, <2>3 DEF FilesOK
    <3> QED BY <1>1, <2>1, <3>1, ReleaseAssumption
  <2>4. CASE g \in todo /\ g \notin Blocking(plan)
    <3>1. tracked[g] = start[g]
      BY <1>5, <2>4 DEF FilesOK
    <3>2. Intermediate(plan, f) = known[g]
      BY <1>1, <2>1, <3>1
    <3>3. Intermediate(plan, f) = known[f]
      BY <1>5, <2>4, <3>2 DEF Blocking, Moving, Planned
    <3>4. g = f
      BY <1>1, <3>2, <3>3 DEF Tree
    <3> QED BY <3>4
  <2> QED BY <2>2, <2>3, <2>4
<1> QED BY <1>3, <1>4, <1>5

LEMMA RunRenameFile ==
  ASSUME TreeInv, RunOK, FilesOK, NEW f \in Files, RenameFile(f)
  PROVE  RunOK' /\ FilesOK'
<1> DEFINE src == tracked[f]
           dst == Intermediate(plan, f)
<1>1. /\ phase = "files" /\ second = NoRename /\ f \in todo
      /\ todo' = todo \ {f} /\ phase' = phase /\ Along
      /\ IF src = dst THEN UNCHANGED <<at, journal, second, tracked>>
                      ELSE RenameJournaled(src, dst, FALSE)
  BY DEF RenameFile, Running, wizard, Along, Unplanned
<1>2. /\ f \in Planned /\ tracked \in [Planned -> Paths]
      /\ src \in Paths /\ src # Gone /\ Forward
  BY <1>1 DEF TreeInv, TypeOK, TodoOK, TrackedInPlace, Siblings, Forward
<1>3. /\ Planned' = Planned /\ Blocking(plan)' = Blocking(plan)
      /\ \A g : Intermediate(plan, g)' = Intermediate(plan, g)
  BY <1>1, PlanSame DEF Along
<1>4. /\ dst \in Paths /\ Last(dst) \in FileNames /\ Siblings(src, dst)
  <2>1. known[f] = start[f] /\ Siblings(tracked[f], known[f])
    BY <1>1, <1>2, PlanPlace DEF RunOK, TreeInv, TrackedInPlace
  <2> QED BY <1>1, <1>2, <2>1, PlanPlace DEF RunOK, Siblings
<1>5. \A g \in Planned : g \in Files /\ g \in Nodes /\ Here[g] = tracked[g]
  BY <1>1, HereOf
<1>6. ASSUME NEW g \in Planned, tracked[g] = src PROVE g = f
  <2>1. Tree(Here, Nodes)
    BY <1>2 DEF RunOK, HereOK
  <2> QED BY <1>2, <1>5, <1>6, <2>1 DEF Tree
<1>7. /\ Last(src) \in FileKind /\ Last(dst) \notin DirKind
  BY <1>2, <1>4 DEF FileKind, KindsOK, RunOK
<1>8. /\ \A d \in Dirs : at[d] = start[d]
      /\ \A g \in Planned : IF g \notin todo THEN tracked[g] = Intermediate(plan, g)
           ELSE IF g \in Blocking(plan) THEN Last(tracked[g]) \in Spare
           ELSE tracked[g] = start[g]
  BY <1>1 DEF FilesOK, Halfway
<1>9. start' = start
  BY <1>1 DEF Along
<1>10. ASSUME src # dst, NEW g \in taken PROVE Here[g] # dst
  <2>1. g \in Files
    BY DEF TreeInv, TypeOK
  <2> QED BY <1>1, <1>2, <1>5, <1>10, <2>1, TargetFree
<1>11. ASSUME RunOK', \A d \in Dirs : at'[d] = at[d], second' = NoRename,
              \A g \in Planned : tracked'[g] = IF g = f THEN dst ELSE tracked[g]
       PROVE  RunOK' /\ FilesOK'
  <2>1. \A d \in Dirs : at'[d] = start'[d]
    BY <1>8, <1>9, <1>11
  <2>2. ASSUME NEW g \in Planned
        PROVE  IF g \notin todo' THEN tracked'[g] = Intermediate(plan, g)
               ELSE IF g \in Blocking(plan) THEN Last(tracked'[g]) \in Spare
               ELSE tracked'[g] = start'[g]
    BY <1>1, <1>8, <1>9, <1>11
  <2> QED BY <1>1, <1>3, <1>11, <2>1, <2>2 DEF FilesOK, Halfway
<1>12. CASE src = dst
  <2>1. at' = at /\ journal' = journal /\ second' = second /\ tracked' = tracked
    BY <1>1, <1>12
  <2>2. RunOK'
    BY <1>1, <1>2, <2>1, RunSame DEF Along, Forward, Present
  <2> QED BY <1>1, <1>11, <1>12, <2>1, <2>2
<1>13. CASE src # dst /\ ~CaseOnly(src, dst)
  <2>1. /\ Rename(src, dst, FALSE) /\ second' = second
        /\ tracked' = Followed(src, dst, FALSE)
    BY <1>1, <1>13 DEF RenameJournaled
  <2>2. \A g \in Planned : tracked'[g] = IF g = f THEN dst ELSE tracked[g]
    BY <1>6, <2>1 DEF Followed, Follow
  <2>3. \A g \in Planned : Here'[g] = Follow(Here[g], src, dst, FALSE)
    <3> SUFFICES ASSUME NEW g \in Planned PROVE Here'[g] = Follow(Here[g], src, dst, FALSE)
      OBVIOUS
    <3>1. Here'[g] = tracked'[g]
      BY <1>1, <1>3, <1>5, <2>1, ReleaseAssumption DEF Here
    <3> QED BY <1>5, <1>6, <2>2, <3>1 DEF Follow
  <2>4. \A g \in Planned : Last(tracked'[g]) \in {Last(tracked[g]), Last(dst)}
    BY <2>2
  <2>5. /\ RunOK' /\ \A d \in Dirs : at'[d] = at[d]
    <3>1. Here[f] = src /\ \A g \in taken : Here[g] # dst
      BY <1>2, <1>5, <1>10, <1>13
    <3> HIDE DEF src, dst
    <3> QED BY <1>1, <1>2, <1>4, <1>7, <2>1, <2>3, <2>4, <3>1, FileStep DEF RunOK
  <2> QED BY <1>1, <1>11, <2>1, <2>2, <2>5
<1>14. CASE src # dst /\ CaseOnly(src, dst)
  <2> DEFINE mid == Temporary(src)
  <2>1. /\ Rename(src, mid, FALSE) /\ tracked' = tracked /\ Unused # {}
        /\ second' = [src |-> mid, dst |-> dst, dir |-> FALSE]
    BY <1>1, <1>14 DEF RenameJournaled
  <2>2. /\ mid \in Paths /\ Siblings(src, mid) /\ Last(mid) \notin DirKind
    BY <1>1, <1>2, <2>1, Fresh, FreshForFolders DEF RunOK
  <2>3. \A n \in Nodes : Here[n] # mid
    BY <1>1, <1>2, <2>1, FreshHere DEF RunOK
  <2> HIDE DEF mid
  <2>4. /\ J'.src = src /\ J'.dst = mid /\ J'.dir = FALSE /\ second' # NoRename
        /\ second'.dst = dst
    <3>1. /\ Last(journal') = [src |-> src, dst |-> mid, dir |-> FALSE]
      BY <1>2, <2>1, <2>2, JournalGrows DEF Rename, TreeInv
    <3>2. second' # NoRename /\ second'.dst = dst
      BY <1>4, <2>1 DEF NoRename, Siblings
    <3> QED BY <3>1, <3>2 DEF J
  <2>5. \A g \in Planned : Here'[g] = Follow(Here[g], src, mid, FALSE)
    <3> SUFFICES ASSUME NEW g \in Planned PROVE Here'[g] = Follow(Here[g], src, mid, FALSE)
      OBVIOUS
    <3>1. Here'[g] = Follow(tracked'[g], J'.src, J'.dst, J'.dir)
      BY <1>3, <1>5, <2>4, ReleaseAssumption DEF Here
    <3> QED BY <1>5, <2>1, <2>4, <3>1
  <2>6. /\ RunOK' /\ \A d \in Dirs : at'[d] = at[d]
    <3>1. /\ Here[f] = src /\ \A g \in taken : Here[g] # mid
          /\ \A g \in Planned : Last(tracked'[g]) \in {Last(tracked[g]), Last(mid)}
      BY <1>2, <1>5, <2>1, <2>3 DEF TreeInv, TypeOK, Nodes
    <3> HIDE DEF src, dst
    <3> QED BY <1>1, <1>2, <1>7, <2>1, <2>2, <2>5, <3>1, FileStep DEF RunOK
  <2>7. FilesOK'
    <3>1. \A d \in Dirs : at'[d] = start'[d]
      BY <1>8, <1>9, <2>6
    <3>2. \A g \in Planned : Halfway(g)' <=> g = f
      BY <1>6, <2>1, <2>4 DEF Halfway
    <3>3. ASSUME NEW g \in Planned
          PROVE  IF g \notin todo' /\ ~Halfway(g)' THEN tracked'[g] = Intermediate(plan, g)
                 ELSE IF g \in Blocking(plan) THEN Last(tracked'[g]) \in Spare
                 ELSE tracked'[g] = start'[g]
      BY <1>1, <1>8, <1>9, <2>1, <3>2
    <3>4. /\ f \in Planned' \ todo' /\ tracked'[f] = J'.src
          /\ second'.dst = Intermediate(plan, f)'
      BY <1>1, <1>2, <1>3, <2>1, <2>4
    <3>5. \A g \in Planned : tracked'[g] # J'.dst
      BY <1>5, <2>1, <2>3, <2>4
    <3> QED BY <1>1, <1>3, <3>1, <3>3, <3>4, <3>5 DEF FilesOK
  <2> QED BY <2>6, <2>7
<1> QED BY <1>12, <1>13, <1>14

LEMMA HalfIs ==
  ASSUME TreeInv, second # NoRename
  PROVE  /\ J \in Op /\ Len(journal) \in 1..Len(journal) /\ J = journal[Len(journal)]
         /\ J.src \in Paths /\ J.dst \in Paths /\ J.dir \in BOOLEAN
         /\ second.dst \in Paths /\ second.src = J.dst /\ second.dir = J.dir
         /\ Siblings(J.src, J.dst) /\ Siblings(J.dst, second.dst)
         /\ Siblings(J.src, second.dst) /\ (J.dir <=> phase = "folders")
         /\ phase \in {"files", "folders"}
<1>1. /\ journal \in Seq(Op) /\ journal # <<>> /\ second \in Op
      /\ second.src = J.dst /\ second.dir = J.dir
      /\ Siblings(second.src, second.dst) /\ phase \in {"files", "folders"}
      /\ (second.dir <=> phase = "folders")
  BY DEF TreeInv, HalfOK, JournalOK, J
<1>2. Len(journal) \in 1..Len(journal)
  BY <1>1, EmptySeq, LenProperties
<1>3. J = journal[Len(journal)] /\ J \in Op
  BY <1>1, <1>2, ElementOfSeq DEF J, Last
<1>4. Siblings(J.src, J.dst)
  BY <1>2, <1>3 DEF TreeInv, JournalOK
<1> QED BY <1>1, <1>2, <1>3, <1>4 DEF Op, Siblings

LEMMA RunSecondFile ==
  ASSUME TreeInv, RunOK, FilesOK, SecondHalf, phase = "files"
  PROVE  RunOK' /\ FilesOK'
<1> DEFINE src == J.dst
           dst == second.dst
<1>1. /\ second # NoRename /\ second' = NoRename /\ Along /\ phase' = phase /\ todo' = todo
      /\ Rename(second.src, second.dst, second.dir)
      /\ tracked' = Followed(J.src, second.dst, second.dir)
  BY DEF SecondHalf, Running, wizard, Along, Unplanned, J
<1>2. /\ ~J.dir /\ J.src \in Paths /\ src \in Paths /\ dst \in Paths
      /\ Siblings(src, dst) /\ Siblings(J.src, dst) /\ second.src = src /\ second.dir = FALSE
      /\ Len(journal) \in 1..Len(journal) /\ J = journal[Len(journal)]
      /\ tracked \in [Planned -> Paths]
  BY <1>1, HalfIs DEF TreeInv, TypeOK
<1>3. /\ Planned' = Planned /\ Blocking(plan)' = Blocking(plan)
      /\ \A g : Intermediate(plan, g)' = Intermediate(plan, g)
  BY <1>1, PlanSame DEF Along
<1>4. /\ \A d \in Dirs : at[d] = start[d]
      /\ \A g \in Planned : IF g \notin todo /\ tracked[g] # J.src
           THEN tracked[g] = Intermediate(plan, g)
           ELSE IF g \in Blocking(plan) THEN Last(tracked[g]) \in Spare
           ELSE tracked[g] = start[g]
      /\ \A g \in Planned : tracked[g] # J.dst
  BY <1>1 DEF FilesOK, Halfway
<1>5. PICK f \in Planned \ todo : tracked[f] = J.src /\ dst = Intermediate(plan, f)
  BY <1>1 DEF FilesOK
<1>6. \A g \in Planned : g \in Files /\ g \in Nodes
        /\ Here[g] = IF tracked[g] = J.src THEN src ELSE tracked[g]
  BY <1>1, <1>2, HereOf DEF Follow
<1>7. ASSUME NEW g \in Planned, tracked[g] = J.src PROVE g = f
  <2>1. Tree(Here, Nodes)
    BY DEF RunOK, HereOK, Forward
  <2> QED BY <1>5, <1>6, <1>7, <2>1 DEF Tree
<1>8. \A g \in Planned : tracked'[g] = IF g = f THEN dst ELSE tracked[g]
  <2> SUFFICES ASSUME NEW g \in Planned PROVE tracked'[g] = IF g = f THEN dst ELSE tracked[g]
    OBVIOUS
  <2>1. tracked'[g] = Follow(tracked[g], J.src, second.dst, second.dir)
    BY <1>1 DEF Followed
  <2> QED BY <1>2, <1>5, <1>7, <2>1 DEF Follow
<1>9. \A g \in Planned : Here'[g] = Follow(Here[g], src, dst, FALSE)
  <2> SUFFICES ASSUME NEW g \in Planned PROVE Here'[g] = Follow(Here[g], src, dst, FALSE)
    OBVIOUS
  <2>1. Here'[g] = tracked'[g]
    BY <1>1, <1>3, <1>6, ReleaseAssumption DEF Here
  <2> QED BY <1>4, <1>5, <1>6, <1>7, <1>8, <2>1 DEF Follow
<1>10. Last(dst) \in FileNames
  BY <1>5, PlanPlace DEF RunOK
<1>11. Last(src) \in FileKind /\ Last(dst) \notin DirKind
  <2>1. Last(src) \in FileKind
    BY <1>2 DEF FileKind
  <2> QED BY <1>10, <2>1 DEF FileKind, KindsOK, RunOK
<1>12. src = dst \/ \A g \in taken : Here[g] # dst
  <2> SUFFICES ASSUME NEW g \in taken, Here[g] = dst PROVE src = dst
    OBVIOUS
  <2>1. g \in Files
    BY DEF TreeInv, TypeOK
  <2>2. Here[f] = dst
    BY <1>1, <1>5, <2>1, TargetFree
  <2> QED BY <1>5, <1>6, <2>2
<1>13. RunOK' /\ \A d \in Dirs : at'[d] = at[d]
  <2>1. \A g \in Planned : Last(tracked'[g]) \in {Last(tracked[g]), Last(dst)}
    BY <1>8
  <2>2. f \in Planned /\ Here[f] = src /\ Rename(src, dst, FALSE)
    BY <1>1, <1>2, <1>5, <1>6
  <2> HIDE DEF src, dst
  <2> QED BY <1>1, <1>2, <1>9, <1>11, <1>12, <2>1, <2>2, FileStep DEF RunOK
<1>14. FilesOK'
  <2>1. \A d \in Dirs : at'[d] = start'[d]
    BY <1>1, <1>4, <1>13 DEF Along
  <2>2. ASSUME NEW g \in Planned
        PROVE  IF g \notin todo' THEN tracked'[g] = Intermediate(plan, g)
               ELSE IF g \in Blocking(plan) THEN Last(tracked'[g]) \in Spare
               ELSE tracked'[g] = start'[g]
    BY <1>1, <1>4, <1>5, <1>7, <1>8 DEF Along
  <2> QED BY <1>1, <1>3, <2>1, <2>2 DEF FilesOK, Halfway
<1> QED BY <1>13, <1>14

-----------------------------------------------------------------------------
(* Renaming folders.                                                       *)

\* One more folder gets its name, after those below it and beside it.
OneMore(names, more, d, p) ==
  /\ \A e \in DOMAIN names : /\ names[e] \in Names /\ more[e] = names[e]
                             /\ e \in Paths /\ Len(d) <= Len(e)
  /\ d # Gone /\ d \notin DOMAIN names /\ DOMAIN more = DOMAIN names \cup {d}
  /\ more[d] \in Names
  /\ \A e \in DOMAIN names : IsPrefix(e, p) => Located(e, names) # d

\* Giving one more folder its new name moves what is in it.
LEMMA OneMoreName ==
  ASSUME NEW names, NEW more, NEW d \in Paths, NEW p \in Paths, OneMore(names, more, d, p)
  PROVE  Located(p, more) = Rehome(Located(p, names), d, Append(Parent(d), more[d]))
<1> USE DEF OneMore
<1> DEFINE dst == Append(Parent(d), more[d])
           name == more[d]
           q == Located(p, names)
           r == Rehome(q, d, dst)
           l == Len(d)
<1>1. /\ dst \in Paths /\ Siblings(d, dst) /\ Len(dst) = l /\ l \in Nat /\ l > 0 /\ dst[l] = name
  <2>1. /\ Parent(d) \in Paths /\ Len(Parent(d)) = l - 1 /\ l \in 1..l /\ l \in Nat
    BY FrontIs, PathFacts DEF Parent
  <2> QED BY <2>1, AppendIs DEF Siblings, Parent
<1>2. /\ q \in Paths /\ Len(q) = Len(p) /\ Len(p) \in Nat
      /\ \A k \in 1..Len(p) : q[k] =
           IF SubSeq(p, 1, k) \in DOMAIN names THEN names[SubSeq(p, 1, k)] ELSE p[k]
  BY LocatedIs, PathFacts
<1>3. /\ Located(p, more) \in Paths /\ Len(Located(p, more)) = Len(p)
      /\ \A k \in 1..Len(p) : Located(p, more)[k] =
           IF SubSeq(p, 1, k) \in DOMAIN more THEN more[SubSeq(p, 1, k)] ELSE p[k]
  <2>1. \A e \in DOMAIN more : more[e] \in Names
    OBVIOUS
  <2> QED BY <2>1, LocatedIs
<1> HIDE DEF dst, q, r, l
<1>0. \A e \in DOMAIN names : e \in Paths /\ l <= Len(e) /\ Len(e) \in Nat
  BY PathFacts DEF l
<1>4. IsPrefix(d, q) <=> IsPrefix(d, p)
  <2>1. ASSUME NEW k \in 1..Len(p), k < l PROVE q[k] = p[k]
    <3>1. Len(SubSeq(p, 1, k)) = k /\ k \in Nat /\ ~(l <= k)
      BY <1>1, <1>2, <2>1, Initial
    <3>2. SubSeq(p, 1, k) \notin DOMAIN names
      BY <1>0, <3>1
    <3> QED BY <1>2, <3>2
  <2>2. CASE l > Len(p)
    BY <1>1, <1>2, <2>2, PrefixIs DEF l
  <2>3. CASE l <= Len(p) /\ SubSeq(p, 1, l) \notin DOMAIN names
    <3>1. l \in 1..Len(p) /\ q[l] = p[l]
      BY <1>1, <1>2, <2>3
    <3>2. \A k \in 1..l : k \in 1..Len(p) /\ (k = l \/ k < l)
      BY <1>1, <1>2, <2>3
    <3>3. \A k \in 1..l : q[k] = p[k]
      BY <2>1, <3>1, <3>2
    <3> QED BY <1>1, <1>2, <2>3, <3>3, PrefixIs DEF l
  <2>4. CASE l <= Len(p) /\ SubSeq(p, 1, l) \in DOMAIN names
    <3> DEFINE e == SubSeq(p, 1, l)
    <3>0. l \in 0..Len(p)
      BY <1>1, <1>2, <2>4
    <3>1. e \in Paths /\ Len(e) = l /\ e # d
      BY <2>4, <3>0, Initial
    <3> HIDE DEF e
    <3>2. IsPrefix(e, p)
      BY <3>0, <3>1, PrefixSubSeq DEF e
    <3>3. Located(e, names) = SubSeq(q, 1, l)
      BY <3>0, LocatedSubSeq DEF e, q
    <3>4. Located(e, names) # d
      BY <2>4, <3>2 DEF e
    <3>5. ~IsPrefix(d, q)
      BY <1>2, <3>3, <3>4, PrefixSubSeq DEF l
    <3>6. ~IsPrefix(d, p)
      BY <3>1, PrefixSubSeq DEF e, l
    <3> QED BY <3>5, <3>6
  <2> QED BY <1>1, <1>2, <2>2, <2>3, <2>4
<1>5. /\ r \in Paths /\ Len(r) = Len(p)
      /\ \A k \in 1..Len(p) : r[k] = IF IsPrefix(d, p) /\ k = l THEN dst[k] ELSE q[k]
  BY <1>1, <1>2, <1>4, RehomeIs DEF l, r
<1>6. ASSUME NEW k \in 1..Len(p) PROVE Located(p, more)[k] = r[k]
  <2>1. SubSeq(p, 1, k) = d <=> IsPrefix(d, p) /\ k = l
    <3>1. Len(SubSeq(p, 1, k)) = k
      BY <1>2, Initial
    <3>2. IsPrefix(d, p) <=> l \in 0..Len(p) /\ d = SubSeq(p, 1, l)
      BY PrefixSubSeq DEF l
    <3>3. k \in 0..Len(p)
      BY <1>2
    <3> QED BY <3>1, <3>2, <3>3 DEF l
  <2>2. CASE SubSeq(p, 1, k) = d
    <3>1. Located(p, more)[k] = name
      BY <1>3, <2>2
    <3>2. r[k] = name
      BY <1>1, <1>5, <2>1, <2>2
    <3> QED BY <3>1, <3>2
  <2>3. CASE SubSeq(p, 1, k) # d
    <3>1. r[k] = q[k]
      BY <1>5, <2>1, <2>3
    <3>2. Located(p, more)[k] = q[k]
      BY <1>2, <1>3, <2>3
    <3> QED BY <3>1, <3>2
  <2> QED BY <2>2, <2>3
<1>7. Located(p, more) = r
  BY <1>3, <1>5, <1>6, SamePath
<1> QED BY <1>7 DEF dst, q, r

\* What is not a folder itself moves with the folder it is in.
LEMMA RehomeAppend ==
  ASSUME NEW p \in Paths, NEW n \in Names, NEW src \in Paths, NEW dst \in Paths,
         Siblings(src, dst), Append(p, n) # src
  PROVE  Rehome(Append(p, n), src, dst) = Append(Rehome(p, src, dst), n)
<1> DEFINE a == Append(p, n)
           r == Rehome(p, src, dst)
           b == Append(r, n)
           l == Len(p)
<1>1. /\ a \in Paths /\ Len(a) = l + 1 /\ l \in Nat /\ a[l + 1] = n
      /\ \A k \in 1..l : a[k] = p[k]
  BY AppendIs, PathFacts
<1>2. /\ r \in Paths /\ Len(r) = l
      /\ \A k \in 1..l : r[k] = IF IsPrefix(src, p) /\ k = Len(src) THEN dst[k] ELSE p[k]
  BY RehomeIs
<1>3. /\ b \in Paths /\ Len(b) = l + 1 /\ b[l + 1] = n
      /\ \A k \in 1..l : b[k] = r[k]
  BY <1>2, AppendIs
<1> HIDE DEF a, b, r, l
<1>4. /\ Rehome(a, src, dst) \in Paths /\ Len(Rehome(a, src, dst)) = Len(a)
      /\ \A k \in 1..Len(a) : Rehome(a, src, dst)[k] =
           IF IsPrefix(src, a) /\ k = Len(src) THEN dst[k] ELSE a[k]
  BY <1>1, RehomeIs
<1>5. Len(src) \in Nat /\ (IsPrefix(src, a) => Len(src) # l + 1)
  <2>1. IsPrefix(src, a) /\ Len(src) = Len(a) => src = a
    BY <1>1, PrefixIs, SamePath
  <2> QED BY <1>1, <2>1, PathFacts DEF a
<1>6. IsPrefix(src, a) <=> IsPrefix(src, p)
  <2>1. IsPrefix(src, a) <=> Len(src) <= l + 1 /\ \A k \in 1..Len(src) : src[k] = a[k]
    BY <1>1, PrefixIs
  <2>2. IsPrefix(src, p) <=> Len(src) <= l /\ \A k \in 1..Len(src) : src[k] = p[k]
    BY PrefixIs DEF l
  <2> QED BY <1>1, <1>5, <2>1, <2>2
<1>7. ASSUME NEW k \in 1..Len(a) PROVE Rehome(a, src, dst)[k] = b[k]
  <2>1. k \in 1..l \/ k = l + 1
    BY <1>1
  <2>2. CASE k \in 1..l
    BY <1>1, <1>2, <1>3, <1>4, <1>6, <2>2
  <2>3. CASE k = l + 1
    BY <1>1, <1>3, <1>4, <1>5, <2>3
  <2> QED BY <2>1, <2>2, <2>3
<1>8. Rehome(a, src, dst) = b
  BY <1>1, <1>3, <1>4, <1>7, SamePath
<1> QED BY <1>8 DEF a, b, r

LEMMA LocatedSame ==
  ASSUME NEW p \in Paths, NEW names, \A e \in DOMAIN names : names[e] \in Names,
         \A e \in DOMAIN names : e \in Paths => ~IsPrefix(e, p)
  PROVE  Located(p, names) = p
<1>1. /\ Located(p, names) \in Paths /\ Len(Located(p, names)) = Len(p) /\ Len(p) \in Nat
      /\ \A k \in 1..Len(p) : Located(p, names)[k] =
           IF SubSeq(p, 1, k) \in DOMAIN names THEN names[SubSeq(p, 1, k)] ELSE p[k]
  BY LocatedIs, PathFacts
<1>2. ASSUME NEW k \in 1..Len(p) PROVE SubSeq(p, 1, k) \notin DOMAIN names
  <2> DEFINE e == SubSeq(p, 1, k)
  <2>1. k \in 0..Len(p) /\ e \in Paths /\ Len(e) = k
    <3>1. k \in 0..Len(p)
      BY <1>1
    <3> QED BY <3>1, Initial
  <2>2. IsPrefix(e, p)
    <3> HIDE DEF e
    <3> QED BY <2>1, PrefixSubSeq DEF e
  <2> QED BY <2>1, <2>2
<1> QED BY <1>1, <1>2, SamePath

LEMMA FolderFacts ==
  ASSUME TreeInv, StartOK, PlanOK, phase # "idle", NEW d \in DOMAIN plan.dir
  PROVE  /\ d \in Paths /\ d # Gone /\ plan.dir[d] \in Names
         /\ Append(Parent(d), plan.dir[d]) \in Paths
         /\ Siblings(d, Append(Parent(d), plan.dir[d]))
         /\ Last(Append(Parent(d), plan.dir[d])) = plan.dir[d]
         /\ Last(d) \in DirKind /\ plan.dir[d] \in DirKind
         /\ \E e \in Dirs : start[e] = d /\ e \in Nodes
<1>1. /\ d \in Paths /\ d # Gone /\ plan.dir[d] \in Names
  BY DEF TreeInv, TypeOK, PlanInPlace
<1>2. Parent(d) \in Paths
  BY <1>1, FrontIs DEF Parent
<1>3. Append(Parent(d), plan.dir[d]) \in Paths /\ Siblings(d, Append(Parent(d), plan.dir[d]))
      /\ Last(Append(Parent(d), plan.dir[d])) = plan.dir[d]
  BY <1>1, <1>2, AppendIs DEF Siblings, Parent
<1>4. Last(d) \in DirKind
  BY DEF DirKind
<1>5. plan.dir[d] \in DirKind
  BY DEF PlanOK, DirKind
<1>6. \E e \in Dirs : start[e] = d /\ e \in Nodes
  BY DEF PlanOK, Nodes
<1> QED BY <1>1, <1>3, <1>4, <1>5, <1>6

\* A file that is not planned is under no folder that gets a new name.
LEMMA NotUnderFolder ==
  ASSUME TreeInv, StartOK, PlanOK, phase # "idle", NEW d \in DOMAIN plan.dir,
         NEW u \in Files \ Planned
  PROVE  ~IsPrefix(d, known[u])
<1> SUFFICES ASSUME IsPrefix(d, start[u]) PROVE FALSE
  BY DEF StartOK
<1>1. /\ d \in Paths /\ u \in Nodes /\ start[u] \in Paths /\ start[u] # Gone
      /\ \A e \in DOMAIN plan.dir : plan.dir[e] \in Names
  BY FolderFacts DEF StartOK, Tree, Nodes, TreeInv, TypeOK
<1> DEFINE p == Parent(start[u])
<1>2. PICK e \in Dirs : start[e] = d /\ e \in Nodes
  BY FolderFacts
<1>3. d # start[u]
  BY <1>1, <1>2, ReleaseAssumption DEF StartOK, Tree
<1>4. /\ p \in Paths /\ Len(p) = Len(start[u]) - 1
      /\ \A k \in 1..(Len(start[u]) - 1) : p[k] = start[u][k]
  BY <1>1, FrontIs DEF Parent
<1> HIDE DEF p
<1>5. Len(d) <= Len(start[u]) /\ Len(d) # Len(start[u]) /\ \A k \in 1..Len(d) : d[k] = start[u][k]
  BY <1>1, <1>3, PrefixIs, SamePath
<1>6. IsPrefix(d, p)
  <2>1. Len(d) \in Nat /\ Len(start[u]) \in Nat
    BY <1>1, PathFacts
  <2>2. Len(d) <= Len(p) /\ \A k \in 1..Len(d) : d[k] = p[k]
    BY <1>4, <1>5, <2>1
  <2> QED BY <1>1, <1>4, <2>2, PrefixIs
<1>7. Len(d) \in 0..Len(p) /\ d = SubSeq(p, 1, Len(d))
  BY <1>1, <1>4, <1>6, PrefixSubSeq
<1>8. Located(d, plan.dir) = SubSeq(Located(p, plan.dir), 1, Len(d))
  <2>1. Located(SubSeq(p, 1, Len(d)), plan.dir) = SubSeq(Located(p, plan.dir), 1, Len(d))
    BY <1>1, <1>4, <1>7, LocatedSubSeq
  <2> QED BY <1>7, <2>1, Zenon
<1>9. Located(p, plan.dir) = p
  BY DEF PlanOK, p
<1>10. Located(d, plan.dir) = d
  BY <1>7, <1>8, <1>9, Zenon
<1>11. Located(d, plan.dir) # d
  BY DEF PlanOK
<1> QED BY <1>10, <1>11

LEMMA NotYetNamed ==
  ASSUME TreeInv, StartOK, PlanOK, phase # "idle", NEW d \in DOMAIN plan.dir,
         NEW done \in SUBSET DOMAIN plan.dir, d \notin done,
         \A e \in done : Len(d) <= Len(e)
  PROVE  Located(d, Restrict(plan.dir, done)) = d
<1> DEFINE names == Restrict(plan.dir, done)
<1>1. d \in Paths /\ \A e \in DOMAIN plan.dir : e \in Paths /\ plan.dir[e] \in Names
  BY FolderFacts DEF TreeInv, TypeOK
<1>2. DOMAIN names = done /\ \A e \in done : names[e] \in Names
  BY <1>1 DEF Restrict
<1> HIDE DEF names
<1>3. ASSUME NEW e \in done, IsPrefix(e, d) PROVE FALSE
  <2>1. Len(e) <= Len(d) /\ Len(d) <= Len(e) /\ Len(d) \in Nat /\ Len(e) \in Nat
        /\ \A k \in 1..Len(e) : e[k] = d[k]
    BY <1>1, <1>3, PrefixIs, PathFacts
  <2> QED BY <1>1, <2>1, SamePath
<1>4. Located(d, names) = d
  BY <1>1, <1>2, <1>3, LocatedSame
<1> QED BY <1>4 DEF names

\* The new names by the time d has its own.
LEMMA FolderMoves ==
  ASSUME TreeInv, StartOK, PlanOK, phase # "idle", NEW d \in DOMAIN plan.dir,
         NEW done \in SUBSET DOMAIN plan.dir, d \notin done,
         \A e \in done : Len(d) <= Len(e),
         \A e \in done : Located(e, Restrict(plan.dir, done)) # d,
         NEW p \in Paths
  PROVE  Located(p, Restrict(plan.dir, done \cup {d})) =
           Rehome(Located(p, Restrict(plan.dir, done)), d, Append(Parent(d), plan.dir[d]))
<1> DEFINE names == Restrict(plan.dir, done)
           more == Restrict(plan.dir, done \cup {d})
<1>1. /\ d \in Paths /\ d # Gone /\ plan.dir[d] \in Names
      /\ \A e \in DOMAIN plan.dir : e \in Paths /\ plan.dir[e] \in Names
  BY FolderFacts DEF TreeInv, TypeOK
<1>2. /\ DOMAIN names = done /\ \A e \in done : names[e] = plan.dir[e]
      /\ DOMAIN more = done \cup {d} /\ \A e \in done \cup {d} : more[e] = plan.dir[e]
  BY DEF Restrict
<1> HIDE DEF names, more
<1>3. /\ \A e \in DOMAIN names : /\ names[e] \in Names /\ more[e] = names[e]
                                    /\ e \in Paths /\ Len(d) <= Len(e)
      /\ d \notin DOMAIN names /\ DOMAIN more = DOMAIN names \cup {d}
      /\ more[d] \in Names /\ more[d] = plan.dir[d]
  BY <1>1, <1>2
<1>4. \A e \in DOMAIN names : IsPrefix(e, p) => Located(e, names) # d
  BY <1>2 DEF names
<1>5. OneMore(names, more, d, p)
  BY <1>1, <1>3, <1>4 DEF OneMore
<1>6. Located(p, more) = Rehome(Located(p, names), d, Append(Parent(d), more[d]))
  BY <1>1, <1>5, OneMoreName
<1> QED BY <1>3, <1>6, Zenon DEF names, more

LEMMA FolderStep ==
  ASSUME TreeInv, RunOK, Along, phase = "folders", phase' = phase,
         NEW src \in Paths, NEW dst \in Paths, Siblings(src, dst), Rename(src, dst, TRUE),
         \A u \in Files \ Planned : ~IsPrefix(src, known[u]),
         src = dst \/ \A f \in taken : Here[f] # dst,
         \A f \in Planned : Here'[f] = Rehome(Here[f], src, dst),
         Last(src) \in DirKind, Last(dst) \notin FileKind,
         \A f \in Planned : Last(tracked'[f]) = Last(tracked[f])
  PROVE  /\ RunOK'
         /\ \A d \in Dirs : at'[d] = Rehome(at[d], src, dst)
         /\ src = dst \/ \A n \in Nodes : ~IsPrefix(dst, Here[n])
<1>1. Forward /\ phase # "idle" /\ TRUE \in BOOLEAN
  BY DEF Forward
<1>2. /\ HereOK' /\ UnplannedOK' /\ Here' = Rehomed(Here, src, dst)
      /\ src = dst \/ \A n \in Nodes : ~IsPrefix(dst, Here[n])
  <2> DEFINE dir == TRUE
  <2>1. /\ ~dir => \E h \in Planned : Here[h] = src
        /\ dir => \A u \in Files \ Planned : ~IsPrefix(src, known[u])
        /\ \A f \in Planned : Here'[f] = Follow(Here[f], src, dst, dir)
        /\ dir \in BOOLEAN /\ Rename(src, dst, dir)
    BY DEF Follow
  <2> HIDE DEF dir
  <2> QED BY <1>1, <2>1, ForwardStep DEF RunOK
<1>3. StartOK' /\ PlanOK'
  BY <1>1, AlongKeeps DEF RunOK
<1>4. KindsOK'
  BY <1>1, KindsStep DEF RunOK
<1>5. BackOK'
  <2>1. complete /\ start' = start /\ taken' = taken
    BY <1>1 DEF RunOK, StartOK, Along
  <2> QED BY <1>1, <2>1, BackRename DEF RunOK
<1>6. \A d \in Dirs : at'[d] = Rehome(at[d], src, dst)
  <2>1. at' = Rehomed(at, src, dst)
    BY MovedIs DEF Rename, DiskOK, TreeInv
  <2> QED BY <2>1 DEF Rehomed, Nodes
<1> QED BY <1>2, <1>3, <1>4, <1>5, <1>6 DEF RunOK

LEMMA HereKind ==
  ASSUME TreeInv, KindsOK, NEW g \in Files
  PROVE  Last(Here[g]) \in FileKind
<1>1. CASE g \notin Planned
  <2>1. Here[g] = known[g]
    BY <1>1, ReleaseAssumption DEF Here, Nodes
  <2> QED BY <2>1 DEF FileKind
<1>2. CASE g \in Planned /\ second = NoRename
  BY <1>2, HereOf DEF FileKind
<1>3. CASE g \in Planned /\ second # NoRename
  <2>1. /\ J.src \in Paths /\ J.dst \in Paths /\ Siblings(J.src, J.dst) /\ J.dir \in BOOLEAN
        /\ Len(journal) \in 1..Len(journal) /\ J = journal[Len(journal)]
    BY <1>3, HalfIs
  <2>2. /\ Last(tracked[g]) \in FileKind /\ tracked[g] \in Paths
        /\ Here[g] = Follow(tracked[g], J.src, J.dst, J.dir)
    BY <1>3, HereOf DEF FileKind
  <2>3. CASE J.dir
    <3>1. Last(J.src) \in DirKind
      BY <2>1, <2>3 DEF DirKind
    <3>2. Here[g] = Rehome(tracked[g], J.src, J.dst) /\ tracked[g] # J.src
      BY <2>2, <2>3, <3>1 DEF Follow, KindsOK
    <3> QED BY <2>1, <2>2, <3>2, LastRehome
  <2>4. CASE ~J.dir
    <3>1. Last(J.dst) \in FileKind
      BY <2>1, <2>4 DEF FileKind
    <3> QED BY <2>2, <2>4, <3>1 DEF Follow
  <2> QED BY <2>1, <2>3, <2>4
<1> QED BY <1>1, <1>2, <1>3

\* No file that is gone would be where a folder's new name is.
LEMMA FolderTargetFree ==
  ASSUME TreeInv, RunOK, phase # "idle", NEW d \in DOMAIN plan.dir, NEW g \in Files
  PROVE  Here[g] # Append(Parent(d), plan.dir[d])
<1>1. Last(Append(Parent(d), plan.dir[d])) \in DirKind
  BY FolderFacts DEF RunOK
<1>2. Last(Here[g]) \in FileKind
  BY HereKind DEF RunOK
<1> QED BY <1>1, <1>2 DEF RunOK, KindsOK

LEMMA RunRenameFolder ==
  ASSUME TreeInv, RunOK, FoldersOK, NEW d \in DOMAIN plan.dir, RenameFolder(d)
  PROVE  RunOK' /\ FoldersOK'
<1> DEFINE dst == Append(Parent(d), plan.dir[d])
<1>1. /\ phase = "folders" /\ second = NoRename /\ d \in todo
      /\ \A e \in todo : Len(e) <= Len(d)
      /\ todo' = todo \ {d} /\ phase' = phase /\ Along
      /\ RenameJournaled(d, dst, TRUE)
  BY DEF RenameFolder, Running, wizard, Along, Unplanned
<1>2. /\ d \in Paths /\ d # Gone /\ dst \in Paths /\ Siblings(d, dst)
      /\ Last(d) \in DirKind /\ Last(dst) \in DirKind /\ Last(dst) = plan.dir[d]
      /\ tracked \in [Planned -> Paths] /\ Planned \subseteq Files /\ plan.dir[d] \in Names
  BY <1>1, FolderFacts DEF RunOK, TreeInv, TypeOK
<1>3. /\ Planned' = Planned /\ plan' = plan /\ start' = start
      /\ known' = known
  BY <1>1, PlanSame DEF Along, Unplanned
<1>4. /\ Done = DOMAIN plan.dir \ todo /\ todo \subseteq DOMAIN plan.dir
      /\ Done \in SUBSET DOMAIN plan.dir /\ d \notin Done
  BY <1>1 DEF Done, TreeInv, TodoOK
<1>5. /\ \A e \in Dirs : at[e] = Located(start[e], NewNames)
      /\ \A f \in Planned :
           tracked[f] = Append(Located(Parent(start[f]), NewNames), Last(plan.file[f]))
      /\ \A e \in Done, x \in todo : Len(x) <= Len(e)
  BY <1>1, <1>4 DEF FoldersOK
<1>6. /\ Tree(Here, Nodes) /\ Here \in [Nodes -> Paths]
      /\ \A e \in Dirs : Here[e] = at[e] /\ e \in Nodes
      /\ \A f \in Planned : Here[f] = tracked[f] /\ f \in Nodes
  <2>1. Forward /\ phase # "idle"
    BY <1>1 DEF Forward
  <2> QED BY <1>1, <2>1, HereOf DEF RunOK, HereOK, HereIs, Here, Nodes
<1>7. /\ \A e \in Done : Len(d) <= Len(e) /\ e \in Paths
      /\ DOMAIN NewNames = Done /\ \A e \in Done : NewNames[e] \in Names
  BY <1>1, <1>4, <1>5 DEF NewNames, Restrict, TreeInv, TypeOK
<1>8. Located(d, NewNames) = d
  BY <1>1, <1>4, <1>7, NotYetNamed DEF NewNames, RunOK
<1>9. ASSUME NEW e \in Done PROVE Located(e, NewNames) # d
  <2>1. PICK m \in Dirs : start[m] = d
    BY <1>1, FolderFacts DEF RunOK
  <2>2. PICK n \in Dirs : start[n] = e
    BY <1>1, <1>4, FolderFacts DEF RunOK
  <2>3. Located(e, NewNames) = d => Here[n] = Here[m]
    BY <1>5, <1>6, <1>8, <2>1, <2>2
  <2>4. Here[n] = Here[m] => n = m
    BY <1>6 DEF Tree
  <2> QED BY <1>4, <2>1, <2>2, <2>3, <2>4
<1>10. \A p \in Paths : Located(p, Restrict(plan.dir, Done \cup {d})) =
                          Rehome(Located(p, NewNames), d, dst)
  <2>1. \A e \in Done : Located(e, Restrict(plan.dir, Done)) # d
    BY <1>9 DEF NewNames
  <2>2. \A p \in Paths : Located(p, Restrict(plan.dir, Done \cup {d})) =
                           Rehome(Located(p, Restrict(plan.dir, Done)), d, dst)
    BY <1>1, <1>4, <1>7, <2>1, FolderMoves DEF RunOK
  <2> QED BY <2>2 DEF NewNames
<1>11. \A u \in Files \ Planned : ~IsPrefix(d, known[u])
  BY <1>1, NotUnderFolder DEF RunOK
<1>12. ASSUME NEW f \in Planned PROVE tracked[f] # d
  <2>1. Last(tracked[f]) \in FileKind
    BY DEF FileKind
  <2> QED BY <1>2, <2>1 DEF RunOK, KindsOK
<1>13. /\ \A n \in Nodes : start[n] \in Paths
       /\ \A f \in Planned : Parent(start[f]) \in Paths /\ Last(plan.file[f]) \in Names
  <2>1. \A n \in Nodes : start[n] \in Paths
    BY <1>1 DEF RunOK, StartOK
  <2>2. \A f \in Planned : Last(plan.file[f]) \in Names
    BY <1>1, NamesIn DEF RunOK, PlanOK
  <2> QED BY <1>6, <2>1, <2>2, FrontIs DEF Parent
<1>14. CASE ~CaseOnly(d, dst)
  <2>1. /\ Rename(d, dst, TRUE) /\ second' = second /\ tracked' = Followed(d, dst, TRUE)
    BY <1>1, <1>14 DEF RenameJournaled
  <2>2. \A f \in Planned : tracked'[f] = Rehome(tracked[f], d, dst)
    BY <2>1 DEF Followed, Follow
  <2>3. \A f \in Planned : Here'[f] = Rehome(Here[f], d, dst)
    <3>1. \A f \in Planned : Here'[f] = tracked'[f]
      BY <1>1, <1>2, <1>3, <1>6, <2>1, ReleaseAssumption DEF Here
    <3> QED BY <1>6, <2>2, <3>1
  <2>4. RunOK' /\ \A e \in Dirs : at'[e] = Rehome(at[e], d, dst)
    <3>1. /\ \A f \in Planned : Last(tracked'[f]) = Last(tracked[f])
          /\ \A f \in taken : Here[f] # dst
          /\ Last(dst) \notin FileKind
      <4>1. \A f \in Planned : Last(tracked'[f]) = Last(tracked[f])
        BY <1>2, <1>12, <2>2, LastRehome
      <4>2. \A f \in taken : Here[f] # dst
        BY <1>1, FolderTargetFree DEF TreeInv, TypeOK
      <4> QED BY <1>2, <4>1, <4>2 DEF RunOK, KindsOK
    <3> HIDE DEF dst
    <3> QED BY <1>1, <1>2, <1>11, <2>1, <2>3, <3>1, FolderStep
  <2>5. NewNames' = Restrict(plan.dir, Done \cup {d})
    <3>1. Done' = Done \cup {d}
      BY <1>1, <1>3, <1>4, <2>1 DEF Done
    <3> QED BY <1>3, <3>1, Zenon DEF NewNames
  <2>6. \A e \in Dirs : at'[e] = Located(start'[e], NewNames')
    BY <1>3, <1>5, <1>6, <1>10, <1>13, <2>4, <2>5
  <2>7. \A f \in Planned :
          tracked'[f] = Append(Located(Parent(start'[f]), NewNames'), Last(plan'.file[f]))
    <3> SUFFICES ASSUME NEW f \in Planned
        PROVE  tracked'[f] = Append(Located(Parent(start[f]), NewNames'), Last(plan.file[f]))
      BY <1>3
    <3> DEFINE q == Located(Parent(start[f]), NewNames)
               n == Last(plan.file[f])
    <3>1. q \in Paths /\ n \in Names /\ tracked[f] = Append(q, n)
      BY <1>5, <1>7, <1>13, LocatedIs
    <3>2. Rehome(q, d, dst) = Located(Parent(start[f]), NewNames')
      BY <1>10, <1>13, <2>5
    <3> HIDE DEF q, n
    <3>3. Append(q, n) # d
      BY <1>12, <3>1
    <3>4. Rehome(Append(q, n), d, dst) = Append(Rehome(q, d, dst), n)
      BY <1>2, <3>1, <3>3, RehomeAppend
    <3>5. tracked'[f] = Append(Located(Parent(start[f]), NewNames'), n)
      BY <2>2, <3>1, <3>2, <3>4
    <3> QED BY <3>5 DEF n
  <2>8. \A e \in DOMAIN plan'.dir \ todo', x \in todo' : Len(x) <= Len(e)
    BY <1>1, <1>3, <1>4, <1>5
  <2>9. FoldersOK'
    BY <1>1, <1>3, <2>1, <2>6, <2>7, <2>8 DEF FoldersOK
  <2> QED BY <2>4, <2>9
<1>15. CASE CaseOnly(d, dst)
  <2> DEFINE mid == Temporary(d)
  <2>1. /\ Rename(d, mid, TRUE) /\ tracked' = tracked /\ Unused # {}
        /\ second' = [src |-> mid, dst |-> dst, dir |-> TRUE]
    BY <1>1, <1>15 DEF RenameJournaled
  <2>2. /\ mid \in Paths /\ Siblings(d, mid) /\ Last(mid) \notin FileKind
    BY <1>1, <1>2, <2>1, Fresh
  <2>3. \A n \in Nodes : Here[n] # mid
    BY <1>1, <1>2, <2>1, FreshHere DEF RunOK
  <2> HIDE DEF mid
  <2>4. /\ J'.src = d /\ J'.dst = mid /\ J'.dir = TRUE /\ second' # NoRename
        /\ second'.dst = dst
    <3>1. /\ Last(journal') = [src |-> d, dst |-> mid, dir |-> TRUE]
      BY <1>2, <2>1, <2>2, JournalGrows DEF Rename, TreeInv
    <3>2. second' # NoRename /\ second'.dst = dst
      BY <1>2, <2>1 DEF NoRename, Siblings
    <3> QED BY <3>1, <3>2 DEF J
  <2>5. \A f \in Planned : Here'[f] = Rehome(Here[f], d, mid)
    <3> SUFFICES ASSUME NEW f \in Planned PROVE Here'[f] = Rehome(Here[f], d, mid)
      OBVIOUS
    <3>1. Here'[f] = Follow(tracked'[f], J'.src, J'.dst, J'.dir)
      BY <1>2, <1>3, <1>6, <2>4, ReleaseAssumption DEF Here
    <3> QED BY <1>6, <2>1, <2>4, <3>1 DEF Follow
  <2>6. /\ RunOK' /\ \A e \in Dirs : at'[e] = Rehome(at[e], d, mid)
        /\ \A n \in Nodes : ~IsPrefix(mid, Here[n])
    <3>1. /\ \A f \in taken : Here[f] # mid /\ d # mid
          /\ \A f \in Planned : Last(tracked'[f]) = Last(tracked[f])
      <4>1. \E m \in Dirs : Here[m] = d /\ m \in Nodes
        BY <1>1, <1>5, <1>6, <1>8, FolderFacts DEF RunOK
      <4> QED BY <2>1, <2>3, <4>1 DEF TreeInv, TypeOK, Nodes
    <3>2. d # mid
      BY <1>1, <1>5, <1>6, <1>8, <2>3, FolderFacts DEF RunOK
    <3> QED BY <1>1, <1>2, <1>11, <2>1, <2>2, <2>5, <3>1, <3>2, FolderStep
  <2>7. NewNames' = NewNames /\ Done' = Done
    <3>1. Done' = Done
      BY <1>1, <1>3, <1>4, <2>4 DEF Done
    <3> QED BY <1>3, <3>1, Zenon DEF NewNames
  <2>8. \A e \in Dirs : at'[e] = Rehome(Located(start'[e], NewNames'), J'.src, J'.dst)
    BY <1>3, <1>5, <2>4, <2>6, <2>7
  <2>9. \A f \in Planned :
          tracked'[f] = Append(Located(Parent(start'[f]), NewNames'), Last(plan'.file[f]))
    BY <1>3, <1>5, <2>1, <2>7
  <2>10. \A e \in DOMAIN plan'.dir \ todo', x \in todo' : Len(x) <= Len(e)
    BY <1>1, <1>3, <1>4, <1>5
  <2>11. /\ J'.src \in DOMAIN plan'.dir \ todo'
         /\ second'.dst = Append(Parent(J'.src), plan'.dir[J'.src])
         /\ \A e \in Done' : Len(J'.src) <= Len(e)
    BY <1>1, <1>3, <1>7, <2>4, <2>7
  <2>12. /\ \A e \in Dirs : ~IsPrefix(J'.dst, Located(start'[e], NewNames'))
         /\ \A f \in Planned : ~IsPrefix(J'.dst, tracked'[f])
         /\ \A f \in Files \ Planned : ~IsPrefix(J'.dst, start'[f])
    <3>1. \A u \in Files \ Planned : Here[u] = start[u] /\ u \in Nodes
      BY <1>1, ReleaseAssumption DEF RunOK, StartOK, Here, Nodes
    <3> QED BY <1>3, <1>5, <1>6, <2>1, <2>4, <2>6, <2>7, <3>1
  <2>13. FoldersOK'
    BY <1>1, <1>3, <2>4, <2>8, <2>9, <2>10, <2>11, <2>12 DEF FoldersOK
  <2> QED BY <2>6, <2>13
<1> QED BY <1>14, <1>15

LEMMA RunSecondFolder ==
  ASSUME TreeInv, RunOK, FoldersOK, SecondHalf, phase = "folders"
  PROVE  RunOK' /\ FoldersOK'
<1> DEFINE d == J.src
           src == J.dst
           dst == second.dst
<1>1. /\ second # NoRename /\ second' = NoRename /\ Along /\ phase' = phase /\ todo' = todo
      /\ Rename(second.src, second.dst, second.dir)
      /\ tracked' = Followed(J.src, second.dst, second.dir)
  BY DEF SecondHalf, Running, wizard, Along, Unplanned, J
<1>2. /\ J.dir = TRUE /\ d \in Paths /\ src \in Paths /\ dst \in Paths
      /\ Siblings(d, src) /\ Siblings(src, dst) /\ Siblings(d, dst)
      /\ second.src = src /\ second.dir = TRUE
      /\ Len(journal) \in 1..Len(journal) /\ J = journal[Len(journal)]
      /\ tracked \in [Planned -> Paths] /\ Planned \subseteq Files
  BY <1>1, HalfIs DEF TreeInv, TypeOK
<1>3. /\ Planned' = Planned /\ plan' = plan /\ start' = start
      /\ known' = known
  BY <1>1, PlanSame DEF Along, Unplanned
<1>4. /\ d \in DOMAIN plan.dir \ todo /\ dst = Append(Parent(d), plan.dir[d])
      /\ \A e \in Done : Len(d) <= Len(e)
      /\ \A e \in Dirs : ~IsPrefix(src, Located(start[e], NewNames))
      /\ \A f \in Planned : ~IsPrefix(src, tracked[f])
      /\ \A f \in Files \ Planned : ~IsPrefix(src, start[f])
  BY <1>1 DEF FoldersOK
<1>5. /\ \A e \in Dirs : at[e] = Rehome(Located(start[e], NewNames), d, src)
      /\ \A f \in Planned :
           tracked[f] = Append(Located(Parent(start[f]), NewNames), Last(plan.file[f]))
      /\ \A e \in DOMAIN plan.dir \ todo, x \in todo : Len(x) <= Len(e)
  BY <1>1 DEF FoldersOK
<1>6. /\ Tree(Here, Nodes) /\ Here \in [Nodes -> Paths]
      /\ \A e \in Dirs : Here[e] = at[e] /\ e \in Nodes
      /\ \A f \in Planned : Here[f] = Rehome(tracked[f], d, src) /\ f \in Nodes
  <2>1. Forward /\ phase # "idle"
    BY <1>1 DEF Forward
  <2>2. \A f \in Planned : Here[f] = Rehome(tracked[f], d, src) /\ f \in Nodes
    BY <1>1, <1>2, HereOf DEF Follow
  <2> QED BY <1>1, <2>1, <2>2 DEF RunOK, HereOK, HereIs, Here, Nodes
<1>7. /\ Done \in SUBSET DOMAIN plan.dir /\ d \notin Done
      /\ DOMAIN NewNames = Done /\ \A e \in Done : NewNames[e] \in Names
  <2>1. Done \in SUBSET DOMAIN plan.dir /\ d \notin Done
    BY <1>1 DEF Done
  <2> QED BY <2>1 DEF NewNames, Restrict, TreeInv, TypeOK
<1>8. Located(d, NewNames) = d
  BY <1>1, <1>4, <1>7, NotYetNamed DEF NewNames, RunOK
<1>9. ASSUME NEW e \in Done PROVE Located(e, NewNames) # d
  <2>1. PICK m \in Dirs : start[m] = d
    BY <1>1, <1>4, FolderFacts DEF RunOK
  <2>2. PICK n \in Dirs : start[n] = e
    BY <1>1, <1>7, FolderFacts DEF RunOK
  <2>3. Located(e, NewNames) = d => Here[n] = Here[m]
    BY <1>5, <1>6, <1>8, <2>1, <2>2
  <2>4. Here[n] = Here[m] => n = m
    BY <1>6 DEF Tree
  <2> QED BY <1>7, <2>1, <2>2, <2>3, <2>4
<1>10. \A p \in Paths : Located(p, Restrict(plan.dir, Done \cup {d})) =
                          Rehome(Located(p, NewNames), d, dst)
  <2>1. \A e \in Done : Located(e, Restrict(plan.dir, Done)) # d
    BY <1>9 DEF NewNames
  <2>2. \A p \in Paths : Located(p, Restrict(plan.dir, Done \cup {d})) =
                           Rehome(Located(p, Restrict(plan.dir, Done)), d, dst)
    <3>1. d \in DOMAIN plan.dir
      BY <1>4
    <3> HIDE DEF d, dst
    <3>2. \A p \in Paths : Located(p, Restrict(plan.dir, Done \cup {d})) =
            Rehome(Located(p, Restrict(plan.dir, Done)), d, Append(Parent(d), plan.dir[d]))
      BY <1>1, <1>4, <1>7, <2>1, <3>1, FolderMoves DEF RunOK
    <3> QED BY <1>4, <3>2
  <2> QED BY <2>2 DEF NewNames
<1>11. /\ \A n \in Nodes : start[n] \in Paths
       /\ \A f \in Planned : Parent(start[f]) \in Paths /\ Last(plan.file[f]) \in Names
  <2>1. \A n \in Nodes : start[n] \in Paths
    BY <1>1 DEF RunOK, StartOK
  <2>2. \A f \in Planned : Last(plan.file[f]) \in Names
    BY <1>1, NamesIn DEF RunOK, PlanOK
  <2> QED BY <1>6, <2>1, <2>2, FrontIs DEF Parent
<1>12. /\ Last(d) \in DirKind /\ Last(src) \in DirKind /\ Last(dst) \notin FileKind
  <2>1. Last(d) \in DirKind /\ Last(src) \in DirKind
    BY <1>2 DEF DirKind
  <2>2. Last(dst) \in DirKind
    BY <1>1, <1>4, FolderFacts DEF RunOK
  <2> QED BY <2>1, <2>2 DEF RunOK, KindsOK
<1>13. ASSUME NEW f \in Planned PROVE tracked[f] # d
  <2>1. Last(tracked[f]) \in FileKind
    BY DEF FileKind
  <2> QED BY <1>12, <2>1 DEF RunOK, KindsOK
<1>14. \A f \in Planned : tracked'[f] = Rehome(tracked[f], d, dst)
  <2>1. tracked' = [f \in Planned |-> Rehome(tracked[f], d, dst)]
    BY <1>1, <1>2 DEF Followed, Follow
  <2> HIDE DEF d, dst
  <2> QED BY <2>1
<1>15. \A f \in Planned : Here'[f] = Rehome(Here[f], src, dst)
  <2> SUFFICES ASSUME NEW f \in Planned PROVE Here'[f] = Rehome(Here[f], src, dst)
    OBVIOUS
  <2>1. Here'[f] = tracked'[f]
    BY <1>1, <1>2, <1>3, <1>6, ReleaseAssumption DEF Here
  <2>2. tracked[f] \in Paths /\ ~IsPrefix(src, tracked[f])
    BY <1>2, <1>4
  <2>3. Rehome(Rehome(tracked[f], d, src), src, dst) = Rehome(tracked[f], d, dst)
    BY <1>2, <2>2, RehomeTwice
  <2> QED BY <1>6, <1>14, <2>1, <2>3
<1>16. RunOK' /\ \A e \in Dirs : at'[e] = Rehome(at[e], src, dst)
  <2>1. /\ \A f \in Planned : Last(tracked'[f]) = Last(tracked[f])
        /\ \A f \in taken : Here[f] # dst
        /\ \A u \in Files \ Planned : ~IsPrefix(src, known[u])
    <3>1. \A f \in Planned : Last(tracked'[f]) = Last(tracked[f])
      <4> SUFFICES ASSUME NEW f \in Planned PROVE Last(tracked'[f]) = Last(tracked[f])
        OBVIOUS
      <4>1. tracked[f] \in Paths /\ tracked[f] # d
        BY <1>2, <1>13
      <4>2. Last(Rehome(tracked[f], d, dst)) = Last(tracked[f])
        BY <1>2, <4>1, LastRehome
      <4> QED BY <1>14, <4>2
    <3>2. \A f \in taken : Here[f] # dst
      <4>1. \A f \in taken : Here[f] # Append(Parent(d), plan.dir[d])
        BY <1>1, <1>2, <1>4, FolderTargetFree DEF TreeInv, TypeOK
      <4> QED BY <1>4, <4>1
    <3>3. \A u \in Files \ Planned : ~IsPrefix(src, known[u])
      BY <1>1, <1>4 DEF RunOK, StartOK
    <3> QED BY <3>1, <3>2, <3>3
  <2>2. Rename(src, dst, TRUE)
    BY <1>1, <1>2
  <2> HIDE DEF src, dst
  <2> QED BY <1>1, <1>2, <1>12, <1>15, <2>1, <2>2, FolderStep
<1>17. NewNames' = Restrict(plan.dir, Done \cup {d})
  <2>1. Done' = DOMAIN plan.dir \ todo
    BY <1>1, <1>3 DEF Done
  <2>2. Done = (DOMAIN plan.dir \ todo) \ {d}
    BY <1>1 DEF Done
  <2>3. Done' = Done \cup {d}
    BY <1>4, <2>1, <2>2
  <2> QED BY <1>3, <2>3, Zenon DEF NewNames
<1>18. \A e \in Dirs : at'[e] = Located(start'[e], NewNames')
  <2> SUFFICES ASSUME NEW e \in Dirs PROVE at'[e] = Located(start[e], NewNames')
    BY <1>3
  <2>1. start[e] \in Paths /\ Located(start[e], NewNames) \in Paths
    BY <1>6, <1>7, <1>11, LocatedIs
  <2>2. ~IsPrefix(src, Located(start[e], NewNames))
    BY <1>4
  <2>3. Rehome(Rehome(Located(start[e], NewNames), d, src), src, dst)
          = Rehome(Located(start[e], NewNames), d, dst)
    BY <1>2, <2>1, <2>2, RehomeTwice
  <2>4. Located(start[e], NewNames') = Rehome(Located(start[e], NewNames), d, dst)
    BY <1>10, <1>17, <2>1
  <2> QED BY <1>5, <1>16, <2>3, <2>4
<1>19. \A f \in Planned :
         tracked'[f] = Append(Located(Parent(start'[f]), NewNames'), Last(plan'.file[f]))
  <2> SUFFICES ASSUME NEW f \in Planned
      PROVE  tracked'[f] = Append(Located(Parent(start[f]), NewNames'), Last(plan.file[f]))
    BY <1>3
  <2> DEFINE q == Located(Parent(start[f]), NewNames)
             n == Last(plan.file[f])
  <2>1. q \in Paths /\ n \in Names /\ tracked[f] = Append(q, n)
    BY <1>5, <1>7, <1>11, LocatedIs
  <2>2. Rehome(q, d, dst) = Located(Parent(start[f]), NewNames')
    BY <1>10, <1>11, <1>17
  <2> HIDE DEF q, n, d, dst
  <2>3. Append(q, n) # d
    BY <1>13, <2>1
  <2>4. Rehome(Append(q, n), d, dst) = Append(Rehome(q, d, dst), n)
    BY <1>2, <2>1, <2>3, RehomeAppend
  <2>5. tracked'[f] = Append(Located(Parent(start[f]), NewNames'), n)
    BY <1>14, <2>1, <2>2, <2>4
  <2> QED BY <2>5 DEF n
<1>20. \A e \in DOMAIN plan'.dir \ todo', x \in todo' : Len(x) <= Len(e)
  BY <1>1, <1>3, <1>5
<1>21. FoldersOK'
  BY <1>1, <1>3, <1>18, <1>19, <1>20 DEF FoldersOK
<1> QED BY <1>16, <1>21

-----------------------------------------------------------------------------
(* The phases, failure and the way back.                                   *)

RunInv ==
  RunOK /\ FilesOK /\ FoldersOK /\ IdleOK /\ InputIsTrue /\ AllOrNothing

LEMMA RunNextPhase ==
  ASSUME TreeInv, RunInv, NextPhase
  PROVE  RunInv'
<1>1. /\ todo = {} /\ second = NoRename /\ second' = NoRename /\ Unplanned
      /\ start' = start /\ scattered' = scattered /\ taken' = taken
      /\ at' = at /\ tracked' = tracked /\ journal' = journal
      /\ phase \in {"vacate", "files", "folders"} /\ Forward' /\ Forward
      /\ phase' \in {"files", "folders", "verify"}
  BY DEF NextPhase, Running, wizard, Unplanned, Forward
<1>2. RunOK'
  BY <1>1, RunSame DEF RunInv
<1>3. /\ Planned' = Planned /\ Blocking(plan)' = Blocking(plan)
      /\ \A g : Intermediate(plan, g)' = Intermediate(plan, g)
      /\ plan' = plan
  BY <1>1, PlanSame DEF Unplanned
<1>4. CASE phase = "vacate" /\ phase' = "files" /\ todo' = Planned
  <2>1. /\ \A d \in Dirs : at[d] = start[d]
        /\ \A f \in Planned : IF f \in Blocking(plan) THEN Last(tracked[f]) \in Spare
                              ELSE tracked[f] = start[f]
    BY <1>1, <1>4 DEF RunInv, FilesOK
  <2>2. FilesOK'
    BY <1>1, <1>3, <1>4, <2>1 DEF FilesOK
  <2> QED BY <1>2, <1>4, <2>2 DEF RunInv, FoldersOK, IdleOK, InputIsTrue, AllOrNothing
<1>5. CASE phase = "files" /\ phase' = "folders" /\ todo' = DOMAIN plan.dir
  <2>1. /\ \A d \in Dirs : at[d] = start[d]
        /\ \A f \in Planned : tracked[f] = Intermediate(plan, f)
    BY <1>1, <1>5 DEF RunInv, FilesOK, Halfway
  <2>2. Done' = {}
    BY <1>1, <1>3, <1>5 DEF Done
  <2>3. DOMAIN NewNames' = {}
    <3>1. NewNames' = Restrict(plan.dir, {})
      BY <1>3, <2>2, Zenon DEF NewNames
    <3>2. DOMAIN Restrict(plan.dir, {}) = {}
      BY DEF Restrict
    <3> QED BY <3>1, <3>2, Zenon
  <2>4. \A p \in Paths : Located(p, NewNames') = p
    BY <2>3, LocatedSame
  <2>5. /\ \A n \in Nodes : start[n] \in Paths
        /\ \A f \in Planned : f \in Nodes /\ Parent(start[f]) \in Paths
    <3>1. \A n \in Nodes : start[n] \in Paths
      BY <1>1, <1>5 DEF RunInv, RunOK, StartOK
    <3>2. Planned \subseteq Nodes
      BY DEF TreeInv, TypeOK, Nodes
    <3> QED BY <3>1, <3>2, FrontIs DEF Parent
  <2>6. \A e \in Dirs : at'[e] = Located(start'[e], NewNames')
    BY <1>1, <2>1, <2>4, <2>5 DEF Nodes
  <2>7. \A f \in Planned :
          tracked'[f] = Append(Located(Parent(start'[f]), NewNames'), Last(plan'.file[f]))
    <3>1. \A f \in Planned : Intermediate(plan, f) = Append(Parent(start[f]), Last(plan.file[f]))
      BY <1>1, <1>5, PlanPlace DEF RunInv, RunOK
    <3> QED BY <1>1, <1>3, <2>1, <2>4, <2>5, <3>1
  <2>8. FoldersOK'
    BY <1>1, <1>3, <1>5, <2>6, <2>7 DEF FoldersOK
  <2> QED BY <1>2, <1>5, <2>8 DEF RunInv, FilesOK, IdleOK, InputIsTrue, AllOrNothing
<1>6. CASE phase = "folders" /\ phase' = "verify" /\ todo' = {}
  <2>1. NewNames' = NewNames
    <3>1. Done' = Done
      BY <1>1, <1>3, <1>6 DEF Done
    <3> QED BY <1>3, <3>1, Zenon DEF NewNames
  <2>2. FoldersOK'
    <3>1. /\ \A e \in Dirs : at[e] = Located(start[e], NewNames)
          /\ \A f \in Planned :
               tracked[f] = Append(Located(Parent(start[f]), NewNames), Last(plan.file[f]))
      BY <1>1, <1>6 DEF RunInv, FoldersOK
    <3> QED BY <1>1, <1>3, <1>6, <2>1, <3>1 DEF FoldersOK
  <2> QED BY <1>2, <1>6, <2>2 DEF RunInv, FilesOK, IdleOK, InputIsTrue, AllOrNothing
<1> QED BY <1>4, <1>5, <1>6 DEF NextPhase

LEMMA PhasesSame ==
  ASSUME Unplanned, start' = start, phase' = phase, todo' = todo, second' = second,
         tracked' = tracked, journal' = journal, \A d \in Dirs : at'[d] = at[d]
  PROVE  (FilesOK => FilesOK') /\ (FoldersOK => FoldersOK')
<1>1. /\ Planned' = Planned /\ Blocking(plan)' = Blocking(plan) /\ J' = J
      /\ \A g : Intermediate(plan, g)' = Intermediate(plan, g)
      /\ plan' = plan
  BY PlanSame DEF Unplanned, J
<1>2. FilesOK => FilesOK'
  BY <1>1 DEF FilesOK, Halfway
<1>3. FoldersOK => FoldersOK'
  <2>1. Done' = Done
    BY <1>1 DEF Done
  <2>2. NewNames' = NewNames
    BY <1>1, <2>1, Zenon DEF NewNames
  <2> QED BY <1>1, <2>1, <2>2 DEF FoldersOK
<1> QED BY <1>2, <1>3

\* Another program takes a file: where it would be stays known.
LEMMA RunTake ==
  ASSUME TreeInv, RunInv, NEW f \in Files, Take(f)
  PROVE  RunInv'
<1>1. /\ phase # "idle" /\ at' = [at EXCEPT ![f] = Gone] /\ taken' = taken \cup {f}
      /\ Unplanned /\ start' = start /\ scattered' = scattered /\ phase' = phase
      /\ todo' = todo /\ second' = second /\ tracked' = tracked /\ journal' = journal
  BY DEF Take, wizard, Unplanned
<1>2. at \in [Nodes -> Paths] /\ f \notin Dirs
  BY ReleaseAssumption DEF TreeInv, DiskOK
<1>3. \A d \in Dirs : at'[d] = at[d]
  BY <1>1, <1>2 DEF Nodes
<1>4. \A n \in Present' : at'[n] = at[n]
  BY <1>1, <1>2 DEF Present
<1>5. RunOK'
  BY <1>1, <1>3, <1>4, RunSame DEF RunInv, Forward
<1>6. FilesOK' /\ FoldersOK'
  BY <1>1, <1>3, PhasesSame DEF RunInv
<1> QED BY <1>1, <1>5, <1>6 DEF RunInv, IdleOK, InputIsTrue, AllOrNothing

LEMMA RunStutters ==
  ASSUME TreeInv, RunInv, UNCHANGED vars
  PROVE  RunInv'
<1>1. /\ at' = at /\ known' = known /\ input' = input /\ phase' = phase /\ plan' = plan
      /\ todo' = todo /\ second' = second /\ tracked' = tracked /\ journal' = journal
      /\ complete' = complete /\ outcome' = outcome /\ start' = start
      /\ scattered' = scattered /\ taken' = taken /\ runs' = runs
  BY DEF vars
<1>2. Unplanned /\ Planned' = Planned
  BY <1>1 DEF Unplanned, Planned
<1>3. FilesOK' /\ FoldersOK'
  BY <1>1, <1>2, PhasesSame DEF RunInv
<1>4. IdleOK' /\ InputIsTrue'
  BY <1>1 DEF RunInv, IdleOK, InputIsTrue
<1>5. AllOrNothing'
  BY <1>1, <1>2 DEF RunInv, AllOrNothing, IsDir
<1>6. CASE phase # "idle"
  BY <1>1, <1>2, <1>3, <1>4, <1>5, <1>6, RunSame DEF RunInv, Forward
<1>7. CASE phase = "idle"
  <2>1. KindsOK'
    <3>1. FileKind' = FileKind
      BY <1>1, <1>2 DEF FileKind
    <3>2. DirKind' = DirKind
      BY <1>1 DEF DirKind
    <3> QED BY <3>1, <3>2 DEF RunInv, RunOK, KindsOK
  <2>2. HereOK' /\ StartOK' /\ PlanOK' /\ UnplannedOK' /\ BackOK'
    BY <1>1, <1>7 DEF HereOK, StartOK, PlanOK, UnplannedOK, BackOK, Forward
  <2> QED BY <1>3, <1>4, <1>5, <2>1, <2>2 DEF RunInv, RunOK
<1> QED BY <1>6, <1>7

LEMMA RunRenameFails ==
  ASSUME TreeInv, RunInv, RenameFails
  PROVE  RunInv'
<1>1. /\ phase' = "rollback" /\ tracked' = Replay /\ second' = NoRename
      /\ Unplanned /\ start' = start /\ scattered' = scattered /\ taken' = taken
      /\ at' = at /\ journal' = journal
  BY DEF RenameFails, Running, wizard, Unplanned
<1>2. Forward /\ phase # "idle" /\ ~Forward'
  BY <1>1 DEF RenameFails, TreeInv, HalfOK, Forward
<1>3. /\ Planned' = Planned /\ Planned \subseteq Files /\ Present' = Present
      /\ plan' = plan /\ known' = known /\ complete' = complete
  BY <1>1 DEF TreeInv, TypeOK, Unplanned, Planned, Present
<1>4. /\ HereIs /\ Here \in [Nodes -> Paths] /\ Replay = [f \in Planned |-> Here[f]]
  BY <1>2 DEF RunInv, RunOK, HereOK, HereIs
<1>5. Here' = Here
  <2>1. ASSUME NEW n \in Nodes PROVE Here'[n] = Here[n]
    <3>1. CASE n \in Planned
      <4>1. Here'[n] = tracked'[n]
        BY <1>1, <1>3, <3>1, ReleaseAssumption DEF Here
      <4> QED BY <1>1, <1>4, <3>1, <4>1
    <3>2. CASE n \notin Planned
      BY <1>1, <1>3, <3>2 DEF Here
    <3> QED BY <3>1, <3>2
  <2>2. /\ Here' = [n \in Nodes |-> Here'[n]]
        /\ Here = [n \in Nodes |-> Here[n]]
    BY Zenon DEF Here
  <2> QED BY <2>1, <2>2, Zenon
<1>6. HereOK'
  BY <1>1, <1>2, <1>3, <1>4, <1>5 DEF HereOK, HereIs, Shape
<1>7. StartOK' /\ PlanOK'
  BY <1>1, <1>2, StartKept DEF RunInv, RunOK, Unplanned
<1>8. UnplannedOK'
  BY <1>1, <1>2, <1>3 DEF RunInv, RunOK, UnplannedOK
<1>9. KindsOK'
  <2>1. \A f \in Planned : Last(tracked'[f]) \in FileKind
    <3>1. \A f \in Planned : Last(Here[f]) \in FileKind
      BY <1>3, HereKind DEF RunInv, RunOK
    <3> QED BY <1>1, <1>4, <3>1
  <2>2. FileKind' \subseteq FileKind
    BY <1>1, <1>3, <2>1 DEF FileKind
  <2>3. DirKind' = DirKind
    BY <1>1, <1>3 DEF DirKind
  <2> QED BY <2>2, <2>3 DEF RunInv, RunOK, KindsOK
<1>10. BackOK'
  BY <1>1, <1>2, <1>3, BackSame DEF RunInv, RunOK
<1>11. RunOK'
  BY <1>6, <1>7, <1>8, <1>9, <1>10 DEF RunOK
<1> QED BY <1>1, <1>11 DEF RunInv, FilesOK, FoldersOK, IdleOK, InputIsTrue, AllOrNothing

LEMMA UnplannedShrinks ==
  ASSUME JournalOK, UnplannedOK, journal # <<>>, journal' = Front(journal), phase # "idle",
         Unplanned, start' = start
  PROVE  UnplannedOK'
<1>1. /\ Len(journal) \in 1..Len(journal) /\ Len(journal') = Len(journal) - 1
      /\ \A i \in 1..(Len(journal) - 1) : journal'[i] = journal[i]
  BY JournalShrinks
<1>2. \A i \in 1..Len(journal') : i \in 1..Len(journal) /\ journal'[i] = journal[i]
  BY <1>1
<1> QED BY <1>2 DEF UnplannedOK, Unplanned, Planned

\* What the undone rename takes along is what a rename of a path takes along.
LEMMA UndoneIs ==
  ASSUME TreeInv, RunOK, phase = "rollback", journal # <<>>, Free(J.dst, J.src),
         NEW f \in Planned
  PROVE  Follow(tracked[f], J.dst, J.src, J.dir) = Rehome(tracked[f], J.dst, J.src)
<1>1. /\ J \in Op /\ J = journal[Len(journal)] /\ Len(journal) \in 1..Len(journal)
      /\ J.src \in Paths /\ J.dst \in Paths /\ Siblings(J.src, J.dst) /\ Siblings(J.dst, J.src)
  <2>1. /\ journal \in Seq(Op)
        /\ \A i \in 1..Len(journal) : Siblings(journal[i].src, journal[i].dst)
    BY DEF TreeInv, JournalOK
  <2>2. Len(journal) \in 1..Len(journal)
    BY <2>1, EmptySeq, LenProperties
  <2>3. J = journal[Len(journal)] /\ J \in Op
    BY <2>1, <2>2, ElementOfSeq DEF J, Last
  <2> QED BY <2>1, <2>2, <2>3, SiblingsSwap DEF Op
<1>2. second = NoRename
  BY DEF TreeInv, HalfOK
<1>3. /\ f \in Files /\ f \in Nodes /\ tracked[f] \in Paths /\ Here[f] = tracked[f]
  BY <1>2, HereOf
<1>4. /\ Here \in [Nodes -> Paths] /\ Shape(Here, start) /\ \A n \in Present : at[n] = Here[n]
      /\ start \in [Nodes -> Paths] /\ Tree(start, Nodes)
  BY DEF RunOK, HereOK, HereIs, StartOK
<1>5. CASE J.dir
  BY <1>5 DEF Follow
<1>6. CASE ~J.dir /\ tracked[f] = J.dst
  BY <1>1, <1>6, RehomeSelf DEF Follow
<1>7. CASE ~J.dir /\ tracked[f] # J.dst /\ ~IsPrefix(J.dst, tracked[f])
  BY <1>7 DEF Follow, Rehome
<1>8. CASE ~J.dir /\ tracked[f] # J.dst /\ IsPrefix(J.dst, tracked[f])
  <2> DEFINE k == Len(J.dst)
  <2>1. /\ k \in Nat /\ Len(start[f]) \in Nat /\ k <= Len(start[f]) - 1
        /\ Len(start[f]) = Len(tracked[f]) /\ J.dst = SubSeq(tracked[f], 1, k)
    <3>1. Len(start[f]) = Len(tracked[f]) /\ Len(start[f]) \in Nat /\ k \in Nat
      BY <1>1, <1>3, <1>4, PathFacts DEF Shape
    <3>2. k \in 0..Len(tracked[f]) /\ J.dst = SubSeq(tracked[f], 1, k)
      BY <1>1, <1>3, <1>8, PrefixSubSeq
    <3>3. k # Len(tracked[f])
      BY <1>1, <1>3, <1>8, <3>2, PrefixIs, SamePath
    <3> QED BY <3>1, <3>2, <3>3
  <2>2. Len(start[Root]) \in Nat /\ Len(start[Root]) <= k
    <3>1. PICK m \in Nodes : at[m] = J.dst
      BY DEF Free, Exists
    <3>2. m \in Present
      BY <1>1, <3>1 DEF Present, Siblings, TreeInv, DiskOK
    <3>3. Len(start[m]) = k
      BY <1>4, <3>1, <3>2 DEF Shape
    <3>4. Root \in Nodes /\ start[Root] \in Paths /\ start[m] \in Paths
          /\ IsPrefix(start[Root], start[m])
      BY <1>4, <3>1, ReleaseAssumption DEF Nodes, Tree
    <3> QED BY <3>3, <3>4, PrefixIs, PathFacts
  <2>3. PICK d \in Dirs : start[d] = SubSeq(start[f], 1, k)
    BY <1>3, <1>4, <2>1, <2>2 DEF Tree
  <2>4. /\ d \in Nodes /\ start[d] \in Paths /\ start[f] \in Paths /\ Len(start[d]) = k
        /\ IsPrefix(start[d], start[f])
    <3>1. d \in Nodes /\ start[d] \in Paths /\ start[f] \in Paths /\ k \in 0..Len(start[f])
      BY <1>3, <1>4, <2>1 DEF Nodes
    <3>2. Len(start[d]) = k
      BY <2>3, <3>1, Initial
    <3> QED BY <2>3, <3>1, <3>2, PrefixSubSeq
  <2>5. /\ at[d] = Here[d] /\ Here[d] \in Paths /\ Len(Here[d]) = k
        /\ IsPrefix(Here[d], tracked[f])
    BY <1>2, <1>3, <1>4, <2>4 DEF Shape, Here
  <2>6. at[d] = J.dst
    <3>1. Here[d] = SubSeq(tracked[f], 1, k)
      BY <1>3, <2>5, PrefixSubSeq
    <3> QED BY <2>1, <2>5, <3>1
  <2>7. Last(J.dst) \in FileKind /\ Last(at[d]) \in DirKind
    BY <1>1, <1>8 DEF FileKind, DirKind
  <2> QED BY <2>6, <2>7 DEF RunOK, KindsOK
<1> QED BY <1>5, <1>6, <1>7, <1>8

LEMMA RunUndoSucceeds ==
  ASSUME TreeInv, RunInv, UndoSucceeds
  PROVE  RunInv'
<1> DEFINE src == J.dst
           dst == J.src
<1>1. /\ phase = "rollback" /\ journal # <<>> /\ Free(src, dst) /\ at' = Moved(src, dst)
      /\ tracked' = Followed(src, dst, J.dir) /\ journal' = Front(journal)
      /\ phase' = phase /\ todo' = todo /\ second' = second /\ Along
  BY DEF UndoSucceeds, Running, wizard, Along, Unplanned, J
<1>2. /\ second = NoRename /\ JournalOK /\ DiskOK /\ TypeOK /\ ~Forward /\ ~Forward'
  BY <1>1 DEF TreeInv, HalfOK, Forward
<1>3. /\ Len(journal) \in 1..Len(journal) /\ Len(journal') = Len(journal) - 1
      /\ \A i \in 1..(Len(journal) - 1) : journal'[i] = journal[i]
      /\ J = journal[Len(journal)] /\ J \in Op
      /\ Siblings(dst, src) /\ Siblings(src, dst) /\ src \in Paths /\ dst \in Paths
      /\ J.dir \in BOOLEAN
  <2>1. /\ Len(journal) \in 1..Len(journal) /\ Len(journal') = Len(journal) - 1
        /\ \A i \in 1..(Len(journal) - 1) : journal'[i] = journal[i]
        /\ J = journal[Len(journal)] /\ J \in Op /\ Siblings(dst, src)
    BY <1>1, <1>2, JournalShrinks DEF J
  <2> QED BY <2>1, SiblingsSwap DEF Op
<1>4. /\ \A i \in 1..Len(journal') : i \in 1..Len(journal) /\ journal'[i] = journal[i]
  BY <1>3
<1>5. /\ Planned' = Planned /\ plan' = plan /\ known' = known /\ start' = start
  BY <1>1, PlanSame DEF Along, Unplanned
<1>6. \A f \in Planned : /\ f \in Files /\ f \in Nodes /\ tracked[f] \in Paths
                         /\ Here[f] = tracked[f] /\ Last(tracked[f]) \in FileKind
  BY <1>2, HereOf DEF FileKind
<1>7. \A f \in Planned : tracked'[f] = Rehome(tracked[f], src, dst)
  <2>1. \A f \in Planned : tracked'[f] = Follow(tracked[f], src, dst, J.dir)
    BY <1>1 DEF Followed
  <2> QED BY <1>1, <2>1, UndoneIs DEF RunInv
<1>8. \A f \in Planned : Here'[f] = Rehome(Here[f], src, dst)
  <2> SUFFICES ASSUME NEW f \in Planned PROVE Here'[f] = Rehome(Here[f], src, dst)
    OBVIOUS
  <2>1. Here'[f] = tracked'[f]
    BY <1>1, <1>2, <1>5, <1>6, ReleaseAssumption DEF Here
  <2> QED BY <1>6, <1>7, <2>1
<1>9. \A u \in Files \ Planned : Rehome(known[u], src, dst) = known[u]
  <2> SUFFICES ASSUME NEW u \in Files \ Planned PROVE Rehome(known[u], src, dst) = known[u]
    OBVIOUS
  <2>1. known[u] = start[u] /\ known[u] \in Paths
    BY <1>1, <1>2 DEF RunInv, RunOK, StartOK, TypeOK
  <2>2. dst = src \/ ~IsPrefix(src, known[u])
    BY <1>1, <1>3, <2>1 DEF RunInv, RunOK, UnplannedOK
  <2>3. CASE dst = src
    BY <1>3, <2>1, <2>3, RehomeSame DEF Siblings
  <2>4. CASE ~IsPrefix(src, known[u])
    BY <2>4 DEF Rehome
  <2> QED BY <2>2, <2>3, <2>4
<1>10. HereOK'
  <2>1. HereIs
    BY <1>1 DEF RunInv, RunOK, HereOK
  <2>2. HereIs'
    <3> HIDE DEF src, dst
    <3> QED BY <1>1, <1>3, <1>8, <1>9, <2>1, HereMoves
  <2> QED BY <1>2, <2>2 DEF HereOK
<1>11. StartOK' /\ PlanOK'
  BY <1>1, <1>2, AlongKeeps DEF RunInv, RunOK
<1>12. UnplannedOK'
  BY <1>1, <1>2, UnplannedShrinks DEF RunInv, RunOK, Along
<1>13. IF J.dir THEN Last(src) \in DirKind /\ Last(dst) \in DirKind
                ELSE Last(src) \in FileKind /\ Last(dst) \in FileKind
  BY <1>3 DEF FileKind, DirKind
<1>14. KindsOK'
  <2>1. \A f \in Planned : Last(tracked'[f]) \in FileKind
    <3> SUFFICES ASSUME NEW f \in Planned PROVE Last(tracked'[f]) \in FileKind
      OBVIOUS
    <3>1. tracked[f] = src => ~J.dir
      BY <1>6, <1>13 DEF RunInv, RunOK, KindsOK
    <3>2. Last(tracked'[f]) = IF tracked[f] = src THEN Last(dst) ELSE Last(tracked[f])
      BY <1>3, <1>6, <1>7, LastRehome
    <3> QED BY <1>6, <1>13, <3>1, <3>2
  <2>2. \A d \in Dirs : Last(at'[d]) \in DirKind
    <3> SUFFICES ASSUME NEW d \in Dirs PROVE Last(at'[d]) \in DirKind
      OBVIOUS
    <3>1. at[d] \in Paths /\ d \in Nodes /\ Last(at[d]) \in DirKind
      BY <1>2 DEF DiskOK, Nodes, DirKind
    <3>2. at' = Rehomed(at, src, dst)
      BY <1>1, <1>2, <1>3, MovedIs DEF DiskOK
    <3>3. at'[d] = Rehome(at[d], src, dst)
      BY <3>1, <3>2, Zenon DEF Rehomed
    <3>4. Last(at'[d]) = IF at[d] = src THEN Last(dst) ELSE Last(at[d])
      BY <1>3, <3>1, <3>3, LastRehome
    <3>5. at[d] = src => J.dir
      BY <1>13, <3>1 DEF RunInv, RunOK, KindsOK
    <3> QED BY <1>13, <3>1, <3>4, <3>5
  <2>3. FileKind' \subseteq FileKind
    BY <1>4, <1>5, <2>1 DEF FileKind
  <2>4. DirKind' \subseteq DirKind
    BY <1>4, <1>5, <2>2 DEF DirKind
  <2> QED BY <2>3, <2>4 DEF RunInv, RunOK, KindsOK
<1>15. BackOK'
  BY BackUndo DEF RunInv, RunOK
<1>16. RunOK'
  BY <1>10, <1>11, <1>12, <1>14, <1>15 DEF RunOK
<1> QED BY <1>1, <1>16 DEF RunInv, FilesOK, FoldersOK, IdleOK, InputIsTrue, AllOrNothing

LEMMA RunUndoFails ==
  ASSUME TreeInv, RunInv, UndoFails
  PROVE  RunInv'
<1>1. /\ phase = "rollback" /\ journal # <<>> /\ journal' = Front(journal)
      /\ complete' = FALSE /\ phase' = phase /\ at' = at /\ second' = second
      /\ tracked' = tracked /\ plan' = plan /\ known' = known /\ input' = input
      /\ start' = start /\ taken' = taken /\ scattered' = scattered
  BY DEF UndoFails, wizard
<1>2. /\ second = NoRename /\ JournalOK /\ ~Forward' /\ ~Forward
      /\ Planned' = Planned /\ Present' = Present
  BY <1>1 DEF TreeInv, HalfOK, Forward, Planned, Present
<1>3. Here' = Here
  BY <1>1, <1>2 DEF Here
<1>4. HereOK'
  BY <1>1, <1>2, <1>3 DEF RunInv, RunOK, HereOK, HereIs, Shape
<1>5. StartOK' /\ PlanOK'
  BY <1>1, <1>2, StartKept DEF RunInv, RunOK
<1>6. \A i \in 1..Len(journal') : i \in 1..Len(journal) /\ journal'[i] = journal[i]
  <2>1. /\ Len(journal) \in 1..Len(journal) /\ Len(journal') = Len(journal) - 1
        /\ \A i \in 1..(Len(journal) - 1) : journal'[i] = journal[i]
    BY <1>1, <1>2, JournalShrinks
  <2> QED BY <2>1
<1>7. UnplannedOK'
  BY <1>1, <1>2, <1>6 DEF RunInv, RunOK, UnplannedOK
<1>8. KindsOK'
  <2>1. FileKind' \subseteq FileKind
    BY <1>1, <1>2, <1>6 DEF FileKind
  <2>2. DirKind' \subseteq DirKind
    BY <1>1, <1>6 DEF DirKind
  <2> QED BY <2>1, <2>2 DEF RunInv, RunOK, KindsOK
<1>9. BackOK'
  BY <1>1 DEF BackOK
<1> QED BY <1>1, <1>4, <1>5, <1>7, <1>8, <1>9
        DEF RunInv, RunOK, FilesOK, FoldersOK, IdleOK, InputIsTrue, AllOrNothing

-----------------------------------------------------------------------------
(* The result.                                                             *)

LEMMA RehomeNowhere ==
  ASSUME NEW p \in Paths, NEW src \in Paths
  PROVE  Rehome(p, src, src) = p
<1>1. CASE src # Gone
  BY <1>1, RehomeSame
<1>2. CASE src = Gone
  <2>1. Len(p) \in Nat /\ p \in Seq(Names) /\ Gone \in Paths /\ Len(Gone) = 0
    BY PathFacts, EmptySeq DEF Paths, Gone
  <2>2. p = SubSeq(p, 1, Len(p))
    <3>1. Len(p) \in 0..Len(p)
      BY <2>1
    <3>2. /\ SubSeq(p, 1, Len(p)) \in Paths /\ Len(SubSeq(p, 1, Len(p))) = Len(p)
          /\ \A i \in 1..Len(p) : SubSeq(p, 1, Len(p))[i] = p[i]
      BY <3>1, Initial
    <3> QED BY <3>2, SamePath
  <2>3. Gone \o p = p
    BY <2>1, ConcatEmptySeq DEF Gone
  <2>4. Rehome(p, Gone, Gone) = IF IsPrefix(Gone, p) THEN Gone \o SubSeq(p, 1, Len(p)) ELSE p
    BY <2>1 DEF Rehome
  <2> QED BY <1>2, <2>2, <2>3, <2>4
<1> QED BY <1>1, <1>2

\* A folder's path follows it, whatever its depth.
LEMMA FolderOf ==
  ASSUME TreeInv, RunOK, phase # "idle", second = NoRename,
         NEW d \in Dirs, NEW f \in Files, IsPrefix(start[d], start[f])
  PROVE  IsPrefix(at[d], Here[f])
<1>1. d \in Nodes /\ f \in Nodes /\ Here[d] = at[d]
  BY DEF Nodes, Here
<1> QED BY <1>1 DEF RunOK, HereOK, HereIs, Shape

\* Of the wizard's paths: the ones of planned files are those of the run, and
\* the others are where they were, which is where they are.
LEMMA KnownIsHere ==
  ASSUME TreeInv, RunOK, phase # "idle", second = NoRename, NEW updated \in Paths,
         updated = input \/ \E d \in Dirs : start[d] = input /\ at[d] = updated,
         ApplyRenameMapping(updated)
  PROVE  \A f \in Files : known'[f] = Here[f]
<1> SUFFICES ASSUME NEW f \in Files PROVE known'[f] = Here[f]
  OBVIOUS
<1>1. /\ known[f] = start[f] /\ known[f] \in Paths /\ input \in Paths
      /\ f \in Nodes /\ f \notin Dirs
      /\ Here \in [Nodes -> Paths] /\ Shape(Here, start) /\ start \in [Nodes -> Paths]
  BY ReleaseAssumption DEF TreeInv, TypeOK, RunOK, StartOK, HereOK, HereIs, Nodes
<1>2. Here[f] = IF f \in Planned THEN tracked[f] ELSE known[f]
  BY <1>1 DEF Here
<1>3. known'[f] = IF f \in Planned /\ tracked[f] # known[f] THEN tracked[f]
                  ELSE IF IsDir(updated) THEN Rehome(known[f], input, updated) ELSE known[f]
  BY DEF ApplyRenameMapping
<1>4. ASSUME Here[f] = known[f] PROVE Rehome(known[f], input, updated) = known[f]
  <2>1. CASE updated = input
    BY <1>1, <2>1, RehomeNowhere
  <2>2. CASE \E d \in Dirs : start[d] = input /\ at[d] = updated
    <3>1. PICK d \in Dirs : start[d] = input /\ at[d] = updated
      BY <2>2
    <3>2. CASE ~IsPrefix(input, known[f])
      BY <3>2 DEF Rehome
    <3>3. CASE IsPrefix(input, known[f])
      <4>1. IsPrefix(updated, known[f])
        BY <1>1, <1>4, <3>1, <3>3, FolderOf
      <4>2. Len(updated) = Len(input)
        BY <1>1, <3>1 DEF Shape, Here, Nodes
      <4>3. updated = input
        BY <1>1, <3>3, <4>1, <4>2, PrefixIs, SamePath
      <4> QED BY <1>1, <4>3, RehomeNowhere
    <3> QED BY <3>2, <3>3
  <2> QED BY <2>1, <2>2
<1> QED BY <1>2, <1>3, <1>4

LEMMA RunEnds ==
  ASSUME TreeInv, RunInv, phase # "idle", second = NoRename, NEW updated \in Paths,
         updated = input \/ \E d \in Dirs : start[d] = input /\ at[d] = updated,
         ApplyRenameMapping(updated), Ended, InputIsTrue', AllOrNothing'
  PROVE  RunInv'
<1>1. \A f \in Files : known'[f] = Here[f]
  BY KnownIsHere DEF RunInv
<1>2. /\ phase' = "idle" /\ journal' = <<>> /\ at' = at /\ plan' = plan /\ taken' = taken
      /\ tracked' = tracked /\ Planned' = Planned
  BY DEF Ended, Planned
<1>3. IdleOK'
  <2>1. \A f \in Files \ taken : at[f] = Here[f]
    BY DEF RunInv, RunOK, HereOK, HereIs, Present, Nodes
  <2> QED BY <1>1, <1>2, <2>1 DEF IdleOK
<1>4. KindsOK'
  <2>1. \A f \in Files : Last(known'[f]) \in FileKind
    BY <1>1, HereKind DEF RunInv, RunOK
  <2>2. 1..Len(journal') = {}
    BY <1>2, EmptySeq
  <2>3. FileKind' \subseteq FileKind
    BY <1>2, <2>1, <2>2 DEF FileKind
  <2>4. DirKind' \subseteq DirKind
    BY <1>2, <2>2 DEF DirKind
  <2> QED BY <2>3, <2>4 DEF RunInv, RunOK, KindsOK
<1>5. RunOK' /\ FilesOK' /\ FoldersOK'
  BY <1>2, <1>4 DEF RunOK, HereOK, Forward, StartOK, PlanOK, UnplannedOK, BackOK,
                    FilesOK, FoldersOK
<1> QED BY <1>3, <1>5 DEF RunInv

\* Nothing above the opened folder gets a new name.
LEMMA RootLocated ==
  ASSUME TreeInv, StartOK, PlanOK, phase # "idle", start[Root] \notin DOMAIN plan.dir
  PROVE  Located(start[Root], plan.dir) = start[Root]
<1>1. /\ Root \in Nodes /\ start \in [Nodes -> Paths] /\ Tree(start, Nodes)
      /\ \A d \in DOMAIN plan.dir : plan.dir[d] \in Names
  BY ReleaseAssumption DEF TreeInv, TypeOK, StartOK, Nodes
<1>2. ASSUME NEW d \in DOMAIN plan.dir, IsPrefix(d, start[Root]) PROVE FALSE
  <2>1. PICK e \in Dirs : start[e] = d /\ e \in Nodes
    BY FolderFacts
  <2>2. d \in Paths /\ start[Root] \in Paths /\ IsPrefix(start[Root], d)
    BY <1>1, <2>1 DEF Tree
  <2>3. Len(d) = Len(start[Root]) /\ \A k \in 1..Len(d) : d[k] = start[Root][k]
    BY <1>2, <2>2, PrefixIs, PathFacts
  <2>4. d = start[Root]
    BY <2>2, <2>3, SamePath
  <2> QED BY <2>4
<1> QED BY <1>1, <1>2, LocatedSame

LEMMA RunSucceed ==
  ASSUME TreeInv, RunInv, Succeed
  PROVE  RunInv'
<1>1. /\ phase = "verify" /\ \A f \in Planned : IsFile(tracked[f])
      /\ ApplyRenameMapping(UpdatedInput) /\ outcome' = "success"
      /\ scattered' = scattered /\ Ended
  BY DEF Succeed
<1>2. /\ todo = {} /\ second = NoRename /\ input \in Paths /\ Planned \subseteq Files
      /\ \A d \in DOMAIN plan.dir : plan.dir[d] \in Names
      /\ plan.dir \in [DOMAIN plan.dir -> Names]
  BY <1>1 DEF TreeInv, TypeOK
<1>3. /\ phase' = "idle" /\ at' = at /\ plan' = plan /\ taken' = taken /\ Planned' = Planned
      /\ input' = UpdatedInput
  BY <1>1 DEF Ended, Planned, ApplyRenameMapping
<1>4. /\ start \in [Nodes -> Paths] /\ (~scattered => input = start[Root])
      /\ Here \in [Nodes -> Paths] /\ Tree(Here, Nodes) /\ \A n \in Present : at[n] = Here[n]
  BY <1>1 DEF RunInv, RunOK, StartOK, HereOK, HereIs, Forward
<1>5. NewNames = plan.dir
  <2>1. Done = DOMAIN plan.dir
    BY <1>2 DEF Done
  <2> QED BY <1>2, <2>1 DEF NewNames, Restrict
<1>6. /\ \A e \in Dirs : at[e] = Located(start[e], plan.dir)
      /\ \A f \in Planned :
           tracked[f] = Append(Located(Parent(start[f]), plan.dir), Last(plan.file[f]))
  BY <1>1, <1>2, <1>5 DEF RunInv, FoldersOK
<1>7. ASSUME NEW f \in Planned PROVE at[f] = plan.file[f]
  <2>1. PICK g \in Files : at[g] = tracked[f]
    BY <1>1 DEF IsFile
  <2>2. f \in Nodes /\ g \in Nodes /\ Here[f] = tracked[f] /\ Here[f] # Gone
    BY <1>2, <1>4, HereOf DEF Nodes, Tree
  <2>3. g \in Present
    BY <2>1, <2>2 DEF Present, TreeInv, DiskOK
  <2>4. g = f
    BY <1>4, <2>1, <2>2, <2>3 DEF Tree
  <2>5. plan.file[f] = Append(Located(Parent(start[f]), plan.dir), Last(plan.file[f]))
    BY <1>1 DEF RunInv, RunOK, PlanOK
  <2> QED BY <1>6, <2>1, <2>4, <2>5
<1>8. ASSUME NEW d \in DOMAIN plan.dir PROVE IsDir(Located(d, plan.dir))
  <2>1. PICK e \in Dirs : start[e] = d
    BY <1>1, FolderFacts DEF RunInv, RunOK
  <2>2. at[e] = Located(d, plan.dir)
    BY <1>6, <2>1
  <2> QED BY <2>2 DEF IsDir
<1>9. UpdatedInput \in Paths
  BY <1>2, LocatedIs DEF UpdatedInput
<1>10. UpdatedInput = input \/ \E d \in Dirs : start[d] = input /\ at[d] = UpdatedInput
  <2>1. CASE input \notin DOMAIN plan.dir
    BY <2>1 DEF UpdatedInput
  <2>2. CASE input \in DOMAIN plan.dir
    <3>1. PICK e \in Dirs : start[e] = input
      BY <1>1, <2>2, FolderFacts DEF RunInv, RunOK
    <3>2. at[e] = UpdatedInput
      BY <1>6, <2>2, <3>1 DEF UpdatedInput
    <3> QED BY <3>1, <3>2
  <2> QED BY <2>1, <2>2
<1>11. ~scattered => UpdatedInput = at[Root]
  <2> SUFFICES ASSUME ~scattered PROVE UpdatedInput = at[Root]
    OBVIOUS
  <2>1. input = start[Root] /\ at[Root] = Located(input, plan.dir)
    BY <1>4, <1>6, ReleaseAssumption
  <2>2. input \notin DOMAIN plan.dir => Located(input, plan.dir) = input
    BY <1>1, <2>1, RootLocated DEF RunInv, RunOK
  <2> QED BY <2>1, <2>2 DEF UpdatedInput
<1>12. InputIsTrue'
  BY <1>1, <1>3, <1>11 DEF InputIsTrue
<1>13. AllOrNothing'
  <2>1. \A f \in Planned' : at'[f] = plan'.file[f]
    BY <1>3, <1>7
  <2>2. \A d \in DOMAIN plan'.dir : IsDir(Located(d, plan.dir))'
    BY <1>3, <1>8 DEF IsDir
  <2> QED BY <1>1, <1>3, <2>1, <2>2 DEF AllOrNothing
<1> QED BY <1>1, <1>2, <1>9, <1>10, <1>12, <1>13, RunEnds

\* Whatever became of the run, the folder that held a planned file holds it.
LEMMA HomeIs ==
  ASSUME TreeInv, RunOK, phase # "idle", second = NoRename, NEW f \in Planned
  PROVE  \E d \in Dirs : start[d] = Parent(start[f]) /\ at[d] = Parent(tracked[f])
<1>1. /\ f \in Files /\ f \in Nodes /\ tracked[f] \in Paths /\ Here[f] = tracked[f]
  BY HereOf
<1>2. /\ Here \in [Nodes -> Paths] /\ Shape(Here, start)
      /\ start \in [Nodes -> Paths] /\ Tree(start, Nodes)
      /\ Root \in Nodes /\ Root \in Dirs /\ f # Root
  BY <1>1, ReleaseAssumption DEF RunOK, HereOK, HereIs, StartOK, Nodes
<1> DEFINE p == start[f]
           q == tracked[f]
           k == Len(p) - 1
<1>3. /\ p \in Paths /\ p # Gone /\ Len(q) = Len(p) /\ Len(p) \in Nat
      /\ start[Root] \in Paths /\ start[Root] # p /\ IsPrefix(start[Root], p)
  BY <1>1, <1>2, PathFacts DEF Shape, Tree
<1>4. q # Gone
  BY <1>1, <1>3, PathFacts
<1>5. Len(start[Root]) \in Nat /\ k \in Nat /\ Len(start[Root]) <= k /\ k <= Len(p) - 1
      /\ k \in 0..Len(p) /\ k \in 0..Len(q)
  <2>1. Len(start[Root]) \in Nat /\ Len(start[Root]) <= Len(p)
    BY <1>3, PrefixIs, PathFacts
  <2>2. Len(start[Root]) # Len(p)
    BY <1>3, PrefixIs, SamePath
  <2>3. \A a, b \in Nat : a <= b /\ a # b =>
          b - 1 \in Nat /\ a <= b - 1 /\ b - 1 <= b - 1 /\ b - 1 \in 0..b
    OBVIOUS
  <2> HIDE DEF p, q
  <2> QED BY <1>3, <2>1, <2>2, <2>3
<1>6. PICK d \in Dirs : start[d] = SubSeq(p, 1, k)
  <2>1. k \in Len(start[Root])..(Len(start[f]) - 1)
    BY <1>5
  <2>2. \A i \in Len(start[Root])..(Len(start[f]) - 1) :
          \E d \in Dirs : start[d] = SubSeq(start[f], 1, i)
    BY <1>1, <1>2 DEF Tree
  <2> HIDE DEF k
  <2> QED BY <2>1, <2>2
<1>7. /\ Parent(p) = SubSeq(p, 1, k) /\ Parent(q) = SubSeq(q, 1, k)
  BY <1>3 DEF Parent, Front
<1>8. d \in Nodes /\ start[d] \in Paths /\ Len(start[d]) = k /\ IsPrefix(start[d], p)
  <2>1. d \in Nodes /\ start[d] \in Paths
    BY <1>2 DEF Nodes
  <2>2. Len(start[d]) = k
    BY <1>3, <1>5, <1>6, Initial
  <2> QED BY <1>3, <1>5, <1>6, <2>1, <2>2, PrefixSubSeq
<1>9. Here[d] = at[d] /\ Here[d] \in Paths /\ Len(Here[d]) = k /\ IsPrefix(Here[d], q)
  BY <1>1, <1>2, <1>8 DEF Shape, Here
<1>10. at[d] = SubSeq(q, 1, k)
  BY <1>1, <1>9, PrefixSubSeq
<1> QED BY <1>6, <1>7, <1>10

LEMMA RunFail ==
  ASSUME TreeInv, RunInv, Fail
  PROVE  RunInv'
<1>1. /\ phase = "rollback" /\ journal = <<>> /\ ApplyRenameMapping(InputFromFiles)
      /\ outcome' = (IF Restored THEN "restored" ELSE "partial")
      /\ scattered' = (scattered \/ ~Restored) /\ Ended
  BY DEF Fail
<1>2. /\ second = NoRename /\ input \in Paths /\ Planned \subseteq Files
      /\ tracked \in [Planned -> Paths]
  BY <1>1 DEF TreeInv, TypeOK
<1>3. /\ phase' = "idle" /\ at' = at /\ taken' = taken /\ start' = start
      /\ input' = InputFromFiles
  BY <1>1 DEF Ended, ApplyRenameMapping
<1>4. /\ ~scattered => input = start[Root]
      /\ \A f \in Planned : known[f] = start[f]
  BY <1>1, <1>2 DEF RunInv, RunOK, StartOK
<1>5. InputFromFiles \in Paths
      /\ \/ InputFromFiles = input
         \/ \E d \in Dirs : start[d] = input /\ at[d] = InputFromFiles
  <2> DEFINE moved == {f \in Planned : Parent(known[f]) = input /\ Parent(tracked[f]) # input}
  <2>1. CASE moved = {}
    BY <1>2, <2>1 DEF InputFromFiles
  <2>2. CASE moved # {}
    <3>1. PICK g \in moved : InputFromFiles = Parent(tracked[g])
      BY <2>2 DEF InputFromFiles
    <3>2. /\ g \in Planned /\ Parent(start[g]) = input
      BY <1>4, <3>1
    <3>3. PICK d \in Dirs : start[d] = input /\ at[d] = InputFromFiles
      BY <1>1, <1>2, <3>1, <3>2, HomeIs DEF RunInv
    <3>4. Parent(tracked[g]) \in Paths
      BY <1>2, <3>2, FrontIs DEF Parent
    <3> QED BY <3>1, <3>3, <3>4
  <2> QED BY <2>1, <2>2
<1>6. ASSUME complete, NEW n \in Present PROVE at[n] = start[n]
  <2>1. PICK h \in [Nat -> [Nodes -> Paths]] :
          Way(h, journal, start, Present) /\ \A m \in Present : at[m] = h[Len(journal)][m]
    BY <1>1, <1>6 DEF RunInv, RunOK, BackOK
  <2>2. Len(journal) = 0
    BY <1>1, EmptySeq
  <2> QED BY <2>1, <2>2 DEF Way
<1>7. InputIsTrue'
  <2> SUFFICES ASSUME ~scattered, Restored PROVE InputFromFiles = at[Root]
    BY <1>1, <1>3 DEF InputIsTrue
  <2>1. Dirs \subseteq Present /\ Root \in Dirs
    BY ReleaseAssumption DEF Present, Nodes, TreeInv, DiskOK
  <2>2. \A d \in Dirs : at[d] = start[d]
    BY <1>6, <2>1 DEF Restored
  <2> QED BY <1>4, <1>5, <2>1, <2>2
<1>8. AllOrNothing'
  <2>1. outcome' = "restored" => \A n \in Nodes \ taken : at[n] = start[n]
    BY <1>1, <1>6 DEF Restored, Present
  <2>2. outcome' # "success"
    BY <1>1
  <2> QED BY <1>3, <2>1, <2>2 DEF AllOrNothing
<1> QED BY <1>1, <1>2, <1>5, <1>7, <1>8, RunEnds

-----------------------------------------------------------------------------
(* The start, and all steps together.                                      *)

\* No file that stays as it is lies in a folder the accepted plan renames.
NothingLeftBehind ==
  \A f \in Files \ DOMAIN plan'.file :
    Located(Parent(known[f]), plan'.dir) = Parent(known[f])

\* So it is of every run, unless a file got no name.
LEMMA NamedAreTakenAlong ==
  ASSUME TypeOK, ~Skipping, Start
  PROVE  NothingLeftBehind
<1>1. known \in [Files -> Paths] /\ input \in Paths
  BY DEF TypeOK
<1>2. PICK names \in [Files -> FileNames] : PlanFits(plan', Files, names)
  BY <1>1, StartIs
<1>3. /\ \A f \in Files : /\ known[f] \in Paths /\ names[f] \in Names
                          /\ Parent(known[f]) \in Paths
      /\ \A d \in DOMAIN plan'.dir : plan'.dir[d] \in Names
  BY <1>1, <1>2, NamesIn, FrontIs DEF Parent, PlanFits
<1>4. \A f \in Files :
        LET q == Located(Parent(known[f]), plan'.dir) IN Front(Append(q, names[f])) = q
  BY <1>3, LocatedIs, AppendIs
<1>5. \A f \in Files \ DOMAIN plan'.file :
        Append(Located(Parent(known[f]), plan'.dir), names[f]) = known[f]
  BY <1>2 DEF PlanFits
<1> QED BY <1>4, <1>5 DEF NothingLeftBehind, Parent

LEMMA RunStart ==
  ASSUME TreeInv, RunInv, Start, NothingLeftBehind
  PROVE  RunInv'
<1>1. /\ phase = "idle" /\ taken = {} /\ phase' = "vacate" /\ journal' = <<>>
      /\ complete' = TRUE /\ start' = at /\ at' = at /\ taken' = taken
      /\ known' = known /\ input' = input /\ second' = second /\ scattered' = scattered
  BY DEF Start
<1>2. /\ TypeOK /\ known \in [Files -> Paths] /\ input \in Paths /\ second = NoRename
      /\ at \in [Nodes -> Paths] /\ Tree(at, Nodes)
  <2>1. Present = Nodes
    BY <1>1 DEF Present
  <2> QED BY <1>1, <2>1 DEF TreeInv, TypeOK, DiskOK
<1>3. PICK named \in SUBSET Files : \E names \in [named -> FileNames] :
        /\ PlanFits(plan', named, names) /\ Preflight(plan')
        /\ todo' = Blocking(plan')
        /\ tracked' = [f \in DOMAIN plan'.file |-> known[f]]
  BY <1>2, StartIs
<1>4. PICK names \in [named -> FileNames] :
        /\ PlanFits(plan', named, names) /\ Preflight(plan')
        /\ todo' = Blocking(plan')
        /\ tracked' = [f \in DOMAIN plan'.file |-> known[f]]
  BY <1>3
<1>5. /\ \A f \in Files : f \in Nodes /\ f \notin Dirs /\ known[f] = at[f]
      /\ ~scattered => input = at[Root]
  BY <1>1, ReleaseAssumption DEF RunInv, IdleOK, InputIsTrue, Nodes
<1>6. /\ Planned' = DOMAIN plan'.file /\ Planned' \subseteq Files
      /\ \A f \in Planned' : tracked'[f] = at[f]
  BY <1>4, <1>5 DEF Planned, PlanFits
<1>7. /\ \A f : Intermediate(plan, f)' = Intermediate(plan', f)
      /\ Blocking(plan)' = Blocking(plan')
  BY <1>1 DEF Intermediate, Blocking, Moving
<1>8. StartOK'
  BY <1>1, <1>2, <1>5 DEF StartOK, Tree
<1>9. PlanOK'
  <2>1. /\ \A f \in named : /\ known[f] \in Paths /\ names[f] \in Names /\ names[f] \in FileNames
                            /\ Parent(known[f]) \in Paths
        /\ \A d \in DOMAIN plan'.dir :
             /\ plan'.dir[d] \in Names /\ plan'.dir[d] \in RootNames \cup SeasonNames
             /\ Located(d, plan'.dir) # d
    BY <1>2, <1>4, NamesIn, FrontIs DEF Parent, PlanFits
  <2>2. \A f \in named :
          LET q == Located(Parent(known[f]), plan'.dir) IN
          /\ Front(Append(q, names[f])) = q /\ Last(Append(q, names[f])) = names[f]
    BY <2>1, LocatedIs, AppendIs
  <2>3. \A f \in named : Append(Located(Parent(known[f]), plan'.dir), names[f]) =
                           IF f \in Planned' THEN plan'.file[f] ELSE known[f]
    BY <1>4, <1>6 DEF PlanFits
  <2>4. \A f \in Files \ Planned' : Located(Parent(at[f]), plan'.dir) = Parent(at[f])
    BY <1>5, <1>6 DEF NothingLeftBehind
  <2>5. ASSUME NEW f \in Planned'
        PROVE  /\ plan'.file[f] = Append(Located(Parent(at[f]), plan'.dir), Last(plan'.file[f]))
               /\ plan'.file[f] # at[f] /\ Last(plan'.file[f]) \in FileNames
    <3>1. f \in named /\ known[f] = at[f] /\ names[f] \in FileNames
      BY <1>4, <1>5, <1>6 DEF PlanFits
    <3>2. plan'.file[f] = Append(Located(Parent(known[f]), plan'.dir), names[f])
      BY <2>3, <3>1, Zenon
    <3>3. Last(plan'.file[f]) = names[f]
      BY <2>2, <3>1, <3>2
    <3>4. plan'.file[f] # known[f]
      BY <1>4, <1>6 DEF PlanFits
    <3> QED BY <3>1, <3>2, <3>3, <3>4
  <2>6. ASSUME NEW f \in Planned', NEW n \in Nodes, Intermediate(plan', f) = at[n]
        PROVE  n = f \/ n \in Planned'
    <3>1. \/ Intermediate(plan', f) \in {known[g] : g \in Moving(plan')}
          \/ Exists(Intermediate(plan', f)) => Intermediate(plan', f) = known[f]
      BY <1>4, <1>6 DEF Preflight
    <3>2. CASE Intermediate(plan', f) \in {known[g] : g \in Moving(plan')}
      <4>1. PICK g \in Planned' : Intermediate(plan', f) = known[g]
        BY <1>6, <3>2 DEF Moving
      <4> QED BY <1>2, <1>5, <1>6, <2>6, <4>1 DEF Tree
    <3>3. CASE Exists(Intermediate(plan', f)) => Intermediate(plan', f) = known[f]
      BY <1>2, <1>5, <1>6, <2>6, <3>3 DEF Tree, Exists
    <3> QED BY <3>1, <3>2, <3>3
  <2>7. \A f, g \in Planned' : Intermediate(plan', f) = Intermediate(plan', g) => f = g
    BY <1>4, <1>6 DEF Preflight
  <2>8. \A d \in DOMAIN plan'.dir : \E e \in Dirs : at[e] = d
    BY <1>4 DEF Preflight, IsDir
  <2> QED BY <1>1, <1>7, <2>1, <2>4, <2>5, <2>6, <2>7, <2>8 DEF PlanOK
<1>10. FilesOK' /\ FoldersOK'
  BY <1>1, <1>2, <1>4, <1>6, <1>7 DEF FilesOK, FoldersOK
<1>11. Here' = at
  <2>1. ASSUME NEW n \in Nodes PROVE Here'[n] = at[n]
    BY <1>1, <1>2, <1>5, <1>6 DEF Here, Nodes
  <2>2. Here' = [n \in Nodes |-> Here'[n]]
    BY Zenon DEF Here
  <2> QED BY <1>2, <2>1, <2>2
<1>12. HereOK'
  <2>1. HereIs'
    BY <1>1, <1>2, <1>11 DEF HereIs, Shape, Present
  <2>2. Tree(Here, Nodes)'
    BY <1>2, <1>11 DEF Tree
  <2>3. Replay' = [f \in Planned' |-> known[f]]
    <3>1. PICK h : h[0] = [f \in Planned' |-> known[f]]
      <4>1. [i \in {0} |-> [f \in Planned' |-> known[f]]][0] = [f \in Planned' |-> known[f]]
        OBVIOUS
      <4> QED BY <4>1
    <3>2. Len(journal') = 0 /\ 1..0 = {}
      BY <1>1, EmptySeq
    <3>3. Chain(h, Len(journal))'
      BY <1>1, <3>1, <3>2 DEF Chain
    <3> QED BY <3>1, <3>2, <3>3, ReplayIsNext
  <2>4. Replay' = [f \in Planned' |-> Here'[f]]
    BY <1>5, <1>6, <1>11, <2>3
  <2> QED BY <2>1, <2>2, <2>4 DEF HereOK
<1>13. 1..Len(journal') = {} /\ Len(journal') = 0
  BY <1>1, EmptySeq
<1>14. UnplannedOK'
  BY <1>13 DEF UnplannedOK
<1>15. KindsOK'
  <2>1. \A f \in Planned' : Last(tracked'[f]) \in FileKind
    BY <1>5, <1>6 DEF FileKind
  <2>2. \A d \in DOMAIN plan'.dir : Last(d) \in DirKind
    <3>1. \A d \in DOMAIN plan'.dir : \E e \in Dirs : at[e] = d
      BY <1>4 DEF Preflight, IsDir
    <3> QED BY <3>1 DEF DirKind
  <2>3. FileKind' \subseteq FileKind
    BY <1>1, <1>13, <2>1 DEF FileKind
  <2>4. DirKind' \subseteq DirKind
    BY <1>1, <1>13, <2>2 DEF DirKind
  <2> QED BY <2>3, <2>4 DEF RunInv, RunOK, KindsOK
<1>16. BackOK'
  <2> DEFINE h == [i \in Nat |-> at]
  <2>1. h \in [Nat -> [Nodes -> Paths]] /\ h[0] = at
    BY <1>2
  <2> HIDE DEF h
  <2>2. Way(h, journal', start', Present') /\ \A n \in Present' : at'[n] = h[Len(journal')][n]
    BY <1>1, <1>13, <2>1 DEF Way
  <2> QED BY <2>1, <2>2 DEF BackOK
<1>17. RunOK'
  BY <1>8, <1>9, <1>12, <1>14, <1>15, <1>16 DEF RunOK
<1> QED BY <1>1, <1>10, <1>17 DEF RunInv, IdleOK, InputIsTrue, AllOrNothing

LEMMA RunInit ==
  ASSUME KindsApart, Init
  PROVE  RunInv
<1>1. /\ at = Home /\ known = [f \in Files |-> Home[f]] /\ input = Home[Root]
      /\ phase = "idle" /\ plan = NoPlan /\ tracked = <<>> /\ journal = <<>>
      /\ outcome = "none"
  BY DEF Init
<1>2. /\ Home \in [Nodes -> Paths] /\ Root \in Dirs /\ DOMAIN NoPlan.dir = {}
      /\ DOMAIN NoPlan.file = {} /\ 1..Len(journal) = {}
  BY <1>1, EmptySeq, ReleaseAssumption DEF NoPlan
<1>3. FileKind \subseteq FileNames \cup {Last(Home[f]) : f \in Files}
  BY <1>1, <1>2 DEF FileKind, Planned
<1>4. DirKind \subseteq RootNames \cup SeasonNames \cup {Last(Home[d]) : d \in Dirs}
  BY <1>1, <1>2 DEF DirKind
<1>5. KindsOK
  BY <1>3, <1>4 DEF KindsOK, KindsApart
<1>6. IdleOK /\ InputIsTrue /\ AllOrNothing
  BY <1>1, <1>2 DEF IdleOK, InputIsTrue, AllOrNothing, Nodes
<1> QED BY <1>1, <1>5, <1>6 DEF RunInv, RunOK, HereOK, StartOK, PlanOK, UnplannedOK, BackOK,
                                FilesOK, FoldersOK, Forward

LEMMA RunNext ==
  ASSUME TreeInv, RunInv, [Next]_vars, [Start => NothingLeftBehind]_vars
  PROVE  RunInv'
<1>1. CASE UNCHANGED vars
  BY <1>1, RunStutters
<1>2. CASE Start
  BY <1>1, <1>2, RunStart
<1>3. CASE SecondHalf
  <2>1. phase \in {"files", "folders"}
    BY <1>3, HalfIs DEF SecondHalf
  <2>2. CASE phase = "files"
    <3>1. RunOK' /\ FilesOK'
      BY <1>3, <2>2, RunSecondFile DEF RunInv
    <3>2. phase' = "files"
      BY <1>3, <2>2 DEF SecondHalf
    <3> QED BY <3>1, <3>2 DEF RunInv, FoldersOK, IdleOK, InputIsTrue, AllOrNothing
  <2>3. CASE phase = "folders"
    <3>1. RunOK' /\ FoldersOK'
      BY <1>3, <2>3, RunSecondFolder DEF RunInv
    <3>2. phase' = "folders"
      BY <1>3, <2>3 DEF SecondHalf
    <3> QED BY <3>1, <3>2 DEF RunInv, FilesOK, IdleOK, InputIsTrue, AllOrNothing
  <2> QED BY <2>1, <2>2, <2>3
<1>4. ASSUME NEW f \in Files, Vacate(f) PROVE RunInv'
  <2>1. RunOK' /\ FilesOK'
    BY <1>4, RunVacate DEF RunInv
  <2>2. phase' = "vacate"
    BY <1>4 DEF Vacate
  <2> QED BY <2>1, <2>2 DEF RunInv, FoldersOK, IdleOK, InputIsTrue, AllOrNothing
<1>5. ASSUME NEW f \in Files, RenameFile(f) PROVE RunInv'
  <2>1. RunOK' /\ FilesOK'
    BY <1>5, RunRenameFile DEF RunInv
  <2>2. phase' = "files"
    BY <1>5 DEF RenameFile
  <2> QED BY <2>1, <2>2 DEF RunInv, FoldersOK, IdleOK, InputIsTrue, AllOrNothing
<1>6. ASSUME NEW d \in DOMAIN plan.dir, RenameFolder(d) PROVE RunInv'
  <2>1. RunOK' /\ FoldersOK'
    BY <1>6, RunRenameFolder DEF RunInv
  <2>2. phase' = "folders"
    BY <1>6 DEF RenameFolder
  <2> QED BY <2>1, <2>2 DEF RunInv, FilesOK, IdleOK, InputIsTrue, AllOrNothing
<1> QED BY <1>1, <1>2, <1>3, <1>4, <1>5, <1>6, RunNextPhase, RunRenameFails, RunUndoSucceeds,
           RunUndoFails, RunSucceed, RunFail, RunTake DEF Next, RunStep

\* The user accepts no plan that renames a folder and leaves a file of it out.
AllTakenAlong == [][Start => NothingLeftBehind]_vars

LEMMA RunAlways ==
  ASSUME KindsApart
  PROVE  Spec /\ AllTakenAlong => []RunInv
<1>1. Init => TreeInv /\ RunInv
  BY TreeInit, RunInit
<1>2. TreeInv /\ RunInv /\ [Next]_vars /\ [Start => NothingLeftBehind]_vars
        => (TreeInv /\ RunInv)'
  BY TreeNext, RunNext
<1> QED BY <1>1, <1>2, PTL DEF Spec, AllTakenAlong

\* Where every file gets a name (series_renamer never returns None), no run
\* leaves one behind: a file left out of the plan is in no renamed folder.
THEOREM NamesForAll ==
  ASSUME ~Skipping
  PROVE  Spec => AllTakenAlong
<1>1. TypeOK /\ [Next]_vars => [Start => NothingLeftBehind]_vars
  BY NamedAreTakenAlong
<1> QED BY <1>1, TypeCorrect, PTL DEF Spec, AllTakenAlong

\* However a run ends, and also when it ends half-way, the wizard's path of
\* every planned file is where that file is (apply_rename_mapping, the paths
\* replayed by _replay_journal).
THEOREM PathsStayTrue ==
  ASSUME KindsApart
  PROVE  Spec /\ AllTakenAlong => []PathsAreTrue
<1>1. TreeInv /\ RunInv => PathsAreTrue
  BY DEF TreeInv, TypeOK, RunInv, IdleOK, PathsAreTrue
<1>2. Spec => []TreeInv
  BY TreeInit, TreeNext, PTL DEF Spec
<1> QED BY <1>1, <1>2, RunAlways, PTL

\* A run that reports success did all it planned, and one that reports that
\* everything was put back did: every file and folder is where it was, by way
\* of the same temporary names backwards (RenameExecutor.execute, _rollback).
THEOREM AllOrNothingHolds ==
  ASSUME KindsApart
  PROVE  Spec /\ AllTakenAlong => []AllOrNothing
<1>1. RunInv => AllOrNothing
  BY DEF RunInv
<1> QED BY <1>1, RunAlways, PTL

\* The wizard's input path is where the opened folder is, until a run ends
\* half-way (_remap_input_path, _remap_input_path_from_current).
THEOREM InputStaysTrue ==
  ASSUME KindsApart
  PROVE  Spec /\ AllTakenAlong => []InputIsTrue
<1>1. RunInv => InputIsTrue
  BY DEF RunInv
<1> QED BY <1>1, RunAlways, PTL

\* Of a successful run every path of the wizard's files follows, of files whose
\* names stay too: what PathsFollowFolders demands can fail only where a folder
\* was renamed and a file in it got no name (apply_rename_mapping,
\* media_inputs.py).
THEOREM PathsFollow ==
  ASSUME KindsApart
  PROVE  Spec /\ AllTakenAlong => []PathsFollowFolders
<1>1. RunInv => PathsFollowFolders
  BY DEF RunInv, IdleOK, PathsFollowFolders
<1> QED BY <1>1, RunAlways, PTL
=============================================================================
