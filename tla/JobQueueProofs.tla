---------------------------- MODULE JobQueueProofs ----------------------------
(***************************************************************************)
(* Theorems about JobQueue for any number of jobs and trackers, any choice *)
(* of faults, any order of the queue and any interleaving with the picker, *)
(* crashes included.                                                       *)
(***************************************************************************)
EXTENDS JobQueue, TLAPS

\* The two steps that end a visit.
VisitEnds(t) == Visit(t) \/ GiveCode(t)

-----------------------------------------------------------------------------
(* What the operations on documents return.                                *)

\* Narrowing a document keeps it a document, touches only the three maps it
\* narrows, and selects exactly what is kept with its release data
\* (filter_context_document).
LEMMA FilterDocumentFields ==
  ASSUME NEW d \in Document,
         NEW keep \in SUBSET Trackers, NEW retain \in SUBSET Trackers,
         NEW f, f = FilterDocument(d, keep, retain)
  PROVE  /\ f \in Document
         /\ f.hosts = d.hosts \cap (keep \cup retain)
         /\ f.release = d.release \cap (keep \cup retain)
         /\ f.selected = (d.selected \cap keep)
                           \cup (keep \cap (d.release \cap (keep \cup retain)))
         /\ f.uploaded = d.uploaded
         /\ f.uncertain = d.uncertain
  BY DEF FilterDocument, Document

\* Resolving selects the trackers that never landed, as far as their release
\* data is there, and touches nothing else but the ledger (_resolve_uncertain).
LEMMA ResolvedFields ==
  ASSUME NEW d \in Document,
         NEW yes \in SUBSET Trackers, NEW no \in SUBSET Trackers,
         NEW r, r = ResolvedDocument(d, yes, no)
  PROVE  /\ r \in Document
         /\ r.hosts = d.hosts /\ r.release = d.release
         /\ r.selected = d.selected \cup (no \cap d.release)
         /\ r.uploaded = d.uploaded \cup yes
         /\ r.uncertain = d.uncertain \ (yes \cup no)
<1> DEFINE s == ReselectTrackers(d, no)
<1>1. /\ s \in Document
      /\ s.hosts = d.hosts /\ s.release = d.release
      /\ s.selected = d.selected \cup (no \cap d.release)
      /\ s.uploaded = d.uploaded /\ s.uncertain = d.uncertain
  BY DEF ReselectTrackers, Document
<1> HIDE DEF s
<1>2. r = [s EXCEPT !.uploaded = @ \cup yes, !.uncertain = @ \ (yes \cup no)]
  BY DEF ResolvedDocument, s
<1>3. /\ r \in Document
      /\ r.hosts = s.hosts /\ r.release = s.release /\ r.selected = s.selected
      /\ r.uploaded = s.uploaded \cup yes
      /\ r.uncertain = s.uncertain \ (yes \cup no)
  BY <1>1, <1>2 DEF Document
<1> QED BY <1>1, <1>3

\* The trackers a run landed on are trackers of its document.
LEMMA LandedIsSubset ==
  ASSUME NEW d \in Document, NEW os
  PROVE  /\ Landed(d, os) \in SUBSET d.hosts
         /\ Landed(d, os) \in SUBSET Trackers
         /\ Retained(d, os) \in SUBSET Trackers
  BY DEF Landed, Retained, RunTrackers, Document

\* What settling an archive makes of each part of its document (_settle).
LEMMA SettledArchiveFields ==
  ASSUME NEW d \in Document, NEW os
  PROVE  LET a == SettledArchive(d, os)
             uploaded == d.uploaded \cup Landed(d, os)
             unconfirmed == {t \in RunTrackers(d) : os[t] = "MAY_HAVE_UPLOADED"}
             uncertain == (d.uncertain \cup unconfirmed) \ uploaded
             pending == RunTrackers(d) \ (uploaded \cup uncertain)
         IN /\ a \in Document
            /\ a.uploaded = uploaded
            /\ a.uncertain = uncertain
            /\ a.hosts = d.hosts \cap (pending \cup uncertain)
            /\ a.release = d.release \cap (pending \cup uncertain)
            /\ a.selected = (d.selected \cap pending)
                              \cup (pending \cap (d.release \cap (pending \cup uncertain)))
<1> DEFINE uploaded == d.uploaded \cup Landed(d, os)
           unconfirmed == {t \in RunTrackers(d) : os[t] = "MAY_HAVE_UPLOADED"}
           uncertain == (d.uncertain \cup unconfirmed) \ uploaded
           pending == RunTrackers(d) \ (uploaded \cup uncertain)
           f == FilterDocument(d, pending, uncertain)
<1>1. /\ uploaded \in SUBSET Trackers
      /\ uncertain \in SUBSET Trackers
      /\ pending \in SUBSET Trackers
  BY LandedIsSubset DEF RunTrackers, Document
<1> HIDE DEF uploaded, uncertain, pending
<1>2. /\ f \in Document
      /\ f.hosts = d.hosts \cap (pending \cup uncertain)
      /\ f.release = d.release \cap (pending \cup uncertain)
      /\ f.selected = (d.selected \cap pending)
                        \cup (pending \cap (d.release \cap (pending \cup uncertain)))
  BY <1>1 DEF FilterDocument, Document
<1> DEFINE a == [f EXCEPT !.uploaded = uploaded, !.uncertain = uncertain]
<1>3. /\ a \in Document
      /\ a.uploaded = uploaded /\ a.uncertain = uncertain
      /\ a.hosts = f.hosts /\ a.release = f.release /\ a.selected = f.selected
  <2> HIDE DEF f
  <2> QED BY <1>1, <1>2 DEF Document
<1>4. SettledArchive(d, os) = a
  BY DEF SettledArchive, uploaded, uncertain, pending
<1> QED BY <1>2, <1>3, <1>4 DEF uploaded, uncertain, pending

-----------------------------------------------------------------------------
(* Type correctness.                                                       *)

\* The documents a job can have been saved with are documents.
LEMMA SavedDocuments ==
  ASSUME NEW d, d \in PlainDocuments \cup ArchiveDocuments
  PROVE  d \in Document
  BY DEF PlainDocuments, ArchiveDocuments

LEMMA TypeInit == Init => TypeOK
<1> SUFFICES ASSUME Init PROVE TypeOK
  OBVIOUS
<1>1. disk \in [Jobs -> Document]
  BY SavedDocuments DEF Init
<1>2. cur \in Jobs
  BY JobsAssumption DEF Init
<1>3. posts \in [Jobs -> [Trackers -> 0..MaxPosts]]
  BY DEF Init, MaxPosts
<1>4. /\ intact \in [Jobs -> SUBSET Trackers]
      /\ proved \in [Jobs -> SUBSET Trackers]
  BY <1>1 DEF Init, Document
<1>5. outcomes \in [Trackers -> Outcome] /\ outcomes = NotAttempted
  BY DEF Init, NotAttempted, Outcome
<1> QED BY <1>1, <1>2, <1>3, <1>4, <1>5 DEF Init, TypeOK

\* A document written at the end of a run is a document.
LEMMA SettledDocumentType ==
  ASSUME TypeOK
  PROVE  SettledDocument \in Document
<1>1. disk[cur] \in Document
  BY DEF TypeOK
<1>2. SettledArchive(disk[cur], outcomes) \in Document
  BY <1>1, SettledArchiveFields
<1>3. FilterDocument(disk[cur], Retained(disk[cur], outcomes), {}) \in Document
  BY <1>1, LandedIsSubset, FilterDocumentFields
<1> QED BY <1>2, <1>3 DEF SettledDocument

\* Settling a job, the one step that puts a new document on disk.
LEMMA TypeRewrite == TypeOK /\ RewriteJob => TypeOK'
<1> SUFFICES ASSUME TypeOK, RewriteJob PROVE TypeOK'
  OBVIOUS
<1>1. disk' \in [Jobs -> Document]
  BY SettledDocumentType DEF TypeOK, RewriteJob
<1>2. settled' \in [Jobs -> SUBSET Trackers]
  <2>1. Landed(disk[cur], outcomes) \in SUBSET Trackers
    BY LandedIsSubset DEF TypeOK
  <2> QED BY <2>1 DEF TypeOK, RewriteJob
<1> QED BY <1>1, <1>2 DEF TypeOK, RewriteJob, DropUnread, run, queue

\* Removing a job's directory, wholly or not.
LEMMA TypeRemove ==
  ASSUME TypeOK, NEW j \in Jobs, RemoveJob(j) \/ RemoveJobFails(j)
  PROVE  /\ present' \subseteq Jobs
         /\ disk' \in [Jobs -> Document]
         /\ intact' \in [Jobs -> SUBSET Trackers]
<1>1. NoDocument \in Document
  BY DEF NoDocument, Document
<1> QED BY <1>1 DEF TypeOK, RemoveJob, RemoveJobFails

LEMMA TypeNext == TypeOK /\ [Next]_vars => TypeOK'
<1> SUFFICES ASSUME TypeOK, [Next]_vars PROVE TypeOK'
  OBVIOUS
<1> USE DEF TypeOK, stored, run, queue, ghosts
<1>0. NotAttempted \in [Trackers -> Outcome]
  BY DEF NotAttempted, Outcome
<1>1. CASE StartJob
  BY <1>1 DEF StartJob
<1>2. CASE EndQueue
  BY <1>2 DEF EndQueue
<1>3. CASE SkipUnusable
  BY <1>0, <1>3 DEF SkipUnusable, ToNextJob
<1>4. CASE LoadJob
  <2>1. unread' \subseteq Trackers
    BY <1>4 DEF LoadJob
  <2> QED BY <1>4, <2>1 DEF LoadJob
<1>5. CASE DupesBlock
  BY <1>0, <1>5 DEF DupesBlock, ToNextJob
<1>6. CASE DupesPass
  BY <1>6 DEF DupesPass, RunTrackers, Document
<1>7. ASSUME NEW t \in Trackers, VisitEnds(t) PROVE TypeOK'
  <2>1. PICK r \in UnattendedResults("annotation" \in Faults, "callback" \in Faults) :
          /\ outcomes' = [outcomes EXCEPT ![t] = r.outcome]
          /\ posts' = [posts EXCEPT ![cur][t] = IF r.landed THEN AddPost(@) ELSE @]
          /\ proved' = [proved EXCEPT ![cur] =
                          IF HasLanded(r.outcome) THEN @ \cup {t} ELSE @]
    BY <1>7 DEF VisitEnds, Visit, GiveCode, Visited
  <2>2. r.outcome \in Outcome
    BY DEF UnattendedResults, Outcome
  <2>3. outcomes' \in [Trackers -> Outcome]
    BY <2>1, <2>2
  <2>4. posts' \in [Jobs -> [Trackers -> 0..MaxPosts]]
    BY <2>1 DEF AddPost, MaxPosts
  <2>5. proved' \in [Jobs -> SUBSET Trackers]
    BY <2>1
  <2> QED BY <1>7, <2>3, <2>4, <2>5 DEF VisitEnds, Visit, GiveCode, Visited
<1>8. CASE EndRun
  BY <1>8 DEF EndRun
<1>9. CASE Rebuild
  <2>1. intact' \in [Jobs -> SUBSET Trackers] /\ unread' \subseteq Trackers
    BY <1>9 DEF Rebuild
  <2> QED BY <1>9, <2>1 DEF Rebuild
<1>10. CASE KeepJob
  <2>1. intact' \in [Jobs -> SUBSET Trackers]
    BY <1>10 DEF KeepJob, DropUnread
  <2> QED BY <1>0, <1>10, <2>1 DEF KeepJob, ToNextJob
<1>11. CASE RewriteJob
  BY <1>11, TypeRewrite
<1>12. CASE RewriteFails
  BY <1>0, <1>12 DEF RewriteFails, ToNextJob
<1>13. CASE PruneNfos
  BY <1>0, <1>13 DEF PruneNfos, ToNextJob
<1>14. CASE FinishJob
  <2>1. /\ present' \subseteq Jobs
        /\ disk' \in [Jobs -> Document]
        /\ intact' \in [Jobs -> SUBSET Trackers]
    BY <1>14, TypeRemove DEF FinishJob
  <2>2. settled' \in [Jobs -> SUBSET Trackers]
    <3>1. Landed(disk[cur], outcomes) \in SUBSET Trackers
      BY LandedIsSubset
    <3> QED BY <1>14, <3>1 DEF FinishJob
  <2> QED BY <1>0, <1>14, <2>1, <2>2 DEF FinishJob, ToNextJob
<1>15. CASE Rest
  BY <1>15 DEF Rest, vars
<1>16. CASE Enqueue
  BY <1>16 DEF Enqueue
<1>17. CASE Cancel
  BY <1>17 DEF Cancel
<1>18. CASE Crash
  BY <1>0, <1>18 DEF Crash
<1>19. ASSUME NEW j \in Jobs, Resolve(j) PROVE TypeOK'
  <2>1. PICK yes \in SUBSET disk[j].uncertain, no \in SUBSET disk[j].uncertain :
          /\ disk' = [disk EXCEPT ![j] = ResolvedDocument(@, yes, no)]
          /\ proved' = [proved EXCEPT ![j] = @ \cup yes]
    BY <1>19 DEF Resolve
  <2>2. yes \in SUBSET Trackers /\ no \in SUBSET Trackers
    BY DEF Document
  <2>3. ResolvedDocument(disk[j], yes, no) \in Document
    BY <2>2, ResolvedFields
  <2> QED BY <1>19, <2>1, <2>2, <2>3 DEF Resolve
<1>20. ASSUME NEW j \in Jobs, DeleteSelected(j) PROVE TypeOK'
  BY <1>20, TypeRemove DEF DeleteSelected
<1>21. CASE UNCHANGED vars
  BY <1>21 DEF vars
<1>22. CASE AskForCode
  BY <1>22 DEF AskForCode
<1> QED
  BY <1>1, <1>2, <1>3, <1>4, <1>5, <1>6, <1>7, <1>8, <1>9, <1>10, <1>11, <1>12,
     <1>13, <1>14, <1>15, <1>16, <1>17, <1>18, <1>19, <1>20, <1>21, <1>22
  DEF Next, QueueStep, VisitEnds

\* Every variable stays in its range, and nothing of one job's run is in memory
\* when the next one starts.
THEOREM TypeCorrect == Spec => []TypeOK
<1>1. Init => TypeOK
  BY TypeInit
<1>2. TypeOK /\ [Next]_vars => TypeOK'
  BY TypeNext
<1> QED BY <1>1, <1>2, PTL DEF Spec

-----------------------------------------------------------------------------
(* The inductive invariant.                                                *)

LEMMA ConsistentInit == Init => Consistent
<1> SUFFICES ASSUME Init PROVE Consistent
  OBVIOUS
<1>1. TypeOK
  BY TypeInit
<1>2. RunConsistent
  <2>1. \A t \in Trackers : ~HasLanded(outcomes[t])
    BY DEF Init, NotAttempted, HasLanded
  <2> QED BY <2>1 DEF Init, RunConsistent
<1>3. DocumentsConsistent
  <2> SUFFICES ASSUME NEW j \in Jobs PROVE DocumentConsistent(j)
    BY DEF DocumentsConsistent
  <2>1. settled[j] = {} /\ proved[j] = disk[j].uploaded
    BY DEF Init
  <2>2. CASE j \in Archives
    <3>1. disk[j] \in ArchiveDocuments
      BY <2>2 DEF Init
    <3> QED BY <2>1, <3>1 DEF ArchiveDocuments, DocumentConsistent, Ledger
  <2>3. CASE j \notin Archives
    <3>1. disk[j] \in PlainDocuments
      BY <2>3 DEF Init
    <3> QED BY <2>1, <2>3, <3>1 DEF PlainDocuments, DocumentConsistent
  <2> QED BY <2>2, <2>3
<1>4. SearchConsistent
  BY AnswersAssumption DEF Init, SearchConsistent
<1> QED BY <1>2, <1>3, <1>4 DEF Consistent

\* A run visits trackers of its document, and reports as landed what is proved.
LEMMA RunNext == TypeOK /\ RunConsistent /\ [Next]_vars => RunConsistent'
<1> SUFFICES ASSUME TypeOK, RunConsistent, [Next]_vars PROVE RunConsistent'
  OBVIOUS
<1> USE DEF RunConsistent, stored, run, queue, ghosts
<1>0. \A t \in Trackers : ~HasLanded(NotAttempted[t])
  BY DEF NotAttempted, HasLanded
<1>1. CASE StartJob
  BY <1>0, <1>1 DEF StartJob, TypeOK
<1>2. CASE EndQueue
  BY <1>2 DEF EndQueue
<1>3. CASE SkipUnusable
  BY <1>0, <1>3 DEF SkipUnusable, ToNextJob
<1>4. CASE LoadJob
  BY <1>4 DEF LoadJob
<1>5. CASE DupesBlock
  BY <1>0, <1>5 DEF DupesBlock, ToNextJob
<1>6. CASE DupesPass
  BY <1>6 DEF DupesPass
<1>7. ASSUME NEW t \in Trackers, VisitEnds(t) PROVE RunConsistent'
  <2>1. PICK r \in UnattendedResults("annotation" \in Faults, "callback" \in Faults) :
          /\ outcomes' = [outcomes EXCEPT ![t] = r.outcome]
          /\ proved' = [proved EXCEPT ![cur] =
                          IF HasLanded(r.outcome) THEN @ \cup {t} ELSE @]
    BY <1>7 DEF VisitEnds, Visit, GiveCode, Visited
  <2>2. ASSUME NEW u \in Trackers, HasLanded(outcomes'[u]) PROVE u \in proved'[cur]
    <3>1. CASE u = t
      BY <2>1, <2>2, <3>1 DEF TypeOK
    <3>2. CASE u # t
      BY <2>1, <2>2, <3>2 DEF TypeOK
    <3> QED BY <3>1, <3>2
  <2> QED BY <1>7, <2>2 DEF VisitEnds, Visit, GiveCode, Visited
<1>8. CASE EndRun
  BY <1>8 DEF EndRun
<1>9. CASE Rebuild
  BY <1>9 DEF Rebuild
<1>10. CASE KeepJob
  BY <1>0, <1>10 DEF KeepJob, ToNextJob
<1>11. CASE RewriteJob
  BY <1>11 DEF RewriteJob
<1>12. CASE RewriteFails
  BY <1>0, <1>12 DEF RewriteFails, ToNextJob
<1>13. CASE PruneNfos
  BY <1>0, <1>13 DEF PruneNfos, ToNextJob
<1>14. CASE FinishJob
  BY <1>0, <1>14 DEF FinishJob, ToNextJob
<1>15. CASE Rest
  BY <1>15 DEF Rest, vars
<1>16. CASE Enqueue
  BY <1>16 DEF Enqueue
<1>17. CASE Cancel
  BY <1>17 DEF Cancel
<1>18. CASE Crash
  BY <1>0, <1>18 DEF Crash
<1>19. ASSUME NEW j \in Jobs, Resolve(j) PROVE RunConsistent'
  <2>1. /\ proved[cur] \subseteq proved'[cur]
        /\ todo' = {} /\ pc' = "idle"
    BY <1>19 DEF Resolve, TypeOK
  <2> QED BY <1>19, <2>1 DEF Resolve
<1>20. ASSUME NEW j \in Jobs, DeleteSelected(j) PROVE RunConsistent'
  BY <1>20 DEF DeleteSelected, TypeOK
<1>21. CASE UNCHANGED vars
  BY <1>21 DEF vars
<1>22. CASE AskForCode
  BY <1>22 DEF AskForCode
<1> QED
  BY <1>1, <1>2, <1>3, <1>4, <1>5, <1>6, <1>7, <1>8, <1>9, <1>10, <1>11, <1>12,
     <1>13, <1>14, <1>15, <1>16, <1>17, <1>18, <1>19, <1>20, <1>21, <1>22
  DEF Next, QueueStep, VisitEnds

\* A document is all that DocumentConsistent reads of the disk; a tracker more
\* that is proved does not disturb it.
LEMMA DocumentKept ==
  ASSUME NEW j \in Jobs, DocumentConsistent(j),
         disk'[j] = disk[j], settled'[j] = settled[j],
         proved[j] \subseteq proved'[j]
  PROVE  DocumentConsistent(j)'
  BY DEF DocumentConsistent, Ledger

\* A job whose directory is gone holds nothing.
LEMMA DocumentRemoved ==
  ASSUME NEW j \in Jobs, DocumentConsistent(j), disk'[j] = NoDocument
  PROVE  DocumentConsistent(j)'
  BY DEF DocumentConsistent, NoDocument, Ledger

\* Settling a job leaves its document consistent: what landed comes out of every
\* map, what may have stays with its work (_settle).
LEMMA DocumentSettled ==
  ASSUME TypeOK, RunConsistent, DocumentConsistent(cur), RewriteJob
  PROVE  DocumentConsistent(cur)'
<1> DEFINE d == disk[cur]
           landed == Landed(d, outcomes)
<1>1. /\ d \in Document /\ cur \in Jobs /\ cur' = cur
      /\ disk'[cur] = SettledDocument
      /\ settled'[cur] = settled[cur] \cup landed
      /\ proved' = proved
  BY DEF RewriteJob, TypeOK, run, queue
<1>2. /\ landed \subseteq d.hosts /\ landed \subseteq Trackers
      /\ landed \subseteq proved[cur]
  BY <1>1, LandedIsSubset DEF Landed, RunConsistent
<1>3. CASE cur \in Archives
  <2> DEFINE unconfirmed == {t \in RunTrackers(d) : outcomes[t] = "MAY_HAVE_UPLOADED"}
             uploaded == d.uploaded \cup landed
             uncertain == (d.uncertain \cup unconfirmed) \ uploaded
             pending == RunTrackers(d) \ (uploaded \cup uncertain)
             a == SettledArchive(d, outcomes)
  <2>1. /\ a.uploaded = uploaded /\ a.uncertain = uncertain
        /\ a.hosts = d.hosts \cap (pending \cup uncertain)
        /\ a.release = d.release \cap (pending \cup uncertain)
        /\ a.selected = (d.selected \cap pending)
                          \cup (pending \cap (d.release \cap (pending \cup uncertain)))
    BY <1>1, SettledArchiveFields
  <2>2. disk'[cur] = a
    BY <1>1, <1>3 DEF SettledDocument
  <2>3. /\ unconfirmed \subseteq d.hosts
        /\ pending = d.hosts \ (uploaded \cup uncertain)
    BY DEF RunTrackers
  <2> HIDE DEF a, pending, unconfirmed, landed, d
  <2>4. /\ d.release \subseteq d.hosts /\ settled[cur] \cap d.hosts = {}
        /\ d.uploaded \subseteq proved[cur]
        /\ d.uncertain \subseteq d.hosts /\ d.hosts \subseteq d.release
    BY <1>3 DEF DocumentConsistent, d
  <2>5. /\ a.release \subseteq a.hosts /\ a.hosts \subseteq a.release
    BY <2>1, <2>4
  <2>6. /\ (settled[cur] \cup landed) \cap a.hosts = {}
        /\ a.uploaded \subseteq proved[cur]
    BY <1>2, <2>1, <2>3, <2>4
  <2>7. /\ a.selected \cap a.uploaded = {}
        /\ a.uncertain \cap (a.selected \cup a.uploaded) = {}
    BY <2>1, <2>3
  <2>8. /\ a.selected \cup a.uncertain \subseteq a.hosts
        /\ a.hosts \subseteq Ledger(a)
    BY <2>1, <2>3, <2>4 DEF Ledger
  <2> QED
    BY <1>1, <1>3, <2>2, <2>5, <2>6, <2>7, <2>8 DEF DocumentConsistent
<1>4. CASE cur \notin Archives
  <2> DEFINE f == FilterDocument(d, Retained(d, outcomes), {})
  <2>1. /\ f.hosts = d.hosts \cap (Retained(d, outcomes) \cup {})
        /\ f.release = d.release \cap (Retained(d, outcomes) \cup {})
        /\ f.uploaded = d.uploaded
    <3> HIDE DEF d
    <3>1. d \in Document
      BY <1>1
    <3> QED BY <3>1 DEF FilterDocument, Document
  <2>2. disk'[cur] = f
    BY <1>1, <1>4 DEF SettledDocument
  <2>3. Retained(d, outcomes) \cap landed = {}
    BY DEF Retained
  <2> HIDE DEF f, landed, d
  <2>4. /\ d.release \subseteq d.hosts /\ settled[cur] \cap d.hosts = {}
        /\ d.uploaded \subseteq proved[cur]
    BY DEF DocumentConsistent, d
  <2>5. /\ f.release \subseteq f.hosts /\ (settled[cur] \cup landed) \cap f.hosts = {}
        /\ f.uploaded \subseteq proved[cur]
    BY <2>1, <2>3, <2>4
  <2> QED BY <1>1, <1>4, <2>2, <2>5 DEF DocumentConsistent
<1> QED BY <1>3, <1>4

LEMMA DocumentsNext ==
  TypeOK /\ RunConsistent /\ DocumentsConsistent /\ [Next]_vars
    => DocumentsConsistent'
<1> SUFFICES ASSUME TypeOK, RunConsistent, DocumentsConsistent, [Next]_vars,
                    NEW i \in Jobs
             PROVE  DocumentConsistent(i)'
  BY DEF DocumentsConsistent
<1> USE DEF stored, run, queue, ghosts
<1>0. DocumentConsistent(i)
  BY DEF DocumentsConsistent
<1>1. CASE UNCHANGED <<disk, proved, settled>>
  BY <1>0, <1>1, DocumentKept
<1>2. ASSUME NEW t \in Trackers, VisitEnds(t) PROVE DocumentConsistent(i)'
  <2>1. Visited(t)
    BY <1>2 DEF VisitEnds, Visit, GiveCode
  <2>2. PICK r \in UnattendedResults("annotation" \in Faults, "callback" \in Faults) :
          proved' = [proved EXCEPT ![cur] = IF HasLanded(r.outcome) THEN @ \cup {t}
                                                                    ELSE @]
    BY <2>1 DEF Visited
  <2>3. disk' = disk /\ settled' = settled /\ proved[i] \subseteq proved'[i]
    BY <2>1, <2>2 DEF Visited, TypeOK
  <2> QED BY <1>0, <2>1, <2>3, DocumentKept
<1>3. CASE RewriteJob
  <2>1. CASE i = cur
    BY <1>0, <1>3, <2>1, DocumentSettled DEF RewriteJob
  <2>2. CASE i # cur
    <3>1. disk'[i] = disk[i] /\ settled'[i] = settled[i] /\ proved' = proved
      BY <1>3, <2>2 DEF RewriteJob, TypeOK
    <3> QED BY <1>0, <3>1, DocumentKept
  <2> QED BY <2>1, <2>2
<1>4. CASE FinishJob
  <2>1. CASE i = cur /\ RemoveJob(cur)
    BY <1>0, <2>1, DocumentRemoved DEF RemoveJob, TypeOK
  <2>2. CASE i # cur \/ ~RemoveJob(cur)
    <3>1. disk'[i] = disk[i] /\ settled'[i] = settled[i] /\ proved' = proved
      BY <1>4, <2>2 DEF FinishJob, RemoveJob, RemoveJobFails, TypeOK
    <3> QED BY <1>0, <3>1, DocumentKept
  <2> QED BY <2>1, <2>2
<1>5. ASSUME NEW j \in Jobs, Resolve(j) PROVE DocumentConsistent(i)'
  <2>1. PICK yes \in SUBSET disk[j].uncertain, no \in SUBSET disk[j].uncertain :
          /\ yes \cap no = {}
          /\ disk' = [disk EXCEPT ![j] = ResolvedDocument(@, yes, no)]
          /\ proved' = [proved EXCEPT ![j] = @ \cup yes]
    BY <1>5 DEF Resolve
  <2>2. settled' = settled
    BY <1>5 DEF Resolve
  <2>3. CASE i # j
    BY <1>0, <2>1, <2>2, <2>3, DocumentKept DEF TypeOK
  <2>4. CASE i = j
    <3> DEFINE d == disk[i]
               r == ResolvedDocument(d, yes, no)
    <3>1. d \in Document /\ yes \in SUBSET Trackers /\ no \in SUBSET Trackers
      BY <2>4 DEF TypeOK, Document
    <3>2. /\ r.hosts = d.hosts /\ r.release = d.release
          /\ r.selected = d.selected \cup (no \cap d.release)
          /\ r.uploaded = d.uploaded \cup yes
          /\ r.uncertain = d.uncertain \ (yes \cup no)
      <4> HIDE DEF d
      <4> QED BY <3>1 DEF ResolvedDocument, ReselectTrackers, Document
    <3>3. disk'[i] = r /\ proved'[i] = proved[i] \cup yes
      BY <2>1, <2>4 DEF TypeOK
    <3> HIDE DEF r, d
    <3>4. /\ d.release \subseteq d.hosts /\ settled[i] \cap d.hosts = {}
          /\ d.uploaded \subseteq proved[i]
          /\ i \in Archives =>
               /\ d.selected \cap d.uploaded = {}
               /\ d.uncertain \cap (d.selected \cup d.uploaded) = {}
               /\ d.selected \cup d.uncertain \subseteq d.hosts
               /\ d.hosts \subseteq d.release
               /\ d.hosts \subseteq Ledger(d)
      BY <1>0 DEF DocumentConsistent, d
    <3>5. /\ yes \subseteq d.uncertain /\ no \subseteq d.uncertain /\ yes \cap no = {}
      BY <2>1, <2>4 DEF d
    <3>6. /\ r.release \subseteq r.hosts /\ settled[i] \cap r.hosts = {}
          /\ r.uploaded \subseteq proved[i] \cup yes
      BY <3>2, <3>4
    <3>7. i \in Archives =>
            /\ r.selected \cap r.uploaded = {}
            /\ r.uncertain \cap (r.selected \cup r.uploaded) = {}
            /\ r.selected \cup r.uncertain \subseteq r.hosts
            /\ r.hosts \subseteq r.release
      BY <3>2, <3>4, <3>5
    <3>8. i \in Archives => r.hosts \subseteq Ledger(r)
      BY <3>2, <3>4, <3>5 DEF Ledger
    <3> QED BY <2>2, <3>3, <3>6, <3>7, <3>8 DEF DocumentConsistent
  <2> QED BY <2>3, <2>4
<1>6. ASSUME NEW j \in Jobs, DeleteSelected(j) PROVE DocumentConsistent(i)'
  <2>1. CASE i = j /\ RemoveJob(j)
    BY <1>0, <2>1, DocumentRemoved DEF RemoveJob, TypeOK
  <2>2. CASE i # j \/ ~RemoveJob(j)
    <3>1. disk'[i] = disk[i] /\ settled' = settled /\ proved' = proved
      BY <1>6, <2>2 DEF DeleteSelected, RemoveJob, RemoveJobFails, TypeOK
    <3> QED BY <1>0, <3>1, DocumentKept
  <2> QED BY <2>1, <2>2
<1> QED
  BY <1>1, <1>2, <1>3, <1>4, <1>5, <1>6
  DEF Next, QueueStep, StartJob, EndQueue, SkipUnusable, LoadJob, DupesBlock,
      DupesPass, AskForCode, VisitEnds, EndRun, Rebuild, KeepJob, RewriteFails,
      PruneNfos, Rest, Enqueue, Cancel, Crash, vars

\* A run starts only where no search finds the release, and a visit is the only
\* thing that gives it to a tracker.
LEMMA SearchNext == TypeOK /\ SearchConsistent /\ [Next]_vars => SearchConsistent'
<1> SUFFICES ASSUME TypeOK, SearchConsistent, [Next]_vars
             PROVE  /\ \A j \in Jobs, t \in Searchable : posts'[j][t] <= 1
                    /\ \A t \in todo' \cap Searchable : posts'[cur'][t] = 0
  BY DEF SearchConsistent
<1> USE DEF SearchConsistent, stored, run, queue
<1>1. CASE posts' = posts /\ todo' = {}
  BY <1>1
<1>2. CASE UNCHANGED <<posts, cur, todo>>
  BY <1>2
<1>3. CASE DupesPass
  BY <1>3 DEF DupesPass
<1>4. CASE StartJob
  BY <1>4 DEF StartJob, TypeOK
<1>5. ASSUME NEW t \in Trackers, VisitEnds(t)
      PROVE  /\ \A j \in Jobs, u \in Searchable : posts'[j][u] <= 1
             /\ \A u \in todo' \cap Searchable : posts'[cur'][u] = 0
  <2>1. /\ todo' = todo \ {t} /\ cur' = cur /\ t \in todo
        /\ todo \subseteq Trackers /\ cur \in Jobs
    BY <1>5 DEF VisitEnds, Visit, GiveCode, Visited, TypeOK
  <2>2. PICK n \in {posts[cur][t], AddPost(posts[cur][t])} :
          posts' = [posts EXCEPT ![cur][t] = n]
    BY <1>5 DEF VisitEnds, Visit, GiveCode, Visited
  <2>3. t \in Searchable => n <= 1
    BY <2>1, <2>2 DEF AddPost, MaxPosts
  <2>4. ASSUME NEW j \in Jobs, NEW u \in Trackers
        PROVE  posts'[j][u] = IF j = cur /\ u = t THEN n ELSE posts[j][u]
    BY <2>2 DEF TypeOK
  <2> QED BY <2>1, <2>3, <2>4, AnswersAssumption
<1> QED
  BY <1>1, <1>2, <1>3, <1>4, <1>5
  DEF Next, QueueStep, VisitEnds, EndQueue, SkipUnusable, LoadJob, DupesBlock,
      AskForCode, EndRun,
      Rebuild, KeepJob, RewriteJob, RewriteFails, PruneNfos, FinishJob, Rest,
      Enqueue, Cancel, Crash, Resolve, DeleteSelected, ToNextJob, vars

\* The invariant every other theorem rests on.
THEOREM Consistency == Spec => [](TypeOK /\ Consistent)
<1>1. Init => TypeOK /\ Consistent
  BY TypeInit, ConsistentInit
<1>2. TypeOK /\ Consistent /\ [Next]_vars => TypeOK' /\ Consistent'
  BY TypeNext, RunNext, DocumentsNext, SearchNext DEF Consistent
<1> QED BY <1>1, <1>2, PTL DEF Spec

-----------------------------------------------------------------------------
(* What the invariant gives.                                               *)

\* An archive says one thing of each tracker, and holds the work of every
\* tracker that is to do or may turn out to be.
THEOREM LedgerCorrect == Spec => []ArchiveLedger
<1>1. DocumentsConsistent => ArchiveLedger
  BY JobsAssumption DEF DocumentsConsistent, DocumentConsistent, ArchiveLedger
<1> QED BY <1>1, Consistency, PTL DEF Consistent

\* A tracker whose duplicate search finds what is there is not given a release
\* twice, through crashes and failed writes.
THEOREM NeverTwice == Spec => []AtMostOnce
<1>1. SearchConsistent => AtMostOnce
  BY DEF SearchConsistent, AtMostOnce
<1> QED BY <1>1, Consistency, PTL DEF Consistent

\* Once the removal of a tracker is on disk no run of the job sends to it.
THEOREM SettledStaysSettled == Spec => NoResendAfterSettle
<1>1. TypeOK /\ Consistent /\ [Next]_vars
        => [\A j \in Jobs : \A t \in settled[j] : posts'[j][t] = posts[j][t]]_vars
  <2> SUFFICES ASSUME TypeOK, Consistent, [Next]_vars,
                      NEW j \in Jobs, NEW t \in settled[j]
               PROVE  posts'[j][t] = posts[j][t]
    OBVIOUS
  <2>1. CASE posts' = posts
    BY <2>1
  <2>2. ASSUME NEW u \in Trackers, VisitEnds(u) PROVE posts'[j][t] = posts[j][t]
    <3>1. u \in disk[cur].hosts
      BY <2>2 DEF VisitEnds, Visit, GiveCode, Visited, Consistent, RunConsistent, RunTrackers
    <3>2. ~(j = cur /\ t = u)
      BY <3>1 DEF Consistent, DocumentsConsistent, DocumentConsistent
    <3>3. PICK n : posts' = [posts EXCEPT ![cur][u] = n]
      BY <2>2 DEF VisitEnds, Visit, GiveCode, Visited
    <3>4. t \in Trackers /\ cur \in Jobs
      BY DEF TypeOK
    <3> QED BY <3>2, <3>3, <3>4 DEF TypeOK
  <2> QED
    BY <2>1, <2>2
    DEF Next, QueueStep, StartJob, EndQueue, SkipUnusable, LoadJob, DupesBlock,
        DupesPass, AskForCode, VisitEnds, EndRun, Rebuild, KeepJob, RewriteJob,
        RewriteFails, PruneNfos, FinishJob, Rest, Enqueue, Cancel, Crash, Resolve, DeleteSelected, vars
<1> QED BY <1>1, Consistency, PTL DEF Spec, NoResendAfterSettle

\* Settling an archive moves its trackers between the lists and drops none.
LEMMA SettledLedger ==
  ASSUME TypeOK, DocumentConsistent(cur), cur \in Archives
  PROVE  Ledger(SettledArchive(disk[cur], outcomes)) = Ledger(disk[cur])
<1> DEFINE d == disk[cur]
           unconfirmed == {t \in RunTrackers(d) : outcomes[t] = "MAY_HAVE_UPLOADED"}
           uploaded == d.uploaded \cup Landed(d, outcomes)
           uncertain == (d.uncertain \cup unconfirmed) \ uploaded
           pending == RunTrackers(d) \ (uploaded \cup uncertain)
           a == SettledArchive(d, outcomes)
<1>1. d \in Document
  BY DEF TypeOK
<1>2. /\ a.uploaded = uploaded /\ a.uncertain = uncertain
      /\ a.selected = (d.selected \cap pending)
                        \cup (pending \cap (d.release \cap (pending \cup uncertain)))
  BY <1>1, SettledArchiveFields
<1>3. /\ unconfirmed \subseteq d.hosts /\ Landed(d, outcomes) \subseteq d.hosts
      /\ pending = d.hosts \ (uploaded \cup uncertain)
  BY <1>1, LandedIsSubset DEF RunTrackers
<1>4. /\ d.selected \cup d.uncertain \subseteq d.hosts
      /\ d.hosts \subseteq d.release
      /\ d.hosts \subseteq Ledger(d)
  BY DEF DocumentConsistent
<1> HIDE DEF a, d, pending, unconfirmed
<1>5. Ledger(a) = d.hosts \cup d.uploaded
  BY <1>2, <1>3, <1>4 DEF Ledger
<1>6. Ledger(d) = d.hosts \cup d.uploaded
  BY <1>4 DEF Ledger
<1> QED BY <1>5, <1>6 DEF a, d

\* No step makes an archive forget a tracker, or take up a new one.
THEOREM LedgerComplete == Spec => LedgerKeepsTrackers
<1>1. TypeOK /\ Consistent /\ [Next]_vars
        => [\A j \in Archives :
              j \in present /\ j \in present' => Ledger(disk'[j]) = Ledger(disk[j])]_vars
  <2> SUFFICES ASSUME TypeOK, Consistent, [Next]_vars,
                      NEW j \in Archives, j \in present, j \in present'
               PROVE  Ledger(disk'[j]) = Ledger(disk[j])
    OBVIOUS
  <2>1. /\ j \in Jobs /\ disk \in [Jobs -> Document] /\ cur \in Jobs
        /\ \A i \in Jobs : DocumentConsistent(i)
    BY JobsAssumption DEF TypeOK, Consistent, DocumentsConsistent
  <2>2. CASE disk' = disk
    BY <2>2
  <2>3. CASE RewriteJob
    <3>1. CASE j = cur
      <4>1. disk'[j] = SettledArchive(disk[cur], outcomes)
        BY <2>1, <2>3, <3>1 DEF RewriteJob, SettledDocument
      <4> QED BY <2>1, <3>1, <4>1, SettledLedger
    <3>2. CASE j # cur
      BY <2>1, <2>3, <3>2 DEF RewriteJob
    <3> QED BY <3>1, <3>2
  <2>4. CASE FinishJob
    BY <2>1, <2>4 DEF FinishJob, RemoveJob, RemoveJobFails
  <2>5. ASSUME NEW i \in Jobs, Resolve(i)
        PROVE  Ledger(disk'[j]) = Ledger(disk[j])
    <3>1. PICK yes \in SUBSET disk[i].uncertain, no \in SUBSET disk[i].uncertain :
            disk' = [disk EXCEPT ![i] = ResolvedDocument(@, yes, no)]
      BY <2>5 DEF Resolve
    <3>2. CASE i = j
      <4> DEFINE d == disk[j]
                 r == ResolvedDocument(d, yes, no)
      <4>1. d \in Document /\ d.uncertain \subseteq d.release
        BY <2>1 DEF DocumentConsistent
      <4>2. disk'[j] = r
        BY <2>1, <3>1, <3>2
      <4>3. yes \subseteq d.uncertain /\ no \subseteq d.uncertain
        BY <3>1, <3>2
      <4> HIDE DEF d
      <4>4. /\ r.selected = d.selected \cup (no \cap d.release)
            /\ r.uploaded = d.uploaded \cup yes
            /\ r.uncertain = d.uncertain \ (yes \cup no)
        BY <4>1 DEF ResolvedDocument, ReselectTrackers, Document
      <4> HIDE DEF r
      <4>5. Ledger(r) = Ledger(d)
        BY <4>1, <4>3, <4>4 DEF Ledger
      <4> QED BY <4>2, <4>5 DEF d
    <3>3. CASE i # j
      BY <2>1, <3>1, <3>3
    <3> QED BY <3>2, <3>3
  <2>6. ASSUME NEW i \in Jobs, DeleteSelected(i)
        PROVE  Ledger(disk'[j]) = Ledger(disk[j])
    BY <2>1, <2>6 DEF DeleteSelected, RemoveJob, RemoveJobFails
  <2> QED
    BY <2>2, <2>3, <2>4, <2>5, <2>6
    DEF Next, QueueStep, StartJob, EndQueue, SkipUnusable, LoadJob, DupesBlock,
        DupesPass, AskForCode, VisitEnds, Visit, GiveCode, Visited, EndRun, Rebuild,
        KeepJob, RewriteFails, PruneNfos, Rest,
        Enqueue, Cancel, Crash, stored, vars
<1> QED BY <1>1, Consistency, PTL DEF Spec, LedgerKeepsTrackers

-----------------------------------------------------------------------------
(* JobQueue implements PreparedWork, where sidecars are written and read.  *)

\* What settling takes out of the document is proved to have landed.
LEMMA SettledReleases ==
  ASSUME TypeOK, RunConsistent, DocumentConsistent(cur)
  PROVE  /\ SettledDocument.release \subseteq disk[cur].release
         /\ disk[cur].release \ SettledDocument.release \subseteq proved[cur]
<1> DEFINE d == disk[cur]
           landed == Landed(d, outcomes)
<1>1. d \in Document
  BY DEF TypeOK
<1>2. /\ landed \subseteq proved[cur]
      /\ d.release \subseteq d.hosts
      /\ d.uploaded \subseteq proved[cur]
  BY <1>1, LandedIsSubset DEF Landed, RunConsistent, DocumentConsistent
<1>3. CASE cur \in Archives
  <2> DEFINE unconfirmed == {t \in RunTrackers(d) : outcomes[t] = "MAY_HAVE_UPLOADED"}
             uploaded == d.uploaded \cup landed
             uncertain == (d.uncertain \cup unconfirmed) \ uploaded
             pending == RunTrackers(d) \ (uploaded \cup uncertain)
             a == SettledArchive(d, outcomes)
  <2>1. a.release = d.release \cap (pending \cup uncertain)
    BY <1>1, SettledArchiveFields
  <2>2. pending = d.hosts \ (uploaded \cup uncertain)
    BY DEF RunTrackers
  <2>3. SettledDocument = a
    BY <1>3 DEF SettledDocument
  <2> HIDE DEF a, d, pending, uncertain, landed
  <2>4. a.release \subseteq d.release /\ d.release \ a.release \subseteq proved[cur]
    BY <1>2, <2>1, <2>2
  <2> QED BY <2>3, <2>4 DEF d
<1>4. CASE cur \notin Archives
  <2> DEFINE f == FilterDocument(d, Retained(d, outcomes), {})
  <2>1. f.release = d.release \cap Retained(d, outcomes)
    <3> HIDE DEF d
    <3> QED BY <1>1 DEF FilterDocument, Document
  <2>2. Retained(d, outcomes) = d.hosts \ landed
    BY DEF Retained, RunTrackers
  <2>3. SettledDocument = f
    BY <1>4 DEF SettledDocument
  <2> HIDE DEF f, d, landed
  <2>4. f.release \subseteq d.release /\ d.release \ f.release \subseteq proved[cur]
    BY <1>2, <2>1, <2>2
  <2> QED BY <2>3, <2>4 DEF d
<1> QED BY <1>3, <1>4

\* A step that changes what one job holds changes WorkHeld there alone.
LEMMA HeldElsewhere ==
  ASSUME NEW j \in Jobs, NEW S,
         \A i \in Jobs \ {j} : disk'[i] = disk[i] /\ intact'[i] = intact[i],
         disk'[j].release \cap intact'[j] = S
  PROVE  WorkHeld' = [WorkHeld EXCEPT ![j] = S]
  BY DEF WorkHeld

\* Every step lets go of no work, of work that landed, or of a job the user
\* deleted.
LEMMA WorkNext ==
  TypeOK /\ Consistent /\ [Next]_vars /\ Faults \cap {"sidecar", "read"} = {}
    => [PW!PWNext]_(PW!pwVars)
<1> SUFFICES ASSUME TypeOK, Consistent, [Next]_vars, Faults \cap {"sidecar", "read"} = {}
             PROVE  PW!PWNext \/ UNCHANGED PW!pwVars
  OBVIOUS
<1> USE DEF stored, run, queue, ghosts
<1>0. /\ RunConsistent /\ cur \in Jobs
      /\ \A j \in Jobs : DocumentConsistent(j)
      /\ disk \in [Jobs -> Document]
      /\ intact \in [Jobs -> SUBSET Trackers]
      /\ proved \in [Jobs -> SUBSET Trackers]
      /\ WorkHeld \in [Jobs -> SUBSET Trackers]
  BY DEF TypeOK, Consistent, DocumentsConsistent, WorkHeld
<1>1. CASE UNCHANGED <<disk, intact, proved, discarded>>
  BY <1>1 DEF PW!pwVars, WorkHeld
<1>9. DropUnread => intact' = intact
  BY <1>0 DEF DropUnread, RunConsistent
<1>2. ASSUME NEW t \in Trackers, VisitEnds(t) PROVE PW!PWNext
  <2>1. PICK S \in SUBSET Trackers : proved' = [proved EXCEPT ![cur] = @ \cup S]
    <3>1. PICK r \in UnattendedResults("annotation" \in Faults, "callback" \in Faults) :
            proved' = [proved EXCEPT ![cur] =
                         IF HasLanded(r.outcome) THEN @ \cup {t} ELSE @]
      BY <1>2 DEF VisitEnds, Visit, GiveCode, Visited
    <3>2. proved' = [proved EXCEPT ![cur] =
                       @ \cup (IF HasLanded(r.outcome) THEN {t} ELSE {})]
      BY <1>0, <3>1
    <3> QED BY <3>2
  <2>2. WorkHeld' = WorkHeld /\ discarded' = discarded
    BY <1>2 DEF VisitEnds, Visit, GiveCode, Visited, WorkHeld
  <2> QED BY <1>0, <2>1, <2>2 DEF PW!PWNext, PW!Prove
<1>3. CASE RewriteJob
  <2> DEFINE gone == disk[cur].release \ SettledDocument.release
  <2>1. /\ gone \subseteq proved[cur]
        /\ SettledDocument.release = disk[cur].release \ gone
    BY <1>0, SettledReleases
  <2>2. /\ disk' = [disk EXCEPT ![cur] = SettledDocument]
        /\ intact' = intact /\ proved' = proved /\ discarded' = discarded
    BY <1>3, <1>9 DEF RewriteJob
  <2> HIDE DEF gone
  <2>3. WorkHeld' = [WorkHeld EXCEPT ![cur] = WorkHeld[cur] \ gone]
    <3>1. disk'[cur].release \cap intact'[cur] = WorkHeld[cur] \ gone
      BY <1>0, <2>1, <2>2 DEF WorkHeld
    <3> QED BY <1>0, <2>2, <3>1, HeldElsewhere
  <2> QED BY <1>0, <2>1, <2>2, <2>3 DEF PW!PWNext, PW!Release
<1>4. CASE PruneNfos
  <2>1. PICK stale \in SUBSET (intact[cur] \ disk[cur].release) :
          intact' = [intact EXCEPT ![cur] = (@ \cap disk[cur].release) \cup stale]
    BY <1>4 DEF PruneNfos
  <2>2. disk' = disk /\ proved' = proved /\ discarded' = discarded
    BY <1>4 DEF PruneNfos
  <2>3. WorkHeld' = WorkHeld
    BY <1>0, <2>1, <2>2 DEF WorkHeld
  <2> QED BY <2>2, <2>3 DEF PW!pwVars
<1>5. CASE FinishJob
  <2>1. /\ disk[cur].release \subseteq proved[cur]
        /\ proved' = proved /\ discarded' = discarded
    BY <1>0, <1>5
    DEF FinishJob, Retained, RunTrackers, Landed, RunConsistent,
        DocumentConsistent, Document
  <2>2. PICK left \in SUBSET WorkHeld[cur] :
          WorkHeld' = [WorkHeld EXCEPT ![cur] = left]
    <3>1. /\ \A i \in Jobs \ {cur} : disk'[i] = disk[i] /\ intact'[i] = intact[i]
          /\ disk'[cur].release \cap intact'[cur] \subseteq WorkHeld[cur]
      BY <1>0, <1>5
      DEF FinishJob, RemoveJob, RemoveJobFails, NoDocument, WorkHeld
    <3> QED BY <1>0, <3>1, HeldElsewhere
  <2>3. WorkHeld' = [WorkHeld EXCEPT ![cur] = @ \ (WorkHeld[cur] \ left)]
    BY <1>0, <2>2
  <2>4. WorkHeld[cur] \ left \in SUBSET proved[cur]
    BY <1>0, <2>1 DEF WorkHeld
  <2> QED BY <1>0, <2>1, <2>3, <2>4 DEF PW!PWNext, PW!Release
<1>6. ASSUME NEW j \in Jobs, Resolve(j) PROVE PW!PWNext
  <2>1. PICK yes \in SUBSET disk[j].uncertain, no \in SUBSET disk[j].uncertain :
          /\ disk' = [disk EXCEPT ![j] = ResolvedDocument(@, yes, no)]
          /\ proved' = [proved EXCEPT ![j] = @ \cup yes]
    BY <1>6 DEF Resolve
  <2>2. yes \in SUBSET Trackers
    BY <1>0 DEF Document
  <2>3. ResolvedDocument(disk[j], yes, no).release = disk[j].release
    BY <1>0 DEF ResolvedDocument, ReselectTrackers, Document
  <2>4. intact' = intact /\ discarded' = discarded
    BY <1>6 DEF Resolve
  <2>5. WorkHeld' = WorkHeld
    BY <1>0, <2>1, <2>3, <2>4 DEF WorkHeld
  <2> QED BY <2>1, <2>2, <2>4, <2>5 DEF PW!PWNext, PW!Prove
<1>7. ASSUME NEW j \in Jobs, DeleteSelected(j) PROVE PW!PWNext
  <2>1. proved' = proved /\ discarded' = discarded \cup {j}
    BY <1>7 DEF DeleteSelected
  <2>2. PICK left \in SUBSET WorkHeld[j] :
          WorkHeld' = [WorkHeld EXCEPT ![j] = left]
    <3>1. /\ \A i \in Jobs \ {j} : disk'[i] = disk[i] /\ intact'[i] = intact[i]
          /\ disk'[j].release \cap intact'[j] \subseteq WorkHeld[j]
      BY <1>0, <1>7
      DEF DeleteSelected, RemoveJob, RemoveJobFails, NoDocument, WorkHeld
    <3> QED BY <3>1, HeldElsewhere
  <2> QED BY <2>1, <2>2 DEF PW!PWNext, PW!Discard
<1>8. CASE Rebuild \/ KeepJob
  BY <1>1, <1>8, <1>9 DEF Rebuild, KeepJob
<1> QED
  BY <1>1, <1>2, <1>3, <1>4, <1>5, <1>6, <1>7, <1>8
  DEF Next, QueueStep, StartJob, EndQueue, SkipUnusable, LoadJob, DupesBlock,
      DupesPass, AskForCode, VisitEnds, EndRun, RewriteFails, Rest, Enqueue,
      Cancel, Crash, vars

\* Where a sidecar is never left half written and can always be read, prepared
\* work is given up only with proof that the release landed, or by the user:
\* JobQueue implements PreparedWork.
THEOREM WorkIsKept ==
  ASSUME Faults \cap {"sidecar", "read"} = {}
  PROVE  Spec => PreparedWorkKept
<1>1. Init => PW!PWInit
  <2> SUFFICES ASSUME Init PROVE PW!PWInit
    OBVIOUS
  <2>1. TypeOK
    BY TypeInit
  <2> QED BY <2>1 DEF Init, TypeOK, PW!PWInit, WorkHeld
<1>2. TypeOK /\ Consistent /\ [Next]_vars => [PW!PWNext]_(PW!pwVars)
  BY WorkNext
<1> QED BY <1>1, <1>2, Consistency, PTL DEF Spec, PreparedWorkKept, PW!PWSpec

-----------------------------------------------------------------------------
(* What an archive offers to run was not sent, where documents are written *)
(* and nobody is mistaken.                                                 *)

\* What the property is about: nothing is lost between a run and its document.
Dependable ==
  TruthfulUser /\ Faults \cap {"crash", "write", "annotation", "callback"} = {}

RunUnderWay == pc \in {"upload", "code", "rebuild", "settle"}
ReportedSent(o) == HasLanded(o) \/ o = "MAY_HAVE_UPLOADED"

\* The strengthening: only the run under way can have sent to a tracker its
\* document still selects, and then it reported so; it visits each tracker once.
Unsent ==
  /\ \A t \in todo : outcomes[t] = "NOT_ATTEMPTED"
  /\ \A j \in Archives \cap present : \A t \in disk[j].selected :
       posts[j][t] > 0 => j = cur /\ RunUnderWay /\ ReportedSent(outcomes[t])

\* Only what the run did not report stays selected in an archive it settles.
LEMMA SettledSelection ==
  ASSUME TypeOK, DocumentConsistent(cur), cur \in Archives,
         NEW t \in SettledArchive(disk[cur], outcomes).selected
  PROVE  t \in disk[cur].selected /\ ~ReportedSent(outcomes[t])
<1> DEFINE d == disk[cur]
           unconfirmed == {u \in RunTrackers(d) : outcomes[u] = "MAY_HAVE_UPLOADED"}
           uploaded == d.uploaded \cup Landed(d, outcomes)
           uncertain == (d.uncertain \cup unconfirmed) \ uploaded
           pending == RunTrackers(d) \ (uploaded \cup uncertain)
<1>1. t \in pending
  BY SettledArchiveFields DEF TypeOK
<1>2. t \in d.hosts /\ t \notin d.uploaded \cup d.uncertain
  BY <1>1 DEF RunTrackers
<1>3. t \in d.selected
  BY <1>2 DEF DocumentConsistent, Ledger
<1>4. ~HasLanded(outcomes[t]) /\ outcomes[t] # "MAY_HAVE_UPLOADED"
  BY <1>1 DEF RunTrackers, Landed
<1> QED BY <1>3, <1>4 DEF ReportedSent

LEMMA UnsentInit == Init => Unsent
<1> SUFFICES ASSUME Init PROVE Unsent
  OBVIOUS
<1>1. ASSUME NEW j \in Archives, NEW t \in disk[j].selected
      PROVE  ~(posts[j][t] > 0)
  <2>1. disk[j] \in ArchiveDocuments /\ j \in Jobs
    BY JobsAssumption DEF Init
  <2>2. t \in Trackers /\ t \notin disk[j].uploaded \cup disk[j].uncertain
    BY <2>1 DEF ArchiveDocuments, Document
  <2> QED BY <2>1, <2>2 DEF Init
<1>2. todo = {}
  BY DEF Init
<1> QED BY <1>1, <1>2 DEF Unsent

LEMMA UnsentNext ==
  TypeOK /\ Consistent /\ Unsent /\ Dependable /\ [Next]_vars => Unsent'
<1> SUFFICES ASSUME TypeOK, Consistent, Unsent, Dependable, [Next]_vars
             PROVE  Unsent'
  OBVIOUS
<1> USE DEF stored, run, queue, ghosts
<1>0. /\ cur \in Jobs /\ DocumentConsistent(cur) /\ todo \subseteq Trackers
      /\ Archives \subseteq Jobs /\ disk \in [Jobs -> Document]
      /\ \A t \in todo : outcomes[t] = "NOT_ATTEMPTED"
  BY JobsAssumption DEF TypeOK, Consistent, DocumentsConsistent, Unsent
<1>1. ASSUME UNCHANGED <<present, disk, posts>>, todo' = {}, ~RunUnderWay
      PROVE  Unsent'
  BY <1>1 DEF Unsent
<1>2. ASSUME UNCHANGED <<present, disk, posts, cur, outcomes>>,
             todo' \in {todo, {}}, RunUnderWay, RunUnderWay'
      PROVE  Unsent'
  BY <1>2 DEF Unsent
<1>3. CASE DupesPass
  <2>1. outcomes = NotAttempted /\ todo' \subseteq Trackers
    BY <1>0, <1>3 DEF DupesPass, TypeOK, RunTrackers, Document
  <2> QED BY <1>3, <2>1 DEF DupesPass, Unsent, RunUnderWay, NotAttempted
<1>4. ASSUME NEW t \in Trackers, VisitEnds(t) PROVE Unsent'
  <2>1. PICK r \in UnattendedResults("annotation" \in Faults, "callback" \in Faults) :
          /\ outcomes' = [outcomes EXCEPT ![t] = r.outcome]
          /\ posts' = [posts EXCEPT ![cur][t] = IF r.landed THEN AddPost(@) ELSE @]
    BY <1>4 DEF VisitEnds, Visit, GiveCode, Visited
  <2>2. r.landed => ReportedSent(r.outcome)
    BY DEF UnattendedResults, Dependable, ReportedSent, HasLanded
  <2>3. /\ todo' = todo \ {t} /\ t \in todo
        /\ pc \in {"upload", "code"} /\ pc' = "upload"
        /\ UNCHANGED <<present, disk, cur>>
    BY <1>4 DEF VisitEnds, Visit, GiveCode, Visited
  <2>4. ASSUME NEW j \in Archives \cap present, NEW u \in disk[j].selected,
               posts'[j][u] > 0
        PROVE  j = cur /\ ReportedSent(outcomes'[u])
    <3>1. u \in Trackers /\ j \in Jobs
      BY <1>0 DEF Document
    <3>2. CASE j = cur /\ u = t
      <4>1. ~ReportedSent(outcomes[t])
        BY <1>0, <2>3 DEF ReportedSent, HasLanded
      <4>2. posts[cur][t] \in 0..MaxPosts /\ ~(posts[cur][t] > 0)
        BY <1>0, <2>3, <2>4, <3>2, <4>1 DEF Unsent, TypeOK
      <4>3. r.landed
        BY <1>0, <2>1, <2>4, <3>1, <3>2, <4>2 DEF TypeOK
      <4> QED BY <2>1, <2>2, <3>1, <3>2, <4>3 DEF TypeOK
    <3>3. CASE ~(j = cur /\ u = t)
      <4>1. posts'[j][u] = posts[j][u]
        BY <1>0, <2>1, <3>1, <3>3 DEF TypeOK
      <4>2. j = cur /\ ReportedSent(outcomes[u]) /\ u # t
        BY <2>4, <3>3, <4>1 DEF Unsent
      <4> QED BY <2>1, <3>1, <4>2 DEF TypeOK
    <3> QED BY <3>2, <3>3
  <2>5. \A u \in todo' : outcomes'[u] = "NOT_ATTEMPTED"
    BY <1>0, <2>1, <2>3 DEF TypeOK
  <2> QED BY <2>3, <2>4, <2>5 DEF Unsent, RunUnderWay
<1>5. CASE RewriteJob
  <2>1. /\ disk' = [disk EXCEPT ![cur] = SettledDocument]
        /\ UNCHANGED <<present, posts, cur, outcomes, todo>>
    BY <1>5 DEF RewriteJob
  <2>2. ASSUME NEW j \in Archives \cap present, NEW t \in disk'[j].selected,
               posts[j][t] > 0
        PROVE  FALSE
    <3>1. CASE j = cur
      <4>1. t \in SettledArchive(disk[cur], outcomes).selected
        BY <1>0, <2>1, <2>2, <3>1 DEF SettledDocument
      <4>2. t \in disk[cur].selected /\ ~ReportedSent(outcomes[t])
        BY <1>0, <3>1, <4>1, SettledSelection
      <4> QED BY <2>2, <3>1, <4>2 DEF Unsent
    <3>2. CASE j # cur
      BY <1>0, <2>1, <2>2, <3>2 DEF Unsent
    <3> QED BY <3>1, <3>2
  <2> QED BY <1>0, <2>1, <2>2 DEF Unsent
<1>6. CASE KeepJob
  <2>1. cur \notin Archives
    BY <1>6 DEF KeepJob
  <2> QED BY <1>6, <2>1 DEF KeepJob, ToNextJob, Unsent
<1>7. CASE FinishJob
  <2>1. /\ cur \notin Archives /\ present' \subseteq present /\ posts' = posts
        /\ \A j \in Archives : disk'[j] = disk[j]
        /\ todo' = {}
    BY <1>0, <1>7 DEF FinishJob, RemoveJob, RemoveJobFails, ToNextJob
  <2> QED BY <2>1 DEF Unsent
<1>8. ASSUME NEW i \in Jobs, Resolve(i) PROVE Unsent'
  <2>1. PICK yes \in SUBSET disk[i].uncertain, no \in SUBSET disk[i].uncertain :
          /\ \A t \in no : posts[i][t] = 0
          /\ disk' = [disk EXCEPT ![i] = ResolvedDocument(@, yes, no)]
    BY <1>8 DEF Resolve, Dependable
  <2>2. pc = "idle" /\ UNCHANGED <<present, posts, todo, outcomes>>
    BY <1>8 DEF Resolve
  <2>3. ASSUME NEW j \in Archives \cap present, NEW t \in disk'[j].selected,
               posts[j][t] > 0
        PROVE  FALSE
    <3>1. CASE j = i
      <4>1. yes \in SUBSET Trackers /\ no \in SUBSET Trackers /\ disk[i] \in Document
        BY <1>0 DEF Document
      <4>2. disk'[i] = ResolvedDocument(disk[i], yes, no)
        BY <1>0, <2>1
      <4>3. t \in disk[i].selected \cup no
        BY <2>3, <3>1, <4>1, <4>2 DEF ResolvedDocument, ReselectTrackers, Document
      <4> QED BY <2>1, <2>2, <2>3, <3>1, <4>3 DEF Unsent, RunUnderWay
    <3>2. CASE j # i
      BY <1>0, <2>1, <2>2, <2>3, <3>2 DEF Unsent, RunUnderWay
    <3> QED BY <3>1, <3>2
  <2> QED BY <1>0, <2>2, <2>3 DEF Unsent
<1>9. ASSUME NEW i \in Jobs, DeleteSelected(i) PROVE Unsent'
  <2>1. /\ present' \subseteq present
        /\ \A j \in Archives \cap present' : disk'[j] = disk[j]
        /\ pc = "idle" /\ UNCHANGED <<posts, todo, outcomes, cur, pc>>
    BY <1>0, <1>9 DEF DeleteSelected, RemoveJob, RemoveJobFails
  <2> QED BY <2>1 DEF Unsent, RunUnderWay
<1>10. CASE PruneNfos
  BY <1>1, <1>10 DEF PruneNfos, ToNextJob, RunUnderWay
<1>11. CASE Rebuild
  BY <1>2, <1>11 DEF Rebuild, RunUnderWay
<1>12. CASE EndRun \/ AskForCode
  BY <1>2, <1>12 DEF EndRun, AskForCode, RunUnderWay
<1>13. CASE Cancel
  BY <1>13 DEF Cancel, Unsent, RunUnderWay
<1>14. CASE StartJob \/ EndQueue \/ LoadJob \/ Enqueue
  BY <1>1, <1>14
  DEF StartJob, EndQueue, LoadJob, Enqueue, RunUnderWay, TypeOK
<1>15. CASE SkipUnusable \/ DupesBlock
  BY <1>1, <1>15 DEF SkipUnusable, DupesBlock, ToNextJob, RunUnderWay
<1>16. CASE Rest \/ UNCHANGED vars
  BY <1>16 DEF Rest, vars, Unsent, RunUnderWay
<1>17. ~RewriteFails /\ ~Crash
  BY DEF Dependable, RewriteFails, Crash
<1> QED
  BY <1>3, <1>4, <1>5, <1>6, <1>7, <1>8, <1>9, <1>10, <1>11, <1>12, <1>13,
     <1>14, <1>15, <1>16, <1>17
  DEF Next, QueueStep, VisitEnds

\* Where the queue is neither stopped nor kept from writing, every failure says
\* what the tracker answered and the user is right about what is unconfirmed,
\* nothing an archive offers to run has reached its tracker.  The duplicate
\* search is not needed for it.
THEOREM PendingIsUnsent ==
  ASSUME Dependable
  PROVE  Spec => []PendingUnsent
<1>1. Init => Unsent
  BY UnsentInit
<1>2. TypeOK /\ Consistent /\ Unsent /\ [Next]_vars => Unsent'
  BY UnsentNext
<1>3. TypeOK /\ Unsent => PendingUnsent
  <2> SUFFICES ASSUME TypeOK, Unsent, pc \in {"idle", "next", "load"},
                      NEW j \in Archives \cap present, NEW t \in disk[j].selected
               PROVE  posts[j][t] = 0
    BY DEF PendingUnsent
  <2>1. posts[j][t] \in 0..MaxPosts
    BY JobsAssumption DEF TypeOK, Document
  <2> QED BY <2>1 DEF Unsent, RunUnderWay
<1> QED BY <1>1, <1>2, <1>3, Consistency, PTL DEF Spec

=============================================================================
