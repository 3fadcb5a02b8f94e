------------------------------- MODULE JobQueue -------------------------------
(***************************************************************************)
(* JobQueueRunner: saved jobs are run one at a time with nobody watching,  *)
(* and each job's document is brought into line with what its run did.     *)
(* Between queue runs the job picker resolves unconfirmed uploads and      *)
(* deletes jobs; it and the queue window are modal, so they never act at   *)
(* the same time.  The application may stop at any moment: the documents   *)
(* and sidecars on disk are all that survives.                             *)
(*                                                                         *)
(* A document is what job.json says of each tracker.  An archive keeps a   *)
(* ledger of every tracker it was run for; a plain job forgets a tracker   *)
(* once it is done with it.  What a visit to one tracker does is taken     *)
(* from UnattendedResults, which ProcessTrackers shows to cover it.        *)
(***************************************************************************)
EXTENDS Naturals, JobDocuments

CONSTANTS
  Jobs,
  Archives,        \* the jobs saved as archives
  Searchable,      \* the trackers whose duplicate search finds a release they have
  TruthfulUser,    \* the user answers for an unconfirmed upload correctly
  Faults           \* what may go wrong: "crash"; a document's "write"; to "delete"
                   \* a job, or "finish" one by removing it; a "sidecar" cut
                   \* short, or not "read"; an upload's error without its
                   \* "annotation", a "callback" of its handler, a "code" asked

ASSUME JobsAssumption == Jobs # {} /\ Archives \subseteq Jobs
ASSUME AnswersAssumption == Searchable \subseteq Trackers /\ TruthfulUser \in BOOLEAN
ASSUME FaultsAssumption ==
  Faults \subseteq {"crash", "write", "delete", "finish", "sidecar", "read",
                   "annotation", "callback", "code"}

\* Copies of a release a tracker may hold are told apart up to this many.
MaxPosts == 2

VARIABLES
  present,   \* jobs whose job.json exists
  disk,      \* disk[j]: job j's document
  intact,    \* intact[j]: trackers whose NFO sidecar is the one prepared, and
             \* referred to
  posts,     \* posts[j][t]: copies of job j's release tracker t has
  pc,
  queued,    \* jobs still to run
  cur,       \* the job being run
  todo,      \* trackers of the run not visited yet
  outcomes,  \* what the run has reported, per tracker
  unread,    \* trackers of the run whose NFO sidecar could not be read
  cancelled, \* the user asked the queue to stop
  proved,    \* ghost: trackers reported, or seen by the user, to have it
  settled,   \* ghost: reported trackers whose removal reached the disk
  discarded  \* ghost: jobs the user chose to delete

vars == <<present, disk, intact, posts, pc, queued, cur, todo, outcomes,
          unread, cancelled, proved, settled, discarded>>

stored == <<present, disk, intact>>
run == <<cur, todo, outcomes, unread>>
queue == <<queued, run, cancelled>>
ghosts == <<proved, settled, discarded>>

-----------------------------------------------------------------------------
Init ==
  /\ present = Jobs
  /\ disk \in [Jobs -> PlainDocuments \cup ArchiveDocuments]
  /\ \A j \in Jobs :
       disk[j] \in (IF j \in Archives THEN ArchiveDocuments ELSE PlainDocuments)
  /\ intact = [j \in Jobs |-> disk[j].release]
  /\ posts \in [Jobs -> [Trackers -> 0..1]]
  /\ \A j \in Jobs, t \in Trackers :
       /\ t \in disk[j].uploaded => posts[j][t] = 1
       /\ t \notin disk[j].uploaded \cup disk[j].uncertain => posts[j][t] = 0
  /\ pc = "idle" /\ queued = {} /\ todo = {}
  /\ cur = CHOOSE j \in Jobs : TRUE
  /\ outcomes = NotAttempted /\ unread = {}
  /\ cancelled = FALSE
  /\ proved = [j \in Jobs |-> disk[j].uploaded]
  /\ settled = [j \in Jobs |-> {}]
  /\ discarded = {}

-----------------------------------------------------------------------------
(* The picker, while no queue runs.                                        *)

Queueable(j) == j \in present /\ IsPrepared(disk[j])

Enqueue ==
  /\ pc = "idle"
  /\ \E Q \in SUBSET {j \in Jobs : Queueable(j)} : Q # {} /\ queued' = Q
  /\ pc' = "next" /\ cancelled' = FALSE
  /\ UNCHANGED <<stored, posts, run, ghosts>>

\* _resolve_uncertain: each unconfirmed upload is there (yes), never landed
\* (no), or is left unresolved.  A failed write leaves everything as it was.
Resolve(j) ==
  /\ pc = "idle" /\ j \in present
  /\ \E yes \in SUBSET disk[j].uncertain :
       \E no \in SUBSET (disk[j].uncertain \ yes) :
         /\ TruthfulUser => /\ \A t \in yes : posts[j][t] > 0
                            /\ \A t \in no : posts[j][t] = 0
         /\ disk' = [disk EXCEPT ![j] = ResolvedDocument(@, yes, no)]
         /\ proved' = [proved EXCEPT ![j] = @ \cup yes]
  /\ UNCHANGED <<present, intact, posts, pc, queue, settled, discarded>>

\* Removing a job's directory.  A deletion that fails may have taken sidecars;
\* one that took job.json already is as good as done.
RemoveJob(j) ==
  /\ present' = present \ {j}
  /\ disk' = [disk EXCEPT ![j] = NoDocument]
  /\ intact' = [intact EXCEPT ![j] = {}]

RemoveJobFails(j) ==
  /\ \E left \in SUBSET intact[j] : intact' = [intact EXCEPT ![j] = left]
  /\ UNCHANGED <<present, disk>>

DeleteSelected(j) ==
  /\ pc = "idle" /\ j \in present
  /\ \/ RemoveJob(j)
     \/ "delete" \in Faults /\ RemoveJobFails(j)
  /\ discarded' = discarded \cup {j}
  /\ UNCHANGED <<posts, pc, queue, proved, settled>>

-----------------------------------------------------------------------------
(* The queue.                                                              *)

Cancel ==
  /\ pc # "idle" /\ ~cancelled
  /\ cancelled' = TRUE
  /\ UNCHANGED <<stored, posts, pc, queued, run, ghosts>>

\* Mutant: a job that was started stays in the queue.
StartJobAgain ==
  /\ pc = "next" /\ ~cancelled
  /\ \E j \in queued : cur' = j
  /\ pc' = "load"
  /\ UNCHANGED <<stored, posts, queued, todo, outcomes, unread, cancelled, ghosts>>

\* run: cancellation is looked at between two jobs only.
StartJob ==
  /\ pc = "next" /\ ~cancelled
  /\ \E j \in queued : cur' = j /\ queued' = queued \ {j}
  /\ pc' = "load"
  /\ UNCHANGED <<stored, posts, todo, outcomes, unread, cancelled, ghosts>>

EndQueue ==
  /\ pc = "next"
  /\ cancelled \/ queued = {}
  /\ pc' = "idle" /\ queued' = {} /\ cancelled' = FALSE
  /\ UNCHANGED <<stored, posts, run, ghosts>>

\* Mutant: the next job starts from the outcomes of this one.
ToNextJobKeepingOutcomes ==
  /\ pc' = "next" /\ todo' = {} /\ unread' = {}
  /\ UNCHANGED <<queued, cur, cancelled, outcomes>>

\* The job is done with: nothing of its run stays in memory.
ToNextJob ==
  /\ pc' = "next" /\ todo' = {} /\ outcomes' = NotAttempted /\ unread' = {}
  /\ UNCHANGED <<queued, cur, cancelled>>

\* The media, the screenshots, the base torrent or the document is unusable.
SkipUnusable ==
  /\ pc = "load"
  /\ ToNextJob
  /\ UNCHANGED <<stored, posts, ghosts>>

\* A sidecar that cannot be read counts as one there never was.
LoadJob ==
  /\ pc = "load"
  /\ Queueable(cur) /\ RunTrackers(disk[cur]) # {}
  /\ unread' \in (IF "read" \in Faults
                    THEN SUBSET (disk[cur].release \cap intact[cur]) ELSE {{}})
  /\ pc' = "dupes"
  /\ UNCHANGED <<stored, posts, queued, cur, todo, outcomes, cancelled, ghosts>>

\* _check_dupes asks every tracker of the run; one match or one failed check
\* blocks the whole job.
DupesBlock ==
  /\ pc = "dupes"
  /\ ToNextJob
  /\ UNCHANGED <<stored, posts, ghosts>>

\* Mutant: only the trackers the document selects are asked.
DupesPassSelected ==
  /\ pc = "dupes"
  /\ \A t \in disk[cur].selected \cap Searchable : posts[cur][t] = 0
  /\ todo' = RunTrackers(disk[cur])
  /\ pc' = "upload"
  /\ UNCHANGED <<stored, posts, queued, cur, outcomes, unread, cancelled, ghosts>>

DupesPass ==
  /\ pc = "dupes"
  /\ \A t \in RunTrackers(disk[cur]) \cap Searchable : posts[cur][t] = 0
  /\ todo' = RunTrackers(disk[cur])
  /\ pc' = "upload"
  /\ UNCHANGED <<stored, posts, queued, cur, outcomes, unread, cancelled, ghosts>>

AddPost(n) == IF n < MaxPosts THEN n + 1 ELSE n

\* process_trackers is done with one tracker.
Visited(t) ==
  /\ t \in todo /\ todo' = todo \ {t}
  /\ \E r \in UnattendedResults("annotation" \in Faults, "callback" \in Faults) :
       /\ outcomes' = [outcomes EXCEPT ![t] = r.outcome]
       /\ posts' = [posts EXCEPT ![cur][t] = IF r.landed THEN AddPost(@) ELSE @]
       /\ proved' = [proved EXCEPT ![cur] =
                       IF HasLanded(r.outcome) THEN @ \cup {t} ELSE @]
  /\ UNCHANGED <<stored, queued, cur, unread, cancelled, settled, discarded>>

Visit(t) == pc = "upload" /\ Visited(t) /\ UNCHANGED pc

\* PassThePopcorn refused the code computed for it: the worker waits until the
\* user gives one or has none, and goes on.
AskForCode ==
  /\ "code" \in Faults
  /\ pc = "upload" /\ todo # {}
  /\ pc' = "code"
  /\ UNCHANGED <<stored, posts, queue, ghosts>>

GiveCode(t) == pc = "code" /\ Visited(t) /\ pc' = "upload"

\* The run is over: every tracker was visited, or it raised before that.
EndRun ==
  /\ pc = "upload"
  /\ todo' = {} /\ pc' = "rebuild"
  /\ UNCHANGED <<stored, posts, queued, cur, outcomes, unread, cancelled, ghosts>>

\* _rebuild writes every NFO sidecar it has over again before the document; it
\* may fail on the way, with the sidecar it was writing cut short, and then the
\* document stays as it was loaded.
Rebuild ==
  /\ pc = "rebuild"
  /\ \/ UNCHANGED <<intact, unread>>
     \/ /\ "sidecar" \in Faults
        /\ \E cut \in disk[cur].release \ unread :
             intact' = [intact EXCEPT ![cur] = @ \ {cut}]
        /\ unread' = {}
  /\ pc' = "settle"
  /\ UNCHANGED <<present, disk, posts, queued, cur, todo, outcomes, cancelled, ghosts>>

\* The document that is written refers to no sidecar the load could not read.
DropUnread == intact' = [intact EXCEPT ![cur] = @ \ unread]

\* _settle, by the kind of job and what landed.
KeepJob ==
  /\ pc = "settle"
  /\ cur \notin Archives /\ Landed(disk[cur], outcomes) = {}
  /\ \/ DropUnread
     \/ "write" \in Faults /\ UNCHANGED intact
  /\ ToNextJob
  /\ UNCHANGED <<present, disk, posts, ghosts>>

\* What write_job_document puts in place of the job's document.
SettledDocument ==
  IF cur \in Archives
    THEN SettledArchive(disk[cur], outcomes)
    ELSE FilterDocument(disk[cur], Retained(disk[cur], outcomes), {})

ToRewrite ==
  \/ cur \in Archives
  \/ /\ Landed(disk[cur], outcomes) # {}
     /\ Retained(disk[cur], outcomes) # {}

RewriteJob ==
  /\ pc = "settle" /\ ToRewrite
  /\ disk' = [disk EXCEPT ![cur] = SettledDocument]
  /\ settled' = [settled EXCEPT ![cur] = @ \cup Landed(disk[cur], outcomes)]
  /\ DropUnread
  /\ pc' = "prune"
  /\ UNCHANGED <<present, posts, queue, proved, discarded>>

RewriteFails ==
  /\ pc = "settle" /\ ToRewrite /\ "write" \in Faults
  /\ ToNextJob
  /\ UNCHANGED <<stored, posts, ghosts>>

\* prune_unreferenced_nfos; stale NFOs it fails to delete stay behind.
PruneNfos ==
  /\ pc = "prune"
  /\ \E stale \in SUBSET (intact[cur] \ disk[cur].release) :
       intact' = [intact EXCEPT ![cur] = (@ \cap disk[cur].release) \cup stale]
  /\ ToNextJob
  /\ UNCHANGED <<present, disk, posts, ghosts>>

FinishJob ==
  /\ pc = "settle"
  /\ cur \notin Archives /\ Landed(disk[cur], outcomes) # {}
  /\ Retained(disk[cur], outcomes) = {}
  /\ \/ /\ RemoveJob(cur)
        /\ settled' = [settled EXCEPT ![cur] = @ \cup Landed(disk[cur], outcomes)]
     \/ "finish" \in Faults /\ RemoveJobFails(cur) /\ UNCHANGED settled
  /\ ToNextJob
  /\ UNCHANGED <<posts, proved, discarded>>

\* The application stops: what was in memory is lost.
Crash ==
  /\ "crash" \in Faults /\ pc # "idle"
  /\ pc' = "idle" /\ queued' = {} /\ todo' = {}
  /\ outcomes' = NotAttempted /\ unread' = {} /\ cancelled' = FALSE
  /\ UNCHANGED <<stored, posts, cur, ghosts>>

QueueStep ==
  \/ StartJob \/ EndQueue \/ SkipUnusable \/ LoadJob \/ DupesBlock \/ DupesPass
  \/ \E t \in Trackers : Visit(t)
  \/ AskForCode \/ EndRun \/ Rebuild
  \/ KeepJob \/ RewriteJob \/ RewriteFails \/ PruneNfos \/ FinishJob

\* Nobody asks for anything; a queue that is running may not rest.
Rest == pc = "idle" /\ UNCHANGED vars

Next ==
  \/ QueueStep \/ Rest
  \/ Enqueue \/ Cancel \/ Crash
  \/ \E t \in Trackers : GiveCode(t)
  \/ \E j \in Jobs : Resolve(j) \/ DeleteSelected(j)

Spec == Init /\ [][Next]_vars /\ WF_vars(QueueStep)

-----------------------------------------------------------------------------
(* Properties.                                                             *)

\* Every variable stays in its range, and nothing of one job's run is left in
\* memory when the next one starts.
TypeOK ==
  /\ present \subseteq Jobs
  /\ disk \in [Jobs -> Document]
  /\ intact \in [Jobs -> SUBSET Trackers]
  /\ posts \in [Jobs -> [Trackers -> 0..MaxPosts]]
  /\ pc \in {"idle", "next", "load", "dupes", "upload", "code", "rebuild", "settle",
             "prune"}
  /\ queued \subseteq Jobs /\ cur \in Jobs /\ todo \subseteq Trackers
  /\ outcomes \in [Trackers -> Outcome] /\ unread \subseteq Trackers
  /\ cancelled \in BOOLEAN
  /\ proved \in [Jobs -> SUBSET Trackers]
  /\ settled \in [Jobs -> SUBSET Trackers]
  /\ discarded \subseteq Jobs
  /\ pc \in {"idle", "next", "load", "dupes"} =>
       todo = {} /\ outcomes = NotAttempted
  /\ pc \in {"idle", "next", "load"} => unread = {}

\* An archive says one thing of each of its trackers, and holds the work of
\* every tracker that is to do or that may turn out to be
\* (filter_context_document with retain_data_for).
ArchiveLedger ==
  \A j \in Archives \cap present :
    /\ disk[j].selected \cap disk[j].uploaded = {}
    /\ disk[j].uncertain \cap (disk[j].selected \cup disk[j].uploaded) = {}
    /\ disk[j].selected \cup disk[j].uncertain \subseteq
         disk[j].release \cap disk[j].hosts

Ledger(d) == d.selected \cup d.uploaded \cup d.uncertain

\* No step makes an archive forget a tracker it was run for, or take up one it
\* was not (_settle, _resolve_uncertain).
LedgerKeepsTrackers ==
  [][\A j \in Archives :
       j \in present /\ j \in present' => Ledger(disk'[j]) = Ledger(disk[j])]_vars

\* Once the removal of a tracker that took the release is on disk, no later
\* run of the job sends to it, through crashes, failed writes, resolutions and
\* however often the job is queued (_settle: "a tracker that reached its
\* destination has to come out of it").
NoResendAfterSettle ==
  [][\A j \in Jobs : \A t \in settled[j] : posts'[j][t] = posts[j][t]]_vars

\* A tracker whose duplicate search finds what is there is not given a release
\* twice, even by a queue that crashed or could not write down what it did
\* (_check_dupes).
AtMostOnce == \A j \in Jobs, t \in Searchable : posts[j][t] <= 1

\* What an archive offers to run has not reached its tracker, if the documents
\* could be written and the user was right about the unconfirmed uploads
\* (TrackerRunOutcome.MAY_HAVE_UPLOADED never becomes pending by itself).
PendingUnsent ==
  pc \in {"idle", "next", "load"} =>
    \A j \in Archives \cap present :
      \A t \in disk[j].selected : posts[j][t] = 0

\* Queueing jobs ends: every queued job is run or skipped and the queue stops
\* (JobQueueRunner.run: "Failures never stop the queue"); unless the worker is
\* left waiting for a PassThePopcorn code, the one thing a queue that runs "only
\* jobs that never stop to ask anything" does ask for.
QueueEnds == (pc # "idle" ~> pc = "idle") \/ <>[](pc = "code")

\* The work a job really holds: its document refers to the title and NFO of a
\* tracker, and to the NFO's sidecar, which is the one that was prepared.
WorkHeld == [j \in Jobs |-> disk[j].release \cap intact[j]]

PW == INSTANCE PreparedWork WITH held <- WorkHeld

\* Prepared work is given up only with proof that the release landed, or by
\* the user (_settle: "Exactly one thing earns removal").
PreparedWorkKept == PW!PWSpec

\* What the theorems rest on, beside TypeOK.  A run visits only trackers of the
\* document it loaded, and what it reported as landed is proved.
RunConsistent ==
  /\ todo \subseteq RunTrackers(disk[cur])
  /\ pc \notin {"upload", "code"} => todo = {}
  /\ "read" \notin Faults => unread = {}
  /\ \A t \in Trackers : HasLanded(outcomes[t]) => t \in proved[cur]

\* A document holds no work it could not run, nothing it already settled, and
\* counts as uploaded only what is proved; an archive has its ledger and the
\* work of exactly the trackers it would run.
DocumentConsistent(j) ==
  LET d == disk[j] IN
    /\ d.release \subseteq d.hosts
    /\ settled[j] \cap d.hosts = {}
    /\ d.uploaded \subseteq proved[j]
    /\ j \in Archives =>
         /\ d.selected \cap d.uploaded = {}
         /\ d.uncertain \cap (d.selected \cup d.uploaded) = {}
         /\ d.selected \cup d.uncertain \subseteq d.hosts
         /\ d.hosts \subseteq d.release
         /\ d.hosts \subseteq Ledger(d)

DocumentsConsistent == \A j \in Jobs : DocumentConsistent(j)

\* Where the search finds it, what a run has still to visit does not have it.
SearchConsistent ==
  /\ \A j \in Jobs, t \in Searchable : posts[j][t] <= 1
  /\ \A t \in todo \cap Searchable : posts[cur][t] = 0

\* What _run_one reads of a document, what its run does with it and what
\* _settle writes back stay in step: the invariant the theorems rest on.
Consistent == RunConsistent /\ DocumentsConsistent /\ SearchConsistent

\* A tracker a document does not select is not sent to: an unconfirmed upload
\* "must not run" and "no resume can send to" it (filter_context_document).
OnlySelectedUploaded ==
  [][\A t \in Trackers : posts'[cur][t] # posts[cur][t] => t \in disk[cur].selected]_vars
=============================================================================
