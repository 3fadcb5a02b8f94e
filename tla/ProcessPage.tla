----------------------------- MODULE ProcessPage -----------------------------
(***************************************************************************)
(* The wizard's last page.  Its Process button checks for duplicates, then *)
(* generates and uploads; Prepare stops before the upload; Save Job keeps  *)
(* the work for later.  When a run ends, however it ends, the page writes  *)
(* what became of each tracker into an archive, or offers to save the      *)
(* trackers that are left as a job of their own.                           *)
(*                                                                         *)
(* The dialogs of a handler are modal, so a handler is one step and the    *)
(* answers are its choices.  What a visit to one tracker reports is taken  *)
(* from AttendedResults, which ProcessTrackers shows to cover it.          *)
(***************************************************************************)
EXTENDS JobDocuments

VARIABLES
  mode,      \* processing_mode: what the Process button does next
  runPhase,  \* _run_phase
  worker,    \* the page's worker, and how far it is
  todo,      \* trackers the run has not visited
  outcomes,  \* _run_outcomes: a function on the trackers of the last run
  selected,  \* selected_trackers; the page's rows and image hosts
  release,   \* the keys of tracker_release_data
  kind,      \* the job behind the run: "none", "plain" or "archive"
  job,       \* the document of that job, which loaded_* mirrors
  saved,     \* the last plain job saved, with who had the release by then
  disabled,  \* wizard_set_disabled
  buttons,   \* Process, Save Job and Prepare: "on", "off" or "hidden"
  has,       \* ghost: trackers that have the release
  denied,    \* ghost: trackers reported as safe to retry that took it
  dropped,   \* ghost: trackers whose outcome a new run started over
  resent,    \* ghost: trackers sent to with the job's ledger saying they have it
  checked,   \* ghost: the user was shown the duplicates, or chose to do without
  broken     \* ghost: a run of the page failed; or could not be started

run == <<runPhase, worker, todo, outcomes, release>>
shown == <<disabled, buttons>>
ghosts == <<has, denied, dropped, resent, checked, broken>>
vars == <<mode, run, selected, kind, job, saved, shown, ghosts>>

NoOutcomes == [t \in {} |-> "NOT_ATTEMPTED"]
InRun == DOMAIN outcomes

-----------------------------------------------------------------------------
(* A run starts from the wizard, or from a loaded job.  A job that is not  *)
(* prepared, and an archive to be extended, goes through the trackers      *)
(* page, which keeps trackers that have or may have the release out.       *)

FreshStart ==
  /\ kind = "none" /\ job = NoDocument
  /\ selected \in SUBSET Trackers /\ has = {}

PlainStart ==
  /\ kind = "plain" /\ job \in PlainDocuments
  /\ IF IsPrepared(job) THEN selected = job.selected
                        ELSE selected \in SUBSET Trackers
  /\ has = {}

\* The trackers TrackersPage lets a loaded job be run for.
Selectable(d) == Trackers \ (d.uploaded \cup d.uncertain)

ArchiveStart ==
  /\ kind = "archive" /\ job \in ArchiveDocuments
  /\ selected \in SUBSET Selectable(job)
  /\ has \in {job.uploaded \cup S : S \in SUBSET job.uncertain}

Init ==
  /\ kind \in {"none", "plain", "archive"}
  /\ FreshStart \/ PlainStart \/ ArchiveStart
  /\ release = job.release
  /\ mode = "DUPE_CHECK" /\ runPhase = "FULL"
  /\ worker = "none" /\ todo = {} /\ outcomes = NoOutcomes
  /\ saved = [doc |-> NoDocument, had |-> {}]
  /\ disabled = FALSE
  /\ buttons = [process |-> "on", save |-> "on", prepare |-> "on"]
  /\ denied = {} /\ dropped = {} /\ resent = {}
  /\ checked = FALSE /\ broken = {}

-----------------------------------------------------------------------------
(* Documents.                                                              *)

\* _build_job_document, before it is narrowed.
BuiltDocument ==
  [NoDocument EXCEPT !.selected = selected, !.hosts = selected, !.release = release]

\* Mutant: the image hosts are those of the page's rows.
RebuiltWithoutHeldHosts == BuiltDocument

\* rebuild_job_document: a tracker without a row keeps its image host.
RebuiltDocument ==
  [BuiltDocument EXCEPT !.hosts = @ \cup (job.hosts \cap release)]

Reported(O) == {t \in InRun : outcomes[t] \in O}

\* Mutant: what is left to do is taken from this run alone.
PendingOfRun(uploaded, uncertain) == InRun \ (uploaded \cup uncertain)

Pending(uploaded, uncertain) == (InRun \cup release) \ (uploaded \cup uncertain)

\* Mutant: an unconfirmed upload is carried on as work to do.
CompletedArchiveForgetful ==
  LET landed == {t \in InRun : HasLanded(outcomes[t])}
      uploaded == job.uploaded \cup landed
      uncertain == job.uncertain \ landed
      base == IF kind = "none" THEN BuiltDocument ELSE RebuiltDocument
  IN [FilterDocument(base, Pending(uploaded, uncertain), uncertain)
        EXCEPT !.uploaded = uploaded, !.uncertain = uncertain]

\* What _archive_completed_run writes.
CompletedArchive ==
  LET landed == {t \in InRun : HasLanded(outcomes[t])}
      uploaded == job.uploaded \cup landed
      uncertain == (job.uncertain \cup Reported({"MAY_HAVE_UPLOADED"})) \ landed
      base == IF kind = "none" THEN BuiltDocument ELSE RebuiltDocument
  IN [FilterDocument(base, Pending(uploaded, uncertain), uncertain)
        EXCEPT !.uploaded = uploaded, !.uncertain = uncertain]

\* Mutant: everything the run did not prove is offered.
DeferrableUnproved == {t \in InRun : ~HasLanded(outcomes[t])}

\* _deferrable_trackers
Deferrable == {t \in InRun : IsSafeToReupload(outcomes[t])}

\* _save_job: the user may give no name, the media may be gone, the write fail.
SaveJob(document) ==
  \/ saved' = [doc |-> document, had |-> has]
  \/ UNCHANGED saved

\* _offer_deferred_job: the user may decline.
OfferDeferred ==
  IF Deferrable = {} THEN UNCHANGED saved
                     ELSE SaveJob(FilterDocument(BuiltDocument, Deferrable, {}))

\* A run that ended: archived, or, where that does not apply or fails, the
\* trackers that are left are offered as a job.
ArchiveOrOffer ==
  \/ /\ runPhase = "FULL" /\ InRun # {}
     /\ job' = CompletedArchive /\ kind' = "archive"
     /\ UNCHANGED saved
  \/ UNCHANGED <<kind, job>> /\ OfferDeferred

-----------------------------------------------------------------------------
(* Starting a worker.                                                      *)

Idle == ~disabled /\ worker = "none"

\* _start_process_worker.  Writing the profile may raise before the worker
\* exists; the window was disabled by then.
StartRun(phase) ==
  \/ /\ outcomes' = [t \in selected |-> "NOT_ATTEMPTED"]
     /\ runPhase' = phase /\ worker' = "generating" /\ todo' = selected
     /\ dropped' = dropped \cup Reported(Outcome \ {"NOT_ATTEMPTED"})
     /\ UNCHANGED <<release, has, denied, resent, broken>>
  \/ /\ broken' = broken \cup {"start"}
     /\ UNCHANGED <<run, has, denied, dropped, resent>>

\* process_jobs: refused without trackers, without media and base torrent, or
\* when the user backs out of an overwrite; else by mode.
ProcessJobs(m) ==
  /\ selected # {}
  /\ disabled' = TRUE
  /\ buttons' = [buttons EXCEPT !.save = IF @ = "on" THEN "off" ELSE @,
                                !.prepare = IF @ = "on" THEN "off" ELSE @]
  /\ CASE m = "DUPE_CHECK" -> /\ worker' = "dupes"
                              /\ UNCHANGED <<runPhase, todo, outcomes, release,
                                             has, denied, dropped, resent, broken>>
       [] m = "PREPARE" -> StartRun("PREPARE")
       [] m = "UPLOAD" -> StartRun("FULL")

PressProcess ==
  /\ Idle /\ buttons.process = "on"
  /\ ProcessJobs(mode)
  /\ UNCHANGED <<mode, selected, kind, job, saved, checked>>

\* _prepare_job: a refusal leaves the mode behind.
PressPrepare ==
  /\ Idle /\ buttons.prepare = "on"
  /\ mode' = "PREPARE"
  /\ checked' = FALSE
  /\ \/ ProcessJobs("PREPARE")
     \/ UNCHANGED <<run, shown, has, denied, dropped, resent, broken>>
  /\ UNCHANGED <<selected, kind, job, saved>>

PressSave ==
  /\ Idle /\ buttons.save = "on"
  /\ SaveJob(BuiltDocument)
  /\ UNCHANGED <<mode, run, selected, kind, job, shown, ghosts>>

-----------------------------------------------------------------------------
(* The worker, and what its signals make of the page.                      *)

\* Titles and NFOs of the whole run are recorded before any tracker is visited.
Generate ==
  /\ worker = "generating"
  /\ worker' = "visiting" /\ release' = release \cup InRun
  /\ UNCHANGED <<mode, runPhase, todo, outcomes, selected, kind, job, saved, shown,
                 ghosts>>

Visit(t) ==
  /\ worker = "visiting" /\ runPhase = "FULL" /\ t \in todo
  /\ todo' = todo \ {t}
  /\ \E r \in AttendedResults(TRUE) :
       /\ outcomes' = [outcomes EXCEPT ![t] = r.outcome]
       /\ has' = IF r.landed THEN has \cup {t} ELSE has
       /\ denied' = IF r.landed /\ IsSafeToReupload(r.outcome)
                      THEN denied \cup {t} ELSE denied
       /\ resent' = IF r.landed /\ kind = "archive" /\ t \in job.uploaded
                      THEN resent \cup {t} ELSE resent
  /\ UNCHANGED <<mode, runPhase, worker, release, selected, kind, job, saved,
                 shown, dropped, checked, broken>>

\* _job_ended, for the buttons of the page.
ButtonsAfterRun ==
  IF runPhase = "PREPARE" THEN [buttons EXCEPT !.save = "on", !.prepare = "hidden"]
                          ELSE [buttons EXCEPT !.save = "hidden", !.prepare = "hidden"]

ButtonsAfterDupes ==
  [buttons EXCEPT !.save = IF @ = "off" THEN "on" ELSE @,
                  !.prepare = IF @ = "off" THEN "on" ELSE @]

\* Mutant: the window is left as it is.
WorkerEndedDisabled ==
  /\ worker' = "none" /\ todo' = {}
  /\ UNCHANGED <<disabled, runPhase, outcomes, release, selected, has, denied,
                 dropped, resent>>

WorkerEnded ==
  /\ worker' = "none" /\ todo' = {} /\ disabled' = FALSE
  /\ UNCHANGED <<runPhase, outcomes, release, selected, has, denied, dropped, resent>>

OnDupeResults ==
  /\ worker = "dupes"
  /\ WorkerEnded /\ buttons' = ButtonsAfterDupes
  /\ mode' = "UPLOAD" /\ checked' = TRUE
  /\ UNCHANGED <<kind, job, saved, broken>>

\* _on_dupes_failed goes through _on_failed first, which looks at whatever run
\* came before.
OnDupesFailed ==
  /\ worker = "dupes"
  /\ WorkerEnded /\ buttons' = ButtonsAfterDupes
  /\ ArchiveOrOffer
  /\ \/ mode' = "UPLOAD" /\ checked' = TRUE
     \/ UNCHANGED <<mode, checked>>
  /\ UNCHANGED broken

\* Mutant: the button keeps the mode it was prepared in.
ModeAfterPrepare == "UPLOAD"

\* processing_mode after a preparation.
ModePrepared == "DUPE_CHECK"

\* _save_prepared_archive writes the ledger's lists back as they were.
PreparedArchive ==
  [RebuiltDocument EXCEPT !.uploaded = job.uploaded, !.uncertain = job.uncertain]

OnPrepared ==
  /\ worker = "visiting" /\ runPhase = "PREPARE"
  /\ WorkerEnded /\ buttons' = ButtonsAfterRun
  /\ mode' = ModePrepared
  /\ IF kind = "archive"
       THEN /\ job' = PreparedArchive \/ UNCHANGED job
            /\ UNCHANGED saved
       ELSE UNCHANGED job /\ SaveJob(BuiltDocument)
  /\ UNCHANGED <<kind, checked, broken>>

OnFinished ==
  /\ worker = "visiting" /\ runPhase = "FULL" /\ todo = {}
  /\ WorkerEnded /\ buttons' = [ButtonsAfterRun EXCEPT !.process = "hidden"]
  /\ ArchiveOrOffer
  /\ UNCHANGED <<mode, checked, broken>>

\* Mutant: the button that would start over stays.
OnCancelledShowingProcess ==
  /\ worker = "visiting" /\ runPhase = "FULL" /\ todo # InRun
  /\ WorkerEnded /\ buttons' = ButtonsAfterRun
  /\ ArchiveOrOffer
  /\ UNCHANGED <<mode, checked, broken>>

\* Only a question about a tracker, asked during its visit, can be answered
\* with Cancel.
OnCancelled ==
  /\ worker = "visiting" /\ runPhase = "FULL" /\ todo # InRun
  /\ WorkerEnded /\ buttons' = [ButtonsAfterRun EXCEPT !.process = "hidden"]
  /\ ArchiveOrOffer
  /\ UNCHANGED <<mode, checked, broken>>

\* The images, the titles, the base torrent or the copy of it for a tracker
\* failed, or a callback raised while the end of an upload was handled.  The
\* Process button stays, in the mode it had.
OnFailed ==
  /\ worker \in {"generating", "visiting"}
  /\ WorkerEnded /\ buttons' = ButtonsAfterRun
  /\ ArchiveOrOffer
  /\ broken' = broken \cup {"run"}
  /\ UNCHANGED <<mode, checked>>

WorkerStep ==
  \/ Generate \/ OnDupeResults \/ OnDupesFailed
  \/ OnPrepared \/ OnFinished \/ OnCancelled \/ OnFailed
  \/ \E t \in Trackers : Visit(t)

\* The user may leave the page as it is.
Rest == worker = "none" /\ UNCHANGED vars

Next == WorkerStep \/ PressProcess \/ PressPrepare \/ PressSave \/ Rest

Spec == Init /\ [][Next]_vars /\ WF_vars(WorkerStep)

-----------------------------------------------------------------------------
(* Properties.                                                             *)

\* Every variable stays in its range, and the window is disabled only while a
\* worker runs, or could not be started (_start_process_worker).
TypeOK ==
  /\ mode \in {"DUPE_CHECK", "UPLOAD", "PREPARE"} /\ runPhase \in {"FULL", "PREPARE"}
  /\ worker \in {"none", "dupes", "generating", "visiting"}
  /\ InRun \subseteq Trackers /\ outcomes \in [InRun -> Outcome]
  /\ todo \subseteq InRun
  /\ selected \subseteq Trackers /\ release \subseteq Trackers
  /\ kind \in {"none", "plain", "archive"} /\ job \in Document
  /\ saved \in [doc : Document, had : SUBSET Trackers]
  /\ disabled \in BOOLEAN
  /\ buttons \in [process : {"on", "hidden"}, save : {"on", "off", "hidden"},
                  prepare : {"on", "off", "hidden"}]
  /\ has \subseteq Trackers /\ denied \subseteq has
  /\ dropped \subseteq Trackers /\ resent \subseteq Trackers
  /\ checked \in BOOLEAN /\ broken \subseteq {"run", "start"}
  /\ disabled /\ worker = "none" => "start" \in broken

\* Trackers the page cannot know about: their uploader, or an answer that was
\* forgotten, denied the release, or a run that was started over forgot it.
Unknowable == denied \cup dropped

\* "A deferred job can never turn into a duplicate upload"
\* (_deferrable_trackers): no job the page saves, by whatever button or offer
\* and however the runs before it ended, is for a tracker that has the release.
SavedJobsUnsent == saved.doc.selected \cap saved.had \subseteq Unknowable

\* Nor is what the archive would run, once a run has been written into it.
ArchiveUnsent ==
  [][job' # job /\ kind' = "archive" /\ runPhase = "FULL" =>
       job'.selected \cap has' \subseteq Unknowable']_vars

\* An archive written after a run says one thing of each tracker, and forgets
\* none the run was for and none the job held prepared or sent; and no job the
\* page writes gives up prepared work but a reported release's
\* (_archive_completed_run: narrowing to "this run's leftovers" would silently
\* discard prepared work).  One thing alone can be said twice: that a tracker
\* took the release and that it may have, when an earlier run for it was started
\* over.
Ledger(d) == d.selected \cup d.uploaded \cup d.uncertain
Settled(d) == (d.selected \cap d.release) \cup d.uploaded \cup d.uncertain
ArchiveComplete ==
  [][job' # job =>
       /\ job.release \ job'.release \subseteq {t \in InRun : HasLanded(outcomes[t])}
       /\ runPhase = "FULL" =>
            /\ job'.selected \cap (job'.uploaded \cup job'.uncertain) = {}
            /\ job'.uploaded \cap job'.uncertain \subseteq dropped'
            /\ Settled(job) \cup InRun \subseteq Ledger(job')]_vars

\* A job written by the page that the queue would accept is one the queue's
\* specification starts from, but for three things: a plain job saved while an
\* archive is loaded may carry titles of trackers it does not cover; an archive
\* updated by a preparation may hold back trackers that are still to do; and a
\* run that was started again for a tracker already reported may list it both
\* as uploaded and as unconfirmed (_archive_completed_run).
JobsFitTheQueue ==
  /\ IsPrepared(saved.doc) =>
       [saved.doc EXCEPT !.release = @ \cap saved.doc.hosts] \in PlainDocuments
  /\ kind = "archive" /\ IsPrepared(job) =>
       /\ job.uploaded \cap job.uncertain \subseteq dropped
       /\ [job EXCEPT !.selected = @ \cup (job.release \ job.uncertain),
                      !.uploaded = @ \ job.uncertain] \in ArchiveDocuments

\* A tracker is sent to only after the user saw the duplicates or chose to do
\* without, and again after every preparation (_on_finished sets DUPE_CHECK).
UploadsAreChecked == runPhase = "FULL" /\ todo # {} => checked

\* "Without this the process button restarts from the first tracker and
\* re-uploads the ones that already succeeded" (_on_cancelled): it can happen
\* only after a run that failed.
ResentOnlyAfterFailure == resent # {} => "run" \in broken

\* The window is handed back to the user after every worker, however it ends;
\* except where the worker could not even be started.
WindowReturns == disabled ~> (~disabled \/ "start" \in broken)
=============================================================================
