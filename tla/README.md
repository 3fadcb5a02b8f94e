# A verification project for NfoForge

NfoForge prepares a release (title, NFO, screenshots, torrent) and uploads it to
several trackers, at once from its wizard or later, unattended, from saved jobs.
A tracker keeps what it is sent, so the one thing the program must never get
wrong is the answer to "may this tracker be sent to again?". The project models
the parts of NfoForge that give that answer and the parts that act on it.

Paths are relative to the repository's `src/`. Line numbers of every definition
are in `PROJECT.json` (`map`).

## 1. Inventory

| component | state | operations | talks to |
|---|---|---|---|
| tracker run, `backend/process.py` `process_trackers` | loop position, health cache, attempt counters, last failure | prepare, clone, pre-upload plugin, probe, post, retry, report, inject | uploaders, health probe, retry callback (page only), outcome callback |
| run outcomes, `backend/upload_retry.py` | none | classify an error, "is it safe to upload again?" | read by the queue and by the page |
| tracker health, `backend/trackers/health.py` | the run's cache | `ensure_tracker_health` | the trackers' web servers |
| uploaders, `backend/trackers/*` | none | one POST, reading the answer, fetching the tracker's torrent, PTP's one-time code | the trackers |
| images, `backend/process.py`, `backend/image_host_uploading` | uploaded images by host and by tracker | download, upload, record, reuse | image hosts |
| job queue, `backend/job_queue.py` | remaining jobs, current job, its run's outcomes | load, check, search for duplicates, run, rebuild, settle | store, codec, `process_trackers` |
| job documents, `backend/jobs/codec.py` | `selected_trackers`, the per-tracker maps, an archive's ledger | encode, decode, filter, reselect | queue, picker, wizard |
| job store and assets, `backend/jobs/store.py`, `assets.py`, `update.py` | job directories: `job.json`, NFO and MediaInfo sidecars, images, base torrent | save, write atomically, capture, prune, rebuild, delete, list | queue, picker, page |
| job picker, `frontend/custom_widgets/load_job_dialog.py` | listings, queue order | queue, load, resolve, add trackers, rename, delete | store, codec |
| queue window, `frontend/custom_widgets/job_queue_dialog.py` | worker thread, cancel flag | start, cancel, show | queue runner |
| wizard, `frontend/wizards/wizard.py`, `trackers.py` | the payload, the loaded job | resume a job or an archive, choose trackers | pages, store, configuration |
| process page, `frontend/wizards/process.py` | processing mode, run phase, worker, run outcomes, buttons | dupes, process, prepare, save and archive a job | `process_trackers`, store |
| prompts, `frontend/wizards/process.py` | the waiter's event loop, watchdog, dialogs | ask for tokens, for the overview, after a failed upload | worker and window, by queued signals |
| renaming, `backend/rename_files.py`, `rename_encode_series.py`, `payloads/media_inputs.py` | plan, journal, current paths; the wizard's paths | plan, preflight, rename, roll back, verify, remap | file system, wizard |
| configuration, `config/*`, settings windows | profile files, `old_configs`, the program's file, settings in memory, snapshot | start, load, migrate, recreate, save, save as, switch, delete, reset | every other part |
| token replacer, title inference, media input and search, job values and migrations, torrent creation and clients, plugins, user interface | their own | pure computation, requests, widgets | the wizard |

The wizard's page runs `process_trackers` on a worker thread that stops at the
retry dialog until the user answers. The queue runs it with no callback at all.
Both learn what happened only from one `TrackerRunOutcome` per tracker. The
queue then rewrites the saved job's document, which is what the next queue run
and the picker start from; the page saves, archives or offers a job on the same
evidence.

**What is hard.** An upload whose answer is lost has an unknown fate. Errors
describe that fate by attributes only some uploaders set. Automatic and manual
retries mix. Health results age while someone waits. The upload always precedes
the write that records it, so a crash or a full disk leaves a document that is
behind the trackers. A tracker's title, NFO and image host are held in several
maps that are narrowed, held back and reselected over many runs. Two threads
exchange questions and answers by signals that are only received if connected in
time. A batch of renames, and its rollback, may stop anywhere. A profile is
replaced in several writes, any of which may fail or be the last. The list in
`PROJECT.json` (`hazards`) gives each with its line.

**What makes a component correct.**

- Tracker run: what it calls safe to repeat did not land; what it calls done
  did; it never duplicates by itself; it never waits for a user who is not there.
- Outcomes: runs produce only what the queue and the page know how to settle.
- Queue: prepared work is given up only with proof that the release landed; a
  settled tracker is never sent to again; a started queue stops.
- Documents: an archive says one thing of each tracker and forgets none; what
  can still be run has its work.
- Process page: what it saves, offers or archives is not for a tracker it could
  know to have the release, keeps prepared work, and is a job the queue accepts;
  nothing is uploaded without a look at the duplicates; the window comes back.
- Prompts: a question gets its own answer, and the worker goes on.
- Images: a tracker gets a complete set or none.
- Renaming: no file is replaced; success and "nothing changed" are true; the
  wizard's paths are where the files are.
- Configuration: the active name is that of the settings in memory, no
  profile's document is lost, a save is on disk.

## 2. The modules

| module | models |
|---|---|
| `RunOutcomes` | `TrackerRunOutcome`, its two questions, and the results a visit to one tracker can have, unattended or attended |
| `Uploaders` | how each of the five kinds of uploader turns an answer, or none, into success or an error |
| `ProcessTrackers`, `MCProcessTrackers` | one run of `process_trackers`, called by the queue or by the page |
| `JobDocuments` | what `job.json` says of each tracker and the codec's operations on it |
| `PreparedWork` | abstract: what a saved job promises about the work it holds |
| `JobQueue` | the queue runner, the picker's actions between queue runs, crashes, disk faults and a visit that asks |
| `ProcessPage` | the wizard's last page around its runs, from a fresh release, a plain job or an archive |
| `Prompt` | abstract: one question, one answer |
| `PromptHandshake` | worker and window around the three prompts, with acknowledgement and watchdog |
| `RenameFiles`, `MCRenameFiles` | plan, renames, journal, rollback and the wizard's paths |
| `ConfigProfiles`, `MCConfigProfiles` | the profiles on disk and in memory |
| `ImageHandling` | the images of a job over several runs |
| `ProcessTrackersProofs`, `JobQueueProofs`, `ProcessPageProofs`, `PromptHandshakeProofs`, `ConfigProfilesProofs` | theorems |
| `RenamePathProofs`, `RenameTreeProofs`, `RenameFilesProofs` | theorems about `RenameFiles`: its operators, one rename, whole runs |

**How they compose.**

- `Uploaders` gives `ProcessTrackers` the ways an upload can fail, each with
  whether the tracker took the release.
- `ProcessTrackers` has the detail of a visit. `QueueResultsCovered` and
  `PageResultsCovered` say that whatever it reports, taken with what the tracker
  did, is a member of `UnattendedResults` or `AttendedResults`. `JobQueue` and
  `ProcessPage` take any member of that set as one step, so they are checked
  against everything a run can do without multiplying the state spaces, and a
  change of the run that breaks their assumption fails one of the two. Both are
  theorems.
- `JobsFitTheQueue` says that a job or an archive the page writes, if the queue
  accepts it, is one of the documents `JobQueue` starts from (`PlainDocuments`,
  `ArchiveDocuments`), apart from three differences it names: titles a plain job
  carries beyond its trackers, trackers a preparation holds back although they are
  to do, and a tracker that an archive lists both as uploaded and as unconfirmed,
  because a run that had reported it was started again (`dropped`).
- `JobQueue` implements `PreparedWork`; `PromptHandshake` implements `Prompt`.

### Uploaders

`Reply` is what a tracker answers: a status class, a kind of body, and whether it
took the release. `Replies` limits what a tracker does (it is external): it is
open whether the release landed only after an internal error or where nobody
understands the answer. Each family's operator, for instance `Unit3dErrors`, is
its code's reading of such an answer; the seventeen trackers use one of the five.
A connect timeout is read as a failure before the POST; where the POST follows
redirects (`Redirecting`: HDBits and PassThePopcorn) it may belong to the second
connection, after the tracker had the release. `UploadFailures` collects what is never
sent, answers that are lost, answers that are read, and torrents that cannot be
fetched after an upload that succeeded.

### ProcessTrackers

`pc` is the place in the loop of `process_trackers`; `idx` the tracker being
visited; `health` its entry of `tracker_health_cache`; `attempt` the attempt
number of the current `Retrying` object and `manual` the retries a user asked
for (`total_attempts > 1` is `attempt > 1` or `manual > 0`); `failure` what the
last `UploadFailure` says. `caller` distinguishes the queue (no callback) from
the page. `landed`, `probed` and `warned` are ghosts: copies the tracker took,
whether the attempt was preceded by a real probe, and which trackers the user
chose "Re-upload (may duplicate)" for.

An action is one stretch of code between two points where the outside can
differ: the preparation of the run, a tracker's clone, the plugin and the
`upload_enabled` branch, the probe, the POST (`PostSucceeds`, `PostFails`), PTP's
question for a code, the decision after a failure (`AutoRetry`, `GiveUp`, and the
dialog's three buttons), the injection, and the handler of unexpected exceptions.
`MayEndTheBlock` says where such an exception can arise: outside the attempts and
the waits between them, which have a handler of their own. The handler reports
MAY_HAVE_UPLOADED (`UnexpectedError`), but it calls the progress callbacks first;
if one raises, the run breaks off with nothing reported of this tracker
(`HandlerRaises`).
The images' and the base torrent's work, token prompts and NFO generation are one
step each, or an exception (`RunRaises`) that ends the run with the remaining
trackers untouched. A prompt the page never acknowledges is answered CANCEL by
the watchdog, which is `UserCancels`.

`hidden` is the set of trackers that took a release under an error that denies
it: an uploader's error without `server_accepted`, or a connect timeout after a
redirect. Two places of the uploaders produce the former (see the hazards at
`unit3d_base.py:379` and `passthepopcorn.py:389`), so properties about the truth of
a report except exactly these trackers and the one at which the error handler
raised (`Unreported`), and the models of queue and page include both among
their results. Only the redirect can make the program send twice by itself, and
`AutomaticNeverDuplicates` names it.

### JobQueue and JobDocuments

`disk[j]` is what `job.json` says of each tracker: `selected` is
`selected_trackers`, `hosts` and `release` are the keys of
`tracker_image_hosts` and `tracker_release_data`, `uploaded` and `uncertain`
the ledger an archive keeps. `intact[j]` is the set of trackers whose NFO
sidecar has the content that was prepared and is referred to. `pc` is the stage of `_run_one` for
the job `cur`; `todo` and `outcomes` belong to the run it started. `posts` counts
the copies each tracker has; `proved`, `settled` and `discarded` are ghosts that
record what was reported or seen to have landed, what was removed from a
document because of it, and which jobs the user deleted.

| action | code |
|---|---|
| `Enqueue`, `Resolve`, `DeleteSelected` | the picker: `_accept_queue`, `_resolve_uncertain`, `_delete_selected` |
| `StartJob`, `EndQueue`, `Cancel` | `JobQueueRunner.run`, the worker's `cancel` |
| `SkipUnusable`, `LoadJob`, `DupesBlock`, `DupesPass` | `_run_one` up to `_upload` |
| `Visit`, `AskForCode`, `GiveCode`, `EndRun` | `_upload`, by way of `process_trackers`; a visit to PassThePopcorn may wait for a one-time code |
| `Rebuild`, `KeepJob`, `RewriteJob`, `RewriteFails`, `PruneNfos`, `FinishJob` | `_rebuild` and `_settle` |
| `Crash` | the application stops |

`RewriteJob` is `write_job_document`, which replaces `job.json` atomically and
is the commit point; pruning comes after it and may be lost. `EndRun` may come
at any time: `process_trackers` may raise, and `_settle` runs all the same, on
the outcomes reported so far.

`Faults` says what may go wrong in an instance:

| fault | what happens |
|---|---|
| `crash` | the application stops between any two steps |
| `write` | a document cannot be written |
| `finish`, `delete` | removing a job's directory, by the queue or for the user, fails and may have taken sidecars |
| `sidecar` | an NFO sidecar is left half written by the rebuild |
| `read` | a sidecar cannot be read at load, counts as none, and the document written after the run refers to it no more (`unread`, `DropUnread`) |
| `annotation` | an uploader's error without `server_accepted` |
| `callback` | a visit of which nothing is reported |
| `code` | a visit waits for a one-time code |

What this model assumes of the program and its surroundings:

- The picker and the queue window are modal, so they never act together; a job
  is loaded, run and settled before anything else writes it, so the loaded
  document and the one on disk agree.
- A tracker that took a release does so before the attempt is reported: a POST
  does not land later.
- Every prepared tracker has an NFO.
- `rebuild_job_document` writes the same per-tracker keys it read. What else it
  adds (uploaded images) is not modelled, nor is the write of `KeepJob` when
  only that changed.
- `Searchable` is the set of trackers whose duplicate search finds a release they
  have, and `TruthfulUser` says that the user answers correctly for an unconfirmed
  upload. Both are constants: no property silently relies on them, and the two
  that need them say so. At a tracker outside `Searchable` a crash between the
  upload and the write does send twice; nothing in the code prevents that, and no
  property claims it does.
- A plain job keeps a tracker that may have the release; running it again is
  left to the duplicate search. That is the documented design, so
  `PendingUnsent` speaks of archives only.

### ProcessPage

`mode` is `processing_mode`, `runPhase` is `_run_phase`, `outcomes` is
`_run_outcomes`, `job` the document of the job behind the run (the page's
`loaded_*` fields mirror it), `saved` the last plain job written. A handler's
dialogs are modal, so a handler is one step and the answers are its choices:
`PressProcess`, `PressPrepare`, `PressSave`, the worker's `Generate` and `Visit`,
and its ends `OnDupeResults`, `OnDupesFailed`, `OnPrepared`, `OnFinished`,
`OnCancelled`, `OnFailed`, each with the archive it writes or the job it offers.

What the page cannot know is named by two ghosts: `denied`, trackers that took a
release under an outcome that is safe to repeat (the hidden and forgotten
acceptances of `ProcessTrackers`), and `dropped`, trackers whose outcome was
overwritten when the user started a failed run again (`_start_process_worker`
resets `_run_outcomes`). The archive of the second run can then list a tracker
both as uploaded and as unconfirmed; `ArchiveComplete` and `JobsFitTheQueue` name
that overlap and claim everything else all the same. A run may also fail after
its last visit (`OnFailed`), when a callback raises while an error is handled.
`SavedJobsUnsent` and `ArchiveUnsent` except exactly `denied` and `dropped`; everything else the page writes is shown not to send twice.

### Prompt and PromptHandshake

`toGui` and `toWaiter` are the signals queued between the threads, `connected`
whether the waiter's slots are. The token and overview prompts emit before they
connect, the retry prompt connects first and starts a watchdog. `Prompt` is what
the run relies on: ask, be seen, be answered, return; only a question that was
not seen, or has nothing to answer, returns by itself. The mapping takes `open` from
the worker's place and `seen` from the watchdog. `HumanPace` says that a user
takes longer to answer a dialog than the worker needs for its next statement;
without it an answer to the two prompts that connect late can be missed.
`lost` records that a dialog of those two failed without answering: their slots,
unlike that of the retry prompt, have no `finally`. `OnItsWay` says what the wait
rests on: the question is on the way to the window, its dialog is open or the
answer is queued, but for `lost` and for an answer given too early (`Missed`,
impossible with `HumanPace`).

### RenameFiles

A path is the sequence of its names, `at[n]` is where file or folder `n` is now.
The names are the user's and the templates' choice: `Start` takes any name for
each file, for the opened folder and for each folder that holds episodes
(`SeasonFolders`), "" where the code has none, which is at least what
`build_pack_rename_targets` makes of one name per season. `Located` is
`_relocate` and `final_directory`: each folder on a path that has a new name
shows it. A run goes through the phases of `RenameExecutor.execute`: `vacate` moves blocking sources to
temporary names, then files, then folders deepest first, then `verify`. A change
of case is two renames (`second` is the half that is left). Every rename is put
in `journal`; `RenameFails` may happen at any of them, and `UndoFails` at any
undo. `Follow` is what the run takes a rename to do to the paths it tracks: a
folder's moves all that is below it, a file's only itself. Temporary names are
random in the code; here they are any that nothing has or had (`Unused`), and a
run that has used up `Spare` can only fail. `known` and `input` are the wizard's `file_list` and `input_path`, which
`apply_rename_mapping` follows. `Take` is another program removing a file. The
model has the release's own files and folders and nothing else: a target taken by
somebody else's file is a rename that fails, and the look at a target and the
rename after it are one step, which for the release's own files nothing can
come between. What another program creates between the two is outside it.
`scattered` marks releases some run left half-way; `InputIsTrue` excepts them,
because the code then only guesses.

### ConfigProfiles

A document is abstracted to whose settings it holds, how often they were edited
and its schema: current; old; old and not to be migrated; newer than this build;
or with a wrong type or value. `pc` separates every write: between any two the
application may `Stop`, and each may fail, to an exception in a slot
(`WriteFails`) or, at a start, to the splash screen's offer (`StartFails`).

| action | code |
|---|---|
| `Start`, `Boot`, `Dependencies` | `_init_app`, `ConfigManager.__init__` |
| `LoadMissing`, `LoadCurrent`, `ArchiveOld`, `RewriteMigrated` | `load_profile` |
| `LoadRefused`, `LoadInvalid` | a `ConfigSchemaError`, after which the list goes back to the previous name; a plain `ConfigError`, which nobody catches |
| `Recreate`, `WriteDefault` | `_offer_archive_and_regenerate` |
| `SaveProgram`, `SaveProfile` | `save` |
| `Reset`, `Cancel`, `Apply`, `SaveAs`, `Select`, `Delete` | the settings windows |
| `Save`, `Switch`, `Stop` | saves from elsewhere, a saved job's profile, the main window's end |

`box` is the name the settings page's list shows, `owner` a ghost: the profile
the settings in memory came from. `stray` records which of four events made the
list or `current_config` name another profile: Reset, a choice that was refused, a
deletion whose neighbour did not load, a failed write of a load or Save As. A
load or Save As, or filling the page again, ends it. `torn` marks a profile that
was loaded while another one's path is still the active one, since nothing was
saved after the load.

### ImageHandling

`by_host`, `uploaded` and `sent_to` are `uploaded_images_by_host`,
`uploaded_images` and `uploaded_image_hosts`. A run is one step, as it is one
call on one thread, but it may raise after the uploads were recorded by host; the
user may then choose other hosts, and load the job with or without its
screenshots. For a job made from URLs `Download` comes first, and may bring all of
the images, some or none; with none the run goes on without images, or raises if
some host has them already (`RunRefused`). A set of images is the number with and without a URL.

## 3. Runs and what they show

Each passing run's properties are broken by a mutant of the code, listed in
`PROJECT.json`.

| run | instance | properties |
|---|---|---|
| `pt_manual` | 2 trackers between which every uploader occurs, 3 attempts, up to 2 user retries each, queue and page | `TypeOK`; `SafeWithoutRetry`: what is called safe to repeat is not there; `NoUnwarnedDuplicate`; `LandedHonest`: what counts as done is there; `FreshProbe`; `AutomaticNeverDuplicates`; `QueueResultsCovered`; `PageResultsCovered`; `NeverStuck`: a run ends or asks somebody |
| `jq_search` | an archive and a plain job, 2 trackers of which one is searchable, a user who may be wrong, faults `crash`, `write`, `finish`, `annotation`, `callback` | `TypeOK`; `ArchiveLedger`; `AtMostOnce`; `Consistent`, the inductive invariant of section 4; `LedgerKeepsTrackers`; `NoResendAfterSettle`: what is settled on disk is never sent to again; `PreparedWorkKept`, the refinement |
| `jq_ends` | an archive and a plain job, 2 trackers of which one is searchable, truthful user, faults `finish`, `code` | `PendingUnsent`; `QueueEnds`: the queue stops, or waits for a code for ever |
| `page` | 2 trackers, every start | `TypeOK`; `SavedJobsUnsent`; `JobsFitTheQueue`; `UploadsAreChecked`; `ResentOnlyAfterFailure`; `ArchiveUnsent`; `ArchiveComplete`; `WindowReturns` |
| `prompts` | 4 questions, `HumanPace` | `TypeOK`; `OneQuestion`; `NothingLeaks`; `AnsweredByTheUser`, the refinement; `WorkerResumes` |
| `rename` | a pack with two episodes in a season folder and a file beside it, 2 renames, one file taken by another program | `TypeOK`; `NothingReplaced`; `AllOrNothing`; `PathsAreTrue`; `InputIsTrue` |
| `config` | two names: an old profile, and one that does not load, for each of three reasons; 1 edit, 2 starts | `TypeOK`; `NameFollowsLoad`; `DocumentsKept`; `SavedIsOnDisk` |

**Bounds.** Two trackers are enough for a run, since visits share nothing but the
list of outcomes and the cancel path, which needs one tracker before and one
after; a tracker stands for several uploaders at once. Two manual retries allow
an ambiguous failure, a provable one and another post. Two jobs show that
nothing of one reaches the other, and every job is queued again without limit.
`MaxPosts = 2` tells none, one and several copies apart. On the page one tracker
can be visited and another not, which is what its documents distinguish. Four
questions let each kind follow another. Three files allow a swap across folders,
a change of case and a file outside the renamed folder; the second rename starts
from whatever the first left. Five temporary names are enough for every plan of
theirs. Two starts let a profile be named by one session
and loaded by the next. One searchable tracker beside one that is not lets `AtMostOnce` and `NoResendAfterSettle` be about
different trackers of one job. Each fault of `jq_search` is there at any step;
`delete`, `sidecar` and `read` are left to the theorems, the first because a
deletion by the user that fails multiplies the states too far, the others because
`PreparedWorkKept` does not hold with them. Two profiles are what a refused choice,
a deletion and a start need. In the runs without deadlock checking the system may
stop: a run is over, the bound on questions or renames is reached, the
application is closed.

**Fairness.** Weak fairness only, and only of steps a thread takes by itself:
`ProgramStep` in `ProcessTrackers`, `QueueStep` in `JobQueue`, `WorkerStep` in
`ProcessPage`; a thread that can go on does. Nothing is assumed to succeed. Users
are assumed to do nothing there: `NeverStuck` allows a run to wait at a dialog,
`QueueEnds` allows a visit to wait for a code (`GiveCode` is not fair), and
`WindowReturns` speaks of workers whose prompts are answered, a visit being one
step. `PromptHandshake` assumes weak fairness of
the worker's loop and of the window's, and with the latter that a user who is
shown a dialog answers it some time, since `WorkerResumes` would be meaningless
otherwise. The watchdog is not assumed to fire: it may end the wait for any retry
prompt that is not acknowledged, and the properties hold whether it does or not.

**Disagreements between the code and what it says.** Five runs end in a
violation, each of one property; `PROJECT.json` (`findings`) quotes the lines.

- `jq_held_back`, `OnlySelectedUploaded`. `filter_context_document` says that
  an unconfirmed tracker is held back and "must not run". The queue builds the
  run from `tracker_image_hosts`, where held-back trackers stay, and so sends to
  them whenever the archive still has another tracker to do. Only the duplicate
  search stands in between.
- `pt_forgotten_acceptance`, `SafeMeansNotLanded`. Only the last failure decides
  the reported outcome: an ambiguous one followed by a retry that provably
  failed is reported SKIPPED or UPLOAD_FAILED. For trackers without a manual
  retry the property holds (`SafeWithoutRetry` in `pt_manual`), because nothing
  ambiguous is retried automatically.
- `rename_skipped`, `PathsFollowFolders`. A file whose new name could not be
  generated is left out of the plan. If its season folder is renamed, its path in
  the wizard is not remapped: only the opened folder's own rename is followed.
- `config_refused`, `RefusedIsNotActive`. A profile with a wrong type or value is
  chosen in the settings page's list and does not load; its `ConfigError` is not
  the `ConfigSchemaError` the page catches, so the list keeps the name. OK then
  takes the active name from the list: the program's file names a profile that
  never loaded, and the settings in memory are written over that profile's file.
- `images_incomplete`, `ImagesComplete`. What a host returned is recorded before
  the set is checked, so the run after one that raised reuses an incomplete set.

Three more are in the models and in the exceptions properties name, without a run
of their own:

- A queue asks. `job_queue.py:3-7` says that a queue can only run jobs that never
  stop to ask anything; PassThePopcorn's login asks for a one-time code whoever
  called (`passthepopcorn.py:824`), and until someone answers the queue waits
  (`AskForCode`; `QueueEnds` excepts it).
- A connect timeout is not always one before the body was sent
  (`upload_retry.py:87-118`): where the POST follows a redirect, it may come after.
- Sidecars are rewritten in place, against `job_queue.py:612-614` (section 5).

## 4. Proofs

Every theorem holds for any values of the constants, under the assumptions on
them in the module it is about and those it names.

| module | theorem | statement |
|---|---|---|
| `ProcessTrackersProofs` | `TypeCorrect` | `Spec => []TypeOK` |
| | `SafeToReuploadIsSafe` | `Spec => []SafeWithoutRetry` |
| | `DoneIsDone` | `Spec => []LandedHonest` |
| | `RetryingIsSafe` | `Spec => []AutomaticNeverDuplicates` |
| | `DuplicatesAreWarned` | `Spec => []NoUnwarnedDuplicate` |
| | `ProbesAreFresh` | `Spec => []FreshProbe` |
| | `QueueIsFedCorrectly` | `Spec => []QueueResultsCovered` |
| | `PageIsFedCorrectly` | `Spec => []PageResultsCovered` |
| `JobQueueProofs` | `TypeCorrect` | `Spec => []TypeOK` |
| | `Consistency` | `Spec => [](TypeOK /\ Consistent)`, the inductive invariant |
| | `LedgerCorrect` | `Spec => []ArchiveLedger` |
| | `LedgerComplete` | `Spec => LedgerKeepsTrackers` |
| | `SettledStaysSettled` | `Spec => NoResendAfterSettle` |
| | `NeverTwice` | `Spec => []AtMostOnce` |
| | `WorkIsKept` | `Spec => PreparedWorkKept`, if `Faults` has neither `sidecar` nor `read`: `JobQueue` implements `PreparedWork` |
| | `PendingIsUnsent` | `Spec => []PendingUnsent`, if `Dependable`: no crash, no failed write, no unannotated error, no visit left unreported, a truthful user |
| `ProcessPageProofs` | `TypeCorrect` | `Spec => []TypeOK` |
| | `SavesAreUnsent` | `Spec => []SavedJobsUnsent` |
| | `ArchivesAreUnsent` | `Spec => ArchiveUnsent` |
| | `ArchivesAreComplete` | `Spec => ArchiveComplete` |
| | `QueueAcceptsJobs` | `Spec => []JobsFitTheQueue` |
| | `UploadsFollowTheCheck` | `Spec => []UploadsAreChecked` |
| | `ResendsFollowFailures` | `Spec => []ResentOnlyAfterFailure` |
| `PromptHandshakeProofs` | `TypeCorrect` | `Spec => []TypeOK` |
| | `OneAtATime` | `Spec => []OneQuestion` |
| | `UnderwayAlways` | `Spec => [](Underway /\ OnItsWay)` |
| | `NoLeak` | `Spec => []NothingLeaks` |
| | `HandshakeImplementsPrompt` | `Spec => AnsweredByTheUser`, if `HumanPace` |
| `ConfigProfilesProofs` | `TypeCorrect` | `Spec => []TypeOK` |
| | `NameIsLoaded` | `Spec => []NameFollowsLoad` |
| | `NothingIsLost` | `Spec => DocumentsKept` |
| | `SaveIsDurable` | `Spec => SavedIsOnDisk` |
| `RenameTreeProofs` | `TypeCorrect` | `Spec => []TypeOK` |
| | `NothingIsReplaced` | `Spec => []NothingReplaced` |
| `RenameFilesProofs` | `NamesForAll` | `Spec => AllTakenAlong`, if `~Skipping` |
| | `PathsStayTrue` | `Spec /\ AllTakenAlong => []PathsAreTrue`, if `KindsApart` |
| | `AllOrNothingHolds` | `Spec /\ AllTakenAlong => []AllOrNothing`, if `KindsApart` |
| | `InputStaysTrue` | `Spec /\ AllTakenAlong => []InputIsTrue`, if `KindsApart` |
| | `PathsFollow` | `Spec /\ AllTakenAlong => []PathsFollowFolders`, if `KindsApart` |

Hardly any of these properties is inductive; each proof module has a strengthening with
one lemma per action, and the theorems follow from it.

- **ProcessTrackers.** `Inv` says of the trackers ahead that nothing happened to
  them (`Ahead`), of those behind that their report says no more than is true
  (`Behind`, by `Fits`), and of the visit under way what its attempts may rely
  on (`Visiting`). The last carries the argument: at a new attempt a tracker
  nobody retried has nothing, because an automatic retry needs an error that is
  retryable and not accepted, and no uploader raises such an error for a release
  that landed. That fact about `UploadFailures` is the lemma `Readings`, for every
  family.
- **JobQueue.** That a settled tracker is not sent to again follows from two
  facts about different variables: the run visits only trackers of `hosts` in
  the document it loaded (`RunConsistent`), and no settled tracker is in `hosts`
  (`DocumentConsistent`), which settling preserves because what landed leaves
  every map at once. That an archive keeps the work of all it may have to run
  needs `hosts = release` there and the ledger to be a partition covering them.
  That settling gives up only what is proved needs, besides, that every outcome
  counted as landed was recorded in `proved`. `SearchConsistent` says that no
  searchable tracker still to be visited has the release. The refinement
  maps `held` to the trackers whose release data is in the document and whose
  sidecar is the prepared one. Visits and resolutions map to `Prove`, settling
  and finishing to `Release`, deleting to `Discard`, and everything else, crashes
  and failed writes included, to a stutter.
  `PendingIsUnsent` does without the search: `Unsent` says that only the run under
  way can have sent to a tracker its archive still selects, that it reported so,
  and that it visits each tracker once; settling then takes away what was
  reported, and resolving gives back only what the user rightly says is not there.
- **ProcessPage.** `Buttons` says what can be pressed when: Save Job is on only
  while nothing was sent, and a mode that uploads was checked. `Sent` says that
  whoever has the release is in the ledger or was reported so in this run, unless
  unknowable. `Books` and `Work` relate the page's trackers, the job behind the
  run and the titles. What an archive or an offered job is made of then follows
  by lemmas about `CompletedArchive`, `PreparedArchive` and `FilterDocument`.
  `ResendsFollowFailures` needs one more invariant, `Once`: without a failed run,
  a tracker in the ledger is not on its way.
- **PromptHandshake.** `Underway` says where a question and its answer can be, and
  `OnItsWay` that one of them is somewhere while the worker waits: what liveness
  needs and cannot itself be proved here. With `Underway` every step maps to a step
  of `Prompt` or a stutter.
- **ConfigProfiles.** `Targeted` says that a save goes under the active name,
  `Replacing` that a document is archived before it is
  replaced, `Naming` when the active name and the list's are the loaded one (by the
  cause in `stray` otherwise), `Valid` that the application runs on valid settings, `Synced` that the snapshot is what the
  active profile's file holds, which is why a save that skips the write is right.
- **RenameFiles**, in three layers. `RenamePathProofs` is about paths as
  sequences: what `Rehome` and `Located` do to a path, and that a rename of one
  path to a free one beside it keeps a tree a tree (one node a path, a folder
  above every node). `RenameTreeProofs` needs no more of a run than that
  everything it may rename next stays in its folder (`TreeInv`), and so proves
  that nothing is replaced without following the phases.
  `RenameFilesProofs` follows them. `Here` is where every node is, or would be if
  nobody had taken it; the journal replays to it, which is why a failed run
  knows where the files are. `BackOK`, the way back, is a sequence of trees the
  journal leads through from the disk before the run to the disk; each undo goes
  one back, so a complete rollback ends at the start. `FilesOK` says, while files
  are renamed, that each has its old, its temporary or its new name and no two
  the same; `FoldersOK` that every path shows the new names of the folders done
  so far, for which deepest first is needed. At the end of the plan that is
  `plan.file` and every `Located` folder. `Replay` is a recursive function over
  the journal; where its length calls for induction, a least counterexample is
  taken (`Least`), since the well-ordering of the naturals can be cited and the
  induction rule cannot.

**The hypotheses of the rename theorems.** `NothingIsReplaced` has none. The
theorems about whole runs share two, as they share the invariant; `PathsAreTrue`
needs both.

- `AllTakenAlong`: no accepted plan renames a folder and leaves a file in it out.
  `NamesForAll` shows that a file is left out so only if it got no name. The code
  lets that happen, and `rename_skipped` shows what follows. The harm does not
  stay with that file: after three renames of a release with two season folders
  TLC finds its stale path to be another file's, two files planned as one, and
  `PathsAreTrue` violated as well. (In the instance of `rename`, with files
  skipped and none taken, the five invariants still hold.)
- `KindsApart`: no folder has a name that a file has. File names end in their
  media suffix; the one made for a folder loses it (`with_suffix("")`). Without
  it, a file may be renamed to a name that a folder gets after that file was
  taken away by another program; undoing both, when the folder's undo fails,
  moves the folder in the file's stead. `MCRenameFiles` assumes it of the instance
  that is checked.

Every safety property a passing run checks, invariants and action properties
alike, is stated by a theorem. Only model-checked is liveness (`NeverStuck`,
`QueueEnds`, `WindowReturns`, `WorkerResumes`), which is out of the prover's
reach: it rests on fairness, and so on `ENABLED`. `ImageHandling` has no theorem,
as its one property does not hold.

## 5. Not modelled

- **Token replacer, templates, title inference.** Functions from media facts to
  text. No other part's behaviour depends on the text; modelling them would be
  writing strings character by character. The largest files of the repository
  are among these, and the example data they are tested with is generated.
- **Encoding of the configuration and of jobs.** `config/operations.py`,
  `jobs/values.py` and `jobs/migrations.py` convert several hundred settings and
  values one by one; `ConfigProfiles` and `JobDocuments` take a document as what
  it holds.
- **Widgets, themes, logging, packaging.** The dialogs appear as the choices
  their users make; their looks and tables do not.
- **HTTP, hashing, torrent clients, media files.** One step that succeeds or
  fails in the models that call them.
- **Listing and renaming jobs, comparing screenshots, loading plugins**: no
  tracker's state depends on them.
- **Torn and unreadable sidecars.** `Faults` has them, but with them the queue does
  not implement `PreparedWork`: `capture` rewrites an NFO in place, and one that
  cannot be read once is dropped from the document. The hazard is listed without
  a property, and `WorkIsKept` assumes both away by name.
- **Files of other programs** in a rename: `RenameFiles` has only the release's own.
- **A program's file that is not TOML**: the start's offer to reset it.
- **An incomplete rollback of a rename** leaves the opened folder to a guess.
  Nothing is promised of it, so `InputIsTrue` excepts it.

These parts are most of the lines of the repository, which is why the definitions
stand for a small share of them: the project covers the parts with state that
several steps or several actors share.

## 6. Next steps

1. `JobStore`: saving, rebuilding, pruning and deleting a job directory file by
   file with a crash between any two, refining the document-at-a-time view of
   `JobQueue`.
2. The rename theorems for the other files of a release that lost track of one:
   they need an invariant that follows stale paths too.
3. A passing property of `ImageHandling` once incomplete sets are not recorded.
