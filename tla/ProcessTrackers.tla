--------------------------- MODULE ProcessTrackers ---------------------------
(***************************************************************************)
(* One run of ProcessBackEnd.process_trackers: the release's images and    *)
(* base torrent are prepared, then every tracker is visited once, in       *)
(* order.  A visit probes the tracker, posts the release, retries by       *)
(* itself when the failure provably came before the tracker had it, asks   *)
(* the user about the rest when there is a user, and finally adds the      *)
(* torrent to the client.  The run reports one TrackerRunOutcome per       *)
(* tracker; everything that later decides whether a tracker may be sent to *)
(* again relies on that report.                                            *)
(*                                                                         *)
(* The tracker is external: landed counts the copies of the release it     *)
(* took, which the program never sees.                                     *)
(***************************************************************************)
EXTENDS Naturals, Sequences, RunOutcomes, Uploaders

CONSTANTS
  Order,             \* the trackers of the run, in the order of process_dict
  RetryAttempts,     \* RETRY_ATTEMPTS
  MaxManualRetries,  \* bound on the retries a user asks for, per tracker
  Uploader           \* what a tracker's uploader may be: one of Families each;
                     \* with more than one, a tracker stands for several

ASSUME OrderAssumption ==
  /\ Order \in Seq(STRING) /\ Len(Order) > 0
  /\ \A i, j \in 1..Len(Order) : Order[i] = Order[j] => i = j
ASSUME RetryAssumption == RetryAttempts \in Nat \ {0} /\ MaxManualRetries \in Nat

Trackers == {Order[i] : i \in 1..Len(Order)}

ASSUME UploaderAssumption == Uploader \in [Trackers -> SUBSET Families]

VARIABLES
  caller,    \* "queue": no retry callback; "page": a user answers prompts
  phase,     \* RunPhase
  pc,
  idx,       \* the tracker being visited
  health,    \* tracker_health_cache for this tracker
  attempt,   \* attempts of the current Retrying loop
  manual,    \* manual_retries, per tracker
  failure,   \* the error of the last failed attempt
  outcomes,  \* what the run has reported, per tracker
  landed,    \* ghost: copies of the release each tracker took
  probed,    \* ghost: the tracker answered a probe made for this attempt
  warned,    \* ghost: the user chose "Re-upload (may duplicate)"
  hidden     \* ghost: the tracker took a release under an error that denies it

vars == <<caller, phase, pc, idx, health, attempt, manual, failure, outcomes,
          landed, probed, warned, hidden>>

visit == <<health, attempt, manual, failure, probed, warned, hidden>>
ghosts == <<landed, probed, warned, hidden>>

Cur == Order[idx]
Ended == pc \in {"finished", "cancelled", "raised", "broken"}

-----------------------------------------------------------------------------
(* Failures of one attempt.                                                *)

\* server_accepted, retryable and phase as an error of the upload carries them.
UploadFailure == [phase    : {"HEALTH_CHECK", "UPLOAD", "DOWNLOAD"},
                  accepted : BOOLEAN, retryable : BOOLEAN]

HealthFailure == [phase |-> "HEALTH_CHECK", accepted |-> FALSE, retryable |-> TRUE]

\* The ways the upload to a tracker can fail.
PostFailures(t) == UNION {UploadFailures(f) : f \in Uploader[t]}

\* Mutant: a failure the tracker may have accepted is retried too.
AutoRetryableIgnoringAcceptance(e) == e.retryable

\* _is_automatic_upload_retryable
AutoRetryable(e) == ~e.accepted /\ e.retryable

\* Mutant: one attempt too many.
ExhaustedLate == ~AutoRetryable(failure) \/ attempt > RetryAttempts

\* Retrying has given up on the upload.
Exhausted == ~AutoRetryable(failure) \/ attempt >= RetryAttempts

\* Mutants: only a failed download counts as accepted; what was accepted counts
\* as uploaded.
FailedOutcomeByPhase(e) ==
  IF e.phase = "DOWNLOAD" THEN "MAY_HAVE_UPLOADED" ELSE "UPLOAD_FAILED"
FailedOutcomeOptimistic(e) == IF e.accepted THEN "UPLOADED" ELSE "UPLOAD_FAILED"

\* What an attempt's failure lets the run report.
FailedOutcome(e) == IF e.accepted THEN "MAY_HAVE_UPLOADED" ELSE "UPLOAD_FAILED"

\* Mutant: a skipped tracker that accepted the request counts as uploaded.
SkipOutcomeByAcceptance(e) == IF e.accepted THEN "UPLOADED" ELSE "SKIPPED"

\* What is reported when the user goes on to the next tracker.
SkipOutcome(e) ==
  IF e.phase = "DOWNLOAD" THEN "UPLOADED"
  ELSE IF FailedOutcome(e) = "UPLOAD_FAILED" THEN "SKIPPED"
  ELSE FailedOutcome(e)

\* Mutant: the health result outlives the attempt.
KeptHealth == health

\* The health result an attempt may use: every attempt after the first drops
\* the one it was given.
CachedHealth == IF attempt > 1 \/ manual[Cur] > 0 THEN "unknown" ELSE health

-----------------------------------------------------------------------------

Init ==
  /\ caller \in {"queue", "page"}
  /\ phase \in (IF caller = "page" THEN {"FULL", "PREPARE"} ELSE {"FULL"})
  /\ pc = "images"
  /\ idx = 1
  /\ health = "unknown"
  /\ attempt = 1
  /\ manual = [t \in Trackers |-> 0]
  /\ failure = HealthFailure
  /\ outcomes = [t \in Trackers |-> "NOT_ATTEMPTED"]
  /\ landed = [t \in Trackers |-> 0]
  /\ probed = FALSE
  /\ warned = {}
  /\ hidden = {}

Report(outcome) == outcomes' = [outcomes EXCEPT ![Cur] = outcome]

\* The loop of process_trackers moves on to the next tracker, or ends.
NextTracker ==
  /\ IF idx < Len(Order)
       THEN idx' = idx + 1 /\ pc' = "clone"
       ELSE idx' = idx /\ pc' = "finished"
  /\ health' = "unknown"
  /\ attempt' = 1
  /\ failure' = HealthFailure
  /\ probed' = FALSE
  /\ UNCHANGED <<caller, phase, manual, warned, hidden>>

\* Uploading the images, then putting the base torrent in place, both before
\* any tracker is touched.
PrepareRun ==
  /\ pc \in {"images", "base"}
  /\ pc' = (IF pc = "images" THEN "base" ELSE "clone")
  /\ UNCHANGED <<caller, phase, idx, outcomes, landed, visit>>

\* Preparing the run, cloning the torrent of one tracker or a callback before
\* its upload raises: nothing catches it inside the run, so the trackers not
\* reached stay as they are.
RunRaises ==
  /\ pc \in {"images", "base", "clone", "plugin"}
  /\ pc' = "raised"
  /\ UNCHANGED <<caller, phase, idx, outcomes, landed, visit>>

\* The stamped torrent and the NFO are written; a PREPARE run stops here.
CloneTorrent ==
  /\ pc = "clone"
  /\ IF phase = "PREPARE"
       THEN NextTracker /\ UNCHANGED <<outcomes, landed>>
       ELSE /\ pc' = "plugin"
            /\ UNCHANGED <<caller, phase, idx, outcomes, landed, visit>>

\* The pre-upload plugin fails, or decides; with the tracker's upload_enabled
\* that says whether the release is sent.  Uploads off and a decision made:
\* no branch of the code reports anything.
PreUpload ==
  /\ pc = "plugin"
  /\ \E enabled \in BOOLEAN, decision \in {"none", "CONTINUE", "SKIP", "error"} :
       \/ /\ enabled /\ decision \in {"none", "CONTINUE"}
          /\ pc' = "probe"
          /\ UNCHANGED <<caller, phase, idx, outcomes, landed, visit>>
       \/ /\ decision = "error"
          /\ Report("UPLOAD_FAILED")
          /\ NextTracker /\ UNCHANGED landed
       \/ /\ IF enabled THEN decision = "SKIP" ELSE decision = "none"
          /\ Report("UPLOAD_DISABLED")
          /\ NextTracker /\ UNCHANGED landed
       \/ /\ ~enabled /\ decision \in {"CONTINUE", "SKIP"}
          /\ NextTracker /\ UNCHANGED <<outcomes, landed>>

\* ensure_tracker_health: a result in the cache is believed, up or down.
Probe ==
  /\ pc = "probe"
  /\ \E answer \in (IF CachedHealth = "unknown" THEN {"up", "down"}
                                                ELSE {CachedHealth}) :
       /\ health' = answer
       /\ IF answer = "up"
            THEN /\ probed' = (CachedHealth = "unknown")
                 /\ pc' = "post" /\ UNCHANGED failure
            ELSE /\ failure' = HealthFailure
                 /\ pc' = "failed" /\ UNCHANGED probed
  /\ UNCHANGED <<caller, phase, idx, attempt, manual, outcomes, landed, warned, hidden>>

PostSucceeds ==
  /\ pc = "post"
  /\ landed' = [landed EXCEPT ![Cur] = @ + 1]
  /\ Report("UPLOADED")
  /\ pc' = "inject"
  /\ probed' = FALSE
  /\ UNCHANGED <<caller, phase, idx, health, attempt, manual, failure, warned, hidden>>

PostFails ==
  /\ pc = "post"
  /\ \E f \in PostFailures(Cur) :
       /\ failure' = f.error
       /\ landed' = [landed EXCEPT ![Cur] = IF f.took THEN @ + 1 ELSE @]
       /\ hidden' = IF f.took /\ ~f.error.accepted THEN hidden \cup {Cur}
                                                   ELSE hidden
  /\ pc' = "failed"
  /\ probed' = FALSE
  /\ UNCHANGED <<caller, phase, idx, health, attempt, manual, outcomes, warned>>

\* PassThePopcorn refused the code that was computed for it: the uploader asks
\* the user for one, whoever called.  How often is not counted.
AskForCode ==
  /\ pc = "post" /\ "passthepopcorn" \in Uploader[Cur]
  /\ pc' = "code"
  /\ UNCHANGED <<caller, phase, idx, outcomes, landed, visit>>

\* The code signs in, or another is asked for; or the user has none.
UserGivesCode ==
  /\ pc = "code"
  /\ \/ pc' = "post" /\ UNCHANGED <<failure, probed>>
     \/ pc' = "failed" /\ failure' = Unannotated /\ probed' = FALSE
  /\ UNCHANGED <<caller, phase, idx, health, attempt, manual, outcomes, landed,
                 warned, hidden>>

\* Mutant: the attempts are not counted.
AutoRetryUncounted ==
  /\ pc = "failed"
  /\ ~Exhausted
  /\ health' = "unknown"
  /\ pc' = "probe"
  /\ UNCHANGED <<caller, phase, idx, attempt, manual, failure, outcomes, ghosts>>

\* Retrying sleeps, drops the cached health and calls upload_once again.
AutoRetry ==
  /\ pc = "failed"
  /\ ~Exhausted
  /\ attempt' = attempt + 1
  /\ health' = "unknown"
  /\ pc' = "probe"
  /\ UNCHANGED <<caller, phase, idx, manual, failure, outcomes, ghosts>>

\* No callback to ask: report and move on.
GiveUp ==
  /\ pc = "failed" /\ Exhausted /\ caller = "queue"
  /\ Report(FailedOutcome(failure))
  /\ NextTracker /\ UNCHANGED landed

\* The dialog offers no retry once the POST is known to have succeeded.
UserRetries ==
  /\ pc = "failed" /\ Exhausted /\ caller = "page"
  /\ failure.phase # "DOWNLOAD"
  /\ manual[Cur] < MaxManualRetries
  /\ manual' = [manual EXCEPT ![Cur] = @ + 1]
  /\ attempt' = 1
  /\ warned' = IF failure.accepted THEN warned \cup {Cur} ELSE warned
  /\ pc' = "probe"
  /\ UNCHANGED <<caller, phase, idx, health, failure, outcomes, landed, probed, hidden>>

UserSkips ==
  /\ pc = "failed" /\ Exhausted /\ caller = "page"
  /\ Report(SkipOutcome(failure))
  /\ NextTracker /\ UNCHANGED landed

\* Mutant: the tracker being cancelled is counted with the remaining ones.
NotAttemptedFrom(os, i) ==
  [t \in Trackers |->
     IF \E k \in i..Len(Order) : Order[k] = t THEN "NOT_ATTEMPTED" ELSE os[t]]

\* Cancelling reports NOT_ATTEMPTED for every tracker after this one.
NotAttemptedAfter(os, i) ==
  [t \in Trackers |->
     IF \E k \in (i + 1)..Len(Order) : Order[k] = t THEN "NOT_ATTEMPTED" ELSE os[t]]

UserCancels ==
  /\ pc = "failed" /\ Exhausted /\ caller = "page"
  /\ outcomes' = NotAttemptedAfter(
                   [outcomes EXCEPT ![Cur] = FailedOutcome(failure)], idx)
  /\ pc' = "cancelled"
  /\ UNCHANGED <<caller, phase, idx, landed, visit>>

\* Adding the torrent to the client.
InjectSucceeds ==
  /\ pc = "inject"
  /\ NextTracker /\ UNCHANGED <<outcomes, landed>>

InjectFails ==
  /\ pc = "inject"
  /\ IF caller = "queue"
       THEN Report("INJECTION_FAILED") /\ NextTracker /\ UNCHANGED landed
       ELSE /\ pc' = "askInject"
            /\ UNCHANGED <<caller, phase, idx, outcomes, landed, visit>>

UserRetriesInjection ==
  /\ pc = "askInject"
  /\ pc' = "inject"
  /\ UNCHANGED <<caller, phase, idx, outcomes, landed, visit>>

UserSkipsInjection ==
  /\ pc = "askInject"
  /\ Report("INJECTION_FAILED")
  /\ NextTracker /\ UNCHANGED landed

UserCancelsInjection ==
  /\ pc = "askInject"
  /\ outcomes' = NotAttemptedAfter(outcomes, idx)
  /\ pc' = "cancelled"
  /\ UNCHANGED <<caller, phase, idx, landed, visit>>

\* Where another error can end the upload block, such as a progress callback
\* whose window is gone.  The attempts themselves, and the wait between two of
\* them, are inside a handler of their own.
MayEndTheBlock ==
  \/ pc = "probe" /\ attempt = 1
  \/ pc = "failed" /\ Exhausted
  \/ pc \in {"inject", "askInject"}

UnexpectedError ==
  /\ MayEndTheBlock
  /\ Report("MAY_HAVE_UPLOADED")
  /\ NextTracker /\ UNCHANGED landed

\* The handler of that error calls the callbacks too, before it reports: if one
\* raises, the run breaks off with nothing reported of the upload.
HandlerRaises ==
  /\ MayEndTheBlock
  /\ pc' = "broken"
  /\ UNCHANGED <<caller, phase, idx, outcomes, landed, visit>>

\* Steps the program takes by itself, and steps only a user takes.
ProgramStep ==
  \/ PrepareRun \/ CloneTorrent \/ PreUpload \/ Probe
  \/ PostSucceeds \/ PostFails \/ AskForCode \/ AutoRetry \/ GiveUp
  \/ InjectSucceeds \/ InjectFails

UserStep ==
  \/ UserGivesCode \/ UserRetries \/ UserSkips \/ UserCancels
  \/ UserRetriesInjection \/ UserSkipsInjection \/ UserCancelsInjection

Done == Ended /\ UNCHANGED vars

Next ==
  ProgramStep \/ UserStep \/ RunRaises \/ UnexpectedError \/ HandlerRaises \/ Done

Spec == Init /\ [][Next]_vars /\ WF_vars(ProgramStep)

-----------------------------------------------------------------------------
(* Properties.                                                             *)

\* Every variable stays in its range.
TypeOK ==
  /\ caller \in {"queue", "page"} /\ phase \in {"FULL", "PREPARE"}
  /\ pc \in {"images", "base", "clone", "plugin", "probe", "post", "code",
             "failed", "inject", "askInject",
             "finished", "cancelled", "raised", "broken"}
  /\ idx \in 1..Len(Order)
  /\ health \in {"unknown", "up", "down"}
  /\ attempt \in 1..RetryAttempts
  /\ manual \in [Trackers -> 0..MaxManualRetries]
  /\ failure \in UploadFailure
  /\ outcomes \in [Trackers -> Outcome]
  /\ landed \in [Trackers -> Nat]
  /\ probed \in BOOLEAN /\ warned \subseteq Trackers /\ hidden \subseteq Trackers

\* The run is done with a tracker: its report will not change any more.
Left(t) == \E i \in 1..Len(Order) :
             Order[i] = t /\ (i # idx \/ Ended)

\* The tracker at which the error handler itself raised.
Unreported(t) == pc = "broken" /\ t = Cur

\* A tracker reported as safe to upload again does not have the release: this
\* is what deferring it into a new job relies on (TrackerRunOutcome); unless its
\* uploader denied what the tracker did, or the error handler raised before it
\* reported anything.
SafeMeansNotLanded ==
  \A t \in Trackers :
    Left(t) /\ IsSafeToReupload(outcomes[t])
      => landed[t] = 0 \/ t \in hidden \/ Unreported(t)

\* The same of the trackers the user asked no retry for, in whatever way the
\* run leaves the others, however it is cancelled or broken off; again but for
\* a tracker whose uploader denied what it did and one whose error handler
\* raised.
SafeWithoutRetry ==
  \A t \in Trackers :
    Left(t) /\ manual[t] = 0 /\ IsSafeToReupload(outcomes[t])
      => landed[t] = 0 \/ t \in hidden \/ Unreported(t)

\* A tracker reported as done has the release: the queue deletes its prepared
\* work on the strength of that (JobQueueRunner._settle).
LandedHonest ==
  \A t \in Trackers : HasLanded(outcomes[t]) => landed[t] > 0

\* However its attempts fail, retrying by itself never gives a tracker the
\* release twice (_is_automatic_upload_retryable): but for an uploader that
\* follows a redirect, whose connect timeout is taken for one before the POST
\* wherever it came (classify_upload_post_error).
AutomaticNeverDuplicates ==
  \A t \in Trackers :
    manual[t] = 0 =>
      landed[t] <= 1 \/ (t \in hidden /\ Uploader[t] \cap Redirecting # {})

\* A tracker has the release twice only if the user chose a retry labelled
\* "Re-upload (may duplicate)" (_on_upload_retry_signal), or was not told
\* because the uploader denied what the tracker did.
NoUnwarnedDuplicate ==
  \A t \in Trackers : landed[t] > 1 => t \in warned \cup hidden

\* Nothing is posted on the strength of a health result older than the attempt
\* it serves, however long the wait before it was (upload_once).  PassThePopcorn
\* may still wait for a code inside the attempt, after the probe.
FreshProbe == pc = "post" => probed

\* What an unattended run reports of a tracker, taken with what the tracker
\* did, is one of the results the queue's model is built on; the larger sets
\* only for a tracker whose uploader denied what it did, and for the one at
\* which the error handler raised.
QueueResultsCovered ==
  caller = "queue" =>
    \A t \in Trackers :
      Left(t) => [outcome |-> outcomes[t], landed |-> landed[t] > 0]
                   \in UnattendedResults(t \in hidden, Unreported(t))

\* The same of a run with a user, for the model of the process page; what a
\* retry forgets is in that set, a tracker that took a release without having
\* been visited, or has none although it is reported done, is not; nor, unless
\* the error handler raised, one nothing is reported of.
PageResultsCovered ==
  caller = "page" =>
    \A t \in Trackers :
      Left(t) => [outcome |-> outcomes[t], landed |-> landed[t] > 0]
                   \in AttendedResults(Unreported(t))

\* The worker thread is blocked in upload_retry_cb, or in the prompt for a code.
AwaitingUser ==
  \/ pc = "code"
  \/ /\ caller = "page"
     /\ \/ pc = "askInject"
        \/ pc = "failed" /\ Exhausted

\* A run ends, or stops at a question only a user can answer: never in a retry
\* loop, and when the queue is the caller only at the question for a code.
NeverStuck == []<>(Ended \/ AwaitingUser)
=============================================================================
