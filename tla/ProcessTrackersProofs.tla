------------------------ MODULE ProcessTrackersProofs ------------------------
(***************************************************************************)
(* Theorems about one run of process_trackers, for any trackers in any     *)
(* order, any of the uploaders, any number of attempts and of retries the  *)
(* user asks for.                                                          *)
(***************************************************************************)
EXTENDS ProcessTrackers, TLAPS

\* Nothing has happened to a tracker yet.
Untouched(t) ==
  /\ landed[t] = 0 /\ manual[t] = 0
  /\ t \notin warned /\ t \notin hidden
  /\ outcomes[t] = "NOT_ATTEMPTED"

\* A report that says of a tracker no more than is true of it.
Fits(t, o) ==
  /\ HasLanded(o) => landed[t] > 0
  /\ o \in {"NOT_ATTEMPTED", "UPLOAD_DISABLED"} => landed[t] = 0
  /\ o \in {"UPLOAD_FAILED", "SKIPPED"} /\ manual[t] = 0 => landed[t] = 0 \/ t \in hidden
  /\ o = "SKIPPED" => caller = "page"

\* An uploader that takes any connect timeout for one before the POST denied
\* what the tracker did.
Redirected(t) == t \in hidden /\ Uploader[t] \cap Redirecting # {}

\* The trackers not visited yet, the one about to be visited included.
Ahead ==
  \A k \in 1..Len(Order) :
    k > idx \/ (k = idx /\ pc \in {"images", "base", "clone", "plugin"})
      => Untouched(Order[k])

\* The trackers the run is done with.
Behind ==
  \A t \in Trackers : (t # Cur \/ Ended) /\ ~Unreported(t) => Fits(t, outcomes[t])

\* The copies each tracker has, and why.
Counted ==
  \A t \in Trackers :
    /\ caller = "queue" => manual[t] = 0
    /\ manual[t] = 0 => landed[t] <= 1 \/ Redirected(t)
    /\ landed[t] > 1 => t \in warned \cup hidden

\* What a run that broke off leaves of the tracker it was at: nothing reported,
\* or the upload that succeeded.
Broken ==
  pc = "broken" =>
    \/ outcomes[Cur] = "NOT_ATTEMPTED"
    \/ outcomes[Cur] = "UPLOADED" /\ landed[Cur] > 0

\* The visit that is under way: what it has reported, what an attempt that is
\* about to be made may rely on, and what the failure of the last one allows.
Visiting ==
  /\ pc \in {"images", "base", "clone", "plugin"} => health = "unknown" /\ attempt = 1
  /\ pc \in {"probe", "post", "code", "failed"} => outcomes[Cur] = "NOT_ATTEMPTED"
  /\ pc \in {"inject", "askInject"} => outcomes[Cur] = "UPLOADED" /\ landed[Cur] > 0
  /\ pc \in {"probe", "post", "code"} =>
       /\ manual[Cur] = 0 => landed[Cur] = 0 \/ Redirected(Cur)
       /\ landed[Cur] > 0 => Cur \in warned \cup hidden
  /\ pc = "probe" => CachedHealth = "unknown"
  /\ pc \in {"post", "code"} => probed
  /\ pc = "askInject" => caller = "page"
  /\ pc = "failed" =>
       /\ failure.phase = "DOWNLOAD" => failure.accepted /\ landed[Cur] > 0
       /\ landed[Cur] > 0 => failure.accepted \/ Cur \in warned \cup hidden
       /\ manual[Cur] = 0 /\ landed[Cur] > 0 =>
            \/ failure.accepted
            \/ Cur \in hidden /\ ~failure.retryable
            \/ Redirected(Cur)

Inv == TypeOK /\ Ahead /\ Behind /\ Counted /\ Broken /\ Visiting

-----------------------------------------------------------------------------
(* The order of the trackers.                                              *)

LEMMA Positions ==
  ASSUME idx \in 1..Len(Order)
  PROVE  /\ Len(Order) \in Nat /\ idx \in Nat
         /\ Cur \in Trackers
         /\ \A k \in 1..Len(Order) : Order[k] \in Trackers
         /\ \A k \in 1..Len(Order) : k # idx => Order[k] # Cur
  BY OrderAssumption DEF Trackers, Cur

\* What every visit begins with.
LEMMA FreshVisit ==
  HealthFailure \in UploadFailure /\ 1 \in 1..RetryAttempts /\ 0 \in 0..MaxManualRetries
  BY RetryAssumption DEF HealthFailure, UploadFailure

\* The parts of an error.
LEMMA ErrorFields ==
  ASSUME NEW p \in {"HEALTH_CHECK", "UPLOAD", "DOWNLOAD"},
         NEW a \in BOOLEAN, NEW b \in BOOLEAN
  PROVE  /\ Error(p, a, b) \in UploadFailure
         /\ Error(p, a, b).phase = p
         /\ Error(p, a, b).accepted = a /\ Error(p, a, b).retryable = b
  BY DEF Error, UploadFailure

\* The errors the uploaders share.
LEMMA ErrorKinds ==
  /\ Unannotated \in UploadFailure
  /\ Unannotated.phase = "UPLOAD" /\ ~Unannotated.accepted /\ ~Unannotated.retryable
  /\ \A e \in Exceptions :
       /\ Classified(e) \in UploadFailure /\ Classified(e).phase = "UPLOAD"
       /\ Classified(e).accepted <=> e # "connect timeout"
  /\ \A s \in {"ok", "busy", "refused", "broken"} :
       /\ StatusError(s) \in UploadFailure /\ StatusError(s).phase = "UPLOAD"
       /\ StatusError(s).accepted <=> s = "broken"
       /\ StatusError(s).retryable <=> s \in {"busy", "broken"}
<1>1. /\ Unannotated \in UploadFailure
      /\ Unannotated.phase = "UPLOAD" /\ ~Unannotated.accepted /\ ~Unannotated.retryable
  BY ErrorFields DEF Unannotated
<1>2. ASSUME NEW e \in Exceptions
      PROVE  /\ Classified(e) \in UploadFailure /\ Classified(e).phase = "UPLOAD"
             /\ Classified(e).accepted <=> e # "connect timeout"
  <2>1. (e # "connect timeout") \in BOOLEAN
        /\ (e \in {"connect timeout", "read timeout", "not JSON"}) \in BOOLEAN
    OBVIOUS
  <2> QED BY <2>1, ErrorFields DEF Classified
<1>3. ASSUME NEW s \in {"ok", "busy", "refused", "broken"}
      PROVE  /\ StatusError(s) \in UploadFailure /\ StatusError(s).phase = "UPLOAD"
             /\ StatusError(s).accepted <=> s = "broken"
             /\ StatusError(s).retryable <=> s \in {"busy", "broken"}
  <2>1. (s = "broken") \in BOOLEAN /\ (s \in {"busy", "broken"}) \in BOOLEAN
    OBVIOUS
  <2> QED BY <2>1, ErrorFields DEF StatusError
<1> QED BY <1>1, <1>2, <1>3

\* What an answer that arrived, or did not, makes of a failed upload: nothing
\* that was taken is both denied and retried, where no redirect is followed.
LEMMA Readings ==
  ASSUME NEW u \in Families, NEW f \in UploadFailures(u)
  PROVE  /\ f.error \in UploadFailure /\ f.took \in BOOLEAN
         /\ f.error.phase = "DOWNLOAD" => f.error.accepted /\ f.took
         /\ f.took /\ ~f.error.accepted => ~f.error.retryable \/ u \in Redirecting
<1>1. CASE f \in NeverSent
  <2>1. f.error = Unannotated /\ f.took = FALSE
    BY <1>1 DEF NeverSent
  <2> QED BY <2>1, ErrorKinds
<1>2. CASE f \in LostAnswers(u)
  <2>1. CASE f \in [error : {Classified("connect timeout")},
                    took  : IF u \in Redirecting THEN BOOLEAN ELSE {FALSE}]
    <3>1. /\ f.error = Classified("connect timeout") /\ f.took \in BOOLEAN
          /\ f.took => u \in Redirecting
      BY <2>1
    <3>2. "connect timeout" \in Exceptions
      BY DEF Exceptions
    <3> QED BY <3>1, <3>2, ErrorKinds
  <2>2. CASE f \in [error : {Classified(e) : e \in {"read timeout", "connection", "other"}},
                   took  : BOOLEAN]
    <3>1. PICK e \in {"read timeout", "connection", "other"} : f.error = Classified(e)
      BY <2>2
    <3>2. f.error = Classified(e) /\ f.took \in BOOLEAN
      BY <2>2, <3>1
    <3>3. e \in Exceptions /\ e # "connect timeout"
      BY DEF Exceptions
    <3>4. f.error \in UploadFailure /\ f.error.phase = "UPLOAD" /\ f.error.accepted
      BY <3>2, <3>3, ErrorKinds
    <3> QED BY <3>2, <3>4
  <2> QED BY <1>2, <2>1, <2>2 DEF LostAnswers
<1>3. CASE f \in ReadAnswers(u)
  <2>1. PICK r \in Replies(u) : \E e \in ReplyErrors(u, r) :
               f = [error |-> e, took |-> r.took]
    BY <1>3 DEF ReadAnswers
  <2>2. PICK e \in ReplyErrors(u, r) : f = [error |-> e, took |-> r.took]
    BY <2>1
  <2>3. /\ r.took \in BOOLEAN
        /\ r.status \in {"ok", "busy", "refused", "broken"}
        /\ r.body \in {"success", "rejection", "unreadable", "odd"}
        /\ r.status \in {"busy", "refused"} => ~r.took
    BY DEF Replies, Reply
  <2>4. e \in {Unannotated, Classified("not JSON"), StatusError(r.status)}
    BY <2>2, <2>3
    DEF Families, ReplyErrors, Unit3dErrors, BeyondHdErrors, TorrentLeechErrors,
        HdbErrors, PtpErrors
  <2>5. /\ e \in UploadFailure /\ e.phase = "UPLOAD"
        /\ r.took /\ ~e.accepted => ~e.retryable
    BY <2>3, <2>4, ErrorKinds DEF Exceptions
  <2>6. f.error = e /\ f.took = r.took
    BY <2>2
  <2> QED BY <2>3, <2>5, <2>6
<1>4. CASE f \in LostTorrents(u)
  <2>1. CASE f = [error |-> Unannotated, took |-> TRUE]
    <3>1. f.error = Unannotated /\ f.took = TRUE
      BY <2>1
    <3> QED BY <3>1, ErrorKinds
  <2>2. CASE \E b \in BOOLEAN : f = [error |-> Error("DOWNLOAD", TRUE, b), took |-> TRUE]
    <3>1. PICK b \in BOOLEAN : f = [error |-> Error("DOWNLOAD", TRUE, b), took |-> TRUE]
      BY <2>2
    <3>2. f.error = Error("DOWNLOAD", TRUE, b) /\ f.took = TRUE
      BY <3>1
    <3> QED BY <3>2, ErrorFields
  <2> QED BY <1>4, <2>1, <2>2 DEF LostTorrents
<1> QED BY <1>1, <1>2, <1>3, <1>4 DEF UploadFailures

\* The errors an attempt can end with.
LEMMA Failures ==
  /\ HealthFailure.phase = "HEALTH_CHECK" /\ ~HealthFailure.accepted
  /\ Unannotated \in UploadFailure
  /\ Unannotated.phase = "UPLOAD" /\ ~Unannotated.accepted /\ ~Unannotated.retryable
  BY ErrorKinds DEF HealthFailure

\* What a failed attempt, or the user who skips it, lets the run report.
LEMMA Reports ==
  ASSUME NEW e \in UploadFailure
  PROVE  /\ FailedOutcome(e) \in {"MAY_HAVE_UPLOADED", "UPLOAD_FAILED"}
         /\ FailedOutcome(e) = "UPLOAD_FAILED" <=> ~e.accepted
         /\ SkipOutcome(e) \in {"UPLOADED", "SKIPPED", "MAY_HAVE_UPLOADED"}
         /\ SkipOutcome(e) = "UPLOADED" <=> e.phase = "DOWNLOAD"
         /\ SkipOutcome(e) = "SKIPPED" => ~e.accepted
  BY DEF FailedOutcome, SkipOutcome, UploadFailure

-----------------------------------------------------------------------------
(* The invariant.                                                          *)

LEMMA InvInit == Init => Inv
<1> SUFFICES ASSUME Init PROVE Inv
  OBVIOUS
<1>1. idx \in 1..Len(Order)
  BY OrderAssumption DEF Init
<1>2. TypeOK
  BY <1>1, FreshVisit DEF Init, TypeOK, Outcome
<1>3. \A t \in Trackers : Untouched(t)
  BY DEF Init, Untouched
<1>4. Ahead
  BY <1>1, <1>3, Positions DEF Ahead
<1>5. Behind /\ Counted /\ Broken
  BY <1>3 DEF Init, Behind, Counted, Redirected, Broken, Untouched, Fits, HasLanded
<1>6. Visiting
  BY DEF Init, Visiting, Redirected
<1> QED BY <1>2, <1>4, <1>5, <1>6 DEF Inv

\* The run reports what fits of the tracker it visits and goes on to the next.
LEMMA MovesOn ==
  ASSUME Inv, ~Ended, NextTracker, landed' = landed,
         NEW o \in Outcome, Report(o), Fits(Cur, o)
  PROVE  Inv'
<1> USE OrderAssumption DEF Inv
<1>1. /\ idx \in 1..Len(Order) /\ idx' \in 1..Len(Order) /\ idx' >= idx
      /\ pc' = "clone" => idx' > idx
      /\ pc' \in {"clone", "finished"}
      /\ pc' = "finished" => idx' = idx /\ idx = Len(Order)
  BY Positions DEF TypeOK, NextTracker
<1>2. outcomes' = [outcomes EXCEPT ![Cur] = o] /\ Cur \in Trackers
  BY <1>1, Positions DEF Report
<1>3. UNCHANGED <<caller, landed, manual, warned, hidden>>
  BY DEF NextTracker
<1>4. TypeOK'
  BY <1>1, <1>2, <1>3, FreshVisit DEF TypeOK, NextTracker
<1>5. \A k \in 1..Len(Order) : k > idx => Untouched(Order[k])'
  <2> SUFFICES ASSUME NEW k \in 1..Len(Order), k > idx PROVE Untouched(Order[k])'
    OBVIOUS
  <2>1. Untouched(Order[k]) /\ Order[k] # Cur /\ Order[k] \in Trackers
    BY <1>1, Positions DEF Ahead
  <2> QED BY <1>2, <1>3, <2>1 DEF Untouched, TypeOK
<1>6. Ahead'
  BY <1>1, <1>5 DEF Ahead
<1>7. \A t \in Trackers : Fits(t, outcomes[t])'
  <2> SUFFICES ASSUME NEW t \in Trackers PROVE Fits(t, outcomes[t])'
    OBVIOUS
  <2>1. outcomes'[t] = (IF t = Cur THEN o ELSE outcomes[t])
    BY <1>2 DEF TypeOK
  <2>2. Fits(t, outcomes'[t])
    BY <2>1 DEF Behind, Unreported, Ended
  <2> QED BY <1>3, <2>2 DEF Fits
<1>8. Behind'
  BY <1>7 DEF Behind
<1>9. Counted' /\ Broken'
  BY <1>1, <1>3 DEF Counted, Redirected, Broken
<1>10. Visiting'
  BY <1>1 DEF NextTracker, Visiting, Redirected
<1> QED BY <1>4, <1>6, <1>8, <1>9, <1>10

\* Cancelling reports of the trackers after this one what they already are.
LEMMA CancelChangesNothing ==
  ASSUME Inv, NEW os \in [Trackers -> Outcome],
         \A t \in Trackers : t # Cur => os[t] = outcomes[t]
  PROVE  NotAttemptedAfter(os, idx) = os
<1>1. idx \in 1..Len(Order)
  BY DEF Inv, TypeOK
<1>2. \A k \in (idx + 1)..Len(Order) : os[Order[k]] = "NOT_ATTEMPTED"
  <2> SUFFICES ASSUME NEW k \in (idx + 1)..Len(Order) PROVE os[Order[k]] = "NOT_ATTEMPTED"
    OBVIOUS
  <2>1. k \in 1..Len(Order) /\ k > idx
    BY <1>1, Positions
  <2> QED BY <1>1, <2>1, Positions DEF Inv, Ahead, Untouched
<1>3. \A t \in Trackers : NotAttemptedAfter(os, idx)[t] = os[t]
  BY <1>2 DEF NotAttemptedAfter
<1> QED BY <1>3 DEF NotAttemptedAfter

\* The run stops here: cancelled, or broken off.
LEMMA Stops ==
  ASSUME Inv, ~Ended, pc' \in {"cancelled", "raised"},
         UNCHANGED <<caller, phase, idx, landed, visit>>,
         NEW o \in Outcome, Report(o), Fits(Cur, o)
  PROVE  Inv'
<1> USE DEF Inv, visit
<1>1. idx \in 1..Len(Order) /\ Cur \in Trackers /\ Cur' = Cur
  BY Positions DEF TypeOK, Cur
<1>2. outcomes' = [outcomes EXCEPT ![Cur] = o]
  BY DEF Report
<1>3. TypeOK'
  BY <1>1, <1>2 DEF TypeOK
<1>4. Ahead'
  <2> SUFFICES ASSUME NEW k \in 1..Len(Order), k > idx PROVE Untouched(Order[k])'
    BY DEF Ahead
  <2>1. Untouched(Order[k]) /\ Order[k] # Cur /\ Order[k] \in Trackers
    BY <1>1, Positions DEF Ahead
  <2> QED BY <1>2, <2>1 DEF Untouched, TypeOK
<1>5. \A t \in Trackers : Fits(t, outcomes[t])'
  <2> SUFFICES ASSUME NEW t \in Trackers PROVE Fits(t, outcomes[t])'
    OBVIOUS
  <2>1. outcomes'[t] = (IF t = Cur THEN o ELSE outcomes[t])
    BY <1>2 DEF TypeOK
  <2>2. Fits(t, outcomes'[t])
    BY <2>1 DEF Behind, Unreported, Ended
  <2> QED BY <2>2 DEF Fits
<1>6. Behind' /\ Counted' /\ Broken'
  BY <1>5 DEF Behind, Counted, Redirected, Broken
<1>7. Visiting'
  BY DEF Visiting, Redirected
<1> QED BY <1>3, <1>4, <1>6, <1>7

\* A step within the visit, or before it, that reports nothing: what it does to
\* the tracker visited is for the action to show.
LEMMA Within ==
  ASSUME Inv, TypeOK', ~Ended, ~Ended', UNCHANGED <<caller, idx, outcomes>>,
         pc' \in {"images", "base", "clone", "plugin"} => Untouched(Cur)',
         \A t \in Trackers : t # Cur =>
           /\ landed'[t] = landed[t] /\ manual'[t] = manual[t]
           /\ t \in warned' <=> t \in warned
           /\ t \in hidden' <=> t \in hidden
  PROVE  Ahead' /\ Behind' /\ Broken'
<1> USE DEF Inv
<1>1. idx \in 1..Len(Order) /\ Cur' = Cur
  BY DEF TypeOK, Cur
<1>2. Ahead'
  <2> SUFFICES ASSUME NEW k \in 1..Len(Order), k > idx PROVE Untouched(Order[k])'
    BY <1>1 DEF Ahead, Cur
  <2>1. Untouched(Order[k]) /\ Order[k] # Cur /\ Order[k] \in Trackers
    BY <1>1, Positions DEF Ahead
  <2> QED BY <2>1 DEF Untouched
<1>3. Behind' /\ Broken'
  BY <1>1 DEF Behind, Fits, Unreported, Broken, Ended
<1> QED BY <1>2, <1>3

-----------------------------------------------------------------------------
(* The actions before a tracker is visited.                                *)

LEMMA InvPrepareRun == Inv /\ PrepareRun => Inv'
<1> SUFFICES ASSUME Inv, PrepareRun PROVE Inv'
  OBVIOUS
<1> USE DEF Inv, PrepareRun, visit
<1>1. TypeOK' /\ ~Ended /\ ~Ended'
  BY DEF TypeOK, Ended
<1>2. Untouched(Cur)
  BY DEF Ahead, TypeOK, Cur
<1>3. Ahead' /\ Behind' /\ Broken'
  BY <1>1, <1>2, Within DEF Untouched, Cur
<1>4. Counted' /\ Visiting'
  BY DEF Counted, Visiting, Redirected, Cur
<1> QED BY <1>1, <1>3, <1>4

LEMMA InvRunRaises == Inv /\ RunRaises => Inv'
<1> SUFFICES ASSUME Inv, RunRaises PROVE Inv'
  OBVIOUS
<1>1. Untouched(Cur) /\ Cur \in Trackers
  BY Positions DEF Inv, RunRaises, Ahead, TypeOK, Cur
<1>2. Report("NOT_ATTEMPTED") /\ Fits(Cur, "NOT_ATTEMPTED")
  BY <1>1 DEF Inv, TypeOK, RunRaises, Report, Untouched, Fits, HasLanded
<1>3. "NOT_ATTEMPTED" \in Outcome
  BY DEF Outcome
<1> QED BY <1>2, <1>3, Stops DEF RunRaises, Ended

LEMMA InvCloneTorrent == Inv /\ CloneTorrent => Inv'
<1> SUFFICES ASSUME Inv, CloneTorrent PROVE Inv'
  OBVIOUS
<1>1. Untouched(Cur) /\ Cur \in Trackers /\ ~Ended
  BY Positions DEF Inv, CloneTorrent, Ahead, TypeOK, Cur, Ended
<1>2. CASE phase = "PREPARE"
  <2>1. Report("NOT_ATTEMPTED") /\ Fits(Cur, "NOT_ATTEMPTED")
    BY <1>1, <1>2 DEF Inv, TypeOK, CloneTorrent, Report, Untouched, Fits, HasLanded
  <2>2. "NOT_ATTEMPTED" \in Outcome
    BY DEF Outcome
  <2> QED BY <1>1, <1>2, <2>1, <2>2, MovesOn DEF CloneTorrent
<1>3. CASE phase # "PREPARE"
  <2> USE <1>3 DEF Inv, CloneTorrent, visit
  <2>1. TypeOK' /\ ~Ended'
    BY DEF TypeOK, Ended
  <2>2. Ahead' /\ Behind' /\ Broken'
    BY <1>1, <2>1, Within DEF Untouched, Cur
  <2>3. Counted' /\ Visiting'
    BY DEF Counted, Visiting, Redirected, Cur
  <2> QED BY <2>1, <2>2, <2>3
<1> QED BY <1>2, <1>3

LEMMA InvPreUpload == Inv /\ PreUpload => Inv'
<1> SUFFICES ASSUME Inv, PreUpload PROVE Inv'
  OBVIOUS
<1>1. Untouched(Cur) /\ Cur \in Trackers /\ ~Ended
  BY Positions DEF Inv, PreUpload, Ahead, TypeOK, Cur, Ended
<1>2. \A o \in {"NOT_ATTEMPTED", "UPLOAD_DISABLED", "UPLOAD_FAILED"} :
        o \in Outcome /\ Fits(Cur, o)
  BY <1>1 DEF Outcome, Untouched, Fits, HasLanded
<1>3. CASE NextTracker /\ landed' = landed
            /\ \E o \in {"NOT_ATTEMPTED", "UPLOAD_DISABLED", "UPLOAD_FAILED"} : Report(o)
  BY <1>1, <1>2, <1>3, MovesOn
<1>4. CASE pc' = "probe" /\ UNCHANGED <<caller, phase, idx, outcomes, landed, visit>>
  <2> USE <1>4 DEF Inv, visit
  <2>1. TypeOK' /\ ~Ended'
    BY DEF TypeOK, Ended
  <2>2. Ahead' /\ Behind' /\ Broken'
    BY <1>1, <2>1, Within DEF Cur
  <2>3. Counted'
    BY DEF Counted, Redirected
  <2>4. Visiting'
    BY <1>1 DEF PreUpload, Visiting, Redirected, Cur, Untouched, CachedHealth
  <2> QED BY <2>1, <2>2, <2>3, <2>4
<1>5. outcomes' = outcomes => Report("NOT_ATTEMPTED")
  BY <1>1 DEF Report, Untouched, Inv, TypeOK
<1> QED BY <1>3, <1>4, <1>5 DEF PreUpload

-----------------------------------------------------------------------------
(* The attempts of a visit.                                                *)

\* A step of the visit that leaves every other tracker alone.
LEMMA InvProbe == Inv /\ Probe => Inv'
<1> SUFFICES ASSUME Inv, Probe PROVE Inv'
  OBVIOUS
<1> USE DEF Inv, Probe
<1>1. CachedHealth = "unknown" /\ Cur \in Trackers /\ Cur' = Cur
  BY Positions DEF Visiting, Redirected, TypeOK, Cur
<1>2. TypeOK' /\ ~Ended /\ ~Ended' /\ pc' \in {"post", "failed"}
  BY <1>1, FreshVisit DEF TypeOK, Ended
<1>3. Ahead' /\ Behind' /\ Broken'
  BY <1>2, Within
<1>4. Counted'
  BY DEF Counted, Redirected
<1>5. Visiting'
  <2>1. CASE pc' = "post"
    BY <1>1, <2>1 DEF Visiting, Redirected
  <2>2. CASE pc' = "failed"
    <3>1. failure' = HealthFailure
      BY <2>2
    <3> QED BY <1>1, <2>2, <3>1, Failures DEF Visiting, Redirected
  <2> QED BY <1>2, <2>1, <2>2
<1> QED BY <1>2, <1>3, <1>4, <1>5

LEMMA InvPostSucceeds == Inv /\ PostSucceeds => Inv'
<1> SUFFICES ASSUME Inv, PostSucceeds PROVE Inv'
  OBVIOUS
<1> USE DEF Inv, PostSucceeds
<1>1. Cur \in Trackers /\ Cur' = Cur
  BY Positions DEF TypeOK, Cur
<1>2. /\ landed' = [landed EXCEPT ![Cur] = @ + 1]
      /\ outcomes' = [outcomes EXCEPT ![Cur] = "UPLOADED"]
  BY DEF Report
<1>3. TypeOK'
  <2>1. landed' \in [Trackers -> Nat]
    BY <1>1, <1>2 DEF TypeOK
  <2>2. outcomes' \in [Trackers -> Outcome]
    BY <1>1, <1>2 DEF TypeOK, Outcome
  <2> QED BY <2>1, <2>2 DEF TypeOK
<1>4. landed'[Cur] = landed[Cur] + 1 /\ outcomes'[Cur] = "UPLOADED" /\ landed[Cur] \in Nat
  BY <1>1, <1>2 DEF TypeOK
<1>5. \A t \in Trackers : t # Cur => landed'[t] = landed[t] /\ outcomes'[t] = outcomes[t]
  BY <1>2 DEF TypeOK
<1>6. Ahead'
  <2> SUFFICES ASSUME NEW k \in 1..Len(Order), k > idx PROVE Untouched(Order[k])'
    BY DEF Ahead
  <2>1. Untouched(Order[k]) /\ Order[k] # Cur /\ Order[k] \in Trackers
    BY Positions DEF Ahead, TypeOK
  <2> QED BY <1>5, <2>1 DEF Untouched
<1>7. Behind'
  BY <1>1, <1>5 DEF Behind, Fits, Ended, Unreported
<1>8. Counted'
  <2> SUFFICES ASSUME NEW t \in Trackers
               PROVE  /\ caller = "queue" => manual[t] = 0
                      /\ manual[t] = 0 => landed'[t] <= 1 \/ Redirected(t)'
                      /\ landed'[t] > 1 => t \in warned \cup hidden
    BY DEF Counted, Redirected
  <2>1. CASE t = Cur
    BY <1>4, <2>1 DEF Visiting, Redirected, Counted
  <2>2. CASE t # Cur
    BY <1>5, <2>2 DEF Counted, Redirected
  <2> QED BY <2>1, <2>2
<1>9. Visiting'
  BY <1>1, <1>4 DEF Visiting, Redirected
<1>10. Broken'
  BY DEF Broken
<1> QED BY <1>3, <1>6, <1>7, <1>8, <1>9, <1>10

LEMMA InvPostFails == Inv /\ PostFails => Inv'
<1> SUFFICES ASSUME Inv, PostFails PROVE Inv'
  OBVIOUS
<1> USE DEF Inv, PostFails
<1>1. PICK f \in PostFailures(Cur) :
        /\ failure' = f.error
        /\ landed' = [landed EXCEPT ![Cur] = IF f.took THEN @ + 1 ELSE @]
        /\ hidden' = IF f.took /\ ~f.error.accepted THEN hidden \cup {Cur} ELSE hidden
  OBVIOUS
<1>2. /\ f.error \in UploadFailure /\ f.took \in BOOLEAN
      /\ f.error.phase = "DOWNLOAD" => f.error.accepted /\ f.took
      /\ f.took /\ ~f.error.accepted => ~f.error.retryable \/ Uploader[Cur] \cap Redirecting # {}
  <2>1. Cur \in Trackers
    BY Positions DEF TypeOK
  <2>2. PICK u \in Uploader[Cur] : f \in UploadFailures(u)
    BY DEF PostFailures
  <2>3. u \in Families
    BY <2>1, UploaderAssumption
  <2> QED BY <2>2, <2>3, Readings
<1>3. Cur \in Trackers /\ Cur' = Cur
  BY Positions DEF TypeOK, Cur
<1>4. TypeOK' /\ ~Ended /\ ~Ended'
  <2>1. landed' \in [Trackers -> Nat]
    BY <1>1, <1>3 DEF TypeOK
  <2>2. hidden' \subseteq Trackers
    BY <1>1, <1>3 DEF TypeOK
  <2> QED BY <1>1, <1>2, <2>1, <2>2 DEF TypeOK, Ended
<1>5. /\ landed'[Cur] = (IF f.took THEN landed[Cur] + 1 ELSE landed[Cur])
      /\ landed[Cur] \in Nat
  BY <1>1, <1>3 DEF TypeOK
<1>6. \A t \in Trackers : t # Cur => landed'[t] = landed[t] /\ (t \in hidden' <=> t \in hidden)
  BY <1>1 DEF TypeOK
<1>7. Ahead' /\ Behind' /\ Broken'
  BY <1>4, <1>6, Within
<1>8. Cur \in hidden' <=> Cur \in hidden \/ (f.took /\ ~f.error.accepted)
  BY <1>1
<1>9. Counted'
  <2> SUFFICES ASSUME NEW t \in Trackers
               PROVE  /\ caller = "queue" => manual[t] = 0
                      /\ manual[t] = 0 => landed'[t] <= 1 \/ Redirected(t)'
                      /\ landed'[t] > 1 => t \in warned \cup hidden'
    BY DEF Counted, Redirected
  <2>1. CASE t = Cur
    BY <1>5, <1>8, <2>1 DEF Visiting, Redirected, Counted
  <2>2. CASE t # Cur
    BY <1>6, <2>2 DEF Counted, Redirected
  <2> QED BY <2>1, <2>2
<1>10. Visiting'
  BY <1>1, <1>2, <1>3, <1>5, <1>8 DEF Visiting, Redirected
<1> QED BY <1>4, <1>7, <1>9, <1>10

\* Asking for a code sends nothing; without one, nothing is sent.
LEMMA InvCode == Inv /\ (AskForCode \/ UserGivesCode) => Inv'
<1> SUFFICES ASSUME Inv, AskForCode \/ UserGivesCode PROVE Inv'
  OBVIOUS
<1> USE DEF Inv, visit
<1>1. /\ pc \in {"post", "code"} /\ pc' \in {"post", "code", "failed"}
      /\ UNCHANGED <<caller, phase, idx, health, attempt, manual, outcomes, landed,
                     warned, hidden>>
      /\ failure' = (IF pc' = "failed" THEN Unannotated ELSE failure)
      /\ probed' = (IF pc' = "failed" THEN FALSE ELSE probed)
  BY DEF AskForCode, UserGivesCode
<1>2. TypeOK' /\ ~Ended /\ ~Ended'
  BY <1>1, Failures DEF TypeOK, Ended
<1>3. Cur' = Cur /\ Cur \in Trackers
  BY <1>1, Positions DEF TypeOK, Cur
<1>4. Ahead' /\ Behind' /\ Broken'
  BY <1>1, <1>2, Within
<1>5. Counted'
  BY <1>1 DEF Counted, Redirected
<1>6. Visiting'
  BY <1>1, <1>3, Failures DEF Visiting, Redirected, TypeOK
<1> QED BY <1>2, <1>4, <1>5, <1>6

LEMMA InvAutoRetry == Inv /\ AutoRetry => Inv'
<1> SUFFICES ASSUME Inv, AutoRetry PROVE Inv'
  OBVIOUS
<1> USE DEF Inv, AutoRetry, ghosts
<1>1. ~failure.accepted /\ failure.retryable /\ attempt < RetryAttempts
  BY RetryAssumption DEF Exhausted, AutoRetryable, TypeOK
<1>2. TypeOK' /\ ~Ended /\ ~Ended'
  BY <1>1, RetryAssumption DEF TypeOK, Ended
<1>3. Cur' = Cur /\ Cur \in Trackers
  BY Positions DEF TypeOK, Cur
<1>4. Ahead' /\ Behind' /\ Broken'
  BY <1>2, Within
<1>5. CachedHealth' = "unknown"
  BY <1>3 DEF CachedHealth, TypeOK
<1>6. Counted' /\ Visiting'
  BY <1>1, <1>3, <1>5 DEF Counted, Visiting, Redirected, TypeOK
<1> QED BY <1>2, <1>4, <1>6

LEMMA InvUserRetries == Inv /\ UserRetries => Inv'
<1> SUFFICES ASSUME Inv, UserRetries PROVE Inv'
  OBVIOUS
<1> USE DEF Inv, UserRetries
<1>1. Cur' = Cur /\ Cur \in Trackers
  BY Positions DEF TypeOK, Cur
<1>2. manual[Cur] \in 0..MaxManualRetries
  BY <1>1 DEF TypeOK
<1>3. manual'[Cur] = manual[Cur] + 1 /\ manual'[Cur] \in 0..MaxManualRetries /\ manual'[Cur] > 0
  BY <1>1, <1>2, RetryAssumption DEF TypeOK
<1>4. \A t \in Trackers : t # Cur => manual'[t] = manual[t] /\ (t \in warned' <=> t \in warned)
  BY DEF TypeOK
<1>5. TypeOK' /\ ~Ended /\ ~Ended'
  <2>1. manual' \in [Trackers -> 0..MaxManualRetries]
    BY <1>1, <1>3 DEF TypeOK
  <2>2. warned' \subseteq Trackers
    BY <1>1 DEF TypeOK
  <2> QED BY <2>1, <2>2, FreshVisit DEF TypeOK, Ended
<1>6. Ahead' /\ Behind' /\ Broken'
  BY <1>4, <1>5, Within
<1>7. CachedHealth' = "unknown"
  BY <1>1, <1>3 DEF CachedHealth
<1>8. Counted'
  <2> SUFFICES ASSUME NEW t \in Trackers
               PROVE  /\ caller = "queue" => manual'[t] = 0
                      /\ manual'[t] = 0 => landed[t] <= 1 \/ Redirected(t)'
                      /\ landed[t] > 1 => t \in warned' \cup hidden
    BY DEF Counted, Redirected
  <2>1. t \in warned => t \in warned'
    OBVIOUS
  <2>2. CASE t = Cur
    BY <1>3, <2>1, <2>2 DEF Counted, Redirected
  <2>3. CASE t # Cur
    BY <1>4, <2>3 DEF Counted, Redirected
  <2> QED BY <2>2, <2>3
<1>9. Visiting'
  BY <1>1, <1>3, <1>7 DEF Visiting, Redirected
<1> QED BY <1>5, <1>6, <1>8, <1>9

-----------------------------------------------------------------------------
(* The ends of a visit.                                                    *)

\* What the failure of the last attempt lets the run report fits.
LEMMA FailureFits ==
  ASSUME Inv, pc = "failed"
  PROVE  /\ FailedOutcome(failure) \in Outcome /\ Fits(Cur, FailedOutcome(failure))
         /\ caller = "page" =>
              SkipOutcome(failure) \in Outcome /\ Fits(Cur, SkipOutcome(failure))
<1>1. /\ failure \in UploadFailure /\ Cur \in Trackers
      /\ landed[Cur] \in Nat
  BY Positions DEF Inv, TypeOK
<1>2. /\ failure.phase = "DOWNLOAD" => failure.accepted /\ landed[Cur] > 0
      /\ manual[Cur] = 0 /\ ~failure.accepted => landed[Cur] = 0 \/ Cur \in hidden
  BY <1>1 DEF Inv, Visiting, Redirected
<1>3. Fits(Cur, FailedOutcome(failure))
  BY <1>1, <1>2, Reports DEF Fits, HasLanded
<1>4. caller = "page" => Fits(Cur, SkipOutcome(failure))
  BY <1>1, <1>2, Reports DEF Fits, HasLanded
<1> QED BY <1>1, <1>3, <1>4, Reports DEF Outcome

LEMMA InvGiveUp == Inv /\ (GiveUp \/ UserSkips) => Inv'
  BY FailureFits, MovesOn DEF GiveUp, UserSkips, Ended

LEMMA InvUserCancels == Inv /\ UserCancels => Inv'
<1> SUFFICES ASSUME Inv, UserCancels PROVE Inv'
  OBVIOUS
<1> DEFINE os == [outcomes EXCEPT ![Cur] = FailedOutcome(failure)]
<1>1. FailedOutcome(failure) \in Outcome /\ Fits(Cur, FailedOutcome(failure))
  BY FailureFits DEF UserCancels
<1>2. /\ os \in [Trackers -> Outcome]
      /\ \A t \in Trackers : t # Cur => os[t] = outcomes[t]
  BY <1>1 DEF Inv, TypeOK
<1>3. outcomes' = os
  BY <1>2, CancelChangesNothing DEF UserCancels
<1> QED BY <1>1, <1>3, Stops DEF UserCancels, Report, Ended

\* Injecting: the release is on the tracker, whatever becomes of the torrent.
LEMMA InvInject ==
  ASSUME Inv, \/ InjectSucceeds \/ InjectFails \/ UserRetriesInjection
              \/ UserSkipsInjection \/ UserCancelsInjection
  PROVE  Inv'
<1>1. /\ pc \in {"inject", "askInject"} /\ ~Ended
      /\ Cur \in Trackers /\ outcomes[Cur] = "UPLOADED" /\ landed[Cur] > 0
  BY Positions
  DEF Inv, TypeOK, Visiting, Redirected, Ended, InjectSucceeds, InjectFails,
      UserRetriesInjection, UserSkipsInjection, UserCancelsInjection
<1>2. \A o \in {"UPLOADED", "INJECTION_FAILED"} : o \in Outcome /\ Fits(Cur, o)
  BY <1>1 DEF Outcome, Fits, HasLanded
<1>3. outcomes' = outcomes => Report("UPLOADED")
  BY <1>1 DEF Report, Inv, TypeOK
<1>4. CASE InjectSucceeds
  BY <1>1, <1>2, <1>3, <1>4, MovesOn DEF InjectSucceeds
<1>5. CASE NextTracker /\ landed' = landed /\ Report("INJECTION_FAILED")
  BY <1>1, <1>2, <1>5, MovesOn
<1>6. CASE /\ pc' \in {"inject", "askInject"} /\ caller = "page"
           /\ UNCHANGED <<caller, phase, idx, outcomes, landed, visit>>
  <2> USE <1>6 DEF Inv, visit
  <2>1. TypeOK' /\ ~Ended'
    BY DEF TypeOK, Ended
  <2>2. Ahead' /\ Behind' /\ Broken'
    BY <1>1, <2>1, Within
  <2>3. Counted' /\ Visiting'
    BY <1>1 DEF Counted, Visiting, Redirected, Cur
  <2> QED BY <2>1, <2>2, <2>3
<1>7. CASE UserCancelsInjection
  <2>1. outcomes' = outcomes
    BY <1>7, CancelChangesNothing DEF UserCancelsInjection, Inv, TypeOK
  <2> QED BY <1>1, <1>2, <1>3, <1>7, <2>1, Stops DEF UserCancelsInjection
<1>8. CASE UserRetriesInjection
  BY <1>6, <1>8 DEF UserRetriesInjection, Inv, Visiting, Redirected
<1> QED
  BY <1>4, <1>5, <1>6, <1>7, <1>8
  DEF InjectFails, UserSkipsInjection, Inv, TypeOK

\* The error handler raises: what was reported of the upload stays.
LEMMA InvHandlerRaises == Inv /\ HandlerRaises => Inv'
<1> SUFFICES ASSUME Inv, HandlerRaises PROVE Inv'
  OBVIOUS
<1> USE DEF Inv, HandlerRaises, visit
<1>1. TypeOK' /\ ~Ended /\ Ended' /\ Cur' = Cur
  BY DEF TypeOK, Ended, Cur, MayEndTheBlock
<1>2. Ahead'
  BY <1>1 DEF Ahead, Untouched, Ended
<1>3. Behind'
  BY <1>1 DEF Behind, Fits, Unreported, Ended
<1>4. Broken'
  BY <1>1 DEF Broken, Visiting, MayEndTheBlock
<1>5. Counted' /\ Visiting'
  BY <1>1 DEF Counted, Visiting, Redirected
<1> QED BY <1>1, <1>2, <1>3, <1>4, <1>5

\* MAY_HAVE_UPLOADED fits whatever happened.
LEMMA InvUnexpected == Inv /\ UnexpectedError => Inv'
<1> SUFFICES ASSUME Inv, UnexpectedError PROVE Inv'
  OBVIOUS
<1>1. ~Ended /\ "MAY_HAVE_UPLOADED" \in Outcome /\ Fits(Cur, "MAY_HAVE_UPLOADED")
  BY DEF UnexpectedError, MayEndTheBlock, Ended, Outcome, Fits, HasLanded
<1> QED BY <1>1, MovesOn DEF UnexpectedError

LEMMA InvNext == Inv /\ [Next]_vars => Inv'
<1> SUFFICES ASSUME Inv, [Next]_vars PROVE Inv'
  OBVIOUS
<1>1. CASE UNCHANGED vars
  BY <1>1
  DEF Inv, TypeOK, Ahead, Behind, Counted, Broken, Visiting, Redirected, Untouched,
      Fits, Unreported, Ended, Cur, CachedHealth, vars
<1>2. CASE ProgramStep
  BY <1>2, InvPrepareRun, InvCloneTorrent, InvPreUpload, InvProbe, InvPostSucceeds,
     InvPostFails, InvCode, InvAutoRetry, InvGiveUp, InvInject DEF ProgramStep
<1>3. CASE UserStep
  BY <1>3, InvCode, InvUserRetries, InvGiveUp, InvUserCancels, InvInject DEF UserStep
<1> QED BY <1>1, <1>2, <1>3, InvRunRaises, InvUnexpected,
     InvHandlerRaises DEF Next, Done

\* The results of one visit, spelled out.
LEMMA ResultsAre ==
  ASSUME NEW o \in Outcome, NEW b \in BOOLEAN, NEW denied \in BOOLEAN,
         NEW unreported \in BOOLEAN
  PROVE  /\ (/\ o # "SKIPPED"
             /\ HasLanded(o) => b
             /\ o = "NOT_ATTEMPTED" => ~b \/ unreported
             /\ o = "UPLOAD_DISABLED" => ~b
             /\ o = "UPLOAD_FAILED" => ~b \/ denied)
               => [outcome |-> o, landed |-> b] \in UnattendedResults(denied, unreported)
         /\ (/\ HasLanded(o) => b
             /\ o = "NOT_ATTEMPTED" => ~b \/ unreported
             /\ o = "UPLOAD_DISABLED" => ~b)
               => [outcome |-> o, landed |-> b] \in AttendedResults(unreported)
<1> DEFINE r == [outcome |-> o, landed |-> b]
<1>1. /\ o \in {"UPLOADED", "INJECTION_FAILED"} /\ b =>
            r \in [outcome : {"UPLOADED", "INJECTION_FAILED"}, landed : {TRUE}]
      /\ o \in {"NOT_ATTEMPTED", "UPLOAD_DISABLED", "UPLOAD_FAILED"} /\ ~b =>
            r \in [outcome : {"NOT_ATTEMPTED", "UPLOAD_DISABLED", "UPLOAD_FAILED"},
                  landed  : {FALSE}]
      /\ o = "MAY_HAVE_UPLOADED" => r \in [outcome : {"MAY_HAVE_UPLOADED"}, landed : BOOLEAN]
      /\ o = "UPLOAD_FAILED" /\ b => r \in [outcome : {"UPLOAD_FAILED"}, landed : {TRUE}]
      /\ o = "NOT_ATTEMPTED" /\ b => r \in [outcome : {"NOT_ATTEMPTED"}, landed : {TRUE}]
      /\ o = "SKIPPED" => r \in [outcome : {"SKIPPED"}, landed : BOOLEAN]
  OBVIOUS
<1> HIDE DEF r
<1>2. (/\ o # "SKIPPED"
       /\ HasLanded(o) => b
       /\ o = "NOT_ATTEMPTED" => ~b \/ unreported
       /\ o = "UPLOAD_DISABLED" => ~b
       /\ o = "UPLOAD_FAILED" => ~b \/ denied)
         => r \in UnattendedResults(denied, unreported)
  BY <1>1 DEF UnattendedResults, Outcome, HasLanded
<1>3. (/\ HasLanded(o) => b
       /\ o = "NOT_ATTEMPTED" => ~b \/ unreported
       /\ o = "UPLOAD_DISABLED" => ~b)
         => r \in AttendedResults(unreported)
  BY <1>1 DEF AttendedResults, UnattendedResults, Outcome, HasLanded
<1> QED BY <1>2, <1>3 DEF r

LEMMA Invariant == Spec => []Inv
  BY InvInit, InvNext, PTL DEF Spec

-----------------------------------------------------------------------------
(* The theorems.                                                           *)

\* Every variable of a run stays in its range.
THEOREM TypeCorrect == Spec => []TypeOK
  BY Invariant, PTL DEF Inv

\* A tracker the user asked no retry for, and whose report says it may be sent
\* to again, does not have the release, unless its uploader denied it or the
\* error handler raised at it.
THEOREM SafeToReuploadIsSafe == Spec => []SafeWithoutRetry
<1>1. Inv => SafeWithoutRetry
  BY Positions DEF Inv, Ahead, Behind, Untouched, Fits, SafeWithoutRetry, Left,
     IsSafeToReupload, TypeOK
<1> QED BY <1>1, Invariant, PTL

\* A tracker reported as done has the release.
THEOREM DoneIsDone == Spec => []LandedHonest
<1>1. Inv => LandedHonest
  <2> SUFFICES ASSUME Inv, NEW t \in Trackers, HasLanded(outcomes[t])
               PROVE  landed[t] > 0
    BY DEF LandedHonest
  <2>1. CASE t = Cur /\ ~Ended
    <3>1. pc \notin {"images", "base", "clone", "plugin"}
      BY <2>1 DEF Inv, Ahead, Untouched, TypeOK, Cur, HasLanded
    <3> QED BY <2>1, <3>1 DEF Inv, TypeOK, Visiting, Redirected, Ended, HasLanded
  <2>2. CASE (t # Cur \/ Ended) /\ ~Unreported(t)
    BY <2>2 DEF Inv, Behind, Fits
  <2>3. CASE Unreported(t)
    BY <2>3 DEF Inv, Broken, Unreported, HasLanded
  <2> QED BY <2>1, <2>2, <2>3
<1> QED BY <1>1, Invariant, PTL

\* Retrying by itself never gives a tracker the release twice, but for an
\* uploader that follows a redirect and denied that the tracker has it.
THEOREM RetryingIsSafe == Spec => []AutomaticNeverDuplicates
<1>1. Inv => AutomaticNeverDuplicates
  BY DEF Inv, Counted, Redirected, AutomaticNeverDuplicates
<1> QED BY <1>1, Invariant, PTL

\* A second copy needs the user's "Re-upload (may duplicate)", or an uploader
\* that denied the first.
THEOREM DuplicatesAreWarned == Spec => []NoUnwarnedDuplicate
<1>1. Inv => NoUnwarnedDuplicate
  BY DEF Inv, Counted, Redirected, NoUnwarnedDuplicate
<1> QED BY <1>1, Invariant, PTL

\* Every POST is preceded by a probe of its own.
THEOREM ProbesAreFresh == Spec => []FreshProbe
<1>1. Inv => FreshProbe
  BY DEF Inv, Visiting, Redirected, FreshProbe
<1> QED BY <1>1, Invariant, PTL

\* The reports of an unattended run, with what the trackers did, are among the
\* results JobQueue takes for granted.
THEOREM QueueIsFedCorrectly == Spec => []QueueResultsCovered
<1>1. Inv => QueueResultsCovered
  <2> SUFFICES ASSUME Inv, caller = "queue", NEW t \in Trackers, Left(t)
               PROVE  [outcome |-> outcomes[t], landed |-> landed[t] > 0]
                        \in UnattendedResults(t \in hidden, Unreported(t))
    BY DEF QueueResultsCovered
  <2>1. /\ ~Unreported(t) => Fits(t, outcomes[t])
        /\ Unreported(t) => \/ outcomes[t] = "NOT_ATTEMPTED"
                            \/ outcomes[t] = "UPLOADED" /\ landed[t] > 0
    <3>1. t # Cur \/ Ended
      BY Positions DEF Left, Inv, TypeOK
    <3>2. ~Unreported(t) => Fits(t, outcomes[t])
      BY <3>1 DEF Inv, Behind
    <3> QED BY <3>2 DEF Inv, Broken, Unreported
  <2>2. outcomes[t] \in Outcome /\ landed[t] \in Nat /\ manual[t] = 0
    BY DEF Inv, TypeOK, Counted, Redirected
  <2>3. /\ outcomes[t] # "SKIPPED"
        /\ HasLanded(outcomes[t]) => landed[t] > 0
        /\ outcomes[t] = "NOT_ATTEMPTED" => ~(landed[t] > 0) \/ Unreported(t)
        /\ outcomes[t] = "UPLOAD_DISABLED" => ~(landed[t] > 0)
        /\ outcomes[t] = "UPLOAD_FAILED" => ~(landed[t] > 0) \/ t \in hidden
    BY <2>1, <2>2 DEF Fits, HasLanded
  <2>4. /\ (landed[t] > 0) \in BOOLEAN /\ (t \in hidden) \in BOOLEAN
        /\ Unreported(t) \in BOOLEAN
    BY DEF Unreported
  <2> QED BY <2>2, <2>3, <2>4, ResultsAre
<1> QED BY <1>1, Invariant, PTL

\* The same of the reports of a run with a user, and ProcessPage.
THEOREM PageIsFedCorrectly == Spec => []PageResultsCovered
<1>1. Inv => PageResultsCovered
  <2> SUFFICES ASSUME Inv, NEW t \in Trackers, Left(t)
               PROVE  [outcome |-> outcomes[t], landed |-> landed[t] > 0]
                        \in AttendedResults(Unreported(t))
    BY DEF PageResultsCovered
  <2>1. /\ ~Unreported(t) => Fits(t, outcomes[t])
        /\ Unreported(t) => \/ outcomes[t] = "NOT_ATTEMPTED"
                            \/ outcomes[t] = "UPLOADED" /\ landed[t] > 0
    <3>1. t # Cur \/ Ended
      BY Positions DEF Left, Inv, TypeOK
    <3>2. ~Unreported(t) => Fits(t, outcomes[t])
      BY <3>1 DEF Inv, Behind
    <3> QED BY <3>2 DEF Inv, Broken, Unreported
  <2>2. outcomes[t] \in Outcome /\ landed[t] \in Nat
    BY DEF Inv, TypeOK
  <2>3. /\ HasLanded(outcomes[t]) => landed[t] > 0
        /\ outcomes[t] = "NOT_ATTEMPTED" => ~(landed[t] > 0) \/ Unreported(t)
        /\ outcomes[t] = "UPLOAD_DISABLED" => ~(landed[t] > 0)
    BY <2>1, <2>2 DEF Fits, HasLanded
  <2>4. (landed[t] > 0) \in BOOLEAN /\ Unreported(t) \in BOOLEAN
    BY DEF Unreported
  <2> QED BY <2>2, <2>3, <2>4, ResultsAre
<1> QED BY <1>1, Invariant, PTL
=============================================================================
