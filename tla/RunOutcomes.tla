----------------------------- MODULE RunOutcomes -----------------------------
(***************************************************************************)
(* The vocabulary every part of NfoForge uses for how one tracker ended up *)
(* in a processing run: the members of TrackerRunOutcome, the two          *)
(* questions the code asks of them, and the results an unattended visit to *)
(* one tracker can have.  ProcessTrackers shows that its runs stay inside  *)
(* UnattendedResults; JobQueue takes one of them per tracker.              *)
(***************************************************************************)

\* The members of the enumeration TrackerRunOutcome.
Outcome == {"NOT_ATTEMPTED", "SKIPPED", "UPLOAD_FAILED", "MAY_HAVE_UPLOADED",
            "UPLOADED", "INJECTION_FAILED", "UPLOAD_DISABLED"}

\* May a tracker that ended this way be carried into a job that runs again?
IsSafeToReupload(o) == o \in {"NOT_ATTEMPTED", "SKIPPED", "UPLOAD_FAILED"}

\* The outcomes JobQueueRunner._settle accepts as proof that the release
\* reached the tracker.
HasLanded(o) == o \in {"UPLOADED", "INJECTION_FAILED"}

\* What one unattended visit to a tracker reports (outcome), with whether the
\* tracker really took the release (landed).  Only an ambiguous error leaves
\* both possible.  unannotated: the uploader may raise, after the tracker
\* answered, an error that does not carry server_accepted.  unreported: a
\* progress callback may raise before anything is reported.
UnattendedResults(unannotated, unreported) ==
  [outcome : {"UPLOADED", "INJECTION_FAILED"}, landed : {TRUE}]
    \cup [outcome : {"NOT_ATTEMPTED", "UPLOAD_DISABLED", "UPLOAD_FAILED"},
          landed  : {FALSE}]
    \cup [outcome : {"MAY_HAVE_UPLOADED"}, landed : BOOLEAN]
    \cup (IF unannotated
            THEN [outcome : {"UPLOAD_FAILED"}, landed : {TRUE}]
            ELSE {})
    \cup (IF unreported
            THEN [outcome : {"NOT_ATTEMPTED"}, landed : {TRUE}]
            ELSE {})

\* What one visit on the process page reports: also a tracker the user skipped;
\* and, once the user retried an upload, an outcome that denies what an earlier
\* attempt did (the acceptance of a failure is forgotten with it).
AttendedResults(unreported) ==
  UnattendedResults(TRUE, unreported)
    \cup [outcome : {"SKIPPED"}, landed : BOOLEAN]
=============================================================================
