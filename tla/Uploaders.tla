------------------------------ MODULE Uploaders ------------------------------
(***************************************************************************)
(* How the uploaders read what became of an upload.  A tracker is sent the *)
(* release in one POST; its answer may be lost, or may be anything a web   *)
(* server answers.  Every uploader turns it into success or an error that  *)
(* says whether the tracker may have taken the release (server_accepted)   *)
(* and whether it may be sent again (retryable).  The uploaders differ in  *)
(* what they look at; the seventeen trackers use one of these five.        *)
(***************************************************************************)

Families == {"unit3d", "beyondhd", "torrentleech", "hdb", "passthepopcorn"}

Error(phase, accepted, retryable) ==
  [phase |-> phase, accepted |-> accepted, retryable |-> retryable]

\* An error without annotations: another exception, or a TrackerError that was
\* given none.
Unannotated == Error("UPLOAD", FALSE, FALSE)

\* Signing in, a missing key, or building the form failed: nothing was sent.
NeverSent == {[error |-> Unannotated, took |-> FALSE]}

-----------------------------------------------------------------------------
(* The answer does not arrive.                                             *)

Exceptions == {"connect timeout", "read timeout", "not JSON", "connection", "other"}

\* classify_upload_post_error
Classified(e) ==
  Error("UPLOAD", e # "connect timeout",
        e \in {"connect timeout", "read timeout", "not JSON"})

\* The uploaders whose POST follows a redirect: the connection that times out
\* may be the second one, made after the tracker had the release.
Redirecting == {"hdb", "passthepopcorn"}

LostAnswers(f) ==
  [error : {Classified("connect timeout")},
   took  : IF f \in Redirecting THEN BOOLEAN ELSE {FALSE}]
    \cup [error : {Classified(e) : e \in {"read timeout", "connection", "other"}},
          took  : BOOLEAN]

-----------------------------------------------------------------------------
(* The answer arrives.                                                     *)

\* status: 200; 408 or 429; another 4xx; 5xx.  body: what the tracker answers to
\* an upload it took, or rejected; a page that is not the API's; or one that
\* reads like neither.
Reply == [status : {"ok", "busy", "refused", "broken"},
          body   : {"success", "rejection", "unreadable", "odd"},
          took   : BOOLEAN]

\* What a tracker does (external).  Only after an internal error, or with an
\* answer nobody understands, it is open whether it took the release; where an
\* uploader goes by the status alone, its tracker is taken at its word.
Replies(f) ==
  {r \in Reply :
     /\ r.body = "success" => r.status = "ok" /\ r.took
     /\ r.status \in {"busy", "refused"} => ~r.took
     /\ r.body = "rejection" /\ r.status = "ok" => ~r.took
     /\ f = "torrentleech" /\ r.status = "ok" => r.took
     /\ f = "hdb" /\ r.status = "ok" /\ r.body # "success" => ~r.took}

\* Mutant: an internal error counts as a rejection.
StatusErrorAsRejection(status) == Error("UPLOAD", FALSE, status \in {"busy", "broken"})

\* 408 and 429 come before the request is processed; a 5xx may come after the
\* tracker recorded the upload.
StatusError(status) == Error("UPLOAD", status = "broken", status \in {"busy", "broken"})

\* The errors an uploader raises for an answer; none if it counts as success.
\* UNIT3D goes by the JSON, whatever the status; a JSON value that is no object
\* raises an error of another kind.
Unit3dErrors(r) ==
  CASE r.body = "success"    -> {}
    [] r.body = "unreadable" -> {Classified("not JSON")}
    [] r.body = "odd"        -> {Unannotated}
    [] r.body = "rejection"  -> {StatusError(r.status)}

\* BeyondHD: the status first, then the JSON; an unknown code in it counts as an
\* upload that did not report success.
BeyondHdErrors(r) ==
  CASE r.status # "ok"                      -> {StatusError(r.status)}
    [] r.status = "ok" /\ r.body = "success"    -> {}
    [] r.status = "ok" /\ r.body = "unreadable" -> {Classified("not JSON")}
    [] r.status = "ok" /\ r.body \in {"rejection", "odd"} -> {Unannotated}

\* TorrentLeech: the status alone.
TorrentLeechErrors(r) == IF r.status = "ok" THEN {} ELSE {StatusError(r.status)}

\* HDBits: where the answer was redirected to.
HdbErrors(r) == IF r.body = "success" THEN {} ELSE {StatusError(r.status)}

\* PassThePopcorn: the same, but nothing is said about what the tracker did.
PtpErrors(r) == IF r.body = "success" THEN {} ELSE {Unannotated}

ReplyErrors(f, r) ==
  CASE f = "unit3d"         -> Unit3dErrors(r)
    [] f = "beyondhd"       -> BeyondHdErrors(r)
    [] f = "torrentleech"   -> TorrentLeechErrors(r)
    [] f = "hdb"            -> HdbErrors(r)
    [] f = "passthepopcorn" -> PtpErrors(r)

ReadAnswers(f) ==
  UNION {{[error |-> e, took |-> r.took] : e \in ReplyErrors(f, r)} : r \in Replies(f)}

\* UNIT3D and HDBits hand out their own copy of the torrent, fetched after the
\* upload.  Its errors say that the tracker took the release, except those of
\* making room for the file.
LostTorrents(f) ==
  IF f \in {"unit3d", "hdb"}
    THEN {[error |-> Error("DOWNLOAD", TRUE, retryable), took |-> TRUE] :
            retryable \in BOOLEAN}
           \cup {[error |-> Unannotated, took |-> TRUE]}
    ELSE {}

-----------------------------------------------------------------------------
\* The ways one upload can fail, each with whether the tracker took the release.
UploadFailures(f) ==
  NeverSent \cup LostAnswers(f) \cup ReadAnswers(f) \cup LostTorrents(f)
=============================================================================
