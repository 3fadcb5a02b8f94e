----------------------------- MODULE JobDocuments -----------------------------
(***************************************************************************)
(* What the job.json of a saved job says of each tracker, and the          *)
(* operations the program has on it.  The queue (JobQueue) and the         *)
(* wizard's process page (ProcessPage) both write such documents.          *)
(***************************************************************************)
EXTENDS RunOutcomes

CONSTANT Trackers

\* selected: selected_trackers; hosts and release: the keys of
\* tracker_image_hosts and tracker_release_data; the rest: an archive's ledger.
Document == [selected : SUBSET Trackers, hosts : SUBSET Trackers,
             release : SUBSET Trackers, uploaded : SUBSET Trackers,
             uncertain : SUBSET Trackers]

NoDocument == [selected |-> {}, hosts |-> {}, release |-> {},
               uploaded |-> {}, uncertain |-> {}]

NotAttempted == [t \in Trackers |-> "NOT_ATTEMPTED"]

-----------------------------------------------------------------------------
(* Operations on documents.                                                *)

\* _document_is_prepared, which SharedPayload.is_prepared agrees with.
IsPrepared(d) == d.selected # {} /\ d.selected \subseteq d.release

\* Mutant: a per-tracker map missing from _PER_TRACKER_KEYS.
FilterDocumentKeepingHosts(d, keep, retain) ==
  LET release == d.release \cap (keep \cup retain) IN
    [d EXCEPT !.release = release,
              !.selected = (@ \cap keep) \cup (keep \cap release)]

\* filter_context_document: every per-tracker map is narrowed; what is kept
\* and still has its release data becomes selected.
FilterDocument(d, keep, retain) ==
  LET release == d.release \cap (keep \cup retain) IN
    [d EXCEPT !.hosts = @ \cap (keep \cup retain),
              !.release = release,
              !.selected = (@ \cap keep) \cup (keep \cap release)]

\* Mutant: the tracker's name only moves between the ledger's lists.
ReselectNone(d, ts) == d

\* reselect_trackers: a tracker without release data is refused.
ReselectTrackers(d, ts) == [d EXCEPT !.selected = @ \cup (ts \cap d.release)]

\* What _resolve_uncertain makes of the answers.
ResolvedDocument(d, yes, no) ==
  [ReselectTrackers(d, no) EXCEPT !.uploaded = @ \cup yes,
                                  !.uncertain = @ \ (yes \cup no)]

\* build_tracker_data: the trackers a run of this job sends to.
RunTrackers(d) == d.hosts

Landed(d, os) == {t \in RunTrackers(d) : HasLanded(os[t])}

\* Mutant: keep only what is safe to retry.
RetainedForRetry(d, os) == {t \in RunTrackers(d) : IsSafeToReupload(os[t])}

\* What _settle keeps in a plain job.
Retained(d, os) == RunTrackers(d) \ Landed(d, os)

\* Mutants of SettledArchive: an upload confirmed by a later run stays
\* unconfirmed; an unconfirmed upload stays to do.
SettledArchiveStillUncertain(d, os) ==
  LET uploaded == d.uploaded \cup Landed(d, os)
      unconfirmed == {t \in RunTrackers(d) : os[t] = "MAY_HAVE_UPLOADED"}
      uncertain == d.uncertain \cup unconfirmed
      pending == RunTrackers(d) \ (uploaded \cup uncertain)
  IN [FilterDocument(d, pending, uncertain)
        EXCEPT !.uploaded = uploaded, !.uncertain = uncertain]
SettledArchiveStillPending(d, os) ==
  LET uploaded == d.uploaded \cup Landed(d, os)
      uncertain == d.uncertain \ uploaded
      pending == RunTrackers(d) \ (uploaded \cup uncertain)
  IN [FilterDocument(d, pending, uncertain)
        EXCEPT !.uploaded = uploaded, !.uncertain = uncertain]

\* What _settle makes of an archive.
SettledArchive(d, os) ==
  LET uploaded == d.uploaded \cup Landed(d, os)
      unconfirmed == {t \in RunTrackers(d) : os[t] = "MAY_HAVE_UPLOADED"}
      uncertain == (d.uncertain \cup unconfirmed) \ uploaded
      pending == RunTrackers(d) \ (uploaded \cup uncertain)
  IN [FilterDocument(d, pending, uncertain)
        EXCEPT !.uploaded = uploaded, !.uncertain = uncertain]

-----------------------------------------------------------------------------
(* The documents saved jobs start from.                                     *)

\* A plain job covers trackers nothing was sent to, and holds all of their work
\* or, not prepared yet, none of it.  An archive has a ledger:
\* trackers still to do, trackers that took the release, and trackers that may
\* have; it holds the work of the first and the last.
PlainDocuments ==
  {d \in Document : /\ d.selected # {} /\ d.hosts = d.selected
                   /\ d.release \in {d.selected, {}}
                   /\ d.uploaded = {} /\ d.uncertain = {}}

ArchiveDocuments ==
  {d \in Document : /\ d.selected \cap d.uploaded = {}
                   /\ d.uncertain \cap (d.selected \cup d.uploaded) = {}
                   /\ d.hosts = d.selected \cup d.uncertain
                   /\ d.release = d.hosts}
=============================================================================
