--------------------------- MODULE ProcessPageProofs ---------------------------
(***************************************************************************)
(* Theorems about ProcessPage for any trackers, any job behind the run and *)
(* any order of what the user presses and of how the workers end.          *)
(***************************************************************************)
EXTENDS ProcessPage, TLAPS

Proved == {"UPLOADED", "INJECTION_FAILED"}
Uncertain == {"MAY_HAVE_UPLOADED"}

\* What the buttons allow while a worker is, or is not, there.
Buttons ==
  /\ worker \in {"none", "dupes"} => todo = {}
  /\ worker = "dupes" => mode = "DUPE_CHECK"
  /\ worker # "none" => buttons.save # "on"
  /\ buttons.save = "off" /\ worker = "none" => disabled
  /\ mode = "UPLOAD" => checked
  /\ runPhase = "FULL" /\ todo # {} => checked
  /\ runPhase = "FULL" /\ InRun # {} => mode = "UPLOAD" /\ buttons.prepare # "on"

\* A run is for all of the page's trackers, and those it has not visited have
\* not been attempted.  The whole job can be saved only before it is sent.
Visits ==
  /\ InRun \in {{}, selected}
  /\ \A t \in todo : outcomes[t] = "NOT_ATTEMPTED"
  /\ buttons.save = "on" \/ (buttons.save = "off" /\ worker = "dupes")
       \/ runPhase = "PREPARE"
     => \A t \in InRun : outcomes[t] = "NOT_ATTEMPTED"

\* Whoever has the release is in the ledger or was reported, if it was ever
\* reported as anything.
Sent ==
  /\ \A t \in InRun \cap has :
       outcomes[t] \in Proved \cup Uncertain \/ t \in Unknowable
  /\ InRun = {} => selected \cap has = {}
  /\ has \subseteq job.uploaded \cup job.uncertain \cup selected
  /\ saved.doc.selected \cap saved.had \subseteq Unknowable

\* The ledger of the job behind the run, and what of it the run is for.
Books ==
  /\ kind = "none" => job = NoDocument
  /\ kind = "plain" => job.uploaded = {} /\ job.uncertain = {}
  /\ kind # "archive" => job.hosts = job.selected
                         /\ job.release \in {{}, job.selected}
  /\ InRun = {} \/ runPhase = "PREPARE"
     => selected \cap (job.uploaded \cup job.uncertain) = {}
  /\ selected \cap job.uploaded \subseteq dropped \cup Reported(Proved)
  /\ selected \cap job.uncertain \subseteq dropped \cup Reported(Uncertain)
  /\ job.uncertain \cap job.uploaded \subseteq dropped

\* The titles and image hosts: whoever was visited has a title, and the job
\* holds the titles of its ledger and of no tracker that has the release.
Work ==
  /\ worker = "visiting" => InRun \subseteq release
  /\ (\E t \in InRun : outcomes[t] # "NOT_ATTEMPTED") => InRun \subseteq release
  /\ job.release \subseteq release
  /\ release \subseteq job.release \cup selected
  /\ job.uncertain \subseteq job.release
  /\ job.release \cap job.uploaded \subseteq job.uncertain
  /\ job.release \subseteq job.hosts
  /\ job.hosts \ job.release \subseteq job.selected
  /\ job.selected \cap (job.uncertain \cup job.uploaded) = {}
  /\ saved.doc.hosts = saved.doc.selected
  /\ saved.doc.uploaded = {} /\ saved.doc.uncertain = {}

Inv == TypeOK /\ Buttons /\ Visits /\ Sent /\ Books /\ Work

-----------------------------------------------------------------------------
(* Documents.                                                              *)

\* The parts of CompletedArchive.
NowUploaded == job.uploaded \cup Reported(Proved)
NowUncertain == (job.uncertain \cup Reported(Uncertain)) \ Reported(Proved)
NowPending == (InRun \cup release) \ (NowUploaded \cup NowUncertain)
HostsOfBase == selected \cup (IF kind = "none" THEN {} ELSE job.hosts \cap release)

\* A job built from the page covers its rows and holds every title there is
\* (_build_job_document).
LEMMA BuiltFields ==
  ASSUME TypeOK
  PROVE  /\ BuiltDocument \in Document
         /\ BuiltDocument.selected = selected /\ BuiltDocument.hosts = selected
         /\ BuiltDocument.release = release
         /\ BuiltDocument.uploaded = {} /\ BuiltDocument.uncertain = {}
  BY DEF BuiltDocument, NoDocument, Document, TypeOK

\* A rebuilt job keeps the image hosts of trackers that have a title but no row
\* (rebuild_job_document).
LEMMA RebuiltFields ==
  ASSUME TypeOK
  PROVE  /\ RebuiltDocument \in Document
         /\ RebuiltDocument.selected = selected
         /\ RebuiltDocument.hosts = selected \cup (job.hosts \cap release)
         /\ RebuiltDocument.release = release
         /\ RebuiltDocument.uploaded = {} /\ RebuiltDocument.uncertain = {}
<1> DEFINE b == BuiltDocument
<1>1. /\ b \in Document /\ b.selected = selected /\ b.hosts = selected
      /\ b.release = release /\ b.uploaded = {} /\ b.uncertain = {}
  BY BuiltFields
<1>2. job.hosts \subseteq Trackers
  BY DEF TypeOK, Document
<1>3. RebuiltDocument = [b EXCEPT !.hosts = b.hosts \cup (job.hosts \cap release)]
  BY DEF RebuiltDocument, b
<1> HIDE DEF b
<1> QED BY <1>1, <1>2, <1>3 DEF Document

\* An archive updated by a preparation keeps its ledger (_save_prepared_archive).
LEMMA PreparedFields ==
  ASSUME TypeOK, NEW d, d = PreparedArchive
  PROVE  /\ d \in Document /\ d.selected = selected /\ d.release = release
         /\ d.hosts = selected \cup (job.hosts \cap release)
         /\ d.uploaded = job.uploaded /\ d.uncertain = job.uncertain
<1> DEFINE b == RebuiltDocument
<1>1. /\ b \in Document /\ b.selected = selected /\ b.release = release
      /\ b.hosts = selected \cup (job.hosts \cap release)
  BY RebuiltFields
<1>2. job.uploaded \subseteq Trackers /\ job.uncertain \subseteq Trackers
  BY DEF TypeOK, Document
<1>3. d = [b EXCEPT !.uploaded = job.uploaded, !.uncertain = job.uncertain]
  BY DEF PreparedArchive, b
<1> HIDE DEF b
<1> QED BY <1>1, <1>2, <1>3 DEF Document

\* An archive a run is written into: the ledger takes what the run reported, and
\* the work of the trackers that are left stays (_archive_completed_run).
LEMMA CompletedFields ==
  ASSUME TypeOK, NEW d, d = CompletedArchive
  PROVE  /\ d \in Document
         /\ d.uploaded = NowUploaded /\ d.uncertain = NowUncertain
         /\ d.hosts = HostsOfBase \cap (NowPending \cup NowUncertain)
         /\ d.release = release \cap (NowPending \cup NowUncertain)
         /\ d.selected = (selected \cap NowPending) \cup (NowPending \cap release)
<1> DEFINE landed == {t \in InRun : HasLanded(outcomes[t])}
           base == IF kind = "none" THEN BuiltDocument ELSE RebuiltDocument
           f == FilterDocument(base, NowPending, NowUncertain)
<1>1. landed = Reported(Proved)
  BY DEF HasLanded, Reported, Proved
<1>2. /\ base \in Document /\ base.selected = selected /\ base.release = release
      /\ base.hosts = HostsOfBase
  BY BuiltFields, RebuiltFields DEF HostsOfBase
<1>3. /\ NowUploaded \in SUBSET Trackers /\ NowUncertain \in SUBSET Trackers
      /\ NowPending \in SUBSET Trackers
  BY DEF NowUploaded, NowUncertain, NowPending, Reported, TypeOK, Document
<1>4. /\ f \in Document
      /\ f.hosts = HostsOfBase \cap (NowPending \cup NowUncertain)
      /\ f.release = release \cap (NowPending \cup NowUncertain)
      /\ f.selected = (selected \cap NowPending) \cup (NowPending \cap release)
  <2> HIDE DEF base
  <2>1. /\ f \in Document
        /\ f.hosts = base.hosts \cap (NowPending \cup NowUncertain)
        /\ f.release = base.release \cap (NowPending \cup NowUncertain)
        /\ f.selected = (base.selected \cap NowPending)
             \cup (NowPending \cap (base.release \cap (NowPending \cup NowUncertain)))
    BY <1>2, <1>3 DEF FilterDocument, Document
  <2> QED BY <1>2, <2>1
<1>5. d = [f EXCEPT !.uploaded = NowUploaded, !.uncertain = NowUncertain]
  BY <1>1 DEF CompletedArchive, Pending, NowUploaded, NowUncertain, NowPending,
     Uncertain
<1> HIDE DEF f
<1> QED BY <1>3, <1>4, <1>5 DEF Document

\* The job offered for what a run left over (_offer_deferred_job).
LEMMA OfferFields ==
  ASSUME TypeOK, InRun \subseteq selected,
         NEW d, d = FilterDocument(BuiltDocument, Deferrable, {})
  PROVE  /\ d \in Document
         /\ d.selected = selected \cap Deferrable /\ d.hosts = d.selected
         /\ d.release = release \cap Deferrable
         /\ d.uploaded = {} /\ d.uncertain = {}
<1> DEFINE b == BuiltDocument
<1>1. /\ b \in Document /\ b.selected = selected /\ b.hosts = selected
      /\ b.release = release /\ b.uploaded = {} /\ b.uncertain = {}
  BY BuiltFields
<1>2. Deferrable \subseteq selected
  BY DEF Deferrable
<1>3. d = FilterDocument(b, Deferrable, {})
  OBVIOUS
<1> HIDE DEF b
<1> QED BY <1>1, <1>2, <1>3 DEF FilterDocument, Document

-----------------------------------------------------------------------------
(* The invariant.                                                          *)

\* However the page is reached, nothing was sent to any tracker it is for.
LEMMA InitInv == Init => Inv
<1> SUFFICES ASSUME Init PROVE Inv
  OBVIOUS
<1> USE DEF Init, NoOutcomes, InRun
<1>1. /\ NoDocument \in Document
      /\ NoDocument.selected = {} /\ NoDocument.hosts = {} /\ NoDocument.release = {}
      /\ NoDocument.uploaded = {} /\ NoDocument.uncertain = {}
  BY DEF NoDocument, Document
<1>2. job \in Document
  BY <1>1 DEF FreshStart, PlainStart, ArchiveStart, PlainDocuments, ArchiveDocuments
<1>3. /\ selected \subseteq Trackers /\ has \subseteq Trackers
      /\ has \subseteq job.uploaded \cup job.uncertain \cup selected
      /\ selected \cap has = {}
  BY <1>2 DEF FreshStart, PlainStart, ArchiveStart, Selectable, Document, PlainDocuments
<1>4. TypeOK
  <2>1. outcomes \in [InRun -> Outcome] /\ InRun = {}
    OBVIOUS
  <2>2. buttons \in [process : {"on", "hidden"}, save : {"on", "off", "hidden"},
                     prepare : {"on", "off", "hidden"}]
    OBVIOUS
  <2>3. saved \in [doc : Document, had : SUBSET Trackers]
    BY <1>1
  <2> QED BY <1>2, <1>3, <2>1, <2>2, <2>3 DEF TypeOK, Document
<1>5. Buttons /\ Visits
  BY DEF Buttons, Visits
<1>6. Sent
  BY <1>1, <1>3 DEF Sent
<1>7. Books
  BY <1>1 DEF Books, FreshStart, PlainStart, ArchiveStart, Selectable,
     PlainDocuments, ArchiveDocuments
<1>8. Work
  BY <1>1 DEF Work, FreshStart, PlainStart, ArchiveStart,
     PlainDocuments, ArchiveDocuments
<1> QED BY <1>4, <1>5, <1>6, <1>7, <1>8 DEF Inv

\* What a job that is saved or offered, and an archive that is written, keep of
\* the invariant: nothing in it has the release, and the ledger stays true.
LEMMA SaveJobInv ==
  ASSUME Inv, NEW d \in Document, SaveJob(d),
         d.selected \cap has \subseteq Unknowable,
         d.hosts = d.selected, d.uploaded = {}, d.uncertain = {},
         UNCHANGED <<denied, dropped>>
  PROVE  /\ saved' \in [doc : Document, had : SUBSET Trackers]
         /\ saved'.doc.selected \cap saved'.had \subseteq Unknowable'
         /\ saved'.doc.hosts = saved'.doc.selected
         /\ saved'.doc.uploaded = {} /\ saved'.doc.uncertain = {}
  BY DEF SaveJob, Inv, TypeOK, Sent, Work, Unknowable

LEMMA OfferInv ==
  ASSUME Inv, OfferDeferred, UNCHANGED <<denied, dropped>>
  PROVE  /\ saved' \in [doc : Document, had : SUBSET Trackers]
         /\ saved'.doc.selected \cap saved'.had \subseteq Unknowable'
         /\ saved'.doc.hosts = saved'.doc.selected
         /\ saved'.doc.uploaded = {} /\ saved'.doc.uncertain = {}
<1>1. CASE Deferrable = {}
  BY <1>1 DEF OfferDeferred, Inv, TypeOK, Sent, Work, Unknowable
<1>2. CASE Deferrable # {}
  <2> DEFINE d == FilterDocument(BuiltDocument, Deferrable, {})
  <2>1. /\ d \in Document /\ d.selected = selected \cap Deferrable
        /\ d.hosts = d.selected /\ d.uploaded = {} /\ d.uncertain = {}
    BY OfferFields DEF Inv, Visits
  <2>2. Deferrable \cap has \subseteq Unknowable
    BY DEF Deferrable, IsSafeToReupload, Inv, Sent, Proved, Uncertain
  <2>3. SaveJob(d)
    BY <1>2 DEF OfferDeferred
  <2> HIDE DEF d
  <2> QED BY <2>1, <2>2, <2>3, SaveJobInv
<1> QED BY <1>1, <1>2

LEMMA ArchivedInv ==
  ASSUME Inv, runPhase = "FULL", InRun # {},
         job' = CompletedArchive, kind' = "archive", worker' = "none",
         UNCHANGED <<saved, runPhase, outcomes, release, selected,
                     has, denied, dropped>>
  PROVE  job' \in Document /\ Sent' /\ Books' /\ Work'
<1> DEFINE d == CompletedArchive
<1>1. /\ d \in Document
      /\ d.uploaded = NowUploaded /\ d.uncertain = NowUncertain
      /\ d.hosts = HostsOfBase \cap (NowPending \cup NowUncertain)
      /\ d.release = release \cap (NowPending \cup NowUncertain)
      /\ d.selected = (selected \cap NowPending) \cup (NowPending \cap release)
  BY CompletedFields DEF Inv
<1>2. job' = d
  OBVIOUS
<1> HIDE DEF d
<1>3. InRun = selected /\ InRun' = InRun /\ Reported(Proved)' = Reported(Proved)
      /\ Reported(Uncertain)' = Reported(Uncertain) /\ Unknowable' = Unknowable
  BY DEF Inv, Visits, InRun, Reported, Unknowable
<1>4. Reported(Proved) \subseteq InRun /\ Reported(Uncertain) \subseteq InRun
      /\ Reported(Proved) \cap Reported(Uncertain) = {}
      /\ (Reported(Uncertain) # {} => InRun \subseteq release)
  BY DEF Reported, Proved, Uncertain, Inv, Work
<1>5. NowUncertain \subseteq release
  BY <1>4 DEF NowUncertain, Inv, Work
<1>6. job.selected \cap job.release \subseteq release /\ job.hosts \subseteq Trackers
      /\ (kind = "none" => job.release = {} /\ job.hosts = {})
  BY DEF Inv, Books, Work, NoDocument, TypeOK, Document
<1>7. Sent'
  BY <1>1, <1>2, <1>3, <1>4 DEF Inv, Sent, NowUploaded, NowUncertain
<1>8. Books'
  BY <1>1, <1>2, <1>3, <1>4 DEF Inv, Books, NowUploaded, NowUncertain, NowPending
<1>9. Work'
  <2>1. job'.release \subseteq job'.hosts
        /\ job'.hosts \ job'.release \subseteq job'.selected
    BY <1>1, <1>2, <1>5, <1>6 DEF Inv, Work, HostsOfBase
  <2>2. job'.release \subseteq release' /\ release' \subseteq job'.release \cup selected'
    BY <1>1, <1>2, <1>3, <1>4 DEF Inv, Work, NowUploaded, NowUncertain, NowPending, Books
  <2>3. /\ job'.uncertain \subseteq job'.release
        /\ job'.release \cap job'.uploaded \subseteq job'.uncertain
        /\ job'.selected \cap (job'.uncertain \cup job'.uploaded) = {}
    BY <1>1, <1>2, <1>5 DEF NowPending
  <2> QED BY <1>3, <2>1, <2>2, <2>3 DEF Inv, Work
<1> QED BY <1>1, <1>2, <1>7, <1>8, <1>9

LEMMA ArchiveOrOfferInv ==
  ASSUME Inv, ArchiveOrOffer, worker' = "none",
         UNCHANGED <<runPhase, outcomes, release, selected, has, denied, dropped>>
  PROVE  /\ job' \in Document /\ kind' \in {"none", "plain", "archive"}
         /\ saved' \in [doc : Document, had : SUBSET Trackers]
         /\ Sent' /\ Books' /\ Work'
<1>1. CASE /\ runPhase = "FULL" /\ InRun # {}
           /\ job' = CompletedArchive /\ kind' = "archive"
           /\ UNCHANGED saved
  BY <1>1, ArchivedInv DEF Inv, TypeOK
<1>2. CASE UNCHANGED <<kind, job>> /\ OfferDeferred
  <2>1. /\ saved' \in [doc : Document, had : SUBSET Trackers]
        /\ saved'.doc.selected \cap saved'.had \subseteq Unknowable'
        /\ saved'.doc.hosts = saved'.doc.selected
        /\ saved'.doc.uploaded = {} /\ saved'.doc.uncertain = {}
    BY <1>2, OfferInv
  <2>2. Sent' /\ Books' /\ Work'
    BY <1>2, <2>1 DEF Inv, Sent, Books, Work, InRun, Reported, Unknowable
  <2> QED BY <1>2, <2>1, <2>2 DEF Inv, TypeOK
<1> QED BY <1>1, <1>2 DEF ArchiveOrOffer

\* The worker of the page ended, and its handler left the ledger true.
LEMMA EndedInv ==
  ASSUME Inv, worker # "none", WorkerEnded,
         buttons' \in {ButtonsAfterRun, [ButtonsAfterRun EXCEPT !.process = "hidden"]},
         worker \in {"generating", "visiting"},
         mode' \in {"DUPE_CHECK", mode}, runPhase = "FULL" => mode' = mode,
         checked' = checked, broken \subseteq broken', broken' \subseteq {"run", "start"},
         job' \in Document, kind' \in {"none", "plain", "archive"},
         saved' \in [doc : Document, had : SUBSET Trackers],
         Sent', Books', Work'
  PROVE  Inv'
<1>1. InRun' = InRun
  BY DEF WorkerEnded, InRun
<1>2. /\ buttons'.process \in {"on", "hidden"}
      /\ buttons'.save = IF runPhase = "PREPARE" THEN "on" ELSE "hidden"
      /\ buttons'.prepare = "hidden"
      /\ buttons' \in [process : {"on", "hidden"}, save : {"on", "off", "hidden"},
                       prepare : {"on", "off", "hidden"}]
  BY DEF Inv, TypeOK, ButtonsAfterRun
<1>3. TypeOK'
  BY <1>1, <1>2 DEF Inv, TypeOK, WorkerEnded
<1>4. Buttons'
  BY <1>1, <1>2 DEF Inv, Buttons, WorkerEnded
<1>5. Visits'
  BY <1>1, <1>2 DEF Inv, TypeOK, Visits, WorkerEnded
<1> QED BY <1>3, <1>4, <1>5 DEF Inv

LEMMA OnDupeResultsInv == Inv /\ OnDupeResults => Inv'
<1> SUFFICES ASSUME Inv, OnDupeResults PROVE Inv'
  OBVIOUS
<1> USE DEF OnDupeResults, WorkerEnded
<1>1. InRun' = InRun /\ Unknowable' = Unknowable
  BY DEF InRun, Unknowable
<1>2. /\ buttons'.process = buttons.process
      /\ buttons'.save = (IF buttons.save = "off" THEN "on" ELSE buttons.save)
      /\ buttons'.prepare = (IF buttons.prepare = "off" THEN "on" ELSE buttons.prepare)
      /\ buttons' \in [process : {"on", "hidden"}, save : {"on", "off", "hidden"},
                       prepare : {"on", "off", "hidden"}]
  BY DEF Inv, TypeOK, ButtonsAfterDupes
<1>3. TypeOK'
  BY <1>1, <1>2 DEF Inv, TypeOK
<1>4. Buttons' /\ Visits'
  BY <1>1, <1>2 DEF Inv, TypeOK, Buttons, Visits
<1>5. Sent' /\ Books' /\ Work'
  BY <1>1 DEF Inv, Sent, Books, Work, Reported
<1> QED BY <1>3, <1>4, <1>5 DEF Inv

\* With no run before it, there is nothing to archive and nothing to offer.
LEMMA OnDupesFailedInv == Inv /\ OnDupesFailed => Inv'
<1> SUFFICES ASSUME Inv, OnDupesFailed PROVE Inv'
  OBVIOUS
<1> USE DEF OnDupesFailed, WorkerEnded
<1>1. InRun' = InRun
  BY DEF InRun
<1>2. /\ buttons'.process = buttons.process
      /\ buttons'.save = (IF buttons.save = "off" THEN "on" ELSE buttons.save)
      /\ buttons'.prepare = (IF buttons.prepare = "off" THEN "on" ELSE buttons.prepare)
      /\ buttons' \in [process : {"on", "hidden"}, save : {"on", "off", "hidden"},
                       prepare : {"on", "off", "hidden"}]
  BY DEF Inv, TypeOK, ButtonsAfterDupes
<1>3. /\ job' \in Document /\ kind' \in {"none", "plain", "archive"}
      /\ saved' \in [doc : Document, had : SUBSET Trackers]
      /\ Sent' /\ Books' /\ Work'
  BY ArchiveOrOfferInv
<1>4. TypeOK'
  BY <1>1, <1>2, <1>3 DEF Inv, TypeOK
<1>5. Buttons' /\ Visits'
  BY <1>1, <1>2 DEF Inv, TypeOK, Buttons, Visits
<1> QED BY <1>3, <1>4, <1>5 DEF Inv

LEMMA OnPreparedInv == Inv /\ OnPrepared => Inv'
<1> SUFFICES ASSUME Inv, OnPrepared PROVE Inv'
  OBVIOUS
<1> USE DEF OnPrepared
<1>1. /\ InRun' = InRun /\ Unknowable' = Unknowable
      /\ Reported(Proved)' = Reported(Proved)
      /\ Reported(Uncertain)' = Reported(Uncertain)
      /\ UNCHANGED <<has, denied, dropped, selected, release, outcomes, runPhase>>
      /\ worker' = "none"
  BY DEF WorkerEnded, InRun, Unknowable, Reported
<1>2. mode' = "DUPE_CHECK" /\ runPhase = "PREPARE"
  BY DEF ModePrepared
<1>3. /\ job' \in Document /\ kind' \in {"none", "plain", "archive"}
      /\ saved' \in [doc : Document, had : SUBSET Trackers]
      /\ Sent' /\ Books' /\ Work'
  <2>1. CASE kind = "archive" /\ job' = PreparedArchive /\ UNCHANGED saved
    <3> DEFINE d == PreparedArchive
    <3>1. /\ d \in Document /\ d.selected = selected /\ d.release = release
          /\ d.hosts = selected \cup (job.hosts \cap release)
          /\ d.uploaded = job.uploaded /\ d.uncertain = job.uncertain
      BY PreparedFields DEF Inv
    <3>2. job' = d
      BY <2>1
    <3> HIDE DEF d
    <3> QED BY <1>1, <1>2, <2>1, <3>1, <3>2 DEF Inv, TypeOK, Sent, Books, Work
  <2>2. CASE UNCHANGED <<kind, job, saved>>
    BY <1>1, <2>2 DEF Inv, TypeOK, Sent, Books, Work
  <2>3. CASE UNCHANGED <<kind, job>> /\ SaveJob(BuiltDocument)
    <3> DEFINE d == BuiltDocument
    <3>1. /\ d \in Document /\ d.selected = selected /\ d.hosts = selected
          /\ d.uploaded = {} /\ d.uncertain = {}
      BY BuiltFields DEF Inv
    <3>2. selected \cap has \subseteq Unknowable
      BY <1>2 DEF Inv, Visits, Sent, Proved, Uncertain
    <3>3. SaveJob(d)
      BY <2>3
    <3> HIDE DEF d
    <3>4. /\ saved' \in [doc : Document, had : SUBSET Trackers]
          /\ saved'.doc.selected \cap saved'.had \subseteq Unknowable'
          /\ saved'.doc.hosts = saved'.doc.selected
          /\ saved'.doc.uploaded = {} /\ saved'.doc.uncertain = {}
      BY <1>1, <3>1, <3>2, <3>3, SaveJobInv
    <3> QED BY <1>1, <2>3, <3>4 DEF Inv, TypeOK, Sent, Books, Work
  <2> QED BY <2>1, <2>2, <2>3
<1> QED BY <1>2, <1>3, EndedInv DEF Inv, TypeOK

LEMMA OnFinishedInv == Inv /\ (OnFinished \/ OnCancelled) => Inv'
<1> SUFFICES ASSUME Inv, OnFinished \/ OnCancelled PROVE Inv'
  OBVIOUS
<1> USE DEF OnFinished, OnCancelled
<1>1. /\ job' \in Document /\ kind' \in {"none", "plain", "archive"}
      /\ saved' \in [doc : Document, had : SUBSET Trackers]
      /\ Sent' /\ Books' /\ Work'
  BY ArchiveOrOfferInv DEF WorkerEnded
<1> QED BY <1>1, EndedInv DEF Inv, TypeOK

LEMMA OnFailedInv == Inv /\ OnFailed => Inv'
<1> SUFFICES ASSUME Inv, OnFailed PROVE Inv'
  OBVIOUS
<1> USE DEF OnFailed
<1>1. /\ job' \in Document /\ kind' \in {"none", "plain", "archive"}
      /\ saved' \in [doc : Document, had : SUBSET Trackers]
      /\ Sent' /\ Books' /\ Work'
  BY ArchiveOrOfferInv DEF WorkerEnded
<1> QED BY <1>1, EndedInv DEF Inv, TypeOK

LEMMA GenerateInv == Inv /\ Generate => Inv'
<1> SUFFICES ASSUME Inv, Generate PROVE Inv'
  OBVIOUS
<1> USE DEF Generate, shown, ghosts
<1>1. InRun' = InRun /\ Unknowable' = Unknowable
  BY DEF InRun, Unknowable
<1>2. TypeOK'
  BY <1>1 DEF Inv, TypeOK
<1>3. Buttons' /\ Visits'
  BY <1>1 DEF Inv, Buttons, Visits
<1>4. Sent' /\ Books' /\ Work'
  BY <1>1 DEF Inv, Visits, Sent, Books, Work, Reported
<1> QED BY <1>2, <1>3, <1>4 DEF Inv

LEMMA VisitInv == ASSUME NEW t \in Trackers PROVE Inv /\ Visit(t) => Inv'
<1> SUFFICES ASSUME Inv, Visit(t) PROVE Inv'
  OBVIOUS
<1> USE DEF Visit, shown
<1>1. PICK r \in AttendedResults(TRUE) :
        /\ outcomes' = [outcomes EXCEPT ![t] = r.outcome]
        /\ has' = IF r.landed THEN has \cup {t} ELSE has
        /\ denied' = IF r.landed /\ IsSafeToReupload(r.outcome)
                       THEN denied \cup {t} ELSE denied
        /\ resent' = IF r.landed /\ kind = "archive" /\ t \in job.uploaded
                       THEN resent \cup {t} ELSE resent
  OBVIOUS
<1>2. /\ r.outcome \in Outcome /\ r.landed \in BOOLEAN
      /\ r.landed => IsSafeToReupload(r.outcome) \/ r.outcome \in Proved \cup Uncertain
  BY DEF AttendedResults, UnattendedResults, Outcome, IsSafeToReupload, Proved, Uncertain
<1>3. /\ t \in InRun /\ outcomes[t] = "NOT_ATTEMPTED" /\ InRun' = InRun
      /\ InRun = selected /\ selected \subseteq Trackers
      /\ outcomes' \in [InRun -> Outcome]
      /\ \A u \in InRun : outcomes'[u] = IF u = t THEN r.outcome ELSE outcomes[u]
  BY <1>1, <1>2 DEF Inv, TypeOK, Visits, InRun
<1>4. TypeOK'
  BY <1>1, <1>2, <1>3 DEF Inv, TypeOK
<1>5. Buttons' /\ Visits'
  BY <1>3 DEF Inv, TypeOK, Buttons, Visits
<1>6. Unknowable \subseteq Unknowable'
      /\ (r.landed /\ IsSafeToReupload(r.outcome) => t \in Unknowable')
  BY <1>1 DEF Unknowable
<1>7. Sent'
  <2>1. ASSUME NEW u \in InRun \cap has'
        PROVE  outcomes'[u] \in Proved \cup Uncertain \/ u \in Unknowable'
    <3>1. CASE u # t
      BY <1>1, <1>3, <1>6, <3>1 DEF Inv, Sent
    <3>2. CASE u = t /\ r.landed
      BY <1>2, <1>3, <1>6, <3>2
    <3>3. CASE u = t /\ ~r.landed
      BY <1>1, <1>3, <1>6, <3>3 DEF Inv, Sent, Proved, Uncertain
    <3> QED BY <1>2, <3>1, <3>2, <3>3
  <2> QED BY <1>1, <1>3, <1>6, <2>1 DEF Inv, Sent
<1>8. t \notin Reported(Proved) \cup Reported(Uncertain)
      /\ \A O \in {Proved, Uncertain} : Reported(O) \subseteq Reported(O)'
  BY <1>3 DEF Reported, Proved, Uncertain
<1>9. Books' /\ Work'
  BY <1>3, <1>8 DEF Inv, Books, Work
<1> QED BY <1>4, <1>5, <1>7, <1>9 DEF Inv

\* Starting a run starts its outcomes over; what they said is in `dropped`.
LEMMA StartedInv ==
  ASSUME Inv, NEW phase \in {"FULL", "PREPARE"},
         Idle, selected # {},
         outcomes' = [t \in selected |-> "NOT_ATTEMPTED"],
         runPhase' = phase, worker' = "generating", todo' = selected,
         dropped' = dropped \cup Reported(Outcome \ {"NOT_ATTEMPTED"}),
         mode' = (IF phase = "FULL" THEN "UPLOAD" ELSE "PREPARE"),
         phase = "FULL" => mode = "UPLOAD",
         phase = "PREPARE" => mode = "PREPARE" \/ buttons.prepare = "on",
         checked' \in BOOLEAN, phase = "FULL" => checked' = checked,
         disabled' = TRUE,
         buttons' = [buttons EXCEPT !.save = IF @ = "on" THEN "off" ELSE @,
                                    !.prepare = IF @ = "on" THEN "off" ELSE @],
         UNCHANGED <<release, has, denied, resent, broken, selected, kind, job, saved>>
  PROVE  Inv'
<1>1. InRun' = selected /\ \A t \in selected : outcomes'[t] = "NOT_ATTEMPTED"
  BY DEF InRun
<1>2. /\ buttons'.save = (IF buttons.save = "on" THEN "off" ELSE buttons.save)
      /\ buttons'.prepare = (IF buttons.prepare = "on" THEN "off" ELSE buttons.prepare)
      /\ buttons' \in [process : {"on", "hidden"}, save : {"on", "off", "hidden"},
                       prepare : {"on", "off", "hidden"}]
  BY DEF Inv, TypeOK
<1>3. /\ dropped \subseteq dropped' /\ dropped' \subseteq Trackers
      /\ Reported(Proved) \subseteq dropped' /\ Reported(Uncertain) \subseteq dropped'
      /\ \A t \in InRun : outcomes[t] # "NOT_ATTEMPTED" => t \in dropped'
      /\ Unknowable \subseteq Unknowable' /\ dropped' \subseteq Unknowable'
  BY DEF Reported, Proved, Uncertain, Outcome, Inv, TypeOK, Unknowable
<1>4. TypeOK'
  <2>1. outcomes' \in [InRun' -> Outcome]
    BY <1>1 DEF Outcome
  <2> QED BY <1>1, <1>2, <1>3, <2>1 DEF Inv, TypeOK
<1>5. Buttons'
  BY <1>2 DEF Inv, TypeOK, Buttons, Idle
<1>6. Visits'
  BY <1>1, <1>2 DEF Inv, TypeOK, Visits, Buttons, Idle
<1>7. Sent'
  <2>1. ASSUME NEW t \in selected \cap has PROVE t \in Unknowable'
    BY <1>3 DEF Inv, Visits, Sent, Proved, Uncertain
  <2> QED BY <1>1, <1>3, <2>1 DEF Inv, Sent
<1>8. phase = "PREPARE" => InRun = {} \/ runPhase = "PREPARE"
  BY DEF Inv, TypeOK, Buttons
<1>9. Books'
  BY <1>1, <1>3, <1>8 DEF Inv, Books
<1>10. Work'
  BY <1>1, <1>3 DEF Inv, Work
<1> QED BY <1>4, <1>5, <1>6, <1>7, <1>9, <1>10 DEF Inv

\* The duplicates' worker starts, or the run's cannot.
LEMMA NotStartedInv ==
  ASSUME Inv, Idle, worker' \in {"none", "dupes"},
         mode' \in {"DUPE_CHECK", "UPLOAD", "PREPARE"},
         worker' = "dupes" => mode' = "DUPE_CHECK",
         mode' # mode => buttons.prepare = "on" /\ mode' = "PREPARE",
         checked' \in BOOLEAN, mode' = "UPLOAD" => checked' = checked,
         broken' \in {broken, broken \cup {"start"}},
         disabled' = TRUE,
         buttons' = [buttons EXCEPT !.save = IF @ = "on" THEN "off" ELSE @,
                                    !.prepare = IF @ = "on" THEN "off" ELSE @],
         UNCHANGED <<runPhase, todo, outcomes, release, has, denied, dropped,
                     resent, selected, kind, job, saved>>,
         worker' = "none" => "start" \in broken'
  PROVE  Inv'
<1>1. InRun' = InRun /\ Unknowable' = Unknowable
  BY DEF InRun, Unknowable
<1>2. /\ buttons'.save = (IF buttons.save = "on" THEN "off" ELSE buttons.save)
      /\ buttons'.prepare = (IF buttons.prepare = "on" THEN "off" ELSE buttons.prepare)
      /\ buttons' \in [process : {"on", "hidden"}, save : {"on", "off", "hidden"},
                       prepare : {"on", "off", "hidden"}]
  BY DEF Inv, TypeOK
<1>3. TypeOK'
  BY <1>1, <1>2 DEF Inv, TypeOK
<1>4. Buttons' /\ Visits'
  BY <1>1, <1>2 DEF Inv, TypeOK, Buttons, Visits, Idle
<1>5. Sent' /\ Books' /\ Work'
  BY <1>1 DEF Inv, Sent, Books, Work, Reported, Idle
<1> QED BY <1>3, <1>4, <1>5 DEF Inv

LEMMA PressProcessInv == Inv /\ PressProcess => Inv'
<1> SUFFICES ASSUME Inv, PressProcess PROVE Inv'
  OBVIOUS
<1> USE DEF PressProcess, ProcessJobs
<1>1. mode \in {"DUPE_CHECK", "UPLOAD", "PREPARE"} /\ checked \in BOOLEAN
  BY DEF Inv, TypeOK
<1>2. CASE mode = "DUPE_CHECK"
  BY <1>1, <1>2, NotStartedInv
<1>3. CASE mode = "PREPARE" /\ worker' = "generating"
  BY <1>1, <1>3, StartedInv DEF StartRun, run, Idle
<1>4. CASE mode = "PREPARE" /\ worker' # "generating"
  BY <1>1, <1>4, NotStartedInv DEF StartRun, run, Idle
<1>5. CASE mode = "UPLOAD" /\ worker' = "generating"
  BY <1>1, <1>5, StartedInv DEF StartRun, run, Idle
<1>6. CASE mode = "UPLOAD" /\ worker' # "generating"
  BY <1>1, <1>6, NotStartedInv DEF StartRun, run, Idle
<1> QED BY <1>1, <1>2, <1>3, <1>4, <1>5, <1>6

LEMMA PressPrepareInv == Inv /\ PressPrepare => Inv'
<1> SUFFICES ASSUME Inv, PressPrepare PROVE Inv'
  OBVIOUS
<1> USE DEF PressPrepare, ProcessJobs, run, Idle
<1>1. CASE ProcessJobs("PREPARE") /\ worker' = "generating"
  BY <1>1, StartedInv DEF StartRun
<1>2. CASE ProcessJobs("PREPARE") /\ worker' # "generating"
  BY <1>2, NotStartedInv DEF StartRun
<1>3. CASE UNCHANGED <<run, shown, has, denied, dropped, resent, broken>>
  <2>1. InRun' = InRun /\ Unknowable' = Unknowable
    BY <1>3 DEF InRun, Unknowable
  <2> QED BY <1>3, <2>1 DEF Inv, TypeOK, Buttons, Visits, Sent, Books, Work,
             Reported, shown
<1> QED BY <1>1, <1>2, <1>3

LEMMA PressSaveInv == Inv /\ PressSave => Inv'
<1> SUFFICES ASSUME Inv, PressSave PROVE Inv'
  OBVIOUS
<1> USE DEF PressSave, run, shown, ghosts
<1> DEFINE d == BuiltDocument
<1>1. /\ d \in Document /\ d.selected = selected /\ d.hosts = selected
      /\ d.uploaded = {} /\ d.uncertain = {}
  BY BuiltFields DEF Inv
<1>2. selected \cap has \subseteq Unknowable
  BY DEF Inv, Visits, Sent, Proved, Uncertain
<1>3. SaveJob(d)
  OBVIOUS
<1> HIDE DEF d
<1>4. /\ saved' \in [doc : Document, had : SUBSET Trackers]
      /\ saved'.doc.selected \cap saved'.had \subseteq Unknowable'
      /\ saved'.doc.hosts = saved'.doc.selected
      /\ saved'.doc.uploaded = {} /\ saved'.doc.uncertain = {}
  BY <1>1, <1>2, <1>3, SaveJobInv
<1> QED BY <1>4 DEF Inv, TypeOK, Buttons, Visits, Sent, Books, Work,
           InRun, Unknowable, Reported

LEMMA StutterInv == Inv /\ UNCHANGED vars => Inv'
  BY DEF Inv, TypeOK, Buttons, Visits, Sent, Books, Work, InRun, Unknowable,
     Reported, vars, run, shown, ghosts

LEMMA NextInv == Inv /\ [Next]_vars => Inv'
  BY PressProcessInv, PressPrepareInv, PressSaveInv, GenerateInv, VisitInv,
     OnDupeResultsInv, OnDupesFailedInv, OnPreparedInv, OnFinishedInv,
     OnFailedInv, StutterInv
     DEF Next, WorkerStep, Rest

-----------------------------------------------------------------------------
(* Theorems.                                                               *)

\* The inductive invariant holds of every run of the page.
THEOREM Inductive == Spec => []Inv
  BY InitInv, NextInv, PTL DEF Spec

\* Every variable stays in its range, and a disabled window has a worker or a
\* start that failed (_start_process_worker, _job_ended).
THEOREM TypeCorrect == Spec => []TypeOK
<1>1. Inv => TypeOK
  BY DEF Inv
<1> QED BY <1>1, Inductive, PTL

\* No job the page saves is for a tracker that the page could know to have the
\* release (_save_job, _deferrable_trackers).
THEOREM SavesAreUnsent == Spec => []SavedJobsUnsent
<1>1. Inv => SavedJobsUnsent
  BY DEF Inv, Sent, SavedJobsUnsent
<1> QED BY <1>1, Inductive, PTL

\* Every upload follows a look at the duplicates, or the decision to do without
\* (process_jobs, _on_finished).
THEOREM UploadsFollowTheCheck == Spec => []UploadsAreChecked
<1>1. Inv => UploadsAreChecked
  BY DEF Inv, Buttons, UploadsAreChecked
<1> QED BY <1>1, Inductive, PTL

\* Jobs the page saves and archives it writes are ones the queue's specification
\* starts from, with the three differences JobsFitTheQueue names: an archive may
\* list a tracker as uploaded and as unconfirmed, if a run for it was started
\* over (_build_job_document, rebuild_job_document, _archive_completed_run).
THEOREM QueueAcceptsJobs == Spec => []JobsFitTheQueue
<1>1. ASSUME Inv PROVE JobsFitTheQueue
  <2>1. ASSUME IsPrepared(saved.doc)
        PROVE  [saved.doc EXCEPT !.release = @ \cap saved.doc.hosts] \in PlainDocuments
    <3> DEFINE d == saved.doc
    <3>1. /\ d \in Document /\ d.hosts = d.selected
          /\ d.uploaded = {} /\ d.uncertain = {}
          /\ d.selected # {} /\ d.selected \subseteq d.release
      BY <1>1, <2>1 DEF Inv, TypeOK, Work, IsPrepared
    <3> HIDE DEF d
    <3>2. [d EXCEPT !.release = d.release \cap d.hosts] \in PlainDocuments
      BY <3>1 DEF PlainDocuments, Document
    <3> QED BY <3>2 DEF d
  <2>2. ASSUME kind = "archive", IsPrepared(job)
        PROVE  /\ job.uploaded \cap job.uncertain \subseteq dropped
               /\ [job EXCEPT !.selected = @ \cup (job.release \ job.uncertain),
                              !.uploaded = @ \ job.uncertain] \in ArchiveDocuments
    <3> DEFINE d == job
    <3>1. /\ d \in Document /\ d.selected \subseteq d.release
          /\ d.uncertain \subseteq d.release /\ d.hosts = d.release
          /\ d.release \cap d.uploaded \subseteq d.uncertain
          /\ d.selected \cap (d.uncertain \cup d.uploaded) = {}
          /\ d.uncertain \cap d.uploaded \subseteq dropped
      BY <1>1, <2>2 DEF Inv, TypeOK, Books, Work, IsPrepared
    <3> HIDE DEF d
    <3>2. [d EXCEPT !.selected = d.selected \cup (d.release \ d.uncertain),
                    !.uploaded = d.uploaded \ d.uncertain] \in ArchiveDocuments
      BY <3>1 DEF ArchiveDocuments, Document
    <3> QED BY <3>1, <3>2 DEF d
  <2> QED BY <2>1, <2>2 DEF JobsFitTheQueue
<1> QED BY <1>1, Inductive, PTL

-----------------------------------------------------------------------------
(* What is written into the job behind the run.                            *)

LEMMA JobChanges ==
  ASSUME Inv, [Next]_vars, job' # job
  PROVE  /\ UNCHANGED <<has, denied, dropped, outcomes, release, selected>>
         /\ \/ runPhase = "FULL" /\ InRun # {} /\ job' = CompletedArchive
            \/ runPhase = "PREPARE" /\ job' = PreparedArchive
<1> USE DEF WorkerEnded, ArchiveOrOffer
<1>1. CASE OnPrepared
  BY <1>1 DEF OnPrepared
<1>2. CASE OnDupesFailed
  BY <1>2 DEF OnDupesFailed
<1>3. CASE OnFinished \/ OnCancelled
  BY <1>3 DEF OnFinished, OnCancelled
<1>4. CASE OnFailed
  BY <1>4 DEF OnFailed
<1> QED
  BY <1>1, <1>2, <1>3, <1>4
     DEF Next, WorkerStep, Rest, vars, PressProcess, PressPrepare, PressSave,
         Generate, Visit, OnDupeResults

\* After a run the archive is for no tracker that the page could know to have
\* the release (_archive_completed_run).
THEOREM ArchivesAreUnsent == Spec => ArchiveUnsent
<1> DEFINE A == job' # job /\ kind' = "archive" /\ runPhase = "FULL"
                  => job'.selected \cap has' \subseteq Unknowable'
<1>1. ASSUME Inv, [Next]_vars PROVE A
  <2> SUFFICES ASSUME job' # job, runPhase = "FULL", NEW t \in job'.selected \cap has'
               PROVE  t \in Unknowable'
    OBVIOUS
  <2>1. /\ UNCHANGED <<has, denied, dropped, outcomes>>
        /\ InRun # {} /\ job' = CompletedArchive
    BY <1>1, JobChanges
  <2>2. t \in NowPending /\ t \in has /\ Unknowable' = Unknowable
    BY <1>1, <2>1, CompletedFields DEF Inv, Unknowable
  <2>3. t \in InRun
    BY <1>1, <2>1, <2>2 DEF Inv, Visits, Sent, NowPending, NowUploaded, NowUncertain,
       Reported
  <2> QED
    BY <1>1, <2>2, <2>3 DEF Inv, Sent, NowPending, NowUploaded, NowUncertain,
       Reported
<1> QED BY <1>1, Inductive, PTL DEF Spec, ArchiveUnsent

\* The archive forgets no tracker and no prepared work, and lists each tracker
\* once (_archive_completed_run).
THEOREM ArchivesAreComplete == Spec => ArchiveComplete
<1> DEFINE A ==
      job' # job =>
        /\ job.release \ job'.release \subseteq {t \in InRun : HasLanded(outcomes[t])}
        /\ runPhase = "FULL" =>
             /\ job'.selected \cap (job'.uploaded \cup job'.uncertain) = {}
             /\ job'.uploaded \cap job'.uncertain \subseteq dropped'
             /\ Settled(job) \cup InRun \subseteq Ledger(job')
<1>1. ASSUME Inv, [Next]_vars, job' # job PROVE A
  <2>1. {t \in InRun : HasLanded(outcomes[t])} = Reported(Proved)
    BY DEF HasLanded, Reported, Proved
  <2>2. CASE runPhase = "PREPARE"
    <3>1. job'.release = release
      BY <1>1, <2>2, JobChanges, PreparedFields DEF Inv
    <3> QED BY <1>1, <2>2, <3>1 DEF Inv, Work
  <2>3. CASE runPhase = "FULL"
    <3>1. UNCHANGED dropped /\ InRun # {} /\ job' = CompletedArchive
      BY <1>1, <2>3, JobChanges
    <3>2. /\ job'.uploaded = NowUploaded /\ job'.uncertain = NowUncertain
          /\ job'.release = release \cap (NowPending \cup NowUncertain)
          /\ job'.selected = (selected \cap NowPending) \cup (NowPending \cap release)
      BY <1>1, <3>1, CompletedFields DEF Inv
    <3>3. InRun = selected /\ Reported(Uncertain) \subseteq InRun
          /\ Reported(Proved) \cap Reported(Uncertain) = {}
      BY <1>1, <3>1 DEF Inv, Visits, Reported, Proved, Uncertain
    <3>4. job.release \ job'.release \subseteq Reported(Proved)
      BY <1>1, <3>2 DEF Inv, Work, NowPending, NowUploaded, NowUncertain
    <3>5. /\ job'.selected \cap (job'.uploaded \cup job'.uncertain) = {}
          /\ job'.uploaded \cap job'.uncertain \subseteq dropped'
      BY <1>1, <3>1, <3>2, <3>3 DEF Inv, Books, NowPending, NowUploaded, NowUncertain
    <3>6. Settled(job) \cup InRun \subseteq Ledger(job')
      BY <1>1, <3>2, <3>3 DEF Inv, Work, Settled, Ledger, NowPending, NowUploaded,
         NowUncertain
    <3> QED BY <2>1, <3>4, <3>5, <3>6
  <2> QED BY <1>1, <2>2, <2>3 DEF Inv, TypeOK
<1>2. Inv /\ [Next]_vars => A
  BY <1>1
<1> QED BY <1>2, Inductive, PTL DEF Spec, ArchiveComplete

-----------------------------------------------------------------------------
(* Sending again.                                                          *)

\* A run for a tracker of the ledger's can be started only after a failure.
Once ==
  /\ kind = "archive" /\ selected \cap job.uploaded # {} =>
       \/ "run" \in broken
       \/ buttons.process = "hidden" /\ buttons.prepare = "hidden" /\ worker = "none"
  /\ resent # {} => "run" \in broken

LEMMA InitOnce == Init => Once
  BY DEF Init, Once, FreshStart, PlainStart, ArchiveStart, Selectable

LEMMA NextOnce == Inv /\ Once /\ [Next]_vars => Once'
<1> SUFFICES ASSUME Inv, Once, [Next]_vars PROVE Once'
  OBVIOUS
<1> USE DEF Inv, TypeOK, Once
<1>1. CASE PressProcess \/ PressPrepare
  BY <1>1 DEF PressProcess, PressPrepare, ProcessJobs, StartRun, run, shown, Idle
<1>2. CASE PressSave \/ Generate \/ UNCHANGED vars
  BY <1>2 DEF PressSave, Generate, vars, run, shown, ghosts
<1>3. ASSUME NEW t \in Trackers, Visit(t) PROVE Once'
  BY <1>3 DEF Visit, shown, Visits, InRun
<1>4. CASE OnDupeResults
  BY <1>4 DEF OnDupeResults, WorkerEnded
<1>5. CASE OnDupesFailed
  BY <1>5 DEF OnDupesFailed, WorkerEnded, ArchiveOrOffer, Buttons
<1>6. CASE OnPrepared
  <2>1. job'.uploaded = job.uploaded
    BY <1>6, PreparedFields DEF OnPrepared
  <2> QED BY <1>6, <2>1 DEF OnPrepared, WorkerEnded
<1>7. CASE OnFinished \/ OnCancelled
  <2>1. buttons'.process = "hidden" /\ buttons'.prepare = "hidden" /\ worker' = "none"
    BY <1>7 DEF OnFinished, OnCancelled, WorkerEnded, ButtonsAfterRun
  <2> QED BY <1>7, <2>1 DEF OnFinished, OnCancelled, WorkerEnded
<1>8. CASE OnFailed
  BY <1>8 DEF OnFailed, WorkerEnded
<1> QED
  BY <1>1, <1>2, <1>3, <1>4, <1>5, <1>6, <1>7, <1>8 DEF Next, WorkerStep, Rest

\* A tracker the archive knows to have the release is sent to again only after
\* a run that failed (_on_failed leaves the Process button, _on_finished and
\* _on_cancelled hide it).
THEOREM ResendsFollowFailures == Spec => []ResentOnlyAfterFailure
<1>1. Once => ResentOnlyAfterFailure
  BY DEF Once, ResentOnlyAfterFailure
<1>2. Spec => []Once
  BY InitOnce, NextOnce, Inductive, PTL DEF Spec
<1> QED BY <1>1, <1>2, PTL
=============================================================================
