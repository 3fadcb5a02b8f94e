----------------------------- MODULE ImageHandling -----------------------------
(***************************************************************************)
(* What a run does with a job's screenshots before it turns to trackers:   *)
(* each tracker's images go to the image host chosen for it, unless the    *)
(* job already holds their URLs.  The work is one call on one thread; what *)
(* makes it hard is that a run may raise half-way and be followed by       *)
(* another one on the same record, with other hosts and other files.  A    *)
(* set of images counts those that have a URL and those that do not.       *)
(***************************************************************************)
EXTENDS Naturals, FiniteSets

CONSTANTS
  Trackers,
  ImageHosts,  \* real image hosts
  Shots,       \* screenshots the job was made with, or URLs the user gave
  ImgFrom      \* ImageSource of the job: "files" or "urls"

\* Destinations that upload nothing: ImageSource.URLS and ImageHost.DISABLED.
AsGiven == "as given"
Disabled == "disabled"
Destinations == ImageHosts \cup {AsGiven, Disabled}

Images == [ok : 0..Shots, failed : 0..Shots]
NoImages == [ok |-> 0, failed |-> 0]

VARIABLES
  img_to,   \* each tracker's destination
  loaded,   \* local screenshots
  by_host,  \* uploaded_images_by_host
  uploaded, \* uploaded_images
  sent_to,  \* uploaded_image_hosts
  url_data  \* what the last run gave each tracker

record == <<by_host, uploaded, sent_to>>
vars == <<img_to, loaded, record, url_data>>

Init ==
  /\ img_to \in [Trackers -> Destinations]
  /\ loaded = (IF ImgFrom = "files" THEN Shots ELSE 0)
  /\ by_host = [h \in ImageHosts |-> NoImages]
  /\ uploaded = [t \in Trackers |-> NoImages]
  /\ sent_to = [t \in Trackers |-> Disabled]
  /\ url_data = [t \in Trackers |-> NoImages]

\* _reusable_uploaded_images: the tracker's own record while its destination is
\* the same, or else the host's.
Reusable(t) ==
  IF img_to[t] \notin ImageHosts THEN NoImages
  ELSE IF sent_to[t] = img_to[t] /\ uploaded[t] # NoImages THEN uploaded[t]
  ELSE by_host[img_to[t]]

ToUpload(T) == {img_to[t] : t \in {u \in T : Reusable(u) = NoImages}} \cap ImageHosts

\* assert_all_images_uploaded
AllUploaded(images) == images.failed = 0

\* What the trackers of a run get, given what was uploaded; the record of it.
Give(T, results) ==
  /\ url_data' = [t \in Trackers |->
       IF t \notin T THEN NoImages
       ELSE IF img_to[t] \in DOMAIN results THEN results[img_to[t]]
       ELSE IF img_to[t] = AsGiven /\ ImgFrom = "urls" THEN [ok |-> Shots, failed |-> 0]
       ELSE Reusable(t)]
  /\ uploaded' = [t \in Trackers |->
       IF url_data'[t] # NoImages THEN url_data'[t] ELSE uploaded[t]]
  /\ sent_to' = [t \in Trackers |->
       IF url_data'[t] # NoImages THEN img_to[t] ELSE sent_to[t]]

NoResults == [h \in {} |-> NoImages]

\* The files of a run.  URLs are downloaded first; the downloader gives up on an
\* image after a few attempts, and leaves it out.
Download == IF ImgFrom = "urls" THEN loaded' \in 0..Shots ELSE UNCHANGED loaded

Servable == {h \in ImageHosts : by_host[h] # NoImages}

\* Nothing to upload; or no file to upload and no host to offer instead, and the
\* run goes on without images.
RunWithoutUpload(T) ==
  /\ \/ ToUpload(T) = {} /\ UNCHANGED loaded
     \/ ToUpload(T) # {} /\ Download /\ loaded' = 0 /\ Servable = {}
  /\ Give(T, NoResults)
  /\ UNCHANGED <<img_to, by_host>>

\* No file to upload, but a host that has the images could be chosen.
RunRefused(T) ==
  /\ ToUpload(T) # {} /\ Download /\ loaded' = 0 /\ Servable # {}
  /\ UNCHANGED <<img_to, record, url_data>>

\* start_jobs: every host says of every image whether it has a URL.
UploadResults(T) ==
  {r \in [ToUpload(T) -> Images] : \A h \in ToUpload(T) : r[h].ok + r[h].failed = loaded'}

\* What came back is recorded by host before anything can raise; a set that is
\* not complete then does.
RunWithUpload(T) ==
  /\ ToUpload(T) # {} /\ Download /\ loaded' > 0
  /\ \E results \in UploadResults(T) :
       /\ by_host' = [h \in ImageHosts |->
                        IF h \in ToUpload(T) THEN results[h] ELSE by_host[h]]
       /\ IF \A h \in ToUpload(T) : AllUploaded(results[h])
            THEN Give(T, results)
            ELSE UNCHANGED <<uploaded, sent_to, url_data>>
  /\ UNCHANGED img_to

\* Any other run that raises before or during the uploads changes nothing,
\* whatever the other hosts did.  Between runs, the user picks another destination, or
\* a job is loaded without its screenshots, or with them again.
Choose(t) ==
  /\ \E d \in Destinations : img_to' = [img_to EXCEPT ![t] = d]
  /\ UNCHANGED <<loaded, record, url_data>>

Load ==
  /\ ImgFrom = "files" /\ loaded' \in {0, Shots}
  /\ UNCHANGED <<img_to, record, url_data>>

Next ==
  \/ \E T \in SUBSET Trackers \ {{}} :
       RunWithoutUpload(T) \/ RunRefused(T) \/ RunWithUpload(T)
  \/ \E t \in Trackers : Choose(t)
  \/ Load

Spec == Init /\ [][Next]_vars

-----------------------------------------------------------------------------
\* A tracker that gets images gets all of them: an upload that failed for one
\* image never looks complete, in this run or a later one
\* (assert_all_images_uploaded).
ImagesComplete ==
  \A t \in Trackers : url_data[t] # NoImages => url_data[t] = [ok |-> Shots, failed |-> 0]
=============================================================================
