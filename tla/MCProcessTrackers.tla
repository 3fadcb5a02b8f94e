-------------------------- MODULE MCProcessTrackers --------------------------
\* Two trackers, so that what one visit leaves behind is seen by the next, and
\* between them every uploader.
EXTENDS ProcessTrackers

MCOrder == <<"aither", "passthepopcorn">>

MCUploader ==
  [t \in {"aither", "passthepopcorn"} |->
     IF t = "aither" THEN {"unit3d", "beyondhd"}
                     ELSE {"passthepopcorn", "hdb", "torrentleech"}]
=============================================================================
