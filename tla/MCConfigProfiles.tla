--------------------------- MODULE MCConfigProfiles ---------------------------
(* Two profiles: one old, and one that does not load, for each reason.      *)
EXTENDS ConfigProfiles

MCInitially ==
  {[p \in Profiles |-> [owner |-> p, edits |-> 0,
                        schema |-> IF p = "work" THEN "old" ELSE schema]]
     : schema \in {"unmigratable", "newer", "invalid"}}
=============================================================================
