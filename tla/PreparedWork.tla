----------------------------- MODULE PreparedWork -----------------------------
(***************************************************************************)
(* What a saved job promises, whatever happens around it: the work that    *)
(* was prepared for a tracker is given up only once the release is known   *)
(* to have reached that tracker, or because the user deleted the job.      *)
(* JobQueueRunner._settle words it as "exactly one thing earns removal:    *)
(* proof the release landed".  JobQueue implements this specification.     *)
(***************************************************************************)
CONSTANTS Jobs, Trackers

VARIABLES
  held,      \* held[j]: trackers whose prepared title and NFO job j holds
  proved,    \* proved[j]: trackers job j's release is known to have reached
  discarded  \* jobs the user chose to delete

pwVars == <<held, proved, discarded>>

PWInit ==
  /\ held \in [Jobs -> SUBSET Trackers]
  /\ proved \in [Jobs -> SUBSET Trackers]
  /\ discarded = {}

\* A tracker reported the release, or the user saw it there.
Prove(j) ==
  /\ \E S \in SUBSET Trackers : proved' = [proved EXCEPT ![j] = @ \cup S]
  /\ UNCHANGED <<held, discarded>>

\* The job lets go of the work of trackers that have the release.
Release(j) ==
  /\ \E S \in SUBSET proved[j] : held' = [held EXCEPT ![j] = @ \ S]
  /\ UNCHANGED <<proved, discarded>>

\* The user deletes the job; what a failed deletion leaves behind is nobody's.
Discard(j) ==
  /\ discarded' = discarded \cup {j}
  /\ \E S \in SUBSET held[j] : held' = [held EXCEPT ![j] = S]
  /\ UNCHANGED proved

PWNext == \E j \in Jobs : Prove(j) \/ Release(j) \/ Discard(j)

PWSpec == PWInit /\ [][PWNext]_pwVars
=============================================================================
