---------------------------- MODULE MCScheduler ----------------------------
(* Instances of Scheduler for TLC.                                         *)
EXTENDS Scheduler, TLC

\* Targets, runner structs and request goroutines are interchangeable.
Symmetry == Permutations(Targets) \cup Permutations(Runners) \cup Permutations(Requests)

\* Requests may ask for everything.
AllForms == {"save", "pause", "remove", "checkNow"} \X Targets

\* Requests remove one target; a delete that fails starts its runner again.
RemoveOne == {<<"remove", CHOOSE t \in Targets : TRUE>>}

\* What the rest of the Manager depends on: the checks table and the map of Stats
\* are written, and read only for the Stats.  States that differ in nothing else
\* have the same future and need not be told apart.
WithoutStats == <<table, runners, sem, ops, gpc, job, cancelled, nudged, rpc, req, await,
                  upkeep, main>>
=============================================================================
