----------------------------- MODULE MCJobQueue -----------------------------
(* JobQueue on a small instance. *)
EXTENDS JobQueue, TLC

QueueSymmetry == Permutations(Jobs) \cup Permutations(Workers) \cup Permutations(People)

\* Nobody is at work.
Quiet == (\A w \in Workers : at[w] = "idle") /\ UNCHANGED vars
MCNext == Next \/ Quiet
MCSpec == Init /\ [][MCNext]_vars
=============================================================================
