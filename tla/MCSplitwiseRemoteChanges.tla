---------------------- MODULE MCSplitwiseRemoteChanges ----------------------
(* SplitwiseRemoteChanges on a small instance. *)
EXTENDS SplitwiseRemoteChanges

MCWorth == [l \in Expenses \cup Settlements |-> 1]

\* Nothing tells two runs or two decisions apart.
Interchangeable == Permutations(Runs) \cup Permutations(Decisions)
=============================================================================
