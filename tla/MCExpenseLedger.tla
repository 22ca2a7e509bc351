-------------------------- MODULE MCExpenseLedger ---------------------------
(* ExpenseLedger on a small instance. *)
EXTENDS ExpenseLedger, TLC

RequestSymmetry == Permutations(Requests)

\* All requests are over.
Finished == (\A r \in Requests : pc[r] = "done") /\ UNCHANGED vars
MCNext == Next \/ Finished
MCSpec == Init /\ [][MCNext]_vars
=============================================================================
