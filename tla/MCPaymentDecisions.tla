------------------------- MODULE MCPaymentDecisions -------------------------
(* PaymentDecisions on small instances. *)
EXTENDS PaymentDecisions, TLC

\* All payments moved the same amount.
OneClass == [p \in Payments |-> "a"]

RequestSymmetry == Permutations(Requests)

\* Nothing is under way: people may stop asking.
Quiet == (\A r \in Requests : pc[r] \in {"idle", "done"}) /\ UNCHANGED vars
MCNext == Next \/ Quiet
MCSpec == Init /\ [][MCNext]_vars
=============================================================================
