-------------------------- MODULE MCSplitwiseSync --------------------------
(* SplitwiseSync on a small instance, from the moment an expense is ready. *)
EXTENDS SplitwiseSync, TLC

CONSTANT Approver   \* the request that divided the expense
ASSUME ApproverAssumption == Approver \in Requests

\* The other requests are interchangeable.
RequestSymmetry == Permutations(Requests \ {Approver})

\* A shared expense that has been divided and moved to ready_to_sync, with at most one late
\* request that read it before the move and will make the same move again.  SyncInit reaches
\* these states in a few units of work; starting here leaves the bound on requests to what
\* happens afterwards.
ReadyInit ==
    /\ state = [e \in Expenses |-> "ready_to_sync"]
    /\ kind = [e \in Expenses |-> "shared"]
    /\ refunded = [e \in Expenses |-> 0]
    /\ live = [e \in Expenses |-> {[id |-> Approver, total |-> Gross, others |-> TRUE]}]
    /\ adj = [r \in Requests |-> NoAdjustment]
    /\ row = [r \in Requests |-> NoRow]
    /\ lock = [e \in Expenses |-> NoRequest]
    /\ \E late \in (Requests \ {Approver}) \cup {NoRequest} :
        /\ pc = [r \in Requests |-> IF r = Approver THEN "done"
                                    ELSE IF r = late THEN "open" ELSE "idle"]
        /\ job = [r \in Requests |->
                     IF r = late THEN [NoJob EXCEPT !.op = "transition", !.to = "ready_to_sync"]
                                 ELSE NoJob]
        /\ rd = [r \in Requests |->
                    IF r = late THEN [state |-> "allocated", kind |-> "shared", net |-> Gross,
                                      prev |-> live[AnExpense]]
                                ELSE NothingRead]
    /\ remote = [r \in Requests |-> NoEntry]
    /\ push = [r \in Requests |-> NoPush]
    /\ crossed = [e \in Expenses |-> {}]

\* All requests are over.
Finished == (\A r \in Requests : pc[r] = "done") /\ UNCHANGED syncVars
MCNext == SyncNext \/ Finished
MCSpec == ReadyInit /\ [][MCNext]_syncVars
=============================================================================
