---------------------------- MODULE SplitwiseLink ----------------------------
(***************************************************************************)
(* What a sync row promises (src/src/domain/lifecycle.ts): the moves its   *)
(* status may make, and that it names another entry of Splitwise only when *)
(* the one it named is no longer there to be corrected.  Nothing is said   *)
(* of when or why: the modules that push, repair, mark and adopt are.      *)
(***************************************************************************)
EXTENDS FiniteSets

CONSTANTS
    Links,    \* the rows of splitwise_expenses and splitwise_settlements
    Nowhere   \* the entry of a row that does not exist

VARIABLES
    of,       \* "expense" or "settlement": what a row links, "none" before it exists
    st,       \* its sync_status
    entry,    \* its splitwise_expense_id
    contested \* the rows of records that two pushes were made of at once: nothing
              \* orders the writers of such a row, and nothing is promised of it

linkVars == <<of, st, entry, contested>>

\* SPLITWISE_EXPENSE_SYNC_TRANSITIONS and SPLITWISE_SETTLEMENT_SYNC_TRANSITIONS.  No code
\* writes "pending" or "sync_failed", so their rows and columns are left out.
Transitions(kind) ==
    {<<"synced", "drifted">>, <<"synced", "externally_deleted">>,
     <<"drifted", "synced">>, <<"drifted", "externally_deleted">>,
     <<"externally_deleted", "synced">>}
    \cup IF kind = "expense"
         THEN {<<"synced", "stale">>, <<"drifted", "withdrawn">>, <<"stale", "synced">>,
               <<"stale", "withdrawn">>, <<"stale", "externally_deleted">>,
               <<"withdrawn", "synced">>}
         ELSE {}

NothingStands == {"withdrawn", "externally_deleted"}

Init ==
    /\ of = [l \in Links |-> "none"]
    /\ st = [l \in Links |-> "none"]
    /\ entry = [l \in Links |-> Nowhere]
    /\ contested = {}

Unchanged(l) == of'[l] = of[l] /\ st'[l] = st[l] /\ entry'[l] = entry[l]

\* A first sync, or the adoption of an entry that somebody else made.
Appears(l) ==
    /\ of[l] = "none" /\ of'[l] \in {"expense", "settlement"}
    /\ st'[l] \in {"synced", "drifted"}
    /\ \A k \in Links : of[k] = of'[l] => entry'[l] # entry[k]

Moves(l) ==
    /\ of'[l] = of[l]
    /\ <<st[l], st'[l]>> \in Transitions(of[l])
    /\ IF st[l] \in NothingStands
         THEN \A k \in Links : of[k] = of[l] => entry'[l] # entry[k]
         ELSE entry'[l] = entry[l]

Next ==
    /\ contested \subseteq contested'
    /\ \A l \in Links \ contested' : Unchanged(l) \/ Appears(l) \/ Moves(l)

Spec == Init /\ [][Next]_linkVars
=============================================================================
