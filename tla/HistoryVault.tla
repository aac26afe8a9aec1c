---------------------------- MODULE HistoryVault ----------------------------
(***************************************************************************)
(* What history deletion promises its callers: an item, or a batch with    *)
(* all of its members, leaves the history in one step, its files go to a   *)
(* trash that nothing evicts, and nothing else ever moves a file.          *)
(***************************************************************************)
CONSTANTS Items, Batches, Files, Owner, Members

VARIABLES
    present,   \* files in the history
    trashed,   \* files kept in the trash
    gone       \* items and batches reported deleted

vault == <<present, trashed, gone>>

WithMembers(d) == IF d \in Batches THEN {d} \cup Members[d] ELSE {d}

Init ==
    /\ present \in SUBSET Files
    /\ trashed = {} /\ gone = {}

\* A batch does not touch members deleted before it.
DeleteNow(d) ==
    LET moved == {f \in present : Owner[f] \in WithMembers(d) \ gone} IN
    /\ d \notin gone
    /\ gone' = gone \cup WithMembers(d)
    /\ present' = present \ moved
    /\ trashed' = trashed \cup moved

Next == \E d \in Items \cup Batches : DeleteNow(d)

Spec == Init /\ [][Next]_vault
=============================================================================
