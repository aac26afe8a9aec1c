----------------------- MODULE MCHistoryTransactions -----------------------
(* Two items, one with an image and a metadata file, one reduced to its      *)
(* metadata, and the batch of both.  The item a may only be deleted while    *)
(* the history lists it; b and the batch may be deleted as bare records.     *)
EXTENDS HistoryTransactions, TLC

CONSTANTS a, b, ab, a1, a2, b1, t1, t2, p1, p2, x1, x2

MCOwner == (a1 :> a) @@ (a2 :> a) @@ (b1 :> b)
MCSidecar == (a :> a2) @@ (b :> b1)
MCMembers == (ab :> {a, b})
MCProcess == (t1 :> p1) @@ (t2 :> p2)
(* The image takes two units, the others one; a rewrite adds two.            *)
MCSize == [f \in Files |-> [v \in 1 .. (MaxVersion + MaxEdits + 1) |->
              (IF f = a1 THEN 2 ELSE 1) + (IF v = 1 THEN 0 ELSE 2)]]
(* Threads with their processes, and transaction identifiers, are alike.     *)
Alike == Permutations({t1, t2}) \cup Permutations(TxIds)
=============================================================================
