---------------------------- MODULE BatchPromise ----------------------------
(***************************************************************************)
(* What identity batches promise, without files, threads or crashes: a     *)
(* batch is accepted in one step; a retry key is used once; finished       *)
(* images are only ever added; a complete batch has all of them.           *)
(***************************************************************************)
CONSTANTS Batches, Items, Keys, None

VARIABLES
    batch,    \* "none", "active" or the outcome of each batch
    origin,   \* None, or the batch and key that a retry was asked with
    members,  \* its images, named by their place in the first batch
    done      \* its finished images

vars == <<batch, origin, members, done>>
Outcomes == {"complete", "failed", "cancelled"}
Retries == {b \in Batches : batch[b] # "none" /\ origin[b] # None}

Reserved(b) == <<origin[b].parent, origin[b].key>>

Init ==
    /\ batch = [b \in Batches |-> "none"] /\ origin = [b \in Batches |-> None]
    /\ members = [b \in Batches |-> {}] /\ done = [b \in Batches |-> {}]

\* What a batch will be when it is accepted is chosen before, unseen.
Prepare(b, from, wanted) ==
    /\ batch[b] = "none"
    /\ origin' = [origin EXCEPT ![b] = from] /\ members' = [members EXCEPT ![b] = wanted]
    /\ UNCHANGED <<batch, done>>

\* A retry is accepted once per key, for unfinished images of an ended batch.
Accept(b) ==
    /\ batch[b] = "none" /\ batch' = [batch EXCEPT ![b] = "active"]
    /\ origin[b] # None =>
          /\ \A r \in Retries : Reserved(r) # Reserved(b)
          /\ batch[origin[b].parent] \in Outcomes
          /\ members[b] \subseteq members[origin[b].parent] \ done[origin[b].parent]
    /\ UNCHANGED <<origin, members, done>>

\* A new batch that could not be queued is taken back; a retry never is.
Withdraw(b) ==
    /\ batch[b] = "active" /\ done[b] = {} /\ origin[b] = None
    /\ batch' = [batch EXCEPT ![b] = "none"]
    /\ UNCHANGED <<origin, members, done>>

FinishImage(b, i) ==
    /\ batch[b] # "none" /\ i \in members[b]
    /\ done' = [done EXCEPT ![b] = @ \cup {i}]
    /\ UNCHANGED <<batch, origin, members>>

\* An outcome is final; but a cancellation that was only half saved is found
\* as a failure after a restart.
End(b, outcome) ==
    /\ \/ batch[b] = "active"
       \/ batch[b] = "cancelled" /\ outcome = "failed"
    /\ outcome = "complete" => done[b] = members[b]
    /\ batch' = [batch EXCEPT ![b] = outcome]
    /\ UNCHANGED <<origin, members, done>>

Next ==
    \E b \in Batches :
        \/ \E wanted \in (SUBSET Items) \ {{}} :
              \/ Prepare(b, None, wanted)
              \/ \E parent \in Batches, key \in Keys, mode \in {"failed", "unfinished"} :
                    Prepare(b, [parent |-> parent, key |-> key, mode |-> mode], wanted)
        \/ Accept(b) \/ Withdraw(b)
        \/ \E i \in Items : FinishImage(b, i)
        \/ \E outcome \in Outcomes : End(b, outcome)

Spec == Init /\ [][Next]_vars
=============================================================================
