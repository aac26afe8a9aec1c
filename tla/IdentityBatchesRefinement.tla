---------------------- MODULE IdentityBatchesRefinement ----------------------
(***************************************************************************)
(* IdentityBatches implements BatchPromise: what is on disk of the batches *)
(* keeps the promises, step by step.                                       *)
(***************************************************************************)
EXTENDS IdentityBatchesProofs

-----------------------------------------------------------------------------
(* The refinement mapping.                                                  *)

State(b) == IF file[b] = "absent" THEN "none" ELSE IF file[b] \in Active THEN "active" ELSE file[b]
Finished(b) == {i \in members[b] : jobFile[b][i] = "complete"}

\* The mapped state does not change.
SameState == \A c \in Batches : State(c)' = State(c)
SameFinished == \A c \in Batches : \A i \in members[c] : jobFile'[c][i] = "complete" <=> jobFile[c][i] = "complete"

LEMMA FinishedStays ==
  ASSUME SameFinished, UNCHANGED members
  PROVE  [c \in Batches |-> Finished(c)]' = [c \in Batches |-> Finished(c)]
<1>1. \A c \in Batches : Finished(c)' = Finished(c)
  BY DEF SameFinished, Finished
<1> QED
  BY <1>1

LEMMA StateStays ==
  ASSUME SameState
  PROVE  [c \in Batches |-> State(c)]' = [c \in Batches |-> State(c)]
  BY DEF SameState

LEMMA Stutters ==
  ASSUME SameState, SameFinished, UNCHANGED <<origin, members>>
  PROVE  UNCHANGED Promise!vars
<1>1. [c \in Batches |-> Finished(c)]' = [c \in Batches |-> Finished(c)]
  BY FinishedStays
<1>2. [c \in Batches |-> State(c)]' = [c \in Batches |-> State(c)]
  BY StateStays
<1> QED
  BY <1>1, <1>2 DEF Promise!vars, State, Finished

LEMMA Silent ==
  ASSUME UNCHANGED <<file, jobFile, origin, members>>
  PROVE  UNCHANGED Promise!vars
<1>1. SameState /\ SameFinished
  BY DEF SameState, State, SameFinished
<1> QED
  BY <1>1, Stutters

-----------------------------------------------------------------------------
(* The steps of the promise, from what a step does to the mapped state.     *)

LEMMA Prepares ==
  ASSUME NEW b \in Batches, NEW from, NEW wanted, State(b) = "none", SameState,
         \A c \in Batches : Finished(c)' = Finished(c),
         origin' = [origin EXCEPT ![b] = from], members' = [members EXCEPT ![b] = wanted]
  PROVE  Promise!Prepare(b, from, wanted)
<1>1. [c \in Batches |-> State(c)]' = [c \in Batches |-> State(c)]
  BY StateStays
<1>2. [c \in Batches |-> Finished(c)]' = [c \in Batches |-> Finished(c)]
  OBVIOUS
<1>3. [c \in Batches |-> State(c)][b] = "none"
  OBVIOUS
<1> QED
  BY <1>1, <1>2, <1>3 DEF Promise!Prepare, State, Finished

\* The state of one batch changes.
LEMMA StateMoves ==
  ASSUME NEW b \in Batches, NEW v, \A c \in Batches : State(c)' = IF c = b THEN v ELSE State(c)
  PROVE  [c \in Batches |-> State(c)]' = [[c \in Batches |-> State(c)] EXCEPT ![b] = v]
  OBVIOUS

LEMMA Accepts ==
  ASSUME NEW b \in Batches, State(b) = "none", \A c \in Batches : State(c)' = IF c = b THEN "active" ELSE State(c),
         SameFinished, UNCHANGED <<origin, members>>,
         origin[b] # None =>
            /\ origin[b].parent \in Batches /\ State(origin[b].parent) \in Terminal
            /\ \A r \in Batches : ~ Reserved(r, origin[b].parent, origin[b].key)
            /\ members[b] \subseteq members[origin[b].parent] \ Finished(origin[b].parent)
  PROVE  Promise!Accept(b)
<1>1. [c \in Batches |-> State(c)]' = [[c \in Batches |-> State(c)] EXCEPT ![b] = "active"]
  BY StateMoves
<1>2. [c \in Batches |-> Finished(c)]' = [c \in Batches |-> Finished(c)]
  BY FinishedStays
<1>3. [c \in Batches |-> State(c)][b] = "none"
  OBVIOUS
<1>4. ASSUME origin[b] # None
      PROVE  /\ [c \in Batches |-> State(c)][origin[b].parent] \in Promise!Outcomes
             /\ members[b] \subseteq members[origin[b].parent] \ [c \in Batches |-> Finished(c)][origin[b].parent]
             /\ \A r \in Promise!Retries : Promise!Reserved(r) # Promise!Reserved(b)
  <2>1. [c \in Batches |-> State(c)][origin[b].parent] \in Promise!Outcomes
    BY <1>4 DEF Promise!Outcomes, Terminal
  <2>2. members[b] \subseteq members[origin[b].parent] \ [c \in Batches |-> Finished(c)][origin[b].parent]
    BY <1>4
  <2>3. ASSUME NEW r \in Promise!Retries PROVE Promise!Reserved(r) # Promise!Reserved(b)
    <3>1. r \in Batches /\ State(r) # "none" /\ origin[r] # None
      BY <2>3 DEF Promise!Retries, State
    <3>2. file[r] # "absent" /\ ~ Reserved(r, origin[b].parent, origin[b].key)
      BY <1>4, <3>1 DEF State
    <3> QED
      BY <3>1, <3>2 DEF Reserved, Promise!Reserved
  <2> QED
    BY <2>1, <2>2, <2>3
<1> QED
  BY <1>1, <1>2, <1>3, <1>4 DEF Promise!Accept, State, Finished

LEMMA Withdraws ==
  ASSUME NEW b \in Batches, State(b) = "active", \A c \in Batches : State(c)' = IF c = b THEN "none" ELSE State(c),
         Finished(b) = {}, origin[b] = None, SameFinished, UNCHANGED <<origin, members>>
  PROVE  Promise!Withdraw(b)
<1>1. [c \in Batches |-> State(c)]' = [[c \in Batches |-> State(c)] EXCEPT ![b] = "none"]
  BY StateMoves
<1>2. [c \in Batches |-> Finished(c)]' = [c \in Batches |-> Finished(c)]
  BY FinishedStays
<1>3. [c \in Batches |-> State(c)][b] = "active" /\ [c \in Batches |-> Finished(c)][b] = {}
  OBVIOUS
<1> QED
  BY <1>1, <1>2, <1>3 DEF Promise!Withdraw, State, Finished

LEMMA Finishes ==
  ASSUME NEW b \in Batches, NEW i \in members[b], State(b) # "none", SameState, UNCHANGED <<origin, members>>,
         \A c \in Batches : \A j \in members[c] : jobFile'[c][j] = "complete" <=> jobFile[c][j] = "complete" \/ (c = b /\ j = i)
  PROVE  Promise!FinishImage(b, i)
<1>1. [c \in Batches |-> State(c)]' = [c \in Batches |-> State(c)]
  BY StateStays
<1>2. \A c \in Batches : Finished(c)' = IF c = b THEN Finished(b) \cup {i} ELSE Finished(c)
  BY DEF Finished
<1>3. [c \in Batches |-> Finished(c)]' = [[c \in Batches |-> Finished(c)] EXCEPT ![b] = @ \cup {i}]
  BY <1>2
<1>4. [c \in Batches |-> State(c)][b] # "none"
  OBVIOUS
<1> QED
  BY <1>1, <1>3, <1>4 DEF Promise!FinishImage, State, Finished

LEMMA Ends ==
  ASSUME NEW b \in Batches, NEW v \in Terminal, State(b) = "active" \/ (State(b) = "cancelled" /\ v = "failed"),
         v = "complete" => \A i \in members[b] : jobFile[b][i] = "complete",
         \A c \in Batches : State(c)' = IF c = b THEN v ELSE State(c),
         SameFinished, UNCHANGED <<origin, members>>
  PROVE  Promise!End(b, v)
<1>1. [c \in Batches |-> State(c)]' = [[c \in Batches |-> State(c)] EXCEPT ![b] = v]
  BY StateMoves
<1>2. [c \in Batches |-> Finished(c)]' = [c \in Batches |-> Finished(c)]
  BY FinishedStays
<1>3. [c \in Batches |-> State(c)][b] = State(b) /\ (v = "complete" => [c \in Batches |-> Finished(c)][b] = members[b])
  BY DEF Finished
<1> QED
  BY <1>1, <1>2, <1>3 DEF Promise!End, State, Finished

LEMMA PromiseInit ==
  ASSUME Init
  PROVE  Promise!Init
<1>1. \A b \in Batches : State(b) = "none" /\ Finished(b) = {}
  BY DEF Init, State, Finished
<1>2. [b \in Batches |-> State(b)] = [b \in Batches |-> "none"] /\ [b \in Batches |-> Finished(b)] = [b \in Batches |-> {}]
  BY <1>1
<1> QED
  BY <1>2 DEF Init, Promise!Init, State, Finished

-----------------------------------------------------------------------------
(* Every step keeps the promises.                                           *)

Promised == Promise!Next \/ UNCHANGED Promise!vars

LEMMA Outcomes == Terminal = Promise!Outcomes
  BY DEF Terminal, Promise!Outcomes

LEMMA SubmitPromised ==
  ASSUME IInv, NEW b \in Batches, Submit(b)
  PROVE  Promised
<1>0. TypeOK /\ OnRecords
  BY DEF IInv
<1>1. members[b] = {} /\ UNCHANGED <<file, jobFile, origin>> /\ members' = [members EXCEPT ![b] = Items]
  <2>1. b >= b
    BY BatchAssumption
  <2> QED
    BY <2>1 DEF Submit, Unused, disk
<1>2. file[b] = "absent" /\ origin[b] = None /\ \A i \in Items : jobFile[b][i] # "complete"
  BY <1>0, <1>1 DEF OnRecords, Unsubmitted, Unaccepted
<1>3. members \in [Batches -> SUBSET Items] /\ origin \in [Batches -> Origins \cup {None}]
  BY <1>0 DEF TypeOK, DiskType
<1>4. State(b) = "none" /\ SameState
  BY <1>1, <1>2 DEF State, SameState
<1>5. \A c \in Batches : Finished(c)' = Finished(c)
  BY <1>1, <1>2, <1>3 DEF Finished
<1>6. origin' = [origin EXCEPT ![b] = None]
  BY <1>1, <1>2, <1>3
<1>7. Promise!Prepare(b, None, Items)
  BY <1>1, <1>4, <1>5, <1>6, Prepares
<1>8. Items \in (SUBSET Items) \ {{}}
  BY BatchAssumption
<1> QED
  BY <1>7, <1>8 DEF Promised, Promise!Next

LEMMA RetryPromised ==
  ASSUME IInv, NEW b \in Batches, NEW parent \in Batches, NEW key \in Keys, NEW mode \in {"failed", "unfinished"},
         Retry(b, parent, key, mode)
  PROVE  Promised
<1>0. TypeOK /\ OnRecords
  BY DEF IInv
<1>1. members[b] = {} /\ UNCHANGED <<file, jobFile>>
  <2>1. b >= b
    BY BatchAssumption
  <2> QED
    BY <2>1 DEF Retry, Unused, disk
<1>2. file[b] = "absent" /\ \A i \in Items : jobFile[b][i] # "complete"
  BY <1>0, <1>1 DEF OnRecords, Unsubmitted, Unaccepted
<1>3. members \in [Batches -> SUBSET Items]
  BY <1>0 DEF TypeOK, DiskType
<1>4. PICK chosen \in (SUBSET Items) \ {{}} :
         /\ members' = [members EXCEPT ![b] = chosen]
         /\ origin' = [origin EXCEPT ![b] = [parent |-> parent, key |-> key, mode |-> mode]]
  BY <1>3 DEF Retry
<1>5. State(b) = "none" /\ SameState
  BY <1>1, <1>2 DEF State, SameState
<1>6. \A c \in Batches : Finished(c)' = Finished(c)
  BY <1>1, <1>2, <1>3, <1>4 DEF Finished
<1>7. Promise!Prepare(b, [parent |-> parent, key |-> key, mode |-> mode], chosen)
  BY <1>4, <1>5, <1>6, Prepares
<1> QED
  BY <1>7 DEF Promised, Promise!Next

LEMMA SubmitJobPromised ==
  ASSUME IInv, SubmitJob
  PROVE  Promised
<1>0. TypeOK /\ crit # None /\ crit.who = "submit" /\ crit.what = "jobs"
  BY DEF IInv, SubmitJob, Holds
<1>1. /\ Batch \in Batches /\ \A i \in Items : jobFile[Batch][i] \in {"absent", "queued"}
  BY <1>0, SubmissionIs
<1>2. PICK b \in Batches : b = Batch
  BY <1>1
<1>3. UNCHANGED <<file, origin, members>>
  BY DEF SubmitJob, frozen
<1>4. \A c \in Batches : \A j \in Items : jobFile'[c][j] = "complete" <=> jobFile[c][j] = "complete"
  <2>1. CASE jobFile' = jobFile
    BY <2>1
  <2>2. CASE crit.todo # {} /\ jobFile' = [jobFile EXCEPT ![Batch][Item] = "queued"]
    <3>1. PICK i \in Items : i = Item
      BY <1>0, <2>2, Subject
    <3>2. "queued" \in Saved /\ jobFile \in [Batches -> Files]
      BY <1>0, Words DEF TypeOK, DiskType
    <3>3. Put(jobFile', jobFile, b, i, "queued")
      BY <1>2, <2>2, <3>1, <3>2, PutFile
    <3> QED
      BY <1>1, <1>2, <3>3 DEF Put
  <2> QED
    BY <2>1, <2>2 DEF SubmitJob
<1>5. SameState /\ SameFinished
  BY <1>0, <1>3, <1>4, Cells DEF SameState, State, SameFinished
<1> QED
  BY <1>3, <1>5, Stutters DEF Promised

LEMMA CommitPromised ==
  ASSUME IInv, Commit
  PROVE  Promised
<1>0. TypeOK /\ OnRecords /\ OnLock /\ crit # None /\ crit.what = "commit"
  BY DEF IInv, Commit, Holds
<1>1. crit.who = "submit"
  BY <1>0 DEF OnLock, Shape
<1>2. PICK b \in Batches : b = Batch /\ b = crit.batch
  BY <1>0, <1>1, SubmissionIs DEF Batch
<1>3. UNCHANGED <<jobFile, origin, members>>
  BY DEF Commit, frozen
<1>4. CASE UNCHANGED file
  BY <1>3, <1>4, Silent DEF Promised
<1>5. CASE BatchSaved(Batch, "queued", States(Batch, "queued"))
  <2>1. file' = [file EXCEPT ![b] = "queued"] /\ file \in [Batches -> Saved]
    BY <1>0, <1>2, <1>5 DEF BatchSaved, TypeOK, DiskType
  <2>2. file[b] = "absent"
    BY <1>0, <1>1, <1>2 DEF OnLock, Submitting, By
  <2>3. "queued" \in Active /\ "queued" # "absent"
    BY Words
  <2>4. State(b) = "none" /\ \A c \in Batches : State(c)' = IF c = b THEN "active" ELSE State(c)
    BY <2>1, <2>2, <2>3 DEF State
  <2>5. SameFinished
    BY <1>3 DEF SameFinished
  <2>6. ASSUME origin[b] # None
        PROVE  /\ origin[b].parent \in Batches /\ State(origin[b].parent) \in Terminal
               /\ \A r \in Batches : ~ Reserved(r, origin[b].parent, origin[b].key)
               /\ members[b] \subseteq members[origin[b].parent] \ Finished(origin[b].parent)
    <3>1. PICK p \in Batches : p = origin[b].parent
      BY <1>0, <2>6, Cells
    <3>2. file[p] \in Terminal /\ members[b] \subseteq members[p]
      BY <1>0, <2>6, <3>1 DEF OnRecords, Sourced
    <3>3. /\ \A r \in Batches : ~ Reserved(r, origin[b].parent, origin[b].key)
          /\ \A i \in members[b] : jobFile[p][i] # "complete"
      BY <1>0, <1>1, <1>2, <2>6, <3>1 DEF OnLock, Reserving, By
    <3>4. State(p) \in Terminal
      BY <3>2 DEF State, Terminal, Active
    <3> QED
      BY <3>1, <3>2, <3>3, <3>4 DEF Finished
  <2>7. Promise!Accept(b)
    BY <1>3, <2>4, <2>5, <2>6, Accepts
  <2> QED
    BY <2>7 DEF Promised, Promise!Next
<1> QED
  BY <1>4, <1>5 DEF Commit

LEMMA RollbackPromised ==
  ASSUME IInv, Rollback
  PROVE  Promised
<1>0. TypeOK /\ OnRecords /\ OnLock /\ crit # None /\ crit.what = "rollback"
  BY DEF IInv, Rollback, Holds
<1>1. crit.who = "submit"
  BY <1>0 DEF OnLock, Shape
<1>2. Batch \in Batches /\ \A i \in Items : jobFile[Batch][i] \in {"absent", "queued"}
  BY <1>0, <1>1, SubmissionIs
<1>3. PICK b \in Batches : b = Batch /\ b = crit.batch
  BY <1>2 DEF Batch
<1>4. UNCHANGED <<origin, members>>
  BY DEF Rollback, frozen
<1>5. CASE record[Batch] # "none"
  <2>1. UNCHANGED jobFile /\ (UNCHANGED file \/ file' = [file EXCEPT ![b] = "absent"])
    BY <1>3, <1>5 DEF Rollback
  <2>2. CASE UNCHANGED file
    BY <1>4, <2>1, <2>2, Silent DEF Promised
  <2>3. CASE file' = [file EXCEPT ![b] = "absent"]
    <3>1. file[b] = "queued" /\ origin[b] = None /\ file \in [Batches -> Saved]
      BY <1>0, <1>1, <1>3, <1>5 DEF OnLock, Submitting, By, TypeOK, DiskType
    <3>2. State(b) = "active" /\ \A c \in Batches : State(c)' = IF c = b THEN "none" ELSE State(c)
      BY <2>3, <3>1 DEF State, Active
    <3>3. Finished(b) = {} /\ SameFinished
      BY <1>0, <1>2, <1>3, <2>1, Cells DEF Finished, SameFinished
    <3>4. Promise!Withdraw(b)
      BY <1>4, <3>1, <3>2, <3>3, Withdraws
    <3> QED
      BY <3>4 DEF Promised, Promise!Next
  <2> QED
    BY <2>1, <2>2, <2>3
<1>6. CASE record[Batch] = "none"
  <2>1. UNCHANGED file
    BY <1>6 DEF Rollback
  <2>2. PICK i \in crit.todo : jobFile' = [jobFile EXCEPT ![b][i] = "absent"] \/ jobFile' = jobFile
    BY <1>3, <1>6 DEF Rollback
  <2>3. i \in Items
    BY <1>0, <2>2, Subject
  <2>4. \A c \in Batches : \A j \in Items : jobFile'[c][j] = "complete" <=> jobFile[c][j] = "complete"
    <3>1. CASE jobFile' = jobFile
      BY <3>1
    <3>2. CASE jobFile' = [jobFile EXCEPT ![b][i] = "absent"]
      <4>1. "absent" \in Saved /\ jobFile \in [Batches -> Files]
        BY <1>0, Words DEF TypeOK, DiskType
      <4>2. Put(jobFile', jobFile, b, i, "absent")
        BY <2>3, <3>2, <4>1, PutFile
      <4> QED
        BY <1>2, <1>3, <4>2 DEF Put
    <3> QED
      BY <2>2, <3>1, <3>2
  <2>5. SameState /\ SameFinished
    BY <1>0, <1>4, <2>1, <2>4, Cells DEF SameState, State, SameFinished
  <2> QED
    BY <1>4, <2>5, Stutters DEF Promised
<1> QED
  BY <1>5, <1>6

\* The lane saves a record of its batch that is still active.
LEMMA ActivePromised ==
  ASSUME IInv, run # None, UNCHANGED <<jobFile, origin, members>>, NEW v \in Active,
         file' = [file EXCEPT ![run] = v] \/ UNCHANGED file
  PROVE  Promised
<1>0. TypeOK
  BY DEF IInv
<1>1. PICK b \in Batches : b = run /\ file[b] \in Active
  BY LaneIs DEF Going
<1>2. file \in [Batches -> Saved] /\ v # "absent"
  BY <1>0 DEF TypeOK, DiskType, Active
<1>3. SameState
  <2>1. CASE UNCHANGED file
    BY <2>1 DEF SameState, State
  <2>2. CASE file' = [file EXCEPT ![b] = v]
    <3>1. \A c \in Batches : file'[c] = IF c = b THEN v ELSE file[c]
      BY <1>2, <2>2
    <3>2. file[b] # "absent"
      BY <1>1 DEF Active
    <3> QED
      BY <1>1, <1>2, <3>1, <3>2 DEF SameState, State
  <2> QED
    BY <1>1, <2>1, <2>2
<1>4. SameFinished
  BY DEF SameFinished
<1> QED
  BY <1>3, <1>4, Stutters DEF Promised

LEMMA PreparePromised ==
  ASSUME IInv, Prepare
  PROVE  Promised
<1>1. run # None
  BY DEF Prepare, IInv, TypeOK, LaneType
<1>2. UNCHANGED <<jobFile, origin, members>>
  BY DEF Prepare, frozen
<1>3. "preparing" \in Active
  BY Words
<1>4. file' = [file EXCEPT ![run] = "preparing"] \/ UNCHANGED file
  BY DEF Prepare, BatchSaved
<1> QED
  BY <1>1, <1>2, <1>3, <1>4, ActivePromised

LEMMA SaveRecordPromised ==
  ASSUME IInv, SaveRecord
  PROVE  Promised
<1>0. TypeOK /\ crit # None /\ crit.what = "record"
  BY DEF IInv, SaveRecord, Holds
<1>1. PICK b \in Batches : b = run /\ b = Batch /\ run # None
  BY <1>0, LaneHolds
<1>2. UNCHANGED <<jobFile, origin, members>>
  BY DEF SaveRecord, frozen
<1>3. PICK v \in Active : v = IF job[Batch][Item] = "sampling" THEN "sampling" ELSE record[Batch]
  BY <1>1, LaneIs, Words DEF Going
<1>4. file' = [file EXCEPT ![run] = v] \/ UNCHANGED file
  BY <1>1, <1>3 DEF SaveRecord, BatchSaved
<1> QED
  BY <1>1, <1>2, <1>3, <1>4, ActivePromised

\* The job file of an image that is not finished gets another state, or none.
LEMMA ItemPromised ==
  ASSUME IInv, NEW b \in Batches, NEW i \in members[b], record[b] # "none", UNCHANGED <<file, origin, members>>,
         NEW v \in Saved, Put(jobFile', jobFile, b, i, v) \/ jobFile' = jobFile,
         v # "complete" => job[b][i] # "complete"
  PROVE  Promised
<1>0. TypeOK /\ OnRecords
  BY DEF IInv
<1>1. SameState
  BY DEF SameState, State
<1>2. \A c \in Batches : members[c] \subseteq Items
  BY <1>0, Cells
<1>3. CASE jobFile' = jobFile
  BY <1>3, Silent DEF Promised
<1>4. CASE Put(jobFile', jobFile, b, i, v) /\ v = "complete"
  <2>1. file[b] # "absent"
    BY <1>0 DEF OnRecords, Unaccepted
  <2>2. State(b) # "none"
    BY <1>0, <2>1, Cells DEF State, Saved, Terminal, Active
  <2>3. \A c \in Batches : \A j \in members[c] :
           jobFile'[c][j] = "complete" <=> jobFile[c][j] = "complete" \/ (c = b /\ j = i)
    BY <1>2, <1>4 DEF Put
  <2>4. Promise!FinishImage(b, i)
    BY <1>1, <2>2, <2>3, Finishes
  <2> QED
    BY <1>2, <2>4 DEF Promised, Promise!Next
<1>5. CASE Put(jobFile', jobFile, b, i, v) /\ v # "complete"
  <2>1. jobFile[b][i] # "complete"
    BY <1>0, <1>5 DEF OnRecords, Agreeing
  <2>2. SameFinished
    BY <1>2, <1>5, <2>1 DEF SameFinished, Put
  <2> QED
    BY <1>1, <2>2, Stutters DEF Promised
<1> QED
  BY <1>3, <1>4, <1>5

LEMMA SamplePromised ==
  ASSUME IInv, Sample
  PROVE  Promised
<1>0. TypeOK /\ OnLock /\ crit # None /\ crit.what = "sample"
  BY DEF IInv, Sample, Holds
<1>1. PICK b \in Batches, i \in Items :
         b = run /\ b = Batch /\ i = Item /\ crit.todo = {i} /\ i \in members[b] /\ record[b] # "none"
  BY <1>0, LaneHolds
<1>2. job[b][i] # "complete"
  BY <1>0, <1>1 DEF OnLock, Shape
<1>3. UNCHANGED <<file, origin, members>> /\ "sampling" \in Saved /\ jobFile \in [Batches -> Files]
  BY <1>0, Words DEF Sample, frozen, TypeOK, DiskType
<1>4. jobFile' = [jobFile EXCEPT ![b][i] = "sampling"] \/ jobFile' = jobFile
  BY <1>1 DEF Sample, JobSaved
<1>5. Put(jobFile', jobFile, b, i, "sampling") \/ jobFile' = jobFile
  BY <1>3, <1>4, PutFile
<1> QED
  BY <1>1, <1>2, <1>3, <1>5, ItemPromised

LEMMA CompleteItemPromised ==
  ASSUME IInv, CompleteItem
  PROVE  Promised
<1>0. TypeOK /\ crit # None /\ crit.what = "item"
  BY DEF IInv, CompleteItem, Holds
<1>1. PICK b \in Batches, i \in Items : b = Batch /\ i = Item /\ i \in members[b] /\ record[b] # "none"
  BY <1>0, LaneHolds
<1>2. UNCHANGED <<file, origin, members>> /\ "complete" \in Saved /\ jobFile \in [Batches -> Files]
  BY <1>0, Words DEF CompleteItem, frozen, TypeOK, DiskType
<1>3. jobFile' = [jobFile EXCEPT ![b][i] = "complete"] \/ jobFile' = jobFile
  BY <1>1 DEF CompleteItem, JobSaved, KeepPending
<1>4. Put(jobFile', jobFile, b, i, "complete") \/ jobFile' = jobFile
  BY <1>2, <1>3, PutFile
<1> QED
  BY <1>1, <1>2, <1>4, ItemPromised

LEMMA ReplayPromised ==
  ASSUME IInv, Replay
  PROVE  Promised
<1>0. TypeOK /\ OnRecords /\ OnLock /\ crit # None /\ crit.what = "replay" /\ crit.batch # None
  BY DEF IInv, Replay, Holds
<1>1. PICK b \in Batches : b = Batch /\ crit.batch = b
  BY <1>0, Subject DEF Batch
<1>2. UNCHANGED <<file, origin, members>> /\ "complete" \in Saved /\ jobFile \in [Batches -> Files]
  BY <1>0, Words DEF Replay, frozen, TypeOK, DiskType
<1>3. CASE jobFile' = jobFile
  BY <1>2, <1>3, Silent DEF Promised
<1>4. CASE crit.todo # {} /\ jobFile' = [jobFile EXCEPT ![Batch][Item] = "complete"]
  <2>1. PICK i \in Items : i = Item /\ i \in crit.todo
    BY <1>0, <1>4, Subject
  <2>2. record[b] # "none" /\ i \in journal[b]
    BY <1>0, <1>1, <2>1 DEF OnLock, Shape, Starting, By, Interrupted, Replaying, On
  <2>3. i \in members[b]
    BY <1>0, <2>2 DEF OnRecords, OfMembers
  <2>4. Put(jobFile', jobFile, b, i, "complete")
    BY <1>1, <1>2, <1>4, <2>1, PutFile
  <2> QED
    BY <1>2, <2>2, <2>3, <2>4, ItemPromised
<1> QED
  BY <1>3, <1>4 DEF Replay, JobSaved, KeepPending

LEMMA EndItemPromised ==
  ASSUME IInv, EndItem
  PROVE  Promised
<1>0. TypeOK /\ OnLock /\ crit # None /\ crit.what = "end"
  BY DEF IInv, EndItem, Holds
<1>1. crit.todo # {}
  BY <1>0 DEF OnLock, Shape
<1>2. PICK b \in Batches : /\ b = Batch /\ crit.batch = b /\ crit.todo \subseteq members[b] /\ record[b] # "none"
                           /\ crit.outcome \in {"failed", "cancelled"}
  BY <1>0, EndingIs
<1>3. PICK i \in Items : i = Item /\ i \in members[b] /\ i = First(crit.todo)
  BY <1>0, <1>1, <1>2, Subject DEF Item
<1>4. job[b][i] # "complete"
  BY <1>0, <1>2, <1>3 DEF OnLock, Shape
<1>5. PICK v \in Saved : v = crit.outcome
  BY <1>2, Words
<1>6. UNCHANGED <<file, origin, members>> /\ jobFile \in [Batches -> Files]
  BY <1>0 DEF EndItem, frozen, TypeOK, DiskType
<1>7. jobFile' = [jobFile EXCEPT ![b][i] = v] \/ jobFile' = jobFile
  BY <1>2, <1>3, <1>5 DEF EndItem, JobSaved
<1>8. Put(jobFile', jobFile, b, i, v) \/ jobFile' = jobFile
  BY <1>6, <1>7, PutFile
<1> QED
  BY <1>2, <1>3, <1>4, <1>6, <1>8, ItemPromised

LEMMA SaveCompletePromised ==
  ASSUME IInv, SaveComplete
  PROVE  Promised
<1>0. TypeOK /\ OnRecords /\ OnLane /\ OnLock
  BY DEF IInv
<1>1. crit # None /\ crit.what = "save" /\ run # None /\ crit.batch = run /\ pc = "verify"
  BY <1>0 DEF SaveComplete, Holds, OnLock, Shape
<1>2. PICK b \in Batches : b = run /\ b = Batch /\ file[b] \in Active /\ record[b] \in Active
  BY <1>1, LaneIs DEF Batch, Going
<1>3. UNCHANGED <<jobFile, origin, members>>
  BY DEF SaveComplete, frozen
<1>4. CASE UNCHANGED file
  BY <1>3, <1>4, Silent DEF Promised
<1>5. CASE file' = [file EXCEPT ![b] = "complete"]
  <2>1. \A i \in members[b] : jobFile[b][i] = "complete"
    <3>1. \A i \in members[b] : job[b][i] = "complete"
      BY <1>0, <1>1, <1>2 DEF OnLock, Shape
    <3>2. pending[b] = {} /\ record[b] # "none"
      BY <1>0, <1>1, <1>2 DEF OnLane, Fresh, Active
    <3> QED
      BY <1>0, <3>1, <3>2 DEF OnRecords, Agreeing
  <2>2. file \in [Batches -> Saved] /\ "complete" \in Terminal
    BY <1>0, Words DEF TypeOK, DiskType
  <2>3. State(b) = "active" /\ \A c \in Batches : State(c)' = IF c = b THEN "complete" ELSE State(c)
    BY <1>2, <1>5, <2>2 DEF State, Active
  <2>4. SameFinished
    BY <1>3 DEF SameFinished
  <2>5. Promise!End(b, "complete")
    BY <1>3, <2>1, <2>2, <2>3, <2>4, Ends
  <2> QED
    BY <2>2, <2>5, Outcomes DEF Promised, Promise!Next
<1> QED
  BY <1>2, <1>4, <1>5 DEF SaveComplete, BatchSaved

LEMMA EndBatchPromised ==
  ASSUME IInv, EndBatch
  PROVE  Promised
<1>0. TypeOK /\ crit # None /\ crit.what = "clean"
  BY DEF IInv, EndBatch, Holds
<1>1. PICK b \in Batches : /\ b = Batch /\ crit.outcome \in {"failed", "cancelled"} /\ file[b] \notin {"absent", "complete"}
                           /\ crit.who # "start" => Going(b)
                           /\ crit.who = "start" => crit.outcome = "failed"
  BY <1>0, EndingIs
<1>2. UNCHANGED <<jobFile, origin, members>>
  BY DEF EndBatch, frozen
<1>3. PICK v \in Terminal : v = crit.outcome /\ v # "complete" /\ v # "absent" /\ v \notin Active
  BY <1>1 DEF Terminal, Active
<1>4. CASE UNCHANGED file
  BY <1>2, <1>4, Silent DEF Promised
<1>5. CASE file' = [file EXCEPT ![b] = v]
  <2>1. file \in [Batches -> Saved]
    BY <1>0 DEF TypeOK, DiskType
  <2>2. \A c \in Batches : State(c)' = IF c = b THEN v ELSE State(c)
    BY <1>3, <1>5, <2>1 DEF State
  <2>3. SameFinished
    BY <1>2 DEF SameFinished
  <2>4. file[b] \in Active \/ (v = "failed" /\ file[b] \in {"failed", "cancelled"})
    BY <1>1, <1>3, <2>1 DEF Going, Saved, Terminal
  <2>5. CASE file[b] = v
    <3>1. SameState
      BY <1>5, <2>1, <2>5 DEF SameState, State
    <3> QED
      BY <1>2, <2>3, <3>1, Stutters DEF Promised
  <2>6. CASE file[b] # v
    <3>1. State(b) = "active" \/ (State(b) = "cancelled" /\ v = "failed")
      BY <2>4, <2>6 DEF State, Active
    <3>2. Promise!End(b, v)
      BY <1>2, <1>3, <2>2, <2>3, <3>1, Ends
    <3> QED
      BY <3>2, Outcomes DEF Promised, Promise!Next
  <2> QED
    BY <2>5, <2>6
<1> QED
  BY <1>1, <1>3, <1>4, <1>5 DEF EndBatch, BatchSaved, BatchHeld

LEMMA RecoverJobsPromised ==
  ASSUME IInv, RecoverJobs
  PROVE  Promised
<1>0. TypeOK
  BY DEF IInv
<1>1. UNCHANGED <<file, origin, members>>
  BY DEF RecoverJobs, frozen
<1>2. \A c \in Batches : \A i \in Items : jobFile'[c][i] = "complete" <=> jobFile[c][i] = "complete"
  <2>1. \A c \in Loaded : \A i \in Items : jobFile'[c][i] = jobFile[c][i]
    BY RecoverDoes
  <2>2. \A c \in Batches \ Loaded : \A i \in Items :
           jobFile'[c][i] = jobFile[c][i] \/ (jobFile'[c][i] = "failed" /\ jobFile[c][i] \in Active)
    BY RecoverDoes
  <2> QED
    BY <2>1, <2>2 DEF Active
<1>3. SameState /\ SameFinished
  BY <1>0, <1>1, <1>2, Cells DEF SameState, State, SameFinished
<1> QED
  BY <1>1, <1>3, Stutters DEF Promised

LEMMA NextPromised ==
  ASSUME IInv, [Next]_vars
  PROVE  Promised
<1>1. CASE Client
  <2>1. ASSUME NEW b \in Batches, Cancel(b) PROVE Promised
    BY <2>1, Silent DEF Cancel, disk, frozen, Promised
  <2> QED
    BY <1>1, <2>1, SubmitPromised, RetryPromised DEF Client
<1>2. CASE Locked
  <2>1. CASE SubmitJob \/ Commit \/ Rollback \/ Sample \/ CompleteItem
    BY <2>1, SubmitJobPromised, CommitPromised, RollbackPromised, SamplePromised, CompleteItemPromised
  <2>2. CASE SaveRecord \/ SaveComplete \/ EndItem \/ EndBatch
    BY <2>2, SaveRecordPromised, SaveCompletePromised, EndItemPromised, EndBatchPromised
  <2>3. CASE RecoverJobs \/ Replay
    BY <2>3, RecoverJobsPromised, ReplayPromised
  <2>4. CASE VerifyItems \/ CleanItem \/ RecoverNext
    <3>1. UNCHANGED <<file, jobFile, origin, members>>
      BY <2>4 DEF VerifyItems, CleanItem, RecoverNext, disk, frozen
    <3> QED
      BY <3>1, Silent DEF Promised
  <2> QED
    BY <1>2, <2>1, <2>2, <2>3, <2>4 DEF Locked
<1>3. CASE Lane
  <2>1. CASE Take \/ Dispatch \/ ConsumeStep \/ Consume \/ Returned \/ Verify \/ Except
    <3>1. UNCHANGED <<file, jobFile, origin, members>>
      BY <2>1 DEF Take, Dispatch, ConsumeStep, Consume, Returned, Verify, Except, disk, frozen
    <3> QED
      BY <3>1, Silent DEF Promised
  <2> QED
    BY <1>3, <2>1, PreparePromised DEF Lane
<1>4. CASE Worker \/ Crash \/ UNCHANGED vars
  <2>1. UNCHANGED <<file, jobFile, origin, members>>
    BY <1>4 DEF Worker, Render, WorkerEnds, Crash, vars, disk, frozen
  <2> QED
    BY <2>1, Silent DEF Promised
<1> QED
  BY <1>1, <1>2, <1>3, <1>4 DEF Next

\* Whatever fails and whenever the service exits, the files of the batches go
\* through states of BatchPromise only: a batch is accepted by the one write of
\* its file, a retry once per key and for images that were unfinished, a
\* finished image stays finished, and an outcome is final but for a half-saved
\* cancellation (submit, retry, _complete_item, _finish, recover).
THEOREM PromiseImplemented == Spec => PromiseKept
<1>1. Init => Promise!Init
  BY PromiseInit
<1>2. IInv /\ [Next]_vars => [Promise!Next]_(Promise!vars)
  BY NextPromised DEF Promised
<1> QED
  BY <1>1, <1>2, IInvAlways, PTL DEF Spec, PromiseKept, Promise!Spec
=============================================================================
