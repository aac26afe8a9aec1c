---------------------------- MODULE IdentityJobs ----------------------------
(***************************************************************************)
(* Single identity jobs (identity_service.py): submit, submit_hq, cancel,  *)
(* delete_history, _execute on the serial lane, and _recover.              *)
(*                                                                         *)
(* The worker of a plain job writes its image and metadata into the output *)
(* folder that the history scans.  That of a try-on job writes into a      *)
(* private folder; _execute publishes image, ledger and metadata in this   *)
(* order, and what fails is moved back.                                    *)
(***************************************************************************)
EXTENDS Naturals, FiniteSets, Sequences

CONSTANTS
    Plain, Tryon,    \* jobs of clients and of the try-on service
    None, MaxFaults, MaxCrashes

Jobs == Plain \cup Tryon
Tasks == [what : {"make", "inspect", "repair"}, job : Jobs]

ASSUME JobAssumption ==
    /\ Plain \cap Tryon = {} /\ None \notin Tasks
    /\ MaxFaults \in Nat /\ MaxCrashes \in Nat

VARIABLES
    jobFile, job,      \* state of each job, in its file and in memory
    staged, shown,     \* files of each job in its private and in the output folder
    deleted,           \* jobs with a committed deletion
    queue,             \* tasks waiting for the lane
    run, pc,           \* the task the lane executes, and where it is
    stop,              \* jobs with their cancel event set
    attempts,          \* worker processes started for each job
    faults, crashes

files  == <<jobFile, staged, shown, deleted>>
lane   == <<run, pc>>
bounds == <<faults, crashes>>
jobVars == <<files, job, queue, lane, stop, attempts, bounds>>

Terminal == {"complete", "failed", "cancelled"}
Running == {"queued", "preparing", "sampling"}
Whole == {"image", "metadata"}
Task(what, j) == [what |-> what, job |-> j]
Make(j) == Task("make", j)
Queued(t) == \E n \in DOMAIN queue : queue[n] = t

\* What is left of the queue at some of its places, as the one member of a set.
Left(places) ==
    {[n \in 1..Cardinality(places) |-> queue[f[n]]] :
        f \in {f \in [1..Cardinality(places) -> places] : \A m, n \in DOMAIN f : m < n => f[m] < f[n]}}
Without(task) == Left({n \in DOMAIN queue : queue[n] # task})

\* The lock of the service is held from the last look at the cancel event
\* until the job is complete and published.
Locked == pc \in {"seal", "move", "record", "publish"}

InitJobs ==
    /\ jobFile = [j \in Jobs |-> "absent"] /\ job = [j \in Jobs |-> "none"]
    /\ staged = [j \in Jobs |-> {}] /\ shown = [j \in Jobs |-> {}] /\ deleted = {}
    /\ queue = <<>> /\ run = None /\ pc = "idle" /\ stop = {}
    /\ attempts = [j \in Jobs |-> 0] /\ faults = 0 /\ crashes = 0

\* A write, unlink or replace raises OSError.
Fault == faults < MaxFaults /\ faults' = faults + 1 /\ UNCHANGED crashes
NoFault == UNCHANGED bounds

\* _update: the file, then memory.
Update(j, state) ==
    jobFile' = [jobFile EXCEPT ![j] = state] /\ job' = [job EXCEPT ![j] = state] /\ NoFault
Refused == Fault /\ UNCHANGED <<jobFile, job>>

-----------------------------------------------------------------------------
\* The record, memory, the index, the queue; without the index there is a job
\* that nobody will run.
Journal(j) ==
    /\ jobFile' = [jobFile EXCEPT ![j] = "queued"] /\ job' = [job EXCEPT ![j] = "queued"]
    /\ \/ queue' = Append(queue, Make(j)) /\ NoFault
       \/ Fault /\ UNCHANGED queue

Submit(j) ==
    /\ ~Locked /\ jobFile[j] = "absent" /\ Journal(j)
    /\ UNCHANGED <<staged, shown, deleted, lane, stop, attempts>>

\* cancel: a job still queued ends here, a running one when the lane has seen
\* the event.
CancelJob(j) ==
    /\ ~Locked /\ job[j] \in Running /\ j \notin stop /\ stop' = stop \cup {j}
    /\ \/ /\ Queued(Make(j)) /\ queue' \in Without(Make(j))
          /\ Update(j, "cancelled") \/ Refused
       \/ run = Make(j) /\ UNCHANGED <<jobFile, job, queue, bounds>>
    /\ UNCHANGED <<staged, shown, deleted, lane, attempts>>

\* delete_history: only a job that ended, and whose file says so.  What the
\* deletion of files does is in HistoryTransactions.
DeleteJob(j) ==
    /\ ~Locked /\ job[j] \in Terminal /\ job[j] = jobFile[j] /\ j \notin deleted
    /\ deleted' = deleted \cup {j}
    /\ shown' = IF job[j] = "complete" THEN [shown EXCEPT ![j] = {}] ELSE shown
    /\ UNCHANGED <<jobFile, job, staged, queue, lane, stop, attempts, bounds>>

-----------------------------------------------------------------------------
(* _execute.                                                                *)

Goto(place) == pc' = place /\ UNCHANGED run
Idle == run' = None /\ pc' = "idle"
This == run.job
At(place) == pc = place /\ run # None /\ run.what = "make"

Take ==
    /\ pc = "idle" /\ queue # <<>> /\ Head(queue).what = "make"
    /\ run' = Head(queue) /\ queue' = Tail(queue) /\ pc' = "prepare"
    /\ UNCHANGED <<files, job, stop, attempts, bounds>>

Prepare ==
    /\ At("prepare")
    /\ \/ This \notin stop /\ Update(This, "preparing") /\ Goto("dispatch")
       \/ This \notin stop /\ Refused /\ Goto("except")
       \/ This \in stop /\ Goto("except") /\ UNCHANGED <<jobFile, job, bounds>>
    /\ UNCHANGED <<staged, shown, deleted, queue, stop, attempts>>

\* The sd-server is released, the inputs are bound; either may fail.
Dispatch ==
    /\ At("dispatch")
    /\ \/ This \notin stop /\ Update(This, "sampling") /\ Goto("launch")
       \/ Refused /\ Goto("except")
       \/ Goto("except") /\ UNCHANGED <<jobFile, job, bounds>>
    /\ UNCHANGED <<staged, shown, deleted, queue, stop, attempts>>

Launch ==
    /\ At("launch")
    /\ \/ This \notin stop /\ attempts' = [attempts EXCEPT ![This] = @ + 1] /\ Goto("work")
       \/ Goto("except") /\ UNCHANGED attempts
    /\ UNCHANGED <<files, job, queue, stop, bounds>>

\* The worker writes the image, then its metadata.
Write ==
    /\ At("work")
    /\ LET folder == IF This \in Tryon THEN staged ELSE shown
           next == IF folder[This] = {} THEN {"image"} ELSE Whole IN
       /\ folder[This] # Whole
       /\ IF This \in Tryon THEN staged' = [staged EXCEPT ![This] = next] /\ UNCHANGED shown
          ELSE shown' = [shown EXCEPT ![This] = next] /\ UNCHANGED staged
    /\ UNCHANGED <<jobFile, job, deleted, queue, lane, stop, attempts, bounds>>

\* Its process has ended, by itself, for the cancel event or at the deadline.
WorkerEnds ==
    /\ At("work")
    /\ \/ (IF This \in Tryon THEN staged ELSE shown)[This] = Whole /\ Goto("check")
       \/ Goto("except")
    /\ UNCHANGED <<files, job, queue, stop, attempts, bounds>>

\* Image and metadata are validated; the event is read under the lock.
Check ==
    /\ At("check")
    /\ \/ This \notin stop /\ Goto("seal")
       \/ Goto("except")
    /\ UNCHANGED <<files, job, queue, stop, attempts, bounds>>

Seal ==
    /\ At("seal")
    /\ \/ This \in Tryon /\ shown[This] = {} /\ Goto("move") /\ NoFault
       \/ This \in Plain /\ Goto("record") /\ NoFault
       \/ Fault /\ Goto("except")
    /\ UNCHANGED <<files, job, queue, stop, attempts>>

\* Mutant: the metadata is published before the ledger.
MoveBoth ==
    /\ At("move")
    /\ staged' = [staged EXCEPT ![This] = {}] /\ shown' = [shown EXCEPT ![This] = Whole]
    /\ Goto("record") /\ NoFault
    /\ UNCHANGED <<jobFile, job, deleted, queue, stop, attempts>>

Move ==
    /\ At("move")
    /\ \/ /\ staged' = [staged EXCEPT ![This] = @ \ {"image"}]
          /\ shown' = [shown EXCEPT ![This] = @ \cup {"image"}]
          /\ Goto("record") /\ NoFault
       \/ Fault /\ Goto("except") /\ UNCHANGED <<staged, shown>>
    /\ UNCHANGED <<jobFile, job, deleted, queue, stop, attempts>>

Record ==
    /\ At("record")
    /\ \/ Update(This, "complete") /\ (IF This \in Tryon THEN Goto("publish") ELSE Idle)
       \/ Refused /\ Goto("except")
    /\ UNCHANGED <<staged, shown, deleted, queue, stop, attempts>>

\* The metadata makes the image visible to the history; the job is complete.
Publish ==
    /\ At("publish")
    /\ \/ /\ staged' = [staged EXCEPT ![This] = @ \ {"metadata"}]
          /\ shown' = [shown EXCEPT ![This] = @ \cup {"metadata"}]
          /\ Idle /\ NoFault
       \/ Fault /\ Goto("except") /\ UNCHANGED <<staged, shown>>
    /\ UNCHANGED <<jobFile, job, deleted, queue, stop, attempts>>

\* _cleanup_incomplete goes on when a file cannot be removed;
\* _quarantine_hq_outputs does not, and the job is not ended.
Except ==
    /\ At("except")
    /\ \/ /\ This \in Plain /\ Goto("end")
          /\ \/ shown' = [shown EXCEPT ![This] = {}] /\ NoFault
             \/ Fault /\ UNCHANGED shown
          /\ UNCHANGED staged
       \/ /\ This \in Tryon /\ Goto("end") /\ NoFault
          /\ staged' = [staged EXCEPT ![This] = @ \cup shown[This]] /\ shown' = [shown EXCEPT ![This] = {}]
       \/ This \in Tryon /\ shown[This] # {} /\ Fault /\ Idle /\ UNCHANGED <<staged, shown>>
    /\ UNCHANGED <<jobFile, job, deleted, queue, stop, attempts>>

End ==
    /\ At("end") /\ Idle
    /\ \/ Update(This, IF This \in stop THEN "cancelled" ELSE "failed")
       \/ Refused
    /\ UNCHANGED <<staged, shown, deleted, queue, stop, attempts>>

Execute == Take \/ Prepare \/ Dispatch \/ Launch \/ WorkerEnds \/ Check \/ Seal \/ Move
           \/ Record \/ Publish \/ Except \/ End

-----------------------------------------------------------------------------
(* The service exits, and _recover.                                         *)

ForgetJobs ==
    /\ job' = [j \in Jobs |-> "none"] /\ queue' = <<>> /\ Idle /\ stop' = {}
    /\ UNCHANGED <<files, attempts>>

\* Mutant: jobs that were interrupted are queued again.
Requeued ==
    LET lost == {j \in Jobs : jobFile[j] \in Running} IN
    IF lost = {} THEN <<>> ELSE <<Make(CHOOSE j \in lost : TRUE)>>

\* What a start of the service puts on the lane for jobs of its last run.
Resumed == <<>>

\* An interrupted job has failed.  A complete try-on job whose image is gone
\* has failed too; with its image the publication is finished.
Recovered(j) ==
    IF \/ jobFile[j] \in Running
       \/ j \in Tryon /\ jobFile[j] = "complete" /\ j \notin deleted /\ "image" \notin shown[j]
    THEN "failed" ELSE jobFile[j]

RecoverJobs ==
    LET Kept(j) == Recovered(j) = "complete" /\ j \notin deleted IN
    /\ jobFile' = [j \in Jobs |-> Recovered(j)]
    /\ job' = [j \in Jobs |-> IF Recovered(j) = "absent" THEN "none" ELSE Recovered(j)]
    /\ shown' = [j \in Jobs |->
         IF jobFile[j] = "absent" \/ j \in deleted \/ (j \in Plain /\ jobFile[j] \in Terminal) THEN shown[j]
         ELSE IF j \in Tryon /\ Kept(j) THEN Whole ELSE {}]
    /\ staged' = [j \in Jobs |-> IF j \in Tryon /\ ~Kept(j) THEN staged[j] \cup shown[j] ELSE staged[j]]
    /\ UNCHANGED <<deleted, lane, stop, attempts>>
=============================================================================
