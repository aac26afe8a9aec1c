------------------------------- MODULE HqTryon -------------------------------
(***************************************************************************)
(* The try-on service (hq_service.py, hq_repair_service.py) over the       *)
(* single identity jobs of IdentityJobs.  A try-on owns one identity child *)
(* with the same name.  A thread of a small pool downloads the pictures,   *)
(* has the face inspected on the lane, binds the child and mirrors its     *)
(* state into the record of the try-on.  A body repair of a finished       *)
(* picture is one more task of the lane.                                   *)
(***************************************************************************)
EXTENDS IdentityJobs

CONSTANTS
    Repairing, \* the try-ons that ask for a repair by themselves
    Threads    \* workers of the preparation pool

ASSUME TryonAssumption == Repairing \subseteq Tryon /\ IsFiniteSet(Tryon) /\ Threads \in Nat \ {0}

VARIABLES
    phase,         \* of the service
    folder,        \* try-ons with a folder
    rec, recFile,  \* their records in memory and in the folder: state and repair
    stage, snap,   \* the thread that prepares a try-on, and the child it has read
    asked,         \* try-ons with their cancel event set
    report         \* try-ons with a report of the repair worker

hq   == <<phase, folder, rec, recFile, stage, snap, asked, report>>
vars == <<jobVars, hq>>

Fixed == {"succeeded", "emptied", "failed", "cancelled"}
Active(j) == rec[j].state \in {"queued", "running"}
Stages == {"none", "reserved", "pool", "download", "inspect", "bind", "watch",
           "wait", "mirror", "auto", "broken"}
Busy == {j \in Tryon : stage[j] \notin {"none", "reserved", "pool"}}
Absent == [state |-> "absent", repair |-> "none"]

Init ==
    /\ InitJobs /\ phase = "down" /\ folder = {} /\ asked = {} /\ report = {}
    /\ rec = [j \in Tryon |-> Absent] /\ recFile = rec
    /\ stage = [j \in Tryon |-> "none"] /\ snap = [j \in Tryon |-> "none"]

At2(j, where) == stage[j] = where
Step(j, where) == stage' = [stage EXCEPT ![j] = where]

\* _save: the record in memory has changed before its file is written.
Set(j, record) == rec' = [rec EXCEPT ![j] = record]
Saved(j, record) == Set(j, record) /\ recFile' = [recFile EXCEPT ![j] = record] /\ NoFault
Unsaved(j, record) == Set(j, record) /\ Fault /\ UNCHANGED recFile
In(state, j) == [rec[j] EXCEPT !.state = state]
Repair(state, j) == [rec[j] EXCEPT !.repair = state]

\* The lock of the service is held from the mirrored success to the repair.
HqLocked == \E j \in Tryon : stage[j] = "auto"

\* _check_cancel.
Goes(j) == phase = "open" /\ j \notin asked /\ Active(j)

-----------------------------------------------------------------------------
(* Requests.                                                                *)

\* A folder that exists is never used again, with or without a record.
Reserve(j) ==
    /\ phase = "open" /\ rec[j] = Absent /\ j \notin folder /\ At2(j, "none")
    /\ folder' = folder \cup {j} /\ Step(j, "reserved")
    /\ UNCHANGED <<jobVars, phase, rec, recFile, snap, asked, report>>

\* The pool of a service that closes refuses the thread: the record that was
\* saved as queued is saved as failed.
RecordTryon(j) ==
    /\ At2(j, "reserved") /\ ~HqLocked
    /\ \/ Saved(j, In("queued", j)) /\ Step(j, "pool")
       \/ phase = "closing" /\ Saved(j, In("failed", j)) /\ Step(j, "none")
       \/ Fault /\ Step(j, "none") /\ UNCHANGED <<rec, recFile>>
    /\ UNCHANGED <<files, job, queue, lane, stop, attempts, phase, folder, snap, asked, report>>

CancelTryon(j) ==
    /\ phase = "open" /\ Active(j) /\ j \notin asked /\ ~HqLocked
    /\ asked' = asked \cup {j}
    /\ IF At2(j, "pool")
       THEN (Saved(j, In("cancelled", j)) \/ Unsaved(j, In("cancelled", j))) /\ Step(j, "none")
       ELSE UNCHANGED <<rec, recFile, stage, bounds>>
    /\ UNCHANGED <<files, job, queue, lane, stop, attempts, phase, folder, snap, report>>

\* _schedule_repair; the disk may be too full.
Schedule(j) ==
    \/ Saved(j, Repair("queued", j)) /\ queue' = Append(queue, Task("repair", j))
    \/ Unsaved(j, Repair("queued", j)) /\ UNCHANGED queue

RequestRepair(j) ==
    /\ phase = "open" /\ ~HqLocked /\ rec[j].state = "succeeded" /\ j \notin deleted
    /\ rec[j].repair # "done" /\ ~Queued(Task("repair", j)) /\ run # Task("repair", j)
    /\ Schedule(j)
    /\ UNCHANGED <<files, job, lane, stop, attempts, phase, folder, stage, snap, asked, report>>

-----------------------------------------------------------------------------
(* _prepare_identity.                                                       *)

\* A service that closes gives up the thread, not the record.
Begin(j) ==
    /\ At2(j, "pool") /\ Cardinality(Busy) < Threads
    /\ \/ phase # "open" /\ Step(j, "none")
       \/ phase = "open" /\ Goes(j) /\ Step(j, "download")
       \/ phase = "open" /\ Step(j, "broken")
    /\ UNCHANGED <<jobVars, phase, folder, rec, recFile, snap, asked, report>>

\* Downloads with one retry, hashes, copies; a picture from the gallery has
\* its face inspected on the lane, that of a profile has been already.
Download(j) ==
    /\ At2(j, "download")
    /\ \/ Goes(j) /\ ~Locked /\ Step(j, "inspect") /\ queue' = Append(queue, Task("inspect", j))
       \/ Goes(j) /\ Step(j, "bind") /\ UNCHANGED queue
       \/ Step(j, "broken") /\ UNCHANGED queue
    /\ UNCHANGED <<files, job, lane, stop, attempts, bounds, phase, folder, rec, recFile, snap, asked, report>>

Inspect ==
    /\ pc = "idle" /\ queue # <<>> /\ Head(queue).what = "inspect"
    /\ run' = Head(queue) /\ queue' = Tail(queue) /\ pc' = "inspect"
    /\ UNCHANGED <<files, job, stop, attempts, bounds, hq>>

Inspected ==
    /\ pc = "inspect" /\ run # None /\ run.what = "inspect" /\ Idle
    /\ Step(run.job, "bind") \/ Step(run.job, "broken")
    /\ UNCHANGED <<files, job, queue, stop, attempts, bounds, phase, folder, rec, recFile, snap, asked, report>>

\* submit_hq: the inputs must be those of the record, and no earlier child may
\* exist.  The child is journalled before it is queued.
Bind(j) ==
    /\ At2(j, "bind") /\ ~Locked /\ ~HqLocked
    /\ \/ Goes(j) /\ jobFile[j] = "absent" /\ Journal(j)
          /\ Step(j, IF queue' = queue THEN "broken" ELSE "watch")
       \/ Step(j, "broken") /\ UNCHANGED <<jobFile, job, queue, bounds>>
    /\ UNCHANGED <<staged, shown, deleted, lane, stop, attempts, phase, folder, rec, recFile, snap, asked, report>>

\* _cancel_child: waits until the child has ended.
Halts(j) == j \in asked \/ phase # "open"

CancelChild(j) ==
    /\ At2(j, "watch") /\ Halts(j) /\ job[j] \in Running /\ ~Locked
    /\ stop' = stop \cup {j}
    /\ \/ /\ Queued(Make(j)) /\ queue' \in Without(Make(j))
          /\ (Update(j, "cancelled") /\ Step(j, "wait")) \/ (Refused /\ Step(j, "broken"))
       \/ ~Queued(Make(j)) /\ Step(j, "wait") /\ UNCHANGED <<jobFile, job, queue, bounds>>
    /\ UNCHANGED <<staged, shown, deleted, lane, attempts, phase, folder, rec, recFile, snap, asked, report>>

Ended(j) == run # Make(j) /\ ~Queued(Make(j))

Get(j) ==
    /\ ~Locked
    /\ \/ At2(j, "watch") /\ ~(Halts(j) /\ job[j] \in Running)
       \/ At2(j, "wait") /\ Ended(j)
    /\ IF At2(j, "wait") /\ job[j] \in Running THEN Step(j, "broken") /\ UNCHANGED snap
       ELSE Step(j, "mirror") /\ snap' = [snap EXCEPT ![j] = job[j]]
    /\ UNCHANGED <<jobVars, phase, folder, rec, recFile, asked, report>>

\* What the record of a try-on says of its child.
Image(state, child) ==
    CASE child = "complete" -> state
      [] child \in {"failed", "cancelled", "queued"} -> child
      [] OTHER -> "running"

Then(j) == IF snap[j] \notin Terminal THEN "watch"
           ELSE IF snap[j] = "complete" /\ j \in Repairing /\ phase = "open" THEN "auto" ELSE "none"

\* _mirror_identity: a deleted picture succeeded without a result, a missing
\* one is an error.
Mirror(j) ==
    /\ At2(j, "mirror") /\ ~HqLocked
    /\ LET next == In(Image(IF j \in deleted THEN "emptied" ELSE "succeeded", snap[j]), j) IN
       \/ ~Active(j) /\ Step(j, IF snap[j] \in Terminal THEN "none" ELSE "watch")
          /\ UNCHANGED <<rec, recFile, bounds>>
       \/ Active(j) /\ snap[j] = "complete" /\ j \notin deleted /\ "image" \notin shown[j]
          /\ Step(j, "broken") /\ UNCHANGED <<rec, recFile, bounds>>
       \/ Active(j) /\ (snap[j] = "complete" => j \in deleted \/ "image" \in shown[j])
          /\ ((Saved(j, next) /\ Step(j, Then(j))) \/ (Unsaved(j, next) /\ Step(j, "broken")))
    /\ UNCHANGED <<files, job, queue, lane, stop, attempts, phase, folder, snap, asked, report>>

\* _auto_schedule: a repair that cannot be queued has failed.
AutoRepair(j) ==
    /\ At2(j, "auto")
    /\ \/ rec[j].state = "succeeded" /\ j \notin deleted /\ Schedule(j)
       \/ Saved(j, Repair("failed", j)) /\ UNCHANGED queue
    /\ Step(j, IF recFile' = recFile THEN "broken" ELSE "none")
    /\ UNCHANGED <<files, job, lane, stop, attempts, phase, folder, snap, asked, report>>

\* The handler of every failure; a record that ended stays as it is.
Broken(j) ==
    /\ At2(j, "broken") /\ ~HqLocked /\ Step(j, "none")
    /\ IF Active(j)
       THEN \E state \in IF j \in asked THEN {"cancelled"}
                         ELSE IF phase # "open" THEN {"cancelled", "failed"} ELSE {"failed"} :
            Saved(j, In(state, j)) \/ Unsaved(j, In(state, j))
       ELSE UNCHANGED <<rec, recFile, bounds>>
    /\ UNCHANGED <<files, job, queue, lane, stop, attempts, phase, folder, snap, asked, report>>

Thread(j) == RecordTryon(j) \/ Begin(j) \/ Download(j) \/ Bind(j) \/ CancelChild(j) \/ Get(j) \/ Mirror(j)
             \/ AutoRepair(j) \/ Broken(j)

-----------------------------------------------------------------------------
(* _run_body_repair.                                                        *)

Repairs(place) == pc = place /\ run # None /\ run.what = "repair"
Source(j) == rec[j].state = "succeeded" /\ j \notin deleted

TakeRepair ==
    /\ pc = "idle" /\ queue # <<>> /\ Head(queue).what = "repair"
    /\ run' = Head(queue) /\ queue' = Tail(queue) /\ pc' = "repair"
    /\ UNCHANGED <<files, job, stop, attempts, bounds, hq>>

RepairBegins ==
    /\ Repairs("repair") /\ ~HqLocked
    /\ \/ Source(This) /\ phase = "open" /\ Saved(This, Repair("running", This)) /\ Goto("patch")
       \/ Source(This) /\ phase = "open" /\ Unsaved(This, Repair("running", This)) /\ Goto("unrepaired")
       \/ ~(Source(This) /\ phase = "open") /\ Goto("unrepaired") /\ UNCHANGED <<rec, recFile, bounds>>
    /\ UNCHANGED <<files, job, queue, stop, attempts, phase, folder, stage, snap, asked, report>>

\* A report of an earlier run is taken as it is, if it still fits.
RepairWorks ==
    /\ Repairs("patch")
    /\ \/ report' = report \cup {This} /\ Goto("receipt")
       \/ Goto("unrepaired") /\ UNCHANGED report
    /\ UNCHANGED <<files, job, queue, stop, attempts, bounds, phase, folder, rec, recFile, stage, snap, asked>>

RepairEnds ==
    /\ Repairs("receipt") /\ ~HqLocked
    /\ \/ Source(This) /\ Saved(This, Repair("done", This)) /\ Idle
       \/ Source(This) /\ Unsaved(This, Repair("done", This)) /\ Goto("unrepaired")
       \/ ~Source(This) /\ Goto("unrepaired") /\ UNCHANGED <<rec, recFile, bounds>>
    /\ UNCHANGED <<files, job, queue, stop, attempts, phase, folder, stage, snap, asked, report>>

RepairFails ==
    /\ Repairs("unrepaired") /\ ~HqLocked /\ Idle
    /\ Saved(This, Repair("failed", This)) \/ Unsaved(This, Repair("failed", This))
    /\ UNCHANGED <<files, job, queue, stop, attempts, phase, folder, stage, snap, asked, report>>

Lane == (Execute /\ UNCHANGED hq) \/ Inspect \/ Inspected
        \/ TakeRepair \/ RepairBegins \/ RepairWorks \/ RepairEnds \/ RepairFails

-----------------------------------------------------------------------------
(* close, the exit of the process, and start.                               *)

CloseBegin ==
    /\ phase = "open" /\ crashes < MaxCrashes /\ ~HqLocked /\ phase' = "closing"
    /\ LET active == {j \in Tryon : Active(j)}
           Mark(f, S) == [j \in Tryon |-> IF j \in S THEN [f[j] EXCEPT !.state = "failed"] ELSE f[j]] IN
       \/ /\ NoFault /\ rec' = Mark(rec, active)
          /\ recFile' = [j \in Tryon |-> IF j \in active THEN rec'[j] ELSE recFile[j]]
          /\ asked' = {j \in Tryon : rec[j] # Absent}
          /\ stage' = [j \in Tryon |-> IF stage[j] = "pool" THEN "none" ELSE stage[j]]
          /\ queue' \in Left({n \in DOMAIN queue : queue[n].what # "repair"})
       \/ /\ Fault /\ \E S \in SUBSET active, f \in active :
               /\ rec' = Mark(rec, S \cup {f})
               /\ recFile' = [j \in Tryon |-> IF j \in S \ {f} THEN rec'[j] ELSE recFile[j]]
          /\ UNCHANGED <<asked, stage, queue>>
    /\ UNCHANGED <<files, job, lane, stop, attempts, folder, snap, report>>

CloseEnd ==
    /\ phase = "closing" /\ \A j \in Tryon : stage[j] = "none"
    /\ \A j \in Tryon : ~Queued(Task("repair", j)) /\ run # Task("repair", j)
    /\ phase' = "closed"
    /\ UNCHANGED <<jobVars, folder, rec, recFile, stage, snap, asked, report>>

Exit ==
    /\ phase # "down" /\ crashes < MaxCrashes /\ crashes' = crashes + 1 /\ UNCHANGED faults
    /\ ForgetJobs /\ phase' = "down" /\ asked' = {}
    /\ rec' = [j \in Tryon |-> Absent]
    /\ stage' = [j \in Tryon |-> "none"] /\ snap' = [j \in Tryon |-> "none"]
    /\ UNCHANGED <<folder, recFile, report>>

\* Mutant: a start reads the records as they are.
AsSaved(j) == recFile[j]

\* The children are recovered first.  A try-on that was not finished takes the
\* state of its child, or has failed; a repair that was running has failed, one
\* that waited is queued again if there is room.
Again(j) ==
    LET r == recFile[j]
        child == Recovered(j)
        state == IF r.state \notin {"queued", "running"} THEN r.state
                 ELSE Image(IF j \in deleted THEN "emptied" ELSE "succeeded",
                            IF child = "absent" THEN "failed" ELSE child)
    IN  [state |-> state, repair |-> IF r.repair = "running" THEN "failed" ELSE r.repair]

Due == {j \in Tryon : /\ Again(j).state = "succeeded" /\ j \notin deleted
                      /\ (Again(j).repair = "queued" \/ (j \in Repairing /\ Again(j).repair = "none"))}
Renewed(j, room) ==
    IF j \in room THEN [Again(j) EXCEPT !.repair = "queued"]
    ELSE IF j \in Due THEN [Again(j) EXCEPT !.repair = "failed"] ELSE Again(j)

Start ==
    /\ phase = "down" /\ phase' = "open" /\ RecoverJobs /\ NoFault
    /\ \E room \in SUBSET Due : \E todo \in [1..Cardinality(room) -> room] :
         /\ \A a, b \in DOMAIN todo : todo[a] = todo[b] => a = b
         /\ queue' = Resumed \o [n \in DOMAIN todo |-> Task("repair", todo[n])]
         /\ rec' = [j \in Tryon |-> Renewed(j, room)] /\ recFile' = rec'
    /\ UNCHANGED <<folder, stage, snap, asked, report>>

-----------------------------------------------------------------------------
\* Single jobs are submitted, cancelled and deleted by clients; the child of a
\* try-on may be cancelled and deleted like any other job.
Request ==
    \/ /\ phase = "open"
       /\ \/ \E j \in Plain : Submit(j)
          \/ \E j \in Jobs : CancelJob(j) \/ DeleteJob(j)
       /\ UNCHANGED hq
    \/ \E j \in Tryon : Reserve(j) \/ CancelTryon(j) \/ RequestRepair(j)

Working == phase # "down"
Next ==
    \/ Request \/ Start \/ Exit \/ CloseBegin \/ CloseEnd
    \/ Working /\ (Lane \/ (Write /\ UNCHANGED hq) \/ \E j \in Tryon : Thread(j))

Fairness ==
    /\ WF_vars(Working /\ Lane) /\ \A j \in Tryon : WF_vars(Working /\ Thread(j))
    /\ WF_vars(CloseEnd) /\ WF_vars(phase = "closed" /\ Exit) /\ WF_vars(Start)

Spec == Init /\ [][Next]_vars /\ Fairness

-----------------------------------------------------------------------------
JobStates == {"absent"} \cup Running \cup Terminal
ChildStates == {"none"} \cup Running \cup Terminal
Places == {"idle", "prepare", "dispatch", "launch", "work", "check", "seal", "move", "record", "publish",
           "except", "end", "inspect", "repair", "patch", "receipt", "unrepaired"}
Records == [state : {"absent", "queued", "running"} \cup Fixed,
            repair : {"none", "queued", "running", "done", "failed"}]

JobsType ==
    /\ jobFile \in [Jobs -> JobStates] /\ job \in [Jobs -> ChildStates]
    /\ staged \in [Jobs -> SUBSET Whole] /\ shown \in [Jobs -> SUBSET Whole] /\ deleted \in SUBSET Jobs
    /\ queue \in Seq(Tasks) /\ run \in Tasks \cup {None}
    /\ pc \in Places /\ (run = None <=> pc = "idle")
    /\ stop \in SUBSET Jobs /\ attempts \in [Jobs -> Nat] /\ faults \in Nat /\ crashes \in Nat

HqType ==
    /\ phase \in {"down", "open", "closing", "closed"} /\ folder \in SUBSET Tryon
    /\ rec \in [Tryon -> Records] /\ recFile \in [Tryon -> Records]
    /\ stage \in [Tryon -> Stages] /\ snap \in [Tryon -> ChildStates]
    /\ asked \in SUBSET Tryon /\ report \in SUBSET Tryon

TypeOK == JobsType /\ HqType

\* No job is ever given to a second worker process, whatever is cancelled,
\* lost or restarted: interrupted work is not repeated by itself (submit_hq,
\* _recover, HQService.start).
OneAttempt == \A j \in Jobs : attempts[j] <= 1

\* A try-on picture that the history shows belongs to a job whose file says
\* complete: the scanner cannot take an unfinished or a failed one for a
\* success (_execute publishes the metadata last, failures are moved back).
HistoryHonest == \A j \in Tryon : (shown[j] = Whole /\ j \notin deleted) => jobFile[j] = "complete"

\* A child that has no end: its index or its last record could not be written.
Stranded(j) == job[j] \in Running /\ Ended(j)

\* Every try-on ends, also through a close or an exit of the service and its
\* next start, unless its child was stranded by a failed write.
Settles == \A j \in Tryon : Active(j) ~> (rec[j].state \in Fixed \/ Stranded(j))

\* "A failure may not be hidden by a success the interface reports"
\* (docs/dream-windows/HQ_LOCAL_TRYON.md:93): a try-on that is saved as a
\* success has a child that succeeded.
FailureNotHidden == \A j \in Tryon : recFile[j].state = "succeeded" => jobFile[j] = "complete"
=============================================================================
