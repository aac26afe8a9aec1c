-------------------------- MODULE IdentityBatches --------------------------
(***************************************************************************)
(* Batches of identity images (identity_batches.py).                       *)
(*                                                                         *)
(* A batch is a record that holds copies of its items, and each item is a  *)
(* job with a record of its own; all are in memory and in files.  A worker *)
(* process writes the images and appends an event per finished image to a  *)
(* journal; the lane reads the events.  Everything else is done under one  *)
(* lock: crit is the section that holds it, one file write per step, so    *)
(* that each write may fail and the service may exit before or after it.   *)
(***************************************************************************)
EXTENDS Naturals, Sequences

CONSTANTS
    Batches,    \* batches that may be submitted
    Items,      \* images of a new batch, in order
    Keys,       \* idempotency keys of clients
    None,
    MaxFaults, MaxCrashes

Owners == {"submit", "queue", "lane", "start"}
Sections == {"jobs", "commit", "rollback", "sample", "record", "item", "verify", "save",
             "replay", "clean", "end"}
Held == [who : Owners, what : Sections, batch : Batches \cup {None}, todo : SUBSET Items,
         outcome : {"none", "failed", "cancelled"}]
Origins == [parent : Batches, key : Keys, mode : {"failed", "unfinished"}]

ASSUME BatchAssumption ==
    /\ Batches \subseteq Nat /\ Items \subseteq Nat /\ Items # {}
    /\ None \notin Batches /\ None \notin Held /\ None \notin Origins
    /\ MaxFaults \in Nat /\ MaxCrashes \in Nat

VARIABLES
    file,      \* state in each batch file
    copies,    \* states of the items in it
    jobFile,   \* state in each job file
    output,    \* whether the image and metadata of each item are whole
    journal,   \* items with a completion event in the journal
    origin, members,    \* parts of the batch record that never change
    record, items,      \* the batch record in memory
    job,       \* job records in memory
    pending,   \* jobs complete in memory whose files could not be written
    queue,     \* batches waiting for the lane
    run, pc,   \* batch the lane executes, and where it is
    worker,    \* the worker process of that batch
    seen,      \* completion events that were consumed
    cancelled, \* active batches with their cancel event set
    crit,      \* section that holds the lock
    told,      \* items that a client can have seen complete
    faults, crashes

disk   == <<file, copies, jobFile, output, journal>>
frozen == <<origin, members>>
memory == <<record, items, job, pending>>
lane   == <<run, pc, worker, seen>>
bounds == <<faults, crashes>>
vars   == <<disk, frozen, memory, queue, lane, cancelled, crit, told, bounds>>

Terminal == {"complete", "failed", "cancelled"}
Active == {"queued", "preparing", "sampling"}
Values == Terminal \cup Active \cup {"none"}
Saved == Terminal \cup Active \cup {"absent"}
Records == [Items -> Values]
Files == [Items -> Saved]
Outputs == [Items -> {"none", "whole"}]
First(S) == CHOOSE i \in S : \A j \in S : i <= j
Free == crit = None
Holds(section) == crit # None /\ crit.what = section
Section(who, what, b, todo, outcome) ==
    [who |-> who, what |-> what, batch |-> b, todo |-> todo, outcome |-> outcome]
Batch == crit.batch
Item == First(crit.todo)
Enter(section) == crit' = section
Leave == crit' = None

Init ==
    /\ file = [b \in Batches |-> "absent"] /\ record = [b \in Batches |-> "none"]
    /\ copies = [b \in Batches |-> [i \in Items |-> "none"]] /\ items = copies
    /\ jobFile = [b \in Batches |-> [i \in Items |-> "absent"]]
    /\ job = [b \in Batches |-> [i \in Items |-> "none"]]
    /\ output = [b \in Batches |-> [i \in Items |-> "none"]]
    /\ journal = [b \in Batches |-> {}] /\ pending = [b \in Batches |-> {}]
    /\ origin = [b \in Batches |-> None] /\ members = [b \in Batches |-> {}]
    /\ queue = <<>> /\ run = None /\ pc = "idle" /\ worker = "none" /\ seen = {}
    /\ cancelled = {} /\ crit = None /\ told = [b \in Batches |-> {}]
    /\ faults = 0 /\ crashes = 0

\* A write, unlink or replace raises OSError.
Fault == faults < MaxFaults /\ faults' = faults + 1 /\ UNCHANGED crashes
NoFault == UNCHANGED bounds

\* _update of one item: file first, then memory.
JobSaved(b, i, state) ==
    /\ jobFile' = [jobFile EXCEPT ![b][i] = state] /\ job' = [job EXCEPT ![b][i] = state]
    /\ NoFault

\* get answers with the record in memory at any time.
Show(b, states) == told' = [told EXCEPT ![b] = @ \cup {i \in Items : states[i] = "complete"}]

\* _save of a batch record: file first, then memory.
BatchSaved(b, state, states) ==
    /\ Show(b, states)
    /\ file' = [file EXCEPT ![b] = state] /\ copies' = [copies EXCEPT ![b] = states]
    /\ record' = [record EXCEPT ![b] = state] /\ items' = [items EXCEPT ![b] = states]
    /\ NoFault

\* The same, in memory only.
BatchHeld(b, state, states) ==
    /\ Show(b, states)
    /\ record' = [record EXCEPT ![b] = state] /\ items' = [items EXCEPT ![b] = states]
    /\ UNCHANGED <<file, copies>>

States(b, state) == [i \in Items |-> IF i \in members[b] THEN state ELSE "none"]

-----------------------------------------------------------------------------
(* submit, retry and _submit_frozen.                                        *)

\* Identifiers are random and never used again; here they are taken in order.
Unused(b) == \A c \in Batches : members[c] = {} <=> c >= b

Submit(b) ==
    /\ Free /\ Unused(b)
    /\ members' = [members EXCEPT ![b] = Items] /\ UNCHANGED origin
    /\ Enter(Section("submit", "jobs", b, Items, "none"))
    /\ UNCHANGED <<disk, memory, queue, lane, cancelled, told, bounds>>

\* One step of the chain of _validate_lineage: the parent has ended, and the
\* images were not finished there, or had failed when only those were asked for.
Lineage(b, states, copied) ==
    origin[b] # None =>
        /\ states[origin[b].parent] \in Terminal
        /\ \A i \in members[b] : LET original == copied[origin[b].parent][i] IN
               IF origin[b].mode = "failed" THEN original = "failed" ELSE original \notin {"complete", "none"}

\* _validate_lineage: the batches whose chain is valid up to the first of it.
Chained(states, copied) ==
    UNION {S \in SUBSET Batches : \A b \in S :
              Lineage(b, states, copied) /\ (origin[b] # None => origin[b].parent \in S)}

Reserved(b, parent, key) ==
    file[b] # "absent" /\ origin[b] # None /\ origin[b].parent = parent /\ origin[b].key = key

\* retry under a key no file on disk has.  The parent has ended, and its file
\* says the same as memory.
Retry(b, parent, key, mode) ==
    /\ Free /\ Unused(b)
    /\ \A r \in Batches : ~Reserved(r, parent, key)
    /\ record[parent] \in Terminal
    /\ file[parent] = record[parent] /\ copies[parent] = items[parent]
    /\ parent \in Chained(record, items)
    /\ LET chosen == {i \in members[parent] :
                        \/ items[parent][i] = "failed"
                        \/ mode = "unfinished" /\ items[parent][i] # "complete"} IN
       /\ chosen # {}
       /\ members' = [members EXCEPT ![b] = chosen]
       /\ origin' = [origin EXCEPT ![b] = [parent |-> parent, key |-> key, mode |-> mode]]
       /\ Enter(Section("submit", "jobs", b, chosen, "none"))
    /\ UNCHANGED <<disk, memory, queue, lane, cancelled, told, bounds>>

SubmitJob ==
    /\ Holds("jobs") /\ crit.who = "submit"
    /\ \/ /\ crit.todo # {}
          /\ jobFile' = [jobFile EXCEPT ![Batch][Item] = "queued"]
          /\ Enter([crit EXCEPT !.todo = @ \ {Item}]) /\ NoFault
       \/ crit.todo = {} /\ Enter([crit EXCEPT !.what = "commit"]) /\ NoFault /\ UNCHANGED jobFile
       \/ Fault /\ Enter(Section("submit", "rollback", Batch, members[Batch], "none")) /\ UNCHANGED jobFile
    /\ UNCHANGED <<file, copies, output, journal, frozen, memory, queue, lane, cancelled, told>>

\* Mutant: memory and queue first, the file afterwards when it can be written.
CommitUnsaved ==
    /\ Holds("commit")
    /\ job' = [job EXCEPT ![Batch] = States(Batch, "queued")]
    /\ \/ BatchSaved(Batch, "queued", States(Batch, "queued"))
       \/ Fault /\ BatchHeld(Batch, "queued", States(Batch, "queued"))
    /\ queue' = Append(queue, Batch) /\ Leave
    /\ UNCHANGED <<jobFile, output, journal, frozen, pending, lane, cancelled>>

\* The batch file is the commit marker; memory and the queue follow it.  When
\* the executor refuses, a retry is kept as failed and a new batch is undone.
Commit ==
    /\ Holds("commit")
    /\ \/ /\ BatchSaved(Batch, "queued", States(Batch, "queued"))
          /\ job' = [job EXCEPT ![Batch] = States(Batch, "queued")]
          /\ \/ queue' = Append(queue, Batch) /\ Leave
             \/ /\ UNCHANGED queue
                /\ Enter(IF origin[Batch] # None THEN Section("submit", "clean", Batch, members[Batch], "failed")
                         ELSE Section("submit", "rollback", Batch, members[Batch], "none"))
       \/ /\ Fault /\ Enter(Section("submit", "rollback", Batch, members[Batch], "none"))
          /\ UNCHANGED <<file, copies, record, items, job, queue, told>>
    /\ UNCHANGED <<jobFile, output, journal, frozen, pending, lane, cancelled>>

\* The batch file is removed first, then the job files from the last to the
\* first; what cannot be removed stays.
Rollback ==
    /\ Holds("rollback")
    /\ record' = [record EXCEPT ![Batch] = "none"] /\ job' = [job EXCEPT ![Batch] = [i \in Items |-> "none"]]
    /\ items' = [items EXCEPT ![Batch] = [i \in Items |-> "none"]]
    /\ IF record[Batch] # "none"
       THEN /\ \/ /\ file' = [file EXCEPT ![Batch] = "absent"]
                  /\ copies' = [copies EXCEPT ![Batch] = [i \in Items |-> "none"]] /\ NoFault
               \/ Fault /\ UNCHANGED <<file, copies>>
            /\ UNCHANGED <<jobFile, crit>>
       ELSE /\ \E i \in crit.todo :
                  /\ \A j \in crit.todo : j <= i
                  /\ \/ jobFile' = [jobFile EXCEPT ![Batch][i] = "absent"] /\ NoFault
                     \/ Fault /\ UNCHANGED jobFile
                  /\ crit' = IF crit.todo = {i} THEN None ELSE [crit EXCEPT !.todo = @ \ {i}]
            /\ UNCHANGED <<file, copies>>
    /\ UNCHANGED <<output, journal, frozen, pending, queue, lane, cancelled, told>>

-----------------------------------------------------------------------------
(* cancel.                                                                  *)

\* A batch still queued is ended by the caller; otherwise the caller waits
\* for the lane.
Cancel(b) ==
    /\ Free /\ record[b] \in Active /\ b \notin cancelled
    /\ cancelled' = cancelled \cup {b}
    /\ \/ \E n \in DOMAIN queue :
             /\ queue[n] = b
             /\ queue' = [k \in 1..(Len(queue) - 1) |-> queue[IF k < n THEN k ELSE k + 1]]
             /\ Enter(Section("queue", "clean", b, members[b], "cancelled"))
       \/ (\A n \in DOMAIN queue : queue[n] # b) /\ UNCHANGED <<queue, crit>>
    /\ UNCHANGED <<disk, frozen, memory, lane, told, bounds>>

-----------------------------------------------------------------------------
(* _execute.                                                                *)

Goto(place) == pc' = place /\ UNCHANGED run
Raise == Goto("except") /\ worker' = "none" /\ UNCHANGED seen

Take ==
    /\ pc = "idle" /\ queue # <<>>
    /\ run' = Head(queue) /\ queue' = Tail(queue) /\ pc' = "prepare" /\ worker' = "none" /\ seen' = {}
    /\ UNCHANGED <<disk, frozen, memory, cancelled, crit, told, bounds>>

Prepare ==
    /\ pc = "prepare" /\ Free
    /\ \/ run \in cancelled /\ Raise /\ NoFault /\ UNCHANGED <<file, copies, record, items, told>>
       \/ /\ run \notin cancelled /\ BatchSaved(run, "preparing", items[run])
          /\ Goto("native") /\ UNCHANGED <<worker, seen>>
       \/ run \notin cancelled /\ Fault /\ Raise /\ UNCHANGED <<file, copies, record, items, told>>
    /\ UNCHANGED <<jobFile, output, journal, frozen, job, pending, queue, cancelled, crit>>

\* The sd-server is released, the request resolved and the worker started; an
\* error or a cancellation ends the batch.
Dispatch ==
    /\ pc = "native"
    /\ \/ run \notin cancelled /\ Goto("render") /\ worker' = "run" /\ UNCHANGED seen
       \/ Raise
    /\ UNCHANGED <<disk, frozen, memory, queue, cancelled, crit, told, bounds>>

\* The worker renders in order: the image and its metadata, then the event.
Render ==
    /\ worker = "run" /\ journal[run] # members[run]
    /\ LET i == First(members[run] \ journal[run]) IN
       \/ output[run][i] = "none" /\ output' = [output EXCEPT ![run][i] = "whole"] /\ UNCHANGED journal
       \/ output[run][i] = "whole" /\ journal' = [journal EXCEPT ![run] = @ \cup {i}] /\ UNCHANGED output
    /\ UNCHANGED <<file, copies, jobFile, frozen, memory, queue, lane, cancelled, crit, told, bounds>>

WorkerEnds ==
    /\ worker = "run"
    /\ \/ journal[run] = members[run] /\ worker' = "ok"
       \/ worker' = "failed"
    /\ UNCHANGED <<disk, frozen, memory, queue, run, pc, seen, cancelled, crit, told, bounds>>

\* A step event of the first unfinished item: its job, then the batch.
ConsumeStep ==
    /\ pc = "render" /\ Free /\ worker = "run" /\ seen = journal[run] /\ seen # members[run]
    /\ job[run][First(members[run] \ seen)] = "queued"
    /\ Enter(Section("lane", "sample", run, {First(members[run] \ seen)}, "none"))
    /\ UNCHANGED <<disk, frozen, memory, queue, lane, cancelled, told, bounds>>

\* Mutant: an event that could not be consumed is ignored.
Ignore == Leave /\ UNCHANGED lane

\* The callback of an event raises: the request ends, its worker is stopped.
Break ==
    /\ Leave /\ Goto(IF pc = "render" THEN "drain" ELSE "except")
    /\ worker' = "none" /\ UNCHANGED seen

Sample ==
    /\ Holds("sample")
    /\ \/ JobSaved(Batch, Item, "sampling") /\ Enter([crit EXCEPT !.what = "record"]) /\ UNCHANGED lane
       \/ Fault /\ Break /\ UNCHANGED <<jobFile, job>>
    /\ UNCHANGED <<file, copies, output, journal, frozen, record, items, pending, queue, cancelled, told>>

\* A completion event.
Consume ==
    /\ pc \in {"render", "drain"} /\ Free /\ seen # journal[run]
    /\ Enter(Section("lane", "item", run, {First(journal[run] \ seen)}, "none"))
    /\ UNCHANGED <<disk, frozen, memory, queue, lane, cancelled, told, bounds>>

\* _complete_item of item i: nothing to do when it is complete; the items
\* before it must be complete and its files whole; then metadata and job are
\* written.  When that fails the image is kept and counts in memory.
Known(b, i) == job[b][i] = "complete" \/ i \in pending[b]
Valid(b, i) == output[b][i] = "whole" /\ \A j \in members[b] : j < i => job[b][j] = "complete"

KeepPending(b, i) ==
    /\ Fault
    /\ job' = [job EXCEPT ![b][i] = "complete"] /\ pending' = [pending EXCEPT ![b] = @ \cup {i}]
    /\ UNCHANGED jobFile

CompleteItem ==
    /\ Holds("item")
    /\ \/ /\ Known(Batch, Item) /\ job' = [job EXCEPT ![Batch][Item] = "complete"]
          /\ Enter([crit EXCEPT !.what = "record"])
          /\ NoFault /\ UNCHANGED <<jobFile, pending, lane>>
       \/ /\ ~Known(Batch, Item) /\ Valid(Batch, Item) /\ JobSaved(Batch, Item, "complete")
          /\ Enter([crit EXCEPT !.what = "record"]) /\ UNCHANGED <<pending, lane>>
       \/ /\ ~Known(Batch, Item) /\ Valid(Batch, Item) /\ KeepPending(Batch, Item) /\ Break
       \/ /\ ~Known(Batch, Item) /\ Break    \* an event or a file is not what it should be
          /\ NoFault /\ UNCHANGED <<jobFile, job, pending>>
    /\ UNCHANGED <<file, copies, output, journal, frozen, record, items, queue, cancelled, told>>

\* The end of consume: the batch record with the state of the one item.
SaveRecord ==
    LET state == IF job[Batch][Item] = "sampling" THEN "sampling" ELSE record[Batch] IN
    /\ Holds("record")
    /\ \/ /\ Leave /\ BatchSaved(Batch, state, [items[Batch] EXCEPT ![Item] = job[Batch][Item]])
          /\ seen' = IF job[Batch][Item] = "complete" THEN seen \cup {Item} ELSE seen
          /\ UNCHANGED <<run, pc, worker>>
       \/ /\ Fault /\ UNCHANGED <<file, copies, record, items, told>>
          /\ Break
    /\ UNCHANGED <<jobFile, output, journal, frozen, job, pending, queue, cancelled>>

\* The worker has ended, or the request was cancelled or is too late: its exit
\* is waited for and the rest of the journal consumed, or not when that fails.
Returned ==
    /\ Free
    /\ \/ pc = "render" /\ worker = "ok" /\ seen = journal[run] /\ Goto("verify") /\ UNCHANGED worker
       \/ pc = "render" /\ Goto("drain") /\ worker' = "none"
       \/ pc = "drain" /\ Goto("except") /\ UNCHANGED worker
    /\ UNCHANGED <<seen, disk, frozen, memory, queue, cancelled, crit, told, bounds>>

Verify ==
    /\ pc = "verify" /\ Free
    /\ \/ /\ run \notin cancelled
          /\ Enter(Section("lane", "verify", run, members[run], "none")) /\ UNCHANGED lane
       \/ Raise /\ UNCHANGED crit    \* cancelled, or the result is not valid
    /\ UNCHANGED <<disk, frozen, memory, queue, cancelled, told, bounds>>

\* Every item once more; after the consumed events they are all complete.
VerifyItems ==
    /\ Holds("verify") /\ \A i \in members[Batch] : Known(Batch, i)
    /\ job' = [job EXCEPT ![Batch] = States(Batch, "complete")]
    /\ Enter([crit EXCEPT !.what = "save"])
    /\ UNCHANGED <<disk, frozen, record, items, pending, queue, lane, cancelled, told, bounds>>

SaveComplete ==
    /\ Holds("save") /\ Leave
    /\ \/ BatchSaved(Batch, "complete", job[Batch]) /\ cancelled' = cancelled \ {Batch} /\ run' = None /\ pc' = "idle" /\ worker' = "none" /\ seen' = {}
       \/ Fault /\ Raise /\ UNCHANGED <<file, copies, record, items, cancelled, told>>
    /\ UNCHANGED <<jobFile, output, journal, frozen, job, pending, queue>>

Except ==
    /\ pc = "except" /\ Free
    /\ Enter(Section("lane", "clean", run, members[run],
                     IF run \in cancelled THEN "cancelled" ELSE "failed"))
    /\ Goto("finish") /\ UNCHANGED <<worker, seen>>
    /\ UNCHANGED <<disk, frozen, memory, queue, cancelled, told, bounds>>

-----------------------------------------------------------------------------
(* _finish, for the lane, for a caller of cancel or retry, and at a start.   *)

\* Mutant: every item is cleaned up.
CleanAll ==
    /\ Holds("clean") /\ crit.todo # {}
    /\ output' = [output EXCEPT ![Batch][Item] = "none"] /\ NoFault
    /\ Enter([crit EXCEPT !.what = "end"])
    /\ UNCHANGED <<file, copies, jobFile, journal, frozen, memory, queue, lane, cancelled, told>>

\* An item that is complete is kept; the files of another are removed.
CleanItem ==
    /\ Holds("clean") /\ crit.todo # {}
    /\ \/ /\ Known(Batch, Item) /\ job' = [job EXCEPT ![Batch][Item] = "complete"]
          /\ Enter([crit EXCEPT !.todo = @ \ {Item}]) /\ NoFault /\ UNCHANGED output
       \/ /\ ~Known(Batch, Item) /\ Enter([crit EXCEPT !.what = "end"]) /\ UNCHANGED job
          /\ \/ output' = [output EXCEPT ![Batch][Item] = "none"] /\ NoFault
             \/ Fault /\ UNCHANGED output
    /\ UNCHANGED <<file, copies, jobFile, journal, frozen, record, items, pending, queue, lane, cancelled, told>>

\* A state that cannot be written still holds in memory.
EndItem ==
    /\ Holds("end") /\ Enter(Section(crit.who, "clean", Batch, crit.todo \ {Item}, crit.outcome))
    /\ \/ JobSaved(Batch, Item, crit.outcome)
       \/ Fault /\ job' = [job EXCEPT ![Batch][Item] = crit.outcome] /\ UNCHANGED jobFile
    /\ UNCHANGED <<file, copies, output, journal, frozen, record, items, pending, queue, lane, cancelled, told>>

\* Mutant: a failed write of the last record is an error of its own.
EndUnsaved ==
    /\ Holds("clean") /\ crit.todo = {} /\ Leave
    /\ \/ BatchSaved(Batch, crit.outcome, job[Batch])
       \/ Fault /\ UNCHANGED <<file, copies, record, items, told>>
    /\ IF crit.who = "lane" THEN run' = None /\ pc' = "idle" /\ worker' = "none" /\ seen' = {} ELSE UNCHANGED lane
    /\ cancelled' = cancelled \ {Batch}
    /\ UNCHANGED <<jobFile, output, journal, frozen, job, pending, queue>>

EndBatch ==
    /\ Holds("clean") /\ crit.todo = {}
    /\ IF crit.who = "start" THEN Enter(Section("start", "replay", None, {}, "none")) ELSE Leave
    /\ \/ BatchSaved(Batch, crit.outcome, job[Batch])
       \/ Fault /\ BatchHeld(Batch, crit.outcome, job[Batch])
    /\ IF crit.who = "lane" THEN run' = None /\ pc' = "idle" /\ worker' = "none" /\ seen' = {} ELSE UNCHANGED lane
    /\ cancelled' = cancelled \ {Batch}
    /\ UNCHANGED <<jobFile, output, journal, frozen, job, pending, queue>>

-----------------------------------------------------------------------------
(* The service exits; the next one recovers before it does anything else.   *)

Crash ==
    /\ crashes < MaxCrashes /\ crashes' = crashes + 1 /\ UNCHANGED faults
    /\ record' = [b \in Batches |-> "none"] /\ items' = [b \in Batches |-> [i \in Items |-> "none"]]
    /\ job' = [b \in Batches |-> [i \in Items |-> "none"]] /\ pending' = [b \in Batches |-> {}]
    /\ queue' = <<>> /\ run' = None /\ pc' = "idle" /\ worker' = "none" /\ seen' = {}
    /\ cancelled' = {}
    /\ Enter(Section("start", "jobs", None, {}, "none"))
    /\ UNCHANGED <<disk, frozen, told>>

\* load_for_recovery: batches that were committed and whose chain is valid.
Loaded == {b \in Chained(file, copies) : file[b] # "absent"}

\* _recover: jobs of no batch are ended and their files removed; a job whose
\* record cannot be written is not loaded.
RecoverJobs ==
    /\ Holds("jobs") /\ crit.who = "start"
    /\ \E written \in SUBSET {j \in Batches \X Items : j[1] \notin Loaded /\ jobFile[j[1]][j[2]] \in Active} :
          /\ \/ written = {j \in Batches \X Items : j[1] \notin Loaded /\ jobFile[j[1]][j[2]] \in Active} /\ NoFault
             \/ Fault
          /\ jobFile' = [b \in Batches |-> [i \in Items |-> IF <<b, i>> \in written THEN "failed" ELSE jobFile[b][i]]]
          /\ output' = [b \in Batches |-> [i \in Items |->
                          IF b \notin Loaded /\ jobFile[b][i] \in Active THEN "none" ELSE output[b][i]]]
    /\ job' = [b \in Batches |-> [i \in Items |->
                 IF b \in Loaded /\ jobFile[b][i] = "absent" THEN copies[b][i]
                 ELSE IF jobFile'[b][i] = "absent" \/ (b \notin Loaded /\ jobFile'[b][i] \in Active)
                   THEN "none" ELSE jobFile'[b][i]]]
    /\ record' = [b \in Batches |-> IF b \in Loaded THEN file[b] ELSE "none"]
    /\ items' = [b \in Batches |-> IF b \in Loaded THEN job'[b] ELSE [i \in Items |-> "none"]]
    /\ told' = [b \in Batches |-> told[b] \cup {i \in Items : items'[b][i] = "complete"}]
    /\ Enter(Section("start", "replay", None, {}, "none"))
    /\ UNCHANGED <<file, copies, journal, frozen, pending, queue, lane, cancelled>>

Interrupted(b) ==
    record[b] # "none" /\ (record[b] \in Active \/ \E i \in members[b] : items[b][i] \in Active)

\* recover: the next batch that has not ended, or the end of the recovery.
RecoverNext ==
    /\ Holds("replay") /\ crit.batch = None
    /\ \/ \E b \in Batches :
             /\ Interrupted(b) /\ Enter(Section("start", "replay", b, journal[b], "failed"))
       \/ (\A b \in Batches : ~Interrupted(b)) /\ Leave
    /\ UNCHANGED <<disk, frozen, memory, queue, lane, cancelled, told, bounds>>

\* _replay_completions: a failed write does not stop it, a bad event does.
Replay ==
    /\ Holds("replay") /\ crit.batch # None
    /\ \/ /\ crit.todo # {} /\ Known(Batch, Item) /\ job' = [job EXCEPT ![Batch][Item] = "complete"]
          /\ Enter([crit EXCEPT !.todo = @ \ {Item}]) /\ NoFault /\ UNCHANGED <<jobFile, pending>>
       \/ /\ crit.todo # {} /\ ~Known(Batch, Item) /\ Valid(Batch, Item)
          /\ \/ JobSaved(Batch, Item, "complete") /\ UNCHANGED pending
             \/ KeepPending(Batch, Item)
          /\ Enter([crit EXCEPT !.todo = @ \ {Item}])
       \/ /\ crit.todo # {} => ~Known(Batch, Item) /\ ~Valid(Batch, Item)
          /\ Enter(Section("start", "clean", Batch, members[Batch], "failed"))
          /\ NoFault /\ UNCHANGED <<jobFile, job, pending>>
    /\ UNCHANGED <<file, copies, output, journal, frozen, record, items, queue, lane, cancelled, told>>

-----------------------------------------------------------------------------
Client ==
    \/ \E b \in Batches : Submit(b) \/ Cancel(b)
    \/ \E b, parent \in Batches, key \in Keys, mode \in {"failed", "unfinished"} : Retry(b, parent, key, mode)
Locked ==
    \/ SubmitJob \/ Commit \/ Rollback \/ Sample \/ CompleteItem \/ SaveRecord \/ VerifyItems
    \/ SaveComplete \/ CleanItem \/ EndItem \/ EndBatch \/ RecoverJobs \/ RecoverNext \/ Replay
Lane == Take \/ Prepare \/ Dispatch \/ ConsumeStep \/ Consume \/ Returned \/ Verify \/ Except
Worker == Render \/ WorkerEnds

Next == Client \/ Locked \/ Lane \/ Worker \/ Crash

Spec == Init /\ [][Next]_vars
FairSpec == Spec /\ WF_vars(Locked) /\ WF_vars(Lane)
-----------------------------------------------------------------------------
(* Properties.                                                              *)

DiskType ==
    /\ file \in [Batches -> Saved]
    /\ copies \in [Batches -> Records]
    /\ jobFile \in [Batches -> Files]
    /\ output \in [Batches -> Outputs] /\ journal \in [Batches -> SUBSET Items]
    /\ members \in [Batches -> SUBSET Items] /\ origin \in [Batches -> Origins \cup {None}]

MemoryType ==
    /\ record \in [Batches -> Values]
    /\ items \in [Batches -> Records]
    /\ job \in [Batches -> Records]
    /\ pending \in [Batches -> SUBSET Items] /\ told \in [Batches -> SUBSET Items]
    /\ faults \in Nat /\ crashes \in Nat

LaneType ==
    /\ queue \in Seq(Batches) /\ cancelled \in SUBSET Batches /\ seen \in SUBSET Items
    /\ run \in Batches \cup {None} /\ (run = None <=> pc = "idle") /\ worker \in {"none", "run", "ok", "failed"}
    /\ pc \in {"idle", "prepare", "native", "render", "drain", "verify", "except", "finish"}

\* The lock is held by one section, that of the lane while it ends its batch.
LockType ==
    /\ crit \in Held \cup {None}
    /\ pc = "finish" <=> (crit # None /\ crit.who = "lane" /\ crit.what \in {"clean", "end"})

TypeOK == DiskType /\ MemoryType /\ LaneType /\ LockType

\* What a client saw complete stays: neither a cancellation, nor an error,
\* nor a restart removes the image or the means to find it complete again
\* (identity_batches.py:392-435, 572-615, 671-708).  This holds of the batches
\* that a start loads: see ConfirmedStays.
Confirmed(b) == \A i \in told[b] : output[b][i] = "whole" /\ (jobFile[b][i] = "complete" \/ i \in journal[b])
SeenStays == \A b \in Batches : record[b] # "none" \/ b \in Chained(file, copies) => Confirmed(b)

\* "A finished image that was confirmed must not be deleted by a batch
\* cancellation or recovery" (2026-09-20-identity-profiles-batches-
\* design.md:57).
ConfirmedStays == \A b \in Batches : Confirmed(b)

\* A batch is complete on disk only when each of its images and job records
\* is (531-570).
CompleteIsWhole ==
    \A b \in Batches : file[b] = "complete" =>
        \A i \in members[b] : output[b][i] = "whole" /\ jobFile[b][i] = "complete"

\* Every accepted batch ends, and with it the callers of cancel that wait for
\* it, whatever fails (531-628).
Settles == \A b \in Batches : (record[b] = "queued") ~> (record[b] \in Terminal \cup {"none"})

\* The batches on disk keep the promises of BatchPromise: accepted in one
\* step, retried once per key, finished images never lost, outcomes final.
Promise == INSTANCE BatchPromise WITH
    batch <- [b \in Batches |-> IF file[b] = "absent" THEN "none"
                                ELSE IF file[b] \in Active THEN "active" ELSE file[b]],
    done <- [b \in Batches |-> {i \in members[b] : jobFile[b][i] = "complete"}]
PromiseKept == Promise!Spec
=============================================================================
