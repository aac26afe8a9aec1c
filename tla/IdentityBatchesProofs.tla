------------------------ MODULE IdentityBatchesProofs ------------------------
(***************************************************************************)
(* The safety properties of IdentityBatches and its refinement of          *)
(* BatchPromise, for any number of batches, images, keys, failed writes    *)
(* and exits of the service.                                               *)
(***************************************************************************)
EXTENDS IdentityBatches, WellFoundedInduction, TLAPS

-----------------------------------------------------------------------------
(* The inductive invariant.                                                 *)

By(who) == crit # None /\ crit.who = who
On(b) == crit # None /\ crit.batch = b
Queued(b) == \E n \in DOMAIN queue : queue[n] = b
Placed(b) == b = run \/ Queued(b)

\* Records and files hold states of the members of a batch and of nothing else.
OfMembers ==
    \A b \in Batches : \A i \in Items \ members[b] :
        /\ copies[b][i] = "none" /\ items[b][i] = "none" /\ job[b][i] = "none"
        /\ jobFile[b][i] = "absent" /\ output[b][i] = "none"
        /\ i \notin journal[b] /\ i \notin pending[b] /\ i \notin told[b]

\* A batch that was not accepted has left nothing but job files; one that is
\* not in memory has nothing there.
Unsubmitted == \A b \in Batches : members[b] = {} => origin[b] = None /\ file[b] = "absent"
Unaccepted ==
    \A b \in Batches : file[b] = "absent" =>
        /\ record[b] = "none" /\ told[b] = {} /\ journal[b] = {}
        /\ \A i \in Items : copies[b][i] = "none" /\ jobFile[b][i] # "complete"
Unloaded == \A b \in Batches : record[b] = "none" => pending[b] = {} /\ \A i \in Items : items[b][i] = "none"
Stated ==
    \A b \in Batches : \A i \in members[b] :
        /\ record[b] # "none" => items[b][i] # "none" /\ job[b][i] # "none"
        /\ file[b] # "absent" => copies[b][i] # "none"

\* The parent of a retry has ended, with the images that are tried again
\* unfinished at the time; one of them may be found finished later.
Sourced ==
    \A c \in Batches : origin[c] # None => LET p == origin[c].parent IN
        /\ file[p] \in Terminal /\ record[p] \in Terminal \cup {"none"} /\ members[c] \subseteq members[p]
        /\ \A i \in members[c] :
              copies[p][i] \in Terminal /\ (origin[c].mode = "failed" => copies[p][i] \in {"failed", "complete"})

\* Memory agrees with the job files, but for completions that wait for theirs.
Pended == \A b \in Batches : \A i \in pending[b] : job[b][i] = "complete"
Agreeing ==
    \A b \in Batches : record[b] # "none" => \A i \in members[b] :
        /\ jobFile[b][i] = "complete" => job[b][i] = "complete"
        /\ job[b][i] = "complete" => jobFile[b][i] = "complete" \/ i \in pending[b]

\* Only what is complete is told, and only what is told is saved as complete.
Telling ==
    \A b \in Batches : \A i \in Items : copies[b][i] = "complete" \/ items[b][i] = "complete" => i \in told[b]

\* A complete batch stays as it is.
Whole ==
    \A b \in Batches : file[b] = "complete" =>
        /\ \A i \in members[b] : jobFile[b][i] = "complete"
        /\ record[b] # "none" => record[b] = "complete" /\ \A i \in members[b] : items[b][i] = "complete"

\* An image that counts as finished, and all before it, can be found again.
Firm(b, i) == output[b][i] = "whole" /\ (jobFile[b][i] = "complete" \/ i \in journal[b])
Claimed(b, i) == i \in told[b] \/ jobFile[b][i] = "complete" \/ (record[b] # "none" /\ job[b][i] = "complete")
UpTo(b, i) == {j \in members[b] : j <= i}
Kept(b) == record[b] # "none" \/ b \in Chained(file, copies)

Durable == \A b \in Batches : \A i \in Items : jobFile[b][i] = "complete" => output[b][i] = "whole"
Journaled == \A b \in Batches : \A i \in journal[b] : jobFile[b][i] # "absent"
Firmly == \A b \in Batches : Kept(b) => \A i \in members[b] : Claimed(b, i) => \A j \in UpTo(b, i) : Firm(b, j)

\* A batch that waits or runs is active, in memory and on disk, and its job
\* files are there; so is one that is being ended.
Going(b) == record[b] \in Active /\ file[b] \in Active /\ \A i \in members[b] : jobFile[b][i] # "absent"
Alive == \A b \in Batches : Placed(b) => Going(b)
Queueing ==
    /\ \A m, n \in DOMAIN queue : queue[m] = queue[n] => m = n
    /\ \A n \in DOMAIN queue : queue[n] # run
Fresh ==
    \A b \in Batches : Queued(b) \/ (b = run /\ pc \in {"prepare", "native", "render", "verify"}) => pending[b] = {}

\* The lane has consumed events of its batch only, and no other has a worker.
Seeing == IF run = None THEN worker = "none" ELSE seen \subseteq journal[run]

\* What each section of the lock is about.
Shape == crit # None =>
    /\ crit.what = "jobs" => crit.who = "submit" \/ (crit.who = "start" /\ crit.batch = None)
    /\ crit.what \in {"commit", "rollback"} => crit.who = "submit"
    /\ crit.what \in {"sample", "record", "item"} =>
          crit.who = "lane" /\ run # None /\ crit.batch = run /\ \E i \in members[run] : crit.todo = {i}
    /\ crit.what = "sample" => pc = "render" /\ \A i \in crit.todo : job[run][i] = "queued"
    /\ crit.what \in {"record", "item"} => pc \in {"render", "drain"}
    /\ crit.what = "item" => crit.todo \subseteq journal[run]
    /\ crit.what = "record" => \A i \in crit.todo : i \in journal[run] \/ job[run][i] = "sampling"
    /\ crit.what \in {"verify", "save"} => crit.who = "lane" /\ run # None /\ crit.batch = run /\ pc = "verify"
    /\ crit.what = "save" => \A i \in members[run] : job[run][i] = "complete"
    /\ crit.what = "replay" => crit.who = "start"
    /\ crit.what \in {"clean", "end"} =>
          /\ crit.batch # None /\ crit.todo \subseteq members[crit.batch] /\ crit.outcome \in {"failed", "cancelled"}
          /\ crit.who = "lane" => crit.batch = run
          /\ \A i \in members[crit.batch] \ crit.todo : job[crit.batch][i] \in {"complete", crit.outcome}
    /\ crit.what = "end" => crit.todo # {} /\ job[crit.batch][First(crit.todo)] # "complete"
    /\ crit.who = "submit" => crit.batch # None
    /\ crit.who = "queue" => crit.batch # None /\ crit.what \in {"clean", "end"}

\* A submission starts from nothing and has written job files at most.
Submitting ==
    By("submit") /\ crit.what \in {"jobs", "commit", "rollback"} => LET b == crit.batch IN
        /\ members[b] # {} /\ crit.todo \subseteq members[b] /\ ~Placed(b)
        /\ told[b] = {} /\ journal[b] = {}
        /\ \A i \in Items : jobFile[b][i] \in {"absent", "queued"} /\ output[b][i] = "none"
                            /\ job[b][i] \in {"none", "queued"} /\ copies[b][i] \in {"none", "queued"}
        /\ crit.what \in {"jobs", "commit"} => file[b] = "absent"
        /\ crit.what = "jobs" => \A i \in members[b] \ crit.todo : jobFile[b][i] = "queued"
        /\ crit.what = "commit" => \A i \in members[b] : jobFile[b][i] = "queued"
        /\ crit.what = "rollback" => record[b] \in {"none", "queued"} /\ file[b] \in {"absent", "queued"} /\ crit.todo # {}
        /\ crit.what = "rollback" /\ record[b] # "none" => file[b] = "queued" /\ origin[b] = None
Reserving ==
    By("submit") /\ crit.what \in {"jobs", "commit"} /\ origin[crit.batch] # None =>
        LET from == origin[crit.batch] IN
        /\ \A r \in Batches : ~Reserved(r, from.parent, from.key)
        /\ \A i \in members[crit.batch] : jobFile[from.parent][i] # "complete"

\* A batch that a caller ends is not the lane's.
Ending ==
    crit # None /\ crit.what \in {"clean", "end"} /\ crit.who \in {"submit", "queue"} =>
        Going(crit.batch) /\ ~Placed(crit.batch)

\* The service does nothing else while it starts.
Starting ==
    By("start") =>
        /\ queue = <<>> /\ run = None /\ cancelled = {}
        /\ crit.what = "jobs" => \A b \in Batches : record[b] = "none" /\ \A i \in Items : job[b][i] = "none"
        /\ crit.batch # None => crit.what \in {"replay", "clean", "end"} /\ Interrupted(crit.batch)
        /\ crit.what \in {"clean", "end"} => crit.outcome = "failed"

\* An ended batch shows its jobs as they are, and they have ended.
Shown ==
    \A b \in Batches : record[b] \in Terminal =>
        /\ ~On(b) => items[b] = job[b]
        /\ ~By("start") => \A i \in members[b] : items[b][i] \in Terminal

\* A batch that is executed or ended knows all that is claimed, and one whose
\* journal is replayed will.
Working(b) ==
    \/ record[b] \in Active /\ ~By("start")
    \/ By("start") /\ On(b) /\ crit.what \in {"clean", "end"}
Knowing == \A b \in Batches : Working(b) =>
    \A i \in members[b] : Claimed(b, i) => \A j \in UpTo(b, i) : job[b][j] = "complete"
Replaying == \A b \in Batches : On(b) /\ crit.what = "replay" =>
    /\ crit.todo \subseteq journal[b]
    /\ \A i \in members[b] : Claimed(b, i) => \A j \in UpTo(b, i) : job[b][j] = "complete" \/ j \in crit.todo

OnRecords ==
    /\ OfMembers /\ Unsubmitted /\ Unaccepted /\ Unloaded /\ Stated /\ Sourced /\ Pended /\ Agreeing /\ Telling
    /\ Whole /\ Durable /\ Journaled /\ Firmly
OnLane == Alive /\ Queueing /\ Fresh /\ Seeing
OnLock == Shape /\ Submitting /\ Reserving /\ Ending /\ Starting /\ Shown /\ Knowing /\ Replaying

IInv == TypeOK /\ OnRecords /\ OnLane /\ OnLock

-----------------------------------------------------------------------------
(* Facts about the operators.                                               *)

\* Every set of natural numbers that is not empty has a least element.
LEMMA LeastExists ==
  ASSUME NEW S \in SUBSET Nat, S # {}
  PROVE  \E i \in S : \A j \in S : i <= j
<1>1. IsWellFoundedOn(OpToRel(<, Nat), Nat)
  BY NatLessThanWellFounded
<1> DEFINE R == {ss \in Nat \X Nat : ss[1] < ss[2]}
<1>2. IsWellFoundedOn(R, Nat)
  BY <1>1 DEF OpToRel
<1> HIDE DEF R
<1>3. \E x \in S : \A y \in S : ~ (<<y, x>> \in R)
  BY <1>2, WFMin, Zenon
<1>4. PICK i \in S : \A j \in S : <<j, i>> \notin R
  BY <1>3
<1>5. ASSUME NEW j \in S PROVE i <= j
  <2>1. i \in Nat /\ j \in Nat
    OBVIOUS
  <2>2. j < i => <<j, i>> \in R
    BY <2>1 DEF R
  <2> QED
    BY <1>4, <2>1, <2>2
<1> QED
  BY <1>5

LEMMA FirstIn ==
  ASSUME NEW S \in SUBSET Items, S # {}
  PROVE  First(S) \in S /\ First(S) \in Items /\ \A j \in S : First(S) <= j
<1>1. \E i \in S : \A j \in S : i <= j
  BY LeastExists, BatchAssumption
<1> QED
  BY <1>1 DEF First

-----------------------------------------------------------------------------
(* Types.                                                                   *)

LEMMA SectionIs ==
  ASSUME NEW w \in Owners, NEW x \in Sections, NEW b \in Batches \cup {None}, NEW t \in SUBSET Items,
         NEW o \in {"none", "failed", "cancelled"}
  PROVE  /\ Section(w, x, b, t, o) \in Held /\ Section(w, x, b, t, o) # None
         /\ Section(w, x, b, t, o).who = w /\ Section(w, x, b, t, o).what = x /\ Section(w, x, b, t, o).batch = b
         /\ Section(w, x, b, t, o).todo = t /\ Section(w, x, b, t, o).outcome = o
  BY BatchAssumption DEF Section, Held

LEMMA HeldIs ==
  ASSUME NEW c \in Held
  PROVE  /\ c # None /\ c.who \in Owners /\ c.what \in Sections /\ c.batch \in Batches \cup {None}
         /\ c.todo \in SUBSET Items /\ c.outcome \in {"none", "failed", "cancelled"}
  BY BatchAssumption DEF Held

LEMMA HeldWhat ==
  ASSUME NEW c \in Held, NEW x \in Sections
  PROVE  /\ [c EXCEPT !.what = x] \in Held /\ [c EXCEPT !.what = x] # None /\ [c EXCEPT !.what = x].who = c.who
         /\ [c EXCEPT !.what = x].what = x /\ [c EXCEPT !.what = x].batch = c.batch
         /\ [c EXCEPT !.what = x].todo = c.todo /\ [c EXCEPT !.what = x].outcome = c.outcome
  BY BatchAssumption DEF Held

LEMMA HeldTodo ==
  ASSUME NEW c \in Held, NEW t \in SUBSET Items
  PROVE  /\ [c EXCEPT !.todo = t] \in Held /\ [c EXCEPT !.todo = t] # None /\ [c EXCEPT !.todo = t].who = c.who
         /\ [c EXCEPT !.todo = t].what = c.what /\ [c EXCEPT !.todo = t].batch = c.batch
         /\ [c EXCEPT !.todo = t].todo = t /\ [c EXCEPT !.todo = t].outcome = c.outcome
  BY BatchAssumption DEF Held

\* Rows of a record or of files, one state for each item.
LEMMA RowPut ==
  /\ \A r \in Records : \A i \in Items : \A v \in Values : [r EXCEPT ![i] = v] \in Records
  /\ \A r \in Files : \A i \in Items : \A v \in Saved : [r EXCEPT ![i] = v] \in Files
  /\ \A r \in Outputs : \A i \in Items : \A v \in {"none", "whole"} : [r EXCEPT ![i] = v] \in Outputs
  BY DEF Records, Files, Outputs

LEMMA RowGet ==
  /\ \A r \in Records : \A i \in Items : r[i] \in Values
  /\ \A r \in Files : \A i \in Items : r[i] \in Saved
  /\ \A r \in Outputs : \A i \in Items : r[i] \in {"none", "whole"}
  BY DEF Records, Files, Outputs

LEMMA RowOf ==
  /\ \A b : \A v \in Values : States(b, v) \in Records
  /\ \A v \in Values : [i \in Items |-> v] \in Records
  BY DEF Records, States, Values

LEMMA Words ==
  /\ Terminal \subseteq Values /\ Active \subseteq Values /\ "none" \in Values
  /\ Terminal \subseteq Saved /\ Active \subseteq Saved /\ "absent" \in Saved
  /\ "queued" \in Active /\ "preparing" \in Active /\ "sampling" \in Active
  /\ "complete" \in Terminal /\ "failed" \in Terminal /\ "cancelled" \in Terminal
  BY DEF Values, Saved, Terminal, Active

\* g is f with a state put in for an item, or a row for a batch.
Put(g, f, b, i, v) == \A c \in Batches : \A j \in Items : g[c][j] = IF c = b /\ j = i THEN v ELSE f[c][j]
Row(g, f, b, h) == \A c \in Batches : g[c] = IF c = b THEN h ELSE f[c]

LEMMA PutFile ==
  ASSUME jobFile \in [Batches -> Files], NEW b \in Batches, NEW i \in Items, NEW v \in Saved,
         jobFile' = [jobFile EXCEPT ![b][i] = v]
  PROVE  (jobFile \in [Batches -> Files])' /\ Put(jobFile', jobFile, b, i, v)
<1>1. [jobFile[b] EXCEPT ![i] = v] \in Files
  BY RowPut
<1>2. \A j \in Items : [jobFile[b] EXCEPT ![i] = v][j] = IF j = i THEN v ELSE jobFile[b][j]
  BY DEF Files
<1> QED
  BY <1>1, <1>2 DEF Put

LEMMA PutJob ==
  ASSUME job \in [Batches -> Records], NEW b \in Batches, NEW i \in Items, NEW v \in Values,
         job' = [job EXCEPT ![b][i] = v]
  PROVE  (job \in [Batches -> Records])' /\ Put(job', job, b, i, v)
<1>1. [job[b] EXCEPT ![i] = v] \in Records
  BY RowPut
<1>2. \A j \in Items : [job[b] EXCEPT ![i] = v][j] = IF j = i THEN v ELSE job[b][j]
  BY DEF Records
<1> QED
  BY <1>1, <1>2 DEF Put

LEMMA PutOutput ==
  ASSUME output \in [Batches -> Outputs], NEW b \in Batches, NEW i \in Items, NEW v \in {"none", "whole"},
         output' = [output EXCEPT ![b][i] = v]
  PROVE  (output \in [Batches -> Outputs])' /\ Put(output', output, b, i, v)
<1>1. [output[b] EXCEPT ![i] = v] \in Outputs
  BY RowPut
<1>2. \A j \in Items : [output[b] EXCEPT ![i] = v][j] = IF j = i THEN v ELSE output[b][j]
  BY DEF Outputs
<1> QED
  BY <1>1, <1>2 DEF Put

LEMMA Subject ==
  ASSUME TypeOK, crit # None
  PROVE  /\ crit \in Held /\ crit.who \in Owners /\ crit.what \in Sections /\ Batch \in Batches \cup {None}
         /\ crit.todo \in SUBSET Items /\ crit.outcome \in {"none", "failed", "cancelled"}
         /\ crit.todo # {} => Item \in Items /\ Item \in crit.todo /\ \A j \in crit.todo : Item <= j
  BY FirstIn, HeldIs DEF TypeOK, LockType, Batch, Item


\* What the values of a record are.
LEMMA Cells ==
  ASSUME TypeOK
  PROVE  /\ \A b \in Batches : /\ members[b] \subseteq Items /\ journal[b] \subseteq Items
                               /\ pending[b] \subseteq Items /\ told[b] \subseteq Items
                               /\ record[b] \in Values /\ file[b] \in Saved
                               /\ origin[b] # None => origin[b].parent \in Batches
         /\ \A b \in Batches : \A i \in Items : /\ job[b][i] \in Values /\ items[b][i] \in Values /\ copies[b][i] \in Values
                                                /\ jobFile[b][i] \in Saved /\ output[b][i] \in {"none", "whole"}
<1>1. \A b \in Batches : /\ members[b] \subseteq Items /\ journal[b] \subseteq Items
                         /\ pending[b] \subseteq Items /\ told[b] \subseteq Items
                         /\ record[b] \in Values /\ file[b] \in Saved
  BY DEF TypeOK, DiskType, MemoryType
<1>2. \A b \in Batches : origin[b] # None => origin[b].parent \in Batches
  BY DEF TypeOK, DiskType, Origins
<1>3. \A b \in Batches : job[b] \in Records /\ items[b] \in Records /\ copies[b] \in Records
                         /\ jobFile[b] \in Files /\ output[b] \in Outputs
  BY DEF TypeOK, DiskType, MemoryType
<1> QED
  BY <1>1, <1>2, <1>3, RowGet

\* What does not depend on the lane or on the lock.
LEMMA RecordsStay ==
  ASSUME OnRecords,
         UNCHANGED <<file, copies, jobFile, output, journal, origin, members, record, items, job, pending, told>>
  PROVE  OnRecords'
<1>1. OfMembers' /\ Unsubmitted' /\ Unaccepted' /\ Unloaded' /\ Stated'
  BY DEF OnRecords, OfMembers, Unsubmitted, Unaccepted, Unloaded, Stated
<1>2. Sourced' /\ Pended' /\ Agreeing' /\ Telling' /\ Whole' /\ Durable' /\ Journaled'
  BY DEF OnRecords, Sourced, Pended, Agreeing, Telling, Whole, Durable, Journaled
<1>3. Firmly'
  BY DEF OnRecords, Firmly, Kept, Chained, Lineage, Claimed, UpTo, Firm
<1> QED
  BY <1>1, <1>2, <1>3 DEF OnRecords

-----------------------------------------------------------------------------
(* The invariant holds at first.                                            *)

LEMMA InitHolds ==
  ASSUME Init
  PROVE  IInv
<1>1. /\ \A b \in Batches : /\ file[b] = "absent" /\ record[b] = "none" /\ origin[b] = None /\ members[b] = {}
                            /\ journal[b] = {} /\ pending[b] = {} /\ told[b] = {}
      /\ \A b \in Batches : \A i \in Items : /\ copies[b][i] = "none" /\ items[b][i] = "none" /\ job[b][i] = "none"
                                             /\ jobFile[b][i] = "absent" /\ output[b][i] = "none"
      /\ queue = <<>> /\ run = None /\ worker = "none" /\ pc = "idle" /\ crit = None /\ cancelled = {}
  BY DEF Init
<1>2. DiskType
  <2>1. /\ [i \in Items |-> "none"] \in Records /\ [i \in Items |-> "absent"] \in Files
        /\ [i \in Items |-> "none"] \in Outputs
    BY DEF Records, Files, Outputs, Values, Saved
  <2> QED
    BY <2>1, Words DEF Init, DiskType
<1>3. MemoryType
  <2>1. [i \in Items |-> "none"] \in Records
    BY DEF Records, Values
  <2> QED
    BY <2>1, Words DEF Init, MemoryType
<1>4. LaneType /\ LockType
  BY DEF Init, LaneType, LockType
<1>5. OnRecords
  <2>1. OfMembers /\ Unsubmitted /\ Unaccepted /\ Unloaded /\ Stated
    BY <1>1 DEF OfMembers, Unsubmitted, Unaccepted, Unloaded, Stated
  <2>2. Sourced /\ Pended /\ Agreeing /\ Telling /\ Whole
    BY <1>1 DEF Sourced, Pended, Agreeing, Telling, Whole
  <2>3. Durable /\ Journaled
    BY <1>1 DEF Durable, Journaled
  <2>4. Firmly
    BY <1>1 DEF Firmly
  <2> QED
    BY <2>1, <2>2, <2>3, <2>4 DEF OnRecords
<1>6. OnLane
  <2>1. DOMAIN queue = {}
    BY <1>1
  <2> QED
    BY <1>1, <2>1, BatchAssumption DEF OnLane, Alive, Placed, Queued, Queueing, Fresh, Seeing
<1>7. OnLock
  <2>1. Shape /\ Submitting /\ Reserving /\ Ending /\ Starting
    BY <1>1 DEF Shape, Submitting, Reserving, Ending, Starting, By
  <2>2. Shown
    BY <1>1 DEF Shown, Terminal
  <2>3. Knowing /\ Replaying
    BY <1>1 DEF Knowing, Replaying, Working, On, By, Active
  <2> QED
    BY <2>1, <2>2, <2>3 DEF OnLock
<1> QED
  BY <1>2, <1>3, <1>4, <1>5, <1>6, <1>7 DEF IInv, TypeOK

-----------------------------------------------------------------------------
(* Steps of the lane and of its worker that write no record.                *)

\* What the lock says of the records, when only the lane moves.
LEMMA LockStays ==
  ASSUME OnLock, UNCHANGED <<file, copies, jobFile, output, journal, origin, members, record, items, job, pending, told>>,
         UNCHANGED crit
  PROVE  Reserving' /\ Shown' /\ Knowing' /\ Replaying'
<1>1. Reserving' /\ Shown'
  BY DEF OnLock, Reserving, Shown, By, On, Reserved
<1>2. Knowing' /\ Replaying'
  BY DEF OnLock, Knowing, Replaying, Working, By, On, Claimed, UpTo
<1> QED
  BY <1>1, <1>2

LEMMA QueueHead ==
  ASSUME queue \in Seq(Batches), queue # <<>>
  PROVE  /\ Head(queue) \in Batches /\ Head(queue) = queue[1] /\ 1 \in DOMAIN queue
         /\ Tail(queue) \in Seq(Batches)
         /\ \A n \in DOMAIN Tail(queue) : n + 1 \in DOMAIN queue /\ Tail(queue)[n] = queue[n + 1] /\ n \in Nat /\ n + 1 # 1
         /\ \A n \in DOMAIN queue : n # 1 => n - 1 \in DOMAIN Tail(queue) /\ queue[n] = Tail(queue)[n - 1]
  OBVIOUS

LEMMA TakeStep ==
  ASSUME IInv, Take
  PROVE  IInv'
<1>0. TypeOK /\ OnRecords /\ OnLane /\ OnLock
  BY DEF IInv
<1>1. /\ pc = "idle" /\ run = None /\ queue # <<>> /\ run' = Head(queue) /\ queue' = Tail(queue)
      /\ pc' = "prepare" /\ worker' = "none" /\ seen' = {}
      /\ UNCHANGED <<file, copies, jobFile, output, journal, origin, members, record, items, job, pending, told>>
      /\ UNCHANGED <<cancelled, crit, faults, crashes>>
  BY <1>0 DEF Take, disk, frozen, memory, bounds, TypeOK, LaneType
<1>2. /\ Head(queue) \in Batches /\ Head(queue) = queue[1] /\ 1 \in DOMAIN queue /\ Tail(queue) \in Seq(Batches)
      /\ \A n \in DOMAIN queue' : n + 1 \in DOMAIN queue /\ queue'[n] = queue[n + 1] /\ n \in Nat /\ n + 1 # 1
      /\ \A n \in DOMAIN queue : n # 1 => n - 1 \in DOMAIN queue' /\ queue[n] = queue'[n - 1]
  BY <1>0, <1>1, QueueHead DEF TypeOK, LaneType
<1>3. TypeOK'
  <2>1. DiskType' /\ MemoryType'
    BY <1>0, <1>1 DEF TypeOK, DiskType, MemoryType
  <2>2. LaneType'
    BY <1>0, <1>1, <1>2, BatchAssumption DEF TypeOK, LaneType
  <2>3. LockType'
    BY <1>0, <1>1 DEF TypeOK, LockType
  <2> QED
    BY <2>1, <2>2, <2>3 DEF TypeOK
<1>4. OnRecords'
  BY <1>0, <1>1, RecordsStay
<1>5. \A b \in Batches : Placed(b)' <=> Placed(b)
  <2>1. ASSUME NEW b \in Batches PROVE Placed(b)' => Placed(b)
    BY <1>1, <1>2 DEF Placed, Queued
  <2>2. ASSUME NEW b \in Batches PROVE Placed(b) => Placed(b)'
    BY <1>1, <1>2, BatchAssumption DEF Placed, Queued
  <2> QED
    BY <2>1, <2>2
<1>6. OnLane'
  <2>1. Alive'
    BY <1>0, <1>1, <1>5 DEF OnLane, Alive, Going
  <2>2. Queueing'
    <3>1. \A m, n \in DOMAIN queue' : queue'[m] = queue'[n] => m = n
      BY <1>0, <1>2 DEF OnLane, Queueing
    <3>2. \A n \in DOMAIN queue' : queue'[n] # run'
      BY <1>0, <1>1, <1>2 DEF OnLane, Queueing
    <3> QED
      BY <3>1, <3>2 DEF Queueing
  <2>3. Fresh'
    <3>1. \A b \in Batches : Queued(b)' \/ b = run' => Queued(b)
      BY <1>1, <1>2 DEF Queued
    <3> QED
      BY <1>0, <1>1, <3>1 DEF OnLane, Fresh
  <2>4. Seeing'
    BY <1>1, <1>2, BatchAssumption DEF Seeing
  <2> QED
    BY <2>1, <2>2, <2>3, <2>4 DEF OnLane
<1>7. OnLock'
  <2>1. Shape'
    BY <1>0, <1>1, HeldIs, BatchAssumption DEF OnLock, Shape, TypeOK, LockType
  <2>2. Submitting' /\ Ending'
    <3>1. Submitting'
      BY <1>0, <1>1, <1>5, HeldIs DEF OnLock, Submitting, By, TypeOK, LockType, Shape
    <3>2. Ending'
      BY <1>0, <1>1, <1>5, HeldIs DEF OnLock, Ending, Shape, Going, TypeOK, LockType
    <3> QED
      BY <3>1, <3>2
  <2>3. Starting'
    BY <1>0, <1>1 DEF OnLock, Starting, By
  <2>4. Reserving' /\ Shown' /\ Knowing' /\ Replaying'
    BY <1>0, <1>1, LockStays
  <2> QED
    BY <2>1, <2>2, <2>3, <2>4 DEF OnLock
<1> QED
  BY <1>3, <1>4, <1>6, <1>7 DEF IInv

\* A step of the lane or of its worker between two sections of the lock.
LEMMA LaneMoves ==
  ASSUME IInv,
         UNCHANGED <<file, copies, jobFile, output, journal, origin, members, record, items, job, pending, told>>,
         UNCHANGED <<queue, run, seen, cancelled, crit, crashes>>, faults' = faults \/ faults' \in Nat,
         run # None, worker' \in {"none", "run", "ok", "failed"},
         \/ pc' = pc
         \/ /\ pc # "finish" /\ pc' \in {"render", "drain", "verify", "except"}
            /\ crit # None => pc \notin {"render", "drain", "verify"}
            /\ pc' \in {"render", "verify"} => pc \in {"native", "render"}
  PROVE  IInv'
<1>0. TypeOK /\ OnRecords /\ OnLane /\ OnLock
  BY DEF IInv
<1>1. TypeOK'
  <2>1. DiskType' /\ MemoryType'
    BY <1>0 DEF TypeOK, DiskType, MemoryType
  <2>2. LaneType'
    BY <1>0 DEF TypeOK, LaneType
  <2>3. LockType'
    BY <1>0 DEF TypeOK, LockType
  <2> QED
    BY <2>1, <2>2, <2>3 DEF TypeOK
<1>2. OnRecords'
  BY <1>0, RecordsStay
<1>3. \A b \in Batches : Placed(b)' <=> Placed(b)
  BY DEF Placed, Queued
<1>4. OnLane'
  <2>1. Alive'
    BY <1>0, <1>3 DEF OnLane, Alive, Going
  <2>2. Queueing' /\ Seeing'
    BY <1>0 DEF OnLane, Queueing, Seeing
  <2>3. Fresh'
    BY <1>0 DEF OnLane, Fresh, Queued
  <2> QED
    BY <2>1, <2>2, <2>3 DEF OnLane
<1>5. OnLock'
  <2>1. Shape'
    BY <1>0 DEF OnLock, Shape
  <2>2. Submitting'
    BY <1>0, <1>3, HeldIs DEF OnLock, Submitting, By, TypeOK, LockType, Shape
  <2>3. Ending'
    BY <1>0, <1>3, HeldIs DEF OnLock, Ending, Shape, Going, TypeOK, LockType
  <2>4. Starting'
    BY <1>0 DEF OnLock, Starting, By, Interrupted
  <2>5. Reserving' /\ Shown' /\ Knowing' /\ Replaying'
    BY <1>0, LockStays
  <2> QED
    BY <2>1, <2>2, <2>3, <2>4, <2>5 DEF OnLock
<1> QED
  BY <1>1, <1>2, <1>4, <1>5 DEF IInv

LEMMA DispatchStep ==
  ASSUME IInv, Dispatch
  PROVE  IInv'
<1>1. TypeOK /\ Shape
  BY DEF IInv, OnLock
<1>2. run # None
  BY <1>1 DEF Dispatch, TypeOK, LaneType
<1>3. /\ UNCHANGED <<file, copies, jobFile, output, journal, origin, members, record, items, job, pending, told>>
      /\ UNCHANGED <<queue, run, seen, cancelled, crit, faults, crashes>>
      /\ worker' \in {"none", "run", "ok", "failed"} /\ pc = "native" /\ pc' \in {"render", "except"}
  BY DEF Dispatch, Goto, Raise, disk, frozen, memory, bounds
<1> QED
  BY <1>2, <1>3, LaneMoves

LEMMA WorkerEndsStep ==
  ASSUME IInv, WorkerEnds
  PROVE  IInv'
<1>0. run # None
  BY DEF WorkerEnds, IInv, OnLane, Seeing
<1>1. /\ UNCHANGED <<file, copies, jobFile, output, journal, origin, members, record, items, job, pending, told>>
      /\ UNCHANGED <<queue, run, pc, seen, cancelled, crit, faults, crashes>>
      /\ worker' \in {"none", "run", "ok", "failed"}
  BY DEF WorkerEnds, disk, frozen, memory, bounds
<1> QED
  BY <1>0, <1>1, LaneMoves

LEMMA ReturnedStep ==
  ASSUME IInv, Returned
  PROVE  IInv'
<1>1. TypeOK
  BY DEF IInv
<1>2. run # None
  BY <1>1 DEF Returned, TypeOK, LaneType
<1>3. /\ UNCHANGED <<file, copies, jobFile, output, journal, origin, members, record, items, job, pending, told>>
      /\ UNCHANGED <<queue, run, seen, cancelled, crit, faults, crashes>> /\ crit = None
  BY DEF Returned, Goto, Free, disk, frozen, memory, bounds
<1>4. \/ pc = "render" /\ pc' \in {"verify", "drain"}
      \/ pc = "drain" /\ pc' = "except"
  BY DEF Returned, Goto
<1>5. worker' \in {"none", "run", "ok", "failed"}
  BY <1>1 DEF Returned, TypeOK, LaneType
<1> QED
  BY <1>2, <1>3, <1>4, <1>5, LaneMoves

-----------------------------------------------------------------------------
(* Steps that take or pass on the lock and write no record.                 *)

LEMMA LaneEnters ==
  ASSUME IInv,
         UNCHANGED <<file, copies, jobFile, output, journal, origin, members, record, items, job, pending, told>>,
         UNCHANGED <<queue, run, worker, seen, cancelled, faults, crashes>>,
         crit = None, crit' \in Held, crit'.who = "lane", crit'.batch = run, run # None, Shape',
         \/ pc' = pc /\ crit'.what \in {"sample", "item", "verify"}
         \/ pc' = "finish" /\ crit'.what = "clean"
  PROVE  IInv'
<1>0. TypeOK /\ OnRecords /\ OnLane /\ OnLock
  BY DEF IInv
<1>1. TypeOK'
  <2>1. DiskType' /\ MemoryType'
    BY <1>0 DEF TypeOK, DiskType, MemoryType
  <2>2. LaneType'
    BY <1>0 DEF TypeOK, LaneType
  <2>3. LockType'
    BY <1>0, BatchAssumption DEF TypeOK, LockType
  <2> QED
    BY <2>1, <2>2, <2>3 DEF TypeOK
<1>2. OnRecords'
  BY <1>0, RecordsStay
<1>3. OnLane'
  <2>1. Alive' /\ Queueing' /\ Seeing'
    BY <1>0 DEF OnLane, Alive, Going, Placed, Queued, Queueing, Seeing
  <2>2. Fresh'
    BY <1>0 DEF OnLane, Fresh, Queued
  <2> QED
    BY <2>1, <2>2 DEF OnLane
<1>4. OnLock'
  <2>1. Submitting' /\ Reserving' /\ Ending' /\ Starting'
    BY DEF Submitting, Reserving, Ending, Starting, By
  <2>2. Shown'
    BY <1>0 DEF OnLock, Shown, On, By
  <2>3. Knowing'
    BY <1>0 DEF OnLock, Knowing, Working, By, Claimed, UpTo
  <2>4. Replaying'
    BY DEF Replaying, On
  <2> QED
    BY <2>1, <2>2, <2>3, <2>4 DEF OnLock
<1> QED
  BY <1>1, <1>2, <1>3, <1>4 DEF IInv

LEMMA ConsumeStepStep ==
  ASSUME IInv, ConsumeStep
  PROVE  IInv'
<1>0. TypeOK /\ OnLock /\ OfMembers
  BY DEF IInv, OnRecords
<1>1. run # None /\ run \in Batches /\ members[run] \subseteq Items /\ journal[run] \subseteq members[run]
  <2>1. run # None /\ run \in Batches
    BY <1>0 DEF ConsumeStep, TypeOK, LaneType
  <2> QED
    BY <1>0, <2>1, Cells DEF OfMembers
<1>2. /\ UNCHANGED <<file, copies, jobFile, output, journal, origin, members, record, items, job, pending, told>>
      /\ UNCHANGED <<queue, run, pc, worker, seen, cancelled, faults, crashes>>
  BY DEF ConsumeStep, disk, frozen, memory, lane, bounds
<1>3. crit = None /\ pc = "render"
  BY DEF ConsumeStep, Free
<1>4. PICK i \in members[run] : job[run][i] = "queued" /\ crit' = Section("lane", "sample", run, {i}, "none")
  <2>1. members[run] \ seen # {} /\ members[run] \ seen \in SUBSET Items
    BY <1>1 DEF ConsumeStep
  <2>2. First(members[run] \ seen) \in members[run]
    BY <2>1, FirstIn
  <2> QED
    BY <2>2 DEF ConsumeStep, Enter
<1>5. /\ crit' \in Held /\ crit' # None /\ crit'.who = "lane" /\ crit'.what = "sample" /\ crit'.batch = run
      /\ crit'.todo = {i}
  BY <1>1, <1>4, SectionIs DEF Owners, Sections
<1>6. Shape'
  BY <1>1, <1>2, <1>3, <1>4, <1>5 DEF Shape
<1> QED
  BY <1>1, <1>2, <1>3, <1>5, <1>6, LaneEnters

LEMMA ConsumeTakes ==
  ASSUME IInv, Consume
  PROVE  IInv'
<1>0. TypeOK /\ OnLock /\ OfMembers /\ Seeing
  BY DEF IInv, OnRecords, OnLane
<1>1. run # None /\ run \in Batches /\ members[run] \subseteq Items /\ journal[run] \subseteq members[run]
  <2>1. run # None /\ run \in Batches
    BY <1>0 DEF Consume, TypeOK, LaneType
  <2> QED
    BY <1>0, <2>1, Cells DEF OfMembers
<1>2. /\ UNCHANGED <<file, copies, jobFile, output, journal, origin, members, record, items, job, pending, told>>
      /\ UNCHANGED <<queue, run, pc, worker, seen, cancelled, faults, crashes>>
  BY DEF Consume, disk, frozen, memory, lane, bounds
<1>3. crit = None /\ pc \in {"render", "drain"}
  BY DEF Consume, Free
<1>4. PICK i \in journal[run] : crit' = Section("lane", "item", run, {i}, "none")
  <2>1. journal[run] \ seen # {} /\ journal[run] \ seen \in SUBSET Items
    BY <1>0, <1>1 DEF Consume, Seeing
  <2>2. First(journal[run] \ seen) \in journal[run]
    BY <2>1, FirstIn
  <2> QED
    BY <2>2 DEF Consume, Enter
<1>5. /\ crit' \in Held /\ crit' # None /\ crit'.who = "lane" /\ crit'.what = "item" /\ crit'.batch = run
      /\ crit'.todo = {i} /\ i \in members[run]
  BY <1>1, <1>4, SectionIs DEF Owners, Sections
<1>6. Shape'
  BY <1>1, <1>2, <1>3, <1>4, <1>5 DEF Shape
<1> QED
  BY <1>1, <1>2, <1>3, <1>5, <1>6, LaneEnters

LEMMA VerifyStep ==
  ASSUME IInv, Verify
  PROVE  IInv'
<1>0. TypeOK /\ OnLock
  BY DEF IInv
<1>1. run # None /\ run \in Batches /\ members[run] \subseteq Items
  BY <1>0, Cells DEF Verify, TypeOK, LaneType
<1>2. /\ UNCHANGED <<file, copies, jobFile, output, journal, origin, members, record, items, job, pending, told>>
      /\ UNCHANGED <<queue, cancelled, faults, crashes>> /\ crit = None /\ pc = "verify"
  BY DEF Verify, Free, disk, frozen, memory, lane, bounds
<1>3. CASE Enter(Section("lane", "verify", run, members[run], "none")) /\ UNCHANGED lane
  <2>1. /\ crit' \in Held /\ crit' # None /\ crit'.who = "lane" /\ crit'.what = "verify" /\ crit'.batch = run
    BY <1>1, <1>3, SectionIs DEF Owners, Sections, Enter
  <2>2. UNCHANGED <<run, pc, worker, seen>>
    BY <1>3 DEF lane
  <2>3. Shape'
    BY <1>1, <1>2, <2>1, <2>2 DEF Shape
  <2> QED
    BY <1>1, <1>2, <2>1, <2>2, <2>3, LaneEnters
<1>4. CASE Raise /\ UNCHANGED crit
  <2>1. UNCHANGED <<run, seen, crit>> /\ worker' = "none" /\ pc' = "except"
    BY <1>4 DEF Raise, Goto
  <2> QED
    BY <1>1, <1>2, <2>1, LaneMoves
<1> QED
  BY <1>3, <1>4 DEF Verify

LEMMA ExceptStep ==
  ASSUME IInv, Except
  PROVE  IInv'
<1>0. TypeOK /\ OnLock
  BY DEF IInv
<1>1. run # None /\ run \in Batches /\ members[run] \subseteq Items
  BY <1>0, Cells DEF Except, TypeOK, LaneType
<1>2. /\ UNCHANGED <<file, copies, jobFile, output, journal, origin, members, record, items, job, pending, told>>
      /\ UNCHANGED <<queue, run, worker, seen, cancelled, faults, crashes>> /\ crit = None /\ pc' = "finish"
  BY DEF Except, Goto, Free, disk, frozen, memory, bounds
<1>3. PICK o \in {"failed", "cancelled"} : crit' = Section("lane", "clean", run, members[run], o)
  BY DEF Except, Enter
<1>4. /\ crit' \in Held /\ crit' # None /\ crit'.who = "lane" /\ crit'.what = "clean" /\ crit'.batch = run
      /\ crit'.todo = members[run] /\ crit'.outcome \in {"failed", "cancelled"}
  BY <1>1, <1>3, SectionIs DEF Owners, Sections
<1>5. Shape'
  BY <1>1, <1>2, <1>4 DEF Shape
<1> QED
  BY <1>1, <1>2, <1>4, <1>5, LaneEnters

LEMMA QueueWithout ==
  ASSUME queue \in Seq(Batches), NEW n \in DOMAIN queue,
         queue' = [k \in 1..(Len(queue) - 1) |-> queue[IF k < n THEN k ELSE k + 1]]
  PROVE  /\ queue' \in Seq(Batches)
         /\ \A k \in DOMAIN queue' : \E m \in DOMAIN queue : m # n /\ queue'[k] = queue[m] /\ m = IF k < n THEN k ELSE k + 1
         /\ \A m \in DOMAIN queue : m # n => \E k \in DOMAIN queue' : queue'[k] = queue[m]
<1>1. DOMAIN queue = 1..Len(queue) /\ Len(queue) \in Nat /\ n \in 1..Len(queue) /\ DOMAIN queue' = 1..(Len(queue) - 1)
  OBVIOUS
<1>2. ASSUME NEW k \in 1..(Len(queue) - 1)
      PROVE  \E m \in 1..Len(queue) : m # n /\ queue'[k] = queue[m] /\ m = IF k < n THEN k ELSE k + 1
  <2>1. CASE k < n
    <3>1. k \in 1..Len(queue) /\ k # n
      BY <1>1, <2>1
    <3> QED
      BY <2>1, <3>1
  <2>2. CASE ~ (k < n)
    <3>1. k + 1 \in 1..Len(queue) /\ k + 1 # n
      BY <1>1, <2>2
    <3> QED
      BY <2>2, <3>1
  <2> QED
    BY <2>1, <2>2
<1>3. ASSUME NEW m \in 1..Len(queue), m # n
      PROVE  \E k \in 1..(Len(queue) - 1) : queue'[k] = queue[m]
  <2>1. CASE m < n
    <3>1. m \in 1..(Len(queue) - 1)
      BY <1>1, <2>1
    <3> QED
      BY <2>1, <3>1
  <2>2. CASE ~ (m < n)
    <3>1. m - 1 \in 1..(Len(queue) - 1) /\ ~ (m - 1 < n) /\ (m - 1) + 1 = m
      BY <1>1, <1>3, <2>2
    <3> QED
      BY <3>1
  <2> QED
    BY <2>1, <2>2
<1>4. queue' \in Seq(Batches)
  <2>1. \A k \in 1..(Len(queue) - 1) : queue'[k] \in Batches
    BY <1>1, <1>2
  <2> QED
    BY <1>1, <2>1
<1> QED
  BY <1>1, <1>2, <1>3, <1>4

\* Only the set of cancelled batches changes.
LEMMA CancelledMoves ==
  ASSUME IInv, crit = None, cancelled' \in SUBSET Batches,
         UNCHANGED <<file, copies, jobFile, output, journal, origin, members, record, items, job, pending, told>>,
         UNCHANGED <<queue, run, pc, worker, seen, crit, faults, crashes>>
  PROVE  IInv'
<1>0. TypeOK /\ OnRecords /\ OnLane /\ OnLock
  BY DEF IInv
<1>1. TypeOK'
  BY <1>0 DEF TypeOK, DiskType, MemoryType, LaneType, LockType
<1>2. OnRecords'
  BY <1>0, RecordsStay
<1>3. OnLane'
  BY <1>0 DEF OnLane, Alive, Going, Placed, Queued, Queueing, Fresh, Seeing
<1>4. Shape' /\ Submitting' /\ Reserving' /\ Ending' /\ Starting' /\ Replaying'
  BY DEF Shape, Submitting, Reserving, Ending, Starting, Replaying, By, On
<1>5. Shown' /\ Knowing'
  BY <1>0 DEF OnLock, Shown, On, Knowing, Working, By, Claimed, UpTo
<1> QED
  BY <1>1, <1>2, <1>3, <1>4, <1>5 DEF IInv, OnLock

LEMMA CancelStep ==
  ASSUME IInv, NEW b \in Batches, Cancel(b)
  PROVE  IInv'
<1>0. TypeOK /\ OnRecords /\ OnLane /\ OnLock
  BY DEF IInv
<1>1. /\ UNCHANGED <<file, copies, jobFile, output, journal, origin, members, record, items, job, pending, told>>
      /\ UNCHANGED <<run, pc, worker, seen, faults, crashes>> /\ crit = None /\ cancelled' = cancelled \cup {b}
  BY DEF Cancel, Free, disk, frozen, memory, lane, bounds
<1>2. cancelled' \in SUBSET Batches
  BY <1>0, <1>1 DEF TypeOK, LaneType
<1>3. CASE UNCHANGED <<queue, crit>>
  BY <1>1, <1>2, <1>3, CancelledMoves
<1>4. ASSUME NEW n \in DOMAIN queue, queue[n] = b,
             queue' = [k \in 1..(Len(queue) - 1) |-> queue[IF k < n THEN k ELSE k + 1]],
             crit' = Section("queue", "clean", b, members[b], "cancelled")
      PROVE  IInv'
  <2>1. /\ crit' \in Held /\ crit' # None /\ crit'.who = "queue" /\ crit'.what = "clean" /\ crit'.batch = b
        /\ crit'.todo = members[b] /\ crit'.outcome = "cancelled"
    BY <1>0, <1>4, SectionIs, Cells DEF Owners, Sections
  <2>2. /\ queue' \in Seq(Batches)
        /\ \A k \in DOMAIN queue' : \E m \in DOMAIN queue : m # n /\ queue'[k] = queue[m] /\ m = IF k < n THEN k ELSE k + 1
        /\ \A m \in DOMAIN queue : m # n => \E k \in DOMAIN queue' : queue'[k] = queue[m]
    BY <1>0, <1>4, QueueWithout DEF TypeOK, LaneType
  <2>3. ~ Placed(b)' /\ \A c \in Batches : Placed(c)' => Placed(c)
    BY <1>0, <1>1, <1>4, <2>2 DEF Placed, Queued, OnLane, Queueing
  <2>4. TypeOK'
    <3>1. DiskType' /\ MemoryType'
      BY <1>0, <1>1 DEF TypeOK, DiskType, MemoryType
    <3>2. LaneType'
      BY <1>0, <1>1, <1>2, <2>2 DEF TypeOK, LaneType
    <3>3. LockType'
      BY <1>0, <1>1, <2>1 DEF TypeOK, LockType
    <3> QED
      BY <3>1, <3>2, <3>3 DEF TypeOK
  <2>5. OnRecords'
    BY <1>0, <1>1, RecordsStay
  <2>6. OnLane'
    <3>1. Alive'
      BY <1>0, <1>1, <2>3 DEF OnLane, Alive, Going
    <3>2. \A k, m \in DOMAIN queue' : queue'[k] = queue'[m] => k = m
      <4>1. ASSUME NEW k \in DOMAIN queue', NEW m \in DOMAIN queue', queue'[k] = queue'[m]
            PROVE  (IF k < n THEN k ELSE k + 1) = (IF m < n THEN m ELSE m + 1)
        BY <1>0, <2>2, <4>1 DEF OnLane, Queueing
      <4>2. ASSUME NEW k \in DOMAIN queue', NEW m \in DOMAIN queue' PROVE k \in Int /\ m \in Int /\ n \in Int
        BY <1>0, <1>4 DEF TypeOK, LaneType
      <4> QED
        BY <4>1, <4>2
    <3>3. \A k \in DOMAIN queue' : queue'[k] # run'
      BY <1>0, <1>1, <2>2 DEF OnLane, Queueing
    <3>4. Fresh'
      BY <1>0, <1>1, <2>2 DEF OnLane, Fresh, Queued
    <3>5. Seeing'
      BY <1>0, <1>1 DEF OnLane, Seeing
    <3> QED
      BY <3>1, <3>2, <3>3, <3>4, <3>5 DEF OnLane, Queueing
  <2>7. OnLock'
    <3>1. Shape'
      BY <1>1, <2>1, BatchAssumption DEF Shape
    <3>2. Submitting' /\ Reserving' /\ Starting' /\ Replaying'
      BY <2>1 DEF Submitting, Reserving, Starting, Replaying, By, On
    <3>3. Ending'
      <4>1. Going(b)
        BY <1>0, <1>4 DEF OnLane, Alive, Placed, Queued
      <4> QED
        BY <1>1, <2>1, <2>3, <4>1 DEF Ending, Going
    <3>4. Shown'
      BY <1>0, <1>1 DEF OnLock, Shown, On, By
    <3>5. Knowing'
      BY <1>0, <1>1, <2>1 DEF OnLock, Knowing, Working, By, Claimed, UpTo
    <3> QED
      BY <3>1, <3>2, <3>3, <3>4, <3>5 DEF OnLock
  <2> QED
    BY <2>4, <2>5, <2>6, <2>7 DEF IInv
<1> QED
  BY <1>3, <1>4 DEF Cancel, Enter

-----------------------------------------------------------------------------
(* submit and retry.                                                        *)

\* A valid chain was valid before, when no batch but a new one got a parent
\* and no link of a chain became valid.
LEMMA ChainedLess ==
  ASSUME \A c \in Batches : \/ origin[c] = None
                            \/ origin'[c] = origin[c] /\ (Lineage(c, file, copies)' => Lineage(c, file, copies))
  PROVE  Chained(file, copies)' \subseteq Chained(file, copies)
<1>1. ASSUME NEW S \in SUBSET Batches,
             \A c \in S : Lineage(c, file, copies)' /\ (origin'[c] # None => origin'[c].parent \in S)
      PROVE  \A c \in S : Lineage(c, file, copies) /\ (origin[c] # None => origin[c].parent \in S)
  <2>1. ASSUME NEW c \in S, origin[c] = None PROVE Lineage(c, file, copies)
    BY <2>1 DEF Lineage
  <2> QED
    BY <1>1, <2>1
<1> QED
  BY <1>1 DEF Chained

\* A new batch b is given its images and, for a retry, its parent.
LEMMA BatchPrepared ==
  ASSUME IInv, NEW b \in Batches, NEW w \in SUBSET Items, w # {}, NEW o \in Origins \cup {None},
         crit = None, members[b] = {},
         members' = [members EXCEPT ![b] = w], origin' = [origin EXCEPT ![b] = o],
         crit' = Section("submit", "jobs", b, w, "none"),
         UNCHANGED <<file, copies, jobFile, output, journal, record, items, job, pending, told>>,
         UNCHANGED <<queue, run, pc, worker, seen, cancelled, faults, crashes>>,
         o # None =>
            /\ file[o.parent] \in Terminal /\ record[o.parent] \in Terminal /\ w \subseteq members[o.parent]
            /\ \A i \in w : copies[o.parent][i] \in Terminal /\ (o.mode = "failed" => copies[o.parent][i] = "failed")
            /\ \A i \in w : jobFile[o.parent][i] # "complete"
            /\ \A r \in Batches : ~ Reserved(r, o.parent, o.key)
  PROVE  IInv'
<1>0. TypeOK /\ OnRecords /\ OnLane /\ OnLock
  BY DEF IInv
<1>1. /\ crit' \in Held /\ crit' # None /\ crit'.who = "submit" /\ crit'.what = "jobs" /\ crit'.batch = b
      /\ crit'.todo = w
  BY SectionIs DEF Owners, Sections
<1>2. /\ \A c \in Batches : members'[c] = IF c = b THEN w ELSE members[c]
      /\ \A c \in Batches : origin'[c] = IF c = b THEN o ELSE origin[c]
      /\ \A c \in Batches : members[c] \subseteq members'[c]
  BY <1>0 DEF TypeOK, DiskType
<1>3. /\ origin[b] = None /\ file[b] = "absent" /\ record[b] = "none" /\ told[b] = {} /\ journal[b] = {}
      /\ pending[b] = {}
  BY <1>0 DEF OnRecords, Unsubmitted, Unaccepted, Unloaded
<1>4. \A i \in Items : copies[b][i] = "none" /\ items[b][i] = "none" /\ job[b][i] = "none" /\ jobFile[b][i] = "absent"
                       /\ output[b][i] = "none"
  BY <1>0 DEF OnRecords, OfMembers
<1>5. ~ Placed(b)' /\ \A c \in Batches : Placed(c)' <=> Placed(c)
  <2>1. ~ Placed(b)
    BY <1>0, <1>3 DEF OnLane, Alive, Going, Active
  <2> QED
    BY <2>1 DEF Placed, Queued
<1>6. TypeOK'
  <2>1. DiskType'
    BY <1>0 DEF TypeOK, DiskType
  <2>2. MemoryType' /\ LaneType'
    BY <1>0 DEF TypeOK, MemoryType, LaneType
  <2>3. LockType'
    BY <1>0, <1>1 DEF TypeOK, LockType
  <2> QED
    BY <2>1, <2>2, <2>3 DEF TypeOK
<1>7. OnRecords'
  <2>1. OfMembers' /\ Unsubmitted'
    BY <1>0, <1>2, <1>3 DEF OnRecords, OfMembers, Unsubmitted
  <2>2. Unaccepted' /\ Unloaded'
    BY <1>0 DEF OnRecords, Unaccepted, Unloaded
  <2>3. Stated'
    BY <1>0, <1>2, <1>3 DEF OnRecords, Stated
  <2>4. Sourced'
    <3>1. ASSUME NEW c \in Batches, origin'[c] # None
          PROVE  LET p == origin'[c].parent IN
                 /\ file[p] \in Terminal /\ record[p] \in Terminal \cup {"none"} /\ members'[c] \subseteq members'[p]
                 /\ \A i \in members'[c] : copies[p][i] \in Terminal
                                           /\ (origin'[c].mode = "failed" => copies[p][i] \in {"failed", "complete"})
      <4>1. CASE c = b
        <5>1. o \in Origins /\ o.parent \in Batches
          BY <1>2, <3>1, <4>1 DEF Origins
        <5> QED
          BY <1>2, <3>1, <4>1, <5>1
      <4>2. CASE c # b
        <5>1. origin[c] # None /\ origin[c].parent \in Batches
          BY <1>0, <1>2, <3>1, <4>2, Cells
        <5> QED
          BY <1>0, <1>2, <4>2, <5>1 DEF OnRecords, Sourced
      <4> QED
        BY <4>1, <4>2
    <3> QED
      BY <3>1 DEF Sourced
  <2>5. Pended' /\ Telling' /\ Durable' /\ Journaled'
    BY <1>0 DEF OnRecords, Pended, Telling, Durable, Journaled
  <2>6. Agreeing'
    BY <1>0, <1>2, <1>3 DEF OnRecords, Agreeing
  <2>7. Whole'
    BY <1>0, <1>2, <1>3 DEF OnRecords, Whole
  <2>8. Firmly'
    <3>1. \A c \in Batches : c # b => (Lineage(c, file, copies)' => Lineage(c, file, copies))
      BY <1>2 DEF Lineage
    <3>2. Chained(file, copies)' \subseteq Chained(file, copies)
      BY <1>2, <1>3, <3>1, ChainedLess
    <3>3. \A i \in w : ~ Claimed(b, i)
      BY <1>3, <1>4 DEF Claimed
    <3> QED
      BY <1>0, <1>2, <3>2, <3>3 DEF OnRecords, Firmly, Kept, Claimed, UpTo, Firm
  <2> QED
    BY <2>1, <2>2, <2>3, <2>4, <2>5, <2>6, <2>7, <2>8 DEF OnRecords
<1>8. OnLane'
  <2>1. Alive'
    BY <1>0, <1>2, <1>5 DEF OnLane, Alive, Going
  <2>2. Queueing' /\ Fresh' /\ Seeing'
    BY <1>0 DEF OnLane, Queueing, Fresh, Seeing, Queued
  <2> QED
    BY <2>1, <2>2 DEF OnLane
<1>9. OnLock'
  <2>1. Shape'
    BY <1>1, BatchAssumption DEF Shape
  <2>2. Submitting'
    BY <1>1, <1>2, <1>3, <1>4, <1>5 DEF Submitting
  <2>3. Reserving'
    <3>1. ASSUME o # None PROVE o.parent \in Batches /\ o \in Origins
      BY <3>1 DEF Origins
    <3>2. \A r, p, k : Reserved(r, p, k)' => r = b \/ r \notin Batches \/ Reserved(r, p, k)
      BY <1>2 DEF Reserved
    <3>3. \A p, k : ~ Reserved(b, p, k)'
      BY <1>3 DEF Reserved
    <3> QED
      BY <1>1, <1>2, <3>1, <3>2, <3>3 DEF Reserving
  <2>4. Ending' /\ Starting' /\ Replaying'
    BY <1>1 DEF Ending, Starting, Replaying, By, On
  <2>5. Shown'
    BY <1>0, <1>1, <1>2, <1>3 DEF OnLock, Shown, On, By, Terminal
  <2>6. Knowing'
    BY <1>0, <1>1, <1>2, <1>3 DEF OnLock, Knowing, Working, By, Claimed, UpTo, Active
  <2> QED
    BY <2>1, <2>2, <2>3, <2>4, <2>5, <2>6 DEF OnLock
<1> QED
  BY <1>6, <1>7, <1>8, <1>9 DEF IInv

LEMMA SubmitStep ==
  ASSUME IInv, NEW b \in Batches, Submit(b)
  PROVE  IInv'
<1>1. TypeOK /\ OnRecords
  BY DEF IInv
<1>2. members[b] = {}
  BY BatchAssumption DEF Submit, Unused
<1>3. origin' = [origin EXCEPT ![b] = None]
  <2>1. origin[b] = None
    BY <1>1, <1>2 DEF OnRecords, Unsubmitted
  <2> QED
    BY <1>1, <2>1 DEF Submit, TypeOK, DiskType
<1>4. /\ UNCHANGED <<file, copies, jobFile, output, journal, record, items, job, pending, told>>
      /\ UNCHANGED <<queue, run, pc, worker, seen, cancelled, faults, crashes>>
      /\ crit = None /\ members' = [members EXCEPT ![b] = Items]
      /\ crit' = Section("submit", "jobs", b, Items, "none")
  BY DEF Submit, Free, Enter, disk, memory, lane, bounds
<1>5. Items \in SUBSET Items /\ Items # {} /\ None \in Origins \cup {None}
  BY BatchAssumption
<1> QED
  BY <1>2, <1>3, <1>4, <1>5, BatchPrepared

LEMMA RetryStep ==
  ASSUME IInv, NEW b \in Batches, NEW parent \in Batches, NEW key \in Keys, NEW mode \in {"failed", "unfinished"},
         Retry(b, parent, key, mode)
  PROVE  IInv'
<1> DEFINE w == {i \in members[parent] : \/ items[parent][i] = "failed"
                                         \/ mode = "unfinished" /\ items[parent][i] # "complete"}
           o == [parent |-> parent, key |-> key, mode |-> mode]
<1>0. TypeOK /\ OnRecords /\ OnLock
  BY DEF IInv
<1>1. members[b] = {}
  BY BatchAssumption DEF Retry, Unused
<1>2. o \in Origins /\ o # None /\ o.parent = parent /\ o.key = key /\ o.mode = mode
  BY BatchAssumption DEF Origins
<1>3. w \in SUBSET Items /\ w \subseteq members[parent]
  BY <1>0, Cells
<1>4. /\ UNCHANGED <<file, copies, jobFile, output, journal, record, items, job, pending, told>>
      /\ UNCHANGED <<queue, run, pc, worker, seen, cancelled, faults, crashes>>
      /\ crit = None /\ w # {} /\ members' = [members EXCEPT ![b] = w] /\ origin' = [origin EXCEPT ![b] = o]
      /\ crit' = Section("submit", "jobs", b, w, "none")
  BY DEF Retry, Free, Enter, disk, memory, lane, bounds
<1>5. /\ record[parent] \in Terminal /\ file[parent] = record[parent] /\ copies[parent] = items[parent]
      /\ \A r \in Batches : ~ Reserved(r, parent, key)
  BY DEF Retry
<1>6. items[parent] = job[parent] /\ \A i \in members[parent] : items[parent][i] \in Terminal
  BY <1>0, <1>4, <1>5 DEF OnLock, Shown, On, By
<1>7. \A i \in members[parent] : jobFile[parent][i] = "complete" => items[parent][i] = "complete"
  BY <1>0, <1>5, <1>6 DEF OnRecords, Agreeing, Terminal
<1>8. \A i \in w : items[parent][i] # "complete" /\ (mode = "failed" => items[parent][i] = "failed")
  OBVIOUS
<1> HIDE DEF w, o
<1>9. o # None =>
         /\ file[o.parent] \in Terminal /\ record[o.parent] \in Terminal /\ w \subseteq members[o.parent]
         /\ \A i \in w : copies[o.parent][i] \in Terminal /\ (o.mode = "failed" => copies[o.parent][i] = "failed")
         /\ \A i \in w : jobFile[o.parent][i] # "complete"
         /\ \A r \in Batches : ~ Reserved(r, o.parent, o.key)
  BY <1>2, <1>3, <1>5, <1>6, <1>7, <1>8
<1> QED
  BY <1>1, <1>2, <1>3, <1>4, <1>9, BatchPrepared

-----------------------------------------------------------------------------
(* The worker renders; a start goes on to the next batch.                   *)

\* Images and events are only added, for the batch the lane executes.
LEMMA RenderStep ==
  ASSUME IInv, Render
  PROVE  IInv'
<1>0. TypeOK /\ OnRecords /\ OnLane /\ OnLock
  BY DEF IInv
<1>1. run # None /\ run \in Batches /\ members[run] \subseteq Items /\ journal[run] \subseteq members[run]
  <2>1. run # None /\ run \in Batches
    BY <1>0 DEF OnLane, Seeing, Render, TypeOK, LaneType
  <2> QED
    BY <1>0, <2>1, Cells DEF OnRecords, OfMembers
<1>2. /\ UNCHANGED <<file, copies, jobFile, origin, members, record, items, job, pending, told>>
      /\ UNCHANGED <<queue, run, pc, worker, seen, cancelled, crit, faults, crashes>>
  BY DEF Render, frozen, memory, lane, bounds
<1>3. PICK i \in members[run] :
         \/ output' = [output EXCEPT ![run][i] = "whole"] /\ UNCHANGED journal
         \/ journal' = [journal EXCEPT ![run] = @ \cup {i}] /\ UNCHANGED output /\ output[run][i] = "whole"
  <2>1. members[run] \ journal[run] # {} /\ members[run] \ journal[run] \in SUBSET Items
    BY <1>1 DEF Render
  <2>2. First(members[run] \ journal[run]) \in members[run]
    BY <2>1, FirstIn
  <2> QED
    BY <2>2 DEF Render
<1>4. /\ output' \in [Batches -> Outputs] /\ journal' \in [Batches -> SUBSET Items]
      /\ \A c \in Batches : c # run => output'[c] = output[c] /\ journal'[c] = journal[c]
      /\ \A c \in Batches : journal[c] \subseteq journal'[c]
      /\ \A c \in Batches : \A j \in Items : output[c][j] = "whole" => output'[c][j] = "whole"
      /\ \A j \in Items : output'[run][j] # output[run][j] => j = i
      /\ \A j \in journal'[run] : j \in journal[run] \/ j = i
  <2>1. output \in [Batches -> Outputs] /\ journal \in [Batches -> SUBSET Items] /\ i \in Items
    BY <1>0, <1>1 DEF TypeOK, DiskType
  <2>2. CASE output' = [output EXCEPT ![run][i] = "whole"] /\ UNCHANGED journal
    <3>1. output' \in [Batches -> Outputs] /\ Put(output', output, run, i, "whole")
      BY <1>1, <2>1, <2>2, PutOutput
    <3>2. \A c \in Batches : c # run => output'[c] = output[c]
      BY <2>1, <2>2
    <3> QED
      BY <1>1, <2>1, <2>2, <3>1, <3>2 DEF Put
  <2>3. CASE journal' = [journal EXCEPT ![run] = @ \cup {i}] /\ UNCHANGED output /\ output[run][i] = "whole"
    BY <1>1, <2>1, <2>3
  <2> QED
    BY <1>3, <2>2, <2>3
<1>5. \A c \in Batches : \A j \in Items : Firm(c, j) => Firm(c, j)'
  BY <1>2, <1>4 DEF Firm
<1>6. Going(run)
  BY <1>0, <1>1 DEF OnLane, Alive, Placed
<1>7. TypeOK'
  <2>1. DiskType'
    BY <1>0, <1>2, <1>4 DEF TypeOK, DiskType
  <2>2. MemoryType' /\ LaneType' /\ LockType'
    BY <1>0, <1>2 DEF TypeOK, MemoryType, LaneType, LockType
  <2> QED
    BY <2>1, <2>2 DEF TypeOK
<1>8. OnRecords'
  <2>1. OfMembers'
    BY <1>0, <1>2, <1>4, Cells DEF OnRecords, OfMembers
  <2>2. Unsubmitted' /\ Unloaded' /\ Stated' /\ Sourced' /\ Pended' /\ Agreeing' /\ Telling' /\ Whole'
    BY <1>0, <1>2 DEF OnRecords, Unsubmitted, Unloaded, Stated, Sourced, Pended, Agreeing, Telling, Whole
  <2>3. Unaccepted'
    BY <1>0, <1>2, <1>4, <1>6 DEF OnRecords, Unaccepted, Going, Active
  <2>4. Durable'
    BY <1>0, <1>2, <1>4 DEF OnRecords, Durable
  <2>5. Journaled'
    BY <1>0, <1>1, <1>2, <1>4, <1>6 DEF OnRecords, Journaled, Going
  <2>6. Firmly'
    <3>1. \A c \in Batches : Kept(c)' <=> Kept(c)
      BY <1>2 DEF Kept, Chained, Lineage
    <3>2. \A c \in Batches : \A j \in Items : Claimed(c, j)' <=> Claimed(c, j)
      BY <1>2 DEF Claimed
    <3>3. \A c \in Batches : members'[c] = members[c] /\ members[c] \subseteq Items
      BY <1>0, <1>2, Cells
    <3> QED
      BY <1>0, <1>5, <3>1, <3>2, <3>3 DEF OnRecords, Firmly, UpTo
  <2> QED
    BY <2>1, <2>2, <2>3, <2>4, <2>5, <2>6 DEF OnRecords
<1>9. OnLane'
  <2>1. Alive' /\ Queueing' /\ Fresh'
    BY <1>0, <1>2 DEF OnLane, Alive, Going, Placed, Queued, Queueing, Fresh
  <2>2. Seeing'
    BY <1>0, <1>1, <1>2, <1>4 DEF OnLane, Seeing
  <2> QED
    BY <2>1, <2>2 DEF OnLane
<1>10. OnLock'
  <2>1. Shape'
    BY <1>0, <1>1, <1>2, <1>4 DEF OnLock, Shape
  <2>2. Submitting'
    <3>1. By("submit") /\ crit.what \in {"jobs", "commit", "rollback"} => crit.batch \in Batches /\ crit.batch # run
      BY <1>0, HeldIs DEF OnLock, Submitting, Shape, By, Placed, TypeOK, LockType
    <3> QED
      BY <1>0, <1>2, <1>4, <3>1 DEF OnLock, Submitting, By, Placed, Queued
  <2>3. Reserving' /\ Ending'
    BY <1>0, <1>2 DEF OnLock, Reserving, Reserved, Ending, Going, Placed, Queued, By
  <2>4. Starting' /\ Shown'
    BY <1>0, <1>2 DEF OnLock, Starting, Interrupted, Shown, On, By
  <2>5. Knowing'
    BY <1>0, <1>2 DEF OnLock, Knowing, Working, On, By, Claimed, UpTo
  <2>6. Replaying'
    <3>1. \A c \in Batches : On(c) /\ crit.what = "replay" => crit.todo \subseteq journal[c]
      BY <1>0 DEF OnLock, Replaying
    <3> QED
      BY <1>0, <1>2, <1>4, <3>1 DEF OnLock, Replaying, On, Claimed, UpTo
  <2> QED
    BY <2>1, <2>2, <2>3, <2>4, <2>5, <2>6 DEF OnLock
<1> QED
  BY <1>7, <1>8, <1>9, <1>10 DEF IInv

LEMMA RecoverNextStep ==
  ASSUME IInv, RecoverNext
  PROVE  IInv'
<1>0. TypeOK /\ OnRecords /\ OnLane /\ OnLock
  BY DEF IInv
<1>1. /\ crit \in Held /\ crit # None /\ crit.who = "start" /\ crit.what = "replay" /\ crit.batch = None
  BY <1>0, Subject DEF RecoverNext, Holds, OnLock, Shape
<1>2. /\ UNCHANGED <<file, copies, jobFile, output, journal, origin, members, record, items, job, pending, told>>
      /\ UNCHANGED <<queue, run, pc, worker, seen, cancelled, faults, crashes>>
  BY DEF RecoverNext, disk, frozen, memory, lane, bounds
<1>3. queue = <<>> /\ run = None /\ cancelled = {} /\ pc = "idle"
  BY <1>0, <1>1 DEF OnLock, Starting, By, TypeOK, LaneType
<1>4. \A b \in Batches : ~ On(b)
  BY <1>1, BatchAssumption DEF On
<1>5. OnRecords'
  BY <1>0, <1>2, RecordsStay
<1>6. OnLane'
  BY <1>0, <1>2 DEF OnLane, Alive, Going, Placed, Queued, Queueing, Fresh, Seeing
<1>7. DiskType' /\ MemoryType' /\ LaneType'
  BY <1>0, <1>2 DEF TypeOK, DiskType, MemoryType, LaneType
<1>8. CASE \E b \in Batches : Interrupted(b) /\ Enter(Section("start", "replay", b, journal[b], "failed"))
  <2>1. PICK b \in Batches : Interrupted(b) /\ crit' = Section("start", "replay", b, journal[b], "failed")
    BY <1>8 DEF Enter
  <2>2. /\ crit' \in Held /\ crit' # None /\ crit'.who = "start" /\ crit'.what = "replay" /\ crit'.batch = b
        /\ crit'.todo = journal[b] /\ crit'.outcome = "failed" /\ b # None
    BY <1>0, <2>1, SectionIs, Cells, BatchAssumption DEF Owners, Sections
  <2>3. TypeOK'
    <3>1. LockType'
      BY <1>2, <1>3, <2>2 DEF LockType
    <3> QED
      BY <1>7, <3>1 DEF TypeOK
  <2>4. Shape'
    BY <2>2 DEF Shape
  <2>5. Submitting' /\ Reserving' /\ Ending'
    BY <2>2 DEF Submitting, Reserving, Ending, By
  <2>6. Starting'
    BY <1>2, <1>3, <2>1, <2>2 DEF Starting, By, Interrupted
  <2>7. Shown'
    BY <1>0, <1>1, <1>2, <1>4, <2>2 DEF OnLock, Shown, By
  <2>8. Knowing'
    BY <2>2 DEF Knowing, Working, By
  <2>9. Replaying'
    <3>1. record[b] # "none"
      BY <2>1 DEF Interrupted
    <3>2. \A i \in members[b] : Claimed(b, i) => \A j \in UpTo(b, i) : job[b][j] = "complete" \/ j \in journal[b]
      BY <1>0, <3>1 DEF OnRecords, Firmly, Kept, Firm, Agreeing, UpTo
    <3> QED
      BY <1>2, <2>2, <3>2 DEF Replaying, On, Claimed, UpTo
  <2> QED
    BY <1>5, <1>6, <2>3, <2>4, <2>5, <2>6, <2>7, <2>8, <2>9 DEF IInv, OnLock
<1>9. CASE (\A b \in Batches : ~ Interrupted(b)) /\ Leave
  <2>1. crit' = None
    BY <1>9 DEF Leave
  <2>2. TypeOK'
    <3>1. LockType'
      BY <1>2, <1>3, <2>1 DEF LockType
    <3> QED
      BY <1>7, <3>1 DEF TypeOK
  <2>3. Shape' /\ Submitting' /\ Reserving' /\ Ending' /\ Starting' /\ Replaying'
    BY <2>1 DEF Shape, Submitting, Reserving, Ending, Starting, Replaying, By, On
  <2>4. Shown'
    <3>1. ASSUME NEW b \in Batches, record[b] \in Terminal
          PROVE  items[b] = job[b] /\ \A i \in members[b] : items[b][i] \in Terminal
      <4>1. items[b] = job[b]
        BY <1>0, <1>4, <3>1 DEF OnLock, Shown
      <4>2. \A i \in members[b] : items[b][i] \in Values /\ items[b][i] # "none" /\ items[b][i] \notin Active
        BY <1>0, <1>9, <3>1, Cells DEF Interrupted, OnRecords, Stated, Terminal
      <4> QED
        BY <4>1, <4>2 DEF Values
    <3> QED
      BY <1>2, <3>1 DEF Shown
  <2>5. Knowing'
    BY <1>2, <1>9, <2>1 DEF Knowing, Working, By, Interrupted, Active
  <2> QED
    BY <1>5, <1>6, <2>2, <2>3, <2>4, <2>5 DEF IInv, OnLock
<1> QED
  BY <1>8, <1>9 DEF RecoverNext

-----------------------------------------------------------------------------
(* _submit_frozen: the job files, the commit, and what undoes them.         *)

\* A submission holds the lock for a batch of which nothing is finished.
LEMMA SubmissionIs ==
  ASSUME IInv, crit # None, crit.who = "submit", crit.what \in {"jobs", "commit", "rollback"}
  PROVE  /\ crit \in Held /\ Batch \in Batches /\ Batch # None /\ crit.todo \subseteq members[Batch] /\ members[Batch] # {}
         /\ members[Batch] \in SUBSET Items /\ ~ Placed(Batch)
         /\ told[Batch] = {} /\ journal[Batch] = {}
         /\ \A i \in Items : /\ jobFile[Batch][i] \in {"absent", "queued"} /\ output[Batch][i] = "none"
                             /\ job[Batch][i] \in {"none", "queued"} /\ copies[Batch][i] \in {"none", "queued"}
         /\ \A c \in Batches : origin[c] # None => origin[c].parent # Batch
         /\ \A i \in members[Batch] : ~ Claimed(Batch, i)
         /\ pc # "finish"
<1>0. TypeOK /\ OnRecords /\ OnLane /\ OnLock
  BY DEF IInv
<1>1. crit \in Held /\ Batch \in Batches /\ Batch # None
  BY <1>0, Subject, BatchAssumption DEF OnLock, Shape, Batch
<1>2. /\ crit.todo \subseteq members[Batch] /\ members[Batch] # {} /\ ~ Placed(Batch)
      /\ told[Batch] = {} /\ journal[Batch] = {}
      /\ \A i \in Items : /\ jobFile[Batch][i] \in {"absent", "queued"} /\ output[Batch][i] = "none"
                          /\ job[Batch][i] \in {"none", "queued"} /\ copies[Batch][i] \in {"none", "queued"}
      /\ file[Batch] \in {"absent", "queued"}
  BY <1>0 DEF OnLock, Submitting, By, Batch
<1>3. members[Batch] \in SUBSET Items
  BY <1>0, <1>1, Cells
<1>4. \A c \in Batches : origin[c] # None => origin[c].parent # Batch
  BY <1>0, <1>2 DEF OnRecords, Sourced, Terminal
<1>5. \A i \in members[Batch] : ~ Claimed(Batch, i)
  BY <1>2, <1>3 DEF Claimed
<1>6. pc # "finish"
  BY <1>0 DEF TypeOK, LockType
<1> QED
  BY <1>1, <1>2, <1>3, <1>4, <1>5, <1>6

\* A file of a batch that is not accepted is written or removed.
LEMMA SubmissionMoves ==
  ASSUME IInv, crit # None, crit.who = "submit", crit.what \in {"jobs", "commit", "rollback"},
         UNCHANGED <<output, journal, origin, members, told>>,
         file' \in [Batches -> Saved], copies' \in [Batches -> Records],
         \A c \in Batches : c # Batch => file'[c] = file[c] /\ copies'[c] = copies[c],
         \/ UNCHANGED <<file, copies>>
         \/ file'[Batch] = "absent" /\ \A j \in Items : copies'[Batch][j] = "none",
         jobFile' \in [Batches -> Files],
         \A c \in Batches : \A j \in Items : jobFile'[c][j] # jobFile[c][j] =>
             c = Batch /\ j \in members[Batch] /\ jobFile'[c][j] \in {"absent", "queued"},
         record' \in [Batches -> Values], items' \in [Batches -> Records], job' \in [Batches -> Records],
         \A c \in Batches : c # Batch => record'[c] = record[c] /\ items'[c] = items[c] /\ job'[c] = job[c],
         \/ UNCHANGED <<record, items, job>>
         \/ record'[Batch] = "none" /\ \A j \in Items : items'[Batch][j] = "none" /\ job'[Batch][j] = "none",
         file'[Batch] = "absent" => record'[Batch] = "none",
         UNCHANGED <<pending, queue, run, pc, worker, seen, cancelled, crashes>>, faults' \in Nat,
         \/ crit' = None
         \/ /\ crit' \in Held /\ crit' # None /\ crit'.who = "submit" /\ crit'.what \in {"jobs", "commit", "rollback"}
            /\ crit'.batch = Batch,
         Shape', Submitting', Reserving'
  PROVE  IInv'
<1>0. TypeOK /\ OnRecords /\ OnLane /\ OnLock
  BY DEF IInv
<1>1. /\ Batch \in Batches /\ members[Batch] \in SUBSET Items /\ ~ Placed(Batch)
      /\ told[Batch] = {} /\ journal[Batch] = {}
      /\ \A i \in Items : /\ jobFile[Batch][i] \in {"absent", "queued"} /\ output[Batch][i] = "none"
                          /\ job[Batch][i] \in {"none", "queued"} /\ copies[Batch][i] \in {"none", "queued"}
      /\ \A c \in Batches : origin[c] # None => origin[c].parent # Batch
      /\ \A i \in members[Batch] : ~ Claimed(Batch, i)
  BY SubmissionIs
<1>2. /\ \A c \in Batches : c # Batch => \A j \in Items : jobFile'[c][j] = jobFile[c][j]
      /\ \A c \in Batches : \A j \in Items : jobFile'[c][j] = "complete" <=> jobFile[c][j] = "complete"
      /\ \A j \in Items : jobFile'[Batch][j] # "complete"
  BY <1>1
<1>3. \A c \in Batches : members[c] \subseteq Items /\ journal[c] \subseteq Items /\ pending[c] \subseteq Items
  BY <1>0, Cells
<1>4. pending[Batch] = {}
  BY <1>0, <1>1, <1>3 DEF OnRecords, Pended
<1>5. \A c \in Batches : Placed(c)' <=> Placed(c)
  BY DEF Placed, Queued
<1>6. \A c \in Batches : \A i \in Items : Claimed(c, i)' => Claimed(c, i)
  BY <1>1, <1>2 DEF Claimed
<1>7. OnRecords'
  <2>1. OfMembers'
    <3>1. ASSUME NEW c \in Batches, NEW i \in Items \ members[c]
          PROVE  items'[c][i] = "none" /\ copies'[c][i] = "none" /\ job'[c][i] = "none" /\ jobFile'[c][i] = "absent"
      BY <1>0, <1>1, <1>2 DEF OnRecords, OfMembers
    <3> QED
      BY <1>0, <3>1 DEF OnRecords, OfMembers
  <2>2. Unsubmitted' /\ Sourced'
    <3>1. Unsubmitted'
      BY <1>0 DEF OnRecords, Unsubmitted
    <3>2. Sourced'
      BY <1>0, <1>1, Cells DEF OnRecords, Sourced
    <3> QED
      BY <3>1, <3>2
  <2>3. Unaccepted'
    BY <1>0, <1>1, <1>2 DEF OnRecords, Unaccepted
  <2>4. Unloaded' /\ Pended'
    BY <1>0, <1>1, <1>4 DEF OnRecords, Unloaded, Pended
  <2>5. Stated' /\ Telling'
    BY <1>0, <1>1 DEF OnRecords, Stated, Telling
  <2>6. Agreeing'
    BY <1>0, <1>1, <1>2, <1>3 DEF OnRecords, Agreeing
  <2>7. Whole' /\ Durable'
    BY <1>0, <1>1, <1>2, <1>3 DEF OnRecords, Whole, Durable, Submitting, OnLock, By
  <2>8. Journaled'
    BY <1>0, <1>1, <1>2, <1>3 DEF OnRecords, Journaled
  <2>9. Firmly'
    <3>1. \A c \in Batches : Kept(c)' => Kept(c) \/ c = Batch
      <4>1. \A c \in Batches : Lineage(c, file, copies)' => Lineage(c, file, copies)
        BY <1>0, <1>1, Cells DEF Lineage
      <4> QED
        BY <4>1, ChainedLess DEF Kept
    <3>2. \A c \in Batches : \A i \in Items : Firm(c, i) => Firm(c, i)'
      BY <1>1, <1>2 DEF Firm
    <3> QED
      BY <1>0, <1>1, <1>3, <1>6, <3>1, <3>2 DEF OnRecords, Firmly, UpTo
  <2> QED
    BY <2>1, <2>2, <2>3, <2>4, <2>5, <2>6, <2>7, <2>8, <2>9 DEF OnRecords
<1>8. OnLane'
  <2>1. Alive'
    BY <1>0, <1>1, <1>2, <1>3, <1>5 DEF OnLane, Alive, Going
  <2>2. Queueing' /\ Fresh' /\ Seeing'
    BY <1>0 DEF OnLane, Queueing, Fresh, Seeing, Queued
  <2> QED
    BY <2>1, <2>2 DEF OnLane
<1>9. TypeOK'
  <2>1. DiskType'
    BY <1>0 DEF TypeOK, DiskType
  <2>2. MemoryType'
    BY <1>0 DEF TypeOK, MemoryType
  <2>3. LaneType'
    BY <1>0 DEF TypeOK, LaneType
  <2>4. LockType'
    BY <1>0, SubmissionIs DEF LockType
  <2> QED
    BY <2>1, <2>2, <2>3, <2>4 DEF TypeOK
<1>10. OnLock'
  <2>1. Ending' /\ Starting' /\ Replaying'
    BY <1>1 DEF Ending, Starting, Replaying, By, On
  <2>2. Shown'
    <3>1. record[Batch] \in {"none", "queued"} /\ \A c \in Batches : c # Batch => ~ On(c)
      BY <1>0, <1>1 DEF OnLock, Submitting, By, On, OnRecords, Unaccepted, Batch
    <3> QED
      BY <1>0, <3>1 DEF OnLock, Shown, By, Terminal
  <2>3. Knowing'
    <3>1. \A c \in Batches : Working(c)' => Working(c) \/ c = Batch
      BY DEF Working, By, On
    <3> QED
      BY <1>0, <1>1, <1>3, <1>6, <3>1 DEF OnLock, Knowing, UpTo
  <2> QED
    BY <2>1, <2>2, <2>3 DEF OnLock
<1> QED
  BY <1>7, <1>8, <1>9, <1>10 DEF IInv

LEMMA SubmitJobStep ==
  ASSUME IInv, SubmitJob
  PROVE  IInv'
<1>0. TypeOK /\ OnRecords /\ OnLane /\ OnLock
  BY DEF IInv
<1>1. crit # None /\ crit.who = "submit" /\ crit.what = "jobs"
  BY DEF SubmitJob, Holds
<1>2. /\ crit \in Held /\ Batch \in Batches /\ Batch # None /\ crit.todo \subseteq members[Batch] /\ members[Batch] # {}
      /\ members[Batch] \in SUBSET Items /\ ~ Placed(Batch) /\ told[Batch] = {} /\ journal[Batch] = {}
      /\ \A i \in Items : /\ jobFile[Batch][i] \in {"absent", "queued"} /\ output[Batch][i] = "none"
                          /\ job[Batch][i] \in {"none", "queued"} /\ copies[Batch][i] \in {"none", "queued"}
  BY <1>1, SubmissionIs
<1>3. /\ UNCHANGED <<file, copies, output, journal, origin, members, record, items, job, pending, told>>
      /\ UNCHANGED <<queue, run, pc, worker, seen, cancelled>>
  BY DEF SubmitJob, frozen, memory, lane
<1>4. /\ file[Batch] = "absent" /\ record[Batch] = "none"
      /\ \A i \in members[Batch] \ crit.todo : jobFile[Batch][i] = "queued"
  BY <1>0, <1>1, <1>2 DEF OnLock, Submitting, By, OnRecords, Unaccepted, Batch
<1>5. /\ file \in [Batches -> Saved] /\ copies \in [Batches -> Records] /\ jobFile \in [Batches -> Files]
      /\ record \in [Batches -> Values] /\ items \in [Batches -> Records] /\ job \in [Batches -> Records]
      /\ faults \in Nat
  BY <1>0 DEF TypeOK, DiskType, MemoryType
<1>6. faults' \in Nat /\ crashes' = crashes
  BY <1>5 DEF SubmitJob, Fault, NoFault, bounds
<1>7. PICK x \in {"jobs", "commit", "rollback"}, t \in SUBSET members[Batch] :
         /\ crit' \in Held /\ crit' # None /\ crit'.who = "submit" /\ crit'.what = x /\ crit'.batch = Batch /\ crit'.todo = t
         /\ jobFile' \in [Batches -> Files]
         /\ \A c \in Batches : \A j \in Items : jobFile'[c][j] # jobFile[c][j] =>
               c = Batch /\ j \in members[Batch] /\ jobFile'[c][j] = "queued"
         /\ x # "rollback" => \A i \in members[Batch] \ t : jobFile'[Batch][i] = "queued"
         /\ x = "commit" => t = {}
         /\ x = "rollback" => t # {}
  <2>1. CASE /\ crit.todo # {} /\ jobFile' = [jobFile EXCEPT ![Batch][Item] = "queued"]
             /\ Enter([crit EXCEPT !.todo = @ \ {Item}])
    <3>1. Item \in crit.todo /\ Item \in Items
      BY <1>0, <1>1, <2>1, Subject
    <3>2. jobFile' \in [Batches -> Files] /\ Put(jobFile', jobFile, Batch, Item, "queued")
      BY <1>2, <1>5, <2>1, <3>1, PutFile, Words
    <3>3. /\ crit' \in Held /\ crit' # None /\ crit'.who = "submit" /\ crit'.what = "jobs" /\ crit'.batch = Batch
          /\ crit'.todo = crit.todo \ {Item} /\ crit.todo \ {Item} \in SUBSET members[Batch]
      <4>1. crit.todo \ {Item} \in SUBSET Items /\ crit' = [crit EXCEPT !.todo = crit.todo \ {Item}]
        BY <1>2, <2>1 DEF Enter
      <4> QED
        BY <1>1, <1>2, <4>1, HeldTodo, HeldIs DEF Batch
    <3>4. /\ \A c \in Batches : \A j \in Items : jobFile'[c][j] # jobFile[c][j] =>
               c = Batch /\ j \in members[Batch] /\ jobFile'[c][j] = "queued"
          /\ \A i \in members[Batch] \ (crit.todo \ {Item}) : jobFile'[Batch][i] = "queued"
      BY <1>2, <1>4, <3>1, <3>2 DEF Put
    <3> QED
      BY <3>2, <3>3, <3>4
  <2>2. CASE crit.todo = {} /\ Enter([crit EXCEPT !.what = "commit"]) /\ UNCHANGED jobFile
    <3>1. /\ crit' \in Held /\ crit' # None /\ crit'.who = "submit" /\ crit'.what = "commit" /\ crit'.batch = Batch
          /\ crit'.todo = {}
      <4>1. crit' = [crit EXCEPT !.what = "commit"] /\ "commit" \in Sections
        BY <2>2 DEF Enter, Sections
      <4> QED
        BY <1>1, <1>2, <2>2, <4>1, HeldWhat, HeldIs DEF Batch
    <3> QED
      BY <1>4, <1>5, <2>2, <3>1
  <2>3. CASE Enter(Section("submit", "rollback", Batch, members[Batch], "none")) /\ UNCHANGED jobFile
    <3>1. /\ crit' \in Held /\ crit' # None /\ crit'.who = "submit" /\ crit'.what = "rollback" /\ crit'.batch = Batch
          /\ crit'.todo = members[Batch]
      BY <1>2, <2>3, SectionIs DEF Enter, Owners, Sections
    <3> QED
      BY <1>2, <1>5, <2>3, <3>1
  <2> QED
    BY <2>1, <2>2, <2>3 DEF SubmitJob
<1>8. Shape'
  BY <1>2, <1>7 DEF Shape
<1>9. Submitting'
  <2>1. \A c \in Batches : Placed(c)' <=> Placed(c)
    BY <1>3 DEF Placed, Queued
  <2> QED
    BY <1>2, <1>3, <1>4, <1>7, <2>1 DEF Submitting
<1>10. Reserving'
  <2>1. \A c \in Batches : \A j \in Items : jobFile'[c][j] = "complete" => jobFile[c][j] = "complete"
    BY <1>7
  <2>2. origin[Batch] # None => origin[Batch].parent \in Batches
    BY <1>0, <1>2, Cells
  <2> QED
    BY <1>0, <1>1, <1>2, <1>3, <1>7, <2>1, <2>2 DEF OnLock, Reserving, Reserved, By, Batch
<1> QED
  BY <1>1, <1>2, <1>3, <1>4, <1>5, <1>6, <1>7, <1>8, <1>9, <1>10, SubmissionMoves

LEMMA RollbackStep ==
  ASSUME IInv, Rollback
  PROVE  IInv'
<1>0. TypeOK /\ OnRecords /\ OnLane /\ OnLock
  BY DEF IInv
<1>1. crit # None /\ crit.who = "submit" /\ crit.what = "rollback"
  BY <1>0 DEF Rollback, Holds, OnLock, Shape
<1>2. /\ crit \in Held /\ Batch \in Batches /\ Batch # None /\ crit.todo \subseteq members[Batch] /\ members[Batch] # {}
      /\ members[Batch] \in SUBSET Items /\ ~ Placed(Batch) /\ told[Batch] = {} /\ journal[Batch] = {}
      /\ \A i \in Items : /\ jobFile[Batch][i] \in {"absent", "queued"} /\ output[Batch][i] = "none"
                          /\ job[Batch][i] \in {"none", "queued"} /\ copies[Batch][i] \in {"none", "queued"}
  BY <1>1, SubmissionIs
<1>3. UNCHANGED <<output, journal, origin, members, pending, queue, run, pc, worker, seen, cancelled, told>>
  BY DEF Rollback, frozen, lane
<1>4. /\ record[Batch] # "none" => file[Batch] = "queued" /\ origin[Batch] = None
      /\ file[Batch] \in {"absent", "queued"} /\ crit.todo # {}
  BY <1>0, <1>1 DEF OnLock, Submitting, By, Batch
<1>5. /\ file \in [Batches -> Saved] /\ copies \in [Batches -> Records] /\ jobFile \in [Batches -> Files]
      /\ record \in [Batches -> Values] /\ items \in [Batches -> Records] /\ job \in [Batches -> Records]
      /\ faults \in Nat
  BY <1>0 DEF TypeOK, DiskType, MemoryType
<1>6. /\ record' \in [Batches -> Values] /\ items' \in [Batches -> Records] /\ job' \in [Batches -> Records]
      /\ \A c \in Batches : c # Batch => record'[c] = record[c] /\ items'[c] = items[c] /\ job'[c] = job[c]
      /\ record'[Batch] = "none" /\ \A j \in Items : items'[Batch][j] = "none" /\ job'[Batch][j] = "none"
  <2> DEFINE empty == [i \in Items |-> "none"]
  <2>1. empty \in Records /\ \A j \in Items : empty[j] = "none"
    BY RowOf, Words
  <2>2. /\ record' = [record EXCEPT ![Batch] = "none"] /\ job' = [job EXCEPT ![Batch] = empty]
        /\ items' = [items EXCEPT ![Batch] = empty]
    BY DEF Rollback
  <2> HIDE DEF empty
  <2> QED
    BY <1>2, <1>5, <2>1, <2>2, Words
<1>7. CASE record[Batch] # "none"
  <2>1. jobFile' = jobFile /\ crit' = crit /\ faults' \in Nat /\ crashes' = crashes
    BY <1>5, <1>7 DEF Rollback, Fault, NoFault, bounds
  <2>2. /\ file' \in [Batches -> Saved] /\ copies' \in [Batches -> Records]
        /\ \A c \in Batches : c # Batch => file'[c] = file[c] /\ copies'[c] = copies[c]
        /\ \/ UNCHANGED <<file, copies>>
           \/ file'[Batch] = "absent" /\ \A j \in Items : copies'[Batch][j] = "none"
    <3> DEFINE empty == [i \in Items |-> "none"]
    <3>1. empty \in Records /\ \A j \in Items : empty[j] = "none"
      BY RowOf, Words
    <3>2. \/ file' = [file EXCEPT ![Batch] = "absent"] /\ copies' = [copies EXCEPT ![Batch] = empty]
          \/ UNCHANGED <<file, copies>>
      BY <1>7 DEF Rollback
    <3> HIDE DEF empty
    <3> QED
      BY <1>2, <1>5, <3>1, <3>2, Words
  <2>3. Shape'
    BY <1>0, <1>1, <1>2, <2>1 DEF Shape, Batch
  <2>4. Submitting'
    <3>1. \A c \in Batches : Placed(c)' <=> Placed(c)
      BY <1>3 DEF Placed, Queued
    <3>2. file'[Batch] \in {"absent", "queued"} /\ \A i \in Items : copies'[Batch][i] \in {"none", "queued"}
      BY <1>2, <1>4, <2>2
    <3> QED
      BY <1>1, <1>2, <1>3, <1>4, <1>6, <2>1, <3>1, <3>2 DEF Submitting, Batch
  <2>5. Reserving'
    BY <1>1, <2>1 DEF Reserving
  <2>6. crit' \in Held /\ crit' # None /\ crit'.who = "submit" /\ crit'.what = "rollback" /\ crit'.batch = Batch
    BY <1>1, <1>2, <2>1 DEF Batch
  <2> QED
    BY <1>1, <1>2, <1>3, <1>5, <1>6, <2>1, <2>2, <2>3, <2>4, <2>5, <2>6, SubmissionMoves
<1>8. CASE record[Batch] = "none"
  <2>1. UNCHANGED <<file, copies>>
    BY <1>8 DEF Rollback
  <2>2. PICK i \in crit.todo :
           /\ \/ jobFile' = [jobFile EXCEPT ![Batch][i] = "absent"] /\ NoFault
              \/ Fault /\ UNCHANGED jobFile
           /\ crit' = IF crit.todo = {i} THEN None ELSE [crit EXCEPT !.todo = crit.todo \ {i}]
    BY <1>8 DEF Rollback
  <2>3. faults' \in Nat /\ crashes' = crashes
    BY <1>5, <2>2 DEF Fault, NoFault, bounds
  <2>4. jobFile' \in [Batches -> Files] /\ (jobFile' = jobFile \/ Put(jobFile', jobFile, Batch, i, "absent"))
    BY <1>2, <1>5, <2>2, PutFile, Words
  <2>5. \A c \in Batches : \A j \in Items : jobFile'[c][j] # jobFile[c][j] =>
           c = Batch /\ j \in members[Batch] /\ jobFile'[c][j] \in {"absent", "queued"}
    BY <1>2, <2>2, <2>4 DEF Put
  <2>6. \/ crit' = None
        \/ /\ crit' \in Held /\ crit' # None /\ crit'.who = "submit" /\ crit'.what = "rollback" /\ crit'.batch = Batch
           /\ crit'.todo # {} /\ crit'.todo \subseteq members[Batch]
    <3>1. CASE crit.todo = {i}
      BY <2>2, <3>1
    <3>2. CASE crit.todo # {i}
      <4>1. crit' = [crit EXCEPT !.todo = crit.todo \ {i}] /\ crit.todo \ {i} \in SUBSET Items
        BY <1>2, <2>2, <3>2
      <4>2. crit.todo \ {i} # {} /\ crit.todo \ {i} \subseteq members[Batch]
        BY <1>2, <2>2, <3>2
      <4>3. crit \in Held /\ crit.who = "submit" /\ crit.what = "rollback" /\ crit.batch = Batch
        BY <1>1, <1>2 DEF Batch
      <4>4. /\ crit' \in Held /\ crit' # None /\ crit'.who = crit.who
            /\ crit'.what = crit.what /\ crit'.batch = crit.batch /\ crit'.todo = crit.todo \ {i}
        BY <4>1, <4>3, HeldTodo
      <4> QED
        BY <4>2, <4>3, <4>4
    <3> QED
      BY <3>1, <3>2
  <2>7. Shape'
    BY <1>2, <2>6 DEF Shape
  <2>8. Submitting'
    <3>1. \A c \in Batches : Placed(c)' <=> Placed(c)
      BY <1>3 DEF Placed, Queued
    <3>2. \A j \in Items : jobFile'[Batch][j] \in {"absent", "queued"}
      BY <1>2, <2>5
    <3> QED
      BY <1>2, <1>3, <1>4, <1>6, <2>1, <2>6, <3>1, <3>2 DEF Submitting, By
  <2>9. Reserving'
    BY <2>6 DEF Reserving, By
  <2> QED
    BY <1>1, <1>2, <1>3, <1>5, <1>6, <2>1, <2>3, <2>4, <2>5, <2>6, <2>7, <2>8, <2>9, SubmissionMoves
<1> QED
  BY <1>7, <1>8

-----------------------------------------------------------------------------
(* Writes of the batch record.                                              *)

LEMMA SavedDoes ==
  ASSUME TypeOK, NEW b \in Batches, NEW v \in Terminal \cup Active, NEW r \in Records, BatchSaved(b, v, r)
  PROVE  /\ file' \in [Batches -> Saved] /\ copies' \in [Batches -> Records] /\ record' \in [Batches -> Values]
         /\ items' \in [Batches -> Records] /\ told' \in [Batches -> SUBSET Items]
         /\ \A c \in Batches : c # b => /\ file'[c] = file[c] /\ copies'[c] = copies[c] /\ record'[c] = record[c]
                                        /\ items'[c] = items[c] /\ told'[c] = told[c]
         /\ file'[b] = v /\ copies'[b] = r /\ record'[b] = v /\ items'[b] = r
         /\ \A i \in Items : i \in told'[b] <=> i \in told[b] \/ r[i] = "complete"
         /\ UNCHANGED <<faults, crashes>>
<1>1. /\ file \in [Batches -> Saved] /\ copies \in [Batches -> Records] /\ record \in [Batches -> Values]
      /\ items \in [Batches -> Records] /\ told \in [Batches -> SUBSET Items]
  BY DEF TypeOK, DiskType, MemoryType
<1>2. v \in Values /\ v \in Saved
  BY Words
<1>3. /\ file' = [file EXCEPT ![b] = v] /\ copies' = [copies EXCEPT ![b] = r] /\ record' = [record EXCEPT ![b] = v]
      /\ items' = [items EXCEPT ![b] = r] /\ told' = [told EXCEPT ![b] = @ \cup {i \in Items : r[i] = "complete"}]
      /\ UNCHANGED <<faults, crashes>>
  BY DEF BatchSaved, Show, NoFault, bounds
<1> QED
  BY <1>1, <1>2, <1>3

LEMMA HeldDoes ==
  ASSUME TypeOK, NEW b \in Batches, NEW v \in Terminal \cup Active, NEW r \in Records, BatchHeld(b, v, r)
  PROVE  /\ UNCHANGED <<file, copies>> /\ record' \in [Batches -> Values]
         /\ items' \in [Batches -> Records] /\ told' \in [Batches -> SUBSET Items]
         /\ \A c \in Batches : c # b => record'[c] = record[c] /\ items'[c] = items[c] /\ told'[c] = told[c]
         /\ record'[b] = v /\ items'[b] = r
         /\ \A i \in Items : i \in told'[b] <=> i \in told[b] \/ r[i] = "complete"
<1>1. record \in [Batches -> Values] /\ items \in [Batches -> Records] /\ told \in [Batches -> SUBSET Items]
  BY DEF TypeOK, DiskType, MemoryType
<1>2. v \in Values
  BY Words
<1>3. /\ UNCHANGED <<file, copies>> /\ record' = [record EXCEPT ![b] = v]
      /\ items' = [items EXCEPT ![b] = r] /\ told' = [told EXCEPT ![b] = @ \cup {i \in Items : r[i] = "complete"}]
  BY DEF BatchHeld, Show
<1> QED
  BY <1>1, <1>2, <1>3

LEMMA QueueMore ==
  ASSUME queue \in Seq(Batches), NEW b \in Batches, queue' = Append(queue, b)
  PROVE  /\ queue' \in Seq(Batches)
         /\ \A n \in DOMAIN queue : n \in DOMAIN queue' /\ queue'[n] = queue[n]
         /\ \A n \in DOMAIN queue' : \/ n \in DOMAIN queue /\ queue'[n] = queue[n]
                                     \/ n = Len(queue) + 1 /\ queue'[n] = b
  OBVIOUS

\* The commit of a submission that can be written.
LEMMA CommitSaved ==
  ASSUME IInv, NEW b \in Batches, b = Batch, crit # None, crit.who = "submit", crit.what = "commit",
         BatchSaved(b, "queued", States(b, "queued")),
         job' = [job EXCEPT ![b] = States(b, "queued")],
         \/ queue' = Append(queue, b) /\ crit' = None
         \/ /\ UNCHANGED queue
            /\ crit' = IF origin[b] # None THEN Section("submit", "clean", b, members[b], "failed")
                       ELSE Section("submit", "rollback", b, members[b], "none"),
         UNCHANGED <<jobFile, output, journal, origin, members, pending, run, pc, worker, seen, cancelled>>
  PROVE  IInv'
<1>0. TypeOK /\ OnRecords /\ OnLane /\ OnLock
  BY DEF IInv
<1>1. /\ crit \in Held /\ b # None /\ members[b] # {}
      /\ members[b] \in SUBSET Items /\ ~ Placed(b) /\ told[b] = {} /\ journal[b] = {}
      /\ \A i \in Items : /\ jobFile[b][i] \in {"absent", "queued"} /\ output[b][i] = "none"
      /\ \A c \in Batches : origin[c] # None => origin[c].parent # b
      /\ pc # "finish"
  BY SubmissionIs
<1>2. file[b] = "absent" /\ record[b] = "none" /\ \A i \in members[b] : jobFile[b][i] = "queued"
  BY <1>0, <1>1 DEF OnLock, Submitting, By, OnRecords, Unaccepted, Batch
<1>3. PICK r \in Records : /\ r = States(b, "queued") /\ \A i \in Items : r[i] \in {"none", "queued"}
                           /\ \A i \in Items : r[i] = "queued" <=> i \in members[b]
  <2>1. States(b, "queued") \in Records
    BY RowOf, Words
  <2> QED
    BY <2>1 DEF States
<1>4. /\ file' \in [Batches -> Saved] /\ copies' \in [Batches -> Records] /\ record' \in [Batches -> Values]
      /\ items' \in [Batches -> Records] /\ told' \in [Batches -> SUBSET Items]
      /\ \A c \in Batches : c # b => /\ file'[c] = file[c] /\ copies'[c] = copies[c] /\ record'[c] = record[c]
                                         /\ items'[c] = items[c] /\ told'[c] = told[c]
      /\ file'[b] = "queued" /\ copies'[b] = r /\ record'[b] = "queued" /\ items'[b] = r
      /\ \A i \in Items : i \in told'[b] <=> i \in told[b] \/ r[i] = "complete"
      /\ UNCHANGED <<faults, crashes>>
  <2>1. BatchSaved(b, "queued", r) /\ "queued" \in Terminal \cup Active
    BY <1>3, Words
  <2> QED
    BY <1>0, <1>1, <2>1, SavedDoes
<1>5. job' \in [Batches -> Records] /\ \A c \in Batches : job'[c] = IF c = b THEN r ELSE job[c]
  <2>1. job \in [Batches -> Records]
    BY <1>0 DEF TypeOK, MemoryType
  <2> QED
    BY <1>1, <1>3, <2>1
<1>6. \A c \in Batches : told'[c] = told[c]
  <2>1. told'[b] \in SUBSET Items
    BY <1>4
  <2>2. \A i \in Items : r[i] # "complete"
    BY <1>3
  <2>3. \A i \in Items : i \notin told'[b]
    BY <1>1, <1>4, <2>2
  <2>4. told'[b] = {}
    BY <2>1, <2>3
  <2> QED
    BY <1>1, <1>4, <2>4
<1>7. \A c \in Batches : members[c] \subseteq Items /\ journal[c] \subseteq Items /\ pending[c] \subseteq Items
  BY <1>0, Cells
<1>8. pending[b] = {}
  BY <1>0, <1>1, <1>2 DEF OnRecords, Unloaded
<1>9. \A c \in Batches : \A i \in Items : Claimed(c, i)' => Claimed(c, i) /\ c # b
  BY <1>1, <1>3, <1>4, <1>5, <1>6 DEF Claimed
<1>10. Going(b)'
  <2>1. "queued" \in Active
    BY Words
  <2> QED
    BY <1>1, <1>2, <1>4, <2>1 DEF Going
<1>11. OnRecords'
  <2>1. OfMembers'
    BY <1>0, <1>1, <1>3, <1>4, <1>5, <1>6 DEF OnRecords, OfMembers
  <2>2. Unsubmitted' /\ Unaccepted' /\ Unloaded'
    BY <1>0, <1>1, <1>4, <1>5, <1>6 DEF OnRecords, Unsubmitted, Unaccepted, Unloaded
  <2>3. Stated'
    BY <1>0, <1>1, <1>3, <1>4, <1>5, <1>7 DEF OnRecords, Stated
  <2>4. Sourced'
    BY <1>0, <1>1, <1>4, Cells DEF OnRecords, Sourced
  <2>5. Pended' /\ Agreeing'
    BY <1>0, <1>1, <1>2, <1>3, <1>4, <1>5, <1>7, <1>8 DEF OnRecords, Pended, Agreeing
  <2>6. Telling' /\ Whole' /\ Durable' /\ Journaled'
    BY <1>0, <1>1, <1>3, <1>4, <1>6, <1>7 DEF OnRecords, Telling, Whole, Durable, Journaled
  <2>7. Firmly'
    <3>1. \A c \in Batches : c # b /\ Kept(c)' => Kept(c)
      <4>1. \A c \in Batches : Lineage(c, file, copies)' => Lineage(c, file, copies)
        BY <1>0, <1>1, <1>4, Cells DEF Lineage
      <4> QED
        BY <1>4, <4>1, ChainedLess DEF Kept
    <3>2. \A c \in Batches : \A i \in Items : Firm(c, i) => Firm(c, i)'
      BY DEF Firm
    <3> QED
      BY <1>0, <1>7, <1>9, <3>1, <3>2 DEF OnRecords, Firmly, UpTo
  <2> QED
    BY <2>1, <2>2, <2>3, <2>4, <2>5, <2>6, <2>7 DEF OnRecords
<1>12. Shown' /\ Knowing'
  <2>1. \A c \in Batches : c # b => ~ On(c)
    BY DEF On, Batch
  <2>2. Shown'
    BY <1>0, <1>1, <1>4, <1>5, <2>1 DEF OnLock, Shown, By, Terminal
  <2>3. Knowing'
    <3>1. \A c \in Batches : c # b /\ Working(c)' => Working(c)
      <4>1. crit' # None => crit'.who = "submit"
        BY <1>1, SectionIs DEF Owners, Sections
      <4> QED
        BY <1>4, <4>1 DEF Working, By
    <3> QED
      BY <1>0, <1>5, <1>7, <1>9, <3>1 DEF OnLock, Knowing, UpTo
  <2> QED
    BY <2>2, <2>3
<1>13. DiskType' /\ MemoryType'
  BY <1>0, <1>4, <1>5 DEF TypeOK, DiskType, MemoryType
<1>14. CASE queue' = Append(queue, b) /\ crit' = None
  <2>1. queue \in Seq(Batches)
    BY <1>0 DEF TypeOK, LaneType
  <2>2. /\ queue' \in Seq(Batches)
        /\ \A n \in DOMAIN queue : n \in DOMAIN queue' /\ queue'[n] = queue[n]
        /\ \A n \in DOMAIN queue' : \/ n \in DOMAIN queue /\ queue'[n] = queue[n]
                                    \/ n = Len(queue) + 1 /\ queue'[n] = b
    BY <1>1, <1>14, <2>1, QueueMore
  <2>3. TypeOK'
    <3>1. LaneType'
      BY <1>0, <2>2 DEF TypeOK, LaneType
    <3>2. LockType'
      BY <1>1, <1>14 DEF LockType
    <3> QED
      BY <1>13, <3>1, <3>2 DEF TypeOK
  <2>4. OnLane'
    <3>1. \A c \in Batches : (Placed(c)' => Placed(c) \/ c = b) /\ (Queued(c)' => Queued(c) \/ c = b)
      BY <2>2 DEF Placed, Queued
    <3>2. Alive'
      BY <1>0, <1>4, <1>10, <3>1 DEF OnLane, Alive, Going
    <3>3. \A m, n \in DOMAIN queue' : queue'[m] = queue'[n] => m = n
      BY <1>0, <1>1, <2>2 DEF OnLane, Queueing, Placed, Queued
    <3>4. \A n \in DOMAIN queue' : queue'[n] # run'
      BY <1>0, <1>1, <2>2 DEF OnLane, Queueing, Placed
    <3>5. Fresh'
      BY <1>0, <1>8, <3>1 DEF OnLane, Fresh
    <3>6. Seeing'
      BY <1>0 DEF OnLane, Seeing
    <3> QED
      BY <3>2, <3>3, <3>4, <3>5, <3>6 DEF OnLane, Queueing
  <2>5. Shape' /\ Submitting' /\ Reserving' /\ Ending' /\ Starting' /\ Replaying'
    BY <1>14 DEF Shape, Submitting, Reserving, Ending, Starting, Replaying, By, On
  <2> QED
    BY <1>11, <1>12, <2>3, <2>4, <2>5 DEF IInv, OnLock
<1>15. CASE UNCHANGED queue
  <2>1. \A c \in Batches : Placed(c)' <=> Placed(c)
    BY <1>15 DEF Placed, Queued
  <2>2. OnLane'
    <3>1. Alive'
      BY <1>0, <1>1, <1>4, <2>1 DEF OnLane, Alive, Going
    <3>2. Queueing' /\ Fresh' /\ Seeing'
      BY <1>0, <1>15 DEF OnLane, Queueing, Fresh, Seeing, Queued
    <3> QED
      BY <3>1, <3>2 DEF OnLane
  <2>3. LaneType'
    BY <1>0, <1>15 DEF TypeOK, LaneType
  <2>4. CASE crit' = Section("submit", "clean", b, members[b], "failed")
    <3>1. /\ crit' \in Held /\ crit' # None /\ crit'.who = "submit" /\ crit'.what = "clean" /\ crit'.batch = b
          /\ crit'.todo = members[b] /\ crit'.outcome = "failed"
      BY <1>1, <2>4, SectionIs DEF Owners, Sections
    <3>2. TypeOK'
      <4>1. LockType'
        BY <1>1, <3>1 DEF LockType
      <4> QED
        BY <1>13, <2>3, <4>1 DEF TypeOK
    <3>3. Shape'
      BY <1>1, <3>1 DEF Shape
    <3>4. Submitting' /\ Reserving' /\ Starting' /\ Replaying'
      BY <3>1 DEF Submitting, Reserving, Starting, Replaying, By, On
    <3>5. Ending'
      BY <1>1, <1>10, <2>1, <3>1 DEF Ending, Going
    <3> QED
      BY <1>11, <1>12, <2>2, <3>2, <3>3, <3>4, <3>5 DEF IInv, OnLock
  <2>5. CASE origin[b] = None /\ crit' = Section("submit", "rollback", b, members[b], "none")
    <3>1. /\ crit' \in Held /\ crit' # None /\ crit'.who = "submit" /\ crit'.what = "rollback" /\ crit'.batch = b
          /\ crit'.todo = members[b]
      BY <1>1, <2>5, SectionIs DEF Owners, Sections
    <3>2. TypeOK'
      <4>1. LockType'
        BY <1>1, <3>1 DEF LockType
      <4> QED
        BY <1>13, <2>3, <4>1 DEF TypeOK
    <3>3. Shape'
      BY <1>1, <3>1 DEF Shape
    <3>4. Reserving' /\ Ending' /\ Starting' /\ Replaying'
      BY <3>1 DEF Reserving, Ending, Starting, Replaying, By, On
    <3>5. Submitting'
      <4>1. \A i \in Items : job'[b][i] \in {"none", "queued"} /\ copies'[b][i] \in {"none", "queued"}
        BY <1>3, <1>4, <1>5
      <4>2. members'[b] # {} /\ crit'.todo \subseteq members'[b] /\ told'[b] = {} /\ journal'[b] = {} /\ ~ Placed(b)'
        BY <1>1, <1>6, <2>1, <3>1
      <4>3. record'[b] \in {"none", "queued"} /\ file'[b] \in {"absent", "queued"} /\ crit'.todo # {}
            /\ file'[b] = "queued" /\ origin'[b] = None
        BY <1>1, <1>4, <2>5, <3>1
      <4>4. \A i \in Items : jobFile'[b][i] \in {"absent", "queued"} /\ output'[b][i] = "none"
        BY <1>1
      <4> QED
        BY <3>1, <4>1, <4>2, <4>3, <4>4 DEF Submitting
    <3> QED
      BY <1>11, <1>12, <2>2, <3>2, <3>3, <3>4, <3>5 DEF IInv, OnLock
  <2> QED
    BY <1>14, <1>15, <2>4, <2>5
<1> QED
  BY <1>14, <1>15

LEMMA CommitStep ==
  ASSUME IInv, Commit
  PROVE  IInv'
<1>0. TypeOK /\ OnRecords /\ OnLane /\ OnLock
  BY DEF IInv
<1>1. crit # None /\ crit.who = "submit" /\ crit.what = "commit"
  BY <1>0 DEF Commit, Holds, OnLock, Shape
<1>2. /\ crit \in Held /\ Batch \in Batches /\ Batch # None /\ members[Batch] # {}
      /\ members[Batch] \in SUBSET Items /\ ~ Placed(Batch) /\ told[Batch] = {} /\ journal[Batch] = {}
      /\ \A i \in Items : /\ jobFile[Batch][i] \in {"absent", "queued"} /\ output[Batch][i] = "none"
                          /\ job[Batch][i] \in {"none", "queued"} /\ copies[Batch][i] \in {"none", "queued"}
  BY <1>1, SubmissionIs
<1>3. PICK b \in Batches : b = Batch
  BY <1>2
<1>4. UNCHANGED <<jobFile, output, journal, origin, members, pending, run, pc, worker, seen, cancelled>>
  BY DEF Commit, frozen, lane
<1>5. CASE /\ BatchSaved(b, "queued", States(b, "queued"))
           /\ job' = [job EXCEPT ![b] = States(b, "queued")]
           /\ \/ queue' = Append(queue, b) /\ Leave
              \/ /\ UNCHANGED queue
                 /\ Enter(IF origin[b] # None THEN Section("submit", "clean", b, members[b], "failed")
                          ELSE Section("submit", "rollback", b, members[b], "none"))
  BY <1>1, <1>3, <1>4, <1>5, CommitSaved DEF Enter, Leave
<1>6. CASE /\ Fault /\ Enter(Section("submit", "rollback", b, members[b], "none"))
           /\ UNCHANGED <<file, copies, record, items, job, queue, told>>
  <2>1. file[b] = "absent" /\ record[b] = "none"
    BY <1>0, <1>1, <1>3 DEF OnLock, Submitting, By, OnRecords, Unaccepted, Batch
  <2>2. /\ file \in [Batches -> Saved] /\ copies \in [Batches -> Records] /\ jobFile \in [Batches -> Files]
        /\ record \in [Batches -> Values] /\ items \in [Batches -> Records] /\ job \in [Batches -> Records]
        /\ faults \in Nat
    BY <1>0 DEF TypeOK, DiskType, MemoryType
  <2>3. faults' \in Nat /\ crashes' = crashes
    BY <1>6, <2>2 DEF Fault
  <2>4. /\ crit' \in Held /\ crit' # None /\ crit'.who = "submit" /\ crit'.what = "rollback" /\ crit'.batch = b
        /\ crit'.todo = members[b]
    BY <1>2, <1>3, <1>6, SectionIs DEF Enter, Owners, Sections
  <2>5. Shape'
    BY <1>2, <1>3, <2>4 DEF Shape
  <2>6. Submitting'
    <3>1. \A c \in Batches : Placed(c)' <=> Placed(c)
      BY <1>4, <1>6 DEF Placed, Queued
    <3> QED
      BY <1>2, <1>3, <1>4, <1>6, <2>1, <2>4, <3>1 DEF Submitting
  <2>7. Reserving'
    BY <2>4 DEF Reserving
  <2>8. \A c \in Batches : \A j \in Items : jobFile'[c][j] # jobFile[c][j] =>
           c = Batch /\ j \in members[Batch] /\ jobFile'[c][j] \in {"absent", "queued"}
    BY <1>4
  <2> QED
    BY <1>1, <1>3, <1>4, <1>6, <2>1, <2>2, <2>3, <2>4, <2>5, <2>6, <2>7, <2>8, SubmissionMoves
<1> QED
  BY <1>3, <1>5, <1>6 DEF Commit

-----------------------------------------------------------------------------
(* The lane writes records of the batch it executes.                        *)

\* The lock is not held by a start or a submission for the batch the lane runs.
LEMMA LaneIs ==
  ASSUME IInv, run # None
  PROVE  /\ run \in Batches /\ Going(run) /\ ~ By("start")
         /\ members[run] \subseteq Items /\ journal[run] \subseteq members[run]
         /\ \A c \in Batches : origin[c] # None => origin[c].parent # run
         /\ crit # None /\ crit.who # "lane" => crit.batch # run
         /\ \A n \in DOMAIN queue : queue[n] # run
<1>0. TypeOK /\ OnRecords /\ OnLane /\ OnLock
  BY DEF IInv
<1>1. run \in Batches /\ Going(run)
  BY <1>0 DEF TypeOK, LaneType, OnLane, Alive, Placed
<1>2. ~ By("start")
  BY <1>0 DEF OnLock, Starting
<1>3. members[run] \subseteq Items /\ journal[run] \subseteq members[run]
  BY <1>0, <1>1, Cells DEF OnRecords, OfMembers
<1>4. \A c \in Batches : origin[c] # None => origin[c].parent # run
  BY <1>0, <1>1 DEF OnRecords, Sourced, Going, Terminal, Active
<1>5. crit # None /\ crit.who # "lane" => crit.batch # run
  <2>1. ASSUME crit # None, crit.who # "lane", crit.batch = run PROVE FALSE
    <3>1. crit.who \in {"submit", "queue"}
      BY <1>0, <1>2, <2>1, Subject DEF By, Owners
    <3>2. crit.what \in {"jobs", "commit", "rollback"} => ~ Placed(run)
      BY <1>0, <2>1, <3>1 DEF OnLock, Submitting, By, Shape
    <3>3. crit.what \in {"clean", "end"} => ~ Placed(run)
      BY <1>0, <2>1, <3>1 DEF OnLock, Ending
    <3>4. crit.what \in Sections
      BY <1>0, <2>1, Subject
    <3> QED
      BY <1>0, <2>1, <3>1, <3>2, <3>3, <3>4 DEF OnLock, Shape, Sections, Placed
  <2> QED
    BY <2>1
<1>6. \A n \in DOMAIN queue : queue[n] # run
  BY <1>0 DEF OnLane, Queueing
<1> QED
  BY <1>1, <1>2, <1>3, <1>4, <1>5, <1>6

\* The record of an accepted batch is written, or kept in memory only.
LEMMA RecordWritten ==
  ASSUME IInv, NEW b \in Batches, NEW v \in Terminal \cup Active, NEW r \in Records,
         record[b] # "none", file[b] \notin {"absent", "complete"},
         \A c \in Batches : c # b => /\ file'[c] = file[c] /\ copies'[c] = copies[c] /\ record'[c] = record[c]
                                     /\ items'[c] = items[c] /\ told'[c] = told[c],
         told' \in [Batches -> SUBSET Items],
         record'[b] = v, items'[b] = r, \A i \in Items : i \in told'[b] <=> i \in told[b] \/ r[i] = "complete",
         (file'[b] = v /\ copies'[b] = r) \/ (file'[b] = file[b] /\ copies'[b] = copies[b]),
         UNCHANGED <<jobFile, output, journal, origin, members, job, pending>>,
         \A i \in Items : /\ r[i] = "complete" => Claimed(b, i)
                          /\ i \notin members[b] => r[i] = "none"
                          /\ i \in members[b] => r[i] # "none",
         v = "complete" => \A i \in members[b] : jobFile[b][i] = "complete" /\ r[i] = "complete",
         file[b] \in Terminal => v = "failed" /\ \A i \in members[b] : /\ r[i] \in {"failed", "complete"}
                                                                       /\ Claimed(b, i) => r[i] = "complete"
  PROVE  /\ OnRecords'
         /\ \A c \in Batches : Kept(c)' => Kept(c)
         /\ \A c \in Batches : \A i \in Items : Claimed(c, i)' => Claimed(c, i)
<1>0. TypeOK /\ OnRecords
  BY DEF IInv
<1>1. \A c \in Batches : members[c] \subseteq Items /\ journal[c] \subseteq Items /\ pending[c] \subseteq Items /\ told[c] \subseteq Items
  BY <1>0, Cells
<1>2. \A c \in Batches : origin[c] # None => origin[c].parent \in Batches
  BY <1>0, Cells
<1>3. v # "none" /\ v # "absent" /\ (v = "failed" => v \in Terminal)
  BY DEF Terminal, Active
<1>4. \A c \in Batches : \A i \in Items : Claimed(c, i)' => Claimed(c, i)
  BY <1>3 DEF Claimed
<1>5. ASSUME NEW c \in Batches, Lineage(c, file, copies)'
      PROVE  Lineage(c, file, copies)
  <2>1. CASE origin[c] = None
    BY <2>1 DEF Lineage
  <2>2. CASE origin[c] # None /\ origin[c].parent # b
    BY <1>2, <1>5, <2>2 DEF Lineage
  <2>3. CASE origin[c] # None /\ origin[c].parent = b
    <3>1. /\ file[b] \in Terminal /\ members[c] \subseteq members[b]
          /\ \A i \in members[c] : copies[b][i] \in Terminal /\ (origin[c].mode = "failed" => copies[b][i] \in {"failed", "complete"})
      BY <1>0, <2>3 DEF OnRecords, Sourced
    <3>2. ASSUME NEW i \in members[c] PROVE copies[b][i] # "complete"
      <4>1. copies[b][i] = "complete" => r[i] = "complete"
        BY <1>0, <1>1, <3>1 DEF OnRecords, Telling, Claimed
      <4>2. copies'[b][i] # "complete"
        BY <1>5, <2>3 DEF Lineage
      <4> QED
        BY <4>1, <4>2
    <3> QED
      BY <2>3, <3>1, <3>2 DEF Lineage, Terminal
  <2> QED
    BY <2>1, <2>2, <2>3
<1>6. Chained(file, copies)' \subseteq Chained(file, copies)
  BY <1>5, ChainedLess
<1>7. \A c \in Batches : Kept(c)' => Kept(c)
  BY <1>6 DEF Kept
<1>8. OnRecords'
  <2>1. OfMembers'
    <3>1. \A i \in Items \ members[b] : ~ Claimed(b, i)
      BY <1>0 DEF OnRecords, OfMembers, Claimed
    <3> QED
      BY <1>0, <3>1 DEF OnRecords, OfMembers
  <2>2. Unsubmitted' /\ Unaccepted' /\ Unloaded'
    BY <1>0, <1>3 DEF OnRecords, Unsubmitted, Unaccepted, Unloaded
  <2>3. Stated'
    BY <1>0, <1>1 DEF OnRecords, Stated
  <2>4. Sourced'
    <3>1. ASSUME NEW c \in Batches, origin[c] # None
          PROVE  LET p == origin[c].parent IN
                 /\ file'[p] \in Terminal /\ record'[p] \in Terminal \cup {"none"} /\ members[c] \subseteq members[p]
                 /\ \A i \in members[c] : copies'[p][i] \in Terminal
                                          /\ (origin[c].mode = "failed" => copies'[p][i] \in {"failed", "complete"})
      <4>1. CASE origin[c].parent # b
        BY <1>0, <1>2, <3>1, <4>1 DEF OnRecords, Sourced
      <4>2. CASE origin[c].parent = b
        <5>1. /\ file[b] \in Terminal /\ members[c] \subseteq members[b]
              /\ \A i \in members[c] : copies[b][i] \in Terminal /\ (origin[c].mode = "failed" => copies[b][i] \in {"failed", "complete"})
          BY <1>0, <3>1, <4>2 DEF OnRecords, Sourced
        <5>2. "failed" \in Terminal /\ "complete" \in Terminal
          BY Words
        <5> QED
          BY <4>2, <5>1, <5>2
      <4> QED
        BY <4>1, <4>2
    <3> QED
      BY <3>1 DEF Sourced
  <2>5. Pended' /\ Durable' /\ Journaled'
    BY <1>0 DEF OnRecords, Pended, Durable, Journaled
  <2>6. Agreeing'
    BY <1>0, <1>1 DEF OnRecords, Agreeing
  <2>7. Telling'
    BY <1>0 DEF OnRecords, Telling
  <2>8. Whole'
    BY <1>0, <1>1 DEF OnRecords, Whole
  <2>9. Firmly'
    <3>1. \A c \in Batches : \A i \in Items : Firm(c, i) => Firm(c, i)'
      BY DEF Firm
    <3> QED
      BY <1>0, <1>1, <1>4, <1>7, <3>1 DEF OnRecords, Firmly, UpTo
  <2> QED
    BY <2>1, <2>2, <2>3, <2>4, <2>5, <2>6, <2>7, <2>8, <2>9 DEF OnRecords
<1> QED
  BY <1>4, <1>7, <1>8

\* An image of a batch in memory counts as finished from now on.
LEMMA ItemCompletes ==
  ASSUME IInv, NEW b \in Batches, NEW i \in Items, record[b] # "none", i \in journal[b], output[b][i] = "whole",
         \A j \in members[b] : j < i => job[b][j] = "complete",
         Put(job', job, b, i, "complete"),
         \/ Put(jobFile', jobFile, b, i, "complete") /\ pending' = pending
         \/ jobFile' = jobFile /\ Row(pending', pending, b, pending[b] \cup {i}),
         UNCHANGED <<file, copies, output, journal, origin, members, record, items, told>>
  PROVE  /\ OnRecords'
         /\ \A c \in Batches : \A j \in Items : Claimed(c, j)' => Claimed(c, j) \/ (c = b /\ j = i)
         /\ i \in members[b]
<1>0. TypeOK /\ OnRecords
  BY DEF IInv
<1>1. \A c \in Batches : members[c] \subseteq Items /\ journal[c] \subseteq Items /\ pending[c] \subseteq Items /\ told[c] \subseteq Items
  BY <1>0, Cells
<1>2. i \in members[b] /\ file[b] # "absent"
  BY <1>0 DEF OnRecords, OfMembers, Unaccepted
<1>3. /\ \A c \in Batches : \A j \in Items : job'[c][j] = IF c = b /\ j = i THEN "complete" ELSE job[c][j]
      /\ \A c \in Batches : \A j \in Items : jobFile'[c][j] = jobFile[c][j] \/ (c = b /\ j = i /\ jobFile'[c][j] = "complete")
      /\ \A c \in Batches : \A j \in pending'[c] : j \in pending[c] \/ (c = b /\ j = i)
      /\ \A c \in Batches : pending[c] \subseteq pending'[c]
      /\ jobFile'[b][i] = "complete" \/ i \in pending'[b]
      /\ \A c \in Batches : c # b => pending'[c] = pending[c]
  BY DEF Put, Row
<1>4. \A c \in Batches : \A j \in Items : Claimed(c, j)' => Claimed(c, j) \/ (c = b /\ j = i)
  BY <1>3 DEF Claimed
<1>5. OnRecords'
  <2>1. OfMembers'
    BY <1>0, <1>1, <1>2, <1>3 DEF OnRecords, OfMembers
  <2>2. Unsubmitted' /\ Sourced' /\ Telling'
    BY <1>0 DEF OnRecords, Unsubmitted, Sourced, Telling
  <2>3. Unaccepted' /\ Unloaded'
    BY <1>0, <1>2, <1>3 DEF OnRecords, Unaccepted, Unloaded
  <2>4. Stated'
    BY <1>0, <1>1, <1>3 DEF OnRecords, Stated
  <2>5. Pended' /\ Agreeing'
    BY <1>0, <1>1, <1>3 DEF OnRecords, Pended, Agreeing
  <2>6. Whole' /\ Durable' /\ Journaled'
    BY <1>0, <1>1, <1>3 DEF OnRecords, Whole, Durable, Journaled
  <2>7. Firmly'
    <3>1. \A c \in Batches : Kept(c)' <=> Kept(c)
      BY DEF Kept, Chained, Lineage
    <3>2. \A c \in Batches : \A j \in Items : Firm(c, j) => Firm(c, j)'
      BY <1>3 DEF Firm
    <3>3. \A j \in UpTo(b, i) : Firm(b, j)
      <4>1. ASSUME NEW j \in members[b], j <= i PROVE Firm(b, j)
        <5>1. CASE j = i
          BY <5>1 DEF Firm
        <5>2. CASE j # i
          <6>0. i \in Nat /\ j \in Nat
            BY <1>1, BatchAssumption
          <6>1. j < i /\ j <= j
            BY <4>1, <5>2, <6>0
          <6>2. Claimed(b, j) /\ j \in UpTo(b, j)
            BY <6>1 DEF Claimed, UpTo
          <6> QED
            BY <1>0, <6>2 DEF OnRecords, Firmly, Kept
        <5> QED
          BY <5>1, <5>2
      <4> QED
        BY <4>1 DEF UpTo
    <3> QED
      BY <1>0, <1>1, <1>4, <3>1, <3>2, <3>3 DEF OnRecords, Firmly, UpTo
  <2> QED
    BY <2>1, <2>2, <2>3, <2>4, <2>5, <2>6, <2>7 DEF OnRecords
<1> QED
  BY <1>2, <1>4, <1>5

\* An image that is not finished gets another state, in its file or in memory only.
LEMMA ItemWritten ==
  ASSUME IInv, NEW b \in Batches, NEW i \in members[b], NEW y \in {"sampling", "failed", "cancelled"},
         record[b] # "none", job[b][i] # "complete", Put(job', job, b, i, y),
         Put(jobFile', jobFile, b, i, y) \/ jobFile' = jobFile,
         UNCHANGED <<file, copies, output, journal, origin, members, record, items, pending, told>>
  PROVE  /\ OnRecords'
         /\ \A c \in Batches : \A j \in Items : Claimed(c, j)' <=> Claimed(c, j)
<1>0. TypeOK /\ OnRecords
  BY DEF IInv
<1>1. \A c \in Batches : members[c] \subseteq Items /\ journal[c] \subseteq Items /\ pending[c] \subseteq Items /\ told[c] \subseteq Items
  BY <1>0, Cells
<1>2. jobFile[b][i] # "complete" /\ i \notin pending[b] /\ file[b] # "absent"
  BY <1>0, <1>1 DEF OnRecords, Agreeing, Pended, Unaccepted
<1>3. /\ \A c \in Batches : \A j \in Items : job'[c][j] = IF c = b /\ j = i THEN y ELSE job[c][j]
      /\ \A c \in Batches : \A j \in Items : jobFile'[c][j] = jobFile[c][j] \/ (c = b /\ j = i /\ jobFile'[c][j] = y)
      /\ \A c \in Batches : \A j \in Items : jobFile'[c][j] = "complete" <=> jobFile[c][j] = "complete"
      /\ \A c \in Batches : \A j \in Items : job'[c][j] = "complete" <=> job[c][j] = "complete"
  BY <1>1, <1>2 DEF Put
<1>4. \A c \in Batches : \A j \in Items : Claimed(c, j)' <=> Claimed(c, j)
  BY <1>3 DEF Claimed
<1>5. OnRecords'
  <2>1. OfMembers'
    BY <1>0, <1>1, <1>3 DEF OnRecords, OfMembers
  <2>2. Unsubmitted' /\ Sourced' /\ Telling' /\ Unloaded'
    BY <1>0 DEF OnRecords, Unsubmitted, Sourced, Telling, Unloaded
  <2>3. Unaccepted'
    BY <1>0, <1>3 DEF OnRecords, Unaccepted
  <2>4. Stated'
    BY <1>0, <1>1, <1>3 DEF OnRecords, Stated
  <2>5. Pended' /\ Agreeing'
    BY <1>0, <1>1, <1>3 DEF OnRecords, Pended, Agreeing
  <2>6. Whole' /\ Durable' /\ Journaled'
    BY <1>0, <1>1, <1>3 DEF OnRecords, Whole, Durable, Journaled
  <2>7. Firmly'
    <3>1. \A c \in Batches : Kept(c)' <=> Kept(c)
      BY DEF Kept, Chained, Lineage
    <3>2. \A c \in Batches : \A j \in Items : Firm(c, j) <=> Firm(c, j)'
      BY <1>3 DEF Firm
    <3> QED
      BY <1>0, <1>1, <1>4, <3>1, <3>2 DEF OnRecords, Firmly, UpTo
  <2> QED
    BY <2>1, <2>2, <2>3, <2>4, <2>5, <2>6, <2>7 DEF OnRecords
<1> QED
  BY <1>4, <1>5

\* The lane has changed an image of its batch, or none, and keeps the lock,
\* passes it on or leaves it.
LEMMA LaneGoesOn ==
  ASSUME IInv, NEW b \in Batches, b = run, run # None, crit # None, crit.who = "lane", pc # "finish",
         UNCHANGED <<file, copies, output, journal, origin, members, record, items, told>>,
         UNCHANGED <<queue, run, cancelled, seen, crashes>>, faults' \in Nat, worker' \in {"none", "run", "ok", "failed"},
         jobFile' \in [Batches -> Files], job' \in [Batches -> Records], pending' \in [Batches -> SUBSET Items],
         \A c \in Batches : c # b => \A j \in Items : jobFile'[c][j] = jobFile[c][j] /\ job'[c][j] = job[c][j],
         \A c \in Batches : c # b => pending'[c] = pending[c],
         \A j \in Items : jobFile[b][j] # "absent" => jobFile'[b][j] # "absent",
         \/ pc' = pc /\ pending'[b] = pending[b]
         \/ pc' \in {"drain", "except"},
         OnRecords',
         crit' = None \/ (crit' \in Held /\ crit'.who = "lane" /\ crit'.what \in {"record", "save"} /\ crit'.batch = run),
         Shape',
         \A i \in members[b] : Claimed(b, i)' => \A j \in UpTo(b, i) : job'[b][j] = "complete"
  PROVE  IInv'
<1>0. TypeOK /\ OnRecords /\ OnLane /\ OnLock
  BY DEF IInv
<1>1. /\ Going(b) /\ ~ By("start") /\ members[b] \subseteq Items /\ journal[b] \subseteq members[b]
      /\ \A n \in DOMAIN queue : queue[n] # b
  BY LaneIs
<1>2. \A c \in Batches : (Placed(c)' <=> Placed(c)) /\ (Queued(c)' <=> Queued(c))
  BY DEF Placed, Queued
<1>3. \A c \in Batches : members[c] \subseteq Items
  BY <1>0, Cells
<1>4. TypeOK'
  <2>1. DiskType' /\ MemoryType'
    BY <1>0 DEF TypeOK, DiskType, MemoryType
  <2>2. LaneType'
    BY <1>0 DEF TypeOK, LaneType
  <2>3. LockType'
    BY <1>0 DEF LockType
  <2> QED
    BY <2>1, <2>2, <2>3 DEF TypeOK
<1>5. OnLane'
  <2>1. Alive'
    BY <1>0, <1>2, <1>3 DEF OnLane, Alive, Going
  <2>2. Queueing' /\ Seeing'
    <3>1. worker' \in {"none", "run", "ok", "failed"}
      OBVIOUS
    <3> QED
      BY <1>0 DEF OnLane, Queueing, Seeing
  <2>3. Fresh'
    BY <1>0, <1>1, <1>2 DEF OnLane, Fresh, Queued
  <2> QED
    BY <2>1, <2>2, <2>3 DEF OnLane
<1>6. OnLock'
  <2>1. Submitting' /\ Reserving' /\ Ending' /\ Starting' /\ Replaying'
    BY DEF Submitting, Reserving, Ending, Starting, Replaying, By, On
  <2>2. Shown'
    <3>1. \A c \in Batches : record[c] \in Terminal => c # b
      BY <1>1 DEF Going, Active, Terminal
    <3>2. \A c \in Batches : c # b => ~ On(c)
      BY <1>0, BatchAssumption DEF OnLock, Shape, On, TypeOK, LockType, Held, Sections
    <3>3. \A c \in Batches : c # b => job'[c] = job[c]
      <4>1. \A c \in Batches : job'[c] \in Records /\ job[c] \in Records
        BY <1>0 DEF TypeOK, MemoryType
      <4> QED
        BY <4>1 DEF Records
    <3> QED
      BY <1>0, <1>1, <3>1, <3>2, <3>3 DEF OnLock, Shown, By
  <2>3. Knowing'
    <3>1. \A c \in Batches : Working(c)' => Working(c)
      BY <1>1 DEF Working, By
    <3>2. \A c \in Batches : c # b => \A i \in Items : Claimed(c, i)' => Claimed(c, i)
      BY DEF Claimed
    <3> QED
      BY <1>0, <1>3, <3>1, <3>2 DEF OnLock, Knowing, UpTo
  <2> QED
    BY <2>1, <2>2, <2>3 DEF OnLock
<1> QED
  BY <1>4, <1>5, <1>6 DEF IInv

\* An event could not be consumed.
LEMMA LaneBreaks ==
  ASSUME IInv, run # None, crit # None, crit.who = "lane", crit.what \in {"sample", "item", "record"}, Break, Fault \/ NoFault,
         UNCHANGED <<file, copies, jobFile, output, journal, origin, members, record, items, job, pending, told>>,
         UNCHANGED <<queue, cancelled>>
  PROVE  IInv'
<1>0. TypeOK /\ OnRecords /\ OnLane /\ OnLock
  BY DEF IInv
<1>1. PICK b \in Batches : b = run
  BY <1>0 DEF TypeOK, LaneType
<1>2. /\ crit' = None /\ run' = run /\ seen' = seen /\ worker' = "none" /\ pc' \in {"drain", "except"}
      /\ faults' \in Nat /\ crashes' = crashes
  BY <1>0 DEF Break, Goto, Leave, Fault, NoFault, bounds, TypeOK, MemoryType
<1>3. pc # "finish"
  BY <1>0 DEF TypeOK, LockType
<1>4. OnRecords'
  BY <1>0, RecordsStay
<1>5. Shape'
  BY <1>2 DEF Shape
<1>6. \A i \in members[b] : Claimed(b, i)' => \A j \in UpTo(b, i) : job'[b][j] = "complete"
  <2>1. Working(b)
    BY <1>1, LaneIs DEF Working, Going
  <2> QED
    BY <1>0, <2>1 DEF OnLock, Knowing, Claimed
<1>7. jobFile' \in [Batches -> Files] /\ job' \in [Batches -> Records] /\ pending' \in [Batches -> SUBSET Items]
  BY <1>0 DEF TypeOK, DiskType, MemoryType
<1> QED
  BY <1>1, <1>2, <1>3, <1>4, <1>5, <1>6, <1>7, LaneGoesOn

\* The lane saves a record of its batch that is still active.
LEMMA LaneSaves ==
  ASSUME IInv, NEW b \in Batches, b = run, run # None, NEW v \in Active, NEW r \in Records,
         crit = None \/ crit.who = "lane", BatchSaved(b, v, r), crit' = None,
         UNCHANGED <<jobFile, output, journal, origin, members, job, pending, queue, run, worker, cancelled>>,
         \A i \in Items : /\ r[i] = "complete" => Claimed(b, i)
                          /\ i \notin members[b] => r[i] = "none"
                          /\ i \in members[b] => r[i] # "none",
         pc # "finish", pc' = pc \/ (pc = "prepare" /\ pc' = "native"), seen' \subseteq journal[run]
  PROVE  IInv'
<1>0. TypeOK /\ OnRecords /\ OnLane /\ OnLock
  BY DEF IInv
<1>1. /\ Going(b) /\ ~ By("start") /\ members[b] \subseteq Items /\ journal[b] \subseteq members[b]
      /\ \A n \in DOMAIN queue : queue[n] # b
  BY LaneIs
<1>2. /\ file' \in [Batches -> Saved] /\ copies' \in [Batches -> Records] /\ record' \in [Batches -> Values]
      /\ items' \in [Batches -> Records] /\ told' \in [Batches -> SUBSET Items]
      /\ \A c \in Batches : c # b => /\ file'[c] = file[c] /\ copies'[c] = copies[c] /\ record'[c] = record[c]
                                     /\ items'[c] = items[c] /\ told'[c] = told[c]
      /\ file'[b] = v /\ copies'[b] = r /\ record'[b] = v /\ items'[b] = r
      /\ \A i \in Items : i \in told'[b] <=> i \in told[b] \/ r[i] = "complete"
      /\ UNCHANGED <<faults, crashes>>
  BY <1>0, SavedDoes
<1>3. /\ record[b] \in Active /\ file[b] \in Active /\ record[b] # "none" /\ file[b] \notin {"absent", "complete"}
      /\ file[b] \notin Terminal /\ v # "complete" /\ v \notin Terminal /\ v \in Terminal \cup Active
  BY <1>1 DEF Going, Active, Terminal
<1>4. /\ OnRecords' /\ \A c \in Batches : \A i \in Items : Claimed(c, i)' => Claimed(c, i)
  <2>1. v \in Terminal \cup Active /\ record[b] # "none" /\ file[b] \notin {"absent", "complete"}
    BY <1>3
  <2>2. v = "complete" => \A i \in members[b] : jobFile[b][i] = "complete" /\ r[i] = "complete"
    BY <1>3
  <2>3. file[b] \in Terminal => v = "failed" /\ \A i \in members[b] : /\ r[i] \in {"failed", "complete"}
                                                                      /\ Claimed(b, i) => r[i] = "complete"
    BY <1>3
  <2>4. \A c \in Batches : c # b => /\ file'[c] = file[c] /\ copies'[c] = copies[c] /\ record'[c] = record[c]
                                     /\ items'[c] = items[c] /\ told'[c] = told[c]
    BY <1>2
  <2>5. told' \in [Batches -> SUBSET Items] /\ record'[b] = v /\ items'[b] = r
    BY <1>2
  <2>6. (file'[b] = v /\ copies'[b] = r) \/ (file'[b] = file[b] /\ copies'[b] = copies[b])
    BY <1>2
  <2>7. \A i \in Items : i \in told'[b] <=> i \in told[b] \/ r[i] = "complete"
    BY <1>2
  <2>8. UNCHANGED <<jobFile, output, journal, origin, members, job, pending>>
    OBVIOUS
  <2> QED
    BY <2>1, <2>2, <2>3, <2>4, <2>5, <2>6, <2>7, <2>8, RecordWritten
<1>5. \A c \in Batches : Placed(c)' <=> Placed(c)
  BY DEF Placed, Queued
<1>6. TypeOK'
  <2>1. DiskType' /\ MemoryType'
    BY <1>0, <1>2 DEF TypeOK, DiskType, MemoryType
  <2>2. LaneType' /\ LockType'
    BY <1>0, <1>1 DEF TypeOK, LaneType, LockType
  <2> QED
    BY <2>1, <2>2 DEF TypeOK
<1>7. OnLane'
  <2>1. Alive'
    BY <1>0, <1>1, <1>2, <1>5 DEF OnLane, Alive, Going
  <2>2. Queueing' /\ Fresh' /\ Seeing'
    BY <1>0 DEF OnLane, Queueing, Fresh, Seeing, Queued
  <2> QED
    BY <2>1, <2>2 DEF OnLane
<1>8. OnLock'
  <2>1. Shape' /\ Submitting' /\ Reserving' /\ Ending' /\ Starting' /\ Replaying'
    BY DEF Shape, Submitting, Reserving, Ending, Starting, Replaying, By, On
  <2>2. Shown'
    <3>1. \A c \in Batches : c # b => ~ On(c)
      BY <1>0, <1>1 DEF OnLock, Shape, On, TypeOK, LockType, Held, Sections
    <3> QED
      BY <1>0, <1>2, <1>3, <3>1 DEF OnLock, Shown, By
  <2>3. Knowing'
    <3>1. \A c \in Batches : Working(c)' => Working(c)
      BY <1>1, <1>2, <1>3 DEF Working, By
    <3> QED
      BY <1>0, <1>4, <3>1, Cells DEF OnLock, Knowing, UpTo
  <2> QED
    BY <2>1, <2>2, <2>3 DEF OnLock
<1> QED
  BY <1>4, <1>6, <1>7, <1>8 DEF IInv

LEMMA PrepareStep ==
  ASSUME IInv, Prepare
  PROVE  IInv'
<1>0. TypeOK /\ OnRecords
  BY DEF IInv
<1>1. run # None /\ run \in Batches /\ crit = None /\ crit' = None /\ pc = "prepare"
  BY <1>0 DEF Prepare, Free, TypeOK, LaneType
<1>2. UNCHANGED <<jobFile, output, journal, origin, members, job, pending, queue, cancelled, crit>>
  BY DEF Prepare, frozen
<1>3. PICK b \in Batches : b = run
  BY <1>1
<1>4. CASE BatchSaved(run, "preparing", items[run]) /\ Goto("native") /\ UNCHANGED <<worker, seen>>
  <2>1. PICK r \in Records : r = items[b]
    BY <1>0 DEF TypeOK, MemoryType
  <2>2. BatchSaved(b, "preparing", r) /\ "preparing" \in Active
    BY <1>3, <1>4, <2>1, Words
  <2>3. \A i \in Items : /\ r[i] = "complete" => Claimed(b, i)
                         /\ i \notin members[b] => r[i] = "none"
                         /\ i \in members[b] => r[i] # "none"
    <3>1. record[b] # "none"
      BY <1>1, <1>3, LaneIs DEF Going, Active
    <3> QED
      BY <1>0, <2>1, <3>1 DEF OnRecords, Telling, Claimed, OfMembers, Stated
  <2>4. pc' = "native" /\ UNCHANGED run
    BY <1>4 DEF Goto
  <2>5. seen' \subseteq journal[run]
    BY <1>1, <1>4 DEF IInv, OnLane, Seeing
  <2> QED
    BY <1>1, <1>2, <1>3, <1>4, <2>2, <2>3, <2>4, <2>5, LaneSaves
<1>5. CASE Raise /\ UNCHANGED <<file, copies, record, items, told>> /\ (NoFault \/ Fault)
  <2>1. UNCHANGED <<run, seen, crashes>> /\ worker' = "none" /\ pc' = "except" /\ faults' \in Nat
    BY <1>0, <1>5 DEF Raise, Goto, NoFault, Fault, bounds, TypeOK, MemoryType
  <2> QED
    BY <1>1, <1>2, <1>5, <2>1, LaneMoves
<1> QED
  BY <1>4, <1>5 DEF Prepare

LEMMA SaveRecordStep ==
  ASSUME IInv, SaveRecord
  PROVE  IInv'
<1>0. TypeOK /\ OnRecords /\ OnLane /\ OnLock
  BY DEF IInv
<1>1. /\ crit # None /\ crit.who = "lane" /\ crit.what = "record" /\ Batch = run /\ run # None /\ pc \in {"render", "drain"}
  BY <1>0 DEF SaveRecord, Holds, OnLock, Shape, Batch
<1>2. PICK b \in Batches : b = run
  BY <1>1, LaneIs
<1>3. /\ Going(b) /\ ~ By("start") /\ members[b] \subseteq Items /\ journal[b] \subseteq members[b]
  BY <1>1, <1>2, LaneIs
<1>4. PICK i \in Items : i = Item /\ i \in members[b] /\ crit.todo = {i} /\ (i \in journal[b] \/ job[b][i] = "sampling")
  <2>1. Item \in crit.todo /\ Item \in Items
    BY <1>0, <1>1, Subject DEF OnLock, Shape
  <2> QED
    BY <1>0, <1>1, <1>2, <2>1 DEF OnLock, Shape
<1>5. UNCHANGED <<jobFile, output, journal, origin, members, job, pending, queue, cancelled>>
  BY DEF SaveRecord, frozen
<1>6. record[b] \in Active /\ record[b] # "none"
  BY <1>3 DEF Going, Active
<1>7. CASE /\ Leave /\ BatchSaved(Batch, IF job[Batch][Item] = "sampling" THEN "sampling" ELSE record[Batch],
                                  [items[Batch] EXCEPT ![Item] = job[Batch][Item]])
           /\ seen' = IF job[Batch][Item] = "complete" THEN seen \cup {Item} ELSE seen
           /\ UNCHANGED <<run, pc, worker>>
  <2>1. PICK v \in Active : v = IF job[b][i] = "sampling" THEN "sampling" ELSE record[b]
    BY <1>6, Words
  <2>2. items[b] \in Records /\ job[b][i] \in Values
    BY <1>0, Cells DEF TypeOK, MemoryType
  <2>3. PICK r \in Records : r = [items[b] EXCEPT ![i] = job[b][i]] /\ \A j \in Items : r[j] = IF j = i THEN job[b][i] ELSE items[b][j]
    <3>1. [items[b] EXCEPT ![i] = job[b][i]] \in Records
      BY <2>2, RowPut
    <3> QED
      BY <2>2, <3>1 DEF Records
  <2>4. BatchSaved(b, v, r)
    BY <1>1, <1>2, <1>4, <1>7, <2>1, <2>3
  <2>5. \A j \in Items : /\ r[j] = "complete" => Claimed(b, j)
                         /\ j \notin members[b] => r[j] = "none"
                         /\ j \in members[b] => r[j] # "none"
    BY <1>0, <1>4, <1>6, <2>3 DEF OnRecords, Telling, Claimed, OfMembers, Stated
  <2>6. seen' \subseteq journal[run]
    <3>1. seen \subseteq journal[run]
      BY <1>0, <1>1 DEF OnLane, Seeing
    <3> QED
      BY <1>1, <1>2, <1>4, <1>7, <3>1
  <2> QED
    BY <1>1, <1>2, <1>5, <1>7, <2>4, <2>5, <2>6, LaneSaves DEF Leave
<1>8. CASE Fault /\ UNCHANGED <<file, copies, record, items, told>> /\ Break
  BY <1>1, <1>5, <1>8, LaneBreaks
<1> QED
  BY <1>7, <1>8 DEF SaveRecord

\* What the lane is about while it handles an event.
LEMMA LaneHolds ==
  ASSUME IInv, crit # None, crit.what \in {"sample", "record", "item"}
  PROVE  \E b \in Batches, i \in Items :
            /\ b = run /\ b = Batch /\ i = Item /\ run # None /\ crit.who = "lane" /\ crit \in Held /\ crit.batch = b
            /\ crit.todo = {i} /\ i \in members[b] /\ pc \in {"render", "drain"} /\ record[b] # "none" /\ Working(b)
<1>0. TypeOK /\ OnLock
  BY DEF IInv
<1>1. crit.who = "lane" /\ run # None /\ crit.batch = run /\ \E i \in members[run] : crit.todo = {i}
  BY <1>0 DEF OnLock, Shape
<1>2. PICK b \in Batches : b = run
  BY <1>1, LaneIs
<1>3. PICK i \in members[b] : crit.todo = {i}
  BY <1>1, <1>2
<1>4. i \in Items /\ i = Item /\ crit \in Held
  BY <1>0, <1>3, Subject
<1>5. pc \in {"render", "drain"}
  BY <1>0 DEF OnLock, Shape
<1>6. record[b] # "none" /\ Working(b)
  BY <1>1, <1>2, LaneIs DEF Going, Working, Active
<1> QED
  BY <1>1, <1>2, <1>3, <1>4, <1>5, <1>6 DEF Batch

\* A row of jobs, and all of them, from their values.
LEMMA SameJobs ==
  ASSUME job \in [Batches -> Records], job' \in [Batches -> Records],
         \A c \in Batches : \A j \in Items : job'[c][j] = job[c][j]
  PROVE  job' = job
<1>1. \A c \in Batches : job'[c] = job[c]
  <2>1. \A c \in Batches : job'[c] \in Records /\ job[c] \in Records
    OBVIOUS
  <2> QED
    BY <2>1 DEF Records
<1> QED
  BY <1>1

LEMMA SampleStep ==
  ASSUME IInv, Sample
  PROVE  IInv'
<1>0. TypeOK /\ OnRecords /\ OnLane /\ OnLock
  BY DEF IInv
<1>1. crit # None /\ crit.what = "sample"
  BY DEF Sample, Holds
<1>2. PICK b \in Batches, i \in Items :
         /\ b = run /\ b = Batch /\ i = Item /\ run # None /\ crit.who = "lane" /\ crit \in Held /\ crit.batch = b
         /\ crit.todo = {i} /\ i \in members[b] /\ pc \in {"render", "drain"} /\ record[b] # "none" /\ Working(b)
  BY <1>1, LaneHolds
<1>3. job[b][i] = "queued"
  BY <1>0, <1>1, <1>2 DEF OnLock, Shape
<1>4. UNCHANGED <<file, copies, output, journal, origin, members, record, items, pending, queue, cancelled, told>>
  BY DEF Sample, frozen
<1>5. CASE JobSaved(Batch, Item, "sampling") /\ Enter([crit EXCEPT !.what = "record"]) /\ UNCHANGED lane
  <2>1. /\ jobFile' = [jobFile EXCEPT ![b][i] = "sampling"] /\ job' = [job EXCEPT ![b][i] = "sampling"]
        /\ UNCHANGED <<run, pc, worker, seen, faults, crashes>> /\ crit' = [crit EXCEPT !.what = "record"]
    BY <1>2, <1>5 DEF JobSaved, NoFault, bounds, lane, Enter
  <2>2. "sampling" \in Values /\ "sampling" \in Saved
    BY Words
  <2>3. jobFile' \in [Batches -> Files] /\ Put(jobFile', jobFile, b, i, "sampling")
    <3>1. jobFile \in [Batches -> Files]
      BY <1>0 DEF TypeOK, DiskType
    <3> QED
      BY <2>1, <2>2, <3>1, PutFile
  <2>4. job' \in [Batches -> Records] /\ Put(job', job, b, i, "sampling")
    <3>1. job \in [Batches -> Records]
      BY <1>0 DEF TypeOK, MemoryType
    <3> QED
      BY <2>1, <2>2, <3>1, PutJob
  <2>5. OnRecords' /\ \A c \in Batches : \A j \in Items : Claimed(c, j)' <=> Claimed(c, j)
    BY <1>2, <1>3, <1>4, <2>3, <2>4, ItemWritten
  <2>6. /\ crit' \in Held /\ crit' # None /\ crit'.who = "lane" /\ crit'.what = "record" /\ crit'.batch = b
        /\ crit'.todo = {i}
    <3>1. "record" \in Sections
      BY DEF Sections
    <3> QED
      BY <1>2, <2>1, <3>1, HeldWhat
  <2>7. Shape'
    <3>1. job'[b][i] = "sampling"
      BY <2>4 DEF Put
    <3> QED
      BY <1>2, <1>4, <2>1, <2>6, <3>1 DEF Shape
  <2>8. \A j \in members[b] : Claimed(b, j)' => \A k \in UpTo(b, j) : job'[b][k] = "complete"
    <3>1. members[b] \subseteq Items
      BY <1>0, Cells
    <3>2. \A j \in members[b] : Claimed(b, j) => \A k \in UpTo(b, j) : job[b][k] = "complete"
      BY <1>0, <1>2 DEF OnLock, Knowing
    <3>3. \A k \in Items : job[b][k] = "complete" => job'[b][k] = "complete"
      BY <1>3, <2>4 DEF Put
    <3> QED
      BY <2>5, <3>1, <3>2, <3>3 DEF UpTo
  <2>9. \A c \in Batches : c # b => \A j \in Items : jobFile'[c][j] = jobFile[c][j] /\ job'[c][j] = job[c][j]
    BY <2>3, <2>4 DEF Put
  <2>10. \A j \in Items : jobFile[b][j] # "absent" => jobFile'[b][j] # "absent"
    BY <2>3 DEF Put
  <2>11. /\ worker' \in {"none", "run", "ok", "failed"} /\ faults' \in Nat /\ pending' \in [Batches -> SUBSET Items]
         /\ pc # "finish"
    BY <1>0, <1>2, <1>4, <2>1 DEF TypeOK, LaneType, MemoryType
  <2>12. /\ UNCHANGED <<file, copies, output, journal, origin, members, record, items, told>>
         /\ UNCHANGED <<queue, run, cancelled, seen, crashes>>
         /\ \A c \in Batches : c # b => pending'[c] = pending[c]
         /\ pc' = pc /\ pending'[b] = pending[b]
    BY <1>4, <2>1
  <2> QED
    BY <1>1, <1>2, <2>3, <2>4, <2>5, <2>6, <2>7, <2>8, <2>9, <2>10, <2>11, <2>12, LaneGoesOn
<1>6. CASE Fault /\ Break /\ UNCHANGED <<jobFile, job>>
  BY <1>1, <1>2, <1>4, <1>6, LaneBreaks
<1> QED
  BY <1>5, <1>6 DEF Sample

LEMMA CompleteItemStep ==
  ASSUME IInv, CompleteItem
  PROVE  IInv'
<1>0. TypeOK /\ OnRecords /\ OnLane /\ OnLock
  BY DEF IInv
<1>1. crit # None /\ crit.what = "item"
  BY DEF CompleteItem, Holds
<1>2. PICK b \in Batches, i \in Items :
         /\ b = run /\ b = Batch /\ i = Item /\ run # None /\ crit.who = "lane" /\ crit \in Held /\ crit.batch = b
         /\ crit.todo = {i} /\ i \in members[b] /\ pc \in {"render", "drain"} /\ record[b] # "none" /\ Working(b)
  BY <1>1, LaneHolds
<1>3. i \in journal[b] /\ members[b] \subseteq Items
  BY <1>0, <1>1, <1>2, Cells DEF OnLock, Shape
<1>4. UNCHANGED <<file, copies, output, journal, origin, members, record, items, queue, cancelled, told>>
  BY DEF CompleteItem, frozen
<1>5. /\ jobFile \in [Batches -> Files] /\ job \in [Batches -> Records] /\ pending \in [Batches -> SUBSET Items]
      /\ faults \in Nat /\ worker \in {"none", "run", "ok", "failed"} /\ pc # "finish"
  BY <1>0, <1>2 DEF TypeOK, DiskType, MemoryType, LaneType
<1>6. \A j \in members[b] : Claimed(b, j) => \A k \in UpTo(b, j) : job[b][k] = "complete"
  BY <1>0, <1>2 DEF OnLock, Knowing
<1>7. "complete" \in Values /\ "complete" \in Saved
  BY Words
<1>8. ASSUME crit' = [crit EXCEPT !.what = "record"], UNCHANGED lane
      PROVE  /\ crit' \in Held /\ crit' # None /\ crit'.who = "lane" /\ crit'.what = "record" /\ crit'.batch = run
             /\ Shape'
  <2>1. /\ crit' \in Held /\ crit' # None /\ crit'.who = "lane" /\ crit'.what = "record" /\ crit'.batch = run
        /\ crit'.todo = {i}
    <3>1. "record" \in Sections
      BY DEF Sections
    <3> QED
      BY <1>2, <1>8, <3>1, HeldWhat
  <2> QED
    BY <1>2, <1>3, <1>4, <1>8, <2>1 DEF Shape, lane
<1>9. CASE /\ Known(Batch, Item) /\ job' = [job EXCEPT ![Batch][Item] = "complete"]
           /\ Enter([crit EXCEPT !.what = "record"])
           /\ NoFault /\ UNCHANGED <<jobFile, pending, lane>>
  <2>1. job[b][i] = "complete"
    BY <1>0, <1>2, <1>9 DEF Known, OnRecords, Pended
  <2>2. job' \in [Batches -> Records] /\ Put(job', job, b, i, "complete")
    BY <1>2, <1>5, <1>7, <1>9, PutJob
  <2>3. job' = job
    BY <1>5, <2>1, <2>2, SameJobs DEF Put
  <2>4. UNCHANGED <<run, pc, worker, seen, faults, crashes, jobFile, pending>> /\ UNCHANGED lane
        /\ crit' = [crit EXCEPT !.what = "record"]
    BY <1>9 DEF lane, NoFault, bounds, Enter
  <2>5. OnRecords'
    BY <1>0, <1>4, <2>3, <2>4, RecordsStay
  <2>6. \A j \in members[b] : Claimed(b, j)' => \A k \in UpTo(b, j) : job'[b][k] = "complete"
    BY <1>4, <1>6, <2>3, <2>4 DEF Claimed
  <2>7. /\ \A c \in Batches : c # b => \A j \in Items : jobFile'[c][j] = jobFile[c][j] /\ job'[c][j] = job[c][j]
        /\ \A c \in Batches : c # b => pending'[c] = pending[c]
        /\ \A j \in Items : jobFile[b][j] # "absent" => jobFile'[b][j] # "absent"
    BY <2>3, <2>4
  <2>8. /\ faults' \in Nat /\ worker' \in {"none", "run", "ok", "failed"}
        /\ jobFile' \in [Batches -> Files] /\ job' \in [Batches -> Records] /\ pending' \in [Batches -> SUBSET Items]
    BY <1>5, <2>3, <2>4
  <2> QED
    BY <1>1, <1>2, <1>4, <1>5, <1>8, <2>4, <2>5, <2>6, <2>7, <2>8, LaneGoesOn
<1>10. CASE /\ ~ Known(Batch, Item) /\ Valid(Batch, Item)
            /\ \/ JobSaved(Batch, Item, "complete") /\ Enter([crit EXCEPT !.what = "record"]) /\ UNCHANGED <<pending, lane>>
               \/ KeepPending(Batch, Item) /\ Break
  <2>1. output[b][i] = "whole" /\ \A j \in members[b] : j < i => job[b][j] = "complete"
    BY <1>2, <1>10 DEF Valid
  <2>2. /\ job' = [job EXCEPT ![b][i] = "complete"]
        /\ \/ jobFile' = [jobFile EXCEPT ![b][i] = "complete"] /\ pending' = pending
           \/ jobFile' = jobFile /\ pending' = [pending EXCEPT ![b] = @ \cup {i}]
    BY <1>2, <1>10 DEF JobSaved, KeepPending
  <2>3. job' \in [Batches -> Records] /\ Put(job', job, b, i, "complete")
    BY <1>5, <1>7, <2>2, PutJob
  <2>4. /\ jobFile' \in [Batches -> Files] /\ pending' \in [Batches -> SUBSET Items]
        /\ \/ Put(jobFile', jobFile, b, i, "complete") /\ pending' = pending
           \/ jobFile' = jobFile /\ Row(pending', pending, b, pending[b] \cup {i})
    <3>1. CASE jobFile' = [jobFile EXCEPT ![b][i] = "complete"] /\ pending' = pending
      BY <1>5, <1>7, <3>1, PutFile
    <3>2. CASE jobFile' = jobFile /\ pending' = [pending EXCEPT ![b] = @ \cup {i}]
      BY <1>5, <3>2 DEF Row
    <3> QED
      BY <2>2, <3>1, <3>2
  <2>5. OnRecords' /\ \A c \in Batches : \A j \in Items : Claimed(c, j)' => Claimed(c, j) \/ (c = b /\ j = i)
    BY <1>2, <1>3, <1>4, <2>1, <2>3, <2>4, ItemCompletes
  <2>6. \A j \in members[b] : Claimed(b, j)' => \A k \in UpTo(b, j) : job'[b][k] = "complete"
    <3>1. \A k \in Items : job[b][k] = "complete" \/ k = i => job'[b][k] = "complete"
      BY <2>3 DEF Put
    <3>2. \A k \in UpTo(b, i) : job'[b][k] = "complete"
      <4>1. ASSUME NEW k \in members[b], k <= i PROVE k = i \/ job[b][k] = "complete"
        <5>1. k \in Nat /\ i \in Nat
          BY <1>3, BatchAssumption
        <5> QED
          BY <2>1, <4>1, <5>1
      <4> QED
        BY <1>3, <3>1, <4>1 DEF UpTo
    <3> QED
      BY <1>3, <1>6, <2>5, <3>1, <3>2 DEF UpTo
  <2>7. /\ \A c \in Batches : c # b => \A j \in Items : jobFile'[c][j] = jobFile[c][j] /\ job'[c][j] = job[c][j]
        /\ \A c \in Batches : c # b => pending'[c] = pending[c]
        /\ \A j \in Items : jobFile[b][j] # "absent" => jobFile'[b][j] # "absent"
    BY <2>3, <2>4 DEF Put, Row
  <2>8. CASE JobSaved(Batch, Item, "complete") /\ Enter([crit EXCEPT !.what = "record"]) /\ UNCHANGED <<pending, lane>>
    <3>1. UNCHANGED <<run, pc, worker, seen, faults, crashes, pending>> /\ UNCHANGED lane
          /\ crit' = [crit EXCEPT !.what = "record"]
      BY <2>8 DEF lane, JobSaved, NoFault, bounds, Enter
    <3>2. faults' \in Nat /\ worker' \in {"none", "run", "ok", "failed"}
      BY <1>5, <3>1
    <3> QED
      BY <1>1, <1>2, <1>4, <1>5, <1>8, <2>3, <2>4, <2>5, <2>6, <2>7, <3>1, <3>2, LaneGoesOn
  <2>9. CASE KeepPending(Batch, Item) /\ Break
    <3>1. UNCHANGED <<run, seen, crashes>> /\ crit' = None /\ pc' \in {"drain", "except"} /\ worker' = "none" /\ faults' \in Nat
      BY <1>5, <2>9 DEF KeepPending, Fault, Break, Leave, Goto
    <3>2. Shape'
      BY <3>1 DEF Shape
    <3> QED
      BY <1>1, <1>2, <1>4, <1>5, <2>3, <2>4, <2>5, <2>6, <2>7, <3>1, <3>2, LaneGoesOn
  <2> QED
    BY <1>10, <2>8, <2>9
<1>11. CASE Break /\ NoFault /\ UNCHANGED <<jobFile, job, pending>>
  BY <1>1, <1>2, <1>4, <1>11, LaneBreaks
<1> QED
  BY <1>9, <1>10, <1>11 DEF CompleteItem

LEMMA VerifyItemsStep ==
  ASSUME IInv, VerifyItems
  PROVE  IInv'
<1>0. TypeOK /\ OnRecords /\ OnLane /\ OnLock
  BY DEF IInv
<1>1. /\ crit # None /\ crit.what = "verify" /\ crit.who = "lane" /\ run # None /\ crit.batch = run /\ pc = "verify"
      /\ crit \in Held
  BY <1>0, Subject DEF VerifyItems, Holds, OnLock, Shape
<1>2. PICK b \in Batches : b = run /\ b = Batch
  BY <1>1, LaneIs DEF Batch
<1>3. /\ UNCHANGED <<file, copies, output, journal, origin, members, record, items, told>>
      /\ UNCHANGED <<queue, run, cancelled, seen, crashes, pc, worker, faults, pending, jobFile>>
      /\ crit' = [crit EXCEPT !.what = "save"] /\ job' = [job EXCEPT ![b] = States(b, "complete")]
  BY <1>2 DEF VerifyItems, disk, frozen, lane, bounds, Enter
<1>4. /\ jobFile \in [Batches -> Files] /\ job \in [Batches -> Records] /\ pending \in [Batches -> SUBSET Items]
      /\ faults \in Nat /\ worker \in {"none", "run", "ok", "failed"}
  BY <1>0 DEF TypeOK, DiskType, MemoryType, LaneType
<1>5. \A i \in members[b] : job[b][i] = "complete"
  <2>1. \A i \in members[b] : Known(b, i)
    BY <1>2 DEF VerifyItems
  <2> QED
    BY <1>0, <2>1 DEF Known, OnRecords, Pended
<1>6. job' = job
  <2>1. \A i \in Items : States(b, "complete")[i] = job[b][i]
    BY <1>0, <1>5 DEF States, OnRecords, OfMembers
  <2>2. PICK r \in Records : r = States(b, "complete")
    BY RowOf, Words
  <2>3. job' \in [Batches -> Records] /\ \A c \in Batches : job'[c] = IF c = b THEN r ELSE job[c]
    BY <1>3, <1>4, <2>2
  <2> QED
    BY <1>4, <2>1, <2>2, <2>3, SameJobs
<1>7. OnRecords'
  BY <1>0, <1>3, <1>6, RecordsStay
<1>8. /\ crit' \in Held /\ crit' # None /\ crit'.who = "lane" /\ crit'.what = "save" /\ crit'.batch = run
  BY <1>1, <1>3, HeldWhat DEF Sections
<1>9. Shape'
  BY <1>1, <1>2, <1>3, <1>5, <1>6, <1>8 DEF Shape
<1>10. \A i \in members[b] : Claimed(b, i)' => \A j \in UpTo(b, i) : job'[b][j] = "complete"
  BY <1>5, <1>6 DEF UpTo
<1>11. /\ \A c \in Batches : c # b => \A j \in Items : jobFile'[c][j] = jobFile[c][j] /\ job'[c][j] = job[c][j]
       /\ \A c \in Batches : c # b => pending'[c] = pending[c]
       /\ \A j \in Items : jobFile[b][j] # "absent" => jobFile'[b][j] # "absent"
       /\ pc # "finish" /\ pc' = pc /\ pending'[b] = pending[b]
       /\ faults' \in Nat /\ worker' \in {"none", "run", "ok", "failed"}
       /\ jobFile' \in [Batches -> Files] /\ job' \in [Batches -> Records] /\ pending' \in [Batches -> SUBSET Items]
  BY <1>1, <1>3, <1>4, <1>6
<1> QED
  BY <1>1, <1>2, <1>3, <1>7, <1>8, <1>9, <1>10, <1>11, LaneGoesOn

-----------------------------------------------------------------------------
(* The end of a batch.                                                      *)

\* The last record of a batch is written, or kept in memory, and it has no lane.
LEMMA BatchEnds ==
  ASSUME IInv, NEW b \in Batches, crit # None, crit.batch = b, crit.what \in {"save", "clean"}, crit.who \in Owners,
         NEW v \in Terminal, NEW r \in Records, r = job[b],
         record[b] # "none", file[b] \notin {"absent", "complete"}, Working(b),
         BatchSaved(b, v, r) \/ (v # "complete" /\ faults' \in Nat /\ crashes' = crashes /\ BatchHeld(b, v, r)),
         \A i \in members[b] : r[i] \in {"complete", v},
         v = "complete" => \A i \in members[b] : jobFile[b][i] = "complete",
         file[b] \in Terminal => v = "failed",
         crit' = IF crit.who = "start" THEN Section("start", "replay", None, {}, "none") ELSE None,
         cancelled' = cancelled \ {b}, queue' = queue,
         \/ crit.who = "lane" /\ b = run /\ run' = None /\ pc' = "idle" /\ worker' = "none" /\ seen' = {}
         \/ crit.who # "lane" /\ ~ Placed(b) /\ UNCHANGED <<run, pc, worker, seen>>,
         UNCHANGED <<jobFile, output, journal, origin, members, job, pending>>
  PROVE  IInv'
<1>0. TypeOK /\ OnRecords /\ OnLane /\ OnLock
  BY DEF IInv
<1>1. \A c \in Batches : members[c] \subseteq Items
  BY <1>0, Cells
<1>2. v \in Terminal \cup Active /\ v # "none" /\ v \notin Active
  BY DEF Terminal, Active
<1>3. /\ record' \in [Batches -> Values] /\ items' \in [Batches -> Records] /\ told' \in [Batches -> SUBSET Items]
      /\ file' \in [Batches -> Saved] /\ copies' \in [Batches -> Records]
      /\ \A c \in Batches : c # b => /\ file'[c] = file[c] /\ copies'[c] = copies[c] /\ record'[c] = record[c]
                                     /\ items'[c] = items[c] /\ told'[c] = told[c]
      /\ record'[b] = v /\ items'[b] = r
      /\ \A i \in Items : i \in told'[b] <=> i \in told[b] \/ r[i] = "complete"
      /\ (file'[b] = v /\ copies'[b] = r) \/ (file'[b] = file[b] /\ copies'[b] = copies[b])
      /\ faults' \in Nat /\ crashes' \in Nat
  <2>0. faults \in Nat /\ crashes \in Nat /\ file \in [Batches -> Saved] /\ copies \in [Batches -> Records]
    BY <1>0 DEF TypeOK, DiskType, MemoryType
  <2>1. CASE BatchSaved(b, v, r)
    BY <1>0, <1>2, <2>0, <2>1, SavedDoes
  <2>2. CASE faults' \in Nat /\ crashes' = crashes /\ BatchHeld(b, v, r)
    BY <1>0, <1>2, <2>0, <2>2, HeldDoes
  <2> QED
    BY <2>1, <2>2
<1>4. \A i \in members[b] : Claimed(b, i) => r[i] = "complete"
  <2>1. ASSUME NEW i \in members[b], Claimed(b, i) PROVE job[b][i] = "complete"
    <3>0. i \in Nat
      BY <1>1, BatchAssumption
    <3>1. i \in UpTo(b, i)
      BY <3>0 DEF UpTo
    <3> QED
      BY <1>0, <2>1, <3>1 DEF OnLock, Knowing
  <2> QED
    BY <2>1
<1>5. /\ OnRecords' /\ \A c \in Batches : \A i \in Items : Claimed(c, i)' => Claimed(c, i)
  <2>1. \A c \in Batches : c # b => /\ file'[c] = file[c] /\ copies'[c] = copies[c] /\ record'[c] = record[c]
                                     /\ items'[c] = items[c] /\ told'[c] = told[c]
    BY <1>3
  <2>2. \A i \in Items : /\ r[i] = "complete" => Claimed(b, i)
                         /\ i \notin members[b] => r[i] = "none"
                         /\ i \in members[b] => r[i] # "none"
    BY <1>0, <1>2 DEF Claimed, OnRecords, OfMembers
  <2>3. v = "complete" => \A i \in members[b] : jobFile[b][i] = "complete" /\ r[i] = "complete"
    OBVIOUS
  <2>4. file[b] \in Terminal => v = "failed" /\ \A i \in members[b] : /\ r[i] \in {"failed", "complete"}
                                                                      /\ Claimed(b, i) => r[i] = "complete"
    BY <1>4
  <2>5. told' \in [Batches -> SUBSET Items] /\ record'[b] = v /\ items'[b] = r
    BY <1>3
  <2>6. (file'[b] = v /\ copies'[b] = r) \/ (file'[b] = file[b] /\ copies'[b] = copies[b])
    BY <1>3
  <2>7. \A i \in Items : i \in told'[b] <=> i \in told[b] \/ r[i] = "complete"
    BY <1>3
  <2> QED
    BY <1>2, <2>1, <2>2, <2>3, <2>4, <2>5, <2>6, <2>7, RecordWritten
<1>6. \A c \in Batches : (Placed(c)' => Placed(c) /\ c # b) /\ (Queued(c)' <=> Queued(c))
  BY <1>0, BatchAssumption DEF Placed, Queued, OnLane, Queueing
<1>7. /\ crit' # None => /\ crit.who = "start" /\ crit' \in Held /\ crit'.who = "start" /\ crit'.what = "replay"
                         /\ crit'.batch = None
      /\ crit.who = "start" => crit' # None
  <2>1. CASE crit.who = "start"
    <3>1. crit' = Section("start", "replay", None, {}, "none")
      BY <2>1
    <3>2. "start" \in Owners /\ "replay" \in Sections
      BY DEF Owners, Sections
    <3> QED
      BY <2>1, <3>1, <3>2, SectionIs
  <2>2. CASE crit.who # "start"
    BY <2>2
  <2> QED
    BY <2>1, <2>2
<1>8. TypeOK'
  <2>1. DiskType' /\ MemoryType'
    BY <1>0, <1>3 DEF TypeOK, DiskType, MemoryType
  <2>2. LaneType'
    BY <1>0 DEF TypeOK, LaneType
  <2>3. LockType'
    <3>1. crit' \in Held \cup {None}
      BY <1>7
    <3>2. pc' # "finish"
      BY <1>0 DEF TypeOK, LockType
    <3> QED
      BY <1>7, <3>1, <3>2 DEF LockType
  <2> QED
    BY <2>1, <2>2, <2>3 DEF TypeOK
<1>9. OnLane'
  <2>1. Alive'
    BY <1>0, <1>3, <1>6 DEF OnLane, Alive, Going
  <2>2. Queueing'
    <3>1. \A n \in DOMAIN queue : queue[n] # run'
      <4>1. queue \in Seq(Batches)
        BY <1>0 DEF TypeOK, LaneType
      <4>2. \A n \in DOMAIN queue : queue[n] \in Batches
        BY <4>1
      <4> QED
        BY <1>0, <4>2, BatchAssumption DEF OnLane, Queueing
    <3> QED
      BY <1>0, <3>1 DEF OnLane, Queueing
  <2>3. Seeing'
    BY <1>0 DEF OnLane, Seeing
  <2>4. Fresh'
    BY <1>0, <1>6 DEF OnLane, Fresh
  <2> QED
    BY <2>1, <2>2, <2>3, <2>4 DEF OnLane
<1>10. OnLock'
  <2>1. Shape'
    BY <1>7 DEF Shape
  <2>2. Submitting' /\ Reserving' /\ Ending' /\ Replaying'
    BY <1>7, BatchAssumption DEF Submitting, Reserving, Ending, Replaying, By, On
  <2>3. Starting'
    BY <1>0, <1>7 DEF OnLock, Starting, By
  <2>4. Shown'
    <3>1. \A c \in Batches : c # b => ~ On(c)
      BY DEF On
    <3>2. By("start")' <=> By("start")
      BY <1>7 DEF By
    <3>3. \A i \in members[b] : items'[b][i] \in Terminal
      BY <1>3, Words
    <3>4. items'[b] = job'[b]
      BY <1>3
    <3>5. \A c \in Batches : c # b => items'[c] = items[c] /\ job'[c] = job[c] /\ record'[c] = record[c]
      BY <1>3
    <3> QED
      BY <1>0, <3>1, <3>2, <3>3, <3>4, <3>5 DEF OnLock, Shown
  <2>5. Knowing'
    <3>1. \A c \in Batches : Working(c)' => Working(c)
      BY <1>2, <1>3, <1>7, BatchAssumption DEF Working, By, On
    <3> QED
      BY <1>0, <1>1, <1>5, <3>1 DEF OnLock, Knowing, UpTo
  <2> QED
    BY <2>1, <2>2, <2>3, <2>4, <2>5 DEF OnLock
<1> QED
  BY <1>5, <1>8, <1>9, <1>10 DEF IInv

LEMMA SaveCompleteStep ==
  ASSUME IInv, SaveComplete
  PROVE  IInv'
<1>0. TypeOK /\ OnRecords /\ OnLane /\ OnLock
  BY DEF IInv
<1>1. /\ crit # None /\ crit.what = "save" /\ crit.who = "lane" /\ run # None /\ crit.batch = run /\ pc = "verify"
      /\ crit.who \in Owners /\ crit' = None
  BY <1>0, Subject DEF SaveComplete, Holds, OnLock, Shape, Leave
<1>2. PICK b \in Batches : b = run /\ b = Batch
  BY <1>1, LaneIs DEF Batch
<1>3. UNCHANGED <<jobFile, output, journal, origin, members, job, pending, queue>>
  BY DEF SaveComplete, frozen
<1>4. /\ record[b] # "none" /\ file[b] \notin {"absent", "complete"} /\ file[b] \notin Terminal /\ Working(b)
  BY <1>1, <1>2, LaneIs DEF Going, Active, Terminal, Working
<1>5. \A i \in members[b] : job[b][i] = "complete" /\ jobFile[b][i] = "complete"
  <2>1. \A i \in members[b] : job[b][i] = "complete"
    BY <1>0, <1>1, <1>2 DEF OnLock, Shape
  <2>2. pending[b] = {}
    BY <1>0, <1>1, <1>2 DEF OnLane, Fresh
  <2> QED
    BY <1>0, <1>4, <2>1, <2>2 DEF OnRecords, Agreeing
<1>6. CASE /\ BatchSaved(Batch, "complete", job[Batch]) /\ cancelled' = cancelled \ {Batch}
           /\ run' = None /\ pc' = "idle" /\ worker' = "none" /\ seen' = {}
  <2>1. PICK r \in Records : r = job[b]
    BY <1>0 DEF TypeOK, MemoryType
  <2>2. "complete" \in Terminal /\ BatchSaved(b, "complete", r)
    BY <1>2, <1>6, <2>1, Words
  <2> QED
    BY <1>1, <1>2, <1>3, <1>4, <1>5, <1>6, <2>1, <2>2, BatchEnds
<1>7. CASE Fault /\ Raise /\ UNCHANGED <<file, copies, record, items, cancelled, told>>
  <2>1. /\ run' = run /\ seen' = seen /\ worker' = "none" /\ pc' = "except" /\ faults' \in Nat /\ crashes' = crashes
        /\ pc # "finish"
    BY <1>0, <1>1, <1>7 DEF Fault, Raise, Goto, TypeOK, MemoryType
  <2>2. OnRecords'
    BY <1>0, <1>3, <1>7, RecordsStay
  <2>3. Shape'
    BY <1>1 DEF Shape
  <2>4. \A i \in members[b] : Claimed(b, i)' => \A j \in UpTo(b, i) : job'[b][j] = "complete"
    BY <1>3, <1>5 DEF UpTo
  <2>5. /\ jobFile' \in [Batches -> Files] /\ job' \in [Batches -> Records] /\ pending' \in [Batches -> SUBSET Items]
        /\ worker' \in {"none", "run", "ok", "failed"}
    BY <1>0, <1>3, <2>1 DEF TypeOK, DiskType, MemoryType
  <2> QED
    BY <1>1, <1>2, <1>3, <1>7, <2>1, <2>2, <2>3, <2>4, <2>5, LaneGoesOn
<1> QED
  BY <1>6, <1>7 DEF SaveComplete

\* A batch that is being ended is in memory and on disk and knows what is claimed.
LEMMA EndingIs ==
  ASSUME IInv, crit # None, crit.what \in {"clean", "end"}
  PROVE  \E b \in Batches :
            /\ b = Batch /\ crit.batch = b /\ crit \in Held /\ crit.who \in Owners /\ crit.todo \subseteq members[b]
            /\ crit.outcome \in {"failed", "cancelled"}
            /\ \A i \in members[b] \ crit.todo : job[b][i] \in {"complete", crit.outcome}
            /\ record[b] # "none" /\ file[b] \notin {"absent", "complete"} /\ Working(b)
            /\ crit.who # "start" => Going(b)
            /\ crit.who = "lane" => b = run /\ run # None
            /\ crit.who # "lane" => ~ Placed(b)
            /\ crit.who = "start" => crit.outcome = "failed" /\ Interrupted(b)
            /\ pc = "finish" <=> crit.who = "lane"
<1>0. TypeOK /\ OnRecords /\ OnLane /\ OnLock
  BY DEF IInv
<1>1. /\ crit \in Held /\ crit.who \in Owners /\ crit.batch \in Batches \cup {None}
      /\ pc = "finish" <=> crit.who = "lane"
  BY <1>0, Subject DEF Batch, TypeOK, LockType
<1>2. /\ crit.batch # None /\ crit.todo \subseteq members[crit.batch] /\ crit.outcome \in {"failed", "cancelled"}
      /\ crit.who = "lane" => crit.batch = run
      /\ \A i \in members[crit.batch] \ crit.todo : job[crit.batch][i] \in {"complete", crit.outcome}
  BY <1>0 DEF OnLock, Shape
<1>3. PICK b \in Batches : b = crit.batch
  BY <1>1, <1>2
<1>4. CASE crit.who = "start"
  <2>1. run = None /\ queue = <<>> /\ Interrupted(b) /\ crit.outcome = "failed"
    BY <1>0, <1>2, <1>3, <1>4 DEF OnLock, Starting, By
  <2>2. ~ Placed(b)
    BY <2>1, BatchAssumption DEF Placed, Queued
  <2>3. record[b] # "none" /\ file[b] # "absent" /\ Working(b)
    BY <1>0, <1>3, <1>4, <2>1 DEF Interrupted, OnRecords, Unaccepted, Working, By, On
  <2>4. file[b] # "complete"
    <3>1. SUFFICES ASSUME file[b] = "complete" PROVE FALSE
      OBVIOUS
    <3>2. record[b] = "complete" /\ \A i \in members[b] : items[b][i] = "complete"
      BY <1>0, <2>3, <3>1 DEF OnRecords, Whole
    <3> QED
      BY <2>1, <3>2 DEF Interrupted, Active
  <2> QED
    BY <1>1, <1>2, <1>3, <1>4, <2>1, <2>2, <2>3, <2>4 DEF Batch
<1>5. CASE crit.who # "start"
  <2>1. CASE crit.who = "lane"
    <3>1. run # None /\ Going(b)
      BY <1>1, <1>2, <1>3, <2>1, LaneIs
    <3> QED
      BY <1>1, <1>2, <1>3, <2>1, <3>1 DEF Batch, Going, Active, Working, By
  <2>2. CASE crit.who \in {"submit", "queue"}
    <3>1. Going(b) /\ ~ Placed(b)
      BY <1>0, <1>3, <2>2 DEF OnLock, Ending
    <3> QED
      BY <1>1, <1>2, <1>3, <2>2, <3>1 DEF Batch, Going, Active, Working, By
  <2> QED
    BY <1>1, <1>5, <2>1, <2>2 DEF Owners
<1> QED
  BY <1>4, <1>5

LEMMA EndBatchStep ==
  ASSUME IInv, EndBatch
  PROVE  IInv'
<1>0. TypeOK /\ OnRecords /\ OnLane /\ OnLock
  BY DEF IInv
<1>1. crit # None /\ crit.what = "clean" /\ crit.todo = {}
  BY DEF EndBatch, Holds
<1>2. PICK b \in Batches :
            /\ b = Batch /\ crit.batch = b /\ crit \in Held /\ crit.who \in Owners /\ crit.todo \subseteq members[b]
            /\ crit.outcome \in {"failed", "cancelled"}
            /\ \A i \in members[b] \ crit.todo : job[b][i] \in {"complete", crit.outcome}
            /\ record[b] # "none" /\ file[b] \notin {"absent", "complete"} /\ Working(b)
            /\ crit.who # "start" => Going(b)
            /\ crit.who = "lane" => b = run /\ run # None
            /\ crit.who # "lane" => ~ Placed(b)
            /\ crit.who = "start" => crit.outcome = "failed" /\ Interrupted(b)
            /\ pc = "finish" <=> crit.who = "lane"
  BY <1>1, EndingIs
<1>3. PICK v \in Terminal : v = crit.outcome /\ v # "complete"
  BY <1>2 DEF Terminal
<1>4. PICK r \in Records : r = job[b]
  BY <1>0 DEF TypeOK, MemoryType
<1>5. \A i \in members[b] : r[i] \in {"complete", v}
  BY <1>1, <1>2, <1>3, <1>4
<1>6. file[b] \in Terminal => v = "failed"
  BY <1>2, <1>3 DEF Going, Active, Terminal
<1>7. /\ UNCHANGED <<jobFile, output, journal, origin, members, job, pending, queue>>
      /\ cancelled' = cancelled \ {b}
      /\ crit' = IF crit.who = "start" THEN Section("start", "replay", None, {}, "none") ELSE None
  BY <1>2 DEF EndBatch, frozen, Enter, Leave
<1>8. \/ crit.who = "lane" /\ b = run /\ run' = None /\ pc' = "idle" /\ worker' = "none" /\ seen' = {}
      \/ crit.who # "lane" /\ ~ Placed(b) /\ UNCHANGED <<run, pc, worker, seen>>
  BY <1>2 DEF EndBatch, lane
<1>9. BatchSaved(b, v, r) \/ (v # "complete" /\ faults' \in Nat /\ crashes' = crashes /\ BatchHeld(b, v, r))
  BY <1>0, <1>2, <1>3, <1>4 DEF EndBatch, Fault, TypeOK, MemoryType
<1> QED
  BY <1>1, <1>2, <1>3, <1>4, <1>5, <1>6, <1>7, <1>8, <1>9, BatchEnds

\* An image of a batch that is being ended is looked at or written.
LEMMA Cleans ==
  ASSUME IInv, NEW b \in Batches, crit # None, crit.what \in {"clean", "end"}, crit.batch = b,
         crit' \in Held, crit' # None, crit'.what \in {"clean", "end"}, crit'.who = crit.who, crit'.batch = b,
         crit'.outcome = crit.outcome, OnRecords', Shape',
         UNCHANGED <<file, copies, journal, origin, members, record, items, pending, told>>,
         UNCHANGED <<queue, run, pc, worker, seen, cancelled, crashes>>, faults' \in Nat,
         jobFile' \in [Batches -> Files], job' \in [Batches -> Records], output' \in [Batches -> Outputs],
         \A c \in Batches : c # b => \A j \in Items : jobFile'[c][j] = jobFile[c][j] /\ job'[c][j] = job[c][j],
         \A j \in Items : /\ jobFile[b][j] # "absent" => jobFile'[b][j] # "absent"
                          /\ job[b][j] = "complete" => job'[b][j] = "complete"
                          /\ Claimed(b, j)' => Claimed(b, j)
  PROVE  IInv'
<1>0. TypeOK /\ OnRecords /\ OnLane /\ OnLock
  BY DEF IInv
<1>1. \A c \in Batches : members[c] \subseteq Items
  BY <1>0, Cells
<1>2. \A c \in Batches : (Placed(c)' <=> Placed(c)) /\ (Queued(c)' <=> Queued(c))
  BY DEF Placed, Queued
<1>3. \A c \in Batches : Going(c) => Going(c)'
  BY <1>1 DEF Going
<1>4. TypeOK'
  <2>1. DiskType' /\ MemoryType'
    BY <1>0 DEF TypeOK, DiskType, MemoryType
  <2>2. LaneType' /\ LockType'
    BY <1>0 DEF TypeOK, LaneType, LockType
  <2> QED
    BY <2>1, <2>2 DEF TypeOK
<1>5. OnLane'
  <2>1. Alive'
    BY <1>0, <1>2, <1>3 DEF OnLane, Alive
  <2>2. Queueing' /\ Seeing' /\ Fresh'
    BY <1>0, <1>2 DEF OnLane, Queueing, Seeing, Fresh
  <2> QED
    BY <2>1, <2>2 DEF OnLane
<1>6. OnLock'
  <2>1. Submitting' /\ Reserving' /\ Replaying'
    BY DEF Submitting, Reserving, Replaying, By, On
  <2>2. Ending'
    BY <1>0, <1>2, <1>3 DEF OnLock, Ending
  <2>3. Starting'
    BY <1>0 DEF OnLock, Starting, By, Interrupted
  <2>4. Shown'
    <3>1. \A c \in Batches : c # b => job'[c] = job[c]
      <4>1. \A c \in Batches : job'[c] \in Records /\ job[c] \in Records
        BY <1>0 DEF TypeOK, MemoryType
      <4> QED
        BY <4>1 DEF Records
    <3>2. \A c \in Batches : (On(c)' <=> On(c)) /\ (c # b <=> ~ On(c))
      BY DEF On
    <3>3. By("start")' <=> By("start")
      BY DEF By
    <3> QED
      BY <1>0, <3>1, <3>2, <3>3 DEF OnLock, Shown
  <2>5. Knowing'
    <3>1. \A c \in Batches : Working(c)' => Working(c)
      BY DEF Working, By, On
    <3>2. \A c \in Batches : c # b => \A i \in Items : Claimed(c, i)' => Claimed(c, i)
      BY DEF Claimed
    <3> QED
      BY <1>0, <1>1, <3>1, <3>2 DEF OnLock, Knowing, UpTo
  <2> QED
    BY <2>1, <2>2, <2>3, <2>4, <2>5 DEF OnLock
<1> QED
  BY <1>4, <1>5, <1>6 DEF IInv

LEMMA CleanItemStep ==
  ASSUME IInv, CleanItem
  PROVE  IInv'
<1>0. TypeOK /\ OnRecords /\ OnLane /\ OnLock
  BY DEF IInv
<1>1. crit # None /\ crit.what = "clean" /\ crit.todo # {}
  BY DEF CleanItem, Holds
<1>2. PICK b \in Batches :
            /\ b = Batch /\ crit.batch = b /\ crit \in Held /\ crit.who \in Owners /\ crit.todo \subseteq members[b]
            /\ crit.outcome \in {"failed", "cancelled"}
            /\ \A i \in members[b] \ crit.todo : job[b][i] \in {"complete", crit.outcome}
            /\ record[b] # "none" /\ file[b] \notin {"absent", "complete"} /\ Working(b)
            /\ crit.who # "start" => Going(b)
            /\ crit.who = "lane" => b = run /\ run # None
            /\ crit.who # "lane" => ~ Placed(b)
            /\ crit.who = "start" => crit.outcome = "failed" /\ Interrupted(b)
            /\ pc = "finish" <=> crit.who = "lane"
  BY <1>1, EndingIs
<1>3. PICK i \in Items : i = Item /\ i \in crit.todo /\ i \in members[b] /\ i = First(crit.todo)
  BY <1>0, <1>1, <1>2, Subject DEF Item
<1>4. /\ UNCHANGED <<file, copies, jobFile, journal, origin, members, record, items, pending, told>>
      /\ UNCHANGED <<queue, run, pc, worker, seen, cancelled>>
  BY DEF CleanItem, frozen, lane
<1>5. /\ jobFile' \in [Batches -> Files] /\ job \in [Batches -> Records] /\ output \in [Batches -> Outputs]
      /\ faults \in Nat
  BY <1>0, <1>4 DEF TypeOK, DiskType, MemoryType
<1>6. Known(b, i) => job[b][i] = "complete"
  BY <1>0 DEF Known, OnRecords, Pended
<1>7. \A c \in Batches : members[c] \subseteq Items
  BY <1>0, Cells
<1>8. CASE /\ Known(Batch, Item) /\ job' = [job EXCEPT ![Batch][Item] = "complete"]
           /\ Enter([crit EXCEPT !.todo = @ \ {Item}]) /\ NoFault /\ UNCHANGED output
  <2>1. job' = job
    <3>1. "complete" \in Values
      BY Words
    <3>2. job' \in [Batches -> Records] /\ Put(job', job, b, i, "complete")
      BY <1>2, <1>3, <1>5, <1>8, <3>1, PutJob
    <3> QED
      BY <1>2, <1>3, <1>5, <1>6, <1>8, <3>2, SameJobs DEF Put
  <2>2. OnRecords'
    BY <1>0, <1>4, <1>8, <2>1, RecordsStay
  <2>3. /\ crit' \in Held /\ crit' # None /\ crit'.who = crit.who /\ crit'.what = "clean" /\ crit'.batch = b
        /\ crit'.todo = crit.todo \ {i} /\ crit'.outcome = crit.outcome
    <3>1. crit' = [crit EXCEPT !.todo = @ \ {i}] /\ crit.todo \ {i} \in SUBSET Items
      BY <1>2, <1>3, <1>7, <1>8 DEF Enter
    <3>2. crit' = [crit EXCEPT !.todo = crit.todo \ {i}]
      BY <3>1
    <3> QED
      BY <1>1, <1>2, <3>1, <3>2, HeldTodo
  <2>4. Shape'
    <3>1. \A j \in members[b] \ crit'.todo : job'[b][j] \in {"complete", crit'.outcome}
      BY <1>2, <1>3, <1>6, <1>8, <2>1, <2>3
    <3> QED
      BY <1>0, <1>1, <1>2, <1>4, <2>3, <3>1, BatchAssumption DEF OnLock, Shape
  <2>5. faults' \in Nat /\ crashes' = crashes /\ output' \in [Batches -> Outputs] /\ job' \in [Batches -> Records]
    BY <1>5, <1>8, <2>1 DEF NoFault, bounds
  <2>6. /\ \A c \in Batches : c # b => \A j \in Items : jobFile'[c][j] = jobFile[c][j] /\ job'[c][j] = job[c][j]
        /\ \A j \in Items : /\ jobFile[b][j] # "absent" => jobFile'[b][j] # "absent"
                            /\ job[b][j] = "complete" => job'[b][j] = "complete"
                            /\ Claimed(b, j)' => Claimed(b, j)
    BY <1>4, <2>1 DEF Claimed
  <2> QED
    BY <1>1, <1>2, <1>4, <1>5, <2>2, <2>3, <2>4, <2>5, <2>6, Cleans
<1>9. CASE /\ ~ Known(Batch, Item) /\ Enter([crit EXCEPT !.what = "end"]) /\ UNCHANGED job
           /\ \/ output' = [output EXCEPT ![Batch][Item] = "none"] /\ NoFault
              \/ Fault /\ UNCHANGED output
  <2>1. job[b][i] # "complete"
    BY <1>2, <1>3, <1>9 DEF Known
  <2>2. /\ output' \in [Batches -> Outputs]
        /\ \A c \in Batches : \A j \in Items : output'[c][j] = output[c][j] \/ (c = b /\ j = i /\ output'[c][j] = "none")
    <3>1. CASE output' = [output EXCEPT ![b][i] = "none"]
      <4>1. output' \in [Batches -> Outputs] /\ Put(output', output, b, i, "none")
        BY <1>5, <3>1, PutOutput
      <4> QED
        BY <4>1 DEF Put
    <3>2. CASE output' = output
      BY <1>5, <3>2
    <3> QED
      BY <1>2, <1>3, <1>9, <3>1, <3>2
  <2>3. /\ crit' \in Held /\ crit' # None /\ crit'.who = crit.who /\ crit'.what = "end" /\ crit'.batch = b
        /\ crit'.todo = crit.todo /\ crit'.outcome = crit.outcome
    BY <1>1, <1>2, <1>9, HeldWhat DEF Enter, Sections
  <2>4. \A c \in Batches : \A j \in Items : Claimed(c, j)' <=> Claimed(c, j)
    BY <1>4, <1>9 DEF Claimed
  <2>5. OnRecords'
    <3>1. OfMembers'
      BY <1>0, <1>4, <1>9, <2>2 DEF OnRecords, OfMembers
    <3>2. Unsubmitted' /\ Unaccepted' /\ Unloaded' /\ Stated' /\ Sourced'
      BY <1>0, <1>4, <1>9 DEF OnRecords, Unsubmitted, Unaccepted, Unloaded, Stated, Sourced
    <3>3. Pended' /\ Agreeing' /\ Telling' /\ Whole' /\ Journaled'
      BY <1>0, <1>4, <1>9 DEF OnRecords, Pended, Agreeing, Telling, Whole, Journaled
    <3>4. Durable'
      <4>1. jobFile[b][i] # "complete"
        BY <1>0, <1>2, <1>3, <2>1 DEF OnRecords, Agreeing
      <4> QED
        BY <1>0, <1>4, <2>2, <4>1 DEF OnRecords, Durable
    <3>5. Firmly'
      <4>1. \A c \in Batches : Kept(c)' <=> Kept(c)
        BY <1>4 DEF Kept, Chained, Lineage
      <4>2. \A c \in Batches : \A j \in Items : Firm(c, j) => Firm(c, j)' \/ (c = b /\ j = i)
        BY <1>4, <2>2 DEF Firm
      <4>3. \A j \in members[b] : Claimed(b, j) => i \notin UpTo(b, j)
        BY <1>0, <1>2, <2>1 DEF OnLock, Knowing
      <4> QED
        BY <1>0, <1>4, <1>7, <2>4, <4>1, <4>2, <4>3 DEF OnRecords, Firmly, UpTo
    <3> QED
      BY <3>1, <3>2, <3>3, <3>4, <3>5 DEF OnRecords
  <2>6. Shape'
    <3>1. crit'.todo # {} /\ job'[b][First(crit'.todo)] # "complete"
      BY <1>1, <1>3, <1>9, <2>1, <2>3
    <3>2. \A j \in members[b] \ crit'.todo : job'[b][j] \in {"complete", crit'.outcome}
      BY <1>2, <1>9, <2>3
    <3> QED
      BY <1>0, <1>1, <1>2, <1>4, <2>3, <3>1, <3>2, BatchAssumption DEF OnLock, Shape
  <2>7. faults' \in Nat /\ crashes' = crashes /\ job' \in [Batches -> Records]
    BY <1>5, <1>9 DEF NoFault, Fault, bounds
  <2>8. /\ \A c \in Batches : c # b => \A j \in Items : jobFile'[c][j] = jobFile[c][j] /\ job'[c][j] = job[c][j]
        /\ \A j \in Items : /\ jobFile[b][j] # "absent" => jobFile'[b][j] # "absent"
                            /\ job[b][j] = "complete" => job'[b][j] = "complete"
                            /\ Claimed(b, j)' => Claimed(b, j)
    BY <1>4, <1>9, <2>4
  <2> QED
    BY <1>1, <1>2, <1>4, <1>5, <2>2, <2>3, <2>5, <2>6, <2>7, <2>8, Cleans
<1> QED
  BY <1>8, <1>9 DEF CleanItem

LEMMA EndItemStep ==
  ASSUME IInv, EndItem
  PROVE  IInv'
<1>0. TypeOK /\ OnRecords /\ OnLane /\ OnLock
  BY DEF IInv
<1>1. crit # None /\ crit.what = "end" /\ crit.todo # {}
  BY <1>0 DEF EndItem, Holds, OnLock, Shape
<1>2. PICK b \in Batches :
            /\ b = Batch /\ crit.batch = b /\ crit \in Held /\ crit.who \in Owners /\ crit.todo \subseteq members[b]
            /\ crit.outcome \in {"failed", "cancelled"}
            /\ \A i \in members[b] \ crit.todo : job[b][i] \in {"complete", crit.outcome}
            /\ record[b] # "none" /\ file[b] \notin {"absent", "complete"} /\ Working(b)
            /\ crit.who # "start" => Going(b)
            /\ crit.who = "lane" => b = run /\ run # None
            /\ crit.who # "lane" => ~ Placed(b)
            /\ crit.who = "start" => crit.outcome = "failed" /\ Interrupted(b)
            /\ pc = "finish" <=> crit.who = "lane"
  BY <1>1, EndingIs
<1>3. PICK i \in Items : i = Item /\ i \in crit.todo /\ i \in members[b] /\ i = First(crit.todo)
  BY <1>0, <1>1, <1>2, Subject DEF Item
<1>4. job[b][i] # "complete"
  BY <1>0, <1>1, <1>2, <1>3 DEF OnLock, Shape
<1>5. /\ UNCHANGED <<file, copies, output, journal, origin, members, record, items, pending, told>>
      /\ UNCHANGED <<queue, run, pc, worker, seen, cancelled>>
  BY DEF EndItem, frozen, lane
<1>6. PICK y \in {"sampling", "failed", "cancelled"} : y = crit.outcome /\ y # "sampling"
  BY <1>2
<1>7. y \in Values /\ y \in Saved /\ y # "absent" /\ y # "complete"
  BY Words DEF Terminal
<1>8. /\ job \in [Batches -> Records] /\ jobFile \in [Batches -> Files] /\ output' \in [Batches -> Outputs] /\ faults \in Nat
      /\ \A c \in Batches : members[c] \subseteq Items
  BY <1>0, <1>5, Cells DEF TypeOK, DiskType, MemoryType
<1>9. job' \in [Batches -> Records] /\ Put(job', job, b, i, y)
  <2>1. job' = [job EXCEPT ![b][i] = y]
    BY <1>2, <1>3, <1>6 DEF EndItem, JobSaved
  <2> QED
    BY <1>7, <1>8, <2>1, PutJob
<1>10. /\ jobFile' \in [Batches -> Files] /\ (Put(jobFile', jobFile, b, i, y) \/ jobFile' = jobFile)
       /\ faults' \in Nat /\ crashes' = crashes
  <2>1. \/ jobFile' = [jobFile EXCEPT ![b][i] = y] /\ UNCHANGED <<faults, crashes>>
        \/ jobFile' = jobFile /\ faults' = faults + 1 /\ crashes' = crashes
    BY <1>2, <1>3, <1>6 DEF EndItem, JobSaved, NoFault, Fault, bounds
  <2>2. CASE jobFile' = [jobFile EXCEPT ![b][i] = y]
    <3>1. jobFile' \in [Batches -> Files] /\ Put(jobFile', jobFile, b, i, y)
      BY <1>7, <1>8, <2>2, PutFile
    <3> QED
      BY <1>8, <2>1, <3>1
  <2> QED
    BY <1>8, <2>1, <2>2
<1>11. OnRecords' /\ \A c \in Batches : \A j \in Items : Claimed(c, j)' <=> Claimed(c, j)
  BY <1>2, <1>3, <1>4, <1>5, <1>9, <1>10, ItemWritten
<1>12. /\ crit' \in Held /\ crit' # None /\ crit'.who = crit.who /\ crit'.what = "clean" /\ crit'.batch = b
       /\ crit'.todo = crit.todo \ {i} /\ crit'.outcome = crit.outcome
  <2>1. crit' = Section(crit.who, "clean", b, crit.todo \ {i}, crit.outcome) /\ crit.todo \ {i} \in SUBSET Items
    BY <1>2, <1>3, <1>8 DEF EndItem, Enter
  <2> QED
    BY <1>2, <2>1, SectionIs DEF Sections
<1>13. /\ \A c \in Batches : c # b => \A j \in Items : jobFile'[c][j] = jobFile[c][j] /\ job'[c][j] = job[c][j]
       /\ \A j \in Items : /\ jobFile[b][j] # "absent" => jobFile'[b][j] # "absent"
                           /\ job[b][j] = "complete" => job'[b][j] = "complete"
                           /\ Claimed(b, j)' => Claimed(b, j)
  BY <1>4, <1>7, <1>9, <1>10, <1>11 DEF Put
<1>14. Shape'
  <2>1. \A j \in members[b] \ crit'.todo : job'[b][j] \in {"complete", crit'.outcome}
    BY <1>2, <1>3, <1>6, <1>8, <1>9, <1>12 DEF Put
  <2> QED
    BY <1>0, <1>1, <1>2, <1>5, <1>12, <2>1, BatchAssumption DEF OnLock, Shape
<1> QED
  BY <1>1, <1>2, <1>5, <1>8, <1>9, <1>10, <1>11, <1>12, <1>13, <1>14, Cleans

-----------------------------------------------------------------------------
(* The service exits and starts again.                                      *)

LEMMA CrashStep ==
  ASSUME IInv, Crash
  PROVE  IInv'
<1>0. TypeOK /\ OnRecords /\ OnLane /\ OnLock
  BY DEF IInv
<1>1. /\ record' = [b \in Batches |-> "none"] /\ items' = [b \in Batches |-> [i \in Items |-> "none"]]
      /\ job' = [b \in Batches |-> [i \in Items |-> "none"]] /\ pending' = [b \in Batches |-> {}]
      /\ queue' = <<>> /\ run' = None /\ pc' = "idle" /\ worker' = "none" /\ seen' = {} /\ cancelled' = {}
      /\ UNCHANGED <<file, copies, jobFile, output, journal, origin, members, told, faults>>
  BY DEF Crash, disk, frozen
<1>2. /\ \A b \in Batches : record'[b] = "none" /\ pending'[b] = {}
      /\ \A b \in Batches : \A i \in Items : items'[b][i] = "none" /\ job'[b][i] = "none"
  BY <1>1
<1>3. /\ crit' \in Held /\ crit' # None /\ crit'.who = "start" /\ crit'.what = "jobs" /\ crit'.batch = None /\ crit'.todo = {}
  <2>1. "start" \in Owners /\ "jobs" \in Sections
    BY DEF Owners, Sections
  <2>2. crit' = Section("start", "jobs", None, {}, "none")
    BY DEF Crash, Enter
  <2> QED
    BY <2>1, <2>2, SectionIs
<1>4. TypeOK'
  <2>1. PICK e \in Records : e = [i \in Items |-> "none"]
    BY RowOf, Words
  <2>2. items' \in [Batches -> Records] /\ job' \in [Batches -> Records]
    BY <1>1, <2>1
  <2>3. record' \in [Batches -> Values] /\ pending' \in [Batches -> SUBSET Items]
    BY <1>1, Words
  <2>4. faults' \in Nat /\ crashes' \in Nat
    BY <1>0 DEF Crash, TypeOK, MemoryType
  <2>5. DiskType' /\ MemoryType'
    BY <1>0, <1>1, <2>2, <2>3, <2>4 DEF TypeOK, DiskType, MemoryType
  <2>6. LaneType'
    BY <1>1 DEF LaneType
  <2>7. LockType'
    BY <1>1, <1>3 DEF LockType
  <2> QED
    BY <2>5, <2>6, <2>7 DEF TypeOK
<1>5. OnRecords'
  <2>1. OfMembers' /\ Unsubmitted' /\ Unaccepted' /\ Unloaded' /\ Stated'
    BY <1>0, <1>1, <1>2, Cells DEF OnRecords, OfMembers, Unsubmitted, Unaccepted, Unloaded, Stated
  <2>2. Sourced'
    BY <1>0, <1>1, <1>2, Cells DEF OnRecords, Sourced
  <2>3. Pended' /\ Agreeing' /\ Telling' /\ Whole' /\ Durable' /\ Journaled'
    BY <1>0, <1>1, <1>2 DEF OnRecords, Pended, Agreeing, Telling, Whole, Durable, Journaled
  <2>4. Firmly'
    <3>1. \A b \in Batches : Kept(b)' => Kept(b)
      BY <1>1, <1>2 DEF Kept, Chained, Lineage
    <3>2. \A b \in Batches : \A i \in Items : Claimed(b, i)' => Claimed(b, i)
      BY <1>1, <1>2 DEF Claimed
    <3>3. \A b \in Batches : \A i \in Items : Firm(b, i) => Firm(b, i)'
      BY <1>1 DEF Firm
    <3> QED
      BY <1>0, <1>1, <3>1, <3>2, <3>3, Cells DEF OnRecords, Firmly, UpTo
  <2> QED
    BY <2>1, <2>2, <2>3, <2>4 DEF OnRecords
<1>6. \A b \in Batches : ~ Placed(b)' /\ ~ Queued(b)'
  BY <1>1, BatchAssumption DEF Placed, Queued
<1>7. OnLane'
  <2>1. Alive' /\ Fresh'
    BY <1>1, <1>6 DEF Alive, Fresh
  <2>2. Queueing' /\ Seeing'
    BY <1>1 DEF Queueing, Seeing
  <2> QED
    BY <2>1, <2>2 DEF OnLane
<1>8. OnLock'
  <2>1. Shape' /\ Submitting' /\ Reserving' /\ Ending' /\ Replaying'
    BY <1>3 DEF Shape, Submitting, Reserving, Ending, Replaying, By, On
  <2>2. Starting'
    BY <1>1, <1>2, <1>3 DEF Starting
  <2>3. Shown' /\ Knowing'
    <3>1. "none" \notin Terminal /\ "none" \notin Active
      BY DEF Terminal, Active
    <3> QED
      BY <1>2, <1>3, <3>1 DEF Shown, Knowing, Working, By
  <2> QED
    BY <2>1, <2>2, <2>3 DEF OnLock
<1> QED
  BY <1>4, <1>5, <1>7, <1>8 DEF IInv

\* What a start makes of the files.
LEMMA RecoverDoes ==
  ASSUME IInv, RecoverJobs
  PROVE  /\ crit # None /\ crit.who = "start" /\ crit.what = "jobs" /\ queue = <<>> /\ run = None /\ cancelled = {}
         /\ \A b \in Batches : record[b] = "none" /\ pending[b] = {}
         /\ UNCHANGED <<file, copies, journal, origin, members, pending, queue, run, pc, worker, seen, cancelled>>
         /\ jobFile' \in [Batches -> Files] /\ output' \in [Batches -> Outputs] /\ job' \in [Batches -> Records]
         /\ record' \in [Batches -> Values] /\ items' \in [Batches -> Records] /\ told' \in [Batches -> SUBSET Items]
         /\ faults' \in Nat /\ crashes' \in Nat
         /\ \A b \in Loaded : /\ record'[b] = file[b] /\ items'[b] = job'[b]
                              /\ \A i \in Items : /\ jobFile'[b][i] = jobFile[b][i] /\ output'[b][i] = output[b][i]
                                                  /\ job'[b][i] = IF jobFile[b][i] = "absent" THEN copies[b][i] ELSE jobFile[b][i]
         /\ \A b \in Batches \ Loaded :
               /\ record'[b] = "none"
               /\ \A i \in Items : /\ items'[b][i] = "none"
                                   /\ jobFile'[b][i] = jobFile[b][i] \/ (jobFile'[b][i] = "failed" /\ jobFile[b][i] \in Active)
                                   /\ output'[b][i] = output[b][i] \/ (output'[b][i] = "none" /\ jobFile[b][i] \in Active)
                                   /\ jobFile[b][i] = "absent" => job'[b][i] = "none"
         /\ \A b \in Batches : \A i \in Items : i \in told'[b] <=> i \in told[b] \/ items'[b][i] = "complete"
<1>0. TypeOK /\ OnRecords /\ OnLane /\ OnLock
  BY DEF IInv
<1>1. /\ crit # None /\ crit.who = "start" /\ crit.what = "jobs" /\ queue = <<>> /\ run = None /\ cancelled = {}
      /\ \A b \in Batches : record[b] = "none" /\ pending[b] = {}
  <2>1. crit # None /\ crit.who = "start" /\ crit.what = "jobs"
    BY DEF RecoverJobs, Holds
  <2> QED
    BY <1>0, <2>1 DEF OnLock, Starting, By, OnRecords, Unloaded
<1>2. UNCHANGED <<file, copies, journal, origin, members, pending, queue, run, pc, worker, seen, cancelled>>
  BY DEF RecoverJobs, frozen, lane
<1>3. /\ \A b \in Batches : \A i \in Items : jobFile[b][i] \in Saved /\ copies[b][i] \in Values /\ output[b][i] \in {"none", "whole"}
      /\ \A b \in Batches : file[b] \in Saved /\ told[b] \in SUBSET Items
      /\ faults \in Nat /\ crashes \in Nat
  BY <1>0, Cells DEF TypeOK, MemoryType
<1>4. PICK written \in SUBSET {j \in Batches \X Items : j[1] \notin Loaded /\ jobFile[j[1]][j[2]] \in Active} :
         /\ NoFault \/ Fault
         /\ jobFile' = [b \in Batches |-> [i \in Items |-> IF <<b, i>> \in written THEN "failed" ELSE jobFile[b][i]]]
         /\ output' = [b \in Batches |-> [i \in Items |->
                         IF b \notin Loaded /\ jobFile[b][i] \in Active THEN "none" ELSE output[b][i]]]
  BY DEF RecoverJobs
<1>5. \A b \in Batches : \A i \in Items : <<b, i>> \in written => b \notin Loaded /\ jobFile[b][i] \in Active
  BY <1>4
<1>6. faults' \in Nat /\ crashes' \in Nat
  BY <1>3, <1>4 DEF NoFault, Fault, bounds
<1>7. \A b \in Batches : \A i \in Items :
         /\ jobFile'[b][i] = jobFile[b][i] \/ (jobFile'[b][i] = "failed" /\ b \notin Loaded /\ jobFile[b][i] \in Active)
         /\ output'[b][i] = IF b \notin Loaded /\ jobFile[b][i] \in Active THEN "none" ELSE output[b][i]
  <2>1. ASSUME NEW b \in Batches, NEW i \in Items
        PROVE  jobFile'[b][i] = jobFile[b][i] \/ (jobFile'[b][i] = "failed" /\ b \notin Loaded /\ jobFile[b][i] \in Active)
    <3>1. CASE <<b, i>> \in written
      BY <1>4, <1>5, <3>1
    <3>2. CASE <<b, i>> \notin written
      BY <1>4, <3>2
    <3> QED
      BY <3>1, <3>2
  <2>2. \A b \in Batches : \A i \in Items :
           output'[b][i] = IF b \notin Loaded /\ jobFile[b][i] \in Active THEN "none" ELSE output[b][i]
    BY <1>4
  <2> QED
    BY <2>1, <2>2
<1>8. jobFile' \in [Batches -> Files] /\ output' \in [Batches -> Outputs]
  <2>1. \A b \in Batches : [i \in Items |-> IF <<b, i>> \in written THEN "failed" ELSE jobFile[b][i]] \in Files
    <3>1. "failed" \in Saved
      BY Words
    <3> QED
      BY <1>3, <3>1 DEF Files
  <2>2. \A b \in Batches : [i \in Items |-> IF b \notin Loaded /\ jobFile[b][i] \in Active THEN "none" ELSE output[b][i]] \in Outputs
    BY <1>3 DEF Outputs
  <2> QED
    BY <1>4, <2>1, <2>2
<1>9. job' = [b \in Batches |-> [i \in Items |->
                 IF b \in Loaded /\ jobFile[b][i] = "absent" THEN copies[b][i]
                 ELSE IF jobFile'[b][i] = "absent" \/ (b \notin Loaded /\ jobFile'[b][i] \in Active)
                   THEN "none" ELSE jobFile'[b][i]]]
  BY DEF RecoverJobs
<1>10. \A b \in Batches : \A i \in Items : jobFile'[b][i] \in Saved
  BY <1>8, RowGet
<1>11. job' \in [Batches -> Records]
  <2>1. \A b \in Batches : [i \in Items |->
                 IF b \in Loaded /\ jobFile[b][i] = "absent" THEN copies[b][i]
                 ELSE IF jobFile'[b][i] = "absent" \/ (b \notin Loaded /\ jobFile'[b][i] \in Active)
                   THEN "none" ELSE jobFile'[b][i]] \in Records
    <3>1. "none" \in Values /\ \A x \in Saved : x # "absent" => x \in Values
      BY DEF Values, Saved
    <3> QED
      BY <1>3, <1>10, <3>1 DEF Records
  <2> QED
    BY <1>9, <2>1
<1>12. record' = [b \in Batches |-> IF b \in Loaded THEN file[b] ELSE "none"]
       /\ items' = [b \in Batches |-> IF b \in Loaded THEN job'[b] ELSE [i \in Items |-> "none"]]
       /\ told' = [b \in Batches |-> told[b] \cup {i \in Items : items'[b][i] = "complete"}]
  BY DEF RecoverJobs
<1>13. /\ record' \in [Batches -> Values] /\ items' \in [Batches -> Records] /\ told' \in [Batches -> SUBSET Items]
  <2>1. \A b \in Loaded : file[b] \in Values
    BY <1>3 DEF Loaded, Values, Saved, Chained
  <2>2. PICK e \in Records : e = [i \in Items |-> "none"]
    BY RowOf, Words
  <2>3. \A b \in Batches : job'[b] \in Records
    BY <1>11
  <2> QED
    BY <1>3, <1>12, <2>1, <2>2, <2>3, Words
<1>14. ASSUME NEW b \in Loaded
       PROVE  /\ record'[b] = file[b] /\ items'[b] = job'[b]
              /\ \A i \in Items : /\ jobFile'[b][i] = jobFile[b][i] /\ output'[b][i] = output[b][i]
                                  /\ job'[b][i] = IF jobFile[b][i] = "absent" THEN copies[b][i] ELSE jobFile[b][i]
  <2>1. b \in Batches
    BY DEF Loaded, Chained
  <2>2. record'[b] = file[b] /\ items'[b] = job'[b]
    BY <1>12, <2>1
  <2>3. \A i \in Items : jobFile'[b][i] = jobFile[b][i] /\ output'[b][i] = output[b][i]
    BY <1>7, <2>1
  <2>4. \A i \in Items : job'[b][i] = IF jobFile[b][i] = "absent" THEN copies[b][i] ELSE jobFile[b][i]
    BY <1>9, <2>1, <2>3
  <2> QED
    BY <2>2, <2>3, <2>4
<1>15. ASSUME NEW b \in Batches \ Loaded
       PROVE  /\ record'[b] = "none"
              /\ \A i \in Items : /\ items'[b][i] = "none"
                                  /\ jobFile'[b][i] = jobFile[b][i] \/ (jobFile'[b][i] = "failed" /\ jobFile[b][i] \in Active)
                                  /\ output'[b][i] = output[b][i] \/ (output'[b][i] = "none" /\ jobFile[b][i] \in Active)
                                  /\ jobFile[b][i] = "absent" => job'[b][i] = "none"
  <2>1. record'[b] = "none" /\ \A i \in Items : items'[b][i] = "none"
    BY <1>12
  <2>2. \A i \in Items : /\ jobFile'[b][i] = jobFile[b][i] \/ (jobFile'[b][i] = "failed" /\ jobFile[b][i] \in Active)
                         /\ output'[b][i] = output[b][i] \/ (output'[b][i] = "none" /\ jobFile[b][i] \in Active)
    BY <1>7
  <2>3. \A i \in Items : jobFile[b][i] = "absent" => job'[b][i] = "none"
    BY <1>9, <2>2 DEF Active
  <2> QED
    BY <2>1, <2>2, <2>3
<1>16. \A b \in Batches : \A i \in Items : i \in told'[b] <=> i \in told[b] \/ items'[b][i] = "complete"
  BY <1>12
<1> QED
  BY <1>1, <1>2, <1>6, <1>8, <1>11, <1>13, <1>14, <1>15, <1>16

LEMMA RecoverJobsStep ==
  ASSUME IInv, RecoverJobs
  PROVE  IInv'
<1>0. TypeOK /\ OnRecords /\ OnLane /\ OnLock
  BY DEF IInv
<1>1. /\ crit # None /\ crit.who = "start" /\ crit.what = "jobs" /\ queue = <<>> /\ run = None /\ cancelled = {}
      /\ \A b \in Batches : record[b] = "none" /\ pending[b] = {}
  BY RecoverDoes
<1>2. UNCHANGED <<file, copies, journal, origin, members, pending, queue, run, pc, worker, seen, cancelled>>
  BY RecoverDoes
<1>3. /\ jobFile' \in [Batches -> Files] /\ output' \in [Batches -> Outputs] /\ job' \in [Batches -> Records]
      /\ record' \in [Batches -> Values] /\ items' \in [Batches -> Records] /\ told' \in [Batches -> SUBSET Items]
      /\ faults' \in Nat /\ crashes' \in Nat
  BY RecoverDoes
<1>4. \A b \in Loaded : /\ record'[b] = file[b] /\ items'[b] = job'[b]
                        /\ \A i \in Items : /\ jobFile'[b][i] = jobFile[b][i] /\ output'[b][i] = output[b][i]
                                            /\ job'[b][i] = IF jobFile[b][i] = "absent" THEN copies[b][i] ELSE jobFile[b][i]
  BY RecoverDoes
<1>5. \A b \in Batches \ Loaded :
         /\ record'[b] = "none"
         /\ \A i \in Items : /\ items'[b][i] = "none"
                             /\ jobFile'[b][i] = jobFile[b][i] \/ (jobFile'[b][i] = "failed" /\ jobFile[b][i] \in Active)
                             /\ output'[b][i] = output[b][i] \/ (output'[b][i] = "none" /\ jobFile[b][i] \in Active)
                             /\ jobFile[b][i] = "absent" => job'[b][i] = "none"
  BY RecoverDoes
<1>6. \A b \in Batches : \A i \in Items : i \in told'[b] <=> i \in told[b] \/ items'[b][i] = "complete"
  BY RecoverDoes
<1>7. /\ \A c \in Batches : members[c] \subseteq Items /\ journal[c] \subseteq Items /\ pending[c] \subseteq Items
                            /\ told[c] \subseteq Items /\ file[c] \in Saved
      /\ \A c \in Batches : origin[c] # None => origin[c].parent \in Batches
      /\ \A c \in Batches : \A i \in Items : jobFile[c][i] \in Saved
  BY <1>0, Cells
<1>8. /\ \A b \in Loaded : b \in Batches /\ file[b] # "absent" /\ b \in Chained(file, copies)
      /\ \A b \in Batches : file[b] = "absent" => b \notin Loaded
      /\ \A b \in Chained(file, copies) : b \in Loaded \/ file[b] = "absent"
  BY DEF Loaded, Chained
<1>9. /\ "complete" \notin Active /\ "absent" \notin Active /\ "none" \notin Saved /\ "none" \notin Terminal
  BY DEF Active, Terminal, Saved
<1>10. \A b \in Loaded : \A i \in Items : copies[b][i] = "complete" => jobFile[b][i] # "absent"
  <2>1. ASSUME NEW b \in Loaded, NEW i \in Items, copies[b][i] = "complete" PROVE jobFile[b][i] # "absent"
    <3>1. b \in Batches /\ Kept(b)
      BY <1>8 DEF Kept
    <3>2. i \in members[b] /\ Claimed(b, i)
      BY <1>0, <2>1, <3>1 DEF OnRecords, OfMembers, Telling, Claimed
    <3>3. i \in UpTo(b, i)
      <4>1. i \in Nat
        BY BatchAssumption
      <4> QED
        BY <3>2, <4>1 DEF UpTo
    <3>4. Firm(b, i)
      BY <1>0, <3>1, <3>2, <3>3 DEF OnRecords, Firmly
    <3> QED
      BY <1>0, <3>1, <3>4 DEF Firm, OnRecords, Journaled
  <2> QED
    BY <2>1
<1>11. \A b \in Batches : \A i \in Items : /\ jobFile'[b][i] = "complete" <=> jobFile[b][i] = "complete"
                                           /\ jobFile'[b][i] = "absent" <=> jobFile[b][i] = "absent"
                                           /\ jobFile[b][i] = "complete" => output'[b][i] = output[b][i]
  BY <1>4, <1>5, <1>9
<1>12. \A b \in Loaded : \A i \in Items : job'[b][i] = "complete" <=> jobFile[b][i] = "complete"
  BY <1>4, <1>10
<1>13. TypeOK'
  <2>1. DiskType' /\ MemoryType'
    BY <1>0, <1>2, <1>3 DEF TypeOK, DiskType, MemoryType
  <2>2. LaneType'
    BY <1>0, <1>2 DEF TypeOK, LaneType
  <2>3. LockType'
    <3>1. crit' = Section("start", "replay", None, {}, "none")
      BY DEF RecoverJobs, Enter
    <3>2. crit' \in Held /\ crit' # None /\ crit'.who = "start"
      BY <3>1, SectionIs DEF Owners, Sections
    <3> QED
      BY <1>0, <1>1, <1>2, <3>2 DEF TypeOK, LockType
  <2> QED
    BY <2>1, <2>2, <2>3 DEF TypeOK
<1>14. OnRecords'
  <2>1. OfMembers'
    <3>1. ASSUME NEW b \in Batches, NEW i \in Items \ members[b]
          PROVE  /\ copies'[b][i] = "none" /\ items'[b][i] = "none" /\ job'[b][i] = "none"
                 /\ jobFile'[b][i] = "absent" /\ output'[b][i] = "none"
                 /\ i \notin journal'[b] /\ i \notin pending'[b] /\ i \notin told'[b]
      <4>1. /\ copies[b][i] = "none" /\ jobFile[b][i] = "absent" /\ output[b][i] = "none"
            /\ i \notin journal[b] /\ i \notin pending[b] /\ i \notin told[b]
        BY <1>0 DEF OnRecords, OfMembers
      <4>2. CASE b \in Loaded
        BY <1>2, <1>4, <1>6, <4>1, <4>2
      <4>3. CASE b \notin Loaded
        BY <1>2, <1>5, <1>6, <1>9, <4>1, <4>3
      <4> QED
        BY <4>2, <4>3
    <3> QED
      BY <1>2, <3>1 DEF OfMembers
  <2>2. Unsubmitted' /\ Unaccepted'
    <3>1. Unsubmitted'
      BY <1>0, <1>2 DEF OnRecords, Unsubmitted
    <3>2. ASSUME NEW b \in Batches, file[b] = "absent"
          PROVE  /\ record'[b] = "none" /\ told'[b] = {} /\ journal'[b] = {}
                 /\ \A i \in Items : copies'[b][i] = "none" /\ jobFile'[b][i] # "complete"
      <4>1. /\ told[b] = {} /\ journal[b] = {} /\ \A i \in Items : copies[b][i] = "none" /\ jobFile[b][i] # "complete"
        BY <1>0, <3>2 DEF OnRecords, Unaccepted
      <4>2. record'[b] = "none" /\ \A i \in Items : items'[b][i] = "none"
        BY <1>5, <1>8, <3>2
      <4>3. told'[b] \subseteq Items
        BY <1>3
      <4> QED
        BY <1>2, <1>6, <1>11, <4>1, <4>2, <4>3
    <3> QED
      BY <1>2, <3>1, <3>2 DEF Unaccepted
  <2>3. Unloaded'
    BY <1>1, <1>2, <1>4, <1>5, <1>7, <1>8, <1>9 DEF Unloaded
  <2>4. Stated'
    <3>1. ASSUME NEW b \in Loaded, NEW i \in members[b] PROVE items'[b][i] # "none" /\ job'[b][i] # "none"
      <4>1. copies[b][i] # "none"
        BY <1>0, <1>8 DEF OnRecords, Stated
      <4> QED
        BY <1>4, <1>7, <1>8, <1>9, <4>1
    <3> QED
      BY <1>0, <1>2, <1>5, <3>1 DEF OnRecords, Stated
  <2>5. Sourced'
    <3>1. \A c \in Batches : file[c] \in Terminal => record'[c] \in Terminal \cup {"none"}
      BY <1>4, <1>5
    <3> QED
      BY <1>0, <1>2, <1>7, <3>1 DEF OnRecords, Sourced
  <2>6. Pended' /\ Agreeing'
    <3>1. Pended'
      BY <1>1, <1>2 DEF Pended
    <3>2. Agreeing'
      <4>1. ASSUME NEW c \in Batches, record'[c] # "none", NEW i \in members[c]
            PROVE  job'[c][i] = "complete" <=> jobFile'[c][i] = "complete"
        <5>1. c \in Loaded /\ i \in Items
          BY <1>5, <1>7, <4>1
        <5> QED
          BY <1>11, <1>12, <4>1, <5>1
      <4> QED
        BY <1>2, <4>1 DEF Agreeing
    <3> QED
      BY <3>1, <3>2
  <2>7. Telling'
    BY <1>0, <1>2, <1>6 DEF OnRecords, Telling
  <2>8. Whole'
    <3>1. ASSUME NEW b \in Batches, file[b] = "complete"
          PROVE  /\ \A i \in members[b] : jobFile'[b][i] = "complete"
                 /\ record'[b] # "none" => record'[b] = "complete" /\ \A i \in members[b] : items'[b][i] = "complete"
      <4>1. \A i \in members[b] : jobFile[b][i] = "complete"
        BY <1>0, <3>1 DEF OnRecords, Whole
      <4>2. CASE b \in Loaded
        BY <1>4, <1>7, <1>11, <1>12, <3>1, <4>1, <4>2
      <4>3. CASE b \notin Loaded
        BY <1>5, <1>7, <1>11, <4>1, <4>3
      <4> QED
        BY <4>2, <4>3
    <3> QED
      BY <1>2, <3>1 DEF Whole
  <2>9. Durable' /\ Journaled'
    BY <1>0, <1>2, <1>7, <1>11 DEF OnRecords, Durable, Journaled
  <2>10. Firmly'
    <3>1. ASSUME NEW b \in Batches, Kept(b)', NEW i \in members[b], Claimed(b, i)', NEW j \in members[b], j <= i
          PROVE  Firm(b, j)'
      <4>1. b \in Chained(file, copies)
        <5>1. Chained(file, copies)' = Chained(file, copies)
          BY <1>2 DEF Chained, Lineage
        <5> QED
          BY <1>5, <1>8, <3>1, <5>1 DEF Kept
      <4>2. b \in Loaded
        <5>1. SUFFICES ASSUME b \notin Loaded PROVE FALSE
          OBVIOUS
        <5>2. file[b] = "absent"
          BY <1>8, <4>1, <5>1
        <5>3. told[b] = {} /\ jobFile[b][i] # "complete"
          BY <1>0, <1>7, <5>2 DEF OnRecords, Unaccepted
        <5>4. i \notin told'[b] /\ jobFile'[b][i] # "complete" /\ record'[b] = "none"
          BY <1>5, <1>6, <1>7, <1>11, <5>1, <5>3
        <5> QED
          BY <3>1, <5>4 DEF Claimed
      <4>3. Claimed(b, i)
        BY <1>4, <1>6, <1>7, <1>11, <1>12, <3>1, <4>2 DEF Claimed
      <4>4. Firm(b, j)
        BY <1>0, <3>1, <4>1, <4>3 DEF OnRecords, Firmly, Kept, UpTo
      <4> QED
        BY <1>2, <1>4, <1>7, <4>2, <4>4 DEF Firm
    <3> QED
      BY <1>2, <3>1 DEF Firmly, UpTo
  <2> QED
    BY <2>1, <2>2, <2>3, <2>4, <2>5, <2>6, <2>7, <2>8, <2>9, <2>10 DEF OnRecords
<1>15. /\ crit' # None /\ crit'.who = "start" /\ crit'.what = "replay" /\ crit'.batch = None
  <2>1. crit' = Section("start", "replay", None, {}, "none")
    BY DEF RecoverJobs, Enter
  <2> QED
    BY <2>1, SectionIs DEF Owners, Sections
<1>16. OnLane'
  <2>1. \A b \in Batches : ~ Placed(b)' /\ ~ Queued(b)'
    BY <1>1, <1>2, BatchAssumption DEF Placed, Queued
  <2>2. Alive' /\ Fresh'
    BY <1>1, <1>2, <2>1, BatchAssumption DEF Alive, Fresh
  <2>3. Queueing' /\ Seeing'
    BY <1>0, <1>1, <1>2 DEF OnLane, Queueing, Seeing
  <2> QED
    BY <2>2, <2>3 DEF OnLane
<1>17. OnLock'
  <2>1. Shape'
    BY <1>15 DEF Shape
  <2>2. Submitting' /\ Reserving' /\ Ending' /\ Replaying'
    BY <1>15, BatchAssumption DEF Submitting, Reserving, Ending, Replaying, By, On
  <2>3. Starting'
    BY <1>1, <1>2, <1>15 DEF Starting
  <2>4. Shown'
    BY <1>4, <1>5, <1>9, <1>15 DEF Shown, By
  <2>5. Knowing'
    BY <1>15, BatchAssumption DEF Knowing, Working, By, On
  <2> QED
    BY <2>1, <2>2, <2>3, <2>4, <2>5 DEF OnLock
<1> QED
  BY <1>13, <1>14, <1>16, <1>17 DEF IInv

\* A batch whose journal is replayed, with or without a change of an image.
LEMMA Replays ==
  ASSUME IInv, NEW b \in Batches, crit # None, crit.who = "start", crit.what = "replay", crit.batch = b,
         crit' \in Held, crit' # None, crit'.who = "start", crit'.batch = b,
         crit'.what = "replay" \/ (crit'.what = "clean" /\ crit'.outcome = "failed"),
         OnRecords', Shape',
         UNCHANGED <<file, copies, output, journal, origin, members, record, items, told>>,
         UNCHANGED <<queue, run, pc, worker, seen, cancelled, crashes>>, faults' \in Nat,
         jobFile' \in [Batches -> Files], job' \in [Batches -> Records], pending' \in [Batches -> SUBSET Items],
         \A c \in Batches : c # b => \A j \in Items : jobFile'[c][j] = jobFile[c][j] /\ job'[c][j] = job[c][j],
         crit'.what = "replay" => /\ crit'.todo \subseteq journal[b]
                                  /\ \A i \in members[b] : Claimed(b, i)' =>
                                        \A j \in UpTo(b, i) : job'[b][j] = "complete" \/ j \in crit'.todo,
         crit'.what = "clean" => \A i \in members[b] : Claimed(b, i)' => \A j \in UpTo(b, i) : job'[b][j] = "complete"
  PROVE  IInv'
<1>0. TypeOK /\ OnRecords /\ OnLane /\ OnLock
  BY DEF IInv
<1>1. run = None /\ queue = <<>> /\ Interrupted(b) /\ cancelled = {}
  BY <1>0, BatchAssumption DEF OnLock, Starting, By
<1>2. TypeOK'
  <2>1. DiskType' /\ MemoryType'
    BY <1>0 DEF TypeOK, DiskType, MemoryType
  <2>2. LaneType' /\ LockType'
    BY <1>0 DEF TypeOK, LaneType, LockType
  <2> QED
    BY <2>1, <2>2 DEF TypeOK
<1>3. OnLane'
  <2>1. \A c \in Batches : ~ Placed(c)' /\ ~ Queued(c)'
    BY <1>1, BatchAssumption DEF Placed, Queued
  <2>2. Alive' /\ Fresh'
    BY <1>1, <2>1, BatchAssumption DEF Alive, Fresh
  <2>3. Queueing' /\ Seeing'
    BY <1>0, <1>1 DEF OnLane, Queueing, Seeing
  <2> QED
    BY <2>2, <2>3 DEF OnLane
<1>4. OnLock'
  <2>1. Submitting' /\ Reserving' /\ Ending'
    BY DEF Submitting, Reserving, Ending, By
  <2>2. Starting'
    BY <1>1 DEF Starting, Interrupted
  <2>3. Shown'
    <3>1. \A c \in Batches : c # b => job'[c] = job[c]
      <4>1. \A c \in Batches : job'[c] \in Records /\ job[c] \in Records
        BY <1>0 DEF TypeOK, MemoryType
      <4> QED
        BY <4>1 DEF Records
    <3>2. \A c \in Batches : (On(c)' <=> On(c)) /\ (c # b <=> ~ On(c))
      BY DEF On
    <3>3. By("start")' /\ By("start")
      BY DEF By
    <3> QED
      BY <1>0, <3>1, <3>2, <3>3 DEF OnLock, Shown
  <2>4. Knowing'
    <3>1. \A c \in Batches : Working(c)' => c = b /\ crit'.what = "clean"
      BY DEF Working, By, On
    <3> QED
      BY <3>1 DEF Knowing, UpTo
  <2>5. Replaying'
    BY DEF Replaying, On, UpTo
  <2> QED
    BY <2>1, <2>2, <2>3, <2>4, <2>5 DEF OnLock
<1> QED
  BY <1>2, <1>3, <1>4 DEF IInv

LEMMA ReplayStep ==
  ASSUME IInv, Replay
  PROVE  IInv'
<1>0. TypeOK /\ OnRecords /\ OnLane /\ OnLock
  BY DEF IInv
<1>1. crit # None /\ crit.what = "replay" /\ crit.batch # None /\ crit.who = "start" /\ crit \in Held
  BY <1>0, Subject DEF Replay, Holds, OnLock, Shape
<1>2. PICK b \in Batches : b = Batch /\ crit.batch = b
  BY <1>0, <1>1, Subject DEF Batch
<1>3. /\ record[b] # "none" /\ crit.todo \subseteq journal[b] /\ members[b] \subseteq Items /\ journal[b] \subseteq Items
      /\ \A j \in members[b] : Claimed(b, j) => \A k \in UpTo(b, j) : job[b][k] = "complete" \/ k \in crit.todo
  <2>1. Interrupted(b)
    BY <1>0, <1>1, <1>2 DEF OnLock, Starting, By
  <2> QED
    BY <1>0, <1>1, <1>2, <2>1, Cells DEF OnLock, Replaying, On, Interrupted
<1>4. /\ UNCHANGED <<file, copies, output, journal, origin, members, record, items, told>>
      /\ UNCHANGED <<queue, run, pc, worker, seen, cancelled>>
  BY DEF Replay, frozen, lane
<1>5. /\ jobFile \in [Batches -> Files] /\ job \in [Batches -> Records] /\ pending \in [Batches -> SUBSET Items]
      /\ faults \in Nat
  BY <1>0 DEF TypeOK, DiskType, MemoryType
<1>6. "complete" \in Values /\ "complete" \in Saved
  BY Words
<1>7. ASSUME NEW i \in Items, crit' = [crit EXCEPT !.todo = @ \ {i}]
      PROVE  /\ crit' \in Held /\ crit' # None /\ crit'.who = "start" /\ crit'.what = "replay" /\ crit'.batch = b
             /\ crit'.todo = crit.todo \ {i} /\ Shape'
  <2>1. crit' = [crit EXCEPT !.todo = crit.todo \ {i}] /\ crit.todo \ {i} \in SUBSET Items
    BY <1>3, <1>7
  <2>2. /\ crit' \in Held /\ crit' # None /\ crit'.who = "start" /\ crit'.what = "replay" /\ crit'.batch = b
        /\ crit'.todo = crit.todo \ {i}
    BY <1>1, <1>2, <2>1, HeldTodo
  <2> QED
    BY <2>2 DEF Shape
<1>8. CASE /\ crit.todo # {} /\ Known(Batch, Item) /\ job' = [job EXCEPT ![Batch][Item] = "complete"]
           /\ Enter([crit EXCEPT !.todo = @ \ {Item}]) /\ NoFault /\ UNCHANGED <<jobFile, pending>>
  <2>1. PICK i \in Items : i = Item /\ i \in crit.todo
    BY <1>0, <1>1, <1>8, Subject
  <2>2. job[b][i] = "complete"
    BY <1>0, <1>2, <1>8, <2>1 DEF Known, OnRecords, Pended
  <2>3. job' = job
    <3>1. job' \in [Batches -> Records] /\ Put(job', job, b, i, "complete")
      BY <1>2, <1>5, <1>6, <1>8, <2>1, PutJob
    <3> QED
      BY <1>5, <2>2, <3>1, SameJobs DEF Put
  <2>4. OnRecords'
    BY <1>0, <1>4, <1>8, <2>3, RecordsStay
  <2>5. /\ crit' \in Held /\ crit' # None /\ crit'.who = "start" /\ crit'.what = "replay" /\ crit'.batch = b
        /\ crit'.todo = crit.todo \ {i} /\ Shape'
    BY <1>7, <1>8, <2>1 DEF Enter
  <2>6. \A j \in members[b] : Claimed(b, j)' => \A k \in UpTo(b, j) : job'[b][k] = "complete" \/ k \in crit'.todo
    <3>1. \A j \in members[b] : Claimed(b, j)' => Claimed(b, j)
      BY <1>4, <1>8, <2>3 DEF Claimed
    <3> QED
      BY <1>3, <2>2, <2>3, <2>5, <3>1
  <2>7. /\ faults' \in Nat /\ crashes' = crashes
        /\ jobFile' \in [Batches -> Files] /\ job' \in [Batches -> Records] /\ pending' \in [Batches -> SUBSET Items]
        /\ \A c \in Batches : c # b => \A j \in Items : jobFile'[c][j] = jobFile[c][j] /\ job'[c][j] = job[c][j]
    BY <1>5, <1>8, <2>3 DEF NoFault, bounds
  <2> QED
    BY <1>1, <1>2, <1>3, <1>4, <2>4, <2>5, <2>6, <2>7, Replays
<1>9. CASE /\ crit.todo # {} /\ ~ Known(Batch, Item) /\ Valid(Batch, Item)
           /\ \/ JobSaved(Batch, Item, "complete") /\ UNCHANGED pending
              \/ KeepPending(Batch, Item)
           /\ Enter([crit EXCEPT !.todo = @ \ {Item}])
  <2>1. PICK i \in Items : i = Item /\ i \in crit.todo
    BY <1>0, <1>1, <1>9, Subject
  <2>2. i \in journal[b] /\ output[b][i] = "whole" /\ \A j \in members[b] : j < i => job[b][j] = "complete"
    BY <1>2, <1>3, <1>9, <2>1 DEF Valid
  <2>3. /\ job' = [job EXCEPT ![b][i] = "complete"]
        /\ \/ jobFile' = [jobFile EXCEPT ![b][i] = "complete"] /\ pending' = pending
           \/ jobFile' = jobFile /\ pending' = [pending EXCEPT ![b] = @ \cup {i}]
        /\ faults' \in Nat /\ crashes' = crashes
    BY <1>2, <1>5, <1>9, <2>1 DEF JobSaved, KeepPending, NoFault, Fault, bounds
  <2>4. job' \in [Batches -> Records] /\ Put(job', job, b, i, "complete")
    BY <1>5, <1>6, <2>3, PutJob
  <2>5. /\ jobFile' \in [Batches -> Files] /\ pending' \in [Batches -> SUBSET Items]
        /\ \/ Put(jobFile', jobFile, b, i, "complete") /\ pending' = pending
           \/ jobFile' = jobFile /\ Row(pending', pending, b, pending[b] \cup {i})
    <3>1. CASE jobFile' = [jobFile EXCEPT ![b][i] = "complete"] /\ pending' = pending
      BY <1>5, <1>6, <3>1, PutFile
    <3>2. CASE jobFile' = jobFile /\ pending' = [pending EXCEPT ![b] = @ \cup {i}]
      BY <1>5, <3>2 DEF Row
    <3> QED
      BY <2>3, <3>1, <3>2
  <2>6. OnRecords' /\ \A c \in Batches : \A j \in Items : Claimed(c, j)' => Claimed(c, j) \/ (c = b /\ j = i)
    BY <1>3, <1>4, <2>2, <2>4, <2>5, ItemCompletes
  <2>7. /\ crit' \in Held /\ crit' # None /\ crit'.who = "start" /\ crit'.what = "replay" /\ crit'.batch = b
        /\ crit'.todo = crit.todo \ {i} /\ Shape'
    BY <1>7, <1>9, <2>1 DEF Enter
  <2>8. \A j \in members[b] : Claimed(b, j)' => \A k \in UpTo(b, j) : job'[b][k] = "complete" \/ k \in crit'.todo
    <3>1. \A k \in Items : job[b][k] = "complete" \/ k = i => job'[b][k] = "complete"
      BY <2>4 DEF Put
    <3>2. \A k \in UpTo(b, i) : job'[b][k] = "complete"
      <4>1. ASSUME NEW k \in members[b], k <= i PROVE k = i \/ job[b][k] = "complete"
        <5>1. k \in Nat /\ i \in Nat
          BY <1>3, BatchAssumption
        <5> QED
          BY <2>2, <4>1, <5>1
      <4> QED
        BY <1>3, <3>1, <4>1 DEF UpTo
    <3> QED
      BY <1>3, <2>6, <2>7, <3>1, <3>2 DEF UpTo
  <2>9. \A c \in Batches : c # b => \A j \in Items : jobFile'[c][j] = jobFile[c][j] /\ job'[c][j] = job[c][j]
    BY <2>4, <2>5 DEF Put
  <2> QED
    BY <1>1, <1>2, <1>3, <1>4, <2>3, <2>4, <2>5, <2>6, <2>7, <2>8, <2>9, Replays
<1>10. CASE /\ crit.todo # {} => ~ Known(Batch, Item) /\ ~ Valid(Batch, Item)
            /\ Enter(Section("start", "clean", Batch, members[Batch], "failed"))
            /\ NoFault /\ UNCHANGED <<jobFile, job, pending>>
  <2>1. /\ crit' \in Held /\ crit' # None /\ crit'.who = "start" /\ crit'.what = "clean" /\ crit'.batch = b
        /\ crit'.todo = members[b] /\ crit'.outcome = "failed"
    <3>1. crit' = Section("start", "clean", b, members[b], "failed") /\ "start" \in Owners /\ "clean" \in Sections
      BY <1>2, <1>10 DEF Enter, Owners, Sections
    <3> QED
      BY <1>3, <3>1, SectionIs
  <2>2. Shape'
    BY <1>4, <2>1, BatchAssumption DEF Shape
  <2>3. OnRecords'
    BY <1>0, <1>4, <1>10, RecordsStay
  <2>4. \A j \in members[b] : Claimed(b, j)' => \A k \in UpTo(b, j) : job'[b][k] = "complete"
    <3>1. ASSUME NEW j \in members[b], Claimed(b, j), NEW k \in members[b], k <= j
          PROVE  job[b][k] = "complete"
      <4>1. \A m \in members[b] : m <= j => job[b][m] = "complete" \/ m \in crit.todo
        BY <1>3, <3>1 DEF UpTo
      <4>2. SUFFICES ASSUME k \in crit.todo PROVE FALSE
        BY <3>1, <4>1
      <4>3. PICK i \in Items : i = Item /\ i \in crit.todo /\ \A m \in crit.todo : i <= m
        BY <1>0, <1>1, <4>2, Subject
      <4>4. j \in Nat /\ k \in Nat /\ i \in Nat /\ \A m \in members[b] : m \in Nat
        BY <1>3, BatchAssumption
      <4>5. i <= k /\ i <= j
        BY <3>1, <4>2, <4>3, <4>4
      <4>6. i \in members[b]
        BY <1>0, <1>3, <4>3 DEF OnRecords, OfMembers
      <4>7. output[b][i] = "whole"
        <5>1. Kept(b)
          BY <1>3 DEF Kept
        <5> QED
          BY <1>0, <3>1, <4>5, <4>6, <5>1 DEF OnRecords, Firmly, UpTo, Firm
      <4>8. PICK m \in members[b] : m < i /\ job[b][m] # "complete"
        BY <1>2, <1>10, <4>2, <4>3, <4>7 DEF Valid
      <4>9. m <= j /\ ~ (i <= m)
        BY <4>4, <4>5, <4>8
      <4> QED
        BY <4>1, <4>3, <4>8, <4>9
    <3>2. \A j \in members[b] : Claimed(b, j)' => Claimed(b, j)
      BY <1>4, <1>10 DEF Claimed
    <3> QED
      BY <1>10, <3>1, <3>2 DEF UpTo
  <2>5. /\ faults' \in Nat /\ crashes' = crashes
        /\ jobFile' \in [Batches -> Files] /\ job' \in [Batches -> Records] /\ pending' \in [Batches -> SUBSET Items]
        /\ \A c \in Batches : c # b => \A j \in Items : jobFile'[c][j] = jobFile[c][j] /\ job'[c][j] = job[c][j]
    BY <1>5, <1>10 DEF NoFault, bounds
  <2> QED
    BY <1>1, <1>2, <1>4, <2>1, <2>2, <2>3, <2>4, <2>5, Replays
<1> QED
  BY <1>8, <1>9, <1>10 DEF Replay

-----------------------------------------------------------------------------
(* The theorems.                                                            *)

LEMMA StutterStep ==
  ASSUME IInv, UNCHANGED vars
  PROVE  IInv'
<1>0. TypeOK /\ OnRecords /\ OnLane /\ OnLock
  BY DEF IInv
<1>1. /\ UNCHANGED <<file, copies, jobFile, output, journal, origin, members, record, items, job, pending, told>>
      /\ UNCHANGED <<queue, run, pc, worker, seen, cancelled, crit, faults, crashes>>
  BY DEF vars, disk, frozen, memory, lane, bounds
<1>2. TypeOK'
  BY <1>0, <1>1 DEF TypeOK, DiskType, MemoryType, LaneType, LockType
<1>3. OnRecords'
  BY <1>0, <1>1, RecordsStay
<1>4. OnLane'
  BY <1>0, <1>1 DEF OnLane, Alive, Going, Placed, Queued, Queueing, Fresh, Seeing
<1>5. OnLock'
  <2>1. Shape'
    BY <1>0, <1>1 DEF OnLock, Shape
  <2>2. Submitting'
    BY <1>0, <1>1 DEF OnLock, Submitting, By, Placed, Queued
  <2>3. Ending' /\ Starting'
    BY <1>0, <1>1 DEF OnLock, Ending, Starting, By, Going, Placed, Queued, Interrupted
  <2>4. Reserving' /\ Shown' /\ Knowing' /\ Replaying'
    BY <1>0, <1>1, LockStays
  <2> QED
    BY <2>1, <2>2, <2>3, <2>4 DEF OnLock
<1> QED
  BY <1>2, <1>3, <1>4, <1>5 DEF IInv

LEMMA NextHolds ==
  ASSUME IInv, [Next]_vars
  PROVE  IInv'
<1>1. CASE Client
  BY <1>1, SubmitStep, CancelStep, RetryStep DEF Client
<1>2. CASE Locked
  <2>1. CASE SubmitJob \/ Commit \/ Rollback
    BY <2>1, SubmitJobStep, CommitStep, RollbackStep
  <2>2. CASE Sample \/ CompleteItem \/ SaveRecord \/ VerifyItems \/ SaveComplete
    BY <2>2, SampleStep, CompleteItemStep, SaveRecordStep, VerifyItemsStep, SaveCompleteStep
  <2>3. CASE CleanItem \/ EndItem \/ EndBatch
    BY <2>3, CleanItemStep, EndItemStep, EndBatchStep
  <2>4. CASE RecoverJobs \/ RecoverNext \/ Replay
    BY <2>4, RecoverJobsStep, RecoverNextStep, ReplayStep
  <2> QED
    BY <1>2, <2>1, <2>2, <2>3, <2>4 DEF Locked
<1>3. CASE Lane
  BY <1>3, TakeStep, PrepareStep, DispatchStep, ConsumeStepStep, ConsumeTakes, ReturnedStep, VerifyStep, ExceptStep
     DEF Lane
<1>4. CASE Worker
  BY <1>4, RenderStep, WorkerEndsStep DEF Worker
<1>5. CASE Crash
  BY <1>5, CrashStep
<1>6. CASE UNCHANGED vars
  BY <1>6, StutterStep
<1> QED
  BY <1>1, <1>2, <1>3, <1>4, <1>5, <1>6 DEF Next

LEMMA IInvAlways == Spec => []IInv
<1>1. Init => IInv
  BY InitHolds
<1>2. IInv /\ [Next]_vars => IInv'
  BY NextHolds
<1> QED
  BY <1>1, <1>2, PTL DEF Spec

\* Files, records, journals, the queue and the holder of the lock keep their
\* types, and the lane ends a batch exactly while it holds the lock for it.
THEOREM TypeCorrect == Spec => []TypeOK
<1>1. IInv => TypeOK
  BY DEF IInv
<1> QED
  BY <1>1, IInvAlways, PTL

\* An image that a client saw complete stays whole, with its job record or its
\* journal event, in every batch that is loaded or that a start will load:
\* _finish cleans up only what is not known complete, and _replay_completions
\* finds the rest before anything is cleaned up.
THEOREM SeenIsKept == Spec => []SeenStays
<1>1. IInv => SeenStays
  <2>1. SUFFICES ASSUME IInv, NEW b \in Batches, record[b] # "none" \/ b \in Chained(file, copies), NEW i \in told[b]
                 PROVE  output[b][i] = "whole" /\ (jobFile[b][i] = "complete" \/ i \in journal[b])
    BY DEF SeenStays, Confirmed
  <2>2. TypeOK /\ OnRecords
    BY <2>1 DEF IInv
  <2>3. i \in Items
    BY <2>1, <2>2, Cells
  <2>4. i \in members[b] /\ Claimed(b, i) /\ Kept(b)
    BY <2>1, <2>2, <2>3 DEF OnRecords, OfMembers, Claimed, Kept
  <2>5. i \in UpTo(b, i)
    <3>1. i \in Nat
      BY <2>3, BatchAssumption
    <3> QED
      BY <2>4, <3>1 DEF UpTo
  <2> QED
    BY <2>2, <2>4, <2>5 DEF OnRecords, Firmly, Firm
<1> QED
  BY <1>1, IInvAlways, PTL

\* A batch is saved complete only when the job record and the image of each of
\* its items are on disk, and neither is lost afterwards.
THEOREM CompleteHoldsAll == Spec => []CompleteIsWhole
<1>1. IInv => CompleteIsWhole
  <2>1. SUFFICES ASSUME IInv, NEW b \in Batches, file[b] = "complete", NEW i \in members[b]
                 PROVE  output[b][i] = "whole" /\ jobFile[b][i] = "complete"
    BY DEF CompleteIsWhole
  <2>2. TypeOK /\ OnRecords /\ i \in Items
    BY <2>1, Cells DEF IInv
  <2> QED
    BY <2>1, <2>2 DEF OnRecords, Whole, Durable
<1> QED
  BY <1>1, IInvAlways, PTL
=============================================================================
