--------------------------- MODULE HqTryonProofs ---------------------------
(***************************************************************************)
(* No second attempt and an honest history, for any number of identity     *)
(* jobs, try-ons, pool threads, failed writes and exits of the service.    *)
(***************************************************************************)
EXTENDS HqTryon, FiniteSetTheorems, TLAPS

-----------------------------------------------------------------------------
(* The inductive invariant.                                                 *)

Making == run # None /\ run.what = "make"

\* A job without a record was never queued and has no file.
Unsubmitted ==
    \A j \in Jobs : jobFile[j] = "absent" =>
        attempts[j] = 0 /\ shown[j] = {} /\ ~Queued(Make(j)) /\ run # Make(j)

\* A job is queued once, and while it waits it was given to no worker.
Waiting == \A j \in Jobs : Queued(Make(j)) => attempts[j] = 0 /\ run # Make(j) /\ shown[j] = {}
Single == \A m, n \in DOMAIN queue : queue[m] = queue[n] /\ queue[m].what = "make" => m = n
Unstarted == Making /\ pc \in {"prepare", "dispatch", "launch"} => attempts[run.job] = 0

\* The metadata of a try-on job is in the output folder only when the job is
\* complete in its file, and never while the lane is at it.
Unpublished ==
    Making /\ run.job \in Tryon =>
        "metadata" \notin shown[run.job] /\ (pc = "publish" => jobFile[run.job] = "complete")
Published == \A j \in Tryon : "metadata" \in shown[j] /\ j \notin deleted => jobFile[j] = "complete"

Turns == Unsubmitted /\ Waiting /\ Single /\ Unstarted /\ OneAttempt /\ Unpublished /\ Published
JobInv == JobsType /\ Turns

\* What was recorded, prepared or repaired has a folder; a service that is
\* down has nothing on its lane.
Folders ==
    /\ \A j \in Tryon : stage[j] # "none" \/ rec[j].state # "absent" \/ recFile[j].state # "absent" \/ j \in report
                          => j \in folder
    /\ \A n \in DOMAIN queue : queue[n].what # "make" => queue[n].job \in folder
    /\ run # None /\ run.what # "make" => run.job \in folder
Resting == phase = "down" => run = None /\ queue = <<>>

IInv == JobInv /\ HqType /\ Folders /\ Resting

-----------------------------------------------------------------------------
(* Tasks and the queue.                                                     *)

LEMMA MakeIs ==
  /\ \A j \in Jobs : Make(j) \in Tasks /\ Make(j).what = "make" /\ Make(j).job = j
  /\ \A t \in Tasks : t.job \in Jobs /\ (t.what = "make" => t = Make(t.job))
  BY DEF Make, Task, Tasks

LEMMA OtherTasks ==
  ASSUME NEW what \in {"inspect", "repair"}, NEW j \in Jobs
  PROVE  Task(what, j) \in Tasks /\ Task(what, j).what = what /\ Task(what, j).job = j
  BY DEF Task, Tasks


LEMMA QueueAppends ==
  ASSUME queue \in Seq(Tasks), Single, NEW t \in Tasks, queue' = Append(queue, t), t.what = "make" => ~Queued(t)
  PROVE  /\ queue' \in Seq(Tasks) /\ Single'
         /\ \A x : Queued(x)' <=> Queued(x) \/ x = t
         /\ \A n \in DOMAIN queue' : (n \in DOMAIN queue /\ queue'[n] = queue[n]) \/ queue'[n] = t
<1>1. queue' \in Seq(Tasks) /\ DOMAIN queue' = 1..(Len(queue) + 1) /\ DOMAIN queue = 1..Len(queue) /\ Len(queue) \in Nat
  OBVIOUS
<1>2. \A n \in 1..Len(queue) : queue'[n] = queue[n]
  OBVIOUS
<1>3. queue'[Len(queue) + 1] = t
  OBVIOUS
<1>4. \A n \in DOMAIN queue' : n \in DOMAIN queue \/ n = Len(queue) + 1
  BY <1>1
<1>5. \A n \in DOMAIN queue' : (n \in DOMAIN queue /\ queue'[n] = queue[n]) \/ queue'[n] = t
  BY <1>1, <1>2, <1>3, <1>4
<1>6. \A n \in DOMAIN queue : n \in DOMAIN queue' /\ queue'[n] = queue[n]
  BY <1>1, <1>2
<1>7. Len(queue) + 1 \in DOMAIN queue'
  BY <1>1
<1>8. ASSUME NEW x PROVE Queued(x)' <=> Queued(x) \/ x = t
  BY <1>3, <1>5, <1>6, <1>7 DEF Queued
<1>9. Single'
  <2>1. SUFFICES ASSUME NEW m \in DOMAIN queue', NEW n \in DOMAIN queue', queue'[m] = queue'[n], queue'[m].what = "make"
                 PROVE  m = n
    BY DEF Single
  <2>2. CASE m \in DOMAIN queue /\ n \in DOMAIN queue
    BY <2>1, <2>2, <1>6 DEF Single
  <2>3. CASE m \in DOMAIN queue /\ n = Len(queue) + 1
    BY <2>1, <2>3, <1>3, <1>6 DEF Queued
  <2>4. CASE n \in DOMAIN queue /\ m = Len(queue) + 1
    BY <2>1, <2>4, <1>3, <1>6 DEF Queued
  <2>5. QED
    BY <2>2, <2>3, <2>4, <1>4
<1>10. QED
  BY <1>1, <1>5, <1>8, <1>9

LEMMA QueueTakes ==
  ASSUME queue \in Seq(Tasks), Single, queue # <<>>, queue' = Tail(queue)
  PROVE  /\ queue' \in Seq(Tasks) /\ Single' /\ Head(queue) \in Tasks /\ Queued(Head(queue))
         /\ \A x : Queued(x)' => Queued(x)
         /\ \A x : x = Head(queue) /\ x.what = "make" => ~Queued(x)'
         /\ \A n \in DOMAIN queue' : \E m \in DOMAIN queue : queue'[n] = queue[m]
<1>1. queue' \in Seq(Tasks) /\ DOMAIN queue' = 1..(Len(queue) - 1) /\ DOMAIN queue = 1..Len(queue) /\ Len(queue) \in Nat
  OBVIOUS
<1>2. \A n \in DOMAIN queue' : queue'[n] = queue[n + 1]
  OBVIOUS
<1>3. \A n \in DOMAIN queue' : n + 1 \in DOMAIN queue /\ n + 1 # 1
  BY <1>1
<1>4. Head(queue) = queue[1] /\ 1 \in DOMAIN queue /\ Head(queue) \in Tasks
  <2>1. Len(queue) # 0
    OBVIOUS
  <2>2. QED
    BY <2>1, <1>1
<1>5. ASSUME NEW x, Queued(x)' PROVE Queued(x)
  BY <1>5, <1>2, <1>3 DEF Queued
<1>6. ASSUME NEW x, x = Head(queue), x.what = "make", Queued(x)' PROVE FALSE
  <2>1. PICK n \in DOMAIN queue' : queue'[n] = x
    BY <1>6 DEF Queued
  <2>2. queue[n + 1] = queue[1] /\ n + 1 \in DOMAIN queue /\ n + 1 # 1
    BY <1>6, <2>1, <1>2, <1>3, <1>4
  <2>3. QED
    BY <2>2, <1>4, <1>6 DEF Single
<1>7. Single'
  <2>1. SUFFICES ASSUME NEW m \in DOMAIN queue', NEW n \in DOMAIN queue', queue'[m] = queue'[n], queue'[m].what = "make"
                 PROVE  m = n
    BY DEF Single
  <2>2. m + 1 = n + 1
    BY <2>1, <1>2, <1>3 DEF Single
  <2>3. m \in Nat /\ n \in Nat
    BY <1>1
  <2>4. QED
    BY <2>2, <2>3
<1>8. QED
  BY <1>1, <1>2, <1>3, <1>4, <1>5, <1>6, <1>7 DEF Queued

LEMMA QueueLeft ==
  ASSUME queue \in Seq(Tasks), Single, NEW places \in SUBSET DOMAIN queue, queue' \in Left(places)
  PROVE  /\ queue' \in Seq(Tasks) /\ Single'
         /\ \A x : Queued(x)' => \E n \in places : queue[n] = x
         /\ \A n \in DOMAIN queue' : \E m \in places : queue'[n] = queue[m]
<1>1. Cardinality(places) \in Nat
  <2>1. DOMAIN queue = 1..Len(queue) /\ Len(queue) \in Nat
    OBVIOUS
  <2>2. IsFiniteSet(DOMAIN queue)
    BY <2>1, FS_Interval
  <2>3. QED
    BY <2>2, FS_Subset, FS_CardinalityType
<1>2. PICK f \in [1..Cardinality(places) -> places] :
        /\ \A m, n \in DOMAIN f : m < n => f[m] < f[n]
        /\ queue' = [n \in 1..Cardinality(places) |-> queue[f[n]]]
  BY DEF Left
<1>3. DOMAIN queue' = 1..Cardinality(places) /\ DOMAIN f = 1..Cardinality(places)
  BY <1>2
<1>4. \A n \in DOMAIN queue' : f[n] \in places /\ queue'[n] = queue[f[n]] /\ queue'[n] \in Tasks
  BY <1>2, <1>3
<1>5. queue' \in Seq(Tasks)
  BY <1>1, <1>2, <1>3, <1>4
<1>6. Single'
  <2>1. SUFFICES ASSUME NEW m \in DOMAIN queue', NEW n \in DOMAIN queue', queue'[m] = queue'[n], queue'[m].what = "make"
                 PROVE  m = n
    BY DEF Single
  <2>2. f[m] = f[n]
    BY <2>1, <1>4 DEF Single
  <2>3. m \in Nat /\ n \in Nat /\ f[m] \in Nat /\ f[n] \in Nat
    <3>1. DOMAIN queue \subseteq Nat
      OBVIOUS
    <3>2. QED
      BY <3>1, <1>1, <1>3, <1>4
  <2>4. ~(m < n) /\ ~(n < m)
    BY <2>2, <2>3, <1>2, <1>3
  <2>5. QED
    BY <2>3, <2>4
<1>7. QED
  BY <1>4, <1>5, <1>6 DEF Queued

LEMMA QueueStays ==
  ASSUME UNCHANGED queue
  PROVE  /\ queue \in Seq(Tasks) => queue' \in Seq(Tasks)
         /\ Single => Single'
         /\ \A x : Queued(x)' <=> Queued(x)
  BY DEF Single, Queued

-----------------------------------------------------------------------------
(* Steps of the lane.                                                       *)

Early == {"prepare", "dispatch", "launch"}

LEMMA RunningIs ==
  ASSUME JobsType, Making PROVE run = Make(run.job) /\ run.job \in Jobs /\ run \in Tasks
  BY MakeIs DEF JobsType, Making

\* The lane leaves its task, or moves on to a place that is not an early one
\* unless it was at one.
OnOrOff == (run' = run /\ (pc' \in Early => pc \in Early)) \/ run' = None

\* A step may save a state of the job that is made.
LEMMA LaneSaves ==
  ASSUME JobsType, Turns, OnOrOff, UNCHANGED <<queue, shown, deleted, attempts>>,
         \/ UNCHANGED jobFile
         \/ Making /\ \E s \in JobStates \ {"absent"} : jobFile' = [jobFile EXCEPT ![run.job] = s],
         pc' = "publish" /\ Making => run' = None \/ jobFile'[run.job] = "complete"
  PROVE  Turns'
<1>1. \A x : Queued(x)' <=> Queued(x)
  BY QueueStays
<1>2. ASSUME NEW j \in Jobs
      PROVE  /\ jobFile'[j] = "absent" => jobFile[j] = "absent"
             /\ jobFile'[j] # jobFile[j] => Making /\ j = run.job
  <2>1. CASE UNCHANGED jobFile
    BY <2>1
  <2>2. CASE Making /\ \E s \in JobStates \ {"absent"} : jobFile' = [jobFile EXCEPT ![run.job] = s]
    BY <2>2 DEF JobsType
  <2>3. QED
    BY <2>1, <2>2
<1>3. run' = run \/ run' = None
  BY DEF OnOrOff
<1>4. ASSUME NEW j \in Jobs PROVE run # Make(j) => run' # Make(j)
  <2>1. None \notin Tasks /\ Make(j) \in Tasks
    BY JobAssumption, MakeIs
  <2>2. QED
    BY <1>3, <2>1
<1>5. Unsubmitted'
  BY <1>1, <1>2, <1>4 DEF Turns, Unsubmitted
<1>6. Waiting'
  BY <1>1, <1>4 DEF Turns, Waiting
<1>7. Single'
  BY QueueStays DEF Turns
<1>8. Unstarted'
  BY DEF Turns, Unstarted, OnOrOff, Making, Early
<1>9. OneAttempt'
  BY DEF Turns, OneAttempt
<1>10. Unpublished'
  BY <1>3 DEF Turns, Unpublished, Making
<1>11. Published'
  <2>1. SUFFICES ASSUME NEW j \in Tryon, "metadata" \in shown[j], j \notin deleted PROVE jobFile'[j] = "complete"
    BY DEF Published
  <2>2. jobFile[j] = "complete"
    BY <2>1 DEF Turns, Published
  <2>3. ~(Making /\ j = run.job)
    BY <2>1 DEF Turns, Unpublished
  <2>4. QED
    BY <2>2, <2>3, <1>2 DEF Jobs
<1>12. QED
  BY <1>5, <1>6, <1>7, <1>8, <1>9, <1>10, <1>11 DEF Turns

\* A step may put files of the job that is made into the output folder.
LEMMA LaneShows ==
  ASSUME JobsType, Turns, Making, OnOrOff, UNCHANGED <<queue, jobFile, deleted, attempts>>,
         NEW F, shown' = [shown EXCEPT ![run.job] = F], pc' # "publish",
         run.job \in Tryon /\ "metadata" \in F => jobFile[run.job] = "complete" /\ run' = None
  PROVE  Turns'
<1>1. \A x : Queued(x)' <=> Queued(x)
  BY QueueStays
<1>2. run = Make(run.job) /\ run.job \in Jobs
  BY RunningIs
<1>3. run' = run \/ run' = None
  BY DEF OnOrOff
<1>4. ASSUME NEW j \in Jobs PROVE run # Make(j) => run' # Make(j) /\ j # run.job
  <2>1. None \notin Tasks /\ Make(j) \in Tasks
    BY JobAssumption, MakeIs
  <2>2. QED
    BY <1>2, <1>3, <2>1
<1>5. \A j \in Jobs : shown'[j] = IF j = run.job THEN F ELSE shown[j]
  BY DEF JobsType
<1>6. Unsubmitted'
  BY <1>1, <1>4, <1>5 DEF Turns, Unsubmitted
<1>7. Waiting'
  BY <1>1, <1>4, <1>5 DEF Turns, Waiting
<1>8. Single'
  BY QueueStays DEF Turns
<1>9. Unstarted'
  BY DEF Turns, Unstarted, OnOrOff, Making, Early
<1>10. OneAttempt'
  BY DEF Turns, OneAttempt
<1>11. Unpublished'
  BY <1>2, <1>3, <1>5 DEF Turns, Unpublished, Making
<1>12. Published'
  <2>1. SUFFICES ASSUME NEW j \in Tryon, "metadata" \in shown'[j], j \notin deleted PROVE jobFile[j] = "complete"
    BY DEF Published
  <2>2. CASE j = run.job
    BY <2>1, <2>2, <1>2, <1>5
  <2>3. CASE j # run.job
    <3>1. shown'[j] = shown[j]
      BY <2>3, <1>5 DEF Jobs
    <3>2. QED
      BY <2>1, <3>1 DEF Turns, Published
  <2>4. QED
    BY <2>2, <2>3
<1>13. QED
  BY <1>6, <1>7, <1>8, <1>9, <1>10, <1>11, <1>12 DEF Turns

\* The lane takes the next task.
LEMMA LaneTakes ==
  ASSUME JobsType, Turns, queue # <<>>, run' = Head(queue), queue' = Tail(queue), UNCHANGED <<files, attempts>>,
         pc' # "publish", pc = "idle"
  PROVE  Turns' /\ queue' \in Seq(Tasks) /\ run' \in Tasks /\ Head(queue) \in Tasks /\ Queued(Head(queue))
<1> DEFINE h == Head(queue)
<1>1. Single /\ queue \in Seq(Tasks)
  BY DEF Turns, JobsType
<1>2. /\ queue' \in Seq(Tasks) /\ Single' /\ h \in Tasks /\ Queued(h)
      /\ \A x : Queued(x)' => Queued(x)
      /\ \A x : x = h /\ x.what = "make" => ~Queued(x)'
  BY <1>1, QueueTakes
<1>3. ASSUME NEW j \in Jobs, run' = Make(j) PROVE Queued(Make(j)) /\ ~Queued(Make(j))'
  <2>1. Make(j) = h /\ Make(j).what = "make"
    BY <1>3, MakeIs
  <2>2. QED
    BY <2>1, <1>2
<1>4. Unsubmitted'
  BY <1>2, <1>3 DEF Turns, Unsubmitted, files
<1>5. Waiting'
  BY <1>2, <1>3 DEF Turns, Waiting, files
<1>6. ASSUME run'.what = "make" PROVE run'.job \in Jobs /\ run' = Make(run'.job) /\ Queued(Make(run'.job))
  <2>1. h.job \in Jobs /\ h = Make(h.job)
    BY <1>2, <1>6, MakeIs
  <2>2. Queued(Make(h.job))
    BY <2>1, <1>2
  <2>3. QED
    BY <2>1, <2>2
<1>7. Unstarted'
  <2>1. CASE run'.what = "make"
    BY <2>1, <1>6 DEF Turns, Waiting, Unstarted, Making, files
  <2>2. CASE run'.what # "make"
    BY <2>2 DEF Unstarted, Making
  <2>3. QED
    BY <2>1, <2>2
<1>8. OneAttempt'
  BY DEF Turns, OneAttempt
<1>9. Unpublished'
  <2>1. CASE run'.what = "make"
    <3>1. shown'[run'.job] = {}
      BY <2>1, <1>6 DEF Turns, Waiting, files
    <3>2. QED
      BY <3>1 DEF Unpublished
  <2>2. CASE run'.what # "make"
    BY <2>2 DEF Unpublished, Making
  <2>3. QED
    BY <2>1, <2>2
<1>10. Published'
  BY DEF Turns, Published, files
<1>11. QED
  BY <1>2, <1>4, <1>5, <1>7, <1>8, <1>9, <1>10 DEF Turns

-----------------------------------------------------------------------------
(* Steps of clients and threads.                                            *)

\* A job without a record is recorded, and queued unless the index fails.
LEMMA JobRecorded ==
  ASSUME JobsType, Turns, NEW j \in Jobs, jobFile[j] = "absent", Journal(j),
         UNCHANGED <<shown, deleted, attempts, run, pc>>
  PROVE  Turns' /\ queue' \in Seq(Tasks)
<1>1. attempts[j] = 0 /\ shown[j] = {} /\ ~Queued(Make(j)) /\ run # Make(j)
  BY DEF Turns, Unsubmitted
<1>2. Single /\ queue \in Seq(Tasks) /\ Make(j) \in Tasks
  BY MakeIs DEF Turns, JobsType
<1>3. queue' \in Seq(Tasks) /\ Single' /\ \A x : Queued(x)' => Queued(x) \/ x = Make(j)
  <2>1. CASE UNCHANGED queue
    BY <2>1, <1>2, QueueStays
  <2>2. CASE queue' = Append(queue, Make(j))
    BY <2>2, <1>1, <1>2, QueueAppends
  <2>3. QED
    BY <2>1, <2>2 DEF Journal
<1>4. \A k \in Jobs : jobFile'[k] = IF k = j THEN "queued" ELSE jobFile[k]
  BY DEF Journal, JobsType
<1>5. \A k \in Jobs : Queued(Make(k))' => Queued(Make(k)) \/ k = j
  BY <1>3, MakeIs
<1>6. Unsubmitted'
  BY <1>4, <1>5 DEF Turns, Unsubmitted
<1>7. Waiting'
  BY <1>1, <1>5 DEF Turns, Waiting
<1>8. Unstarted' /\ OneAttempt'
  BY DEF Turns, Unstarted, OneAttempt, Making
<1>9. Unpublished'
  <2>1. Making => run.job \in Jobs /\ run.job # j
    BY <1>1, RunningIs
  <2>2. QED
    BY <2>1, <1>4 DEF Turns, Unpublished, Making
<1>10. Published'
  BY <1>1, <1>4 DEF Turns, Published, Jobs
<1>11. QED
  BY <1>3, <1>6, <1>7, <1>8, <1>9, <1>10 DEF Turns

\* Another task is queued.
LEMMA TaskQueued ==
  ASSUME JobsType, Turns, NEW t \in Tasks, t.what # "make", queue' = Append(queue, t), UNCHANGED <<files, attempts, run, pc>>
  PROVE  Turns' /\ queue' \in Seq(Tasks)
<1>1. queue' \in Seq(Tasks) /\ Single' /\ \A x : Queued(x)' => Queued(x) \/ x = t
  BY QueueAppends DEF Turns, JobsType
<1>2. \A j \in Jobs : Queued(Make(j))' => Queued(Make(j))
  BY <1>1, MakeIs
<1>3. Unsubmitted' /\ Waiting'
  BY <1>2 DEF Turns, Unsubmitted, Waiting, files
<1>4. Unstarted' /\ OneAttempt' /\ Unpublished' /\ Published'
  BY DEF Turns, Unstarted, OneAttempt, Unpublished, Published, Making, files
<1>5. QED
  BY <1>1, <1>3, <1>4 DEF Turns

\* Tasks are withdrawn, one of them with its job.
LEMMA TasksLeave ==
  ASSUME JobsType, Turns, NEW places \in SUBSET DOMAIN queue, queue' \in Left(places),
         UNCHANGED <<shown, deleted, attempts, run, pc>>,
         \/ UNCHANGED jobFile
         \/ \E k \in Jobs : Queued(Make(k)) /\ jobFile' = [jobFile EXCEPT ![k] = "cancelled"]
  PROVE  Turns' /\ queue' \in Seq(Tasks)
<1>1. queue' \in Seq(Tasks) /\ Single' /\ \A x : Queued(x)' => Queued(x)
  BY QueueLeft DEF Turns, JobsType, Queued
<1>2. ASSUME NEW j \in Jobs
      PROVE  /\ jobFile'[j] = "absent" => jobFile[j] = "absent"
             /\ jobFile'[j] # jobFile[j] => run # Make(j) /\ shown[j] = {}
  <2>1. CASE UNCHANGED jobFile
    BY <2>1
  <2>2. CASE \E k \in Jobs : Queued(Make(k)) /\ jobFile' = [jobFile EXCEPT ![k] = "cancelled"]
    <3>1. PICK k \in Jobs : Queued(Make(k)) /\ jobFile' = [jobFile EXCEPT ![k] = "cancelled"]
      BY <2>2
    <3>2. run # Make(k) /\ shown[k] = {}
      BY <3>1 DEF Turns, Waiting
    <3>3. QED
      BY <3>1, <3>2 DEF JobsType
  <2>3. QED
    BY <2>1, <2>2
<1>3. Unsubmitted'
  BY <1>1, <1>2 DEF Turns, Unsubmitted
<1>4. Waiting'
  BY <1>1 DEF Turns, Waiting
<1>5. Unstarted' /\ OneAttempt'
  BY DEF Turns, Unstarted, OneAttempt, Making
<1>6. Unpublished'
  <2>1. Making => run.job \in Jobs /\ run = Make(run.job)
    BY RunningIs
  <2>2. QED
    BY <2>1, <1>2 DEF Turns, Unpublished, Making
<1>7. Published'
  BY <1>2 DEF Turns, Published, Jobs
<1>8. QED
  BY <1>1, <1>3, <1>4, <1>5, <1>6, <1>7 DEF Turns

\* Turns speaks of these variables only.
LEMMA TurnsStay ==
  ASSUME Turns, UNCHANGED <<jobFile, shown, deleted, queue, run, pc, attempts>> PROVE Turns'
<1>1. \A x : Queued(x)' <=> Queued(x)
  BY QueueStays
<1>2. Unsubmitted' /\ Waiting'
  BY <1>1 DEF Turns, Unsubmitted, Waiting
<1>3. Single'
  BY QueueStays DEF Turns
<1>4. Unstarted' /\ OneAttempt' /\ Unpublished' /\ Published'
  BY DEF Turns, Unstarted, OneAttempt, Unpublished, Published, Making
<1>5. QED
  BY <1>2, <1>3, <1>4 DEF Turns

LEMMA JobDeleted ==
  ASSUME JobsType, Turns, NEW j \in Jobs, DeleteJob(j)
  PROVE  Turns'
<1>1. \A x : Queued(x)' <=> Queued(x)
  BY QueueStays DEF DeleteJob
<1>2. \A k \in Jobs : shown'[k] \subseteq shown[k]
  BY DEF DeleteJob, JobsType
<1>3. UNCHANGED <<jobFile, queue, run, pc, attempts>> /\ deleted \subseteq deleted'
  BY DEF DeleteJob, lane
<1>4. Unsubmitted'
  BY <1>1, <1>2, <1>3 DEF Turns, Unsubmitted
<1>5. Waiting'
  BY <1>1, <1>2, <1>3 DEF Turns, Waiting
<1>6. Single'
  BY <1>3, QueueStays DEF Turns
<1>7. Unstarted' /\ OneAttempt'
  BY <1>3 DEF Turns, Unstarted, OneAttempt, Making
<1>8. Unpublished'
  <2>1. Making => run.job \in Jobs
    BY RunningIs
  <2>2. QED
    BY <2>1, <1>2, <1>3 DEF Turns, Unpublished, Making
<1>9. Published'
  BY <1>2, <1>3 DEF Turns, Published, Jobs
<1>10. QED
  BY <1>4, <1>5, <1>6, <1>7, <1>8, <1>9 DEF Turns

LEMMA JobLaunched ==
  ASSUME JobsType, Turns, Making, pc = "launch", pc' = "work", UNCHANGED <<files, queue, run>>,
         attempts' = [attempts EXCEPT ![run.job] = @ + 1]
  PROVE  Turns'
<1>1. \A x : Queued(x)' <=> Queued(x)
  BY QueueStays
<1>2. run = Make(run.job) /\ run.job \in Jobs /\ attempts[run.job] = 0
  BY RunningIs DEF Turns, Unstarted
<1>3. \A j \in Jobs : attempts'[j] = IF j = run.job THEN 1 ELSE attempts[j]
  BY <1>2 DEF JobsType
<1>4. Unsubmitted'
  BY <1>1, <1>2, <1>3 DEF Turns, Unsubmitted, files
<1>5. Waiting'
  BY <1>1, <1>2, <1>3 DEF Turns, Waiting, files
<1>6. Single'
  BY QueueStays DEF Turns
<1>7. OneAttempt'
  BY <1>3 DEF Turns, OneAttempt
<1>8. Unstarted' /\ Unpublished' /\ Published'
  BY DEF Turns, Unstarted, Unpublished, Published, Making, files
<1>9. QED
  BY <1>4, <1>5, <1>6, <1>7, <1>8 DEF Turns

-----------------------------------------------------------------------------
(* Every step of a single job.                                              *)

LEMMA AtMaking ==
  ASSUME JobsType, NEW place, At(place) PROVE Making /\ run.job \in Jobs /\ run \in Tasks /\ pc = place /\ This = run.job
  BY RunningIs DEF At, Making, This

LEMMA FaultTypes == ASSUME JobsType, Fault \/ NoFault PROVE faults' \in Nat /\ crashes' \in Nat
  BY DEF JobsType, Fault, NoFault, bounds

LEMMA SavedTypes ==
  ASSUME JobsType, NEW j \in Jobs, NEW s \in (Running \cup Terminal), Update(j, s) \/ Refused
  PROVE  /\ jobFile' \in [Jobs -> JobStates] /\ job' \in [Jobs -> ChildStates]
         /\ faults' \in Nat /\ crashes' \in Nat
<1>1. faults' \in Nat /\ crashes' \in Nat
  BY FaultTypes DEF Update, Refused
<1>2. s \in JobStates /\ s \in ChildStates
  BY DEF JobStates, ChildStates
<1>3. CASE Update(j, s)
  BY <1>1, <1>2, <1>3 DEF JobsType, Update
<1>4. CASE Refused
  BY <1>1, <1>4 DEF JobsType, Refused
<1>5. QED
  BY <1>3, <1>4

LEMMA SubmitJob == ASSUME JobInv, NEW j \in Jobs, Submit(j) PROVE JobInv'
<1>1. Turns' /\ queue' \in Seq(Tasks)
  BY JobRecorded DEF JobInv, Submit, lane
<1>2. JobsType'
  BY <1>1 DEF JobInv, JobsType, Submit, Journal, Fault, NoFault, lane, bounds, JobStates, ChildStates, Running
<1>3. QED
  BY <1>1, <1>2 DEF JobInv

\* CancelJob and CancelChild withdraw a job in the same way.
LEMMA JobWithdrawn ==
  ASSUME JobInv, NEW j \in Jobs, stop' = stop \cup {j}, UNCHANGED <<staged, shown, deleted, run, pc, attempts>>,
         \/ /\ Queued(Make(j)) /\ queue' \in Without(Make(j))
            /\ Update(j, "cancelled") \/ Refused
         \/ UNCHANGED <<jobFile, job, queue, bounds>>
  PROVE  JobInv'
<1>1. CASE UNCHANGED <<jobFile, job, queue, bounds>>
  BY <1>1, TurnsStay DEF JobInv, JobsType, bounds
<1>2. CASE Queued(Make(j)) /\ queue' \in Without(Make(j)) /\ (Update(j, "cancelled") \/ Refused)
  <2>1. jobFile' = jobFile \/ (Queued(Make(j)) /\ jobFile' = [jobFile EXCEPT ![j] = "cancelled"])
    BY <1>2 DEF Update, Refused
  <2>2. Turns' /\ queue' \in Seq(Tasks)
    <3>1. {n \in DOMAIN queue : queue[n] # Make(j)} \in SUBSET DOMAIN queue
      OBVIOUS
    <3>2. QED
      BY <1>2, <2>1, <3>1, TasksLeave DEF JobInv, Without
  <2>3. jobFile' \in [Jobs -> JobStates] /\ job' \in [Jobs -> ChildStates] /\ faults' \in Nat /\ crashes' \in Nat
    BY <1>2, SavedTypes DEF JobInv, Terminal
  <2>4. JobsType'
    BY <2>2, <2>3 DEF JobInv, JobsType
  <2>5. QED
    BY <2>2, <2>4 DEF JobInv
<1>3. QED
  BY <1>1, <1>2

LEMMA CancelJobStep == ASSUME JobInv, NEW j \in Jobs, CancelJob(j) PROVE JobInv'
  BY JobWithdrawn DEF CancelJob, lane

LEMMA DeleteJobStep == ASSUME JobInv, NEW j \in Jobs, DeleteJob(j) PROVE JobInv'
<1>1. JobsType'
  BY DEF JobInv, JobsType, DeleteJob, lane, bounds
<1>2. QED
  BY <1>1, JobDeleted DEF JobInv

LEMMA TakeJob == ASSUME JobInv, Take PROVE JobInv'
<1>1. Turns' /\ queue' \in Seq(Tasks) /\ run' \in Tasks
  BY LaneTakes DEF JobInv, Take
<1>2. JobsType'
  BY <1>1, JobAssumption DEF JobInv, JobsType, Take, files, bounds, Places
<1>3. QED
  BY <1>1, <1>2 DEF JobInv

\* A step of the lane that saves a state of its job, or fails to.
LEMMA LaneSaved ==
  ASSUME JobInv, Making, run.job \in Jobs,
         \/ \E s \in (Running \cup Terminal) : Update(run.job, s)
         \/ Refused
         \/ UNCHANGED <<jobFile, job, bounds>>,
         UNCHANGED <<staged, shown, deleted, queue, stop, attempts>>,
         \/ run' = run /\ pc' \in Places \ {"idle"} /\ (pc' \in Early => pc \in Early)
            /\ (pc' = "publish" => jobFile'[run.job] = "complete")
         \/ Idle
  PROVE  JobInv'
<1>1. OnOrOff
  BY DEF OnOrOff, Idle
<1>2. \/ UNCHANGED jobFile
      \/ Making /\ \E s \in JobStates \ {"absent"} : jobFile' = [jobFile EXCEPT ![run.job] = s]
  BY DEF Update, Refused, JobStates, Running, Terminal
<1>3. pc' = "publish" /\ Making => run' = None \/ jobFile'[run.job] = "complete"
  BY DEF Idle
<1>4. Turns'
  BY <1>1, <1>2, <1>3, LaneSaves DEF JobInv
<1>5. jobFile' \in [Jobs -> JobStates] /\ job' \in [Jobs -> ChildStates] /\ faults' \in Nat /\ crashes' \in Nat
  <2>1. CASE UNCHANGED <<jobFile, job, bounds>>
    BY <2>1 DEF JobInv, JobsType, bounds
  <2>2. CASE (\E s \in (Running \cup Terminal) : Update(run.job, s)) \/ Refused
    BY <2>2, SavedTypes DEF JobInv, Running
  <2>3. QED
    BY <2>1, <2>2
<1>6. JobsType'
  BY <1>5 DEF JobInv, JobsType, Idle, Making, Places
<1>7. QED
  BY <1>4, <1>6 DEF JobInv

LEMMA PrepareJob == ASSUME JobInv, Prepare PROVE JobInv'
<1>1. Making /\ run.job \in Jobs /\ pc = "prepare" /\ This = run.job
  BY AtMaking DEF Prepare, JobInv
<1>2. \/ \E s \in (Running \cup Terminal) : Update(run.job, s)
      \/ Refused
      \/ UNCHANGED <<jobFile, job, bounds>>
  BY <1>1 DEF Prepare, Running
<1>3. QED
  BY <1>1, <1>2, LaneSaved DEF Prepare, Goto, Places, Early

LEMMA DispatchJob == ASSUME JobInv, Dispatch PROVE JobInv'
<1>1. Making /\ run.job \in Jobs /\ pc = "dispatch" /\ This = run.job
  BY AtMaking DEF Dispatch, JobInv
<1>2. \/ \E s \in (Running \cup Terminal) : Update(run.job, s)
      \/ Refused
      \/ UNCHANGED <<jobFile, job, bounds>>
  BY <1>1 DEF Dispatch, Running
<1>3. QED
  BY <1>1, <1>2, LaneSaved DEF Dispatch, Goto, Places, Early

LEMMA RecordJob == ASSUME JobInv, Record PROVE JobInv'
<1>1. Making /\ run.job \in Jobs /\ pc = "record" /\ This = run.job
  BY AtMaking DEF Record, JobInv
<1>2. \/ \E s \in (Running \cup Terminal) : Update(run.job, s)
      \/ Refused
      \/ UNCHANGED <<jobFile, job, bounds>>
  BY <1>1 DEF Record, Terminal
<1>3. Update(run.job, "complete") => jobFile'[run.job] = "complete"
  BY <1>1 DEF Update, JobInv, JobsType
<1>4. QED
  BY <1>1, <1>2, <1>3, LaneSaved DEF Record, Goto, Places, Early

LEMMA EndJob == ASSUME JobInv, End PROVE JobInv'
<1>1. Making /\ run.job \in Jobs /\ This = run.job
  BY AtMaking DEF End, JobInv
<1>2. \/ \E s \in (Running \cup Terminal) : Update(run.job, s)
      \/ Refused
      \/ UNCHANGED <<jobFile, job, bounds>>
  BY <1>1 DEF End, Terminal
<1>3. QED
  BY <1>1, <1>2, LaneSaved DEF End

LEMMA LaunchJob == ASSUME JobInv, Launch PROVE JobInv'
<1>1. Making /\ run.job \in Jobs /\ pc = "launch" /\ This = run.job
  BY AtMaking DEF Launch, JobInv
<1>2. CASE Goto("except") /\ UNCHANGED attempts
  BY <1>1, <1>2, LaneSaved DEF Launch, Goto, Places, Early, files
<1>3. CASE attempts' = [attempts EXCEPT ![This] = @ + 1] /\ Goto("work")
  <2>1. Turns'
    BY <1>1, <1>3, JobLaunched DEF JobInv, Launch, Goto
  <2>2. JobsType'
    BY <1>1, <1>3 DEF JobInv, JobsType, Launch, Goto, files, bounds, Places, Making
  <2>3. QED
    BY <2>1, <2>2 DEF JobInv
<1>4. QED
  BY <1>2, <1>3 DEF Launch

LEMMA CheckJob == ASSUME JobInv, WorkerEnds \/ Check PROVE JobInv'
<1>1. Making /\ run.job \in Jobs
  BY AtMaking DEF WorkerEnds, Check, JobInv
<1>2. UNCHANGED <<files, job, queue, stop, attempts, bounds>> /\ (Goto("check") \/ Goto("seal") \/ Goto("except"))
  BY DEF WorkerEnds, Check
<1>3. QED
  BY <1>1, <1>2, LaneSaved DEF Goto, Places, Early, files

\* A step of the lane that moves files of its job, or fails to.
LEMMA LaneShown ==
  ASSUME JobInv, Making, run.job \in Jobs, UNCHANGED <<jobFile, job, deleted, queue, stop, attempts>>,
         faults' \in Nat /\ crashes' \in Nat, staged' \in [Jobs -> SUBSET Whole],
         NEW F \in SUBSET Whole, shown' = [shown EXCEPT ![run.job] = F],
         run.job \in Tryon /\ "metadata" \in F => jobFile[run.job] = "complete" /\ run' = None,
         (run' = run /\ pc' \in Places \ ({"idle", "publish"} \cup Early)) \/ Idle
  PROVE  JobInv'
<1>1. OnOrOff /\ pc' # "publish"
  BY DEF OnOrOff, Idle, Early
<1>2. Turns'
  BY <1>1, LaneShows DEF JobInv
<1>3. JobsType'
  BY DEF JobInv, JobsType, Idle, Places, Making
<1>4. QED
  BY <1>2, <1>3 DEF JobInv

LEMMA SealJob == ASSUME JobInv, Seal PROVE JobInv'
<1>1. Making /\ run.job \in Jobs /\ shown[run.job] \in SUBSET Whole
  BY AtMaking DEF Seal, JobInv, JobsType
<1>2. faults' \in Nat /\ crashes' \in Nat
  BY FaultTypes DEF Seal, JobInv
<1>3. shown' = [shown EXCEPT ![run.job] = shown[run.job]] /\ staged' \in [Jobs -> SUBSET Whole]
  BY DEF Seal, files, JobInv, JobsType
<1>4. run' = run /\ pc' \in Places \ ({"idle", "publish"} \cup Early)
  BY DEF Seal, Goto, Places, Early
<1>5. run.job \in Tryon => "metadata" \notin shown[run.job]
  BY <1>1 DEF JobInv, Turns, Unpublished
<1>6. QED
  BY <1>1, <1>2, <1>3, <1>4, <1>5, LaneShown DEF Seal, files

LEMMA WriteJob == ASSUME JobInv, Write PROVE JobInv'
<1>1. Making /\ run.job \in Jobs /\ pc = "work" /\ This = run.job
  BY AtMaking DEF Write, JobInv
<1>2. \E F \in SUBSET Whole : shown' = [shown EXCEPT ![run.job] = F] /\ (run.job \in Tryon => F = shown[run.job])
  <2>1. CASE run.job \in Tryon
    <3>1. shown' = shown
      BY <1>1, <2>1 DEF Write
    <3>2. shown' = [shown EXCEPT ![run.job] = shown[run.job]] /\ shown[run.job] \in SUBSET Whole
      BY <1>1, <3>1 DEF JobInv, JobsType
    <3>3. QED
      BY <3>2
  <2>2. CASE run.job \notin Tryon
    BY <1>1, <2>2 DEF Write, Whole
  <2>3. QED
    BY <2>1, <2>2
<1>3. PICK F \in SUBSET Whole : shown' = [shown EXCEPT ![run.job] = F] /\ (run.job \in Tryon => F = shown[run.job])
  BY <1>2
<1>4. staged' \in [Jobs -> SUBSET Whole]
  <2>1. staged' = staged \/ \E G \in {{"image"}, Whole} : staged' = [staged EXCEPT ![run.job] = G]
    BY <1>1 DEF Write
  <2>2. \A G \in {{"image"}, Whole} : G \in SUBSET Whole
    BY DEF Whole
  <2>3. QED
    BY <2>1, <2>2 DEF JobInv, JobsType
<1>5. run.job \in Tryon => "metadata" \notin F
  BY <1>1, <1>3 DEF JobInv, Turns, Unpublished
<1>6. faults' \in Nat /\ crashes' \in Nat /\ run' = run /\ pc' \in Places \ ({"idle", "publish"} \cup Early)
  BY <1>1 DEF Write, lane, bounds, JobInv, JobsType, Places, Early
<1>7. QED
  BY <1>1, <1>3, <1>4, <1>5, <1>6, LaneShown DEF Write

LEMMA MoveJob == ASSUME JobInv, Move PROVE JobInv'
<1>1. Making /\ run.job \in Jobs /\ This = run.job /\ shown[run.job] \in SUBSET Whole
  BY AtMaking DEF Move, JobInv, JobsType
<1>2. \E F \in SUBSET Whole : shown' = [shown EXCEPT ![run.job] = F] /\ ("metadata" \in F => "metadata" \in shown[run.job])
  <2>1. CASE UNCHANGED <<staged, shown>>
    BY <2>1, <1>1 DEF JobInv, JobsType
  <2>2. CASE shown' = [shown EXCEPT ![This] = @ \cup {"image"}]
    <3>1. shown' = [shown EXCEPT ![run.job] = shown[run.job] \cup {"image"}]
      BY <2>2, <1>1
    <3>2. shown[run.job] \cup {"image"} \in SUBSET Whole
      BY <1>1 DEF Whole
    <3>3. QED
      BY <3>1, <3>2
  <2>3. QED
    BY <2>1, <2>2 DEF Move
<1>3. PICK F \in SUBSET Whole : shown' = [shown EXCEPT ![run.job] = F] /\ ("metadata" \in F => "metadata" \in shown[run.job])
  BY <1>2
<1>4. staged' \in [Jobs -> SUBSET Whole]
  BY <1>1 DEF Move, JobInv, JobsType
<1>5. run.job \in Tryon => "metadata" \notin F
  BY <1>1, <1>3 DEF JobInv, Turns, Unpublished
<1>6. faults' \in Nat /\ crashes' \in Nat
  BY FaultTypes DEF Move, JobInv
<1>7. run' = run /\ pc' \in Places \ ({"idle", "publish"} \cup Early)
  BY DEF Move, Goto, Places, Early
<1>8. QED
  BY <1>1, <1>3, <1>4, <1>5, <1>6, <1>7, LaneShown DEF Move

LEMMA PublishJob == ASSUME JobInv, Publish PROVE JobInv'
<1>1. Making /\ run.job \in Jobs /\ This = run.job /\ pc = "publish" /\ shown[run.job] \in SUBSET Whole
  BY AtMaking DEF Publish, JobInv, JobsType
<1>2. run.job \in Tryon => jobFile[run.job] = "complete" /\ "metadata" \notin shown[run.job]
  BY <1>1 DEF JobInv, Turns, Unpublished
<1>3. faults' \in Nat /\ crashes' \in Nat
  BY FaultTypes DEF Publish, JobInv
<1>4. staged' \in [Jobs -> SUBSET Whole]
  BY <1>1 DEF Publish, JobInv, JobsType
<1>5. CASE shown' = [shown EXCEPT ![This] = @ \cup {"metadata"}] /\ Idle
  <2>1. shown' = [shown EXCEPT ![run.job] = shown[run.job] \cup {"metadata"}] /\ shown[run.job] \cup {"metadata"} \in SUBSET Whole
    BY <1>1, <1>5 DEF JobInv, JobsType, Whole
  <2>2. QED
    BY <1>1, <1>2, <1>3, <1>4, <1>5, <2>1, LaneShown DEF Publish, Idle
<1>6. CASE Goto("except") /\ UNCHANGED <<staged, shown>>
  <2>1. shown' = [shown EXCEPT ![run.job] = shown[run.job]]
    BY <1>6 DEF JobInv, JobsType
  <2>2. run' = run /\ pc' \in Places \ ({"idle", "publish"} \cup Early)
    BY <1>6 DEF Goto, Places, Early
  <2>3. QED
    BY <1>1, <1>2, <1>3, <1>4, <2>1, <2>2, LaneShown DEF Publish
<1>7. QED
  BY <1>5, <1>6 DEF Publish

LEMMA ExceptJob == ASSUME JobInv, Except PROVE JobInv'
<1>1. Making /\ run.job \in Jobs /\ This = run.job /\ shown[run.job] \in SUBSET Whole
  BY AtMaking DEF Except, JobInv, JobsType
<1>2. \E F \in SUBSET Whole : shown' = [shown EXCEPT ![run.job] = F] /\ F \subseteq shown[run.job]
  <2>1. CASE UNCHANGED shown
    BY <2>1, <1>1 DEF JobInv, JobsType
  <2>2. CASE shown' = [shown EXCEPT ![This] = {}]
    <3>1. shown' = [shown EXCEPT ![run.job] = {}] /\ {} \in SUBSET Whole
      BY <2>2, <1>1
    <3>2. QED
      BY <3>1
  <2>3. QED
    BY <2>1, <2>2 DEF Except
<1>3. PICK F \in SUBSET Whole : shown' = [shown EXCEPT ![run.job] = F] /\ F \subseteq shown[run.job]
  BY <1>2
<1>4. staged' \in [Jobs -> SUBSET Whole]
  <2>1. staged' = staged \/ staged' = [staged EXCEPT ![run.job] = staged[run.job] \cup shown[run.job]]
    BY <1>1 DEF Except
  <2>2. staged[run.job] \cup shown[run.job] \in SUBSET Whole
    BY <1>1 DEF JobInv, JobsType
  <2>3. QED
    BY <2>1, <2>2 DEF JobInv, JobsType
<1>5. run.job \in Tryon => "metadata" \notin F
  BY <1>1, <1>3 DEF JobInv, Turns, Unpublished
<1>6. faults' \in Nat /\ crashes' \in Nat
  BY FaultTypes DEF Except, JobInv
<1>7. (run' = run /\ pc' \in Places \ ({"idle", "publish"} \cup Early)) \/ Idle
  BY DEF Except, Goto, Places, Early
<1>8. QED
  BY <1>1, <1>3, <1>4, <1>5, <1>6, <1>7, LaneShown DEF Except

LEMMA ExecuteJob == ASSUME JobInv, Execute \/ Write PROVE JobInv'
  BY TakeJob, PrepareJob, DispatchJob, LaunchJob, CheckJob, SealJob, WriteJob, MoveJob, RecordJob, PublishJob,
     ExceptJob, EndJob DEF Execute

-----------------------------------------------------------------------------
(* Steps of the try-on service.                                             *)

HqInv == HqType /\ Folders /\ Resting

\* Of the tasks other than jobs only the ones of j come to the queue or to the
\* lane.
OnlyFor(S) ==
    /\ \A n \in DOMAIN queue' : queue'[n].what # "make" =>
           queue'[n].job \in S \/ \E m \in DOMAIN queue : queue'[n] = queue[m]
    /\ run' = run \/ run' = None \/ run'.what = "make" \/ run'.job \in S

\* A step for a try-on with a folder.
LEMMA FolderKept ==
  ASSUME HqType, Folders, NEW j \in Tryon, j \in folder', folder \subseteq folder', OnlyFor({j}),
         \A k \in Tryon \ {j} : rec'[k] = rec[k] /\ recFile'[k] = recFile[k] /\ stage'[k] = stage[k],
         report' \subseteq report \cup {j}
  PROVE  Folders'
<1>1. ASSUME NEW k \in Tryon,
             stage'[k] # "none" \/ rec'[k].state # "absent" \/ recFile'[k].state # "absent" \/ k \in report'
      PROVE  k \in folder'
  <2>1. CASE k = j
    BY <2>1
  <2>2. CASE k # j
    <3>1. stage[k] # "none" \/ rec[k].state # "absent" \/ recFile[k].state # "absent" \/ k \in report
      BY <1>1, <2>2
    <3>2. QED
      BY <3>1 DEF Folders
  <2>3. QED
    BY <2>1, <2>2
<1>2. \A n \in DOMAIN queue' : queue'[n].what # "make" => queue'[n].job \in folder'
  BY DEF Folders, OnlyFor
<1>3. run' # None /\ run'.what # "make" => run'.job \in folder'
  BY DEF Folders, OnlyFor
<1>4. QED
  BY <1>1, <1>2, <1>3 DEF Folders

\* A step of a single job.
LEMMA FoldersStay ==
  ASSUME HqInv, OnlyFor({}), UNCHANGED hq, phase # "down" PROVE HqInv'
<1>1. HqType' /\ Resting'
  BY DEF HqInv, HqType, Resting, hq
<1>2. \A k \in Tryon :
        stage'[k] # "none" \/ rec'[k].state # "absent" \/ recFile'[k].state # "absent" \/ k \in report' => k \in folder'
  BY DEF HqInv, Folders, hq
<1>3. \A n \in DOMAIN queue' : queue'[n].what # "make" => queue'[n].job \in folder'
  BY DEF HqInv, Folders, OnlyFor, hq
<1>4. run' # None /\ run'.what # "make" => run'.job \in folder'
  BY DEF HqInv, Folders, OnlyFor, hq
<1>5. QED
  BY <1>1, <1>2, <1>3, <1>4 DEF HqInv, Folders

LEMMA QueueAlone == ASSUME UNCHANGED queue, run' = run \/ run' = None, NEW S PROVE OnlyFor(S)
  BY DEF OnlyFor

LEMMA QueueLoses ==
  ASSUME JobInv, NEW places \in SUBSET DOMAIN queue, queue' \in Left(places), run' = run, NEW S PROVE OnlyFor(S)
<1>1. \A n \in DOMAIN queue' : \E m \in places : queue'[n] = queue[m]
  BY QueueLeft DEF JobInv, JobsType, Turns
<1>2. QED
  BY <1>1 DEF OnlyFor

LEMMA QueueGains ==
  ASSUME JobInv, NEW t \in Tasks, queue' = Append(queue, t), t.what = "make" => ~Queued(t), run' = run,
         NEW S, t.what = "make" \/ t.job \in S
  PROVE  OnlyFor(S)
<1>1. \A n \in DOMAIN queue' : (n \in DOMAIN queue /\ queue'[n] = queue[n]) \/ queue'[n] = t
  BY QueueAppends DEF JobInv, JobsType, Turns
<1>2. QED
  BY <1>1 DEF OnlyFor

LEMMA QueueHead ==
  ASSUME JobInv, queue # <<>>, queue' = Tail(queue), run' = Head(queue),
         NEW S, Head(queue).what = "make" \/ Head(queue).job \in S
  PROVE  OnlyFor(S)
<1>1. \A n \in DOMAIN queue' : \E m \in DOMAIN queue : queue'[n] = queue[m]
  BY QueueTakes DEF JobInv, JobsType, Turns
<1>2. QED
  BY <1>1 DEF OnlyFor

LEMMA JournalAlone == ASSUME JobInv, NEW j \in Jobs, jobFile[j] = "absent", Journal(j), run' = run, NEW S PROVE OnlyFor(S)
<1>1. ~Queued(Make(j)) /\ Make(j) \in Tasks /\ Make(j).what = "make"
  BY MakeIs DEF JobInv, Turns, Unsubmitted
<1>2. CASE UNCHANGED queue
  BY <1>2, QueueAlone
<1>3. CASE queue' = Append(queue, Make(j))
  BY <1>1, <1>3, QueueGains
<1>4. QED
  BY <1>2, <1>3 DEF Journal

LEMMA WithdrawnAlone == ASSUME JobInv, NEW t, queue' \in Without(t), run' = run, NEW S PROVE OnlyFor(S)
<1>1. {n \in DOMAIN queue : queue[n] # t} \in SUBSET DOMAIN queue
  OBVIOUS
<1>2. QED
  BY <1>1, QueueLoses DEF Without

LEMMA ExecuteAlone == ASSUME JobInv, Execute \/ Write PROVE OnlyFor({})
<1>1. CASE Take
  BY <1>1, QueueHead DEF Take
<1>2. CASE ~Take
  <2>1. UNCHANGED queue /\ (run' = run \/ run' = None)
    BY <1>2 DEF Execute, Prepare, Dispatch, Launch, WorkerEnds, Check, Seal, Move, Record, Publish, Except, End, Write,
                Goto, Idle, lane
  <2>2. QED
    BY <2>1, QueueAlone
<1>3. QED
  BY <1>1, <1>2

LEMMA ExecuteKeeps == ASSUME IInv, phase # "down", Execute \/ Write, UNCHANGED hq PROVE IInv'
  BY ExecuteJob, ExecuteAlone, FoldersStay DEF IInv, HqInv

LEMMA SubmitKeeps == ASSUME IInv, phase = "open", NEW j \in Plain, Submit(j), UNCHANGED hq PROVE IInv'
<1>1. j \in Jobs /\ JobInv' /\ JobInv
  BY SubmitJob DEF IInv, Jobs
<1>2. OnlyFor({})
  BY <1>1, JournalAlone DEF Submit, lane
<1>3. QED
  BY <1>1, <1>2, FoldersStay DEF IInv, HqInv

LEMMA CancelKeeps == ASSUME IInv, phase = "open", NEW j \in Jobs, CancelJob(j), UNCHANGED hq PROVE IInv'
<1>1. JobInv' /\ JobInv
  BY CancelJobStep DEF IInv
<1>2. OnlyFor({})
  BY <1>1, WithdrawnAlone, QueueAlone DEF CancelJob, lane
<1>3. QED
  BY <1>1, <1>2, FoldersStay DEF IInv, HqInv

LEMMA DeleteKeeps == ASSUME IInv, phase = "open", NEW j \in Jobs, DeleteJob(j), UNCHANGED hq PROVE IInv'
<1>1. JobInv' /\ JobInv
  BY DeleteJobStep DEF IInv
<1>2. OnlyFor({})
  BY QueueAlone DEF DeleteJob, lane
<1>3. QED
  BY <1>1, <1>2, FoldersStay DEF IInv, HqInv

-----------------------------------------------------------------------------
(* The threads.                                                             *)

LEMMA RecordSet ==
  ASSUME NEW r \in Records
  PROVE  /\ \A s \in {"absent", "queued", "running"} \cup Fixed :
                [r EXCEPT !.state = s] \in Records /\ [r EXCEPT !.state = s].state = s
         /\ \A s \in {"none", "queued", "running", "done", "failed"} :
                [r EXCEPT !.repair = s] \in Records /\ [r EXCEPT !.repair = s].state = r.state
  BY DEF Records

\* A step writes the record or the stage of j only.
Touches(j) ==
    /\ rec' \in [Tryon -> Records] /\ recFile' \in [Tryon -> Records] /\ stage' \in [Tryon -> Stages]
    /\ \A k \in Tryon \ {j} : rec'[k] = rec[k] /\ recFile'[k] = recFile[k] /\ stage'[k] = stage[k]

LEMMA TouchesOne ==
  ASSUME HqType, NEW j \in Tryon,
         UNCHANGED <<rec, recFile>> \/ \E r \in Records : Saved(j, r) \/ Unsaved(j, r),
         UNCHANGED stage \/ \E where \in Stages : Step(j, where)
  PROVE  Touches(j)
<1>1. rec' \in [Tryon -> Records] /\ recFile' \in [Tryon -> Records]
      /\ \A k \in Tryon \ {j} : rec'[k] = rec[k] /\ recFile'[k] = recFile[k]
  <2>1. CASE UNCHANGED <<rec, recFile>>
    BY <2>1 DEF HqType
  <2>2. CASE \E r \in Records : Saved(j, r) \/ Unsaved(j, r)
    BY <2>2 DEF HqType, Saved, Unsaved, Set
  <2>3. QED
    BY <2>1, <2>2
<1>2. stage' \in [Tryon -> Stages] /\ \A k \in Tryon \ {j} : stage'[k] = stage[k]
  <2>1. CASE UNCHANGED stage
    BY <2>1 DEF HqType
  <2>2. CASE \E where \in Stages : Step(j, where)
    BY <2>2 DEF HqType, Step
  <2>3. QED
    BY <2>1, <2>2
<1>3. QED
  BY <1>1, <1>2 DEF Touches

LEMMA JobAside ==
  ASSUME JobInv, UNCHANGED <<files, job, queue, lane, stop, attempts>>, Fault \/ NoFault PROVE JobInv'
<1>1. faults' \in Nat /\ crashes' \in Nat
  BY FaultTypes DEF JobInv
<1>2. Turns'
  BY TurnsStay DEF JobInv, files, lane
<1>3. JobsType'
  BY <1>1 DEF JobInv, JobsType, files, lane
<1>4. QED
  BY <1>2, <1>3 DEF JobInv

LEMMA LaneAside ==
  ASSUME JobInv, run # None, run.what # "make", UNCHANGED <<files, job, queue, stop, attempts>>, Fault \/ NoFault,
         (run' = run /\ pc' \in {"patch", "receipt", "unrepaired"}) \/ Idle
  PROVE  JobInv'
<1>1. faults' \in Nat /\ crashes' \in Nat
  BY FaultTypes DEF JobInv
<1>2. OnOrOff /\ pc' # "publish"
  BY DEF OnOrOff, Early, Idle
<1>3. Turns'
  BY <1>2, LaneSaves DEF JobInv, files
<1>4. JobsType'
  BY <1>1 DEF JobInv, JobsType, files, Idle, Places
<1>5. QED
  BY <1>3, <1>4 DEF JobInv

LEMMA TaskTaken ==
  ASSUME JobInv, NEW place \in {"inspect", "repair"}, pc = "idle", queue # <<>>,
         run' = Head(queue), queue' = Tail(queue), pc' = place, UNCHANGED <<files, job, stop, attempts, bounds>>
  PROVE  JobInv'
<1>1. Turns' /\ queue' \in Seq(Tasks) /\ run' \in Tasks
  BY LaneTakes DEF JobInv
<1>2. JobsType'
  BY <1>1, JobAssumption DEF JobInv, JobsType, files, bounds, Places
<1>3. QED
  BY <1>1, <1>2 DEF JobInv

LEMMA OtherQueued ==
  ASSUME JobInv, NEW what \in {"inspect", "repair"}, NEW j \in Tryon, queue' = Append(queue, Task(what, j)),
         UNCHANGED <<files, job, lane, stop, attempts>>, Fault \/ NoFault
  PROVE  JobInv' /\ OnlyFor({j})
<1>1. Task(what, j) \in Tasks /\ Task(what, j).what = what /\ Task(what, j).job = j
  BY OtherTasks DEF Jobs
<1>2. Turns' /\ queue' \in Seq(Tasks)
  BY <1>1, TaskQueued DEF JobInv, lane
<1>3. faults' \in Nat /\ crashes' \in Nat
  BY FaultTypes DEF JobInv
<1>4. JobsType'
  BY <1>2, <1>3 DEF JobInv, JobsType, files, lane
<1>5. OnlyFor({j})
  BY <1>1, QueueGains DEF lane
<1>6. QED
  BY <1>2, <1>4, <1>5 DEF JobInv

LEMMA TryonKeeps ==
  ASSUME IInv, JobInv', UNCHANGED phase, phase # "down", NEW j \in Tryon,
         j \in folder', folder \subseteq folder', folder' \in SUBSET Tryon, OnlyFor({j}), Touches(j),
         snap' \in [Tryon -> ChildStates], asked' \in SUBSET Tryon,
         report' \in SUBSET Tryon, report' \subseteq report \cup {j}
  PROVE  IInv'
<1>1. HqType'
  BY DEF IInv, HqType, Touches
<1>2. Folders'
  BY FolderKept DEF IInv, Touches
<1>3. Resting'
  BY DEF Resting
<1>4. QED
  BY <1>1, <1>2, <1>3 DEF IInv

\* A step of a thread that has nothing to do with its child or the lane.
LEMMA AsideKeeps ==
  ASSUME IInv, phase # "down", NEW j \in Tryon, j \in folder,
         UNCHANGED <<files, job, queue, lane, stop, attempts, phase, folder, report>>, Fault \/ NoFault,
         UNCHANGED <<rec, recFile>> \/ \E r \in Records : Saved(j, r) \/ Unsaved(j, r),
         UNCHANGED stage \/ \E where \in Stages : Step(j, where),
         snap' \in [Tryon -> ChildStates], asked' \in SUBSET Tryon
  PROVE  IInv'
<1>1. JobInv'
  BY JobAside DEF IInv
<1>2. OnlyFor({j})
  BY QueueAlone DEF lane
<1>3. Touches(j)
  BY TouchesOne DEF IInv
<1>4. folder' = folder /\ folder \in SUBSET Tryon /\ report' = report /\ report \in SUBSET Tryon
  BY DEF IInv, HqType
<1>5. QED
  BY <1>1, <1>2, <1>3, <1>4, TryonKeeps

LEMMA HasFolder ==
  ASSUME IInv, NEW j \in Tryon
  PROVE  /\ stage[j] # "none" => j \in folder
         /\ rec[j].state # "absent" => j \in folder
         /\ rec[j] \in Records /\ job[j] \in ChildStates
         /\ snap \in [Tryon -> ChildStates] /\ asked \in SUBSET Tryon
  BY DEF IInv, Folders, HqType, JobInv, JobsType, Jobs

LEMMA ReserveKeeps == ASSUME IInv, NEW j \in Tryon, Reserve(j) PROVE IInv'
<1>1. JobInv'
  <2>1. UNCHANGED <<files, job, queue, lane, stop, attempts>> /\ NoFault
    BY DEF Reserve, jobVars, NoFault
  <2>2. QED
    BY <2>1, JobAside DEF IInv
<1>2. OnlyFor({j})
  BY QueueAlone DEF Reserve, jobVars, lane
<1>3. Touches(j)
  BY TouchesOne DEF IInv, Reserve, Stages
<1>4. folder' = folder \cup {j} /\ folder \in SUBSET Tryon /\ report' = report /\ report \in SUBSET Tryon
      /\ snap' \in [Tryon -> ChildStates] /\ asked' \in SUBSET Tryon /\ phase # "down" /\ UNCHANGED phase
  BY DEF IInv, HqType, Reserve
<1>5. QED
  BY <1>1, <1>2, <1>3, <1>4, TryonKeeps

LEMMA RecordKeeps == ASSUME IInv, phase # "down", NEW j \in Tryon, RecordTryon(j) PROVE IInv'
<1>1. j \in folder /\ rec[j] \in Records /\ snap \in [Tryon -> ChildStates] /\ asked \in SUBSET Tryon
  BY HasFolder DEF RecordTryon, At2
<1>2. In("queued", j) \in Records /\ In("failed", j) \in Records
  BY <1>1, RecordSet DEF In, Fixed
<1>3. /\ Fault \/ NoFault
      /\ UNCHANGED <<rec, recFile>> \/ \E r \in Records : Saved(j, r) \/ Unsaved(j, r)
      /\ \E where \in Stages : Step(j, where)
  BY <1>2 DEF RecordTryon, Saved, Stages
<1>4. QED
  BY <1>1, <1>3, AsideKeeps DEF RecordTryon

LEMMA CancelTryonKeeps == ASSUME IInv, NEW j \in Tryon, CancelTryon(j) PROVE IInv'
<1>1. j \in folder /\ rec[j] \in Records /\ snap \in [Tryon -> ChildStates] /\ asked \in SUBSET Tryon /\ phase # "down"
  BY HasFolder DEF CancelTryon, Active
<1>2. In("cancelled", j) \in Records
  BY <1>1, RecordSet DEF In, Fixed
<1>3. Fault \/ NoFault
  BY DEF CancelTryon, Saved, Unsaved, NoFault
<1>4. UNCHANGED <<rec, recFile>> \/ \E r \in Records : Saved(j, r) \/ Unsaved(j, r)
  BY <1>2 DEF CancelTryon
<1>5. UNCHANGED stage \/ \E where \in Stages : Step(j, where)
  BY DEF CancelTryon, Stages
<1>6. snap' \in [Tryon -> ChildStates] /\ asked' \in SUBSET Tryon
  BY <1>1 DEF CancelTryon
<1>7. QED
  BY <1>1, <1>3, <1>4, <1>5, <1>6, AsideKeeps DEF CancelTryon

LEMMA Scheduled ==
  ASSUME IInv, NEW j \in Tryon, Schedule(j), UNCHANGED <<files, job, lane, stop, attempts>>
  PROVE  JobInv' /\ OnlyFor({j}) /\ \E r \in Records : Saved(j, r) \/ Unsaved(j, r)
<1>1. Repair("queued", j) \in Records
  BY HasFolder, RecordSet DEF Repair
<1>2. CASE Saved(j, Repair("queued", j)) /\ queue' = Append(queue, Task("repair", j))
  <2>1. NoFault
    BY <1>2 DEF Saved
  <2>2. QED
    BY <1>1, <1>2, <2>1, OtherQueued DEF IInv
<1>3. CASE Unsaved(j, Repair("queued", j)) /\ UNCHANGED queue
  <2>1. Fault
    BY <1>3 DEF Unsaved
  <2>2. JobInv'
    BY <1>3, <2>1, JobAside DEF IInv
  <2>3. OnlyFor({j})
    BY <1>3, QueueAlone DEF lane
  <2>4. QED
    BY <1>1, <1>3, <2>2, <2>3
<1>4. QED
  BY <1>2, <1>3 DEF Schedule

LEMMA RequestRepairKeeps == ASSUME IInv, NEW j \in Tryon, RequestRepair(j) PROVE IInv'
<1>1. JobInv' /\ OnlyFor({j}) /\ \E r \in Records : Saved(j, r) \/ Unsaved(j, r)
  BY Scheduled DEF RequestRepair
<1>2. Touches(j)
  BY <1>1, TouchesOne DEF IInv, RequestRepair
<1>3. j \in folder
  BY HasFolder DEF RequestRepair
<1>4. folder' = folder /\ folder \in SUBSET Tryon /\ report' = report /\ report \in SUBSET Tryon
      /\ snap' \in [Tryon -> ChildStates] /\ asked' \in SUBSET Tryon /\ phase # "down" /\ UNCHANGED phase
  BY DEF IInv, HqType, RequestRepair
<1>5. QED
  BY <1>1, <1>2, <1>3, <1>4, TryonKeeps

LEMMA BeginKeeps == ASSUME IInv, phase # "down", NEW j \in Tryon, Begin(j) PROVE IInv'
<1>1. j \in folder /\ snap \in [Tryon -> ChildStates] /\ asked \in SUBSET Tryon
  BY HasFolder DEF Begin, At2
<1>2. \E where \in Stages : Step(j, where)
  BY DEF Begin, Stages
<1>3. UNCHANGED <<files, job, queue, lane, stop, attempts>> /\ NoFault
  BY DEF Begin, jobVars, NoFault
<1>4. QED
  BY <1>1, <1>2, <1>3, AsideKeeps DEF Begin

LEMMA DownloadKeeps == ASSUME IInv, phase # "down", NEW j \in Tryon, Download(j) PROVE IInv'
<1>1. j \in folder /\ \E where \in Stages : Step(j, where)
  BY HasFolder DEF Download, At2, Stages
<1>2. NoFault /\ UNCHANGED <<files, job, lane, stop, attempts>>
  BY DEF Download, NoFault
<1>3. JobInv' /\ OnlyFor({j})
  <2>1. CASE queue' = Append(queue, Task("inspect", j))
    BY <1>2, <2>1, OtherQueued DEF IInv
  <2>2. CASE UNCHANGED queue
    BY <1>2, <2>2, JobAside, QueueAlone DEF IInv, lane
  <2>3. QED
    BY <2>1, <2>2 DEF Download
<1>4. Touches(j)
  BY <1>1, TouchesOne DEF IInv, Download
<1>5. folder' = folder /\ folder \in SUBSET Tryon /\ report' = report /\ report \in SUBSET Tryon
      /\ snap' \in [Tryon -> ChildStates] /\ asked' \in SUBSET Tryon /\ UNCHANGED phase
  BY DEF IInv, HqType, Download
<1>6. QED
  BY <1>1, <1>3, <1>4, <1>5, TryonKeeps

LEMMA BindKeeps == ASSUME IInv, phase # "down", NEW j \in Tryon, Bind(j) PROVE IInv'
<1>1. j \in folder /\ \E where \in Stages : Step(j, where)
  BY HasFolder DEF Bind, At2, Stages
<1>2. UNCHANGED <<shown, deleted, run, pc, attempts>> /\ UNCHANGED <<staged, stop>>
  BY DEF Bind, lane
<1>3. JobInv' /\ OnlyFor({j})
  <2>1. CASE jobFile[j] = "absent" /\ Journal(j)
    <3>1. j \in Jobs /\ JobInv
      BY DEF Jobs, IInv
    <3>2. Turns' /\ queue' \in Seq(Tasks)
      BY <1>2, <2>1, <3>1, JobRecorded DEF JobInv
    <3>3. JobsType'
      BY <1>2, <2>1, <3>1, <3>2
         DEF JobInv, JobsType, Journal, Fault, NoFault, bounds, JobStates, ChildStates, Running
    <3>4. QED
      BY <1>2, <2>1, <3>1, <3>2, <3>3, JournalAlone DEF JobInv
  <2>2. CASE UNCHANGED <<jobFile, job, queue, bounds>>
    BY <1>2, <2>2, JobAside, QueueAlone DEF IInv, files, lane, NoFault
  <2>3. QED
    BY <2>1, <2>2 DEF Bind
<1>4. Touches(j)
  BY <1>1, TouchesOne DEF IInv, Bind
<1>5. folder' = folder /\ folder \in SUBSET Tryon /\ report' = report /\ report \in SUBSET Tryon
      /\ snap' \in [Tryon -> ChildStates] /\ asked' \in SUBSET Tryon /\ UNCHANGED phase
  BY DEF IInv, HqType, Bind
<1>6. QED
  BY <1>1, <1>3, <1>4, <1>5, TryonKeeps

LEMMA CancelChildKeeps == ASSUME IInv, phase # "down", NEW j \in Tryon, CancelChild(j) PROVE IInv'
<1>1. j \in folder /\ \E where \in Stages : Step(j, where)
  BY HasFolder DEF CancelChild, At2, Stages
<1>2. JobInv'
  <2>1. j \in Jobs
    BY DEF Jobs
  <2>2. \/ /\ Queued(Make(j)) /\ queue' \in Without(Make(j))
           /\ Update(j, "cancelled") \/ Refused
        \/ UNCHANGED <<jobFile, job, queue, bounds>>
    BY DEF CancelChild
  <2>3. QED
    BY <2>1, <2>2, JobWithdrawn DEF IInv, CancelChild, lane
<1>3. OnlyFor({j})
  BY WithdrawnAlone, QueueAlone DEF IInv, CancelChild, lane
<1>4. Touches(j)
  BY <1>1, TouchesOne DEF IInv, CancelChild
<1>5. folder' = folder /\ folder \in SUBSET Tryon /\ report' = report /\ report \in SUBSET Tryon
      /\ snap' \in [Tryon -> ChildStates] /\ asked' \in SUBSET Tryon /\ UNCHANGED phase
  BY DEF IInv, HqType, CancelChild
<1>6. QED
  BY <1>1, <1>2, <1>3, <1>4, <1>5, TryonKeeps

LEMMA GetKeeps == ASSUME IInv, phase # "down", NEW j \in Tryon, Get(j) PROVE IInv'
<1>1. j \in folder /\ job[j] \in ChildStates /\ snap \in [Tryon -> ChildStates] /\ asked \in SUBSET Tryon
  BY HasFolder DEF Get, At2
<1>2. \E where \in Stages : Step(j, where)
  BY DEF Get, Stages
<1>3. snap' \in [Tryon -> ChildStates]
  BY <1>1 DEF Get
<1>4. UNCHANGED <<files, job, queue, lane, stop, attempts>> /\ NoFault
  BY DEF Get, jobVars, NoFault
<1>5. QED
  BY <1>1, <1>2, <1>3, <1>4, AsideKeeps DEF Get

LEMMA ImageState == ASSUME NEW child \in ChildStates, NEW s \in {"emptied", "succeeded"}
                    PROVE  Image(s, child) \in {"absent", "queued", "running"} \cup Fixed
  BY DEF Image, ChildStates, Running, Terminal, Fixed

LEMMA MirrorKeeps == ASSUME IInv, phase # "down", NEW j \in Tryon, Mirror(j) PROVE IInv'
<1> DEFINE next == In(Image(IF j \in deleted THEN "emptied" ELSE "succeeded", snap[j]), j)
<1>1. j \in folder /\ rec[j] \in Records /\ snap \in [Tryon -> ChildStates] /\ asked \in SUBSET Tryon
  BY HasFolder DEF Mirror, At2
<1>2. next \in Records
  BY <1>1, ImageState, RecordSet DEF In
<1>3. Then(j) \in Stages
  BY DEF Then, Stages
<1>4. \E where \in Stages : Step(j, where)
  BY <1>3 DEF Mirror, Stages
<1>5. UNCHANGED <<rec, recFile, bounds>> \/ Saved(j, next) \/ Unsaved(j, next)
  BY DEF Mirror
<1>6. Fault \/ NoFault
  BY <1>5 DEF Saved, Unsaved, NoFault
<1>7. UNCHANGED <<rec, recFile>> \/ \E r \in Records : Saved(j, r) \/ Unsaved(j, r)
  BY <1>2, <1>5
<1>8. QED
  BY <1>1, <1>4, <1>6, <1>7, AsideKeeps DEF Mirror

LEMMA AutoKeeps == ASSUME IInv, phase # "down", NEW j \in Tryon, AutoRepair(j) PROVE IInv'
<1>1. j \in folder /\ rec[j] \in Records /\ \E where \in Stages : Step(j, where)
  BY HasFolder DEF AutoRepair, At2, Stages
<1>2. JobInv' /\ OnlyFor({j}) /\ \E r \in Records : Saved(j, r) \/ Unsaved(j, r)
  <2>1. CASE Schedule(j)
    BY <2>1, Scheduled DEF AutoRepair
  <2>2. CASE Saved(j, Repair("failed", j)) /\ UNCHANGED queue
    <3>1. Repair("failed", j) \in Records
      BY <1>1, RecordSet DEF Repair
    <3>2. QED
      BY <2>2, <3>1, JobAside, QueueAlone DEF IInv, AutoRepair, Saved, lane
  <2>3. QED
    BY <2>1, <2>2 DEF AutoRepair
<1>3. Touches(j)
  BY <1>1, <1>2, TouchesOne DEF IInv
<1>4. folder' = folder /\ folder \in SUBSET Tryon /\ report' = report /\ report \in SUBSET Tryon
      /\ snap' \in [Tryon -> ChildStates] /\ asked' \in SUBSET Tryon /\ UNCHANGED phase
  BY DEF IInv, HqType, AutoRepair
<1>5. QED
  BY <1>1, <1>2, <1>3, <1>4, TryonKeeps

LEMMA BrokenKeeps == ASSUME IInv, phase # "down", NEW j \in Tryon, Broken(j) PROVE IInv'
<1>1. j \in folder /\ rec[j] \in Records /\ snap \in [Tryon -> ChildStates] /\ asked \in SUBSET Tryon
  BY HasFolder DEF Broken, At2
<1>2. In("cancelled", j) \in Records /\ In("failed", j) \in Records
  BY <1>1, RecordSet DEF In, Fixed
<1>3. UNCHANGED <<rec, recFile, bounds>>
      \/ \E state \in {"cancelled", "failed"} : Saved(j, In(state, j)) \/ Unsaved(j, In(state, j))
  BY DEF Broken
<1>4. Fault \/ NoFault
  BY <1>3 DEF Saved, Unsaved, NoFault
<1>5. UNCHANGED <<rec, recFile>> \/ \E r \in Records : Saved(j, r) \/ Unsaved(j, r)
  BY <1>2, <1>3
<1>6. \E where \in Stages : Step(j, where)
  BY DEF Broken, Stages
<1>7. QED
  BY <1>1, <1>4, <1>5, <1>6, AsideKeeps DEF Broken

LEMMA ThreadKeeps == ASSUME IInv, phase # "down", NEW j \in Tryon, Thread(j) PROVE IInv'
  BY RecordKeeps, BeginKeeps, DownloadKeeps, BindKeeps, CancelChildKeeps, GetKeeps, MirrorKeeps, AutoKeeps, BrokenKeeps
     DEF Thread

-----------------------------------------------------------------------------
(* Tasks of the lane that are no jobs.                                      *)

LEMMA OtherRunning ==
  ASSUME IInv, run # None, run.what # "make" PROVE This = run.job /\ run.job \in folder /\ run.job \in Tryon
  BY DEF IInv, Folders, HqType, This

LEMMA TakenKeeps == ASSUME IInv, phase # "down", Inspect \/ TakeRepair PROVE IInv'
<1>1. JobInv'
  BY TaskTaken DEF IInv, Inspect, TakeRepair
<1>2. Head(queue) \in Tasks /\ Queued(Head(queue)) /\ Head(queue).what # "make"
  <2>1. queue \in Seq(Tasks) /\ Single /\ queue # <<>> /\ queue' = Tail(queue)
    BY DEF IInv, JobInv, JobsType, Turns, Inspect, TakeRepair
  <2>2. Head(queue).what # "make"
    BY DEF Inspect, TakeRepair
  <2>3. QED
    BY <2>1, <2>2, QueueTakes
<1>3. PICK n \in DOMAIN queue : queue[n] = Head(queue)
  BY <1>2 DEF Queued
<1> DEFINE j == Head(queue).job
<1>4. j \in folder /\ j \in Tryon
  BY <1>2, <1>3 DEF IInv, Folders, HqType
<1>5. OnlyFor({j})
  <2>1. Head(queue).job \in {j}
    OBVIOUS
  <2>2. QED
    BY <2>1, QueueHead DEF IInv, Inspect, TakeRepair
<1>6. UNCHANGED hq
  BY DEF Inspect, TakeRepair
<1>7. Touches(j)
  BY <1>4, <1>6, TouchesOne DEF IInv, hq
<1>8. folder' = folder /\ folder \in SUBSET Tryon /\ report' = report /\ report \in SUBSET Tryon
      /\ snap' \in [Tryon -> ChildStates] /\ asked' \in SUBSET Tryon /\ UNCHANGED phase
  BY <1>6 DEF IInv, HqType, hq
<1>9. QED
  BY <1>1, <1>4, <1>5, <1>7, <1>8, TryonKeeps

LEMMA RepairRecords ==
  ASSUME IInv, NEW j \in Tryon
  PROVE  Repair("running", j) \in Records /\ Repair("done", j) \in Records /\ Repair("failed", j) \in Records
  BY HasFolder, RecordSet DEF Repair

LEMMA LaneTaskKeeps ==
  ASSUME IInv, phase # "down", Inspected \/ RepairBegins \/ RepairWorks \/ RepairEnds \/ RepairFails PROVE IInv'
<1> DEFINE j == run.job
<1>1. run # None /\ run.what # "make"
  BY DEF Inspected, RepairBegins, RepairWorks, RepairEnds, RepairFails, Repairs
<1>2. This = j /\ j \in folder /\ j \in Tryon
  BY <1>1, OtherRunning
<1>3. UNCHANGED <<rec, recFile, bounds>> \/ \E r \in Records : Saved(j, r) \/ Unsaved(j, r)
  BY <1>2, RepairRecords DEF Inspected, RepairBegins, RepairWorks, RepairEnds, RepairFails
<1>4. Fault \/ NoFault
  BY <1>3 DEF Saved, Unsaved, NoFault
<1>5. (run' = run /\ pc' \in {"patch", "receipt", "unrepaired"}) \/ Idle
  BY DEF Inspected, RepairBegins, RepairWorks, RepairEnds, RepairFails, Goto
<1>6. UNCHANGED <<files, job, queue, stop, attempts, phase, folder, snap, asked>>
  BY DEF Inspected, RepairBegins, RepairWorks, RepairEnds, RepairFails
<1>7. JobInv'
  BY <1>1, <1>4, <1>5, <1>6, LaneAside DEF IInv
<1>8. OnlyFor({j})
  BY <1>5, <1>6, QueueAlone DEF Idle
<1>9. UNCHANGED stage \/ \E where \in Stages : Step(j, where)
  BY DEF Inspected, RepairBegins, RepairWorks, RepairEnds, RepairFails, Stages
<1>10. Touches(j)
  BY <1>2, <1>3, <1>9, TouchesOne DEF IInv
<1>11. report' = report \/ report' = report \cup {j}
  BY <1>2 DEF Inspected, RepairBegins, RepairWorks, RepairEnds, RepairFails
<1>12. folder \in SUBSET Tryon /\ report \in SUBSET Tryon /\ snap' \in [Tryon -> ChildStates] /\ asked' \in SUBSET Tryon
  BY <1>6 DEF IInv, HqType
<1>13. QED
  BY <1>2, <1>6, <1>7, <1>8, <1>10, <1>11, <1>12, TryonKeeps

LEMMA LaneKeeps == ASSUME IInv, phase # "down", Lane \/ (Write /\ UNCHANGED hq) PROVE IInv'
  BY ExecuteKeeps, TakenKeeps, LaneTaskKeeps DEF Lane

-----------------------------------------------------------------------------
(* The service closes, exits and starts.                                    *)

LEMMA CloseBeginKeeps == ASSUME IInv, CloseBegin PROVE IInv'
<1> DEFINE active == {j \in Tryon : Active(j)}
           Mark(f, S) == [j \in Tryon |-> IF j \in S THEN [f[j] EXCEPT !.state = "failed"] ELSE f[j]]
           Waits == {n \in DOMAIN queue : queue[n].what # "repair"}
<1>1. UNCHANGED <<files, job, lane, stop, attempts, folder, snap, report>> /\ phase # "down" /\ phase' = "closing"
  BY DEF CloseBegin
<1>2. \E S \in SUBSET active, T \in SUBSET active :
         rec' = Mark(rec, S) /\ recFile' = [j \in Tryon |-> IF j \in T THEN rec'[j] ELSE recFile[j]]
  <2>1. CASE NoFault /\ rec' = Mark(rec, active) /\ recFile' = [j \in Tryon |-> IF j \in active THEN rec'[j] ELSE recFile[j]]
    BY <2>1
  <2>2. CASE \E S \in SUBSET active, f \in active :
               /\ rec' = Mark(rec, S \cup {f})
               /\ recFile' = [j \in Tryon |-> IF j \in S \ {f} THEN rec'[j] ELSE recFile[j]]
    <3>1. PICK S \in SUBSET active, f \in active :
               /\ rec' = Mark(rec, S \cup {f})
               /\ recFile' = [j \in Tryon |-> IF j \in S \ {f} THEN rec'[j] ELSE recFile[j]]
      BY <2>2
    <3>2. S \cup {f} \in SUBSET active /\ S \ {f} \in SUBSET active
      OBVIOUS
    <3>3. QED
      BY <3>1, <3>2
  <2>3. QED
    BY <2>1, <2>2 DEF CloseBegin
<1>3. PICK S \in SUBSET active, T \in SUBSET active :
         rec' = Mark(rec, S) /\ recFile' = [j \in Tryon |-> IF j \in T THEN rec'[j] ELSE recFile[j]]
  BY <1>2
<1>4. rec \in [Tryon -> Records] /\ recFile \in [Tryon -> Records]
  BY DEF IInv, HqType
<1>5. \A j \in Tryon : [rec[j] EXCEPT !.state = "failed"] \in Records
  BY <1>4, RecordSet DEF Fixed
<1>6. rec' \in [Tryon -> Records]
  BY <1>3, <1>4, <1>5
<1>7. recFile' \in [Tryon -> Records]
  BY <1>3, <1>4, <1>6
<1>8. \A j \in Tryon : Active(j) => j \in folder
  BY DEF IInv, Folders, Active
<1>9. \A j \in Tryon : rec'[j].state # "absent" \/ recFile'[j].state # "absent" => j \in folder
  <2>1. SUFFICES ASSUME NEW j \in Tryon, j \notin folder PROVE rec'[j].state = "absent" /\ recFile'[j].state = "absent"
    OBVIOUS
  <2>2. rec'[j] = rec[j] /\ recFile'[j] = recFile[j]
    BY <2>1, <1>3, <1>8
  <2>3. QED
    BY <2>1, <2>2 DEF IInv, Folders
<1>10. asked' \in SUBSET Tryon
  BY DEF CloseBegin, IInv, HqType
<1>11. stage' \in [Tryon -> Stages] /\ \A j \in Tryon : stage'[j] # "none" => stage[j] # "none"
  BY DEF CloseBegin, IInv, HqType, Stages
<1>12. JobInv' /\ OnlyFor({})
  <2>1. CASE NoFault /\ queue' \in Left(Waits)
    <3>1. Waits \in SUBSET DOMAIN queue
      OBVIOUS
    <3>2. Turns' /\ queue' \in Seq(Tasks)
      BY <1>1, <2>1, <3>1, TasksLeave DEF IInv, JobInv, files, lane
    <3>3. JobsType'
      BY <1>1, <2>1, <3>2 DEF IInv, JobInv, JobsType, files, lane, NoFault, bounds
    <3>4. OnlyFor({})
      BY <1>1, <2>1, <3>1, QueueLoses DEF IInv, lane
    <3>5. QED
      BY <3>2, <3>3, <3>4 DEF JobInv
  <2>2. CASE Fault /\ UNCHANGED queue
    BY <1>1, <2>2, JobAside, QueueAlone DEF IInv, lane
  <2>3. QED
    BY <2>1, <2>2 DEF CloseBegin
<1>13. HqType'
  BY <1>1, <1>6, <1>7, <1>10, <1>11 DEF IInv, HqType
<1>14. Folders'
  <2>1. \A j \in Tryon :
          stage'[j] # "none" \/ rec'[j].state # "absent" \/ recFile'[j].state # "absent" \/ j \in report' => j \in folder'
    BY <1>1, <1>9, <1>11 DEF IInv, Folders
  <2>2. \A n \in DOMAIN queue' : queue'[n].what # "make" => queue'[n].job \in folder'
    BY <1>1, <1>12 DEF IInv, Folders, OnlyFor
  <2>3. run' # None /\ run'.what # "make" => run'.job \in folder'
    BY <1>1 DEF IInv, Folders, lane
  <2>4. QED
    BY <2>1, <2>2, <2>3 DEF Folders
<1>15. QED
  BY <1>1, <1>12, <1>13, <1>14 DEF IInv, Resting

LEMMA CloseEndKeeps == ASSUME IInv, CloseEnd PROVE IInv'
<1>1. UNCHANGED <<files, job, queue, lane, stop, attempts>> /\ NoFault /\ phase' = "closed"
      /\ UNCHANGED <<folder, rec, recFile, stage, snap, asked, report>>
  BY DEF CloseEnd, jobVars, NoFault
<1>2. JobInv'
  BY <1>1, JobAside DEF IInv
<1>3. HqType' /\ Resting'
  BY <1>1 DEF IInv, HqType, Resting
<1>4. Folders'
  BY <1>1 DEF IInv, Folders, lane
<1>5. QED
  BY <1>2, <1>3, <1>4 DEF IInv

LEMMA ExitKeeps == ASSUME IInv, Exit PROVE IInv'
<1>1. /\ job' = [j \in Jobs |-> "none"] /\ queue' = <<>> /\ run' = None /\ pc' = "idle" /\ stop' = {}
      /\ UNCHANGED <<jobFile, staged, shown, deleted, attempts>> /\ faults' = faults /\ crashes' = crashes + 1
  BY DEF Exit, ForgetJobs, Idle, files
<1>2. \A x : ~Queued(x)'
  BY <1>1 DEF Queued
<1>3. \A j \in Jobs : run' # Make(j)
  BY <1>1, JobAssumption, MakeIs
<1>4. Turns'
  BY <1>1, <1>2, <1>3
     DEF IInv, JobInv, Turns, Unsubmitted, Waiting, Single, Unstarted, OneAttempt, Unpublished, Published, Making
<1>5. JobsType'
  BY <1>1 DEF IInv, JobInv, JobsType, ChildStates, Places
<1>6. Absent \in Records /\ Absent.state = "absent"
  BY DEF Absent, Records
<1>7. HqType'
  BY <1>6 DEF Exit, IInv, HqType, Stages, ChildStates
<1>8. Folders'
  BY <1>1, <1>6 DEF Exit, IInv, Folders
<1>9. Resting'
  BY <1>1 DEF Resting
<1>10. QED
  BY <1>4, <1>5, <1>7, <1>8, <1>9 DEF IInv, JobInv

LEMMA RecoveredIs ==
  ASSUME JobsType, NEW j \in Jobs
  PROVE  Recovered(j) \in JobStates /\ (Recovered(j) = "absent" <=> jobFile[j] = "absent")
  BY DEF JobsType, Recovered, JobStates, Running, Terminal

LEMMA AgainIs ==
  ASSUME IInv, NEW j \in Tryon
  PROVE  Again(j) \in Records /\ (recFile[j].state = "absent" => Again(j).state = "absent")
<1> DEFINE child == IF Recovered(j) = "absent" THEN "failed" ELSE Recovered(j)
           emptied == IF j \in deleted THEN "emptied" ELSE "succeeded"
           next == IF recFile[j].state \notin {"queued", "running"} THEN recFile[j].state ELSE Image(emptied, child)
           mended == IF recFile[j].repair = "running" THEN "failed" ELSE recFile[j].repair
<1>1. child \in ChildStates
  BY RecoveredIs DEF IInv, JobInv, Jobs, JobStates, ChildStates, Terminal, Running
<1>2. recFile[j] \in Records
  BY DEF IInv, HqType
<1>3. Image(emptied, child) \in {"absent", "queued", "running"} \cup Fixed
  BY <1>1, ImageState
<1>4. next \in {"absent", "queued", "running"} \cup Fixed /\ (recFile[j].state = "absent" => next = "absent")
  BY <1>2, <1>3 DEF Records
<1>5. mended \in {"none", "queued", "running", "done", "failed"}
  BY <1>2 DEF Records
<1>6. Again(j) = [state |-> next, repair |-> mended]
  BY DEF Again
<1>7. QED
  BY <1>4, <1>5, <1>6 DEF Records

LEMMA RecoverJobsKeeps ==
  ASSUME IInv, phase = "down", RecoverJobs, NoFault, queue' \in Seq(Tasks), \A n \in DOMAIN queue' : queue'[n].what # "make"
  PROVE  JobInv'
<1>1. run = None /\ UNCHANGED <<deleted, run, pc, stop, attempts>>
  BY DEF IInv, Resting, RecoverJobs, lane
<1>2. \A j \in Jobs : ~Queued(Make(j))'
  BY MakeIs DEF Queued
<1>3. \A j \in Jobs : run' # Make(j)
  BY <1>1, JobAssumption, MakeIs
<1>4. \A j \in Jobs : jobFile'[j] = Recovered(j)
  BY DEF RecoverJobs
<1>5. \A j \in Jobs : jobFile[j] = "absent" => shown[j] = {} /\ shown'[j] = shown[j] /\ attempts[j] = 0
  BY DEF RecoverJobs, IInv, JobInv, Turns, Unsubmitted
<1>6. Unsubmitted'
  BY <1>1, <1>2, <1>3, <1>4, <1>5, RecoveredIs DEF Unsubmitted, IInv, JobInv
<1>7. Waiting'
  BY <1>2 DEF Waiting
<1>8. Single'
  BY DEF Single
<1>9. Unstarted' /\ OneAttempt' /\ Unpublished'
  BY <1>1 DEF Unstarted, OneAttempt, Unpublished, Making, IInv, JobInv, Turns
<1>10. Published'
  <2>1. SUFFICES ASSUME NEW j \in Tryon, "metadata" \in shown'[j], j \notin deleted PROVE jobFile'[j] = "complete"
    BY <1>1 DEF Published
  <2>2. j \in Jobs /\ j \notin Plain /\ jobFile[j] # "absent"
    BY <2>1, <1>5, JobAssumption DEF Jobs
  <2>3. shown'[j] = IF Recovered(j) = "complete" THEN Whole ELSE {}
    BY <2>1, <2>2 DEF RecoverJobs
  <2>4. QED
    BY <2>1, <2>2, <2>3, <1>4
<1>11. JobsType'
  <2>1. jobFile' \in [Jobs -> JobStates]
    BY RecoveredIs DEF RecoverJobs, IInv, JobInv
  <2>2. job' \in [Jobs -> ChildStates]
    BY RecoveredIs DEF RecoverJobs, IInv, JobInv, JobStates, ChildStates
  <2>3. shown' \in [Jobs -> SUBSET Whole] /\ staged' \in [Jobs -> SUBSET Whole]
    BY DEF RecoverJobs, IInv, JobInv, JobsType
  <2>4. QED
    BY <1>1, <2>1, <2>2, <2>3 DEF IInv, JobInv, JobsType, NoFault, bounds
<1>12. QED
  BY <1>6, <1>7, <1>8, <1>9, <1>10, <1>11 DEF JobInv, Turns

LEMMA StartKeeps == ASSUME IInv, Start PROVE IInv'
<1>1. PICK room \in SUBSET Due : \E todo \in [1..Cardinality(room) -> room] :
         /\ queue' = Resumed \o [n \in DOMAIN todo |-> Task("repair", todo[n])]
         /\ rec' = [j \in Tryon |-> Renewed(j, room)] /\ recFile' = rec'
  BY DEF Start
<1>2. PICK todo \in [1..Cardinality(room) -> room] : queue' = Resumed \o [n \in DOMAIN todo |-> Task("repair", todo[n])]
  BY <1>1
<1>3. Cardinality(room) \in Nat
  BY TryonAssumption, FS_Subset, FS_CardinalityType DEF Due
<1>4. phase = "down" /\ phase' = "open" /\ run = None /\ UNCHANGED <<run, folder, stage, snap, asked, report>>
      /\ RecoverJobs /\ NoFault
  BY DEF Start, RecoverJobs, lane, IInv, Resting
<1>5. \A n \in 1..Cardinality(room) : todo[n] \in Tryon /\ todo[n] \in Due
  BY DEF Due
<1>6. \A n \in 1..Cardinality(room) : /\ Task("repair", todo[n]) \in Tasks
                                       /\ Task("repair", todo[n]).what = "repair" /\ Task("repair", todo[n]).job = todo[n]
  BY <1>5, OtherTasks DEF Jobs
<1>7. queue' \in Seq(Tasks) /\ \A n \in DOMAIN queue' : n \in 1..Cardinality(room) /\ queue'[n] = Task("repair", todo[n])
  <2> DEFINE q == [n \in DOMAIN todo |-> Task("repair", todo[n])]
  <2>1. DOMAIN todo = 1..Cardinality(room) /\ q \in [1..Cardinality(room) -> Tasks]
    BY <1>6
  <2>2. q \in Seq(Tasks)
    BY <2>1, <1>3
  <2>3. queue' = <<>> \o q
    BY <1>2 DEF Resumed
  <2>4. queue' = q
    <3> HIDE DEF q
    <3>1. QED
      BY <2>2, <2>3
  <2>5. QED
    BY <2>1, <2>2, <2>4
<1>8. JobInv'
  BY <1>4, <1>6, <1>7, RecoverJobsKeeps
<1>9. \A j \in Tryon : Again(j) \in Records /\ (recFile[j].state = "absent" => Again(j).state = "absent")
  BY AgainIs
<1>10. \A j \in Tryon : Renewed(j, room) \in Records /\ Renewed(j, room).state = Again(j).state
  BY <1>9, RecordSet DEF Renewed
<1>11. rec' \in [Tryon -> Records] /\ recFile' \in [Tryon -> Records] /\ \A j \in Tryon : rec'[j].state = Again(j).state
  BY <1>1, <1>10
<1>12. HqType'
  BY <1>4, <1>11 DEF IInv, HqType
<1>13. Folders'
  <2>1. \A j \in Tryon : recFile[j].state # "absent" => j \in folder
    BY DEF IInv, Folders
  <2>2. ASSUME NEW j \in Tryon, Again(j).state # "absent" PROVE j \in folder
    <3>1. recFile[j].state # "absent"
      BY <2>2, AgainIs
    <3>2. QED
      BY <2>1, <3>1
  <2>3. recFile' = rec' /\ folder' = folder
    BY <1>1, <1>4
  <2>4. \A j \in Tryon : rec'[j].state # "absent" \/ recFile'[j].state # "absent" => j \in folder'
    BY <2>2, <2>3, <1>11
  <2>5. \A j \in Tryon : stage'[j] # "none" \/ j \in report' => j \in folder'
    BY <1>4 DEF IInv, Folders
  <2>6. ASSUME NEW j \in Due PROVE j \in folder
    <3>1. j \in Tryon /\ Again(j).state = "succeeded"
      BY DEF Due
    <3>2. QED
      BY <2>2, <3>1
  <2>7. \A n \in DOMAIN queue' : queue'[n].job \in folder'
    BY <2>6, <1>4, <1>5, <1>6, <1>7
  <2>8. QED
    BY <2>4, <2>5, <2>7, <1>4 DEF Folders
<1>14. QED
  BY <1>4, <1>8, <1>12, <1>13 DEF IInv, Resting

-----------------------------------------------------------------------------
(* The theorems.                                                            *)

LEMMA InitKeeps == Init => IInv
<1>1. SUFFICES ASSUME Init PROVE IInv
  OBVIOUS
<1>2. \A x : ~Queued(x)
  BY <1>1 DEF Init, InitJobs, Queued
<1>3. \A j \in Jobs : run # Make(j)
  BY <1>1, JobAssumption, MakeIs DEF Init, InitJobs
<1>4. Turns
  <2>1. \A j \in Jobs : attempts[j] = 0 /\ shown[j] = {}
    BY <1>1 DEF Init, InitJobs
  <2>2. Unsubmitted /\ Waiting /\ OneAttempt /\ Published
    BY <1>2, <1>3, <2>1 DEF Unsubmitted, Waiting, OneAttempt, Published, Jobs
  <2>3. queue = <<>> /\ run = None
    BY <1>1 DEF Init, InitJobs
  <2>4. Single /\ Unstarted /\ Unpublished
    BY <2>3 DEF Single, Unstarted, Unpublished, Making
  <2>5. QED
    BY <2>2, <2>4 DEF Turns
<1>5. JobsType
  BY <1>1 DEF Init, InitJobs, JobsType, JobStates, ChildStates, Places
<1>6. Absent \in Records /\ Absent.state = "absent"
  BY DEF Absent, Records
<1>7. HqType
  BY <1>1, <1>6 DEF Init, HqType, Stages, ChildStates
<1>8. Folders /\ Resting
  BY <1>1, <1>6 DEF Init, InitJobs, Folders, Resting
<1>9. QED
  BY <1>4, <1>5, <1>7, <1>8 DEF IInv, JobInv

LEMMA NextKeeps == IInv /\ [Next]_vars => IInv'
<1>1. SUFFICES ASSUME IInv, [Next]_vars PROVE IInv'
  OBVIOUS
<1>2. CASE UNCHANGED vars
  <2>1. UNCHANGED <<files, job, queue, lane, stop, attempts>> /\ NoFault /\ UNCHANGED hq
    BY <1>2 DEF vars, jobVars, NoFault
  <2>2. JobInv'
    BY <1>1, <2>1, JobAside DEF IInv
  <2>3. HqType' /\ Folders' /\ Resting'
    BY <1>1, <2>1 DEF IInv, HqType, Folders, Resting, hq, lane
  <2>4. QED
    BY <2>2, <2>3 DEF IInv
<1>3. CASE Request
  BY <1>1, <1>3, SubmitKeeps, CancelKeeps, DeleteKeeps, ReserveKeeps, CancelTryonKeeps, RequestRepairKeeps DEF Request
<1>4. CASE Start \/ Exit \/ CloseBegin \/ CloseEnd
  BY <1>1, <1>4, StartKeeps, ExitKeeps, CloseBeginKeeps, CloseEndKeeps
<1>5. CASE Working /\ (Lane \/ (Write /\ UNCHANGED hq) \/ \E j \in Tryon : Thread(j))
  BY <1>1, <1>5, LaneKeeps, ThreadKeeps DEF Working
<1>6. QED
  BY <1>1, <1>2, <1>3, <1>4, <1>5 DEF Next

LEMMA Inductive == Spec => []IInv
  BY InitKeeps, NextKeeps, PTL DEF Spec

\* Every variable keeps its type: the records, the files in both folders, the
\* lane and its queue, the threads and the repairs, through failed writes,
\* closes, exits and starts (identity_service.py, hq_service.py,
\* hq_repair_service.py).
THEOREM TypeCorrect == Spec => []TypeOK
<1>1. IInv => TypeOK
  BY DEF IInv, JobInv, TypeOK
<1>2. QED
  BY <1>1, Inductive, PTL

\* No job is given to a second worker process, however its submission, its
\* cancellation, its failure and the restarts of the service interleave
\* (identity_service.py: submit_hq, cancel, _execute, _recover;
\* hq_service.py: start).
THEOREM AttemptedOnce == Spec => []OneAttempt
<1>1. IInv => OneAttempt
  BY DEF IInv, JobInv, Turns
<1>2. QED
  BY <1>1, Inductive, PTL

\* A try-on whose picture and metadata are in the output folder, where the
\* history scans, is complete in its file or was deleted, at every moment of a
\* publication, a failure, an exit or a recovery (identity_service.py:
\* _execute, _quarantine_hq_outputs, _recover).
THEOREM HistoryIsHonest == Spec => []HistoryHonest
<1>1. IInv => HistoryHonest
  BY DEF IInv, JobInv, Turns, Published, HistoryHonest, Whole
<1>2. QED
  BY <1>1, Inductive, PTL
=============================================================================
