-------------------------- MODULE JobRunnerProofs --------------------------
(***************************************************************************)
(* The safety properties of JobRunner, for any set of jobs and any number  *)
(* of failed writes, service crashes and status requests.                  *)
(***************************************************************************)
EXTENDS JobRunner, TLAPS

Inv == TypeOK /\ Sound /\ CompleteHasOutput /\ CancelWaitsForRunner

-----------------------------------------------------------------------------
(* Types.                                                                   *)

LEMMA TypeInit == Init => TypeOK
  BY JobAssumption DEF Init, TypeOK, Steps

\* The three outcomes of a conditional update of the running job.
LEMMA UpdateTypes ==
  ASSUME TypeOK, pc # "idle", NEW s \in Terminal \cup Active, NEW next \in Steps,
         UpdateIfActive(s, next), UNCHANGED <<posting, queue, server, clients, cli, output>>
  PROVE  TypeOK'
<1>1. run \in Jobs
  BY DEF TypeOK
<1>2. CASE UNCHANGED <<records, bounds>> /\ Idle
  BY <1>2 DEF TypeOK, Idle, Steps, server, clients, records, bounds
<1>3. CASE Saved(run, s) /\ (IF next = "idle" THEN Idle ELSE Goto(next))
  BY <1>1, <1>3 DEF TypeOK, Idle, Goto, Saved, Steps, server, clients, bounds
<1>4. CASE SaveFails(run, s) /\ Idle
  <2>1. mem' \in [Jobs -> Terminal \cup Active \cup {"none"}]
    BY <1>1, <1>4 DEF TypeOK, SaveFails
  <2>2. disk' \in [Jobs -> Terminal \cup Active \cup {"absent", "torn"}]
    BY <1>1, <1>4 DEF TypeOK, SaveFails
  <2>3. QED
    BY <1>4, <2>1, <2>2 DEF TypeOK, Idle, SaveFails, Fault, Steps, server, clients
<1>5. QED
  BY <1>2, <1>3, <1>4 DEF UpdateIfActive

LEMMA ClientTypes == ASSUME TypeOK, Client PROVE TypeOK'
<1>1. ASSUME NEW j \in Jobs, Submit(j) PROVE TypeOK'
  <2>1. CASE Saved(j, "queued") /\ posting' = posting \cup {j}
    BY <1>1, <2>1 DEF TypeOK, Submit, Saved, worker, server, clients, bounds, Active
  <2>2. CASE SaveFails(j, "queued") /\ UNCHANGED posting
    BY <1>1, <2>2 DEF TypeOK, Submit, SaveFails, Fault, worker, server, clients, Active
  <2>3. QED
    BY <1>1, <2>1, <2>2 DEF Submit
<1>2. ASSUME NEW j \in Jobs, Observe(j) PROVE TypeOK'
  BY <1>2 DEF TypeOK, Observe, records, worker, server, bounds
<1>3. ASSUME NEW j \in Jobs, Cancel(j) PROVE TypeOK'
  <2>1. /\ mem' \in [Jobs -> Terminal \cup Active \cup {"none"}]
        /\ disk' \in [Jobs -> Terminal \cup Active \cup {"absent", "torn"}]
    BY <1>3 DEF TypeOK, Cancel, Saved, SaveFails, Terminal
  <2>2. ask' \in SUBSET Jobs /\ waiting' \in SUBSET Jobs /\ answered' \in SUBSET Jobs
    BY <1>3 DEF TypeOK, Cancel, FollowUp
  <2>3. /\ cli' \in [Jobs -> {"none", "running", "invoked", "done", "failed", "killed"}]
        /\ output' \in [Jobs -> {"none", "image", "whole"}]
    BY <1>3 DEF TypeOK, Cancel
  <2>4. faults' \in Nat /\ crashes' \in Nat
    BY <1>3 DEF TypeOK, Cancel, Saved, SaveFails, Fault, bounds
  <2>5. UNCHANGED <<posting, queue, worker, server, told>>
    BY <1>3 DEF Cancel
  <2>6. QED
    BY <2>1, <2>2, <2>3, <2>4, <2>5 DEF TypeOK, worker, server
<1>4. QED
  BY <1>1, <1>2, <1>3, JobAssumption DEF Client

LEMMA PendingTypes == ASSUME TypeOK, NEW j \in Jobs, Pending(j) \/ NativeEnds(j) \/ CliEnds(j) PROVE TypeOK'
<1>1. CASE Enqueue(j)
  BY <1>1 DEF TypeOK, Enqueue, records, worker, server, clients, bounds
<1>2. CASE Forward(j)
  BY <1>2 DEF TypeOK, Forward, AskServer, records, worker, bounds
<1>3. CASE RunnerGone(j)
  BY <1>3 DEF TypeOK, RunnerGone, records, worker, server, bounds
<1>4. CASE NativeEnds(j)
  BY <1>4 DEF TypeOK, NativeEnds, records, worker, clients, bounds
<1>5. CASE CliEnds(j)
  BY <1>5 DEF TypeOK, CliEnds, records, worker, server, clients, bounds
<1>6. QED
  BY <1>1, <1>2, <1>3, <1>4, <1>5 DEF Pending

LEMMA WorkerTypes == ASSUME TypeOK, Worker PROVE TypeOK'
<1> USE DEF Steps
<1>1. CASE Take
  BY <1>1, JobAssumption DEF TypeOK, Take, records, server, clients, bounds
<1>2. CASE Prepare \/ Returned \/ Complete
  <2>1. pc # "idle" /\ UNCHANGED <<posting, queue, server, clients, cli, output>>
    BY <1>2 DEF Prepare, Returned, Complete
  <2>2. PICK s \in Terminal \cup Active, next \in Steps : UpdateIfActive(s, next)
    BY <1>2 DEF Prepare, Returned, Complete, Terminal, Active
  <2>3. QED
    BY <2>1, <2>2, UpdateTypes
<1>3. CASE Barrier \/ Route \/ Verify
  <2>1. pc # "idle" /\ UNCHANGED <<posting, queue, server, clients, cli, output>>
    BY <1>3 DEF Barrier, Route, Verify
  <2>2. CASE \E s \in Terminal \cup Active, next \in Steps : UpdateIfActive(s, next)
    BY <2>1, <2>2, UpdateTypes
  <2>3. CASE (Goto("route") \/ Goto("trace")) /\ UNCHANGED <<records, bounds>>
    BY <2>1, <2>3 DEF TypeOK, Goto, records, bounds, server, clients
  <2>4. QED
    BY <1>3, <2>2, <2>3 DEF Barrier, Route, Verify, Terminal, Active
<1>4. CASE Check \/ Ready \/ Received \/ Start
  BY <1>4 DEF TypeOK, Check, Ready, Received, Start, Goto, Idle, records, bounds, server, clients
<1>5. CASE Post \/ RegisterNative \/ Poll
  BY <1>5 DEF TypeOK, Post, RegisterNative, Poll, Goto, records, bounds, clients
<1>6. CASE TellServer \/ GetStatus
  BY <1>6 DEF TypeOK, TellServer, AskServer, GetStatus, Goto, records, bounds, clients
<1>7. CASE WriteOutput \/ Trace
  BY <1>7 DEF TypeOK, WriteOutput, Trace, Fault, Goto, Idle, records, bounds, server, clients
<1>8. CASE Spawn \/ Invoke
  BY <1>8 DEF TypeOK, Spawn, Invoke, Goto, Idle, records, bounds, server, clients
<1>9. CASE Communicate \/ RunnerReturns
  BY <1>9 DEF TypeOK, Communicate, RunnerReturns, Fault, Goto, Idle, records, bounds, server, clients
<1>10. QED
  BY <1>1, <1>2, <1>3, <1>4, <1>5, <1>6, <1>7, <1>8, <1>9 DEF Worker, Persistent, Process

LEMMA CrashTypes == ASSUME TypeOK, Crash PROVE TypeOK'
  BY DEF TypeOK, Crash, Idle, Steps

LEMMA TypeStep == TypeOK /\ [Next]_vars => TypeOK'
<1>1. ASSUME TypeOK, UNCHANGED vars PROVE TypeOK'
  BY <1>1 DEF TypeOK, vars, records, worker, server, clients, bounds
<1>2. QED
  BY <1>1, ClientTypes, PendingTypes, WorkerTypes, CrashTypes DEF Next
-----------------------------------------------------------------------------
(* The queue.                                                               *)

LEMMA QueueAppend ==
  ASSUME NEW q \in Seq(Jobs), NEW j \in Jobs, \A i \in DOMAIN q : q[i] # j,
         \A i, k \in DOMAIN q : q[i] = q[k] => i = k,
         NEW r, r = Append(q, j)
  PROVE  /\ \A i \in DOMAIN r : r[i] = j \/ \E k \in DOMAIN q : r[i] = q[k]
         /\ \A i, k \in DOMAIN r : r[i] = r[k] => i = k
<1>1. /\ DOMAIN r = 1..(Len(q) + 1) /\ DOMAIN q = 1..Len(q) /\ Len(q) \in Nat
      /\ r[Len(q) + 1] = j /\ \A i \in 1..Len(q) : r[i] = q[i]
  OBVIOUS
<1>2. \A i \in DOMAIN r : r[i] = j \/ \E k \in DOMAIN q : r[i] = q[k]
  BY <1>1
<1>3. ASSUME NEW i \in DOMAIN r, NEW k \in DOMAIN r, r[i] = r[k] PROVE i = k
  <2>1. \A n \in DOMAIN q : q[n] # j /\ r[n] = q[n]
    BY <1>1
  <2>2. CASE i \in DOMAIN q /\ k \in DOMAIN q
    BY <1>3, <2>1, <2>2
  <2>3. CASE i \notin DOMAIN q \/ k \notin DOMAIN q
    BY <1>1, <1>3, <2>1, <2>3
  <2>4. QED
    BY <2>2, <2>3
<1>4. QED
  BY <1>2, <1>3

LEMMA QueueTail ==
  ASSUME NEW q \in Seq(Jobs), q # <<>>, \A i, k \in DOMAIN q : q[i] = q[k] => i = k
  PROVE  LET r == Tail(q) IN
         /\ Head(q) \in {q[i] : i \in DOMAIN q} /\ Head(q) \notin {r[i] : i \in DOMAIN r}
         /\ {r[i] : i \in DOMAIN r} \subseteq {q[i] : i \in DOMAIN q}
         /\ \A i, k \in DOMAIN r : r[i] = r[k] => i = k
<1> DEFINE r == Tail(q)
<1>1. /\ DOMAIN r = 1..(Len(q) - 1) /\ DOMAIN q = 1..Len(q) /\ Len(q) \in Nat /\ Len(q) > 0
      /\ Head(q) = q[1] /\ \A i \in 1..(Len(q) - 1) : r[i] = q[i + 1]
  OBVIOUS
<1> HIDE DEF r
<1>2. Head(q) \in {q[i] : i \in DOMAIN q}
  BY <1>1
<1>3. Head(q) \notin {r[i] : i \in DOMAIN r}
  <2>1. \A i \in DOMAIN r : i + 1 \in DOMAIN q /\ 1 \in DOMAIN q /\ i + 1 # 1 /\ r[i] = q[i + 1]
    BY <1>1
  <2>2. QED
    BY <1>1, <2>1
<1>4. {r[i] : i \in DOMAIN r} \subseteq {q[i] : i \in DOMAIN q}
  BY <1>1
<1>5. ASSUME NEW i \in DOMAIN r, NEW k \in DOMAIN r, r[i] = r[k] PROVE i = k
  <2>1. i + 1 \in DOMAIN q /\ k + 1 \in DOMAIN q /\ q[i + 1] = q[k + 1]
    BY <1>1, <1>5
  <2>2. QED
    BY <1>1, <2>1
<1>6. QED
  BY <1>2, <1>3, <1>4, <1>5 DEF r

-----------------------------------------------------------------------------
(* The worker.                                                              *)

LEMMA InvInit == Init => Inv
<1>1. Init => TypeOK
  BY TypeInit
<1>2. Init => OneTurn
  BY JobAssumption DEF Init, OneTurn, Queued
<1>3. Init => Agreement /\ Processes /\ CancelCalls /\ CompleteHasOutput /\ CancelWaitsForRunner
  BY DEF Init, Agreement, Processes, CancelCalls, CompleteHasOutput, CancelWaitsForRunner, Terminal
<1>4. QED
  BY <1>1, <1>2, <1>3 DEF Inv, Sound

\* The job the worker runs is active or cancelled, and its file agrees.
LEMMA Running ==
  ASSUME Inv, pc # "idle"
  PROVE  /\ run \in Jobs /\ mem[run] \in Active \cup {"cancelled"}
         /\ disk[run] \notin {"absent", "complete", "failed"}
         /\ disk[run] = "cancelled" => mem[run] = "cancelled"
  BY DEF Inv, TypeOK, Sound, OneTurn, Agreement, Terminal, Active

\* Steps that touch no record keep the turns and the agreement.
LEMMA QuietStep ==
  ASSUME Inv, UNCHANGED <<records, posting, queue>>, run' \in {run, None}, faults' = 0 => faults = 0
  PROVE  OneTurn' /\ Agreement'
  BY JobAssumption DEF Inv, Sound, OneTurn, Queued, Agreement, records, TypeOK

\* A conditional update by the worker.
LEMMA UpdateStep ==
  ASSUME Inv, pc \notin {"idle", "communicate", "invoked"}, UNCHANGED <<posting, queue, server, clients, cli, output>>,
         NEW s \in Active \cup Terminal, NEW next \in {"idle", "barrier", "check_native", "check_cli", "verify"},
         UpdateIfActive(s, next), s \in Terminal => next = "idle",
         s = "complete" => output[run] = "whole", next = "check_native" => ~Injected, TypeOK'
  PROVE  Inv'
<1> USE Running DEF Inv, TypeOK
<1>1. CASE UNCHANGED <<records, bounds>> /\ Idle
  <2>1. OneTurn' /\ Agreement'
    BY <1>1, QuietStep DEF Idle, bounds
  <2>2. Processes' /\ CancelCalls' /\ CompleteHasOutput' /\ CancelWaitsForRunner'
    BY <1>1, JobAssumption DEF Idle, records, server, clients, Sound, Processes, CancelCalls, CompleteHasOutput,
                CancelWaitsForRunner, Queued
  <2>3. QED
    BY <2>1, <2>2 DEF Sound
<1>2. CASE ~IsCancelled(run) /\ (Saved(run, s) \/ SaveFails(run, s)) /\ (Idle \/ (s \notin Terminal /\ Goto(next)))
  <2>1. /\ run \in Jobs /\ mem[run] \in Active /\ disk[run] \notin Terminal /\ disk[run] # "absent"
        /\ mem' = [mem EXCEPT ![run] = s]
        /\ \/ disk' = [disk EXCEPT ![run] = s] /\ UNCHANGED bounds
           \/ faults' # 0 /\ disk' \in {disk, [disk EXCEPT ![run] = "torn"]}
    BY <1>2 DEF IsCancelled, Saved, SaveFails, Fault, Terminal, Active
  <2>2. OneTurn'
    BY <1>2, <2>1, JobAssumption DEF Sound, OneTurn, Queued, Idle, Goto, Terminal, Active
  <2>3. Agreement'
    BY <2>1 DEF Sound, Agreement, bounds, Terminal
  <2>4. Processes'
    BY <1>2, <2>1, JobAssumption DEF Sound, Processes, Idle, Goto, Queued, Active, Terminal
  <2>5. CancelCalls'
    BY <1>2, <2>1 DEF Sound, CancelCalls, Idle, Goto, server, clients, Active, Terminal
  <2>6. CompleteHasOutput' /\ CancelWaitsForRunner'
    BY <2>1 DEF CompleteHasOutput, CancelWaitsForRunner, clients
  <2>7. QED
    BY <2>2, <2>3, <2>4, <2>5, <2>6 DEF Sound
<1>3. QED
  BY <1>1, <1>2 DEF UpdateIfActive

LEMMA UpdatesStep ==
  ASSUME Inv, TypeOK', Prepare \/ Barrier \/ Route \/ Returned \/ Verify \/ Complete PROVE Inv'
<1>1. pc \notin {"idle", "communicate", "invoked"} /\ UNCHANGED <<posting, queue, server, clients, cli, output>>
  BY DEF Prepare, Barrier, Route, Returned, Verify, Complete
<1> DEFINE U(s, next) == UpdateIfActive(s, next)
<1> HIDE DEF U
<1>2. \/ U("preparing", "barrier") \/ U("failed", "idle") \/ U("sampling", "check_cli") \/ U("decoding", "verify")
      \/ pc = "complete" /\ U("complete", "idle")
      \/ ~Injected /\ U("sampling", "check_native")
      \/ /\ UNCHANGED <<records, bounds>>
         /\ Goto("route") \/ (Goto("trace") /\ output[run] = "whole")
  <2>1. CASE Prepare \/ Barrier
    BY <2>1 DEF Prepare, Barrier, U
  <2>2. CASE Route \/ Returned
    BY <2>2 DEF Route, Returned, U
  <2>3. CASE Verify
    BY <2>3 DEF Verify, U
  <2>4. CASE Complete
    BY <2>4 DEF Complete, U
  <2>5. QED
    BY <2>1, <2>2, <2>3, <2>4
<1>3. CASE \/ U("preparing", "barrier") \/ U("failed", "idle") \/ U("sampling", "check_cli") \/ U("decoding", "verify")
  BY <1>1, <1>3, UpdateStep DEF U, Terminal, Active
<1>4. CASE pc = "complete" /\ U("complete", "idle")
  BY <1>1, <1>4, UpdateStep DEF U, Terminal, Active, Inv, Sound, Processes
<1>5. CASE ~Injected /\ U("sampling", "check_native")
  BY <1>1, <1>5, UpdateStep DEF U, Terminal, Active
<1>6. CASE UNCHANGED <<records, bounds>> /\ (Goto("route") \/ (Goto("trace") /\ output[run] = "whole"))
  <2>1. OneTurn' /\ Agreement'
    BY <1>1, <1>6, QuietStep DEF Goto, bounds
  <2>2. Processes' /\ CancelCalls' /\ CompleteHasOutput' /\ CancelWaitsForRunner'
    BY <1>1, <1>6 DEF Goto, records, server, clients, Inv, Sound, Processes, CancelCalls, CompleteHasOutput,
                      CancelWaitsForRunner, Queued
  <2>3. QED
    BY <2>1, <2>2 DEF Inv, Sound
<1>7. QED
  BY <1>2, <1>3, <1>4, <1>5, <1>6

LEMMA TakeStep == ASSUME Inv, TypeOK', Take PROVE Inv'
<1> USE DEF Inv, TypeOK, Sound
<1>1. /\ run' = Head(queue) /\ queue' = Tail(queue) /\ queue # <<>> /\ pc = "idle" /\ pc' = "prepare"
      /\ UNCHANGED <<mem, disk, posting, faults, output, cli, registered, ask, waiting, answered>>
  BY DEF Take, records, server, clients, bounds
<1>2. /\ run' \in Queued /\ run' \notin Queued' /\ Queued' \subseteq Queued
      /\ \A i, k \in DOMAIN queue' : queue'[i] = queue'[k] => i = k
  BY <1>1, QueueTail DEF OneTurn, Queued
<1>3. OneTurn' /\ Agreement'
  BY <1>1, <1>2 DEF OneTurn, Agreement
<1>4. Processes' /\ CancelCalls' /\ CompleteHasOutput' /\ CancelWaitsForRunner'
  BY <1>1, <1>2 DEF Processes, CancelCalls, CompleteHasOutput, CancelWaitsForRunner
<1>5. QED
  BY <1>3, <1>4

\* Steps of the worker that touch no record and end no process.
LEMMA PersistentStep == ASSUME Inv, TypeOK', Persistent \/ Check \/ Start \/ Trace PROVE Inv'
<1> USE Running DEF Inv, TypeOK, Sound
<1>1. OneTurn' /\ Agreement'
  BY QuietStep DEF Persistent, Ready, Post, RegisterNative, Poll, TellServer, GetStatus, Received, WriteOutput,
     Check, Start, Trace, Fault, Goto, Idle, bounds
<1>2. /\ UNCHANGED <<mem, disk, posting, queue, cli, ask, waiting, answered>>
      /\ pc \notin {"idle", "communicate", "invoked"}
  BY DEF Persistent, Ready, Post, RegisterNative, Poll, TellServer, GetStatus, Received, WriteOutput,
     Check, Start, Trace, records, clients
<1>3. /\ run' \in {run, None}
      /\ \/ output' = output /\ (pc' \in {"trace", "complete"} => pc = "trace" /\ run' = run)
         \/ /\ pc \in {"write", "meta"} /\ pc' \notin {"trace", "complete"}
            /\ \A j \in Jobs : j # run => output'[j] = output[j]
  BY DEF Persistent, Ready, Post, RegisterNative, Poll, TellServer, GetStatus, Received, WriteOutput,
     Check, Start, Trace, Goto, Idle
<1>4. Processes'
  BY <1>2, <1>3, JobAssumption DEF Processes, Queued
<1>5. CompleteHasOutput' /\ CancelWaitsForRunner'
  BY <1>2, <1>3 DEF CompleteHasOutput, CancelWaitsForRunner
<1>6. CancelCalls'
  BY <1>2 DEF CancelCalls, Persistent, Ready, Post, RegisterNative, Poll, TellServer, GetStatus, Received,
     WriteOutput, Check, Start, Trace, server, Goto, Idle
<1>7. QED
  BY <1>1, <1>4, <1>5, <1>6

LEMMA ProcessStep == ASSUME Inv, TypeOK', Spawn \/ Communicate \/ Invoke \/ RunnerReturns PROVE Inv'
<1> USE Running DEF Inv, TypeOK, Sound
<1>1. OneTurn' /\ Agreement'
  BY QuietStep DEF Spawn, Communicate, Invoke, RunnerReturns, Fault, Goto, Idle, bounds
<1>2. UNCHANGED <<mem, disk, posting, queue, ask, waiting, answered, registered>> /\ pc # "idle"
  BY DEF Spawn, Communicate, Invoke, RunnerReturns, records, clients, server
<1>3. Processes'
  <2>1. CASE Spawn \/ Communicate
    BY <1>2, <2>1, JobAssumption DEF Spawn, Communicate, Goto, Idle, Processes, Queued, OneTurn
  <2>2. CASE Invoke \/ RunnerReturns
    BY <1>2, <2>2, JobAssumption DEF Invoke, RunnerReturns, Goto, Idle, Processes, Queued, OneTurn, CancelCalls
  <2>3. QED
    BY <2>1, <2>2
<1>4. CancelCalls'
  BY <1>2 DEF Spawn, Communicate, Invoke, RunnerReturns, Goto, Idle, CancelCalls
<1>5. CompleteHasOutput'
  BY <1>2 DEF Spawn, Communicate, Invoke, RunnerReturns, CompleteHasOutput
<1>6. CancelWaitsForRunner'
  BY <1>2 DEF Spawn, Communicate, Invoke, RunnerReturns, CancelWaitsForRunner, CancelCalls, IsCancelled, Active
<1>7. QED
  BY <1>1, <1>3, <1>4, <1>5, <1>6

-----------------------------------------------------------------------------
(* The clients, the other processes and the end of the service.             *)

LEMMA SubmitStep == ASSUME Inv, TypeOK', NEW j \in Jobs, Submit(j) PROVE Inv'
<1> USE DEF Inv, TypeOK, Sound
<1>1. /\ mem[j] = "none" /\ disk[j] = "absent" /\ j \notin answered
      /\ mem' = [mem EXCEPT ![j] = "queued"]
      /\ \/ disk' = [disk EXCEPT ![j] = "queued"] /\ posting' = posting \cup {j} /\ faults' = faults
         \/ faults' # 0 /\ disk' \in {disk, [disk EXCEPT ![j] = "torn"]} /\ posting' = posting
      /\ UNCHANGED <<queue, run, pc, registered, ask, waiting, answered, cli, output>>
  BY DEF Submit, Saved, SaveFails, Fault, worker, server, clients, bounds
<1>2. j \notin posting \cup Queued \cup {run} /\ j \notin ask \cup waiting
  BY <1>1 DEF OneTurn, CancelCalls, Active
<1>3. OneTurn'
  BY <1>1, <1>2 DEF OneTurn, Queued, Active
<1>4. Agreement'
  BY <1>1 DEF Agreement, Terminal
<1>5. Processes'
  BY <1>1, <1>2 DEF Processes, Queued
<1>6. CancelCalls'
  BY <1>1, <1>2 DEF CancelCalls
<1>7. CompleteHasOutput' /\ CancelWaitsForRunner'
  BY <1>1 DEF CompleteHasOutput, CancelWaitsForRunner
<1>8. QED
  BY <1>3, <1>4, <1>5, <1>6, <1>7

LEMMA EnqueueStep == ASSUME Inv, TypeOK', NEW j \in Jobs, Enqueue(j) PROVE Inv'
<1> USE DEF Inv, TypeOK, Sound
<1>1. /\ j \in posting /\ posting' = posting \ {j} /\ queue' = Append(queue, j) /\ j \notin Queued
      /\ UNCHANGED <<mem, disk, faults, run, pc, registered, ask, waiting, answered, cli, output>>
  BY DEF Enqueue, records, worker, server, clients, bounds, OneTurn
<1>2. /\ Queued' \subseteq Queued \cup {j}
      /\ \A i, k \in DOMAIN queue' : queue'[i] = queue'[k] => i = k
  <2>1. queue \in Seq(Jobs) /\ \A i \in DOMAIN queue : queue[i] # j
    BY <1>1 DEF Queued
  <2>2. \A i, k \in DOMAIN queue : queue[i] = queue[k] => i = k
    BY DEF OneTurn
  <2>3. j \in Jobs /\ queue' = Append(queue, j)
    BY <1>1
  <2>4. /\ \A i \in DOMAIN queue' : queue'[i] = j \/ \E k \in DOMAIN queue : queue'[i] = queue[k]
        /\ \A i, k \in DOMAIN queue' : queue'[i] = queue'[k] => i = k
    BY <2>1, <2>2, <2>3, QueueAppend
  <2>5. QED
    BY <2>4 DEF Queued
<1>3. OneTurn' /\ Agreement'
  BY <1>1, <1>2 DEF OneTurn, Agreement
<1>4. Processes' /\ CancelCalls' /\ CompleteHasOutput' /\ CancelWaitsForRunner'
  BY <1>1, <1>2 DEF Processes, CancelCalls, CompleteHasOutput, CancelWaitsForRunner
<1>5. QED
  BY <1>3, <1>4

\* The three branches of cancel: decided, cancelled before, cancelled now.
LEMMA CancelStep == ASSUME Inv, TypeOK', NEW j \in Jobs, Cancel(j) PROVE Inv'
<1> USE DEF Inv, TypeOK, Sound
<1> DEFINE state == IF mem[j] # "none" THEN mem[j] ELSE disk[j]
<1>1. UNCHANGED <<posting, queue, run, pc, registered>>
  BY DEF Cancel, worker, server
<1>2. CASE /\ state \in {"complete", "failed"} /\ mem' = [mem EXCEPT ![j] = state]
           /\ UNCHANGED <<disk, ask, waiting, answered, cli, output, bounds>>
  <2>1. /\ j \notin posting \cup Queued \cup {run} /\ j \notin ask \cup waiting \cup answered
        /\ disk[j] \in Terminal \/ faults = 0 => disk[j] = state
    BY <1>2 DEF OneTurn, CancelCalls, Agreement, Active, Terminal
  <2>2. OneTurn' /\ Agreement'
    BY <1>1, <1>2, <2>1 DEF OneTurn, Queued, Agreement, bounds
  <2>3. Processes' /\ CancelCalls' /\ CompleteHasOutput' /\ CancelWaitsForRunner'
    BY <1>1, <1>2, <2>1 DEF Processes, Queued, CancelCalls, CompleteHasOutput, CancelWaitsForRunner
  <2>4. QED
    BY <2>2, <2>3
<1>3. CASE state = "cancelled" /\ mem' = [mem EXCEPT ![j] = state] /\ FollowUp(j)
           /\ UNCHANGED <<disk, cli, output, bounds>>
  <2>1. disk[j] \notin {"complete", "failed"} /\ (disk[j] \in Terminal \/ faults = 0 => disk[j] = state)
    BY <1>3 DEF Agreement, Terminal
  <2>2. OneTurn' /\ Agreement'
    BY <1>1, <1>3, <2>1 DEF OneTurn, Queued, Agreement, bounds
  <2>3. Processes' /\ CompleteHasOutput'
    BY <1>1, <1>3 DEF Processes, Queued, CompleteHasOutput
  <2>4. CancelCalls' /\ CancelWaitsForRunner'
    BY <1>1, <1>3, <2>1 DEF CancelCalls, CancelWaitsForRunner, FollowUp, Processes
  <2>5. QED
    BY <2>2, <2>3, <2>4
<1>4. CASE /\ state \in Active
           /\ \/ Saved(j, "cancelled") /\ FollowUp(j)
              \/ SaveFails(j, "cancelled") /\ UNCHANGED <<ask, waiting, answered>>
           /\ \/ /\ run = j /\ cli[j] = "running"
                 /\ cli' = [cli EXCEPT ![j] = "killed"]
                 /\ output' \in {output, [output EXCEPT ![j] = "image"]}
              \/ ~(run = j /\ cli[j] = "running") /\ UNCHANGED <<cli, output>>
  <2>1. disk[j] \notin Terminal /\ j \notin ask \cup waiting
    BY <1>4 DEF Agreement, CancelCalls, Active, Terminal
  <2>2. /\ mem' = [mem EXCEPT ![j] = "cancelled"]
        /\ \/ disk' = [disk EXCEPT ![j] = "cancelled"] /\ faults' = faults /\ FollowUp(j)
           \/ /\ faults' # 0 /\ disk' \in {disk, [disk EXCEPT ![j] = "torn"]}
              /\ UNCHANGED <<ask, waiting, answered>>
    BY <1>4 DEF Saved, SaveFails, Fault, bounds
  <2>3. /\ \A k \in Jobs : cli'[k] = cli[k] \/ cli'[k] = "killed"
        /\ \A k \in Jobs : output'[k] = output[k] \/ (k = j /\ run = j /\ cli[j] = "running")
    BY <1>4
  <2>4. OneTurn'
    BY <1>1, <2>2 DEF OneTurn, Queued
  <2>5. Agreement'
    BY <2>1, <2>2 DEF Agreement, Terminal
  <2>6. Processes'
    BY <1>1, <2>1, <2>2, <2>3 DEF Processes, Queued, Terminal
  <2>7. CompleteHasOutput'
    BY <2>1, <2>2, <2>3 DEF CompleteHasOutput, Terminal
  <2>8. CancelCalls'
    BY <1>1, <2>1, <2>2 DEF CancelCalls, FollowUp, Terminal
  <2>9. CancelWaitsForRunner'
    BY <2>2, <2>3 DEF CancelWaitsForRunner, FollowUp, Processes, CancelCalls
  <2>10. QED
    BY <2>4, <2>5, <2>6, <2>7, <2>8, <2>9
<1>5. QED
  BY <1>2, <1>3, <1>4 DEF Cancel

LEMMA CallsStep ==
  ASSUME Inv, TypeOK', NEW j \in Jobs, Observe(j) \/ Forward(j) \/ RunnerGone(j) \/ NativeEnds(j)
  PROVE  Inv'
<1> USE DEF Inv, TypeOK, Sound
<1>1. /\ UNCHANGED <<mem, disk, posting, queue, run, pc, registered, cli, output, faults>>
      /\ ask' \subseteq ask /\ waiting' \subseteq waiting /\ answered \subseteq answered'
      /\ \A k \in answered' \ answered : k \in ask \cup waiting /\ cli[k] # "invoked"
  BY DEF Observe, Forward, RunnerGone, NativeEnds, AskServer, records, worker, server, clients, bounds,
         Processes, CancelCalls
<1>2. OneTurn' /\ Agreement' /\ Processes' /\ CompleteHasOutput'
  BY <1>1 DEF OneTurn, Queued, Agreement, Processes, CompleteHasOutput
<1>3. \A k \in ask \cup waiting : disk[k] \notin {"complete", "failed"}
  BY DEF CancelCalls, Agreement, Terminal
<1>4. CancelCalls' /\ CancelWaitsForRunner'
  BY <1>1, <1>3 DEF CancelCalls, CancelWaitsForRunner
<1>5. QED
  BY <1>2, <1>4

LEMMA CliEndsStep == ASSUME Inv, TypeOK', NEW j \in Jobs, CliEnds(j) PROVE Inv'
<1> USE DEF Inv, TypeOK, Sound
<1>1. /\ UNCHANGED <<mem, disk, posting, queue, run, pc, registered, faults, ask, waiting, answered>>
      /\ cli[j] = "running" /\ cli' \in {[cli EXCEPT ![j] = "done"], [cli EXCEPT ![j] = "failed"]}
      /\ \A k \in Jobs \ {j} : output'[k] = output[k]
  BY DEF CliEnds, records, worker, server, clients, bounds
<1>2. OneTurn' /\ Agreement' /\ CancelCalls'
  BY <1>1 DEF OneTurn, Queued, Agreement, CancelCalls
<1>3. Processes' /\ CompleteHasOutput' /\ CancelWaitsForRunner'
  BY <1>1, Running DEF Processes, Queued, CompleteHasOutput, CancelWaitsForRunner
<1>4. QED
  BY <1>2, <1>3

LEMMA CrashStep == ASSUME Inv, TypeOK', Crash PROVE Inv'
<1> USE DEF Inv, TypeOK, Sound
<1>1. /\ mem' = [k \in Jobs |-> "none"] /\ posting' = {} /\ queue' = <<>> /\ run' = None /\ pc' = "idle"
      /\ registered' = {} /\ ask' = {} /\ waiting' = {} /\ UNCHANGED <<answered, output>>
      /\ cli' = [k \in Jobs |-> IF cli[k] = "invoked" THEN "failed" ELSE cli[k]]
      /\ \A k \in Jobs : disk'[k] = disk[k] \/ disk'[k] = "torn"
  BY DEF Crash, Idle
<1>2. OneTurn' /\ Agreement'
  BY <1>1, JobAssumption DEF OneTurn, Queued, Agreement
<1>3. Processes' /\ CancelCalls' /\ CompleteHasOutput' /\ CancelWaitsForRunner'
  BY <1>1, JobAssumption DEF Processes, Queued, CancelCalls, CompleteHasOutput, CancelWaitsForRunner
<1>4. QED
  BY <1>2, <1>3

LEMMA InvStep == Inv /\ [Next]_vars => Inv'
<1> SUFFICES ASSUME Inv, [Next]_vars PROVE Inv'
  OBVIOUS
<1>1. TypeOK'
  BY TypeStep DEF Inv
<1>2. CASE UNCHANGED vars
  BY <1>2 DEF vars, records, worker, server, clients, bounds, Inv, TypeOK, Sound, OneTurn, Queued, Agreement,
              Processes, CancelCalls, CompleteHasOutput, CancelWaitsForRunner
<1>3. CASE Client
  BY <1>1, <1>3, SubmitStep, CallsStep, CancelStep, JobAssumption DEF Client
<1>4. CASE \E j \in Jobs : Pending(j) \/ NativeEnds(j) \/ CliEnds(j)
  BY <1>1, <1>4, EnqueueStep, CallsStep, CliEndsStep DEF Pending
<1>5. CASE Worker
  BY <1>1, <1>5, UpdatesStep, TakeStep, PersistentStep, ProcessStep DEF Worker, Process
<1>6. CASE Crash
  BY <1>1, <1>6, CrashStep
<1>7. QED
  BY <1>2, <1>3, <1>4, <1>5, <1>6 DEF Next

\* The inductive invariant: one turn per job, file and memory agree on every
\* outcome, processes belong to the running job, cancel calls to cancelled ones.
THEOREM InvAlways == Spec => []Inv
<1>1. QED
  BY InvInit, InvStep, PTL DEF Spec

\* Every variable keeps its type, and the worker has a job exactly when busy.
THEOREM TypeCorrect == Spec => []TypeOK
<1>1. Inv => TypeOK
  BY DEF Inv
<1>2. QED
  BY <1>1, InvAlways, PTL

\* A job is complete in its file only when image and metadata are there.
THEOREM CompleteIsWhole == Spec => []CompleteHasOutput
<1>1. Inv => CompleteHasOutput
  BY DEF Inv
<1>2. QED
  BY <1>1, InvAlways, PTL

\* A cancel call has not answered while the runner of its job is at work.
THEOREM CancelsWait == Spec => []CancelWaitsForRunner
<1>1. Inv => CancelWaitsForRunner
  BY DEF Inv
<1>2. QED
  BY <1>1, InvAlways, PTL

-----------------------------------------------------------------------------
(* What a step may never do.                                                *)

LEMMA DecidedStep == Inv /\ [Next]_vars => [\A j \in Jobs : disk[j] \in Terminal => disk'[j] = disk[j]]_vars
<1> SUFFICES ASSUME Inv, [Next]_vars, NEW j \in Jobs, disk[j] \in Terminal PROVE disk'[j] = disk[j]
  OBVIOUS
<1> USE DEF Inv, TypeOK
<1>1. CASE disk' = disk
  BY <1>1
<1>2. ASSUME NEW k \in Jobs, Submit(k) PROVE disk'[j] = disk[j]
  BY <1>2 DEF Submit, Saved, SaveFails, Terminal
<1>3. ASSUME NEW k \in Jobs, Cancel(k) PROVE disk'[j] = disk[j]
  <2>1. CASE mem[k] = "cancelled" \/ (mem[k] = "none" /\ disk[k] = "cancelled")
    BY <1>3, <2>1 DEF Cancel, Active
  <2>2. CASE j = k /\ ~(mem[k] = "cancelled" \/ (mem[k] = "none" /\ disk[k] = "cancelled"))
    <3>1. mem[k] = "none" \/ mem[k] = disk[k]
      BY <2>2 DEF Sound, Agreement
    <3>2. QED
      BY <1>3, <2>2, <3>1 DEF Cancel, Active, Terminal
  <2>3. CASE j # k
    BY <1>3, <2>3 DEF Cancel, Saved, SaveFails
  <2>4. QED
    BY <2>1, <2>2, <2>3
<1>4. CASE Prepare \/ Barrier \/ Route \/ Returned \/ Verify \/ Complete
  <2>1. pc # "idle"
    BY <1>4 DEF Prepare, Barrier, Route, Returned, Verify, Complete
  <2>2. j # run \/ IsCancelled(run)
    BY <2>1, Running DEF IsCancelled, Terminal
  <2>3. disk' = disk \/ \E s \in Active \cup Terminal :
          ~IsCancelled(run) /\ disk' \in {disk, [disk EXCEPT ![run] = s], [disk EXCEPT ![run] = "torn"]}
    BY <1>4 DEF Prepare, Barrier, Route, Returned, Verify, Complete, UpdateIfActive, Saved, SaveFails,
                records, Active, Terminal
  <2>4. QED
    BY <2>1, <2>2, <2>3, Running
<1>5. CASE Crash
  BY <1>5 DEF Crash, Active, Terminal
<1>6. CASE UNCHANGED vars \/ \E k \in Jobs : Pending(k) \/ NativeEnds(k) \/ CliEnds(k) \/ Observe(k)
  BY <1>1, <1>6 DEF vars, Pending, Enqueue, Forward, RunnerGone, NativeEnds, CliEnds, Observe, records
<1>7. CASE Take \/ Check \/ Persistent \/ Process \/ Trace
  BY <1>1, <1>7 DEF Take, Check, Persistent, Process, Trace, Ready, Post, RegisterNative, Poll, TellServer,
     GetStatus, Received, WriteOutput, Start, Spawn, Communicate, Invoke, RunnerReturns, records
<1>8. QED
  BY <1>2, <1>3, <1>4, <1>5, <1>6, <1>7, JobAssumption DEF Next, Client, Worker

\* An outcome in the file of a job is never replaced: not by a late result, a
\* cancel, a failed write or a restart.
THEOREM OutcomesAreFinal == Spec => OutcomeIsFinal
<1>1. QED
  BY DecidedStep, InvAlways, PTL DEF Spec, OutcomeIsFinal

LEMMA StartStep ==
  Inv /\ [Next]_vars
    => [\A j \in Jobs : cli'[j] \in {"running", "invoked"} /\ cli[j] # cli'[j] => ~IsCancelled(j)]_vars
<1> SUFFICES ASSUME Inv, [Next]_vars, NEW j \in Jobs, cli'[j] \in {"running", "invoked"}, cli[j] # cli'[j]
             PROVE  ~IsCancelled(j)
  OBVIOUS
<1> USE DEF Inv, TypeOK
<1>1. cli' # cli
  OBVIOUS
<1>2. CASE Spawn \/ Invoke
  BY <1>2, Running DEF Spawn, Invoke
<1>3. CASE Client
  BY <1>1, <1>3, JobAssumption DEF Client, Submit, Observe, Cancel
<1>4. CASE UNCHANGED vars \/ Crash \/ \E k \in Jobs : Pending(k) \/ NativeEnds(k) \/ CliEnds(k)
  BY <1>1, <1>4 DEF vars, Pending, Enqueue, Forward, RunnerGone, NativeEnds, CliEnds, Crash
<1>5. CASE Take \/ Prepare \/ Barrier \/ Route \/ Returned \/ Verify \/ Complete \/ Check \/ Trace
  BY <1>1, <1>5 DEF Take, Prepare, Barrier, Route, Returned, Verify, Complete, Check, Trace
<1>6. CASE Persistent
  BY <1>1, <1>6 DEF Persistent, Ready, Post, RegisterNative, Poll, TellServer, GetStatus, Received, WriteOutput
<1>7. CASE Start \/ Communicate \/ RunnerReturns
  BY <1>1, <1>7 DEF Start, Communicate, RunnerReturns
<1>8. QED
  BY <1>2, <1>3, <1>4, <1>5, <1>6, <1>7 DEF Next, Worker, Process

\* No process and no runner is started for a job that is already cancelled.
THEOREM CancelledNeverStarts == Spec => NoStartAfterCancel
<1>1. QED
  BY StartStep, InvAlways, PTL DEF Spec, NoStartAfterCancel

LEMMA ToldStep == Inv /\ ToldIsDurable /\ [Next]_vars => ToldIsDurable'
<1> SUFFICES ASSUME Inv, ToldIsDurable, [Next]_vars, faults' = 0, NEW j \in Jobs, told'[j] # "none"
             PROVE  disk'[j] = told'[j]
  BY DEF ToldIsDurable
<1> USE DEF Inv, TypeOK
<1>1. faults = 0
  <2>1. faults' = faults \/ faults' = faults + 1
    BY DEF Next, vars, Client, Submit, Observe, Cancel, Pending, Enqueue, Forward, RunnerGone, NativeEnds, CliEnds,
       Crash, Worker, Take, Prepare, Barrier, Route, Returned, Verify, Complete, Check, Trace, Persistent, Ready,
       Post, RegisterNative, Poll, TellServer, GetStatus, Received, WriteOutput, Process, Start, Spawn,
       Communicate, Invoke, RunnerReturns, UpdateIfActive, Saved, SaveFails, Fault, bounds
  <2>2. QED
    BY <2>1
<1>2. CASE told'[j] = told[j]
  <2>1. disk[j] = told[j] /\ disk[j] \in Terminal
    BY <1>1, <1>2 DEF ToldIsDurable
  <2>2. disk'[j] = disk[j]
    BY <2>1, DecidedStep DEF vars, records
  <2>3. QED
    BY <1>2, <2>1, <2>2
<1>3. CASE told'[j] # told[j]
  <2>1. Observe(j)
    BY <1>3, JobAssumption DEF Next, vars, clients, Client, Submit, Observe, Cancel, Pending, Enqueue, Forward,
       RunnerGone, NativeEnds, CliEnds, Crash, Worker, Take, Prepare, Barrier, Route, Returned, Verify, Complete,
       Check, Trace, Persistent, Ready, Post, RegisterNative, Poll, TellServer, GetStatus, Received, WriteOutput,
       Process, Start, Spawn, Communicate, Invoke, RunnerReturns
  <2>2. QED
    BY <1>1, <2>1 DEF Observe, Sound, Agreement, records
<1>4. QED
  BY <1>2, <1>3

\* As long as every record could be written, what a client was told about a
\* job is in its file, before and after restarts.
THEOREM WhatIsToldStays == Spec => []ToldIsDurable
<1>1. Init => ToldIsDurable
  BY DEF Init, ToldIsDurable
<1>2. QED
  BY <1>1, ToldStep, InvAlways, PTL DEF Spec
=============================================================================
