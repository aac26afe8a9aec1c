---------------------------- MODULE GpuLaneProofs ----------------------------
(***************************************************************************)
(* The safety properties of GpuLane, for any number of children, servers,  *)
(* tasks, failed calls and exits of the service.                           *)
(***************************************************************************)
EXTENDS GpuLane, TLAPS

-----------------------------------------------------------------------------
(* Types.                                                                   *)

\* A child at work has the request in its pipe, a task of the lane has a number.
Busy == \A c \in Children : life[c] \in {"working", "rendering"} => stdin[c] # <<>>
Numbered == at # "idle" => task \in Tasks

TypeInv == TypeOK /\ Busy /\ Numbered

LEMMA RequestType ==
  ASSUME task \in Tasks, attempt \in 0..1
  PROVE  Request \in Requests /\ Request.task = task /\ Request.attempt = attempt
  BY DEF Request, Requests

LEMMA AnswerType ==
  ASSUME NEW k \in {"ok", "failed", "restart"}, NEW r \in Requests
  PROVE  Answer(k, r) \in Answers /\ Answer(k, r).request = r /\ Answer(k, r).kind = k /\ Answer(k, r) # Hello
  BY DEF Answer, Answers, Hello

LEMMA ReplyType ==
  ASSUME TypeOK, NEW c \in Children, stdin[c] # <<>>, NEW k \in {"ok", "failed", "restart"}, Reply(c, k)
  PROVE  stdout' \in [Children -> Seq(Answers \cup {Hello})]
<1>1. Head(stdin[c]) \in Requests
  BY DEF TypeOK, WorkerTypeOK
<1>2. Answer(k, Head(stdin[c])) \in Answers
  BY <1>1, AnswerType
<1> HIDE DEF Reply
<1>3. Append(stdout[c], Answer(k, Head(stdin[c]))) \in Seq(Answers \cup {Hello})
  BY <1>2 DEF TypeOK, WorkerTypeOK
<1>4. QED
  BY <1>3 DEF Reply, TypeOK, WorkerTypeOK

\* A line is put into or taken out of a pipe.
LEMMA RequestPut ==
  ASSUME TypeOK, NEW c, NEW r \in Requests, stdin' = [stdin EXCEPT ![c] = Append(@, r)]
  PROVE  stdin' \in [Children -> Seq(Requests)] /\ \A d \in Children : stdin[d] # <<>> => stdin'[d] # <<>>
<1>1. ASSUME NEW q \in Seq(Requests) PROVE Append(q, r) \in Seq(Requests) /\ Append(q, r) # <<>>
  <2>1. Len(Append(q, r)) = Len(q) + 1 /\ Len(q) \in Nat
    OBVIOUS
  <2>2. QED
    BY <2>1
<1>2. stdin \in [Children -> Seq(Requests)]
  BY DEF TypeOK, WorkerTypeOK
<1>3. QED
  BY <1>1, <1>2

LEMMA AnswerTaken ==
  ASSUME TypeOK, NEW c, stdout[c] # <<>>, stdout' = [stdout EXCEPT ![c] = Tail(@)]
  PROVE  stdout' \in [Children -> Seq(Answers \cup {Hello})]
<1>1. stdout \in [Children -> Seq(Answers \cup {Hello})]
  BY DEF TypeOK, WorkerTypeOK
<1>2. ASSUME c \in Children PROVE Tail(stdout[c]) \in Seq(Answers \cup {Hello})
  BY <1>1, <1>2
<1>3. QED
  BY <1>1, <1>2

LEMMA TypeInit == Init => TypeInv
<1> SUFFICES ASSUME Init PROVE TypeInv
  OBVIOUS
<1> USE DEF Init, InitWorker
<1>1. stdin \in [Children -> Seq(Requests)] /\ stdout \in [Children -> Seq(Answers \cup {Hello})]
  OBVIOUS
<1>2. rendered \in [Tasks -> Nat] /\ accepted \in [Tasks -> 0..MaxTasks]
  BY LaneAssumption
<1>3. task \in 0..MaxTasks /\ faults \in 0..MaxFaults /\ attempt \in 0..1 /\ crashes \in 0..MaxCrashes
  BY LaneAssumption
<1>4. life \in [Children -> {"unused", "starting", "waiting", "working", "rendering", "dying", "gone"}]
  OBVIOUS
<1>5. WorkerTypeOK
  BY <1>1, <1>2, <1>3, <1>4 DEF WorkerTypeOK
<1>6. sd \in [Servers -> {"unused", "loading", "serving", "hung", "dying", "dead", "foreign"}]
  OBVIOUS
<1>7. TypeOK
  BY <1>3, <1>5, <1>6 DEF TypeOK
<1>8. QED
  BY <1>7 DEF TypeInv, Busy, Numbered

\* A release, whether it succeeds or not.
LEMMA ReleaseTypes ==
  ASSUME TypeInv, Released \/ ReleaseRaises
  PROVE  /\ life' \in [Children -> {"unused", "starting", "waiting", "working", "rendering", "dying", "gone"}]
         /\ loaded' \in SUBSET Children
         /\ proc' \in Children \cup {None} /\ confirmed' \in BOOLEAN /\ faults' \in 0..MaxFaults
         /\ \A c \in Children : life'[c] \in {"working", "rendering"} => life'[c] = life[c]
<1>0. WorkerTypeOK
  BY DEF TypeInv, TypeOK
<1> USE <1>0, LaneAssumption DEF WorkerTypeOK
<1>1. CASE Released
  <2>1. CASE proc = None
    BY <1>1, <2>1 DEF Released
  <2>2. CASE proc \in Children
    BY <1>1, <2>2 DEF Released, Exit
  <2>3. QED
    BY <2>1, <2>2
<1>2. CASE ReleaseRaises
  BY <1>2 DEF ReleaseRaises, Alive, Fault
<1>3. QED
  BY <1>1, <1>2

\* What a step of the lane leaves to the worker.
LEMMA WorkerStays ==
  ASSUME TypeInv, UNCHANGED <<children, slot, operation, ledger, faults>>, task' \in 0..MaxTasks, cancelled' \in BOOLEAN
  PROVE  WorkerTypeOK' /\ Busy'
  BY DEF TypeInv, TypeOK, WorkerTypeOK, Busy, children, pipes, slot, operation, ledger

LEMMA WorkerReleases ==
  ASSUME TypeInv, Released \/ ReleaseRaises, client' \in {"none", "open", "closed"}, UNCHANGED <<pipes, ledger>>,
         step' \in {"none", "start", "hello", "write", "wait", "restart", "abort", "done"},
         attempt' \in 0..1, using' \in Children \cup {None}, UNCHANGED <<task, cancelled>>
  PROVE  WorkerTypeOK' /\ Busy'
  BY ReleaseTypes DEF TypeInv, TypeOK, WorkerTypeOK, Busy, pipes, ledger

LEMMA OperationTypes ==
  ASSUME TypeInv, task \in Tasks, Operation \/ Interrupted
  PROVE  WorkerTypeOK' /\ Busy' /\ UNCHANGED task
<1> USE DEF TypeInv, TypeOK, WorkerTypeOK
<1>1. CASE Interrupted
  BY <1>1 DEF Interrupted, Fails, children, pipes, slot, ledger, Busy
<1>2. CASE Start
  BY <1>2, LaneAssumption DEF Start, Fails, children, pipes, slot, ledger, Alive, Busy
<1>3. CASE ConfirmOwnership
  <2>1. stdout' \in [Children -> Seq(Answers \cup {Hello})]
    BY <1>3, AnswerTaken DEF ConfirmOwnership
  <2>2. QED
    BY <1>3, <2>1 DEF ConfirmOwnership, Fails, ledger, Busy
<1>4. CASE WriteRequest
  <2>1. CASE UNCHANGED stdin
    BY <1>4, <2>1 DEF WriteRequest, Fails, slot, ledger, Busy
  <2>2. CASE stdin' = [stdin EXCEPT ![using] = Append(@, Request)]
    <3>1. Request \in Requests
      BY RequestType
    <3>2. stdin' \in [Children -> Seq(Requests)] /\ \A c \in Children : stdin[c] # <<>> => stdin'[c] # <<>>
      BY <2>2, <3>1, RequestPut
    <3>3. QED
      BY <1>4, <3>2 DEF WriteRequest, Fails, slot, ledger, Busy
  <2>3. QED
    BY <1>4, <2>1, <2>2 DEF WriteRequest
<1>5. CASE ReadAnswer
  <2>1. stdout' \in [Children -> Seq(Answers \cup {Hello})]
    BY <1>5, AnswerTaken DEF ReadAnswer
  <2>2. accepted' \in [Tasks -> 0..MaxTasks]
    <3>1. CASE UNCHANGED accepted
      BY <3>1
    <3>2. CASE /\ Head(stdout[using]) = Answer("ok", Request)
               /\ accepted' = [accepted EXCEPT ![task] = Head(stdout[using]).request.task]
      <4>1. accepted' = [accepted EXCEPT ![task] = task]
        <5>1. Request \in Requests /\ Request.task = task
          BY RequestType
        <5>2. Answer("ok", Request).request = Request
          BY <5>1, AnswerType
        <5>3. QED
          BY <3>2, <5>1, <5>2
      <4>2. QED
        BY <4>1
    <3>3. QED
      BY <1>5, <3>1, <3>2 DEF ReadAnswer
  <2>3. QED
    BY <1>5, <2>1, <2>2 DEF ReadAnswer, Fails, slot, ledger, Busy
<1>6. CASE Restart
  <2>1. /\ Released \/ ReleaseRaises
        /\ UNCHANGED <<pipes, ledger, client, task, cancelled>> /\ step' \in {"start", "abort"}
        /\ attempt' \in 0..1 /\ UNCHANGED using
    BY <1>6 DEF Restart, Fails
  <2>2. QED
    BY <2>1, WorkerReleases
<1>7. CASE Abort
  BY <1>7, WorkerReleases DEF Abort
<1>8. QED
  BY <1>1, <1>2, <1>3, <1>4, <1>5, <1>6, <1>7 DEF Operation

LEMMA ChildTypes ==
  ASSUME TypeInv, NEW c \in Children, Child(c)
  PROVE  WorkerTypeOK' /\ Busy' /\ UNCHANGED task
<1> USE DEF TypeInv, TypeOK, WorkerTypeOK, ChildOnly, slot, operation
<1>1. CASE SayHello(c)
  <2>1. stdout' \in [Children -> Seq(Answers \cup {Hello})]
    BY <1>1 DEF SayHello
  <2>2. QED
    BY <1>1, <2>1 DEF SayHello, Keep, Busy
<1>2. CASE IdleExit(c) \/ Vanish(c) \/ Receive(c)
  BY <1>2 DEF IdleExit, Vanish, Receive, Keep, Exit, pipes, Busy
<1>3. CASE RefuseSession(c) \/ BatchFails(c)
  <2>1. stdout' \in [Children -> Seq(Answers \cup {Hello})]
    BY <1>3, ReplyType DEF RefuseSession, BatchFails, Busy
  <2>2. QED
    BY <1>3, <2>1 DEF RefuseSession, BatchFails, Exit, Busy
<1>4. CASE Render(c)
  <2>1. rendered' \in [Tasks -> Nat]
    <3>1. Head(stdin[c]) \in Requests
      BY <1>4 DEF Render, Busy
    <3>2. Head(stdin[c]).task \in Tasks
      BY <3>1 DEF Requests
    <3>3. QED
      BY <1>4, <3>2 DEF Render
  <2>2. QED
    BY <1>4, <2>1 DEF Render, pipes, Busy
<1>5. CASE BatchDone(c)
  <2>1. stdout' \in [Children -> Seq(Answers \cup {Hello})]
    BY <1>5, ReplyType DEF BatchDone, Busy
  <2>2. stdin' \in [Children -> Seq(Requests)] /\ \A d \in Children : d # c => stdin'[d] = stdin[d]
    BY <1>5 DEF BatchDone, Busy
  <2>3. QED
    BY <1>5, <2>1, <2>2 DEF BatchDone, Keep, Busy
<1>6. QED
  BY <1>1, <1>2, <1>3, <1>4, <1>5 DEF Child

LEMMA LaneTypes ==
  ASSUME TypeInv, Native \/ Identity \/ Take
  PROVE  TypeInv'
<1> USE DEF native, lane, Goto, Idle, OnlyLane, WarmUnchanged
<1>1. ASSUME UNCHANGED <<children, slot, operation, ledger, faults>>, task' \in 0..MaxTasks, cancelled' \in BOOLEAN
      PROVE  WorkerTypeOK' /\ Busy'
  BY <1>1, WorkerStays
<1>2. CASE Take
  <2>1. task' \in 1..MaxTasks /\ cancelled' \in BOOLEAN
    <3>1. task \in 0..MaxTasks /\ task < MaxTasks /\ task' = task + 1
      BY <1>2 DEF Take, TypeInv, TypeOK, WorkerTypeOK
    <3>2. cancelled' \in BOOLEAN
      BY <1>2 DEF Take
    <3>3. QED
      BY <3>1, <3>2, LaneAssumption
  <2>2. WorkerTypeOK' /\ Busy'
    BY <1>1, <1>2, <2>1 DEF Take
  <2>3. QED
    BY <1>2, <2>1, <2>2 DEF Take, TypeInv, TypeOK, Numbered, Tasks
<1>3. CASE Barrier \/ Clear
  <2>1. WorkerTypeOK' /\ Busy' /\ UNCHANGED task
    BY <1>3, WorkerReleases DEF Barrier, Clear, WarmReleased, WarmReleaseRaises, TypeInv, TypeOK, WorkerTypeOK, operation
  <2>2. QED
    BY <1>3, <2>1 DEF Barrier, Clear, TypeInv, TypeOK, Numbered
<1>4. CASE Probe \/ Starting \/ Generate \/ Spawn \/ CliEnds
  <2>1. UNCHANGED workerVars
    BY <1>4 DEF Probe, Starting, Generate, Spawn, CliEnds
  <2>2. WorkerTypeOK' /\ Busy'
    BY <1>1, <2>1 DEF workerVars, TypeInv, TypeOK, WorkerTypeOK
  <2>3. sd' \in [Servers -> {"unused", "loading", "serving", "hung", "dying", "dead", "foreign"}]
    BY <1>4 DEF Probe, Starting, Generate, Spawn, CliEnds, TypeInv, TypeOK
  <2>4. QED
    <3>1. held' \in Servers \cup {None} /\ recorded' \in Servers \cup {None} /\ orphans' \in SUBSET Servers
      BY <1>4 DEF Probe, Starting, Generate, Spawn, CliEnds, TypeInv, TypeOK, Hidden
    <3>2. cli' \in BOOLEAN /\ UNCHANGED <<task, shot, closer, left, crashes>>
      BY <1>4 DEF Probe, Starting, Generate, Spawn, CliEnds, TypeInv, TypeOK, workerVars
    <3>3. \/ at' # "idle" /\ kind' = kind /\ at # "idle"
          \/ at' = "idle" /\ kind' = "none"
      BY <1>4 DEF Probe, Starting, Generate, Spawn, CliEnds
    <3>4. at' \in {"idle", "generate", "spawn", "starting", "cli"}
      BY <1>4 DEF Probe, Starting, Generate, Spawn, CliEnds
    <3>5. QED
      BY <2>2, <2>3, <3>1, <3>2, <3>3, <3>4 DEF TypeInv, TypeOK, Numbered
<1>5. CASE ReleaseNative \/ Reap \/ Endpoint \/ WarmReturns \/ Launch \/ Bind \/ ShotReturns
  <2>1. UNCHANGED <<children, slot, ledger, faults, task, cancelled>>
    BY <1>5 DEF ReleaseNative, Reap, Endpoint, WarmReturns, Launch, Bind, ShotReturns, workerVars
  <2>2. UNCHANGED operation \/ (step' = "none" /\ attempt' = 0 /\ using' = None)
    BY <1>5 DEF ReleaseNative, Reap, Endpoint, WarmReturns, Launch, Bind, ShotReturns, workerVars, operation
  <2>3. WorkerTypeOK' /\ Busy'
    BY <2>1, <2>2 DEF TypeInv, TypeOK, WorkerTypeOK, Busy, children, pipes, slot, operation, ledger
  <2>4. QED
    BY <1>5, <2>1, <2>3 DEF ReleaseNative, Reap, Endpoint, WarmReturns, Launch, Bind, ShotReturns, Stop,
          TypeInv, TypeOK, Numbered
<1>6. CASE Obtain
  <2>1. CASE Closing
    <3>1. WorkerTypeOK' /\ Busy'
      BY <1>6, <2>1 DEF Obtain, TypeInv, TypeOK, WorkerTypeOK, Busy, slot, operation, pipes, ledger
    <3>2. QED
      BY <1>6, <2>1, <3>1 DEF Obtain, TypeInv, TypeOK, Numbered
  <2>2. CASE ~Closing /\ at' = "idle"
    <3>1. WorkerTypeOK' /\ Busy'
      BY <1>6, <2>2, WorkerReleases DEF Obtain, WarmReleaseRaises, TypeInv, TypeOK, WorkerTypeOK, operation
    <3>2. QED
      BY <1>6, <2>2, <3>1 DEF Obtain, TypeInv, TypeOK, Numbered
  <2>3. CASE ~Closing /\ Goto("warm")
    <3>1. WorkerTypeOK' /\ Busy'
      <4>1. /\ step' = "start" /\ attempt' = 0 /\ using' = None
            /\ UNCHANGED <<pipes, task, cancelled, ledger>>
            /\ UNCHANGED <<life, loaded, slot, faults>> \/ (Released /\ client' = "open")
        BY <1>6, <2>3 DEF Obtain
      <4>2. CASE UNCHANGED <<life, loaded, slot, faults>>
        BY <4>1, <4>2 DEF TypeInv, TypeOK, WorkerTypeOK, Busy, slot, pipes, ledger
      <4>3. CASE Released /\ client' = "open"
        BY <4>1, <4>3, WorkerReleases
      <4>4. QED
        BY <4>1, <4>2, <4>3
    <3>2. QED
      BY <1>6, <2>3, <3>1 DEF Obtain, TypeInv, TypeOK, Numbered
  <2>4. QED
    BY <1>6, <2>1, <2>2, <2>3 DEF Obtain
<1>7. CASE WarmStep
  <2>1. WorkerTypeOK' /\ Busy' /\ UNCHANGED task
    BY <1>7, OperationTypes DEF WarmStep, TypeInv, Numbered
  <2>2. QED
    BY <1>7, <2>1 DEF WarmStep, TypeInv, TypeOK, Numbered
<1>8. QED
  BY <1>2, <1>3, <1>4, <1>5, <1>6, <1>7 DEF Native, Identity

LEMMA OtherTypes ==
  ASSUME TypeInv,
         \/ Cancel \/ CloseBegin \/ Close \/ Crash
         \/ \E of \in DOMAIN left : LeftEnds(of)
         \/ \E c \in Children : Child(c) /\ UNCHANGED <<native, shot, lane, closer, orphans, left, crashes>>
         \/ \E p \in Servers : ServerStarts(p) \/ ServerChanges(p) \/ ServerGone(p)
  PROVE  TypeInv'
<1> USE DEF native, lane, Goto, Idle, OnlyLane, WarmUnchanged
<1>1. CASE Cancel \/ CloseBegin
  <2>1. WorkerTypeOK' /\ Busy'
    BY <1>1, WorkerStays DEF Cancel, CloseBegin, TypeInv, TypeOK, WorkerTypeOK
  <2>2. QED
    BY <1>1, <2>1 DEF Cancel, CloseBegin, TypeInv, TypeOK, Numbered
<1>2. CASE CloseRelease
  <2>1. WorkerTypeOK' /\ Busy'
    BY <1>2, WorkerReleases DEF CloseRelease, WarmReleased, WarmReleaseRaises, TypeInv, TypeOK, WorkerTypeOK, operation
  <2>2. QED
    BY <1>2, <2>1 DEF CloseRelease, TypeInv, TypeOK, Numbered
<1>3. CASE CloseWait \/ CloseEnd
  <2>1. WorkerTypeOK' /\ Busy'
    BY <1>3, WorkerStays DEF CloseWait, CloseEnd, workerVars, TypeInv, TypeOK, WorkerTypeOK
  <2>2. QED
    BY <1>3, <2>1 DEF CloseWait, CloseEnd, workerVars, TypeInv, TypeOK, Numbered
<1>4. CASE Crash
  <2>1. crashes' \in 0..MaxCrashes
    BY <1>4, LaneAssumption DEF Crash, TypeInv, TypeOK
  <2>2. WorkerTypeOK' /\ Busy'
    <3>1. life' \in [Children -> {"unused", "starting", "waiting", "working", "rendering", "dying", "gone"}]
      BY <1>4 DEF Crash
    <3>2. \A c \in Children : life'[c] \notin {"working", "rendering"}
      BY <1>4 DEF Crash
    <3>3. UNCHANGED <<stdin, stdout, task, rendered, accepted, faults>>
      BY <1>4 DEF Crash, pipes, ledger
    <3>4. /\ loaded' = {} /\ client' = "none" /\ proc' = None
          /\ step' = "none" /\ attempt' = 0 /\ using' = None
          /\ confirmed' \in BOOLEAN /\ cancelled' \in BOOLEAN
      BY <1>4 DEF Crash
    <3>5. QED
      BY <3>1, <3>2, <3>3, <3>4 DEF TypeInv, TypeOK, WorkerTypeOK, Busy
  <2>3. left' \in [{"generator", "worker"} -> Nat]
    BY <1>4 DEF Crash, TypeInv, TypeOK
  <2>4. QED
    BY <1>4, <2>1, <2>2, <2>3 DEF Crash, TypeInv, TypeOK, Numbered, Hidden
<1>5. ASSUME NEW c \in Children, Child(c) /\ UNCHANGED <<native, shot, lane, closer, orphans, left, crashes>> PROVE TypeInv'
  <2>1. WorkerTypeOK' /\ Busy' /\ UNCHANGED task
    BY <1>5, ChildTypes
  <2>2. QED
    BY <1>5, <2>1 DEF TypeInv, TypeOK, Numbered
<1>6. ASSUME NEW p \in Servers, ServerStarts(p) \/ ServerChanges(p) \/ ServerGone(p) PROVE TypeInv'
  <2>1. WorkerTypeOK' /\ Busy' /\ UNCHANGED task
    BY <1>6, WorkerStays DEF ServerStarts, ServerChanges, ServerGone, workerVars, TypeInv, TypeOK, WorkerTypeOK
  <2>2. QED
    BY <1>6, <2>1 DEF ServerStarts, ServerChanges, ServerGone, TypeInv, TypeOK, Numbered
<1>7. ASSUME NEW of \in DOMAIN left, LeftEnds(of) PROVE TypeInv'
  <2>1. WorkerTypeOK' /\ Busy' /\ UNCHANGED task
    BY <1>7, WorkerStays DEF LeftEnds, workerVars, TypeInv, TypeOK, WorkerTypeOK
  <2>2. left' \in [{"generator", "worker"} -> Nat]
    BY <1>7 DEF LeftEnds, TypeInv, TypeOK
  <2>3. QED
    BY <1>7, <2>1, <2>2 DEF LeftEnds, TypeInv, TypeOK, Numbered
<1>8. QED
  BY <1>1, <1>2, <1>3, <1>4, <1>5, <1>6, <1>7 DEF Close

LEMMA TypeStep == TypeInv /\ [Next]_vars => TypeInv'
<1>1. ASSUME TypeInv, UNCHANGED vars PROVE TypeInv'
  <2>1. WorkerTypeOK' /\ Busy'
    BY <1>1, WorkerStays DEF vars, workerVars, TypeInv, TypeOK, WorkerTypeOK
  <2>2. QED
    BY <1>1, <2>1 DEF vars, workerVars, native, lane, TypeInv, TypeOK, Numbered
<1>2. QED
  BY <1>1, LaneTypes, OtherTypes DEF Next

LEMMA TypeAlways == Spec => []TypeInv
  BY TypeInit, TypeStep, PTL DEF Spec

\* Every variable keeps its type: in particular the number of the running task
\* is one of the tasks, and a child at work has the request it answers.
THEOREM TypeCorrect == Spec => []TypeOK
<1>1. TypeInv => TypeOK
  BY DEF TypeInv
<1>2. QED
  BY <1>1, TypeAlways, PTL

-----------------------------------------------------------------------------
(* Where the processes are.                                                 *)

NativePlaces == {"barrier", "ensure", "starting", "generate", "spawn", "cli"}
\* Behind the barrier, and behind the release in front of a one-task worker.
Cleared == {"ensure", "starting", "generate", "spawn", "cli", "launch", "shot"}
\* Behind the proof that no sd-server is left.
EngineFree == {"obtain", "warm", "clear", "launch", "shot"}

Runs(p) == sd[p] \in {"loading", "serving", "hung", "dying"}
NoEngine == \A p \in Servers \ orphans : ~Runs(p)

\* The client knows the one child that runs.
OneChild ==
    /\ \A c \in Children : life[c] \notin {"unused", "gone"} => c = proc
    /\ \A c \in loaded : life[c] \notin {"unused", "gone"}
    /\ proc # None => life[proc] # "unused"
    /\ client = "none" => proc = None

\* What runs at each place of the lane.
Places ==
    /\ step # "none" => at = "warm"
    /\ shot # "none" => at = "shot"
    /\ cli => at = "cli"
    /\ at \in NativePlaces => kind = "native"
    /\ at \in {"obtain", "warm"} => kind = "warm"
    /\ at \in {"clear", "launch", "shot"} => kind = "shot"
    /\ at \in {"release", "reap", "endpoint"} => kind \in {"warm", "shot"}
    /\ at \in Cleared => client = "none"

\* A server that runs and does not listen has a handle, a record, or is an
\* orphan; the handle and the record name servers that were started.
Traced ==
    /\ \A p \in Hidden \ orphans : p = held \/ p = recorded
    /\ held # None => sd[held] # "unused"
    /\ recorded # None => sd[recorded] # "unused"
    /\ at = "starting" => held # None
    /\ at = "reap" => IF held # None THEN recorded \in {None, held} ELSE recorded # None
    /\ at = "endpoint" => held = None /\ (recorded # None => Ended(recorded))

\* An identity process is only started, and kept, where no sd-server runs.
Alone == proc # None \/ at \in EngineFree => NoEngine

\* How far a close has come.
Closes ==
    /\ Closing /\ kind \in {"warm", "shot"} => cancelled
    /\ closer \in {"finish", "closed", "kept"} => at # "shot"
    /\ closer = "closed" => client = "none"

LaneInv == OneChild /\ Places /\ Traced /\ Alone /\ Closes

LEMMA LaneInit == Init => LaneInv
<1> SUFFICES ASSUME Init PROVE LaneInv
  OBVIOUS
<1> USE LaneAssumption DEF Init, InitWorker
<1>1. OneChild
  BY DEF OneChild
<1>2. Places
  BY DEF Places, NativePlaces, Cleared
<1>3. Traced
  BY DEF Traced, Hidden
<1>4. Alone
  BY DEF Alone, EngineFree
<1>5. Closes
  BY DEF Closes, Closing
<1>6. QED
  BY <1>1, <1>2, <1>3, <1>4, <1>5 DEF LaneInv

\* A release that returns leaves no child; one that raises had one to release.
LEMMA ReleasedAll ==
  ASSUME TypeInv, OneChild, Released
  PROVE  proc' = None /\ loaded' = {} /\ \A c \in Children : life'[c] \in {"unused", "gone"}
<1>0. WorkerTypeOK
  BY DEF TypeInv, TypeOK
<1> USE <1>0, LaneAssumption DEF WorkerTypeOK, OneChild
<1>1. CASE proc = None
  <2>1. UNCHANGED <<life, loaded, proc>>
    BY <1>1 DEF Released
  <2>2. loaded = {}
    BY <1>1
  <2>3. QED
    BY <1>1, <2>1, <2>2
<1>2. CASE proc \in Children
  <2>1. life' = [life EXCEPT ![proc] = "gone"] /\ loaded' = loaded \ {proc} /\ proc' = None
    BY <1>2 DEF Released, Exit
  <2>2. \A c \in loaded : c = proc
    OBVIOUS
  <2>3. QED
    BY <1>2, <2>1, <2>2
<1>3. QED
  BY <1>1, <1>2

LEMMA RaisedKeeps ==
  ASSUME TypeInv, OneChild, ReleaseRaises
  PROVE  /\ proc # None /\ client # "none" /\ UNCHANGED <<proc, loaded>>
         /\ \A c \in Children : life'[c] \in {"unused", "gone"} <=> life[c] \in {"unused", "gone"}
         /\ \A c \in Children : life'[c] = "unused" <=> life[c] = "unused"
<1>1. proc \in Children /\ life[proc] # "gone" /\ life[proc] # "unused" /\ client # "none"
  BY LaneAssumption DEF ReleaseRaises, Alive, TypeInv, TypeOK, WorkerTypeOK, OneChild
<1>2. life \in [Children -> {"unused", "starting", "waiting", "working", "rendering", "dying", "gone"}]
  BY DEF TypeInv, TypeOK, WorkerTypeOK
<1>3. QED
  BY <1>1, <1>2 DEF ReleaseRaises, Alive

LEMMA ReleaseOneChild ==
  ASSUME TypeInv, OneChild, WarmReleased \/ WarmReleaseRaises
  PROVE  /\ OneChild' /\ (proc' # None => proc # None) /\ (client = "none" => client' = "none")
         /\ WarmReleased => client' = "none"
         /\ WarmReleaseRaises => client # "none"
<1>1. CASE WarmReleased
  BY <1>1, ReleasedAll DEF WarmReleased, WarmReleaseRaises, OneChild, ReleaseRaises, Alive
<1>2. CASE WarmReleaseRaises
  BY <1>2, RaisedKeeps DEF WarmReleased, WarmReleaseRaises, OneChild, TypeInv, TypeOK, WorkerTypeOK
<1>3. QED
  BY <1>1, <1>2

-----------------------------------------------------------------------------
(* The steps of the lane, and where the processes are after each.           *)

\* The parts of the invariant that a step leaves alone.
LEMMA ChildStays == ASSUME OneChild, UNCHANGED <<life, loaded, proc, client>> PROVE OneChild'
  BY DEF OneChild

LEMMA EnginesStay ==
  ASSUME Alone, UNCHANGED <<sd, orphans>>, (proc' # None \/ at' \in EngineFree) => (proc # None \/ at \in EngineFree)
  PROVE  Alone'
  BY DEF Alone, NoEngine, Runs

LEMMA TraceStays ==
  ASSUME Traced, UNCHANGED <<sd, held, recorded, orphans>>, at' \in {"starting", "reap", "endpoint"} => at' = at
  PROVE  Traced'
  BY DEF Traced, Hidden, Ended

LEMMA TakeLane == ASSUME LaneInv, TypeInv, Take PROVE LaneInv'
<1> USE DEF LaneInv, Take
<1>1. OneChild'
  BY ChildStays DEF children, slot
<1>2. Places'
  BY DEF Places, NativePlaces, Cleared, children, slot, operation, native
<1>3. Traced'
  BY TraceStays DEF native
<1>4. Alone'
  BY EnginesStay DEF EngineFree, native, slot
<1>5. Closes'
  BY DEF Closes, Closing, slot
<1>6. QED
  BY <1>1, <1>2, <1>3, <1>4, <1>5

LEMMA CancelLane == ASSUME LaneInv, TypeInv, Cancel PROVE LaneInv'
<1> USE DEF LaneInv, Cancel, lane
<1>1. OneChild'
  BY ChildStays DEF children, slot
<1>2. Places'
  BY DEF Places, children, slot, operation, native
<1>3. Traced' /\ Alone'
  BY TraceStays, EnginesStay DEF native, slot
<1>4. Closes'
  BY DEF Closes, Closing, slot
<1>5. QED
  BY <1>1, <1>2, <1>3, <1>4

\* The barrier, and the release in front of a one-task worker.
LEMMA BarrierLane == ASSUME LaneInv, TypeInv, Barrier \/ Clear PROVE LaneInv'
<1> USE DEF LaneInv, Barrier, Clear, WarmUnchanged, Goto, Idle
<1>1. OneChild' /\ (proc' # None => proc # None) /\ (client = "none" => client' = "none")
      /\ (WarmReleased => client' = "none")
  BY ReleaseOneChild
<1>2. at' \in {"ensure", "launch"} => client' = "none"
  BY <1>1
<1>3. Places'
  BY <1>2 DEF Places, NativePlaces, Cleared, operation, native
<1>4. Traced'
  BY TraceStays DEF native
<1>5. Alone'
  BY <1>1, EnginesStay DEF EngineFree, native
<1>6. Closes'
  BY <1>1 DEF Closes, Closing
<1>7. QED
  BY <1>1, <1>3, <1>4, <1>5, <1>6

\* A server is started only behind the barrier, where no child is left.
LEMMA ProbeLane == ASSUME LaneInv, TypeInv, Probe PROVE LaneInv'
<1> USE DEF LaneInv, Probe, Goto, workerVars
<1>1. proc = None /\ client = "none"
  BY DEF Places, Cleared, OneChild
<1>2. OneChild'
  BY ChildStays DEF children, slot
<1>3. Places'
  BY DEF Places, NativePlaces, Cleared, slot, operation
<1>4. Traced'
  <2>1. CASE UNCHANGED <<sd, held, orphans>> /\ at' \in {"generate", "spawn"}
    BY <2>1, TraceStays
  <2>2. ASSUME NEW p \in Servers, sd[p] = "unused", sd' = [sd EXCEPT ![p] = "loading"], held' = p, at' = "starting",
               orphans' = orphans \cup ((Hidden \cap {held}) \ {recorded})
        PROVE  Traced'
    <3>1. /\ p # None /\ held' # None /\ sd'[p] = "loading" /\ UNCHANGED recorded
          /\ \A q \in Servers : q # p => sd'[q] = sd[q]
      BY <2>2, LaneAssumption DEF TypeInv, TypeOK
    <3>2. \A q \in Hidden' \ orphans' : q = held' \/ q = recorded'
      BY <2>2, <3>1 DEF Traced, Hidden
    <3>3. recorded' # None => sd'[recorded'] # "unused"
      BY <3>1 DEF Traced, TypeInv, TypeOK
    <3>4. QED
      BY <2>2, <3>1, <3>2, <3>3 DEF Traced
  <2>3. QED
    BY <2>1, <2>2
<1>5. Alone'
  BY <1>1 DEF Alone, EngineFree, slot
<1>6. Closes'
  BY DEF Closes, Closing, slot
<1>7. QED
  BY <1>2, <1>3, <1>4, <1>5, <1>6

LEMMA StartingLane == ASSUME LaneInv, TypeInv, Starting PROVE LaneInv'
<1> USE DEF LaneInv, Starting, Goto, workerVars
<1>1. proc = None /\ client = "none" /\ held \in Servers
  BY LaneAssumption DEF Places, Cleared, OneChild, Traced, TypeInv, TypeOK
<1>2. OneChild'
  BY ChildStays DEF children, slot
<1>3. Places'
  BY DEF Places, NativePlaces, Cleared, slot, operation
<1>4. Traced'
  <2>1. CASE UNCHANGED <<sd, recorded, orphans>>
    BY <2>1, TraceStays
  <2>2. CASE recorded' = held /\ UNCHANGED sd /\ orphans' = orphans \cup ((Hidden \cap {recorded}) \ {held})
    BY <2>2 DEF Traced, Hidden
  <2>3. CASE sd' = [sd EXCEPT ![held] = "dying"] /\ UNCHANGED <<recorded, orphans>>
    BY <1>1, <2>3, LaneAssumption DEF Traced, Hidden, TypeInv, TypeOK
  <2>4. QED
    BY <2>1, <2>2, <2>3
<1>5. Alone'
  BY <1>1 DEF Alone, EngineFree, slot
<1>6. Closes'
  BY DEF Closes, Closing, slot
<1>7. QED
  BY <1>2, <1>3, <1>4, <1>5, <1>6

LEMMA GenerateLane == ASSUME LaneInv, TypeInv, Generate \/ Spawn \/ CliEnds PROVE LaneInv'
<1> USE DEF LaneInv, Generate, Spawn, CliEnds, OnlyLane, Goto, Idle, workerVars, native
<1>1. OneChild'
  BY ChildStays DEF children, slot
<1>2. Places'
  BY DEF Places, NativePlaces, Cleared, slot, operation
<1>3. Traced'
  BY TraceStays
<1>4. Alone'
  BY EnginesStay DEF EngineFree, slot
<1>5. Closes'
  BY DEF Closes, Closing, slot
<1>6. QED
  BY <1>1, <1>2, <1>3, <1>4, <1>5

\* The release of the sd-server ends no other process.
LEMMA ReleaseNativeLane == ASSUME LaneInv, TypeInv, ReleaseNative PROVE LaneInv'
<1> USE DEF LaneInv, ReleaseNative, OnlyLane, Goto, Idle, workerVars
<1>1. OneChild'
  BY ChildStays DEF children, slot
<1>2. Places'
  BY DEF Places, NativePlaces, Cleared, slot, operation
<1>3. UNCHANGED sd \/ \E p \in Servers : (p = held \/ p = recorded) /\ Stop(p)
  BY DEF TypeInv, TypeOK
<1>4. /\ \A q \in Servers : sd'[q] = "unused" <=> sd[q] = "unused"
      /\ \A q \in Servers : Runs(q)' <=> Runs(q)
      /\ \A q \in Hidden' : q \in Hidden \/ q = held \/ q = recorded
      /\ \A q \in Servers : Ended(q) => Ended(q)'
  BY <1>3 DEF Stop, Ended, Hidden, Runs, TypeInv, TypeOK
<1>5. Traced'
  <2>1. at' = "endpoint" => held = None /\ (recorded # None => Ended(recorded))
    BY DEF Ended
  <2>2. at' = "reap" => IF held # None THEN recorded \in {None, held} ELSE recorded # None
    OBVIOUS
  <2>3. held \in Servers \cup {None} /\ recorded \in Servers \cup {None}
    BY DEF TypeInv, TypeOK
  <2>4. at' # "starting" /\ UNCHANGED <<held, recorded, orphans>>
    OBVIOUS
  <2> HIDE DEF ReleaseNative
  <2>5. QED
    BY <1>4, <2>1, <2>2, <2>3, <2>4 DEF Traced
<1>6. Alone'
  BY <1>4 DEF Alone, NoEngine, EngineFree, slot
<1>7. Closes'
  BY DEF Closes, Closing, slot
<1>8. QED
  BY <1>1, <1>2, <1>5, <1>6, <1>7

LEMMA ReapLane == ASSUME LaneInv, TypeInv, Reap PROVE LaneInv'
<1> USE DEF LaneInv, Reap, OnlyLane, Goto, workerVars
<1>1. OneChild'
  BY ChildStays DEF children, slot
<1>2. Places'
  BY DEF Places, NativePlaces, Cleared, slot, operation
<1>3. Traced'
  BY DEF Traced, Hidden, Ended
<1>4. Alone'
  BY EnginesStay DEF EngineFree, slot
<1>5. Closes'
  BY DEF Closes, Closing, slot
<1>6. QED
  BY <1>1, <1>2, <1>3, <1>4, <1>5

\* A refused connection proves that the GPU is free: what does not listen has
\* been seen to end.
LEMMA EndpointLane == ASSUME LaneInv, TypeInv, Endpoint PROVE LaneInv'
<1> USE DEF LaneInv, Endpoint, OnlyLane, Goto, Idle, workerVars
<1>1. OneChild'
  BY ChildStays DEF children, slot
<1>2. Places'
  BY DEF Places, NativePlaces, Cleared, slot, operation
<1>3. Hidden \ orphans = {}
  BY LaneAssumption DEF Traced, Hidden, Ended
<1>4. Traced'
  BY <1>3 DEF Traced, Hidden, Ended
<1>5. Alone'
  <2>1. CASE Listening = {}
    BY <1>3, <2>1 DEF Alone, NoEngine, Runs, Hidden, Listening
  <2>2. CASE at' = "idle"
    BY <2>2, EnginesStay DEF EngineFree, slot
  <2>3. QED
    BY <2>1, <2>2
<1>6. Closes'
  BY DEF Closes, Closing, slot
<1>7. QED
  BY <1>1, <1>2, <1>4, <1>5, <1>6

\* A client with other settings is released before the next one is made.
LEMMA ObtainLane == ASSUME LaneInv, TypeInv, Obtain PROVE LaneInv'
<1> USE DEF LaneInv, Obtain, Goto, Idle
<1>1. OneChild' /\ (at' = "warm" => step' = "start") /\ (at' = "idle" => UNCHANGED step)
      /\ (proc' # None => proc # None) /\ (client = "none" => client' = "none" \/ at' = "warm")
      /\ (Closing => UNCHANGED client)
  <2>1. CASE UNCHANGED <<life, loaded, slot>>
    BY <2>1, ChildStays DEF slot, operation
  <2>2. CASE Released /\ client' = "open" /\ ~Closing /\ Goto("warm") /\ step' = "start"
    BY <2>2, ReleasedAll DEF OneChild
  <2>3. CASE ~Closing /\ WarmReleaseRaises /\ UNCHANGED operation /\ at' = "idle"
    BY <2>3, ReleaseOneChild DEF operation
  <2>4. QED
    BY <2>1, <2>2, <2>3
<1>2. Places'
  BY <1>1 DEF Places, NativePlaces, Cleared, native
<1>3. Traced'
  BY TraceStays DEF native
<1>4. Alone'
  BY <1>1, EnginesStay DEF EngineFree, native
<1>5. Closes'
  BY <1>1 DEF Closes, Closing
<1>6. QED
  BY <1>1, <1>2, <1>3, <1>4, <1>5

\* A child starts only when the one before it is gone.
LEMMA StartChild == ASSUME OneChild, TypeInv, Start PROVE OneChild' /\ UNCHANGED client
<1> USE LaneAssumption DEF Start, Fails
<1>1. CASE UNCHANGED <<life, loaded, proc, client>>
  BY <1>1, ChildStays
<1>2. ASSUME ~Alive PROVE \A c \in Children : life[c] \in {"unused", "gone"}
  BY <1>2 DEF Alive, OneChild
<1>3. ASSUME NEW c \in Children, ~Alive, client = "open", life[c] = "unused", life' = [life EXCEPT ![c] = "starting"],
             proc' = c, UNCHANGED <<loaded, client>>
      PROVE  OneChild' /\ UNCHANGED client
  <2>1. /\ \A d \in Children : d # c => life'[d] = life[d]
        /\ life'[c] = "starting" /\ c # None
    BY <1>3 DEF TypeInv, TypeOK, WorkerTypeOK
  <2>2. loaded = {}
    <3>1. loaded \subseteq Children
      BY DEF TypeInv, TypeOK, WorkerTypeOK
    <3>2. QED
      BY <1>2, <1>3, <3>1 DEF OneChild
  <2>3. QED
    BY <1>2, <1>3, <2>1, <2>2 DEF OneChild
<1>4. CASE ~Alive /\ proc' = None /\ UNCHANGED <<life, loaded, client>>
  BY <1>2, <1>4 DEF OneChild
<1>5. QED
  BY <1>1, <1>3, <1>4 DEF slot, children

LEMMA OperationChild ==
  ASSUME OneChild, TypeInv, Operation \/ Interrupted
  PROVE  OneChild' /\ UNCHANGED client
<1>1. CASE Start
  BY <1>1, StartChild
<1>2. CASE Interrupted \/ ConfirmOwnership \/ WriteRequest \/ ReadAnswer
  BY <1>2, ChildStays DEF Interrupted, ConfirmOwnership, WriteRequest, ReadAnswer, children, slot
<1>3. CASE Restart \/ Abort
  <2>1. UNCHANGED client /\ (Released \/ ReleaseRaises)
    BY <1>3 DEF Restart, Abort
  <2>2. CASE Released
    BY <2>1, <2>2, ReleasedAll DEF OneChild
  <2>3. CASE ReleaseRaises
    BY <2>1, <2>3, RaisedKeeps DEF OneChild, TypeInv, TypeOK, WorkerTypeOK
  <2>4. QED
    BY <2>1, <2>2, <2>3
<1>4. QED
  BY <1>1, <1>2, <1>3 DEF Operation

LEMMA WarmLane == ASSUME LaneInv, TypeInv, WarmStep PROVE LaneInv'
<1> USE DEF LaneInv, WarmStep, lane, native
<1>1. OneChild' /\ UNCHANGED client
  BY OperationChild
<1>2. cancelled' = cancelled
  BY DEF Operation, Interrupted, Start, ConfirmOwnership, WriteRequest, ReadAnswer, Restart, Abort
<1>3. Places'
  BY <1>1 DEF Places
<1>4. Traced'
  BY TraceStays
<1>5. Alone'
  BY EnginesStay DEF EngineFree
<1>6. Closes'
  BY <1>1, <1>2 DEF Closes, Closing
<1>7. QED
  BY <1>1, <1>3, <1>4, <1>5, <1>6

\* A one-task worker starts for a task that no close has cancelled.
LEMMA ShotLane == ASSUME LaneInv, TypeInv, WarmReturns \/ Launch \/ Bind \/ ShotReturns PROVE LaneInv'
<1> USE DEF LaneInv, WarmReturns, Launch, Bind, ShotReturns, Goto, Idle, workerVars, lane, native
<1>1. OneChild'
  BY ChildStays DEF children, slot
<1>2. Places'
  BY DEF Places, NativePlaces, Cleared, slot, operation
<1>3. Traced'
  BY TraceStays
<1>4. Alone'
  BY EnginesStay DEF EngineFree, slot
<1>5. Closes'
  BY DEF Closes, Closing, slot, Places
<1>6. QED
  BY <1>1, <1>2, <1>3, <1>4, <1>5

LEMMA CloseLane == ASSUME LaneInv, TypeInv, CloseBegin \/ Close PROVE LaneInv'
<1> USE DEF LaneInv, lane, native
<1>1. CASE CloseBegin
  <2>1. OneChild'
    BY <1>1, ChildStays DEF CloseBegin, children, slot
  <2>2. Places' /\ Traced' /\ Alone'
    BY <1>1, TraceStays, EnginesStay DEF CloseBegin, Places, slot, operation
  <2>3. Closes'
    BY <1>1 DEF CloseBegin, Closes, Closing, slot
  <2>4. QED
    BY <2>1, <2>2, <2>3
<1>2. CASE CloseRelease
  <2>1. /\ OneChild' /\ (proc' # None => proc # None) /\ (client = "none" => client' = "none")
        /\ WarmReleaseRaises => client # "none"
    BY <1>2, ReleaseOneChild DEF CloseRelease
  <2>2. Places' /\ Traced' /\ Alone'
    BY <1>2, <2>1, TraceStays, EnginesStay DEF CloseRelease, Places, WarmUnchanged, operation
  <2>3. Closes'
    BY <1>2, <2>1 DEF CloseRelease, Closes, Closing, WarmUnchanged, Places, Cleared
  <2>4. QED
    BY <2>1, <2>2, <2>3
<1>3. CASE CloseWait \/ CloseEnd
  <2> USE <1>3 DEF CloseWait, CloseEnd, workerVars
  <2>1. OneChild'
    BY ChildStays DEF children, slot
  <2>2. Places' /\ Traced' /\ Alone'
    BY TraceStays, EnginesStay DEF Places, slot, operation
  <2>3. Closes'
    BY DEF Closes, Closing, Places, slot
  <2>4. QED
    BY <2>1, <2>2, <2>3
<1>4. QED
  BY <1>1, <1>2, <1>3 DEF Close

LEMMA ChildLane ==
  ASSUME LaneInv, TypeInv, NEW c \in Children, Child(c), UNCHANGED <<native, shot, lane, closer, orphans, left, crashes>>
  PROVE  LaneInv'
<1> USE DEF LaneInv, lane, native
<1>1. /\ UNCHANGED <<slot, operation, task, cancelled>> /\ life[c] \notin {"unused", "gone"}
      /\ \/ life' = [life EXCEPT ![c] = "gone"] /\ loaded' = loaded \ {c}
         \/ \E stage \in {"waiting", "working", "rendering"} :
               life' = [life EXCEPT ![c] = stage] /\ loaded' \in {loaded, loaded \cup {c}}
  BY DEF Child, SayHello, IdleExit, Receive, RefuseSession, Render, BatchDone, BatchFails, Vanish, Exit, Keep, ChildOnly
<1>2. OneChild'
  BY <1>1 DEF OneChild, slot, TypeInv, TypeOK, WorkerTypeOK
<1>3. Places' /\ Traced' /\ Alone' /\ Closes'
  BY <1>1, TraceStays, EnginesStay DEF Places, Closes, Closing, slot, operation
<1>4. QED
  BY <1>2, <1>3

LEMMA ServerLane ==
  ASSUME LaneInv, TypeInv, NEW p \in Servers, ServerStarts(p) \/ ServerChanges(p) \/ ServerGone(p)
  PROVE  LaneInv'
<1> USE DEF LaneInv, ServerStarts, ServerChanges, ServerGone, OnlyLane, workerVars, lane
<1>1. OneChild'
  BY ChildStays DEF children, slot
<1>2. Places' /\ Closes'
  BY DEF Places, Closes, Closing, slot, operation
<1>3. /\ \A q \in Servers : Runs(q)' => Runs(q)
      /\ \A q \in Servers : sd'[q] = "unused" <=> sd[q] = "unused"
      /\ Hidden' \subseteq Hidden
      /\ \A q \in Servers : Ended(q) => Ended(q)'
  BY DEF Runs, Hidden, Ended, TypeInv, TypeOK
<1>4. held \in Servers \cup {None} /\ recorded \in Servers \cup {None} /\ UNCHANGED <<held, recorded, orphans, at, proc>>
  BY DEF TypeInv, TypeOK, slot
<1>5. Traced'
  BY <1>3, <1>4 DEF Traced
<1>6. Alone'
  BY <1>3, <1>4 DEF Alone, NoEngine
<1>7. QED
  BY <1>1, <1>2, <1>5, <1>6

LEMMA CrashLane == ASSUME LaneInv, TypeInv, Crash PROVE LaneInv'
<1> USE DEF LaneInv, Crash, Idle
<1>1. \A c \in Children : life'[c] \in {"unused", "gone"}
  OBVIOUS
<1>2. OneChild'
  BY <1>1 DEF OneChild
<1>3. Places' /\ Alone' /\ Closes'
  BY DEF Places, NativePlaces, Cleared, Alone, EngineFree, Closes, Closing
<1>4. Traced'
  BY DEF Traced, Hidden
<1>5. QED
  BY <1>2, <1>3, <1>4

LEMMA LaneStep == TypeInv /\ LaneInv /\ [Next]_vars => LaneInv'
<1>1. ASSUME LaneInv, UNCHANGED vars \/ \E of \in DOMAIN left : LeftEnds(of) PROVE LaneInv'
  <2> USE <1>1 DEF LaneInv, vars, LeftEnds, workerVars, children, slot, operation, native, lane
  <2>1. OneChild'
    BY ChildStays
  <2>2. Places' /\ Traced' /\ Alone' /\ Closes'
    BY TraceStays, EnginesStay DEF Places, Closes, Closing
  <2>3. QED
    BY <2>1, <2>2
<1>2. ASSUME LaneInv, TypeInv, Native PROVE LaneInv'
  BY <1>2, BarrierLane, ProbeLane, StartingLane, GenerateLane DEF Native
<1>3. ASSUME LaneInv, TypeInv, Identity PROVE LaneInv'
  BY <1>3, ReleaseNativeLane, ReapLane, EndpointLane, ObtainLane, WarmLane, BarrierLane, ShotLane DEF Identity
<1>4. QED
  BY <1>1, <1>2, <1>3, TakeLane, CancelLane, CloseLane, ChildLane, ServerLane, CrashLane DEF Next

LEMMA LaneAlways == Spec => [](TypeInv /\ LaneInv)
<1>1. Init => TypeInv /\ LaneInv
  BY TypeInit, LaneInit
<1>2. TypeInv /\ LaneInv /\ [Next]_vars => TypeInv' /\ LaneInv'
  BY TypeStep, LaneStep
<1>3. QED
  BY <1>1, <1>2, PTL DEF Spec

\* While an identity process of the service holds GPU memory it runs no
\* command-line generator, and there is no sd-server that somebody knows,
\* whatever is started, released, cancelled, closed or lost on the way
\* (persistent_engine.py and identity_service.py share one lane).  It says
\* nothing of what an earlier service left behind: generators and one-task
\* workers (left), and servers without a handle or a record (orphans).
THEOREM NeverTogether == Spec => []Exclusive
<1>1. TypeInv /\ LaneInv => Exclusive
  <2>1. ASSUME TypeInv, LaneInv, loaded # {} PROVE proc # None
    BY <2>1, LaneAssumption DEF LaneInv, OneChild, TypeInv, TypeOK, WorkerTypeOK
  <2>2. QED
    BY <2>1 DEF Exclusive, LaneInv, OneChild, Places, Cleared, Alone, EngineFree, NoEngine, Runs
<1>2. QED
  BY <1>1, LaneAlways, PTL

\* Once the storage is free for another service, every identity process of this
\* one is gone, bound or not (IdentityService.close).
THEOREM ClosedIsQuiet == Spec => []QuietWhenClosed
<1>1. TypeInv /\ LaneInv => QuietWhenClosed
  BY LaneAssumption DEF QuietWhenClosed, NoWorker, LaneInv, OneChild, Places, Closes
<1>2. QED
  BY <1>1, LaneAlways, PTL

\* No step of the service ends a program that got the process id of an earlier
\* sd-server (persistent_engine.py:270-327).
THEOREM ForeignersStay == Spec => ForeignUntouched
<1>1. TypeInv /\ LaneInv /\ [Next]_vars => [\A p \in Servers : sd[p] = "foreign" => sd'[p] = "foreign"]_vars
  <2> SUFFICES ASSUME TypeInv, LaneInv, Next, NEW p \in Servers, sd[p] = "foreign"
               PROVE  sd'[p] = "foreign"
    OBVIOUS
  <2> USE DEF TypeInv, TypeOK
  <2>1. CASE Native
    BY <2>1 DEF Native, Barrier, Probe, Starting, Generate, Spawn, CliEnds, native, OnlyLane, Ended
  <2>2. CASE Identity
    BY <2>2 DEF Identity, ReleaseNative, Stop, Ended, Reap, Endpoint, Obtain, WarmStep, WarmReturns, Clear, Launch, Bind,
       ShotReturns, native
  <2>3. CASE Take \/ Cancel \/ CloseBegin \/ Close \/ Crash
    BY <2>3 DEF Take, Cancel, CloseBegin, Close, CloseRelease, CloseWait, CloseEnd, Crash, native
  <2>4. ASSUME NEW q \in Servers, ServerStarts(q) \/ ServerChanges(q) \/ ServerGone(q) PROVE sd'[p] = "foreign"
    BY <2>4 DEF ServerStarts, ServerChanges, ServerGone
  <2>5. ASSUME NEW of \in DOMAIN left, LeftEnds(of) PROVE sd'[p] = "foreign"
    BY <2>5 DEF LeftEnds, native
  <2>6. QED
    BY <2>1, <2>2, <2>3, <2>4, <2>5 DEF Next, native
<1>2. QED
  BY <1>1, LaneAlways, PTL DEF Spec, ForeignUntouched

-----------------------------------------------------------------------------
(* What is in the pipes of a child, and what has been rendered.             *)

\* A request has been written: of an earlier task, or of this one.
Written(r) ==
    \/ r.task < task
    \/ r.task = task /\ at = "idle"
    \/ /\ r.task = task /\ at = "warm" /\ step # "none"
       /\ r.attempt < attempt \/ (r.attempt = attempt /\ step \notin {"start", "hello", "write"})

Serves(c) == life[c] \in {"starting", "waiting", "working", "rendering"}

\* No child has rendered a request of the task, none will.
Untouched(t) ==
    /\ rendered[t] = 0
    /\ \A c \in Children : Serves(c) => \A i \in DOMAIN stdin[c] : stdin[c][i].task # t

\* The request is still to be written, for the first or the second time.
Refused == \E c \in Children : \E i \in DOMAIN stdout[c] : stdout[c][i] = Answer("restart", Request)
ToWrite ==
    \/ at # "idle" /\ step \in {"none", "start", "hello", "write", "restart"}
    \/ step = "wait" /\ Refused

Pipes ==
    /\ \A c \in Children : \A i \in DOMAIN stdin[c] : Written(stdin[c][i])
    /\ \A c \in Children : \A i \in DOMAIN stdout[c] : stdout[c][i] # Hello => Written(stdout[c][i].request)
    /\ \A c \in Children : life[c] = "unused" => stdin[c] = <<>>

\* A request that a child has still to render has not been rendered, and there
\* is one of it.
Renders ==
    /\ \A t \in Tasks : rendered[t] <= 1
    /\ \A c \in Children : Serves(c) =>
         /\ \A i \in DOMAIN stdin[c] : i # 1 \/ life[c] # "rendering" => rendered[stdin[c][i].task] = 0
         /\ \A i, k \in DOMAIN stdin[c] : stdin[c][i].task = stdin[c][k].task => i = k
    /\ \A t \in Tasks : t > task => Untouched(t)
    /\ ToWrite => Untouched(task)

PipeInv == Pipes /\ Renders

\* An operation that has started its child talks to it.
Uses == step \in {"hello", "write", "wait"} => using # None

LEMMA PipeInit == Init => PipeInv
<1> SUFFICES ASSUME Init PROVE PipeInv
  OBVIOUS
<1> USE DEF Init, InitWorker
<1>1. Pipes
  BY DEF Pipes
<1>2. Renders
  BY DEF Renders, Serves, Untouched, ToWrite
<1>3. QED
  BY <1>1, <1>2 DEF PipeInv

\* Written requests stay written.
LEMMA OperationWritten ==
  ASSUME TypeInv, at = "warm", at' = "warm", Operation \/ Interrupted, NEW r \in Requests, Written(r)
  PROVE  Written(r)'
<1>1. task' = task
  BY DEF Operation, Interrupted, Start, ConfirmOwnership, WriteRequest, ReadAnswer, Restart, Abort
<1>2. CASE UNCHANGED attempt /\ step' # "none" /\ (step \notin {"start", "hello", "write"} => step' \notin {"start", "hello", "write"})
  BY <1>1, <1>2 DEF Written
<1>3. CASE Restart /\ attempt = 0 /\ attempt' = 1 /\ step' = "start"
  <2>1. r.attempt \in 0..1
    BY DEF Requests
  <2>2. r.attempt < attempt \/ r.attempt = attempt => r.attempt < attempt'
    BY <1>3, <2>1
  <2>3. QED
    BY <1>1, <1>3, <2>2 DEF Written
<1>4. QED
  BY <1>2, <1>3
    DEF Operation, Interrupted, Start, ConfirmOwnership, WriteRequest, ReadAnswer, Restart, Abort, Fails, Waiting

LEMMA WrittenStays ==
  ASSUME TypeInv, LaneInv, [Next]_vars, NEW r \in Requests, Written(r)
  PROVE  Written(r)'
<1> USE DEF lane, Goto, Idle, OnlyLane, WarmUnchanged, workerVars, operation
<1>1. r.task \in Nat /\ task \in Nat
  BY LaneAssumption DEF Requests, Tasks, TypeInv, TypeOK, WorkerTypeOK
<1>2. ASSUME UNCHANGED task, at' = "idle" PROVE Written(r)'
  BY <1>1, <1>2 DEF Written
<1>3. ASSUME UNCHANGED task, at \notin {"idle", "warm"} PROVE Written(r)'
  BY <1>1, <1>3 DEF Written
<1>4. ASSUME UNCHANGED <<task, at, operation>> PROVE Written(r)'
  BY <1>4 DEF Written
<1>5. CASE Take
  BY <1>1, <1>5 DEF Take, Written
<1>6. CASE Native
  BY <1>2, <1>3, <1>6 DEF Native, Barrier, Probe, Starting, Generate, Spawn, CliEnds
<1>7. CASE Identity
  <2>1. CASE WarmStep
    BY <2>1, OperationWritten DEF WarmStep
  <2>2. CASE WarmReturns
    BY <1>2, <2>2 DEF WarmReturns
  <2>3. CASE ReleaseNative \/ Reap \/ Endpoint \/ Obtain \/ Clear \/ Launch \/ Bind \/ ShotReturns
    BY <1>3, <2>3 DEF ReleaseNative, Reap, Endpoint, Obtain, Clear, Launch, Bind, ShotReturns
  <2>4. QED
    BY <1>7, <2>1, <2>2, <2>3 DEF Identity
<1>8. CASE Cancel \/ CloseBegin \/ Close
  BY <1>4, <1>8 DEF Cancel, CloseBegin, Close, CloseRelease, CloseWait, CloseEnd
<1>9. ASSUME NEW c \in Children, Child(c), UNCHANGED <<native, shot, lane, closer, orphans, left, crashes>> PROVE Written(r)'
  BY <1>4, <1>9 DEF Child, SayHello, IdleExit, Receive, RefuseSession, Render, BatchDone, BatchFails, Vanish, ChildOnly
<1>10. ASSUME NEW p \in Servers, ServerStarts(p) \/ ServerChanges(p) \/ ServerGone(p) PROVE Written(r)'
  BY <1>4, <1>10 DEF ServerStarts, ServerChanges, ServerGone
<1>11. CASE Crash
  BY <1>2, <1>11 DEF Crash
<1>12. CASE UNCHANGED vars \/ \E of \in DOMAIN left : LeftEnds(of)
  BY <1>4, <1>12 DEF vars, LeftEnds
<1>13. QED
  BY <1>5, <1>6, <1>7, <1>8, <1>9, <1>10, <1>11, <1>12 DEF Next

\* The running request is not in a pipe before it is written.
LEMMA RequestUnwritten ==
  ASSUME TypeInv, LaneInv, step = "write" PROVE ~Written(Request)
<1>1. task \in Nat /\ attempt \in Nat
  BY LaneAssumption DEF TypeInv, TypeOK, WorkerTypeOK
<1>2. at = "warm"
  BY DEF LaneInv, Places
<1>3. QED
  BY <1>1, <1>2 DEF Written, Request

\* Steps that write into no pipe and render nothing.
LEMMA PipesStay ==
  ASSUME TypeInv, LaneInv, [Next]_vars, Pipes, UNCHANGED <<stdin, stdout>>,
         \A c \in Children : life'[c] = "unused" => life[c] = "unused"
  PROVE  Pipes'
<1>1. ASSUME NEW c \in Children, NEW i \in DOMAIN stdin'[c] PROVE Written(stdin[c][i])'
  <2>1. stdin[c][i] \in Requests
    BY <1>1 DEF TypeInv, TypeOK, WorkerTypeOK
  <2>2. QED
    BY <1>1, <2>1, WrittenStays DEF Pipes
<1>2. ASSUME NEW c \in Children, NEW i \in DOMAIN stdout'[c], stdout[c][i] # Hello PROVE Written(stdout[c][i].request)'
  <2>1. stdout[c][i].request \in Requests
    BY <1>2 DEF TypeInv, TypeOK, WorkerTypeOK, Answers
  <2>2. QED
    BY <1>2, <2>1, WrittenStays DEF Pipes
<1>3. QED
  BY <1>1, <1>2 DEF Pipes

LEMMA RendersStay ==
  ASSUME Renders, UNCHANGED <<stdin, rendered, task>>, ToWrite' => ToWrite,
         \A c \in Children : Serves(c)' => Serves(c) /\ (life'[c] = "rendering" <=> life[c] = "rendering")
  PROVE  Renders'
<1>1. ASSUME NEW t, Untouched(t) PROVE Untouched(t)'
  BY <1>1 DEF Untouched
<1>2. (ToWrite => Untouched(task))'
  BY <1>1 DEF Renders
<1>3. (\A t \in Tasks : t > task => Untouched(t))'
  BY <1>1 DEF Renders
<1>4. QED
  BY <1>2, <1>3 DEF Renders

\* A release ends what served.
LEMMA ReleaseServes ==
  ASSUME TypeInv, OneChild, Released \/ ReleaseRaises, NEW c \in Children
  PROVE  /\ Serves(c)' => Serves(c) /\ life'[c] = life[c]
         /\ life'[c] = "unused" => life[c] = "unused"
<1> USE LaneAssumption DEF TypeInv, TypeOK, WorkerTypeOK, Serves
<1>1. CASE Released
  BY <1>1 DEF Released, Exit
<1>2. CASE ReleaseRaises
  BY <1>2 DEF ReleaseRaises, Alive
<1>3. QED
  BY <1>1, <1>2

LEMMA QuietStep ==
  ASSUME TypeInv, LaneInv, [Next]_vars, PipeInv, UNCHANGED <<stdin, stdout, rendered, task>>,
         UNCHANGED life \/ Released \/ ReleaseRaises, ToWrite' => ToWrite
  PROVE  PipeInv'
<1>1. \A c \in Children : /\ Serves(c)' => Serves(c) /\ life'[c] = life[c]
                          /\ life'[c] = "unused" => life[c] = "unused"
  BY ReleaseServes DEF Serves, LaneInv
<1>2. Pipes'
  BY <1>1, PipesStay DEF PipeInv
<1>3. Renders'
  BY <1>1, RendersStay DEF PipeInv
<1>4. QED
  BY <1>2, <1>3 DEF PipeInv

LEMMA TakePipes == ASSUME TypeInv, LaneInv, PipeInv, Take PROVE PipeInv'
<1> USE DEF Take, children, pipes, operation, ledger
<1>1. Pipes'
  BY PipesStay DEF PipeInv, Next
<1>2. ASSUME NEW t, Untouched(t) PROVE Untouched(t)'
  BY <1>2 DEF Untouched, Serves
<1>3. /\ step = "none" /\ step' = "none"
      /\ task' \in Tasks /\ task' > task /\ \A t \in Tasks : t > task' => t > task
  BY LaneAssumption DEF LaneInv, Places, TypeInv, TypeOK, WorkerTypeOK, Tasks
<1>4. Untouched(task')
  BY <1>3 DEF PipeInv, Renders
<1>5. Renders'
  BY <1>2, <1>3, <1>4 DEF PipeInv, Renders, ToWrite, Serves, Untouched
<1>6. QED
  BY <1>1, <1>5 DEF PipeInv

LEMMA CrashPipes == ASSUME TypeInv, LaneInv, PipeInv, Crash PROVE PipeInv'
<1> USE DEF Crash, pipes, ledger, Idle
<1>1. \A c \in Children : /\ life'[c] \in {"unused", "gone"}
                          /\ life'[c] = "unused" => life[c] = "unused"
  OBVIOUS
<1>2. Pipes'
  BY <1>1, PipesStay DEF PipeInv, Next
<1>3. ToWrite' => ToWrite
  BY DEF ToWrite
<1>4. Renders'
  BY <1>1, <1>3, RendersStay DEF PipeInv, Serves
<1>5. QED
  BY <1>2, <1>4 DEF PipeInv

\* Everything but the children and the operation of the warm worker.
LEMMA LanePipes ==
  ASSUME TypeInv, LaneInv, PipeInv,
         \/ Native \/ (Identity /\ ~WarmStep)
         \/ Cancel \/ CloseBegin \/ Close
         \/ \E p \in Servers : ServerStarts(p) \/ ServerChanges(p) \/ ServerGone(p)
  PROVE  PipeInv'
<1> USE DEF OnlyLane, WarmUnchanged, workerVars, children, pipes, operation, ledger, Goto, Idle, lane, slot
<1>1. /\ UNCHANGED <<stdin, stdout, rendered, task>> /\ (UNCHANGED life \/ Released \/ ReleaseRaises)
      /\ \/ UNCHANGED operation /\ (at' # "idle" => at # "idle")
         \/ at' = "idle" /\ step' = "none"
         \/ at # "idle" /\ step' = "start" /\ at = "obtain"
  <2>1. CASE Barrier \/ Clear \/ CloseRelease
    BY <2>1 DEF Barrier, Clear, CloseRelease, WarmReleased, WarmReleaseRaises
  <2>2. CASE Probe \/ Starting \/ Generate \/ Spawn \/ CliEnds
    BY <2>2 DEF Probe, Starting, Generate, Spawn, CliEnds
  <2>3. CASE ReleaseNative \/ Reap \/ Endpoint
    BY <2>3 DEF ReleaseNative, Reap, Endpoint
  <2>4. CASE Obtain
    BY <2>4 DEF Obtain, WarmReleaseRaises
  <2>5. CASE WarmReturns \/ Launch \/ Bind \/ ShotReturns
    BY <2>5 DEF WarmReturns, Launch, Bind, ShotReturns
  <2>6. CASE Cancel \/ CloseBegin \/ CloseWait \/ CloseEnd
    BY <2>6 DEF Cancel, CloseBegin, CloseWait, CloseEnd
  <2>7. ASSUME NEW p \in Servers, ServerStarts(p) \/ ServerChanges(p) \/ ServerGone(p)
        PROVE  UNCHANGED <<workerVars, at>>
    BY <2>7 DEF ServerStarts, ServerChanges, ServerGone
  <2>8. QED
    BY <2>1, <2>2, <2>3, <2>4, <2>5, <2>6, <2>7 DEF Native, Identity, Close
<1>2. ToWrite' => ToWrite
  <2>1. at = "obtain" => step = "none"
    BY DEF LaneInv, Places
  <2>2. UNCHANGED operation => (Refused' <=> Refused)
    BY <1>1 DEF Refused, Request
  <2>3. QED
    BY <1>1, <2>1, <2>2 DEF ToWrite
<1>3. Next
  BY DEF Next
<1>4. QED
  BY <1>1, <1>2, <1>3, QuietStep

\* The lines of a pipe after one is put in or taken out.
LEMMA PutLines ==
  ASSUME NEW S, NEW q \in Seq(S), NEW e \in S, NEW i \in DOMAIN Append(q, e)
  PROVE  \/ i \in DOMAIN q /\ Append(q, e)[i] = q[i]
         \/ i = Len(q) + 1 /\ Append(q, e)[i] = e
  OBVIOUS

LEMMA TakenLines ==
  ASSUME NEW S, NEW q \in Seq(S), q # <<>>, NEW i \in DOMAIN Tail(q)
  PROVE  i + 1 \in DOMAIN q /\ i + 1 # 1 /\ i \in Nat /\ Tail(q)[i] = q[i + 1]
  OBVIOUS

LEMMA FirstLine ==
  ASSUME NEW S, NEW q \in Seq(S), q # <<>> PROVE 1 \in DOMAIN q /\ Head(q) = q[1] /\ Head(q) \in S
  OBVIOUS

\* What a child writes: hello, or an answer to the first request of its pipe.
LEMMA WrittenLines ==
  ASSUME TypeInv, LaneInv, [Next]_vars, Pipes, NEW c \in Children,
         NEW e \in Answers \cup {Hello}, e = Hello \/ Written(e.request),
         stdout' = [stdout EXCEPT ![c] = Append(@, e)]
  PROVE  (\A d \in Children : \A i \in DOMAIN stdout[d] : stdout[d][i] # Hello => Written(stdout[d][i].request))'
<1> SUFFICES ASSUME NEW d \in Children, NEW i \in DOMAIN stdout'[d], stdout'[d][i] # Hello
             PROVE  Written(stdout[d][i].request)'
  OBVIOUS
<1>1. stdout \in [Children -> Seq(Answers \cup {Hello})]
  BY DEF TypeInv, TypeOK, WorkerTypeOK
<1>2. (i \in DOMAIN stdout[d] /\ stdout'[d][i] = stdout[d][i]) \/ stdout'[d][i] = e
  <2>1. CASE d = c
    <3>1. stdout'[d] = Append(stdout[d], e) /\ stdout[d] \in Seq(Answers \cup {Hello})
      BY <1>1, <2>1
    <3>2. QED
      BY <3>1, PutLines
  <2>2. CASE d # c
    BY <1>1, <2>2
  <2>3. QED
    BY <2>1, <2>2
<1>3. PICK a \in Answers \cup {Hello} : a = stdout'[d][i] /\ Written(a.request)
  <2>1. CASE i \in DOMAIN stdout[d] /\ stdout'[d][i] = stdout[d][i]
    BY <1>1, <2>1 DEF Pipes
  <2>2. CASE stdout'[d][i] = e
    BY <2>2
  <2>3. QED
    BY <1>2, <2>1, <2>2
<1>4. a.request \in Requests
  BY <1>3 DEF Answers
<1>5. Written(a.request)'
  BY <1>3, <1>4, WrittenStays
<1>6. QED
  BY <1>3, <1>5

\* A request that is in a pipe is written, also after the step.
LEMMA RequestLines ==
  ASSUME TypeInv, LaneInv, [Next]_vars, Pipes, NEW c \in Children, NEW i \in DOMAIN stdin[c]
  PROVE  stdin[c][i].task \in Tasks /\ \E r \in Requests : r = stdin[c][i] /\ Written(r)'
<1>1. stdin[c][i] \in Requests
  BY DEF TypeInv, TypeOK, WorkerTypeOK
<1>2. stdin[c][i].task \in Tasks
  BY <1>1 DEF Requests
<1>3. Written(stdin[c][i])
  BY DEF Pipes
<1>4. PICK r \in Requests : r = stdin[c][i]
  BY <1>1
<1>5. Written(r)'
  BY <1>3, <1>4, WrittenStays
<1>6. QED
  BY <1>1, <1>2, <1>4, <1>5

\* The child that runs is the only one.
LEMMA OthersIdle ==
  ASSUME TypeInv, OneChild, NEW c \in Children, life[c] \notin {"unused", "gone"}, NEW d \in Children, d # c
  PROVE  ~Serves(d)
  BY DEF OneChild, Serves

\* What serves after a step of a child is that child.
LEMMA ChildServes ==
  ASSUME TypeInv, LaneInv, NEW c \in Children, Child(c)
  PROVE  /\ life[c] \notin {"unused", "gone"} /\ UNCHANGED <<task, step, attempt>>
         /\ \A d \in Children : d # c => ~Serves(d) /\ ~Serves(d)' /\ life'[d] = life[d]
         /\ \A d \in Children : life'[d] = "unused" => life[d] = "unused"
         /\ life'[c] # "dying"
<1>1. /\ life[c] \notin {"unused", "gone"} /\ UNCHANGED <<task, step, attempt>>
      /\ \E stage \in {"gone", "waiting", "working", "rendering"} : life' = [life EXCEPT ![c] = stage]
  BY DEF Child, SayHello, IdleExit, Receive, RefuseSession, Render, BatchDone, BatchFails, Vanish, Exit, Keep, ChildOnly,
     operation
<1>2. life \in [Children -> {"unused", "starting", "waiting", "working", "rendering", "dying", "gone"}]
  BY DEF TypeInv, TypeOK, WorkerTypeOK
<1>3. \A d \in Children : d # c => ~Serves(d)
  BY <1>1, OthersIdle DEF LaneInv, TypeInv
<1>4. QED
  BY <1>1, <1>2, <1>3 DEF Serves

LEMMA ChildHello ==
  ASSUME TypeInv, LaneInv, PipeInv, Next, NEW c \in Children, Child(c), UNCHANGED at,
         SayHello(c) \/ IdleExit(c) \/ Receive(c) \/ Vanish(c)
  PROVE  PipeInv'
<1> USE DEF SayHello, IdleExit, Receive, Vanish, Exit, Keep, pipes
<1>1. /\ UNCHANGED <<stdin, rendered, task, step, attempt>>
      /\ \A d \in Children : /\ Serves(d)' => Serves(d) /\ (life'[d] = "rendering" <=> life[d] = "rendering")
                             /\ life'[d] = "unused" => life[d] = "unused"
  BY ChildServes DEF Serves, TypeInv, TypeOK, WorkerTypeOK
<1>2. CASE UNCHANGED stdout
  <2>1. Pipes'
    BY <1>1, <1>2, PipesStay DEF PipeInv
  <2>2. ToWrite' => ToWrite
    BY <1>1, <1>2 DEF ToWrite, Refused, Request
  <2>3. QED
    BY <1>1, <2>1, <2>2, RendersStay DEF PipeInv
<1>3. CASE SayHello(c)
  <2>1. stdout' = [stdout EXCEPT ![c] = Append(@, Hello)]
    BY <1>3
  <2>2. Pipes'
    <3>1. (\A d \in Children : \A i \in DOMAIN stdout[d] : stdout[d][i] # Hello => Written(stdout[d][i].request))'
      BY <2>1, WrittenLines DEF PipeInv
    <3>2. (\A d \in Children : \A i \in DOMAIN stdin[d] : Written(stdin[d][i]))'
      BY <1>1, RequestLines DEF PipeInv
    <3>3. QED
      BY <1>1, <3>1, <3>2 DEF Pipes, PipeInv
  <2>3. Refused' => Refused
    <3> SUFFICES ASSUME NEW d \in Children, NEW i \in DOMAIN stdout'[d], stdout'[d][i] = Answer("restart", Request)
                 PROVE  Refused
      BY <1>1 DEF Refused, Request
    <3>1. Hello # Answer("restart", Request)
      BY DEF Hello, Answer
    <3>2. stdout \in [Children -> Seq(Answers \cup {Hello})]
      BY DEF TypeInv, TypeOK, WorkerTypeOK
    <3>3. i \in DOMAIN stdout[d] /\ stdout[d][i] = Answer("restart", Request)
      <4>1. CASE d = c
        <5>1. stdout'[d] = Append(stdout[d], Hello) /\ stdout[d] \in Seq(Answers \cup {Hello})
          BY <2>1, <3>2, <4>1
        <5>2. QED
          BY <5>1, <3>1, PutLines
      <4>2. CASE d # c
        BY <2>1, <3>2, <4>2
      <4>3. QED
        BY <4>1, <4>2
    <3>4. QED
      BY <3>3 DEF Refused
  <2>4. Renders'
    BY <1>1, <2>3, RendersStay DEF PipeInv, ToWrite
  <2>5. QED
    BY <2>2, <2>4 DEF PipeInv
<1>4. QED
  BY <1>2, <1>3

\* The first request of a child at work.
LEMMA AtWork ==
  ASSUME TypeInv, PipeInv, NEW c \in Children, life[c] \in {"working", "rendering"}
  PROVE  /\ stdin[c] \in Seq(Requests) /\ stdin[c] # <<>> /\ 1 \in DOMAIN stdin[c] /\ Head(stdin[c]) = stdin[c][1]
         /\ Head(stdin[c]) \in Requests /\ Head(stdin[c]).task \in Tasks /\ Written(Head(stdin[c]))
<1>1. stdin[c] \in Seq(Requests) /\ stdin[c] # <<>>
  BY DEF TypeInv, TypeOK, WorkerTypeOK, Busy
<1>2. 1 \in DOMAIN stdin[c] /\ Head(stdin[c]) = stdin[c][1] /\ Head(stdin[c]) \in Requests
  BY <1>1, FirstLine
<1>3. Head(stdin[c]).task \in Tasks
  BY <1>2 DEF Requests
<1>4. QED
  BY <1>1, <1>2, <1>3 DEF PipeInv, Pipes

\* An answer and the exit: refused requests have not been rendered.
LEMMA ChildExits ==
  ASSUME TypeInv, LaneInv, PipeInv, Next, NEW c \in Children, Child(c), UNCHANGED at,
         RefuseSession(c) \/ BatchFails(c)
  PROVE  PipeInv'
<1> USE DEF RefuseSession, BatchFails, Exit
<1>1. life[c] \in {"working", "rendering"} /\ UNCHANGED <<stdin, rendered>>
  OBVIOUS
<1>2. /\ \A d \in Children : ~Serves(d)' /\ (life'[d] = "unused" => life[d] = "unused")
      /\ UNCHANGED <<task, step, attempt>>
  BY ChildServes DEF Serves, TypeInv, TypeOK, WorkerTypeOK
<1>3. PICK a \in Answers \cup {Hello} :
        /\ a # Hello /\ a.request = Head(stdin[c])
        /\ UNCHANGED stdout \/ stdout' = [stdout EXCEPT ![c] = Append(@, a)]
        /\ a.kind = "restart" => life[c] = "working"
  <2>1. CASE RefuseSession(c)
    BY <1>1, <2>1, AtWork, AnswerType DEF Reply
  <2>2. CASE BatchFails(c)
    BY <1>1, <2>2, AtWork, AnswerType DEF Reply
  <2>3. QED
    BY <2>1, <2>2
<1>4. Pipes'
  <2>1. (\A d \in Children : \A i \in DOMAIN stdout[d] : stdout[d][i] # Hello => Written(stdout[d][i].request))'
    <3>1. CASE UNCHANGED stdout
      BY <1>2, <1>1, <3>1, PipesStay DEF PipeInv, Pipes
    <3>2. CASE stdout' = [stdout EXCEPT ![c] = Append(@, a)]
      BY <1>1, <1>3, <3>2, AtWork, WrittenLines DEF PipeInv
    <3>3. QED
      BY <1>3, <3>1, <3>2
  <2>2. (\A d \in Children : \A i \in DOMAIN stdin[d] : Written(stdin[d][i]))'
    BY <1>1, RequestLines DEF PipeInv
  <2>3. QED
    BY <1>1, <1>2, <2>1, <2>2 DEF Pipes, PipeInv
<1>5. ASSUME Refused', ~Refused PROVE Untouched(task)'
  <2>1. PICK d \in Children : \E i \in DOMAIN stdout'[d] : stdout'[d][i] = Answer("restart", Request)
    BY <1>2, <1>5 DEF Refused, Request
  <2> PICK i \in DOMAIN stdout'[d] : stdout'[d][i] = Answer("restart", Request)
    BY <2>1
  <2>2. stdout \in [Children -> Seq(Answers \cup {Hello})]
    BY DEF TypeInv, TypeOK, WorkerTypeOK
  <2>3. (i \in DOMAIN stdout[d] /\ stdout'[d][i] = stdout[d][i]) \/ stdout'[d][i] = a
    <3>1. CASE UNCHANGED stdout
      BY <3>1
    <3>2. CASE stdout' = [stdout EXCEPT ![c] = Append(@, a)] /\ d = c
      <4>1. stdout'[d] = Append(stdout[d], a) /\ stdout[d] \in Seq(Answers \cup {Hello})
        BY <2>2, <3>2
      <4>2. QED
        BY <4>1, PutLines
    <3>3. CASE stdout' = [stdout EXCEPT ![c] = Append(@, a)] /\ d # c
      BY <2>2, <3>3
    <3>4. QED
      BY <1>3, <3>1, <3>2, <3>3
  <2>4. a = Answer("restart", Request)
    BY <1>5, <2>3 DEF Refused
  <2>5. a.kind = "restart" /\ a.request = Request
    BY <2>4 DEF Answer
  <2>6. life[c] = "working" /\ Head(stdin[c]).task = task
    BY <1>3, <2>5 DEF Request
  <2>7. rendered[task] = 0
    BY <1>1, <2>6, AtWork DEF PipeInv, Renders, Serves
  <2>8. QED
    BY <1>1, <1>2, <2>7 DEF Untouched
<1>6. ASSUME NEW t, Untouched(t) PROVE Untouched(t)'
  BY <1>1, <1>2, <1>6 DEF Untouched
<1>7. (ToWrite => Untouched(task))'
  BY <1>2, <1>5, <1>6 DEF ToWrite, PipeInv, Renders
<1>8. (\A t \in Tasks : t > task => Untouched(t))'
  BY <1>2, <1>6 DEF PipeInv, Renders
<1>9. Renders'
  BY <1>1, <1>2, <1>7, <1>8 DEF PipeInv, Renders
<1>10. QED
  BY <1>4, <1>9 DEF PipeInv

\* A request is rendered for the first time.
LEMMA ChildRenders ==
  ASSUME TypeInv, LaneInv, PipeInv, Next, NEW c \in Children, Child(c), UNCHANGED at, Render(c)
  PROVE  PipeInv'
<1> DEFINE r == Head(stdin[c])
<1>1. /\ life[c] = "working" /\ life' = [life EXCEPT ![c] = "rendering"] /\ UNCHANGED <<stdin, stdout>>
      /\ rendered' = [rendered EXCEPT ![r.task] = @ + 1]
  BY DEF Render, pipes
<1>2. /\ \A d \in Children : d # c => ~Serves(d)'
      /\ \A d \in Children : life'[d] = "unused" => life[d] = "unused"
      /\ UNCHANGED <<task, step, attempt>>
  BY ChildServes
<1>3. 1 \in DOMAIN stdin[c] /\ r = stdin[c][1] /\ r.task \in Tasks
  BY <1>1, AtWork
<1> HIDE DEF r
<1>4. rendered[r.task] = 0 /\ rendered'[r.task] = 1 /\ \A t \in Tasks : t # r.task => rendered'[t] = rendered[t]
  <2>1. rendered[r.task] = 0
    BY <1>1, <1>3 DEF PipeInv, Renders, Serves
  <2>2. rendered \in [Tasks -> Nat]
    BY DEF TypeInv, TypeOK, WorkerTypeOK
  <2>3. QED
    BY <1>1, <1>3, <2>1, <2>2
<1>5. Pipes'
  BY <1>1, <1>2, PipesStay DEF PipeInv
<1>6. ASSUME NEW t \in Tasks, Untouched(t) PROVE Untouched(t)'
  <2>1. t # r.task
    BY <1>1, <1>3, <1>6 DEF Untouched, Serves
  <2>2. QED
    BY <1>1, <1>2, <1>4, <1>6, <2>1 DEF Untouched, Serves
<1>7. ToWrite' => ToWrite
  BY <1>1, <1>2 DEF ToWrite, Refused, Request
<1>8. ToWrite => task \in Tasks
  BY DEF ToWrite, TypeInv, Numbered, LaneInv, Places
<1>9. (ToWrite => Untouched(task))'
  BY <1>2, <1>6, <1>7, <1>8 DEF PipeInv, Renders
<1>10. (\A t \in Tasks : t > task => Untouched(t))'
  BY <1>2, <1>6 DEF PipeInv, Renders
<1>11. \A t \in Tasks : rendered'[t] <= 1
  BY <1>4 DEF PipeInv, Renders
<1>12. (\A d \in Children : Serves(d) =>
          /\ \A i \in DOMAIN stdin[d] : i # 1 \/ life[d] # "rendering" => rendered[stdin[d][i].task] = 0
          /\ \A i, k \in DOMAIN stdin[d] : stdin[d][i].task = stdin[d][k].task => i = k)'
  <2>1. \A i, k \in DOMAIN stdin[c] : stdin[c][i].task = stdin[c][k].task => i = k
    BY <1>1 DEF PipeInv, Renders, Serves
  <2>2. ASSUME NEW i \in DOMAIN stdin[c], i # 1 PROVE rendered'[stdin[c][i].task] = 0
    <3>1. stdin[c][i].task # r.task
      BY <1>3, <2>1, <2>2
    <3>2. stdin[c][i].task \in Tasks
      BY RequestLines DEF PipeInv
    <3>3. QED
      BY <1>1, <1>4, <3>1, <3>2 DEF PipeInv, Renders, Serves
  <2>3. life'[c] = "rendering"
    BY <1>1 DEF TypeInv, TypeOK, WorkerTypeOK
  <2>4. QED
    BY <1>1, <1>2, <2>1, <2>2, <2>3
<1>13. Renders'
  BY <1>9, <1>10, <1>11, <1>12 DEF Renders
<1>14. QED
  BY <1>5, <1>13 DEF PipeInv

LEMMA ChildDone ==
  ASSUME TypeInv, LaneInv, PipeInv, Next, NEW c \in Children, Child(c), UNCHANGED at, BatchDone(c)
  PROVE  PipeInv'
<1> DEFINE a == Answer("ok", Head(stdin[c]))
<1>1. /\ life[c] = "rendering" /\ life' = [life EXCEPT ![c] = "waiting"] /\ UNCHANGED rendered
      /\ stdout' = [stdout EXCEPT ![c] = Append(@, a)] /\ stdin' = [stdin EXCEPT ![c] = Tail(@)]
  BY DEF BatchDone, Keep, Reply
<1>2. /\ \A d \in Children : d # c => ~Serves(d)'
      /\ \A d \in Children : life'[d] = "unused" => life[d] = "unused"
      /\ UNCHANGED <<task, step, attempt>>
  BY ChildServes
<1>3. a \in Answers /\ a.request = Head(stdin[c]) /\ a.kind = "ok" /\ Written(a.request)
  BY <1>1, AtWork, AnswerType
<1> HIDE DEF a
<1>4. /\ \A d \in Children : d # c => stdin'[d] = stdin[d]
      /\ \A i \in DOMAIN stdin'[c] : i + 1 \in DOMAIN stdin[c] /\ i \in Nat /\ i + 1 # 1 /\ stdin'[c][i] = stdin[c][i + 1]
  <2>1. stdin'[c] = Tail(stdin[c]) /\ stdin[c] \in Seq(Requests) /\ stdin[c] # <<>>
    BY <1>1, AtWork DEF TypeInv, TypeOK, WorkerTypeOK
  <2>2. QED
    BY <1>1, <2>1, TakenLines DEF TypeInv, TypeOK, WorkerTypeOK
<1>5. Pipes'
  <2>1. (\A d \in Children : \A i \in DOMAIN stdout[d] : stdout[d][i] # Hello => Written(stdout[d][i].request))'
    BY <1>1, <1>3, WrittenLines DEF PipeInv
  <2>2. (\A d \in Children : \A i \in DOMAIN stdin[d] : Written(stdin[d][i]))'
    BY <1>4, RequestLines DEF PipeInv
  <2>3. (\A d \in Children : life[d] = "unused" => stdin[d] = <<>>)'
    BY <1>1, <1>2, <1>4 DEF PipeInv, Pipes
  <2>4. QED
    BY <2>1, <2>2, <2>3 DEF Pipes
<1>6. ASSUME NEW t, Untouched(t) PROVE Untouched(t)'
  BY <1>1, <1>2, <1>4, <1>6 DEF Untouched, Serves
<1>7. Refused' => Refused
  <2> SUFFICES ASSUME NEW d \in Children, NEW i \in DOMAIN stdout'[d], stdout'[d][i] = Answer("restart", Request)
               PROVE  Refused
    BY <1>2 DEF Refused, Request
  <2>1. a # Answer("restart", Request)
    BY <1>3 DEF Answer
  <2>2. stdout \in [Children -> Seq(Answers \cup {Hello})]
    BY DEF TypeInv, TypeOK, WorkerTypeOK
  <2>3. i \in DOMAIN stdout[d] /\ stdout[d][i] = Answer("restart", Request)
    <3>1. CASE d = c
      <4>1. stdout'[d] = Append(stdout[d], a) /\ stdout[d] \in Seq(Answers \cup {Hello})
        BY <1>1, <2>2, <3>1
      <4>2. QED
        BY <1>3, <4>1, <2>1, PutLines
    <3>2. CASE d # c
      BY <1>1, <2>2, <3>2
    <3>3. QED
      BY <3>1, <3>2
  <2>4. QED
    BY <2>3 DEF Refused
<1>8. (ToWrite => Untouched(task))'
  BY <1>2, <1>6, <1>7 DEF ToWrite, PipeInv, Renders
<1>9. (\A t \in Tasks : t > task => Untouched(t))'
  BY <1>2, <1>6 DEF PipeInv, Renders
<1>10. (\A d \in Children : Serves(d) =>
          /\ \A i \in DOMAIN stdin[d] : i # 1 \/ life[d] # "rendering" => rendered[stdin[d][i].task] = 0
          /\ \A i, k \in DOMAIN stdin[d] : stdin[d][i].task = stdin[d][k].task => i = k)'
  <2>1. \A i \in DOMAIN stdin[c] : i # 1 => rendered[stdin[c][i].task] = 0
    BY <1>1 DEF PipeInv, Renders, Serves
  <2>2. \A i, k \in DOMAIN stdin[c] : stdin[c][i].task = stdin[c][k].task => i = k
    BY <1>1 DEF PipeInv, Renders, Serves
  <2>3. \A i \in DOMAIN stdin'[c] : rendered'[stdin'[c][i].task] = 0
    BY <1>1, <1>4, <2>1
  <2>4. ASSUME NEW i \in DOMAIN stdin'[c], NEW k \in DOMAIN stdin'[c], stdin'[c][i].task = stdin'[c][k].task PROVE i = k
    <3>1. i + 1 = k + 1 /\ i \in Nat /\ k \in Nat
      BY <1>4, <2>2, <2>4
    <3>2. QED
      BY <3>1
  <2>5. QED
    BY <1>2, <2>3, <2>4
<1>11. Renders'
  BY <1>1, <1>8, <1>9, <1>10 DEF Renders, PipeInv
<1>12. QED
  BY <1>5, <1>11 DEF PipeInv

LEMMA ChildPipes ==
  ASSUME TypeInv, LaneInv, PipeInv, Next, NEW c \in Children, Child(c), UNCHANGED at
  PROVE  PipeInv'
  BY ChildHello, ChildExits, ChildRenders, ChildDone DEF Child

\* The operation reads a line, or none.
LEMMA LineRead ==
  ASSUME TypeInv, LaneInv, PipeInv, Next, UNCHANGED <<life, stdin, rendered, task, attempt, at>>,
         \/ UNCHANGED stdout
         \/ \E c \in Children \cup {None} : stdout[c] # <<>> /\ stdout' = [stdout EXCEPT ![c] = Tail(@)],
         step = "wait" => step' # "wait",
         step' \in {"none", "start", "hello", "write", "restart", "wait"} => ToWrite
  PROVE  PipeInv'
<1>1. stdout \in [Children -> Seq(Answers \cup {Hello})]
  BY DEF TypeInv, TypeOK, WorkerTypeOK
<1>2. ASSUME NEW d \in Children, NEW i \in DOMAIN stdout'[d] PROVE \E k \in DOMAIN stdout[d] : stdout'[d][i] = stdout[d][k]
  <2>1. CASE stdout'[d] = stdout[d]
    BY <1>2, <2>1
  <2>2. CASE stdout[d] # <<>> /\ stdout'[d] = Tail(stdout[d])
    BY <1>1, <1>2, <2>2, TakenLines
  <2>3. QED
    BY <1>1, <2>1, <2>2
<1>3. (\A d \in Children : \A i \in DOMAIN stdout[d] : stdout[d][i] # Hello => Written(stdout[d][i].request))'
  <2> SUFFICES ASSUME NEW d \in Children, NEW i \in DOMAIN stdout'[d], stdout'[d][i] # Hello
               PROVE  Written(stdout[d][i].request)'
    OBVIOUS
  <2>1. PICK k \in DOMAIN stdout[d] : stdout'[d][i] = stdout[d][k]
    BY <1>2
  <2>2. stdout[d][k] \in Answers /\ Written(stdout[d][k].request)
    BY <1>1, <2>1 DEF PipeInv, Pipes
  <2>3. PICK r \in Requests : r = stdout[d][k].request /\ Written(r)
    BY <2>2 DEF Answers
  <2>4. Written(r)'
    BY <2>3, WrittenStays
  <2>5. QED
    BY <2>1, <2>3, <2>4
<1>4. (\A d \in Children : \A i \in DOMAIN stdin[d] : Written(stdin[d][i]))'
  BY RequestLines DEF PipeInv
<1>5. Pipes'
  BY <1>3, <1>4 DEF Pipes, PipeInv
<1>6. ToWrite' => ToWrite
  BY DEF ToWrite
<1>7. Renders'
  BY <1>6, RendersStay DEF PipeInv, Serves
<1>8. QED
  BY <1>5, <1>7 DEF PipeInv

LEMMA StartPipes == ASSUME TypeInv, LaneInv, PipeInv, Next, UNCHANGED at, Start PROVE PipeInv'
<1>1. /\ UNCHANGED <<stdin, stdout, rendered, task, attempt>> /\ step = "start" /\ step' \in {"hello", "write", "abort"}
      /\ at # "idle"
  BY DEF Start, Fails, children, pipes, ledger, LaneInv, Places
<1>2. CASE UNCHANGED life
  BY <1>1, <1>2, QuietStep DEF ToWrite
<1>3. ASSUME NEW c \in Children, life[c] = "unused", life' = [life EXCEPT ![c] = "starting"], ~Alive PROVE PipeInv'
  <2>1. /\ stdin[c] = <<>> /\ \A d \in Children : ~Serves(d)
        /\ \A d \in Children : d # c => ~Serves(d)'
        /\ \A d \in Children : life'[d] = "unused" => life[d] = "unused"
    <3>1. \A d \in Children : life[d] \in {"unused", "gone"}
      BY <1>3, LaneAssumption DEF LaneInv, OneChild, Alive
    <3>2. QED
      BY <1>3, <3>1 DEF PipeInv, Pipes, Serves, TypeInv, TypeOK, WorkerTypeOK
  <2>2. Pipes'
    BY <1>1, <2>1, PipesStay DEF PipeInv
  <2>3. ASSUME NEW t, Untouched(t) PROVE Untouched(t)'
    BY <1>1, <2>1, <2>3 DEF Untouched
  <2>4. Renders'
    BY <1>1, <2>1, <2>3 DEF PipeInv, Renders, ToWrite
  <2>5. QED
    BY <2>2, <2>4 DEF PipeInv
<1>4. QED
  BY <1>2, <1>3 DEF Start, children

\* The request of a task is written when none of it is there, and never twice
\* for a child that has rendered it.
LEMMA WritePipes == ASSUME TypeInv, LaneInv, PipeInv, Next, UNCHANGED at, WriteRequest PROVE PipeInv'
<1>1. /\ UNCHANGED <<life, stdout, rendered, task, attempt>> /\ step = "write" /\ at # "idle" /\ task \in Tasks
  BY DEF WriteRequest, Fails, ledger, LaneInv, Places, Waiting, TypeInv, Numbered
<1>2. ToWrite
  BY <1>1 DEF ToWrite
<1>3. CASE UNCHANGED stdin /\ step' = "abort"
  BY <1>1, <1>2, <1>3, QuietStep
<1>4. CASE stdin' = [stdin EXCEPT ![using] = Append(@, Request)] /\ step' = "wait"
  <2>1. Request \in Requests /\ Request.task = task /\ Written(Request)'
    <3>1. Request \in Requests /\ Request.task = task
      BY <1>1, RequestType DEF TypeInv, TypeOK, WorkerTypeOK
    <3>2. PICK r \in Requests : r = Request /\ r.task = task /\ r.attempt = attempt
      BY <3>1 DEF Request
    <3>3. at' = "warm"
      BY <1>1 DEF LaneInv, Places
    <3>4. Request' = Request
      BY <1>1 DEF Request
    <3>5. Written(Request)'
      BY <1>1, <1>4, <3>2, <3>3, <3>4 DEF Written, Request
    <3>6. QED
      BY <3>1, <3>5
  <2>2. stdin \in [Children -> Seq(Requests)]
    BY DEF TypeInv, TypeOK, WorkerTypeOK
  <2>3. ASSUME NEW d \in Children, NEW i \in DOMAIN stdin'[d]
        PROVE  \/ i \in DOMAIN stdin[d] /\ stdin'[d][i] = stdin[d][i]
               \/ i = Len(stdin[d]) + 1 /\ i \notin DOMAIN stdin[d] /\ stdin'[d][i] = Request
    <3>1. CASE stdin'[d] = stdin[d]
      BY <2>3, <3>1
    <3>2. CASE stdin'[d] = Append(stdin[d], Request)
      BY <2>1, <2>2, <2>3, <3>2, PutLines
    <3>3. QED
      BY <1>4, <2>2, <3>1, <3>2
  <2>4. ~Refused'
    <3>1. ~Written(Request)
      BY <1>1, RequestUnwritten
    <3>2. Answer("restart", Request) # Hello /\ Answer("restart", Request).request = Request
      BY <2>1, AnswerType
    <3>3. ~Refused
      BY <3>1, <3>2 DEF Refused, PipeInv, Pipes
    <3>4. QED
      BY <1>1, <3>3 DEF Refused, Request
  <2>5. Pipes'
    <3>1. (\A d \in Children : \A i \in DOMAIN stdout[d] : stdout[d][i] # Hello => Written(stdout[d][i].request))'
      <4> SUFFICES ASSUME NEW d \in Children, NEW i \in DOMAIN stdout'[d], stdout'[d][i] # Hello
                   PROVE  Written(stdout[d][i].request)'
        OBVIOUS
      <4>1. stdout[d][i] \in Answers /\ Written(stdout[d][i].request)
        BY <1>1 DEF PipeInv, Pipes, TypeInv, TypeOK, WorkerTypeOK
      <4>2. PICK r \in Requests : r = stdout[d][i].request /\ Written(r)
        BY <4>1 DEF Answers
      <4>3. Written(r)'
        BY <4>2, WrittenStays
      <4>4. QED
        BY <1>1, <4>2, <4>3
    <3>2. (\A d \in Children : \A i \in DOMAIN stdin[d] : Written(stdin[d][i]))'
      <4> SUFFICES ASSUME NEW d \in Children, NEW i \in DOMAIN stdin'[d] PROVE Written(stdin[d][i])'
        OBVIOUS
      <4>1. CASE i \in DOMAIN stdin[d] /\ stdin'[d][i] = stdin[d][i]
        BY <4>1, RequestLines DEF PipeInv
      <4>2. CASE stdin'[d][i] = Request
        <5>1. Request' = Request
          BY <1>1 DEF Request
        <5>2. QED
          BY <2>1, <4>2, <5>1
      <4>3. QED
        BY <2>3, <4>1, <4>2
    <3>3. using # None => \A d \in Children : life[d] = "unused" => d # using
      BY <1>1 DEF WriteRequest, Waiting, LaneInv, OneChild
    <3>4. (\A d \in Children : life[d] = "unused" => stdin[d] = <<>>)'
      BY <1>1, <1>4, <2>2, <3>3, LaneAssumption DEF PipeInv, Pipes
    <3>5. QED
      BY <3>1, <3>2, <3>4 DEF Pipes
  <2>6. Untouched(task)
    BY <1>2 DEF PipeInv, Renders
  <2>7. ASSUME NEW d \in Children, Serves(d)
        PROVE  /\ \A i \in DOMAIN stdin'[d] : i # 1 \/ life[d] # "rendering" => rendered[stdin'[d][i].task] = 0
               /\ \A i, k \in DOMAIN stdin'[d] : stdin'[d][i].task = stdin'[d][k].task => i = k
    <3>1. /\ \A i \in DOMAIN stdin[d] : i # 1 \/ life[d] # "rendering" => rendered[stdin[d][i].task] = 0
          /\ \A i, k \in DOMAIN stdin[d] : stdin[d][i].task = stdin[d][k].task => i = k
          /\ \A i \in DOMAIN stdin[d] : stdin[d][i].task # task
          /\ rendered[task] = 0
      BY <2>6, <2>7 DEF PipeInv, Renders, Untouched
    <3>2. QED
      BY <2>1, <2>3, <3>1
  <2>8. ASSUME NEW t \in Tasks, t > task, Untouched(t) PROVE Untouched(t)'
    <3>1. t # task
      BY <2>8, LaneAssumption DEF TypeInv, TypeOK, WorkerTypeOK, Tasks
    <3>2. QED
      BY <1>1, <2>1, <2>3, <2>8, <3>1 DEF Untouched, Serves
  <2>9. Renders'
    BY <1>1, <1>4, <2>4, <2>7, <2>8 DEF Renders, PipeInv, ToWrite, Serves
  <2>10. QED
    BY <2>5, <2>9 DEF PipeInv
<1>5. QED
  BY <1>3, <1>4 DEF WriteRequest, Fails

\* What was refused has been rendered by nobody: it may be asked again.
LEMMA OperationPipes ==
  ASSUME TypeInv, LaneInv, PipeInv, Uses, Next, at = "warm", UNCHANGED at, Operation \/ Interrupted
  PROVE  PipeInv'
<1>1. CASE Interrupted
  <2>1. UNCHANGED <<life, stdin, stdout, rendered, task, attempt>> /\ step' = "abort"
    BY <1>1 DEF Interrupted, Fails, children, pipes, ledger
  <2>2. QED
    BY <2>1, QuietStep DEF ToWrite
<1>2. CASE ConfirmOwnership
  <2>1. /\ UNCHANGED <<life, stdin, rendered, task, attempt>> /\ step = "hello" /\ step' \in {"write", "abort"}
        /\ \/ UNCHANGED stdout
           \/ stdout[using] # <<>> /\ stdout' = [stdout EXCEPT ![using] = Tail(@)]
    BY <1>2 DEF ConfirmOwnership, Waiting, Fails, ledger
  <2>2. ToWrite /\ using \in Children \cup {None}
    BY <2>1 DEF ToWrite, TypeInv, TypeOK, WorkerTypeOK
  <2>3. QED
    BY <2>1, <2>2, LineRead
<1>3. CASE ReadAnswer
  <2>1. /\ UNCHANGED <<life, stdin, rendered, task, attempt>> /\ step = "wait" /\ step' \in {"done", "restart", "abort"}
        /\ \/ UNCHANGED stdout
           \/ stdout[using] # <<>> /\ stdout' = [stdout EXCEPT ![using] = Tail(@)]
        /\ step' = "restart" => stdout[using] # <<>> /\ Head(stdout[using]) = Answer("restart", Request)
    BY <1>3 DEF ReadAnswer, Waiting, Fails
  <2>2. using \in Children
    BY <1>3 DEF ReadAnswer, Waiting, Uses, TypeInv, TypeOK, WorkerTypeOK
  <2>3. step' = "restart" => ToWrite
    BY <2>1, <2>2, FirstLine DEF ToWrite, Refused, TypeInv, TypeOK, WorkerTypeOK
  <2>4. QED
    BY <2>1, <2>2, <2>3, LineRead
<1>4. CASE Restart \/ Abort
  <2>1. /\ UNCHANGED <<stdin, stdout, rendered, task>> /\ (Released \/ ReleaseRaises)
        /\ step' \in {"done", "abort"} \/ (step' = "start" /\ step = "restart")
    <3>1. CASE Restart
      BY <3>1 DEF Restart, Fails, pipes, ledger
    <3>2. CASE Abort
      BY <3>2 DEF Abort, pipes, ledger
    <3>3. QED
      BY <1>4, <3>1, <3>2
  <2>2. ToWrite' => ToWrite
    BY <2>1 DEF ToWrite
  <2>3. QED
    BY <2>1, <2>2, QuietStep
<1>5. QED
  BY <1>1, <1>2, <1>3, <1>4, StartPipes, WritePipes DEF Operation

LEMMA UsesStep == TypeInv /\ LaneInv /\ Uses /\ [Next]_vars => Uses'
<1> SUFFICES ASSUME TypeInv, LaneInv, Uses, [Next]_vars PROVE Uses'
  OBVIOUS
<1> USE LaneAssumption DEF Uses, OnlyLane, WarmUnchanged, workerVars, operation
<1>1. CASE WarmStep
  <2>1. CASE Start
    BY <2>1, LaneAssumption DEF Start, Fails, Alive
  <2>2. CASE Interrupted \/ ConfirmOwnership \/ WriteRequest \/ ReadAnswer \/ Restart \/ Abort
    BY <2>2 DEF Interrupted, ConfirmOwnership, WriteRequest, ReadAnswer, Restart, Abort, Waiting, Fails
  <2>3. QED
    BY <1>1, <2>1, <2>2 DEF WarmStep, Operation
<1>2. CASE Native \/ (Identity /\ ~WarmStep)
  <2>1. UNCHANGED <<step, using>> \/ step' \in {"none", "start"}
    BY <1>2 DEF Native, Barrier, Probe, Starting, Generate, Spawn, CliEnds, Identity, ReleaseNative, Reap, Endpoint,
       Obtain, WarmReturns, Clear, Launch, Bind, ShotReturns
  <2>2. QED
    BY <2>1
<1>3. CASE Take \/ Cancel \/ CloseBegin \/ Close \/ Crash
  BY <1>3 DEF Take, Cancel, CloseBegin, Close, CloseRelease, CloseWait, CloseEnd, Crash
<1>4. ASSUME NEW c \in Children, Child(c) PROVE UNCHANGED <<step, using>>
  BY <1>4 DEF Child, SayHello, IdleExit, Receive, RefuseSession, Render, BatchDone, BatchFails, Vanish, ChildOnly
<1>5. ASSUME NEW p \in Servers, ServerStarts(p) \/ ServerChanges(p) \/ ServerGone(p) PROVE UNCHANGED <<step, using>>
  BY <1>5 DEF ServerStarts, ServerChanges, ServerGone
<1>6. CASE UNCHANGED vars \/ \E of \in DOMAIN left : LeftEnds(of)
  BY <1>6 DEF vars, LeftEnds
<1>7. QED
  BY <1>1, <1>2, <1>3, <1>4, <1>5, <1>6 DEF Next

LEMMA PipeStep == TypeInv /\ LaneInv /\ PipeInv /\ Uses /\ [Next]_vars => PipeInv'
<1>1. ASSUME TypeInv, LaneInv, PipeInv, [Next]_vars, UNCHANGED vars \/ \E of \in DOMAIN left : LeftEnds(of)
      PROVE  PipeInv'
  <2>1. UNCHANGED <<life, stdin, stdout, rendered, task>> /\ (ToWrite' => ToWrite)
    BY <1>1 DEF vars, LeftEnds, workerVars, children, pipes, operation, ledger, lane, ToWrite, Refused, Request
  <2>2. QED
    BY <1>1, <2>1, QuietStep
<1>2. ASSUME TypeInv, LaneInv, PipeInv, Uses, WarmStep PROVE PipeInv'
  BY <1>2, OperationPipes DEF WarmStep, lane, Next, Identity
<1>3. ASSUME TypeInv, LaneInv, PipeInv, NEW c \in Children, Child(c), UNCHANGED <<native, shot, lane, closer, orphans, left, crashes>>
      PROVE  PipeInv'
  BY <1>3, ChildPipes DEF lane, Next
<1>4. QED
  BY <1>1, <1>2, <1>3, TakePipes, LanePipes, CrashPipes DEF Next

LEMMA PipeAlways == Spec => []PipeInv
<1>1. Init => TypeInv /\ LaneInv /\ PipeInv /\ Uses
  BY TypeInit, LaneInit, PipeInit DEF Init, InitWorker, Uses
<1>2. TypeInv /\ LaneInv /\ PipeInv /\ Uses /\ [Next]_vars => TypeInv' /\ LaneInv' /\ PipeInv' /\ Uses'
  BY TypeStep, LaneStep, PipeStep, UsesStep
<1>3. QED
  BY <1>1, <1>2, PTL DEF Spec

\* No operation renders twice: a request is only written again after a child
\* refused it without rendering, and the child that refused is gone, through
\* failed releases, exits of children and of the service
\* (identity_persistent_worker.py:134-205, 409-477).
THEOREM RenderedOnce == Spec => []RendersOnce
<1>1. PipeInv => RendersOnce
  BY DEF PipeInv, Renders, RendersOnce
<1>2. QED
  BY <1>1, PipeAlways, PTL

\* The answer that an operation takes is the answer to its own request, never
\* one to an older request that is still in the pipe (409-477).
THEOREM AnswersAreOwn == Spec => []AnswerIsOwn
<1>1. Init => AnswerIsOwn
  BY DEF Init, InitWorker, AnswerIsOwn
<1>2. ASSUME TypeInv, AnswerIsOwn, [Next]_vars PROVE AnswerIsOwn'
  <2>1. CASE ReadAnswer
    <3>1. CASE UNCHANGED accepted
      BY <1>2, <3>1 DEF AnswerIsOwn
    <3>2. CASE /\ Head(stdout[using]) = Answer("ok", Request)
               /\ accepted' = [accepted EXCEPT ![task] = Head(stdout[using]).request.task]
      <4>1. Head(stdout[using]).request.task = task
        BY <3>2 DEF Answer, Request
      <4>2. accepted' = [accepted EXCEPT ![task] = task]
        BY <3>2, <4>1
      <4>3. QED
        BY <1>2, <4>2 DEF AnswerIsOwn, TypeInv, TypeOK, WorkerTypeOK
    <3>3. QED
      BY <2>1, <3>1, <3>2 DEF ReadAnswer
  <2>2. CASE ~ReadAnswer
    <3> USE <1>2, <2>2 DEF ledger, workerVars, OnlyLane, WarmUnchanged
    <3>1. CASE Take \/ Cancel \/ CloseBegin \/ Close \/ Crash
      BY <3>1 DEF Take, Cancel, CloseBegin, Close, CloseRelease, CloseWait, CloseEnd, Crash, AnswerIsOwn
    <3>2. CASE Native
      BY <3>2 DEF Native, Barrier, Probe, Starting, Generate, Spawn, CliEnds, AnswerIsOwn
    <3>3. CASE WarmStep
      BY <3>3 DEF WarmStep, Operation, Interrupted, Start, ConfirmOwnership, WriteRequest, Restart, Abort, AnswerIsOwn
    <3>4. CASE Identity /\ ~WarmStep
      BY <3>4 DEF Identity, ReleaseNative, Reap, Endpoint, Obtain, WarmReturns, Clear, Launch, Bind, ShotReturns, AnswerIsOwn
    <3>5. ASSUME NEW c \in Children, Child(c) PROVE AnswerIsOwn'
      BY <3>5 DEF Child, SayHello, IdleExit, Receive, RefuseSession, Render, BatchDone, BatchFails, Vanish, ChildOnly, AnswerIsOwn
    <3>6. ASSUME NEW p \in Servers, ServerStarts(p) \/ ServerChanges(p) \/ ServerGone(p) PROVE AnswerIsOwn'
      BY <3>6 DEF ServerStarts, ServerChanges, ServerGone, AnswerIsOwn
    <3>7. CASE UNCHANGED vars \/ \E of \in DOMAIN left : LeftEnds(of)
      BY <3>7 DEF vars, LeftEnds, AnswerIsOwn
    <3>8. QED
      BY <3>1, <3>2, <3>3, <3>4, <3>5, <3>6, <3>7 DEF Next
  <2>3. QED
    BY <2>1, <2>2
<1>3. QED
  BY <1>1, <1>2, TypeAlways, PTL DEF Spec

=============================================================================
