-------------------------- MODULE PersistentWorker --------------------------
(***************************************************************************)
(* The warm identity worker: a child process that keeps one model session  *)
(* (WarmBatchWorker and serve in identity_persistent_worker.py) and the    *)
(* service's client for it (PersistentWorkerClient, and the slot of        *)
(* IdentityService that holds the client).                                 *)
(*                                                                         *)
(* Client and child talk over two pipes.  A request is answered once or    *)
(* the child exits; the client checks before each wait whether the request *)
(* was cancelled, the child replaced or the deadline passed, and releases  *)
(* the child after any error.  Releasing may itself fail: the client then  *)
(* keeps the child it could not see exit.  GpuLane says when operations    *)
(* run and who releases the worker besides them.                           *)
(***************************************************************************)
EXTENDS Naturals, Sequences

CONSTANTS
    Children,    \* processes that may be started, numbered as they start
    None,        \* no process
    MaxTasks,    \* tasks of the lane; a warm operation has its task's number
    MaxFaults    \* failed system calls

VARIABLES
    life,        \* where each child is in serve, or "unused" or "gone"
    loaded,      \* children that hold a session, hence GPU memory
    stdin, stdout,       \* lines in the pipes of each child
    client,      \* the service's client: "none", "open" or "closed"
    proc,        \* child of the client
    confirmed,   \* the child said hello and is bound to the service
    step, attempt,       \* the running operation
    using,       \* child the operation talks to
    task,        \* its number
    cancelled,   \* its cancel event
    rendered,    \* renders that each operation caused
    accepted,    \* operation whose answer each operation took, 0 when none
    faults

pipes == <<stdin, stdout>>
operation == <<step, attempt, using>>
children == <<life, loaded, pipes>>
ledger == <<rendered, accepted>>
slot == <<client, proc, confirmed>>
workerVars == <<children, slot, operation, task, cancelled, ledger, faults>>

Tasks == 1..MaxTasks
Requests == [task : Tasks, attempt : 0..1]
Hello == [kind |-> "hello"]
Answer(kind, request) == [kind |-> kind, request |-> request]
Answers == [kind : {"ok", "failed", "restart"}, request : Requests]

InitWorker ==
    /\ life = [c \in Children |-> "unused"] /\ loaded = {}
    /\ stdin = [c \in Children |-> <<>>] /\ stdout = [c \in Children |-> <<>>]
    /\ client = "none" /\ proc = None /\ confirmed = FALSE
    /\ step = "none" /\ attempt = 0 /\ using = None /\ task = 0 /\ cancelled = FALSE
    /\ rendered = [t \in Tasks |-> 0] /\ accepted = [t \in Tasks |-> 0]
    /\ faults = 0

Fault == faults < MaxFaults /\ faults' = faults + 1

\* The client has a child that has not exited.
Alive == proc # None /\ life[proc] # "gone"

\* The process is gone, and with it its memory and its session.
Exit(c) == life' = [life EXCEPT ![c] = "gone"] /\ loaded' = loaded \ {c}

-----------------------------------------------------------------------------
(* Releasing the child (WorkerLifetime.close, _release).                    *)

\* _release and the job object behind it: returns once the exit of every
\* process of the tree has been observed.
Released ==
    /\ IF proc = None THEN UNCHANGED <<life, loaded>> ELSE Exit(proc)
    /\ proc' = None /\ confirmed' = FALSE
    /\ UNCHANGED faults

\* A system call fails, or the tree does not exit in time: before or after
\* the termination.  Every handle is kept.
ReleaseRaises ==
    /\ Fault
    /\ Alive
    /\ life' \in {life, [life EXCEPT ![proc] = "dying"]}
    /\ UNCHANGED <<loaded, proc, confirmed>>

\* release_warm_worker: close the client, then forget it.
WarmReleased ==
    /\ Released /\ client' = "none"
WarmReleaseRaises ==
    /\ ReleaseRaises /\ client' = "closed"

-----------------------------------------------------------------------------
(* PersistentWorkerClient.run_operation, for the task of the lane.          *)

Fails == step' = "abort" /\ UNCHANGED <<attempt, using>>
Waiting(s) == step = s /\ ~cancelled /\ proc = using
Request == [task |-> task, attempt |-> attempt]

\* _check_wait raises: cancelled, released by another thread, or too late.
Interrupted ==
    /\ step \in {"hello", "write", "wait"}
    /\ Fails
    /\ UNCHANGED <<children, slot, task, cancelled, ledger, faults>>

\* _start: a child that has exited is cleared away, a new one is started when
\* there is none.
Start ==
    /\ step = "start"
    /\ \/ (cancelled \/ client # "open") /\ Fails /\ UNCHANGED <<children, slot>>
       \/ /\ ~cancelled /\ client = "open" /\ Alive
          /\ using' = proc /\ step' = (IF confirmed THEN "write" ELSE "hello")
          /\ UNCHANGED <<attempt, children, slot>>
       \/ /\ ~cancelled /\ client = "open" /\ ~Alive
          /\ \/ /\ \E c \in Children :
                     /\ life[c] = "unused" /\ \A d \in Children : d < c => life[d] # "unused"
                     /\ life' = [life EXCEPT ![c] = "starting"]
                     /\ proc' = c /\ using' = c
                /\ confirmed' = FALSE /\ step' = "hello"
                /\ UNCHANGED <<attempt, loaded, pipes, client>>
             \/ /\ Fails    \* the process does not start
                /\ proc' = None /\ confirmed' = FALSE
                /\ UNCHANGED <<children, client>>
    /\ UNCHANGED <<task, cancelled, ledger, faults>>

\* _confirm_ownership: the hello line, then binding the process.
ConfirmOwnership ==
    /\ Waiting("hello")
    /\ \/ /\ stdout[using] # <<>> /\ Head(stdout[using]) = Hello /\ life[using] # "gone"
          /\ stdout' = [stdout EXCEPT ![using] = Tail(@)]
          /\ confirmed' = TRUE /\ step' = "write" /\ UNCHANGED <<attempt, using>>
       \/ /\ life[using] = "gone"
          /\ Fails /\ UNCHANGED <<stdout, confirmed>>
    /\ UNCHANGED <<life, loaded, stdin, client, proc, task, cancelled, ledger, faults>>

WriteRequest ==
    /\ Waiting("write")
    /\ IF life[using] = "gone" THEN Fails /\ UNCHANGED stdin
       ELSE /\ stdin' = [stdin EXCEPT ![using] = Append(@, Request)]
            /\ step' = "wait" /\ UNCHANGED <<attempt, using>>
    /\ UNCHANGED <<life, loaded, stdout, slot, task, cancelled, ledger, faults>>

\* Mutant: the id of the answer is not compared.
ReadAnyAnswer ==
    /\ Waiting("wait")
    /\ \/ /\ stdout[using] # <<>> /\ Head(stdout[using]) # Hello
          /\ Head(stdout[using]).kind = "ok"
          /\ stdout' = [stdout EXCEPT ![using] = Tail(@)]
          /\ accepted' = [accepted EXCEPT ![task] = Head(stdout[using]).request.task]
          /\ step' = "done" /\ UNCHANGED <<attempt, using>>
       \/ Fails /\ UNCHANGED <<stdout, accepted>>
    /\ UNCHANGED <<life, loaded, stdin, slot, task, cancelled, rendered, faults>>

\* A whole line of the child: its own answer, or a protocol error.
ReadAnswer ==
    /\ Waiting("wait")
    /\ \/ /\ stdout[using] # <<>> /\ Head(stdout[using]) = Answer("ok", Request)
          /\ stdout' = [stdout EXCEPT ![using] = Tail(@)]
          /\ accepted' = [accepted EXCEPT ![task] = Head(stdout[using]).request.task]
          /\ step' = "done" /\ UNCHANGED <<attempt, using>>
       \/ /\ stdout[using] # <<>> /\ Head(stdout[using]) = Answer("restart", Request)
          /\ step' = "restart"
          /\ UNCHANGED <<stdout, attempt, using, accepted>>
       \/ /\ IF stdout[using] = <<>> THEN life[using] = "gone"
             ELSE Head(stdout[using]) \notin {Answer("ok", Request), Answer("restart", Request)}
          /\ Fails /\ UNCHANGED <<stdout, accepted>>
    /\ UNCHANGED <<life, loaded, stdin, slot, task, cancelled, rendered, faults>>

\* The child asks for a fresh process; the second time it is an error.
Restart ==
    /\ step = "restart"
    /\ \/ /\ Released
          /\ IF attempt = 0 THEN attempt' = 1 /\ step' = "start" /\ UNCHANGED using ELSE Fails
       \/ ReleaseRaises /\ Fails
    /\ UNCHANGED <<pipes, client, task, cancelled, ledger>>

\* release() after any error, and the error is raised in either case.
Abort ==
    /\ step = "abort" /\ step' = "done" /\ UNCHANGED <<attempt, using>>
    /\ Released \/ ReleaseRaises
    /\ UNCHANGED <<pipes, client, task, cancelled, ledger>>

Operation ==
    \/ Start \/ ConfirmOwnership \/ WriteRequest \/ ReadAnswer \/ Restart \/ Abort

-----------------------------------------------------------------------------
(* The child: serve and WarmBatchWorker.run_batch.                          *)

Reply(c, kind) == stdout' = [stdout EXCEPT ![c] = Append(@, Answer(kind, Head(stdin[c])))]
Keep(c, stage) == life' = [life EXCEPT ![c] = stage] /\ UNCHANGED loaded
ChildOnly == UNCHANGED <<slot, operation, task, cancelled, accepted, faults>>

SayHello(c) ==
    /\ life[c] = "starting" /\ Keep(c, "waiting")
    /\ stdout' = [stdout EXCEPT ![c] = Append(@, Hello)]
    /\ UNCHANGED <<stdin, rendered>> /\ ChildOnly

\* inbox.get(timeout = idle_ttl): nothing came, or the pipe was closed.
IdleExit(c) ==
    /\ life[c] = "waiting" /\ Exit(c)
    /\ UNCHANGED <<pipes, rendered>> /\ ChildOnly

Receive(c) ==
    /\ life[c] = "waiting" /\ stdin[c] # <<>> /\ Keep(c, "working")
    /\ UNCHANGED <<pipes, rendered>> /\ ChildOnly

\* Mutant: the render starts before the request is compared with the session.
RefuseLate(c) ==
    /\ life[c] \in {"working", "rendering"} /\ c \in loaded
    /\ Reply(c, "restart") /\ Exit(c)
    /\ UNCHANGED <<stdin, rendered>> /\ ChildOnly

\* The request does not fit the session, or the session is used up: that is
\* found before anything is rendered.
RefuseSession(c) ==
    /\ life[c] = "working" /\ c \in loaded
    /\ Reply(c, "restart") /\ Exit(c)
    /\ UNCHANGED <<stdin, rendered>> /\ ChildOnly

Render(c) ==
    /\ life[c] = "working"
    /\ life' = [life EXCEPT ![c] = "rendering"] /\ loaded' = loaded \cup {c}
    /\ rendered' = [rendered EXCEPT ![Head(stdin[c]).task] = @ + 1]
    /\ UNCHANGED pipes /\ ChildOnly

BatchDone(c) ==
    /\ life[c] = "rendering" /\ Keep(c, "waiting")
    /\ Reply(c, "ok") /\ stdin' = [stdin EXCEPT ![c] = Tail(@)]
    /\ UNCHANGED rendered /\ ChildOnly

\* An error anywhere: the answer, then the exit; or an exit without one.
BatchFails(c) ==
    /\ life[c] \in {"working", "rendering"}
    /\ Reply(c, "failed") \/ UNCHANGED stdout
    /\ Exit(c)
    /\ UNCHANGED <<stdin, rendered>> /\ ChildOnly

\* A terminated process disappears in its own time.
Vanish(c) ==
    /\ life[c] = "dying" /\ Exit(c)
    /\ UNCHANGED <<pipes, rendered>> /\ ChildOnly

Child(c) ==
    \/ SayHello(c) \/ IdleExit(c) \/ Receive(c) \/ RefuseSession(c)
    \/ Render(c) \/ BatchDone(c) \/ BatchFails(c) \/ Vanish(c)
-----------------------------------------------------------------------------
WorkerTypeOK ==
    /\ life \in [Children -> {"unused", "starting", "waiting", "working", "rendering", "dying", "gone"}]
    /\ loaded \in SUBSET Children
    /\ stdin \in [Children -> Seq(Requests)]
    /\ stdout \in [Children -> Seq(Answers \cup {Hello})]
    /\ client \in {"none", "open", "closed"} /\ proc \in Children \cup {None} /\ confirmed \in BOOLEAN
    /\ step \in {"none", "start", "hello", "write", "wait", "restart", "abort", "done"}
    /\ attempt \in 0..1 /\ using \in Children \cup {None}
    /\ task \in 0..MaxTasks /\ cancelled \in BOOLEAN
    /\ rendered \in [Tasks -> Nat] /\ accepted \in [Tasks -> 0..MaxTasks]
    /\ faults \in 0..MaxFaults

\* The child serves while this process is its client's (WorkerLifetime: a
\* child in its job object dies with the service).
NoWorker == \A c \in Children : life[c] \in {"unused", "gone"}
=============================================================================
