----------------------------- MODULE JobRunner -----------------------------
(***************************************************************************)
(* The generation queue of the Dream service                               *)
(* (apps/dream-windows/server/job_runner.py and the generate / cancel half *)
(* of persistent_engine.py).                                               *)
(*                                                                         *)
(* One worker thread takes jobs in order.  A job runs on the resident      *)
(* sd-server, on a command-line process when the server cannot take it, or *)
(* on an injected runner.  Clients submit, read and cancel at any time.    *)
(* Every record is kept in memory and in a file of its own; both are       *)
(* updated under one lock, so an update is one step, and what runs outside *)
(* the lock is a step per call.                                            *)
(***************************************************************************)
EXTENDS Naturals, Sequences

CONSTANTS
    Jobs,
    Watched,      \* jobs whose clients read or cancel them; all are submitted
    Injected,     \* TRUE when a command runner was injected
    None,         \* no job
    MaxPolls,     \* status requests before the generation deadline
    MaxFaults, MaxCrashes   \* bounds of the exploration

ASSUME JobAssumption ==
    /\ Watched \subseteq Jobs /\ Injected \in BOOLEAN /\ None \notin Jobs
    /\ MaxPolls \in Nat /\ MaxFaults \in Nat /\ MaxCrashes \in Nat

VARIABLES
    mem,       \* state of each record in _jobs, "none" when it is not loaded
    disk,      \* state in its file, "absent", or "torn" when half written
    posting,   \* jobs recorded by submit and not yet queued
    queue,     \* jobs waiting for the worker
    run, pc,   \* job the worker executes, and where it is
    polls,     \* status requests of the running generation
    native,    \* what the sd-server does for each job
    registered,   \* _persistent_jobs
    ask,       \* cancel calls that have still to tell the sd-server
    asked,     \* jobs the sd-server was asked to cancel
    waiting,   \* cancel calls that wait for the injected runner
    answered,  \* jobs some cancel call has answered for
    cli,       \* command-line process, or runner invocation, of each job
    output,    \* files of each job: none, the image only, or image and metadata
    told,      \* last terminal state a client read
    faults, crashes

records == <<mem, disk>>
worker  == <<run, pc, polls>>
server  == <<native, registered, asked>>
clients == <<ask, waiting, answered, told>>
bounds  == <<faults, crashes>>
vars == <<records, posting, queue, worker, server, clients, cli, output, bounds>>

Terminal == {"complete", "failed", "cancelled"}
Active == {"queued", "preparing", "sampling", "decoding"}
Steps == {"idle", "prepare", "barrier", "route", "check_native", "check_cli", "ready", "post",
          "register", "poll", "get", "tell", "received", "write", "meta", "start", "spawn",
          "communicate", "invoke", "invoked", "good", "bad", "verify", "trace", "complete"}

-----------------------------------------------------------------------------
Init ==
    /\ mem = [j \in Jobs |-> "none"] /\ disk = [j \in Jobs |-> "absent"]
    /\ posting = {} /\ queue = <<>>
    /\ run = None /\ pc = "idle" /\ polls = 0
    /\ native = [j \in Jobs |-> "none"] /\ registered = {} /\ asked = {}
    /\ ask = {} /\ waiting = {} /\ answered = {} /\ told = [j \in Jobs |-> "none"]
    /\ cli = [j \in Jobs |-> "none"] /\ output = [j \in Jobs |-> "none"]
    /\ faults = 0 /\ crashes = 0

\* _cancelled only repeats this: cancel adds to it and sets the state at once.
IsCancelled(j) == mem[j] = "cancelled"

\* A local file operation raises OSError.
Fault == faults < MaxFaults /\ faults' = faults + 1 /\ UNCHANGED crashes

Goto(step) == pc' = step /\ UNCHANGED <<run, polls>>
\* Mutant: the worker forgets the job and not where it was.
IdleHalf == run' = None /\ UNCHANGED pc /\ polls' = 0

Idle == run' = None /\ pc' = "idle" /\ polls' = 0

\* Mutant: the record is changed in memory and never written.
SavedInMemory(j, state) ==
    /\ mem' = [mem EXCEPT ![j] = state]
    /\ disk' = IF disk[j] = "absent" THEN [disk EXCEPT ![j] = state] ELSE disk
    /\ UNCHANGED bounds

\* _update: memory first, then the file.  A write that fails may leave half a
\* file, and the record in memory keeps the new state.
Saved(j, state) ==
    /\ mem' = [mem EXCEPT ![j] = state] /\ disk' = [disk EXCEPT ![j] = state]
    /\ UNCHANGED bounds

SaveFails(j, state) ==
    /\ Fault
    /\ mem' = [mem EXCEPT ![j] = state]
    /\ disk' \in {disk, [disk EXCEPT ![j] = "torn"]}

\* Mutant: _update in place of _update_if_active.
UpdateAlways(state, next) ==
    \/ Saved(run, state) /\ (IF next = "idle" THEN Idle ELSE Goto(next))
    \/ SaveFails(run, state) /\ Idle

\* _update_if_active and what the worker does next: a cancelled job is left
\* alone and the worker turns to the next one; so it does after an exception.
UpdateIfActive(state, next) ==
    \/ IsCancelled(run) /\ Idle /\ UNCHANGED <<records, bounds>>
    \/ ~IsCancelled(run) /\ Saved(run, state) /\ (IF next = "idle" THEN Idle ELSE Goto(next))
    \/ ~IsCancelled(run) /\ SaveFails(run, state) /\ Idle

-----------------------------------------------------------------------------
(* Clients.                                                                 *)

\* submit records the job under the lock and queues it after.  When the
\* record cannot be written the job is never queued.  The id is a new one.
Submit(j) ==
    /\ mem[j] = "none" /\ disk[j] = "absent" /\ j \notin answered
    /\ \/ Saved(j, "queued") /\ posting' = posting \cup {j}
       \/ SaveFails(j, "queued") /\ UNCHANGED posting
    /\ UNCHANGED <<queue, worker, server, clients, cli, output>>

Enqueue(j) ==
    /\ j \in posting
    /\ posting' = posting \ {j} /\ queue' = Append(queue, j)
    /\ UNCHANGED <<records, worker, server, clients, cli, output, bounds>>

\* get: from memory, after a restart from the file.
Observe(j) ==
    LET seen == IF mem[j] # "none" THEN mem[j] ELSE disk[j] IN
    /\ seen \in Terminal
    /\ told' = [told EXCEPT ![j] = seen]
    /\ UNCHANGED <<records, posting, queue, worker, server, ask, waiting, answered, cli, output, bounds>>

\* Mutant: cancel does not wait for the runner.
FollowUpNative(j) ==
    /\ ask' = IF j \in registered THEN ask \cup {j} ELSE ask
    /\ answered' = IF j \in registered THEN answered ELSE answered \cup {j}
    /\ UNCHANGED waiting

\* What a cancel call does once the lock is released: tell the sd-server
\* about a registered generation, or wait for the runner.
FollowUp(j) ==
    /\ ask' = IF j \in registered THEN ask \cup {j} ELSE ask
    /\ waiting' = IF cli[j] = "invoked" /\ run = j THEN waiting \cup {j} ELSE waiting
    /\ answered' = IF j \in registered \/ (cli[j] = "invoked" /\ run = j) THEN answered ELSE answered \cup {j}

\* cancel, the part under the lock.  A record not in memory is loaded.
Cancel(j) ==
    LET state == IF mem[j] # "none" THEN mem[j] ELSE disk[j] IN
    /\ \/ /\ state \in {"complete", "failed"}
          /\ mem' = [mem EXCEPT ![j] = state]
          /\ UNCHANGED <<disk, ask, waiting, answered, cli, output, bounds>>
       \/ /\ state = "cancelled"
          /\ mem' = [mem EXCEPT ![j] = state]
          /\ FollowUp(j)
          /\ UNCHANGED <<disk, cli, output, bounds>>
       \/ /\ state \in Active
          /\ \/ Saved(j, "cancelled") /\ FollowUp(j)
             \/ SaveFails(j, "cancelled") /\ UNCHANGED <<ask, waiting, answered>>
          /\ \/ /\ run = j /\ cli[j] = "running"
                /\ cli' = [cli EXCEPT ![j] = "killed"]
                /\ output' \in {output, [output EXCEPT ![j] = "image"]}
             \/ ~(run = j /\ cli[j] = "running") /\ UNCHANGED <<cli, output>>
    /\ UNCHANGED <<posting, queue, worker, server, told>>

\* POST .../cancel: the server may not be able to interrupt the generation,
\* and a lost request is ignored.
AskServer(j) ==
    /\ asked' = asked \cup {j}
    /\ \/ UNCHANGED native
       \/ native[j] = "accepted" /\ native' = [native EXCEPT ![j] = "cancelled"]

Forward(j) ==
    /\ j \in ask
    /\ AskServer(j)
    /\ ask' = ask \ {j} /\ answered' = answered \cup {j}
    /\ UNCHANGED <<records, posting, queue, worker, registered, waiting, told, cli, output, bounds>>

RunnerGone(j) ==
    /\ j \in waiting /\ cli[j] # "invoked"
    /\ waiting' = waiting \ {j} /\ answered' = answered \cup {j}
    /\ UNCHANGED <<records, posting, queue, worker, server, ask, told, cli, output, bounds>>

-----------------------------------------------------------------------------
(* _execute, from the queue to the choice of a route.                       *)

Take ==
    /\ pc = "idle" /\ queue # <<>>
    /\ run' = Head(queue) /\ queue' = Tail(queue) /\ pc' = "prepare" /\ polls' = 0
    /\ UNCHANGED <<records, posting, server, clients, cli, output, bounds>>

Prepare ==
    /\ pc = "prepare" /\ UpdateIfActive("preparing", "barrier")
    /\ UNCHANGED <<posting, queue, server, clients, cli, output>>

\* Mutant: a failed barrier stops the job without an outcome.
BarrierGivesUp ==
    /\ pc = "barrier"
    /\ Goto("route") \/ Idle
    /\ UNCHANGED <<records, bounds, posting, queue, server, clients, cli, output>>

\* The release barriers of the identity service; no generation starts when
\* one of them fails.
Barrier ==
    /\ pc = "barrier"
    /\ \/ Goto("route") /\ UNCHANGED <<records, bounds>>
       \/ UpdateIfActive("failed", "idle")
    /\ UNCHANGED <<posting, queue, server, clients, cli, output>>

Route ==
    /\ pc = "route"
    /\ \/ ~Injected /\ UpdateIfActive("sampling", "check_native")
       \/ UpdateIfActive("sampling", "check_cli")
    /\ UNCHANGED <<posting, queue, server, clients, cli, output>>

Check ==
    /\ pc \in {"check_native", "check_cli"}
    /\ \/ IsCancelled(run) /\ Idle
       \/ ~IsCancelled(run) /\ Goto(IF pc = "check_native" THEN "ready" ELSE "start")
    /\ UNCHANGED <<records, posting, queue, server, clients, cli, output, bounds>>

-----------------------------------------------------------------------------
(* _run_persistent and PersistentEngineClient.generate.                     *)

\* ensure_ready: the server is there, is unavailable, or its model is broken.
Ready ==
    /\ pc = "ready"
    /\ Goto("post") \/ Goto("start") \/ Goto("bad")
    /\ UNCHANGED <<records, posting, queue, server, clients, cli, output, bounds>>

\* The server takes the job and answers, takes it and the answer is lost or
\* has no id, or does not take it.  Both failures count as "unavailable".
Post ==
    /\ pc = "post"
    /\ \/ /\ native' = [native EXCEPT ![run] = "accepted"]
          /\ Goto("register") \/ Goto("start")
       \/ Goto("start") /\ UNCHANGED native
    /\ UNCHANGED <<records, posting, queue, registered, asked, clients, cli, output, bounds>>

RegisterNative ==
    /\ pc = "register"
    /\ registered' = registered \cup {run}
    /\ Goto("poll")
    /\ UNCHANGED <<records, posting, queue, native, asked, clients, cli, output, bounds>>

\* Mutant: the loop relies on cancel to tell the server.
PollOn ==
    /\ pc = "poll"
    /\ \/ /\ polls = MaxPolls /\ Goto("bad")
          /\ registered' = registered \ {run}
       \/ polls < MaxPolls /\ Goto("get") /\ UNCHANGED registered
    /\ UNCHANGED <<records, posting, queue, native, asked, clients, cli, output, bounds>>

\* The loop head: the deadline, then the cancellation.
Poll ==
    /\ pc = "poll"
    /\ \/ /\ polls = MaxPolls /\ Goto("bad")
          /\ registered' = registered \ {run}
       \/ /\ polls < MaxPolls
          /\ IF IsCancelled(run) THEN Goto("tell") ELSE Goto("get")
          /\ UNCHANGED registered
    /\ UNCHANGED <<records, posting, queue, native, asked, clients, cli, output, bounds>>

TellServer ==
    /\ pc = "tell"
    /\ AskServer(run)
    /\ registered' = registered \ {run}
    /\ Goto("start")
    /\ UNCHANGED <<records, posting, queue, clients, cli, output, bounds>>

GetStatus ==
    /\ pc = "get"
    /\ \/ /\ native[run] = "accepted"
          /\ pc' = "poll" /\ polls' = polls + 1 /\ UNCHANGED <<run, registered>>
       \/ /\ \/ native[run] = "completed" /\ Goto("received")
             \/ native[run] = "cancelled" /\ Goto("start")
             \/ Goto("bad")    \* it failed, cannot be reached, or sent no image
          /\ registered' = registered \ {run}
    /\ UNCHANGED <<records, posting, queue, native, asked, clients, cli, output, bounds>>

Received ==
    /\ pc = "received"
    /\ IF IsCancelled(run) THEN Goto("start") ELSE Goto("write")
    /\ UNCHANGED <<records, posting, queue, server, clients, cli, output, bounds>>

\* The image, then its metadata; an error here is not caught.
WriteOutput ==
    /\ \/ /\ pc = "write" /\ Goto("meta")
          /\ output' = [output EXCEPT ![run] = "image"]
          /\ UNCHANGED bounds
       \/ /\ pc = "meta" /\ Goto("good")
          /\ output' = [output EXCEPT ![run] = "whole"]
          /\ UNCHANGED bounds
       \/ pc \in {"write", "meta"} /\ Fault /\ Idle /\ UNCHANGED output
    /\ UNCHANGED <<records, posting, queue, server, clients, cli>>

-----------------------------------------------------------------------------
(* _run_process and _run_command_runner.                                    *)

Start ==
    /\ pc = "start"
    /\ \/ IsCancelled(run) /\ Idle
       \/ ~IsCancelled(run) /\ Goto(IF Injected THEN "invoke" ELSE "spawn")
    /\ UNCHANGED <<records, posting, queue, server, clients, cli, output, bounds>>

\* Mutant: the check under the lock is dropped.
SpawnUnchecked ==
    /\ pc = "spawn"
    /\ \/ Goto("bad") /\ UNCHANGED cli
       \/ Goto("communicate") /\ cli' = [cli EXCEPT ![run] = "running"]
    /\ UNCHANGED <<records, posting, queue, server, clients, output, bounds>>

\* Checked again under the lock that publishes the process to cancel.
Spawn ==
    /\ pc = "spawn"
    /\ \/ IsCancelled(run) /\ Idle /\ UNCHANGED cli
       \/ ~IsCancelled(run) /\ Goto("bad") /\ UNCHANGED cli
       \/ ~IsCancelled(run) /\ Goto("communicate") /\ cli' = [cli EXCEPT ![run] = "running"]
    /\ UNCHANGED <<records, posting, queue, server, clients, output, bounds>>

\* Its end, and the logs, whose failure counts as a failed process.
Communicate ==
    /\ pc = "communicate" /\ cli[run] # "running"
    /\ \/ cli[run] = "done" /\ Goto("good") /\ UNCHANGED bounds
       \/ cli[run] # "done" /\ Goto("bad") /\ UNCHANGED bounds
       \/ Fault /\ Goto("bad")
    /\ UNCHANGED <<records, posting, queue, server, clients, cli, output>>

Invoke ==
    /\ pc = "invoke"
    /\ \/ IsCancelled(run) /\ Idle /\ UNCHANGED cli
       \/ ~IsCancelled(run) /\ Goto("invoked") /\ cli' = [cli EXCEPT ![run] = "invoked"]
    /\ UNCHANGED <<records, posting, queue, server, clients, output, bounds>>

\* Mutant: a runner that raises does not release its waiters.
RunnerRaises ==
    /\ pc = "invoked"
    /\ \/ /\ cli' = [cli EXCEPT ![run] = "done"] /\ Goto("good")
          /\ output' \in {output, [output EXCEPT ![run] = "image"], [output EXCEPT ![run] = "whole"]}
       \/ cli' = [cli EXCEPT ![run] = "failed"] /\ Goto("bad") /\ UNCHANGED output
       \/ Idle /\ UNCHANGED <<cli, output>>
    /\ UNCHANGED <<records, posting, queue, server, clients, bounds>>

\* The runner returns or raises; its waiters are released in both cases.
RunnerReturns ==
    /\ pc = "invoked"
    /\ \/ /\ cli' = [cli EXCEPT ![run] = "done"] /\ Goto("good")
          /\ output' \in {output, [output EXCEPT ![run] = "image"], [output EXCEPT ![run] = "whole"]}
       \/ cli' = [cli EXCEPT ![run] = "failed"] /\ Goto("bad") /\ UNCHANGED output
       \/ cli' = [cli EXCEPT ![run] = "failed"] /\ Idle /\ UNCHANGED output
    /\ UNCHANGED <<records, posting, queue, server, clients, bounds>>

-----------------------------------------------------------------------------
(* _execute, the end.                                                       *)

Returned ==
    /\ \/ pc = "good" /\ UpdateIfActive("decoding", "verify")
       \/ pc = "bad" /\ UpdateIfActive("failed", "idle")
    /\ UNCHANGED <<posting, queue, server, clients, cli, output>>

\* Mutant: the files are not looked at.
VerifyNothing ==
    /\ pc = "verify"
    /\ Goto("trace") /\ UNCHANGED <<records, bounds>>
    /\ UNCHANGED <<posting, queue, server, clients, cli, output>>

\* Both files must be there and the metadata readable.
Verify ==
    /\ pc = "verify"
    /\ \/ output[run] = "whole" /\ Goto("trace") /\ UNCHANGED <<records, bounds>>
       \/ UpdateIfActive("failed", "idle")
    /\ UNCHANGED <<posting, queue, server, clients, cli, output>>

\* Mutant: an error in the trace ends the worker thread.
TraceEndsWorker ==
    /\ pc = "trace"
    /\ \/ Goto("complete") /\ UNCHANGED bounds
       \/ Fault /\ Goto("dead")
    /\ UNCHANGED <<records, posting, queue, server, clients, cli, output>>

\* An error while the trace is written is not caught.
Trace ==
    /\ pc = "trace"
    /\ \/ Goto("complete") /\ UNCHANGED bounds
       \/ Fault /\ Idle
    /\ UNCHANGED <<records, posting, queue, server, clients, cli, output>>

Complete ==
    /\ pc = "complete" /\ UpdateIfActive("complete", "idle")
    /\ UNCHANGED <<posting, queue, server, clients, cli, output>>

-----------------------------------------------------------------------------
(* Other processes, and the end of the service process.                     *)

\* The sd-server finishes a generation.
NativeEnds(j) ==
    /\ native[j] = "accepted"
    /\ native' \in {[native EXCEPT ![j] = "completed"], [native EXCEPT ![j] = "failed"]}
    /\ UNCHANGED <<records, posting, queue, worker, registered, asked, clients, cli, output, bounds>>

\* A command-line process finishes, also one left behind by a service crash.
CliEnds(j) ==
    /\ cli[j] = "running"
    /\ \/ /\ cli' = [cli EXCEPT ![j] = "done"]
          /\ output' \in {output, [output EXCEPT ![j] = "image"], [output EXCEPT ![j] = "whole"]}
       \/ cli' = [cli EXCEPT ![j] = "failed"] /\ UNCHANGED output
    /\ UNCHANGED <<records, posting, queue, worker, server, clients, bounds>>

\* The service exits and starts again: nothing is recovered.  The record
\* being written at that moment may be torn.
Crash ==
    /\ crashes < MaxCrashes /\ crashes' = crashes + 1 /\ UNCHANGED faults
    /\ \/ UNCHANGED disk
       \/ \E j \in Jobs : disk[j] \in Active /\ disk' = [disk EXCEPT ![j] = "torn"]
    /\ mem' = [j \in Jobs |-> "none"]
    /\ posting' = {} /\ queue' = <<>> /\ Idle
    /\ registered' = {} /\ ask' = {} /\ waiting' = {}
    /\ cli' = [j \in Jobs |-> IF cli[j] = "invoked" THEN "failed" ELSE cli[j]]
    /\ UNCHANGED <<native, asked, answered, told, output>>

-----------------------------------------------------------------------------
Client ==
    \/ \E j \in Jobs : Submit(j)
    \/ \E j \in Watched : Observe(j) \/ Cancel(j)
Pending(j) == Enqueue(j) \/ Forward(j) \/ RunnerGone(j)
Persistent == Ready \/ Post \/ RegisterNative \/ Poll \/ TellServer \/ GetStatus \/ Received \/ WriteOutput
Process == Start \/ Spawn \/ Communicate \/ Invoke \/ RunnerReturns
Worker == Take \/ Prepare \/ Barrier \/ Route \/ Check \/ Persistent \/ Process
          \/ Returned \/ Verify \/ Trace \/ Complete

Next ==
    \/ Client
    \/ \E j \in Jobs : Pending(j) \/ NativeEnds(j) \/ CliEnds(j)
    \/ Worker
    \/ Crash

Spec == Init /\ [][Next]_vars

\* Threads run on and command-line processes end; the sd-server may hang.
FairSpec ==
    /\ Spec /\ WF_vars(Worker)
    /\ \A j \in Jobs : WF_vars(Pending(j)) /\ WF_vars(CliEnds(j))

-----------------------------------------------------------------------------
(* Properties.                                                              *)

TypeOK ==
    /\ mem \in [Jobs -> Terminal \cup Active \cup {"none"}]
    /\ disk \in [Jobs -> Terminal \cup Active \cup {"absent", "torn"}]
    /\ posting \in SUBSET Jobs /\ queue \in Seq(Jobs)
    /\ run \in Jobs \cup {None} /\ pc \in Steps /\ (run = None <=> pc = "idle") /\ polls \in Nat
    /\ native \in [Jobs -> {"none", "accepted", "completed", "failed", "cancelled"}]
    /\ registered \in SUBSET Jobs /\ asked \in SUBSET Jobs
    /\ ask \in SUBSET Jobs /\ waiting \in SUBSET Jobs /\ answered \in SUBSET Jobs
    /\ told \in [Jobs -> Terminal \cup {"none"}]
    /\ cli \in [Jobs -> {"none", "running", "invoked", "done", "failed", "killed"}]
    /\ output \in [Jobs -> {"none", "image", "whole"}]
    /\ faults \in Nat /\ crashes \in Nat

\* The outcome of a job is decided once: no later cancel, late result, failed
\* barrier or restart replaces it in its file (job_runner.py:101-108, 165-167).
OutcomeIsFinal == [][\A j \in Jobs : disk[j] \in Terminal => disk'[j] = disk[j]]_vars

\* A client that was told an outcome is never told another one, and finds it
\* again after a restart, as long as records can be written (94-99, 143-151).
ToldIsDurable == faults = 0 => \A j \in Jobs : told[j] # "none" => disk[j] = told[j]

\* No process or runner starts for a job that was cancelled before, however
\* the cancel falls between the checks of the worker (205-213, 231-246).
NoStartAfterCancel ==
    [][\A j \in Jobs : cli'[j] \in {"running", "invoked"} /\ cli[j] # cli'[j] => ~IsCancelled(j)]_vars

\* A complete job has its image and metadata (295-319).
CompleteHasOutput == \A j \in Jobs : disk[j] = "complete" => output[j] = "whole"

\* Cancelled generations are told to the server: when the server's id is
\* known, either the cancel call or the polling loop asks (176-181, 420-424).
CancelReachesServer ==
    \A j \in Jobs : (mem[j] = "cancelled" /\ j \in registered)
                      ~> (j \in asked \/ native[j] # "accepted")

\* Every job of a service without an injected runner reaches an outcome while
\* the service runs and its files can be written, even if the sd-server hangs
\* (258-319).  An injected runner that raises leaves its job.
Settles == \A j \in Jobs : (mem[j] = "queued") ~> (mem[j] \in Terminal)

\* One job that fails or raises does not stop the jobs behind it (72-74).
QueueDrains == \A j \in Jobs : (j \in posting) ~> (run = j)

\* A cancel call answers only when the injected runner has come back (181-182).
CancelWaitsForRunner == \A j \in answered : cli[j] # "invoked"

\* A cancel call is never stuck behind a runner that raised (214-222).
CancelReturns == \A j \in Jobs : (j \in waiting) ~> (j \in answered)

\* "Once the resident service has accepted a task, a failure is reported and
\* the image is not generated again".
AcceptedIsNotRegenerated == \A j \in Jobs : cli[j] = "running" => native[j] = "none"
-----------------------------------------------------------------------------
(* The inductive invariant behind the safety properties.                    *)

Queued == {queue[i] : i \in DOMAIN queue}

\* Each accepted job waits in one place and gets one turn; until its turn is
\* over its record is active or cancelled.
OneTurn ==
    /\ \A i, k \in DOMAIN queue : queue[i] = queue[k] => i = k
    /\ posting \cap Queued = {} /\ run \notin posting \cup Queued
    /\ \A j \in Jobs : j \in posting \cup Queued \cup {run}
                        => mem[j] \in Active \cup {"cancelled"} /\ disk[j] # "absent"

\* The file of a job never holds an outcome its record in memory does not
\* have; without failed writes the two are the same.
Agreement ==
    \A j \in Jobs : mem[j] # "none" /\ (disk[j] \in Terminal \/ faults = 0) => mem[j] = disk[j]

\* Processes belong to the job the worker runs, or to one it lost in a crash.
Processes ==
    /\ \A j \in Jobs : cli[j] = "running" => /\ disk[j] \notin {"complete", "absent"}
                                             /\ run = j => pc = "communicate"
                                             /\ j \notin posting \cup Queued
    /\ \A j \in Jobs : cli[j] = "invoked" => Injected /\ run = j /\ pc = "invoked"
    /\ pc \in {"trace", "complete"} => output[run] = "whole"

\* Only cancelled jobs have cancel calls past the lock, and with an injected
\* runner the sd-server is not used.
CancelCalls ==
    /\ \A j \in ask \cup waiting : mem[j] = "cancelled"
    /\ \A j \in answered : mem[j] \in {"none", "cancelled"} /\ disk[j] \notin {"complete", "failed"}
    /\ Injected => /\ registered = {} /\ ask = {}
                   /\ pc \notin {"check_native", "ready", "post", "register", "poll", "get", "tell",
                                 "received", "write", "meta"}
    /\ ~Injected => pc \notin {"invoke", "invoked"}

Sound == OneTurn /\ Agreement /\ Processes /\ CancelCalls
=============================================================================
