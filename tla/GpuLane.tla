------------------------------ MODULE GpuLane ------------------------------
(***************************************************************************)
(* One GPU, shared by everything the Dream service runs on it              *)
(* (persistent_engine.py, job_runner.py and the worker half of             *)
(* identity_service.py).                                                   *)
(*                                                                         *)
(* A single worker thread, the lane, runs native generations and identity  *)
(* tasks in turn.  Three kinds of process hold GPU memory: the resident    *)
(* sd-server, which outlives the service; the command-line generator; and  *)
(* identity workers, warm (PersistentWorker) or for one task.  Before a    *)
(* native generation a barrier ends the warm worker; before an identity    *)
(* task the sd-server is ended.  The identity service may be closed at any *)
(* time and the whole service may exit and start again.                    *)
(***************************************************************************)
EXTENDS PersistentWorker, FiniteSets

CONSTANTS
    Servers,      \* process ids of the sd-servers, in the order they start
    MaxCrashes

ASSUME LaneAssumption ==
    /\ Children \subseteq Nat /\ Servers \subseteq Nat /\ None \notin Children \cup Servers
    /\ MaxTasks \in Nat /\ MaxFaults \in Nat /\ MaxCrashes \in Nat

VARIABLES
    sd,         \* what runs under each process id
    held,       \* _process: the sd-server this service started
    recorded,   \* process id in the state file
    cli,        \* command-line generator of the running job
    shot,       \* one-task identity worker: started, then bound to the service
    kind, at,   \* task of the lane, and where it is
    closer,     \* the thread that closes the identity service
    orphans,    \* sd-servers that no handle and no record names any more
    left,       \* generators and one-task workers that outlived their service
    crashes

native == <<sd, held, recorded, cli>>
lane   == <<kind, at>>
vars   == <<workerVars, native, shot, lane, closer, orphans, left, crashes>>

\* Process id states: an sd-server loads its model, listens, may stop
\* answering, and ends; later another program may get its id.
Listening == {p \in Servers : sd[p] \in {"serving", "hung"}}
Ended(p) == sd[p] \in {"unused", "dead", "foreign"}
\* They run and nothing answers for them.
Hidden == {p \in Servers : sd[p] \in {"loading", "dying"}}
Closing == closer # "open"

Init ==
    /\ InitWorker
    /\ sd = [p \in Servers |-> "unused"] /\ held = None /\ recorded = None /\ cli = FALSE
    /\ shot = "none" /\ kind = "none" /\ at = "idle"
    /\ closer = "open" /\ orphans = {} /\ crashes = 0
    /\ left = [of \in {"generator", "worker"} |-> 0]

Goto(place) == at' = place /\ UNCHANGED kind
Idle == kind' = "none" /\ at' = "idle"
WarmUnchanged == UNCHANGED <<pipes, operation, task, cancelled, ledger>>
OnlyLane == UNCHANGED <<workerVars, shot, closer, orphans, left, crashes>>

-----------------------------------------------------------------------------
(* The lane.                                                                *)

\* The next task of the queue.  Identity tasks are submitted while the
\* service is open; those still queued when it closes are cancelled.
Take ==
    /\ at = "idle" /\ task < MaxTasks
    /\ task' = task + 1 /\ cancelled' = FALSE
    /\ \/ kind' = "native" /\ at' = "barrier"
       \/ kind' \in {"warm", "shot"} /\ at' = "release" /\ ~Closing
    /\ UNCHANGED <<children, slot, operation, ledger, faults, native, shot, closer, orphans, left, crashes>>

\* A client cancels the identity task that runs.
Cancel ==
    /\ kind \in {"warm", "shot"} /\ cancelled' = TRUE /\ ~cancelled
    /\ UNCHANGED <<children, slot, operation, task, ledger, faults, native, shot, lane, closer, orphans, left, crashes>>

\* before_run: the warm worker is released, or the job fails.  The barrier is
\* gone once the identity service has closed.
Barrier ==
    /\ at = "barrier"
    /\ \/ WarmReleased /\ Goto("ensure")
       \/ WarmReleaseRaises /\ Idle
    /\ WarmUnchanged /\ UNCHANGED <<native, shot, closer, orphans, left, crashes>>

-----------------------------------------------------------------------------
(* Native generation: ensure_ready, then the sd-server or the command line. *)

\* The first probe: the server is ready; the client gives up on it; or no
\* one answers in time and a server is started.  A handle that is replaced
\* is lost, whatever its process does: unless the state file names it, nobody
\* knows that process any more.
Probe ==
    /\ at = "ensure"
    /\ \/ \E p \in Servers : sd[p] = "serving" /\ Goto("generate") /\ UNCHANGED <<sd, held, orphans>>
       \/ Goto("spawn") /\ UNCHANGED <<sd, held, orphans>>
       \/ /\ \A p \in Servers : sd[p] # "serving"
          /\ \E p \in Servers :
                /\ sd[p] = "unused" /\ \A q \in Servers : q < p => sd[q] # "unused"
                /\ sd' = [sd EXCEPT ![p] = "loading"] /\ held' = p
          /\ orphans' = orphans \cup ((Hidden \cap {held}) \ {recorded})
          /\ Goto("starting")
    /\ UNCHANGED <<workerVars, recorded, cli, shot, closer, left, crashes>>

\* The startup loop: its process has exited, some server answers and is
\* recorded under this process's id, or the time is over.  The record that is
\* replaced was the last trace of its process.
Starting ==
    /\ at = "starting"
    /\ \/ Ended(held) /\ Goto("spawn") /\ UNCHANGED <<sd, recorded, orphans>>
       \/ /\ ~Ended(held) /\ \E p \in Servers : sd[p] = "serving"
          /\ recorded' = held /\ orphans' = orphans \cup ((Hidden \cap {recorded}) \ {held})
          /\ Goto("generate") /\ UNCHANGED sd
       \/ /\ ~Ended(held) /\ sd' = [sd EXCEPT ![held] = "dying"]
          /\ Goto("spawn") /\ UNCHANGED <<recorded, orphans>>
    /\ UNCHANGED <<workerVars, held, cli, shot, closer, left, crashes>>

\* The server has made the image or not; without an accepted job the
\* command-line generator takes over.
Generate ==
    /\ at = "generate"
    /\ Idle \/ Goto("spawn")
    /\ UNCHANGED native /\ OnlyLane

Spawn ==
    /\ at = "spawn"
    /\ \/ cli' = TRUE /\ Goto("cli")
       \/ Idle /\ UNCHANGED cli
    /\ UNCHANGED <<sd, held, recorded>> /\ OnlyLane

CliEnds ==
    /\ at = "cli" /\ cli' = FALSE /\ Idle
    /\ UNCHANGED <<sd, held, recorded>> /\ OnlyLane

-----------------------------------------------------------------------------
(* release_for_identity: before every identity task.                        *)

\* The server this service started, if the state file does not name another
\* one; else the recorded one, once it is proved to be the process that was
\* recorded: it runs since that time, listens and answers.
Stop(p) == sd' = [sd EXCEPT ![p] = IF Ended(p) THEN @ ELSE "dying"]

\* Mutant: the recorded id is trusted, whatever runs under it.
TrustRecord ==
    /\ at = "release"
    /\ IF held # None
       THEN IF recorded \in {None, held} THEN Stop(held) /\ Goto("reap")
            ELSE Idle /\ UNCHANGED sd
       ELSE IF recorded = None THEN Goto("endpoint") /\ UNCHANGED sd
            ELSE Goto("reap") /\ sd' = [sd EXCEPT ![recorded] = "dying"]
    /\ UNCHANGED <<held, recorded, cli>> /\ OnlyLane

ReleaseNative ==
    /\ at = "release"
    /\ IF held # None
       THEN IF recorded \in {None, held} THEN Stop(held) /\ Goto("reap")
            ELSE Idle /\ UNCHANGED sd
       ELSE \/ recorded = None /\ Goto("endpoint") /\ UNCHANGED sd
            \/ recorded # None /\ sd[recorded] = "dead" /\ Goto("endpoint") /\ UNCHANGED sd
            \/ recorded # None /\ sd[recorded] = "serving" /\ Stop(recorded) /\ Goto("reap")
            \/ recorded # None /\ sd[recorded] # "dead" /\ Idle /\ UNCHANGED sd
    /\ UNCHANGED <<held, recorded, cli>> /\ OnlyLane

\* wait: the process is gone.
Reap ==
    /\ at = "reap"
    /\ Ended(IF held # None THEN held ELSE recorded)
    /\ held' = None /\ Goto("endpoint")
    /\ UNCHANGED <<sd, recorded, cli>> /\ OnlyLane

\* Mutant: the endpoint is not asked.
EndpointIgnored ==
    /\ at = "endpoint"
    /\ recorded' = None /\ Goto(IF kind = "warm" THEN "obtain" ELSE "clear")
    /\ UNCHANGED <<sd, held, cli>> /\ OnlyLane

\* Only a refused connection shows that no server is left; then the record is
\* removed.
Endpoint ==
    /\ at = "endpoint"
    /\ \/ /\ Listening = {} /\ recorded' = None
          /\ Goto(IF kind = "warm" THEN "obtain" ELSE "clear")
       \/ Idle /\ UNCHANGED recorded
    /\ UNCHANGED <<sd, held, cli>> /\ OnlyLane

-----------------------------------------------------------------------------
(* Identity tasks: _persistent_batch and the one-task worker of _run_worker. *)

\* Under the slot's lock: the service must be open, a client with other
\* settings is released first, and there is a client at the end.
Obtain ==
    /\ at = "obtain"
    /\ \/ /\ Closing /\ Idle
          /\ UNCHANGED <<life, loaded, slot, operation, faults>>
       \/ /\ ~Closing /\ Goto("warm")
          /\ step' = "start" /\ attempt' = 0 /\ using' = None
          /\ \/ client # "none" /\ UNCHANGED <<life, loaded, slot, faults>>
             \/ Released /\ client' = "open"
       \/ ~Closing /\ client # "none" /\ WarmReleaseRaises /\ Idle /\ UNCHANGED operation
    /\ UNCHANGED <<pipes, task, cancelled, ledger>>
    /\ UNCHANGED <<native, shot, closer, orphans, left, crashes>>

\* The operation's own steps; the service is told the result.
WarmStep ==
    /\ at = "warm"
    /\ Operation \/ Interrupted
    /\ UNCHANGED <<native, shot, lane, closer, orphans, left, crashes>>

WarmReturns ==
    /\ at = "warm" /\ step = "done"
    /\ step' = "none" /\ attempt' = 0 /\ using' = None /\ Idle
    /\ UNCHANGED <<children, slot, task, cancelled, ledger, faults, native, shot, closer, orphans, left, crashes>>

\* A one-task worker: first the warm one is released.
Clear ==
    /\ at = "clear"
    /\ \/ WarmReleased /\ Goto("launch")
       \/ WarmReleaseRaises /\ Idle
    /\ WarmUnchanged /\ UNCHANGED <<native, shot, closer, orphans, left, crashes>>

Launch ==
    /\ at = "launch"
    /\ \/ cancelled /\ Idle /\ UNCHANGED shot
       \/ ~cancelled /\ shot' = "started" /\ Goto("shot")
       \/ ~cancelled /\ Idle /\ UNCHANGED shot    \* Popen raises
    /\ UNCHANGED <<workerVars, native, closer, orphans, left, crashes>>

\* Into the job object that dies with the service.
Bind ==
    /\ at = "shot" /\ shot = "started" /\ shot' = "bound"
    /\ UNCHANGED <<workerVars, native, lane, closer, orphans, left, crashes>>

\* _wait_owned_release: the lane is kept until the exit has been seen.
ShotReturns ==
    /\ at = "shot" /\ shot' = "none" /\ Idle
    /\ UNCHANGED <<workerVars, native, closer, orphans, left, crashes>>

-----------------------------------------------------------------------------
(* IdentityService.close.                                                   *)

CloseBegin ==
    /\ closer = "open" /\ closer' = "closing"
    /\ cancelled' = (kind \in {"warm", "shot"} \/ cancelled)
    /\ UNCHANGED <<children, slot, operation, task, ledger, faults, native, shot, lane, orphans, left, crashes>>

\* When the release raises, the wait for running tasks is skipped.
CloseRelease ==
    /\ closer = "closing"
    /\ \/ WarmReleased /\ closer' = "waiting"
       \/ WarmReleaseRaises /\ closer' = "finish"
    /\ WarmUnchanged /\ UNCHANGED <<native, shot, lane, orphans, left, crashes>>

\* Mutant: the running task is not waited for.
CloseNow ==
    /\ closer = "waiting" /\ closer' = "finish"
    /\ UNCHANGED <<workerVars, native, shot, lane, orphans, left, crashes>>

\* The running identity task, its worker included, has come back.
CloseWait ==
    /\ closer = "waiting" /\ kind \notin {"warm", "shot"} /\ closer' = "finish"
    /\ UNCHANGED <<workerVars, native, shot, lane, orphans, left, crashes>>

\* Mutant: close waits until the release succeeds.
CloseStuck ==
    /\ closer = "finish" /\ client = "none" /\ closer' = "closed"
    /\ UNCHANGED <<workerVars, native, shot, lane, orphans, left, crashes>>

\* The storage lease and the barrier are given up only without a client that
\* may still have a child.
CloseEnd ==
    /\ closer = "finish" /\ closer' = (IF client = "none" THEN "closed" ELSE "kept")
    /\ UNCHANGED <<workerVars, native, shot, lane, orphans, left, crashes>>

Close == CloseRelease \/ CloseWait \/ CloseEnd

-----------------------------------------------------------------------------
(* Processes, and the end of the service.                                   *)

\* The model is loaded: the server listens, or ends when it cannot because
\* another one does.
ServerStarts(p) ==
    /\ sd[p] = "loading"
    /\ sd' = [sd EXCEPT ![p] = IF Listening = {} THEN "serving" ELSE "dead"]
    /\ UNCHANGED <<held, recorded, cli, lane>> /\ OnlyLane

ServerChanges(p) ==
    /\ \/ sd[p] = "serving" /\ sd' = [sd EXCEPT ![p] = "hung"]
       \/ sd[p] = "hung" /\ sd' = [sd EXCEPT ![p] = "serving"]
       \/ sd[p] \in {"loading", "serving", "hung"} /\ sd' = [sd EXCEPT ![p] = "dead"]
       \/ sd[p] = "dead" /\ p # held /\ sd' = [sd EXCEPT ![p] = "foreign"]
    /\ UNCHANGED <<held, recorded, cli, lane>> /\ OnlyLane

ServerGone(p) ==
    /\ sd[p] = "dying" /\ sd' = [sd EXCEPT ![p] = "dead"]
    /\ UNCHANGED <<held, recorded, cli, lane>> /\ OnlyLane

\* The service exits and a new one starts.  Bound children die with it, a
\* warm one that has not said hello reads the end of its pipe; what was started
\* and neither bound nor recorded stays, with nobody who knows it: a server, the
\* command-line generator, which is never bound, and, unless it too reads the
\* end of a pipe, a one-task worker between its start and its binding.
Crash ==
    /\ crashes < MaxCrashes /\ crashes' = crashes + 1
    /\ life' = [c \in Children |-> IF life[c] = "unused" THEN "unused" ELSE "gone"] /\ loaded' = {}
    /\ client' = "none" /\ proc' = None /\ confirmed' = FALSE
    /\ step' = "none" /\ attempt' = 0 /\ using' = None /\ cancelled' = FALSE
    /\ held' = None /\ Idle /\ closer' = "open"
    /\ cli' = FALSE /\ shot' = "none"
    /\ \E survives \in 0 .. (IF shot = "started" THEN 1 ELSE 0) :
          left' = [left EXCEPT !["generator"] = @ + (IF cli THEN 1 ELSE 0), !["worker"] = @ + survives]
    /\ orphans' = orphans \cup (Hidden \ {recorded})
    /\ UNCHANGED <<pipes, task, ledger, faults, sd, recorded>>

\* A process that outlived its service comes to its end by itself.
LeftEnds(of) ==
    /\ left[of] > 0 /\ left' = [left EXCEPT ![of] = @ - 1]
    /\ UNCHANGED <<workerVars, native, shot, lane, closer, orphans, crashes>>

-----------------------------------------------------------------------------
Native == Barrier \/ Probe \/ Starting \/ Generate \/ Spawn \/ CliEnds
Identity ==
    \/ ReleaseNative \/ Reap \/ Endpoint \/ Obtain \/ WarmStep \/ WarmReturns
    \/ Clear \/ Launch \/ Bind \/ ShotReturns

Next ==
    \/ Take \/ Native \/ Identity
    \/ Cancel \/ CloseBegin \/ Close
    \/ \E c \in Children : Child(c) /\ UNCHANGED <<native, shot, lane, closer, orphans, left, crashes>>
    \/ \E p \in Servers : ServerStarts(p) \/ ServerChanges(p) \/ ServerGone(p)
    \/ \E of \in DOMAIN left : LeftEnds(of)
    \/ Crash

Spec == Init /\ [][Next]_vars

\* Threads run on; a terminated process goes away.  Waits have deadlines, but
\* for the one that keeps the lane until a one-task worker has been seen to end
\* (ShotReturns; identity_service.py:1044-1061), which rests on its being killed.
FairSpec ==
    /\ Spec /\ WF_vars(Native \/ Identity) /\ WF_vars(Close)
    /\ \A p \in Servers : WF_vars(ServerGone(p))
-----------------------------------------------------------------------------
(* Properties.                                                              *)

TypeOK ==
    /\ WorkerTypeOK
    /\ sd \in [Servers -> {"unused", "loading", "serving", "hung", "dying", "dead", "foreign"}]
    /\ held \in Servers \cup {None} /\ recorded \in Servers \cup {None}
    /\ cli \in BOOLEAN /\ shot \in {"none", "started", "bound"}
    /\ kind \in {"none", "native", "warm", "shot"}
    /\ at \in {"idle", "barrier", "ensure", "starting", "generate", "spawn", "cli", "release", "reap",
               "endpoint", "obtain", "warm", "clear", "launch", "shot"}
    /\ (kind = "none" <=> at = "idle")
    /\ closer \in {"open", "closing", "waiting", "finish", "closed", "kept"}
    /\ orphans \in SUBSET Servers /\ left \in [{"generator", "worker"} -> Nat]
    /\ crashes \in 0..MaxCrashes

\* No native engine and identity model of one service, and no server some
\* handle or record names, are on the GPU at once: "the plain SDXL and the
\* identity GPU model must never be resident together"
\* (docs/superpowers/specs/2026-09-20-identity-profiles-batches-design.md:57).
\* The processes that nobody knows any more are left out, and the sentence does
\* not hold of them: those a service that exited leaves behind, that is its
\* command-line generator, a one-task worker not yet bound (both in left) and an
\* sd-server not yet recorded, and a server that was still loading, or had been
\* told to end, when the handle and the record of it were replaced by those of
\* the next one (persistent_engine.py:159, 209).
Exclusive ==
    loaded # {} \/ shot # "none"
      => ~cli /\ \A p \in Servers \ orphans : sd[p] \notin {"loading", "serving", "hung", "dying"}

\* A program that got the process id of an earlier sd-server is left alone
\* (persistent_engine.py:270-327).
ForeignUntouched == [][\A p \in Servers : sd[p] = "foreign" => sd'[p] = "foreign"]_vars

\* "No request is retried after work may have started": every operation
\* renders at most once (identity_persistent_worker.py:9, 134-205, 409-477).
RendersOnce == \A t \in Tasks : rendered[t] <= 1

\* An operation takes the answer to its own request, also from a child that a
\* failed release left behind with an older one (409-477).
AnswerIsOwn == \A t \in Tasks : accepted[t] \in {0, t}

\* When the storage is free for another service, no identity process of this
\* one runs (identity_service.py:638-700).
QuietWhenClosed == closer = "closed" => NoWorker /\ shot = "none"

\* Closing always comes to an end, whatever the lane is doing (638-700).
CloseReturns == (closer = "closing") ~> (closer \in {"closed", "kept", "open"})
=============================================================================
