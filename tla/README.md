# A verification of the Dream Windows service

TLA+ models, model-checking runs and machine-checked proofs for the parts of the
M-LLM Windows AI Workbench whose correctness depends on ordering, failure and
concurrency. `PROJECT.json` lists the runs, the theorems and, for every
definition, the source lines it stands for. File and line numbers below are
those of the repository; `server/` is `apps/dream-windows/server/`.

## 1. The system

The repository holds a Windows installer and a WPF control plane (`installer/`,
`runtime/`, `src/MLLM.Workbench.*`), and the Dream lane: a FastAPI service
(`server/`), a web interface (`apps/dream-windows/src`), and two native programs
it starts: the command-line `dream-core` / `sd` generator and the resident
`sd-server`. The service has most of the state, threads, files and failure
handling, and the models start there.

| Part | State it keeps | Operations | What is hard |
|---|---|---|---|
| History deletion (`history_transactions.py`, `runtime.py`) | files of the history, transaction folders, journals, receipts, one lock for all threads and processes | delete an item, a record or a batch; favourite; recover at start | a crash or an I/O error between any two file-system calls; retries; other programs |
| Job runner (`job_runner.py`) | records in memory and in files, the queue, the running process or generation, cancellations | submit, get, cancel; one worker thread | cancel against every step of the worker; failed writes; restart; a server that hangs |
| sd-server client (`persistent_engine.py`) | the server process, its state file | ensure_ready, generate, cancel, release_for_identity | lost answers, process identity, orphans |
| Identity service (`identity_service.py`) | job records, the serial lane, the slot of the warm worker, the storage lock | submit, cancel, delete, execute, recover, close, release barriers | shared GPU, closing under load, publication of several files |
| Identity batches (`identity_batches.py`) | batch records with copies of their items, job records, an event journal | submit, retry, cancel, item events, recover | exit inside submit, events against cancel, a job write that fails after its image was shown |
| Identity worker (`identity_persistent_worker.py`) | one child process, two pipes | start, handshake, request, restart once, unload when idle, release | late answers, idle timer against requests, a release that fails |
| Image worker (`identity_pipeline.py` and the polish modules) | the loaded pipeline, where its models are, the files of an item | load, sample, redraw, restore, publish | an optional pass that raises and leaves the pipeline changed |
| Profiles (`identity_profiles.py`, `identity_anime_profiles.py`) | a person and linked anime profiles, in memory and on disk | create, rename, archive, preset, import, prepare, resolve | checks before the lock, archive against queued jobs |
| Refinements (`identity_refinements.py`) | versions of one image, the selection | submit, execute, cancel, select, delete the source | deletion and cancel between link and record |
| Try-on (`hq_service.py`, `hq_repair_service.py`) | try-on records, their identity children, repairs | create, cancel, mirror, repair, start, close | two records of one outcome, restart without a second attempt |
| Try-on render and repair (`hq_tryon_*.py`, `hq_body_*.py`) | the audit of a render, the receipt of a repair | observe, verify, render passes, accept a report | inputs that change while they are used |
| Private gallery (`hq_service.py`, `hq_authorization.py`) | a session file, two caches keyed by its fingerprint | renew, list, read images, status | renewal between the reads of a request |
| Research (`research_*.py`, `identity_research.py`, `runtime.py`) | fusion and prompt experiments, traces with sidecars and a root | submit, execute, publish, read | damaged records, half-published traces, statuses computed without the lock |
| Workbench (`src/MLLM.Workbench.Desktop`, `.Infrastructure`) | one pipe to the backend, a mutation gate, the conversation page | requests, cancellation | stale answers, disposal under load |
| Knowledge base (`src/MLLM.Workbench.Knowledge`) | an SQLite store | import, search | rank fusion; otherwise SQL transactions |
| Installer (`installer/`) | staged packages, a state file | acquire, validate, activate, resume | interruption between activation steps |

How they interact. Every native generation and every identity task goes through
the one worker thread of the job runner (`submit_serial`, job_runner.py:72).
Before a generation the identity service's release barrier runs
(`add_before_run`); before an identity task the sd-server is released
(`release_native_for_identity`, identity_service.py:1663). A try-on is a record of
its own over an identity job of the same name; batches, refinements, feature
extraction, repairs and fusion experiments are tasks of the same lane. The runtime runs the
recovery of history deletions when the service starts (runtime.py:37), and the
identity service deletes its records and batches through the same transactions
(identity_service.py:1548). The web interface polls and cancels over HTTP; the
WPF workbench talks to a PowerShell backend over a named pipe.

## 2. Modules

| Module | What it is |
|---|---|
| `HistoryVault` | the abstract promise of history deletion: an item, or a batch with its members, leaves the history in one step and its files go to a trash that nothing evicts |
| `HistoryTransactions` | the protocol, one action per file-system call |
| `HistoryTransactionsProofs` | what holds whatever other programs do: types, receipts, no content lost, the budget; then atomicity and recovery, and the refinement of `HistoryVault` |
| `JobRunner` | the queue, the three routes of a job, the clients, the sd-server and the command-line processes |
| `JobRunnerProofs` | its inductive invariant and its safety properties |
| `PersistentWorker` | the warm identity worker: child, pipes, client |
| `GpuLane` | extends it: the serial lane with native generations and identity tasks, the life of the sd-servers, close and restart |
| `GpuLaneProofs` | its types and its safety properties |
| `BatchPromise` | the abstract promise of a batch: accepted in one step, one retry per key, images only added, outcomes final |
| `IdentityBatches` | batches and their jobs, one file write per step |
| `IdentityBatchesProofs` | their inductive invariant and what it gives: no image lost, no batch complete too early |
| `IdentityBatchesRefinement` | the refinement of `BatchPromise`, step by step |
| `IdentityJobs` | single identity jobs on the lane, plain or of a try-on |
| `HqTryon` | extends it: the try-on service, its pool, its mirror of the child, repairs |
| `HqTryonProofs` | one attempt per job, a history that its records confirm |
| `ImageSession` | one worker process that renders a batch |
| `HqConditioning`, `BodyRepair`, `Gallery` | the audit of a try-on render; a body repair; the private gallery and its session |
| `Refinements`, `Profiles` | versions of an image; a person and the anime profiles |
| `WarmRestore`, `Upscale` | the face processor kept between edits; whether an image can be doubled, and its tiles |
| `FusionEngine`, `FusionImages`, `ResearchTrace`, `PromptExperiments` | the weights of fused prompts; fusion experiments; traces; prompt experiments |
| `MC...` | the instances that TLC checks; `MCImageWorker` composes the modules of the five rows above |
| `ImageWorkerProofs` | extends `MCImageWorker`: an inductive invariant for each part but the research ones |
| `ResearchProofs` | extends `MCImageWorker`: the research parts, the sums of their weights included |

### HistoryTransactions

Correspondence of the state:

| Variable | Code |
|---|---|
| `src` | the files under the output folders; a version stands for size, device and inode (`_identity`) |
| `folders`, `journal`, `receipt` | the transaction folders and their `journal.json` / `committed.json`, `"tmp"` when only the `.tmp` name exists |
| `target`, `entry` | the content of the record: what is deleted and the identity of each file |
| `staged` | the files inside a transaction folder |
| `holder` | the thread that holds the thread lock and the file lock (`_locked`, 122-150) |
| `call`, `tgt`, `pc`, `cur`, `todo`, `pend`, `moving`, `undo` | the local variables and the program counter of the call inside the lock |
| `reply` | the last answer or error a caller got |
| `torn` | versions left by an interrupted in-place rewrite of the metadata |

A call is `Enter`, then recovery (`RecoverCommitted`, `RecoverJournaled`,
`RecoverUnpublished`, `RecoverRefuses`, `RecoverDone`), then its own steps. A
rollback (`RollbackValidate` to `DropFolder`) serves both recovery and a deletion
that failed. `Crash` ends the holder's process anywhere; the operating system
releases the lock. `FailEarly`, `FailDeletion` and `FailRecovery` are an OSError
at any step: before the journal is begun (a folder that was made stays behind, empty),
up to the commit point, and inside a recovery or rollback. `Outside` is a program
that knows nothing of the lock.

The budget of the trash is in sizes: `Size` gives every version of a file one, in units
of `MAX_JOURNAL_BYTES`, and a record counts as one unit, the most it may take.
`DeleteMkdir` looks at the files once, for the budget and for the record, and makes
the folder. That is one step although the code stats file after file and then makes
the folder: what the record keeps is what was measured, so an edit between these
calls has the effect of one right after them. Edits inside a transaction folder are
not modelled; a file that was edited before its rename is there with its new size.

Abstractions: the code orders recovery by folder name and moves by path; the
model takes any order. `fsync` and renames of directory entries are taken to be
durable in program order, which is what the code's sync calls are for. The part
of a record that validation rejects (a foreign path, a bad schema) is left out:
the service writes no such record.

### JobRunner

| Variable | Code |
|---|---|
| `mem`, `disk` | `_jobs[id]["state"]` and the state in the job's file; `"torn"` is half a file |
| `posting`, `queue`, `run`, `pc`, `polls` | jobs between submit's lock and the executor, the executor's queue, the worker's position |
| `registered`, `native` | `_persistent_jobs` and what the sd-server does |
| `ask`, `asked`, `waiting`, `answered` | cancel calls past the lock: to tell the server, told, waiting for the runner's event, returned |
| `cli`, `output` | the command-line process or runner invocation of a job, and its image and metadata |
| `told` | what a client last read as a final state |

Everything done inside `with self._lock` is one step; everything outside is a
step per call. `Saved` and `SaveFails` are `_persist` with and without an
OSError: memory is changed first, the file may be left torn. `Post` has three
outcomes, one of which is a generation the server took whose answer is lost.
`GetStatus` may find a running generation for ever. `Crash` ends the service at
any moment and starts a new one with empty memory. Command-line processes
survive it.

### PersistentWorker and GpuLane

| Variable | Code |
|---|---|
| `life`, `loaded` | where each child is in `serve`, and whether it holds a session (GPU memory) |
| `stdin`, `stdout` | lines in the two pipes of a child; an answer carries the request it is for |
| `client`, `proc`, `confirmed` | the slot of `IdentityService` and the client's `_process`, and whether it said hello |
| `step`, `attempt`, `using`, `task`, `cancelled` | the local state of `run_operation` |
| `rendered`, `accepted` | history: renders an operation caused, whose answer it took |
| `sd`, `held`, `recorded` | what runs under each process id, `_process` of the engine client, the state file |
| `cli`, `shot` | the command-line generator; the one-task identity worker |
| `left` | how many generators and one-task workers still run that an exited service had started |
| `kind`, `at` | the task of the lane and its place: barrier, `ensure_ready`, generation, release, reap, endpoint, worker |
| `closer` | the thread in `IdentityService.close` |

A release (`WarmReleased`, `WarmReleaseRaises`) is a step that may fail, after
which the client keeps a child it could not see exit. A dead process id may be
given to another program (`"foreign"`) once no handle keeps it. `Crash` ends the
service: bound children die with it; sd-servers and the command-line generator, which
are in no job object (`job_runner.py:235-245`), do not, and a one-task worker that was
started and not yet bound may survive too. The last two go to `left` and end by
themselves, at any time or never. A server that is loading
or dying answers no probe; `orphans` are such servers that neither a handle nor the
record names any more, because the service exited or another server took their
place while they were hidden. No later start can prove that they are its own. A server
that serves is never among them, since every start finds it by its record or its port.
`Exclusive` leaves out both `left` and `orphans`, because it is false of them: the next
service knows neither and may load an identity model beside them (section 3, What is
not claimed).

### IdentityBatches

The lock of the service is one variable, `crit`: the section that holds it, what
is left to write and how it will end. A step is one file write, so that each may
fail and the service may exit before and after it. `file`, `copies`, `jobFile`,
`output`, `journal` are on disk; `record`, `items`, `job`, `pending` are their
memory; `worker`, `seen`, `run`, `pc` are the lane's. `told` collects what a
client can have seen complete. `Promise` maps the disk to `BatchPromise`: the
batch file is the commit marker, so an exit inside a submission maps to stutters;
an item is done when its job file says so. `SeenStays` speaks of the batches that
are loaded, or whose chain of retries can be: for the others the document's promise
is false (`ConfirmedStays`, see Findings).

### IdentityJobs and HqTryon

`jobFile` and `job` are the records, `staged` and `shown` the files in the private
and in the output folder, `deleted` the committed deletions of the history.
`Locked` is the stretch of `_execute` that holds the service's lock, from the last
look at the cancel event to the published metadata (1695-1719). `HqTryon` adds
the folders and records of try-ons (`rec`, `recFile`), the thread that prepares one
(`stage`) with what it has read of its child (`snap`), and the repair worker's
`report`. `CloseBegin` to `Start` are a close or an exit and the next start, which
ends what it finds and starts nothing again.

### The parts of MCImageWorker

These modules share no state: each is a part of the service that talks to the rest
only by files the others do not write. They are checked side by side, one part per
behaviour: `runs` is chosen in the initial state and the other parts never move, so
the states are the sum and not the product of the parts.

- `ImageSession`: `pipe` is where the pipeline is (`cpu`, `cuda`, `offload`) and
  what a pass may leave changed in it (precision of the VAE, adapter scale),
  `restorer` where the FP32 restorer is, `disk` the files of each item, `verdict`
  what the service made of them. Every computation may raise; `Restored` is the
  `finally` that puts the pipeline back. `Kill` ends the process anywhere.
- `HqConditioning`: the worker's audit in memory and on disk, with `hashed` against
  `loaded` versions of the models, the pose's origin and the forward calls each
  role was seen in. `Edit` is another program.
- `BodyRepair`: an image is the set of parts in which it differs from its source;
  passes, acceptance by the service and the receipt that a later try may find.
- `Refinements`, `Profiles`: records in memory and on disk, futures of the lane,
  one write per step, failed writes and an exit anywhere.
- `WarmRestore`: `processor` is the content of the files it was loaded from,
  `heldKey` the content that was hashed for it, `late` that they differ because the
  files changed in between (`EditsSound` excepts these: a key is taken before the
  files are loaded, so a change between the two gives newer contents under the older
  key until the next change of key). Any error ends the worker; `KillWarm` is a cancel.
- `Upscale`: `model` counts the changes of the files behind the status, so that a
  signature never comes back; an answer may expire at any moment. The tiles are cut
  on one axis, for every side, tile and halo of the instance.
- `Gallery`: the fingerprint of the session file is the credential it holds.
  `ReadMark` and `Attempt` read the file separately, as `_session` does, so a
  renewal may fall between them. `authCache`, `personCache` are the two caches;
  `raised` notes a caller that found a cache gone between two reads.
- `FusionEngine`: the weights of `sample_fused`, of the service's check and of the
  replay, as fractions, over every request of the instance; the sampling loop.
- `FusionImages`, `ResearchTrace`, `PromptExperiments`: records, links and sidecars
  in the order in which they are written; readers are operators. A status of a
  prompt experiment is computed from jobs read one by one (`ReadVariant`), and
  written in place.

## 3. Properties and runs

Each property is stated, with the lines it is about, where the module defines it.

| Run | Instance and bounds | What it shows |
|---|---|---|
| `history_crash` | two items, three files, one batch; two processes; two folders; one I/O error, two crashes; 269,127 states | the type invariant; `ReceiptComplete`, `OneReceipt`, `AckedIsCommitted`, `ReceiptsForever`; `NoConflict`: whatever a crash or an error leaves can be put back; `RestoredIsRestored`; `MutatesCleanHistory`; and `DeletionIsAtomic`: the protocol implements `HistoryVault` |
| `history_recovery` | the same items, one error, one crash and one interference by another program, files of one to four units and a budget of six; with fairness; 371,753 states | `NeverDiscards`, also when files appear, change or vanish between the check and the rename; `TrashBounded`: the trash outgrows its budget by no more than what the other program adds to a file between its measurement and its rename; `InterruptedResolved`, unless another program put a file where one has to go back |
| `job_crash` | two jobs, one with a client; one failed write, one crash, one status request | the type invariant, `OutcomeIsFinal`, `ToldIsDurable`, `CompleteHasOutput`, `NoStartAfterCancel` |
| `job_settles` | two jobs on the resident server, both with a client, two status requests, no faults; with fairness; 228,132 states | `Settles`; `CancelReachesServer` with a server that may hang |
| `job_injected` | two jobs with an injected runner that may raise, one failed write; with fairness; 56,377 states | `CancelWaitsForRunner`, `CancelReturns`, `QueueDrains` |
| `job_regenerates` | as `job_crash` without faults | a violation, see Findings |
| `gpu_lane` | two children, two sd-servers, three tasks of any kind, one fault, one crash; with fairness; 655,626 states | `Exclusive`: no identity model beside the generator of the same service or a server that it can know; `ForeignUntouched`; `AnswerIsOwn`, `RendersOnce`; `QuietWhenClosed`, `CloseReturns` |
| `identity_batches` | two batches of two images, one retry key, one failed write, one crash; with fairness; 600,431 states | `SeenStays`: what a client saw survives; `CompleteIsWhole`; `PromiseKept`: the batch implements `BatchPromise`; `Settles` |
| `identity_recovery` | two batches of one image, three failed writes, two exits | a violation, see Findings |
| `hq_tryon` | one plain job, one try-on that repairs by itself, two pool threads, one fault, one crash; with fairness; 403,110 states | `OneAttempt`, `HistoryHonest`, `Settles` |
| `hq_failure` | the same instance | a violation, see Findings |
| `image_worker` | the thirteen parts, one per behaviour, see below; 773,821 states | `SessionSound`, `HqHonest`, `EditsSound`, `ProfilesSound`, `ResearchSound` |

Why the bounds are enough. A crash during a recovery needs two crashes: one
that leaves a transaction and one inside its rollback. Two folders allow a
committed one beside an interrupted one; because a mutation never starts on an
unresolved transaction (`MutatesCleanHistory`) a third adds nothing of another
kind. The two items differ on purpose: `a` has an image and metadata and must be
listed to be deleted, `b` is a record that may have lost its image, and the
batch holds both, so that a member can be deleted before its batch and after it.
`MaxVersion` allows one favourite in `history_crash`, which is what makes an
identity in a journal go stale. Threads and folders are interchangeable in
`history_crash`, where symmetry is declared; the runs with liveness declare none.
`MaxPolls` is the generation deadline: a server that hangs is asked once or
twice and then given up. Two jobs are needed for one to wait behind another. In
`job_crash` only one of them has a client that reads and cancels, the other is
the neighbour; in the other job runs both have.

In `gpu_lane` three tasks are a native one, the identity task after it and a native
one again, which is what passes both barriers; two children are the one a failed
release left behind and its successor; two servers are the one a crash left
behind and the one the next service starts. One fault is enough for a failed
release, and the retry inside the client needs none. In `identity_batches` the
second batch is the retry of the first or its neighbour in the queue; two items
are the least with one done and one not. A failed write and a crash may follow
each other in either order. `identity_recovery` needs one image, three failed writes
(of the clean-up, of the job record at the end, of the retry's job record) and two
exits, and no fewer. In `hq_tryon` the plain job is what a restart or a
cancel finds on the lane in front of the try-on's child; the try-on asks for its
repair by itself, so its automatic repair and a client's request meet.

In `image_worker` every part has its own bounds: two items, so that the second
starts on what the first left; two sampling steps and one edit by another program
in a conditioned render; one failing step, one stop and two tries of a repair;
two versions and two request ids, so that a version has a parent and a retry
meets a new request; a processor that may serve two edits, four edits and two
changes of its files, so that it is reused, refused for its content and refused
for its number; three changes of the upscaling model around three calls; sides up
to seven with tiles up to three and halos up to two, so that a halo is cut at
either border and reaches over a neighbour; one anime profile and two jobs; two fusion experiments of two
modes with one damage; prompts of up to three chunks of two tokens and alphas of
0, a half and 1, which have every shape of the weights (an empty tail, a partial
chunk, unequal prompts); three denoising steps, of which the middle one is not
selected; two credentials, the old one and one minted, with three calls, which is
one renewal around the two reads of two others; two variants, of which one may be
done while the other is read.

Deadlock is checked in the history runs. In the job runs the system may stop,
when every job has been submitted and ended, so it is not; nor in the runs of the
identity service, for the same reason.

`TypeOK` of `GpuLane`, `IdentityBatches` and `HqTryon` is not listed in their runs:
it is proved (section 4).

Fairness. `HistoryTransactions!FairSpec`: a thread inside the lock runs on, and
service starts keep running recovery (strong fairness: the lock may be taken by
another call again and again). `JobRunner!FairSpec`: the worker thread and the
cancel calls run on and a command-line process ends. Nothing is assumed of the
sd-server: it may never answer the generation. Clients owe nothing.
`GpuLane!FairSpec`: the lane's thread and the closing thread run on, because the
waits in them have deadlines, and a process that was terminated goes away. One wait
has none: `_wait_owned_release` (`identity_service.py:1044-1061`) keeps the lane until
a one-task worker has been seen to exit. For it fairness says that the process, which
was ended or comes to its own end, does. Children
and servers owe nothing; `CloseReturns` holds even when a child never answers.
`IdentityBatches!FairSpec`: the lane runs on and a section that holds the lock
leaves it. The worker of a batch owes nothing: the lane's deadline ends it.
`HqTryon!Fairness`: the lane and the threads of the pool run on, a close comes to
its end, a closed service exits and is started again. The last is the use of the
program: a try-on that was interrupted is ended by the next start and by nothing
else.

What is not claimed. After a failed write of a job record memory and file
disagree, so `ToldIsDurable` speaks only of runs without one. After an I/O error
in the trace or the output a job keeps an active state for ever, so `Settles`
speaks of runs without one and `QueueDrains` says that the others do not suffer.
A job that is queued when the service exits is not queued again. A favourite
interrupted by a crash leaves metadata that the scan cannot read. A job
cancelled between its last check and the write of its output leaves files in the
history. A file that another program makes longer after it was measured is staged
if its version is looked at before the change, and then exceeds the budget: `TrashUse <= MaxTrash`
is violated in the instance of `history_recovery`, which is why `TrashBounded` counts
what was measured. A try-on whose child could not be recorded keeps an active child
until the next start (`Stranded`), and `Settles` of `HqTryon` says so. The status
page of the gallery may find its cache gone between two reads and fail; a status of
a prompt experiment may be overwritten by an older one, never by a wrong end. No
document says otherwise of any of these.

Of one more a document does. The design of the identity worker
(`docs/superpowers/specs/2026-09-20-identity-profiles-batches-design.md:57`) says that the
native engine and the identity model are never resident together. `Exclusive` says it
of the processes that someone can still find. It does not hold of what an exited service leaves
behind: the command-line generator, a one-task worker that was not yet in the job object, an
sd-server that was not yet recorded. When the service exits during a
command-line generation and is started again, the first identity task finds no
server to release and loads its model while the old generator still draws.

### Findings

`job_regenerates`: the design of the resident worker
(`docs/superpowers/specs/2026-09-08-dream-persistent-cuda-worker-design.md:26`)
says that a task the server has accepted is reported as failed and not generated
again. The client takes a POST without a usable answer for a task that was not
accepted, so a lost answer makes the runner start the command-line program for a
job that the server is generating (`job_runner.py:353-356`, `286-287`).

`hq_failure`: `docs/dream-windows/HQ_LOCAL_TRYON.md:93` says that a failure may not
be hidden by a success the interface reports. `_execute` records the child complete
(`identity_service.py:1714`) and then publishes its metadata (1716). When that
rename fails, the try-on's thread may read the child as complete and save the
try-on as succeeded (`hq_service.py:659`) before the child is recorded failed and
its picture taken back (1720-1725). The saved success is never looked at again.
`HistoryHonest` still holds: the picture is not in the history.

`identity_recovery`: the design of the batches
(`docs/superpowers/specs/2026-09-20-identity-profiles-batches-design.md:57`) says that
an image that was confirmed complete may not be deleted by a cancellation or a
recovery of a batch. It came out of the attempt to prove an unguarded `SeenStays`.
A batch ends as failed with an item that is journalled and not consumed, because
neither its clean-up nor its job record could be written. The item is retried, and
the retry's image is shown complete, but its job record cannot be written and the
service exits. The next start replays the original's journal first
(`identity_batches.py:671-708`), so that the original's copy of the item is complete
too; a second exit then leaves a retry whose lineage is refused (`_validate_lineage`,
241-250). It is not loaded, its active job counts as an orphan
(`identity_service.py:940-955`) and the image that was shown is removed.

## 4. Proofs

`HistoryTransactionsProofs` proves, for any items, batches, files, threads,
processes, transaction folders and bounds, under `HistoryAssumption` alone:

- `TypeCorrect`: `Spec => []TypeOK`;
- `OwnedAlways`: `Spec => []Owned`, the inductive invariant;
- `ReceiptsKept`: `Spec => ReceiptsForever`;
- `NothingDiscarded`: `Spec => NeverDiscards`;
- `BudgetKept`: `Spec => []TrashBounded`.

`ReceiptsForever` is not inductive by itself: nothing in it says that the
transaction a thread is staging or rolling back is not a committed one, or that a
folder about to be created holds nothing. `OwnsCurrent` adds both: a folder that
does not exist has no record and no file, `todo` names only existing folders, and
between the creation of the folder and the commit point, as during every rollback,
`cur` exists and has no receipt. There is one lemma per action (or per few that
change the same variables) that `Owned` is preserved, and the two action properties follow
from `Owned` and the step: recovery reaches `validate` only for a folder without a
receipt, and a move's target is empty whenever its source is not.

`ClaimsAlways` and `ReceiptsUnique` (`Spec => []OneReceipt`) too allow any edits by other programs: between the
lookup and the receipt the lock keeps the set of receipts fixed, so a target that
no receipt covered at its lookup is covered by none at its commit, and its files
belong to no receipt.

The other theorems of the module assume `MaxEdits = 0`, no other program
changing the files, because their properties are false without it: recovery
refuses to put a file back where another program has put one in the meantime. The run `history_crash` makes the same assumption.
Under it:

- `SafeAlways`: `Spec => []Safe`, the inductive invariant;
- `ReceiptsComplete`, `MutationsAreClean`, `NoConflicts`, `AcksAreCommitted`,
  `RestoredMeansRestored`: the properties `ReceiptComplete`, `MutatesCleanHistory`,
  `NoConflict`, `AckedIsCommitted`, `RestoredIsRestored`;
- `Atomic`: `Spec => DeletionIsAtomic`. Initial states map to initial states of
  `HistoryVault`; the publication of the receipt maps to the abstract deletion,
  a favourite to the abstract favourite, every other step to a stutter.

None of these properties is inductive: they say what is seen at the end of a
deletion or a recovery and nothing of the states between. `Safe` adds that.
`Recoverable` says that at most one transaction is unfinished and that each of
its files is in exactly one place, the folder or its own; what holds at which step (`AtStep`) makes each step of a deletion or a rollback
keep that, a crash included, because a crash only forgets the program counter.
`TakesAll` says that a deletion names every file of its target that exists, which is
what makes the abstract item leave the history whole.

`JobRunnerProofs` proves, for any jobs, any bounds and with or without an injected
runner, under `JobAssumption`:

- `TypeCorrect`: `Spec => []TypeOK`; `InvAlways`: `Spec => []Inv`;
- `OutcomesAreFinal`, `CancelledNeverStarts`: the action properties
  `OutcomeIsFinal` and `NoStartAfterCancel`;
- `CompleteIsWhole`, `CancelsWait`, `WhatIsToldStays`: the invariants
  `CompleteHasOutput`, `CancelWaitsForRunner`, `ToldIsDurable`.

The code checks the record in memory and the properties speak of the file, so the
invariant has to tie the two: `Agreement` says that a file never holds an outcome
that the record in memory does not, failed writes included. With `OneTurn` (a job
is queued once and its record is active or cancelled until its turn ends) no update of the worker meets
a decided file. `Processes` places every process at the step of the worker that owns
it, or as a survivor of a crash, which is what `CompleteHasOutput` and
`CancelWaitsForRunner` need together with `CancelCalls`.

`BudgetKept` holds for files of any sizes. A deletion measures once, before it makes
its folder, and then moves file after file, while other programs may edit. What is
compared is of each file in the trash what its record measured, at most what is there
(`Measured`; without edits that is all of it). What has to be known between is
`RoomForAll`: there is room for that of the files in the trash, for the measured sizes
of all that are still to be moved, and for the two records, wherever the deletion
stands. It needs finitely many files and folders (`HistoryFinite`).

`GpuLaneProofs` proves, for any children, servers, tasks, failed calls and exits,
under `LaneAssumption`:

- `TypeCorrect`: `Spec => []TypeOK`;
- `NeverTogether`, `ClosedIsQuiet`, `ForeignersStay`: `Exclusive`,
  `QuietWhenClosed`, `ForeignUntouched`;
- `RenderedOnce`, `AnswersAreOwn`: `RendersOnce`, `AnswerIsOwn`.

The first three follow from `LaneInv`. `OneChild` says that the client knows the one
child that may run, also after a release that raised; `Traced` that a server which
runs without listening has a handle or a record, so that a release that proves both
gone proves that none is left (`Alone`), and at which places of the lane that proof
holds. `NeverTogether` speaks, as `Exclusive` does, of what a handle, a record or the
lane's own thread still knows; the theorem says nothing of `left` and `orphans`. The proof of `Traced` found a second way to lose a server besides an exit:
one that is loading can be replaced, in the handle or in the record, by another one.
The last two follow from `PipeInv`, which counts requests in pipes and not answers: a
line that a living child has still to render was rendered by nobody, there is one
such line per task, and a task that may still be written was rendered by nobody
(`Untouched`). A second attempt is allowed only behind a refusal, which a child sends
before it renders.

`IdentityBatchesProofs` proves, for any batches, images, keys, failed writes and
exits, under `BatchAssumption`:

- `TypeCorrect`: `Spec => []TypeOK`;
- `SeenIsKept`: `Spec => []SeenStays`; `CompleteHoldsAll`: `Spec => []CompleteIsWhole`.

The inductive invariant has three parts. `OnRecords` relates files and memory. Its
heart is `Firmly`: when an image counts as finished, by its job record or by what was
told, then it *and every image before it* lies whole on disk with a job record or an
event in the journal. It holds because the worker renders in order and events
are consumed in order; without "every image before it" the replay of a journal, which
stops at the first gap, could not be shown to find the image again. `OnLane` says
that a queued or running batch is active on disk, `OnLock` what is known inside each
section of the lock (`Knowing`, `Replaying`: which completions memory has and which it
is about to find).

`IdentityBatchesRefinement` proves `PromiseImplemented`: `Spec => PromiseKept`. There
is one lemma per action. A submission or retry maps to `Prepare` when its lock is
taken and to `Accept` at the write of the batch file; the removal of that file in a
rollback to `Withdraw`; the write of a job record as complete to `FinishImage`; the
last write of a batch to `End`; every other write, and an exit, to a stutter. That a
retry's key is accepted once comes from `Reserving` (no other batch took the key since
the lock was taken) and that its images are unfinished ones of a finished parent from
`Sourced`.

`HqTryonProofs` proves, for any plain jobs and finitely many try-ons, any number of
threads, failed writes and exits, under `JobAssumption` and `TryonAssumption`:

- `TypeCorrect`: `Spec => []TypeOK`;
- `AttemptedOnce`: `Spec => []OneAttempt`; `HistoryIsHonest`: `Spec => []HistoryHonest`.

The lane's part of the invariant (`JobInv`) says that a job without a record was
never queued, that a job is queued once, and that one that waits or is being prepared
was given to no worker (`Waiting`, `Single`, `Unstarted`). `Unpublished` says that while
the lane is at a try-on its metadata is not in the output folder, and is put there
only when the job's file says complete. The try-on service's part (`Folders`,
`Resting`) says for which records there is a folder and that a service that is down
has nothing on the lane, so that the recovery of a start meets no thread.

`ImageWorkerProofs` proves, for any values of the constants, under the assumptions of
the modules it composes:

- `SessionIsSound`, `HqIsHonest`, `EditsAreSound`, `ProfilesAreSound`: the invariants
  `SessionSound`, `HqHonest`, `EditsSound` and `ProfilesSound` of the run
  `image_worker`.

Every part has an inductive invariant over its own variables, and a step of another
part leaves it alone. What each adds to its property:

- `SessionInv`: where the pipeline and the restorer are at each step of an item, and
  that the receipt in memory names the stages whose files exist.
- `ConditioningInv`: what was hashed is what was loaded, and which forwards were
  observed, at each step before the audit says so. `RepairInv`: which parts of the
  drawn image differ from the source at each pass, and that a report that is accepted
  is of this source and of these regions.
- `GalleryInv`: a session file only gives way to a newer one. So a fingerprint that was
  taken of an older file never equals the present one, and a cache keyed by the
  present one was filled under it, although each caller reads the file twice.
- `VersionsInv`: the lane owns the version it executes, and an image that a complete
  version, the selection or a running edit stands on stays until the deletion, which
  waits for the lane. `WarmInv`: the uses of a processor are counted with the answers
  and it goes with its worker. `StatusInv`: an answer belongs to files at least as
  new as its key. `TilesInv`: all that lies left of the next tile is as it will be
  in the end, for a side, tile and halo of any size.
- `ProfilesInv`: memory and disk differ only after a failed write, a name is the one
  acknowledged last, and a job that draws was checked against its profile a second
  time under the lock.

`ResearchProofs` proves `ResearchIsSound` (`Spec => []ResearchSound`) in the same way,
for any values of the constants:

- `EngineInv` says little: the request stays, and the engine decodes after its last
  step. What `FusionAgrees` says of every request is a fact about the operators.
  `ChunksFit` shows that the chunks hold the longer prompt and are no more than
  `MaxChunks`; `AllAreSampled` that the chunks the engine drops when the negative
  prompt is not used are none, so that the engine, the service and the replay count
  the same tokens; `WeightsAreShares` and `CoefficientsAreShares` that all
  weigh alike. That the weights share out one update, and that the pieces of the
  prompt add up to it, are sums over sequences of any length (`SharesAddUp`,
  `PiecesAddUp`).
- `FusionInv`: the one live experiment is the one on the lane, a record that can be
  read or will be written has its request for itself, and between which steps the model
  of the images is known to be that of the submission. The proof needed that a
  record that cannot be read stays so: one that a foreign program mends could come back
  beside a second experiment of the same request. `DamageFusion` now says so.
- `TraceInv`: while no write has failed, all that was asked for so far is there and
  listed; nothing is there of an image before its turn, and no root before its end.
- `PromptInv`: a job seen at its end is still there, and a submission that withdraws has
  recorded nothing. So a status computed outside the lock may be old, but an end is true.

The library's induction theorems take an operator and cannot be used here. The sums are
recursive functions instead, and `Induction` is stated of a set of numbers: one that
holds 0 and with every number the next holds all. It follows from the least
element of the complement, which the well-foundedness of the order of `Nat` gives (`LeastExists`).

Every safety property that a run checks as holding is stated by a theorem. Outside the
prover's reach, and left to TLC: liveness (`InterruptedResolved`, `Settles`
of the three modules that have it, `CancelReachesServer`, `CancelReturns`, `QueueDrains`,
`CloseReturns`), and every claim about what is enabled.

## 5. Not modelled, and the plan

`PROJECT.json` lists every part with its status. Not modelled, and why:

- Tensors, masks, embeddings, quality numbers, the values of attention maps and the
  comparison of two runs: TLC cannot reach the data. The models keep that a
  computation raised, and which files and records that leads to.
- Telemetry, operations and the routes: they read and format; nothing depends on
  what they keep. The settings file is a read-modify-write in place without a lock;
  no document promises more of it (a hazard without a property).
- A change of the try-on's identity reference between its comparison by pixels and
  its fingerprint, a close of the service in the middle of a fusion submission, and
  the upload of references with its limits.
- `delete_legacy` of refinements, a check in front of the deletion of a record of
  an older release.
- The web interface, a client; `dream-core` and `latent-correlation`, command-line
  programs that run one request (the external action `CliEnds`).
- The WPF workbench with its pipe and PowerShell backend, the knowledge base, the
  installer and the lifecycle scripts: separate programs that share no state with
  the Dream service.
- The Android image harness, text patches to another project, and the build scripts.

- Predictions that another engine has exported: the replay reads documents of the
  Android engine (`research_fusion.py:63-70`), and `ReplayWeights` is its arithmetic on
  the chunks of this one.
- A failed write of the second record when the pool refuses a try-on
  (`hq_service.py:585-588`): the file would say queued until the next start ends it.

A record of a fusion experiment that was unreadable for a while and is mended by another
program is left out too (see `FusionInv` above).

Only model-checked: the liveness properties.
