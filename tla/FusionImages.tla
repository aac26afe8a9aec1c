---------------------------- MODULE FusionImages ----------------------------
(***************************************************************************)
(* Experiments with fused prompts (research_image_service.py): clients     *)
(* submit, read and cancel them, the serial lane executes one with a       *)
(* worker (research_image_engine.py) that makes ModeCount images, and the  *)
(* images become the result by links and a record.  Other programs may     *)
(* change the configured model and damage a record; the service may exit.  *)
(***************************************************************************)
EXTENDS Naturals

CONSTANTS Experiments, FusionIds, NoExperiment, ModeCount,
          MaxModelEdits, MaxDamages, MaxFusionFaults, MaxFusionExits

ASSUME FusionAssumption ==
    /\ NoExperiment \notin Experiments /\ ModeCount \in Nat \ {0}
    /\ {MaxModelEdits, MaxDamages, MaxFusionFaults, MaxFusionExits} \subseteq Nat

VARIABLES
    experiment,              \* the record of each experiment
    finals, drafts,          \* number of its images, and of the worker's files
    madeWith,                \* the model its images were made with
    fusionTask, fusionStops, \* its future and its cancel event
    executing, fusionAt,     \* the experiment on the serial lane, and its step
    configured,              \* the version of the configured model
    damages, fusionFaults, fusionExits

fusionFiles == <<experiment, finals, drafts>>
fusionLane == <<executing, fusionAt>>
fusionLimits == <<damages, fusionFaults, fusionExits>>
imagesVars == <<fusionFiles, madeWith, fusionTask, fusionStops, fusionLane, configured, fusionLimits>>

Going == {"queued", "running", "cancelling"}
Damaged == {"invalid", "unreadable"}
NoFusion == [state |-> "absent", request |-> NoExperiment, binding |-> 0]

InitImages ==
    /\ experiment = [x \in Experiments |-> NoFusion]
    /\ finals = [x \in Experiments |-> 0] /\ drafts = finals /\ madeWith = finals
    /\ fusionTask = [x \in Experiments |-> "none"] /\ fusionStops = {}
    /\ executing = NoExperiment /\ fusionAt = "idle" /\ configured = 0
    /\ damages = 0 /\ fusionFaults = 0 /\ fusionExits = 0

Live(x) == fusionTask[x] \in {"queued", "running"}
FusionLocked == fusionAt \in {"validate", "link", "record"}
FusionFault ==
    fusionFaults < MaxFusionFaults /\ fusionFaults' = fusionFaults + 1 /\ UNCHANGED <<damages, fusionExits>>
SetState(x, state) == experiment' = [experiment EXCEPT ![x].state = state] /\ UNCHANGED fusionLimits
FusionUnsaved == FusionFault /\ UNCHANGED experiment

\* _validate_record: an experiment with no task left to end it has failed.
Interrupted(x) == experiment[x].state \in Going /\ ~Live(x)
Recovered(x) == IF Interrupted(x) THEN [experiment[x] EXCEPT !.state = "failed"] ELSE experiment[x]
ReadAll == [x \in Experiments |-> Recovered(x)]

-----------------------------------------------------------------------------
(* Requests of clients, under the lock of the service.                      *)

\* submit: a request that is known is not made again, not even when its record
\* is invalid, and the registry counts what a record no longer shows.  The lane
\* takes the task, or refuses it and the record says failed.
SubmitFusion(x, request) ==
    /\ ~FusionLocked /\ experiment[x] = NoFusion
    /\ \A y \in Experiments : experiment[y].request = request => experiment[y].state = "unreadable"
    /\ \A y \in Experiments : ~Live(y)
    /\ \/ /\ experiment' = [ReadAll EXCEPT ![x] =
                               [state |-> "queued", request |-> request, binding |-> configured]]
          /\ fusionTask' = [fusionTask EXCEPT ![x] = "queued"] /\ UNCHANGED fusionLimits
       \/ /\ experiment' = [ReadAll EXCEPT ![x] =
                               [state |-> "failed", request |-> request, binding |-> configured]]
          /\ UNCHANGED <<fusionTask, fusionLimits>>
       \/ FusionFault /\ experiment' = ReadAll /\ UNCHANGED fusionTask
    /\ UNCHANGED <<finals, drafts, madeWith, fusionStops, fusionLane, configured>>

\* get, image, and a submission that is refused: reading recovers.
ReadFusion(x) ==
    /\ ~FusionLocked /\ Interrupted(x) /\ SetState(x, "failed")
    /\ UNCHANGED <<finals, drafts, madeWith, fusionTask, fusionStops, fusionLane, configured>>

\* cancel: a record that cannot be read cannot be cancelled.
CancelFusion(x) ==
    /\ ~FusionLocked /\ experiment[x].state \in Going /\ Live(x) /\ x \notin fusionStops
    /\ fusionStops' = fusionStops \cup {x}
    /\ \/ /\ fusionTask[x] = "queued" /\ fusionTask' = [fusionTask EXCEPT ![x] = "done"]
          /\ SetState(x, "cancelled") \/ FusionUnsaved
       \/ /\ fusionTask[x] = "running" /\ UNCHANGED fusionTask
          /\ SetState(x, "cancelling") \/ FusionUnsaved
    /\ UNCHANGED <<finals, drafts, madeWith, fusionLane, configured>>

-----------------------------------------------------------------------------
(* _execute.                                                                *)

ToStep(place) == fusionAt' = place /\ UNCHANGED executing
LaneKeeps == UNCHANGED <<fusionTask, fusionStops, configured>>
Stopped == executing \in fusionStops

TakeFusion(x) ==
    /\ fusionAt = "idle" /\ fusionTask[x] = "queued" /\ executing' = x /\ fusionAt' = "begin"
    /\ fusionTask' = [fusionTask EXCEPT ![x] = "running"]
    /\ UNCHANGED <<fusionFiles, madeWith, fusionStops, configured, fusionLimits>>

BeginFusion ==
    /\ fusionAt = "begin" /\ LaneKeeps /\ UNCHANGED <<finals, drafts, madeWith>>
    /\ \/ /\ ~Stopped /\ experiment[executing].state \notin Damaged
          /\ experiment[executing].binding = configured
          /\ SetState(executing, "running") /\ ToStep("hash")
       \/ FusionUnsaved /\ ToStep("except")
       \/ /\ \/ Stopped \/ experiment[executing].state \in Damaged
             \/ experiment[executing].binding # configured
          /\ ToStep("except") /\ UNCHANGED <<experiment, fusionLimits>>

\* resolve_assets before and after the digest of the model is taken: anything
\* changed is noticed.
HashModel ==
    /\ fusionAt = "hash" /\ LaneKeeps /\ UNCHANGED <<fusionFiles, madeWith, fusionLimits>>
    /\ ToStep(IF experiment[executing].binding = configured THEN "pipe" ELSE "except")

LoadPipe ==
    /\ fusionAt = "pipe" /\ LaneKeeps /\ UNCHANGED <<fusionFiles, fusionLimits>>
    /\ madeWith' = [madeWith EXCEPT ![executing] = configured] /\ ToStep("draw")

\* One mode after the other: sample, decode, and _publish_png.
DrawMode ==
    /\ fusionAt = "draw" /\ LaneKeeps /\ UNCHANGED <<experiment, finals, madeWith, fusionLimits>>
    /\ drafts' = [drafts EXCEPT ![executing] = @ + 1]
    /\ ToStep(IF drafts'[executing] = ModeCount THEN "drawn" ELSE "draw")

\* The model must be the same when the last image is made.
Drawn ==
    /\ fusionAt = "drawn" /\ LaneKeeps /\ UNCHANGED <<fusionFiles, madeWith, fusionLimits>>
    /\ ToStep(IF experiment[executing].binding = configured THEN "validate" ELSE "except")

\* The worker fails, or is ended after a cancel.
WorkerGivesUp ==
    /\ fusionAt \in {"hash", "pipe", "draw", "drawn"} /\ LaneKeeps /\ ToStep("except")
    /\ UNCHANGED <<fusionFiles, madeWith, fusionLimits>>

\* _validate_result; FusionEngine says which weights it accepts.
Validate ==
    /\ fusionAt = "validate" /\ LaneKeeps /\ UNCHANGED <<fusionFiles, madeWith, fusionLimits>>
    /\ ToStep(IF ~Stopped /\ drafts[executing] = ModeCount THEN "link" ELSE "except")

LinkMode ==
    /\ fusionAt = "link" /\ LaneKeeps /\ UNCHANGED <<experiment, drafts, madeWith>>
    /\ \/ /\ finals' = [finals EXCEPT ![executing] = @ + 1] /\ UNCHANGED fusionLimits
          /\ ToStep(IF finals'[executing] = ModeCount THEN "record" ELSE "link")
       \/ FusionFault /\ ToStep("except") /\ UNCHANGED finals

RecordFusion ==
    /\ fusionAt = "record" /\ LaneKeeps /\ UNCHANGED <<finals, drafts, madeWith>>
    /\ \/ SetState(executing, "complete") /\ ToStep("clean")
       \/ FusionUnsaved /\ ToStep("except")

\* except: the images go, then the record is read again, which fails when it
\* is damaged, and written, which may fail too.
ExceptFusion ==
    /\ fusionAt = "except" /\ LaneKeeps /\ ToStep("clean") /\ UNCHANGED <<drafts, madeWith>>
    /\ finals' = [finals EXCEPT ![executing] = 0]
    /\ \/ /\ experiment[executing].state \notin Damaged
          /\ SetState(executing, IF Stopped THEN "cancelled" ELSE "failed")
       \/ experiment[executing].state \in Damaged /\ UNCHANGED <<experiment, fusionLimits>>
       \/ FusionUnsaved

CleanFusion ==
    /\ fusionAt = "clean" /\ drafts' = [drafts EXCEPT ![executing] = 0]
    /\ fusionTask' = [fusionTask EXCEPT ![executing] = "done"]
    /\ executing' = NoExperiment /\ fusionAt' = "idle"
    /\ UNCHANGED <<experiment, finals, madeWith, fusionStops, configured, fusionLimits>>

-----------------------------------------------------------------------------
(* Other programs, and the end of the service.                              *)

EditModel ==
    /\ configured < MaxModelEdits /\ configured' = configured + 1
    /\ UNCHANGED <<fusionFiles, madeWith, fusionTask, fusionStops, fusionLane, fusionLimits>>

\* What cannot be read stays so.
DamageFusion(x) ==
    /\ damages < MaxDamages /\ damages' = damages + 1 /\ experiment[x].state \notin {"absent", "unreadable"}
    /\ \E harm \in Damaged \cup IF experiment[x].state \in Going THEN {"failed"} ELSE {} :
         experiment' = [experiment EXCEPT ![x].state = harm]
    /\ UNCHANGED <<finals, drafts, madeWith, fusionTask, fusionStops, fusionLane, configured,
                   fusionFaults, fusionExits>>

ExitFusion ==
    /\ fusionExits < MaxFusionExits /\ fusionExits' = fusionExits + 1 /\ UNCHANGED <<damages, fusionFaults>>
    /\ fusionTask' = [x \in Experiments |-> IF fusionTask[x] = "none" THEN "none" ELSE "done"]
    /\ fusionStops' = {} /\ executing' = NoExperiment /\ fusionAt' = "idle"
    /\ UNCHANGED <<fusionFiles, madeWith, configured>>

ImagesNext ==
    \/ \E x \in Experiments, r \in FusionIds : SubmitFusion(x, r)
    \/ \E x \in Experiments : ReadFusion(x) \/ CancelFusion(x) \/ TakeFusion(x) \/ DamageFusion(x)
    \/ BeginFusion \/ HashModel \/ LoadPipe \/ DrawMode \/ Drawn \/ WorkerGivesUp \/ Validate
    \/ LinkMode \/ RecordFusion \/ ExceptFusion \/ CleanFusion \/ EditModel \/ ExitFusion

-----------------------------------------------------------------------------
\* A complete experiment has every image, all made with the model it was
\* submitted for, and was not cancelled; no request has two experiments that
\* can be read; and one experiment is in the queue, whatever happens to the
\* records ("the shared registry is authoritative",
\* research_image_service.py:142).
FusionSound ==
    /\ \A x \in Experiments : experiment[x].state = "complete" =>
         /\ finals[x] = ModeCount /\ madeWith[x] = experiment[x].binding
         /\ x \notin fusionStops
    /\ \A x, y \in Experiments :
         /\ x # y /\ {experiment[x].state, experiment[y].state} \cap {"absent", "unreadable"} = {} =>
              experiment[x].request # experiment[y].request
         /\ Live(x) /\ Live(y) => x = y
=============================================================================
