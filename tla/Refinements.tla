---------------------------- MODULE Refinements ----------------------------
(***************************************************************************)
(* The edited versions of one finished image (identity_refinements.py):    *)
(* submit, select, cancel and the deletion of the image by clients, and    *)
(* the execution on the serial lane, in which a worker writes a private    *)
(* file (identity_refinement_engine.py) that becomes a version by a link   *)
(* and a record.  A record that is active without a task is interrupted.   *)
(* The service may exit anywhere.                                          *)
(***************************************************************************)
EXTENDS Naturals, FiniteSets

CONSTANTS Versions, RequestIds, NoVersion, MaxWriteFaults, MaxExits

ASSUME RefinementAssumption ==
    /\ NoVersion \notin Versions /\ {"result", "original"} \cap Versions = {}
    /\ MaxWriteFaults \in Nat /\ MaxExits \in Nat

VARIABLES
    source,       \* the image is there, or its deletion is committed
    row,          \* the record of each version
    png, pending, \* versions with a final image; with the worker's file
    selected,     \* selection.json
    task,         \* the future of each version
    cancels,      \* versions whose cancel event is set
    running, step,
    writeFaults, exits

versionFiles == <<source, row, png, pending, selected>>
versionLane == <<running, step>>
versionBounds == <<writeFaults, exits>>
refinementVars == <<versionFiles, task, cancels, versionLane, versionBounds>>

Base == {"result", "original"}
Active == {"queued", "running"}
Absent == [state |-> "absent", parent |-> "result", upscale |-> FALSE, request |-> NoVersion]

InitRefinements ==
    /\ source = "present" /\ row = [v \in Versions |-> Absent] /\ png = {} /\ pending = {}
    /\ selected = "result" /\ task = [v \in Versions |-> "none"] /\ cancels = {}
    /\ running = NoVersion /\ step = "idle" /\ writeFaults = 0 /\ exits = 0

\* The service lock is held from the last look at the event to the record.
VersionLocked == step \in {"link", "record"}

\* read: a record that is active, with no task left to end it, has failed.
Seen(v) == IF row[v].state \in Active /\ task[v] \notin {"queued", "running"}
           THEN [row[v] EXCEPT !.state = "failed"] ELSE row[v]
AllSeen == [v \in Versions |-> Seen(v)]
NoneActive == \A v \in Versions : Seen(v).state \notin Active
WriteFails == writeFaults < MaxWriteFaults /\ writeFaults' = writeFaults + 1 /\ UNCHANGED exits

\* version_image, editable_parent
HasImage(v) == v \in Base \/ (v \in Versions /\ Seen(v).state = "complete" /\ v \in png)
Editable(v) == HasImage(v) /\ (v \in Versions => ~row[v].upscale)

-----------------------------------------------------------------------------
(* Requests of clients.                                                     *)

\* submit: a request that is sent again gets its version, and one edit of an
\* image is active at a time.
SubmitVersion(v, parent, upscale, request) ==
    /\ ~VersionLocked /\ source = "present" /\ row[v] = Absent /\ task[v] = "none"
    /\ \A w \in Versions : Seen(w).request # request
    /\ Editable(parent) /\ NoneActive
    /\ \/ /\ row' = [AllSeen EXCEPT ![v] =
                        [state |-> "queued", parent |-> parent, upscale |-> upscale, request |-> request]]
          /\ task' = [task EXCEPT ![v] = "queued"] /\ UNCHANGED versionBounds
       \/ WriteFails /\ row' = AllSeen /\ UNCHANGED task
    /\ UNCHANGED <<source, png, pending, selected, cancels, versionLane>>

\* workspace, records: reading ends what was interrupted.
Look ==
    /\ ~VersionLocked /\ source = "present" /\ AllSeen # row /\ row' = AllSeen
    /\ UNCHANGED <<source, png, pending, selected, task, cancels, versionLane, versionBounds>>

Select(v) ==
    /\ ~VersionLocked /\ source = "present" /\ HasImage(v) /\ selected # v /\ selected' = v
    /\ UNCHANGED <<source, row, png, pending, task, cancels, versionLane, versionBounds>>

\* cancel: a queued edit ends here, a running one when the lane sees the event.
CancelVersion(v) ==
    /\ ~VersionLocked /\ Seen(v).state \in Active /\ v \notin cancels /\ cancels' = cancels \cup {v}
    /\ \/ /\ task[v] = "queued" /\ task' = [task EXCEPT ![v] = "done"]
          /\ \/ row' = [row EXCEPT ![v].state = "cancelled"] /\ UNCHANGED versionBounds
             \/ WriteFails /\ UNCHANGED row
       \/ task[v] = "running" /\ UNCHANGED <<task, row, versionBounds>>
    /\ UNCHANGED <<source, png, pending, selected, versionLane>>

\* Mutant: the deletion does not look for an active edit.
DeleteAnyway ==
    /\ ~VersionLocked /\ source = "present" /\ source' = "deleted"
    /\ row' = [v \in Versions |-> Absent] /\ png' = {} /\ pending' = {} /\ selected' = "result"
    /\ UNCHANGED <<task, cancels, versionLane, versionBounds>>

\* artifact_paths: the deletion of the image takes every version with it, and
\* is refused while one is active.
DeleteSource ==
    /\ ~VersionLocked /\ source = "present" /\ NoneActive /\ source' = "deleted"
    /\ row' = [v \in Versions |-> Absent] /\ png' = {} /\ pending' = {} /\ selected' = "result"
    /\ UNCHANGED <<task, cancels, versionLane, versionBounds>>

-----------------------------------------------------------------------------
(* execute.                                                                 *)

StepTo(place) == step' = place /\ UNCHANGED running

TakeVersion(v) ==
    /\ step = "idle" /\ task[v] = "queued"
    /\ task' = [task EXCEPT ![v] = "running"] /\ running' = v /\ step' = "begin"
    /\ UNCHANGED <<versionFiles, cancels, versionBounds>>

Begin ==
    /\ step = "begin" /\ UNCHANGED <<source, png, pending, selected, task, cancels>>
    /\ \/ /\ source = "present" /\ Editable(row[running].parent) /\ running \notin cancels
          /\ row' = [row EXCEPT ![running].state = "running"] /\ StepTo("work") /\ UNCHANGED versionBounds
       \/ running \in cancels /\ StepTo("except") /\ UNCHANGED <<row, versionBounds>>
       \/ WriteFails /\ StepTo("except") /\ UNCHANGED row

\* The worker's refine: whatever fails, no fallback is published as an edit; a
\* failure after its publication leaves the private file.
Edits ==
    /\ step = "work"
    /\ \/ running \notin cancels /\ pending' = pending \cup {running} /\ StepTo("finish")
       \/ pending' \in {pending, pending \cup {running}} /\ StepTo("except")
    /\ UNCHANGED <<source, row, png, selected, task, cancels, versionBounds>>

Finish ==
    /\ step = "finish" /\ UNCHANGED <<versionFiles, task, cancels, versionBounds>>
    /\ StepTo(IF source = "present" /\ running \notin cancels /\ running \in pending THEN "link" ELSE "except")

Link ==
    /\ step = "link" /\ UNCHANGED <<source, row, pending, selected, task, cancels>>
    /\ \/ png' = png \cup {running} /\ StepTo("record") /\ UNCHANGED versionBounds
       \/ WriteFails /\ StepTo("except") /\ UNCHANGED png

RecordVersion ==
    /\ step = "record" /\ UNCHANGED <<source, png, pending, selected, task, cancels>>
    /\ \/ row' = [row EXCEPT ![running].state = "complete"] /\ StepTo("clean") /\ UNCHANGED versionBounds
       \/ WriteFails /\ StepTo("except") /\ UNCHANGED row

\* The record may not be written: the next read ends the edit.
ExceptVersion ==
    /\ step = "except" /\ StepTo("clean") /\ UNCHANGED <<source, png, pending, selected, task, cancels>>
    /\ \/ /\ row' = [row EXCEPT ![running].state = IF running \in cancels THEN "cancelled" ELSE "failed"]
          /\ UNCHANGED versionBounds
       \/ WriteFails /\ UNCHANGED row

\* finally, outside the lock.
Clean ==
    /\ step = "clean" /\ running' = NoVersion /\ step' = "idle"
    /\ pending' = pending \ {running} /\ task' = [task EXCEPT ![running] = "done"]
    /\ UNCHANGED <<source, row, png, selected, cancels, versionBounds>>

-----------------------------------------------------------------------------
\* The service exits: tasks and events are gone, files and records are not.
Exit ==
    /\ exits < MaxExits /\ exits' = exits + 1 /\ UNCHANGED writeFaults
    /\ task' = [v \in Versions |-> IF task[v] = "none" THEN "none" ELSE "done"] /\ cancels' = {}
    /\ running' = NoVersion /\ step' = "idle" /\ UNCHANGED versionFiles

RefinementsNext ==
    \/ \E v \in Versions, p \in Base \cup Versions, up \in BOOLEAN, r \in RequestIds : SubmitVersion(v, p, up, r)
    \/ \E v \in Versions : CancelVersion(v) \/ TakeVersion(v)
    \/ \E v \in Base \cup Versions : Select(v)
    \/ Look \/ DeleteSource \/ Begin \/ Edits \/ Finish \/ Link \/ RecordVersion \/ ExceptVersion \/ Clean \/ Exit

-----------------------------------------------------------------------------
RefinementsTypeOK ==
    /\ source \in {"present", "deleted"} /\ png \subseteq Versions /\ pending \subseteq Versions
    /\ selected \in Base \cup Versions /\ cancels \subseteq Versions
    /\ \A v \in Versions : row[v].state \in Active \cup {"absent", "complete", "failed", "cancelled"}
    /\ running \in Versions \cup {NoVersion} /\ (running = NoVersion) = (step = "idle")

\* What a client can open or build on is whole: a complete version has its
\* image and a complete parent, the selection too; a cancel that found the edit
\* active never ends in a version; an edit works on an image nobody deletes,
\* and a deletion leaves nothing behind, however it falls between the steps of
\* an edit, failed writes and exits of the service.
VersionsSound ==
    /\ \A v \in Versions : row[v].state = "complete" =>
         v \in png /\ v \notin cancels /\ HasImage(row[v].parent)
    /\ HasImage(selected)
    /\ step = "work" => source = "present" /\ HasImage(row[running].parent)
    /\ source = "deleted" => png = {} /\ pending = {} /\ \A v \in Versions : row[v] = Absent
=============================================================================
