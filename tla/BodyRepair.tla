----------------------------- MODULE BodyRepair -----------------------------
(***************************************************************************)
(* The repair of mannequin imprints in one try-on image (hq_body_repair.py,*)
(* hq_body_render.py) as one task of hq_repair_service.py runs it, tried   *)
(* again by clients.  The image is divided into two knees and a bodice: an *)
(* image is the set of parts where it differs from the source.  HqTryon    *)
(* has the life of the task in its queue; here it is what a record that    *)
(* ends says of the pixels.  The process may end anywhere.                 *)
(***************************************************************************)
EXTENDS Naturals, FiniteSets

CONSTANTS NoReport, MaxRepairFaults, MaxRepairStops, MaxRepairTries

ASSUME RepairAssumption == {MaxRepairFaults, MaxRepairStops, MaxRepairTries} \subseteq Nat

VARIABLES
    imprint,             \* what the analysis of the source finds on each part
    repairAt,
    edits3,              \* parts restore() edits
    todo,                \* parts left for the next render passes
    canvas, approved,    \* parts that differ in the image; parts it may differ in
    accepted, rejected,
    resultPng, maskPng, reportJson,
    repair, repairFile,  \* bodyRepair of the record, in memory and on disk
    tries, repairFaults, repairStops

drawing == <<edits3, todo, canvas, approved, accepted, rejected>>
repairFiles == <<resultPng, maskPng, reportJson>>
repairRecord == <<repair, repairFile>>
repairLimits == <<tries, repairFaults, repairStops>>
repairVars == <<imprint, repairAt, drawing, repairFiles, repairRecord, repairLimits>>

Knees == {"left", "right"}
Parts == Knees \cup {"bodice"}
Direct == {"line", "textile"}
Methods(p) == IF p = "bodice" THEN {"none", "registered"} ELSE {"none", "skin"} \cup Direct
Imprints == {f \in [Parts -> {"none", "registered", "skin"} \cup Direct] :
                 \A p \in Parts : f[p] \in Methods(p)}
Unfinished(state) == [state |-> state, regions |-> {}, result |-> NoReport]

InitRepair ==
    /\ imprint \in Imprints
    /\ repairAt = "idle" /\ edits3 = {} /\ todo = {} /\ canvas = {} /\ approved = {}
    /\ accepted = {} /\ rejected = {} /\ resultPng = NoReport /\ maskPng = NoReport /\ reportJson = NoReport
    /\ repair = Unfinished("none") /\ repairFile = repair
    /\ tries = 0 /\ repairFaults = 0 /\ repairStops = 0

RepairTo(place) == repairAt' = place
NoLimits == UNCHANGED repairLimits
RepairFault == repairFaults < MaxRepairFaults /\ repairFaults' = repairFaults + 1 /\ UNCHANGED <<tries, repairStops>>
SaveRepair(row) ==
    \/ repair' = row /\ repairFile' = row /\ NoLimits
    \/ repair' = row /\ RepairFault /\ UNCHANGED repairFile

-----------------------------------------------------------------------------
(* hq_repair_service.                                                       *)

Ready == {"applied", "partial", "unchanged", "rejected"}

\* _schedule_repair: a version that has ended well is not repaired again.
TryRepair ==
    /\ repairAt = "idle" /\ repair.state \notin Ready /\ tries < MaxRepairTries /\ tries' = tries + 1
    /\ repair' = Unfinished("running") /\ repairFile' = repair' /\ RepairTo("manifest")
    /\ UNCHANGED <<imprint, drawing, repairFiles, repairFaults, repairStops>>

\* _repair_manifest, and the report of an attempt whose receipt was lost.
Manifest ==
    /\ repairAt = "manifest" /\ UNCHANGED <<imprint, drawing, repairFiles, repairRecord>> /\ NoLimits
    /\ \/ RepairTo(IF reportJson # NoReport THEN "accept" ELSE "restore") \/ RepairTo("fail")

\* _accept_report: both pictures must have the digests the report names.
Matches == reportJson.state \in {"applied", "partial"} =>
               resultPng = reportJson.result /\ maskPng = reportJson.mask
AcceptReport ==
    /\ repairAt = "accept" /\ UNCHANGED <<imprint, drawing, repairFiles, repairRecord>> /\ NoLimits
    /\ RepairTo(IF Matches THEN "receipt" ELSE "fail")

SaveReceipt ==
    /\ repairAt = "receipt" /\ UNCHANGED <<imprint, drawing, repairFiles>>
    /\ repair' = [state |-> reportJson.state, regions |-> reportJson.regions, result |-> reportJson.result]
    /\ \/ repairFile' = repair' /\ RepairTo("idle") /\ NoLimits
       \/ RepairFault /\ RepairTo("fail") /\ UNCHANGED repairFile

\* repair_image: what a client can load.
Served(row) == row.state \in {"applied", "partial"} /\ row.result = resultPng

FailRepair ==
    /\ repairAt = "fail" /\ RepairTo("idle") /\ UNCHANGED <<imprint, drawing, repairFiles>>
    /\ SaveRepair([repair EXCEPT !.state = "failed"])

-----------------------------------------------------------------------------
(* run, restore, render: the worker.                                        *)

WorkerKeeps == UNCHANGED <<imprint, repairFiles, repairRecord>> /\ NoLimits

\* knee: clear_print for a textile imprint, harmonic_fill for thin lines, the
\* adjacent skin for a filled one.  restore: an imprint of textile on one knee
\* alone may be an accessory.
KneeEdits == {k \in Knees : imprint[k] # "none"}
Dyed == {k \in Knees : imprint[k] = "textile"}
Unpaired == IF Cardinality(Dyed) = 1 THEN Dyed ELSE {}
RestoreParts ==
    /\ repairAt = "restore" /\ WorkerKeeps
    /\ edits3' = (KneeEdits \ Unpaired) \cup {b \in {"bodice"} : imprint[b] # "none"}
    /\ canvas' = edits3' /\ approved' = {} /\ todo' = {} /\ rejected' = {} /\ accepted' = edits3'
    /\ RepairTo(IF \A part \in edits3' : imprint[part] \in Direct THEN "result" ELSE "direct")

\* render starts again from the photo: direct edits are taken from the guide.
\* build_masks makes one pass for the other knees and one for the bodice.
DirectEdits ==
    /\ repairAt = "direct" /\ WorkerKeeps
    /\ accepted' = {part \in edits3 : imprint[part] \in Direct}
    /\ canvas' = accepted' /\ approved' = accepted' /\ todo' = edits3 \ accepted'
    /\ RepairTo("pass") /\ UNCHANGED <<edits3, rejected>>

Pass == IF todo \cap Knees # {} THEN todo \cap Knees ELSE todo

\* checked_composite judges the patch before it is on the image.
RenderPass ==
    /\ repairAt = "pass" /\ todo # {} /\ WorkerKeeps /\ todo' = todo \ Pass /\ RepairTo("pass")
    /\ \/ /\ canvas' = canvas \cup Pass /\ approved' = approved \cup Pass
          /\ accepted' = accepted \cup Pass /\ UNCHANGED <<edits3, rejected>>
       \/ rejected' = rejected \cup Pass /\ UNCHANGED <<edits3, canvas, approved, accepted>>

Rendered ==
    /\ repairAt = "pass" /\ todo = {} /\ WorkerKeeps /\ UNCHANGED drawing
    /\ RepairTo(IF canvas \subseteq approved THEN "result" ELSE "fail")

\* Digests, sizes, models, the observed denoising steps.
WorkerRaises ==
    /\ repairAt \in {"restore", "direct", "pass", "result", "mask", "report"} /\ RepairTo("fail")
    /\ WorkerKeeps /\ UNCHANGED drawing

State == IF accepted = {} THEN (IF edits3 = {} THEN "unchanged" ELSE "rejected")
         ELSE IF rejected = {} THEN "applied" ELSE "partial"
Applied == State \in {"applied", "partial"}
FilesKeep == UNCHANGED <<imprint, drawing, repairRecord>> /\ NoLimits

SaveResult ==
    /\ repairAt = "result" /\ FilesKeep /\ RepairTo("mask") /\ UNCHANGED <<maskPng, reportJson>>
    /\ resultPng' = IF Applied THEN canvas ELSE resultPng

SaveMask ==
    /\ repairAt = "mask" /\ FilesKeep /\ RepairTo("report") /\ UNCHANGED <<resultPng, reportJson>>
    /\ maskPng' = IF Applied THEN canvas ELSE maskPng

SaveReport ==
    /\ repairAt = "report" /\ FilesKeep /\ RepairTo("accept") /\ UNCHANGED <<resultPng, maskPng>>
    /\ reportJson' = [state |-> State, regions |-> accepted,
                      result |-> IF Applied THEN resultPng ELSE NoReport,
                      mask |-> IF Applied THEN maskPng ELSE NoReport]

-----------------------------------------------------------------------------
\* The worker or the service is ended; a repair that was running has failed at
\* the next start.
StopRepair ==
    /\ repairAt # "idle" /\ repairStops < MaxRepairStops /\ repairStops' = repairStops + 1
    /\ RepairTo("idle") /\ UNCHANGED <<imprint, drawing, repairFiles, tries, repairFaults>>
    /\ repair' = IF repairFile.state = "running" THEN [repairFile EXCEPT !.state = "failed"] ELSE repairFile
    /\ repairFile' = repair'

RepairNext ==
    \/ TryRepair \/ Manifest \/ AcceptReport \/ SaveReceipt \/ FailRepair \/ RestoreParts \/ DirectEdits
    \/ RenderPass \/ Rendered \/ WorkerRaises \/ SaveResult \/ SaveMask \/ SaveReport \/ StopRepair

-----------------------------------------------------------------------------
\* A record that shows a repair is about the pictures in its folder, which
\* differ from the source in the regions it names and in no other, whatever
\* attempt made them; a picture a client can load was accepted, an imprint on
\* one knee alone is left as it is; and a report that is on disk can be taken
\* over ("Handles a server stop between atomic worker publication and recording
\* the receipt", hq_repair_service.py:105).
RepairHonest ==
    /\ \A row \in {repair, repairFile} : row.state \in {"applied", "partial"} =>
         /\ Served(row) /\ maskPng = resultPng /\ resultPng = row.regions
         /\ row.regions # {} /\ row.regions \cap Unpaired = {}
         /\ \A part \in row.regions : imprint[part] # "none"
    /\ reportJson # NoReport => Matches
=============================================================================
