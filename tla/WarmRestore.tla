------------------------------ MODULE WarmRestore ------------------------------
(***************************************************************************)
(* The warm worker that restores faces (identity_warm_refine.py): it keeps *)
(* one processor (FacePolisher) between edits, reuses it only for an edit  *)
(* whose models, reference and settings have the same content, and gives   *)
(* itself up after any error.  An edit (refine) works on a private output  *)
(* that it publishes by a link.  The files of the models may change at any *)
(* moment, the process may be ended at any moment.                         *)
(***************************************************************************)
EXTENDS Naturals

CONSTANTS
    Contents,       \* contents that the model and reference files take in turn
    NoContent,
    MaxAssetEdits,  \* changes of these files
    MaxRestores,    \* edits of one processor
    MaxRequests     \* edits asked of the worker and its successors

ASSUME WarmAssumption == NoContent \notin Contents /\ MaxRestores \in Nat \ {0}

VARIABLES
    assets, assetEdits,
    processor, heldKey, \* content it was loaded from, and its key
    restores,           \* completed_restores
    closedWarm,
    phase,              \* place of the edit in run_refine and refine
    wantedKey,          \* key of the edit
    onCuda,             \* the restoration model is on the GPU
    candidate,          \* "none", "changed" or "same"
    output,             \* the private file: "absent", "ours", "theirs"
    reply,
    requests,
    applied,            \* edits that used the processor
    late                \* files changed between the key and the loading

processorVars == <<processor, heldKey, restores, closedWarm, applied, late>>
editVars == <<phase, wantedKey, onCuda, candidate, output, reply, requests>>
warmVars == <<assets, assetEdits, processorVars, editVars>>

InitWarm ==
    /\ assets \in Contents /\ assetEdits = 0 /\ processor = NoContent /\ heldKey = NoContent
    /\ restores = 0 /\ closedWarm = FALSE /\ applied = 0 /\ late = FALSE
    /\ phase = "idle" /\ wantedKey = NoContent /\ onCuda = FALSE /\ candidate = "none"
    /\ output = "absent" /\ reply = "none" /\ requests = 0

GoesTo(place) == phase' = place /\ UNCHANGED <<wantedKey, onCuda, candidate, output, reply, requests>>

\* close: the worker is of no further use.
CloseWarm == closedWarm' = TRUE /\ processor' = NoContent /\ heldKey' = NoContent
             /\ UNCHANGED <<restores, applied, late>>

\* Every error of run_refine ends the worker, and the edit.
GivesUp(code) ==
    /\ CloseWarm /\ phase' = "idle" /\ reply' = code /\ onCuda' = FALSE
    /\ UNCHANGED <<assets, assetEdits, wantedKey, candidate, output, requests>>

-----------------------------------------------------------------------------
AskRestore ==
    /\ phase = "idle" /\ ~closedWarm /\ requests < MaxRequests /\ requests' = requests + 1
    /\ phase' = "key" /\ output' = "absent" /\ candidate' = "none" /\ reply' = "none"
    /\ UNCHANGED <<assets, assetEdits, processorVars, wantedKey, onCuda>>

\* build_restore_key: the content of every file that the processor consumes.
BuildKey ==
    /\ phase = "key"
    /\ \/ /\ wantedKey' = assets /\ phase' = "reuse"
          /\ UNCHANGED <<assets, assetEdits, processorVars, onCuda, candidate, output, reply, requests>>
       \/ GivesUp("failed")

\* Mutant: a processor is kept whatever its files have become.
SameWorker == processor = NoContent \/ restores < MaxRestores

\* The processor that is held may serve the edit.
MayReuse == processor = NoContent \/ (heldKey = wantedKey /\ restores < MaxRestores)

\* A new process is asked for only here, before anything of the edit is done.
CheckReuse ==
    /\ phase = "reuse"
    /\ \/ MayReuse /\ GoesTo("load") /\ UNCHANGED <<assets, assetEdits, processorVars>>
       \/ ~MayReuse /\ GivesUp("restart")

\* FacePolisher, when none is held; refine has found no output and read the
\* source image.
LoadProcessor ==
    /\ phase = "load"
    /\ \/ /\ output = "absent" /\ GoesTo("apply") /\ UNCHANGED <<assets, assetEdits, restores, closedWarm>>
          /\ IF processor # NoContent THEN UNCHANGED <<processor, heldKey, applied, late>>
             ELSE /\ processor' = assets /\ heldKey' = wantedKey
                  /\ applied' = 0 /\ late' = (assets # wantedKey)
       \/ GivesUp("failed")

\* apply: the swap on the CPU; without strength nothing is restored.
ApplySwap ==
    /\ phase = "apply"
    /\ \/ /\ applied' = applied + 1
          /\ UNCHANGED <<assets, assetEdits, processor, heldKey, restores, closedWarm, late>>
          /\ \/ onCuda' = TRUE /\ phase' = "cuda" /\ UNCHANGED candidate
             \/ candidate' \in {"changed", "same"} /\ phase' = "judge" /\ UNCHANGED onCuda
          /\ UNCHANGED <<wantedKey, output, reply, requests>>
       \/ GivesUp("failed")

\* The restoration; the model leaves the GPU however it ends.
RestoreFace ==
    /\ phase = "cuda"
    /\ \/ /\ onCuda' = FALSE /\ candidate' \in {"changed", "same"} /\ phase' = "judge"
          /\ UNCHANGED <<assets, assetEdits, processorVars, wantedKey, output, reply, requests>>
       \/ GivesUp("failed")

\* refine publishes neither a fallback nor an image without a change.
JudgeCandidate ==
    /\ phase = "judge"
    /\ \/ candidate = "changed" /\ GoesTo("publish") /\ UNCHANGED <<assets, assetEdits, processorVars>>
       \/ GivesUp("failed")

\* _publish_image: a whole temporary file is linked to the output, which must
\* not exist by then; its removal may fail after that.
PublishEdit ==
    /\ phase = "publish"
    /\ \/ /\ output = "absent" /\ output' = "ours" /\ phase' = "reply"
          /\ UNCHANGED <<assets, assetEdits, processorVars, wantedKey, onCuda, candidate, reply, requests>>
       \/ GivesUp("failed")

AnswerEdit ==
    /\ phase = "reply"
    /\ \/ /\ restores' = restores + 1 /\ phase' = "idle" /\ reply' = "ok"
          /\ UNCHANGED <<assets, assetEdits, processor, heldKey, closedWarm, applied, late,
                         wantedKey, onCuda, candidate, output, requests>>
       \/ GivesUp("failed")

-----------------------------------------------------------------------------
\* The process is ended, by a cancel or from outside.
KillWarm == phase # "idle" /\ GivesUp("none")

\* The service starts another process for the next edit.
ReplaceWarm ==
    /\ closedWarm /\ closedWarm' = FALSE /\ restores' = 0
    /\ UNCHANGED <<assets, assetEdits, processor, heldKey, applied, late, editVars>>

ChangeAssets ==
    /\ assetEdits < MaxAssetEdits /\ assetEdits' = assetEdits + 1
    /\ assets' \in Contents \ {assets} /\ UNCHANGED <<processorVars, editVars>>

OutputTaken ==
    /\ phase # "idle" /\ output = "absent" /\ output' = "theirs"
    /\ UNCHANGED <<assets, assetEdits, processorVars, phase, wantedKey, onCuda, candidate, reply, requests>>

WarmNext ==
    \/ AskRestore \/ BuildKey \/ CheckReuse \/ LoadProcessor \/ ApplySwap \/ RestoreFace
    \/ JudgeCandidate \/ PublishEdit \/ AnswerEdit
    \/ KillWarm \/ ReplaceWarm \/ ChangeAssets \/ OutputTaken

-----------------------------------------------------------------------------
WarmTypeOK ==
    /\ assets \in Contents /\ {processor, heldKey, wantedKey} \subseteq Contents \cup {NoContent}
    /\ restores \in 0..MaxRestores /\ output \in {"absent", "ours", "theirs"}
    /\ reply \in {"none", "ok", "failed", "restart"}

\* An edit is made with what its files hold when it starts, never with a
\* processor of earlier contents (unless the files changed while it was being
\* loaded, after its key was taken); no processor serves more edits than it
\* may; between edits the GPU is free; and an edit is told as made only if it
\* changed the image and its own file is the one at the output.
WarmSound ==
    /\ phase \in {"apply", "cuda", "judge", "publish", "reply"} =>
         processor # NoContent /\ (processor = wantedKey \/ late)
    /\ applied <= MaxRestores
    /\ onCuda => phase = "cuda"
    /\ reply = "ok" => candidate = "changed" /\ output = "ours"
=============================================================================
