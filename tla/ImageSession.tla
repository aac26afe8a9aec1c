---------------------------- MODULE ImageSession ----------------------------
(***************************************************************************)
(* One identity worker process at work on a batch: it loads a pipeline     *)
(* (identity_pipeline.py), renders item after item with it, redraws or     *)
(* restores the face when asked to (identity_face_polish.py,               *)
(* identity_anime.py, identity_visual_polish.py) and publishes files       *)
(* (identity_stage_artifacts.py).  The service reads the files of an item  *)
(* when it is reported, and cleans up what was not (identity_service.py).  *)
(* What a computation returns is abstracted to whether it raised.          *)
(***************************************************************************)
EXTENDS Naturals, FiniteSets, Sequences

CONSTANTS Items, None      \* a batch is the items 1..Items

ASSUME SessionAssumption == Items \in Nat \ {0} /\ None \notin BOOLEAN

VARIABLES
    session,     \* how faces are polished, and whether the model is an SDXL
    features,    \* the reference features in the cache
    anime,       \* the anime reference could be projected
    pipe,        \* where the pipeline is and what a pass may leave changed in it
    restorer,    \* where the face restorer is
    item, at,    \* the item being rendered and the step of render
    pass, kept,  \* redraws done, and stages saved for this item
    polish,      \* the outcome of the polish
    disk,        \* the files of every item
    verdict      \* what the service made of every item

gpu == <<pipe, restorer>>
work == <<item, at, pass, kept, polish>>
sessionVars == <<session, features, anime, gpu, work, disk, verdict>>

Stages == {"anchor", "harmonize", "detail"}
Polishers == {"off", "face", "anime", "redraw", "anchor"}
Local == {"anime", "redraw", "anchor"}     \* redrawn by the pipeline itself
Visual == {"redraw", "anchor"}
Sessions == {s \in [polisher : Polishers, xl : BOOLEAN] : s.polisher \in Local => s.xl}
Asks == session.polisher # "off"
Passes == IF session.polisher = "anchor" THEN 2 ELSE 1

\* enable_sequential_cpu_offload or to('cuda').  A module may stay on the GPU
\* when its forward raised, the VAE may stay converted, the schedule may leave
\* another scale of the reference.
Fresh == [place |-> IF session.xl THEN "offload" ELSE "cpu",
          resident |-> FALSE, vae |-> "fp16", scale |-> "set"]
Nothing == [original |-> FALSE, stages |-> {}, temps |-> {}, image |-> "none", meta |-> None]
Receipt(status, original, stages) == [status |-> status, original |-> original, stages |-> stages]

InitSession ==
    /\ session \in Sessions /\ features \in {"none", "whole", "damaged"}
    /\ anime = TRUE /\ pipe = None /\ restorer = "none"
    /\ item = 1 /\ at = "features" /\ pass = 0 /\ kept = {} /\ polish = "off"
    /\ disk = [i \in 1..Items |-> Nothing] /\ verdict = [i \in 1..Items |-> "none"]

Goto(place) == at' = place /\ UNCHANGED <<item, pass, kept>>
To(place) == Goto(place) /\ UNCHANGED polish
Here == disk[item]
Puts(file, value) == disk' = [disk EXCEPT ![item][file] = value]

-----------------------------------------------------------------------------
(* IdentitySession.__init__.                                                *)

\* _cached_features: a damaged file is set aside and extracted again.
ReadFeatures ==
    /\ at = "features"
    /\ \/ features = "whole" /\ To("load") /\ UNCHANGED features
       \/ features # "whole" /\ features' = "whole" /\ To("load")
       \/ features' = (IF features = "damaged" THEN "none" ELSE features) /\ To("closed")
    /\ UNCHANGED <<session, anime, gpu, disk, verdict>>

\* Checkpoint, adapter, LoRAs, projection and placement; the projection of an
\* anime reference is optional.
Load ==
    /\ at = "load"
    /\ \/ pipe' = Fresh /\ To("place") /\ anime' \in IF session.polisher = "anime" THEN BOOLEAN ELSE {TRUE}
       \/ To("closed") /\ UNCHANGED <<pipe, anime>>
    /\ UNCHANGED <<session, features, restorer, disk, verdict>>

-----------------------------------------------------------------------------
(* IdentitySession.render.                                                  *)

Place ==
    /\ at = "place" /\ To("sample")
    /\ pipe' = IF session.xl THEN pipe ELSE [pipe EXCEPT !.place = "cuda"]
    /\ UNCHANGED <<session, features, anime, restorer, disk, verdict>>

\* A preview is decoded between two steps, and may raise without consequence.
Preview ==
    /\ at = "sample" /\ ~pipe.resident
    /\ pipe' = [pipe EXCEPT !.resident = session.xl]
    /\ UNCHANGED <<session, features, anime, restorer, work, disk, verdict>>

\* visual_reference_schedule gates the reference and puts its scale back; the
\* last decoding evicts what a preview has left.
Sampled == [pipe EXCEPT !.resident = FALSE]

Sample ==
    /\ at = "sample"
    /\ \/ pipe' = Sampled /\ polish' = (IF Asks THEN "failed" ELSE "off")
          /\ Goto(IF Asks THEN "original" ELSE "image")
       \/ To("closed") /\ UNCHANGED pipe
    /\ UNCHANGED <<session, features, anime, restorer, disk, verdict>>

-----------------------------------------------------------------------------
(* optional_face_polish: whatever raises, the base image is kept.           *)

KeepBase == To("image")

SaveOriginal ==
    /\ at = "original"
    /\ \/ ~Here.original /\ Puts("original", TRUE) /\ To("polisher")
       \/ KeepBase /\ UNCHANGED disk
    /\ UNCHANGED <<session, features, anime, gpu, verdict>>

\* face_polisher: a face restorer is loaded on the CPU, once, after the
\* generating pipeline has left the GPU.
Polisher ==
    /\ at = "polisher"
    /\ pipe' = IF session.polisher = "face" /\ ~session.xl THEN [pipe EXCEPT !.place = "cpu"] ELSE pipe
    /\ \/ /\ session.polisher = "face" /\ To("swap")
          /\ restorer' = IF restorer = "none" THEN "cpu" ELSE restorer
       \/ /\ session.polisher \in Visual \cup (IF anime THEN {"anime"} ELSE {})
          /\ To("detect") /\ UNCHANGED restorer
       \/ KeepBase /\ UNCHANGED restorer
    /\ UNCHANGED <<session, features, anime, disk, verdict>>

Polished == polish' = "completed" /\ Goto("image")

\* The identity is swapped on the CPU; with strength 0 that is all.
Swap ==
    /\ at = "swap"
    /\ \/ restorer' = "cuda" /\ To("restore")
       \/ (Polished \/ KeepBase) /\ UNCHANGED restorer
    /\ UNCHANGED <<session, features, anime, pipe, disk, verdict>>

Restore ==
    /\ at = "restore" /\ restorer' = "cpu"
    /\ Polished \/ KeepBase
    /\ UNCHANGED <<session, features, anime, pipe, disk, verdict>>

\* One face is found, or its reference aligned and that stage saved.
Detect ==
    /\ at = "detect"
    /\ \/ To(IF session.polisher = "anchor" THEN "write" ELSE "redraw")
       \/ To(IF session.polisher = "anime" THEN "image" ELSE "unwind")
    /\ UNCHANGED <<session, features, anime, gpu, disk, verdict>>

\* One pass of the shared modules.  The VAE is converted for it and the
\* reference gated; what raises leaves both, and a module on the GPU.
Redraw ==
    /\ at = "redraw" /\ UNCHANGED <<item, kept>>
    /\ \/ /\ pass' = pass + 1 /\ UNCHANGED pipe
          /\ \/ session.polisher = "anchor" /\ at' = "write" /\ UNCHANGED polish
             \/ session.polisher # "anchor" /\ at' = "image" /\ polish' = "completed"
             \/ at' = (IF session.polisher = "anime" THEN "image" ELSE "unwind") /\ UNCHANGED polish
       \/ /\ pipe' = [pipe EXCEPT !.resident = TRUE, !.vae = "fp32",
                                  !.scale = IF session.polisher \in Visual THEN "gated" ELSE @]
          /\ at' = "unwind" /\ UNCHANGED <<pass, polish>>
    /\ UNCHANGED <<session, features, anime, restorer, disk, verdict>>

Saving == CASE pass = 0 -> "anchor" [] pass = 1 -> "harmonize" [] OTHER -> "detail"

\* save_visual_stage: a temporary file, and a link to it that fails when the
\* stage exists.
WriteStage ==
    /\ at = "write"
    /\ \/ Puts("temps", Here.temps \cup {Saving}) /\ To("link")
       \/ To("unwind") /\ UNCHANGED disk
    /\ UNCHANGED <<session, features, anime, gpu, verdict>>

LinkStage ==
    /\ at = "link" /\ UNCHANGED <<item, pass>>
    /\ \/ /\ Saving \notin Here.stages /\ kept' = kept \cup {Saving}
          /\ disk' = [disk EXCEPT ![item].stages = @ \cup {Saving}, ![item].temps = @ \ {Saving}]
          /\ IF pass = Passes THEN at' = "image" /\ polish' = "completed"
             ELSE at' = "redraw" /\ UNCHANGED polish
       \/ Puts("temps", Here.temps \ {Saving}) /\ at' = "unwind" /\ UNCHANGED <<kept, polish>>
    /\ UNCHANGED <<session, features, anime, gpu, verdict>>

\* Mutant: what an exception leaves on the GPU is forgotten.
RestoredPartly == [pipe EXCEPT !.vae = "fp16", !.scale = "set"]

\* restore_offload_state, and the dtype of the VAE and the scale of the
\* reference in finally.
Restored == [pipe EXCEPT !.resident = FALSE, !.vae = "fp16", !.scale = "set"]

\* cleanup_visual_stages may raise itself.
Unwind ==
    /\ at = "unwind" /\ pipe' = Restored /\ KeepBase
    /\ \/ disk' = [disk EXCEPT ![item].stages = {}, ![item].temps = {}]
       \/ session.polisher = "anchor" /\ UNCHANGED disk
    /\ UNCHANGED <<session, features, anime, restorer, verdict>>

-----------------------------------------------------------------------------
(* The image, then its metadata.                                            *)

SaveImage ==
    /\ at = "image"
    /\ \/ Puts("image", IF polish = "completed" THEN "polished" ELSE "base") /\ To("metadata")
       \/ To("closed") /\ UNCHANGED disk
    /\ UNCHANGED <<session, features, anime, gpu, verdict>>

\* Only a completed polish tells its stages.
Says == Receipt(polish, Here.original, IF polish = "completed" THEN kept ELSE {})

SaveMetadata ==
    /\ at = "metadata"
    /\ \/ Puts("meta", Says) /\ To("report")
       \/ To("closed") /\ UNCHANGED disk
    /\ UNCHANGED <<session, features, anime, gpu, verdict>>

-----------------------------------------------------------------------------
(* The service.                                                             *)

\* _validate_face_polish: the receipt against the request and the files.
Valid(i) ==
    LET m == disk[i].meta IN
    /\ (m.status = "off") = ~Asks
    /\ m.status # "completed" => m.stages = {}
    /\ (m.status = "completed" \/ m.original) => disk[i].original
    /\ m.status = "completed" =>
         /\ m.original /\ m.stages \subseteq disk[i].stages
         /\ m.stages = IF session.polisher = "anchor" THEN Stages ELSE {}

\* _cleanup_incomplete: every file by itself; some may be in use.
Cleaned(i, busy) ==
    disk' = [disk EXCEPT ![i] = [file \in DOMAIN Nothing |->
                IF file \in busy THEN disk[i][file] ELSE Nothing[file]]]

\* The item is reported: the service reads its files, and the worker takes the
\* next one with the pipeline as it is.
Report ==
    /\ at = "report"
    /\ verdict' = [verdict EXCEPT ![item] = IF Valid(item) THEN "complete" ELSE "failed"]
    /\ IF Valid(item) THEN UNCHANGED disk ELSE Cleaned(item, {})
    /\ IF item = Items THEN To("closed")
       ELSE item' = item + 1 /\ at' = "place" /\ pass' = 0 /\ kept' = {} /\ polish' = "off"
    /\ UNCHANGED <<session, features, anime, gpu>>

\* A cancel, the deadline or a close ends the process wherever it is.
Kill ==
    /\ at \notin {"closed", "over"} /\ To("closed")
    /\ UNCHANGED <<session, features, anime, gpu, disk, verdict>>

\* The process is gone and with it the GPU's memory; items not reported are
\* cleaned up.
Closed ==
    /\ at = "closed" /\ To("over") /\ pipe' = None /\ restorer' = "none"
    /\ LET lost == {i \in 1..Items : verdict[i] = "none"} IN
       /\ verdict' = [i \in 1..Items |-> IF i \in lost THEN "failed" ELSE verdict[i]]
       /\ IF item \in lost THEN \E busy \in SUBSET {"original", "stages", "image", "meta"} : Cleaned(item, busy)
          ELSE UNCHANGED disk
    /\ UNCHANGED <<session, features, anime>>

SessionNext ==
    \/ ReadFeatures \/ Load \/ Place \/ Preview \/ Sample \/ SaveOriginal \/ Polisher \/ Swap
    \/ Restore \/ Detect \/ Redraw \/ WriteStage \/ LinkStage \/ Unwind \/ SaveImage
    \/ SaveMetadata \/ Report \/ Kill \/ Closed

-----------------------------------------------------------------------------
SessionTypeOK ==
    /\ session \in Sessions /\ features \in {"none", "whole", "damaged"} /\ anime \in BOOLEAN
    /\ pipe \in {None} \cup [place : {"cpu", "cuda", "offload"}, resident : BOOLEAN,
                             vae : {"fp16", "fp32"}, scale : {"set", "gated"}]
    /\ restorer \in {"none", "cpu", "cuda"} /\ item \in 1..Items /\ pass \in 0..2 /\ kept \subseteq Stages
    /\ polish \in {"off", "failed", "completed"}
    /\ verdict \in [1..Items -> {"none", "complete", "failed"}]

\* "A failed optional pass must not poison the next item" (identity_anime.py:205):
\* every item starts with the pipeline as it was loaded, whatever raised
\* before, and with whole reference features.
WarmIsClean ==
    at = "place" => /\ features = "whole" /\ restorer # "cuda"
                    /\ [pipe EXCEPT !.place = Fresh.place] = Fresh

\* "Never overlap generation and FP32 face restoration on a 6 GB device"
\* (identity_pipeline.py:524).
OneModelOnGpu == restorer = "cuda" => pipe.place # "cuda" /\ ~pipe.resident

\* What an item's metadata says is what its files show: the base image unless
\* the polish was completed, and then with the original and every stage; also
\* beside files that a cleanup could not remove.  The service refuses no image
\* that was published.
SessionHonest ==
    \A i \in 1..Items :
        /\ disk[i].meta # None /\ disk[i].image # "none" =>
             disk[i].image = IF disk[i].meta.status = "completed" THEN "polished" ELSE "base"
        /\ disk[i].meta # None /\ verdict[i] # "failed" => Valid(i)
=============================================================================
