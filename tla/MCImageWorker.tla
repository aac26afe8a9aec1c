--------------------------- MODULE MCImageWorker ---------------------------
\* Parts of the identity service that share no state, in one run: it is chosen
\* at the start which part runs, and the others never move.
EXTENDS ImageSession, HqConditioning, BodyRepair, Refinements, Profiles,
        FusionEngine, FusionImages, ResearchTrace, Gallery, PromptExperiments, WarmRestore, Upscale, TLC

VARIABLE runs

parts == <<sessionVars, hqVars, repairVars, refinementVars, profileVars, fusionVars, imagesVars, traceVars, galleryVars, promptVars, warmVars, upscaleVars>>
vars == <<runs, parts>>

\* Where a part starts matters only when it runs.
Start(name, values) == IF runs = name THEN values ELSE {CHOOSE v \in values : TRUE}

Init ==
    /\ runs \in {"session", "hq", "repair", "versions", "profiles", "fusion", "images", "trace", "gallery",
                "prompts", "restore", "status", "tiles"}
    /\ session \in Start("session", Sessions)
    /\ features \in Start("session", {"none", "whole", "damaged"})
    /\ paired \in Start("hq", BOOLEAN) /\ depth \in Start("hq", {"none", "pair", "other"})
    /\ imprint \in Start("repair", Imprints) /\ fusing \in Start("fusion", FusionRequests)
    /\ level \in Start("trace", Levels)
    /\ InitSession /\ InitConditioning /\ InitRepair /\ InitRefinements /\ InitProfiles
    /\ credential \in Start("gallery", {0, 1}) /\ granted \in Start("gallery", {{}, {1}})
    /\ assets \in Start("restore", Contents)
    /\ side \in Start("tiles", 1..MaxSide) /\ tile \in Start("tiles", 1..MaxTile)
    /\ padding \in Start("tiles", 1..MaxPadding)
    /\ InitWarm /\ InitUpscale
    /\ InitFusion /\ InitImages /\ InitTrace /\ InitGallery /\ InitPrompt

Next ==
    \/ /\ runs = "session" /\ SessionNext
       /\ UNCHANGED <<runs, hqVars, repairVars, refinementVars, profileVars, fusionVars, imagesVars, traceVars, galleryVars, promptVars, warmVars, upscaleVars>>
    \/ /\ runs = "hq" /\ ConditioningNext
       /\ UNCHANGED <<runs, sessionVars, repairVars, refinementVars, profileVars, fusionVars, imagesVars, traceVars, galleryVars, promptVars, warmVars, upscaleVars>>
    \/ /\ runs = "repair" /\ RepairNext
       /\ UNCHANGED <<runs, sessionVars, hqVars, refinementVars, profileVars, fusionVars, imagesVars, traceVars, galleryVars, promptVars, warmVars, upscaleVars>>
    \/ /\ runs = "versions" /\ RefinementsNext
       /\ UNCHANGED <<runs, sessionVars, hqVars, repairVars, profileVars, fusionVars, imagesVars, traceVars, galleryVars, promptVars, warmVars, upscaleVars>>
    \/ /\ runs = "profiles" /\ ProfilesNext
       /\ UNCHANGED <<runs, sessionVars, hqVars, repairVars, refinementVars, fusionVars, imagesVars, traceVars, galleryVars, promptVars, warmVars, upscaleVars>>
    \/ /\ runs = "fusion" /\ FusionEngineNext
       /\ UNCHANGED <<runs, sessionVars, hqVars, repairVars, refinementVars, profileVars, imagesVars, traceVars, galleryVars, promptVars, warmVars, upscaleVars>>
    \/ /\ runs = "images" /\ ImagesNext
       /\ UNCHANGED <<runs, sessionVars, hqVars, repairVars, refinementVars, profileVars, fusionVars, traceVars, galleryVars, promptVars, warmVars, upscaleVars>>
    \/ /\ runs = "trace" /\ ResearchNext
       /\ UNCHANGED <<runs, sessionVars, hqVars, repairVars, refinementVars, profileVars, fusionVars, imagesVars, galleryVars, promptVars, warmVars, upscaleVars>>
    \/ /\ runs = "gallery" /\ GalleryNext
       /\ UNCHANGED <<runs, sessionVars, hqVars, repairVars, refinementVars, profileVars, fusionVars, imagesVars, traceVars, promptVars, warmVars, upscaleVars>>
    \/ /\ runs = "prompts" /\ PromptNext
       /\ UNCHANGED <<runs, sessionVars, hqVars, repairVars, refinementVars, profileVars, fusionVars, imagesVars, traceVars, galleryVars, warmVars, upscaleVars>>
    \/ /\ runs = "restore" /\ WarmNext
       /\ UNCHANGED <<runs, sessionVars, hqVars, repairVars, refinementVars, profileVars, fusionVars, imagesVars, traceVars, galleryVars, promptVars, upscaleVars>>
    \/ /\ runs = "status" /\ StatusNext
       /\ UNCHANGED <<runs, sessionVars, hqVars, repairVars, refinementVars, profileVars, fusionVars, imagesVars, traceVars, galleryVars, promptVars, warmVars>>
    \/ /\ runs = "tiles" /\ TilesNext
       /\ UNCHANGED <<runs, sessionVars, hqVars, repairVars, refinementVars, profileVars, fusionVars, imagesVars, traceVars, galleryVars, promptVars, warmVars>>

Spec == Init /\ [][Next]_vars

-----------------------------------------------------------------------------
\* A worker that renders a batch starts every item clean, keeps one model on
\* the GPU and tells of each image what its files show (identity_pipeline.py,
\* identity_anime.py, identity_stage_artifacts.py).
SessionSound == SessionTypeOK /\ WarmIsClean /\ OneModelOnGpu /\ SessionHonest

\* Edited versions are whole, a kept face processor fits the edit that uses it,
\* doubling is not promised for files that have gone, and its tiles join
\* (identity_refinements.py, identity_warm_refine.py, identity_upscale.py).
EditsSound == VersionsSound /\ WarmTypeOK /\ WarmSound /\ UpscaleTypeOK /\ StatusFresh /\ TilesWhole

\* The audit of a try-on and the record of its repair claim only what was
\* observed (hq_tryon_conditioning.py, hq_body_repair.py, hq_repair_service.py),
\* and the gallery vouches for a session only if the private API answered it
\* (hq_service.py, hq_authorization.py).
HqHonest == ConditioningTypeOK /\ CompletedIsObserved /\ RepairHonest /\ GallerySound

\* Fused prompts are weighted alike by the engine, the service and the replay,
\* an experiment is complete only with all its images and its own model, a
\* trace is published whole, and a prompt experiment ends with its variants (research_image_engine.py,
\* research_image_service.py, research_fusion.py, identity_research.py,
\* runtime.py).
ResearchSound == FusionAgrees /\ FusionSound /\ TracesWhole /\ PromptSound
=============================================================================
