--------------------------- MODULE HqConditioning ---------------------------
(***************************************************************************)
(* The garment and pose conditions of one try-on render                    *)
(* (hq_tryon_conditioning.py, hq_tryon_pipeline.py, hq_paired_depth.py):   *)
(* a worker process of its own renders one job and keeps an audit file of  *)
(* what it used.  Other programs may change the models, the originals and  *)
(* the depth cache while it runs; the service cancels with a file or ends  *)
(* the process.                                                            *)
(***************************************************************************)
EXTENDS Naturals

CONSTANTS Steps, MaxEdits

ASSUME ConditioningAssumption == Steps \in Nat \ {0} /\ MaxEdits \in Nat

VARIABLES
    paired,              \* the pose has a paired depth map
    audit, auditFile,    \* status of the audit in memory and on disk
    hqAt,                \* the step of the render
    cancelled,           \* the cancel file exists
    models, originals, depth,   \* versions of the files of others
    hashed, loaded,      \* version of the models that was hashed, and loaded
    posed,               \* what the pose condition was made from
    forwards,            \* forward calls seen by the hooks, of each role
    base, published,     \* the original equals the base image; image, metadata
    failing, edits

files3 == <<models, originals, depth, edits>>
evidence == <<hashed, loaded, posed, forwards, base>>
hqVars == <<paired, audit, auditFile, hqAt, cancelled, files3, evidence, published, failing>>

Roles == {"person", "garment", "pose"}

InitConditioning ==
    /\ paired \in BOOLEAN /\ audit = "none" /\ auditFile = "none" /\ hqAt = "new"
    /\ cancelled = FALSE /\ models = 0 /\ originals = 0 /\ depth \in {"none", "pair", "other"}
    /\ hashed = 0 /\ loaded = 0 /\ posed = "none" /\ forwards = [r \in Roles |-> 0]
    /\ base = "none" /\ published = {} /\ failing = "none" /\ edits = 0

Then(place) == hqAt' = place /\ UNCHANGED failing
\* PipelineError and any other exception: the reason decides the status.
Raise(reason) == hqAt' = "fail" /\ failing' = reason
\* check_cancel, then the step; every step may also raise by itself.
Unless(act) ==
    \/ ~cancelled /\ act
    \/ Raise(IF cancelled THEN "cancelled" ELSE "failed") /\ UNCHANGED <<evidence, depth>>
Keeps == UNCHANGED <<paired, audit, auditFile, cancelled, models, originals, edits, published>>

-----------------------------------------------------------------------------
(* ConditioningAudit and IdentityHQConditioning.__init__.                   *)

\* Destinations must be fresh; the audit is created exclusively.
Create ==
    /\ hqAt = "new" /\ audit' = "preparing" /\ auditFile' = "preparing" /\ Then("inputs")
    /\ UNCHANGED <<paired, cancelled, files3, evidence, published>>

\* prepare_images: each original is read once, hashed and decoded.
Inputs ==
    /\ hqAt = "inputs" /\ Keeps
    /\ Unless(originals = 0 /\ Then(IF paired THEN "depth" ELSE "hash") /\ UNCHANGED <<evidence, depth>>)

\* ensure_depth: the cached map if it has the hash of the pair, else a
\* download that has it.
Depth ==
    /\ hqAt = "depth" /\ Keeps
    /\ Unless(Then("hash") /\ depth' = "pair" /\ UNCHANGED evidence)

\* fingerprint_models.
Hash ==
    /\ hqAt = "hash" /\ Keeps
    /\ Unless(Then("features") /\ hashed' = models /\ UNCHANGED <<loaded, posed, forwards, base, depth>>)

-----------------------------------------------------------------------------
(* prepare, wrap_pipe, load_adapters, finish_projection, place.             *)

Features ==
    /\ hqAt = "features" /\ Keeps
    /\ Unless(Then(IF paired THEN "control" ELSE "estimate") /\ UNCHANGED <<evidence, depth>>)

\* control_image: the map is read and hashed again.
Control ==
    /\ hqAt = "control" /\ Keeps
    /\ Unless(/\ depth = "pair" /\ Then("load") /\ posed' = "pair"
              /\ UNCHANGED <<hashed, loaded, forwards, base, depth>>)

\* estimate_dwpose_body: a first attempt, and a second one with a white border
\* only when enough joints were sure; it must agree with those.
Estimate ==
    /\ hqAt = "estimate" /\ Keeps
    /\ Unless(\/ Then("load") /\ posed' = "pose" /\ UNCHANGED <<hashed, loaded, forwards, base, depth>>
              \/ Then("border") /\ UNCHANGED <<evidence, depth>>)

Border ==
    /\ hqAt = "border" /\ Keeps
    /\ Unless(Then("load") /\ posed' = "pose" /\ UNCHANGED <<hashed, loaded, forwards, base, depth>>)

LoadModels ==
    /\ hqAt = "load" /\ Keeps
    /\ Unless(Then("place") /\ loaded' = models /\ UNCHANGED <<hashed, posed, forwards, base, depth>>)

-----------------------------------------------------------------------------
(* sampling, the forward hooks, on_step, base_image.                        *)

Sampling ==
    /\ hqAt = "place" /\ UNCHANGED <<paired, cancelled, models, originals, edits, published>>
    /\ Unless(Then("step") /\ UNCHANGED <<evidence, depth>>)
    /\ audit' = (IF hqAt' = "step" THEN "sampling" ELSE audit) /\ UNCHANGED auditFile

\* One denoising step: the hooks compare what the models get with what was
\* prepared; a branch that gets nothing is not counted.
Step ==
    /\ hqAt = "step" /\ Keeps
    /\ \E seen \in {Roles, Roles \ {"pose"}} :
         Unless(/\ forwards' = [r \in Roles |-> forwards[r] + IF r \in seen THEN 1 ELSE 0]
                /\ Then("stepped") /\ UNCHANGED <<hashed, loaded, posed, base, depth>>)

\* Mutant: it is enough that every branch was seen once.
ObservedSome(steps) == \A r \in Roles : forwards[r] > 0
\* ConditioningObserver.finish
Observed(steps) == \A r \in Roles : forwards[r] = steps

Stepped(n) ==
    /\ hqAt = "stepped" /\ forwards["person"] = n /\ Keeps
    /\ Unless(/\ IF n < Steps THEN Then("step")
                 ELSE IF Observed(Steps) THEN Then("base") ELSE Raise("failed")
              /\ UNCHANGED <<evidence, depth>>)

BaseImage ==
    /\ hqAt = "base" /\ Keeps
    /\ Unless(Then("polish") /\ UNCHANGED <<evidence, depth>>)

\* release_for_polish and the face restorer are in ImageSession; here it
\* matters whether the original that was saved is the base image.
Polish ==
    /\ hqAt = "polish" /\ Keeps /\ Then("image")
    /\ base' \in {"none", "same", "other"} /\ UNCHANGED <<hashed, loaded, posed, forwards, depth>>

Image ==
    /\ hqAt = "image" /\ UNCHANGED <<paired, audit, auditFile, cancelled, files3, evidence>>
    /\ \/ Then("verify") /\ published' = published \cup {"image"}
       \/ Raise("failed") /\ UNCHANGED published

-----------------------------------------------------------------------------
(* complete, the metadata, fail.                                            *)

\* verify_unchanged, by the times of the files and the hashes of the originals.
Unchanged == models = hashed /\ originals = 0
Verify ==
    /\ hqAt = "verify" /\ Keeps
    /\ Unless((IF Unchanged THEN Then("complete") ELSE Raise("failed")) /\ UNCHANGED <<evidence, depth>>)

Complete ==
    /\ hqAt = "complete" /\ UNCHANGED <<paired, cancelled, files3, evidence, published>>
    /\ \/ base # "other" /\ audit' = "completed" /\ auditFile' = "completed" /\ Then("metadata")
       \/ audit' = "completed" /\ UNCHANGED auditFile /\ Raise("failed")

Metadata ==
    /\ hqAt = "metadata" /\ UNCHANGED <<paired, audit, auditFile, cancelled, files3, evidence>>
    /\ \/ Then("done") /\ published' = published \cup {"metadata"}
       \/ Raise("failed") /\ UNCHANGED published

\* fail, by _audit_hq_errors; its write may fail too.
Fail ==
    /\ hqAt = "fail" /\ Then("done") /\ audit' = failing
    /\ auditFile' \in {failing, auditFile}
    /\ UNCHANGED <<paired, cancelled, files3, evidence, published>>

-----------------------------------------------------------------------------
CancelHq ==
    /\ hqAt # "done" /\ ~cancelled /\ cancelled' = TRUE
    /\ UNCHANGED <<paired, audit, auditFile, hqAt, files3, evidence, published, failing>>

KillHq ==
    /\ hqAt # "done" /\ hqAt' = "done"
    /\ UNCHANGED <<paired, audit, auditFile, cancelled, files3, evidence, published, failing>>

Edit ==
    /\ hqAt # "done" /\ edits < MaxEdits /\ edits' = edits + 1
    /\ \/ models' = models + 1 /\ UNCHANGED <<originals, depth>>
       \/ originals' = originals + 1 /\ UNCHANGED <<models, depth>>
       \/ paired /\ depth' = "other" /\ UNCHANGED <<models, originals>>
    /\ UNCHANGED <<paired, audit, auditFile, hqAt, cancelled, evidence, published, failing>>

ConditioningNext ==
    \/ Create \/ Inputs \/ Depth \/ Hash \/ Features \/ Control \/ Estimate \/ Border \/ LoadModels
    \/ Sampling \/ Step \/ (\E n \in 1..Steps : Stepped(n)) \/ BaseImage \/ Polish \/ Image \/ Verify
    \/ Complete \/ Metadata \/ Fail \/ CancelHq \/ KillHq \/ Edit

-----------------------------------------------------------------------------
Statuses == {"none", "preparing", "sampling", "completed", "failed", "cancelled"}

ConditioningTypeOK ==
    /\ paired \in BOOLEAN /\ cancelled \in BOOLEAN /\ {audit, auditFile} \subseteq Statuses
    /\ {models, originals, edits, hashed, loaded} \subseteq 0..MaxEdits
    /\ depth \in {"none", "pair", "other"} /\ posed \in {"none", "pair", "pose"}
    /\ forwards \in [Roles -> 0..Steps] /\ base \in {"none", "same", "other"}
    /\ published \subseteq {"image", "metadata"} /\ failing \in {"none", "failed", "cancelled"}

\* "Observe actual model forward arguments, and refuse unobserved success"
\* (hq_tryon_conditioning.py:100): an audit is completed only if every branch
\* ran in every step, with the pose of the request, with the models that were
\* hashed, and over the original it names; and metadata is published only over
\* such an audit.
CompletedIsObserved ==
    /\ "metadata" \in published => auditFile = "completed" /\ "image" \in published
    /\ auditFile = "completed" =>
         /\ \A r \in Roles : forwards[r] = Steps
         /\ posed = IF paired THEN "pair" ELSE "pose"
         /\ loaded = hashed /\ base # "other"
=============================================================================
