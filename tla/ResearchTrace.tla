--------------------------- MODULE ResearchTrace ---------------------------
(***************************************************************************)
(* What the observation of one image publishes (identity_research.py): the *)
(* hooks on the denoiser, one map for each observed attention, the latent  *)
(* pictures of every step, the indexes, and at last the root that makes    *)
(* all of them visible to the readers (research_traces.py).  A write that  *)
(* fails ends the publication and not the image.  One model is used for    *)
(* ResearchItems images in turn, and the process may end anywhere.         *)
(***************************************************************************)
EXTENDS Naturals

CONSTANTS ResearchItems, DenoiseSteps, MaxLostWrites

ASSUME ResearchAssumption ==
    {ResearchItems, DenoiseSteps} \subseteq Nat \ {0} /\ MaxLostWrites \in Nat

VARIABLES
    nth, level,          \* the image, and its trace level
    seenAt, forward,     \* the step of the observer; forwards of the denoiser
    hooked, ablated,     \* the hooks are set; the identity scale is zero
    sidecars,            \* what was published for each image
    listed,              \* maps, latent states and influence in memory
    publicationError,
    told,                \* the research entry of each image's metadata
    lostWrites

observed == <<hooked, ablated, listed, publicationError>>
results == <<sidecars, told>>
traceVars == <<nth, level, seenAt, forward, observed, results, lostWrites>>

Levels == {"off", "basic", "h6", "h7"}
Observing == level # "off"
Influences == level \in {"h6", "h7"}
\* Selected steps: representative captures miss some.
Selected(n) == n = 1 \/ n = DenoiseSteps
Maps(kind) == {<<kind, n>> : n \in {m \in 1..DenoiseSteps : Selected(m)}}
Latents == {<<"latent", n>> : n \in 1..DenoiseSteps}
Indexes == {<<"cross", 0>>, <<"self", 0>>, <<"influence", 0>>}
Root == <<"root", 0>>

InitTrace ==
    /\ nth = 1 /\ level \in Levels /\ seenAt = "enter" /\ forward = 0
    /\ hooked = FALSE /\ ablated = FALSE /\ listed = {} /\ publicationError = FALSE
    /\ sidecars = [n \in 1..ResearchItems |-> {}] /\ told = [n \in 1..ResearchItems |-> "none"]
    /\ lostWrites = 0

NextAt(place) == seenAt' = place
SamePicture == UNCHANGED <<nth, level>>

\* Mutant: a lost sidecar is only left out.
PublishOn(file) ==
    \/ sidecars' = [sidecars EXCEPT ![nth] = @ \cup {file}] /\ UNCHANGED <<publicationError, lostWrites>>
    \/ /\ lostWrites < MaxLostWrites /\ lostWrites' = lostWrites + 1
       /\ UNCHANGED <<publicationError, sidecars>>

\* _write_bytes and write_artifact: a temporary file, fsync and rename.  After a
\* failed write, also one past the limit of bytes, nothing more is published.
Publish(file) ==
    IF publicationError THEN UNCHANGED <<sidecars, publicationError, lostWrites>>
    ELSE \/ /\ sidecars' = [sidecars EXCEPT ![nth] = @ \cup {file}]
            /\ UNCHANGED <<publicationError, lostWrites>>
         \/ /\ lostWrites < MaxLostWrites /\ lostWrites' = lostWrites + 1
            /\ publicationError' = TRUE /\ UNCHANGED sidecars

-----------------------------------------------------------------------------
\* __enter__: a failure takes back the hooks that were set.
Enter ==
    /\ seenAt = "enter" /\ SamePicture /\ UNCHANGED <<forward, ablated, publicationError, results, lostWrites>>
    /\ \/ NextAt("forward") /\ hooked' = Observing /\ listed' = {}
       \/ Observing /\ NextAt("raised") /\ UNCHANGED <<hooked, listed>>

\* The queries and keys of one forward: _query, _key, attention_probabilities,
\* _map.  A map that is not finite raises into the sampling.
ObserveMap(kind) ==
    /\ seenAt = kind /\ SamePicture /\ UNCHANGED <<forward, hooked, ablated, told>>
    /\ \/ /\ level = "h7" /\ Selected(forward + 1) /\ ~publicationError
          /\ Publish(<<kind, forward + 1>>) /\ listed' = listed \cup {<<kind, forward + 1>>}
          /\ NextAt(IF kind = "cross" THEN "self" ELSE "after")
       \/ /\ level # "h7" \/ ~Selected(forward + 1) \/ publicationError
          /\ NextAt("after") /\ UNCHANGED <<listed, sidecars, publicationError, lostWrites>>
       \/ level = "h7" /\ NextAt("unwind") /\ UNCHANGED <<listed, sidecars, publicationError, lostWrites>>

Forward ==
    /\ seenAt = "forward" /\ SamePicture /\ UNCHANGED <<forward, observed, results, lostWrites>>
    /\ NextAt("cross") \/ NextAt("unwind")

\* _after: the same forward without the identity, suspended so that its
\* attention is not observed.
After ==
    /\ seenAt = "after" /\ SamePicture /\ UNCHANGED <<forward, hooked, listed, publicationError, results, lostWrites>>
    /\ IF Influences /\ ~publicationError /\ Selected(forward + 1)
       THEN ablated' = TRUE /\ NextAt("ablated")
       ELSE UNCHANGED ablated /\ NextAt("step")

\* without_identity gives the scale back, whatever the forward does.
Ablated ==
    /\ seenAt = "ablated" /\ SamePicture /\ ablated' = FALSE
    /\ UNCHANGED <<forward, hooked, publicationError, results, lostWrites>>
    /\ \/ NextAt("step") /\ listed' = listed \cup {<<"influence", forward + 1>>}
       \/ NextAt("unwind") /\ UNCHANGED listed

\* on_step and latent_sample: the pictures of the latent after a step.  One that
\* is not finite raises into the sampling.
Latent ==
    /\ seenAt = "step" /\ SamePicture /\ UNCHANGED <<hooked, ablated, told>>
    /\ \/ /\ forward' = forward + 1 /\ NextAt(IF forward' = DenoiseSteps THEN "exit" ELSE "forward")
          /\ IF Observing /\ ~publicationError
             THEN Publish(<<"latent", forward + 1>>) /\ listed' = listed \cup {<<"latent", forward + 1>>}
             ELSE UNCHANGED <<listed, sidecars, publicationError, lostWrites>>
       \/ /\ Observing /\ ~publicationError /\ NextAt("unwind")
          /\ UNCHANGED <<forward, listed, sidecars, publicationError, lostWrites>>

\* __exit__: the hooks go first; then the indexes, one after the other.
Exits ==
    /\ seenAt \in {"exit", "unwind"} /\ SamePicture /\ hooked' = FALSE
    /\ NextAt(IF seenAt = "unwind" THEN "raised"
              ELSE IF Observing /\ ~publicationError THEN "indexes" ELSE "save")
    /\ UNCHANGED <<forward, ablated, listed, publicationError, results, lostWrites>>

Wanted == {file \in Indexes : \E n \in 1..DenoiseSteps : <<file[1], n>> \in listed}

PublishIndex(file) ==
    /\ seenAt = "indexes" /\ file \in Wanted \ sidecars[nth] /\ Publish(file)
    /\ SamePicture /\ UNCHANGED <<seenAt, forward, hooked, ablated, listed, told>>

Indexed ==
    /\ seenAt = "indexes" /\ (publicationError \/ Wanted \subseteq sidecars[nth]) /\ NextAt("save")
    /\ SamePicture /\ UNCHANGED <<forward, observed, results, lostWrites>>

-----------------------------------------------------------------------------
\* The image is saved before its trace is finished.
SavePicture ==
    /\ seenAt = "save" /\ NextAt("finish") /\ SamePicture
    /\ UNCHANGED <<forward, observed, results, lostWrites>>

\* finish: the root comes last, and only over sidecars that were all published.
FinishTrace ==
    /\ seenAt = "finish" /\ NextAt("metadata") /\ SamePicture /\ UNCHANGED <<forward, hooked, ablated, listed>>
    /\ IF ~Observing THEN /\ told' = [told EXCEPT ![nth] = "off"]
                          /\ UNCHANGED <<sidecars, publicationError, lostWrites>>
       ELSE /\ Publish(Root)
            /\ told' = [told EXCEPT ![nth] = IF publicationError' THEN "failed" ELSE "published"]

\* The metadata is written with what finish said, and the model goes on with
\* the next image; an image that raised ends the process.
NextPicture ==
    /\ seenAt = "metadata" /\ nth < ResearchItems /\ nth' = nth + 1 /\ level' \in Levels
    /\ NextAt("enter") /\ forward' = 0 /\ listed' = {} /\ publicationError' = FALSE
    /\ UNCHANGED <<hooked, ablated, results, lostWrites>>

EndTrace ==
    /\ seenAt \notin {"raised", "ended"} /\ NextAt("ended") /\ SamePicture
    /\ UNCHANGED <<forward, observed, results, lostWrites>>

ResearchNext ==
    \/ Enter \/ Forward \/ (\E kind \in {"cross", "self"} : ObserveMap(kind)) \/ After \/ Ablated \/ Latent
    \/ Exits \/ (\E file \in Indexes : PublishIndex(file)) \/ Indexed \/ SavePicture \/ FinishTrace
    \/ NextPicture \/ EndTrace

-----------------------------------------------------------------------------
(* The readers.                                                             *)

\* _run: a trace without a readable root is not there.
Readable(n) == Root \in sidecars[n]
\* _document with validate_self_index, validate_influence.
Document(n, file) == Readable(n) /\ file \in sidecars[n]
\* self_attention_map: only a map the index lists.
MapShown(n, map) == Document(n, <<map[1], 0>>) /\ map \in sidecars[n]

\* _attention_index_document of the runtime: the root, the marker and the
\* provenance that both files must share; then tokens, layers and maps, each
\* selection listed once, which an index that was written whole has.
CrossDocument(n) == Readable(n) /\ <<"cross", 0>> \in sidecars[n]
CrossMaps(n) == IF CrossDocument(n) THEN Maps("cross") ELSE {}
\* attention_map: the file of a listed map, which must agree with the list.
CrossMapShown(n, map) == map \in CrossMaps(n) /\ map \in sidecars[n]

\* A reader sees all of an observation or nothing of it, and what the metadata
\* of an image says of its research is what readers find: with a root there is
\* every latent of every step and every map the index lists, and no image is
\* made with the hooks or the ablation of another one, however a write, a
\* forward or the process fails ("Publish root after sidecars are flushed;
\* readers require this file", identity_research.py:381).
TracesWhole ==
    /\ \A n \in 1..ResearchItems :
         /\ Readable(n) => Latents \subseteq sidecars[n]
         /\ Document(n, <<"self", 0>>) => \A map \in Maps("self") : MapShown(n, map)
         /\ \A map \in CrossMaps(n) : CrossMapShown(n, map)
         /\ told[n] = "published" => Readable(n)
         /\ told[n] = "failed" => ~Readable(n)
    /\ seenAt = "finish" /\ level = "h7" /\ ~publicationError => Indexes \subseteq sidecars[nth]
    /\ seenAt \in {"enter", "save", "finish", "metadata", "raised"} => ~hooked /\ ~ablated
    /\ ablated => seenAt \in {"ablated", "ended"}
=============================================================================
