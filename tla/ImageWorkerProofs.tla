------------------------- MODULE ImageWorkerProofs -------------------------
(***************************************************************************)
(* Proofs about the parts of the identity service that MCImageWorker puts  *)
(* side by side.  Every part has an inductive invariant of its own, over   *)
(* its own variables; a step of another part leaves them as they are, so   *)
(* the promises hold in whatever order the parts would move.               *)
(***************************************************************************)
EXTENDS MCImageWorker, TLAPS

-----------------------------------------------------------------------------
Places == {"features", "load", "place", "sample", "original", "polisher", "swap", "restore", "detect",
           "redraw", "write", "link", "unwind", "image", "metadata", "report", "closed", "over"}
Pipes == [place : {"cpu", "cuda", "offload"}, resident : BOOLEAN, vae : {"fp16", "fp32"}, scale : {"set", "gated"}]
Receipts == [status : {"off", "failed", "completed"}, original : BOOLEAN, stages : SUBSET Stages]
ItemFiles == [original : BOOLEAN, stages : SUBSET Stages, temps : SUBSET Stages,
              image : {"none", "base", "polished"}, meta : {None} \cup Receipts]

SessionTypes ==
    /\ SessionTypeOK /\ at \in Places /\ disk \in [1..Items -> ItemFiles]

\* A pipeline that was loaded is clean except while a step samples or redraws.
Loaded == Places \ {"features", "load", "closed", "over"}
PipeKnown ==
    /\ at \in Loaded => pipe \in Pipes /\ features = "whole"
    /\ at = "load" => features = "whole"
    /\ at \in Loaded \ {"unwind"} => pipe.vae = "fp16" /\ pipe.scale = "set"
    /\ at \in Loaded \ {"unwind", "sample"} => ~pipe.resident
    /\ at \in Loaded /\ session.xl => pipe.place = "offload"
    /\ at \in {"swap", "restore"} => pipe.place # "cuda"
    /\ restorer = "cuda" => /\ at \in {"restore", "closed"}
                            /\ pipe \in Pipes /\ pipe.place # "cuda" /\ ~pipe.resident

Polishing == {"polisher", "swap", "restore", "detect", "redraw", "write", "link"}
Published == {"image", "metadata", "report"}
\* The stages an anchor polish has saved before the n-th save.
Before(n) == (IF n > 0 THEN {"anchor"} ELSE {}) \cup (IF n > 1 THEN {"harmonize"} ELSE {})
             \cup (IF n > 2 THEN {"detail"} ELSE {})
PolishKnown ==
    /\ at \in Polishing \cup {"original", "unwind"} => polish = "failed" /\ Asks
    /\ at \in Published => (polish = "off") = ~Asks
    /\ at \in Polishing => disk[item].original
    /\ at \in Published /\ polish = "completed" =>
         /\ disk[item].original /\ kept \subseteq disk[item].stages
         /\ kept = IF session.polisher = "anchor" THEN Stages ELSE {}
    /\ at \in Places \ (Published \cup {"redraw", "write", "link", "unwind", "closed", "over"})
         => pass = 0 /\ kept = {}
    /\ at \in {"write", "link"} => session.polisher = "anchor"
    /\ at \in {"swap", "restore"} => session.polisher = "face"
    /\ session.polisher # "anchor" => kept = {}
    /\ session.polisher # "anchor" /\ at = "redraw" => pass = 0
    /\ at \in {"write", "link"} => kept = Before(pass) /\ kept \subseteq disk[item].stages
    /\ at = "redraw" /\ session.polisher = "anchor"
         => pass < 2 /\ kept = Before(pass + 1) /\ kept \subseteq disk[item].stages

Untouched(i) == disk[i].image = "none" /\ disk[i].meta = None
ItemsKnown ==
    /\ at # "over" => \A i \in 1..Items : i > item => Untouched(i) /\ verdict[i] = "none"
    /\ at \notin {"closed", "over"} => verdict[item] = "none"
    /\ at \notin Published \cup {"closed", "over"} => Untouched(item)
    /\ at = "image" => Untouched(item)
    /\ at \in {"metadata", "report"} => disk[item].image = IF polish = "completed" THEN "polished" ELSE "base"
    /\ at = "metadata" => disk[item].meta = None
    /\ \A i \in 1..Items : i < item => verdict[i] # "none"

SessionInv == SessionTypes /\ PipeKnown /\ PolishKnown /\ ItemsKnown /\ SessionHonest

\* What a step does to the files of the item that is rendered.
OthersKept == \A i \in 1..Items : i # item => disk'[i] = disk[i]
HonestItem(i) ==
    /\ disk[i].meta # None /\ disk[i].image # "none" =>
         disk[i].image = IF disk[i].meta.status = "completed" THEN "polished" ELSE "base"
    /\ disk[i].meta # None /\ verdict[i] # "failed" => Valid(i)

LEMMA HonestItems == SessionHonest <=> \A i \in 1..Items : HonestItem(i)
  BY DEF SessionHonest, HonestItem

LEMMA FreshPipe == ASSUME SessionTypes PROVE
    /\ Fresh \in Pipes /\ Fresh.vae = "fp16" /\ Fresh.scale = "set" /\ ~Fresh.resident
    /\ session.xl => Fresh.place = "offload"
  BY DEF Fresh, Pipes

LEMMA ResidentPipe == ASSUME NEW p \in Pipes, NEW b \in BOOLEAN, NEW q, q = [p EXCEPT !.resident = b] PROVE
    q \in Pipes /\ q.resident = b /\ q.place = p.place /\ q.vae = p.vae /\ q.scale = p.scale
  BY DEF Pipes

LEMMA MovedPipe == ASSUME NEW p \in Pipes, NEW c \in {"cpu", "cuda", "offload"}, NEW q, q = [p EXCEPT !.place = c] PROVE
    q \in Pipes /\ q.resident = p.resident /\ q.place = c /\ q.vae = p.vae /\ q.scale = p.scale
  BY DEF Pipes

LEMMA RestoredPipe == ASSUME pipe \in Pipes PROVE
    /\ Restored \in Pipes /\ ~Restored.resident /\ Restored.vae = "fp16" /\ Restored.scale = "set"
    /\ Restored.place = pipe.place
  BY DEF Restored, Pipes

LEMMA PutOriginal ==
  ASSUME SessionTypes, NEW value \in BOOLEAN, Puts("original", value)
  PROVE  /\ disk' \in [1..Items -> ItemFiles] /\ OthersKept
         /\ disk'[item].original = value /\ disk'[item].stages = disk[item].stages /\ disk'[item].image = disk[item].image /\ disk'[item].meta = disk[item].meta
<1> USE DEF SessionTypes, SessionTypeOK, Puts
<1>1. item \in 1..Items /\ disk' = [disk EXCEPT ![item]["original"] = value]
  OBVIOUS
<1>2. [disk[item] EXCEPT !["original"] = value] \in ItemFiles
  BY <1>1 DEF ItemFiles
<1>3. disk'[item] = [disk[item] EXCEPT !["original"] = value]
  BY <1>1
<1>4. disk'[item].original = value /\ disk'[item].stages = disk[item].stages /\ disk'[item].image = disk[item].image /\ disk'[item].meta = disk[item].meta
  BY <1>1, <1>3 DEF ItemFiles
<1>5. disk' \in [1..Items -> ItemFiles] /\ OthersKept
  BY <1>1, <1>2 DEF OthersKept
<1>6. QED
  BY <1>4, <1>5

LEMMA PutTemps ==
  ASSUME SessionTypes, NEW value \in SUBSET Stages, Puts("temps", value)
  PROVE  /\ disk' \in [1..Items -> ItemFiles] /\ OthersKept
         /\ disk'[item].original = disk[item].original /\ disk'[item].stages = disk[item].stages /\ disk'[item].image = disk[item].image /\ disk'[item].meta = disk[item].meta
<1> USE DEF SessionTypes, SessionTypeOK, Puts
<1>1. item \in 1..Items /\ disk' = [disk EXCEPT ![item]["temps"] = value]
  OBVIOUS
<1>2. [disk[item] EXCEPT !["temps"] = value] \in ItemFiles
  BY <1>1 DEF ItemFiles
<1>3. disk'[item] = [disk[item] EXCEPT !["temps"] = value]
  BY <1>1
<1>4. disk'[item].original = disk[item].original /\ disk'[item].stages = disk[item].stages /\ disk'[item].image = disk[item].image /\ disk'[item].meta = disk[item].meta
  BY <1>1, <1>3 DEF ItemFiles
<1>5. disk' \in [1..Items -> ItemFiles] /\ OthersKept
  BY <1>1, <1>2 DEF OthersKept
<1>6. QED
  BY <1>4, <1>5

LEMMA PutImage ==
  ASSUME SessionTypes, NEW value \in {"none", "base", "polished"}, Puts("image", value)
  PROVE  /\ disk' \in [1..Items -> ItemFiles] /\ OthersKept
         /\ disk'[item].original = disk[item].original /\ disk'[item].stages = disk[item].stages /\ disk'[item].image = value /\ disk'[item].meta = disk[item].meta
<1> USE DEF SessionTypes, SessionTypeOK, Puts
<1>1. item \in 1..Items /\ disk' = [disk EXCEPT ![item]["image"] = value]
  OBVIOUS
<1>2. [disk[item] EXCEPT !["image"] = value] \in ItemFiles
  BY <1>1 DEF ItemFiles
<1>3. disk'[item] = [disk[item] EXCEPT !["image"] = value]
  BY <1>1
<1>4. disk'[item].original = disk[item].original /\ disk'[item].stages = disk[item].stages /\ disk'[item].image = value /\ disk'[item].meta = disk[item].meta
  BY <1>1, <1>3 DEF ItemFiles
<1>5. disk' \in [1..Items -> ItemFiles] /\ OthersKept
  BY <1>1, <1>2 DEF OthersKept
<1>6. QED
  BY <1>4, <1>5

LEMMA PutMeta ==
  ASSUME SessionTypes, NEW value \in {None} \cup Receipts, Puts("meta", value)
  PROVE  /\ disk' \in [1..Items -> ItemFiles] /\ OthersKept
         /\ disk'[item].original = disk[item].original /\ disk'[item].stages = disk[item].stages /\ disk'[item].image = disk[item].image /\ disk'[item].meta = value
<1> USE DEF SessionTypes, SessionTypeOK, Puts
<1>1. item \in 1..Items /\ disk' = [disk EXCEPT ![item]["meta"] = value]
  OBVIOUS
<1>2. [disk[item] EXCEPT !["meta"] = value] \in ItemFiles
  BY <1>1 DEF ItemFiles
<1>3. disk'[item] = [disk[item] EXCEPT !["meta"] = value]
  BY <1>1
<1>4. disk'[item].original = disk[item].original /\ disk'[item].stages = disk[item].stages /\ disk'[item].image = disk[item].image /\ disk'[item].meta = value
  BY <1>1, <1>3 DEF ItemFiles
<1>5. disk' \in [1..Items -> ItemFiles] /\ OthersKept
  BY <1>1, <1>2 DEF OthersKept
<1>6. QED
  BY <1>4, <1>5

\* A step that touches no file and reports nothing.
LEMMA QuietItems ==
  ASSUME SessionInv, UNCHANGED <<session, item, disk, verdict>>,
         at \notin {"metadata", "report", "closed", "over"}, at' \notin {"metadata", "report", "over"}
  PROVE  ItemsKnown' /\ SessionHonest'
<1>1. ItemsKnown'
  BY DEF SessionInv, ItemsKnown, Untouched, Published
<1>2. SessionHonest'
  BY DEF SessionInv, SessionHonest, Valid, Asks
<1>3. QED
  BY <1>1, <1>2

LEMMA QuietTypes ==
  ASSUME SessionTypes, UNCHANGED <<session, item, disk, verdict>>,
         features' \in {"none", "whole", "damaged"}, anime' \in BOOLEAN, pipe' \in {None} \cup Pipes,
         restorer' \in {"none", "cpu", "cuda"}, at' \in Places, pass' \in 0..2, kept' \subseteq Stages,
         polish' \in {"off", "failed", "completed"}
  PROVE  SessionTypes'
  BY DEF SessionTypes, SessionTypeOK, Pipes

LEMMA PipeType == ASSUME SessionTypes PROVE pipe \in {None} \cup Pipes
  BY DEF SessionTypes, SessionTypeOK, Pipes

LEMMA ReadFeaturesSound == ASSUME SessionInv, ReadFeatures PROVE SessionInv'
<1> USE DEF SessionInv, ReadFeatures, Goto, To, gpu
<1>1. SessionTypes'
  BY PipeType, QuietTypes DEF SessionTypes, SessionTypeOK, Places
<1>2. PipeKnown'
  BY DEF PipeKnown, Loaded
<1>3. PolishKnown'
  BY DEF PolishKnown, Published, Polishing, Places
<1>4. QED
  BY <1>1, <1>2, <1>3, QuietItems

LEMMA LoadSound == ASSUME SessionInv, Load PROVE SessionInv'
<1> USE DEF SessionInv, Load, Goto, To
<1>1. SessionTypes'
  BY PipeType, FreshPipe, QuietTypes DEF SessionTypes, SessionTypeOK, Places
<1>2. PipeKnown'
  BY FreshPipe DEF PipeKnown, Loaded, Places
<1>3. PolishKnown'
  BY DEF PolishKnown, Published, Polishing, Places
<1>4. QED
  BY <1>1, <1>2, <1>3, QuietItems

LEMMA PlaceSound == ASSUME SessionInv, Place PROVE SessionInv'
<1> USE DEF SessionInv, Place, Goto, To
<1>1. pipe \in Pipes /\ pipe' \in {pipe, [pipe EXCEPT !.place = "cuda"]} /\ (session.xl => pipe' = pipe)
  BY DEF PipeKnown, Loaded, Places
<1>2. SessionTypes'
  BY <1>1, MovedPipe, QuietTypes DEF SessionTypes, SessionTypeOK, Places
<1>3. PipeKnown'
  BY <1>1, MovedPipe DEF PipeKnown, Loaded, Places
<1>4. PolishKnown'
  BY DEF PolishKnown, Published, Polishing, Places
<1>5. QED
  BY <1>2, <1>3, <1>4, QuietItems

LEMMA PreviewSound == ASSUME SessionInv, Preview PROVE SessionInv'
<1> USE DEF SessionInv, Preview, work
<1>1. pipe \in Pipes /\ session.xl \in BOOLEAN /\ pipe' = [pipe EXCEPT !.resident = session.xl]
  BY DEF PipeKnown, Loaded, Places, SessionTypes, SessionTypeOK, Sessions
<1>2. SessionTypes'
  BY <1>1, ResidentPipe, QuietTypes DEF SessionTypes, SessionTypeOK
<1>3. PipeKnown'
  BY <1>1, ResidentPipe DEF PipeKnown, Loaded, Places
<1>4. PolishKnown'
  BY DEF PolishKnown, Published, Polishing, Places
<1>5. QED
  BY <1>2, <1>3, <1>4, QuietItems

LEMMA SampleSound == ASSUME SessionInv, Sample PROVE SessionInv'
<1> USE DEF SessionInv, Sample, Goto, To
<1>1. pipe \in Pipes /\ pipe' \in {pipe, [pipe EXCEPT !.resident = FALSE]}
      /\ (at' # "closed" => pipe' = [pipe EXCEPT !.resident = FALSE])
  BY DEF PipeKnown, Loaded, Places, Sampled
<1>2. SessionTypes'
  BY <1>1, ResidentPipe, QuietTypes DEF SessionTypes, SessionTypeOK, Places
<1>3. PipeKnown'
  BY <1>1, ResidentPipe DEF PipeKnown, Loaded, Places
<1>4. PolishKnown'
  BY DEF PolishKnown, Published, Polishing, Places, Asks
<1>5. QED
  BY <1>2, <1>3, <1>4, QuietItems

LEMMA PolisherSound == ASSUME SessionInv, Polisher PROVE SessionInv'
<1> USE DEF SessionInv
<1>1. pipe \in Pipes /\ pipe' \in {pipe, [pipe EXCEPT !.place = "cpu"]} /\ (session.xl => pipe' = pipe)
      /\ (session.polisher = "face" /\ ~session.xl => pipe' = [pipe EXCEPT !.place = "cpu"])
  BY DEF Polisher, PipeKnown, Loaded, Places
<1>2. pipe' \in Pipes
  BY <1>1, MovedPipe
<1>3. /\ at = "polisher" /\ at' \in {"swap", "detect", "image"}
      /\ restorer' \in {restorer, "cpu"} /\ (at' = "swap" => session.polisher = "face")
      /\ UNCHANGED <<session, features, anime, item, pass, kept, polish, disk, verdict>>
  BY DEF Polisher, Goto, To, KeepBase
<1>4. SessionTypes'
  BY <1>2, <1>3, QuietTypes DEF SessionTypes, SessionTypeOK, Places
<1>5. PipeKnown'
  BY <1>1, <1>2, <1>3, MovedPipe DEF PipeKnown, Loaded, Places
<1>6. PolishKnown'
  BY <1>3 DEF PolishKnown, Published, Polishing, Places, Asks
<1>7. QED
  BY <1>3, <1>4, <1>5, <1>6, QuietItems

LEMMA SwapSound == ASSUME SessionInv, Swap \/ Restore PROVE SessionInv'
<1> USE DEF SessionInv, Swap, Restore, Goto, To, KeepBase, Polished
<1>1. SessionTypes'
  BY PipeType, QuietTypes DEF SessionTypes, SessionTypeOK, Places
<1>2. PipeKnown'
  BY DEF PipeKnown, Loaded, Places
<1>3. PolishKnown'
  BY DEF PolishKnown, Published, Polishing, Places, Asks
<1>4. QED
  BY <1>1, <1>2, <1>3, QuietItems

LEMMA DetectSound == ASSUME SessionInv, Detect PROVE SessionInv'
<1> USE DEF SessionInv, Detect, Goto, To, gpu
<1>1. SessionTypes'
  BY PipeType, QuietTypes DEF SessionTypes, SessionTypeOK, Places
<1>2. PipeKnown'
  BY DEF PipeKnown, Loaded, Places
<1>3. PolishKnown'
  BY DEF PolishKnown, Published, Polishing, Places, Before, Asks
<1>4. QED
  BY <1>1, <1>2, <1>3, QuietItems

LEMMA RedrawSound == ASSUME SessionInv, Redraw PROVE SessionInv'
<1> USE DEF SessionInv
<1>1. /\ at = "redraw" /\ pipe \in Pipes /\ polish = "failed" /\ pass \in 0..2
      /\ UNCHANGED <<session, features, anime, restorer, item, kept, disk, verdict>>
  BY DEF Redraw, PipeKnown, Loaded, Places, PolishKnown, Polishing, SessionTypes, SessionTypeOK
<1>2. CASE /\ pass' = pass + 1 /\ UNCHANGED pipe
           /\ \/ session.polisher = "anchor" /\ at' = "write" /\ UNCHANGED polish
              \/ session.polisher # "anchor" /\ at' = "image" /\ polish' = "completed"
              \/ at' \in {"image", "unwind"} /\ UNCHANGED polish
  <2>1. pass' \in 0..2
    BY <1>1, <1>2 DEF PolishKnown, Polishing
  <2>2. SessionTypes'
    BY <1>1, <1>2, <2>1, QuietTypes DEF SessionTypes, SessionTypeOK, Places
  <2>3. PipeKnown'
    BY <1>1, <1>2 DEF PipeKnown, Loaded, Places
  <2>4. PolishKnown'
    BY <1>1, <1>2, <2>1 DEF PolishKnown, Published, Polishing, Places, Asks
  <2>5. QED
    BY <1>1, <1>2, <2>2, <2>3, <2>4, QuietItems
<1>3. CASE /\ pipe' = [pipe EXCEPT !.resident = TRUE, !.vae = "fp32",
                                   !.scale = IF session.polisher \in Visual THEN "gated" ELSE @]
           /\ at' = "unwind" /\ UNCHANGED <<pass, polish>>
  <2>1. pipe' \in Pipes /\ pipe'.place = pipe.place
    BY <1>1, <1>3 DEF Pipes
  <2>2. SessionTypes'
    BY <1>1, <1>3, <2>1, QuietTypes DEF SessionTypes, SessionTypeOK, Places
  <2>3. PipeKnown'
    BY <1>1, <1>3, <2>1 DEF PipeKnown, Loaded, Places
  <2>4. PolishKnown'
    BY <1>1, <1>3 DEF PolishKnown, Published, Polishing, Places, Asks
  <2>5. QED
    BY <1>1, <1>3, <2>2, <2>3, <2>4, QuietItems
<1>4. QED
  BY <1>2, <1>3 DEF Redraw

\* A step that changes files of the item and nothing outside it.
LEMMA FileTypes ==
  ASSUME SessionTypes, UNCHANGED <<session, features, anime, gpu, item, verdict>>,
         disk' \in [1..Items -> ItemFiles], at' \in Places, pass' \in 0..2, kept' \subseteq Stages,
         polish' \in {"off", "failed", "completed"}
  PROVE  SessionTypes'
  BY DEF SessionTypes, SessionTypeOK, gpu

LEMMA FilesHonest ==
  ASSUME SessionInv, UNCHANGED <<session, item, verdict>>, OthersKept, HonestItem(item)'
  PROVE  SessionHonest'
<1> USE DEF SessionInv, SessionTypes, SessionTypeOK
<1>1. ASSUME NEW i \in 1..Items PROVE HonestItem(i)'
  <2>1. CASE i = item
    BY <2>1
  <2>2. CASE i # item
    BY <2>2, HonestItems DEF HonestItem, Valid, Asks, OthersKept
  <2>3. QED
    BY <2>1, <2>2
<1>2. QED
  BY <1>1 DEF SessionHonest, HonestItem

LEMMA FilesItems ==
  ASSUME SessionInv, UNCHANGED <<item, verdict>>, OthersKept, at \notin {"closed", "over"}, at' # "over",
         at' \notin {"metadata", "report", "closed"} => Untouched(item)',
         at' \in {"metadata", "report"} => disk'[item].image = IF polish' = "completed" THEN "polished" ELSE "base",
         at' = "metadata" => disk'[item].meta = None
  PROVE  ItemsKnown'
  BY DEF SessionInv, SessionTypes, SessionTypeOK, ItemsKnown, Published, Untouched, OthersKept

LEMMA SaveOriginalSound == ASSUME SessionInv, SaveOriginal PROVE SessionInv'
<1> USE DEF SessionInv
<1>1. /\ at = "original" /\ at' \in {"polisher", "image"}
      /\ UNCHANGED <<session, features, anime, gpu, item, pass, kept, polish, verdict>>
      /\ Untouched(item) /\ item \in 1..Items
  BY DEF SaveOriginal, Goto, To, KeepBase, ItemsKnown, Published, SessionTypes, SessionTypeOK
<1>2. PipeKnown'
  BY <1>1 DEF PipeKnown, Loaded, Places, gpu
<1>3. CASE Puts("original", TRUE)
  <2>1. /\ disk' \in [1..Items -> ItemFiles] /\ OthersKept /\ disk'[item].original
        /\ disk'[item].image = "none" /\ disk'[item].meta = None
    BY <1>1, <1>3, PutOriginal DEF Untouched
  <2>2. SessionTypes'
    BY <1>1, <2>1, FileTypes DEF SessionTypes, SessionTypeOK, Places
  <2>3. PolishKnown'
    BY <1>1, <2>1 DEF PolishKnown, Published, Polishing, Places, Asks
  <2>4. ItemsKnown' /\ SessionHonest'
    BY <1>1, <2>1, FilesItems, FilesHonest DEF Untouched, HonestItem
  <2>5. QED
    BY <1>2, <2>2, <2>3, <2>4
<1>4. CASE KeepBase /\ UNCHANGED disk
  <2>1. SessionTypes'
    BY <1>1, <1>4, PipeType, QuietTypes DEF SessionTypes, SessionTypeOK, Places, gpu
  <2>2. PolishKnown'
    BY <1>1, <1>4 DEF KeepBase, Goto, To, PolishKnown, Published, Polishing, Places, Asks
  <2>3. QED
    BY <1>1, <1>2, <1>4, <2>1, <2>2, QuietItems
<1>5. QED
  BY <1>3, <1>4 DEF SaveOriginal

LEMMA WriteStageSound == ASSUME SessionInv, WriteStage PROVE SessionInv'
<1> USE DEF SessionInv
<1>1. /\ at = "write" /\ at' \in {"link", "unwind"} /\ polish = "failed"
      /\ UNCHANGED <<session, features, anime, gpu, item, pass, kept, polish, verdict>>
      /\ Untouched(item) /\ item \in 1..Items /\ disk[item] \in ItemFiles
  BY DEF WriteStage, Goto, To, ItemsKnown, Published, SessionTypes, SessionTypeOK, PolishKnown, Polishing
<1>2. PipeKnown'
  BY <1>1 DEF PipeKnown, Loaded, Places, gpu
<1>3. CASE Puts("temps", Here.temps \cup {Saving})
  <2>1. Here.temps \cup {Saving} \in SUBSET Stages
    BY <1>1 DEF Here, Saving, Stages, ItemFiles
  <2>2. /\ disk' \in [1..Items -> ItemFiles] /\ OthersKept /\ disk'[item].original = disk[item].original
        /\ disk'[item].image = "none" /\ disk'[item].meta = None /\ disk'[item].stages = disk[item].stages
    BY <1>1, <1>3, <2>1, PutTemps DEF Untouched
  <2>3. SessionTypes'
    BY <1>1, <2>2, FileTypes DEF SessionTypes, SessionTypeOK, Places
  <2>4. PolishKnown'
    BY <1>1, <2>2 DEF PolishKnown, Published, Polishing, Places, Asks, Before
  <2>5. ItemsKnown' /\ SessionHonest'
    BY <1>1, <2>2, FilesItems, FilesHonest DEF Untouched, HonestItem
  <2>6. QED
    BY <1>2, <2>3, <2>4, <2>5
<1>4. CASE To("unwind") /\ UNCHANGED disk
  <2>1. SessionTypes'
    BY <1>1, <1>4, PipeType, QuietTypes DEF SessionTypes, SessionTypeOK, Places, gpu
  <2>2. PolishKnown'
    BY <1>1, <1>4 DEF Goto, To, PolishKnown, Published, Polishing, Places, Asks
  <2>3. QED
    BY <1>1, <1>2, <1>4, <2>1, <2>2, QuietItems
<1>5. QED
  BY <1>3, <1>4 DEF WriteStage

LEMMA LinkStageSound == ASSUME SessionInv, LinkStage PROVE SessionInv'
<1> USE DEF SessionInv
<1>1. /\ at = "link" /\ polish = "failed" /\ session.polisher = "anchor" /\ Asks
      /\ UNCHANGED <<session, features, anime, gpu, item, pass, verdict>> /\ pass \in 0..2
      /\ Untouched(item) /\ item \in 1..Items /\ disk[item] \in ItemFiles
      /\ disk[item].original /\ kept = Before(pass) /\ kept \subseteq disk[item].stages
  BY DEF LinkStage, ItemsKnown, Published, SessionTypes, SessionTypeOK, PolishKnown, Polishing
<1>2. Saving \in Stages
  BY DEF Saving, Stages
<1>3. CASE /\ kept' = kept \cup {Saving}
           /\ disk' = [disk EXCEPT ![item].stages = @ \cup {Saving}, ![item].temps = @ \ {Saving}]
           /\ IF pass = Passes THEN at' = "image" /\ polish' = "completed"
              ELSE at' = "redraw" /\ UNCHANGED polish
  <2>1. /\ disk'[item] = [disk[item] EXCEPT !.stages = @ \cup {Saving}, !.temps = @ \ {Saving}]
        /\ OthersKept /\ disk' \in [1..Items -> ItemFiles]
    BY <1>1, <1>2, <1>3 DEF SessionTypes, OthersKept, ItemFiles
  <2>2. /\ disk'[item].original /\ disk'[item].stages = disk[item].stages \cup {Saving}
        /\ disk'[item].image = "none" /\ disk'[item].meta = None
    BY <1>1, <2>1 DEF ItemFiles, Untouched
  <2>3. kept' = Before(pass + 1) /\ kept' \subseteq disk'[item].stages /\ kept' \subseteq Stages
    <3>1. pass = 0 \/ pass = 1 \/ pass = 2
      BY <1>1
    <3>2. kept' \subseteq disk'[item].stages
      BY <1>1, <1>3, <2>2
    <3>3. kept' = Before(pass + 1)
      <4>1. CASE pass = 0
        BY <1>1, <1>3, <4>1 DEF Saving, Before
      <4>2. CASE pass = 1
        BY <1>1, <1>3, <4>2 DEF Saving, Before
      <4>3. CASE pass = 2
        BY <1>1, <1>3, <4>3 DEF Saving, Before
      <4>4. QED
        BY <3>1, <4>1, <4>2, <4>3
    <3>4. kept' \subseteq Stages
      BY <3>3 DEF Before, Stages
    <3>5. QED
      BY <3>2, <3>3, <3>4
  <2>4. Passes = 2 /\ (pass = 2 => kept' = Stages)
    BY <1>1, <2>3 DEF Passes, Before, Stages
  <2>5. SessionTypes'
    BY <1>1, <1>3, <2>1, <2>3, FileTypes DEF SessionTypes, SessionTypeOK, Places
  <2>6. PipeKnown'
    BY <1>1, <1>3 DEF PipeKnown, Loaded, Places, gpu
  <2>7. PolishKnown'
    <3>1. CASE pass = 2
      BY <1>1, <1>3, <2>2, <2>3, <2>4, <3>1 DEF PolishKnown, Published, Polishing, Places, Asks
    <3>2. CASE pass # 2
      <4>1. at' = "redraw" /\ polish' = "failed" /\ pass' < 2
        BY <1>1, <1>3, <2>4, <3>2
      <4>2. QED
        BY <1>1, <2>2, <2>3, <4>1 DEF PolishKnown, Published, Polishing, Places, Asks
    <3>3. QED
      BY <3>1, <3>2
  <2>8. ItemsKnown' /\ SessionHonest'
    BY <1>1, <1>3, <2>1, <2>2, FilesItems, FilesHonest DEF Untouched, HonestItem
  <2>9. QED
    BY <2>5, <2>6, <2>7, <2>8
<1>4. CASE Puts("temps", Here.temps \ {Saving}) /\ at' = "unwind" /\ UNCHANGED <<kept, polish>>
  <2>1. Here.temps \ {Saving} \in SUBSET Stages
    BY <1>1 DEF Here, ItemFiles
  <2>2. /\ disk' \in [1..Items -> ItemFiles] /\ OthersKept
        /\ disk'[item].image = "none" /\ disk'[item].meta = None
    BY <1>1, <1>4, <2>1, PutTemps DEF Untouched
  <2>3. SessionTypes'
    BY <1>1, <1>4, <2>2, FileTypes DEF SessionTypes, SessionTypeOK, Places
  <2>4. PipeKnown'
    BY <1>1, <1>4 DEF PipeKnown, Loaded, Places, gpu
  <2>5. PolishKnown'
    BY <1>1, <1>4, <2>2 DEF PolishKnown, Published, Polishing, Places, Asks
  <2>6. ItemsKnown' /\ SessionHonest'
    BY <1>1, <1>4, <2>2, FilesItems, FilesHonest DEF Untouched, HonestItem
  <2>7. QED
    BY <2>3, <2>4, <2>5, <2>6
<1>5. QED
  BY <1>3, <1>4 DEF LinkStage

LEMMA UnwindSound == ASSUME SessionInv, Unwind PROVE SessionInv'
<1> USE DEF SessionInv
<1>1. /\ at = "unwind" /\ at' = "image" /\ polish = "failed" /\ Asks /\ pipe \in Pipes
      /\ UNCHANGED <<session, features, anime, restorer, item, pass, kept, polish, verdict>>
      /\ pipe' = Restored /\ Untouched(item) /\ item \in 1..Items /\ disk[item] \in ItemFiles
  BY DEF Unwind, KeepBase, To, Goto, ItemsKnown, Published, SessionTypes, SessionTypeOK, PolishKnown,
         Polishing, PipeKnown, Loaded, Places
<1>2. /\ pipe' \in Pipes /\ ~pipe'.resident /\ pipe'.vae = "fp16" /\ pipe'.scale = "set"
      /\ pipe'.place = pipe.place
  BY <1>1, RestoredPipe
<1>3. PipeKnown'
  BY <1>1, <1>2 DEF PipeKnown, Loaded, Places
<1>4. PolishKnown'
  BY <1>1 DEF PolishKnown, Published, Polishing, Places, Asks
<1>5. /\ disk' \in [1..Items -> ItemFiles] /\ OthersKept
      /\ disk'[item].image = "none" /\ disk'[item].meta = None
  <2>1. CASE disk' = [disk EXCEPT ![item].stages = {}, ![item].temps = {}]
    <3>1. disk'[item] = [disk[item] EXCEPT !.stages = {}, !.temps = {}]
      BY <1>1, <2>1 DEF SessionTypes
    <3>2. disk' \in [1..Items -> ItemFiles] /\ OthersKept
      BY <1>1, <2>1 DEF SessionTypes, OthersKept, ItemFiles
    <3>3. QED
      BY <1>1, <3>1, <3>2 DEF ItemFiles, Untouched
  <2>2. CASE UNCHANGED disk
    BY <1>1, <2>2 DEF SessionTypes, OthersKept, Untouched
  <2>3. QED
    BY <2>1, <2>2 DEF Unwind
<1>6. SessionTypes'
  BY <1>1, <1>2, <1>5 DEF SessionTypes, SessionTypeOK, Places, Pipes
<1>7. ItemsKnown' /\ SessionHonest'
  BY <1>1, <1>5, FilesItems, FilesHonest DEF Untouched, HonestItem
<1>8. QED
  BY <1>3, <1>4, <1>6, <1>7

LEMMA KillSound == ASSUME SessionInv, Kill PROVE SessionInv'
<1> USE DEF SessionInv
<1>1. /\ at \notin {"closed", "over"} /\ at' = "closed"
      /\ UNCHANGED <<session, features, anime, pipe, restorer, item, pass, kept, polish, disk, verdict>>
  BY DEF Kill, To, Goto, gpu
<1>2. SessionTypes'
  BY <1>1, PipeType, QuietTypes DEF SessionTypes, SessionTypeOK, Places
<1>3. PipeKnown'
  BY <1>1 DEF PipeKnown, Loaded, Places
<1>4. PolishKnown'
  BY <1>1 DEF PolishKnown, Published, Polishing, Places, Asks
<1>5. ItemsKnown'
  BY <1>1 DEF ItemsKnown, Published, Untouched
<1>6. SessionHonest'
  BY <1>1 DEF SessionHonest, Valid, Asks
<1>7. QED
  BY <1>2, <1>3, <1>4, <1>5, <1>6

LEMMA SaveImageSound == ASSUME SessionInv, SaveImage PROVE SessionInv'
<1> USE DEF SessionInv
<1> DEFINE kind == IF polish = "completed" THEN "polished" ELSE "base"
<1>1. /\ at = "image" /\ at' \in {"metadata", "closed"}
      /\ UNCHANGED <<session, features, anime, gpu, item, pass, kept, polish, verdict>>
      /\ Untouched(item) /\ item \in 1..Items
  BY DEF SaveImage, To, Goto, ItemsKnown, SessionTypes, SessionTypeOK
<1>2. CASE Puts("image", kind)
  <2>1. /\ disk' \in [1..Items -> ItemFiles] /\ OthersKept /\ disk'[item].original = disk[item].original
        /\ disk'[item].image = kind /\ disk'[item].meta = None /\ disk'[item].stages = disk[item].stages
    BY <1>1, <1>2, PutImage DEF Untouched
  <2>2. SessionTypes'
    BY <1>1, <2>1, FileTypes DEF SessionTypes, SessionTypeOK, Places
  <2>3. PipeKnown'
    BY <1>1 DEF PipeKnown, Loaded, Places, gpu
  <2>4. PolishKnown'
    BY <1>1, <2>1 DEF PolishKnown, Published, Polishing, Places, Asks
  <2>5. ItemsKnown' /\ SessionHonest'
    BY <1>1, <2>1, FilesItems, FilesHonest DEF Untouched, HonestItem
  <2>6. QED
    BY <2>2, <2>3, <2>4, <2>5
<1>3. CASE To("closed") /\ UNCHANGED disk
  <2>1. Kill
    BY <1>1, <1>3 DEF Kill
  <2>2. QED
    BY <2>1, KillSound
<1>4. QED
  BY <1>2, <1>3 DEF SaveImage

\* What the metadata says is what the service accepts.
LEMMA SaveMetadataSound == ASSUME SessionInv, SaveMetadata PROVE SessionInv'
<1> USE DEF SessionInv
<1>1. /\ at = "metadata" /\ at' \in {"report", "closed"}
      /\ UNCHANGED <<session, features, anime, gpu, item, pass, kept, polish, verdict>>
      /\ disk[item].image = (IF polish = "completed" THEN "polished" ELSE "base")
      /\ item \in 1..Items /\ disk[item] \in ItemFiles
      /\ polish \in {"off", "failed", "completed"} /\ kept \subseteq Stages
  BY DEF SaveMetadata, To, Goto, ItemsKnown, SessionTypes, SessionTypeOK
<1>2. CASE Puts("meta", Says)
  <2>1. /\ Says \in Receipts /\ Says.status = polish /\ Says.original = disk[item].original
        /\ Says.stages = IF polish = "completed" THEN kept ELSE {}
    BY <1>1 DEF Says, Receipt, Receipts, Here, ItemFiles
  <2>2. /\ disk' \in [1..Items -> ItemFiles] /\ OthersKept /\ disk'[item].original = disk[item].original
        /\ disk'[item].image = disk[item].image /\ disk'[item].meta = Says
        /\ disk'[item].stages = disk[item].stages
    BY <1>1, <1>2, <2>1, PutMeta
  <2>3. SessionTypes'
    BY <1>1, <2>2, FileTypes DEF SessionTypes, SessionTypeOK, Places
  <2>4. PipeKnown'
    BY <1>1 DEF PipeKnown, Loaded, Places, gpu
  <2>5. PolishKnown'
    BY <1>1, <2>2 DEF PolishKnown, Published, Polishing, Places, Asks
  <2>6. Valid(item)'
    BY <1>1, <2>1, <2>2 DEF Valid, PolishKnown, Published, Asks
  <2>7. ItemsKnown' /\ SessionHonest'
    BY <1>1, <2>1, <2>2, <2>6, FilesItems, FilesHonest DEF HonestItem
  <2>8. QED
    BY <2>3, <2>4, <2>5, <2>7
<1>3. CASE To("closed") /\ UNCHANGED disk
  <2>1. Kill
    BY <1>1, <1>3 DEF Kill
  <2>2. QED
    BY <2>1, KillSound
<1>4. QED
  BY <1>2, <1>3 DEF SaveMetadata

\* A clean-up leaves of the item what is in use, and nothing else.
LEMMA CleanedItem ==
  ASSUME SessionTypes, NEW busy, Cleaned(item, busy)
  PROVE  /\ disk' \in [1..Items -> ItemFiles] /\ OthersKept
         /\ disk'[item].image \in {"none", disk[item].image} /\ disk'[item].meta \in {None, disk[item].meta}
         /\ busy = {} => disk'[item].meta = None
<1>1. item \in 1..Items /\ disk[item] \in ItemFiles
  BY DEF SessionTypes, SessionTypeOK
<1> DEFINE remains == [file \in DOMAIN Nothing |-> IF file \in busy THEN disk[item][file] ELSE Nothing[file]]
<1>2. disk' = [disk EXCEPT ![item] = remains]
  BY DEF Cleaned
<1>3. remains \in ItemFiles
  BY <1>1 DEF ItemFiles, Nothing
<1>4. remains.image \in {"none", disk[item].image} /\ remains.meta \in {None, disk[item].meta}
      /\ (busy = {} => remains.meta = None)
  BY <1>1 DEF ItemFiles, Nothing
<1> HIDE DEF remains
<1>5. QED
  BY <1>1, <1>2, <1>3, <1>4 DEF SessionTypes, OthersKept

\* The service refuses no image that was published.
LEMMA ReportSound == ASSUME SessionInv, Report PROVE SessionInv'
<1> USE DEF SessionInv
<1>1. /\ at = "report" /\ item \in 1..Items /\ verdict[item] = "none" /\ UNCHANGED <<session, features, anime, gpu>>
      /\ verdict \in [1..Items -> {"none", "complete", "failed"}] /\ Items \in Nat
  BY SessionAssumption DEF Report, ItemsKnown, SessionTypes, SessionTypeOK
<1> DEFINE word == IF Valid(item) THEN "complete" ELSE "failed"
<1>2. /\ verdict' = [verdict EXCEPT ![item] = word] /\ verdict'[item] = word
      /\ \A i \in 1..Items : i # item => verdict'[i] = verdict[i]
      /\ verdict' \in [1..Items -> {"none", "complete", "failed"}]
  BY <1>1 DEF Report
<1>3. /\ disk' \in [1..Items -> ItemFiles] /\ OthersKept
      /\ Valid(item) => disk' = disk
      /\ ~Valid(item) => disk'[item].meta = None
  BY <1>1, CleanedItem DEF Report, SessionTypes, OthersKept
<1>4. SessionHonest'
  <2>1. ASSUME NEW i \in 1..Items PROVE HonestItem(i)'
    <3>1. CASE i = item /\ Valid(item)
      BY <1>1, <1>2, <1>3, <3>1, HonestItems DEF HonestItem, Valid, Asks
    <3>2. CASE i = item /\ ~Valid(item)
      BY <1>1, <1>2, <1>3, <3>2 DEF HonestItem
    <3>3. CASE i # item
      BY <1>1, <1>2, <1>3, <3>3, HonestItems DEF HonestItem, Valid, Asks, OthersKept
    <3>4. QED
      BY <3>1, <3>2, <3>3
  <2>2. QED
    BY <2>1 DEF SessionHonest, HonestItem
<1>5. CASE item = Items
  <2>1. at' = "closed" /\ UNCHANGED <<item, pass, kept, polish>>
    BY <1>5 DEF Report, To, Goto
  <2>2. SessionTypes'
    BY <1>1, <1>2, <1>3, <2>1 DEF SessionTypes, SessionTypeOK, Places, gpu
  <2>3. PipeKnown' /\ PolishKnown'
    BY <1>1, <2>1 DEF PipeKnown, Loaded, PolishKnown, Published, Polishing, Places, Asks, gpu
  <2>4. ItemsKnown'
    BY <1>1, <1>2, <1>5, <2>1 DEF ItemsKnown, Published
  <2>5. QED
    BY <1>4, <2>2, <2>3, <2>4
<1>6. CASE item # Items
  <2>1. item' = item + 1 /\ at' = "place" /\ pass' = 0 /\ kept' = {} /\ polish' = "off" /\ item' \in 1..Items
    BY <1>1, <1>6 DEF Report
  <2>2. SessionTypes'
    BY <1>1, <1>2, <1>3, <2>1 DEF SessionTypes, SessionTypeOK, Places, gpu
  <2>3. PipeKnown' /\ PolishKnown'
    BY <1>1, <2>1 DEF PipeKnown, Loaded, PolishKnown, Published, Polishing, Places, Asks, gpu
  <2>4. ASSUME NEW i \in 1..Items, i > item PROVE Untouched(i)' /\ verdict'[i] = "none"
    BY <1>1, <1>2, <1>3, <2>4 DEF ItemsKnown, Untouched, OthersKept
  <2>5. ASSUME NEW i \in 1..Items, i < item' PROVE verdict'[i] # "none"
    BY <1>1, <1>2, <2>1, <2>5 DEF ItemsKnown
  <2>6. ItemsKnown'
    BY <1>1, <2>1, <2>4, <2>5 DEF ItemsKnown, Published
  <2>7. QED
    BY <1>4, <2>2, <2>3, <2>6
<1>7. QED
  BY <1>5, <1>6

\* What is not reported has failed, whatever of it could not be removed.
LEMMA ClosedSound == ASSUME SessionInv, Closed PROVE SessionInv'
<1> USE DEF SessionInv
<1> DEFINE lost == {i \in 1..Items : verdict[i] = "none"}
<1>1. /\ at = "closed" /\ at' = "over" /\ pipe' = None /\ restorer' = "none"
      /\ UNCHANGED <<session, features, anime, item, pass, kept, polish>>
      /\ verdict' = [i \in 1..Items |-> IF i \in lost THEN "failed" ELSE verdict[i]]
      /\ verdict \in [1..Items -> {"none", "complete", "failed"}] /\ item \in 1..Items
  BY DEF Closed, To, Goto, SessionTypes, SessionTypeOK
<1>2. /\ disk' \in [1..Items -> ItemFiles] /\ OthersKept
      /\ item \notin lost => disk' = disk
      /\ disk'[item].image \in {"none", disk[item].image} /\ disk'[item].meta \in {None, disk[item].meta}
  <2>1. CASE item \in lost
    BY <1>1, <2>1, CleanedItem DEF Closed
  <2>2. CASE item \notin lost
    BY <1>1, <2>2 DEF Closed, SessionTypes, OthersKept
  <2>3. QED
    BY <2>1, <2>2
<1>3. SessionTypes'
  BY <1>1, <1>2 DEF SessionTypes, SessionTypeOK, Places
<1>4. PipeKnown' /\ PolishKnown'
  BY <1>1 DEF PipeKnown, Loaded, PolishKnown, Published, Polishing, Places, Asks
<1>5. ItemsKnown'
  BY <1>1 DEF ItemsKnown, Published
<1>6. SessionHonest'
  <2>1. ASSUME NEW i \in 1..Items PROVE HonestItem(i)'
    <3>1. CASE i = item /\ i \in lost
      BY <1>1, <1>2, <3>1, HonestItems DEF HonestItem
    <3>2. CASE i # item /\ i \in lost
      BY <1>1, <1>2, <3>2, HonestItems DEF HonestItem, OthersKept
    <3>3. CASE i \notin lost
      <4>1. disk'[i] = disk[i] /\ verdict'[i] = verdict[i]
        BY <1>1, <1>2, <3>3 DEF OthersKept
      <4>2. QED
        BY <1>1, <4>1, HonestItems DEF HonestItem, Valid, Asks
    <3>4. QED
      BY <3>1, <3>2, <3>3
  <2>2. QED
    BY <2>1 DEF SessionHonest, HonestItem
<1>7. QED
  BY <1>3, <1>4, <1>5, <1>6

LEMMA SessionInit == Init => SessionInv
<1> SUFFICES ASSUME Init PROVE SessionInv
  OBVIOUS
<1> USE SessionAssumption DEF Init, InitSession
<1>1. Nothing \in ItemFiles /\ Nothing.image = "none" /\ Nothing.meta = None
  BY DEF Nothing, ItemFiles, Stages
<1>2. SessionTypes
  BY <1>1 DEF SessionTypes, SessionTypeOK, Places
<1>3. PipeKnown /\ PolishKnown
  BY DEF PipeKnown, Loaded, PolishKnown, Published, Polishing, Places
<1>4. ItemsKnown /\ SessionHonest
  BY <1>1 DEF ItemsKnown, Published, Untouched, SessionHonest
<1>5. QED
  BY <1>2, <1>3, <1>4 DEF SessionInv

LEMMA SessionStep == SessionInv /\ [Next]_vars => SessionInv'
<1> SUFFICES ASSUME SessionInv, [SessionNext]_sessionVars PROVE SessionInv'
  BY DEF Next, vars, parts
<1>1. CASE UNCHANGED sessionVars
  BY <1>1 DEF sessionVars, gpu, work, SessionInv, SessionTypes, SessionTypeOK, PipeKnown, PolishKnown,
              ItemsKnown, Untouched, SessionHonest, Valid, Asks
<1>2. QED
  BY <1>1, ReadFeaturesSound, LoadSound, PlaceSound, PreviewSound, SampleSound, SaveOriginalSound,
     PolisherSound, SwapSound, DetectSound, RedrawSound, WriteStageSound, LinkStageSound, UnwindSound,
     SaveImageSound, SaveMetadataSound, ReportSound, KillSound, ClosedSound DEF SessionNext

\* Every item starts with a clean pipeline, one model is on the GPU, and what
\* an item's metadata says is what its files show.
THEOREM SessionIsSound == Spec => []SessionSound
<1>1. SessionInv => SessionSound
  <2> SUFFICES ASSUME SessionInv PROVE SessionSound
    OBVIOUS
  <2>1. WarmIsClean
    <3> SUFFICES ASSUME at = "place"
                 PROVE  features = "whole" /\ restorer # "cuda" /\ [pipe EXCEPT !.place = Fresh.place] = Fresh
      BY DEF WarmIsClean
    <3>1. /\ features = "whole" /\ restorer # "cuda" /\ pipe \in Pipes
          /\ ~pipe.resident /\ pipe.vae = "fp16" /\ pipe.scale = "set"
      BY DEF SessionInv, PipeKnown, Loaded, Places
    <3>2. Fresh \in Pipes /\ ~Fresh.resident /\ Fresh.vae = "fp16" /\ Fresh.scale = "set"
      BY FreshPipe DEF SessionInv
    <3>3. [pipe EXCEPT !.place = Fresh.place] = Fresh
      BY <3>1, <3>2 DEF Pipes
    <3>4. QED
      BY <3>1, <3>3
  <2>2. OneModelOnGpu
    BY DEF SessionInv, OneModelOnGpu, PipeKnown
  <2>3. QED
    BY <2>1, <2>2 DEF SessionInv, SessionTypes, SessionSound
<1>2. QED
  BY <1>1, SessionInit, SessionStep, PTL DEF Spec

-----------------------------------------------------------------------------
(* The audit of a try-on.                                                   *)

\* From the first sampling on the models are loaded; from the base image on
\* every step was observed.
HqLoaded == {"place", "step", "stepped", "base", "polish", "image", "verify", "complete", "metadata"}
HqObserved == {"base", "polish", "image", "verify", "complete", "metadata"}
HqPlaces == HqLoaded \cup {"new", "inputs", "depth", "hash", "features", "control", "estimate", "border",
                           "load", "fail", "done"}

ConditioningTypes ==
    /\ ConditioningTypeOK /\ hqAt \in HqPlaces
    /\ models <= edits /\ originals <= edits /\ hashed <= models

EvidenceKnown ==
    /\ hqAt \in HqLoaded => hashed <= loaded /\ loaded <= models
    /\ hqAt \in HqLoaded \cup {"load"} => posed = IF paired THEN "pair" ELSE "pose"
    /\ hqAt = "control" => paired
    /\ hqAt \in {"estimate", "border"} => ~paired
    /\ \A r \in Roles : forwards[r] <= forwards["person"]
    /\ hqAt \notin HqObserved \cup {"stepped", "fail", "done"} => forwards["person"] < Steps
    /\ hqAt \in HqObserved => \A r \in Roles : forwards[r] = Steps
    /\ hqAt \in {"complete", "metadata"} => loaded = hashed

AuditKnown ==
    /\ hqAt \in {"verify", "complete", "metadata"} => "image" \in published
    /\ hqAt = "metadata" => auditFile = "completed"
    /\ auditFile = "completed" => hqAt \in {"metadata", "fail", "done"}
    /\ "metadata" \in published => hqAt = "done"

ConditioningInv == ConditioningTypes /\ EvidenceKnown /\ AuditKnown /\ CompletedIsObserved

LEMMA CreateSound == ASSUME ConditioningInv, Create PROVE ConditioningInv'
<1> USE DEF ConditioningInv, ConditioningTypes
<1>1. /\ hqAt = "new" /\ hqAt' = "inputs" /\ audit' = "preparing" /\ auditFile' = "preparing"
      /\ UNCHANGED <<paired, cancelled, models, originals, depth, edits, hashed, loaded, posed, forwards, base, published, failing>>
  BY DEF Create, Then, files3, evidence
<1>2. ConditioningTypes'
  BY <1>1 DEF ConditioningTypeOK, HqPlaces, Statuses
<1>3. EvidenceKnown'
  BY <1>1 DEF EvidenceKnown, HqLoaded, HqObserved
<1>4. AuditKnown' /\ CompletedIsObserved'
  BY <1>1 DEF AuditKnown, CompletedIsObserved
<1>5. QED
  BY <1>2, <1>3, <1>4

LEMMA InputsSound == ASSUME ConditioningInv, Inputs PROVE ConditioningInv'
<1> USE ConditioningAssumption DEF ConditioningInv, ConditioningTypes, ConditioningTypeOK, Inputs, Then, Raise, Unless, Keeps, evidence
<1>1. ConditioningTypes'
  BY DEF HqPlaces, HqLoaded, Statuses, EvidenceKnown, HqObserved, Roles
<1>2. EvidenceKnown'
  BY DEF EvidenceKnown, HqLoaded, HqObserved, HqPlaces, Roles
<1>3. AuditKnown' /\ CompletedIsObserved'
  BY DEF AuditKnown, CompletedIsObserved, EvidenceKnown, HqObserved, HqLoaded, HqPlaces, Roles
<1>4. QED
  BY <1>1, <1>2, <1>3

LEMMA DepthSound == ASSUME ConditioningInv, Depth PROVE ConditioningInv'
<1> USE ConditioningAssumption DEF ConditioningInv, ConditioningTypes, ConditioningTypeOK, Depth, Then, Raise, Unless, Keeps, evidence
<1>1. ConditioningTypes'
  BY DEF HqPlaces, HqLoaded, Statuses, EvidenceKnown, HqObserved, Roles
<1>2. EvidenceKnown'
  BY DEF EvidenceKnown, HqLoaded, HqObserved, HqPlaces, Roles
<1>3. AuditKnown' /\ CompletedIsObserved'
  BY DEF AuditKnown, CompletedIsObserved, EvidenceKnown, HqObserved, HqLoaded, HqPlaces, Roles
<1>4. QED
  BY <1>1, <1>2, <1>3

LEMMA HashSound == ASSUME ConditioningInv, Hash PROVE ConditioningInv'
<1> USE ConditioningAssumption DEF ConditioningInv, ConditioningTypes, ConditioningTypeOK, Hash, Then, Raise, Unless, Keeps, evidence
<1>1. ConditioningTypes'
  BY DEF HqPlaces, HqLoaded, Statuses, EvidenceKnown, HqObserved, Roles
<1>2. EvidenceKnown'
  BY DEF EvidenceKnown, HqLoaded, HqObserved, HqPlaces, Roles
<1>3. AuditKnown' /\ CompletedIsObserved'
  BY DEF AuditKnown, CompletedIsObserved, EvidenceKnown, HqObserved, HqLoaded, HqPlaces, Roles
<1>4. QED
  BY <1>1, <1>2, <1>3

LEMMA FeaturesSound == ASSUME ConditioningInv, Features PROVE ConditioningInv'
<1> USE ConditioningAssumption DEF ConditioningInv, ConditioningTypes, ConditioningTypeOK, Features, Then, Raise, Unless, Keeps, evidence
<1>1. ConditioningTypes'
  BY DEF HqPlaces, HqLoaded, Statuses, EvidenceKnown, HqObserved, Roles
<1>2. EvidenceKnown'
  BY DEF EvidenceKnown, HqLoaded, HqObserved, HqPlaces, Roles
<1>3. AuditKnown' /\ CompletedIsObserved'
  BY DEF AuditKnown, CompletedIsObserved, EvidenceKnown, HqObserved, HqLoaded, HqPlaces, Roles
<1>4. QED
  BY <1>1, <1>2, <1>3

LEMMA ControlSound == ASSUME ConditioningInv, Control PROVE ConditioningInv'
<1> USE ConditioningAssumption DEF ConditioningInv, ConditioningTypes, ConditioningTypeOK, Control, Then, Raise, Unless, Keeps, evidence
<1>1. ConditioningTypes'
  BY DEF HqPlaces, HqLoaded, Statuses, EvidenceKnown, HqObserved, Roles
<1>2. EvidenceKnown'
  BY DEF EvidenceKnown, HqLoaded, HqObserved, HqPlaces, Roles
<1>3. AuditKnown' /\ CompletedIsObserved'
  BY DEF AuditKnown, CompletedIsObserved, EvidenceKnown, HqObserved, HqLoaded, HqPlaces, Roles
<1>4. QED
  BY <1>1, <1>2, <1>3

LEMMA EstimateSound == ASSUME ConditioningInv, Estimate PROVE ConditioningInv'
<1> USE ConditioningAssumption DEF ConditioningInv, ConditioningTypes, ConditioningTypeOK, Estimate, Then, Raise, Unless, Keeps, evidence
<1>1. ConditioningTypes'
  BY DEF HqPlaces, HqLoaded, Statuses, EvidenceKnown, HqObserved, Roles
<1>2. EvidenceKnown'
  BY DEF EvidenceKnown, HqLoaded, HqObserved, HqPlaces, Roles
<1>3. AuditKnown' /\ CompletedIsObserved'
  BY DEF AuditKnown, CompletedIsObserved, EvidenceKnown, HqObserved, HqLoaded, HqPlaces, Roles
<1>4. QED
  BY <1>1, <1>2, <1>3

LEMMA BorderSound == ASSUME ConditioningInv, Border PROVE ConditioningInv'
<1> USE ConditioningAssumption DEF ConditioningInv, ConditioningTypes, ConditioningTypeOK, Border, Then, Raise, Unless, Keeps, evidence
<1>1. ConditioningTypes'
  BY DEF HqPlaces, HqLoaded, Statuses, EvidenceKnown, HqObserved, Roles
<1>2. EvidenceKnown'
  BY DEF EvidenceKnown, HqLoaded, HqObserved, HqPlaces, Roles
<1>3. AuditKnown' /\ CompletedIsObserved'
  BY DEF AuditKnown, CompletedIsObserved, EvidenceKnown, HqObserved, HqLoaded, HqPlaces, Roles
<1>4. QED
  BY <1>1, <1>2, <1>3

LEMMA LoadModelsSound == ASSUME ConditioningInv, LoadModels PROVE ConditioningInv'
<1> USE ConditioningAssumption DEF ConditioningInv, ConditioningTypes, ConditioningTypeOK, LoadModels, Then, Raise, Unless, Keeps, evidence
<1>1. ConditioningTypes'
  BY DEF HqPlaces, HqLoaded, Statuses, EvidenceKnown, HqObserved, Roles
<1>2. EvidenceKnown'
  BY DEF EvidenceKnown, HqLoaded, HqObserved, HqPlaces, Roles
<1>3. AuditKnown' /\ CompletedIsObserved'
  BY DEF AuditKnown, CompletedIsObserved, EvidenceKnown, HqObserved, HqLoaded, HqPlaces, Roles
<1>4. QED
  BY <1>1, <1>2, <1>3

LEMMA SamplingSound == ASSUME ConditioningInv, Sampling PROVE ConditioningInv'
<1> USE ConditioningAssumption DEF ConditioningInv, ConditioningTypes, ConditioningTypeOK, Sampling, Then, Raise, Unless, evidence
<1>1. ConditioningTypes'
  BY DEF HqPlaces, HqLoaded, Statuses, EvidenceKnown, HqObserved, Roles
<1>2. EvidenceKnown'
  BY DEF EvidenceKnown, HqLoaded, HqObserved, HqPlaces, Roles
<1>3. AuditKnown' /\ CompletedIsObserved'
  BY DEF AuditKnown, CompletedIsObserved, EvidenceKnown, HqObserved, HqLoaded, HqPlaces, Roles
<1>4. QED
  BY <1>1, <1>2, <1>3

LEMMA StepSound == ASSUME ConditioningInv, Step PROVE ConditioningInv'
<1> USE ConditioningAssumption DEF ConditioningInv, ConditioningTypes, ConditioningTypeOK, Step, Then, Raise, Unless, Keeps, evidence
<1>1. ConditioningTypes'
  BY DEF HqPlaces, HqLoaded, Statuses, EvidenceKnown, HqObserved, Roles
<1>2. EvidenceKnown'
  BY DEF EvidenceKnown, HqLoaded, HqObserved, HqPlaces, Roles
<1>3. AuditKnown' /\ CompletedIsObserved'
  BY DEF AuditKnown, CompletedIsObserved, EvidenceKnown, HqObserved, HqLoaded, HqPlaces, Roles
<1>4. QED
  BY <1>1, <1>2, <1>3

LEMMA BaseImageSound == ASSUME ConditioningInv, BaseImage PROVE ConditioningInv'
<1> USE ConditioningAssumption DEF ConditioningInv, ConditioningTypes, ConditioningTypeOK, BaseImage, Then, Raise, Unless, Keeps, evidence
<1>1. ConditioningTypes'
  BY DEF HqPlaces, HqLoaded, Statuses, EvidenceKnown, HqObserved, Roles
<1>2. EvidenceKnown'
  BY DEF EvidenceKnown, HqLoaded, HqObserved, HqPlaces, Roles
<1>3. AuditKnown' /\ CompletedIsObserved'
  BY DEF AuditKnown, CompletedIsObserved, EvidenceKnown, HqObserved, HqLoaded, HqPlaces, Roles
<1>4. QED
  BY <1>1, <1>2, <1>3

LEMMA PolishSound == ASSUME ConditioningInv, Polish PROVE ConditioningInv'
<1> USE ConditioningAssumption DEF ConditioningInv, ConditioningTypes, ConditioningTypeOK, Polish, Then, Keeps
<1>1. ConditioningTypes'
  BY DEF HqPlaces, HqLoaded, Statuses, EvidenceKnown, HqObserved, Roles
<1>2. EvidenceKnown'
  BY DEF EvidenceKnown, HqLoaded, HqObserved, HqPlaces, Roles
<1>3. AuditKnown' /\ CompletedIsObserved'
  BY DEF AuditKnown, CompletedIsObserved, EvidenceKnown, HqObserved, HqLoaded, HqPlaces, Roles
<1>4. QED
  BY <1>1, <1>2, <1>3

LEMMA ImageSound == ASSUME ConditioningInv, Image PROVE ConditioningInv'
<1> USE ConditioningAssumption DEF ConditioningInv, ConditioningTypes, ConditioningTypeOK, Image, Then, Raise, evidence, files3
<1>1. ConditioningTypes'
  BY DEF HqPlaces, HqLoaded, Statuses, EvidenceKnown, HqObserved, Roles
<1>2. EvidenceKnown'
  BY DEF EvidenceKnown, HqLoaded, HqObserved, HqPlaces, Roles
<1>3. AuditKnown' /\ CompletedIsObserved'
  BY DEF AuditKnown, CompletedIsObserved, EvidenceKnown, HqObserved, HqLoaded, HqPlaces, Roles
<1>4. QED
  BY <1>1, <1>2, <1>3

LEMMA VerifySound == ASSUME ConditioningInv, Verify PROVE ConditioningInv'
<1> USE ConditioningAssumption DEF ConditioningInv, ConditioningTypes, ConditioningTypeOK, Verify, Then, Raise, Unless, Keeps, evidence, Unchanged
<1>1. ConditioningTypes'
  BY DEF HqPlaces, HqLoaded, Statuses, EvidenceKnown, HqObserved, Roles
<1>2. EvidenceKnown'
  BY DEF EvidenceKnown, HqLoaded, HqObserved, HqPlaces, Roles
<1>3. AuditKnown' /\ CompletedIsObserved'
  BY DEF AuditKnown, CompletedIsObserved, EvidenceKnown, HqObserved, HqLoaded, HqPlaces, Roles
<1>4. QED
  BY <1>1, <1>2, <1>3

LEMMA CompleteSound == ASSUME ConditioningInv, Complete PROVE ConditioningInv'
<1> USE ConditioningAssumption DEF ConditioningInv, ConditioningTypes, ConditioningTypeOK, Complete, Then, Raise, evidence, files3
<1>1. ConditioningTypes'
  BY DEF HqPlaces, HqLoaded, Statuses, EvidenceKnown, HqObserved, Roles
<1>2. EvidenceKnown'
  BY DEF EvidenceKnown, HqLoaded, HqObserved, HqPlaces, Roles
<1>3. AuditKnown' /\ CompletedIsObserved'
  BY DEF AuditKnown, CompletedIsObserved, EvidenceKnown, HqObserved, HqLoaded, HqPlaces, Roles
<1>4. QED
  BY <1>1, <1>2, <1>3

LEMMA MetadataSound == ASSUME ConditioningInv, Metadata PROVE ConditioningInv'
<1> USE ConditioningAssumption DEF ConditioningInv, ConditioningTypes, ConditioningTypeOK, Metadata, Then, Raise, evidence, files3
<1>1. ConditioningTypes'
  BY DEF HqPlaces, HqLoaded, Statuses, EvidenceKnown, HqObserved, Roles
<1>2. EvidenceKnown'
  BY DEF EvidenceKnown, HqLoaded, HqObserved, HqPlaces, Roles
<1>3. AuditKnown' /\ CompletedIsObserved'
  BY DEF AuditKnown, CompletedIsObserved, EvidenceKnown, HqObserved, HqLoaded, HqPlaces, Roles
<1>4. QED
  BY <1>1, <1>2, <1>3

LEMMA FailSound == ASSUME ConditioningInv, Fail PROVE ConditioningInv'
<1> USE ConditioningAssumption DEF ConditioningInv, ConditioningTypes, ConditioningTypeOK, Fail, Then, evidence, files3
<1>1. ConditioningTypes'
  BY DEF HqPlaces, HqLoaded, Statuses, EvidenceKnown, HqObserved, Roles
<1>2. EvidenceKnown'
  BY DEF EvidenceKnown, HqLoaded, HqObserved, HqPlaces, Roles
<1>3. AuditKnown' /\ CompletedIsObserved'
  BY DEF AuditKnown, CompletedIsObserved, EvidenceKnown, HqObserved, HqLoaded, HqPlaces, Roles
<1>4. QED
  BY <1>1, <1>2, <1>3

LEMMA CancelHqSound == ASSUME ConditioningInv, CancelHq PROVE ConditioningInv'
<1> USE ConditioningAssumption DEF ConditioningInv, ConditioningTypes, ConditioningTypeOK, CancelHq, evidence, files3
<1>1. ConditioningTypes'
  BY DEF HqPlaces, HqLoaded, Statuses, EvidenceKnown, HqObserved, Roles
<1>2. EvidenceKnown'
  BY DEF EvidenceKnown, HqLoaded, HqObserved, HqPlaces, Roles
<1>3. AuditKnown' /\ CompletedIsObserved'
  BY DEF AuditKnown, CompletedIsObserved, EvidenceKnown, HqObserved, HqLoaded, HqPlaces, Roles
<1>4. QED
  BY <1>1, <1>2, <1>3

LEMMA KillHqSound == ASSUME ConditioningInv, KillHq PROVE ConditioningInv'
<1> USE ConditioningAssumption DEF ConditioningInv, ConditioningTypes, ConditioningTypeOK, KillHq, evidence, files3
<1>1. ConditioningTypes'
  BY DEF HqPlaces, HqLoaded, Statuses, EvidenceKnown, HqObserved, Roles
<1>2. EvidenceKnown'
  BY DEF EvidenceKnown, HqLoaded, HqObserved, HqPlaces, Roles
<1>3. AuditKnown' /\ CompletedIsObserved'
  BY DEF AuditKnown, CompletedIsObserved, EvidenceKnown, HqObserved, HqLoaded, HqPlaces, Roles
<1>4. QED
  BY <1>1, <1>2, <1>3

LEMMA EditSound == ASSUME ConditioningInv, Edit PROVE ConditioningInv'
<1> USE ConditioningAssumption DEF ConditioningInv, ConditioningTypes, ConditioningTypeOK, Edit, evidence
<1>1. ConditioningTypes'
  BY DEF HqPlaces, HqLoaded, Statuses, EvidenceKnown, HqObserved, Roles
<1>2. EvidenceKnown'
  BY DEF EvidenceKnown, HqLoaded, HqObserved, HqPlaces, Roles
<1>3. AuditKnown' /\ CompletedIsObserved'
  BY DEF AuditKnown, CompletedIsObserved, EvidenceKnown, HqObserved, HqLoaded, HqPlaces, Roles
<1>4. QED
  BY <1>1, <1>2, <1>3

LEMMA SteppedSound == ASSUME ConditioningInv, NEW n \in 1..Steps, Stepped(n) PROVE ConditioningInv'
<1> USE ConditioningAssumption DEF ConditioningInv, ConditioningTypes, ConditioningTypeOK, Stepped, Then, Raise, Unless, Keeps, evidence
<1>1. ConditioningTypes'
  BY DEF HqPlaces, HqLoaded, Statuses, EvidenceKnown, HqObserved, Roles
<1>2. EvidenceKnown'
  BY DEF EvidenceKnown, HqLoaded, HqObserved, HqPlaces, Roles, Observed
<1>3. AuditKnown' /\ CompletedIsObserved'
  BY DEF AuditKnown, CompletedIsObserved, EvidenceKnown, HqObserved, HqLoaded, HqPlaces, Roles
<1>4. QED
  BY <1>1, <1>2, <1>3

LEMMA ConditioningInit == Init => ConditioningInv
<1> SUFFICES ASSUME InitConditioning PROVE ConditioningInv
  BY DEF Init
<1> USE ConditioningAssumption DEF InitConditioning
<1>1. ConditioningTypes
  <2>1. ConditioningTypeOK
    <3>1. {models, originals, edits, hashed, loaded} \subseteq 0..MaxEdits /\ forwards \in [Roles -> 0..Steps]
      OBVIOUS
    <3>2. {audit, auditFile} \subseteq Statuses
      BY DEF Statuses
    <3>3. QED
      BY <3>1, <3>2 DEF ConditioningTypeOK
  <2>2. QED
    BY <2>1 DEF ConditioningTypes, HqPlaces
<1>2. EvidenceKnown
  BY DEF EvidenceKnown, HqLoaded, HqObserved, Roles
<1>3. AuditKnown /\ CompletedIsObserved
  BY DEF AuditKnown, CompletedIsObserved
<1>4. QED
  BY <1>1, <1>2, <1>3 DEF ConditioningInv

LEMMA ConditioningStep == ConditioningInv /\ [Next]_vars => ConditioningInv'
<1> SUFFICES ASSUME ConditioningInv, [ConditioningNext]_hqVars PROVE ConditioningInv'
  BY DEF Next, vars, parts
<1>1. CASE UNCHANGED hqVars
  BY <1>1 DEF hqVars, files3, evidence, ConditioningInv, ConditioningTypes, ConditioningTypeOK, EvidenceKnown,
              AuditKnown, CompletedIsObserved
<1>2. QED
  BY <1>1, CreateSound, InputsSound, DepthSound, HashSound, FeaturesSound, ControlSound, EstimateSound,
     BorderSound, LoadModelsSound, SamplingSound, StepSound, SteppedSound, BaseImageSound, PolishSound,
     ImageSound, VerifySound, CompleteSound, MetadataSound, FailSound, CancelHqSound, KillHqSound, EditSound
     DEF ConditioningNext

-----------------------------------------------------------------------------
(* The record of a repair.                                                  *)

RepairPlaces == {"idle", "manifest", "accept", "receipt", "fail", "restore", "direct", "pass",
                 "result", "mask", "report"}
RepairStates == Ready \cup {"none", "running", "failed"}
Pictures == {NoReport} \cup SUBSET Parts
Rows == [state : RepairStates, regions : SUBSET Parts, result : Pictures]

RepairTypes ==
    /\ imprint \in Imprints /\ repairAt \in RepairPlaces
    /\ edits3 \subseteq Parts /\ todo \subseteq Parts /\ canvas \subseteq Parts
    /\ accepted \subseteq Parts /\ rejected \subseteq Parts
    /\ resultPng \in Pictures /\ maskPng \in Pictures
    /\ repair \in Rows /\ repairFile \in Rows

\* What is drawn is accepted, and only imprints that are restored are drawn.
DrawingKnown ==
    /\ canvas = accepted /\ accepted \subseteq edits3 /\ todo \subseteq edits3
    /\ edits3 \cap Unpaired = {} /\ \A part \in edits3 : imprint[part] # "none"
    /\ repairAt \in {"mask", "report"} /\ Applied => resultPng = canvas
    /\ repairAt = "report" /\ Applied => maskPng = canvas

\* A row or a report that shows a repair is about the pictures in the folder.
Shows(entry) ==
    entry.state \in {"applied", "partial"} =>
        /\ entry.result = resultPng /\ maskPng = resultPng /\ resultPng = entry.regions
        /\ entry.regions # {} /\ entry.regions \cap Unpaired = {}
        /\ \A part \in entry.regions : imprint[part] # "none"

ReportKnown ==
    /\ repairAt \in {"restore", "direct", "pass", "result", "mask", "report"} => reportJson = NoReport
    /\ reportJson # NoReport \/ repairAt \in {"accept", "receipt"} =>
         /\ reportJson.state \in Ready /\ reportJson.regions \subseteq Parts /\ reportJson.result \in Pictures
         /\ Shows(reportJson) /\ Matches
    /\ Shows(repair) /\ Shows(repairFile)
    /\ repair.state \in Ready => repairAt \in {"idle", "fail"}
    /\ repairFile.state \in Ready => repairAt = "idle" /\ repair = repairFile

RepairInv == RepairTypes /\ DrawingKnown /\ ReportKnown

LEMMA UnpairedKnees == Unpaired \subseteq Knees
  BY DEF Unpaired, Dyed

LEMMA RowChanged ==
  ASSUME NEW r \in Rows, NEW s \in RepairStates
  PROVE  [r EXCEPT !.state = s] \in Rows /\ [r EXCEPT !.state = s].state = s
  BY DEF Rows

\* A step that leaves the pictures and the report as they are.
LEMMA SameReport ==
  ASSUME ReportKnown, UNCHANGED <<imprint, resultPng, maskPng, reportJson>>,
         repair' = repair \/ repair'.state \notin Ready,
         repairFile' = repairFile \/ repairFile'.state \notin Ready,
         repairAt' \in {"restore", "direct", "pass", "result", "mask", "report"} => reportJson = NoReport,
         repairAt' \in {"accept", "receipt"} => reportJson # NoReport \/ repairAt \in {"accept", "receipt"},
         repair'.state \in Ready => repairAt' \in {"idle", "fail"},
         repairFile'.state \in Ready => repairAt' = "idle" /\ repair' = repairFile'
  PROVE  ReportKnown'
<1>1. Shows(repair)' /\ Shows(repairFile)'
  BY DEF ReportKnown, Shows, Ready, Unpaired, Dyed
<1>2. Unpaired' = Unpaired
  BY DEF Unpaired, Dyed
<1>3. reportJson' # NoReport \/ repairAt' \in {"accept", "receipt"} =>
         /\ reportJson'.state \in Ready /\ reportJson'.regions \subseteq Parts /\ reportJson'.result \in Pictures
         /\ Shows(reportJson)' /\ Matches'
  BY <1>2 DEF ReportKnown, Shows, Matches
<1>4. QED
  BY <1>1, <1>3 DEF ReportKnown

LEMMA TryRepairShown == ASSUME RepairInv, TryRepair PROVE RepairInv'
<1>1. /\ repairAt = "idle" /\ repairAt' = "manifest" /\ repair' = Unfinished("running") /\ repairFile' = repair'
      /\ UNCHANGED <<imprint, edits3, todo, canvas, approved, accepted, rejected, resultPng, maskPng, reportJson>>
  BY DEF TryRepair, RepairTo, drawing, repairFiles
<1>2. repair'.state = "running" /\ repair' \in Rows
  BY <1>1 DEF Unfinished, Rows, RepairStates, Pictures
<1>3. RepairTypes'
  BY <1>1, <1>2 DEF RepairInv, RepairTypes, RepairPlaces
<1>4. DrawingKnown'
  BY <1>1 DEF RepairInv, DrawingKnown, Unpaired, Dyed
<1>5. ReportKnown'
  BY <1>1, <1>2, SameReport DEF RepairInv, Ready
<1>6. QED
  BY <1>3, <1>4, <1>5 DEF RepairInv

LEMMA ManifestShown == ASSUME RepairInv, Manifest \/ AcceptReport PROVE RepairInv'
<1>1. /\ \/ repairAt = "manifest" /\ repairAt' = IF reportJson # NoReport THEN "accept" ELSE "restore"
         \/ repairAt \in {"manifest", "accept"} /\ repairAt' = "fail"
         \/ repairAt = "accept" /\ repairAt' = "receipt"
      /\ UNCHANGED <<imprint, edits3, todo, canvas, approved, accepted, rejected, resultPng, maskPng, reportJson,
                     repair, repairFile>>
  BY DEF Manifest, AcceptReport, RepairTo, drawing, repairFiles, repairRecord
<1>2. RepairTypes'
  BY <1>1 DEF RepairInv, RepairTypes, RepairPlaces
<1>3. DrawingKnown'
  BY <1>1 DEF RepairInv, DrawingKnown, Unpaired, Dyed
<1>4. ReportKnown'
  BY <1>1, SameReport DEF RepairInv, ReportKnown
<1>5. QED
  BY <1>2, <1>3, <1>4 DEF RepairInv

\* The receipt repeats the report.
LEMMA SaveReceiptShown == ASSUME RepairInv, SaveReceipt PROVE RepairInv'
<1>1. /\ repairAt = "receipt"
      /\ UNCHANGED <<imprint, edits3, todo, canvas, approved, accepted, rejected, resultPng, maskPng, reportJson>>
      /\ repair' = [state |-> reportJson.state, regions |-> reportJson.regions, result |-> reportJson.result]
      /\ \/ repairFile' = repair' /\ repairAt' = "idle"
         \/ repairFile' = repairFile /\ repairAt' = "fail"
  BY DEF SaveReceipt, RepairTo, drawing, repairFiles, RepairFault
<1>2. /\ reportJson.state \in Ready /\ reportJson.regions \subseteq Parts /\ reportJson.result \in Pictures
      /\ Shows(reportJson) /\ Matches /\ repairFile.state \notin Ready
  BY <1>1 DEF RepairInv, ReportKnown
<1>3. /\ repair' \in Rows /\ repair'.state = reportJson.state /\ repair'.regions = reportJson.regions
      /\ repair'.result = reportJson.result
  BY <1>1, <1>2 DEF Rows, RepairStates
<1>4. RepairTypes'
  BY <1>1, <1>3 DEF RepairInv, RepairTypes, RepairPlaces
<1>5. DrawingKnown'
  BY <1>1 DEF RepairInv, DrawingKnown, Unpaired, Dyed
<1>6. Unpaired' = Unpaired
  BY <1>1 DEF Unpaired, Dyed
<1>7. Shows(repair)'
  BY <1>1, <1>2, <1>3, <1>6 DEF Shows
<1>8. Shows(repairFile)'
  BY <1>1, <1>2, <1>7 DEF Shows, Ready
<1>9. ReportKnown'
  <2>1. Shows(reportJson)' /\ Matches'
    BY <1>1, <1>2, <1>6 DEF Shows, Matches
  <2>2. QED
    BY <1>1, <1>2, <1>3, <1>7, <1>8, <2>1 DEF ReportKnown
<1>10. QED
  BY <1>4, <1>5, <1>9 DEF RepairInv

LEMMA FailRepairShown == ASSUME RepairInv, FailRepair \/ StopRepair PROVE RepairInv'
<1>1. repairAt # "idle" /\ repairFile \in Rows /\ repair \in Rows /\ repairFile.state \notin Ready
  BY DEF RepairInv, RepairTypes, ReportKnown, FailRepair, StopRepair
<1>2. /\ repairAt' = "idle" /\ repair' \in Rows /\ repair'.state \notin Ready /\ repairFile' \in {repair', repairFile}
      /\ UNCHANGED <<imprint, edits3, todo, canvas, approved, accepted, rejected, resultPng, maskPng, reportJson>>
  <2>1. CASE FailRepair
    BY <1>1, <2>1, RowChanged
       DEF FailRepair, RepairTo, SaveRepair, RepairFault, drawing, repairFiles, RepairStates, Ready
  <2>2. CASE StopRepair
    BY <1>1, <2>2, RowChanged DEF StopRepair, RepairTo, drawing, repairFiles, RepairStates, Ready
  <2>3. QED
    BY <2>1, <2>2
<1>3. RepairTypes'
  BY <1>1, <1>2 DEF RepairInv, RepairTypes, RepairPlaces
<1>4. DrawingKnown'
  BY <1>2 DEF RepairInv, DrawingKnown, Unpaired, Dyed
<1>5. ReportKnown'
  BY <1>1, <1>2, SameReport DEF RepairInv
<1>6. QED
  BY <1>3, <1>4, <1>5 DEF RepairInv

LEMMA RestorePartsShown == ASSUME RepairInv, RestoreParts PROVE RepairInv'
<1> USE DEF RepairInv, RestoreParts, WorkerKeeps, repairFiles, repairRecord, RepairTo, KneeEdits
<1>1. RepairTypes'
  BY RowChanged DEF RepairTypes, RepairPlaces, RepairStates, Ready, Rows, Pictures, DrawingKnown, ReportKnown, Parts, Knees
<1>2. DrawingKnown'
  BY UnpairedKnees DEF DrawingKnown, Applied, State, Unpaired, Dyed, Parts, Knees, RepairTypes
<1>3. ReportKnown'
  BY RowChanged DEF ReportKnown, RepairTypes, Rows, Pictures, RepairStates, Ready, Shows, Matches, Unpaired, Dyed, DrawingKnown, Applied, State
<1>4. QED
  BY <1>1, <1>2, <1>3

LEMMA DirectEditsShown == ASSUME RepairInv, DirectEdits PROVE RepairInv'
<1> USE DEF RepairInv, DirectEdits, WorkerKeeps, repairFiles, repairRecord, RepairTo
<1>1. RepairTypes'
  BY RowChanged DEF RepairTypes, RepairPlaces, RepairStates, Ready, Rows, Pictures, DrawingKnown, ReportKnown, Parts, Knees
<1>2. DrawingKnown'
  BY UnpairedKnees DEF DrawingKnown, Applied, State, Unpaired, Dyed, Parts, Knees, RepairTypes
<1>3. ReportKnown'
  BY RowChanged DEF ReportKnown, RepairTypes, Rows, Pictures, RepairStates, Ready, Shows, Matches, Unpaired, Dyed, DrawingKnown, Applied, State
<1>4. QED
  BY <1>1, <1>2, <1>3

LEMMA RenderPassShown == ASSUME RepairInv, RenderPass PROVE RepairInv'
<1> USE DEF RepairInv, RenderPass, WorkerKeeps, repairFiles, repairRecord, RepairTo, Pass
<1>1. RepairTypes'
  BY RowChanged DEF RepairTypes, RepairPlaces, RepairStates, Ready, Rows, Pictures, DrawingKnown, ReportKnown, Parts, Knees
<1>2. DrawingKnown'
  BY UnpairedKnees DEF DrawingKnown, Applied, State, Unpaired, Dyed, Parts, Knees, RepairTypes
<1>3. ReportKnown'
  BY RowChanged DEF ReportKnown, RepairTypes, Rows, Pictures, RepairStates, Ready, Shows, Matches, Unpaired, Dyed, DrawingKnown, Applied, State
<1>4. QED
  BY <1>1, <1>2, <1>3

LEMMA RenderedShown == ASSUME RepairInv, Rendered PROVE RepairInv'
<1> USE DEF RepairInv, Rendered, WorkerKeeps, repairFiles, repairRecord, RepairTo, drawing
<1>1. RepairTypes'
  BY RowChanged DEF RepairTypes, RepairPlaces, RepairStates, Ready, Rows, Pictures, DrawingKnown, ReportKnown, Parts, Knees
<1>2. DrawingKnown'
  BY UnpairedKnees DEF DrawingKnown, Applied, State, Unpaired, Dyed, Parts, Knees, RepairTypes
<1>3. ReportKnown'
  BY RowChanged DEF ReportKnown, RepairTypes, Rows, Pictures, RepairStates, Ready, Shows, Matches, Unpaired, Dyed, DrawingKnown, Applied, State
<1>4. QED
  BY <1>1, <1>2, <1>3

LEMMA WorkerRaisesShown == ASSUME RepairInv, WorkerRaises PROVE RepairInv'
<1> USE DEF RepairInv, WorkerRaises, WorkerKeeps, repairFiles, repairRecord, RepairTo, drawing
<1>1. RepairTypes'
  BY RowChanged DEF RepairTypes, RepairPlaces, RepairStates, Ready, Rows, Pictures, DrawingKnown, ReportKnown, Parts, Knees
<1>2. DrawingKnown'
  BY UnpairedKnees DEF DrawingKnown, Applied, State, Unpaired, Dyed, Parts, Knees, RepairTypes
<1>3. ReportKnown'
  BY RowChanged DEF ReportKnown, RepairTypes, Rows, Pictures, RepairStates, Ready, Shows, Matches, Unpaired, Dyed, DrawingKnown, Applied, State
<1>4. QED
  BY <1>1, <1>2, <1>3

LEMMA SaveResultShown == ASSUME RepairInv, SaveResult PROVE RepairInv'
<1> USE DEF RepairInv, SaveResult, FilesKeep, drawing, repairRecord, RepairTo
<1>1. RepairTypes'
  BY RowChanged DEF RepairTypes, RepairPlaces, RepairStates, Ready, Rows, Pictures, DrawingKnown, ReportKnown, Parts, Knees
<1>2. DrawingKnown'
  BY UnpairedKnees DEF DrawingKnown, Applied, State, Unpaired, Dyed, Parts, Knees, RepairTypes
<1>3. ReportKnown'
  BY RowChanged DEF ReportKnown, RepairTypes, Rows, Pictures, RepairStates, Ready, Shows, Matches, Unpaired, Dyed, DrawingKnown, Applied, State
<1>4. QED
  BY <1>1, <1>2, <1>3

LEMMA SaveMaskShown == ASSUME RepairInv, SaveMask PROVE RepairInv'
<1> USE DEF RepairInv, SaveMask, FilesKeep, drawing, repairRecord, RepairTo
<1>1. RepairTypes'
  BY RowChanged DEF RepairTypes, RepairPlaces, RepairStates, Ready, Rows, Pictures, DrawingKnown, ReportKnown, Parts, Knees
<1>2. DrawingKnown'
  BY UnpairedKnees DEF DrawingKnown, Applied, State, Unpaired, Dyed, Parts, Knees, RepairTypes
<1>3. ReportKnown'
  BY RowChanged DEF ReportKnown, RepairTypes, Rows, Pictures, RepairStates, Ready, Shows, Matches, Unpaired, Dyed, DrawingKnown, Applied, State
<1>4. QED
  BY <1>1, <1>2, <1>3

\* The report names the pictures that were just saved.
LEMMA SaveReportShown == ASSUME RepairInv, SaveReport PROVE RepairInv'
<1>1. /\ repairAt = "report" /\ repairAt' = "accept"
      /\ UNCHANGED <<imprint, edits3, todo, canvas, approved, accepted, rejected, resultPng, maskPng, repair, repairFile>>
      /\ reportJson' = [state |-> State, regions |-> accepted,
                        result |-> IF Applied THEN resultPng ELSE NoReport,
                        mask |-> IF Applied THEN maskPng ELSE NoReport]
  BY DEF SaveReport, RepairTo, FilesKeep, drawing, repairRecord
<1>2. RepairTypes' /\ DrawingKnown'
  BY <1>1 DEF RepairInv, RepairTypes, RepairPlaces, DrawingKnown, Unpaired, Dyed
<1>3. /\ reportJson'.state = State /\ reportJson'.regions = accepted
      /\ Applied => reportJson'.result = resultPng /\ reportJson'.mask = maskPng
      /\ ~Applied => reportJson'.result = NoReport
  BY <1>1
<1>4. /\ State \in Ready /\ (Applied <=> State \in {"applied", "partial"}) /\ (Applied => accepted # {})
  BY DEF State, Ready, Applied
<1>5. Applied => resultPng = accepted /\ maskPng = accepted
  BY <1>1 DEF RepairInv, DrawingKnown
<1>6. Unpaired' = Unpaired
  BY <1>1 DEF Unpaired, Dyed
<1>7. Shows(reportJson)' /\ Matches'
  BY <1>1, <1>3, <1>4, <1>5, <1>6 DEF Shows, Matches, RepairInv, DrawingKnown
<1>8. Shows(repair)' /\ Shows(repairFile)' /\ repair.state \notin Ready /\ repairFile.state \notin Ready
  BY <1>1, <1>6 DEF Shows, RepairInv, ReportKnown
<1>9. ReportKnown'
  BY <1>1, <1>3, <1>4, <1>7, <1>8 DEF ReportKnown, RepairInv, RepairTypes, Pictures
<1>10. QED
  BY <1>2, <1>9 DEF RepairInv

LEMMA RepairInit == Init => RepairInv
<1> SUFFICES ASSUME InitRepair PROVE RepairInv
  BY DEF Init
<1> USE DEF InitRepair
<1>1. repair = Unfinished("none") /\ repair \in Rows /\ repair.state = "none"
  BY DEF Unfinished, Rows, RepairStates, Pictures
<1>2. RepairTypes
  BY <1>1 DEF RepairTypes, RepairPlaces, Pictures
<1>3. DrawingKnown
  BY DEF DrawingKnown
<1>4. ReportKnown
  BY <1>1 DEF ReportKnown, Shows, Ready
<1>5. QED
  BY <1>2, <1>3, <1>4 DEF RepairInv

LEMMA RepairStep == RepairInv /\ [Next]_vars => RepairInv'
<1> SUFFICES ASSUME RepairInv, [RepairNext]_repairVars PROVE RepairInv'
  BY DEF Next, vars, parts
<1>1. CASE UNCHANGED repairVars
  <2>1. RepairTypes' /\ DrawingKnown'
    BY <1>1 DEF repairVars, drawing, repairFiles, repairRecord, RepairInv, RepairTypes, DrawingKnown, Unpaired,
                Dyed, Applied, State
  <2>2. ReportKnown'
    BY <1>1, SameReport DEF repairVars, repairFiles, repairRecord, RepairInv, ReportKnown
  <2>3. QED
    BY <2>1, <2>2 DEF RepairInv
<1>2. QED
  BY <1>1, TryRepairShown, ManifestShown, SaveReceiptShown, FailRepairShown, RestorePartsShown,
     DirectEditsShown, RenderPassShown, RenderedShown, WorkerRaisesShown, SaveResultShown, SaveMaskShown,
     SaveReportShown DEF RepairNext

LEMMA RepairIsHonest == RepairInv => RepairHonest
  BY DEF RepairInv, ReportKnown, RepairHonest, Shows, Served, Ready, Matches

-----------------------------------------------------------------------------
(* The gallery's caches and its renewal.                                    *)

GalleryPlaces == {"idle", "ask", "ok", "check", "clear", "mint", "publish", "read", "compare", "expiry", "people"}
Goals == {"none", "reuse", "prove", "access", "page", "image"}

GalleryTypes ==
    /\ credential \in 0..MaxCredentials /\ minted \in 1..MaxCredentials /\ unproved \in 0..MaxCredentials
    /\ life \in [Credentials -> {"fresh", "short", "over"}]
    /\ granted \subseteq Credentials /\ answered \subseteq 0..MaxCredentials
    /\ galleryAt \in [Callers -> GalleryPlaces] /\ goal \in [Callers -> Goals]
    /\ tried \in [Callers -> BOOLEAN] /\ mark \in [Callers -> 0..MaxCredentials]
    /\ authCache \in 0..MaxCredentials /\ personCache \in [of : 0..MaxCredentials, via : SUBSET (0..MaxCredentials)]
    /\ via \subseteq 0..MaxCredentials /\ raised \subseteq Callers

\* A session file only gives way to a newer one, so what was read from an
\* older file never bears the mark of the present one.
MarksKnown ==
    /\ credential <= minted
    /\ unproved # 0 => unproved = minted /\ unproved > credential
    /\ \A p \in Callers : mark[p] <= credential
    /\ authCache <= credential /\ personCache.of <= credential
    /\ galleryAt["renew"] = "publish" \/ (galleryAt["renew"] \in {"ask", "ok"} /\ goal["renew"] = "prove") => unproved # 0
    /\ \A p \in Callers : goal[p] = "prove" => p = "renew"
    /\ \A p \in Callers : goal[p] = "page" => p = "catalog"
    /\ \A p \in Callers : galleryAt[p] \in {"read", "compare", "expiry", "people"} => p \in {"status", "catalog"}
    /\ \A p \in Callers : goal[p] = "access" => p \in {"status", "catalog"}
    /\ \A p \in Callers : galleryAt[p] \in {"compare", "expiry"} => mark[p] # 0
    /\ \A p \in Callers : galleryAt[p] \in {"ask", "ok"} /\ goal[p] = "access" => mark[p] # 0
    /\ galleryAt["catalog"] = "expiry" => authCache # 0

AnswersKnown ==
    /\ galleryAt["renew"] = "ok" /\ goal["renew"] = "prove" => unproved \in answered
    /\ \A p \in Callers : galleryAt[p] = "ok" /\ goal[p] = "access" /\ mark[p] = credential => credential \in answered
    /\ galleryAt["catalog"] = "ask" /\ goal["catalog"] = "page" /\ mark["catalog"] = credential => via \subseteq {credential}
    /\ galleryAt["catalog"] = "ok" /\ goal["catalog"] = "page" /\ mark["catalog"] = credential => via = {credential}

GalleryInv == GalleryTypes /\ MarksKnown /\ AnswersKnown /\ GallerySound

\* Where a caller goes, the others stay.
LEMMA GoesThere ==
  ASSUME GalleryTypes, NEW p \in Callers, NEW place \in GalleryPlaces, Goes(p, place)
  PROVE  /\ galleryAt' \in [Callers -> GalleryPlaces] /\ goal' = goal /\ tried' = tried /\ mark' = mark
         /\ galleryAt'[p] = place /\ \A q \in Callers : q # p => galleryAt'[q] = galleryAt[q]
  BY DEF Goes, GalleryTypes

LEMMA AsksFor ==
  ASSUME GalleryTypes, NEW p \in Callers, NEW g \in Goals, Requests(p, g)
  PROVE  /\ galleryAt' \in [Callers -> GalleryPlaces] /\ goal' \in [Callers -> Goals]
         /\ tried' \in [Callers -> BOOLEAN] /\ mark' = mark
         /\ galleryAt'[p] = "ask" /\ goal'[p] = g
         /\ \A q \in Callers : q # p => galleryAt'[q] = galleryAt[q] /\ goal'[q] = goal[q]
  BY DEF Requests, GalleryTypes, GalleryPlaces

LEMMA RestsNow ==
  ASSUME GalleryTypes, NEW p \in Callers, Idle(p)
  PROVE  /\ galleryAt' \in [Callers -> GalleryPlaces] /\ goal' \in [Callers -> Goals]
         /\ tried' \in [Callers -> BOOLEAN] /\ mark' \in [Callers -> 0..MaxCredentials]
         /\ galleryAt'[p] = "idle" /\ goal'[p] = "none" /\ mark'[p] = 0
         /\ \A q \in Callers : q # p => galleryAt'[q] = galleryAt[q] /\ goal'[q] = goal[q] /\ mark'[q] = mark[q]
  BY GalleryAssumption DEF Idle, GalleryTypes, GalleryPlaces, Goals

LEMMA OldestMark == 0 \in 0..MaxCredentials /\ MaxCredentials \in Nat
  BY GalleryAssumption

LEMMA AttemptVouched == ASSUME GalleryInv, NEW p \in Callers, Attempt(p) PROVE GalleryInv'
<1>1. /\ galleryAt[p] = "ask" /\ Asked(p) # 0 /\ Asked(p) \in 0..MaxCredentials
      /\ UNCHANGED <<credential, life, granted, minted, unproved, mark, authCache, personCache, raised, goal>>
  BY DEF Attempt, store, caches, Usable, GalleryInv, GalleryTypes, Asked
<1>2. CASE /\ answered' = answered \cup {Asked(p)} /\ via' = (IF goal[p] = "page" THEN via \cup {Asked(p)} ELSE via)
           /\ galleryAt' = [galleryAt EXCEPT ![p] = "ok"] /\ UNCHANGED tried
  <2>1. /\ galleryAt' \in [Callers -> GalleryPlaces] /\ galleryAt'[p] = "ok"
        /\ \A q \in Callers : q # p => galleryAt'[q] = galleryAt[q]
    BY <1>2 DEF GalleryInv, GalleryTypes, GalleryPlaces
  <2>2. GalleryTypes'
    BY <1>1, <1>2, <2>1 DEF GalleryInv, GalleryTypes
  <2>3. MarksKnown'
    BY <1>1, <1>2, <2>1 DEF GalleryInv, MarksKnown, Callers
  <2>4. Asked(p) = (IF goal[p] = "prove" THEN unproved ELSE credential)
    BY DEF Asked
  <2>5. via' # via => p = "catalog" /\ goal[p] = "page" /\ via' = via \cup {credential}
    BY <1>2, <2>4 DEF GalleryInv, MarksKnown
  <2>6. AnswersKnown'
    <3>1. galleryAt'["renew"] = "ok" /\ goal'["renew"] = "prove" => unproved' \in answered'
      BY <1>1, <1>2, <2>1, <2>4 DEF GalleryInv, AnswersKnown, Callers
    <3>2. \A q \in Callers : galleryAt'[q] = "ok" /\ goal'[q] = "access" /\ mark'[q] = credential' => credential' \in answered'
      BY <1>1, <1>2, <2>1, <2>4 DEF GalleryInv, AnswersKnown
    <3>3. galleryAt'["catalog"] = "ask" /\ goal'["catalog"] = "page" /\ mark'["catalog"] = credential' => via' \subseteq {credential'}
      BY <1>1, <2>1, <2>5 DEF GalleryInv, AnswersKnown, Callers
    <3>4. galleryAt'["catalog"] = "ok" /\ goal'["catalog"] = "page" /\ mark'["catalog"] = credential' => via' = {credential'}
      <4>1. CASE p = "catalog"
        BY <1>1, <1>2, <2>1, <2>4, <4>1 DEF GalleryInv, AnswersKnown, Callers
      <4>2. CASE p # "catalog"
        BY <1>1, <2>1, <2>5, <4>2 DEF GalleryInv, AnswersKnown, Callers
      <4>3. QED
        BY <4>1, <4>2
    <3>5. QED
      BY <3>1, <3>2, <3>3, <3>4 DEF AnswersKnown
  <2>7. GallerySound'
    BY <1>1, <1>2, <2>1 DEF GalleryInv, GallerySound, Callers
  <2>8. QED
    BY <2>2, <2>3, <2>6, <2>7 DEF GalleryInv
<1>3. CASE tried' = [tried EXCEPT ![p] = TRUE] /\ UNCHANGED <<answered, via, galleryAt>>
  BY <1>1, <1>3 DEF GalleryInv, GalleryTypes, MarksKnown, AnswersKnown, GallerySound
<1>4. QED
  BY <1>2, <1>3 DEF Attempt

LEMMA RequestFailsVouched == ASSUME GalleryInv, NEW p \in Callers, RequestFails(p) PROVE GalleryInv'
<1>1. /\ galleryAt' \in [Callers -> GalleryPlaces] /\ goal' \in [Callers -> Goals]
      /\ tried' \in [Callers -> BOOLEAN] /\ mark' \in [Callers -> 0..MaxCredentials]
      /\ galleryAt'[p] = "idle" /\ goal'[p] = "none" /\ mark'[p] = 0
      /\ \A q \in Callers : q # p => galleryAt'[q] = galleryAt[q] /\ goal'[q] = goal[q] /\ mark'[q] = mark[q]
  BY RestsNow DEF RequestFails, GalleryInv
<1>2. /\ unproved' = (IF p = "renew" THEN 0 ELSE unproved)
      /\ via' = via \/ (p = "catalog" /\ via' = {})
      /\ UNCHANGED <<credential, life, granted, minted, answered, authCache, personCache, raised>>
  BY DEF RequestFails, caches, reading, GalleryInv, MarksKnown
<1>3. GalleryTypes'
  BY <1>1, <1>2, OldestMark DEF GalleryInv, GalleryTypes
<1>4. MarksKnown'
  BY <1>1, <1>2, OldestMark DEF GalleryInv, MarksKnown, GalleryTypes, Callers
<1>5. AnswersKnown'
  BY <1>1, <1>2 DEF GalleryInv, AnswersKnown, Callers
<1>6. GallerySound'
  BY <1>1, <1>2 DEF GalleryInv, GallerySound, Callers
<1>7. QED
  BY <1>3, <1>4, <1>5, <1>6 DEF GalleryInv

LEMMA RenewalAskedVouched == ASSUME GalleryInv, RenewalAsked PROVE GalleryInv'
<1> USE OldestMark, GoesThere, AsksFor, RestsNow DEF GalleryInv, RenewalAsked, At, Begins, Allowed, store, caches, callers,
           reading, Callers, GalleryPlaces, Goals
<1>1. GalleryTypes'
  BY DEF GalleryTypes, Credentials, NoPeople, MarksKnown, Asked
<1>2. MarksKnown'
  BY DEF MarksKnown, GalleryTypes, NoPeople, Asked
<1>3. AnswersKnown'
  BY DEF AnswersKnown, MarksKnown, GalleryTypes, Asked
<1>4. GallerySound'
  BY DEF GallerySound, AnswersKnown, MarksKnown, GalleryTypes, NoPeople, Asked
<1>5. QED
  BY <1>1, <1>2, <1>3, <1>4

LEMMA CheckOldVouched == ASSUME GalleryInv, CheckOld PROVE GalleryInv'
<1> USE OldestMark, GoesThere, AsksFor, RestsNow DEF GalleryInv, CheckOld, At, Begins, Allowed, store, caches, callers,
           reading, Callers, GalleryPlaces, Goals
<1>1. GalleryTypes'
  BY DEF GalleryTypes, Credentials, NoPeople, MarksKnown, Asked
<1>2. MarksKnown'
  BY DEF MarksKnown, GalleryTypes, NoPeople, Asked
<1>3. AnswersKnown'
  BY DEF AnswersKnown, MarksKnown, GalleryTypes, Asked
<1>4. GallerySound'
  BY DEF GallerySound, AnswersKnown, MarksKnown, GalleryTypes, Credentials
<1>5. QED
  BY <1>1, <1>2, <1>3, <1>4

LEMMA ReuseVouched == ASSUME GalleryInv, Reuse PROVE GalleryInv'
<1> USE OldestMark, GoesThere, AsksFor, RestsNow DEF GalleryInv, Reuse, At, Begins, Allowed, store, caches, callers,
           reading, Callers, GalleryPlaces, Goals
<1>1. GalleryTypes'
  BY DEF GalleryTypes, Credentials, NoPeople, MarksKnown, Asked
<1>2. MarksKnown'
  BY DEF MarksKnown, GalleryTypes, NoPeople, Asked
<1>3. AnswersKnown'
  BY DEF AnswersKnown, MarksKnown, GalleryTypes, Asked
<1>4. GallerySound'
  BY DEF GallerySound, AnswersKnown, MarksKnown, GalleryTypes, NoPeople, Asked
<1>5. QED
  BY <1>1, <1>2, <1>3, <1>4

LEMMA OldRefusedVouched == ASSUME GalleryInv, OldRefused PROVE GalleryInv'
<1> USE OldestMark, GoesThere, AsksFor, RestsNow DEF GalleryInv, OldRefused, At, Begins, Allowed, store, caches, callers,
           reading, Callers, GalleryPlaces, Goals
<1>1. GalleryTypes'
  BY DEF GalleryTypes, Credentials, NoPeople, MarksKnown, Asked
<1>2. MarksKnown'
  BY DEF MarksKnown, GalleryTypes, NoPeople, Asked
<1>3. AnswersKnown'
  BY DEF AnswersKnown, MarksKnown, GalleryTypes, Asked
<1>4. GallerySound'
  BY DEF GallerySound, AnswersKnown, MarksKnown, GalleryTypes, Credentials, Asked, Refused, Usable
<1>5. QED
  BY <1>1, <1>2, <1>3, <1>4

LEMMA MintVouched == ASSUME GalleryInv, Mint PROVE GalleryInv'
<1> USE OldestMark, GoesThere, AsksFor, RestsNow DEF GalleryInv, Mint, At, Begins, Allowed, store, caches, callers,
           reading, Callers, GalleryPlaces, Goals
<1>0. minted' \in 1..MaxCredentials /\ unproved' \in 0..MaxCredentials
  BY GalleryAssumption DEF GalleryTypes
<1>1. GalleryTypes'
  BY <1>0 DEF GalleryTypes
<1>2. MarksKnown'
  BY DEF MarksKnown, GalleryTypes, NoPeople, Asked
<1>3. AnswersKnown'
  BY DEF AnswersKnown, MarksKnown, GalleryTypes, Asked
<1>4. GallerySound'
  BY DEF GallerySound, AnswersKnown, MarksKnown, GalleryTypes, NoPeople, Asked
<1>5. QED
  BY <1>1, <1>2, <1>3, <1>4

LEMMA PublishGrantVouched == ASSUME GalleryInv, PublishGrant PROVE GalleryInv'
<1> USE OldestMark, GoesThere, AsksFor, RestsNow DEF GalleryInv, PublishGrant, At, Begins, Allowed, store, caches, callers,
           reading, Callers, GalleryPlaces, Goals
<1>1. GalleryTypes'
  BY DEF GalleryTypes, Credentials, NoPeople, MarksKnown, Asked
<1>2. MarksKnown'
  BY DEF MarksKnown, GalleryTypes, NoPeople, Asked
<1>3. AnswersKnown'
  BY DEF AnswersKnown, MarksKnown, GalleryTypes, Asked
<1>4. GallerySound'
  BY DEF GallerySound, AnswersKnown, MarksKnown, GalleryTypes, NoPeople, Asked
<1>5. QED
  BY <1>1, <1>2, <1>3, <1>4

LEMMA AdoptVouched == ASSUME GalleryInv, Adopt PROVE GalleryInv'
<1> USE OldestMark, GoesThere, AsksFor, RestsNow DEF GalleryInv, Adopt, At, Begins, Allowed, store, caches, callers,
           reading, Callers, GalleryPlaces, Goals
<1>1. GalleryTypes'
  BY DEF GalleryTypes, Credentials, NoPeople, MarksKnown, Asked
<1>2. MarksKnown'
  BY DEF MarksKnown, GalleryTypes, NoPeople, Asked
<1>3. AnswersKnown'
  BY DEF AnswersKnown, MarksKnown, GalleryTypes, Asked
<1>4. GallerySound'
  BY DEF GallerySound, AnswersKnown, MarksKnown, GalleryTypes, NoPeople, Asked
<1>5. QED
  BY <1>1, <1>2, <1>3, <1>4

LEMMA ClearCachesVouched == ASSUME GalleryInv, ClearCaches PROVE GalleryInv'
<1> USE OldestMark, GoesThere, AsksFor, RestsNow DEF GalleryInv, ClearCaches, At, Begins, Allowed, store, caches, callers,
           reading, Callers, GalleryPlaces, Goals
<1>1. GalleryTypes'
  BY DEF GalleryTypes, Credentials, NoPeople, MarksKnown, Asked
<1>2. MarksKnown'
  BY DEF MarksKnown, GalleryTypes, NoPeople, Asked
<1>3. AnswersKnown'
  BY DEF AnswersKnown, MarksKnown, GalleryTypes, Asked
<1>4. GallerySound'
  BY DEF GallerySound, AnswersKnown, MarksKnown, GalleryTypes, NoPeople, Asked
<1>5. QED
  BY <1>1, <1>2, <1>3, <1>4

LEMMA AccessAskedVouched == ASSUME GalleryInv, NEW p \in {"status", "catalog"}, AccessAsked(p) PROVE GalleryInv'
<1> USE OldestMark, GoesThere, AsksFor, RestsNow DEF GalleryInv, AccessAsked, At, Begins, Allowed, store, caches, callers,
           reading, Callers, GalleryPlaces, Goals
<1>1. GalleryTypes'
  BY DEF GalleryTypes, Credentials, NoPeople, MarksKnown, Asked
<1>2. MarksKnown'
  BY DEF MarksKnown, GalleryTypes, NoPeople, Asked
<1>3. AnswersKnown'
  BY DEF AnswersKnown, MarksKnown, GalleryTypes, Asked
<1>4. GallerySound'
  BY DEF GallerySound, AnswersKnown, MarksKnown, GalleryTypes, NoPeople, Asked
<1>5. QED
  BY <1>1, <1>2, <1>3, <1>4

LEMMA ReadMarkVouched == ASSUME GalleryInv, NEW p \in {"status", "catalog"}, ReadMark(p) PROVE GalleryInv'
<1>1. galleryAt[p] = "read" /\ UNCHANGED <<credential, life, granted, minted, unproved, answered, authCache, personCache, via, raised>>
  BY DEF ReadMark, store, caches, reading
<1>2. \/ Idle(p)
      \/ credential # 0 /\ mark' = [mark EXCEPT ![p] = credential] /\ goal' = goal /\ tried' = tried
         /\ galleryAt' = [galleryAt EXCEPT ![p] = "compare"]
  BY DEF ReadMark, Usable
<1>3. /\ galleryAt' \in [Callers -> GalleryPlaces] /\ goal' \in [Callers -> Goals]
      /\ tried' \in [Callers -> BOOLEAN] /\ mark' \in [Callers -> 0..MaxCredentials]
      /\ \/ galleryAt'[p] = "idle" /\ goal'[p] = "none" /\ mark'[p] = 0
         \/ galleryAt'[p] = "compare" /\ goal'[p] = goal[p] /\ mark'[p] = credential /\ credential # 0
      /\ \A q \in Callers : q # p => galleryAt'[q] = galleryAt[q] /\ goal'[q] = goal[q] /\ mark'[q] = mark[q]
  BY <1>1, <1>2, RestsNow DEF GalleryInv, GalleryTypes, GalleryPlaces, Callers
<1>4. GalleryTypes'
  BY <1>1, <1>3 DEF GalleryInv, GalleryTypes
<1>5. MarksKnown'
  BY <1>1, <1>3, OldestMark DEF GalleryInv, MarksKnown, GalleryTypes, Callers
<1>6. AnswersKnown'
  BY <1>1, <1>3 DEF GalleryInv, AnswersKnown, Callers
<1>7. GallerySound'
  BY <1>1, <1>3 DEF GalleryInv, GallerySound, Callers
<1>8. QED
  BY <1>4, <1>5, <1>6, <1>7 DEF GalleryInv

LEMMA CompareMarkVouched == ASSUME GalleryInv, NEW p \in {"status", "catalog"}, CompareMark(p) PROVE GalleryInv'
<1> USE OldestMark, GoesThere, AsksFor, RestsNow DEF GalleryInv, CompareMark, At, Begins, Allowed, store, caches, callers,
           reading, Callers, GalleryPlaces, Goals
<1>1. GalleryTypes'
  BY DEF GalleryTypes, Credentials, NoPeople, MarksKnown, Asked
<1>2. MarksKnown'
  BY DEF MarksKnown, GalleryTypes, NoPeople, Asked
<1>3. AnswersKnown'
  BY DEF AnswersKnown, MarksKnown, GalleryTypes, Asked
<1>4. GallerySound'
  BY DEF GallerySound, AnswersKnown, MarksKnown, GalleryTypes, NoPeople, Asked
<1>5. QED
  BY <1>1, <1>2, <1>3, <1>4

LEMMA CacheExpiryVouched == ASSUME GalleryInv, NEW p \in {"status", "catalog"}, CacheExpiry(p) PROVE GalleryInv'
<1> USE OldestMark, GoesThere, AsksFor, RestsNow DEF GalleryInv, CacheExpiry, At, Begins, Allowed, store, caches, callers,
           reading, Callers, GalleryPlaces, Goals
<1>0. /\ galleryAt' \in [Callers -> GalleryPlaces] /\ goal' \in [Callers -> Goals]
      /\ tried' \in [Callers -> BOOLEAN] /\ mark' \in [Callers -> 0..MaxCredentials] /\ raised' \subseteq Callers
  <2>1. CASE authCache = 0
    <3>1. Idle(p) /\ raised' = raised \cup {p} /\ raised \subseteq Callers
      BY <2>1 DEF GalleryTypes
    <3>2. raised' \subseteq Callers
      BY <3>1
    <3>3. QED
      BY <3>1, <3>2
  <2>2. CASE authCache # 0
    BY <2>2 DEF GalleryTypes
  <2>3. QED
    BY <2>1, <2>2
<1>1. GalleryTypes'
  BY <1>0 DEF GalleryTypes
<1>2. MarksKnown'
  BY DEF MarksKnown, GalleryTypes, NoPeople, Asked
<1>3. AnswersKnown'
  BY DEF AnswersKnown, MarksKnown, GalleryTypes, Asked
<1>4. GallerySound'
  BY DEF GallerySound, AnswersKnown, MarksKnown, GalleryTypes, NoPeople, Asked
<1>5. QED
  BY <1>1, <1>2, <1>3, <1>4

LEMMA RememberVouched == ASSUME GalleryInv, NEW p \in {"status", "catalog"}, Remember(p) PROVE GalleryInv'
<1> USE OldestMark, GoesThere, AsksFor, RestsNow DEF GalleryInv, Remember, At, Begins, Allowed, store, caches, callers,
           reading, Callers, GalleryPlaces, Goals
<1>1. GalleryTypes'
  BY DEF GalleryTypes, Credentials, NoPeople, MarksKnown, Asked
<1>2. MarksKnown'
  BY DEF MarksKnown, GalleryTypes, NoPeople, Asked
<1>3. AnswersKnown'
  BY DEF AnswersKnown, MarksKnown, GalleryTypes, Asked
<1>4. GallerySound'
  BY DEF GallerySound, AnswersKnown, MarksKnown, GalleryTypes, NoPeople, Asked
<1>5. QED
  BY <1>1, <1>2, <1>3, <1>4

LEMMA ListPeopleVouched == ASSUME GalleryInv, ListPeople PROVE GalleryInv'
<1> USE OldestMark, GoesThere, AsksFor, RestsNow DEF GalleryInv, ListPeople, At, Begins, Allowed, store, caches, callers,
           reading, Callers, GalleryPlaces, Goals
<1>1. GalleryTypes'
  BY DEF GalleryTypes, Credentials, NoPeople, MarksKnown, Asked
<1>2. MarksKnown'
  BY DEF MarksKnown, GalleryTypes, NoPeople, Asked
<1>3. AnswersKnown'
  BY DEF AnswersKnown, MarksKnown, GalleryTypes, Asked
<1>4. GallerySound'
  BY DEF GallerySound, AnswersKnown, MarksKnown, GalleryTypes, NoPeople, Asked
<1>5. QED
  BY <1>1, <1>2, <1>3, <1>4

LEMMA PageReadVouched == ASSUME GalleryInv, PageRead PROVE GalleryInv'
<1> USE OldestMark, GoesThere, AsksFor, RestsNow DEF GalleryInv, PageRead, At, Begins, Allowed, store, caches, callers,
           reading, Callers, GalleryPlaces, Goals
<1>0. [of |-> mark["catalog"], via |-> via] \in [of : 0..MaxCredentials, via : SUBSET (0..MaxCredentials)]
  BY DEF GalleryTypes
<1>1. GalleryTypes'
  BY <1>0 DEF GalleryTypes, Credentials
<1>2. MarksKnown'
  BY DEF MarksKnown, GalleryTypes, NoPeople, Asked
<1>3. AnswersKnown'
  BY DEF AnswersKnown, MarksKnown, GalleryTypes, Asked
<1>4. GallerySound'
  BY DEF GallerySound, AnswersKnown, MarksKnown, GalleryTypes, NoPeople, Asked
<1>5. QED
  BY <1>1, <1>2, <1>3, <1>4

LEMMA AssetAskedVouched == ASSUME GalleryInv, AssetAsked PROVE GalleryInv'
<1> USE OldestMark, GoesThere, AsksFor, RestsNow DEF GalleryInv, AssetAsked, At, Begins, Allowed, store, caches, callers,
           reading, Callers, GalleryPlaces, Goals
<1>1. GalleryTypes'
  BY DEF GalleryTypes, Credentials, NoPeople, MarksKnown, Asked
<1>2. MarksKnown'
  BY DEF MarksKnown, GalleryTypes, NoPeople, Asked
<1>3. AnswersKnown'
  BY DEF AnswersKnown, MarksKnown, GalleryTypes, Asked
<1>4. GallerySound'
  BY DEF GallerySound, AnswersKnown, MarksKnown, GalleryTypes, NoPeople, Asked
<1>5. QED
  BY <1>1, <1>2, <1>3, <1>4

LEMMA AssetReadVouched == ASSUME GalleryInv, AssetRead PROVE GalleryInv'
<1> USE OldestMark, GoesThere, AsksFor, RestsNow DEF GalleryInv, AssetRead, At, Begins, Allowed, store, caches, callers,
           reading, Callers, GalleryPlaces, Goals
<1>1. GalleryTypes'
  BY DEF GalleryTypes, Credentials, NoPeople, MarksKnown, Asked
<1>2. MarksKnown'
  BY DEF MarksKnown, GalleryTypes, NoPeople, Asked
<1>3. AnswersKnown'
  BY DEF AnswersKnown, MarksKnown, GalleryTypes, Asked
<1>4. GallerySound'
  BY DEF GallerySound, AnswersKnown, MarksKnown, GalleryTypes, NoPeople, Asked
<1>5. QED
  BY <1>1, <1>2, <1>3, <1>4

LEMMA AgesVouched == ASSUME GalleryInv, NEW c \in Credentials, Ages(c) PROVE GalleryInv'
<1> USE OldestMark, GoesThere, AsksFor, RestsNow DEF GalleryInv, Ages, At, Begins, Allowed, store, caches, callers,
           reading, Callers, GalleryPlaces, Goals
<1>1. GalleryTypes'
  BY DEF GalleryTypes, Credentials, NoPeople, MarksKnown, Asked
<1>2. MarksKnown'
  BY DEF MarksKnown, GalleryTypes, NoPeople, Asked
<1>3. AnswersKnown'
  BY DEF AnswersKnown, MarksKnown, GalleryTypes, Asked
<1>4. GallerySound'
  BY DEF GallerySound, AnswersKnown, MarksKnown, GalleryTypes, NoPeople, Asked
<1>5. QED
  BY <1>1, <1>2, <1>3, <1>4

LEMMA RevokedVouched == ASSUME GalleryInv, NEW c \in Credentials, Revoked(c) PROVE GalleryInv'
<1> USE OldestMark, GoesThere, AsksFor, RestsNow DEF GalleryInv, Revoked, At, Begins, Allowed, store, caches, callers,
           reading, Callers, GalleryPlaces, Goals
<1>1. GalleryTypes'
  BY DEF GalleryTypes, Credentials, NoPeople, MarksKnown, Asked
<1>2. MarksKnown'
  BY DEF MarksKnown, GalleryTypes, NoPeople, Asked
<1>3. AnswersKnown'
  BY DEF AnswersKnown, MarksKnown, GalleryTypes, Asked
<1>4. GallerySound'
  BY DEF GallerySound, AnswersKnown, MarksKnown, GalleryTypes, NoPeople, Asked
<1>5. QED
  BY <1>1, <1>2, <1>3, <1>4

LEMMA GalleryExitVouched == ASSUME GalleryInv, GalleryExit PROVE GalleryInv'
<1> USE OldestMark, GoesThere, AsksFor, RestsNow DEF GalleryInv, GalleryExit, At, Begins, Allowed, store, caches, callers,
           reading, Callers, GalleryPlaces, Goals
<1>1. GalleryTypes'
  BY DEF GalleryTypes, Credentials, NoPeople, MarksKnown, Asked
<1>2. MarksKnown'
  BY DEF MarksKnown, GalleryTypes, NoPeople, Asked
<1>3. AnswersKnown'
  BY DEF AnswersKnown, MarksKnown, GalleryTypes, Asked
<1>4. GallerySound'
  BY DEF GallerySound, AnswersKnown, MarksKnown, GalleryTypes, NoPeople, Asked
<1>5. QED
  BY <1>1, <1>2, <1>3, <1>4

LEMMA GalleryInit == Init => GalleryInv
<1> SUFFICES ASSUME InitGallery, credential \in {0, 1}, granted \in {{}, {1}} PROVE GalleryInv
  BY DEF Init, Start
<1> USE GalleryAssumption DEF InitGallery
<1>1. GalleryTypes
  BY DEF GalleryTypes, GalleryPlaces, Goals, Credentials, NoPeople
<1>2. MarksKnown
  BY DEF MarksKnown, NoPeople, Callers
<1>3. AnswersKnown /\ GallerySound
  BY DEF AnswersKnown, GallerySound, NoPeople, Callers
<1>4. QED
  BY <1>1, <1>2, <1>3 DEF GalleryInv

LEMMA GalleryStep == GalleryInv /\ [Next]_vars => GalleryInv'
<1> SUFFICES ASSUME GalleryInv, [GalleryNext]_galleryVars PROVE GalleryInv'
  BY DEF Next, vars, parts
<1>1. CASE UNCHANGED galleryVars
  BY <1>1 DEF galleryVars, store, callers, caches, reading, GalleryInv, GalleryTypes, MarksKnown, AnswersKnown, GallerySound
<1>2. QED
  BY <1>1, AttemptVouched, RequestFailsVouched, RenewalAskedVouched, CheckOldVouched, ReuseVouched,
     OldRefusedVouched, MintVouched, PublishGrantVouched, AdoptVouched, ClearCachesVouched, AccessAskedVouched,
     ReadMarkVouched, CompareMarkVouched, CacheExpiryVouched, RememberVouched, ListPeopleVouched,
     PageReadVouched, AssetAskedVouched, AssetReadVouched, AgesVouched, RevokedVouched, GalleryExitVouched
     DEF GalleryNext

\* What the audit of a try-on and the record of its repair say was observed
\* (hq_tryon_conditioning.py, hq_body_repair.py, hq_repair_service.py), and the
\* gallery vouches for no session that the private API has not answered
\* (hq_service.py, hq_authorization.py), for any number of steps, credentials
\* and pages.
THEOREM HqIsHonest == Spec => []HqHonest
<1> DEFINE Inv == ConditioningInv /\ RepairInv /\ GalleryInv
<1>1. Init => Inv
  BY ConditioningInit, RepairInit, GalleryInit
<1>2. Inv /\ [Next]_vars => Inv'
  BY ConditioningStep, RepairStep, GalleryStep
<1>3. Inv => HqHonest
  BY RepairIsHonest DEF ConditioningInv, ConditioningTypes, GalleryInv, HqHonest
<1>4. QED
  BY <1>1, <1>2, <1>3, PTL DEF Spec

-----------------------------------------------------------------------------
(* The edited versions of an image.                                         *)

VersionStates == Active \cup {"absent", "complete", "failed", "cancelled"}
VersionRows == [state : VersionStates, parent : Base \cup Versions, upscale : BOOLEAN,
                request : RequestIds \cup {NoVersion}]
VersionSteps == {"idle", "begin", "work", "finish", "link", "record", "except", "clean"}

VersionTypes ==
    /\ RefinementsTypeOK /\ row \in [Versions -> VersionRows] /\ step \in VersionSteps
    /\ task \in [Versions -> {"none", "queued", "running", "done"}]

\* The lane works on one version, whose record it alone ends; a version whose
\* task waits was not cancelled.
LaneOwns ==
    /\ \A v \in Versions : task[v] = "running" <=> running = v
    /\ \A v \in Versions : task[v] = "none" => row[v] = Absent /\ v \notin cancels
    /\ \A v \in Versions : task[v] = "queued" => row[v].state = "queued" /\ v \notin cancels
    /\ step = "begin" => row[running].state = "queued"
    /\ step \in {"work", "finish", "link", "record"} => row[running].state = "running"
    /\ step = "except" => row[running].state \in Active
    /\ step \in {"link", "record"} => running \notin cancels
    /\ step = "record" => running \in png

\* An image that is there stays until the deletion, which waits for the lane.
Stands(v) == v \in Base \/ (v \in Versions /\ row[v].state = "complete" /\ v \in png)

ImagesKnown ==
    /\ \A v \in Versions : row[v].state = "complete" =>
         v \in png /\ v \notin cancels /\ Stands(row[v].parent) /\ task[v] \in {"running", "done"}
    /\ Stands(selected)
    /\ step \in {"work", "finish", "link", "record"} => Stands(row[running].parent)
    /\ source = "deleted" => /\ step \in {"idle", "clean"} /\ png = {} /\ pending = {}
                             /\ \A v \in Versions : row[v] = Absent

VersionsInv == VersionTypes /\ LaneOwns /\ ImagesKnown

LEMMA StatesThere == {"queued", "running", "absent", "complete", "failed", "cancelled"} \subseteq VersionStates
  BY DEF VersionStates, Active

LEMMA AbsentRow ==
  /\ NoVersion \notin Versions
  /\ Absent \in VersionRows /\ Absent.state = "absent" /\ Absent.parent = "result" /\ "result" \in Base
  BY RefinementAssumption DEF Absent, VersionRows, VersionStates, Base

LEMMA RowEnds ==
  ASSUME NEW entry \in VersionRows, NEW s \in VersionStates
  PROVE  /\ [entry EXCEPT !.state = s] \in VersionRows /\ [entry EXCEPT !.state = s].state = s
         /\ [entry EXCEPT !.state = s].parent = entry.parent
  BY DEF VersionRows

LEMMA RowSet ==
  ASSUME VersionTypes, NEW v \in Versions, NEW s \in VersionStates, row' = [row EXCEPT ![v].state = s]
  PROVE  /\ row' \in [Versions -> VersionRows] /\ row'[v].state = s /\ row'[v].parent = row[v].parent
         /\ \A w \in Versions : w # v => row'[w] = row[w]
<1>1. row[v] \in VersionRows /\ row' = [row EXCEPT ![v] = [row[v] EXCEPT !.state = s]]
  BY DEF VersionTypes
<1>2. QED
  BY <1>1, RowEnds DEF VersionTypes

\* Reading ends what was interrupted and changes nothing else.
LEMMA SeenRow ==
  ASSUME VersionTypes, NEW v \in Versions
  PROVE  /\ Seen(v) \in VersionRows /\ Seen(v).parent = row[v].parent /\ AllSeen[v] = Seen(v)
         /\ row[v].state \notin Active \/ task[v] \in {"queued", "running"} => Seen(v) = row[v]
         /\ row[v].state \in Active /\ task[v] \notin {"queued", "running"} => Seen(v).state = "failed"
<1>1. row[v] \in VersionRows /\ "failed" \in VersionStates
  BY DEF VersionTypes, VersionStates
<1>2. AllSeen[v] = Seen(v)
  BY DEF AllSeen
<1>3. QED
  BY <1>1, <1>2, RowEnds DEF Seen

LEMMA AllSeenRows == ASSUME VersionTypes PROVE AllSeen \in [Versions -> VersionRows]
  BY SeenRow DEF AllSeen

LEMMA ImageThere == ASSUME VersionTypes, NEW v PROVE HasImage(v) <=> Stands(v)
<1>1. ASSUME v \in Versions PROVE Seen(v).state = "complete" <=> row[v].state = "complete"
  BY <1>1, SeenRow DEF Active
<1>2. QED
  BY <1>1 DEF HasImage, Stands

LEMMA VersionsAreSound == VersionsInv => VersionsSound
  BY ImageThere DEF VersionsInv, VersionTypes, RefinementsTypeOK, ImagesKnown, VersionsSound

\* A change of records that ends no version well and begins none.
LEMMA RecordsSeen ==
  ASSUME VersionsInv, row' = AllSeen, source = "present",
         UNCHANGED <<source, png, pending, selected, task, cancels, step, running>>
  PROVE  VersionsInv'
<1>1. \A v \in Versions :
         /\ row'[v] \in VersionRows /\ row'[v].parent = row[v].parent
         /\ row[v].state \notin Active \/ task[v] \in {"queued", "running"} => row'[v] = row[v]
         /\ row[v].state \in Active /\ task[v] \notin {"queued", "running"} => row'[v].state = "failed"
  BY SeenRow DEF VersionsInv
<1>2. VersionTypes'
  BY <1>1, AllSeenRows DEF VersionsInv, VersionTypes, RefinementsTypeOK, VersionRows, VersionStates
<1>3. LaneOwns'
  BY <1>1, AbsentRow DEF VersionsInv, VersionTypes, RefinementsTypeOK, LaneOwns, Active
<1>4. ImagesKnown'
  BY <1>1 DEF VersionsInv, VersionTypes, RefinementsTypeOK, LaneOwns, ImagesKnown, Stands, Active
<1>5. QED
  BY <1>2, <1>3, <1>4 DEF VersionsInv

LEMMA LookSound == ASSUME VersionsInv, Look PROVE VersionsInv'
  BY RecordsSeen DEF Look, versionLane

LEMMA SubmitVersionSound ==
  ASSUME VersionsInv, NEW v \in Versions, NEW p \in Base \cup Versions, NEW up \in BOOLEAN, NEW r \in RequestIds,
         SubmitVersion(v, p, up, r)
  PROVE  VersionsInv'
<1>1. /\ ~VersionLocked /\ source = "present" /\ row[v] = Absent /\ task[v] = "none"
      /\ Stands(p) /\ UNCHANGED <<source, png, pending, selected, cancels, running, step>>
  BY ImageThere DEF SubmitVersion, Editable, versionLane, VersionsInv
<1>2. CASE row' = AllSeen /\ UNCHANGED task
  BY <1>1, <1>2, RecordsSeen
<1>3. CASE /\ row' = [AllSeen EXCEPT ![v] = [state |-> "queued", parent |-> p, upscale |-> up, request |-> r]]
           /\ task' = [task EXCEPT ![v] = "queued"]
  <2> DEFINE made == [state |-> "queued", parent |-> p, upscale |-> up, request |-> r]
  <2>1. made \in VersionRows /\ made.state = "queued" /\ made.parent = p
    BY DEF VersionRows, VersionStates, Active
  <2> HIDE DEF made
  <2>2. /\ row' \in [Versions -> VersionRows] /\ row'[v] = made
        /\ \A w \in Versions : w # v =>
             /\ row'[w].parent = row[w].parent
             /\ row[w].state \notin Active \/ task[w] \in {"queued", "running"} => row'[w] = row[w]
             /\ row[w].state \in Active /\ task[w] \notin {"queued", "running"} => row'[w].state = "failed"
    BY <1>3, <2>1, SeenRow, AllSeenRows DEF VersionsInv, made
  <2>3. /\ task' \in [Versions -> {"none", "queued", "running", "done"}] /\ task'[v] = "queued"
        /\ \A w \in Versions : w # v => task'[w] = task[w]
    BY <1>3 DEF VersionsInv, VersionTypes
  <2>4. VersionTypes'
    BY <1>1, <2>2, <2>3 DEF VersionsInv, VersionTypes, RefinementsTypeOK, VersionRows, VersionStates
  <2>5. running # v /\ v \notin cancels
    BY <1>1 DEF VersionsInv, LaneOwns
  <2>6. LaneOwns'
    BY <1>1, <2>1, <2>2, <2>3, <2>5, AbsentRow DEF VersionsInv, VersionTypes, RefinementsTypeOK, LaneOwns, Active
  <2>7. ImagesKnown'
    BY <1>1, <2>1, <2>2, <2>3, <2>5, AbsentRow
       DEF VersionsInv, VersionTypes, RefinementsTypeOK, LaneOwns, ImagesKnown, Stands, Active
  <2>8. QED
    BY <2>4, <2>6, <2>7 DEF VersionsInv
<1>4. QED
  BY <1>2, <1>3 DEF SubmitVersion

LEMMA SelectSound == ASSUME VersionsInv, NEW v \in Base \cup Versions, Select(v) PROVE VersionsInv'
<1>1. Stands(v)
  BY ImageThere DEF Select, VersionsInv
<1>2. QED
  BY <1>1 DEF Select, versionLane, VersionsInv, VersionTypes, RefinementsTypeOK, LaneOwns, ImagesKnown, Stands

LEMMA CancelVersionSound == ASSUME VersionsInv, NEW v \in Versions, CancelVersion(v) PROVE VersionsInv'
<1>1. /\ step \notin {"link", "record"} /\ cancels' = cancels \cup {v}
      /\ row[v].state \in Active /\ task[v] \in {"queued", "running"}
      /\ UNCHANGED <<source, png, pending, selected, running, step>>
  BY SeenRow DEF CancelVersion, VersionLocked, versionLane, VersionsInv, Active
<1>2. \/ task[v] = "running" /\ UNCHANGED <<task, row>>
      \/ task[v] = "queued" /\ task' = [task EXCEPT ![v] = "done"] /\ UNCHANGED row
      \/ task[v] = "queued" /\ task' = [task EXCEPT ![v] = "done"] /\ row' = [row EXCEPT ![v].state = "cancelled"]
  BY DEF CancelVersion
<1>3. /\ row' \in [Versions -> VersionRows] /\ task' \in [Versions -> {"none", "queued", "running", "done"}]
      /\ \A w \in Versions : w # v => row'[w] = row[w] /\ task'[w] = task[w]
      /\ row'[v].state \notin {"complete"} /\ task'[v] \in {"running", "done"}
      /\ task'[v] = "running" => task[v] = "running" /\ row'[v] = row[v]
      /\ running = v => row' = row /\ task' = task
      /\ running # v => task'[v] # "running"
  <2>1. /\ task' \in [Versions -> {"none", "queued", "running", "done"}] /\ task'[v] \in {"running", "done"}
        /\ \A w \in Versions : w # v => task'[w] = task[w]
        /\ task'[v] = "running" => task[v] = "running" /\ row' = row /\ task' = task
    BY <1>1, <1>2 DEF VersionsInv, VersionTypes
  <2>2. /\ row' \in [Versions -> VersionRows] /\ row'[v].state # "complete"
        /\ \A w \in Versions : w # v => row'[w] = row[w]
    BY <1>1, <1>2, RowSet, StatesThere DEF VersionsInv, VersionTypes, Active
  <2>3. task[v] = "running" <=> running = v
    BY DEF VersionsInv, LaneOwns
  <2>4. QED
    BY <1>2, <2>1, <2>2, <2>3
<1>4. VersionTypes'
  BY <1>1, <1>3 DEF VersionsInv, VersionTypes, RefinementsTypeOK, VersionRows, VersionStates
<1>5. LaneOwns'
  BY <1>1, <1>3 DEF VersionsInv, VersionTypes, RefinementsTypeOK, LaneOwns, Active
<1>6. ImagesKnown'
  BY <1>1, <1>3, AbsentRow DEF VersionsInv, VersionTypes, RefinementsTypeOK, LaneOwns, ImagesKnown, Stands, Active
<1>7. QED
  BY <1>4, <1>5, <1>6 DEF VersionsInv

\* Nothing waits and nothing runs but the end of an edit.
LEMMA DeleteSourceSound == ASSUME VersionsInv, DeleteSource PROVE VersionsInv'
<1>1. /\ source' = "deleted" /\ row' = [v \in Versions |-> Absent] /\ png' = {} /\ pending' = {} /\ selected' = "result"
      /\ NoneActive /\ ~VersionLocked /\ UNCHANGED <<task, cancels, running, step>>
  BY DEF DeleteSource, versionLane
<1>2. \A v \in Versions : row'[v] = Absent
  BY <1>1
<1>3. \A v \in Versions : task[v] \in {"queued", "running"} => row[v].state \notin Active
  BY <1>1, SeenRow DEF NoneActive, VersionsInv
<1>4. step \in {"idle", "clean"} /\ \A v \in Versions : task[v] # "queued"
  BY <1>3 DEF VersionsInv, VersionTypes, RefinementsTypeOK, LaneOwns, Active, VersionSteps
<1>5. VersionTypes'
  BY <1>1, <1>2, AbsentRow DEF VersionsInv, VersionTypes, RefinementsTypeOK
<1>6. LaneOwns' /\ ImagesKnown'
  BY <1>1, <1>2, <1>4, AbsentRow DEF VersionsInv, LaneOwns, ImagesKnown, Stands
<1>7. QED
  BY <1>5, <1>6 DEF VersionsInv

LEMMA TakeVersionSound == ASSUME VersionsInv, NEW v \in Versions, TakeVersion(v) PROVE VersionsInv'
<1>1. /\ step = "idle" /\ task[v] = "queued" /\ task' = [task EXCEPT ![v] = "running"] /\ running' = v /\ step' = "begin"
      /\ UNCHANGED <<source, row, png, pending, selected, cancels>>
  BY DEF TakeVersion, versionFiles
<1>2. /\ task' \in [Versions -> {"none", "queued", "running", "done"}] /\ task'[v] = "running"
      /\ \A w \in Versions : w # v => task'[w] = task[w]
  BY <1>1 DEF VersionsInv, VersionTypes
<1>3. VersionTypes'
  BY <1>1, <1>2, AbsentRow DEF VersionsInv, VersionTypes, RefinementsTypeOK, VersionSteps
<1>4. LaneOwns' /\ ImagesKnown'
  BY <1>1, <1>2, AbsentRow DEF VersionsInv, VersionTypes, RefinementsTypeOK, LaneOwns, ImagesKnown, Stands
<1>5. QED
  BY <1>3, <1>4 DEF VersionsInv

LEMMA LaneRuns ==
  ASSUME VersionsInv, step # "idle"
  PROVE  running \in Versions /\ task[running] = "running" /\ row[running] \in VersionRows
  BY AbsentRow DEF VersionsInv, VersionTypes, RefinementsTypeOK, LaneOwns

LEMMA BeginSound == ASSUME VersionsInv, Begin PROVE VersionsInv'
<1>1. /\ step = "begin" /\ running' = running /\ UNCHANGED <<source, png, pending, selected, task, cancels>>
      /\ \/ /\ step' = "work" /\ source = "present" /\ Stands(row[running].parent)
            /\ row' = [row EXCEPT ![running].state = "running"]
         \/ step' = "except" /\ row' = row
  BY ImageThere DEF Begin, StepTo, Editable, VersionsInv
<1>2. running \in Versions /\ task[running] = "running" /\ row[running] \in VersionRows /\ source = "present"
  BY <1>1, LaneRuns DEF VersionsInv, VersionTypes, RefinementsTypeOK, ImagesKnown
<1>3. /\ row' \in [Versions -> VersionRows] /\ row'[running].parent = row[running].parent
      /\ \A w \in Versions : w # running => row'[w] = row[w]
      /\ step' = "work" => row'[running].state = "running"
      /\ step' = "except" => row' = row
  BY <1>1, <1>2, RowSet, StatesThere DEF VersionsInv, VersionTypes
<1>4. VersionTypes'
  BY <1>1, <1>2, <1>3 DEF VersionsInv, VersionTypes, RefinementsTypeOK, VersionRows, VersionStates, VersionSteps
<1>5. LaneOwns'
  BY <1>1, <1>2, <1>3, AbsentRow DEF VersionsInv, VersionTypes, LaneOwns, Active
<1>6. ImagesKnown'
  BY <1>1, <1>2, <1>3, AbsentRow DEF VersionsInv, VersionTypes, RefinementsTypeOK, LaneOwns, ImagesKnown, Stands, Active
<1>7. QED
  BY <1>4, <1>5, <1>6 DEF VersionsInv

LEMMA RecordVersionSound == ASSUME VersionsInv, RecordVersion PROVE VersionsInv'
<1>1. /\ step = "record" /\ running' = running /\ UNCHANGED <<source, png, pending, selected, task, cancels>>
      /\ \/ step' = "clean" /\ row' = [row EXCEPT ![running].state = "complete"]
         \/ step' = "except" /\ row' = row
  BY DEF RecordVersion, StepTo
<1>2. running \in Versions /\ task[running] = "running" /\ row[running] \in VersionRows /\ source = "present"
  BY <1>1, LaneRuns DEF VersionsInv, VersionTypes, RefinementsTypeOK, ImagesKnown
<1>3. /\ row' \in [Versions -> VersionRows] /\ row'[running].parent = row[running].parent
      /\ \A w \in Versions : w # running => row'[w] = row[w]
      /\ row' # row => row'[running].state = "complete"
  BY <1>1, <1>2, RowSet, StatesThere DEF VersionsInv, VersionTypes
<1>4. VersionTypes'
  BY <1>1, <1>2, <1>3 DEF VersionsInv, VersionTypes, RefinementsTypeOK, VersionRows, VersionStates, VersionSteps
<1>5. LaneOwns'
  BY <1>1, <1>2, <1>3, AbsentRow DEF VersionsInv, VersionTypes, LaneOwns, Active
<1>6. ImagesKnown'
  BY <1>1, <1>2, <1>3, AbsentRow DEF VersionsInv, VersionTypes, RefinementsTypeOK, LaneOwns, ImagesKnown, Stands, Active
<1>7. QED
  BY <1>4, <1>5, <1>6 DEF VersionsInv

LEMMA ExceptVersionSound == ASSUME VersionsInv, ExceptVersion PROVE VersionsInv'
<1>1. /\ step = "except" /\ step' = "clean" /\ running' = running
      /\ UNCHANGED <<source, png, pending, selected, task, cancels>>
      /\ \/ row' = [row EXCEPT ![running].state = "cancelled"] \/ row' = [row EXCEPT ![running].state = "failed"]
         \/ row' = row
  BY DEF ExceptVersion, StepTo
<1>2. running \in Versions /\ task[running] = "running" /\ row[running] \in VersionRows /\ source = "present"
  BY <1>1, LaneRuns DEF VersionsInv, VersionTypes, RefinementsTypeOK, ImagesKnown
<1>3. /\ row' \in [Versions -> VersionRows] /\ row'[running].parent = row[running].parent
      /\ \A w \in Versions : w # running => row'[w] = row[w]
      /\ row' # row => row'[running].state = "cancelled" \/ row'[running].state = "failed" \/ row'[running] = row[running]
  BY <1>1, <1>2, RowSet, StatesThere DEF VersionsInv, VersionTypes
<1>4. VersionTypes'
  BY <1>1, <1>2, <1>3 DEF VersionsInv, VersionTypes, RefinementsTypeOK, VersionRows, VersionStates, VersionSteps
<1>5. LaneOwns'
  BY <1>1, <1>2, <1>3, AbsentRow DEF VersionsInv, VersionTypes, LaneOwns, Active
<1>6. ImagesKnown'
  BY <1>1, <1>2, <1>3, AbsentRow DEF VersionsInv, VersionTypes, RefinementsTypeOK, LaneOwns, ImagesKnown, Stands, Active
<1>7. QED
  BY <1>4, <1>5, <1>6 DEF VersionsInv

LEMMA EditsSafe == ASSUME VersionsInv, Edits PROVE VersionsInv'
<1>1. running \in Versions /\ source = "present" /\ UNCHANGED <<source, row, selected, task, cancels, running>>
  BY LaneRuns DEF Edits, StepTo, VersionsInv, VersionTypes, RefinementsTypeOK, ImagesKnown, versionFiles
<1>2. VersionTypes'
  BY <1>1 DEF Edits, StepTo, VersionsInv, VersionTypes, RefinementsTypeOK, VersionSteps, versionFiles
<1>3. LaneOwns'
  BY <1>1 DEF Edits, StepTo, VersionsInv, LaneOwns, Active, versionFiles
<1>4. ImagesKnown'
  BY <1>1 DEF Edits, StepTo, VersionsInv, ImagesKnown, Stands, versionFiles
<1>5. QED
  BY <1>2, <1>3, <1>4 DEF VersionsInv

LEMMA FinishSound == ASSUME VersionsInv, Finish PROVE VersionsInv'
<1>1. running \in Versions /\ source = "present" /\ UNCHANGED <<source, row, selected, task, cancels, running>>
  BY LaneRuns DEF Finish, StepTo, VersionsInv, VersionTypes, RefinementsTypeOK, ImagesKnown, versionFiles
<1>2. VersionTypes'
  BY <1>1 DEF Finish, StepTo, VersionsInv, VersionTypes, RefinementsTypeOK, VersionSteps, versionFiles
<1>3. LaneOwns'
  BY <1>1 DEF Finish, StepTo, VersionsInv, LaneOwns, Active, versionFiles
<1>4. ImagesKnown'
  BY <1>1 DEF Finish, StepTo, VersionsInv, ImagesKnown, Stands, versionFiles
<1>5. QED
  BY <1>2, <1>3, <1>4 DEF VersionsInv

LEMMA LinkSound == ASSUME VersionsInv, Link PROVE VersionsInv'
<1>1. running \in Versions /\ source = "present" /\ UNCHANGED <<source, row, selected, task, cancels, running>>
  BY LaneRuns DEF Link, StepTo, VersionsInv, VersionTypes, RefinementsTypeOK, ImagesKnown, versionFiles
<1>2. VersionTypes'
  BY <1>1 DEF Link, StepTo, VersionsInv, VersionTypes, RefinementsTypeOK, VersionSteps, versionFiles
<1>3. LaneOwns'
  BY <1>1 DEF Link, StepTo, VersionsInv, LaneOwns, Active, versionFiles
<1>4. ImagesKnown'
  BY <1>1 DEF Link, StepTo, VersionsInv, ImagesKnown, Stands, versionFiles
<1>5. QED
  BY <1>2, <1>3, <1>4 DEF VersionsInv

LEMMA CleanSound == ASSUME VersionsInv, Clean PROVE VersionsInv'
<1>1. /\ step = "clean" /\ running' = NoVersion /\ step' = "idle" /\ pending' = pending \ {running}
      /\ task' = [task EXCEPT ![running] = "done"] /\ UNCHANGED <<source, row, png, selected, cancels>>
  BY DEF Clean
<1>2. /\ running \in Versions /\ task' \in [Versions -> {"none", "queued", "running", "done"}]
      /\ task'[running] = "done" /\ \A w \in Versions : w # running => task'[w] = task[w]
  BY <1>1, LaneRuns DEF VersionsInv, VersionTypes
<1>3. VersionTypes'
  BY <1>1, <1>2 DEF VersionsInv, VersionTypes, RefinementsTypeOK, VersionSteps
<1>4. LaneOwns'
  BY <1>1, <1>2, AbsentRow DEF VersionsInv, LaneOwns
<1>5. ImagesKnown'
  BY <1>1, <1>2, AbsentRow DEF VersionsInv, ImagesKnown, Stands
<1>6. QED
  BY <1>3, <1>4, <1>5 DEF VersionsInv

LEMMA ExitSound == ASSUME VersionsInv, Exit PROVE VersionsInv'
<1>1. /\ running' = NoVersion /\ step' = "idle" /\ cancels' = {}
      /\ task' = [v \in Versions |-> IF task[v] = "none" THEN "none" ELSE "done"]
      /\ UNCHANGED <<source, row, png, pending, selected>>
  BY DEF Exit, versionFiles
<1>2. /\ task' \in [Versions -> {"none", "queued", "running", "done"}]
      /\ \A v \in Versions : task'[v] = IF task[v] = "none" THEN "none" ELSE "done"
  BY <1>1
<1>3. VersionTypes'
  BY <1>1, <1>2 DEF VersionsInv, VersionTypes, RefinementsTypeOK, VersionSteps
<1>4. LaneOwns'
  BY <1>1, <1>2, AbsentRow DEF VersionsInv, LaneOwns
<1>5. ImagesKnown'
  BY <1>1, <1>2, AbsentRow DEF VersionsInv, ImagesKnown, Stands
<1>6. QED
  BY <1>3, <1>4, <1>5 DEF VersionsInv

LEMMA VersionsInit == Init => VersionsInv
<1> SUFFICES ASSUME InitRefinements PROVE VersionsInv
  BY DEF Init
<1>1. VersionTypes
  BY AbsentRow DEF InitRefinements, VersionTypes, RefinementsTypeOK, VersionSteps
<1>2. LaneOwns /\ ImagesKnown
  BY AbsentRow DEF InitRefinements, LaneOwns, ImagesKnown, Stands
<1>3. QED
  BY <1>1, <1>2 DEF VersionsInv

LEMMA VersionsStep == VersionsInv /\ [Next]_vars => VersionsInv'
<1> SUFFICES ASSUME VersionsInv, [RefinementsNext]_refinementVars PROVE VersionsInv'
  BY DEF Next, vars, parts
<1>1. CASE UNCHANGED refinementVars
  BY <1>1 DEF refinementVars, versionFiles, versionLane, VersionsInv, VersionTypes, RefinementsTypeOK, LaneOwns,
              ImagesKnown, Stands
<1>2. QED
  BY <1>1, SubmitVersionSound, CancelVersionSound, TakeVersionSound, SelectSound, LookSound, DeleteSourceSound,
     BeginSound, EditsSafe, FinishSound, LinkSound, RecordVersionSound, ExceptVersionSound, CleanSound, ExitSound
     DEF RefinementsNext

-----------------------------------------------------------------------------
(* The warm worker.                                                         *)

WarmPhases == {"idle", "key", "reuse", "load", "apply", "cuda", "judge", "publish", "reply"}

WarmTypes ==
    /\ WarmTypeOK /\ phase \in WarmPhases /\ applied \in Nat
    /\ closedWarm \in BOOLEAN /\ onCuda \in BOOLEAN /\ late \in BOOLEAN /\ candidate \in {"none", "changed", "same"}

\* The processor was loaded for the key it is held under, has been used as often
\* as the worker has answered, and goes with the worker.
ProcessorKnown ==
    /\ closedWarm => processor = NoContent /\ phase = "idle"
    /\ ~closedWarm /\ processor = NoContent => restores = 0
    /\ processor # NoContent => processor = heldKey \/ late
    /\ phase = "load" => processor = NoContent \/ heldKey = wantedKey
    /\ phase \in {"apply", "cuda", "judge", "publish", "reply"} => processor # NoContent /\ heldKey = wantedKey
    /\ phase \in {"load", "apply", "cuda", "judge", "publish", "reply"} => restores < MaxRestores
    /\ processor # NoContent =>
         applied = restores + (IF phase \in {"cuda", "judge", "publish", "reply"} THEN 1 ELSE 0)

EditKnown ==
    /\ phase \in {"publish", "reply"} => candidate = "changed"
    /\ phase = "reply" => output = "ours"
    /\ phase # "idle" => reply = "none"

WarmInv == WarmTypes /\ ProcessorKnown /\ EditKnown /\ WarmSound

LEMMA AskRestoreKept == ASSUME WarmInv, AskRestore PROVE WarmInv'
<1> USE WarmAssumption DEF WarmInv, AskRestore, GivesUp, CloseWarm, GoesTo, processorVars, editVars, MayReuse
<1>1. WarmTypeOK'
  BY DEF WarmTypes, WarmTypeOK, WarmPhases, ProcessorKnown
<1>2. WarmTypes'
  BY <1>1 DEF WarmTypes, WarmPhases
<1>3. ProcessorKnown'
  BY DEF ProcessorKnown, WarmTypes, WarmTypeOK
<1>4. EditKnown' /\ WarmSound'
  BY DEF EditKnown, WarmSound, ProcessorKnown, WarmTypes, WarmTypeOK
<1>5. QED
  BY <1>2, <1>3, <1>4

LEMMA BuildKeyKept == ASSUME WarmInv, BuildKey PROVE WarmInv'
<1> USE WarmAssumption DEF WarmInv, BuildKey, GivesUp, CloseWarm, GoesTo, processorVars, editVars, MayReuse
<1>1. WarmTypeOK'
  BY DEF WarmTypes, WarmTypeOK, WarmPhases, ProcessorKnown
<1>2. WarmTypes'
  BY <1>1 DEF WarmTypes, WarmPhases
<1>3. ProcessorKnown'
  BY DEF ProcessorKnown, WarmTypes, WarmTypeOK
<1>4. EditKnown' /\ WarmSound'
  BY DEF EditKnown, WarmSound, ProcessorKnown, WarmTypes, WarmTypeOK
<1>5. QED
  BY <1>2, <1>3, <1>4

LEMMA CheckReuseKept == ASSUME WarmInv, CheckReuse PROVE WarmInv'
<1> USE WarmAssumption DEF WarmInv, CheckReuse, GivesUp, CloseWarm, GoesTo, processorVars, editVars, MayReuse
<1>1. WarmTypeOK'
  BY DEF WarmTypes, WarmTypeOK, WarmPhases, ProcessorKnown
<1>2. WarmTypes'
  BY <1>1 DEF WarmTypes, WarmPhases
<1>3. ProcessorKnown'
  BY DEF ProcessorKnown, WarmTypes, WarmTypeOK
<1>4. EditKnown' /\ WarmSound'
  BY DEF EditKnown, WarmSound, ProcessorKnown, WarmTypes, WarmTypeOK
<1>5. QED
  BY <1>2, <1>3, <1>4

LEMMA LoadProcessorKept == ASSUME WarmInv, LoadProcessor PROVE WarmInv'
<1>1. CASE GivesUp("failed")
  <2> USE <1>1, WarmAssumption DEF WarmInv, GivesUp, CloseWarm
  <2>1. WarmTypeOK'
    BY DEF WarmTypes, WarmTypeOK
  <2>2. WarmTypes'
    BY <2>1 DEF WarmTypes, WarmPhases
  <2>3. ProcessorKnown' /\ EditKnown' /\ WarmSound'
    BY DEF ProcessorKnown, EditKnown, WarmSound
  <2>4. QED
    BY <2>2, <2>3
<1>2. CASE ~GivesUp("failed")
  <2>1. /\ phase = "load" /\ phase' = "apply" /\ assets \in Contents /\ assets # NoContent
        /\ UNCHANGED <<assets, assetEdits, restores, closedWarm, wantedKey, onCuda, candidate, output, reply>>
    BY <1>2, WarmAssumption DEF LoadProcessor, GoesTo, WarmInv, WarmTypes, WarmTypeOK
  <2>2. \/ processor # NoContent /\ UNCHANGED <<processor, heldKey, applied, late>>
        \/ /\ processor = NoContent /\ processor' = assets /\ heldKey' = wantedKey
           /\ applied' = 0 /\ late' = (assets # wantedKey)
    BY <1>2 DEF LoadProcessor
  <2>3. late' \in BOOLEAN /\ applied' \in Nat
    <3>1. late' = late \/ late' = (assets # wantedKey)
      BY <2>2
    <3>2. late' \in BOOLEAN
      BY <3>1, Zenon DEF WarmInv, WarmTypes
    <3>3. QED
      BY <2>2, <3>2 DEF WarmInv, WarmTypes
  <2>4. WarmTypeOK'
    BY <2>1, <2>2 DEF WarmInv, WarmTypes, WarmTypeOK
  <2>5. WarmTypes'
    BY <2>1, <2>3, <2>4 DEF WarmInv, WarmTypes, WarmPhases
  <2>6. CASE processor # NoContent
    BY <2>1, <2>2, <2>5, <2>6 DEF WarmInv, ProcessorKnown, EditKnown, WarmSound
  <2>7. CASE processor = NoContent
    <3>1. processor' = wantedKey \/ late'
      BY <2>2, <2>7
    <3>2. restores = 0 /\ restores < MaxRestores /\ processor' # NoContent
      BY <2>1, <2>2, <2>7, WarmAssumption DEF WarmInv, ProcessorKnown
    <3>3. ProcessorKnown'
      BY <2>1, <2>2, <2>7, <3>1, <3>2 DEF WarmInv, ProcessorKnown
    <3>4. EditKnown' /\ WarmSound'
      BY <2>1, <2>2, <2>7, <3>1, <3>2, WarmAssumption DEF WarmInv, EditKnown, WarmSound
    <3>5. QED
      BY <2>5, <3>3, <3>4 DEF WarmInv
  <2>8. QED
    BY <2>6, <2>7
<1>3. QED
  BY <1>1, <1>2

LEMMA ApplySwapKept == ASSUME WarmInv, ApplySwap PROVE WarmInv'
<1> USE WarmAssumption DEF WarmInv, ApplySwap, GivesUp, CloseWarm
<1>1. WarmTypeOK'
  BY DEF WarmTypes, WarmTypeOK
<1>2. applied' \in Nat /\ onCuda' \in BOOLEAN
  <2>1. applied' \in Nat
    BY DEF WarmTypes
  <2>2. onCuda' = TRUE \/ onCuda' = FALSE \/ onCuda' = onCuda
    BY Zenon
  <2>3. QED
    BY <2>1, <2>2, Zenon DEF WarmTypes
<1>3. candidate' \in {"none", "changed", "same"} /\ phase' \in WarmPhases
  BY DEF WarmTypes, WarmPhases
<1>4. WarmTypes'
  BY <1>1, <1>2, <1>3 DEF WarmTypes
<1>5. ProcessorKnown'
  BY DEF ProcessorKnown, WarmTypes, WarmTypeOK
<1>6. EditKnown' /\ WarmSound'
  BY DEF EditKnown, WarmSound, ProcessorKnown, WarmTypes, WarmTypeOK
<1>7. QED
  BY <1>4, <1>5, <1>6

LEMMA RestoreFaceKept == ASSUME WarmInv, RestoreFace PROVE WarmInv'
<1> USE WarmAssumption DEF WarmInv, RestoreFace, GivesUp, CloseWarm, GoesTo, processorVars, editVars, MayReuse
<1>1. WarmTypeOK'
  BY DEF WarmTypes, WarmTypeOK, WarmPhases, ProcessorKnown
<1>2. WarmTypes'
  BY <1>1 DEF WarmTypes, WarmPhases
<1>3. ProcessorKnown'
  BY DEF ProcessorKnown, WarmTypes, WarmTypeOK
<1>4. EditKnown' /\ WarmSound'
  BY DEF EditKnown, WarmSound, ProcessorKnown, WarmTypes, WarmTypeOK
<1>5. QED
  BY <1>2, <1>3, <1>4

LEMMA JudgeCandidateKept == ASSUME WarmInv, JudgeCandidate PROVE WarmInv'
<1> USE WarmAssumption DEF WarmInv, JudgeCandidate, GivesUp, CloseWarm, GoesTo, processorVars, editVars, MayReuse
<1>1. WarmTypeOK'
  BY DEF WarmTypes, WarmTypeOK, WarmPhases, ProcessorKnown
<1>2. WarmTypes'
  BY <1>1 DEF WarmTypes, WarmPhases
<1>3. ProcessorKnown'
  BY DEF ProcessorKnown, WarmTypes, WarmTypeOK
<1>4. EditKnown' /\ WarmSound'
  BY DEF EditKnown, WarmSound, ProcessorKnown, WarmTypes, WarmTypeOK
<1>5. QED
  BY <1>2, <1>3, <1>4

LEMMA PublishEditKept == ASSUME WarmInv, PublishEdit PROVE WarmInv'
<1> USE WarmAssumption DEF WarmInv, PublishEdit, GivesUp, CloseWarm, GoesTo, processorVars, editVars, MayReuse
<1>1. WarmTypeOK'
  BY DEF WarmTypes, WarmTypeOK, WarmPhases, ProcessorKnown
<1>2. WarmTypes'
  BY <1>1 DEF WarmTypes, WarmPhases
<1>3. ProcessorKnown'
  BY DEF ProcessorKnown, WarmTypes, WarmTypeOK
<1>4. EditKnown' /\ WarmSound'
  BY DEF EditKnown, WarmSound, ProcessorKnown, WarmTypes, WarmTypeOK
<1>5. QED
  BY <1>2, <1>3, <1>4

LEMMA AnswerEditKept == ASSUME WarmInv, AnswerEdit PROVE WarmInv'
<1> USE WarmAssumption DEF WarmInv, AnswerEdit, GivesUp, CloseWarm, GoesTo, processorVars, editVars, MayReuse
<1>1. WarmTypeOK'
  BY DEF WarmTypes, WarmTypeOK, WarmPhases, ProcessorKnown
<1>2. WarmTypes'
  BY <1>1 DEF WarmTypes, WarmPhases
<1>3. ProcessorKnown'
  BY DEF ProcessorKnown, WarmTypes, WarmTypeOK
<1>4. EditKnown' /\ WarmSound'
  BY DEF EditKnown, WarmSound, ProcessorKnown, WarmTypes, WarmTypeOK
<1>5. QED
  BY <1>2, <1>3, <1>4

LEMMA KillWarmKept == ASSUME WarmInv, KillWarm PROVE WarmInv'
<1> USE WarmAssumption DEF WarmInv, KillWarm, GivesUp, CloseWarm, GoesTo, processorVars, editVars, MayReuse
<1>1. WarmTypeOK'
  BY DEF WarmTypes, WarmTypeOK, WarmPhases, ProcessorKnown
<1>2. WarmTypes'
  BY <1>1 DEF WarmTypes, WarmPhases
<1>3. ProcessorKnown'
  BY DEF ProcessorKnown, WarmTypes, WarmTypeOK
<1>4. EditKnown' /\ WarmSound'
  BY DEF EditKnown, WarmSound, ProcessorKnown, WarmTypes, WarmTypeOK
<1>5. QED
  BY <1>2, <1>3, <1>4

LEMMA ReplaceWarmKept == ASSUME WarmInv, ReplaceWarm PROVE WarmInv'
<1> USE WarmAssumption DEF WarmInv, ReplaceWarm, GivesUp, CloseWarm, GoesTo, processorVars, editVars, MayReuse
<1>1. WarmTypeOK'
  BY DEF WarmTypes, WarmTypeOK, WarmPhases, ProcessorKnown
<1>2. WarmTypes'
  BY <1>1 DEF WarmTypes, WarmPhases
<1>3. ProcessorKnown'
  BY DEF ProcessorKnown, WarmTypes, WarmTypeOK
<1>4. EditKnown' /\ WarmSound'
  BY DEF EditKnown, WarmSound, ProcessorKnown, WarmTypes, WarmTypeOK
<1>5. QED
  BY <1>2, <1>3, <1>4

LEMMA ChangeAssetsKept == ASSUME WarmInv, ChangeAssets PROVE WarmInv'
<1> USE WarmAssumption DEF WarmInv, ChangeAssets, GivesUp, CloseWarm, GoesTo, processorVars, editVars, MayReuse
<1>1. WarmTypeOK'
  BY DEF WarmTypes, WarmTypeOK, WarmPhases, ProcessorKnown
<1>2. WarmTypes'
  BY <1>1 DEF WarmTypes, WarmPhases
<1>3. ProcessorKnown'
  BY DEF ProcessorKnown, WarmTypes, WarmTypeOK
<1>4. EditKnown' /\ WarmSound'
  BY DEF EditKnown, WarmSound, ProcessorKnown, WarmTypes, WarmTypeOK
<1>5. QED
  BY <1>2, <1>3, <1>4

LEMMA OutputTakenKept == ASSUME WarmInv, OutputTaken PROVE WarmInv'
<1> USE WarmAssumption DEF WarmInv, OutputTaken, GivesUp, CloseWarm, GoesTo, processorVars, editVars, MayReuse
<1>1. WarmTypeOK'
  BY DEF WarmTypes, WarmTypeOK, WarmPhases, ProcessorKnown
<1>2. WarmTypes'
  BY <1>1 DEF WarmTypes, WarmPhases
<1>3. ProcessorKnown'
  BY DEF ProcessorKnown, WarmTypes, WarmTypeOK
<1>4. EditKnown' /\ WarmSound'
  BY DEF EditKnown, WarmSound, ProcessorKnown, WarmTypes, WarmTypeOK
<1>5. QED
  BY <1>2, <1>3, <1>4

LEMMA WarmInit == Init => WarmInv
<1> SUFFICES ASSUME InitWarm PROVE WarmInv
  BY DEF Init
<1> USE WarmAssumption DEF InitWarm
<1>1. WarmTypeOK
  BY DEF WarmTypeOK
<1>2. WarmTypes
  BY <1>1 DEF WarmTypes, WarmPhases
<1>3. ProcessorKnown /\ EditKnown /\ WarmSound
  BY DEF ProcessorKnown, EditKnown, WarmSound
<1>4. QED
  BY <1>2, <1>3 DEF WarmInv

LEMMA WarmStep == WarmInv /\ [Next]_vars => WarmInv'
<1> SUFFICES ASSUME WarmInv, [WarmNext]_warmVars PROVE WarmInv'
  BY DEF Next, vars, parts
<1>1. CASE UNCHANGED warmVars
  BY <1>1 DEF warmVars, processorVars, editVars, WarmInv, WarmTypes, WarmTypeOK, ProcessorKnown, EditKnown, WarmSound
<1>2. QED
  BY <1>1, AskRestoreKept, BuildKeyKept, CheckReuseKept, LoadProcessorKept, ApplySwapKept, RestoreFaceKept,
     JudgeCandidateKept, PublishEditKept, AnswerEditKept, KillWarmKept, ReplaceWarmKept, ChangeAssetsKept,
     OutputTakenKept DEF WarmNext

-----------------------------------------------------------------------------
(* The status of the doubling, and its tiles.                               *)

Answers == [ready : BOOLEAN, of : Nat]

\* An answer is of files that were there when its key was taken, or later ones.
StatusInv ==
    /\ model \in 0..MaxModelWrites /\ statusAt \in {"free", "keyed", "probing"}
    /\ signature \in Nat /\ probed \in Nat /\ statusFor \in Nat
    /\ capability \in {NoStatus} \cup [key : Nat, ready : BOOLEAN, of : Nat]
    /\ statusTold \in {NoStatus} \cup Answers
    /\ statusAt # "free" => signature = statusFor /\ signature <= model
    /\ statusAt = "probing" => probed >= signature
    /\ capability # NoStatus /\ capability.ready => capability.of >= capability.key
    /\ StatusFresh

\* What lies left of the next tile is as it will be in the end.
TrueTo(p) ==
    LET here == p \div 4 IN
    /\ pixels[p] \in [at : Nat, from : Nat, until : Nat] /\ pixels[p].at = p
    /\ pixels[p].from + padding <= here \/ pixels[p].from = 0
    /\ pixels[p].until >= Min({side, here + 1 + padding})

TilesInv ==
    /\ side \in Nat /\ tile \in Nat /\ padding \in Nat /\ left \in Nat
    /\ tiling \in {"on", "failed", "done"} /\ DOMAIN pixels = 0..(side * 4 - 1)
    /\ \A p \in DOMAIN pixels : p < left * 4 => TrueTo(p)
    /\ tiling = "done" => left >= side

LEMMA SmallerOf ==
  ASSUME NEW m \in Nat, NEW n \in Nat
  PROVE  Min({m, n}) \in Nat /\ Min({m, n}) \in {m, n} /\ Min({m, n}) <= m /\ Min({m, n}) <= n
<1>1. \E x \in {m, n} : \A y \in {m, n} : x <= y
  OBVIOUS
<1>2. QED
  BY <1>1 DEF Min

LEMMA AskStatusTold == ASSUME StatusInv, AskStatus PROVE StatusInv'
<1>1. Unavailable \in Answers /\ ~Unavailable.ready
  BY DEF Unavailable, Answers
<1>2. CASE signature' = model /\ statusAt' = "keyed" /\ UNCHANGED <<capability, statusTold>>
  BY <1>2, UpscaleAssumption DEF StatusInv, StatusFresh, AskStatus
<1>3. CASE capability' = NoStatus /\ statusTold' = Unavailable /\ UNCHANGED <<signature, statusAt>>
  BY <1>1, <1>3, UpscaleAssumption DEF StatusInv, StatusFresh, AskStatus
<1>4. QED
  BY <1>2, <1>3 DEF AskStatus

LEMMA KeptStatusTold == ASSUME StatusInv, KeptStatus PROVE StatusInv'
  BY UpscaleAssumption DEF StatusInv, StatusFresh, KeptStatus, TellsStatus, Answers

LEMMA ProbeStatusTold == ASSUME StatusInv, ProbeStatus PROVE StatusInv'
  BY DEF StatusInv, StatusFresh, ProbeStatus

LEMMA EndProbeTold == ASSUME StatusInv, EndProbe PROVE StatusInv'
<1>1. PICK answer \in {Unavailable, [ready |-> TRUE, of |-> probed], [ready |-> FALSE, of |-> probed]} :
        KeepsStatus(answer) /\ TellsStatus(answer)
  BY DEF EndProbe
<1>2. answer \in Answers /\ (answer.ready => answer.of = probed)
  <2>1. probed \in Nat
    BY DEF StatusInv
  <2>2. ASSUME NEW ok \in BOOLEAN, NEW n \in Nat, answer = [ready |-> ok, of |-> n]
        PROVE  answer \in Answers /\ answer.ready = ok /\ answer.of = n
    BY <2>2 DEF Answers
  <2>3. QED
    BY <1>1, <2>1, <2>2, Zenon DEF Unavailable
<1>3. /\ capability' \in [key : Nat, ready : BOOLEAN, of : Nat]
      /\ capability'.key = signature /\ capability'.ready = answer.ready /\ capability'.of = answer.of
  BY <1>1, <1>2 DEF KeepsStatus, Answers, StatusInv
<1>4. QED
  BY <1>1, <1>2, <1>3 DEF EndProbe, TellsStatus, StatusInv, StatusFresh

LEMMA ChangeModelTold == ASSUME StatusInv, ChangeModel PROVE StatusInv'
  BY UpscaleAssumption DEF StatusInv, StatusFresh, ChangeModel

\* The part of a tile that is kept has the halo that the image has around it.
LEMMA NextTileJoins == ASSUME TilesInv, NextTile PROVE TilesInv'
<1>1. CASE tiling' = "failed" /\ UNCHANGED <<pixels, left>>
  BY <1>1 DEF TilesInv, TrueTo, NextTile
<1>2. CASE pixels' = WithTile /\ left' = left + tile /\ UNCHANGED tiling
  <2>1. /\ side \in Nat /\ tile \in Nat /\ padding \in Nat /\ left \in Nat /\ left < side /\ tiling = "on"
        /\ UNCHANGED <<side, tile, padding>>
    BY DEF TilesInv, NextTile
  <2>2. Right \in Nat /\ Right <= left + tile /\ Right <= side /\ Right \in {left + tile, side}
    BY <2>1, SmallerOf DEF Right
  <2>3. From \in Nat /\ From <= left /\ (From + padding <= left \/ From = 0)
    BY <2>1 DEF From
  <2>4. Until \in Nat /\ Until \in {side, Right + padding} /\ Until <= side /\ Until <= Right + padding
    BY <2>1, <2>2, SmallerOf DEF Until
  <2>5. DOMAIN pixels' = DOMAIN pixels /\ DOMAIN pixels = 0..(side * 4 - 1)
    BY <1>2 DEF WithTile, TilesInv
  <2>6. ASSUME NEW p \in DOMAIN pixels, p < left' * 4 PROVE TrueTo(p)'
    <3> DEFINE here == p \div 4
    <3>1. p \in Nat /\ p < side * 4 /\ here \in Nat /\ here * 4 <= p /\ p < here * 4 + 4
      BY <2>1, <2>5
    <3>2. Min({side, here + 1 + padding}) \in Nat /\ Min({side, here + 1 + padding}) <= side
          /\ Min({side, here + 1 + padding}) <= here + 1 + padding
      BY <2>1, <3>1, SmallerOf
    <3>3. CASE p < left * 4
      <4>1. pixels'[p] = pixels[p] /\ TrueTo(p)
        BY <1>2, <2>1, <2>2, <3>1, <3>3 DEF WithTile, TilesInv
      <4>2. QED
        BY <2>1, <4>1 DEF TrueTo
    <3>4. CASE ~(p < left * 4)
      <4>1. p \in (left * 4)..(Right * 4 - 1)
        BY <1>2, <2>1, <2>2, <2>6, <3>1, <3>4
      <4>2. pixels'[p] = Made((left - From) * 4 + (p - left * 4))
        BY <1>2, <4>1 DEF WithTile
      <4>3. From * 4 + ((left - From) * 4 + (p - left * 4)) = p
        BY <2>1, <2>3, <3>1
      <4>4. pixels'[p] = [at |-> p, from |-> From, until |-> Until]
        BY <4>2, <4>3 DEF Made
      <4>5. left <= here /\ here + 1 <= Right
        BY <2>1, <2>2, <3>1, <3>4, <4>1
      <4>6. pixels'[p] \in [at : Nat, from : Nat, until : Nat] /\ pixels'[p].at = p
            /\ pixels'[p].from = From /\ pixels'[p].until = Until
        BY <2>3, <2>4, <3>1, <4>4
      <4>7. From + padding <= here \/ From = 0
        BY <2>1, <2>3, <3>1, <4>5
      <4>8. Until >= Min({side, here + 1 + padding})
        BY <2>1, <2>2, <2>4, <3>1, <3>2, <4>5
      <4>9. QED
        BY <2>1, <4>6, <4>7, <4>8 DEF TrueTo
    <3>5. QED
      BY <3>3, <3>4
  <2>7. QED
    BY <1>2, <2>1, <2>5, <2>6 DEF TilesInv
<1>3. QED
  BY <1>1, <1>2 DEF NextTile

LEMMA LastTileJoins == ASSUME TilesInv, LastTile PROVE TilesInv'
  BY DEF TilesInv, TrueTo, LastTile

LEMMA UpscaleInit == Init => StatusInv /\ TilesInv
<1> SUFFICES ASSUME InitStatus, InitTiles PROVE StatusInv /\ TilesInv
  BY DEF Init, InitUpscale
<1>1. StatusInv
  BY UpscaleAssumption DEF InitStatus, StatusInv, StatusFresh
<1>2. TilesInv
  BY UpscaleAssumption DEF InitTiles, TilesInv
<1>3. QED
  BY <1>1, <1>2

LEMMA UpscaleStep == StatusInv /\ TilesInv /\ [Next]_vars => StatusInv' /\ TilesInv'
<1> SUFFICES ASSUME StatusInv, TilesInv, [StatusNext \/ TilesNext]_upscaleVars PROVE StatusInv' /\ TilesInv'
  BY DEF Next, vars, parts
<1>1. (UNCHANGED statusVars) => StatusInv'
  BY DEF statusVars, StatusInv, StatusFresh
<1>2. (UNCHANGED tileVars) => TilesInv'
  BY DEF tileVars, TilesInv, TrueTo
<1>3. CASE StatusNext
  BY <1>2, <1>3, AskStatusTold, KeptStatusTold, ProbeStatusTold, EndProbeTold, ChangeModelTold DEF StatusNext
<1>4. CASE TilesNext
  BY <1>1, <1>4, NextTileJoins, LastTileJoins DEF TilesNext
<1>5. QED
  BY <1>1, <1>2, <1>3, <1>4 DEF upscaleVars

\* A finished image has no pixel left that no tile has made.
LEMMA UpscaleIsSound == StatusInv /\ TilesInv => UpscaleTypeOK /\ StatusFresh /\ TilesWhole
<1> SUFFICES ASSUME StatusInv, TilesInv PROVE UpscaleTypeOK /\ StatusFresh /\ TilesWhole
  OBVIOUS
<1>1. UpscaleTypeOK /\ StatusFresh
  BY DEF UpscaleTypeOK, StatusInv, TilesInv
<1>2. ASSUME tiling = "done", NEW p \in DOMAIN pixels PROVE TrueTo(p) /\ pixels[p] # NoPixel
  <2>1. p < left * 4
    BY <1>2 DEF TilesInv
  <2>2. QED
    BY <1>2, <2>1, UpscaleAssumption DEF TilesInv, TrueTo
<1>3. QED
  BY <1>1, <1>2 DEF TilesWhole, TrueTo

\* Edited versions, their parents and the selection are whole, a kept processor
\* fits the edit that uses it, and the doubling is told of present files and
\* joins its tiles (identity_refinements.py, identity_warm_refine.py,
\* identity_upscale.py), for any number of versions and any size of image,
\* tile and halo.
THEOREM EditsAreSound == Spec => []EditsSound
<1> DEFINE Inv == VersionsInv /\ WarmInv /\ StatusInv /\ TilesInv
<1>1. Init => Inv
  BY VersionsInit, WarmInit, UpscaleInit
<1>2. Inv /\ [Next]_vars => Inv'
  BY VersionsStep, WarmStep, UpscaleStep
<1>3. Inv => EditsSound
  BY VersionsAreSound, UpscaleIsSound DEF WarmInv, WarmTypes, EditsSound
<1>4. QED
  BY <1>1, <1>2, <1>3, PTL DEF Spec

-----------------------------------------------------------------------------
(* The profiles of a person.                                                *)

PersonRows == [state : PersonStates, name : 0..MaxRenames, preset : BOOLEAN]
ProfileSteps == {"idle", "work", "except", "verify", "resolve", "render"}
Waits == {"queued", "running"}

ProfileTypes ==
    /\ person \in PersonRows /\ personFile \in PersonRows /\ named \in 0..MaxRenames
    /\ animes \in [Animes -> AnimeStates] /\ animeFile \in [Animes -> AnimeStates]
    /\ picture \subseteq Animes /\ extracted \subseteq Animes /\ making \in Animes \cup {NoProfile}
    /\ uses \in [ProfileJobs -> Animes \cup {NoProfile}]
    /\ jobState \in [ProfileJobs -> Terminal \cup {"queued", "preparing", "sampling"}]
    /\ future \in [Tasks -> {"none", "queued", "running", "done"}]
    /\ lane \in Tasks \cup {NoProfile} /\ laneAt \in ProfileSteps /\ saveFaults \in Nat

\* The lane runs one task, and a task waits only for what is not made yet.
LaneServes ==
    /\ (lane = NoProfile) = (laneAt = "idle")
    /\ \A t \in Tasks : future[t] = "running" <=> lane = t
    /\ laneAt = "verify" => lane \in extracted
    /\ laneAt \in {"resolve", "render"} => lane \in ProfileJobs
    /\ laneAt = "except" => lane \notin ProfileJobs
    /\ future["person"] \in Waits <=> person.state = "preparing"
    /\ \A a \in Animes : future[a] # "none" => animeFile[a] # "absent"
    /\ \A j \in ProfileJobs : jobState[j] \in {"absent", "checked"} => future[j] \notin Waits
    /\ \A j \in ProfileJobs : jobState[j] = "sampling" => lane = j /\ laneAt = "render"

\* Who is there is known by the name that was acknowledged last, in memory and
\* on disk; who is not on disk is not in memory either.
NamesKnown ==
    /\ person.state = "absent" => person = NoRecord
    /\ personFile.state = "absent" => person = NoRecord /\ personFile = NoRecord /\ named = 0
    /\ person.state # "absent" => person.name = named
    /\ personFile.state # "absent" => personFile.name = named

\* An anime profile is recorded after its image and ready after its features.
AnimesKnown ==
    /\ making # NoProfile => animeFile[making] = "absent" /\ making \in picture
    /\ \A a \in Animes : /\ animeFile[a] # "absent" => a \in picture
                         /\ animeFile[a] = "ready" => a \in extracted
                         /\ animes[a] # "absent" => animes[a] = animeFile[a]

\* Memory differs from the disk, and a record waits for nothing, only after a
\* failed write.
RecordsAgree ==
    saveFaults = 0 => /\ person = personFile /\ animes = animeFile
                      /\ \A a \in Animes : animes[a] = "preparing" => future[a] \in Waits

DrawsWithReady == \A j \in ProfileJobs : jobState[j] = "sampling" => Resolves(uses[j])

ProfilesInv == ProfileTypes /\ LaneServes /\ NamesKnown /\ AnimesKnown /\ RecordsAgree /\ DrawsWithReady

LEMMA TasksApart ==
  /\ Tasks = {"person"} \cup Animes \cup ProfileJobs /\ NoProfile \notin Tasks
  /\ "person" \notin Animes /\ "person" \notin ProfileJobs /\ Animes \cap ProfileJobs = {}
  /\ MaxRenames \in Nat /\ NoRecord \in PersonRows /\ NoRecord.state = "absent" /\ NoRecord.name = 0
  BY ProfileAssumption DEF Tasks, NoRecord, PersonRows, PersonStates

LEMMA PersonSet ==
  ASSUME NEW entry \in PersonRows, NEW s \in PersonStates
  PROVE  /\ [entry EXCEPT !.state = s] \in PersonRows /\ [entry EXCEPT !.state = s].state = s
         /\ [entry EXCEPT !.state = s].name = entry.name
  BY DEF PersonRows

LEMMA PersonNamed ==
  ASSUME NEW entry \in PersonRows, NEW n \in 0..MaxRenames
  PROVE  /\ [entry EXCEPT !.name = n] \in PersonRows /\ [entry EXCEPT !.name = n].name = n
         /\ [entry EXCEPT !.name = n].state = entry.state
  BY DEF PersonRows

LEMMA PersonPreset ==
  ASSUME NEW entry \in PersonRows
  PROVE  /\ [entry EXCEPT !.preset = TRUE] \in PersonRows /\ [entry EXCEPT !.preset = TRUE].name = entry.name
         /\ [entry EXCEPT !.preset = TRUE].state = entry.state
  BY DEF PersonRows

LEMMA TaskSet ==
  ASSUME ProfileTypes, NEW t \in Tasks, NEW s \in {"none", "queued", "running", "done"}, future' = [future EXCEPT ![t] = s]
  PROVE  /\ future' \in [Tasks -> {"none", "queued", "running", "done"}] /\ future'[t] = s
         /\ \A u \in Tasks : u # t => future'[u] = future[u]
  BY DEF ProfileTypes

LEMMA FaultCounts == ASSUME ProfileTypes, Faulty PROVE saveFaults' \in Nat /\ saveFaults' # 0
  BY DEF ProfileTypes, Faulty

\* A write of the person's record by a request, while it is not being prepared
\* or without changing that it is.
LEMMA PersonWritten ==
  ASSUME ProfilesInv, NEW entry \in PersonRows, personFile' = entry, person' = entry, named' \in 0..MaxRenames,
         entry.name = named', entry.state # "absent",
         UNCHANGED <<animes, animeFile, picture, extracted, making, uses, jobState, lane, laneAt, future, saveFaults>>,
         entry.state = "preparing" <=> person.state = "preparing",
         person.state = "ready" => entry.state = "ready" \/ \A j \in ProfileJobs : jobState[j] # "sampling"
  PROVE  ProfilesInv'
<1> USE DEF ProfilesInv
<1>1. ProfileTypes'
  BY DEF ProfileTypes
<1>2. LaneServes' /\ AnimesKnown'
  BY DEF LaneServes, AnimesKnown
<1>3. NamesKnown' /\ RecordsAgree'
  BY TasksApart DEF NamesKnown, RecordsAgree, PersonRows
<1>4. DrawsWithReady'
  BY DEF DrawsWithReady, Resolves
<1>5. QED
  BY <1>1, <1>2, <1>3, <1>4

\* A request that could not write changed nothing but the count of failures.
LEMMA NothingWritten ==
  ASSUME ProfilesInv, Faulty \/ UNCHANGED saveFaults,
         UNCHANGED <<person, personFile, named, animes, animeFile, picture, extracted, making, uses, jobState, lane,
                     laneAt, future>>
  PROVE  ProfilesInv'
<1>1. saveFaults' \in Nat /\ (saveFaults' = 0 => saveFaults = 0)
  BY FaultCounts DEF ProfilesInv, ProfileTypes
<1>2. QED
  BY <1>1 DEF ProfilesInv, ProfileTypes, LaneServes, NamesKnown, AnimesKnown, RecordsAgree, DrawsWithReady, Resolves

LEMMA CreateProfileHolds == ASSUME ProfilesInv, CreateProfile PROVE ProfilesInv'
<1>1. CASE PersonUnsaved /\ UNCHANGED future
  BY <1>1, NothingWritten DEF CreateProfile, PersonUnsaved, drawn, users, serial
<1>2. CASE SavePerson([NoRecord EXCEPT !.state = "preparing"]) /\ Submitted("person")
  <2>1. /\ personFile = NoRecord /\ person = NoRecord /\ named = 0
        /\ UNCHANGED <<named, animes, animeFile, picture, extracted, making, uses, jobState, lane, laneAt, saveFaults>>
    BY <1>2, TasksApart DEF CreateProfile, SavePerson, drawn, users, serial, limits, ProfilesInv, NamesKnown
  <2>2. /\ person' = personFile' /\ person' \in PersonRows /\ person'.state = "preparing" /\ person'.name = 0
    BY <1>2, TasksApart, PersonSet DEF SavePerson, PersonStates
  <2>3. /\ future' \in [Tasks -> {"none", "queued", "running", "done"}] /\ future'["person"] = "queued"
        /\ \A u \in Tasks : u # "person" => future'[u] = future[u]
    BY <1>2, TasksApart, TaskSet DEF Submitted, ProfilesInv
  <2>4. future["person"] \notin Waits
    BY <2>1, TasksApart DEF ProfilesInv, LaneServes
  <2>5. ProfileTypes'
    BY <2>1, <2>2, <2>3 DEF ProfilesInv, ProfileTypes
  <2>6. LaneServes'
    <3>1. lane # "person" /\ "person" \in Tasks /\ future'["person"] \in Waits
      BY <2>3, <2>4, TasksApart DEF ProfilesInv, LaneServes, Waits
    <3>2. \A t \in Tasks : future'[t] = "running" <=> lane' = t
      BY <2>1, <2>3, <3>1 DEF ProfilesInv, LaneServes
    <3>3. /\ \A a \in Animes : future'[a] # "none" => animeFile'[a] # "absent"
          /\ \A j \in ProfileJobs : jobState'[j] \in {"absent", "checked"} => future'[j] \notin Waits
      BY <2>1, <2>3, TasksApart DEF ProfilesInv, LaneServes
    <3>4. QED
      BY <2>1, <2>2, <3>1, <3>2, <3>3 DEF ProfilesInv, LaneServes
  <2>7. NamesKnown' /\ AnimesKnown'
    BY <2>1, <2>2 DEF ProfilesInv, NamesKnown, AnimesKnown
  <2>8. RecordsAgree'
    BY <2>1, <2>2, <2>3, TasksApart DEF ProfilesInv, RecordsAgree
  <2>9. DrawsWithReady'
    BY <2>1, TasksApart DEF ProfilesInv, DrawsWithReady, Resolves, ProfileTypes, LaneServes
  <2>10. QED
    BY <2>5, <2>6, <2>7, <2>8, <2>9 DEF ProfilesInv
<1>3. QED
  BY <1>1, <1>2 DEF CreateProfile

LEMMA RenameHolds == ASSUME ProfilesInv, Rename PROVE ProfilesInv'
<1>1. CASE PersonUnsaved /\ UNCHANGED named
  BY <1>1, NothingWritten DEF Rename, PersonUnsaved, drawn, users, serial
<1>2. CASE SavePerson([person EXCEPT !.name = named + 1]) /\ named' = named + 1
  <2>1. named' \in 0..MaxRenames /\ person \in PersonRows /\ person.state # "absent"
    BY <1>2, TasksApart DEF Rename, ProfilesInv, ProfileTypes, NamesKnown
  <2>2. /\ [person EXCEPT !.name = named'] \in PersonRows /\ [person EXCEPT !.name = named'].name = named'
        /\ [person EXCEPT !.name = named'].state = person.state
    BY <2>1, PersonNamed
  <2>3. QED
    BY <1>2, <2>1, <2>2, PersonWritten DEF Rename, SavePerson, drawn, users, serial, limits
<1>3. QED
  BY <1>1, <1>2 DEF Rename

LEMMA ArchiveHolds == ASSUME ProfilesInv, Archive PROVE ProfilesInv'
<1>1. CASE PersonUnsaved
  BY <1>1, NothingWritten DEF Archive, PersonUnsaved, drawn, users, serial
<1>2. CASE SavePerson([person EXCEPT !.state = "archived"])
  <2>1. /\ person \in PersonRows /\ person.state \in {"ready", "failed"} /\ person.name = named
        /\ \A j \in ProfileJobs : jobState[j] # "sampling"
    BY DEF Archive, InUse, Terminal, ProfilesInv, ProfileTypes, NamesKnown
  <2>2. /\ [person EXCEPT !.state = "archived"] \in PersonRows /\ [person EXCEPT !.state = "archived"].name = person.name
        /\ [person EXCEPT !.state = "archived"].state = "archived"
    BY <2>1, PersonSet DEF PersonStates
  <2>3. QED
    BY <1>2, <2>1, <2>2, PersonWritten DEF Archive, SavePerson, drawn, users, serial, limits, ProfilesInv, ProfileTypes
<1>3. QED
  BY <1>1, <1>2 DEF Archive

LEMMA PresetHolds == ASSUME ProfilesInv, Preset PROVE ProfilesInv'
<1>1. CASE PersonUnsaved
  BY <1>1, NothingWritten DEF Preset, PersonUnsaved, drawn, users, serial
<1>2. CASE SavePerson([person EXCEPT !.preset = TRUE])
  <2>1. person \in PersonRows /\ person.state = "ready" /\ person.name = named
    BY DEF Preset, ProfilesInv, ProfileTypes, NamesKnown
  <2>2. /\ [person EXCEPT !.preset = TRUE] \in PersonRows /\ [person EXCEPT !.preset = TRUE].name = person.name
        /\ [person EXCEPT !.preset = TRUE].state = "ready"
    BY <2>1, PersonPreset
  <2>3. QED
    BY <1>2, <2>1, <2>2, PersonWritten DEF Preset, SavePerson, drawn, users, serial, limits, ProfilesInv, ProfileTypes
<1>3. QED
  BY <1>1, <1>2 DEF Preset

LEMMA DrawAnimeHolds == ASSUME ProfilesInv, NEW a \in Animes, DrawAnime(a) PROVE ProfilesInv'
<1>1. CASE Faulty /\ UNCHANGED <<picture, making>>
  BY <1>1, NothingWritten DEF DrawAnime, people, users, serial
<1>2. CASE picture' = picture \cup {a} /\ making' = a /\ UNCHANGED limits
  <2>1. /\ animeFile[a] = "absent"
        /\ UNCHANGED <<person, personFile, named, animes, animeFile, extracted, uses, jobState, lane, laneAt, future, saveFaults>>
    BY <1>2 DEF DrawAnime, people, users, serial, limits
  <2>2. QED
    BY <1>2, <2>1, TasksApart DEF ProfilesInv, ProfileTypes, LaneServes, NamesKnown, AnimesKnown, RecordsAgree,
                      DrawsWithReady, Resolves
<1>3. QED
  BY <1>1, <1>2 DEF DrawAnime

LEMMA RecordAnimeHolds == ASSUME ProfilesInv, RecordAnime PROVE ProfilesInv'
<1>1. /\ making \in Animes /\ animeFile[making] = "absent" /\ making' = NoProfile /\ making # "person"
      /\ making \notin ProfileJobs /\ making \in picture /\ future[making] = "none" /\ animes[making] = "absent"
      /\ UNCHANGED <<person, personFile, named, extracted, uses, jobState, lane, laneAt>>
  BY TasksApart DEF RecordAnime, people, users, serial, ProfilesInv, ProfileTypes, AnimesKnown, LaneServes
<1>2. CASE AnimeUnsaved /\ picture' \in {picture, picture \ {making}} /\ UNCHANGED future
  <2>1. saveFaults' \in Nat /\ saveFaults' # 0 /\ UNCHANGED <<animes, animeFile>>
    BY <1>2, FaultCounts DEF AnimeUnsaved, ProfilesInv
  <2>2. ProfileTypes' /\ LaneServes' /\ NamesKnown' /\ RecordsAgree'
    BY <1>1, <1>2, <2>1 DEF ProfilesInv, ProfileTypes, LaneServes, NamesKnown, RecordsAgree
  <2>3. AnimesKnown'
    BY <1>1, <1>2, <2>1 DEF ProfilesInv, AnimesKnown
  <2>4. DrawsWithReady'
    BY <1>1, <1>2, <2>1, TasksApart DEF ProfilesInv, DrawsWithReady, Resolves, ProfileTypes
  <2>5. QED
    BY <2>2, <2>3, <2>4 DEF ProfilesInv
<1>3. CASE SaveAnime(making, "preparing") /\ Submitted(making) /\ UNCHANGED picture
  <2>1. /\ animes' \in [Animes -> AnimeStates] /\ animeFile' \in [Animes -> AnimeStates] /\ UNCHANGED saveFaults
        /\ animes'[making] = "preparing" /\ animeFile'[making] = "preparing"
        /\ \A a \in Animes : a # making => animes'[a] = animes[a] /\ animeFile'[a] = animeFile[a]
    BY <1>1, <1>3 DEF SaveAnime, ProfilesInv, ProfileTypes, AnimeStates, limits
  <2>2. /\ future' \in [Tasks -> {"none", "queued", "running", "done"}] /\ future'[making] = "queued"
        /\ \A u \in Tasks : u # making => future'[u] = future[u]
    BY <1>1, <1>3, TasksApart, TaskSet DEF Submitted, ProfilesInv
  <2>3. ProfileTypes'
    BY <1>1, <1>3, <2>1, <2>2 DEF ProfilesInv, ProfileTypes
  <2>4. LaneServes'
    <3>1. lane # making /\ making \in Tasks
      BY <1>1, TasksApart DEF ProfilesInv, LaneServes
    <3>2. \A t \in Tasks : future'[t] = "running" <=> lane' = t
      BY <1>1, <2>2, <3>1 DEF ProfilesInv, LaneServes
    <3>3. /\ \A a \in Animes : future'[a] # "none" => animeFile'[a] # "absent"
          /\ \A j \in ProfileJobs : jobState'[j] \in {"absent", "checked"} => future'[j] \notin Waits
      BY <1>1, <2>1, <2>2, TasksApart DEF ProfilesInv, LaneServes
    <3>4. future'["person"] = future["person"]
      BY <1>1, <2>2, TasksApart
    <3>5. QED
      BY <1>1, <3>2, <3>3, <3>4 DEF ProfilesInv, LaneServes
  <2>5. NamesKnown' /\ AnimesKnown'
    BY <1>1, <1>3, <2>1 DEF ProfilesInv, NamesKnown, AnimesKnown
  <2>6. RecordsAgree'
    <3>1. saveFaults = 0 => animes' = animeFile'
      BY <1>3 DEF SaveAnime, ProfilesInv, RecordsAgree
    <3>2. QED
      BY <1>1, <2>1, <2>2, <3>1, TasksApart DEF ProfilesInv, RecordsAgree, Waits
  <2>7. DrawsWithReady'
    BY <1>1, <1>3, <2>1, TasksApart DEF ProfilesInv, DrawsWithReady, Resolves, ProfileTypes
  <2>8. QED
    BY <2>3, <2>4, <2>5, <2>6, <2>7 DEF ProfilesInv
<1>4. QED
  BY <1>2, <1>3 DEF RecordAnime

\* What the jobs do leaves the profiles as they are.
LEMMA JobsMove ==
  ASSUME ProfilesInv, UNCHANGED <<person, personFile, named, animes, animeFile, picture, extracted, making>>,
         saveFaults' \in Nat, saveFaults' = 0 => saveFaults = 0,
         ProfileTypes', LaneServes', DrawsWithReady',
         \A a \in Animes : future[a] \in Waits => future'[a] \in Waits
  PROVE  ProfilesInv'
  BY DEF ProfilesInv, NamesKnown, AnimesKnown, RecordsAgree

LEMMA CheckJobHolds ==
  ASSUME ProfilesInv, NEW j \in ProfileJobs, NEW a \in Animes \cup {NoProfile}, CheckJob(j, a) PROVE ProfilesInv'
<1>1. /\ jobState[j] = "absent" /\ jobState' = [jobState EXCEPT ![j] = "checked"] /\ uses' = [uses EXCEPT ![j] = a]
      /\ UNCHANGED <<person, personFile, named, animes, animeFile, picture, extracted, making, lane, laneAt, future, saveFaults>>
  BY DEF CheckJob, people, drawn, serial, limits
<1>2. /\ jobState' \in [ProfileJobs -> Terminal \cup {"queued", "preparing", "sampling"}] /\ jobState'[j] = "checked"
      /\ uses' \in [ProfileJobs -> Animes \cup {NoProfile}]
      /\ \A k \in ProfileJobs : k # j => jobState'[k] = jobState[k] /\ uses'[k] = uses[k]
  BY <1>1 DEF ProfilesInv, ProfileTypes, Terminal
<1>3. ProfileTypes' /\ LaneServes'
  BY <1>1, <1>2 DEF ProfilesInv, ProfileTypes, LaneServes
<1>4. DrawsWithReady'
  BY <1>1, <1>2 DEF ProfilesInv, DrawsWithReady, Resolves
<1>5. QED
  BY <1>1, <1>3, <1>4, JobsMove DEF ProfilesInv, ProfileTypes

LEMMA JobSet ==
  ASSUME ProfileTypes, NEW j \in ProfileJobs, NEW s \in Terminal \cup {"queued", "preparing", "sampling"},
         jobState' = [jobState EXCEPT ![j] = s]
  PROVE  /\ jobState' \in [ProfileJobs -> Terminal \cup {"queued", "preparing", "sampling"}] /\ jobState'[j] = s
         /\ \A k \in ProfileJobs : k # j => jobState'[k] = jobState[k]
  BY DEF ProfileTypes

LEMMA AcceptJobHolds == ASSUME ProfilesInv, NEW j \in ProfileJobs, AcceptJob(j) PROVE ProfilesInv'
<1>1. /\ jobState[j] = "checked" /\ future[j] \notin Waits /\ j \in Tasks /\ lane # j /\ j # "person" /\ j \notin Animes
      /\ UNCHANGED <<person, personFile, named, animes, animeFile, picture, extracted, making, uses, lane, laneAt>>
  BY TasksApart DEF AcceptJob, people, drawn, serial, ProfilesInv, LaneServes, Waits
<1>2. CASE jobState' = [jobState EXCEPT ![j] = "queued"] /\ Submitted(j) /\ UNCHANGED limits
  <2>1. /\ jobState' \in [ProfileJobs -> Terminal \cup {"queued", "preparing", "sampling"}] /\ jobState'[j] = "queued"
        /\ \A k \in ProfileJobs : k # j => jobState'[k] = jobState[k]
    BY <1>2, JobSet DEF ProfilesInv
  <2>2. /\ future' \in [Tasks -> {"none", "queued", "running", "done"}] /\ future'[j] = "queued"
        /\ \A u \in Tasks : u # j => future'[u] = future[u]
    BY <1>1, <1>2, TaskSet DEF Submitted, ProfilesInv
  <2>3. ProfileTypes' /\ saveFaults' = saveFaults
    BY <1>1, <1>2, <2>1, <2>2 DEF ProfilesInv, ProfileTypes, limits
  <2>4. LaneServes'
    <3>1. \A t \in Tasks : future'[t] = "running" <=> lane' = t
      BY <1>1, <2>2 DEF ProfilesInv, LaneServes
    <3>2. /\ \A a \in Animes : future'[a] # "none" => animeFile'[a] # "absent"
          /\ \A k \in ProfileJobs : jobState'[k] \in {"absent", "checked"} => future'[k] \notin Waits
      BY <1>1, <2>1, <2>2, TasksApart DEF ProfilesInv, LaneServes
    <3>3. future'["person"] = future["person"]
      BY <1>1, <2>2, TasksApart
    <3>4. \A k \in ProfileJobs : jobState'[k] = "sampling" => lane' = k /\ laneAt' = "render"
      BY <1>1, <2>1 DEF ProfilesInv, LaneServes
    <3>5. QED
      BY <1>1, <3>1, <3>2, <3>3, <3>4 DEF ProfilesInv, LaneServes
  <2>5. DrawsWithReady'
    BY <1>1, <2>1 DEF ProfilesInv, DrawsWithReady, Resolves
  <2>6. QED
    BY <1>1, <2>2, <2>3, <2>4, <2>5, TasksApart, JobsMove DEF ProfilesInv, ProfileTypes
<1>3. CASE Faulty /\ jobState' = [jobState EXCEPT ![j] = "absent"] /\ UNCHANGED future
  <2>1. /\ jobState' \in [ProfileJobs -> Terminal \cup {"queued", "preparing", "sampling"}] /\ jobState'[j] = "absent"
        /\ \A k \in ProfileJobs : k # j => jobState'[k] = jobState[k]
    BY <1>3, JobSet DEF ProfilesInv, Terminal
  <2>2. saveFaults' \in Nat /\ saveFaults' # 0
    BY <1>3, FaultCounts DEF ProfilesInv
  <2>3. ProfileTypes' /\ LaneServes'
    BY <1>1, <1>3, <2>1, <2>2 DEF ProfilesInv, ProfileTypes, LaneServes
  <2>4. DrawsWithReady'
    BY <1>1, <2>1 DEF ProfilesInv, DrawsWithReady, Resolves
  <2>5. QED
    BY <1>1, <1>3, <2>2, <2>3, <2>4, JobsMove
<1>4. QED
  BY <1>2, <1>3 DEF AcceptJob

LEMMA CancelProfileJobHolds == ASSUME ProfilesInv, NEW j \in ProfileJobs, CancelProfileJob(j) PROVE ProfilesInv'
<1>1. /\ future[j] = "queued" /\ j \in Tasks /\ lane # j /\ j # "person" /\ j \notin Animes
      /\ jobState' = [jobState EXCEPT ![j] = "failed"] /\ future' = [future EXCEPT ![j] = "done"]
      /\ UNCHANGED <<person, personFile, named, animes, animeFile, picture, extracted, making, uses, lane, laneAt, saveFaults>>
  BY TasksApart DEF CancelProfileJob, people, drawn, serial, limits, ProfilesInv, LaneServes
<1>2. /\ jobState' \in [ProfileJobs -> Terminal \cup {"queued", "preparing", "sampling"}] /\ jobState'[j] = "failed"
      /\ \A k \in ProfileJobs : k # j => jobState'[k] = jobState[k]
  BY <1>1, JobSet DEF ProfilesInv, Terminal
<1>3. /\ future' \in [Tasks -> {"none", "queued", "running", "done"}] /\ future'[j] = "done"
      /\ \A u \in Tasks : u # j => future'[u] = future[u]
  BY <1>1, TaskSet DEF ProfilesInv
<1>4. ProfileTypes' /\ LaneServes'
  BY <1>1, <1>2, <1>3, TasksApart DEF ProfilesInv, ProfileTypes, LaneServes
<1>5. DrawsWithReady'
  BY <1>1, <1>2 DEF ProfilesInv, DrawsWithReady, Resolves
<1>6. QED
  BY <1>1, <1>3, <1>4, <1>5, TasksApart, JobsMove DEF ProfilesInv, ProfileTypes

LEMMA TakeTaskHolds == ASSUME ProfilesInv, NEW t \in Tasks, TakeTask(t) PROVE ProfilesInv'
<1>1. /\ lane = NoProfile /\ future[t] = "queued" /\ lane' = t /\ laneAt' = "work" /\ laneAt = "idle"
      /\ future' = [future EXCEPT ![t] = "running"]
      /\ UNCHANGED <<person, personFile, named, animes, animeFile, picture, extracted, making, uses, jobState, saveFaults>>
  BY DEF TakeTask, people, drawn, users, limits, ProfilesInv, LaneServes
<1>2. /\ future' \in [Tasks -> {"none", "queued", "running", "done"}] /\ future'[t] = "running"
      /\ \A u \in Tasks : u # t => future'[u] = future[u]
  BY <1>1, TaskSet DEF ProfilesInv
<1>3. ProfileTypes'
  BY <1>1, <1>2 DEF ProfilesInv, ProfileTypes, ProfileSteps
<1>4. \A u \in Tasks : future'[u] \in Waits <=> future[u] \in Waits
  BY <1>1, <1>2 DEF Waits
<1>5. \A u \in Tasks : future'[u] = "none" <=> future[u] = "none"
  BY <1>1, <1>2
<1>6. LaneServes'
  BY <1>1, <1>2, <1>4, <1>5, TasksApart DEF ProfilesInv, LaneServes
<1>7. DrawsWithReady'
  BY <1>1 DEF ProfilesInv, DrawsWithReady, Resolves
<1>8. QED
  BY <1>1, <1>3, <1>4, <1>6, <1>7, TasksApart, JobsMove DEF ProfilesInv, ProfileTypes

\* The end of a task: the lane is free.
LEMMA TaskEnds ==
  ASSUME ProfilesInv, lane \in Tasks, Ends
  PROVE  /\ lane' = NoProfile /\ laneAt' = "idle" /\ future'[lane] = "done"
         /\ future' \in [Tasks -> {"none", "queued", "running", "done"}]
         /\ \A u \in Tasks : u # lane => future'[u] = future[u]
         /\ \A u \in Tasks : future'[u] # "running"
<1>1. /\ lane' = NoProfile /\ laneAt' = "idle" /\ future' = [future EXCEPT ![lane] = "done"]
  BY DEF Ends
<1>2. /\ future' \in [Tasks -> {"none", "queued", "running", "done"}] /\ future'[lane] = "done"
      /\ \A u \in Tasks : u # lane => future'[u] = future[u]
  BY <1>1, TaskSet DEF ProfilesInv
<1>3. QED
  BY <1>1, <1>2 DEF ProfilesInv, LaneServes

\* The same with a record of the person that says how it ended.
LEMMA PersonEnds ==
  ASSUME ProfilesInv, lane = "person", Ends, NEW s \in {"ready", "failed"}, person' = [person EXCEPT !.state = s],
         personFile' = person' \/ (UNCHANGED personFile /\ saveFaults' # 0), saveFaults' \in Nat,
         saveFaults' = 0 => saveFaults = 0,
         UNCHANGED <<named, animes, animeFile, picture, extracted, making, uses, jobState>>
  PROVE  ProfilesInv'
<1>1. /\ lane' = NoProfile /\ laneAt' = "idle" /\ future'["person"] = "done"
      /\ future' \in [Tasks -> {"none", "queued", "running", "done"}]
      /\ \A u \in Tasks : u # "person" => future'[u] = future[u]
      /\ \A u \in Tasks : future'[u] # "running"
  BY TasksApart, TaskEnds
<1>2. person.state = "preparing" /\ person \in PersonRows /\ person.name = named
  BY TasksApart DEF ProfilesInv, ProfileTypes, LaneServes, NamesKnown, Waits
<1>3. person' \in PersonRows /\ person'.state = s /\ person'.name = named /\ s \in {"ready", "failed"}
  <2>1. s \in PersonStates
    BY DEF PersonStates
  <2>2. QED
    BY <1>2, <2>1, PersonSet
<1>4. ProfileTypes'
  BY <1>1, <1>3, TasksApart DEF ProfilesInv, ProfileTypes, ProfileSteps
<1>5. LaneServes'
  <2>1. \A j \in ProfileJobs : jobState[j] # "sampling"
    BY TasksApart DEF ProfilesInv, LaneServes
  <2>2. /\ \A a \in Animes : future'[a] # "none" => animeFile'[a] # "absent"
        /\ \A j \in ProfileJobs : jobState'[j] \in {"absent", "checked"} => future'[j] \notin Waits
    BY <1>1, TasksApart DEF ProfilesInv, LaneServes
  <2>3. future'["person"] \in Waits <=> person'.state = "preparing"
    BY <1>1, <1>3 DEF Waits
  <2>4. \A t \in Tasks : future'[t] = "running" <=> lane' = t
    BY <1>1, TasksApart
  <2>5. QED
    BY <1>1, <2>1, <2>2, <2>3, <2>4 DEF LaneServes
<1>6. NamesKnown'
  BY <1>2, <1>3 DEF ProfilesInv, NamesKnown, NoRecord
<1>7. AnimesKnown' /\ RecordsAgree'
  BY <1>1, TasksApart DEF ProfilesInv, AnimesKnown, RecordsAgree
<1>8. DrawsWithReady'
  BY TasksApart DEF ProfilesInv, DrawsWithReady, LaneServes
<1>9. QED
  BY <1>4, <1>5, <1>6, <1>7, <1>8 DEF ProfilesInv

\* A step of the lane that only goes to the recording of a failure.
LEMMA GoesExcept ==
  ASSUME ProfilesInv, laneAt' = "except", laneAt # "idle", lane \notin ProfileJobs, UNCHANGED <<lane, future>>,
         Faulty \/ UNCHANGED saveFaults,
         extracted' = extracted \/ (extracted \subseteq extracted' /\ extracted' \subseteq Animes),
         UNCHANGED <<person, personFile, named, animes, animeFile, picture, making, uses, jobState>>
  PROVE  ProfilesInv'
<1>1. saveFaults' \in Nat /\ (saveFaults' = 0 => saveFaults = 0)
  BY FaultCounts DEF ProfilesInv, ProfileTypes
<1>2. ProfileTypes'
  BY <1>1 DEF ProfilesInv, ProfileTypes, ProfileSteps
<1>3. LaneServes'
  BY DEF ProfilesInv, LaneServes
<1>4. DrawsWithReady'
  BY DEF ProfilesInv, LaneServes, DrawsWithReady
<1>5. QED
  BY <1>1, <1>2, <1>3, <1>4 DEF ProfilesInv, NamesKnown, AnimesKnown, RecordsAgree

LEMMA PersonReadyHolds == ASSUME ProfilesInv, PersonReady PROVE ProfilesInv'
<1>1. /\ laneAt = "work" /\ lane = "person"
      /\ UNCHANGED <<named, animes, animeFile, picture, extracted, making, uses, jobState>>
  BY DEF PersonReady, drawn, users
<1>2. CASE SavePerson([person EXCEPT !.state = "ready"]) /\ Ends
  BY <1>1, <1>2, PersonEnds DEF SavePerson, limits, ProfilesInv, ProfileTypes
<1>3. CASE (PersonUnsaved \/ UNCHANGED <<person, personFile, limits>>) /\ Moves("except")
  BY <1>1, <1>3, TasksApart, GoesExcept DEF PersonUnsaved, Moves, limits
<1>4. QED
  BY <1>2, <1>3 DEF PersonReady

LEMMA PersonFailedHolds == ASSUME ProfilesInv, PersonFailed PROVE ProfilesInv'
<1>1. /\ lane = "person" /\ Ends /\ person' = [person EXCEPT !.state = "failed"]
      /\ (personFile' = person' /\ saveFaults' = saveFaults) \/ (Faulty /\ UNCHANGED personFile)
      /\ UNCHANGED <<named, animes, animeFile, picture, extracted, making, uses, jobState>>
  BY DEF PersonFailed, drawn, users, limits
<1>2. saveFaults' \in Nat /\ (saveFaults' = 0 => saveFaults = 0) /\ (personFile' = person' \/ saveFaults' # 0)
  BY <1>1, FaultCounts DEF ProfilesInv, ProfileTypes
<1>3. QED
  BY <1>1, <1>2, PersonEnds

LEMMA AnimeExtractsHolds == ASSUME ProfilesInv, AnimeExtracts PROVE ProfilesInv'
<1>1. /\ laneAt = "work" /\ lane \in Animes /\ lane \notin ProfileJobs /\ saveFaults' = saveFaults
      /\ UNCHANGED <<person, personFile, named, animes, animeFile, picture, making, uses, jobState, lane, future>>
  BY TasksApart DEF AnimeExtracts, Moves, people, users, limits
<1>2. extracted \subseteq extracted' /\ extracted' \subseteq Animes
  BY <1>1 DEF AnimeExtracts, ProfilesInv, ProfileTypes
<1>3. CASE laneAt' = "except"
  BY <1>1, <1>2, <1>3, GoesExcept
<1>4. CASE laneAt' = "verify" /\ lane \in extracted'
  <2>1. ProfileTypes'
    BY <1>1, <1>2, <1>4 DEF ProfilesInv, ProfileTypes, ProfileSteps
  <2>2. LaneServes'
    BY <1>1, <1>4 DEF ProfilesInv, LaneServes
  <2>3. DrawsWithReady'
    BY <1>1 DEF ProfilesInv, LaneServes, DrawsWithReady
  <2>4. QED
    BY <1>1, <1>2, <2>1, <2>2, <2>3 DEF ProfilesInv, NamesKnown, AnimesKnown, RecordsAgree
<1>5. QED
  BY <1>3, <1>4 DEF AnimeExtracts, Moves

\* A task of an anime profile ends, with a record that says how or without.
LEMMA AnimeEnds ==
  ASSUME ProfilesInv, lane \in Animes, Ends, NEW s \in {"ready", "failed"}, s = "ready" => lane \in extracted,
         SaveAnime(lane, s) \/ AnimeUnsaved,
         UNCHANGED <<person, personFile, named, picture, extracted, making, uses, jobState>>
  PROVE  ProfilesInv'
<1>1. /\ lane \in Tasks /\ lane # "person" /\ lane \notin ProfileJobs
      /\ animeFile[lane] # "absent" /\ lane \in picture /\ future[lane] = "running"
  BY TasksApart DEF ProfilesInv, ProfileTypes, LaneServes, AnimesKnown
<1>2. /\ lane' = NoProfile /\ laneAt' = "idle" /\ future'[lane] = "done"
      /\ future' \in [Tasks -> {"none", "queued", "running", "done"}]
      /\ \A u \in Tasks : u # lane => future'[u] = future[u]
      /\ \A u \in Tasks : future'[u] # "running"
  BY <1>1, TaskEnds
<1>3. saveFaults' \in Nat /\ (saveFaults' = 0 => SaveAnime(lane, s) /\ saveFaults = 0)
  BY FaultCounts DEF SaveAnime, AnimeUnsaved, limits, ProfilesInv, ProfileTypes
<1>4. /\ animes' \in [Animes -> AnimeStates] /\ animeFile' \in [Animes -> AnimeStates]
      /\ \A a \in Animes : a # lane => animes'[a] = animes[a] /\ animeFile'[a] = animeFile[a]
      /\ UNCHANGED <<animes, animeFile>> \/ (animes'[lane] = s /\ animeFile'[lane] = s)
  BY DEF SaveAnime, AnimeUnsaved, ProfilesInv, ProfileTypes, AnimeStates
<1>5. ProfileTypes'
  BY <1>2, <1>3, <1>4 DEF ProfilesInv, ProfileTypes, ProfileSteps
<1>6. LaneServes'
  <2>1. \A j \in ProfileJobs : jobState[j] # "sampling"
    BY <1>1 DEF ProfilesInv, LaneServes
  <2>2. \A a \in Animes : future'[a] # "none" => animeFile'[a] # "absent"
    BY <1>1, <1>2, <1>4, TasksApart DEF ProfilesInv, LaneServes
  <2>3. \A j \in ProfileJobs : jobState'[j] \in {"absent", "checked"} => future'[j] \notin Waits
    BY <1>1, <1>2, TasksApart DEF ProfilesInv, LaneServes
  <2>4. future'["person"] \in Waits <=> person'.state = "preparing"
    BY <1>1, <1>2, TasksApart DEF ProfilesInv, LaneServes
  <2>5. \A t \in Tasks : future'[t] = "running" <=> lane' = t
    BY <1>2, TasksApart
  <2>6. QED
    BY <1>2, <2>1, <2>2, <2>3, <2>4, <2>5 DEF LaneServes
<1>7. NamesKnown' /\ AnimesKnown'
  <2>1. NamesKnown'
    BY DEF ProfilesInv, NamesKnown
  <2>2. \A a \in Animes : /\ animeFile'[a] # "absent" => a \in picture'
                          /\ animeFile'[a] = "ready" => a \in extracted'
                          /\ animes'[a] # "absent" => animes'[a] = animeFile'[a]
    BY <1>1, <1>4 DEF ProfilesInv, AnimesKnown
  <2>3. making # NoProfile => making # lane /\ making \in Animes
    BY <1>1 DEF ProfilesInv, AnimesKnown, ProfileTypes
  <2>4. QED
    <3>1. making' # NoProfile => animeFile'[making'] = "absent" /\ making' \in picture'
      BY <1>4, <2>3 DEF ProfilesInv, AnimesKnown
    <3>2. AnimesKnown'
      BY <2>2, <3>1 DEF AnimesKnown
    <3>3. QED
      BY <2>1, <3>2
<1>8. RecordsAgree'
  <2> SUFFICES ASSUME saveFaults' = 0
               PROVE  /\ person' = personFile' /\ animes' = animeFile'
                      /\ \A a \in Animes : animes'[a] = "preparing" => future'[a] \in Waits
    BY DEF RecordsAgree
  <2>1. person' = personFile' /\ animes' = animeFile' /\ animes'[lane] = s
    BY <1>3, <1>4 DEF SaveAnime, ProfilesInv, RecordsAgree, ProfileTypes
  <2>2. QED
    BY <1>2, <1>3, <1>4, <2>1, TasksApart DEF ProfilesInv, RecordsAgree
<1>9. DrawsWithReady'
  BY <1>1 DEF ProfilesInv, DrawsWithReady, LaneServes
<1>10. QED
  BY <1>5, <1>6, <1>7, <1>8, <1>9 DEF ProfilesInv

LEMMA AnimeReadyHolds == ASSUME ProfilesInv, AnimeReady PROVE ProfilesInv'
<1>1. /\ laneAt = "verify" /\ lane \in extracted /\ lane \in Animes /\ lane \notin ProfileJobs
      /\ UNCHANGED <<person, personFile, named, picture, extracted, making, uses, jobState>>
  BY TasksApart DEF AnimeReady, people, users, ProfilesInv, ProfileTypes, LaneServes
<1>2. CASE SaveAnime(lane, "ready") /\ Ends
  BY <1>1, <1>2, AnimeEnds
<1>3. CASE AnimeUnsaved /\ Moves("except")
  BY <1>1, <1>3, GoesExcept DEF AnimeUnsaved, Moves
<1>4. QED
  BY <1>2, <1>3 DEF AnimeReady

LEMMA AnimeFailedHolds == ASSUME ProfilesInv, AnimeFailed PROVE ProfilesInv'
  BY AnimeEnds DEF AnimeFailed, people, users

LEMMA JobPreparesHolds == ASSUME ProfilesInv, JobPrepares PROVE ProfilesInv'
<1>1. /\ laneAt = "work" /\ laneAt' = "resolve" /\ lane \in ProfileJobs
      /\ jobState' = [jobState EXCEPT ![lane] = "preparing"]
      /\ UNCHANGED <<person, personFile, named, animes, animeFile, picture, extracted, making, uses, lane, future, saveFaults>>
  BY DEF JobPrepares, Moves, people, drawn, limits
<1>2. /\ jobState' \in [ProfileJobs -> Terminal \cup {"queued", "preparing", "sampling"}] /\ jobState'[lane] = "preparing"
      /\ \A k \in ProfileJobs : k # lane => jobState'[k] = jobState[k]
  BY <1>1, JobSet DEF ProfilesInv
<1>3. ProfileTypes'
  BY <1>1, <1>2 DEF ProfilesInv, ProfileTypes, ProfileSteps
<1>4. LaneServes' /\ DrawsWithReady'
  BY <1>1, <1>2 DEF ProfilesInv, LaneServes, DrawsWithReady, Resolves
<1>5. QED
  BY <1>1, <1>3, <1>4, JobsMove DEF ProfilesInv, ProfileTypes

\* A job ends.
LEMMA JobEnds ==
  ASSUME ProfilesInv, lane \in ProfileJobs, Ends, NEW s \in {"complete", "failed"},
         jobState' = [jobState EXCEPT ![lane] = s],
         UNCHANGED <<person, personFile, named, animes, animeFile, picture, extracted, making, uses, saveFaults>>
  PROVE  ProfilesInv'
<1>1. /\ jobState' \in [ProfileJobs -> Terminal \cup {"queued", "preparing", "sampling"}] /\ jobState'[lane] = s
      /\ \A k \in ProfileJobs : k # lane => jobState'[k] = jobState[k] /\ jobState'[k] # "sampling"
  BY JobSet DEF ProfilesInv, LaneServes, Terminal
<1>2. lane \in Tasks /\ lane # "person" /\ lane \notin Animes
  BY TasksApart
<1>3. /\ lane' = NoProfile /\ laneAt' = "idle" /\ future'[lane] = "done"
      /\ future' \in [Tasks -> {"none", "queued", "running", "done"}]
      /\ \A u \in Tasks : u # lane => future'[u] = future[u]
      /\ \A u \in Tasks : future'[u] # "running"
  BY <1>2, TaskEnds
<1>4. ProfileTypes'
  BY <1>1, <1>3 DEF ProfilesInv, ProfileTypes, ProfileSteps
<1>5. LaneServes'
  <2>1. \A j \in ProfileJobs : jobState'[j] # "sampling"
    BY <1>1
  <2>2. /\ \A a \in Animes : future'[a] # "none" => animeFile'[a] # "absent"
        /\ \A j \in ProfileJobs : jobState'[j] \in {"absent", "checked"} => future'[j] \notin Waits
    BY <1>1, <1>2, <1>3, TasksApart DEF ProfilesInv, LaneServes
  <2>3. future'["person"] \in Waits <=> person'.state = "preparing"
    BY <1>2, <1>3, TasksApart DEF ProfilesInv, LaneServes
  <2>4. \A t \in Tasks : future'[t] = "running" <=> lane' = t
    BY <1>3, TasksApart
  <2>5. QED
    BY <1>3, <2>1, <2>2, <2>3, <2>4 DEF LaneServes
<1>6. DrawsWithReady'
  BY <1>1 DEF DrawsWithReady
<1>7. QED
  BY <1>2, <1>3, <1>4, <1>5, <1>6, TasksApart, JobsMove DEF ProfilesInv, ProfileTypes

\* The second look at the profile is taken where the worker draws.
LEMMA JobResolvesHolds == ASSUME ProfilesInv, JobResolves PROVE ProfilesInv'
<1>1. /\ laneAt = "resolve" /\ lane \in ProfileJobs
      /\ UNCHANGED <<person, personFile, named, animes, animeFile, picture, extracted, making, uses, saveFaults>>
  BY DEF JobResolves, people, drawn, limits, ProfilesInv, LaneServes
<1>2. CASE ~Resolves(uses[lane])
  BY <1>1, <1>2, JobEnds DEF JobResolves
<1>3. CASE Resolves(uses[lane])
  <2>1. /\ laneAt' = "render" /\ UNCHANGED <<lane, future>>
        /\ jobState' \in [ProfileJobs -> Terminal \cup {"queued", "preparing", "sampling"}] /\ jobState'[lane] = "sampling"
        /\ \A k \in ProfileJobs : k # lane => jobState'[k] = jobState[k]
    BY <1>1, <1>3, JobSet DEF JobResolves, Moves, ProfilesInv
  <2>2. ProfileTypes'
    BY <1>1, <2>1 DEF ProfilesInv, ProfileTypes, ProfileSteps
  <2>3. LaneServes'
    BY <1>1, <2>1 DEF ProfilesInv, LaneServes
  <2>4. DrawsWithReady'
    BY <1>1, <1>3, <2>1 DEF ProfilesInv, LaneServes, DrawsWithReady, Resolves
  <2>5. QED
    BY <1>1, <2>1, <2>2, <2>3, <2>4, JobsMove DEF ProfilesInv, ProfileTypes
<1>4. QED
  BY <1>2, <1>3

LEMMA JobRendersHolds == ASSUME ProfilesInv, JobRenders PROVE ProfilesInv'
<1>1. PICK s \in {"complete", "failed"} : jobState' = [jobState EXCEPT ![lane] = s]
  BY DEF JobRenders
<1>2. lane \in ProfileJobs
  BY DEF JobRenders, ProfilesInv, LaneServes
<1>3. QED
  BY <1>1, <1>2, JobEnds DEF JobRenders, people, drawn, limits

LEMMA RestartHolds == ASSUME ProfilesInv, Restart PROVE ProfilesInv'
<1>1. PICK lost \in SUBSET ({"person"} \cup Animes) :
         /\ \A t \in lost : IF t = "person" THEN personFile.state = "preparing" ELSE animeFile[t] = "preparing"
         /\ IF lost = {} THEN UNCHANGED saveFaults
            ELSE saveFaults < MaxSaveFaults /\ saveFaults' = saveFaults + 1
         /\ LET read == [personFile EXCEPT !.state = Recovers(@)]
                seen == [a \in Animes |-> Recovers(animeFile[a])] IN
            /\ personFile' = IF "person" \in lost THEN personFile ELSE read
            /\ person' = IF "person" \in lost THEN NoRecord ELSE read
            /\ animeFile' = [a \in Animes |-> IF a \in lost THEN animeFile[a] ELSE seen[a]]
            /\ animes' = [a \in Animes |-> IF a \in lost THEN "absent" ELSE seen[a]]
  BY DEF Restart
<1>2. /\ jobState' = [j \in ProfileJobs |-> CASE jobState[j] = "checked" -> "absent"
                                            [] jobState[j] \in Terminal \ {"checked"} -> jobState[j]
                                            [] OTHER -> "failed"]
      /\ future' = [t \in Tasks |-> IF future[t] = "none" THEN "none" ELSE "done"]
      /\ lane' = NoProfile /\ laneAt' = "idle" /\ making' = NoProfile
      /\ UNCHANGED <<named, picture, extracted, uses>>
  BY DEF Restart
<1>3. saveFaults' \in Nat /\ (saveFaults' = 0 => saveFaults = 0 /\ lost = {})
  BY <1>1 DEF ProfilesInv, ProfileTypes
<1>4. /\ \A j \in ProfileJobs : jobState'[j] \in Terminal /\ jobState'[j] # "checked"
      /\ jobState' \in [ProfileJobs -> Terminal \cup {"queued", "preparing", "sampling"}]
  BY <1>2 DEF Terminal
<1>5. /\ \A t \in Tasks : future'[t] = (IF future[t] = "none" THEN "none" ELSE "done") /\ future'[t] \notin Waits
      /\ future' \in [Tasks -> {"none", "queued", "running", "done"}]
  BY <1>2 DEF Waits
<1>6. /\ \A a \in Animes : /\ animeFile'[a] \in AnimeStates /\ animes'[a] \in AnimeStates
                           /\ a \in lost => animeFile[a] = "preparing" /\ animeFile'[a] = "preparing" /\ animes'[a] = "absent"
                           /\ a \notin lost => animes'[a] = animeFile'[a]
                           /\ a \notin lost /\ animeFile[a] = "preparing" => animeFile'[a] = "failed"
                           /\ a \notin lost /\ animeFile[a] # "preparing" => animeFile'[a] = animeFile[a]
      /\ animeFile' \in [Animes -> AnimeStates] /\ animes' \in [Animes -> AnimeStates]
  <2>1. "person" \notin Animes /\ animeFile \in [Animes -> AnimeStates]
    BY TasksApart DEF ProfilesInv, ProfileTypes
  <2>2. QED
    BY <1>1, <2>1 DEF Recovers, AnimeStates
<1>7. /\ personFile' \in PersonRows /\ person' \in PersonRows /\ personFile'.name = personFile.name
      /\ personFile'.state = "absent" <=> personFile.state = "absent"
      /\ personFile.state = "absent" => personFile' = personFile /\ person' = personFile
      /\ person' = personFile' \/ (person' = NoRecord /\ lost # {})
      /\ person'.state # "preparing"
  <2>1. personFile \in PersonRows /\ Recovers(personFile.state) \in PersonStates
    BY DEF ProfilesInv, ProfileTypes, PersonRows, PersonStates, Recovers
  <2>2. /\ [personFile EXCEPT !.state = Recovers(@)] = [personFile EXCEPT !.state = Recovers(personFile.state)]
        /\ [personFile EXCEPT !.state = Recovers(@)] \in PersonRows
        /\ [personFile EXCEPT !.state = Recovers(@)].state = Recovers(personFile.state)
        /\ [personFile EXCEPT !.state = Recovers(@)].name = personFile.name
    BY <2>1, PersonSet
  <2>3. personFile.state = "absent" => [personFile EXCEPT !.state = Recovers(@)] = personFile
    BY <2>1 DEF PersonRows, Recovers
  <2>4. Recovers(personFile.state) # "preparing" /\ (Recovers(personFile.state) = "absent" <=> personFile.state = "absent")
    BY DEF Recovers
  <2>5. CASE "person" \in lost
    BY <1>1, <2>1, <2>5, TasksApart
  <2>6. CASE "person" \notin lost
    BY <1>1, <2>2, <2>3, <2>4, <2>6
  <2>7. QED
    BY <2>5, <2>6
<1>8. ProfileTypes'
  BY <1>2, <1>3, <1>4, <1>5, <1>6, <1>7 DEF ProfilesInv, ProfileTypes, ProfileSteps
<1>9. LaneServes'
  <2>1. \A a \in Animes : future'[a] # "none" => animeFile'[a] # "absent"
    BY <1>5, <1>6, TasksApart DEF ProfilesInv, LaneServes
  <2>2. \A t \in Tasks : future'[t] = "running" <=> lane' = t
    BY <1>2, <1>5, TasksApart DEF Waits
  <2>3. \A j \in ProfileJobs : jobState'[j] # "sampling" /\ future'[j] \notin Waits
    BY <1>4, <1>5, TasksApart DEF Terminal
  <2>4. future'["person"] \in Waits <=> person'.state = "preparing"
    BY <1>5, <1>7, TasksApart
  <2>5. QED
    BY <1>2, <2>1, <2>2, <2>3, <2>4 DEF LaneServes
<1>10. NamesKnown'
  BY <1>2, <1>7, TasksApart DEF ProfilesInv, NamesKnown
<1>11. AnimesKnown'
  BY <1>2, <1>6 DEF ProfilesInv, AnimesKnown
<1>12. RecordsAgree'
  <2> SUFFICES ASSUME saveFaults' = 0
               PROVE  /\ person' = personFile' /\ animes' = animeFile'
                      /\ \A a \in Animes : animes'[a] = "preparing" => future'[a] \in Waits
    BY DEF RecordsAgree
  <2>1. lost = {} /\ saveFaults = 0
    BY <1>3
  <2>2. person' = personFile' /\ animes' = animeFile'
    BY <1>6, <1>7, <2>1
  <2>3. \A a \in Animes : animes'[a] # "preparing"
    BY <1>6, <2>1 DEF ProfilesInv, ProfileTypes
  <2>4. QED
    BY <2>2, <2>3
<1>13. DrawsWithReady'
  BY <1>4 DEF DrawsWithReady, Terminal
<1>14. QED
  BY <1>8, <1>9, <1>10, <1>11, <1>12, <1>13 DEF ProfilesInv

LEMMA ProfilesInit == Init => ProfilesInv
<1> SUFFICES ASSUME InitProfiles PROVE ProfilesInv
  BY DEF Init
<1> USE TasksApart DEF InitProfiles
<1>1. ProfileTypes
  BY DEF ProfileTypes, AnimeStates, Terminal, ProfileSteps
<1>2. LaneServes
  BY DEF LaneServes, Waits
<1>3. NamesKnown /\ AnimesKnown /\ RecordsAgree /\ DrawsWithReady
  BY DEF NamesKnown, AnimesKnown, RecordsAgree, DrawsWithReady
<1>4. QED
  BY <1>1, <1>2, <1>3 DEF ProfilesInv

LEMMA ProfilesStep == ProfilesInv /\ [Next]_vars => ProfilesInv'
<1> SUFFICES ASSUME ProfilesInv, [ProfilesNext]_profileVars PROVE ProfilesInv'
  BY DEF Next, vars, parts
<1>1. CASE UNCHANGED profileVars
  BY <1>1, NothingWritten DEF profileVars, people, drawn, users, serial, limits
<1>2. QED
  BY <1>1, CreateProfileHolds, RenameHolds, ArchiveHolds, PresetHolds, RecordAnimeHolds, DrawAnimeHolds,
     CheckJobHolds, AcceptJobHolds, CancelProfileJobHolds, TakeTaskHolds, PersonReadyHolds, PersonFailedHolds,
     AnimeExtractsHolds, AnimeReadyHolds, AnimeFailedHolds, JobPreparesHolds, JobResolvesHolds,
     JobRendersHolds, RestartHolds DEF ProfilesNext

\* No archive, failed write or restart falls between the check of a profile
\* and its use by a worker, a rename outlives a preparation, and what is ready
\* has its files (identity_profiles.py, identity_anime_profiles.py).
THEOREM ProfilesAreSound == Spec => []ProfilesSound
<1>1. ProfilesInv => ProfilesSound
  <2> SUFFICES ASSUME ProfilesInv PROVE ProfilesSound
    OBVIOUS
  <2>1. personFile # NoRecord => personFile.name = named
    BY DEF ProfilesInv, NamesKnown
  <2>2. /\ person.state = "preparing" => future["person"] \in {"queued", "running"}
        /\ \A a \in Animes : animeFile[a] = "ready" => a \in picture \cap extracted
    BY DEF ProfilesInv, LaneServes, Waits, AnimesKnown
  <2>3. QED
    BY <2>1, <2>2 DEF ProfilesSound, ProfilesInv, DrawsWithReady, RecordsAgree, Waits
<1>2. QED
  BY <1>1, ProfilesInit, ProfilesStep, PTL DEF Spec
=============================================================================
