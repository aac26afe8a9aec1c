------------------------- MODULE PromptExperiments -------------------------
(***************************************************************************)
(* A prompt experiment (runtime.py): the variants of one prompt are queued *)
(* as generation jobs of their own, and the status of the experiment is    *)
(* computed from their states whenever it is read.  The caller that starts *)
(* the experiment computes it without the lock that the others hold, and   *)
(* the record is written in place.  JobRunner models the jobs.             *)
(***************************************************************************)
EXTENDS Naturals, Sequences

CONSTANTS VariantCount, MaxPromptExits

ASSUME PromptAssumption == VariantCount \in Nat \ {0} /\ MaxPromptExits \in Nat

VARIABLES
    variants,       \* the states of the jobs, one after the other
    promptAt,       \* the step of the caller that starts and of one that reads
    variantsSeen,   \* what each has read of the jobs
    undone,         \* variants withdrawn after a failed submission
    promptRecord, promptFile,   \* status in memory and on disk, "torn" while it is written
    promptExits

promptVars == <<variants, promptAt, variantsSeen, undone, promptRecord, promptFile, promptExits>>
promptFiles == <<promptRecord, promptFile>>

Ended == {"complete", "failed", "cancelled"}

InitPrompt ==
    /\ variants = <<>> /\ promptAt = [p \in {"run", "get"} |-> "idle"]
    /\ variantsSeen = [p \in {"run", "get"} |-> <<>>] /\ undone = 0
    /\ promptRecord = "none" /\ promptFile = "none" /\ promptExits = 0

PromptIs(p, place) == promptAt[p] = place
PromptGoes(p, place) == promptAt' = [promptAt EXCEPT ![p] = place]
States(seq) == {seq[i] : i \in 1..Len(seq)}

\* _public_experiment
StatusOf(seen) ==
    IF States(seen) \subseteq Ended THEN IF States(seen) = {"complete"} THEN "complete" ELSE "failed"
    ELSE IF States(seen) = {"queued"} THEN "queued" ELSE "running"

-----------------------------------------------------------------------------
(* run_experiment and get_experiment.                                       *)

\* One job per variant; any error withdraws those that were queued.
SubmitVariant ==
    /\ PromptIs("run", "idle") /\ Len(variants) < VariantCount
    /\ \/ variants' = Append(variants, "queued") /\ UNCHANGED promptAt
       \/ PromptGoes("run", "undo") /\ UNCHANGED variants
    /\ UNCHANGED <<variantsSeen, undone, promptFiles, promptExits>>

\* A job that has ended keeps its state; an error of the disk ends the undoing.
UndoVariant ==
    /\ PromptIs("run", "undo") /\ undone < Len(variants) /\ undone' = undone + 1
    /\ variants' = [variants EXCEPT ![undone + 1] = IF @ \in Ended THEN @ ELSE "cancelled"]
    /\ UNCHANGED promptAt \/ PromptGoes("run", "broken")
    /\ UNCHANGED <<variantsSeen, promptFiles, promptExits>>

UndoDone ==
    /\ PromptIs("run", "undo") /\ undone = Len(variants) /\ PromptGoes("run", "raised")
    /\ UNCHANGED <<variants, variantsSeen, undone, promptFiles, promptExits>>

\* With the lock: the record in memory, then in its file.
RecordPrompt ==
    /\ PromptIs("run", "idle") /\ Len(variants) = VariantCount /\ PromptIs("get", "idle")
    /\ promptRecord' = "queued" /\ promptFile' = "torn" /\ PromptGoes("run", "record")
    /\ UNCHANGED <<variants, variantsSeen, undone, promptExits>>

PromptRecorded ==
    /\ PromptIs("run", "record") /\ promptFile' = "queued" /\ PromptGoes("run", "read")
    /\ UNCHANGED <<variants, variantsSeen, undone, promptRecord, promptExits>>

\* The record in memory, else the file if it can be read.
GetPrompt ==
    /\ PromptIs("get", "idle") /\ ~PromptIs("run", "record")
    /\ \/ promptRecord # "none" /\ UNCHANGED promptRecord
       \/ promptRecord = "none" /\ promptFile \notin {"none", "torn"} /\ promptRecord' = promptFile
    /\ variantsSeen' = [variantsSeen EXCEPT !["get"] = <<>>] /\ PromptGoes("get", "read")
    /\ UNCHANGED <<variants, undone, promptFile, promptExits>>

-----------------------------------------------------------------------------
(* _public_experiment: the jobs are read one by one, then the status is     *)
(* written; the caller that started the experiment holds no lock.           *)

ReadVariant(p) ==
    /\ PromptIs(p, "read") /\ Len(variantsSeen[p]) < Len(variants)
    /\ variantsSeen' = [variantsSeen EXCEPT ![p] = Append(@, variants[Len(@) + 1])]
    /\ UNCHANGED <<variants, promptAt, undone, promptFiles, promptExits>>

PublishStatus(p) ==
    /\ PromptIs(p, "read") /\ Len(variantsSeen[p]) = Len(variants)
    /\ promptRecord' = StatusOf(variantsSeen[p])
    /\ \/ promptFile' = "torn" /\ PromptGoes(p, "write")
       \/ UNCHANGED promptFile /\ PromptGoes(p, IF p = "run" THEN "shown" ELSE "idle")
    /\ UNCHANGED <<variants, variantsSeen, undone, promptExits>>

\* Two writers at once may leave a mixture; the disk may fail before or now.
WriteStatus(p) ==
    /\ PromptIs(p, "write") /\ PromptGoes(p, IF p = "run" THEN "shown" ELSE "idle")
    /\ \/ promptFile' \in {promptRecord, StatusOf(variantsSeen[p])}
       \/ UNCHANGED promptFile
    /\ UNCHANGED <<variants, variantsSeen, undone, promptRecord, promptExits>>

-----------------------------------------------------------------------------
\* The worker takes the jobs in order; after an exit nobody takes them again.
VariantMoves(i) ==
    /\ promptExits = 0 /\ i \in 1..Len(variants) /\ \A j \in 1..(i - 1) : variants[j] \in Ended
    /\ \/ variants[i] = "queued" /\ variants' = [variants EXCEPT ![i] = "running"]
       \/ /\ variants[i] = "running"
          /\ \E s \in {"complete", "failed"} : variants' = [variants EXCEPT ![i] = s]
    /\ UNCHANGED <<promptAt, variantsSeen, undone, promptFiles, promptExits>>

VariantCancelled(i) ==
    /\ i \in 1..Len(variants) /\ variants[i] \notin Ended
    /\ variants' = [variants EXCEPT ![i] = "cancelled"]
    /\ UNCHANGED <<promptAt, variantsSeen, undone, promptFiles, promptExits>>

PromptExit ==
    /\ promptExits < MaxPromptExits /\ promptExits' = promptExits + 1
    /\ promptAt' = [promptAt EXCEPT !["get"] = "idle", !["run"] = "gone"] /\ promptRecord' = "none"
    /\ UNCHANGED <<variants, variantsSeen, undone, promptFile>>

PromptNext ==
    \/ SubmitVariant \/ UndoVariant \/ UndoDone \/ RecordPrompt \/ PromptRecorded \/ GetPrompt
    \/ (\E p \in {"run", "get"} : ReadVariant(p) \/ PublishStatus(p) \/ WriteStatus(p))
    \/ (\E i \in 1..VariantCount : VariantMoves(i) \/ VariantCancelled(i))
    \/ PromptExit

-----------------------------------------------------------------------------
\* A status of the past may overwrite a later one and a file may be left torn,
\* but an experiment that is said to be complete has all its images and one
\* said to be over has no job left (runtime.py:414-423), an experiment is on
\* disk only with all its variants (445-477), and a submission that failed
\* leaves no variant in the queue unless withdrawing them failed (458-464).
PromptSound ==
    /\ \A status \in {promptRecord, promptFile} :
         /\ status = "complete" => States(variants) = {"complete"}
         /\ status = "failed" => States(variants) \subseteq Ended /\ States(variants) # {"complete"}
    /\ promptFile # "none" => Len(variants) = VariantCount /\ undone = 0
    /\ PromptIs("run", "raised") => States(variants) \subseteq Ended
=============================================================================
