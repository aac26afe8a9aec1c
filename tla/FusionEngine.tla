---------------------------- MODULE FusionEngine ----------------------------
(***************************************************************************)
(* Sampling with a prompt of several chunks (research_image_engine.py):    *)
(* prompt and negative prompt are cut into pairs of chunks, every step     *)
(* predicts with each pair and fuses the predictions into one update.  The *)
(* same weights are computed in three places, here as fractions: by the    *)
(* engine, by the service that checks its answer                           *)
(* (research_image_service.py) and by the replay (research_fusion.py).     *)
(***************************************************************************)
EXTENDS Naturals, Sequences, FiniteSetsExt

CONSTANTS
    ChunkSize,    \* content tokens of a chunk (75)
    MaxChunks,    \* (4)
    AlphaUnit,    \* alpha is a multiple of 1 / AlphaUnit
    MaxSteps

ASSUME EngineAssumption == {ChunkSize, MaxChunks, AlphaUnit, MaxSteps} \subseteq Nat \ {0}

VARIABLES
    fusing,       \* the request: lengths of both prompts, cfg = 1, mode, alpha, steps
    predicted,    \* chunks predicted in this step, for each sign
    updates,      \* scheduler steps
    engineAt

fusionVars == <<fusing, predicted, updates, engineAt>>

FusionModes == {"first_only", "equal_mean", "token_weighted", "anchor_residual"}
Tokens == 0..(MaxChunks * ChunkSize)
FusionRequests == [positive : Tokens, negative : Tokens, unit : BOOLEAN,
                   mode : FusionModes, alpha : 0..AlphaUnit, steps : 1..MaxSteps]

Fraction(n, d) == <<n, d>>
Whole == Fraction(1, 1)
Same(p, q) == p[1] * q[2] = q[1] * p[2]
Larger(a, b) == IF a < b THEN b ELSE a
Total(counts) ==
    LET sum[n \in 0..Len(counts)] == IF n = 0 THEN 0 ELSE sum[n - 1] + counts[n]
    IN  sum[Len(counts)]
Rest(counts) == Total(Tail(counts))
Times(p, q) == Fraction(p[1] * q[1], p[2] * q[2])

-----------------------------------------------------------------------------
\* pair_tokens: a negative prompt that is not used makes no chunks.
Piece(n, i) == IF n <= (i - 1) * ChunkSize THEN 0
               ELSE IF n >= i * ChunkSize THEN ChunkSize ELSE n - (i - 1) * ChunkSize
ActiveTokens(r) == IF r.unit THEN r.positive ELSE Larger(r.positive, r.negative)
ChunkCount(r) == Larger(1, (ActiveTokens(r) + ChunkSize - 1) \div ChunkSize)
PairTokens(r) ==
    [i \in 1..ChunkCount(r) |-> [positive |-> Piece(r.positive, i), negative |-> Piece(r.negative, i)]]

\* sample_fused: chunks with no positive token at the end are dropped when the
\* negative prompt is not used, and every chunk counts at least 1.
SampledChunks(r) ==
    LET chunks == PairTokens(r)
        used == {i \in 2..Len(chunks) : chunks[i].positive # 0} \cup {1}
    IN  IF r.unit THEN SubSeq(chunks, 1, Max(used)) ELSE chunks
Counts(r, chunks) ==
    [i \in 1..Len(chunks) |->
        Max({1, chunks[i].positive, IF r.unit THEN 0 ELSE chunks[i].negative})]

Alpha(r) == Fraction(r.alpha, AlphaUnit)
OneMinusAlpha(r) == Fraction(AlphaUnit - r.alpha, AlphaUnit)

EngineWeights(r) ==
    LET counts == Counts(r, SampledChunks(r))   n == Len(counts)
    IN  [i \in 1..n |->
            CASE r.mode = "first_only" -> IF i = 1 THEN Whole ELSE Fraction(0, 1)
              [] r.mode = "equal_mean" -> Fraction(1, n)
              [] r.mode = "token_weighted" -> Fraction(counts[i], Total(counts))
              [] r.mode = "anchor_residual" ->
                   IF n = 1 THEN Whole ELSE IF i = 1 THEN OneMinusAlpha(r)
                   ELSE Times(Alpha(r), Fraction(counts[i], Rest(counts)))]

\* What the update really takes of each prediction: the anchor, and alpha of
\* the weighted residuals to it.
Coefficients(r) ==
    LET counts == Counts(r, SampledChunks(r))   n == Len(counts)
        residual(i) == Fraction(counts[i], Rest(counts))
    IN  [i \in 1..n |->
            IF r.mode = "first_only" \/ n = 1 THEN IF i = 1 THEN Whole ELSE Fraction(0, 1)
            ELSE CASE r.mode = "equal_mean" -> Fraction(1, n)
                   [] r.mode = "token_weighted" -> Fraction(counts[i], Total(counts))
                   [] OTHER -> IF i > 1 THEN Times(Alpha(r), residual(i))
                               ELSE Fraction(AlphaUnit * Rest(counts) - r.alpha * Rest(counts),
                                             AlphaUnit * Rest(counts))]

\* The service recomputes the weights from the counts of all chunks, as the
\* engine reports them.
ExpectedWeights(r) ==
    LET reported == PairTokens(r)   n == Len(reported)
        effective == [i \in 1..n |->
            Max({1, reported[i].positive, IF r.unit THEN 0 ELSE reported[i].negative})]
    IN  [i \in 1..n |->
            CASE r.mode = "first_only" -> IF i = 1 THEN Whole ELSE Fraction(0, 1)
              [] r.mode = "equal_mean" -> Fraction(1, n)
              [] r.mode = "token_weighted" -> Fraction(effective[i], Total(effective))
              [] OTHER -> IF n = 1 THEN Whole ELSE IF i = 1 THEN OneMinusAlpha(r)
                          ELSE Fraction(r.alpha * effective[i], AlphaUnit * Rest(effective))]

\* replay_fusion, on predictions that were exported with the chunks of this
\* engine; the documents of another one are left out.
ReplayWeights(r) ==
    LET chunks == SampledChunks(r)   n == Len(chunks)
        counts == [i \in 1..n |-> Larger(Larger(1, chunks[i].positive),
                                         IF r.unit THEN 0 ELSE chunks[i].negative)]
    IN  [i \in 1..n |->
            CASE r.mode = "first_only" -> IF i = 1 THEN Whole ELSE Fraction(0, 1)
              [] r.mode = "equal_mean" -> Fraction(1, n)
              [] r.mode = "token_weighted" -> Fraction(counts[i], Total(counts))
              [] OTHER -> IF n = 1 THEN Whole ELSE IF i = 1 THEN OneMinusAlpha(r)
                          ELSE Times(Alpha(r), Fraction(counts[i], Rest(counts)))]

-----------------------------------------------------------------------------
InitFusion ==
    /\ fusing \in FusionRequests /\ engineAt = "step" /\ updates = 0
    /\ predicted = [positive |-> 0, negative |-> 0]

\* Only the first chunk is predicted when only the first counts.
Needed == IF fusing.mode = "first_only" THEN 1 ELSE Len(SampledChunks(fusing))

PredictPositive ==
    /\ engineAt = "step" /\ predicted.positive < Needed
    /\ fusing.unit \/ predicted.negative = predicted.positive
    /\ predicted' = [predicted EXCEPT !.positive = @ + 1] /\ UNCHANGED <<fusing, updates, engineAt>>

PredictNegative ==
    /\ engineAt = "step" /\ ~fusing.unit /\ predicted.negative < predicted.positive
    /\ predicted' = [predicted EXCEPT !.negative = @ + 1] /\ UNCHANGED <<fusing, updates, engineAt>>

FuseStep ==
    /\ engineAt = "step" /\ predicted.positive = Needed
    /\ predicted.negative = IF fusing.unit THEN 0 ELSE Needed
    /\ updates' = updates + 1 /\ predicted' = [positive |-> 0, negative |-> 0]
    /\ engineAt' = (IF updates' = fusing.steps THEN "decode" ELSE "step") /\ UNCHANGED fusing

\* check_cancelled, a shape that does not fit, or a number that is not finite.
GiveUpFusion ==
    /\ engineAt = "step" /\ engineAt' = "raised" /\ UNCHANGED <<fusing, predicted, updates>>

FusionEngineNext == PredictPositive \/ PredictNegative \/ FuseStep \/ GiveUpFusion

-----------------------------------------------------------------------------
\* The weights an answer reports are those its images were made with, those
\* the service accepts and those a replay shows, for prompts of any length
\* (the service says they "must match the actual encoded counts",
\* research_image_service.py:222); they share out exactly one update, and every
\* token of the prompt is in a chunk that is predicted.
FusionAgrees ==
    LET weights == EngineWeights(fusing)
        agree(other) == Len(other) = Len(weights) /\ \A i \in 1..Len(weights) : Same(weights[i], other[i])
        common == ProductSet({weights[i][2] : i \in 1..Len(weights)})
    IN  /\ agree(Coefficients(fusing)) /\ agree(ExpectedWeights(fusing)) /\ agree(ReplayWeights(fusing))
        /\ Total([i \in 1..Len(weights) |-> weights[i][1] * (common \div weights[i][2])]) = common
        /\ Total([i \in 1..Len(SampledChunks(fusing)) |-> SampledChunks(fusing)[i].positive]) = fusing.positive
        /\ Len(weights) <= MaxChunks
        /\ engineAt = "decode" => updates = fusing.steps
=============================================================================
