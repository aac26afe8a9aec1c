-------------------------------- MODULE Upscale --------------------------------
(***************************************************************************)
(* The optional doubling of an image: whether it is available              *)
(* (IdentityRefinements.upscale_status, an answer of a probe that is kept  *)
(* for a while under the signature of the files it depends on), and its    *)
(* computation tile by tile (tiled_forward in identity_upscale.py).        *)
(* Both axes of an image are cut alike: one is modelled.                   *)
(***************************************************************************)
EXTENDS Naturals, FiniteSetsExt

CONSTANTS
    NoStatus, NoPixel,
    MaxModelWrites,   \* changes of the files that the status depends on
    MaxStatusCalls,
    MaxSide, MaxTile, MaxPadding

ASSUME UpscaleAssumption ==
    /\ MaxSide \in Nat /\ MaxTile \in Nat /\ MaxPadding \in Nat /\ MaxModelWrites \in Nat
    /\ NoPixel \notin [at : Nat, from : Nat, until : Nat]

VARIABLES
    model,          \* version of the files
    capability,     \* the kept answer
    signature,      \* version in the key of the running call
    probed,         \* version that the probe looked at
    statusAt,       \* place of the call, which holds _upscale_probe_lock
    statusTold, statusFor,  \* the last answer, and the version when its call started
    statusCalls

VARIABLES side, tile, padding, left, pixels, tiling

statusVars == <<model, capability, signature, probed, statusAt, statusTold, statusFor, statusCalls>>
tileVars == <<side, tile, padding, left, pixels, tiling>>
upscaleVars == <<statusVars, tileVars>>

InitStatus ==
    /\ model = 0 /\ capability = NoStatus /\ signature = 0 /\ probed = 0 /\ statusAt = "free"
    /\ statusTold = NoStatus /\ statusFor = 0 /\ statusCalls = 0

\* The limits of tiled_forward, in small: any tile and halo that it accepts.
InitTiles ==
    /\ side \in 1..MaxSide /\ tile \in 1..MaxTile /\ padding \in 1..MaxPadding
    /\ left = 0 /\ pixels = [p \in 0..(side * 4 - 1) |-> NoPixel] /\ tiling = "on"

InitUpscale == InitStatus /\ InitTiles

-----------------------------------------------------------------------------
(* upscale_status                                                           *)

TellsStatus(answer) == statusTold' = answer /\ statusAt' = "free" /\ UNCHANGED <<model, signature, statusFor, statusCalls, probed>>

Unavailable == [ready |-> FALSE, of |-> 0]

\* The files are looked at once, for the key; without a model file no answer is kept.
AskStatus ==
    /\ statusAt = "free" /\ statusCalls < MaxStatusCalls /\ statusCalls' = statusCalls + 1
    /\ statusFor' = model
    /\ \/ signature' = model /\ statusAt' = "keyed" /\ UNCHANGED <<capability, statusTold>>
       \/ capability' = NoStatus /\ statusTold' = Unavailable /\ UNCHANGED <<signature, statusAt>>
    /\ UNCHANGED <<model, probed>>

\* The kept answer, while it has not expired.
KeptStatus ==
    /\ statusAt = "keyed" /\ capability # NoStatus /\ capability.key = signature
    /\ TellsStatus([ready |-> capability.ready, of |-> capability.of]) /\ UNCHANGED capability

\* It has expired, or is of other files: a worker is asked.
ProbeStatus ==
    /\ statusAt = "keyed" /\ statusAt' = "probing" /\ probed' = model
    /\ UNCHANGED <<model, capability, signature, statusTold, statusFor, statusCalls>>

\* Mutant: the key is taken when the answer is there.
KeepsStatusLate(answer) == capability' = [key |-> model, ready |-> answer.ready, of |-> answer.of]

\* The answer is kept under the key that was taken before the probe.
KeepsStatus(answer) == capability' = [key |-> signature, ready |-> answer.ready, of |-> answer.of]

\* A probe that fails or takes too long says that it is unavailable.
EndProbe ==
    /\ statusAt = "probing"
    /\ \E answer \in {Unavailable, [ready |-> TRUE, of |-> probed], [ready |-> FALSE, of |-> probed]} :
         KeepsStatus(answer) /\ TellsStatus(answer)

ChangeModel ==
    /\ model < MaxModelWrites /\ model' = model + 1
    /\ UNCHANGED <<capability, signature, probed, statusAt, statusTold, statusFor, statusCalls>>

StatusNext == (AskStatus \/ KeptStatus \/ ProbeStatus \/ EndProbe \/ ChangeModel) /\ UNCHANGED tileVars

-----------------------------------------------------------------------------
(* tiled_forward                                                            *)

Right == Min({left + tile, side})
\* The tile with its halo, inside the image.
From == IF left > padding THEN left - padding ELSE 0
Until == Min({side, Right + padding})

\* The pixel that the model makes at a place of its part, by where it belongs.
Made(place) == [at |-> From * 4 + place, from |-> From, until |-> Until]

\* Mutant: the halo is not cut off.
UncutTile == [p \in DOMAIN pixels |-> IF p \in (left * 4)..(Right * 4 - 1) THEN Made(p - left * 4) ELSE pixels[p]]

\* The tile without its halo goes to its place in the output.
WithTile == [p \in DOMAIN pixels |-> IF p \in (left * 4)..(Right * 4 - 1)
                THEN Made((left - From) * 4 + (p - left * 4)) ELSE pixels[p]]

\* A tile with a wrong size or a value that is not finite ends it all.
NextTile ==
    /\ tiling = "on" /\ left < side /\ UNCHANGED <<side, tile, padding>>
    /\ \/ pixels' = WithTile /\ left' = left + tile /\ UNCHANGED tiling
       \/ tiling' = "failed" /\ UNCHANGED <<pixels, left>>

LastTile == tiling = "on" /\ left >= side /\ tiling' = "done" /\ UNCHANGED <<side, tile, padding, left, pixels>>

TilesNext == (NextTile \/ LastTile) /\ UNCHANGED statusVars

-----------------------------------------------------------------------------
UpscaleTypeOK ==
    /\ model \in 0..MaxModelWrites /\ statusAt \in {"free", "keyed", "probing"}
    /\ tiling \in {"on", "failed", "done"}

\* A client that is told that doubling is available is told so of the files as
\* they were when it asked or later, never of files replaced before it asked.
StatusFresh == statusAt = "free" /\ statusTold # NoStatus => (statusTold.ready => statusTold.of >= statusFor)

\* Every pixel of a finished image is the model's pixel of that very place, made
\* with the whole halo around it that the image has.
TilesWhole == tiling = "done" => \A p \in DOMAIN pixels :
    LET here == p \div 4 IN
    /\ pixels[p] # NoPixel /\ pixels[p].at = p
    /\ pixels[p].from + padding <= here \/ pixels[p].from = 0
    /\ pixels[p].until >= Min({side, here + 1 + padding})
=============================================================================
