CONSTANTS
    Items = 2
    None = None
    Steps = 2
    MaxEdits = 1
    NoReport = NoReport
    MaxRepairFaults = 1
    MaxRepairStops = 1
    MaxRepairTries = 2
    Versions = {v1, v2}
    RequestIds = {r1, r2}
    NoVersion = NoVersion
    MaxWriteFaults = 1
    MaxExits = 1
    Animes = {a1}
    ProfileJobs = {j1, j2}
    NoProfile = NoProfile
    MaxRenames = 1
    MaxSaveFaults = 1
    MaxRestarts = 1
    ChunkSize = 2
    MaxChunks = 3
    AlphaUnit = 2
    MaxSteps = 2
    Experiments = {x1, x2}
    FusionIds = {f1, f2}
    NoExperiment = NoExperiment
    ModeCount = 2
    MaxModelEdits = 1
    MaxDamages = 1
    MaxFusionFaults = 1
    MaxFusionExits = 1
    ResearchItems = 2
    DenoiseSteps = 3
    MaxLostWrites = 2
    MaxCredentials = 2
    MaxPages = 2
    MaxCalls = 3
    VariantCount = 2
    MaxPromptExits = 1
    Contents = {c1, c2}
    NoContent = NoContent
    MaxAssetEdits = 2
    MaxRestores = 2
    MaxRequests = 4
    NoStatus = NoStatus
    NoPixel = NoPixel
    MaxModelWrites = 3
    MaxStatusCalls = 3
    MaxSide = 7
    MaxTile = 3
    MaxPadding = 2
SPECIFICATION Spec
CHECK_DEADLOCK FALSE
INVARIANTS SessionSound HqHonest EditsSound ProfilesSound ResearchSound
