SPECIFICATION Spec
CONSTANTS
    q8 = q8
    q4 = q4
    v1 = v1
    v2 = v2
    NoManifest = NoManifest
    NoHash = NoHash
    ALIGN <- MCALIGN
    Plans = {1, 2, 3, 4}
    HeaderLen <- MCHeaderLen
    Nbytes <- MCNbytes
    Offset <- MCOffset
    Capacity <- MCCapacity
    Formats <- OneFormat
    Versions <- TwoVersions
    Stat <- DirStat
    PlanOf <- SamePlans
    Faults <- CrashesAndEdits
    SwapPoints = {}
    MaxBad = 0
INVARIANTS
    SuccessMeansIdentical
CHECK_DEADLOCK TRUE
