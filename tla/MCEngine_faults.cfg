SPECIFICATION Spec
CONSTANTS
    q8 = q8
    q4 = q4
    v1 = v1
    v2 = v2
    NoManifest = NoManifest
    NoHash = NoHash
    ALIGN <- MCALIGN
    Plans = {1, 2, 3, 4}
    HeaderLen <- MCHeaderLen
    Nbytes <- MCNbytes
    Offset <- MCOffset
    Capacity <- MCCapacity
    Formats <- Both
    Versions <- TwoVersions
    Stat <- FileStat
    PlanOf <- FilePlans
    Faults <- AllButPower
    SwapPoints <- Writing
    MaxBad = 2
INVARIANTS
    TypeOK
    SuccessMeansIdentical
    ManifestTruthful
    CommittedBytesPresent
    CompleteIsTrue
    NoDrift
    RecordInv
PROPERTIES
    NeverUncommit
    CommittedUntouched
CHECK_DEADLOCK TRUE
