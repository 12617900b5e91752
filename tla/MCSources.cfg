SPECIFICATION Spec
CONSTANTS
    Models <- MCModels
    ShardOrder <- MCShardOrder
    GgufFile <- MCGgufFile
    NoIndex = NoIndex
    NoVocab = NoVocab
    SupportedArchs <- MCArchs
    NameMap <- MCNameMap
    RoleOf <- MCRoleOf
    COPY_CHUNK = 100
INVARIANTS
    TypeOK
    BytesInOrder
    ModelIsWhole
    PlanCanBeStreamed
    PlanIsReference
CHECK_DEADLOCK TRUE
