SPECIFICATION Spec
CONSTANTS
    Models <- MCModels
    ShardOrder <- MCShardOrder
    GgufFile <- MCGgufFile
    NoIndex = NoIndex
    NoVocab = NoVocab
    SupportedArchs <- MCArchs
    NameMap <- MCNameMap
    RoleOf <- MCRoleOf
    COPY_CHUNK = 100
INVARIANTS
    DataWhereReadersLook
CHECK_DEADLOCK TRUE
