SPECIFICATION FairSpec
CONSTANTS
    Job <- MCJob
    MaxRam = 40
    Reserve = 8
    CopyRows = 2
    RssLevels <- MCRss
INVARIANTS
    StreamInv
    ChunkFits
    BackOff
    WrittenAsPlanned
PROPERTIES
    Ends
CHECK_DEADLOCK TRUE
