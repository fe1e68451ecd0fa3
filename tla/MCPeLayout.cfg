SPECIFICATION MapSpec
CONSTANTS
    FileAlignment = 16
    SectionAlignment = 32
    SectionVa = 256
    Word = 1024
    Page = 64
    Binaries <- MCBinaries
    VmEntries <- MCVmEntries
    CodeSizes <- MCCodeSizes
    DataAddresses <- MCDataAddresses
INVARIANTS
    MapTypeOK
    JumpsReachTheirCode
    AllCodeIsMapped
    RawDataFitsTheFile
    OldBytesAreKept
    PatchedWhereLifted
    RelocatedOnce
CHECK_DEADLOCK FALSE
