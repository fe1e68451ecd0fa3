SPECIFICATION Spec
CONSTANTS
    RegBytes = 2
    ContextRegs = 2
    Byte = {0, 1, 2, 3, 4, 5, 6, 7, 8, 9, 10, 11, 12, 13, 14}
    Consts <- MCConsts
    VmentryPushOrder <- MCPushOrder
    EntryMemory <- MCEntryMemory
    EntrySpecial <- MCEntrySpecial
    StackPointer <- MCStackPointer
    EntryNative <- MCEntryNative
    Return <- MCReturn
    MaxStack = 4
    MaxInstrs = 7
INVARIANT TypeOK
PROPERTIES
    RegistersRestored
    KeepsContext
CHECK_DEADLOCK FALSE
