SPECIFICATION Spec
CONSTANTS
    Full = 4
    Byte = 2
    w1 = w1
    w2 = w2
    n1 = n1
    n2 = n2
    a1 = a1
    a2 = a2
    p1 = p1
    f1 = f1
    f2 = f2
    cr0 = cr0
    dr7 = dr7
    Id <- MCFlagId
    Offset <- MCFlagOffset
    Size <- MCFlagSize
    LocalId <- MCFlagLocalId
    Physical = {"flags"}
    EntryGp <- MCFlagEntryGp
    Control = {}
    EntryControl <- MCEntryControl
    StoreSizes = {2, 4}
    Addresses = {0}
    MemWords = {6, 9}
    Instr <- MCTestInstr
PROPERTY ImplementsVtil
CHECK_DEADLOCK FALSE
