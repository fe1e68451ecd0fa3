SPECIFICATION Spec
CONSTANTS
    Parsers <- MCParsers
    CommandLines <- MCCommandLines
INVARIANTS
    TypeOK
    ValuesReachTheirNames
    CountsAreKept
CHECK_DEADLOCK FALSE
