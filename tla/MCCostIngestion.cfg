SPECIFICATION Spec
CONSTANTS
    Requests = {r1}
    Sweepers = {s1}
    None = None
    Files <- MCFiles
    Keys <- MCKeys
    Lines <- MCLines
    Payer <- MCPayer
    Unreadable <- MCUnreadable
    Unparsed <- MCUnparsed
    Connectors <- MCConnectors
    Months <- MCMonths
    Fixture <- MCFixture
    Loads <- MCLoads
    MaxLosses = 1
INVARIANTS
    EvidenceIsParsed
    NothingVanishes
PROPERTIES
    PostedAtOnceAndOnce
CHECK_DEADLOCK FALSE
