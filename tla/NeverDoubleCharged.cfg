SPECIFICATION Spec
CONSTANTS
    Requests = {r1}
    Sweepers = {s1}
    None = None
    Files <- MCFiles
    Keys <- MCKeys
    Lines <- MCLines
    Payer <- MCPayer
    Unreadable <- MCUnreadable
    Unparsed <- MCUnparsed
    Connectors <- MCConnectors
    Months <- MCMonths
    Fixture <- MCFixture
    Loads <- MCLoads
    MaxLosses = 0
INVARIANT NeverDoubleCharged
CHECK_DEADLOCK FALSE
