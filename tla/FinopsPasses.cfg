SPECIFICATION PassesSpec
CONSTANTS
    Kinds = {"anomaly", "recommendation", "finding", "budget"}
    Passes = {p1, p2}
    Users = {u1}
    MaxMonth = 1
    MaxAlerts = 2
    MaxLostPasses = 1
    None = None
INVARIANTS
    ClaimsAreBacked
PROPERTIES
    FactsAreShown
CHECK_DEADLOCK FALSE
