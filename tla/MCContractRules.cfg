SPECIFICATION Spec
CONSTANTS
    v1 = v1
    v2 = v2
    fee1 = fee1
    fee2 = fee2
    cut = cut
    cap = cap
    least = least
    tiers1 = tiers1
    q1 = q1
    q2 = q2
    a1 = a1
    Versions = {v1, v2}
    RuleVersions = {fee1, fee2, cut, cap, least, tiers1}
    Approvals = {a1}
    Requests = {q1, q2}
    Terms <- MCTerms
    Bindings <- MCBindings
    Spans <- MCSpans
    NoEnd = 0
    Threshold = 5000
    Bills <- MCBills
    Policy <- MCPolicy
    None = None
    Cent = 10
CONSTRAINT FewVersions
SYMMETRY RequestSymmetry
CHECK_DEADLOCK FALSE
INVARIANTS
    TypeOK
    RuleStaysPublished
    HighImpactWasApproved
    RunsReplay
    OriginalInputComposes
    RunsAddUp
