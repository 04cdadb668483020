SPECIFICATION Spec
CONSTANTS
    Call = {c1, c2}
    p1 = p1
    p2 = p2
    Pr = {p1, p2}
    NoPr = NoPr
    w1 = w1
    w2 = w2
    Payload <- MCPayload
    MaxHead <- MCMaxHead
    MaxCalls = 4
    Asked <- MCAsked
    Sound <- MCSound
SYMMETRY MCSymmetry
INVARIANTS
    HandoffBound
    ReportsEarned
    AutomationReplays
    AutomationAgrees
    ClosedIsValidated
