-------------------------- MODULE MCReleaseLedger --------------------------
EXTENDS ReleaseLedger, TLC
CONSTANTS k1, k2, s1, s2
T(a, k, r) == [action |-> a, key |-> k, reason |-> r]
MCTask == {T("reserve", k1, "-"), T("reserve", k2, "-"), T("publish", k1, "-"),
           T("abandon", k1, "superseded")}
MCFirstFamily == [floor |-> 1, offset |-> 1]
MCFamily == {MCFirstFamily, [floor |-> 1, offset |-> 0]}
MCSymmetry == Permutations(Second)
=============================================================================
