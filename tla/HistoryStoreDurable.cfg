\* Two calls, three records of two keys, memory for one.
SPECIFICATION Spec
CONSTANTS
    Keys = {k1, k2}
    Records = {r1, r2, r3}
    KeyOf <- Replies
    Calls = {c1, c2}
    Cap = 1
    None = None
    k1 = k1
    k2 = k2
    r1 = r1
    r2 = r2
    r3 = r3
SYMMETRY Symmetry
CONSTRAINT OneLoss
INVARIANTS TypeOK ReferencesResolve SavedSurvives SavedIsFound
