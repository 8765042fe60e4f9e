\* Two tabs of one account with two credits; three UUIDs.
SPECIFICATION Spec
CONSTANTS
    Tabs = {t1, t2}
    Credits = {c1, c2}
    MaxIds = 3
    Nothing = Nothing
SYMMETRY Symmetry
CHECK_DEADLOCK FALSE
INVARIANTS ReportTrue
PROPERTIES OneIdAtATime
