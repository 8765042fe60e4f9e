\* Two accounts with the model; a session window, one of the model, a slow budget.
SPECIFICATION Spec
CONSTANTS
    Accounts = {a, b}
    Serving = {a, b}
    Shared = {}
    Session = {five_hour}
    ModelWindows = {opus}
    Foreign = {slow}
    MaxTime = 2
    Nothing = Nothing
SYMMETRY Symmetry
CONSTRAINT Few
CHECK_DEADLOCK FALSE
INVARIANTS NeverLate
