\* Two turns of one session, two accounts, fair scheduling.
SPECIFICATION FairSpec
CONSTANTS
    Accounts = {a, b}
    Keys = {onlyKey}
    Turns = {t1, t2}
    KeyOf <- OneSession
    Nothing = Nothing
    onlyKey = onlyKey
CHECK_DEADLOCK FALSE
INVARIANTS SelectionExclusive BindingDurable TriedOnce
PROPERTIES BindingKept TurnsAnswered
