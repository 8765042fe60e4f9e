\* A pasted and a device login, two /complete requests.
SPECIFICATION FairSpec
CONSTANTS
    Flows = {pasted, device}
    Device = {device}
    Requests = {q1, q2}
    Life = 2
    Grace = 3
    Patience = 1
INVARIANTS TypeOK OneUse CompletedIsStored OutcomeReadable
PROPERTIES LoginsEnd
