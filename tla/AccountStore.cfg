\* A server and a CLI process, two accounts.
SPECIFICATION FairSpec
CONSTANTS
    Accounts = {a1, a2}
    Callers = {c1, c3}
    Processes = {server_proc, cli_proc}
    ProcessOf <- OneEach
    Absent = Absent
    Free = Free
    Orphan = Orphan
    MaxIssued <- TwoAndOne
    a1 = a1
    a2 = a2
    c1 = c1
    c3 = c3
    server_proc = server_proc
    cli_proc = cli_proc
INVARIANTS MutualExclusion StoredGrantLive DisabledOnlyIfSpoiled RetryGetsNewToken NoRedundantRefresh
PROPERTIES ImplementsVault CallsEnd
CONSTRAINT Bounds
