\* Two readers of the usage of a Codex account with reset credits.
SPECIFICATION UsageSpec
CONSTANTS
    Calls = {c1, c2}
    Providers = {"codex"}
    TTL = 3
    Deadline = 2
    Wait = 1
    MaxCooldown = 2
    Nobody = Nobody
INVARIANTS FreshAfterReset
