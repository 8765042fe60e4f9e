\* Two readers of the usage of a Claude or Codex account.
SPECIFICATION UsageSpec
CONSTANTS
    Calls = {c1, c2}
    Providers = {"claude", "codex"}
    TTL = 3
    Deadline = 2
    Wait = 1
    MaxCooldown = 2
    Nobody = Nobody
SYMMETRY Symmetry
INVARIANTS RecheckedAfterLimit FailureNotCached
PROPERTIES BoundedStaleness
