\* Two accounts, bodies of one to three events in chunks of one to four symbols.
SPECIFICATION Spec
CONSTANTS
    MaxAttempts = 2
    Bodies <- EventBodies
    MaxChunk = 4
    Limit = 3
    Streams <- MessageBodies
CHECK_DEADLOCK FALSE
INVARIANTS CountedOnce DeliveredIntact ObservedExactly SavedBeforeSeen UpstreamReleased
PROPERTIES RetriedUnseen EveryAttemptCounted
