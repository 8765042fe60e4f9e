\* Three self-contained creates, none with a stream_id.
SPECIFICATION Spec
CONSTANTS
    Accounts = {a, b}
    NoAccount = NoAccount
    NumFrames = 3
    Streams = {Untagged, s1, s2, s3}
    Untagged = Untagged
    StreamOf <- Unmarked
    Creates = {1, 2, 3}
    Full = {1, 2, 3}
    MaxConns = 3
    Batched = FALSE
    a = a
    s1 = s1
    s2 = s2
    s3 = s3
CHECK_DEADLOCK FALSE
PROPERTIES NothingSeenReplayed
