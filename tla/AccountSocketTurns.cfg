\* Three creates, the third not self-contained, and a frame that is no create;
\* a stream is reused, and several events may arrive at once.
SPECIFICATION FairSpecFromA
CONSTANTS
    Accounts = {a, b}
    NoAccount = NoAccount
    NumFrames = 4
    Streams = {Untagged, s1, s2, s3}
    Untagged = Untagged
    StreamOf <- Reused
    Creates = {1, 2, 3}
    Full = {1, 2}
    MaxConns = 3
    Batched = TRUE
    a = a
    s1 = s1
    s2 = s2
    s3 = s3
CHECK_DEADLOCK FALSE
INVARIANTS OneUpstream AtMostOncePerAccount InOrder
PROPERTIES HiddenIsResolved SentIsForwarded
