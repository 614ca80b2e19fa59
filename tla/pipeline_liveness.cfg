SPECIFICATION FairSpec
CONSTANTS
    Docs = {d1}
    Reviews = {r1, r2}
    Sessions = {s1, s2}
    Workers = {w1}
    MaxRetries = 1
    MaxDispatches = 2
    MaxVersion = 0
INVARIANTS
    OpenReviewsPerSlot
PROPERTIES
    ParsingEnds
    QueueDrains
    RequestsEnd
\* HR may stop sending requests: the system then rests.
CHECK_DEADLOCK FALSE
