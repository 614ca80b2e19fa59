SPECIFICATION Spec
CONSTANTS
    Docs = {d1}
    Reviews = {r1, r2}
    Sessions = {s1, s2}
    Workers = {w1, w2}
    MaxRetries = 0
    MaxDispatches = 2
    MaxVersion = 1
SYMMETRY Symmetry
PROPERTIES
    DecisionIsFinal
\* HR may stop sending requests: the system then rests.
CHECK_DEADLOCK FALSE
