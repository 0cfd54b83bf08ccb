SPECIFICATION Spec
CONSTANTS
    Call = {c1, c2, c3, c4}
    Endpoint = {w1, w2}
    Invalid = {w2}
    None = None
    Threshold = 1
    MaxIdle = 1
    MaxFailures = 2
SYMMETRY Symmetry
 
INVARIANT HalfOpenIsDecided
INVARIANT AnswerIsOwn
CHECK_DEADLOCK FALSE
