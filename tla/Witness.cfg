SPECIFICATION FairSpec
CONSTANTS
    w1 = w1
    w2 = w2
    p1 = p1
    Witnesses = {w1, w2}
    Polls = {p1}
    MaxEntries = 2
    Fooled = {w2}
INVARIANT NoFalseProof
 
PROPERTY SplitOrCosigned
CHECK_DEADLOCK FALSE
