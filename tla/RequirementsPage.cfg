SPECIFICATION Spec
CONSTANTS
    a = a
    b = b
    t1 = t1
    t2 = t2
    w1 = w1
    w2 = w2
    g = g
    c1 = c1
    Plain = Plain
    None = None
    Units <- MCUnits
    Texts <- MCTexts
    Words <- MCWords
    Gaps <- MCGaps
    Comments <- MCComments
    Jobs = {1, 2, 3}
    Slots = 2
    MaxChanged = 1
    Scenarios <- MCScenarios
SYMMETRY Symmetry
INVARIANTS
    
    ProposedOnce
PROPERTIES
    CommentsKept
CHECK_DEADLOCK FALSE
