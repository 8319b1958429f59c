SPECIFICATION Spec
CONSTANTS
    r1 = r1
    q1 = q1
    q2 = q2
    Ranges = {r1}
    Queries = {q1, q2}
    OwnedFirst = {}
    MaxVersion = 5
    MaxQueued = 2
    MaxClears = 1
INVARIANT OrphansOnly
SYMMETRY MCSymmetry
