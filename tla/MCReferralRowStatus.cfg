\* One admin uploading a CSV; the status Put of a row may fail.
CONSTANTS
    Admins = {a1}
    Hashes = {h1, h2}
    PKIDs = {p1, p2}
    Terms = {c1}
    Nil = Nil
    BadBool = BadBool
    HashCollisions = FALSE
    MaxRequests = 1
    MaxRows = 1

SYMMETRY MCSymmetry
SPECIFICATION Spec
CHECK_DEADLOCK FALSE
PROPERTY RowCountedIsApplied
