CONSTANTS
    Admins = {a1, a2}
    Hashes = {h1, h2}
    PKIDs = {p1, p2}
    Terms = {c1}
    Nil = Nil
    BadBool = BadBool
    HashCollisions = FALSE
    MaxRequests = 1
    MaxRows = 2

SYMMETRY MCSymmetry
SPECIFICATION Spec
CONSTANT Rows <- MCParsedRows
\* Each admin sends MaxRequests requests and then none: the model stops there.
CHECK_DEADLOCK FALSE
INVARIANT UpdateKeepsReferrer
