\* Two admins, each sending one request: a create, an update or an upload
\* of a file of up to two rows, against two links and one referrer, with
\* hash collisions allowed.
CONSTANTS
    Admins = {a1, a2}
    Hashes = {h1, h2}
    PKIDs = {p1}
    Terms = {c1}
    Nil = Nil
    BadBool = BadBool
    HashCollisions = TRUE
    MaxRequests = 1
    MaxRows = 2

SYMMETRY MCSymmetry
SPECIFICATION Spec
\* Each admin sends MaxRequests requests and then none: the model stops there.
CHECK_DEADLOCK FALSE
INVARIANT TypeOK
INVARIANT ListingNeverShowsMissingInfo
