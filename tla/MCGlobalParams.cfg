\* Two param-updater sessions whose builds, lookups and submissions
\* interleave, over two usernames and two keys.
CONSTANTS
    Admins = {a1, a2}
    Values = {0, 1}
    MaxRequests = 1
    Usernames = {u1, u2}
    PubKeys = {k1, k2}
SPECIFICATION Spec
\* The model stops once every request is made and mined.
CHECK_DEADLOCK FALSE
INVARIANT TypeOK
INVARIANT RequestLostOnlyToStaleView
PROPERTY SwapTradesNamedProfiles
