CONSTANTS
    Statuses = {200, 500}
    MaxOtherTxns = 3

SPECIFICATION Spec
\* UpdateProfile has returned, or waits on a node that never answers, and
\* the node's other transactions are bounded: such a state has no successor.
CHECK_DEADLOCK FALSE
PROPERTY UpdateProfileRefinesSpec
