\* A question of every kind, sessions of three to five requests.
CONSTANT Requests <- SmallRequests
SPECIFICATION Spec
INVARIANT TypeOK
PROPERTIES
    PassIsDeserved
    FailIsDeserved
\* A session that is over needs nothing more.
CHECK_DEADLOCK FALSE
