\* The inbox loses its threads when a session is recovered.
CONSTANT Requests <- SmallRequests
SPECIFICATION Spec
PROPERTY RecoveryKeepsWork
CHECK_DEADLOCK FALSE
