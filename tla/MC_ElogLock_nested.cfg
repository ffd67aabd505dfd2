\* A flow may wait for the lock that it holds itself.
SPECIFICATION Spec
CHECK_DEADLOCK FALSE
CONSTANTS
    MaxSwitches = 1
    MaxDepth = 2
INVARIANTS
    HeldWhileInside
