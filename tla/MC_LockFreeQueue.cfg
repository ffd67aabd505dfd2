\* Messages of three bytes in a ring of three: it wraps after any history.  The
\* state space is finite without a bound on the number of calls.
CONSTANTS
    m1 = m1  m2 = m2
    Messages = {m1, m2}
    NoMessage = NoMessage
    msg_size = 3
    msg_max = 3
    Uint32 = 16
SPECIFICATION Spec
INVARIANTS
    NeverSplit
    CopiesDisjoint
PROPERTY
    ImplementsMessageQueue
