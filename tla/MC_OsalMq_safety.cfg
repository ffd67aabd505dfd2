\* Two senders and two receivers, of which one thread is both, over a ring of
\* three slots, and a destroy that no call overlaps.  Receivers may be left
\* blocked for ever.
CONSTANTS
    s1 = s1  s2 = s2  r1 = r1  r2 = r2  m1 = m1  m2 = m2
    Senders = {s1, s2}
    Receivers = {r1, s2}
    Owner = Owner
    Messages = {m1, m2}
    NoMessage = NoMessage
    NoThread = NoThread
    Waits = {"poll", "timed", "forever"}
    msg_max = 3
    CreateFaults = {"mq", "w_mutex", "r_mutex"}
    DestroyInFlight = FALSE
    MaxCalls = 2
    MaxSpurious = 1
SYMMETRY MessageSymmetry
SPECIFICATION Spec
CHECK_DEADLOCK FALSE
INVARIANTS
    TypeOK
    NoSlotOverlap
    NoLostWakeup
    DestroyReleasesAll
    NoUseAfterFree
PROPERTY
    ImplementsMessageQueue
