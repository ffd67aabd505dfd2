\* Creation that fails anywhere, and a destroy that runs during other calls.
CONSTANTS
    s1 = s1  s2 = s2  r1 = r1  r2 = r2  m1 = m1  m2 = m2
    Senders = {s1}
    Receivers = {r1, r2}
    Owner = Owner
    Messages = {m1}
    NoMessage = NoMessage
    NoThread = NoThread
    Waits = {"poll", "timed"}
    msg_max = 3
    CreateFaults = {"mq", "w_mutex", "r_mutex", "cond", "raw_queue"}
    DestroyInFlight = TRUE
    MaxCalls = 2
    MaxSpurious = 1
SPECIFICATION FairSpec
CHECK_DEADLOCK FALSE
PROPERTIES
    DestroyReturns
INVARIANTS
    PopNotCutShort
