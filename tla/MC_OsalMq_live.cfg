\* Liveness, with a thread that both sends and receives.  No symmetry, which
\* would be unsound here; all calls may have been made, so the system may stop.
CONSTANTS
    s1 = s1  s2 = s2  r1 = r1  r2 = r2  m1 = m1  m2 = m2
    Senders = {s1, s2}
    Receivers = {r1, s2}
    Owner = Owner
    Messages = {m1}
    NoMessage = NoMessage
    NoThread = NoThread
    Waits = {"timed", "forever"}
    msg_max = 3
    CreateFaults = {}
    DestroyInFlight = FALSE
    MaxCalls = 2
    MaxSpurious = 1
SPECIFICATION FairSpec
CHECK_DEADLOCK FALSE
PROPERTIES
    BoundedCallsReturn
    BlockedReceiverServed
