\* A destroy racing a receiver on its way to sleep.
CONSTANTS
    s1 = s1  s2 = s2  r1 = r1  r2 = r2  m1 = m1  m2 = m2
    Senders = {}
    Receivers = {r1}
    Owner = Owner
    Messages = {m1}
    NoMessage = NoMessage
    NoThread = NoThread
    Waits = {"forever"}
    msg_max = 3
    CreateFaults = {}
    DestroyInFlight = TRUE
    MaxCalls = 1
    MaxSpurious = 0
SPECIFICATION FairSpec
CHECK_DEADLOCK FALSE
PROPERTIES
    DestroyWakesReceivers
