SPECIFICATION FairSpec
CONSTANTS
    Fds <- Two
    Masks <- In
    max_counts = 2
    BufferSizes = {1}
    AlwaysReady <- TwoReady
    mlock_disable = TRUE
PROPERTIES
    AllConnectionsChecked
