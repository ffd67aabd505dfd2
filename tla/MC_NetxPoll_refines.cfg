SPECIFICATION Spec
CONSTANTS
    Fds <- TwoBuckets
    Masks <- InOrBoth
    max_counts = 2
    BufferSizes = {1, 2}
    AlwaysReady <- Nothing
    mlock_disable = FALSE
PROPERTIES
    ImplementsEventPoll
