CONSTANTS
    Config <- MCConfig
    NoAddress = NoAddress
    None = None
    MaxFailures = 1
    MaxRetry = 3

SPECIFICATION Spec

INVARIANT ShutdownDrainsAllListeners
