CONSTANTS
    Config <- MCConfig
    NoAddress = NoAddress
    None = None
    MaxFailures = 1
    MaxRetry = 3

SPECIFICATION Spec

INVARIANT OneTrackerPerChain
INVARIANT OneListenerPerAddress
INVARIANT UsableEndpointOnBoot
INVARIANT MetricsShowEnabledKeys
PROPERTY EnabledStaysServing
PROPERTY SetupReturns
PROPERTY UsableEndpointsEventuallyServe
PROPERTY LifecycleRefinement
