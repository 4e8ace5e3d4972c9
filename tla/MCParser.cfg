CONSTANTS
    Inputs <- MCInputs
    BlockParsers <- WellFormedParsers
    DataSources <- MCDataSources
    BlockTexts <- MCBlockTexts
    LATEST_BLOCK <- MCLatest
    EARLIEST_BLOCK <- MCEarliest
    PENDING_BLOCK <- MCPending
    SAFE_BLOCK <- MCSafe
    FINALIZED_BLOCK <- MCFinalized
    NOT_APPLICABLE <- MCNotApplicable
    None = None
SPECIFICATION Spec
\* Each behaviour is a single call; it ends once the call has returned.
CHECK_DEADLOCK FALSE
INVARIANT ParseMatchesSpec
INVARIANT BlockHeightMatchesSpec
