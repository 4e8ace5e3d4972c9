CONSTANTS
    v1 = v1
    v2 = v2
    p1 = p1
    p2 = p2
    empty = empty
    Validators <- MCValidators
    Providers <- MCProviders
    EMPTY_PROVIDER = empty
    MaxTokens = 3
SPECIFICATION Spec
INVARIANT TypeOK
INVARIANT ProvidersMirrorValidators
