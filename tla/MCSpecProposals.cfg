CONSTANTS
    s1 = s1
    s2 = s2
    s3 = s3
    x = x
    epochstorage = epochstorage
    ss2 = ss2
    k1 = k1
    latest = latest
    v1 = v1
    Malformed = Malformed
    UnknownSubspace = UnknownSubspace
    NoSpec = NoSpec
    Indices <- MCIndices
    Apis <- MCApis
    ProposalSpecs <- MCProposalSpecs
    MaxProposalSpecs = 2
    Subspaces <- MCSubspaces
    EPOCHSTORAGE = epochstorage
    ParamKeys <- MCParamKeys
    LATEST_PARAM_CHANGE = latest
    Values <- MCValues
    MaxChanges = 2
    MaxBlock = 2
SPECIFICATION Specification
INVARIANT TypeOK
INVARIANT ImportsFirstAccepted
