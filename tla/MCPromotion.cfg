SPECIFICATION Spec
CONSTANTS
    a = a
    other = other
    b = b
    v1 = v1
    v2 = v2
    h1 = h1
    h2 = h2
    h3 = h3
    sdk1 = sdk1
    sdk2 = sdk2
    sdk3 = sdk3
    src1 = src1
    src2 = src2
    src3 = src3
    Channel = Channel
    Incomplete = Incomplete
    None = None
    Candidates = {a, other, b}
    Versions = {v1, v2}
    Heads = {h1, h2, h3}
    Digests = {sdk1, sdk2, sdk3, src1, src2, src3}
    VersionOf <- MCVersionOf
    HeadOf <- MCHeadOf
    SdkOf <- MCSdkOf
    SourceOf <- MCSourceOf
    Interventions = {"rollback", "tag", "discard", "repair"}
    MaxFaults = 1
INVARIANTS
    Inv
    ReleaseMatchesTags
    ChannelsFollowVersions
    ChannelsPaired
PROPERTIES
    VersionTagsImmutable
    RollbackToPublishedOnly
CHECK_DEADLOCK FALSE
