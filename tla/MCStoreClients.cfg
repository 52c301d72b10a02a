SPECIFICATION FairSpec
CONSTANTS
    Clients = {c1, c2, c3}
    Configs <- FewConfigs
    Payloads <- FewPayloads
    Empty = ""
    NoClient = NoClient
    MaxPoints = 3
INVARIANTS TypeOK NoRace SnapshotReply
PROPERTIES ImplementsMetricsLog CallsReturn
