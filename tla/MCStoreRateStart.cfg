SPECIFICATION Spec
CONSTANTS
    Clients = {c1}
    Configs <- AllConfigs
    Payloads <- NumberPayloads
    Empty = ""
    NoClient = NoClient
    MaxPoints = 2
INVARIANTS LowestStart
