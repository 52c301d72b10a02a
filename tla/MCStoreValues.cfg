SPECIFICATION Spec
CONSTANTS
    Clients = {c1}
    Configs <- AllConfigs
    Payloads <- AllPayloads
    Empty = ""
    NoClient = NoClient
    MaxPoints = 3
INVARIANTS RateWindow
PROPERTIES ImplementsMetricsLog
