SPECIFICATION Spec
CONSTANTS
    Clients = {c1}
    Configs <- AllConfigs
    Payloads <- HistPayloads
    Empty = ""
    NoClient = NoClient
    MaxPoints = 2
PROPERTIES IgnoresUnsupported
