SPECIFICATION Spec
CONSTANTS
    api = api
    other = other
    auth = auth
    id = id
    tok = tok
    cred = cred
    MaxLen = 4
    Host <- MCHost
    Header <- MCHeader
    Token = {tok}
    Credential = {cred}
    Configs <- MCConfigs
    Requests <- MCRequests
CHECK_DEADLOCK FALSE
INVARIANTS
    TypeOK
    RecordHoldsNoCredential
    DefaultDeny
    CustodyKept
    RequiredSwapped
    OverCapReadOnly
    TracesTellTheOutcome
