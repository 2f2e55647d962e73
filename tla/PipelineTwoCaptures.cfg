SPECIFICATION Spec
CONSTANTS
    api = api
    other = other
    auth = auth
    id = id
    tok = tok
    cred = cred
    MaxLen = 4
    Host <- MCHost
    Header <- MCHeader
    Token = {tok}
    Credential = {cred}
    Configs <- CaptureTwice
    Requests <- MCRequests
CHECK_DEADLOCK FALSE
INVARIANT RecordHoldsNoCredential
