SPECIFICATION Spec
CONSTANTS
    one = one
    two = two
    api = api
    raw = raw
    ip1 = ip1
    ip2 = ip2
    Empty = Empty
    Absent = Absent
    Conn = {c1}
    Config <- MCConfig
    Host <- MCHost
    Addr <- MCAddr
    Verdict <- MCVerdict
    Passthrough <- MCPassthrough
    Deny <- MCDeny
    HasTls <- MCHasTls
    Answers <- MCAnswers
INVARIANT PassthroughRecorded
