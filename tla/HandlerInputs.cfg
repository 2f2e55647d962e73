SPECIFICATION FairSpec
CONSTANTS
    open = open
    strict = strict
    api = api
    other = other
    ip1 = ip1
    ip2 = ip2
    Empty = Empty
    Absent = Absent
    Config <- MCConfig
    Host <- MCHost
    Addr <- MCAddr
    Verdict <- MCVerdict
    Deny <- MCDeny
    Cap <- MCCap
    Answers <- MCAnswers
    MaxFrame = 2
    Request = {r1}
    Legs <- AllLegs
    Heads <- AllHeads
    OnResponse <- Failing
INVARIANTS
    AuditTotality
    PolicyBeforeDial
    GuardedDials
    BufferBounded
    RecordExplains
PROPERTIES
    RequestsFinish
    ImplementsBoundary
