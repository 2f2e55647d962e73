SPECIFICATION Spec
CONSTANTS
    Char <- MCChar
    Err = Err
    Absent = Absent
    Null = Null
    Key <- MCKey
    Word <- MCWord
    Invalid = Invalid
    Nothing = Nothing
    Width4 = 3
    Width6 = 5
    Mapped = 2
    BUCKETS <- MCBuckets
    Record <- MCRecord
    MaxRecords = 3
    GlobCases <- MCGlob
    CidrCases <- MCCidr
    PathCases <- MCPath
    HeaderCases <- MCHeader
    RuleCases <- MCRule
    ByteCases <- MCBytes
    TextCases <- MCText
    ReplaceCases <- MCReplace
    QueryCases <- MCQuery
    AuthorityCases <- MCAuthority
    SocksCases <- MCSocks
    HelloCases <- MCHello
    NameCases <- MCName
    HopCases <- MCHop
    LoadCases <- MCLoad
    HostSpace <- MCHostSpace
INVARIANTS
    MatchersAgree
    CodecsAgree
    WireAgree
    MetricsAgree
    LoadSound
