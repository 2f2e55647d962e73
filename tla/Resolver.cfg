SPECIFICATION Spec
CONSTANTS
    file = file
    user = user
    pass = pass
    short = short
    long = long
    other = other
    Bad = Bad
    Forever = Forever
    None = None
    Thread = {t1, t2}
    Source <- MCSource
    Name <- MCName
    JsonKey <- MCJsonKey
    NameOf <- MCNameOf
    JsonKeyOf <- MCJsonKeyOf
    Ttl <- MCTtl
    FailureTtl <- MCFailureTtl
    Rotating <- MCRotating
    Value = {v, w}
    MaxTime = 4
SYMMETRY Symmetry
PROPERTIES
    ValueGenuine
    PicksUpRotation
    RecoversFromFailure
    NeverForgets
    RetriesAtHalfTtl
