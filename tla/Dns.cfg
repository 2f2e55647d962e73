SPECIFICATION FairSpec
CONSTANTS
    fixed = fixed
    alias = alias
    corp = corp
    app = app
    None = None
    Malformed = Malformed
    Query = {q1, q2}
    Name <- MCName
    Record <- MCRecord
    Passthrough <- MCPassthrough
    Message <- MCMessage
    Port = {p1, p2}
CHECK_DEADLOCK FALSE
INVARIANTS
    RepliesTrue
    CountedOnce
PROPERTY QueriesAnswered
