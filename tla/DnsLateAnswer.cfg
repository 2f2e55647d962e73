SPECIFICATION Spec
CONSTANTS
    fixed = fixed
    alias = alias
    corp = corp
    app = app
    None = None
    Malformed = Malformed
    Query = {q1, q2}
    Name <- MCName
    Record <- MCRecord
    Passthrough <- MCPassthrough
    Message <- Forwarded
    Port = {p1}
CHECK_DEADLOCK FALSE
INVARIANT AnswerIsOwn
