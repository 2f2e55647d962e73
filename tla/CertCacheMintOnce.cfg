SPECIFICATION Spec
CONSTANTS
    Task = {t1, t2}
    Target = {a, b}
    Capacity = 2
    Failed = Failed
    None = None
CHECK_DEADLOCK FALSE
INVARIANT MintOnce
