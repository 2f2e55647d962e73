SPECIFICATION FairSpec
CONSTANTS
    Task = {t1, t2, t3}
    Target = {a, b}
    Capacity = 1
    Failed = Failed
    None = None
CHECK_DEADLOCK FALSE
INVARIANTS
    OneMinter
    LeafForTarget
    WaiterServedByFlight
PROPERTY WaitersReturn
