CONSTANTS
    v1 = v1
    v2 = v2
    p1 = p1
    p2 = p2
    p3 = p3
    None = None
    Slots = 1
    Views = {v1}
    Pages = {p1, p2}
    QueueMax = 2
    Policies = {0}
    Places = {0}
    Regions = {0}
    MaxSaid = 2
    MaxSent = 1
    MaxNav = 0
SPECIFICATION CefSpec
CHECK_DEADLOCK FALSE
INVARIANTS RepliesHeard
