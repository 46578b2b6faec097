CONSTANTS
    v1 = v1
    v2 = v2
    p1 = p1
    p2 = p2
    p3 = p3
    None = None
    Slots = 1
    Views = {v1, v2}
    Pages = {p1, p2}
    QueueMax = 2
    Policies = {0, 1, 2}
    Places = {0, 1}
    Regions = {0}
    MaxSaid = 3
    MaxSent = 1
    MaxNav = 2
SPECIFICATION CefSpec
CHECK_DEADLOCK FALSE
INVARIANTS PagesOwned QueueInOrder ClipInForce PopupsAccounted WaitersAnswered
CONSTRAINT OneKind
SYMMETRY Symmetry
