CONSTANTS
    Sources = {s1}
    Runs = {r1, r2}
    Handlers = {h1, h2}
    None = None
    SourceKinds = {"sitemap"}
    SourceStatuses = {"active"}
    Crawled = {}
    RunKinds = {"sitemap"}
    Items = 0
    MaxTries = 0
SPECIFICATION Spec
SYMMETRY Symmetric
INVARIANTS OneActivePerSlot FinishedTold GoneTogether
PROPERTIES ImplementsRunSlots
CHECK_DEADLOCK FALSE
