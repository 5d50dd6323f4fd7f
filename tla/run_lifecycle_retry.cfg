CONSTANTS
    Sources = {s1}
    Runs = {r1}
    Handlers = {h1, h2}
    None = None
    SourceKinds = {"seed", "enrichment"}
    SourceStatuses = {"active", "archived"}
    Crawled = {s1}
    RunKinds = {"seed", "enrichment", "parse"}
    Items = 1
    MaxTries = 1
SPECIFICATION FairSpec
INVARIANTS EndedJobSettles
PROPERTIES StrandedOnlyByCrash RunningEnds
CHECK_DEADLOCK FALSE
