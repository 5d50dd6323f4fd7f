CONSTANTS
    Sources = {s1}
    Runs = {r1, r2}
    Handlers = {h1}
    None = None
    SourceKinds = {"seed"}
    SourceStatuses = {"active"}
    Crawled = {}
    RunKinds = {"seed"}
    Items = 0
    MaxTries = 0
SPECIFICATION Spec
PROPERTIES StoppedIsNotCompleted
CHECK_DEADLOCK FALSE
