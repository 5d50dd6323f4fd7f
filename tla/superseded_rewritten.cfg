CONSTANTS
    Sources = {s1}
    Runs = {r1, r2}
    Handlers = {h1}
    None = None
    SourceKinds = {"sitemap"}
    SourceStatuses = {"active"}
    Crawled = {}
    RunKinds = {"sitemap", "parse"}
    Items = 0
    MaxTries = 0
SPECIFICATION Spec
PROPERTIES SupersededIsFinal
CHECK_DEADLOCK FALSE
