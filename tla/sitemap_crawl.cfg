CONSTANTS
    a = a
    b = b
    c = c
    d = d
    e = e
    Urls = {a, b, c, d, e}
    Workers = {w1, w2, w3}
    None = None
    Sites <- AllSites
    Cap = 4
    Interval = 3
    MaxFaults = 1
SPECIFICATION FairSpec
INVARIANTS TypeOK Accounted StoredWithinCap AskedOnce InDepth ConcludedIsClosed LittleAfterStop
PROPERTIES CrawlEnds
CHECK_DEADLOCK FALSE
