SPECIFICATION FairSpec
CONSTANTS
  p1 = p1
  p2 = p2
  home = home
  blog = blog
  s1 = s1
  s2 = s2
  A = A
  B = B
  None = None
  Runs = {p1}
  Urls = {home}
  Sources = {s1}
  SourceOf <- OneSource
  Contents = {A, B}
  Barren = {}
  Scopes = {"unparsed", "all"}
  MaxLog = 3
  MaxInFlight = 2
  MaxDeletes = 0
  MaxKills = 2
  MaxTries = 2
  Late = {p1}
INVARIANTS UnchangedBodiesResolve PaidOncePerRun
PROPERTIES ParseEnds LinksWithinSnapshot
CHECK_DEADLOCK FALSE
