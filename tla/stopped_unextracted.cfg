SPECIFICATION Spec
CONSTANTS
  p1 = p1
  p2 = p2
  home = home
  blog = blog
  s1 = s1
  s2 = s2
  A = A
  B = B
  None = None
  Runs = {p1, p2}
  Urls = {home}
  Sources = {s1}
  SourceOf <- OneSource
  Contents = {A, B}
  Barren = {}
  Scopes = {"unparsed"}
  MaxLog = 1
  MaxInFlight = 1
  MaxDeletes = 0
  MaxKills = 0
  MaxTries = 0
  Late = {}
INVARIANT DrainedIsExtracted
CHECK_DEADLOCK FALSE
