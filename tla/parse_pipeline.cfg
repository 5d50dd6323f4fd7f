SPECIFICATION Spec
CONSTANTS
  p1 = p1
  p2 = p2
  home = home
  blog = blog
  s1 = s1
  s2 = s2
  A = A
  B = B
  None = None
  Runs = {p1, p2}
  Urls = {home, blog}
  Sources = {s1, s2}
  SourceOf <- TwoSources
  Contents = {A, B}
  Barren = {B}
  Scopes = {"unparsed"}
  MaxLog = 2
  MaxInFlight = 1
  MaxDeletes = 1
  MaxKills = 0
  MaxTries = 0
  Late = {}
INVARIANTS TypeOK OneDocumentPerFetch ScopeNormalized UnextractedIsExplained ExtractorRunSettles
SYMMETRY Symmetry
CHECK_DEADLOCK FALSE
