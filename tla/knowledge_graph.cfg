SPECIFICATION Spec
CONSTANTS
  home = home
  blog = blog
  h1 = h1
  h2 = h2
  b1 = b1
  b2 = b2
  b3 = b3
  own = own
  shared = shared
  post = post
  rOwn = rOwn
  rPost = rPost
  rShared = rShared
  c1 = c1
  c2 = c2
  mA = mA
  mB = mB
  ann = ann
  bob = bob
  cy = cy
  kAB = kAB
  kBA = kBA
  kAC = kAC
  x1 = x1
  nAnn = nAnn
  nann = nann
  nBob = nBob
  s1 = s1
  s2 = s2
  None = None
  Sources = {home, blog}
  Fetches = {h1, h2, b1, b2, b3}
  Docs = {own, shared, post}
  Raws = {rOwn, rPost, rShared}
  Claims = {c1, c2}
  Mentions = {mA, mB}
  Entities = {ann, bob, cy}
  Candidates = {kAB, kBA, kAC}
  Conflicts = {x1}
  Texts = {nAnn, nann, nBob}
  Sessions = {s1, s2}
  SourceOf <- SourceFn
  Content <- ContentFn
  DocOf <- DocFn
  RawOf <- RawFn
  NameOf <- NameFn
  TextOf <- TextFn
  Fold <- FoldFn
  Key <- FoldFn
  Invalid = {cy}
  Graphs <- OneGraph
  MaxRequests = 4
INVARIANTS TypeOK FirstSeenLinked UndisturbedCommits ClaimsSupported MergedHoldNothing MergeTookEffect OneAliasPerSpelling
SYMMETRY Symmetry
CHECK_DEADLOCK FALSE
