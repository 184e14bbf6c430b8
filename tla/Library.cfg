SPECIFICATION MCSpec
CONSTANTS
  Slot <- MCSlot
  Kind <- MCKind
  Number <- MCNumber
  Slug <- MCSlug
  Nested <- MCNested
  File <- MCFile
  Dir <- MCDir
  DirOf <- MCDirOf
  Name <- MCName
  Loose <- MCLoose
  Near <- MCNear
  Code <- MCCode
  MaxCode = 2
  Client = {c1, c2}
  Successors = {login}
  Ttl = 0
  CuratorTtl = 1
  Acts = 2
  Commits = 1
  None = None
  login = login
  log_in = log_in
  retry = retry
  f1 = f1
  d1 = d1
  c1 = c1
  c2 = c2
SYMMETRY MCSymmetry
CHECK_DEADLOCK FALSE
INVARIANTS LibraryTypeOK CodesUnique
PROPERTIES LinksSurviveExpiry CuratorKeepsLinked
