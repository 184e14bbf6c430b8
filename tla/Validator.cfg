SPECIFICATION MCSpec
CONSTANTS
  Slot <- MCSlot
  Kind <- MCKind
  Number <- MCNumber
  Slug <- MCSlug
  Nested = {6}
  File = {f1, f2}
  Dir = {d1, d2}
  DirOf <- MCDirOf
  Name = {login, retry}
  Loose <- MCLoose
  Near <- MCLoose
  Code <- MCCode
  Above <- MCAbove
  Imports <- MCImports
  Ignored = {}
  GapFiles = 2
  CommentLimit = 2
  MaxCode = 2
  Client = {}
  Successors = {}
  Ttl = 1
  CuratorTtl = 1
  Acts = 1
  Commits = 1
  Options = {"condense", "signals"}
  Raising = {"aindex_coverage", "orphaned_designs", "deprecated_ttl"}
  None = None
  login = login
  retry = retry
  f1 = f1
  f2 = f2
  d1 = d1
  d2 = d2
INVARIANTS DroppedIsReported FixedIsGone
PROPERTY DeadOnly
