SPECIFICATION MCSpec
CONSTANTS
  File <- MCFile
  Lang <- MCLang
  DirOf <- MCDirOf
  Parent <- MCParent
  Texts <- MCTexts
  At <- MCAt
  Alias <- MCAlias
  Proc = {p1, p2}
  Acts = 4
  None = None
  p1 = p1
  p2 = p2
SYMMETRY MCSymmetry
CHECK_DEADLOCK FALSE
INVARIANTS CallsWereWritten UnwarnedIsCurrent
