CONSTANTS
    Source = {a, b, c}
    c = c
    Content = {x, y}
    Note = {n}
    None = None
    Ttl = 1
    MaxOps = 2
    MaxCommits = 3
    a = a
    b = b
    x = x
    y = y
    n = n
SYMMETRY Alike
SPECIFICATION Spec
INVARIANTS TypeOK NotesFollowRename RunSettles
PROPERTY NotesKept
