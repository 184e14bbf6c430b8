SPECIFICATION MCSpec
CONSTANTS
    a = a
    b = b
    c = c
    p = p
    One = One
    Two = Two
    Three = Three
    Source = {a, b}
    Concept = {c}
    Post = {p}
    Contents <- MCContents
    Absent = Absent
    Broken = Broken
    NoCode = NoCode
    NoDoc = NoDoc
    MaxEdits = 2
    MaxPaths = 2
INVARIANTS TypeOK WrongOnlyIfOwed NoDangling
PROPERTY RebuildExact
