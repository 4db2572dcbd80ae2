SPECIFICATION Spec
CONSTANTS
    None = None
    s1 = s1
    s2 = s2
    m1 = m1
    Caller = {c1, c2}
    Id = {s1, s2}
    Match = {m1}
    Map = {1, 2, 3, 4, 5, 6, 7}
    Operation <- MCOperation
    Native <- MCNative
SYMMETRY Symmetry
INVARIANTS TypeOK NoMapRace
PROPERTIES ImplementsDirectory
