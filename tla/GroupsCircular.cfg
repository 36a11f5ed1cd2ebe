SPECIFICATION GroupTreeSpec
CONSTANTS
    Groups = {g1, g2, g3}
    NoGroup = NoGroup
    a = a
    A = A
    c = c
    Slash = Slash
    Chars = {a, A, c, Slash}
    Names <- OneLetterNames
    Alike <- AlikeChars
    GroupNodes = {d1}
    MaxPath = 12
SYMMETRY GroupSymmetry
INVARIANTS
    NoCircularReference
CHECK_DEADLOCK FALSE
