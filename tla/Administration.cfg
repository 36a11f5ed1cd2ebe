SPECIFICATION Spec
CONSTANTS
    Groups = {g1, g2, g3}
    NoGroup = NoGroup
    a = a
    A = A
    b = b
    Slash = Slash
    Chars = {a, A, b, Slash}
    Names <- GroupNames
    Alike <- AlikeChars
    GroupNodes = {d1}
    MaxPath = 7
    Slots = {r1, r2}
    LunIds = {l1, l2}
    LunNames = {x, y}
    NoLunName = NoLunName
    LunNodes = {n1}
    NoLunNode = NoLunNode
    MaxLunNumber = 1
    LunRestarts = TRUE
    Users = {u1, u2}
    Browsers = {b1}
    Sessions = {k1, k2}
    AccountSlots = {q1, q2}
    MaxValue = 2
    Commands = {off, re, scan}
    Rescan = {scan}
    NoCommand = NoCommand
CONSTRAINTS LunsOfInterest GroupsOfInterest
SYMMETRY AdminSymmetry
INVARIANTS
    TreeIsSound LunsAreTrue AccountsAreSound CommandsRunOnce
PROPERTIES
    AllSessionsEnd
CHECK_DEADLOCK FALSE
