SPECIFICATION SSpec
CONSTANTS
    a = a  b = b  c = c
    a1 = a1  a2 = a2  b1 = b1  c1 = c1
    x = x  y = y
    Fpr <- MCFpr
    Grip <- MCGrip
    Keys <- MCKeys
    NoPass = NoPass  Public = Public
    Absent = Absent  Torn = Torn  Stub = Stub
    Proc = {p1, p2, p3}
    Pass = {x, y}
    InitBoxes <- MCBoxes
    Cards = {b1}
    Files <- MCFiles
    New = {c}
    Ops = {"import"}
    Overlap = FALSE
    MaxFaults = 0
SYMMETRY Symmetry
INVARIANT SecretHasPublic
