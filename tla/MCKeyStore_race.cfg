SPECIFICATION FairSpec
CONSTANTS
    a = a  b = b  c = c
    a1 = a1  a2 = a2  b1 = b1  c1 = c1
    x = x  y = y
    Fpr <- MCFpr
    Grip <- MCGrip
    Keys <- MCKeys
    NoPass = NoPass  Public = Public
    Absent = Absent  Torn = Torn  Stub = Stub
    Proc = {p1, p2}
    Pass = {x}
    InitBoxes <- RaceBoxes
    Cards = {b1}
    Files <- RaceFiles
    New = {c}
    Ops <- Ops_all
    Overlap = TRUE
    MaxFaults = 1
INVARIANTS TypeOK OneEntryPerKey TornBoxExplained TornKeyInHand SaveKeepsOthers
PROPERTY Terminates
