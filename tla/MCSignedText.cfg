SPECIFICATION TextSpec
CONSTANTS
    a = a  b = b  c = c
    a0 = a0  a1 = a1  s1 = s1  s2 = s2  b0 = b0  b1 = b1  c0 = c0
    qa = qa  qb = qb  qc = qc  both = both  none = none
    Ring <- MCRing
    Keys <- MCKeys
    Strangers = {}
    Algo <- MCAlgo
    Nobody = Nobody
    Matches <- MCMatches
    EncKey <- MCEncKey
    Best <- MCBest
    Signing = {s1, s2}
    NoKey = NoKey
    NoUser = NoUser
    Commands <- MCCommands
    Homes <- MCHomes
    Agents <- MCAgents
    MaxFaults = 1
    Inputs <- MCInputs
    Unread = Unread
    Words <- MCWords
    MaxChanges = 2
INVARIANTS TypeOK LastSpecWins SignedAsAsked AgentPreferred SignsIfItCan ReadAsSigned
