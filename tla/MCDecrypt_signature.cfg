SPECIFICATION Spec
CONSTANTS
    a = a  b = b
    a0 = a0  a1 = a1  a2 = a2  b0 = b0  b1 = b1  z = z
    Ring <- MCRing
    Keys <- MCKeys
    Strangers = {z}
    Algo <- MCAlgo
    Nobody = Nobody
    Messages <- MCMessages
    Homes <- MCHomes
    Agents <- MCAgents
    MaxFaults = 1
INVARIANT SignatureReported
