SPECIFICATION FairSpec
CONSTANTS
    Grips = {g, h}
    Held = {g}
    Payloads = {d, e}
    None = None
    MaxCalls = 2
    g = g  h = h  d = d  e = e
INVARIANTS TypeOK InStep
PROPERTIES Faithful Returns
