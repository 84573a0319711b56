SPECIFICATION Spec
CONSTANTS
  Refused = Refused
  NoPass = NoPass
  Keys <- MCKeys
  Passphrases <- MCPassphrases
  Exchanges <- MCExchanges
  MaxLineData = 5
INVARIANTS
  TextReadBack
  MarkerTells
  KeyOpens
  LinesDecoded
CHECK_DEADLOCK FALSE
