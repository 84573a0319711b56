SPECIFICATION DialogueSpec
CONSTANTS
    homeA = homeA  homeB = homeB  x = x
    Argvs <- MCDialogueArgvs
    Inputs <- MCInputs
    Days <- MCDays
    Sizes <- MCSizes
    Files <- MCFiles
    Confs <- MCConfs
    Unreadable = Unreadable
    Default = homeA
    Odd = Odd
    None = None
INVARIANTS TypeOK ArgsKept CommandsCombine HomeAgrees CommandLineWins KeyAsTyped UserDecides
