SPECIFICATION FairSpec
CONSTANTS
    p1 = p1
    p2 = p2
    Procs = {p1, p2}
    Methods <- ExecBesidePing
    PipeSize = 2
    BigOutput = 3
    MaxFaults = 0
    Nobody = Nobody
    Terminal = Terminal
PROPERTIES EveryVerbReports
CHECK_DEADLOCK FALSE
