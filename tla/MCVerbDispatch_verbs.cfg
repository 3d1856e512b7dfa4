SPECIFICATION FairSpec
CONSTANTS
    p1 = p1
    p2 = p2
    Procs = {p1, p2}
    Methods <- AnyBesideDelete
    PipeSize = 2
    BigOutput = 2
    MaxFaults = 1
    Nobody = Nobody
    Terminal = Terminal
INVARIANTS TypeOK OwnOutputWhole StreamsComeBack NothingLeftOpen PassMeansDone
PROPERTIES EveryVerbReports
