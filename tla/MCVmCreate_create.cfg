SPECIFICATION Spec
CONSTANTS
    Procs = {p1, p2}
    Domains = {d1, d2}
    Claimants = {d1, d2}
    Ports = {1, 2}
    Commands = {"create", "start", "stop", "destroy", "bake"}
    Committed = {d2}
    AutoPort = {d1}
    FixedPort = 1
    MaxSteps = 3
    Nobody = Nobody
    NoPort = 0
INVARIANTS TypeOK FlattensQuietDisk
PROPERTIES CardFollowsLease PortsAgree BakeKeepsDisk
SYMMETRY Symmetry
CHECK_DEADLOCK FALSE
