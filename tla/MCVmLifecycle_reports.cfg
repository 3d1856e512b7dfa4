SPECIFICATION RecoveringSpec
CONSTANTS
    Procs = {p1}
    Backends = {"libvirt", "krun"}
    Kinds = {"create", "start", "revive", "stop", "destroy", "sweep"}
    Repin = FALSE
    MaxFaults = 1
    LateCalls = TRUE
    Pausable = TRUE
    InitDefined = FALSE
PROPERTIES CommandsReport
