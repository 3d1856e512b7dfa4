SPECIFICATION Spec
CONSTANTS
    Procs = {p1, p2}
    Backends = {"libvirt"}
    Kinds = {"start", "destroy"}
    Repin = FALSE
    MaxFaults = 1
    LateCalls = TRUE
    Pausable = FALSE
    InitDefined = TRUE
INVARIANTS VerifiedTeardown
PROPERTIES NoDiskPulled
SYMMETRY Symmetry
