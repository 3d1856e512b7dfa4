SPECIFICATION Spec
CONSTANTS
    Procs = {p1}
    Backends = {"libvirt", "qemu", "krun"}
    Kinds = {"create", "start", "revive", "stop", "destroy", "sweep"}
    Repin = FALSE
    MaxFaults = 0
    LateCalls = FALSE
    Pausable = FALSE
    InitDefined = TRUE
INVARIANTS StopVerified NoLostGuest
PROPERTIES NoDiskPulled SweepSparesRunning
