SPECIFICATION Spec
CONSTANTS
    Builds = {b1, b2}
    Entities = {e1, e2}
    Arms = {"container_disk", "iso", "bootc"}
    Paths = {"disk"}
    Sizes = {1}
    MaxVersion = 2
    Rollback = FALSE
    MayForce = TRUE
    MayStop = TRUE
INVARIANTS CachedDiskWhole PullServesIdentity EmittedWhole
PROPERTIES FreshBaseLeftAlone
SYMMETRY Symmetry
