SPECIFICATION Spec
CONSTANTS
    Builds = {b1, b2}
    Entities = {e1, e2}
    Arms = {"cloud_image"}
    Paths = {"disk"}
    Sizes = {1, 2}
    MaxVersion = 1
    Rollback = FALSE
    MayForce = FALSE
    MayStop = TRUE
INVARIANTS StampMeansComplete
