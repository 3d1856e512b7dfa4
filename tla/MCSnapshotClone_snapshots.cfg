SPECIFICATION Spec
CONSTANTS
    Tags = {golden, base}
    Lanes = {lane1, lane2}
    Entities = {clone}
    Forces = {FALSE}
    ReadFails = FALSE
    MaxCaptures = 2
    MaxRefs = 2
    NoTag = noTag
    NoEntity = noEntity
INVARIANTS TypeOK RefsCoverLanes ConsistentIsQuiet ReadOnlyForClones CountsWhatItLinked
PROPERTIES SharedSpec
SYMMETRY Symmetry
