SPECIFICATION Spec
CONSTANTS
    Domains = {"charly-web", "web"}
    Names = {"web", "db"}
    Sizes = {1}
    Strip <- StripPrefix
    Broken = Broken
    None = None
    MaxCommands = 2
    MaxEdits = 2
INVARIANTS TypeOK FileWhole AllRecorded
PROPERTIES OperatorKept AdoptedOnce UpdateClearsDrift
CHECK_DEADLOCK FALSE
