SPECIFICATION Spec
CONSTANTS
    Domains = {"charly-web", "web"}
    Names = {"web", "db"}
    Sizes = {1}
    Strip <- StripPrefix
    Broken = Broken
    None = None
    MaxCommands = 2
    MaxEdits = 2
PROPERTIES ForwardsKept
CHECK_DEADLOCK FALSE
