\* Two overlapping runs, both with --skip-existing, release the same version.
SPECIFICATION Spec
CONSTANTS
    Run = {r1, r2}
    Arch <- MCArch
    ArchList <- MCArchList
    Version <- MCDotted
    SkipModes = {TRUE}
    TransportErrors = {"other"}
PROPERTY ImmutableVersionTag
CHECK_DEADLOCK FALSE
