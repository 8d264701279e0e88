\* A release begun before a push publishes after the rebuild listed the tags.
SPECIFICATION WFSpec
CONSTANTS
    Arch = {"amd64"}
    ArchList <- MCArchList
    DefaultArches <- MCDefaultArches
    SkipModes = {TRUE, FALSE}
    TransportErrors = {"other"}
    Job = {"all", "files1"}
    JobKind <- NightlyKind
    Run <- NightlyRun
    MaxListed = 2
    Version <- NightlyVersion
    Upstream <- NightlyUpstream
INVARIANT FilesAreCurrent
CHECK_DEADLOCK FALSE
