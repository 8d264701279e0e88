\* A push of several commits, which the job detect cannot compare.
SPECIFICATION WFSpec
CONSTANTS
    Arch = {"amd64"}
    ArchList <- MCArchList
    DefaultArches <- MCDefaultArches
    SkipModes = {TRUE, FALSE}
    TransportErrors = {"other"}
    Job = {"all", "files1"}
    JobKind <- NightlyKind
    Run <- NightlyRun
    MaxListed = 2
    Version <- NightlyVersion
    Upstream <- NightlyUpstream
PROPERTY NoRebuildOnlyWhenEmpty
CHECK_DEADLOCK FALSE
