\* A rebuild of an EKS-D component goes through its published tags.
SPECIFICATION WFSpec
CONSTANTS
    Arch = {"amd64"}
    ArchList <- MCArchList
    DefaultArches <- MCDefaultArches
    SkipModes = {TRUE, FALSE}
    TransportErrors = {"other"}
    Job = {"all", "files1"}
    JobKind <- NightlyKind
    Run <- NightlyRun
    MaxListed = 2
    Version <- EksdVersion
    Upstream <- EksdUpstream
INVARIANT VariantTagStaysImage
CHECK_DEADLOCK FALSE
