\* The nightly release of two versions overlaps a rebuild.
SPECIFICATION WFSpec
CONSTANTS
    Arch = {"amd64"}
    ArchList <- MCArchList
    DefaultArches <- MCDefaultArches
    SkipModes = {TRUE, FALSE}
    TransportErrors = {"other", "mentions404"}
    Job = {"all", "files1"}
    JobKind <- NightlyKind
    Run <- NightlyRun
    MaxListed = 2
    Version <- NightlyVersion
    Upstream <- NightlyUpstream
INVARIANTS
    WFTypeOK
    DoneMeansReleased
    RebuildRefreshes
    AliasIsLastReleased
PROPERTY RunsAreReleases
CHECK_DEADLOCK FALSE
