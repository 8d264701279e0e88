\* A manual release overlaps two rebuilds of one concurrency group.
SPECIFICATION FairWFSpec
CONSTANTS
    Arch = {"amd64"}
    ArchList <- MCArchList
    DefaultArches <- MCDefaultArches
    SkipModes = {TRUE, FALSE}
    TransportErrors = {"other"}
    Job = {"one", "files1", "files2"}
    JobKind <- GroupKind
    Run <- GroupRun
    MaxListed = 1
    Version <- GroupVersion
    Upstream <- GroupUpstream
INVARIANT RebuildRefreshes
PROPERTY RebuildSettles
CHECK_DEADLOCK FALSE
