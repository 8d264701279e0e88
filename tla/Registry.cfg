\* Two pages of two, of up to five releases, of which four are listed, while one
\* more is published; the lookups of two architectures; three minor versions and
\* four patches, of one to five digits; every list of up to four names, one of
\* them unknown; a script over three components of up to three versions.
SPECIFICATION RegistrySpec
CONSTANTS
    PerPage = 2
    MaxPages = 2
    AtStart = 4
    MaxReleases = 6
    Minors = {9, 10, 100}
    Patches = {0, 9, 10, 10000}
    Unknown = "cilium"
    MaxNames = 4
    OfMinor = {1, 3, 6}
    Lookups = 2
    Components = 3
    MaxLines = 3
INVARIANTS
    TypeOK
    VersionsTypeOK
    CombinationTypeOK
    CRIToolsTypeOK
    ScriptTypeOK
    ListedNewestFirst
    ExcludesRivals
    CrictlTracksMinor
    ImagesAgreeOnCrictl
    SilentForCause
    ReportedForCause
PROPERTY ListingPromise
CHECK_DEADLOCK FALSE
