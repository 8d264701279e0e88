\* Two concurrent runs over two patch versions that share a minor alias.
SPECIFICATION Spec
CONSTANTS
    Run = {r1, r2}
    Arch <- MCArch
    ArchList <- MCArchList
    Version <- MCVersion
    SkipModes = {TRUE, FALSE}
    TransportErrors = {"other", "mentions404"}
INVARIANTS
    TypeOK
    TagsResolve
    TagNamesContent
    AliasFollowsVersion
    IndexCarriesEveryArch
    SkippedWritesForCause
    AliasMissingForCause
PROPERTY RepositoryContract
SYMMETRY Symmetry
CHECK_DEADLOCK FALSE
