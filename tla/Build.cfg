\* Every component fetched for two architectures; every kind of fetched tree with
\* every kind of static files; a release, a build and a push on one file.
SPECIFICATION BuildSpec
CONSTANTS
    Component = {"kubernetes", "eksd", "containerd", "crio", "k3s", "cni-plugins"}
    ArchLists <- MCArchLists
    r1 = r1
    b1 = b1
    p1 = p1
    Proc = {r1, b1, p1}
    NoOne = NoOne
    Mixed = Mixed
    Command <- MCCommand
    Block <- MCBlock
    ImageSize <- MCSize
    Entry <- MCEntry
    Directory <- MCDirectory
    Tree <- MCTree
    Word <- MCWord
    FetchedTree <- MCFetched
    StaticTree <- MCStatic
    Place <- MCPlace
INVARIANTS
    TypeOK
    CleanBuildIsPublishedWhole
    PublishedIsAligned
    FetchTypeOK
    VerifiedIfPublished
    FetchedIsComplete
    ImageIsOfItsArch
    StagingTypeOK
    ReloadIffUnits
    DirectoriesAreMerged
    ImageIsOverlay
    NothingIsLost
CHECK_DEADLOCK FALSE
