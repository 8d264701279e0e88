\* README.md's place of the static files, <component>.sysext/files, which runBuild
\* does not look at: it gets StaticFilesDir of the registry.
\* The build may stop, done or failed.
CONSTANTS
    Word <- MCWord
    FetchedTree <- MCPlainTree
    StaticTree <- MCStatic
    Place <- MCPlaceInReadme

SPECIFICATION StagingSpec
INVARIANT StaticFilesArePacked
CHECK_DEADLOCK FALSE
