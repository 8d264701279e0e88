\* CNI plugins whose release has no checksum file.
SPECIFICATION FetchSpec
CONSTANTS
    Component = {"cni-plugins"}
    ArchLists <- MCArchLists
INVARIANT ChecksumMayBeMissing
CHECK_DEADLOCK FALSE
