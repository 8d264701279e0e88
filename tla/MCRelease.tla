----------------------------- MODULE MCRelease ------------------------------
(***************************************************************************)
(* Small instances of Release for TLC.                                     *)
(***************************************************************************)
EXTENDS Release, TLC

dotted(minor, patch) ==
    [form |-> "dotted", minor |-> minor, patch |-> patch, arches |-> << >>]

eksd(minor, release) ==
    [form |-> "eksd", minor |-> minor, patch |-> release, arches |-> << >>]

MCArch == {"amd64", "arm64"}

\* The default of --arches, one architecture, and --arches "".
MCArchList == { << "amd64", "arm64" >>, << "arm64" >>, << >> }

\* Two patches of one minor, which share an alias; an EKS-D release, and its
\* amd64 variant tag, which "sysext-pkg tags" prints and a rebuild passes back
\* as a version.
MCVersion == { dotted(33, 1), dotted(33, 2),
               eksd(35, 9), variantTag(eksd(35, 9), "amd64") }

MCDotted == { dotted(33, 1) }

Symmetry == Permutations(Run)
=============================================================================
