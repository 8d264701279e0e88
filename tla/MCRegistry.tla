----------------------------- MODULE MCRegistry -----------------------------
(***************************************************************************)
(* One run for what is asked of versions.go and runtime.go: the release of *)
(* crictl, from lists of a project's releases on GitHub (CRITools and      *)
(* Discovery), the schedule of Kubernetes (Versions), whether names go     *)
(* together (Combination), and the newest version of each component, by    *)
(* the script (CheckVersions).  A behaviour asks one question, and what    *)
(* belongs to the others stands still.                                     *)
(***************************************************************************)
EXTENDS CRITools, Versions, Combination, CheckVersions

VARIABLE question

RegistryInit ==
    /\ question \in {"releases", "schedule", "combination", "report"}
    /\ CRIToolsInit /\ (question # "releases" => upstream = {})
    /\ VersionsInit /\ (question # "schedule" => pad = Space)
    /\ CombinationInit
    /\ ScriptInit
    /\ question # "report" => lines = [c \in Position |-> 0] /\ published = {}

RegistryNext ==
    /\ UNCHANGED question
    /\ \/ /\ question = "releases" /\ CRIToolsNext
          /\ UNCHANGED << versionsVars, combination, scriptVars >>
       \/ /\ question = "schedule" /\ VersionsNext
          /\ UNCHANGED << toolsVars, combination, scriptVars >>
       \/ /\ question = "combination" /\ CombinationNext
          /\ UNCHANGED << toolsVars, versionsVars, scriptVars >>
       \/ /\ question = "report" /\ ScriptNext
          /\ UNCHANGED << toolsVars, versionsVars, combination >>

RegistrySpec ==
    RegistryInit
    /\ [][RegistryNext]_<< question, toolsVars, versionsVars, combination, scriptVars >>
=============================================================================
