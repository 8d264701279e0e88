------------------------------ MODULE MCBuild -------------------------------
(***************************************************************************)
(* One run for the stages of a build: what comp.Fetch downloads (Fetch),   *)
(* what is laid over it and packed (Staging), and the file that is written *)
(* and published, by several invocations at once (Image).  A behaviour is  *)
(* one stage's, and what belongs to the others stands still.               *)
(***************************************************************************)
EXTENDS Image, Fetch, MCStaging

CONSTANTS r1, b1, p1

VARIABLE stage

-----------------------------------------------------------------------------
(* Image: a block of 4, and images that end on its boundary or short of it. *)

MCArchLists == { << "arm64", "amd64" >>, << "amd64", "riscv64" >>, << "x86-64" >> }

MCBlock == 4

MCSize == [x \in Proc |-> IF x = b1 THEN 6 ELSE 4]

MCCommand == [x \in Proc |-> CASE x = b1 -> "build" [] x = p1 -> "push"
                               [] OTHER -> "release"]

MCEntry == {"usr", "opt", "etc", "srv", "README"}
MCDirectory == MCEntry \ {"README"}
MCTree == { {"usr"}, {"usr", "srv"} }

-----------------------------------------------------------------------------

BuildInit ==
    /\ stage \in {"fetch", "staging", "image"}
    /\ FetchInit /\ (stage # "fetch" => comp = "k3s" /\ arches = << "x86-64" >>)
    /\ StagingInit
    /\ stage # "staging" => /\ fetched = Cni /\ static = WithFolders(DropIn)
                            /\ place = "files/component"
    /\ Init

BuildNext ==
    /\ UNCHANGED stage
    /\ \/ stage = "fetch" /\ FetchNext /\ UNCHANGED << vars, stagingVars >>
       \/ stage = "staging" /\ StagingNext /\ UNCHANGED << vars, fetchVars >>
       \/ stage = "image" /\ Next /\ UNCHANGED << fetchVars, stagingVars >>

BuildSpec == BuildInit /\ [][BuildNext]_<< stage, vars, fetchVars, stagingVars >>
=============================================================================
