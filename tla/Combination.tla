----------------------------- MODULE Combination -----------------------------
(***************************************************************************)
(* The registry of components, and which lists of names                    *)
(* ValidateCombination accepts for one node.  A list is built name by      *)
(* name, so that every list, in every order and with repetitions, is a     *)
(* state.                                                                  *)
(***************************************************************************)
EXTENDS Naturals, Sequences, Functions, SequencesExt

CONSTANTS
    Unknown,    \* a name that is no component's
    MaxNames    \* a bound on the length of a list

VARIABLES
    names,      \* the argument of ValidateCombination
    listed      \* what knownNames answered, if a name was not found

combination == << names, listed >>

-----------------------------------------------------------------------------
(* Registry *)

Component == {"kubernetes", "eksd", "containerd", "crio", "k3s", "cni-plugins"}

ASSUME CombinationAssumption == Unknown \notin Component /\ MaxNames \in Nat

Roles(c) == CASE c \in {"kubernetes", "eksd"} -> {"kubernetes-node"}
              [] c \in {"containerd", "crio"} -> {"container-runtime"}
              [] c = "k3s" -> {"kubernetes-node", "container-runtime", "cni"}
              [] c = "cni-plugins" -> {"cni"}

Exclusive(c) == c = "k3s"

Conflicts(c) == CASE c = "kubernetes" -> {"eksd", "k3s"}
                  [] c = "eksd" -> {"kubernetes", "k3s"}
                  [] c = "containerd" -> {"crio", "k3s"}
                  [] c = "crio" -> {"containerd", "k3s"}
                  [] OTHER -> {}

-----------------------------------------------------------------------------
(* ValidateCombination *)

\* The first loop, for one name.
PassesAlone(name, list) ==
    /\ name \in Component
    /\ Exclusive(name) => Len(list) = 1
    /\ \A i \in DOMAIN list : list[i] \notin Conflicts(name)

\* The second loop: roleSeen holds the roles of all names before this one.  The
\* first definition is a mutant, as in every pair of this kind.
RolesAreFreeOfPrevious(i, list) ==
    i > 1 => Roles(list[i]) \cap Roles(list[i - 1]) = {}

RolesAreFree(i, list) ==
    \A k \in 1 .. i - 1 : Roles(list[i]) \cap Roles(list[k]) = {}

ValidateCombination(list) ==
    /\ list # << >>
    /\ \A i \in DOMAIN list : PassesAlone(list[i], list)
    /\ \A i \in DOMAIN list : RolesAreFree(i, list)

\* The orders in which the map's keys are appended to an empty slice; the
\* mutant makes it with a length instead of a capacity.
knownNamesOfLength == { [i \in 1 .. 6 |-> Unknown] \o s : s \in SetToSeqs(Component) }

knownNames == SetToSeqs(Component)

-----------------------------------------------------------------------------

CombinationInit == names = << >> /\ listed = << >>

Add(name) ==
    /\ Len(names) < MaxNames /\ listed = << >>
    /\ names' = Append(names, name)
    /\ UNCHANGED listed

\* Get of a name that is no component's.
GetFails ==
    /\ names = << Unknown >> /\ listed = << >>
    /\ listed' \in knownNames
    /\ UNCHANGED names

CombinationNext == GetFails \/ \E name \in Component \cup {Unknown} : Add(name)

CombinationSpec == CombinationInit /\ [][CombinationNext]_combination

-----------------------------------------------------------------------------

CombinationTypeOK ==
    /\ names \in Seq(Component \cup {Unknown}) /\ Len(names) <= MaxNames
    /\ listed # << >> => ToSet(listed) = Component /\ Len(listed) = 6

\* The combinations the README lists as valid.
ValidCombination ==
    { {node, runtime} \cup cni :
          node \in {"kubernetes", "eksd"}, runtime \in {"containerd", "crio"},
          cni \in { {}, {"cni-plugins"} } }
    \cup { {"k3s"} }

\* ValidateCombination refuses what cannot be activated together on one node,
\* in any order of the names: a list it accepts has no name twice and no two
\* names that no valid combination has together, and each valid combination is
\* accepted in each order.  It requires nothing: a part of a combination, which the
\* README does not list, is accepted too.
ExcludesRivals ==
    /\ ValidateCombination(names) =>
           /\ IsInjective(names)
           /\ \E valid \in ValidCombination : ToSet(names) \subseteq valid
    /\ ToSet(names) \in ValidCombination /\ IsInjective(names) =>
           ValidateCombination(names)
=============================================================================
