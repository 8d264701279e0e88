----------------------------- MODULE MCStaging ------------------------------
(***************************************************************************)
(* Trees for Staging: every kind of fetched tree, with every kind of link  *)
(* an archive may hold, and every kind of static files.                    *)
(***************************************************************************)
EXTENDS Staging, TLC

Regular(data, mode) == [kind |-> "file", data |-> << data >>, mode |-> mode]
Link(target) == [kind |-> "link", data |-> target, mode |-> 0]

WithFolders(leaves) ==
    leaves @@ [p \in UNION { Parents(q) : q \in DOMAIN leaves } |-> Folder]

Usr(name) == << "usr", name >>
Bin == << "usr", "local", "bin" >>
Units == << "usr", "lib", "systemd", "system" >>

-----------------------------------------------------------------------------
(* Fetched: k3s with a link to it; binaries only; a package with a unit of  *)
(* its own.                                                                 *)

K3s == WithFolders((Bin \o << "k3s" >> :> Regular("k3s", 755))
                   @@ (Bin \o << "kubectl" >> :> Link(<< "k3s" >>)))
Cni == WithFolders(<< "opt", "bridge" >> :> Regular("bridge", 755))
Packaged == WithFolders((Bin \o << "kubelet" >> :> Regular("kubelet", 755))
                        @@ (Units \o << "u.service" >> :> Regular("theirs", 644)))

\* A link to a link, one to nothing, and one to itself.
Chained == WithFolders((Bin \o << "k3s" >> :> Regular("k3s", 755))
                       @@ (Bin \o << "k3s-1" >> :> Link(<< "k3s" >>))
                       @@ (Bin \o << "kubectl" >> :> Link(<< "k3s-1" >>))
                       @@ (Bin \o << "kubelet" >> :> Link(<< "none" >>))
                       @@ (Usr("lib64") :> Link(<< "lib64" >>)))

\* Links to directories: a name, through "..", and to one that is not there.
Directories == WithFolders((Usr("lib64") :> Link(<< "lib" >>))
                           @@ (<< "usr", "lib", "systemd" >> :> Link(<< "..", "local" >>))
                           @@ (<< "usr", "local", "bin" >> :> Link(<< "..", "..", "opt" >>))
                           @@ (<< "opt", "kubectl" >> :> Regular("kubectl", 755))
                           @@ (Usr("share") :> Link(<< "none" >>)))

\* The metadata's directory would be at the top.
ToTop == WithFolders((Usr("lib") :> Link(<< ".." >>))
                     @@ (Bin \o << "kubectl" >> :> Regular("kubectl", 755)))

\* Absolute links, and one that is too high: all to the host that builds.
Absolute == WithFolders((<< "usr", "lib", "extension-release.d" >> :> Link(<< "/", "etc" >>))
                        @@ (<< "usr", "lib", "systemd" >> :> Link(<< "..", "..", "..", "x" >>))
                        @@ (Bin \o << "kubectl" >> :> Link(<< "/", "bin", "kubectl" >>)))

-----------------------------------------------------------------------------
(* Static *)

Unit == Units \o << "u.service" >> :> Regular("unit", 600)
DropIn == Units \o << "u.service.d", "10.conf" >> :> Regular("drop-in", 644)
UnitLink == Units \o << "u.service" >> :> Link(<< "other.service" >>)
Wrapper == Bin \o << "kubectl" >> :> Regular("wrapper", 755)
Under == Bin \o << "kubelet", "x" >> :> Regular("x", 644)
Config == << "etc", "config" >> :> Regular("config", 644)
Readme == << "README" >> :> Regular("text", 644)
Library == << "usr", "lib64", "so" >> :> Regular("so", 644)
\* A link where another entry, or a file fetched, is to go.
LinkToBin == << "usr", "sbin" >> :> Link(<< "local", "bin" >>)
Shadowed == (<< "usr", "lib64", "so" >> :> Link(<< "so-1" >>))
            @@ (<< "usr", "lib", "so" >> :> Regular("so", 644))

MCWord == STRING
MCPlainTree == {K3s, Cni, Packaged}
MCFetched == MCPlainTree \cup {Chained, Directories, ToTop, Absolute}
MCStatic == { WithFolders(s) : s \in { Unit @@ DropIn, DropIn, UnitLink, Wrapper, Under,
                                       Unit @@ Config, Readme @@ DropIn, Units :> Folder,
                                       Library @@ LinkToBin, Shadowed } }
MCPlaceInReadme == {"component.sysext/files"}
MCPlace == {"files/component"} \cup MCPlaceInReadme
=============================================================================
