---------------------------- MODULE CheckVersions ----------------------------
(***************************************************************************)
(* scripts/check-versions.sh, under "set -euo pipefail": for one component *)
(* after the other, "sysext-pkg list" and "head -1" at the two ends of a   *)
(* pipe, and then oras resolve.  Release jobs publish meanwhile.           *)
(***************************************************************************)
EXTENDS Naturals

CONSTANTS
    Components, \* how many there are; 6 in the script
    MaxLines    \* a bound on the versions "list" prints

VARIABLES
    shell,
    component,  \* the loop's place
    lines,      \* how many versions "list" prints for each
    list,       \* that process
    written,    \* how many lines it has written
    head,       \* the other process
    reported,   \* components the script has printed
    status,     \* its exit status
    published,  \* components whose newest version has its tag in the registry
    atStart,    \* history: published at the start
    failures    \* history: which command failed for which component, and for
                \* which list was killed at the pipe

scriptVars == << shell, component, lines, list, written, head, reported, status,
           published, atStart, failures >>

ASSUME CheckAssumption == Components \in Nat \ {0} /\ MaxLines \in Nat

Position == 1 .. Components

ScriptInit ==
    /\ shell = "build"
    /\ component = 1
    /\ lines \in [Position -> 0 .. MaxLines]
    /\ list = "running" /\ written = 0 /\ head = "reading"
    /\ reported = {}
    /\ status = 0
    /\ published \in SUBSET Position
    /\ atStart = published
    /\ failures = {}

\* The binary is there, or is built.
Build ==
    /\ shell = "build"
    /\ shell' = "pipe"
    /\ UNCHANGED << component, lines, list, written, head, reported, status,
                    published, atStart, failures >>

\* A toolchain that is not at the path the script names: "set -e".
BuildFails ==
    /\ shell = "build"
    /\ shell' = "exit" /\ status' = 127
    /\ UNCHANGED << component, lines, list, written, head, reported,
                    published, atStart, failures >>

Piped == shell = "pipe" /\ UNCHANGED << shell, component, lines, reported, status,
                                     published, atStart >>

\* One line at a time.
ListWrites ==
    /\ Piped
    /\ list = "running" /\ written < lines[component] /\ head = "reading"
    /\ written' = written + 1
    /\ UNCHANGED << list, head, failures >>

\* A write after head has gone ends list by SIGPIPE.
ListIsKilled ==
    /\ Piped
    /\ list = "running" /\ written < lines[component] /\ head = "gone"
    /\ list' = "killed"
    /\ failures' = failures \cup { << "sigpipe", component >> }
    /\ UNCHANGED << written, head >>

ListEnds ==
    /\ Piped
    /\ list = "running" /\ written = lines[component]
    /\ list' = "done"
    /\ UNCHANGED << written, head, failures >>

\* ListVersions returns an error before anything is printed.
ListFails ==
    /\ Piped
    /\ list = "running" /\ written = 0
    /\ list' = "failed"
    /\ failures' = failures \cup { << "list", component >> }
    /\ UNCHANGED << written, head >>

\* head has its line, or the end of its input.
HeadEnds ==
    /\ Piped
    /\ head = "reading" /\ (written > 0 \/ list # "running")
    /\ head' = "gone"
    /\ UNCHANGED << list, written, failures >>

\* The first two definitions are mutants, as in every group of this kind.
BreakLoop == shell' = "exit" /\ UNCHANGED << component, list, written, head >>

ContinuePastEnd ==
    shell' = "pipe" /\ component' = component + 1
    /\ list' = "running" /\ written' = 0 /\ head' = "reading"

Continue ==
    IF component = Components THEN shell' = "exit" /\ UNCHANGED << component, list, written, head >>
    ELSE shell' = "pipe" /\ component' = component + 1
         /\ list' = "running" /\ written' = 0 /\ head' = "reading"

PipeOver == shell = "pipe" /\ head = "gone" /\ list # "running"

Assign ==
    /\ PipeOver
    /\ list = "done" /\ written > 0
    /\ shell' = "resolve"
    /\ UNCHANGED << component, lines, list, written, head, reported, status,
                    published, atStart, failures >>

\* "|| continue", and "continue" for an empty line.
Skip ==
    /\ PipeOver
    /\ list # "done" \/ written = 0
    /\ Continue
    /\ UNCHANGED << lines, reported, status, published, atStart, failures >>

\* A tag that is missing is reported.
ReportsPresent(c) == c \in published

Reports(c) == c \notin published

Resolve ==
    /\ shell = "resolve"
    /\ reported' = IF Reports(component) THEN reported \cup {component} ELSE reported
    /\ Continue
    /\ UNCHANGED << lines, status, published, atStart, failures >>

\* "2>/dev/null || true": an error of oras is an empty answer.
ResolveFails ==
    /\ shell = "resolve"
    /\ failures' = failures \cup { << "oras", component >> }
    /\ reported' = reported \cup {component}
    /\ Continue
    /\ UNCHANGED << lines, status, published, atStart >>

\* A release job.
PublishTag ==
    /\ shell # "exit"
    /\ \E c \in Position \ published : published' = published \cup {c}
    /\ UNCHANGED << shell, component, lines, list, written, head, reported, status,
                    atStart, failures >>

ScriptNext ==
    \/ Build \/ BuildFails
    \/ ListWrites \/ ListIsKilled \/ ListEnds \/ ListFails \/ HeadEnds
    \/ Assign \/ Skip \/ Resolve \/ ResolveFails
    \/ PublishTag

\* No fairness: no request of list or of oras has a time limit.
ScriptSpec == ScriptInit /\ [][ScriptNext]_scriptVars

-----------------------------------------------------------------------------

ScriptTypeOK ==
    /\ shell \in {"build", "pipe", "resolve", "exit"}
    /\ component \in Position
    /\ lines \in [Position -> 0 .. MaxLines]
    /\ list \in {"running", "done", "failed", "killed"}
    /\ written \in 0 .. lines[component]
    /\ head \in {"reading", "gone"}
    /\ reported \subseteq 1 .. component
    /\ status \in {0, 127}
    /\ atStart \subseteq published /\ published \subseteq Position
    /\ failures \subseteq {"list", "sigpipe", "oras"} \X Position

Ended == shell = "exit" /\ status = 0

\* A component is left out only if its newest version is published, if it has
\* none, or if the list of them failed or was killed; no other component's
\* trouble is a reason.
SilentForCause ==
    Ended => \A c \in Position \ reported :
        \/ c \in published
        \/ lines[c] = 0
        \/ << "list", c >> \in failures \/ << "sigpipe", c >> \in failures

\* A component is printed only if its newest version was not published at the
\* start, or oras failed for that component.
ReportedForCause ==
    \A c \in reported : c \notin atStart \/ << "oras", c >> \in failures

\* The script prints the components where a newer upstream version exists,
\* whenever "list" and "oras" could tell it.
StaleIsReported ==
    Ended => \A c \in Position :
        c \notin published /\ lines[c] > 0 /\ << "list", c >> \notin failures
            => c \in reported
=============================================================================
