------------------------ MODULE CheckVersionsProofs -------------------------
(***************************************************************************)
(* Theorems of CheckVersions, for every number of components and of lines, *)
(* and every interleaving of the pipe's two ends.                          *)
(*                                                                         *)
(* The argument: the state of the pipe tells why list ended (PipeInv), and *)
(* a component the loop has left behind is printed or has its cause, which *)
(* nothing takes away (BehindInv).                                         *)
(***************************************************************************)
EXTENDS CheckVersions, TLAPS

\* The causes for which a component is left out.
Excused(c) ==
    \/ c \in published
    \/ lines[c] = 0
    \/ << "list", c >> \in failures \/ << "sigpipe", c >> \in failures

\* Of the current component's pipe: who has ended, and why.
PipeInv ==
    /\ list = "done" => written = lines[component]
    /\ list = "failed" => << "list", component >> \in failures
    /\ list = "killed" => << "sigpipe", component >> \in failures
    /\ list = "running" /\ head = "gone" => written > 0

\* The loop has left a component behind.
Behind(c) == c < component \/ Ended

BehindInv ==
    \A c \in Position : Behind(c) => c \in reported \/ Excused(c)

CheckInv == ScriptTypeOK /\ PipeInv /\ BehindInv

-----------------------------------------------------------------------------

\* The loop goes on to the next component with a fresh pipe, or ends.
LEMMA ContinueMoves ==
    ASSUME ScriptTypeOK, Continue, UNCHANGED << lines, status >>
    PROVE  /\ component' \in Position
           /\ shell' \in {"pipe", "exit"}
           /\ list' \in {"running", "done", "failed", "killed"}
           /\ written' \in 0 .. lines'[component']
           /\ head' \in {"reading", "gone"}
           /\ \/ UNCHANGED << component, list, written, head >>
              \/ /\ list' = "running" /\ head' = "reading"
                 /\ component' = component + 1 /\ ~ Ended'
           /\ component' >= component
           /\ \A c \in Position : Behind(c)' => c <= component
  <1> USE DEF ScriptTypeOK, Position
  <1>1. component \in Nat /\ component <= Components
    BY CheckAssumption
  <1>2. CASE component = Components
    BY <1>1, <1>2 DEF Continue, Behind, Ended
  <1>3. CASE component # Components
    <2>1. /\ component' = component + 1 /\ shell' = "pipe"
          /\ list' = "running" /\ written' = 0 /\ head' = "reading"
      BY <1>3 DEF Continue
    <2>2. component' \in Position
      BY <1>1, <1>3, <2>1, CheckAssumption
    <2> QED
      BY <1>1, <2>1, <2>2, CheckAssumption DEF Behind, Ended
  <1> QED
    BY <1>2, <1>3

\* The steps of the two ends of the pipe.
PipeStep == ListWrites \/ ListIsKilled \/ ListEnds \/ ListFails \/ HeadEnds

LEMMA PipeStepKeepsInv ==
    ASSUME CheckInv, PipeStep
    PROVE  CheckInv'
  <1> USE DEF CheckInv, ScriptTypeOK, PipeInv, Position
  <1>1. /\ UNCHANGED << shell, component, lines, reported, status, published, atStart >>
        /\ failures \subseteq failures' /\ shell = "pipe"
    BY DEF PipeStep, Piped, ListWrites, ListIsKilled, ListEnds, ListFails, HeadEnds
  <1>2. lines[component] \in Nat /\ written \in Nat /\ component \in Position
    BY CheckAssumption
  <1>3. ScriptTypeOK' /\ PipeInv'
    <2>1. CASE ListWrites
      BY <1>1, <1>2, <2>1 DEF ListWrites
    <2>2. CASE ListIsKilled
      BY <1>1, <1>2, <2>2 DEF ListIsKilled
    <2>3. CASE ListEnds
      BY <1>1, <1>2, <2>3 DEF ListEnds
    <2>4. CASE ListFails
      BY <1>1, <1>2, <2>4 DEF ListFails
    <2>5. CASE HeadEnds
      BY <1>1, <1>2, <2>5 DEF HeadEnds
    <2> QED
      BY <2>1, <2>2, <2>3, <2>4, <2>5 DEF PipeStep
  <1>4. BehindInv'
    BY <1>1 DEF BehindInv, Behind, Ended, Excused
  <1> QED
    BY <1>3, <1>4

\* The steps with which the loop leaves a component.
LoopStep == Skip \/ Resolve \/ ResolveFails

LEMMA LoopStepKeepsInv ==
    ASSUME CheckInv, LoopStep
    PROVE  CheckInv'
  <1>1. /\ Continue /\ UNCHANGED << lines, status, published, atStart >>
        /\ reported \subseteq reported' /\ reported' \subseteq reported \cup {component}
        /\ failures \subseteq failures'
        /\ failures' \subseteq failures \cup { << "oras", component >> }
    BY DEF LoopStep, Skip, Resolve, ResolveFails
  <1>2. component \in Position /\ lines[component] \in Nat
    BY DEF CheckInv, ScriptTypeOK
  <1>3. component \in reported' \/ Excused(component)
    <2>1. CASE Skip
      BY <1>2, <2>1 DEF Skip, PipeOver, CheckInv, ScriptTypeOK, PipeInv, Excused
    <2>2. CASE Resolve
      BY <2>2 DEF Resolve, Reports, Excused
    <2>3. CASE ResolveFails
      BY <2>3 DEF ResolveFails
    <2> QED
      BY <2>1, <2>2, <2>3 DEF LoopStep
  <1>4. /\ component' \in Position
        /\ shell' \in {"pipe", "exit"}
        /\ list' \in {"running", "done", "failed", "killed"}
        /\ written' \in 0 .. lines'[component']
        /\ head' \in {"reading", "gone"}
        /\ \/ UNCHANGED << component, list, written, head >>
           \/ /\ list' = "running" /\ head' = "reading"
              /\ component' = component + 1 /\ ~ Ended'
        /\ component' >= component
        /\ \A c \in Position : Behind(c)' => c <= component
    BY <1>1, ContinueMoves DEF CheckInv
  <1>5. reported' \subseteq 1 .. component'
    BY <1>1, <1>2, <1>4, CheckAssumption DEF CheckInv, ScriptTypeOK, Position
  <1>6. ScriptTypeOK'
    BY <1>1, <1>2, <1>4, <1>5 DEF CheckInv, ScriptTypeOK
  <1>7. PipeInv'
    BY <1>1, <1>4 DEF CheckInv, PipeInv
  <1>8. BehindInv'
    <2> SUFFICES ASSUME NEW c \in Position, Behind(c)'
                 PROVE  c \in reported' \/ Excused(c)'
      BY DEF BehindInv, Position
    <2>1. c <= component
      BY <1>4
    <2>2. Excused(c) => Excused(c)'
      BY <1>1 DEF Excused
    <2>3. CASE c = component
      BY <1>3, <2>2, <2>3
    <2>4. CASE c # component
      <3>1. c < component
        BY <1>2, <2>1, <2>4, CheckAssumption DEF Position
      <3> QED
        BY <1>1, <2>2, <3>1 DEF CheckInv, BehindInv, Behind
    <2> QED
      BY <2>3, <2>4
  <1> QED
    BY <1>6, <1>7, <1>8 DEF CheckInv

-----------------------------------------------------------------------------

LEMMA CheckInvInductive ==
    /\ ScriptInit => CheckInv
    /\ CheckInv /\ [ScriptNext]_scriptVars => CheckInv'
<1>1. ScriptInit => CheckInv
  BY CheckAssumption
  DEF ScriptInit, CheckInv, ScriptTypeOK, PipeInv, BehindInv, Behind, Ended, Position
<1>2. ASSUME CheckInv, [ScriptNext]_scriptVars
      PROVE  CheckInv'
  <2> USE DEF CheckInv
  <2>1. CASE Build \/ BuildFails
    <3>1. /\ UNCHANGED << component, lines, list, written, head, reported,
                          published, atStart, failures >>
          /\ shell' \in {"pipe", "exit"} /\ status' \in {0, 127} /\ ~ Ended'
      BY <1>2, <2>1 DEF Build, BuildFails, ScriptTypeOK, Ended
    <3>2. ScriptTypeOK' /\ PipeInv'
      BY <1>2, <3>1 DEF ScriptTypeOK, PipeInv
    <3>3. BehindInv'
      BY <1>2, <3>1 DEF BehindInv, Behind, Excused
    <3> QED
      BY <3>2, <3>3
  <2>2. CASE PipeStep
    BY <1>2, <2>2, PipeStepKeepsInv
  <2>3. CASE Assign
    BY <1>2, <2>3 DEF Assign, ScriptTypeOK, PipeInv, BehindInv, Behind, Ended, Excused
  <2>4. CASE LoopStep
    BY <1>2, <2>4, LoopStepKeepsInv
  <2>5. CASE PublishTag
    BY <1>2, <2>5 DEF PublishTag, ScriptTypeOK, PipeInv, BehindInv, Behind, Ended, Excused
  <2>6. CASE UNCHANGED scriptVars
    BY <1>2, <2>6 DEF scriptVars, ScriptTypeOK, PipeInv, BehindInv, Behind, Ended, Excused
  <2> QED
    BY <1>2, <2>1, <2>2, <2>3, <2>4, <2>5, <2>6
    DEF ScriptNext, PipeStep, LoopStep
<1> QED
  BY <1>1, <1>2

\* The state of the script, for every number of components.
THEOREM CheckVersionsTypeOK == ScriptSpec => []ScriptTypeOK
<1>1. CheckInv => ScriptTypeOK
  BY DEF CheckInv
<1> QED
  BY <1>1, CheckInvInductive, PTL DEF ScriptSpec

\* A component the script is silent about has a cause of its own, whatever the
\* pipe's interleaving was and whatever failed for the components around it.
THEOREM CheckVersionsSilentForCause == ScriptSpec => []SilentForCause
<1>1. CheckInv => SilentForCause
  BY DEF CheckInv, BehindInv, Behind, SilentForCause, Excused
<1> QED
  BY <1>1, CheckInvInductive, PTL DEF ScriptSpec

\* A component that is printed was not published at the start, or oras failed
\* for it.
THEOREM CheckVersionsReportedForCause == ScriptSpec => []ReportedForCause
<1>1. ScriptInit => ReportedForCause
  BY DEF ScriptInit, ReportedForCause
<1>2. CheckInv /\ ReportedForCause /\ [ScriptNext]_scriptVars => ReportedForCause'
  <2> SUFFICES ASSUME CheckInv, ReportedForCause, [ScriptNext]_scriptVars
               PROVE  ReportedForCause'
    OBVIOUS
  <2> USE DEF ReportedForCause
  <2>1. CASE Resolve
    BY <2>1 DEF Resolve, Reports, CheckInv, ScriptTypeOK
  <2>2. CASE ResolveFails
    BY <2>2 DEF ResolveFails
  <2>3. CASE PipeStep
    BY <2>3 DEF PipeStep, Piped, ListWrites, ListIsKilled, ListEnds, ListFails, HeadEnds
  <2>4. CASE Build \/ BuildFails \/ Assign \/ Skip \/ PublishTag
    BY <2>4 DEF Build, BuildFails, Assign, Skip, PublishTag
  <2>5. CASE UNCHANGED scriptVars
    BY <2>5 DEF scriptVars
  <2> QED
    BY <2>1, <2>2, <2>3, <2>4, <2>5 DEF ScriptNext, PipeStep
<1> QED
  BY <1>1, <1>2, CheckInvInductive, PTL DEF ScriptSpec
=============================================================================
