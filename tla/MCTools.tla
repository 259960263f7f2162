---- MODULE MCTools ----
(* The agent's delegate tool, and the Preview panel with the tools that open and read it: two systems in one model, of *)
(* which a behaviour runs one.                                                                                         *)
EXTENDS Delegate

CONSTANTS a, b, p1, p2, Port, Nowhere, Pid, Runs, Serves

VARIABLES
    system, kind, listen, last, late, open, servePid, calls, stopping, request, selected, pending, prev, own, due, swapped,
    transport, frame, tool, asked, acts

panelVars == <<kind, listen, last, late, open, servePid, calls, stopping, request, selected, pending, prev, own, due, swapped, transport, frame, tool, asked, acts>>

\* A directory with a file in it, and one without.
MCBases ==
    {[p \in Path |-> CASE p \in {<<a>>, <<b>>} -> Dir [] p = <<a, a>> -> File(0) [] OTHER -> None]}

Command(p, l, w, first) == [port |-> p, loop |-> l, want |-> w, bundle |-> first]
MCRuns == {Command(p1, FALSE, Nowhere, FALSE), Command(p2, FALSE, Nowhere, TRUE), Command(Nowhere, FALSE, p2, FALSE)}
MCServes == {Command(p1, FALSE, Nowhere, FALSE), Command(p2, TRUE, p1, FALSE)}

P == INSTANCE PreviewPanel WITH call <- calls, None <- Nowhere

\* No port, no frame and no verdict is the absence of one; commands bind ports or none.
ASSUME PanelAssumption ==
    /\ Nowhere \notin {"doc", "failed", "pending", "none", "loading"}
    /\ Nowhere \notin Port /\ Nowhere \notin [port : Port, doc : {"blank", "ready"}, since : BOOLEAN]
    /\ \A r \in Runs \cup Serves : r.port \in Port \cup {Nowhere}

----
\* The copies are independent of each other and of the workspace until the merge: it is enough that the children
\* run one after the other, and that others change the workspace after them.
OneByOne ==
    /\ \A c, d \in Child : c < d /\ status[c] = "running" => touched[d] = {} /\ status[d] = "running"
    /\ call = "running" => Edited = {}

\* Bound: changes in all, and children that do not end well.
Few == ops + Cardinality(Edited) + Cardinality({c \in Child : status[c] = "unfinished"}) <= 3

\* Bound: what the user and the agent do; a start counts twice.
MaxActs == 4

MergeStepOf == system = "delegate" /\ OneByOne' /\ Few' /\ UNCHANGED <<system, panelVars>>
PanelStep(n) == system = "panel" /\ acts + n <= MaxActs /\ acts' = acts + n /\ UNCHANGED <<system, vars>>

MCInit ==
    /\ system \in {"delegate", "panel"} /\ Init /\ P!Init /\ acts = 0
    /\ system = "delegate" => kind = "browser" /\ transport = "ready"

MCNext ==
    \/ (Delegate /\ MergeStepOf)
    \/ \E c \in Child : (ChildEnds(c) /\ MergeStepOf) \/ \E p \in Path :
         \/ (WriteFile(c, p) /\ MergeStepOf) \/ (Mkdir(c, p) /\ MergeStepOf) \/ (Rm(c, p) /\ MergeStepOf) \/ (Symlink(c, p) /\ MergeStepOf)
         \/ \E q \in Path : (Rename(c, p, q) /\ MergeStepOf) \/ (Copy(c, p, q) /\ MergeStepOf)
    \/ (AllSettled /\ MergeStepOf) \/ (PassOver /\ MergeStepOf) \/ (BeginApply /\ MergeStepOf) \/ (ApplyStat /\ MergeStepOf)
    \/ (ApplyClear /\ MergeStepOf) \/ (ApplyWrite /\ MergeStepOf) \/ (Applied /\ MergeStepOf) \/ (Report /\ MergeStepOf)
    \/ \E p \in Path : (ApplyDelete(p) /\ MergeStepOf) \/ (ApplyMkdir(p) /\ MergeStepOf) \/ (Edit(p) /\ MergeStepOf)
    \/ (P!Render /\ PanelStep(0))
    \/ (~due /\ P!Starts /\ PanelStep(2)) \/ (~due /\ P!Acts /\ PanelStep(1)) \/ (~due /\ P!Reacts /\ PanelStep(0))

MCSpec == MCInit /\ [][MCNext]_<<vars, system, panelVars>>

----
\* Delegate: the workspace after the merge holds the work of the children that were applied, whole, and of no other.
MergedWhole == MergedExactly /\ OnlyMerged

\* PreviewPanel: the port that agent or user asked for last is the one in view.
LastActShown == P!LastActShown

\* PreviewPanel: what a preview tool says of the preview is true.
ToolsTruthful == P!ToolsTruthful
====
