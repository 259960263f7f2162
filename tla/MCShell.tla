---- MODULE MCShell ----
(* Command lines, and the executions of python and pip: two systems in one model, of which a behaviour runs one.       *)
EXTENDS Shell

CONSTANTS
    None, RESERVED, Executions, Files, AppFiles, Data, Bundled, Prebuilt, Pure, Requirements, MaxEdits, MaxRequests     \* PythonRuntime's

VARIABLES
    system, instance, tail, ph, kind, fs, pfs, backed, synced, routed, app, iters, seq, streams, ends, loaded, edits, requests,
    truth, torn, mixed, since

pythonVars == <<instance, tail, ph, kind, fs, pfs, backed, synced, routed, app, iters, seq, streams, ends, loaded, edits, requests, truth, torn, mixed, since>>

\* A line drawn from a few scripts, over a table that keeps one settled record: a pipeline into a file, a stage that
\* hangs, a substitution, a command that is missing behind one that started, a redirected stage in front of a reader,
\* and && with ||.

Cmd(p) == [prog |-> p, toFile |-> FALSE]
ToFile(p) == [prog |-> p, toFile |-> TRUE]
It(op, sub, stages_) == [op |-> op, sub |-> sub, stages |-> stages_]

MCProgram == {"gen", "cat", "hang"}
MCReading == {"cat"}
MCHanging == {"hang"}

MCScript == {
    <<It(";", "none", <<Cmd("gen"), ToFile("cat")>>)>>,
    <<It(";", "none", <<Cmd("hang"), Cmd("cat")>>), It("||", "none", <<Cmd("gen")>>)>>,
    <<It(";", "gen", <<Cmd("hang")>>)>>,
    <<It(";", "none", <<Cmd("gen"), Cmd("cat"), Cmd("absent")>>)>>,
    <<It(";", "none", <<ToFile("gen"), Cmd("cat")>>)>>,
    <<It(";", "none", <<Cmd("gen")>>), It("&&", "absent", <<Cmd("gen")>>),
      It("||", "none", <<Cmd("gen")>>)>> }

----
\* One file at the top, one in a directory and one that only the app makes; a package of each origin and one of none.
MCFiles == {<<"f">>, <<"d", "g">>}
MCAppFiles == {<<"d", "g">>, <<"d", "h">>}
MCRequirements == {{"wheel", "prebuilt"}, {"pure"}, {"prebuilt", "nowhere"}}

Y == INSTANCE PythonRuntime

\* Bounds: pip is the last execution; edits and requests, two in all.
Few == (\A d, e \in Executions : kind[e] = "pip" => d <= e) /\ edits + requests <= 2

----
ShellStep == system = "shell" /\ UNCHANGED <<system, pythonVars>>
PythonStep == system = "python" /\ Few' /\ UNCHANGED <<system, vars>>

\* Where a behaviour of the executions may end.
PythonQuiet == system = "python" /\ \A e \in Executions : ph[e] \in {"new", "done"}

MCInit ==
    /\ system \in {"shell", "python"} /\ Init /\ Y!Init /\ Few
    /\ system = "shell" => kind = [e \in Executions |-> "python"]

MCNext ==
    \/ \E l \in Line, s \in Script, w \in Way : (Begin(l, s, w) /\ ShellStep)
    \/ \E l \in Line :
        \/ (NextItem(l) /\ ShellStep) \/ (AdoptExit(l) /\ ShellStep) \/ (Expand(l) /\ ShellStep) \/ (Substituted(l) /\ ShellStep)
        \/ (LaunchCanceled(l) /\ ShellStep) \/ (LaunchStages(l) /\ ShellStep) \/ (LaunchFails(l) /\ ShellStep) \/ (Collect(l) /\ ShellStep)
    \/ \E p \in Pid :
        \/ (Start(p) /\ ShellStep) \/ (Produce(p) /\ ShellStep) \/ (Copy(p) /\ ShellStep)
        \/ (PumpChunk(p) /\ ShellStep) \/ (PumpEnd(p) /\ ShellStep) \/ (Drain(p) /\ ShellStep)
    \/ \E p \in Pid, c \in {0, 1} : (Return(p, c) /\ ShellStep)
    \/ \E p \in Pid, sig \in Signal : (KillProcess(p, sig) /\ ShellStep)
    \/ \E l \in Line, sig \in Signal : (KillLine(l, sig) /\ ShellStep)
    \/ \E e \in Executions :
        \/ (Y!Submit(e) /\ PythonStep) \/ (Y!Start(e) /\ PythonStep) \/ (Y!Refuse(e) /\ PythonStep) \/ (Y!LoadFailed(e) /\ PythonStep)
        \/ (Y!Schedule(e) /\ PythonStep) \/ (Y!Evaluate(e) /\ PythonStep) \/ (Y!Finish(e) /\ PythonStep)
        \/ (Y!Install(e) /\ PythonStep) \/ (Y!Installed(e) /\ PythonStep)
    \/ (Y!LoadSettles /\ PythonStep) \/ (Y!Buffered /\ PythonStep) \/ (Y!Streamed /\ PythonStep) \/ (Y!Edit /\ PythonStep)
    \/ \E r \in DOMAIN streams : (Y!Pull(r) /\ PythonStep) \/ (Y!StreamOver(r) /\ PythonStep) \/ (Y!Return(r) /\ PythonStep)
    \/ (system = "shell" /\ Quiet /\ ShellStep)
    \/ (PythonQuiet /\ UNCHANGED <<vars, system, pythonVars>>)

\* The fairness of both; what the system that does not run waits for is never due.
MCSpec == MCInit /\ [][MCNext]_<<vars, system, pythonVars>> /\ Fairness /\ Y!Fairness

----
\* PythonRuntime: streams keep their iterables, output its owner, and pip tells the truth.
PythonTrue == system = "python" => Y!StreamsKept /\ Y!OutputOwn /\ Y!PipTruthful

\* PythonRuntime: the two copies of the workspace stay one, and every execution ends.
PythonRuns == Y!OneTree /\ Y!AllEnd
====
