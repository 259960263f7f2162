---------------------------------- MODULE Shell ----------------------------------
(***********************************************************************************)
(* Command lines on the browser kernel: the shell interpreter running each line's  *)
(* list over the process table, the program bodies, and the pumps and drains that  *)
(* move their output, under kills of any pid at any time.                          *)
(*                                                                                 *)
(* Every action is one synchronous stretch of JavaScript between two awaits; the   *)
(* interleavings are those of the microtask queue.  A line is run in one of three  *)
(* ways: "exec" (BrowserRuntime.exec: the composite has a pid, and the exit is      *)
(* adopted one callback after the runner ends), "job" (a session's trailing `&`:   *)
(* launchBackground) and "session" (a session's foreground line, which has no pid).*)
(*                                                                                 *)
(* Left out: words, globs and environments (their expansion is one await with at   *)
(* most one command substitution), stderr (each process ends it with stdout, so    *)
(* its drain never outlasts the process), and the in-process builtins, which start *)
(* no process.                                                                     *)
(***********************************************************************************)
EXTENDS ProcessTable

CONSTANTS
    Line,       \* the command lines in flight
    Script,     \* the parsed lists a line may consist of
    Program,    \* the names in the program registry
    Reading,    \* the programs that copy stdin to stdout until end of input
    Hanging,    \* the programs that never end by themselves
    MaxChunks,  \* bound on the chunks a program that does not read may write
    Signal      \* the signals that are sent

NoProgram == "none"
Absent == "absent"      \* a command name that is not registered

\* A pipeline stage: the command, and whether its fd 1 is redirected to a file.
Stage == [prog : Program \cup {Absent}, toFile : BOOLEAN]

\* A list item: its operator, the program run by a `$( )` among its words (or none),
\* and its pipeline.
Item == [op : {";", "&&", "||"},
         sub : Program \cup {Absent, NoProgram},
         stages : Seq(Stage) \ {<<>>}]

ASSUME ShellAssumption ==
    /\ Script \subseteq Seq(Item)
    /\ Reading \subseteq Program /\ Hanging \subseteq Program
    /\ Absent \notin Program /\ NoProgram \notin Program
    /\ MaxChunks \in Nat
    /\ Signal \subseteq DOMAIN KillCode

VARIABLES
    script, way,    \* what each line is and how it was started
    pc,             \* where its runner is suspended
    item,           \* runList's position in the list
    code,           \* exit status of the last item that ran
    canceled,       \* the flag `kill` sets
    owner,          \* pid of the composite, 0 when there is none
    records,        \* every process started for the line, its substitutions' included
    stages,         \* the pipeline (or substitution) the runner is waiting for
    prog,           \* the program of each process
    body,           \* where its body is: "none", "queued", "running", "done"
    wrote,          \* chunks its body has written
    stdoutQ,        \* chunks queued on its stdout, numbered as written
    stdinQ,         \* chunks queued on its stdin
    stdinOpen,      \* stdin not ended
    taken,          \* chunks its body has read from stdin
    drained,        \* chunks its drain has taken from its stdout
    feeds           \* the process its stdout is piped into, 0 when it is drained

runVars == <<script, way, pc, item, code, canceled, owner, records, stages>>
ioVars == <<prog, body, wrote, stdoutQ, stdinQ, stdinOpen, taken, drained, feeds>>
vars == <<tableVars, runVars, ioVars>>

Way == {"exec", "job", "session"}
Runner == {"idle", "list", "expand", "sub", "launch", "wait", "ended", "done"}

ShellInit ==
    /\ script = [l \in Line |-> <<>>] /\ way = [l \in Line |-> "session"]
    /\ pc = [l \in Line |-> "idle"] /\ item = [l \in Line |-> 1]
    /\ code = [l \in Line |-> 0] /\ canceled = [l \in Line |-> FALSE]
    /\ owner = [l \in Line |-> 0] /\ records = [l \in Line |-> {}]
    /\ stages = [l \in Line |-> <<>>]

IoInit ==
    /\ prog = [p \in Pid |-> NoProgram] /\ body = [p \in Pid |-> "none"]
    /\ wrote = [p \in Pid |-> 0] /\ stdoutQ = [p \in Pid |-> <<>>]
    /\ stdinQ = [p \in Pid |-> <<>>] /\ stdinOpen = [p \in Pid |-> FALSE]
    /\ taken = [p \in Pid |-> <<>>] /\ drained = [p \in Pid |-> <<>>]
    /\ feeds = [p \in Pid |-> 0]

Init == TableInit /\ ShellInit /\ IoInit

-----------------------------------------------------------------------------------
(* Starting a line. *)

\* `execute` and, for "exec", the adoption of a pid right behind it; for "job" the
\* adoption is launchBackground's.  The runner is suspended before its first item.
Begin(l, s, w) ==
    /\ pc[l] = "idle"
    /\ script' = [script EXCEPT ![l] = s]
    /\ way' = [way EXCEPT ![l] = w]
    /\ pc' = [pc EXCEPT ![l] = "list"]
    /\ IF w = "session"
       THEN UNCHANGED <<tableVars, owner>>
       ELSE Adopt /\ owner' = [owner EXCEPT ![l] = nextPid]
    /\ UNCHANGED <<item, code, canceled, records, stages, ioVars>>

-----------------------------------------------------------------------------------
(* The list: cancellation and && || ; decide whether the next item runs. *)

CurrentItem(l) == script[l][item[l]]

ShouldRun(l) ==
    CASE CurrentItem(l).op = ";"  -> TRUE
      [] CurrentItem(l).op = "&&" -> code[l] = 0
      [] CurrentItem(l).op = "||" -> code[l] # 0

ListOver(l) == canceled[l] \/ item[l] > Len(script[l])

\* The end of runList and the `finally` behind it, which ends the line's streams.  A
\* job's record settles in the same callback, an exec's in a later one.
EndRunner(l, c) ==
    /\ code' = [code EXCEPT ![l] = c]
    /\ IF way[l] = "job"
       THEN FinishExited(owner[l], c) /\ pc' = [pc EXCEPT ![l] = "done"]
       ELSE /\ UNCHANGED tableVars
            /\ pc' = [pc EXCEPT ![l] = IF way[l] = "exec" THEN "ended" ELSE "done"]

NextItem(l) ==
    /\ pc[l] = "list"
    /\ IF ListOver(l)
       THEN EndRunner(l, code[l]) /\ UNCHANGED item
       ELSE /\ IF ShouldRun(l)
               THEN pc' = [pc EXCEPT ![l] = "expand"] /\ UNCHANGED item
               ELSE item' = [item EXCEPT ![l] = @ + 1] /\ UNCHANGED pc
            /\ UNCHANGED <<tableVars, code>>
    /\ UNCHANGED <<script, way, canceled, owner, records, stages, ioVars>>

\* `result.wait().then(code => proc.exited(code))`
AdoptExit(l) ==
    /\ pc[l] = "ended"
    /\ FinishExited(owner[l], code[l])
    /\ pc' = [pc EXCEPT ![l] = "done"]
    /\ UNCHANGED <<script, way, item, code, canceled, owner, records, stages, ioVars>>

-----------------------------------------------------------------------------------
(* Expansion and launch. *)

\* The I/O state of n fresh processes: what they run, which ones read a pipe.
Wire(n, progOf(_), pipedFrom(_), pipedInto(_)) ==
    /\ prog' = [p \in Pid |-> IF p \in Fresh(n) THEN progOf(p) ELSE prog[p]]
    /\ body' = [p \in Pid |-> IF p \in Fresh(n) THEN "queued" ELSE body[p]]
    /\ stdinOpen' = [p \in Pid |-> IF p \in Fresh(n) THEN pipedFrom(p) ELSE stdinOpen[p]]
    /\ feeds' = [p \in Pid |-> IF p \in Fresh(n) THEN pipedInto(p) ELSE feeds[p]]
    /\ UNCHANGED <<wrote, stdoutQ, stdinQ, taken, drained>>

\* The words are expanded with at most one `$( )`: a subshell whose processes join the
\* line's records and whose list looks at the line's cancellation.  A command that does
\* not exist is reported and the expansion goes on.
Expand(l) ==
    LET s == CurrentItem(l).sub
    IN  /\ pc[l] = "expand"
        /\ IF s \in Program /\ ~canceled[l]
           THEN /\ Spawn(1)
                /\ Wire(1, LAMBDA p : s, LAMBDA p : FALSE, LAMBDA p : 0)
                /\ records' = [records EXCEPT ![l] = @ \cup Fresh(1)]
                /\ stages' = [stages EXCEPT ![l] = <<nextPid>>]
                /\ pc' = [pc EXCEPT ![l] = "sub"]
           ELSE /\ pc' = [pc EXCEPT ![l] = "launch"]
                /\ UNCHANGED <<tableVars, ioVars, records, stages>>
        /\ UNCHANGED <<script, way, item, code, canceled, owner>>

\* A stream is consumed when it is ended and every chunk on it has been taken.
Consumed(p) == ~stdoutOpen[p] /\ stdoutQ[p] = <<>>

Substituted(l) ==
    /\ pc[l] = "sub"
    /\ \A p \in Elements(stages[l]) : Settled(p) /\ Consumed(p)
    /\ pc' = [pc EXCEPT ![l] = "launch"]
    /\ UNCHANGED <<tableVars, script, way, item, code, canceled, owner, records, stages, ioVars>>

\* A stage feeds the next one only while its fd 1 is not redirected.
FeedsNext(cmds, i) == i < Len(cmds) /\ ~cmds[i].toFile

\* The stages in front of the first command that is not registered: n of them.
Spawnable(cmds, n) ==
    /\ \A i \in 1 .. n : cmds[i].prog \in Program
    /\ n < Len(cmds) => cmds[n + 1].prog \notin Program

WireStages(l, n) ==
    LET cmds == CurrentItem(l).stages
        at(p) == p - nextPid + 1
    IN  Wire(n, LAMBDA p : cmds[at(p)].prog,
                LAMBDA p : at(p) > 1 /\ FeedsNext(cmds, at(p) - 1),
                LAMBDA p : IF FeedsNext(cmds, at(p)) /\ at(p) < n THEN p + 1 ELSE 0)

\* The stretch from the end of expansion to the wait for the stages: a kill that landed
\* during expansion starts nothing; a stage that cannot be spawned takes the ones
\* already started with it and fails the line.
LaunchCanceled(l) ==
    /\ pc[l] = "launch" /\ canceled[l]
    /\ code' = [code EXCEPT ![l] = KillCode.SIGTERM]
    /\ item' = [item EXCEPT ![l] = @ + 1]
    /\ pc' = [pc EXCEPT ![l] = "list"]
    /\ UNCHANGED <<tableVars, script, way, canceled, owner, records, stages, ioVars>>

SpawnStages(l) ==
    LET n == Len(CurrentItem(l).stages)
    IN  /\ Spawnable(CurrentItem(l).stages, n)
        /\ Spawn(n)
        /\ WireStages(l, n)
        /\ records' = [records EXCEPT ![l] = @ \cup Fresh(n)]
        /\ stages' = [stages EXCEPT ![l] = [i \in 1 .. n |-> nextPid + i - 1]]
        /\ pc' = [pc EXCEPT ![l] = "wait"]
        /\ UNCHANGED <<script, way, item, code, canceled, owner>>

LaunchStagesUnchecked(l) == pc[l] = "launch" /\ SpawnStages(l)    \* mutant: no second look
LaunchStages(l) == pc[l] = "launch" /\ ~canceled[l] /\ SpawnStages(l)

\* The line fails with status 2 when an item's pipeline cannot be spawned.
LaunchFails(l) ==
    /\ pc[l] = "launch" /\ ~canceled[l]
    /\ \E n \in 0 .. (Len(CurrentItem(l).stages) - 1) :
          /\ Spawnable(CurrentItem(l).stages, n)
          /\ TableStep(n, TRUE, [i \in 1 .. n |-> nextPid + i - 1], "killed", KillCode.SIGTERM)
          /\ WireStages(l, n)
          /\ records' = [records EXCEPT ![l] = @ \cup Fresh(n)]
    /\ code' = [code EXCEPT ![l] = 2]
    /\ item' = [item EXCEPT ![l] = Len(script[l]) + 1]
    /\ pc' = [pc EXCEPT ![l] = "list"]
    /\ UNCHANGED <<script, way, canceled, owner, stages>>

\* A stage is done when it has settled and its drain, if it has one, has read its stream
\* to the end.  A pump into a next stage is not waited for.
StageSettled(p) == Settled(p)                                    \* mutant: drains not awaited
StageDone(p) == Settled(p) /\ (feeds[p] = 0 => Consumed(p))

\* The pipeline waits for every stage and takes the status of the last one.
Collect(l) ==
    /\ pc[l] = "wait"
    /\ \A p \in Elements(stages[l]) : StageDone(p)
    /\ code' = [code EXCEPT ![l] = exitCode[stages[l][Len(stages[l])]]]
    /\ item' = [item EXCEPT ![l] = @ + 1]
    /\ pc' = [pc EXCEPT ![l] = "list"]
    /\ UNCHANGED <<tableVars, script, way, canceled, owner, records, stages, ioVars>>

-----------------------------------------------------------------------------------
(* Program bodies.  A body runs on after its process was killed: nothing stops it, but *)
(* its output is ended (a write throws EBADF and rejects the body) and its own finish  *)
(* no longer counts.                                                                   *)

\* The queued microtask: a process killed before its body started never runs it.
Start(p) ==
    /\ body[p] = "queued"
    /\ body' = [body EXCEPT ![p] = IF Running(p) THEN "running" ELSE "done"]
    /\ UNCHANGED <<tableVars, runVars, prog, wrote, stdoutQ, stdinQ, stdinOpen, taken, drained, feeds>>

\* One write of the body; `left` and `read` are its stdin after the step.
WriteChunk(p, left, read) ==
    /\ stdinQ' = [stdinQ EXCEPT ![p] = left]
    /\ taken' = [taken EXCEPT ![p] = read]
    /\ IF stdoutOpen[p]
       THEN /\ wrote' = [wrote EXCEPT ![p] = @ + 1]
            /\ stdoutQ' = [stdoutQ EXCEPT ![p] = Append(@, wrote[p] + 1)]
            /\ UNCHANGED body
       ELSE /\ body' = [body EXCEPT ![p] = "done"]
            /\ UNCHANGED <<wrote, stdoutQ>>
    /\ UNCHANGED <<tableVars, runVars, prog, stdinOpen, drained, feeds>>

Produce(p) ==
    /\ body[p] = "running" /\ prog[p] \notin Reading
    /\ wrote[p] < MaxChunks
    /\ WriteChunk(p, stdinQ[p], taken[p])

Copy(p) ==
    /\ body[p] = "running" /\ prog[p] \in Reading
    /\ stdinQ[p] # <<>>
    /\ WriteChunk(p, Tail(stdinQ[p]), Append(taken[p], Head(stdinQ[p])))

AtEndOfInput(p) == prog[p] \in Reading => ~stdinOpen[p] /\ stdinQ[p] = <<>>

\* The body returns a status, or throws (status 1); a reader may also stop early.
Return(p, c) ==
    /\ body[p] = "running" /\ prog[p] \notin Hanging
    /\ body' = [body EXCEPT ![p] = "done"]
    /\ FinishExited(p, c)
    /\ UNCHANGED <<runVars, prog, wrote, stdoutQ, stdinQ, stdinOpen, taken, drained, feeds>>

-----------------------------------------------------------------------------------
(* Pumps and drains: the single consumer of each stdout. *)

PumpChunk(p) ==
    /\ feeds[p] # 0 /\ stdoutQ[p] # <<>>
    /\ stdoutQ' = [stdoutQ EXCEPT ![p] = Tail(@)]
    /\ stdinQ' = [stdinQ EXCEPT ![feeds[p]] = Append(@, Head(stdoutQ[p]))]
    /\ UNCHANGED <<tableVars, runVars, prog, body, wrote, stdinOpen, taken, drained, feeds>>

UpstreamExited(p) == state[p] = "exited" /\ stdoutQ[p] = <<>>    \* mutant: a killed one is forgotten
UpstreamEnded(p) == Consumed(p)

PumpEnd(p) ==
    /\ feeds[p] # 0 /\ UpstreamEnded(p) /\ stdinOpen[feeds[p]]
    /\ stdinOpen' = [stdinOpen EXCEPT ![feeds[p]] = FALSE]
    /\ UNCHANGED <<tableVars, runVars, prog, body, wrote, stdoutQ, stdinQ, taken, drained, feeds>>

\* The drain of a stage whose stdout is not on a pipe, or of a substitution.
Drains(p) == prog[p] # NoProgram /\ feeds[p] = 0

Drain(p) ==
    /\ Drains(p) /\ stdoutQ[p] # <<>>
    /\ stdoutQ' = [stdoutQ EXCEPT ![p] = Tail(@)]
    /\ drained' = [drained EXCEPT ![p] = Append(@, Head(stdoutQ[p]))]
    /\ UNCHANGED <<tableVars, runVars, prog, body, wrote, stdinQ, stdinOpen, taken, feeds>>

-----------------------------------------------------------------------------------
(* Kills, by pid: through the runtime, a handle, or the `kill` program. *)

\* A spawned process settles at once; its body is not told.
KillProcess(p, sig) ==
    /\ Running(p) /\ prog[p] # NoProgram
    /\ TableStep(0, FALSE, <<p>>, "killed", KillCode[sig])
    /\ UNCHANGED <<runVars, ioVars>>

LineProcessesSpared(l) == {}                                     \* mutant: the list alone is canceled
LineProcesses(l) == {p \in records[l] : Running(p)}

\* A composite cancels its list, kills the line's running processes, then settles.
KillLine(l, sig) ==
    /\ owner[l] # 0 /\ Running(owner[l])
    /\ canceled' = [canceled EXCEPT ![l] = TRUE]
    /\ \E ps \in InSpawnOrder(LineProcesses(l)) :
           TableStep(0, FALSE, Append(ps, owner[l]), "killed", KillCode[sig])
    /\ UNCHANGED <<script, way, pc, item, code, owner, records, stages, ioVars>>

-----------------------------------------------------------------------------------

Runs(l) ==
    \/ NextItem(l) \/ AdoptExit(l) \/ Expand(l) \/ Substituted(l)
    \/ LaunchCanceled(l) \/ LaunchStages(l) \/ LaunchFails(l) \/ Collect(l)

Moves(p) == PumpChunk(p) \/ PumpEnd(p) \/ Drain(p)

\* Where a behaviour may end: every line is done or waits for a program that hangs.
Quiet ==
    /\ \A l \in Line :
          \/ pc[l] = "done"
          \/ \E p \in Elements(stages[l]) : Running(p) /\ prog[p] \in Hanging
    /\ UNCHANGED vars

Next ==
    \/ \E l \in Line, s \in Script, w \in Way : Begin(l, s, w)
    \/ \E l \in Line : Runs(l)
    \/ \E p \in Pid : Start(p) \/ Produce(p) \/ Copy(p) \/ Moves(p)
    \/ \E p \in Pid, c \in {0, 1} : Return(p, c)
    \/ \E p \in Pid, sig \in Signal : KillProcess(p, sig)
    \/ \E l \in Line, sig \in Signal : KillLine(l, sig)
    \/ Quiet

\* The microtask queue runs every callback it holds; a body that is not written to hang
\* returns once it has nothing left to read.  Lines are started and killed at will.
Fairness ==
    /\ \A l \in Line : WF_vars(Runs(l))
    /\ \A p \in Pid : /\ WF_vars(Start(p)) /\ WF_vars(Moves(p)) /\ WF_vars(Copy(p))
                      /\ WF_vars(AtEndOfInput(p) /\ \E c \in {0, 1} : Return(p, c))

Spec == Init /\ [][Next]_vars /\ Fairness

-----------------------------------------------------------------------------------

RunTypeOK ==
    /\ script \in [Line -> Script \cup {<<>>}] /\ way \in [Line -> Way]
    /\ pc \in [Line -> Runner] /\ item \in [Line -> Nat \ {0}]
    /\ code \in [Line -> Nat] /\ canceled \in [Line -> BOOLEAN]
    /\ owner \in [Line -> Pid \cup {0}] /\ records \in [Line -> SUBSET Pid]
    /\ stages \in [Line -> Seq(Pid)]

IoTypeOK ==
    /\ prog \in [Pid -> Program \cup {NoProgram}]
    /\ body \in [Pid -> {"none", "queued", "running", "done"}]
    /\ wrote \in [Pid -> Nat] /\ stdoutQ \in [Pid -> Seq(Nat)]
    /\ stdinQ \in [Pid -> Seq(Nat)] /\ stdinOpen \in [Pid -> BOOLEAN]
    /\ taken \in [Pid -> Seq(Nat)] /\ drained \in [Pid -> Seq(Nat)]
    /\ feeds \in [Pid -> Pid \cup {0}]

\* The type invariant, with the agreement of pid counter, records and streams: pids are
\* used in order, a record has an exit code exactly when it is settled, and no process
\* that has settled still holds an open stdout (a reader of it would wait for ever).
TypeOK == TableTypeOK /\ RecordsConsistent /\ RunTypeOK /\ IoTypeOK

\* No orphan: once a line's composite has settled, by exit, failure or kill, none of
\* the processes started for it is running, whatever stage of expansion, spawning or
\* waiting the kill or the failure met; nor when a session's line is done.
NoOrphan ==
    \A l \in Line :
        (pc[l] = "done" \/ (owner[l] # 0 /\ Settled(owner[l])))
            => \A p \in records[l] : ~Running(p)

\* Single consumer: every chunk a process wrote is, in order and once, with the reader
\* of its pipe (or with the drain of its sink) or still on the way there.
Chunks(n) == [i \in 1 .. n |-> i]
OutputIntact ==
    \A p \in Pid :
        IF feeds[p] # 0
        THEN taken[feeds[p]] \o stdinQ[feeds[p]] \o stdoutQ[p] = Chunks(wrote[p])
        ELSE drained[p] \o stdoutQ[p] = Chunks(wrote[p])

\* A line's streams are ended only when everything its processes sent to the line or
\* to a file has been drained: the caller's `text()` and the file hold all of it.
DrainedBeforeEnd ==
    \A l \in Line : pc[l] \in {"ended", "done"} =>
        \A p \in records[l] : feeds[p] = 0 => Consumed(p)

\* Both: nothing is lost or split on the way, nor is a line over before it is there.
OutputKept == OutputIntact /\ DrainedBeforeEnd

\* A line is run to its end, or unwinds once it is killed, even when a stage hangs,
\* a stage died under its neighbours or a stage could not be spawned.
MayHang(l) ==
    \E i \in DOMAIN script[l] :
        \/ script[l][i].sub \in Hanging
        \/ \E j \in DOMAIN script[l][i].stages : script[l][i].stages[j].prog \in Hanging
LineEnds == \A l \in Line : (pc[l] # "idle" /\ (canceled[l] \/ ~MayHang(l))) ~> pc[l] = "done"

\* What a caller relies on, stated apart from how the shell achieves it.
Contract == INSTANCE LineContract WITH
    phase <- [l \in Line |->
                IF pc[l] = "idle" THEN "idle"
                ELSE IF pc[l] = "done" \/ (owner[l] # 0 /\ Settled(owner[l])) THEN "over"
                ELSE "open"],
    live <- [l \in Line |-> {p \in records[l] : Running(p)}]
KeepsContract == Contract!Spec
===================================================================================
