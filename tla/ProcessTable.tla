------------------------------- MODULE ProcessTable -------------------------------
(***********************************************************************************)
(* The browser kernel's process table: pid allocation, the one-way life of a       *)
(* record (running, then exited or killed, once), and the bounded retention of     *)
(* settled records.  JavaScript runs one callback at a time, so a callback that    *)
(* starts or settles several processes is ONE table step: TableStep takes the      *)
(* number of pids it allocates and the sequence of pids it settles, in order.      *)
(*                                                                                 *)
(* Left out: command names, arguments, environment, start times (data no property  *)
(* tells apart) and the signal field, which exitCode determines.                   *)
(***********************************************************************************)
EXTENDS Integers, Sequences, FiniteSets

CONSTANTS
    MaxPid,                 \* bound on the pids a behaviour allocates (the code has none)
    MAX_SETTLED_RECORDS     \* settled records kept in the table (256 in the code)

ASSUME TableAssumption ==
    /\ MaxPid \in Nat \ {0}
    /\ MAX_SETTLED_RECORDS \in Nat

VARIABLES
    nextPid,        \* the pid the next spawn or adopt gets
    procs,          \* the keys of the table's map
    settledPids,    \* the eviction queue: settled pids still in the table, oldest first
    state,          \* state of each record; holders of a record see it after eviction too
    exitCode,       \* exit code of each record, NoCode while it runs
    stdoutOpen      \* the record's own stdout stream has not been ended

tableVars == <<nextPid, procs, settledPids, state, exitCode, stdoutOpen>>

Pid == 1 .. MaxPid
NoCode == -1
ProcessState == {"unused", "running", "exited", "killed"}

\* What `128 + SIGNAL_NUMBERS[signal]` evaluates to for the supported signals.
KillCode == [SIGHUP |-> 129, SIGINT |-> 130, SIGKILL |-> 137, SIGTERM |-> 143]

Running(p) == state[p] = "running"
Settled(p) == state[p] \in {"exited", "killed"}

Elements(seq) == {seq[i] : i \in DOMAIN seq}

\* The enumeration of a set of pids in the order a JavaScript loop over records
\* visits them: records are pushed as they are spawned, so by ascending pid.
InSpawnOrder(S) ==
    {ps \in [1 .. Cardinality(S) -> S] :
        /\ S \subseteq Elements(ps)
        /\ \A i, j \in DOMAIN ps : i < j => ps[i] < ps[j]}

-----------------------------------------------------------------------------------

TableInit ==
    /\ nextPid = 1
    /\ procs = {}
    /\ settledPids = <<>>
    /\ state = [p \in Pid |-> "unused"]
    /\ exitCode = [p \in Pid |-> NoCode]
    /\ stdoutOpen = [p \in Pid |-> FALSE]

\* The pids the next n allocations get.
Fresh(n) == nextPid .. (nextPid + n - 1)

\* How many of the oldest settled records the reaping loop deletes from a queue.
Excess(queue) ==
    IF Len(queue) > MAX_SETTLED_RECORDS THEN Len(queue) - MAX_SETTLED_RECORDS ELSE 0

LeakSettled(started, ps) ==                                      \* mutant: evicted, not deleted
    LET queue == settledPids \o ps
    IN  /\ settledPids' = SubSeq(queue, Excess(queue) + 1, Len(queue))
        /\ procs' = procs \cup started

\* Each settled pid is queued once; the oldest ones beyond the bound leave the table.
ReapSettled(started, ps) ==
    LET queue == settledPids \o ps
        drop  == Excess(queue)
    IN  /\ settledPids' = SubSeq(queue, drop + 1, Len(queue))
        /\ procs' = (procs \cup started) \ {queue[i] : i \in 1 .. drop}

\* n records are created (their stdout a live stream when `live`), then the processes
\* of ps settle in that order as `how` with code c.
TableStep(n, live, ps, how, c) ==
    /\ nextPid + n - 1 \in 0 .. MaxPid
    /\ nextPid' = nextPid + n
    /\ state' = [p \in Pid |-> IF p \in Elements(ps) THEN how
                               ELSE IF p \in Fresh(n) THEN "running" ELSE state[p]]
    /\ exitCode' = [p \in Pid |-> IF p \in Elements(ps) THEN c ELSE exitCode[p]]
    /\ stdoutOpen' = [p \in Pid |-> IF p \in Elements(ps) THEN FALSE
                                    ELSE IF p \in Fresh(n) THEN live ELSE stdoutOpen[p]]
    /\ ReapSettled(Fresh(n), ps)

\* `spawn` of n processes in one callback, all of which are left running.
Spawn(n) == TableStep(n, TRUE, <<>>, "exited", 0)

\* `adopt`: one record whose own streams are ended placeholders.
Adopt == TableStep(1, FALSE, <<>>, "exited", 0)

\* `finish`: the first settlement of a running process; a later one changes nothing.
FinishAgain(p, c) == TableStep(0, FALSE, <<p>>, "exited", c)     \* mutant: settles twice
FinishExited(p, c) ==
    IF Running(p) THEN TableStep(0, FALSE, <<p>>, "exited", c) ELSE UNCHANGED tableVars

-----------------------------------------------------------------------------------

TableTypeOK ==
    /\ nextPid \in 1 .. (MaxPid + 1)
    /\ procs \subseteq Pid
    /\ settledPids \in Seq(Pid)
    /\ state \in [Pid -> ProcessState]
    /\ exitCode \in [Pid -> Nat \cup {NoCode}]
    /\ stdoutOpen \in [Pid -> BOOLEAN]

\* Exactly the pids below nextPid have been used, and a record shows an exit code
\* exactly when it is settled.
RecordsConsistent ==
    \A p \in Pid :
        /\ (state[p] = "unused") <=> (p >= nextPid)
        /\ (exitCode[p] = NoCode) <=> ~Settled(p)
        /\ stdoutOpen[p] => Running(p)

\* Retention: a running process can always be found by its pid (kill and wait never
\* answer ESRCH for it), the eviction queue holds settled pids, each once, and never
\* more than the bound, and nothing else is in the table.
Retention ==
    /\ procs = {p \in Pid : Running(p)} \cup Elements(settledPids)
    /\ \A p \in Elements(settledPids) : Settled(p)
    /\ \A i, j \in DOMAIN settledPids : settledPids[i] = settledPids[j] => i = j
    /\ Len(settledPids) <= MAX_SETTLED_RECORDS

\* A record settles once: no later exit, kill or failure changes how it ended.
SettledForGood ==
    [][\A p \in Pid : Settled(p) => state'[p] = state[p] /\ exitCode'[p] = exitCode[p]]_tableVars
===================================================================================
