---- MODULE RunChanges ----
(* What a thread's Review shows of its turns, and what reverting a change does: apps/web/src/lib/studio.ts            *)
(* (runAgentTurn's collector, computeRunChanges, mergeChanges, revertChange) and snapshot-read.ts, over the browser   *)
(* kernel's filesystem.  A file's bytes are a member of Data; decoding bytes of Binary to show them loses them.       *)
EXTENDS Vfs

CONSTANTS
    Paths, Data, Binary,
    NonProject,             \* names of directories that are no part of the project: node_modules, .git, .erdou
    Targets,                \* of the symbolic links the agent makes
    MaxTurns, MaxCalls, MaxNodes    \* bounds: turns, calls of a turn or of the user between two turns, nodes below the root

VARIABLES
    tree,
    turns, calls,       \* turns started; calls made in this one, or since the last
    startSnap,          \* the tree at the start of the turn, None between turns
    changed,            \* the paths collected in it
    changes,            \* run.changes, by path
    first,              \* the tree at the start of the thread
    users               \* files somebody else has written, be it the same bytes

vars == <<tree, turns, calls, startSnap, changed, changes, first, users>>

Init ==
    /\ \E d \in Data : tree \in {Put(Put(Empty, <<"a">>, Dir), <<"a", "b">>, File(d)), Put(Empty, <<"b">>, File(d))}
    /\ turns = 0 /\ calls = 0 /\ startSnap = None /\ changed = {} /\ changes = <<>>
    /\ first = tree /\ users = {}

FilesOf(fs) == {p \in DOMAIN fs : IsA(fs, p, "file")}
Altered(fs, gs) == {p \in FilesOf(fs) \cup FilesOf(gs) : p \notin FilesOf(fs) \cap FilesOf(gs) \/ fs[p] # gs[p]}

isNonProjectPath(p) == \E i \in DOMAIN p : p[i] \in NonProject

\* What TextDecoder makes of bytes; encoded again it is another file.
Lossy == "lossy"
decoded(data) == IF data \in Binary THEN Lossy ELSE data

----
(* The diff of a turn.  A reader answers None for what is no file. *)

\* SnapshotReader.read follows no link, neither does the one of the live tree in the last component.
before(snap, p) == IF p \in DOMAIN snap /\ IsA(snap, p, "file") THEN decoded(snap[p].data) ELSE None

after(fs, p) ==
    LET r == resolvePath(fs, p, FALSE) IN
    IF exists(fs, p) /\ IsA(fs, r.at, "file") THEN decoded(fs[r.at].data) ELSE None

filesUnder(fs, at, p) == {p \o SubSeq(q, Len(at) + 1, Len(q)) : q \in Below(fs, at) \cap FilesOf(fs)}

\* A directory stands for the files beneath it, at the turn's start and now.
Expanded(snap, fs, paths) ==
    LET was(p) == IF p \in DOMAIN snap /\ IsA(snap, p, "directory") THEN filesUnder(snap, p, p) ELSE {}
        is(p) == LET at == resolvePath(fs, p, FALSE).at IN
                 IF exists(fs, p) /\ IsA(fs, at, "directory") THEN filesUnder(fs, at, p) ELSE {}
    IN  {p \in paths \cup UNION {was(p) \cup is(p) : p \in paths} : ~isNonProjectPath(p)}

Change(kind, b, a, bytes) == [kind |-> kind, before |-> b, after |-> a, bytes |-> bytes]

\* "": what an absent file is shown as.
Shown(text) == IF text = None THEN "" ELSE text

\* buildFileChanges, and the exact bytes where showing them would lose them.
computeRunChanges(snap, fs, paths) ==
    LET differs == {p \in Expanded(snap, fs, paths) : before(snap, p) # after(fs, p)} IN
    [p \in differs |->
        LET b == before(snap, p)
            a == after(fs, p)
        IN  Change(IF b = None THEN "create" ELSE IF a = None THEN "delete" ELSE "modify", Shown(b), Shown(a),
                   IF b = Lossy THEN snap[p].data ELSE None)]

\* mutant: whether a file existed is read off what is shown.
mergeByContent(prior, turn) ==
    LET Span(p) == IF p \in DOMAIN prior THEN prior[p] ELSE turn[p]
        gone == {p \in DOMAIN turn : Span(p).before = turn[p].after}
        kind(p) == IF Span(p).before = "" THEN "create" ELSE IF turn[p].after = "" THEN "delete" ELSE "modify"
    IN  [p \in (DOMAIN prior \cup DOMAIN turn) \ gone |->
            IF p \in DOMAIN turn THEN Change(kind(p), Span(p).before, turn[p].after, Span(p).bytes) ELSE prior[p]]

\* A path keeps one entry over all turns, from what it was at first to what it is now.
mergeChanges(prior, turn) ==
    LET Span(p) == IF p \in DOMAIN prior THEN prior[p] ELSE turn[p]
        existedAtStart(p) == Span(p).kind # "create"
        existsNow(p) == turn[p].kind # "delete"
        gone == {p \in DOMAIN turn : (existedAtStart(p) <=> existsNow(p)) /\ Span(p).before = turn[p].after}
        kind(p) == IF ~existedAtStart(p) THEN "create" ELSE IF ~existsNow(p) THEN "delete" ELSE "modify"
    IN  [p \in (DOMAIN prior \cup DOMAIN turn) \ gone |->
            IF p \in DOMAIN turn THEN Change(kind(p), Span(p).before, turn[p].after, Span(p).bytes) ELSE prior[p]]

\* revertChange: the parents first, then the exact bytes if they are kept.
reverted(fs, p, c) ==
    LET made == mkdir(fs, Front(p), TRUE) IN
    IF c.kind = "create" THEN rm(fs, p, FALSE, TRUE)
    ELSE IF made.err # "" THEN made
    ELSE LET w == writeFile(made.fs, p, IF c.bytes # None THEN c.bytes ELSE c.before) IN [w EXCEPT !.events = made.events \o @]

----
(* The thread. *)

Within(fs) == Cardinality(DOMAIN fs) <= MaxNodes + 1

StartTurn ==
    /\ startSnap = None /\ turns < MaxTurns
    /\ turns' = turns + 1 /\ calls' = 0 /\ startSnap' = tree /\ changed' = {}
    /\ IF turns = 0 THEN first' = tree ELSE UNCHANGED first
    /\ UNCHANGED <<tree, changes, users>>

\* The calls of the runtime an agent's tools make, whole directories among them.
AgentCalls ==
    UNION {{mkdir(tree, p, TRUE), rm(tree, p, TRUE, TRUE)}
            \cup {writeFile(tree, p, d) : d \in Data} \cup {symlink(tree, t, p) : t \in Targets}
            \cup {rename(tree, p, q) : q \in Paths} \cup {copy(tree, p, q) : q \in Paths} : p \in Paths}

\* The collector: what its listener is told of.
collect(events) == changed' = changed \cup {p \in ToSet(events) : ~isNonProjectPath(p)}

AgentCall ==
    /\ startSnap # None /\ calls < MaxCalls
    /\ \E r \in {s \in AgentCalls : s.err = "" /\ Within(s.fs)} :
         /\ tree' = r.fs /\ collect(r.events)
    /\ calls' = calls + 1 /\ UNCHANGED <<turns, startSnap, changes, first, users>>

\* A rescan writes the user's edit of the folder into the workspace; once its event has settled the path is taken out
\* of the collection.  It makes no directory: a file in one the workspace lacks is refused.
Pull ==
    /\ startSnap # None /\ calls < MaxCalls
    /\ \E p \in Paths, d \in Data :
         LET w == writeFile(tree, p, d) IN
         w.err = "" /\ Within(w.fs) /\ tree' = w.fs /\ users' = users \cup {p} /\ changed' = changed \ {p}
    /\ calls' = calls + 1 /\ UNCHANGED <<turns, startSnap, changes, first>>

\* The finally of the turn, whatever has ended it.
EndTurn ==
    /\ startSnap # None
    /\ changes' = mergeChanges(changes, computeRunChanges(startSnap, tree, changed))
    /\ startSnap' = None /\ changed' = {} /\ calls' = 0
    /\ UNCHANGED <<tree, turns, first, users>>

\* Between turns; the entry stays in the list.
revertChange ==
    /\ startSnap = None /\ calls < MaxCalls
    /\ \E p \in DOMAIN changes :
         LET r == reverted(tree, p, changes[p]) IN tree' = r.fs /\ users' = users \cup Altered(tree, r.fs) /\ Within(r.fs)
    /\ calls' = calls + 1 /\ UNCHANGED <<turns, startSnap, changed, changes, first>>

UserEdit ==
    /\ startSnap = None /\ calls < MaxCalls /\ turns > 0
    /\ \E p \in Paths : \E r \in {rm(tree, p, TRUE, TRUE)} \cup {writeFile(tree, p, d) : d \in Data} :
         /\ r.err = "" /\ Within(r.fs) /\ tree' = r.fs /\ users' = users \cup Altered(tree, r.fs)
    /\ calls' = calls + 1 /\ UNCHANGED <<turns, startSnap, changed, changes, first>>

Next == StartTurn \/ AgentCall \/ Pull \/ EndTurn \/ revertChange \/ UserEdit

Spec == Init /\ [][Next]_vars

----
\* Nobody else has written the file, or a file in the place of a directory above it.
AgentsOwn(p) == \A u \in users : ~IsPrefix(u, p)

\* Between turns Review shows of every project file only the agent has changed how it differs from the start of the
\* thread, and nothing if it does not: over directories removed, renamed and copied whole, over files made and
\* emptied, and however the turns' changes undo each other.
ReviewExact ==
    startSnap = None =>
        \A p \in {q \in DOMAIN changes \cup Altered(first, tree) : AgentsOwn(q)} :
            LET b == before(first, p)
                a == after(tree, p)
            IN  ~isNonProjectPath(p) =>
                IF b = a THEN p \notin DOMAIN changes
                ELSE p \in DOMAIN changes /\ changes[p].before = Shown(b) /\ changes[p].after = Shown(a)
                     /\ (changes[p].kind = "create" <=> b = None) /\ (changes[p].kind = "delete" <=> a = None)

\* Reverting a change puts back the bytes the file had before the thread, or its absence, and touches no other file;
\* where something else has taken the place of the file or of a directory above it, it fails and touches nothing.
RevertExact ==
    startSnap = None =>
        \A p \in DOMAIN changes :
            LET r == reverted(tree, p, changes[p]) IN
            /\ Altered(tree, r.fs) \subseteq {p}
            /\ r.err = "" /\ AgentsOwn(p) =>
                 IF p \in FilesOf(first) THEN p \in DOMAIN r.fs /\ r.fs[p] = first[p] ELSE p \notin FilesOf(r.fs)
            /\ r.err # "" => \E q \in DOMAIN tree : IsPrefix(q, p) /\ (q = p <=> ~IsA(tree, q, "file"))
====
