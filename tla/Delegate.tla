---- MODULE Delegate ----
(* One call of the delegate tool: sub-agents on copies of the workspace, the capture of what each *)
(* changed, and the merge in array order through the contract of the runtime                      *)
(* (apps/web/src/lib/delegate.ts), on the trees of packages/runtime-browser/src/vfs/vfs.ts.        *)
(* A step of the merge is the stretch between two of its awaits; meanwhile the user's terminal and  *)
(* the folder's rescan go on changing the workspace.  The content of a file is who wrote it.        *)
(* Symlinks are leaves that nothing resolves through, and the workspace has none when the call      *)
(* begins.  Others change single files.                                                             *)
EXTENDS Naturals, FiniteSets, SequencesExt

CONSTANTS
    Name,           \* file names
    Depth,          \* bound: length of a path
    Bases,          \* the workspaces a call may begin with
    NChild,         \* children of the call, in the order of the array
    MaxOps,         \* bound: changes of the children to their copies, together
    MaxEdits        \* bound: changes of others to the workspace during the call

Child == 1 .. NChild
Path == UNION {[1 .. n -> Name] : n \in 1 .. Depth}

None == [type |-> "none", by |-> 0]
Dir == [type |-> "dir", by |-> 0]
Link == [type |-> "link", by |-> 0]
File(by) == [type |-> "file", by |-> by]
Content == {File(by) : by \in 0 .. NChild + 1}    \* 0: before the call; NChild + 1: others
Tree == [Path -> {None, Dir, Link} \cup Content]

\* The paths at or beneath p, beneath it, and above it.
Subtree == [p \in Path |-> {q \in Path : IsPrefix(p, q)}]
Beneath == [p \in Path |-> Subtree[p] \ {p}]
Above == [p \in Path |-> {q \in Path : p \in Beneath[q]}]

Open(t, p) == Len(p) > 1 => t[Front(p)] = Dir
WellFormed(t) == \A p \in Path : t[p] # None => Open(t, p)

ASSUME DelegateAssumption ==
    /\ Depth \in Nat \ {0} /\ NChild \in 1 .. 3 /\ MaxOps \in Nat /\ MaxEdits \in Nat
    /\ Bases \subseteq [Path -> {None, Dir, File(0)}] /\ \A t \in Bases : WellFormed(t)

VARIABLES
    parent,     \* the workspace
    base,       \* its snapshot
    scratch,    \* the copy of each child
    touched,    \* changedPaths of each child
    status,     \* of each child; "done" is waiting for the merge or, when it throws, in it
    cut,        \* the changes captured of each child
    call,       \* idle, running, merging, reported, or failed: the call threw
    turn,       \* the child the merge is at
    job,        \* what is left of applyChanges for it
    applied,    \* the paths the merge has changed
    ops,
    edits       \* what others last made of a path during the call

vars == <<parent, base, scratch, touched, status, cut, call, turn, job, applied, ops, edits>>

Same == [type |-> "same", by |-> 0]
Idle == [rm |-> {}, put |-> {}, at |-> <<>>, step |-> "idle"]
Job == [rm : SUBSET Path, put : SUBSET Path, at : Path \cup {<<>>},
        step : {"idle", "delete", "mkdir", "stat", "clear", "write"}]

TypeOK ==
    /\ parent \in Tree /\ WellFormed(parent) /\ base \in Tree
    /\ scratch \in [Child -> Tree] /\ \A c \in Child : WellFormed(scratch[c])
    /\ touched \in [Child -> SUBSET Path]
    /\ status \in [Child -> {"running", "done", "unfinished", "error", "conflict", "applied"}]
    /\ cut \in [Child -> [Path -> {Same, None} \cup Content]]
    /\ call \in {"idle", "running", "merging", "reported", "failed"} /\ turn \in 1 .. NChild + 1
    /\ job \in Job /\ applied \subseteq Path /\ ops \in 0 .. MaxOps /\ edits \in [Path -> {Same, None} \cup Content]

Init ==
    /\ parent \in Bases /\ base = parent
    /\ scratch = [c \in Child |-> parent] /\ touched = [c \in Child |-> {}]
    /\ status = [c \in Child |-> "running"] /\ cut = [c \in Child |-> [p \in Path |-> Same]]
    /\ call = "idle" /\ turn = 1 /\ job = Idle /\ applied = {} /\ ops = 0
    /\ edits = [p \in Path |-> Same]

----
\* The file system.

FileAt(t, p) == IF t[p].type = "file" THEN t[p] ELSE None
FilesUnder(t, p) == {q \in Beneath[p] : t[q].type = "file"}
BlockedBy(t, p) == \E q \in Above[p] : t[q].type \in {"file", "link"}    \* ENOTDIR

Removed(t, p) == [q \in Path |-> IF q \in Subtree[p] THEN None ELSE t[q]]

WithDirs(t, p) == [q \in Path |-> IF p \in Subtree[q] /\ t[q] = None THEN Dir ELSE t[q]]

\* t with the subtree that s has at p put at q, in place of what is there.
Grafted(t, s, p, q) ==
    [r \in Path |-> IF r \notin Subtree[q] THEN t[r]
                    ELSE LET from == p \o SubSeq(r, Len(q) + 1, Len(r))
                         IN IF Len(from) <= Depth THEN s[from] ELSE None]
Fits(s, p, q) == \A r \in Subtree[p] : s[r] # None => Len(q) + Len(r) - Len(p) <= Depth

\* A directory as the destination takes the source in under its own name.
Landing(t, p, q) == IF t[q] = Dir THEN Append(q, Last(p)) ELSE q

----
\* The children.

Delegate ==
    /\ call = "idle" /\ call' = "running"
    /\ UNCHANGED <<parent, base, scratch, touched, status, cut, turn, job, applied, ops, edits>>

MayChange(c) == call = "running" /\ status[c] = "running" /\ ops < MaxOps

\* A change of child c to its copy, with the paths of its file.changed events.
Changes(c, t, paths) ==
    /\ scratch' = [scratch EXCEPT ![c] = t]
    /\ touched' = [touched EXCEPT ![c] = @ \cup paths]
    /\ ops' = ops + 1
    /\ UNCHANGED <<parent, base, status, cut, call, turn, job, applied, edits>>

WriteFile(c, p) ==
    LET t == scratch[c] IN
    /\ MayChange(c)
    /\ Open(t, p) /\ t[p].type \in {"none", "file"}
    /\ Changes(c, [t EXCEPT ![p] = File(c)], {p})

Mkdir(c, p) ==
    LET t == scratch[c] IN
    /\ MayChange(c)
    /\ t[p] = None /\ ~BlockedBy(t, p)
    /\ Changes(c, WithDirs(t, p), {q \in Above[p] \cup {p} : t[q] = None})

Rm(c, p) ==
    LET t == scratch[c] IN
    /\ MayChange(c)
    /\ t[p] # None
    /\ Changes(c, Removed(t, p), {p})

Rename(c, p, q) ==
    LET t == scratch[c]
        to == Landing(t, p, q)
    IN /\ MayChange(c) /\ t[p] # None /\ Open(t, q) /\ Len(to) <= Depth /\ Fits(t, p, to)
       /\ t[p] = Dir => to \notin Beneath[p]
       /\ t[to] = Dir => t[p] = Dir /\ \A r \in Beneath[to] : t[r] = None
       /\ Changes(c, Grafted(Removed(t, p), t, p, to), {p, to})

Copy(c, p, q) ==
    LET t == scratch[c]
        to == Landing(t, p, q)
    IN /\ MayChange(c) /\ t[p] # None /\ Open(t, q) /\ Len(to) <= Depth /\ Fits(t, p, to)
       /\ Changes(c, Grafted(t, t, p, to), {to})

Symlink(c, p) ==
    LET t == scratch[c] IN
    /\ MayChange(c)
    /\ t[p] = None /\ Open(t, p)
    /\ Changes(c, [t EXCEPT ![p] = Link], {p})

----
\* computeChildChanges.

\* mutant: only the paths of the events are compared.
EventPaths(c) == touched[c]

\* Directories of the events are expanded to the files in them, on both sides.
Expanded(c) ==
    touched[c]
    \cup (UNION {FilesUnder(base, p) : p \in {p \in touched[c] : base[p] = Dir}})
    \cup (UNION {FilesUnder(scratch[c], p) : p \in {p \in touched[c] : scratch[c][p] = Dir}})

RemovedDirs(c) == {p \in touched[c] : base[p] = Dir /\ scratch[c][p] = None}

Captured(c) ==
    [p \in Path |->
        IF p \in RemovedDirs(c) THEN None
        ELSE IF p \in Expanded(c) /\ FileAt(base, p) # FileAt(scratch[c], p) THEN FileAt(scratch[c], p)
        ELSE Same]

\* A child ends and its changes are captured, or refused for a symlink in them.  Unfinished is one that was aborted,
\* hit its step limit or failed.
ChildEnds(c) ==
    /\ call = "running" /\ status[c] = "running"
    /\ LET linked == \E p \in Expanded(c) : scratch[c][p] = Link IN
       \E end \in {"done", "unfinished"} :
        /\ status' = [status EXCEPT ![c] = IF linked THEN "error" ELSE end]
        /\ cut' = [cut EXCEPT ![c] = IF linked THEN @ ELSE Captured(c)]
    /\ UNCHANGED <<parent, base, scratch, touched, call, turn, job, applied, ops, edits>>

----
\* The merge.

Changed(c) == {p \in Path : cut[c][p] # Same}

ConflictPaths(c) ==
    {p \in Changed(c) : p \in applied \/ (cut[c][p] = None /\ Beneath[p] \cap applied # {})}

Mergeable(c) == status[c] = "done"

AllSettled ==
    /\ call = "running" /\ \A c \in Child : status[c] # "running"
    /\ call' = "merging"
    /\ UNCHANGED <<parent, base, scratch, touched, status, cut, turn, job, applied, ops, edits>>

\* Nothing to merge of a child, or a conflict, in which all of it is rejected.
PassOver ==
    /\ call = "merging" /\ turn \in Child /\ job = Idle
    /\ ~Mergeable(turn) \/ ConflictPaths(turn) # {}
    /\ status' = [status EXCEPT ![turn] = IF Mergeable(turn) THEN "conflict" ELSE @]
    /\ turn' = turn + 1
    /\ UNCHANGED <<parent, base, scratch, touched, cut, call, job, applied, ops, edits>>

BeginApply ==
    /\ call = "merging" /\ turn \in Child /\ job = Idle
    /\ Mergeable(turn) /\ ConflictPaths(turn) = {}
    /\ LET rm == {p \in Path : cut[turn][p] = None} IN
       job' = [rm |-> rm, put |-> Changed(turn) \ rm, at |-> <<>>, step |-> "delete"]
    /\ UNCHANGED <<parent, base, scratch, touched, status, cut, call, turn, applied, ops, edits>>

\* A call on the workspace with its result t, after which the paths in ps count as applied, or a throw that
\* ends the delegate call.
Calls(throws, t, ps) ==
    /\ call = "merging"
    /\ call' = IF throws THEN "failed" ELSE call
    /\ parent' = IF throws THEN parent ELSE t
    /\ applied' = IF throws THEN applied ELSE applied \cup ps
    /\ UNCHANGED <<base, scratch, touched, status, cut, turn, ops, edits>>

\* Deletes first, what is beneath a path before the path; the order of the others is left open.
Deletable(p) == job.step = "delete" /\ p \in job.rm /\ Beneath[p] \cap job.rm = {}

ApplyDelete(p) ==
    /\ Deletable(p)
    /\ Calls(BlockedBy(parent, p), Removed(parent, p), {p})
    /\ job' = [job EXCEPT !.rm = @ \ {p}]

Writable(p) == job.step = "delete" /\ job.rm = {} /\ p \in job.put

ApplyMkdir(p) ==
    /\ Writable(p)
    /\ IF Len(p) = 1 THEN Calls(FALSE, parent, {})
       ELSE Calls(BlockedBy(parent, p), WithDirs(parent, Front(p)), {})
    /\ job' = [job EXCEPT !.at = p, !.step = "stat"]

ApplyStat ==
    /\ job.step = "stat"
    /\ job' = [job EXCEPT !.step = IF parent[job.at] = Dir THEN "clear" ELSE "write"]
    /\ Calls(FALSE, parent, {})

ApplyClear ==
    /\ job.step = "clear"
    /\ Calls(BlockedBy(parent, job.at), Removed(parent, job.at), {})
    /\ job' = [job EXCEPT !.step = "write"]

ApplyWrite ==
    LET p == job.at IN
    /\ job.step = "write"
    /\ Calls(~Open(parent, p) \/ parent[p] = Dir, [parent EXCEPT ![p] = cut[turn][p]], {p})
    /\ job' = [job EXCEPT !.put = @ \ {p}, !.at = <<>>, !.step = "delete"]

Applied ==
    /\ call = "merging" /\ job.step = "delete" /\ job.rm = {} /\ job.put = {}
    /\ status' = [status EXCEPT ![turn] = "applied"]
    /\ turn' = turn + 1 /\ job' = Idle
    /\ UNCHANGED <<parent, base, scratch, touched, cut, call, applied, ops, edits>>

Report ==
    /\ call = "merging" /\ turn = NChild + 1 /\ call' = "reported"
    /\ UNCHANGED <<parent, base, scratch, touched, status, cut, turn, job, applied, ops, edits>>

----
\* Others change a file of the workspace while the call is on.
Edited == {p \in Path : edits[p] # Same}

Edit(p) ==
    /\ call \in {"running", "merging"} /\ Cardinality(Edited) < MaxEdits
    /\ \/ /\ Open(parent, p) /\ parent[p].type \in {"none", "file"}
          /\ parent' = [parent EXCEPT ![p] = File(NChild + 1)]
       \/ /\ parent[p].type = "file"
          /\ parent' = [parent EXCEPT ![p] = None]
    /\ edits' = [edits EXCEPT ![p] = parent'[p]]
    /\ UNCHANGED <<base, scratch, touched, status, cut, call, turn, job, applied, ops>>

ChildStep(c) ==
    \/ ChildEnds(c)
    \/ \E p \in Path : \/ WriteFile(c, p) \/ Mkdir(c, p) \/ Rm(c, p) \/ Symlink(c, p)
                       \/ \E q \in Path : Rename(c, p, q) \/ Copy(c, p, q)

MergeStep ==
    \/ AllSettled \/ PassOver \/ BeginApply \/ ApplyStat \/ ApplyClear \/ ApplyWrite \/ Applied \/ Report
    \/ \E p \in Path : ApplyDelete(p) \/ ApplyMkdir(p)

Next == Delegate \/ (\E c \in Child : ChildStep(c)) \/ MergeStep \/ \E p \in Path : Edit(p)

Spec == Init /\ [][Next]_vars

----
\* Properties.

\* The files a child left otherwise than it found them.
Differs(c) == {p \in Path : FileAt(scratch[c], p) # FileAt(base, p)}
Merged == {c \in Child : status[c] = "applied"}

\* A later child's file where an earlier one made a directory: see AppliedSurvives.
Overbuilt(c, p) == \E d \in Merged : d > c /\ \E q \in Differs(d) \cap Above[p] : scratch[d][q].type = "file"

\* When a call is reported the workspace is what it was, with the work of the applied children in it: every
\* file they left, moved or removed, however they did it, no file twice, and nothing else.
MergedExactly ==
    call = "reported" /\ Edited = {} =>
        \A p \in Path : LET by == {c \in Merged : p \in Differs(c)} IN
            /\ Cardinality(by) <= 1
            /\ by = {} => FileAt(parent, p) = FileAt(base, p)
            /\ \A c \in by : FileAt(parent, p) = FileAt(scratch[c], p) \/ Overbuilt(c, p)

\* At every moment, a file that is not what it was before the call or what others made of it is so by the work of a
\* child that ended well and was not rejected: what another child did leaves no trace, whatever throws.
OnlyMerged ==
    \A p \in Path :
        LET alone == IF p \in Edited THEN edits[p] ELSE FileAt(base, p) IN
        FileAt(parent, p) # alone =>
            \E c \in Child : /\ status[c] = "applied" \/ (status[c] = "done" /\ turn = c)
                             /\ \E q \in Changed(c) : IF p \in Edited THEN p \in Subtree[q] ELSE q = p /\ p \in Differs(c)
====
