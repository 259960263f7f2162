---- MODULE Files ----
(* The files of a runtime and what its listeners learn of them: on the browser kernel calls announce what they do at  *)
(* once; on the VM kernel the guest writes below the bridge, which sees it in the hooks it has put on the 9p export   *)
(* and announces it when its timer fires.                                                                             *)
EXTENDS Fs9pBridge

CONSTANTS
    Paths,          \* paths as callers write them
    Targets,        \* of symbolic links
    Data,
    MaxNodes, MaxInodes     \* bounds: nodes of a tree below the root, inodes made

VARIABLES
    kernelKind,     \* "browser" or "vm"
    tree,           \* the workspace
    ino,            \* the inode of every path of the VM's workspace
    inodes,         \* inodes made
    paths,          \* the bridge's index: inode to path
    pendingChanges, \* paths recorded since the last flush
    known,          \* the tree as a listener knows it that reads each path it is told of
    saved           \* a snapshot, None before one is taken

bridge == <<ino, inodes, paths, pendingChanges>>
vars == <<kernelKind, tree, bridge, known, saved>>

Indexed(fs) == DOMAIN fs \ Skeleton

Init ==
    /\ kernelKind \in {"browser", "vm"} /\ saved = None
    /\ tree = IF kernelKind = "vm" THEN Booted ELSE Empty
    /\ known = tree
    /\ ino = [p \in {<<>>} |-> 1] /\ inodes = 1 /\ paths = [i \in {1} |-> <<>>] /\ pendingChanges = {}

\* The listener reads what is at a path it is told of, links before it followed and the last one too.
Learnt(view, fs, path) ==
    LET r == resolvePath(fs, path, FALSE)
        s == resolvePath(fs, path, TRUE)
        Read(v, p) == [q \in (DOMAIN v \ Below(v, p)) \cup (IF p \in DOMAIN fs THEN Below(fs, p) ELSE {}) |-> IF IsPrefix(p, q) THEN fs[q] ELSE v[q]]
        slot == IF r.err = "" THEN Read(view, r.slot) ELSE view
    IN  IF s.err = "" /\ s.at # None THEN Read(slot, s.at) ELSE slot

Told(events, fs) == FoldLeft(LAMBDA v, p : Learnt(v, fs, p), known, events)

Bounded == Cardinality(DOMAIN tree' \ Skeleton) <= MaxNodes + 1

----
(* The browser kernel. *)

\* A path that is announced leads where it led; if the call has taken away a link on its way it leads nowhere, and the
\* listener is taken to know.
Standing(r) == \A e \in ToSet(r.events) : resolvePath(tree, e, FALSE).slot = resolvePath(r.fs, e, FALSE).slot

\* A call that does nothing is no step.
Does(r) == r.events # <<>> \/ r.fs # tree

Vcall(r) ==
    /\ Does(r) /\ tree' = r.fs /\ Bounded
    /\ known' = IF Standing(r) THEN Told(r.events, r.fs) ELSE r.fs
    /\ UNCHANGED <<kernelKind, bridge, saved>>

\* The places in the workspace that are worked at.
Places == {p \in {normalize(q) : q \in Paths} : p # <<>> /\ ~guardSkeleton(p)}

BrowserCall ==
    kernelKind = "browser" /\ \E p \in Paths :
        \/ \E d \in Data : Vcall(writeFile(tree, p, d)) \/ Vcall(touchCommand(tree, p, d))
        \/ \E b \in BOOLEAN : Vcall(mkdir(tree, p, b)) \/ \E f \in BOOLEAN : Vcall(rm(tree, p, b, f))
        \/ p \in Places /\ \E q \in Places : Vcall(rename(tree, p, q)) \/ \E b \in BOOLEAN : Vcall(cpCommand(tree, p, q, b))
        \/ \E t \in Targets : Vcall(symlink(tree, t, p))

----
(* The VM kernel. *)

\* A page-side call: the hooks are suppressed or tell the same, the index is brought up to date; a new chain of
\* directories takes new inodes from the top down.
Hcall(r) ==
    LET new == Indexed(r.fs) \ DOMAIN ino
        top == IF new = {} THEN 0 ELSE Min({Len(p) : p \in new})
    IN  /\ Does(r) /\ tree' = r.fs /\ Bounded /\ known' = Told(r.events, r.fs)
        /\ ino' = [p \in Indexed(r.fs) |-> IF p \in new THEN inodes + 1 + Len(p) - top ELSE ino[p]]
        /\ inodes' = inodes + Cardinality(new)
        /\ paths' = [i \in {k \in DOMAIN paths : \A p \in DOMAIN ino \ DOMAIN r.fs : ino[p] # k} \cup {ino'[p] : p \in new} |->
                        IF i > inodes THEN CHOOSE p \in new : ino'[p] = i ELSE paths[i]]
        /\ UNCHANGED <<kernelKind, pendingChanges, saved>>

\* No component of the path is a link.
LinkFree(fs, path) == LET q == normalize(path) IN \A p \in DOMAIN fs : IsPrefix(p, q) => ~IsA(fs, p, "symlink")

PageCall ==
    kernelKind = "vm" /\ \E p \in {q \in Paths : LinkFree(tree, q)} :
        \/ \E d \in Data : Hcall(bridgeWrite(tree, p, d))
        \/ \E b \in BOOLEAN : Hcall(bridgeMkdir(tree, p, b)) \/ Hcall(bridgeRm(tree, p, b, b))

\* Under a file nothing is asked of SyncFs9pFs: it would make an entry there.
UnderFile(fs, path) == LET q == normalize(path) IN \E p \in DOMAIN fs \ {q} : IsPrefix(p, q) /\ ~IsA(fs, p, "directory")

SyncCall ==
    kernelKind = "vm" /\ \E p \in {q \in Paths : LinkFree(tree, q) /\ ~UnderFile(tree, q)} :
        \/ \E d \in Data : Hcall(syncWrite(tree, p, d))
        \/ \E b \in BOOLEAN : Hcall(syncMkdir(tree, p, b))
        \/ normalize(p) # <<>> /\ \E b \in BOOLEAN : Hcall(syncRm(tree, p, b, ~b))

\* rebuildIndex: what is in the workspace now.
Walked(fs, of) == [i \in {of[p] : p \in Indexed(fs)} |-> CHOOSE p \in Indexed(fs) : of[p] = i]

PageRename ==
    \E p, q \in {x \in Paths : LinkFree(tree, x)} :
        LET from == normalize(p)
            to == normalize(q)
            r == bridgeRename(tree, p, q)
            moves == from # to
        IN  /\ kernelKind = "vm" /\ to # <<>> /\ from # <<>> /\ Does(r)
            /\ Front(to) \in DOMAIN tree /\ IsA(tree, Front(to), "directory")
            /\ tree' = r.fs /\ known' = Told(r.events, r.fs)
            /\ ino' = IF moves THEN [x \in Indexed(r.fs) |-> IF IsPrefix(to, x) THEN ino[from \o SubSeq(x, Len(to) + 1, Len(x))] ELSE ino[x]] ELSE ino
            /\ paths' = Walked(r.fs, ino')
            /\ UNCHANGED <<kernelKind, inodes, pendingChanges, saved>>

\* record: only what lies in the workspace.
record(ps) == pendingChanges' = pendingChanges \cup (ps \ {None, <<>>})

\* The parent's path by the index, by the export if it has none.
dirPath(p) == IF ino[p] \in DOMAIN paths THEN paths[ino[p]] ELSE p

\* The guest's own kernel has checked the parent and the name.
GuestMakes(p, node) ==
    /\ kernelKind = "vm" /\ p \notin DOMAIN tree /\ Front(p) \in DOMAIN tree \ Skeleton /\ IsA(tree, Front(p), "directory")
    /\ tree' = Put(tree, p, node) /\ inodes' = inodes + 1
    /\ ino' = [x \in DOMAIN ino \cup {p} |-> IF x = p THEN inodes' ELSE ino[x]]
    /\ LET q == Append(dirPath(Front(p)), Last(p)) IN
       /\ paths' = [i \in DOMAIN paths \cup {inodes'} |-> IF i = inodes' THEN q ELSE paths[i]]
       /\ record({q})
    /\ UNCHANGED <<kernelKind, known, saved>>

\* Write, or ChangeSize to another size.
GuestWrites(p, data) ==
    /\ kernelKind = "vm" /\ p \in DOMAIN ino /\ IsA(tree, p, "file")
    /\ tree' = Put(tree, p, File(data))
    /\ record({IF ino[p] \in DOMAIN paths THEN paths[ino[p]] ELSE None})
    /\ UNCHANGED <<kernelKind, ino, inodes, paths, known, saved>>

Unlinked(p) == IF ino[p] \in DOMAIN paths THEN paths[ino[p]] ELSE Append(dirPath(Front(p)), Last(p))

GuestUnlinks(p) ==
    /\ kernelKind = "vm" /\ p \in DOMAIN ino \ {<<>>} /\ Kids(tree, p) = {}
    /\ tree' = Without(tree, p) /\ ino' = [x \in DOMAIN ino \ {p} |-> ino[x]]
    /\ paths' = [i \in DOMAIN paths \ {ino[p]} |-> paths[i]]
    /\ record({Unlinked(p)})
    /\ UNCHANGED <<kernelKind, inodes, known, saved>>

Reindexed(old, i, from, to) ==
    [k \in DOMAIN old |-> IF k = i THEN to ELSE IF IsPrefix(from, old[k]) /\ from # old[k] THEN to \o SubSeq(old[k], Len(from) + 1, Len(old[k])) ELSE old[k]]

\* A file may take the place of a file, a directory of an empty one: it is unlinked first, in the hook of Unlink.
GuestRenames(p, q) ==
    /\ kernelKind = "vm" /\ p \in DOMAIN ino \ {<<>>} /\ ~IsPrefix(p, q) /\ ~IsPrefix(q, p)
    /\ Front(q) \in DOMAIN tree /\ IsA(tree, Front(q), "directory")
    /\ q \in DOMAIN tree => Kids(tree, q) = {} /\ (IsA(tree, q, "directory") <=> IsA(tree, p, "directory"))
    /\ LET oldPath == Unlinked(p)
           newPath == Append(dirPath(Front(q)), Last(q))
           displaced == IF q \in DOMAIN tree THEN {Unlinked(q)} ELSE {}
           left == [i \in DOMAIN paths \ (IF q \in DOMAIN tree THEN {ino[q]} ELSE {}) |-> paths[i]]
       IN  /\ tree' = Grafted(tree, Without(tree, p), p, q)
           /\ ino' = [x \in Indexed(tree') |-> IF IsPrefix(q, x) THEN ino[p \o SubSeq(x, Len(q) + 1, Len(x))] ELSE ino[x]]
           /\ paths' = Reindexed(left, ino[p], oldPath, newPath)
           /\ record({oldPath, newPath} \cup displaced)
    /\ UNCHANGED <<kernelKind, inodes, known, saved>>

Guest ==
    \E p \in Places :
        \/ GuestMakes(p, Dir) \/ \E t \in Targets : GuestMakes(p, Link(t))
        \/ \E d \in Data : GuestMakes(p, File(d)) \/ GuestWrites(p, d)
        \/ GuestUnlinks(p) \/ \E q \in Places : GuestRenames(p, q)

\* The coalescing timer, or createSnapshot.
flush ==
    /\ pendingChanges # {} /\ pendingChanges' = {} /\ known' = FoldLeft(LAMBDA v, p : Learnt(v, tree, p), known, SetToSeq(pendingChanges))
    /\ UNCHANGED <<kernelKind, tree, ino, inodes, paths, saved>>

----
\* The VM's has nothing of the image's directories, the browser's has whatever there is.
createSnapshot ==
    /\ saved = None /\ saved' = (IF kernelKind = "vm" THEN snapshotWorkspace(tree) ELSE tree) /\ pendingChanges' = {}
    /\ known' = FoldLeft(LAMBDA v, p : Learnt(v, tree, p), known, SetToSeq(pendingChanges))
    /\ UNCHANGED <<kernelKind, tree, ino, inodes, paths>>

\* restoreVfs replaces the root and announces nothing: who asks for it reads everything.
restoreSnapshot ==
    /\ saved # None
    /\ IF kernelKind = "browser" THEN tree' = saved /\ known' = saved
       ELSE LET r == Restored(tree, saved) IN tree' = r.fs /\ known' = Told(r.events, r.fs)
    /\ LET all == IF kernelKind = "vm" THEN Indexed(tree') ELSE {<<>>}
           order == SetToSeq(all \ {<<>>})
           number(p) == IF p = <<>> THEN 1 ELSE inodes + CHOOSE i \in DOMAIN order : order[i] = p
       IN  /\ ino' = [p \in all |-> number(p)] /\ inodes' = inodes + Len(order)
           /\ paths' = [i \in {number(p) : p \in all} |-> CHOOSE p \in all : number(p) = i]
    /\ saved' = None /\ UNCHANGED <<kernelKind, pendingChanges>>

Next ==
    \/ BrowserCall \/ PageCall \/ SyncCall \/ PageRename \/ Guest
    \/ flush \/ createSnapshot \/ restoreSnapshot

Spec == Init /\ [][Next]_vars

----
\* A tree stays one: what has entries is a directory and can be reached from the root. The browser's rename takes no
\* directory into itself, be it through a link; the VM's does and loses it, and the rest is a tree.
TreeTrue == \A p \in DOMAIN tree \ {<<>>} : Front(p) \in DOMAIN tree /\ IsA(tree, Front(p), "directory")

\* Whoever reads what the events name knows the workspace, however calls, guest writes and renames of directories
\* with unannounced changes in them are interleaved with the flushes; and the index leads to every file.
Announced == pendingChanges = {} => Own(known) = Own(tree)

\* What was written is read at the same path, through links that lead nowhere too, and a refused call has done nothing.
ReadBack ==
    kernelKind = "browser" =>
        \A p \in Paths, d \in Data :
            LET w == writeFile(tree, p, d) IN
            IF w.err = "" THEN readFile(w.fs, p) = d /\ w.events # <<>> ELSE w.fs = tree

\* "Same answer as the browser kernel's vfs": on paths free of links both kernels accept and refuse the same writes,
\* directories and removals, leave the same tree and list and read the same.
Agree ==
    kernelKind = "vm" => \A p \in {q \in Places : LinkFree(tree, q)} :
        LET Same(a, b) == (a.err = "" <=> b.err = "") /\ a.fs = b.fs IN
        /\ \A d \in Data : Same(writeFile(tree, p, d), bridgeWrite(tree, p, d))
        /\ \A r \in BOOLEAN : LET a == mkdir(tree, p, r)
                                  b == bridgeMkdir(tree, p, r) IN Same(a, b) /\ a.err = b.err /\ a.events = b.events
        /\ \A r \in BOOLEAN : Same(rm(tree, p, r, FALSE), bridgeRm(tree, p, r, FALSE))
        /\ IF exists(tree, p) THEN readdir(tree, p) = bridgeReaddir(tree, p) ELSE bridgeReaddir(tree, p) = "ENOENT"
        /\ exists(tree, p) /\ IsA(tree, normalize(p), "file") => readFile(tree, p) = bridgeRead(tree, p)

\* A snapshot of either kernel put back on the VM, whatever the workspace has become, is the workspace it was taken of,
\* and the image's own directories are not touched. Excepted: a browser's snapshot with a directory of such a name
\* in it, which fails at it with the workspace cleared and the nodes after it missing.
RestoreExact ==
    saved # None =>
        LET r == Restored(IF kernelKind = "vm" THEN tree ELSE tree @@ Booted, saved) IN
        IF Own(saved) = saved THEN r.err = "" /\ Own(r.fs) = saved /\ Skeleton \subseteq DOMAIN r.fs
        ELSE kernelKind = "browser" /\ r.err = "EACCES"
====
