---- MODULE Fs9pBridge ----
(* The VM kernel's workspace: Fs9pBridge of packages/runtime-vm/src/fs-bridge.ts over the 9p export of the emulator,  *)
(* SyncFs9pFs of sync-fs.ts beside it, and the snapshots of workspace-snapshot.ts.  Trees, paths and what a call      *)
(* returns are those of Vfs; links are not followed here.                                                             *)
EXTENDS Vfs

CONSTANTS SKELETON_DIRS

Skeleton == {<<s>> : s \in SKELETON_DIRS}
Booted == [p \in {<<>>} \cup Skeleton |-> Dir]
guardSkeleton(path) == path # <<>> /\ Head(path) \in SKELETON_DIRS

\* The workspace without the mount points of the image.
Own(fs) == [p \in {q \in DOMAIN fs : ~guardSkeleton(q)} |-> fs[p]]

----
(* The bridge; SearchPath finds no parent when a component before the last is missing. *)

bridgeRead(fs, path) ==
    LET p == normalize(path) IN IF p \notin DOMAIN fs THEN "ENOENT" ELSE IF IsA(fs, p, "file") THEN fs[p].data ELSE "nothing"

bridgeReaddir(fs, path) ==
    LET p == normalize(path) IN
    IF p \notin DOMAIN fs THEN "ENOENT" ELSE IF ~IsA(fs, p, "directory") THEN "ENOTDIR" ELSE {<<Last(q), fs[q].type>> : q \in Kids(fs, p)}

bridgeWrite(fs, path, data) ==
    LET p == normalize(path) IN
    IF guardSkeleton(p) THEN Fails(fs, "EACCES")
    ELSE IF p \in DOMAIN fs THEN IF IsA(fs, p, "directory") THEN Fails(fs, "EISDIR") ELSE Done(Put(fs, p, File(data)), <<p>>)
    ELSE IF Front(p) \notin DOMAIN fs THEN Fails(fs, "ENOENT")
    ELSE IF ~IsA(fs, Front(p), "directory") THEN Fails(fs, "ENOTDIR")
    ELSE Done(Put(fs, p, File(data)), <<p>>)

\* The components in turn; "checked" is the look at what is on the way.
MkdirWalk(fs, p, recursive, checked) ==
    FoldLeft(LAMBDA m, i :
        LET child == SubSeq(p, 1, i) IN
        IF m.err # "" THEN m
        ELSE IF child \in DOMAIN m.fs
        THEN IF i = Len(p) /\ ~recursive THEN [m EXCEPT !.err = "EEXIST"]
             ELSE IF checked /\ ~IsA(m.fs, child, "directory") THEN [m EXCEPT !.err = "ENOTDIR"] ELSE m
        ELSE IF i < Len(p) /\ ~recursive THEN [m EXCEPT !.err = "ENOENT"]
        ELSE Done(Put(m.fs, child, Dir), Append(m.events, child)),
        Done(fs, <<>>), [i \in 1 .. Len(p) |-> i])

bridgeMkdir(fs, path, recursive) ==
    LET p == normalize(path) IN IF guardSkeleton(p) THEN Fails(fs, "EACCES") ELSE MkdirWalk(fs, p, recursive, TRUE)

\* A directory's entries are removed one by one, each with its event, before it is.
bridgeRm(fs, path, recursive, force) ==
    LET p == normalize(path)
        deepFirst == SetToSortSeq(Below(fs, p), LAMBDA x, y : Len(x) > Len(y))
    IN  IF guardSkeleton(p) \/ p = <<>> THEN Fails(fs, "EACCES")
        ELSE IF p \notin DOMAIN fs THEN IF force THEN Done(fs, <<>>) ELSE Fails(fs, "ENOENT")
        ELSE IF ~recursive /\ Kids(fs, p) # {} /\ IsA(fs, p, "directory") THEN Fails(fs, "ENOTEMPTY")
        ELSE Done(Without(fs, p), deepFirst)

\* To a place whose parent exists; what is there is unlinked if it can be. Nothing keeps a directory from being moved
\* below itself: it is linked under itself then, and no path of the workspace leads to it.
bridgeRename(fs, from, to) ==
    LET p == normalize(from)
        q == normalize(to)
    IN  IF guardSkeleton(p) \/ guardSkeleton(q) THEN Fails(fs, "EACCES")
        ELSE IF p \notin DOMAIN fs THEN Fails(fs, "ENOENT")
        ELSE IF p = q THEN Done(fs, <<p, q>>)
        ELSE IF q \in DOMAIN fs /\ Kids(fs, q) # {} THEN Fails(fs, "ENOENT")
        ELSE IF IsPrefix(p, q) THEN Done(Without(fs, p), <<p, q>>)
        ELSE Done(Grafted(fs, Without(fs, p), p, q), <<p, q>>)

bridgeSymlink(fs, target, path) ==
    LET p == normalize(path) IN IF p \in DOMAIN fs THEN Fails(fs, "EEXIST") ELSE Done(Put(fs, p, Link(target)), <<p>>)

----
(* SyncFs9pFs: the same without the looks at the parent of a new file and at files on the way of a directory. *)

syncWrite(fs, path, data) ==
    LET p == normalize(path) IN
    IF guardSkeleton(p) THEN Fails(fs, "EACCES")
    ELSE IF p \in DOMAIN fs THEN IF IsA(fs, p, "directory") THEN Fails(fs, "EISDIR") ELSE Done(Put(fs, p, File(data)), <<p>>)
    ELSE IF Front(p) \notin DOMAIN fs THEN Fails(fs, "ENOENT") ELSE Done(Put(fs, p, File(data)), <<p>>)

syncMkdir(fs, path, recursive) ==
    LET p == normalize(path) IN IF guardSkeleton(p) THEN Fails(fs, "EACCES") ELSE MkdirWalk(fs, p, recursive, FALSE)

syncRead(fs, path) ==
    LET p == normalize(path) IN
    IF p \notin DOMAIN fs THEN "ENOENT" ELSE IF IsA(fs, p, "directory") THEN "EISDIR" ELSE IF IsA(fs, p, "file") THEN fs[p].data ELSE "nothing"

\* For a path that is not the root.
syncRm(fs, path, recursive, force) == bridgeRm(fs, path, recursive, force)

----
(* Snapshots of the VM. *)

snapshotWorkspace(fs) == Own(fs)

\* restoreWorkspace: every entry of the workspace is removed, then every node of the snapshot is made, parents first.
Restored(fs, snapshot) ==
    LET cleared == FoldLeft(LAMBDA r, p : LET s == bridgeRm(r.fs, p, TRUE, TRUE) IN Done(s.fs, r.events \o s.events), Done(fs, <<>>),
                            SetToSeq(Kids(fs, <<>>) \ Skeleton))
        nodes == SetToSortSeq(DOMAIN snapshot \ {<<>>}, LAMBDA x, y : Len(x) < Len(y))
    IN  FoldLeft(LAMBDA r, p :
            LET n == snapshot[p]
                s == IF n.type = "directory" THEN bridgeMkdir(r.fs, p, TRUE) ELSE IF n.type = "file" THEN bridgeWrite(r.fs, p, n.data) ELSE bridgeSymlink(r.fs, n.target, p)
            IN  IF r.err # "" THEN r ELSE [s EXCEPT !.events = r.events \o @], cleared, nodes)
====
