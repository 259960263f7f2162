---- MODULE Vfs ----
(* The browser kernel's filesystem: packages/runtime-browser/src/vfs/vfs.ts, resolve.ts and path.ts, the commands of  *)
(* builtins/fs.ts and its snapshots.  What is asked for is a path as a caller writes it, its segments in order.       *)
EXTENDS Trees

CONSTANTS
    None,
    MAX_SYMLINK_HOPS

\* normalize: ".." at the root is a no-op.
RECURSIVE normalizeOnto(_, _)
normalizeOnto(out, path) ==
    IF path = <<>> THEN out
    ELSE normalizeOnto(IF Head(path) = "." \/ (Head(path) = ".." /\ out = <<>>) THEN out ELSE IF Head(path) = ".." THEN Front(out) ELSE Append(out, Head(path)), Tail(path))
normalize(path) == normalizeOnto(<<>>, path)

----
(* Resolution: the node a path leads to, None when a component is missing. *)

Found(at, hops) == [at |-> at, hops |-> hops, err |-> ""]
Refused(err) == [at |-> None, hops |-> 0, err |-> err]

\* The target of a link, read in the directory its path names.
symlinkTarget(base, target) == normalize(IF target.abs THEN target.path ELSE base \o target.path)

\* Links are followed at every component; "walked" is what lies behind, "next" the node of the first one to come.
RECURSIVE resolveExisting(_, _, _, _)

followSymlink(fs, base, target, hops) ==
    IF hops >= MAX_SYMLINK_HOPS THEN Refused("ELOOP") ELSE resolveExisting(fs, Found(<<>>, hops + 1), <<>>, symlinkTarget(base, target))

StepInto(fs, r, walked, next) ==
    IF next \notin DOMAIN fs THEN Found(None, r.hops)
    ELSE IF IsA(fs, next, "symlink") THEN followSymlink(fs, walked, fs[next].target, r.hops)
    ELSE Found(next, r.hops)

resolveExisting(fs, r, walked, parts) ==
    IF parts = <<>> \/ r.err # "" \/ r.at = None THEN r
    ELSE IF ~IsA(fs, r.at, "directory") THEN Refused("ENOTDIR")
    ELSE resolveExisting(fs, StepInto(fs, r, walked, Append(r.at, Head(parts))), Append(walked, Head(parts)), Tail(parts))

\* slot: where the last component is or would be; at: the node, behind its links if they are followed.
Slot(slot, at) == [slot |-> slot, at |-> at, err |-> ""]
NoSlot(err) == [slot |-> None, at |-> None, err |-> err]

Behind(slot, r) == IF r.err # "" THEN NoSlot(r.err) ELSE Slot(slot, r.at)

AtSlot(fs, base, slot, hops, follow) ==
    IF slot \notin DOMAIN fs THEN Slot(slot, None)
    ELSE IF follow /\ IsA(fs, slot, "symlink") THEN Behind(slot, followSymlink(fs, base, fs[slot].target, hops))
    ELSE Slot(slot, slot)

InParent(fs, parts, parent, follow) ==
    IF parent.err # "" THEN NoSlot(parent.err)
    ELSE IF parent.at = None THEN NoSlot("ENOENT")
    ELSE IF ~IsA(fs, parent.at, "directory") THEN NoSlot("ENOTDIR")
    ELSE AtSlot(fs, Front(parts), Append(parent.at, Last(parts)), parent.hops, follow)

resolveNames(fs, parts, follow) ==
    IF parts = <<>> THEN Slot(<<>>, <<>>) ELSE InParent(fs, parts, resolveExisting(fs, Found(<<>>, 0), <<>>, Front(parts)), follow)

resolvePath(fs, path, follow) == resolveNames(fs, normalize(path), follow)

----
(* Calls: the tree after one, its error and the paths of its file.changed events.  What follows a resolution is an     *)
(* operator of what was resolved.                                                                                      *)

Done(fs, events) == [fs |-> fs, err |-> "", events |-> events]
Fails(fs, err) == [fs |-> fs, err |-> err, events |-> <<>>]

Leads(r) == r.err = "" /\ r.at # None
exists(fs, path) == Leads(resolvePath(fs, path, TRUE))

BytesAt(fs, r) == IF r.err # "" THEN r.err ELSE IF r.at = None THEN "ENOENT" ELSE IF IsA(fs, r.at, "directory") THEN "EISDIR" ELSE fs[r.at].data

\* What a reader gets.
readFile(fs, path) == BytesAt(fs, resolvePath(fs, path, TRUE))

ListedAt(fs, r) ==
    IF r.err # "" THEN r.err ELSE IF r.at = None THEN "ENOENT" ELSE IF ~IsA(fs, r.at, "directory") THEN "ENOTDIR"
    ELSE {<<Last(q), fs[q].type>> : q \in Kids(fs, r.at)}

readdir(fs, path) == ListedAt(fs, resolvePath(fs, path, TRUE))

\* mutant: the target of a link to nowhere is read from the root.
danglingTargetRooted(fs, parts, slot) == symlinkTarget(<<>>, fs[slot].target)

danglingTarget(fs, parts, slot) == symlinkTarget(Front(parts), fs[slot].target)

\* A write through a link to nowhere creates what the link names.
RECURSIVE writeFile(_, _, _)

WriteAt(fs, r, parts, data) ==
    IF r.err # "" THEN Fails(fs, r.err)
    ELSE IF r.at # None THEN IF IsA(fs, r.at, "file") THEN Done(Put(fs, r.at, File(data)), <<parts>>) ELSE Fails(fs, "EISDIR")
    ELSE IF r.slot \in DOMAIN fs THEN writeFile(fs, danglingTarget(fs, parts, r.slot), data)
    ELSE Done(Put(fs, r.slot, File(data)), <<parts>>)

writeFile(fs, path, data) == WriteAt(fs, resolvePath(fs, path, TRUE), normalize(path), data)

MadeAt(fs, r, parts, node) == IF r.err # "" THEN Fails(fs, r.err) ELSE IF r.at # None THEN Fails(fs, "EEXIST") ELSE Done(Put(fs, r.slot, node), <<parts>>)

\* A node where there is none.
Made(fs, path, node) == MadeAt(fs, resolvePath(fs, path, FALSE), normalize(path), node)

\* mkdir -p, a component at a time; a link that leads to a directory is walked through.
LinkedDir(m, r) ==
    IF r.err # "" THEN [m EXCEPT !.err = r.err] ELSE IF r.at = None \/ ~IsA(m.fs, r.at, "directory") THEN [m EXCEPT !.err = "ENOTDIR"] ELSE [m EXCEPT !.cur = r.at]

MkdirStep(m, child, walked) ==
    IF child \notin DOMAIN m.fs THEN [fs |-> Put(m.fs, child, Dir), err |-> "", events |-> Append(m.events, walked), cur |-> child]
    ELSE IF IsA(m.fs, child, "directory") THEN [m EXCEPT !.cur = child]
    ELSE IF IsA(m.fs, child, "file") THEN [m EXCEPT !.err = "ENOTDIR"]
    ELSE LinkedDir(m, resolvePath(m.fs, walked, TRUE))

RECURSIVE mkdirAll(_, _, _)
mkdirAll(m, walked, parts) ==
    IF parts = <<>> \/ m.err # "" THEN m
    ELSE mkdirAll(MkdirStep(m, Append(m.cur, Head(parts)), Append(walked, Head(parts))), Append(walked, Head(parts)), Tail(parts))

mkdir(fs, path, recursive) ==
    IF recursive THEN mkdirAll([fs |-> fs, err |-> "", events |-> <<>>, cur |-> <<>>], <<>>, normalize(path)) ELSE Made(fs, path, Dir)

RmAt(fs, r, parts, recursive, force) ==
    IF r.err # "" THEN IF force /\ r.err = "ENOENT" THEN Done(fs, <<>>) ELSE Fails(fs, r.err)
    ELSE IF r.at = None THEN IF force THEN Done(fs, <<>>) ELSE Fails(fs, "ENOENT")
    ELSE IF r.at = <<>> THEN Fails(fs, "EBUSY")
    ELSE IF ~recursive /\ Kids(fs, r.at) # {} THEN Fails(fs, "ENOTEMPTY")
    ELSE Done(Without(fs, r.at), <<parts>>)

rm(fs, path, recursive, force) == RmAt(fs, resolvePath(fs, path, FALSE), normalize(path), recursive, force)

\* Where rename and copy put a node: into a directory, or in the place of what is there.
Named(from) == IF from = <<>> THEN "/" ELSE Last(from)
Landing(fs, from, dst, to) ==
    IF dst.at # None /\ IsA(fs, dst.at, "directory") THEN [dir |-> dst.at, slot |-> Append(dst.at, Named(from)), event |-> Append(to, Named(from))]
    ELSE [dir |-> Front(dst.slot), slot |-> dst.slot, event |-> to]

\* mutant: whether a directory would move into itself is read off the paths.
IntoItselfLexical(from, src, l) == IsPrefix(from, l.event)

IntoItself(from, src, l) == IsPrefix(src.at, l.dir)

\* Nothing is taken from a path that leads nowhere or put where none leads.
Movable(src, dst) == IF src.err # "" THEN src.err ELSE IF src.at = None THEN "ENOENT" ELSE dst.err

Move(fs, src, l, from) ==
    IF IsA(fs, src.at, "directory") /\ IntoItself(from, src, l) THEN Fails(fs, "EINVAL")
    ELSE IF l.slot \in DOMAIN fs /\ IsA(fs, l.slot, "directory") /\ (~IsA(fs, src.at, "directory") \/ Kids(fs, l.slot) # {})
    THEN Fails(fs, IF IsA(fs, src.at, "directory") THEN "ENOTEMPTY" ELSE "EISDIR")
    ELSE Done(Grafted(fs, Without(fs, src.at), src.at, l.slot), <<from, l.event>>)

RenameAt(fs, src, dst, from, to) == IF Movable(src, dst) # "" THEN Fails(fs, Movable(src, dst)) ELSE Move(fs, src, Landing(fs, from, dst, to), from)

rename(fs, from, to) == RenameAt(fs, resolvePath(fs, from, FALSE), resolvePath(fs, to, FALSE), normalize(from), normalize(to))

Copy(fs, src, l) == Done(Grafted(fs, fs, src.at, l.slot), <<l.event>>)

CopyAt(fs, src, dst, from, to) == IF Movable(src, dst) # "" THEN Fails(fs, Movable(src, dst)) ELSE Copy(fs, src, Landing(fs, from, dst, to))

copy(fs, from, to) == CopyAt(fs, resolvePath(fs, from, FALSE), resolvePath(fs, to, FALSE), normalize(from), normalize(to))

symlink(fs, target, path) == Made(fs, path, Link(target))

----
(* Commands of the shell, for one operand; the next one is tried whatever this one answers. *)

touchCommand(fs, path, data) == IF exists(fs, path) THEN Done(fs, <<>>) ELSE writeFile(fs, path, data)

Copyable(fs, r, recursive) ==
    IF r.err # "" THEN r.err ELSE IF r.at = None THEN "ENOENT" ELSE IF IsA(fs, r.at, "directory") /\ ~recursive THEN "omitted" ELSE ""

\* cp looks through links for what it copies, copy does not.
cpCommand(fs, from, to, recursive) ==
    IF Copyable(fs, resolvePath(fs, from, TRUE), recursive) # "" THEN Fails(fs, Copyable(fs, resolvePath(fs, from, TRUE), recursive)) ELSE copy(fs, from, to)
====
