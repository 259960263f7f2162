---- MODULE Trees ----
(* The trees of packages/runtime-browser/src/vfs/inode.ts: a tree maps the path of every node, free of links, to the   *)
(* node.  Times and modes are left out.                                                                               *)
EXTENDS Naturals, FiniteSetsExt, SequencesExt

Dir == [type |-> "directory"]
File(data) == [type |-> "file", data |-> data]
Link(target) == [type |-> "symlink", target |-> target]

Empty == <<>> :> Dir

Below(fs, p) == {q \in DOMAIN fs : IsPrefix(p, q)}
Kids(fs, p) == {q \in DOMAIN fs : Len(q) = Len(p) + 1 /\ IsPrefix(p, q)}
IsA(fs, p, type) == fs[p].type = type
Without(fs, p) == [q \in DOMAIN fs \ Below(fs, p) |-> fs[q]]
Put(fs, p, node) == [q \in DOMAIN fs \cup {p} |-> IF q = p THEN node ELSE fs[q]]

\* A path below "from" seen from "to".
Moved(q, from, to) == to \o SubSeq(q, Len(from) + 1, Len(q))

\* The subtree at "from" in the place of what is at "to".
Grafted(fs, base, from, to) ==
    [q \in (DOMAIN base \ Below(base, to)) \cup {Moved(x, from, to) : x \in Below(fs, from)} |-> IF IsPrefix(to, q) THEN fs[Moved(q, to, from)] ELSE base[q]]
====
