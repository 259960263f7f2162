---- MODULE PythonFiles ----
(* The two copies of the workspace a Python run works with: packages/lang-python/src/python.ts, syncInto, prune and   *)
(* syncBack.  Both are trees without links, and no path is a file in one and a directory in the other: there the copy  *)
(* throws and the run rejects, at this run and all later ones.                                                        *)
EXTENDS Trees

CONSTANTS
    None,
    RESERVED        \* top-level names that are Pyodide's own: lib, tmp, ...

Own(fs) == {p \in DOMAIN fs \ {<<>>} : p[1] \notin RESERVED}

Over(fs, gs) == [p \in Own(fs) \cup DOMAIN gs |-> IF p \in Own(fs) THEN fs[p] ELSE gs[p]]

\* mutant: whatever the workspace lacks is stale.
prunedAll(pfs, backed, seen) == [p \in DOMAIN pfs \ (Own(pfs) \ seen) |-> pfs[p]]

\* Stale: propagated by the previous run and no longer in the workspace.  A directory goes when nothing in it stays.
pruned(pfs, backed, seen) ==
    LET stale == {p \in Own(pfs) : p \in backed /\ p \notin seen}
        files == {p \in stale : IsA(pfs, p, "file")}
        rest == {p \in Own(pfs) : p \notin files}
        emptied == {p \in stale \ files : {q \in Below(pfs, p) : q \in rest /\ ~(q \in stale /\ IsA(pfs, q, "directory"))} = {}}
    IN  [p \in DOMAIN pfs \ (files \cup emptied) |-> pfs[p]]

\* syncInto: the whole workspace into Pyodide's filesystem, then the prune; seen is what was mirrored.
syncInto(fs, pfs, backed) == [pfs |-> pruned(Over(fs, pfs), backed, Own(fs)), seen |-> Own(fs)]

\* syncBack: everything Pyodide has into the workspace, then the deletions of what was mirrored and is gone.
syncBack(pfs, fs, synced) ==
    LET over == Over(pfs, fs)
        gone == synced \ DOMAIN pfs
    IN  [fs |-> [p \in {q \in DOMAIN over : \A g \in gone : ~IsPrefix(g, q)} |-> over[p]], backed |-> Own(pfs)]
====
