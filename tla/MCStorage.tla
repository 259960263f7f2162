---- MODULE MCStorage ----
(* The files of both kernels with the static server over them, and Review over the browser's files: two systems in one *)
(* model, of which a behaviour runs one.                                                                              *)
EXTENDS Naturals, Sequences, FiniteSets

CONSTANTS None, Malformed

VARIABLES system, tree, kernelKind, ino, inodes, paths, pendingChanges, known, saved, turns, calls, startSnap, changed, changes, first, users

filesVars == <<kernelKind, ino, inodes, paths, pendingChanges, known, saved>>
reviewVars == <<turns, calls, startSnap, changed, changes, first, users>>
vars == <<system, tree, filesVars, reviewVars>>

Name(p) == [abs |-> TRUE, path |-> p]
Relative(p) == [abs |-> FALSE, path |-> p]

\* Two names, links in and out of a directory and to themselves, and the paths a model may write.
FilesPaths == {<<>>, <<"a">>, <<"b">>, <<"a", "a">>, <<"b", "a">>, <<"b", "..", "a">>, <<"tmp", "a">>}
FilesTargets == {Name(<<"b">>), Relative(<<"b">>), Relative(<<"..", "a">>)}

\* Servers of the root, with and without the fallback, and of a directory; every shape of a request path.
Word(path) == [is |-> "word", number |-> None, abs |-> FALSE, path |-> path]
Flag(is) == [is |-> is]
ServerArgvs == {<<Flag("serve"), Word(<<>>)>>, <<Flag("serve"), Flag("--spa"), Word(<<>>), [Word(<<"1">>) EXCEPT !.number = 1]>>,
                <<Flag("serve"), Word(<<"b">>), Flag("--spa")>>, <<Flag("stop")>>}
ServerRequests == {<<>>, <<<<"a">>>>, <<<<"b">>>>, <<<<"b">>, <<"">>>>, <<<<"b">>, <<"a">>>>, <<<<"b", "a">>>>, <<<<"a">>, <<"..">>, <<"b">>>>,
                   <<<<"..">>, <<"a">>>>, <<Malformed>>}

ReviewPaths == {<<"a">>, <<"a", "b">>, <<"b">>, <<"n", "b">>}

F == INSTANCE StaticServer WITH
       MAX_SYMLINK_HOPS <- 3, SKELETON_DIRS <- {"tmp"}, Paths <- FilesPaths, Targets <- FilesTargets, Data <- {"x", "y"}, MaxNodes <- 3, MaxInodes <- 4,
       INDEX <- "a", Dotted <- {"a"}, Argvs <- ServerArgvs, Requests <- ServerRequests
R == INSTANCE RunChanges WITH
       MAX_SYMLINK_HOPS <- 3, Paths <- ReviewPaths, Targets <- {}, Data <- {"", "bin"}, Binary <- {"bin"}, NonProject <- {"n"},
       MaxTurns <- 2, MaxCalls <- 2, MaxNodes <- 4

----
\* Bounds: snapshots of two nodes, put back on trees of one; on the VM two nodes, a link of the guest only if
\* all is announced, and bytes other than the first as long as no inode was given up.
FewFiles ==
    LET nodes == DOMAIN tree \ (F!Skeleton \cup {<<>>}) IN
    /\ inodes <= 4 /\ Cardinality(nodes) <= 3 /\ Cardinality(pendingChanges) <= 2
    /\ saved # None => Cardinality(DOMAIN saved) <= 3 /\ (Cardinality(nodes) <= 1 \/ saved \in {tree, F!Own(tree)}) /\ pendingChanges = {} /\ inodes <= 3
    /\ kernelKind = "vm" => Cardinality(nodes) <= 2 /\ \A p \in nodes :
         /\ F!IsA(tree, p, "symlink") => tree[p].target.abs /\ pendingChanges = {}
         /\ tree[p] = F!File("y") => inodes <= 3

\* Bounds: two calls in the first turn, one in the second and one of the user between them.
FewReview == (calls = 2 => turns = 1 /\ startSnap # None) /\ (startSnap = None \/ turns = 2 => calls <= 1)

FilesStep == system = "files" /\ FewFiles' /\ UNCHANGED <<system, reviewVars>>
ReviewStep == system = "review" /\ FewReview' /\ UNCHANGED <<system, filesVars>>

Init ==
    \/ /\ system = "files" /\ F!Init /\ turns = 0 /\ calls = 0 /\ startSnap = None
       /\ changed = {} /\ changes = <<>> /\ first = None /\ users = {}
    \/ /\ system = "review" /\ R!Init /\ kernelKind = None /\ ino = <<>> /\ inodes = 0 /\ paths = <<>>
       /\ pendingChanges = {} /\ known = None /\ saved = None

Next ==
    \/ (F!BrowserCall /\ FilesStep) \/ (F!PageCall /\ FilesStep) \/ (F!SyncCall /\ FilesStep) \/ (F!PageRename /\ FilesStep)
    \/ (F!Guest /\ FilesStep) \/ (F!flush /\ FilesStep) \/ (F!createSnapshot /\ FilesStep) \/ (F!restoreSnapshot /\ FilesStep)
    \/ (R!StartTurn /\ ReviewStep) \/ (R!AgentCall /\ ReviewStep) \/ (R!Pull /\ ReviewStep) \/ (R!EndTurn /\ ReviewStep)
    \/ (R!revertChange /\ ReviewStep) \/ (R!UserEdit /\ ReviewStep)

Spec == Init /\ [][Next]_vars

----
\* Files: a tree stays one; a snapshot put back, whatever the workspace has become, is the workspace it was taken of.
TreesKept == system = "files" => F!TreeTrue /\ F!RestoreExact

\* Files: what was written is read, at the same path and through links, both kernels answer alike, and whoever reads
\* what the events name knows the workspace.
FilesTrue == system = "files" => F!ReadBack /\ F!Agree /\ F!Announced

\* StaticServer: the answer a browser ends with is the one for what the path names.
PagesReached == system = "files" => F!PagesReached

\* RunChanges: Review shows what the agent has changed, over directories moved whole and turns that undo each other,
\* and a revert puts back one file as it was and touches no other.
ReviewTrue == system = "review" => R!ReviewExact /\ R!RevertExact
====
