---- MODULE PythonRuntime ----
(* Python and pip on the browser kernel: packages/lang-python/src/python.ts (one Pyodide instance, executions one     *)
(* after another, the filesystem mirrored in and out) and erdou-module.ts (served WSGI apps, whose requests run       *)
(* outside that queue).  Python code runs without interruption; what awaits is the loader, the scheduling of a run    *)
(* and the package downloads.  A script does one thing to its files, a view may write one.                            *)
EXTENDS PythonFiles

CONSTANTS
    Executions,                       \* executions: what a shell starts, in the order of its numbers
    Files, Data,                \* files both sides work with
    AppFiles,                   \* files a served view writes
    Bundled, Prebuilt, Pure,    \* packages with local wheels, in Pyodide's distribution, on PyPI
    Requirements,               \* the sets of packages a pip install names
    MaxEdits, MaxRequests       \* bounds: edits of the workspace, requests served

VARIABLES
    instance,   \* the cached promise of Pyodide: "none", "loading", "ok", "failed"
    tail,       \* the executions that are queued or running, the first one running
    ph,         \* of an execution: "new", "queued", "loading", "scheduled", "evaluated", "installing", "done"
    kind,       \* of an execution: "python" or "pip"
    fs, pfs,    \* the workspace and Pyodide's own filesystem
    backed,     \* what the previous run left in both
    synced,     \* what existed when this run started
    routed,     \* the execution whose streams Pyodide writes to
    app,        \* the execution whose script has served an app
    iters,      \* live iterables of streamed responses: the response each belongs to
    seq,        \* the last token given
    streams,    \* of a streamed response: its token and whether its consumer is at it
    ends,       \* of a streamed response: calls of the close of its iterable
    loaded,     \* pyodide.loadedPackages
    edits, requests,    \* used up to their bounds
    truth,      \* the bytes of every file had there been one filesystem
    torn,       \* files both sides have changed apart
    mixed,      \* a line has reached another program's streams
    since       \* streamed responses begun since the module was last set up

runs == <<instance, tail, ph, kind, loaded>>
files == <<fs, pfs, backed, synced, truth, torn>>
serving == <<app, iters, seq, streams, ends, since>>
vars == <<runs, files, routed, serving, edits, requests, mixed>>

Base == [p \in {<<>>} \cup {Front(f) : f \in Files} |-> Dir]

Init ==
    /\ instance = "none" /\ tail = <<>> /\ ph = [e \in Executions |-> "new"] /\ kind \in [Executions -> {"python", "pip"}]
    /\ fs = Base /\ pfs = Base /\ backed = {} /\ synced = {} /\ truth = <<>> /\ torn = {}
    /\ routed = None /\ app = None /\ iters = <<>> /\ seq = 0 /\ streams = <<>> /\ ends = <<>> /\ since = {}
    /\ loaded = {} /\ edits = 0 /\ requests = 0 /\ mixed = FALSE

FilesOf(t) == {p \in DOMAIN t : IsA(t, p, "file")}

\* truth after a change of one of the trees from t to u.
Tracked(t, u) ==
    LET put == {p \in FilesOf(u) : p \notin FilesOf(t) \/ t[p] # u[p]}
        kept == DOMAIN truth \ (FilesOf(t) \ FilesOf(u))
    IN  truth' = [p \in put \cup kept |-> IF p \in put THEN u[p].data ELSE truth[p]]

----
(* pip *)

\* getMicropip: loaded once, from the distribution.
Micropip(has, net) == has \cup (IF "cdn" \in net THEN {"micropip"} ELSE {})

\* The wheels that come with the app, then the distribution, then PyPI for whatever is still missing; net is what of
\* "cdn" and "pypi" can be reached.  A package that cannot be had ends the command.
pipInstall(has, pkgs, net) ==
    LET bundled == pkgs \cap Bundled
        external == pkgs \ bundled
        one == IF bundled # {} THEN Micropip(has, net) ELSE has
        two == one \cup bundled \cup (IF "cdn" \in net THEN external \cap Prebuilt ELSE {})
        missing == external \ two
        three == IF missing # {} THEN Micropip(two, net) ELSE two
        found == {p \in missing : p \in Pure /\ "pypi" \in net}
    IN  IF bundled # {} /\ "micropip" \notin one THEN [has |-> one, exit |-> 1]
        ELSE IF missing = {} THEN [has |-> two, exit |-> 0]
        ELSE IF "micropip" \notin three THEN [has |-> three, exit |-> 1]
        ELSE IF found # missing THEN [has |-> three \cup found, exit |-> 1]
        ELSE [has |-> three \cup missing, exit |-> 0]

----
(* Executions, one after another. *)

\* A line Python writes on behalf of an execution goes where the instance is routed.
Written(by, to) == mixed' = (mixed \/ by # to)

Submit(e) ==
    /\ ph[e] = "new" /\ \A d \in Executions : d < e => ph[d] # "new"
    /\ ph' = [ph EXCEPT ![e] = "queued"] /\ tail' = Append(tail, e)
    /\ UNCHANGED <<instance, kind, loaded, files, routed, serving, edits, requests, mixed>>

\* getPyodide: the first caller starts the load, all later ones await the same promise, a failed one too.
Start(e) ==
    /\ tail # <<>> /\ Head(tail) = e /\ ph[e] = "queued"
    /\ ph' = [ph EXCEPT ![e] = "loading"]
    /\ instance' = IF instance = "none" THEN "loading" ELSE instance
    /\ UNCHANGED <<tail, kind, loaded, files, routed, serving, edits, requests, mixed>>

\* A usage error, or a script that cannot be read.
Refuse(e) ==
    /\ tail # <<>> /\ Head(tail) = e /\ ph[e] = "queued"
    /\ ph' = [ph EXCEPT ![e] = "done"] /\ tail' = Tail(tail)
    /\ UNCHANGED <<instance, kind, loaded, files, routed, serving, edits, requests, mixed>>

LoadSettles ==
    /\ instance = "loading" /\ instance' \in {"ok", "failed"}
    /\ UNCHANGED <<tail, ph, kind, loaded, files, routed, serving, edits, requests, mixed>>

Ends(e) == ph' = [ph EXCEPT ![e] = "done"] /\ tail' = Tail(tail)

LoadFailed(e) ==
    /\ ph[e] = "loading" /\ instance = "failed" /\ Ends(e)
    /\ UNCHANGED <<instance, kind, loaded, files, routed, serving, edits, requests, mixed>>

\* The workspace is mirrored in and the run scheduled.
Schedule(e) ==
    LET r == syncInto(fs, pfs, backed) IN
    /\ ph[e] = "loading" /\ kind[e] = "python" /\ instance = "ok"
    /\ ph' = [ph EXCEPT ![e] = "scheduled"] /\ routed' = e
    /\ pfs' = r.pfs /\ synced' = r.seen
    /\ UNCHANGED <<instance, tail, kind, loaded, fs, backed, truth, torn, serving, edits, requests, mixed>>

\* A write in Python makes no directory.
PyWrite(tree, p, d) == IF Front(p) \in DOMAIN tree /\ IsA(tree, Front(p), "directory") THEN Put(tree, p, File(d)) ELSE tree

\* ERDOU_SETUP and the script: it writes, removes a file or a whole tree, or serves an app, and prints a line.
Evaluate(e) ==
    /\ ph[e] = "scheduled" /\ ph' = [ph EXCEPT ![e] = "evaluated"]
    /\ iters' = <<>> /\ seq' = 0 /\ since' = {}
    /\ \/ UNCHANGED <<pfs, app>>
       \/ \E p \in Files, d \in Data : pfs' = PyWrite(pfs, p, d) /\ UNCHANGED app
       \/ \E p \in Own(pfs) : pfs' = Without(pfs, p) /\ UNCHANGED app
       \/ app = None /\ app' = e /\ UNCHANGED pfs
    /\ Tracked(pfs, pfs')
    /\ Written(e, routed)
    /\ UNCHANGED <<instance, tail, kind, loaded, fs, backed, synced, torn, routed, streams, ends, edits, requests>>

\* The workspace is mirrored back; the routing stays with the run, whose streams close.
Finish(e) ==
    LET r == syncBack(pfs, fs, synced) IN
    /\ ph[e] = "evaluated" /\ Ends(e)
    /\ fs' = r.fs /\ backed' = r.backed
    /\ UNCHANGED <<instance, kind, loaded, pfs, synced, truth, torn, routed, serving, edits, requests, mixed>>

\* pip takes the streams over at once; the downloads' own lines come after.
Install(e) ==
    /\ ph[e] = "loading" /\ kind[e] = "pip" /\ instance = "ok"
    /\ ph' = [ph EXCEPT ![e] = "installing"] /\ routed' = e
    /\ UNCHANGED <<instance, tail, kind, loaded, files, serving, edits, requests, mixed>>

Installed(e) ==
    /\ ph[e] = "installing" /\ Ends(e) /\ Written(e, routed)
    /\ \E pkgs \in Requirements, net \in SUBSET {"cdn", "pypi"} : loaded' = pipInstall(loaded, pkgs, net).has
    /\ UNCHANGED <<instance, kind, files, routed, serving, edits, requests>>

----
(* Served apps. *)

\* Every call into Python takes the routing for itself and puts back what it found.
inPython(target) == Written(app, target) /\ UNCHANGED routed

\* What a view does to the files: nothing, or one write.
View ==
    \/ UNCHANGED files
    \/ \E p \in AppFiles, d \in Data :
         /\ pfs' = PyWrite(pfs, p, d) /\ Tracked(pfs, pfs')
         /\ torn' = IF p \in DOMAIN fs \cup synced \cup backed THEN torn \cup {p} ELSE torn
         /\ UNCHANGED <<fs, backed, synced>>

\* A response that is no event stream, or fails before its head: all of it in one go.
Buffered ==
    /\ app # None /\ requests < MaxRequests /\ requests' = requests + 1
    /\ View /\ inPython(app)
    /\ UNCHANGED <<runs, serving, edits>>

\* An event stream: the head is answered, the iterable kept under a token.
Streamed ==
    /\ app # None /\ requests < MaxRequests /\ requests' = requests + 1
    /\ seq' = seq + 1 /\ iters' = [t \in DOMAIN iters \cup {seq'} |-> IF t = seq' THEN requests' ELSE iters[t]]
    /\ streams' = [r \in DOMAIN streams \cup {requests'} |-> IF r = requests' THEN [token |-> seq', open |-> TRUE] ELSE streams[r]]
    /\ ends' = [r \in DOMAIN ends \cup {requests'} |-> IF r = requests' THEN 0 ELSE ends[r]]
    /\ since' = since \cup {requests'}
    /\ UNCHANGED files /\ inPython(app)
    /\ UNCHANGED <<runs, app, edits>>

Left(t) == [u \in DOMAIN iters \ {t} |-> iters[u]]

\* mutant: a stream given up is not released.
releasedNever(r) == streams' = [streams EXCEPT ![r].open = FALSE] /\ UNCHANGED <<iters, ends>>

\* The iterable leaves the registry and is closed, once.
released(r) ==
    LET t == streams[r].token IN
    /\ streams' = [streams EXCEPT ![r].open = FALSE] /\ iters' = Left(t)
    /\ ends' = IF t \in DOMAIN iters THEN [ends EXCEPT ![iters[t]] = @ + 1] ELSE ends

\* __erdou_wsgi_next: a chunk of the iterable under the token; at its end, when it raises and when there is none, the
\* stream is over.
Pull(r) ==
    /\ streams[r].open /\ streams[r].token \in DOMAIN iters /\ inPython(app)
    /\ UNCHANGED <<streams, iters, ends, runs, files, app, seq, since, edits, requests>>

StreamOver(r) ==
    /\ streams[r].open /\ released(r) /\ inPython(app)
    /\ UNCHANGED <<runs, files, app, seq, since, edits, requests>>

\* The consumer gives up, be it before its first pull.
Return(r) ==
    /\ streams[r].open /\ released(r) /\ inPython(app)
    /\ UNCHANGED <<runs, files, app, seq, since, edits, requests>>

----
\* A run has its copy of the workspace.
Mirrored == \E e \in Executions : ph[e] \in {"scheduled", "evaluated"}

\* Somebody else in the workspace: a file written, or a file or a tree removed.
Edit ==
    /\ edits < MaxEdits /\ edits' = edits + 1
    /\ \/ \E p \in Files, d \in Data : fs' = PyWrite(fs, p, d)
       \/ \E p \in Own(fs) : fs' = Without(fs, p)
    /\ Tracked(fs, fs')
    /\ torn' = torn \cup ((FilesOf(fs) \cup FilesOf(fs')) \cap (IF Mirrored THEN Files \cup AppFiles ELSE FilesOf(pfs) \ backed))
    /\ UNCHANGED <<runs, pfs, backed, synced, routed, serving, requests, mixed>>

Next ==
    \/ \E e \in Executions : Submit(e) \/ Start(e) \/ Refuse(e) \/ LoadFailed(e) \/ Schedule(e) \/ Evaluate(e) \/ Finish(e) \/ Install(e) \/ Installed(e)
    \/ LoadSettles \/ Buffered \/ Streamed \/ Edit
    \/ \E r \in DOMAIN streams : Pull(r) \/ StreamOver(r) \/ Return(r)

\* The loader settles, what is scheduled runs and downloads end.
Proceeds(e) == Start(e) \/ LoadFailed(e) \/ Schedule(e) \/ Evaluate(e) \/ Finish(e) \/ Install(e) \/ Installed(e)

Fairness == WF_vars(LoadSettles) /\ \A e \in Executions : WF_vars(Proceeds(e))

Spec == Init /\ [][Next]_vars /\ Fairness

----
\* After a run the workspace is what users, scripts and served apps have made of it: removals on either side have
\* happened on both, and nothing an app has put into Pyodide's filesystem between the runs is gone.
OneTree ==
    [][\A e \in Executions : ph[e] = "evaluated" /\ ph'[e] = "done" =>
         \A p \in (FilesOf(fs') \cup DOMAIN truth) \ torn : p \in FilesOf(fs') /\ p \in DOMAIN truth /\ fs'[p].data = truth[p]]_vars

\* As long as no other script has run, the token of an open stream leads to its own iterable, whatever the others'
\* consumers do, and an iterable is closed once when its stream is over.
StreamsKept ==
    DOMAIN streams = since => \A r \in since :
        IF streams[r].open THEN streams[r].token \in DOMAIN iters /\ iters[streams[r].token] = r /\ ends[r] = 0
        ELSE streams[r].token \notin DOMAIN iters /\ ends[r] = 1

\* No line of a run or of pip is written to an app's streams or another run's, and no line of an app to a run's,
\* whenever its requests land.
OutputOwn == ~mixed

\* pip says a package is installed when it is; it fails only for a package that is nowhere or cannot be reached.
PipTruthful ==
    \A pkgs \in Requirements, net \in SUBSET {"cdn", "pypi"} :
        LET r == pipInstall(loaded, pkgs, net) IN
        IF r.exit = 0 THEN pkgs \subseteq r.has
        ELSE net # {"cdn", "pypi"} \/ ~(pkgs \subseteq Bundled \cup Prebuilt \cup Pure \cup loaded)

\* Whatever becomes of the executions before it and of the loader, an execution is over at last.
AllEnd == \A e \in Executions : ph[e] = "queued" ~> ph[e] = "done"
====
