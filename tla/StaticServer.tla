---- MODULE StaticServer ----
(* "erdou serve": packages/runtime-browser/src/builtins/serve.ts.  The handler it leaves on a port reads the tree at  *)
(* the time of each request.  A request path is its raw segments in order, the last one empty after a trailing slash; *)
(* a raw segment is the names it decodes to (an escaped slash parts them), or Malformed.                              *)
EXTENDS Files

CONSTANTS
    INDEX,          \* "index.html"
    Dotted,         \* names with an extension
    Malformed,
    Argvs,          \* of erdou: words [number, abs, path] and flags
    Requests        \* raw paths asked for

CWD == <<>>

\* Without the port's prefix nothing may be left.
requestPath(raw) == IF \E i \in DOMAIN raw : raw[i] = Malformed THEN None ELSE IF raw = <<>> THEN <<"">> ELSE FlattenSeq(raw)

looksLikeFile(path) == Last(path) \in Dotted

wantsIndex(path) == Last(path) = ""

filePath(dir, path) == normalize(dir \o SelectSeq(path, LAMBDA n : n # "") \o (IF wantsIndex(path) THEN <<INDEX>> ELSE <<>>))

TypeAt(fs, r) == IF Leads(r) THEN fs[r.at].type ELSE "nothing"
Type(fs, p) == TypeAt(fs, resolvePath(fs, p, TRUE))

Answer(status) == [status |-> status, body |-> None, location |-> None]
Page(fs, p) == [Answer(200) EXCEPT !.body = readFile(fs, p)]
\* The last segment as it came, and a slash: relative to what the browser asked for.
Redirect(raw) == [Answer(302) EXCEPT !.location = <<Last(raw), <<"">>>>]

Fallback(fs, s, path) ==
    IF s.spa /\ ~looksLikeFile(path) /\ Type(fs, Append(s.dir, INDEX)) = "file" THEN Page(fs, Append(s.dir, INDEX)) ELSE Answer(404)

\* mutant: the fallback is tried before the redirect.
OfTypeSpaFirst(fs, s, raw, path, at, type) ==
    IF type = "file" THEN Page(fs, at)
    ELSE IF s.spa /\ ~wantsIndex(path) THEN Fallback(fs, s, path)
    ELSE IF type = "directory" THEN IF wantsIndex(path) THEN Answer(500) ELSE Redirect(raw)
    ELSE Fallback(fs, s, path)

OfType(fs, s, raw, path, at, type) ==
    IF type = "file" THEN Page(fs, at)
    ELSE IF type = "directory" THEN IF wantsIndex(path) THEN Answer(500) ELSE Redirect(raw)
    ELSE Fallback(fs, s, path)

Handle(fs, s, raw, path, at) == IF IsPrefix(s.dir, at) THEN OfType(fs, s, raw, path, at, Type(fs, at)) ELSE Answer(404)

Requested(fs, s, raw, path) == IF path = None THEN Answer(400) ELSE Handle(fs, s, raw, path, filePath(s.dir, path))

\* The handler for a directory s.dir and the flag s.spa.
makeHandler(fs, s, raw) == Requested(fs, s, raw, requestPath(raw))

\* What the command leaves on which port, or its exit code: flags may stand anywhere.
erdou(argv) ==
    LET positional == SelectSeq(Tail(argv), LAMBDA a : a.is = "word")
        dir == positional[1]
        spa == \E i \in 2 .. Len(argv) : argv[i].is = "--spa"
        Serves(port) == [code |-> 0, port |-> port, dir |-> normalize((IF dir.abs THEN <<>> ELSE CWD) \o dir.path), spa |-> spa]
    IN  IF argv = <<>> \/ argv[1].is # "serve" \/ positional = <<>> THEN [code |-> 2]
        ELSE IF Len(positional) = 1 THEN Serves(8080)
        ELSE IF positional[2].number = None THEN [code |-> 2] ELSE Serves(positional[2].number)

----
\* A browser follows the location it is given from where it asked.
Follow(fs, s, raw, answer) == IF answer.status = 302 THEN makeHandler(fs, s, Front(raw) \o answer.location) ELSE answer
Browse(fs, s, raw) == Follow(fs, s, raw, makeHandler(fs, s, raw))

IsPage(a, fs, p) == a = Page(fs, p)

\* What a path names decides the answer.
Rightly(s, path, here, a) ==
    IF ~IsPrefix(s.dir, here) THEN a.status = 404
    ELSE IF Type(tree, here) = "file" /\ ~wantsIndex(path) THEN IsPage(a, tree, here)
    ELSE IF Type(tree, Append(here, INDEX)) = "file" THEN IsPage(a, tree, Append(here, INDEX))
    ELSE IF Type(tree, Append(here, INDEX)) = "directory" THEN a.status = 500
    ELSE IF s.spa /\ Type(tree, Append(s.dir, INDEX)) = "file" /\ (Type(tree, here) = "directory" \/ ~looksLikeFile(path))
    THEN IsPage(a, tree, Append(s.dir, INDEX))
    ELSE a.status = 404

\* "--spa would ... silently serve the wrong page": over every tree, links in it included, a browser has its answer after
\* one redirect at most.  A path to a file is answered with its bytes; one to a directory, with or without its slash, with
\* the directory's own index; the root's index stands in only for routes that are nothing in the tree; and no path
\* climbs out of the directory that is served.
PagesReached ==
    kernelKind = "browser" => \A argv \in Argvs, raw \in Requests :
        erdou(argv).code = 0 =>
            IF requestPath(raw) = None THEN Browse(tree, erdou(argv), raw).status = 400
            ELSE Rightly(erdou(argv), requestPath(raw), normalize(erdou(argv).dir \o SelectSeq(requestPath(raw), LAMBDA n : n # "")), Browse(tree, erdou(argv), raw))
====
