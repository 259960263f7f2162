--------------------------- MODULE ShellLanguage ---------------------------
(***************************************************************************)
(* What a line typed at the browser's shell does (packages/runtime-browser *)
(* src/shell: expand.ts, glob.ts and the evaluation in interpreter.ts).    *)
(*                                                                         *)
(* Module Shell has the processes, the jobs and the kills of a line; here  *)
(* a program is a function of its arguments and its input, and a line is   *)
(* evaluated in one step, so that lines can be typed out of pieces and     *)
(* what they do compared with what POSIX says.  A text is a sequence of    *)
(* characters, a path a sequence of names, a name a text.                  *)
(***************************************************************************)
EXTENDS ShellSyntax

CONSTANTS
  Vocabularies,  \* what may be typed: [pieces, most], and the bound on pieces typed in a session
  Worlds,        \* [cwd, env, last, files, out, err] a session starts in
  Collation,     \* the characters, in the order of their codes
  DevNull,       \* the path whose redirects discard
  Programs,      \* the names that are programs
  Writes(_, _),  \* what a program writes, <<fd, text>> in order, given its argv and its stdin
  Code(_),       \* and its exit status, given its argv
  MAX_SUBSTITUTION_DEPTH

VARIABLES
  vocabulary,  \* what this session is typed out of
  line,   \* what is typed and not yet entered
  typed,  \* pieces typed so far
  world   \* cwd, env, last status, files, and the output of the last line
vars == <<vocabulary, line, typed, world>>

-----------------------------------------------------------------------------
(* Paths and files *)

\* The names between the slashes of a text.
split(text) ==
  LET cuts == SetToSortSeq({0, Len(text) + 1} \cup {k \in DOMAIN text : text[k] = "/"}, <)
  IN SelectSeq([k \in 1 .. Len(cuts) - 1 |-> SubSeq(text, cuts[k] + 1, cuts[k + 1] - 1)],
               LAMBDA name : name # <<>>)

\* A text as a path: relative to cwd unless it starts with a slash.
resolveAbs(cwd, text) ==
  LET Walk(dir, name) == CASE name = <<".">> -> dir
                           [] name = <<".", ".">> -> IF dir = <<>> THEN dir ELSE Front(dir)
                           [] OTHER -> Append(dir, name)
  IN FoldLeft(Walk, IF at(text, 1) = "/" THEN <<>> ELSE cwd, split(text))

Slashed(names) == FlattenSeq([k \in DOMAIN names |-> IF k = 1 THEN names[k] ELSE <<"/">> \o names[k]])
Absolute(path) == <<"/">> \o Slashed(path)

\* Relative path from one absolute path to another.
relativePath(from, to) ==
  LET common == Max({n \in 0 .. Min({Len(from), Len(to)}) : SubSeq(from, 1, n) = SubSeq(to, 1, n)})
      parts == [k \in 1 .. Len(from) - common |-> <<".", ".">>] \o SubSeq(to, common + 1, Len(to))
  IN IF parts = <<>> THEN <<".">> ELSE Slashed(parts)

isDir(files, path) == path \in DOMAIN files /\ files[path].dir
isFile(files, path) == path \in DOMAIN files /\ ~files[path].dir
File(data) == [dir |-> FALSE, data |-> data]

\* Whether writeFile would succeed, and what it leaves.
Writable(files, path) == path # <<>> /\ ~isDir(files, path) /\ isDir(files, Front(path))
Written(files, path, data) == [p \in DOMAIN files \cup {path} |-> IF p = path THEN File(data) ELSE files[p]]
Appended(files, path, data) ==
  Written(files, path, (IF isFile(files, path) THEN files[path].data ELSE <<>>) \o data)

-----------------------------------------------------------------------------
(* Patterns *)

\* A segment as the regular expression it becomes: a run, any one, or itself.
RECURSIVE globToRegExp(_)
globToRegExp(seg) ==
  IF seg = <<>> THEN <<>>
  ELSE IF Head(seg) = "\\" /\ Len(seg) > 1
       THEN <<[k |-> "itself", c |-> seg[2]]>> \o globToRegExp(SubSeq(seg, 3, Len(seg)))
       ELSE <<CASE Head(seg) = "*" -> [k |-> "run", c |-> ""]
                [] Head(seg) = "?" -> [k |-> "one", c |-> ""]
                [] OTHER -> [k |-> "itself", c |-> Head(seg)]>> \o globToRegExp(Tail(seg))

\* RegExp.test of such an expression, anchored at both ends; no name has a slash.
RECURSIVE Test(_, _)
Test(re, name) ==
  IF re = <<>> THEN name = <<>>
  ELSE CASE Head(re).k = "run" -> \E k \in 0 .. Len(name) : Test(Tail(re), SubSeq(name, k + 1, Len(name)))
         [] Head(re).k = "one" -> name # <<>> /\ Test(Tail(re), Tail(name))
         [] Head(re).k = "itself" -> name # <<>> /\ Head(name) = Head(re).c /\ Test(Tail(re), Tail(name))

Escaped(text, K) == FlattenSeq([k \in DOMAIN text |-> IF text[k] \in K THEN <<"\\", text[k]>> ELSE <<text[k]>>])
\* mutant: a backslash of quoted text is taken for an escape of the pattern.
escapeGlobLiteralMetas(text) == Escaped(text, Metas)
escapeGlobLiteral(text) == Escaped(text, Metas \cup {"\\"})
escapeGlobBackslashes(text) == Escaped(text, {"\\"})

RECURSIVE unescapeGlob(_)
unescapeGlob(text) ==
  IF Len(text) < 2 THEN text
  ELSE IF Head(text) = "\\" THEN <<text[2]>> \o unescapeGlob(SubSeq(text, 3, Len(text)))
  ELSE <<Head(text)>> \o unescapeGlob(Tail(text))

\* A metacharacter with an even number of backslashes right before it.
hasGlobChars(text) ==
  \E k \in DOMAIN text :
    /\ text[k] \in Metas
    /\ LET run == Max({n \in 0 .. k - 1 : \A j \in k - n .. k - 1 : text[j] = "\\"}) IN run % 2 = 0

\* String order of two texts.
Rank(c) == CHOOSE n \in DOMAIN Collation : Collation[n] = c
Before(a, b) ==
  LET n == Max({k \in 0 .. Min({Len(a), Len(b)}) : SubSeq(a, 1, k) = SubSeq(b, 1, k)})
  IN IF n = Len(b) THEN FALSE ELSE n = Len(a) \/ Rank(a[n + 1]) < Rank(b[n + 1])

expandGlob(files, cwd, pattern) ==
  LET Matching(dir, seg) ==
        {p \in {Append(dir, Last(q)) : q \in {q \in DOMAIN files : q # <<>> /\ Front(q) = dir}} :
           /\ at(seg, 1) = "." \/ Head(Last(p)) # "."
           /\ Test(globToRegExp(seg), Last(p))}
      Within(dirs, seg) ==
        UNION {IF hasGlobChars(seg) THEN Matching(dir, seg)
               ELSE {Append(dir, unescapeGlob(seg))} \cap DOMAIN files : dir \in {d \in dirs : isDir(files, d)}}
      Seen(path) == IF at(pattern, 1) = "/" THEN Absolute(path) ELSE relativePath(cwd, path)
      Shown(sorted) == IF sorted = <<>> THEN <<unescapeGlob(pattern)>>
                       ELSE [k \in DOMAIN sorted |-> Seen(sorted[k])]
  IN Shown(SetToSortSeq(FoldLeft(Within, {<<>>}, resolveAbs(cwd, pattern)),
                        LAMBDA p, q : Before(Absolute(p), Absolute(q))))

\* The arguments a word becomes, its substitutions already run.
expandWord(parts, env, files, cwd) ==
  LET Value(part) == IF part.t = "var" THEN IF part.v \in DOMAIN env THEN env[part.v] ELSE <<>>
                     ELSE part.v
      text == FlattenSeq([k \in DOMAIN parts |-> Value(parts[k])])
      pattern == FlattenSeq([k \in DOMAIN parts |-> IF parts[k].t = "glob" THEN escapeGlobBackslashes(parts[k].v)
                                                    ELSE escapeGlobLiteral(Value(parts[k]))])
  IN IF \E k \in DOMAIN parts : parts[k].t = "glob" THEN expandGlob(files, cwd, pattern) ELSE <<text>>

-----------------------------------------------------------------------------
(* Redirects *)

FileSink(r) == IF r.file = DevNull THEN [to |-> "null"]
               ELSE [to |-> "file", file |-> r.file, append |-> r.op = ">>"]

\* mutant: a duplication is of where the other fd ends up, not of where it is.
resolveSinksLast(redirects) ==
  LET Files(fd) == SelectSeq(redirects, LAMBDA r : r.op \in {">", ">>"} /\ r.fd = fd)
      out == IF Files(1) = <<>> THEN [to |-> "stdout"] ELSE FileSink(Last(Files(1)))
      dups == SelectSeq(redirects, LAMBDA r : r.op = ">&" /\ r.fd = 2 /\ r.from = 1)
  IN [out |-> out,
      err |-> IF dups # <<>> THEN out
              ELSE IF Files(2) = <<>> THEN [to |-> "stderr"] ELSE FileSink(Last(Files(2)))]

\* Where each output fd ends up: the redirects folded in their order.
resolveSinks(redirects) ==
  LET Fold(sinks, r) ==
        CASE r.op = "<" -> sinks
          [] r.op = ">&" -> LET copied == IF r.from = 1 THEN sinks.out ELSE sinks.err
                            IN IF r.fd = 1 THEN [sinks EXCEPT !.out = copied] ELSE [sinks EXCEPT !.err = copied]
          [] OTHER -> IF r.fd = 1 THEN [sinks EXCEPT !.out = FileSink(r)] ELSE [sinks EXCEPT !.err = FileSink(r)]
  IN FoldLeft(Fold, [out |-> [to |-> "stdout"], err |-> [to |-> "stderr"]], redirects)

sameSink(a, b) == a.to = b.to /\ (a.to = "file" => a.file = b.file)
ModeConflict(s) == /\ s.out.to = "file" /\ s.err.to = "file"
                   /\ s.out.file = s.err.file /\ s.out.append # s.err.append

\* The `<` of a command opened in order: whether all can be read, and the last's bytes.
openInputs(spec, files) ==
  LET ins == SelectSeq(spec.redirects, LAMBDA r : r.op = "<")
      bad == \E k \in DOMAIN ins : ins[k].file # DevNull /\ ~isFile(files, ins[k].file)
  IN [bad |-> bad,
      stdin |-> IF bad \/ ins = <<>> \/ Last(ins).file = DevNull THEN <<>> ELSE files[Last(ins).file].data]

\* The output targets opened in order, up to the first that cannot be.
openTargets(specs, files) ==
  LET Open(o, r) ==
        CASE o.bad \/ r.op \in {"<", ">&"} \/ (r.op # "<" /\ r.op # ">&" /\ r.file = DevNull) -> o
          [] OTHER -> IF r.op = ">>" /\ r.file \in DOMAIN o.files THEN o
                      ELSE IF Writable(o.files, r.file) THEN [o EXCEPT !.files = Written(@, r.file, <<>>)]
                      ELSE [o EXCEPT !.bad = TRUE]
  IN FoldLeft(Open, [bad |-> FALSE, files |-> files],
              FlattenSeq([k \in DOMAIN specs |-> specs[k].redirects]))

-----------------------------------------------------------------------------
(* Evaluation: a step takes a world to [w, bad, code]; bad is a throw, which *)
(* the rest of the line does not survive but whatever was done does.         *)

Done(w, code) == [w |-> w, bad |-> FALSE, code |-> code]
Throw(w) == [w |-> w, bad |-> TRUE, code |-> 2]

\* A sink that nothing can be written to: `>>` opens what exists, a directory too.
Undrainable(files, sinks) == \E s \in {sinks.out, sinks.err} : s.to = "file" /\ isDir(files, s.file)

\* What an fd's stream leaves where its sink is. A write to a file replaces it or is appended.
drainSink(w, sink, text) ==
  CASE sink.to = "null" -> w
    [] sink.to = "stdout" -> [w EXCEPT !.out = @ \o text]
    [] sink.to = "stderr" -> [w EXCEPT !.err = @ \o text]
    [] sink.to = "file" -> [w EXCEPT !.files = CASE isDir(@, sink.file) -> @
                                                 [] sink.append -> Appended(@, sink.file, text)
                                                 [] OTHER -> Written(@, sink.file, text)]

\* The text of some of a program's writes.
Stream(writes, fds) == FlattenSeq([k \in DOMAIN writes |-> IF writes[k][1] \in fds THEN writes[k][2] ELSE <<>>])

Cd == <<"c", "d">>
Export == <<"e", "x", "p", "o", "r", "t">>
Home == <<"H", "O", "M", "E">>
Complaint == <<"!">>  \* the message of an error

\* cd's and export's effect on the world, without their redirects.
builtinCd(w, argv) ==
  LET home == IF Home \in DOMAIN w.env THEN w.env[Home] ELSE <<"/">>
      target == resolveAbs(w.cwd, IF Len(argv) > 1 THEN argv[2] ELSE home)
  IN IF isDir(w.files, target) THEN [w |-> [w EXCEPT !.cwd = target], said |-> <<>>, code |-> 0]
     ELSE [w |-> w, said |-> Complaint, code |-> 1]

builtinExport(w, argv) ==
  LET eq(a) == Upto(a, 1, "=")
      Assign(env, a) == IF eq(a) \in 2 .. Len(a)
                        THEN [n \in DOMAIN env \cup {SubSeq(a, 1, eq(a) - 1)} |->
                                IF n = SubSeq(a, 1, eq(a) - 1) THEN SubSeq(a, eq(a) + 1, Len(a)) ELSE env[n]]
                        ELSE env
  IN [w |-> [w EXCEPT !.env = FoldLeft(Assign, @, Tail(argv))], said |-> <<>>, code |-> 0]

\* What the builtin did and said, through its redirects.
Said(ran, sinks) == [Done(drainSink(drainSink(ran.w, sinks.out, <<>>), sinks.err, ran.said), ran.code)
                       EXCEPT !.bad = Undrainable(ran.w.files, sinks)]
runBuiltin(w, spec, opened) ==
  IF ModeConflict(resolveSinks(spec.redirects)) \/ openInputs(spec, w.files).bad THEN Throw(w)
  ELSE IF opened.bad THEN Throw([w EXCEPT !.files = opened.files])
  ELSE Said(IF spec.argv[1] = Cd THEN builtinCd([w EXCEPT !.files = opened.files], spec.argv)
            ELSE builtinExport([w EXCEPT !.files = opened.files], spec.argv),
            resolveSinks(spec.redirects))

\* A stage's merged fds are one stream; fd 1 feeds the next stage only while it
\* still is the stage's stdout.
Merged(sinks) == sameSink(sinks.out, sinks.err)
Fds(sinks) == IF Merged(sinks) THEN {1, 2} ELSE {1}
Fed(writes, sinks) == IF sinks.out.to = "stdout" THEN Stream(writes, Fds(sinks)) ELSE <<>>

\* The streams of a stage drained: its fd 1, and its fd 2 unless that is merged.
Drain(w, sink, text, isLast) == IF sink.to = "stdout" /\ ~isLast THEN w ELSE drainSink(w, sink, text)
Drained(w, writes, sinks, isLast) ==
  IF Merged(sinks) THEN Drain(w, sinks.out, Stream(writes, {1, 2}), isLast)
  ELSE Drain(Drain(w, sinks.out, Stream(writes, {1}), isLast), sinks.err, Stream(writes, {2}), isLast)

\* The stages from k on, given what stage k reads.
RECURSIVE runStages(_, _, _, _)
Ran(w, specs, k, writes, sinks) ==
  IF k = Len(specs) THEN Done(Drained(w, writes, sinks, TRUE), Code(specs[k].argv))
  ELSE runStages(Drained(w, writes, sinks, FALSE), specs, k + 1, Fed(writes, sinks))
runStages(w, specs, k, stdin) == Ran(w, specs, k, Writes(specs[k].argv, stdin), resolveSinks(specs[k].redirects))

\* A pipeline whose commands are expanded.
Executed(w, specs, inputs, opened) ==
  IF \/ \E k \in 2 .. Len(specs) : \E j \in DOMAIN specs[k].redirects : specs[k].redirects[j].op = "<"
     \/ inputs.bad
     \/ \E k \in DOMAIN specs : ModeConflict(resolveSinks(specs[k].redirects))
  THEN Throw(w)
  ELSE IF opened.bad \/ \E k \in DOMAIN specs : specs[k].argv[1] \notin Programs
  THEN Throw([w EXCEPT !.files = opened.files])
  ELSE [runStages([w EXCEPT !.files = opened.files], specs, 1, inputs.stdin)
          EXCEPT !.bad = \E k \in DOMAIN specs : Undrainable(opened.files, resolveSinks(specs[k].redirects))]

execPipeline(w, specs) ==
  CASE \A k \in DOMAIN specs : specs[k].argv[1] \notin {Cd, Export} ->
         Executed(w, specs, openInputs(specs[1], w.files), openTargets(specs, w.files))
    [] Len(specs) = 1 /\ specs[1].argv[1] \in {Cd, Export} -> runBuiltin(w, specs[1], openTargets(specs, w.files))
    [] OTHER -> Throw(w)

RECURSIVE process(_, _, _)

\* The `$(...)` of a word run in order, each in a subshell: its output without
\* the newlines at its end, its files and its complaints stay, its cwd,
\* environment and status do not. It may fail without the command failing.
Trimmed(text) == SubSeq(text, 1, Max({0} \cup {k \in DOMAIN text : text[k] # "\n"}))
Substituted(s, r) == [s EXCEPT !.w.files = r.w.files,
                               !.w.err = IF r.bad THEN r.w.err \o Complaint ELSE r.w.err,
                               !.parts = Append(@, Part("sub", Trimmed(r.w.out)))]
substitute(w, parts, depth) ==
  LET Resolve(s, part) == CASE s.bad -> s
                            [] ~s.bad /\ part.t # "cmdsub" -> [s EXCEPT !.parts = Append(@, part)]
                            [] OTHER -> IF depth >= MAX_SUBSTITUTION_DEPTH THEN [s EXCEPT !.bad = TRUE]
                                        ELSE Substituted(s, process([s.w EXCEPT !.out = <<>>], part.v, depth + 1))
  IN FoldLeft(Resolve, [w |-> w, bad |-> FALSE, parts |-> <<>>], parts)

\* The arguments of a word whose substitutions have run in e's world.
EnvOf(w) == [n \in DOMAIN w.env \cup {<<"?">>} |-> IF n = <<"?">> THEN <<ToString(w.last)>> ELSE w.env[n]]
WithArguments(e, s) == IF s.bad THEN [e EXCEPT !.w = s.w, !.bad = TRUE]
                       ELSE [e EXCEPT !.w = s.w, !.argv = @ \o expandWord(s.parts, EnvOf(e.w), s.w.files, e.w.cwd)]
WithTarget(e, r, w, targets) ==
  IF Len(targets) # 1 THEN [e EXCEPT !.w = w, !.bad = TRUE]
  ELSE [e EXCEPT !.w = w, !.redirects = Append(@, [fd |-> r.fd, op |-> r.op, file |-> resolveAbs(w.cwd, targets[1])])]
WithRedirect(e, r, s) == IF s.bad THEN [e EXCEPT !.w = s.w, !.bad = TRUE]
                         ELSE WithTarget(e, r, s.w, expandWord(s.parts, EnvOf(e.w), s.w.files, e.w.cwd))

\* A command's arguments and its redirects, the words first.
expandCommand(w, command, depth) ==
  LET Argument(e, parts) == IF e.bad THEN e ELSE WithArguments(e, substitute(e.w, parts, depth))
      Redirect(e, r) == CASE e.bad -> e
                          [] ~e.bad /\ r.op = ">&" -> [e EXCEPT !.redirects = Append(@, r)]
                          [] OTHER -> WithRedirect(e, r, substitute(e.w, r.target, depth))
  IN FoldLeft(Redirect,
              FoldLeft(Argument, [w |-> w, bad |-> FALSE, argv |-> <<>>, redirects |-> <<>>], command.words),
              command.redirects)

WithCommand(e, c) == [w |-> c.w, bad |-> c.bad,
                      specs |-> Append(e.specs, [argv |-> c.argv, redirects |-> c.redirects])]
expandPipeline(w, commands, depth) ==
  FoldLeft(LAMBDA e, command : IF e.bad THEN e ELSE WithCommand(e, expandCommand(e.w, command, depth)),
           [w |-> w, bad |-> FALSE, specs |-> <<>>], commands)

\* The items of a list; a skipped one leaves the status alone.
shouldRun(op, code) == CASE op = "&&" -> code = 0
                         [] op = "||" -> code # 0
                         [] OTHER -> TRUE
Recorded(r) == IF r.bad THEN r ELSE [r EXCEPT !.w.last = r.code]
runExpanded(e) == IF e.bad THEN Throw(e.w) ELSE execPipeline(e.w, e.specs)
runList(w, items, depth) ==
  FoldLeft(LAMBDA r, item : IF r.bad \/ ~shouldRun(item.op, r.code) THEN r
                            ELSE Recorded(runExpanded(expandPipeline(r.w, item.commands, depth))),
           Done(w, 0), items)

\* A list that is no job (see Enter).
runParsed(w, list, depth) == IF list.bad THEN Throw(w) ELSE runList(w, list.items, depth)
process(w, src, depth) == runParsed(w, parse(src), depth)

\* A line entered: its output starts anew, and what it throws is its status 2.
Printed(r) == IF r.bad THEN [r.w EXCEPT !.err = @ \o Complaint, !.last = 2] ELSE r.w
execute(w, src) == Printed(process([w EXCEPT !.out = <<>>, !.err = <<>>], src, 0))

-----------------------------------------------------------------------------
(* The session *)

Init == /\ vocabulary \in Vocabularies
        /\ line = <<>>
        /\ typed = 0
        /\ world \in Worlds

Type(piece) == /\ typed < vocabulary.most
               /\ line' = line \o piece
               /\ typed' = typed + 1
               /\ UNCHANGED <<vocabulary, world>>

\* The substitutions of a command, and whether a line or a substitution in it ends in `&`.
Substitutions(c) ==
  LET words == ToSet(c.words) \cup {r.target : r \in {r \in ToSet(c.redirects) : r.op # ">&"}}
  IN {part \in UNION {ToSet(parts) : parts \in words} : part.t = "cmdsub"}
RECURSIVE Detaches(_)
Detaches(src) ==
  \/ parse(src).background
  \/ \E item \in ToSet(parse(src).items) : \E c \in ToSet(item.commands) :
       \E part \in Substitutions(c) : Detaches(part.v)

\* A job runs beside the lines after it and is in module Shell: no line is entered
\* that starts one, at its end or in a substitution.
Enter == /\ line # <<>>
         /\ ~Detaches(line)
         /\ world' = execute(world, line)
         /\ line' = <<>>
         /\ UNCHANGED <<vocabulary, typed>>

Next == (\E piece \in vocabulary.pieces : Type(piece)) \/ Enter

Spec == Init /\ [][Next]_vars

-----------------------------------------------------------------------------
(* Quoting, as POSIX has it: one pass over the characters in a mode.       *)

\* A character of a word, and whether it stands for others.
Cell(c, glob) == [c |-> c, glob |-> glob]

Lexed(s) ==
  LET Add(x, c, glob) == [x EXCEPT !.word = Append(@, Cell(c, glob)), !.open = TRUE, !.esc = FALSE]
      Close(x) == [x EXCEPT !.words = IF x.open THEN Append(@, x.word) ELSE @, !.word = <<>>, !.open = FALSE]
      Plain(x, c) ==
        CASE c \in isWhitespace \cup isOperatorChar -> Close(x)
          [] c = "\\" -> [x EXCEPT !.esc = TRUE]
          [] c = "'" -> [x EXCEPT !.mode = "single", !.open = TRUE]
          [] c = "\"" -> [x EXCEPT !.mode = "double", !.open = TRUE]
          [] c = "#" /\ ~x.open -> [x EXCEPT !.mode = "comment"]
          [] OTHER -> Add(x, c, c \in Metas)
      Read(x, c) ==
        CASE x.mode = "comment" -> IF c = "\n" THEN [x EXCEPT !.mode = "plain"] ELSE x
          [] x.mode = "single" -> IF c = "'" THEN [x EXCEPT !.mode = "plain"] ELSE Add(x, c, FALSE)
          [] x.mode = "plain" -> IF ~x.esc THEN Plain(x, c)
                                 ELSE IF c = "\n" THEN [x EXCEPT !.esc = FALSE] ELSE Add(x, c, FALSE)
          [] x.mode = "double" /\ x.esc ->
               (CASE c = "\n" -> [x EXCEPT !.esc = FALSE]
                  [] c \in {"\"", "\\"} -> Add(x, c, FALSE)
                  [] OTHER -> Add(Add(x, "\\", FALSE), c, FALSE))
          [] x.mode = "double" /\ ~x.esc ->
               (CASE c = "\"" -> [x EXCEPT !.mode = "plain"]
                  [] c = "\\" -> [x EXCEPT !.esc = TRUE]
                  [] OTHER -> Add(x, c, FALSE))
      end == FoldLeft(Read, [mode |-> "plain", esc |-> FALSE, open |-> FALSE, word |-> <<>>, words |-> <<>>], s)
  IN [ended |-> end.mode \in {"plain", "comment"} /\ ~end.esc, words |-> Close(end).words]

\* The words of the line's tokens, a character at a time.
WordsOf(tokens) == [k \in DOMAIN SelectSeq(tokens, LAMBDA t : t.type = "word") |->
                      SelectSeq(tokens, LAMBDA t : t.type = "word")[k].parts]
CellsOf(parts) == FlattenSeq([k \in DOMAIN parts |->
                    [j \in DOMAIN parts[k].v |-> Cell(parts[k].v[j], parts[k].t = "glob" /\ parts[k].v[j] \in Metas)]])

\* No expansion and no redirect: quoting, blanks, comments and operators only.
QuotingOnly(s) == ToSet(s) \cap {"$", Backquote, "<", ">"} = {}

SameWords(tokens, lexed) ==
  /\ Readable(tokens) <=> lexed.ended
  /\ lexed.ended => lexed.words = [k \in DOMAIN WordsOf(tokens) |-> CellsOf(WordsOf(tokens)[k])]

\* The shell reads exactly the words POSIX quoting gives, character by character,
\* with the same `*` and `?` left to match, and it refuses exactly the lines whose
\* quotes or last backslash are left open (tokenize, readWord).
WordsExact ==
  QuotingOnly(line) => SameWords(tokenize(line), Lexed(line))

\* A word's cells match a name: the name cut into one stretch for each cell.
Matches(cells, name) ==
  \E cut \in [0 .. Len(cells) -> 0 .. Len(name)] :
    /\ cut[0] = 0 /\ cut[Len(cells)] = Len(name)
    /\ \A k \in DOMAIN cells :
         /\ cut[k - 1] <= cut[k]
         /\ ~cells[k].glob => SubSeq(name, cut[k - 1] + 1, cut[k]) = <<cells[k].c>>
         /\ cells[k] = Cell("?", TRUE) => cut[k] = cut[k - 1] + 1
    /\ name[1] = "." => cells[1].c = "."

NamesMatching(cells) == {p \in DOMAIN world.files : /\ Len(p) = Len(world.cwd) + 1 /\ Front(p) = world.cwd
                                                   /\ Matches(cells, Last(p))}
ExpandedExactly(cells, got) ==
  "/" \notin {cells[k].c : k \in DOMAIN cells} =>
    \/ /\ NamesMatching(cells) = {} \/ \A k \in DOMAIN cells : ~cells[k].glob
       /\ got = <<[k \in DOMAIN cells |-> cells[k].c]>>
    \/ /\ \E k \in DOMAIN cells : cells[k].glob
       /\ {Append(world.cwd, name) : name \in ToSet(got)} = NamesMatching(cells)
       /\ \A k \in 2 .. Len(got) : Before(got[k - 1], got[k])

\* An unquoted pattern becomes the names that match it, no quoted character
\* matching but itself, in order and as seen from where the shell is; with no
\* match, and without a pattern, the word is its own text (expandWord, expandGlob).
ExpansionExact ==
  QuotingOnly(line) => \A parts \in ToSet(WordsOf(tokenize(line))) :
    ExpandedExactly(CellsOf(parts), expandWord(parts, world.env, world.files, world.cwd))

\* Both: what is typed is read and expanded as POSIX has it.
WordsTrue == WordsExact /\ ExpansionExact

-----------------------------------------------------------------------------
(* Redirects, as POSIX has them: each fd is an open object, and every write *)
(* of a program is appended to the object its fd is.                       *)

Object(r) == IF r.file = DevNull THEN <<"null">> ELSE <<"file", r.file>>
\* What a stage's fds are.
FdTable(redirects, fd1) ==
  FoldLeft(LAMBDA fds, r : CASE r.op = "<" -> fds
                             [] r.op = ">&" -> [fds EXCEPT ![r.fd] = fds[r.from]]
                             [] OTHER -> [fds EXCEPT ![r.fd] = Object(r)],
           <<fd1, <<"stderr">>>>, redirects)

\* The objects after a pipeline, its targets opened: the text of each.
PosixObjects(w, specs, firstStdin, files) ==
  LET last == Len(specs)
      targets == {<<"file", p>> : p \in {p \in DOMAIN files : ~files[p].dir}}
      pipes == {<<"pipe", k>> : k \in 0 .. last}
      start == [o \in targets \cup pipes \cup {<<"null">>, <<"stdout">>, <<"stderr">>} |->
                  IF o \in targets THEN files[o[2]].data ELSE IF o = <<"pipe", 0>> THEN firstStdin
                  ELSE IF o = <<"stderr">> THEN w.err ELSE <<>>]
      Stage(held, k) ==
        LET fds == FdTable(specs[k].redirects, IF k = last THEN <<"stdout">> ELSE <<"pipe", k>>)
        IN FoldLeft(LAMBDA h, write : [h EXCEPT ![fds[write[1]]] = @ \o write[2]],
                    held, Writes(specs[k].argv, held[<<"pipe", k - 1>>]))
  IN FoldLeft(Stage, start, [k \in DOMAIN specs |-> k])

Targets(spec) == {r.file : r \in {r \in ToSet(spec.redirects) : r.op \in {">", ">>"}}} \ {DevNull}
\* Fd 2 of a stage is on the pipe and fd 1 is not.
OnlyStderrPiped(specs) ==
  \E k \in 1 .. Len(specs) - 1 :
    LET fds == FdTable(specs[k].redirects, <<"pipe", k>>) IN fds[2] = <<"pipe", k>> /\ fds[1] # fds[2]

SameObjects(held, files) ==
  /\ world'.out = held[<<"stdout">>]
  /\ world'.err = held[<<"stderr">>]
  /\ world'.files = [p \in DOMAIN files |-> IF files[p].dir THEN files[p] ELSE File(held[<<"file", p>>])]
RanAsPosix(w, specs, files) ==
  \/ execPipeline(w, specs).bad
  \/ SameObjects(PosixObjects(w, specs, openInputs(specs[1], w.files).stdin, files), files)
PipelineAsPosix(e) ==
  \/ e.bad \/ OnlyStderrPiped(e.specs)
  \/ e.specs[1].argv[1] \in {Cd, Export}
  \/ \E k, j \in DOMAIN e.specs : k # j /\ Targets(e.specs[k]) \cap Targets(e.specs[j]) # {}
  \/ RanAsPosix(e.w, e.specs, openTargets(e.specs, e.w.files).files)
\* A line of one pipeline entered leaves the bytes of every program where its
\* fds were, if the line did not fail.
ListAsPosix(items) ==
  Len(items) = 1 => PipelineAsPosix(expandPipeline([world EXCEPT !.out = <<>>, !.err = <<>>], items[1].commands, 0))

\* What a program writes lands where POSIX fd tables put it, in its order, through
\* any redirects, duplications and pipes (resolveSinks, openTargets, execPipeline).
\* Left out: fd 2 piped without fd 1, which the shell loses, and one file that two
\* stages write, where POSIX gives no order either.
Redirected == [][line' = <<>> /\ line # <<>> => ListAsPosix(parse(line).items)]_vars
=============================================================================
