---------------------------- MODULE ShellSyntax ----------------------------
(***************************************************************************)
(* The browser shell's reading of a command line (packages/runtime-browser *)
(* src/shell/tokenizer.ts and parser.ts).                                  *)
(*                                                                         *)
(* A line is a sequence of characters, a character a string of length one. *)
(* A reader takes the line and the index it stands at and returns          *)
(*   [i |-> where it stopped, got |-> what it read, bad |-> it refused]:   *)
(* every ErrnoError thrown while a line is read makes the whole line fail, *)
(* so the wording is left out and a refusal is one value.                  *)
(***************************************************************************)
EXTENDS Integers, Sequences, FiniteSetsExt, SequencesExt

CONSTANT Letters  \* the letters (and "_") that lines are written with

Digits == {"0", "1", "2", "3", "4", "5", "6", "7", "8", "9"}
isWhitespace == {" ", "\t", "\n"}
isOperatorChar == {"|", "&", ";", "<", ">"}
isNameChar == Letters \cup Digits
Metas == {"*", "?"}
Backquote == "backquote"  \* that character, which no TLA+ string may hold

isPlainName(name) == /\ name # <<>>
                     /\ Head(name) \in Letters
                     /\ ToSet(name) \subseteq isNameChar

\* `$` followed by one of these is refused, and so is `$` and a digit.
SPECIAL_PARAMS == {"$", "!", "@", "*", "#", "-"}

-----------------------------------------------------------------------------
(* The cursor *)

at(s, i) == IF i \in DOMAIN s THEN s[i] ELSE ""

\* The first index from i on that does not hold a character of K.
Past(s, i, K) == Min({j \in i .. Len(s) : s[j] \notin K} \cup {Max({i, Len(s) + 1})})

\* The first index from i on that holds c, or the index after the line.
Upto(s, i, c) == Min({j \in i .. Len(s) : s[j] = c} \cup {Len(s) + 1})

Got(i, what) == [i |-> i, got |-> what, bad |-> FALSE]
Refused == [i |-> 0, got |-> <<>>, bad |-> TRUE]

Part(t, v) == [t |-> t, v |-> v]

-----------------------------------------------------------------------------
(* Words *)

\* The closing quote of the double-quoted run whose body starts at i, as the
\* search for the end of a substitution skips it: a backslash hides one
\* character, nothing else is looked at.
RECURSIVE EndOfDouble(_, _)
EndOfDouble(s, i) == CASE at(s, i) \in {"", "\""} -> i
                       [] at(s, i) = "\\" -> EndOfDouble(s, i + 2)
                       [] OTHER -> EndOfDouble(s, i + 1)

\* The `)` that brings depth to 0, or an index past the line.
RECURSIVE Closing(_, _, _)
Closing(s, i, depth) ==
  LET c == at(s, i)
  IN CASE c = "" -> Len(s) + 1
       [] c = "\\" -> Closing(s, i + 2, depth)
       [] c = "'" -> Closing(s, Upto(s, i + 1, "'") + 1, depth)
       [] c = "\"" -> Closing(s, EndOfDouble(s, i + 1) + 1, depth)
       [] c = "(" -> Closing(s, i + 1, depth + 1)
       [] c = ")" -> IF depth = 1 THEN i ELSE Closing(s, i + 1, depth - 1)
       [] OTHER -> Closing(s, i + 1, depth)

\* The body stays raw source: the subshell that runs it reads it again.
readCmdSub(s, i) ==
  LET end == Closing(s, i, 1)
  IN IF end > Len(s) THEN Refused ELSE Got(end + 1, Part("cmdsub", SubSeq(s, i, end - 1)))

\* i is the index of the `$`.
readVar(s, i) ==
  LET next == at(s, i + 1)
      brace == Upto(s, i + 2, "}")
      braced == SubSeq(s, i + 2, brace - 1)
      end == Past(s, i + 1, isNameChar)
  IN CASE next = "(" -> IF at(s, i + 2) = "(" THEN Refused ELSE readCmdSub(s, i + 2)
       [] next \in SPECIAL_PARAMS \cup Digits -> Refused
       [] next = "?" -> Got(i + 2, Part("var", <<"?">>))
       [] next = "{" -> IF brace > Len(s) \/ ~isPlainName(braced) THEN Refused
                        ELSE Got(brace + 1, Part("var", braced))
       [] next \in Letters -> Got(end, Part("var", SubSeq(s, i + 1, end - 1)))
       [] OTHER -> Got(i + 1, Part("lit", <<"$">>))

\* A word being read: its parts, and the run of plain characters not yet made
\* a part; the run is a pattern as a whole when one of them is a `*` or a `?`.
NoWord == [parts |-> <<>>, buf |-> <<>>, bufGlob |-> FALSE]
flush(w) == IF w.buf = <<>> THEN w
            ELSE [NoWord EXCEPT !.parts =
                    Append(w.parts, Part(IF w.bufGlob THEN "glob" ELSE "lit", w.buf))]
WithPart(w, part) == [flush(w) EXCEPT !.parts = Append(@, part)]
WithChar(w, c) == [w EXCEPT !.buf = Append(@, c)]

\* Inside double quotes; i is past the opening one.
RECURSIVE readDouble(_, _, _)
readDouble(s, i, w) ==
  LET c == at(s, i)
      esc == at(s, i + 1)
      var == readVar(s, i)
  IN CASE c \in {"", Backquote} -> Refused
       [] c = "\"" -> Got(i + 1, flush(w))
       [] c = "$" -> IF var.bad THEN Refused ELSE readDouble(s, var.i, WithPart(w, var.got))
       [] c = "\\" -> (CASE esc = "" -> Refused
                         [] esc = "\n" -> readDouble(s, i + 2, w)
                         [] esc \in {"\"", "$", "\\", Backquote} -> readDouble(s, i + 2, WithChar(w, esc))
                         [] OTHER -> readDouble(s, i + 1, WithChar(w, c)))
       [] OTHER -> readDouble(s, i + 1, WithChar(w, c))

RECURSIVE readWordFrom(_, _, _)
readWordFrom(s, i, w) ==
  LET c == at(s, i)
      esc == at(s, i + 1)
      quote == Upto(s, i + 1, "'")
      double == readDouble(s, i + 1, flush(w))
      var == readVar(s, i)
  IN CASE c \in {""} \cup isWhitespace \cup isOperatorChar -> Got(i, flush(w).parts)
       [] c = Backquote -> Refused
       [] c = "\\" -> (CASE esc = "" -> Refused
                         [] esc = "\n" -> readWordFrom(s, i + 2, w)
                         [] esc \in Metas -> readWordFrom(s, i + 2, WithPart(w, Part("lit", <<esc>>)))
                         [] OTHER -> readWordFrom(s, i + 2, WithChar(w, esc)))
       [] c = "'" -> IF quote > Len(s) THEN Refused
                     ELSE readWordFrom(s, quote + 1, WithPart(w, Part("lit", SubSeq(s, i + 1, quote - 1))))
       [] c = "\"" -> IF double.bad THEN Refused ELSE readWordFrom(s, double.i, double.got)
       [] c = "$" -> IF esc = "'" \/ var.bad THEN Refused
                     ELSE readWordFrom(s, var.i, WithPart(w, var.got))
       [] OTHER -> readWordFrom(s, i + 1, [WithChar(w, c) EXCEPT !.bufGlob = @ \/ c \in Metas])

readWord(s, i) == readWordFrom(s, i, NoWord)

-----------------------------------------------------------------------------
(* Redirects and tokens *)

\* Number(digits) as far as the shell tells numbers apart: 3 is any other fd.
FdOf(digits) ==
  LET zeros == \A k \in 1 .. Len(digits) - 1 : digits[k] = "0"
  IN CASE zeros /\ Last(digits) = "0" -> 0
       [] zeros /\ Last(digits) = "1" -> 1
       [] zeros /\ Last(digits) = "2" -> 2
       [] OTHER -> 3

Redirection(fd, op) == [type |-> "redirect", fd |-> fd, op |-> op, both |-> FALSE]
Dup(fd, from) == [type |-> "dup", fd |-> fd, from |-> from]

\* i is past the `>&`.
readDup(s, i, fd) ==
  LET end == Past(s, i, Digits)
      from == FdOf(SubSeq(s, i, end - 1))
  IN IF /\ end > i
        /\ from \in {1, 2}
        /\ at(s, end) \in {""} \cup isWhitespace \cup isOperatorChar
     THEN Got(end, Dup(fd, from))
     ELSE Refused

\* i is the index of the `<` or the `>`.
readRedirect(s, i, fd) ==
  CASE at(s, i) = "<" -> IF fd = 0 THEN Got(i + 1, Redirection(0, "<")) ELSE Refused
    [] at(s, i) = ">" ->
         CASE fd \notin {1, 2} -> Refused
           [] fd \in {1, 2} /\ at(s, i + 1) = ">" ->
                IF at(s, i + 2) = "&" THEN Refused ELSE Got(i + 2, Redirection(fd, ">>"))
           [] fd \in {1, 2} /\ at(s, i + 1) = "&" -> readDup(s, i + 2, fd)
           [] OTHER -> Got(i + 1, Redirection(fd, ">"))

\* `&>` and `&>>`: the redirect of fd 1, marked so that fd 2 follows it.
readBoth(s, i) ==
  LET r == readRedirect(s, i, 1)
  IN IF r.bad \/ r.got.type # "redirect" THEN Refused ELSE Got(r.i, [r.got EXCEPT !.both = TRUE])

Op(value) == [type |-> "op", value |-> value]
Refusal == [type |-> "refused"]

\* The tokens from i on; a refusal ends them.
RECURSIVE tokensFrom(_, _)
tokensFrom(s, i) ==
  LET c == at(s, i)
      next == at(s, i + 1)
      end == Past(s, i, Digits)
      isFd == c \in Digits /\ at(s, end) \in {"<", ">"}
      continued == c = "\\" /\ next = "\n"
      word == readWord(s, i)
      After(r) == IF r.bad THEN <<Refusal>> ELSE <<r.got>> \o tokensFrom(s, r.i)
  IN CASE c = "" -> <<>>
       [] c \in isWhitespace -> tokensFrom(s, i + 1)
       [] continued -> tokensFrom(s, i + 2)
       [] c = "#" -> tokensFrom(s, Upto(s, i, "\n"))
       [] isFd -> After(readRedirect(s, end, FdOf(SubSeq(s, i, end - 1))))
       [] c = "|" -> IF next = "|" THEN After(Got(i + 2, Op("||"))) ELSE After(Got(i + 1, Op("|")))
       [] c = "&" -> (CASE next = "&" -> After(Got(i + 2, Op("&&")))
                        [] next = ">" -> After(readBoth(s, i + 1))
                        [] OTHER -> After(Got(i + 1, Op("&"))))
       [] c = ";" -> After(Got(i + 1, Op(";")))
       [] c = "<" -> After(readRedirect(s, i, 0))
       [] c = ">" -> After(readRedirect(s, i, 1))
       [] OTHER -> IF word.bad THEN <<Refusal>>
                   ELSE <<[type |-> "word", parts |-> word.got]>> \o tokensFrom(s, word.i)

tokenize(s) == tokensFrom(s, 1)
Readable(tokens) == \A k \in DOMAIN tokens : tokens[k].type # "refused"

-----------------------------------------------------------------------------
(* The parser *)

\* A command of the tokens between two operators: the words that are no
\* redirect's target, and the redirects in order, `&>f` being `>f 2>&1`.
parseCommand(seg) ==
  LET isTarget(k) == k > 1 /\ seg[k - 1].type = "redirect"
      dup(fd, from) == [fd |-> fd, op |-> ">&", from |-> from]
      OfToken(k) ==
        CASE seg[k].type = "dup" -> <<dup(seg[k].fd, seg[k].from)>>
          [] seg[k].type = "redirect" ->
               <<[fd |-> seg[k].fd, op |-> seg[k].op, target |-> seg[k + 1].parts]>>
               \o (IF seg[k].both THEN <<dup(2, 1)>> ELSE <<>>)
          [] OTHER -> <<>>
  IN [words |-> FlattenSeq([k \in DOMAIN seg |->
                  IF seg[k].type = "word" /\ ~isTarget(k) THEN <<seg[k].parts>> ELSE <<>>]),
      redirects |-> FlattenSeq([k \in DOMAIN seg |-> OfToken(k)])]

wellFormed(seg) ==
  /\ \A k \in DOMAIN seg : seg[k].type = "redirect" => k < Len(seg) /\ seg[k + 1].type = "word"
  /\ \E k \in DOMAIN seg : seg[k].type = "word" /\ (k = 1 \/ seg[k - 1].type # "redirect")

\* The tokens between the operator at k, or the start, and the next one.
Segment(body, ops, k) == SubSeq(body, k + 1, Min({j \in ops : j > k} \cup {Len(body) + 1}) - 1)

\* The commands of the pipeline that starts at h: the tokens between the
\* operators from there to the next that is no pipe.
StagesOf(body, ops, h) ==
  LET last == Min({j \in ops : j > h /\ body[j].value # "|"} \cup {Len(body) + 1})
      stages == SetToSortSeq({k \in {0} \cup ops : h <= k /\ k < last}, <)
  IN [n \in DOMAIN stages |-> parseCommand(Segment(body, ops, stages[n]))]

ItemsOf(body, ops) ==
  LET heads == SetToSortSeq({k \in {0} \cup ops : k = 0 \/ body[k].value # "|"}, <)
  IN [n \in DOMAIN heads |-> [op |-> IF heads[n] = 0 THEN "" ELSE body[heads[n]].value,
                              commands |-> StagesOf(body, ops, heads[n])]]

Listed(body, ops, background) ==
  IF /\ Readable(body)
     /\ \A k \in ops : body[k].value # "&"
     /\ \A k \in {0} \cup ops : wellFormed(Segment(body, ops, k))
  THEN [bad |-> FALSE, items |-> ItemsOf(body, ops), background |-> background]
  ELSE [bad |-> TRUE, items |-> <<>>, background |-> FALSE]

OpsOf(body) == {k \in DOMAIN body : body[k].type = "op"}

\* The line as a list: items of [op, commands], or a refusal. `&` may only end
\* the line, `;` may also end it, any other operator needs a command after it.
parseTokens(tokens) ==
  CASE tokens = <<>> -> [bad |-> FALSE, items |-> <<>>, background |-> FALSE]
    [] tokens # <<>> /\ Last(tokens) \in {Op(";"), Op("&")} ->
         Listed(Front(tokens), OpsOf(Front(tokens)), Last(tokens) = Op("&"))
    [] OTHER -> Listed(tokens, OpsOf(tokens), FALSE)
parse(s) == parseTokens(tokenize(s))
=============================================================================
