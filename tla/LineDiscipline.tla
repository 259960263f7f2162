---- MODULE LineDiscipline ----
(* The browser kernel's terminal: ShellLineDiscipline of apps/web/src/lib/shell-terminal.ts edits a line on a screen  *)
(* that wraps, and keeps what is typed while a command runs.  The terminal it writes to (xterm) is modelled from the  *)
(* escape sequences it is sent.  A glyph is one code point; colours and the columns of a listing are left out.        *)
EXTENDS Naturals, FiniteSetsExt, SequencesExt

CONSTANTS
    Cols,           \* width of the terminal
    Prompt,         \* the glyphs of the prompt
    Glyph, Wide,    \* what can be typed; the glyphs of two cells
    Space, Slash,
    Candidates(_, _),   \* the completion source: the names for a kind and a token
    Pastes,         \* what arrives in one piece: sequences of keys
    Submitted,      \* bound: the lines that are run
    MaxLine, MaxHistory, MaxAhead,  \* bounds: glyphs of a line, runs, keys typed ahead
    Counted, MaxTyped   \* bounds: the keys of which the order is looked at, and their number

VARIABLES
    d,              \* the discipline and the screen it writes
    typed           \* every key since the start, up to MaxTyped and of Counted; "many" beyond

vars == <<d, typed>>

----
(* The terminal: rows of cells, the row and column of the cursor.  Column Cols is the pending wrap. *)

Width(g) == IF g \in Wide THEN 2 ELSE 1

Above == <<"=">>    \* the last row above the prompt
Fresh == [rows |-> <<Above, <<>>>>, row |-> 2, col |-> 0]

Row(s, r) == IF r <= Len(s.rows) THEN s.rows[r] ELSE <<>>
WithRow(s, r, cells) == [i \in 1 .. Max({r, Len(s.rows)}) |-> IF i = r THEN cells ELSE Row(s, i)]

\* Cells from a column on are overwritten; a wide glyph takes a second one.
Overwritten(cells, col, g) ==
    LET new == IF g \in Wide THEN <<g, "~">> ELSE <<g>> IN
    [i \in 1 .. Max({Len(cells), col + Len(new)}) |->
        IF i > col /\ i <= col + Len(new) THEN new[i - col] ELSE IF i <= Len(cells) THEN cells[i] ELSE Space]

Put(s, g) ==
    LET wraps == s.col + Width(g) > Cols
        r == IF wraps THEN s.row + 1 ELSE s.row
        c == IF wraps THEN 0 ELSE s.col
    IN  [rows |-> WithRow(s, r, Overwritten(Row(s, r), c, g)), row |-> r, col |-> c + Width(g)]

Written(s, text) == FoldLeft(Put, s, text)
CarriageReturn(s) == [s EXCEPT !.col = 0]
Backspace(s) == [s EXCEPT !.col = IF @ = 0 THEN 0 ELSE @ - 1]
Up(s, n) == [s EXCEPT !.row = IF @ > n THEN @ - n ELSE 1]
Down(s, n) == [s EXCEPT !.row = @ + n, !.rows = WithRow(s, s.row + n, Row(s, s.row + n))]
Forward(s, n) == [s EXCEPT !.col = Min({@ + n, Cols - 1})]

\* ERASE_ROW, then ERASE_ROW_ABOVE for every other row.
Erased(s, rows) ==
    [CarriageReturn(s) EXCEPT !.row = IF s.row > rows THEN s.row - rows + 1 ELSE 1,
        !.rows = [i \in DOMAIN s.rows |-> IF i <= s.row /\ i > s.row - rows THEN <<>> ELSE s.rows[i]]]

\* "\r\n": a row of its own below all the others is where everything above is history.
NewLine(s) ==
    IF \A r \in s.row + 1 .. Len(s.rows) : s.rows[r] = <<>> THEN Fresh ELSE [s EXCEPT !.row = @ + 1, !.col = 0]

----
(* The line on the screen. *)

\* layout: the rows of a text, and the column behind it.
layout(text) ==
    FoldLeft(LAMBDA p, g : IF p.col + Width(g) > Cols THEN [row |-> p.row + 1, col |-> Width(g)] ELSE [p EXCEPT !.col = @ + Width(g)],
             [row |-> 1, col |-> 0], text)

screenLayout(x) == layout(Prompt \o x.line)

physPos(x, c) ==
    LET p == layout(Prompt \o SubSeq(x.line, 1, c)) IN
    IF p.col = Cols /\ c < Len(x.line) THEN [row |-> p.row + 1, col |-> 0] ELSE p

moveReachable(x, s, from, to) ==
    LET a == physPos(x, from)
        b == physPos(x, to)
        cr == CarriageReturn(s)
    IN  Forward(IF b.row < a.row THEN Up(cr, a.row - b.row) ELSE Down(cr, b.row - a.row), b.col)

\* The position behind a full row is reached by writing its last glyph again.
moveCursor(x, s, from, to) ==
    IF from = to THEN s
    ELSE IF to = Len(x.line) /\ x.line # <<>> /\ screenLayout(x).col = Cols
    THEN Put(moveReachable(x, s, from, to - 1), Last(x.line))
    ELSE moveReachable(x, s, from, to)

cursorTo(x, to) ==
    LET c == Min({to, Len(x.line)}) IN [x EXCEPT !.screen = moveCursor(x, @, x.cursor, c), !.cursor = c]

\* Down to the last row of the line as it was, and up again over all of them.
Wiped(old) ==
    LET rows == screenLayout(old).row
        below == rows - physPos(old, old.cursor).row
    IN  Erased(Down(old.screen, below), rows)

\* snapshotForRedraw and redraw, for an edit that leaves the given line and cursor.
redraw(old, line, cursor) ==
    LET new == [old EXCEPT !.line = line, !.cursor = cursor] IN
    [new EXCEPT !.screen = moveCursor(new, Written(Wiped(old), Prompt \o line), Len(line), cursor)]

replaceLine(x, text) == [x EXCEPT !.line = text, !.cursor = Len(text), !.screen = Written(Wiped(x), Prompt \o text)]

----
(* Keys. *)

\* A glyph, or what a completion adds: echoed at the end, redrawn within the line.
insert(x, text) ==
    IF x.cursor = Len(x.line)
    THEN [x EXCEPT !.line = @ \o text, !.cursor = @ + Len(text), !.screen = Written(@, text)]
    ELSE redraw(x, SubSeq(x.line, 1, x.cursor) \o text \o SubSeq(x.line, x.cursor + 1, Len(x.line)), x.cursor + Len(text))

Erase(s, n) == IF n = 0 THEN s ELSE Backspace(Put(Backspace(s), Space))

\* mutant: a wrapped line is erased in place like any other.
rubOutInPlace(x) ==
    IF x.cursor = 0 THEN x
    ELSE IF x.cursor < Len(x.line) THEN redraw(x, RemoveAt(x.line, x.cursor), x.cursor - 1)
    ELSE [x EXCEPT !.line = Front(@), !.cursor = @ - 1,
            !.screen = IF Width(Last(x.line)) = 2 THEN Erase(Erase(@, 1), 1) ELSE Erase(@, 1)]

\* Backspace.
rubOut(x) ==
    IF x.cursor = 0 THEN x
    ELSE IF x.cursor < Len(x.line) THEN redraw(x, RemoveAt(x.line, x.cursor), x.cursor - 1)
    ELSE LET before == screenLayout(x)
             line == Front(x.line)
             inPlace == before.row = 1 /\ before.col < Cols
         IN  [x EXCEPT !.line = line, !.cursor = Len(line),
                !.screen = IF ~inPlace THEN Written(Erased(@, before.row), Prompt \o line)
                           ELSE IF Width(Last(x.line)) = 2 THEN Erase(Erase(@, 1), 1) ELSE Erase(@, 1)]

deleteAtCursor(x) == IF x.cursor = Len(x.line) THEN x ELSE redraw(x, RemoveAt(x.line, x.cursor + 1), x.cursor)

\* historyMove: recalled is 0 for the line that is edited.
Older(x) ==
    IF x.history = <<>> THEN x
    ELSE LET i == IF x.recalled = 0 THEN Len(x.history) ELSE Max({1, x.recalled - 1})
         IN  [replaceLine(x, x.history[i]) EXCEPT !.recalled = i]

Newer(x) ==
    IF x.recalled = 0 THEN x
    ELSE IF x.recalled = Len(x.history) THEN [replaceLine(x, <<>>) EXCEPT !.recalled = 0]
    ELSE [replaceLine(x, x.history[x.recalled + 1]) EXCEPT !.recalled = @ + 1]

LastOf(seq, g) == Max({0} \cup {i \in DOMAIN seq : seq[i] = g})

commonPrefix(names) ==
    LET n == CHOOSE n \in names : TRUE IN
    SubSeq(n, 1, Max({k \in 0 .. Len(n) : \A m \in names : IsPrefix(SubSeq(n, 1, k), m)}))

\* A listing ends on a row of its own; the line is written again below it.
listCandidates(x) ==
    [x EXCEPT !.screen = moveCursor(x, Written(NewLine(NewLine(moveCursor(x, @, x.cursor, Len(x.line)))), Prompt \o x.line), Len(x.line), x.cursor)]

\* Tab: the token before the cursor; the first of a line is a command.
complete(x, wasTab) ==
    LET before == SubSeq(x.line, 1, x.cursor)
        start == LastOf(before, Space)
        token == SubSeq(before, start + 1, x.cursor)
        kind == IF \A i \in 1 .. start : before[i] = Space THEN "command" ELSE "path"
        base == IF kind = "path" THEN SubSeq(token, LastOf(token, Slash) + 1, Len(token)) ELSE token
        matches == {n \in Candidates(kind, token) : IsPrefix(base, n)}
        rest(n) == SubSeq(n, Len(base) + 1, Len(n))
    IN  IF matches = {} THEN x
        ELSE IF Cardinality(matches) = 1
        THEN LET n == CHOOSE n \in matches : TRUE IN
             IF n # <<>> /\ Last(n) = Slash /\ rest(n) = <<>> THEN x ELSE insert(x, rest(n) \o IF n # <<>> /\ Last(n) = Slash THEN <<>> ELSE <<Space>>)
        ELSE IF rest(commonPrefix(matches)) # <<>> THEN insert(x, rest(commonPrefix(matches)))
        ELSE IF wasTab THEN listCandidates(x) ELSE x

Trimmed(line) ==
    LET ink == {i \in DOMAIN line : line[i] # Space} IN IF ink = {} THEN <<>> ELSE SubSeq(line, Min(ink), Max(ink))

\* A fresh prompt on a row of its own.
Prompted(x, s) == [x EXCEPT !.line = <<>>, !.cursor = 0, !.recalled = 0, !.screen = Written(s, Prompt)]

AtEnd(x) == moveCursor(x, x.screen, x.cursor, Len(x.line))

Enter(x) ==
    LET cmd == Trimmed(x.line) IN
    IF cmd = <<>> THEN Prompted(x, NewLine(AtEnd(x)))
    ELSE [x EXCEPT !.line = <<>>, !.cursor = 0, !.recalled = 0, !.screen = NewLine(AtEnd(x)),
            !.history = Append(@, cmd), !.busy = TRUE]

CtrlC(x) == Prompted(x, NewLine(Written(AtEnd(x), <<"^", "C">>)))

\* One key of process.
Pressed(x, k) ==
    LET y == [x EXCEPT !.tab = FALSE] IN
    CASE k = "enter" -> Enter(y)
      [] k = "backspace" -> rubOut(y)
      [] k = "delete" -> deleteAtCursor(y)
      [] k = "left" -> cursorTo(y, IF y.cursor = 0 THEN 0 ELSE y.cursor - 1)
      [] k = "right" -> cursorTo(y, y.cursor + 1)
      [] k = "home" -> cursorTo(y, 0)
      [] k = "end" -> cursorTo(y, Len(y.line))
      [] k = "up" -> Older(y)
      [] k = "down" -> Newer(y)
      [] k = "interrupt" -> CtrlC(y)
      [] k = "tab" -> [complete(y, x.tab) EXCEPT !.tab = TRUE]
      [] k \in Glyph -> insert(y, <<k>>)
      [] OTHER -> y

\* process: what follows a line that is run is typed ahead.
process(x, keys) ==
    FoldLeft(LAMBDA y, k : IF y.busy THEN [y EXCEPT !.ahead = Append(@, k)] ELSE Pressed(y, k), x, keys)

----
Start == [line |-> <<>>, cursor |-> 0, recalled |-> 0, tab |-> FALSE, history |-> <<>>, busy |-> FALSE, ahead |-> <<>>,
          screen |-> Written(Fresh, Prompt)]

Init == d = Start /\ typed = <<>>

Bounded(x) ==
    /\ Len(x.line) <= MaxLine /\ Len(x.history) <= MaxHistory /\ Len(x.ahead) <= MaxAhead
    /\ ToSet(x.history) \subseteq Submitted

\* data: a key or a paste.
Data(keys) ==
    /\ d' = process(d, keys) /\ Bounded(d')
    /\ typed' = IF typed = <<"many">> \/ Len(typed) + Len(keys) > MaxTyped \/ ~(ToSet(keys) \subseteq Counted) THEN <<"many">> ELSE typed \o keys

\* commandDone: each of stdout, stderr and the exit code ends a row if there is any; a prompt, and the type-ahead.
CommandDone ==
    /\ d.busy
    /\ d' = process([Prompted(d, d.screen) EXCEPT !.busy = FALSE, !.ahead = <<>>], d.ahead) /\ Bounded(d')
    /\ UNCHANGED typed

Next == CommandDone \/ \E keys \in Pastes : Data(keys)

Spec == Init /\ [][Next]_vars

----
Stripped(cells) == SubSeq(cells, 1, Max({0} \cup {i \in DOMAIN cells : cells[i] # Space}))
Strip(rows) == [i \in DOMAIN rows |-> Stripped(rows[i])]

\* Where the glyph behind the cursor lies when the line is written from nothing, or the cell an early wrap leaves before it.
Shown(x) == Written(Written(Fresh, Prompt), x.line)
Cell(x) ==
    LET before == Written(Written(Fresh, Prompt), SubSeq(x.line, 1, x.cursor)) IN
    IF before.col = Cols /\ x.cursor < Len(x.line) THEN <<before.row + 1, 0>> ELSE <<before.row, before.col>>

\* After every key the screen shows the prompt and the line, nothing of an earlier state of it, with the cursor where
\* the next key takes effect, and no row above the prompt is touched ("erase EVERY wrapped row before redrawing
\* instead of leaving stale rows behind"); a command's output begins on a row of its own.
ScreenTrue ==
    IF d.busy THEN d.screen = Fresh
    ELSE /\ LET rows == Strip(d.screen.rows)
                shown == Strip(Shown(d).rows)
            IN  \A i \in 1 .. Max({Len(rows), Len(shown)}) :
                    (IF i \in DOMAIN rows THEN rows[i] ELSE <<>>) = (IF i \in DOMAIN shown THEN shown[i] ELSE <<>>)
         /\ <<d.screen.row, d.screen.col>> = Cell(d)

Edited(x) == <<x.line, x.cursor, x.history, x.recalled>>

\* Keys typed while a command runs, be it in one piece or one by one and behind several commands, edit and run what
\* they would have with no command in the way: each key counts once, in its order.
KeysInOrder ==
    typed # <<"many">> =>
        LET done == SubSeq(typed, 1, Len(typed) - Len(d.ahead))
            patient == FoldLeft(LAMBDA x, k : [Pressed(x, k) EXCEPT !.busy = FALSE], Start, done)
        IN  Edited(d) = Edited(patient) /\ d.ahead = SubSeq(typed, Len(done) + 1, Len(typed)) /\ (d.ahead # <<>> => d.busy)
====
