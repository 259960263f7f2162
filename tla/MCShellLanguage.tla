-------------------------- MODULE MCShellLanguage --------------------------
(* Quoting marks one at a time, and commands in fragments; two programs, a directory, names worth matching. *)
EXTENDS SequencesExt
VARIABLES vocabulary, line, typed, world

Quoting == {<<"a">>, <<"*">>, <<"?">>, <<"\\">>, <<"'">>, <<"\"">>, <<"#">>, <<" ">>, <<"\n">>}
Redirects == {<<"p", " ">>, <<"q", " ">>, <<">", "a">>, <<">", ">", "a">>, <<"2", ">", "b">>, <<"2", ">", "&", "1">>,
              <<"1", ">", "&", "2">>, <<" ", "|">>, <<"<", "a">>}
Lists == {<<"p", " ">>, <<"q", " ">>, <<"&", ">", "a">>, <<">", "N">>, <<"&", "&">>, <<"|", "|">>, <<"$", "(">>, <<")">>,
          <<"$", "?">>, <<"c", "d", " ", "d", ";">>, <<"\"", "$", "a", "\"">>}
Vocabularies == {[pieces |-> Quoting, most |-> 5], [pieces |-> Redirects, most |-> 5], [pieces |-> Lists, most |-> 4]}

\* p writes to both fds and to the first again; q writes what it read, and fails.
Writes(argv, stdin) ==
  IF argv[1] = <<"p">> THEN <<<<1, <<"x">>>>, <<2, <<"y">>>>, <<1, FlattenSeq(Tail(argv)) \o <<"\n">>>>>>
  ELSE <<<<2, <<"z">>>>, <<1, stdin>>>>
Code(argv) == IF argv[1] = <<"p">> THEN 0 ELSE 1

Entries == {<<<<"a">>>>, <<<<"a", "a">>>>, <<<<".", "a">>>>, <<<<"*">>>>, <<<<"\\">>>>, <<<<"\\", "a">>>>,
            <<<<"d">>, <<"b">>>>}
Files == [p \in Entries \cup {<<>>, <<<<"d">>>>} |->
              IF p \in Entries THEN [dir |-> FALSE, data |-> <<"0">>] ELSE [dir |-> TRUE]]
Worlds == {[cwd |-> <<>>, env |-> [n \in {<<"a">>} |-> <<"b">>], last |-> 0, files |-> Files, out |-> <<>>, err |-> <<>>]}

S == INSTANCE ShellLanguage WITH
       Letters <- {"a", "b", "c", "d", "p", "q", "N"},
       Collation <- <<"!", "#", "*", ".", "/", "?", "N", "\\", "a", "b", "d", "p", "q">>,
       DevNull <- <<<<"N">>>>, Programs <- {<<"p">>, <<"q">>}, MAX_SUBSTITUTION_DEPTH <- 1

Init == S!Init

\* Bound: a line of quoting marks is read and expanded as it is typed, and not entered.
Next == (\E piece \in vocabulary.pieces : S!Type(piece)) \/ (vocabulary.pieces # Quoting /\ S!Enter)
=============================================================================
