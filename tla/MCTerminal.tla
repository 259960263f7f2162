---- MODULE MCTerminal ----
(* A terminal of three columns and, on the VM kernel, two mounts one after the other or at once.                      *)
EXTENDS TerminalPanel, FiniteSets, Sequences
CONSTANTS t1, t2

Keys == {"a", "W", " ", "enter", "backspace", "delete", "left", "right", "home", "end", "up", "down", "interrupt", "tab", "other"}
MCPastes == {<<k>> : k \in Keys} \cup {<<"a", "enter", "W">>, <<"a", "enter", "a", "enter", "left">>}
MCPrompt == <<"$">>
MCCandidates(kind, token) ==
    IF kind = "command" THEN {<<"a", "W">>, <<"a", "a">>}
    ELSE IF Len(token) > 1 /\ token[1] = "a" THEN {<<"W">>} ELSE {<<"a", "/">>, <<"W", "a">>, <<"W", "W">>}
MCSubmitted == {<<"a">>, <<"a", "W", "W">>}

Holding == {t \in Terminal : term[t].pc \in {"opening", "open"}}

\* Bounds: a second command is run while the keys are counted; keys and output, of one terminal, are looked at apart, and
\* neither while two terminals hold a port or after a shutdown; with a second terminal there is one key at most.
Few ==
    LET keys == term[t1].typed + term[t2].typed
        prints == printed[t1] + printed[t2]
    IN  /\ Len(d.history) = 2 => typed # <<"many">>
        /\ term[t2].pc # "off" => term[t1].pc # "off" /\ keys <= 1
        /\ Cardinality(Holding) = 2 => keys = 0 /\ prints = 0
        /\ prints = 0 \/ (keys = 0 /\ prints = 1)
        /\ ~alive => keys = 0 /\ prints = 0 /\ term[t2].pc = "off"

MCNext == (Discipline /\ Few') \/ (Pty /\ Few')

MCSpec == Init /\ [][MCNext]_vars /\ Timers
====
