---- MODULE MCWireCodecs ----
(* The wires of the runs: three WebSocket frames out of a vocabulary, longer ones apart; three chunks; noise and frames; events. *)
EXTENDS WireCodecs

Frame(fin, op, data) == [fin |-> fin, op |-> op, data |-> data, form |-> 0, flaw |-> ""]
As(n) == [i \in 1 .. n |-> 65]
Of(kind, items) == [kind |-> kind, items |-> items]

\* One character of two bytes in one frame, over two, and cut short.
Frames ==
    {Frame(fin, op, data) : fin \in BOOLEAN, op \in {OP_CONT, OP_TEXT}, data \in {<<195, 169>>, <<195>>, <<169>>}}
    \cup {Frame(fin, OP_BINARY, <<195>>) : fin \in BOOLEAN} \cup {Frame(fin, OP_PING, <<65>>) : fin \in BOOLEAN}
    \cup {Frame(TRUE, OP_CLOSE, data) : data \in {<<>>, <<3>>, <<3, 232>>, <<3, 232, 195>>}}
    \cup {Frame(TRUE, OP_PONG, <<>>), Frame(TRUE, 3, <<>>), [Frame(TRUE, OP_TEXT, <<65>>) EXCEPT !.flaw = "rsv"], [Frame(TRUE, OP_TEXT, <<65>>) EXCEPT !.flaw = "masked"]}

Wide == {[Frame(TRUE, op, As(n)) EXCEPT !.form = form] : op \in {OP_BINARY, OP_PING}, n \in {125, 126, 257}, form \in {2, 8}} \cup {Frame(TRUE, OP_PING, As(125))}

Chunk(size, line, data) == [size |-> size, line |-> line, data |-> data]
Chunks == {Chunk(1, <<49>>, <<48>>), Chunk(2, <<50, 59, 49>>, NL), Chunk(16, <<49, 48>>, As(16)), Chunk(0, <<48>>, <<>>), Chunk(-1, <<120>>, <<>>)}

Noise(n) == [noise |-> n, type |-> 0, id |-> 0, body |-> <<>>]
GuestFrame(type, id, body) == [noise |-> <<>>, type |-> type, id |-> id, body |-> body]
GuestItems == {Noise(<<94, 64>>), Noise(<<94, 64, 94, 69, 82>>), Noise(<<79>>), GuestFrame(82, 0, <<>>), GuestFrame(79, 300, <<0, 0, 0, 5, 82>>), GuestFrame(88, 7, <<94>>)}

Event(lines, means) == {[lines |-> lines, nl |-> nl, means |-> means] : nl \in {<<LF>>, NL, <<CR>>}}
Events ==
    Event(<<<<DATA, 97>>>>, <<97>>) \cup Event(<<<<DATA, SPACE, SPACE, 97>>, <<2, 98>>, <<DATA, 99>>>>, <<SPACE, 97, LF, 99>>)
    \cup Event(<<<<2, 97>>>>, <<>>) \cup Event(<<<<DATA>>>>, <<>>)

Upto(S, n) == UNION {[1 .. k -> S] : k \in 1 .. n}

MCWires ==
    {Of("ws", i) : i \in Upto(Frames, 3)} \cup {Of("ws", <<f, Frame(TRUE, OP_TEXT, <<65>>)>>) : f \in Wide}
    \cup {Of("chunked", i) : i \in {c \in Upto(Chunks, 3) : \A j \in 1 .. Len(c) - 1 : c[j].size > 0}}
    \cup {Of("guestd", i) : i \in {g \in Upto(GuestItems, 3) : g[Len(g)].noise = <<>>}} \cup {Of("sse", i) : i \in Upto(Events, 2)}

Init == InitOn(MCWires)
====
