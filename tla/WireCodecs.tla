---- MODULE WireCodecs ----
(* Four decoders that are pushed the pieces of a byte stream, however it is cut: WebSocket frames from a server        *)
(* (packages/runtime-vm/src/ws-codec.ts), chunked bodies (http-codec.ts), guestd's frames after the noise of a tty      *)
(* (guestd-protocol.ts) and server-sent events (packages/model-gateway/src/sse.ts).  A wire is a sequence of items as   *)
(* their peer means them, with their bytes; s is a decoder's state, with what the current push has given and whether    *)
(* it has thrown.                                                                                                       *)
EXTENDS Integers, Sequences, FiniteSets, SequencesExt

CR == 13
LF == 10
NL == <<CR, LF>>

Drop(b, n) == SubSeq(b, n + 1, Len(b))
Take(b, n) == SubSeq(b, 1, n)
Given(s, e) == [s EXCEPT !.out = Append(@, e)]
Thrown(s) == [s EXCEPT !.err = TRUE]

----
(* WsFrameParser *)

OP_CONT == 0
OP_TEXT == 1
OP_BINARY == 2
OP_CLOSE == 8
OP_PING == 9
OP_PONG == 10
Control == {OP_CLOSE, OP_PING, OP_PONG}
DataOps == {OP_TEXT, OP_BINARY}
None == -1

\* UTF-8 of what the wires hold: ASCII, and the two bytes of one character.
utf8(b) == \A i \in DOMAIN b : (b[i] = 195 => i < Len(b) /\ b[i + 1] = 169) /\ (b[i] = 169 => i > 1 /\ b[i - 1] = 195)

\* tryReadFrame: "wait", "bad" or a frame and the rest; lengths of 64 bits beyond any wire wait.
tryReadFrame(b) ==
    LET short == b[2] % 128
        off == IF short = 126 THEN 4 ELSE IF short = 127 THEN 10 ELSE 2
        far == short = 127 /\ \E i \in 3 .. 8 : b[i] # 0
        len == IF short = 126 THEN b[3] * 256 + b[4] ELSE IF short = 127 THEN b[9] * 256 + b[10] ELSE short
        is(what) == [is |-> what]
    IN  IF Len(b) < 2 THEN is("wait")
        ELSE IF (b[1] \div 16) % 8 # 0 \/ b[2] >= 128 THEN is("bad")
        ELSE IF Len(b) < off THEN is("wait")
        ELSE IF short = 127 /\ (b[3] > 0 \/ b[4] >= 32) THEN is("bad")
        ELSE IF far \/ Len(b) < off + len THEN is("wait")
        ELSE [is |-> "frame", fin |-> b[1] >= 128, op |-> b[1] % 16, data |-> SubSeq(b, off + 1, off + len), rest |-> Drop(b, off + len)]

Complete(s, op, data) == IF op = OP_TEXT /\ ~utf8(data) THEN Thrown(s) ELSE Given(s, [op |-> op, data |-> data])

LegalControl(f) == f.fin /\ Len(f.data) <= 125 /\ (f.op = OP_CLOSE => Len(f.data) # 1 /\ utf8(Drop(f.data, 2)))

\* mutant: a control frame between two fragments ends the message they belong to.
controlEnds(s, f) == IF LegalControl(f) THEN [Given(s, [op |-> f.op, data |-> f.data]) EXCEPT !.fragOp = None] ELSE Thrown(s)

controlled(s, f) == IF LegalControl(f) THEN Given(s, [op |-> f.op, data |-> f.data]) ELSE Thrown(s)

\* One frame applied to the message in progress.
consume(s, f) ==
    CASE f.op \in Control -> controlled(s, f)
      [] f.op \in DataOps ->
           IF s.fragOp # None THEN Thrown(s)
           ELSE IF f.fin THEN Complete(s, f.op, f.data) ELSE [s EXCEPT !.fragOp = f.op, !.fragParts = f.data]
      [] f.op = OP_CONT ->
           IF s.fragOp = None THEN Thrown(s)
           ELSE IF f.fin THEN Complete([s EXCEPT !.fragOp = None, !.fragParts = <<>>], s.fragOp, s.fragParts \o f.data)
           ELSE [s EXCEPT !.fragParts = @ \o f.data]
      [] OTHER -> Thrown(s)

RECURSIVE WsPush(_)
WsPush(s) ==
    LET f == tryReadFrame(s.buf) IN
    IF f.is = "wait" \/ s.err THEN s
    ELSE IF f.is = "bad" THEN Thrown(s)
    ELSE WsPush(consume([s EXCEPT !.buf = f.rest], f))

----
(* ChunkedDecoder, and dechunk for a body that is there as a whole *)

findCrlf(b) == LET at == {i \in 1 .. Len(b) - 1 : b[i] = CR /\ b[i + 1] = LF} IN IF at = {} THEN 0 ELSE CHOOSE i \in at : \A j \in at : i <= j

\* parseInt(.., 16) of a size line up to its extension, which begins with 59; -1 for what is no number.  Digits are the
\* bytes 48 to 57 here.
sizeOf(line) ==
    LET semi == {i \in DOMAIN line : line[i] = 59}
        digits == {i \in DOMAIN line : \A j \in 1 .. i : line[j] \in 48 .. 57}
    IN  IF digits = {} THEN -1 ELSE FoldLeft(LAMBDA n, d : 16 * n + (d - 48), 0, Take(line, CHOOSE n \in digits : n + 1 \notin digits))

RECURSIVE ChunkPush(_)
ChunkPush(s) ==
    LET n == IF s.need < Len(s.buf) THEN s.need ELSE Len(s.buf)
        k == IF s.skip < Len(s.buf) THEN s.skip ELSE Len(s.buf)
        eol == findCrlf(s.buf)
        size == sizeOf(Take(s.buf, eol - 1))
    IN  IF s.done \/ s.err \/ s.buf = <<>> THEN s
        ELSE IF s.skip > 0 THEN ChunkPush([s EXCEPT !.skip = @ - k, !.buf = Drop(@, k)])
        ELSE IF s.need > 0 THEN
            ChunkPush([s EXCEPT !.out = @ \o Take(s.buf, n), !.need = @ - n, !.buf = Drop(@, n), !.skip = IF n = s.need THEN 2 ELSE 0])
        ELSE IF eol = 0 THEN s
        ELSE IF size < 0 THEN Thrown(s)
        ELSE IF size = 0 THEN [s EXCEPT !.done = TRUE, !.buf = <<>>]
        ELSE ChunkPush([s EXCEPT !.need = size, !.buf = Drop(@, eol + 1)])

RECURSIVE dechunk(_)
dechunk(b) ==
    LET eol == findCrlf(b)
        size == sizeOf(Take(b, eol - 1))
        rest == Drop(b, eol + 1)
    IN  IF eol = 0 \/ size <= 0 THEN <<>>
        ELSE IF size > Len(rest) THEN rest
        ELSE Take(rest, size) \o dechunk(Drop(rest, size + 2))

----
(* FrameReader *)

HEADER == 9
MIN_PAYLOAD == 5
MAX_PAYLOAD == 16 * 1024 * 1024
VALID_TYPES == {82, 83, 79, 69, 88, 80, 33, 120, 115, 107, 112, 105, 116, 84, 76}

U32(b, at) == ((b[at] * 256 + b[at + 1]) * 256 + b[at + 2]) * 256 + b[at + 3]

\* What does not look like a header is dropped byte by byte.
RECURSIVE FramePush(_)
FramePush(s) ==
    LET b == s.buf
        payloadLen == U32(b, 1)
    IN  IF Len(b) < 5 THEN s
        ELSE IF payloadLen < MIN_PAYLOAD \/ payloadLen > MAX_PAYLOAD \/ b[5] \notin VALID_TYPES THEN FramePush([s EXCEPT !.buf = Drop(b, 1)])
        ELSE IF Len(b) - 4 < payloadLen THEN s
        ELSE FramePush(Given([s EXCEPT !.buf = Drop(b, 4 + payloadLen)],
                             [type |-> b[5], id |-> U32(b, 6), body |-> SubSeq(b, HEADER + 1, 4 + payloadLen)]))

----
(* parseSSE; the byte DATA stands for "data:" at the head of a line, 2 for any other field *)

DATA == 1
SPACE == 32

StartsAt(b, i, p) == i + Len(p) - 1 <= Len(b) /\ SubSeq(b, i, i + Len(p) - 1) = p

Boundaries == {<<CR, LF, CR, LF>>, <<LF, LF>>, <<CR, CR>>}

RECURSIVE LinesOf(_)
LinesOf(b) ==
    LET at == {i \in DOMAIN b : b[i] \in {CR, LF}}
        i == CHOOSE i \in at : \A j \in at : i <= j
    IN  IF at = {} THEN <<b>> ELSE <<Take(b, i - 1)>> \o LinesOf(Drop(b, IF StartsAt(b, i, NL) THEN i + 1 ELSE i))

\* The text of an event's data lines, a line feed between two.
Joined(lines) == FoldLeft(LAMBDA a, l : a \o <<LF>> \o l, Head(lines), Tail(lines))

payload(lines) ==
    LET text(l) == Drop(l, IF StartsAt(l, 2, <<SPACE>>) THEN 2 ELSE 1)
        data == SelectSeq(lines, LAMBDA l : StartsAt(l, 1, <<DATA>>))
    IN  IF data = <<>> THEN <<>> ELSE Joined([i \in DOMAIN data |-> text(data[i])])

RECURSIVE EventPush(_)
EventPush(s) ==
    LET at == {i \in DOMAIN s.buf : \E p \in Boundaries : StartsAt(s.buf, i, p)}
        i == CHOOSE i \in at : \A j \in at : i <= j
        p == CHOOSE p \in Boundaries : StartsAt(s.buf, i, p)
        text == payload(LinesOf(Take(s.buf, i - 1)))
        rest == [s EXCEPT !.buf = Drop(@, i + Len(p) - 1)]
    IN  IF at = {} THEN s ELSE EventPush(IF text = <<>> THEN rest ELSE Given(rest, text))

----
(* What a peer writes: the bytes of an item.  A WebSocket frame has a form, the length of its extended length, and may *)
(* have the flaws of a client's frame; a chunk has its size line; guestd's stream has noise of printable bytes.         *)

U16Bytes(n) == <<n \div 256, n % 256>>

BytesOf(kind, item) ==
    CASE kind = "ws" ->
           LET n == Len(item.data)
               length == CASE item.form = 0 -> <<n>> [] item.form = 2 -> <<126>> \o U16Bytes(n) [] item.form = 8 -> <<127, 0, 0, 0, 0, 0, 0>> \o U16Bytes(n)
               first == (IF item.fin THEN 128 ELSE 0) + (IF item.flaw = "rsv" THEN 64 ELSE 0) + item.op
           IN  <<first, Head(length) + (IF item.flaw = "masked" THEN 128 ELSE 0)>> \o Tail(length) \o item.data
      [] kind = "chunked" -> item.line \o NL \o item.data \o NL
      [] kind = "guestd" -> IF item.noise # <<>> THEN item.noise ELSE <<0, 0, 0, 5 + Len(item.body), item.type, 0, 0>> \o U16Bytes(item.id) \o item.body
      [] kind = "sse" -> FlattenSeq([i \in DOMAIN item.lines |-> item.lines[i] \o item.nl]) \o item.nl

VARIABLES
    wire,   \* the wire that is read
    bytes,  \* its bytes
    sent,   \* how many have been pushed
    s,      \* the decoder
    got     \* what the pushes have given, but the last when it has thrown

vars == <<wire, bytes, sent, s, got>>

Fresh == [buf |-> <<>>, out |-> <<>>, err |-> FALSE, fragOp |-> None, fragParts |-> <<>>, need |-> 0, skip |-> 0, done |-> FALSE]

\* A connection that one of some wires will come over: kind and items.
InitOn(Wires) ==
    /\ wire \in Wires /\ bytes = FlattenSeq([i \in DOMAIN wire.items |-> BytesOf(wire.kind, wire.items[i])])
    /\ sent = 0 /\ s = Fresh /\ got = <<>>

Push(t) ==
    CASE wire.kind = "ws" -> WsPush(t) [] wire.kind = "chunked" -> ChunkPush(t) [] wire.kind = "guestd" -> FramePush(t) [] wire.kind = "sse" -> EventPush(t)

\* A piece of n bytes; what throws tears the connection down.
Feed(n) ==
    LET r == Push([s EXCEPT !.buf = @ \o SubSeq(bytes, sent + 1, sent + n)]) IN
    /\ ~s.err /\ sent + n <= Len(bytes) /\ sent' = sent + n
    /\ s' = [r EXCEPT !.out = <<>>]
    /\ got' = IF r.err THEN got ELSE got \o r.out
    /\ UNCHANGED <<wire, bytes>>

Next == \E n \in 1 .. 3 \cup {Len(bytes) - sent} : n > 0 /\ Feed(n)

----
(* What the peer means. *)

Items == wire.items
Begin(i) == Len(FlattenSeq([j \in 1 .. i - 1 |-> BytesOf(wire.kind, Items[j])]))
Size(i) == Len(BytesOf(wire.kind, Items[i]))
Arrived == {i \in DOMAIN Items : Begin(i) + Size(i) <= sent}

InMessage(i) == \E j \in 1 .. i - 1 : Items[j].op \in DataOps /\ ~Items[j].fin /\ \A k \in j + 1 .. i - 1 : ~(Items[k].op = OP_CONT /\ Items[k].fin)

\* The data of the message item i completes: its fragments, without the control frames in between.
Message(i) ==
    LET from == CHOOSE j \in 1 .. i : Items[j].op \in DataOps /\ \A k \in j + 1 .. i : Items[k].op \notin DataOps
    IN  [op |-> Items[from].op, data |-> FlattenSeq([k \in 1 .. i - from + 1 |-> IF Items[from + k - 1].op \in Control THEN <<>> ELSE Items[from + k - 1].data])]

\* A frame no server may send where it is.
Violates(i) ==
    LET f == Items[i] IN
    \/ f.flaw # ""
    \/ f.op \notin Control \cup DataOps \cup {OP_CONT}
    \/ f.op \in Control /\ (~f.fin \/ Len(f.data) > 125 \/ (f.op = OP_CLOSE /\ (Len(f.data) = 1 \/ ~utf8(Drop(f.data, 2)))))
    \/ f.op \in DataOps /\ InMessage(i)
    \/ f.op = OP_CONT /\ ~InMessage(i)
    \/ f.op \notin Control /\ f.fin /\ Message(i).op = OP_TEXT /\ ~utf8(Message(i).data)

Means(i) ==
    CASE wire.kind = "ws" -> IF Items[i].op \in Control THEN <<[op |-> Items[i].op, data |-> Items[i].data]>> ELSE IF Items[i].fin THEN <<Message(i)>> ELSE <<>>
      [] wire.kind = "guestd" -> IF Items[i].noise # <<>> THEN <<>> ELSE <<[type |-> Items[i].type, id |-> Items[i].id, body |-> Items[i].body]>>
      [] wire.kind = "sse" -> IF Items[i].means = <<>> THEN <<>> ELSE <<Items[i].means>>

\* The messages and control frames a server has sent come out, each once, when their last byte is there, whatever the
\* cuts; a frame that violates the protocol throws and never comes out as something else.
WsExact ==
    wire.kind = "ws" =>
        LET bad == {i \in DOMAIN Items : Violates(i)}
            v == CHOOSE i \in bad : \A j \in bad : i <= j
            thrown == bad # {} /\ sent >= Begin(v) + (IF Items[v].flaw # "" THEN 2 ELSE Size(v))
            all(is) == FlattenSeq([i \in 1 .. Cardinality(is) |-> Means(i)])
        IN  IF thrown THEN s.err /\ IsPrefix(got, all(1 .. v - 1)) ELSE ~s.err /\ got = all(Arrived)

\* Of a chunked body every byte that has arrived comes out and none of the framing, it is finished with its last
\* chunk, a malformed size line throws, and the two decoders agree wherever the stream ends; guestd's frames come out
\* after any noise, and events whatever their line ends.
StreamsExact ==
    CASE wire.kind = "chunked" ->
           LET lineEnd(i) == Begin(i) + Len(Items[i].line) + 2
               bad == {i \in DOMAIN Items : Items[i].size < 0}
               part(i) == IF Items[i].size <= 0 THEN <<>> ELSE Take(Items[i].data, IF sent - lineEnd(i) < Items[i].size THEN sent - lineEnd(i) ELSE Items[i].size)
               body == FlattenSeq([i \in DOMAIN Items |-> part(i)])
           IN  /\ s.err = (\E i \in bad : sent >= lineEnd(i))
               /\ IF s.err THEN IsPrefix(got, body) ELSE got = body
               /\ s.done = (\E i \in DOMAIN Items : Items[i].size = 0 /\ sent >= lineEnd(i))
               /\ dechunk(Take(bytes, sent)) = body
      [] wire.kind \in {"guestd", "sse"} -> ~s.err /\ got = FlattenSeq([i \in 1 .. Cardinality(Arrived) |-> Means(i)])
      [] OTHER -> TRUE
====
