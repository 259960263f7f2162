---- MODULE PreviewProofs ----
(* What Preview promises, for any pages, requests, sockets, URLs and cookies, and with all of them at once: a request *)
(* is dispatched by the page its URL names, with the cookies of the runtime it goes to; a tunnel the bridge has       *)
(* booked is aimed at the current runtime; the messages of a socket keep their order and leave no hole.               *)
EXTENDS Preview, FiniteSetTheorems, SequenceTheorems, TLAPS

----
(* The records. *)

Cookie == [name : STRING, path : Seq(STRING), live : BOOLEAN, gen : 1 .. MaxKernels, late : BOOLEAN]

Route == [owner : Page, port : Port]

Request == [sw : {"idle", "context", "owner", "body", "wait", "done", "network"}, url : Urls \cup {None},
            context : Contexts \cup {None}, route : Route \cup {None}, target : Page \cup {None},
            bridge : {"none", "posted", "dispatch", "replied"}, gen : 0 .. MaxKernels, cookies : SUBSET Cookie,
            reply : Nat, status : Nat, stream : {"none", "open", "ended"}]

Posted == [kind : {"frame", "blob", "close", "bad"}, n : Nat]

Message == [kind : {"frame", "open", "error", "close"}, n : Nat]

Socket == [page : Page \cup {None}, gen : 0 .. MaxKernels,
           pc : {"none", "asked", "upgrading", "connected", "wired", "open", "over"}, closed : BOOLEAN, kept : BOOLEAN,
           ws : {"none", "open", "closing", "closed"}, early : Seq(Nat), shim : 0 .. 3, up : Seq(Posted),
           decoding : BOOLEAN, down : Seq(Message), sent : Nat, got : Seq(Nat), made : Nat, seen : Seq(Nat)]

Typed ==
    /\ identity \subseteq Page /\ gone \subseteq Page
    /\ boot \in [Page -> {"off", "choose", "wait", "ask", "done"}]
    /\ gen \in [Page -> 1 .. MaxKernels]
    /\ jar \in [Page -> [Port -> Seq(Cookie)]]
    /\ req \in [Req -> Request]
    /\ tun \in [Tunnel -> Socket]

----
(* A request: the worker finds its page before the page hears of it, and never another one.                           *)

RequestOK(q) ==
    /\ q.sw \in {"context", "owner", "body", "wait"} => q.url # None
    /\ q.sw \in {"idle", "context", "owner"} => q.bridge = "none" /\ q.target = None
    /\ q.sw = "owner" => q.route # None
    /\ q.target # None => q.route # None /\ q.target = q.route.owner /\ q.url # None
    /\ q.sw \in {"body", "wait"} \/ q.bridge # "none" => q.target # None
    /\ q.bridge = "dispatch" => q.gen # 0
    /\ \A c \in q.cookies : c.gen = q.gen \/ c.late

\* A page that is to answer is still there.
Waits(q, away) == q.bridge # "none" => q.target \notin away

\* A jar holds the cookies of the current runtime and those that came after the switch from another.
JarOK(p) ==
    \A q \in Port :
        /\ Len(jar[p][q]) <= MaxPerPort
        /\ \A i \in DOMAIN jar[p][q] : jar[p][q][i].gen = gen[p] \/ jar[p][q][i].late

----
(* A socket, from the document to the guest: the messages on their way go on counting where the guest's end.          *)

Counts(m) == IF m.kind \in {"frame", "blob"} THEN 1 ELSE 0

Chained(up, heard, sent) ==
    /\ \A i \in DOMAIN up : up[i].n = (IF i = 1 THEN heard ELSE up[i - 1].n) + Counts(up[i])
    /\ sent = IF up = <<>> THEN heard ELSE up[Len(up)].n

Upward(x) ==
    /\ x.pc \in {"none", "asked", "upgrading"} => x.ws = "none" /\ x.got = <<>>
    /\ x.pc \in {"none", "asked", "upgrading", "connected"} => ~x.decoding
    /\ x.pc \in {"connected", "wired", "open"} \/ x.decoding => x.ws # "none"
    /\ x.closed => x.up = <<>>
    /\ x.decoding /\ ~x.closed => x.up # <<>> /\ x.up[1].kind = "blob"
    /\ \A i \in DOMAIN x.got : x.got[i] = i
    /\ Len(x.got) <= x.sent /\ \A i \in DOMAIN x.up : x.up[i].n <= x.sent
    /\ ~x.closed /\ x.ws \in {"none", "open"} => Chained(x.up, Len(x.got), x.sent)

(* And back: behind place o of what is on its way come the messages after the a-th, and after them only the end.      *)

Numbered(down, o, a) ==
    /\ \A i \in DOMAIN down : i > o =>
        /\ down[i].kind \in {"frame", "error", "close"}
        /\ down[i].kind = "frame" => down[i].n = a + (i - o)
    /\ \A i, j \in DOMAIN down : i > o /\ down[i].kind # "frame" /\ j > i => down[j].kind # "frame"

Follows(x, o, a) ==
    /\ Numbered(x.down, o, a)
    /\ ~x.closed => x.made + o = a + Len(x.down) /\ \A i \in DOMAIN x.down : i > o => x.down[i].kind = "frame"

InOrder(seen) ==
    \A i, j \in DOMAIN seen : i < j => seen[i] # 0 /\ seen[j] \in {0, seen[i] + j - i}

Downward(x) ==
    /\ x.pc \in {"none", "asked", "upgrading", "connected"} => x.down = <<>> /\ x.shim \in {0, 2} /\ ~x.closed
    /\ x.shim = 0 => x.seen = <<>> /\ \A o \in DOMAIN x.down : x.down[o].kind = "open" => \E a \in Nat : Follows(x, o, a)
    /\ x.shim = 1 => \E a \in Nat : Follows(x, 0, a) /\ (x.seen # <<>> => x.seen[Len(x.seen)] = a)
    /\ x.shim # 3 => \A i \in DOMAIN x.seen : x.seen[i] # 0
    /\ InOrder(x.seen)

\* The bridge keeps the cleanup of a socket that is open, which a switch uses.
Booked(x, g) == x.pc = "open" /\ ~x.closed => x.kept /\ x.gen = g

SocketOK(x) ==
    /\ x.pc # "none" => x.page # None
    /\ x.kept => x.pc \in {"wired", "open", "over"}
    /\ Upward(x) /\ Downward(x)

IInv ==
    /\ Typed
    /\ \A r \in Req : RequestOK(req[r]) /\ Waits(req[r], gone)
    /\ \A p \in Page : JarOK(p)
    /\ \A t \in Tunnel : SocketOK(tun[t])
    /\ \A t \in Tunnel, p \in Page : tun[t].page = p => Booked(tun[t], gen[p])

----
(* Sequences. *)

LEMMA TailOf ==
    ASSUME NEW S, NEW s \in Seq(S), s # <<>>
    PROVE  /\ Tail(s) \in Seq(S) /\ Len(Tail(s)) = Len(s) - 1 /\ Head(s) = s[1] /\ s[1] \in S
           /\ DOMAIN s = 1 .. Len(s) /\ DOMAIN Tail(s) = 1 .. Len(s) - 1 /\ Len(s) \in Nat \ {0}
           /\ \A i \in 1 .. Len(s) - 1 : Tail(s)[i] = s[i + 1]
    <1>1. Len(s) \in Nat \ {0} /\ DOMAIN s = 1 .. Len(s) /\ s[1] \in S
        BY EmptySeq, LenProperties, ElementOfSeq
    <1>2. QED
        BY <1>1, HeadTailProperties

LEMMA AppendOf ==
    ASSUME NEW S, NEW s \in Seq(S), NEW e \in S
    PROVE  /\ Append(s, e) \in Seq(S) /\ Len(Append(s, e)) = Len(s) + 1 /\ Append(s, e) # <<>> /\ Len(s) \in Nat
           /\ DOMAIN s = 1 .. Len(s) /\ DOMAIN Append(s, e) = 1 .. Len(s) + 1
           /\ \A i \in 1 .. Len(s) : Append(s, e)[i] = s[i]
           /\ Append(s, e)[Len(s) + 1] = e
    BY AppendProperties, LenProperties

LEMMA PostedOf ==
    ASSUME NEW up \in Seq(Posted)
    PROVE  /\ \A i \in DOMAIN up : up[i] \in Posted /\ up[i].n \in Nat
           /\ up # <<>> => up[1] \in Posted /\ up[1].n \in Nat
    <1>1. \A e \in Posted : e.n \in Nat
        BY DEF Posted
    <1>2. \A i \in DOMAIN up : up[i] \in Posted
        OBVIOUS
    <1>3. up # <<>> => up[1] \in Posted
        BY TailOf
    <1>4. QED
        BY <1>1, <1>2, <1>3

LEMMA ChainTail ==
    ASSUME NEW up \in Seq(Posted), up # <<>>, NEW heard \in Nat, NEW sent \in Nat, Chained(up, heard, sent)
    PROVE  Chained(Tail(up), up[1].n, sent) /\ up[1].n = heard + Counts(up[1])
    <1> DEFINE rest == Tail(up)
    <1>1. /\ rest \in Seq(Posted) /\ Len(rest) = Len(up) - 1 /\ DOMAIN up = 1 .. Len(up)
          /\ DOMAIN rest = 1 .. Len(up) - 1 /\ Len(up) \in Nat \ {0} /\ \A i \in 1 .. Len(up) - 1 : rest[i] = up[i + 1]
        BY TailOf
    <1> HIDE DEF rest
    <1>2. ASSUME NEW i \in DOMAIN rest
          PROVE  rest[i].n = (IF i = 1 THEN up[1].n ELSE rest[i - 1].n) + Counts(rest[i])
        <2>0. i \in Nat \ {0} /\ i + 1 \in DOMAIN up /\ i + 1 # 1 /\ (i + 1) - 1 = i
            BY <1>1, <1>2
        <2>1. up[i + 1].n = up[i].n + Counts(up[i + 1])
            BY <2>0 DEF Chained
        <2>2. rest[i] = up[i + 1] /\ (i # 1 => rest[i - 1] = up[i])
            BY <1>1, <1>2
        <2>3. QED
            BY <2>1, <2>2
    <1>3. sent = IF rest = <<>> THEN up[1].n ELSE rest[Len(rest)].n
        <2>1. rest = <<>> <=> Len(up) = 1
            BY <1>1, EmptySeq
        <2>2. Len(up) # 1 => rest[Len(rest)] = up[Len(up)]
            BY <1>1
        <2>3. QED
            BY <2>1, <2>2 DEF Chained
    <1>4. up[1].n = heard + Counts(up[1])
        BY <1>1 DEF Chained
    <1>5. QED
        BY <1>2, <1>3, <1>4 DEF Chained, rest

LEMMA ChainAppend ==
    ASSUME NEW up \in Seq(Posted), NEW heard \in Nat, NEW sent \in Nat, Chained(up, heard, sent),
           NEW m \in Posted, m.n = sent + Counts(m)
    PROVE  Chained(Append(up, m), heard, m.n)
    <1> DEFINE more == Append(up, m)
    <1>1. /\ more \in Seq(Posted) /\ Len(more) = Len(up) + 1 /\ DOMAIN up = 1 .. Len(up) /\ DOMAIN more = 1 .. Len(up) + 1
          /\ more # <<>> /\ Len(up) \in Nat /\ \A i \in 1 .. Len(up) : more[i] = up[i]
        BY AppendOf
    <1>2. more[Len(up) + 1] = m
        BY AppendOf
    <1>3. up = <<>> <=> Len(up) = 0
        BY EmptySeq
    <1> HIDE DEF more
    <1>4. ASSUME NEW i \in DOMAIN more
          PROVE  more[i].n = (IF i = 1 THEN heard ELSE more[i - 1].n) + Counts(more[i])
        <2>1. CASE i = Len(up) + 1
            BY <1>1, <1>2, <1>3, <2>1 DEF Chained
        <2>2. CASE i # Len(up) + 1
            <3>1. i \in DOMAIN up /\ more[i] = up[i] /\ (i # 1 => more[i - 1] = up[i - 1])
                BY <1>1, <1>4, <2>2
            <3>2. QED
                BY <3>1 DEF Chained
        <2>3. QED
            BY <2>1, <2>2
    <1>5. QED
        BY <1>1, <1>2, <1>4 DEF Chained, more

LEMMA InOrderAppend ==
    ASSUME NEW seen \in Seq(Nat), InOrder(seen), \A i \in DOMAIN seen : seen[i] # 0, NEW n \in Nat,
           n = 0 \/ (seen # <<>> => n = seen[Len(seen)] + 1)
    PROVE  InOrder(Append(seen, n))
    <1> DEFINE more == Append(seen, n)
    <1>1. /\ Len(seen) \in Nat /\ DOMAIN seen = 1 .. Len(seen) /\ DOMAIN more = 1 .. Len(seen) + 1
          /\ \A i \in 1 .. Len(seen) : more[i] = seen[i] /\ seen[i] \in Nat
        BY AppendOf, ElementOfSeq
    <1>2. more[Len(seen) + 1] = n
        BY AppendOf
    <1>3. seen = <<>> <=> Len(seen) = 0
        BY EmptySeq
    <1> HIDE DEF more
    <1>4. ASSUME NEW i \in DOMAIN more, NEW j \in DOMAIN more, i < j
          PROVE  more[i] # 0 /\ more[j] \in {0, more[i] + j - i}
        <2>1. i \in DOMAIN seen /\ more[i] = seen[i] /\ seen[i] \in Nat \ {0}
            BY <1>1, <1>4
        <2>2. CASE j # Len(seen) + 1
            <3>1. j \in DOMAIN seen /\ more[j] = seen[j]
                BY <1>1, <1>4, <2>2
            <3>2. QED
                BY <1>4, <2>1, <3>1 DEF InOrder
        <2>3. CASE j = Len(seen) + 1
            <3>1. CASE i = Len(seen)
                BY <1>1, <1>2, <1>3, <2>1, <2>3, <3>1
            <3>2. CASE i < Len(seen)
                <4>1. Len(seen) \in DOMAIN seen
                    BY <1>1, <2>1
                <4>2. seen[Len(seen)] # 0 /\ seen[Len(seen)] \in {0, seen[i] + Len(seen) - i}
                    BY <2>1, <3>2, <4>1 DEF InOrder
                <4>3. seen[Len(seen)] + 1 = seen[i] + j - i
                    BY <1>1, <2>1, <2>3, <4>1, <4>2
                <4>4. QED
                    BY <1>2, <1>3, <1>1, <2>1, <2>3, <4>3
            <3>3. QED
                BY <1>1, <2>1, <3>1, <3>2
        <2>4. QED
            BY <2>2, <2>3
    <1>5. QED
        BY <1>4 DEF InOrder, more

LEMMA NumberedAppend ==
    ASSUME NEW down \in Seq(Message), NEW o \in Nat, o <= Len(down), NEW a \in Nat, Numbered(down, o, a),
           NEW m \in Message, m.kind \in {"frame", "error", "close"},
           m.kind = "frame" => m.n + o = a + Len(down) + 1 /\ \A i \in DOMAIN down : i > o => down[i].kind = "frame"
    PROVE  Numbered(Append(down, m), o, a)
    <1> DEFINE more == Append(down, m)
    <1>1. /\ Len(down) \in Nat /\ DOMAIN down = 1 .. Len(down) /\ DOMAIN more = 1 .. Len(down) + 1
          /\ \A i \in 1 .. Len(down) : more[i] = down[i]
        BY AppendOf
    <1>2. more[Len(down) + 1] = m /\ m.n \in Nat
        BY AppendOf DEF Message
    <1> HIDE DEF more
    <1>3. ASSUME NEW i \in DOMAIN more, i > o
          PROVE  more[i].kind \in {"frame", "error", "close"} /\ (more[i].kind = "frame" => more[i].n = a + (i - o))
        <2>1. CASE i = Len(down) + 1
            <3>1. more[i] = m
                BY <1>2, <2>1
            <3>2. m.kind = "frame" => m.n + o = a + Len(down) + 1
                OBVIOUS
            <3>3. o \in Nat /\ a \in Nat /\ m.n \in Nat /\ Len(down) \in Nat
                BY <1>1, <1>2
            <3>4. m.kind = "frame" => m.n = a + (i - o)
                BY <2>1, <3>2, <3>3
            <3>5. QED
                BY <3>1, <3>4
        <2>2. CASE i # Len(down) + 1
            <3>1. i \in DOMAIN down /\ more[i] = down[i]
                BY <1>1, <1>3, <2>2
            <3>2. QED
                BY <1>3, <3>1 DEF Numbered
        <2>3. QED
            BY <2>1, <2>2
    <1>4. ASSUME NEW i \in DOMAIN more, NEW j \in DOMAIN more, i > o, more[i].kind # "frame", j > i
          PROVE  more[j].kind # "frame"
        <2>1. i \in DOMAIN down /\ more[i] = down[i]
            BY <1>1, <1>4
        <2>2. CASE j = Len(down) + 1
            BY <1>2, <1>4, <2>1, <2>2
        <2>3. CASE j # Len(down) + 1
            <3>1. j \in DOMAIN down /\ more[j] = down[j]
                BY <1>1, <1>4, <2>3
            <3>2. QED
                BY <1>4, <2>1, <3>1 DEF Numbered
        <2>4. QED
            BY <2>2, <2>3
    <1>5. QED
        BY <1>3, <1>4 DEF Numbered, more

\* The first word is taken: what follows place o now follows the place before it.
LEMMA FollowsTail ==
    ASSUME NEW x \in Socket, NEW y \in Socket, x.down # <<>>, y.down = Tail(x.down), y.closed = x.closed, y.made = x.made,
           NEW o \in Nat, NEW a \in Nat, Follows(x, o, a)
    PROVE  /\ \A k \in Nat : o = k + 1 => Follows(y, k, a)
           /\ o = 0 /\ x.down[1].kind = "frame" => Follows(y, 0, a + 1) /\ x.down[1].n = a + 1
           /\ o = 0 /\ x.down[1].kind # "frame" => Follows(y, 0, a) /\ x.closed
    <1>1. x.down \in Seq(Message) /\ x.made \in Nat /\ x.closed \in BOOLEAN
        BY DEF Socket
    <1> DEFINE down == x.down
               rest == Tail(x.down)
    <1>2. /\ rest \in Seq(Message) /\ Len(rest) = Len(down) - 1 /\ DOMAIN down = 1 .. Len(down) /\ Len(down) \in Nat \ {0}
          /\ DOMAIN rest = 1 .. Len(down) - 1 /\ \A i \in 1 .. Len(down) - 1 : rest[i] = down[i + 1]
        BY <1>1, TailOf
    <1>3. Numbered(down, o, a) /\ (~x.closed => x.made + o = a + Len(down) /\ \A i \in DOMAIN down : i > o => down[i].kind = "frame")
        BY DEF Follows
    <1>4. y.down = rest
        OBVIOUS
    <1> HIDE DEF down, rest
    <1>5. ASSUME NEW i \in DOMAIN rest
          PROVE  i \in Nat \ {0} /\ i + 1 \in DOMAIN down /\ rest[i] = down[i + 1]
        BY <1>2, <1>5
    <1>6. ASSUME NEW k \in Nat, o = k + 1
          PROVE  Follows(y, k, a)
        <2>1. Numbered(rest, k, a)
            BY <1>3, <1>5, <1>6 DEF Numbered
        <2>2. ~x.closed => x.made + k = a + Len(rest)
            <3>1. ~x.closed => x.made + o = a + Len(down)
                BY <1>3
            <3>2. Len(rest) = Len(down) - 1 /\ Len(down) \in Nat /\ x.made \in Nat
                BY <1>1, <1>2
            <3>3. QED
                BY <1>6, <3>1, <3>2
        <2>3. ~x.closed => \A i \in DOMAIN rest : i > k => rest[i].kind = "frame"
            BY <1>3, <1>5, <1>6
        <2>4. QED
            BY <1>4, <2>1, <2>2, <2>3 DEF Follows
    <1>7. ASSUME o = 0, down[1].kind = "frame"
          PROVE  Follows(y, 0, a + 1) /\ down[1].n = a + 1
        <2>1. Numbered(rest, 0, a + 1)
            <3>1. ASSUME NEW i \in DOMAIN rest, i > 0
                  PROVE  rest[i].kind \in {"frame", "error", "close"} /\ (rest[i].kind = "frame" => rest[i].n = a + 1 + (i - 0))
                <4>1. i \in Nat /\ i + 1 \in DOMAIN down /\ i + 1 > o /\ rest[i] = down[i + 1]
                    BY <1>5, <1>7, <3>1
                <4>2. /\ down[i + 1].kind \in {"frame", "error", "close"}
                      /\ down[i + 1].kind = "frame" => down[i + 1].n = a + (i + 1 - o)
                    BY <1>3, <4>1 DEF Numbered
                <4>3. a + (i + 1 - o) = a + 1 + (i - 0)
                    BY <1>7, <4>1
                <4>4. QED
                    BY <4>1, <4>2, <4>3
            <3>2. ASSUME NEW i \in DOMAIN rest, NEW j \in DOMAIN rest, i > 0, rest[i].kind # "frame", j > i
                  PROVE  rest[j].kind # "frame"
                <4>1. /\ i + 1 \in DOMAIN down /\ i + 1 > o /\ rest[i] = down[i + 1]
                      /\ j + 1 \in DOMAIN down /\ j + 1 > i + 1 /\ rest[j] = down[j + 1]
                    BY <1>5, <1>7, <3>2
                <4>2. QED
                    BY <1>3, <3>2, <4>1 DEF Numbered
            <3>3. QED
                BY <3>1, <3>2 DEF Numbered
        <2>2. ~x.closed => x.made + 0 = a + 1 + Len(rest) /\ \A i \in DOMAIN rest : i > 0 => rest[i].kind = "frame"
            BY <1>1, <1>2, <1>3, <1>5, <1>7
        <2>3. down[1].n = a + 1
            BY <1>2, <1>3, <1>7 DEF Numbered
        <2>4. QED
            BY <1>4, <2>1, <2>2, <2>3 DEF Follows
    <1>8. ASSUME o = 0, down[1].kind # "frame"
          PROVE  Follows(y, 0, a) /\ x.closed
        <2>1. \A i \in DOMAIN rest : rest[i].kind # "frame"
            <3>1. TAKE i \in DOMAIN rest
            <3>2. 1 \in DOMAIN down /\ i + 1 \in DOMAIN down /\ i + 1 > 1 /\ rest[i] = down[i + 1]
                BY <1>2, <1>5
            <3>3. QED
                BY <1>3, <1>8, <3>2 DEF Numbered
        <2>2. Numbered(rest, 0, a)
            BY <1>3, <1>5, <1>8, <2>1 DEF Numbered
        <2>3. x.closed
            BY <1>1, <1>2, <1>3, <1>8
        <2>4. QED
            BY <1>4, <2>2, <2>3 DEF Follows
    <1>9. QED
        BY <1>6, <1>7, <1>8 DEF down

----
(* What ends a socket. *)

Begun == {"wired", "open", "over"}

Endings(down) == {Append(down, Word("close")), Append(Append(down, Word("error")), Word("close"))}

LEMMA EndingOf ==
    ASSUME NEW down \in Seq(Message), NEW more \in Endings(down)
    PROVE  /\ more \in Seq(Message)
           /\ \A o \in Nat, a \in Nat : o <= Len(down) /\ Numbered(down, o, a) => Numbered(more, o, a)
           /\ \A o \in DOMAIN more : more[o].kind = "open" => o \in DOMAIN down /\ down[o].kind = "open"
    <1> DEFINE e == Word("error")
               c == Word("close")
               one == Append(down, e)
    <1>1. e \in Message /\ c \in Message /\ e.kind = "error" /\ c.kind = "close"
        BY DEF Word, Message
    <1> HIDE DEF e, c
    <1>2. /\ one \in Seq(Message) /\ Len(one) = Len(down) + 1 /\ Len(down) \in Nat
          /\ DOMAIN down = 1 .. Len(down) /\ DOMAIN one = 1 .. Len(down) + 1
          /\ \A i \in 1 .. Len(down) : one[i] = down[i]
        BY <1>1, AppendOf
    <1>3. one[Len(down) + 1] = e
        BY <1>1, AppendOf
    <1> HIDE DEF one
    <1>4. CASE more = Append(down, c)
        <2>1. /\ more \in Seq(Message) /\ DOMAIN more = 1 .. Len(down) + 1 /\ \A i \in 1 .. Len(down) : more[i] = down[i]
            BY <1>1, <1>4, AppendOf
        <2>2. more[Len(down) + 1] = c
            BY <1>1, <1>4, AppendOf
        <2>3. \A o \in Nat, a \in Nat : o <= Len(down) /\ Numbered(down, o, a) => Numbered(more, o, a)
            BY <1>1, <1>4, NumberedAppend
        <2>4. \A o \in DOMAIN more : more[o].kind = "open" => o \in DOMAIN down /\ down[o].kind = "open"
            BY <1>1, <1>2, <2>1, <2>2
        <2>5. QED
            BY <2>1, <2>3, <2>4
    <1>5. CASE more = Append(one, c)
        <2>1. /\ more \in Seq(Message) /\ DOMAIN more = 1 .. Len(one) + 1 /\ \A i \in 1 .. Len(one) : more[i] = one[i]
            BY <1>1, <1>2, <1>5, AppendOf
        <2>2. more[Len(one) + 1] = c
            BY <1>1, <1>2, <1>5, AppendOf
        <2>3. ASSUME NEW o \in Nat, NEW a \in Nat, o <= Len(down), Numbered(down, o, a)
              PROVE  Numbered(more, o, a)
            <3>1. Numbered(one, o, a)
                BY <1>1, <2>3, NumberedAppend DEF one
            <3>2. o <= Len(one)
                BY <1>2, <2>3
            <3>3. QED
                BY <1>1, <1>2, <1>5, <3>1, <3>2, NumberedAppend
        <2>4. \A o \in DOMAIN more : more[o].kind = "open" => o \in DOMAIN down /\ down[o].kind = "open"
            BY <1>1, <1>2, <1>3, <2>1, <2>2
        <2>5. QED
            BY <2>1, <2>3, <2>4
    <1>6. QED
        BY <1>4, <1>5 DEF Endings, one, e, c

LEMMA EndedOK ==
    ASSUME NEW x \in Socket, SocketOK(x), ~x.closed, x.pc \in Begun,
           NEW y \in Socket, y.closed, ~y.kept, y.up = <<>>, y.down \in Endings(x.down), y.page = x.page, y.pc = x.pc, y.ws = x.ws,
           y.decoding = x.decoding, y.sent = x.sent, y.got = x.got, y.shim = x.shim, y.seen = x.seen
    PROVE  SocketOK(y)
    <1>1. x.down \in Seq(Message) /\ y.closed \in BOOLEAN /\ x.shim \in 0 .. 3 /\ x.pc \notin {"none", "asked", "upgrading", "connected"}
        BY DEF Socket, Begun
    <1>2. Upward(y)
        <2>1. DOMAIN y.up = {}
            BY EmptySeq
        <2>2. QED
            BY <1>1, <2>1 DEF SocketOK, Upward
    <1>3. /\ \A o \in Nat, a \in Nat : o <= Len(x.down) /\ Numbered(x.down, o, a) => Numbered(y.down, o, a)
          /\ \A o \in DOMAIN y.down : y.down[o].kind = "open" => o \in DOMAIN x.down /\ x.down[o].kind = "open"
        BY <1>1, EndingOf
    <1>4. Len(x.down) \in Nat /\ DOMAIN x.down = 1 .. Len(x.down)
        BY <1>1, LenProperties
    <1>5. \A o \in Nat, a \in Nat : o <= Len(x.down) /\ Follows(x, o, a) => Follows(y, o, a)
        BY <1>3 DEF Follows
    <1>6. y.shim = 0 => y.seen = <<>> /\ \A o \in DOMAIN y.down : y.down[o].kind = "open" => \E a \in Nat : Follows(y, o, a)
        <2>1. SUFFICES ASSUME x.shim = 0, NEW o \in DOMAIN y.down, y.down[o].kind = "open"
                       PROVE  \E a \in Nat : Follows(y, o, a)
            BY DEF SocketOK, Downward
        <2>2. o \in DOMAIN x.down /\ x.down[o].kind = "open"
            BY <1>3, <2>1
        <2>3. PICK a \in Nat : Follows(x, o, a)
            BY <2>1, <2>2 DEF SocketOK, Downward
        <2>4. o \in Nat /\ o <= Len(x.down)
            BY <1>4, <2>2
        <2>5. Follows(y, o, a)
            BY <1>5, <2>3, <2>4
        <2>6. QED
            BY <2>5
    <1>7. y.shim = 1 => \E a \in Nat : Follows(y, 0, a) /\ (y.seen # <<>> => y.seen[Len(y.seen)] = a)
        <2>1. SUFFICES ASSUME x.shim = 1
                       PROVE  \E a \in Nat : Follows(y, 0, a) /\ (y.seen # <<>> => y.seen[Len(y.seen)] = a)
            OBVIOUS
        <2>2. PICK a \in Nat : Follows(x, 0, a) /\ (x.seen # <<>> => x.seen[Len(x.seen)] = a)
            BY <2>1 DEF SocketOK, Downward
        <2>3. Follows(y, 0, a)
            BY <1>4, <1>5, <2>2
        <2>4. QED
            BY <2>2, <2>3
    <1>8. Downward(y)
        BY <1>1, <1>6, <1>7 DEF SocketOK, Downward
    <1>9. QED
        BY <1>2, <1>8 DEF SocketOK

LEMMA FinishedOK ==
    ASSUME NEW x \in Socket, SocketOK(x), x.pc \in Begun
    PROVE  /\ Finished(x) \in Socket /\ SocketOK(Finished(x)) /\ Finished(x).closed
           /\ Finished(x).page = x.page /\ Finished(x).pc = x.pc
    <1>1. CASE x.closed
        BY <1>1 DEF Finished
    <1>2. CASE ~x.closed
        <2>1. PICK y : y = [x EXCEPT !.closed = TRUE, !.down = Append(@, Word("close")), !.up = <<>>, !.kept = FALSE]
            OBVIOUS
        <2>2. Append(x.down, Word("close")) \in Seq(Message) /\ <<>> \in Seq(Message) /\ <<>> \in Seq(Posted)
            BY AppendOf DEF Socket, Word, Message
        <2>3. y \in Socket /\ y.closed /\ ~y.kept /\ y.up = <<>> /\ y.down = Append(x.down, Word("close"))
            BY <2>1, <2>2 DEF Socket
        <2>4. /\ y.page = x.page /\ y.pc = x.pc /\ y.ws = x.ws /\ y.decoding = x.decoding /\ y.sent = x.sent /\ y.got = x.got
              /\ y.shim = x.shim /\ y.seen = x.seen
            BY <2>1 DEF Socket
        <2>5. SocketOK(y)
            BY <1>2, <2>3, <2>4, EndedOK DEF Endings
        <2>6. Finished(x) = y
            BY <1>2, <2>1 DEF Finished
        <2>7. QED
            BY <2>3, <2>4, <2>5, <2>6
    <1>3. QED
        BY <1>1, <1>2

LEMMA FailedOK ==
    ASSUME NEW x \in Socket, SocketOK(x), x.pc \in Begun
    PROVE  /\ Failed(x) \in Socket /\ SocketOK(Failed(x)) /\ Failed(x).closed
           /\ Failed(x).page = x.page /\ Failed(x).pc = x.pc
    <1>1. PICK z : z = [x EXCEPT !.down = IF x.closed THEN @ ELSE Append(@, Word("error"))]
        OBVIOUS
    <1>2. Failed(x) = Finished(z)
        BY <1>1 DEF Failed
    <1>3. CASE x.closed
        <2>1. z = x
            BY <1>1, <1>3 DEF Socket
        <2>2. QED
            BY <1>2, <2>1, FinishedOK
    <1>4. CASE ~x.closed
        <2>1. PICK y : y = [z EXCEPT !.closed = TRUE, !.down = Append(@, Word("close")), !.up = <<>>, !.kept = FALSE]
            OBVIOUS
        <2>2. Append(x.down, Word("error")) \in Seq(Message) /\ <<>> \in Seq(Message) /\ <<>> \in Seq(Posted)
            BY AppendOf DEF Socket, Word, Message
        <2>3. z \in Socket /\ z.down = Append(x.down, Word("error")) /\ ~z.closed
            BY <1>1, <1>4, <2>2 DEF Socket
        <2>4. Append(z.down, Word("close")) \in Seq(Message)
            BY <2>2, <2>3, AppendOf DEF Word, Message
        <2>5. y \in Socket /\ y.closed /\ ~y.kept /\ y.up = <<>> /\ y.down = Append(Append(x.down, Word("error")), Word("close"))
            BY <2>1, <2>2, <2>3, <2>4 DEF Socket
        <2>6. /\ z.page = x.page /\ z.pc = x.pc /\ z.ws = x.ws /\ z.decoding = x.decoding /\ z.sent = x.sent /\ z.got = x.got
              /\ z.shim = x.shim /\ z.seen = x.seen
            BY <1>1 DEF Socket
        <2>7. /\ y.page = x.page /\ y.pc = x.pc /\ y.ws = x.ws /\ y.decoding = x.decoding /\ y.sent = x.sent /\ y.got = x.got
              /\ y.shim = x.shim /\ y.seen = x.seen
            BY <2>1, <2>3, <2>6 DEF Socket
        <2>8. SocketOK(y)
            BY <1>4, <2>5, <2>7, EndedOK DEF Endings
        <2>9. Failed(x) = y
            BY <1>2, <2>1, <2>3 DEF Finished
        <2>10. QED
            BY <2>5, <2>7, <2>8, <2>9
    <1>5. QED
        BY <1>3, <1>4

LEMMA SameDownward ==
    ASSUME NEW x \in Socket, NEW y \in Socket, Downward(x), y.closed = x.closed, y.down = x.down, y.made = x.made,
           y.shim = x.shim, y.seen = x.seen,
           y.pc \in {"none", "asked", "upgrading", "connected"} => x.pc \in {"none", "asked", "upgrading", "connected"}
    PROVE  Downward(y)
    <1>1. \A o \in Nat, a \in Nat : Follows(x, o, a) <=> Follows(y, o, a)
        BY DEF Follows
    <1>2. DOMAIN x.down \subseteq Nat
        BY DEF Socket
    <1>3. QED
        BY <1>1, <1>2 DEF Downward

LEMMA ClosingOK ==
    ASSUME NEW x \in Socket, SocketOK(x)
    PROVE  Closing(x) \in Socket /\ SocketOK(Closing(x)) /\ Closing(x).page = x.page /\ Closing(x).pc = x.pc
    <1>1. PICK y : y = Closing(x)
        OBVIOUS
    <1>2. y \in Socket /\ y.ws = IF x.ws = "open" THEN "closing" ELSE x.ws
        BY <1>1 DEF Closing, Socket
    <1>3. /\ y.page = x.page /\ y.pc = x.pc /\ y.closed = x.closed /\ y.kept = x.kept /\ y.up = x.up /\ y.down = x.down
          /\ y.decoding = x.decoding /\ y.sent = x.sent /\ y.got = x.got /\ y.made = x.made
          /\ y.shim = x.shim /\ y.seen = x.seen
        BY <1>1 DEF Closing, Socket
    <1>4. Upward(y)
        BY <1>2, <1>3 DEF SocketOK, Upward
    <1>5. Downward(y)
        BY <1>2, <1>3, SameDownward DEF SocketOK
    <1>6. QED
        BY <1>1, <1>2, <1>3, <1>4, <1>5 DEF SocketOK

LEMMA ReleasedOK ==
    ASSUME NEW x \in Socket, SocketOK(x), x.pc \in Begun
    PROVE  /\ Released(x) \in Socket /\ SocketOK(Released(x)) /\ Released(x).closed
           /\ Released(x).page = x.page /\ Released(x).pc = x.pc
    <1>1. CASE x.closed
        BY <1>1 DEF Released
    <1>2. CASE ~x.closed
        <2>1. /\ Closing(x) \in Socket /\ SocketOK(Closing(x)) /\ Closing(x).page = x.page /\ Closing(x).pc = x.pc
            BY ClosingOK
        <2>2. QED
            BY <1>2, <2>1, FinishedOK DEF Released
    <1>3. QED
        BY <1>1, <1>2

\* The message at the head of what is on its way reaches the guest, as a whole or out of its Blob.
LEMMA SentOK ==
    ASSUME NEW x \in Socket, SocketOK(x), ~x.closed, x.up # <<>>, x.up[1].kind \in {"frame", "blob"}, x.ws # "none", NEW y \in Socket,
           y.up = Tail(x.up), y.got = (IF x.ws = "open" THEN Append(x.got, x.up[1].n) ELSE x.got), y.decoding = FALSE,
           y.page = x.page, y.pc = x.pc, y.closed = x.closed, y.kept = x.kept, y.ws = x.ws, y.down = x.down, y.sent = x.sent,
           y.made = x.made, y.shim = x.shim, y.seen = x.seen
    PROVE  SocketOK(y)
    <1>1. /\ x.up \in Seq(Posted) /\ x.got \in Seq(Nat) /\ Len(x.got) \in Nat /\ x.sent \in Nat
          /\ x.ws \in {"none", "open", "closing", "closed"}
        BY LenProperties DEF Socket
    <1>2. /\ y.up \in Seq(Posted) /\ DOMAIN x.up = 1 .. Len(x.up) /\ DOMAIN y.up = 1 .. Len(x.up) - 1
          /\ \A i \in 1 .. Len(x.up) - 1 : y.up[i] = x.up[i + 1]
          /\ Len(x.up) \in Nat \ {0}
        BY <1>1, TailOf
    <1>3. /\ \A i \in DOMAIN x.got : x.got[i] = i
          /\ Len(x.got) <= x.sent /\ \A i \in DOMAIN x.up : x.up[i].n <= x.sent
        BY DEF SocketOK, Upward
    <1>4. \A i \in DOMAIN y.up : y.up[i].n <= y.sent
        BY <1>2, <1>3
    <1>5. CASE x.ws = "open"
        <2>1. Chained(x.up, Len(x.got), x.sent)
            BY <1>5 DEF SocketOK, Upward
        <2>2. Chained(y.up, x.up[1].n, x.sent) /\ x.up[1].n = Len(x.got) + Counts(x.up[1])
            BY <1>1, <2>1, ChainTail
        <2>3. x.up[1].n = Len(x.got) + 1
            BY <2>2 DEF Counts
        <2>4. x.up[1].n \in Nat
            BY <1>1, <2>3
        <2>5. /\ Len(y.got) = x.up[1].n /\ DOMAIN x.got = 1 .. Len(x.got) /\ DOMAIN y.got = 1 .. Len(x.got) + 1
              /\ \A i \in 1 .. Len(x.got) : y.got[i] = x.got[i]
            BY <1>1, <1>5, <2>3, <2>4, AppendOf
        <2>6. y.got[Len(x.got) + 1] = x.up[1].n
            BY <1>1, <1>5, <2>4, AppendOf
        <2>7. \A i \in DOMAIN y.got : y.got[i] = i
            BY <1>1, <1>3, <2>3, <2>5, <2>6
        <2>8. Len(y.got) <= y.sent /\ Chained(y.up, Len(y.got), y.sent)
            BY <1>2, <1>3, <2>2, <2>5
        <2>9. Upward(y)
            BY <1>4, <1>5, <2>7, <2>8 DEF SocketOK, Upward
        <2>10. QED
            BY <2>9, SameDownward DEF SocketOK
    <1>6. CASE x.ws \in {"closing", "closed"}
        <2>1. Upward(y)
            BY <1>3, <1>4, <1>6 DEF SocketOK, Upward
        <2>2. QED
            BY <2>1, SameDownward DEF SocketOK
    <1>7. QED
        BY <1>1, <1>5, <1>6

\* A word of the document that is no message is taken from the head.
LEMMA TakenOK ==
    ASSUME NEW x \in Socket, SocketOK(x), ~x.closed, ~x.decoding, x.up # <<>>, x.up[1].kind \in {"close", "bad"}, NEW y \in Socket,
           y.up = Tail(x.up), y.got = x.got, y.decoding = x.decoding,
           y.page = x.page, y.pc = x.pc, y.closed = x.closed, y.kept = x.kept, y.ws = x.ws, y.down = x.down, y.sent = x.sent,
           y.made = x.made, y.shim = x.shim, y.seen = x.seen
    PROVE  SocketOK(y)
    <1>1. x.up \in Seq(Posted) /\ Len(x.got) \in Nat /\ x.sent \in Nat
        BY LenProperties DEF Socket
    <1>2. /\ DOMAIN x.up = 1 .. Len(x.up) /\ DOMAIN y.up = 1 .. Len(x.up) - 1
          /\ \A i \in 1 .. Len(x.up) - 1 : y.up[i] = x.up[i + 1]
          /\ Len(x.up) \in Nat \ {0}
        BY <1>1, TailOf
    <1>3. \A i \in DOMAIN y.up : y.up[i].n <= y.sent
        BY <1>2 DEF SocketOK, Upward
    <1>4. ASSUME Chained(x.up, Len(x.got), x.sent)
          PROVE  Chained(y.up, Len(y.got), y.sent)
        <2>1. Chained(y.up, x.up[1].n, x.sent) /\ x.up[1].n = Len(x.got) + Counts(x.up[1])
            BY <1>1, <1>4, ChainTail
        <2>2. Counts(x.up[1]) = 0
            BY DEF Counts
        <2>3. x.up[1].n = Len(x.got)
            BY <1>1, <2>1, <2>2
        <2>4. QED
            BY <2>1, <2>3
    <1>5. Upward(y)
        BY <1>3, <1>4 DEF SocketOK, Upward
    <1>6. QED
        BY <1>5, SameDownward DEF SocketOK

----
(* The actions of a socket. *)

LEMMA KnownSocket ==
    ASSUME IInv, NEW t \in Tunnel
    PROVE  /\ tun[t] \in Socket /\ SocketOK(tun[t]) /\ \A p \in Page : tun[t].page = p => Booked(tun[t], gen[p])
           /\ tun[t].pc # "none" => tun[t].page \in Page
    <1>1. tun[t] \in Socket /\ SocketOK(tun[t]) /\ \A p \in Page : tun[t].page = p => Booked(tun[t], gen[p])
        BY DEF IInv, Typed
    <1>2. tun[t].pc # "none" => tun[t].page \in Page
        BY <1>1 DEF SocketOK, Socket
    <1>3. QED
        BY <1>1, <1>2

LEMMA SetOK ==
    ASSUME IInv, NEW t \in Tunnel, NEW x \in Socket, SocketOK(x), Set(t, x),
           \A p \in Page : x.page = p => Booked(x, gen[p])
    PROVE  IInv'
    <1>1. /\ tun' = [tun EXCEPT ![t] = x] /\ gen' = gen /\ jar' = jar /\ req' = req /\ gone' = gone
          /\ identity' = identity /\ boot' = boot /\ tun \in [Tunnel -> Socket]
        BY DEF Set, proxy, IInv, Typed
    <1>2. tun'[t] = x /\ \A s \in Tunnel : s # t => tun'[s] = tun[s]
        BY <1>1
    <1>3. Typed'
        BY <1>1 DEF IInv, Typed
    <1>4. (\A r \in Req : RequestOK(req[r]) /\ Waits(req[r], gone))' /\ (\A p \in Page : JarOK(p))'
        BY <1>1 DEF IInv, JarOK, Waits
    <1>5. \A s \in Tunnel : SocketOK(tun'[s])
        BY <1>2 DEF IInv
    <1>6. \A s \in Tunnel, p \in Page : tun'[s].page = p => Booked(tun'[s], gen[p])
        BY <1>2 DEF IInv
    <1>7. QED
        BY <1>1, <1>3, <1>4, <1>5, <1>6 DEF IInv

\* A socket that has just been asked for, or is gone with its document.
LEMMA FreshOK ==
    ASSUME NEW p \in Page \cup {None}, NEW pc \in {"none", "asked"}, NEW x, pc = "asked" => p # None,
           x = [page |-> p, gen |-> 0, pc |-> pc, closed |-> FALSE, kept |-> FALSE, ws |-> "none", early |-> <<>>,
                shim |-> 0, up |-> <<>>, decoding |-> FALSE, down |-> <<>>, sent |-> 0, got |-> <<>>, made |-> 0, seen |-> <<>>]
    PROVE  x \in Socket /\ SocketOK(x)
    <1>1. x \in Socket
        <2>1. 0 \in 0 .. MaxKernels /\ 0 \in 0 .. 3 /\ <<>> \in Seq(Nat) /\ <<>> \in Seq(Message) /\ <<>> \in Seq(Posted)
            BY PreviewAssumption
        <2>2. QED
            BY <2>1 DEF Socket
    <1>2. /\ x.page = p /\ x.pc = pc /\ ~x.closed /\ ~x.decoding /\ x.ws = "none" /\ x.shim = 0
          /\ x.up = <<>> /\ x.down = <<>> /\ x.sent = 0 /\ x.got = <<>> /\ x.made = 0 /\ x.seen = <<>>
        OBVIOUS
    <1>3. DOMAIN x.up = {} /\ DOMAIN x.down = {} /\ DOMAIN x.got = {} /\ DOMAIN x.seen = {} /\ Len(x.got) = 0 /\ ~x.kept
        BY <1>2
    <1>4. Upward(x)
        BY <1>2, <1>3 DEF Upward, Chained
    <1>5. Downward(x)
        BY <1>2, <1>3 DEF Downward, InOrder
    <1>6. QED
        BY <1>1, <1>2, <1>4, <1>5 DEF SocketOK

LEMMA OpenSocketOK ==
    ASSUME IInv, NEW t \in Tunnel, NEW p \in Page, OpenSocket(t, p)
    PROVE  IInv'
    <1>1. PICK y : y = [NoTunnel EXCEPT !.page = p, !.pc = "asked"]
        OBVIOUS
    <1>2. Set(t, y)
        BY <1>1 DEF OpenSocket
    <1>3. y = [page |-> p, gen |-> 0, pc |-> "asked", closed |-> FALSE, kept |-> FALSE, ws |-> "none", early |-> <<>>,
               shim |-> 0, up |-> <<>>, decoding |-> FALSE, down |-> <<>>, sent |-> 0, got |-> <<>>, made |-> 0, seen |-> <<>>]
        BY <1>1 DEF NoTunnel
    <1>4. y \in Socket /\ SocketOK(y)
        BY <1>3, FreshOK, PreviewAssumption
    <1>5. QED
        BY <1>2, <1>3, <1>4, SetOK DEF Booked

\* A stage of the upgrade: what is on its way stays.
LEMMA StageOK ==
    ASSUME IInv, NEW t \in Tunnel, NEW y \in Socket, Set(t, y), tun[t].pc \in {"asked", "upgrading"},
           y.page = tun[t].page, y.closed = tun[t].closed, y.kept = tun[t].kept, y.up = tun[t].up, y.down = tun[t].down, y.decoding = tun[t].decoding,
           y.sent = tun[t].sent, y.got = tun[t].got, y.made = tun[t].made, y.shim = tun[t].shim, y.seen = tun[t].seen,
           (y.pc = "upgrading" /\ y.ws = tun[t].ws) \/ (y.pc = "connected" /\ y.ws = "open")
    PROVE  IInv'
    <1>1. tun[t] \in Socket /\ SocketOK(tun[t]) /\ tun[t].page \in Page
        BY KnownSocket
    <1>2. Upward(y)
        BY <1>1 DEF SocketOK, Upward
    <1>3. Downward(y)
        BY <1>1, SameDownward DEF SocketOK
    <1>4. QED
        BY <1>1, <1>2, <1>3, SetOK DEF SocketOK, Booked

LEMMA UpgradeOK ==
    ASSUME IInv, NEW t \in Tunnel, Upgrade(t)
    PROVE  IInv'
    <1>1. tun[t] \in Socket /\ tun[t].page \in Page /\ gen \in [Page -> 1 .. MaxKernels] /\ tun[t].pc = "asked"
        BY KnownSocket DEF Upgrade, IInv, Typed
    <1>2. PICK y : y = [tun[t] EXCEPT !.pc = "upgrading", !.gen = gen[tun[t].page]]
        OBVIOUS
    <1>3. gen[tun[t].page] \in 0 .. MaxKernels
        BY <1>1, PreviewAssumption
    <1>4. y \in Socket
        BY <1>1, <1>2, <1>3 DEF Socket
    <1>5. /\ y.page = tun[t].page /\ y.closed = tun[t].closed /\ y.kept = tun[t].kept /\ y.up = tun[t].up /\ y.down = tun[t].down
          /\ y.decoding = tun[t].decoding /\ y.sent = tun[t].sent /\ y.got = tun[t].got /\ y.made = tun[t].made
          /\ y.shim = tun[t].shim /\ y.seen = tun[t].seen /\ y.pc = "upgrading" /\ y.ws = tun[t].ws
        BY <1>1, <1>2 DEF Socket
    <1>6. Set(t, y)
        BY <1>2 DEF Upgrade
    <1>7. QED
        BY <1>1, <1>4, <1>5, <1>6, StageOK

LEMMA UpgradedOK ==
    ASSUME IInv, NEW t \in Tunnel, Upgraded(t)
    PROVE  IInv'
    <1>1. tun[t] \in Socket /\ tun[t].pc = "upgrading"
        BY KnownSocket DEF Upgraded
    <1>2. PICK y : y = [tun[t] EXCEPT !.pc = "connected", !.ws = "open"]
        OBVIOUS
    <1>3. y \in Socket
        BY <1>1, <1>2 DEF Socket
    <1>4. /\ y.page = tun[t].page /\ y.closed = tun[t].closed /\ y.kept = tun[t].kept /\ y.up = tun[t].up /\ y.down = tun[t].down
          /\ y.decoding = tun[t].decoding /\ y.sent = tun[t].sent /\ y.got = tun[t].got /\ y.made = tun[t].made
          /\ y.shim = tun[t].shim /\ y.seen = tun[t].seen /\ y.pc = "connected" /\ y.ws = "open"
        BY <1>1, <1>2 DEF Socket
    <1>5. Set(t, y)
        BY <1>2 DEF Upgraded
    <1>6. QED
        BY <1>1, <1>3, <1>4, <1>5, StageOK

LEMMA UpgradeFailsOK ==
    ASSUME IInv, NEW t \in Tunnel, UpgradeFails(t)
    PROVE  IInv'
    <1>1. tun[t] \in Socket /\ SocketOK(tun[t]) /\ tun[t].page \in Page /\ tun[t].pc = "upgrading"
        BY KnownSocket DEF UpgradeFails
    <1>2. PICK y : y = [tun[t] EXCEPT !.pc = "over"]
        OBVIOUS
    <1>3. y \in Socket
        BY <1>1, <1>2 DEF Socket
    <1>4. /\ y.page = tun[t].page /\ y.closed = tun[t].closed /\ y.kept = tun[t].kept /\ y.up = tun[t].up /\ y.down = tun[t].down
          /\ y.decoding = tun[t].decoding /\ y.sent = tun[t].sent /\ y.got = tun[t].got /\ y.made = tun[t].made
          /\ y.shim = tun[t].shim /\ y.seen = tun[t].seen /\ y.pc = "over" /\ y.ws = tun[t].ws
        BY <1>1, <1>2 DEF Socket
    <1>5. SocketOK(y)
        <2>1. Upward(y)
            BY <1>1, <1>4 DEF SocketOK, Upward
        <2>2. Downward(y)
            BY <1>1, <1>3, <1>4, SameDownward DEF SocketOK
        <2>3. QED
            BY <1>1, <1>4, <2>1, <2>2 DEF SocketOK
    <1>6. Set(t, Failed(y))
        BY <1>2 DEF UpgradeFails
    <1>7. /\ Failed(y) \in Socket /\ SocketOK(Failed(y)) /\ Failed(y).closed
        BY <1>3, <1>4, <1>5, FailedOK DEF Begun
    <1>8. QED
        BY <1>6, <1>7, SetOK DEF Booked

\* A word for the document of a socket that is not closed.
LEMMA SameUpward ==
    ASSUME NEW x \in Socket, NEW y \in Socket, Upward(x), y.pc = x.pc, y.closed = x.closed, y.up = x.up, y.ws = x.ws,
           y.decoding = x.decoding, y.sent = x.sent, y.got = x.got
    PROVE  Upward(y)
    BY DEF Upward

LEMMA GuestSendsOK ==
    ASSUME IInv, NEW t \in Tunnel, GuestSends(t)
    PROVE  IInv'
    <1> DEFINE x == tun[t]
               n == x.made + 1
    <1>1. /\ x \in Socket /\ SocketOK(x) /\ \A p \in Page : x.page = p => Booked(x, gen[p])
          /\ x.ws \in {"open", "closing"} /\ x.made \in Nat /\ n \in Nat \ {0} /\ x.down \in Seq(Message) /\ x.early \in Seq(Nat)
        BY KnownSocket DEF GuestSends, Socket
    <1>2. PICK y : y = [x EXCEPT !.made = x.made + 1,
                            !.early = IF x.pc = "connected" THEN Append(@, x.made + 1) ELSE @,
                            !.down = IF x.pc = "connected" \/ x.closed THEN @ ELSE Append(@, Frame(x.made + 1))]
        OBVIOUS
    <1>3. Set(t, y)
        BY <1>2 DEF GuestSends
    <1>4. Frame(n) \in Message /\ Frame(n).kind = "frame" /\ Frame(n).n = n
        BY <1>1 DEF Frame, Message
    <1>5. Append(x.early, n) \in Seq(Nat) /\ Append(x.down, Frame(n)) \in Seq(Message)
        BY <1>1, <1>4, AppendOf
    <1>6. y \in Socket
        BY <1>1, <1>2, <1>5 DEF Socket
    <1>7. /\ y.page = x.page /\ y.pc = x.pc /\ y.closed = x.closed /\ y.up = x.up /\ y.ws = x.ws /\ y.decoding = x.decoding
          /\ y.sent = x.sent /\ y.got = x.got /\ y.shim = x.shim /\ y.seen = x.seen /\ y.kept = x.kept /\ y.gen = x.gen
        BY <1>1, <1>2 DEF Socket
    <1>8. y.made = n /\ y.down = IF x.pc = "connected" \/ x.closed THEN x.down ELSE Append(x.down, Frame(n))
        BY <1>1, <1>2 DEF Socket
    <1> HIDE DEF x
    <1>9. Upward(y)
        BY <1>1, <1>6, <1>7, SameUpward DEF SocketOK
    <1>10. x.pc \in {"none", "asked", "upgrading"} => FALSE
        BY <1>1 DEF SocketOK, Upward
    <1>11. Downward(y)
        <2>1. CASE x.pc = "connected"
            <3>1. x.down = <<>> /\ x.shim \in {0, 2} /\ ~x.closed /\ DOMAIN x.down = {}
                BY <1>1, <2>1 DEF SocketOK, Downward
            <3>2. QED
                BY <1>1, <1>7, <1>8, <2>1, <3>1 DEF SocketOK, Downward
        <2>2. CASE x.pc # "connected" /\ x.closed
            <3>1. \A o \in Nat, a \in Nat : Follows(x, o, a) => Follows(y, o, a)
                BY <1>7, <1>8, <2>2 DEF Follows
            <3>2. DOMAIN x.down \subseteq Nat
                BY <1>1
            <3>3. y.down = x.down
                BY <1>8, <2>2
            <3>4. QED
                BY <1>1, <1>7, <1>10, <2>2, <3>1, <3>2, <3>3 DEF SocketOK, Downward
        <2>3. CASE x.pc # "connected" /\ ~x.closed
            <3>1. /\ y.down = Append(x.down, Frame(n)) /\ Len(x.down) \in Nat /\ Len(y.down) = Len(x.down) + 1
                  /\ DOMAIN x.down = 1 .. Len(x.down) /\ DOMAIN y.down = 1 .. Len(x.down) + 1
                  /\ \A i \in 1 .. Len(x.down) : y.down[i] = x.down[i]
                BY <1>1, <1>4, <1>8, <2>3, AppendOf
            <3>2. y.down[Len(x.down) + 1] = Frame(n)
                BY <1>1, <1>4, <1>8, <2>3, AppendOf
            <3>3. ASSUME NEW o \in Nat, NEW a \in Nat, o <= Len(x.down), Follows(x, o, a)
                  PROVE  Follows(y, o, a)
                <4>1. x.made + o = a + Len(x.down) /\ Numbered(x.down, o, a) /\ \A i \in DOMAIN x.down : i > o => x.down[i].kind = "frame"
                    BY <2>3, <3>3 DEF Follows
                <4>2. n + o = a + Len(x.down) + 1
                    <5>1. x.made + o = a + Len(x.down)
                        BY <4>1
                    <5>2. x.made \in Nat /\ Len(x.down) \in Nat
                        BY <1>1, <3>1
                    <5>3. QED
                        BY <5>1, <5>2
                <4>3. Numbered(y.down, o, a)
                    BY <1>1, <1>4, <3>1, <3>3, <4>1, <4>2, NumberedAppend
                <4>4. \A i \in DOMAIN y.down : i > o => y.down[i].kind = "frame"
                    BY <1>4, <3>1, <3>2, <4>1
                <4>5. y.made + o = a + Len(y.down)
                    BY <1>8, <3>1, <4>2
                <4>6. QED
                    BY <4>3, <4>4, <4>5 DEF Follows
            <3>4. ASSUME NEW o \in DOMAIN y.down, y.down[o].kind = "open"
                  PROVE  o \in DOMAIN x.down /\ x.down[o].kind = "open" /\ o \in Nat /\ o <= Len(x.down)
                BY <1>4, <3>1, <3>2, <3>4
            <3>5. y.shim = 0 => y.seen = <<>> /\ \A o \in DOMAIN y.down : y.down[o].kind = "open" => \E a \in Nat : Follows(y, o, a)
                <4>1. SUFFICES ASSUME x.shim = 0, NEW o \in DOMAIN y.down, y.down[o].kind = "open"
                               PROVE  \E a \in Nat : Follows(y, o, a)
                    BY <1>1, <1>7 DEF SocketOK, Downward
                <4>2. PICK a \in Nat : Follows(x, o, a)
                    BY <1>1, <3>4, <4>1 DEF SocketOK, Downward
                <4>3. Follows(y, o, a)
                    BY <3>3, <3>4, <4>1, <4>2
                <4>4. QED
                    BY <4>3
            <3>6. y.shim = 1 => \E a \in Nat : Follows(y, 0, a) /\ (y.seen # <<>> => y.seen[Len(y.seen)] = a)
                <4>1. SUFFICES ASSUME x.shim = 1
                               PROVE  \E a \in Nat : Follows(y, 0, a) /\ (y.seen # <<>> => y.seen[Len(y.seen)] = a)
                    BY <1>7
                <4>2. PICK a \in Nat : Follows(x, 0, a) /\ (x.seen # <<>> => x.seen[Len(x.seen)] = a)
                    BY <1>1, <4>1 DEF SocketOK, Downward
                <4>3. Follows(y, 0, a)
                    BY <3>1, <3>3, <4>2
                <4>4. QED
                    BY <1>7, <4>2, <4>3
            <3>7. QED
                BY <1>1, <1>7, <1>10, <2>3, <3>5, <3>6 DEF SocketOK, Downward
        <2>4. QED
            BY <2>1, <2>2, <2>3
    <1>12. SocketOK(y) /\ \A p \in Page : y.page = p => Booked(y, gen[p])
        BY <1>1, <1>7, <1>9, <1>11 DEF SocketOK, Booked
    <1>13. QED
        BY <1>3, <1>6, <1>12, SetOK

LEMMA GuestClosesOK ==
    ASSUME IInv, NEW t \in Tunnel, GuestCloses(t)
    PROVE  IInv'
    <1>1. /\ tun[t] \in Socket /\ SocketOK(tun[t]) /\ \A p \in Page : tun[t].page = p => Booked(tun[t], gen[p])
          /\ tun[t].ws \in {"open", "closing"}
        BY KnownSocket DEF GuestCloses
    <1>2. PICK y : y = [tun[t] EXCEPT !.ws = "closed"]
        OBVIOUS
    <1>3. y \in Socket /\ y.ws = "closed"
        BY <1>1, <1>2 DEF Socket
    <1>4. /\ y.page = tun[t].page /\ y.closed = tun[t].closed /\ y.kept = tun[t].kept /\ y.up = tun[t].up /\ y.down = tun[t].down
          /\ y.decoding = tun[t].decoding /\ y.sent = tun[t].sent /\ y.got = tun[t].got /\ y.made = tun[t].made
          /\ y.shim = tun[t].shim /\ y.seen = tun[t].seen /\ y.pc = tun[t].pc /\ y.gen = tun[t].gen
        BY <1>1, <1>2 DEF Socket
    <1>5. SocketOK(y)
        <2>1. Upward(y)
            BY <1>1, <1>3, <1>4 DEF SocketOK, Upward
        <2>2. Downward(y)
            BY <1>1, <1>3, <1>4, SameDownward DEF SocketOK
        <2>3. QED
            BY <1>1, <1>4, <2>1, <2>2 DEF SocketOK
    <1>6. Set(t, IF y.pc = "connected" THEN y ELSE Finished(y))
        BY <1>2 DEF GuestCloses
    <1>7. CASE y.pc = "connected"
        <2>1. Set(t, y)
            BY <1>6, <1>7
        <2>2. QED
            BY <1>1, <1>3, <1>4, <1>5, <2>1, SetOK DEF Booked
    <1>8. CASE y.pc # "connected"
        <2>1. y.pc \in Begun
            BY <1>1, <1>4, <1>8 DEF Begun, Socket, SocketOK, Upward
        <2>2. Finished(y) \in Socket /\ SocketOK(Finished(y)) /\ Finished(y).closed
            BY <1>3, <1>5, <2>1, FinishedOK
        <2>3. Set(t, Finished(y))
            BY <1>6, <1>8
        <2>4. QED
            BY <2>2, <2>3, SetOK DEF Booked
    <1>9. QED
        BY <1>7, <1>8

\* The messages that came early, and the word "open" behind them unless the guest has gone.
LEMMA WireOK ==
    ASSUME IInv, NEW t \in Tunnel, Wire(t)
    PROVE  IInv'
    <1> DEFINE x == tun[t]
               f == [i \in DOMAIN x.early |-> Frame(x.early[i])]
               n == Len(x.early)
    <1>1. x \in Socket /\ SocketOK(x) /\ x.pc = "connected" /\ x.early \in Seq(Nat) /\ x.page \in Page
        BY KnownSocket DEF Wire, Socket
    <1>2. x.down = <<>> /\ x.shim \in {0, 2} /\ ~x.closed /\ (x.shim = 0 => x.seen = <<>>) /\ x.made \in Nat
        BY <1>1 DEF SocketOK, Downward, Socket
    <1>3. /\ f \in Seq(Message) /\ Len(f) = n /\ n \in Nat /\ DOMAIN f = 1 .. n
          /\ \A i \in 1 .. n : f[i].kind = "frame"
        <2>1. n \in Nat /\ DOMAIN x.early = 1 .. n /\ \A i \in 1 .. n : x.early[i] \in Nat
            BY <1>1, LenProperties, ElementOfSeq
        <2>2. \A i \in 1 .. n : Frame(x.early[i]) \in Message /\ Frame(x.early[i]).kind = "frame"
            BY <2>1 DEF Frame, Message
        <2>3. f = [i \in 1 .. n |-> Frame(x.early[i])]
            BY <2>1
        <2>4. f \in [1 .. n -> Message]
            BY <2>2, <2>3
        <2>5. f \in Seq(Message)
            BY <2>1, <2>4, SeqDef
        <2>6. DOMAIN f = 1 .. n /\ Len(f) = n
            BY <2>1, <2>3, <2>5, LenProperties
        <2>7. QED
            BY <2>1, <2>2, <2>3, <2>5, <2>6
    <1>4. x.down \o f = f
        BY <1>2, <1>3, ConcatEmptySeq
    <1>5. PICK heard : heard = [x EXCEPT !.pc = "wired", !.down = @ \o f, !.early = <<>>]
        OBVIOUS
    <1>6. Set(t, IF heard.ws = "closed" THEN Finished(heard) ELSE [heard EXCEPT !.down = Append(@, Word("open"))])
        BY <1>5 DEF Wire
    <1> HIDE DEF f
    <1>7. heard \in Socket /\ heard.down = f /\ heard.pc = "wired"
        <2>1. <<>> \in Seq(Nat) /\ x.down \o f \in Seq(Message)
            BY <1>3, <1>4
        <2>2. QED
            BY <1>1, <1>4, <1>5, <2>1 DEF Socket
    <1>8. /\ heard.page = x.page /\ heard.closed = x.closed /\ heard.kept = x.kept /\ heard.up = x.up /\ heard.ws = x.ws /\ heard.decoding = x.decoding
          /\ heard.sent = x.sent /\ heard.got = x.got /\ heard.made = x.made /\ heard.shim = x.shim /\ heard.seen = x.seen
        BY <1>1, <1>5 DEF Socket
    <1>9. Upward(heard)
        BY <1>1, <1>7, <1>8 DEF SocketOK, Upward
    <1> HIDE DEF x, n
    <1>10. InOrder(x.seen) /\ (x.shim # 3 => \A i \in DOMAIN x.seen : x.seen[i] # 0)
        BY <1>1 DEF SocketOK, Downward
    <1>11. CASE heard.ws = "closed"
        <2>1. Downward(heard)
            BY <1>2, <1>3, <1>7, <1>8, <1>10 DEF Downward
        <2>2. SocketOK(heard)
            BY <1>1, <1>8, <1>9, <2>1 DEF SocketOK, Socket, Upward
        <2>3. Finished(heard) \in Socket /\ SocketOK(Finished(heard)) /\ Finished(heard).closed
            BY <1>7, <2>2, FinishedOK DEF Begun
        <2>4. Set(t, Finished(heard))
            BY <1>6, <1>11
        <2>5. QED
            BY <2>3, <2>4, SetOK DEF Booked
    <1>12. CASE heard.ws # "closed"
        <2>1. PICK y : y = [heard EXCEPT !.down = Append(@, Word("open"))]
            OBVIOUS
        <2>2. Word("open") \in Message /\ Word("open").kind = "open"
            BY DEF Word, Message
        <2>3. /\ Append(f, Word("open")) \in Seq(Message) /\ DOMAIN Append(f, Word("open")) = 1 .. n + 1
              /\ Len(Append(f, Word("open"))) = n + 1
              /\ \A i \in 1 .. n : Append(f, Word("open"))[i] = f[i]
            BY <1>3, <2>2, AppendOf
        <2>4. y \in Socket /\ y.down = Append(f, Word("open"))
            BY <1>7, <2>1, <2>3 DEF Socket
        <2>5. /\ y.page = x.page /\ y.closed = x.closed /\ y.kept = x.kept /\ y.up = x.up /\ y.ws = x.ws /\ y.decoding = x.decoding
              /\ y.sent = x.sent /\ y.got = x.got /\ y.made = x.made /\ y.shim = x.shim /\ y.seen = x.seen /\ y.pc = "wired"
            BY <1>7, <1>8, <2>1 DEF Socket
        <2>6. Upward(y)
            BY <1>7, <1>8, <1>9, <2>4, <2>5, SameUpward
        <2>7. Follows(y, n + 1, x.made)
            <3>1. \A i \in DOMAIN y.down : ~(i > n + 1)
                BY <1>3, <2>3, <2>4
            <3>2. Numbered(y.down, n + 1, x.made)
                BY <3>1 DEF Numbered
            <3>3. y.made + (n + 1) = x.made + Len(y.down)
                BY <1>2, <1>3, <2>3, <2>4, <2>5
            <3>4. QED
                BY <3>1, <3>2, <3>3 DEF Follows
        <2>8. \A o \in DOMAIN y.down : y.down[o].kind = "open" => o = n + 1
            BY <1>3, <2>3, <2>4
        <2>9. Downward(y)
            BY <1>2, <1>10, <2>5, <2>7, <2>8 DEF Downward
        <2>10. Set(t, y)
            BY <1>6, <1>12, <2>1
        <2>11. x.page # None
            BY <1>1, PreviewAssumption
        <2>12. QED
            BY <2>4, <2>5, <2>6, <2>9, <2>10, <2>11, SetOK DEF SocketOK, Booked
    <1>13. QED
        BY <1>11, <1>12

LEMMA KeepOK ==
    ASSUME IInv, NEW t \in Tunnel, Keep(t)
    PROVE  IInv'
    <1>1. tun[t] \in Socket /\ SocketOK(tun[t]) /\ tun[t].page \in Page /\ tun[t].pc = "wired"
        BY KnownSocket DEF Keep
    <1>2. PICK x : x = IF gen[tun[t].page] # tun[t].gen THEN Released(tun[t]) ELSE [tun[t] EXCEPT !.kept = TRUE]
        OBVIOUS
    <1>3. PICK y : y = [x EXCEPT !.pc = "open"]
        OBVIOUS
    <1>4. Set(t, y)
        BY <1>2, <1>3 DEF Keep
    <1>5. /\ x \in Socket /\ SocketOK(x) /\ x.page = tun[t].page /\ x.pc = "wired"
          /\ x.closed \/ (x.kept /\ x.gen = gen[tun[t].page])
        <2>1. CASE gen[tun[t].page] # tun[t].gen
            BY <1>1, <1>2, <2>1, ReleasedOK DEF Begun
        <2>2. CASE gen[tun[t].page] = tun[t].gen
            <3>1. x = [tun[t] EXCEPT !.kept = TRUE]
                BY <1>2, <2>2
            <3>2. x \in Socket /\ x.kept
                BY <1>1, <3>1 DEF Socket
            <3>3. /\ x.page = tun[t].page /\ x.closed = tun[t].closed /\ x.up = tun[t].up /\ x.ws = tun[t].ws
                  /\ x.decoding = tun[t].decoding /\ x.sent = tun[t].sent /\ x.got = tun[t].got /\ x.made = tun[t].made
                  /\ x.shim = tun[t].shim /\ x.seen = tun[t].seen /\ x.pc = tun[t].pc /\ x.down = tun[t].down /\ x.gen = tun[t].gen
                BY <1>1, <3>1 DEF Socket
            <3>4. Upward(x) /\ Downward(x)
                BY <1>1, <3>2, <3>3, SameUpward, SameDownward DEF SocketOK
            <3>5. QED
                BY <1>1, <2>2, <3>2, <3>3, <3>4 DEF SocketOK
        <2>3. QED
            BY <2>1, <2>2
    <1>6. y \in Socket /\ y.pc = "open"
        BY <1>3, <1>5 DEF Socket
    <1>7. /\ y.page = x.page /\ y.closed = x.closed /\ y.up = x.up /\ y.ws = x.ws /\ y.decoding = x.decoding /\ y.sent = x.sent
          /\ y.got = x.got /\ y.made = x.made /\ y.shim = x.shim /\ y.seen = x.seen /\ y.down = x.down /\ y.kept = x.kept /\ y.gen = x.gen
        BY <1>3, <1>5 DEF Socket
    <1>8. Upward(y)
        BY <1>5, <1>6, <1>7 DEF SocketOK, Upward
    <1>9. Downward(y)
        BY <1>5, <1>6, <1>7, SameDownward DEF SocketOK
    <1>10. SocketOK(y) /\ \A p \in Page : y.page = p => Booked(y, gen[p])
        BY <1>5, <1>6, <1>7, <1>8, <1>9 DEF SocketOK, Booked
    <1>11. QED
        BY <1>4, <1>6, <1>10, SetOK

LEMMA ShimPostsOK ==
    ASSUME IInv, NEW t \in Tunnel, NEW kind \in {"frame", "blob", "close", "bad"}, ShimPosts(t, kind)
    PROVE  IInv'
    <1> DEFINE x == tun[t]
               n == x.sent + IF kind \in {"frame", "blob"} THEN 1 ELSE 0
               m == [kind |-> kind, n |-> x.sent + IF kind \in {"frame", "blob"} THEN 1 ELSE 0]
    <1>1. /\ x \in Socket /\ SocketOK(x) /\ \A p \in Page : x.page = p => Booked(x, gen[p])
          /\ x.sent \in Nat /\ x.up \in Seq(Posted) /\ Len(x.got) \in Nat /\ x.shim \in 0 .. 3
        BY KnownSocket, LenProperties DEF Socket
    <1>2. PICK y : y = [x EXCEPT !.up = IF x.closed THEN @ ELSE Append(@, m), !.sent = n, !.shim = IF kind = "close" THEN 2 ELSE @]
        OBVIOUS
    <1>3. Set(t, y)
        BY <1>2 DEF ShimPosts
    <1>4. n \in Nat /\ x.sent <= n /\ m \in Posted /\ m.n = n /\ m.kind = kind /\ m.n = x.sent + Counts(m)
        BY <1>1 DEF Posted, Counts
    <1>5. kind = "close" => x.shim \in {0, 1}
        BY <1>1 DEF ShimPosts
    <1> HIDE DEF m, n
    <1>6. /\ Append(x.up, m) \in Seq(Posted) /\ Append(x.up, m) # <<>> /\ DOMAIN x.up = 1 .. Len(x.up)
          /\ DOMAIN Append(x.up, m) = 1 .. Len(x.up) + 1 /\ Len(x.up) \in Nat
          /\ \A i \in 1 .. Len(x.up) : Append(x.up, m)[i] = x.up[i]
        BY <1>1, <1>4, AppendOf
    <1>7. Append(x.up, m)[Len(x.up) + 1] = m
        BY <1>1, <1>4, AppendOf
    <1>8. y \in Socket
        <2>1. (IF x.closed THEN x.up ELSE Append(x.up, m)) \in Seq(Posted) /\ (IF kind = "close" THEN 2 ELSE x.shim) \in 0 .. 3
            BY <1>1, <1>6
        <2>2. y = [x EXCEPT !.up = IF x.closed THEN x.up ELSE Append(x.up, m), !.sent = n,
                            !.shim = IF kind = "close" THEN 2 ELSE x.shim]
            BY <1>2
        <2>3. QED
            BY <1>1, <1>4, <2>1, <2>2 DEF Socket
    <1>9. /\ y.page = x.page /\ y.pc = x.pc /\ y.closed = x.closed /\ y.ws = x.ws /\ y.decoding = x.decoding /\ y.got = x.got
          /\ y.made = x.made /\ y.seen = x.seen /\ y.down = x.down /\ y.kept = x.kept /\ y.gen = x.gen
        BY <1>1, <1>2 DEF Socket
    <1>10. /\ y.sent = n /\ y.shim = (IF kind = "close" THEN 2 ELSE x.shim)
           /\ y.up = IF x.closed THEN x.up ELSE Append(x.up, m)
        BY <1>1, <1>2 DEF Socket
    <1> HIDE DEF x
    <1>11. Upward(y)
        <2>1. \A i \in DOMAIN x.up : x.up[i] \in Posted /\ x.up[i].n \in Nat
            BY <1>1, PostedOf
        <2>2. \A i \in DOMAIN x.up : x.up[i].n <= n
            BY <1>1, <1>4, <2>1 DEF SocketOK, Upward
        <2>3. \A i \in DOMAIN y.up : y.up[i].n <= y.sent
            <3>1. \A i \in 1 .. Len(x.up) + 1 : Append(x.up, m)[i].n <= n
                <4>1. \A i \in 1 .. Len(x.up) : Append(x.up, m)[i].n <= n
                    BY <1>6, <2>2
                <4>2. Append(x.up, m)[Len(x.up) + 1].n <= n
                    BY <1>4, <1>7
                <4>3. QED
                    BY <1>6, <4>1, <4>2
            <3>2. CASE x.closed
                BY <1>10, <2>2, <3>2
            <3>3. CASE ~x.closed
                BY <1>6, <1>10, <3>1, <3>3
            <3>4. QED
                BY <3>2, <3>3
        <2>4. Len(y.got) <= y.sent
            <3>1. Len(x.got) <= x.sent
                BY <1>1 DEF SocketOK, Upward
            <3>2. y.got = x.got /\ y.sent = n
                BY <1>9, <1>10
            <3>3. Len(x.got) \in Nat /\ x.sent \in Nat /\ n \in Nat /\ x.sent <= n
                BY <1>1, <1>4
            <3>4. QED
                BY <3>1, <3>2, <3>3
        <2>5. ~y.closed /\ y.ws \in {"none", "open"} => Chained(y.up, Len(y.got), y.sent)
            <3>1. SUFFICES ASSUME ~x.closed, x.ws \in {"none", "open"}
                           PROVE  Chained(Append(x.up, m), Len(x.got), n)
                BY <1>9, <1>10
            <3>2. Chained(x.up, Len(x.got), x.sent)
                BY <1>1, <3>1 DEF SocketOK, Upward
            <3>3. QED
                BY <1>1, <1>4, <3>2, ChainAppend
        <2>6. y.decoding /\ ~y.closed => y.up # <<>> /\ y.up[1].kind = "blob"
            <3>1. SUFFICES ASSUME x.decoding, ~x.closed
                           PROVE  Append(x.up, m) # <<>> /\ Append(x.up, m)[1].kind = "blob"
                BY <1>9, <1>10
            <3>2. x.up # <<>> /\ x.up[1].kind = "blob"
                BY <1>1, <3>1 DEF SocketOK, Upward
            <3>3. 1 \in 1 .. Len(x.up)
                BY <1>1, <3>2, EmptySeq, LenProperties
            <3>4. QED
                BY <1>6, <3>2, <3>3
        <2>7. QED
            BY <1>1, <1>9, <1>10, <2>3, <2>4, <2>5, <2>6 DEF SocketOK, Upward
    <1>12. Downward(y)
        <2>1. CASE kind = "close"
            BY <1>1, <1>5, <1>9, <1>10, <2>1 DEF SocketOK, Downward
        <2>2. CASE kind # "close"
            BY <1>1, <1>8, <1>9, <1>10, <2>2, SameDownward DEF SocketOK
        <2>3. QED
            BY <2>1, <2>2
    <1>13. SocketOK(y) /\ \A p \in Page : y.page = p => Booked(y, gen[p])
        BY <1>1, <1>9, <1>11, <1>12 DEF SocketOK, Booked
    <1>14. QED
        BY <1>3, <1>8, <1>13, SetOK

LEMMA HandleOK ==
    ASSUME IInv, NEW t \in Tunnel, Handle(t)
    PROVE  IInv'
    <1> DEFINE x == tun[t]
    <1>1. /\ x \in Socket /\ SocketOK(x) /\ \A p \in Page : x.page = p => Booked(x, gen[p])
          /\ x.pc \in {"wired", "open"} /\ x.up # <<>> /\ ~x.decoding /\ x.up \in Seq(Posted)
        BY KnownSocket DEF Handle, Socket
    <1>2. ~x.closed /\ x.ws # "none"
        BY <1>1 DEF SocketOK, Upward
    <1>3. Head(x.up) = x.up[1] /\ Tail(x.up) \in Seq(Posted) /\ x.up[1] \in Posted /\ x.up[1].n \in Nat
        <2>1. x.up \in Seq(Posted) /\ x.up # <<>>
            BY <1>1
        <2>2. QED
            BY <2>1, TailOf, PostedOf
    <1>4. PICK z : z = [x EXCEPT !.up = Tail(@)]
        OBVIOUS
    <1>5. Set(t, CASE x.up[1].kind = "close" -> Closing(z)
                   [] x.up[1].kind = "bad" -> Failed(Closing(z))
                   [] x.up[1].kind = "blob" -> [x EXCEPT !.decoding = TRUE]
                   [] OTHER -> Sent(z, x.up[1].n))
        BY <1>3, <1>4 DEF Handle
    <1>6. z \in Socket /\ z.up = Tail(x.up)
        BY <1>1, <1>3, <1>4 DEF Socket
    <1>7. /\ z.page = x.page /\ z.pc = x.pc /\ z.closed = x.closed /\ z.ws = x.ws /\ z.decoding = x.decoding /\ z.sent = x.sent
          /\ z.got = x.got /\ z.made = x.made /\ z.shim = x.shim /\ z.seen = x.seen /\ z.down = x.down /\ z.kept = x.kept /\ z.gen = x.gen
        BY <1>1, <1>4 DEF Socket
    <1>8. CASE x.up[1].kind \in {"close", "bad"}
        <2>1. SocketOK(z)
            BY <1>1, <1>2, <1>6, <1>7, <1>8, TakenOK
        <2>2. Closing(z) \in Socket /\ SocketOK(Closing(z)) /\ Closing(z).page = z.page /\ Closing(z).pc = z.pc
            BY <1>6, <2>1, ClosingOK
        <2>3. CASE x.up[1].kind = "close"
            <3>1. Closing(z).closed = z.closed /\ Closing(z).kept = z.kept /\ Closing(z).gen = z.gen
                BY <1>6 DEF Closing, Socket
            <3>2. \A p \in Page : Closing(z).page = p => Booked(Closing(z), gen[p])
                BY <1>1, <1>7, <2>2, <3>1 DEF Booked
            <3>3. Set(t, Closing(z))
                BY <1>5, <2>3
            <3>4. QED
                BY <2>2, <3>2, <3>3, SetOK
        <2>4. CASE x.up[1].kind = "bad"
            <3>1. Failed(Closing(z)) \in Socket /\ SocketOK(Failed(Closing(z))) /\ Failed(Closing(z)).closed
                BY <1>1, <1>7, <2>2, FailedOK DEF Begun
            <3>2. Set(t, Failed(Closing(z)))
                BY <1>5, <2>4
            <3>3. QED
                BY <3>1, <3>2, SetOK DEF Booked
        <2>5. QED
            BY <1>8, <2>3, <2>4
    <1>9. CASE x.up[1].kind = "blob"
        <2>1. PICK y : y = [x EXCEPT !.decoding = TRUE]
            OBVIOUS
        <2>2. y \in Socket /\ y.decoding
            BY <1>1, <2>1 DEF Socket
        <2>3. /\ y.page = x.page /\ y.pc = x.pc /\ y.closed = x.closed /\ y.ws = x.ws /\ y.up = x.up /\ y.sent = x.sent
              /\ y.got = x.got /\ y.made = x.made /\ y.shim = x.shim /\ y.seen = x.seen /\ y.down = x.down /\ y.kept = x.kept /\ y.gen = x.gen
            BY <1>1, <2>1 DEF Socket
        <2>4. Upward(y)
            BY <1>1, <1>2, <1>9, <2>2, <2>3 DEF SocketOK, Upward
        <2>5. Downward(y)
            BY <1>1, <2>2, <2>3, SameDownward DEF SocketOK
        <2>6. SocketOK(y) /\ \A p \in Page : y.page = p => Booked(y, gen[p])
            BY <1>1, <2>3, <2>4, <2>5 DEF SocketOK, Booked
        <2>7. Set(t, y)
            BY <1>5, <1>9, <2>1
        <2>8. QED
            BY <2>2, <2>6, <2>7, SetOK
    <1>10. CASE x.up[1].kind \notin {"close", "bad", "blob"}
        <2>1. PICK y : y = Sent(z, x.up[1].n)
            OBVIOUS
        <2>2. Set(t, y)
            BY <1>5, <1>10, <2>1
        <2>3. Append(z.got, x.up[1].n) \in Seq(Nat)
            BY <1>3, <1>6, AppendOf DEF Socket
        <2>4. y \in Socket /\ y.got = (IF x.ws = "open" THEN Append(x.got, x.up[1].n) ELSE x.got)
            BY <1>6, <1>7, <2>1, <2>3 DEF Sent, Socket
        <2>5. /\ y.page = x.page /\ y.pc = x.pc /\ y.closed = x.closed /\ y.ws = x.ws /\ y.up = Tail(x.up) /\ y.sent = x.sent
              /\ y.decoding = x.decoding /\ y.made = x.made /\ y.shim = x.shim /\ y.seen = x.seen /\ y.down = x.down
              /\ y.kept = x.kept /\ y.gen = x.gen
            BY <1>6, <1>7, <2>1 DEF Sent, Socket
        <2>6. x.up[1].kind = "frame"
            BY <1>3, <1>10 DEF Posted
        <2>7. y.decoding = FALSE
            BY <1>1, <2>5 DEF Socket
        <2>8. SocketOK(y)
            BY <1>1, <1>2, <2>4, <2>5, <2>6, <2>7, SentOK
        <2>9. QED
            BY <1>1, <2>2, <2>4, <2>5, <2>8, SetOK DEF Booked
    <1>11. QED
        BY <1>8, <1>9, <1>10

LEMMA DecodedOK ==
    ASSUME IInv, NEW t \in Tunnel, Decoded(t)
    PROVE  IInv'
    <1> DEFINE x == tun[t]
    <1>1. /\ x \in Socket /\ SocketOK(x) /\ \A p \in Page : x.page = p => Booked(x, gen[p])
          /\ x.decoding /\ x.up \in Seq(Posted)
        BY KnownSocket DEF Decoded, Socket
    <1>2. CASE x.up = <<>>
        <2>1. PICK y : y = [x EXCEPT !.decoding = FALSE]
            OBVIOUS
        <2>2. y \in Socket /\ ~y.decoding
            BY <1>1, <2>1 DEF Socket
        <2>3. /\ y.page = x.page /\ y.pc = x.pc /\ y.closed = x.closed /\ y.ws = x.ws /\ y.up = x.up /\ y.sent = x.sent
              /\ y.got = x.got /\ y.made = x.made /\ y.shim = x.shim /\ y.seen = x.seen /\ y.down = x.down /\ y.kept = x.kept /\ y.gen = x.gen
            BY <1>1, <2>1 DEF Socket
        <2>4. Upward(y) /\ Downward(y)
            BY <1>1, <2>2, <2>3, SameDownward DEF SocketOK, Upward
        <2>5. Set(t, y)
            BY <1>2, <2>1 DEF Decoded
        <2>6. QED
            BY <1>1, <2>2, <2>3, <2>4, <2>5, SetOK DEF SocketOK, Booked
    <1>3. CASE x.up # <<>>
        <2>1. Head(x.up) = x.up[1] /\ Tail(x.up) \in Seq(Posted) /\ x.up[1] \in Posted /\ x.up[1].n \in Nat
            <3>1. x.up \in Seq(Posted) /\ x.up # <<>>
                BY <1>1, <1>3
            <3>2. QED
                BY <3>1, TailOf, PostedOf
        <2>2. ~x.closed /\ x.ws # "none" /\ x.up[1].kind = "blob"
            BY <1>1, <1>3 DEF SocketOK, Upward, Socket
        <2>3. PICK z : z = Sent(x, x.up[1].n)
            OBVIOUS
        <2>4. PICK y : y = [z EXCEPT !.decoding = FALSE, !.up = Tail(@)]
            OBVIOUS
        <2>5. Set(t, y)
            BY <1>3, <2>1, <2>3, <2>4 DEF Decoded
        <2>6. Append(x.got, x.up[1].n) \in Seq(Nat)
            BY <1>1, <2>1, AppendOf DEF Socket
        <2>7. z \in Socket /\ z.got = (IF x.ws = "open" THEN Append(x.got, x.up[1].n) ELSE x.got)
            BY <1>1, <2>3, <2>6 DEF Sent, Socket
        <2>8. /\ z.page = x.page /\ z.pc = x.pc /\ z.closed = x.closed /\ z.ws = x.ws /\ z.up = x.up /\ z.sent = x.sent
              /\ z.made = x.made /\ z.shim = x.shim /\ z.seen = x.seen /\ z.down = x.down /\ z.kept = x.kept /\ z.gen = x.gen
            BY <1>1, <2>3 DEF Sent, Socket
        <2>9. y \in Socket /\ y.decoding = FALSE /\ y.up = Tail(x.up)
            BY <2>1, <2>4, <2>7, <2>8 DEF Socket
        <2>10. /\ y.page = x.page /\ y.pc = x.pc /\ y.closed = x.closed /\ y.ws = x.ws /\ y.got = z.got /\ y.sent = x.sent
               /\ y.made = x.made /\ y.shim = x.shim /\ y.seen = x.seen /\ y.down = x.down /\ y.kept = x.kept /\ y.gen = x.gen
            BY <2>4, <2>7, <2>8 DEF Socket
        <2>11. SocketOK(y)
            BY <1>1, <1>3, <2>2, <2>7, <2>9, <2>10, SentOK
        <2>12. QED
            BY <1>1, <2>5, <2>9, <2>10, <2>11, SetOK DEF Booked
    <1>4. QED
        BY <1>2, <1>3

LEMMA ShimReceivesOK ==
    ASSUME IInv, NEW t \in Tunnel, ShimReceives(t)
    PROVE  IInv'
    <1> DEFINE x == tun[t]
    <1>1. /\ x \in Socket /\ SocketOK(x) /\ \A p \in Page : x.page = p => Booked(x, gen[p])
          /\ x.down # <<>> /\ x.down \in Seq(Message) /\ x.seen \in Seq(Nat) /\ x.shim \in 0 .. 3 /\ x.closed \in BOOLEAN
        BY KnownSocket DEF ShimReceives, Socket
    <1>2. /\ Head(x.down) = x.down[1] /\ Tail(x.down) \in Seq(Message) /\ x.down[1] \in Message /\ Len(x.down) \in Nat \ {0}
          /\ DOMAIN x.down = 1 .. Len(x.down) /\ DOMAIN Tail(x.down) = 1 .. Len(x.down) - 1
          /\ \A i \in 1 .. Len(x.down) - 1 : Tail(x.down)[i] = x.down[i + 1]
        BY <1>1, TailOf
    <1>3. x.pc \notin {"none", "asked", "upgrading", "connected"}
        BY <1>1 DEF SocketOK, Downward
    <1>4. PICK z : z = [x EXCEPT !.down = Tail(@)]
        OBVIOUS
    <1>5. PICK y : y = CASE x.down[1].kind = "open" -> [z EXCEPT !.shim = IF @ = 0 THEN 1 ELSE @]
                         [] x.down[1].kind = "error" -> z
                         [] x.down[1].kind = "close" -> [z EXCEPT !.shim = 3, !.seen = IF z.shim = 3 THEN @ ELSE Append(@, 0)]
                         [] OTHER -> [z EXCEPT !.seen = IF z.shim = 1 THEN Append(@, x.down[1].n) ELSE @]
        OBVIOUS
    <1>6. Set(t, y)
        BY <1>2, <1>4, <1>5 DEF ShimReceives
    <1>7. z \in Socket /\ z.down = Tail(x.down)
        BY <1>1, <1>2, <1>4 DEF Socket
    <1>8. /\ z.page = x.page /\ z.pc = x.pc /\ z.closed = x.closed /\ z.ws = x.ws /\ z.up = x.up /\ z.sent = x.sent
          /\ z.decoding = x.decoding /\ z.got = x.got /\ z.made = x.made /\ z.shim = x.shim /\ z.seen = x.seen
          /\ z.kept = x.kept /\ z.gen = x.gen
        BY <1>1, <1>4 DEF Socket
    <1>9. x.down[1].n \in Nat /\ x.down[1].kind \in {"frame", "open", "error", "close"}
        BY <1>2 DEF Message
    <1> DEFINE shim == CASE x.down[1].kind = "open" /\ x.shim = 0 -> 1
                         [] x.down[1].kind = "close" -> 3
                         [] OTHER -> x.shim
               seen == CASE x.down[1].kind = "close" /\ x.shim # 3 -> Append(x.seen, 0)
                         [] x.down[1].kind = "frame" /\ x.shim = 1 -> Append(x.seen, x.down[1].n)
                         [] OTHER -> x.seen
    <1>10. shim \in 0 .. 3 /\ seen \in Seq(Nat)
        BY <1>1, <1>9, AppendOf
    <1>11. y = [z EXCEPT !.shim = shim, !.seen = seen]
        <2>1. z = [z EXCEPT !.shim = z.shim, !.seen = z.seen]
            BY <1>7 DEF Socket
        <2>2. CASE x.down[1].kind = "open"
            <3>1. y = [z EXCEPT !.shim = shim]
                BY <1>5, <1>8, <2>2
            <3>2. seen = z.seen
                BY <1>8, <2>2
            <3>3. QED
                BY <1>7, <3>1, <3>2 DEF Socket
        <2>3. CASE x.down[1].kind = "error"
            BY <1>5, <1>8, <2>1, <2>3
        <2>4. CASE x.down[1].kind = "close"
            BY <1>5, <1>8, <2>4
        <2>5. CASE x.down[1].kind = "frame"
            <3>1. y = [z EXCEPT !.seen = seen]
                BY <1>5, <1>8, <2>5
            <3>2. shim = z.shim
                BY <1>8, <2>5
            <3>3. QED
                BY <1>7, <3>1, <3>2 DEF Socket
        <2>6. QED
            BY <1>9, <2>2, <2>3, <2>4, <2>5
    <1>12. y \in Socket /\ y.shim = shim /\ y.seen = seen
        BY <1>7, <1>10, <1>11 DEF Socket
    <1>13. /\ y.page = x.page /\ y.pc = x.pc /\ y.closed = x.closed /\ y.ws = x.ws /\ y.up = x.up /\ y.sent = x.sent
           /\ y.decoding = x.decoding /\ y.got = x.got /\ y.made = x.made /\ y.kept = x.kept /\ y.gen = x.gen
           /\ y.down = Tail(x.down)
        BY <1>7, <1>8, <1>11 DEF Socket
    <1> HIDE DEF x
    <1>14. Upward(y)
        BY <1>1, <1>12, <1>13, SameUpward DEF SocketOK
    <1>15. ASSUME x.shim = 0
           PROVE  Downward(y)
        <2>1. x.seen = <<>> /\ DOMAIN x.seen = {}
            BY <1>1, <1>15 DEF SocketOK, Downward
        <2>2. CASE x.down[1].kind = "open"
            <3>1. PICK a \in Nat : Follows(x, 1, a)
                BY <1>1, <1>2, <1>15, <2>2 DEF SocketOK, Downward
            <3>2. Follows(y, 0, a)
                <4>1. 1 = 0 + 1
                    OBVIOUS
                <4>2. QED
                    BY <1>1, <1>12, <1>13, <3>1, <4>1, FollowsTail
            <3>3. y.shim = 1 /\ y.seen = <<>>
                BY <1>12, <1>15, <2>1, <2>2
            <3>4. QED
                BY <1>3, <1>13, <2>1, <3>2, <3>3 DEF Downward, InOrder
        <2>3. CASE x.down[1].kind = "close"
            <3>1. y.shim = 3 /\ y.seen = Append(<<>>, 0)
                BY <1>12, <1>15, <2>1, <2>3
            <3>2. InOrder(y.seen)
                BY <1>1, <2>1, <3>1, InOrderAppend DEF InOrder
            <3>3. QED
                BY <1>3, <1>13, <3>1, <3>2 DEF Downward
        <2>4. CASE x.down[1].kind \in {"frame", "error"}
            <3>1. y.shim = 0 /\ y.seen = <<>>
                BY <1>12, <1>15, <2>1, <2>4
            <3>2. ASSUME NEW o \in DOMAIN y.down, y.down[o].kind = "open"
                  PROVE  \E a \in Nat : Follows(y, o, a)
                <4>1. o \in Nat \ {0} /\ o + 1 \in DOMAIN x.down /\ x.down[o + 1].kind = "open" /\ o + 1 \in Nat
                    BY <1>2, <1>13, <3>2
                <4>2. PICK a \in Nat : Follows(x, o + 1, a)
                    BY <1>1, <1>15, <4>1 DEF SocketOK, Downward
                <4>3. Follows(y, o, a)
                    BY <1>1, <1>12, <1>13, <4>1, <4>2, FollowsTail
                <4>4. QED
                    BY <4>3
            <3>3. QED
                BY <1>3, <1>13, <2>1, <3>1, <3>2 DEF Downward, InOrder
        <2>5. QED
            BY <1>9, <2>2, <2>3, <2>4
    <1>16. ASSUME x.shim = 1
           PROVE  Downward(y)
        <2>1. PICK a \in Nat : Follows(x, 0, a) /\ (x.seen # <<>> => x.seen[Len(x.seen)] = a)
            BY <1>1, <1>16 DEF SocketOK, Downward
        <2>2. InOrder(x.seen) /\ \A i \in DOMAIN x.seen : x.seen[i] # 0
            BY <1>1, <1>16 DEF SocketOK, Downward
        <2>3. /\ x.down[1].kind = "frame" => Follows(y, 0, a + 1) /\ x.down[1].n = a + 1
              /\ x.down[1].kind # "frame" => Follows(y, 0, a)
            BY <1>1, <1>12, <1>13, <2>1, FollowsTail
        <2>4. x.down[1].kind \in {"frame", "error", "close"}
            BY <1>2, <2>1 DEF Follows, Numbered
        <2>5. CASE x.down[1].kind = "frame"
            <3>1. y.shim = 1 /\ y.seen = Append(x.seen, a + 1) /\ a + 1 \in Nat \ {0}
                BY <1>12, <1>16, <2>3, <2>5
            <3>2. InOrder(y.seen)
                BY <1>1, <2>1, <2>2, <3>1, InOrderAppend
            <3>3. /\ Len(y.seen) = Len(x.seen) + 1 /\ Len(x.seen) \in Nat /\ DOMAIN x.seen = 1 .. Len(x.seen)
                  /\ DOMAIN y.seen = 1 .. Len(x.seen) + 1 /\ \A i \in 1 .. Len(x.seen) : y.seen[i] = x.seen[i]
                BY <1>1, <3>1, AppendOf
            <3>4. y.seen[Len(x.seen) + 1] = a + 1
                BY <1>1, <3>1, AppendOf
            <3>5. \A i \in DOMAIN y.seen : y.seen[i] # 0
                BY <2>2, <3>1, <3>3, <3>4
            <3>6. Follows(y, 0, a + 1) /\ y.seen[Len(y.seen)] = a + 1 /\ a + 1 \in Nat
                BY <2>3, <2>5, <3>1, <3>3, <3>4
            <3>7. QED
                BY <1>3, <1>13, <3>1, <3>2, <3>5, <3>6 DEF Downward
        <2>6. CASE x.down[1].kind = "close"
            <3>1. y.shim = 3 /\ y.seen = Append(x.seen, 0)
                BY <1>12, <1>16, <2>6
            <3>2. InOrder(y.seen)
                BY <1>1, <2>2, <3>1, InOrderAppend
            <3>3. QED
                BY <1>3, <1>13, <3>1, <3>2 DEF Downward
        <2>7. CASE x.down[1].kind = "error"
            <3>1. y.shim = 1 /\ y.seen = x.seen
                BY <1>12, <1>16, <2>7
            <3>2. Follows(y, 0, a) /\ (y.seen # <<>> => y.seen[Len(y.seen)] = a)
                BY <2>1, <2>3, <2>7, <3>1
            <3>3. QED
                BY <1>3, <1>13, <2>2, <3>1, <3>2 DEF Downward
        <2>8. QED
            BY <2>4, <2>5, <2>6, <2>7
    <1>17. ASSUME x.shim \in {2, 3}
           PROVE  Downward(y)
        <2>1. InOrder(x.seen) /\ (x.shim # 3 => \A i \in DOMAIN x.seen : x.seen[i] # 0)
            BY <1>1 DEF SocketOK, Downward
        <2>2. CASE x.down[1].kind = "close" /\ x.shim = 2
            <3>1. y.shim = 3 /\ y.seen = Append(x.seen, 0)
                BY <1>12, <2>2
            <3>2. InOrder(y.seen)
                BY <1>1, <2>1, <2>2, <3>1, InOrderAppend
            <3>3. QED
                BY <1>3, <1>13, <3>1, <3>2 DEF Downward
        <2>3. CASE ~(x.down[1].kind = "close" /\ x.shim = 2)
            <3>1. y.seen = x.seen /\ y.shim = x.shim
                BY <1>12, <1>17, <2>3
            <3>2. QED
                BY <1>3, <1>13, <1>17, <2>1, <3>1 DEF Downward
        <2>4. QED
            BY <2>2, <2>3
    <1>18. Downward(y)
        BY <1>1, <1>15, <1>16, <1>17
    <1>19. SocketOK(y) /\ \A p \in Page : y.page = p => Booked(y, gen[p])
        BY <1>1, <1>13, <1>14, <1>18 DEF SocketOK, Booked
    <1>20. QED
        BY <1>6, <1>12, <1>19, SetOK

----
(* The actions of a request. *)

LEMMA AskOK ==
    ASSUME IInv, NEW r \in Req, NEW q \in Request, RequestOK(q), Waits(q, gone), req' = [req EXCEPT ![r] = q], UNCHANGED <<proxy, gone, gen, jar, tun>>
    PROVE  IInv'
    <1>1. /\ tun' = tun /\ gen' = gen /\ jar' = jar /\ gone' = gone /\ identity' = identity /\ boot' = boot
          /\ req \in [Req -> Request]
        BY DEF proxy, IInv, Typed
    <1>2. req' \in [Req -> Request] /\ req'[r] = q /\ \A s \in Req : s # r => req'[s] = req[s]
        BY <1>1
    <1>3. Typed'
        BY <1>1, <1>2 DEF IInv, Typed
    <1>4. \A s \in Req : RequestOK(req'[s]) /\ Waits(req'[s], gone')
        BY <1>1, <1>2 DEF IInv, Waits
    <1>5. (\A p \in Page : JarOK(p))'
        BY <1>1 DEF IInv, JarOK
    <1>6. QED
        BY <1>1, <1>3, <1>4, <1>5 DEF IInv

LEMMA KnownRequest ==
    ASSUME IInv, NEW r \in Req
    PROVE  req[r] \in Request /\ RequestOK(req[r]) /\ Waits(req[r], gone)
    BY DEF IInv, Typed

LEMMA RoutedWell ==
    ASSUME NEW u \in Urls, NEW c \in Contexts \cup {None}, routePreviewRequest(u, c) # None
    PROVE  routePreviewRequest(u, c) \in Route
    <1>1. ASSUME NEW w \in Urls \cup (Contexts \ {None}), w.scope, w.owner # Digits
          PROVE  [owner |-> w.owner, port |-> applyOverride(u, w.primary)] \in Route
        <2>1. w.owner \in Page /\ w.primary # None
            BY <1>1, PreviewAssumption
        <2>2. applyOverride(u, w.primary) \in Port
            <3>1. \A v \in Urls \cup (Contexts \ {None}) : \A n \in {v.primary, v.override} : n # None => n \in Port
                <4> TAKE v \in Urls \cup (Contexts \ {None})
                <4>1. TAKE n \in {v.primary, v.override}
                <4>2. n \in UNION {{z.primary, z.override} : z \in Urls \cup (Contexts \ {None})}
                    OBVIOUS
                <4>3. QED
                    BY <4>2 DEF Port
            <3>2. QED
                BY <1>1, <2>1, <3>1 DEF applyOverride
        <2>3. QED
            BY <2>1, <2>2 DEF Route
    <1>2. CASE parsePreviewPath(u)
        BY <1>1, <1>2 DEF parsePreviewPath, routePreviewRequest
    <1>3. CASE ~parsePreviewPath(u) /\ parsePreviewPath(c)
        BY <1>1, <1>3 DEF parsePreviewPath, routePreviewRequest
    <1>4. QED
        BY <1>2, <1>3 DEF routePreviewRequest

LEMMA FetchInScopeOK ==
    ASSUME IInv, NEW r \in Req, NEW u \in Urls, FetchInScope(r, u)
    PROVE  IInv'
    <1>1. req[r] \in Request /\ RequestOK(req[r]) /\ req[r].sw = "idle" /\ u # None
        BY KnownRequest, PreviewAssumption DEF FetchInScope
    <1>2. req[r].bridge = "none" /\ req[r].target = None
        BY <1>1 DEF RequestOK
    <1>3. PICK route : route = routePreviewRequest(u, None)
        OBVIOUS
    <1>4. route \in Route \cup {None}
        BY <1>3, RoutedWell
    <1>5. PICK q : q = [req[r] EXCEPT !.url = u, !.route = route, !.sw = IF route = None THEN "done" ELSE "owner",
                            !.status = IF route = None THEN 400 ELSE 0]
        OBVIOUS
    <1>6. q \in Request
        <2>1. PICK sw : sw = IF route = None THEN "done" ELSE "owner"
            OBVIOUS
        <2>2. PICK status : status = IF route = None THEN 400 ELSE 0
            OBVIOUS
        <2>3. sw \in {"idle", "context", "owner", "body", "wait", "done", "network"} /\ status \in Nat
            BY <2>1, <2>2
        <2>4. q = [req[r] EXCEPT !.url = u, !.route = route, !.sw = sw, !.status = status]
            BY <1>5, <2>1, <2>2
        <2>5. QED
            BY <1>1, <1>4, <2>3, <2>4 DEF Request
    <1>7. /\ q.url = u /\ q.route = route /\ q.sw = (IF route = None THEN "done" ELSE "owner") /\ q.bridge = "none"
          /\ q.target = None /\ q.cookies = req[r].cookies /\ q.gen = req[r].gen
        BY <1>1, <1>2, <1>5 DEF Request
    <1>8. RequestOK(q) /\ Waits(q, gone)
        BY <1>1, <1>7 DEF RequestOK, Waits
    <1>9. req' = [req EXCEPT ![r] = q] /\ UNCHANGED <<proxy, gone, gen, jar, tun>>
        BY <1>3, <1>5 DEF FetchInScope
    <1>10. QED
        BY <1>6, <1>8, <1>9, AskOK

LEMMA FetchOutsideOK ==
    ASSUME IInv, NEW r \in Req, NEW u \in Urls, NEW context \in Contexts, FetchOutside(r, u, context)
    PROVE  IInv'
    <1>1. req[r] \in Request /\ RequestOK(req[r]) /\ req[r].sw = "idle" /\ u # None
        BY KnownRequest, PreviewAssumption DEF FetchOutside
    <1>2. req[r].bridge = "none" /\ req[r].target = None
        BY <1>1 DEF RequestOK
    <1>3. PICK q : q = [req[r] EXCEPT !.url = u, !.context = context, !.sw = "context"]
        OBVIOUS
    <1>4. q \in Request
        BY <1>1, <1>3 DEF Request
    <1>5. /\ q.url = u /\ q.sw = "context" /\ q.bridge = "none" /\ q.target = None /\ q.cookies = req[r].cookies /\ q.gen = req[r].gen
        BY <1>1, <1>2, <1>3 DEF Request
    <1>6. RequestOK(q) /\ Waits(q, gone)
        BY <1>1, <1>5 DEF RequestOK, Waits
    <1>7. req' = [req EXCEPT ![r] = q] /\ UNCHANGED <<proxy, gone, gen, jar, tun>>
        BY <1>3 DEF FetchOutside
    <1>8. QED
        BY <1>4, <1>6, <1>7, AskOK

LEMMA ContextKnownOK ==
    ASSUME IInv, NEW r \in Req, ContextKnown(r)
    PROVE  IInv'
    <1>1. req[r] \in Request /\ RequestOK(req[r]) /\ req[r].sw = "context"
        BY KnownRequest DEF ContextKnown
    <1>2. /\ req[r].bridge = "none" /\ req[r].target = None /\ req[r].url # None
          /\ req[r].url \in Urls /\ req[r].context \in Contexts \cup {None}
        BY <1>1 DEF RequestOK, Request
    <1>3. PICK route : route = routePreviewRequest(req[r].url, req[r].context)
        OBVIOUS
    <1>4. route \in Route \cup {None}
        BY <1>2, <1>3, RoutedWell
    <1>5. PICK sw : sw = IF route = None THEN "network" ELSE "owner"
        OBVIOUS
    <1>6. PICK q : q = [req[r] EXCEPT !.route = route, !.sw = sw]
        OBVIOUS
    <1>7. q \in Request
        <2>1. sw \in {"idle", "context", "owner", "body", "wait", "done", "network"}
            BY <1>5
        <2>2. QED
            BY <1>1, <1>4, <1>6, <2>1 DEF Request
    <1>8. /\ q.url = req[r].url /\ q.route = route /\ q.sw = sw /\ q.bridge = "none" /\ q.target = None
          /\ q.cookies = req[r].cookies /\ q.gen = req[r].gen
        BY <1>1, <1>2, <1>6 DEF Request
    <1>9. RequestOK(q) /\ Waits(q, gone)
        BY <1>1, <1>2, <1>5, <1>8 DEF RequestOK, Waits
    <1>10. req' = [req EXCEPT ![r] = q] /\ UNCHANGED <<proxy, gone, gen, jar, tun>>
        BY <1>3, <1>5, <1>6 DEF ContextKnown
    <1>11. QED
        BY <1>7, <1>9, <1>10, AskOK

LEMMA FindOwnerOK ==
    ASSUME IInv, NEW r \in Req, FindOwner(r)
    PROVE  IInv'
    <1>1. req[r] \in Request /\ RequestOK(req[r]) /\ req[r].sw = "owner"
        BY KnownRequest DEF FindOwner
    <1>2. req[r].bridge = "none" /\ req[r].url # None /\ req[r].route # None /\ req[r].route \in Route
        BY <1>1 DEF RequestOK, Request
    <1>3. PICK target : target = ownerClient(req[r].route.owner)
        OBVIOUS
    <1>4. target \in {None, req[r].route.owner} /\ req[r].route.owner \in Page
        BY <1>2, <1>3 DEF ownerClient, Route
    <1>5. PICK sw : sw = IF target = None THEN "done" ELSE "body"
        OBVIOUS
    <1>6. PICK status : status = IF target = None THEN 503 ELSE 0
        OBVIOUS
    <1>7. PICK q : q = [req[r] EXCEPT !.target = target, !.sw = sw, !.status = status]
        OBVIOUS
    <1>8. q \in Request
        <2>1. sw \in {"idle", "context", "owner", "body", "wait", "done", "network"} /\ status \in Nat
            BY <1>5, <1>6
        <2>2. target \in Page \cup {None}
            BY <1>4
        <2>3. QED
            BY <1>1, <1>7, <2>1, <2>2 DEF Request
    <1>9. /\ q.url = req[r].url /\ q.route = req[r].route /\ q.sw = sw /\ q.bridge = "none" /\ q.target = target
          /\ q.cookies = req[r].cookies /\ q.gen = req[r].gen
        BY <1>1, <1>2, <1>7 DEF Request
    <1>10. RequestOK(q) /\ Waits(q, gone)
        BY <1>1, <1>2, <1>4, <1>5, <1>9 DEF RequestOK, Waits
    <1>11. req' = [req EXCEPT ![r] = q] /\ UNCHANGED <<proxy, gone, gen, jar, tun>>
        BY <1>3, <1>5, <1>6, <1>7 DEF FindOwner
    <1>12. QED
        BY <1>8, <1>10, <1>11, AskOK

\* A step of the exchange, which keeps the page and what the request was sent with.
LEMMA ExchangedOK ==
    ASSUME IInv, NEW r \in Req, NEW q \in Request, req' = [req EXCEPT ![r] = q], UNCHANGED <<proxy, gone, gen, jar, tun>>,
           req[r].target # None, q.url = req[r].url, q.route = req[r].route, q.target = req[r].target,
           q.cookies = req[r].cookies, q.gen = req[r].gen, q.sw \in {"body", "wait", "done", "network"}, q.bridge # "dispatch", Waits(q, gone)
    PROVE  IInv'
    <1>1. req[r] \in Request /\ RequestOK(req[r])
        BY KnownRequest
    <1>2. RequestOK(q)
        BY <1>1 DEF RequestOK
    <1>3. QED
        BY <1>2, AskOK

LEMMA ExchangeOK ==
    ASSUME IInv, NEW r \in Req, Exchange(r)
    PROVE  IInv'
    <1>1. req[r] \in Request /\ RequestOK(req[r]) /\ req[r].sw = "body"
        BY KnownRequest DEF Exchange
    <1>2. req[r].target # None
        BY <1>1 DEF RequestOK
    <1>3. PICK bridge : bridge = IF req[r].target \in gone THEN "none" ELSE "posted"
        OBVIOUS
    <1>4. PICK q : q = [req[r] EXCEPT !.sw = "wait", !.bridge = bridge]
        OBVIOUS
    <1>5. q \in Request
        BY <1>1, <1>3, <1>4 DEF Request
    <1>6. /\ q.url = req[r].url /\ q.route = req[r].route /\ q.target = req[r].target /\ q.cookies = req[r].cookies
          /\ q.gen = req[r].gen /\ q.sw = "wait" /\ q.bridge # "dispatch"
        BY <1>1, <1>3, <1>4 DEF Request
    <1>7. req' = [req EXCEPT ![r] = q] /\ UNCHANGED <<proxy, gone, gen, jar, tun>>
        BY <1>3, <1>4 DEF Exchange
    <1>8. Waits(q, gone)
        BY <1>1, <1>3, <1>4 DEF Waits, Request
    <1>9. QED
        BY <1>2, <1>5, <1>6, <1>7, <1>8, ExchangedOK

LEMMA ReceiveOK ==
    ASSUME IInv, NEW r \in Req, Receive(r)
    PROVE  IInv'
    <1>1. req[r] \in Request /\ RequestOK(req[r]) /\ req[r].bridge = "posted"
        BY KnownRequest DEF Receive
    <1>2. PICK p : p = req[r].target
        OBVIOUS
    <1>3. /\ p # None /\ p \in Page /\ req[r].route # None /\ req[r].route \in Route /\ p = req[r].route.owner
          /\ req[r].sw \notin {"idle", "context", "owner"}
        BY <1>1, <1>2 DEF RequestOK, Request
    <1>4. PICK cookies : cookies = Header(p, req[r].route.port, req[r].url.path)
        OBVIOUS
    <1>5. PICK q : q = [req[r] EXCEPT !.bridge = "dispatch", !.gen = gen[p], !.cookies = cookies]
        OBVIOUS
    <1>6. req' = [req EXCEPT ![r] = q] /\ UNCHANGED <<proxy, gone, gen, jar, tun>>
        BY <1>2, <1>3, <1>4, <1>5 DEF Receive
    <1>7. /\ gen[p] \in 1 .. MaxKernels /\ req[r].route.port \in Port /\ jar[p][req[r].route.port] \in Seq(Cookie) /\ JarOK(p)
        BY <1>3 DEF IInv, Typed, Route
    <1>8. \A c \in cookies : c \in Cookie /\ (c.gen = gen[p] \/ c.late)
        <2>1. SUFFICES ASSUME NEW c \in ToSet(jar[p][req[r].route.port])
                       PROVE  c \in Cookie /\ (c.gen = gen[p] \/ c.late)
            BY <1>4 DEF Header
        <2>2. PICK i \in DOMAIN jar[p][req[r].route.port] : c = jar[p][req[r].route.port][i]
            BY DEF ToSet
        <2>3. QED
            BY <1>7, <2>2 DEF JarOK
    <1>9. q \in Request
        <2>1. gen[p] \in 0 .. MaxKernels /\ cookies \in SUBSET Cookie
            BY <1>7, <1>8, PreviewAssumption
        <2>2. QED
            BY <1>1, <1>5, <2>1 DEF Request
    <1>10. /\ q.url = req[r].url /\ q.route = req[r].route /\ q.target = req[r].target /\ q.cookies = cookies
           /\ q.gen = gen[p] /\ q.sw = req[r].sw /\ q.bridge = "dispatch"
        BY <1>1, <1>5 DEF Request
    <1>11. RequestOK(q)
        <2>1. gen[p] # 0
            BY <1>7, PreviewAssumption
        <2>2. QED
            BY <1>1, <1>2, <1>3, <1>8, <1>10, <2>1 DEF RequestOK
    <1>12. Waits(q, gone)
        BY <1>1, <1>10, KnownRequest DEF Waits
    <1>13. QED
        BY <1>6, <1>9, <1>11, <1>12, AskOK

LEMMA AnsweredOK ==
    ASSUME IInv, NEW r \in Req, DispatchFails(r) \/ ReplyArrives(r) \/ TimeOut(r) \/ StreamEnds(r)
    PROVE  IInv'
    <1>1. req[r] \in Request /\ RequestOK(req[r]) /\ Waits(req[r], gone)
        BY KnownRequest
    <1>2. CASE DispatchFails(r)
        <2>1. PICK q : q = [req[r] EXCEPT !.bridge = "replied", !.reply = 502]
            OBVIOUS
        <2>2. req[r].bridge = "dispatch" /\ req' = [req EXCEPT ![r] = q] /\ UNCHANGED <<proxy, gone, gen, jar, tun>>
            BY <1>2, <2>1 DEF DispatchFails
        <2>3. q \in Request
            <3>1. PICK n \in Nat : n = 502
                OBVIOUS
            <3>2. q = [req[r] EXCEPT !.bridge = "replied", !.reply = n]
                BY <2>1, <3>1
            <3>3. n \in Nat
                BY <3>1
            <3>4. QED
                BY <1>1, <3>2, <3>3 DEF Request
        <2>4. /\ q.url = req[r].url /\ q.route = req[r].route /\ q.target = req[r].target /\ q.cookies = req[r].cookies
              /\ q.gen = req[r].gen /\ q.sw = req[r].sw /\ q.bridge = "replied"
            BY <1>1, <2>1 DEF Request
        <2>5. req[r].target # None /\ req[r].sw \in {"body", "wait", "done", "network"}
            BY <1>1, <2>2 DEF RequestOK, Request
        <2>6. Waits(q, gone)
            BY <1>1, <2>2, <2>4 DEF Waits
        <2>7. QED
            BY <2>2, <2>3, <2>4, <2>5, <2>6, ExchangedOK
    <1>3. CASE ReplyArrives(r)
        <2>1. PICK q : q = IF req[r].sw = "wait" THEN [req[r] EXCEPT !.bridge = "none", !.sw = "done", !.status = req[r].reply]
                           ELSE [req[r] EXCEPT !.bridge = "none"]
            OBVIOUS
        <2>2. req[r].bridge = "replied" /\ req' = [req EXCEPT ![r] = q] /\ UNCHANGED <<proxy, gone, gen, jar, tun>>
            BY <1>3, <2>1 DEF ReplyArrives
        <2>3. q \in Request
            BY <1>1, <2>1 DEF Request
        <2>4. /\ q.url = req[r].url /\ q.route = req[r].route /\ q.target = req[r].target /\ q.cookies = req[r].cookies
              /\ q.gen = req[r].gen /\ q.sw \in {req[r].sw, "done"} /\ q.bridge = "none"
            BY <1>1, <2>1 DEF Request
        <2>5. req[r].target # None /\ req[r].sw \in {"body", "wait", "done", "network"}
            BY <1>1, <2>2 DEF RequestOK, Request
        <2>6. Waits(q, gone)
            BY <1>1, <2>2, <2>4 DEF Waits
        <2>7. QED
            BY <2>2, <2>3, <2>4, <2>5, <2>6, ExchangedOK
    <1>4. CASE TimeOut(r)
        <2>1. PICK q : q = [req[r] EXCEPT !.sw = "done", !.status = 504]
            OBVIOUS
        <2>2. req[r].sw = "wait" /\ req' = [req EXCEPT ![r] = q] /\ UNCHANGED <<proxy, gone, gen, jar, tun>>
            BY <1>4, <2>1 DEF TimeOut
        <2>3. q \in Request
            <3>1. PICK n \in Nat : n = 504
                OBVIOUS
            <3>2. q = [req[r] EXCEPT !.sw = "done", !.status = n]
                BY <2>1, <3>1
            <3>3. n \in Nat
                BY <3>1
            <3>4. QED
                BY <1>1, <3>2, <3>3 DEF Request
        <2>4. /\ q.url = req[r].url /\ q.route = req[r].route /\ q.target = req[r].target /\ q.cookies = req[r].cookies
              /\ q.gen = req[r].gen /\ q.sw = "done" /\ q.bridge = req[r].bridge
            BY <1>1, <2>1 DEF Request
        <2>5. RequestOK(q) /\ Waits(q, gone)
            BY <1>1, <2>2, <2>4 DEF RequestOK, Waits
        <2>6. QED
            BY <2>2, <2>3, <2>5, AskOK
    <1>5. CASE StreamEnds(r)
        <2>1. PICK q : q = [req[r] EXCEPT !.stream = "ended"]
            OBVIOUS
        <2>2. req' = [req EXCEPT ![r] = q] /\ UNCHANGED <<proxy, gone, gen, jar, tun>>
            BY <1>5, <2>1 DEF StreamEnds
        <2>3. q \in Request
            BY <1>1, <2>1 DEF Request
        <2>4. /\ q.url = req[r].url /\ q.route = req[r].route /\ q.target = req[r].target /\ q.cookies = req[r].cookies
              /\ q.gen = req[r].gen /\ q.sw = req[r].sw /\ q.bridge = req[r].bridge
            BY <1>1, <2>1 DEF Request
        <2>5. RequestOK(q) /\ Waits(q, gone)
            BY <1>1, <2>4 DEF RequestOK, Waits
        <2>6. QED
            BY <2>2, <2>3, <2>5, AskOK
    <1>6. QED
        BY <1>2, <1>3, <1>4, <1>5

\* As many as may be left, when each has fewer behind it.
LEMMA AscendingOK ==
    ASSUME NEW T, NEW S, S = Youngest(T), T \subseteq Nat, IsFiniteSet(T), NEW n \in Nat, NEW order \in [1 .. n -> S],
           \A i, j \in DOMAIN order : i < j => order[i] < order[j]
    PROVE  n <= MaxPerPort
    <1>1. SUFFICES ASSUME n # 0
                   PROVE  n <= MaxPerPort
        BY PreviewAssumption
    <1>2. S \subseteq T /\ \A i \in 1 .. n : order[i] \in S /\ order[i] \in Nat
        BY DEF Youngest
    <1>3. PICK behind : behind = {j \in T : j > order[1]}
        OBVIOUS
    <1>4. Cardinality(behind) < MaxPerPort /\ IsFiniteSet(behind) /\ Cardinality(behind) \in Nat
        <2>1. 1 \in 1 .. n
            BY <1>1
        <2>2. Cardinality(behind) < MaxPerPort
            BY <1>2, <1>3, <2>1 DEF Youngest
        <2>3. IsFiniteSet(behind)
            BY <1>3, FS_Subset
        <2>4. QED
            BY <2>2, <2>3, FS_CardinalityType
    <1>5. PICK f : f = [i \in 2 .. n |-> order[i]]
        OBVIOUS
    <1>6. f \in Injection(2 .. n, behind)
        <2>1. \A i \in 2 .. n : f[i] \in behind
            <3>1. TAKE i \in 2 .. n
            <3>2. i \in 1 .. n /\ 1 \in 1 .. n /\ 1 < i
                BY <1>1
            <3>3. order[1] < order[i] /\ order[i] \in T
                BY <1>2, <3>2
            <3>4. QED
                BY <1>2, <1>3, <1>5, <3>2, <3>3
        <2>2. \A i, j \in 2 .. n : i # j => f[i] # f[j]
            <3>1. TAKE i, j \in 2 .. n
            <3>2. i \in 1 .. n /\ j \in 1 .. n /\ order[i] \in Nat /\ order[j] \in Nat /\ f[i] = order[i] /\ f[j] = order[j]
                BY <1>2, <1>5
            <3>3. (i < j => order[i] < order[j]) /\ (j < i => order[j] < order[i])
                BY <3>2
            <3>4. QED
                BY <3>2, <3>3
        <2>3. f \in [2 .. n -> behind]
            BY <1>5, <2>1
        <2>4. QED
            BY <2>2, <2>3 DEF Injection, IsInjective
    <1>7. IsFiniteSet(2 .. n) /\ Cardinality(2 .. n) = n - 1
        BY <1>1, FS_Interval
    <1>8. n - 1 <= Cardinality(behind)
        BY <1>4, <1>6, <1>7, FS_Injection
    <1>9. QED
        BY <1>4, <1>8, PreviewAssumption

\* A jar takes in cookies of the current runtime, or late ones.
LEMMA AbsorbedOK ==
    ASSUME NEW all \in Seq(Cookie), NEW g, \A i \in DOMAIN all : all[i].gen = g \/ all[i].late, NEW after \in Absorbed(all)
    PROVE  after \in Seq(Cookie) /\ Len(after) <= MaxPerPort /\ \A i \in DOMAIN after : after[i].gen = g \/ after[i].late
    <1> DEFINE S == Youngest(Left(all))
               n == Cardinality(S)
    <1>1. S \subseteq DOMAIN all /\ DOMAIN all = 1 .. Len(all) /\ Len(all) \in Nat
        BY LenProperties DEF Youngest, Left
    <1>2. n \in Nat
        <2>1. IsFiniteSet(1 .. Len(all))
            BY <1>1, FS_Interval
        <2>2. S \in SUBSET (1 .. Len(all))
            BY <1>1
        <2> HIDE DEF S
        <2>3. IsFiniteSet(S)
            BY <2>1, <2>2, FS_Subset
        <2>4. QED
            BY <2>3, FS_CardinalityType
    <1>3. PICK order \in [1 .. n -> S] :
            /\ after = [i \in DOMAIN order |-> all[order[i]]]
            /\ \A i, j \in DOMAIN order : i < j => order[i] < order[j]
        BY DEF Absorbed
    <1>9. n <= MaxPerPort
        <2>1. IsFiniteSet(Left(all)) /\ Left(all) \subseteq Nat
            <3>1. Left(all) \in SUBSET (1 .. Len(all)) /\ IsFiniteSet(1 .. Len(all))
                BY <1>1, FS_Interval DEF Left
            <3>2. QED
                BY <1>1, <3>1, FS_Subset
        <2> HIDE DEF n
        <2>2. QED
            BY <1>2, <1>3, <2>1, AscendingOK
    <1> HIDE DEF n, S
    <1>4. after = [i \in 1 .. n |-> all[order[i]]] /\ \A i \in 1 .. n : order[i] \in DOMAIN all
        BY <1>1, <1>3
    <1>5. \A i \in 1 .. n : all[order[i]] \in Cookie
        BY <1>1, <1>4, ElementOfSeq
    <1>6. after \in [1 .. n -> Cookie]
        BY <1>4, <1>5
    <1>7. after \in Seq(Cookie)
        BY <1>2, <1>6, SeqDef
    <1>8. Len(after) = n
        BY <1>2, <1>4, <1>7, LenProperties
    <1>10. QED
        BY <1>4, <1>7, <1>8, <1>9

LEMMA JoinedOK ==
    ASSUME NEW s \in Seq(Cookie), NEW t \in Seq(Cookie), NEW g,
           \A i \in DOMAIN s : s[i].gen = g \/ s[i].late, \A i \in DOMAIN t : t[i].gen = g \/ t[i].late
    PROVE  s \o t \in Seq(Cookie) /\ \A i \in DOMAIN (s \o t) : (s \o t)[i].gen = g \/ (s \o t)[i].late
    <1>1. PICK all : all = s \o t
        OBVIOUS
    <1>2. /\ all \in Seq(Cookie) /\ Len(all) = Len(s) + Len(t)
          /\ \A i \in 1 .. Len(s) + Len(t) : all[i] = IF i <= Len(s) THEN s[i] ELSE t[i - Len(s)]
        BY <1>1, ConcatProperties
    <1>3. /\ Len(s) \in Nat /\ Len(t) \in Nat /\ DOMAIN s = 1 .. Len(s) /\ DOMAIN t = 1 .. Len(t)
          /\ DOMAIN all = 1 .. Len(s) + Len(t)
        BY <1>2, LenProperties
    <1>4. ASSUME NEW i \in DOMAIN all
          PROVE  all[i].gen = g \/ all[i].late
        <2>1. CASE i <= Len(s)
            BY <1>2, <1>3, <1>4, <2>1
        <2>2. CASE ~(i <= Len(s))
            <3>1. i - Len(s) \in DOMAIN t /\ all[i] = t[i - Len(s)]
                BY <1>2, <1>3, <1>4, <2>2
            <3>2. QED
                BY <3>1
        <2>3. QED
            BY <2>1, <2>2
    <1>5. QED
        BY <1>1, <1>2, <1>4

LEMMA DispatchEndsOK ==
    ASSUME IInv, NEW r \in Req, NEW lines \in Lines \cup {<<>>}, NEW stream \in {"open", "none"}, DispatchEnds(r, lines, stream)
    PROVE  IInv'
    <1>1. req[r] \in Request /\ RequestOK(req[r]) /\ req[r].bridge = "dispatch"
        BY KnownRequest DEF DispatchEnds
    <1> DEFINE p == req[r].target
               port == req[r].route.port
               New(c) == [name |-> c.name, path |-> c.path, live |-> c.live, gen |-> req[r].gen, late |-> req[r].gen # gen[p]]
               new == [i \in DOMAIN lines |-> New(lines[i])]
    <1>2. /\ p # None /\ p \in Page /\ req[r].route # None /\ req[r].route \in Route /\ port \in Port
          /\ req[r].gen \in 1 .. MaxKernels /\ req[r].sw \in {"body", "wait", "done", "network"}
        <2>1. p # None /\ req[r].route # None /\ req[r].gen # 0
            BY <1>1 DEF RequestOK
        <2>2. req[r].route \in Route /\ p \in Page /\ req[r].gen \in 0 .. MaxKernels
            BY <1>1, <2>1 DEF Request
        <2>3. req[r].gen \in 1 .. MaxKernels
            BY <2>1, <2>2, PreviewAssumption
        <2>4. QED
            BY <1>1, <2>1, <2>2, <2>3 DEF RequestOK, Request, Route
    <1> DEFINE Answered == [name : STRING, path : Seq(STRING), live : BOOLEAN]
    <1> HIDE DEF Answered
    <1>3. lines \in Seq(Answered)
        <2>1. CASE lines = <<>>
            BY <2>1
        <2>2. CASE lines \in Lines
            <3>1. Lines \subseteq Seq(Answered)
                BY PreviewAssumption DEF Answered
            <3>2. QED
                BY <2>2, <3>1
        <2>3. QED
            BY <2>1, <2>2
    <1>4. new \in Seq(Cookie) /\ \A i \in DOMAIN new : new[i].gen = gen[p] \/ new[i].late
        <2>1. DOMAIN lines = 1 .. Len(lines) /\ Len(lines) \in Nat
            BY <1>3, LenProperties
        <2>2. \A c \in Answered : New(c) \in Cookie /\ (New(c).gen = gen[p] \/ New(c).late)
            BY <1>2 DEF Cookie, Answered
        <2>3. \A i \in DOMAIN lines : lines[i] \in Answered
            BY <1>3
        <2> HIDE DEF New
        <2>4. new \in [1 .. Len(lines) -> Cookie]
            BY <2>1, <2>2, <2>3
        <2>5. QED
            BY <2>1, <2>2, <2>3, <2>4, SeqDef
    <1>5. PICK q : q = [req[r] EXCEPT !.bridge = "replied", !.reply = 200, !.stream = stream]
        OBVIOUS
    <1>6. req' = [req EXCEPT ![r] = q] /\ UNCHANGED <<proxy, gone, gen, tun>>
        BY <1>5 DEF DispatchEnds
    <1>7. PICK after \in Absorbed(jar[p][port] \o new) : jar' = [jar EXCEPT ![p][port] = after]
        BY DEF DispatchEnds
    <1> HIDE DEF new
    <1>8. /\ jar \in [Page -> [Port -> Seq(Cookie)]] /\ jar[p][port] \in Seq(Cookie)
          /\ \A i \in DOMAIN jar[p][port] : jar[p][port][i].gen = gen[p] \/ jar[p][port][i].late
        BY <1>2 DEF IInv, Typed, JarOK
    <1>9. after \in Seq(Cookie) /\ Len(after) <= MaxPerPort /\ \A i \in DOMAIN after : after[i].gen = gen[p] \/ after[i].late
        <2>1. /\ jar[p][port] \o new \in Seq(Cookie)
              /\ \A i \in DOMAIN (jar[p][port] \o new) : (jar[p][port] \o new)[i].gen = gen[p] \/ (jar[p][port] \o new)[i].late
            BY <1>4, <1>8, JoinedOK
        <2>2. QED
            BY <1>7, <2>1, AbsorbedOK
    <1>10. jar' \in [Page -> [Port -> Seq(Cookie)]]
        BY <1>2, <1>7, <1>8, <1>9
    <1>11. \A a \in Page, b \in Port : jar'[a][b] = IF a = p /\ b = port THEN after ELSE jar[a][b]
        BY <1>2, <1>7, <1>8
    <1>12. q \in Request
        <2>1. PICK n \in Nat : n = 200
            OBVIOUS
        <2>2. q = [req[r] EXCEPT !.bridge = "replied", !.reply = n, !.stream = stream]
            BY <1>5, <2>1
        <2>3. stream \in {"none", "open", "ended"}
            OBVIOUS
        <2>4. n \in Nat
            BY <2>1
        <2>5. QED
            BY <1>1, <2>2, <2>3, <2>4 DEF Request
    <1>13. /\ q.url = req[r].url /\ q.route = req[r].route /\ q.target = req[r].target /\ q.cookies = req[r].cookies
           /\ q.gen = req[r].gen /\ q.sw = req[r].sw /\ q.bridge = "replied"
        BY <1>1, <1>5 DEF Request
    <1>14. RequestOK(q) /\ Waits(q, gone)
        BY <1>1, <1>13, KnownRequest DEF RequestOK, Waits
    <1>15. /\ tun' = tun /\ gen' = gen /\ gone' = gone /\ identity' = identity /\ boot' = boot
           /\ req' \in [Req -> Request] /\ req'[r] = q /\ \A s \in Req : s # r => req'[s] = req[s]
        BY <1>6, <1>12 DEF proxy, IInv, Typed
    <1>16. Typed'
        BY <1>10, <1>15 DEF IInv, Typed
    <1>17. \A s \in Req : RequestOK(req'[s]) /\ Waits(req'[s], gone')
        BY <1>14, <1>15 DEF IInv, Waits
    <1>18. ASSUME NEW a \in Page, NEW b \in Port
           PROVE  Len(jar'[a][b]) <= MaxPerPort /\ \A i \in DOMAIN jar'[a][b] : jar'[a][b][i].gen = gen[a] \/ jar'[a][b][i].late
        <2>1. CASE a = p /\ b = port
            BY <1>9, <1>11, <1>18, <2>1
        <2>2. CASE ~(a = p /\ b = port)
            <3>1. jar'[a][b] = jar[a][b]
                BY <1>11, <2>2
            <3>2. QED
                BY <1>18, <3>1 DEF IInv, JarOK
        <2>3. QED
            BY <2>1, <2>2
    <1>19. (\A a \in Page : JarOK(a))'
        BY <1>15, <1>18 DEF JarOK
    <1>20. QED
        BY <1>15, <1>16, <1>17, <1>19 DEF IInv

----
(* The pages. *)

\* What a page does to learn its client id.
LEMMA BootedOK ==
    ASSUME IInv, UNCHANGED <<gone, gen, jar, req, tun>>, identity' \subseteq Page,
           boot' \in [Page -> {"off", "choose", "wait", "ask", "done"}]
    PROVE  IInv'
    BY DEF IInv, Typed, JarOK, Waits

LEMMA HandshakeOK ==
    ASSUME IInv, NEW p \in Page, Boot(p) \/ Handshake(p) \/ Updated
    PROVE  IInv'
    <1> DEFINE B == {"off", "choose", "wait", "ask", "done"}
    <1>1. boot \in [Page -> B] /\ identity \subseteq Page
        BY DEF IInv, Typed
    <1>2. UNCHANGED <<gone, gen, jar, req, tun>>
        BY DEF Boot, Handshake, Updated, Choose, UpdateSeen, Whoami, WhoamiTimesOut
    <1>3. identity' \in {identity, identity \cup {p}}
        BY DEF Boot, Handshake, Updated, Choose, UpdateSeen, Whoami, WhoamiTimesOut
    <1>4. boot' = boot \/ \E b \in B : boot' = [boot EXCEPT ![p] = b]
        <2>1. \A worker : Asks(p, worker) => \E b \in B : boot' = [boot EXCEPT ![p] = b]
            <3>1. TAKE worker
            <3>2. (IF worker THEN "ask" ELSE "done") \in B
                OBVIOUS
            <3>3. QED
                BY <3>2 DEF Asks
        <2>2. CASE Choose(p)
            BY <2>1, <2>2 DEF Choose
        <2>3. CASE UpdateSeen(p)
            BY <2>1, <2>3 DEF UpdateSeen
        <2>4. CASE Boot(p) \/ Whoami(p) \/ WhoamiTimesOut(p) \/ Updated
            BY <2>4 DEF Boot, Whoami, WhoamiTimesOut, Updated
        <2>5. QED
            BY <2>2, <2>3, <2>4 DEF Handshake
    <1>5. boot' \in [Page -> B]
        BY <1>1, <1>4
    <1>6. QED
        BY <1>1, <1>2, <1>3, <1>5, BootedOK

LEMMA LeaveOK ==
    ASSUME IInv, NEW p \in Page, Leave(p)
    PROVE  IInv'
    <1>1. /\ gone' = gone \cup {p} /\ gen' = gen /\ jar' = jar /\ identity' = identity /\ boot' = boot
          /\ req' = [r \in Req |-> IF req[r].target = p
                       THEN [req[r] EXCEPT !.bridge = "none", !.stream = IF @ = "open" THEN "ended" ELSE @] ELSE req[r]]
          /\ tun' = [t \in Tunnel |-> IF tun[t].page = p THEN [NoTunnel EXCEPT !.page = p] ELSE tun[t]]
        BY DEF Leave, proxy
    <1>2. ASSUME NEW r \in Req
          PROVE  req'[r] \in Request /\ RequestOK(req'[r]) /\ Waits(req'[r], gone')
        <2>1. req[r] \in Request /\ RequestOK(req[r]) /\ Waits(req[r], gone)
            BY KnownRequest
        <2>2. PICK stream : stream = IF req[r].stream = "open" THEN "ended" ELSE req[r].stream
            OBVIOUS
        <2>3. PICK q : q = [req[r] EXCEPT !.bridge = "none", !.stream = stream]
            OBVIOUS
        <2>4. q \in Request
            BY <2>1, <2>2, <2>3 DEF Request
        <2>5. /\ q.url = req[r].url /\ q.route = req[r].route /\ q.target = req[r].target /\ q.cookies = req[r].cookies
              /\ q.gen = req[r].gen /\ q.sw = req[r].sw /\ q.bridge = "none"
            BY <2>1, <2>3 DEF Request
        <2>6. RequestOK(q)
            BY <2>1, <2>5 DEF RequestOK
        <2>7. req'[r] = IF req[r].target = p THEN q ELSE req[r]
            BY <1>1, <2>2, <2>3
        <2>8. Waits(req'[r], gone')
            BY <1>1, <2>1, <2>5, <2>7 DEF Waits
        <2>9. QED
            BY <2>1, <2>4, <2>6, <2>7, <2>8
    <1>3. PICK x : x = [NoTunnel EXCEPT !.page = p]
        OBVIOUS
    <1>4. x \in Socket /\ SocketOK(x) /\ \A g : Booked(x, g)
        <2>1. x = [page |-> p, gen |-> 0, pc |-> "none", closed |-> FALSE, kept |-> FALSE, ws |-> "none", early |-> <<>>,
                   shim |-> 0, up |-> <<>>, decoding |-> FALSE, down |-> <<>>, sent |-> 0, got |-> <<>>, made |-> 0, seen |-> <<>>]
            BY <1>3 DEF NoTunnel
        <2>2. x \in Socket /\ SocketOK(x)
            BY <2>1, FreshOK
        <2>3. QED
            BY <2>1, <2>2 DEF Booked
    <1>5. ASSUME NEW t \in Tunnel
          PROVE  tun'[t] \in Socket /\ SocketOK(tun'[t]) /\ \A a \in Page : tun'[t].page = a => Booked(tun'[t], gen[a])
        <2>1. tun[t] \in Socket /\ SocketOK(tun[t]) /\ \A a \in Page : tun[t].page = a => Booked(tun[t], gen[a])
            BY KnownSocket
        <2>2. tun'[t] = IF tun[t].page = p THEN x ELSE tun[t]
            BY <1>1, <1>3
        <2>3. QED
            BY <1>4, <2>1, <2>2
    <1>6. Typed'
        <2>1. req' \in [Req -> Request]
            BY <1>1, <1>2
        <2>2. tun' \in [Tunnel -> Socket]
            BY <1>1, <1>5
        <2>3. QED
            BY <1>1, <2>1, <2>2 DEF IInv, Typed
    <1>7. (\A a \in Page : JarOK(a))'
        BY <1>1 DEF IInv, JarOK
    <1>8. QED
        BY <1>1, <1>2, <1>5, <1>6, <1>7 DEF IInv

LEMMA RetargetOK ==
    ASSUME IInv, NEW p \in Page, Retarget(p)
    PROVE  IInv'
    <1>1. /\ gen' = [gen EXCEPT ![p] = @ + 1] /\ jar' = [jar EXCEPT ![p] = [q \in Port |-> <<>>]]
          /\ tun' = [t \in Tunnel |-> IF tun[t].page = p /\ tun[t].kept THEN Released(tun[t]) ELSE tun[t]]
          /\ gone' = gone /\ req' = req /\ identity' = identity /\ boot' = boot /\ gen[p] < MaxKernels
          /\ gen \in [Page -> 1 .. MaxKernels] /\ jar \in [Page -> [Port -> Seq(Cookie)]]
        BY DEF Retarget, proxy, IInv, Typed
    <1>2. gen' \in [Page -> 1 .. MaxKernels] /\ \A a \in Page : a # p => gen'[a] = gen[a]
        <2>1. gen[p] + 1 \in 1 .. MaxKernels
            BY <1>1, PreviewAssumption
        <2>2. QED
            BY <1>1, <2>1
    <1>3. jar' \in [Page -> [Port -> Seq(Cookie)]] /\ jar'[p] = [q \in Port |-> <<>>] /\ \A a \in Page : a # p => jar'[a] = jar[a]
        <2>1. [q \in Port |-> <<>>] \in [Port -> Seq(Cookie)]
            OBVIOUS
        <2>2. QED
            BY <1>1, <2>1
    <1>4. ASSUME NEW a \in Page
          PROVE  JarOK(a)'
        <2>1. CASE a = p
            <3>1. \A q \in Port : jar'[a][q] = <<>>
                BY <1>3, <2>1
            <3>2. QED
                BY <3>1, PreviewAssumption DEF JarOK
        <2>2. CASE a # p
            BY <1>2, <1>3, <2>2 DEF IInv, JarOK
        <2>3. QED
            BY <2>1, <2>2
    <1>5. ASSUME NEW t \in Tunnel
          PROVE  tun'[t] \in Socket /\ SocketOK(tun'[t]) /\ \A a \in Page : tun'[t].page = a => Booked(tun'[t], gen'[a])
        <2>1. tun[t] \in Socket /\ SocketOK(tun[t]) /\ \A a \in Page : tun[t].page = a => Booked(tun[t], gen[a])
            BY KnownSocket
        <2>2. CASE tun[t].page = p /\ tun[t].kept
            <3>1. tun'[t] = Released(tun[t])
                BY <1>1, <2>2
            <3>2. CASE tun[t].pc \in Begun
                <4>1. Released(tun[t]) \in Socket /\ SocketOK(Released(tun[t])) /\ Released(tun[t]).closed
                    BY <2>1, <3>2, ReleasedOK
                <4>2. QED
                    BY <3>1, <4>1 DEF Booked
            <3>3. CASE tun[t].pc \notin Begun
                BY <2>1, <2>2, <3>3 DEF SocketOK, Downward, Begun, Socket
            <3>4. QED
                BY <3>2, <3>3
        <2>3. CASE ~(tun[t].page = p /\ tun[t].kept)
            <3>1. tun'[t] = tun[t]
                BY <1>1, <2>3
            <3>2. ASSUME NEW a \in Page, tun[t].page = a
                  PROVE  Booked(tun[t], gen'[a])
                <4>1. CASE a = p
                    BY <2>1, <2>3, <3>2, <4>1 DEF Booked
                <4>2. CASE a # p
                    BY <1>2, <2>1, <3>2, <4>2
                <4>3. QED
                    BY <4>1, <4>2
            <3>3. QED
                BY <2>1, <3>1, <3>2
        <2>4. QED
            BY <2>2, <2>3
    <1>6. Typed'
        <2>1. tun' \in [Tunnel -> Socket]
            BY <1>1, <1>5
        <2>2. QED
            BY <1>1, <1>2, <1>3, <2>1 DEF IInv, Typed
    <1>7. QED
        BY <1>1, <1>4, <1>5, <1>6 DEF IInv, Waits

----
(* The theorem. *)

LEMMA InitOK == Init => IInv
    <1> SUFFICES ASSUME Init
                 PROVE  IInv
        OBVIOUS
    <1>1. 0 \in 0 .. MaxKernels /\ 1 \in 1 .. MaxKernels
        BY PreviewAssumption
    <1>2. Idle \in Request /\ RequestOK(Idle)
        BY <1>1 DEF Idle, Request, RequestOK
    <1>3. NoTunnel \in Socket /\ SocketOK(NoTunnel) /\ \A g : Booked(NoTunnel, g)
        <2>1. NoTunnel \in Socket /\ SocketOK(NoTunnel)
            BY FreshOK DEF NoTunnel
        <2>2. QED
            BY <2>1 DEF NoTunnel, Booked
    <1>4. Typed
        <2>1. jar \in [Page -> [Port -> Seq(Cookie)]]
            <3>1. [q \in Port |-> <<>>] \in [Port -> Seq(Cookie)]
                OBVIOUS
            <3>2. QED
                BY <3>1 DEF Init
        <2>2. QED
            BY <1>1, <1>2, <1>3, <2>1 DEF Init, Typed
    <1>5. \A p \in Page : JarOK(p)
        BY PreviewAssumption DEF Init, JarOK
    <1>6. QED
        BY <1>2, <1>3, <1>4, <1>5 DEF Init, IInv, Waits, Idle

LEMMA StepOK == IInv /\ [Next]_vars => IInv'
    <1> SUFFICES ASSUME IInv, [Next]_vars
                 PROVE  IInv'
        OBVIOUS
    <1>1. CASE UNCHANGED vars
        BY <1>1 DEF vars, proxy, IInv, Typed, JarOK, Waits
    <1>2. CASE Updated
        <2>1. CASE Page = {}
            BY <1>2, <2>1, BootedOK DEF Updated, IInv, Typed
        <2>2. CASE Page # {}
            BY <1>2, <2>2, HandshakeOK
        <2>3. QED
            BY <2>1, <2>2
    <1>3. CASE \E p \in Page : Boot(p) \/ Handshake(p) \/ Leave(p) \/ Retarget(p)
        BY <1>3, HandshakeOK, LeaveOK, RetargetOK
    <1>4. ASSUME NEW r \in Req, Worker(r) \/ DispatchFails(r)
          PROVE  IInv'
        BY <1>4, ContextKnownOK, FindOwnerOK, ExchangeOK, ReceiveOK, AnsweredOK DEF Worker
    <1>5. ASSUME NEW r \in Req, NEW u \in Urls, FetchInScope(r, u) \/ \E context \in Contexts : FetchOutside(r, u, context)
          PROVE  IInv'
        BY <1>5, FetchInScopeOK, FetchOutsideOK
    <1>6. ASSUME NEW r \in Req, DispatchEnds(r, <<>>, "open") \/ \E cookies \in Lines : DispatchEnds(r, cookies, "none")
          PROVE  IInv'
        BY <1>6, DispatchEndsOK
    <1>7. ASSUME NEW t \in Tunnel,
                 \/ Pump(t) \/ Upgraded(t) \/ GuestSends(t) \/ GuestCloses(t) \/ Handle(t) \/ Decoded(t)
                 \/ \E p \in Page : OpenSocket(t, p)
                 \/ \E kind \in {"frame", "blob", "close", "bad"} : ShimPosts(t, kind)
          PROVE  IInv'
        BY <1>7, UpgradeOK, UpgradeFailsOK, WireOK, KeepOK, ShimReceivesOK, UpgradedOK, GuestSendsOK, GuestClosesOK, HandleOK,
           DecodedOK, OpenSocketOK, ShimPostsOK DEF Pump
    <1>8. QED
        BY <1>1, <1>2, <1>3, <1>4, <1>5, <1>6, <1>7 DEF Next

LEMMA IInvDelivers == IInv => Delivery
    <1> SUFFICES ASSUME IInv
                 PROVE  Delivery
        OBVIOUS
    <1>1. NoCrossTab
        <2>1. SUFFICES ASSUME NEW r \in Req, req[r].bridge = "dispatch"
                       PROVE  req[r].target = req[r].route.owner
            BY DEF NoCrossTab
        <2>2. RequestOK(req[r])
            BY KnownRequest
        <2>3. QED
            BY <2>1, <2>2 DEF RequestOK
    <1>2. CookiesOfKernel
        BY DEF IInv, RequestOK, CookiesOfKernel
    <1>3. TunnelsAimed
        <2>1. SUFFICES ASSUME NEW t \in Tunnel, tun[t].pc = "open", tun[t].gen # gen[tun[t].page]
                       PROVE  tun[t].closed
            BY DEF TunnelsAimed
        <2>2. tun[t].page \in Page /\ Booked(tun[t], gen[tun[t].page])
            BY <2>1, KnownSocket
        <2>3. QED
            BY <2>1, <2>2 DEF Booked
    <1>4. SocketOrder
        <2>1. SUFFICES ASSUME NEW t \in Tunnel
                       PROVE  IsPrefix(tun[t].got, [i \in 1 .. tun[t].sent |-> i]) /\ InOrder(tun[t].seen)
            BY DEF SocketOrder, InOrder
        <2>2. tun[t] \in Socket /\ SocketOK(tun[t])
            BY KnownSocket
        <2>3. /\ tun[t].got \in Seq(Nat) /\ tun[t].sent \in Nat /\ Len(tun[t].got) <= tun[t].sent /\ Len(tun[t].got) \in Nat
              /\ DOMAIN tun[t].got = 1 .. Len(tun[t].got) /\ \A i \in DOMAIN tun[t].got : tun[t].got[i] = i
            BY <2>2, LenProperties DEF Socket, SocketOK, Upward
        <2>4. IsPrefix(tun[t].got, [i \in 1 .. tun[t].sent |-> i])
            <3>1. PICK all : all = [i \in 1 .. tun[t].sent |-> i]
                OBVIOUS
            <3>2. all \in Seq(Nat) /\ Len(all) = tun[t].sent
                <4>1. all \in [1 .. tun[t].sent -> Nat]
                    BY <3>1
                <4>2. all \in Seq(Nat)
                    BY <2>3, <4>1, SeqDef
                <4>3. DOMAIN all = 1 .. tun[t].sent
                    BY <3>1
                <4>4. QED
                    BY <2>3, <4>2, <4>3, LenProperties
            <3>3. SubSeq(all, 1, Len(tun[t].got)) = tun[t].got
                <4>1. PICK s : s = SubSeq(all, 1, Len(tun[t].got))
                    OBVIOUS
                <4>2. /\ s \in Seq(Nat) /\ Len(s) = Len(tun[t].got)
                      /\ \A i \in 1 .. Len(tun[t].got) : s[i] = all[i]
                    BY <2>3, <3>2, <4>1, SubSeqProperties
                <4>3. \A i \in 1 .. Len(tun[t].got) : i \in 1 .. tun[t].sent /\ s[i] = all[i] /\ tun[t].got[i] = i
                    <5> TAKE i \in 1 .. Len(tun[t].got)
                    <5>1. i \in 1 .. tun[t].sent
                        BY <2>3
                    <5>2. i \in DOMAIN tun[t].got
                        BY <2>3
                    <5>3. QED
                        BY <2>3, <4>2, <5>1, <5>2
                <4>4. \A i \in 1 .. Len(tun[t].got) : s[i] = tun[t].got[i]
                    BY <3>1, <4>3
                <4>5. QED
                    BY <2>3, <4>1, <4>2, <4>4, SeqEqual
            <3>4. QED
                BY <2>3, <3>1, <3>2, <3>3 DEF IsPrefix
        <2>5. QED
            BY <2>2, <2>4 DEF SocketOK, Downward
    <1>5. QED
        BY <1>1, <1>2, <1>3, <1>4 DEF Delivery

LEMMA IInvTyped == IInv => TypeOK
    <1> SUFFICES ASSUME IInv
                 PROVE  TypeOK
        OBVIOUS
    <1>1. \A t \in Tunnel : tun[t].shim \in 0 .. 3 /\ tun[t].ws \in {"none", "open", "closing", "closed"}
        BY DEF IInv, Typed, Socket
    <1>2. \A r \in Req : req[r].bridge \in {"dispatch", "replied"} => req[r].target \notin gone
        BY DEF IInv, Waits
    <1>3. QED
        BY <1>1, <1>2 DEF IInv, Typed, JarOK, TypeOK

\* Type correctness: the cap of a jar is kept, and no page answers that is gone.
THEOREM TypeCorrect == Spec => []TypeOK
    <1>1. Spec => []IInv
        BY InitOK, StepOK, PTL DEF Spec
    <1>2. QED
        BY <1>1, IInvTyped, PTL

\* Whatever pages boot, leave and switch their kernels, and however late answers come: requests are dispatched by the
\* page their URL names, with the cookies of the runtime they go to; booked tunnels are aimed at the current runtime;
\* sockets keep the order of their messages.
THEOREM DeliveryHolds == Spec => []Delivery
    <1>1. Spec => []IInv
        BY InitOK, StepOK, PTL DEF Spec
    <1>2. QED
        BY <1>1, IInvDelivers, PTL
====
