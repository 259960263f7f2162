---- MODULE Preview ----
(* How a preview reaches a project: the Service Worker (apps/web/public/preview-sw.js) intercepts the requests of     *)
(* preview documents and hands each to the Studio page its URL names, whose bridge (preview-bridge.ts) dispatches it  *)
(* into the page's current runtime; a WebSocket of a document is tunnelled by the bridge (preview-tools.ts,           *)
(* preview-inject.ts).  Pages load and go, runtimes are replaced by kernel switches and answers come late.            *)
EXTENDS Naturals, FiniteSets, SequencesExt

CONSTANTS
    Page,           \* client ids of Studio pages, one for each load
    Req, Tunnel,    \* intercepted requests; WebSockets of preview documents
    None,
    Urls,           \* the URLs a document asks for: records of scope, owner, primary, override, path

    Contexts,       \* URLs of the documents that ask for a path outside of the scope
    Lines,          \* Set-Cookie values of an answer: sequences of records of name, path, live
    MaxPerPort,     \* MAX_PER_PORT of preview-cookies.ts
    MaxKernels,     \* bound: runtimes of one page
    MaxFrames       \* bound: messages each way on one WebSocket

Digits == "digits"      \* an owner segment of the URLs of before owners

\* A URL within the scope names a port and, but for those of before owners, a page.
ASSUME PreviewAssumption ==
    /\ None \notin Page \cup Urls /\ Digits \notin Page
    /\ \A u \in Urls \cup (Contexts \ {None}) : u.scope => u.owner \in Page \cup {Digits} /\ u.primary # None
    /\ Lines \subseteq Seq([name : STRING, path : Seq(STRING), live : BOOLEAN])
    /\ MaxPerPort \in Nat \ {0} /\ MaxKernels \in Nat \ {0} /\ MaxFrames \in Nat

VARIABLES
    active,         \* the registration has an active worker
    update,         \* the worker that installs beside it: "none", "installing", "activated", "redundant"
    boot,           \* where startPreviewProxy stands in a page
    identity,       \* the pages that know their client id
    gone,           \* the pages that are closed or reloaded
    gen,            \* the runtime the bridge of a page is aimed at
    jar,            \* its cookies: jar[p][port], oldest first
    req,            \* the requests, in the worker and in the page
    tun             \* the tunnels, in the document and in the page

proxy == <<active, update, boot, identity>>
vars == <<proxy, gone, gen, jar, req, tun>>

Port == (UNION {{u.primary, u.override} : u \in Urls \cup (Contexts \ {None})}) \ {None}

Idle == [sw |-> "idle", url |-> None, context |-> None, route |-> None, target |-> None,    \* in the worker
         bridge |-> "none", gen |-> 0, cookies |-> {}, reply |-> 0, status |-> 0, stream |-> "none"]        \* in the page, and the answer
NoTunnel == [page |-> None, gen |-> 0, pc |-> "none", closed |-> FALSE, kept |-> FALSE, ws |-> "none", early |-> <<>>,
             shim |-> 0, up |-> <<>>, decoding |-> FALSE, down |-> <<>>, sent |-> 0, got |-> <<>>, made |-> 0, seen |-> <<>>]

Init ==
    /\ active \in BOOLEAN /\ update \in {"none", "installing"} /\ (update = "none" => active)
    /\ boot = [p \in Page |-> "off"] /\ identity = {}
    /\ gone = {} /\ gen = [p \in Page |-> 1] /\ jar = [p \in Page |-> [q \in Port |-> <<>>]]
    /\ req = [r \in Req |-> Idle] /\ tun = [t \in Tunnel |-> NoTunnel]

----
(* Routing. *)

parsePreviewPath(u) == u # None /\ u.scope /\ u.owner # Digits

applyOverride(u, primary) == IF u.override # None THEN u.override ELSE primary

\* An escaped path is routed by the URL of the document that asks for it.
routePreviewRequest(u, context) ==
    IF parsePreviewPath(u) THEN [owner |-> u.owner, port |-> applyOverride(u, u.primary)]
    ELSE IF parsePreviewPath(context) THEN [owner |-> context.owner, port |-> applyOverride(u, context.primary)]
    ELSE None

----
(* The page learns its client id. *)

\* startPreviewProxy: the bridge listens and the worker is registered.
Boot(p) ==
    /\ boot[p] = "off" /\ p \notin gone
    /\ boot' = [boot EXCEPT ![p] = "choose"]
    /\ UNCHANGED <<active, update, identity, gone, gen, jar, req, tun>>

Asks(p, worker) == boot' = [boot EXCEPT ![p] = IF worker THEN "ask" ELSE "done"]

\* activeWorker: a live update is waited for.
Choose(p) ==
    /\ boot[p] = "choose" /\ p \notin gone
    /\ CASE update = "installing" -> boot' = [boot EXCEPT ![p] = "wait"]
         [] update = "activated" -> Asks(p, TRUE)
         [] OTHER -> Asks(p, active)
    /\ UNCHANGED <<active, update, identity, gone, gen, jar, req, tun>>

\* mutant: the failure of an update is not an event one waits for.
UpdateSeenActive(p) ==
    /\ boot[p] = "wait" /\ update = "activated" /\ p \notin gone
    /\ Asks(p, TRUE)
    /\ UNCHANGED <<active, update, identity, gone, gen, jar, req, tun>>

\* The statechange event: the update took over, or failed and leaves the active worker.
UpdateSeen(p) ==
    /\ boot[p] = "wait" /\ update # "installing" /\ p \notin gone
    /\ Asks(p, update = "activated" \/ active)
    /\ UNCHANGED <<active, update, identity, gone, gen, jar, req, tun>>

\* The worker answers erdou:whoami with the id of the client that asks.
Whoami(p) ==
    /\ boot[p] = "ask" /\ p \notin gone
    /\ boot' = [boot EXCEPT ![p] = "done"] /\ identity' = identity \cup {p}
    /\ UNCHANGED <<active, update, gone, gen, jar, req, tun>>

\* WHOAMI_TIMEOUT_MS, of an update that stays in flight or of a worker that does not answer.
WhoamiTimesOut(p) ==
    /\ boot[p] = "ask" \/ (boot[p] = "wait" /\ update = "installing")
    /\ p \notin gone
    /\ boot' = [boot EXCEPT ![p] = "done"]
    /\ UNCHANGED <<active, update, identity, gone, gen, jar, req, tun>>

Updated ==
    /\ update = "installing"
    /\ \/ update' = "activated" /\ active' = TRUE
       \/ update' = "redundant" /\ UNCHANGED active
    /\ UNCHANGED <<boot, identity, gone, gen, jar, req, tun>>

\* The page is closed or reloaded, with the documents it embeds; what it was answering is lost.
Leave(p) ==
    /\ boot[p] # "off" /\ p \notin gone
    /\ gone' = gone \cup {p}
    /\ req' = [r \in Req |-> IF req[r].target = p
                 THEN [req[r] EXCEPT !.bridge = "none", !.stream = IF @ = "open" THEN "ended" ELSE @] ELSE req[r]]
    /\ tun' = [t \in Tunnel |-> IF tun[t].page = p THEN [NoTunnel EXCEPT !.page = p] ELSE tun[t]]
    /\ UNCHANGED <<proxy, gen, jar>>

----
(* The cookie jar. *)

\* What is left of a jar and the lines behind it: a cookie replaces the one of its name and path, one that is expired
\* only removes it.
Left(all) ==
    {i \in DOMAIN all : all[i].live /\ \A j \in DOMAIN all : j > i => all[j].name # all[i].name \/ all[j].path # all[i].path}

\* The oldest are evicted.
Youngest(S) == {i \in S : Cardinality({j \in S : j > i}) < MaxPerPort}

\* PreviewCookieJar.store: what the jar may be after it, which is one sequence.
Absorbed(all) ==
    LET S == Youngest(Left(all))
        Ascending == {order \in [1 .. Cardinality(S) -> S] : \A i, j \in DOMAIN order : i < j => order[i] < order[j]}
    IN  {[i \in DOMAIN order |-> all[order[i]]] : order \in Ascending}

\* What PreviewCookieJar.header sends on a path.
Header(p, port, path) == {c \in ToSet(jar[p][port]) : IsPrefix(c.path, path)}

----
(* Requests. *)

\* A request within the scope: its URL decides.
FetchInScope(r, u) ==
    /\ req[r].sw = "idle" /\ u.scope
    /\ LET route == routePreviewRequest(u, None) IN
       req' = [req EXCEPT ![r] = [@ EXCEPT !.url = u, !.route = route,
                 !.sw = IF route = None THEN "done" ELSE "owner", !.status = IF route = None THEN 400 ELSE 0]]
    /\ UNCHANGED <<proxy, gone, gen, jar, tun>>

\* A request outside of it: routeOutOfScope asks for the client that sent it, or takes the referrer.
FetchOutside(r, u, context) ==
    /\ req[r].sw = "idle" /\ ~u.scope
    /\ req' = [req EXCEPT ![r] = [@ EXCEPT !.url = u, !.context = context, !.sw = "context"]]
    /\ UNCHANGED <<proxy, gone, gen, jar, tun>>

ContextKnown(r) ==
    /\ req[r].sw = "context"
    /\ LET route == routePreviewRequest(req[r].url, req[r].context) IN
       req' = [req EXCEPT ![r] = [@ EXCEPT !.route = route, !.sw = IF route = None THEN "network" ELSE "owner"]]
    /\ UNCHANGED <<proxy, gone, gen, jar, tun>>

\* mutant: any Studio page will do.
SomeClient(owner) ==
    LET pages == {p \in Page \ gone : boot[p] # "off"} IN IF pages = {} THEN None ELSE CHOOSE p \in pages : TRUE

ownerClient(owner) == IF owner \in gone \/ boot[owner] = "off" THEN None ELSE owner

\* proxy up to the read of the body.
FindOwner(r) ==
    /\ req[r].sw = "owner"
    /\ LET target == ownerClient(req[r].route.owner) IN
       req' = [req EXCEPT ![r] = [@ EXCEPT !.target = target,
                 !.sw = IF target = None THEN "done" ELSE "body", !.status = IF target = None THEN 503 ELSE 0]]
    /\ UNCHANGED <<proxy, gone, gen, jar, tun>>

\* exchange: the message is posted and the timer armed.
Exchange(r) ==
    /\ req[r].sw = "body"
    /\ req' = [req EXCEPT ![r] = [@ EXCEPT !.sw = "wait", !.bridge = IF req[r].target \in gone THEN "none" ELSE "posted"]]
    /\ UNCHANGED <<proxy, gone, gen, jar, tun>>

\* The bridge's listener, and answer up to the dispatch into the runtime of that moment.
Receive(r) ==
    /\ req[r].bridge = "posted"
    /\ LET p == req[r].target IN
       req' = [req EXCEPT ![r] = IF p \in identity /\ p # @.route.owner
                                 THEN [@ EXCEPT !.bridge = "replied", !.reply = 502]
                                 ELSE [@ EXCEPT !.bridge = "dispatch", !.gen = gen[p], !.cookies = Header(p, req[r].route.port, req[r].url.path)]]
    /\ UNCHANGED <<proxy, gone, gen, jar, tun>>

\* The dispatch resolves, perhaps with cookies or a stream; the runtime may have been replaced meanwhile.
DispatchEnds(r, cookies, stream) ==
    /\ req[r].bridge = "dispatch"
    /\ req' = [req EXCEPT ![r] = [@ EXCEPT !.bridge = "replied", !.reply = 200, !.stream = stream]]
    /\ LET p == req[r].target
           Line(c) == [name |-> c.name, path |-> c.path, live |-> c.live, gen |-> req[r].gen, late |-> req[r].gen # gen[p]] IN
       \E after \in Absorbed(jar[p][req[r].route.port] \o [i \in DOMAIN cookies |-> Line(cookies[i])]) :
          jar' = [jar EXCEPT ![p][req[r].route.port] = after]
    /\ UNCHANGED <<proxy, gone, gen, tun>>

DispatchFails(r) ==
    /\ req[r].bridge = "dispatch"
    /\ req' = [req EXCEPT ![r] = [@ EXCEPT !.bridge = "replied", !.reply = 502]]
    /\ UNCHANGED <<proxy, gone, gen, jar, tun>>

\* The reply reaches the worker, or the port that the time-out has closed.
ReplyArrives(r) ==
    /\ req[r].bridge = "replied"
    /\ req' = [req EXCEPT ![r] = IF req[r].sw = "wait"
                 THEN [@ EXCEPT !.bridge = "none", !.sw = "done", !.status = req[r].reply]
                 ELSE [@ EXCEPT !.bridge = "none"]]
    /\ UNCHANGED <<proxy, gone, gen, jar, tun>>

\* DISPATCH_TIMEOUT_MS.
TimeOut(r) ==
    /\ req[r].sw = "wait"
    /\ req' = [req EXCEPT ![r] = [@ EXCEPT !.sw = "done", !.status = 504]]
    /\ UNCHANGED <<proxy, gone, gen, jar, tun>>

\* The producer of a streamed body ends or fails, or its reader cancels, which reaches the producer.
StreamEnds(r) ==
    /\ req[r].stream = "open" /\ req[r].status = 200
    /\ req' = [req EXCEPT ![r].stream = "ended"]
    /\ UNCHANGED <<proxy, gone, gen, jar, tun>>

----
(* WebSocket tunnels. *)

Set(t, x) == tun' = [tun EXCEPT ![t] = x] /\ UNCHANGED <<proxy, gone, gen, jar, req>>

Word(kind) == [kind |-> kind, n |-> 0]
Frame(n) == [kind |-> "frame", n |-> n]

\* openWsTunnel's finish: the document is told, once.
Finished(x) == IF x.closed THEN x ELSE [x EXCEPT !.closed = TRUE, !.down = Append(@, Word("close")), !.up = <<>>, !.kept = FALSE]

Failed(x) == Finished([x EXCEPT !.down = IF x.closed THEN @ ELSE Append(@, Word("error"))])

Closing(x) == [x EXCEPT !.ws = IF @ = "open" THEN "closing" ELSE @]

\* new WebSocket in a preview document that p embeds.
OpenSocket(t, p) ==
    /\ tun[t].page = None /\ boot[p] # "off" /\ p \notin gone
    /\ Set(t, [NoTunnel EXCEPT !.page = p, !.pc = "asked"])

\* erdou:ws-open reaches the bridge's listener.
Upgrade(t) ==
    /\ tun[t].pc = "asked"
    /\ Set(t, [tun[t] EXCEPT !.pc = "upgrading", !.gen = gen[tun[t].page]])

\* The runtime has no upgrade, or declines, or its cap is reached.
UpgradeFails(t) ==
    /\ tun[t].pc = "upgrading"
    /\ Set(t, Failed([tun[t] EXCEPT !.pc = "over"]))

Upgraded(t) ==
    /\ tun[t].pc = "upgrading"
    /\ Set(t, [tun[t] EXCEPT !.pc = "connected", !.ws = "open"])

\* A message of the guest: the connection keeps it until onMessage.
GuestSends(t) ==
    /\ tun[t].ws \in {"open", "closing"} /\ tun[t].made < MaxFrames
    /\ LET n == tun[t].made + 1 IN
       Set(t, [tun[t] EXCEPT !.made = n,
                 !.early = IF tun[t].pc = "connected" THEN Append(@, n) ELSE @,
                 !.down = IF tun[t].pc = "connected" \/ tun[t].closed THEN @ ELSE Append(@, Frame(n))])

GuestCloses(t) ==
    /\ tun[t].ws \in {"open", "closing"}
    /\ LET x == [tun[t] EXCEPT !.ws = "closed"] IN Set(t, IF x.pc = "connected" THEN x ELSE Finished(x))

\* openWsTunnel after the upgrade: onMessage, which delivers what came early, onClose, and the word "open".
Wire(t) ==
    /\ tun[t].pc = "connected"
    /\ LET heard == [tun[t] EXCEPT !.pc = "wired", !.down = @ \o [i \in DOMAIN tun[t].early |-> Frame(tun[t].early[i])], !.early = <<>>]
       IN  Set(t, IF heard.ws = "closed" THEN Finished(heard) ELSE [heard EXCEPT !.down = Append(@, Word("open"))])

\* The cleanup that openWsTunnel returns.
Released(x) == IF x.closed THEN x ELSE Finished(Closing(x))

\* The bridge keeps the cleanup of the tunnel, or uses it when the runtime was replaced meanwhile.
Keep(t) ==
    /\ tun[t].pc = "wired"
    /\ Set(t, [IF gen[tun[t].page] # tun[t].gen THEN Released(tun[t]) ELSE [tun[t] EXCEPT !.kept = TRUE] EXCEPT !.pc = "open"])

\* The document sends a message, as a Blob or not, closes, or posts what no shim of this version does.
ShimPosts(t, kind) ==
    /\ \/ kind \in {"frame", "blob"} /\ tun[t].shim = 1 /\ tun[t].sent < MaxFrames
       \/ kind = "close" /\ tun[t].shim < 2 /\ tun[t].pc # "none"
       \/ kind = "bad" /\ tun[t].shim = 1 /\ \A i \in DOMAIN tun[t].up : tun[t].up[i].kind # "bad"
    /\ LET n == tun[t].sent + IF kind \in {"frame", "blob"} THEN 1 ELSE 0 IN
       Set(t, [tun[t] EXCEPT !.up = IF tun[t].closed THEN @ ELSE Append(@, [kind |-> kind, n |-> n]), !.sent = n,
                 !.shim = IF kind = "close" THEN 2 ELSE @])

Sent(x, n) == [x EXCEPT !.got = IF x.ws = "open" THEN Append(@, n) ELSE @]

\* The chain of handle: one message after the other.
Handle(t) ==
    /\ tun[t].pc \in {"wired", "open"} /\ tun[t].up # <<>> /\ ~tun[t].decoding
    /\ LET m == Head(tun[t].up)
           x == [tun[t] EXCEPT !.up = Tail(@)]
       IN  Set(t, CASE m.kind = "close" -> Closing(x)
                    [] m.kind = "bad" -> Failed(Closing(x))
                    [] m.kind = "blob" -> [tun[t] EXCEPT !.decoding = TRUE]
                    [] OTHER -> Sent(x, m.n))

Decoded(t) ==
    /\ tun[t].decoding
    /\ Set(t, IF tun[t].up = <<>> THEN [tun[t] EXCEPT !.decoding = FALSE]
              ELSE [Sent(tun[t], Head(tun[t].up).n) EXCEPT !.decoding = FALSE, !.up = Tail(@)])

\* _recv of the shim.
ShimReceives(t) ==
    /\ tun[t].down # <<>>
    /\ LET m == Head(tun[t].down)
           x == [tun[t] EXCEPT !.down = Tail(@)]
       IN  Set(t, CASE m.kind = "open" -> [x EXCEPT !.shim = IF @ = 0 THEN 1 ELSE @]
                    [] m.kind = "error" -> x
                    [] m.kind = "close" -> [x EXCEPT !.shim = 3, !.seen = IF x.shim = 3 THEN @ ELSE Append(@, 0)]
                    [] OTHER -> [x EXCEPT !.seen = IF x.shim = 1 THEN Append(@, m.n) ELSE @])

----
\* retargetRuntime: a kernel switch.
Retarget(p) ==
    /\ p \notin gone /\ boot[p] # "off" /\ gen[p] < MaxKernels
    /\ gen' = [gen EXCEPT ![p] = @ + 1] /\ jar' = [jar EXCEPT ![p] = [q \in Port |-> <<>>]]
    /\ tun' = [t \in Tunnel |-> IF tun[t].page = p /\ tun[t].kept THEN Released(tun[t]) ELSE tun[t]]
    /\ UNCHANGED <<proxy, gone, req>>

Worker(r) ==
    \/ ContextKnown(r) \/ FindOwner(r) \/ Exchange(r) \/ TimeOut(r) \/ Receive(r) \/ ReplyArrives(r) \/ StreamEnds(r)

Pump(t) == Upgrade(t) \/ UpgradeFails(t) \/ Wire(t) \/ Keep(t) \/ ShimReceives(t)

Handshake(p) == Choose(p) \/ UpdateSeen(p) \/ Whoami(p) \/ WhoamiTimesOut(p)

Next ==
    \/ Updated
    \/ \E p \in Page : Boot(p) \/ Handshake(p) \/ Leave(p) \/ Retarget(p)
    \/ \E r \in Req :
        \/ Worker(r) \/ DispatchFails(r)
        \/ \E u \in Urls : FetchInScope(r, u) \/ \E context \in Contexts : FetchOutside(r, u, context)
        \/ DispatchEnds(r, <<>>, "open") \/ \E cookies \in Lines : DispatchEnds(r, cookies, "none")
    \/ \E t \in Tunnel :
        \/ Pump(t) \/ Upgraded(t) \/ GuestSends(t) \/ GuestCloses(t) \/ Handle(t) \/ Decoded(t)
        \/ \E p \in Page : OpenSocket(t, p)
        \/ \E kind \in {"frame", "blob", "close", "bad"} : ShimPosts(t, kind)

\* The worker's and the bridge's continuations run, their timers and the upgrade's cap fire.
Fairness ==
    /\ \A r \in Req : WF_vars(Worker(r))
    /\ \A t \in Tunnel : WF_vars(Pump(t))
    /\ \A p \in Page : WF_vars(Handshake(p))

Spec == Init /\ [][Next]_vars /\ Fairness

----
TypeOK ==
    /\ identity \cup gone \subseteq Page /\ gen \in [Page -> 1 .. MaxKernels]
    /\ \A p \in Page, q \in Port : Len(jar[p][q]) <= MaxPerPort
    /\ \A r \in Req : req[r].bridge \in {"dispatch", "replied"} => req[r].target \notin gone
    /\ \A t \in Tunnel : tun[t].shim \in 0 .. 3 /\ tun[t].ws \in {"none", "open", "closing", "closed"}

\* A request is answered by the page its preview's URL names and by no other, in whatever order pages boot, learn their
\* id and go (answer: "refusing to serve another tab's project").
NoCrossTab == \A r \in Req : req[r].bridge = "dispatch" => req[r].target = req[r].route.owner

\* A runtime is sent its own cookies; one of its predecessor only when the answer that set it was still on its way at
\* the switch (the jar is "cleared on a kernel switch").
CookiesOfKernel == \A r \in Req : \A c \in req[r].cookies : c.gen = req[r].gen \/ c.late

\* No tunnel into a replaced runtime stays open once the bridge has booked it.
TunnelsAimed == \A t \in Tunnel : tun[t].pc = "open" /\ tun[t].gen # gen[tun[t].page] => tun[t].closed

\* What a document sends reaches the guest in order and without a hole, whatever is decoded on the way; and its
\* socket is closed once, after all the messages it gets, of which it misses none but those from before "open".
SocketOrder ==
    \A t \in Tunnel :
        /\ IsPrefix(tun[t].got, [i \in 1 .. tun[t].sent |-> i])
        /\ \A i, j \in DOMAIN tun[t].seen : i < j => tun[t].seen[i] # 0 /\ tun[t].seen[j] \in {0, tun[t].seen[i] + j - i}

\* All four.
Delivery == NoCrossTab /\ CookiesOfKernel /\ TunnelsAimed /\ SocketOrder

\* Each request is answered, each socket opens or closes, each page ends its handshake.
Settles ==
    /\ \A r \in Req : req[r].sw # "idle" ~> req[r].sw \in {"done", "network"}
    /\ \A t \in Tunnel : tun[t].pc = "asked" ~> tun[t].shim # 0 \/ tun[t].page \in gone
    /\ \A p \in Page : boot[p] # "off" ~> boot[p] = "done" \/ p \in gone
====
