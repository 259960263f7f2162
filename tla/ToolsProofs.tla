---- MODULE ToolsProofs ----
(* The Preview panel follows the last act of agent or user, and what a preview tool says of it is true; and a delegate *)
(* call brings in the work of the children it applies, and of no other.                                                *)
EXTENDS MCTools, TLAPS, SequenceTheorems, FiniteSetTheorems, WellFoundedInduction

Commands == Runs \cup Serves
Opened == P!Opened
Frames == [port : Port, doc : {"blank", "ready"}, since : BOOLEAN]

----
(* The invariant of the panel. *)

\* A call of the panel or of open_preview: past its start it has a command.
CallShaped(k) ==
    /\ k = [pc |-> k.pc, cmd |-> k.cmd, sel |-> k.sel, pid |-> k.pid, opened |-> k.opened, loop |-> k.loop]
    /\ k.pc \in {"none", "kill", "bundle", "run", "up", "exit0", "exit1", "stale"}
    /\ k.pc \in {"kill", "bundle", "run", "up"} => k.cmd \in Commands

ViewShaped ==
    /\ open \in Seq(Port)
    /\ transport \in {"pending", "ready", "failed"}
    /\ frame = Nowhere \/ frame \in Frames
    /\ asked \in [port : {asked.port}, agent : BOOLEAN, over : BOOLEAN, taken : BOOLEAN]
    /\ request \in [port : {request.port}, fresh : BOOLEAN]
    /\ due \in BOOLEAN /\ swapped \in BOOLEAN

WorkShaped ==
    /\ tool = [pc |-> tool.pc, waited |-> tool.waited]
    /\ DOMAIN calls = P!Caller /\ \A c \in P!Caller : CallShaped(calls[c])
    /\ \A l \in late : l.cmd \in Commands /\ l.cmd.port # Nowhere

\* Once rendered nothing is left to do: no request, no kernel switch, no port that was awaited and is open.
Rendered == ~due => ~swapped /\ ~request.fresh /\ pending \notin Opened

\* Once rendered there is a frame if and only if a port is viewed and the transport is ready, and it is that port's.
InView ==
    /\ frame # Nowhere => transport = "ready"
    /\ ~due => /\ frame # Nowhere <=> transport = "ready" /\ selected \in Opened
               /\ frame # Nowhere => frame.port = selected

\* A request that is not handled yet is the last act, and the frame is still the one in view.
Requested == request.fresh /\ ~swapped =>
    /\ asked.port = request.port /\ asked.agent /\ ~asked.taken
    /\ frame # Nowhere => frame.port = selected

\* What the next render views unless there is a request.
Aim == IF pending \in Opened THEN pending ELSE selected

\* The port asked for last is awaited until it opens, and aimed at while it is open; its document is one of after the request.
Followed == ~request.fresh /\ ~swapped /\ ~asked.taken /\ asked.port # Nowhere =>
    /\ asked.port \notin Opened => pending = asked.port
    /\ asked.port \in Opened =>
         /\ Aim = asked.port /\ pending \in {Nowhere, asked.port}
         /\ asked.agent /\ frame # Nowhere /\ frame.port = asked.port /\ frame.doc = "ready" => frame.since

\* The agent does not use a preview tool while open_preview serves.
OneTool == tool.pc # "serve" => calls["tool"].pc \in {"none", "stale"}

ViewInv == ViewShaped /\ Rendered /\ InView /\ Requested /\ Followed
WorkInv == WorkShaped /\ OneTool
PanelInv == ViewInv /\ WorkInv

----
(* Sequences of ports. *)

\* What induction over lists rests on.
LEMMA LeastElement == ASSUME NEW T \in SUBSET Nat, T # {} PROVE \E n \in T : \A m \in T : n <= m
<1> DEFINE R == OpToRel(<, Nat)
<1>1. IsWellFoundedOn(R, Nat)
  BY NatLessThanWellFounded
<1>2. \E n \in T : \A m \in T : <<m, n>> \notin R
  <2> HIDE DEF R
  <2> QED BY <1>1, WFMin
<1>3. \A m, n \in Nat : m < n => <<m, n>> \in R
  BY DEF OpToRel
<1> HIDE DEF R
<1>4. \A n \in T : n \in Nat
  OBVIOUS
<1>5. PICK n \in T : \A m \in T : <<m, n>> \notin R
  BY <1>2
<1>6. \A m \in T : ~(m < n)
  BY <1>3, <1>4, <1>5, Zenon
<1>7. \A m \in T : n <= m
  BY <1>4, <1>6, Zenon, SMT
<1> QED BY <1>7

LessStep(s, ps, g, n) == IF n = 0 THEN <<>> ELSE IF s[n] \in ps THEN g[n - 1] ELSE Append(g[n - 1], s[n])

\* There is a function of which Less takes the last value: by induction over its domain.
LEMMA LessBuilt ==
  ASSUME NEW s \in Seq(Port), NEW ps
  PROVE  \E g : /\ g = [n \in 0 .. Len(s) |-> LessStep(s, ps, g, n)]
                /\ P!Less(s, ps) = g[Len(s)]
<1> DEFINE Built(m) == \E g : g = [n \in 0 .. m |-> LessStep(s, ps, g, n)]
           T == {m \in Nat : ~Built(m)}
<1>1. Len(s) \in Nat
  BY LenProperties
<1>2. T = {}
  <2> SUFFICES ASSUME T # {} PROVE FALSE
    OBVIOUS
  <2>1. PICK m \in T : \A j \in T : m <= j
    <3>1. T \in SUBSET Nat
      OBVIOUS
    <3> HIDE DEF T
    <3> QED BY <3>1, LeastElement
  <2>2. CASE m = 0
    <3> DEFINE g == [n \in 0 .. 0 |-> <<>>]
    <3>1. g = [n \in 0 .. 0 |-> LessStep(s, ps, g, n)]
      BY DEF LessStep
    <3> HIDE DEF g
    <3> QED BY <3>1, <2>1, <2>2
  <2>3. CASE m # 0
    <3>1. m \in Nat /\ m - 1 \in Nat /\ ~(m <= m - 1)
      BY <2>1, <2>3, SMT
    <3>2. Built(m - 1)
      BY <3>1, <2>1
    <3>3. PICK g : g = [n \in 0 .. m - 1 |-> LessStep(s, ps, g, n)]
      BY <3>2
    <3> DEFINE h == [n \in 0 .. m |-> IF n = m THEN LessStep(s, ps, g, m) ELSE g[n]]
    <3>4. ASSUME NEW n \in 0 .. m PROVE h[n] = LessStep(s, ps, h, n)
      <4>1. CASE n = 0
        <5>1. n # m /\ n \in 0 .. m - 1
          BY <4>1, <2>3, <3>1, SMT
        <5> QED BY <5>1, <4>1, <3>3 DEF LessStep
      <4>2. CASE n # 0
        <5>1. n - 1 \in 0 .. m - 1 /\ n - 1 \in 0 .. m /\ n - 1 # m
          BY <4>2, <3>1, SMT
        <5>2. h[n - 1] = g[n - 1]
          BY <5>1
        <5>3. LessStep(s, ps, h, n) = LessStep(s, ps, g, n)
          BY <5>2, <4>2 DEF LessStep
        <5>4. CASE n = m
          BY <5>3, <5>4
        <5>5. CASE n # m
          <6>1. n \in 0 .. m - 1
            BY <5>5, <3>1, SMT
          <6> QED BY <6>1, <5>5, <5>3, <3>3
        <5> QED BY <5>4, <5>5
      <4> QED BY <4>1, <4>2
    <3>5. h = [n \in 0 .. m |-> LessStep(s, ps, h, n)]
      <4>1. h = [n \in 0 .. m |-> h[n]]
        OBVIOUS
      <4> HIDE DEF h
      <4> QED BY <4>1, <3>4
    <3> HIDE DEF h
    <3>6. Built(m)
      BY <3>5
    <3> QED BY <3>6, <2>1
  <2> QED BY <2>2, <2>3
<1>3. Built(Len(s))
  BY <1>1, <1>2
<1> DEFINE of == CHOOSE g : g = [n \in 0 .. Len(s) |-> LessStep(s, ps, g, n)]
<1>4. of = [n \in 0 .. Len(s) |-> LessStep(s, ps, of, n)]
  BY <1>3
<1>5. P!Less(s, ps) = of[Len(s)]
  BY DEF P!Less, LessStep
<1> HIDE DEF of
<1> QED BY <1>4, <1>5

\* Less keeps exactly the ports that are not in ps.
LEMMA LessKeeps ==
  ASSUME NEW s \in Seq(Port), NEW ps
  PROVE  /\ P!Less(s, ps) \in Seq(Port)
         /\ ToSet(P!Less(s, ps)) = ToSet(s) \ ps
<1> DEFINE L == Len(s)
           Kept(os, m) ==
             /\ os \in Seq(Port)
             /\ {os[i] : i \in 1 .. Len(os)} = {s[j] : j \in 1 .. m} \ ps
<1>1. L \in Nat /\ DOMAIN s = 1 .. L /\ \A j \in 1 .. L : s[j] \in Port
  BY LenProperties, ElementOfSeq
<1>2. PICK g : g = [n \in 0 .. L |-> LessStep(s, ps, g, n)] /\ P!Less(s, ps) = g[L]
  BY LessBuilt
<1> DEFINE T == {m \in Nat : m <= L /\ ~Kept(g[m], m)}
<1>3. T = {}
  <2> SUFFICES ASSUME T # {} PROVE FALSE
    OBVIOUS
  <2>1. PICK m \in T : \A j \in T : m <= j
    <3>1. T \in SUBSET Nat
      OBVIOUS
    <3> HIDE DEF T
    <3> QED BY <3>1, LeastElement
  <2>4. ~Kept(g[m], m)
    BY <2>1
  <2>2. CASE m = 0
    <3>1. g[0] = <<>>
      <4>1. 0 \in 0 .. L
        BY <1>1, SMT
      <4> QED BY <4>1, <1>2 DEF LessStep
    <3>2. Len(<<>>) = 0 /\ <<>> \in Seq(Port) /\ 1 .. 0 = {}
      BY SMT
    <3>3. Kept(g[0], 0)
      BY <3>1, <3>2
    <3> QED BY <3>3, <2>4, <2>2
  <2>3. CASE m # 0
    <3>1. m \in Nat /\ m <= L /\ m - 1 \in Nat /\ m - 1 <= L /\ ~(m <= m - 1) /\ m \in 0 .. L /\ m \in 1 .. L
      BY <2>1, <2>3, <1>1, SMT
    <3>2. Kept(g[m - 1], m - 1)
      BY <3>1, <2>1
    <3>3. g[m] = IF s[m] \in ps THEN g[m - 1] ELSE Append(g[m - 1], s[m])
      BY <3>1, <2>3, <1>2 DEF LessStep
    <3>4. 1 .. m = (1 .. m - 1) \cup {m}
      BY <3>1, SMT
    <3>5. {s[j] : j \in 1 .. m} = {s[j] : j \in 1 .. m - 1} \cup {s[m]}
      BY <3>4, Zenon
    <3>6. CASE s[m] \in ps
      BY <3>2, <3>3, <3>5, <3>6, <2>4, Zenon
    <3>7. CASE s[m] \notin ps
      <4> DEFINE p == g[m - 1]
                 q == Append(p, s[m])
      <4>1. s[m] \in Port /\ p \in Seq(Port)
        BY <3>1, <3>2, <1>1
      <4>2. /\ q \in Seq(Port) /\ Len(p) \in Nat /\ Len(q) = Len(p) + 1
            /\ \A i \in 1 .. Len(p) : q[i] = p[i]
            /\ q[Len(p) + 1] = s[m]
        BY <4>1, AppendProperties, LenProperties
      <4>3. 1 .. Len(q) = (1 .. Len(p)) \cup {Len(p) + 1}
        BY <4>2, SMT
      <4>4. g[m] = q
        BY <3>3, <3>7
      <4>5. {p[i] : i \in 1 .. Len(p)} = {s[j] : j \in 1 .. m - 1} \ ps
        BY <3>2
      <4> HIDE DEF q, p
      <4>6. {q[i] : i \in 1 .. Len(q)} = {p[i] : i \in 1 .. Len(p)} \cup {s[m]}
        BY <4>2, <4>3, Zenon
      <4>7. {q[i] : i \in 1 .. Len(q)} = {s[j] : j \in 1 .. m} \ ps
        BY <4>6, <4>5, <3>5, <3>7, Zenon
      <4> QED BY <4>7, <4>4, <4>2, <2>4
    <3> QED BY <3>6, <3>7
  <2> QED BY <2>2, <2>3
<1>4. Kept(g[L], L)
  <2>1. L <= L
    BY <1>1, SMT
  <2> HIDE DEF Kept, L
  <2> QED BY <2>1, <1>1, <1>3, Zenon
<1>5. DOMAIN g[L] = 1 .. Len(g[L])
  BY <1>4, LenProperties
<1> QED BY <1>1, <1>2, <1>4, <1>5 DEF ToSet

\* What Append, Last and the empty sequence mean for the set of ports.
LEMMA PortSets ==
  ASSUME NEW s \in Seq(Port)
  PROVE  /\ ToSet(s) \subseteq Port /\ ToSet(<<>>) = {}
         /\ s # <<>> => Last(s) \in ToSet(s)
         /\ ToSet(s) # {} => s # <<>>
         /\ \A p \in Port : Append(s, p) \in Seq(Port) /\ ToSet(Append(s, p)) = ToSet(s) \cup {p}
<1>1. Len(s) \in Nat /\ DOMAIN s = 1 .. Len(s) /\ \A j \in 1 .. Len(s) : s[j] \in Port
  BY LenProperties, ElementOfSeq
<1>2. ToSet(s) \subseteq Port /\ ToSet(<<>>) = {}
  <2>1. DOMAIN <<>> = {}
    OBVIOUS
  <2> QED BY <1>1, <2>1 DEF ToSet
<1>3. s # <<>> => Last(s) \in ToSet(s)
  <2>1. s # <<>> => Len(s) \in 1 .. Len(s)
    BY <1>1, EmptySeq, SMT
  <2> QED BY <2>1, <1>1 DEF ToSet, Last
<1>4. ASSUME NEW p \in Port PROVE Append(s, p) \in Seq(Port) /\ ToSet(Append(s, p)) = ToSet(s) \cup {p}
  <2> DEFINE q == Append(s, p)
  <2>1. /\ q \in Seq(Port) /\ Len(q) = Len(s) + 1
        /\ \A i \in 1 .. Len(s) : q[i] = s[i]
        /\ q[Len(s) + 1] = p
    BY AppendProperties, LenProperties
  <2>2. 1 .. Len(q) = (1 .. Len(s)) \cup {Len(s) + 1}
    BY <2>1, <1>1, SMT
  <2>5. DOMAIN q = 1 .. Len(q)
    BY <2>1, LenProperties
  <2> HIDE DEF q
  <2>3. {q[i] : i \in 1 .. Len(q)} = {s[i] : i \in 1 .. Len(s)} \cup {p}
    BY <2>1, <2>2, Zenon
  <2>4. ToSet(q) = ToSet(s) \cup {p}
    BY <2>3, <2>5, <1>1 DEF ToSet
  <2> QED BY <2>1, <2>4 DEF q
<1> QED BY <1>2, <1>3, <1>4

----
(* What is in view. *)

LEMMA OpenedIs == Opened = ToSet(open) /\ P!Opened = ToSet(open)
BY DEF Opened, P!Opened, P!ToSet, ToSet

\* The iframe that a commit leaves: a document is kept only with its frame.
LEMMA MountedIs ==
  ASSUME ViewShaped, NEW sel, NEW reload \in BOOLEAN
  PROVE  LET f == P!Mounted(sel, reload) IN
         /\ f = Nowhere \/ f \in Frames
         /\ f # Nowhere <=> transport = "ready" /\ sel \in ToSet(open)
         /\ f # Nowhere => f.port = sel
         /\ f # Nowhere /\ f.doc = "ready" => f = frame /\ ~reload
<1> DEFINE f == P!Mounted(sel, reload)
           new == [port |-> sel, doc |-> "blank", since |-> FALSE]
<1>1. f = IF sel \notin ToSet(open) \/ transport # "ready" THEN Nowhere
          ELSE IF frame # Nowhere /\ frame.port = sel /\ ~reload THEN frame ELSE new
  BY OpenedIs DEF P!Mounted
<1>2. sel \in ToSet(open) => new \in Frames /\ new # Nowhere
  <2>1. ToSet(open) \subseteq Port
    BY PortSets DEF ViewShaped
  <2>2. Nowhere \notin Frames
    BY PanelAssumption DEF Frames
  <2>3. sel \in Port => new \in Frames
    BY DEF Frames
  <2> HIDE DEF new
  <2> QED BY <2>1, <2>2, <2>3
<1>3. new.port = sel /\ new.doc = "blank"
  OBVIOUS
<1> HIDE DEF f, new
<1>4. frame = Nowhere \/ frame \in Frames
  BY DEF ViewShaped
<1> QED BY <1>1, <1>2, <1>3, <1>4 DEF f

\* A step that touches nothing of the view; a Run that is clicked is not one the last act came over.
LEMMA StillView ==
  ASSUME ViewInv, UNCHANGED <<open, request, selected, pending, due, swapped, frame, transport>>,
         asked' = asked \/ asked' = [asked EXCEPT !.over = FALSE]
  PROVE  ViewInv'
<1>1. Opened' = Opened
  BY DEF Opened, P!Opened, P!ToSet, ToSet
<1>2. /\ asked' \in [port : {asked'.port}, agent : BOOLEAN, over : BOOLEAN, taken : BOOLEAN]
      /\ asked'.port = asked.port /\ asked'.agent = asked.agent /\ asked'.taken = asked.taken
  BY DEF ViewInv, ViewShaped
<1> QED BY <1>1, <1>2 DEF ViewInv, ViewShaped, Rendered, InView, Requested, Followed, Aim

\* port.opened: what was awaited may be open now.
LEMMA OpensView ==
  ASSUME ViewInv, ~due, NEW p \in Port, open' = IF p \in P!Opened THEN open ELSE Append(open, p), due' = TRUE,
         UNCHANGED <<request, selected, pending, swapped, asked, frame, transport>>
  PROVE  ViewInv'
<1>1. Opened = ToSet(open) /\ Opened' = ToSet(open') /\ P!Opened = ToSet(open)
  BY DEF Opened, P!Opened, P!ToSet, ToSet
<1>2. open \in Seq(Port)
  BY DEF ViewInv, ViewShaped
<1>3. open' \in Seq(Port) /\ Opened' = Opened \cup {p} /\ Opened \subseteq Port
  BY <1>1, <1>2, PortSets
<1>4. Nowhere \notin Port
  BY PanelAssumption
<1>5. ViewShaped'
  BY <1>3 DEF ViewInv, ViewShaped
<1>6. Rendered' /\ InView' /\ Requested'
  BY DEF ViewInv, Rendered, InView, Requested
<1>7. Followed'
  <2> SUFFICES ASSUME ~request.fresh, ~swapped, ~asked.taken, asked.port # Nowhere PROVE Followed'
    BY DEF Followed
  <2>1. pending \notin Opened /\ Followed /\ (frame # Nowhere => frame.port = selected /\ selected \in Opened)
    BY DEF ViewInv, Rendered, InView
  <2>2. CASE asked.port \in Opened
    <3>1. pending = Nowhere /\ selected = asked.port
      BY <2>1, <2>2 DEF Followed, Aim
    <3>2. pending \notin Opened'
      BY <3>1, <1>3, <1>4
    <3> QED BY <2>1, <2>2, <3>1, <3>2, <1>3 DEF Followed, Aim
  <2>3. CASE asked.port \notin Opened
    <3>1. pending = asked.port /\ (frame # Nowhere => frame.port # asked.port)
      BY <2>1, <2>3 DEF Followed
    <3> QED BY <3>1, <1>3 DEF Followed, Aim
  <2> QED BY <2>2, <2>3
<1> QED BY <1>5, <1>6, <1>7 DEF ViewInv

\* Ports close, and what was asked for is forgotten with its port.
LEMMA ClosesView ==
  ASSUME ViewInv, ~due, NEW ps, open' = P!Less(open, ps), due' \in BOOLEAN,
         asked' = P!Left(ps) \/ asked' = [P!Left(ps) EXCEPT !.over = FALSE],
         due' \/ ToSet(open) \cap ps = {}, selected' = selected \/ ToSet(open) \subseteq ps,
         ~due' => selected' = selected,
         UNCHANGED <<request, pending, swapped, frame, transport>>
  PROVE  ViewInv'
<1>1. Opened = ToSet(open) /\ Opened' = ToSet(open')
  BY DEF Opened, P!Opened, P!ToSet, ToSet
<1>2. open \in Seq(Port)
  BY DEF ViewInv, ViewShaped
<1>3. open' \in Seq(Port) /\ Opened' = Opened \ ps
  BY <1>1, <1>2, LessKeeps
<1>4. /\ asked' \in [port : {asked'.port}, agent : BOOLEAN, over : BOOLEAN, taken : BOOLEAN]
      /\ asked.port \in ps => asked'.port = Nowhere
      /\ asked.port \notin ps => asked'.port = asked.port /\ asked'.agent = asked.agent /\ asked'.taken = asked.taken
  <2>1. ViewShaped /\ P!Nothing = [port |-> Nowhere, agent |-> FALSE, over |-> FALSE, taken |-> FALSE]
    BY DEF ViewInv, P!Nothing
  <2>2. P!Left(ps) = IF asked.port \in ps THEN P!Nothing ELSE asked
    BY DEF P!Left
  <2>3. CASE asked.port \in ps
    <3>1. asked' = P!Nothing \/ asked' = [P!Nothing EXCEPT !.over = FALSE]
      BY <2>2, <2>3
    <3>2. asked' = [port |-> Nowhere, agent |-> FALSE, over |-> FALSE, taken |-> FALSE]
      BY <3>1, <2>1
    <3> QED BY <3>2, <2>3
  <2>4. CASE asked.port \notin ps
    BY <2>1, <2>2, <2>4 DEF ViewShaped
  <2> QED BY <2>3, <2>4
<1>5. ViewShaped'
  BY <1>3, <1>4 DEF ViewInv, ViewShaped
<1>6. Rendered' /\ InView' /\ Requested'
  <2>1. Rendered /\ InView /\ ~request.fresh
    BY DEF ViewInv, Rendered
  <2>2. CASE due'
    BY <2>1, <2>2 DEF Rendered, InView, Requested
  <2>3. CASE ~due'
    BY <2>1, <2>3, <1>3, <1>1 DEF Rendered, InView, Requested
  <2> QED BY <2>2, <2>3
<1>7. Followed'
  <2> SUFFICES ASSUME asked.port \notin ps, ~request.fresh, ~swapped, ~asked.taken, asked.port # Nowhere PROVE Followed'
    BY <1>4 DEF Followed
  <2>1. pending \notin Opened /\ Followed /\ asked'.port = asked.port /\ asked'.agent = asked.agent
    BY <1>4 DEF ViewInv, Rendered
  <2>2. pending \notin Opened' /\ (asked.port \in Opened' <=> asked.port \in Opened)
    BY <2>1, <1>3
  <2>3. asked.port \in Opened => selected' = selected
    BY <1>1
  <2> QED BY <2>1, <2>2, <2>3 DEF Followed, Aim
<1> QED BY <1>5, <1>6, <1>7 DEF ViewInv

\* A request: until it is rendered the frame is still the old one's, and its document is of before the request.
LEMMA RequestView ==
  ASSUME ViewInv, ~due, NEW p, P!Requests(p), UNCHANGED <<open, selected, pending, swapped, transport>>
  PROVE  ViewInv'
<1>1. Opened' = Opened
  BY DEF Opened, P!Opened
<1>2. /\ request' = [port |-> p, fresh |-> TRUE] /\ due' = TRUE
      /\ asked' \in [port : {p}, agent : {TRUE}, over : BOOLEAN, taken : {FALSE}]
  BY DEF P!Requests, P!Act
<1>3. /\ frame = Nowhere => frame' = Nowhere
      /\ frame # Nowhere => frame' \in Frames /\ frame'.port = frame.port
  BY DEF P!Requests, ViewInv, ViewShaped, Frames
<1>4. ViewShaped'
  BY <1>2, <1>3, <1>1 DEF ViewInv, ViewShaped
<1>5. Rendered' /\ InView'
  BY <1>2, <1>3 DEF ViewInv, Rendered, InView
<1>6. Requested' /\ Followed'
  BY <1>2, <1>3 DEF ViewInv, Rendered, InView, Requested, Followed
<1> QED BY <1>4, <1>5, <1>6 DEF ViewInv

\* The document of the frame commits, or is left by a click.
LEMMA DocumentView ==
  ASSUME ViewInv, ~due, frame # Nowhere,
         \/ frame' = [frame EXCEPT !.doc = "ready", !.since = TRUE]
         \/ frame' = [frame EXCEPT !.doc = "blank"]
         \/ frame' = frame,
         UNCHANGED <<open, request, selected, pending, due, swapped, asked, transport>>
  PROVE  ViewInv'
<1>1. Opened' = Opened
  BY DEF Opened, P!Opened
<1>2. /\ frame \in Frames /\ frame' \in Frames /\ frame' # Nowhere /\ frame'.port = frame.port
      /\ frame'.doc = "ready" => frame'.since \/ (frame.doc = "ready" /\ frame'.since = frame.since)
  <2>1. frame \in Frames /\ Nowhere \notin Frames
    BY PanelAssumption DEF ViewInv, ViewShaped, Frames
  <2>2. frame' \in Frames /\ frame'.port = frame.port
    BY <2>1 DEF Frames
  <2>3. frame'.doc = "ready" => frame'.since \/ (frame.doc = "ready" /\ frame'.since = frame.since)
    BY <2>1 DEF Frames
  <2> QED BY <2>1, <2>2, <2>3
<1>3. ViewShaped' /\ Rendered' /\ InView'
  BY <1>1, <1>2 DEF ViewInv, ViewShaped, Rendered, InView
<1>4. Requested' /\ Followed'
  BY <1>1, <1>2 DEF ViewInv, Rendered, Requested, Followed, Aim
<1> QED BY <1>3, <1>4 DEF ViewInv

\* The boot handshake ends; there was no frame before it.
LEMMA TransportView ==
  ASSUME ViewInv, ~due, transport = "pending", transport' \in {"ready", "failed"}, due' = TRUE,
         UNCHANGED <<open, request, selected, pending, swapped, asked, frame>>
  PROVE  ViewInv'
<1>1. Opened' = Opened
  BY DEF Opened, P!Opened
<1>2. frame = Nowhere
  BY DEF ViewInv, InView
<1> QED BY <1>1, <1>2 DEF ViewInv, ViewShaped, Rendered, InView, Requested, Followed, Aim

\* A kernel switch: nothing is asked for any more.
LEMMA SwapView ==
  ASSUME ViewInv, ~due, open' = <<>>, due' = TRUE, swapped' = TRUE, asked' = P!Nothing,
         UNCHANGED <<request, selected, pending, transport, frame>>
  PROVE  ViewInv'
<1>1. open' \in Seq(Port)
  OBVIOUS
<1> QED BY <1>1 DEF ViewInv, ViewShaped, Rendered, InView, Requested, Followed, P!Nothing

\* The user's pick, and what stays in view when × is clicked.
LEMMA PickView ==
  ASSUME ViewInv, ~due, NEW p, NEW q, selected' = p, pending' = Nowhere, frame' = P!Mounted(p, FALSE),
         asked' \in [port : {q}, agent : {FALSE}, over : BOOLEAN, taken : {FALSE}], q \in Opened => p = q,
         UNCHANGED <<open, request, due, swapped, transport>>, q \in Opened \cup {Nowhere}
  PROVE  ViewInv'
<1>1. Opened = ToSet(open) /\ Opened' = Opened
  BY DEF Opened, P!Opened, P!ToSet, ToSet
<1>2. Nowhere \notin Opened
  BY <1>1, PortSets, PanelAssumption DEF ViewInv, ViewShaped
<1>3. ViewShaped
  BY DEF ViewInv
<1>4. /\ frame' = Nowhere \/ frame' \in Frames
      /\ frame' # Nowhere <=> transport = "ready" /\ p \in Opened
      /\ frame' # Nowhere => frame'.port = p
  BY <1>3, <1>1, MountedIs
<1>5. ViewShaped'
  BY <1>3, <1>4 DEF ViewShaped
<1>6. Rendered' /\ InView' /\ Requested'
  BY <1>1, <1>2, <1>4 DEF ViewInv, Rendered, InView, Requested
<1>7. Followed'
  BY <1>1, <1>2 DEF Followed, Aim
<1> QED BY <1>5, <1>6, <1>7 DEF ViewInv

\* × closes one port.
LEMMA StopView ==
  ASSUME ViewInv, ~due, NEW p, pending' = Nowhere, open' = P!Less(open, {p}), due' = TRUE, P!Stays({p}),
         selected' = IF selected = p THEN Nowhere ELSE selected,
         UNCHANGED <<request, swapped, frame, transport>>
  PROVE  ViewInv'
<1>1. Opened = ToSet(open) /\ Opened' = ToSet(open') /\ P!viewedPort = (IF selected \in Opened THEN selected ELSE Nowhere)
  BY DEF Opened, P!Opened, P!ToSet, ToSet, P!viewedPort
<1>2. open \in Seq(Port)
  BY DEF ViewInv, ViewShaped
<1>3. open' \in Seq(Port) /\ Opened' = Opened \ {p} /\ Nowhere \notin Opened
  BY <1>1, <1>2, LessKeeps, PortSets, PanelAssumption
<1> DEFINE q == IF P!viewedPort = p THEN Nowhere ELSE P!viewedPort
<1>4. asked' \in [port : {q}, agent : {FALSE}, over : BOOLEAN, taken : {FALSE}] /\ (q = Nowhere \/ (q = selected /\ q # p))
  <2>1. asked' = IF P!viewedPort \in {p, Nowhere} THEN P!Nothing ELSE P!Act(P!viewedPort, FALSE)
    BY DEF P!Stays
  <2>2. P!Nothing = [port |-> Nowhere, agent |-> FALSE, over |-> FALSE, taken |-> FALSE]
    BY DEF P!Nothing
  <2>3. P!Act(P!viewedPort, FALSE) \in [port : {P!viewedPort}, agent : {FALSE}, over : BOOLEAN, taken : {FALSE}]
    BY DEF P!Act
  <2>4. CASE P!viewedPort \in {p, Nowhere}
    BY <2>1, <2>2, <2>4
  <2>5. CASE P!viewedPort \notin {p, Nowhere}
    BY <2>1, <2>3, <2>5, <1>1
  <2> QED BY <2>4, <2>5
<1>5. ViewShaped'
  BY <1>3, <1>4 DEF ViewInv, ViewShaped
<1>6. Rendered' /\ InView' /\ Requested'
  BY DEF ViewInv, Rendered, InView, Requested
<1>7. Followed'
  <2>1. Nowhere \notin Opened'
    BY <1>3
  <2> HIDE DEF q
  <2>2. asked'.port # Nowhere => asked'.port = selected /\ selected' = selected /\ asked'.agent = FALSE
    BY <1>4
  <2>3. asked'.port # Nowhere => asked'.port \in Opened'
    BY <1>1, <1>3, <1>4 DEF q
  <2> QED BY <2>1, <2>2, <2>3 DEF Followed, Aim
<1> QED BY <1>5, <1>6, <1>7 DEF ViewInv

\* A run that settles: its port is the one asked for, unless it takes the view from an act it came before.
LEMMA SettlesView ==
  ASSUME ViewInv, ~due, NEW ok \in BOOLEAN, frame' = P!Mounted(selected', ok),
         \/ asked' = asked /\ (selected' = selected \/ pending # Nowhere)
         \/ asked' = [asked EXCEPT !.taken = TRUE]
         \/ asked' = P!Nothing
         \/ asked' = [P!Nothing EXCEPT !.port = selected'] /\ selected' \in P!Opened /\ pending = Nowhere,
         UNCHANGED <<open, request, pending, due, swapped, transport>>
  PROVE  ViewInv'
<1>1. Opened = ToSet(open) /\ Opened' = Opened /\ P!Opened = Opened
  BY DEF Opened, P!Opened, P!ToSet, ToSet
<1>2. ViewShaped /\ asked \in [port : {asked.port}, agent : BOOLEAN, over : BOOLEAN, taken : BOOLEAN]
  BY DEF ViewInv, ViewShaped
<1>3. /\ frame' = Nowhere \/ frame' \in Frames
      /\ frame' # Nowhere <=> transport = "ready" /\ selected' \in Opened
      /\ frame' # Nowhere => frame'.port = selected'
      /\ frame' # Nowhere /\ frame'.doc = "ready" => frame' = frame
  BY <1>1, <1>2, MountedIs
<1>4. /\ asked' \in [port : {asked'.port}, agent : BOOLEAN, over : BOOLEAN, taken : BOOLEAN]
      /\ \/ asked'.taken \/ asked'.port = Nowhere
         \/ asked' = asked /\ (selected' = selected \/ pending # Nowhere)
         \/ asked'.port = selected' /\ asked'.agent = FALSE /\ selected' \in Opened /\ pending = Nowhere
  <2>1. P!Nothing = [port |-> Nowhere, agent |-> FALSE, over |-> FALSE, taken |-> FALSE]
    BY DEF P!Nothing
  <2>2. CASE asked' = asked /\ (selected' = selected \/ pending # Nowhere)
    BY <2>2, <1>2
  <2>3. CASE asked' = [asked EXCEPT !.taken = TRUE]
    BY <2>3, <1>2
  <2>4. CASE asked' = P!Nothing
    BY <2>1, <2>4
  <2>5. CASE asked' = [P!Nothing EXCEPT !.port = selected'] /\ selected' \in P!Opened /\ pending = Nowhere
    BY <2>1, <2>5, <1>1
  <2> QED BY <2>2, <2>3, <2>4, <2>5
<1>5. ViewShaped'
  BY <1>2, <1>3, <1>4 DEF ViewShaped
<1>6. Rendered' /\ InView' /\ Requested'
  BY <1>1, <1>3 DEF ViewInv, Rendered, InView, Requested
<1>7. Followed'
  <2> SUFFICES ASSUME ~request.fresh, ~swapped, ~asked'.taken, asked'.port # Nowhere PROVE Followed'
    BY DEF Followed
  <2>1. CASE asked' = asked /\ (selected' = selected \/ pending # Nowhere)
    <3>1. pending \notin Opened /\ Followed
      BY DEF ViewInv, Rendered
    <3>2. asked.port \in Opened => selected' = selected
      BY <2>1, <3>1 DEF Followed
    <3> QED BY <2>1, <3>1, <3>2, <1>1, <1>3 DEF ViewInv, InView, Followed, Aim
  <2>2. CASE asked'.port = selected' /\ asked'.agent = FALSE /\ selected' \in Opened /\ pending = Nowhere
    <3>1. pending \notin Opened
      BY DEF ViewInv, Rendered
    <3>2. Aim' = selected'
      BY <3>1, <1>1 DEF Aim
    <3> QED BY <2>2, <3>2, <1>1 DEF Followed
  <2> QED BY <2>1, <2>2, <1>4
<1> QED BY <1>5, <1>6, <1>7 DEF ViewInv

\* A commit: what was asked for last is in view if its port is open, and awaited if not.
LEMMA RenderView ==
  ASSUME ViewInv, P!Render
  PROVE  ViewInv'
<1> DEFINE ports == ToSet(open)
           target == IF ~request.fresh THEN Nowhere ELSE IF request.port # Nowhere THEN request.port
                     ELSE IF open # <<>> THEN Last(open) ELSE Nowhere
           hit == target \in ports
           pend1 == IF hit THEN Nowhere ELSE IF target # Nowhere THEN target ELSE pending
           sel1 == IF hit THEN target ELSE selected
           sel2 == IF pend1 \in ports THEN pend1 ELSE sel1
           next == P!reducePreviewSelection(open)
           sel == IF swapped THEN Nowhere ELSE next.sel
<1>1. Opened = ports /\ Opened' = ports /\ P!Opened = ports /\ open' = open
  BY DEF Opened, P!Opened, P!ToSet, ToSet, P!Render
<1>2. ViewShaped /\ open \in Seq(Port) /\ ports \subseteq Port /\ Nowhere \notin ports /\ (open # <<>> => Last(open) \in ports)
  BY PortSets, PanelAssumption DEF ViewInv, ViewShaped
<1>3. /\ next.sel = sel2 \/ sel2 \notin ports
      /\ next.pend = IF pend1 \in ports THEN Nowhere ELSE pend1
      /\ next.reload = (hit /\ target = selected)
  BY <1>1 DEF P!reducePreviewSelection, P!Last, Last, P!ToSet, ToSet
<1>4. /\ selected' = sel /\ pending' = (IF swapped THEN Nowhere ELSE next.pend)
      /\ frame' = P!Mounted(sel, next.reload)
      /\ request' = [port |-> Nowhere, fresh |-> FALSE] /\ due' = FALSE /\ swapped' = FALSE /\ transport' = transport
  BY DEF P!Render, P!NoRequest
<1>5. /\ asked' \in [port : {asked'.port}, agent : BOOLEAN, over : BOOLEAN, taken : BOOLEAN]
      /\ swapped => asked'.port = Nowhere
      /\ ~swapped => /\ asked'.agent = asked.agent /\ asked'.taken = asked.taken
                     /\ asked'.port = IF request.fresh /\ request.port = Nowhere /\ open # <<>> THEN Last(open) ELSE asked.port
  <2>1. P!Last(open) = Last(open) /\ P!Nothing = [port |-> Nowhere, agent |-> FALSE, over |-> FALSE, taken |-> FALSE]
    BY DEF P!Last, Last, P!Nothing
  <2>2. asked' = IF swapped THEN P!Nothing ELSE IF request.fresh /\ request.port = Nowhere /\ open # <<>>
                 THEN [asked EXCEPT !.port = P!Last(open)] ELSE asked
    BY DEF P!Render
  <2>3. asked \in [port : {asked.port}, agent : BOOLEAN, over : BOOLEAN, taken : BOOLEAN]
    BY <1>2 DEF ViewShaped
  <2>4. CASE swapped
    BY <2>1, <2>2, <2>4
  <2>5. CASE ~swapped /\ request.fresh /\ request.port = Nowhere /\ open # <<>>
    BY <2>1, <2>2, <2>3, <2>5
  <2>6. CASE ~swapped /\ ~(request.fresh /\ request.port = Nowhere /\ open # <<>>)
    BY <2>2, <2>3, <2>6
  <2> QED BY <2>4, <2>5, <2>6
<1>6. next.reload \in BOOLEAN
  BY <1>3
<1> HIDE DEF next
<1>7. /\ frame' = Nowhere \/ frame' \in Frames
      /\ frame' # Nowhere <=> transport = "ready" /\ sel \in ports
      /\ frame' # Nowhere => frame'.port = sel
      /\ frame' # Nowhere /\ frame'.doc = "ready" => frame' = frame /\ ~next.reload
  BY <1>2, <1>4, <1>6, MountedIs
<1> HIDE DEF target, hit, pend1, sel1, sel2, sel, ports
<1>8. ViewShaped'
  BY <1>1, <1>2, <1>4, <1>5, <1>7 DEF ViewShaped
<1>9. Rendered' /\ InView' /\ Requested'
  BY <1>1, <1>2, <1>3, <1>4, <1>7 DEF Rendered, InView, Requested
<1>10. Followed'
  <2> SUFFICES ASSUME ~swapped, ~asked'.taken, asked'.port # Nowhere PROVE Followed'
    <3>1. swapped => asked'.port = Nowhere
      BY <1>5
    <3> QED BY <3>1 DEF Followed
  <2>1. selected' = next.sel /\ pending' = next.pend /\ sel = next.sel
    BY <1>4 DEF sel
  <2>2. CASE request.fresh
    <3>1. asked.port = request.port /\ asked.agent /\ (frame # Nowhere => frame.port = selected)
      BY <2>2 DEF ViewInv, Requested
    <3>2. asked'.port = target /\ target # Nowhere
      BY <3>1, <2>2, <1>5, <1>2 DEF target
    <3>3. CASE hit
      <4>1. next.sel = target /\ next.pend = Nowhere /\ next.reload = (target = selected)
        BY <3>3, <3>2, <1>2, <1>3 DEF hit, pend1, sel1, sel2
      <4>2. frame' # Nowhere => frame'.port = target /\ frame'.doc # "ready"
        BY <4>1, <3>1, <2>1, <1>7
      <4> QED BY <4>1, <4>2, <3>2, <3>3, <2>1, <1>1, <1>2, <1>4 DEF Followed, Aim, hit
    <3>4. CASE ~hit
      <4>1. next.pend = target
        BY <3>4, <3>2, <1>3 DEF hit, pend1
      <4> QED BY <4>1, <3>2, <3>4, <2>1, <1>1 DEF Followed, hit
    <3> QED BY <3>3, <3>4
  <2>3. CASE ~request.fresh
    <3>1. asked'.port = asked.port /\ asked'.agent = asked.agent /\ asked'.taken = asked.taken /\ target = Nowhere /\ ~hit /\ pend1 = pending /\ sel1 = selected
      BY <2>3, <1>5, <1>2 DEF target, hit, pend1, sel1
    <3>2. Followed /\ Aim = sel2 /\ (asked.port \in ports => Aim = asked.port)
      BY <2>3, <3>1, <1>1 DEF ViewInv, Followed, Aim, sel2
    <3>3. CASE asked.port \in ports
      <4>1. next.sel = asked.port /\ next.pend = Nowhere
        BY <3>1, <3>2, <3>3, <2>3, <1>1, <1>3 DEF Followed
      <4>2. frame' # Nowhere => frame'.port = asked.port /\ (frame'.doc = "ready" => frame' = frame)
        BY <4>1, <2>1, <1>7
      <4> QED BY <4>1, <4>2, <3>1, <3>2, <3>3, <2>1, <2>3, <1>1, <1>2 DEF Followed, Aim
    <3>4. CASE asked.port \notin ports
      <4>1. pending = asked.port /\ next.pend = asked.port
        BY <3>1, <3>2, <3>4, <2>3, <1>1, <1>3 DEF Followed
      <4> QED BY <4>1, <3>1, <3>4, <2>1, <1>1 DEF Followed
    <3> QED BY <3>3, <3>4
  <2> QED BY <2>2, <2>3, <1>2 DEF ViewShaped
<1> QED BY <1>8, <1>9, <1>10 DEF ViewInv

----
(* The calls. *)

CallsShaped(cs) == DOMAIN cs = P!Caller /\ \A c \in P!Caller : CallShaped(cs[c])
Begins == {"kill", "bundle", "run", "up"}

\* A call of which the place changes, with its pid, and the calls with one of them changed.
Goes(k, x) == [k EXCEPT !.pc = x]
GoesAs(k, x, n) == [k EXCEPT !.pc = x, !.pid = n]
With(cs, c, k) == [cs EXCEPT ![c] = k]
Places == Begins \cup {"none", "exit0", "exit1", "stale"}

LEMMA CallSet ==
  ASSUME NEW cs, CallsShaped(cs), NEW c \in P!Caller, NEW k, CallShaped(k)
  PROVE  CallsShaped(With(cs, c, k)) /\ \A d \in P!Caller : With(cs, c, k)[d] = IF d = c THEN k ELSE cs[d]
<1> DEFINE ds == With(cs, c, k)
<1>1. DOMAIN ds = P!Caller /\ \A d \in P!Caller : ds[d] = IF d = c THEN k ELSE cs[d]
  BY DEF CallsShaped, With
<1> HIDE DEF ds
<1>2. CallsShaped(ds)
  BY <1>1, Zenon DEF CallsShaped
<1> QED BY <1>1, <1>2 DEF ds

\* A call that goes on keeps its command.
LEMMA CallGoesOn ==
  ASSUME NEW k, CallShaped(k), NEW x \in Places, x \in Begins => k.cmd \in Commands, NEW n
  PROVE  /\ CallShaped(Goes(k, x)) /\ Goes(k, x).pc = x
         /\ CallShaped(GoesAs(k, x, n)) /\ GoesAs(k, x, n).pc = x
<1>1. DOMAIN k = {"pc", "cmd", "sel", "pid", "opened", "loop"}
  <2> DEFINE r == [pc |-> k.pc, cmd |-> k.cmd, sel |-> k.sel, pid |-> k.pid, opened |-> k.opened, loop |-> k.loop]
  <2>1. k = r /\ DOMAIN r = {"pc", "cmd", "sel", "pid", "opened", "loop"}
    BY DEF CallShaped
  <2> HIDE DEF r
  <2> QED BY <2>1
<1>2. ASSUME NEW j, j = Goes(k, x) \/ j = GoesAs(k, x, n) PROVE CallShaped(j) /\ j.pc = x
  <2>1. j.pc = x /\ j.cmd = k.cmd
    BY <1>1, <1>2 DEF Goes, GoesAs
  <2>2. j = [pc |-> j.pc, cmd |-> j.cmd, sel |-> j.sel, pid |-> j.pid, opened |-> j.opened, loop |-> j.loop]
    BY <1>1, <1>2 DEF Goes, GoesAs
  <2> QED BY <2>1, <2>2 DEF CallShaped, Begins, Places
<1> QED BY <1>2

\* A call that hears of a port, or of a loopback bind.
LEMMA CallHears ==
  ASSUME NEW k, CallShaped(k), NEW x, NEW j, j = [k EXCEPT !.opened = x] \/ j = [k EXCEPT !.loop = x]
  PROVE  CallShaped(j) /\ j.pc = k.pc
<1>1. DOMAIN k = {"pc", "cmd", "sel", "pid", "opened", "loop"}
  <2> DEFINE r == [pc |-> k.pc, cmd |-> k.cmd, sel |-> k.sel, pid |-> k.pid, opened |-> k.opened, loop |-> k.loop]
  <2>1. k = r /\ DOMAIN r = {"pc", "cmd", "sel", "pid", "opened", "loop"}
    BY DEF CallShaped
  <2> HIDE DEF r
  <2> QED BY <2>1
<1>2. j.pc = k.pc /\ j.cmd = k.cmd
  BY <1>1
<1>3. j = [pc |-> j.pc, cmd |-> j.cmd, sel |-> j.sel, pid |-> j.pid, opened |-> j.opened, loop |-> j.loop]
  BY <1>1
<1> QED BY <1>2, <1>3 DEF CallShaped

LEMMA NoCallShaped ==
  ASSUME NEW x \in {"none", "stale"}, NEW k, k = [P!NoCall EXCEPT !.pc = x] \/ (k = P!NoCall /\ x = "none")
  PROVE  CallShaped(k) /\ k.pc = x
BY DEF CallShaped, P!NoCall

\* port.opened reaches the calls.
LEMMA AnnounceCalls ==
  ASSUME NEW cs, CallsShaped(cs), NEW p, P!Announces(cs, p)
  PROVE  CallsShaped(calls') /\ \A c \in P!Caller : calls'[c].pc = cs[c].pc
<1>1. calls' = [c \in P!Caller |-> IF P!Hears(cs[c]) THEN [cs[c] EXCEPT !.opened = Append(@, p)] ELSE cs[c]]
  BY DEF P!Announces
<1>2. ASSUME NEW c \in P!Caller PROVE CallShaped(calls'[c]) /\ calls'[c].pc = cs[c].pc
  <2>1. CallShaped(cs[c])
    BY DEF CallsShaped
  <2> DEFINE k == cs[c]
             j == calls'[c]
             x == Append(cs[c].opened, p)
  <2>2. j = k \/ j = [k EXCEPT !.opened = x]
    BY <1>1
  <2> HIDE DEF k, j, x
  <2>3. CallShaped(k) => CallShaped(j) /\ j.pc = k.pc
    BY <2>2, CallHears
  <2> QED BY <2>1, <2>3 DEF k, j
<1> QED BY <1>1, <1>2 DEF CallsShaped

\* A step that neither calls nor ends a call of the agent.
LEMMA WorkKept ==
  ASSUME WorkInv, CallsShaped(calls'), calls'["tool"].pc = calls["tool"].pc,
         tool' = tool \/ \E x, y : x # "serve" /\ tool.pc # "serve" /\ tool' = [pc |-> x, waited |-> y],
         \A l \in late' : l \in late \/ (l.cmd \in Commands /\ l.cmd.port # Nowhere)
  PROVE  WorkInv'
<1>1. tool' = [pc |-> tool'.pc, waited |-> tool'.waited] /\ (tool'.pc # "serve" => tool.pc # "serve")
  BY DEF WorkInv, WorkShaped
<1> QED BY <1>1 DEF WorkInv, WorkShaped, CallsShaped, OneTool

----
(* The steps. *)

\* What a step finds: it follows a render, and the parts of the invariant under short names.
LEMMA Found ==
  ASSUME PanelInv
  PROVE  ViewInv /\ WorkInv /\ CallsShaped(calls) /\ due \in BOOLEAN /\ open \in Seq(Port) /\ Nowhere \notin Port
BY PanelAssumption DEF PanelInv, ViewInv, ViewShaped, WorkInv, WorkShaped, CallsShaped

viewState == <<open, request, selected, pending, due, swapped, asked, frame, transport>>

LEMMA BindsStep ==
  ASSUME PanelInv, ~due, NEW c \in P!Caller, P!Binds(c)
  PROVE  PanelInv'
<1> DEFINE p == calls[c].cmd.port
           k == Goes(calls[c], "up")
           f == Goes(calls[c], "exit1")
<1>1. ViewInv /\ WorkInv /\ CallsShaped(calls) /\ CallShaped(calls[c])
  BY Found DEF CallsShaped
<1>2. /\ calls[c].pc = "run" /\ p \in Port /\ UNCHANGED <<late, tool, request, selected, pending, swapped, asked, frame, transport>>
      /\ calls[c].cmd \in Commands
  BY <1>1, PanelAssumption DEF P!Binds, P!panel, CallShaped, Commands
<1>3. CallShaped(k) /\ k.pc = "up" /\ CallShaped(f) /\ f.pc = "exit1"
  <2>1. calls[c].cmd \in Commands /\ "up" \in Places /\ "exit1" \in Places
    BY <1>2 DEF Places, Begins
  <2> QED BY <2>1, <1>1, CallGoesOn
<1>4. c = "tool" => tool.pc = "serve"
  BY <1>1, <1>2 DEF WorkInv, OneTool
<1>5. \/ calls' = With(calls, c, f) /\ UNCHANGED <<open, due>>
      \/ calls' = With(calls, c, k) /\ UNCHANGED <<open, due>>
      \/ P!Announces(With(calls, c, k), p)
  BY DEF P!Binds, Goes, With
<1> HIDE DEF k, f, p
<1>6. CallsShaped(calls') /\ (c # "tool" => calls'["tool"].pc = calls["tool"].pc)
  <2>1. ASSUME NEW j, CallShaped(j)
        PROVE  CallsShaped(With(calls, c, j)) /\ (c # "tool" => With(calls, c, j)["tool"].pc = calls["tool"].pc)
    <3>1. CallsShaped(With(calls, c, j)) /\ \A d \in P!Caller : With(calls, c, j)[d] = IF d = c THEN j ELSE calls[d]
      BY <2>1, <1>1, CallSet
    <3> QED BY <3>1 DEF P!Caller
  <2>2. CASE calls' = With(calls, c, f)
    BY <2>1, <2>2, <1>3
  <2>3. CASE calls' = With(calls, c, k)
    BY <2>1, <2>3, <1>3
  <2>4. CASE P!Announces(With(calls, c, k), p)
    BY <2>1, <2>4, <1>3, AnnounceCalls DEF P!Caller
  <2> QED BY <2>2, <2>3, <2>4, <1>5
<1>7. WorkInv'
  <2>1. WorkShaped'
    BY <1>1, <1>2, <1>6 DEF WorkInv, WorkShaped, CallsShaped
  <2>2. OneTool'
    BY <1>1, <1>2, <1>4, <1>6 DEF WorkInv, OneTool
  <2> QED BY <2>1, <2>2 DEF WorkInv
<1>8. ViewInv'
  <2>1. CASE UNCHANGED <<open, due>>
    BY <2>1, <1>1, <1>2, StillView
  <2>2. CASE P!Announces(With(calls, c, k), p)
    <3>1. open' = (IF p \in P!Opened THEN open ELSE Append(open, p)) /\ due' = TRUE
      BY <2>2 DEF P!Announces
    <3> QED BY <3>1, <1>1, <1>2, OpensView DEF p
  <2> QED BY <2>1, <2>2, <1>5
<1> QED BY <1>7, <1>8 DEF PanelInv

LEMMA BindsLateStep ==
  ASSUME PanelInv, ~due, NEW l \in late, P!BindsLate(l)
  PROVE  PanelInv'
<1> DEFINE p == l.cmd.port
<1>1. ViewInv /\ WorkInv /\ CallsShaped(calls)
  BY Found
<1>2. p \in Port
  BY <1>1, PanelAssumption DEF WorkInv, WorkShaped, Commands
<1>3. late' \subseteq late /\ UNCHANGED <<tool, request, selected, pending, swapped, asked, frame, transport>>
  BY DEF P!BindsLate, P!panel
<1>4. UNCHANGED <<open, calls, due>> \/ P!Announces(calls, p)
  BY DEF P!BindsLate
<1> HIDE DEF p
<1>5. CallsShaped(calls') /\ calls'["tool"].pc = calls["tool"].pc
  BY <1>1, <1>4, AnnounceCalls DEF P!Caller, CallsShaped
<1>6. WorkInv'
  BY <1>1, <1>3, <1>5, WorkKept
<1>7. ViewInv'
  <2>1. CASE UNCHANGED <<open, due>>
    BY <2>1, <1>1, <1>3, StillView
  <2>2. CASE P!Announces(calls, p)
    <3>1. open' = (IF p \in P!Opened THEN open ELSE Append(open, p)) /\ due' = TRUE
      BY <2>2 DEF P!Announces
    <3> QED BY <3>1, <1>1, <1>2, <1>3, OpensView
  <2> QED BY <2>1, <2>2, <1>4
<1> QED BY <1>6, <1>7 DEF PanelInv

LEMMA ShellServeStep ==
  ASSUME PanelInv, ~due, NEW p \in Port, P!ShellServe(p)
  PROVE  PanelInv'
<1>1. ViewInv /\ WorkInv /\ CallsShaped(calls)
  BY Found
<1>3. UNCHANGED <<late, tool, request, selected, pending, swapped, asked, frame, transport>>
  BY DEF P!ShellServe, P!panel
<1>4. UNCHANGED <<open, calls, due>> \/ P!Announces(calls, p)
  BY DEF P!ShellServe
<1>5. CallsShaped(calls') /\ calls'["tool"].pc = calls["tool"].pc
  BY <1>1, <1>4, AnnounceCalls DEF P!Caller, CallsShaped
<1>6. WorkInv'
  BY <1>1, <1>3, <1>5, WorkKept
<1>7. ViewInv'
  <2>1. CASE UNCHANGED <<open, due>>
    BY <2>1, <1>1, <1>3, StillView
  <2>2. CASE P!Announces(calls, p)
    <3>1. open' = (IF p \in P!Opened THEN open ELSE Append(open, p)) /\ due' = TRUE
      BY <2>2 DEF P!Announces
    <3> QED BY <3>1, <1>1, <1>3, OpensView
  <2> QED BY <2>1, <2>2, <1>4
<1> QED BY <1>6, <1>7 DEF PanelInv

\* A step of one call.
LEMMA WorkMoves ==
  ASSUME WorkInv, NEW c \in P!Caller, NEW k, CallShaped(k), calls' = With(calls, c, k),
         tool' = [pc |-> tool'.pc, waited |-> tool'.waited],
         tool'.pc # "serve" => IF c = "tool" THEN k.pc \in {"none", "stale"} ELSE tool.pc # "serve",
         \A l \in late' : l \in late \/ (l.cmd \in Commands /\ l.cmd.port # Nowhere)
  PROVE  WorkInv'
<1>1. CallsShaped(calls)
  BY DEF WorkInv, WorkShaped, CallsShaped
<1>2. CallsShaped(calls') /\ \A d \in P!Caller : calls'[d] = IF d = c THEN k ELSE calls[d]
  BY <1>1, CallSet
<1>3. WorkShaped'
  BY <1>2 DEF WorkInv, WorkShaped, CallsShaped
<1>4. OneTool'
  BY <1>2 DEF WorkInv, OneTool, P!Caller
<1> QED BY <1>3, <1>4 DEF WorkInv

LEMMA StillStep == ASSUME ViewInv, WorkInv', UNCHANGED viewState PROVE PanelInv'
BY StillView DEF viewState, PanelInv

LEMMA ToolShape ==
  ASSUME WorkInv
  PROVE  /\ tool = [pc |-> tool.pc, waited |-> tool.waited]
         /\ \A x, y : [pc |-> x, waited |-> y].pc = x
         /\ \A x : LET t == [tool EXCEPT !.pc = x] IN t = [pc |-> x, waited |-> tool.waited] /\ t.pc = x
         /\ \A x : LET t == [tool EXCEPT !.waited = x] IN t = [pc |-> tool.pc, waited |-> x] /\ t.pc = tool.pc
<1>1. tool = [pc |-> tool.pc, waited |-> tool.waited]
  BY DEF WorkInv, WorkShaped
<1>2. ASSUME NEW x, NEW t, t = [tool EXCEPT !.pc = x] PROVE t = [pc |-> x, waited |-> tool.waited] /\ t.pc = x
  BY <1>1, <1>2
<1>3. ASSUME NEW x, NEW t, t = [tool EXCEPT !.waited = x] PROVE t = [pc |-> tool.pc, waited |-> x] /\ t.pc = tool.pc
  BY <1>1, <1>3
<1> QED BY <1>1, <1>2, <1>3

LEMMA ExitsStep ==
  ASSUME PanelInv, ~due, NEW c \in P!Caller, NEW ok \in BOOLEAN, P!Exits(c, ok)
  PROVE  PanelInv'
<1> DEFINE x == IF ok THEN "exit0" ELSE "exit1"
<1>1. ViewInv /\ WorkInv /\ CallShaped(calls[c])
  BY Found DEF CallsShaped
<1>2. calls[c].pc \in {"run", "up"} /\ x \in Places /\ x \notin Begins
  BY DEF P!Exits, Places, Begins
<1>3. calls' = With(calls, c, Goes(calls[c], x)) /\ UNCHANGED viewState /\ UNCHANGED <<late, tool>>
  BY DEF P!Exits, With, Goes, viewState, P!panel, P!runtime
<1> HIDE DEF x
<1>4. CallShaped(Goes(calls[c], x))
  BY <1>1, <1>2, CallGoesOn
<1>5. c = "tool" => tool.pc = "serve"
  BY <1>1, <1>2 DEF WorkInv, OneTool
<1>6. WorkInv'
  BY <1>1, <1>3, <1>4, <1>5, WorkMoves, ToolShape
<1> QED BY <1>1, <1>3, <1>6, StillStep

LEMMA StaleReturnsStep ==
  ASSUME PanelInv, ~due, NEW c \in P!Caller, P!StaleReturns(c)
  PROVE  PanelInv'
<1>1. ViewInv /\ WorkInv
  BY Found
<1>2. calls' = With(calls, c, P!NoCall) /\ UNCHANGED viewState /\ UNCHANGED <<late, tool>>
  BY DEF P!StaleReturns, With, viewState, P!runtime
<1>3. CallShaped(P!NoCall) /\ P!NoCall.pc = "none"
  BY NoCallShaped
<1>4. WorkInv'
  BY <1>1, <1>2, <1>3, WorkMoves, ToolShape
<1> QED BY <1>1, <1>2, <1>4, StillStep

LEMMA BundledStep ==
  ASSUME PanelInv, ~due, NEW ok \in BOOLEAN, P!Bundled(ok)
  PROVE  PanelInv'
<1> DEFINE h == calls["panel"]
           k == IF ok THEN GoesAs(h, "run", P!NewPid) ELSE P!NoCall
<1>1. ViewInv /\ WorkInv /\ CallShaped(h)
  BY Found DEF CallsShaped, P!Caller
<1>2. calls' = With(calls, "panel", k) /\ UNCHANGED viewState /\ UNCHANGED <<late, tool>> /\ h.pc = "bundle"
  BY DEF P!Bundled, With, GoesAs, viewState, P!panel, P!runtime
<1>3. h.cmd \in Commands /\ "run" \in Places
  BY <1>1, <1>2 DEF CallShaped, Places, Begins
<1>4. CallShaped(GoesAs(h, "run", P!NewPid)) /\ CallShaped(P!NoCall)
  BY <1>1, <1>3, CallGoesOn, NoCallShaped
<1>5. CallShaped(k) /\ "panel" \in P!Caller
  BY <1>4 DEF P!Caller
<1> HIDE DEF h, k
<1>6. WorkInv'
  BY <1>1, <1>2, <1>5, WorkMoves, ToolShape
<1> QED BY <1>1, <1>2, <1>6, StillStep

LEMMA OpenWithCommandStep ==
  ASSUME PanelInv, ~due, NEW r \in Serves, P!OpenWithCommand(r)
  PROVE  PanelInv'
<1> DEFINE k == [P!NoCall EXCEPT !.pc = "run", !.cmd = r, !.pid = P!NewPid]
<1>1. ViewInv /\ WorkInv
  BY Found
<1>2. calls' = With(calls, "tool", k) /\ UNCHANGED viewState /\ UNCHANGED late /\ tool' = [tool EXCEPT !.pc = "serve"]
  BY DEF P!OpenWithCommand, With, viewState, P!panel, P!runtime
<1>3. CallShaped(k) /\ "tool" \in P!Caller
  <2>3. ASSUME NEW n, NEW y, y = [P!NoCall EXCEPT !.pc = "run", !.cmd = r, !.pid = n]
        PROVE  y = [pc |-> "run", cmd |-> r, sel |-> Nowhere, pid |-> n, opened |-> <<>>, loop |-> FALSE]
    BY <2>3 DEF P!NoCall
  <2>1. k = [pc |-> "run", cmd |-> r, sel |-> Nowhere, pid |-> P!NewPid, opened |-> <<>>, loop |-> FALSE]
    BY <2>3
  <2> HIDE DEF k
  <2>2. k.pc = "run" /\ k.cmd = r /\ k.sel = Nowhere /\ k.pid = P!NewPid /\ k.opened = <<>> /\ k.loop = FALSE
    BY <2>1
  <2> QED BY <2>1, <2>2 DEF P!Caller, CallShaped, Commands
<1> HIDE DEF k
<1>4. tool' = [pc |-> tool'.pc, waited |-> tool'.waited] /\ tool'.pc = "serve"
  BY <1>1, <1>2, ToolShape
<1>5. WorkInv'
  BY <1>1, <1>2, <1>3, <1>4, WorkMoves
<1> QED BY <1>1, <1>2, <1>5, StillStep

\* The steps of a preview tool, and of a process of the guest.
LEMMA UseToolStep ==
  ASSUME PanelInv, ~due, P!UseTool \/ P!ToolEnds \/ P!Tick
  PROVE  PanelInv'
<1>1. ViewInv /\ WorkInv /\ CallsShaped(calls)
  BY Found
<1>2. UNCHANGED viewState /\ UNCHANGED <<late, calls>>
  BY DEF P!UseTool, P!ToolEnds, P!Tick, viewState, P!panel, P!runtime
<1>3. \E x, y : x # "serve" /\ tool.pc # "serve" /\ tool' = [pc |-> x, waited |-> y]
  <2>1. CASE P!UseTool
    BY <2>1 DEF P!UseTool
  <2>2. CASE P!ToolEnds
    BY <2>2, <1>1, ToolShape DEF P!ToolEnds
  <2>3. CASE P!Tick
    <3>1. tool' = [tool EXCEPT !.waited = tool.waited + 1] /\ tool.pc \in {"read", "clicked"}
      BY <2>3 DEF P!Tick
    <3> QED BY <3>1, <1>1, ToolShape
  <2> QED BY <2>1, <2>2, <2>3
<1>4. WorkInv'
  BY <1>1, <1>2, <1>3, WorkKept
<1> QED BY <1>1, <1>2, <1>4, StillStep

LEMMA DiesStep ==
  ASSUME PanelInv, ~due, NEW p \in Port, P!Dies(p)
  PROVE  PanelInv'
<1>1. ViewInv /\ WorkInv /\ CallsShaped(calls)
  BY Found
<1>2. UNCHANGED viewState /\ UNCHANGED <<late, calls, tool>>
  BY DEF P!Dies, viewState, P!panel
<1>3. WorkInv'
  BY <1>1, <1>2, WorkKept
<1> QED BY <1>1, <1>2, <1>3, StillStep

\* The watcher of the VM's ports.
LEMMA PollStep ==
  ASSUME PanelInv, ~due, NEW p \in Port, P!Poll(p)
  PROVE  PanelInv'
<1> DEFINE now == IF listen[p] = Nowhere THEN "none" ELSE IF listen[p].loop THEN "loop" ELSE "any"
<1>1. ViewInv /\ WorkInv /\ CallsShaped(calls) /\ open \in Seq(Port)
  BY Found
<1>2. UNCHANGED <<late, tool, request, selected, pending, swapped, frame, transport>>
  BY DEF P!Poll, P!panel
<1>3. P!Opened = ToSet(open)
  BY OpenedIs
<1>4. now \in {"none", "loop", "any"}
  OBVIOUS
<1>5. CASE now = "none"
  <2>1. open' = P!Less(open, {p}) /\ due' = (due \/ p \in P!Opened) /\ P!Forgets({p}) /\ UNCHANGED calls
    BY <1>5 DEF P!Poll
  <2>2. WorkInv'
    BY <1>1, <1>2, <2>1, WorkKept
  <2>3. due' \in BOOLEAN /\ (due' \/ ToSet(open) \cap {p} = {})
    BY <2>1, <1>3
  <2>4. ViewInv'
    BY <1>1, <1>2, <2>1, <2>3, ClosesView DEF P!Forgets
  <2> QED BY <2>2, <2>4 DEF PanelInv
<1>6. CASE now = "loop"
  <2>1. /\ calls' = [c \in P!Caller |-> IF P!Hears(calls[c]) /\ p \notin P!Opened THEN [calls[c] EXCEPT !.loop = TRUE] ELSE calls[c]]
        /\ UNCHANGED <<open, due, asked>>
    BY <1>6 DEF P!Poll
  <2>2. ASSUME NEW c \in P!Caller PROVE CallShaped(calls'[c]) /\ calls'[c].pc = calls[c].pc
    <3> DEFINE k == calls[c]
               j == calls'[c]
    <3>1. j = k \/ j = [k EXCEPT !.loop = TRUE]
      BY <2>1
    <3>2. CallShaped(k)
      BY <1>1 DEF CallsShaped
    <3> HIDE DEF k, j
    <3>3. CallShaped(j) /\ j.pc = k.pc
      BY <3>1, <3>2, CallHears
    <3> QED BY <3>3 DEF k, j
  <2>3. CallsShaped(calls') /\ calls'["tool"].pc = calls["tool"].pc
    BY <2>1, <2>2 DEF CallsShaped, P!Caller
  <2>4. WorkInv'
    BY <1>1, <1>2, <2>3, WorkKept
  <2> QED BY <2>4, <1>1, <1>2, <2>1, StillStep DEF viewState
<1>7. CASE now = "any"
  <2>1. UNCHANGED asked /\ (UNCHANGED <<open, calls, due>> \/ P!Announces(calls, p))
    BY <1>7 DEF P!Poll
  <2>2. CallsShaped(calls') /\ calls'["tool"].pc = calls["tool"].pc
    BY <1>1, <2>1, AnnounceCalls DEF P!Caller, CallsShaped
  <2>3. WorkInv'
    BY <1>1, <1>2, <2>2, WorkKept
  <2>4. CASE UNCHANGED <<open, calls, due>>
    BY <2>4, <2>3, <1>1, <1>2, <2>1, StillStep DEF viewState
  <2>5. CASE P!Announces(calls, p)
    <3>1. open' = (IF p \in P!Opened THEN open ELSE Append(open, p)) /\ due' = TRUE
      BY <2>5 DEF P!Announces
    <3>2. ViewInv'
      BY <3>1, <1>1, <1>2, <2>1, OpensView
    <3> QED BY <3>2, <2>3 DEF PanelInv
  <2> QED BY <2>1, <2>4, <2>5
<1> QED BY <1>4, <1>5, <1>6, <1>7

LEMMA ViewStep ==
  ASSUME PanelInv, ~due, NEW p \in Port, P!View(p)
  PROVE  PanelInv'
<1>1. ViewInv /\ WorkInv /\ CallsShaped(calls)
  BY Found
<1>2. p \in Opened /\ selected' = p /\ pending' = Nowhere /\ frame' = P!Mounted(p, FALSE)
  BY DEF P!View, Opened
<1>3. asked' \in [port : {p}, agent : {FALSE}, over : BOOLEAN, taken : {FALSE}]
  BY DEF P!View, P!Act
<1>4. UNCHANGED <<open, request, due, swapped, transport>> /\ UNCHANGED <<late, calls, tool>>
  BY DEF P!View, P!runtime
<1>5. ViewInv'
  BY <1>1, <1>2, <1>3, <1>4, PickView
<1>6. WorkInv'
  BY <1>1, <1>4, WorkKept
<1> QED BY <1>5, <1>6 DEF PanelInv

LEMMA StopClickStep ==
  ASSUME PanelInv, ~due, NEW p \in Port, P!StopClick(p)
  PROVE  PanelInv'
<1>1. ViewInv /\ WorkInv /\ CallsShaped(calls)
  BY Found
<1>2. UNCHANGED <<late, calls, tool>> /\ UNCHANGED <<request, swapped, transport, frame>> /\ pending' = Nowhere
  BY DEF P!StopClick
<1>3. WorkInv'
  BY <1>1, <1>2, WorkKept
<1>4. CASE servePid # 0
  <2>1. P!Stays({}) /\ UNCHANGED <<open, selected, due>>
    BY <1>4 DEF P!StopClick
  <2> DEFINE q == IF selected \in Opened THEN selected ELSE Nowhere
  <2>2. P!viewedPort = q
    BY DEF P!viewedPort, Opened
  <2> HIDE DEF q
  <2>3. asked' \in [port : {q}, agent : {FALSE}, over : BOOLEAN, taken : {FALSE}]
    BY <2>1, <2>2 DEF P!Stays, P!Nothing, P!Act
  <2>4. q \in Opened \cup {Nowhere} /\ (q \in Opened => q = selected)
    <3>1. Nowhere \notin Opened
      BY Found, OpenedIs, PortSets
    <3> QED BY <3>1 DEF q
  <2>5. ViewInv'
    <3>1. Opened = ToSet(open) /\ Opened' = Opened /\ Nowhere \notin Opened
      <4>1. Opened' = Opened
        BY <2>1 DEF Opened, P!Opened
      <4> QED BY <4>1, Found, OpenedIs, PortSets
    <3>2. ViewShaped'
      BY <1>1, <1>2, <2>1, <2>3 DEF ViewInv, ViewShaped
    <3>3. Rendered' /\ InView' /\ Requested'
      BY <3>1, <1>1, <1>2, <2>1 DEF ViewInv, Rendered, InView, Requested
    <3>4. Followed'
      BY <3>1, <1>2, <2>1, <2>3, <2>4 DEF Followed, Aim
    <3> QED BY <3>2, <3>3, <3>4 DEF ViewInv
  <2> QED BY <2>5, <1>3 DEF PanelInv
<1>5. CASE servePid = 0
  <2>1. P!ClosePorts({p}, listen) /\ P!Stays({p}) /\ due' = TRUE /\ selected' = IF selected = p THEN Nowhere ELSE selected
    BY <1>5 DEF P!StopClick
  <2>2. open' = P!Less(open, {p})
    BY <2>1 DEF P!ClosePorts
  <2>3. ViewInv'
    BY <1>1, <1>2, <2>1, <2>2, StopView
  <2> QED BY <2>3, <1>3 DEF PanelInv
<1> QED BY <1>4, <1>5

LEMMA StopReturnsStep ==
  ASSUME PanelInv, ~due, P!StopReturns
  PROVE  PanelInv'
<1>1. ViewInv /\ WorkInv /\ CallsShaped(calls) /\ P!Opened = ToSet(open)
  BY Found, OpenedIs
<1>2. UNCHANGED <<late, calls, tool>> /\ UNCHANGED <<request, pending, swapped, transport, frame>>
  BY DEF P!StopReturns
<1>3. open' = P!Less(open, P!Opened) /\ P!Forgets(P!Opened) /\ due' = TRUE
  BY DEF P!StopReturns, P!ClosePorts
<1>4. ViewInv'
  BY <1>1, <1>2, <1>3, ClosesView DEF P!Forgets
<1>5. WorkInv'
  BY <1>1, <1>2, WorkKept
<1> QED BY <1>4, <1>5 DEF PanelInv

\* Run goes on to its action.
LEMMA BegunShaped ==
  ASSUME NEW k, CallShaped(k), k.cmd \in Commands
  PROVE  CallShaped(P!Begun(k))
<1> DEFINE x == IF k.cmd.bundle THEN "bundle" ELSE "run"
           n == IF k.cmd.bundle THEN 0 ELSE P!NewPid
<1>1. P!Begun(k) = GoesAs(k, x, n)
  BY DEF P!Begun, GoesAs
<1>2. x \in Places
  BY DEF Places, Begins
<1> HIDE DEF x, n
<1> QED BY <1>1, <1>2, CallGoesOn

LEMMA RunClickStep ==
  ASSUME PanelInv, ~due, NEW r \in Runs, P!RunClick(r)
  PROVE  PanelInv'
<1> DEFINE k == [P!NoCall EXCEPT !.cmd = r, !.sel = selected]
           j == GoesAs(k, "kill", servePid)
<1>1. ViewInv /\ WorkInv /\ CallsShaped(calls) /\ P!Opened = ToSet(open)
  BY Found, OpenedIs
<1>2. UNCHANGED <<late, tool>> /\ UNCHANGED <<request, selected, pending, swapped, transport, frame>>
  BY DEF P!RunClick
<1>3. CallShaped(k) /\ k.cmd \in Commands
  <2>1. ASSUME NEW s, NEW y, y = [P!NoCall EXCEPT !.cmd = r, !.sel = s]
        PROVE  y = [pc |-> "none", cmd |-> r, sel |-> s, pid |-> 0, opened |-> <<>>, loop |-> FALSE]
    BY <2>1 DEF P!NoCall
  <2>2. k = [pc |-> "none", cmd |-> r, sel |-> selected, pid |-> 0, opened |-> <<>>, loop |-> FALSE]
    BY <2>1
  <2> HIDE DEF k
  <2>3. k.pc = "none" /\ k.cmd = r /\ k.sel = selected /\ k.pid = 0 /\ k.opened = <<>> /\ k.loop = FALSE
    BY <2>2
  <2> QED BY <2>2, <2>3 DEF CallShaped, Commands
<1>4. \/ calls' = With(calls, "panel", j) /\ UNCHANGED <<open, due>> /\ asked' = [asked EXCEPT !.over = FALSE]
      \/ /\ calls' = With(calls, "panel", P!Begun(k)) /\ open' = P!Less(open, own) /\ due' = (own # {})
         /\ asked' = [P!Left(own) EXCEPT !.over = FALSE]
  BY DEF P!RunClick, P!ClosePorts, With, GoesAs
<1> HIDE DEF k
<1>5. CallShaped(j) /\ CallShaped(P!Begun(k)) /\ "panel" \in P!Caller
  <2>1. "kill" \in Places
    BY DEF Places, Begins
  <2> QED BY <2>1, <1>3, CallGoesOn, BegunShaped DEF P!Caller
<1> HIDE DEF j
<1>6. WorkInv'
  <2>1. CASE calls' = With(calls, "panel", j)
    BY <2>1, <1>1, <1>2, <1>5, WorkMoves, ToolShape
  <2>2. CASE calls' = With(calls, "panel", P!Begun(k))
    BY <2>2, <1>1, <1>2, <1>5, WorkMoves, ToolShape
  <2> QED BY <2>1, <2>2, <1>4
<1>7. ViewInv'
  <2>1. CASE UNCHANGED <<open, due>> /\ asked' = [asked EXCEPT !.over = FALSE]
    BY <2>1, <1>1, <1>2, StillView
  <2>2. CASE open' = P!Less(open, own) /\ due' = (own # {}) /\ asked' = [P!Left(own) EXCEPT !.over = FALSE]
    <3>1. due' \in BOOLEAN /\ (due' \/ ToSet(open) \cap own = {})
      BY <2>2
    <3> QED BY <3>1, <2>2, <1>1, <1>2, ClosesView
  <2> QED BY <2>1, <2>2, <1>4
<1> QED BY <1>6, <1>7 DEF PanelInv

LEMMA RunKilledStep ==
  ASSUME PanelInv, ~due, P!RunKilled
  PROVE  PanelInv'
<1> DEFINE k == calls["panel"]
<1>1. ViewInv /\ WorkInv /\ CallShaped(k) /\ P!Opened = ToSet(open)
  BY Found, OpenedIs DEF CallsShaped, P!Caller
<1>2. UNCHANGED <<late, tool>> /\ UNCHANGED <<request, selected, pending, swapped, transport, frame>>
  BY DEF P!RunKilled
<1>3. open' = P!Less(open, P!Opened) /\ asked' = P!Left(P!Opened) /\ due' = TRUE
  BY DEF P!RunKilled, P!ClosePorts, P!Forgets
<1>4. calls' = With(calls, "panel", P!Begun(k)) /\ k.cmd \in Commands
  BY <1>1 DEF P!RunKilled, With, CallShaped
<1> HIDE DEF k
<1>5. CallShaped(P!Begun(k)) /\ "panel" \in P!Caller
  BY <1>1, <1>4, BegunShaped DEF P!Caller
<1>6. WorkInv'
  BY <1>1, <1>2, <1>4, <1>5, WorkMoves, ToolShape
<1>7. ViewInv'
  BY <1>1, <1>2, <1>3, ClosesView
<1> QED BY <1>6, <1>7 DEF PanelInv

\* A call that settles may leave a command behind, which still binds its port.
LEMMA DetachedWork ==
  ASSUME WorkInv, NEW c \in P!Caller, CallShaped(calls[c]), P!Detached(c)
  PROVE  /\ calls' = With(calls, c, P!NoCall) /\ CallShaped(P!NoCall) /\ P!NoCall.pc = "none"
         /\ \A l \in late' : l \in late \/ (l.cmd \in Commands /\ l.cmd.port # Nowhere)
<1>1. calls' = With(calls, c, P!NoCall) /\ CallShaped(P!NoCall) /\ P!NoCall.pc = "none"
  BY NoCallShaped DEF P!Detached, With
<1>2. late' = IF calls[c].pc = "run" /\ calls[c].cmd.port # Nowhere
              THEN late \cup {[by |-> c, pid |-> calls[c].pid, cmd |-> calls[c].cmd]} ELSE late
  BY DEF P!Detached
<1>3. calls[c].pc = "run" => calls[c].cmd \in Commands
  BY DEF CallShaped
<1> QED BY <1>1, <1>2, <1>3

LEMMA RunSettlesStep ==
  ASSUME PanelInv, ~due, P!RunSettles
  PROVE  PanelInv'
<1> DEFINE k == calls["panel"]
           ok == P!Succeeds(k)
           first == IF k.cmd.want # Nowhere /\ k.cmd.want \in P!Opened \cup P!ToSet(k.opened) THEN k.cmd.want
                    ELSE IF k.opened # <<>> THEN Head(k.opened) ELSE Nowhere
           views == ok /\ (first # Nowhere \/ k.sel = Nowhere)
<1>1. ViewInv /\ WorkInv /\ CallShaped(k) /\ "panel" \in P!Caller
  BY Found DEF CallsShaped, P!Caller
<1>2. UNCHANGED tool /\ UNCHANGED <<open, request, pending, due, swapped, transport>> /\ P!Detached("panel")
  BY DEF P!RunSettles
<1>3. ok \in BOOLEAN
  BY DEF P!Succeeds
<1>4. /\ selected' = (IF ~ok THEN selected ELSE IF first # Nowhere THEN first
                      ELSE IF k.sel # Nowhere THEN selected ELSE IF open # <<>> THEN Head(open) ELSE Nowhere)
      /\ frame' = P!Mounted(selected', ok)
      /\ asked' = IF ~views \/ pending # Nowhere THEN asked ELSE IF asked.over THEN [asked EXCEPT !.taken = TRUE]
                  ELSE IF selected' \in P!Opened THEN [P!Nothing EXCEPT !.port = selected'] ELSE P!Nothing
  BY DEF P!RunSettles
<1>5. WorkInv'
  BY <1>1, <1>2, DetachedWork, WorkMoves, ToolShape
<1> HIDE DEF ok, first
<1>6. \/ asked' = asked /\ (selected' = selected \/ pending # Nowhere)
      \/ asked' = [asked EXCEPT !.taken = TRUE]
      \/ asked' = P!Nothing
      \/ asked' = [P!Nothing EXCEPT !.port = selected'] /\ selected' \in P!Opened /\ pending = Nowhere
  BY <1>4
<1> HIDE DEF views, k
<1>7. ViewInv'
  BY <1>1, <1>2, <1>3, <1>4, <1>6, SettlesView
<1> QED BY <1>5, <1>7 DEF PanelInv

LEMMA OpenPreviewStep ==
  ASSUME PanelInv, ~due, NEW p, P!OpenPreview(p)
  PROVE  PanelInv'
<1>1. ViewInv /\ WorkInv /\ CallsShaped(calls)
  BY Found
<1>2. P!Requests(p) /\ UNCHANGED <<open, selected, pending, swapped, transport>> /\ UNCHANGED <<late, calls, tool>>
  BY DEF P!OpenPreview, P!panel, P!runtime
<1>3. ViewInv'
  BY <1>1, <1>2, RequestView
<1>4. WorkInv'
  BY <1>1, <1>2, WorkKept
<1> QED BY <1>3, <1>4 DEF PanelInv

LEMMA OpenSettlesStep ==
  ASSUME PanelInv, ~due, P!OpenSettles
  PROVE  PanelInv'
<1> DEFINE k == calls["tool"]
           p == IF k.cmd.want \in P!ToSet(k.opened) THEN k.cmd.want ELSE P!Last(k.opened)
<1>1. ViewInv /\ WorkInv /\ CallShaped(k) /\ "tool" \in P!Caller
  BY Found DEF CallsShaped, P!Caller
<1>2. UNCHANGED <<open, selected, pending, swapped, transport>> /\ P!Detached("tool") /\ tool' = [tool EXCEPT !.pc = "idle"]
  BY DEF P!OpenSettles, P!panel
<1>3. P!Requests(p) \/ UNCHANGED <<request, due, frame, asked>>
  BY DEF P!OpenSettles
<1>4. tool' = [pc |-> tool'.pc, waited |-> tool'.waited]
  BY <1>1, <1>2, ToolShape
<1>5. WorkInv'
  BY <1>1, <1>2, <1>4, DetachedWork, WorkMoves
<1> HIDE DEF p, k
<1>6. ViewInv'
  <2>1. CASE P!Requests(p)
    BY <2>1, <1>1, <1>2, RequestView
  <2>2. CASE UNCHANGED <<request, due, frame, asked>>
    BY <2>2, <1>1, <1>2, StillView
  <2> QED BY <2>1, <2>2, <1>3
<1> QED BY <1>5, <1>6 DEF PanelInv

LEMMA DocumentStep ==
  ASSUME PanelInv, ~due, P!FrameLoads \/ \E ok \in BOOLEAN : P!ToolClicks(ok)
  PROVE  PanelInv'
<1>1. ViewInv /\ WorkInv /\ CallsShaped(calls)
  BY Found
<1>2. UNCHANGED <<open, request, selected, pending, due, swapped, asked, transport>> /\ UNCHANGED <<late, calls>>
  BY DEF P!FrameLoads, P!ToolClicks, P!panel, P!runtime
<1>3. tool' = tool \/ \E x, y : x # "serve" /\ tool.pc # "serve" /\ tool' = [pc |-> x, waited |-> y]
  BY DEF P!FrameLoads, P!ToolClicks
<1>4. /\ frame # Nowhere
      /\ \/ frame' = [frame EXCEPT !.doc = "ready", !.since = TRUE]
         \/ frame' = [frame EXCEPT !.doc = "blank"]
         \/ frame' = frame
  <2>1. CASE P!FrameLoads
    BY <2>1 DEF P!FrameLoads
  <2>2. CASE \E ok \in BOOLEAN : P!ToolClicks(ok)
    <3>1. frame # Nowhere
      BY <2>2, PanelAssumption DEF P!ToolClicks, P!Verdict
    <3> QED BY <3>1, <2>2 DEF P!ToolClicks
  <2> QED BY <2>1, <2>2
<1>5. WorkInv'
  BY <1>1, <1>2, <1>3, WorkKept
<1>6. ViewInv'
  BY <1>1, <1>2, <1>4, DocumentView
<1> QED BY <1>5, <1>6 DEF PanelInv

LEMMA TransportStep ==
  ASSUME PanelInv, ~due, NEW ok \in BOOLEAN, P!TransportSettles(ok)
  PROVE  PanelInv'
<1>1. ViewInv /\ WorkInv /\ CallsShaped(calls)
  BY Found
<1>2. UNCHANGED <<open, request, selected, pending, swapped, asked, frame>> /\ UNCHANGED <<late, calls, tool>>
  BY DEF P!TransportSettles, P!panel, P!runtime
<1>3. transport = "pending" /\ transport' \in {"ready", "failed"} /\ due' = TRUE
  BY DEF P!TransportSettles
<1>4. ViewInv'
  BY <1>1, <1>2, <1>3, TransportView
<1>5. WorkInv'
  BY <1>1, <1>2, WorkKept
<1> QED BY <1>4, <1>5 DEF PanelInv

LEMMA SwapStep ==
  ASSUME PanelInv, ~due, NEW to, P!Swap(to)
  PROVE  PanelInv'
<1>1. ViewInv /\ WorkInv /\ CallsShaped(calls)
  BY Found
<1>2. open' = <<>> /\ due' = TRUE /\ swapped' = TRUE /\ asked' = P!Nothing /\ late' = {} /\ tool' = tool /\ tool.pc # "serve"
  BY DEF P!Swap
<1>3. UNCHANGED <<request, selected, pending, transport, frame>>
  BY DEF P!Swap, P!panel
<1>4. calls' = [c \in P!Caller |-> IF calls[c].pc = "bundle" THEN calls[c] ELSE IF calls[c].pc = "none" THEN P!NoCall
                                   ELSE [P!NoCall EXCEPT !.pc = "stale"]]
  BY DEF P!Swap
<1>5. ASSUME NEW c \in P!Caller
      PROVE  CallShaped(calls'[c]) /\ (calls[c].pc \in {"none", "stale"} => calls'[c].pc \in {"none", "stale"})
  <2>1. CallShaped(calls[c]) /\ CallShaped(P!NoCall) /\ P!NoCall.pc = "none"
    BY <1>1, NoCallShaped DEF CallsShaped
  <2>2. ASSUME NEW k, k = [P!NoCall EXCEPT !.pc = "stale"] PROVE CallShaped(k) /\ k.pc = "stale"
    BY <2>2, NoCallShaped
  <2>3. CASE calls[c].pc = "bundle"
    BY <2>1, <2>3, <1>4
  <2>4. CASE calls[c].pc = "none"
    BY <2>1, <2>4, <1>4
  <2>5. CASE calls[c].pc \notin {"bundle", "none"}
    <3>1. calls'[c] = [P!NoCall EXCEPT !.pc = "stale"]
      BY <2>5, <1>4
    <3> QED BY <3>1, <2>2
  <2> QED BY <2>3, <2>4, <2>5
<1>6. ViewInv'
  BY <1>1, <1>2, <1>3, SwapView
<1>7. WorkInv'
  <2>1. CallsShaped(calls')
    BY <1>4, <1>5 DEF CallsShaped
  <2>2. calls["tool"].pc \in {"none", "stale"} /\ "tool" \in P!Caller
    BY <1>1, <1>2 DEF WorkInv, OneTool, P!Caller
  <2>3. OneTool'
    BY <2>2, <1>5 DEF OneTool
  <2> QED BY <2>1, <2>3, <1>1, <1>2 DEF WorkInv, WorkShaped, CallsShaped
<1> QED BY <1>6, <1>7 DEF PanelInv

LEMMA RenderStep ==
  ASSUME PanelInv, P!Render
  PROVE  PanelInv'
<1>1. ViewInv /\ WorkInv /\ CallsShaped(calls)
  BY Found
<1>2. UNCHANGED <<late, calls, tool>>
  BY DEF P!Render, P!runtime
<1>3. ViewInv'
  BY <1>1, RenderView
<1>4. WorkInv'
  BY <1>1, <1>2, WorkKept
<1> QED BY <1>3, <1>4 DEF PanelInv

----
(* The theorems. *)

LEMMA InitPanelInv == ASSUME P!Init PROVE PanelInv
<1>1. P!Init
  OBVIOUS
<1>2. open = <<>> /\ request = [port |-> Nowhere, fresh |-> FALSE] /\ asked = [port |-> Nowhere, agent |-> FALSE, over |-> FALSE, taken |-> FALSE]
  BY <1>1 DEF P!Init, P!NoRequest, P!Nothing
<1>3. /\ selected = Nowhere /\ pending = Nowhere /\ due = FALSE /\ swapped = FALSE /\ frame = Nowhere
      /\ transport \in {"pending", "ready"} /\ late = {} /\ tool = [pc |-> "idle", waited |-> 0]
      /\ calls = [c \in P!Caller |-> P!NoCall]
  BY <1>1 DEF P!Init
<1>4. Opened = {} /\ open \in Seq(Port)
  <2>1. ToSet(<<>>) = {}
    BY DEF ToSet
  <2> QED BY <2>1, <1>2, OpenedIs
<1>5. ViewInv
  BY <1>2, <1>3, <1>4 DEF ViewInv, ViewShaped, Rendered, InView, Requested, Followed
<1>6. CallShaped(P!NoCall) /\ P!NoCall.pc = "none"
  BY NoCallShaped
<1>7. DOMAIN calls = P!Caller /\ \A c \in P!Caller : calls[c] = P!NoCall
  BY <1>3
<1>8. WorkInv
  BY <1>3, <1>6, <1>7 DEF WorkInv, WorkShaped, OneTool, P!Caller
<1> QED BY <1>5, <1>8 DEF PanelInv

\* Every step is one of these: a render, an event of the panel after a render, or none.
LEMMA PanelCases ==
  ASSUME [P!Next]_P!vars
  PROVE  \/ P!Render
         \/ ~due /\ (P!Starts \/ P!Acts \/ P!Reacts)
         \/ UNCHANGED P!vars
BY DEF P!Next

LEMMA NextPanelInv ==
  ASSUME PanelInv, [P!Next]_P!vars
  PROVE  PanelInv'
<1>1. CASE P!Render
  BY <1>1, RenderStep
<1>2. CASE ~due /\ P!Starts
  BY <1>2, RunClickStep, OpenWithCommandStep, SwapStep DEF P!Starts
<1>3. CASE ~due /\ P!Acts
  BY <1>3, DiesStep, ViewStep, StopClickStep, ShellServeStep, UseToolStep, OpenPreviewStep, TransportStep DEF P!Acts
<1>4. CASE ~due /\ P!Reacts
  BY <1>4, BindsStep, StaleReturnsStep, ExitsStep, BindsLateStep, PollStep, StopReturnsStep, RunKilledStep, RunSettlesStep,
     OpenSettlesStep, DocumentStep, UseToolStep, BundledStep DEF P!Reacts
<1>5. CASE UNCHANGED P!vars
  <2>1. UNCHANGED viewState /\ UNCHANGED <<late, calls, tool>>
    BY <1>5 DEF P!vars, P!runtime, P!panel, viewState
  <2>2. WorkInv'
    BY <2>1, Found, WorkKept
  <2> QED BY <2>1, <2>2, Found, StillStep
<1> QED BY <1>1, <1>2, <1>3, <1>4, <1>5, PanelCases

LEMMA PanelInductive == P!Spec => []PanelInv
<1>1. P!Init => PanelInv
  BY InitPanelInv
<1>2. PanelInv /\ [P!Next]_P!vars => PanelInv'
  BY NextPanelInv
<1> QED BY <1>1, <1>2, PTL DEF P!Spec

LEMMA PanelInvShows == ASSUME PanelInv PROVE LastActShown
<1> SUFFICES ASSUME ~due, ~asked.taken, asked.port \in P!Opened
             PROVE  /\ P!viewedPort = asked.port
                    /\ transport = "ready" => /\ frame # Nowhere /\ frame.port = asked.port
                                              /\ asked.agent /\ frame.doc = "ready" => frame.since
  BY DEF LastActShown, P!LastActShown
<1>1. asked.port \in Opened /\ asked.port # Nowhere
  BY Found, OpenedIs, PortSets
<1>2. ~request.fresh /\ ~swapped /\ pending \notin Opened
  BY Found DEF ViewInv, Rendered
<1>3. selected = asked.port /\ (asked.agent /\ frame # Nowhere /\ frame.port = asked.port /\ frame.doc = "ready" => frame.since)
  BY <1>1, <1>2, Found DEF ViewInv, Followed, Aim
<1>4. transport = "ready" => frame # Nowhere /\ frame.port = selected
  BY <1>1, <1>3, Found DEF ViewInv, InView
<1> QED BY <1>1, <1>3, <1>4 DEF P!viewedPort, Opened

\* Once React has rendered, an open port that the agent or the user asked for last is the one in view, be it by a request,
\* a pick or a Run (LastActShown: preview-select.ts, PreviewPanel.tsx), for any ports, commands and number of acts; only a
\* Run that was in flight when the act came may take the view from it.
THEOREM LastActShownHolds == P!Spec => []LastActShown
<1>1. PanelInv => LastActShown
  BY PanelInvShows
<1> QED BY <1>1, PanelInductive, PTL

\* A preview tool is over only by its own answer: no serve call of the agent ends meanwhile, and no switch comes.
LEMMA ToolAnswers ==
  ASSUME PanelInv, [P!Next]_P!vars, tool.pc = "read", tool'.pc = "idle"
  PROVE  P!ToolEnds /\ ~due
<1>1. tool' # tool
  OBVIOUS
<1>2. ~due /\ (P!Starts \/ P!Acts \/ P!Reacts)
  BY <1>1, PanelCases DEF P!Render, P!vars
<1>3. calls["tool"].pc \in {"none", "stale"}
  BY Found DEF WorkInv, OneTool
<1>4. ~P!OpenSettles
  BY <1>3 DEF P!OpenSettles, P!MaySettle
<1>5. ASSUME P!Starts PROVE FALSE
  BY <1>5, <1>1 DEF P!Starts, P!RunClick, P!OpenWithCommand, P!Swap
<1>6. ASSUME P!Acts PROVE FALSE
  BY <1>6, <1>1 DEF P!Acts, P!Dies, P!View, P!StopClick, P!ShellServe, P!UseTool, P!OpenPreview, P!TransportSettles
<1>7. ASSUME P!Reacts, ~P!ToolEnds PROVE FALSE
  <2>1. CASE P!Tick
    <3>1. tool' = [tool EXCEPT !.waited = tool.waited + 1]
      BY <2>1 DEF P!Tick
    <3>2. tool'.pc = "read"
      BY <3>1, Found, ToolShape
    <3> QED BY <3>2
  <2>2. CASE \E ok \in BOOLEAN : P!ToolClicks(ok)
    BY <2>2 DEF P!ToolClicks
  <2>3. CASE \E c \in P!Caller : P!Binds(c) \/ P!StaleReturns(c) \/ (\E ok \in BOOLEAN : P!Exits(c, ok))
    BY <2>3, <1>1 DEF P!Binds, P!StaleReturns, P!Exits
  <2>4. CASE (\E l \in late : P!BindsLate(l)) \/ (\E p \in Port : P!Poll(p)) \/ (\E ok \in BOOLEAN : P!Bundled(ok))
    BY <2>4, <1>1 DEF P!BindsLate, P!Poll, P!Bundled
  <2>5. CASE P!StopReturns \/ P!RunKilled \/ P!RunSettles \/ P!FrameLoads
    BY <2>5, <1>1 DEF P!StopReturns, P!RunKilled, P!RunSettles, P!FrameLoads
  <2> QED BY <1>7, <1>4, <2>1, <2>2, <2>3, <2>4, <2>5 DEF P!Reacts
<1> QED BY <1>2, <1>5, <1>6, <1>7

\* What a preview tool says of the preview is true (ToolsTruthful: preview-tools.ts, resolveDoc): the document it reads is the
\* one of the port last asked for, as of the request, and the cause it names for a missing one is the cause.
THEOREM ToolsTruthfulHolds == P!Spec => ToolsTruthful
<1> DEFINE Says == CASE P!Verdict = "doc" -> asked.port \in P!Opened /\ ~asked.taken => frame.port = asked.port /\ (asked.agent => frame.since)
                     [] P!Verdict = "none" -> transport = "ready" /\ P!viewedPort = Nowhere
                     [] P!Verdict \in {"pending", "failed"} -> transport = P!Verdict
                     [] OTHER -> TRUE
<1>1. ASSUME PanelInv, ~due PROVE Says
  <2>1. P!Verdict = IF frame # Nowhere /\ frame.doc = "ready" THEN "doc"
                    ELSE IF frame = Nowhere THEN (IF transport = "failed" THEN "failed" ELSE IF tool.waited = 0 THEN Nowhere
                                                  ELSE IF transport = "pending" THEN "pending" ELSE "none")
                    ELSE IF tool.waited = 2 THEN "loading" ELSE Nowhere
    BY DEF P!Verdict
  <2>2. /\ P!Verdict = "doc" => frame # Nowhere /\ frame.doc = "ready"
        /\ P!Verdict = "none" => frame = Nowhere /\ transport \notin {"pending", "failed"}
        /\ P!Verdict \in {"pending", "failed"} => transport = P!Verdict
    BY <2>1, PanelAssumption
  <2>3. frame # Nowhere => transport = "ready"
    BY <1>1, Found DEF ViewInv, InView
  <2>4. P!Verdict = "doc" => (asked.port \in P!Opened /\ ~asked.taken => frame.port = asked.port /\ (asked.agent => frame.since))
    BY <1>1, <2>2, <2>3, PanelInvShows DEF LastActShown, P!LastActShown
  <2>5. P!Verdict = "none" => transport = "ready" /\ P!viewedPort = Nowhere
    <3>1. transport \in {"pending", "ready", "failed"}
      BY <1>1, Found DEF ViewInv, ViewShaped
    <3>2. frame = Nowhere /\ transport = "ready" => selected \notin P!Opened
      BY <1>1, Found DEF ViewInv, InView, Opened
    <3> QED BY <2>2, <3>1, <3>2 DEF P!viewedPort
  <2> QED BY <2>2, <2>4, <2>5
<1>2. ASSUME PanelInv, [P!Next]_P!vars
      PROVE  [tool.pc = "read" /\ tool'.pc = "idle" => Says]_P!vars
  <2> SUFFICES ASSUME tool.pc = "read", tool'.pc = "idle" PROVE Says
    OBVIOUS
  <2>1. P!ToolEnds /\ ~due
    BY <1>2, ToolAnswers
  <2> QED BY <2>1, <1>1, <1>2
<1> HIDE DEF Says
<1>3. P!Spec => [][tool.pc = "read" /\ tool'.pc = "idle" => Says]_P!vars
  BY <1>2, PanelInductive, PTL DEF P!Spec
<1> QED BY <1>3 DEF ToolsTruthful, P!ToolsTruthful, Says


----
(* Delegate: the paths of a tree. *)

\* A path is a sequence of names that is neither empty nor longer than the bound.
LEMMA PathIs == \A p : p \in Path <=> p \in Seq(Name) /\ Len(p) \in 1 .. Depth
<1>1. ASSUME NEW p, p \in Path PROVE p \in Seq(Name) /\ Len(p) \in 1 .. Depth
  <2>1. PICK n \in 1 .. Depth : p \in [1 .. n -> Name]
    BY <1>1 DEF Path
  <2>2. n \in Nat
    BY <2>1, DelegateAssumption
  <2> QED BY <2>1, <2>2
<1>2. ASSUME NEW p, p \in Seq(Name), Len(p) \in 1 .. Depth PROVE p \in Path
  <2>1. p \in [1 .. Len(p) -> Name]
    BY <1>2, LenProperties
  <2> QED BY <1>2, <2>1 DEF Path
<1> QED BY <1>1, <1>2

\* One path is at or beneath another when it begins with it.
StartsWith(p, q) == Len(p) <= Len(q) /\ \A i \in 1 .. Len(p) : p[i] = q[i]

LEMMA PrefixIs == ASSUME NEW p \in Path, NEW q \in Path PROVE IsPrefix(p, q) <=> StartsWith(p, q)
<1>1. p \in Seq(Name) /\ q \in Seq(Name) /\ Len(p) \in Nat \ {0} /\ Len(q) \in Nat \ {0}
  BY PathIs, DelegateAssumption
<1>2. SubSeq(p, 1, Len(p)) = p
  BY <1>1, SubSeqFull
<1>3. ASSUME Len(p) <= Len(q)
      PROVE /\ SubSeq(q, 1, Len(p)) \in Seq(Name) /\ Len(SubSeq(q, 1, Len(p))) = Len(p)
            /\ \A i \in 1 .. Len(p) : SubSeq(q, 1, Len(p))[i] = q[i]
  <2>1. \A i \in 1 .. Len(p) : q[i] \in Name
    BY <1>1, <1>3, ElementOfSeq
  <2>2. Len(p) \in Int /\ 1 \in Int /\ 1 <= Len(p) /\ Len(p) - 1 + 1 = Len(p) /\ \A i \in 1 .. Len(p) : 1 + i - 1 = i
    BY <1>1
  <2> QED BY <2>1, <2>2, SubSeqProperties
<1>4. CASE Len(p) <= Len(q)
  <2> DEFINE s == SubSeq(q, 1, Len(p))
  <2>1. s \in Seq(Name) /\ Len(s) = Len(p) /\ \A i \in 1 .. Len(p) : s[i] = q[i]
    BY <1>3, <1>4
  <2>2. p = s <=> \A i \in 1 .. Len(p) : p[i] = q[i]
    <3> HIDE DEF s
    <3> QED BY <2>1, <1>1, SeqEqual
  <2> QED BY <1>2, <1>4, <2>2 DEF IsPrefix, StartsWith
<1> QED BY <1>4 DEF IsPrefix, StartsWith

LEMMA SubtreeIs == ASSUME NEW p \in Path, NEW q \in Path PROVE q \in Subtree[p] <=> StartsWith(p, q)
BY PrefixIs DEF Subtree

LEMMA LenPath == \A p \in Path : Len(p) \in Nat /\ 1 <= Len(p) /\ Len(p) <= Depth /\ p \in Seq(Name)
BY PathIs, DelegateAssumption

\* What is at or beneath a path is ordered by it, and two paths above one are above each other.
LEMMA OwnSubtree == ASSUME NEW p \in Path PROVE p \in Subtree[p]
BY SubtreeIs, LenPath DEF StartsWith

LEMMA SubtreeTrans ==
  ASSUME NEW p \in Path, NEW q \in Path, NEW r \in Path, q \in Subtree[p], r \in Subtree[q]
  PROVE  r \in Subtree[p]
<1>1. StartsWith(p, q) /\ StartsWith(q, r)
  BY SubtreeIs
<1>2. StartsWith(p, r)
  <2>1. Len(p) <= Len(r) /\ \A i \in 1 .. Len(p) : i \in 1 .. Len(q)
    BY <1>1, LenPath DEF StartsWith
  <2> QED BY <2>1, <1>1 DEF StartsWith
<1> QED BY <1>2, SubtreeIs

LEMMA SubtreeAnti ==
  ASSUME NEW p \in Path, NEW q \in Path, q \in Subtree[p], p \in Subtree[q]
  PROVE  p = q
<1>1. StartsWith(p, q) /\ StartsWith(q, p)
  BY SubtreeIs
<1>2. Len(p) = Len(q) /\ p \in Seq(Name) /\ q \in Seq(Name)
  BY <1>1, LenPath DEF StartsWith
<1> QED BY <1>1, <1>2, SeqEqual DEF StartsWith

LEMMA SubtreeComparable ==
  ASSUME NEW p \in Path, NEW q \in Path, NEW r \in Path, r \in Subtree[p], r \in Subtree[q]
  PROVE  q \in Subtree[p] \/ p \in Subtree[q]
<1>1. StartsWith(p, r) /\ StartsWith(q, r) /\ Len(p) \in Nat /\ Len(q) \in Nat
  BY SubtreeIs, LenPath
<1>2. CASE Len(p) <= Len(q)
  <2>1. \A i \in 1 .. Len(p) : i \in 1 .. Len(q)
    BY <1>1, <1>2
  <2> QED BY <1>1, <1>2, <2>1, SubtreeIs DEF StartsWith
<1>3. CASE Len(q) <= Len(p)
  <2>1. \A i \in 1 .. Len(q) : i \in 1 .. Len(p)
    BY <1>1, <1>3
  <2> QED BY <1>1, <1>3, <2>1, SubtreeIs DEF StartsWith
<1> QED BY <1>1, <1>2, <1>3

LEMMA SubtreePaths == \A p \in Path : Subtree[p] \subseteq Path /\ Beneath[p] \subseteq Path /\ Above[p] \subseteq Path
BY DEF Subtree, Beneath, Above

LEMMA BeneathIs == ASSUME NEW p \in Path, NEW q PROVE q \in Beneath[p] <=> q \in Path /\ q \in Subtree[p] /\ q # p
BY SubtreePaths DEF Beneath

LEMMA AboveIs == ASSUME NEW p \in Path, NEW q PROVE q \in Above[p] <=> q \in Path /\ p \in Subtree[q] /\ q # p
BY BeneathIs DEF Above

LEMMA AboveShorter == ASSUME NEW p \in Path, NEW q \in Above[p] PROVE Len(q) < Len(p)
<1>1. q \in Path /\ p \in Subtree[q] /\ q # p
  BY AboveIs
<1>2. StartsWith(q, p) /\ p \in Seq(Name) /\ q \in Seq(Name) /\ Len(p) \in Nat /\ Len(q) \in Nat
  BY <1>1, SubtreeIs, LenPath
<1>3. Len(p) # Len(q)
  BY <1>1, <1>2, SeqEqual DEF StartsWith
<1> QED BY <1>2, <1>3 DEF StartsWith

LEMMA AboveTrans == ASSUME NEW p \in Path, NEW q \in Above[p], NEW r \in Above[q] PROVE r \in Above[p]
<1>1. q \in Path /\ r \in Path /\ p \in Subtree[q] /\ q \in Subtree[r] /\ q # p /\ r # q
  BY AboveIs, SubtreePaths
<1>2. p \in Subtree[r]
  BY <1>1, SubtreeTrans
<1>3. r # p
  BY <1>1, SubtreeAnti
<1> QED BY <1>1, <1>2, <1>3, AboveIs

\* The directory of a path: it is above it, and what else is above the path is above the directory.
LEMMA FrontIs ==
  ASSUME NEW p \in Path, Len(p) > 1
  PROVE  Front(p) \in Above[p] /\ \A q \in Above[p] : q = Front(p) \/ q \in Above[Front(p)]
<1> DEFINE f == Front(p)
<1>1. p \in Seq(Name) /\ Len(p) \in Nat /\ Len(p) - 1 \in Nat \ {0} /\ Len(p) <= Depth /\ Len(p) - 1 \in Int /\ 1 \in Int
  <2>1. p \in Seq(Name) /\ Len(p) \in Nat /\ Len(p) <= Depth
    BY LenPath
  <2>2. \A n \in Nat : n > 1 => n - 1 \in Nat \ {0} /\ n - 1 \in Int /\ 1 \in Int
    OBVIOUS
  <2> QED BY <2>1, <2>2, Zenon
<1>2. f \in Seq(Name) /\ Len(f) = Len(p) - 1 /\ \A i \in 1 .. Len(p) - 1 : f[i] = p[i]
  <2>1. \A i \in 1 .. Len(p) - 1 : p[i] \in Name
    <3>1. \A i \in 1 .. Len(p) - 1 : i \in 1 .. Len(p)
      BY <1>1
    <3> QED BY <3>1, <1>1, ElementOfSeq
  <2>2. /\ SubSeq(p, 1, Len(p) - 1) \in Seq(Name)
        /\ Len(SubSeq(p, 1, Len(p) - 1)) = IF 1 <= Len(p) - 1 THEN (Len(p) - 1) - 1 + 1 ELSE 0
        /\ \A i \in 1 .. (Len(p) - 1) - 1 + 1 : SubSeq(p, 1, Len(p) - 1)[i] = p[1 + i - 1]
    BY <1>1, <2>1, SubSeqProperties
  <2>3. 1 <= Len(p) - 1 /\ (Len(p) - 1) - 1 + 1 = Len(p) - 1 /\ \A i \in 1 .. Len(p) - 1 : 1 + i - 1 = i
    BY <1>1
  <2> QED BY <2>2, <2>3 DEF Front
<1> HIDE DEF f
<1>3. f \in Path
  <2>1. Len(f) \in 1 .. Depth
    BY <1>1, <1>2, DelegateAssumption
  <2> QED BY <2>1, <1>2, PathIs
<1>4. f \in Above[p]
  <2>1. StartsWith(f, p) /\ f # p
    BY <1>1, <1>2 DEF StartsWith
  <2> QED BY <2>1, <1>3, SubtreeIs, AboveIs
<1>5. ASSUME NEW q \in Above[p], q # f PROVE q \in Above[f]
  <2>1. q \in Path /\ StartsWith(q, p) /\ Len(q) < Len(p) /\ Len(q) \in Nat
    BY AboveIs, SubtreeIs, AboveShorter, LenPath
  <2>2. StartsWith(q, f)
    <3>1. Len(q) <= Len(f) /\ \A i \in 1 .. Len(q) : i \in 1 .. Len(p) - 1
      BY <2>1, <1>1, <1>2
    <3> QED BY <3>1, <2>1, <1>2 DEF StartsWith
  <2> QED BY <2>1, <2>2, <1>3, <1>5, SubtreeIs, AboveIs
<1> QED BY <1>4, <1>5 DEF f

----
(* Delegate: trees. *)

\* Above what is there are directories.
Tidy(t) == \A p \in Path : t[p] # None => \A q \in Above[p] : t[q] = Dir

\* A tree in which the directory of everything is there: by the shortest path for which it is not.
LEMMA TidyTrees == ASSUME NEW t, WellFormed(t) PROVE Tidy(t)
<1> DEFINE Bad(p) == t[p] # None /\ \E q \in Above[p] : t[q] # Dir
           Lens == {n \in Nat : \E p \in Path : n = Len(p) /\ Bad(p)}
<1>1. SUFFICES ASSUME NEW p \in Path, Bad(p) PROVE FALSE
  BY DEF Tidy
<1>2. PICK n \in Lens : \A m \in Lens : n <= m
  <2>1. Lens \in SUBSET Nat /\ Lens # {}
    BY <1>1, LenPath
  <2> HIDE DEF Lens
  <2> QED BY <2>1, LeastElement
<1>3. PICK s \in Path : n = Len(s) /\ Bad(s)
  OBVIOUS
<1>4. PICK q \in Above[s] : t[q] # Dir
  BY <1>3
<1>5. Len(s) > 1
  <2>1. q \in Path /\ Len(q) < Len(s)
    BY AboveShorter, SubtreePaths
  <2> QED BY <2>1, LenPath
<1>6. /\ t[Front(s)] = Dir /\ Front(s) \in Path /\ Len(Front(s)) < Len(s)
      /\ q = Front(s) \/ q \in Above[Front(s)]
  BY <1>3, <1>5, FrontIs, AboveShorter, SubtreePaths DEF WellFormed, Open
<1>7. Bad(Front(s))
  BY <1>4, <1>6 DEF Dir, None
<1>8. Len(Front(s)) \in Lens
  BY <1>7, <1>6, LenPath
<1>9. Len(s) <= Len(Front(s)) /\ Len(s) \in Nat /\ Len(Front(s)) \in Nat
  BY <1>8, <1>2, <1>3, <1>6, LenPath
<1> HIDE DEF Lens
<1> QED BY <1>9, <1>6

\* Where a file may be put, all above is a directory.
LEMMA OpenPath == ASSUME NEW t, Tidy(t), NEW p \in Path, Open(t, p) PROVE \A q \in Above[p] : t[q] = Dir
<1>1. SUFFICES ASSUME NEW q \in Above[p] PROVE t[q] = Dir
  OBVIOUS
<1>2. q \in Path /\ Len(q) < Len(p) /\ Len(q) \in Nat /\ 1 <= Len(q) /\ Len(p) \in Nat
  BY AboveShorter, SubtreePaths, LenPath
<1>3. Len(p) > 1
  BY <1>2
<1>4. t[Front(p)] = Dir /\ Front(p) \in Path /\ (q = Front(p) \/ q \in Above[Front(p)])
  BY <1>3, FrontIs, SubtreePaths DEF Open
<1> QED BY <1>4 DEF Tidy, Dir, None

----
(* Delegate: changes of a tree. *)

\* A tree after something was put at a path where it may be put.
LEMMA TidyPut ==
  ASSUME NEW t \in Tree, Tidy(t), NEW p \in Path, \A q \in Above[p] : t[q] = Dir, t[p] # Dir,
         NEW x, NEW u, u = [t EXCEPT ![p] = x]
  PROVE  Tidy(u)
<1>1. \A q \in Path : u[q] = IF q = p THEN x ELSE t[q]
  BY DEF Tree
<1>2. SUFFICES ASSUME NEW r \in Path, u[r] # None, NEW q \in Above[r] PROVE u[q] = Dir
  BY DEF Tidy
<1>3. q \in Path /\ q # r
  BY AboveIs
<1>4. CASE r = p
  BY <1>1, <1>3, <1>4
<1>5. CASE r # p
  <2>1. t[r] # None /\ t[q] = Dir
    BY <1>1, <1>2, <1>5 DEF Tidy
  <2> QED BY <2>1, <1>1, <1>3
<1> QED BY <1>4, <1>5

\* A tree without a subtree.
LEMMA TidyRemoved ==
  ASSUME NEW t \in Tree, Tidy(t), NEW p \in Path
  PROVE  Removed(t, p) \in Tree /\ Tidy(Removed(t, p))
<1> DEFINE u == Removed(t, p)
<1>1. \A q \in Path : u[q] = IF q \in Subtree[p] THEN None ELSE t[q]
  BY DEF Removed
<1>2. u \in Tree
  BY DEF Removed, Tree
<1> HIDE DEF u
<1>3. SUFFICES ASSUME NEW r \in Path, u[r] # None, NEW q \in Above[r] PROVE u[q] = Dir
  BY <1>2 DEF u, Tidy
<1>4. r \notin Subtree[p] /\ t[r] # None
  BY <1>1, <1>3
<1>5. q \in Path /\ r \in Subtree[q] /\ t[q] = Dir
  BY <1>4, AboveIs DEF Tidy
<1>6. q \notin Subtree[p]
  BY <1>4, <1>5, SubtreeTrans
<1> QED BY <1>1, <1>5, <1>6

\* A tree after mkdir -p.
LEMMA TidyWithDirs ==
  ASSUME NEW t \in Tree, Tidy(t), NEW p \in Path, t[p] = None, ~BlockedBy(t, p)
  PROVE  WithDirs(t, p) \in Tree /\ Tidy(WithDirs(t, p))
<1> DEFINE u == WithDirs(t, p)
<1>1. \A q \in Path : u[q] = IF p \in Subtree[q] /\ t[q] = None THEN Dir ELSE t[q]
  BY DEF WithDirs
<1>2. u \in Tree
  BY DEF WithDirs, Tree
<1> HIDE DEF u
<1>3. SUFFICES ASSUME NEW r \in Path, u[r] # None, NEW q \in Above[r] PROVE u[q] = Dir
  BY <1>2 DEF u, Tidy
<1>4. q \in Path /\ r \in Subtree[q] /\ q # r
  BY AboveIs
<1>5. CASE t[r] # None
  <2>1. t[q] = Dir
    BY <1>5 DEF Tidy
  <2> QED BY <2>1, <1>1, <1>4 DEF Dir, None
<1>6. CASE t[r] = None
  <2>1. p \in Subtree[r]
    BY <1>1, <1>3, <1>6
  <2>2. p \in Subtree[q] /\ q # p
    BY <2>1, <1>4, SubtreeTrans, SubtreeAnti
  <2>3. t[q].type \notin {"file", "link"}
    BY <2>2, <1>4, AboveIs DEF BlockedBy
  <2>4. t[q] \in {None, Dir}
    BY <2>3, <1>4 DEF Tree, Content, File, Link, None, Dir
  <2> QED BY <2>2, <2>4, <1>1, <1>4
<1> QED BY <1>5, <1>6

\* Where a path beneath one path comes to lie beneath another.
From(p, q, r) == p \o SubSeq(r, Len(q) + 1, Len(r))

LEMMA FromIs ==
  ASSUME NEW p \in Path, NEW q \in Path, NEW r \in Subtree[q]
  PROVE  /\ From(p, q, r) \in Seq(Name) /\ Len(From(p, q, r)) = Len(p) + Len(r) - Len(q)
         /\ \A i \in 1 .. Len(From(p, q, r)) : From(p, q, r)[i] = IF i <= Len(p) THEN p[i] ELSE r[Len(q) + i - Len(p)]
<1> DEFINE s == SubSeq(r, Len(q) + 1, Len(r))
<1>1. r \in Path /\ StartsWith(q, r)
  BY SubtreeIs, SubtreePaths
<1>2. /\ p \in Seq(Name) /\ r \in Seq(Name) /\ Len(p) \in Nat /\ Len(q) \in Nat /\ Len(r) \in Nat /\ Len(q) <= Len(r)
      /\ Len(q) + 1 \in Int /\ Len(r) \in Int
  BY <1>1, LenPath DEF StartsWith
<1>3. /\ s \in Seq(Name) /\ Len(s) = Len(r) - Len(q)
      /\ \A i \in 1 .. Len(r) - Len(q) : s[i] = r[Len(q) + i]
  <2>1. \A i \in Len(q) + 1 .. Len(r) : r[i] \in Name
    <3>1. \A i \in Len(q) + 1 .. Len(r) : i \in 1 .. Len(r)
      BY <1>2
    <3> QED BY <3>1, <1>2, ElementOfSeq
  <2>2. /\ SubSeq(r, Len(q) + 1, Len(r)) \in Seq(Name)
        /\ Len(SubSeq(r, Len(q) + 1, Len(r))) = IF Len(q) + 1 <= Len(r) THEN Len(r) - (Len(q) + 1) + 1 ELSE 0
        /\ \A i \in 1 .. Len(r) - (Len(q) + 1) + 1 : SubSeq(r, Len(q) + 1, Len(r))[i] = r[Len(q) + 1 + i - 1]
    BY <1>2, <2>1, SubSeqProperties
  <2>3. /\ (IF Len(q) + 1 <= Len(r) THEN Len(r) - (Len(q) + 1) + 1 ELSE 0) = Len(r) - Len(q)
        /\ Len(r) - (Len(q) + 1) + 1 = Len(r) - Len(q)
        /\ \A i \in 1 .. Len(r) - Len(q) : Len(q) + 1 + i - 1 = Len(q) + i
    BY <1>2, SMT
  <2> QED BY <2>2, <2>3
<1> HIDE DEF s
<1>4. /\ p \o s \in Seq(Name) /\ Len(p \o s) = Len(p) + Len(s)
      /\ \A i \in 1 .. Len(p) + Len(s) : (p \o s)[i] = IF i <= Len(p) THEN p[i] ELSE s[i - Len(p)]
  BY <1>2, <1>3, ConcatProperties
<1>5. Len(p) + Len(s) = Len(p) + Len(r) - Len(q)
  BY <1>2, <1>3
<1>6. ASSUME NEW i \in 1 .. Len(p) + Len(s), ~(i <= Len(p)) PROVE s[i - Len(p)] = r[Len(q) + i - Len(p)]
  <2>1. i - Len(p) \in 1 .. Len(r) - Len(q) /\ Len(q) + (i - Len(p)) = Len(q) + i - Len(p)
    BY <1>2, <1>5, <1>6
  <2> QED BY <2>1, <1>3
<1> QED BY <1>4, <1>5, <1>6 DEF From, s

LEMMA FromPath ==
  ASSUME NEW p \in Path, NEW q \in Path, NEW r \in Subtree[q], Len(From(p, q, r)) <= Depth
  PROVE  From(p, q, r) \in Subtree[p]
<1> DEFINE f == From(p, q, r)
<1>1. /\ f \in Seq(Name) /\ Len(f) = Len(p) + Len(r) - Len(q)
      /\ \A i \in 1 .. Len(f) : f[i] = IF i <= Len(p) THEN p[i] ELSE r[Len(q) + i - Len(p)]
  BY FromIs
<1>2. r \in Path /\ StartsWith(q, r)
  BY SubtreeIs, SubtreePaths
<1>3. Len(p) \in Nat /\ 1 <= Len(p) /\ Len(q) \in Nat /\ Len(r) \in Nat /\ Len(q) <= Len(r)
  BY <1>2, LenPath DEF StartsWith
<1> HIDE DEF f
<1>4. Len(p) <= Len(f) /\ Len(f) \in Nat /\ 1 <= Len(f) /\ \A i \in 1 .. Len(p) : i \in 1 .. Len(f) /\ i <= Len(p)
  BY <1>1, <1>3
<1>5. f \in Path
  <2>1. Len(f) \in 1 .. Depth
    BY <1>4, DelegateAssumption DEF f
  <2> QED BY <2>1, <1>1, PathIs
<1>6. StartsWith(p, f)
  BY <1>1, <1>4 DEF StartsWith
<1> QED BY <1>5, <1>6, SubtreeIs DEF f

LEMMA FromRoot == ASSUME NEW p \in Path, NEW q \in Path PROVE From(p, q, q) = p
<1> DEFINE f == From(p, q, q)
<1>1. q \in Subtree[q] /\ p \in Seq(Name) /\ Len(p) \in Nat /\ Len(q) \in Nat
  BY OwnSubtree, LenPath
<1>2. /\ f \in Seq(Name) /\ Len(f) = Len(p) + Len(q) - Len(q)
      /\ \A i \in 1 .. Len(f) : f[i] = IF i <= Len(p) THEN p[i] ELSE q[Len(q) + i - Len(p)]
  BY <1>1, FromIs
<1> HIDE DEF f
<1>3. Len(f) = Len(p)
  BY <1>1, <1>2
<1>4. \A i \in 1 .. Len(f) : f[i] = p[i]
  BY <1>1, <1>2, <1>3
<1>5. f = p
  BY <1>1, <1>2, <1>3, <1>4, SeqEqual
<1> QED BY <1>5 DEF f

\* What is above stays above.
LEMMA FromAbove ==
  ASSUME NEW p \in Path, NEW q \in Path, NEW r \in Subtree[q], NEW b1 \in Subtree[q], b1 \in Above[r], Len(From(p, q, r)) <= Depth
  PROVE  Len(From(p, q, b1)) <= Depth /\ From(p, q, b1) \in Above[From(p, q, r)]
<1> DEFINE f == From(p, q, r)
           g == From(p, q, b1)
<1>1. /\ f \in Seq(Name) /\ Len(f) = Len(p) + Len(r) - Len(q)
      /\ \A i \in 1 .. Len(f) : f[i] = IF i <= Len(p) THEN p[i] ELSE r[Len(q) + i - Len(p)]
  BY FromIs
<1>2. /\ g \in Seq(Name) /\ Len(g) = Len(p) + Len(b1) - Len(q)
      /\ \A i \in 1 .. Len(g) : g[i] = IF i <= Len(p) THEN p[i] ELSE b1[Len(q) + i - Len(p)]
  BY FromIs
<1>3. r \in Path /\ b1 \in Path /\ StartsWith(q, r) /\ StartsWith(q, b1) /\ StartsWith(b1, r) /\ Len(b1) < Len(r)
  BY SubtreeIs, SubtreePaths, AboveIs, AboveShorter
<1>4. Len(p) \in Nat /\ Len(q) \in Nat /\ Len(r) \in Nat /\ Len(b1) \in Nat /\ Len(q) <= Len(b1)
  BY <1>3, LenPath DEF StartsWith
<1>5. f \in Subtree[p]
  BY FromPath
<1> HIDE DEF f, g
<1>6. Len(g) < Len(f) /\ Len(f) <= Depth /\ Depth \in Nat
  BY <1>1, <1>2, <1>3, <1>4, DelegateAssumption DEF f
<1>7. Len(g) <= Depth
  BY <1>6, <1>2, <1>4, <1>1
<1>8. g \in Subtree[p]
  BY <1>7, FromPath DEF g
<1>9. StartsWith(g, f)
  <2>1. SUFFICES ASSUME NEW i \in 1 .. Len(g) PROVE g[i] = f[i]
    BY <1>6, <1>1, <1>2, <1>4 DEF StartsWith
  <2>2. i \in 1 .. Len(f) /\ (~(i <= Len(p)) => Len(q) + i - Len(p) \in 1 .. Len(b1))
    BY <1>6, <1>1, <1>2, <1>3, <1>4
  <2>3. ~(i <= Len(p)) => b1[Len(q) + i - Len(p)] = r[Len(q) + i - Len(p)]
    BY <2>2, <1>3 DEF StartsWith
  <2> QED BY <2>2, <2>3, <1>1, <1>2
<1>10. g # f
  BY <1>6, <1>1, <1>2, <1>4
<1>11. f \in Path /\ g \in Path
  BY <1>5, <1>8, SubtreePaths
<1> QED BY <1>7, <1>9, <1>10, <1>11, SubtreeIs, AboveIs DEF f, g

\* A tree with the subtree of another in the place of what is at a path where it may be put.
LEMMA TidyGrafted ==
  ASSUME NEW t \in Tree, Tidy(t), NEW s \in Tree, Tidy(s), NEW p \in Path, NEW to \in Path, \A q \in Above[to] : t[q] = Dir
  PROVE  Grafted(t, s, p, to) \in Tree /\ Tidy(Grafted(t, s, p, to))
<1> DEFINE u == Grafted(t, s, p, to)
           Kept(r) == Len(From(p, to, r)) <= Depth
<1>1. \A r \in Path : u[r] = IF r \notin Subtree[to] THEN t[r] ELSE IF Kept(r) THEN s[From(p, to, r)] ELSE None
  BY DEF Grafted, From
<1>2. \A r \in Subtree[to] : Kept(r) => From(p, to, r) \in Path
  BY FromPath, SubtreePaths
<1>3. u \in Tree
  <2>1. DOMAIN u = Path /\ u = [r \in Path |-> u[r]]
    BY DEF Grafted
  <2>2. \A r \in Path : u[r] \in {None, Dir, Link} \cup Content
    BY <1>1, <1>2 DEF Tree
  <2> HIDE DEF u
  <2> QED BY <2>1, <2>2 DEF Tree
<1> HIDE DEF u
<1>4. SUFFICES ASSUME NEW r \in Path, u[r] # None, NEW q \in Above[r] PROVE u[q] = Dir
  BY <1>3 DEF u, Tidy
<1>5. q \in Path /\ r \in Subtree[q] /\ q # r
  BY AboveIs
<1>6. CASE r \notin Subtree[to]
  <2>1. q \notin Subtree[to]
    BY <1>5, <1>6, SubtreeTrans
  <2>2. t[r] # None /\ t[q] = Dir
    BY <1>1, <1>4, <1>6 DEF Tidy
  <2> QED BY <2>1, <2>2, <1>1, <1>5
<1>7. CASE r \in Subtree[to] /\ q \in Subtree[to]
  <2>1. Kept(r) /\ s[From(p, to, r)] # None
    BY <1>1, <1>4, <1>7
  <2>2. Kept(q) /\ From(p, to, q) \in Above[From(p, to, r)]
    BY <2>1, <1>7, FromAbove
  <2>3. s[From(p, to, q)] = Dir
    BY <2>1, <2>2, <1>2, <1>7 DEF Tidy
  <2> QED BY <2>2, <2>3, <1>1, <1>5, <1>7
<1>8. CASE r \in Subtree[to] /\ q \notin Subtree[to]
  <2>1. to \in Subtree[q]
    BY <1>5, <1>8, SubtreeComparable
  <2>2. q \in Above[to]
    BY <2>1, <1>5, <1>8, OwnSubtree, AboveIs
  <2> QED BY <2>2, <1>1, <1>5, <1>8
<1> QED BY <1>6, <1>7, <1>8

\* Where a path comes to lie whose target is a directory or free.
LEMMA LandingIs ==
  ASSUME NEW t \in Tree, Tidy(t), NEW p \in Path, NEW q \in Path, Open(t, q), Len(Landing(t, p, q)) <= Depth
  PROVE  Landing(t, p, q) \in Path /\ \A r \in Above[Landing(t, p, q)] : t[r] = Dir
<1>1. CASE t[q] # Dir
  BY <1>1, OpenPath DEF Landing
<1>2. CASE t[q] = Dir
  <2> DEFINE x == Last(p)
             to == Append(q, x)
  <2>1. x \in Name
    <3>1. p \in Seq(Name) /\ Len(p) \in 1 .. Len(p)
      BY LenPath
    <3> QED BY <3>1, ElementOfSeq DEF Last
  <2>2. q \in Seq(Name) /\ Len(q) \in Nat /\ 1 <= Len(q)
    BY LenPath
  <2> HIDE DEF x
  <2>3. /\ to \in Seq(Name) /\ Len(to) = Len(q) + 1
        /\ \A i \in 1 .. Len(q) : to[i] = q[i]
    BY <2>1, <2>2, AppendProperties
  <2>4. Landing(t, p, q) = to
    BY <1>2 DEF Landing, x
  <2> HIDE DEF to
  <2>5. to \in Path
    <3>1. Len(to) \in 1 .. Depth
      BY <2>2, <2>3, <2>4, DelegateAssumption
    <3> QED BY <3>1, <2>3, PathIs
  <2>6. ASSUME NEW r \in Above[to] PROVE t[r] = Dir
    <3>1. r \in Path /\ StartsWith(r, to) /\ Len(r) < Len(to) /\ Len(r) \in Nat
      BY <2>5, AboveIs, SubtreeIs, AboveShorter, LenPath
    <3>2. Len(r) <= Len(q) /\ \A i \in 1 .. Len(r) : i \in 1 .. Len(q)
      BY <3>1, <2>2, <2>3
    <3>3. StartsWith(r, q)
      BY <3>1, <3>2, <2>3 DEF StartsWith
    <3>4. r = q \/ r \in Above[q]
      BY <3>1, <3>3, SubtreeIs, AboveIs
    <3> QED BY <3>4, <1>2 DEF Tidy, Dir, None
  <2> QED BY <2>4, <2>5, <2>6
<1> QED BY <1>1, <1>2

----
(* The invariant of a delegate call. *)

DelegateTyped ==
    /\ parent \in Tree /\ base \in [Path -> {None, Dir, File(0)}] /\ Tidy(base)
    /\ scratch \in [Child -> Tree] /\ \A c \in Child : Tidy(scratch[c])
    /\ touched \in [Child -> SUBSET Path]
    /\ status \in [Child -> {"running", "done", "unfinished", "error", "conflict", "applied"}]
    /\ cut \in [Child -> [Path -> {Same, None} \cup Content]]
    /\ call \in {"idle", "running", "merging", "reported", "failed"} /\ turn \in 1 .. NChild + 1
    /\ job \in Job /\ applied \subseteq Path /\ edits \in [Path -> {Same, None} \cup Content]

\* What a child changed lies at or beneath a path of its events.
Noticed == \A c \in Child, p \in Path : scratch[c][p] # base[p] => \E q \in touched[c] : p \in Subtree[q]

\* The changes of a child that may be merged are those of its copy.
CutTrue == \A c \in Child : status[c] \in {"done", "conflict", "applied"} => cut[c] = Captured(c)

Active(c) == turn = c /\ job # Idle
Counted(c) == status[c] = "applied" \/ Active(c)

\* Before the merge nothing is applied; in it the children come in their order, and the one in hand ended well.
Phases ==
    /\ call \in {"idle", "running"} => job = Idle /\ \A c \in Child : status[c] \notin {"applied", "conflict"}
    /\ call = "idle" => \A c \in Child : status[c] = "running"
    /\ call \in {"merging", "reported", "failed"} => \A c \in Child : status[c] # "running"
    /\ \A c \in Child : status[c] = "applied" => c < turn
    /\ job = Idle \/ job.step \in {"delete", "stat", "clear", "write"}
    /\ job # Idle =>
         /\ turn \in Child /\ status[turn] = "done"
         /\ \A p \in job.rm : cut[turn][p] = None
         /\ \A p \in job.put : cut[turn][p] \notin {Same, None}
         /\ job.rm # {} => \A p \in Path : cut[turn][p] \notin {Same, None} => p \in job.put
    /\ call = "reported" => job = Idle
    /\ call = "merging" /\ job.step \in {"stat", "clear", "write"} => job.rm = {} /\ job.at \in job.put

\* A file that is not what it was is so by a child that was applied, or is being applied.
Traced ==
    \A p \in Path :
        LET alone == IF p \in Edited THEN edits[p] ELSE FileAt(base, p) IN
        FileAt(parent, p) # alone =>
            \E c \in Child : Counted(c) /\ \E q \in Changed(c) : IF p \in Edited THEN p \in Subtree[q] ELSE q = p /\ p \in Differs(c)

\* What one child changed another changed neither, nor removed from above.
Apart(c, d) == Changed(c) \cap Changed(d) = {} /\ \A q \in Changed(d) : cut[d][q] = None => Beneath[q] \cap Changed(c) = {}

Disjoint ==
    \A c, d \in Child : status[c] = "applied" /\ c < d /\ Counted(d) => Apart(c, d)

\* The paths that count as applied are at least those of the children applied, and what is done of the one in hand.
Entered ==
    call \in {"merging", "reported"} =>
        /\ \A c \in Child : status[c] = "applied" => Changed(c) \subseteq applied
        /\ job # Idle => Changed(turn) \subseteq applied \cup job.rm \cup job.put

\* A file of a later child where this path had a directory.
Over(c, p) == \E d \in Child : c < d /\ Counted(d) /\ \E q \in Differs(d) \cap Above[p] : scratch[d][q].type = "file"

\* As long as nobody else edits, the work of the children applied is in the workspace, and what is done of the one in hand.
Whole ==
    call \in {"merging", "reported"} /\ Edited = {} =>
        /\ \A c \in Child : status[c] = "applied" => \A p \in Differs(c) : FileAt(parent, p) = FileAt(scratch[c], p) \/ Over(c, p)
        /\ job # Idle => \A p \in Differs(turn) \ (job.rm \cup job.put) : FileAt(parent, p) = FileAt(scratch[turn], p)

DelegateInv == DelegateTyped /\ Noticed /\ CutTrue /\ Phases /\ Traced /\ Disjoint /\ Entered /\ Whole

----
(* Delegate: what computeChildChanges captures. *)

LEMMA FileAtIs ==
  ASSUME NEW t, NEW p \in Path, t[p] \in {None, Dir, Link} \cup Content
  PROVE  /\ FileAt(t, p) \in {None} \cup Content /\ (FileAt(t, p) # None <=> t[p].type = "file") /\ FileAt(t, p) # Same
         /\ FileAt(t, p) # None => t[p] # None /\ t[p] # Dir
BY DEF FileAt, Content, File, None, Dir, Link, Same

LEMMA BaseFiles == ASSUME DelegateTyped, NEW p \in Path PROVE base[p] \in {None, Dir, Link} \cup Content
<1>1. base[p] \in {None, Dir, File(0)}
  BY DEF DelegateTyped
<1>2. 0 \in 0 .. NChild + 1
  BY DelegateAssumption
<1>3. File(0) \in Content
  BY <1>2 DEF Content
<1> QED BY <1>1, <1>3

LEMMA ScratchFiles == ASSUME DelegateTyped, NEW c \in Child, NEW p \in Path PROVE scratch[c][p] \in {None, Dir, Link} \cup Content
BY DEF DelegateTyped, Tree

LEMMA ParentFiles == ASSUME DelegateTyped, NEW p \in Path PROVE parent[p] \in {None, Dir, Link} \cup Content
BY DEF DelegateTyped, Tree

\* Nothing is beneath a file, or beneath what is not there.
LEMMA NothingBeneath ==
  ASSUME NEW t, Tidy(t), NEW p \in Path, t[p] # Dir, NEW q \in Subtree[p], q # p
  PROVE  t[q] = None
<1>1. q \in Path /\ p \in Above[q]
  BY SubtreePaths, AboveIs
<1> QED BY <1>1 DEF Tidy

\* Every file that a child left otherwise than it found it is among those that are compared.
LEMMA DiffersExpanded ==
  ASSUME DelegateTyped, Noticed, NEW c \in Child, NEW p \in Differs(c)
  PROVE  p \in Path /\ p \in Expanded(c) /\ p \notin RemovedDirs(c)
<1>1. p \in Path /\ FileAt(scratch[c], p) # FileAt(base, p)
  BY DEF Differs
<1>2. scratch[c][p] # base[p]
  BY <1>1 DEF FileAt
<1>3. PICK q \in touched[c] : p \in Subtree[q]
  BY <1>1, <1>2 DEF Noticed
<1>4. q \in Path /\ (q = p \/ (q \in Above[p] /\ p \in Beneath[q]))
  <2>1. q \in Path
    BY <1>3 DEF DelegateTyped
  <2> QED BY <2>1, <1>1, <1>3, AboveIs, BeneathIs
<1>5. base[p] \in {None, Dir, Link} \cup Content /\ scratch[c][p] \in {None, Dir, Link} \cup Content
  BY <1>1, BaseFiles, ScratchFiles
<1>6. p \in Expanded(c)
  <2>1. CASE q = p
    BY <2>1, <1>3 DEF Expanded
  <2>2. CASE q # p /\ FileAt(base, p) # None
    <3>1. base[p].type = "file" /\ base[p] # None
      BY <2>2, <1>1, <1>5, FileAtIs
    <3>2. base[q] = Dir
      BY <3>1, <2>2, <1>1, <1>4 DEF DelegateTyped, Tidy
    <3>3. p \in FilesUnder(base, q)
      BY <3>1, <2>2, <1>4 DEF FilesUnder
    <3>4. q \in {r \in touched[c] : base[r] = Dir}
      BY <3>2, <1>3
    <3> QED BY <3>3, <3>4, Zenon DEF Expanded
  <2>3. CASE q # p /\ FileAt(scratch[c], p) # None
    <3>1. scratch[c][p].type = "file" /\ scratch[c][p] # None
      BY <2>3, <1>1, <1>5, FileAtIs
    <3>2. scratch[c][q] = Dir
      BY <3>1, <2>3, <1>1, <1>4 DEF DelegateTyped, Tidy
    <3>3. p \in FilesUnder(scratch[c], q)
      BY <3>1, <2>3, <1>4 DEF FilesUnder
    <3>4. q \in {r \in touched[c] : scratch[c][r] = Dir}
      BY <3>2, <1>3
    <3>5. p \in UNION {FilesUnder(scratch[c], r) : r \in {r \in touched[c] : scratch[c][r] = Dir}}
      BY <3>3, <3>4, Zenon
    <3> QED BY <3>5 DEF Expanded
  <2> QED BY <2>1, <2>2, <2>3, <1>1
<1>7. p \notin RemovedDirs(c)
  <2>1. SUFFICES ASSUME base[p] = Dir, scratch[c][p] = None PROVE FALSE
    BY DEF RemovedDirs
  <2> QED BY <2>1, <1>1 DEF FileAt, Dir, None
<1> QED BY <1>1, <1>6, <1>7

\* The capture of a child: its files as it left them, and the directories it removed.
LEMMA CapturedIs ==
  ASSUME DelegateTyped, Noticed, NEW c \in Child, NEW p \in Path, NEW x, x = Captured(c)[p]
  PROVE  /\ x \in {Same, None} \cup Content
         /\ p \in Differs(c) => x = FileAt(scratch[c], p) /\ x # Same
         /\ x = None => (base[p] = Dir /\ scratch[c][p] = None) \/ (p \in Differs(c) /\ base[p] # Dir)
         /\ x \notin {Same, None} => p \in Differs(c) /\ scratch[c][p].type = "file"
<1>1. x = IF p \in RemovedDirs(c) THEN None
          ELSE IF p \in Expanded(c) /\ FileAt(base, p) # FileAt(scratch[c], p) THEN FileAt(scratch[c], p) ELSE Same
  BY DEF Captured
<1>2. base[p] \in {None, Dir, Link} \cup Content /\ scratch[c][p] \in {None, Dir, Link} \cup Content
  BY BaseFiles, ScratchFiles
<1>3. /\ FileAt(scratch[c], p) \in {None} \cup Content /\ FileAt(scratch[c], p) # Same
      /\ FileAt(scratch[c], p) # None <=> scratch[c][p].type = "file"
      /\ FileAt(base, p) # None <=> base[p].type = "file"
  BY <1>2, FileAtIs
<1>4. p \in Differs(c) <=> FileAt(base, p) # FileAt(scratch[c], p)
  BY DEF Differs
<1>5. p \in Differs(c) => p \in Expanded(c) /\ p \notin RemovedDirs(c)
  BY DiffersExpanded
<1>6. p \in RemovedDirs(c) => base[p] = Dir /\ scratch[c][p] = None
  BY DEF RemovedDirs
<1>7. None # Same
  BY DEF None, Same
<1>8. p \in Differs(c) /\ x = None => base[p] # Dir
  <2>1. p \in Differs(c) /\ x = None => base[p].type = "file"
    BY <1>1, <1>3, <1>4, <1>5
  <2> QED BY <2>1 DEF Dir
<1> QED BY <1>1, <1>3, <1>4, <1>5, <1>6, <1>7, <1>8

LEMMA CapturedTyped == ASSUME DelegateTyped, Noticed, NEW c \in Child PROVE Captured(c) \in [Path -> {Same, None} \cup Content]
<1>1. \A p \in Path : Captured(c)[p] \in {Same, None} \cup Content
  BY CapturedIs
<1>2. Captured(c) = [p \in Path |-> Captured(c)[p]]
  BY DEF Captured
<1> QED BY <1>1, <1>2

----
(* Delegate: the steps of the children. *)

\* As long as the children work there is nothing to merge.
LEMMA NoneCounted == ASSUME Phases, call \in {"idle", "running"}, NEW c \in Child PROVE ~Counted(c)
BY DEF Phases, Counted, Active

LEMMA QuietStep ==
  ASSUME DelegateInv, call \in {"idle", "running"}, DelegateTyped', Noticed', CutTrue', Phases',
         UNCHANGED <<parent, base, edits, job>>, \A c \in Child : status'[c] # "applied"
  PROVE  DelegateInv'
<1>1. Phases /\ Traced /\ job = Idle /\ job' = Idle
  BY DEF DelegateInv, Phases
<1>2. Traced'
  <2>1. \A p \in Path : FileAt(parent, p) = IF p \in Edited THEN edits[p] ELSE FileAt(base, p)
    BY <1>1, NoneCounted DEF Traced
  <2>2. Edited' = Edited /\ \A p : FileAt(parent, p)' = FileAt(parent, p) /\ FileAt(base, p)' = FileAt(base, p)
    BY DEF Edited, FileAt
  <2> QED BY <2>1, <2>2 DEF Traced
<1>3. Disjoint' /\ Entered' /\ Whole'
  BY <1>1 DEF Disjoint, Entered, Whole
<1> QED BY <1>2, <1>3 DEF DelegateInv

LEMMA ChildChanges ==
  ASSUME DelegateInv, NEW c \in Child, MayChange(c), NEW t \in Tree, Tidy(t), NEW ps \in SUBSET Path, Changes(c, t, ps),
         \A p \in Path : t[p] = scratch[c][p] \/ \E q \in ps : p \in Subtree[q]
  PROVE  DelegateInv'
<1>1. call = "running" /\ status[c] = "running" /\ DelegateTyped /\ Noticed /\ CutTrue /\ Phases
  BY DEF MayChange, DelegateInv
<1>2. /\ scratch' = [scratch EXCEPT ![c] = t] /\ touched' = [touched EXCEPT ![c] = touched[c] \cup ps]
      /\ UNCHANGED <<parent, base, status, cut, call, turn, job, applied, edits>>
  BY DEF Changes
<1>3. /\ scratch' \in [Child -> Tree] /\ touched' \in [Child -> SUBSET Path]
      /\ scratch'[c] = t /\ touched'[c] = touched[c] \cup ps
      /\ \A d \in Child : d # c => scratch'[d] = scratch[d] /\ touched'[d] = touched[d]
  BY <1>1, <1>2 DEF DelegateTyped
<1>4. DelegateTyped'
  <2>1. \A d \in Child : Tidy(scratch'[d])
    <3>1. \A d \in Child : Tidy(scratch[d])
      BY <1>1 DEF DelegateTyped
    <3> QED BY <3>1, <1>3
  <2>2. \A u : Tidy(u)' = Tidy(u')
    BY DEF Tidy
  <2> QED BY <1>1, <1>2, <1>3, <2>1 DEF DelegateTyped, Tidy
<1>5. Noticed'
  <2>1. SUFFICES ASSUME NEW d \in Child, NEW p \in Path, scratch'[d][p] # base[p] PROVE \E q \in touched'[d] : p \in Subtree[q]
    BY <1>2 DEF Noticed
  <2>2. CASE scratch[d][p] # base[p]
    <3>1. PICK q \in touched[d] : p \in Subtree[q]
      BY <2>2, <1>1 DEF Noticed
    <3> QED BY <3>1, <1>3
  <2>3. CASE scratch[d][p] = base[p]
    <3>1. d = c /\ t[p] # scratch[c][p]
      BY <2>1, <2>3, <1>3
    <3>2. PICK q \in ps : p \in Subtree[q]
      BY <3>1
    <3> QED BY <3>1, <3>2, <1>3
  <2> QED BY <2>2, <2>3
<1>6. CutTrue'
  <2>1. SUFFICES ASSUME NEW d \in Child, status[d] \in {"done", "conflict", "applied"} PROVE cut[d] = Captured(d)'
    BY <1>2 DEF CutTrue
  <2>2. d # c /\ cut[d] = Captured(d)
    BY <2>1, <1>1 DEF CutTrue
  <2>3. scratch'[d] = scratch[d] /\ touched'[d] = touched[d] /\ base' = base
    BY <2>2, <1>2, <1>3
  <2> QED BY <2>2, <2>3 DEF Captured, RemovedDirs, Expanded, FilesUnder, FileAt
<1>7. Phases'
  BY <1>1, <1>2 DEF Phases
<1>8. \A d \in Child : status'[d] # "applied"
  BY <1>1, <1>2 DEF Phases
<1> QED BY <1>1, <1>2, <1>4, <1>5, <1>6, <1>7, <1>8, QuietStep

LEMMA WriteFileStep == ASSUME DelegateInv, NEW c \in Child, NEW p \in Path, WriteFile(c, p) PROVE DelegateInv'
<1> DEFINE u == [scratch[c] EXCEPT ![p] = File(c)]
<1>1. MayChange(c) /\ Open(scratch[c], p) /\ scratch[c][p].type \in {"none", "file"} /\ Changes(c, u, {p})
  BY DEF WriteFile
<1>2. scratch[c] \in Tree /\ Tidy(scratch[c]) /\ scratch[c][p] # Dir
  <2>1. scratch[c] \in Tree /\ Tidy(scratch[c])
    BY DEF DelegateInv, DelegateTyped
  <2> QED BY <2>1, <1>1 DEF Dir
<1>3. File(c) \in Content
  <2>1. c \in 0 .. NChild + 1
    BY DelegateAssumption DEF Child
  <2> QED BY <2>1 DEF Content
<1>4. u \in Tree /\ \A q \in Path : u[q] = IF q = p THEN File(c) ELSE scratch[c][q]
  BY <1>2, <1>3 DEF Tree
<1>5. Tidy(u)
  <2>1. \A q \in Above[p] : scratch[c][q] = Dir
    BY <1>1, <1>2, OpenPath
  <2> QED BY <2>1, <1>2, TidyPut
<1>6. \A q \in Path : u[q] = scratch[c][q] \/ \E r \in {p} : q \in Subtree[r]
  BY <1>4, OwnSubtree
<1> HIDE DEF u
<1> QED BY <1>1, <1>4, <1>5, <1>6, ChildChanges

LEMMA SymlinkStep == ASSUME DelegateInv, NEW c \in Child, NEW p \in Path, Symlink(c, p) PROVE DelegateInv'
<1> DEFINE u == [scratch[c] EXCEPT ![p] = Link]
<1>1. MayChange(c) /\ Open(scratch[c], p) /\ scratch[c][p] = None /\ Changes(c, u, {p})
  BY DEF Symlink
<1>2. scratch[c] \in Tree /\ Tidy(scratch[c]) /\ scratch[c][p] # Dir
  <2>1. scratch[c] \in Tree /\ Tidy(scratch[c])
    BY DEF DelegateInv, DelegateTyped
  <2> QED BY <2>1, <1>1 DEF Dir, None
<1>4. u \in Tree /\ \A q \in Path : u[q] = IF q = p THEN Link ELSE scratch[c][q]
  BY <1>2 DEF Tree
<1>5. Tidy(u)
  <2>1. \A q \in Above[p] : scratch[c][q] = Dir
    BY <1>1, <1>2, OpenPath
  <2> QED BY <2>1, <1>2, TidyPut
<1>6. \A q \in Path : u[q] = scratch[c][q] \/ \E r \in {p} : q \in Subtree[r]
  BY <1>4, OwnSubtree
<1> HIDE DEF u
<1> QED BY <1>1, <1>4, <1>5, <1>6, ChildChanges

LEMMA MkdirStep == ASSUME DelegateInv, NEW c \in Child, NEW p \in Path, Mkdir(c, p) PROVE DelegateInv'
<1> DEFINE u == WithDirs(scratch[c], p)
           ps == {q \in Above[p] \cup {p} : scratch[c][q] = None}
<1>1. MayChange(c) /\ scratch[c][p] = None /\ ~BlockedBy(scratch[c], p) /\ Changes(c, u, ps)
  BY DEF Mkdir
<1>2. scratch[c] \in Tree /\ Tidy(scratch[c])
  BY DEF DelegateInv, DelegateTyped
<1>3. u \in Tree /\ Tidy(u)
  BY <1>1, <1>2, TidyWithDirs
<1>4. ps \in SUBSET Path
  BY SubtreePaths
<1>5. ASSUME NEW q \in Path, u[q] # scratch[c][q] PROVE \E r \in ps : q \in Subtree[r]
  <2>1. p \in Subtree[q] /\ scratch[c][q] = None
    BY <1>5 DEF WithDirs
  <2>2. q \in ps
    BY <2>1, AboveIs
  <2> QED BY <2>2, OwnSubtree
<1> HIDE DEF u, ps
<1> QED BY <1>1, <1>3, <1>4, <1>5, ChildChanges

LEMMA RmStep == ASSUME DelegateInv, NEW c \in Child, NEW p \in Path, Rm(c, p) PROVE DelegateInv'
<1> DEFINE u == Removed(scratch[c], p)
<1>1. MayChange(c) /\ Changes(c, u, {p})
  BY DEF Rm
<1>2. scratch[c] \in Tree /\ Tidy(scratch[c])
  BY DEF DelegateInv, DelegateTyped
<1>3. u \in Tree /\ Tidy(u)
  BY <1>2, TidyRemoved
<1>4. \A q \in Path : u[q] = scratch[c][q] \/ \E r \in {p} : q \in Subtree[r]
  BY DEF Removed
<1> HIDE DEF u
<1> QED BY <1>1, <1>3, <1>4, ChildChanges

LEMMA RenameStep == ASSUME DelegateInv, NEW c \in Child, NEW p \in Path, NEW q \in Path, Rename(c, p, q) PROVE DelegateInv'
<1> DEFINE t == scratch[c]
           to == Landing(t, p, q)
           u == Removed(t, p)
           v == Grafted(u, t, p, to)
<1>1. /\ MayChange(c) /\ t[p] # None /\ Open(t, q) /\ Len(to) <= Depth /\ (t[p] = Dir => to \notin Beneath[p])
      /\ Changes(c, v, {p, to})
  BY DEF Rename
<1>2. t \in Tree /\ Tidy(t)
  BY DEF DelegateInv, DelegateTyped
<1>3. u \in Tree /\ Tidy(u)
  BY <1>2, TidyRemoved
<1>4. to \in Path /\ \A r \in Above[to] : t[r] = Dir
  BY <1>1, <1>2, LandingIs
<1> HIDE DEF to, t
<1>5. \A r \in Path : u[r] = IF r \in Subtree[p] THEN None ELSE t[r]
  BY DEF Removed
<1> HIDE DEF u
<1>6. ASSUME NEW r \in Above[to] PROVE u[r] = Dir
  <2>1. r \in Path /\ to \in Subtree[r] /\ to # r /\ t[r] = Dir
    BY <1>4, AboveIs
  <2>2. SUFFICES ASSUME r \in Subtree[p] PROVE FALSE
    BY <2>1, <1>5
  <2>3. to \in Beneath[p]
    <3>1. to \in Subtree[p]
      BY <2>1, <2>2, <1>4, SubtreeTrans
    <3>2. to # p
      BY <2>1, <2>2, <1>4, SubtreeAnti
    <3> QED BY <3>1, <3>2, <1>4, BeneathIs
  <2>4. t[p] # Dir
    BY <2>3, <1>1
  <2>5. r = p \/ t[r] = None
    BY <2>2, <2>4, <1>2, NothingBeneath
  <2> QED BY <2>1, <2>4, <2>5 DEF Dir, None
<1>7. v \in Tree /\ Tidy(v)
  BY <1>2, <1>3, <1>4, <1>6, TidyGrafted
<1>8. ASSUME NEW r \in Path, v[r] # t[r] PROVE \E x \in {p, to} : r \in Subtree[x]
  <2>1. r \in Subtree[to] \/ v[r] = u[r]
    BY DEF Grafted
  <2> QED BY <2>1, <1>5, <1>8
<1> HIDE DEF v
<1> QED BY <1>1, <1>4, <1>7, <1>8, ChildChanges DEF t

LEMMA CopyStep == ASSUME DelegateInv, NEW c \in Child, NEW p \in Path, NEW q \in Path, Copy(c, p, q) PROVE DelegateInv'
<1> DEFINE t == scratch[c]
           to == Landing(t, p, q)
           v == Grafted(t, t, p, to)
<1>1. MayChange(c) /\ Open(t, q) /\ Len(to) <= Depth /\ Changes(c, v, {to})
  BY DEF Copy
<1>2. t \in Tree /\ Tidy(t)
  BY DEF DelegateInv, DelegateTyped
<1>4. to \in Path /\ \A r \in Above[to] : t[r] = Dir
  BY <1>1, <1>2, LandingIs
<1> HIDE DEF to, t
<1>7. v \in Tree /\ Tidy(v)
  BY <1>2, <1>4, TidyGrafted
<1>8. \A r \in Path : v[r] = t[r] \/ \E x \in {to} : r \in Subtree[x]
  BY DEF Grafted
<1> HIDE DEF v
<1> QED BY <1>1, <1>4, <1>7, <1>8, ChildChanges DEF t

LEMMA ChildEndsStep == ASSUME DelegateInv, NEW c \in Child, ChildEnds(c) PROVE DelegateInv'
<1>1. call = "running" /\ status[c] = "running" /\ DelegateTyped /\ Noticed /\ CutTrue /\ Phases
  BY DEF ChildEnds, DelegateInv
<1> DEFINE linked == \E p \in Expanded(c) : scratch[c][p] = Link
<1>2. PICK end \in {"done", "unfinished"} :
        /\ status' = [status EXCEPT ![c] = IF linked THEN "error" ELSE end]
        /\ cut' = [cut EXCEPT ![c] = IF linked THEN cut[c] ELSE Captured(c)]
        /\ UNCHANGED <<parent, base, scratch, touched, call, turn, job, applied, edits>>
  BY DEF ChildEnds
<1> HIDE DEF linked
<1>3. Captured(c) \in [Path -> {Same, None} \cup Content]
  BY <1>1, CapturedTyped
<1>4. /\ status' \in [Child -> {"running", "done", "unfinished", "error", "conflict", "applied"}]
      /\ status'[c] = IF linked THEN "error" ELSE end
      /\ \A d \in Child : d # c => status'[d] = status[d]
  BY <1>1, <1>2 DEF DelegateTyped
<1>5. /\ cut' \in [Child -> [Path -> {Same, None} \cup Content]]
      /\ cut'[c] = IF linked THEN cut[c] ELSE Captured(c)
      /\ \A d \in Child : d # c => cut'[d] = cut[d]
  BY <1>1, <1>2, <1>3 DEF DelegateTyped
<1>6. DelegateTyped' /\ Noticed'
  BY <1>1, <1>2, <1>4, <1>5 DEF DelegateTyped, Noticed, Tidy
<1>7. CutTrue'
  <2>1. \A d \in Child : Captured(d)' = Captured(d)
    BY <1>2 DEF Captured, RemovedDirs, Expanded, FilesUnder, FileAt
  <2>2. SUFFICES ASSUME NEW d \in Child, status'[d] \in {"done", "conflict", "applied"} PROVE cut'[d] = Captured(d)
    BY <2>1 DEF CutTrue
  <2>3. CASE d = c
    BY <2>2, <2>3, <1>4, <1>5
  <2>4. CASE d # c
    BY <2>2, <2>4, <1>1, <1>4, <1>5 DEF CutTrue
  <2> QED BY <2>3, <2>4
<1>8. \A d \in Child : status'[d] \notin {"applied", "conflict"}
  BY <1>1, <1>4 DEF Phases
<1>9. Phases'
  BY <1>1, <1>2, <1>8 DEF Phases, Idle
<1> QED BY <1>1, <1>2, <1>6, <1>7, <1>8, <1>9, QuietStep

----
(* Delegate: the steps of the merge. *)

\* What was captured of a child that ended well.
LEMMA CutIs ==
  ASSUME DelegateInv, NEW c \in Child, status[c] \in {"done", "conflict", "applied"}, NEW p \in Path
  PROVE  /\ p \in Differs(c) => cut[c][p] = FileAt(scratch[c], p) /\ p \in Changed(c)
         /\ cut[c][p] = None => (base[p] = Dir /\ scratch[c][p] = None) \/ (p \in Differs(c) /\ base[p] # Dir)
         /\ cut[c][p] \notin {Same, None} => p \in Differs(c) /\ scratch[c][p].type = "file"
<1>1. DelegateTyped /\ Noticed /\ cut[c] = Captured(c)
  BY DEF DelegateInv, CutTrue
<1> DEFINE x == cut[c][p]
<1>2. x = Captured(c)[p]
  BY <1>1
<1> HIDE DEF x
<1>3. /\ p \in Differs(c) => x = FileAt(scratch[c], p) /\ x # Same
      /\ x = None => (base[p] = Dir /\ scratch[c][p] = None) \/ (p \in Differs(c) /\ base[p] # Dir)
      /\ x \notin {Same, None} => p \in Differs(c) /\ scratch[c][p].type = "file"
  BY <1>1, <1>2, CapturedIs
<1> QED BY <1>3 DEF x, Changed

\* A step within the work on one child.
Within ==
    /\ call = "merging" /\ call' \in {"merging", "failed"} /\ job # Idle /\ job' # Idle
    /\ UNCHANGED <<base, scratch, touched, status, cut, turn, edits>>

LEMMA WithinIs ==
  ASSUME Within
  PROVE  /\ Edited' = Edited /\ \A c : Differs(c)' = Differs(c) /\ Changed(c)' = Changed(c) /\ (Counted(c)' <=> Counted(c))
         /\ \A c, d : Apart(c, d)' <=> Apart(c, d)
         /\ \A c, p : (Over(c, p)' <=> Over(c, p)) /\ FileAt(base, p)' = FileAt(base, p) /\ FileAt(scratch[c], p)' = FileAt(scratch[c], p)
<1>1. UNCHANGED <<base, scratch, status, cut, turn, edits>> /\ job # Idle /\ job' # Idle
  BY DEF Within
<1>2. Edited' = Edited /\ \A c : Changed(c)' = Changed(c)
  BY <1>1 DEF Edited, Changed
<1>3. \A t, p : FileAt(t, p)' = FileAt(t', p)
  BY DEF FileAt
<1>4. \A c, p : FileAt(base, p)' = FileAt(base, p) /\ FileAt(scratch[c], p)' = FileAt(scratch[c], p)
  BY <1>1 DEF FileAt
<1>5. \A c : Differs(c)' = Differs(c)
  BY <1>4 DEF Differs
<1>6. \A c : Counted(c)' <=> Counted(c)
  BY <1>1 DEF Counted, Active
<1>7. \A c, d : Apart(c, d)' <=> Apart(c, d)
  BY <1>1, <1>2 DEF Apart
<1>8. \A c, p : Over(c, p)' <=> Over(c, p)
  BY <1>1, <1>5, <1>6 DEF Over
<1> QED BY <1>2, <1>4, <1>5, <1>6, <1>7, <1>8

LEMMA WithinStep ==
  ASSUME DelegateInv, Within, parent' \in Tree, job' \in Job, applied' \in SUBSET Path, Phases', Traced', Entered', Whole'
  PROVE  DelegateInv'
<1>1. UNCHANGED <<base, scratch, touched, status, cut, turn, edits>> /\ call' \in {"merging", "failed"}
  BY DEF Within
<1>2. DelegateTyped' /\ Noticed'
  BY <1>1 DEF DelegateInv, DelegateTyped, Noticed, Tidy
<1>3. CutTrue'
  <2>1. \A d : Captured(d)' = Captured(d)
    BY <1>1 DEF Captured, RemovedDirs, Expanded, FilesUnder, FileAt
  <2> QED BY <2>1, <1>1 DEF DelegateInv, CutTrue
<1>4. Disjoint'
  BY <1>1, WithinIs DEF DelegateInv, Disjoint
<1> QED BY <1>2, <1>3, <1>4 DEF DelegateInv

\* What the child in hand explains, and what would be at a path without the call.
Alone(p) == IF p \in Edited THEN edits[p] ELSE FileAt(base, p)
Explained(p) == \E q \in Changed(turn) : IF p \in Edited THEN p \in Subtree[q] ELSE q = p /\ p \in Differs(turn)

LEMMA TracedKept ==
  ASSUME DelegateInv, Within,
         \A p \in Path : FileAt(parent', p) = FileAt(parent, p) \/ FileAt(parent', p) = Alone(p) \/ Explained(p)
  PROVE  Traced'
<1>1. Edited' = Edited /\ edits' = edits /\ \A p : FileAt(base, p)' = FileAt(base, p) /\ FileAt(parent, p)' = FileAt(parent', p)
  <2>1. \A p : FileAt(parent, p)' = FileAt(parent', p)
    BY DEF FileAt
  <2> QED BY <2>1, WithinIs DEF Within
<1>2. SUFFICES ASSUME NEW p \in Path, FileAt(parent', p) # Alone(p)
               PROVE  \E c \in Child : Counted(c)' /\ \E q \in Changed(c)' :
                         IF p \in Edited THEN p \in Subtree[q] ELSE q = p /\ p \in Differs(c)'
  BY <1>1 DEF Traced, Alone
<1>3. SUFFICES \E c \in Child : Counted(c) /\ \E q \in Changed(c) : IF p \in Edited THEN p \in Subtree[q] ELSE q = p /\ p \in Differs(c)
  BY WithinIs
<1>4. CASE Explained(p)
  <2>1. turn \in Child /\ Counted(turn)
    BY DEF DelegateInv, Phases, Counted, Active, Within
  <2> QED BY <2>1, <1>4 DEF Explained
<1>5. CASE FileAt(parent', p) = FileAt(parent, p)
  BY <1>2, <1>5 DEF DelegateInv, Traced, Alone
<1> QED BY <1>2, <1>4, <1>5

\* The work of the children applied, and of the one in hand, after a step.
LEMMA WholeKept ==
  ASSUME DelegateInv, Within,
         Edited = {} => \A c \in Child : \A p \in Differs(c) : status[c] = "applied" =>
             FileAt(parent', p) = FileAt(parent, p) \/ Over(c, p),
         Edited = {} => \A p \in Differs(turn) \ (job'.rm \cup job'.put) : FileAt(parent', p) = FileAt(scratch[turn], p)
  PROVE  Whole'
<1>1. /\ Edited' = Edited /\ status' = status /\ turn' = turn /\ call = "merging"
      /\ \A c, p : FileAt(parent, p)' = FileAt(parent', p) /\ FileAt(scratch[c], p)' = FileAt(scratch[c], p)
      /\ \A c : Differs(c)' = Differs(c) /\ \A p : Over(c, p)' <=> Over(c, p)
  <2>1. \A p : FileAt(parent, p)' = FileAt(parent', p)
    BY DEF FileAt
  <2> QED BY <2>1, WithinIs DEF Within
<1> QED BY <1>1 DEF DelegateInv, Whole

\* A path of the child in hand is removed, with what is beneath it.
LEMMA RemovalTraced ==
  ASSUME DelegateInv, Within, NEW p \in Changed(turn), parent' = Removed(parent, p)
  PROVE  Traced'
<1>1. turn \in Child /\ status[turn] = "done" /\ DelegateTyped
  BY DEF DelegateInv, Phases, Within
<1>2. p \in Path /\ cut[turn][p] # Same
  BY DEF Changed
<1>3. SUFFICES ASSUME NEW r \in Path, FileAt(parent', r) # FileAt(parent, r), FileAt(parent', r) # Alone(r) PROVE Explained(r)
  BY TracedKept
<1>4. r \in Subtree[p] /\ FileAt(parent', r) = None
  <2>1. parent'[r] = IF r \in Subtree[p] THEN None ELSE parent[r]
    BY DEF Removed
  <2> QED BY <2>1, <1>3 DEF FileAt
<1>5. CASE r \in Edited
  BY <1>4, <1>5 DEF Explained
<1>6. CASE r \notin Edited
  <2>1. FileAt(base, r) # None
    BY <1>3, <1>4, <1>6 DEF Alone
  <2>2. base[r] # None /\ base[r] # Dir
    BY <2>1, <1>1, BaseFiles, FileAtIs
  <2>3. r \in Differs(turn)
    <3>1. CASE r = p
      <4>1. ~(base[p] = Dir /\ scratch[turn][p] = None)
        BY <3>1, <2>2
      <4> QED BY <3>1, <4>1, <1>1, <1>2, CutIs
    <3>2. CASE r # p
      <4>1. base[p] = Dir
        BY <3>2, <1>1, <1>2, <1>4, <2>2, NothingBeneath DEF DelegateTyped
      <4>2. scratch[turn][p] # Dir
        BY <4>1, <1>1, <1>2, CutIs DEF Dir, None
      <4>3. scratch[turn][r] = None
        BY <4>2, <3>2, <1>1, <1>2, <1>4, NothingBeneath DEF DelegateTyped
      <4> QED BY <4>3, <2>1 DEF FileAt, Differs, None
    <3> QED BY <3>1, <3>2
  <2>4. r \in Changed(turn)
    BY <2>3, <1>1, CutIs
  <2> QED BY <2>3, <2>4, <1>6 DEF Explained
<1> QED BY <1>5, <1>6

LEMMA RemovalWhole ==
  ASSUME DelegateInv, Within, NEW p \in Changed(turn), parent' = Removed(parent, p),
         NEW c \in Child, status[c] = "applied", NEW r \in Differs(c)
  PROVE  FileAt(parent', r) = FileAt(parent, r) \/ Over(c, r)
<1>1. turn \in Child /\ status[turn] = "done" /\ c < turn /\ Counted(turn) /\ Apart(c, turn)
  BY DEF DelegateInv, Phases, Within, Counted, Active, Disjoint
<1>2. p \in Path /\ cut[turn][p] # Same /\ r \in Path
  BY DEF Changed, Differs
<1>3. r \in Changed(c)
  BY <1>2, CutIs
<1>4. SUFFICES ASSUME r \in Subtree[p] PROVE Over(c, r)
  <2>1. parent'[r] = IF r \in Subtree[p] THEN None ELSE parent[r]
    BY <1>2 DEF Removed
  <2> QED BY <2>1 DEF FileAt
<1>5. r # p /\ (cut[turn][p] = None => r \notin Beneath[p])
  BY <1>1, <1>3 DEF Apart
<1>6. r \in Beneath[p] /\ p \in Above[r]
  BY <1>2, <1>4, <1>5, BeneathIs, AboveIs
<1>7. p \in Differs(turn) /\ scratch[turn][p].type = "file"
  BY <1>1, <1>2, <1>5, <1>6, CutIs
<1> QED BY <1>1, <1>6, <1>7 DEF Over

LEMMA RemovedTyped == ASSUME DelegateInv, NEW p \in Path PROVE Removed(parent, p) \in Tree
BY DEF DelegateInv, DelegateTyped, Tree, Removed

LEMMA JobTyped == ASSUME DelegateInv PROVE job.rm \in SUBSET Path /\ job.put \in SUBSET Path /\ job = [rm |-> job.rm, put |-> job.put, at |-> job.at, step |-> job.step]
BY DEF DelegateInv, DelegateTyped, Job

LEMMA ApplyDeleteStep == ASSUME DelegateInv, NEW p \in Path, ApplyDelete(p) PROVE DelegateInv'
<1> DEFINE throws == BlockedBy(parent, p)
<1>1. /\ job.step = "delete" /\ p \in job.rm /\ call = "merging" /\ call' = IF throws THEN "failed" ELSE call
      /\ parent' = IF throws THEN parent ELSE Removed(parent, p)
      /\ applied' = IF throws THEN applied ELSE applied \cup {p}
      /\ UNCHANGED <<base, scratch, touched, status, cut, turn, edits>>
      /\ job' = [job EXCEPT !.rm = job.rm \ {p}]
  BY DEF ApplyDelete, Deletable, Calls
<1> HIDE DEF throws
<1>2. /\ DelegateTyped /\ Phases /\ job.rm \in SUBSET Path /\ job.put \in SUBSET Path
      /\ job = [rm |-> job.rm, put |-> job.put, at |-> job.at, step |-> job.step] /\ job.at \in Path \cup {<<>>}
  BY JobTyped DEF DelegateInv, DelegateTyped, Job
<1>3. job' = [rm |-> job.rm \ {p}, put |-> job.put, at |-> job.at, step |-> "delete"]
  BY <1>1, <1>2
<1>4. job # Idle /\ job' # Idle /\ job'.rm = job.rm \ {p} /\ job'.put = job.put /\ job'.step = "delete" /\ job' \in Job
  BY <1>1, <1>2, <1>3 DEF Idle, Job
<1>5. Within
  BY <1>1, <1>4 DEF Within
<1>6. /\ turn \in Child /\ status[turn] = "done" /\ cut[turn][p] = None
      /\ \A q \in job.put : cut[turn][q] \notin {Same, None}
      /\ \A q \in Path : cut[turn][q] \notin {Same, None} => q \in job.put
  BY <1>1, <1>2, <1>4 DEF Phases
<1>7. p \in Changed(turn)
  BY <1>6 DEF Changed, Same, None
<1>8. parent' \in Tree /\ applied' \in SUBSET Path
  BY <1>1, <1>2, RemovedTyped DEF DelegateTyped
<1>9. Phases'
  BY <1>1, <1>2, <1>4, <1>6 DEF Phases
<1>10. Traced'
  <2>1. CASE throws
    BY <2>1, <1>1, <1>5, TracedKept
  <2>2. CASE ~throws
    BY <2>2, <1>1, <1>5, <1>7, RemovalTraced
  <2> QED BY <2>1, <2>2
<1>11. Entered'
  <2>1. Changed(turn) \subseteq applied \cup job.rm \cup job.put /\ \A c \in Child : status[c] = "applied" => Changed(c) \subseteq applied
    BY <1>1, <1>4 DEF DelegateInv, Entered
  <2>2. \A c : Changed(c)' = Changed(c)
    BY <1>5, WithinIs
  <2>3. call' = "merging" => applied' = applied \cup {p}
    BY <1>1
  <2>4. call' \in {"merging", "reported"} => call' = "merging"
    BY <1>5 DEF Within
  <2>5. call' = "merging" => Changed(turn)' \subseteq applied' \cup job'.rm \cup job'.put
    BY <2>1, <2>2, <2>3, <1>1, <1>4
  <2>6. call' = "merging" => \A c \in Child : status'[c] = "applied" => Changed(c)' \subseteq applied'
    BY <2>1, <2>2, <2>3, <1>1
  <2> QED BY <2>4, <2>5, <2>6 DEF Entered
<1>12. Whole'
  <2>1. CASE throws
    BY <2>1, <1>1 DEF Whole
  <2>2. CASE ~throws
    <3>1. parent' = Removed(parent, p)
      BY <2>2, <1>1
    <3>2. ASSUME NEW c \in Child, status[c] = "applied", NEW r \in Differs(c)
          PROVE  FileAt(parent', r) = FileAt(parent, r) \/ Over(c, r)
      BY <3>1, <3>2, <1>5, <1>7, RemovalWhole
    <3>3. ASSUME Edited = {}, NEW r \in Differs(turn) \ (job'.rm \cup job'.put)
          PROVE  FileAt(parent', r) = FileAt(scratch[turn], r)
      <4>1. r \in Path /\ r \notin job.put /\ (r = p \/ r \notin job.rm)
        BY <3>3, <1>4 DEF Differs
      <4>2. parent'[r] = IF r \in Subtree[p] THEN None ELSE parent[r]
        BY <3>1, <4>1 DEF Removed
      <4>3. CASE r \in Subtree[p]
        <5>1. FileAt(parent', r) = None
          BY <4>2, <4>3 DEF FileAt
        <5>2. cut[turn][r] = FileAt(scratch[turn], r) /\ r \in Changed(turn)
          BY <3>3, <4>1, <1>6, CutIs
        <5>3. cut[turn][r] = None
          BY <5>2, <4>1, <1>6 DEF Changed
        <5> QED BY <5>1, <5>2, <5>3
      <4>4. CASE r \notin Subtree[p]
        <5>1. r \notin job.rm \cup job.put /\ FileAt(parent', r) = FileAt(parent, r)
          BY <4>1, <4>2, <4>4, OwnSubtree DEF FileAt
        <5>2. FileAt(parent, r) = FileAt(scratch[turn], r)
          BY <5>1, <3>3, <1>1, <1>4 DEF DelegateInv, Whole
        <5> QED BY <5>1, <5>2
      <4> QED BY <4>3, <4>4
    <3> QED BY <3>2, <3>3, <1>5, WholeKept
  <2> QED BY <2>1, <2>2
<1> QED BY <1>4, <1>5, <1>8, <1>9, <1>10, <1>11, <1>12, WithinStep

\* What a step enters leaves the job.
LEMMA EnteredKept ==
  ASSUME DelegateInv, Within,
         call' = "merging" => applied \subseteq applied' /\ job.rm \cup job.put \subseteq applied' \cup job'.rm \cup job'.put
  PROVE  Entered'
<1>1. Changed(turn) \subseteq applied \cup job.rm \cup job.put /\ \A c \in Child : status[c] = "applied" => Changed(c) \subseteq applied
  BY DEF DelegateInv, Entered, Within
<1>2. \A c : Changed(c)' = Changed(c)
  BY WithinIs
<1>3. call' \in {"merging", "reported"} => call' = "merging"
  BY DEF Within
<1>4. turn' = turn /\ status' = status
  BY DEF Within
<1>5. call' = "merging" => Changed(turn') \subseteq applied' \cup job'.rm \cup job'.put
  BY <1>1, <1>4
<1>6. call' = "merging" => \A c \in Child : status[c] = "applied" => Changed(c) \subseteq applied'
  BY <1>1
<1>7. Changed(turn)' = Changed(turn)
  BY <1>2, <1>4 DEF Changed, Within
<1> QED BY <1>2, <1>3, <1>4, <1>5, <1>6, <1>7 DEF Entered

\* A step that leaves the files of the workspace alone.
LEMMA FilesAlone ==
  ASSUME DelegateInv, Within, \A r \in Path : FileAt(parent', r) = FileAt(parent, r),
         job.rm \cup job.put = job'.rm \cup job'.put
  PROVE  Traced' /\ Whole'
<1>1. Traced'
  BY TracedKept
<1>2. \A c : Differs(c) \subseteq Path
  BY DEF Differs
<1>3. \A c \in Child : \A p \in Differs(c) : FileAt(parent', p) = FileAt(parent, p)
  BY <1>2
<1>4. Edited = {} => \A p \in Differs(turn) \ (job'.rm \cup job'.put) : FileAt(parent', p) = FileAt(scratch[turn], p)
  BY <1>2 DEF DelegateInv, Whole, Within
<1> QED BY <1>1, <1>3, <1>4, WholeKept

LEMMA DirsOnly ==
  ASSUME NEW t \in Tree, NEW p
  PROVE  WithDirs(t, p) \in Tree /\ \A r \in Path : FileAt(WithDirs(t, p), r) = FileAt(t, r)
<1>1. \A r \in Path : WithDirs(t, p)[r] = IF p \in Subtree[r] /\ t[r] = None THEN Dir ELSE t[r]
  BY DEF WithDirs
<1>2. WithDirs(t, p) \in Tree
  BY DEF WithDirs, Tree
<1>3. \A r \in Path : FileAt(WithDirs(t, p), r) = FileAt(t, r)
  BY <1>1 DEF FileAt, Dir, None
<1> QED BY <1>2, <1>3

LEMMA ApplyMkdirStep == ASSUME DelegateInv, NEW p \in Path, ApplyMkdir(p) PROVE DelegateInv'
<1>1. /\ job.step = "delete" /\ job.rm = {} /\ p \in job.put /\ call = "merging"
      /\ call' \in {"merging", "failed"} /\ (parent' = parent \/ parent' = WithDirs(parent, Front(p))) /\ applied' = applied
      /\ UNCHANGED <<base, scratch, touched, status, cut, turn, edits>>
      /\ job' = [job EXCEPT !.at = p, !.step = "stat"]
  BY DEF ApplyMkdir, Writable, Calls
<1>2. /\ DelegateTyped /\ Phases /\ job.put \in SUBSET Path
      /\ job = [rm |-> job.rm, put |-> job.put, at |-> job.at, step |-> job.step]
  BY JobTyped DEF DelegateInv
<1>3. job' = [rm |-> job.rm, put |-> job.put, at |-> p, step |-> "stat"]
  BY <1>1, <1>2
<1>4. job # Idle /\ job' # Idle /\ job'.rm = job.rm /\ job'.put = job.put /\ job'.at = p /\ job'.step = "stat" /\ job' \in Job
  BY <1>1, <1>2, <1>3 DEF Idle, Job
<1>5. Within
  BY <1>1, <1>4 DEF Within
<1>6. parent' \in Tree /\ \A r \in Path : FileAt(parent', r) = FileAt(parent, r)
  <2>1. parent \in Tree
    BY <1>2 DEF DelegateTyped
  <2> QED BY <2>1, <1>1, DirsOnly
<1>7. Phases'
  BY <1>1, <1>2, <1>4 DEF Phases
<1>8. Traced' /\ Whole'
  BY <1>4, <1>5, <1>6, FilesAlone
<1>9. Entered'
  BY <1>1, <1>4, <1>5, EnteredKept
<1>10. applied' \in SUBSET Path
  BY <1>1, <1>2 DEF DelegateTyped
<1> QED BY <1>4, <1>5, <1>6, <1>7, <1>8, <1>9, <1>10, WithinStep

LEMMA ApplyStatStep == ASSUME DelegateInv, ApplyStat PROVE DelegateInv'
<1>1. /\ job.step = "stat" /\ call = "merging" /\ call' = call /\ parent' = parent /\ applied' = applied
      /\ UNCHANGED <<base, scratch, touched, status, cut, turn, edits>>
  BY DEF ApplyStat, Calls
<1>2. PICK step \in {"clear", "write"} : job' = [job EXCEPT !.step = step]
  BY DEF ApplyStat
<1>3. /\ DelegateTyped /\ Phases /\ job.put \in SUBSET Path /\ job.rm \in SUBSET Path /\ job.at \in Path \cup {<<>>}
      /\ job = [rm |-> job.rm, put |-> job.put, at |-> job.at, step |-> job.step]
  BY JobTyped DEF DelegateInv, DelegateTyped, Job
<1>4. job' = [rm |-> job.rm, put |-> job.put, at |-> job.at, step |-> step]
  BY <1>2, <1>3
<1>5. /\ job # Idle /\ job' # Idle /\ job'.rm = job.rm /\ job'.put = job.put /\ job'.at = job.at /\ job'.step \in {"clear", "write"}
      /\ job' \in Job
  BY <1>1, <1>3, <1>4 DEF Idle, Job
<1>6. Within
  BY <1>1, <1>5 DEF Within
<1>7. Phases'
  BY <1>1, <1>3, <1>5 DEF Phases
<1>8. Traced' /\ Whole'
  BY <1>1, <1>5, <1>6, FilesAlone
<1>9. Entered'
  BY <1>1, <1>5, <1>6, EnteredKept
<1>10. applied' \in SUBSET Path /\ parent' \in Tree
  BY <1>1, <1>3 DEF DelegateTyped
<1> QED BY <1>5, <1>6, <1>7, <1>8, <1>9, <1>10, WithinStep

LEMMA ApplyClearStep == ASSUME DelegateInv, ApplyClear PROVE DelegateInv'
<1> DEFINE p == job.at
           throws == BlockedBy(parent, p)
<1>1. /\ job.step = "clear" /\ call = "merging" /\ call' = IF throws THEN "failed" ELSE call
      /\ parent' = IF throws THEN parent ELSE Removed(parent, p)
      /\ applied' = applied
      /\ UNCHANGED <<base, scratch, touched, status, cut, turn, edits>>
      /\ job' = [job EXCEPT !.step = "write"]
  BY DEF ApplyClear, Calls
<1> HIDE DEF throws
<1>2. /\ DelegateTyped /\ Phases /\ job.put \in SUBSET Path /\ job.rm \in SUBSET Path
      /\ job = [rm |-> job.rm, put |-> job.put, at |-> job.at, step |-> job.step]
  BY JobTyped DEF DelegateInv
<1>3. job' = [rm |-> job.rm, put |-> job.put, at |-> p, step |-> "write"]
  BY <1>1, <1>2
<1>4. job.rm = {} /\ p \in job.put /\ p \in Path
  BY <1>1, <1>2 DEF Phases
<1>5. job # Idle /\ job' # Idle /\ job'.rm = job.rm /\ job'.put = job.put /\ job'.at = p /\ job'.step = "write" /\ job' \in Job
  BY <1>1, <1>2, <1>3, <1>4 DEF Idle, Job
<1>6. Within
  BY <1>1, <1>5 DEF Within
<1>7. Phases'
  BY <1>1, <1>2, <1>4, <1>5 DEF Phases
<1>8. Entered'
  BY <1>1, <1>5, <1>6, EnteredKept
<1>9. applied' \in SUBSET Path /\ parent' \in Tree
  BY <1>1, <1>2, <1>4, RemovedTyped DEF DelegateTyped
<1>10. turn \in Child /\ status[turn] = "done" /\ cut[turn][p] \notin {Same, None}
  BY <1>2, <1>4, <1>5 DEF Phases
<1>11. p \in Changed(turn)
  BY <1>10, <1>4 DEF Changed
<1> HIDE DEF p
<1>12. Traced' /\ Whole'
  <2>1. CASE throws
    BY <2>1, <1>1, <1>5, <1>6, FilesAlone
  <2>2. CASE ~throws
    <3>1. parent' = Removed(parent, p)
      BY <2>2, <1>1
    <3>2. ASSUME NEW c \in Child, status[c] = "applied", NEW r \in Differs(c)
          PROVE  FileAt(parent', r) = FileAt(parent, r) \/ Over(c, r)
      BY <3>1, <3>2, <1>6, <1>11, RemovalWhole
    <3>3. ASSUME Edited = {}, NEW r \in Differs(turn) \ (job'.rm \cup job'.put)
          PROVE  FileAt(parent', r) = FileAt(scratch[turn], r)
      <4>1. r \in Path /\ r \notin job.rm \cup job.put /\ r # p
        BY <3>3, <1>4, <1>5 DEF Differs
      <4>2. parent'[r] = IF r \in Subtree[p] THEN None ELSE parent[r]
        BY <3>1, <4>1 DEF Removed
      <4>3. CASE r \in Subtree[p]
        <5>1. scratch[turn][p] # Dir
          <6>1. scratch[turn][p].type = "file"
            BY <1>4, <1>10, CutIs
          <6> QED BY <6>1 DEF Dir
        <5>2. scratch[turn][r] = None
          BY <5>1, <4>1, <4>3, <1>2, <1>4, <1>10, NothingBeneath DEF DelegateTyped
        <5> QED BY <5>2, <4>2, <4>3 DEF FileAt
      <4>4. CASE r \notin Subtree[p]
        <5>1. FileAt(parent', r) = FileAt(parent, r)
          BY <4>2, <4>4 DEF FileAt
        <5>2. FileAt(parent, r) = FileAt(scratch[turn], r)
          BY <4>1, <3>3, <1>1, <1>5 DEF DelegateInv, Whole
        <5> QED BY <5>1, <5>2
      <4> QED BY <4>3, <4>4
    <3>4. Whole'
      BY <3>2, <3>3, <1>6, WholeKept
    <3>5. Traced'
      BY <3>1, <1>6, <1>11, RemovalTraced
    <3> QED BY <3>4, <3>5
  <2> QED BY <2>1, <2>2
<1> QED BY <1>5, <1>6, <1>7, <1>8, <1>9, <1>12, WithinStep

LEMMA ApplyWriteStep == ASSUME DelegateInv, ApplyWrite PROVE DelegateInv'
<1> DEFINE p == job.at
           throws == ~Open(parent, p) \/ parent[p] = Dir
           x == cut[turn][p]
<1>1. /\ job.step = "write" /\ call = "merging" /\ call' = IF throws THEN "failed" ELSE call
      /\ parent' = IF throws THEN parent ELSE [parent EXCEPT ![p] = x]
      /\ applied' = IF throws THEN applied ELSE applied \cup {p}
      /\ UNCHANGED <<base, scratch, touched, status, cut, turn, edits>>
      /\ job' = [job EXCEPT !.put = job.put \ {p}, !.at = <<>>, !.step = "delete"]
  BY DEF ApplyWrite, Calls
<1> HIDE DEF throws
<1>2. /\ DelegateTyped /\ Phases /\ job.put \in SUBSET Path /\ job.rm \in SUBSET Path
      /\ job = [rm |-> job.rm, put |-> job.put, at |-> job.at, step |-> job.step]
  BY JobTyped DEF DelegateInv
<1>3. job' = [rm |-> job.rm, put |-> job.put \ {p}, at |-> <<>>, step |-> "delete"]
  BY <1>1, <1>2
<1>4. job.rm = {} /\ p \in job.put /\ p \in Path
  BY <1>1, <1>2 DEF Phases
<1>5. job # Idle /\ job' # Idle /\ job'.rm = job.rm /\ job'.put = job.put \ {p} /\ job'.step = "delete" /\ job' \in Job
  BY <1>1, <1>2, <1>3, <1>4 DEF Idle, Job
<1>6. Within
  BY <1>1, <1>5 DEF Within
<1>7. Phases'
  BY <1>1, <1>2, <1>4, <1>5 DEF Phases
<1>8. Entered'
  BY <1>1, <1>4, <1>5, <1>6, EnteredKept
<1>10. turn \in Child /\ status[turn] = "done" /\ x \notin {Same, None}
  BY <1>2, <1>4, <1>5 DEF Phases
<1>11. /\ p \in Changed(turn) /\ p \in Differs(turn) /\ x = FileAt(scratch[turn], p) /\ x \in Content
  BY <1>2, <1>10, <1>4, CutIs DEF Changed, DelegateTyped
<1> HIDE DEF p, x
<1>9. applied' \in SUBSET Path /\ parent' \in Tree
  BY <1>1, <1>2, <1>4, <1>11 DEF DelegateTyped, Tree
<1>12. ~throws => \A r \in Path : FileAt(parent', r) = IF r = p THEN x ELSE FileAt(parent, r)
  <2>1. ~throws => \A r \in Path : parent'[r] = IF r = p THEN x ELSE parent[r]
    BY <1>1, <1>2 DEF DelegateTyped, Tree
  <2>2. x.type = "file"
    <3>1. \A y \in Content : y.type = "file"
      BY DEF Content, File
    <3> QED BY <3>1, <1>11, Zenon
  <2> QED BY <2>1, <2>2 DEF FileAt
<1>13. Traced'
  <2>1. Explained(p)
    BY <1>4, <1>11, OwnSubtree DEF Explained
  <2>2. \A r \in Path : FileAt(parent', r) = FileAt(parent, r) \/ Explained(r)
    BY <2>1, <1>1, <1>12
  <2> QED BY <2>2, <1>6, TracedKept
<1>14. Whole'
  <2>1. CASE throws
    BY <2>1, <1>1 DEF Whole
  <2>2. CASE ~throws
    <3>1. ASSUME NEW c \in Child, status[c] = "applied", NEW r \in Differs(c)
          PROVE  FileAt(parent', r) = FileAt(parent, r)
      <4>1. Apart(c, turn)
        BY <3>1, <1>2, <1>5, <1>10 DEF DelegateInv, Phases, Counted, Active, Disjoint
      <4>2. r \in Path
        BY DEF Differs
      <4>3. r \in Changed(c)
        BY <3>1, <4>2, CutIs
      <4>4. r # p
        BY <4>1, <4>3, <1>11 DEF Apart
      <4> QED BY <4>2, <4>4, <2>2, <1>12
    <3>2. ASSUME Edited = {}, NEW r \in Differs(turn) \ (job'.rm \cup job'.put)
          PROVE  FileAt(parent', r) = FileAt(scratch[turn], r)
      <4>1. r \in Path
        BY <3>2 DEF Differs
      <4>2. CASE r = p
        BY <4>1, <4>2, <2>2, <1>11, <1>12
      <4>3. CASE r # p
        <5>1. r \notin job.rm \cup job.put
          BY <3>2, <4>3, <1>5
        <5>2. FileAt(parent, r) = FileAt(scratch[turn], r)
          BY <5>1, <3>2, <1>1, <1>5 DEF DelegateInv, Whole
        <5> QED BY <5>2, <4>1, <4>3, <2>2, <1>12
      <4> QED BY <4>2, <4>3
    <3> QED BY <3>1, <3>2, <1>6, WholeKept
  <2> QED BY <2>1, <2>2
<1> QED BY <1>5, <1>6, <1>7, <1>8, <1>9, <1>13, <1>14, WithinStep

\* Between two children, and when the work on one begins or ends.
LEMMA Standing ==
  ASSUME UNCHANGED <<parent, base, scratch, touched, edits, cut>>
  PROVE  /\ Edited' = Edited /\ \A c : Differs(c)' = Differs(c) /\ Changed(c)' = Changed(c) /\ Captured(c)' = Captured(c)
         /\ \A c, d : Apart(c, d)' <=> Apart(c, d)
         /\ \A c, p : /\ FileAt(base, p)' = FileAt(base, p) /\ FileAt(scratch[c], p)' = FileAt(scratch[c], p)
                      /\ FileAt(parent, p)' = FileAt(parent, p)
<1>1. Edited' = Edited /\ \A c : Changed(c)' = Changed(c)
  BY DEF Edited, Changed
<1>2. \A c, p : /\ FileAt(base, p)' = FileAt(base, p) /\ FileAt(scratch[c], p)' = FileAt(scratch[c], p)
                /\ FileAt(parent, p)' = FileAt(parent, p)
  BY DEF FileAt
<1>3. \A c : Differs(c)' = Differs(c)
  BY <1>2 DEF Differs
<1>4. \A c : Captured(c)' = Captured(c)
  BY DEF Captured, RemovedDirs, Expanded, FilesUnder, FileAt
<1>5. \A c, d : Apart(c, d)' <=> Apart(c, d)
  BY <1>1 DEF Apart
<1> QED BY <1>1, <1>2, <1>3, <1>4, <1>5

LEMMA StandingOver ==
  ASSUME UNCHANGED <<parent, base, scratch, touched, edits, cut>>, \A d \in Child : Counted(d) => Counted(d)', NEW c, NEW p, Over(c, p)
  PROVE  Over(c, p)'
<1>1. PICK d \in Child : c < d /\ Counted(d) /\ \E q \in Differs(d) \cap Above[p] : scratch[d][q].type = "file"
  BY DEF Over
<1>2. Counted(d)'
  BY <1>1
<1>3. Differs(d)' = Differs(d) /\ scratch' = scratch
  BY Standing
<1> QED BY <1>1, <1>2, <1>3 DEF Over

LEMMA StandingTraced ==
  ASSUME DelegateInv, UNCHANGED <<parent, base, scratch, touched, edits, cut>>, \A c \in Child : Counted(c) => Counted(c)'
  PROVE  Traced'
<1>1. SUFFICES ASSUME NEW p \in Path, FileAt(parent, p) # IF p \in Edited THEN edits[p] ELSE FileAt(base, p)
               PROVE  \E c \in Child : Counted(c)' /\ \E q \in Changed(c) : IF p \in Edited THEN p \in Subtree[q] ELSE q = p /\ p \in Differs(c)
  BY Standing DEF Traced
<1>2. PICK c \in Child : Counted(c) /\ \E q \in Changed(c) : IF p \in Edited THEN p \in Subtree[q] ELSE q = p /\ p \in Differs(c)
  BY <1>1 DEF DelegateInv, Traced
<1> QED BY <1>2

LEMMA PassOverStep == ASSUME DelegateInv, PassOver PROVE DelegateInv'
<1>1. /\ call = "merging" /\ turn \in Child /\ job = Idle /\ turn' = turn + 1
      /\ status' = [status EXCEPT ![turn] = IF Mergeable(turn) THEN "conflict" ELSE status[turn]]
      /\ UNCHANGED <<parent, base, scratch, touched, cut, call, job, applied, edits>>
  BY DEF PassOver
<1>2. DelegateTyped /\ Phases /\ CutTrue /\ Noticed /\ Disjoint /\ Entered /\ Whole
  BY DEF DelegateInv
<1>3. /\ status' \in [Child -> {"running", "done", "unfinished", "error", "conflict", "applied"}]
      /\ status'[turn] = IF status[turn] = "done" THEN "conflict" ELSE status[turn]
      /\ \A c \in Child : c # turn => status'[c] = status[c]
  BY <1>1, <1>2 DEF DelegateTyped, Mergeable
<1>4. turn' \in 1 .. NChild + 1 /\ turn \in Nat /\ turn < turn + 1 /\ \A c \in Child : c < turn => c < turn + 1
  BY <1>1, DelegateAssumption DEF Child
<1>5. \A c \in Child : (status'[c] = "applied" <=> status[c] = "applied") /\ status[turn] # "applied"
  BY <1>1, <1>2, <1>3, <1>4 DEF Phases
<1>6. \A c \in Child : Counted(c)' <=> Counted(c)
  BY <1>1, <1>5 DEF Counted, Active
<1>7. DelegateTyped' /\ Noticed'
  <2>1. DelegateTyped'
    BY <1>1, <1>2, <1>3, <1>4 DEF DelegateTyped
  <2>2. Noticed'
    BY <1>1, <1>2 DEF Noticed, Tidy
  <2> QED BY <2>1, <2>2
<1>8. CutTrue'
  <2>1. \A c \in Child : status'[c] \in {"done", "conflict", "applied"} => status[c] \in {"done", "conflict", "applied"}
    BY <1>1, <1>3
  <2> QED BY <2>1, <1>1, <1>2, Standing DEF CutTrue
<1>9. Phases'
  <2>1. \A c \in Child : status'[c] # "running"
    BY <1>1, <1>2, <1>3 DEF Phases
  <2> QED BY <2>1, <1>1, <1>2, <1>4, <1>5 DEF Phases, Idle
<1>10. Traced'
  BY <1>1, <1>6, StandingTraced
<1>11. Disjoint'
  BY <1>1, <1>2, <1>5, <1>6, Standing DEF Disjoint
<1>12. Entered'
  BY <1>1, <1>2, <1>5, Standing DEF Entered
<1>13. Whole'
  <2>1. \A c, p : Over(c, p) => Over(c, p)'
    BY <1>1, <1>6, StandingOver
  <2> QED BY <2>1, <1>1, <1>2, <1>5, Standing DEF Whole
<1> QED BY <1>7, <1>8, <1>9, <1>10, <1>11, <1>12, <1>13 DEF DelegateInv

LEMMA BeginApplyStep == ASSUME DelegateInv, BeginApply PROVE DelegateInv'
<1> DEFINE rm == {p \in Path : cut[turn][p] = None}
           put == Changed(turn) \ rm
<1>1. /\ call = "merging" /\ turn \in Child /\ job = Idle /\ status[turn] = "done" /\ ConflictPaths(turn) = {}
      /\ job' = [rm |-> rm, put |-> put, at |-> <<>>, step |-> "delete"]
      /\ UNCHANGED <<parent, base, scratch, touched, status, cut, call, turn, applied, edits>>
  BY DEF BeginApply, Mergeable
<1>2. DelegateTyped /\ Phases /\ CutTrue /\ Noticed /\ Disjoint /\ Entered /\ Whole
  BY DEF DelegateInv
<1>3. /\ rm \in SUBSET Path /\ put \in SUBSET Path /\ (\A p \in rm : cut[turn][p] = None)
      /\ (\A p \in put : cut[turn][p] \notin {Same, None}) /\ (\A p \in Path : cut[turn][p] \notin {Same, None} => p \in put)
      /\ Changed(turn) = rm \cup put
  BY DEF Changed, Same, None
<1> HIDE DEF rm, put
<1>4. job' # Idle /\ job' \in Job /\ job'.rm = rm /\ job'.put = put /\ job'.step = "delete"
  BY <1>1, <1>3 DEF Idle, Job
<1>5. DelegateTyped' /\ Noticed' /\ CutTrue'
  <2>1. CutTrue'
    BY <1>1, <1>2, Standing DEF CutTrue
  <2> QED BY <2>1, <1>1, <1>2, <1>4 DEF DelegateTyped, Noticed, Tidy
<1>6. Phases'
  BY <1>1, <1>2, <1>3, <1>4 DEF Phases
<1>7. \A c \in Child : (Counted(c) => Counted(c)') /\ (Counted(c)' => Counted(c) \/ c = turn)
  BY <1>1 DEF Counted, Active
<1>8. Traced'
  BY <1>1, <1>7, StandingTraced
<1>9. Disjoint'
  <2>1. SUFFICES ASSUME NEW c \in Child, NEW d \in Child, status[c] = "applied", c < d, Counted(d)' PROVE Apart(c, d)
    BY <1>1, Standing DEF Disjoint
  <2>2. CASE Counted(d)
    BY <2>1, <2>2, <1>2 DEF Disjoint
  <2>3. CASE d = turn
    <3>1. Changed(c) \subseteq applied
      BY <2>1, <1>1, <1>2 DEF Entered
    <3>2. Changed(c) \cap Changed(d) = {}
      BY <3>1, <2>3, <1>1 DEF ConflictPaths
    <3>3. \A q \in Changed(d) : cut[d][q] = None => Beneath[q] \cap Changed(c) = {}
      BY <3>1, <2>3, <1>1 DEF ConflictPaths
    <3> QED BY <3>2, <3>3 DEF Apart
  <2> QED BY <2>1, <2>2, <2>3, <1>7
<1>10. Entered'
  BY <1>1, <1>2, <1>3, <1>4, Standing DEF Entered
<1>11. Whole'
  <2>1. \A c, p : Over(c, p) => Over(c, p)'
    BY <1>1, <1>7, StandingOver
  <2>2. Differs(turn) \ (rm \cup put) = {}
    <3>1. \A p \in Differs(turn) : p \in Path
      BY DEF Differs
    <3>2. \A p \in Differs(turn) : p \in Changed(turn)
      BY <3>1, <1>1, CutIs
    <3> QED BY <3>2, <1>3
  <2>3. Differs(turn)' = Differs(turn)
    BY <1>1, Standing DEF Differs
  <2>4. Edited = {} => \A c \in Child : status[c] = "applied" => \A p \in Differs(c) : FileAt(parent, p) = FileAt(scratch[c], p) \/ Over(c, p)
    BY <1>1, <1>2 DEF Whole
  <2>5. Edited' = {} => \A c \in Child : status'[c] = "applied" => \A p \in Differs(c)' : FileAt(parent, p)' = FileAt(scratch[c], p)' \/ Over(c, p)'
    BY <2>1, <2>4, <1>1, Standing
  <2> QED BY <2>2, <2>3, <2>5, <1>4 DEF Whole
<1> QED BY <1>5, <1>6, <1>8, <1>9, <1>10, <1>11 DEF DelegateInv

LEMMA AppliedStep == ASSUME DelegateInv, Applied PROVE DelegateInv'
<1>1. /\ call = "merging" /\ job.step = "delete" /\ job.rm = {} /\ job.put = {}
      /\ status' = [status EXCEPT ![turn] = "applied"] /\ turn' = turn + 1 /\ job' = Idle
      /\ UNCHANGED <<parent, base, scratch, touched, cut, call, applied, edits>>
  BY DEF Applied
<1>2. DelegateTyped /\ Phases /\ CutTrue /\ Noticed /\ Disjoint /\ Entered /\ Whole
  BY DEF DelegateInv
<1>3. job # Idle /\ turn \in Child /\ status[turn] = "done"
  BY <1>1, <1>2 DEF Phases, Idle
<1>4. /\ status' \in [Child -> {"running", "done", "unfinished", "error", "conflict", "applied"}]
      /\ status'[turn] = "applied" /\ \A c \in Child : c # turn => status'[c] = status[c]
  BY <1>1, <1>2, <1>3 DEF DelegateTyped
<1>5. /\ turn' \in 1 .. NChild + 1 /\ turn \in Nat /\ turn < turn + 1 /\ ~(turn < turn)
      /\ \A c \in Child : (c < turn => c < turn + 1) /\ ~(c < turn /\ turn < c)
  BY <1>1, <1>3, DelegateAssumption DEF Child
<1>6. \A c \in Child : Counted(c)' <=> Counted(c)
  BY <1>1, <1>3, <1>4, <1>5 DEF Counted, Active
<1>7. DelegateTyped' /\ Noticed'
  <2>1. job' \in Job
    BY <1>1 DEF Job, Idle
  <2> QED BY <2>1, <1>1, <1>2, <1>4, <1>5 DEF DelegateTyped, Noticed, Tidy
<1>8. CutTrue'
  <2>1. \A c \in Child : status'[c] \in {"done", "conflict", "applied"} => status[c] \in {"done", "conflict", "applied"}
    BY <1>3, <1>4
  <2> QED BY <2>1, <1>1, <1>2, Standing DEF CutTrue
<1>9. Phases'
  <2>1. \A c \in Child : status'[c] # "running" /\ (status'[c] = "applied" => c < turn')
    BY <1>1, <1>2, <1>4, <1>5 DEF Phases
  <2> QED BY <2>1, <1>1 DEF Phases, Idle
<1>10. Traced'
  BY <1>1, <1>6, StandingTraced
<1>11. Disjoint'
  <2>1. SUFFICES ASSUME NEW c \in Child, NEW d \in Child, status'[c] = "applied", c < d, Counted(d) PROVE Apart(c, d)
    BY <1>1, <1>6, Standing DEF Disjoint
  <2>2. CASE c = turn
    <3>1. d # turn /\ ~(d < turn)
      BY <2>1, <2>2, <1>5
    <3> QED BY <2>1, <3>1, <1>2 DEF Counted, Active, Phases
  <2>3. CASE c # turn
    BY <2>1, <2>3, <1>2, <1>4 DEF Disjoint
  <2> QED BY <2>2, <2>3
<1>12. Entered'
  <2>1. \A c \in Child : status'[c] = "applied" => Changed(c) \subseteq applied
    BY <1>1, <1>2, <1>3, <1>4 DEF Entered
  <2> QED BY <2>1, <1>1, Standing DEF Entered
<1>13. Whole'
  <2>1. \A c, p : Over(c, p) => Over(c, p)'
    BY <1>1, <1>6, StandingOver
  <2>2. Edited = {} => \A c \in Child : status'[c] = "applied" => \A p \in Differs(c) : FileAt(parent, p) = FileAt(scratch[c], p) \/ Over(c, p)
    BY <1>1, <1>2, <1>3, <1>4 DEF Whole
  <2>3. Edited' = {} => \A c \in Child : status'[c] = "applied" => \A p \in Differs(c)' : FileAt(parent, p)' = FileAt(scratch[c], p)' \/ Over(c, p)'
    BY <2>1, <2>2, <1>1, Standing
  <2> QED BY <2>3, <1>1 DEF Whole
<1> QED BY <1>7, <1>8, <1>9, <1>10, <1>11, <1>12, <1>13 DEF DelegateInv

LEMMA DelegateStep == ASSUME DelegateInv, Delegate PROVE DelegateInv'
<1>1. /\ call = "idle" /\ call' = "running"
      /\ UNCHANGED <<parent, base, scratch, touched, status, cut, turn, job, applied, edits>>
  BY DEF Delegate
<1>2. DelegateTyped /\ Phases /\ CutTrue /\ Noticed
  BY DEF DelegateInv
<1>3. DelegateTyped' /\ Noticed'
  BY <1>1, <1>2 DEF DelegateTyped, Noticed, Tidy
<1>4. CutTrue'
  BY <1>1, <1>2, Standing DEF CutTrue
<1>5. Phases' /\ \A c \in Child : status'[c] # "applied"
  BY <1>1, <1>2 DEF Phases, Idle
<1> QED BY <1>1, <1>3, <1>4, <1>5, QuietStep

LEMMA AllSettledStep == ASSUME DelegateInv, AllSettled PROVE DelegateInv'
<1>1. /\ call = "running" /\ call' = "merging" /\ \A c \in Child : status[c] # "running"
      /\ UNCHANGED <<parent, base, scratch, touched, status, cut, turn, job, applied, edits>>
  BY DEF AllSettled
<1>2. DelegateTyped /\ Phases /\ CutTrue /\ Noticed
  BY DEF DelegateInv
<1>3. DelegateTyped' /\ Noticed'
  BY <1>1, <1>2 DEF DelegateTyped, Noticed, Tidy
<1>4. CutTrue'
  BY <1>1, <1>2, Standing DEF CutTrue
<1>5. Phases' /\ \A c \in Child : status'[c] # "applied"
  BY <1>1, <1>2 DEF Phases, Idle
<1> QED BY <1>1, <1>3, <1>4, <1>5, QuietStep

LEMMA ReportStep == ASSUME DelegateInv, Report PROVE DelegateInv'
<1>1. /\ call = "merging" /\ call' = "reported" /\ turn = NChild + 1
      /\ UNCHANGED <<parent, base, scratch, touched, status, cut, turn, job, applied, edits>>
  BY DEF Report
<1>2. DelegateTyped /\ Phases /\ CutTrue /\ Noticed /\ Disjoint /\ Entered /\ Whole
  BY DEF DelegateInv
<1>3. job = Idle
  <2>1. turn \notin Child
    BY <1>1, DelegateAssumption DEF Child
  <2> QED BY <2>1, <1>2 DEF Phases
<1>4. DelegateTyped' /\ Noticed' /\ CutTrue'
  <2>1. CutTrue'
    BY <1>1, <1>2, Standing DEF CutTrue
  <2> QED BY <2>1, <1>1, <1>2 DEF DelegateTyped, Noticed, Tidy
<1>5. Phases'
  BY <1>1, <1>2, <1>3 DEF Phases, Idle
<1>6. \A c \in Child : Counted(c)' <=> Counted(c)
  BY <1>1 DEF Counted, Active
<1>7. Traced' /\ Disjoint'
  <2>1. Traced'
    BY <1>1, <1>6, StandingTraced
  <2> QED BY <2>1, <1>1, <1>2, <1>6, Standing DEF Disjoint
<1>8. Entered'
  BY <1>1, <1>2, <1>3, Standing DEF Entered
<1>9. Whole'
  <2>1. \A c, p : Over(c, p) => Over(c, p)'
    BY <1>1, <1>6, StandingOver
  <2>2. Edited = {} => \A c \in Child : status[c] = "applied" => \A p \in Differs(c) : FileAt(parent, p) = FileAt(scratch[c], p) \/ Over(c, p)
    BY <1>1, <1>2 DEF Whole
  <2>3. Edited' = {} => \A c \in Child : status'[c] = "applied" => \A p \in Differs(c)' : FileAt(parent, p)' = FileAt(scratch[c], p)' \/ Over(c, p)'
    BY <2>1, <2>2, <1>1, Standing
  <2> QED BY <2>3, <1>1, <1>3 DEF Whole
<1> QED BY <1>4, <1>5, <1>7, <1>8, <1>9 DEF DelegateInv

\* Others make of a path what they like: it counts as theirs from then on.
LEMMA EditStep == ASSUME DelegateInv, NEW p \in Path, Edit(p) PROVE DelegateInv'
<1>1. /\ call \in {"running", "merging"} /\ edits' = [edits EXCEPT ![p] = parent'[p]]
      /\ UNCHANGED <<base, scratch, touched, status, cut, call, turn, job, applied>>
  BY DEF Edit
<1>2. DelegateTyped /\ Phases /\ CutTrue /\ Noticed /\ Disjoint /\ Entered /\ Traced
  BY DEF DelegateInv
<1>3. File(NChild + 1) \in Content
  <2>1. NChild + 1 \in 0 .. NChild + 1
    BY DelegateAssumption
  <2> QED BY <2>1 DEF Content
<1>4. PICK x \in {None, File(NChild + 1)} : parent' = [parent EXCEPT ![p] = x]
  BY DEF Edit
<1>5. parent' \in Tree /\ \A q \in Path : parent'[q] = IF q = p THEN x ELSE parent[q]
  BY <1>2, <1>3, <1>4 DEF DelegateTyped, Tree
<1>6. /\ edits' \in [Path -> {Same, None} \cup Content]
      /\ \A q \in Path : edits'[q] = IF q = p THEN x ELSE edits[q]
  BY <1>1, <1>2, <1>3, <1>5 DEF DelegateTyped
<1>7. x # Same /\ FileAt(parent', p) = x
  BY <1>5 DEF Same, None, File, FileAt
<1>8. p \in Edited' /\ \A q \in Path : q # p => (q \in Edited' <=> q \in Edited)
  BY <1>6, <1>7 DEF Edited
<1>9. /\ \A c : Differs(c)' = Differs(c) /\ Changed(c)' = Changed(c) /\ Captured(c)' = Captured(c) /\ (Counted(c)' <=> Counted(c))
      /\ (\A c, d : Apart(c, d)' <=> Apart(c, d)) /\ \A q : FileAt(base, q)' = FileAt(base, q) /\ FileAt(parent, q)' = FileAt(parent', q)
  <2>1. \A q : FileAt(base, q)' = FileAt(base, q) /\ FileAt(parent, q)' = FileAt(parent', q)
    BY <1>1 DEF FileAt
  <2>2. \A c : Changed(c)' = Changed(c) /\ (Counted(c)' <=> Counted(c))
    BY <1>1 DEF Changed, Counted, Active
  <2>3. \A c : Differs(c)' = Differs(c)
    BY <1>1 DEF Differs, FileAt
  <2>4. \A c : Captured(c)' = Captured(c)
    BY <1>1 DEF Captured, RemovedDirs, Expanded, FilesUnder, FileAt
  <2>5. \A c, d : Apart(c, d)' <=> Apart(c, d)
    BY <1>1, <2>2 DEF Apart
  <2> QED BY <2>1, <2>2, <2>3, <2>4, <2>5
<1>10. DelegateTyped' /\ Noticed' /\ Phases'
  BY <1>1, <1>2, <1>5, <1>6 DEF DelegateTyped, Noticed, Tidy, Phases
<1>11. CutTrue' /\ Disjoint' /\ Entered'
  BY <1>1, <1>2, <1>9 DEF CutTrue, Disjoint, Entered
<1>12. Traced'
  <2>1. SUFFICES ASSUME NEW q \in Path, FileAt(parent', q) # IF q \in Edited' THEN edits'[q] ELSE FileAt(base, q)
                 PROVE  \E c \in Child : Counted(c) /\ \E r \in Changed(c) : IF q \in Edited' THEN q \in Subtree[r] ELSE r = q /\ q \in Differs(c)
    BY <1>9 DEF Traced
  <2>2. q # p
    BY <2>1, <1>6, <1>7, <1>8
  <2>3. FileAt(parent', q) = FileAt(parent, q)
    BY <2>2, <1>5 DEF FileAt
  <2> QED BY <2>1, <2>2, <2>3, <1>2, <1>6, <1>8 DEF Traced
<1>13. Whole'
  BY <1>8 DEF Whole
<1> QED BY <1>10, <1>11, <1>12, <1>13 DEF DelegateInv

----
(* The theorem. *)

LEMMA InitDelegateInv == ASSUME Init PROVE DelegateInv
<1>1. /\ parent \in Bases /\ base = parent /\ scratch = [c \in Child |-> parent] /\ touched = [c \in Child |-> {}]
      /\ status = [c \in Child |-> "running"] /\ cut = [c \in Child |-> [p \in Path |-> Same]]
      /\ call = "idle" /\ turn = 1 /\ job = Idle /\ applied = {} /\ edits = [p \in Path |-> Same]
  BY DEF Init
<1>2. base \in [Path -> {None, Dir, File(0)}] /\ WellFormed(base)
  BY <1>1, DelegateAssumption
<1>3. Tidy(base)
  BY <1>2, TidyTrees
<1>4. parent \in Tree
  <2>1. 0 \in 0 .. NChild + 1
    BY DelegateAssumption
  <2>2. File(0) \in Content
    BY <2>1 DEF Content
  <2> QED BY <2>2, <1>1, <1>2 DEF Tree
<1>5. turn \in 1 .. NChild + 1
  BY <1>1, DelegateAssumption
<1>6. job \in Job
  BY <1>1 DEF Job, Idle
<1>7. \A c \in Child : scratch[c] = base /\ status[c] = "running"
  BY <1>1
<1>8. DelegateTyped
  BY <1>1, <1>2, <1>3, <1>4, <1>5, <1>6 DEF DelegateTyped
<1>9. Noticed /\ CutTrue
  BY <1>7 DEF Noticed, CutTrue
<1>10. Phases
  BY <1>1, <1>7 DEF Phases, Idle
<1>11. \A c \in Child : ~Counted(c)
  BY <1>1, <1>7 DEF Counted, Active
<1>12. Edited = {}
  BY <1>1 DEF Edited
<1>13. Traced
  BY <1>1, <1>12 DEF Traced
<1>14. Disjoint /\ Entered /\ Whole
  BY <1>1, <1>11 DEF Disjoint, Entered, Whole
<1> QED BY <1>8, <1>9, <1>10, <1>13, <1>14 DEF DelegateInv

LEMMA NextDelegateInv == ASSUME DelegateInv, [Next]_vars PROVE DelegateInv'
<1>1. CASE Delegate
  BY <1>1, DelegateStep
<1>2. ASSUME NEW c \in Child, ChildEnds(c) PROVE DelegateInv'
  BY <1>2, ChildEndsStep
<1>3. ASSUME NEW c \in Child, NEW p \in Path, WriteFile(c, p) \/ Mkdir(c, p) \/ Rm(c, p) \/ Symlink(c, p) PROVE DelegateInv'
  BY <1>3, WriteFileStep, MkdirStep, RmStep, SymlinkStep
<1>4. ASSUME NEW c \in Child, NEW p \in Path, NEW q \in Path, Rename(c, p, q) \/ Copy(c, p, q) PROVE DelegateInv'
  BY <1>4, RenameStep, CopyStep
<1>5. CASE AllSettled \/ PassOver \/ BeginApply \/ ApplyStat \/ ApplyClear \/ ApplyWrite \/ Applied \/ Report
  BY <1>5, AllSettledStep, PassOverStep, BeginApplyStep, ApplyStatStep, ApplyClearStep, ApplyWriteStep, AppliedStep, ReportStep
<1>6. ASSUME NEW p \in Path, ApplyDelete(p) \/ ApplyMkdir(p) \/ Edit(p) PROVE DelegateInv'
  BY <1>6, ApplyDeleteStep, ApplyMkdirStep, EditStep
<1>7. CASE UNCHANGED vars
  <2>1. UNCHANGED <<parent, base, scratch, touched, status, cut, call, turn, job, applied, edits>>
    BY <1>7 DEF vars
  <2>2. DelegateTyped' /\ Noticed' /\ Phases'
    BY <2>1 DEF DelegateInv, DelegateTyped, Noticed, Tidy, Phases
  <2>3. \A c : Counted(c)' <=> Counted(c)
    BY <2>1 DEF Counted, Active
  <2>4. Traced'
    BY <2>1, <2>3, StandingTraced
  <2>5. CutTrue' /\ Disjoint' /\ Entered'
    BY <2>1, <2>3, Standing DEF DelegateInv, CutTrue, Disjoint, Entered
  <2>6. \A c, p : Over(c, p) => Over(c, p)'
    BY <2>1, <2>3, StandingOver
  <2>7. Differs(turn)' = Differs(turn)
    BY <2>1 DEF Differs, FileAt
  <2>8. \A p : FileAt(scratch[turn], p)' = FileAt(scratch[turn], p)
    BY <2>1 DEF FileAt
  <2>9. Whole'
    BY <2>1, <2>6, <2>7, <2>8, Standing DEF DelegateInv, Whole
  <2> QED BY <2>2, <2>4, <2>5, <2>9 DEF DelegateInv
<1>8. \/ Delegate \/ UNCHANGED vars
      \/ \E c \in Child : \/ ChildEnds(c)
                          \/ \E p \in Path : \/ WriteFile(c, p) \/ Mkdir(c, p) \/ Rm(c, p) \/ Symlink(c, p)
                                             \/ \E q \in Path : Rename(c, p, q) \/ Copy(c, p, q)
      \/ AllSettled \/ PassOver \/ BeginApply \/ ApplyStat \/ ApplyClear \/ ApplyWrite \/ Applied \/ Report
      \/ \E p \in Path : ApplyDelete(p) \/ ApplyMkdir(p) \/ Edit(p)
  BY DEF Next, ChildStep, MergeStep
<1> QED BY <1>1, <1>2, <1>3, <1>4, <1>5, <1>6, <1>7, <1>8

LEMMA DelegateInductive == Spec => []DelegateInv
<1>1. Init => DelegateInv
  BY InitDelegateInv
<1>2. DelegateInv /\ [Next]_vars => DelegateInv'
  BY NextDelegateInv
<1> QED BY <1>1, <1>2, PTL DEF Spec

\* A call that was reported brought in the work of the children it applied, no file twice and nothing else.
LEMMA ExactlyMerged == ASSUME DelegateInv PROVE MergedExactly
<1>1. SUFFICES ASSUME call = "reported", Edited = {}, NEW p \in Path, NEW by, by = {c \in Merged : p \in Differs(c)}
               PROVE  /\ Cardinality(by) <= 1
                      /\ by = {} => FileAt(parent, p) = FileAt(base, p)
                      /\ \A c \in by : FileAt(parent, p) = FileAt(scratch[c], p) \/ Overbuilt(c, p)
  BY DEF MergedExactly
<1>2. job = Idle /\ \A c \in Child : Counted(c) <=> c \in Merged
  BY <1>1 DEF DelegateInv, Phases, Counted, Active, Merged
<1>3. \A c \in by : c \in Child /\ status[c] = "applied" /\ p \in Differs(c) /\ p \in Changed(c)
  BY <1>1, CutIs DEF Merged
<1>4. ASSUME NEW c \in by, NEW d \in by, c # d PROVE FALSE
  <2>1. c < d \/ d < c
    BY <1>3, <1>4, DelegateAssumption DEF Child
  <2>2. Apart(c, d) \/ Apart(d, c)
    BY <2>1, <1>3 DEF DelegateInv, Disjoint, Counted
  <2> QED BY <2>2, <1>3 DEF Apart
<1>5. Cardinality(by) <= 1
  <2>1. by = {} \/ \E c : by = {c}
    BY <1>4
  <2> QED BY <2>1, FS_EmptySet, FS_Singleton
<1>6. by = {} => FileAt(parent, p) = FileAt(base, p)
  <2>1. SUFFICES ASSUME FileAt(parent, p) # FileAt(base, p) PROVE by # {}
    OBVIOUS
  <2>2. PICK c \in Child : Counted(c) /\ p \in Differs(c)
    BY <2>1, <1>1 DEF DelegateInv, Traced
  <2> QED BY <2>2, <1>1, <1>2
<1>7. \A c \in by : FileAt(parent, p) = FileAt(scratch[c], p) \/ Over(c, p)
  BY <1>1, <1>3 DEF DelegateInv, Whole
<1>8. \A c \in by : Over(c, p) => Overbuilt(c, p)
  <2>1. SUFFICES ASSUME NEW c \in by, Over(c, p) PROVE Overbuilt(c, p)
    OBVIOUS
  <2>2. PICK d \in Child : c < d /\ Counted(d) /\ \E q \in Differs(d) \cap Above[p] : scratch[d][q].type = "file"
    BY <2>1 DEF Over
  <2>3. d > c
    BY <2>2, <1>3, DelegateAssumption DEF Child
  <2> QED BY <2>2, <2>3, <1>2 DEF Overbuilt
<1> QED BY <1>5, <1>6, <1>7, <1>8

LEMMA MergedOnly == ASSUME DelegateInv PROVE OnlyMerged
<1>1. \A c \in Child : Counted(c) => status[c] = "applied" \/ (status[c] = "done" /\ turn = c)
  BY DEF DelegateInv, Phases, Counted, Active
<1> QED BY <1>1 DEF DelegateInv, Traced, OnlyMerged

\* A delegate call (MergedWhole: delegate.ts, delegate and applyChanges): when it is reported the workspace is what it was
\* with the work of the applied children in it, whole and no file of two; at every moment, whatever throws and whatever
\* others edit meanwhile, a file that is not what it was or what they made of it is so by a child that ended well.
THEOREM MergedWholeHolds == Spec => []MergedWhole
<1>1. DelegateInv => MergedWhole
  BY ExactlyMerged, MergedOnly DEF MergedWhole
<1> QED BY <1>1, DelegateInductive, PTL
====
