---- MODULE MCGuestNetwork ----
(* One request and one WebSocket, which share the shutdown only; the decoders of their wires; and the language of the  *)
(* browser's shell: three systems in one model, of which a behaviour runs one.                                         *)
EXTENDS GuestNetwork, TLC

CONSTANTS r1, w1

VARIABLES system, codecWire, bytes, pushed, decoder, got, vocabulary, line, typed, world

codecVars == <<codecWire, bytes, pushed, decoder, got>>
shellVars == <<vocabulary, line, typed, world>>

C == INSTANCE MCWireCodecs WITH wire <- codecWire, sent <- pushed, s <- decoder
L == INSTANCE MCShellLanguage

Connection == system = "network" /\ UNCHANGED <<system, codecVars, shellVars>>
Codec == system = "codecs" /\ UNCHANGED <<system, vars, shellVars>>
Language == system = "language" /\ UNCHANGED <<system, vars, codecVars>>

MCInit ==
    /\ Init /\ system \in {"network", "codecs", "language"}
    /\ IF system = "codecs" THEN C!Init
       ELSE codecWire = <<>> /\ bytes = <<>> /\ pushed = 0 /\ decoder = <<>> /\ got = <<>>
    /\ IF system = "language" THEN L!Init ELSE vocabulary = <<>> /\ line = <<>> /\ typed = 0 /\ world = <<>>

MCNext ==
    \/ (Shutdown /\ Connection)
    \/ \E r \in Req : \/ (Dispatch(r) /\ Connection) \/ (Refused(r) /\ Connection) \/ (Connect(r) /\ Connection) \/ (Data(r) /\ Connection)
                      \/ (Closed(r) /\ Connection) \/ (TimerFires(r) /\ Connection) \/ (Read(r) /\ Connection) \/ (Return(r) /\ Connection)
    \/ \E w \in Sock : \/ (Upgrade(w) /\ Connection) \/ (Probed(w) /\ Connection) \/ (NoServer(w) /\ Connection) \/ (Rejects(w) /\ Connection)
                       \/ (Handshake(w) /\ Connection) \/ (Frames(w) /\ Connection) \/ (TcpCloses(w) /\ Connection) \/ (OnMessage(w) /\ Connection)
                       \/ (OnClose(w) /\ Connection) \/ (CloseWs(w) /\ Connection) \/ (BackstopFires(w) /\ Connection)
    \/ (system = "codecs" /\ C!Next /\ Codec)
    \/ (system = "language" /\ L!Next /\ Language)

\* The fairness of GuestNetwork, whose timers are never due in a behaviour of the other two.
MCSpec == MCInit /\ [][MCNext]_<<vars, system, codecVars, shellVars>> /\ Fairness

\* WireCodecs: what a peer meant comes out of its wire, exactly once and complete, however the wire is cut, and a
\* violation throws.
CodecsExact == system = "codecs" => C!WsExact /\ C!StreamsExact

\* ShellLanguage: the words a line is read as and what they expand to are those of POSIX quoting and matching.
WordsTrue == system = "language" => L!S!WordsTrue

\* ShellLanguage: what the programs of a line write lands where POSIX's fd tables put it.
Redirected == [][system = "language" /\ line' = <<>> /\ line # <<>> => L!S!ListAsPosix(L!S!parse(line).items)]_shellVars
====
