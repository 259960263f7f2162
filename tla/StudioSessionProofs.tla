---- MODULE StudioSessionProofs ----
(* What StudioSession promises, for any number of turns, VM images, guests and servers: the tracked  *)
(* server belongs to the active kernel, no server is stranded, one guest runs at a time; and, in     *)
(* every behaviour whose turns do not overlap, a prompt on screen has its turn waiting and the diff  *)
(* of a turn is collected on the kernel its tools change.                                            *)
EXTENDS StudioSession, TLAPS

\* Who waits for what: the turn a switch or a serve call was made by is parked at that tool.
CallersInv ==
    /\ \A c \in Caller : Switching /\ switch.by = c => c = NoTurn \/ turn[c].pc = "switch"
    /\ \A t \in Turn : calls[t].pc # "idle" => turn[t].pc = "serve"
    /\ \A t \in Turn : calls[t].pc # "kill"
    /\ \A t \in Turn : pending = t => turn[t].pc = "gate"

\* What a serve call or the panel's stop knows of its server.
CallFits(call) ==
    /\ call.pc \in {"idle", "asked"} => call.server = NoServer
    /\ call.pc \in {"started", "known"} => call.server # NoServer /\ home[call.server] = call.on
    /\ call.pc = "known" => call.on # Browser
    /\ call.server <= launched

\* A running server is tracked, called for, one that the tracking let go of, or the browser
\* kernel's while that kernel is active.
Called(s) == \E c \in Caller : calls[c].server = s
Accounted(s) == s \in lost \/ s = servePid \/ Called(s) \/ (home[s] = Browser /\ kernel = Browser)

ServesInv ==
    /\ \A c \in Caller : CallFits(calls[c])
    /\ \A s \in live : s <= launched /\ Accounted(s)
    /\ servePid <= launched /\ TrackedHere
    /\ switch.pc = "stop" => servePid \in {NoServer, switch.kill}
    /\ switch.pc = "clean" => servePid = NoServer

\* The guests that run, apart from those a failed switch left behind.
Kept == alive \ leaked
Up(k) == k # Browser => k \in Kept

GuestsInv ==
    /\ \A g \in alive \cup leaked : profileOf[g] # "browser"
    /\ Up(kernel) /\ Up(cached)
    /\ switch.pc # "last" /\ kernel # Browser => kernel = cached
    /\ switch.pc \in {"events", "retire", "boot"} => EnvOf(kernel) # switch.env
    /\ switch.pc \in {"none", "events", "retire", "boot", "clean"} => Kept \subseteq {cached}
    /\ switch.pc = "retire" => kernel = Browser /\ cached # Browser /\ switch.env # "browser"
    /\ switch.pc = "boot" => switch.env # "browser" /\ (kernel = Browser => cached = Browser)
    /\ switch.pc = "abort" =>
        kernel # Browser /\ switch.next \notin {Browser, kernel} /\ Kept \subseteq {cached, switch.next}
    /\ switch.pc = "clean" => kernel # Browser /\ switch.next = Browser
    /\ switch.pc = "stop" =>
        /\ Up(switch.next)
        /\ kernel = Browser => switch.next \in {Browser, cached} /\ Kept \subseteq {cached}
        /\ kernel # Browser /\ ~switch.fresh => switch.next = Browser /\ Kept \subseteq {cached}
        /\ kernel # Browser /\ switch.fresh =>
            switch.next \notin {Browser, kernel} /\ Kept \subseteq {cached, switch.next}
    /\ switch.pc = "last" =>
        /\ kernel # Browser /\ switch.next = kernel /\ switch.out # Browser /\ switch.out # kernel
        /\ cached = switch.out /\ Kept \subseteq {cached, kernel}

IInv == TypeOK /\ CallersInv /\ ServesInv /\ GuestsInv

\* Turns that do not overlap: a new one is not started before the last has ended.
Overlapping(t, u) == t # u /\ turn[t].pc # "idle" /\ turn[u].pc # "idle"
OneAtATime == \A t, u \in Turn : ~Overlapping(t, u)

\* Before its setup and after its settling a turn collects no diff.
Undiffed == {"idle", "saving", "setup", "diff"}

TurnsInv ==
    /\ \A t \in Turn : turn[t].pc = "gate" <=> pending = t
    /\ \A t \in Turn : turn[t].on # NoKernel => turn[t].on = kernel
    /\ \A t \in Turn : turn[t].on # NoKernel <=> repoint = t
    /\ \A t \in Turn : turn[t].pc \in Undiffed => turn[t].on = NoKernel

----
LEMMA Idles ==
    /\ IdleTurn \in TurnState /\ IdleTurn.pc = "idle" /\ IdleTurn.on = NoKernel
    /\ NoSwitch \in SwitchState /\ NoSwitch.pc = "none" /\ NoSwitch.by = NoTurn
    /\ NoCall \in CallState /\ NoCall.pc = "idle" /\ NoCall.server = NoServer
    /\ NoLoad \in [pc : {"none", "flush", "load"}, fs : Kernel] /\ NoLoad.pc = "none"
    /\ Browser \in Kernel /\ Browser \notin Guest /\ Kernel = Guest \cup {Browser}
    /\ NoServer \notin Server /\ NoKernel \notin Kernel /\ NoTurn \in Caller
<1>1. MaxGuests \in Nat /\ MaxServers \in Nat
  BY SessionAssumption
<1>2. Browser \in Kernel /\ Browser \notin Guest /\ Kernel = Guest \cup {Browser} /\ NoKernel \notin Kernel
  BY <1>1 DEF Browser, Kernel, Guest, NoKernel
<1>3. NoServer \notin Server /\ NoTurn \in Caller /\ "browser" \in Environment
  BY <1>1 DEF NoServer, Server, Caller, Environment
<1>4. IdleTurn \in TurnState /\ IdleTurn.pc = "idle" /\ IdleTurn.on = NoKernel
  BY DEF IdleTurn, TurnState, Tool
<1>5. NoSwitch \in SwitchState /\ NoSwitch.pc = "none" /\ NoSwitch.by = NoTurn
  BY <1>2, <1>3 DEF NoSwitch, SwitchState
<1>6. NoCall \in CallState /\ NoCall.pc = "idle" /\ NoCall.server = NoServer
  BY <1>2 DEF NoCall, CallState
<1>7. NoLoad \in [pc : {"none", "flush", "load"}, fs : Kernel] /\ NoLoad.pc = "none"
  BY <1>2 DEF NoLoad
<1> QED BY <1>2, <1>3, <1>4, <1>5, <1>6, <1>7

LEMMA InitInv == Init => IInv
<1> SUFFICES ASSUME Init PROVE IInv
  OBVIOUS
<1>1. TypeOK
  <2>1. turn \in [Turn -> TurnState] /\ calls \in [Caller -> CallState] /\ switch \in SwitchState
    BY Idles DEF Init
  <2>2. home \in [Server -> Kernel] /\ profileOf \in [Guest -> Environment] /\ events \in Nat /\ launched \in 0 .. MaxServers
    BY Idles, SessionAssumption DEF Init, Environment
  <2> QED BY <2>1, <2>2, Idles DEF Init, TypeOK
<1>2. CallersInv
  BY Idles, SessionAssumption DEF Init, CallersInv, Switching, Caller
<1>3. ServesInv
  BY Idles DEF Init, ServesInv, CallFits, TrackedHere, NoServer
<1>4. GuestsInv
  BY Idles DEF Init, GuestsInv, Up, Kept
<1> QED BY <1>1, <1>2, <1>3, <1>4 DEF IInv

----
\* The steps of a turn, of the user and of a mount: kernels and servers are not touched.

\* The types of what only turns and mounts change.
SignalTypes ==
    /\ running \in BOOLEAN /\ stopping \in BOOLEAN
    /\ runAbort \in Caller /\ pending \in Caller /\ repoint \in Caller
    /\ (running <=> runAbort # NoTurn) /\ (stopping => running)
TurnTypes == turn \in [Turn -> TurnState] /\ SignalTypes
MountTypes ==
    /\ mounted \in BOOLEAN /\ swapping \in BOOLEAN
    /\ load \in [pc : {"none", "flush", "load"}, fs : Kernel]
    /\ events \in Nat
KernelTypes ==
    /\ kernel \in Kernel /\ cached \in Kernel
    /\ profileOf \in [Guest -> Environment]
    /\ alive \in SUBSET Guest /\ leaked \in SUBSET Guest
    /\ switch \in SwitchState
ServeTypes ==
    /\ calls \in [Caller -> CallState]
    /\ home \in [Server -> Kernel] /\ live \in SUBSET Server
    /\ launched \in 0 .. MaxServers
    /\ servePid \in Server \cup {NoServer} /\ lost \in SUBSET Server

LEMMA Types ==
    /\ TypeOK => TurnTypes /\ MountTypes /\ KernelTypes /\ ServeTypes
    /\ TurnTypes' /\ MountTypes' /\ KernelTypes' /\ ServeTypes' => TypeOK'
BY DEF TypeOK, TurnTypes, SignalTypes, MountTypes, KernelTypes, ServeTypes

LEMMA TypesAside ==
    /\ MountTypes /\ UNCHANGED <<mountVars, events>> => MountTypes'
    /\ KernelTypes /\ UNCHANGED kernelVars => KernelTypes'
    /\ ServeTypes /\ UNCHANGED serveVars => ServeTypes'
    /\ TurnTypes /\ UNCHANGED turnVars => TurnTypes'
<1>1. MountTypes /\ UNCHANGED <<mountVars, events>> => MountTypes'
  BY DEF MountTypes, mountVars
<1>2. KernelTypes /\ UNCHANGED kernelVars => KernelTypes'
  BY DEF KernelTypes, kernelVars
<1>3. ServeTypes /\ UNCHANGED serveVars => ServeTypes'
  BY DEF ServeTypes, serveVars
<1>4. TurnTypes /\ UNCHANGED turnVars => TurnTypes'
  BY DEF TurnTypes, SignalTypes, turnVars
<1> QED BY <1>1, <1>2, <1>3, <1>4

LEMMA TurnsAside ==
    ASSUME IInv, UNCHANGED <<kernelVars, serveVars>>, TurnTypes', MountTypes',
           \A t \in Turn : turn[t].pc \in {"switch", "serve"} => turn'[t].pc = turn[t].pc,
           \A t \in Turn : pending' = t => turn'[t].pc = "gate"
    PROVE  IInv'
<1>1. TypeOK'
  BY Types, TypesAside DEF IInv
<1>2. CallersInv'
  BY DEF IInv, CallersInv, Switching, kernelVars, serveVars, Caller
<1>3. ServesInv'
  BY DEF IInv, ServesInv, CallFits, TrackedHere, Accounted, Called, kernelVars, serveVars
<1>4. GuestsInv'
  BY DEF IInv, GuestsInv, Up, Kept, EnvOf, kernelVars
<1> QED BY <1>1, <1>2, <1>3, <1>4 DEF IInv

\* A step of turn t alone, at a point where it does not wait for a switch or a serve call.
LEMMA OneTurnStep ==
    ASSUME IInv, NEW t \in Turn, turn[t].pc \notin {"switch", "serve"}, NEW new \in TurnState,
           turn' = [turn EXCEPT ![t] = new], SignalTypes',
           events' \in Nat, UNCHANGED <<kernelVars, serveVars, mountVars>>,
           \/ pending' = NoTurn
           \/ pending' = t /\ new.pc = "gate"
           \/ pending' = pending /\ turn[t].pc # "gate"
    PROVE  IInv'
<1>1. TurnTypes
  BY Types DEF IInv
<1>2. TurnTypes'
  BY <1>1 DEF TurnTypes
<1>3. MountTypes'
  BY Types DEF IInv, MountTypes, mountVars
<1>4. \A u \in Turn : turn[u].pc \in {"switch", "serve"} => turn'[u].pc = turn[u].pc
  BY <1>1 DEF TurnTypes
<1>5. \A u \in Turn : pending' = u => turn'[u].pc = "gate"
  BY <1>1, SessionAssumption DEF IInv, CallersInv, TurnTypes
<1> QED BY <1>2, <1>3, <1>4, <1>5, TurnsAside

LEMMA TurnStepInv ==
    ASSUME IInv, NEW t \in Turn,
           \/ StartRun(t) \/ RunSaved(t) \/ ReplyToRun(t) \/ Setup(t) \/ SetupFails(t)
           \/ FinishAborted(t) \/ Finish(t) \/ AskModel(t) \/ ToolEnds(t) \/ Deny(t)
           \/ (\E tool \in Tool : AskApproval(t, tool)) \/ Settle(t) \/ EndTurn(t)
    PROVE  IInv'
<1>1. /\ TurnTypes /\ SignalTypes /\ turn[t] \in TurnState /\ t \in Caller /\ NoTurn \in Caller /\ t # NoTurn
      /\ events \in Nat /\ kernel \in Kernel
  BY Types, SessionAssumption DEF IInv, TurnTypes, MountTypes, KernelTypes, Caller
<1>2. \A pc \in {"saving", "settle", "after", "model", "setup"} :
        /\ [turn[t] EXCEPT !.pc = pc] \in TurnState
        /\ [IdleTurn EXCEPT !.pc = pc] \in TurnState
  BY <1>1, Idles DEF TurnState
<1>3. Event => events' \in Nat
  BY <1>1 DEF Event
<1>4. CASE StartRun(t)
  <2>1. turn' = [turn EXCEPT ![t] = [turn[t] EXCEPT !.pc = "saving"]]
    BY <1>4 DEF StartRun
  <2>9. SignalTypes'
    BY <1>1, <1>2, <1>3, <1>4, <2>1, Idles DEF StartRun, SignalTypes
  <2> QED BY <1>1, <1>2, <1>3, <1>4, <2>1, Idles, <2>9, OneTurnStep DEF StartRun
<1>5. CASE RunSaved(t) \/ ReplyToRun(t)
  <2>1. RunAgentTurn(t) /\ events' \in Nat /\ turn[t].pc \in {"saving", "idle"}
    BY <1>1, <1>3, <1>5, Idles DEF RunSaved, ReplyToRun
  <2>9. SignalTypes'
    BY <1>1, <1>2, <2>1 DEF RunAgentTurn, SignalTypes
  <2> QED BY <1>1, <1>2, <2>1, <2>9, OneTurnStep DEF RunAgentTurn
<1>6. CASE Setup(t)
  <2>1. PICK pc \in {"ready", "settle"} : turn' = [turn EXCEPT ![t].pc = pc, ![t].on = kernel]
    BY <1>6 DEF Setup
  <2> DEFINE new == [turn[t] EXCEPT !.pc = pc, !.on = kernel]
  <2>2. turn' = [turn EXCEPT ![t] = new]
    BY <1>1, <2>1 DEF TurnTypes
  <2>3. new \in TurnState
    BY <1>1 DEF TurnState
  <2> HIDE DEF new
  <2>9. SignalTypes'
    BY <1>1, <1>6, <2>2, <2>3 DEF Setup, SignalTypes
  <2> QED BY <1>1, <1>6, <2>2, <2>3, <2>9, OneTurnStep DEF Setup
<1>7. CASE SetupFails(t)
  <2>1. turn' = [turn EXCEPT ![t] = [turn[t] EXCEPT !.pc = "settle"]]
    BY <1>7 DEF SetupFails
  <2>9. SignalTypes'
    BY <1>1, <1>2, <1>3, <1>7, <2>1 DEF SetupFails, SignalTypes
  <2> QED BY <1>1, <1>2, <1>3, <1>7, <2>1, <2>9, OneTurnStep DEF SetupFails
<1>8. CASE FinishAborted(t) \/ Finish(t) \/ AskModel(t) \/ ToolEnds(t)
  <2>1. /\ turn[t].pc \in {"ready", "model", "after", "tool"}
        /\ \E pc \in {"settle", "model", "after"} : TurnGoes(t, pc)
    BY <1>8 DEF FinishAborted, Finish, AskModel, ToolEnds, AtCheckpoint
  <2>2. PICK pc \in {"settle", "model", "after"} : TurnGoes(t, pc)
    BY <2>1
  <2>3. turn' = [turn EXCEPT ![t] = [turn[t] EXCEPT !.pc = pc]]
    BY <2>2 DEF TurnGoes
  <2>9. SignalTypes'
    BY <1>1, <1>2, <2>1, <2>2, <2>3 DEF TurnGoes, SignalTypes
  <2> QED BY <1>1, <1>2, <2>1, <2>2, <2>3, <2>9, OneTurnStep DEF TurnGoes
<1>9. CASE Deny(t)
  <2> DEFINE new == [turn[t] EXCEPT !.pc = "after", !.tool = "tool"]
  <2>1. turn' = [turn EXCEPT ![t] = new]
    BY <1>1, <1>9 DEF Deny, TurnTypes
  <2>2. new \in TurnState /\ new.pc = "after"
    BY <1>1 DEF TurnState, Tool
  <2> HIDE DEF new
  <2>9. SignalTypes'
    BY <1>1, <1>9, <2>1, <2>2 DEF Deny, SignalTypes
  <2> QED BY <1>1, <1>9, <2>1, <2>2, <2>9, OneTurnStep DEF Deny
<1>10. CASE \E tool \in Tool : AskApproval(t, tool)
  <2>1. PICK tool \in Tool : AskApproval(t, tool)
    BY <1>10
  <2> DEFINE new == [turn[t] EXCEPT !.pc = "gate", !.tool = tool]
  <2>2. turn' = [turn EXCEPT ![t] = new]
    BY <1>1, <2>1 DEF AskApproval, TurnTypes
  <2>3. new \in TurnState /\ new.pc = "gate"
    BY <1>1 DEF TurnState
  <2> HIDE DEF new
  <2>9. SignalTypes'
    BY <1>1, <2>1, <2>2, <2>3 DEF AskApproval, SignalTypes
  <2> QED BY <1>1, <2>1, <2>2, <2>3, <2>9, OneTurnStep DEF AskApproval
<1>11. CASE Settle(t)
  <2> DEFINE new == [turn[t] EXCEPT !.pc = "diff", !.on = NoKernel]
  <2>1. turn' = [turn EXCEPT ![t] = new]
    BY <1>1, <1>11 DEF Settle, TurnTypes
  <2>2. new \in TurnState
    BY <1>1 DEF TurnState
  <2> HIDE DEF new
  <2>9. SignalTypes'
    BY <1>1, <1>11, <2>1, <2>2 DEF Settle, SignalTypes
  <2> QED BY <1>1, <1>11, <2>1, <2>2, <2>9, OneTurnStep DEF Settle
<1>12. CASE EndTurn(t)
  <2>1. SignalTypes'
    BY <1>1, <1>12 DEF EndTurn, SignalTypes
  <2> QED BY <1>1, <1>12, <2>1, Idles, OneTurnStep DEF EndTurn
<1> QED BY <1>4, <1>5, <1>6, <1>7, <1>8, <1>9, <1>10, <1>11, <1>12

\* The Stop button, a mount and a stutter.
LEMMA StopStep ==
    ASSUME IInv, Stop
    PROVE  /\ turn' \in [Turn -> TurnState] /\ stopping' \in BOOLEAN /\ pending' \in Caller /\ (stopping' => running)
           /\ \A t \in Turn : /\ turn[t].pc \in {"switch", "serve"} => turn'[t].pc = turn[t].pc
                              /\ pending' = t => turn'[t].pc = "gate"
<1>1. TurnTypes /\ (\A t \in Turn : pending = t => turn[t].pc = "gate") /\ NoTurn \in Caller
  BY Types, Idles DEF IInv, CallersInv
<1>2. CASE ~running
  BY <1>1, <1>2 DEF Stop, TurnTypes, SignalTypes
<1>3. CASE running
  <2> DEFINE new(t) == [turn[t] EXCEPT !.aborted = @ \/ t = runAbort,
                                       !.pc = IF t = pending THEN "after" ELSE @,
                                       !.tool = IF t = pending THEN "tool" ELSE @]
  <2>1. turn' = [t \in Turn |-> new(t)] /\ stopping' = TRUE /\ pending' = NoTurn
    BY <1>3 DEF Stop
  <2>2. ASSUME NEW t \in Turn
        PROVE  new(t) \in TurnState /\ (t # pending => new(t).pc = turn[t].pc)
    <3>1. turn[t] \in TurnState
      BY <1>1 DEF TurnTypes
    <3>2. (turn[t].aborted \/ t = runAbort) \in BOOLEAN
      OBVIOUS
    <3> QED BY <3>1, <3>2 DEF TurnState, Tool
  <2> HIDE DEF new
  <2> QED BY <1>1, <1>3, <2>1, <2>2, SessionAssumption
<1> QED BY <1>2, <1>3

LEMMA AsideInv ==
    ASSUME IInv, \/ StopRun \/ MountFirst \/ SwapFolder \/ SwapFlushed \/ LoadEnds \/ LoadFails
                 \/ UNCHANGED vars
    PROVE  IInv'
<1>1. TurnTypes /\ MountTypes /\ events \in Nat /\ kernel \in Kernel /\ NoTurn \in Caller
  BY Types DEF IInv, MountTypes, KernelTypes, Caller
<1>2. Event => events' \in Nat
  BY <1>1 DEF Event
<1>3. UNCHANGED <<kernelVars, serveVars>>
  BY DEF StopRun, MountFirst, SwapFolder, SwapFlushed, LoadEnds, LoadFails, vars
<1>4. TurnTypes'
  <2>1. CASE StopRun \/ SwapFolder
    <3>1. Stop /\ UNCHANGED <<running, runAbort, repoint>>
      BY <2>1 DEF StopRun, SwapFolder
    <3> QED BY <1>1, <3>1, StopStep DEF TurnTypes, SignalTypes
  <2>2. CASE UNCHANGED turnVars
    BY <1>1, <2>2, TypesAside
  <2> QED BY <2>1, <2>2 DEF MountFirst, SwapFlushed, LoadEnds, LoadFails, vars
<1>5. MountTypes'
  <2>1. LoadInto(kernel) \in [pc : {"none", "flush", "load"}, fs : Kernel]
    BY <1>1 DEF LoadInto
  <2>2. [NoLoad EXCEPT !.pc = "flush"] \in [pc : {"none", "flush", "load"}, fs : Kernel]
    BY Idles DEF NoLoad
  <2>3. CASE StopRun \/ UNCHANGED vars
    BY <1>1, <1>2, <2>3 DEF StopRun, vars, mountVars, MountTypes
  <2>4. CASE MountFirst \/ SwapFolder
    BY <1>1, <1>2, <2>1, <2>2, <2>4 DEF MountFirst, SwapFolder, MountTypes
  <2>5. CASE SwapFlushed \/ LoadEnds \/ LoadFails
    BY <1>1, <1>2, <2>1, <2>5, Idles DEF SwapFlushed, LoadEnds, LoadFails, MountTypes
  <2> QED BY <2>3, <2>4, <2>5
<1>6. \A t \in Turn : turn[t].pc \in {"switch", "serve"} => turn'[t].pc = turn[t].pc
  <2>1. CASE StopRun \/ SwapFolder
    <3>1. Stop
      BY <2>1 DEF StopRun, SwapFolder
    <3> QED BY <3>1, StopStep
  <2>2. CASE UNCHANGED turnVars
    BY <2>2 DEF turnVars
  <2> QED BY <2>1, <2>2 DEF MountFirst, SwapFlushed, LoadEnds, LoadFails, vars
<1>7. \A t \in Turn : pending' = t => turn'[t].pc = "gate"
  <2>1. \A t \in Turn : pending = t => turn[t].pc = "gate"
    BY DEF IInv, CallersInv
  <2>2. CASE StopRun \/ SwapFolder
    <3>1. Stop
      BY <2>2 DEF StopRun, SwapFolder
    <3> QED BY <3>1, StopStep
  <2>3. CASE UNCHANGED turnVars
    BY <2>1, <2>3 DEF turnVars
  <2> QED BY <2>2, <2>3 DEF MountFirst, SwapFlushed, LoadEnds, LoadFails, vars
<1> QED BY <1>3, <1>4, <1>5, <1>6, <1>7, TurnsAside

\* The head of a tool: a switch or a serve call may begin.
LEMMA StartToolInv ==
    ASSUME IInv, NEW t \in Turn, NEW tool \in Tool, NEW env \in Environment,
           turn[t].pc \in {"model", "after", "gate"}, StartTool(t, tool, env),
           \/ pending' = NoTurn
           \/ pending' = pending /\ turn[t].pc # "gate"
    PROVE  IInv'
<1> DEFINE refused == \/ tool # "tool" /\ Switching
                      \/ tool = "switch" /\ EnvOf(kernel) = env
           new == [turn[t] EXCEPT !.pc = IF refused THEN "after" ELSE tool, !.tool = "tool"]
           going == [NoSwitch EXCEPT !.pc = "events", !.env = env, !.by = t]
           asked == [NoCall EXCEPT !.pc = "asked", !.on = kernel]
<1>1. /\ TurnTypes /\ MountTypes /\ KernelTypes /\ ServeTypes /\ kernel \in Kernel
      /\ turn[t] \in TurnState /\ t \in Caller /\ NoTurn \in Caller /\ t # NoTurn
  BY Types, SessionAssumption DEF IInv, TurnTypes, KernelTypes, Caller
<1>2. /\ turn' = [turn EXCEPT ![t] = new] /\ UNCHANGED <<running, stopping, runAbort, repoint>>
      /\ UNCHANGED <<kernel, cached, profileOf, alive, leaked, home, live, launched, servePid, lost, mountVars, events>>
  BY <1>1 DEF StartTool, TurnTypes
<1>3. switch' = IF tool = "switch" /\ ~refused THEN going ELSE switch
  BY DEF StartTool
<1>4. calls' = IF tool = "serve" /\ ~refused THEN [calls EXCEPT ![t] = asked] ELSE calls
  BY DEF StartTool
<1>5. new \in TurnState /\ (new.pc = IF refused THEN "after" ELSE tool)
  BY <1>1 DEF TurnState, Tool
<1>6. going \in SwitchState /\ going.pc = "events" /\ going.env = env /\ going.by = t
  BY <1>1, Idles DEF SwitchState, NoSwitch
<1>7. asked \in CallState /\ asked.pc = "asked" /\ asked.server = NoServer
  BY <1>1, Idles DEF CallState, NoCall
<1>8. /\ tool = "switch" /\ ~refused => ~Switching /\ EnvOf(kernel) # env
      /\ tool # "tool" /\ Switching => refused
  OBVIOUS
<1> HIDE DEF new, going, asked, refused
<1>9. TypeOK'
  <2>1. TurnTypes'
    BY <1>1, <1>2, <1>5 DEF TurnTypes, SignalTypes
  <2>2. MountTypes' /\ KernelTypes' /\ ServeTypes'
    BY <1>1, <1>2, <1>3, <1>4, <1>6, <1>7 DEF MountTypes, KernelTypes, ServeTypes, mountVars
  <2> QED BY <2>1, <2>2, Types
<1>10. CallersInv'
  <2>1. /\ \A c \in Caller : Switching /\ switch.by = c => c = NoTurn \/ turn[c].pc = "switch"
        /\ \A u \in Turn : calls[u].pc # "idle" => turn[u].pc = "serve"
        /\ \A u \in Turn : calls[u].pc # "kill"
        /\ \A u \in Turn : pending = u => turn[u].pc = "gate"
    BY DEF IInv, CallersInv
  <2>2. ASSUME NEW c \in Caller, Switching', switch'.by = c
        PROVE  c = NoTurn \/ turn'[c].pc = "switch"
    <3>1. CASE tool = "switch" /\ ~refused
      BY <1>1, <1>2, <1>3, <1>5, <1>6, <2>2, <3>1 DEF TurnTypes
    <3>2. CASE ~(tool = "switch" /\ ~refused)
      <4>1. Switching /\ switch.by = c
        BY <1>3, <2>2, <3>2 DEF Switching
      <4> QED BY <1>1, <1>2, <2>1, <4>1 DEF TurnTypes, Caller
    <3> QED BY <3>1, <3>2
  <2>3. ASSUME NEW u \in Turn
        PROVE  (calls'[u].pc # "idle" => turn'[u].pc = "serve") /\ calls'[u].pc # "kill"
    <3>1. u \in Caller
      BY DEF Caller
    <3> QED BY <1>1, <1>2, <1>4, <1>5, <1>7, <2>1, <3>1 DEF TurnTypes, ServeTypes
  <2>4. \A u \in Turn : pending' = u => turn'[u].pc = "gate"
    BY <1>1, <1>2, <2>1, SessionAssumption DEF TurnTypes
  <2> QED BY <2>2, <2>3, <2>4 DEF CallersInv
<1>11. calls[t].pc = "idle" /\ calls[t].server = NoServer
  <2>1. calls[t].pc = "idle"
    BY DEF IInv, CallersInv
  <2> QED BY <1>1, <2>1 DEF IInv, ServesInv, CallFits
<1>12. ServesInv'
  <2>1. \A c \in Caller : CallFits(calls[c])'
    BY <1>1, <1>2, <1>4, <1>7 DEF IInv, ServesInv, CallFits, ServeTypes, NoServer
  <2>2. \A c \in Caller : calls'[c].server = calls[c].server
    BY <1>1, <1>4, <1>7, <1>11 DEF ServeTypes
  <2>3. \A s \in live' : s <= launched' /\ Accounted(s)'
    BY <1>2, <2>2 DEF IInv, ServesInv, Accounted, Called
  <2>4. /\ switch'.pc = "stop" => switch.pc = "stop" /\ switch'.kill = switch.kill
        /\ switch'.pc = "clean" => switch.pc = "clean"
    BY <1>3, <1>6
  <2> QED BY <1>2, <2>1, <2>3, <2>4 DEF IInv, ServesInv, TrackedHere
<1>13. GuestsInv'
  <2>1. UNCHANGED <<kernel, cached, profileOf, alive, leaked>>
    BY <1>2
  <2>2. CASE tool = "switch" /\ ~refused
    BY <1>3, <1>6, <1>8, <2>1, <2>2 DEF IInv, GuestsInv, Up, Kept, EnvOf, Switching
  <2>3. CASE switch' = switch
    BY <2>1, <2>3 DEF IInv, GuestsInv, Up, Kept, EnvOf
  <2> QED BY <1>3, <2>2, <2>3
<1> QED BY <1>9, <1>10, <1>12, <1>13 DEF IInv

----
\* The serve calls and the panel's stop.

\* A step of caller c: its call goes on, or returns to its turn.
LEMMA CallStep ==
    ASSUME IInv, NEW c \in Caller, NEW call \in CallState, UNCHANGED <<kernelVars, mountVars>>, events' \in Nat,
           calls' = [calls EXCEPT ![c] = call], ServeTypes',
           \/ UNCHANGED turnVars /\ (c # NoTurn => calls[c].pc # "idle" /\ call.pc # "kill")
           \/ /\ UNCHANGED <<running, stopping, runAbort, pending, repoint>> /\ call = NoCall /\ calls[c].pc # "idle"
              /\ turn' = [t \in Turn |-> IF t = c THEN [turn[t] EXCEPT !.pc = "after"] ELSE turn[t]],
           ServesInv'
    PROVE  IInv'
<1>1. /\ TurnTypes /\ MountTypes /\ KernelTypes /\ ServeTypes
      /\ \A e \in Caller : Switching /\ switch.by = e => e = NoTurn \/ turn[e].pc = "switch"
      /\ \A u \in Turn : u \in Caller /\ calls[u].pc # "kill" /\ (calls[u].pc # "idle" => turn[u].pc = "serve")
      /\ \A u \in Turn : pending = u => turn[u].pc = "gate"
  BY Types DEF IInv, CallersInv, Caller
<1>2. TypeOK'
  <2>1. MountTypes' /\ KernelTypes'
    BY <1>1 DEF MountTypes, KernelTypes, mountVars, kernelVars
  <2>2. TurnTypes'
    <3>1. \A t \in Turn : [turn[t] EXCEPT !.pc = "after"] \in TurnState
      BY <1>1 DEF TurnTypes, TurnState
    <3>2. turn' \in [Turn -> TurnState]
      BY <1>1, <3>1 DEF TurnTypes, turnVars
    <3> QED BY <1>1, <3>2 DEF TurnTypes, SignalTypes, turnVars
  <2> QED BY <2>1, <2>2, Types
<1>3. CallersInv'
  <2>1. UNCHANGED <<switch, pending>>
    BY DEF kernelVars, turnVars
  <2>2. ASSUME NEW u \in Turn, turn[u].pc # "serve"
        PROVE  turn'[u].pc = turn[u].pc
    BY <1>1, <2>2 DEF turnVars
  <2>3. ASSUME NEW u \in Turn
        PROVE  calls'[u].pc # "kill" /\ (calls'[u].pc # "idle" => turn'[u].pc = "serve")
    BY <1>1, <2>3, Idles, SessionAssumption DEF turnVars, ServeTypes
  <2> QED BY <1>1, <2>1, <2>2, <2>3 DEF CallersInv, Switching, Caller
<1>4. GuestsInv'
  BY DEF IInv, GuestsInv, Up, Kept, EnvOf, kernelVars
<1> QED BY <1>2, <1>3, <1>4 DEF IInv

\* What is known of the calls and servers before a step of caller c.
CallKnown(c) ==
    /\ TurnTypes /\ MountTypes /\ KernelTypes /\ ServeTypes /\ ServesInv
    /\ calls[c] \in CallState /\ CallFits(calls[c])
    /\ c # NoTurn => c \in Turn /\ calls[c].pc # "kill"
    /\ calls = [calls EXCEPT ![c] = calls[c]]
    /\ launched \in Nat /\ events \in Nat /\ kernel \in Kernel

LEMMA CallKnows == ASSUME IInv, NEW c \in Caller PROVE CallKnown(c)
<1>1. TurnTypes /\ MountTypes /\ KernelTypes /\ ServeTypes
  BY Types DEF IInv
<1>2. launched \in Nat
  BY <1>1, SessionAssumption DEF ServeTypes
<1>3. c # NoTurn => c \in Turn /\ calls[c].pc # "kill"
  BY DEF Caller, IInv, CallersInv
<1> QED BY <1>1, <1>2, <1>3 DEF CallKnown, IInv, ServesInv, ServeTypes, KernelTypes, MountTypes

\* The server of no other caller is touched.
LEMMA CalledByOthers ==
    ASSUME NEW c \in Caller, NEW call \in CallState, ServeTypes, calls' = [calls EXCEPT ![c] = call],
           NEW s, Called(s), s # calls[c].server \/ s = call.server
    PROVE  Called(s)'
BY DEF Called, ServeTypes

LEMMA PanelKillsInv == ASSUME IInv, PanelKills PROVE IInv'
<1> DEFINE call == [NoCall EXCEPT !.pc = "kill", !.server = servePid]
<1>1. NoTurn \in Caller /\ CallKnown(NoTurn) /\ calls[NoTurn] = NoCall
  BY CallKnows, Idles DEF PanelKills
<1>2. call \in CallState /\ call.pc = "kill" /\ call.server = servePid
  BY <1>1, Idles DEF CallKnown, ServeTypes, NoCall, CallState
<1>3. calls' = [calls EXCEPT ![NoTurn] = call]
  BY DEF PanelKills
<1> HIDE DEF call
<1>4. ServeTypes'
  BY <1>1, <1>2, <1>3 DEF PanelKills, CallKnown, ServeTypes
<1>5. ServesInv'
  <2>1. \A d \in Caller : CallFits(calls[d])'
    BY <1>1, <1>2, <1>3 DEF PanelKills, CallKnown, ServesInv, CallFits, ServeTypes
  <2>2. ASSUME NEW s \in live
        PROVE  Accounted(s)'
    <3>1. Accounted(s) /\ s # calls[NoTurn].server
      BY <1>1, Idles DEF CallKnown, ServesInv, ServeTypes
    <3>2. Called(s) => Called(s)'
      BY <1>1, <1>2, <1>3, <3>1, CalledByOthers DEF CallKnown
    <3> QED BY <3>1, <3>2 DEF PanelKills, Accounted, kernelVars
  <2> QED BY <1>1, <2>1, <2>2 DEF PanelKills, CallKnown, ServesInv, TrackedHere, kernelVars
<1>6. events' \in Nat
  BY <1>1 DEF PanelKills, Event, CallKnown
<1> QED BY <1>1, <1>2, <1>3, <1>4, <1>5, <1>6, CallStep DEF PanelKills

LEMMA PanelKilledInv == ASSUME IInv, PanelKilled PROVE IInv'
<1> DEFINE killed == calls[NoTurn].server
           asked == [NoCall EXCEPT !.pc = "asked", !.on = kernel]
<1>1. NoTurn \in Caller /\ CallKnown(NoTurn) /\ calls[NoTurn].pc = "kill"
  BY CallKnows, Idles DEF PanelKilled
<1>2. PICK call \in {NoCall, asked} : calls' = [calls EXCEPT ![NoTurn] = call]
  BY DEF PanelKilled
<1>3. call \in CallState /\ call.pc \in {"idle", "asked"} /\ call.server = NoServer
  BY <1>1, Idles DEF CallKnown, NoCall, CallState
<1>4. /\ live' = live \ {killed} /\ (servePid' = IF killed # NoServer THEN NoServer ELSE servePid)
      /\ lost' = (lost \cup ({servePid} \ {servePid'})) \cap live'
      /\ UNCHANGED <<turnVars, kernelVars, home, launched, mountVars, events>>
  BY DEF PanelKilled, LetsGo
<1> HIDE DEF killed, asked
<1>5. ServeTypes'
  BY <1>1, <1>2, <1>3, <1>4 DEF CallKnown, ServeTypes
<1>6. ServesInv'
  <2>1. \A d \in Caller : CallFits(calls[d])'
    BY <1>1, <1>2, <1>3, <1>4 DEF CallKnown, ServesInv, CallFits, ServeTypes, NoServer
  <2>2. ASSUME NEW s \in live'
        PROVE  s <= launched' /\ Accounted(s)'
    <3>1. s \in live /\ s # killed /\ Accounted(s) /\ s <= launched
      BY <1>1, <1>4 DEF CallKnown, ServesInv
    <3>2. Called(s) => Called(s)'
      BY <1>1, <1>2, <1>3, <3>1, CalledByOthers DEF CallKnown, killed
    <3> QED BY <1>4, <3>1, <3>2 DEF Accounted, kernelVars
  <2>3. servePid' \in {NoServer, servePid} /\ UNCHANGED <<kernel, switch, home, launched>>
    BY <1>4 DEF kernelVars
  <2> QED BY <1>1, <2>1, <2>2, <2>3 DEF CallKnown, ServesInv, TrackedHere, NoServer
<1> QED BY <1>1, <1>2, <1>3, <1>4, <1>5, <1>6, CallStep DEF CallKnown

LEMMA ServerStartsInv == ASSUME IInv, NEW c \in Caller, ServerStarts(c) PROVE IInv'
<1>0. PICK s \in Server : s = launched + 1
  BY DEF ServerStarts
<1> DEFINE call == [calls[c] EXCEPT !.pc = "started", !.server = s]
<1>1. CallKnown(c) /\ calls[c].pc = "asked" /\ s \in Server /\ calls[c].server = NoServer
  BY <1>0, CallKnows DEF ServerStarts, CallKnown, CallFits
<1>2. call \in CallState /\ call.pc = "started" /\ call.server = s /\ call.on = calls[c].on
  BY <1>1 DEF CallKnown, CallState
<1>3. /\ calls' = [calls EXCEPT ![c] = call] /\ live' = live \cup {s} /\ launched' = s
      /\ home' = [home EXCEPT ![s] = calls[c].on]
      /\ UNCHANGED <<turnVars, kernelVars, servePid, lost, mountVars, events>>
  BY <1>0, <1>1 DEF ServerStarts, CallKnown, ServeTypes
<1> HIDE DEF call
<1>4. s \in Nat /\ launched < s /\ s # NoServer /\ s \in 0 .. MaxServers
  BY <1>0, <1>1, SessionAssumption DEF CallKnown, NoServer, Server
<1>5. ServeTypes'
  BY <1>1, <1>2, <1>3, <1>4 DEF CallKnown, ServeTypes, CallState
<1>6. ServesInv'
  <2>1. ASSUME NEW d \in Caller
        PROVE  CallFits(calls[d])'
    <3>1. CASE d = c
      BY <1>1, <1>2, <1>3, <1>4, <3>1 DEF CallKnown, CallFits, ServeTypes
    <3>2. CASE d # c
      <4>1. calls'[d] = calls[d] /\ CallFits(calls[d]) /\ calls[d] \in CallState
        BY <1>1, <1>2, <1>3, <3>2 DEF CallKnown, ServesInv, ServeTypes
      <4>2. calls[d].server <= launched /\ calls[d].server \in Nat /\ calls[d].server # s
        BY <1>1, <1>4, <4>1, SessionAssumption DEF CallKnown, CallFits, CallState, Server, NoServer
      <4>3. calls[d].server # NoServer => home'[calls[d].server] = home[calls[d].server]
        BY <1>1, <1>3, <4>1, <4>2 DEF CallKnown, ServeTypes, CallState
      <4> QED BY <1>1, <1>3, <1>4, <4>1, <4>2, <4>3 DEF CallFits, CallKnown
    <3> QED BY <3>1, <3>2
  <2>2. Called(s)'
    BY <1>1, <1>2, <1>3 DEF Called, CallKnown, ServeTypes
  <2>3. ASSUME NEW x \in live'
        PROVE  x <= launched' /\ Accounted(x)'
    <3>1. CASE x = s
      BY <1>3, <1>4, <2>2, <3>1 DEF Accounted
    <3>2. CASE x # s
      <4>1. x \in live /\ x \in Server /\ Accounted(x) /\ x <= launched /\ x \in Nat
        BY <1>1, <1>3, <3>2, SessionAssumption DEF CallKnown, ServesInv, ServeTypes, Server
      <4>2. Called(x) => Called(x)'
        BY <1>1, <1>2, <1>3, <4>1, Idles, CalledByOthers DEF CallKnown
      <4>3. home'[x] = home[x]
        BY <1>1, <1>3, <3>2, <4>1 DEF CallKnown, ServeTypes
      <4> QED BY <1>1, <1>3, <1>4, <4>1, <4>2, <4>3 DEF Accounted, kernelVars, CallKnown
    <3> QED BY <3>1, <3>2
  <2>4. servePid <= launched /\ servePid \in Nat /\ TrackedHere
    BY <1>1, SessionAssumption DEF CallKnown, ServesInv, ServeTypes, Server, NoServer
  <2>5. servePid <= launched' /\ TrackedHere'
    BY <1>1, <1>3, <1>4, <2>4 DEF CallKnown, ServeTypes, TrackedHere, kernelVars
  <2> QED BY <1>1, <1>3, <2>1, <2>3, <2>5 DEF CallKnown, ServesInv, kernelVars
<1> QED BY <1>1, <1>2, <1>3, <1>5, <1>6, CallStep DEF CallKnown

LEMMA PidKnownInv == ASSUME IInv, NEW c \in Caller, PidKnown(c) PROVE IInv'
<1> DEFINE call == [calls[c] EXCEPT !.pc = "known"]
<1>1. CallKnown(c) /\ calls[c].pc = "started" /\ calls[c].on # Browser
  BY CallKnows DEF PidKnown
<1>2. call \in CallState /\ call.pc = "known" /\ call.server = calls[c].server /\ call.on = calls[c].on
  BY <1>1 DEF CallKnown, CallState
<1>3. calls' = [calls EXCEPT ![c] = call]
  BY <1>1 DEF PidKnown, CallKnown, ServeTypes
<1> HIDE DEF call
<1>4. ServeTypes'
  BY <1>1, <1>2, <1>3 DEF PidKnown, CallKnown, ServeTypes
<1>5. ServesInv'
  <2>1. \A d \in Caller : CallFits(calls[d])'
    BY <1>1, <1>2, <1>3 DEF PidKnown, CallKnown, ServesInv, CallFits, ServeTypes
  <2>2. ASSUME NEW s \in live
        PROVE  Accounted(s)'
    <3>1. Called(s) => Called(s)'
      BY <1>1, <1>2, <1>3, CalledByOthers DEF CallKnown
    <3> QED BY <1>1, <3>1 DEF PidKnown, CallKnown, ServesInv, Accounted, kernelVars
  <2> QED BY <1>1, <2>1, <2>2 DEF PidKnown, CallKnown, ServesInv, TrackedHere, kernelVars
<1> QED BY <1>1, <1>2, <1>3, <1>4, <1>5, CallStep DEF PidKnown, CallKnown

LEMMA ServeFailsInv == ASSUME IInv, NEW c \in Caller, ServeFails(c) PROVE IInv'
<1>1. CallKnown(c) /\ calls[c].pc = "asked" /\ calls[c].server = NoServer
  BY CallKnows DEF ServeFails, CallKnown, CallFits
<1>2. calls' = [calls EXCEPT ![c] = NoCall]
  BY DEF ServeFails, CallReturns
<1>3. ServeTypes'
  BY <1>1, <1>2, Idles DEF ServeFails, CallKnown, ServeTypes
<1>4. ServesInv'
  <2>1. \A d \in Caller : CallFits(calls[d])'
    BY <1>1, <1>2, Idles DEF ServeFails, CallKnown, ServesInv, CallFits, ServeTypes, NoServer
  <2>2. ASSUME NEW s \in live
        PROVE  Accounted(s)'
    <3>1. Called(s) => Called(s)'
      BY <1>1, <1>2, Idles, CalledByOthers DEF CallKnown
    <3> QED BY <1>1, <3>1 DEF ServeFails, CallKnown, ServesInv, Accounted, kernelVars
  <2> QED BY <1>1, <2>1, <2>2 DEF ServeFails, CallKnown, ServesInv, TrackedHere, kernelVars
<1> QED BY <1>1, <1>2, <1>3, <1>4, Idles, CallStep DEF ServeFails, CallReturns, CallKnown

\* A serve call settles: its server is tracked from now on, killed because the kernel is another,
\* or let go of because nobody knows its pid.
LEMMA ServeSettlesInv == ASSUME IInv, NEW c \in Caller, ServeSettles(c) PROVE IInv'
<1>0. PICK server \in Server : server = calls[c].server
  BY CallKnows DEF ServeSettles, CallKnown, CallFits, CallState
<1>1. /\ CallKnown(c) /\ calls[c].pc \in {"started", "known"} /\ server # NoServer
      /\ home[server] = calls[c].on /\ server <= launched
      /\ calls[c].on = Browser => calls[c].pc # "known"
  BY <1>0, CallKnows DEF ServeSettles, CallKnown, CallFits
<1>2. PICK pid \in {server, NoServer} : pid = IF calls[c].pc = "known" THEN server ELSE NoServer
  OBVIOUS
<1>3. PICK untracked \in {{server}, {}} : untracked = IF calls[c].on # Browser /\ pid = NoServer THEN {server} ELSE {}
  OBVIOUS
<1>4. calls' = [calls EXCEPT ![c] = NoCall] /\ UNCHANGED <<kernelVars, home, launched, mountVars, events>>
  BY DEF ServeSettles, CallReturns
<1>5. IF Stale(c)
      THEN live' = live \ Disposes(c, pid) /\ LetsGo(untracked) /\ UNCHANGED servePid
      ELSE servePid' = pid /\ UNCHANGED live /\ LetsGo(untracked \cup {servePid})
  BY <1>0, <1>2, <1>3 DEF ServeSettles
<1>6. Disposes(c, pid) = IF calls[c].on = Browser THEN {server} ELSE {pid}
  BY <1>0 DEF Disposes
<1>7. ServeTypes'
  BY <1>1, <1>2, <1>3, <1>4, <1>5, Idles DEF CallKnown, ServeTypes, LetsGo
<1>8. ASSUME NEW s \in live', s # server
      PROVE  s \in live /\ (Called(s) => Called(s)') /\ s <= launched /\ Accounted(s)
  <2>1. s \in live /\ s # calls[c].server
    BY <1>0, <1>5, <1>8
  <2> QED BY <1>1, <1>4, <2>1, Idles, CalledByOthers DEF CallKnown, ServesInv
<1>9. \A d \in Caller : CallFits(calls[d])'
  BY <1>1, <1>4, Idles DEF CallKnown, ServesInv, CallFits, ServeTypes, NoServer
<1>10. ServesInv'
  <2>1. CASE Stale(c)
    <3>1. live' = live \ Disposes(c, pid) /\ lost' = (lost \cup untracked) \cap live' /\ servePid' = servePid
      BY <1>5, <2>1 DEF LetsGo
    <3>2. ASSUME NEW s \in live'
          PROVE  s <= launched' /\ Accounted(s)'
      <4>1. CASE s = server
        BY <1>1, <1>2, <1>3, <1>4, <1>6, <3>1, <4>1 DEF Accounted
      <4>2. CASE s # server
        BY <1>4, <1>8, <3>1, <4>2 DEF Accounted, kernelVars
      <4> QED BY <4>1, <4>2
    <3> QED BY <1>1, <1>4, <1>9, <3>1, <3>2 DEF CallKnown, ServesInv, TrackedHere, kernelVars
  <2>2. CASE ~Stale(c)
    <3>1. live' = live /\ lost' = (lost \cup untracked \cup {servePid}) \cap live /\ servePid' = pid
      BY <1>5, <2>2 DEF LetsGo
    <3>2. kernel = calls[c].on /\ ~Switching
      BY <2>2 DEF Stale
    <3>3. ASSUME NEW s \in live'
          PROVE  s <= launched' /\ Accounted(s)'
      <4>1. CASE s = server
        BY <1>1, <1>2, <1>3, <1>4, <3>1, <3>2, <4>1 DEF Accounted, kernelVars
      <4>2. CASE s # server
        BY <1>4, <1>8, <3>1, <4>2 DEF Accounted, kernelVars
      <4> QED BY <4>1, <4>2
    <3>4. TrackedHere' /\ servePid' <= launched'
      BY <1>1, <1>2, <1>4, <3>1, <3>2 DEF TrackedHere, kernelVars, NoServer, CallKnown
    <3> QED BY <1>4, <1>9, <3>2, <3>3, <3>4 DEF ServesInv, kernelVars, Switching
  <2> QED BY <2>1, <2>2
<1>11. /\ UNCHANGED <<running, stopping, runAbort, pending, repoint>>
       /\ turn' = [t \in Turn |-> IF t = c THEN [turn[t] EXCEPT !.pc = "after"] ELSE turn[t]]
  BY DEF ServeSettles, CallReturns
<1> QED BY <1>1, <1>4, <1>7, <1>10, <1>11, Idles, CallStep DEF CallKnown

----
\* The switch.

\* What a step of the switch leaves to show: kernels, guests and servers.
LEMMA SwitchStepKeeps ==
    ASSUME IInv, UNCHANGED <<running, stopping, runAbort, pending, repoint, mountVars, calls>>, events' \in Nat,
           turn' \in [Turn -> TurnState], KernelTypes', ServeTypes', ServesInv', GuestsInv',
           Switching \/ UNCHANGED turn,
           \A t \in Turn : t # switch.by \/ Switching' => turn'[t].pc = turn[t].pc,
           Switching' => switch'.by = NoTurn \/ (Switching /\ switch'.by = switch.by)
    PROVE  IInv'
<1>1. /\ TurnTypes /\ MountTypes /\ NoTurn \in Caller
      /\ \A e \in Caller : Switching /\ switch.by = e => e = NoTurn \/ turn[e].pc = "switch"
      /\ \A u \in Turn : u \in Caller /\ calls[u].pc # "kill" /\ (calls[u].pc # "idle" => turn[u].pc = "serve")
      /\ \A u \in Turn : pending = u => turn[u].pc = "gate"
  BY Types DEF IInv, CallersInv, Caller
<1>2. TypeOK'
  <2>1. TurnTypes' /\ MountTypes'
    BY <1>1 DEF TurnTypes, SignalTypes, MountTypes, mountVars
  <2> QED BY <2>1, Types
<1>3. CallersInv'
  <2>1. ASSUME NEW u \in Turn, turn[u].pc # "switch"
        PROVE  turn'[u].pc = turn[u].pc
    BY <1>1, <2>1, SessionAssumption
  <2>2. \A e \in Caller : Switching' /\ switch'.by = e => e = NoTurn \/ turn'[e].pc = "switch"
    BY <1>1 DEF Caller
  <2> QED BY <1>1, <2>1, <2>2 DEF CallersInv
<1> QED BY <1>2, <1>3 DEF IInv

\* No server is lost from sight when fewer run, on the same kernel.
LEMMA FewerServes ==
    ASSUME IInv, UNCHANGED <<calls, home, launched, servePid, kernel>>,
           \A s \in live' : s \in live /\ (s \in lost => s \in lost'),
           switch'.pc = "stop" => switch'.kill = servePid \/ (switch.pc = "stop" /\ switch'.kill = switch.kill),
           switch'.pc # "clean"
    PROVE  ServesInv'
<1>1. \A c \in Caller : CallFits(calls[c])'
  BY DEF IInv, ServesInv, CallFits
<1>2. \A s \in live' : s <= launched' /\ Accounted(s)'
  BY DEF IInv, ServesInv, Accounted, Called
<1> QED BY <1>1, <1>2 DEF IInv, ServesInv, TrackedHere

\* Nor when no server is tracked any more and the browser kernel's are gone, whatever the kernel.
LEMMA NoneTracked ==
    ASSUME IInv, UNCHANGED <<calls, home, launched>>, servePid' = NoServer,
           \A s \in live' : s <= launched /\ (s \in lost' \/ Called(s))
    PROVE  ServesInv'
<1>1. \A c \in Caller : CallFits(calls[c])'
  BY DEF IInv, ServesInv, CallFits
<1>2. \A s \in live' : s <= launched' /\ Accounted(s)'
  BY DEF Accounted, Called
<1>3. servePid' <= launched' /\ TrackedHere'
  BY SessionAssumption DEF IInv, TypeOK, TrackedHere, NoServer
<1> QED BY <1>1, <1>2, <1>3 DEF ServesInv

\* What the target's arrival makes of the switch s.
ArrivedAs(r, s, next, fresh) ==
    /\ r \in SwitchState
    /\ \/ r = NoSwitch /\ s.by = NoTurn /\ ~(fresh /\ kernel # Browser)
       \/ r.pc = "abort" /\ r.next = next /\ r.by = NoTurn /\ fresh /\ kernel # Browser
       \/ r.pc = "stop" /\ r.next = next /\ r.fresh = fresh /\ r.kill = servePid /\ r.by = s.by

LEMMA Arrival ==
    ASSUME IInv, NEW s \in SwitchState, NEW next \in Kernel, NEW fresh \in BOOLEAN
    PROVE  ArrivedAs(Arrived(s, next, fresh), s, next, fresh)
<1>1. servePid \in Server \cup {NoServer}
  BY DEF IInv, TypeOK
<1> DEFINE aborted == [s EXCEPT !.pc = "abort", !.next = next]
           stopping2 == [s EXCEPT !.pc = "stop", !.next = next, !.fresh = fresh, !.kill = servePid]
<1>2. aborted \in SwitchState /\ aborted.pc = "abort" /\ aborted.next = next /\ aborted.by = s.by
  BY DEF SwitchState
<1>3. /\ stopping2 \in SwitchState /\ stopping2.pc = "stop" /\ stopping2.next = next /\ stopping2.fresh = fresh
      /\ stopping2.kill = servePid /\ stopping2.by = s.by
  BY <1>1 DEF SwitchState
<1>4. Arrived(s, next, fresh) = IF s.by = NoTurn /\ running
                                THEN IF fresh /\ kernel # Browser THEN aborted ELSE NoSwitch
                                ELSE stopping2
  BY DEF Arrived
<1> HIDE DEF aborted, stopping2
<1> QED BY <1>2, <1>3, <1>4, Idles DEF ArrivedAs

\* A switch knows its target at once, or sets out to retire the cached guest or to boot one.
LEMMA ResolvedInv ==
    ASSUME IInv, NEW s \in SwitchState, switch.pc \in {"none", "events"}, switch' = Resolved(s),
           s.by = NoTurn \/ (Switching /\ s.by = switch.by), EnvOf(kernel) # s.env, events' \in Nat,
           UNCHANGED <<turnVars, kernel, cached, profileOf, alive, leaked, serveVars, mountVars>>
    PROVE  IInv'
<1>1. /\ TurnTypes /\ KernelTypes /\ ServeTypes /\ GuestsInv
      /\ Kept \subseteq {cached} /\ Up(kernel) /\ Up(cached) /\ (kernel # Browser => kernel = cached)
  BY Types DEF IInv, GuestsInv
<1> DEFINE going(pc) == [s EXCEPT !.pc = pc]
<1>2. \A pc \in {"retire", "boot"} : going(pc) \in SwitchState /\ going(pc).pc = pc /\ going(pc).env = s.env /\ going(pc).by = s.by
  BY DEF SwitchState
<1>3. /\ ArrivedAs(Arrived(s, Browser, FALSE), s, Browser, FALSE)
      /\ ArrivedAs(Arrived(s, cached, FALSE), s, cached, FALSE)
  BY <1>1, Arrival, Idles DEF KernelTypes
<1>4. \/ s.env = "browser" /\ ArrivedAs(switch', s, Browser, FALSE)
      \/ cached # Browser /\ profileOf[cached] = s.env /\ ArrivedAs(switch', s, cached, FALSE)
      \/ s.env # "browser" /\ kernel = Browser /\ cached # Browser /\ switch' = going("retire")
      \/ s.env # "browser" /\ ~(kernel = Browser /\ cached # Browser) /\ switch' = going("boot")
  BY <1>3 DEF Resolved
<1> HIDE DEF going
<1>5. switch' \in SwitchState /\ (Switching' => switch'.by = s.by) /\ switch'.pc \notin {"clean", "last", "events"}
      /\ (switch'.pc = "stop" => switch'.kill = servePid)
  BY <1>2, <1>4, Idles DEF ArrivedAs, Switching
<1>6. ServesInv'
  BY <1>5, FewerServes DEF serveVars
<1>7. GuestsInv'
  <2>1. /\ \A g \in alive' \cup leaked' : profileOf'[g] # "browser"
        /\ Up(kernel)' /\ Up(cached)' /\ (kernel' # Browser => kernel' = cached') /\ Kept' \subseteq {cached'}
        /\ EnvOf(kernel)' # s.env
    BY <1>1 DEF GuestsInv, Up, Kept, EnvOf
  <2>2. CASE switch' \in {going("retire"), going("boot")}
    BY <1>1, <1>2, <1>4, <2>1, <2>2, Idles DEF GuestsInv, ArrivedAs
  <2>3. CASE s.env = "browser" /\ ArrivedAs(switch', s, Browser, FALSE)
    BY <1>1, <2>1, <2>3, Idles DEF GuestsInv, ArrivedAs, Up
  <2>4. CASE cached # Browser /\ profileOf[cached] = s.env /\ ArrivedAs(switch', s, cached, FALSE)
    <3>1. kernel = Browser
      BY <1>1, <2>4 DEF EnvOf
    <3> QED BY <1>1, <2>1, <2>4, <3>1, Idles DEF GuestsInv, ArrivedAs
  <2> QED BY <1>4, <2>2, <2>3, <2>4
<1>8. KernelTypes' /\ ServeTypes' /\ turn' \in [Turn -> TurnState]
  BY <1>1, <1>5 DEF KernelTypes, ServeTypes, TurnTypes, serveVars, turnVars
<1> QED BY <1>5, <1>6, <1>7, <1>8, SwitchStepKeeps DEF turnVars, serveVars

LEMMA SwitchBeginsInv ==
    ASSUME IInv, EventsSettled \/ \E env \in Environment : SwitchEnvironment(env)
    PROVE  IInv'
<1>1. KernelTypes /\ events \in Nat
  BY Types DEF IInv, MountTypes
<1>2. CASE EventsSettled
  <2>1. switch \in SwitchState /\ switch.pc = "events" /\ switch' = Resolved(switch) /\ events' \in Nat /\ Switching
    BY <1>1, <1>2 DEF EventsSettled, KernelTypes, Switching
  <2>2. EnvOf(kernel) # switch.env
    BY <2>1 DEF IInv, GuestsInv
  <2> QED BY <1>2, <2>1, <2>2, ResolvedInv DEF EventsSettled
<1>3. CASE \E env \in Environment : SwitchEnvironment(env)
  <2>1. PICK env \in Environment : SwitchEnvironment(env)
    BY <1>3
  <2> DEFINE s == [NoSwitch EXCEPT !.env = env]
  <2>2. s \in SwitchState /\ s.by = NoTurn /\ s.env = env
    BY Idles DEF NoSwitch, SwitchState
  <2>3. switch' = Resolved(s) /\ switch.pc = "none" /\ EnvOf(kernel) # env /\ events' \in Nat
    BY <1>1, <2>1 DEF SwitchEnvironment, Switching, Event
  <2> HIDE DEF s
  <2> QED BY <2>1, <2>2, <2>3, ResolvedInv DEF SwitchEnvironment
<1> QED BY <1>2, <1>3

\* What is known before a step of the switch.
SwitchKnown ==
    /\ turn \in [Turn -> TurnState] /\ events \in Nat /\ KernelTypes /\ ServeTypes /\ ServesInv /\ GuestsInv
    /\ switch \in SwitchState /\ kernel \in Kernel /\ cached \in Kernel /\ switch.next \in Kernel

LEMMA SwitchKnows == ASSUME IInv PROVE SwitchKnown
<1>1. TurnTypes /\ MountTypes /\ KernelTypes /\ ServeTypes
  BY Types DEF IInv
<1> QED BY <1>1 DEF IInv, SwitchKnown, TurnTypes, MountTypes, KernelTypes, SwitchState

\* A guest that is shut down takes its servers along.
LEMMA ShutDownServes ==
    ASSUME IInv, NEW G, ShutDown(G), UNCHANGED <<calls, home, launched, servePid, kernel>>,
           switch'.pc \notin {"stop", "clean"}
    PROVE  ServesInv' /\ ServeTypes'
<1>1. live' \subseteq live /\ lost' = (lost \cup {}) \cap live'
  BY DEF ShutDown, LetsGo
<1>2. ServesInv'
  BY <1>1, FewerServes
<1>3. ServeTypes'
  BY <1>1, SwitchKnows DEF SwitchKnown, ServeTypes
<1> QED BY <1>2, <1>3

LEMMA RetireCachedInv == ASSUME IInv, RetireCached PROVE IInv'
<1> DEFINE going == [switch EXCEPT !.pc = "boot"]
<1>1. SwitchKnown /\ switch.pc = "retire" /\ Switching
  BY SwitchKnows DEF RetireCached, Switching
<1>2. going \in SwitchState /\ going.pc = "boot" /\ going.env = switch.env /\ going.by = switch.by
  BY <1>1 DEF SwitchKnown, SwitchState
<1>3. switch' = going /\ alive' = alive \ {cached} /\ cached' = Browser
      /\ UNCHANGED <<turnVars, kernel, profileOf, leaked, calls, home, launched, servePid, mountVars, events>>
  BY DEF RetireCached, ShutDown
<1> HIDE DEF going
<1>4. ServesInv' /\ ServeTypes'
  BY <1>2, <1>3, ShutDownServes DEF RetireCached
<1>5. GuestsInv'
  BY <1>1, <1>2, <1>3 DEF SwitchKnown, GuestsInv, Up, Kept, EnvOf
<1>6. KernelTypes'
  BY <1>1, <1>2, <1>3, Idles DEF SwitchKnown, KernelTypes
<1> QED BY <1>1, <1>2, <1>3, <1>4, <1>5, <1>6, SwitchStepKeeps DEF turnVars, SwitchKnown

LEMMA BootInv == ASSUME IInv, NEW g \in Guest, Boot(g) PROVE IInv'
<1>1. SwitchKnown /\ switch.pc = "boot" /\ Switching /\ profileOf[g] = "browser" /\ g \in Kernel /\ g # Browser
  BY SwitchKnows, Idles DEF Boot, Switching
<1>2. /\ switch.env # "browser" /\ (kernel = Browser => cached = Browser) /\ Kept \subseteq {cached}
      /\ Up(kernel) /\ Up(cached) /\ (kernel # Browser => kernel = cached)
      /\ \A h \in alive \cup leaked : profileOf[h] # "browser"
  BY <1>1 DEF SwitchKnown, GuestsInv
<1>3. g \notin alive \cup leaked /\ g # kernel /\ g # cached
  BY <1>1, <1>2 DEF Up, Kept
<1>4. ArrivedAs(switch', switch, g, TRUE)
  BY <1>1, Arrival DEF Boot, SwitchKnown
<1>5. /\ profileOf' = [profileOf EXCEPT ![g] = switch.env] /\ alive' = alive \cup {g}
      /\ cached' = (IF kernel = Browser THEN g ELSE cached)
      /\ UNCHANGED <<turnVars, kernel, leaked, serveVars, mountVars, events>>
  BY DEF Boot
<1>6. switch' \in SwitchState /\ (Switching' => switch'.by = switch.by) /\ switch'.pc \in {"none", "abort", "stop"}
      /\ (switch'.pc = "stop" => switch'.kill = servePid)
      /\ (switch'.pc = "none" => kernel = Browser) /\ (switch'.pc = "abort" => kernel # Browser)
      /\ (switch'.pc # "none" => switch'.next = g) /\ (switch'.pc = "stop" => switch'.fresh = TRUE)
      /\ (~Switching' => switch.by = NoTurn)
  <2>1. switch'.pc = "abort" => switch.by = NoTurn
    BY <1>4 DEF ArrivedAs, Boot, Arrived, SwitchKnown, SwitchState
  <2> QED BY <1>1, <1>4, <2>1, Idles DEF ArrivedAs, Switching
<1>7. ServesInv'
  BY <1>5, <1>6, FewerServes DEF serveVars
<1>8. KernelTypes' /\ ServeTypes'
  BY <1>1, <1>5, <1>6 DEF SwitchKnown, KernelTypes, ServeTypes, serveVars, SwitchState
<1>9. GuestsInv'
  <2>1. Kept' = Kept \cup {g} /\ kernel' = kernel
    BY <1>3, <1>5 DEF Kept
  <2>2. \A h \in alive' \cup leaked' : profileOf'[h] # "browser"
    BY <1>1, <1>2, <1>5 DEF SwitchKnown, KernelTypes
  <2>3. CASE kernel = Browser
    <3>1. cached' = g /\ Kept' \subseteq {g}
      BY <1>1, <1>2, <1>5, <2>1, <2>3, Idles DEF Kept, KernelTypes, SwitchKnown
    <3> QED BY <1>1, <1>6, <2>1, <2>2, <2>3, <3>1 DEF GuestsInv, Up
  <2>4. CASE kernel # Browser
    <3>1. cached' = cached
      BY <1>5, <2>4
    <3> QED BY <1>1, <1>2, <1>3, <1>6, <2>1, <2>2, <2>4, <3>1 DEF GuestsInv, Up
  <2> QED BY <2>3, <2>4
<1> QED BY <1>1, <1>5, <1>6, <1>7, <1>8, <1>9, SwitchStepKeeps DEF turnVars, serveVars, SwitchKnown

\* A switch that is over leaves every turn but its own where it was.
LEMMA OverInv ==
    ASSUME IInv, Switching, switch' = NoSwitch, UNCHANGED <<running, stopping, runAbort, pending, repoint, mountVars, calls>>,
           turn' \in [Turn -> TurnState], \A t \in Turn : t # switch.by => turn'[t].pc = turn[t].pc,
           events' \in Nat, KernelTypes', ServeTypes', ServesInv', GuestsInv'
    PROVE  IInv'
BY Idles, SwitchStepKeeps DEF Switching

LEMMA EndsTyped ==
    ASSUME IInv, SwitchEnds
    PROVE  turn' \in [Turn -> TurnState] /\ (\A t \in Turn : t # switch.by => turn'[t].pc = turn[t].pc)
<1>1. turn \in [Turn -> TurnState]
  BY SwitchKnows DEF SwitchKnown
<1>2. \A t \in Turn : [turn[t] EXCEPT !.pc = "after"] \in TurnState
  BY <1>1 DEF TurnState
<1> QED BY <1>1, <1>2 DEF SwitchEnds

LEMMA BootFailsInv == ASSUME IInv, BootFails PROVE IInv'
<1>1. SwitchKnown /\ switch.pc = "boot" /\ Switching /\ SwitchEnds /\ switch' = NoSwitch
  BY SwitchKnows DEF BootFails, Switching, SwitchEnds
<1>2. UNCHANGED <<running, stopping, runAbort, pending, repoint, kernel, cached, profileOf, alive, leaked,
                  serveVars, mountVars, events>>
  BY DEF BootFails
<1>3. ServesInv'
  BY <1>1, <1>2, Idles, FewerServes DEF serveVars
<1>4. KernelTypes' /\ ServeTypes'
  BY <1>1, <1>2, Idles DEF SwitchKnown, KernelTypes, ServeTypes, serveVars
<1>5. GuestsInv'
  BY <1>1, <1>2, Idles DEF SwitchKnown, GuestsInv, Up, Kept
<1> QED BY <1>1, <1>2, <1>3, <1>4, <1>5, EndsTyped, OverInv DEF SwitchKnown, serveVars

LEMMA CancelSwitchInv == ASSUME IInv, CancelSwitch PROVE IInv'
<1>1. SwitchKnown /\ switch.pc = "abort" /\ Switching /\ SwitchEnds /\ switch' = NoSwitch /\ alive' = alive \ {switch.next}
  BY SwitchKnows DEF CancelSwitch, Switching, SwitchEnds, ShutDown
<1>2. UNCHANGED <<running, stopping, runAbort, pending, repoint, kernel, cached, profileOf, leaked,
                  calls, home, launched, servePid, mountVars, events>>
  BY DEF CancelSwitch
<1>3. ServesInv' /\ ServeTypes'
  BY <1>1, <1>2, Idles, ShutDownServes DEF CancelSwitch
<1>4. KernelTypes'
  BY <1>1, <1>2, Idles DEF SwitchKnown, KernelTypes
<1>5. GuestsInv'
  BY <1>1, <1>2, Idles DEF SwitchKnown, GuestsInv, Up, Kept
<1> QED BY <1>1, <1>2, <1>3, <1>4, <1>5, EndsTyped, OverInv DEF SwitchKnown

LEMMA RetireOutgoingInv == ASSUME IInv, RetireOutgoing PROVE IInv'
<1>1. SwitchKnown /\ switch.pc = "last" /\ Switching /\ SwitchEnds /\ switch' = NoSwitch /\ alive' = alive \ {switch.out}
  BY SwitchKnows DEF RetireOutgoing, Switching, SwitchEnds, ShutDown
<1>2. UNCHANGED <<running, stopping, runAbort, pending, repoint, kernel, profileOf, leaked,
                  calls, home, launched, servePid, mountVars, events>> /\ cached' = switch.next
  BY DEF RetireOutgoing
<1>3. ServesInv' /\ ServeTypes'
  BY <1>1, <1>2, Idles, ShutDownServes DEF RetireOutgoing
<1>4. KernelTypes'
  BY <1>1, <1>2, Idles DEF SwitchKnown, KernelTypes
<1>5. GuestsInv'
  BY <1>1, <1>2, Idles DEF SwitchKnown, GuestsInv, Up, Kept
<1> QED BY <1>1, <1>2, <1>3, <1>4, <1>5, EndsTyped, OverInv DEF SwitchKnown

\* stopTrackedServe has returned: no server is tracked, and only calls know those that go on.
LEMMA StoppedServes ==
    ASSUME IInv, switch.pc = "stop", StopTrackedServe
    PROVE  /\ ServesInv' /\ ServeTypes' /\ UNCHANGED <<calls, home, launched>>
<1>1. SwitchKnown /\ servePid \in {NoServer, switch.kill}
  BY SwitchKnows DEF SwitchKnown, ServesInv
<1>2. servePid' = NoServer
  BY <1>1 DEF StopTrackedServe
<1>3. /\ live' = live \ Stopped /\ lost' = (lost \cup ({servePid} \ {servePid'})) \cap live'
      /\ UNCHANGED <<calls, home, launched>>
  BY DEF StopTrackedServe, LetsGo
<1>4. ASSUME NEW s \in live'
      PROVE  s <= launched /\ (s \in lost' \/ Called(s))
  <2>1. /\ s \in live /\ s # switch.kill /\ ~(kernel = Browser /\ home[s] = Browser)
        /\ Accounted(s) /\ s <= launched /\ s # NoServer
    BY <1>1, <1>3, <1>4, Idles DEF Stopped, SwitchKnown, ServesInv, ServeTypes
  <2> QED BY <1>1, <1>3, <1>4, <2>1 DEF Accounted
<1>5. ServesInv'
  BY <1>2, <1>3, <1>4, NoneTracked
<1>6. ServeTypes'
  BY <1>1, <1>2, <1>3 DEF SwitchKnown, ServeTypes
<1> QED BY <1>3, <1>5, <1>6

\* The swap: the target is up, and another guest that was active is the last to go.
LEMMA SwapInv ==
    ASSUME IInv, Swap, switch.pc = "clean" \/ (switch.pc = "stop" /\ (kernel = Browser \/ switch.next # Browser)),
           ServesInv', ServeTypes', UNCHANGED <<running, stopping, runAbort, pending, repoint, cached, profileOf, alive,
                                                leaked, calls, mountVars, events>>
    PROVE  IInv'
<1> DEFINE going == [switch EXCEPT !.pc = "last", !.out = kernel]
           twoGuests == kernel # Browser /\ switch.next # Browser
           followed == [t \in Turn |-> IF t = repoint THEN [turn[t] EXCEPT !.on = switch.next] ELSE turn[t]]
<1>1. SwitchKnown /\ Switching /\ Up(kernel) /\ Up(cached) /\ (kernel # Browser => kernel = cached)
  BY SwitchKnows DEF SwitchKnown, GuestsInv, Switching
<1>2. going \in SwitchState /\ going.pc = "last" /\ going.out = kernel /\ going.next = switch.next /\ going.by = switch.by
  BY <1>1 DEF SwitchKnown, SwitchState
<1>3. /\ kernel' = switch.next /\ switch' = (IF twoGuests THEN going ELSE NoSwitch)
      /\ turn' = [t \in Turn |-> IF t = switch.by /\ ~twoGuests THEN [followed[t] EXCEPT !.pc = "after"] ELSE followed[t]]
  BY DEF Swap
<1>4. \A t \in Turn : /\ followed[t] \in TurnState /\ followed[t].pc = turn[t].pc
                      /\ [followed[t] EXCEPT !.pc = "after"] \in TurnState
  BY <1>1 DEF SwitchKnown, TurnState
<1> HIDE DEF going, followed
<1>5. turn' \in [Turn -> TurnState] /\ \A t \in Turn : t # switch.by \/ Switching' => turn'[t].pc = turn[t].pc
  BY <1>2, <1>3, <1>4, Idles DEF Switching
<1>6. KernelTypes'
  BY <1>1, <1>2, <1>3, Idles DEF SwitchKnown, KernelTypes
<1>7. GuestsInv'
  <2>1. \A g \in alive' \cup leaked' : profileOf'[g] # "browser"
    BY <1>1 DEF SwitchKnown, GuestsInv
  <2>2. CASE twoGuests
    <3>1. /\ switch.next \notin {Browser, kernel} /\ Kept \subseteq {cached, switch.next} /\ Up(switch.next)
          /\ kernel = cached /\ kernel # Browser
      BY <1>1, <2>2 DEF SwitchKnown, GuestsInv
    <3> QED BY <1>1, <1>2, <1>3, <2>1, <2>2, <3>1 DEF GuestsInv, Up, Kept
  <2>3. CASE ~twoGuests
    <3>1. switch.next \in {Browser, cached} /\ Kept \subseteq {cached}
      BY <1>1, <2>3 DEF SwitchKnown, GuestsInv
    <3> QED BY <1>1, <1>3, <2>1, <2>3, <3>1, Idles DEF GuestsInv, Up, Kept
  <2> QED BY <2>2, <2>3
<1>8. Switching' => switch'.by = switch.by
  BY <1>2, <1>3, Idles DEF Switching
<1>9. events' \in Nat
  BY <1>1 DEF SwitchKnown
<1> QED BY <1>1, <1>5, <1>6, <1>7, <1>8, <1>9, SwitchStepKeeps

LEMMA CopyWorkspaceInv == ASSUME IInv, CopyWorkspace PROVE IInv'
<1>1. SwitchKnown /\ switch.pc = "stop" /\ Switching /\ ServesInv' /\ ServeTypes' /\ UNCHANGED <<calls, home, launched>>
  BY SwitchKnows, StoppedServes DEF CopyWorkspace, Switching
<1>2. UNCHANGED <<running, stopping, runAbort, pending, repoint, cached, profileOf, alive, leaked, mountVars, events>>
  BY DEF CopyWorkspace
<1>3. CASE kernel # Browser /\ switch.next = Browser
  <2> DEFINE going == [switch EXCEPT !.pc = "clean"]
  <2>1. going \in SwitchState /\ going.pc = "clean" /\ going.next = switch.next /\ going.by = switch.by
    BY <1>1 DEF SwitchKnown, SwitchState
  <2>2. switch' = going /\ UNCHANGED <<kernel, turn>>
    BY <1>3 DEF CopyWorkspace
  <2> HIDE DEF going
  <2>3. GuestsInv'
    BY <1>1, <1>2, <1>3, <2>1, <2>2 DEF SwitchKnown, GuestsInv, Up, Kept
  <2>4. KernelTypes'
    BY <1>1, <1>2, <2>1, <2>2 DEF SwitchKnown, KernelTypes
  <2> QED BY <1>1, <1>2, <2>1, <2>2, <2>3, <2>4, SwitchStepKeeps DEF SwitchKnown
<1>4. CASE ~(kernel # Browser /\ switch.next = Browser)
  <2>1. Swap
    BY <1>4 DEF CopyWorkspace
  <2> QED BY <1>1, <1>2, <1>4, <2>1, SwapInv
<1> QED BY <1>3, <1>4

LEMMA CopyFailsInv == ASSUME IInv, CopyFails PROVE IInv'
<1>1. SwitchKnown /\ switch.pc = "stop" /\ Switching /\ ServesInv' /\ ServeTypes' /\ UNCHANGED <<calls, home, launched>>
  BY SwitchKnows, StoppedServes DEF CopyFails, Switching
<1>2. /\ UNCHANGED <<running, stopping, runAbort, pending, repoint, kernel, cached, profileOf, alive, mountVars>>
      /\ SwitchEnds /\ switch' = NoSwitch
      /\ leaked' = (IF switch.fresh /\ kernel # Browser THEN leaked \cup {switch.next} ELSE leaked)
  BY DEF CopyFails, SwitchEnds
<1>3. events' \in Nat
  BY <1>1 DEF SwitchKnown, CopyFails, Event
<1>4. switch.fresh /\ kernel # Browser => switch.next \in Guest /\ switch.next \in Kept /\ switch.next \notin {kernel, cached}
  BY <1>1, Idles DEF SwitchKnown, GuestsInv, Up
<1>5. KernelTypes'
  BY <1>1, <1>2, <1>4, Idles DEF SwitchKnown, KernelTypes
<1>6. GuestsInv'
  <2>1. Up(kernel)' /\ Up(cached)'
    BY <1>1, <1>2, <1>4 DEF SwitchKnown, GuestsInv, Up, Kept
  <2>2. Kept' \subseteq {cached} /\ (kernel # Browser => kernel = cached)
    BY <1>1, <1>2, <1>4 DEF SwitchKnown, GuestsInv, Kept, SwitchState
  <2>3. \A g \in alive' \cup leaked' : profileOf'[g] # "browser"
    BY <1>1, <1>2, <1>4 DEF SwitchKnown, GuestsInv, Kept
  <2> QED BY <1>2, <2>1, <2>2, <2>3, Idles DEF GuestsInv
<1> QED BY <1>1, <1>2, <1>3, <1>5, <1>6, EndsTyped, OverInv

LEMMA CleanedInv == ASSUME IInv, Cleaned PROVE IInv'
<1>1. SwitchKnown /\ switch.pc = "clean" /\ Swap /\ servePid = NoServer /\ kernel # Browser
  BY SwitchKnows DEF Cleaned, SwitchKnown, ServesInv, GuestsInv
<1>2. UNCHANGED <<running, stopping, runAbort, pending, repoint, cached, profileOf, alive, leaked, serveVars, mountVars, events>>
  BY DEF Cleaned
<1>3. \A s \in live' : s <= launched /\ (s \in lost' \/ Called(s))
  BY <1>1, <1>2, Idles DEF SwitchKnown, ServesInv, Accounted, serveVars, ServeTypes
<1>4. ServesInv'
  BY <1>1, <1>2, <1>3, NoneTracked DEF serveVars
<1>5. ServeTypes'
  BY <1>1, <1>2 DEF SwitchKnown, ServeTypes, serveVars
<1> QED BY <1>1, <1>2, <1>4, <1>5, SwapInv DEF serveVars

----
LEMMA NextInv == ASSUME IInv, [Next]_vars PROVE IInv'
<1>1. ASSUME NEW t \in Turn, \/ StartRun(t) \/ ReplyToRun(t) \/ SetupFails(t) \/ TurnStep(t) \/ AgentStep(t)
                             \/ Deny(t) \/ \E env \in Environment : Allow(t, env)
      PROVE  IInv'
  <2>1. CASE \E tool \in Tool : \E env \in Environment : CallTool(t, tool, env)
    <3>1. PICK tool \in Tool, env \in Environment : CallTool(t, tool, env)
      BY <2>1
    <3> QED BY <3>1, StartToolInv DEF CallTool
  <2>2. CASE \E env \in Environment : Allow(t, env)
    <3>1. PICK env \in Environment : Allow(t, env)
      BY <2>2
    <3>2. turn[t].tool \in Tool
      BY Types DEF IInv, TurnTypes, TurnState
    <3> QED BY <3>1, <3>2, StartToolInv DEF Allow
  <2>3. CASE \/ StartRun(t) \/ ReplyToRun(t) \/ SetupFails(t) \/ TurnStep(t) \/ Finish(t) \/ AskModel(t)
             \/ Deny(t) \/ \E tool \in Tool : AskApproval(t, tool)
    BY <2>3, TurnStepInv DEF TurnStep
  <2>4. Tool = {"switch", "serve", "tool"}
    BY DEF Tool
  <2> QED BY <1>1, <2>1, <2>2, <2>3, <2>4 DEF AgentStep
<1>2. CASE StopRun \/ MountFirst \/ SwapFolder \/ SwapFlushed \/ LoadEnds \/ LoadFails \/ UNCHANGED vars
  BY <1>2, AsideInv
<1>3. CASE SwitchStep \/ CopyFails \/ \E env \in Environment : SwitchEnvironment(env)
  BY <1>3, SwitchBeginsInv, RetireCachedInv, BootInv, BootFailsInv, CancelSwitchInv, CopyWorkspaceInv, CleanedInv,
     RetireOutgoingInv, CopyFailsInv DEF SwitchStep
<1>4. CASE PanelKills \/ PanelKilled \/ \E c \in Caller : ServeStep(c)
  BY <1>4, PanelKillsInv, PanelKilledInv, ServerStartsInv, PidKnownInv, ServeFailsInv, ServeSettlesInv DEF ServeStep
<1> QED BY <1>1, <1>2, <1>3, <1>4 DEF Next

LEMMA AlwaysInv == Spec => []IInv
<1>1. Init => IInv
  BY InitInv
<1>2. IInv /\ [Next]_vars => IInv'
  BY NextInv
<1> QED BY <1>1, <1>2, PTL DEF Spec

----
\* Every variable keeps its type, for any number of turns, images, guests and servers.
THEOREM TypeCorrect == Spec => []TypeOK
<1>1. IInv => TypeOK
  BY DEF IInv
<1> QED BY <1>1, AlwaysInv, PTL

\* The tracked server is one of the active kernel; a server nobody let go of is never left behind
\* on another kernel; between switches one guest runs at most, the cached one, and the active
\* kernel is up.  However turns, the user's switches, serve calls and failures interleave.
THEOREM KernelsTrackedHolds == Spec => []KernelsTracked
<1>1. IInv => KernelsTracked
  <2> SUFFICES ASSUME IInv PROVE KernelsTracked
    OBVIOUS
  <2>1. TrackedHere
    BY DEF IInv, ServesInv
  <2>2. NoStrandedServe
    BY <2>1, Idles DEF IInv, ServesInv, Accounted, Called, NoStrandedServe, TrackedHere, TypeOK
  <2>3. OneGuest
    BY Idles DEF IInv, GuestsInv, OneGuest, Up, Kept, KernelUp, Switching
  <2> QED BY <2>1, <2>2, <2>3 DEF KernelsTracked
<1> QED BY <1>1, AlwaysInv, PTL

----
\* Approvals and diffs, while turns do not overlap.

\* A step that shows or hides no prompt and moves no diff.
LEMMA SameTurns ==
    ASSUME TurnsInv, UNCHANGED <<kernel, pending, repoint>>,
           \A t \in Turn : /\ turn'[t].on = turn[t].on /\ (turn'[t].pc = "gate" <=> turn[t].pc = "gate")
                           /\ turn'[t].pc \in Undiffed => turn[t].pc \in Undiffed
    PROVE  TurnsInv'
BY DEF TurnsInv

\* A step of turn t alone, which every other turn may be idle meanwhile.
LEMMA AloneInv ==
    ASSUME IInv, TurnsInv, NEW t \in Turn, NEW new \in TurnState, turn' = [turn EXCEPT ![t] = new], kernel' = kernel,
           new.pc = "gate" <=> pending' = t, pending' \in {pending, t, NoTurn}, turn[t].pc # "idle" \/ pending' = pending,
           new.on # NoKernel => new.on = kernel, new.on # NoKernel <=> repoint' = t, repoint' \in {repoint, t, NoTurn},
           new.pc \in Undiffed => new.on = NoKernel, OneAtATime, turn[t].pc # "idle" \/ repoint' = repoint
    PROVE  TurnsInv'
<1>1. turn \in [Turn -> TurnState]
  BY SwitchKnows DEF SwitchKnown
<1>2. turn'[t] = new /\ \A u \in Turn : u # t => turn'[u] = turn[u]
  BY <1>1
<1>3. ASSUME NEW u \in Turn, u # t
      PROVE  /\ turn'[u].pc = "gate" <=> pending' = u
             /\ turn'[u].on # NoKernel <=> repoint' = u
             /\ turn'[u].on # NoKernel => turn'[u].on = kernel
             /\ turn'[u].pc \in Undiffed => turn'[u].on = NoKernel
  <2>1. CASE turn[t].pc = "idle"
    BY <1>2, <1>3, <2>1 DEF TurnsInv
  <2>2. CASE turn[t].pc # "idle"
    <3>1. turn[u].pc = "idle"
      BY <1>3, <2>2 DEF OneAtATime, Overlapping
    <3>2. turn[u].on = NoKernel /\ pending # u /\ repoint # u
      BY <3>1 DEF TurnsInv, Undiffed
    <3> QED BY <1>2, <1>3, <3>1, <3>2, SessionAssumption
  <2> QED BY <2>1, <2>2
<1> QED BY <1>2, <1>3 DEF TurnsInv

LEMMA TurnStepFollows ==
    ASSUME IInv, TurnsInv, OneAtATime, NEW t \in Turn,
           \/ StartRun(t) \/ ReplyToRun(t) \/ SetupFails(t) \/ TurnStep(t) \/ AgentStep(t)
           \/ Deny(t) \/ \E env \in Environment : Allow(t, env)
    PROVE  TurnsInv'
<1>1. /\ turn \in [Turn -> TurnState] /\ turn[t] \in TurnState /\ kernel \in Kernel /\ t # NoTurn
      /\ (turn[t].pc = "gate" <=> pending = t) /\ (turn[t].on # NoKernel => turn[t].on = kernel)
      /\ (turn[t].on # NoKernel <=> repoint = t)
      /\ (turn[t].pc \in Undiffed => turn[t].on = NoKernel)
  BY SwitchKnows, SessionAssumption DEF SwitchKnown, TurnsInv
<1>2. CASE StartRun(t) \/ SetupFails(t) \/ FinishAborted(t) \/ Finish(t) \/ AskModel(t) \/ ToolEnds(t)
  <2>1. \E pc \in {"saving", "settle", "model", "after"} :
           /\ turn' = [turn EXCEPT ![t].pc = pc] /\ (pc = "saving" => turn[t].pc = "idle")
           /\ turn[t].pc # "gate" /\ UNCHANGED <<kernel, pending, repoint>>
    BY <1>2, Idles DEF StartRun, SetupFails, FinishAborted, Finish, AskModel, ToolEnds, TurnGoes, AtCheckpoint, kernelVars
  <2>2. PICK pc \in {"saving", "settle", "model", "after"} :
           /\ turn' = [turn EXCEPT ![t].pc = pc] /\ (pc = "saving" => turn[t].pc = "idle")
           /\ turn[t].pc # "gate" /\ UNCHANGED <<kernel, pending, repoint>>
    BY <2>1
  <2>3. \A u \in Turn : /\ turn'[u].on = turn[u].on /\ (turn'[u].pc = "gate" <=> turn[u].pc = "gate")
                        /\ turn'[u].pc \in Undiffed => turn[u].pc \in Undiffed
    BY <1>1, <2>2 DEF TurnState, Undiffed
  <2> QED BY <2>2, <2>3, SameTurns
<1>3. CASE RunSaved(t) \/ ReplyToRun(t)
  <2> DEFINE new == [IdleTurn EXCEPT !.pc = "setup"]
  <2>1. /\ turn' = [turn EXCEPT ![t] = new] /\ UNCHANGED <<kernel, pending, repoint>>
        /\ turn[t].pc \in {"saving", "idle"}
    BY <1>3, Idles DEF RunSaved, ReplyToRun, RunAgentTurn, kernelVars
  <2>2. new \in TurnState /\ new.pc = "setup" /\ new.on = NoKernel
    BY Idles DEF TurnState
  <2> HIDE DEF new
  <2> QED BY <1>1, <2>1, <2>2, AloneInv DEF Undiffed
<1>4. CASE Setup(t)
  <2>1. PICK pc \in {"ready", "settle"} : turn' = [turn EXCEPT ![t].pc = pc, ![t].on = kernel]
    BY <1>4 DEF Setup
  <2> DEFINE new == [turn[t] EXCEPT !.pc = pc, !.on = kernel]
  <2>2. turn' = [turn EXCEPT ![t] = new] /\ turn[t].pc = "setup" /\ pending' = pending /\ kernel' = kernel /\ repoint' = t
    BY <1>1, <1>4, <2>1 DEF Setup, kernelVars
  <2>3. new \in TurnState /\ new.pc = pc /\ new.on = kernel
    BY <1>1 DEF TurnState
  <2> HIDE DEF new
  <2> QED BY <1>1, <2>2, <2>3, Idles, AloneInv DEF Undiffed
<1>5. CASE Settle(t)
  <2> DEFINE new == [turn[t] EXCEPT !.pc = "diff", !.on = NoKernel]
  <2>1. turn' = [turn EXCEPT ![t] = new] /\ turn[t].pc = "settle" /\ UNCHANGED <<pending, kernel>> /\ repoint' = NoTurn
    BY <1>1, <1>5 DEF Settle, kernelVars
  <2>2. new \in TurnState /\ new.pc = "diff" /\ new.on = NoKernel
    BY <1>1 DEF TurnState
  <2> HIDE DEF new
  <2> QED BY <1>1, <2>1, <2>2, AloneInv DEF Undiffed
<1>6. CASE EndTurn(t)
  <2>1. turn' = [turn EXCEPT ![t] = IdleTurn] /\ turn[t].pc = "diff" /\ pending' = NoTurn /\ UNCHANGED <<kernel, repoint>>
    BY <1>6 DEF EndTurn, kernelVars
  <2> QED BY <1>1, <2>1, Idles, AloneInv DEF Undiffed
<1>7. CASE \E tool \in Tool : AskApproval(t, tool)
  <2>1. PICK tool \in Tool : AskApproval(t, tool)
    BY <1>7
  <2> DEFINE new == [turn[t] EXCEPT !.pc = "gate", !.tool = tool]
  <2>2. /\ turn' = [turn EXCEPT ![t] = new] /\ turn[t].pc \in {"model", "after"} /\ pending' = t
        /\ UNCHANGED <<kernel, repoint>>
    BY <1>1, <2>1 DEF AskApproval, kernelVars
  <2>3. new \in TurnState /\ new.pc = "gate" /\ new.on = turn[t].on
    BY <1>1 DEF TurnState
  <2> HIDE DEF new
  <2> QED BY <1>1, <2>2, <2>3, AloneInv DEF Undiffed
<1>8. CASE Deny(t)
  <2> DEFINE new == [turn[t] EXCEPT !.pc = "after", !.tool = "tool"]
  <2>1. turn' = [turn EXCEPT ![t] = new] /\ turn[t].pc = "gate" /\ pending' = NoTurn /\ UNCHANGED <<kernel, repoint>>
    BY <1>1, <1>8 DEF Deny, kernelVars
  <2>2. new \in TurnState /\ new.pc = "after" /\ new.on = turn[t].on
    BY <1>1 DEF TurnState, Tool
  <2> HIDE DEF new
  <2> QED BY <1>1, <2>1, <2>2, AloneInv DEF Undiffed
<1>9. CASE \E tool \in Tool : \E env \in Environment : CallTool(t, tool, env) \/ (tool = turn[t].tool /\ Allow(t, env))
  <2>1. PICK tool \in Tool, env \in Environment : CallTool(t, tool, env) \/ (tool = turn[t].tool /\ Allow(t, env))
    BY <1>9
  <2>2. /\ StartTool(t, tool, env) /\ turn[t].pc \in {"model", "after", "gate"}
        /\ pending' = IF turn[t].pc = "gate" THEN NoTurn ELSE pending
    BY <2>1 DEF CallTool, Allow
  <2>3. PICK pc \in {"after"} \cup Tool : turn' = [turn EXCEPT ![t].pc = pc, ![t].tool = "tool"]
    BY <2>2 DEF StartTool
  <2> DEFINE new == [turn[t] EXCEPT !.pc = pc, !.tool = "tool"]
  <2>4. turn' = [turn EXCEPT ![t] = new] /\ UNCHANGED <<kernel, repoint>>
    BY <1>1, <2>2, <2>3 DEF StartTool
  <2>5. new \in TurnState /\ new.pc \in {"after", "tool", "switch", "serve"} /\ new.on = turn[t].on
    BY <1>1 DEF TurnState, Tool
  <2> HIDE DEF new
  <2> QED BY <1>1, <2>2, <2>4, <2>5, AloneInv DEF Undiffed
<1>10. Tool = {"switch", "serve", "tool"} /\ turn[t].tool \in Tool
  BY <1>1 DEF TurnState, Tool
<1> QED BY <1>2, <1>3, <1>4, <1>5, <1>6, <1>7, <1>8, <1>9, <1>10 DEF TurnStep, AgentStep

\* The Stop button hides the prompt and denies its turn.
LEMMA StopFollows == ASSUME IInv, TurnsInv, Stop, UNCHANGED <<kernel, repoint>> PROVE TurnsInv'
<1>1. turn \in [Turn -> TurnState] /\ \A t \in Turn : turn[t].pc = "gate" <=> pending = t
  BY SwitchKnows DEF SwitchKnown, TurnsInv
<1>2. CASE ~running
  BY <1>2, SameTurns DEF Stop
<1>3. CASE running
  <2> DEFINE new(t) == [turn[t] EXCEPT !.aborted = @ \/ t = runAbort,
                                       !.pc = IF t = pending THEN "after" ELSE @,
                                       !.tool = IF t = pending THEN "tool" ELSE @]
  <2>1. turn' = [t \in Turn |-> new(t)] /\ pending' = NoTurn
    BY <1>3 DEF Stop
  <2>2. ASSUME NEW t \in Turn
        PROVE  new(t).on = turn[t].on /\ (new(t).pc = IF t = pending THEN "after" ELSE turn[t].pc)
    <3>1. turn[t] \in TurnState
      BY <1>1
    <3> QED BY <3>1 DEF TurnState
  <2> HIDE DEF new
  <2> QED BY <1>1, <2>1, <2>2, SessionAssumption DEF TurnsInv, Undiffed
<1> QED BY <1>2, <1>3

\* A turn whose switch or serve call is over, on the same kernel.
LEMMA ReturnFollows ==
    ASSUME IInv, TurnsInv, NEW c \in Caller, UNCHANGED <<kernel, pending, repoint>>,
           c # NoTurn => turn[c].pc \in {"switch", "serve"},
           turn' = [t \in Turn |-> IF t = c THEN [turn[t] EXCEPT !.pc = "after"] ELSE turn[t]]
    PROVE  TurnsInv'
<1>1. turn \in [Turn -> TurnState]
  BY SwitchKnows DEF SwitchKnown
<1>2. \A t \in Turn : /\ turn'[t].on = turn[t].on /\ (turn'[t].pc = "gate" <=> turn[t].pc = "gate")
                      /\ turn'[t].pc \in Undiffed => turn[t].pc \in Undiffed
  BY <1>1, SessionAssumption DEF TurnState, Undiffed
<1> QED BY <1>2, SameTurns

\* The swap: the diff of the turn in flight follows.
LEMMA SwapFollows ==
    ASSUME IInv, TurnsInv, Swap, Switching, UNCHANGED <<pending, repoint>>
    PROVE  TurnsInv'
<1> DEFINE followed == [t \in Turn |-> IF t = repoint THEN [turn[t] EXCEPT !.on = switch.next] ELSE turn[t]]
           over == ~(kernel # Browser /\ switch.next # Browser)
<1>1. /\ turn \in [Turn -> TurnState] /\ switch.next \in Kernel
      /\ \A t \in Turn : switch.by = t => turn[t].pc = "switch"
  BY SwitchKnows, SessionAssumption DEF SwitchKnown, IInv, CallersInv, Caller
<1>2. /\ kernel' = switch.next
      /\ turn' = [t \in Turn |-> IF t = switch.by /\ over THEN [followed[t] EXCEPT !.pc = "after"] ELSE followed[t]]
  BY DEF Swap
<1>3. ASSUME NEW t \in Turn
      PROVE  /\ turn'[t].on = IF t = repoint THEN switch.next ELSE turn[t].on
             /\ turn'[t].pc = turn[t].pc \/ (turn[t].pc = "switch" /\ turn'[t].pc = "after")
  <2>1. turn[t] \in TurnState
    BY <1>1
  <2>2. followed[t] \in TurnState /\ followed[t].pc = turn[t].pc /\ followed[t].on = IF t = repoint THEN switch.next ELSE turn[t].on
    BY <1>1, <2>1 DEF TurnState
  <2> HIDE DEF followed
  <2>3. turn'[t] = IF t = switch.by /\ over THEN [followed[t] EXCEPT !.pc = "after"] ELSE followed[t]
    BY <1>2
  <2> QED BY <1>1, <2>2, <2>3 DEF TurnState
<1> HIDE DEF followed, over
<1>4. ASSUME NEW t \in Turn
      PROVE  /\ turn'[t].pc = "gate" <=> pending' = t
             /\ turn'[t].on # NoKernel => turn'[t].on = kernel'
             /\ turn'[t].on # NoKernel <=> repoint' = t
             /\ turn'[t].pc \in Undiffed => turn'[t].on = NoKernel
  BY <1>1, <1>2, <1>3, Idles DEF TurnsInv, Undiffed
<1> QED BY <1>4 DEF TurnsInv

LEMMA NextFollows == ASSUME IInv, TurnsInv, OneAtATime, [Next]_vars PROVE TurnsInv'
<1>1. CASE UNCHANGED <<turn, kernel, pending, repoint>>
  BY <1>1, SameTurns
<1>2. ASSUME NEW t \in Turn, \/ StartRun(t) \/ ReplyToRun(t) \/ SetupFails(t) \/ TurnStep(t) \/ AgentStep(t)
                             \/ Deny(t) \/ \E env \in Environment : Allow(t, env)
      PROVE  TurnsInv'
  BY <1>2, TurnStepFollows
<1>3. CASE StopRun \/ SwapFolder
  BY <1>3, StopFollows DEF StopRun, SwapFolder, kernelVars
<1>4. CASE SwitchStep \/ CopyFails \/ \E env \in Environment : SwitchEnvironment(env)
  <2>1. CASE EventsSettled \/ RetireCached \/ (\E g \in Guest : Boot(g)) \/ \E env \in Environment : SwitchEnvironment(env)
    BY <1>1, <2>1 DEF EventsSettled, RetireCached, Boot, SwitchEnvironment, turnVars
  <2>2. CASE BootFails \/ CancelSwitch \/ CopyFails \/ RetireOutgoing
    <3>1. Switching /\ SwitchEnds /\ UNCHANGED <<kernel, pending, repoint>> /\ switch.by \in Caller
      BY <2>2, SwitchKnows DEF BootFails, CancelSwitch, CopyFails, RetireOutgoing, Switching, SwitchKnown, SwitchState
    <3>2. switch.by # NoTurn => turn[switch.by].pc = "switch"
      BY <3>1 DEF IInv, CallersInv
    <3> QED BY <3>1, <3>2, ReturnFollows DEF SwitchEnds
  <2>3. CASE CopyWorkspace \/ Cleaned
    <3>1. Switching /\ UNCHANGED <<pending, repoint>>
      BY <2>3 DEF CopyWorkspace, Cleaned, Switching
    <3>2. Swap \/ UNCHANGED <<kernel, turn>>
      BY <2>3 DEF CopyWorkspace, Cleaned
    <3> QED BY <1>1, <3>1, <3>2, SwapFollows
  <2> QED BY <1>4, <2>1, <2>2, <2>3 DEF SwitchStep
<1>5. CASE PanelKills \/ PanelKilled \/ \E c \in Caller : ServeStep(c)
  <2>1. CASE PanelKills \/ PanelKilled \/ \E c \in Caller : ServerStarts(c) \/ PidKnown(c)
    BY <1>1, <2>1 DEF PanelKills, PanelKilled, ServerStarts, PidKnown, turnVars, kernelVars
  <2>2. CASE \E c \in Caller : ServeFails(c) \/ ServeSettles(c)
    <3>1. PICK c \in Caller : ServeFails(c) \/ ServeSettles(c)
      BY <2>2
    <3>2. CallReturns(c) /\ calls[c].pc # "idle" /\ UNCHANGED <<kernel, pending, repoint>>
      BY <3>1 DEF ServeFails, ServeSettles, kernelVars
    <3>3. c # NoTurn => turn[c].pc = "serve"
      BY <3>2 DEF IInv, CallersInv, Caller
    <3> QED BY <3>2, <3>3, ReturnFollows DEF CallReturns
  <2> QED BY <1>5, <2>1, <2>2 DEF ServeStep
<1>6. CASE MountFirst \/ SwapFlushed \/ LoadEnds \/ LoadFails \/ UNCHANGED vars
  BY <1>1, <1>6 DEF MountFirst, SwapFlushed, LoadEnds, LoadFails, vars, turnVars, kernelVars
<1> QED BY <1>2, <1>3, <1>4, <1>5, <1>6 DEF Next

\* In a behaviour whose turns do not overlap, a turn waits for an approval exactly while its prompt
\* is on screen, and its diff is collected on the active kernel through every switch: makeApprove's
\* and repointRunDiff's promise.  Two turns may start at once (startRun awaits a save before
\* `running` is set), and then the second takes over the one prompt and the one subscription.
THEOREM TurnsFollowedHolds == Spec /\ []OneAtATime => []TurnsFollowed
<1>1. Init => TurnsInv
  BY Idles, SessionAssumption DEF Init, TurnsInv, Undiffed
<1>2. IInv /\ TurnsInv /\ OneAtATime /\ [Next]_vars => TurnsInv'
  BY NextFollows
<1>3. IInv /\ TurnsInv => TurnsFollowed
  BY DEF TurnsInv, TurnsFollowed, ApprovalReachable, DiffFollows
<1> QED BY <1>1, <1>2, <1>3, AlwaysInv, PTL DEF Spec

\* So it is wherever the user's slots hold one turn: the instance that is model-checked.
COROLLARY OneTurnFollowed ==
    ASSUME \A t, u \in Turn : t = u
    PROVE  Spec => []TurnsFollowed
<1>1. OneAtATime
  BY DEF OneAtATime, Overlapping
<1> QED BY <1>1, TurnsFollowedHolds, PTL
====
