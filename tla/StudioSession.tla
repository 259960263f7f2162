---- MODULE StudioSession ----
(* The Studio's session: agent turns with their approvals and the Stop button, the switch *)
(* between the browser kernel and VM guests, the one preview server that is tracked, and   *)
(* a folder being mounted meanwhile (apps/web/src/lib/studio.ts, run-serve.ts and the loop *)
(* of packages/agent-core/src/agent.ts).  All of it runs on one thread; an action is the   *)
(* stretch between two awaits, and pc names the await a turn, the switch, a serve call or   *)
(* the mount is parked at.                                                                 *)
(* Left out: what is said to the model, the trace and its persistence, the files a turn     *)
(* writes, `Always allow` (an approval given at once), reloads of the page.                 *)
EXTENDS Naturals, FiniteSets

CONSTANTS
    Turn,           \* slots for agent turns: how many may be in flight
    NoTurn,         \* none; as a caller, the user
    Profile,        \* VM images: each is an environment, "browser" is one more
    MaxGuests,      \* bound: guests booted in a behaviour
    MaxServers,     \* bound: preview servers started
    MaxEvents       \* bound: clicks of the user, and failures

ASSUME SessionAssumption ==
    /\ NoTurn \notin Turn
    /\ "browser" \notin Profile
    /\ {MaxGuests, MaxServers, MaxEvents} \subseteq Nat

VARIABLES
    turn,           \* the turns in flight
    running, stopping,
    runAbort,       \* the turn whose controller the Stop button aborts
    pending,        \* pendingApproval: the turn whose prompt is on screen
    repoint,        \* repointRunDiff: the turn whose diff subscription follows a switch
    kernel,         \* the active kernel: 0 is the browser's, others are guests
    cached,         \* vmKernel: the guest kept for later, 0 when there is none
    profileOf,      \* the image each guest was booted from
    alive,          \* the guests that are running
    leaked,         \* ghost: guests dropped by a switch that threw after the boot
    switch,         \* the switch in flight
    calls,          \* runServe calls of the turns and (NoTurn) of the Preview panel
    home, live,     \* the kernel each server was started on, and those still running
    launched,       \* how many servers were started
    servePid,       \* the tracked server, 0 when there is none
    lost,           \* ghost: servers the tracking let go of without killing them
    mounted, swapping,
    load,           \* the mount in flight and the kernel whose filesystem it writes
    events          \* how many events are left

turnVars == <<turn, running, stopping, runAbort, pending, repoint>>
kernelVars == <<kernel, cached, profileOf, alive, leaked, switch>>
serveVars == <<calls, home, live, launched, servePid, lost>>
mountVars == <<mounted, swapping, load>>
vars == <<turnVars, kernelVars, serveVars, mountVars, events>>

Browser == 0
Guest == 1 .. MaxGuests
Kernel == 0 .. MaxGuests
NoKernel == MaxGuests + 1
Server == 1 .. MaxServers
NoServer == 0
Environment == Profile \cup {"browser"}
Caller == Turn \cup {NoTurn}

Tool == {"tool", "switch", "serve"}
TurnState == [pc : {"idle", "saving", "setup", "ready", "model", "gate", "after", "settle", "diff"} \cup Tool,
              aborted : BOOLEAN,        \* its AbortController
              tool : Tool,              \* the call an approval is asked for
              on : Kernel \cup {NoKernel}]      \* the kernel its diff is collected on
IdleTurn == [pc |-> "idle", aborted |-> FALSE, tool |-> "tool", on |-> NoKernel]

SwitchState == [pc : {"none", "events", "retire", "boot", "abort", "stop", "clean", "last"},
                env : Environment, by : Caller, next : Kernel, out : Kernel, fresh : BOOLEAN,
                kill : Server \cup {NoServer}]
NoSwitch == [pc |-> "none", env |-> "browser", by |-> NoTurn, next |-> Browser, out |-> Browser,
             fresh |-> FALSE, kill |-> NoServer]
Switching == switch.pc # "none"

CallState == [pc : {"idle", "kill", "asked", "started", "known"}, on : Kernel,
              server : Server \cup {NoServer}]
NoCall == [pc |-> "idle", on |-> Browser, server |-> NoServer]

EnvOf(k) == IF k = Browser THEN "browser" ELSE profileOf[k]

TypeOK ==
    /\ turn \in [Turn -> TurnState]
    /\ running \in BOOLEAN /\ stopping \in BOOLEAN
    /\ {runAbort, pending, repoint} \subseteq Caller
    /\ (running <=> runAbort # NoTurn) /\ (stopping => running)
    /\ kernel \in Kernel /\ cached \in Kernel
    /\ profileOf \in [Guest -> Environment]
    /\ alive \in SUBSET Guest /\ leaked \in SUBSET Guest
    /\ switch \in SwitchState
    /\ calls \in [Caller -> CallState]
    /\ home \in [Server -> Kernel] /\ live \in SUBSET Server
    /\ launched \in 0 .. MaxServers
    /\ servePid \in Server \cup {NoServer} /\ lost \in SUBSET Server
    /\ mounted \in BOOLEAN /\ swapping \in BOOLEAN
    /\ load \in [pc : {"none", "flush", "load"}, fs : Kernel]
    /\ events \in Nat

NoLoad == [pc |-> "none", fs |-> Browser]
LoadInto(k) == [pc |-> "load", fs |-> k]

Init ==
    /\ turn = [t \in Turn |-> IdleTurn]
    /\ running = FALSE /\ stopping = FALSE
    /\ runAbort = NoTurn /\ pending = NoTurn /\ repoint = NoTurn
    /\ kernel = Browser /\ cached = Browser
    /\ profileOf = [g \in Guest |-> "browser"]
    /\ alive = {} /\ leaked = {} /\ switch = NoSwitch
    /\ calls = [c \in Caller |-> NoCall]
    /\ home = [s \in Server |-> Browser] /\ live = {} /\ launched = 0
    /\ servePid = NoServer /\ lost = {}
    /\ mounted = FALSE /\ swapping = FALSE /\ load = NoLoad
    /\ events = MaxEvents

Event == events > 0 /\ events' = events - 1

----
\* A turn starts.

MayStart == ~running /\ ~Switching /\ ~swapping

\* startRun creates the run and awaits its first save; `running` is not set yet.
StartRun(t) ==
    /\ Event
    /\ turn[t] = IdleTurn /\ MayStart
    /\ turn' = [turn EXCEPT ![t].pc = "saving"]
    /\ UNCHANGED <<running, stopping, runAbort, pending, repoint, kernelVars, serveVars, mountVars>>

\* The head of runAgentTurn, up to the snapshot.
RunAgentTurn(t) ==
    /\ turn' = [turn EXCEPT ![t] = [IdleTurn EXCEPT !.pc = "setup"]]
    /\ running' = TRUE
    /\ runAbort' = t
    /\ UNCHANGED <<stopping, pending, repoint, kernelVars, serveVars, mountVars>>

RunSaved(t) == turn[t].pc = "saving" /\ RunAgentTurn(t) /\ UNCHANGED events

ReplyToRun(t) == Event /\ turn[t] = IdleTurn /\ MayStart /\ RunAgentTurn(t)

\* The snapshot is taken and the diff subscription made; building the agent may throw.
Setup(t) ==
    /\ turn[t].pc = "setup"
    /\ \E pc \in {"ready", "settle"} : turn' = [turn EXCEPT ![t].pc = pc, ![t].on = kernel]
    /\ repoint' = t
    /\ UNCHANGED <<running, stopping, runAbort, pending, kernelVars, serveVars, mountVars, events>>

SetupFails(t) ==
    /\ Event
    /\ turn[t].pc = "setup"
    /\ turn' = [turn EXCEPT ![t].pc = "settle"]
    /\ UNCHANGED <<running, stopping, runAbort, pending, repoint, kernelVars, serveVars, mountVars>>

----
\* The agent's loop: ready (before a model call), model (awaiting the model's answer), after (a
\* call of the answer was dealt with).  Each is followed by a checkpoint of the abort signal.

\* mutant: the checkpoint before a tool call is left out.
UnstoppedAlways(t) == TRUE

Unstopped(t) == ~turn[t].aborted

AtCheckpoint(t) == turn[t].pc \in {"ready", "model", "after"}

TurnGoes(t, pc) ==
    /\ turn' = [turn EXCEPT ![t].pc = pc]
    /\ UNCHANGED <<running, stopping, runAbort, pending, repoint, kernelVars, serveVars, mountVars, events>>

\* The run is over: stopped, finished by the model, out of steps, or the model call failed.
FinishAborted(t) == AtCheckpoint(t) /\ turn[t].aborted /\ TurnGoes(t, "settle")
Finish(t) == AtCheckpoint(t) /\ Unstopped(t) /\ TurnGoes(t, "settle")

AskModel(t) == turn[t].pc \in {"ready", "after"} /\ ~turn[t].aborted /\ TurnGoes(t, "model")

\* The synchronous head of a tool.  A switch is refused while one is in flight and answered at
\* once when it has nothing to do; a serve is refused during a switch.
StartTool(t, tool, env) ==
    LET refused == \/ tool # "tool" /\ Switching
                   \/ tool = "switch" /\ EnvOf(kernel) = env
    IN
    /\ turn' = [turn EXCEPT ![t].pc = IF refused THEN "after" ELSE tool, ![t].tool = "tool"]
    /\ switch' = IF tool = "switch" /\ ~refused
                 THEN [NoSwitch EXCEPT !.pc = "events", !.env = env, !.by = t] ELSE switch
    /\ calls' = IF tool = "serve" /\ ~refused
                THEN [calls EXCEPT ![t] = [NoCall EXCEPT !.pc = "asked", !.on = kernel]] ELSE calls
    /\ UNCHANGED <<running, stopping, runAbort, repoint, kernel, cached, profileOf, alive, leaked,
                   home, live, launched, servePid, lost, mountVars, events>>

CallTool(t, tool, env) ==
    /\ turn[t].pc \in {"model", "after"} /\ Unstopped(t)
    /\ StartTool(t, tool, env)
    /\ UNCHANGED pending

\* A gated call in Confirm mode parks the turn on the one approval prompt.
AskApproval(t, tool) ==
    /\ turn[t].pc \in {"model", "after"} /\ Unstopped(t)
    /\ turn' = [turn EXCEPT ![t].pc = "gate", ![t].tool = tool]
    /\ pending' = t
    /\ UNCHANGED <<running, stopping, runAbort, repoint, kernelVars, serveVars, mountVars, events>>

Allow(t, env) ==
    /\ pending = t /\ turn[t].pc = "gate"
    /\ StartTool(t, turn[t].tool, env)
    /\ pending' = NoTurn

Deny(t) ==
    /\ pending = t /\ turn[t].pc = "gate"
    /\ turn' = [turn EXCEPT ![t].pc = "after", ![t].tool = "tool"]
    /\ pending' = NoTurn
    /\ UNCHANGED <<running, stopping, runAbort, repoint, kernelVars, serveVars, mountVars, events>>

ToolEnds(t) == turn[t].pc = "tool" /\ TurnGoes(t, "after")

\* stopRun: abort the turn's signal and deny the prompt, if one is on screen.
Stop ==
    IF running
    THEN /\ stopping' = TRUE
         /\ turn' = [t \in Turn |->
                [turn[t] EXCEPT !.aborted = @ \/ t = runAbort,
                                !.pc = IF t = pending THEN "after" ELSE @,
                                !.tool = IF t = pending THEN "tool" ELSE @]]
         /\ pending' = NoTurn
    ELSE UNCHANGED <<stopping, turn, pending>>

StopRun ==
    /\ Event
    /\ running /\ Stop
    /\ UNCHANGED <<running, runAbort, repoint, kernelVars, serveVars, mountVars>>

----
\* The turn's `finally`.

Settle(t) ==
    /\ turn[t].pc = "settle"
    /\ turn' = [turn EXCEPT ![t].pc = "diff", ![t].on = NoKernel]
    /\ repoint' = NoTurn
    /\ UNCHANGED <<running, stopping, runAbort, pending, kernelVars, serveVars, mountVars, events>>

EndTurn(t) ==
    /\ turn[t].pc = "diff"
    /\ turn' = [turn EXCEPT ![t] = IdleTurn]
    /\ running' = FALSE /\ stopping' = FALSE
    /\ runAbort' = NoTurn /\ pending' = NoTurn
    /\ UNCHANGED <<repoint, kernelVars, serveVars, mountVars, events>>

----
\* The kernel switch.

\* The tracking lets go of the servers of S that are still running.
LetsGo(S) == lost' = (lost \cup S) \cap live'

\* A guest's processes go with it.
ShutDown(G) ==
    /\ alive' = alive \ G
    /\ live' = {s \in live : home[s] \notin G}
    /\ LetsGo({})

\* What follows once the target `next` is up: a user's switch gives way to a run that has
\* started meanwhile; otherwise the tracked server is stopped first.
Arrived(s, next, fresh) ==
    IF s.by = NoTurn /\ running
    THEN IF fresh /\ kernel # Browser THEN [s EXCEPT !.pc = "abort", !.next = next] ELSE NoSwitch
    ELSE [s EXCEPT !.pc = "stop", !.next = next, !.fresh = fresh, !.kill = servePid]

\* The browser kernel and the cached guest are reused; a cached guest of another profile is
\* retired before a new one boots, unless a guest is active.
Resolved(s) ==
    IF s.env = "browser" THEN Arrived(s, Browser, FALSE)
    ELSE IF cached # Browser /\ profileOf[cached] = s.env THEN Arrived(s, cached, FALSE)
    ELSE [s EXCEPT !.pc = IF kernel = Browser /\ cached # Browser THEN "retire" ELSE "boot"]

\* switchEnvironment, the user's.
SwitchEnvironment(env) ==
    /\ Event
    /\ EnvOf(kernel) # env /\ ~Switching /\ ~running
    /\ switch' = Resolved([NoSwitch EXCEPT !.env = env])
    /\ UNCHANGED <<turnVars, kernel, cached, profileOf, alive, leaked, serveVars, mountVars>>

\* switchEnvironmentForRun goes on when the pending file events are delivered.
EventsSettled ==
    /\ switch.pc = "events"
    /\ switch' = Resolved(switch)
    /\ UNCHANGED <<turnVars, kernel, cached, profileOf, alive, leaked, serveVars, mountVars, events>>

\* The end of a switch: a turn's tool returns.
SwitchEnds ==
    /\ switch' = NoSwitch
    /\ turn' = [t \in Turn |-> IF t = switch.by THEN [turn[t] EXCEPT !.pc = "after"] ELSE turn[t]]

RetireCached ==
    /\ switch.pc = "retire"
    /\ ShutDown({cached})
    /\ cached' = Browser
    /\ switch' = [switch EXCEPT !.pc = "boot"]
    /\ UNCHANGED <<turnVars, kernel, profileOf, leaked, calls, home, launched, servePid, mountVars, events>>

\* A guest booted while the browser kernel is active is cached at once.
Boot(g) ==
    /\ switch.pc = "boot"
    /\ profileOf[g] = "browser" /\ \A h \in 1 .. (g - 1) : profileOf[h] # "browser"
    /\ profileOf' = [profileOf EXCEPT ![g] = switch.env]
    /\ alive' = alive \cup {g}
    /\ cached' = IF kernel = Browser THEN g ELSE cached
    /\ switch' = Arrived(switch, g, TRUE)
    /\ UNCHANGED <<turnVars, kernel, leaked, serveVars, mountVars, events>>

BootFails ==
    /\ switch.pc = "boot"
    /\ SwitchEnds
    /\ UNCHANGED <<running, stopping, runAbort, pending, repoint, kernel, cached, profileOf, alive,
                   leaked, serveVars, mountVars, events>>

CancelSwitch ==
    /\ switch.pc = "abort"
    /\ SwitchEnds
    /\ ShutDown({switch.next})
    /\ UNCHANGED <<running, stopping, runAbort, pending, repoint, kernel, cached, profileOf, leaked,
                   calls, home, launched, servePid, mountVars, events>>

\* mutant: the turn's diff stays on the outgoing kernel.
SwapUnfollowed ==
    /\ kernel' = switch.next
    /\ IF kernel # Browser /\ switch.next # Browser
       THEN switch' = [switch EXCEPT !.pc = "last", !.out = kernel] /\ UNCHANGED turn
       ELSE SwitchEnds

\* The swap itself.  The outgoing guest is shut down last, when another guest replaces it.
Swap ==
    LET followed == [t \in Turn |-> IF t = repoint THEN [turn[t] EXCEPT !.on = switch.next] ELSE turn[t]]
        twoGuests == kernel # Browser /\ switch.next # Browser
    IN
    /\ kernel' = switch.next
    /\ switch' = IF twoGuests THEN [switch EXCEPT !.pc = "last", !.out = kernel] ELSE NoSwitch
    /\ turn' = [t \in Turn |-> IF t = switch.by /\ ~twoGuests THEN [followed[t] EXCEPT !.pc = "after"]
                               ELSE followed[t]]

\* stopTrackedServe returns: its kill went out when it was called, its ports are closed (which
\* frees them on the browser kernel only); then the workspace is copied.
Stopped == {switch.kill} \cup (IF kernel = Browser THEN {s \in live : home[s] = Browser} ELSE {})
StopTrackedServe ==
    /\ live' = live \ Stopped
    /\ servePid' = IF switch.kill # NoServer THEN NoServer ELSE servePid
    /\ LetsGo({servePid} \ {servePid'})
    /\ UNCHANGED <<calls, home, launched>>

CopyWorkspace ==
    /\ switch.pc = "stop"
    /\ StopTrackedServe
    /\ IF kernel # Browser /\ switch.next = Browser
       THEN switch' = [switch EXCEPT !.pc = "clean"] /\ UNCHANGED <<kernel, turn>>
       ELSE Swap
    /\ UNCHANGED <<running, stopping, runAbort, pending, repoint, cached, profileOf, alive, leaked,
                   mountVars, events>>

\* The copy throws: the switch is over, and a guest booted beside an active one is dropped.
CopyFails ==
    /\ Event
    /\ switch.pc = "stop"
    /\ StopTrackedServe
    /\ SwitchEnds
    /\ leaked' = IF switch.fresh /\ kernel # Browser THEN leaked \cup {switch.next} ELSE leaked
    /\ UNCHANGED <<running, stopping, runAbort, pending, repoint, kernel, cached, profileOf, alive, mountVars>>

\* cleanLeakedVmEntries has looked at the mounted folder.
Cleaned ==
    /\ switch.pc = "clean"
    /\ Swap
    /\ UNCHANGED <<running, stopping, runAbort, pending, repoint, cached, profileOf, alive, leaked,
                   serveVars, mountVars, events>>

RetireOutgoing ==
    /\ switch.pc = "last"
    /\ ShutDown({switch.out})
    /\ cached' = switch.next
    /\ SwitchEnds
    /\ UNCHANGED <<running, stopping, runAbort, pending, repoint, kernel, profileOf, leaked,
                   calls, home, launched, servePid, mountVars, events>>

----
\* Preview servers.

\* The panel's Run and its stop button first kill the tracked server; the stop button is there
\* during a switch too.  One of them at a time.
PanelKills ==
    /\ Event
    /\ calls[NoTurn] = NoCall
    /\ calls' = [calls EXCEPT ![NoTurn] = [NoCall EXCEPT !.pc = "kill", !.server = servePid]]
    /\ UNCHANGED <<turnVars, kernelVars, home, live, launched, servePid, lost, mountVars>>

\* killTrackedServe returns; the Run goes on with runServe, which a switch refuses.
PanelKilled ==
    LET killed == calls[NoTurn].server IN
    /\ calls[NoTurn].pc = "kill"
    /\ live' = live \ {killed}
    /\ servePid' = IF killed # NoServer THEN NoServer ELSE servePid
    /\ LetsGo({servePid} \ {servePid'})
    /\ \/ calls' = [calls EXCEPT ![NoTurn] = NoCall]
       \/ ~Switching /\ calls' = [calls EXCEPT ![NoTurn] = [NoCall EXCEPT !.pc = "asked", !.on = kernel]]
    /\ UNCHANGED <<turnVars, kernelVars, home, launched, mountVars, events>>

KernelUp(k) == k = Browser \/ k \in alive

\* The command is running on the captured kernel; on a guest its pid is not known yet.
ServerStarts(c) ==
    LET s == launched + 1 IN
    /\ calls[c].pc = "asked" /\ KernelUp(calls[c].on) /\ s \in Server
    /\ launched' = s
    /\ live' = live \cup {s}
    /\ home' = [home EXCEPT ![s] = calls[c].on]
    /\ calls' = [calls EXCEPT ![c].pc = "started", ![c].server = s]
    /\ UNCHANGED <<turnVars, kernelVars, servePid, lost, mountVars, events>>

PidKnown(c) ==
    /\ calls[c].pc = "started" /\ calls[c].on # Browser
    /\ calls' = [calls EXCEPT ![c].pc = "known"]
    /\ UNCHANGED <<turnVars, kernelVars, home, live, launched, servePid, lost, mountVars, events>>

CallReturns(c) ==
    /\ calls' = [calls EXCEPT ![c] = NoCall]
    /\ turn' = [t \in Turn |-> IF t = c THEN [turn[t] EXCEPT !.pc = "after"] ELSE turn[t]]

ServeFails(c) ==
    /\ calls[c].pc = "asked"
    /\ CallReturns(c)
    /\ UNCHANGED <<running, stopping, runAbort, pending, repoint, kernelVars, home, live, launched,
                   servePid, lost, mountVars, events>>

\* mutant: a switch that has not swapped the kernel yet is forgotten.
StaleAfterSwap(c) == kernel # calls[c].on

Stale(c) == kernel # calls[c].on \/ Switching

\* What a stale call kills: the pid it knows, or the ports it opened on the browser kernel.
Disposes(c, pid) == IF calls[c].on = Browser THEN {calls[c].server} ELSE {pid}

\* A port opened (any process's), the command ended, or the time ran out: the call settles.  On
\* a guest that may come before the reply to exec, and then it knows no pid.
ServeSettles(c) ==
    LET server == calls[c].server
        pid == IF calls[c].pc = "known" THEN server ELSE NoServer
        untracked == IF calls[c].on # Browser /\ pid = NoServer THEN {server} ELSE {}
    IN
    /\ calls[c].pc \in {"started", "known"}
    /\ CallReturns(c)
    /\ IF Stale(c)
       THEN live' = live \ Disposes(c, pid) /\ LetsGo(untracked) /\ UNCHANGED servePid
       ELSE servePid' = pid /\ UNCHANGED live /\ LetsGo(untracked \cup {servePid})
    /\ UNCHANGED <<running, stopping, runAbort, pending, repoint, kernelVars, home, launched, mountVars, events>>

----
\* Mounting a folder: the first, or a swap that stops the running turn and flushes its history.
\* One mount at a time.

\* The load clears the workspace of the kernel that is active and keeps to that one.  A first
\* mount suspends saves and turns only when the workspace was not empty.
MountFirst ==
    /\ Event
    /\ ~mounted /\ load = NoLoad
    /\ swapping' \in BOOLEAN
    /\ load' = LoadInto(kernel)
    /\ UNCHANGED <<turnVars, kernelVars, serveVars, mounted>>

SwapFolder ==
    /\ Event
    /\ mounted /\ load = NoLoad
    /\ swapping' = TRUE
    /\ Stop
    /\ load' = [NoLoad EXCEPT !.pc = "flush"]
    /\ UNCHANGED <<running, runAbort, repoint, kernelVars, serveVars, mounted>>

SwapFlushed ==
    /\ load.pc = "flush"
    /\ mounted' = FALSE
    /\ load' = LoadInto(kernel)
    /\ UNCHANGED <<turnVars, kernelVars, serveVars, swapping, events>>

LoadEnds ==
    /\ load.pc = "load" /\ KernelUp(load.fs)
    /\ mounted' = TRUE /\ swapping' = FALSE /\ load' = NoLoad
    /\ UNCHANGED <<turnVars, kernelVars, serveVars, events>>

\* The folder, or the filesystem of a guest shut down meanwhile, rejects.
LoadFails ==
    /\ load.pc # "none"
    /\ IF load.pc = "load" /\ ~KernelUp(load.fs) THEN UNCHANGED events ELSE Event
    /\ swapping' = FALSE /\ load' = NoLoad
    /\ UNCHANGED <<turnVars, kernelVars, serveVars, mounted>>

----
TurnStep(t) ==
    \/ RunSaved(t) \/ Setup(t) \/ FinishAborted(t) \/ ToolEnds(t) \/ Settle(t) \/ EndTurn(t)
AgentStep(t) ==
    \/ Finish(t) \/ AskModel(t)
    \/ \E tool \in {"switch", "serve", "tool"} :
        \/ AskApproval(t, tool)
        \/ \E env \in Environment : CallTool(t, tool, env)
SwitchStep ==
    \/ EventsSettled \/ RetireCached \/ (\E g \in Guest : Boot(g)) \/ BootFails \/ CancelSwitch
    \/ CopyWorkspace \/ Cleaned \/ RetireOutgoing
ServeStep(c) == ServerStarts(c) \/ PidKnown(c) \/ ServeFails(c) \/ ServeSettles(c)

Next ==
    \/ \E t \in Turn : \/ StartRun(t) \/ ReplyToRun(t) \/ SetupFails(t) \/ TurnStep(t) \/ AgentStep(t)
                       \/ Deny(t) \/ \E env \in Environment : Allow(t, env)
    \/ \E env \in Environment : SwitchEnvironment(env)
    \/ StopRun \/ SwitchStep \/ CopyFails
    \/ PanelKills \/ PanelKilled \/ \E c \in Caller : ServeStep(c)
    \/ MountFirst \/ SwapFolder \/ SwapFlushed \/ LoadEnds \/ LoadFails

\* Awaits of the page's own work end: saves, events, tools (a command that hangs is the one the
\* Stop button cannot end), a boot or its failure, and a serve call by its time-out.  The model
\* and the user owe no answer.
Fairness ==
    /\ \A t \in Turn : WF_vars(TurnStep(t))
    /\ WF_vars(SwitchStep)
    /\ WF_vars(PanelKilled)
    /\ \A c \in Caller : WF_vars(ServeStep(c))

Spec == Init /\ [][Next]_vars /\ Fairness

----
\* Properties.

\* A turn that waits for an approval is the one whose prompt is on screen, and a prompt on screen
\* has a turn waiting: makeApprove's "so the agent can never hang".
ApprovalReachable == \A t \in Turn : turn[t].pc = "gate" <=> pending = t

\* However a switch and a turn interleave, the turn's diff is collected on the kernel that its
\* tools change (repointRunDiff).
DiffFollows == \A t \in Turn : turn[t].on # NoKernel => turn[t].on = kernel

\* Turns and user: what a turn asks and what it shows of itself.
TurnsFollowed == ApprovalReachable /\ DiffFollows

\* The tracked pid is one of the active kernel: a kill by it never hits another kernel's process.
TrackedHere == servePid # NoServer => home[servePid] = kernel

\* A server that the tracking did not let go of is never left running on a kernel that was
\* switched away from, where nothing could stop it and its port would stay taken.
NoStrandedServe ==
    ~Switching =>
        \A s \in live : home[s] # kernel =>
            s \in lost \/ \E c \in Caller : calls[c].server = s

\* Between switches at most one guest runs, the cached one, and the active kernel is up; only a
\* switch whose workspace copy threw leaves one behind.
OneGuest ==
    /\ ~Switching => alive \ leaked \subseteq {cached}
    /\ KernelUp(kernel) /\ (cached # Browser => cached \in alive)

\* Servers and guests.
KernelsTracked == TrackedHere /\ NoStrandedServe /\ OneGuest

\* Stop ends the turn, whatever it is waiting for: no approval or model answer is needed.
StopEnds == \A t \in Turn : turn[t].aborted ~> turn[t].pc = "idle"
====
