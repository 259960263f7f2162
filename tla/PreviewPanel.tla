---- MODULE PreviewPanel ----
(* What the Preview panel shows (PreviewPanel.tsx, preview-select.ts), the servers its Run button and the agent's      *)
(* open_preview start (run-serve.ts, Studio.runServe), the ports they open on either kernel (registry.ts, serve.ts,   *)
(* vm-runtime.ts) and what the agent's preview tools read (preview-tools.ts).  React renders what an event changes     *)
(* before the next event (use-studio.ts: useSyncExternalStore).                                                       *)
EXTENDS Naturals, FiniteSets, SequencesExt

CONSTANTS
    Port, None,
    Pid,                \* the pids of one guest, reused when nothing holds them any more
    Runs, Serves        \* what the panel runs and open_preview serves: records of port, loop (its bind), want, bundle (first)

VARIABLES
    kind,           \* the kernel: "browser" or "vm"
    listen,         \* listen[p]: None, or the server of a port: who started it, its pid, loopback-only
    last,           \* VM: what guestd's watcher saw of each port
    late,           \* commands that still start though their call has settled
    open,           \* Studio.openPorts, which on the VM are also the runtime's
    servePid,       \* the tracked server; 0 for none
    call,           \* the serve calls of the panel and of open_preview
    stopping,       \* a click on × that awaits its kill
    request,        \* Studio.previewRequest; fresh while its nonce is not handled
    selected, pending, prev, own,       \* the panel: its selection, the port it awaits, prevPorts and openedPorts
    due, swapped,   \* a render is due; and with it the reset of a kernel switch
    transport,      \* Studio.previewTransport
    frame,          \* the iframe: its port, its document ("blank" until it commits), loaded since the last request
    tool,           \* the agent: idle, serving, or in a preview tool, and how long that waits
    asked           \* ghost: the port that the last act of agent or user asked for; over: the act came while a Run was
                    \* in flight, which it does not cancel; taken: that Run has since taken the view

runtime == <<kind, listen, last, late>>
panel == <<selected, pending, prev, own>>
vars == <<runtime, open, servePid, call, stopping, request, panel, due, swapped, transport, frame, tool, asked>>

Caller == {"panel", "tool"}
NoCall == [pc |-> "none", cmd |-> None, sel |-> None, pid |-> 0, opened |-> <<>>, loop |-> FALSE]
NoRequest == [port |-> None, fresh |-> FALSE]       \* one whose nonce is handled is as good as none
Nothing == [port |-> None, agent |-> FALSE, over |-> FALSE, taken |-> FALSE]
Act(p, byAgent) == [port |-> p, agent |-> byAgent, over |-> call["panel"].pc # "none", taken |-> FALSE]

Init ==
    /\ kind \in {"browser", "vm"}
    /\ listen = [p \in Port |-> None] /\ last = [p \in Port |-> "none"] /\ late = {}
    /\ open = <<>> /\ servePid = 0 /\ call = [c \in Caller |-> NoCall] /\ stopping = None
    /\ request = NoRequest
    /\ selected = None /\ pending = None /\ prev = <<>> /\ own = {}
    /\ due = FALSE /\ swapped = FALSE /\ transport \in {"pending", "ready"} /\ frame = None
    /\ tool = [pc |-> "idle", waited |-> 0] /\ asked = Nothing

Opened == ToSet(open)

\* The ports of s that are not in ps, in their order.
Less(s, ps) ==
    LET of[n \in 0 .. Len(s)] == IF n = 0 THEN <<>> ELSE IF s[n] \in ps THEN of[n - 1] ELSE Append(of[n - 1], s[n])
    IN  of[Len(s)]

viewedPort == IF selected \in Opened THEN selected ELSE None

----
(* Ports. *)

\* A call hears port.opened while it is subscribed: one of the VM until the first, one of the browser until its command ended.
Hears(k) == /\ k.pc \in {"run", "up"} \/ (k.pc = "exit0" /\ kind = "browser" /\ k.opened = <<>>)
            /\ ~(kind = "vm" /\ (k.opened # <<>> \/ k.loop))

\* port.opened reaches Studio and the calls.
Announces(calls, p) ==
    /\ open' = IF p \in Opened THEN open ELSE Append(open, p)
    /\ call' = [c \in Caller |-> IF Hears(calls[c]) THEN [calls[c] EXCEPT !.opened = Append(@, p)] ELSE calls[c]]
    /\ due' = TRUE

\* closePort: a registration of the browser kernel is freed; on the VM it is bookkeeping, whoever listens.
ClosePorts(ps, servers) ==
    /\ open' = Less(open, ps)
    /\ listen' = IF kind = "browser" THEN [p \in Port |-> IF p \in ps THEN None ELSE servers[p]] ELSE servers

Without(pid) == [p \in Port |-> IF listen[p] # None /\ listen[p].pid = pid /\ pid # 0 THEN None ELSE listen[p]]

FreePid == CHOOSE n \in Pid : /\ n # servePid /\ \A p \in Port : listen[p] # None => listen[p].pid # n
                              /\ \A c \in Caller : call[c].pid # n /\ (stopping # None => stopping.pid # n)
                              /\ \A l \in late : l.pid # n
NewPid == IF kind = "vm" THEN FreePid ELSE 0

\* The command of a call reaches its bind: ctx.serve or a listen in the guest; the port may be taken.
Binds(c) ==
    /\ call[c].pc = "run" /\ call[c].cmd.port # None
    /\ LET p == call[c].cmd.port IN
       IF listen[p] # None THEN
         /\ call' = [call EXCEPT ![c].pc = "exit1"]
         /\ UNCHANGED <<listen, open, due>>
       ELSE
         /\ listen' = [listen EXCEPT ![p] = [by |-> c, pid |-> call[c].pid, loop |-> call[c].cmd.loop]]
         /\ IF kind = "browser" THEN Announces([call EXCEPT ![c].pc = "up"], p)
            ELSE call' = [call EXCEPT ![c].pc = "up"] /\ UNCHANGED <<open, due>>
    /\ UNCHANGED <<kind, last, late, servePid, stopping, request, panel, swapped, transport, frame, tool, asked>>

\* A command that opens no port ends, well or not; one of the browser that registered ends well; a server crashes.
Exits(c, ok) ==
    /\ \/ call[c].pc = "run" /\ call[c].cmd.port = None
       \/ call[c].pc = "up" /\ ok /\ kind = "browser"
       \/ call[c].pc = "up" /\ ~ok /\ kind = "vm" /\ listen[call[c].cmd.port] = None
    /\ call' = [call EXCEPT ![c].pc = IF ok THEN "exit0" ELSE "exit1"]
    /\ UNCHANGED <<runtime, open, servePid, stopping, request, panel, due, swapped, transport, frame, tool, asked>>

\* A command whose call has settled reaches its bind.
BindsLate(l) ==
    /\ late' = late \ {l}
    /\ IF listen[l.cmd.port] # None THEN UNCHANGED <<listen, open, call, due>>
       ELSE /\ listen' = [listen EXCEPT ![l.cmd.port] = [by |-> l.by, pid |-> l.pid, loop |-> l.cmd.loop]]
            /\ IF kind = "browser" THEN Announces(call, l.cmd.port) ELSE UNCHANGED <<open, call, due>>
    /\ UNCHANGED <<kind, last, servePid, stopping, request, panel, swapped, transport, frame, tool, asked>>

\* The agent starts a server in its own shell.
ShellServe(p) ==
    /\ tool.pc = "idle" /\ listen[p] = None
    /\ listen' = [listen EXCEPT ![p] = [by |-> "shell", pid |-> 0, loop |-> FALSE]]
    /\ IF kind = "browser" THEN Announces(call, p) ELSE UNCHANGED <<open, call, due>>
    /\ UNCHANGED <<kind, last, late, servePid, stopping, request, panel, swapped, transport, frame, tool, asked>>

\* A process of the guest ends.
Dies(p) ==
    /\ kind = "vm" /\ listen[p] # None
    /\ listen' = [listen EXCEPT ![p] = None]
    /\ UNCHANGED <<kind, last, late, open, servePid, call, stopping, request, panel, due, swapped, transport, frame, tool, asked>>

Left(ps) == IF asked.port \in ps THEN Nothing ELSE asked
Forgets(ps) == asked' = Left(ps)

\* port_watcher reports a change of one port between two of its polls, onGuestPortEvent announces it.
Poll(p) ==
    LET now == IF listen[p] = None THEN "none" ELSE IF listen[p].loop THEN "loop" ELSE "any" IN
    /\ kind = "vm" /\ now # last[p]
    /\ last' = [last EXCEPT ![p] = now]
    /\ CASE now = "none" -> /\ open' = Less(open, {p})
                            /\ due' = (due \/ p \in Opened) /\ Forgets({p}) /\ UNCHANGED call
         [] now = "loop" -> /\ call' = [c \in Caller |-> IF Hears(call[c]) /\ p \notin Opened THEN [call[c] EXCEPT !.loop = TRUE] ELSE call[c]]
                            /\ UNCHANGED <<open, due, asked>>
         [] now = "any" /\ p \in Opened -> UNCHANGED <<open, call, due, asked>>
         [] now = "any" /\ p \notin Opened -> Announces(call, p) /\ UNCHANGED asked
    /\ UNCHANGED <<kind, listen, late, servePid, stopping, request, panel, swapped, transport, frame, tool>>

----
(* The panel's selection. *)

\* mutant: the port that is shown is only selected again.
ReducedNoReload(ports) ==
    LET target == IF ~request.fresh THEN None ELSE IF request.port # None THEN request.port ELSE IF ports # <<>> THEN Last(ports) ELSE None
        one == IF target \in ToSet(ports) THEN [sel |-> target, pend |-> None] ELSE [sel |-> selected, pend |-> IF target # None THEN target ELSE pending]
        two == IF one.pend \in ToSet(ports) THEN [sel |-> one.pend, pend |-> None] ELSE one
        fresh == Less(ports, ToSet(prev))
    IN  [sel |-> IF two.sel \notin ToSet(ports) /\ fresh # <<>> THEN Last(fresh) ELSE two.sel, pend |-> two.pend, reload |-> FALSE]

\* reducePreviewSelection: a new request aims at its port, or at the latest one; a port that was awaited is selected
\* when it opens; a new port fills an empty view.
reducePreviewSelection(ports) ==
    LET target == IF ~request.fresh THEN None ELSE IF request.port # None THEN request.port ELSE IF ports # <<>> THEN Last(ports) ELSE None
        one == IF target \in ToSet(ports) THEN [sel |-> target, pend |-> None] ELSE [sel |-> selected, pend |-> IF target # None THEN target ELSE pending]
        two == IF one.pend \in ToSet(ports) THEN [sel |-> one.pend, pend |-> None] ELSE one
        fresh == Less(ports, ToSet(prev))
    IN  [sel |-> IF two.sel \notin ToSet(ports) /\ fresh # <<>> THEN Last(fresh) ELSE two.sel, pend |-> two.pend,
         reload |-> target \in ToSet(ports) /\ target = selected]

\* PreviewStage: the iframe is keyed by port and nonce, and mounted while a port is viewed and the page has its id.
Mounted(sel, reload) ==
    IF sel \notin Opened \/ transport # "ready" THEN None
    ELSE IF frame # None /\ frame.port = sel /\ ~reload THEN frame
    ELSE [port |-> sel, doc |-> "blank", since |-> FALSE]

\* A commit with its effects: the reducer first, then the reset of a kernel switch.
Render ==
    LET next == reducePreviewSelection(open)
        sel == IF swapped THEN None ELSE next.sel
    IN
    /\ due
    /\ selected' = sel /\ pending' = IF swapped THEN None ELSE next.pend
    /\ prev' = IF swapped THEN <<>> ELSE open
    /\ own' = IF swapped THEN {} ELSE own
    /\ frame' = Mounted(sel, next.reload)
    /\ asked' = IF swapped THEN Nothing ELSE IF request.fresh /\ request.port = None /\ open # <<>>
                THEN [asked EXCEPT !.port = Last(open)] ELSE asked
    /\ request' = NoRequest /\ due' = FALSE /\ swapped' = FALSE
    /\ UNCHANGED <<runtime, open, servePid, call, stopping, transport, tool>>

\* view: the user's pick supersedes an unfulfilled request.
View(p) ==
    /\ p \in Opened
    /\ pending' = None /\ selected' = p /\ frame' = Mounted(p, FALSE)
    /\ asked' = Act(p, FALSE)
    /\ UNCHANGED <<runtime, open, servePid, call, stopping, request, prev, own, due, swapped, transport, tool>>

\* What the user leaves in view.
Stays(ps) == asked' = IF viewedPort \in ps \cup {None} THEN Nothing ELSE Act(viewedPort, FALSE)

\* stop: × closes its port, or kills the tracked server first and closes them all.
StopClick(p) ==
    /\ p \in Opened /\ stopping = None
    /\ pending' = None
    /\ IF servePid # 0 THEN
         /\ stopping' = [pid |-> servePid, sel |-> selected]
         /\ Stays({}) /\ UNCHANGED <<listen, open, selected, due>>
       ELSE
         /\ ClosePorts({p}, listen)
         /\ selected' = IF selected = p THEN None ELSE selected
         /\ Stays({p}) /\ due' = TRUE /\ UNCHANGED stopping
    /\ UNCHANGED <<kind, last, late, servePid, call, request, prev, own, swapped, transport, frame, tool>>

\* The kill of killTrackedServe returns: whatever is tracked by then is forgotten.
StopReturns ==
    /\ stopping # None
    /\ ClosePorts(Opened, Without(stopping.pid))
    /\ servePid' = 0 /\ own' = {} /\ stopping' = None
    /\ selected' = IF stopping.sel \in Opened THEN None ELSE selected
    /\ Forgets(Opened) /\ due' = TRUE
    /\ UNCHANGED <<kind, last, late, call, request, pending, prev, swapped, transport, frame, tool>>

----
(* The panel's Run. *)

\* doRun goes on to its action: the command, or the bundle before it.
Begun(k) == [k EXCEPT !.pc = IF k.cmd.bundle THEN "bundle" ELSE "run", !.pid = IF k.cmd.bundle THEN 0 ELSE NewPid]

\* handleRun, doRun: close-then-serve.
RunClick(r) ==
    LET k == [NoCall EXCEPT !.cmd = r, !.sel = selected] IN
    /\ call["panel"].pc = "none"
    /\ IF servePid # 0 THEN
         /\ call' = [call EXCEPT !["panel"] = [k EXCEPT !.pc = "kill", !.pid = servePid]]
         /\ asked' = [asked EXCEPT !.over = FALSE]
         /\ UNCHANGED <<listen, open, own, due>>
       ELSE
         /\ ClosePorts(own, listen) /\ own' = {} /\ due' = (own # {})
         /\ asked' = [Left(own) EXCEPT !.over = FALSE]
         /\ call' = [call EXCEPT !["panel"] = Begun(k)]
    /\ UNCHANGED <<kind, last, late, servePid, stopping, request, selected, pending, prev, swapped, transport, frame, tool>>

RunKilled ==
    /\ call["panel"].pc = "kill"
    /\ ClosePorts(Opened, Without(call["panel"].pid))
    /\ servePid' = 0 /\ own' = {} /\ due' = TRUE /\ Forgets(Opened)
    /\ call' = [call EXCEPT !["panel"] = Begun(@)]
    /\ UNCHANGED <<kind, last, late, stopping, request, selected, pending, prev, swapped, transport, frame, tool>>

\* bundleAndRun: the bundle fails, or is served.
Bundled(ok) ==
    /\ call["panel"].pc = "bundle"
    /\ call' = [call EXCEPT !["panel"] = IF ok THEN [@ EXCEPT !.pc = "run", !.pid = NewPid] ELSE NoCall]
    /\ UNCHANGED <<runtime, open, servePid, stopping, request, panel, due, swapped, transport, frame, tool, asked>>

\* A call settles: by the first port it heard of, by a loopback bind, by its command's end or by VM_SERVE_TIMEOUT_MS.
Succeeds(k) == IF k.opened = <<>> THEN k.pc = "exit0" /\ kind = "browser" ELSE kind = "vm" \/ k.pc # "exit1"
MaySettle(k) == k.pc \in {"exit0", "exit1"} \/ (k.pc \in {"run", "up"} /\ (k.opened # <<>> \/ kind = "vm"))
Detached(c) ==
    /\ servePid' = call[c].pid /\ call' = [call EXCEPT ![c] = NoCall]
    /\ late' = IF call[c].pc = "run" /\ call[c].cmd.port # None
               THEN late \cup {[by |-> c, pid |-> call[c].pid, cmd |-> call[c].cmd]} ELSE late

\* runCommand records what the run opened and views it.
RunSettles ==
    LET k == call["panel"]
        first == IF k.cmd.want # None /\ k.cmd.want \in Opened \cup ToSet(k.opened) THEN k.cmd.want
                 ELSE IF k.opened # <<>> THEN Head(k.opened) ELSE None
        ok == Succeeds(k)
        views == ok /\ (first # None \/ k.sel = None)
    IN
    /\ MaySettle(k) /\ Detached("panel")
    /\ own' = ToSet(k.opened)
    /\ selected' = IF ~ok THEN selected ELSE IF first # None THEN first
                   ELSE IF k.sel # None THEN selected ELSE IF open # <<>> THEN Head(open) ELSE None
    /\ frame' = Mounted(selected', ok)
    /\ asked' = IF ~views \/ pending # None THEN asked
                ELSE IF asked.over THEN [asked EXCEPT !.taken = TRUE]
                ELSE IF selected' \in Opened THEN [Nothing EXCEPT !.port = selected'] ELSE Nothing
    /\ UNCHANGED <<kind, listen, last, open, stopping, request, pending, prev, due, swapped, transport, tool>>

\* A call that settles after a switch records nothing.
StaleReturns(c) ==
    /\ call[c].pc = "stale"
    /\ call' = [call EXCEPT ![c] = NoCall] /\ own' = IF c = "panel" THEN {} ELSE own
    /\ UNCHANGED <<runtime, open, servePid, stopping, request, selected, pending, prev, due, swapped, transport, frame, tool, asked>>

----
(* The agent. *)

\* requestPreview.
Requests(p) ==
    /\ request' = [port |-> p, fresh |-> TRUE] /\ due' = TRUE
    /\ frame' = IF frame = None THEN None ELSE [frame EXCEPT !.since = FALSE]
    /\ asked' = Act(p, TRUE)

OpenPreview(p) ==
    /\ tool.pc = "idle" /\ Requests(p)
    /\ UNCHANGED <<runtime, open, servePid, call, stopping, panel, swapped, transport, tool>>

OpenWithCommand(r) ==
    /\ tool.pc = "idle"
    /\ tool' = [tool EXCEPT !.pc = "serve"]
    /\ call' = [call EXCEPT !["tool"] = [NoCall EXCEPT !.pc = "run", !.cmd = r, !.pid = NewPid]]
    /\ UNCHANGED <<runtime, open, servePid, stopping, request, panel, due, swapped, transport, frame, asked>>

OpenSettles ==
    LET k == call["tool"] IN
    /\ MaySettle(k) /\ Detached("tool") /\ tool' = [tool EXCEPT !.pc = "idle"]
    /\ IF Succeeds(k) /\ k.opened # <<>> THEN Requests(IF k.cmd.want \in ToSet(k.opened) THEN k.cmd.want ELSE Last(k.opened))
       ELSE UNCHANGED <<request, due, frame, asked>>
    /\ UNCHANGED <<kind, listen, last, open, stopping, panel, swapped, transport>>

\* The document of the frame commits.
FrameLoads ==
    /\ frame # None /\ frame.doc = "blank"
    /\ frame' = [frame EXCEPT !.doc = "ready", !.since = TRUE]
    /\ UNCHANGED <<runtime, open, servePid, call, stopping, request, panel, due, swapped, transport, tool, asked>>

TransportSettles(ok) ==
    /\ transport = "pending"
    /\ transport' = IF ok THEN "ready" ELSE "failed"
    /\ due' = TRUE
    /\ UNCHANGED <<runtime, open, servePid, call, stopping, request, panel, swapped, frame, tool, asked>>

\* preview_read, preview_logs and preview_click.
UseTool ==
    /\ tool.pc = "idle"
    /\ tool' = [pc |-> "read", waited |-> 0]
    /\ UNCHANGED <<runtime, open, servePid, call, stopping, request, panel, due, swapped, transport, frame, asked>>

\* mutant: no frame is the same as no preview, whatever the transport.
VerdictPlain == IF frame # None /\ frame.doc = "ready" THEN "doc"
    ELSE IF frame = None THEN (IF tool.waited >= 1 THEN "none" ELSE None)
    ELSE IF tool.waited = 2 THEN "loading" ELSE None

\* resolveDoc, one turn of its loop: the document, an error that names the cause, or None to poll again.  waited: 0 below
\* mountMs, 1 from there, 2 from timeoutMs.
Verdict == IF frame # None /\ frame.doc = "ready" THEN "doc"
    ELSE IF frame = None THEN (IF transport = "failed" THEN "failed" ELSE IF tool.waited = 0 THEN None
                               ELSE IF transport = "pending" THEN "pending" ELSE "none")
    ELSE IF tool.waited = 2 THEN "loading" ELSE None

ToolEnds ==
    /\ tool.pc \in {"read", "clicked"} /\ Verdict # None
    /\ tool' = [tool EXCEPT !.pc = "idle"]
    /\ UNCHANGED <<runtime, open, servePid, call, stopping, request, panel, due, swapped, transport, frame, asked>>

\* preview_click: the click may navigate; the document is resolved again, and the click is reported either way.
ToolClicks(navigates) ==
    /\ tool.pc = "read" /\ Verdict = "doc"
    /\ tool' = [pc |-> "clicked", waited |-> 0]
    /\ frame' = IF navigates THEN [frame EXCEPT !.doc = "blank"] ELSE frame
    /\ UNCHANGED <<runtime, open, servePid, call, stopping, request, panel, due, swapped, transport, asked>>

Tick ==
    /\ tool.pc \in {"read", "clicked"} /\ tool.waited < 2 /\ Verdict = None
    /\ tool' = [tool EXCEPT !.waited = @ + 1]
    /\ UNCHANGED <<runtime, open, servePid, call, stopping, request, panel, due, swapped, transport, frame, asked>>

\* A kernel switch, between two turns of the agent: stopTrackedServe, then another runtime.
Swap(k) ==
    /\ tool.pc = "idle"
    /\ kind' = k /\ listen' = [p \in Port |-> None] /\ last' = [p \in Port |-> "none"] /\ late' = {}
    /\ open' = <<>> /\ servePid' = 0
    /\ call' = [c \in Caller |-> IF call[c].pc = "bundle" THEN call[c] ELSE IF call[c].pc = "none" THEN NoCall ELSE [NoCall EXCEPT !.pc = "stale"]]
    /\ stopping' = None
    /\ due' = TRUE /\ swapped' = TRUE /\ asked' = Nothing
    /\ UNCHANGED <<request, panel, transport, frame, tool>>

----

\* Commands the user and the agent start, kernel switches.
Starts ==
    \/ \E r \in Runs : RunClick(r)
    \/ \E r \in Serves : OpenWithCommand(r)
    \/ \E k \in {"browser", "vm"} : Swap(k)

\* What else they do, crashes, and the end of the boot handshake.
Acts ==
    \/ \E p \in Port : Dies(p) \/ View(p) \/ StopClick(p) \/ ShellServe(p)
    \/ UseTool \/ \E p \in Port \cup {None} : OpenPreview(p)
    \/ \E b \in BOOLEAN : TransportSettles(b)

\* What follows.
Reacts ==
    \/ \E c \in Caller : Binds(c) \/ StaleReturns(c) \/ (\E b \in BOOLEAN : Exits(c, b))
    \/ \E l \in late : BindsLate(l)
    \/ \E p \in Port : Poll(p)
    \/ StopReturns \/ RunKilled \/ RunSettles \/ OpenSettles \/ FrameLoads \/ ToolEnds \/ Tick
    \/ \E b \in BOOLEAN : Bundled(b) \/ ToolClicks(b)

\* What an event changes is rendered before the next one.
Next == Render \/ (~due /\ (Starts \/ Acts \/ Reacts))

Spec == Init /\ [][Next]_vars

----
(* What the panel and the tools promise. *)

\* Once React has rendered, an open port that the agent or the user asked for last is the one in view, and for a request
\* of the agent with a document that was loaded after it.  A Run asks for the port it comes to view, once it settles.  No
\* later event of a port, no late server and no old request takes that view away.  One loss is known and not denied
\* here: a Run that was in flight when the act came takes the view when it settles (LastActKept).
LastActShown == ~due /\ ~asked.taken /\ asked.port \in Opened =>
    /\ viewedPort = asked.port
    /\ transport = "ready" => frame # None /\ frame.port = asked.port /\ (asked.agent /\ frame.doc = "ready" => frame.since)

\* The same of the view without the known loss, as preview-select.ts has it: "A selection the user made on a still-open
\* port is never yanked without a request".  The code does not keep it.
LastActKept == ~due /\ asked.port \in Opened => viewedPort = asked.port

\* A preview tool says of the preview what is true: a document is the one of the port last asked for, as of the request; a
\* missing frame is blamed on the transport if and only if the transport is to blame, and never on a preview that is open.
ToolsTruthful == [][tool.pc = "read" /\ tool'.pc = "idle" =>
    CASE Verdict = "doc" -> asked.port \in Opened /\ ~asked.taken => frame.port = asked.port /\ (asked.agent => frame.since)
      [] Verdict = "none" -> transport = "ready" /\ viewedPort = None
      [] Verdict \in {"pending", "failed"} -> transport = Verdict
      [] OTHER -> TRUE]_vars
====
