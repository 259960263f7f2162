---- MODULE GuestProcesses ----
(* Processes of a VM guest: VmRuntime and its records, GuestdClient, the two directions of the *)
(* console channel, and guestd with its threads (packages/runtime-vm/src: vm-runtime.ts,        *)
(* guestd-client.ts, guest/guestd.py).  The host has one thread, whose steps are the handling   *)
(* of a frame and the continuations it releases; guestd has one for the frames and three for    *)
(* each command.  A frame is its type and the request it belongs to; output is counted.          *)
(* Left out: pids (a process is the call that started it), the bytes of frames and their         *)
(* resynchronisation, the PTY, ports, a boot after a shutdown.                                    *)
EXTENDS Naturals, Sequences, FiniteSets

CONSTANTS
    Call,       \* exec and spawn calls; each is made once
    Control,    \* kill and getProcesses calls; each is made once
    NoCall,
    Stream,     \* the streams of a process: its stdout and its stderr
    MaxChunks   \* bound: chunks written to a stream of a process

ASSUME GuestAssumption ==
    /\ NoCall \notin Call \cup Control
    /\ Call \cap Control = {}
    /\ MaxChunks \in Nat

VARIABLES
    boot,       \* how far VmRuntime.boot has come
    call,       \* what the host knows of each call
    ctl,        \* the control requests
    toGuest, fromGuest,     \* frames under way
    guest,      \* what each call's process and guestd's threads for it do
    listing     \* the getProcesses call guestd has listed /proc for and not answered yet

vars == <<boot, call, ctl, toGuest, fromGuest, guest, listing>>

\* pc: asked (no answer yet), started (STARTED was handled), tracked (there is a record), failed.
\* exit: what wait() resolves with; record: the state of the record.
Over == {"exited", "killed"}
CallState == [pc : {"idle", "asked", "started", "tracked", "failed"}, exit : {"none"} \cup Over,
              record : {"running"} \cup Over, got : [Stream -> 0 .. MaxChunks], ended : BOOLEAN]
CtlState == [pc : {"idle", "asked", "done", "failed"}, op : {"kill", "ps"}, of : Call \cup {NoCall},
             known : SUBSET Call,    \* the calls whose exit the host knew when it asked
             live : SUBSET Call]     \* the processes of the reply

\* pc: thread (run_command is on its way), run, dead (reaped), gone (its EXIT was sent).
\* child: a descendant holds the pipes; wrote and piped: what was written, what is not read yet.
GuestState == [pc : {"none", "thread", "run", "dead", "gone"}, killed : BOOLEAN, child : BOOLEAN,
               wrote : [Stream -> 0 .. MaxChunks], piped : [Stream -> 0 .. MaxChunks]]

Frame == [type : {"exec", "kill", "ps"}, id : Call \cup Control]
Reply == [type : {"started", "error", "chunk", "exit", "ack", "procs"}, id : Call \cup Control,
          stream : Stream \cup {"none"}, killed : BOOLEAN, live : SUBSET Call]

None == [s \in Stream |-> 0]
NotListing == [id |-> NoCall, live |-> {}]

TypeOK ==
    /\ boot \in {"off", "loading", "starting", "waking", "up", "failed", "down"}
    /\ call \in [Call -> CallState]
    /\ ctl \in [Control -> CtlState]
    /\ toGuest \in Seq(Frame) /\ fromGuest \in Seq(Reply)
    /\ guest \in [Call -> GuestState]
    /\ listing \in [id : Control \cup {NoCall}, live : SUBSET Call]
    /\ \A c \in Call :
        /\ call[c].pc \in {"idle", "failed"} => call[c].exit = "none"
        /\ call[c].record \in Over => call[c].record = call[c].exit
        /\ \A s \in Stream : guest[c].piped[s] <= guest[c].wrote[s]

Init ==
    /\ boot = "off"
    /\ call = [c \in Call |-> [pc |-> "idle", exit |-> "none", record |-> "running",
                               got |-> None, ended |-> FALSE]]
    /\ ctl = [q \in Control |-> [pc |-> "idle", op |-> "kill", of |-> NoCall, known |-> {}, live |-> {}]]
    /\ toGuest = <<>> /\ fromGuest = <<>> /\ listing = NotListing
    /\ guest = [c \in Call |-> [pc |-> "none", killed |-> FALSE, child |-> FALSE,
                                wrote |-> None, piped |-> None]]

----
\* VmRuntime.boot and shutdown.

BootGoes(from, to) ==
    /\ boot = from /\ boot' = to
    /\ UNCHANGED <<call, ctl, toGuest, fromGuest, guest, listing>>

Boot == BootGoes("off", "loading")
Loaded == BootGoes("loading", "starting")
EmulatorReady == BootGoes("starting", "waking")

\* guestd answers one of the pings; a dead or corrupt state never does.
Ready == BootGoes("waking", "up")

\* The inputs cannot be loaded, the emulator or guestd does not come up in time.
BootFails == \E pc \in {"loading", "starting", "waking"} : BootGoes(pc, "failed")

\* mutant: control requests are forgotten without an answer.
DisposeCallsOnly ==
    /\ call' = [c \in Call |->
            IF call[c].pc = "asked" THEN [call[c] EXCEPT !.pc = "failed", !.ended = TRUE]
            ELSE IF call[c].pc \in {"started", "tracked"} /\ call[c].exit = "none"
            THEN [call[c] EXCEPT !.exit = "killed", !.ended = TRUE] ELSE call[c]]
    /\ UNCHANGED ctl

\* GuestdClient.dispose settles what is in flight.
Dispose ==
    /\ call' = [c \in Call |->
            IF call[c].pc = "asked" THEN [call[c] EXCEPT !.pc = "failed", !.ended = TRUE]
            ELSE IF call[c].pc \in {"started", "tracked"} /\ call[c].exit = "none"
            THEN [call[c] EXCEPT !.exit = "killed", !.ended = TRUE] ELSE call[c]]
    /\ ctl' = [q \in Control |-> IF ctl[q].pc = "asked" THEN [ctl[q] EXCEPT !.pc = "done"] ELSE ctl[q]]

\* The emulator, and with it every process and frame, is gone.
Shutdown ==
    /\ boot = "up" /\ boot' = "down"
    /\ Dispose
    /\ toGuest' = <<>> /\ fromGuest' = <<>> /\ listing' = NotListing
    /\ guest' = [c \in Call |-> [guest[c] EXCEPT !.pc = IF @ = "none" THEN @ ELSE "gone", !.child = FALSE]]

----
\* Requests of the host.

Ask(type, id) == toGuest' = Append(toGuest, [type |-> type, id |-> id])

\* exec, spawn: after a shutdown they reject.
Exec(c) ==
    /\ boot \in {"up", "down"} /\ call[c].pc = "idle"
    /\ IF boot = "down"
       THEN call' = [call EXCEPT ![c].pc = "failed"] /\ UNCHANGED toGuest
       ELSE call' = [call EXCEPT ![c].pc = "asked"] /\ Ask("exec", c)
    /\ UNCHANGED <<boot, ctl, fromGuest, guest, listing>>

\* The awaits of exec and track return, then those of the record on its process.
Track(c) ==
    /\ call[c].pc = "started"
    /\ call' = [call EXCEPT ![c].pc = "tracked"]
    /\ UNCHANGED <<boot, ctl, toGuest, fromGuest, guest, listing>>

Records(c) == call[c].exit

RecordSettles(c) ==
    /\ call[c].pc = "tracked" /\ call[c].record = "running" /\ call[c].exit # "none"
    /\ call' = [call EXCEPT ![c].record = Records(c)]
    /\ UNCHANGED <<boot, ctl, toGuest, fromGuest, guest, listing>>

\* VmRuntime.kill has nothing to do for a record that is over; a handle's kill asks in any case.
Kill(q, c) ==
    /\ boot \in {"up", "down"} /\ ctl[q].pc = "idle" /\ call[c].pc = "tracked"
    /\ \/ /\ boot = "down" \/ call[c].record # "running"
          /\ ctl' = [ctl EXCEPT ![q] = [@ EXCEPT !.pc = "done", !.of = c]] /\ UNCHANGED toGuest
       \/ /\ boot = "up"
          /\ ctl' = [ctl EXCEPT ![q] = [@ EXCEPT !.pc = "asked", !.of = c]] /\ Ask("kill", q)
    /\ UNCHANGED <<boot, call, fromGuest, guest, listing>>

KnownOver == {c \in Call : call[c].exit # "none"}

\* VmRuntime.getProcesses.
GetProcesses(q) ==
    /\ boot \in {"up", "down"} /\ ctl[q].pc = "idle"
    /\ LET asks == [ctl[q] EXCEPT !.op = "ps", !.known = KnownOver] IN
       IF boot = "down"
       THEN ctl' = [ctl EXCEPT ![q] = [asks EXCEPT !.pc = "done"]] /\ UNCHANGED toGuest
       ELSE ctl' = [ctl EXCEPT ![q] = [asks EXCEPT !.pc = "asked"]] /\ Ask("ps", q)
    /\ UNCHANGED <<boot, call, fromGuest, guest, listing>>

----
\* guestd.

Plain(type, id) == [type |-> type, id |-> id, stream |-> "none", killed |-> FALSE, live |-> {}]
Send(reply) == fromGuest' = Append(fromGuest, reply)

Handles(type) ==
    /\ listing = NotListing
    /\ toGuest # <<>> /\ Head(toGuest).type = type
    /\ toGuest' = Tail(toGuest)

\* EXEC and SPAWN start a thread; SPAWN looks its command up first.
HandleExec ==
    LET c == Head(toGuest).id IN
    /\ Handles("exec")
    /\ \/ guest' = [guest EXCEPT ![c].pc = "thread"] /\ UNCHANGED fromGuest
       \/ Send(Plain("error", c)) /\ UNCHANGED guest
    /\ UNCHANGED <<boot, call, ctl, listing>>

\* KILL: the signal ends the process, or it has a handler for it; a process that is gone is no error.
HandleKill ==
    LET c == ctl[Head(toGuest).id].of IN
    /\ Handles("kill")
    /\ \/ guest' = [guest EXCEPT ![c] = IF @.pc = "run" THEN [@ EXCEPT !.pc = "dead", !.killed = TRUE] ELSE @]
       \/ UNCHANGED guest
    /\ Send(Plain("ack", Head(toGuest).id))
    /\ UNCHANGED <<boot, call, ctl, listing>>

\* PS: /proc is listed, or listing it fails; the threads may send before the reply goes out.
HandlePs ==
    /\ Handles("ps")
    /\ listing' = [id |-> Head(toGuest).id, live |-> {c \in Call : guest[c].pc = "run"}]
    /\ UNCHANGED <<boot, call, ctl, fromGuest, guest>>

SendProcs ==
    /\ listing # NotListing /\ listing' = NotListing
    /\ Send([Plain("procs", listing.id) EXCEPT !.live = listing.live]) \/ Send(Plain("error", listing.id))
    /\ UNCHANGED <<boot, call, ctl, toGuest, guest>>

\* mutant: an OSError of Popen ends the thread.
PopenFailsSilently(c) ==
    guest' = [guest EXCEPT ![c].pc = "none"] /\ UNCHANGED fromGuest

PopenFails(c) ==
    guest' = [guest EXCEPT ![c].pc = "none"] /\ Send(Plain("error", c))

\* run_command up to STARTED.
Popen(c) ==
    /\ guest[c].pc = "thread" /\ boot = "up"
    /\ \/ guest' = [guest EXCEPT ![c].pc = "run"] /\ Send(Plain("started", c))
       \/ PopenFails(c)
    /\ UNCHANGED <<boot, call, ctl, toGuest, listing>>

\* The process, or a descendant that shares its pipes.
Writes(c, s) ==
    /\ guest[c].pc = "run" \/ guest[c].child
    /\ guest[c].wrote[s] < MaxChunks
    /\ guest' = [guest EXCEPT ![c].wrote[s] = @ + 1, ![c].piped[s] = @ + 1]
    /\ UNCHANGED <<boot, call, ctl, toGuest, fromGuest, listing>>

Forks(c) ==
    /\ guest[c].pc = "run" /\ ~guest[c].child
    /\ guest' = [guest EXCEPT ![c].child = TRUE]
    /\ UNCHANGED <<boot, call, ctl, toGuest, fromGuest, listing>>

ChildEnds(c) ==
    /\ guest[c].child
    /\ guest' = [guest EXCEPT ![c].child = FALSE]
    /\ UNCHANGED <<boot, call, ctl, toGuest, fromGuest, listing>>

Exits(c) ==
    /\ guest[c].pc = "run"
    /\ guest' = [guest EXCEPT ![c].pc = "dead"]
    /\ UNCHANGED <<boot, call, ctl, toGuest, fromGuest, listing>>

Pump(c, s) ==
    /\ guest[c].piped[s] > 0 /\ guest[c].pc \in {"run", "dead"} /\ boot = "up"
    /\ guest' = [guest EXCEPT ![c].piped[s] = @ - 1]
    /\ Send([Plain("chunk", c) EXCEPT !.stream = s])
    /\ UNCHANGED <<boot, call, ctl, toGuest, listing>>

\* mutant: the pumps are not joined.
PumpedNotJoined(c) == TRUE

\* Both pumps met the end of their pipe: nothing is left in it and nobody holds it.
Pumped(c) == ~guest[c].child /\ guest[c].piped = None

SendExit(c) ==
    /\ guest[c].pc = "dead" /\ Pumped(c)
    /\ guest' = [guest EXCEPT ![c].pc = "gone"]
    /\ Send([Plain("exit", c) EXCEPT !.killed = guest[c].killed])
    /\ UNCHANGED <<boot, call, ctl, toGuest, listing>>

----
\* GuestdClient.onFrame.

Receives(type) == fromGuest # <<>> /\ Head(fromGuest).type = type /\ fromGuest' = Tail(fromGuest)

OnStarted ==
    LET c == Head(fromGuest).id IN
    /\ Receives("started")
    /\ call' = [call EXCEPT ![c].pc = "started"]
    /\ UNCHANGED <<boot, ctl, toGuest, guest, listing>>

OnChunk ==
    LET f == Head(fromGuest) IN
    /\ Receives("chunk")
    /\ call' = [call EXCEPT ![f.id].got[f.stream] = IF call[f.id].exit = "none" THEN @ + 1 ELSE @]
    /\ UNCHANGED <<boot, ctl, toGuest, guest, listing>>

OnExit ==
    LET f == Head(fromGuest) IN
    /\ Receives("exit")
    /\ call' = [call EXCEPT ![f.id].exit = IF f.killed THEN "killed" ELSE "exited", ![f.id].ended = TRUE]
    /\ UNCHANGED <<boot, ctl, toGuest, guest, listing>>

\* mutant: the acknowledgement of a kill is taken for the exit.
OnControlSettling(q) ==
    call' = [call EXCEPT ![ctl[q].of] = IF ctl[q].op = "kill" /\ @.exit = "none"
                                         THEN [@ EXCEPT !.exit = "killed"] ELSE @]

OnControl(q) == UNCHANGED call

OnAnswer ==
    LET f == Head(fromGuest) IN
    /\ fromGuest # <<>> /\ f.id \in Control
    /\ fromGuest' = Tail(fromGuest)
    /\ ctl' = [ctl EXCEPT ![f.id] = [@ EXCEPT !.pc = IF f.type = "error" THEN "failed" ELSE "done", !.live = f.live]]
    /\ OnControl(f.id)
    /\ UNCHANGED <<boot, toGuest, guest, listing>>

OnError ==
    LET c == Head(fromGuest).id IN
    /\ Receives("error") /\ c \in Call
    /\ call' = [call EXCEPT ![c].pc = "failed", ![c].ended = TRUE]
    /\ UNCHANGED <<boot, ctl, toGuest, guest, listing>>
----
HostStep ==
    \/ OnStarted \/ OnChunk \/ OnExit \/ OnAnswer \/ OnError
    \/ \E c \in Call : Track(c) \/ RecordSettles(c)
FrameStep == HandleExec \/ HandleKill \/ HandlePs \/ SendProcs
ThreadStep(c) == Popen(c) \/ SendExit(c) \/ \E s \in Stream : Pump(c, s)
BootStep == Loaded \/ EmulatorReady \/ Ready \/ BootFails
Deadline == Loaded \/ BootFails

Next ==
    \/ Boot \/ BootStep \/ Shutdown
    \/ \E q \in Control : GetProcesses(q) \/ \E c \in Call : Kill(q, c)
    \/ HostStep \/ FrameStep
    \/ \E c \in Call : \/ Exec(c) \/ ThreadStep(c) \/ Forks(c) \/ ChildEnds(c) \/ Exits(c)
                       \/ \E s \in Stream : Writes(c, s)

\* The page's event loop and the emulated CPU go on.  Of a boot only the loading of its inputs and
\* the deadlines are sure to come: an image owes no answer.  A process owes nobody its end.
Fairness ==
    /\ WF_vars(Deadline) /\ WF_vars(HostStep) /\ WF_vars(FrameStep)
    /\ \A c \in Call : WF_vars(ThreadStep(c))

Spec == Init /\ [][Next]_vars /\ Fairness

----
\* Properties.

\* An exit is known only of a process that is over, with all its output handed on: run_command
\* joins its pumps before it sends EXIT.
OutputComplete ==
    boot = "up" => \A c \in Call : call[c].exit # "none" =>
                        guest[c].pc = "gone" /\ call[c].got = guest[c].wrote

\* getProcesses never shows as running a process whose end the host knew when it asked.
ListedTruly ==
    \A q \in Control : ctl[q].pc = "done" => ctl[q].live \cap ctl[q].known = {}

\* dispose() leaves nobody waiting, "so no awaiter hangs"; nor does a later request.
NothingPending ==
    boot = "down" =>
        /\ \A q \in Control : ctl[q].pc # "asked"
        /\ \A c \in Call : /\ call[c].pc # "asked"
                           /\ call[c].pc \in {"started", "tracked"} => call[c].exit # "none"

\* Every request is answered, and wait() returns once the process and what it left behind ended.
Answered ==
    /\ \A c \in Call : /\ call[c].pc = "asked" ~> call[c].pc # "asked"
                       /\ (call[c].pc = "tracked" /\ guest[c].pc = "dead" /\ ~guest[c].child) ~> call[c].exit # "none"
    /\ \A q \in Control : ctl[q].pc = "asked" ~> ctl[q].pc # "asked"

\* boot() settles, whatever the image is: the deadline of ready().
BootEnds == boot \in {"loading", "starting", "waking"} ~> boot \in {"up", "failed"}

\* Both.
AllSettle == Answered /\ BootEnds
====
