---- MODULE PtyTerminal ----
(* The VM kernel's terminal: a mounted terminal (pty-terminal-wiring.ts, pty-input-gate.ts) opens a pty session       *)
(* (vm-runtime.ts openPty, pty.ts) on a virtio console of the guest (v86-host.ts), where guestd launches a bridge     *)
(* (guestd.py pty_open, ptybridge.py).  A bridge bears the name of the terminal whose open launched it.               *)
EXTENDS Naturals, FiniteSetsExt, SequencesExt

CONSTANTS
    Terminal,       \* mounts
    Ports,          \* the consoles 1 to 3
    None,
    RingSlots,      \* free receive buffers of a console
    ChunkKeys,      \* keys that VIRTIO_INPUT_CHUNK holds
    MaxKeys, MaxOutput  \* bounds: keys of a terminal, messages of a bridge

VARIABLES
    term,           \* the terminals and their sessions
    ptyPorts,       \* the ports in use
    pending,        \* the keys a port's sender holds back
    ring,           \* the chunks in its receive buffers
    out,            \* what its bridges wrote and no listener was given
    ctl,            \* frames on their way to guestd
    asked,          \* pty_open's thread: "none", "polling", then its reply on the way
    bridge,         \* "none", "starting", "forked", "up", "dead"
    pidfile,        \* /tmp/erdou-pty-<port>.pid
    printed,        \* the messages a bridge's shell has printed
    read,           \* the keys the bridges of a port have read, and by which
    alive           \* the runtime is not shut down

guest == <<pending, ring, out, ctl, asked, bridge, pidfile, printed, read>>
vars == <<term, ptyPorts, guest, alive>>

Closed == [pc |-> "off", port |-> 0, disposed |-> FALSE, listens |-> FALSE, ready |-> FALSE, pid |-> None, typed |-> 0, gate |-> <<>>, shown |-> <<>>]

Init ==
    /\ term = [t \in Terminal |-> Closed] /\ ptyPorts = {}
    /\ pending = [p \in Ports |-> <<>>] /\ ring = [p \in Ports |-> <<>>] /\ out = [p \in Ports |-> <<>>]
    /\ ctl = <<>> /\ asked = [t \in Terminal |-> "none"] /\ bridge = [t \in Terminal |-> "none"]
    /\ pidfile = [p \in Ports |-> None] /\ printed = [t \in Terminal |-> 0] /\ read = [p \in Ports |-> <<>>] /\ alive = TRUE

----
(* The sender of a port: what the ring has room for leaves at once, the rest waits for a timer. *)

Chunks(keys) == [i \in 1 .. (Len(keys) + ChunkKeys - 1) \div ChunkKeys |-> SubSeq(keys, (i - 1) * ChunkKeys + 1, Min({i * ChunkKeys, Len(keys)}))]

\* flush.
Flushed(p, keys) ==
    LET room == Max({0, RingSlots - Len(ring[p])})
        sent == SubSeq(Chunks(keys), 1, Min({room, Len(Chunks(keys))}))
    IN  /\ ring' = [ring EXCEPT ![p] = @ \o sent]
        /\ pending' = [pending EXCEPT ![p] = SubSeq(keys, Len(FlattenSeq(sent)) + 1, Len(keys))]

\* mutant: the keys that wait are sent after those that come.
SendAhead(p, keys) ==
    IF keys = <<>> THEN UNCHANGED <<pending, ring>> ELSE Flushed(p, keys \o pending[p])

\* send: an armed timer is left to flush.
Send(p, keys) ==
    IF keys = <<>> THEN UNCHANGED <<pending, ring>>
    ELSE IF pending[p] # <<>> THEN pending' = [pending EXCEPT ![p] = @ \o keys] /\ UNCHANGED ring
    ELSE Flushed(p, keys)

FlushTimer(p) ==
    /\ alive /\ pending[p] # <<>> /\ Len(ring[p]) < RingSlots
    /\ Flushed(p, pending[p])
    /\ UNCHANGED <<term, ptyPorts, out, ctl, asked, bridge, pidfile, printed, read, alive>>

----
(* Terminals. *)

\* wirePtyTerminal: openPty takes the first free port, the session subscribes and only then asks guestd.
Mount(t) ==
    /\ alive /\ term[t].pc = "off"
    /\ LET free == Ports \ ptyPorts IN
       IF free = {} THEN term' = [term EXCEPT ![t].pc = "failed"] /\ UNCHANGED <<ptyPorts, ctl>>
       ELSE /\ term' = [term EXCEPT ![t] = [@ EXCEPT !.pc = "opening", !.port = Min(free), !.listens = TRUE]]
            /\ ptyPorts' = ptyPorts \cup {Min(free)} /\ ctl' = Append(ctl, [op |-> "open", of |-> t])
    /\ UNCHANGED <<pending, ring, out, asked, bridge, pidfile, printed, read, alive>>

\* The keys of a terminal go through the gate, and to its session once there is one.
Type(t) ==
    /\ term[t].pc # "off" /\ ~term[t].disposed /\ term[t].typed < MaxKeys
    /\ LET key == [of |-> t, n |-> term[t].typed + 1] IN
       IF term[t].pc = "open" /\ alive
       THEN Send(term[t].port, <<key>>) /\ term' = [term EXCEPT ![t].typed = @ + 1]
       ELSE /\ term' = [term EXCEPT ![t] = [@ EXCEPT !.typed = @ + 1, !.gate = IF term[t].pc = "opening" THEN Append(@, key) ELSE @]]
            /\ UNCHANGED <<pending, ring>>
    /\ UNCHANGED <<ptyPorts, out, ctl, asked, bridge, pidfile, printed, read, alive>>

Kill(pid) == ctl' = IF pid = None \/ ~alive THEN ctl ELSE Append(ctl, [op |-> "kill", of |-> pid])

\* dispose of a session: the port is free, the listener is gone, the bridge is sent a SIGKILL.
Disposed(t) == [term[t] EXCEPT !.pc = "closed", !.disposed = TRUE, !.listens = FALSE, !.gate = <<>>]

\* The effect's cleanup.
Unmount(t) ==
    /\ term[t].pc # "off" /\ ~term[t].disposed
    /\ IF term[t].pc = "open"
       THEN term' = [term EXCEPT ![t] = Disposed(t)] /\ ptyPorts' = ptyPorts \ {term[t].port} /\ Kill(term[t].pid)
       ELSE term' = [term EXCEPT ![t] = [@ EXCEPT !.disposed = TRUE, !.gate = <<>>]] /\ UNCHANGED <<ptyPorts, ctl>>
    /\ UNCHANGED <<pending, ring, out, asked, bridge, pidfile, printed, read, alive>>

\* maybeResolve and what follows it at once: the wiring shows what came behind the banner and lets the gate go, or,
\* unmounted meanwhile, disposes of the session.
Resolved(t, x) ==
    IF ~x.ready \/ x.pid = None \/ x.pc # "opening" THEN term' = [term EXCEPT ![t] = x] /\ UNCHANGED <<ptyPorts, ctl, pending, ring>>
    ELSE IF x.disposed
    THEN term' = [term EXCEPT ![t] = Disposed(t)] /\ ptyPorts' = ptyPorts \ {x.port} /\ Kill(x.pid) /\ UNCHANGED <<pending, ring>>
    ELSE term' = [term EXCEPT ![t] = [x EXCEPT !.pc = "open", !.gate = <<>>]] /\ Send(x.port, x.gate) /\ UNCHANGED <<ptyPorts, ctl>>

\* The open is rejected: the wiring drops the keys, openPty frees the port.
Rejected(t) ==
    /\ term' = [term EXCEPT ![t] = [@ EXCEPT !.pc = "failed", !.listens = FALSE, !.gate = <<>>]]
    /\ ptyPorts' = ptyPorts \ {term[t].port}

\* mutant: the deadline runs from the reply of the launch.
DeadlineLaunched(t) ==
    /\ term[t].pc = "opening" /\ term[t].pid # None
    /\ Rejected(t) /\ Kill(term[t].pid)
    /\ UNCHANGED <<pending, ring, out, asked, bridge, pidfile, printed, read, alive>>

\* The deadline of openPtySession.
Deadline(t) ==
    /\ term[t].pc = "opening"
    /\ Rejected(t) /\ Kill(term[t].pid)
    /\ UNCHANGED <<pending, ring, out, asked, bridge, pidfile, printed, read, alive>>

\* The reply of pty_open.
LaunchReplied(t) ==
    /\ alive /\ asked[t] \notin {"none", "polling", "done"}
    /\ asked' = [asked EXCEPT ![t] = "done"]
    /\ IF term[t].pc # "opening" THEN UNCHANGED <<term, ptyPorts, ctl, pending, ring>>
       ELSE IF asked[t] = "EIO" THEN Rejected(t) /\ UNCHANGED <<ctl, pending, ring>>
       ELSE Resolved(t, [term[t] EXCEPT !.pid = asked[t]])
    /\ UNCHANGED <<out, bridge, pidfile, printed, read, alive>>

Banner == 0

\* The listener: everything up to the banner is dropped, and what follows it in one chunk is kept.
Heard(x, chunk) ==
    IF x.ready THEN [x EXCEPT !.shown = @ \o chunk]
    ELSE LET banners == {i \in DOMAIN chunk : chunk[i].n = Banner} IN
         IF banners = {} THEN x ELSE [x EXCEPT !.ready = TRUE, !.shown = SubSeq(chunk, Min(banners) + 1, Len(chunk))]

\* A chunk of a console's output is given to the session that listens, if one does.
Deliver(p, k) ==
    /\ alive /\ k \in DOMAIN out[p]
    /\ out' = [out EXCEPT ![p] = SubSeq(@, k + 1, Len(@))]
    /\ LET listeners == {t \in Terminal : term[t].listens /\ term[t].port = p} IN
       IF listeners = {} THEN UNCHANGED <<term, ptyPorts, ctl, pending, ring>>
       ELSE \E t \in listeners : Resolved(t, Heard(term[t], SubSeq(out[p], 1, k)))
    /\ UNCHANGED <<asked, bridge, pidfile, printed, read, alive>>

\* shutdown: guestd's client rejects what it has asked for, the emulator is destroyed with all that runs in it.
Shutdown ==
    /\ alive /\ alive' = FALSE
    /\ term' = [t \in Terminal |->
         IF term[t].pc = "opening" /\ term[t].pid = None THEN [term[t] EXCEPT !.pc = "failed", !.listens = FALSE, !.gate = <<>>]
         ELSE [term[t] EXCEPT !.listens = FALSE]]
    /\ ptyPorts' = {} /\ bridge' = [t \in Terminal |-> "dead"] /\ ctl' = <<>>
    /\ pending' = [p \in Ports |-> <<>>] /\ ring' = [p \in Ports |-> <<>>] /\ out' = [p \in Ports |-> <<>>]
    /\ UNCHANGED <<asked, pidfile, printed, read>>

----
(* The guest. *)

\* guestd reads one frame: a kill is done before the next is read, an open has a thread of its own.
Guestd ==
    /\ alive /\ ctl # <<>>
    /\ LET f == Head(ctl)
           p == term[f.of].port IN
       IF f.op = "kill"
       THEN bridge' = [bridge EXCEPT ![f.of] = "dead"] /\ UNCHANGED <<asked, pidfile>>
       ELSE /\ asked' = [asked EXCEPT ![f.of] = "polling"] /\ pidfile' = [pidfile EXCEPT ![p] = None]
            /\ bridge' = [bridge EXCEPT ![f.of] = "starting"]
    /\ ctl' = Tail(ctl)
    /\ UNCHANGED <<term, ptyPorts, pending, ring, out, printed, read, alive>>

\* The bridge opens the console, which may flush what the console had received, and forks its shell, or fails to.
Forks(t) ==
    /\ alive /\ bridge[t] = "starting"
    /\ LET p == term[t].port IN
       \/ /\ bridge' = [bridge EXCEPT ![t] = "forked"] /\ pidfile' = [pidfile EXCEPT ![p] = t]
          /\ \/ UNCHANGED ring
             \/ ring' = [ring EXCEPT ![p] = <<>>]
       \/ bridge' = [bridge EXCEPT ![t] = "dead"] /\ UNCHANGED <<pidfile, ring>>
    /\ UNCHANGED <<term, ptyPorts, pending, out, ctl, asked, printed, read, alive>>

\* PTYBRIDGE_READY.
Announces(t) ==
    /\ alive /\ bridge[t] = "forked"
    /\ bridge' = [bridge EXCEPT ![t] = "up"]
    /\ out' = [out EXCEPT ![term[t].port] = Append(@, [of |-> t, n |-> Banner])]
    /\ UNCHANGED <<term, ptyPorts, pending, ring, ctl, asked, pidfile, printed, read, alive>>

\* pty_open finds the pid, or gives up.
Answers(t) ==
    /\ alive /\ asked[t] = "polling"
    /\ LET found == pidfile[term[t].port] IN asked' = [asked EXCEPT ![t] = IF found = None THEN "EIO" ELSE found]
    /\ UNCHANGED <<term, ptyPorts, pending, ring, out, ctl, bridge, pidfile, printed, read, alive>>

\* A bridge takes what the console received for its shell.
Reads(t) ==
    /\ alive /\ bridge[t] = "up" /\ ring[term[t].port] # <<>>
    /\ LET p == term[t].port IN
       /\ ring' = [ring EXCEPT ![p] = Tail(@)]
       /\ read' = [read EXCEPT ![p] = @ \o [i \in DOMAIN Head(ring[p]) |-> [key |-> Head(ring[p])[i], by |-> t]]]
    /\ UNCHANGED <<term, ptyPorts, pending, out, ctl, asked, bridge, pidfile, printed, alive>>

\* The shell prints.
Prints(t) ==
    /\ alive /\ bridge[t] = "up" /\ printed[t] < MaxOutput
    /\ printed' = [printed EXCEPT ![t] = @ + 1]
    /\ out' = [out EXCEPT ![term[t].port] = Append(@, [of |-> t, n |-> printed'[t]])]
    /\ UNCHANGED <<term, ptyPorts, pending, ring, ctl, asked, bridge, pidfile, read, alive>>

\* The shell exits, and the bridge with it.
Exits(t) ==
    /\ alive /\ bridge[t] = "up"
    /\ bridge' = [bridge EXCEPT ![t] = "dead"]
    /\ UNCHANGED <<term, ptyPorts, pending, ring, out, ctl, asked, pidfile, printed, read, alive>>

Next ==
    \/ Shutdown \/ Guestd
    \/ \E t \in Terminal :
        \/ Mount(t) \/ Type(t) \/ Unmount(t) \/ Deadline(t) \/ LaunchReplied(t)
        \/ Forks(t) \/ Announces(t) \/ Answers(t) \/ Reads(t) \/ Prints(t) \/ Exits(t)
    \/ \E p \in Ports : FlushTimer(p) \/ \E k \in 1 .. 2 : Deliver(p, k)

\* Timers fire.
Spec ==
    /\ Init /\ [][Next]_vars
    /\ \A t \in Terminal : WF_vars(Deadline(t))
    /\ \A p \in Ports : WF_vars(FlushTimer(p))

----
\* No open was late, and none was refused.
Untroubled == \A t \in Terminal : term[t].pc # "failed" /\ asked[t] # "EIO"

\* A port is in use by one terminal that opens or has a session, and by no other; all the other ports are free.
PortsExact ==
    LET holders == {t \in Terminal : term[t].pc \in {"opening", "open"}} IN
    alive => /\ ptyPorts = {term[t].port : t \in holders}
             /\ \A t, u \in holders : term[t].port = term[u].port => t = u

\* What is typed while the pty opens, while a console's buffers are full or in one burst is read in the order it was
\* typed; and a terminal's own shell misses nothing of it, unless an open has failed.
KeysOrdered ==
    \A p \in Ports, t \in Terminal :
        LET keys == SelectSeq(read[p], LAMBDA e : e.key.of = t)
            own == SelectSeq(keys, LAMBDA e : e.by = t)
        IN  /\ \A i, j \in DOMAIN keys : i < j => keys[i].key.n < keys[j].key.n
            /\ Untroubled => \A i \in DOMAIN own : own[i].key.n = i

\* A terminal shows what its own shell prints, all of it from the banner on, on a console whose last terminal was
\* disposed of just before; this much when no open has failed.
OutputWhole ==
    Untroubled => \A t \in Terminal : \A i \in DOMAIN term[t].shown : term[t].shown[i] = [of |-> t, n |-> i]

\* Every open ends, with a session or an error, whatever the guest does and across a shutdown.
Settles == \A t \in Terminal : term[t].pc = "opening" ~> term[t].pc # "opening"
====
