---- MODULE TerminalPanel ----
(* TerminalPanel of apps/web/src/components/TerminalPanel.tsx: a terminal is bound to the kernel of its generation,   *)
(* with a pty on the VM kernel and with the line discipline on the browser kernel; a switch begins with new ones.     *)
EXTENDS Naturals

CONSTANTS Cols, Prompt, Glyph, Wide, Space, Slash, Candidates(_, _), Pastes, Submitted, MaxLine, MaxHistory, MaxAhead, Counted, MaxTyped
CONSTANTS Terminal, Ports, None, RingSlots, ChunkKeys, MaxKeys, MaxOutput

VARIABLES
    kernelKind,     \* "browser" or "vm"
    d, typed,       \* LineDiscipline
    term, ptyPorts, pending, ring, out, ctl, asked, bridge, pidfile, printed, read, alive   \* PtyTerminal

L == INSTANCE LineDiscipline
P == INSTANCE PtyTerminal

shell == <<d, typed>>
pty == <<term, ptyPorts, pending, ring, out, ctl, asked, bridge, pidfile, printed, read, alive>>
vars == <<kernelKind, shell, pty>>

Init == kernelKind \in {"browser", "vm"} /\ L!Init /\ P!Init

Discipline == kernelKind = "browser" /\ L!Next /\ UNCHANGED <<kernelKind, pty>>

Pty == kernelKind = "vm" /\ P!Next /\ UNCHANGED <<kernelKind, shell>>

Next == Discipline \/ Pty

Timers ==
    /\ \A t \in Terminal : WF_pty(P!Deadline(t))
    /\ \A p \in Ports : WF_pty(P!FlushTimer(p))

Spec == Init /\ [][Next]_vars /\ Timers

----
\* The properties of the two modules, on a panel of either kernel.

\* LineDiscipline: the screen shows the line, and what is typed ahead is replayed.
LineTrue == L!ScreenTrue /\ L!KeysInOrder

\* PtyTerminal: ports, keys and output.
PtyTrue == P!PortsExact /\ P!KeysOrdered /\ P!OutputWhole

\* PtyTerminal: every open ends and what is typed is sent.
Settles == P!Settles
====
