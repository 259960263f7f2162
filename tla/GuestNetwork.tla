---- MODULE GuestNetwork ----
(* Requests of the page to servers in the guest: VmRuntime.dispatch with its buffered and its    *)
(* streamed answers, VmRuntime.upgrade with the WebSocket it yields, their timers, what the       *)
(* consumer does with a stream or a socket, and the shutdown that ends them                       *)
(* (packages/runtime-vm/src/vm-runtime.ts).  Each action is one callback of the page.              *)
(* A response is its pieces: two of the head, MaxBody of the body and, when it is chunked, a       *)
(* terminator; what they contain is left out.  External is the TCP stack of the emulator:          *)
(* segments of any size, data after the page's close, a close that may never be reported, a probe  *)
(* that is answered only while the guest runs, and nothing once it is shut down.                   *)
EXTENDS Naturals

CONSTANTS
    Req,        \* dispatch calls; each is made once
    Sock,       \* upgrade calls; each is made once
    MaxBody,    \* bound: pieces of the body of a response
    MaxFrames   \* bound: messages a guest sends on a WebSocket

ASSUME NetworkAssumption ==
    /\ MaxBody \in Nat \ {0} /\ MaxFrames \in Nat
    /\ Req \cap Sock = {}

VARIABLES
    up,         \* the runtime was not shut down
    req,        \* the promise and the timers of a dispatch
    wire,       \* the guest's side of its connection
    queue,      \* the byteQueue of a streamed answer, and who reads it
    ws          \* an upgrade, then its GuestWs

vars == <<up, req, wire, queue, ws>>

\* garbled: the status line is malformed; sized: Content-Length or chunked; unsized: neither.
Kind == {"garbled", "sized", "unsized", "stream", "chunkedStream"}
Streamed == {"stream", "chunkedStream"}

Last(kind) == IF kind = "chunkedStream" THEN MaxBody + 3 ELSE MaxBody + 2

\* The body pieces among the first n pieces.
Body(n) == IF n < 2 THEN 0 ELSE IF n > MaxBody + 2 THEN MaxBody ELSE n - 2

\* answer: what the promise resolved with; shut: conn.close() was called.
ReqState == [pc : {"idle", "probe", "open", "done"}, answer : {"none", "refused", "bad", "body", "stream"},
             idle : BOOLEAN, hard : BOOLEAN, shut : BOOLEAN]
WireState == [kind : Kind, sent : 0 .. MaxBody + 3, closed : BOOLEAN]

\* ended and failed are the flags of byteQueue; how the stream came to its end is history.
QueueState == [state : {"none", "live", "ended", "failed"}, how : {"none", "terminator", "close", "return", "fault"},
               reg : BOOLEAN, buf : 0 .. MaxBody, read : 0 .. MaxBody,
               reader : {"idle", "parked", "woken", "end", "error", "gone"}]

\* closing: the consumer asked for the end; told: onClose was called; late: it waits for a callback.
SockState == [pc : {"idle", "probe", "shake", "rejected", "open", "closing", "closed"},
              reg : BOOLEAN, shut : BOOLEAN, timer : BOOLEAN, arrived : 0 .. MaxFrames, pending : 0 .. MaxFrames,
              delivered : 0 .. MaxFrames, onMessage : BOOLEAN, onClose : BOOLEAN, told : 0 .. 2, late : BOOLEAN]

TypeOK ==
    /\ up \in BOOLEAN
    /\ req \in [Req -> ReqState] /\ wire \in [Req -> WireState]
    /\ queue \in [Req -> QueueState] /\ ws \in [Sock -> SockState]
    /\ \A r \in Req : /\ req[r].pc = "open" => req[r].hard
                      /\ (req[r].answer = "none") = (req[r].pc # "done")
                      /\ req[r].answer = "stream" => queue[r].state # "none"
                      /\ queue[r].state # "none" => req[r].pc = "done" /\ wire[r].kind \in Streamed
    /\ \A w \in Sock : ws[w].timer => ws[w].pc \in {"shake", "closing"}

Init ==
    /\ up = TRUE
    /\ req = [r \in Req |-> [pc |-> "idle", answer |-> "none", idle |-> FALSE, hard |-> FALSE, shut |-> FALSE]]
    /\ wire = [r \in Req |-> [kind |-> "unsized", sent |-> 0, closed |-> FALSE]]
    /\ queue = [r \in Req |-> [state |-> "none", how |-> "none", reg |-> FALSE, buf |-> 0, read |-> 0, reader |-> "idle"]]
    /\ ws = [w \in Sock |-> [pc |-> "idle", reg |-> FALSE, shut |-> FALSE, timer |-> FALSE, arrived |-> 0,
                             pending |-> 0, delivered |-> 0, onMessage |-> FALSE, onClose |-> FALSE,
                             told |-> 0, late |-> FALSE]]

----
\* byteQueue: every change but the consumer's own return() wakes the reader.

Kick(q) == [q EXCEPT !.reader = IF @ = "parked" THEN "woken" ELSE @]

Push(q, n) == IF q.state = "live" /\ n > 0 THEN Kick([q EXCEPT !.buf = @ + n]) ELSE q
End(q, how) == IF q.state = "live" THEN Kick([q EXCEPT !.state = "ended", !.how = how]) ELSE q

\* mutant: fail() leaves a pending read pending.
FailUnheard(q) == IF q.state = "live" THEN [q EXCEPT !.state = "failed", !.how = "fault"] ELSE q

Fail(q) == IF q.state = "live" THEN Kick([q EXCEPT !.state = "failed", !.how = "fault"]) ELSE q

Drop(q) == [q EXCEPT !.reg = FALSE]

\* next(), up to its answer or its wait.
Take(q) ==
    CASE q.state = "failed" -> [q EXCEPT !.reader = "error"]
      [] q.state # "failed" /\ q.buf > 0 -> [q EXCEPT !.buf = @ - 1, !.read = @ + 1, !.reader = "idle"]
      [] q.state = "ended" /\ q.buf = 0 -> [q EXCEPT !.reader = "end"]
      [] OTHER -> [q EXCEPT !.reader = "parked"]

Read(r) ==
    /\ req[r].answer = "stream" /\ queue[r].reader \in {"idle", "woken"}
    /\ queue' = [queue EXCEPT ![r] = Take(@)]
    /\ UNCHANGED <<up, req, wire, ws>>

Returned(q) == Drop([q EXCEPT !.state = "ended", !.how = "return", !.buf = 0])

\* return(), also while a next() is pending: the client is gone.
Return(r) ==
    /\ req[r].answer = "stream" /\ queue[r].reader \in {"idle", "parked", "woken"}
    /\ LET live == queue[r].state = "live" IN
       /\ queue' = [queue EXCEPT ![r] = [(IF live THEN Returned(@) ELSE @) EXCEPT !.reader = "gone"]]
       /\ req' = [req EXCEPT ![r].shut = @ \/ live]
    /\ UNCHANGED <<up, wire, ws>>

----
\* dispatch.

Dispatch(r) ==
    /\ up /\ req[r].pc = "idle"
    /\ req' = [req EXCEPT ![r].pc = "probe"]
    /\ UNCHANGED <<up, wire, queue, ws>>

Refused(r) ==
    /\ up /\ req[r].pc = "probe"
    /\ req' = [req EXCEPT ![r].pc = "done", ![r].answer = "refused"]
    /\ UNCHANGED <<up, wire, queue, ws>>

Connect(r) ==
    /\ up /\ req[r].pc = "probe"
    /\ req' = [req EXCEPT ![r].pc = "open", ![r].hard = TRUE]
    /\ \E kind \in Kind : wire' = [wire EXCEPT ![r].kind = kind]
    /\ UNCHANGED <<up, queue, ws>>

\* finish: what came so far is the answer, a bad gateway when that is no whole head.
Finish(r, sent) ==
    IF req[r].pc = "done" THEN req' = [req EXCEPT ![r].idle = FALSE]
    ELSE req' = [req EXCEPT ![r] = [@ EXCEPT !.pc = "done", !.idle = FALSE, !.hard = FALSE, !.shut = TRUE,
                                      !.answer = IF sent < 2 \/ wire[r].kind = "garbled" THEN "bad" ELSE "body"]]

Connected(r) == up /\ req[r].pc \in {"open", "done"} /\ req[r].answer # "refused" /\ ~wire[r].closed

\* feedStream after n more body pieces: a chunked stream ends at its terminator or fails on a fault.
FeedStream(r, q, n, last, fault) ==
    LET fed == IF fault THEN Fail(Drop(q)) ELSE Push(q, n)
        over == fault \/ last
    IN /\ queue' = [queue EXCEPT ![r] = IF last /\ ~fault THEN End(Drop(fed), "terminator") ELSE fed]
       /\ req' = [req EXCEPT ![r] = [req[r] EXCEPT
             !.pc = "done", !.answer = IF @ = "none" THEN "stream" ELSE @,
             !.idle = IF queue[r].state = "none" THEN FALSE ELSE @, !.hard = FALSE, !.shut = @ \/ over]]

Engaged(r) == [queue[r] EXCEPT !.state = "live", !.reg = TRUE]

\* A data event with the next pieces; it comes after the dispatch is done, too.
Data(r) ==
    /\ Connected(r)
    /\ \E sent \in wire[r].sent + 1 .. wire[r].sent + 2 :
        /\ sent <= Last(wire[r].kind)
        /\ wire' = [wire EXCEPT ![r].sent = sent]
        /\ LET streams == wire[r].kind \in Streamed /\ sent >= 2
               complete == wire[r].kind = "sized" /\ sent = Last("sized")
           IN \/ /\ streams
                 /\ \E fault \in IF wire[r].kind = "chunkedStream" /\ sent > 2 THEN BOOLEAN ELSE {FALSE} :
                        FeedStream(r, IF queue[r].state = "none" THEN Engaged(r) ELSE queue[r],
                                   Body(sent) - Body(wire[r].sent), sent = MaxBody + 3, fault)
              \/ /\ ~streams /\ complete /\ Finish(r, sent)
                 /\ UNCHANGED queue
              \/ /\ ~streams /\ ~complete
                 /\ req' = [req EXCEPT ![r].idle = TRUE]
                 /\ UNCHANGED queue
    /\ UNCHANGED <<up, ws>>

\* The close event of the connection.
Closed(r) ==
    /\ Connected(r)
    /\ wire' = [wire EXCEPT ![r].closed = TRUE]
    /\ IF queue[r].state = "none"
       THEN Finish(r, wire[r].sent) /\ UNCHANGED queue
       ELSE /\ queue' = [queue EXCEPT ![r] = End(Drop(@), "close")]
            /\ req' = [req EXCEPT ![r].shut = TRUE]
    /\ UNCHANGED <<up, ws>>

\* mutant: the hard cap is the idle timer's alone.
TimedOutIdle(r) == req[r].idle

TimedOut(r) == req[r].idle \/ req[r].hard

TimerFires(r) ==
    /\ TimedOut(r)
    /\ Finish(r, wire[r].sent)
    /\ UNCHANGED <<up, wire, queue, ws>>

----
\* upgrade and GuestWs.

Upgrade(w) ==
    /\ up /\ ws[w].pc = "idle"
    /\ ws' = [ws EXCEPT ![w].pc = "probe"]
    /\ UNCHANGED <<up, req, wire, queue>>

Probed(w) ==
    /\ up /\ ws[w].pc = "probe"
    /\ ws' = [ws EXCEPT ![w].pc = "shake", ![w].timer = TRUE]
    /\ UNCHANGED <<up, req, wire, queue>>

NoServer(w) ==
    /\ up /\ ws[w].pc = "probe"
    /\ ws' = [ws EXCEPT ![w].pc = "rejected"]
    /\ UNCHANGED <<up, req, wire, queue>>

\* fail: a bad handshake, a close of the guest before it, or the timer.
Rejects(w) ==
    /\ ws[w].pc = "shake"
    /\ ws' = [ws EXCEPT ![w].pc = "rejected", ![w].timer = FALSE, ![w].shut = TRUE]
    /\ UNCHANGED <<up, req, wire, queue>>

\* mutant: a message before onMessage is attached is dropped.
DeliverLive(s, n) ==
    [s EXCEPT !.arrived = @ + n, !.delivered = IF s.onMessage THEN @ + n ELSE @]

Deliver(s, n) ==
    [s EXCEPT !.arrived = @ + n, !.delivered = IF s.onMessage THEN @ + n ELSE @,
              !.pending = IF s.onMessage THEN @ ELSE @ + n]

\* The finish of GuestWs.
FinishWs(s) ==
    IF s.pc = "closed" THEN s
    ELSE [s EXCEPT !.pc = "closed", !.timer = FALSE, !.shut = TRUE, !.reg = FALSE,
                   !.told = IF s.onClose THEN @ + 1 ELSE @, !.late = ~s.onClose]

\* A segment has n messages and perhaps a Close frame; one that violates the protocol ends the
\* socket without the messages before the fault, which do not count as arrived.
Feed(s, n, ends) == IF ends THEN FinishWs(Deliver(s, n)) ELSE Deliver(s, n)

\* A valid 101, with frames behind it in the same segment.
Handshake(w) ==
    /\ up /\ ws[w].pc = "shake"
    /\ \E n \in 0 .. MaxFrames, ends \in BOOLEAN :
        ws' = [ws EXCEPT ![w] = Feed([@ EXCEPT !.pc = "open", !.timer = FALSE, !.reg = TRUE], n, ends)]
    /\ UNCHANGED <<up, req, wire, queue>>

Frames(w) ==
    /\ up /\ ws[w].pc \in {"open", "closing"}
    /\ \E n \in 0 .. MaxFrames - ws[w].arrived, ends \in BOOLEAN :
        /\ n > 0 \/ ends
        /\ ws' = [ws EXCEPT ![w] = Feed(@, n, ends)]
    /\ UNCHANGED <<up, req, wire, queue>>

\* The close event of the connection, before the Close frame or after it.
TcpCloses(w) ==
    /\ up /\ ws[w].pc \in {"open", "closing", "closed"}
    /\ ws' = [ws EXCEPT ![w] = FinishWs(@)]
    /\ ws' # ws
    /\ UNCHANGED <<up, req, wire, queue>>

\* The consumer.
OnMessage(w) ==
    /\ ws[w].pc \in {"open", "closing", "closed"} /\ ~ws[w].onMessage
    /\ ws' = [ws EXCEPT ![w].onMessage = TRUE, ![w].delivered = @ + ws[w].pending, ![w].pending = 0]
    /\ UNCHANGED <<up, req, wire, queue>>

OnClose(w) ==
    /\ ws[w].pc \in {"open", "closing", "closed"} /\ ~ws[w].onClose
    /\ ws' = [ws EXCEPT ![w].onClose = TRUE, ![w].told = IF ws[w].late THEN @ + 1 ELSE @, ![w].late = FALSE]
    /\ UNCHANGED <<up, req, wire, queue>>

CloseWs(w) ==
    /\ ws[w].pc = "open"
    /\ ws' = [ws EXCEPT ![w].pc = "closing", ![w].timer = TRUE]
    /\ UNCHANGED <<up, req, wire, queue>>

\* The backstop of close().
BackstopFires(w) ==
    /\ ws[w].pc = "closing" /\ ws[w].timer
    /\ ws' = [ws EXCEPT ![w] = FinishWs(@)]
    /\ UNCHANGED <<up, req, wire, queue>>

----
\* shutdown: both sets are emptied before the emulator goes.
Shutdown ==
    /\ up /\ up' = FALSE
    /\ ws' = [w \in Sock |-> IF ws[w].reg THEN FinishWs(ws[w]) ELSE ws[w]]
    /\ queue' = [r \in Req |-> IF queue[r].reg THEN Drop(Fail(queue[r])) ELSE queue[r]]
    /\ UNCHANGED <<req, wire>>

ReqStep(r) ==
    \/ Dispatch(r) \/ Refused(r) \/ Connect(r) \/ Data(r) \/ Closed(r) \/ TimerFires(r)
    \/ Read(r) \/ Return(r)
SockStep(w) ==
    \/ Upgrade(w) \/ Probed(w) \/ NoServer(w) \/ Rejects(w) \/ Handshake(w) \/ Frames(w) \/ TcpCloses(w)
    \/ OnMessage(w) \/ OnClose(w) \/ CloseWs(w) \/ BackstopFires(w)

Next == Shutdown \/ (\E r \in Req : ReqStep(r)) \/ \E w \in Sock : SockStep(w)

\* Timers fire; the guest owes nothing.
Fairness ==
    /\ \A r \in Req : WF_vars(TimerFires(r))
    /\ \A w \in Sock : WF_vars(Rejects(w)) /\ WF_vars(BackstopFires(w))

Spec == Init /\ [][Next]_vars /\ Fairness

----
\* Properties.

\* A pending read of a stream is one there is nothing for yet and somebody will still wake: a
\* shutdown, a fault or an end never leaves the reader parked, and what it got and what is queued
\* is all the guest sent.
StreamsDeliver ==
    \A r \in Req : LET q == queue[r] IN
        /\ q.reader = "parked" => q.state = "live" /\ q.buf = 0 /\ q.reg /\ up
        /\ q.state = "live" \/ q.how \in {"terminator", "close"} => q.read + q.buf = Body(wire[r].sent)

\* The shutdown set holds exactly the streams that are not over, and whatever way an answer or a stream ended,
\* its connection was given back to the emulator.  A head that comes after dispatch answered without it still
\* starts a stream; it has no reader and lives until the connection closes.
StreamsRegistered ==
    \A r \in Req : LET q == queue[r] IN
        /\ q.reg = (q.state = "live")
        /\ req[r].answer \in {"bad", "body"} \/ q.how \in {"terminator", "close", "return"} => req[r].shut

\* A message that arrived on an open WebSocket is delivered or waits for onMessage; onClose is called once,
\* or will be when it is attached; the teardown set holds exactly the open ones.
SocketsDeliver ==
    \A w \in Sock : LET s == ws[w] IN
        /\ s.delivered + s.pending = s.arrived /\ (s.onMessage => s.pending = 0)
        /\ s.told + (IF s.late THEN 1 ELSE 0) = IF s.pc = "closed" THEN 1 ELSE 0
        /\ s.reg = (s.pc \in {"open", "closing"})
        /\ s.pc = "closed" => s.shut

\* A dispatch that reached the server is answered, a handshake ends, close() closes.
Settles ==
    /\ \A r \in Req : (req[r].pc = "open") ~> (req[r].pc = "done")
    /\ \A w \in Sock : /\ (ws[w].pc = "shake") ~> (ws[w].pc # "shake")
                       /\ (ws[w].pc = "closing") ~> (ws[w].pc = "closed")
====
