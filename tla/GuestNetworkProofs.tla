---- MODULE GuestNetworkProofs ----
(* The invariants of GuestNetwork for any requests, sockets and bounds.                           *)
(* They are inductive once each record is tied to its past: how a stream ended says what came on   *)
(* the wire, so nothing is counted after it, and a queue exists only for a streamed head that      *)
(* arrived.  Steps of a request touch its own records, and those of a socket its own, so the       *)
(* induction goes through one stream (StreamOK, AnswerOK) and one socket (SockOK) at a time.        *)
EXTENDS GuestNetwork, TLAPS

\* A stream by itself.
QueueOK(q) ==
    /\ q \in QueueState
    /\ q.reg = (q.state = "live")
    /\ q.state = "none" => q.how = "none" /\ q.buf = 0 /\ q.read = 0 /\ q.reader = "idle"
    /\ q.state = "live" => q.how = "none" /\ q.reader \in {"idle", "parked", "woken"}
    /\ q.state = "ended" => q.how \in {"terminator", "close", "return"}
    /\ q.state = "failed" => q.how = "fault"
    /\ q.reader = "parked" => q.state = "live" /\ q.buf = 0
    /\ q.how = "return" => q.reader = "gone"

\* A stream given what its connection delivered.
StreamOK(q, w) ==
    /\ QueueOK(q)
    /\ q.state = "live" \/ q.how \in {"terminator", "close"} => q.read + q.buf = Body(w.sent)
    /\ q.how = "terminator" => w.sent = MaxBody + 3
    /\ q.how = "close" => w.closed
    /\ (q.state # "none") = (w.kind \in Streamed /\ w.sent >= 2)

\* The answer of a request given its stream.
AnswerOK(a, q, w) ==
    /\ a \in ReqState
    /\ a.pc = "open" => a.hard
    /\ (a.answer = "none") = (a.pc # "done")
    /\ a.answer = "stream" => q.state # "none"
    /\ q.state # "none" => a.pc = "done"
    /\ a.answer \in {"bad", "body"} \/ q.how \in {"terminator", "close", "return"} => a.shut
    /\ a.pc \in {"idle", "probe"} => w.sent = 0 /\ ~w.closed /\ ~a.idle /\ ~a.hard

SockOK(s) ==
    /\ s \in SockState
    /\ s.timer => s.pc \in {"shake", "closing"}
    /\ s.pc \in {"idle", "probe", "shake", "rejected"} => s.arrived = 0 /\ ~s.onMessage /\ ~s.onClose
    /\ s.delivered + s.pending = s.arrived
    /\ s.onMessage => s.pending = 0
    /\ s.pc = "closed" => s.told = (IF s.late THEN 0 ELSE 1) /\ s.shut
    /\ s.pc # "closed" => s.told = 0 /\ ~s.late
    /\ s.reg <=> s.pc \in {"open", "closing"}

ReqInv(r) ==
    /\ wire[r] \in WireState
    /\ StreamOK(queue[r], wire[r])
    /\ AnswerOK(req[r], queue[r], wire[r])
    /\ queue[r].reg => up

IInv ==
    /\ up \in BOOLEAN
    /\ req \in [Req -> ReqState] /\ wire \in [Req -> WireState]
    /\ queue \in [Req -> QueueState] /\ ws \in [Sock -> SockState]
    /\ \A r \in Req : ReqInv(r)
    /\ \A w \in Sock : SockOK(ws[w])

----
\* Body counts at most MaxBody pieces, none before the head is whole.
LEMMA BodyBounds ==
    ASSUME NEW n \in Nat
    PROVE  Body(n) \in 0 .. MaxBody /\ (n < 2 => Body(n) = 0)
BY NetworkAssumption DEF Body

\* The queue after a data event of n body pieces.
Fed(q, n, last, fault) ==
    LET fed == IF fault THEN Fail(Drop(q)) ELSE Push(q, n)
    IN IF last /\ ~fault THEN End(Drop(fed), "terminator") ELSE fed

\* A stream and the n body pieces that bring it up to the wire v.
Feedable(q, v, n, last) ==
    /\ QueueOK(q) /\ q.state # "none" /\ q.how \notin {"terminator", "close"}
    /\ v \in WireState /\ v.kind \in Streamed /\ v.sent >= 2 /\ n \in Nat
    /\ last => v.sent = MaxBody + 3
    /\ q.state = "live" => q.read + q.buf + n = Body(v.sent)

\* Whatever a segment holds, the stream it is fed to agrees with the wire again.
LEMMA FedOK ==
    ASSUME NEW q, NEW v, NEW n, NEW last \in BOOLEAN, NEW fault \in BOOLEAN, Feedable(q, v, n, last)
    PROVE  /\ StreamOK(Fed(q, n, last, fault), v)
           /\ Fed(q, n, last, fault).state # "none"
           /\ Fed(q, n, last, fault).how # "close"
           /\ Fed(q, n, last, fault).how \in {"terminator", "return"} => last \/ q.how = "return"
<1> USE DEF Feedable
<1>1. Body(v.sent) \in 0 .. MaxBody
  BY BodyBounds, NetworkAssumption DEF WireState
<1>2. q \in QueueState
  BY DEF QueueOK
<1>3. CASE q.state # "live"
  <2>1. q.reg = FALSE
    BY <1>2, <1>3 DEF QueueOK, QueueState
  <2>2. Drop(q) = q
    BY <1>2, <2>1 DEF Drop, QueueState
  <2>3. Fed(q, n, last, fault) = q
    BY <1>3, <2>2 DEF Fed, Fail, Push, End
  <2> QED BY <1>3, <2>3 DEF StreamOK
<1>4. CASE q.state = "live" /\ fault
  <2> DEFINE p == Fed(q, n, last, fault)
  <2>1. p = Kick([Drop(q) EXCEPT !.state = "failed", !.how = "fault"])
    BY <1>2, <1>4 DEF Fed, Fail, Drop, QueueState
  <2>2. /\ p \in QueueState /\ p.state = "failed" /\ p.how = "fault" /\ p.reg = FALSE /\ p.reader # "parked"
    BY <1>2, <2>1 DEF Kick, Drop, QueueState
  <2> QED BY <2>2 DEF StreamOK, QueueOK
<1>5. CASE q.state = "live" /\ ~fault
  <2> DEFINE p == Push(q, n)
  <2>1. q.read \in 0 .. MaxBody /\ q.buf \in 0 .. MaxBody /\ q.buf + n \in 0 .. MaxBody
    BY <1>1, <1>2, <1>5, NetworkAssumption DEF QueueState
  <2>2. p = IF n > 0 THEN Kick([q EXCEPT !.buf = @ + n]) ELSE q
    BY <1>5 DEF Push
  <2> DEFINE b == [q EXCEPT !.buf = q.buf + n]
  <2>b. /\ b \in QueueState /\ b.state = "live" /\ b.how = "none" /\ b.reg = q.reg /\ b.read = q.read
        /\ b.buf = q.buf + n /\ b.reader = q.reader
    BY <1>2, <1>5, <2>1 DEF QueueOK, QueueState
  <2>k. q.reader \in {"idle", "parked", "woken"} /\ (q.reader = "parked" => q.buf = 0)
    BY <1>5 DEF QueueOK
  <2>c. p = IF n > 0 THEN Kick(b) ELSE q
    BY <2>2
  <2>3. /\ p \in QueueState /\ p.state = "live" /\ p.how = "none" /\ p.reg = q.reg /\ p.read = q.read
        /\ p.buf = q.buf + n /\ p.reader \in {"idle", "parked", "woken"} /\ (p.reader = "parked" => p.buf = 0)
    <3> HIDE DEF p, b
    <3>1. CASE n > 0
      <4>1. p = [b EXCEPT !.reader = IF b.reader = "parked" THEN "woken" ELSE b.reader]
        BY <2>c, <3>1 DEF Kick
      <4> QED BY <2>b, <2>k, <4>1 DEF QueueState
    <3>2. CASE n = 0
      <4>1. p = q
        BY <2>c, <3>2
      <4>2. q.buf + n = q.buf
        BY <2>1, <3>2
      <4> QED BY <1>2, <1>5, <2>k, <4>1, <4>2 DEF QueueOK
    <3> QED BY <3>1, <3>2
  <2>4. QueueOK(p) /\ p.read + p.buf = Body(v.sent)
    BY <1>5, <2>1, <2>3, <1>1 DEF QueueOK, QueueState
  <2>5. CASE ~last
    BY <1>5, <2>3, <2>4, <2>5 DEF Fed, StreamOK
  <2>6. CASE last
    <3> DEFINE e == Fed(q, n, last, fault)
    <3>1. e = Kick([Drop(p) EXCEPT !.state = "ended", !.how = "terminator"])
      BY <1>5, <2>3, <2>6 DEF Fed, End, Drop, QueueState
    <3>2. /\ e \in QueueState /\ e.state = "ended" /\ e.how = "terminator" /\ e.reg = FALSE
          /\ e.reader # "parked" /\ e.read = p.read /\ e.buf = p.buf
      BY <2>3, <3>1 DEF Kick, Drop, QueueState
    <3> QED BY <2>3, <2>4, <2>6, <3>2 DEF StreamOK, QueueOK
  <2> QED BY <2>5, <2>6
<1> QED BY <1>3, <1>4, <1>5

\* A read takes from the stream what it counts, and waits only where there is nothing.
LEMMA TakeOK ==
    ASSUME NEW q, NEW v \in WireState, StreamOK(q, v), q.state # "none", q.reader \in {"idle", "woken"}
    PROVE  StreamOK(Take(q), v) /\ Take(q).reg = q.reg /\ Take(q).state = q.state /\ Take(q).how = q.how
<1>1. q \in QueueState /\ QueueOK(q)
  BY DEF StreamOK, QueueOK
<1> DEFINE p == Take(q)
<1>2. CASE q.state = "failed"
  <2>1. p = [q EXCEPT !.reader = "error"]
    BY <1>2 DEF Take
  <2> HIDE DEF p
  <2>2. /\ p \in QueueState /\ p.reader = "error" /\ p.state = q.state /\ p.how = q.how /\ p.reg = q.reg
        /\ p.read = q.read /\ p.buf = q.buf
    BY <1>1, <2>1 DEF QueueState
  <2>3. StreamOK(p, v)
    BY <1>1, <1>2, <2>2 DEF StreamOK, QueueOK
  <2> QED BY <2>2, <2>3 DEF p
<1>3. CASE q.state # "failed" /\ q.buf > 0
  <2>1. p = [q EXCEPT !.buf = q.buf - 1, !.read = q.read + 1, !.reader = "idle"]
    BY <1>3 DEF Take
  <2>2. q.state = "live" \/ q.how \in {"terminator", "close"}
    BY <1>1, <1>3 DEF QueueOK, QueueState
  <2>3. q.read + q.buf = Body(v.sent) /\ Body(v.sent) \in 0 .. MaxBody
    BY <2>2, BodyBounds, NetworkAssumption DEF StreamOK, WireState
  <2>4. q.buf \in 0 .. MaxBody /\ q.read \in 0 .. MaxBody
    BY <1>1 DEF QueueState
  <2>5. q.buf - 1 \in 0 .. MaxBody /\ q.read + 1 \in 0 .. MaxBody /\ (q.read + 1) + (q.buf - 1) = q.read + q.buf
    BY <1>3, <2>3, <2>4, NetworkAssumption
  <2> HIDE DEF p
  <2>6. /\ p \in QueueState /\ p.reader = "idle" /\ p.state = q.state /\ p.how = q.how /\ p.reg = q.reg
        /\ p.read = q.read + 1 /\ p.buf = q.buf - 1
    BY <1>1, <2>1, <2>5 DEF QueueState
  <2>7. QueueOK(p)
    BY <1>1, <1>3, <2>2, <2>6 DEF QueueOK
  <2>8. StreamOK(p, v)
    BY <2>3, <2>5, <2>6, <2>7 DEF StreamOK
  <2> QED BY <2>6, <2>8 DEF p
<1>4. CASE q.state = "ended" /\ q.buf = 0
  <2>1. p = [q EXCEPT !.reader = "end"]
    BY <1>4 DEF Take
  <2> HIDE DEF p
  <2>2. /\ p \in QueueState /\ p.reader = "end" /\ p.state = q.state /\ p.how = q.how /\ p.reg = q.reg
        /\ p.read = q.read /\ p.buf = q.buf
    BY <1>1, <2>1 DEF QueueState
  <2>3. q.how # "return"
    BY <1>1 DEF QueueOK
  <2>4. StreamOK(p, v)
    BY <1>1, <1>4, <2>2, <2>3 DEF StreamOK, QueueOK
  <2> QED BY <2>2, <2>4 DEF p
<1>5. CASE q.state = "live" /\ q.buf = 0
  <2>1. p = [q EXCEPT !.reader = "parked"]
    BY <1>5 DEF Take
  <2> HIDE DEF p
  <2>2. /\ p \in QueueState /\ p.reader = "parked" /\ p.state = q.state /\ p.how = q.how /\ p.reg = q.reg
        /\ p.read = q.read /\ p.buf = q.buf
    BY <1>1, <2>1 DEF QueueState
  <2>3. StreamOK(p, v)
    BY <1>1, <1>5, <2>2 DEF StreamOK, QueueOK
  <2> QED BY <2>2, <2>3 DEF p
<1> QED BY <1>1, <1>2, <1>3, <1>4, <1>5 DEF QueueOK, QueueState

\* A reader that gives a stream up ends it and takes it out of the shutdown set.
GivenUp(q) == [(IF q.state = "live" THEN Returned(q) ELSE q) EXCEPT !.reader = "gone"]

LEMMA GivenUpOK ==
    ASSUME NEW q, NEW v \in WireState, StreamOK(q, v), q.state # "none"
    PROVE  /\ StreamOK(GivenUp(q), v) /\ GivenUp(q).reg = FALSE /\ GivenUp(q).state # "none"
           /\ GivenUp(q).how = IF q.state = "live" THEN "return" ELSE q.how
<1>1. q \in QueueState /\ QueueOK(q)
  BY DEF StreamOK, QueueOK
<1> DEFINE p == GivenUp(q)
<1>2. CASE q.state = "live"
  <2>1. p = [q EXCEPT !.state = "ended", !.how = "return", !.buf = 0, !.reg = FALSE, !.reader = "gone"]
    BY <1>1, <1>2 DEF GivenUp, Returned, Drop, QueueState
  <2> HIDE DEF p
  <2>2. 0 \in 0 .. MaxBody
    BY NetworkAssumption
  <2>3. p \in QueueState /\ p.reader = "gone" /\ p.state = "ended" /\ p.how = "return" /\ p.reg = FALSE
    BY <1>1, <2>1, <2>2 DEF QueueState
  <2>4. StreamOK(p, v)
    BY <1>1, <1>2, <2>3 DEF StreamOK, QueueOK
  <2> QED BY <1>2, <2>3, <2>4 DEF p
<1>3. CASE q.state # "live"
  <2>1. p = [q EXCEPT !.reader = "gone"]
    BY <1>3 DEF GivenUp
  <2> HIDE DEF p
  <2>2. /\ p \in QueueState /\ p.reader = "gone" /\ p.state = q.state /\ p.how = q.how /\ p.reg = q.reg
        /\ p.read = q.read /\ p.buf = q.buf
    BY <1>1, <2>1 DEF QueueState
  <2>3. StreamOK(p, v)
    BY <1>1, <1>3, <2>2 DEF StreamOK, QueueOK
  <2> QED BY <1>1, <1>3, <2>2, <2>3 DEF p, QueueOK
<1> QED BY <1>2, <1>3

\* The close of the connection ends a stream that is not over.
LEMMA CloseOK ==
    ASSUME NEW q, NEW v \in WireState, NEW c \in WireState, StreamOK(q, v), q.state # "none",
           c.kind = v.kind, c.sent = v.sent, c.closed
    PROVE  LET p == End(Drop(q), "close")
           IN StreamOK(p, c) /\ p.reg = FALSE /\ p.state # "none"
<1>1. q \in QueueState /\ QueueOK(q)
  BY DEF StreamOK, QueueOK
<1> DEFINE p == End(Drop(q), "close")
<1>2. CASE q.state = "live"
  <2>1. p = Kick([q EXCEPT !.state = "ended", !.how = "close", !.reg = FALSE])
    BY <1>1, <1>2 DEF End, Drop, QueueState
  <2> HIDE DEF p
  <2>2. /\ p \in QueueState /\ p.reader # "parked" /\ p.state = "ended" /\ p.how = "close" /\ p.reg = FALSE
        /\ p.read = q.read /\ p.buf = q.buf
    BY <1>1, <2>1 DEF Kick, QueueState
  <2>3. StreamOK(p, c)
    BY <1>1, <1>2, <2>2 DEF StreamOK, QueueOK
  <2> QED BY <2>2, <2>3 DEF p
<1>3. CASE q.state # "live"
  <2>1. q.reg = FALSE
    BY <1>1, <1>3 DEF QueueOK, QueueState
  <2>2. p = q
    BY <1>1, <1>3, <2>1 DEF End, Drop, QueueState
  <2> HIDE DEF p
  <2>3. StreamOK(p, c)
    BY <1>3, <2>2 DEF StreamOK, QueueOK
  <2> QED BY <2>1, <2>2, <2>3 DEF p
<1> QED BY <1>2, <1>3

\* The shutdown fails a registered stream and wakes its reader.
LEMMA ShutOK ==
    ASSUME NEW q, NEW v \in WireState, StreamOK(q, v), q.reg
    PROVE  LET p == Drop(Fail(q))
           IN StreamOK(p, v) /\ p.reg = FALSE /\ p.state # "none" /\ p.how = "fault"
<1>1. q \in QueueState /\ QueueOK(q) /\ q.state = "live"
  BY DEF StreamOK, QueueOK
<1> DEFINE p == Drop(Fail(q))
<1>2. p = Drop(Kick([q EXCEPT !.state = "failed", !.how = "fault"]))
  BY <1>1 DEF Fail
<1> HIDE DEF p
<1>3. /\ p \in QueueState /\ p.reader # "parked" /\ p.state = "failed" /\ p.how = "fault" /\ p.reg = FALSE
  BY <1>1, <1>2 DEF Kick, Drop, QueueState
<1>4. StreamOK(p, v)
  BY <1>1, <1>3 DEF StreamOK, QueueOK
<1> QED BY <1>3, <1>4 DEF p

----
\* A step of one request that leaves its records consistent keeps the invariant.
LEMMA ReqFrame ==
    ASSUME IInv, NEW r \in Req, NEW a, NEW v \in WireState, NEW q,
           req' = [req EXCEPT ![r] = a], wire' = [wire EXCEPT ![r] = v], queue' = [queue EXCEPT ![r] = q],
           UNCHANGED <<up, ws>>, StreamOK(q, v), AnswerOK(a, q, v), q.reg => up
    PROVE  IInv'
<1>1. a \in ReqState /\ q \in QueueState
  BY DEF AnswerOK, StreamOK, QueueOK
<1>2. up' \in BOOLEAN /\ ws' \in [Sock -> SockState] /\ (\A w \in Sock : SockOK(ws[w])')
  BY DEF IInv
<1>3. req \in [Req -> ReqState] /\ wire \in [Req -> WireState] /\ queue \in [Req -> QueueState]
  BY DEF IInv
<1>4. /\ req' \in [Req -> ReqState]
      /\ wire' \in [Req -> WireState]
      /\ queue' \in [Req -> QueueState]
  BY <1>1, <1>3
<1>5. ASSUME NEW t \in Req PROVE ReqInv(t)'
  <2>1. CASE t = r
    <3>1. req'[t] = a /\ wire'[t] = v /\ queue'[t] = q
      BY <1>3, <2>1
    <3> QED BY <3>1 DEF ReqInv
  <2>2. CASE t # r
    <3>1. req'[t] = req[t] /\ wire'[t] = wire[t] /\ queue'[t] = queue[t] /\ up' = up
      BY <1>3, <2>2
    <3>2. ReqInv(t)
      BY DEF IInv
    <3> QED BY <3>1, <3>2 DEF ReqInv
  <2> QED BY <2>1, <2>2
<1> QED BY <1>2, <1>4, <1>5 DEF IInv

\* What the invariant says of one request.
LEMMA ReqFacts ==
    ASSUME IInv, NEW r \in Req
    PROVE  /\ req[r] \in ReqState /\ wire[r] \in WireState /\ queue[r] \in QueueState /\ up \in BOOLEAN
           /\ QueueOK(queue[r]) /\ StreamOK(queue[r], wire[r]) /\ AnswerOK(req[r], queue[r], wire[r])
           /\ queue[r].reg => up
           /\ req = [req EXCEPT ![r] = req[r]]
           /\ wire = [wire EXCEPT ![r] = wire[r]]
           /\ queue = [queue EXCEPT ![r] = queue[r]]
<1>1. ReqInv(r) /\ up \in BOOLEAN
  BY DEF IInv
<1>2. req \in [Req -> ReqState] /\ wire \in [Req -> WireState] /\ queue \in [Req -> QueueState]
  BY DEF IInv
<1>3. QueueOK(queue[r])
  BY <1>1 DEF ReqInv, StreamOK
<1>4. req = [req EXCEPT ![r] = req[r]]
  BY <1>2
<1>5. wire = [wire EXCEPT ![r] = wire[r]]
  BY <1>2
<1>6. queue = [queue EXCEPT ![r] = queue[r]]
  BY <1>2
<1>7. req[r] \in ReqState /\ wire[r] \in WireState /\ queue[r] \in QueueState
  BY <1>2
<1>8. StreamOK(queue[r], wire[r]) /\ AnswerOK(req[r], queue[r], wire[r]) /\ (queue[r].reg => up)
  BY <1>1 DEF ReqInv
<1> QED BY <1>1, <1>3, <1>4, <1>5, <1>6, <1>7, <1>8

LEMMA DispatchStep ==
    ASSUME IInv, NEW r \in Req, Dispatch(r)
    PROVE  IInv'
<1> DEFINE a == [req[r] EXCEPT !.pc = "probe"]
<1>1. req[r].pc = "idle" /\ UNCHANGED <<up, wire, queue, ws>>
  BY DEF Dispatch
<1>2. req' = [req EXCEPT ![r] = a]
  BY ReqFacts DEF Dispatch, IInv
<1>3. AnswerOK(a, queue[r], wire[r])
  BY <1>1, ReqFacts DEF AnswerOK, ReqState
<1> HIDE DEF a
<1> QED BY <1>1, <1>2, <1>3, ReqFacts, ReqFrame

LEMMA RefusedStep ==
    ASSUME IInv, NEW r \in Req, Refused(r)
    PROVE  IInv'
<1> DEFINE a == [req[r] EXCEPT !.pc = "done", !.answer = "refused"]
<1>1. req[r].pc = "probe" /\ UNCHANGED <<up, wire, queue, ws>>
  BY DEF Refused
<1>2. req' = [req EXCEPT ![r] = a]
  BY ReqFacts DEF Refused, IInv
<1>3. AnswerOK(a, queue[r], wire[r])
  BY <1>1, ReqFacts DEF AnswerOK, ReqState
<1> HIDE DEF a
<1> QED BY <1>1, <1>2, <1>3, ReqFacts, ReqFrame

LEMMA ConnectStep ==
    ASSUME IInv, NEW r \in Req, Connect(r)
    PROVE  IInv'
<1>1. PICK kind \in Kind : wire' = [wire EXCEPT ![r].kind = kind]
  BY DEF Connect
<1> DEFINE v == [wire[r] EXCEPT !.kind = kind]
           a == [req[r] EXCEPT !.pc = "open", !.hard = TRUE]
<1>2. req[r].pc = "probe" /\ UNCHANGED <<up, queue, ws>>
  BY DEF Connect
<1>3. wire' = [wire EXCEPT ![r] = v] /\ req' = [req EXCEPT ![r] = a]
  BY <1>1, ReqFacts DEF Connect, IInv
<1>4. v \in WireState /\ v.sent = wire[r].sent /\ v.closed = wire[r].closed
  BY ReqFacts DEF WireState
<1>5. /\ a \in ReqState /\ a.pc = "open" /\ a.hard /\ a.answer = req[r].answer /\ a.shut = req[r].shut
  BY ReqFacts DEF ReqState
<1> HIDE DEF a, v
<1>6. queue[r].state = "none" /\ queue[r].how = "none" /\ wire[r].sent = 0 /\ req[r].answer = "none"
  BY <1>2, ReqFacts DEF AnswerOK, QueueOK
<1>7. StreamOK(queue[r], v)
  BY <1>4, <1>6, ReqFacts DEF StreamOK
<1>8. AnswerOK(a, queue[r], v)
  BY <1>4, <1>5, <1>6 DEF AnswerOK
<1> QED BY <1>2, <1>3, <1>4, <1>7, <1>8, ReqFacts, ReqFrame

\* What finish makes of a request, given what came.
Finished(r, sent) ==
    IF req[r].pc = "done" THEN [req[r] EXCEPT !.idle = FALSE]
    ELSE [req[r] EXCEPT !.pc = "done", !.idle = FALSE, !.hard = FALSE, !.shut = TRUE,
                        !.answer = IF sent < 2 \/ wire[r].kind = "garbled" THEN "bad" ELSE "body"]

LEMMA FinishOK ==
    ASSUME IInv, NEW r \in Req, NEW sent, Finish(r, sent), NEW v \in WireState, NEW q,
           req[r].pc \notin {"idle", "probe"}, q.state = queue[r].state, q.how = queue[r].how
    PROVE  req' = [req EXCEPT ![r] = Finished(r, sent)] /\ AnswerOK(Finished(r, sent), q, v)
<1> DEFINE a == Finished(r, sent)
           answer == IF sent < 2 \/ wire[r].kind = "garbled" THEN "bad" ELSE "body"
<1>1. CASE req[r].pc = "done"
  <2>1. a = [req[r] EXCEPT !.idle = FALSE]
    BY <1>1 DEF Finished
  <2>2. req' = [req EXCEPT ![r] = a]
    BY <1>1, <2>1, ReqFacts DEF Finish, IInv
  <2> HIDE DEF a
  <2>3. AnswerOK(a, q, v)
    BY <1>1, <2>1, ReqFacts DEF AnswerOK, ReqState
  <2> QED BY <2>2, <2>3 DEF a
<1>2. CASE req[r].pc # "done"
  <2>1. a = [req[r] EXCEPT !.pc = "done", !.idle = FALSE, !.hard = FALSE, !.shut = TRUE, !.answer = answer]
    BY <1>2 DEF Finished
  <2>2. req' = [req EXCEPT ![r] = a]
    BY <1>2 DEF Finish, Finished
  <2>3. answer \in {"bad", "body"}
    OBVIOUS
  <2> HIDE DEF a, answer
  <2>4. a \in ReqState /\ a.pc = "done" /\ a.answer \in {"bad", "body"} /\ a.shut
    BY <2>1, <2>3, ReqFacts DEF ReqState
  <2>5. AnswerOK(a, q, v)
    BY <2>4 DEF AnswerOK
  <2> QED BY <2>2, <2>5 DEF a
<1> QED BY <1>1, <1>2

LEMMA TimerStep ==
    ASSUME IInv, NEW r \in Req, TimerFires(r)
    PROVE  IInv'
<1> DEFINE a == Finished(r, wire[r].sent)
<1>1. Finish(r, wire[r].sent) /\ req[r].pc \notin {"idle", "probe"} /\ UNCHANGED <<up, wire, queue, ws>>
  BY ReqFacts DEF TimerFires, TimedOut, AnswerOK
<1>2. req' = [req EXCEPT ![r] = a] /\ AnswerOK(a, queue[r], wire[r])
  BY <1>1, ReqFacts, FinishOK
<1> HIDE DEF a
<1> QED BY <1>1, <1>2, ReqFacts, ReqFrame

LEMMA ReadStep ==
    ASSUME IInv, NEW r \in Req, Read(r)
    PROVE  IInv'
<1> DEFINE q == Take(queue[r])
<1>1. /\ req[r].answer = "stream" /\ queue[r].reader \in {"idle", "woken"}
      /\ queue' = [queue EXCEPT ![r] = q] /\ UNCHANGED <<up, req, wire, ws>>
  BY DEF Read
<1>2. StreamOK(q, wire[r]) /\ q.reg = queue[r].reg /\ q.state = queue[r].state /\ q.how = queue[r].how
  BY <1>1, ReqFacts, TakeOK DEF AnswerOK
<1> HIDE DEF q
<1>3. AnswerOK(req[r], q, wire[r])
  BY <1>2, ReqFacts DEF AnswerOK
<1> QED BY <1>1, <1>2, <1>3, ReqFacts, ReqFrame

LEMMA ReturnStep ==
    ASSUME IInv, NEW r \in Req, Return(r)
    PROVE  IInv'
<1> DEFINE live == queue[r].state = "live"
           q == GivenUp(queue[r])
           a == [req[r] EXCEPT !.shut = req[r].shut \/ live]
<1>1. req[r].answer = "stream" /\ UNCHANGED <<up, wire, ws>>
  BY DEF Return
<1>2. queue' = [queue EXCEPT ![r] = q]
  BY ReqFacts DEF Return, GivenUp, IInv
<1>3. req' = [req EXCEPT ![r] = a]
  BY ReqFacts DEF Return, IInv
<1>4. queue[r].state # "none" /\ req[r].pc = "done"
  BY <1>1, ReqFacts DEF AnswerOK
<1>5. StreamOK(q, wire[r]) /\ q.reg = FALSE /\ q.state # "none" /\ q.how = IF live THEN "return" ELSE queue[r].how
  BY <1>4, ReqFacts, GivenUpOK
<1>6. live \in BOOLEAN /\ req[r].shut \in BOOLEAN
  BY ReqFacts DEF ReqState
<1>7. /\ a \in ReqState /\ a.pc = req[r].pc /\ a.answer = req[r].answer /\ (live => a.shut) /\ (req[r].shut => a.shut)
      /\ a.hard = req[r].hard /\ a.idle = req[r].idle
  BY <1>6, ReqFacts DEF ReqState
<1> HIDE DEF q, a, live
<1>8. AnswerOK(a, q, wire[r])
  BY <1>1, <1>4, <1>5, <1>7, ReqFacts DEF AnswerOK
<1> QED BY <1>1, <1>2, <1>3, <1>5, <1>8, ReqFacts, ReqFrame

LEMMA ClosedStep ==
    ASSUME IInv, NEW r \in Req, Closed(r)
    PROVE  IInv'
<1> DEFINE v == [wire[r] EXCEPT !.closed = TRUE]
<1>1. /\ req[r].pc \in {"open", "done"} /\ ~wire[r].closed /\ up
      /\ wire' = [wire EXCEPT ![r].closed = TRUE] /\ UNCHANGED <<up, ws>>
  BY DEF Closed, Connected
<1>2. wire' = [wire EXCEPT ![r] = v]
  BY <1>1, ReqFacts DEF IInv
<1>3. v \in WireState /\ v.kind = wire[r].kind /\ v.sent = wire[r].sent /\ v.closed
  BY ReqFacts DEF WireState
<1> HIDE DEF v
<1>4. CASE queue[r].state = "none"
  <2> DEFINE a == Finished(r, wire[r].sent)
  <2>1. Finish(r, wire[r].sent) /\ UNCHANGED queue
    BY <1>4 DEF Closed
  <2>2. req' = [req EXCEPT ![r] = a] /\ AnswerOK(a, queue[r], v)
    BY <1>1, <1>3, <2>1, FinishOK
  <2> HIDE DEF a
  <2>3. StreamOK(queue[r], v)
    BY <1>3, <1>4, ReqFacts DEF StreamOK, QueueOK
  <2> QED BY <1>1, <1>2, <1>3, <2>1, <2>2, <2>3, ReqFacts, ReqFrame
<1>5. CASE queue[r].state # "none"
  <2> DEFINE a == [req[r] EXCEPT !.shut = TRUE]
             q == End(Drop(queue[r]), "close")
  <2>1. queue' = [queue EXCEPT ![r] = q]
    BY <1>5 DEF Closed
  <2>2. req' = [req EXCEPT ![r] = a]
    BY <1>5, ReqFacts DEF Closed, IInv
  <2>3. StreamOK(q, v) /\ q.reg = FALSE /\ q.state # "none"
    BY <1>3, <1>5, ReqFacts, CloseOK
  <2>4. AnswerOK(a, q, v)
    <3>1. a \in ReqState /\ a.pc = req[r].pc /\ a.answer = req[r].answer /\ a.shut /\ a.hard = req[r].hard
      BY ReqFacts DEF ReqState
    <3>2. req[r].pc = "done"
      BY <1>5, ReqFacts DEF AnswerOK
    <3> HIDE DEF a, q
    <3> QED BY <2>3, <3>1, <3>2, ReqFacts DEF AnswerOK
  <2> HIDE DEF a, q
  <2> QED BY <1>1, <1>2, <1>3, <2>1, <2>2, <2>3, <2>4, ReqFrame
<1> QED BY <1>4, <1>5

\* The body only grows along a response.
LEMMA BodyGrows ==
    ASSUME NEW m \in Nat, NEW n \in Nat, m <= n
    PROVE  Body(n) - Body(m) \in Nat /\ Body(m) + (Body(n) - Body(m)) = Body(n)
BY NetworkAssumption DEF Body

LEMMA FeedStep ==
    ASSUME IInv, NEW r \in Req, Connected(r), UNCHANGED <<up, ws>>,
           NEW sent \in Nat, wire[r].sent < sent, sent <= Last(wire[r].kind),
           wire' = [wire EXCEPT ![r].sent = sent], wire[r].kind \in Streamed, sent >= 2,
           NEW e, e = IF queue[r].state = "none" THEN Engaged(r) ELSE queue[r],
           NEW n, n = Body(sent) - Body(wire[r].sent),
           NEW last \in BOOLEAN, last => sent = MaxBody + 3,
           NEW fault \in BOOLEAN, FeedStream(r, e, n, last, fault)
    PROVE  IInv'
<1> DEFINE v == [wire[r] EXCEPT !.sent = sent]
           q == Fed(e, n, last, fault)
           over == fault \/ last
           answer == IF req[r].answer = "none" THEN "stream" ELSE req[r].answer
           idle == IF queue[r].state = "none" THEN FALSE ELSE req[r].idle
           a == [req[r] EXCEPT !.pc = "done", !.answer = answer, !.idle = idle, !.hard = FALSE,
                               !.shut = req[r].shut \/ over]
<1>1. wire[r].sent \in Nat /\ sent <= MaxBody + 3 /\ sent \in 0 .. MaxBody + 3
  BY ReqFacts, NetworkAssumption DEF WireState, Last
<1>2. v \in WireState /\ v.kind = wire[r].kind /\ v.sent = sent /\ wire' = [wire EXCEPT ![r] = v]
  <2>1. wire' = [wire EXCEPT ![r] = v]
    BY ReqFacts DEF IInv
  <2>2. v \in WireState /\ v.kind = wire[r].kind /\ v.sent = sent
    BY <1>1, ReqFacts DEF WireState
  <2> QED BY <2>1, <2>2
<1>3. queue' = [queue EXCEPT ![r] = q]
  BY DEF FeedStream, Fed
<1>4. req' = [req EXCEPT ![r] = a]
  BY ReqFacts DEF FeedStream, IInv
<1>5. n \in Nat /\ Body(wire[r].sent) + n = Body(sent)
  BY <1>1, BodyGrows
<1>6. up /\ ~wire[r].closed /\ req[r].pc \in {"open", "done"}
  BY DEF Connected
<1>7. queue[r].how \notin {"terminator", "close"}
  BY <1>1, <1>6, ReqFacts, NetworkAssumption DEF StreamOK
<1>8. /\ QueueOK(e) /\ e.state # "none" /\ e.how = queue[r].how
      /\ e.state = "live" => e.read + e.buf = Body(wire[r].sent)
  <2>0. QueueOK(queue[r]) /\ StreamOK(queue[r], wire[r])
    BY ReqFacts
  <2>1. CASE queue[r].state = "none"
    <3>1. e = [queue[r] EXCEPT !.state = "live", !.reg = TRUE]
      BY <2>1 DEF Engaged
    <3>2. /\ e \in QueueState /\ e.state = "live" /\ e.reg = TRUE /\ e.how = "none" /\ e.buf = 0
          /\ e.read = 0 /\ e.reader = "idle" /\ queue[r].how = "none"
      BY <2>0, <2>1, <3>1 DEF QueueOK, QueueState
    <3>3. wire[r].sent < 2
      BY <1>1, <2>0, <2>1 DEF StreamOK
    <3>4. Body(wire[r].sent) = 0
      BY <1>1, <3>3, BodyBounds
    <3>5. e.read + e.buf = 0
      BY <3>2
    <3> QED BY <3>2, <3>4, <3>5 DEF QueueOK
  <2>2. CASE queue[r].state # "none"
    <3>1. e = queue[r]
      BY <2>2
    <3>2. QueueOK(e) /\ StreamOK(e, wire[r]) /\ e.state # "none"
      BY <2>0, <2>2, <3>1
    <3>3. e.state = "live" => e.read + e.buf = Body(wire[r].sent)
      BY <3>2 DEF StreamOK
    <3> QED BY <3>1, <3>2, <3>3
  <2> QED BY <2>1, <2>2
<1> HIDE DEF v
<1>9. e.state = "live" => e.read + e.buf + n = Body(v.sent)
  BY <1>2, <1>5, <1>8
<1>10. (last => v.sent = MaxBody + 3) /\ v.sent >= 2 /\ v.kind \in Streamed
  BY <1>2
<1>11. /\ StreamOK(q, v) /\ q.state # "none" /\ q.how # "close"
       /\ q.how \in {"terminator", "return"} => last \/ queue[r].how = "return"
  <2>1. Feedable(e, v, n, last)
    BY <1>2, <1>5, <1>7, <1>8, <1>9, <1>10 DEF Feedable
  <2>2. /\ StreamOK(q, v) /\ q.state # "none" /\ q.how # "close"
        /\ q.how \in {"terminator", "return"} => last \/ e.how = "return"
    BY <2>1, FedOK
  <2> QED BY <1>8, <2>2
<1>12. AnswerOK(a, q, v)
  <2>1. over \in BOOLEAN /\ idle \in BOOLEAN /\ answer \in {"refused", "bad", "body", "stream"}
    BY ReqFacts DEF ReqState
  <2>2. answer \in {"bad", "body"} => req[r].shut
    BY ReqFacts DEF AnswerOK
  <2>3. queue[r].how = "return" => req[r].shut
    BY ReqFacts DEF AnswerOK
  <2>4. last => over
    OBVIOUS
  <2>5. req[r].shut \in BOOLEAN
    BY ReqFacts DEF ReqState
  <2> HIDE DEF over, answer, idle, q
  <2>6. a \in ReqState /\ a.pc = "done" /\ a.answer = answer /\ (req[r].shut \/ over => a.shut)
    BY <2>1, <2>5, ReqFacts DEF ReqState
  <2> HIDE DEF a
  <2> QED BY <1>11, <2>1, <2>2, <2>3, <2>4, <2>6 DEF AnswerOK
<1> HIDE DEF q, a
<1> QED BY <1>2, <1>3, <1>4, <1>6, <1>11, <1>12, ReqFrame

LEMMA DataStep ==
    ASSUME IInv, NEW r \in Req, Data(r)
    PROVE  IInv'
<1>1. Connected(r) /\ up /\ req[r].pc \in {"open", "done"} /\ UNCHANGED <<up, ws>>
  BY DEF Data, Connected
<1> DEFINE streams(sent) == wire[r].kind \in Streamed /\ sent >= 2
<1>2. wire[r].sent \in Nat
  BY ReqFacts, NetworkAssumption DEF WireState
<1>3. PICK sent \in wire[r].sent + 1 .. wire[r].sent + 2 :
        /\ sent <= Last(wire[r].kind)
        /\ wire' = [wire EXCEPT ![r].sent = sent]
        /\ \/ /\ streams(sent)
              /\ \E fault \in IF wire[r].kind = "chunkedStream" /\ sent > 2 THEN BOOLEAN ELSE {FALSE} :
                     FeedStream(r, IF queue[r].state = "none" THEN Engaged(r) ELSE queue[r],
                                Body(sent) - Body(wire[r].sent), sent = MaxBody + 3, fault)
           \/ ~streams(sent) /\ Finish(r, sent) /\ UNCHANGED queue
           \/ ~streams(sent) /\ req' = [req EXCEPT ![r].idle = TRUE] /\ UNCHANGED queue
  BY DEF Data
<1>4. sent \in Nat /\ wire[r].sent < sent
  BY <1>2, <1>3
<1>5. CASE streams(sent)
  <2> DEFINE e == IF queue[r].state = "none" THEN Engaged(r) ELSE queue[r]
             n == Body(sent) - Body(wire[r].sent)
             last == sent = MaxBody + 3
  <2>1. PICK fault \in BOOLEAN : FeedStream(r, e, n, last, fault)
    BY <1>3, <1>5
  <2>2. last \in BOOLEAN
    OBVIOUS
  <2> QED BY <1>1, <1>3, <1>4, <1>5, <2>1, <2>2, FeedStep
<1>6. CASE ~streams(sent)
  <2> DEFINE v == [wire[r] EXCEPT !.sent = sent]
             a == [req[r] EXCEPT !.idle = TRUE]
  <2>1. sent \in 0 .. MaxBody + 3
    BY <1>3, <1>4, NetworkAssumption DEF Last
  <2>2. wire' = [wire EXCEPT ![r] = v]
    BY <1>3, ReqFacts DEF IInv
  <2>3. v \in WireState /\ v.kind = wire[r].kind /\ v.sent = sent
    BY <2>1, ReqFacts DEF WireState
  <2> HIDE DEF v
  <2>4. StreamOK(queue[r], v)
    <3>1. queue[r].state = "none"
      BY <1>2, <1>4, <1>6, ReqFacts DEF StreamOK
    <3> QED BY <1>6, <2>3, <3>1, ReqFacts DEF StreamOK, QueueOK
  <2>5. CASE Finish(r, sent) /\ UNCHANGED queue
    <3> DEFINE f == Finished(r, sent)
    <3>1. req' = [req EXCEPT ![r] = f] /\ AnswerOK(f, queue[r], v)
      BY <1>1, <2>3, <2>5, FinishOK
    <3> HIDE DEF f
    <3> QED BY <1>1, <2>2, <2>3, <2>4, <2>5, <3>1, ReqFacts, ReqFrame
  <2>6. CASE req' = [req EXCEPT ![r].idle = TRUE] /\ UNCHANGED queue
    <3>1. req' = [req EXCEPT ![r] = a]
      BY <2>6, ReqFacts DEF IInv
    <3>2. AnswerOK(a, queue[r], v)
      BY <1>1, ReqFacts DEF AnswerOK, ReqState
    <3> HIDE DEF a
    <3> QED BY <1>1, <2>2, <2>3, <2>4, <2>6, <3>1, <3>2, ReqFacts, ReqFrame
  <2> QED BY <1>3, <1>6, <2>5, <2>6
<1> QED BY <1>5, <1>6


----
\* What comes on an open socket is delivered, or waits.
LEMMA DeliverOK ==
    ASSUME NEW s, SockOK(s), s.pc \in {"open", "closing"}, NEW n \in 0 .. MaxFrames - s.arrived
    PROVE  SockOK(Deliver(s, n)) /\ Deliver(s, n).pc = s.pc
<1>1. s \in SockState
  BY DEF SockOK
<1>2. /\ s.arrived \in 0 .. MaxFrames /\ s.pending \in 0 .. MaxFrames /\ s.delivered \in 0 .. MaxFrames
      /\ s.delivered + s.pending = s.arrived
  BY <1>1 DEF SockState, SockOK
<1>3. n \in Nat /\ s.arrived + n \in 0 .. MaxFrames
  BY <1>2, NetworkAssumption
<1> DEFINE d == IF s.onMessage THEN s.delivered + n ELSE s.delivered
           p == IF s.onMessage THEN s.pending ELSE s.pending + n
           t == Deliver(s, n)
<1>4. d \in 0 .. MaxFrames /\ p \in 0 .. MaxFrames /\ d + p = s.arrived + n /\ (s.onMessage => p = s.pending)
  BY <1>2, <1>3, NetworkAssumption
<1>5. t = [s EXCEPT !.arrived = s.arrived + n, !.delivered = d, !.pending = p]
  BY DEF Deliver
<1> HIDE DEF d, p, t
<1>6. /\ t \in SockState /\ t.arrived = s.arrived + n /\ t.delivered = d /\ t.pending = p /\ t.pc = s.pc
      /\ t.reg = s.reg /\ t.shut = s.shut /\ t.timer = s.timer /\ t.onMessage = s.onMessage
      /\ t.onClose = s.onClose /\ t.told = s.told /\ t.late = s.late
  BY <1>1, <1>3, <1>4, <1>5 DEF SockState
<1>7. SockOK(t)
  BY <1>4, <1>6 DEF SockOK
<1> QED BY <1>6, <1>7 DEF t

\* finish() closes a socket once; its consumer was told, or will be.
LEMMA FinishWsOK ==
    ASSUME NEW s, SockOK(s), s.pc \in {"open", "closing", "closed"}
    PROVE  SockOK(FinishWs(s))
<1>1. s \in SockState
  BY DEF SockOK
<1> DEFINE t == FinishWs(s)
           told == IF s.onClose THEN s.told + 1 ELSE s.told
<1>2. CASE s.pc = "closed"
  BY <1>2 DEF FinishWs
<1>3. CASE s.pc # "closed"
  <2>1. t = [s EXCEPT !.pc = "closed", !.timer = FALSE, !.shut = TRUE, !.reg = FALSE, !.told = told, !.late = ~s.onClose]
    BY <1>3 DEF FinishWs
  <2>2. s.told = 0 /\ s.onClose \in BOOLEAN
    BY <1>1, <1>3 DEF SockOK, SockState
  <2>3. told \in 0 .. 2 /\ told = IF ~s.onClose THEN 0 ELSE 1
    BY <2>2
  <2> HIDE DEF t, told
  <2>4. /\ t \in SockState /\ t.pc = "closed" /\ t.timer = FALSE /\ t.shut = TRUE /\ ~t.reg
        /\ t.told = told /\ t.late = ~s.onClose /\ t.onMessage = s.onMessage
        /\ t.arrived = s.arrived /\ t.pending = s.pending /\ t.delivered = s.delivered
    BY <1>1, <2>1, <2>3 DEF SockState
  <2>5. t.told = IF t.late THEN 0 ELSE 1
    <3>1. CASE s.onClose
      BY <2>3, <2>4, <3>1
    <3>2. CASE ~s.onClose
      BY <2>3, <2>4, <3>2
    <3> QED BY <3>1, <3>2
  <2>6. t.delivered + t.pending = t.arrived /\ (t.onMessage => t.pending = 0)
    BY <2>4 DEF SockOK
  <2>7. SockOK(t)
    BY <2>4, <2>5, <2>6 DEF SockOK
  <2> QED BY <2>7 DEF t
<1> QED BY <1>2, <1>3

LEMMA FeedOK ==
    ASSUME NEW s, SockOK(s), s.pc \in {"open", "closing"}, NEW n \in 0 .. MaxFrames - s.arrived,
           NEW ends \in BOOLEAN
    PROVE  SockOK(Feed(s, n, ends))
BY DeliverOK, FinishWsOK DEF Feed

\* A step of one socket that leaves its record consistent keeps the invariant.
LEMMA SockFrame ==
    ASSUME IInv, NEW w \in Sock, NEW s, ws' = [ws EXCEPT ![w] = s], UNCHANGED <<up, req, wire, queue>>, SockOK(s)
    PROVE  IInv'
<1>1. s \in SockState /\ ws \in [Sock -> SockState]
  BY DEF SockOK, IInv
<1>2. ws' \in [Sock -> SockState]
  BY <1>1
<1>3. ASSUME NEW t \in Sock PROVE SockOK(ws'[t])
  BY <1>1 DEF IInv
<1>4. ASSUME NEW r \in Req PROVE ReqInv(r)'
  BY DEF IInv, ReqInv
<1> QED BY <1>2, <1>3, <1>4 DEF IInv

\* Before the handshake nothing but the timer and the connection can change.
LEMMA BeforeOK ==
    ASSUME NEW s, NEW t \in SockState, SockOK(s), s.pc \in {"idle", "probe", "shake"},
           t.pc \in {"probe", "shake", "rejected"}, t.timer => t.pc = "shake", t.reg = s.reg,
           t.arrived = s.arrived, t.pending = s.pending, t.delivered = s.delivered,
           t.onMessage = s.onMessage, t.onClose = s.onClose, t.told = s.told, t.late = s.late
    PROVE  SockOK(t)
<1>1. ~s.reg
  BY DEF SockOK
<1> QED BY <1>1 DEF SockOK

\* The steps of an upgrade up to its answer.
LEMMA HandshakeStep ==
    ASSUME IInv, NEW w \in Sock, Upgrade(w) \/ Probed(w) \/ NoServer(w) \/ Rejects(w) \/ Handshake(w)
    PROVE  IInv'
<1>1. SockOK(ws[w]) /\ ws[w] \in SockState /\ ws \in [Sock -> SockState]
  BY DEF IInv, SockOK
<1>2. CASE Upgrade(w)
  <2> DEFINE s == [ws[w] EXCEPT !.pc = "probe"]
  <2>1. ws' = [ws EXCEPT ![w] = s] /\ UNCHANGED <<up, req, wire, queue>> /\ ws[w].pc = "idle"
    BY <1>1, <1>2 DEF Upgrade
  <2>2. SockOK(s)
    BY <1>1, <2>1 DEF SockOK, SockState
  <2> HIDE DEF s
  <2> QED BY <2>1, <2>2, SockFrame
<1>3. CASE Probed(w)
  <2> DEFINE s == [ws[w] EXCEPT !.pc = "shake", !.timer = TRUE]
  <2>1. ws' = [ws EXCEPT ![w] = s] /\ UNCHANGED <<up, req, wire, queue>> /\ ws[w].pc = "probe"
    BY <1>1, <1>3 DEF Probed
  <2>2. SockOK(s)
    <3>1. /\ s \in SockState /\ s.pc = "shake" /\ (s.timer => s.pc = "shake") /\ s.reg = ws[w].reg
          /\ s.arrived = ws[w].arrived /\ s.pending = ws[w].pending /\ s.delivered = ws[w].delivered
          /\ s.onMessage = ws[w].onMessage /\ s.onClose = ws[w].onClose /\ s.told = ws[w].told /\ s.late = ws[w].late
      BY <1>1 DEF SockState
    <3> HIDE DEF s
    <3> QED BY <1>1, <2>1, <3>1, BeforeOK
  <2> HIDE DEF s
  <2> QED BY <2>1, <2>2, SockFrame
<1>4. CASE NoServer(w)
  <2> DEFINE s == [ws[w] EXCEPT !.pc = "rejected"]
  <2>1. ws' = [ws EXCEPT ![w] = s] /\ UNCHANGED <<up, req, wire, queue>> /\ ws[w].pc = "probe"
    BY <1>1, <1>4 DEF NoServer
  <2>2. SockOK(s)
    BY <1>1, <2>1 DEF SockOK, SockState
  <2> HIDE DEF s
  <2> QED BY <2>1, <2>2, SockFrame
<1>5. CASE Rejects(w)
  <2> DEFINE s == [ws[w] EXCEPT !.pc = "rejected", !.timer = FALSE, !.shut = TRUE]
  <2>1. ws' = [ws EXCEPT ![w] = s] /\ UNCHANGED <<up, req, wire, queue>> /\ ws[w].pc = "shake"
    BY <1>1, <1>5 DEF Rejects
  <2>2. SockOK(s)
    <3>1. /\ s \in SockState /\ s.pc = "rejected" /\ (s.timer => s.pc = "shake") /\ s.reg = ws[w].reg
          /\ s.arrived = ws[w].arrived /\ s.pending = ws[w].pending /\ s.delivered = ws[w].delivered
          /\ s.onMessage = ws[w].onMessage /\ s.onClose = ws[w].onClose /\ s.told = ws[w].told /\ s.late = ws[w].late
      BY <1>1 DEF SockState
    <3> HIDE DEF s
    <3> QED BY <1>1, <2>1, <3>1, BeforeOK
  <2> HIDE DEF s
  <2> QED BY <2>1, <2>2, SockFrame
<1>6. CASE Handshake(w)
  <2> DEFINE s == [ws[w] EXCEPT !.pc = "open", !.timer = FALSE, !.reg = TRUE]
  <2>1. PICK n \in 0 .. MaxFrames, ends \in BOOLEAN : ws' = [ws EXCEPT ![w] = Feed(s, n, ends)]
    BY <1>6 DEF Handshake
  <2>2. UNCHANGED <<up, req, wire, queue>> /\ ws[w].pc = "shake"
    BY <1>6 DEF Handshake
  <2>3. SockOK(s) /\ s.pc = "open" /\ s.arrived = 0
    BY <1>1, <2>2 DEF SockOK, SockState
  <2> HIDE DEF s
  <2>4. n \in 0 .. MaxFrames - s.arrived
    BY <2>3, NetworkAssumption
  <2>5. SockOK(Feed(s, n, ends))
    BY <2>3, <2>4, FeedOK
  <2> QED BY <2>1, <2>2, <2>5, SockFrame
<1> QED BY <1>2, <1>3, <1>4, <1>5, <1>6

\* The steps of an open socket and of its consumer.
LEMMA SocketStep ==
    ASSUME IInv, NEW w \in Sock,
           Frames(w) \/ TcpCloses(w) \/ OnMessage(w) \/ OnClose(w) \/ CloseWs(w) \/ BackstopFires(w)
    PROVE  IInv'
<1>1. SockOK(ws[w]) /\ ws[w] \in SockState /\ ws \in [Sock -> SockState]
  BY DEF IInv, SockOK
<1>2. CASE Frames(w)
  <2>1. PICK n \in 0 .. MaxFrames - ws[w].arrived, ends \in BOOLEAN : ws' = [ws EXCEPT ![w] = Feed(ws[w], n, ends)]
    BY <1>2 DEF Frames
  <2>2. UNCHANGED <<up, req, wire, queue>> /\ ws[w].pc \in {"open", "closing"}
    BY <1>2 DEF Frames
  <2>3. SockOK(Feed(ws[w], n, ends))
    BY <1>1, <2>2, FeedOK
  <2> QED BY <2>1, <2>2, <2>3, SockFrame
<1>3. CASE TcpCloses(w) \/ BackstopFires(w)
  <2>1. /\ ws' = [ws EXCEPT ![w] = FinishWs(ws[w])] /\ UNCHANGED <<up, req, wire, queue>>
        /\ ws[w].pc \in {"open", "closing", "closed"}
    BY <1>3 DEF TcpCloses, BackstopFires
  <2>2. SockOK(FinishWs(ws[w]))
    BY <1>1, <2>1, FinishWsOK
  <2> QED BY <2>1, <2>2, SockFrame
<1>4. CASE OnMessage(w)
  <2> DEFINE s == [ws[w] EXCEPT !.onMessage = TRUE, !.delivered = ws[w].delivered + ws[w].pending, !.pending = 0]
  <2>1. ws' = [ws EXCEPT ![w] = s] /\ UNCHANGED <<up, req, wire, queue>> /\ ws[w].pc \in {"open", "closing", "closed"}
    BY <1>1, <1>4 DEF OnMessage
  <2>2. /\ ws[w].delivered + ws[w].pending = ws[w].arrived /\ ws[w].arrived \in 0 .. MaxFrames
        /\ ws[w].delivered + ws[w].pending \in 0 .. MaxFrames /\ 0 \in 0 .. MaxFrames /\ ws[w].arrived + 0 = ws[w].arrived
    BY <1>1, NetworkAssumption DEF SockOK, SockState
  <2>3. /\ s \in SockState /\ s.delivered = ws[w].arrived /\ s.pending = 0 /\ s.arrived = ws[w].arrived
        /\ s.pc = ws[w].pc /\ s.reg = ws[w].reg /\ s.shut = ws[w].shut /\ s.timer = ws[w].timer
        /\ s.onClose = ws[w].onClose /\ s.told = ws[w].told /\ s.late = ws[w].late
    BY <1>1, <2>2 DEF SockState
  <2> HIDE DEF s
  <2>4. SockOK(s)
    BY <1>1, <2>1, <2>2, <2>3 DEF SockOK
  <2> QED BY <2>1, <2>4, SockFrame
<1>5. CASE OnClose(w)
  <2> DEFINE told == IF ws[w].late THEN ws[w].told + 1 ELSE ws[w].told
             s == [ws[w] EXCEPT !.onClose = TRUE, !.told = told, !.late = FALSE]
  <2>1. ws' = [ws EXCEPT ![w] = s] /\ UNCHANGED <<up, req, wire, queue>> /\ ws[w].pc \in {"open", "closing", "closed"}
    BY <1>1, <1>5 DEF OnClose
  <2>2. told \in 0 .. 2 /\ (ws[w].pc = "closed" => told = 1) /\ (ws[w].pc # "closed" => told = 0)
    BY <1>1 DEF SockOK, SockState
  <2> HIDE DEF told
  <2>3. /\ s \in SockState /\ s.told = told /\ s.late = FALSE /\ s.pending = ws[w].pending /\ s.arrived = ws[w].arrived
        /\ s.pc = ws[w].pc /\ s.reg = ws[w].reg /\ s.shut = ws[w].shut /\ s.timer = ws[w].timer
        /\ s.onMessage = ws[w].onMessage /\ s.delivered = ws[w].delivered
    BY <1>1, <2>2 DEF SockState
  <2> HIDE DEF s
  <2>4. SockOK(s)
    BY <1>1, <2>1, <2>2, <2>3 DEF SockOK
  <2> QED BY <2>1, <2>4, SockFrame
<1>6. CASE CloseWs(w)
  <2> DEFINE s == [ws[w] EXCEPT !.pc = "closing", !.timer = TRUE]
  <2>1. ws' = [ws EXCEPT ![w] = s] /\ UNCHANGED <<up, req, wire, queue>> /\ ws[w].pc = "open"
    BY <1>1, <1>6 DEF CloseWs
  <2>2. SockOK(s)
    BY <1>1, <2>1 DEF SockOK, SockState
  <2> HIDE DEF s
  <2> QED BY <2>1, <2>2, SockFrame
<1> QED BY <1>2, <1>3, <1>4, <1>5, <1>6

----
\* The shutdown ends every registered stream and socket, so nothing registered survives it.
LEMMA ShutdownStep ==
    ASSUME IInv, Shutdown
    PROVE  IInv'
<1>1. up' = FALSE /\ UNCHANGED <<req, wire>> /\ up' \in BOOLEAN
  BY DEF Shutdown
<1>2. ASSUME NEW w \in Sock PROVE SockOK(ws'[w])
  <2>1. ws'[w] = IF ws[w].reg THEN FinishWs(ws[w]) ELSE ws[w]
    BY DEF Shutdown
  <2>2. SockOK(ws[w])
    BY DEF IInv
  <2>3. ws[w].reg => ws[w].pc \in {"open", "closing", "closed"}
    BY <2>2 DEF SockOK
  <2> QED BY <2>1, <2>2, <2>3, FinishWsOK
<1>3. ASSUME NEW r \in Req PROVE ReqInv(r)'
  <2>1. queue'[r] = IF queue[r].reg THEN Drop(Fail(queue[r])) ELSE queue[r]
    BY DEF Shutdown
  <2>2. wire'[r] = wire[r] /\ req'[r] = req[r]
    BY <1>1
  <2>3. CASE queue[r].reg
    <3> DEFINE q == Drop(Fail(queue[r]))
    <3>1. StreamOK(q, wire[r]) /\ q.reg = FALSE /\ q.state # "none" /\ q.how = "fault"
      BY <2>3, ReqFacts, ShutOK
    <3>2. queue[r].state # "none"
      BY <2>3, ReqFacts DEF QueueOK
    <3>3. queue'[r] = q
      BY <2>1, <2>3
    <3> HIDE DEF q
    <3>4. AnswerOK(req[r], q, wire[r])
      BY <3>1, <3>2, ReqFacts DEF AnswerOK
    <3> QED BY <2>2, <3>1, <3>3, <3>4, ReqFacts DEF ReqInv
  <2>4. CASE ~queue[r].reg
    <3>1. queue'[r] = queue[r]
      BY <2>1, <2>4
    <3> QED BY <2>2, <2>4, <3>1, ReqFacts DEF ReqInv
  <2> QED BY <2>3, <2>4
<1>4. ws' \in [Sock -> SockState]
  <2>1. ws' = [w \in Sock |-> IF ws[w].reg THEN FinishWs(ws[w]) ELSE ws[w]]
    BY DEF Shutdown
  <2>2. \A w \in Sock : ws'[w] \in SockState
    BY <1>2 DEF SockOK
  <2> QED BY <2>1, <2>2
<1>5. queue' \in [Req -> QueueState]
  <2>1. queue' = [r \in Req |-> IF queue[r].reg THEN Drop(Fail(queue[r])) ELSE queue[r]]
    BY DEF Shutdown
  <2>2. \A r \in Req : queue'[r] \in QueueState
    BY <1>3 DEF ReqInv, StreamOK, QueueOK
  <2> QED BY <2>1, <2>2
<1>6. req' \in [Req -> ReqState] /\ wire' \in [Req -> WireState]
  BY <1>1 DEF IInv
<1> QED BY <1>1, <1>2, <1>3, <1>4, <1>5, <1>6 DEF IInv

LEMMA InitIInv == Init => IInv
<1> SUFFICES ASSUME Init PROVE IInv
  OBVIOUS
<1>0. 0 \in Nat /\ 0 \in 0 .. MaxBody /\ 0 \in 0 .. MaxFrames /\ 0 \in 0 .. MaxBody + 3 /\ 0 \in 0 .. 2
  BY NetworkAssumption
<1> DEFINE a == [pc |-> "idle", answer |-> "none", idle |-> FALSE, hard |-> FALSE, shut |-> FALSE]
           v == [kind |-> "unsized", sent |-> 0, closed |-> FALSE]
           q == [state |-> "none", how |-> "none", reg |-> FALSE, buf |-> 0, read |-> 0, reader |-> "idle"]
           s == [pc |-> "idle", reg |-> FALSE, shut |-> FALSE, timer |-> FALSE, arrived |-> 0, pending |-> 0,
                 delivered |-> 0, onMessage |-> FALSE, onClose |-> FALSE, told |-> 0, late |-> FALSE]
<1>1. /\ req = [r \in Req |-> a] /\ wire = [r \in Req |-> v] /\ queue = [r \in Req |-> q]
      /\ ws = [w \in Sock |-> s] /\ up = TRUE
  BY DEF Init
<1>2. a \in ReqState /\ v \in WireState
  BY <1>0 DEF ReqState, WireState, Kind
<1>3. q \in QueueState /\ s \in SockState
  BY <1>0 DEF QueueState, SockState
<1>4. StreamOK(q, v)
  BY <1>3 DEF StreamOK, QueueOK, Streamed
<1>5. AnswerOK(a, q, v)
  BY <1>2 DEF AnswerOK
<1>6. SockOK(s)
  <2>1. /\ s.pc = "idle" /\ s.arrived = 0 /\ s.pending = 0 /\ s.delivered = 0 /\ s.told = 0
        /\ ~s.timer /\ ~s.onMessage /\ ~s.onClose /\ ~s.late /\ ~s.reg
    OBVIOUS
  <2>2. s.delivered + s.pending = s.arrived
    BY <2>1
  <2> HIDE DEF s
  <2> QED BY <1>3, <2>1, <2>2 DEF SockOK
<1>7. q.reg = FALSE
  OBVIOUS
<1> HIDE DEF a, v, q, s
<1>8. \A r \in Req : ReqInv(r)
  BY <1>1, <1>2, <1>4, <1>5, <1>7 DEF ReqInv
<1>9. \A w \in Sock : SockOK(ws[w])
  BY <1>1, <1>6
<1>10. req \in [Req -> ReqState] /\ wire \in [Req -> WireState]
  BY <1>1, <1>2
<1>11. queue \in [Req -> QueueState] /\ ws \in [Sock -> SockState]
  BY <1>1, <1>3
<1> QED BY <1>1, <1>8, <1>9, <1>10, <1>11 DEF IInv

LEMMA StepIInv == IInv /\ [Next]_vars => IInv'
<1> SUFFICES ASSUME IInv, [Next]_vars PROVE IInv'
  OBVIOUS
<1>1. CASE Shutdown
  BY <1>1, ShutdownStep
<1>2. ASSUME NEW r \in Req, ReqStep(r) PROVE IInv'
  BY <1>2, DispatchStep, RefusedStep, ConnectStep, DataStep, ClosedStep, TimerStep, ReadStep, ReturnStep DEF ReqStep
<1>3. ASSUME NEW w \in Sock, SockStep(w) PROVE IInv'
  BY <1>3, HandshakeStep, SocketStep DEF SockStep
<1>4. CASE UNCHANGED vars
  BY <1>4 DEF vars, IInv, ReqInv
<1> QED BY <1>1, <1>2, <1>3, <1>4 DEF Next

LEMMA Invariance == Spec => []IInv
BY InitIInv, StepIInv, PTL DEF Spec

----
\* The records keep their types, a dispatch that waits has a timer, and a stream belongs to a dispatch that is done.
THEOREM TypeCorrect == Spec => []TypeOK
<1>1. IInv => TypeOK
  BY DEF IInv, ReqInv, AnswerOK, StreamOK, SockOK, TypeOK
<1> QED BY <1>1, Invariance, PTL

\* Whatever the guest sends and in whatever pieces, a reader waits only for what somebody will still bring, and what
\* it got and what is queued is all that came: through a fault, an end, a cancel and a shutdown.
THEOREM StreamsDeliverHolds == Spec => []StreamsDeliver
<1>1. IInv => StreamsDeliver
  BY DEF IInv, ReqInv, StreamOK, QueueOK, StreamsDeliver
<1> QED BY <1>1, Invariance, PTL

\* The shutdown set holds exactly the streams that are not over, and every ended answer or stream gave its
\* connection back.
THEOREM StreamsRegisteredHolds == Spec => []StreamsRegistered
<1>1. IInv => StreamsRegistered
  BY DEF IInv, ReqInv, AnswerOK, StreamOK, QueueOK, StreamsRegistered
<1> QED BY <1>1, Invariance, PTL

\* No message of an open WebSocket is lost or delivered twice, and its consumer is told of the close exactly once.
THEOREM SocketsDeliverHolds == Spec => []SocketsDeliver
<1>1. IInv => SocketsDeliver
  <2> SUFFICES ASSUME IInv, NEW w \in Sock
               PROVE  LET s == ws[w] IN
                      /\ s.delivered + s.pending = s.arrived /\ (s.onMessage => s.pending = 0)
                      /\ s.told + (IF s.late THEN 1 ELSE 0) = IF s.pc = "closed" THEN 1 ELSE 0
                      /\ s.reg = (s.pc \in {"open", "closing"})
                      /\ s.pc = "closed" => s.shut
    BY DEF SocketsDeliver
  <2>1. SockOK(ws[w])
    BY DEF IInv
  <2>2. ws[w].told + (IF ws[w].late THEN 1 ELSE 0) = IF ws[w].pc = "closed" THEN 1 ELSE 0
    BY <2>1 DEF SockOK
  <2>3. ws[w].reg = (ws[w].pc \in {"open", "closing"})
    <3>1. ws[w].reg \in BOOLEAN /\ (ws[w].reg <=> ws[w].pc \in {"open", "closing"})
      BY <2>1 DEF SockOK, SockState
    <3> QED BY <3>1
  <2> QED BY <2>1, <2>2, <2>3 DEF SockOK
<1> QED BY <1>1, Invariance, PTL
====
