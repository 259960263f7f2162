---- MODULE GuestProcessesProofs ----
(* The invariants of GuestProcesses for any calls, control requests and streams.                  *)
(* They are inductive once the frames under way are accounted for.  Of a call, an EXEC frame is    *)
(* the only trace it has in the guest; a STARTED frame comes first and an ERROR or EXIT frame last *)
(* among its frames, so a call whose exit is known has none left; and what its process wrote is    *)
(* in the pipe, in CHUNK frames or handed on.  Of a control request, whose end the host knew when  *)
(* it asked is gone, and stays gone until the listing is made.                                     *)
EXTENDS GuestProcesses, FiniteSetTheorems, SequenceTheorems, FunctionTheorems, TLAPS

----
(* Queues that are appended to at one end and read at the other: how many of their elements are in a set, and *)
(* which are there, after each of the two.                                                                     *)

Where(q, X) == {i \in 1 .. Len(q) : q[i] \in X}
Count(q, X) == Cardinality(Where(q, X))

\* An element of q is in X.
Holds(q, X) == \E i \in 1 .. Len(q) : q[i] \in X

\* A count is a number, zero where nothing is counted.
LEMMA CountType ==
    ASSUME NEW S, NEW q \in Seq(S), NEW X
    PROVE  /\ IsFiniteSet(Where(q, X)) /\ Count(q, X) \in Nat
           /\ Count(q, X) = 0 <=> ~Holds(q, X)
           /\ Count(<<>>, X) = 0
<1>1. Len(q) \in Nat
  BY LenProperties
<1>2. IsFiniteSet(1 .. Len(q))
  BY <1>1, FS_Interval
<1>3. Where(q, X) \in SUBSET (1 .. Len(q))
  BY DEF Where
<1>4. IsFiniteSet(Where(q, X))
  BY <1>2, <1>3, FS_Subset
<1>5. Count(q, X) \in Nat
  BY <1>4, FS_CardinalityType DEF Count
<1>6. Count(q, X) = 0 <=> Where(q, X) = {}
  BY <1>4, FS_EmptySet DEF Count
<1>7. Where(q, X) = {} <=> ~Holds(q, X)
  BY DEF Where, Holds
<1>8. Where(<<>>, X) = {}
  BY DEF Where
<1> QED BY <1>4, <1>5, <1>6, <1>7, <1>8, FS_EmptySet DEF Count

\* What Append adds.
LEMMA CountAppend ==
    ASSUME NEW S, NEW q \in Seq(S), NEW e \in S, NEW X
    PROVE  /\ Append(q, e) \in Seq(S)
           /\ Count(Append(q, e), X) = IF e \in X THEN Count(q, X) + 1 ELSE Count(q, X)
           /\ Holds(Append(q, e), X) <=> Holds(q, X) \/ e \in X
<1> DEFINE p == Append(q, e)
<1>1. Len(q) \in Nat /\ Len(p) = Len(q) + 1 /\ p[Len(q) + 1] = e /\ \A i \in 1 .. Len(q) : p[i] = q[i]
  BY LenProperties, AppendProperties
<1>2. p \in Seq(S)
  BY AppendProperties
<1>3. Where(p, X) = IF e \in X THEN Where(q, X) \cup {Len(q) + 1} ELSE Where(q, X)
  BY <1>1 DEF Where
<1>4. Len(q) + 1 \notin Where(q, X)
  BY <1>1 DEF Where
<1>5. IsFiniteSet(Where(q, X))
  BY CountType
<1>6. Cardinality(Where(q, X) \cup {Len(q) + 1}) = Cardinality(Where(q, X)) + 1
  BY <1>4, <1>5, FS_AddElement
<1>7. Count(p, X) = IF e \in X THEN Count(q, X) + 1 ELSE Count(q, X)
  BY <1>3, <1>6 DEF Count
<1>8. Holds(p, X) <=> Holds(q, X) \/ e \in X
  BY <1>1 DEF Holds
<1> QED BY <1>2, <1>7, <1>8

\* What Tail takes away.
LEMMA CountTail ==
    ASSUME NEW S, NEW q \in Seq(S), q # <<>>, NEW X
    PROVE  /\ Tail(q) \in Seq(S) /\ Head(q) \in S
           /\ Count(q, X) = IF Head(q) \in X THEN Count(Tail(q), X) + 1 ELSE Count(Tail(q), X)
           /\ Holds(q, X) <=> Holds(Tail(q), X) \/ Head(q) \in X
<1> DEFINE t == Tail(q)
           A == Where(t, X)
           B == Where(q, X) \ {1}
           f == [i \in A |-> i + 1]
<1>1. /\ Len(q) \in Nat \ {0} /\ t \in Seq(S) /\ Len(t) = Len(q) - 1 /\ Head(q) \in S /\ Head(q) = q[1]
      /\ \A i \in 1 .. Len(t) : t[i] = q[i + 1]
  BY LenProperties, HeadTailProperties, EmptySeq
<1>2. \A i \in A : i + 1 \in B
  BY <1>1 DEF Where
<1>3. \A j \in B : j - 1 \in A /\ j \in Nat
  BY <1>1 DEF Where
<1>4. f \in Bijection(A, B)
  <2>1. f \in [A -> B]
    BY <1>2
  <2>2. \A i, j \in A : f[i] = f[j] => i = j
    BY <1>1 DEF Where
  <2>3. \A j \in B : \E i \in A : f[i] = j
    <3> SUFFICES ASSUME NEW j \in B PROVE \E i \in A : f[i] = j
      OBVIOUS
    <3>1. j - 1 \in A /\ j \in Nat
      BY <1>3
    <3>2. f[j - 1] = j
      BY <3>1 DEF Where
    <3> QED BY <3>1, <3>2
  <2> QED BY <2>1, <2>2, <2>3 DEF Bijection, Injection, Surjection, IsInjective
<1>5. IsFiniteSet(A) /\ IsFiniteSet(Where(q, X))
  BY <1>1, CountType
<1>6. Cardinality(B) = Cardinality(A)
  BY <1>4, <1>5, FS_Bijection DEF ExistsBijection
<1>7. Cardinality(B) = IF 1 \in Where(q, X) THEN Cardinality(Where(q, X)) - 1 ELSE Cardinality(Where(q, X))
  BY <1>5, FS_RemoveElement
<1>8. 1 \in Where(q, X) <=> Head(q) \in X
  BY <1>1 DEF Where
<1>9. Count(q, X) \in Nat /\ Count(t, X) \in Nat
  BY <1>1, CountType
<1>10. Count(q, X) = IF Head(q) \in X THEN Count(t, X) + 1 ELSE Count(t, X)
  BY <1>6, <1>7, <1>8, <1>9 DEF Count
<1>11. Count(q, X) = 0 <=> ~Holds(q, X)
  BY CountType
<1>12. Count(t, X) = 0 <=> ~Holds(t, X)
  BY <1>1, CountType
<1>13. Holds(q, X) <=> Holds(t, X) \/ Head(q) \in X
  BY <1>9, <1>10, <1>11, <1>12
<1> QED BY <1>1, <1>10, <1>13

----
(* Frames. *)

Born == {"run", "dead", "gone"}
Types == {"started", "error", "chunk", "exit", "ack", "procs"}

\* The frames of a call.
ExecOf(c) == {f \in Frame : f.type = "exec" /\ f.id = c}
AnyOf(c) == {f \in Reply : f.id = c}
OfType(c, t) == {f \in Reply : f.id = c /\ f.type = t}
ChunkOf(c, s) == {f \in Reply : f.id = c /\ f.type = "chunk" /\ f.stream = s}

\* A call's record k, its process g and its frames in the queues to the guest and from it.
CallOK(c, k, g, to, fr) ==
    /\ g.child => g.pc \in {"run", "dead"}
    /\ g.pc = "gone" => g.piped = None
    /\ \A s \in Stream : k.got[s] + Count(fr, ChunkOf(c, s)) + g.piped[s] = g.wrote[s]
    /\ k.pc = "idle" => g.pc = "none" /\ ~Holds(to, ExecOf(c)) /\ ~Holds(fr, AnyOf(c))
    /\ Count(to, ExecOf(c)) <= 1
    /\ Holds(to, ExecOf(c)) => k.pc = "asked" /\ g.pc = "none" /\ ~Holds(fr, AnyOf(c))
    /\ g.pc = "thread" => k.pc = "asked" /\ ~Holds(to, ExecOf(c)) /\ ~Holds(fr, AnyOf(c))
    /\ Holds(fr, OfType(c, "error")) => k.pc = "asked" /\ g.pc = "none"
    /\ Holds(fr, OfType(c, "started")) => k.pc = "asked" /\ g.pc \in Born
    /\ g.pc \in Born => k.pc \in {"started", "tracked"} \/ Holds(fr, OfType(c, "started"))
    /\ Holds(fr, OfType(c, "chunk")) => g.pc \in Born
    /\ Holds(fr, OfType(c, "exit")) => g.pc = "gone"
    /\ k.exit # "none" => g.pc = "gone" /\ k.pc \in {"started", "tracked"} /\ ~Holds(fr, AnyOf(c))

\* Of two frames of a call, the earlier is no ERROR or EXIT and the later no STARTED or ERROR.
Ordered(fr) ==
    \A i, j \in 1 .. Len(fr) :
        i < j /\ fr[i].id = fr[j].id /\ fr[i].id \in Call =>
            fr[i].type \notin {"exit", "error"} /\ fr[j].type \notin {"started", "error"}

\* A frame names what its type is about.
Named(f) ==
    /\ f.type \in {"started", "chunk", "exit"} => f.id \in Call
    /\ f.type \in {"ack", "procs"} => f.id \in Control
    /\ f.type = "chunk" => f.stream \in Stream
AskNamed(f) == IF f.type = "exec" THEN f.id \in Call ELSE f.id \in Control

\* A control request, and what is under way of it.
CtlOK(x) ==
    /\ x.pc = "idle" => x.known = {}
    /\ x.pc \in {"idle", "asked"} => x.live = {}
    /\ x.live \cap x.known = {}
Answers(q, live) == ctl[q].pc # "idle" /\ live \cap ctl[q].known = {}

FromInv(fr) ==
    /\ Ordered(fr)
    /\ \A i \in 1 .. Len(fr) : Named(fr[i]) /\ (fr[i].id \in Control => Answers(fr[i].id, fr[i].live))
ToInv(to) ==
    \A i \in 1 .. Len(to) : AskNamed(to[i]) /\ (to[i].id \in Control => ctl[to[i].id].pc # "idle")
ListingOK == IF listing.id = NoCall THEN listing = NotListing ELSE Answers(listing.id, listing.live)
CtlInv ==
    /\ \A q \in Control : CtlOK(ctl[q])
    /\ boot # "down" => \A q \in Control : \A c \in ctl[q].known : guest[c].pc = "gone"
    /\ ListingOK
Still(g) == g.pc \in {"none", "gone"} /\ ~g.child
CallsInv == boot # "down" => \A c \in Call : CallOK(c, call[c], guest[c], toGuest, fromGuest)
DownInv ==
    /\ boot = "down" => toGuest = <<>> /\ fromGuest = <<>> /\ listing = NotListing
    /\ boot = "down" => \A c \in Call : Still(guest[c])
    /\ NothingPending

IInv == TypeOK /\ FromInv(fromGuest) /\ ToInv(toGuest) /\ CtlInv /\ CallsInv /\ DownInv

----
\* What a call sees of two queues from the guest, or of two to it, is the same.
SameFrom(c, fr, fr2) ==
    /\ \A s \in Stream : Count(fr2, ChunkOf(c, s)) = Count(fr, ChunkOf(c, s))
    /\ Holds(fr2, AnyOf(c)) <=> Holds(fr, AnyOf(c))
    /\ \A t \in Types : Holds(fr2, OfType(c, t)) <=> Holds(fr, OfType(c, t))
SameTo(c, to, to2) ==
    /\ Count(to2, ExecOf(c)) = Count(to, ExecOf(c))
    /\ Holds(to2, ExecOf(c)) <=> Holds(to, ExecOf(c))

LEMMA Unseen ==
    ASSUME NEW c, NEW k, NEW g, NEW to, NEW to2, NEW fr, NEW fr2,
           CallOK(c, k, g, to, fr), SameTo(c, to, to2), SameFrom(c, fr, fr2)
    PROVE  CallOK(c, k, g, to2, fr2)
BY DEF CallOK, SameFrom, SameTo, Types

LEMMA SameRefl ==
    ASSUME NEW c, NEW to, NEW fr PROVE SameTo(c, to, to) /\ SameFrom(c, fr, fr)
BY DEF SameFrom, SameTo

\* The frames of one call are not those of another.
LEMMA OthersFrames ==
    ASSUME NEW c, NEW f \in Reply, f.id # c
    PROVE  f \notin AnyOf(c) /\ (\A t : f \notin OfType(c, t)) /\ (\A s : f \notin ChunkOf(c, s))
BY DEF AnyOf, OfType, ChunkOf

LEMMA FromAppend ==
    ASSUME NEW c, NEW fr \in Seq(Reply), NEW f \in Reply, f.id # c
    PROVE  SameFrom(c, fr, Append(fr, f))
BY OthersFrames, CountAppend DEF SameFrom

LEMMA FromTail ==
    ASSUME NEW c, NEW fr \in Seq(Reply), fr # <<>>, Head(fr).id # c
    PROVE  SameFrom(c, fr, Tail(fr))
<1>1. Head(fr) \in Reply
  BY HeadTailProperties
<1> QED BY <1>1, OthersFrames, CountTail DEF SameFrom

LEMMA ToAppend ==
    ASSUME NEW c, NEW to \in Seq(Frame), NEW f \in Frame, f.id # c \/ f.type # "exec"
    PROVE  SameTo(c, to, Append(to, f))
<1>1. f \notin ExecOf(c)
  BY DEF ExecOf
<1> QED BY <1>1, CountAppend DEF SameTo

LEMMA ToTail ==
    ASSUME NEW c, NEW to \in Seq(Frame), to # <<>>, Head(to).id # c \/ Head(to).type # "exec"
    PROVE  SameTo(c, to, Tail(to))
<1>1. Head(to) \notin ExecOf(c)
  BY DEF ExecOf
<1> QED BY <1>1, CountTail DEF SameTo

\* A frame that may come last does not disturb the order.
LEMMA OrderedAppend ==
    ASSUME NEW fr \in Seq(Reply), Ordered(fr), NEW f \in Reply,
           f.id \in Call => /\ ~Holds(fr, OfType(f.id, "exit")) /\ ~Holds(fr, OfType(f.id, "error"))
                            /\ f.type \in {"started", "error"} => ~Holds(fr, AnyOf(f.id))
    PROVE  Ordered(Append(fr, f))
<1> DEFINE p == Append(fr, f)
<1>1. Len(fr) \in Nat /\ Len(p) = Len(fr) + 1 /\ p[Len(fr) + 1] = f /\ \A i \in 1 .. Len(fr) : p[i] = fr[i] /\ fr[i] \in Reply
  BY LenProperties, AppendProperties, ElementOfSeq
<1> HIDE DEF p
<1> SUFFICES ASSUME NEW i \in 1 .. Len(p), NEW j \in 1 .. Len(p), i < j, p[i].id = p[j].id, p[i].id \in Call
             PROVE  p[i].type \notin {"exit", "error"} /\ p[j].type \notin {"started", "error"}
  BY DEF Ordered, p
<1>2. i \in 1 .. Len(fr)
  BY <1>1
<1>3. CASE j \in 1 .. Len(fr)
  BY <1>1, <1>2, <1>3 DEF Ordered
<1>4. CASE j = Len(fr) + 1
  <2>1. fr[i].id = f.id /\ f.id \in Call /\ fr[i] \in Reply /\ p[i] = fr[i] /\ p[j] = f
    BY <1>1, <1>2, <1>4
  <2>2. fr[i] \in AnyOf(f.id) /\ fr[i] \in OfType(f.id, fr[i].type)
    BY <2>1 DEF AnyOf, OfType
  <2>3. Holds(fr, AnyOf(f.id)) /\ Holds(fr, OfType(f.id, fr[i].type))
    BY <1>2, <2>2 DEF Holds
  <2> QED BY <2>1, <2>3
<1> QED BY <1>1, <1>3, <1>4

LEMMA OrderedTail ==
    ASSUME NEW fr \in Seq(Reply), Ordered(fr), fr # <<>>
    PROVE  Ordered(Tail(fr))
<1>1. Len(fr) \in Nat /\ Len(Tail(fr)) = Len(fr) - 1 /\ \A i \in 1 .. Len(Tail(fr)) : Tail(fr)[i] = fr[i + 1]
  BY HeadTailProperties, LenProperties
<1> QED BY <1>1 DEF Ordered

\* A call has nothing under way behind an ERROR or EXIT frame, and no STARTED or ERROR behind any.
LEMMA LastFrame ==
    ASSUME NEW fr \in Seq(Reply), Ordered(fr), fr # <<>>, Head(fr).id \in Call
    PROVE  /\ Head(fr).type \in {"exit", "error"} => ~Holds(Tail(fr), AnyOf(Head(fr).id))
           /\ ~Holds(Tail(fr), OfType(Head(fr).id, "started")) /\ ~Holds(Tail(fr), OfType(Head(fr).id, "error"))
<1>1. Len(fr) \in Nat /\ Len(fr) > 0 /\ Len(Tail(fr)) = Len(fr) - 1 /\ Head(fr) = fr[1] /\ \A i \in 1 .. Len(Tail(fr)) : Tail(fr)[i] = fr[i + 1]
  BY HeadTailProperties, LenProperties, EmptySeq
<1>2. ASSUME NEW i \in 1 .. Len(Tail(fr)), Tail(fr)[i].id = Head(fr).id
      PROVE  Head(fr).type \notin {"exit", "error"} /\ Tail(fr)[i].type \notin {"started", "error"}
  <2>1. 1 \in 1 .. Len(fr) /\ i + 1 \in 1 .. Len(fr) /\ 1 < i + 1 /\ Tail(fr)[i] = fr[i + 1]
    BY <1>1
  <2> QED BY <1>1, <1>2, <2>1 DEF Ordered
<1> QED BY <1>2 DEF Holds, AnyOf, OfType
----
\* The queues after an Append and a Tail.
LEMMA FromInvAppend ==
    ASSUME NEW fr \in Seq(Reply), FromInv(fr), NEW f \in Reply, Named(f), f.id \in Control => Answers(f.id, f.live),
           f.id \in Call => /\ ~Holds(fr, OfType(f.id, "exit")) /\ ~Holds(fr, OfType(f.id, "error"))
                            /\ f.type \in {"started", "error"} => ~Holds(fr, AnyOf(f.id))
    PROVE  FromInv(Append(fr, f)) /\ Append(fr, f) \in Seq(Reply)
<1>1. Ordered(Append(fr, f))
  BY OrderedAppend DEF FromInv
<1>2. Len(fr) \in Nat /\ Len(Append(fr, f)) = Len(fr) + 1 /\ Append(fr, f)[Len(fr) + 1] = f
      /\ \A i \in 1 .. Len(fr) : Append(fr, f)[i] = fr[i]
  BY LenProperties, AppendProperties
<1>3. Append(fr, f) \in Seq(Reply)
  BY AppendProperties
<1> QED BY <1>1, <1>2, <1>3 DEF FromInv

LEMMA FromInvTail ==
    ASSUME NEW fr \in Seq(Reply), FromInv(fr), fr # <<>>
    PROVE  /\ FromInv(Tail(fr)) /\ Tail(fr) \in Seq(Reply)
           /\ Head(fr) \in Reply /\ Named(Head(fr)) /\ (Head(fr).id \in Control => Answers(Head(fr).id, Head(fr).live))
<1>1. Ordered(Tail(fr))
  BY OrderedTail DEF FromInv
<1>2. /\ Len(fr) \in Nat /\ Len(fr) > 0 /\ Len(Tail(fr)) = Len(fr) - 1 /\ Head(fr) = fr[1] /\ Head(fr) \in Reply /\ Tail(fr) \in Seq(Reply)
      /\ \A i \in 1 .. Len(Tail(fr)) : Tail(fr)[i] = fr[i + 1]
  BY HeadTailProperties, LenProperties, EmptySeq
<1> QED BY <1>1, <1>2 DEF FromInv

LEMMA ToInvAppend ==
    ASSUME NEW to \in Seq(Frame), ToInv(to), NEW f \in Frame, AskNamed(f), f.id \in Control => ctl[f.id].pc # "idle"
    PROVE  ToInv(Append(to, f)) /\ Append(to, f) \in Seq(Frame)
<1>1. Len(to) \in Nat /\ Len(Append(to, f)) = Len(to) + 1 /\ Append(to, f)[Len(to) + 1] = f
      /\ \A i \in 1 .. Len(to) : Append(to, f)[i] = to[i]
  BY LenProperties, AppendProperties
<1>2. Append(to, f) \in Seq(Frame)
  BY AppendProperties
<1> QED BY <1>1, <1>2 DEF ToInv

LEMMA ToInvTail ==
    ASSUME NEW to \in Seq(Frame), ToInv(to), to # <<>>
    PROVE  /\ ToInv(Tail(to)) /\ Tail(to) \in Seq(Frame)
           /\ Head(to) \in Frame /\ AskNamed(Head(to)) /\ (Head(to).id \in Control => ctl[Head(to).id].pc # "idle")
<1>1. /\ Len(to) \in Nat /\ Len(to) > 0 /\ Len(Tail(to)) = Len(to) - 1 /\ Head(to) = to[1] /\ Head(to) \in Frame /\ Tail(to) \in Seq(Frame)
      /\ \A i \in 1 .. Len(Tail(to)) : Tail(to)[i] = to[i + 1]
  BY HeadTailProperties, LenProperties, EmptySeq
<1> QED BY <1>1 DEF ToInv

\* The record of a call and its process.
KType(k) ==
    /\ k \in CallState
    /\ k.pc \in {"idle", "failed"} => k.exit = "none"
    /\ k.record \in Over => k.record = k.exit
GType(g) == g \in GuestState /\ \A s \in Stream : g.piped[s] <= g.wrote[s]

\* A step of one call and its process, with what it sends or takes.
LEMMA OneCall ==
    ASSUME IInv, NEW c \in Call, NEW k, NEW g, KType(k), GType(g),
           boot' = boot, ctl' = ctl, listing' = listing,
           call' = [call EXCEPT ![c] = k], guest' = [guest EXCEPT ![c] = g],
           toGuest' \in Seq(Frame), ToInv(toGuest'), fromGuest' \in Seq(Reply), FromInv(fromGuest'),
           \A d \in Call \ {c} : SameTo(d, toGuest, toGuest') /\ SameFrom(d, fromGuest, fromGuest'),
           guest[c].pc = "gone" => g.pc = "gone",
           boot # "down" => CallOK(c, k, g, toGuest', fromGuest'),
           boot = "down" => /\ toGuest' = toGuest /\ fromGuest' = fromGuest /\ k.pc # "asked"
                            /\ k.pc \in {"started", "tracked"} => k.exit # "none"
                            /\ Still(g)
    PROVE  IInv'
<1>1. /\ \A d \in Call : call'[d] = IF d = c THEN k ELSE call[d]
      /\ \A d \in Call : guest'[d] = IF d = c THEN g ELSE guest[d]
  BY DEF IInv, TypeOK
<1>2. TypeOK'
  <2>1. call' \in [Call -> CallState] /\ guest' \in [Call -> GuestState]
    BY DEF IInv, TypeOK, KType, GType
  <2>2. ASSUME NEW d \in Call
        PROVE  /\ call'[d].pc \in {"idle", "failed"} => call'[d].exit = "none"
               /\ call'[d].record \in Over => call'[d].record = call'[d].exit
               /\ \A s \in Stream : guest'[d].piped[s] <= guest'[d].wrote[s]
    BY <1>1 DEF IInv, TypeOK, KType, GType
  <2> QED BY <2>1, <2>2 DEF IInv, TypeOK
<1>3. FromInv(fromGuest)' /\ ToInv(toGuest)'
  BY DEF FromInv, ToInv, Answers
<1>4. CtlInv'
  BY <1>1 DEF IInv, TypeOK, CtlInv, CtlState, CtlOK, ListingOK, Answers
<1>5. CallsInv'
  <2> SUFFICES ASSUME boot # "down", NEW d \in Call PROVE CallOK(d, call[d], guest[d], toGuest, fromGuest)'
    BY DEF CallsInv
  <2>1. CASE d = c
    BY <1>1, <2>1 DEF CallOK, IInv
  <2>2. CASE d # c
    <3>1. CallOK(d, call[d], guest[d], toGuest', fromGuest')
      BY <2>2, Unseen DEF IInv, CallsInv
    <3> QED BY <1>1, <2>2, <3>1 DEF CallOK
  <2> QED BY <2>1, <2>2
<1>6. DownInv'
  BY <1>1 DEF IInv, DownInv, NothingPending, Still
<1> QED BY <1>2, <1>3, <1>4, <1>5, <1>6 DEF IInv

----
\* What is known of a call before a step.
Known(c) ==
    /\ KType(call[c]) /\ GType(guest[c])
    /\ call[c] \in CallState /\ guest[c] \in GuestState
    /\ call[c].got \in [Stream -> 0 .. MaxChunks] /\ guest[c].wrote \in [Stream -> 0 .. MaxChunks] /\ guest[c].piped \in [Stream -> 0 .. MaxChunks]
    /\ call = [call EXCEPT ![c] = call[c]] /\ guest = [guest EXCEPT ![c] = guest[c]]
    /\ toGuest \in Seq(Frame) /\ fromGuest \in Seq(Reply)
    /\ ToInv(toGuest) /\ FromInv(fromGuest)
    /\ boot # "down" => CallOK(c, call[c], guest[c], toGuest, fromGuest)
    /\ boot = "down" => /\ toGuest = <<>> /\ fromGuest = <<>> /\ call[c].pc # "asked"
                        /\ call[c].pc \in {"started", "tracked"} => call[c].exit # "none"
                        /\ Still(guest[c])
    /\ c \notin Control /\ c # NoCall

LEMMA CallFacts ==
    ASSUME IInv, NEW c \in Call PROVE Known(c)
<1>1. call[c] \in CallState /\ guest[c] \in GuestState
  BY DEF IInv, TypeOK
<1>2. call[c].got \in [Stream -> 0 .. MaxChunks] /\ guest[c].wrote \in [Stream -> 0 .. MaxChunks] /\ guest[c].piped \in [Stream -> 0 .. MaxChunks]
  BY <1>1 DEF CallState, GuestState
<1>3. KType(call[c]) /\ GType(guest[c])
  BY <1>1 DEF IInv, TypeOK, KType, GType
<1>4. call = [call EXCEPT ![c] = call[c]] /\ guest = [guest EXCEPT ![c] = guest[c]]
  BY DEF IInv, TypeOK
<1>5. toGuest \in Seq(Frame) /\ fromGuest \in Seq(Reply) /\ ToInv(toGuest) /\ FromInv(fromGuest)
  BY DEF IInv, TypeOK
<1>6. boot # "down" => CallOK(c, call[c], guest[c], toGuest, fromGuest)
  BY DEF IInv, CallsInv
<1>7. boot = "down" => /\ toGuest = <<>> /\ fromGuest = <<>> /\ call[c].pc # "asked"
                       /\ call[c].pc \in {"started", "tracked"} => call[c].exit # "none"
                       /\ Still(guest[c])
  <2>1. DownInv
    BY DEF IInv
  <2>2. boot = "down" => call[c].pc # "asked" /\ (call[c].pc \in {"started", "tracked"} => call[c].exit # "none")
    BY <2>1 DEF DownInv, NothingPending
  <2>3. boot = "down" => toGuest = <<>> /\ fromGuest = <<>> /\ Still(guest[c])
    BY <2>1, Zenon DEF DownInv
  <2> QED BY <2>2, <2>3, Zenon
<1>8. c \notin Control /\ c # NoCall
  BY GuestAssumption
<1> QED BY <1>1, <1>2, <1>3, <1>4, <1>5, <1>6, <1>7, <1>8 DEF Known

\* What the queues of the other calls show does not change with the queues.
LEMMA OthersSame ==
    ASSUME NEW c, toGuest' = toGuest, fromGuest' = fromGuest
    PROVE  \A d \in Call \ {c} : SameTo(d, toGuest, toGuest') /\ SameFrom(d, fromGuest, fromGuest')
BY SameRefl

\* A step of one call and its process that neither sends nor takes a frame.
LEMMA OneCallQuietly ==
    ASSUME IInv, NEW c \in Call, NEW k, NEW g, KType(k), GType(g),
           boot' = boot, ctl' = ctl, listing' = listing, toGuest' = toGuest, fromGuest' = fromGuest,
           call' = [call EXCEPT ![c] = k], guest' = [guest EXCEPT ![c] = g],
           guest[c].pc = "gone" => g.pc = "gone",
           boot # "down" => CallOK(c, k, g, toGuest, fromGuest),
           boot = "down" => k.pc # "asked" /\ (k.pc \in {"started", "tracked"} => k.exit # "none") /\ Still(g)
    PROVE  IInv'
BY CallFacts, OthersSame, OneCall DEF Known

LEMMA TrackStep ==
    ASSUME IInv, NEW c \in Call, Track(c) PROVE IInv'
<1> DEFINE k == [call[c] EXCEPT !.pc = "tracked"]
<1>0. Known(c)
  BY CallFacts
<1> USE <1>0 DEF Known
<1>1. k \in CallState /\ k.pc = "tracked" /\ k.exit = call[c].exit /\ k.got = call[c].got /\ k.record = call[c].record /\ call[c].pc = "started"
  BY DEF Track, CallState
<1>2. KType(k)
  BY <1>1 DEF KType
<1>3. call' = [call EXCEPT ![c] = k] /\ guest' = [guest EXCEPT ![c] = guest[c]]
  BY DEF Track
<1>4. boot # "down" => CallOK(c, k, guest[c], toGuest, fromGuest)
  BY <1>1 DEF CallOK
<1>5. boot = "down" => k.exit # "none"
  BY <1>1
<1> QED BY <1>1, <1>2, <1>3, <1>4, <1>5, OneCallQuietly DEF Track

LEMMA RecordSettlesStep ==
    ASSUME IInv, NEW c \in Call, RecordSettles(c) PROVE IInv'
<1> DEFINE k == [call[c] EXCEPT !.record = call[c].exit]
<1>0. Known(c)
  BY CallFacts
<1> USE <1>0 DEF Known
<1>1. k \in CallState /\ k.pc = call[c].pc /\ k.exit = call[c].exit /\ k.got = call[c].got /\ k.record = k.exit /\ k.pc = "tracked" /\ k.exit # "none"
  BY DEF RecordSettles, CallState, Over
<1>2. KType(k)
  BY <1>1 DEF KType
<1>3. call' = [call EXCEPT ![c] = k] /\ guest' = [guest EXCEPT ![c] = guest[c]]
  BY DEF RecordSettles, Records
<1>4. boot # "down" => CallOK(c, k, guest[c], toGuest, fromGuest)
  BY <1>1 DEF CallOK
<1> QED BY <1>1, <1>2, <1>3, <1>4, OneCallQuietly DEF RecordSettles

LEMMA WritesStep ==
    ASSUME IInv, NEW c \in Call, NEW s \in Stream, Writes(c, s) PROVE IInv'
<1> DEFINE w == [guest[c].wrote EXCEPT ![s] = guest[c].wrote[s] + 1]
           p == [guest[c].piped EXCEPT ![s] = guest[c].piped[s] + 1]
           g == [guest[c] EXCEPT !.wrote = w, !.piped = p]
<1>0. Known(c)
  BY CallFacts
<1> USE <1>0 DEF Known
<1>1. /\ guest[c].wrote[s] \in 0 .. MaxChunks /\ guest[c].piped[s] \in 0 .. MaxChunks /\ guest[c].wrote[s] < MaxChunks
      /\ guest[c].piped[s] <= guest[c].wrote[s] /\ MaxChunks \in Nat
  BY GuestAssumption DEF Writes, GType
<1>2. w \in [Stream -> 0 .. MaxChunks] /\ p \in [Stream -> 0 .. MaxChunks]
  BY <1>1
<1>3. g \in GuestState /\ g.wrote = w /\ g.piped = p /\ g.pc = guest[c].pc /\ g.child = guest[c].child
  BY <1>2 DEF GuestState
<1>4. \A t \in Stream : /\ w[t] = (IF t = s THEN guest[c].wrote[t] + 1 ELSE guest[c].wrote[t])
                        /\ p[t] = (IF t = s THEN guest[c].piped[t] + 1 ELSE guest[c].piped[t])
                        /\ guest[c].piped[t] \in Nat /\ guest[c].wrote[t] \in Nat /\ call[c].got[t] \in Nat
  BY <1>1
<1>5. GType(g)
  BY <1>3, <1>4 DEF GType
<1>6. guest' = [guest EXCEPT ![c] = g] /\ call' = [call EXCEPT ![c] = call[c]]
  <2>1. guest \in [Call -> GuestState]
    BY DEF IInv, TypeOK
  <2>2. guest' = [guest EXCEPT ![c] = [[guest[c] EXCEPT !.wrote = w] EXCEPT !.piped = p]]
    BY <2>1 DEF Writes, GuestState
  <2> QED BY <2>2 DEF Writes
<1>7. boot # "down" => CallOK(c, call[c], g, toGuest, fromGuest)
  <2> HAVE boot # "down"
  <2>1. g.pc # "gone" /\ CallOK(c, call[c], guest[c], toGuest, fromGuest)
    BY <1>3 DEF Writes, CallOK
  <2>2. \A t \in Stream : Count(fromGuest, ChunkOf(c, t)) \in Nat
    BY CountType
  <2>3. \A t \in Stream : call[c].got[t] + Count(fromGuest, ChunkOf(c, t)) + g.piped[t] = g.wrote[t]
    <3> TAKE t \in Stream
    <3>1. call[c].got[t] + Count(fromGuest, ChunkOf(c, t)) + guest[c].piped[t] = guest[c].wrote[t]
      BY <2>1 DEF CallOK
    <3>2. g.piped[t] = p[t] /\ g.wrote[t] = w[t]
      BY <1>3
    <3>3. call[c].got[t] \in Nat /\ Count(fromGuest, ChunkOf(c, t)) \in Nat /\ guest[c].piped[t] \in Nat
      BY <1>4, <2>2
    <3> HIDE DEF g, p, w, Known, ChunkOf
    <3> QED BY <1>4, <3>1, <3>2, <3>3
  <2> QED BY <1>3, <2>1, <2>3 DEF CallOK
<1> HIDE DEF g
<1> QED BY <1>3, <1>5, <1>6, <1>7, OneCallQuietly DEF Writes, Still

\* A process forks, what it left ends, or it ends itself.
LEMMA ForksStep ==
    ASSUME IInv, NEW c \in Call, Forks(c) \/ ChildEnds(c) \/ Exits(c) PROVE IInv'
<1> DEFINE g == IF Forks(c) THEN [guest[c] EXCEPT !.child = TRUE]
                ELSE IF ChildEnds(c) THEN [guest[c] EXCEPT !.child = FALSE] ELSE [guest[c] EXCEPT !.pc = "dead"]
<1>0. Known(c)
  BY CallFacts
<1> USE <1>0 DEF Known
<1>1. /\ g \in GuestState /\ g.wrote = guest[c].wrote /\ g.piped = guest[c].piped
      /\ g.pc = guest[c].pc \/ (guest[c].pc = "run" /\ g.pc = "dead")
      /\ g.child => g.pc = "run" \/ guest[c].child
  BY DEF Forks, ChildEnds, Exits, GuestState
<1>2. GType(g)
  BY <1>1 DEF GType
<1>3. guest' = [guest EXCEPT ![c] = g] /\ call' = [call EXCEPT ![c] = call[c]]
  BY DEF Forks, ChildEnds, Exits
<1>4. boot # "down" => CallOK(c, call[c], g, toGuest, fromGuest)
  BY <1>1 DEF CallOK, Born
<1>5. UNCHANGED <<boot, ctl, toGuest, fromGuest, listing>>
  BY DEF Forks, ChildEnds, Exits
<1> HIDE DEF g
<1>6. boot = "down" => Still(g)
  BY <1>1 DEF Still
<1> HIDE DEF Forks, ChildEnds, Exits
<1> QED BY <1>1, <1>2, <1>3, <1>4, <1>5, <1>6, OneCallQuietly

LEMMA ExecStep ==
    ASSUME IInv, NEW c \in Call, Exec(c) PROVE IInv'
<1> DEFINE k == [call[c] EXCEPT !.pc = IF boot = "down" THEN "failed" ELSE "asked"]
           f == [type |-> "exec", id |-> c]
<1>0. Known(c)
  BY CallFacts
<1> USE <1>0 DEF Known
<1>1. k \in CallState /\ k.exit = call[c].exit /\ k.got = call[c].got /\ k.record = call[c].record /\ call[c].pc = "idle"
      /\ k.pc = (IF boot = "down" THEN "failed" ELSE "asked") /\ call[c].exit = "none"
  BY DEF Exec, CallState, KType
<1>2. KType(k)
  BY <1>1 DEF KType
<1>3. call' = [call EXCEPT ![c] = k] /\ guest' = [guest EXCEPT ![c] = guest[c]]
  BY DEF Exec
<1>4. CASE boot = "down"
  <2>1. UNCHANGED <<boot, ctl, toGuest, fromGuest, guest, listing>>
    BY <1>4 DEF Exec
  <2> HIDE DEF k
  <2> QED BY <1>1, <1>2, <1>3, <1>4, <2>1, OneCallQuietly
<1>5. CASE boot # "down"
  <2>1. toGuest' = Append(toGuest, f) /\ f \in Frame /\ AskNamed(f) /\ f \in ExecOf(c)
    BY <1>5 DEF Exec, Ask, Frame, AskNamed, ExecOf
  <2>2. ToInv(toGuest') /\ toGuest' \in Seq(Frame)
    BY <2>1, ToInvAppend
  <2>3. \A d \in Call \ {c} : SameTo(d, toGuest, toGuest') /\ SameFrom(d, fromGuest, fromGuest')
    BY <2>1, ToAppend, SameRefl DEF Exec
  <2>4. Count(toGuest, ExecOf(c)) = 0 /\ Count(toGuest', ExecOf(c)) = 1
    BY <1>1, <1>5, <2>1, CountType, CountAppend DEF CallOK
  <2>5. CallOK(c, k, guest[c], toGuest', fromGuest)
    BY <1>1, <1>5, <2>4, CallFacts DEF CallOK, Born
  <2> HIDE DEF k
  <2> QED BY <1>1, <1>2, <1>3, <1>5, <2>2, <2>3, <2>5, OneCall DEF Exec
<1> QED BY <1>4, <1>5

----
\* What a call sees after its own frame f.
LEMMA OwnAppend ==
    ASSUME NEW c, NEW fr \in Seq(Reply), NEW f \in Reply, f.id = c
    PROVE  /\ \A s \in Stream : Count(Append(fr, f), ChunkOf(c, s)) =
                  IF f.type = "chunk" /\ f.stream = s THEN Count(fr, ChunkOf(c, s)) + 1 ELSE Count(fr, ChunkOf(c, s))
           /\ \A t \in Types : Holds(Append(fr, f), OfType(c, t)) <=> Holds(fr, OfType(c, t)) \/ f.type = t
           /\ Holds(Append(fr, f), AnyOf(c))
<1>1. f \in AnyOf(c) /\ (\A s : f \in ChunkOf(c, s) <=> f.type = "chunk" /\ f.stream = s) /\ \A t : f \in OfType(c, t) <=> f.type = t
  BY DEF AnyOf, ChunkOf, OfType
<1> QED BY <1>1, CountAppend

LEMMA OwnTail ==
    ASSUME NEW c, NEW fr \in Seq(Reply), fr # <<>>, Head(fr).id = c
    PROVE  /\ \A s \in Stream : Count(fr, ChunkOf(c, s)) =
                  IF Head(fr).type = "chunk" /\ Head(fr).stream = s THEN Count(Tail(fr), ChunkOf(c, s)) + 1 ELSE Count(Tail(fr), ChunkOf(c, s))
           /\ \A t \in Types : Holds(fr, OfType(c, t)) <=> Holds(Tail(fr), OfType(c, t)) \/ Head(fr).type = t
           /\ Holds(fr, AnyOf(c))
           /\ Holds(Tail(fr), AnyOf(c)) => \E t \in Types : Holds(Tail(fr), OfType(c, t))
<1> DEFINE f == Head(fr)
<1>1. f \in Reply /\ Tail(fr) \in Seq(Reply)
  BY HeadTailProperties
<1>2. f \in AnyOf(c) /\ (\A s : f \in ChunkOf(c, s) <=> f.type = "chunk" /\ f.stream = s) /\ \A t : f \in OfType(c, t) <=> f.type = t
  BY <1>1 DEF AnyOf, ChunkOf, OfType
<1>3. Holds(Tail(fr), AnyOf(c)) => \E t \in Types : Holds(Tail(fr), OfType(c, t))
  BY DEF Holds, AnyOf, OfType, Reply, Types
<1> HIDE DEF f
<1> QED BY <1>2, <1>3, CountTail DEF f

\* No frame of a call is none of any type.
LEMMA NoFrames ==
    ASSUME NEW c, NEW fr, ~Holds(fr, AnyOf(c))
    PROVE  /\ \A t : ~Holds(fr, OfType(c, t))
           /\ fr \in Seq(Reply) => \A s : Count(fr, ChunkOf(c, s)) = 0
<1>1. \A t : ~Holds(fr, OfType(c, t))
  BY DEF Holds, AnyOf, OfType
<1>2. \A s : ~Holds(fr, ChunkOf(c, s))
  BY DEF Holds, AnyOf, ChunkOf
<1> QED BY <1>1, <1>2, CountType

\* guestd takes an EXEC frame.
LEMMA HandleExecStep ==
    ASSUME IInv, HandleExec PROVE IInv'
<1> DEFINE c == Head(toGuest).id
           f == Plain("error", c)
<1>1. toGuest # <<>> /\ toGuest \in Seq(Frame) /\ ToInv(toGuest) /\ Head(toGuest).type = "exec" /\ toGuest' = Tail(toGuest)
  BY DEF HandleExec, Handles, IInv, TypeOK
<1>2. Head(toGuest) \in Frame /\ c \in Call /\ ToInv(toGuest') /\ toGuest' \in Seq(Frame)
  BY <1>1, ToInvTail DEF AskNamed
<1> HIDE DEF c
<1>3. Known(c) /\ boot # "down"
  BY <1>1, <1>2, CallFacts DEF Known
<1>4. Head(toGuest) \in ExecOf(c)
  BY <1>1, <1>2 DEF ExecOf, c
<1>5. Holds(toGuest, ExecOf(c)) /\ Count(toGuest, ExecOf(c)) = Count(toGuest', ExecOf(c)) + 1
  BY <1>1, <1>4, CountTail
<1>6. CallOK(c, call[c], guest[c], toGuest, fromGuest) /\ Count(toGuest', ExecOf(c)) \in Nat
  BY <1>2, <1>3, CountType DEF Known
<1>7. /\ call[c].pc = "asked" /\ guest[c].pc = "none" /\ ~Holds(fromGuest, AnyOf(c)) /\ call[c].exit = "none"
      /\ Count(toGuest', ExecOf(c)) = 0 /\ ~Holds(toGuest', ExecOf(c))
  BY <1>2, <1>5, <1>6, CountType DEF CallOK
<1>8. \A d \in Call \ {c} : SameTo(d, toGuest, toGuest')
  BY <1>1, ToTail DEF c
<1>9. CASE guest' = [guest EXCEPT ![c].pc = "thread"] /\ UNCHANGED fromGuest
  <2> DEFINE g == [guest[c] EXCEPT !.pc = "thread"]
  <2>1. g \in GuestState /\ g.pc = "thread" /\ g.child = guest[c].child /\ g.wrote = guest[c].wrote /\ g.piped = guest[c].piped
    BY <1>3 DEF Known, GuestState
  <2>2. GType(g) /\ guest' = [guest EXCEPT ![c] = g] /\ call' = [call EXCEPT ![c] = call[c]]
    BY <1>3, <1>9, <2>1 DEF Known, GType, HandleExec
  <2>3. CallOK(c, call[c], g, toGuest', fromGuest')
    BY <1>6, <1>7, <1>9, <2>1, NoFrames DEF CallOK, Born
  <2> HIDE DEF g
  <2> QED BY <1>2, <1>3, <1>7, <1>8, <1>9, <2>2, <2>3, SameRefl, OneCall DEF Known, HandleExec
<1>10. CASE Send(f) /\ UNCHANGED guest
  <2>1. fromGuest' = Append(fromGuest, f) /\ f \in Reply /\ f.id = c /\ f.type = "error" /\ Named(f)
    BY <1>2, <1>10 DEF Send, Plain, Reply, Named
  <2>2. FromInv(fromGuest') /\ fromGuest' \in Seq(Reply)
    <3>1. f.id \notin Control /\ ~Holds(fromGuest, OfType(c, "exit")) /\ ~Holds(fromGuest, OfType(c, "error"))
      BY <1>3, <1>7, <2>1 DEF Known, Holds, AnyOf, OfType
    <3> QED BY <1>3, <1>7, <2>1, <3>1, FromInvAppend DEF Known
  <2>3. \A d \in Call \ {c} : SameFrom(d, fromGuest, fromGuest')
    BY <1>3, <2>1, FromAppend DEF Known
  <2>4. CallOK(c, call[c], guest[c], toGuest', fromGuest')
    <3>1. f \notin OfType(c, "started") /\ f \notin OfType(c, "chunk") /\ f \notin OfType(c, "exit") /\ \A s : f \notin ChunkOf(c, s)
      BY <2>1 DEF OfType, ChunkOf
    <3>2. /\ \A s \in Stream : Count(fromGuest', ChunkOf(c, s)) = Count(fromGuest, ChunkOf(c, s))
          /\ ~Holds(fromGuest', OfType(c, "started")) /\ ~Holds(fromGuest', OfType(c, "chunk")) /\ ~Holds(fromGuest', OfType(c, "exit"))
      <4>1. ~Holds(fromGuest, OfType(c, "started")) /\ ~Holds(fromGuest, OfType(c, "chunk")) /\ ~Holds(fromGuest, OfType(c, "exit"))
        BY <1>7 DEF Holds, AnyOf, OfType
      <4> QED BY <1>3, <2>1, <3>1, <4>1, CountAppend DEF Known
    <3> QED BY <1>6, <1>7, <3>2 DEF CallOK, Born
  <2>5. call' = [call EXCEPT ![c] = call[c]] /\ guest' = [guest EXCEPT ![c] = guest[c]]
    BY <1>3, <1>10 DEF Known, HandleExec
  <2> HIDE DEF f
  <2> QED BY <1>2, <1>3, <1>7, <1>8, <2>2, <2>3, <2>4, <2>5, OneCall DEF Known, HandleExec
<1> QED BY <1>9, <1>10 DEF HandleExec, c

----
\* A thread of guestd sends the frame f of call c, whose process becomes g.
LEMMA ThreadSends ==
    ASSUME IInv, NEW c \in Call, NEW f \in Reply, NEW g, boot # "down", GType(g),
           f.id = c, Named(f), fromGuest' = Append(fromGuest, f), guest' = [guest EXCEPT ![c] = g],
           UNCHANGED <<boot, call, ctl, toGuest, listing>>,
           ~Holds(fromGuest, OfType(c, "exit")), ~Holds(fromGuest, OfType(c, "error")),
           f.type \in {"started", "error"} => ~Holds(fromGuest, AnyOf(c)),
           guest[c].pc # "gone", CallOK(c, call[c], g, toGuest, fromGuest')
    PROVE  IInv'
<1>1. Known(c)
  BY CallFacts
<1>2. FromInv(fromGuest') /\ fromGuest' \in Seq(Reply)
  BY <1>1, FromInvAppend DEF Known
<1>3. \A d \in Call \ {c} : SameTo(d, toGuest, toGuest') /\ SameFrom(d, fromGuest, fromGuest')
  BY <1>1, FromAppend, SameRefl DEF Known
<1>4. ToInv(toGuest') /\ toGuest' \in Seq(Frame) /\ KType(call[c]) /\ call' = [call EXCEPT ![c] = call[c]]
  BY <1>1 DEF Known
<1>5. toGuest' = toGuest /\ boot' = boot /\ ctl' = ctl /\ listing' = listing
  OBVIOUS
<1> QED BY <1>2, <1>3, <1>4, <1>5, OneCall

LEMMA PopenStep ==
    ASSUME IInv, NEW c \in Call, Popen(c) PROVE IInv'
<1>1. Known(c) /\ boot # "down" /\ guest[c].pc = "thread" /\ CallOK(c, call[c], guest[c], toGuest, fromGuest)
  BY CallFacts DEF Known, Popen
<1>2. /\ call[c].pc = "asked" /\ ~Holds(toGuest, ExecOf(c)) /\ ~Holds(fromGuest, AnyOf(c)) /\ call[c].exit = "none" /\ ~guest[c].child
      /\ \A t : ~Holds(fromGuest, OfType(c, t))
  BY <1>1, NoFrames DEF CallOK, Known, GType, GuestState
<1>3. ASSUME NEW g, NEW f, (f = Plain("started", c) /\ g = [guest[c] EXCEPT !.pc = "run"])
                           \/ (f = Plain("error", c) /\ g = [guest[c] EXCEPT !.pc = "none"])
      PROVE  /\ GType(g) /\ f \in Reply /\ f.id = c /\ Named(f)
             /\ fromGuest' = Append(fromGuest, f) => CallOK(c, call[c], g, toGuest, fromGuest')
  <2>1. f \in Reply /\ f.id = c /\ f.type \in {"started", "error"} /\ Named(f)
    <3>1. CASE f = Plain("started", c)
      BY <3>1 DEF Plain, Reply, Named
    <3>2. CASE f = Plain("error", c)
      BY <3>2 DEF Plain, Reply, Named
    <3> QED BY <1>3, <3>1, <3>2
  <2>2. /\ g \in GuestState /\ g.child = guest[c].child /\ g.wrote = guest[c].wrote /\ g.piped = guest[c].piped
        /\ (g.pc = "run" /\ f.type = "started") \/ (g.pc = "none" /\ f.type = "error")
    <3>1. CASE f = Plain("started", c) /\ g = [guest[c] EXCEPT !.pc = "run"]
      BY <1>1, <3>1 DEF Known, GuestState, Plain
    <3>2. CASE f = Plain("error", c) /\ g = [guest[c] EXCEPT !.pc = "none"]
      BY <1>1, <3>2 DEF Known, GuestState, Plain
    <3> QED BY <1>3, <3>1, <3>2, Zenon
  <2>3. GType(g)
    BY <1>1, <2>2 DEF Known, GType
  <2>4. ASSUME fromGuest' = Append(fromGuest, f)
        PROVE  /\ \A s \in Stream : Count(fromGuest', ChunkOf(c, s)) = Count(fromGuest, ChunkOf(c, s))
               /\ \A t \in Types : Holds(fromGuest', OfType(c, t)) <=> f.type = t
    BY <1>1, <1>2, <2>1, <2>4, OwnAppend DEF Known
  <2>5. fromGuest' = Append(fromGuest, f) => CallOK(c, call[c], g, toGuest, fromGuest')
    BY <1>1, <1>2, <2>2, <2>4 DEF CallOK, Born, Types
  <2> QED BY <2>1, <2>3, <2>5
<1>4. PICK g, f : /\ (f = Plain("started", c) /\ g = [guest[c] EXCEPT !.pc = "run"])
                     \/ (f = Plain("error", c) /\ g = [guest[c] EXCEPT !.pc = "none"])
                  /\ guest' = [guest EXCEPT ![c] = g] /\ fromGuest' = Append(fromGuest, f)
  BY DEF Popen, PopenFails, Send
<1>5. UNCHANGED <<boot, call, ctl, toGuest, listing>>
  BY DEF Popen
<1>6. /\ ~Holds(fromGuest, OfType(c, "exit")) /\ ~Holds(fromGuest, OfType(c, "error")) /\ guest[c].pc # "gone"
  BY <1>1, <1>2
<1>7. /\ GType(g) /\ f \in Reply /\ f.id = c /\ Named(f) /\ CallOK(c, call[c], g, toGuest, fromGuest')
  BY <1>3, <1>4
<1> QED BY <1>1, <1>2, <1>4, <1>5, <1>6, <1>7, ThreadSends

LEMMA PumpStep ==
    ASSUME IInv, NEW c \in Call, NEW s \in Stream, Pump(c, s) PROVE IInv'
<1> DEFINE p == [guest[c].piped EXCEPT ![s] = guest[c].piped[s] - 1]
           g == [guest[c] EXCEPT !.piped = p]
           f == [Plain("chunk", c) EXCEPT !.stream = s]
<1>1. /\ Known(c) /\ boot # "down" /\ guest[c].pc \in {"run", "dead"} /\ guest[c].piped[s] > 0 /\ guest[c].piped[s] \in 0 .. MaxChunks
      /\ CallOK(c, call[c], guest[c], toGuest, fromGuest)
  BY CallFacts DEF Known, Pump
<1>2. f \in Reply /\ f.id = c /\ f.type = "chunk" /\ f.stream = s /\ Named(f)
  BY DEF Plain, Reply, Named
<1>3. p \in [Stream -> 0 .. MaxChunks] /\ \A t \in Stream : p[t] = IF t = s THEN guest[c].piped[t] - 1 ELSE guest[c].piped[t]
  BY <1>1, GuestAssumption DEF Known
<1>4. g \in GuestState /\ g.piped = p /\ g.pc = guest[c].pc /\ g.child = guest[c].child /\ g.wrote = guest[c].wrote
  BY <1>1, <1>3 DEF Known, GuestState
<1>5. \A t \in Stream : guest[c].piped[t] \in Nat /\ guest[c].wrote[t] \in Nat /\ call[c].got[t] \in Nat /\ Count(fromGuest, ChunkOf(c, t)) \in Nat
  BY <1>1, CountType DEF Known
<1>6. GType(g)
  BY <1>1, <1>3, <1>4, <1>5 DEF Known, GType
<1>7. fromGuest' = Append(fromGuest, f) /\ guest' = [guest EXCEPT ![c] = g] /\ UNCHANGED <<boot, call, ctl, toGuest, listing>>
  <2>1. guest' = [guest EXCEPT ![c] = [guest[c] EXCEPT !.piped = p]]
    BY <1>1 DEF Pump, Known
  <2> QED BY <2>1 DEF Pump, Send
<1>8. ~Holds(fromGuest, OfType(c, "exit")) /\ ~Holds(fromGuest, OfType(c, "error")) /\ guest[c].pc # "gone" /\ call[c].exit = "none"
  BY <1>1 DEF CallOK, Known, KType, CallState
<1> HIDE DEF f, g, p
<1>9. /\ \A t \in Stream : Count(fromGuest', ChunkOf(c, t)) = IF t = s THEN Count(fromGuest, ChunkOf(c, t)) + 1 ELSE Count(fromGuest, ChunkOf(c, t))
      /\ \A t \in Types : Holds(fromGuest', OfType(c, t)) <=> Holds(fromGuest, OfType(c, t)) \/ t = "chunk"
  <2>1. fromGuest \in Seq(Reply)
    BY <1>1 DEF Known
  <2>2. \A t \in Types : Holds(fromGuest', OfType(c, t)) <=> Holds(fromGuest, OfType(c, t)) \/ f.type = t
    BY <1>2, <1>7, <2>1, OwnAppend
  <2>3. \A t \in Stream : Count(fromGuest', ChunkOf(c, t)) =
                  IF f.type = "chunk" /\ f.stream = t THEN Count(fromGuest, ChunkOf(c, t)) + 1 ELSE Count(fromGuest, ChunkOf(c, t))
    BY <1>2, <1>7, <2>1, OwnAppend
  <2> QED BY <1>2, <2>2, <2>3
<1>10. \A t \in Stream : call[c].got[t] + Count(fromGuest', ChunkOf(c, t)) + g.piped[t] = g.wrote[t]
  <2> TAKE t \in Stream
  <2>1. call[c].got[t] + Count(fromGuest, ChunkOf(c, t)) + guest[c].piped[t] = guest[c].wrote[t]
    BY <1>1 DEF CallOK
  <2> QED BY <1>3, <1>4, <1>5, <1>9, <2>1
<1>11. CallOK(c, call[c], g, toGuest, fromGuest')
  BY <1>1, <1>4, <1>8, <1>9, <1>10 DEF CallOK, Born, Types
<1> QED BY <1>1, <1>2, <1>6, <1>7, <1>8, <1>11, ThreadSends

LEMMA SendExitStep ==
    ASSUME IInv, NEW c \in Call, SendExit(c) PROVE IInv'
<1> DEFINE g == [guest[c] EXCEPT !.pc = "gone"]
           f == [Plain("exit", c) EXCEPT !.killed = guest[c].killed]
<1>0. Known(c) /\ guest[c].pc = "dead" /\ ~guest[c].child /\ guest[c].piped = None
  BY CallFacts DEF SendExit, Pumped
<1>1. boot # "down" /\ CallOK(c, call[c], guest[c], toGuest, fromGuest)
  BY <1>0 DEF Known, Still
<1>2. f \in Reply /\ f.id = c /\ f.type = "exit" /\ Named(f)
  BY <1>0 DEF Plain, Reply, Named, Known, GuestState
<1>3. g \in GuestState /\ g.pc = "gone" /\ g.piped = guest[c].piped /\ ~g.child /\ g.wrote = guest[c].wrote
  BY <1>0 DEF Known, GuestState
<1>4. GType(g)
  BY <1>0, <1>3 DEF Known, GType
<1>5. fromGuest' = Append(fromGuest, f) /\ guest' = [guest EXCEPT ![c] = g] /\ UNCHANGED <<boot, call, ctl, toGuest, listing>>
  BY DEF SendExit, Send
<1>6. ~Holds(fromGuest, OfType(c, "exit")) /\ ~Holds(fromGuest, OfType(c, "error")) /\ call[c].exit = "none"
  BY <1>0, <1>1 DEF CallOK, Known, KType, CallState
<1> HIDE DEF f, g
<1>7. /\ \A t \in Stream : Count(fromGuest', ChunkOf(c, t)) = Count(fromGuest, ChunkOf(c, t))
      /\ \A t \in Types : Holds(fromGuest', OfType(c, t)) <=> Holds(fromGuest, OfType(c, t)) \/ t = "exit"
  <2>1. fromGuest \in Seq(Reply)
    BY <1>0 DEF Known
  <2>2. \A t \in Types : Holds(fromGuest', OfType(c, t)) <=> Holds(fromGuest, OfType(c, t)) \/ f.type = t
    BY <1>2, <1>5, <2>1, OwnAppend
  <2>3. \A t \in Stream : Count(fromGuest', ChunkOf(c, t)) =
                  IF f.type = "chunk" /\ f.stream = t THEN Count(fromGuest, ChunkOf(c, t)) + 1 ELSE Count(fromGuest, ChunkOf(c, t))
    BY <1>2, <1>5, <2>1, OwnAppend
  <2> QED BY <1>2, <2>2, <2>3
<1>8. CallOK(c, call[c], g, toGuest, fromGuest')
  BY <1>0, <1>1, <1>3, <1>6, <1>7 DEF CallOK, Born, Types
<1> QED BY <1>0, <1>1, <1>2, <1>4, <1>5, <1>6, <1>8, ThreadSends

----
\* The host takes a frame of call c, whose record becomes k.
LEMMA HostTakes ==
    ASSUME IInv, NEW c \in Call, NEW k, fromGuest # <<>>, Head(fromGuest).id = c, KType(k),
           fromGuest' = Tail(fromGuest), call' = [call EXCEPT ![c] = k],
           UNCHANGED <<boot, ctl, toGuest, guest, listing>>,
           CallOK(c, k, guest[c], toGuest, fromGuest')
    PROVE  IInv'
<1>1. Known(c) /\ boot # "down"
  BY CallFacts DEF Known
<1>2. FromInv(fromGuest') /\ fromGuest' \in Seq(Reply)
  BY <1>1, FromInvTail DEF Known
<1>3. \A d \in Call \ {c} : SameTo(d, toGuest, toGuest') /\ SameFrom(d, fromGuest, fromGuest')
  BY <1>1, FromTail, SameRefl DEF Known
<1>4. ToInv(toGuest') /\ toGuest' \in Seq(Frame) /\ GType(guest[c]) /\ guest' = [guest EXCEPT ![c] = guest[c]]
  BY <1>1 DEF Known
<1>5. toGuest' = toGuest /\ boot' = boot /\ ctl' = ctl /\ listing' = listing
  OBVIOUS
<1> QED BY <1>1, <1>2, <1>3, <1>4, <1>5, OneCall

\* What is known when a frame of a call is the first of those from the guest.
Takes(c) ==
    /\ Known(c) /\ boot # "down" /\ fromGuest # <<>> /\ Head(fromGuest).id = c
    /\ CallOK(c, call[c], guest[c], toGuest, fromGuest)
    /\ Tail(fromGuest) \in Seq(Reply) /\ Head(fromGuest) \in Reply /\ Named(Head(fromGuest))
    /\ \A s \in Stream : Count(fromGuest, ChunkOf(c, s)) = IF Head(fromGuest).type = "chunk" /\ Head(fromGuest).stream = s
                                                           THEN Count(Tail(fromGuest), ChunkOf(c, s)) + 1 ELSE Count(Tail(fromGuest), ChunkOf(c, s))
    /\ \A t \in Types : Holds(fromGuest, OfType(c, t)) <=> Holds(Tail(fromGuest), OfType(c, t)) \/ Head(fromGuest).type = t
    /\ Holds(fromGuest, AnyOf(c))
    /\ Head(fromGuest).type \in {"exit", "error"} => ~Holds(Tail(fromGuest), AnyOf(c))
    /\ ~Holds(Tail(fromGuest), OfType(c, "started")) /\ ~Holds(Tail(fromGuest), OfType(c, "error"))
    /\ ~Holds(toGuest, ExecOf(c)) /\ guest[c].pc # "thread" /\ call[c].pc # "idle" /\ call[c].exit = "none"

LEMMA TakesFacts ==
    ASSUME IInv, NEW c \in Call, fromGuest # <<>>, Head(fromGuest).id = c PROVE Takes(c)
<1>1. Known(c) /\ boot # "down" /\ fromGuest \in Seq(Reply) /\ FromInv(fromGuest)
  BY CallFacts DEF Known
<1>2. CallOK(c, call[c], guest[c], toGuest, fromGuest)
  BY <1>1 DEF Known
<1>3. Tail(fromGuest) \in Seq(Reply) /\ Head(fromGuest) \in Reply /\ Named(Head(fromGuest))
  BY <1>1, FromInvTail
<1>4. /\ \A s \in Stream : Count(fromGuest, ChunkOf(c, s)) = IF Head(fromGuest).type = "chunk" /\ Head(fromGuest).stream = s
                                                           THEN Count(Tail(fromGuest), ChunkOf(c, s)) + 1 ELSE Count(Tail(fromGuest), ChunkOf(c, s))
      /\ \A t \in Types : Holds(fromGuest, OfType(c, t)) <=> Holds(Tail(fromGuest), OfType(c, t)) \/ Head(fromGuest).type = t
      /\ Holds(fromGuest, AnyOf(c))
  BY <1>1, OwnTail
<1>5. /\ Head(fromGuest).type \in {"exit", "error"} => ~Holds(Tail(fromGuest), AnyOf(c))
      /\ ~Holds(Tail(fromGuest), OfType(c, "started")) /\ ~Holds(Tail(fromGuest), OfType(c, "error"))
  BY <1>1, LastFrame DEF FromInv
<1>6. ~Holds(toGuest, ExecOf(c)) /\ guest[c].pc # "thread" /\ call[c].pc # "idle" /\ call[c].exit = "none"
  BY <1>1, <1>2, <1>4 DEF CallOK, Known, CallState
<1> QED BY <1>1, <1>2, <1>3, <1>4, <1>5, <1>6 DEF Takes

LEMMA OnStartedStep ==
    ASSUME IInv, OnStarted PROVE IInv'
<1> DEFINE c == Head(fromGuest).id
           k == [call[c] EXCEPT !.pc = "started"]
<1>1. fromGuest # <<>> /\ Head(fromGuest).type = "started" /\ fromGuest' = Tail(fromGuest)
  BY DEF OnStarted, Receives
<1>2. c \in Call
  BY <1>1, FromInvTail DEF Named, IInv, TypeOK
<1>3. Takes(c)
  BY <1>1, <1>2, TakesFacts
<1>4. call' = [call EXCEPT ![c] = k] /\ UNCHANGED <<boot, ctl, toGuest, guest, listing>>
  BY DEF OnStarted
<1> HIDE DEF c
<1>5. k \in CallState /\ k.pc = "started" /\ k.exit = call[c].exit /\ k.got = call[c].got /\ k.record = call[c].record
  BY <1>3 DEF Takes, Known, CallState
<1>6. call[c].pc = "asked" /\ guest[c].pc \in Born /\ KType(k)
  BY <1>1, <1>3, <1>5 DEF Takes, CallOK, KType, Known, Types
<1>7. CallOK(c, k, guest[c], toGuest, fromGuest')
  BY <1>1, <1>3, <1>5, <1>6 DEF Takes, CallOK, Types, Born
<1> HIDE DEF k
<1>8. Head(fromGuest).id = c
  BY DEF c
<1> QED BY <1>1, <1>2, <1>4, <1>6, <1>7, <1>8, HostTakes

LEMMA OnErrorStep ==
    ASSUME IInv, OnError PROVE IInv'
<1> DEFINE c == Head(fromGuest).id
           k == [call[c] EXCEPT !.pc = "failed", !.ended = TRUE]
<1>1. fromGuest # <<>> /\ Head(fromGuest).type = "error" /\ fromGuest' = Tail(fromGuest) /\ c \in Call
  BY DEF OnError, Receives
<1>2. Takes(c)
  BY <1>1, TakesFacts
<1>3. UNCHANGED <<boot, ctl, toGuest, guest, listing>>
  BY DEF OnError
<1>4. call' = [call EXCEPT ![c] = k]
  BY <1>1 DEF OnError, IInv, TypeOK
<1> HIDE DEF c
<1>5. k \in CallState /\ k.pc = "failed" /\ k.exit = call[c].exit /\ k.got = call[c].got /\ k.record = call[c].record
  BY <1>2 DEF Takes, Known, CallState
<1>6. call[c].pc = "asked" /\ guest[c].pc = "none" /\ KType(k)
  BY <1>1, <1>2, <1>5 DEF Takes, CallOK, KType, Known, Types
<1>7. \A t : ~Holds(Tail(fromGuest), OfType(c, t))
  BY <1>1, <1>2, NoFrames DEF Takes
<1>8. CallOK(c, k, guest[c], toGuest, fromGuest')
  BY <1>1, <1>2, <1>5, <1>6, <1>7 DEF Takes, CallOK, Types, Born
<1> HIDE DEF k
<1>9. Head(fromGuest).id = c
  BY DEF c
<1> QED BY <1>1, <1>3, <1>4, <1>6, <1>8, <1>9, HostTakes

LEMMA OnExitStep ==
    ASSUME IInv, OnExit PROVE IInv'
<1> DEFINE f == Head(fromGuest)
           c == f.id
           k == [call[c] EXCEPT !.exit = IF f.killed THEN "killed" ELSE "exited", !.ended = TRUE]
<1>1. fromGuest # <<>> /\ f.type = "exit" /\ fromGuest' = Tail(fromGuest)
  BY DEF OnExit, Receives
<1>2. c \in Call
  BY <1>1, FromInvTail DEF Named, IInv, TypeOK
<1>3. Takes(c)
  BY <1>1, <1>2, TakesFacts
<1>4. UNCHANGED <<boot, ctl, toGuest, guest, listing>>
  BY DEF OnExit
<1>5. call' = [call EXCEPT ![c] = k]
  BY <1>2 DEF OnExit, IInv, TypeOK
<1> HIDE DEF c, f
<1>6. k \in CallState /\ k.pc = call[c].pc /\ k.exit \in Over /\ k.got = call[c].got /\ k.record = call[c].record
  BY <1>3 DEF Takes, Known, CallState, Over
<1>7. guest[c].pc = "gone" /\ call[c].exit = "none"
  BY <1>1, <1>3 DEF Takes, CallOK, Types, f
<1>8. call[c].pc \in {"started", "tracked"} /\ ~Holds(Tail(fromGuest), AnyOf(c)) /\ call[c].record = "running"
  BY <1>1, <1>3, <1>7 DEF Takes, CallOK, Types, f, Born, Known, KType, CallState, Over
<1>9. \A t : ~Holds(Tail(fromGuest), OfType(c, t))
  BY <1>8, NoFrames
<1>10. KType(k)
  BY <1>6, <1>8 DEF KType, Over
<1>11. CallOK(c, k, guest[c], toGuest, fromGuest')
  BY <1>1, <1>3, <1>6, <1>7, <1>8, <1>9 DEF Takes, CallOK, Types, Born, f
<1> HIDE DEF k
<1>12. Head(fromGuest).id = c
  BY DEF c, f
<1> QED BY <1>1, <1>2, <1>4, <1>5, <1>10, <1>11, <1>12, HostTakes

LEMMA OnChunkStep ==
    ASSUME IInv, OnChunk PROVE IInv'
<1> DEFINE f == Head(fromGuest)
           c == f.id
           s == f.stream
           g == [call[c].got EXCEPT ![s] = call[c].got[s] + 1]
           k == [call[c] EXCEPT !.got = g]
<1>1. fromGuest # <<>> /\ f.type = "chunk" /\ fromGuest' = Tail(fromGuest)
  BY DEF OnChunk, Receives
<1>2. c \in Call /\ s \in Stream
  BY <1>1, FromInvTail DEF Named, IInv, TypeOK
<1>3. Takes(c)
  BY <1>1, <1>2, TakesFacts
<1>4. UNCHANGED <<boot, ctl, toGuest, guest, listing>>
  BY DEF OnChunk
<1>5. call' = [call EXCEPT ![c] = k]
  <2>1. call \in [Call -> CallState] /\ call[c].exit = "none"
    BY <1>3 DEF IInv, TypeOK, Takes
  <2> QED BY <1>2, <2>1 DEF OnChunk, CallState
<1>6. Head(fromGuest).id = c /\ Head(fromGuest).type = "chunk" /\ Head(fromGuest).stream = s
  BY <1>1
<1> HIDE DEF c, f, s
<1>7. /\ \A t \in Stream : Count(fromGuest, ChunkOf(c, t)) = IF t = s THEN Count(fromGuest', ChunkOf(c, t)) + 1 ELSE Count(fromGuest', ChunkOf(c, t))
      /\ \A t \in Types : t # "chunk" => (Holds(fromGuest, OfType(c, t)) <=> Holds(fromGuest', OfType(c, t)))
      /\ Holds(fromGuest, OfType(c, "chunk"))
  BY <1>1, <1>3, <1>6 DEF Takes, Types
<1>8. \A t \in Stream : /\ Count(fromGuest', ChunkOf(c, t)) \in Nat
                        /\ call[c].got[t] \in 0 .. MaxChunks /\ guest[c].piped[t] \in 0 .. MaxChunks /\ guest[c].wrote[t] \in 0 .. MaxChunks
                        /\ call[c].got[t] + Count(fromGuest, ChunkOf(c, t)) + guest[c].piped[t] = guest[c].wrote[t]
  BY <1>1, <1>3, CountType DEF Takes, Known, CallOK
<1>9. call[c].got[s] + 1 \in 0 .. MaxChunks
  BY <1>2, <1>7, <1>8, GuestAssumption
<1>10. g \in [Stream -> 0 .. MaxChunks] /\ \A t \in Stream : g[t] = IF t = s THEN call[c].got[t] + 1 ELSE call[c].got[t]
  BY <1>3, <1>9 DEF Takes, Known
<1> HIDE DEF g
<1>11. k \in CallState /\ k.pc = call[c].pc /\ k.exit = call[c].exit /\ k.got = g /\ k.record = call[c].record
  BY <1>3, <1>10 DEF Takes, Known, CallState
<1> HIDE DEF k
<1>12. KType(k)
  BY <1>3, <1>11 DEF Takes, Known, KType
<1>13. \A t \in Stream : k.got[t] + Count(fromGuest', ChunkOf(c, t)) + guest[c].piped[t] = guest[c].wrote[t]
  <2> TAKE t \in Stream
  <2> QED BY <1>7, <1>8, <1>10, <1>11
<1>14. CallOK(c, k, guest[c], toGuest, fromGuest')
  BY <1>3, <1>7, <1>11, <1>13 DEF Takes, CallOK, Types, Born
<1> QED BY <1>1, <1>2, <1>4, <1>5, <1>6, <1>12, <1>14, HostTakes

----
\* What is known of the control requests before a step.
CtlKnown ==
    /\ ctl \in [Control -> CtlState] /\ (\A r \in Control : CtlOK(ctl[r])) /\ ListingOK
    /\ listing \in [id : Control \cup {NoCall}, live : SUBSET Call]
    /\ toGuest \in Seq(Frame) /\ fromGuest \in Seq(Reply) /\ ToInv(toGuest) /\ FromInv(fromGuest)
    /\ boot # "down" => \A r \in Control : \A c \in ctl[r].known : guest[c].pc = "gone"
    /\ boot # "down" => \A c \in KnownOver : guest[c].pc = "gone"
    /\ boot = "down" => toGuest = <<>> /\ fromGuest = <<>> /\ listing = NotListing
    /\ \A c \in Call : c \notin Control

LEMMA CtlFacts == ASSUME IInv PROVE CtlKnown
<1>1. boot # "down" => \A c \in KnownOver : guest[c].pc = "gone"
  BY DEF IInv, CallsInv, CallOK, KnownOver
<1>2. \A c \in Call : c \notin Control
  BY GuestAssumption
<1>3. ctl \in [Control -> CtlState] /\ (\A r \in Control : CtlOK(ctl[r])) /\ ListingOK
      /\ listing \in [id : Control \cup {NoCall}, live : SUBSET Call]
  BY DEF IInv, TypeOK, CtlInv
<1>4. toGuest \in Seq(Frame) /\ fromGuest \in Seq(Reply) /\ ToInv(toGuest) /\ FromInv(fromGuest)
  BY DEF IInv, TypeOK
<1>5. boot # "down" => \A r \in Control : \A c \in ctl[r].known : guest[c].pc = "gone"
  BY DEF IInv, CtlInv
<1>6. boot = "down" => toGuest = <<>> /\ fromGuest = <<>> /\ listing = NotListing
  BY DEF IInv, DownInv
<1> QED BY <1>1, <1>2, <1>3, <1>4, <1>5, <1>6 DEF CtlKnown

\* A step of the host that is about a control request.
LEMMA OneCtl ==
    ASSUME IInv, NEW q \in Control, NEW x \in CtlState, CtlOK(x), x.pc # "idle",
           ctl[q].pc # "idle" => x.known = ctl[q].known,
           boot # "down" => \A c \in x.known : guest[c].pc = "gone",
           boot = "down" => x.pc # "asked" /\ toGuest' = <<>> /\ fromGuest' = <<>>,
           ctl' = [ctl EXCEPT ![q] = x], boot' = boot, call' = call, guest' = guest, listing' = listing,
           toGuest' \in Seq(Frame), fromGuest' \in Seq(Reply), FromInv(fromGuest'),
           \A i \in 1 .. Len(toGuest') : /\ AskNamed(toGuest'[i])
                                         /\ toGuest'[i].id \in Control \ {q} => ctl[toGuest'[i].id].pc # "idle",
           \A d \in Call : SameTo(d, toGuest, toGuest') /\ SameFrom(d, fromGuest, fromGuest')
    PROVE  IInv'
<1>0. CtlKnown
  BY CtlFacts
<1>1. \A r \in Control : ctl'[r] = IF r = q THEN x ELSE ctl[r]
  BY <1>0 DEF CtlKnown
<1>2. \A r \in Control : ctl[r].pc # "idle" => ctl'[r].pc # "idle" /\ ctl'[r].known = ctl[r].known
  BY <1>1
<1>3. TypeOK'
  BY DEF IInv, TypeOK
<1>4. FromInv(fromGuest)'
  BY <1>2 DEF FromInv, Answers
<1>5. ToInv(toGuest)'
  BY <1>1 DEF ToInv
<1>6. CtlInv'
  <2>1. \A r \in Control : CtlOK(ctl'[r])
    BY <1>0, <1>1 DEF CtlKnown
  <2>2. boot' # "down" => \A r \in Control : \A c \in ctl'[r].known : guest'[c].pc = "gone"
    BY <1>0, <1>1 DEF CtlKnown
  <2>3. ListingOK'
    BY <1>0, <1>2 DEF CtlKnown, ListingOK, Answers
  <2>4. (\A r \in Control : CtlOK(ctl[r]))'
    BY <2>1 DEF CtlOK
  <2> QED BY <2>2, <2>3, <2>4 DEF CtlInv
<1>7. CallsInv'
  <2> SUFFICES ASSUME boot # "down", NEW d \in Call PROVE CallOK(d, call[d], guest[d], toGuest, fromGuest)'
    BY DEF CallsInv
  <2>1. CallOK(d, call[d], guest[d], toGuest', fromGuest')
    BY Unseen DEF IInv, CallsInv
  <2> QED BY <2>1 DEF CallOK
<1>8. DownInv'
  BY <1>1 DEF IInv, DownInv, NothingPending
<1> QED BY <1>3, <1>4, <1>5, <1>6, <1>7, <1>8 DEF IInv

\* A request that is settled at once.
LEMMA AnsweredAtOnce ==
    ASSUME IInv, NEW q \in Control, NEW x \in CtlState, CtlOK(x), x.pc = "done", ctl[q].pc = "idle",
           boot # "down" => \A c \in x.known : guest[c].pc = "gone",
           ctl' = [ctl EXCEPT ![q] = x], UNCHANGED <<boot, call, guest, listing, toGuest, fromGuest>>
    PROVE  IInv'
<1>0. CtlKnown
  BY CtlFacts
<1>1. \A i \in 1 .. Len(toGuest') : /\ AskNamed(toGuest'[i])
                                    /\ toGuest'[i].id \in Control \ {q} => ctl[toGuest'[i].id].pc # "idle"
  BY <1>0 DEF CtlKnown, ToInv
<1>2. \A d \in Call : SameTo(d, toGuest, toGuest') /\ SameFrom(d, fromGuest, fromGuest')
  BY SameRefl
<1>3. /\ boot' = boot /\ call' = call /\ guest' = guest /\ listing' = listing
      /\ toGuest' \in Seq(Frame) /\ fromGuest' \in Seq(Reply) /\ FromInv(fromGuest')
      /\ boot = "down" => x.pc # "asked" /\ toGuest' = <<>> /\ fromGuest' = <<>>
  BY <1>0 DEF CtlKnown
<1> QED BY <1>1, <1>2, <1>3, OneCtl

\* A request that is sent.
LEMMA Asked ==
    ASSUME IInv, NEW q \in Control, NEW type \in {"kill", "ps"}, NEW x \in CtlState, CtlOK(x), x.pc = "asked", ctl[q].pc = "idle",
           boot # "down", \A c \in x.known : guest[c].pc = "gone",
           ctl' = [ctl EXCEPT ![q] = x], Ask(type, q), UNCHANGED <<boot, call, guest, listing, fromGuest>>
    PROVE  IInv'
<1> DEFINE f == [type |-> type, id |-> q]
<1>0. CtlKnown
  BY CtlFacts
<1>1. f \in Frame /\ AskNamed(f) /\ f.id = q /\ f.type # "exec" /\ toGuest' = Append(toGuest, f)
  BY DEF Frame, AskNamed, Ask
<1> HIDE DEF f
<1>2. Len(toGuest) \in Nat /\ Len(toGuest') = Len(toGuest) + 1 /\ toGuest'[Len(toGuest) + 1] = f
      /\ (\A i \in 1 .. Len(toGuest) : toGuest'[i] = toGuest[i]) /\ toGuest' \in Seq(Frame)
  BY <1>0, <1>1, LenProperties, AppendProperties DEF CtlKnown
<1>3. \A i \in 1 .. Len(toGuest') : /\ AskNamed(toGuest'[i])
                                    /\ toGuest'[i].id \in Control \ {q} => ctl[toGuest'[i].id].pc # "idle"
  BY <1>0, <1>1, <1>2 DEF CtlKnown, ToInv
<1>4. \A d \in Call : SameTo(d, toGuest, toGuest') /\ SameFrom(d, fromGuest, fromGuest')
  BY <1>0, <1>1, ToAppend, SameRefl DEF CtlKnown
<1>5. boot' = boot /\ call' = call /\ guest' = guest /\ listing' = listing /\ fromGuest' \in Seq(Reply) /\ FromInv(fromGuest')
  BY <1>0 DEF CtlKnown
<1> QED BY <1>2, <1>3, <1>4, <1>5, OneCtl

LEMMA KillStep ==
    ASSUME IInv, NEW q \in Control, NEW c \in Call, Kill(q, c) PROVE IInv'
<1> DEFINE x == [ctl[q] EXCEPT !.pc = "done", !.of = c]
           y == [ctl[q] EXCEPT !.pc = "asked", !.of = c]
<1>0. CtlKnown /\ ctl[q].pc = "idle"
  BY CtlFacts DEF Kill
<1>1. ctl[q] \in CtlState /\ ctl[q].known = {} /\ ctl[q].live = {}
  BY <1>0 DEF CtlKnown, CtlOK
<1>2. /\ x \in CtlState /\ x.pc = "done" /\ x.known = {} /\ x.live = {}
      /\ y \in CtlState /\ y.pc = "asked" /\ y.known = {} /\ y.live = {}
  BY <1>1 DEF CtlState
<1>3. CtlOK(x) /\ CtlOK(y)
  BY <1>2 DEF CtlOK
<1>4. UNCHANGED <<boot, call, fromGuest, guest, listing>>
  BY DEF Kill
<1>5. \/ ctl' = [ctl EXCEPT ![q] = x] /\ UNCHANGED toGuest
      \/ boot # "down" /\ ctl' = [ctl EXCEPT ![q] = y] /\ Ask("kill", q)
  BY <1>0 DEF Kill, CtlKnown
<1> HIDE DEF x, y
<1>6. CASE ctl' = [ctl EXCEPT ![q] = x] /\ UNCHANGED toGuest
  BY <1>0, <1>2, <1>3, <1>4, <1>6, AnsweredAtOnce
<1>7. CASE boot # "down" /\ ctl' = [ctl EXCEPT ![q] = y] /\ Ask("kill", q)
  BY <1>0, <1>2, <1>3, <1>4, <1>7, Asked
<1> QED BY <1>5, <1>6, <1>7

LEMMA GetProcessesStep ==
    ASSUME IInv, NEW q \in Control, GetProcesses(q) PROVE IInv'
<1> DEFINE a == [ctl[q] EXCEPT !.op = "ps", !.known = KnownOver]
           x == [a EXCEPT !.pc = "done"]
           y == [a EXCEPT !.pc = "asked"]
<1>0. CtlKnown /\ ctl[q].pc = "idle"
  BY CtlFacts DEF GetProcesses
<1>1. ctl[q] \in CtlState /\ ctl[q].live = {} /\ KnownOver \in SUBSET Call
  BY <1>0 DEF CtlKnown, CtlOK, KnownOver
<1>2. /\ x \in CtlState /\ x.pc = "done" /\ x.known = KnownOver /\ x.live = {}
      /\ y \in CtlState /\ y.pc = "asked" /\ y.known = KnownOver /\ y.live = {}
  BY <1>1 DEF CtlState
<1>3. CtlOK(x) /\ CtlOK(y)
  BY <1>2 DEF CtlOK
<1>4. UNCHANGED <<boot, call, fromGuest, guest, listing>>
  BY DEF GetProcesses
<1>5. \/ ctl' = [ctl EXCEPT ![q] = x] /\ UNCHANGED toGuest
      \/ boot # "down" /\ ctl' = [ctl EXCEPT ![q] = y] /\ Ask("ps", q)
  BY DEF GetProcesses
<1> HIDE DEF x, y
<1>6. CASE ctl' = [ctl EXCEPT ![q] = x] /\ UNCHANGED toGuest
  BY <1>0, <1>2, <1>3, <1>4, <1>6, AnsweredAtOnce DEF CtlKnown
<1>7. CASE boot # "down" /\ ctl' = [ctl EXCEPT ![q] = y] /\ Ask("ps", q)
  BY <1>0, <1>2, <1>3, <1>4, <1>7, Asked DEF CtlKnown
<1> QED BY <1>5, <1>6, <1>7

LEMMA OnAnswerStep ==
    ASSUME IInv, OnAnswer PROVE IInv'
<1> DEFINE f == Head(fromGuest)
           q == f.id
           x == [ctl[q] EXCEPT !.pc = IF f.type = "error" THEN "failed" ELSE "done", !.live = f.live]
<1>0. CtlKnown /\ fromGuest # <<>> /\ q \in Control /\ fromGuest' = Tail(fromGuest)
  BY CtlFacts DEF OnAnswer
<1>1. f \in Reply /\ Answers(q, f.live) /\ FromInv(fromGuest') /\ fromGuest' \in Seq(Reply) /\ boot # "down"
  BY <1>0, FromInvTail DEF CtlKnown
<1>2. ctl[q] \in CtlState /\ f.live \in SUBSET Call
  BY <1>0, <1>1 DEF CtlKnown, Reply
<1>3. x \in CtlState /\ x.pc \in {"done", "failed"} /\ x.known = ctl[q].known /\ x.live = f.live
  BY <1>2 DEF CtlState
<1>4. CtlOK(x)
  BY <1>1, <1>3 DEF CtlOK, Answers
<1>5. ctl' = [ctl EXCEPT ![q] = x]
  BY <1>0 DEF OnAnswer, CtlKnown
<1>6. boot' = boot /\ call' = call /\ guest' = guest /\ listing' = listing /\ toGuest' = toGuest
  BY DEF OnAnswer, OnControl
<1>7. \A d \in Call : SameTo(d, toGuest, toGuest') /\ SameFrom(d, fromGuest, fromGuest')
  BY <1>0, <1>6, FromTail, SameRefl DEF CtlKnown
<1>8. /\ \A i \in 1 .. Len(toGuest') : /\ AskNamed(toGuest'[i])
                                       /\ toGuest'[i].id \in Control \ {q} => ctl[toGuest'[i].id].pc # "idle"
      /\ toGuest' \in Seq(Frame)
  BY <1>0, <1>6 DEF CtlKnown, ToInv
<1>9. \A c \in x.known : guest[c].pc = "gone"
  BY <1>0, <1>1, <1>3 DEF CtlKnown
<1> HIDE DEF x, f
<1> QED BY <1>0, <1>1, <1>3, <1>4, <1>5, <1>6, <1>7, <1>8, <1>9, OneCtl

----
\* A step of guestd about a control request: a listing, a signal, an answer.
LEMMA OneGuestd ==
    ASSUME IInv, boot # "down", boot' = boot, call' = call, ctl' = ctl,
           guest' \in [Call -> GuestState], listing' \in [id : Control \cup {NoCall}, live : SUBSET Call], ListingOK',
           \A d \in Call : /\ GType(guest'[d]) /\ CallOK(d, call[d], guest'[d], toGuest, fromGuest)
                           /\ guest[d].pc = "gone" => guest'[d].pc = "gone",
           toGuest' \in Seq(Frame), fromGuest' \in Seq(Reply), ToInv(toGuest'), FromInv(fromGuest'),
           \A d \in Call : SameTo(d, toGuest, toGuest') /\ SameFrom(d, fromGuest, fromGuest')
    PROVE  IInv'
<1>1. TypeOK'
  BY DEF IInv, TypeOK, GType
<1>2. FromInv(fromGuest)' /\ ToInv(toGuest)'
  BY DEF FromInv, ToInv, Answers
<1>3. CtlInv'
  <2>1. (\A r \in Control : CtlOK(ctl[r]))'
    BY DEF IInv, CtlInv, CtlOK
  <2>2. \A r \in Control : \A c \in ctl'[r].known : guest'[c].pc = "gone"
    BY DEF IInv, CtlInv, TypeOK, CtlState
  <2> QED BY <2>1, <2>2 DEF CtlInv
<1>4. CallsInv'
  <2> SUFFICES ASSUME NEW d \in Call PROVE CallOK(d, call[d], guest[d], toGuest, fromGuest)'
    BY DEF CallsInv
  <2>1. CallOK(d, call[d], guest'[d], toGuest', fromGuest')
    BY Unseen
  <2> QED BY <2>1 DEF CallOK
<1>5. DownInv'
  BY DEF DownInv, NothingPending
<1> QED BY <1>1, <1>2, <1>3, <1>4, <1>5 DEF IInv

\* The head of the queue to the guest, when it is about a control request.
LEMMA ControlHead ==
    ASSUME IInv, toGuest # <<>>, Head(toGuest).type \in {"kill", "ps"}
    PROVE  /\ boot # "down" /\ Head(toGuest).id \in Control /\ ctl[Head(toGuest).id].pc # "idle"
           /\ Tail(toGuest) \in Seq(Frame) /\ ToInv(Tail(toGuest))
           /\ \A d \in Call : SameTo(d, toGuest, Tail(toGuest))
<1>1. CtlKnown
  BY CtlFacts
<1>2. toGuest \in Seq(Frame) /\ ToInv(toGuest) /\ boot # "down"
  BY <1>1 DEF CtlKnown
<1>3. /\ Tail(toGuest) \in Seq(Frame) /\ ToInv(Tail(toGuest)) /\ AskNamed(Head(toGuest))
      /\ Head(toGuest).id \in Control => ctl[Head(toGuest).id].pc # "idle"
  BY <1>2, ToInvTail
<1>4. \A d \in Call : SameTo(d, toGuest, Tail(toGuest))
  BY <1>2, ToTail
<1> QED BY <1>2, <1>3, <1>4 DEF AskNamed

\* An answer to a control request joins the queue from the guest.
LEMMA AnswerSent ==
    ASSUME IInv, NEW f \in Reply, f.id \in Control, Named(f), Answers(f.id, f.live)
    PROVE  /\ FromInv(Append(fromGuest, f)) /\ Append(fromGuest, f) \in Seq(Reply)
           /\ \A d \in Call : SameFrom(d, fromGuest, Append(fromGuest, f))
<1>1. CtlKnown
  BY CtlFacts
<1>2. fromGuest \in Seq(Reply) /\ FromInv(fromGuest) /\ f.id \notin Call
  BY <1>1 DEF CtlKnown
<1>3. \A d \in Call : SameFrom(d, fromGuest, Append(fromGuest, f))
  BY <1>2, FromAppend
<1> QED BY <1>2, <1>3, FromInvAppend

LEMMA HandleKillStep ==
    ASSUME IInv, HandleKill PROVE IInv'
<1> DEFINE q == Head(toGuest).id
           c == ctl[q].of
           f == Plain("ack", q)
<1>0. CtlKnown
  BY CtlFacts
<1>1. toGuest # <<>> /\ Head(toGuest).type = "kill" /\ toGuest' = Tail(toGuest) /\ fromGuest' = Append(fromGuest, f)
      /\ boot' = boot /\ call' = call /\ ctl' = ctl /\ listing' = listing
  BY DEF HandleKill, Handles, Send
<1>2. /\ boot # "down" /\ q \in Control /\ ctl[q].pc # "idle" /\ toGuest' \in Seq(Frame) /\ ToInv(toGuest')
      /\ \A d \in Call : SameTo(d, toGuest, toGuest')
  BY <1>1, ControlHead
<1>3. f \in Reply /\ f.id = q /\ Named(f) /\ f.live = {}
  BY <1>2 DEF Plain, Reply, Named
<1>4. FromInv(fromGuest') /\ fromGuest' \in Seq(Reply) /\ \A d \in Call : SameFrom(d, fromGuest, fromGuest')
  BY <1>1, <1>2, <1>3, AnswerSent DEF Answers
<1> HIDE DEF f
<1>5. /\ guest' \in [Call -> GuestState]
      /\ \A d \in Call : guest'[d] = guest[d] \/ (guest[d].pc = "run" /\ guest'[d] = [guest[d] EXCEPT !.pc = "dead", !.killed = TRUE])
  <2>1. guest \in [Call -> GuestState]
    BY DEF IInv, TypeOK
  <2>2. CASE guest' = guest
    BY <2>1, <2>2
  <2>3. CASE guest' = [guest EXCEPT ![c] = IF guest[c].pc = "run" THEN [guest[c] EXCEPT !.pc = "dead", !.killed = TRUE] ELSE guest[c]]
    <3>1. CASE c \in Call
      <4>1. [guest[c] EXCEPT !.pc = "dead", !.killed = TRUE] \in GuestState
        BY <2>1, <3>1 DEF GuestState
      <4> HIDE DEF c
      <4> QED BY <2>1, <2>3, <3>1, <4>1
    <3>2. CASE c \notin Call
      BY <2>1, <2>3, <3>2
    <3> QED BY <3>1, <3>2
  <2> QED BY <2>2, <2>3 DEF HandleKill
<1>6. ASSUME NEW d \in Call
      PROVE  /\ GType(guest'[d]) /\ CallOK(d, call[d], guest'[d], toGuest, fromGuest)
             /\ guest[d].pc = "gone" => guest'[d].pc = "gone"
  <2>1. Known(d) /\ CallOK(d, call[d], guest[d], toGuest, fromGuest)
    BY <1>2, CallFacts DEF Known
  <2>2. CASE guest'[d] = guest[d]
    BY <2>1, <2>2 DEF Known
  <2>3. CASE guest[d].pc = "run" /\ guest'[d] = [guest[d] EXCEPT !.pc = "dead", !.killed = TRUE]
    <3>1. /\ guest'[d] \in GuestState /\ guest'[d].pc = "dead" /\ guest'[d].child = guest[d].child
          /\ guest'[d].wrote = guest[d].wrote /\ guest'[d].piped = guest[d].piped
      BY <2>1, <2>3 DEF Known, GuestState
    <3> QED BY <2>1, <2>3, <3>1 DEF Known, GType, CallOK, Born
  <2> QED BY <1>5, <2>2, <2>3
<1>7. ListingOK' /\ listing' \in [id : Control \cup {NoCall}, live : SUBSET Call]
  BY <1>0, <1>1 DEF CtlKnown, ListingOK, Answers
<1> HIDE DEF q
<1> QED BY <1>1, <1>2, <1>4, <1>5, <1>6, <1>7, OneGuestd

\* The processes do not change.
LEMMA GuestSame ==
    ASSUME IInv, boot # "down", guest' = guest
    PROVE  /\ guest' \in [Call -> GuestState]
           /\ \A d \in Call : /\ GType(guest'[d]) /\ CallOK(d, call[d], guest'[d], toGuest, fromGuest)
                              /\ guest[d].pc = "gone" => guest'[d].pc = "gone"
<1>1. guest' \in [Call -> GuestState]
  BY DEF IInv, TypeOK
<1>2. \A d \in Call : GType(guest[d]) /\ CallOK(d, call[d], guest[d], toGuest, fromGuest)
  BY CallFacts DEF Known
<1> QED BY <1>1, <1>2

LEMMA HandlePsStep ==
    ASSUME IInv, HandlePs PROVE IInv'
<1> DEFINE q == Head(toGuest).id
           live == {c \in Call : guest[c].pc = "run"}
<1>0. CtlKnown
  BY CtlFacts
<1>1. /\ toGuest # <<>> /\ Head(toGuest).type = "ps" /\ toGuest' = Tail(toGuest) /\ listing' = [id |-> q, live |-> live]
      /\ boot' = boot /\ call' = call /\ ctl' = ctl /\ guest' = guest /\ fromGuest' = fromGuest
  BY DEF HandlePs, Handles
<1>2. /\ boot # "down" /\ q \in Control /\ ctl[q].pc # "idle" /\ toGuest' \in Seq(Frame) /\ ToInv(toGuest')
      /\ \A d \in Call : SameTo(d, toGuest, toGuest')
  BY <1>1, ControlHead
<1>3. Answers(q, live)
  BY <1>0, <1>2 DEF CtlKnown, Answers
<1>4. ListingOK' /\ listing' \in [id : Control \cup {NoCall}, live : SUBSET Call]
  BY <1>1, <1>2, <1>3, GuestAssumption DEF ListingOK, Answers
<1>5. fromGuest' \in Seq(Reply) /\ FromInv(fromGuest') /\ \A d \in Call : SameFrom(d, fromGuest, fromGuest')
  BY <1>0, <1>1, SameRefl DEF CtlKnown
<1> HIDE DEF q, live
<1> QED BY <1>1, <1>2, <1>4, <1>5, GuestSame, OneGuestd

LEMMA SendProcsStep ==
    ASSUME IInv, SendProcs PROVE IInv'
<1> DEFINE q == listing.id
           f == [Plain("procs", q) EXCEPT !.live = listing.live]
           e == Plain("error", q)
<1>0. CtlKnown
  BY CtlFacts
<1>1. /\ listing # NotListing /\ listing' = NotListing /\ toGuest' = toGuest
      /\ boot' = boot /\ call' = call /\ ctl' = ctl /\ guest' = guest
      /\ fromGuest' = Append(fromGuest, f) \/ fromGuest' = Append(fromGuest, e)
  BY DEF SendProcs, Send
<1>2. boot # "down" /\ q \in Control /\ Answers(q, listing.live) /\ listing.live \in SUBSET Call
  BY <1>0, <1>1 DEF CtlKnown, ListingOK
<1>3. /\ f \in Reply /\ f.id = q /\ Named(f) /\ f.live = listing.live
      /\ e \in Reply /\ e.id = q /\ Named(e) /\ e.live = {}
  BY <1>2 DEF Plain, Reply, Named
<1>4. Answers(q, {})
  BY <1>2 DEF Answers
<1> HIDE DEF f, e
<1>5. FromInv(fromGuest') /\ fromGuest' \in Seq(Reply) /\ \A d \in Call : SameFrom(d, fromGuest, fromGuest')
  BY <1>1, <1>2, <1>3, <1>4, AnswerSent
<1>6. ListingOK' /\ listing' \in [id : Control \cup {NoCall}, live : SUBSET Call]
  BY <1>1 DEF ListingOK, NotListing
<1>7. toGuest' \in Seq(Frame) /\ ToInv(toGuest') /\ \A d \in Call : SameTo(d, toGuest, toGuest')
  BY <1>0, <1>1, SameRefl DEF CtlKnown
<1> HIDE DEF q
<1> QED BY <1>1, <1>2, <1>5, <1>6, <1>7, GuestSame, OneGuestd

----
\* A step of the boot.
LEMMA BootGoesStep ==
    ASSUME IInv, NEW from, NEW to \in {"loading", "starting", "waking", "up", "failed"}, from # "down", BootGoes(from, to) PROVE IInv'
<1>1. /\ boot # "down" /\ boot' = to /\ call' = call /\ ctl' = ctl /\ guest' = guest
      /\ toGuest' = toGuest /\ fromGuest' = fromGuest /\ listing' = listing
  BY DEF BootGoes
<1>2. TypeOK'
  BY <1>1 DEF IInv, TypeOK
<1>3. FromInv(fromGuest)' /\ ToInv(toGuest)'
  BY <1>1 DEF IInv, FromInv, ToInv, Answers
<1>4. CtlInv'
  BY <1>1 DEF IInv, CtlInv, CtlOK, ListingOK, Answers
<1>5. CallsInv'
  BY <1>1 DEF IInv, CallsInv, CallOK
<1>6. DownInv'
  BY <1>1 DEF DownInv, NothingPending
<1> QED BY <1>2, <1>3, <1>4, <1>5, <1>6 DEF IInv

LEMMA ShutdownStep ==
    ASSUME IInv, Shutdown PROVE IInv'
<1>0. /\ boot' = "down" /\ toGuest' = <<>> /\ fromGuest' = <<>> /\ listing' = NotListing
      /\ call \in [Call -> CallState] /\ ctl \in [Control -> CtlState] /\ guest \in [Call -> GuestState] /\ CtlKnown
  BY CtlFacts DEF Shutdown, IInv, TypeOK
<1>1. ASSUME NEW c \in Call
      PROVE  /\ call'[c] \in CallState /\ KType(call'[c]) /\ call'[c].pc # "asked"
             /\ call'[c].pc \in {"started", "tracked"} => call'[c].exit # "none"
  <2>1. Known(c)
    BY CallFacts
  <2>2. call'[c] = (IF call[c].pc = "asked" THEN [call[c] EXCEPT !.pc = "failed", !.ended = TRUE]
                    ELSE IF call[c].pc \in {"started", "tracked"} /\ call[c].exit = "none"
                    THEN [call[c] EXCEPT !.exit = "killed", !.ended = TRUE] ELSE call[c])
    BY DEF Shutdown, Dispose
  <2>3. CASE call[c].pc = "asked"
    <3>1. call[c].exit = "none"
      BY <1>0, <2>1, <2>3 DEF Known, CallOK, Shutdown, CallState
    <3> QED BY <2>1, <2>2, <2>3, <3>1 DEF Known, KType, CallState, Over
  <2>4. CASE call[c].pc \in {"started", "tracked"} /\ call[c].exit = "none"
    BY <2>1, <2>2, <2>4 DEF Known, KType, CallState, Over
  <2>5. CASE call[c].pc # "asked" /\ ~(call[c].pc \in {"started", "tracked"} /\ call[c].exit = "none")
    BY <2>1, <2>2, <2>5 DEF Known, KType
  <2> QED BY <2>3, <2>4, <2>5
<1>2. ASSUME NEW c \in Call
      PROVE  guest'[c] \in GuestState /\ GType(guest'[c]) /\ Still(guest'[c])
  <2>1. Known(c)
    BY CallFacts
  <2>2. guest'[c] = [guest[c] EXCEPT !.pc = IF guest[c].pc = "none" THEN guest[c].pc ELSE "gone", !.child = FALSE]
    BY DEF Shutdown
  <2>3. guest'[c] \in GuestState /\ guest'[c].wrote = guest[c].wrote /\ guest'[c].piped = guest[c].piped /\ Still(guest'[c])
    BY <2>1, <2>2 DEF Known, GuestState, Still
  <2> QED BY <2>1, <2>3 DEF Known, GType
<1>3. ASSUME NEW q \in Control
      PROVE  ctl'[q] \in CtlState /\ CtlOK(ctl'[q]) /\ ctl'[q].pc # "asked"
  <2>1. ctl[q] \in CtlState /\ CtlOK(ctl[q])
    BY <1>0 DEF CtlKnown
  <2>2. ctl'[q] = (IF ctl[q].pc = "asked" THEN [ctl[q] EXCEPT !.pc = "done"] ELSE ctl[q])
    BY DEF Shutdown, Dispose
  <2> QED BY <2>1, <2>2 DEF CtlState, CtlOK
<1>4. TypeOK'
  <2>1. call' \in [Call -> CallState] /\ guest' \in [Call -> GuestState] /\ ctl' \in [Control -> CtlState]
    <3>1. call' = [c \in Call |-> call'[c]] /\ guest' = [c \in Call |-> guest'[c]] /\ ctl' = [q \in Control |-> ctl'[q]]
      BY DEF Shutdown, Dispose
    <3> QED BY <1>1, <1>2, <1>3, <3>1
  <2>2. toGuest' \in Seq(Frame) /\ fromGuest' \in Seq(Reply) /\ listing' \in [id : Control \cup {NoCall}, live : SUBSET Call]
    BY <1>0 DEF NotListing
  <2> QED BY <1>0, <1>1, <1>2, <2>1, <2>2 DEF TypeOK, KType, GType
<1>5. FromInv(fromGuest)' /\ ToInv(toGuest)'
  BY <1>0 DEF FromInv, ToInv, Ordered
<1>6. CtlInv'
  BY <1>0, <1>3 DEF CtlInv, CtlOK, ListingOK, NotListing
<1>7. CallsInv' /\ DownInv'
  BY <1>0, <1>1, <1>2, <1>3 DEF CallsInv, DownInv, NothingPending, Still
<1> QED BY <1>4, <1>5, <1>6, <1>7 DEF IInv

----
LEMMA InitInv == ASSUME Init PROVE IInv
<1>1. None \in [Stream -> 0 .. MaxChunks] /\ \A s \in Stream : None[s] = 0
  BY GuestAssumption DEF None
<1>2. /\ call \in [Call -> CallState] /\ guest \in [Call -> GuestState] /\ ctl \in [Control -> CtlState]
      /\ \A c \in Call : /\ call[c].pc = "idle" /\ call[c].exit = "none" /\ call[c].record = "running" /\ call[c].got = None
                         /\ guest[c].pc = "none" /\ ~guest[c].child /\ guest[c].wrote = None /\ guest[c].piped = None
      /\ \A q \in Control : ctl[q].pc = "idle" /\ ctl[q].known = {} /\ ctl[q].live = {}
  BY <1>1 DEF Init, CallState, GuestState, CtlState, Over
<1>3. boot = "off" /\ toGuest = <<>> /\ fromGuest = <<>> /\ listing = NotListing
  BY DEF Init
<1>4. TypeOK
  BY <1>1, <1>2, <1>3 DEF TypeOK, NotListing, Over
<1>5. FromInv(fromGuest) /\ ToInv(toGuest)
  BY <1>3 DEF FromInv, ToInv, Ordered
<1>6. CtlInv
  BY <1>2, <1>3 DEF CtlInv, CtlOK, ListingOK, NotListing
<1>7. CallsInv
  <2> SUFFICES ASSUME NEW c \in Call PROVE CallOK(c, call[c], guest[c], toGuest, fromGuest)
    BY DEF CallsInv
  <2>1. /\ \A X : Count(fromGuest, X) = 0 /\ ~Holds(fromGuest, X)
        /\ \A X : Count(toGuest, X) = 0 /\ ~Holds(toGuest, X)
    <3>1. <<>> \in Seq(Reply) /\ \A X : ~Holds(<<>>, X)
      BY DEF Holds
    <3>2. \A X : Count(<<>>, X) = 0
      BY <3>1, CountType
    <3> QED BY <1>3, <3>1, <3>2
  <2>2. \A s \in Stream : call[c].got[s] + Count(fromGuest, ChunkOf(c, s)) + guest[c].piped[s] = guest[c].wrote[s]
    BY <1>1, <1>2, <2>1
  <2> QED BY <1>2, <2>1, <2>2 DEF CallOK, Born
<1>8. DownInv
  BY <1>3 DEF DownInv, NothingPending
<1> QED BY <1>4, <1>5, <1>6, <1>7, <1>8 DEF IInv

LEMMA StutterStep == ASSUME IInv, UNCHANGED vars PROVE IInv'
<1>1. /\ boot' = boot /\ call' = call /\ ctl' = ctl /\ guest' = guest
      /\ toGuest' = toGuest /\ fromGuest' = fromGuest /\ listing' = listing
  BY DEF vars
<1>2. TypeOK'
  BY <1>1 DEF IInv, TypeOK
<1>3. FromInv(fromGuest)' /\ ToInv(toGuest)'
  BY <1>1 DEF IInv, FromInv, ToInv, Answers
<1>4. CtlInv'
  BY <1>1 DEF IInv, CtlInv, CtlOK, ListingOK, Answers
<1>5. CallsInv' /\ DownInv'
  BY <1>1 DEF IInv, CallsInv, CallOK, DownInv, NothingPending
<1> QED BY <1>2, <1>3, <1>4, <1>5 DEF IInv

LEMMA NextInv == ASSUME IInv, [Next]_vars PROVE IInv'
<1>1. CASE Boot \/ BootStep
  <2> USE BootGoesStep DEF Boot, BootStep, Loaded, EmulatorReady, Ready, BootFails
  <2>1. CASE Boot \/ Loaded \/ EmulatorReady \/ Ready
    BY <2>1
  <2>2. CASE BootFails
    BY <2>2
  <2> QED BY <1>1, <2>1, <2>2
<1>2. CASE Shutdown
  BY <1>2, ShutdownStep
<1>3. CASE \E q \in Control : GetProcesses(q) \/ \E c \in Call : Kill(q, c)
  BY <1>3, GetProcessesStep, KillStep
<1>4. CASE HostStep
  BY <1>4, OnStartedStep, OnChunkStep, OnExitStep, OnAnswerStep, OnErrorStep, TrackStep, RecordSettlesStep DEF HostStep
<1>5. CASE FrameStep
  BY <1>5, HandleExecStep, HandleKillStep, HandlePsStep, SendProcsStep DEF FrameStep
<1>6. CASE \E c \in Call : \/ Exec(c) \/ ThreadStep(c) \/ Forks(c) \/ ChildEnds(c) \/ Exits(c)
                           \/ \E s \in Stream : Writes(c, s)
  BY <1>6, ExecStep, PopenStep, SendExitStep, PumpStep, ForksStep, WritesStep DEF ThreadStep
<1>7. CASE UNCHANGED vars
  BY <1>7, StutterStep
<1> QED BY <1>1, <1>2, <1>3, <1>4, <1>5, <1>6, <1>7 DEF Next

LEMMA AlwaysInv == Spec => []IInv
<1>1. Init => IInv
  BY InitInv
<1>2. IInv /\ [Next]_vars => IInv'
  BY NextInv
<1> QED BY <1>1, <1>2, PTL DEF Spec

----
\* Every variable keeps its type; a record that is over agrees with what wait() resolved with.
THEOREM TypeCorrect == Spec => []TypeOK
<1>1. IInv => TypeOK
  BY DEF IInv
<1> QED BY <1>1, AlwaysInv, PTL

\* An exit is known only of a process that is over, with all its output handed on: EXIT is the
\* last frame of its call, and run_command joins its pumps before it sends it.
THEOREM OutputCompleteHolds == Spec => []OutputComplete
<1>1. IInv => OutputComplete
  <2> SUFFICES ASSUME IInv, boot = "up", NEW c \in Call, call[c].exit # "none"
               PROVE  guest[c].pc = "gone" /\ call[c].got = guest[c].wrote
    BY DEF OutputComplete
  <2>1. Known(c) /\ CallOK(c, call[c], guest[c], toGuest, fromGuest)
    BY CallFacts DEF Known
  <2>2. guest[c].pc = "gone" /\ guest[c].piped = None /\ ~Holds(fromGuest, AnyOf(c))
    BY <2>1 DEF CallOK
  <2>3. \A s \in Stream : /\ Count(fromGuest, ChunkOf(c, s)) = 0 /\ guest[c].piped[s] = 0
                          /\ call[c].got[s] \in Nat /\ guest[c].wrote[s] \in Nat
    BY <2>1, <2>2, NoFrames DEF Known, None
  <2>4. \A s \in Stream : call[c].got[s] = guest[c].wrote[s]
    BY <2>1, <2>3 DEF CallOK
  <2> QED BY <2>1, <2>2, <2>4 DEF Known
<1> QED BY <1>1, AlwaysInv, PTL

\* getProcesses never shows as running a process whose end the host knew when it asked: the process
\* was gone by then, and /proc is listed later.
THEOREM ListedTrulyHolds == Spec => []ListedTruly
<1>1. IInv => ListedTruly
  BY DEF IInv, CtlInv, CtlOK, ListedTruly
<1> QED BY <1>1, AlwaysInv, PTL

\* After dispose() no call and no control request waits for the guest that is gone.
THEOREM NothingPendingHolds == Spec => []NothingPending
<1>1. IInv => NothingPending
  BY DEF IInv, DownInv
<1> QED BY <1>1, AlwaysInv, PTL
====
