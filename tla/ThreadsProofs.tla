---- MODULE ThreadsProofs ----
(* Proofs about the run history of the Studio (RunHistory), alone and as MCThreads composes it, and about what a thread
   says to its model (AgentThread). *)
EXTENDS MCThreads, TLAPS, SequenceTheorems, FiniteSetTheorems, WellFoundedInduction

-----------------------------------------------------------------------------
(* The inductive invariant. *)

\* Every thread of a list may be in the folder.
Belong(rs, F, houses) == \A r \in Ids(rs) : F \in houses[r]

\* What IndexedDB holds when the transactions in flight have ended.
LastStored == IF puts = <<>> THEN idb ELSE puts[Len(puts)]

Write == [folder : Folder, runs : Seq(Thread)]

Typed ==
    /\ Listed(runs) /\ Listed(idb)
    /\ puts \in Seq(Seq(Thread)) /\ \A i \in DOMAIN puts : Listed(puts[i])
    /\ writes \in Seq(Write) /\ \A i \in DOMAIN writes : Listed(writes[i].runs)
    /\ disk \in [Folder -> Seq(Thread) \cup {None}] /\ \A F \in Folder : disk[F] # None => Listed(disk[F])
    /\ mounting \in Mount /\ (mounting.read # None => Listed(mounting.read))
    /\ mount \in Folder \cup {None} /\ persisted \in Folder \cup {None}
    /\ joined \in [RunId -> SUBSET Folder]
    /\ nextId \in Nat /\ clock \in Nat
    /\ turn \in [run : RunId \cup {None}, held : BOOLEAN] /\ starting \in RunId \cup {None}
    /\ driven \subseteq RunId /\ forgotten \subseteq RunId
    /\ open \in BOOLEAN /\ swapping \in BOOLEAN /\ wiping \in {"no", "snapshot", "runs"}

\* A line about to be written has an id of its own; a turn that writes to memory finds its thread there.
Stamped ==
    /\ \A n \in LineIds(runs) : n < nextId
    /\ turn.held => turn.run \in Ids(runs)

\* A closed page has no memory and nothing in flight.
Idle ==
    ~open => /\ runs = <<>> /\ driven = {} /\ starting = None /\ turn = NoTurn /\ nextId = 1
             /\ puts = <<>> /\ writes = <<>> /\ mount = None /\ mounting = NoMount /\ wiping = "no"

\* What a mount in flight is aimed at, and that a swap keeps the memory empty until it ends.
Aimed ==
    /\ mounting.pc # "none" => mounting.folder \in Folder
    /\ mounting.pc = "flush" => mounting.mode = "replace"
    /\ mounting.mode = "replace" => mounting.pc # "none" /\ mounting.by = "user" /\ swapping
    /\ mounting.mode = "replace" /\ mounting.pc \in {"load", "persist"} => runs = <<>>
    /\ mounting.by = "boot" /\ mounting.pc = "load" => mounting.folder = persisted /\ mount = None
    /\ mounting.pc = "persist" => mount \in {None, mounting.folder}
    /\ mount # None /\ mounting.pc # "persist" => persisted = mount

\* Whatever may yet be written to a folder belongs to it: what is in memory, what a boot would load, what was read.
Housed ==
    /\ \A F \in Folder : disk[F] # None => Belong(disk[F], F, joined)
    /\ \A i \in DOMAIN writes : Belong(writes[i].runs, writes[i].folder, joined)
    /\ mounting.read # None => Belong(mounting.read, mounting.folder, joined)
    /\ mounting.pc = "persist" =>
         Belong(runs, mounting.folder, joined) /\ (mounting.mode = "merge" => Belong(LastStored, mounting.folder, joined))
    /\ mounting.pc # "persist" /\ persisted # None => Belong(runs, persisted, joined) /\ Belong(LastStored, persisted, joined)

\* What a reset deletes is nowhere it could come back from.
Gone(rs, erased) == erased \cap Ids(rs) = {}

Away ==
    /\ Gone(runs, forgotten)
    /\ \A F \in Folder : disk[F] # None => Gone(disk[F], forgotten)
    /\ \A i \in DOMAIN writes : Gone(writes[i].runs, forgotten)
    /\ mounting.read # None => Gone(mounting.read, forgotten)
    /\ wiping = "no" => Gone(idb, forgotten) /\ \A i \in DOMAIN puts : Gone(puts[i], forgotten)
    /\ wiping = "runs" => Gone(LastStored, forgotten)

HInv == Typed /\ Stamped /\ Idle /\ Aimed /\ Housed /\ Away

-----------------------------------------------------------------------------
(* Numbers. *)

\* What induction over lists rests on.
LEMMA LeastElement == ASSUME NEW Those \in SUBSET Nat, Those # {} PROVE \E n \in Those : \A m \in Those : n <= m
<1> DEFINE R == OpToRel(<, Nat)
<1>1. IsWellFoundedOn(R, Nat)
  BY NatLessThanWellFounded
<1>2. \E n \in Those : \A m \in Those : <<m, n>> \notin R
  <2> HIDE DEF R
  <2> QED BY <1>1, WFMin
<1>3. \A m, n \in Nat : m < n => <<m, n>> \in R
  BY DEF OpToRel
<1> HIDE DEF R
<1>4. \A n \in Those : n \in Nat
  OBVIOUS
<1>5. PICK n \in Those : \A m \in Those : <<m, n>> \notin R
  BY <1>2
<1>6. \A m \in Those : ~(m < n)
  BY <1>3, <1>4, <1>5, Zenon
<1>7. \A m \in Those : n <= m
  BY <1>4, <1>6, Zenon, SMT
<1> QED BY <1>7

LEMMA Above == ASSUME NEW a \in Nat, NEW b \in Nat PROVE \E c \in Nat : a <= c /\ b <= c
<1>1. a + b \in Nat /\ a <= a + b /\ b <= a + b
  BY SMT
<1> QED BY <1>1, Zenon

LEMMA LeTrans == \A a, b, c \in Nat : a <= b /\ b <= c => a <= c
  BY SMT

\* The elements of a sequence are finitely many.
LEMMA RangeFinite == ASSUME NEW Elem, NEW q \in Seq(Elem) PROVE IsFiniteSet({q[i] : i \in DOMAIN q})
<1> DEFINE S == {q[i] : i \in DOMAIN q}
<1>1. q \in Seq(S)
  <2>1. DOMAIN q = 1 .. Len(q) /\ Len(q) \in Nat
    OBVIOUS
  <2>2. \A i \in 1 .. Len(q) : q[i] \in S
    BY <2>1
  <2>3. q = [i \in 1 .. Len(q) |-> q[i]]
    BY <2>1
  <2> HIDE DEF S
  <2> QED BY <2>1, <2>2, <2>3, IsASeq
<1>2. \A s \in S : \E n \in 1 .. Len(q) : q[n] = s
  OBVIOUS
<1> HIDE DEF S
<1>3. IsFiniteSet(S)
  BY <1>1, <1>2 DEF IsFiniteSet
<1> QED BY <1>3 DEF S

\* Finitely many numbers have a bound.
LEMMA Bounded == ASSUME NEW S \in SUBSET Nat, IsFiniteSet(S) PROVE \E b \in Nat : \A n \in S : n <= b
<1>1. PICK q \in Seq(S) : \A s \in S : \E n \in 1 .. Len(q) : q[n] = s
  BY DEF IsFiniteSet
<1>2. Len(q) \in Nat /\ \A i \in 1 .. Len(q) : q[i] \in Nat
  <2>1. Len(q) \in Nat /\ \A i \in 1 .. Len(q) : q[i] \in S
    BY ElementOfSeq, LenProperties
  <2> QED BY <2>1
<1> DEFINE Bound(k) == \E b \in Nat : \A i \in 1 .. Len(q) : i <= k => q[i] <= b
           Those == {k \in Nat : k <= Len(q) /\ ~Bound(k)}
<1>3. Those = {}
  <2> SUFFICES ASSUME Those # {} PROVE FALSE
    OBVIOUS
  <2>1. PICK k \in Those : \A j \in Those : k <= j
    <3>1. Those \in SUBSET Nat
      OBVIOUS
    <3> HIDE DEF Those
    <3> QED BY <3>1, LeastElement
  <2>2. CASE k = 0
    <3>1. Bound(0)
      BY <1>2, SMT
    <3> QED BY <2>1, <2>2, <3>1
  <2>3. CASE k # 0
    <3>1. k \in Nat /\ k - 1 \in Nat /\ k - 1 <= Len(q) /\ k \in 1 .. Len(q)
      BY <2>1, <2>3, <1>2, SMT
    <3>2. ~(k <= k - 1)
      BY <3>1, SMT
    <3>3. Bound(k - 1)
      BY <3>1, <3>2, <2>1
    <3>4. PICK b \in Nat : \A i \in 1 .. Len(q) : i <= k - 1 => q[i] <= b
      BY <3>3
    <3>5. PICK c \in Nat : b <= c /\ q[k] <= c
      <4>1. q[k] \in Nat
        BY <3>1, <1>2
      <4> QED BY <4>1, Above
    <3>6. ASSUME NEW i \in 1 .. Len(q), i <= k PROVE q[i] <= c
      <4>1. CASE i = k
        BY <4>1, <3>5
      <4>2. CASE i # k
        <5>1. i <= k - 1
          BY <4>2, <3>1, <3>6, <1>2, SMT
        <5>2. q[i] <= b /\ q[i] \in Nat
          BY <5>1, <3>4, <1>2
        <5> QED BY <5>2, <3>5, LeTrans, Zenon
      <4> QED BY <4>1, <4>2
    <3>7. Bound(k)
      BY <3>6
    <3> QED BY <3>7, <2>1
  <2> QED BY <2>2, <2>3
<1>4. Bound(Len(q))
  <2>1. Len(q) \in Nat /\ Len(q) <= Len(q)
    BY <1>2, SMT
  <2> QED BY <1>3, <2>1
<1>5. PICK b \in Nat : \A i \in 1 .. Len(q) : i <= Len(q) => q[i] <= b
  BY <1>4
<1>6. \A s \in S : s <= b
  BY <1>1, <1>2, <1>5, SMT
<1> QED BY <1>6

\* A finite set of numbers that is not empty has its largest.
LEMMA MaxOf ==
  ASSUME NEW S \in SUBSET Nat, S # {}, IsFiniteSet(S)
  PROVE  Max(S) \in S /\ \A n \in S : n <= Max(S)
<1>1. PICK b \in Nat : \A n \in S : n <= b
  BY Bounded
<1> DEFINE Those == {k \in Nat : \E n \in S : k = b - n}
<1>2. PICK k \in Those : \A j \in Those : k <= j
  <2>1. PICK n \in S : TRUE
    OBVIOUS
  <2>2. n \in Nat /\ n <= b
    BY <1>1
  <2>3. b - n \in Nat
    BY <2>2, SMT
  <2>4. Those \in SUBSET Nat /\ Those # {}
    BY <2>3
  <2> QED BY <2>4, LeastElement
<1>3. PICK m \in S : k = b - m
  BY <1>2
<1>4. ASSUME NEW n \in S PROVE n <= m
  <2>1. n \in Nat /\ m \in Nat /\ n <= b /\ m <= b
    BY <1>1, <1>3
  <2>2. b - n \in Those
    BY <2>1, SMT
  <2>3. b - m <= b - n
    BY <2>2, <1>2, <1>3
  <2> QED BY <2>1, <2>3, SMT
<1>5. m \in S /\ \A n \in S : m >= n
  BY <1>4, SMT
<1>6. Max(S) \in S /\ \A n \in S : Max(S) >= n
  BY <1>5, Zenon DEF Max
<1> QED BY <1>6, SMT

-----------------------------------------------------------------------------
(* Lists of threads. *)

Distinct(rs) == \A i, j \in DOMAIN rs : rs[i].id = rs[j].id => i = j

\* The list that Only builds, element after element, and that there is such a list.
OnlyStep(rs, some, g, n) == IF n = 0 THEN <<>> ELSE IF rs[n].id \in some THEN Append(g[n - 1], rs[n]) ELSE g[n - 1]

LEMMA OnlyBuilt ==
  ASSUME NEW rs \in Seq(Thread), NEW some
  PROVE  \E g : /\ g = [n \in 0 .. Len(rs) |-> OnlyStep(rs, some, g, n)]
                /\ Only(rs, some) = g[Len(rs)]
<1> DEFINE Built(m) == \E g : g = [n \in 0 .. m |-> OnlyStep(rs, some, g, n)]
           Those == {m \in Nat : ~Built(m)}
<1>1. Len(rs) \in Nat
  BY LenProperties
<1>2. Those = {}
  <2> SUFFICES ASSUME Those # {} PROVE FALSE
    OBVIOUS
  <2>1. PICK m \in Those : \A j \in Those : m <= j
    <3>1. Those \in SUBSET Nat
      OBVIOUS
    <3> HIDE DEF Those
    <3> QED BY <3>1, LeastElement
  <2>2. CASE m = 0
    <3> DEFINE g == [n \in 0 .. 0 |-> <<>>]
    <3>1. g = [n \in 0 .. 0 |-> OnlyStep(rs, some, g, n)]
      BY DEF OnlyStep
    <3> HIDE DEF g
    <3> QED BY <3>1, <2>1, <2>2
  <2>3. CASE m # 0
    <3>1. m \in Nat /\ m - 1 \in Nat /\ ~(m <= m - 1)
      BY <2>1, <2>3, SMT
    <3>2. Built(m - 1)
      BY <3>1, <2>1
    <3>3. PICK g : g = [n \in 0 .. m - 1 |-> OnlyStep(rs, some, g, n)]
      BY <3>2
    <3> DEFINE h == [n \in 0 .. m |-> IF n = m THEN OnlyStep(rs, some, g, m) ELSE g[n]]
    <3>4. ASSUME NEW n \in 0 .. m PROVE h[n] = OnlyStep(rs, some, h, n)
      <4>1. CASE n = 0
        <5>1. n # m /\ n \in 0 .. m - 1
          BY <4>1, <2>3, <3>1, SMT
        <5> QED BY <5>1, <4>1, <3>3 DEF OnlyStep
      <4>2. CASE n # 0
        <5>1. n - 1 \in 0 .. m - 1 /\ n - 1 \in 0 .. m /\ n - 1 # m
          BY <4>2, <3>1, SMT
        <5>2. h[n - 1] = g[n - 1]
          BY <5>1
        <5>3. OnlyStep(rs, some, h, n) = OnlyStep(rs, some, g, n)
          BY <5>2, <4>2 DEF OnlyStep
        <5>4. CASE n = m
          BY <5>3, <5>4
        <5>5. CASE n # m
          <6>1. n \in 0 .. m - 1
            BY <5>5, <3>1, SMT
          <6> QED BY <6>1, <5>5, <5>3, <3>3
        <5> QED BY <5>4, <5>5
      <4> QED BY <4>1, <4>2
    <3>5. h = [n \in 0 .. m |-> OnlyStep(rs, some, h, n)]
      <4>1. h = [n \in 0 .. m |-> h[n]]
        OBVIOUS
      <4> HIDE DEF h
      <4> QED BY <4>1, <3>4
    <3> HIDE DEF h
    <3>6. Built(m)
      BY <3>5
    <3> QED BY <3>6, <2>1
  <2> QED BY <2>2, <2>3
<1>3. Built(Len(rs))
  BY <1>1, <1>2
<1> DEFINE of == CHOOSE g : g = [n \in 0 .. Len(rs) |-> OnlyStep(rs, some, g, n)]
<1>4. of = [n \in 0 .. Len(rs) |-> OnlyStep(rs, some, of, n)]
  BY <1>3
<1>5. Only(rs, some) = of[Len(rs)]
  BY DEF Only, OnlyStep
<1> HIDE DEF of
<1> QED BY <1>4, <1>5

\* Only keeps exactly the threads whose ids are asked for, each once.
LEMMA OnlyKeeps ==
  ASSUME NEW rs \in Seq(Thread), NEW some
  PROVE  LET os == Only(rs, some) IN
         /\ os \in Seq(Thread)
         /\ \A i \in DOMAIN os : \E j \in DOMAIN rs : os[i] = rs[j] /\ rs[j].id \in some
         /\ \A j \in DOMAIN rs : rs[j].id \in some => \E i \in DOMAIN os : os[i] = rs[j]
         /\ Distinct(rs) => Distinct(os)
<1> DEFINE L == Len(rs)
           Kept(os, m) ==
             /\ os \in Seq(Thread)
             /\ \A i \in 1 .. Len(os) : \E j \in 1 .. m : os[i] = rs[j] /\ rs[j].id \in some
             /\ \A j \in 1 .. m : rs[j].id \in some => \E i \in 1 .. Len(os) : os[i] = rs[j]
             /\ Distinct(rs) => \A i, k \in 1 .. Len(os) : os[i].id = os[k].id => i = k
<1>1. L \in Nat /\ DOMAIN rs = 1 .. L /\ \A j \in 1 .. L : rs[j] \in Thread
  BY LenProperties, ElementOfSeq
<1>2. PICK g : g = [n \in 0 .. L |-> OnlyStep(rs, some, g, n)] /\ Only(rs, some) = g[L]
  BY OnlyBuilt
<1> DEFINE Those == {m \in Nat : m <= L /\ ~Kept(g[m], m)}
<1>3. Those = {}
  <2> SUFFICES ASSUME Those # {} PROVE FALSE
    OBVIOUS
  <2>1. PICK m \in Those : \A j \in Those : m <= j
    <3>1. Those \in SUBSET Nat
      OBVIOUS
    <3> HIDE DEF Those
    <3> QED BY <3>1, LeastElement
  <2>4. ~Kept(g[m], m)
    BY <2>1
  <2>2. CASE m = 0
    <3>1. g[0] = <<>>
      <4>1. 0 \in 0 .. L
        BY <1>1, SMT
      <4> QED BY <4>1, <1>2 DEF OnlyStep
    <3>2. Len(<<>>) = 0 /\ <<>> \in Seq(Thread) /\ 1 .. 0 = {}
      BY SMT
    <3>3. Kept(g[0], 0)
      BY <3>1, <3>2
    <3> QED BY <3>3, <2>1, <2>2
  <2>3. CASE m # 0
    <3>1. m \in Nat /\ m <= L /\ m - 1 \in Nat /\ m - 1 <= L /\ ~(m <= m - 1) /\ m \in 0 .. L /\ m \in 1 .. L
      BY <2>1, <2>3, <1>1, SMT
    <3>2. Kept(g[m - 1], m - 1)
      BY <3>1, <2>1
    <3>3. g[m] = IF rs[m].id \in some THEN Append(g[m - 1], rs[m]) ELSE g[m - 1]
      BY <3>1, <2>3, <1>2 DEF OnlyStep
    <3>4. 1 .. m = (1 .. m - 1) \cup {m} /\ m \notin 1 .. m - 1
      BY <3>1, SMT
    <3>5. CASE rs[m].id \notin some
      <4>1. Kept(g[m - 1], m)
        BY <3>2, <3>4, <3>5, Zenon
      <4> HIDE DEF Kept
      <4> QED BY <4>1, <3>3, <3>5, <2>4, Zenon
    <3>6. CASE rs[m].id \in some
      <4> DEFINE p == g[m - 1]
                 q == Append(p, rs[m])
      <4>1. rs[m] \in Thread /\ p \in Seq(Thread)
        BY <3>1, <3>2, <1>1
      <4>2. /\ q \in Seq(Thread) /\ Len(p) \in Nat /\ Len(q) = Len(p) + 1
            /\ \A i \in 1 .. Len(p) : q[i] = p[i]
            /\ q[Len(p) + 1] = rs[m]
        BY <4>1, AppendProperties, LenProperties
      <4>3. 1 .. Len(q) = (1 .. Len(p)) \cup {Len(p) + 1} /\ Len(p) + 1 \notin 1 .. Len(p)
        BY <4>2, SMT
      <4> HIDE DEF q
      <4>4. \A i \in 1 .. Len(p) : \E j \in 1 .. m - 1 : p[i] = rs[j] /\ rs[j].id \in some
        BY <3>2
      <4>5. \A i \in 1 .. Len(q) : \E j \in 1 .. m : q[i] = rs[j] /\ rs[j].id \in some
        <5>1. ASSUME NEW i \in 1 .. Len(q) PROVE \E j \in 1 .. m : q[i] = rs[j] /\ rs[j].id \in some
          <6>1. CASE i = Len(p) + 1
            <7>1. q[i] = rs[m] /\ rs[m].id \in some
              BY <6>1, <4>2, <3>6
            <7>2. m \in 1 .. m
              BY <3>4
            <7> QED BY <7>1, <7>2
          <6>2. CASE i \in 1 .. Len(p)
            <7>1. PICK j \in 1 .. m - 1 : p[i] = rs[j] /\ rs[j].id \in some
              BY <6>2, <4>4
            <7>2. j \in 1 .. m /\ q[i] = p[i]
              BY <7>1, <6>2, <4>2, <3>4
            <7> QED BY <7>1, <7>2
          <6> QED BY <6>1, <6>2, <4>3, Zenon
        <5> QED BY <5>1
      <4>6. \A j \in 1 .. m - 1 : rs[j].id \in some => \E i \in 1 .. Len(p) : p[i] = rs[j]
        BY <3>2
      <4>7. \A j \in 1 .. m : rs[j].id \in some => \E i \in 1 .. Len(q) : q[i] = rs[j]
        BY <4>2, <4>3, <4>6, <3>4, Zenon
      <4>8. ASSUME Distinct(rs), NEW i \in 1 .. Len(q), NEW k \in 1 .. Len(q), q[i].id = q[k].id PROVE i = k
        <5>1. \A j \in 1 .. m - 1 : j \in DOMAIN rs /\ j # m
          BY <3>1, <1>1, SMT
        <5>2. m \in DOMAIN rs
          BY <3>1, <1>1
        <5>3. \A l \in 1 .. Len(p) : p[l].id # rs[m].id
          BY <5>1, <5>2, <4>4, <4>8, Zenon DEF Distinct
        <5>4. \A a, b \in 1 .. Len(p) : p[a].id = p[b].id => a = b
          BY <3>2, <4>8
        <5> QED BY <5>3, <5>4, <4>2, <4>3, <4>8, Zenon
      <4>9. Kept(q, m)
        BY <4>2, <4>5, <4>7, <4>8
      <4>10. g[m] = q
        BY <3>3, <3>6 DEF q
      <4> HIDE DEF Kept
      <4> QED BY <4>9, <4>10, <2>4, Zenon
    <3> QED BY <3>5, <3>6
  <2> QED BY <2>2, <2>3
<1>4. Kept(g[L], L)
  <2>1. L <= L
    BY <1>1, SMT
  <2> QED BY <1>1, <1>3, <2>1
<1>5. DOMAIN Only(rs, some) = 1 .. Len(Only(rs, some))
  BY <1>2, <1>4, LenProperties
<1>6. Kept(Only(rs, some), L)
  BY <1>2, <1>4
<1> QED BY <1>1, <1>5, <1>6 DEF Distinct

LEMMA ListFacts ==
  ASSUME NEW rs, Listed(rs)
  PROVE  /\ rs \in Seq(Thread) /\ Distinct(rs) /\ Len(rs) \in Nat /\ DOMAIN rs = 1 .. Len(rs)
         /\ \A i \in DOMAIN rs : /\ rs[i] \in Thread /\ rs[i].id \in RunId /\ rs[i].id \in Ids(rs)
                                 /\ rs[i].lines \in Seq(Nat) /\ IsInjective(rs[i].lines)
         /\ Ids(rs) \subseteq RunId /\ LineIds(rs) \subseteq Nat
<1>1. rs \in Seq(Thread) /\ Distinct(rs) /\ \A i \in DOMAIN rs : IsInjective(rs[i].lines)
  BY DEF Listed, Distinct
<1>2. Len(rs) \in Nat /\ DOMAIN rs = 1 .. Len(rs) /\ \A i \in DOMAIN rs : rs[i] \in Thread
  BY <1>1, LenProperties, ElementOfSeq
<1>3. \A t \in Thread : t.id \in RunId /\ t.lines \in Seq(Nat)
  BY DEF Thread
<1>4. \A q \in Seq(Nat) : ToSet(q) \subseteq Nat
  BY ElementOfSeq, LenProperties DEF ToSet
<1>5. LineIds(rs) \subseteq Nat
  BY <1>2, <1>3, <1>4 DEF LineIds
<1> QED BY <1>1, <1>2, <1>3, <1>5 DEF Ids

LEMMA EmptyList == Listed(<<>>) /\ Ids(<<>>) = {} /\ LineIds(<<>>) = {}
<1>1. <<>> \in Seq(Thread) /\ DOMAIN <<>> = {}
  BY EmptySeq, LenProperties, SMT
<1> QED BY <1>1 DEF Listed, Ids, LineIds

\* The copy of a thread in a list is the one entry with its id.
LEMMA TheCopy ==
  ASSUME NEW rs, NEW r \in Ids(rs)
  PROVE  /\ At(rs, r) \in DOMAIN rs /\ rs[At(rs, r)].id = r /\ Copy(rs, r) = rs[At(rs, r)]
         /\ Distinct(rs) => \A i \in DOMAIN rs : rs[i].id = r => i = At(rs, r)
<1>1. \E i \in DOMAIN rs : rs[i].id = r
  BY DEF Ids
<1>2. At(rs, r) \in DOMAIN rs /\ rs[At(rs, r)].id = r
  BY <1>1 DEF At
<1> QED BY <1>2 DEF Copy, Distinct

\* A list whose entries are, each once, entries of another.
LEMMA PartListed ==
  ASSUME NEW rs, Listed(rs), NEW os \in Seq(Thread), Distinct(os),
         \A i \in DOMAIN os : \E j \in DOMAIN rs : os[i] = rs[j]
  PROVE  Listed(os) /\ Ids(os) \subseteq Ids(rs) /\ LineIds(os) \subseteq LineIds(rs)
<1>1. \A j \in DOMAIN rs : IsInjective(rs[j].lines)
  BY ListFacts
<1>2. Listed(os)
  BY <1>1 DEF Listed, Distinct
<1>3. \A i \in DOMAIN os : os[i].id \in Ids(rs) /\ ToSet(os[i].lines) \subseteq LineIds(rs)
  BY DEF Ids, LineIds
<1>4. Ids(os) \subseteq Ids(rs)
  BY <1>3 DEF Ids
<1>5. LineIds(os) \subseteq LineIds(rs)
  BY <1>3 DEF LineIds
<1> QED BY <1>2, <1>4, <1>5

LEMMA OnlyListed ==
  ASSUME NEW rs, Listed(rs), NEW some
  PROVE  /\ Listed(Only(rs, some)) /\ Ids(Only(rs, some)) = Ids(rs) \cap some /\ LineIds(Only(rs, some)) \subseteq LineIds(rs)
         /\ \A r \in Ids(rs) \cap some : Copy(Only(rs, some), r) = Copy(rs, r)
<1> DEFINE os == Only(rs, some)
<1>1. rs \in Seq(Thread) /\ Distinct(rs)
  BY ListFacts
<1>2. /\ os \in Seq(Thread)
      /\ \A i \in DOMAIN os : \E j \in DOMAIN rs : os[i] = rs[j] /\ rs[j].id \in some
      /\ \A j \in DOMAIN rs : rs[j].id \in some => \E i \in DOMAIN os : os[i] = rs[j]
      /\ Distinct(os)
  BY <1>1, OnlyKeeps
<1> HIDE DEF os
<1>3. Listed(os) /\ Ids(os) \subseteq Ids(rs) /\ LineIds(os) \subseteq LineIds(rs)
  BY <1>2, PartListed
<1>4. Ids(os) = Ids(rs) \cap some
  BY <1>2, <1>3 DEF Ids
<1>5. ASSUME NEW r \in Ids(rs) \cap some PROVE Copy(os, r) = Copy(rs, r)
  <2>1. At(rs, r) \in DOMAIN rs /\ rs[At(rs, r)].id = r /\ Copy(rs, r) = rs[At(rs, r)]
    BY TheCopy
  <2>2. PICK i \in DOMAIN os : os[i] = rs[At(rs, r)]
    BY <2>1, <1>2
  <2>3. r \in Ids(os)
    BY <1>4
  <2>4. At(os, r) = i /\ Copy(os, r) = os[At(os, r)]
    BY <2>1, <2>2, <2>3, <1>2, TheCopy
  <2> QED BY <2>1, <2>2, <2>4
<1> QED BY <1>3, <1>4, <1>5 DEF os

LEMMA Capped ==
  ASSUME NEW rs, Listed(rs)
  PROVE  LET cs == capRuns(rs) IN
         /\ Listed(cs) /\ Ids(cs) \subseteq Ids(rs) /\ LineIds(cs) \subseteq LineIds(rs)
         /\ Len(cs) = (IF Len(rs) <= MaxRuns THEN Len(rs) ELSE MaxRuns) /\ DOMAIN cs = 1 .. Len(cs)
         /\ \A i \in DOMAIN cs : i \in DOMAIN rs /\ cs[i] = rs[i]
<1>1. rs \in Seq(Thread) /\ Distinct(rs) /\ Len(rs) \in Nat /\ DOMAIN rs = 1 .. Len(rs) /\ \A i \in DOMAIN rs : rs[i] \in Thread
  BY ListFacts
<1>2. MaxRuns \in Nat
  BY HistoryAssumption
<1> DEFINE n == Min({Len(rs), MaxRuns})
           cs == capRuns(rs)
<1>3. n = IF Len(rs) <= MaxRuns THEN Len(rs) ELSE MaxRuns
  <2>1. \E m \in {Len(rs), MaxRuns} : \A y \in {Len(rs), MaxRuns} : m =< y
    BY <1>1, <1>2, SMT
  <2>2. n \in {Len(rs), MaxRuns} /\ \A y \in {Len(rs), MaxRuns} : n =< y
    BY <2>1, Zenon DEF Min
  <2> HIDE DEF n
  <2> QED BY <2>2, <1>1, <1>2, SMT
<1> HIDE DEF n
<1>4. n \in Nat /\ n <= Len(rs)
  BY <1>1, <1>2, <1>3, SMT
<1>5. \A i \in 1 .. n : i \in DOMAIN rs /\ rs[i] \in Thread
  BY <1>1, <1>4, SMT
<1>6. cs \in Seq(Thread) /\ Len(cs) = n /\ \A i \in 1 .. n : cs[i] = rs[i]
  <2>1. cs = SubSeq(rs, 1, n)
    BY DEF capRuns, n
  <2> HIDE DEF cs
  <2> QED BY <2>1, <1>4, <1>5, SMT
<1> HIDE DEF cs
<1>7. DOMAIN cs = 1 .. n /\ \A i \in DOMAIN cs : i \in DOMAIN rs /\ cs[i] = rs[i]
  BY <1>5, <1>6, LenProperties
<1>8. Distinct(cs)
  BY <1>1, <1>7 DEF Distinct
<1>9. Listed(cs) /\ Ids(cs) \subseteq Ids(rs) /\ LineIds(cs) \subseteq LineIds(rs)
  BY <1>6, <1>7, <1>8, PartListed
<1> QED BY <1>3, <1>6, <1>7, <1>9 DEF cs

LEMMA SameEnd == ASSUME NEW m \in Nat, NEW n \in Nat, 1 .. m = 1 .. n PROVE m = n
<1>1. m = 0 \/ m \in 1 .. n
  <2>1. m = 0 \/ m \in 1 .. m
    BY SMT
  <2> QED BY <2>1
<1>2. n = 0 \/ n \in 1 .. m
  <2>1. n = 0 \/ n \in 1 .. n
    BY SMT
  <2> QED BY <2>1
<1>3. m <= n
  BY <1>1, SMT
<1>4. n <= m
  BY <1>2, SMT
<1> QED BY <1>3, <1>4, SMT

LEMMA Places ==
  ASSUME NEW m \in Nat, NEW n \in Nat
  PROVE  /\ \A i \in 1 .. m : i \in 1 .. m + n /\ i <= m
         /\ \A i \in 1 .. n : m + i \in 1 .. m + n /\ ~(m + i <= m) /\ (m + i) - m = i
         /\ \A i \in 1 .. m + n : i \in 1 .. m \/ (~(i <= m) /\ i - m \in 1 .. n /\ i = m + (i - m))
  BY SMT

LEMMA Joint ==
  ASSUME NEW as, NEW bs, Listed(as), Listed(bs), Ids(as) \cap Ids(bs) = {}
  PROVE  LET cs == as \o bs IN
         /\ Listed(cs) /\ Ids(cs) = Ids(as) \cup Ids(bs) /\ LineIds(cs) = LineIds(as) \cup LineIds(bs)
         /\ Len(cs) = Len(as) + Len(bs) /\ (\A i \in DOMAIN as : i \in DOMAIN cs /\ cs[i] = as[i])
         /\ \A i \in DOMAIN bs : \E j \in DOMAIN cs : cs[j] = bs[i]
<1> DEFINE cs == as \o bs
<1>1. /\ as \in Seq(Thread) /\ Distinct(as) /\ Len(as) \in Nat /\ DOMAIN as = 1 .. Len(as)
      /\ bs \in Seq(Thread) /\ Distinct(bs) /\ Len(bs) \in Nat /\ DOMAIN bs = 1 .. Len(bs)
  BY ListFacts
<1>2. /\ cs \in Seq(Thread) /\ Len(cs) = Len(as) + Len(bs)
      /\ \A i \in 1 .. Len(cs) : cs[i] = IF i <= Len(as) THEN as[i] ELSE bs[i - Len(as)]
  BY <1>1, ConcatProperties
<1> HIDE DEF cs
<1>3. DOMAIN cs = 1 .. Len(cs)
  BY <1>2, LenProperties
<1> DEFINE m == Len(as)
           n == Len(bs)
<1> HIDE DEF m, n
<1>20. m \in Nat /\ n \in Nat /\ DOMAIN as = 1 .. m /\ DOMAIN bs = 1 .. n /\ DOMAIN cs = 1 .. m + n
  BY <1>1, <1>2, <1>3 DEF m, n
<1>21. \A i \in 1 .. m + n : cs[i] = IF i <= m THEN as[i] ELSE bs[i - m]
  BY <1>2 DEF m, n
<1>4. \A i \in DOMAIN as : i \in DOMAIN cs /\ cs[i] = as[i]
  BY <1>20, <1>21, Places
<1>5. \A i \in DOMAIN bs : m + i \in DOMAIN cs /\ cs[m + i] = bs[i]
  <2> TAKE i \in DOMAIN bs
  <2>1. m + i \in 1 .. m + n /\ ~(m + i <= m) /\ (m + i) - m = i
    BY <1>20, Places
  <2>2. cs[m + i] = bs[(m + i) - m]
    BY <2>1, <1>21
  <2> QED BY <2>1, <2>2, <1>20
<1>6. \A i \in DOMAIN cs : \/ i \in DOMAIN as /\ cs[i] = as[i]
                           \/ \E j \in DOMAIN bs : i = m + j /\ cs[i] = bs[j]
  <2> TAKE i \in DOMAIN cs
  <2>1. CASE i \in 1 .. m
    BY <2>1, <1>4, <1>20
  <2>2. CASE ~(i <= m) /\ i - m \in 1 .. n /\ i = m + (i - m)
    <3>1. cs[i] = bs[i - m]
      BY <2>2, <1>20, <1>21
    <3> QED BY <3>1, <2>2, <1>20
  <2>3. i \in 1 .. m + n
    BY <1>20
  <2>4. \A k \in 1 .. m + n : k \in 1 .. m \/ (~(k <= m) /\ k - m \in 1 .. n /\ k = m + (k - m))
    BY <1>20, Places
  <2> QED BY <2>1, <2>2, <2>3, <2>4
<1>7. \A i, j \in DOMAIN cs : cs[i].id = cs[j].id => i = j
  <2> SUFFICES ASSUME NEW i \in DOMAIN cs, NEW j \in DOMAIN cs, cs[i].id = cs[j].id PROVE i = j
    OBVIOUS
  <2>1. \A k \in DOMAIN as : as[k].id \in Ids(as)
    BY DEF Ids
  <2>2. \A k \in DOMAIN bs : bs[k].id \in Ids(bs)
    BY DEF Ids
  <2>3. \A k \in DOMAIN as, l \in DOMAIN bs : as[k].id # bs[l].id
    BY <2>1, <2>2
  <2>4. CASE i \in DOMAIN as /\ cs[i] = as[i]
    <3>1. CASE j \in DOMAIN as /\ cs[j] = as[j]
      BY <2>4, <3>1, <1>1 DEF Distinct
    <3>2. CASE \E k \in DOMAIN bs : j = m + k /\ cs[j] = bs[k]
      BY <2>3, <2>4, <3>2
    <3> QED BY <3>1, <3>2, <1>6
  <2>5. CASE \E k \in DOMAIN bs : i = m + k /\ cs[i] = bs[k]
    <3>1. CASE j \in DOMAIN as /\ cs[j] = as[j]
      BY <2>3, <2>5, <3>1
    <3>2. CASE \E k \in DOMAIN bs : j = m + k /\ cs[j] = bs[k]
      BY <2>5, <3>2, <1>1, Zenon DEF Distinct
    <3> QED BY <3>1, <3>2, <1>6
  <2> QED BY <2>4, <2>5, <1>6
<1>8. \A i \in DOMAIN cs : IsInjective(cs[i].lines)
  <2>1. (\A i \in DOMAIN as : IsInjective(as[i].lines)) /\ \A i \in DOMAIN bs : IsInjective(bs[i].lines)
    BY ListFacts
  <2> QED BY <2>1, <1>6, Zenon
<1>9. Listed(cs)
  BY <1>2, <1>7, <1>8 DEF Listed
<1>10. Ids(cs) = Ids(as) \cup Ids(bs)
  <2>1. Ids(cs) \subseteq Ids(as) \cup Ids(bs)
    BY <1>6, Zenon DEF Ids
  <2>2. Ids(as) \subseteq Ids(cs)
    BY <1>4, Zenon DEF Ids
  <2>3. Ids(bs) \subseteq Ids(cs)
    BY <1>5, Zenon DEF Ids
  <2> QED BY <2>1, <2>2, <2>3
<1>11. LineIds(cs) = LineIds(as) \cup LineIds(bs)
  <2>1. LineIds(cs) \subseteq LineIds(as) \cup LineIds(bs)
    BY <1>6, Zenon DEF LineIds
  <2>2. LineIds(as) \subseteq LineIds(cs)
    BY <1>4, Zenon DEF LineIds
  <2>3. LineIds(bs) \subseteq LineIds(cs)
    BY <1>5, Zenon DEF LineIds
  <2> QED BY <2>1, <2>2, <2>3
<1>12. \A i \in DOMAIN bs : \E j \in DOMAIN cs : cs[j] = bs[i]
  BY <1>5
<1> QED BY <1>2, <1>4, <1>9, <1>10, <1>11, <1>12 DEF cs

LEMMA StampedLine ==
  ASSUME NEW q \in Seq(Nat), IsInjective(q), NEW k \in Nat, k \notin ToSet(q)
  PROVE  /\ Append(q, k) \in Seq(Nat) /\ IsInjective(Append(q, k)) /\ ToSet(Append(q, k)) = ToSet(q) \cup {k}
         /\ IsPrefix(q, Append(q, k))
<1> DEFINE p == Append(q, k)
           n == Len(q)
<1>1. n \in Nat /\ DOMAIN q = 1 .. n
  BY LenProperties
<1>2. p \in Seq(Nat) /\ Len(p) = n + 1 /\ (\A i \in 1 .. n : p[i] = q[i]) /\ p[n + 1] = k
  BY AppendProperties
<1>3. DOMAIN p = 1 .. n + 1
  BY <1>2, LenProperties
<1> HIDE DEF p, n
<1>4. 1 .. n + 1 = (1 .. n) \cup {n + 1} /\ n + 1 \notin 1 .. n /\ n <= n + 1
  BY <1>1, SMT
<1>5. \A i \in 1 .. n : p[i] # k
  BY <1>1, <1>2 DEF ToSet
<1>6. IsInjective(p)
  <2> SUFFICES ASSUME NEW i \in 1 .. n + 1, NEW j \in 1 .. n + 1, p[i] = p[j] PROVE i = j
    BY <1>3 DEF IsInjective
  <2>1. CASE i = n + 1 \/ j = n + 1
    BY <2>1, <1>2, <1>4, <1>5
  <2>2. CASE i \in 1 .. n /\ j \in 1 .. n
    BY <2>2, <1>1, <1>2 DEF IsInjective
  <2> QED BY <2>1, <2>2, <1>4
<1>7. ToSet(p) = ToSet(q) \cup {k}
  <2>1. ToSet(p) \subseteq ToSet(q) \cup {k}
    <3>1. \A i \in 1 .. n + 1 : p[i] \in ToSet(q) \cup {k}
      BY <1>1, <1>2, <1>4 DEF ToSet
    <3> QED BY <3>1, <1>3 DEF ToSet
  <2>2. ToSet(q) \subseteq ToSet(p)
    BY <1>1, <1>2, <1>3, <1>4 DEF ToSet
  <2>3. k \in ToSet(p)
    BY <1>2, <1>3, <1>4 DEF ToSet
  <2> QED BY <2>1, <2>2, <2>3
<1>8. IsPrefix(q, p)
  <2>1. SubSeq(q, 1, n) = q
    BY SubSeqFull DEF n
  <2>2. SubSeq(p, 1, n) = q
    <3>1. \A i \in 1 .. n : p[i] \in Nat
      BY <1>1, <1>2, ElementOfSeq
    <3>2. SubSeq(p, 1, n) \in Seq(Nat) /\ Len(SubSeq(p, 1, n)) = n /\ \A i \in 1 .. n : SubSeq(p, 1, n)[i] = p[i]
      BY <3>1, <1>1, SMT
    <3> QED BY <3>2, <1>2, SeqEqual DEF n
  <2> QED BY <2>1, <2>2, <1>2, <1>4 DEF IsPrefix, n
<1> QED BY <1>2, <1>6, <1>7, <1>8 DEF p

LEMMA OwnPrefix == ASSUME NEW Elem, NEW q \in Seq(Elem) PROVE IsPrefix(q, q)
  BY LenProperties, SMT DEF IsPrefix

\* A list after a change of one thread.
With(rs, r, t) == [rs EXCEPT ![At(rs, r)] = t]

LEMMA Patched ==
  ASSUME NEW rs, Listed(rs), NEW r \in Ids(rs), NEW t \in Thread, t.id = r, IsInjective(t.lines)
  PROVE  LET os == With(rs, r, t) IN
         /\ Listed(os) /\ Ids(os) = Ids(rs) /\ LineIds(os) \subseteq LineIds(rs) \cup ToSet(t.lines) /\ Len(os) = Len(rs)
         /\ \A s \in Ids(rs) : Copy(os, s) = IF s = r THEN t ELSE Copy(rs, s)
<1> DEFINE a == At(rs, r)
           os == With(rs, r, t)
<1>1. rs \in Seq(Thread) /\ Distinct(rs) /\ Len(rs) \in Nat /\ DOMAIN rs = 1 .. Len(rs) /\ \A i \in DOMAIN rs : IsInjective(rs[i].lines)
  BY ListFacts
<1>2. a \in DOMAIN rs /\ rs[a].id = r
  BY TheCopy
<1>0. os = [rs EXCEPT ![a] = t]
  BY DEF With
<1> HIDE DEF a, os
<1>3. DOMAIN os = DOMAIN rs /\ \A i \in DOMAIN rs : os[i] = IF i = a THEN t ELSE rs[i]
  BY <1>0, <1>2
<1>4. os \in Seq(Thread) /\ Len(os) = Len(rs)
  BY <1>0, <1>1, <1>2, ExceptSeq
<1>5. \A i \in DOMAIN rs : os[i].id = rs[i].id
  BY <1>2, <1>3
<1>6. Distinct(os)
  BY <1>1, <1>3, <1>5 DEF Distinct
<1>7. \A i \in DOMAIN os : IsInjective(os[i].lines)
  BY <1>1, <1>3
<1>8. Listed(os)
  BY <1>4, <1>6, <1>7 DEF Listed, Distinct
<1>9. Ids(os) = Ids(rs)
  BY <1>3, <1>5 DEF Ids
<1>10. LineIds(os) \subseteq LineIds(rs) \cup ToSet(t.lines)
  <2>1. \A i \in DOMAIN os : ToSet(os[i].lines) \subseteq LineIds(rs) \cup ToSet(t.lines)
    BY <1>3 DEF LineIds
  <2> QED BY <2>1 DEF LineIds
<1>11. ASSUME NEW s \in Ids(rs) PROVE Copy(os, s) = IF s = r THEN t ELSE Copy(rs, s)
  <2>1. At(rs, s) \in DOMAIN rs /\ rs[At(rs, s)].id = s /\ Copy(rs, s) = rs[At(rs, s)]
    BY TheCopy
  <2>2. At(os, s) = At(rs, s) /\ Copy(os, s) = os[At(os, s)]
    BY <2>1, <1>3, <1>5, <1>6, <1>9, TheCopy
  <2>3. s = r <=> At(rs, s) = a
    BY <2>1, <1>2 DEF a
  <2> QED BY <2>1, <2>2, <2>3, <1>3
<1> QED BY <1>4, <1>8, <1>9, <1>10, <1>11 DEF os, a

\* The marks of interrupted runs have ids of their own.
LEMMA Marked ==
  ASSUME NEW rs, Listed(rs), NEW n \in Nat, \A k \in LineIds(rs) : k < n
  PROVE  LET os == Interrupted(rs, n) IN
         /\ Listed(os) /\ Ids(os) = Ids(rs) /\ \A k \in LineIds(os) : k < n + Len(rs)
         /\ Len(os) = Len(rs)
         /\ \A r \in Ids(rs) : IsPrefix(Copy(rs, r).lines, Copy(os, r).lines)
<1> DEFINE os == Interrupted(rs, n)
           No(i) == n + Cardinality({j \in 1 .. i - 1 : rs[j].status = "running"})
<1>1. /\ rs \in Seq(Thread) /\ Distinct(rs) /\ Len(rs) \in Nat /\ DOMAIN rs = 1 .. Len(rs)
      /\ \A i \in DOMAIN rs : rs[i] \in Thread /\ rs[i].lines \in Seq(Nat) /\ IsInjective(rs[i].lines)
      /\ LineIds(rs) \subseteq Nat
  BY ListFacts
<1>2. ASSUME NEW i \in DOMAIN rs PROVE No(i) \in Nat /\ n <= No(i) /\ No(i) < n + Len(rs)
  <2> DEFINE S == {j \in 1 .. i - 1 : rs[j].status = "running"}
  <2>1. i \in Nat /\ 1 <= i /\ i <= Len(rs)
    BY <1>1, SMT
  <2>2. IsFiniteSet(1 .. i - 1) /\ Cardinality(1 .. i - 1) = i - 1
    <3>1. i - 1 \in Int /\ 1 \in Int
      BY <2>1, SMT
    <3>2. IsFiniteSet(1 .. i - 1) /\ Cardinality(1 .. i - 1) = IF 1 > i - 1 THEN 0 ELSE (i - 1) - 1 + 1
      BY <3>1, FS_Interval, Zenon
    <3>3. (IF 1 > i - 1 THEN 0 ELSE (i - 1) - 1 + 1) = i - 1
      BY <2>1, SMT
    <3>4. IsFiniteSet(1 .. i - 1)
      BY <3>2
    <3>5. Cardinality(1 .. i - 1) = i - 1
      BY <3>2, <3>3
    <3> QED BY <3>4, <3>5
  <2>3. S \in SUBSET (1 .. i - 1)
    OBVIOUS
  <2>4. IsFiniteSet(S) /\ Cardinality(S) <= i - 1
    <3> HIDE DEF S
    <3> QED BY <2>2, <2>3, FS_Subset
  <2>5. Cardinality(S) \in Nat
    <3> HIDE DEF S
    <3> QED BY <2>4, FS_CardinalityType
  <2>6. No(i) = n + Cardinality(S)
    OBVIOUS
  <2> HIDE DEF No, S
  <2> QED BY <2>1, <2>4, <2>5, <2>6, <1>1, SMT
<1> HIDE DEF No
<1>3. DOMAIN os = DOMAIN rs /\ \A i \in DOMAIN rs :
        os[i] = IF rs[i].status # "running" THEN rs[i] ELSE [rs[i] EXCEPT !.status = "error", !.lines = Append(@, No(i))]
  BY DEF Interrupted, No
<1> HIDE DEF os
<1>4. ASSUME NEW i \in DOMAIN rs
      PROVE  /\ os[i] \in Thread /\ os[i].id = rs[i].id /\ IsInjective(os[i].lines) /\ IsPrefix(rs[i].lines, os[i].lines)
             /\ \A k \in ToSet(os[i].lines) : k < n + Len(rs)
  <2>1. rs[i] \in Thread /\ rs[i].lines \in Seq(Nat) /\ IsInjective(rs[i].lines)
    BY <1>1
  <2>2. \A k \in ToSet(rs[i].lines) : k \in Nat /\ k < n
    BY <1>1 DEF LineIds
  <2>3. CASE rs[i].status # "running"
    <3>1. os[i] = rs[i]
      BY <2>3, <1>3
    <3>2. IsPrefix(rs[i].lines, rs[i].lines)
      BY <2>1, OwnPrefix
    <3>3. \A k \in ToSet(rs[i].lines) : k < n + Len(rs)
      BY <2>2, <1>1, SMT
    <3> QED BY <3>1, <3>2, <3>3, <2>1
  <2>4. CASE rs[i].status = "running"
    <3>1. os[i] = [rs[i] EXCEPT !.status = "error", !.lines = Append(rs[i].lines, No(i))]
      BY <2>4, <1>3
    <3>2. No(i) \in Nat /\ n <= No(i) /\ No(i) < n + Len(rs)
      BY <1>2
    <3>3. No(i) \notin ToSet(rs[i].lines)
      BY <3>2, <2>2, SMT
    <3>4. /\ Append(rs[i].lines, No(i)) \in Seq(Nat) /\ IsInjective(Append(rs[i].lines, No(i)))
          /\ ToSet(Append(rs[i].lines, No(i))) = ToSet(rs[i].lines) \cup {No(i)}
          /\ IsPrefix(rs[i].lines, Append(rs[i].lines, No(i)))
      BY <3>2, <3>3, <2>1, StampedLine
    <3>5. os[i].lines = Append(rs[i].lines, No(i)) /\ os[i].id = rs[i].id
      BY <3>1, <2>1 DEF Thread
    <3>6. os[i] \in Thread
      BY <3>1, <3>4, <2>1 DEF Thread, Status
    <3>7. \A k \in ToSet(os[i].lines) : k < n + Len(rs)
      BY <3>2, <3>4, <3>5, <2>2, <1>1, SMT
    <3> QED BY <3>4, <3>5, <3>6, <3>7
  <2> QED BY <2>3, <2>4
<1>5. os \in Seq(Thread) /\ Len(os) = Len(rs)
  <2>1. os = [i \in 1 .. Len(rs) |-> os[i]]
    BY <1>1, <1>3 DEF os, Interrupted
  <2>2. \A i \in 1 .. Len(rs) : os[i] \in Thread
    BY <1>1, <1>4
  <2>3. os \in Seq(Thread)
    BY <2>1, <2>2, <1>1, IsASeq
  <2>4. Len(os) \in Nat /\ DOMAIN os = 1 .. Len(os)
    BY <2>3, LenProperties
  <2>5. 1 .. Len(os) = 1 .. Len(rs)
    BY <2>4, <1>1, <1>3
  <2>6. Len(os) = Len(rs)
    BY <2>4, <2>5, <1>1, SameEnd
  <2> QED BY <2>3, <2>6
<1>6. Distinct(os)
  BY <1>1, <1>3, <1>4 DEF Distinct
<1>7. Listed(os)
  BY <1>3, <1>4, <1>5, <1>6 DEF Listed, Distinct
<1>8. Ids(os) = Ids(rs)
  <2>1. Ids(os) \subseteq Ids(rs)
    BY <1>3, <1>4, Zenon DEF Ids
  <2>2. Ids(rs) \subseteq Ids(os)
    BY <1>3, <1>4, Zenon DEF Ids
  <2> QED BY <2>1, <2>2
<1>9. ASSUME NEW k \in LineIds(os) PROVE k < n + Len(rs)
  <2>1. PICK i \in DOMAIN os : k \in ToSet(os[i].lines)
    BY Zenon DEF LineIds
  <2> QED BY <2>1, <1>3, <1>4, Zenon
<1>10. ASSUME NEW r \in Ids(rs) PROVE IsPrefix(Copy(rs, r).lines, Copy(os, r).lines)
  <2>1. At(rs, r) \in DOMAIN rs /\ rs[At(rs, r)].id = r /\ Copy(rs, r) = rs[At(rs, r)]
    BY TheCopy
  <2>2. At(os, r) = At(rs, r) /\ Copy(os, r) = os[At(os, r)]
    BY <2>1, <1>3, <1>4, <1>6, <1>8, TheCopy
  <2> QED BY <2>1, <2>2, <1>4
<1> QED BY <1>5, <1>7, <1>8, <1>9, <1>10 DEF os

LEMMA LinesFinite == ASSUME NEW rs, Listed(rs) PROVE IsFiniteSet(LineIds(rs)) /\ LineIds(rs) \subseteq Nat
<1>1. Len(rs) \in Nat /\ DOMAIN rs = 1 .. Len(rs) /\ LineIds(rs) \subseteq Nat /\ \A i \in DOMAIN rs : rs[i].lines \in Seq(Nat)
  BY ListFacts
<1> DEFINE q == [i \in 1 .. Len(rs) |-> ToSet(rs[i].lines)]
           S == {q[i] : i \in DOMAIN q}
<1>2. q \in Seq({ToSet(rs[i].lines) : i \in 1 .. Len(rs)})
  BY <1>1, IsASeq
<1>3. IsFiniteSet(S)
  <2> HIDE DEF q
  <2> QED BY <1>2, RangeFinite
<1>4. ASSUME NEW x \in Seq(Nat) PROVE IsFiniteSet(ToSet(x))
  BY <1>4, RangeFinite DEF ToSet
<1>5. \A Q \in S : IsFiniteSet(Q)
  BY <1>1, <1>4
<1>6. LineIds(rs) = UNION S
  BY <1>1 DEF LineIds
<1> HIDE DEF S
<1>7. IsFiniteSet(UNION S)
  BY <1>3, <1>5, FS_UNION
<1> QED BY <1>1, <1>6, <1>7

\* The next number after finitely many.
LEMMA Beyond ==
  ASSUME NEW S \in SUBSET Nat, IsFiniteSet(S), NEW base \in Nat
  PROVE  LET m == Max({base} \cup {n + 1 : n \in S}) IN m \in Nat /\ base <= m /\ \A n \in S : n < m
<1> DEFINE U == {base} \cup {n + 1 : n \in S}
<1>1. U \in SUBSET Nat /\ U # {} /\ base \in U /\ \A n \in S : n + 1 \in U
  <2>1. \A n \in S : n + 1 \in Nat
    BY SMT
  <2> QED BY <2>1
<1>2. PICK b \in Nat : \A n \in S : n <= b
  BY Bounded
<1>3. base + b + 1 \in Nat /\ \A u \in U : u <= base + b + 1
  <2>1. base + b + 1 \in Nat /\ base <= base + b + 1
    BY <1>2, SMT
  <2>2. ASSUME NEW n \in S PROVE n + 1 <= base + b + 1
    <3>1. n \in Nat /\ n <= b /\ b \in Nat
      BY <1>2
    <3> QED BY <3>1, SMT
  <2> QED BY <2>1, <2>2
<1> HIDE DEF U
<1>4. IsFiniteSet(U)
  BY <1>1, <1>3, FS_BoundedSetOfNaturals
<1>5. Max(U) \in U /\ \A u \in U : u <= Max(U)
  BY <1>1, <1>4, MaxOf
<1>6. Max(U) \in Nat /\ base <= Max(U)
  BY <1>1, <1>5
<1>7. ASSUME NEW n \in S PROVE n < Max(U)
  <2>1. n \in Nat /\ n + 1 <= Max(U)
    BY <1>1, <1>5
  <2> QED BY <2>1, <1>6, SMT
<1> QED BY <1>6, <1>7 DEF U

LEMMA Reseeded ==
  ASSUME NEW rs, Listed(rs), nextId \in Nat
  PROVE  reseedTraceIds(rs) \in Nat /\ \A n \in LineIds(rs) : n < reseedTraceIds(rs)
<1>1. IsFiniteSet(LineIds(rs)) /\ LineIds(rs) \in SUBSET Nat
  BY LinesFinite
<1> QED BY <1>1, Beyond DEF reseedTraceIds

\* A line stamped elsewhere is past those of its folder.
LEMMA PastAll ==
  ASSUME NEW rs, Listed(rs)
  PROVE  LET m == Max({0} \cup LineIds(rs)) + 1 IN m \in Nat /\ m \notin LineIds(rs)
<1> DEFINE U == {0} \cup LineIds(rs)
<1>1. IsFiniteSet(LineIds(rs)) /\ LineIds(rs) \in SUBSET Nat
  BY LinesFinite
<1>2. IsFiniteSet({0}) /\ IsFiniteSet(U)
  BY <1>1, FS_Singleton, FS_Union
<1>3. U \in SUBSET Nat /\ U # {} /\ LineIds(rs) \subseteq U
  BY <1>1
<1> HIDE DEF U
<1>4. Max(U) \in U /\ \A u \in U : u <= Max(U)
  BY <1>2, <1>3, MaxOf
<1>5. Max(U) \in Nat
  BY <1>3, <1>4
<1>6. Max(U) + 1 \in Nat /\ Max(U) + 1 \notin U
  <2>1. Max(U) + 1 \in Nat /\ ~(Max(U) + 1 <= Max(U))
    BY <1>5, SMT
  <2> QED BY <2>1, <1>4
<1> QED BY <1>3, <1>6 DEF U

\* What a folder's file holds is what it held or one of the writes to it.
LEMMA AfterIs ==
  ASSUME NEW ws \in Seq(Write), NEW k \in 0 .. Len(ws), NEW F \in Folder
  PROVE  \/ After(ws, k, F) = disk[F]
         \/ \E i \in DOMAIN ws : ws[i].folder = F /\ After(ws, k, F) = ws[i].runs
<1> DEFINE of == {i \in 1 .. k : ws[i].folder = F}
<1>1. CASE of = {}
  BY <1>1 DEF After
<1>2. CASE of # {}
  <2>1. Len(ws) \in Nat /\ DOMAIN ws = 1 .. Len(ws) /\ k \in Nat /\ k <= Len(ws)
    BY LenProperties, SMT
  <2>2. of \in SUBSET Nat /\ \A i \in of : i <= k
    BY <2>1, SMT
  <2>3. \A i \in of : i \in DOMAIN ws /\ ws[i].folder = F
    BY <2>1, SMT
  <2>4. After(ws, k, F) = ws[Max(of)].runs
    BY <1>2 DEF After
  <2> HIDE DEF of
  <2>5. IsFiniteSet(of)
    BY <2>1, <2>2, FS_BoundedSetOfNaturals
  <2>6. Max(of) \in of
    BY <1>2, <2>2, <2>5, MaxOf
  <2> QED BY <2>3, <2>4, <2>6
<1> QED BY <1>1, <1>2

-----------------------------------------------------------------------------
(* Hydration. *)

\* No thread that a turn of this session drove is left out.
LEMMA RescuedKeeps ==
  ASSUME NEW read, Listed(runs)
  PROVE  LET kept == Rescued(read) IN
         /\ Listed(kept) /\ Ids(kept) \subseteq Ids(runs)
         /\ \A r \in driven \cap Ids(runs) : r \in Ids(kept) /\ Copy(kept, r) = Copy(runs, r)
<1>1. PICK some : /\ Rescued(read) = Only(runs, some)
                  /\ \A r \in driven \cap Ids(runs) : r \in some
  <2> DEFINE newest == Max({0} \cup {read[i].created : i \in DOMAIN read})
             Stays(c) ==
               \/ running /\ c.status = "running"
               \/ c.id \in driven
               \/ c.id \in Ids(read) /\ c.last > Copy(read, c.id).last
               \/ c.id \notin Ids(read) /\ c.created > newest
             some == {c.id : c \in {d \in ToSet(runs) : Stays(d)}}
  <2>1. Rescued(read) = Only(runs, some)
    BY DEF Rescued
  <2>2. ASSUME NEW r \in driven \cap Ids(runs) PROVE r \in some
    <3>1. At(runs, r) \in DOMAIN runs /\ runs[At(runs, r)].id = r
      BY TheCopy
    <3>2. runs[At(runs, r)] \in ToSet(runs) /\ Stays(runs[At(runs, r)])
      BY <3>1 DEF ToSet
    <3> HIDE DEF Stays
    <3> QED BY <3>1, <3>2
  <2> HIDE DEF some
  <2> QED BY <2>1, <2>2
<1>2. /\ Listed(Only(runs, some)) /\ Ids(Only(runs, some)) = Ids(runs) \cap some
      /\ \A r \in Ids(runs) \cap some : Copy(Only(runs, some), r) = Copy(runs, r)
  BY OnlyListed
<1> QED BY <1>1, <1>2

LEMMA Merged ==
  ASSUME NEW read, Listed(read), NEW mode, Listed(runs)
  PROVE  LET merged == hydrateRuns(read, mode) IN
         /\ Listed(merged) /\ Ids(merged) \subseteq Ids(runs) \cup Ids(read)
         /\ mode = "replace" => Ids(merged) \subseteq Ids(read)
         /\ mode # "replace" => \A r \in driven \cap Ids(runs) :
              \/ r \in Ids(merged) /\ Copy(merged, r) = Copy(runs, r)
              \/ Len(merged) = MaxRuns /\ r \notin Ids(merged)
<1> DEFINE kept == IF mode = "replace" THEN <<>> ELSE Rescued(read)
           rest == Only(read, RunId \ Ids(kept))
           merged == capRuns(kept \o rest)
<1>1. /\ Listed(kept) /\ Ids(kept) \subseteq Ids(runs) /\ (mode = "replace" => Ids(kept) = {})
      /\ mode # "replace" => \A r \in driven \cap Ids(runs) : r \in Ids(kept) /\ Copy(kept, r) = Copy(runs, r)
  BY RescuedKeeps, EmptyList
<1> HIDE DEF kept
<1>2. Listed(rest) /\ Ids(rest) = Ids(read) \cap (RunId \ Ids(kept))
  BY OnlyListed
<1> HIDE DEF rest
<1>3. Ids(kept) \cap Ids(rest) = {}
  BY <1>2
<1>4. /\ Listed(kept \o rest) /\ Ids(kept \o rest) = Ids(kept) \cup Ids(rest)
      /\ \A i \in DOMAIN kept : i \in DOMAIN (kept \o rest) /\ (kept \o rest)[i] = kept[i]
  BY <1>1, <1>2, <1>3, Joint
<1> DEFINE all == kept \o rest
<1> HIDE DEF all
<1>5. /\ Listed(all) /\ Ids(all) = Ids(kept) \cup Ids(rest)
      /\ \A i \in DOMAIN kept : i \in DOMAIN all /\ all[i] = kept[i]
  BY <1>4 DEF all
<1> DEFINE cs == capRuns(all)
<1>6. /\ Listed(cs) /\ Ids(cs) \subseteq Ids(all)
      /\ Len(cs) = (IF Len(all) <= MaxRuns THEN Len(all) ELSE MaxRuns) /\ DOMAIN cs = 1 .. Len(cs)
      /\ \A i \in DOMAIN cs : i \in DOMAIN all /\ cs[i] = all[i]
  BY <1>5, Capped
<1> HIDE DEF cs
<1>7. hydrateRuns(read, mode) = cs
  BY DEF hydrateRuns, kept, rest, all, cs
<1>8. ASSUME mode # "replace", NEW r \in driven \cap Ids(runs)
      PROVE  \/ r \in Ids(cs) /\ Copy(cs, r) = Copy(runs, r)
             \/ Len(cs) = MaxRuns /\ r \notin Ids(cs)
  <2> DEFINE i == At(kept, r)
  <2>1. r \in Ids(kept) /\ Copy(kept, r) = Copy(runs, r)
    BY <1>1, <1>8
  <2>2. i \in DOMAIN kept /\ kept[i].id = r /\ Copy(kept, r) = kept[i]
    BY <2>1, TheCopy
  <2>3. i \in DOMAIN all /\ all[i] = kept[i] /\ DOMAIN all = 1 .. Len(all) /\ Len(all) \in Nat /\ Distinct(all) /\ Distinct(cs)
    BY <2>2, <1>5, <1>6, ListFacts
  <2> HIDE DEF i
  <2>4. CASE i \in DOMAIN cs
    <3>1. cs[i] = all[i]
      BY <2>4, <1>6
    <3>2. r \in Ids(cs)
      BY <3>1, <2>2, <2>3, <2>4 DEF Ids
    <3>3. At(cs, r) = i /\ Copy(cs, r) = cs[At(cs, r)]
      BY <3>1, <3>2, <2>2, <2>3, <2>4, TheCopy
    <3> QED BY <3>1, <3>2, <3>3, <2>1, <2>2, <2>3
  <2>5. CASE i \notin DOMAIN cs
    <3>1. Len(cs) # Len(all)
      BY <2>3, <2>5, <1>6
    <3>2. Len(cs) = MaxRuns
      BY <3>1, <1>6
    <3>3. \A j \in DOMAIN cs : j \in DOMAIN all /\ j # i /\ cs[j].id = all[j].id
      BY <2>5, <1>6
    <3>4. r \notin Ids(cs)
      BY <3>3, <2>2, <2>3 DEF Ids, Distinct
    <3> QED BY <3>2, <3>4
  <2> QED BY <2>4, <2>5
<1> QED BY <1>1, <1>2, <1>5, <1>6, <1>7, <1>8

-----------------------------------------------------------------------------
(* Steps that change what is in memory only to less or newer. *)

LEMMA NoIds == ASSUME NEW rs \in Seq(Thread), Ids(rs) = {} PROVE rs = <<>>
<1>1. Len(rs) \in Nat /\ DOMAIN rs = 1 .. Len(rs)
  BY LenProperties
<1>2. \A i \in DOMAIN rs : FALSE
  BY DEF Ids
<1>3. Len(rs) = 0
  <2>1. Len(rs) = 0 \/ 1 \in 1 .. Len(rs)
    BY <1>1, SMT
  <2> QED BY <1>1, <1>2, <2>1
<1> QED BY <1>3, EmptySeq, SMT

\* A store with one transaction more in flight.
LEMMA PutOne ==
  ASSUME NEW ps \in Seq(Seq(Thread)), \A i \in DOMAIN ps : Listed(ps[i]), NEW x, Listed(x), NEW qs, qs = Append(ps, x)
  PROVE  /\ qs \in Seq(Seq(Thread)) /\ qs # <<>> /\ qs[Len(qs)] = x
         /\ \A i \in DOMAIN qs : Listed(qs[i]) /\ (qs[i] = x \/ \E j \in DOMAIN ps : qs[i] = ps[j])
<1>1. x \in Seq(Thread)
  BY DEF Listed
<1>2. /\ qs \in Seq(Seq(Thread)) /\ qs # <<>> /\ Len(qs) = Len(ps) + 1
      /\ (\A i \in 1 .. Len(ps) : qs[i] = ps[i]) /\ qs[Len(ps) + 1] = x
  BY <1>1, AppendProperties
<1>3. Len(ps) \in Nat /\ DOMAIN ps = 1 .. Len(ps) /\ DOMAIN qs = 1 .. Len(qs)
  BY <1>2, LenProperties
<1>4. \A i \in DOMAIN qs : i = Len(ps) + 1 \/ i \in DOMAIN ps
  BY <1>2, <1>3, SMT
<1>5. \A i \in DOMAIN qs : qs[i] = x \/ \E j \in DOMAIN ps : qs[i] = ps[j]
  BY <1>2, <1>3, <1>4
<1>6. \A i \in DOMAIN qs : Listed(qs[i])
  BY <1>5
<1>7. qs[Len(qs)] = x
  BY <1>2
<1> QED BY <1>2, <1>5, <1>6, <1>7

Calm == UNCHANGED <<idb, disk, writes, mount, mounting, persisted, swapping, joined, forgotten, wiping, open>>

LEMMA Rewrites ==
  ASSUME HInv, open, Calm, Listed(runs'), Ids(runs') \subseteq Ids(runs), \A n \in LineIds(runs') : n < nextId',
         nextId' \in Nat, clock' \in Nat, turn' \in [run : RunId \cup {None}, held : BOOLEAN], starting' \in RunId \cup {None},
         driven' \subseteq RunId, turn'.held => turn'.run \in Ids(runs'), UNCHANGED puts \/ saveRuns(runs')
  PROVE  HInv'
<1> DEFINE x == capRuns(runs')
<1>1. Listed(x) /\ Ids(x) \subseteq Ids(runs')
  BY Capped
<1> HIDE DEF x
<1>2. Typed /\ Stamped /\ Idle /\ Aimed /\ Housed /\ Away
  BY DEF HInv
<1>3. /\ puts' \in Seq(Seq(Thread))
      /\ \A i \in DOMAIN puts' : Listed(puts'[i]) /\ (puts'[i] = x \/ \E j \in DOMAIN puts : puts'[i] = puts[j])
      /\ LastStored' = x \/ LastStored' = LastStored
  <2>1. puts \in Seq(Seq(Thread)) /\ \A i \in DOMAIN puts : Listed(puts[i])
    BY <1>2 DEF Typed
  <2>2. CASE UNCHANGED puts
    BY <2>1, <2>2 DEF LastStored, Calm
  <2>3. CASE saveRuns(runs')
    <3>1. puts' = Append(puts, x)
      BY <2>3 DEF saveRuns, x
    <3>2. /\ puts' \in Seq(Seq(Thread)) /\ puts' # <<>> /\ puts'[Len(puts')] = x
          /\ \A i \in DOMAIN puts' : Listed(puts'[i]) /\ (puts'[i] = x \/ \E j \in DOMAIN puts : puts'[i] = puts[j])
      BY <2>1, <3>1, <1>1, PutOne
    <3> QED BY <3>2 DEF LastStored
  <2> QED BY <2>2, <2>3
<1>4. Typed'
  BY <1>2, <1>3 DEF Typed, Calm
<1>5. Stamped'
  BY DEF Stamped
<1>6. Idle'
  BY DEF Idle, Calm
<1>7. Aimed'
  <2>1. ASSUME runs = <<>> PROVE runs' = <<>>
    <3>1. Ids(runs') = {}
      BY <2>1, EmptyList
    <3> QED BY <3>1, NoIds DEF Listed
  <2> QED BY <1>2, <2>1 DEF Aimed, Calm
<1>8. Housed'
  <2>1. \A F : Belong(runs, F, joined) => Belong(runs', F, joined) /\ Belong(x, F, joined)
    BY <1>1 DEF Belong
  <2>2. \A F : Belong(runs, F, joined) /\ Belong(LastStored, F, joined) => Belong(LastStored', F, joined)
    BY <1>3, <2>1
  <2> QED BY <1>2, <2>1, <2>2 DEF Housed, Calm
<1>9. Away'
  <2>1. Gone(runs', forgotten) /\ Gone(x, forgotten)
    BY <1>1, <1>2 DEF Away, Gone
  <2> QED BY <1>2, <1>3, <2>1 DEF Away, Calm
<1> QED BY <1>4, <1>5, <1>6, <1>7, <1>8, <1>9 DEF HInv

\* What DrivenKept asks of a step.
Carried(r) ==
    \/ r \in Ids(runs') /\ IsPrefix(Copy(runs, r).lines, Copy(runs', r).lines)
    \/ Len(runs') = MaxRuns /\ r \notin Ids(runs')

Keeps == \A r \in driven \cap Ids(runs) : Carried(r) \/ deleteRun(r) \/ ~open' \/ wiping' = "snapshot" \/ SwapFlushed

LEMMA SameKept == ASSUME Listed(runs), runs' = runs PROVE Keeps
<1>1. ASSUME NEW r \in Ids(runs) PROVE IsPrefix(Copy(runs, r).lines, Copy(runs, r).lines)
  <2>1. Copy(runs, r).lines \in Seq(Nat)
    BY TheCopy, ListFacts
  <2> QED BY <2>1, OwnPrefix
<1> QED BY <1>1 DEF Keeps, Carried

LEMMA QuietStep ==
  ASSUME HInv, RunsTimer \/ Announced \/ StartTurn \/ FlushTurn \/ FileChanged \/ SaveTimer
  PROVE  HInv' /\ Keeps
<1>1. Typed /\ Stamped
  BY DEF HInv
<1>2. open /\ Calm /\ UNCHANGED <<runs, nextId, clock>> /\ (UNCHANGED puts \/ saveRuns(runs'))
  <2>1. CASE RunsTimer
    BY <2>1 DEF RunsTimer, Calm, session, files
  <2>2. CASE Announced
    BY <2>2 DEF Announced, Calm, stores, session, files
  <2>3. CASE StartTurn
    BY <2>3 DEF StartTurn, Calm, stores, session, files
  <2>4. CASE FlushTurn
    BY <2>4 DEF FlushTurn, Calm, session
  <2>5. CASE FileChanged
    BY <2>5 DEF FileChanged, Calm, memory, stores, session
  <2>6. CASE SaveTimer
    BY <2>6 DEF SaveTimer, Calm, memory, stores, session
  <2> QED BY <2>1, <2>2, <2>3, <2>4, <2>5, <2>6
<1>3. /\ turn' \in [run : RunId \cup {None}, held : BOOLEAN] /\ starting' \in RunId \cup {None} /\ driven' \subseteq RunId
      /\ turn'.held => turn'.run \in Ids(runs')
  <2>1. CASE StartTurn
    <3>1. starting \in RunId
      BY <2>1, <1>1 DEF StartTurn, Typed
    <3>2. turn' = [run |-> starting, held |-> starting \in Ids(runs)] /\ driven' = driven \cup {starting} /\ starting' = None
      BY <2>1 DEF StartTurn
    <3>3. turn'.run = starting /\ turn'.held = (starting \in Ids(runs))
      BY <3>2
    <3>4. turn' \in [run : RunId \cup {None}, held : BOOLEAN]
      BY <3>1, <3>2
    <3>5. starting' \in RunId \cup {None} /\ driven' \subseteq RunId
      BY <3>1, <3>2, <1>1 DEF Typed
    <3> QED BY <3>3, <3>4, <3>5, <1>2
  <2>2. CASE UNCHANGED <<turn, starting, driven>>
    BY <2>2, <1>1, <1>2 DEF Typed, Stamped
  <2> QED BY <2>1, <2>2 DEF RunsTimer, Announced, FlushTurn, FileChanged, SaveTimer, memory
<1>4. Listed(runs') /\ Ids(runs') \subseteq Ids(runs) /\ \A n \in LineIds(runs') : n < nextId'
  BY <1>1, <1>2 DEF Typed, Stamped
<1>5. nextId' \in Nat /\ clock' \in Nat
  BY <1>1, <1>2 DEF Typed
<1>6. HInv'
  BY <1>2, <1>3, <1>4, <1>5, Rewrites
<1>7. Keeps
  BY <1>1, <1>2, SameKept DEF Typed
<1> QED BY <1>6, <1>7

\* One thread of the memory gets a line or another status or title.
LEMMA PatchStep ==
  ASSUME HInv, open, Calm, NEW r \in Ids(runs), NEW t \in Thread, t.id = r, IsInjective(t.lines),
         IsPrefix(Copy(runs, r).lines, t.lines), runs' = With(runs, r, t),
         nextId' \in Nat, nextId <= nextId', \A n \in ToSet(t.lines) : n < nextId',
         clock' \in Nat, turn' \in [run : RunId \cup {None}, held : BOOLEAN], turn'.held => turn'.run \in Ids(runs),
         starting' \in RunId \cup {None}, driven' \subseteq RunId, UNCHANGED puts \/ saveRuns(runs')
  PROVE  HInv' /\ Keeps
<1>1. Typed /\ Stamped
  BY DEF HInv
<1>2. Listed(runs) /\ nextId \in Nat /\ LineIds(runs) \subseteq Nat /\ \A n \in LineIds(runs) : n < nextId
  BY <1>1, ListFacts DEF Typed, Stamped
<1>3. /\ Listed(runs') /\ Ids(runs') = Ids(runs) /\ LineIds(runs') \subseteq LineIds(runs) \cup ToSet(t.lines)
      /\ \A s \in Ids(runs) : Copy(runs', s) = IF s = r THEN t ELSE Copy(runs, s)
  BY <1>2, Patched
<1>4. \A n \in LineIds(runs') : n < nextId'
  <2>1. ASSUME NEW n \in LineIds(runs) PROVE n < nextId'
    BY <1>2, SMT
  <2> QED BY <2>1, <1>3
<1>5. HInv'
  BY <1>3, <1>4, Rewrites
<1>6. Keeps
  <2>1. ASSUME NEW s \in Ids(runs) PROVE IsPrefix(Copy(runs, s).lines, Copy(runs, s).lines)
    <3>1. Copy(runs, s).lines \in Seq(Nat)
      BY <1>2, TheCopy, ListFacts
    <3> QED BY <3>1, OwnPrefix
  <2> QED BY <2>1, <1>3 DEF Keeps, Carried
<1> QED BY <1>5, <1>6

\* The copy in memory with its status or title changed.
LEMMA Relabeled ==
  ASSUME Listed(runs), \A n \in LineIds(runs) : n < nextId, nextId \in Nat, NEW r \in Ids(runs), NEW t,
         \/ \E s \in Status : t = [Copy(runs, r) EXCEPT !.status = s]
         \/ \E n \in {"short", "own"} : t = [Copy(runs, r) EXCEPT !.title = n]
  PROVE  /\ t \in Thread /\ t.id = r /\ IsInjective(t.lines) /\ IsPrefix(Copy(runs, r).lines, t.lines)
         /\ \A n \in ToSet(t.lines) : n < nextId
<1> DEFINE c == Copy(runs, r)
<1>1. c \in Thread /\ c.id = r /\ c.lines \in Seq(Nat) /\ IsInjective(c.lines) /\ ToSet(c.lines) \subseteq LineIds(runs)
  BY TheCopy, ListFacts DEF LineIds
<1> HIDE DEF c
<1>2. t \in Thread /\ t.id = c.id /\ t.lines = c.lines
  <2>1. CASE \E s \in Status : t = [c EXCEPT !.status = s]
    BY <2>1, <1>1 DEF Thread
  <2>2. CASE \E n \in {"short", "own"} : t = [c EXCEPT !.title = n]
    BY <2>2, <1>1 DEF Thread
  <2> QED BY <2>1, <2>2 DEF c
<1>3. IsPrefix(c.lines, c.lines)
  BY <1>1, OwnPrefix
<1> QED BY <1>1, <1>2, <1>3 DEF c

\* The copy in memory with a line more.
LEMMA OneLine ==
  ASSUME Listed(runs), \A n \in LineIds(runs) : n < nextId, nextId \in Nat, clock \in Nat, NEW r \in Ids(runs), NEW s \in Status
  PROVE  \E t \in Thread :
           /\ Touched(runs, r, s) = With(runs, r, t)
           /\ t.id = r /\ IsInjective(t.lines) /\ IsPrefix(Copy(runs, r).lines, t.lines) /\ \A n \in ToSet(t.lines) : n < nextId + 1
<1> DEFINE c == Copy(runs, r)
           q == Append(c.lines, nextId)
           t == [c EXCEPT !.lines = q, !.last = clock + 1, !.status = s]
<1>1. c \in Thread /\ c.id = r /\ c.lines \in Seq(Nat) /\ IsInjective(c.lines) /\ ToSet(c.lines) \subseteq LineIds(runs)
  BY TheCopy, ListFacts DEF LineIds
<1>2. nextId \notin ToSet(c.lines) /\ \A n \in ToSet(c.lines) : n < nextId + 1
  <2>1. LineIds(runs) \subseteq Nat
    BY ListFacts
  <2>2. \A n \in LineIds(runs) : n # nextId /\ n < nextId + 1
    BY <2>1, SMT
  <2> QED BY <2>2, <1>1
<1>3. Touched(runs, r, s) = With(runs, r, t)
  BY DEF Touched, With
<1> HIDE DEF c
<1>4. q \in Seq(Nat) /\ IsInjective(q) /\ ToSet(q) = ToSet(c.lines) \cup {nextId} /\ IsPrefix(c.lines, q)
  BY <1>1, <1>2, StampedLine
<1>5. clock + 1 \in Nat /\ nextId < nextId + 1
  BY SMT
<1> HIDE DEF q
<1>6. t \in Thread /\ t.id = r /\ t.lines = q
  BY <1>1, <1>4, <1>5 DEF Thread
<1>7. \A n \in ToSet(q) : n < nextId + 1
  BY <1>2, <1>4, <1>5
<1> QED BY <1>3, <1>4, <1>6, <1>7 DEF c

LEMMA Replied == ASSUME HInv, NEW r \in RunId, replyToRun(r) PROVE HInv' /\ Keeps
<1>1. Typed /\ Stamped
  BY DEF HInv
<1>2. open /\ r \in Ids(runs) /\ runs' = Touched(runs, r, "running") /\ nextId' = nextId + 1 /\ clock' = clock + 1
      /\ turn' = [run |-> r, held |-> TRUE] /\ driven' = driven \cup {r} /\ UNCHANGED <<starting, puts>>
  BY DEF replyToRun, Free, stores
<1>3. Calm
  BY DEF replyToRun, Calm, stores, session, files
<1>4. Listed(runs) /\ nextId \in Nat /\ clock \in Nat /\ (\A n \in LineIds(runs) : n < nextId) /\ driven \subseteq RunId /\ starting \in RunId \cup {None}
  BY <1>1 DEF Typed, Stamped
<1>5. PICK t \in Thread :
        /\ Touched(runs, r, "running") = With(runs, r, t)
        /\ t.id = r /\ IsInjective(t.lines) /\ IsPrefix(Copy(runs, r).lines, t.lines) /\ \A n \in ToSet(t.lines) : n < nextId + 1
  BY <1>2, <1>4, OneLine DEF Status
<1>6. nextId' \in Nat /\ nextId <= nextId' /\ clock' \in Nat
  BY <1>2, <1>4, SMT
<1>7. turn' \in [run : RunId \cup {None}, held : BOOLEAN] /\ turn'.run = r
  BY <1>2
<1> QED BY <1>2, <1>3, <1>4, <1>5, <1>6, <1>7, PatchStep

LEMMA LineAppended == ASSUME HInv, appendLine PROVE HInv' /\ Keeps
<1>1. Typed /\ Stamped
  BY DEF HInv
<1>2. /\ open /\ nextId' = nextId + 1 /\ clock' = clock + 1 /\ UNCHANGED <<starting, driven, turn, puts>>
      /\ runs' = IF turn.held THEN Touched(runs, turn.run, Copy(runs, turn.run).status) ELSE runs
  BY DEF appendLine, stores
<1>3. Calm
  BY DEF appendLine, Calm, stores, session, files
<1>4. /\ Listed(runs) /\ nextId \in Nat /\ clock \in Nat /\ (\A n \in LineIds(runs) : n < nextId) /\ driven \subseteq RunId
      /\ starting \in RunId \cup {None} /\ turn \in [run : RunId \cup {None}, held : BOOLEAN] /\ (turn.held => turn.run \in Ids(runs))
  BY <1>1 DEF Typed, Stamped
<1>6. nextId' \in Nat /\ nextId <= nextId' /\ clock' \in Nat
  BY <1>2, <1>4, SMT
<1>7. CASE turn.held
  <2> DEFINE r == turn.run
             s == Copy(runs, r).status
  <2>1. r \in Ids(runs)
    BY <1>4, <1>7
  <2>2. s \in Status
    <3>1. Copy(runs, r) \in Thread
      BY <2>1, <1>4, TheCopy, ListFacts
    <3> QED BY <3>1 DEF Thread
  <2>3. runs' = Touched(runs, r, s)
    BY <1>2, <1>7
  <2> HIDE DEF s
  <2>4. PICK t \in Thread :
          /\ Touched(runs, r, s) = With(runs, r, t)
          /\ t.id = r /\ IsInjective(t.lines) /\ IsPrefix(Copy(runs, r).lines, t.lines) /\ \A n \in ToSet(t.lines) : n < nextId + 1
    BY <2>1, <2>2, <1>4, OneLine
  <2>5. runs' = With(runs, r, t) /\ (\A n \in ToSet(t.lines) : n < nextId') /\ turn'.run = r
    BY <1>2, <2>3, <2>4
  <2> HIDE DEF r
  <2> QED BY <1>2, <1>3, <1>4, <1>6, <2>1, <2>4, <2>5, PatchStep
<1>8. CASE ~turn.held
  <2>1. runs' = runs
    BY <1>2, <1>8
  <2>2. Listed(runs') /\ Ids(runs') \subseteq Ids(runs) /\ turn' = turn
    BY <2>1, <1>2, <1>4
  <2>3. \A n \in LineIds(runs') : n < nextId'
    <3>1. LineIds(runs) \subseteq Nat
      BY <1>4, ListFacts
    <3>2. \A n \in LineIds(runs) : n < nextId'
      BY <3>1, <1>2, <1>4, SMT
    <3> QED BY <3>2, <2>1
  <2>4. HInv'
    BY <1>2, <1>3, <1>4, <1>6, <1>8, <2>2, <2>3, Rewrites
  <2> QED BY <2>1, <2>4, <1>4, SameKept
<1> QED BY <1>7, <1>8

LEMMA TurnEnded == ASSUME HInv, NEW s \in {"review", "done", "error"}, EndTurn(s) PROVE HInv' /\ Keeps
<1>1. Typed /\ Stamped
  BY DEF HInv
<1>2. /\ open /\ turn' = NoTurn /\ UNCHANGED <<nextId, clock, starting, driven, puts>>
      /\ runs' = IF turn.held /\ Copy(runs, turn.run).status = "running" THEN [runs EXCEPT ![At(runs, turn.run)].status = s] ELSE runs
  BY DEF EndTurn, stores
<1>3. Calm
  BY DEF EndTurn, Calm, stores, session, files
<1>4. /\ Listed(runs) /\ nextId \in Nat /\ clock \in Nat /\ (\A n \in LineIds(runs) : n < nextId) /\ driven \subseteq RunId
      /\ starting \in RunId \cup {None} /\ (turn.held => turn.run \in Ids(runs))
  BY <1>1 DEF Typed, Stamped
<1>5. turn' \in [run : RunId \cup {None}, held : BOOLEAN] /\ ~turn'.held
  BY <1>2 DEF NoTurn
<1>6. nextId' \in Nat /\ nextId <= nextId' /\ clock' \in Nat
  BY <1>2, <1>4, SMT
<1>7. CASE turn.held /\ Copy(runs, turn.run).status = "running"
  <2> DEFINE r == turn.run
             t == [Copy(runs, r) EXCEPT !.status = s]
  <2>1. r \in Ids(runs) /\ s \in Status
    BY <1>4, <1>7 DEF Status
  <2>2. runs' = With(runs, r, t)
    BY <1>2, <1>7 DEF With, Copy
  <2>3. /\ t \in Thread /\ t.id = r /\ IsInjective(t.lines) /\ IsPrefix(Copy(runs, r).lines, t.lines)
        /\ \A n \in ToSet(t.lines) : n < nextId
    BY <2>1, <1>4, Relabeled, Zenon
  <2>4. \A n \in ToSet(t.lines) : n < nextId'
    BY <2>3, <1>2
  <2> HIDE DEF r, t
  <2> QED BY <1>2, <1>3, <1>4, <1>5, <1>6, <2>1, <2>2, <2>3, <2>4, PatchStep
<1>8. CASE ~(turn.held /\ Copy(runs, turn.run).status = "running")
  <2>1. runs' = runs
    BY <1>2, <1>8
  <2>2. Listed(runs') /\ Ids(runs') \subseteq Ids(runs) /\ \A n \in LineIds(runs') : n < nextId'
    BY <2>1, <1>2, <1>4
  <2>4. HInv'
    BY <1>2, <1>3, <1>4, <1>5, <1>6, <2>2, Rewrites
  <2> QED BY <2>1, <2>4, <1>4, SameKept
<1> QED BY <1>7, <1>8

LEMMA TitleArrived == ASSUME HInv, NEW r \in RunId, TitleArrives(r) PROVE HInv' /\ Keeps
<1>1. Typed /\ Stamped
  BY DEF HInv
<1>2. /\ open /\ UNCHANGED <<nextId, clock, starting, turn, driven, puts>>
      /\ runs' = IF r \in Ids(runs) /\ Copy(runs, r).title = "first" THEN [runs EXCEPT ![At(runs, r)].title = "short"] ELSE runs
  BY DEF TitleArrives, stores
<1>3. Calm
  BY DEF TitleArrives, Calm, stores, session, files
<1>4. /\ Listed(runs) /\ nextId \in Nat /\ clock \in Nat /\ (\A n \in LineIds(runs) : n < nextId) /\ driven \subseteq RunId
      /\ starting \in RunId \cup {None} /\ turn \in [run : RunId \cup {None}, held : BOOLEAN] /\ (turn.held => turn.run \in Ids(runs))
  BY <1>1 DEF Typed, Stamped
<1>5. turn' \in [run : RunId \cup {None}, held : BOOLEAN] /\ (turn'.held => turn'.run \in Ids(runs))
  BY <1>2, <1>4
<1>6. nextId' \in Nat /\ nextId <= nextId' /\ clock' \in Nat
  BY <1>2, <1>4, SMT
<1>7. CASE r \in Ids(runs) /\ Copy(runs, r).title = "first"
  <2> DEFINE t == [Copy(runs, r) EXCEPT !.title = "short"]
  <2>2. runs' = With(runs, r, t)
    BY <1>2, <1>7 DEF With, Copy
  <2>3. /\ t \in Thread /\ t.id = r /\ IsInjective(t.lines) /\ IsPrefix(Copy(runs, r).lines, t.lines)
        /\ \A n \in ToSet(t.lines) : n < nextId
    BY <1>4, <1>7, Relabeled, Zenon
  <2>4. \A n \in ToSet(t.lines) : n < nextId'
    BY <2>3, <1>2
  <2> HIDE DEF t
  <2> QED BY <1>2, <1>3, <1>4, <1>5, <1>6, <1>7, <2>2, <2>3, <2>4, PatchStep
<1>8. CASE ~(r \in Ids(runs) /\ Copy(runs, r).title = "first")
  <2>1. runs' = runs
    BY <1>2, <1>8
  <2>2. Listed(runs') /\ Ids(runs') \subseteq Ids(runs) /\ (turn'.held => turn'.run \in Ids(runs')) /\ \A n \in LineIds(runs') : n < nextId'
    BY <2>1, <1>2, <1>4
  <2>4. HInv'
    BY <1>2, <1>3, <1>4, <1>5, <1>6, <2>2, Rewrites
  <2> QED BY <2>1, <2>4, <1>4, SameKept
<1> QED BY <1>7, <1>8

LEMMA RunClicked == ASSUME HInv, NEW r \in RunId, renameRun(r) \/ markReviewed(r) \/ deleteRun(r) PROVE HInv' /\ Keeps
<1>1. Typed /\ Stamped
  BY DEF HInv
<1>2. /\ Listed(runs) /\ nextId \in Nat /\ clock \in Nat /\ (\A n \in LineIds(runs) : n < nextId) /\ driven \subseteq RunId
      /\ starting \in RunId \cup {None} /\ turn \in [run : RunId \cup {None}, held : BOOLEAN] /\ (turn.held => turn.run \in Ids(runs))
  BY <1>1 DEF Typed, Stamped
<1>3. PICK rs : Clicked(rs) /\ open /\ r \in Ids(runs)
                /\ \/ rs = [runs EXCEPT ![At(runs, r)].title = "own"]
                   \/ rs = [runs EXCEPT ![At(runs, r)].status = "done"]
                   \/ rs = Only(runs, RunId \ {r}) /\ deleteRun(r)
  BY DEF renameRun, markReviewed, deleteRun
<1>4. /\ runs' = rs /\ saveRuns(runs') /\ UNCHANGED <<nextId, clock, starting, driven>>
      /\ turn' = [turn EXCEPT !.held = turn.held /\ turn.run \in Ids(rs)]
  BY <1>3 DEF Clicked
<1>5. Calm
  BY <1>3 DEF Clicked, Calm, session
<1>6. nextId' \in Nat /\ nextId <= nextId' /\ clock' \in Nat
  BY <1>2, <1>4, SMT
<1>7. /\ turn' \in [run : RunId \cup {None}, held : BOOLEAN] /\ (turn'.held => turn'.run \in Ids(rs))
      /\ starting' \in RunId \cup {None} /\ driven' \subseteq RunId
  BY <1>2, <1>4
<1>8. CASE \/ rs = [runs EXCEPT ![At(runs, r)].title = "own"]
           \/ rs = [runs EXCEPT ![At(runs, r)].status = "done"]
  <2>1. PICK t : /\ rs = With(runs, r, t)
                 /\ \/ \E s \in Status : t = [Copy(runs, r) EXCEPT !.status = s]
                    \/ \E n \in {"short", "own"} : t = [Copy(runs, r) EXCEPT !.title = n]
    <3>1. CASE rs = [runs EXCEPT ![At(runs, r)].title = "own"]
      <4>1. rs = With(runs, r, [Copy(runs, r) EXCEPT !.title = "own"])
        BY <3>1 DEF With, Copy
      <4> QED BY <4>1, Zenon
    <3>2. CASE rs = [runs EXCEPT ![At(runs, r)].status = "done"]
      <4>1. rs = With(runs, r, [Copy(runs, r) EXCEPT !.status = "done"])
        BY <3>2 DEF With, Copy
      <4>2. "done" \in Status
        BY DEF Status
      <4> QED BY <4>1, <4>2, Zenon
    <3> QED BY <1>8, <3>1, <3>2
  <2>3. /\ t \in Thread /\ t.id = r /\ IsInjective(t.lines) /\ IsPrefix(Copy(runs, r).lines, t.lines)
        /\ \A n \in ToSet(t.lines) : n < nextId
    BY <2>1, <1>2, <1>3, Relabeled, Zenon
  <2>4. (\A n \in ToSet(t.lines) : n < nextId') /\ runs' = With(runs, r, t)
    BY <2>1, <2>3, <1>4
  <2>5. Ids(rs) = Ids(runs)
    BY <2>1, <2>3, <1>2, <1>3, Patched
  <2> QED BY <1>3, <1>4, <1>5, <1>6, <1>7, <2>3, <2>4, <2>5, PatchStep
<1>9. CASE rs = Only(runs, RunId \ {r}) /\ deleteRun(r)
  <2>1. /\ Listed(rs) /\ Ids(rs) = Ids(runs) \cap (RunId \ {r}) /\ LineIds(rs) \subseteq LineIds(runs)
        /\ \A s \in Ids(runs) \cap (RunId \ {r}) : Copy(rs, s) = Copy(runs, s)
    BY <1>2, <1>9, OnlyListed
  <2>2. Listed(runs') /\ Ids(runs') \subseteq Ids(runs) /\ \A n \in LineIds(runs') : n < nextId'
    BY <2>1, <1>2, <1>4
  <2>3. HInv'
    BY <1>3, <1>4, <1>5, <1>6, <1>7, <2>2, Rewrites
  <2>4. ASSUME NEW s \in driven \cap Ids(runs) PROVE Carried(s) \/ deleteRun(s)
    <3>1. CASE s = r
      BY <3>1, <1>9
    <3>2. CASE s # r
      <4>1. s \in Ids(runs) \cap (RunId \ {r})
        BY <3>2, <1>2
      <4>2. Copy(runs, s).lines \in Seq(Nat)
        BY <1>2, TheCopy, ListFacts
      <4>3. s \in Ids(runs') /\ Copy(runs', s) = Copy(runs, s)
        BY <4>1, <2>1, <1>4
      <4> QED BY <4>2, <4>3, OwnPrefix DEF Carried
    <3> QED BY <3>1, <3>2
  <2>5. Keeps
    BY <2>4 DEF Keeps
  <2> QED BY <2>3, <2>5
<1> QED BY <1>3, <1>8, <1>9

-----------------------------------------------------------------------------
(* Steps of the stores. *)

\* A thread that may be in a folder still may when threads have joined more.
LEMMA MoreJoined ==
  ASSUME NEW rs, Ids(rs) \subseteq RunId, NEW houses, NEW more, \A r \in RunId : houses[r] \subseteq more[r], NEW F, Belong(rs, F, houses)
  PROVE  Belong(rs, F, more)
  BY DEF Belong

LEMMA Tailed ==
  ASSUME NEW Elem, NEW ps \in Seq(Elem), ps # <<>>
  PROVE  /\ 1 \in DOMAIN ps /\ Len(ps) \in DOMAIN ps /\ Head(ps) = ps[1] /\ Tail(ps) \in Seq(Elem)
         /\ \A i \in DOMAIN Tail(ps) : \E j \in DOMAIN ps : Tail(ps)[i] = ps[j]
         /\ (IF Tail(ps) = <<>> THEN Head(ps) ELSE Tail(ps)[Len(Tail(ps))]) = ps[Len(ps)]
<1> DEFINE ts == Tail(ps)
<1>1. Head(ps) = ps[1] /\ ts \in Seq(Elem) /\ Len(ts) = Len(ps) - 1 /\ \A i \in 1 .. Len(ts) : ts[i] = ps[i + 1]
  BY HeadTailProperties
<1>2. Len(ps) \in Nat /\ Len(ps) # 0 /\ DOMAIN ps = 1 .. Len(ps)
  BY LenProperties, EmptySeq, SMT
<1>3. DOMAIN ts = 1 .. Len(ts)
  BY <1>1, LenProperties
<1> HIDE DEF ts
<1>4. Len(ps) >= 1 /\ 1 \in 1 .. Len(ps) /\ Len(ps) \in 1 .. Len(ps)
  BY <1>2, SMT
<1>5. \A i \in 1 .. Len(ts) : i + 1 \in 1 .. Len(ps)
  BY <1>1, <1>2, SMT
<1>6. CASE ts = <<>>
  <2>1. Len(ts) = 0
    BY <1>6
  <2>2. Len(ps) = 1
    BY <2>1, <1>1, <1>2, SMT
  <2> QED BY <2>2, <1>1, <1>2, <1>3, <1>4, <1>5, <1>6 DEF ts
<1>7. CASE ts # <<>>
  <2>1. Len(ts) \in Nat /\ Len(ts) # 0
    BY <1>1, <1>7, LenProperties, EmptySeq, SMT
  <2>2. Len(ts) \in 1 .. Len(ts) /\ Len(ts) + 1 = Len(ps)
    BY <2>1, <1>1, <1>2, SMT
  <2>3. ts[Len(ts)] = ps[Len(ps)]
    BY <2>2, <1>1
  <2> QED BY <2>3, <1>1, <1>2, <1>3, <1>4, <1>5, <1>7 DEF ts
<1> QED BY <1>6, <1>7

LEMMA CommittedStep == ASSUME HInv, Committed PROVE HInv' /\ Keeps
<1>1. Typed /\ Stamped /\ Idle /\ Aimed /\ Housed /\ Away
  BY DEF HInv
<1>2. /\ puts # <<>> /\ idb' = Head(puts) /\ puts' = Tail(puts)
      /\ UNCHANGED <<runs, driven, starting, turn, nextId, swapping, disk, writes, mount, mounting, persisted, open, wiping, forgotten, joined, clock>>
  BY DEF Committed, memory, session, files
<1>3. puts \in Seq(Seq(Thread)) /\ \A i \in DOMAIN puts : Listed(puts[i])
  BY <1>1 DEF Typed
<1>4. /\ 1 \in DOMAIN puts /\ Len(puts) \in DOMAIN puts /\ idb' = puts[1] /\ puts' \in Seq(Seq(Thread))
      /\ \A i \in DOMAIN puts' : \E j \in DOMAIN puts : puts'[i] = puts[j]
      /\ (IF puts' = <<>> THEN idb' ELSE puts'[Len(puts')]) = puts[Len(puts)]
  BY <1>2, <1>3, Tailed
<1>5. LastStored' = LastStored
  BY <1>2, <1>4 DEF LastStored
<1>6. Typed'
  BY <1>1, <1>2, <1>3, <1>4 DEF Typed
<1>7. Stamped' /\ Aimed'
  BY <1>1, <1>2 DEF Stamped, Aimed
<1>8. Idle'
  BY <1>1, <1>2 DEF Idle
<1>9. Housed'
  BY <1>1, <1>2, <1>5 DEF Housed
<1>10. Away'
  BY <1>1, <1>2, <1>4, <1>5 DEF Away
<1>11. Keeps
  BY <1>1, <1>2, SameKept DEF Typed
<1> QED BY <1>6, <1>7, <1>8, <1>9, <1>10, <1>11 DEF HInv

LEMMA WrittenStep == ASSUME HInv, Written PROVE HInv' /\ Keeps
<1>1. Typed /\ Stamped /\ Idle /\ Aimed /\ Housed /\ Away
  BY DEF HInv
<1>2. /\ writes # <<>> /\ disk' = [disk EXCEPT ![Head(writes).folder] = Head(writes).runs] /\ writes' = Tail(writes)
      /\ UNCHANGED <<runs, driven, starting, turn, nextId, swapping, idb, puts, mount, mounting, persisted, open, wiping, forgotten, joined, clock>>
  BY DEF Written, memory, session, files
<1>3. /\ writes \in Seq(Write) /\ \A i \in DOMAIN writes : Listed(writes[i].runs)
      /\ disk \in [Folder -> Seq(Thread) \cup {None}] /\ \A F \in Folder : disk[F] # None => Listed(disk[F])
  BY <1>1 DEF Typed
<1>4. /\ 1 \in DOMAIN writes /\ Head(writes) = writes[1] /\ writes' \in Seq(Write)
      /\ \A i \in DOMAIN writes' : \E j \in DOMAIN writes : writes'[i] = writes[j]
  BY <1>2, <1>3, Tailed
<1> DEFINE G == writes[1].folder
           rs == writes[1].runs
<1>5. G \in Folder /\ rs \in Seq(Thread) /\ Listed(rs) /\ Belong(rs, G, joined) /\ Gone(rs, forgotten)
  <2>1. writes[1] \in Write
    BY <1>3, <1>4, ElementOfSeq, LenProperties
  <2> QED BY <2>1, <1>1, <1>3, <1>4 DEF Write, Housed, Away
<1>6. disk' = [disk EXCEPT ![G] = rs]
  BY <1>2, <1>4
<1> HIDE DEF G, rs
<1>7. disk' \in [Folder -> Seq(Thread) \cup {None}] /\ \A F \in Folder : disk'[F] = IF F = G THEN rs ELSE disk[F]
  BY <1>3, <1>5, <1>6
<1>8. LastStored' = LastStored
  BY <1>2 DEF LastStored
<1>9. Typed'
  <2>1. \A F \in Folder : disk'[F] # None => Listed(disk'[F])
    BY <1>3, <1>5, <1>7
  <2>2. \A i \in DOMAIN writes' : Listed(writes'[i].runs)
    BY <1>3, <1>4
  <2> QED BY <2>1, <2>2, <1>1, <1>2, <1>4, <1>7 DEF Typed
<1>10. Stamped' /\ Aimed' /\ Idle'
  BY <1>1, <1>2 DEF Stamped, Aimed, Idle
<1>11. Housed'
  <2>1. \A F \in Folder : disk'[F] # None => Belong(disk'[F], F, joined)
    BY <1>1, <1>5, <1>7 DEF Housed
  <2>2. \A i \in DOMAIN writes' : Belong(writes'[i].runs, writes'[i].folder, joined)
    BY <1>1, <1>4 DEF Housed
  <2> QED BY <2>1, <2>2, <1>1, <1>2, <1>8 DEF Housed
<1>12. Away'
  <2>1. \A F \in Folder : disk'[F] # None => Gone(disk'[F], forgotten)
    BY <1>1, <1>5, <1>7 DEF Away
  <2>2. \A i \in DOMAIN writes' : Gone(writes'[i].runs, forgotten)
    BY <1>1, <1>4 DEF Away
  <2> QED BY <2>1, <2>2, <1>1, <1>2, <1>8 DEF Away
<1>13. Keeps
  BY <1>1, <1>2, SameKept DEF Typed
<1> QED BY <1>9, <1>10, <1>11, <1>12, <1>13 DEF HInv

\* A write of what is in memory to a folder it belongs to.
LEMMA WriteOne ==
  ASSUME HInv, NEW F \in Folder, Belong(runs, F, joined), NEW ws, ws = Append(writes, [folder |-> F, runs |-> capRuns(runs)])
  PROVE  /\ ws \in Seq(Write) /\ \A i \in DOMAIN ws : Listed(ws[i].runs)
         /\ \A i \in DOMAIN ws : Belong(ws[i].runs, ws[i].folder, joined)
         /\ \A i \in DOMAIN ws : Gone(ws[i].runs, forgotten)
<1>1. Typed /\ Housed /\ Away
  BY DEF HInv
<1> DEFINE x == capRuns(runs)
           w == [folder |-> F, runs |-> x]
<1>2. Listed(x) /\ Ids(x) \subseteq Ids(runs)
  BY <1>1, Capped DEF Typed
<1>3. ws = Append(writes, w)
  OBVIOUS
<1> HIDE DEF x
<1>4. w \in Write
  BY <1>2 DEF Write, Listed
<1>5. w.folder = F /\ w.runs = x
  OBVIOUS
<1> HIDE DEF w
<1>6. writes \in Seq(Write) /\ \A i \in DOMAIN writes : Listed(writes[i].runs)
  BY <1>1 DEF Typed
<1>7. /\ ws \in Seq(Write) /\ Len(ws) = Len(writes) + 1
      /\ (\A i \in 1 .. Len(writes) : ws[i] = writes[i]) /\ ws[Len(writes) + 1] = w
  BY <1>3, <1>4, <1>6, AppendProperties
<1>8. Len(writes) \in Nat /\ DOMAIN writes = 1 .. Len(writes) /\ DOMAIN ws = 1 .. Len(ws)
  BY <1>6, <1>7, LenProperties
<1>9. \A i \in DOMAIN ws : i = Len(writes) + 1 \/ i \in DOMAIN writes
  BY <1>7, <1>8, SMT
<1>10. \A i \in DOMAIN ws : ws[i] = w \/ \E j \in DOMAIN writes : ws[i] = writes[j]
  BY <1>7, <1>8, <1>9
<1>11. Listed(w.runs) /\ Belong(w.runs, w.folder, joined) /\ Gone(w.runs, forgotten)
  BY <1>1, <1>2, <1>5 DEF Belong, Gone, Away
<1>12. \A j \in DOMAIN writes : Belong(writes[j].runs, writes[j].folder, joined) /\ Gone(writes[j].runs, forgotten)
  BY <1>1 DEF Housed, Away
<1> QED BY <1>6, <1>7, <1>10, <1>11, <1>12

LEMMA Mounted == ASSUME HInv, mount # None PROVE mount \in Folder /\ Belong(runs, mount, joined)
<1>1. Typed /\ Aimed /\ Housed
  BY DEF HInv
<1>2. CASE mounting.pc = "persist"
  BY <1>1, <1>2 DEF Typed, Aimed, Housed
<1>3. CASE mounting.pc # "persist"
  BY <1>1, <1>3 DEF Typed, Aimed, Housed
<1> QED BY <1>2, <1>3

LEMMA StateTimerStep == ASSUME HInv, StateTimer PROVE HInv' /\ Keeps
<1>1. Typed /\ Stamped /\ Idle /\ Aimed /\ Housed /\ Away
  BY DEF HInv
<1>2. /\ IF mount = None THEN UNCHANGED writes ELSE writes' = Append(writes, [folder |-> mount, runs |-> capRuns(runs)])
      /\ UNCHANGED <<runs, driven, starting, turn, nextId, swapping, idb, puts, disk, mount, mounting, persisted, open, wiping, forgotten, joined, clock>>
      /\ open
  BY DEF StateTimer, saveStateToFolder, writeFolderState, session, files
<1>3. /\ writes' \in Seq(Write) /\ \A i \in DOMAIN writes' : Listed(writes'[i].runs)
      /\ \A i \in DOMAIN writes' : Belong(writes'[i].runs, writes'[i].folder, joined)
      /\ \A i \in DOMAIN writes' : Gone(writes'[i].runs, forgotten)
  <2>1. CASE mount = None
    BY <2>1, <1>1, <1>2 DEF Typed, Housed, Away
  <2>2. CASE mount # None
    BY <2>2, <1>2, Mounted, WriteOne
  <2> QED BY <2>1, <2>2
<1>4. LastStored' = LastStored
  BY <1>2 DEF LastStored
<1>5. Typed'
  BY <1>1, <1>2, <1>3 DEF Typed
<1>6. Stamped' /\ Aimed' /\ Idle'
  BY <1>1, <1>2 DEF Stamped, Aimed, Idle
<1>7. Housed'
  BY <1>1, <1>2, <1>3, <1>4 DEF Housed
<1>8. Away'
  BY <1>1, <1>2, <1>3, <1>4 DEF Away
<1>9. Keeps
  BY <1>1, <1>2, SameKept DEF Typed
<1> QED BY <1>5, <1>6, <1>7, <1>8, <1>9 DEF HInv

LEMMA PickStep == ASSUME HInv, NEW F \in Folder, Pick(F) PROVE HInv' /\ Keeps
<1>1. Typed /\ Stamped /\ Idle /\ Aimed /\ Housed /\ Away
  BY DEF HInv
<1>2. /\ open /\ mounting.pc = "none"
      /\ mounting' = [folder |-> F, mode |-> "merge", by |-> "user", pc |-> "load", read |-> None] /\ swapping' \in BOOLEAN
      /\ UNCHANGED <<runs, driven, starting, turn, nextId, idb, puts, disk, writes, mount, persisted, open, wiping, forgotten, joined, clock>>
  BY DEF Pick, stores, files
<1>3. mounting' \in Mount /\ mounting'.read = None /\ mounting'.pc = "load" /\ mounting'.mode = "merge" /\ mounting'.by = "user" /\ mounting'.folder = F
  BY <1>2 DEF Mount
<1>4. LastStored' = LastStored
  BY <1>2 DEF LastStored
<1>5. Typed'
  BY <1>1, <1>2, <1>3 DEF Typed
<1>6. Stamped' /\ Idle'
  BY <1>1, <1>2 DEF Stamped, Idle
<1>7. Aimed'
  BY <1>1, <1>2, <1>3 DEF Aimed
<1>8. Housed'
  BY <1>1, <1>2, <1>3, <1>4 DEF Housed
<1>9. Away'
  BY <1>1, <1>2, <1>3, <1>4 DEF Away
<1>10. Keeps
  BY <1>1, <1>2, SameKept DEF Typed
<1> QED BY <1>5, <1>6, <1>7, <1>8, <1>9, <1>10 DEF HInv

LEMMA SwapStep == ASSUME HInv, NEW F \in Folder, Swap(F) PROVE HInv' /\ Keeps
<1>1. Typed /\ Stamped /\ Idle /\ Aimed /\ Housed /\ Away
  BY DEF HInv
<1>2. /\ open /\ mounting.pc = "none" /\ mount # None
      /\ mounting' = [folder |-> F, mode |-> "replace", by |-> "user", pc |-> "flush", read |-> None] /\ swapping' = TRUE
      /\ writes' = Append(writes, [folder |-> mount, runs |-> capRuns(runs)])
      /\ UNCHANGED <<runs, driven, starting, turn, nextId, idb, puts, disk, mount, persisted, open, wiping, forgotten, joined, clock>>
  BY DEF Swap, writeFolderState, files
<1>3. /\ mounting' \in Mount /\ mounting'.read = None /\ mounting'.pc = "flush" /\ mounting'.mode = "replace" /\ mounting'.by = "user"
      /\ mounting'.folder = F
  BY <1>2 DEF Mount
<1>4. LastStored' = LastStored
  BY <1>2 DEF LastStored
<1>11. /\ writes' \in Seq(Write) /\ \A i \in DOMAIN writes' : Listed(writes'[i].runs)
       /\ \A i \in DOMAIN writes' : Belong(writes'[i].runs, writes'[i].folder, joined)
       /\ \A i \in DOMAIN writes' : Gone(writes'[i].runs, forgotten)
  BY <1>2, Mounted, WriteOne
<1>5. Typed'
  BY <1>1, <1>2, <1>3, <1>11 DEF Typed
<1>6. Stamped' /\ Idle'
  BY <1>1, <1>2 DEF Stamped, Idle
<1>7. Aimed'
  BY <1>1, <1>2, <1>3 DEF Aimed
<1>8. Housed'
  BY <1>1, <1>2, <1>3, <1>4, <1>11 DEF Housed
<1>9. Away'
  BY <1>1, <1>2, <1>3, <1>4, <1>11 DEF Away
<1>10. Keeps
  BY <1>1, <1>2, SameKept DEF Typed
<1> QED BY <1>5, <1>6, <1>7, <1>8, <1>9, <1>10 DEF HInv

LEMMA NothingLeft == \A F, houses, erased : Belong(<<>>, F, houses) /\ Gone(<<>>, erased)
  BY EmptyList DEF Belong, Gone

LEMMA SwapFlushedStep == ASSUME HInv, SwapFlushed PROVE HInv' /\ Keeps
<1>1. Typed /\ Stamped /\ Idle /\ Aimed /\ Housed /\ Away
  BY DEF HInv
<1>2. /\ open /\ mounting.pc = "flush" /\ mounting' = [mounting EXCEPT !.pc = "load"]
      /\ runs' = <<>> /\ driven' = {} /\ mount' = None /\ turn' = [turn EXCEPT !.held = FALSE]
      /\ UNCHANGED <<starting, nextId, swapping, idb, puts, disk, writes, persisted, open, wiping, forgotten, joined, clock>>
  BY DEF SwapFlushed, stores, files
<1>3. /\ mounting' \in Mount /\ mounting'.read = mounting.read /\ mounting'.pc = "load" /\ mounting'.mode = mounting.mode
      /\ mounting'.by = mounting.by /\ mounting'.folder = mounting.folder /\ mounting.mode = "replace"
  BY <1>1, <1>2 DEF Typed, Mount, Aimed
<1>4. LastStored' = LastStored
  BY <1>2 DEF LastStored
<1>5. Typed'
  <2>1. turn' \in [run : RunId \cup {None}, held : BOOLEAN]
    BY <1>1, <1>2 DEF Typed
  <2>2. Listed(runs') /\ mount' \in Folder \cup {None} /\ driven' \subseteq RunId
    BY <1>2, EmptyList
  <2> QED BY <2>1, <2>2, <1>1, <1>2, <1>3 DEF Typed
<1>6. Stamped' /\ Idle'
  <2>1. turn'.held = FALSE
    BY <1>1, <1>2 DEF Typed
  <2> QED BY <2>1, <1>2, EmptyList DEF Stamped, Idle
<1>7. Aimed'
  BY <1>1, <1>2, <1>3 DEF Aimed
<1>8. Housed'
  BY <1>1, <1>2, <1>3, <1>4, NothingLeft DEF Housed
<1>9. Away'
  BY <1>1, <1>2, <1>3, <1>4, NothingLeft DEF Away
<1>10. Keeps
  BY DEF Keeps
<1> QED BY <1>5, <1>6, <1>7, <1>8, <1>9, <1>10 DEF HInv

LEMMA SetMountStep == ASSUME HInv, SetMount PROVE HInv' /\ Keeps
<1>1. Typed /\ Stamped /\ Idle /\ Aimed /\ Housed /\ Away
  BY DEF HInv
<1> DEFINE F == mounting.folder
           Said(r) == mounting.by = "user" /\ mounting.mode = "merge" /\ \E rs \in {runs, idb} \cup ToSet(puts) : r \in Ids(rs)
<1>2. /\ open /\ mounting.pc = "load" /\ mounting' = [mounting EXCEPT !.pc = "persist", !.read = disk[F]]
      /\ mount' = F /\ swapping' = (mounting.mode = "replace")
      /\ joined' = [r \in RunId |-> joined[r] \cup (IF Said(r) THEN {F} ELSE {})]
      /\ UNCHANGED <<runs, driven, starting, turn, nextId, idb, puts, disk, writes, persisted, open, wiping, forgotten, clock>>
  BY DEF SetMount, stores, files
<1>3. F \in Folder /\ disk \in [Folder -> Seq(Thread) \cup {None}] /\ joined \in [RunId -> SUBSET Folder]
  BY <1>1, <1>2 DEF Aimed, Typed
<1>4. /\ mounting' \in Mount /\ mounting'.read = disk[F] /\ mounting'.pc = "persist" /\ mounting'.mode = mounting.mode
      /\ mounting'.by = mounting.by /\ mounting'.folder = F
  BY <1>1, <1>2, <1>3 DEF Typed, Mount
<1>5. joined' \in [RunId -> SUBSET Folder] /\ \A r \in RunId : joined[r] \subseteq joined'[r] /\ (Said(r) => F \in joined'[r])
  BY <1>2, <1>3
<1>6. LastStored' = LastStored
  BY <1>2 DEF LastStored
<1>7. Typed'
  BY <1>1, <1>2, <1>3, <1>4, <1>5 DEF Typed
<1>8. Stamped' /\ Idle'
  BY <1>1, <1>2 DEF Stamped, Idle
<1>9. Aimed'
  BY <1>1, <1>2, <1>3, <1>4 DEF Aimed
<1>20. Listed(LastStored) /\ LastStored \in {idb} \cup ToSet(puts)
  <2>1. CASE puts = <<>>
    BY <2>1, <1>1 DEF LastStored, Typed
  <2>2. CASE puts # <<>>
    <3>1. puts \in Seq(Seq(Thread)) /\ \A i \in DOMAIN puts : Listed(puts[i])
      BY <1>1 DEF Typed
    <3>2. Len(puts) \in DOMAIN puts
      BY <2>2, <3>1, Tailed
    <3> QED BY <2>2, <3>1, <3>2 DEF LastStored, ToSet
  <2> QED BY <2>1, <2>2
<1>10. Belong(runs, F, joined') /\ (mounting.mode = "merge" => Belong(LastStored, F, joined'))
  <2>1. Ids(runs) \subseteq RunId /\ Ids(LastStored) \subseteq RunId
    BY <1>1, <1>20, ListFacts DEF Typed
  <2>2. CASE mounting.mode = "replace"
    <3>1. runs = <<>>
      BY <2>2, <1>1, <1>2 DEF Aimed
    <3> QED BY <2>2, <3>1, NothingLeft
  <2>3. CASE mounting.mode = "merge" /\ mounting.by = "user"
    <3>1. \A r \in Ids(runs) \cup Ids(LastStored) : Said(r)
      BY <2>3, <1>20
    <3> QED BY <2>1, <3>1, <1>5 DEF Belong
  <2>4. CASE mounting.mode = "merge" /\ mounting.by = "boot"
    <3>1. persisted = F /\ mounting.pc # "persist"
      BY <2>4, <1>1, <1>2 DEF Aimed
    <3>2. persisted # None
      BY <3>1, <1>3, HistoryAssumption
    <3>3. Belong(runs, F, joined) /\ Belong(LastStored, F, joined)
      BY <3>1, <3>2, <1>1 DEF Housed
    <3> QED BY <2>1, <3>3, <1>5, MoreJoined
  <2>5. mounting.mode \in {"merge", "replace"} /\ mounting.by \in {"boot", "user"}
    BY <1>1 DEF Typed, Mount
  <2> QED BY <2>2, <2>3, <2>4, <2>5
<1>11. Housed'
  <2>1. ASSUME NEW G \in Folder, disk[G] # None PROVE Belong(disk[G], G, joined')
    <3>1. Ids(disk[G]) \subseteq RunId /\ Belong(disk[G], G, joined)
      BY <2>1, <1>1, ListFacts DEF Typed, Housed
    <3> QED BY <3>1, <1>5, MoreJoined
  <2>2. ASSUME NEW i \in DOMAIN writes PROVE Belong(writes[i].runs, writes[i].folder, joined')
    <3>1. Ids(writes[i].runs) \subseteq RunId /\ Belong(writes[i].runs, writes[i].folder, joined)
      BY <1>1, ListFacts DEF Typed, Housed
    <3> QED BY <3>1, <1>5, MoreJoined
  <2> QED BY <2>1, <2>2, <1>2, <1>3, <1>4, <1>6, <1>10 DEF Housed
<1>12. Away'
  BY <1>1, <1>2, <1>3, <1>4, <1>6 DEF Away
<1>13. Keeps
  BY <1>1, <1>2, SameKept DEF Typed
<1> QED BY <1>7, <1>8, <1>9, <1>11, <1>12, <1>13 DEF HInv

LEMMA UnmountStep == ASSUME HInv, unmount PROVE HInv' /\ Keeps
<1>1. Typed /\ Stamped /\ Idle /\ Aimed /\ Housed /\ Away
  BY DEF HInv
<1>2. /\ open /\ mount # None /\ mount' = None /\ persisted' = None
      /\ UNCHANGED <<runs, driven, starting, turn, nextId, swapping, idb, puts, disk, writes, mounting, open, wiping, forgotten, joined, clock>>
  BY DEF unmount, stores, files
<1>3. LastStored' = LastStored
  BY <1>2 DEF LastStored
<1>4. Typed'
  BY <1>1, <1>2 DEF Typed
<1>5. Stamped' /\ Idle'
  BY <1>1, <1>2 DEF Stamped, Idle
<1>6. Aimed'
  BY <1>1, <1>2 DEF Aimed
<1>7. Housed'
  BY <1>1, <1>2, <1>3 DEF Housed
<1>8. Away'
  BY <1>1, <1>2, <1>3 DEF Away
<1>9. Keeps
  BY <1>1, <1>2, SameKept DEF Typed
<1> QED BY <1>4, <1>5, <1>6, <1>7, <1>8, <1>9 DEF HInv

LEMMA SnapshotStep == ASSUME HInv, SnapshotDeleted PROVE HInv' /\ Keeps
<1>1. Typed /\ Stamped /\ Idle /\ Aimed /\ Housed /\ Away
  BY DEF HInv
<1>2. /\ open /\ wiping' = "runs" /\ puts' = Append(puts, <<>>)
      /\ UNCHANGED <<runs, driven, starting, turn, nextId, swapping, idb, disk, writes, mount, mounting, persisted, open, forgotten, joined, clock>>
  BY DEF SnapshotDeleted, memory, session
<1>3. /\ puts' \in Seq(Seq(Thread)) /\ puts' # <<>> /\ puts'[Len(puts')] = <<>>
      /\ \A i \in DOMAIN puts' : Listed(puts'[i])
  <2>1. puts \in Seq(Seq(Thread)) /\ \A i \in DOMAIN puts : Listed(puts[i])
    BY <1>1 DEF Typed
  <2>2. Listed(<<>>)
    BY EmptyList
  <2>3. puts' = Append(puts, <<>>)
    BY <1>2
  <2> DEFINE x == <<>>
             qs == puts'
  <2>4. Listed(x) /\ qs = Append(puts, x)
    BY <2>2, <2>3
  <2> HIDE DEF x, qs
  <2>5. qs \in Seq(Seq(Thread)) /\ qs # <<>> /\ qs[Len(qs)] = x /\ \A i \in DOMAIN qs : Listed(qs[i])
    BY <2>1, <2>4, PutOne
  <2> QED BY <2>5 DEF x, qs
<1>4. LastStored' = <<>>
  BY <1>3 DEF LastStored
<1>5. Typed'
  BY <1>1, <1>2, <1>3 DEF Typed
<1>6. Stamped' /\ Idle' /\ Aimed'
  BY <1>1, <1>2 DEF Stamped, Idle, Aimed
<1>7. Housed'
  BY <1>1, <1>2, <1>4, NothingLeft DEF Housed
<1>8. Away'
  BY <1>1, <1>2, <1>4, NothingLeft DEF Away
<1>9. Keeps
  BY <1>1, <1>2, SameKept DEF Typed
<1> QED BY <1>5, <1>6, <1>7, <1>8, <1>9 DEF HInv

LEMMA ResetStep == ASSUME HInv, resetProject PROVE HInv' /\ Keeps
<1>1. Typed /\ Stamped /\ Idle /\ Aimed /\ Housed /\ Away
  BY DEF HInv
<1> DEFINE more == {r \in RunId : joined[r] = {} /\ r \in Ids(runs) \cup Ids(idb)}
<1>2. /\ open /\ wiping' = "snapshot" /\ runs' = <<>> /\ turn' = [turn EXCEPT !.held = FALSE] /\ forgotten' = forgotten \cup more
      /\ UNCHANGED <<driven, starting, nextId, swapping, idb, puts, disk, writes, mount, mounting, persisted, open, joined, clock>>
  BY DEF resetProject, stores, session
<1>3. \A rs, F : Belong(rs, F, joined) /\ Gone(rs, forgotten) => Gone(rs, forgotten')
  BY <1>2 DEF Belong, Gone
<1>4. LastStored' = LastStored
  BY <1>2 DEF LastStored
<1>5. Typed'
  <2>1. turn' \in [run : RunId \cup {None}, held : BOOLEAN] /\ forgotten' \subseteq RunId
    BY <1>1, <1>2 DEF Typed
  <2>2. Listed(runs')
    BY <1>2, EmptyList
  <2> QED BY <2>1, <2>2, <1>1, <1>2 DEF Typed
<1>6. Stamped' /\ Idle' /\ Aimed'
  <2>1. turn'.held = FALSE
    BY <1>1, <1>2 DEF Typed
  <2>2. Aimed'
    BY <1>1, <1>2 DEF Aimed
  <2> QED BY <2>1, <2>2, <1>2, EmptyList DEF Stamped, Idle
<1>7. Housed'
  BY <1>1, <1>2, <1>4, NothingLeft DEF Housed
<1>8. Away'
  <2>1. \A F \in Folder : disk[F] # None => Gone(disk[F], forgotten')
    BY <1>1, <1>3 DEF Housed, Away
  <2>2. \A i \in DOMAIN writes : Gone(writes[i].runs, forgotten')
    BY <1>1, <1>3 DEF Housed, Away
  <2>3. mounting.read # None => Gone(mounting.read, forgotten')
    BY <1>1, <1>3 DEF Housed, Away
  <2>4. Gone(runs', forgotten')
    BY <1>2, NothingLeft
  <2> QED BY <2>1, <2>2, <2>3, <2>4, <1>2 DEF Away
<1>9. Keeps
  BY <1>2 DEF Keeps
<1> QED BY <1>5, <1>6, <1>7, <1>8, <1>9 DEF HInv

LEMMA StartStep == ASSUME HInv, NEW r \in RunId, startRun(r) PROVE HInv' /\ Keeps
<1>1. Typed /\ Stamped /\ Idle /\ Aimed /\ Housed /\ Away
  BY DEF HInv
<1> DEFINE t == [id |-> r, created |-> clock + 1, last |-> clock + 1, lines |-> <<>>, status |-> "running", title |-> "first"]
           into == (IF mount # None THEN {mount} ELSE {mounting.folder, persisted}) \ {None}
           x == capRuns(runs')
<1>2. /\ open /\ ~running /\ ~swapping /\ joined[r] = {} /\ r \notin forgotten \cup Ids(runs)
      /\ runs' = <<t>> \o runs /\ starting' = r /\ joined' = [joined EXCEPT ![r] = into] /\ puts' = Append(puts, x) /\ clock' = clock + 1
      /\ UNCHANGED <<driven, turn, nextId, swapping, idb, disk, writes, mount, mounting, persisted, open, wiping, forgotten>>
  BY DEF startRun, Free, saveRuns, session, files
<1>3. /\ Listed(runs) /\ clock \in Nat /\ joined \in [RunId -> SUBSET Folder] /\ mounting \in Mount
      /\ mount \in Folder \cup {None} /\ persisted \in Folder \cup {None}
      /\ puts \in Seq(Seq(Thread)) /\ \A i \in DOMAIN puts : Listed(puts[i])
  BY <1>1 DEF Typed
<1>4. clock + 1 \in Nat
  BY <1>3, SMT
<1>5. Listed(<<t>>) /\ Ids(<<t>>) = {r} /\ LineIds(<<t>>) = {}
  <2>1. t \in Thread /\ t.id = r /\ t.lines = <<>>
    BY <1>4 DEF Thread, Status
  <2> HIDE DEF t
  <2>2. <<t>> \in Seq(Thread) /\ Len(<<t>>) = 1 /\ <<t>>[1] = t
    BY <2>1
  <2>3. DOMAIN <<t>> = {1}
    BY SMT
  <2>4. ToSet(<<>>) = {} /\ IsInjective(<<>>)
    BY EmptySeq, LenProperties, SMT DEF ToSet, IsInjective
  <2> QED BY <2>1, <2>2, <2>3, <2>4 DEF Listed, Ids, LineIds
<1> HIDE DEF t
<1>6. /\ Listed(runs') /\ Ids(runs') = {r} \cup Ids(runs) /\ LineIds(runs') = LineIds(runs)
      /\ \A i \in DOMAIN runs : \E j \in DOMAIN runs' : runs'[j] = runs[i]
  <2> DEFINE one == <<t>>
             rs == one \o runs
  <2>1. Listed(one) /\ Ids(one) = {r} /\ LineIds(one) = {} /\ Ids(one) \cap Ids(runs) = {} /\ runs' = rs
    BY <1>2, <1>5
  <2> HIDE DEF one
  <2>2. LET cs == one \o runs IN
        /\ Listed(cs) /\ Ids(cs) = Ids(one) \cup Ids(runs) /\ LineIds(cs) = LineIds(one) \cup LineIds(runs)
        /\ Len(cs) = Len(one) + Len(runs) /\ (\A i \in DOMAIN one : i \in DOMAIN cs /\ cs[i] = one[i])
        /\ \A i \in DOMAIN runs : \E j \in DOMAIN cs : cs[j] = runs[i]
    <3>1. Listed(one) /\ Listed(runs) /\ Ids(one) \cap Ids(runs) = {}
      BY <2>1, <1>3
    <3> QED BY <3>1, Joint, Zenon
  <2>3. /\ Listed(rs) /\ Ids(rs) = Ids(one) \cup Ids(runs) /\ LineIds(rs) = LineIds(one) \cup LineIds(runs)
        /\ \A i \in DOMAIN runs : \E j \in DOMAIN rs : rs[j] = runs[i]
    BY <2>2, Zenon
  <2> HIDE DEF rs
  <2>4. LineIds(rs) = LineIds(runs)
    BY <2>1, <2>3
  <2>5. Ids(rs) = {r} \cup Ids(runs)
    BY <2>1, <2>3
  <2> QED BY <2>1, <2>3, <2>4, <2>5
<1>7. Listed(x) /\ Ids(x) \subseteq Ids(runs')
  BY <1>6, Capped
<1> HIDE DEF x
<1>8. into \subseteq Folder
  BY <1>3 DEF Mount
<1>9. joined' \in [RunId -> SUBSET Folder] /\ joined'[r] = into /\ \A s \in RunId : joined[s] \subseteq joined'[s]
  BY <1>2, <1>3, <1>8
<1>10. (mounting.pc = "persist" => mounting.folder \in into) /\ (mounting.pc # "persist" /\ persisted # None => persisted \in into)
  <2>1. mounting.pc = "persist" => mounting.folder \in Folder /\ mount \in {None, mounting.folder}
    BY <1>1 DEF Aimed
  <2>2. mounting.folder \in Folder => mounting.folder # None
    BY HistoryAssumption
  <2>3. mount # None /\ mounting.pc # "persist" => persisted = mount
    BY <1>1 DEF Aimed
  <2> QED BY <2>1, <2>2, <2>3
<1>11. mounting.mode # "replace"
  BY <1>1, <1>2 DEF Aimed
<1> HIDE DEF into
<1>12. /\ puts' \in Seq(Seq(Thread)) /\ puts' # <<>> /\ puts'[Len(puts')] = x
       /\ \A i \in DOMAIN puts' : Listed(puts'[i]) /\ (puts'[i] = x \/ \E j \in DOMAIN puts : puts'[i] = puts[j])
  BY <1>2, <1>3, <1>7, PutOne
<1>13. LastStored' = x
  BY <1>12 DEF LastStored
<1>14. Typed'
  BY <1>1, <1>2, <1>4, <1>6, <1>9, <1>12 DEF Typed
<1>15. Stamped'
  BY <1>1, <1>2, <1>6 DEF Stamped
<1>16. Idle' /\ Aimed'
  BY <1>1, <1>2, <1>11 DEF Idle, Aimed
<1>17. Housed'
  <2>1. ASSUME NEW F \in Folder, disk[F] # None PROVE Belong(disk[F], F, joined')
    <3>1. Ids(disk[F]) \subseteq RunId /\ Belong(disk[F], F, joined)
      BY <2>1, <1>1, ListFacts DEF Typed, Housed
    <3> QED BY <3>1, <1>9, MoreJoined
  <2>2. ASSUME NEW i \in DOMAIN writes PROVE Belong(writes[i].runs, writes[i].folder, joined')
    <3>1. Ids(writes[i].runs) \subseteq RunId /\ Belong(writes[i].runs, writes[i].folder, joined)
      BY <1>1, ListFacts DEF Typed, Housed
    <3> QED BY <3>1, <1>9, MoreJoined
  <2>3. ASSUME mounting.read # None PROVE Belong(mounting.read, mounting.folder, joined')
    <3>1. Ids(mounting.read) \subseteq RunId /\ Belong(mounting.read, mounting.folder, joined)
      BY <2>3, <1>1, ListFacts DEF Typed, Housed
    <3> QED BY <3>1, <1>9, MoreJoined
  <2>4. ASSUME NEW F \in into, Belong(runs, F, joined) PROVE Belong(runs', F, joined') /\ Belong(x, F, joined')
    <3>1. Ids(runs) \subseteq RunId
      BY <1>3, ListFacts
    <3>2. Belong(runs, F, joined')
      BY <2>4, <3>1, <1>9, MoreJoined
    <3>3. Belong(runs', F, joined')
      BY <3>2, <1>6, <1>9 DEF Belong
    <3> QED BY <3>3, <1>7 DEF Belong
  <2>5. ASSUME mounting.pc = "persist" PROVE Belong(runs', mounting.folder, joined') /\ Belong(x, mounting.folder, joined')
    BY <2>4, <2>5, <1>1, <1>10 DEF Housed
  <2>6. ASSUME mounting.pc # "persist", persisted # None PROVE Belong(runs', persisted, joined') /\ Belong(x, persisted, joined')
    BY <2>4, <2>6, <1>1, <1>10 DEF Housed
  <2> QED BY <2>1, <2>2, <2>3, <2>5, <2>6, <1>2, <1>13 DEF Housed
<1>18. Away'
  <2>1. Gone(runs', forgotten) /\ Gone(x, forgotten)
    BY <1>1, <1>2, <1>6, <1>7 DEF Away, Gone
  <2> QED BY <2>1, <1>1, <1>2, <1>12, <1>13 DEF Away
<1>19. Keeps
  <2>1. ASSUME NEW s \in Ids(runs) PROVE s \in Ids(runs') /\ IsPrefix(Copy(runs, s).lines, Copy(runs', s).lines)
    <3>1. At(runs, s) \in DOMAIN runs /\ runs[At(runs, s)].id = s /\ Copy(runs, s) = runs[At(runs, s)] /\ Copy(runs, s).lines \in Seq(Nat)
      BY <1>3, TheCopy, ListFacts
    <3>2. PICK j \in DOMAIN runs' : runs'[j] = runs[At(runs, s)]
      BY <3>1, <1>6
    <3>3. s \in Ids(runs') /\ Distinct(runs')
      BY <1>6, ListFacts
    <3>4. j = At(runs', s) /\ Copy(runs', s) = runs'[At(runs', s)]
      BY <3>1, <3>2, <3>3, TheCopy
    <3>5. Copy(runs', s) = Copy(runs, s)
      BY <3>1, <3>2, <3>4
    <3> QED BY <3>1, <3>3, <3>5, OwnPrefix
  <2> QED BY <2>1 DEF Keeps, Carried
<1> QED BY <1>14, <1>15, <1>16, <1>17, <1>18, <1>19 DEF HInv

LEMMA BootStep == ASSUME HInv, boot PROVE HInv' /\ Keeps
<1>1. Typed /\ Stamped /\ Idle /\ Aimed /\ Housed /\ Away
  BY DEF HInv
<1> DEFINE first == Max({1} \cup {n + 1 : n \in LineIds(idb)})
           x == capRuns(runs')
<1>2. /\ open' = TRUE /\ runs = <<>> /\ driven = {} /\ starting = None /\ turn = NoTurn /\ puts = <<>> /\ mount = None /\ wiping = "no"
      /\ UNCHANGED <<driven, starting, turn, swapping, idb, disk, writes, mount, persisted, wiping, forgotten, joined, clock>>
      /\ \/ runs' = Interrupted(idb, first) /\ nextId' = first + Len(idb) /\ puts' = Append(puts, x)
         \/ runs' = idb /\ nextId' = first /\ UNCHANGED puts
  BY <1>1 DEF boot, Idle, saveRuns, files
<1>3. mounting' \in {NoMount} \cup {[folder |-> F, mode |-> "merge", by |-> "boot", pc |-> "load", read |-> None] : F \in {persisted} \ {None}}
  BY DEF boot
<1>4. Listed(idb) /\ Len(idb) \in Nat /\ persisted \in Folder \cup {None}
  BY <1>1, ListFacts DEF Typed
<1>5. first \in Nat /\ \A n \in LineIds(idb) : n < first
  <2>1. IsFiniteSet(LineIds(idb)) /\ LineIds(idb) \in SUBSET Nat
    BY <1>4, LinesFinite
  <2> QED BY <2>1, Beyond
<1> HIDE DEF first
<1>6. Listed(runs') /\ Ids(runs') = Ids(idb) /\ nextId' \in Nat /\ \A k \in LineIds(runs') : k < nextId'
  <2>1. CASE runs' = Interrupted(idb, first) /\ nextId' = first + Len(idb)
    <3>1. nextId' \in Nat
      BY <2>1, <1>4, <1>5, SMT
    <3>2. LET os == Interrupted(idb, first) IN
          /\ Listed(os) /\ Ids(os) = Ids(idb) /\ \A k \in LineIds(os) : k < first + Len(idb)
      BY <1>4, <1>5, Marked
    <3> QED BY <2>1, <3>1, <3>2
  <2>2. CASE runs' = idb /\ nextId' = first
    BY <2>2, <1>4, <1>5
  <2> QED BY <2>1, <2>2, <1>2
<1>7. Listed(x) /\ Ids(x) \subseteq Ids(idb)
  BY <1>6, Capped
<1> HIDE DEF x
<1>8. /\ puts' \in Seq(Seq(Thread)) /\ \A i \in DOMAIN puts' : Listed(puts'[i]) /\ puts'[i] = x
      /\ LastStored' = x \/ LastStored' = idb
  <2>0. DOMAIN puts = {}
    BY <1>1, <1>2, EmptySeq, LenProperties, SMT DEF Typed
  <2>3. puts \in Seq(Seq(Thread)) /\ \A i \in DOMAIN puts : Listed(puts[i])
    BY <1>1 DEF Typed
  <2>1. CASE puts' = Append(puts, x)
    <3>1. /\ puts' \in Seq(Seq(Thread)) /\ puts' # <<>> /\ puts'[Len(puts')] = x
          /\ \A i \in DOMAIN puts' : Listed(puts'[i]) /\ (puts'[i] = x \/ \E j \in DOMAIN puts : puts'[i] = puts[j])
      <4> DEFINE ps == puts
                 qs == puts'
      <4>1. Listed(x) /\ ps \in Seq(Seq(Thread)) /\ (\A i \in DOMAIN ps : Listed(ps[i])) /\ qs = Append(ps, x)
        BY <1>7, <2>1, <2>3
      <4> HIDE DEF ps, qs
      <4>2. /\ qs \in Seq(Seq(Thread)) /\ qs # <<>> /\ qs[Len(qs)] = x
            /\ \A i \in DOMAIN qs : Listed(qs[i]) /\ (qs[i] = x \/ \E j \in DOMAIN ps : qs[i] = ps[j])
        BY <4>1, PutOne
      <4> QED BY <4>2 DEF ps, qs
    <3> QED BY <3>1, <2>0 DEF LastStored
  <2>2. CASE UNCHANGED puts
    BY <2>0, <2>2, <2>3, <1>2 DEF LastStored
  <2> QED BY <2>1, <2>2, <1>2
<1>9. /\ mounting' \in Mount /\ mounting'.read = None /\ mounting'.mode = "merge" /\ mounting'.by = "boot" /\ mounting'.pc # "persist"
      /\ mounting'.pc # "flush" /\ (mounting'.pc # "none" => mounting'.folder \in Folder /\ mounting'.folder = persisted)
  <2>1. CASE mounting' = NoMount
    BY <2>1 DEF NoMount, Mount
  <2>2. CASE mounting' = [folder |-> persisted, mode |-> "merge", by |-> "boot", pc |-> "load", read |-> None] /\ persisted \in Folder
    BY <2>2 DEF Mount
  <2> QED BY <2>1, <2>2, <1>3, <1>4
<1>10. Typed'
  BY <1>1, <1>2, <1>6, <1>8, <1>9 DEF Typed
<1>11. Stamped' /\ Idle' /\ Aimed'
  <2>1. turn'.held = FALSE
    BY <1>2 DEF NoTurn
  <2>2. Stamped' /\ Idle'
    BY <2>1, <1>2, <1>6 DEF Stamped, Idle
  <2>3. Aimed'
    BY <1>2, <1>9 DEF Aimed
  <2> QED BY <2>2, <2>3
<1>12. Housed'
  <2>1. LastStored = idb
    BY <1>2 DEF LastStored
  <2>2. ASSUME persisted # None PROVE Belong(idb, persisted, joined)
    <3>1. mounting.pc # "persist"
      BY <1>1 DEF boot, Idle, NoMount
    <3> QED BY <2>1, <2>2, <3>1, <1>1 DEF Housed
  <2>3. persisted # None => Belong(runs', persisted, joined) /\ Belong(LastStored', persisted, joined)
    BY <2>2, <1>6, <1>7, <1>8 DEF Belong
  <2> QED BY <2>3, <1>1, <1>2, <1>9 DEF Housed
<1>13. Away'
  <2>1. Gone(idb, forgotten)
    BY <1>1, <1>2 DEF Away
  <2>2. Gone(runs', forgotten) /\ Gone(x, forgotten)
    BY <2>1, <1>6, <1>7 DEF Gone
  <2> QED BY <2>1, <2>2, <1>1, <1>2, <1>8, <1>9 DEF Away
<1>14. Keeps
  BY <1>2 DEF Keeps
<1> QED BY <1>10, <1>11, <1>12, <1>13, <1>14 DEF HInv

\* The page closes, by a reload or at the end of a reset.
LEMMA ClosedStep == ASSUME HInv, Reload \/ Wiped PROVE HInv' /\ Keeps
<1>1. Typed /\ Stamped /\ Idle /\ Aimed /\ Housed /\ Away
  BY DEF HInv
<1>2. Closed /\ ~MidMount /\ UNCHANGED <<persisted, joined, clock>>
      /\ \/ wiping = "no" /\ forgotten' = forgotten
         \/ forgotten' = {}
         \/ wiping = "runs" /\ puts = <<>> /\ forgotten' = forgotten
  BY DEF Reload, Wiped
<1> DEFINE x == capRuns(runs)
           allPuts == IF runsTimer THEN Append(puts, x) ELSE puts
           allWrites == IF stateTimer /\ mount # None THEN Append(writes, [folder |-> mount, runs |-> x]) ELSE writes
<1>3. /\ runs' = <<>> /\ driven' = {} /\ starting' = None /\ turn' = NoTurn /\ nextId' = 1
      /\ swapping' = FALSE /\ puts' = <<>> /\ writes' = <<>> /\ mount' = None /\ mounting' = NoMount /\ open' = FALSE /\ wiping' = "no"
  BY <1>2 DEF Closed
<1>4. PICK k \in 0 .. Len(allPuts) : idb' = IF k = 0 THEN idb ELSE allPuts[k]
  BY <1>2 DEF Closed
<1>5. PICK m \in 0 .. Len(allWrites) : disk' = [F \in Folder |-> After(allWrites, m, F)]
  BY <1>2 DEF Closed
<1>6. Listed(x) /\ Ids(x) \subseteq Ids(runs)
  BY <1>1, Capped DEF Typed
<1>7. puts \in Seq(Seq(Thread)) /\ (\A i \in DOMAIN puts : Listed(puts[i])) /\ Listed(idb)
  BY <1>1 DEF Typed
<1>8. /\ allPuts \in Seq(Seq(Thread))
      /\ \A i \in DOMAIN allPuts : Listed(allPuts[i]) /\ (allPuts[i] = x \/ \E j \in DOMAIN puts : allPuts[i] = puts[j])
  <2>1. CASE runsTimer
    <3>1. allPuts = Append(puts, x)
      BY <2>1
    <3> HIDE DEF allPuts, x
    <3> QED BY <3>1, <1>6, <1>7, PutOne
  <2>2. CASE ~runsTimer
    BY <2>2, <1>7
  <2> QED BY <2>1, <2>2
<1>9. /\ allWrites \in Seq(Write) /\ \A i \in DOMAIN allWrites : Listed(allWrites[i].runs)
      /\ \A i \in DOMAIN allWrites : Belong(allWrites[i].runs, allWrites[i].folder, joined)
      /\ \A i \in DOMAIN allWrites : Gone(allWrites[i].runs, forgotten)
  <2>1. CASE stateTimer /\ mount # None
    <3>1. allWrites = Append(writes, [folder |-> mount, runs |-> capRuns(runs)])
      BY <2>1
    <3> HIDE DEF allWrites
    <3> QED BY <2>1, <3>1, Mounted, WriteOne
  <2>2. CASE ~(stateTimer /\ mount # None)
    BY <2>2, <1>1 DEF Typed, Housed, Away
  <2> QED BY <2>1, <2>2
<1> HIDE DEF allPuts, allWrites, x
<1>10. Listed(idb') /\ (idb' = idb \/ idb' = x \/ \E j \in DOMAIN puts : idb' = puts[j])
  <2>1. CASE k = 0
    BY <2>1, <1>4, <1>7
  <2>2. CASE k # 0
    <3>1. k \in DOMAIN allPuts
      BY <2>2, <1>4, <1>8, LenProperties, SMT
    <3> QED BY <2>2, <3>1, <1>4, <1>8
  <2> QED BY <2>1, <2>2
<1>11. ASSUME NEW F \in Folder PROVE disk'[F] = disk[F] \/ \E i \in DOMAIN allWrites : allWrites[i].folder = F /\ disk'[F] = allWrites[i].runs
  <2>1. disk'[F] = After(allWrites, m, F)
    BY <1>5
  <2> QED BY <2>1, <1>5, <1>9, AfterIs
<1>12. ASSUME NEW F \in Folder
       PROVE  /\ disk'[F] \in Seq(Thread) \cup {None} /\ (disk'[F] # None => Listed(disk'[F]) /\ Belong(disk'[F], F, joined))
              /\ disk'[F] # None => Gone(disk'[F], forgotten)
  <2>1. CASE disk'[F] = disk[F]
    BY <2>1, <1>1 DEF Typed, Housed, Away
  <2>2. CASE \E i \in DOMAIN allWrites : allWrites[i].folder = F /\ disk'[F] = allWrites[i].runs
    <3>1. Listed(disk'[F]) /\ Belong(disk'[F], F, joined) /\ Gone(disk'[F], forgotten)
      BY <2>2, <1>9
    <3> QED BY <3>1 DEF Listed
  <2> QED BY <2>1, <2>2, <1>11
<1>13. disk' \in [Folder -> Seq(Thread) \cup {None}]
  <2>1. disk' = [F \in Folder |-> disk'[F]]
    BY <1>5
  <2> QED BY <2>1, <1>12
<1>14. Gone(idb', forgotten')
  <2>1. CASE forgotten' = {}
    BY <2>1 DEF Gone
  <2>2. Gone(x, forgotten)
    BY <1>1, <1>6 DEF Away, Gone
  <2>3. CASE wiping = "no" /\ forgotten' = forgotten
    BY <2>2, <2>3, <1>1, <1>10 DEF Away
  <2>4. CASE wiping = "runs" /\ puts = <<>> /\ forgotten' = forgotten
    <3>1. DOMAIN puts = {}
      BY <2>4, <1>7, EmptySeq, LenProperties, SMT
    <3>2. Gone(idb, forgotten)
      BY <2>4, <1>1 DEF Away, LastStored
    <3> QED BY <2>2, <2>4, <3>1, <3>2, <1>10
  <2> QED BY <2>1, <2>3, <2>4, <1>2
<1>15. persisted # None => Belong(idb', persisted, joined)
  <2> SUFFICES ASSUME persisted # None PROVE Belong(idb', persisted, joined)
    OBVIOUS
  <2>1. mounting.pc # "persist"
    BY <1>2 DEF MidMount
  <2>2. Belong(runs, persisted, joined) /\ Belong(LastStored, persisted, joined)
    BY <2>1, <1>1 DEF Housed
  <2>3. Belong(x, persisted, joined)
    BY <2>2, <1>6 DEF Belong
  <2>4. CASE puts = <<>>
    <3>1. DOMAIN puts = {}
      BY <2>4, <1>7, EmptySeq, LenProperties, SMT
    <3>2. Belong(idb, persisted, joined)
      BY <2>2, <2>4 DEF LastStored
    <3> QED BY <2>3, <3>1, <3>2, <1>10
  <2>5. CASE puts # <<>>
    <3>1. \A rs \in {idb} \cup ToSet(puts) : Belong(rs, persisted, joined)
      BY <2>5, <1>2 DEF MidMount, Belong
    <3>2. \A j \in DOMAIN puts : puts[j] \in ToSet(puts)
      BY DEF ToSet
    <3> QED BY <2>3, <3>1, <3>2, <1>10
  <2> QED BY <2>4, <2>5
<1>16. LastStored' = idb'
  BY <1>3 DEF LastStored
<1>17. DOMAIN puts' = {} /\ puts' \in Seq(Seq(Thread)) /\ DOMAIN writes' = {} /\ writes' \in Seq(Write)
  BY <1>3, EmptySeq, LenProperties, SMT
<1>18. NoMount \in Mount /\ NoMount.pc = "none" /\ NoMount.mode = "merge" /\ NoMount.read = None /\ NoMount.by = "boot"
  BY DEF NoMount, Mount
<1>19. NoTurn \in [run : RunId \cup {None}, held : BOOLEAN] /\ NoTurn.held = FALSE
  BY DEF NoTurn
<1>20. Typed'
  <2>1. \A F \in Folder : disk'[F] # None => Listed(disk'[F])
    BY <1>12
  <2>2. forgotten' \subseteq RunId
    BY <1>1, <1>2 DEF Typed
  <2>3. Listed(runs') /\ nextId' \in Nat
    BY <1>3, EmptyList
  <2>4. joined' \in [RunId -> SUBSET Folder] /\ persisted' \in Folder \cup {None} /\ clock' \in Nat
    BY <1>1, <1>2 DEF Typed
  <2>5. mounting' \in Mount /\ mounting'.read = None
    BY <1>3, <1>18
  <2>6. Listed(idb')
    BY <1>10
  <2> QED BY <2>1, <2>2, <2>3, <2>4, <2>5, <2>6, <1>3, <1>13, <1>17, <1>19 DEF Typed
<1>21. Stamped' /\ Idle'
  BY <1>3, <1>19, EmptyList DEF Stamped, Idle
<1>22. Aimed'
  BY <1>3, <1>18 DEF Aimed
<1>23. Housed'
  <2>1. \A F \in Folder : disk'[F] # None => Belong(disk'[F], F, joined)
    BY <1>12
  <2> QED BY <2>1, <1>2, <1>3, <1>15, <1>16, <1>17, <1>18, NothingLeft DEF Housed
<1>24. Away'
  <2>1. forgotten' = {} \/ forgotten' = forgotten
    BY <1>2
  <2>2. \A F \in Folder : disk'[F] # None => Gone(disk'[F], forgotten')
    BY <2>1, <1>12 DEF Gone
  <2>3. mounting'.read = None /\ wiping' = "no" /\ Gone(runs', forgotten')
    BY <1>3, <1>18, NothingLeft
  <2> QED BY <2>2, <2>3, <1>14, <1>17 DEF Away
<1>25. Keeps
  BY <1>3 DEF Keeps
<1> QED BY <1>20, <1>21, <1>22, <1>23, <1>24, <1>25 DEF HInv

LEMMA ElsewhereStep == ASSUME HInv, NEW F \in Folder, NEW r \in RunId, ReplyElsewhere(F, r) PROVE HInv' /\ Keeps
<1>1. Typed /\ Stamped /\ Idle /\ Aimed /\ Housed /\ Away
  BY DEF HInv
<1> DEFINE rs == disk[F]
           n == Max({0} \cup LineIds(rs)) + 1
           c == Copy(rs, r)
           q == Append(c.lines, n)
           t == [c EXCEPT !.last = clock + 1, !.lines = q]
<1>2. /\ rs # None /\ r \in Ids(rs) /\ clock' = clock + 1
      /\ disk' = [disk EXCEPT ![F] = With(rs, r, t)]
      /\ UNCHANGED <<runs, driven, starting, turn, nextId, swapping, idb, puts, writes, mount, mounting, persisted, open, wiping, forgotten, joined>>
  <2>1. /\ rs # None /\ r \in Ids(rs) /\ clock' = clock + 1
        /\ UNCHANGED <<runs, driven, starting, turn, nextId, swapping, idb, puts, writes, mount, mounting, persisted, open, wiping, forgotten, joined>>
    BY DEF ReplyElsewhere, memory, session, files
  <2>2. disk' = [disk EXCEPT ![F] = With(rs, r, t)]
    BY Zenon DEF ReplyElsewhere, With, Copy
  <2> QED BY <2>1, <2>2
<1>3. /\ Listed(rs) /\ Belong(rs, F, joined) /\ Gone(rs, forgotten) /\ clock \in Nat
      /\ disk \in [Folder -> Seq(Thread) \cup {None}] /\ \A G \in Folder : disk[G] # None => Listed(disk[G])
  BY <1>1, <1>2 DEF Typed, Housed, Away
<1>4. c \in Thread /\ c.id = r /\ c.lines \in Seq(Nat) /\ IsInjective(c.lines) /\ ToSet(c.lines) \subseteq LineIds(rs)
  BY <1>2, <1>3, TheCopy, ListFacts DEF LineIds
<1>5. n \in Nat /\ n \notin LineIds(rs)
  BY <1>3, PastAll
<1>6. clock + 1 \in Nat
  BY <1>3, SMT
<1> HIDE DEF rs, n, c
<1>7. q \in Seq(Nat) /\ IsInjective(q)
  BY <1>4, <1>5, StampedLine
<1> HIDE DEF q
<1>8. t \in Thread /\ t.id = r /\ t.lines = q
  BY <1>4, <1>6, <1>7 DEF Thread
<1> HIDE DEF t
<1>9. LET os == With(rs, r, t) IN Listed(os) /\ Ids(os) = Ids(rs)
  BY <1>2, <1>3, <1>7, <1>8, Patched
<1> DEFINE os == With(rs, r, t)
<1>10. Listed(os) /\ Belong(os, F, joined) /\ Gone(os, forgotten) /\ os \in Seq(Thread)
  BY <1>3, <1>9 DEF Belong, Gone, Listed
<1>11. disk' = [disk EXCEPT ![F] = os]
  BY <1>2
<1> HIDE DEF os
<1>12. disk' \in [Folder -> Seq(Thread) \cup {None}] /\ \A G \in Folder : disk'[G] = IF G = F THEN os ELSE disk[G]
  BY <1>3, <1>10, <1>11
<1>13. LastStored' = LastStored
  BY <1>2 DEF LastStored
<1>14. Typed'
  <2>1. \A G \in Folder : disk'[G] # None => Listed(disk'[G])
    BY <1>3, <1>10, <1>12
  <2>2. clock' \in Nat
    BY <1>2, <1>6
  <2> QED BY <2>1, <2>2, <1>1, <1>2, <1>12 DEF Typed
<1>15. Stamped' /\ Idle' /\ Aimed'
  BY <1>1, <1>2 DEF Stamped, Idle, Aimed
<1>16. Housed'
  <2>1. \A G \in Folder : disk'[G] # None => Belong(disk'[G], G, joined)
    BY <1>1, <1>10, <1>12 DEF Housed
  <2> QED BY <2>1, <1>1, <1>2, <1>13 DEF Housed
<1>17. Away'
  <2>1. \A G \in Folder : disk'[G] # None => Gone(disk'[G], forgotten)
    BY <1>1, <1>10, <1>12 DEF Away
  <2> QED BY <2>1, <1>1, <1>2, <1>13 DEF Away
<1>18. Keeps
  BY <1>1, <1>2, SameKept DEF Typed
<1> QED BY <1>14, <1>15, <1>16, <1>17, <1>18 DEF HInv

\* The folder's threads and those of memory become one list.
LEMMA HydrateStep == ASSUME HInv, Hydrate PROVE HInv' /\ Keeps
<1>1. Typed /\ Stamped /\ Idle /\ Aimed /\ Housed /\ Away
  BY DEF HInv
<1> DEFINE read == mounting.read
           F == mounting.folder
           merged == IF read = None THEN runs ELSE hydrateRuns(read, mounting.mode)
           id == IF read = None THEN nextId ELSE reseedTraceIds(merged)
           x == capRuns(runs')
<1>2. /\ open /\ mounting.pc = "persist" /\ persisted' = F
      /\ \/ runs' = Interrupted(merged, id) /\ nextId' = id + Len(merged)
         \/ runs' = merged /\ nextId' = id
      /\ IF read = None THEN writes' = Append(writes, [folder |-> F, runs |-> capRuns(runs)]) ELSE UNCHANGED writes
      /\ turn' = [turn EXCEPT !.held = turn.held /\ turn.run \in Ids(merged)]
      /\ mounting' = NoMount /\ swapping' = FALSE
      /\ IF mounting.mode = "replace" THEN puts' = Append(puts, x) ELSE UNCHANGED puts
      /\ UNCHANGED <<driven, starting, idb, disk, mount, open, wiping, forgotten, joined, clock>>
  BY DEF Hydrate, Settled, saveRuns, writeFolderState, files
<1>3. /\ Listed(runs) /\ (read # None => Listed(read)) /\ F \in Folder /\ Belong(runs, F, joined) /\ nextId \in Nat
      /\ (read # None => Belong(read, F, joined) /\ Gone(read, forgotten)) /\ Gone(runs, forgotten)
      /\ (mounting.mode = "merge" => Belong(LastStored, F, joined)) /\ mounting.mode \in {"merge", "replace"}
      /\ (mounting.mode = "replace" => runs = <<>>) /\ mount \in {None, F}
      /\ (\A n \in LineIds(runs) : n < nextId)
  BY <1>1, <1>2 DEF Typed, Housed, Away, Aimed, Stamped, Mount
<1>4. /\ Listed(merged) /\ (read = None => merged = runs) /\ (read # None => Ids(merged) \subseteq Ids(runs) \cup Ids(read))
      /\ \A r \in driven \cap Ids(runs) :
           \/ r \in Ids(merged) /\ Copy(merged, r) = Copy(runs, r)
           \/ Len(merged) = MaxRuns /\ r \notin Ids(merged)
  <2>1. CASE read = None
    BY <2>1, <1>3
  <2>2. CASE read # None
    <3>1. merged = hydrateRuns(read, mounting.mode)
      BY <2>2
    <3>2. /\ Listed(merged) /\ Ids(merged) \subseteq Ids(runs) \cup Ids(read)
          /\ mounting.mode # "replace" => \A r \in driven \cap Ids(runs) :
               \/ r \in Ids(merged) /\ Copy(merged, r) = Copy(runs, r)
               \/ Len(merged) = MaxRuns /\ r \notin Ids(merged)
      <4> HIDE DEF merged, read
      <4> QED BY <3>1, <2>2, <1>3, Merged
    <3>3. mounting.mode = "replace" => Ids(runs) = {}
      BY <1>3, EmptyList
    <3> HIDE DEF merged
    <3> QED BY <2>2, <3>2, <3>3
  <2> QED BY <2>1, <2>2
<1>5. id \in Nat /\ \A n \in LineIds(merged) : n < id
  <2>1. CASE read = None
    BY <2>1, <1>3, <1>4
  <2>2. CASE read # None
    <3>1. id = reseedTraceIds(merged)
      BY <2>2
    <3> HIDE DEF merged, id
    <3> QED BY <3>1, <1>3, <1>4, Reseeded
  <2> QED BY <2>1, <2>2
<1> HIDE DEF merged, id, F, read
<1>6. Belong(merged, F, joined) /\ Gone(merged, forgotten)
  BY <1>3, <1>4 DEF Belong, Gone
<1>7. /\ Listed(runs') /\ Ids(runs') = Ids(merged) /\ nextId' \in Nat /\ (\A k \in LineIds(runs') : k < nextId') /\ Len(runs') = Len(merged)
      /\ \A r \in Ids(merged) : IsPrefix(Copy(merged, r).lines, Copy(runs', r).lines)
  <2>0. Len(merged) \in Nat
    BY <1>4, ListFacts
  <2>1. CASE runs' = Interrupted(merged, id) /\ nextId' = id + Len(merged)
    <3>1. nextId' \in Nat
      BY <2>0, <2>1, <1>5, SMT
    <3>2. LET os == Interrupted(merged, id) IN
          /\ Listed(os) /\ Ids(os) = Ids(merged) /\ (\A k \in LineIds(os) : k < id + Len(merged)) /\ Len(os) = Len(merged)
          /\ \A r \in Ids(merged) : IsPrefix(Copy(merged, r).lines, Copy(os, r).lines)
      BY <1>4, <1>5, Marked
    <3> QED BY <2>1, <3>1, <3>2
  <2>2. CASE runs' = merged /\ nextId' = id
    <3>1. ASSUME NEW r \in Ids(merged) PROVE IsPrefix(Copy(merged, r).lines, Copy(merged, r).lines)
      <4>1. Copy(merged, r).lines \in Seq(Nat)
        BY <1>4, TheCopy, ListFacts
      <4> QED BY <4>1, OwnPrefix
    <3> QED BY <2>2, <3>1, <1>4, <1>5
  <2> QED BY <2>1, <2>2, <1>2
<1>8. Listed(x) /\ Ids(x) \subseteq Ids(runs')
  BY <1>7, Capped
<1> HIDE DEF x
<1>9. /\ writes' \in Seq(Write) /\ \A i \in DOMAIN writes' : Listed(writes'[i].runs)
      /\ \A i \in DOMAIN writes' : Belong(writes'[i].runs, writes'[i].folder, joined)
      /\ \A i \in DOMAIN writes' : Gone(writes'[i].runs, forgotten)
  <2>1. CASE read = None
    BY <2>1, <1>2, <1>3, WriteOne
  <2>2. CASE read # None
    BY <2>2, <1>1, <1>2 DEF Typed, Housed, Away
  <2> QED BY <2>1, <2>2
<1>10. /\ puts' \in Seq(Seq(Thread))
       /\ \A i \in DOMAIN puts' : Listed(puts'[i]) /\ (puts'[i] = x \/ \E j \in DOMAIN puts : puts'[i] = puts[j])
       /\ LastStored' = x \/ (mounting.mode = "merge" /\ LastStored' = LastStored)
  <2>1. puts \in Seq(Seq(Thread)) /\ \A i \in DOMAIN puts : Listed(puts[i])
    BY <1>1 DEF Typed
  <2>2. CASE mounting.mode = "replace"
    <3>1. puts' = Append(puts, x)
      BY <2>2, <1>2
    <3>2. /\ puts' \in Seq(Seq(Thread)) /\ puts' # <<>> /\ puts'[Len(puts')] = x
          /\ \A i \in DOMAIN puts' : Listed(puts'[i]) /\ (puts'[i] = x \/ \E j \in DOMAIN puts : puts'[i] = puts[j])
      BY <2>1, <3>1, <1>8, PutOne
    <3> QED BY <3>2 DEF LastStored
  <2>3. CASE mounting.mode = "merge"
    <3>1. UNCHANGED <<puts, idb>>
      BY <2>3, <1>2
    <3> QED BY <2>1, <2>3, <3>1 DEF LastStored
  <2> QED BY <2>2, <2>3, <1>3
<1>11. NoMount \in Mount /\ NoMount.pc = "none" /\ NoMount.mode = "merge" /\ NoMount.read = None /\ NoMount.by = "boot"
  BY DEF NoMount, Mount
<1>12. Typed'
  <2>1. turn' \in [run : RunId \cup {None}, held : BOOLEAN]
    BY <1>1, <1>2 DEF Typed
  <2> QED BY <2>1, <1>1, <1>2, <1>3, <1>7, <1>9, <1>10, <1>11 DEF Typed
<1>13. Stamped' /\ Idle' /\ Aimed'
  <2>1. turn'.held => turn'.run \in Ids(merged)
    BY <1>1, <1>2 DEF Typed
  <2>2. Stamped'
    BY <2>1, <1>7 DEF Stamped
  <2>3. Idle'
    BY <1>2 DEF Idle
  <2>4. Aimed'
    BY <1>2, <1>3, <1>11 DEF Aimed
  <2> QED BY <2>2, <2>3, <2>4
<1>14. Housed'
  <2>1. Belong(runs', F, joined) /\ Belong(x, F, joined)
    BY <1>6, <1>7, <1>8 DEF Belong
  <2>2. Belong(LastStored', F, joined)
    BY <2>1, <1>3, <1>10
  <2> QED BY <2>1, <2>2, <1>1, <1>2, <1>9, <1>11 DEF Housed
<1>15. Away'
  <2>1. Gone(runs', forgotten) /\ Gone(x, forgotten)
    BY <1>6, <1>7, <1>8 DEF Gone
  <2>2. wiping = "no" => Gone(idb, forgotten) /\ \A i \in DOMAIN puts' : Gone(puts'[i], forgotten)
    BY <2>1, <1>1, <1>10 DEF Away
  <2>3. wiping = "runs" => Gone(LastStored', forgotten)
    BY <2>1, <1>1, <1>10 DEF Away
  <2>4. mounting'.read = None /\ UNCHANGED <<disk, idb, wiping, forgotten>>
    BY <1>2, <1>11
  <2> QED BY <2>1, <2>2, <2>3, <2>4, <1>1, <1>9 DEF Away
<1>16. Keeps
  <2>1. ASSUME NEW r \in driven \cap Ids(runs) PROVE Carried(r)
    <3>1. CASE r \in Ids(merged) /\ Copy(merged, r) = Copy(runs, r)
      <4>1. IsPrefix(Copy(merged, r).lines, Copy(runs', r).lines) /\ r \in Ids(runs')
        BY <3>1, <1>7
      <4> QED BY <3>1, <4>1 DEF Carried
    <3>2. CASE Len(merged) = MaxRuns /\ r \notin Ids(merged)
      BY <3>2, <1>7 DEF Carried
    <3> QED BY <3>1, <3>2, <1>4
  <2> QED BY <2>1 DEF Keeps
<1> QED BY <1>12, <1>13, <1>14, <1>15, <1>16 DEF HInv

-----------------------------------------------------------------------------
(* The invariant holds. *)

LEMMA InitHInv == ASSUME Init PROVE HInv
<1>1. PICK h \in Histories : idb = h.idb /\ disk = h.disk /\ persisted = h.persisted
  BY DEF Init
<1>2. /\ persisted \in Folder \cup {None} /\ Listed(idb)
      /\ disk \in [Folder -> Seq(Thread) \cup {None}] /\ \A F \in Folder : disk[F] # None => Listed(disk[F])
  BY <1>1, HistoriesAssumption
<1>3. /\ runs = <<>> /\ driven = {} /\ starting = None /\ turn = NoTurn /\ nextId = 1 /\ puts = <<>> /\ writes = <<>> /\ mount = None
      /\ mounting = NoMount /\ swapping = FALSE /\ open = FALSE /\ wiping = "no" /\ forgotten = {} /\ clock = 9
      /\ joined = [r \in RunId |-> {F \in Folder : disk[F] # None /\ r \in Ids(disk[F])}
                                   \cup (IF r \in Ids(idb) THEN {persisted} \ {None} ELSE {})]
  BY DEF Init
<1>4. joined \in [RunId -> SUBSET Folder]
  BY <1>2, <1>3
<1>5. DOMAIN puts = {} /\ puts \in Seq(Seq(Thread)) /\ DOMAIN writes = {} /\ writes \in Seq(Write)
  BY <1>3, EmptySeq, LenProperties, SMT
<1>6. NoMount \in Mount /\ NoMount.pc = "none" /\ NoMount.mode = "merge" /\ NoMount.read = None /\ NoMount.by = "boot"
  BY DEF NoMount, Mount
<1>7. NoTurn \in [run : RunId \cup {None}, held : BOOLEAN] /\ NoTurn.held = FALSE
  BY DEF NoTurn
<1>8. Listed(runs) /\ nextId \in Nat /\ clock \in Nat /\ driven \subseteq RunId /\ forgotten \subseteq RunId
  BY <1>3, EmptyList
<1>9. Typed
  BY <1>2, <1>3, <1>4, <1>5, <1>6, <1>7, <1>8 DEF Typed
<1>10. Stamped /\ Idle
  BY <1>3, <1>7, EmptyList DEF Stamped, Idle
<1>11. Aimed
  BY <1>3, <1>6 DEF Aimed
<1>12. Housed
  <2>1. ASSUME NEW F \in Folder, disk[F] # None PROVE Belong(disk[F], F, joined)
    <3>1. Ids(disk[F]) \subseteq RunId
      BY <2>1, <1>2, ListFacts
    <3> QED BY <2>1, <3>1, <1>3 DEF Belong
  <2>2. ASSUME persisted # None PROVE Belong(idb, persisted, joined)
    <3>1. Ids(idb) \subseteq RunId
      BY <1>2, ListFacts
    <3> QED BY <2>2, <3>1, <1>3 DEF Belong
  <2>3. LastStored = idb
    BY <1>3 DEF LastStored
  <2> QED BY <2>1, <2>2, <2>3, <1>3, <1>5, <1>6, NothingLeft DEF Housed
<1>13. Away
  <2>1. \A rs : Gone(rs, forgotten)
    BY <1>3 DEF Gone
  <2> QED BY <2>1, <1>3, <1>6 DEF Away
<1> QED BY <1>9, <1>10, <1>11, <1>12, <1>13 DEF HInv

LEMMA NextHInv == ASSUME HInv, Next PROVE HInv' /\ Keeps
<1>1. CASE RunsTimer \/ Announced \/ StartTurn \/ FlushTurn \/ FileChanged \/ SaveTimer
  BY <1>1, QuietStep
<1>2. CASE Committed
  BY <1>2, CommittedStep
<1>3. CASE Written
  BY <1>3, WrittenStep
<1>4. CASE StateTimer
  BY <1>4, StateTimerStep
<1>5. CASE appendLine
  BY <1>5, LineAppended
<1>6. CASE \E s \in {"review", "done", "error"} : EndTurn(s)
  BY <1>6, TurnEnded
<1>7. ASSUME NEW r \in RunId, startRun(r) PROVE HInv' /\ Keeps
  BY <1>7, StartStep
<1>8. ASSUME NEW r \in RunId, replyToRun(r) PROVE HInv' /\ Keeps
  BY <1>8, Replied
<1>9. ASSUME NEW r \in RunId, TitleArrives(r) PROVE HInv' /\ Keeps
  BY <1>9, TitleArrived
<1>10. ASSUME NEW r \in RunId, renameRun(r) \/ markReviewed(r) \/ deleteRun(r) PROVE HInv' /\ Keeps
  BY <1>10, RunClicked
<1>11. ASSUME NEW F \in Folder, Pick(F) PROVE HInv' /\ Keeps
  BY <1>11, PickStep
<1>12. ASSUME NEW F \in Folder, Swap(F) PROVE HInv' /\ Keeps
  BY <1>12, SwapStep
<1>13. ASSUME NEW F \in Folder, NEW r \in RunId, ReplyElsewhere(F, r) PROVE HInv' /\ Keeps
  BY <1>13, ElsewhereStep
<1>14. CASE SwapFlushed
  BY <1>14, SwapFlushedStep
<1>15. CASE SetMount
  BY <1>15, SetMountStep
<1>16. CASE Hydrate
  BY <1>16, HydrateStep
<1>17. CASE unmount
  BY <1>17, UnmountStep
<1>18. CASE boot
  BY <1>18, BootStep
<1>19. CASE Reload \/ Wiped
  BY <1>19, ClosedStep
<1>20. CASE resetProject
  BY <1>20, ResetStep
<1>21. CASE SnapshotDeleted
  BY <1>21, SnapshotStep
<1> QED BY <1>1, <1>2, <1>3, <1>4, <1>5, <1>6, <1>7, <1>8, <1>9, <1>10, <1>11, <1>12, <1>13, <1>14, <1>15,
           <1>16, <1>17, <1>18, <1>19, <1>20, <1>21, Zenon DEF Next

LEMMA StillHInv == ASSUME HInv, UNCHANGED vars PROVE HInv'
<1>1. UNCHANGED <<runs, driven, starting, turn, nextId, swapping, idb, puts, disk, writes, mount, mounting, persisted, open,
                  wiping, forgotten, joined, clock>>
  BY DEF vars, memory, stores, session, files
<1>2. LastStored' = LastStored
  BY <1>1 DEF LastStored
<1>3. Typed' /\ Stamped' /\ Idle' /\ Aimed'
  BY <1>1 DEF HInv, Typed, Stamped, Idle, Aimed
<1>4. Housed' /\ Away'
  BY <1>1, <1>2 DEF HInv, Housed, Away
<1> QED BY <1>3, <1>4 DEF HInv

-----------------------------------------------------------------------------
(* The theorems. *)

LEMMA HistoryInductive == Spec => []HInv
<1>1. Init => HInv
  BY InitHInv
<1>2. HInv /\ [Next]_vars => HInv'
  BY NextHInv, StillHInv
<1> QED BY <1>1, <1>2, PTL DEF Spec

\* Threads stay with the folders the user has had them mounted with, whatever is in flight when the user mounts, swaps,
\* resets or reloads; the lines of a thread have different ids; and what a reset has deleted does not come back.
THEOREM HistoryTrueHolds == Spec => []HistoryTrue
<1>1. HInv => HistoryTrue
  <2> SUFFICES ASSUME HInv PROVE HistoryTrue
    OBVIOUS
  <2>1. OneProject
    BY DEF HInv, Housed, Belong, OneProject
  <2>2. LinesDistinct
    BY DEF HInv, Typed, Listed, LinesDistinct
  <2>3. ResetForgets
    BY DEF HInv, Away, Gone, ResetForgets
  <2> QED BY <2>1, <2>2, <2>3 DEF HistoryTrue
<1> QED BY <1>1, HistoryInductive, PTL

\* No mount, save or hydration takes a thread that a turn of this session drove, nor a line of it, from memory; only the
\* user's own deletion, a swap, a reset, the end of the page or a full list does.
THEOREM DrivenKeptHolds == Spec => DrivenKept
<1> DEFINE Kept == \A r \in driven \cap Ids(runs) :
                     \/ r \in Ids(runs') /\ IsPrefix(Copy(runs, r).lines, Copy(runs', r).lines)
                     \/ Len(runs') = MaxRuns /\ r \notin Ids(runs')
                     \/ deleteRun(r) \/ ~open' \/ wiping' = "snapshot" \/ SwapFlushed
<1>1. HInv /\ [Next]_vars => [Kept]_vars
  <2> SUFFICES ASSUME HInv, Next PROVE Kept
    OBVIOUS
  <2>1. Keeps
    BY NextHInv
  <2> QED BY <2>1 DEF Keeps, Carried
<1>2. DrivenKept <=> [][Kept]_vars
  BY DEF DrivenKept
<1> HIDE DEF Kept
<1> QED BY <1>1, <1>2, HistoryInductive, PTL DEF Spec

-----------------------------------------------------------------------------
(* The transcript of a thread (AgentThread): blocks, calls and messages, and the turns of a request. *)

BlockOf == [type : {"thinking", "text", "tool_use", "tool_result"}, id : Nat]
CallOf == [id : Nat, arguments : {"object", "null", "broken"}, rawContent : Seq(BlockOf)]
Contents == {"", "text", "skipped", "error", "output"}
MessageOf == [role : {"system", "user", "assistant", "tool"}, content : Contents, toolCalls : Seq(CallOf), toolCallId : Nat]
TurnOf == [role : {"user", "assistant"}, content : Seq(BlockOf)]

\* A recursion over the numbers up to a last one has a solution.
Solves(f, L, x, s) == f[0] = x /\ \A n \in 1 .. L : f[n] = s[n][f[n - 1]]

LEMMA Recursion ==
  ASSUME NEW L \in Nat, NEW X, NEW x \in X, NEW s \in [1 .. L -> [X -> X]]
  PROVE  \E f \in [0 .. L -> X] : Solves(f, L, x, s)
<1> USE DEF Solves
<1> DEFINE Built(m) == \E f \in [0 .. m -> X] : f[0] = x /\ \A n \in 1 .. m : f[n] = s[n][f[n - 1]]
           Those == {m \in Nat : m <= L /\ ~Built(m)}
<1>1. Those = {}
  <2> SUFFICES ASSUME Those # {} PROVE FALSE
    OBVIOUS
  <2>1. PICK m \in Those : \A j \in Those : m <= j
    <3>1. Those \in SUBSET Nat
      OBVIOUS
    <3> HIDE DEF Those
    <3> QED BY <3>1, LeastElement
  <2>2. CASE m = 0
    <3> DEFINE f == [n \in 0 .. 0 |-> x]
    <3>1. f \in [0 .. 0 -> X] /\ f[0] = x /\ 1 .. 0 = {}
      BY SMT
    <3>2. Built(0)
      BY <3>1
    <3> QED BY <3>2, <2>1, <2>2
  <2>3. CASE m # 0
    <3>1. m \in Nat /\ m - 1 \in Nat /\ m <= L /\ m - 1 <= L /\ ~(m <= m - 1)
      BY <2>1, <2>3, SMT
    <3>2. PICK f \in [0 .. m - 1 -> X] : f[0] = x /\ \A n \in 1 .. m - 1 : f[n] = s[n][f[n - 1]]
      BY <3>1, <2>1
    <3> DEFINE h == [n \in 0 .. m |-> IF n = m THEN s[m][f[m - 1]] ELSE f[n]]
    <3>3. m - 1 \in 0 .. m - 1 /\ m \in 1 .. L /\ \A n \in 0 .. m : n # m => n \in 0 .. m - 1
      BY <3>1, SMT
    <3>4. h \in [0 .. m -> X]
      BY <3>3
    <3>5. h[0] = x
      BY <3>1, <3>2, <2>3
    <3>6. ASSUME NEW n \in 1 .. m PROVE h[n] = s[n][h[n - 1]]
      <4>1. n \in 0 .. m /\ n - 1 \in 0 .. m /\ n - 1 # m /\ (n # m => n \in 1 .. m - 1)
        BY <3>1, SMT
      <4>2. h[n - 1] = f[n - 1]
        BY <4>1
      <4>3. CASE n = m
        BY <4>1, <4>2, <4>3
      <4>4. CASE n # m
        BY <4>1, <4>2, <4>4, <3>2
      <4> QED BY <4>3, <4>4
    <3> HIDE DEF h
    <3>7. Built(m)
      BY <3>4, <3>5, <3>6
    <3> QED BY <3>7, <2>1
  <2> QED BY <2>2, <2>3
<1>2. L \notin Those
  BY <1>1
<1>3. L <= L
  BY SMT
<1>4. \E f \in [0 .. L -> X] : f[0] = x /\ \A n \in 1 .. L : f[n] = s[n][f[n - 1]]
  BY <1>2, <1>3
<1> QED BY <1>4

\* The ids that IdsOf collects, block after block.
Collects(f, bs, type) ==
    /\ f[0] = <<>>
    /\ \A n \in 1 .. Len(bs) : f[n] = IF bs[n].type = type THEN Append(f[n - 1], bs[n].id) ELSE f[n - 1]

LEMMA IdsBuilt ==
  ASSUME NEW bs \in Seq(BlockOf), NEW type
  PROVE  \E f \in [0 .. Len(bs) -> Seq(Nat)] : Collects(f, bs, type) /\ T!IdsOf(bs, type) = f[Len(bs)]
<1> DEFINE L == Len(bs)
           s == [n \in 1 .. L |-> [q \in Seq(Nat) |-> IF bs[n].type = type THEN Append(q, bs[n].id) ELSE q]]
           Of(g) == g = [n \in 0 .. L |-> IF n = 0 THEN <<>> ELSE IF bs[n].type = type THEN Append(g[n - 1], bs[n].id) ELSE g[n - 1]]
           of == CHOOSE g : Of(g)
<1>1. L \in Nat /\ \A n \in 1 .. L : bs[n] \in BlockOf
  BY LenProperties, ElementOfSeq
<1>2. \A n \in 1 .. L : bs[n].id \in Nat
  BY <1>1 DEF BlockOf
<1>3. \A n \in 1 .. L : [q \in Seq(Nat) |-> IF bs[n].type = type THEN Append(q, bs[n].id) ELSE q] \in [Seq(Nat) -> Seq(Nat)]
  <2> SUFFICES ASSUME NEW n \in 1 .. L, NEW q \in Seq(Nat) PROVE (IF bs[n].type = type THEN Append(q, bs[n].id) ELSE q) \in Seq(Nat)
    OBVIOUS
  <2>1. Append(q, bs[n].id) \in Seq(Nat)
    BY <1>2, AppendProperties
  <2> QED BY <2>1
<1>4. s \in [1 .. L -> [Seq(Nat) -> Seq(Nat)]]
  BY <1>3
<1>5. <<>> \in Seq(Nat)
  OBVIOUS
<1>6. PICK f \in [0 .. L -> Seq(Nat)] : f[0] = <<>> /\ \A n \in 1 .. L : f[n] = s[n][f[n - 1]]
  <2>1. \A M \in Nat : \A Y, y, r : y \in Y /\ r \in [1 .. M -> [Y -> Y]] => \E f \in [0 .. M -> Y] : Solves(f, M, y, r)
    BY Recursion
  <2>2. \A r : r \in [1 .. L -> [Seq(Nat) -> Seq(Nat)]] => \E f \in [0 .. L -> Seq(Nat)] : Solves(f, L, <<>>, r)
    BY <2>1, <1>1, <1>5
  <2>3. \E f \in [0 .. L -> Seq(Nat)] : Solves(f, L, <<>>, s)
    BY <2>2, <1>4
  <2> QED BY <2>3 DEF Solves
<1>7. \A n \in 1 .. L : f[n] = IF bs[n].type = type THEN Append(f[n - 1], bs[n].id) ELSE f[n - 1]
  <2> SUFFICES ASSUME NEW n \in 1 .. L PROVE f[n] = IF bs[n].type = type THEN Append(f[n - 1], bs[n].id) ELSE f[n - 1]
    OBVIOUS
  <2>1. n - 1 \in 0 .. L
    BY <1>1, SMT
  <2>2. f[n - 1] \in Seq(Nat)
    BY <2>1
  <2>3. s[n][f[n - 1]] = IF bs[n].type = type THEN Append(f[n - 1], bs[n].id) ELSE f[n - 1]
    BY <2>2
  <2> QED BY <2>3, <1>6
<1>8. Of(f)
  <2>1. f = [n \in 0 .. L |-> f[n]]
    OBVIOUS
  <2>2. \A n \in 0 .. L : n # 0 => n \in 1 .. L
    BY <1>1, SMT
  <2>3. \A n \in 0 .. L : f[n] = IF n = 0 THEN <<>> ELSE IF bs[n].type = type THEN Append(f[n - 1], bs[n].id) ELSE f[n - 1]
    BY <2>2, <1>6, <1>7
  <2> QED BY <2>1, <2>3
<1>9. Of(of)
  <2> HIDE DEF Of
  <2> QED BY <1>8
<1>10. T!IdsOf(bs, type) = of[L]
  BY DEF T!IdsOf
<1> HIDE DEF of
<1>11. of \in [0 .. L -> Seq(Nat)]
  <2> DEFINE Bad == {n \in Nat : n <= L /\ of[n] # f[n]}
  <2>1. Bad = {}
    <3> SUFFICES ASSUME Bad # {} PROVE FALSE
      OBVIOUS
    <3>1. PICK n \in Bad : \A j \in Bad : n <= j
      <4>1. Bad \in SUBSET Nat
        OBVIOUS
      <4> HIDE DEF Bad
      <4> QED BY <4>1, LeastElement
    <3>2. n \in Nat /\ n \in 0 .. L /\ 0 \in 0 .. L
      BY <3>1, <1>1, SMT
    <3>3. CASE n = 0
      BY <3>1, <3>2, <3>3, <1>6, <1>9
    <3>4. CASE n # 0
      <4>1. n - 1 \in Nat /\ n - 1 <= L /\ ~(n <= n - 1) /\ n \in 1 .. L
        BY <3>2, <3>4, <1>1, SMT
      <4>2. of[n - 1] = f[n - 1]
        BY <4>1, <3>1
      <4>3. of[n] = IF bs[n].type = type THEN Append(of[n - 1], bs[n].id) ELSE of[n - 1]
        BY <3>2, <3>4, <1>9
      <4> QED BY <4>1, <4>2, <4>3, <1>7, <3>1
    <3> QED BY <3>3, <3>4
  <2>2. \A n \in 0 .. L : n \in Nat /\ n <= L
    BY <1>1, SMT
  <2>3. of = [n \in 0 .. L |-> f[n]]
    BY <2>1, <2>2, <1>9
  <2> QED BY <2>3
<1>12. of[0] = <<>> /\ \A n \in 1 .. L : of[n] = IF bs[n].type = type THEN Append(of[n - 1], bs[n].id) ELSE of[n - 1]
  <2>1. 0 \in 0 .. L /\ \A n \in 1 .. L : n \in 0 .. L /\ n # 0
    BY <1>1, SMT
  <2> QED BY <2>1, <1>9
<1>13. Collects(of, bs, type)
  BY <1>12 DEF Collects
<1> QED BY <1>10, <1>11, <1>13

\* The first elements of a function, one more.
LEMMA OneMore ==
  ASSUME NEW N \in Nat, NEW g \in [1 .. N -> Nat], NEW k \in 1 .. N
  PROVE  Append([i \in 1 .. k - 1 |-> g[i]], g[k]) = [i \in 1 .. k |-> g[i]]
<1> DEFINE q == [i \in 1 .. k - 1 |-> g[i]]
<1>1. k \in Nat /\ k - 1 \in Nat /\ k - 1 + 1 = k /\ \A i \in 1 .. k - 1 : i \in 1 .. N
  BY SMT
<1>2. \A i \in 1 .. k : i # k => i \in 1 .. k - 1
  BY <1>1, SMT
<1>3. q \in [1 .. k - 1 -> Nat]
  BY <1>1
<1>4. q \in Seq(Nat) /\ Len(q) = k - 1
  <2>1. \A m \in Nat : q \in [1 .. m -> Nat] => q \in Seq(Nat) /\ Len(q) = m
    OBVIOUS
  <2> HIDE DEF q
  <2> QED BY <2>1, <1>1, <1>3
<1>5. Append(q, g[k]) = [i \in 1 .. Len(q) + 1 |-> IF i = Len(q) + 1 THEN g[k] ELSE q[i]]
  <2> HIDE DEF q
  <2> QED BY <1>4
<1>6. Append(q, g[k]) = [i \in 1 .. k |-> IF i = k THEN g[k] ELSE q[i]]
  BY <1>4, <1>5, <1>1
<1> QED BY <1>2, <1>6

\* Some blocks of other types, and then blocks of a type with these ids.
Follow(bs, type, p, N, g) ==
    /\ Len(bs) = p + N
    /\ \A i \in 1 .. p : bs[i].type # type
    /\ \A k \in 1 .. N : bs[p + k].type = type /\ bs[p + k].id = g[k]

LEMMA IdsAre ==
  ASSUME NEW bs \in Seq(BlockOf), NEW type, NEW p \in Nat, NEW N \in Nat, NEW g \in [1 .. N -> Nat], Follow(bs, type, p, N, g)
  PROVE  T!IdsOf(bs, type) = g
<1> USE DEF Follow
<1>1. PICK f \in [0 .. Len(bs) -> Seq(Nat)] : Collects(f, bs, type) /\ T!IdsOf(bs, type) = f[Len(bs)]
  BY IdsBuilt
<1> DEFINE Upto(k) == [i \in 1 .. k |-> g[i]]
           Bad == {n \in Nat : n <= p + N /\ f[n] # (IF n <= p THEN <<>> ELSE Upto(n - p))}
<1>2. Bad = {}
  <2> SUFFICES ASSUME Bad # {} PROVE FALSE
    OBVIOUS
  <2>1. PICK n \in Bad : \A j \in Bad : n <= j
    <3>1. Bad \in SUBSET Nat
      OBVIOUS
    <3> HIDE DEF Bad
    <3> QED BY <3>1, LeastElement
  <2>2. n \in Nat /\ n <= p + N /\ f[n] # (IF n <= p THEN <<>> ELSE Upto(n - p))
    BY <2>1
  <2>3. n # 0
    <3>1. 0 <= p
      BY SMT
    <3> QED BY <3>1, <2>2, <1>1 DEF Collects
  <2>4. n - 1 \in Nat /\ n - 1 <= p + N /\ ~(n <= n - 1) /\ n \in 1 .. p + N
    BY <2>2, <2>3, SMT
  <2>5. f[n - 1] = (IF n - 1 <= p THEN <<>> ELSE Upto(n - 1 - p))
    <3>1. n - 1 \notin Bad
      BY <2>1, <2>4
    <3> QED BY <3>1, <2>4
  <2>6. f[n] = IF bs[n].type = type THEN Append(f[n - 1], bs[n].id) ELSE f[n - 1]
    BY <2>4, <1>1 DEF Collects
  <2>7. CASE n <= p
    <3>1. n \in 1 .. p /\ n - 1 <= p
      BY <2>4, <2>7, SMT
    <3> QED BY <3>1, <2>2, <2>5, <2>6, <2>7
  <2>8. CASE ~(n <= p)
    <3> DEFINE k == n - p
    <3>1. k \in 1 .. N /\ k - 1 \in Nat /\ n = p + k /\ n - 1 - p = k - 1 /\ (n - 1 <= p <=> k = 1)
      BY <2>2, <2>8, SMT
    <3>2. bs[n].type = type /\ bs[n].id = g[k]
      BY <3>1
    <3>3. f[n - 1] = Upto(k - 1)
      <4>1. Upto(0) = <<>>
        OBVIOUS
      <4>2. k = 1 => k - 1 = 0
        BY <3>1, SMT
      <4> HIDE DEF Upto, k
      <4> QED BY <4>1, <4>2, <3>1, <2>5
    <3>4. Append(Upto(k - 1), g[k]) = Upto(k)
      BY <3>1, OneMore
    <3> HIDE DEF k, Upto
    <3> QED BY <3>2, <3>3, <3>4, <2>2, <2>6, <2>8 DEF k
  <2> QED BY <2>7, <2>8
<1>3. p + N \in Nat /\ p + N <= p + N
  BY SMT
<1>4. f[p + N] = (IF p + N <= p THEN <<>> ELSE Upto(p + N - p))
  <2>1. p + N \notin Bad
    BY <1>2
  <2> HIDE DEF Upto
  <2> QED BY <2>1, <1>3
<1>5. p + N - p = N /\ (p + N <= p <=> N = 0)
  BY SMT
<1>6. Upto(N) = g
  OBVIOUS
<1>7. Upto(0) = <<>>
  OBVIOUS
<1> HIDE DEF Upto
<1>8. f[p + N] = Upto(N)
  BY <1>4, <1>5, <1>7
<1> QED BY <1>1, <1>6, <1>8

LEMMA NoBlocks == ASSUME NEW bs \in Seq(BlockOf), NEW type, \A i \in 1 .. Len(bs) : bs[i].type # type PROVE T!IdsOf(bs, type) = <<>>
<1>1. Len(bs) \in Nat /\ Len(bs) = Len(bs) + 0 /\ 1 .. 0 = {}
  <2>1. \A n \in Nat : n = n + 0 /\ 1 .. 0 = {}
    BY SMT
  <2> QED BY <2>1, LenProperties
<1> DEFINE g == [k \in 1 .. 0 |-> 0]
<1>2. g \in [1 .. 0 -> Nat] /\ g = <<>>
  OBVIOUS
<1> HIDE DEF g
<1>3. Follow(bs, type, Len(bs), 0, g)
  BY <1>1 DEF Follow
<1>4. T!IdsOf(bs, type) = g
  BY <1>1, <1>2, <1>3, IdsAre
<1> QED BY <1>2, <1>4

\* An answer with fresh ids: the same blocks, every tool_use with an id past those given.
LEMMA FreshIds ==
  ASSUME NEW bs \in Seq(BlockOf), ids \in Nat
  PROVE  LET u == T!IdsOf(bs, "tool_use")
             v == T!IdsOf(T!Fresh(bs), "tool_use")
         IN  /\ T!Fresh(bs) \in Seq(BlockOf) /\ Len(T!Fresh(bs)) = Len(bs)
             /\ \A i \in 1 .. Len(bs) : T!Fresh(bs)[i].type = bs[i].type
             /\ u \in Seq(Nat) /\ v \in Seq(Nat) /\ Len(v) = Len(u) /\ \A k \in 1 .. Len(u) : v[k] = u[k] + ids
<1> DEFINE L == Len(bs)
           fs == T!Fresh(bs)
<1>1. L \in Nat /\ DOMAIN bs = 1 .. L /\ \A i \in 1 .. L : bs[i] \in BlockOf
  BY LenProperties, ElementOfSeq
<1>2. fs = [i \in 1 .. L |-> IF bs[i].type = "tool_use" THEN [type |-> "tool_use", id |-> bs[i].id + ids] ELSE bs[i]]
  BY <1>1 DEF T!Fresh, T!Block
<1>3. \A i \in 1 .. L : fs[i] \in BlockOf /\ fs[i].type = bs[i].type /\ (bs[i].type = "tool_use" => fs[i].id = bs[i].id + ids)
  BY <1>1, <1>2 DEF BlockOf
<1>4. fs \in Seq(BlockOf) /\ Len(fs) = L
  <2>1. fs \in [1 .. L -> BlockOf]
    BY <1>2, <1>3
  <2>2. \A n \in Nat : \A s : s \in [1 .. n -> BlockOf] => s \in Seq(BlockOf) /\ Len(s) = n
    OBVIOUS
  <2> HIDE DEF fs, L
  <2> QED BY <2>1, <2>2, <1>1
<1> HIDE DEF fs, L
<1>5. PICK f \in [0 .. L -> Seq(Nat)] : Collects(f, bs, "tool_use") /\ T!IdsOf(bs, "tool_use") = f[L]
  BY IdsBuilt DEF L
<1>6. PICK h \in [0 .. L -> Seq(Nat)] : Collects(h, fs, "tool_use") /\ T!IdsOf(fs, "tool_use") = h[L]
  BY <1>4, IdsBuilt
<1> DEFINE Shifted(q, r) == Len(r) = Len(q) /\ \A k \in 1 .. Len(q) : r[k] = q[k] + ids
           Bad == {n \in Nat : n <= L /\ ~Shifted(f[n], h[n])}
<1>7. Bad = {}
  <2> SUFFICES ASSUME Bad # {} PROVE FALSE
    OBVIOUS
  <2>1. PICK n \in Bad : \A j \in Bad : n <= j
    <3>1. Bad \in SUBSET Nat
      OBVIOUS
    <3> HIDE DEF Bad
    <3> QED BY <3>1, LeastElement
  <2>2. n \in Nat /\ n <= L /\ ~Shifted(f[n], h[n])
    BY <2>1
  <2>3. n # 0
    <3>1. Shifted(<<>>, <<>>)
      OBVIOUS
    <3> HIDE DEF Shifted
    <3> QED BY <3>1, <2>2, <1>5, <1>6 DEF Collects
  <2>4. n - 1 \in Nat /\ n - 1 <= L /\ ~(n <= n - 1) /\ n \in 1 .. L /\ n - 1 \in 0 .. L
    BY <2>2, <2>3, <1>1, SMT
  <2>5. Shifted(f[n - 1], h[n - 1])
    <3> HIDE DEF Shifted
    <3> QED BY <2>1, <2>4
  <2>6. f[n] = IF bs[n].type = "tool_use" THEN Append(f[n - 1], bs[n].id) ELSE f[n - 1]
    BY <2>4, <1>5 DEF Collects, L
  <2>7. h[n] = IF bs[n].type = "tool_use" THEN Append(h[n - 1], bs[n].id + ids) ELSE h[n - 1]
    BY <2>4, <1>6, <1>3, <1>4 DEF Collects
  <2>8. f[n - 1] \in Seq(Nat) /\ h[n - 1] \in Seq(Nat) /\ bs[n].id \in Nat /\ bs[n].id + ids \in Nat
    <3>1. bs[n].id \in Nat
      BY <2>4, <1>1 DEF BlockOf
    <3>2. \A a \in Nat : a + ids \in Nat
      BY SMT
    <3> QED BY <2>4, <3>1, <3>2
  <2>9. \A q, r \in Seq(Nat), a \in Nat : Shifted(q, r) => Shifted(Append(q, a), Append(r, a + ids))
    <3> SUFFICES ASSUME NEW q \in Seq(Nat), NEW r \in Seq(Nat), NEW a \in Nat, Shifted(q, r)
                 PROVE  Shifted(Append(q, a), Append(r, a + ids))
      OBVIOUS
    <3>1. /\ Len(Append(q, a)) = Len(q) + 1 /\ Append(q, a)[Len(q) + 1] = a /\ \A k \in 1 .. Len(q) : Append(q, a)[k] = q[k]
          /\ Len(q) \in Nat
      BY AppendProperties, LenProperties
    <3>2. a + ids \in Nat
      OBVIOUS
    <3>3. /\ Len(Append(r, a + ids)) = Len(r) + 1 /\ Append(r, a + ids)[Len(r) + 1] = a + ids
          /\ \A k \in 1 .. Len(r) : Append(r, a + ids)[k] = r[k]
      BY <3>2, AppendProperties, LenProperties
    <3>4. \A m \in Nat : \A k \in 1 .. m + 1 : k = m + 1 \/ k \in 1 .. m
      BY SMT
    <3> QED BY <3>1, <3>3, <3>4
  <2> HIDE DEF Shifted
  <2> QED BY <2>2, <2>5, <2>6, <2>7, <2>8, <2>9
<1>8. L \in 0 .. L /\ L <= L
  BY <1>1, SMT
<1>9. Shifted(f[L], h[L])
  <2> HIDE DEF Shifted
  <2> QED BY <1>7, <1>8, <1>1
<1>10. f[L] \in Seq(Nat) /\ h[L] \in Seq(Nat)
  BY <1>8
<1> QED BY <1>3, <1>4, <1>5, <1>6, <1>9, <1>10 DEF fs, L

\* A turn rebuilt from the calls of a message asks for these calls, and answers none.
LEMMA Rebuilds ==
  ASSUME NEW m \in MessageOf, m.toolCalls # <<>>
  PROVE  /\ T!toolUse(m) \in Seq(BlockOf)
         /\ m.toolCalls[1].rawContent = <<>> =>
              /\ T!IdsOf(T!toolUse(m), "tool_use") = [k \in 1 .. Len(m.toolCalls) |-> m.toolCalls[k].id]
              /\ T!IdsOf(T!toolUse(m), "tool_result") = <<>>
<1> DEFINE calls == m.toolCalls
           N == Len(calls)
           pre == IF m.content = "" THEN <<>> ELSE <<T!Block("text", T!NoId)>>
           uses == [i \in 1 .. N |-> T!Block("tool_use", calls[i].id)]
           g == [k \in 1 .. N |-> calls[k].id]
<1>1. calls \in Seq(CallOf)
  BY DEF MessageOf
<1>2. N \in Nat /\ DOMAIN calls = 1 .. N /\ \A i \in 1 .. N : calls[i] \in CallOf
  <2> HIDE DEF calls
  <2> QED BY <1>1, LenProperties, ElementOfSeq
<1>3. 1 \in 1 .. N
  <2>1. N # 0
    <3>1. \A q \in Seq(CallOf) : Len(q) = 0 => q = <<>>
      OBVIOUS
    <3> QED BY <3>1, <1>1
  <2> HIDE DEF N
  <2> QED BY <2>1, <1>2, SMT
<1>4. \A i \in 1 .. N : calls[i].id \in Nat /\ calls[i].rawContent \in Seq(BlockOf)
  BY <1>2 DEF CallOf
<1>5. uses \in [1 .. N -> BlockOf]
  BY <1>4 DEF T!Block, BlockOf
<1>6. uses \in Seq(BlockOf) /\ Len(uses) = N
  <2>1. \A n \in Nat : \A s : s \in [1 .. n -> BlockOf] => s \in Seq(BlockOf) /\ Len(s) = n
    OBVIOUS
  <2> HIDE DEF uses, N
  <2> QED BY <2>1, <1>2, <1>5
<1>7. pre \in Seq(BlockOf) /\ Len(pre) \in {0, 1} /\ \A i \in 1 .. Len(pre) : pre[i].type = "text"
  <2>1. T!Block("text", T!NoId) \in BlockOf /\ T!Block("text", T!NoId).type = "text"
    BY DEF T!Block, T!NoId, BlockOf
  <2>2. \A b \in BlockOf : <<b>> \in Seq(BlockOf) /\ Len(<<b>>) = 1 /\ <<b>>[1] = b /\ 1 .. 1 = {1}
    BY SMT
  <2>3. <<>> \in Seq(BlockOf) /\ Len(<<>>) = 0 /\ 1 .. 0 = {}
    BY SMT
  <2>4. CASE m.content = ""
    <3>1. pre = <<>>
      BY <2>4
    <3> HIDE DEF pre
    <3> QED BY <3>1, <2>3
  <2>5. CASE m.content # ""
    <3>1. pre = <<T!Block("text", T!NoId)>>
      BY <2>5
    <3> HIDE DEF pre
    <3> QED BY <3>1, <2>1, <2>2
  <2> QED BY <2>4, <2>5
<1>8. T!toolUse(m) = IF calls[1].rawContent # <<>> THEN calls[1].rawContent ELSE pre \o uses
  BY <1>2 DEF T!toolUse
<1>9. \A i \in 1 .. N : uses[i].type = "tool_use" /\ uses[i].id = g[i]
  BY DEF T!Block
<1>10. g \in [1 .. N -> Nat]
  BY <1>4
<1> HIDE DEF pre, uses, N, g
<1>11. /\ pre \o uses \in Seq(BlockOf) /\ Len(pre \o uses) = Len(pre) + N /\ Len(pre) \in Nat
       /\ \A i \in 1 .. Len(pre) : (pre \o uses)[i] = pre[i]
       /\ \A k \in 1 .. N : (pre \o uses)[Len(pre) + k] = uses[k]
  <2>1. /\ pre \o uses \in Seq(BlockOf) /\ Len(pre \o uses) = Len(pre) + Len(uses)
        /\ \A i \in 1 .. Len(pre) + Len(uses) : (pre \o uses)[i] = IF i <= Len(pre) THEN pre[i] ELSE uses[i - Len(pre)]
    BY <1>6, <1>7, ConcatProperties
  <2>2. Len(pre) \in Nat
    BY <1>7
  <2>3. \A p, n \in Nat : /\ \A i \in 1 .. p : i \in 1 .. p + n /\ i <= p
                          /\ \A k \in 1 .. n : p + k \in 1 .. p + n /\ ~(p + k <= p) /\ p + k - p = k
    BY SMT
  <2> QED BY <2>1, <2>2, <2>3, <1>2, <1>6
<1>12. T!IdsOf(pre \o uses, "tool_use") = g
  <2>1. \A i \in 1 .. Len(pre) : (pre \o uses)[i].type # "tool_use"
    BY <1>7, <1>11
  <2>2. \A k \in 1 .. N : (pre \o uses)[Len(pre) + k].type = "tool_use" /\ (pre \o uses)[Len(pre) + k].id = g[k]
    BY <1>9, <1>11
  <2> DEFINE bs == pre \o uses
             p == Len(pre)
  <2>3. bs \in Seq(BlockOf) /\ p \in Nat /\ N \in Nat /\ g \in [1 .. N -> Nat] /\ Follow(bs, "tool_use", p, N, g)
    BY <2>1, <2>2, <1>2, <1>10, <1>11 DEF Follow
  <2> HIDE DEF bs, p
  <2>4. T!IdsOf(bs, "tool_use") = g
    BY <2>3, IdsAre
  <2> QED BY <2>4 DEF bs
<1>13. T!IdsOf(pre \o uses, "tool_result") = <<>>
  <2>1. \A p \in {0, 1}, n \in Nat : \A i \in 1 .. p + n : i \in 1 .. p \/ \E k \in 1 .. n : i = p + k
    <3> SUFFICES ASSUME NEW p \in {0, 1}, NEW n \in Nat, NEW i \in 1 .. p + n, i \notin 1 .. p PROVE \E k \in 1 .. n : i = p + k
      OBVIOUS
    <3>1. i - p \in 1 .. n /\ i = p + (i - p)
      BY SMT
    <3> QED BY <3>1
  <2>2. \A i \in 1 .. Len(pre \o uses) : (pre \o uses)[i].type \in {"text", "tool_use"}
    BY <2>1, <1>2, <1>7, <1>9, <1>11
  <2> QED BY <2>2, <1>11, NoBlocks
<1> QED BY <1>3, <1>4, <1>8, <1>11, <1>12, <1>13 DEF g, N

LEMMA AddTyped == ASSUME NEW W \in Seq(TurnOf), NEW m \in MessageOf PROVE T!add(W, m) \in Seq(TurnOf)
<1>1. m.role \in {"system", "user", "assistant", "tool"} /\ m.toolCallId \in Nat
  BY DEF MessageOf
<1>2. Len(W) \in Nat /\ DOMAIN W = 1 .. Len(W) /\ \A i \in 1 .. Len(W) : W[i] \in TurnOf
  BY LenProperties, ElementOfSeq
<1>3. \A t \in TurnOf : Append(W, t) \in Seq(TurnOf)
  BY AppendProperties
<1>4. CASE m.role = "system"
  BY <1>4 DEF T!add
<1>5. CASE m.role = "tool"
  <2> DEFINE result == T!Block("tool_result", m.toolCallId)
             n == Len(W)
  <2>1. result \in BlockOf
    BY <1>1 DEF T!Block, BlockOf
  <2>2. T!add(W, m) = IF n > 0 /\ W[n].role = "user" /\ W[n].content # <<>>
                      THEN [W EXCEPT ![n] = T!Turn("user", Append(W[n].content, result))]
                      ELSE Append(W, T!Turn("user", <<result>>))
    BY <1>5 DEF T!add
  <2> HIDE DEF result
  <2>3. T!Turn("user", <<result>>) \in TurnOf
    <3>1. <<result>> \in Seq(BlockOf)
      BY <2>1
    <3> QED BY <3>1 DEF T!Turn, TurnOf
  <2>4. CASE n > 0
    <3>1. n \in 1 .. n
      BY <2>4, <1>2, SMT
    <3>2. W[n].content \in Seq(BlockOf)
      BY <3>1, <1>2 DEF TurnOf
    <3>3. Append(W[n].content, result) \in Seq(BlockOf)
      BY <3>2, <2>1, AppendProperties
    <3> DEFINE t == T!Turn("user", Append(W[n].content, result))
    <3>4. t \in TurnOf
      BY <3>3 DEF T!Turn, TurnOf
    <3> HIDE DEF t
    <3>5. [W EXCEPT ![n] = t] \in Seq(TurnOf)
      BY <3>1, <3>4, ExceptSeq
    <3> QED BY <2>2, <2>3, <3>5, <1>3 DEF t
  <2>5. CASE ~(n > 0)
    BY <2>2, <2>3, <2>5, <1>3
  <2> QED BY <2>4, <2>5
<1>6. CASE m.role \in {"user", "assistant"}
  <2> DEFINE bs == IF m.toolCalls = <<>> THEN <<>> ELSE T!toolUse(m)
  <2>1. T!add(W, m) = Append(W, T!Turn(m.role, bs))
    BY <1>6 DEF T!add
  <2>2. bs \in Seq(BlockOf)
    BY Rebuilds
  <2> HIDE DEF bs
  <2>3. T!Turn(m.role, bs) \in TurnOf
    BY <1>6, <2>2 DEF T!Turn, TurnOf
  <2> QED BY <2>1, <2>3, <1>3
<1> QED BY <1>1, <1>4, <1>5, <1>6

\* The turns that split makes, message after message.
Splits(f, ms) == f[0] = <<>> /\ \A n \in 1 .. Len(ms) : f[n] = T!add(f[n - 1], ms[n])

LEMMA SplitBuilt ==
  ASSUME NEW ms \in Seq(MessageOf)
  PROVE  \E f \in [0 .. Len(ms) -> Seq(TurnOf)] : Splits(f, ms) /\ T!split(ms) = f[Len(ms)]
<1> DEFINE L == Len(ms)
           s == [n \in 1 .. L |-> [W \in Seq(TurnOf) |-> T!add(W, ms[n])]]
           Of(g) == g = [n \in 0 .. L |-> IF n = 0 THEN <<>> ELSE T!add(g[n - 1], ms[n])]
           of == CHOOSE g : Of(g)
<1>1. L \in Nat /\ \A n \in 1 .. L : ms[n] \in MessageOf
  BY LenProperties, ElementOfSeq
<1>2. \A n \in 1 .. L : [W \in Seq(TurnOf) |-> T!add(W, ms[n])] \in [Seq(TurnOf) -> Seq(TurnOf)]
  BY <1>1, AddTyped
<1>3. s \in [1 .. L -> [Seq(TurnOf) -> Seq(TurnOf)]]
  BY <1>2
<1>4. <<>> \in Seq(TurnOf)
  OBVIOUS
<1>5. PICK f \in [0 .. L -> Seq(TurnOf)] : f[0] = <<>> /\ \A n \in 1 .. L : f[n] = s[n][f[n - 1]]
  <2>1. \A M \in Nat : \A Y, y, r : y \in Y /\ r \in [1 .. M -> [Y -> Y]] => \E f \in [0 .. M -> Y] : Solves(f, M, y, r)
    BY Recursion
  <2>2. \A r : r \in [1 .. L -> [Seq(TurnOf) -> Seq(TurnOf)]] => \E f \in [0 .. L -> Seq(TurnOf)] : Solves(f, L, <<>>, r)
    BY <2>1, <1>1, <1>4
  <2>3. \E f \in [0 .. L -> Seq(TurnOf)] : Solves(f, L, <<>>, s)
    BY <2>2, <1>3
  <2> QED BY <2>3 DEF Solves
<1>6. \A n \in 1 .. L : f[n] = T!add(f[n - 1], ms[n])
  <2> SUFFICES ASSUME NEW n \in 1 .. L PROVE f[n] = T!add(f[n - 1], ms[n])
    OBVIOUS
  <2>1. n - 1 \in 0 .. L
    BY <1>1, SMT
  <2>2. f[n - 1] \in Seq(TurnOf)
    BY <2>1
  <2>3. s[n][f[n - 1]] = T!add(f[n - 1], ms[n])
    BY <2>2
  <2> QED BY <2>3, <1>5
<1>7. Of(f)
  <2>1. f = [n \in 0 .. L |-> f[n]]
    OBVIOUS
  <2>2. \A n \in 0 .. L : n # 0 => n \in 1 .. L
    BY <1>1, SMT
  <2>3. \A n \in 0 .. L : f[n] = IF n = 0 THEN <<>> ELSE T!add(f[n - 1], ms[n])
    BY <2>2, <1>5, <1>6
  <2> QED BY <2>1, <2>3
<1>8. Of(of)
  <2> HIDE DEF Of
  <2> QED BY <1>7
<1>9. T!split(ms) = of[L]
  BY DEF T!split
<1> HIDE DEF of
<1>10. of = f
  <2> DEFINE Bad == {n \in Nat : n <= L /\ of[n] # f[n]}
  <2>1. Bad = {}
    <3> SUFFICES ASSUME Bad # {} PROVE FALSE
      OBVIOUS
    <3>1. PICK n \in Bad : \A j \in Bad : n <= j
      <4>1. Bad \in SUBSET Nat
        OBVIOUS
      <4> HIDE DEF Bad
      <4> QED BY <4>1, LeastElement
    <3>2. n \in Nat /\ n \in 0 .. L /\ 0 \in 0 .. L
      BY <3>1, <1>1, SMT
    <3>3. CASE n = 0
      BY <3>1, <3>2, <3>3, <1>5, <1>8
    <3>4. CASE n # 0
      <4>1. n - 1 \in Nat /\ n - 1 <= L /\ ~(n <= n - 1) /\ n \in 1 .. L
        BY <3>2, <3>4, <1>1, SMT
      <4>2. of[n - 1] = f[n - 1]
        BY <4>1, <3>1
      <4>3. of[n] = T!add(of[n - 1], ms[n])
        BY <3>2, <3>4, <1>8
      <4> QED BY <4>1, <4>2, <4>3, <1>6, <3>1
    <3> QED BY <3>3, <3>4
  <2>2. \A n \in 0 .. L : n \in Nat /\ n <= L
    BY <1>1, SMT
  <2>3. of = [n \in 0 .. L |-> f[n]]
    BY <2>1, <2>2, <1>8
  <2> QED BY <2>3
<1>11. Splits(f, ms)
  BY <1>5, <1>6 DEF Splits
<1> QED BY <1>9, <1>10, <1>11

\* The request of a transcript with one more message: that message is added to the turns.
LEMMA SplitAppend ==
  ASSUME NEW ms \in Seq(MessageOf), NEW m \in MessageOf
  PROVE  T!split(Append(ms, m)) = T!add(T!split(ms), m) /\ T!split(ms) \in Seq(TurnOf)
<1> DEFINE L == Len(ms)
           more == Append(ms, m)
<1>1. L \in Nat /\ more \in Seq(MessageOf) /\ Len(more) = L + 1 /\ more[L + 1] = m /\ \A n \in 1 .. L : more[n] = ms[n]
  BY LenProperties, AppendProperties
<1>2. PICK f \in [0 .. L -> Seq(TurnOf)] : Splits(f, ms) /\ T!split(ms) = f[L]
  BY SplitBuilt
<1> HIDE DEF more
<1>3. PICK h \in [0 .. L + 1 -> Seq(TurnOf)] : Splits(h, more) /\ T!split(more) = h[L + 1]
  BY <1>1, SplitBuilt
<1> DEFINE Bad == {n \in Nat : n <= L /\ h[n] # f[n]}
<1>4. Bad = {}
  <2> SUFFICES ASSUME Bad # {} PROVE FALSE
    OBVIOUS
  <2>1. PICK n \in Bad : \A j \in Bad : n <= j
    <3>1. Bad \in SUBSET Nat
      OBVIOUS
    <3> HIDE DEF Bad
    <3> QED BY <3>1, LeastElement
  <2>2. CASE n = 0
    BY <2>1, <2>2, <1>2, <1>3 DEF Splits
  <2>3. CASE n # 0
    <3>1. n - 1 \in Nat /\ n - 1 <= L /\ ~(n <= n - 1) /\ n \in 1 .. L /\ n \in 1 .. L + 1
      BY <2>1, <2>3, <1>1, SMT
    <3>2. h[n - 1] = f[n - 1]
      BY <3>1, <2>1
    <3>3. f[n] = T!add(f[n - 1], ms[n]) /\ h[n] = T!add(h[n - 1], more[n])
      BY <3>1, <1>1, <1>2, <1>3 DEF Splits
    <3> QED BY <3>1, <3>2, <3>3, <1>1, <2>1
  <2> QED BY <2>2, <2>3
<1>5. L <= L /\ L + 1 \in 1 .. L + 1 /\ L + 1 - 1 = L /\ L \in 0 .. L
  BY <1>1, SMT
<1>6. h[L] = f[L] /\ f[L] \in Seq(TurnOf)
  BY <1>1, <1>4, <1>5
<1>7. h[L + 1] = T!add(h[L + 1 - 1], more[L + 1])
  BY <1>1, <1>3, <1>5 DEF Splits
<1> QED BY <1>1, <1>2, <1>3, <1>5, <1>6, <1>7 DEF more

LEMMA SplitNothing == T!split(<<>>) = <<>>
<1>1. <<>> \in Seq(MessageOf) /\ Len(<<>>) = 0
  OBVIOUS
<1> QED BY <1>1, SplitBuilt DEF Splits

-----------------------------------------------------------------------------
(* The grammar of a transcript and of its request, but for the turn whose calls are being answered. *)

Uses(t) == T!IdsOf(t.content, "tool_use")
Gives(t) == T!IdsOf(t.content, "tool_result")
ResultsOf(us) == [k \in DOMAIN us |-> T!Block("tool_result", us[k])]

\* The first n calls of a message are answered right after it.
Answers(ms, i, n) == \A k \in 1 .. n : i + k <= Len(ms) /\ ms[i + k].role = "tool" /\ ms[i + k].toolCallId = ms[i].toolCalls[k].id

\* Every call is answered, and every result answers a call.
Pairs(ms, but) ==
    \A i \in 1 .. Len(ms) :
        /\ i # but => Answers(ms, i, Len(ms[i].toolCalls))
        /\ ms[i].role = "tool" => ms[i].toolCalls = <<>> /\ \E j \in 1 .. i - 1 : i - j <= Len(ms[j].toolCalls)

\* The turn goes out as it came in; its ids have been given.
Echo(t, n, said) == Uses(t)[1] <= n /\ (Uses(t)[1] \in DOMAIN said => t.content = said[Uses(t)[1]])

Fits(W, but, n, said) ==
    \A i \in 1 .. Len(W) :
        /\ Uses(W[i]) # <<>> =>
             /\ Echo(W[i], n, said)
             /\ i # but => i < Len(W) /\ W[i + 1] = T!Turn("user", ResultsOf(Uses(W[i])))
        /\ Gives(W[i]) # <<>> => i > 1 /\ Uses(W[i - 1]) # <<>>

Complete(ms, n, said) == ms \in Seq(MessageOf) /\ Pairs(ms, 0) /\ Fits(T!split(ms), 0, n, said)

\* The calls of message c, which is turn m, are answered up to call a.
Reached(ms, c, m, a, n, said) ==
    LET calls == ms[c].toolCalls
        W == T!split(ms)
    IN  /\ ms \in Seq(MessageOf) /\ c \in 1 .. Len(ms) /\ calls # <<>>
        /\ a \in 1 .. Len(calls) + 1 /\ Len(ms) = c + a - 1
        /\ Answers(ms, c, a - 1) /\ Pairs(ms, c) /\ \A j \in c + 1 .. Len(ms) : ms[j].toolCalls = <<>>
        /\ m \in 1 .. Len(W) /\ W[m].role = "assistant" /\ Uses(W[m]) = [k \in 1 .. Len(calls) |-> calls[k].id]
        /\ Fits(W, m, n, said)
        /\ Len(W) = IF a = 1 THEN m ELSE m + 1
        /\ a > 1 => W[m + 1] = T!Turn("user", [k \in 1 .. a - 1 |-> T!Block("tool_result", calls[k].id)])

\* The inductive invariant: a thread is always complete, and so is a turn's transcript but while its tools run.
ThreadInv ==
    /\ ids \in Nat /\ DOMAIN spoken \subseteq 1 .. ids /\ at \in Nat /\ phase \in {"idle", "asking", "waiting", "tools"}
    /\ Complete(thread, ids, spoken)
    /\ phase # "tools" => Complete(messages, ids, spoken)
    /\ phase = "idle" => messages = <<>>
    /\ phase = "tools" => \E c \in 1 .. Len(messages), m \in 1 .. Len(T!split(messages)) : Reached(messages, c, m, at, ids, spoken)

\* The messages that agent.ts makes.
LEMMA MessageMade ==
  ASSUME NEW role \in {"system", "user", "assistant", "tool"}, NEW content \in Contents
  PROVE  T!Message(role, content) \in MessageOf /\ T!Message(role, content).role = role /\ T!Message(role, content).toolCalls = <<>>
<1>1. <<>> \in Seq(CallOf) /\ T!NoId \in Nat
  BY DEF T!NoId
<1> QED BY <1>1 DEF T!Message, MessageOf

LEMMA AssistantMade ==
  ASSUME NEW content \in Contents, NEW calls \in Seq(CallOf)
  PROVE  T!Assistant(content, calls) \in MessageOf /\ T!Assistant(content, calls).role = "assistant" /\ T!Assistant(content, calls).toolCalls = calls
BY DEF T!Message, T!Assistant, MessageOf, T!NoId

LEMMA ToolMessageMade ==
  ASSUME NEW content \in Contents, NEW call \in CallOf
  PROVE  /\ T!ToolMessage(call, content) \in MessageOf /\ T!ToolMessage(call, content).role = "tool"
         /\ T!ToolMessage(call, content).toolCalls = <<>> /\ T!ToolMessage(call, content).toolCallId = call.id
<1>1. <<>> \in Seq(CallOf) /\ call.id \in Nat
  BY DEF CallOf
<1> QED BY <1>1 DEF T!Message, T!ToolMessage, MessageOf

\* A message more: what was said stays where it is.
LEMMA MessageAdded ==
  ASSUME NEW ms \in Seq(MessageOf), NEW m \in MessageOf
  PROVE  /\ Append(ms, m) \in Seq(MessageOf) /\ Len(ms) \in Nat /\ Len(Append(ms, m)) = Len(ms) + 1 /\ Append(ms, m)[Len(ms) + 1] = m
         /\ \A i \in 1 .. Len(ms) : Append(ms, m)[i] = ms[i] /\ ms[i] \in MessageOf /\ ms[i].toolCalls \in Seq(CallOf) /\ Len(ms[i].toolCalls) \in Nat
         /\ \A i \in 1 .. Len(ms) + 1 : i \in 1 .. Len(ms) \/ i = Len(ms) + 1
<1>1. Len(ms) \in Nat /\ \A i \in 1 .. Len(ms) : ms[i] \in MessageOf
  BY LenProperties, ElementOfSeq
<1>2. /\ Append(ms, m) \in Seq(MessageOf) /\ Len(Append(ms, m)) = Len(ms) + 1 /\ Append(ms, m)[Len(ms) + 1] = m
      /\ \A i \in 1 .. Len(ms) : Append(ms, m)[i] = ms[i]
  BY AppendProperties
<1>3. \A n \in Nat : \A i \in 1 .. n + 1 : i \in 1 .. n \/ i = n + 1
  BY SMT
<1>4. \A x \in MessageOf : x.toolCalls \in Seq(CallOf)
  BY DEF MessageOf
<1>5. \A q \in Seq(CallOf) : Len(q) \in Nat
  BY LenProperties
<1> QED BY <1>1, <1>2, <1>3, <1>4, <1>5

LEMMA TurnAdded ==
  ASSUME NEW W \in Seq(TurnOf), NEW t \in TurnOf
  PROVE  /\ Append(W, t) \in Seq(TurnOf) /\ Len(W) \in Nat /\ Len(Append(W, t)) = Len(W) + 1 /\ Append(W, t)[Len(W) + 1] = t
         /\ \A i \in 1 .. Len(W) : Append(W, t)[i] = W[i] /\ W[i] \in TurnOf
         /\ \A i \in 1 .. Len(W) + 1 : i \in 1 .. Len(W) \/ i = Len(W) + 1
<1>1. Len(W) \in Nat /\ \A i \in 1 .. Len(W) : W[i] \in TurnOf
  BY LenProperties, ElementOfSeq
<1>2. /\ Append(W, t) \in Seq(TurnOf) /\ Len(Append(W, t)) = Len(W) + 1 /\ Append(W, t)[Len(W) + 1] = t
      /\ \A i \in 1 .. Len(W) : Append(W, t)[i] = W[i]
  BY AppendProperties
<1>3. \A n \in Nat : \A i \in 1 .. n + 1 : i \in 1 .. n \/ i = n + 1
  BY SMT
<1> QED BY <1>1, <1>2, <1>3

\* Calls that were answered stay answered.
LEMMA AnswersMore ==
  ASSUME NEW ms \in Seq(MessageOf), NEW m \in MessageOf, NEW i \in 1 .. Len(ms), NEW n \in Nat, Answers(ms, i, n)
  PROVE  Answers(Append(ms, m), i, n)
<1> DEFINE more == Append(ms, m)
<1>1. Len(ms) \in Nat /\ Len(more) = Len(ms) + 1 /\ \A j \in 1 .. Len(ms) : more[j] = ms[j]
  BY MessageAdded
<1> HIDE DEF more
<1>2. ASSUME NEW k \in 1 .. n
      PROVE  i + k <= Len(more) /\ more[i + k].role = "tool" /\ more[i + k].toolCallId = more[i].toolCalls[k].id
  <2>1. i + k <= Len(ms) /\ ms[i + k].role = "tool" /\ ms[i + k].toolCallId = ms[i].toolCalls[k].id
    BY DEF Answers
  <2>2. i + k \in 1 .. Len(ms) /\ i + k <= Len(ms) + 1
    <3>1. \A L \in Nat : \A a \in 1 .. L : a + k <= L => a + k \in 1 .. L /\ a + k <= L + 1
      BY SMT
    <3> QED BY <3>1, <2>1, <1>1
  <2> QED BY <2>1, <2>2, <1>1
<1> QED BY <1>2 DEF Answers, more

\* A message that is no tool's after answered ones: only its own calls are open.
LEMMA PairsMore ==
  ASSUME NEW ms \in Seq(MessageOf), NEW m \in MessageOf, Pairs(ms, 0), m.role # "tool"
  PROVE  Pairs(Append(ms, m), Len(ms) + 1) /\ (m.toolCalls = <<>> => Pairs(Append(ms, m), 0))
<1> DEFINE more == Append(ms, m)
           L == Len(ms)
<1>1. /\ L \in Nat /\ Len(more) = L + 1 /\ more[L + 1] = m /\ \A i \in 1 .. L : more[i] = ms[i] /\ Len(ms[i].toolCalls) \in Nat
      /\ \A i \in 1 .. L + 1 : i \in 1 .. L \/ i = L + 1
  BY MessageAdded
<1>2. ASSUME NEW i \in 1 .. L
      PROVE  /\ Answers(more, i, Len(more[i].toolCalls))
             /\ more[i].role = "tool" => more[i].toolCalls = <<>> /\ \E j \in 1 .. i - 1 : i - j <= Len(more[j].toolCalls)
  <2>1. i # 0
    BY SMT
  <2>2. /\ Answers(ms, i, Len(ms[i].toolCalls))
        /\ ms[i].role = "tool" => ms[i].toolCalls = <<>> /\ \E j \in 1 .. i - 1 : i - j <= Len(ms[j].toolCalls)
    BY <2>1 DEF Pairs
  <2>3. Answers(more, i, Len(ms[i].toolCalls))
    BY <2>2, <1>1, AnswersMore
  <2>4. \A j \in 1 .. i - 1 : j \in 1 .. L
    <3>1. \A n \in Nat : \A a \in 1 .. n : \A j \in 1 .. a - 1 : j \in 1 .. n
      BY SMT
    <3> QED BY <3>1, <1>1
  <2> HIDE DEF more, L
  <2> QED BY <2>2, <2>3, <2>4, <1>1
<1>3. m.toolCalls = <<>> => Answers(more, L + 1, Len(m.toolCalls))
  <2>1. Len(<<>>) = 0 /\ 1 .. 0 = {}
    BY SMT
  <2> QED BY <2>1 DEF Answers
<1> HIDE DEF more, L
<1>4. Pairs(more, L + 1)
  BY <1>1, <1>2 DEF Pairs
<1>5. m.toolCalls = <<>> => Pairs(more, 0)
  BY <1>1, <1>2, <1>3 DEF Pairs
<1> QED BY <1>4, <1>5 DEF more, L

\* A turn without results after fitting ones: only its own calls are open.
LEMMA FitsMore ==
  ASSUME NEW W \in Seq(TurnOf), NEW t \in TurnOf, NEW n, NEW said, Fits(W, 0, n, said), Gives(t) = <<>>, Uses(t) # <<>> => Echo(t, n, said)
  PROVE  Fits(Append(W, t), Len(W) + 1, n, said) /\ (Uses(t) = <<>> => Fits(Append(W, t), 0, n, said))
<1> DEFINE V == Append(W, t)
           L == Len(W)
<1>1. L \in Nat /\ Len(V) = L + 1 /\ V[L + 1] = t /\ (\A i \in 1 .. L : V[i] = W[i]) /\ (\A i \in 1 .. L + 1 : i \in 1 .. L \/ i = L + 1)
  BY TurnAdded
<1>2. ASSUME NEW i \in 1 .. L
      PROVE  /\ Uses(V[i]) # <<>> => Echo(V[i], n, said) /\ i < Len(V) /\ V[i + 1] = T!Turn("user", ResultsOf(Uses(V[i])))
             /\ Gives(V[i]) # <<>> => i > 1 /\ Uses(V[i - 1]) # <<>>
  <2>1. i # 0
    BY SMT
  <2>2. /\ Uses(W[i]) # <<>> => Echo(W[i], n, said) /\ i < L /\ W[i + 1] = T!Turn("user", ResultsOf(Uses(W[i])))
        /\ Gives(W[i]) # <<>> => i > 1 /\ Uses(W[i - 1]) # <<>>
    BY <2>1 DEF Fits
  <2>3. (i < L => i + 1 \in 1 .. L) /\ i < L + 1 /\ (i > 1 => i - 1 \in 1 .. L)
    <3>1. \A b \in Nat : \A a \in 1 .. b : (a < b => a + 1 \in 1 .. b) /\ a < b + 1 /\ (a > 1 => a - 1 \in 1 .. b)
      BY SMT
    <3> QED BY <3>1, <1>1
  <2> HIDE DEF V, L
  <2> QED BY <2>2, <2>3, <1>1
<1> HIDE DEF V, L
<1>3. Fits(V, L + 1, n, said)
  BY <1>1, <1>2 DEF Fits
<1>4. Uses(t) = <<>> => Fits(V, 0, n, said)
  BY <1>1, <1>2 DEF Fits
<1> QED BY <1>3, <1>4 DEF V, L

\* A plain message after a complete transcript.
LEMMA PlainSaid ==
  ASSUME NEW ms, NEW m \in MessageOf, NEW n, NEW said, Complete(ms, n, said), m.toolCalls = <<>>, m.role \in {"system", "user", "assistant"}
  PROVE  Complete(Append(ms, m), n, said)
<1>1. ms \in Seq(MessageOf) /\ Pairs(ms, 0) /\ Fits(T!split(ms), 0, n, said)
  BY DEF Complete
<1> DEFINE W == T!split(ms)
           t == T!Turn(m.role, <<>>)
<1>2. Append(ms, m) \in Seq(MessageOf) /\ Pairs(Append(ms, m), 0)
  BY <1>1, MessageAdded, PairsMore
<1>3. T!split(Append(ms, m)) = T!add(W, m) /\ W \in Seq(TurnOf)
  BY <1>1, SplitAppend
<1>4. CASE m.role = "system"
  <2>1. T!add(W, m) = W
    BY <1>4 DEF T!add
  <2> QED BY <2>1, <1>1, <1>2, <1>3 DEF Complete
<1>5. CASE m.role # "system"
  <2>1. T!add(W, m) = Append(W, t)
    BY <1>5 DEF T!add
  <2>2. t \in TurnOf /\ t.content = <<>>
    BY <1>5 DEF T!Turn, TurnOf
  <2>3. Uses(t) = <<>> /\ Gives(t) = <<>>
    <3>1. <<>> \in Seq(BlockOf) /\ Len(<<>>) = 0 /\ 1 .. 0 = {}
      BY SMT
    <3>2. \A type : T!IdsOf(<<>>, type) = <<>>
      BY <3>1, NoBlocks
    <3> QED BY <3>2, <2>2 DEF Uses, Gives
  <2> HIDE DEF t, W
  <2>4. Fits(Append(W, t), 0, n, said)
    BY <2>2, <2>3, <1>1, <1>3, FitsMore DEF W
  <2> QED BY <2>1, <2>4, <1>2, <1>3 DEF Complete, W
<1> QED BY <1>4, <1>5

\* A message with calls after a complete transcript: none of them is answered yet.
LEMMA CallsSaid ==
  ASSUME NEW ms, NEW m \in MessageOf, NEW n, NEW said, Complete(ms, n, said), m.toolCalls # <<>>, m.role = "assistant",
         T!IdsOf(T!toolUse(m), "tool_use") = [k \in 1 .. Len(m.toolCalls) |-> m.toolCalls[k].id],
         T!IdsOf(T!toolUse(m), "tool_result") = <<>>,
         Echo(T!Turn("assistant", T!toolUse(m)), n, said)
  PROVE  Reached(Append(ms, m), Len(ms) + 1, Len(T!split(ms)) + 1, 1, n, said) /\ Len(T!split(Append(ms, m))) = Len(T!split(ms)) + 1
<1>1. ms \in Seq(MessageOf) /\ Pairs(ms, 0) /\ Fits(T!split(ms), 0, n, said)
  BY DEF Complete
<1> DEFINE W == T!split(ms)
           t == T!Turn("assistant", T!toolUse(m))
           V == Append(W, t)
           more == Append(ms, m)
           L == Len(ms)
<1>2. T!split(more) = V /\ W \in Seq(TurnOf)
  BY <1>1, SplitAppend DEF T!add
<1>3. t \in TurnOf /\ t.role = "assistant" /\ t.content = T!toolUse(m)
  BY Rebuilds DEF T!Turn, TurnOf
<1>4. Gives(t) = <<>> /\ Uses(t) = [k \in 1 .. Len(m.toolCalls) |-> m.toolCalls[k].id]
  BY <1>3 DEF Gives, Uses
<1>5. Fits(V, Len(W) + 1, n, said)
  <2> HIDE DEF t, W
  <2> QED BY <1>1, <1>2, <1>3, <1>4, FitsMore DEF W, t
<1>6. Len(W) \in Nat /\ Len(V) = Len(W) + 1 /\ V[Len(W) + 1] = t
  BY <1>2, <1>3, TurnAdded
<1>7. L \in Nat /\ more \in Seq(MessageOf) /\ Len(more) = L + 1 /\ more[L + 1] = m
  BY <1>1, MessageAdded
<1>8. Pairs(more, L + 1)
  BY <1>1, PairsMore
<1>9. m.toolCalls \in Seq(CallOf) /\ Len(m.toolCalls) \in Nat
  BY LenProperties DEF MessageOf
<1>10. \A a \in Nat : a + 1 \in 1 .. a + 1 /\ 1 \in 1 .. a + 1 /\ (a + 1) + 1 - 1 = a + 1 /\ (a + 1) + 1 .. a + 1 = {} /\ 1 - 1 = 0 /\ 1 .. 0 = {} /\ ~(1 > 1)
  BY SMT
<1> HIDE DEF W, t, V, more, L
<1>11. Answers(more, L + 1, 1 - 1)
  BY <1>10 DEF Answers
<1>12. /\ L + 1 \in 1 .. Len(more) /\ 1 \in 1 .. Len(m.toolCalls) + 1 /\ Len(more) = L + 1 + 1 - 1
       /\ Len(W) + 1 \in 1 .. Len(V) /\ L + 1 + 1 .. Len(more) = {} /\ ~(1 > 1)
  BY <1>6, <1>7, <1>9, <1>10
<1>13. Reached(more, L + 1, Len(W) + 1, 1, n, said)
  BY <1>2, <1>3, <1>4, <1>5, <1>6, <1>7, <1>8, <1>11, <1>12 DEF Reached
<1> QED BY <1>2, <1>6, <1>13 DEF W, V, more, L

\* The next call of the message is answered.
LEMMA ResultSaid ==
  ASSUME NEW ms, NEW c, NEW m, NEW a, NEW n, NEW said, Reached(ms, c, m, a, n, said), a <= Len(ms[c].toolCalls),
         NEW r \in MessageOf, r.role = "tool", r.toolCalls = <<>>, r.toolCallId = ms[c].toolCalls[a].id
  PROVE  Reached(Append(ms, r), c, m, a + 1, n, said) /\ c <= Len(Append(ms, r)) /\ m <= Len(T!split(Append(ms, r)))
<1> DEFINE calls == ms[c].toolCalls
           N == Len(calls)
           L == Len(ms)
           W == T!split(ms)
           more == Append(ms, r)
           result == T!Block("tool_result", r.toolCallId)
           V == T!split(more)
<1>1. /\ ms \in Seq(MessageOf) /\ c \in 1 .. L /\ calls # <<>>
      /\ a \in 1 .. N + 1 /\ L = c + a - 1
      /\ Answers(ms, c, a - 1) /\ Pairs(ms, c) /\ \A j \in c + 1 .. L : ms[j].toolCalls = <<>>
  BY DEF Reached
<1>2. /\ m \in 1 .. Len(W) /\ W[m].role = "assistant" /\ Uses(W[m]) = [k \in 1 .. N |-> calls[k].id]
      /\ Fits(W, m, n, said)
      /\ Len(W) = IF a = 1 THEN m ELSE m + 1
      /\ a > 1 => W[m + 1] = T!Turn("user", [k \in 1 .. a - 1 |-> T!Block("tool_result", calls[k].id)])
  BY DEF Reached
<1>3. /\ more \in Seq(MessageOf) /\ L \in Nat /\ Len(more) = L + 1 /\ more[L + 1] = r
      /\ \A i \in 1 .. L : more[i] = ms[i] /\ ms[i] \in MessageOf /\ ms[i].toolCalls \in Seq(CallOf) /\ Len(ms[i].toolCalls) \in Nat
      /\ \A i \in 1 .. L + 1 : i \in 1 .. L \/ i = L + 1
  BY <1>1, MessageAdded
<1>4. N \in Nat /\ calls \in Seq(CallOf) /\ c \in Nat /\ a \in Nat /\ a \in 1 .. N /\ c + a = L + 1 /\ a - 1 \in Nat /\ a + 1 - 1 = a
  <2>1. N \in Nat /\ calls \in Seq(CallOf)
    BY <1>1, <1>3
  <2>2. c \in Nat
    BY <1>1
  <2>3. a <= N
    OBVIOUS
  <2>4. a \in 1 .. N + 1 /\ L = c + a - 1
    BY <1>1
  <2>5. N \in Nat
    BY <2>1
  <2> HIDE DEF N, L, calls
  <2>6. a \in Nat /\ a \in 1 .. N /\ c + a = L + 1 /\ a - 1 \in Nat /\ a + 1 - 1 = a
    BY <2>2, <2>3, <2>4, <2>5, SMT
  <2> QED BY <2>1, <2>2, <2>6
<1>5. more[c] = ms[c]
  BY <1>1, <1>3
<1> HIDE DEF more, L
<1>6. Answers(more, c, a)
  <2>1. Answers(more, c, a - 1)
    BY <1>1, <1>4, AnswersMore DEF more, L
  <2>2. \A k \in 1 .. a : k \in 1 .. a - 1 \/ k = a
    BY <1>4, SMT
  <2>3. c + a <= Len(more) /\ more[c + a].role = "tool" /\ more[c + a].toolCallId = more[c].toolCalls[a].id
    <3>1. L + 1 <= L + 1
      BY <1>3, SMT
    <3> QED BY <3>1, <1>3, <1>4, <1>5
  <2> QED BY <2>1, <2>2, <2>3 DEF Answers
<1>7. Pairs(more, c)
  <2>1. ASSUME NEW i \in 1 .. L, i # c PROVE Answers(more, i, Len(more[i].toolCalls))
    <3>1. Answers(ms, i, Len(ms[i].toolCalls))
      BY <2>1, <1>1 DEF Pairs, L
    <3>2. Len(ms[i].toolCalls) \in Nat
      BY <1>3
    <3>3. Answers(more, i, Len(ms[i].toolCalls))
      BY <3>1, <3>2, <1>1, AnswersMore DEF more, L
    <3> QED BY <3>3, <1>3
  <2>2. ASSUME NEW i \in 1 .. L, more[i].role = "tool" PROVE more[i].toolCalls = <<>> /\ \E j \in 1 .. i - 1 : i - j <= Len(more[j].toolCalls)
    <3>1. ms[i].toolCalls = <<>> /\ \E j \in 1 .. i - 1 : i - j <= Len(ms[j].toolCalls)
      BY <2>2, <1>1, <1>3 DEF Pairs, L
    <3>2. \A j \in 1 .. i - 1 : j \in 1 .. L
      <4>1. \A x \in Nat : \A y \in 1 .. x : \A j \in 1 .. y - 1 : j \in 1 .. x
        BY SMT
      <4> QED BY <4>1, <1>3
    <3> QED BY <3>1, <3>2, <1>3
  <2>3. Answers(more, L + 1, Len(more[L + 1].toolCalls))
    <3>1. Len(<<>>) = 0 /\ 1 .. 0 = {}
      BY SMT
    <3> QED BY <3>1, <1>3 DEF Answers
  <2>4. more[L + 1].toolCalls = <<>> /\ \E j \in 1 .. (L + 1) - 1 : (L + 1) - j <= Len(more[j].toolCalls)
    <3>1. c \in 1 .. (L + 1) - 1 /\ (L + 1) - c = a
      BY <1>1, <1>3, <1>4, SMT DEF L
    <3>2. a <= N
      OBVIOUS
    <3> HIDE DEF N
    <3> QED BY <3>1, <3>2, <1>3, <1>5 DEF N
  <2> DEFINE Paired(i) == /\ i # c => Answers(more, i, Len(more[i].toolCalls))
                          /\ more[i].role = "tool" => more[i].toolCalls = <<>> /\ \E j \in 1 .. i - 1 : i - j <= Len(more[j].toolCalls)
  <2>5. \A i \in 1 .. L : Paired(i)
    BY <2>1, <2>2
  <2>6. Paired(L + 1)
    BY <2>3, <2>4
  <2>7. \A i \in 1 .. Len(more) : i \in 1 .. L \/ i = L + 1
    BY <1>3
  <2> HIDE DEF Paired
  <2>8. \A i \in 1 .. Len(more) : Paired(i)
    BY <2>5, <2>6, <2>7
  <2> QED BY <2>8 DEF Pairs, Paired
<1>8. \A j \in c + 1 .. Len(more) : more[j].toolCalls = <<>>
  <2>1. \A j \in c + 1 .. L + 1 : j \in c + 1 .. L \/ j = L + 1
    BY <1>3, <1>4, SMT
  <2>2. \A j \in c + 1 .. L : j \in 1 .. L
    BY <1>3, <1>4, SMT
  <2> QED BY <2>1, <2>2, <1>1, <1>3 DEF L
<1>9. V = T!add(W, r) /\ W \in Seq(TurnOf)
  BY <1>1, SplitAppend DEF more
<1>10. result \in BlockOf /\ result = T!Block("tool_result", calls[a].id)
  BY DEF T!Block, BlockOf, MessageOf
<1>11. Len(W) \in Nat /\ \A i \in 1 .. Len(W) : W[i] \in TurnOf
  BY <1>9, LenProperties, ElementOfSeq
<1> DEFINE given(x) == [k \in 1 .. x |-> T!Block("tool_result", calls[k].id)]
<1>12. V = IF Len(W) > 0 /\ W[Len(W)].role = "user" /\ W[Len(W)].content # <<>>
           THEN [W EXCEPT ![Len(W)] = T!Turn("user", Append(W[Len(W)].content, result))]
           ELSE Append(W, T!Turn("user", <<result>>))
  BY <1>9 DEF T!add
<1>13. \A x \in 1 .. N : given(x) \in Seq(BlockOf) /\ Len(given(x)) = x
  <2>1. \A k \in 1 .. N : calls[k].id \in Nat
    <3>1. \A k \in 1 .. N : calls[k] \in CallOf
      BY <1>4, ElementOfSeq
    <3> QED BY <3>1 DEF CallOf
  <2>2. SUFFICES ASSUME NEW x \in 1 .. N PROVE given(x) \in Seq(BlockOf) /\ Len(given(x)) = x
    OBVIOUS
  <2>3. x \in Nat /\ \A k \in 1 .. x : k \in 1 .. N
    BY <1>4, SMT
  <2>4. given(x) \in [1 .. x -> BlockOf]
    BY <2>1, <2>3 DEF T!Block, BlockOf
  <2>5. \A y \in Nat : \A s : s \in [1 .. y -> BlockOf] => s \in Seq(BlockOf) /\ Len(s) = y
    OBVIOUS
  <2> HIDE DEF given
  <2> QED BY <2>3, <2>4, <2>5
<1>14. /\ Len(V) = m + 1 /\ V[m + 1] = T!Turn("user", given(a)) /\ \A i \in 1 .. m : V[i] = W[i]
  <2>1. CASE a = 1
    <3>1. Len(W) = m /\ m \in 1 .. m
      BY <1>2, <2>1
    <3>2. V = Append(W, T!Turn("user", <<result>>))
      BY <3>1, <1>2, <1>12
    <3>3. T!Turn("user", <<result>>) \in TurnOf
      <4>1. <<result>> \in Seq(BlockOf)
        BY <1>10
      <4> QED BY <4>1 DEF T!Turn, TurnOf
    <3>4. <<result>> = given(a)
      <4>1. 1 .. 1 = {1}
        BY SMT
      <4>2. \A b : <<b>> = [k \in 1 .. 1 |-> b]
        OBVIOUS
      <4>3. given(1) = [k \in 1 .. 1 |-> T!Block("tool_result", calls[1].id)]
        BY <4>1
      <4> QED BY <4>2, <4>3, <2>1, <1>10
    <3> HIDE DEF result, V, W, given
    <3> QED BY <3>1, <3>2, <3>3, <3>4, <1>9, TurnAdded
  <2>2. CASE a # 1
    <3>1. a > 1 /\ a - 1 \in 1 .. N
      BY <2>2, <1>4, SMT
    <3>2. Len(W) = m + 1 /\ W[m + 1] = T!Turn("user", given(a - 1))
      BY <1>2, <2>2, <3>1
    <3>3. given(a - 1) \in Seq(BlockOf) /\ given(a - 1) # <<>>
      <4>1. Len(<<>>) = 0 /\ 0 \notin 1 .. N
        BY SMT
      <4> HIDE DEF given
      <4> QED BY <3>1, <4>1, <1>13
    <3>4. V = [W EXCEPT ![m + 1] = T!Turn("user", Append(given(a - 1), result))]
      <4>1. m + 1 > 0
        BY <1>2
      <4>2. T!Turn("user", given(a - 1)).role = "user" /\ T!Turn("user", given(a - 1)).content = given(a - 1)
        BY DEF T!Turn
      <4> HIDE DEF result, W, given, V
      <4> QED BY <4>1, <4>2, <3>2, <3>3, <1>12
    <3>5. Append(given(a - 1), result) = given(a)
      <4> DEFINE q == given(a - 1)
      <4>1. Len(q) = a - 1 /\ q \in Seq(BlockOf)
        <5> HIDE DEF given
        <5> QED BY <3>1, <1>13
      <4>2. Append(q, result) = [k \in 1 .. Len(q) + 1 |-> IF k = Len(q) + 1 THEN result ELSE q[k]]
        <5> HIDE DEF q, result
        <5> QED BY <4>1, <1>10
      <4>3. a - 1 + 1 = a /\ \A k \in 1 .. a : k # a => k \in 1 .. a - 1
        BY <1>4, SMT
      <4>4. Append(q, result) = [k \in 1 .. a |-> IF k = a THEN result ELSE q[k]]
        <5> HIDE DEF q, result
        <5> QED BY <4>1, <4>2, <4>3
      <4>5. \A k \in 1 .. a : (IF k = a THEN result ELSE q[k]) = T!Block("tool_result", calls[k].id)
        <5> HIDE DEF result
        <5> QED BY <4>3, <1>10
      <4> HIDE DEF q, result
      <4> QED BY <4>4, <4>5 DEF q
    <3>6. m + 1 \in 1 .. m + 1 /\ \A i \in 1 .. m : i \in 1 .. m + 1 /\ i # m + 1
      BY <1>2, SMT
    <3>7. \A v : Len([W EXCEPT ![m + 1] = v]) = Len(W) /\ [W EXCEPT ![m + 1] = v][m + 1] = v /\ \A i \in 1 .. m : [W EXCEPT ![m + 1] = v][i] = W[i]
      <4>1. DOMAIN W = 1 .. m + 1
        BY <1>9, <3>2, LenProperties
      <4> HIDE DEF W
      <4>2. \A v : DOMAIN [W EXCEPT ![m + 1] = v] = 1 .. m + 1 /\ [W EXCEPT ![m + 1] = v][m + 1] = v /\ \A i \in 1 .. m : [W EXCEPT ![m + 1] = v][i] = W[i]
        BY <4>1, <3>6
      <4>3. m + 1 \in Nat
        BY <1>2
      <4>4. \A v : Len([W EXCEPT ![m + 1] = v]) = m + 1
        BY <4>2, <4>3
      <4> QED BY <4>2, <4>4, <3>2
    <3> HIDE DEF given, result, W, V
    <3> QED BY <3>2, <3>4, <3>5, <3>7
  <2> QED BY <2>1, <2>2
<1>15. m \in Nat /\ m \in 1 .. m + 1 /\ m <= m + 1 /\ m + 1 > 1 /\ \A i \in 1 .. m + 1 : i \in 1 .. m \/ i = m + 1
  BY <1>2, SMT
<1>16. \A i \in 1 .. m : i \in 1 .. Len(W) /\ (i # m => i + 1 \in 1 .. m) /\ i < m + 1 /\ (i > 1 => i - 1 \in 1 .. m)
  <2>1. \A x \in Nat : \A i \in 1 .. x : (i # x => i + 1 \in 1 .. x) /\ i < x + 1 /\ (i > 1 => i - 1 \in 1 .. x)
    BY SMT
  <2>2. \A i \in 1 .. m : i \in 1 .. Len(W)
    BY <1>2, <1>11, SMT
  <2> QED BY <2>1, <2>2, <1>15
<1> HIDE DEF V, W
<1>17. Uses(V[m + 1]) = <<>>
  <2>1. given(a) \in Seq(BlockOf) /\ Len(given(a)) = a
    <3> HIDE DEF given
    <3> QED BY <1>4, <1>13
  <2>2. \A i \in 1 .. a : given(a)[i].type # "tool_use"
    BY DEF T!Block
  <2>3. T!IdsOf(given(a), "tool_use") = <<>>
    <3> HIDE DEF given
    <3> QED BY <2>1, <2>2, NoBlocks
  <2> HIDE DEF given
  <2> QED BY <2>3, <1>14 DEF Uses, T!Turn
<1>18. Uses(W[m]) # <<>>
  <2>1. 1 \in 1 .. N
    BY <1>4, SMT
  <2>2. DOMAIN Uses(W[m]) = 1 .. N
    BY <1>2 DEF W
  <2>3. DOMAIN <<>> = {}
    OBVIOUS
  <2> QED BY <2>1, <2>2, <2>3
<1>19. Fits(V, m, n, said)
  <2>1. ASSUME NEW i \in 1 .. m
        PROVE  /\ Uses(V[i]) # <<>> => Echo(V[i], n, said) /\ (i # m => i < Len(V) /\ V[i + 1] = T!Turn("user", ResultsOf(Uses(V[i]))))
               /\ Gives(V[i]) # <<>> => i > 1 /\ Uses(V[i - 1]) # <<>>
    <3>1. /\ Uses(W[i]) # <<>> => Echo(W[i], n, said) /\ (i # m => i < Len(W) /\ W[i + 1] = T!Turn("user", ResultsOf(Uses(W[i]))))
          /\ Gives(W[i]) # <<>> => i > 1 /\ Uses(W[i - 1]) # <<>>
      BY <1>2, <1>16 DEF Fits, W
    <3> QED BY <3>1, <1>14, <1>16
  <2>2. m + 1 - 1 = m
    BY <1>15, SMT
  <2> QED BY <2>1, <2>2, <1>14, <1>15, <1>17, <1>18 DEF Fits
<1>20. c \in 1 .. Len(more) /\ a + 1 \in 1 .. N + 1 /\ Len(more) = c + (a + 1) - 1 /\ c <= Len(more) /\ ~(a + 1 = 1) /\ m <= Len(V)
  <2>1. c \in 1 .. L + 1 /\ L + 1 = c + (a + 1) - 1 /\ c <= L + 1
    BY <1>1, <1>3, <1>4, SMT DEF L
  <2>2. a + 1 \in 1 .. N + 1 /\ ~(a + 1 = 1)
    BY <1>4, SMT
  <2> QED BY <2>1, <2>2, <1>3, <1>14, <1>15
<1>21. V[m] = W[m]
  <2>1. m \in 1 .. m
    BY <1>2, SMT
  <2> QED BY <2>1, <1>14
<1>22. Reached(more, c, m, a + 1, n, said)
  <2>1. /\ more \in Seq(MessageOf) /\ c \in 1 .. Len(more) /\ more[c].toolCalls # <<>>
        /\ a + 1 \in 1 .. Len(more[c].toolCalls) + 1 /\ Len(more) = c + (a + 1) - 1
        /\ Answers(more, c, a + 1 - 1) /\ Pairs(more, c) /\ \A j \in c + 1 .. Len(more) : more[j].toolCalls = <<>>
    BY <1>1, <1>3, <1>4, <1>5, <1>6, <1>7, <1>8, <1>20
  <2>2. /\ m \in 1 .. Len(V) /\ V[m].role = "assistant" /\ Uses(V[m]) = [k \in 1 .. Len(more[c].toolCalls) |-> more[c].toolCalls[k].id]
        /\ Fits(V, m, n, said)
        /\ Len(V) = (IF a + 1 = 1 THEN m ELSE m + 1)
        /\ a + 1 > 1 => V[m + 1] = T!Turn("user", [k \in 1 .. a + 1 - 1 |-> T!Block("tool_result", more[c].toolCalls[k].id)])
    BY <1>2, <1>4, <1>5, <1>14, <1>15, <1>19, <1>20, <1>21 DEF W
  <2> QED BY <2>1, <2>2 DEF Reached, V
<1> QED BY <1>20, <1>22 DEF more, V

\* The last call is answered.
LEMMA AllAnswered ==
  ASSUME NEW ms, NEW c, NEW m, NEW n, NEW said, Reached(ms, c, m, Len(ms[c].toolCalls) + 1, n, said)
  PROVE  Complete(ms, n, said)
<1> DEFINE calls == ms[c].toolCalls
           N == Len(calls)
           W == T!split(ms)
<1>1. /\ ms \in Seq(MessageOf) /\ c \in 1 .. Len(ms) /\ calls # <<>> /\ Answers(ms, c, N + 1 - 1) /\ Pairs(ms, c)
      /\ m \in 1 .. Len(W) /\ Uses(W[m]) = [k \in 1 .. N |-> calls[k].id]
      /\ Fits(W, m, n, said)
      /\ Len(W) = IF N + 1 = 1 THEN m ELSE m + 1
      /\ N + 1 > 1 => W[m + 1] = T!Turn("user", [k \in 1 .. N + 1 - 1 |-> T!Block("tool_result", calls[k].id)])
  BY DEF Reached
<1>2. calls \in Seq(CallOf) /\ N \in Nat
  <2>1. ms[c] \in MessageOf
    BY <1>1, ElementOfSeq
  <2>2. calls \in Seq(CallOf)
    BY <2>1 DEF MessageOf
  <2> QED BY <2>2, LenProperties
<1>3. N # 0
  <2>1. \A q \in Seq(CallOf) : Len(q) = 0 => q = <<>>
    OBVIOUS
  <2> QED BY <2>1, <1>1, <1>2
<1> HIDE DEF N, W
<1>4. N + 1 - 1 = N /\ N + 1 > 1 /\ N + 1 # 1
  BY <1>2, <1>3, SMT
<1>5. Pairs(ms, 0)
  BY <1>1, <1>4 DEF Pairs, N
<1>6. Len(W) = m + 1 /\ W[m + 1] = T!Turn("user", [k \in 1 .. N |-> T!Block("tool_result", calls[k].id)])
  BY <1>1, <1>4
<1>7. ResultsOf(Uses(W[m])) = [k \in 1 .. N |-> T!Block("tool_result", calls[k].id)]
  BY <1>1 DEF ResultsOf
<1>8. m < m + 1
  BY <1>1
<1>9. Fits(W, 0, n, said)
  <2> HIDE DEF calls
  <2>1. \A i \in 1 .. Len(W) : Uses(W[i]) # <<>> => i < Len(W) /\ W[i + 1] = T!Turn("user", ResultsOf(Uses(W[i])))
    BY <1>1, <1>6, <1>7, <1>8 DEF Fits
  <2> QED BY <2>1, <1>1 DEF Fits
<1> QED BY <1>1, <1>5, <1>9 DEF Complete, W

\* Ids and contents are added only, and the new content's id is new.
Older(n, said, n2, said2) == n \in Nat /\ n2 \in Nat /\ n <= n2 /\ \A i \in 1 .. n : i \in DOMAIN said2 => i \in DOMAIN said /\ said2[i] = said[i]

LEMMA UsesTyped == ASSUME NEW t \in TurnOf PROVE Uses(t) \in Seq(Nat)
<1>1. t.content \in Seq(BlockOf)
  BY DEF TurnOf
<1>2. PICK f \in [0 .. Len(t.content) -> Seq(Nat)] : T!IdsOf(t.content, "tool_use") = f[Len(t.content)]
  BY <1>1, IdsBuilt
<1>3. \A x \in Nat : x \in 0 .. x
  BY SMT
<1>4. Len(t.content) \in Nat
  BY <1>1, LenProperties
<1> QED BY <1>2, <1>3, <1>4 DEF Uses

LEMMA FitsLonger ==
  ASSUME NEW W \in Seq(TurnOf), NEW n, NEW said, NEW n2, NEW said2, Fits(W, 0, n, said), Older(n, said, n2, said2), 0 \notin DOMAIN said2
  PROVE  Fits(W, 0, n2, said2)
<1>1. ASSUME NEW i \in 1 .. Len(W), Uses(W[i]) # <<>> PROVE Echo(W[i], n2, said2)
  <2>1. Echo(W[i], n, said)
    BY <1>1 DEF Fits
  <2>2. W[i] \in TurnOf
    BY ElementOfSeq
  <2>3. Uses(W[i])[1] \in Nat
    <3>1. \A q \in Seq(Nat) : q # <<>> => q[1] \in Nat
      OBVIOUS
    <3> QED BY <3>1, <2>2, <1>1, UsesTyped
  <2> DEFINE x == Uses(W[i])[1]
  <2>4. x \in Nat /\ x <= n /\ (x \in DOMAIN said => W[i].content = said[x])
    BY <2>1, <2>3 DEF Echo
  <2> HIDE DEF x
  <2>5. x <= n2 /\ (x # 0 => x \in 1 .. n)
    BY <2>4 DEF Older
  <2>6. x \in DOMAIN said2 => W[i].content = said2[x]
    BY <2>4, <2>5 DEF Older
  <2> QED BY <2>5, <2>6 DEF Echo, x
<1> QED BY <1>1 DEF Fits

LEMMA CompleteLonger ==
  ASSUME NEW ms, NEW n, NEW said, NEW n2, NEW said2, Complete(ms, n, said), Older(n, said, n2, said2), 0 \notin DOMAIN said2
  PROVE  Complete(ms, n2, said2)
<1>1. ms \in Seq(MessageOf) /\ Fits(T!split(ms), 0, n, said)
  BY DEF Complete
<1>2. \A x \in MessageOf : T!split(ms) \in Seq(TurnOf)
  BY <1>1, SplitAppend
<1>3. \E x : x \in MessageOf
  <2>1. T!Message("user", "") \in MessageOf
    BY MessageMade DEF Contents
  <2> QED BY <2>1
<1>4. T!split(ms) \in Seq(TurnOf)
  BY <1>2, <1>3
<1>5. Fits(T!split(ms), 0, n2, said2)
  BY <1>1, <1>4, FitsLonger
<1> QED BY <1>5 DEF Complete

LEMMA NothingSaid == ASSUME NEW n, NEW said PROVE Complete(<<>>, n, said)
<1>1. <<>> \in Seq(MessageOf) /\ Len(<<>>) = 0 /\ 1 .. 0 = {}
  BY SMT
<1> QED BY <1>1, SplitNothing DEF Complete, Pairs, Fits

\* An answer that asks for tools: its first id is new, and goes with the content that came with it.
LEMMA AnswerTaken ==
  ASSUME ThreadInv, phase = "waiting", NEW r, T!Takes(r), r.content \in Contents, r.toolCalls \in Seq(CallOf), r.toolCalls # <<>>,
         \A k \in 1 .. Len(r.toolCalls) : r.toolCalls[k].id = k + ids,
         T!IdsOf(T!toolUse(T!Assistant(r.content, r.toolCalls)), "tool_use") = [k \in 1 .. Len(r.toolCalls) |-> r.toolCalls[k].id],
         T!IdsOf(T!toolUse(T!Assistant(r.content, r.toolCalls)), "tool_result") = <<>>,
         r.received # <<>> => T!toolUse(T!Assistant(r.content, r.toolCalls)) = r.received
  PROVE  ThreadInv'
<1> DEFINE calls == r.toolCalls
           N == Len(calls)
           m == T!Assistant(r.content, calls)
<1>1. /\ ids' = ids + N
      /\ spoken' = IF r.received = <<>> THEN spoken ELSE [i \in DOMAIN spoken \cup {calls[1].id} |-> IF i = calls[1].id THEN r.received ELSE spoken[i]]
      /\ messages' = Append(messages, m) /\ phase' = "tools" /\ at' = 1 /\ thread' = thread
  BY DEF T!Takes
<1>2. N \in Nat /\ N # 0
  <2>1. \A q \in Seq(CallOf) : Len(q) = 0 => q = <<>>
    OBVIOUS
  <2> QED BY <2>1, LenProperties
<1>3. ids \in Nat /\ DOMAIN spoken \subseteq 1 .. ids /\ Complete(thread, ids, spoken) /\ Complete(messages, ids, spoken)
  BY DEF ThreadInv
<1>4. m \in MessageOf /\ m.role = "assistant" /\ m.toolCalls = calls
  BY AssistantMade
<1> HIDE DEF N, m
<1>5. 1 \in 1 .. N /\ ids' \in Nat /\ ids <= ids' /\ 1 + ids <= ids' /\ 1 + ids \in 1 .. ids' /\ 1 + ids \notin 1 .. ids /\ 0 \notin 1 .. ids' /\ 1 .. ids \subseteq 1 .. ids'
  BY <1>1, <1>2, <1>3, SMT
<1>6. calls[1].id = 1 + ids
  BY <1>5 DEF N
<1>7. DOMAIN spoken' \subseteq 1 .. ids' /\ \A i \in 1 .. ids : i \in DOMAIN spoken' => i \in DOMAIN spoken /\ spoken'[i] = spoken[i]
  BY <1>1, <1>3, <1>5, <1>6
<1>8. Older(ids, spoken, ids', spoken') /\ 0 \notin DOMAIN spoken'
  BY <1>3, <1>5, <1>7 DEF Older
<1>9. Complete(thread, ids', spoken') /\ Complete(messages, ids', spoken')
  BY <1>3, <1>8, CompleteLonger
<1>10. Echo(T!Turn("assistant", T!toolUse(m)), ids', spoken')
  <2> DEFINE t == T!Turn("assistant", T!toolUse(m))
  <2>1. Uses(t) = [k \in 1 .. N |-> calls[k].id] /\ t.content = T!toolUse(m)
    BY DEF Uses, T!Turn, N, m
  <2>2. Uses(t)[1] = 1 + ids
    BY <2>1, <1>5, <1>6
  <2>3. 1 + ids \in DOMAIN spoken' => t.content = spoken'[1 + ids]
    <3>1. CASE r.received = <<>>
      BY <3>1, <1>1, <1>3, <1>5
    <3>2. CASE r.received # <<>>
      <4>1. spoken'[1 + ids] = r.received
        BY <3>2, <1>1, <1>6
      <4> QED BY <4>1, <3>2, <2>1 DEF m
    <3> QED BY <3>1, <3>2
  <2> HIDE DEF t
  <2> QED BY <2>2, <2>3, <1>5 DEF Echo, t
<1> DEFINE c == Len(messages) + 1
           w == Len(T!split(messages)) + 1
<1>11. Reached(messages', c, w, 1, ids', spoken') /\ Len(T!split(messages')) = w
  <2> HIDE DEF calls
  <2> QED BY <1>1, <1>4, <1>9, <1>10, CallsSaid DEF m, N, calls
<1>12. c \in 1 .. Len(messages') /\ w \in 1 .. Len(T!split(messages'))
  BY <1>11 DEF Reached
<1> HIDE DEF c, w
<1> QED BY <1>1, <1>5, <1>7, <1>9, <1>11, <1>12 DEF ThreadInv

\* A last answer.
LEMMA LastAnswer ==
  ASSUME ThreadInv, phase = "waiting", NEW r, T!Takes(r), r.content \in Contents, r.toolCalls = <<>>
  PROVE  ThreadInv'
<1> DEFINE m == T!Assistant(r.content, <<>>)
<1>1. ids' = ids + 0 /\ spoken' = spoken /\ at' = at /\ phase' = "idle" /\ messages' = <<>> /\ thread' = Append(messages, m)
  <2>1. Len(<<>>) = 0 /\ "done" # "failed"
    OBVIOUS
  <2> QED BY <2>1 DEF T!Takes, T!ends
<1>2. ids \in Nat /\ DOMAIN spoken \subseteq 1 .. ids /\ at \in Nat /\ Complete(messages, ids, spoken)
  BY DEF ThreadInv
<1>3. m \in MessageOf /\ m.role = "assistant" /\ m.toolCalls = <<>>
  <2>1. <<>> \in Seq(CallOf)
    OBVIOUS
  <2> QED BY <2>1, AssistantMade
<1> HIDE DEF m
<1>4. Complete(Append(messages, m), ids, spoken)
  BY <1>2, <1>3, PlainSaid
<1>5. ids' = ids
  BY <1>1, <1>2, SMT
<1>6. Complete(messages', ids, spoken)
  BY <1>1, NothingSaid
<1> QED BY <1>1, <1>2, <1>4, <1>5, <1>6 DEF ThreadInv

LEMMA ReplyKeeps == ASSUME ThreadInv, T!Reply PROVE ThreadInv'
<1> DEFINE u == T!Message("user", T!text)
           sys == T!Message("system", T!text)
           before == IF thread = <<>> THEN <<sys>> ELSE thread
<1>1. /\ phase' = "asking" /\ ids' = ids /\ spoken' = spoken /\ at' = at /\ thread' = thread /\ messages' = before \o <<u>>
  BY DEF T!Reply
<1>2. ids \in Nat /\ DOMAIN spoken \subseteq 1 .. ids /\ at \in Nat /\ Complete(thread, ids, spoken)
  BY DEF ThreadInv
<1>3. /\ u \in MessageOf /\ u.toolCalls = <<>> /\ u.role = "user"
      /\ sys \in MessageOf /\ sys.toolCalls = <<>> /\ sys.role = "system"
  BY MessageMade DEF T!text, Contents
<1> HIDE DEF u, sys
<1>4. Complete(<<>>, ids, spoken) /\ Append(<<>>, sys) = <<sys>>
  BY NothingSaid
<1>5. Complete(before, ids, spoken)
  <2>1. Complete(<<sys>>, ids, spoken)
    BY <1>3, <1>4, PlainSaid
  <2> QED BY <2>1, <1>2
<1>6. before \in Seq(MessageOf)
  BY <1>5 DEF Complete
<1> HIDE DEF before
<1>7. before \o <<u>> = Append(before, u)
  BY <1>3, <1>6, AppendIsConcat
<1>8. Complete(Append(before, u), ids, spoken)
  BY <1>3, <1>5, PlainSaid
<1> QED BY <1>1, <1>2, <1>7, <1>8 DEF ThreadInv

LEMMA AskKeeps == ASSUME ThreadInv, T!Ask PROVE ThreadInv'
<1>1. phase = "asking" /\ ids' = ids /\ spoken' = spoken /\ at' = at
  BY DEF T!Ask
<1>2. ids \in Nat /\ DOMAIN spoken \subseteq 1 .. ids /\ at \in Nat /\ Complete(thread, ids, spoken) /\ Complete(messages, ids, spoken)
  BY <1>1 DEF ThreadInv
<1>3. \/ phase' = "idle" /\ messages' = <<>> /\ thread' \in {thread, messages}
      \/ phase' = "waiting" /\ messages' = messages /\ thread' = thread
  BY DEF T!Ask, T!ends
<1>4. Complete(<<>>, ids, spoken)
  BY NothingSaid
<1> QED BY <1>1, <1>2, <1>3, <1>4 DEF ThreadInv

LEMMA FailsKeeps == ASSUME ThreadInv, T!Fails PROVE ThreadInv'
<1>1. phase = "waiting" /\ ids' = ids /\ spoken' = spoken /\ at' = at /\ phase' = "idle" /\ messages' = <<>> /\ thread' \in {thread, messages}
  BY DEF T!Fails, T!ends
<1>2. ids \in Nat /\ DOMAIN spoken \subseteq 1 .. ids /\ at \in Nat /\ Complete(thread, ids, spoken) /\ Complete(messages, ids, spoken)
  BY <1>1 DEF ThreadInv
<1>3. Complete(<<>>, ids, spoken)
  BY NothingSaid
<1> QED BY <1>1, <1>2, <1>3 DEF ThreadInv

\* The message whose calls are being answered is the last one with calls.
LEMMA CurrentIs ==
  ASSUME NEW c, NEW m, NEW a, NEW n, NEW said, Reached(messages, c, m, a, n, said)
  PROVE  T!Current = messages[c].toolCalls
<1>1. /\ messages \in Seq(MessageOf) /\ c \in 1 .. Len(messages) /\ messages[c].toolCalls # <<>>
      /\ \A j \in c + 1 .. Len(messages) : messages[j].toolCalls = <<>>
  BY DEF Reached
<1>2. DOMAIN messages = 1 .. Len(messages) /\ Len(messages) \in Nat
  BY <1>1, LenProperties
<1> DEFINE LastAsked(i) == messages[i].toolCalls # <<>> /\ \A j \in i + 1 .. Len(messages) : messages[j].toolCalls = <<>>
           x == CHOOSE i \in DOMAIN messages : LastAsked(i)
<1>3. x \in DOMAIN messages /\ LastAsked(x)
  BY <1>1, <1>2
<1>4. x = c
  <2> HIDE DEF x
  <2>1. x \in 1 .. Len(messages)
    BY <1>2, <1>3
  <2>2. x = c \/ c \in x + 1 .. Len(messages) \/ x \in c + 1 .. Len(messages)
    <3>1. \A L \in Nat : \A i, j \in 1 .. L : i = j \/ j \in i + 1 .. L \/ i \in j + 1 .. L
      BY SMT
    <3> QED BY <3>1, <2>1, <1>1, <1>2
  <2> QED BY <2>2, <1>1, <1>3
<1>5. T!Current = messages[x].toolCalls
  BY DEF T!Current
<1> QED BY <1>4, <1>5

LEMMA NextCallKeeps == ASSUME ThreadInv, T!NextCall PROVE ThreadInv'
<1>1. /\ phase = "tools" /\ at <= Len(T!Current) /\ messages' = T!answered(T!Current[at]) /\ at' = at + 1
      /\ thread' = thread /\ phase' = phase /\ ids' = ids /\ spoken' = spoken
  BY DEF T!NextCall
<1>2. ids \in Nat /\ DOMAIN spoken \subseteq 1 .. ids /\ at \in Nat /\ Complete(thread, ids, spoken)
  BY DEF ThreadInv
<1>3. PICK c \in 1 .. Len(messages), m \in 1 .. Len(T!split(messages)) : Reached(messages, c, m, at, ids, spoken)
  BY <1>1 DEF ThreadInv
<1>4. T!Current = messages[c].toolCalls
  BY <1>3, CurrentIs
<1>5. at \in 1 .. Len(messages[c].toolCalls) /\ messages[c].toolCalls[at] \in CallOf
  <2>1. messages \in Seq(MessageOf) /\ at \in 1 .. Len(messages[c].toolCalls) + 1
    BY <1>3 DEF Reached
  <2>2. messages[c] \in MessageOf
    BY <2>1, ElementOfSeq
  <2>3. messages[c].toolCalls \in Seq(CallOf) /\ Len(messages[c].toolCalls) \in Nat
    BY <2>2, LenProperties DEF MessageOf
  <2>4. at \in 1 .. Len(messages[c].toolCalls)
    BY <2>1, <2>3, <1>1, <1>4
  <2> QED BY <2>3, <2>4, ElementOfSeq
<1> DEFINE call == messages[c].toolCalls[at]
           r == T!ToolMessage(call, IF aborted THEN "skipped" ELSE IF call.arguments # "object" THEN "error" ELSE "output")
<1>6. messages' = Append(messages, r)
  BY <1>1, <1>4 DEF T!answered
<1>7. r \in MessageOf /\ r.role = "tool" /\ r.toolCalls = <<>> /\ r.toolCallId = messages[c].toolCalls[at].id
  <2> DEFINE said == IF aborted THEN "skipped" ELSE IF call.arguments # "object" THEN "error" ELSE "output"
  <2>1. said \in Contents
    BY DEF Contents
  <2> HIDE DEF said
  <2>2. /\ T!ToolMessage(call, said) \in MessageOf /\ T!ToolMessage(call, said).role = "tool"
        /\ T!ToolMessage(call, said).toolCalls = <<>> /\ T!ToolMessage(call, said).toolCallId = call.id
    BY <2>1, <1>5, ToolMessageMade
  <2> QED BY <2>2 DEF said
<1>8. at <= Len(messages[c].toolCalls)
  BY <1>1, <1>4
<1> HIDE DEF r
<1>9. Reached(messages', c, m, at + 1, ids, spoken) /\ c <= Len(messages') /\ m <= Len(T!split(messages'))
  BY <1>3, <1>6, <1>7, <1>8, ResultSaid
<1>10. c \in 1 .. Len(messages') /\ m \in 1 .. Len(T!split(messages'))
  BY <1>9 DEF Reached
<1>11. at + 1 \in Nat
  BY <1>2
<1> QED BY <1>1, <1>2, <1>9, <1>10, <1>11 DEF ThreadInv

LEMMA CallsDoneKeeps == ASSUME ThreadInv, T!CallsDone PROVE ThreadInv'
<1>1. phase = "tools" /\ at > Len(T!Current) /\ ids' = ids /\ spoken' = spoken /\ at' = at
  BY DEF T!CallsDone
<1>2. ids \in Nat /\ DOMAIN spoken \subseteq 1 .. ids /\ at \in Nat /\ Complete(thread, ids, spoken)
  BY DEF ThreadInv
<1>3. \/ phase' = "idle" /\ messages' = <<>> /\ thread' = messages
      \/ phase' = "asking" /\ messages' = messages /\ thread' = thread
  BY DEF T!CallsDone, T!ends
<1>4. PICK c \in 1 .. Len(messages), m \in 1 .. Len(T!split(messages)) : Reached(messages, c, m, at, ids, spoken)
  BY <1>1 DEF ThreadInv
<1>5. T!Current = messages[c].toolCalls
  BY <1>4, CurrentIs
<1>6. at = Len(messages[c].toolCalls) + 1
  <2>1. messages \in Seq(MessageOf) /\ at \in 1 .. Len(messages[c].toolCalls) + 1
    BY <1>4 DEF Reached
  <2>2. messages[c] \in MessageOf
    BY <2>1, ElementOfSeq
  <2>3. Len(messages[c].toolCalls) \in Nat
    BY <2>2, LenProperties DEF MessageOf
  <2> QED BY <2>1, <2>3, <1>1, <1>5
<1>7. Complete(messages, ids, spoken)
  BY <1>4, <1>6, AllAnswered
<1>8. Complete(<<>>, ids, spoken)
  BY NothingSaid
<1> QED BY <1>1, <1>2, <1>3, <1>7, <1>8 DEF ThreadInv

LEMMA OpenaiTaken ==
  ASSUME ThreadInv, phase = "waiting", NEW calls \in Seq({"object", "null", "broken"}), NEW content \in Contents, T!Takes(T!openaiChat(content, calls))
  PROVE  ThreadInv'
<1>1. T!Takes(T!openaiChat(content, calls)) /\ phase = "waiting"
  OBVIOUS
<1> DEFINE r == T!openaiChat(content, calls)
           given == [i \in DOMAIN calls |-> [id |-> ids + i, arguments |-> calls[i], rawContent |-> <<>>]]
           N == Len(calls)
<1>2. calls \in Seq({"object", "null", "broken"}) /\ content \in Contents /\ ids \in Nat
  BY DEF ThreadInv
<1>3. N \in Nat /\ DOMAIN calls = 1 .. N /\ \A i \in 1 .. N : calls[i] \in {"object", "null", "broken"}
  BY <1>2, LenProperties, ElementOfSeq
<1>4. r.content = content /\ r.toolCalls = given /\ r.received = <<>>
  BY DEF T!openaiChat
<1>9. \A i \in 1 .. N : ids + i \in Nat /\ ids + i = i + ids
  <2>1. \A n, k \in Nat : \A i \in 1 .. k : n + i \in Nat /\ n + i = i + n
    BY SMT
  <2> HIDE DEF N
  <2> QED BY <2>1, <1>2, <1>3
<1>5. \A i \in 1 .. N : given[i] \in CallOf /\ given[i].id = i + ids /\ given[i].rawContent = <<>>
  <2>2. <<>> \in Seq(BlockOf)
    OBVIOUS
  <2> HIDE DEF N
  <2> QED BY <2>2, <1>9, <1>3 DEF CallOf
<1>6. given \in Seq(CallOf) /\ Len(given) = N
  <2>1. given \in [1 .. N -> CallOf]
    BY <1>3, <1>5
  <2>2. \A n \in Nat : \A s : s \in [1 .. n -> CallOf] => s \in Seq(CallOf) /\ Len(s) = n
    OBVIOUS
  <2> HIDE DEF given, N
  <2> QED BY <2>1, <2>2, <1>3
<1> HIDE DEF r, given, N
<1>7. CASE given = <<>>
  BY <1>1, <1>2, <1>4, <1>7, LastAnswer DEF r
<1>8. CASE given # <<>>
  <2> DEFINE m == T!Assistant(content, given)
  <2>1. m \in MessageOf /\ m.toolCalls = given
    BY <1>2, <1>6, AssistantMade
  <2>2. given[1].rawContent = <<>>
    <3>1. \A q \in Seq(CallOf) : q # <<>> => 1 \in 1 .. Len(q)
      OBVIOUS
    <3> QED BY <3>1, <1>5, <1>6, <1>8
  <2> HIDE DEF m
  <2>3. /\ T!IdsOf(T!toolUse(m), "tool_use") = [k \in 1 .. Len(given) |-> given[k].id]
        /\ T!IdsOf(T!toolUse(m), "tool_result") = <<>>
    BY <2>1, <2>2, <1>8, Rebuilds
  <2> QED BY <2>3, <1>1, <1>2, <1>4, <1>5, <1>6, <1>8, AnswerTaken DEF r, m
<1> QED BY <1>7, <1>8

LEMMA OpenaiKeeps == ASSUME ThreadAssumption, ThreadInv, T!OpenaiAnswers PROVE ThreadInv'
<1>1. phase = "waiting" /\ \E calls \in Calls \cup {<<>>}, content \in {"", T!text} : T!Takes(T!openaiChat(content, calls))
  BY DEF T!OpenaiAnswers
<1>2. Calls \cup {<<>>} \subseteq Seq({"object", "null", "broken"})
  <2>1. \A S : <<>> \in Seq(S)
    OBVIOUS
  <2>2. Calls \subseteq Seq({"object", "null", "broken"})
    BY DEF ThreadAssumption
  <2> QED BY <2>1, <2>2, Zenon
<1>3. {"", T!text} \subseteq Contents
  BY DEF T!text, Contents
<1> QED BY <1>1, <1>2, <1>3, OpenaiTaken

LEMMA AnthropicKeeps == ASSUME ThreadAssumption, ThreadInv, T!AnthropicAnswers PROVE ThreadInv'
<1>1. PICK blocks \in Replies : T!Takes(T!anthropicChat(blocks)) /\ phase = "waiting"
  BY DEF T!AnthropicAnswers
<1> DEFINE r == T!anthropicChat(blocks)
           content == T!Fresh(blocks)
           v == T!IdsOf(content, "tool_use")
           N == Len(v)
           plain == [i \in DOMAIN v |-> [id |-> v[i], arguments |-> "object", rawContent |-> <<>>]]
           given == T!captured(plain, content)
<1>2. /\ blocks \in Seq([type : {"thinking", "text", "tool_use"}, id : Nat])
      /\ \A k \in DOMAIN T!IdsOf(blocks, "tool_use") : T!IdsOf(blocks, "tool_use")[k] = k
      /\ ids \in Nat
  BY DEF ThreadAssumption, ThreadInv
<1>3. blocks \in Seq(BlockOf) /\ \A i \in 1 .. Len(blocks) : blocks[i].type # "tool_result"
  <2>1. [type : {"thinking", "text", "tool_use"}, id : Nat] \subseteq BlockOf
    BY DEF BlockOf
  <2>2. \A S, U : S \subseteq U => Seq(S) \subseteq Seq(U)
    OBVIOUS
  <2>3. \A i \in 1 .. Len(blocks) : blocks[i] \in [type : {"thinking", "text", "tool_use"}, id : Nat]
    BY <1>2, ElementOfSeq
  <2> QED BY <2>1, <2>2, <2>3, <1>2
<1>4. /\ content \in Seq(BlockOf) /\ Len(content) = Len(blocks) /\ \A i \in 1 .. Len(blocks) : content[i].type = blocks[i].type
      /\ T!IdsOf(blocks, "tool_use") \in Seq(Nat) /\ v \in Seq(Nat) /\ Len(v) = Len(T!IdsOf(blocks, "tool_use"))
      /\ \A k \in 1 .. Len(T!IdsOf(blocks, "tool_use")) : v[k] = T!IdsOf(blocks, "tool_use")[k] + ids
  BY <1>2, <1>3, FreshIds
<1>5. N \in Nat /\ DOMAIN v = 1 .. N /\ \A k \in 1 .. N : v[k] = k + ids /\ v[k] \in Nat
  BY <1>2, <1>4, LenProperties, ElementOfSeq
<1>6. r.toolCalls = given /\ r.received = content /\ r.content \in Contents
  BY DEF T!anthropicChat, T!text, Contents
<1> HIDE DEF r, v, content, N
<1>7. \A i \in 1 .. N : given[i] \in CallOf /\ given[i].id = v[i] /\ (i = 1 => given[i].rawContent = content)
  <2>1. <<>> \in Seq(BlockOf)
    OBVIOUS
  <2> QED BY <2>1, <1>4, <1>5 DEF T!captured, CallOf
<1>8. given \in Seq(CallOf) /\ Len(given) = N
  <2>1. given \in [1 .. N -> CallOf]
    BY <1>5, <1>7 DEF T!captured
  <2>2. \A n \in Nat : \A s : s \in [1 .. n -> CallOf] => s \in Seq(CallOf) /\ Len(s) = n
    OBVIOUS
  <2> HIDE DEF given
  <2> QED BY <2>1, <2>2, <1>5
<1> HIDE DEF given, plain
<1>9. CASE given = <<>>
  BY <1>1, <1>6, <1>9, LastAnswer DEF r
<1>10. CASE given # <<>>
  <2> DEFINE m == T!Assistant(r.content, given)
  <2>1. m \in MessageOf /\ m.toolCalls = given
    BY <1>6, <1>8, AssistantMade
  <2>2. 1 \in 1 .. N
    <3>1. \A q \in Seq(CallOf) : q # <<>> => 1 \in 1 .. Len(q)
      OBVIOUS
    <3> QED BY <3>1, <1>8, <1>10
  <2>3. content # <<>>
    <3>1. <<>> \in Seq(BlockOf) /\ Len(<<>>) = 0 /\ 1 .. 0 = {}
      BY SMT
    <3>2. T!IdsOf(<<>>, "tool_use") = <<>>
      BY <3>1, NoBlocks
    <3> QED BY <3>1, <3>2, <2>2 DEF N, v
  <2>4. T!toolUse(m) = content
    <3>1. m.toolCalls[1].rawContent = content
      BY <2>1, <2>2, <1>7
    <3> HIDE DEF m
    <3> QED BY <3>1, <2>3 DEF T!toolUse
  <2>5. T!IdsOf(content, "tool_use") = [k \in 1 .. Len(given) |-> given[k].id]
    <3>1. v = [k \in 1 .. N |-> v[k]]
      <4>1. \A S : \A q \in Seq(S) : q = [k \in 1 .. Len(q) |-> q[k]]
        OBVIOUS
      <4> QED BY <4>1, <1>4 DEF N
    <3>2. \A k \in 1 .. N : v[k] = given[k].id
      BY <1>7
    <3> QED BY <3>1, <3>2, <1>8 DEF v
  <2>6. T!IdsOf(content, "tool_result") = <<>>
    BY <1>3, <1>4, NoBlocks
  <2>7. \A k \in 1 .. Len(given) : given[k].id = k + ids
    BY <1>5, <1>7, <1>8
  <2> QED BY <2>4, <2>5, <2>6, <2>7, <1>1, <1>6, <1>8, <1>10, AnswerTaken DEF r, m
<1> QED BY <1>9, <1>10

LEMMA ThreadInit == ASSUME T!Init PROVE ThreadInv
<1>1. thread = <<>> /\ messages = <<>> /\ phase = "idle" /\ at = 1 /\ ids = 0 /\ spoken = <<>>
  BY DEF T!Init
<1>2. Complete(<<>>, ids, spoken)
  BY NothingSaid
<1>3. DOMAIN <<>> = {}
  OBVIOUS
<1> QED BY <1>1, <1>2, <1>3 DEF ThreadInv

LEMMA ThreadKept == ASSUME ThreadAssumption, ThreadInv, [T!Next]_(T!vars) PROVE ThreadInv'
<1>1. ASSUME UNCHANGED <<thread, messages, phase, at, ids, spoken>> PROVE ThreadInv'
  BY <1>1 DEF ThreadInv
<1>2. CASE T!Switch
  BY <1>1, <1>2 DEF T!Switch
<1>3. CASE T!Stop
  BY <1>1, <1>3 DEF T!Stop
<1>4. CASE UNCHANGED T!vars
  BY <1>1, <1>4 DEF T!vars
<1> QED BY <1>2, <1>3, <1>4, ReplyKeeps, AskKeeps, FailsKeeps, AnthropicKeeps, OpenaiKeeps, NextCallKeeps, CallsDoneKeeps DEF T!Next

\* The invariant of a thread: its transcript is complete whenever no tool of it is running.
LEMMA ThreadInductive == T!Spec => []ThreadInv
<1>1. T!Init => ThreadInv
  BY ThreadInit
<1>2. ThreadInv /\ [T!Next]_(T!vars) => ThreadInv'
  BY ThreadAssumption, ThreadKept
<1> QED BY <1>1, <1>2, PTL DEF T!Spec

LEMMA AnthropicValid == ASSUME ThreadInv, phase = "waiting", provider = "anthropic" PROVE T!WireValid /\ T!ThinkingEchoed
<1> DEFINE W == T!split(messages)
<1>1. Fits(W, 0, ids, spoken) /\ messages \in Seq(MessageOf)
  BY DEF ThreadInv, Complete
<1>2. W \in Seq(TurnOf)
  <2>1. T!Message("user", "") \in MessageOf
    BY MessageMade DEF Contents
  <2> QED BY <2>1, <1>1, SplitAppend
<1>3. DOMAIN W = 1 .. Len(W)
  BY <1>2, LenProperties
<1>4. ASSUME NEW i \in 1 .. Len(W)
      PROVE  /\ T!IdsOf(W[i].content, "tool_use") # <<>> =>
                  i < Len(W) /\ W[i + 1] = T!Turn("user", [k \in DOMAIN T!IdsOf(W[i].content, "tool_use") |-> T!Block("tool_result", T!IdsOf(W[i].content, "tool_use")[k])])
             /\ T!IdsOf(W[i].content, "tool_result") # <<>> => i > 1 /\ T!IdsOf(W[i - 1].content, "tool_use") # <<>>
             /\ T!IdsOf(W[i].content, "tool_use") # <<>> /\ T!IdsOf(W[i].content, "tool_use")[1] \in DOMAIN spoken =>
                  W[i].content = spoken[T!IdsOf(W[i].content, "tool_use")[1]]
  <2>1. i # 0
    BY SMT
  <2>2. /\ Uses(W[i]) # <<>> => Echo(W[i], ids, spoken) /\ i < Len(W) /\ W[i + 1] = T!Turn("user", ResultsOf(Uses(W[i])))
        /\ Gives(W[i]) # <<>> => i > 1 /\ Uses(W[i - 1]) # <<>>
    BY <2>1, <1>1 DEF Fits
  <2> HIDE DEF W
  <2> QED BY <2>2 DEF Uses, Gives, Echo, ResultsOf
<1>5. T!WireValid
  <2> HIDE DEF W
  <2> QED BY <1>4 DEF T!WireValid, W
<1>6. T!ThinkingEchoed
  <2> HIDE DEF W
  <2> QED BY <1>3, <1>4 DEF T!ThinkingEchoed, W
<1> QED BY <1>5, <1>6

LEMMA OpenaiValid == ASSUME ThreadInv, phase = "waiting", provider # "anthropic" PROVE T!WireValid
<1> DEFINE wire == [i \in DOMAIN messages |-> T!toWireMessage(messages[i])]
           asked == UNION {{<<i, k>> : k \in DOMAIN wire[i].tool_calls} : i \in DOMAIN wire}
           L == Len(messages)
<1>1. Pairs(messages, 0) /\ messages \in Seq(MessageOf)
  BY DEF ThreadInv, Complete
<1>2. DOMAIN messages = 1 .. L /\ L \in Nat /\ \A i \in 1 .. L : messages[i] \in MessageOf
  BY <1>1, LenProperties, ElementOfSeq
<1>3. \A i \in 1 .. L : messages[i].toolCalls \in Seq(CallOf) /\ Len(messages[i].toolCalls) \in Nat /\ DOMAIN messages[i].toolCalls = 1 .. Len(messages[i].toolCalls)
  <2>1. \A i \in 1 .. L : messages[i].toolCalls \in Seq(CallOf)
    BY <1>2 DEF MessageOf
  <2> QED BY <2>1, LenProperties
<1>4. DOMAIN wire = 1 .. L /\ Len(wire) = L
  <2>1. \A n \in Nat : \A f : DOMAIN f = 1 .. n => Len(f) = n
    OBVIOUS
  <2>2. DOMAIN wire = 1 .. L
    BY <1>2
  <2> HIDE DEF wire
  <2> QED BY <1>2, <2>1, <2>2
<1>5. \A i \in 1 .. L : /\ wire[i].role = messages[i].role /\ wire[i].tool_call_id = messages[i].toolCallId
                        /\ DOMAIN wire[i].tool_calls = 1 .. Len(messages[i].toolCalls)
                        /\ \A k \in 1 .. Len(messages[i].toolCalls) : wire[i].tool_calls[k] = messages[i].toolCalls[k].id
  BY <1>2, <1>3 DEF T!toWireMessage
<1> HIDE DEF wire, L
<1>6. \A e : e \in asked <=> \E i \in 1 .. L : \E k \in 1 .. Len(messages[i].toolCalls) : e = <<i, k>>
  <2>1. \A e : e \in asked <=> \E i \in DOMAIN wire : \E k \in DOMAIN wire[i].tool_calls : e = <<i, k>>
    <3> SUFFICES ASSUME NEW e PROVE e \in asked <=> \E i \in DOMAIN wire : \E k \in DOMAIN wire[i].tool_calls : e = <<i, k>>
      OBVIOUS
    <3> DEFINE those(i) == {<<i, k>> : k \in DOMAIN wire[i].tool_calls}
    <3>1. \A i : e \in those(i) <=> \E k \in DOMAIN wire[i].tool_calls : e = <<i, k>>
      BY Zenon
    <3>2. asked = UNION {those(i) : i \in DOMAIN wire}
      OBVIOUS
    <3> HIDE DEF those, asked
    <3>3. e \in UNION {those(i) : i \in DOMAIN wire} <=> \E i \in DOMAIN wire : e \in those(i)
      OBVIOUS
    <3> QED BY <3>1, <3>2, <3>3, Zenon
  <2> HIDE DEF asked
  <2>2. ASSUME NEW e PROVE (\E i \in DOMAIN wire : \E k \in DOMAIN wire[i].tool_calls : e = <<i, k>>)
                              <=> \E i \in 1 .. L : \E k \in 1 .. Len(messages[i].toolCalls) : e = <<i, k>>
    BY <1>4, <1>5
  <2> QED BY <2>1, <2>2
<1> HIDE DEF asked
<1>7. ASSUME NEW i \in 1 .. L, NEW k \in 1 .. Len(messages[i].toolCalls)
      PROVE  i + k \in 1 .. L /\ i + k <= L /\ wire[i + k].role = "tool" /\ wire[i + k].tool_call_id = wire[i].tool_calls[k]
  <2>1. Answers(messages, i, Len(messages[i].toolCalls))
    <3>1. i # 0
      BY SMT
    <3> QED BY <3>1, <1>1 DEF Pairs, L
  <2>2. i + k <= L /\ messages[i + k].role = "tool" /\ messages[i + k].toolCallId = messages[i].toolCalls[k].id
    BY <2>1 DEF Answers, L
  <2>3. i + k \in 1 .. L
    BY <2>2, <1>2, <1>3
  <2> QED BY <2>2, <2>3, <1>5
<1>8. ASSUME NEW i \in 1 .. L, wire[i].role = "tool" PROVE \E e \in asked : i = e[1] + e[2]
  <2>1. PICK j \in 1 .. i - 1 : i - j <= Len(messages[j].toolCalls)
    BY <1>1, <1>5, <1>8 DEF Pairs, L
  <2>2. j \in 1 .. L /\ i - j \in 1 .. Len(messages[j].toolCalls) /\ i = j + (i - j)
    <3>1. j \in 1 .. L
      BY <1>2
    <3>2. Len(messages[j].toolCalls) \in Nat
      BY <3>1, <1>3
    <3> QED BY <2>1, <3>1, <3>2, SMT
  <2>3. <<j, i - j>> \in asked
    BY <2>2, <1>6
  <2> QED BY <2>2, <2>3
<1>9. \A e \in asked : e[1] + e[2] \in 1 .. L /\ e[1] + e[2] <= L /\ wire[e[1] + e[2]].role = "tool" /\ wire[e[1] + e[2]].tool_call_id = wire[e[1]].tool_calls[e[2]]
  <2>1. SUFFICES ASSUME NEW e \in asked PROVE e[1] + e[2] \in 1 .. L /\ e[1] + e[2] <= L /\ wire[e[1] + e[2]].role = "tool" /\ wire[e[1] + e[2]].tool_call_id = wire[e[1]].tool_calls[e[2]]
    OBVIOUS
  <2>2. PICK i \in 1 .. L : \E k \in 1 .. Len(messages[i].toolCalls) : e = <<i, k>>
    BY <1>6
  <2>3. PICK k \in 1 .. Len(messages[i].toolCalls) : e = <<i, k>>
    BY <2>2
  <2>4. e[1] = i /\ e[2] = k
    BY <2>3
  <2> QED BY <2>4, <1>7
<1>10. {i \in DOMAIN wire : wire[i].role = "tool"} = {e[1] + e[2] : e \in asked}
  <2>1. \A i \in DOMAIN wire : wire[i].role = "tool" => i \in {e[1] + e[2] : e \in asked}
    BY <1>4, <1>8, Zenon
  <2>2. \A e \in asked : e[1] + e[2] \in DOMAIN wire /\ wire[e[1] + e[2]].role = "tool"
    BY <1>4, <1>9, Zenon
  <2> QED BY <2>1, <2>2, Zenon
<1>11. \A e \in asked : e[1] + e[2] <= Len(wire) /\ wire[e[1] + e[2]].role = "tool" /\ wire[e[1] + e[2]].tool_call_id = wire[e[1]].tool_calls[e[2]]
  BY <1>4, <1>9, Zenon
<1> QED BY <1>10, <1>11, Zenon DEF T!WireValid, wire, asked

\* AgentThread: whatever was stopped, failed, denied or asked of the other provider before, in every request of a thread
\* each call is answered once and at its place, no result answers nothing, and what Anthropic has answered with goes
\* back block for block.  For any answers of the models, any number of turns and of steps in a turn.
THEOREM RequestsTrueHolds == T!Spec => []RequestsTrue
<1>1. ThreadInv => RequestsTrue
  <2> SUFFICES ASSUME ThreadInv PROVE RequestsTrue
    OBVIOUS
  <2>1. CASE phase = "waiting" /\ provider = "anthropic"
    BY <2>1, AnthropicValid DEF RequestsTrue
  <2>2. CASE phase = "waiting" /\ provider # "anthropic"
    BY <2>2, OpenaiValid DEF RequestsTrue, T!ThinkingEchoed
  <2>3. CASE phase # "waiting"
    BY <2>3 DEF RequestsTrue, T!WireValid, T!ThinkingEchoed
  <2> QED BY <2>1, <2>2, <2>3
<1> QED BY <1>1, ThreadInductive, PTL
====
