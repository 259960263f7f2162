---- MODULE FolderSyncProofs ----
(* What FolderSync promises of the edits others make on disk, for any files, folders and number of *)
(* walks that overlap.  Modification times tell versions apart: no version that somebody else wrote *)
(* bears a recorded time, nor the time a walk took along when it set out to compare or to store.    *)
EXTENDS MCFolderSync, FiniteSetTheorems, FunctionTheorems, TLAPS

RestOK ==
    /\ vfs \in [File -> Data \cup {NoFile}]
    /\ mount \in Folder \cup {NoFolder}
    /\ swapping \in BOOLEAN /\ timer \in BOOLEAN
    /\ missed \in SUBSET File
    /\ events \in Nat

InHand == {"probe", "create", "write", "record", "store"}

\* A walk that is under way has a folder, and a file where its step is about one.
WalkType(w) ==
    /\ w \in Walk
    /\ w.pc # "idle" => w.dir \in Folder
    /\ w.pc \in InHand => w.file \in File
    /\ w.held.time <= clock /\ w.seen <= clock

\* What the walk w may be doing about the version v somebody else gave file f of folder F.
WalkOK(w, F, f, v) ==
    w.file = f =>
        /\ w.pc = "store" /\ w.held.time = v.time => w.dir = F /\ w.held = v
        /\ w.pc = "probe" => w.held.time # v.time
        /\ w.pc \in {"create", "write"} /\ w.dir = F => w.held.time = NoTime \/ w.seen < v.time

Edited(F, f) == disk[F][f] # NoFile /\ disk[F][f].by = "edit"
WalkFits(w) == \A F \in Folder : \A f \in File : Edited(F, f) => WalkOK(w, F, f, disk[F][f])
Unrecorded(f, time) == \A F \in Folder : Edited(F, f) => disk[F][f].time # time
NoTwin(F, f) == \A G \in Folder \ {F} : disk[G][f] # NoFile => disk[G][f].time # disk[F][f].time

TimesInv ==
    /\ \A f \in File : mtimes[f] <= clock
    /\ \A F \in Folder : \A f \in File : disk[F][f] # NoFile => disk[F][f].time \in 1 .. clock
WalksInv == \A o \in Op : WalkType(ops[o]) /\ WalkFits(ops[o])
EditsInv ==
    /\ \A f \in File : Unrecorded(f, mtimes[f])
    /\ \A F \in Folder : \A f \in File : Edited(F, f) => NoTwin(F, f)

IInv == TypeOK /\ TimesInv /\ WalksInv /\ EditsInv

----
\* What is known of a walk before a step.
Known(o) ==
    /\ ops \in [Op -> Walk] /\ ops[o] \in Walk /\ WalkType(ops[o]) /\ WalkFits(ops[o])
    /\ ops = [ops EXCEPT ![o] = ops[o]]
    /\ ops[o].todo \in SUBSET File /\ ops[o].held \in Version /\ ops[o].held.time \in Nat /\ ops[o].seen \in Nat
    /\ vfs \in [File -> Data \cup {NoFile}]
    /\ disk \in [Folder -> [File -> Version \cup {NoFile}]]
    /\ clock \in Nat /\ mtimes \in [File -> Nat]
    /\ \A f \in File : mtimes[f] <= clock

LEMMA Knows == ASSUME IInv, NEW o \in Op PROVE Known(o)
<1>1. ops \in [Op -> Walk] /\ ops[o] \in Walk /\ ops = [ops EXCEPT ![o] = ops[o]]
  BY DEF IInv, TypeOK
<1>2. ops[o].todo \in SUBSET File /\ ops[o].held \in Version /\ ops[o].seen \in Nat
  BY <1>1 DEF Walk
<1>3. ops[o].held.time \in Nat
  BY <1>2 DEF Version
<1>4. WalkType(ops[o]) /\ WalkFits(ops[o]) /\ \A f \in File : mtimes[f] <= clock
  BY DEF IInv, WalksInv, TimesInv
<1>5. /\ vfs \in [File -> Data \cup {NoFile}]
      /\ disk \in [Folder -> [File -> Version \cup {NoFile}]]
      /\ clock \in Nat /\ mtimes \in [File -> Nat]
  BY DEF IInv, TypeOK
<1> QED BY <1>1, <1>2, <1>3, <1>4, <1>5 DEF Known

\* A step that leaves the disk alone.
LEMMA Quiet ==
    ASSUME IInv, RestOK', disk' = disk, clock' = clock,
           mtimes' \in [File -> Nat], \A f \in File : mtimes'[f] <= clock /\ Unrecorded(f, mtimes'[f]),
           ops' \in [Op -> Walk], \A o \in Op : WalkType(ops'[o]) /\ WalkFits(ops'[o])
    PROVE  IInv'
<1>1. TypeOK'
  BY DEF IInv, TypeOK, RestOK
<1>2. TimesInv'
  BY DEF IInv, TimesInv
<1>3. WalksInv'
  BY DEF WalksInv, WalkType, WalkFits, WalkOK, Edited
<1>4. EditsInv'
  BY DEF IInv, EditsInv, Unrecorded, NoTwin, Edited
<1> QED BY <1>1, <1>2, <1>3, <1>4 DEF IInv

\* Such a step of one walk, which forgets times or learns none.
LEMMA OneWalk ==
    ASSUME IInv, RestOK', disk' = disk, clock' = clock, NEW o \in Op, NEW w,
           mtimes' \in [File -> Nat], \A f \in File : mtimes'[f] \in {mtimes[f], NoTime},
           ops' = [ops EXCEPT ![o] = w], WalkType(w), WalkFits(w)
    PROVE  IInv'
<1>1. \A f \in File : mtimes'[f] <= clock /\ Unrecorded(f, mtimes'[f])
  <2> TAKE f \in File
  <2>1. mtimes[f] <= clock /\ Unrecorded(f, mtimes[f]) /\ clock \in Nat
    BY DEF IInv, TimesInv, EditsInv, TypeOK
  <2>2. Unrecorded(f, NoTime)
    BY DEF Unrecorded, Edited, IInv, TimesInv, NoTime
  <2> QED BY <2>1, <2>2 DEF NoTime
<1>2. ops' \in [Op -> Walk] /\ \A p \in Op : WalkType(ops'[p]) /\ WalkFits(ops'[p])
  BY DEF IInv, TypeOK, WalksInv, WalkType
<1> QED BY <1>1, <1>2, Quiet

\* A walk with no file in hand disturbs no edit.
LEMMA HandsFree ==
    ASSUME NEW w, w.pc \notin InHand PROVE WalkFits(w)
BY DEF WalkFits, WalkOK, InHand

LEMMA IdleFits ==
    ASSUME IInv PROVE Idle \in Walk /\ WalkType(Idle) /\ WalkFits(Idle)
<1>1. NoVersion \in Version /\ NoVersion.time = 0
  <2>1. Empty \in Data
    BY DEF Data
  <2> QED BY <2>1 DEF NoVersion, Version, NoTime
<1>2. Idle \in Walk /\ Idle.held = NoVersion /\ Idle.pc = "idle" /\ Idle.seen = 0
  BY <1>1 DEF Idle, Walk, NoTime
<1>3. clock \in Nat
  BY DEF IInv, TypeOK
<1> QED BY <1>1, <1>2, <1>3, HandsFree DEF WalkType, InHand

----
\* A walk begins.
LEMMA BeginsFits ==
    ASSUME IInv, NEW o \in Op, NEW kind \in {"save", "push", "rescan", "pull", "mount", "swap"},
           NEW pc \in {"flush", "list", "walk"}, NEW dir \in Folder, NEW todo \in SUBSET File, Begins(o, kind, pc, dir, todo)
    PROVE  \E w : ops' = [ops EXCEPT ![o] = w] /\ WalkType(w) /\ WalkFits(w)
<1> DEFINE w == [Idle EXCEPT !.kind = kind, !.pc = pc, !.dir = dir, !.todo = todo]
<1>1. w \in Walk /\ w.pc = pc /\ w.dir = dir /\ w.held.time = 0 /\ w.seen = 0 /\ clock \in Nat
  BY IdleFits DEF Idle, Walk, NoVersion, NoTime, IInv, TypeOK
<1> HIDE DEF w
<1>2. WalkType(w) /\ WalkFits(w)
  BY <1>1, HandsFree DEF WalkType, InHand
<1>3. ops' = [ops EXCEPT ![o] = w]
  BY DEF Begins, w
<1> QED BY <1>2, <1>3

LEMMA FireSaveStep ==
    ASSUME IInv, NEW o \in Op, FireSave(o) PROVE IInv'
<1>1. RestOK' /\ disk' = disk /\ clock' = clock /\ mtimes' = mtimes
  BY DEF FireSave, IInv, TypeOK, RestOK
<1>2. \E w : ops' = [ops EXCEPT ![o] = w] /\ WalkType(w) /\ WalkFits(w)
  <2>1. CASE mount = NoFolder
    BY <2>1, Knows DEF FireSave, Known
  <2>2. CASE mount # NoFolder
    <3>1. mount \in Folder /\ FilesIn(vfs) \in SUBSET File
      BY <2>2 DEF IInv, TypeOK, FilesIn
    <3> QED BY <2>2, <3>1, BeginsFits DEF FireSave
  <2> QED BY <2>1, <2>2
<1> QED BY <1>1, <1>2, Knows, OneWalk DEF Known

LEMMA StartsStep ==
    ASSUME IInv, NEW o \in Op, Tick(o) \/ StartPush(o) \/ StartPull(o) PROVE IInv'
<1>1. RestOK' /\ disk' = disk /\ clock' = clock /\ mtimes' = mtimes
  BY DEF Tick, StartPush, StartPull, Event, IInv, TypeOK, RestOK
<1>2. \E w : ops' = [ops EXCEPT ![o] = w] /\ WalkType(w) /\ WalkFits(w)
  <2>1. mount \in Folder
    BY DEF Tick, StartPush, StartPull, IInv, TypeOK
  <2> QED BY <2>1, BeginsFits DEF Tick, StartPush, StartPull
<1> QED BY <1>1, <1>2, Knows, OneWalk DEF Known

\* The steps of a walk that leave it without a file in hand and touch neither disk nor times.
LEMMA FreeStep ==
    ASSUME IInv, RestOK', disk' = disk, clock' = clock, NEW o \in Op, NEW w \in Walk,
           mtimes' \in [File -> Nat], \A f \in File : mtimes'[f] \in {mtimes[f], NoTime},
           ops' = [ops EXCEPT ![o] = w], w.pc \notin InHand, w.pc # "idle" => w.dir \in Folder,
           w.held.time <= clock, w.seen <= clock
    PROVE  IInv'
<1>1. WalkType(w) /\ WalkFits(w)
  BY HandsFree DEF WalkType
<1> QED BY <1>1, OneWalk

LEMMA EndsStep ==
    ASSUME IInv, RestOK', disk' = disk, clock' = clock, mtimes' = mtimes, NEW o \in Op, Ends(o)
    PROVE  IInv'
BY IdleFits, Knows, OneWalk DEF Known, Ends

LEMMA WalkEndsStep ==
    ASSUME IInv, NEW o \in Op, WalkEnds(o) \/ SwapSettles(o) \/ Fail(o) PROVE IInv'
<1>1. disk' = disk /\ clock' = clock /\ mtimes' = mtimes /\ Ends(o)
  BY DEF WalkEnds, SwapSettles, Fail
<1>2. swapping' \in BOOLEAN
  BY DEF WalkEnds, SwapSettles, Fail, IInv, TypeOK
<1>3. RestOK
  BY DEF IInv, TypeOK, RestOK
<1>4. RestOK'
  BY <1>2, <1>3 DEF WalkEnds, SwapSettles, Fail, Event, RestOK
<1> QED BY <1>1, <1>4, EndsStep

LEMMA ListForPushStep ==
    ASSUME IInv, NEW o \in Op, ListForPush(o) \/ ListForSave(o) PROVE IInv'
<1> DEFINE w == IF ListForPush(o) THEN [ops[o] EXCEPT !.pc = "prune", !.todo = FilesIn(disk[ops[o].dir]) \ FilesIn(vfs)]
                ELSE [ops[o] EXCEPT !.pc = "walk", !.todo = FilesIn(vfs)]
<1>0. Known(o)
  BY Knows
<1>1. RestOK' /\ disk' = disk /\ clock' = clock /\ mtimes' = mtimes
  BY DEF ListForPush, ListForSave, IInv, TypeOK, RestOK
<1>2. ops[o].pc \in {"list", "prune"} /\ ops' = [ops EXCEPT ![o] = w]
  BY <1>0 DEF ListForPush, ListForSave, Known
<1>3. w \in Walk /\ w.pc \in {"prune", "walk"} /\ w.dir = ops[o].dir /\ w.held = ops[o].held /\ w.seen = ops[o].seen
  BY <1>0 DEF Known, Walk, FilesIn
<1> HIDE DEF w
<1>4. w.dir \in Folder /\ w.held.time <= clock /\ w.seen <= clock
  BY <1>0, <1>2, <1>3 DEF Known, WalkType
<1> QED BY <1>0, <1>1, <1>2, <1>3, <1>4, FreeStep DEF Known, InHand

LEMMA LoadedStep ==
    ASSUME IInv, NEW o \in Op, Loaded(o) PROVE IInv'
<1> DEFINE w == [ops[o] EXCEPT !.pc = "announce"]
<1>0. Known(o)
  BY Knows
<1>1. RestOK' /\ disk' = disk /\ clock' = clock /\ mtimes' = mtimes
  BY DEF Loaded, IInv, TypeOK, RestOK
<1>2. ops[o].pc = "walk" /\ ops' = [ops EXCEPT ![o] = w]
  BY <1>0 DEF Loaded, Goes, Known
<1>3. w \in Walk /\ w.pc = "announce" /\ w.dir = ops[o].dir /\ w.held = ops[o].held /\ w.seen = ops[o].seen
  BY <1>0 DEF Known, Walk
<1> HIDE DEF w
<1>4. w.dir \in Folder /\ w.held.time <= clock /\ w.seen <= clock
  BY <1>0, <1>2, <1>3 DEF Known, WalkType
<1> QED BY <1>0, <1>1, <1>2, <1>3, <1>4, FreeStep DEF Known, InHand

LEMMA AnnounceStep ==
    ASSUME IInv, NEW o \in Op, Announce(o) PROVE IInv'
<1>0. Known(o)
  BY Knows
<1>1. ops[o].dir \in Folder
  BY <1>0 DEF Announce, Known, WalkType
<1>2. RestOK' /\ disk' = disk /\ clock' = clock /\ mtimes' = mtimes
  BY <1>1 DEF Announce, IInv, TypeOK, RestOK
<1>3. ops' = [ops EXCEPT ![o] = ops[o]] \/ Ends(o)
  BY <1>0 DEF Announce, Known
<1> QED BY <1>0, <1>2, <1>3, EndsStep, OneWalk DEF Known

LEMMA SwapStep ==
    ASSUME IInv, NEW o \in Op, NEW F \in Folder, Swap(o, F) PROVE IInv'
<1>1. RestOK' /\ disk' = disk /\ clock' = clock /\ mtimes' = mtimes
  <2>1. RestOK
    BY DEF IInv, TypeOK, RestOK
  <2>2. missed' \in SUBSET File /\ events' \in Nat /\ swapping' = TRUE /\ timer' = FALSE
    BY <2>1 DEF Swap, Event, RestOK
  <2>3. UNCHANGED <<vfs, disk, clock, mtimes, mount>>
    BY DEF Swap
  <2> QED BY <2>1, <2>2, <2>3 DEF RestOK
<1>2. \E w : ops' = [ops EXCEPT ![o] = w] /\ WalkType(w) /\ WalkFits(w)
  BY BeginsFits DEF Swap
<1> QED BY <1>1, <1>2, Knows, OneWalk DEF Known

\* What was forgotten was never an edit: the edits stand, at their times.
LEMMA ForgetsNoEdit ==
    ASSUME IInv, NEW F \in Folder
    PROVE  /\ Forgotten(F) \in [Folder -> [File -> Version \cup {NoFile}]]
           /\ \A G \in Folder : \A f \in File :
                 /\ Forgotten(F)[G][f] = NoFile <=> disk[G][f] = NoFile
                 /\ disk[G][f] # NoFile => /\ Forgotten(F)[G][f] \in Version
                                           /\ Forgotten(F)[G][f].time = disk[G][f].time
                                           /\ Forgotten(F)[G][f].data = disk[G][f].data
                 /\ disk[G][f] # NoFile /\ Forgotten(F)[G][f].by = "edit" => Forgotten(F)[G][f] = disk[G][f]
<1> DEFINE left(f) == [disk[F][f] EXCEPT !.by = IF disk[F][f].by = "ours" THEN "left" ELSE disk[F][f].by]
<1>1. disk \in [Folder -> [File -> Version \cup {NoFile}]]
  BY DEF IInv, TypeOK
<1>2. \A v \in Version : v # NoFile
  BY AbsenceAssumption
<1>3. ASSUME NEW f \in File, disk[F][f] # NoFile
      PROVE  /\ left(f) \in Version /\ left(f).time = disk[F][f].time /\ left(f).data = disk[F][f].data
             /\ left(f).by = "edit" => left(f) = disk[F][f]
  <2>1. disk[F][f] \in Version
    BY <1>1, <1>3
  <2> QED BY <2>1 DEF Version
<1>4. \A G \in Folder : \A f \in File :
        Forgotten(F)[G][f] = IF G = F /\ disk[F][f] # NoFile THEN left(f) ELSE disk[G][f]
  BY <1>1 DEF Forgotten
<1>5. Forgotten(F) = [disk EXCEPT ![F] = [f \in File |-> IF disk[F][f] = NoFile THEN NoFile ELSE left(f)]]
  BY DEF Forgotten
<1> HIDE DEF left
<1>6. Forgotten(F) \in [Folder -> [File -> Version \cup {NoFile}]]
  BY <1>1, <1>3, <1>5
<1> QED BY <1>1, <1>2, <1>3, <1>4, <1>6

LEMMA MountStep ==
    ASSUME IInv, NEW o \in Op, NEW F \in Folder, Mount(o, F) PROVE IInv'
<1>1. RestOK' /\ clock' = clock
  <2>1. RestOK /\ vfs' \in [File -> Data \cup {NoFile}]
    BY DEF Mount, ClearWorkspace, IInv, TypeOK, RestOK
  <2>2. swapping' \in BOOLEAN /\ timer' \in BOOLEAN /\ missed' \in SUBSET File
    BY <2>1 DEF Mount, ClearWorkspace, RestOK
  <2>3. events' \in Nat /\ mount' = mount /\ clock' = clock
    BY <2>1 DEF Mount, Event, RestOK
  <2> QED BY <2>1, <2>2, <2>3 DEF RestOK
<1>2. PICK w : ops' = [ops EXCEPT ![o] = w] /\ WalkType(w) /\ WalkFits(w)
  BY BeginsFits DEF Mount
<1>3. CASE UNCHANGED <<disk, mtimes>>
  BY <1>1, <1>2, <1>3, Knows, OneWalk DEF Known
<1>4. CASE disk' = Forgotten(F) /\ mtimes' = [f \in File |-> NoTime]
  <2>0. Known(o) /\ TimesInv /\ EditsInv /\ WalksInv
    BY Knows DEF IInv
  <2>1. ops' \in [Op -> Walk] /\ \A p \in Op : WalkType(ops'[p]) /\ WalkFits(ops'[p])
    BY <1>2, <2>0 DEF Known, WalksInv, WalkType
  <2>2. disk' \in [Folder -> [File -> Version \cup {NoFile}]]
    BY <1>4, ForgetsNoEdit
  <2>3. \A G \in Folder : \A f \in File : disk'[G][f] # NoFile => disk[G][f] # NoFile /\ disk'[G][f].time = disk[G][f].time
    BY <1>4, ForgetsNoEdit
  <2>4. \A G \in Folder : \A f \in File : Edited(G, f)' => Edited(G, f) /\ disk'[G][f] = disk[G][f]
    BY <1>4, ForgetsNoEdit DEF Edited
  <2>5. TypeOK'
    BY <1>1, <1>4, <2>0, <2>1, <2>2 DEF TypeOK, RestOK, Known, NoTime
  <2>6. TimesInv'
    BY <1>1, <1>4, <2>0, <2>3 DEF TimesInv, Known, NoTime
  <2>7. WalksInv'
    BY <1>1, <2>1, <2>4 DEF WalksInv, WalkType, WalkFits, WalkOK
  <2>8. EditsInv'
    <3>1. ASSUME NEW f \in File PROVE Unrecorded(f, mtimes[f])'
      BY <1>4, <2>0, <2>4 DEF Unrecorded, TimesInv, NoTime, Edited
    <3>2. ASSUME NEW G \in Folder, NEW f \in File, Edited(G, f)' PROVE NoTwin(G, f)'
      BY <2>0, <2>3, <2>4, <3>2 DEF EditsInv, NoTwin
    <3> QED BY <3>1, <3>2 DEF EditsInv
  <2> QED BY <2>5, <2>6, <2>7, <2>8 DEF IInv
<1> QED BY <1>3, <1>4 DEF Mount, ClearWorkspace

LEMMA SwapClearStep ==
    ASSUME IInv, NEW o \in Op, SwapClear(o) PROVE IInv'
<1> DEFINE w == [ops[o] EXCEPT !.pc = "walk", !.todo = File]
<1>0. Known(o)
  BY Knows
<1>1. RestOK' /\ disk' = disk /\ clock' = clock
  BY DEF SwapClear, ClearWorkspace, IInv, TypeOK, RestOK
<1>2. mtimes' \in [File -> Nat] /\ \A f \in File : mtimes'[f] \in {mtimes[f], NoTime}
  BY <1>0 DEF SwapClear, ClearWorkspace, Known, NoTime
<1>3. ops[o].pc = "flush" /\ ops' = [ops EXCEPT ![o] = w]
  BY <1>0 DEF SwapClear, Known
<1>4. w \in Walk /\ w.pc = "walk" /\ w.dir = ops[o].dir /\ w.held = ops[o].held /\ w.seen = ops[o].seen
  BY <1>0 DEF Known, Walk
<1> HIDE DEF w
<1>5. w.dir \in Folder /\ w.held.time <= clock /\ w.seen <= clock
  BY <1>0, <1>3, <1>4 DEF Known, WalkType
<1> QED BY <1>1, <1>2, <1>3, <1>4, <1>5, FreeStep DEF InHand

LEMMA PruneVfsStep ==
    ASSUME IInv, NEW o \in Op, PruneVfs(o) PROVE IInv'
<1> DEFINE w == [ops[o] EXCEPT !.pc = "walk", !.todo = File]
<1>0. Known(o)
  BY Knows
<1>1. RestOK' /\ disk' = disk /\ clock' = clock
  BY DEF PruneVfs, SavesSuspended, IInv, TypeOK, RestOK
<1>2. mtimes' \in [File -> Nat] /\ \A f \in File : mtimes'[f] \in {mtimes[f], NoTime}
  BY <1>0 DEF PruneVfs, Known, NoTime
<1>3. ops[o].pc = "list" /\ ops' = [ops EXCEPT ![o] = w]
  BY <1>0 DEF PruneVfs, Known
<1>4. w \in Walk /\ w.pc = "walk" /\ w.dir = ops[o].dir /\ w.held = ops[o].held /\ w.seen = ops[o].seen
  BY <1>0 DEF Known, Walk
<1> HIDE DEF w
<1>5. w.dir \in Folder /\ w.held.time <= clock /\ w.seen <= clock
  BY <1>0, <1>3, <1>4 DEF Known, WalkType
<1> QED BY <1>1, <1>2, <1>3, <1>4, <1>5, FreeStep DEF InHand

----
\* A walk takes a file in hand.
LEMMA VisitForReadStep ==
    ASSUME IInv, NEW o \in Op, VisitForRead(o) PROVE IInv'
<1>0. Known(o)
  BY Knows
<1>1. RestOK' /\ disk' = disk /\ clock' = clock /\ mtimes' = mtimes
  BY DEF VisitForRead, IInv, TypeOK, RestOK
<1>2. PICK f \in ops[o].todo :
        LET version == disk[ops[o].dir][f] IN
        ops' = IF Wanted(ops[o].kind, f, version)
               THEN [ops EXCEPT ![o].file = f, ![o].todo = @ \ {f}, ![o].held = version, ![o].pc = "store"]
               ELSE [ops EXCEPT ![o].todo = @ \ {f}]
  BY DEF VisitForRead
<1>3. f \in File /\ ops[o].pc = "walk" /\ ops[o].dir \in Folder /\ ops[o].held.time <= clock /\ ops[o].seen <= clock
  BY <1>0 DEF VisitForRead, Known, WalkType
<1> DEFINE v == disk[ops[o].dir][f]
           taken == [ops[o] EXCEPT !.file = f, !.todo = ops[o].todo \ {f}, !.held = v, !.pc = "store"]
           left == [ops[o] EXCEPT !.todo = ops[o].todo \ {f}]
<1>4. CASE v # NoFile /\ ops' = [ops EXCEPT ![o] = taken]
  <2>1. v \in Version /\ v.time <= clock
    BY <1>0, <1>3, <1>4 DEF Known, IInv, TimesInv
  <2>2. taken \in Walk /\ taken.pc = "store" /\ taken.file = f /\ taken.dir = ops[o].dir /\ taken.held = v /\ taken.seen = ops[o].seen
    BY <1>0, <1>3, <2>1 DEF Known, Walk
  <2>3. \A F \in Folder : Edited(F, f) /\ v.time = disk[F][f].time => F = ops[o].dir
    BY <1>3, <1>4 DEF IInv, EditsInv, NoTwin
  <2> HIDE DEF taken
  <2>4. WalkType(taken) /\ WalkFits(taken)
    BY <1>3, <2>1, <2>2, <2>3 DEF WalkType, WalkFits, WalkOK, InHand
  <2> QED BY <1>0, <1>1, <1>4, <2>4, OneWalk DEF Known
<1>5. CASE ops' = [ops EXCEPT ![o] = left]
  <2>1. left \in Walk /\ left.pc = "walk" /\ left.dir = ops[o].dir /\ left.held = ops[o].held /\ left.seen = ops[o].seen
    BY <1>0, <1>3 DEF Known, Walk
  <2> HIDE DEF left
  <2> QED BY <1>0, <1>1, <1>3, <1>5, <2>1, FreeStep DEF Known, InHand
<1>6. (v # NoFile /\ ops' = [ops EXCEPT ![o] = taken]) \/ ops' = [ops EXCEPT ![o] = left]
  BY <1>0, <1>2 DEF Known, Wanted
<1> QED BY <1>4, <1>5, <1>6

LEMMA VisitForSaveStep ==
    ASSUME IInv, NEW o \in Op, VisitForSave(o) PROVE IInv'
<1>0. Known(o)
  BY Knows
<1>1. RestOK' /\ disk' = disk /\ clock' = clock /\ mtimes' = mtimes
  BY DEF VisitForSave, IInv, TypeOK, RestOK
<1>2. CASE Ends(o)
  BY <1>1, <1>2, EndsStep
<1>3. CASE \E f \in ops[o].todo :
            /\ vfs[f] # NoFile
            /\ ops' = [ops EXCEPT ![o].file = f, ![o].todo = @ \ {f},
                                  ![o].held = [data |-> vfs[f], time |-> mtimes[f], by |-> "ours"],
                                  ![o].pc = IF mtimes[f] = NoTime THEN "create" ELSE "probe"]
  <2>1. PICK f \in ops[o].todo :
            /\ vfs[f] # NoFile
            /\ ops' = [ops EXCEPT ![o].file = f, ![o].todo = @ \ {f},
                                  ![o].held = [data |-> vfs[f], time |-> mtimes[f], by |-> "ours"],
                                  ![o].pc = IF mtimes[f] = NoTime THEN "create" ELSE "probe"]
    BY <1>3
  <2> DEFINE h == [data |-> vfs[f], time |-> mtimes[f], by |-> "ours"]
             w == [ops[o] EXCEPT !.file = f, !.todo = ops[o].todo \ {f}, !.held = h,
                                 !.pc = IF mtimes[f] = NoTime THEN "create" ELSE "probe"]
  <2>2. f \in File /\ ops[o].dir \in Folder /\ vfs[f] \in Data /\ mtimes[f] \in Nat /\ mtimes[f] <= clock /\ ops[o].seen <= clock
    BY <1>0, <2>1 DEF VisitForSave, Known, WalkType
  <2>3. h \in Version /\ h.time = mtimes[f]
    BY <2>2 DEF Version
  <2>4. ops' = [ops EXCEPT ![o] = w]
    BY <1>0, <2>1 DEF Known
  <2> HIDE DEF h
  <2>5. w \in Walk /\ w.file = f /\ w.held = h /\ w.dir = ops[o].dir /\ w.seen = ops[o].seen
        /\ w.pc = IF mtimes[f] = NoTime THEN "create" ELSE "probe"
    BY <1>0, <2>2, <2>3 DEF Known, Walk
  <2> HIDE DEF w
  <2>6. Unrecorded(f, mtimes[f])
    BY <2>2 DEF IInv, EditsInv
  <2>7. WalkType(w) /\ WalkFits(w)
    BY <2>2, <2>3, <2>5, <2>6 DEF WalkType, WalkFits, WalkOK, InHand, Unrecorded
  <2> QED BY <1>0, <1>1, <2>4, <2>7, OneWalk DEF Known
<1> QED BY <1>2, <1>3 DEF VisitForSave

----
\* A step that replaces or removes one version, leaving none that somebody else wrote: x takes
\* the place of the version of f in folder F, and its time may be recorded.
LEMMA OneVersion ==
    ASSUME IInv, RestOK', NEW F \in Folder, NEW f \in File, NEW x \in Version \cup {NoFile},
           disk' = [disk EXCEPT ![F][f] = x], x # NoFile => x.by # "edit",
           \/ x = NoFile /\ clock' = clock /\ mtimes'[f] \in {mtimes[f], NoTime}
           \/ x \in Version /\ x.time = clock + 1 /\ clock' = clock + 1 /\ mtimes'[f] = mtimes[f]
           \/ /\ x \in Version /\ disk[F][f] # NoFile /\ x.time = disk[F][f].time
              /\ clock' = clock /\ mtimes'[f] \in {mtimes[f], x.time},
           mtimes' \in [File -> Nat],
           \A g \in File \ {f} : mtimes'[g] = mtimes[g],
           NEW o \in Op, NEW w \in Walk, ops' = [ops EXCEPT ![o] = w],
           w.dir \in Folder, w.pc \in InHand => w.file \in File, w.held.time <= clock, w.seen <= clock,
           \A G \in Folder : \A g \in File : Edited(G, g) /\ ~(G = F /\ g = f) => WalkOK(w, G, g, disk[G][g])
    PROVE  IInv'
<1>0. Known(o) /\ TimesInv /\ EditsInv /\ WalksInv
  BY Knows DEF IInv
<1>1. \A G \in Folder : \A g \in File : disk'[G][g] = IF G = F /\ g = f THEN x ELSE disk[G][g]
  BY <1>0 DEF Known
<1>2. clock' \in Nat /\ clock <= clock' /\ ops' \in [Op -> Walk] /\ disk' \in [Folder -> [File -> Version \cup {NoFile}]]
  BY <1>0 DEF Known
<1>3. TypeOK'
  BY <1>2 DEF TypeOK, RestOK
<1>4. \A v \in Version : v.time \in Nat
  BY DEF Version
<1>5. \A G \in Folder : \A g \in File : disk'[G][g] # NoFile => disk'[G][g].time \in 1 .. clock'
  <2> SUFFICES ASSUME NEW G \in Folder, NEW g \in File, disk'[G][g] # NoFile PROVE disk'[G][g].time \in 1 .. clock'
    OBVIOUS
  <2>1. CASE G = F /\ g = f
    BY <1>0, <1>1, <1>2, <1>4, <2>1 DEF Known, TimesInv
  <2>2. CASE ~(G = F /\ g = f)
    BY <1>0, <1>1, <1>2, <2>2 DEF Known, TimesInv
  <2> QED BY <2>1, <2>2
<1>6. \A g \in File : mtimes'[g] <= clock'
  <2> TAKE g \in File
  <2>1. CASE g = f /\ disk[F][f] # NoFile /\ mtimes'[f] = disk[F][f].time
    BY <1>0, <1>2, <2>1 DEF Known, TimesInv
  <2>2. CASE mtimes'[g] \in {mtimes[g], NoTime}
    BY <1>0, <1>2, <2>2 DEF Known, NoTime
  <2> QED BY <2>1, <2>2
<1>7. \A G \in Folder : \A g \in File : Edited(G, g)' => Edited(G, g) /\ disk'[G][g] = disk[G][g] /\ ~(G = F /\ g = f)
  BY <1>1 DEF Edited
<1>8. (\A o_1 \in Op : WalkType(ops[o_1]) /\ WalkFits(ops[o_1]))'
  <2> SUFFICES ASSUME NEW p \in Op PROVE WalkType(ops[p])' /\ WalkFits(ops[p])'
    OBVIOUS
  <2>1. /\ ops'[p] \in Walk /\ (ops'[p].pc # "idle" => ops'[p].dir \in Folder)
        /\ (ops'[p].pc \in InHand => ops'[p].file \in File) /\ ops'[p].held.time <= clock /\ ops'[p].seen <= clock
    BY <1>0 DEF Known, WalksInv, WalkType
  <2>2. ops'[p].held.time \in Nat /\ ops'[p].seen \in Nat
    BY <2>1, <1>4 DEF Walk
  <2>3. ASSUME NEW G \in Folder, NEW g \in File, Edited(G, g), ~(G = F /\ g = f) PROVE WalkOK(ops'[p], G, g, disk[G][g])
    BY <1>0, <2>3 DEF Known, WalksInv, WalkFits
  <2>4. WalkType(ops[p])'
    BY <1>0, <1>2, <2>1, <2>2 DEF WalkType, Known
  <2>5. WalkFits(ops[p])'
    BY <1>7, <2>3 DEF WalkFits, WalkOK
  <2> QED BY <2>4, <2>5
<1>9. ASSUME NEW g \in File PROVE Unrecorded(g, mtimes[g])'
  <2> SUFFICES ASSUME NEW G \in Folder, Edited(G, g)' PROVE disk'[G][g].time # mtimes'[g]
    BY DEF Unrecorded
  <2>1. Edited(G, g) /\ disk'[G][g] = disk[G][g] /\ ~(G = F /\ g = f) /\ disk[G][g].time \in 1 .. clock
    BY <1>0, <1>7 DEF TimesInv, Edited
  <2>2. disk[G][g].time # mtimes[g] /\ disk[G][g].time # NoTime
    BY <1>0, <2>1 DEF EditsInv, Unrecorded, NoTime
  <2>3. CASE g = f /\ disk[F][f] # NoFile /\ mtimes'[f] = disk[F][f].time
    <3>1. G # F /\ NoTwin(G, f)
      BY <1>0, <2>1, <2>3 DEF EditsInv
    <3> QED BY <1>0, <2>1, <2>3, <3>1 DEF NoTwin, Known
  <2> QED BY <2>1, <2>2, <2>3
<1>10. ASSUME NEW G \in Folder, NEW g \in File, Edited(G, g)' PROVE NoTwin(G, g)'
  <2> SUFFICES ASSUME NEW H \in Folder \ {G}, disk'[H][g] # NoFile PROVE disk'[H][g].time # disk'[G][g].time
    BY DEF NoTwin
  <2>1. Edited(G, g) /\ disk'[G][g] = disk[G][g] /\ disk[G][g].time \in 1 .. clock /\ NoTwin(G, g)
    BY <1>0, <1>7, <1>10 DEF TimesInv, Edited, EditsInv
  <2>2. CASE H = F /\ g = f
    BY <1>0, <1>1, <2>1, <2>2 DEF NoTwin, Known
  <2>3. CASE ~(H = F /\ g = f)
    BY <1>1, <2>1, <2>3 DEF NoTwin
  <2> QED BY <2>2, <2>3
<1>11. TimesInv'
  BY <1>5, <1>6 DEF TimesInv
<1>12. WalksInv'
  BY <1>8 DEF WalksInv
<1>13. EditsInv'
  BY <1>9, <1>10 DEF EditsInv
<1> QED BY <1>3, <1>11, <1>12, <1>13 DEF IInv

\* What is known of a walk with a file in hand.
HandKnown(o, F, f, v) ==
    /\ Known(o) /\ F = ops[o].dir /\ f = ops[o].file /\ v = disk[F][f]
    /\ F \in Folder /\ f \in File /\ v \in Version \cup {NoFile} /\ ops[o].held.time <= clock /\ ops[o].seen <= clock
    /\ v # NoFile => v \in Version /\ v.time \in 1 .. clock /\ v.data \in Data
    /\ Edited(F, f) => WalkOK(ops[o], F, f, v)
    /\ \A g \in File : disk = [disk EXCEPT ![F][g] = disk[F][g]]

LEMMA Holding ==
    ASSUME IInv, NEW o \in Op, ops[o].pc \in InHand
    PROVE  HandKnown(o, ops[o].dir, ops[o].file, disk[ops[o].dir][ops[o].file])
<1> DEFINE F == ops[o].dir
           f == ops[o].file
           v == disk[F][f]
<1>0. Known(o) /\ TimesInv
  BY Knows DEF IInv
<1>1. F \in Folder /\ f \in File /\ ops[o].held.time <= clock /\ ops[o].seen <= clock
  BY <1>0 DEF Known, WalkType, InHand
<1>2. v \in Version \cup {NoFile} /\ \A g \in File : disk = [disk EXCEPT ![F][g] = disk[F][g]]
  BY <1>0, <1>1 DEF Known
<1>3. v # NoFile => v \in Version /\ v.time \in 1 .. clock /\ v.data \in Data
  BY <1>0, <1>1, <1>2 DEF TimesInv, Version
<1>4. Edited(F, f) => WalkOK(ops[o], F, f, v)
  BY <1>0, <1>1 DEF Known, WalkFits
<1> HIDE DEF F, f, v
<1> QED BY <1>0, <1>1, <1>2, <1>3, <1>4 DEF HandKnown, F, f, v

\* The walk takes up the next entry.
LEMMA NextEntryFits ==
    ASSUME IInv, NEW o \in Op, ops[o].pc \in InHand, NextEntry(o)
    PROVE  \E w \in Walk : /\ ops' = [ops EXCEPT ![o] = w] /\ WalkType(w) /\ WalkFits(w)
                           /\ w.dir \in Folder /\ w.pc = "walk" /\ w.held.time <= clock /\ w.seen <= clock
<1> DEFINE w == [ops[o] EXCEPT !.pc = "walk", !.file = NoFile, !.held = NoVersion, !.seen = NoTime]
<1>1. Known(o) /\ ops[o].dir \in Folder
  BY Knows DEF Known, WalkType, InHand
<1>2. NoVersion \in Version /\ NoVersion.time = 0
  <2>1. Empty \in Data
    BY DEF Data
  <2> QED BY <2>1 DEF NoVersion, Version, NoTime
<1>3. w \in Walk /\ w.pc = "walk" /\ w.dir = ops[o].dir /\ w.held = NoVersion /\ w.seen = 0
  BY <1>1, <1>2 DEF Known, Walk, NoTime
<1>4. ops' = [ops EXCEPT ![o] = w]
  BY <1>1 DEF NextEntry, Known
<1> HIDE DEF w
<1>5. WalkType(w) /\ WalkFits(w)
  BY <1>1, <1>2, <1>3, HandsFree DEF WalkType, InHand, Known
<1>6. w \in Walk /\ w.dir \in Folder /\ w.pc = "walk" /\ w.held.time <= clock /\ w.seen <= clock
  BY <1>1, <1>2, <1>3 DEF Known
<1> QED BY <1>4, <1>5, <1>6

LEMMA ProbeStep ==
    ASSUME IInv, NEW o \in Op, Probe(o) PROVE IInv'
<1> DEFINE F == ops[o].dir
           f == ops[o].file
           v == disk[F][f]
<1>1. HandKnown(o, F, f, v) /\ ops[o].pc = "probe"
  BY Holding DEF Probe, InHand
<1>2. RestOK' /\ clock' = clock
  BY DEF Probe, IInv, TypeOK, RestOK
<1>3. CASE /\ UNCHANGED <<mtimes, disk>>
           /\ (v = NoFile /\ Compared(o, "create")) \/ (v # NoFile /\ ~DiskMoved(v, ops[o].held) /\ Compared(o, "write"))
  <2> DEFINE w == [ops[o] EXCEPT !.pc = IF v = NoFile THEN "create" ELSE "write", !.seen = clock]
  <2>1. w \in Walk /\ w.pc \in {"create", "write"} /\ w.dir = F /\ w.file = f /\ w.held = ops[o].held /\ w.seen = clock
    BY <1>1 DEF HandKnown, Known, Walk
  <2>2. ops' = [ops EXCEPT ![o] = w]
    BY <1>1, <1>3 DEF Compared, HandKnown, Known
  <2>3. ~Edited(F, f)
    BY <1>1, <1>3 DEF HandKnown, WalkOK, Edited, DiskMoved
  <2> HIDE DEF w, F, f, v
  <2>4. WalkType(w) /\ WalkFits(w)
    BY <1>1, <2>1, <2>3 DEF HandKnown, Known, WalkType, WalkFits, WalkOK, InHand
  <2> QED BY <1>1, <1>2, <1>3, <2>2, <2>4, OneWalk DEF HandKnown, Known
<1>4. CASE UNCHANGED <<mtimes, disk>> /\ NextEntry(o)
  BY <1>1, <1>2, <1>4, NextEntryFits, OneWalk DEF HandKnown, Known, InHand
<1>5. CASE /\ v # NoFile /\ NextEntry(o)
           /\ mtimes' = [mtimes EXCEPT ![f] = v.time] /\ disk' = [disk EXCEPT ![F][f].by = "ours"]
  <2> DEFINE x == [v EXCEPT !.by = "ours"]
  <2>1. v \in Version /\ v.time \in Nat
    BY <1>1, <1>5 DEF HandKnown, Version
  <2>2. x \in Version /\ x.time = v.time /\ x.by = "ours"
    BY <2>1 DEF Version
  <2>3. PICK w \in Walk : /\ ops' = [ops EXCEPT ![o] = w] /\ WalkType(w) /\ WalkFits(w)
                          /\ w.dir \in Folder /\ w.pc = "walk" /\ w.held.time <= clock /\ w.seen <= clock
    <3>1. NextEntry(o) /\ ops[o].pc \in InHand
      BY <1>1, <1>5 DEF InHand
    <3> HIDE DEF v, F, f, x
    <3> QED BY <3>1, NextEntryFits
  <2>4. disk' = [disk EXCEPT ![F][f] = x]
    BY <1>1, <1>5 DEF HandKnown, Known
  <2>5. mtimes' \in [File -> Nat] /\ (\A g \in File \ {f} : mtimes'[g] = mtimes[g]) /\ mtimes'[f] = x.time
    BY <1>1, <1>5, <2>1, <2>2 DEF HandKnown, Known
  <2>6. \A G \in Folder : \A g \in File : Edited(G, g) => WalkOK(w, G, g, disk[G][g])
    BY <2>3 DEF WalkFits
  <2>7. F \in Folder /\ f \in File /\ disk[F][f] # NoFile /\ disk[F][f].time = x.time /\ w.pc \notin InHand
    BY <1>1, <1>5, <2>2, <2>3 DEF HandKnown, InHand
  <2> HIDE DEF x, F, f, v
  <2> QED BY <1>2, <2>2, <2>3, <2>4, <2>5, <2>6, <2>7, OneVersion
<1> QED BY <1>1, <1>3, <1>4, <1>5 DEF Probe

LEMMA RecordStep ==
    ASSUME IInv, NEW o \in Op, Record(o) PROVE IInv'
<1> DEFINE F == ops[o].dir
           f == ops[o].file
           v == disk[F][f]
<1>1. HandKnown(o, F, f, v) /\ ops[o].pc = "record"
  BY Holding DEF Record, InHand
<1>2. RestOK' /\ clock' = clock
  BY DEF Record, IInv, TypeOK, RestOK
<1>3. CASE v = NoFile /\ Ends(o) /\ UNCHANGED <<mtimes, disk>>
  BY <1>2, <1>3, EndsStep
<1>4. CASE /\ v # NoFile /\ NextEntry(o) /\ mtimes' = [mtimes EXCEPT ![f] = v.time]
           /\ disk' = [disk EXCEPT ![F][f].by = IF @ = "edit" THEN "taken" ELSE @]
  <2> DEFINE x == [v EXCEPT !.by = IF v.by = "edit" THEN "taken" ELSE v.by]
  <2>1. v \in Version /\ v.time \in Nat /\ f \in File /\ F \in Folder
    BY <1>1, <1>4 DEF HandKnown, Version
  <2>2. x \in Version /\ x.time = v.time /\ x.by # "edit"
    BY <2>1 DEF Version
  <2>3. PICK w \in Walk : /\ ops' = [ops EXCEPT ![o] = w] /\ WalkType(w) /\ WalkFits(w)
                          /\ w.dir \in Folder /\ w.pc = "walk" /\ w.held.time <= clock /\ w.seen <= clock
    <3>1. NextEntry(o) /\ ops[o].pc \in InHand
      BY <1>1, <1>4 DEF InHand
    <3> HIDE DEF v, F, f, x
    <3> QED BY <3>1, NextEntryFits
  <2>4. disk' = [disk EXCEPT ![F][f] = x]
    BY <1>1, <1>4 DEF HandKnown, Known
  <2>5. mtimes' \in [File -> Nat] /\ (\A g \in File \ {f} : mtimes'[g] = mtimes[g]) /\ mtimes'[f] = x.time
    BY <1>1, <1>4, <2>1, <2>2 DEF HandKnown, Known
  <2>6. \A G \in Folder : \A g \in File : Edited(G, g) => WalkOK(w, G, g, disk[G][g])
    BY <2>3 DEF WalkFits
  <2>7. disk[F][f] # NoFile /\ disk[F][f].time = x.time /\ w.pc \notin InHand
    BY <1>4, <2>2, <2>3 DEF InHand
  <2> HIDE DEF x, F, f, v
  <2> QED BY <1>2, <2>1, <2>2, <2>3, <2>4, <2>5, <2>6, <2>7, OneVersion
<1> QED BY <1>3, <1>4 DEF Record

LEMMA StoreStep ==
    ASSUME IInv, NEW o \in Op, Store(o) PROVE IInv'
<1> DEFINE F == ops[o].dir
           f == ops[o].file
           v == disk[F][f]
           h == ops[o].held
<1>1. HandKnown(o, F, f, v) /\ ops[o].pc = "store"
  BY Holding DEF Store, InHand
<1>2. h \in Version /\ h.time \in Nat /\ h.data \in Data /\ f \in File /\ F \in Folder /\ h.time <= clock
  BY <1>1 DEF HandKnown, Known, Version
<1>3. RestOK' /\ clock' = clock
  <2>1. RestOK /\ vfs' \in [File -> Data \cup {NoFile}] /\ timer' \in BOOLEAN
    BY <1>2 DEF Store, FileChanged, SavesSuspended, IInv, TypeOK, RestOK
  <2> QED BY <2>1 DEF Store, RestOK
<1>4. mtimes' \in [File -> Nat] /\ (\A g \in File \ {f} : mtimes'[g] = mtimes[g]) /\ mtimes'[f] = h.time
  BY <1>1, <1>2 DEF Store, HandKnown, Known
<1>5. PICK w \in Walk : /\ ops' = [ops EXCEPT ![o] = w] /\ WalkType(w) /\ WalkFits(w)
                        /\ w.dir \in Folder /\ w.pc = "walk" /\ w.held.time <= clock /\ w.seen <= clock
  BY <1>1, NextEntryFits DEF Store, InHand
<1>6. CASE v = h /\ v # NoFile
  <2> DEFINE x == [v EXCEPT !.by = "ours"]
  <2>1. x \in Version /\ x.time = v.time /\ x.by = "ours"
    BY <1>2, <1>6 DEF Version
  <2>2. disk' = [disk EXCEPT ![F][f] = x]
    BY <1>1, <1>6 DEF HandKnown, Known, Store
  <2>3. \A G \in Folder : \A g \in File : Edited(G, g) => WalkOK(w, G, g, disk[G][g])
    BY <1>5 DEF WalkFits
  <2>4. disk[F][f] # NoFile /\ disk[F][f].time = x.time /\ mtimes'[f] = x.time /\ w.pc \notin InHand
    BY <1>4, <1>5, <1>6, <2>1 DEF InHand
  <2> HIDE DEF x, F, f, v, h
  <2> QED BY <1>2, <1>3, <1>4, <1>5, <2>1, <2>2, <2>3, <2>4, OneVersion
<1>7. CASE ~(v = h /\ v # NoFile) /\ disk' = disk
  <2>1. Unrecorded(f, h.time)
    <3> SUFFICES ASSUME NEW G \in Folder, Edited(G, f) PROVE disk[G][f].time # h.time
      BY DEF Unrecorded
    <3>1. WalkOK(ops[o], G, f, disk[G][f])
      BY <1>1, <1>2 DEF HandKnown, Known, WalkFits
    <3> QED BY <1>1, <1>7, <3>1 DEF WalkOK, Edited
  <2>2. \A g \in File : mtimes[g] <= clock /\ Unrecorded(g, mtimes[g])
    BY DEF IInv, TimesInv, EditsInv
  <2> HIDE DEF F, f, v, h
  <2>3. \A g \in File : mtimes'[g] <= clock /\ Unrecorded(g, mtimes'[g])
    BY <1>2, <1>4, <2>1, <2>2
  <2>4. ops' \in [Op -> Walk] /\ \A p \in Op : WalkType(ops'[p]) /\ WalkFits(ops'[p])
    BY <1>5 DEF IInv, TypeOK, WalksInv
  <2> QED BY <1>3, <1>4, <1>7, <2>3, <2>4, Quiet
<1>8. h # NoFile
  BY <1>2, AbsenceAssumption
<1>9. (v = h /\ v # NoFile) \/ (~(v = h /\ v # NoFile) /\ disk' = disk)
  BY <1>8 DEF Store
<1> QED BY <1>6, <1>7, <1>9

\* A save writes the version x of the file in hand and goes on at pc.
LEMMA Writes ==
    ASSUME IInv, RestOK', NEW o \in Op, ops[o].pc \in {"create", "write"}, NEW content \in Data, NEW pc \in {"write", "record"},
           WriteDisk(ops[o].dir, ops[o].file, content), Goes(o, pc), mtimes' = mtimes
    PROVE  IInv'
<1> DEFINE F == ops[o].dir
           f == ops[o].file
           v == disk[F][f]
           x == [data |-> content, time |-> clock + 1, by |-> "ours"]
           w == [ops[o] EXCEPT !.pc = pc]
<1>1. HandKnown(o, F, f, v)
  BY Holding DEF InHand
<1>2. x \in Version /\ x.time = clock + 1 /\ x.by # "edit"
  BY <1>1 DEF Version, HandKnown, Known
<1>3. w \in Walk /\ w.dir = F /\ w.file = f /\ w.held = ops[o].held /\ w.seen = ops[o].seen /\ w.pc = pc
  BY <1>1 DEF HandKnown, Known, Walk
<1>4. disk' = [disk EXCEPT ![F][f] = x] /\ clock' = clock + 1 /\ ops' = [ops EXCEPT ![o] = w]
  BY DEF WriteDisk, Goes
<1>5. \A G \in Folder : \A g \in File : Edited(G, g) /\ ~(G = F /\ g = f) => WalkOK(w, G, g, disk[G][g])
  BY <1>3 DEF WalkOK
<1>6. F \in Folder /\ f \in File /\ w.held.time <= clock /\ w.seen <= clock /\ mtimes' \in [File -> Nat]
  BY <1>1, <1>3 DEF HandKnown, Known
<1> HIDE DEF F, f, v, x, w
<1> QED BY <1>2, <1>3, <1>4, <1>5, <1>6, OneVersion

LEMMA CreateHandleStep ==
    ASSUME IInv, NEW o \in Op, CreateHandle(o) PROVE IInv'
<1>1. RestOK' /\ mtimes' = mtimes /\ ops[o].pc = "create" /\ Goes(o, "write")
  BY DEF CreateHandle, IInv, TypeOK, RestOK
<1>2. HandKnown(o, ops[o].dir, ops[o].file, disk[ops[o].dir][ops[o].file])
  BY <1>1, Holding DEF InHand
<1>3. CASE WriteDisk(ops[o].dir, ops[o].file, Empty)
  <2>1. Empty \in Data
    BY DEF Data
  <2> QED BY <1>1, <1>3, <2>1, Writes
<1>4. CASE UNCHANGED <<disk, clock>>
  <2> DEFINE w == [ops[o] EXCEPT !.pc = "write"]
  <2>1. w \in Walk /\ w.dir = ops[o].dir /\ w.file = ops[o].file /\ w.held = ops[o].held /\ w.seen = ops[o].seen /\ w.pc = "write"
    BY <1>2 DEF HandKnown, Known, Walk
  <2>2. ops' = [ops EXCEPT ![o] = w]
    BY <1>1 DEF Goes
  <2> HIDE DEF w
  <2>3. WalkType(w) /\ WalkFits(w)
    BY <1>1, <1>2, <2>1 DEF HandKnown, Known, WalkType, WalkFits, WalkOK, InHand
  <2> QED BY <1>1, <1>2, <1>4, <2>2, <2>3, OneWalk DEF HandKnown, Known
<1> QED BY <1>3, <1>4 DEF CreateHandle

LEMMA WriteFileStep ==
    ASSUME IInv, NEW o \in Op, WriteFile(o) PROVE IInv'
<1>1. RestOK' /\ mtimes' = mtimes /\ ops[o].pc = "write" /\ Goes(o, "record") /\ WriteDisk(ops[o].dir, ops[o].file, ops[o].held.data)
  BY DEF WriteFile, IInv, TypeOK, RestOK
<1>2. ops[o].held.data \in Data
  BY Knows DEF Known, Version
<1> QED BY <1>1, <1>2, Writes

LEMMA PruneDiskStep ==
    ASSUME IInv, NEW o \in Op, PruneDisk(o) PROVE IInv'
<1>1. RestOK' /\ clock' = clock /\ ops[o].pc = "prune" /\ Known(o)
  BY Knows DEF PruneDisk, IInv, TypeOK, RestOK
<1>2. CASE Ends(o) /\ UNCHANGED <<disk, mtimes>>
  BY <1>1, <1>2, EndsStep
<1>3. CASE \E f \in ops[o].todo : /\ disk' = [disk EXCEPT ![ops[o].dir][f] = NoFile]
                                  /\ mtimes' = [mtimes EXCEPT ![f] = NoTime]
                                  /\ ops' = [ops EXCEPT ![o].todo = @ \ {f}]
  <2>1. PICK f \in ops[o].todo : /\ disk' = [disk EXCEPT ![ops[o].dir][f] = NoFile]
                                 /\ mtimes' = [mtimes EXCEPT ![f] = NoTime]
                                 /\ ops' = [ops EXCEPT ![o].todo = @ \ {f}]
    BY <1>3
  <2> DEFINE w == [ops[o] EXCEPT !.todo = ops[o].todo \ {f}]
  <2>2. f \in File /\ ops[o].dir \in Folder /\ ops[o].held.time <= clock /\ ops[o].seen <= clock
    BY <1>1 DEF Known, WalkType
  <2>3. w \in Walk /\ w.dir = ops[o].dir /\ w.held = ops[o].held /\ w.seen = ops[o].seen /\ w.pc = "prune"
    BY <1>1 DEF Known, Walk
  <2>4. ops' = [ops EXCEPT ![o] = w]
    BY <1>1, <2>1 DEF Known
  <2>5. mtimes' \in [File -> Nat] /\ (\A g \in File \ {f} : mtimes'[g] = mtimes[g]) /\ mtimes'[f] = NoTime
    BY <1>1, <2>1, <2>2 DEF Known, NoTime
  <2> HIDE DEF w
  <2>6. \A G \in Folder : \A g \in File : Edited(G, g) => WalkOK(w, G, g, disk[G][g])
    BY <2>3 DEF WalkOK
  <2>7. w.pc \notin InHand
    BY <2>3 DEF InHand
  <2> DEFINE F == ops[o].dir
             x == NoFile
  <2>8. /\ disk' = [disk EXCEPT ![F][f] = x] /\ F \in Folder /\ f \in File /\ x \in Version \cup {NoFile}
        /\ x = NoFile /\ clock' = clock /\ mtimes'[f] \in {mtimes[f], NoTime}
        /\ w.dir \in Folder /\ w.held.time <= clock /\ w.seen <= clock
    BY <1>1, <2>1, <2>2, <2>3, <2>5
  <2> HIDE DEF F, x
  <2> QED BY <1>1, <2>3, <2>4, <2>5, <2>6, <2>7, <2>8, OneVersion
<1> QED BY <1>2, <1>3 DEF PruneDisk

----
\* The environment.

LEMMA DeleteOnDiskStep ==
    ASSUME IInv, NEW F \in Folder, NEW f \in File, DeleteOnDisk(F, f) PROVE IInv'
<1>1. RestOK' /\ clock' = clock /\ mtimes' = mtimes /\ ops' = ops
  BY DEF DeleteOnDisk, Event, IInv, TypeOK, RestOK
<1>2. disk \in [Folder -> [File -> Version \cup {NoFile}]] /\ disk' = [disk EXCEPT ![F][f] = NoFile]
  BY DEF DeleteOnDisk, IInv, TypeOK
<1>3. \A G \in Folder : \A g \in File : disk'[G][g] = IF G = F /\ g = f THEN NoFile ELSE disk[G][g]
  BY <1>2
<1>4. disk' \in [Folder -> [File -> Version \cup {NoFile}]]
  BY <1>2
<1>5. TypeOK'
  BY <1>1, <1>4 DEF IInv, TypeOK, RestOK
<1>6. \A G \in Folder : \A g \in File : Edited(G, g)' => Edited(G, g) /\ disk'[G][g] = disk[G][g]
  BY <1>3 DEF Edited
<1>7. TimesInv'
  BY <1>1, <1>3 DEF IInv, TimesInv
<1>8. WalksInv'
  BY <1>1, <1>6 DEF IInv, WalksInv, WalkType, WalkFits, WalkOK
<1>9. EditsInv'
  BY <1>1, <1>3, <1>6 DEF IInv, EditsInv, Unrecorded, NoTwin
<1> QED BY <1>5, <1>7, <1>8, <1>9 DEF IInv

LEMMA EditDiskStep ==
    ASSUME IInv, NEW F \in Folder, NEW f \in File, NEW d \in DataOf[F], EditDisk(F, f, d) PROVE IInv'
<1> DEFINE x == [data |-> d, time |-> clock + 1, by |-> "edit"]
<1>0. d \in Data /\ clock \in Nat /\ clock' = clock + 1
  BY DEF Data, EditDisk, IInv, TypeOK
<1>1. RestOK' /\ mtimes' = mtimes /\ ops' = ops
  BY DEF EditDisk, Event, IInv, TypeOK, RestOK
<1>2. disk \in [Folder -> [File -> Version \cup {NoFile}]] /\ disk' = [disk EXCEPT ![F][f] = x]
  BY DEF EditDisk, IInv, TypeOK
<1>3. x \in Version /\ x.time = clock + 1
  BY <1>0 DEF Version
<1> HIDE DEF x
<1>4. \A G \in Folder : \A g \in File : disk'[G][g] = IF G = F /\ g = f THEN x ELSE disk[G][g]
  BY <1>2
<1>5. disk' \in [Folder -> [File -> Version \cup {NoFile}]]
  BY <1>2, <1>3
<1>6. TypeOK'
  BY <1>0, <1>1, <1>5 DEF IInv, TypeOK, RestOK
<1>7. TimesInv'
  BY <1>0, <1>1, <1>3, <1>4 DEF IInv, TypeOK, TimesInv
<1>8. ASSUME NEW G \in Folder, NEW g \in File, Edited(G, g)'
      PROVE  \/ G = F /\ g = f /\ disk'[G][g] = x
             \/ ~(G = F /\ g = f) /\ Edited(G, g) /\ disk'[G][g] = disk[G][g] /\ disk[G][g].time \in 1 .. clock
  <2>1. CASE G = F /\ g = f
    BY <1>3, <1>4, <1>8, <2>1 DEF Edited
  <2>2. CASE ~(G = F /\ g = f)
    BY <1>4, <1>8, <2>2 DEF Edited, IInv, TimesInv
  <2> QED BY <2>1, <2>2
<1>9. ASSUME NEW o \in Op PROVE WalkType(ops[o])' /\ WalkFits(ops[o])'
  <2>1. Known(o)
    BY Knows
  <2>2. WalkType(ops[o])'
    BY <1>0, <1>1, <2>1 DEF Known, WalkType
  <2>3. ASSUME NEW G \in Folder, NEW g \in File, Edited(G, g)' PROVE WalkOK(ops[o], G, g, disk'[G][g])
    <3>1. CASE G = F /\ g = f /\ disk'[G][g] = x
      <4>1. ops[o].held.time # x.time /\ ops[o].seen < x.time
        BY <1>0, <1>3, <2>1 DEF Known, WalkType
      <4> QED BY <3>1, <4>1 DEF WalkOK
    <3>2. CASE Edited(G, g) /\ disk'[G][g] = disk[G][g]
      BY <2>1, <3>2 DEF Known, WalkFits
    <3> QED BY <1>8, <2>3, <3>1, <3>2
  <2>4. WalkFits(ops[o])'
    BY <1>1, <2>3 DEF WalkFits, WalkOK
  <2> QED BY <2>2, <2>4
<1>10. ASSUME NEW g \in File PROVE Unrecorded(g, mtimes[g])'
  <2> SUFFICES ASSUME NEW G \in Folder, Edited(G, g)' PROVE disk'[G][g].time # mtimes[g]
    BY <1>1 DEF Unrecorded
  <2>1. mtimes[g] <= clock /\ mtimes[g] \in Nat /\ Unrecorded(g, mtimes[g])
    BY DEF IInv, TimesInv, EditsInv, TypeOK
  <2> QED BY <1>0, <1>3, <1>8, <2>1 DEF Unrecorded
<1>11. ASSUME NEW G \in Folder, NEW g \in File, Edited(G, g)' PROVE NoTwin(G, g)'
  <2> SUFFICES ASSUME NEW H \in Folder \ {G}, disk'[H][g] # NoFile PROVE disk'[H][g].time # disk'[G][g].time
    BY DEF NoTwin
  <2>1. CASE G = F /\ g = f
    <3>1. disk'[G][g] = x /\ disk'[H][g] = disk[H][g] /\ disk[H][g].time \in 1 .. clock
      BY <1>4, <2>1 DEF IInv, TimesInv
    <3> QED BY <1>0, <1>3, <3>1
  <2>2. CASE ~(G = F /\ g = f)
    <3>1. Edited(G, g) /\ disk'[G][g] = disk[G][g] /\ disk[G][g].time \in 1 .. clock /\ NoTwin(G, g)
      BY <1>8, <1>11, <2>2 DEF IInv, EditsInv
    <3>2. CASE H = F /\ g = f
      BY <1>0, <1>3, <1>4, <3>1, <3>2
    <3>3. CASE ~(H = F /\ g = f)
      BY <1>4, <3>1, <3>3 DEF NoTwin
    <3> QED BY <3>2, <3>3
  <2> QED BY <2>1, <2>2
<1>12. WalksInv'
  BY <1>9 DEF WalksInv
<1>13. EditsInv'
  BY <1>10, <1>11 DEF EditsInv
<1> QED BY <1>6, <1>7, <1>12, <1>13 DEF IInv

\* The walks and the disk do not change.
LEMMA Aside ==
    ASSUME IInv, RestOK', UNCHANGED <<disk, clock, mtimes, ops>> PROVE IInv'
<1>1. mtimes' \in [File -> Nat] /\ \A f \in File : mtimes'[f] <= clock /\ Unrecorded(f, mtimes'[f])
  BY DEF IInv, TypeOK, TimesInv, EditsInv
<1>2. ops' \in [Op -> Walk] /\ \A o \in Op : WalkType(ops'[o]) /\ WalkFits(ops'[o])
  BY DEF IInv, TypeOK, WalksInv
<1> QED BY <1>1, <1>2, Quiet

LEMMA EditWorkspaceStep ==
    ASSUME IInv, NEW f \in File, NEW d \in DataOf[mount] \cup {NoFile}, EditWorkspace(f, d) PROVE IInv'
<1>1. RestOK /\ mount \in Folder
  BY DEF EditWorkspace, IInv, TypeOK, RestOK
<1>2. d \in Data \cup {NoFile}
  BY <1>1 DEF Data
<1>3. timer' \in BOOLEAN
  BY <1>1 DEF EditWorkspace, FileChanged, SavesSuspended, RestOK
<1>4. RestOK'
  BY <1>1, <1>2, <1>3 DEF EditWorkspace, Event, RestOK
<1> QED BY <1>4, Aside DEF EditWorkspace

LEMMA UnmountStep == ASSUME IInv, Unmount PROVE IInv'
<1>1. RestOK'
  BY DEF Unmount, Event, IInv, TypeOK, RestOK
<1> QED BY <1>1, Aside DEF Unmount

----
\* The first folder times tell the folders apart and are not in the future.
LEMMA FirstTimesType == FirstTimes \in [Folder -> 1 .. Cardinality(Folder)] /\ Cardinality(Folder) \in Nat
<1> DEFINE n == Cardinality(Folder)
<1>1. n \in Nat /\ ExistsBijection(1 .. n, Folder)
  BY FS_CardinalityType, FolderAssumption
<1>2. PICK t \in Bijection(Folder, 1 .. n) : TRUE
  BY <1>1, Fun_ExistsBijSymmetric, Fun_ExistsBij
<1>3. t \in [Folder -> 1 .. n] /\ \A F, G \in Folder : F # G => t[F] # t[G]
  BY <1>2, Fun_BijectionProperties
<1> QED BY <1>1, <1>3 DEF FirstTimes

LEMMA InitInv == ASSUME Init PROVE IInv
<1>0. FirstTimes \in [Folder -> 1 .. Cardinality(Folder)] /\ Cardinality(Folder) \in Nat
  BY FirstTimesType
<1>1. PICK first \in [Folder -> Data], present \in [Folder -> SUBSET File] :
        /\ \A F \in Folder : first[F] \in DataOf[F]
        /\ disk = [F \in Folder |-> [f \in File |->
                    IF f \in present[F] THEN [data |-> first[F], time |-> FirstTimes[F], by |-> "ours"]
                    ELSE NoFile]]
        /\ vfs = [f \in File |-> IF f \in present[mount] THEN first[mount] ELSE NoFile]
        /\ mtimes = [f \in File |-> IF f \in present[mount] THEN FirstTimes[mount] ELSE NoTime]
  BY DEF Init
<1>2. mount \in Folder /\ clock = Cardinality(Folder) /\ ops = [o \in Op |-> Idle]
  BY DEF Init
<1>3. \A F \in Folder : [data |-> first[F], time |-> FirstTimes[F], by |-> "ours"] \in Version
  BY <1>0 DEF Version
<1>4. disk \in [Folder -> [File -> Version \cup {NoFile}]]
  BY <1>1, <1>3
<1>5. ASSUME NEW F \in Folder, NEW f \in File, disk[F][f] # NoFile
      PROVE  disk[F][f].time = FirstTimes[F] /\ disk[F][f].by = "ours"
  BY <1>1, <1>5
<1>6. mtimes \in [File -> Nat] /\ \A f \in File : mtimes[f] <= clock
  BY <1>0, <1>1, <1>2 DEF NoTime
<1>7. NoVersion \in Version /\ NoVersion.time = 0
  <2>1. Empty \in Data
    BY DEF Data
  <2> QED BY <2>1 DEF NoVersion, Version, NoTime
<1>8. Idle \in Walk /\ Idle.held = NoVersion /\ Idle.pc = "idle" /\ Idle.seen = 0
  BY <1>7 DEF Idle, Walk, NoTime
<1>9. TypeOK
  <2>1. vfs \in [File -> Data \cup {NoFile}]
    BY <1>1, <1>2
  <2>2. ops \in [Op -> Walk]
    BY <1>2, <1>8
  <2>3. events \in Nat /\ swapping = FALSE /\ timer = FALSE /\ missed = {}
    BY FolderAssumption DEF Init
  <2> QED BY <1>0, <1>2, <1>4, <1>6, <2>1, <2>2, <2>3 DEF TypeOK
<1>10. TimesInv
  BY <1>0, <1>2, <1>5, <1>6 DEF TimesInv
<1>11. WalksInv
  BY <1>0, <1>2, <1>7, <1>8, HandsFree DEF WalksInv, WalkType, InHand
<1>12. EditsInv
  BY <1>5 DEF EditsInv, Unrecorded, Edited
<1> QED BY <1>9, <1>10, <1>11, <1>12 DEF IInv

LEMMA WalkStepInv == ASSUME IInv, NEW o \in Op, WalkStep(o) PROVE IInv'
BY VisitForSaveStep, ProbeStep, CreateHandleStep, WriteFileStep, RecordStep, ListForPushStep, PruneDiskStep, PruneVfsStep,
   VisitForReadStep, StoreStep, WalkEndsStep, SwapClearStep, LoadedStep, AnnounceStep DEF WalkStep

LEMMA NextInv == ASSUME IInv, [Next]_vars PROVE IInv'
<1>1. CASE \E f \in File : \/ mount # NoFolder /\ \E d \in DataOf[mount] \cup {NoFile} : EditWorkspace(f, d)
                           \/ \E F \in Folder : DeleteOnDisk(F, f) \/ \E d \in DataOf[F] : EditDisk(F, f, d)
  BY <1>1, EditWorkspaceStep, DeleteOnDiskStep, EditDiskStep
<1>2. CASE \E o \in Op : \/ FireSave(o) \/ Tick(o) \/ StartPush(o) \/ StartPull(o) \/ Fail(o) \/ WalkStep(o)
                         \/ \E F \in Folder : Swap(o, F) \/ Mount(o, F)
  BY <1>2, FireSaveStep, StartsStep, WalkEndsStep, WalkStepInv, SwapStep, MountStep
<1>3. CASE Unmount
  BY <1>3, UnmountStep
<1>4. CASE UNCHANGED vars
  <2>1. RestOK'
    BY <1>4 DEF vars, IInv, TypeOK, RestOK
  <2> QED BY <1>4, <2>1, Aside DEF vars
<1> QED BY <1>1, <1>2, <1>3, <1>4 DEF Next

LEMMA AlwaysInv == Spec => []IInv
<1>1. Init => IInv
  BY InitInv
<1>2. IInv /\ [Next]_vars => IInv'
  BY NextInv
<1> QED BY <1>1, <1>2, PTL DEF Spec

----
\* Every variable keeps its type, through any overlap of walks, swaps and failures.
THEOREM TypeCorrect == Spec => []TypeOK
<1>1. IInv => TypeOK
  BY DEF IInv
<1> QED BY <1>1, AlwaysInv, PTL

\* A save of a file it has a recorded time of never replaces a version that somebody else wrote
\* before the save compared the file with the disk, unless an earlier save took that version for
\* its own write: the conflict check of saveVfsToFolder, whatever other walks are in flight.
THEOREM RecordedEditsKeptHolds == Spec => []RecordedEditsKept
<1>1. IInv => RecordedEditsKept
  <2> SUFFICES ASSUME IInv, NEW o \in Op, Overwrites(o, {"edit"}) PROVE FALSE
    BY DEF RecordedEditsKept
  <2>1. HandKnown(o, ops[o].dir, ops[o].file, disk[ops[o].dir][ops[o].file]) /\ ops[o].seen \in Nat
    BY Holding, Knows DEF InHand, Overwrites, Known
  <2> QED BY <2>1 DEF HandKnown, WalkOK, Edited, Overwrites
<1> QED BY <1>1, AlwaysInv, PTL

----
\* One walk at a time: another begins only when the last has ended.  The code takes no lock, so it promises less.
Only(o) == \A p \in Op : p # o => ops[p] = Idle
Alone == \A o, p \in Op : o # p => ops[o] = Idle \/ ops[p] = Idle

Loads == {"mount", "swap"}

\* The folder that the workspace is the copy of, and the files whose recorded time need not be that of the disk yet.
At(w, m) == IF w.pc \in {"idle", "flush"} THEN m ELSE w.dir
Exempt(w) ==
    {f \in File : \/ w.pc = "record" /\ f = w.file
                  \/ w.kind \in Loads /\ w.pc \in {"walk", "store"} /\ f \in w.todo
                  \/ w.kind \in Loads /\ w.pc = "store" /\ f = w.file}

Ours(F, fs) == \A f \in File : fs[f] \in DataOf[F] \cup {Empty, NoFile}
FileRecorded(v, time) == v # NoFile /\ v.by = "ours" => time = v.time \/ v.data = Empty
Recorded(F, S, d, t) == \A f \in File : f \notin S => FileRecorded(d[F][f], t[f])

\* What holds beside the only walk w, of workspace fs, mount m, disks d and recorded times t.
ReadOK(w, d) ==
    /\ d[w.dir][w.file] = NoFile \/ d[w.dir][w.file] = w.held \/ d[w.dir][w.file].by # "ours"
    /\ w.kind = "rescan" => w.held.by # "ours" \/ w.held.data = Empty
\* A folder is loaded while none is mounted, or again while it is.
Loading(w, m, d, t) == m = NoFolder \/ (m = w.dir /\ Recorded(w.dir, {}, d, t))
OneOK(w, fs, m, d, t) ==
    /\ w.pc = "flush" => w.kind = "swap" /\ m \in Folder
    /\ w.kind \in Loads => w.pc \in {"flush", "walk", "store", "announce"} /\ (w.pc \in {"walk", "store"} => Loading(w, m, d, t))
    /\ At(w, m) \in Folder => m \in {At(w, m), NoFolder} /\ Ours(At(w, m), fs) /\ Recorded(At(w, m), Exempt(w), d, t)
    /\ w.pc \in InHand => w.held.data \in DataOf[w.dir] \cup {Empty}
    /\ w.pc = "store" => ReadOK(w, d)

OneInv == NoCrossover /\ \A o \in Op : Only(o) => OneOK(ops[o], vfs, mount, disk, mtimes)

\* What is known of the only walk.
Lone(o) ==
    /\ Known(o) /\ Only(o) /\ NoCrossover /\ OneOK(ops[o], vfs, mount, disk, mtimes)
    /\ ops[o].pc # "idle" => ops[o].dir \in Folder
    /\ NoFolder \notin Folder /\ mount \in Folder \cup {NoFolder}
    /\ Idle.pc = "idle" /\ Idle.kind = "idle" /\ Idle.file = NoFile

LEMMA IsLone == ASSUME IInv, OneInv, NEW o \in Op, Only(o) PROVE Lone(o)
<1>1. Known(o) /\ NoFolder \notin Folder /\ mount \in Folder \cup {NoFolder}
  BY Knows, FolderAssumption DEF IInv, TypeOK
<1>2. NoCrossover /\ OneOK(ops[o], vfs, mount, disk, mtimes)
  BY DEF OneInv
<1>3. ops[o].pc # "idle" => ops[o].dir \in Folder
  BY <1>1 DEF Known, WalkType
<1>4. Idle.pc = "idle" /\ Idle.kind = "idle" /\ Idle.file = NoFile
  BY DEF Idle
<1> QED BY <1>1, <1>2, <1>3, <1>4 DEF Lone

\* A walk that is under way is the only one.
LEMMA UnderWay == ASSUME IInv, Alone, OneInv, NEW o \in Op, ops[o].pc # "idle" PROVE Lone(o)
<1>1. ops[o] # Idle
  BY DEF Idle
<1>2. Only(o)
  BY <1>1 DEF Alone, Only
<1> QED BY <1>2, IsLone

\* A step of the only walk, or of the one that begins.
LEMMA OneStep ==
    ASSUME IInv, Alone', NEW o \in Op, NEW w, ops' = [ops EXCEPT ![o] = w], Only(o),
           OneOK(w, vfs', mount', disk', mtimes'), NoCrossover'
    PROVE  OneInv'
<1>1. ops \in [Op -> Walk]
  BY DEF IInv, TypeOK
<1>2. ASSUME NEW q \in Op, \A p \in Op : p # q => ops'[p] = Idle
      PROVE  OneOK(ops'[q], vfs', mount', disk', mtimes')
  <2>1. CASE q = o
    BY <1>1, <2>1
  <2>2. CASE q # o
    <3>1. ops'[o] = Idle /\ ops'[o] = w /\ ops'[q] = ops[q] /\ ops[q] = Idle
      BY <1>1, <1>2, <2>2 DEF Only
    <3> QED BY <3>1
  <2> QED BY <2>1, <2>2
<1> QED BY <1>2 DEF OneInv, Only

\* A step beside the walks.
LEMMA Beside ==
    ASSUME IInv, OneInv, ops' = ops, NoCrossover',
           \A o \in Op : Lone(o) => OneOK(ops[o], vfs', mount', disk', mtimes')
    PROVE  OneInv'
<1>1. ASSUME NEW o \in Op, Only(o) PROVE OneOK(ops'[o], vfs', mount', disk', mtimes')
  BY <1>1, IsLone
<1> QED BY <1>1 DEF OneInv, Only

LEMMA Uncrossed == ASSUME NoCrossover, disk' = disk PROVE NoCrossover'
BY DEF NoCrossover, FilesIn

\* The walk stays on its folder and changes nothing.
LEMMA Moves ==
    ASSUME IInv, Alone, Alone', OneInv, UNCHANGED <<vfs, mount, disk, mtimes>>,
           NEW o \in Op, NEW w, ops' = [ops EXCEPT ![o] = w],
           ops[o].pc \notin {"idle", "flush"}, w.pc \notin {"idle", "flush"}, w.dir = ops[o].dir, w.kind = ops[o].kind,
           w.kind \in Loads => w.pc = "announce" \/ (ops[o].pc \in {"walk", "store"} /\ w.pc \in {"walk", "store"}),
           \A f \in File : f \in Exempt(ops[o]) /\ f \notin Exempt(w) => FileRecorded(disk[w.dir][f], mtimes[f]),
           w.pc \in InHand => w.held.data \in DataOf[w.dir] \cup {Empty},
           w.pc = "store" => ReadOK(w, disk)
    PROVE  OneInv'
<1>1. Lone(o)
  BY UnderWay
<1>2. At(w, mount) = ops[o].dir /\ At(ops[o], mount) = ops[o].dir /\ ops[o].dir \in Folder
  BY <1>1 DEF At, Lone
<1>3. mount \in {At(w, mount), NoFolder} /\ Ours(At(w, mount), vfs) /\ Recorded(At(w, mount), Exempt(w), disk, mtimes)
  <2>1. mount \in {At(w, mount), NoFolder} /\ Ours(At(w, mount), vfs) /\ Recorded(At(w, mount), Exempt(ops[o]), disk, mtimes)
    BY <1>1, <1>2 DEF Lone, OneOK
  <2>2. Recorded(At(w, mount), Exempt(w), disk, mtimes)
    BY <1>2, <2>1 DEF Recorded
  <2> QED BY <2>1, <2>2
<1>4. w.kind \in Loads => w.pc \in {"flush", "walk", "store", "announce"} /\ (w.pc \in {"walk", "store"} => Loading(w, mount, disk, mtimes))
  BY <1>1 DEF Lone, OneOK, Loading
<1>5. OneOK(w, vfs, mount, disk, mtimes)
  BY <1>3, <1>4 DEF OneOK
<1>6. NoCrossover' /\ Only(o)
  BY <1>1, Uncrossed DEF Lone
<1> QED BY <1>5, <1>6, OneStep

\* The walk ends with nothing in hand that the times do not tell.
LEMMA EndsOne ==
    ASSUME IInv, Alone, Alone', OneInv, UNCHANGED <<vfs, mount, disk, mtimes>>,
           NEW o \in Op, Ends(o), ops[o].pc # "idle",
           mount \in Folder /\ ops[o].pc # "flush" => \A f \in Exempt(ops[o]) : FileRecorded(disk[ops[o].dir][f], mtimes[f])
    PROVE  OneInv'
<1>1. Lone(o)
  BY UnderWay
<1>2. Exempt(Idle) = {} /\ At(Idle, mount) = mount
  BY <1>1 DEF Lone, Exempt, At, Loads
<1>3. ASSUME mount \in Folder
      PROVE  Ours(mount, vfs) /\ Recorded(mount, {}, disk, mtimes)
  <2>1. At(ops[o], mount) = mount /\ Ours(mount, vfs) /\ Recorded(mount, Exempt(ops[o]), disk, mtimes)
    BY <1>1, <1>3 DEF Lone, OneOK, At
  <2>2. \A f \in Exempt(ops[o]) : FileRecorded(disk[mount][f], mtimes[f])
    <3>1. CASE ops[o].pc = "flush"
      BY <3>1 DEF Exempt
    <3>2. CASE ops[o].pc # "flush"
      <4>1. ops[o].dir = mount
        BY <1>1, <2>1, <3>2 DEF Lone, At
      <4> QED BY <1>3, <3>2, <4>1
    <3> QED BY <3>1, <3>2
  <2>3. Recorded(mount, {}, disk, mtimes)
    BY <2>1, <2>2 DEF Recorded
  <2> QED BY <2>1, <2>3
<1>4. OneOK(Idle, vfs, mount, disk, mtimes)
  BY <1>1, <1>2, <1>3 DEF Lone, OneOK, Loads, InHand
<1>5. NoCrossover' /\ Only(o)
  BY <1>1, Uncrossed DEF Lone
<1> QED BY <1>4, <1>5, OneStep DEF Ends

\* A walk over the mounted folder begins.
LEMMA BeginsOne ==
    ASSUME IInv, Alone', OneInv, UNCHANGED <<vfs, mount, disk, mtimes>>,
           NEW o \in Op, NEW kind \in {"save", "push", "rescan", "pull", "swap"}, NEW pc \in {"flush", "list", "walk"},
           NEW dir \in Folder, NEW todo, Begins(o, kind, pc, dir, todo),
           mount \in Folder, pc = "flush" <=> kind = "swap", pc # "flush" => dir = mount
    PROVE  OneInv'
<1> DEFINE w == [Idle EXCEPT !.kind = kind, !.pc = pc, !.dir = dir, !.todo = todo]
<1>1. w.kind = kind /\ w.pc = pc /\ w.dir = dir
  BY DEF Idle
<1>2. ops' = [ops EXCEPT ![o] = w] /\ ops[o] = Idle /\ ops \in [Op -> Walk]
  BY DEF Begins, IInv, TypeOK
<1> HIDE DEF w
<1>3. Only(o)
  <2>1. ops'[o] # Idle /\ \A p \in Op : p # o => ops'[p] = ops[p]
    BY <1>1, <1>2 DEF Idle
  <2> QED BY <2>1 DEF Alone, Only
<1>4. Lone(o)
  BY <1>3, IsLone
<1>5. At(w, mount) = mount /\ At(Idle, mount) = mount /\ Exempt(w) = {} /\ Exempt(Idle) = {}
  BY <1>1, <1>4 DEF At, Exempt, Loads, Lone
<1>6. Ours(mount, vfs) /\ Recorded(mount, {}, disk, mtimes)
  BY <1>2, <1>4, <1>5 DEF Lone, OneOK
<1>7. OneOK(w, vfs, mount, disk, mtimes)
  BY <1>1, <1>5, <1>6 DEF OneOK, Loads, InHand
<1>8. NoCrossover'
  BY <1>4, Uncrossed DEF Lone
<1> QED BY <1>2, <1>3, <1>7, <1>8, OneStep

LEMMA StartsOne ==
    ASSUME IInv, Alone, Alone', OneInv, NEW o \in Op, FireSave(o) \/ Tick(o) \/ StartPush(o) \/ StartPull(o) PROVE OneInv'
<1>1. UNCHANGED <<vfs, mount, disk, mtimes>> /\ mount \in Folder \cup {NoFolder}
  BY DEF FireSave, Tick, StartPush, StartPull, IInv, TypeOK
<1>2. CASE UNCHANGED ops
  BY <1>1, <1>2, Uncrossed, Beside DEF OneInv, Lone
<1>3. CASE mount # NoFolder /\ FireSave(o)
  BY <1>1, <1>3, BeginsOne DEF FireSave
<1>4. CASE Tick(o) \/ StartPush(o) \/ StartPull(o)
  BY <1>1, <1>4, BeginsOne DEF Tick, StartPush, StartPull
<1> QED BY <1>2, <1>3, <1>4 DEF FireSave

LEMMA SwapOne == ASSUME IInv, Alone, Alone', OneInv, NEW o \in Op, NEW F \in Folder, Swap(o, F) PROVE OneInv'
<1>1. UNCHANGED <<vfs, mount, disk, mtimes>> /\ mount \in Folder
  BY DEF Swap, IInv, TypeOK
<1> QED BY <1>1, BeginsOne DEF Swap

\* The folder is loaded from scratch into an empty workspace.
LEMMA LoadsOne ==
    ASSUME IInv, Alone', OneInv, NEW o \in Op, NEW w, ops' = [ops EXCEPT ![o] = w], Only(o),
           w.kind \in Loads, w.pc = "walk", w.dir \in Folder, w.todo = File,
           Loading(w, mount', disk', mtimes'), \A f \in File : vfs'[f] = NoFile, NoCrossover'
    PROVE  OneInv'
<1>1. At(w, mount') = w.dir /\ Exempt(w) = File /\ mount' \in {w.dir, NoFolder}
  BY DEF At, Exempt, Loading
<1>2. Ours(w.dir, vfs') /\ Recorded(w.dir, Exempt(w), disk', mtimes')
  BY <1>1 DEF Ours, Recorded
<1>3. OneOK(w, vfs', mount', disk', mtimes')
  BY <1>1, <1>2 DEF OneOK, InHand
<1> QED BY <1>3, OneStep

LEMMA MountOne == ASSUME IInv, Alone, Alone', OneInv, NEW o \in Op, NEW F \in Folder, Mount(o, F) PROVE OneInv'
<1> DEFINE w == [Idle EXCEPT !.kind = "mount", !.pc = "walk", !.dir = F, !.todo = File]
<1>1. w.kind = "mount" /\ w.pc = "walk" /\ w.dir = F /\ w.todo = File
  BY DEF Idle
<1>2. ops' = [ops EXCEPT ![o] = w] /\ ops[o] = Idle /\ ops \in [Op -> Walk]
  BY DEF Mount, Begins, IInv, TypeOK
<1> HIDE DEF w
<1>3. Only(o)
  <2>1. ops'[o] # Idle /\ \A p \in Op : p # o => ops'[p] = ops[p]
    BY <1>1, <1>2 DEF Idle
  <2> QED BY <2>1 DEF Alone, Only
<1>4. mount' = mount /\ mount \in {NoFolder, F} /\ \A f \in File : vfs'[f] = NoFile
  BY DEF Mount, ClearWorkspace, FilesIn
<1>5. Lone(o)
  BY <1>3, IsLone
<1>6. Loading(w, mount', disk', mtimes') /\ NoCrossover'
  <2>1. CASE UNCHANGED <<disk, mtimes>>
    <3>1. mount = F => Recorded(F, {}, disk, mtimes)
      BY <1>2, <1>5 DEF Lone, OneOK, At, Exempt, Loads
    <3>2. NoCrossover'
      BY <1>5, <2>1, Uncrossed DEF Lone
    <3> QED BY <1>1, <1>4, <2>1, <3>1, <3>2 DEF Loading
  <2>2. CASE disk' = Forgotten(F)
    <3>1. \A f \in File : disk'[F][f] # NoFile => disk'[F][f].by # "ours"
      <4> TAKE f \in File
      <4>1. disk[F][f] # NoFile => disk[F][f] \in Version
        BY <1>5 DEF Lone, Known
      <4>2. disk[F][f] = NoFile \/ disk'[F][f] = [disk[F][f] EXCEPT !.by = IF @ = "ours" THEN "left" ELSE @]
        BY <1>5, <2>2 DEF Forgotten, Lone, Known
      <4>3. disk'[F][f] # NoFile => disk[F][f] # NoFile
        BY <2>2, ForgetsNoEdit
      <4> QED BY <4>1, <4>2, <4>3 DEF Version
    <3>2. Recorded(F, {}, disk', mtimes')
      BY <3>1 DEF Recorded, FileRecorded
    <3>3. NoCrossover'
      <4> SUFFICES ASSUME NEW G \in Folder, NEW g \in File, disk'[G][g] # NoFile PROVE disk'[G][g].data \in DataOf[G] \cup {Empty}
        BY DEF NoCrossover, FilesIn
      <4>1. disk[G][g] # NoFile /\ disk'[G][g].data = disk[G][g].data
        BY <2>2, ForgetsNoEdit
      <4> QED BY <1>5, <4>1 DEF Lone, NoCrossover, FilesIn
    <3> QED BY <1>1, <1>4, <3>2, <3>3 DEF Loading
  <2> QED BY <2>1, <2>2 DEF Mount
<1> QED BY <1>1, <1>2, <1>3, <1>4, <1>6, LoadsOne DEF Loads

LEMMA SwapClearOne == ASSUME IInv, Alone, Alone', OneInv, NEW o \in Op, SwapClear(o) PROVE OneInv'
<1> DEFINE w == [ops[o] EXCEPT !.pc = "walk", !.todo = File]
<1>0. Lone(o) /\ ops[o].pc = "flush"
  BY UnderWay DEF SwapClear
<1>1. w.kind = "swap" /\ w.pc = "walk" /\ w.dir = ops[o].dir /\ w.todo = File
  BY <1>0 DEF Lone, OneOK, Known, Walk
<1>2. ops' = [ops EXCEPT ![o] = w]
  BY <1>0 DEF SwapClear, Lone, Known
<1> HIDE DEF w
<1>3. Loading(w, mount', disk', mtimes') /\ NoCrossover' /\ \A f \in File : vfs'[f] = NoFile
  BY <1>0, Uncrossed DEF SwapClear, ClearWorkspace, Loading, Lone
<1> QED BY <1>0, <1>1, <1>2, <1>3, LoadsOne DEF Loads, Lone

LEMMA EndingOne ==
    ASSUME IInv, Alone, Alone', OneInv, NEW o \in Op, WalkEnds(o) \/ SwapSettles(o) \/ Fail(o) PROVE OneInv'
<1>1. UNCHANGED <<vfs, mount, disk, mtimes>> /\ Ends(o) /\ ops[o].pc # "idle"
  BY DEF WalkEnds, SwapSettles, Fail
<1>2. Lone(o)
  BY <1>1, UnderWay
<1>3. mount \in Folder => \A f \in Exempt(ops[o]) : FileRecorded(disk[ops[o].dir][f], mtimes[f])
  <2>1. ops[o].pc # "record"
    BY DEF WalkEnds, SwapSettles, Fail
  <2>2. ops[o].kind \in Loads /\ ops[o].pc \in {"walk", "store"} => Loading(ops[o], mount, disk, mtimes)
    BY <1>2 DEF Lone, OneOK
  <2>3. (ops[o].kind \in Loads /\ ops[o].pc \in {"walk", "store"}) \/ Exempt(ops[o]) = {}
    BY <2>1 DEF Exempt
  <2> QED BY <1>2, <2>2, <2>3 DEF Exempt, Lone, Loading, Recorded
<1> QED BY <1>1, <1>3, EndsOne

LEMMA AnnounceOne == ASSUME IInv, Alone, Alone', OneInv, NEW o \in Op, Announce(o) PROVE OneInv'
<1>1. UNCHANGED <<vfs, disk, mtimes>> /\ mount' = ops[o].dir /\ ops[o].pc = "announce"
  BY DEF Announce
<1>2. Lone(o)
  BY <1>1, UnderWay
<1> DEFINE F == ops[o].dir
<1>3. F \in Folder /\ Ours(F, vfs) /\ Recorded(F, {}, disk, mtimes)
  <2>1. At(ops[o], mount) = F /\ F \in Folder /\ Exempt(ops[o]) = {}
    BY <1>1, <1>2 DEF At, Lone, Exempt
  <2> QED BY <1>2, <2>1 DEF Lone, OneOK
<1>4. PICK w \in {Idle, ops[o]} : ops' = [ops EXCEPT ![o] = w]
  <2>1. ops' = [ops EXCEPT ![o] = ops[o]] \/ ops' = [ops EXCEPT ![o] = Idle]
    BY <1>2 DEF Announce, Ends, Lone, Known
  <2> QED BY <2>1
<1>5. w.pc \in {"idle", "announce"} /\ (w.pc # "idle" => w.dir = F) /\ (w.kind \in Loads => w.pc = "announce")
  BY <1>1, <1>2, <1>4 DEF Lone, Loads
<1>6. At(w, mount') = F /\ Exempt(w) = {}
  BY <1>1, <1>5 DEF At, Exempt
<1> HIDE DEF F
<1>7. OneOK(w, vfs', mount', disk', mtimes')
  BY <1>1, <1>3, <1>5, <1>6 DEF OneOK, InHand, F
<1>8. NoCrossover' /\ Only(o)
  BY <1>1, <1>2, Uncrossed DEF Lone
<1> QED BY <1>4, <1>7, <1>8, OneStep

----
\* The walk's own steps.

LEMMA ListsOne == ASSUME IInv, Alone, Alone', OneInv, NEW o \in Op, ListForPush(o) \/ ListForSave(o) PROVE OneInv'
<1> DEFINE w == IF ListForPush(o) THEN [ops[o] EXCEPT !.pc = "prune", !.todo = FilesIn(disk[ops[o].dir]) \ FilesIn(vfs)]
                ELSE [ops[o] EXCEPT !.pc = "walk", !.todo = FilesIn(vfs)]
<1>1. UNCHANGED <<vfs, mount, disk, mtimes>> /\ ops[o].pc \in {"list", "prune"} /\ Lone(o)
  BY UnderWay DEF ListForPush, ListForSave
<1>2. ops' = [ops EXCEPT ![o] = w] /\ w.pc \in {"prune", "walk"} /\ w.dir = ops[o].dir /\ w.kind = ops[o].kind
  BY <1>1 DEF Lone, Known, Walk, ListForPush, ListForSave
<1>3. Exempt(ops[o]) = {} /\ w.kind \notin Loads
  BY <1>1, <1>2 DEF Exempt, Lone, OneOK
<1> HIDE DEF w
<1> QED BY <1>1, <1>2, <1>3, Moves DEF InHand

LEMMA LoadedOne == ASSUME IInv, Alone, Alone', OneInv, NEW o \in Op, Loaded(o) PROVE OneInv'
<1> DEFINE w == [ops[o] EXCEPT !.pc = "announce"]
<1>1. UNCHANGED <<vfs, mount, disk, mtimes>> /\ ops[o].pc = "walk" /\ ops[o].todo = {} /\ Lone(o)
  BY UnderWay DEF Loaded
<1>2. ops' = [ops EXCEPT ![o] = w] /\ w.pc = "announce" /\ w.dir = ops[o].dir /\ w.kind = ops[o].kind
  BY <1>1 DEF Lone, Known, Walk, Loaded, Goes
<1>3. Exempt(ops[o]) = {}
  BY <1>1 DEF Exempt
<1> QED BY <1>1, <1>2, <1>3, Moves DEF InHand

LEMMA VisitForSaveOne == ASSUME IInv, Alone, Alone', OneInv, NEW o \in Op, VisitForSave(o) PROVE OneInv'
<1>1. UNCHANGED <<vfs, mount, disk, mtimes>> /\ ops[o].pc = "walk" /\ ops[o].kind \notin Loads /\ Lone(o)
  BY UnderWay DEF VisitForSave, Loads
<1>2. Exempt(ops[o]) = {}
  BY <1>1 DEF Exempt
<1>3. CASE Ends(o)
  BY <1>1, <1>2, <1>3, EndsOne
<1>4. CASE ~Ends(o)
  <2>1. PICK f \in ops[o].todo :
            /\ vfs[f] # NoFile
            /\ ops' = [ops EXCEPT ![o].file = f, ![o].todo = @ \ {f},
                                  ![o].held = [data |-> vfs[f], time |-> mtimes[f], by |-> "ours"],
                                  ![o].pc = IF mtimes[f] = NoTime THEN "create" ELSE "probe"]
    BY <1>4 DEF VisitForSave
  <2> DEFINE h == [data |-> vfs[f], time |-> mtimes[f], by |-> "ours"]
             w == [ops[o] EXCEPT !.file = f, !.todo = ops[o].todo \ {f}, !.held = h,
                                 !.pc = IF mtimes[f] = NoTime THEN "create" ELSE "probe"]
  <2>2. ops' = [ops EXCEPT ![o] = w]
    BY <1>1, <2>1 DEF Lone, Known
  <2>3. w.pc \in {"create", "probe"} /\ w.dir = ops[o].dir /\ w.kind = ops[o].kind /\ w.held = h
    BY <1>1 DEF Lone, Known, Walk
  <2> HIDE DEF w
  <2>4. h.data \in DataOf[ops[o].dir] \cup {Empty}
    <3>1. At(ops[o], mount) = ops[o].dir /\ ops[o].dir \in Folder /\ f \in File
      BY <1>1 DEF At, Lone, Known
    <3> QED BY <1>1, <2>1, <3>1 DEF Lone, OneOK, Ours
  <2> HIDE DEF h
  <2> QED BY <1>1, <1>2, <2>2, <2>3, <2>4, Moves
<1> QED BY <1>3, <1>4

LEMMA VisitForReadOne == ASSUME IInv, Alone, Alone', OneInv, NEW o \in Op, VisitForRead(o) PROVE OneInv'
<1>1. UNCHANGED <<vfs, mount, disk, mtimes>> /\ ops[o].pc = "walk" /\ ops[o].kind \in Loads \cup {"rescan", "pull"} /\ Lone(o)
  BY UnderWay DEF VisitForRead, Loads
<1>2. PICK f \in ops[o].todo :
        LET version == disk[ops[o].dir][f] IN
        ops' = IF Wanted(ops[o].kind, f, version)
               THEN [ops EXCEPT ![o].file = f, ![o].todo = @ \ {f}, ![o].held = version, ![o].pc = "store"]
               ELSE [ops EXCEPT ![o].todo = @ \ {f}]
  BY DEF VisitForRead
<1> DEFINE F == ops[o].dir
           v == disk[F][f]
           taken == [ops[o] EXCEPT !.file = f, !.todo = ops[o].todo \ {f}, !.held = v, !.pc = "store"]
           left == [ops[o] EXCEPT !.todo = ops[o].todo \ {f}]
<1>3. f \in File /\ F \in Folder /\ At(ops[o], mount) = F
  BY <1>1 DEF Lone, Known, At
<1>4. CASE Wanted(ops[o].kind, f, v)
  <2>1. v # NoFile /\ (ops[o].kind = "rescan" => mtimes[f] # v.time)
    BY <1>4 DEF Wanted
  <2>2. ops' = [ops EXCEPT ![o] = taken]
    BY <1>1, <1>2, <1>4 DEF Lone, Known
  <2>3. taken.file = f /\ taken.todo = ops[o].todo \ {f} /\ taken.held = v /\ taken.pc = "store" /\ taken.dir = F /\ taken.kind = ops[o].kind
    BY <1>1 DEF Lone, Known, Walk
  <2> HIDE DEF taken
  <2>4. v.data \in DataOf[F] \cup {Empty}
    BY <1>1, <1>3, <2>1 DEF Lone, NoCrossover, FilesIn
  <2>5. taken.kind = "rescan" => v.by # "ours" \/ v.data = Empty
    <3>1. ops[o].kind = "rescan" => f \notin Exempt(ops[o])
      BY <1>1 DEF Exempt, Loads
    <3>2. Recorded(F, Exempt(ops[o]), disk, mtimes)
      BY <1>1, <1>3 DEF Lone, OneOK
    <3> QED BY <1>3, <2>1, <2>3, <3>1, <3>2 DEF Recorded, FileRecorded
  <2>6. ReadOK(taken, disk)
    BY <2>3, <2>5 DEF ReadOK
  <2>7. \A g \in File : g \in Exempt(ops[o]) => g \in Exempt(taken)
    BY <1>1, <2>3 DEF Exempt
  <2> HIDE DEF v
  <2> QED BY <1>1, <2>2, <2>3, <2>4, <2>6, <2>7, Moves
<1>5. CASE ~Wanted(ops[o].kind, f, v)
  <2>1. ops' = [ops EXCEPT ![o] = left]
    BY <1>1, <1>2, <1>5 DEF Lone, Known
  <2>2. left.todo = ops[o].todo \ {f} /\ left.pc = "walk" /\ left.dir = F /\ left.kind = ops[o].kind
    BY <1>1 DEF Lone, Known, Walk
  <2> HIDE DEF left
  <2>3. ASSUME NEW g \in File, g \in Exempt(ops[o]), g \notin Exempt(left) PROVE FileRecorded(disk[left.dir][g], mtimes[g])
    <3>1. g = f /\ ops[o].kind \in Loads
      BY <1>1, <2>2, <2>3 DEF Exempt
    <3>2. v = NoFile
      BY <1>5, <3>1 DEF Wanted, Loads
    <3> QED BY <2>2, <3>1, <3>2 DEF FileRecorded
  <2> QED BY <1>1, <2>1, <2>2, <2>3, Moves DEF InHand
<1> QED BY <1>4, <1>5

\* The walk is about file f of its folder, whose version becomes x.
ChangesTo(o, w, f, x) ==
    /\ mount' = mount /\ ops' = [ops EXCEPT ![o] = w] /\ ops[o].pc \in InHand \cup {"prune"}
    /\ x \in Version \cup {NoFile} /\ disk' = [disk EXCEPT ![ops[o].dir][f] = x]
    /\ x # NoFile => x.data \in DataOf[ops[o].dir] \cup {Empty}
    /\ vfs'[f] \in DataOf[ops[o].dir] \cup {Empty, NoFile}
    /\ \A g \in File \ {f} : mtimes'[g] = mtimes[g] /\ vfs'[g] = vfs[g] /\ (g \in Exempt(ops[o]) => g \in Exempt(w))
    /\ f \in Exempt(w) \/ FileRecorded(x, mtimes'[f])
    /\ w.pc \notin {"idle", "flush", "store"} /\ w.dir = ops[o].dir /\ w.kind = ops[o].kind
    /\ ops[o].pc = "store" => w.pc = "walk" /\ FileRecorded(x, mtimes'[f])
    /\ w.pc \in InHand => w.held = ops[o].held /\ ops[o].pc \in InHand

LEMMA Changes ==
    ASSUME IInv, Alone, Alone', OneInv, NEW o \in Op, NEW w, NEW f \in File, NEW x, ChangesTo(o, w, f, x)
    PROVE  OneInv'
<1> DEFINE F == ops[o].dir
<1> USE DEF ChangesTo
<1>1. Lone(o)
  BY UnderWay DEF InHand
<1>2. F \in Folder /\ At(ops[o], mount) = F /\ At(w, mount') = F
  BY <1>1 DEF Lone, At, InHand
<1>3. \A G \in Folder : \A g \in File : disk'[G][g] = IF G = F /\ g = f THEN x ELSE disk[G][g]
  BY <1>1, <1>2 DEF Lone, Known
<1>4. mount \in {F, NoFolder} /\ Ours(F, vfs) /\ Recorded(F, Exempt(ops[o]), disk, mtimes)
  BY <1>1, <1>2 DEF Lone, OneOK
<1> HIDE DEF F
<1>5. Ours(F, vfs')
  BY <1>4 DEF Ours, F
<1>6. Recorded(F, Exempt(w), disk', mtimes')
  <2> SUFFICES ASSUME NEW g \in File, g \notin Exempt(w) PROVE FileRecorded(disk'[F][g], mtimes'[g])
    BY DEF Recorded
  <2>1. CASE g = f
    BY <1>2, <1>3, <2>1
  <2>2. CASE g # f
    BY <1>2, <1>3, <1>4, <2>2 DEF Recorded
  <2> QED BY <2>1, <2>2
<1>7. w.pc \in InHand => w.held.data \in DataOf[F] \cup {Empty}
  BY <1>1 DEF Lone, OneOK, F
<1>8. w.kind \in Loads => w.pc = "walk" /\ Loading(w, mount', disk', mtimes')
  <2> SUFFICES ASSUME w.kind \in Loads PROVE w.pc = "walk" /\ Loading(w, mount', disk', mtimes')
    OBVIOUS
  <2>1. ops[o].pc = "store" /\ w.pc = "walk" /\ FileRecorded(x, mtimes'[f]) /\ Loading(ops[o], mount, disk, mtimes)
    BY <1>1 DEF Lone, OneOK, InHand
  <2>2. mount = F => \A g \in File : FileRecorded(disk[F][g], mtimes[g])
    BY <1>1, <1>2, <2>1 DEF Loading, Recorded, F, Lone
  <2>3. mount = F => \A g \in File : FileRecorded(disk'[F][g], mtimes'[g])
    BY <1>2, <1>3, <2>1, <2>2
  <2> QED BY <1>4, <2>1, <2>3 DEF Loading, Recorded, F
<1>9. OneOK(w, vfs', mount', disk', mtimes')
  BY <1>2, <1>4, <1>5, <1>6, <1>7, <1>8 DEF OneOK, F
<1>10. NoCrossover'
  <2> SUFFICES ASSUME NEW G \in Folder, NEW g \in File, disk'[G][g] # NoFile PROVE disk'[G][g].data \in DataOf[G] \cup {Empty}
    BY DEF NoCrossover, FilesIn
  <2>1. CASE G = F /\ g = f
    BY <1>3, <2>1 DEF F
  <2>2. CASE ~(G = F /\ g = f)
    BY <1>1, <1>3, <2>2 DEF Lone, NoCrossover, FilesIn
  <2> QED BY <2>1, <2>2
<1> QED BY <1>1, <1>9, <1>10, OneStep DEF Lone

\* The walk takes up the next entry.
LEMMA NextOne ==
    ASSUME NEW o \in Op, Known(o), NextEntry(o)
    PROVE  \E w : /\ ops' = [ops EXCEPT ![o] = w] /\ w.pc = "walk" /\ w.dir = ops[o].dir /\ w.kind = ops[o].kind
                  /\ w.todo = ops[o].todo
<1> DEFINE w == [ops[o] EXCEPT !.pc = "walk", !.file = NoFile, !.held = NoVersion, !.seen = NoTime]
<1>1. w.pc = "walk" /\ w.dir = ops[o].dir /\ w.kind = ops[o].kind /\ w.todo = ops[o].todo
  BY DEF Known, Walk
<1>2. ops' = [ops EXCEPT ![o] = w]
  BY DEF NextEntry, Known
<1> HIDE DEF w
<1> QED BY <1>1, <1>2

LEMMA ProbeOne == ASSUME IInv, Alone, Alone', OneInv, NEW o \in Op, Probe(o) PROVE OneInv'
<1> DEFINE F == ops[o].dir
           f == ops[o].file
           v == disk[F][f]
<1>1. UNCHANGED <<vfs, mount>> /\ ops[o].pc = "probe" /\ Lone(o) /\ HandKnown(o, F, f, v)
  BY UnderWay, Holding DEF Probe, InHand
<1>2. ops[o].held.data \in DataOf[F] \cup {Empty} /\ Exempt(ops[o]) = {} /\ ops[o].kind \notin Loads
  BY <1>1 DEF Lone, OneOK, InHand, Exempt
<1>3. CASE UNCHANGED <<mtimes, disk>> /\ (Compared(o, "create") \/ Compared(o, "write"))
  <2>1. PICK pc \in {"create", "write"} : Compared(o, pc)
    BY <1>3
  <2> DEFINE w == [ops[o] EXCEPT !.pc = pc, !.seen = clock]
  <2>2. ops' = [ops EXCEPT ![o] = w] /\ w.pc = pc /\ w.dir = ops[o].dir /\ w.held = ops[o].held /\ w.kind = ops[o].kind
    BY <1>1, <2>1 DEF Compared, Lone, Known, Walk
  <2> HIDE DEF w
  <2> QED BY <1>1, <1>2, <1>3, <2>2, Moves
<1>4. CASE UNCHANGED <<mtimes, disk>> /\ NextEntry(o)
  <2>1. PICK w : /\ ops' = [ops EXCEPT ![o] = w] /\ w.pc = "walk" /\ w.dir = ops[o].dir /\ w.kind = ops[o].kind
    BY <1>1, <1>4, NextOne DEF Lone
  <2> QED BY <1>1, <1>2, <1>4, <2>1, Moves DEF InHand
<1>5. CASE /\ v # NoFile /\ NextEntry(o)
           /\ mtimes' = [mtimes EXCEPT ![f] = v.time] /\ disk' = [disk EXCEPT ![F][f].by = "ours"]
  <2> DEFINE x == [v EXCEPT !.by = "ours"]
  <2>1. PICK w : /\ ops' = [ops EXCEPT ![o] = w] /\ w.pc = "walk" /\ w.dir = ops[o].dir /\ w.kind = ops[o].kind
    BY <1>1, <1>5, NextOne DEF Lone
  <2>2. v \in Version /\ F \in Folder /\ f \in File /\ At(ops[o], mount) = F
    BY <1>1, <1>5 DEF HandKnown, At
  <2>3. x \in Version /\ x.time = v.time /\ x.data = v.data
    BY <2>2 DEF Version
  <2>4. disk' = [disk EXCEPT ![F][f] = x]
    BY <1>5, <2>2 DEF HandKnown
  <2>5. mtimes'[f] = x.time /\ \A g \in File \ {f} : mtimes'[g] = mtimes[g]
    BY <1>1, <1>5, <2>2, <2>3 DEF Lone, Known
  <2>6. x.data \in DataOf[F] \cup {Empty}
    BY <1>1, <1>5, <2>2, <2>3 DEF Lone, NoCrossover, FilesIn
  <2>7. vfs'[f] \in DataOf[F] \cup {Empty, NoFile}
    BY <1>1, <2>2 DEF Lone, OneOK, Ours
  <2> HIDE DEF x, v
  <2>8. FileRecorded(x, mtimes'[f])
    BY <2>5 DEF FileRecorded
  <2>9. ChangesTo(o, w, f, x)
    BY <1>1, <1>2, <2>1, <2>2, <2>3, <2>4, <2>5, <2>6, <2>7, <2>8 DEF ChangesTo, InHand
  <2> QED BY <2>2, <2>9, Changes
<1> QED BY <1>1, <1>3, <1>4, <1>5 DEF Probe

LEMMA RecordOne == ASSUME IInv, Alone, Alone', OneInv, NEW o \in Op, Record(o) PROVE OneInv'
<1> DEFINE F == ops[o].dir
           f == ops[o].file
           v == disk[F][f]
<1>1. UNCHANGED <<vfs, mount>> /\ ops[o].pc = "record" /\ Lone(o) /\ HandKnown(o, F, f, v)
  BY UnderWay, Holding DEF Record, InHand
<1>2. Exempt(ops[o]) \subseteq {f}
  BY <1>1 DEF Exempt
<1>3. CASE v = NoFile /\ Ends(o) /\ UNCHANGED <<mtimes, disk>>
  <2>1. \A g \in Exempt(ops[o]) : FileRecorded(disk[F][g], mtimes[g])
    BY <1>2, <1>3 DEF FileRecorded
  <2> QED BY <1>1, <1>3, <2>1, EndsOne
<1>4. CASE /\ v # NoFile /\ NextEntry(o) /\ mtimes' = [mtimes EXCEPT ![f] = v.time]
           /\ disk' = [disk EXCEPT ![F][f].by = IF @ = "edit" THEN "taken" ELSE @]
  <2> DEFINE x == [v EXCEPT !.by = IF v.by = "edit" THEN "taken" ELSE v.by]
  <2>1. PICK w : /\ ops' = [ops EXCEPT ![o] = w] /\ w.pc = "walk" /\ w.dir = ops[o].dir /\ w.kind = ops[o].kind
    BY <1>1, <1>4, NextOne DEF Lone
  <2>2. v \in Version /\ F \in Folder /\ f \in File /\ At(ops[o], mount) = F
    BY <1>1, <1>4 DEF HandKnown, At
  <2>3. x \in Version /\ x.time = v.time /\ x.data = v.data
    BY <2>2 DEF Version
  <2>4. disk' = [disk EXCEPT ![F][f] = x]
    BY <1>1, <1>4, <2>2 DEF HandKnown, Known
  <2>5. mtimes'[f] = x.time /\ \A g \in File \ {f} : mtimes'[g] = mtimes[g]
    BY <1>1, <1>4, <2>2, <2>3 DEF Lone, Known
  <2>6. x.data \in DataOf[F] \cup {Empty}
    BY <1>1, <1>4, <2>2, <2>3 DEF Lone, NoCrossover, FilesIn
  <2>7. vfs'[f] \in DataOf[F] \cup {Empty, NoFile}
    BY <1>1, <2>2 DEF Lone, OneOK, Ours
  <2> HIDE DEF x, v
  <2>8. FileRecorded(x, mtimes'[f])
    BY <2>5 DEF FileRecorded
  <2>9. ChangesTo(o, w, f, x)
    BY <1>1, <1>2, <2>1, <2>2, <2>3, <2>4, <2>5, <2>6, <2>7, <2>8 DEF ChangesTo, InHand
  <2> QED BY <2>2, <2>9, Changes
<1> QED BY <1>3, <1>4 DEF Record

LEMMA StoreOne == ASSUME IInv, Alone, Alone', OneInv, NEW o \in Op, Store(o) PROVE OneInv'
<1> DEFINE F == ops[o].dir
           f == ops[o].file
           v == disk[F][f]
           h == ops[o].held
           x == IF v = h THEN [v EXCEPT !.by = "ours"] ELSE v
<1>1. mount' = mount /\ ops[o].pc = "store" /\ Lone(o) /\ HandKnown(o, F, f, v)
  BY UnderWay, Holding DEF Store, InHand
<1>2. PICK w : /\ ops' = [ops EXCEPT ![o] = w] /\ w.pc = "walk" /\ w.dir = ops[o].dir /\ w.kind = ops[o].kind /\ w.todo = ops[o].todo
  BY <1>1, NextOne DEF Lone, Store
<1>3. F \in Folder /\ f \in File /\ v \in Version \cup {NoFile} /\ h \in Version /\ h # NoFile
  BY <1>1, AbsenceAssumption DEF HandKnown, Known
<1>4. x \in Version \cup {NoFile} /\ (v = h => x.time = v.time) /\ (x # NoFile => v # NoFile /\ x.data = v.data)
  BY <1>3 DEF Version
<1>5. disk' = [disk EXCEPT ![F][f] = x]
  BY <1>1, <1>3 DEF Store, HandKnown
<1>6. mtimes'[f] = h.time /\ vfs'[f] = h.data /\ \A g \in File \ {f} : mtimes'[g] = mtimes[g] /\ vfs'[g] = vfs[g]
  BY <1>1, <1>3 DEF Store, Lone, Known
<1>7. h.data \in DataOf[F] \cup {Empty}
  BY <1>1 DEF Lone, OneOK, InHand
<1>8. x # NoFile => x.data \in DataOf[F] \cup {Empty}
  BY <1>1, <1>3, <1>4 DEF Lone, NoCrossover, FilesIn
<1>9. FileRecorded(x, mtimes'[f])
  <2>1. v = NoFile \/ v = h \/ v.by # "ours"
    BY <1>1 DEF Lone, OneOK, ReadOK
  <2> QED BY <1>3, <1>4, <1>6, <2>1 DEF FileRecorded
<1>10. \A g \in File \ {f} : g \in Exempt(ops[o]) => g \in Exempt(w)
  BY <1>1, <1>2 DEF Exempt
<1> HIDE DEF x, v, h
<1>11. ChangesTo(o, w, f, x)
  BY <1>1, <1>2, <1>3, <1>4, <1>5, <1>6, <1>7, <1>8, <1>9, <1>10 DEF ChangesTo, InHand
<1> QED BY <1>3, <1>11, Changes

\* A save writes the file in hand.
LEMMA WritesOne ==
    ASSUME IInv, Alone, Alone', OneInv, NEW o \in Op, ops[o].pc \in {"create", "write"}, NEW content, NEW pc \in {"write", "record"},
           content \in DataOf[ops[o].dir] \cup {Empty}, pc = "write" => content = Empty,
           WriteDisk(ops[o].dir, ops[o].file, content), Goes(o, pc), UNCHANGED <<vfs, mtimes, mount>>
    PROVE  OneInv'
<1> DEFINE F == ops[o].dir
           f == ops[o].file
           x == [data |-> content, time |-> clock + 1, by |-> "ours"]
           w == [ops[o] EXCEPT !.pc = pc]
<1>1. Lone(o) /\ HandKnown(o, F, f, disk[F][f])
  BY UnderWay, Holding DEF InHand
<1>2. F \in Folder /\ f \in File /\ clock \in Nat /\ At(ops[o], mount) = F
  BY <1>1 DEF HandKnown, Known, At
<1>3. x \in Version
  BY <1>2 DEF Version, Data
<1>4. ops' = [ops EXCEPT ![o] = w] /\ w.pc = pc /\ w.dir = ops[o].dir /\ w.file = f /\ w.held = ops[o].held /\ w.kind = ops[o].kind
  BY <1>1 DEF Goes, Lone, Known, Walk
<1>5. disk' = [disk EXCEPT ![F][f] = x]
  BY DEF WriteDisk
<1>6. vfs'[f] \in DataOf[F] \cup {Empty, NoFile}
  BY <1>1, <1>2 DEF Lone, OneOK, Ours
<1>7. f \in Exempt(w) \/ FileRecorded(x, mtimes'[f])
  BY <1>2, <1>4 DEF Exempt, FileRecorded
<1>8. Exempt(ops[o]) = {}
  BY DEF Exempt
<1>9. x.data \in DataOf[F] \cup {Empty}
  OBVIOUS
<1> HIDE DEF x, w
<1>10. ChangesTo(o, w, f, x)
  BY <1>1, <1>2, <1>3, <1>4, <1>5, <1>6, <1>7, <1>8, <1>9 DEF ChangesTo, InHand
<1> QED BY <1>2, <1>10, Changes

LEMMA CreateHandleOne == ASSUME IInv, Alone, Alone', OneInv, NEW o \in Op, CreateHandle(o) PROVE OneInv'
<1>1. UNCHANGED <<vfs, mtimes, mount>> /\ ops[o].pc = "create" /\ Goes(o, "write") /\ Lone(o)
  BY UnderWay DEF CreateHandle
<1>2. CASE WriteDisk(ops[o].dir, ops[o].file, Empty)
  BY <1>1, <1>2, WritesOne
<1>3. CASE UNCHANGED <<disk, clock>>
  <2> DEFINE w == [ops[o] EXCEPT !.pc = "write"]
  <2>1. ops' = [ops EXCEPT ![o] = w] /\ w.pc = "write" /\ w.dir = ops[o].dir /\ w.held = ops[o].held /\ w.kind = ops[o].kind
    BY <1>1 DEF Goes, Lone, Known, Walk
  <2>2. w.held.data \in DataOf[ops[o].dir] \cup {Empty} /\ Exempt(ops[o]) = {} /\ ops[o].kind \notin Loads
    BY <1>1, <2>1 DEF Lone, OneOK, InHand, Exempt
  <2> HIDE DEF w
  <2> QED BY <1>1, <1>3, <2>1, <2>2, Moves
<1> QED BY <1>2, <1>3 DEF CreateHandle

LEMMA WriteFileOne == ASSUME IInv, Alone, Alone', OneInv, NEW o \in Op, WriteFile(o) PROVE OneInv'
<1>1. /\ UNCHANGED <<vfs, mtimes, mount>> /\ ops[o].pc = "write" /\ Goes(o, "record") /\ Lone(o)
      /\ WriteDisk(ops[o].dir, ops[o].file, ops[o].held.data)
  BY UnderWay DEF WriteFile
<1>2. ops[o].held.data \in DataOf[ops[o].dir] \cup {Empty}
  BY <1>1 DEF Lone, OneOK, InHand
<1> QED BY <1>1, <1>2, WritesOne

LEMMA PruneDiskOne == ASSUME IInv, Alone, Alone', OneInv, NEW o \in Op, PruneDisk(o) PROVE OneInv'
<1>1. UNCHANGED <<vfs, mount>> /\ ops[o].pc = "prune" /\ Lone(o) /\ Exempt(ops[o]) = {}
  BY UnderWay DEF PruneDisk, Exempt
<1>2. CASE Ends(o) /\ UNCHANGED <<disk, mtimes>>
  BY <1>1, <1>2, EndsOne
<1>3. CASE ~(Ends(o) /\ UNCHANGED <<disk, mtimes>>)
  <2>1. PICK f \in ops[o].todo : /\ disk' = [disk EXCEPT ![ops[o].dir][f] = NoFile]
                                 /\ mtimes' = [mtimes EXCEPT ![f] = NoTime]
                                 /\ ops' = [ops EXCEPT ![o].todo = @ \ {f}]
    BY <1>3 DEF PruneDisk
  <2> DEFINE w == [ops[o] EXCEPT !.todo = ops[o].todo \ {f}]
  <2>2. f \in File /\ ops[o].dir \in Folder /\ At(ops[o], mount) = ops[o].dir
    BY <1>1 DEF Lone, Known, At
  <2>3. ops' = [ops EXCEPT ![o] = w] /\ w.pc = "prune" /\ w.dir = ops[o].dir /\ w.kind = ops[o].kind
    BY <1>1, <2>1 DEF Lone, Known, Walk
  <2> HIDE DEF w
  <2>4. vfs'[f] \in DataOf[ops[o].dir] \cup {Empty, NoFile}
    BY <1>1, <2>2 DEF Lone, OneOK, Ours
  <2>5. \A g \in File \ {f} : mtimes'[g] = mtimes[g] /\ vfs'[g] = vfs[g]
    BY <1>1, <2>1 DEF Lone, Known
  <2> DEFINE x == NoFile
  <2>6. FileRecorded(x, mtimes'[f]) /\ x \in Version \cup {NoFile} /\ disk' = [disk EXCEPT ![ops[o].dir][f] = x] /\ x = NoFile
    BY <2>1 DEF FileRecorded
  <2> HIDE DEF x
  <2>7. ChangesTo(o, w, f, x)
    BY <1>1, <2>2, <2>3, <2>4, <2>5, <2>6 DEF ChangesTo, InHand
  <2> QED BY <2>2, <2>7, Changes
<1> QED BY <1>2, <1>3

\* Only files that the disk has not got are forgotten.
LEMMA PruneVfsOne == ASSUME IInv, Alone, Alone', OneInv, NEW o \in Op, PruneVfs(o) PROVE OneInv'
<1> DEFINE w == [ops[o] EXCEPT !.pc = "walk", !.todo = File]
           F == ops[o].dir
           gone == FilesIn(vfs) \ FilesIn(disk[F])
<1>1. UNCHANGED <<mount, disk>> /\ ops[o].pc = "list" /\ ops[o].kind = "pull" /\ Lone(o)
  BY UnderWay DEF PruneVfs
<1>2. /\ ops' = [ops EXCEPT ![o] = w] /\ w.pc = "walk" /\ w.dir = F /\ w.kind = "pull"
      /\ vfs' = [f \in File |-> IF f \in gone THEN NoFile ELSE vfs[f]]
      /\ mtimes' = [f \in File |-> IF f \in gone THEN NoTime ELSE mtimes[f]]
  BY <1>1 DEF Lone, Known, Walk, PruneVfs
<1> HIDE DEF w
<1>3. F \in Folder /\ At(ops[o], mount) = F /\ At(w, mount) = F /\ Exempt(ops[o]) = {} /\ Exempt(w) = {}
  BY <1>1, <1>2 DEF Lone, At, Exempt, Loads
<1>4. mount \in {F, NoFolder} /\ Ours(F, vfs) /\ Recorded(F, {}, disk, mtimes)
  BY <1>1, <1>3 DEF Lone, OneOK
<1>5. \A f \in gone : disk[F][f] = NoFile
  BY DEF FilesIn
<1> HIDE DEF F, gone
<1>6. Ours(F, vfs') /\ Recorded(F, {}, disk, mtimes')
  BY <1>2, <1>4, <1>5 DEF Ours, Recorded, FileRecorded
<1>7. OneOK(w, vfs', mount', disk', mtimes')
  BY <1>1, <1>2, <1>3, <1>4, <1>6 DEF OneOK, Loads, InHand
<1>8. NoCrossover' /\ Only(o)
  BY <1>1, Uncrossed DEF Lone
<1> QED BY <1>2, <1>7, <1>8, OneStep

----
\* Beside the walk.

LEMMA EditWorkspaceOne ==
    ASSUME IInv, OneInv, NEW f \in File, NEW d \in DataOf[mount] \cup {NoFile}, EditWorkspace(f, d) PROVE OneInv'
<1>1. UNCHANGED <<disk, mtimes, mount, ops>> /\ mount # NoFolder /\ vfs' = [vfs EXCEPT ![f] = d]
  BY DEF EditWorkspace
<1>2. ASSUME NEW o \in Op, Lone(o) PROVE OneOK(ops[o], vfs', mount, disk, mtimes)
  <2>1. ASSUME At(ops[o], mount) \in Folder PROVE Ours(At(ops[o], mount), vfs')
    <3>1. mount = At(ops[o], mount) /\ Ours(mount, vfs)
      BY <1>1, <1>2, <2>1 DEF Lone, OneOK
    <3>2. \A g \in File : vfs'[g] = IF g = f THEN d ELSE vfs[g]
      BY <1>1, <1>2 DEF Lone, Known
    <3>3. Ours(mount, vfs')
      BY <3>1, <3>2 DEF Ours
    <3> QED BY <3>1, <3>3
  <2> QED BY <1>2, <2>1 DEF Lone, OneOK
<1>3. NoCrossover'
  BY <1>1, Uncrossed DEF OneInv
<1> QED BY <1>1, <1>2, <1>3, Beside

LEMMA UnmountOne == ASSUME IInv, OneInv, Unmount PROVE OneInv'
<1>1. UNCHANGED <<vfs, disk, mtimes, ops>> /\ mount' = NoFolder /\ NoMountInFlight
  BY DEF Unmount
<1>2. ASSUME NEW o \in Op, Lone(o) PROVE OneOK(ops[o], vfs, NoFolder, disk, mtimes)
  <2>1. ops[o].kind \notin Loads /\ ops[o].pc # "flush"
    BY <1>1, <1>2 DEF NoMountInFlight, Loads, Lone, OneOK
  <2>2. At(ops[o], NoFolder) \in Folder => At(ops[o], NoFolder) = At(ops[o], mount)
    BY <1>2 DEF At, Lone
  <2> QED BY <1>2, <2>1, <2>2 DEF Lone, OneOK
<1>3. NoCrossover'
  BY <1>1, Uncrossed DEF OneInv
<1> QED BY <1>1, <1>2, <1>3, Beside

\* Another program deletes file f of folder F or writes it.
LEMMA DiskOne ==
    ASSUME IInv, OneInv, UNCHANGED <<vfs, mount, mtimes, ops>>, NEW F \in Folder, NEW f \in File, NEW x,
           disk' = [disk EXCEPT ![F][f] = x], x # NoFile => x.by # "ours" /\ x.data \in DataOf[F]
    PROVE  OneInv'
<1>1. disk \in [Folder -> [File -> Version \cup {NoFile}]]
  BY DEF IInv, TypeOK
<1>2. \A G \in Folder : \A g \in File : disk'[G][g] = IF G = F /\ g = f THEN x ELSE disk[G][g]
  BY <1>1
<1>3. ASSUME NEW o \in Op, Lone(o) PROVE OneOK(ops[o], vfs, mount, disk', mtimes)
  <2>1. ASSUME At(ops[o], mount) \in Folder, Recorded(At(ops[o], mount), Exempt(ops[o]), disk, mtimes)
        PROVE  Recorded(At(ops[o], mount), Exempt(ops[o]), disk', mtimes)
    BY <1>2, <2>1 DEF Recorded, FileRecorded
  <2>3. ASSUME NEW G \in Folder, Recorded(G, {}, disk, mtimes) PROVE Recorded(G, {}, disk', mtimes)
    BY <1>2, <2>3 DEF Recorded, FileRecorded
  <2>4. ops[o].pc # "idle" /\ Loading(ops[o], mount, disk, mtimes) => Loading(ops[o], mount, disk', mtimes)
    BY <1>3, <2>3 DEF Loading, Lone
  <2>2. ASSUME ops[o].pc = "store" PROVE ReadOK(ops[o], disk')
    <3>1. ops[o].dir \in Folder /\ ops[o].file \in File /\ ReadOK(ops[o], disk)
      BY <1>3, <2>2 DEF Lone, OneOK, Known, WalkType, InHand
    <3> QED BY <1>2, <3>1 DEF ReadOK
  <2> QED BY <1>3, <2>1, <2>2, <2>4 DEF Lone, OneOK
<1>4. NoCrossover'
  <2> SUFFICES ASSUME NEW G \in Folder, NEW g \in File, disk'[G][g] # NoFile PROVE disk'[G][g].data \in DataOf[G] \cup {Empty}
    BY DEF NoCrossover, FilesIn
  <2> QED BY <1>2 DEF OneInv, NoCrossover, FilesIn
<1> QED BY <1>3, <1>4, Beside

LEMMA EditsOne ==
    ASSUME IInv, OneInv, NEW F \in Folder, NEW f \in File, DeleteOnDisk(F, f) \/ \E d \in DataOf[F] : EditDisk(F, f, d)
    PROVE  OneInv'
<1>1. CASE DeleteOnDisk(F, f)
  BY <1>1, DiskOne DEF DeleteOnDisk
<1>2. CASE \E d \in DataOf[F] : EditDisk(F, f, d)
  <2>1. PICK d \in DataOf[F] : EditDisk(F, f, d)
    BY <1>2
  <2> DEFINE x == [data |-> d, time |-> clock + 1, by |-> "edit"]
  <2>2. UNCHANGED <<vfs, mount, mtimes, ops>> /\ disk' = [disk EXCEPT ![F][f] = x]
    BY <2>1 DEF EditDisk
  <2>3. x.by # "ours" /\ x.data \in DataOf[F]
    OBVIOUS
  <2> HIDE DEF x
  <2> QED BY <2>2, <2>3, DiskOne
<1> QED BY <1>1, <1>2

LEMMA InitOne == ASSUME Init PROVE OneInv
<1>1. PICK first \in [Folder -> Data], present \in [Folder -> SUBSET File] :
        /\ \A F \in Folder : first[F] \in DataOf[F]
        /\ disk = [F \in Folder |-> [f \in File |->
                    IF f \in present[F] THEN [data |-> first[F], time |-> FirstTimes[F], by |-> "ours"]
                    ELSE NoFile]]
        /\ vfs = [f \in File |-> IF f \in present[mount] THEN first[mount] ELSE NoFile]
        /\ mtimes = [f \in File |-> IF f \in present[mount] THEN FirstTimes[mount] ELSE NoTime]
  BY DEF Init
<1>2. mount \in Folder /\ ops = [o \in Op |-> Idle]
  BY DEF Init
<1>3. NoCrossover
  BY <1>1 DEF NoCrossover, FilesIn
<1>4. Ours(mount, vfs) /\ Recorded(mount, {}, disk, mtimes)
  BY <1>1, <1>2 DEF Ours, Recorded, FileRecorded
<1>5. Idle.pc = "idle" /\ Idle.kind = "idle" /\ At(Idle, mount) = mount /\ Exempt(Idle) = {}
  BY DEF Idle, At, Exempt, Loads
<1>6. OneOK(Idle, vfs, mount, disk, mtimes)
  BY <1>2, <1>4, <1>5 DEF OneOK, Loads, InHand
<1> QED BY <1>2, <1>3, <1>6 DEF OneInv

LEMMA NextOneInv == ASSUME IInv, Alone, Alone', OneInv, [Next]_vars PROVE OneInv'
<1>1. CASE \E f \in File : \/ mount # NoFolder /\ \E d \in DataOf[mount] \cup {NoFile} : EditWorkspace(f, d)
                           \/ \E F \in Folder : DeleteOnDisk(F, f) \/ \E d \in DataOf[F] : EditDisk(F, f, d)
  BY <1>1, EditWorkspaceOne, EditsOne
<1>2. CASE \E o \in Op : \/ FireSave(o) \/ Tick(o) \/ StartPush(o) \/ StartPull(o) \/ Fail(o)
                         \/ \E F \in Folder : Swap(o, F) \/ Mount(o, F)
  BY <1>2, StartsOne, EndingOne, SwapOne, MountOne
<1>3. CASE \E o \in Op : WalkStep(o)
  BY <1>3, VisitForSaveOne, ProbeOne, CreateHandleOne, WriteFileOne, RecordOne, ListsOne, PruneDiskOne, PruneVfsOne,
     VisitForReadOne, StoreOne, EndingOne, SwapClearOne, LoadedOne, AnnounceOne DEF WalkStep
<1>4. CASE Unmount
  BY <1>4, UnmountOne
<1>5. CASE UNCHANGED vars
  <2>1. UNCHANGED <<vfs, mount, disk, mtimes, ops>>
    BY <1>5 DEF vars
  <2> QED BY <2>1, Uncrossed, Beside DEF OneInv, Lone
<1> QED BY <1>1, <1>2, <1>3, <1>4, <1>5 DEF Next

LEMMA OneExact == ASSUME IInv, Alone, OneInv PROVE PullsOnlyExternal /\ NoCrossover
<1> SUFFICES PullsOnlyExternal
  BY DEF OneInv
<1> SUFFICES ASSUME NEW o \in Op, ops[o].kind = "rescan", ops[o].pc = "store"
             PROVE  ops[o].held.by # "ours" \/ ops[o].held.data = Empty
  BY DEF PullsOnlyExternal
<1> QED BY UnderWay DEF Lone, OneOK, ReadOK

\* While one walk runs at a time, a rescan never pulls back what the app itself wrote (which would undo a newer edit
\* of the workspace), and neither a save nor a swap puts contents of one project into the folder of another: the
\* part of rescanFolder, saveVfsToFolder and swapMountedFolder that only overlapping walks break.
THEOREM OneWalkHolds == Spec /\ []Alone => [](PullsOnlyExternal /\ NoCrossover)
<1>1. Init => OneInv
  BY InitOne
<1>2. IInv /\ Alone /\ Alone' /\ OneInv /\ [Next]_vars => OneInv'
  BY NextOneInv
<1>3. IInv /\ Alone /\ OneInv => PullsOnlyExternal /\ NoCrossover
  BY OneExact
<1> QED BY <1>1, <1>2, <1>3, AlwaysInv, PTL DEF Spec

\* The same of the specification the runs check: where overlap is FALSE one walk runs at a time.
ManyInv == IInv /\ (~overlap => Alone /\ OneInv)

LEMMA ManyNext == ASSUME MCNext PROVE Next /\ UNCHANGED overlap /\ Few'
<1>1. CASE \E x \in File : \/ mount # NoFolder /\ \E d \in DataOf[mount] \cup {NoFile} : EditWorkspace(x, d) /\ MCStep
                           \/ \E F \in Folder : (DeleteOnDisk(F, x) /\ MCStep) \/ \E d \in DataOf[F] : EditDisk(F, x, d) /\ MCStep
  BY <1>1 DEF Next, MCStep
<1>2. CASE \E o \in Op, F \in Folder : (Swap(o, F) /\ MCStep) \/ (Mount(o, F) /\ MCStep)
  BY <1>2 DEF Next, MCStep
<1>3. CASE \E o \in Op : (FireSave(o) \/ Tick(o) \/ StartPush(o) \/ StartPull(o) \/ Fail(o) \/ WalkStep(o)) /\ MCStep
  BY <1>3 DEF Next, MCStep
<1>4. CASE Unmount /\ MCStep
  BY <1>4 DEF Next, MCStep
<1> QED BY <1>1, <1>2, <1>3, <1>4 DEF MCNext, WalkStep

\* A walk that no other overlaps stores nothing the app wrote, and no folder gets contents of another project
\* (rescanFolder, swapMountedFolder), whatever happens on both sides while it awaits the disk.
THEOREM OneWalkExactHolds == MCSpec => []OneWalkExact
<1>1. MCInit => ManyInv
  <2> SUFFICES ASSUME MCInit PROVE ManyInv
    OBVIOUS
  <2>1. Init
    BY DEF MCInit
  <2>2. Alone
    BY <2>1 DEF Init, Alone
  <2> QED BY <2>1, <2>2, InitInv, InitOne DEF ManyInv
<1>2. ManyInv /\ [MCNext]_<<vars, overlap>> => ManyInv'
  <2> SUFFICES ASSUME ManyInv, [MCNext]_<<vars, overlap>> PROVE ManyInv'
    OBVIOUS
  <2>1. [Next]_vars /\ overlap' = overlap
    BY ManyNext
  <2>2. IInv'
    BY <2>1, NextInv DEF ManyInv
  <2>3. ASSUME ~overlap PROVE Alone'
    <3>1. CASE MCNext
      <4>1. ~overlap' /\ Few'
        BY <2>1, <2>3, <3>1, ManyNext
      <4> QED BY <4>1 DEF Few, Alone
    <3>2. CASE UNCHANGED vars
      BY <2>3, <3>2 DEF ManyInv, Alone, vars
    <3> QED BY <3>1, <3>2
  <2>4. ASSUME ~overlap PROVE OneInv'
    BY <2>1, <2>3, <2>4, NextOneInv DEF ManyInv
  <2> QED BY <2>1, <2>2, <2>3, <2>4 DEF ManyInv
<1>3. ManyInv => OneWalkExact
  BY OneExact DEF ManyInv, OneWalkExact
<1> QED BY <1>1, <1>2, <1>3, PTL DEF MCSpec
====
