---- MODULE RunHistory ----
(* The run history of the Studio (apps/web/src/lib/studio.ts): the threads in memory, their mirror in the browser's   *)
(* IndexedDB (runs-store.ts) and in the mounted folder's .erdou/runs.json (folder-state.ts).  Both mirrors are written *)
(* behind debounce timers and awaits, mounts hydrate the memory asynchronously, and a turn, a title and the user's    *)
(* clicks change runs meanwhile.  Reloads lose the memory and any write still in flight; another machine that shares  *)
(* a folder replies to its runs.  What a turn says is abstracted to the ids of its trace lines.                       *)
EXTENDS Naturals, FiniteSetsExt, SequencesExt

CONSTANTS
    RunId, Folder, None,
    MaxRuns,        \* MAX_RUNS of runs-store.ts
    Histories,      \* what the mirrors may hold at first
    MaxOps          \* bound: clicks, trace lines, reloads and replies elsewhere

ASSUME HistoryAssumption ==
    /\ None \notin RunId \cup Folder
    /\ MaxRuns \in Nat \ {0} /\ MaxOps \in Nat

VARIABLES
    runs,           \* the runs in memory, most recent first
    driven,         \* turnRunIds
    starting,       \* the run startRun has added and not yet handed to runAgentTurn, or None
    turn,           \* the turn in flight: its run, and whether that object is still in runs
    ending,         \* where runAgentTurn's finally awaits: "no", "snapshot", "flush"
    titles,         \* runs whose generated title is on its way
    nextId,         \* the next id of a trace line
    runsTimer, stateTimer,  \* runsSaveTimer, folderStateTimer
    announce,       \* an operation awaits its saveRuns and calls scheduleFolderStateSave then
    idb, puts,      \* IndexedDB: what is committed, and the transactions in flight, oldest first
    disk, writes,   \* runs.json of each folder (None: no .erdou), and the writes in flight
    mount,
    mounting,       \* the mount or swap in flight
    persisted,      \* the folder handle the next boot mounts
    swapping,       \* swappingFolder
    open,           \* the page is loaded
    snapshot, saveTimer,    \* the workspace is stored in this browser, and will be
    wiping,         \* where resetProject awaits: "no", "snapshot", "runs"
    joined,         \* ghost: joined[r]: the folders the user has had r mounted with
    forgotten,      \* ghost: the runs of this browser a reset has deleted, unless the page closed meanwhile
    deleted,        \* ghost: the runs the user deleted; a mount in flight may bring one back
    clock, ops

memory == <<runs, driven, starting, turn, ending, titles, nextId, runsTimer, stateTimer, announce, swapping>>
stores == <<idb, puts, disk, writes>>
session == <<mount, mounting, persisted, open>>
files == <<snapshot, saveTimer, wiping, forgotten, deleted>>
vars == <<memory, stores, session, files, joined, clock, ops>>

Status == {"running", "review", "done", "error"}
Thread == [id : RunId, created : Nat, last : Nat, lines : Seq(Nat), status : Status, title : {"first", "short", "own"}]
Mount == [folder : Folder \cup {None}, mode : {"merge", "replace"}, by : {"boot", "user"},
          pc : {"none", "flush", "load", "persist"}, read : Seq(Thread) \cup {None}]

NoMount == [folder |-> None, mode |-> "merge", by |-> "boot", pc |-> "none", read |-> None]
NoTurn == [run |-> None, held |-> FALSE]

Ids(rs) == {rs[i].id : i \in DOMAIN rs}
At(rs, r) == CHOOSE i \in DOMAIN rs : rs[i].id = r
Copy(rs, r) == rs[At(rs, r)]
LineIds(rs) == UNION {ToSet(rs[i].lines) : i \in DOMAIN rs}
running == turn.run # None

capRuns(rs) == SubSeq(rs, 1, Min({Len(rs), MaxRuns}))

\* The runs of rs whose ids are in ids, in their order.
Only(rs, ids) ==
    LET of[n \in 0 .. Len(rs)] == IF n = 0 THEN <<>> ELSE IF rs[n].id \in ids THEN Append(of[n - 1], rs[n]) ELSE of[n - 1]
    IN  of[Len(rs)]

\* A list of threads as the app writes them: one entry for a run, its lines with ids of their own.
Listed(rs) ==
    /\ rs \in Seq(Thread) /\ \A i, j \in DOMAIN rs : rs[i].id = rs[j].id => i = j
    /\ \A i \in DOMAIN rs : IsInjective(rs[i].lines)

ASSUME HistoriesAssumption ==
    \A h \in Histories :
        /\ h.persisted \in Folder \cup {None} /\ Listed(h.idb)
        /\ h.disk \in [Folder -> Seq(Thread) \cup {None}] /\ \A F \in Folder : h.disk[F] # None => Listed(h.disk[F])

Init ==
    /\ runs = <<>> /\ driven = {} /\ starting = None /\ turn = NoTurn /\ ending = "no" /\ titles = {} /\ nextId = 1
    /\ runsTimer = FALSE /\ stateTimer = FALSE /\ announce = FALSE
    /\ \E h \in Histories : idb = h.idb /\ disk = h.disk /\ persisted = h.persisted
    /\ puts = <<>> /\ writes = <<>>
    /\ mount = None /\ mounting = NoMount /\ swapping = FALSE
    /\ open = FALSE /\ snapshot = TRUE /\ saveTimer = FALSE /\ wiping = "no" /\ forgotten = {} /\ deleted = {}
    /\ joined = [r \in RunId |-> {F \in Folder : disk[F] # None /\ r \in Ids(disk[F])}
                                 \cup (IF r \in Ids(idb) THEN {persisted} \ {None} ELSE {})]
    /\ clock = 9 /\ ops = 0

----
(* Saves. *)

saveRuns(rs) == puts' = Append(puts, capRuns(rs))
writeFolderState(F, rs) == writes' = Append(writes, [folder |-> F, runs |-> capRuns(rs)])

\* A transaction commits; transactions of one store commit in the order they were made.
Committed ==
    /\ puts # <<>> /\ idb' = Head(puts) /\ puts' = Tail(puts)
    /\ UNCHANGED <<memory, disk, writes, session, files, joined, clock, ops>>

\* A write of runs.json is closed.  Writes of one folder are taken to end in the order they began.
Written ==
    /\ writes # <<>> /\ disk' = [disk EXCEPT ![Head(writes).folder] = Head(writes).runs] /\ writes' = Tail(writes)
    /\ UNCHANGED <<memory, idb, puts, session, files, joined, clock, ops>>

\* scheduleRunsSave's timer: flushRunsSave.
RunsTimer ==
    /\ open /\ runsTimer /\ runsTimer' = FALSE /\ saveRuns(runs)
    /\ UNCHANGED <<runs, driven, starting, turn, ending, titles, nextId, stateTimer, announce, swapping,
                   idb, disk, writes, session, files, joined, clock, ops>>

\* scheduleFolderStateSave arms nothing while no folder is mounted.
Scheduled == stateTimer' = (stateTimer \/ mount # None)

saveStateToFolder == IF mount = None THEN UNCHANGED writes ELSE writeFolderState(mount, runs)

StateTimer ==
    /\ open /\ stateTimer /\ stateTimer' = FALSE /\ saveStateToFolder
    /\ UNCHANGED <<runs, driven, starting, turn, ending, titles, nextId, runsTimer, announce, swapping,
                   idb, puts, disk, session, files, joined, clock, ops>>

\* mutant: nothing is scheduled for the folder when the save resolved.
AnnouncedNot ==
    /\ open /\ announce /\ puts = <<>> /\ announce' = FALSE
    /\ UNCHANGED <<runs, driven, starting, turn, ending, titles, nextId, runsTimer, stateTimer, swapping,
                   stores, session, files, joined, clock, ops>>

\* The saveRuns of a click or of a turn's end resolved: scheduleFolderStateSave.
Announced ==
    /\ open /\ announce /\ puts = <<>>
    /\ announce' = FALSE /\ Scheduled
    /\ UNCHANGED <<runs, driven, starting, turn, ending, titles, nextId, runsTimer, swapping,
                   stores, session, files, joined, clock, ops>>

----
(* Turns. *)

Touched(rs, r, status) ==
    LET c == Copy(rs, r)
    IN  [rs EXCEPT ![At(rs, r)] = [c EXCEPT !.lines = Append(c.lines, nextId), !.last = clock + 1, !.status = status]]

Free == open /\ ~running /\ ~swapping

\* startRun up to the await of its first save.  Two starts before the first save ends are StudioSession's concern.
startRun(r) ==
    /\ Free /\ ops < MaxOps /\ starting = None /\ joined[r] = {} /\ r \notin driven \cup deleted \cup forgotten \cup Ids(runs) \cup Ids(idb)
    /\ runs' = <<[id |-> r, created |-> clock + 1, last |-> clock + 1, lines |-> <<>>, status |-> "running", title |-> "first"]>> \o runs
    /\ starting' = r /\ titles' = titles \cup {r}
    /\ joined' = [joined EXCEPT ![r] = (IF mount # None THEN {mount} ELSE {mounting.folder, persisted}) \ {None}]
    /\ saveRuns(runs') /\ clock' = clock + 1 /\ ops' = ops + 1
    /\ UNCHANGED <<driven, turn, ending, nextId, runsTimer, stateTimer, announce, swapping, idb, disk, writes, session, files>>

\* The save resolved: scheduleFolderStateSave and runAgentTurn, whatever happened to the run meanwhile.
StartTurn ==
    /\ open /\ starting # None /\ puts = <<>>
    /\ turn' = [run |-> starting, held |-> starting \in Ids(runs)]
    /\ driven' = driven \cup {starting} /\ starting' = None /\ Scheduled
    /\ UNCHANGED <<runs, ending, titles, nextId, runsTimer, announce, swapping, stores, session, files, joined, clock, ops>>

replyToRun(r) ==
    /\ Free /\ ops < MaxOps /\ starting = None /\ r \in Ids(runs) /\ Copy(runs, r).status # "running"
    /\ runs' = Touched(runs, r, "running") /\ nextId' = nextId + 1 /\ runsTimer' = TRUE
    /\ turn' = [run |-> r, held |-> TRUE] /\ driven' = driven \cup {r}
    /\ clock' = clock + 1 /\ ops' = ops + 1
    /\ UNCHANGED <<starting, ending, titles, stateTimer, announce, swapping, stores, session, files, joined>>

\* onAgentEvent and the reporter of sub-agents: a line of the turn's run, which may no longer be in runs.
appendLine ==
    /\ open /\ running /\ ops < MaxOps
    /\ runs' = IF turn.held THEN Touched(runs, turn.run, Copy(runs, turn.run).status) ELSE runs
    /\ nextId' = nextId + 1 /\ runsTimer' = TRUE
    /\ clock' = clock + 1 /\ ops' = ops + 1
    /\ UNCHANGED <<driven, starting, turn, ending, titles, stateTimer, announce, swapping, stores, session, files, joined>>

\* runAgentTurn's finally up to the await of the snapshot's save; the ends of two turns are taken not to overlap.
EndTurn(s) ==
    /\ open /\ running /\ ending = "no"
    /\ runs' = IF turn.held /\ Copy(runs, turn.run).status = "running" THEN [runs EXCEPT ![At(runs, turn.run)].status = s] ELSE runs
    /\ turn' = NoTurn /\ ending' = "snapshot"
    /\ UNCHANGED <<driven, starting, titles, nextId, runsTimer, stateTimer, announce, swapping, stores, session, files, joined, clock, ops>>

\* The snapshot is stored: flushRunsSave, and scheduleFolderStateSave when it resolved.
FlushTurn ==
    /\ open /\ ending = "snapshot"
    /\ ending' = "no" /\ announce' = TRUE /\ runsTimer' = FALSE /\ saveRuns(runs) /\ snapshot' = TRUE
    /\ UNCHANGED <<runs, driven, starting, turn, titles, nextId, stateTimer, swapping, idb, disk, writes, session, saveTimer, wiping, forgotten, deleted, joined, clock, ops>>

\* generateRunTitle's answer replaces the placeholder only.
TitleArrives(r) ==
    /\ open /\ r \in titles /\ titles' = titles \ {r}
    /\ LET kept == r \in Ids(runs) /\ Copy(runs, r).title = "first" IN
       /\ runs' = IF kept THEN [runs EXCEPT ![At(runs, r)].title = "short"] ELSE runs
       /\ runsTimer' = (runsTimer \/ kept)
    /\ UNCHANGED <<driven, starting, turn, ending, nextId, stateTimer, announce, swapping, stores, session, files, joined, clock, ops>>

----
(* The user's clicks on a run. *)

Clicked(rs) ==
    /\ runs' = rs /\ deleted' = deleted \cup (Ids(runs) \ Ids(rs))
    /\ turn' = [turn EXCEPT !.held = @ /\ turn.run \in Ids(rs)] /\ saveRuns(rs) /\ ops' = ops + 1
    /\ UNCHANGED <<driven, starting, ending, titles, nextId, runsTimer, swapping, idb, disk, writes, session,
                   snapshot, saveTimer, wiping, forgotten, joined, clock>>

renameRun(r) ==
    /\ open /\ ops < MaxOps /\ r \in Ids(runs) /\ Copy(runs, r).title # "own"
    /\ Clicked([runs EXCEPT ![At(runs, r)].title = "own"]) /\ announce' = TRUE /\ UNCHANGED stateTimer

deleteRun(r) ==
    /\ open /\ ops < MaxOps /\ r \in Ids(runs) /\ Copy(runs, r).status # "running"
    /\ Clicked(Only(runs, RunId \ {r})) /\ announce' = TRUE /\ UNCHANGED stateTimer

markReviewed(r) ==
    /\ open /\ ops < MaxOps /\ r \in Ids(runs) /\ Copy(runs, r).status = "review"
    /\ Clicked([runs EXCEPT ![At(runs, r)].status = "done"]) /\ Scheduled /\ UNCHANGED announce

----
(* Mounting. *)

\* mountFolder over nothing or over the same folder, reconnectMount: clear and load the workspace, with runs refused
\* meanwhile if there was one to clear.
Pick(F) ==
    /\ open /\ ops < MaxOps /\ mounting.pc = "none" /\ mount \in {None, F}
    /\ mounting' = [folder |-> F, mode |-> "merge", by |-> "user", pc |-> "load", read |-> None]
    /\ swapping' \in BOOLEAN /\ ops' = ops + 1
    /\ UNCHANGED <<runs, driven, starting, turn, ending, titles, nextId, runsTimer, stateTimer, announce, stores, mount, persisted, open, files, joined, clock>>

\* swapMountedFolder up to the write of the old folder's state.
Swap(F) ==
    /\ open /\ ops < MaxOps /\ mounting.pc = "none" /\ mount \notin {None, F}
    /\ mounting' = [folder |-> F, mode |-> "replace", by |-> "user", pc |-> "flush", read |-> None]
    /\ swapping' = TRUE /\ stateTimer' = FALSE /\ writeFolderState(mount, runs) /\ ops' = ops + 1
    /\ UNCHANGED <<runs, driven, starting, turn, ending, titles, nextId, runsTimer, announce, idb, puts, disk, mount, persisted, open, files, joined, clock>>

\* The old folder has its history: drop it from memory.
SwapFlushed ==
    /\ open /\ mounting.pc = "flush" /\ writes = <<>>
    /\ mounting' = [mounting EXCEPT !.pc = "load"]
    /\ runs' = <<>> /\ driven' = {} /\ mount' = None /\ turn' = [turn EXCEPT !.held = FALSE]
    /\ UNCHANGED <<starting, ending, titles, nextId, runsTimer, stateTimer, announce, swapping, stores, persisted, open, files, joined, clock, ops>>

\* The folder is loaded and its .erdou read; the mount is set.  The handle is stored next.
SetMount ==
    /\ open /\ mounting.pc = "load"
    /\ mounting' = [mounting EXCEPT !.pc = "persist", !.read = disk[mounting.folder]]
    /\ mount' = mounting.folder /\ swapping' = (mounting.mode = "replace")
    \* To mount a folder over the history of this browser, but not to swap to it, is to say that it is the folder's.
    /\ joined' = [r \in RunId |-> joined[r] \cup
                    (IF mounting.by = "user" /\ mounting.mode = "merge" /\ \E rs \in {runs, idb} \cup ToSet(puts) : r \in Ids(rs)
                     THEN {mounting.folder} ELSE {})]
    /\ UNCHANGED <<runs, driven, starting, turn, ending, titles, nextId, runsTimer, stateTimer, announce, stores, persisted, open, files, clock, ops>>

\* mutant: the folder's copy wins over that of a thread driven in this session.
RescuedLate(read) ==
    LET newest == Max({0} \cup {read[i].created : i \in DOMAIN read})
        Stays(c) ==
            \/ running /\ c.status = "running"
            \/ c.id \in Ids(read) /\ c.last > Copy(read, c.id).last
            \/ c.id \notin Ids(read) /\ c.created > newest
    IN  Only(runs, {c.id : c \in {d \in ToSet(runs) : Stays(d)}})

\* hydrateRuns, "merge": the runs of memory that stay.
Rescued(read) ==
    LET newest == Max({0} \cup {read[i].created : i \in DOMAIN read})
        Stays(c) ==
            \/ running /\ c.status = "running"
            \/ c.id \in driven
            \/ c.id \in Ids(read) /\ c.last > Copy(read, c.id).last
            \/ c.id \notin Ids(read) /\ c.created > newest
    IN  Only(runs, {c.id : c \in {d \in ToSet(runs) : Stays(d)}})

hydrateRuns(read, mode) ==
    LET kept == IF mode = "replace" THEN <<>> ELSE Rescued(read)
    IN  capRuns(kept \o Only(read, RunId \ Ids(kept)))

\* mutant: ids are not advanced past those of the folder's threads.
reseedNot(rs) == nextId

reseedTraceIds(rs) == Max({nextId} \cup {n + 1 : n \in LineIds(rs)})

\* normalizeInterruptedRuns: the marker is a line, but no activity.
Interrupted(rs, n) ==
    [i \in DOMAIN rs |-> IF rs[i].status # "running" THEN rs[i]
        ELSE [rs[i] EXCEPT !.status = "error", !.lines = Append(@, n + Cardinality({j \in 1 .. i - 1 : rs[j].status = "running"}))]]

HasRunning(rs) == \E i \in DOMAIN rs : rs[i].status = "running"

\* A swap ends with flushRunsSave.
Settled == IF mounting.mode = "replace" THEN runsTimer' = FALSE /\ saveRuns(runs') ELSE UNCHANGED <<runsTimer, puts>>

\* The handle is stored: hydrate from what was read, or give the folder its first .erdou.
Hydrate ==
    /\ open /\ mounting.pc = "persist"
    /\ persisted' = mounting.folder
    /\ LET read == mounting.read
           kept == IF read = None \/ mounting.mode = "replace" THEN <<>> ELSE Rescued(read)
           merged == IF read = None THEN runs ELSE hydrateRuns(read, mounting.mode)
           id == IF read = None THEN nextId ELSE reseedTraceIds(merged)
           marks == read # None /\ ~running /\ HasRunning(merged)
       IN  /\ runs' = IF marks THEN Interrupted(merged, id) ELSE merged
           /\ nextId' = IF marks THEN id + Len(merged) ELSE id
           /\ stateTimer' = (stateTimer \/ (mount # None /\ (marks \/ kept # <<>>)))
           /\ IF read = None THEN writeFolderState(mounting.folder, runs) ELSE UNCHANGED writes
           \* The turn keeps its object, in memory or not.
           /\ turn' = [turn EXCEPT !.held = @ /\ turn.run \in Ids(merged)]
    /\ mounting' = NoMount /\ swapping' = FALSE
    /\ Settled
    /\ UNCHANGED <<driven, starting, ending, titles, announce, idb, disk, mount, open, files, joined, clock, ops>>

unmount ==
    /\ open /\ ops < MaxOps /\ mount # None
    /\ mount' = None /\ persisted' = None /\ stateTimer' = FALSE /\ ops' = ops + 1
    /\ UNCHANGED <<runs, driven, starting, turn, ending, titles, nextId, runsTimer, announce, swapping, stores, mounting, open, files, joined, clock>>

----
(* The page and the other machines. *)

\* boot: load, normalise, save; then the remount of the stored handle, if its permission is still granted.
boot ==
    /\ ~open /\ open' = TRUE
    /\ LET first == Max({1} \cup {n + 1 : n \in LineIds(idb)}) IN
       IF HasRunning(idb)
       THEN runs' = Interrupted(idb, first) /\ nextId' = first + Len(idb) /\ saveRuns(runs')
       ELSE runs' = idb /\ nextId' = first /\ UNCHANGED puts
    /\ mounting' \in {NoMount} \cup {[folder |-> F, mode |-> "merge", by |-> "boot", pc |-> "load", read |-> None] : F \in {persisted} \ {None}}
    /\ UNCHANGED <<driven, starting, turn, ending, titles, runsTimer, stateTimer, announce, swapping, idb, disk, writes, mount, persisted, files, joined, clock, ops>>

\* The folder's file after the first k of the writes in flight.
After(ws, k, F) ==
    LET of == {i \in 1 .. k : ws[i].folder = F} IN IF of = {} THEN disk[F] ELSE ws[Max(of)].runs

\* What a closing page leaves: flushPendingSaves starts the pending saves, and of the writes in flight any first
\* ones are made.
Closed ==
    /\ LET allPuts == IF runsTimer THEN Append(puts, capRuns(runs)) ELSE puts
           allWrites == IF stateTimer /\ mount # None THEN Append(writes, [folder |-> mount, runs |-> capRuns(runs)]) ELSE writes
       IN  /\ \E k \in 0 .. Len(allPuts) : idb' = IF k = 0 THEN idb ELSE allPuts[k]
           /\ \E k \in 0 .. Len(allWrites) : disk' = [F \in Folder |-> After(allWrites, k, F)]
    /\ snapshot' \in {snapshot, snapshot \/ saveTimer} /\ saveTimer' = FALSE
    /\ runs' = <<>> /\ driven' = {} /\ starting' = None /\ turn' = NoTurn /\ ending' = "no" /\ titles' = {} /\ nextId' = 1
    /\ runsTimer' = FALSE /\ stateTimer' = FALSE /\ announce' = FALSE /\ swapping' = FALSE
    /\ puts' = <<>> /\ writes' = <<>> /\ mount' = None /\ mounting' = NoMount /\ open' = FALSE /\ wiping' = "no"

\* Taken not to happen: the page closes between the moment a mount is set and the stores of its handle and, after a
\* swap, of its history.
MidMount ==
    \/ mounting.pc = "persist"
    \/ puts # <<>> /\ persisted # None /\ \E rs \in {idb} \cup ToSet(puts) : \E r \in Ids(rs) : persisted \notin joined[r]

Reload ==
    /\ open /\ ops < MaxOps /\ ~MidMount
    /\ Closed /\ ops' = ops + 1
    /\ forgotten' = IF wiping = "no" THEN forgotten ELSE {}
    /\ UNCHANGED <<persisted, deleted, joined, clock>>

\* resetProject up to the deletion of the snapshot.
resetProject ==
    /\ open /\ ops < MaxOps /\ wiping = "no"
    /\ saveTimer' = FALSE /\ runsTimer' = FALSE /\ stateTimer' = FALSE
    /\ runs' = <<>> /\ turn' = [turn EXCEPT !.held = FALSE] /\ wiping' = "snapshot"
    /\ forgotten' = forgotten \cup {r \in RunId : joined[r] = {} /\ r \in Ids(runs) \cup Ids(idb)}
    /\ ops' = ops + 1
    /\ UNCHANGED <<driven, starting, ending, titles, nextId, announce, swapping, stores, session, snapshot, deleted, joined, clock>>

\* The snapshot is gone: clearRuns, whose transaction follows those in flight.
SnapshotDeleted ==
    /\ open /\ wiping = "snapshot" /\ wiping' = "runs"
    /\ snapshot' = FALSE /\ puts' = Append(puts, <<>>)
    /\ UNCHANGED <<memory, idb, disk, writes, session, saveTimer, forgotten, deleted, joined, clock, ops>>

\* The history is gone: location.reload.
Wiped ==
    /\ open /\ wiping = "runs" /\ puts = <<>> /\ ~MidMount
    /\ Closed
    /\ UNCHANGED <<persisted, forgotten, deleted, joined, clock, ops>>

\* A file.changed event: scheduleSave.
FileChanged ==
    /\ open /\ ops < MaxOps /\ ~saveTimer /\ saveTimer' = TRUE /\ ops' = ops + 1
    /\ UNCHANGED <<memory, stores, session, snapshot, wiping, forgotten, deleted, joined, clock>>

SaveTimer ==
    /\ open /\ saveTimer /\ saveTimer' = FALSE /\ snapshot' = TRUE
    /\ UNCHANGED <<memory, stores, session, wiping, forgotten, deleted, joined, clock, ops>>

\* Another machine that has the folder mounted replies to a run; it stamps ids past those of the folder's runs.
ReplyElsewhere(F, r) ==
    /\ ops < MaxOps /\ F # mount /\ disk[F] # None /\ r \in Ids(disk[F])
    /\ LET rs == disk[F]
           c == Copy(rs, r)
           id == Max({0} \cup LineIds(rs)) + 1
       IN  disk' = [disk EXCEPT ![F] = [rs EXCEPT ![At(rs, r)] = [c EXCEPT !.last = clock + 1, !.lines = Append(c.lines, id)]]]
    /\ clock' = clock + 1 /\ ops' = ops + 1
    /\ UNCHANGED <<memory, idb, puts, writes, session, files, joined>>

Next ==
    \/ Committed \/ Written \/ RunsTimer \/ StateTimer \/ Announced
    \/ StartTurn \/ appendLine \/ FlushTurn
    \/ \E s \in {"review", "done", "error"} : EndTurn(s)
    \/ \E r \in RunId : startRun(r) \/ replyToRun(r) \/ TitleArrives(r) \/ renameRun(r) \/ deleteRun(r) \/ markReviewed(r)
    \/ \E F \in Folder : Pick(F) \/ Swap(F) \/ \E r \in RunId : ReplyElsewhere(F, r)
    \/ SwapFlushed \/ SetMount \/ Hydrate \/ unmount \/ boot \/ Reload
    \/ resetProject \/ SnapshotDeleted \/ Wiped \/ FileChanged \/ SaveTimer

Spec == Init /\ [][Next]_vars

----
TypeOK ==
    /\ ToSet(runs) \cup ToSet(idb) \subseteq Thread /\ driven \cup titles \cup forgotten \cup deleted \subseteq RunId
    /\ turn \in [run : RunId \cup {None}, held : BOOLEAN] /\ starting \in RunId \cup {None}
    /\ turn.held => turn.run \in Ids(runs)
    /\ running => starting = None
    /\ ending \in {"no", "snapshot"} /\ wiping \in {"no", "snapshot", "runs"}
    /\ mounting \in Mount /\ {mount, persisted} \subseteq Folder \cup {None}
    /\ \A F \in Folder : disk[F] = None \/ ToSet(disk[F]) \subseteq Thread

\* No thread of one project reaches another's runs.json, however swaps, reloads, late turns and the stored handle
\* interleave (hydrateRuns: "no memory run may survive into it").
OneProject == \A F \in Folder : disk[F] # None => \A r \in Ids(disk[F]) : F \in joined[r]

\* A mount, a boot or a save never takes from memory a thread a turn of this session drove, nor a line of it, unless
\* the list is full; only a click, a swap, a reset or a reload does (turnRunIds).
DrivenKept ==
    [][\A r \in driven \cap Ids(runs) :
        \/ r \in Ids(runs') /\ IsPrefix(Copy(runs, r).lines, Copy(runs', r).lines)
        \/ Len(runs') = MaxRuns /\ r \notin Ids(runs')
        \/ deleteRun(r) \/ ~open' \/ wiping' = "snapshot" \/ SwapFlushed]_vars

Newest(F) == After(writes, Len(writes), F)

\* What the user and the turns did to a thread of this session is stored, being stored, or some timer or await will
\* store it, in the browser and in the mounted folder.  A generated title goes to the browser alone.
NothingForgotten ==
    open /\ wiping = "no" => \A r \in (driven \cap Ids(capRuns(runs))) \ deleted :
        LET c == Copy(runs, r)
            live == r = turn.run
            Same(rs) == /\ rs # None /\ r \in Ids(rs) /\ Copy(rs, r).last = c.last
                        /\ live \/ Copy(rs, r).status = c.status
        IN  /\ \/ runsTimer \/ ending # "no"
               \/ LET rs == IF puts = <<>> THEN idb ELSE Last(puts) IN Same(rs) /\ (c.title = "first" \/ Copy(rs, r).title = c.title)
            /\ \/ mount = None \/ mounting.pc = "persist" \/ stateTimer \/ announce \/ ending # "no" \/ live
               \/ Same(Newest(mount)) /\ (c.title = "own" => Copy(Newest(mount), r).title = "own")

\* The lines of a thread have different ids, whatever sessions and machines wrote them (reseedTraceIds).
LinesDistinct == \A i \in DOMAIN runs : IsInjective(runs[i].lines)

\* No thread that a reset deleted comes back to this browser.
ResetForgets == wiping = "no" => forgotten \cap Ids(idb) = {}
====
