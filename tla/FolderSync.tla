---- MODULE FolderSync ----
(* The Studio's two-way sync of the workspace with a mounted local folder: the debounced  *)
(* auto-save, the background rescan, the explicit Push and Pull, mounting and swapping    *)
(* the folder (apps/web/src/lib/local-mount.ts and the mount half of studio.ts).  Every    *)
(* operation is a walk that awaits the disk between its steps; between two steps the user  *)
(* edits either side and other walks run, since the code takes no lock.  The tree is flat:  *)
(* directories, kind flips and skipped names (.git, .erdou, image-owned roots) are left out. *)
EXTENDS Naturals, FiniteSets

CONSTANTS
    File,           \* vfs paths
    Folder,         \* local directories the user may mount
    DataOf,         \* DataOf[F]: contents an edit of folder F's project can produce
    NoFile, NoFolder, Empty,
    Op,             \* slots for walks: how many may be in flight at once
    MaxEvents,      \* bound: edits, clicks and disk failures in a behaviour
    MaxTime         \* bound: modification times; two overlapping walks can write for ever

ASSUME FolderAssumption ==
    /\ IsFiniteSet(Folder) /\ DOMAIN DataOf = Folder
    /\ NoFolder \notin Folder
    /\ \A F \in Folder : Empty \notin DataOf[F]
    /\ MaxEvents \in Nat /\ MaxTime \in Nat

VARIABLES
    vfs,        \* the workspace: content of each file, or NoFile
    disk,       \* disk[F][f]: the version of f in folder F, or NoFile
    clock,      \* the last modification time handed out
    mtimes,     \* mountMtimes: the modification time f was last synced at, or NoTime
    mount,      \* the mounted folder or NoFolder
    swapping,   \* swappingFolder: auto-saves are suspended
    timer,      \* folderSaveTimer is armed
    ops,        \* the walks in flight
    missed,     \* ghost: workspace changes that no armed or running save will look at
    events      \* how many events of the environment are left

vars == <<vfs, disk, clock, mtimes, mount, swapping, timer, ops, missed, events>>

NoTime == 0
Data == (UNION {DataOf[F] : F \in Folder}) \cup {Empty}

\* A version of a file on disk.  by is a ghost: "ours" if the app wrote it or has read it,
\* "edit" if somebody else wrote it, "taken" if a save then recorded its time as that of the
\* file it had just closed, "left" if the app forgot it when the folder was mounted again.
Version == [data : Data, time : Nat, by : {"ours", "edit", "taken", "left"}]

ASSUME AbsenceAssumption == NoFile \notin Version

NoVersion == [data |-> Empty, time |-> NoTime, by |-> "ours"]

\* A walk: what it does (kind) on which folder, where it awaits (pc), the entries it has
\* not reached, the file in hand with what was read of it; ghost: the time at which a save
\* compared the file with the disk.
Walk == [kind : {"idle", "save", "push", "rescan", "pull", "mount", "swap"},
         pc : {"idle", "flush", "list", "prune", "walk", "probe", "create", "write", "record", "store", "announce"},
         dir : Folder \cup {NoFolder}, todo : SUBSET File, file : File \cup {NoFile}, held : Version, seen : Nat]

Idle == [kind |-> "idle", pc |-> "idle", dir |-> NoFolder, todo |-> {}, file |-> NoFile, held |-> NoVersion, seen |-> NoTime]

TypeOK ==
    /\ vfs \in [File -> Data \cup {NoFile}]
    /\ disk \in [Folder -> [File -> Version \cup {NoFile}]]
    /\ clock \in Nat
    /\ mtimes \in [File -> Nat]
    /\ mount \in Folder \cup {NoFolder}
    /\ swapping \in BOOLEAN /\ timer \in BOOLEAN
    /\ ops \in [Op -> Walk]
    /\ missed \in SUBSET File
    /\ events \in Nat

FilesIn(side) == {f \in File : side[f] # NoFile}

\* A project just mounted from one of the folders: the workspace holds its files and every
\* time is recorded.  No two folders have files of the same modification time.
FirstTimes == CHOOSE t \in [Folder -> 1 .. Cardinality(Folder)] :
                \A F, G \in Folder : F # G => t[F] # t[G]

Init ==
    /\ mount \in Folder
    /\ \E first \in [Folder -> Data], present \in [Folder -> SUBSET File] :
        /\ \A F \in Folder : first[F] \in DataOf[F]
        /\ disk = [F \in Folder |-> [f \in File |->
                    IF f \in present[F] THEN [data |-> first[F], time |-> FirstTimes[F], by |-> "ours"]
                    ELSE NoFile]]
        /\ vfs = [f \in File |-> IF f \in present[mount] THEN first[mount] ELSE NoFile]
        /\ mtimes = [f \in File |-> IF f \in present[mount] THEN FirstTimes[mount] ELSE NoTime]
    /\ clock = Cardinality(Folder)
    /\ swapping = FALSE /\ timer = FALSE
    /\ ops = [o \in Op |-> Idle]
    /\ missed = {}
    /\ events = MaxEvents

----
\* The environment: edits on both sides.

Event == events > 0 /\ events' = events - 1

\* A file.changed event of the workspace: it arms the auto-save unless it is suspended.
SavesSuspended == swapping \/ mount = NoFolder
FileChanged == timer' = (timer \/ ~SavesSuspended)

\* The user or the agent writes or deletes a workspace file.
EditWorkspace(f, content) ==
    /\ Event
    /\ mount # NoFolder
    /\ vfs[f] # content
    /\ vfs' = [vfs EXCEPT ![f] = content]
    /\ FileChanged
    /\ missed' = IF SavesSuspended THEN missed \cup {f} ELSE missed
    /\ UNCHANGED <<disk, clock, mtimes, mount, swapping, ops>>

\* Another program writes a file of a folder, or deletes it.
EditDisk(F, f, content) ==
    /\ Event
    /\ clock < MaxTime /\ clock' = clock + 1
    /\ disk' = [disk EXCEPT ![F][f] = [data |-> content, time |-> clock + 1, by |-> "edit"]]
    /\ UNCHANGED <<vfs, mtimes, mount, swapping, timer, ops, missed>>

DeleteOnDisk(F, f) ==
    /\ Event
    /\ disk[F][f] # NoFile
    /\ disk' = [disk EXCEPT ![F][f] = NoFile]
    /\ UNCHANGED <<vfs, clock, mtimes, mount, swapping, timer, ops, missed>>

----
\* Starting a walk.

Begins(o, kind, pc, dir, todo) ==
    /\ ops[o] = Idle
    /\ ops' = [ops EXCEPT ![o] = [Idle EXCEPT !.kind = kind, !.pc = pc, !.dir = dir, !.todo = todo]]

\* The debounce fires saveToFolder, a no-op when nothing is mounted any more.
FireSave(o) ==
    /\ timer
    /\ timer' = FALSE
    /\ missed' = IF mount = NoFolder THEN missed ELSE {}
    /\ IF mount = NoFolder THEN ops[o] = Idle /\ UNCHANGED ops
       ELSE Begins(o, "save", "walk", mount, FilesIn(vfs))
    /\ UNCHANGED <<vfs, disk, clock, mtimes, mount, swapping, events>>

\* The watcher's tick: every 5 s and on focus, whatever else is in flight.
Tick(o) ==
    /\ mount # NoFolder
    /\ Begins(o, "rescan", "walk", mount, File)
    /\ UNCHANGED <<vfs, disk, clock, mtimes, mount, swapping, timer, missed, events>>

\* Push refuses an empty workspace over a folder with files; Pull the reverse.
StartPush(o) ==
    /\ Event
    /\ mount # NoFolder
    /\ FilesIn(vfs) = {} => FilesIn(disk[mount]) = {}
    /\ Begins(o, "push", "list", mount, {})
    /\ UNCHANGED <<vfs, disk, clock, mtimes, mount, swapping, timer, missed>>

StartPull(o) ==
    /\ Event
    /\ mount # NoFolder
    /\ FilesIn(disk[mount]) = {} => FilesIn(vfs) = {}
    /\ Begins(o, "pull", "list", mount, {})
    /\ UNCHANGED <<vfs, disk, clock, mtimes, mount, swapping, timer, missed>>

----
\* Steps of a walk.

Goes(o, pc) == ops' = [ops EXCEPT ![o].pc = pc]
NextEntry(o) ==
    ops' = [ops EXCEPT ![o].pc = "walk", ![o].file = NoFile, ![o].held = NoVersion, ![o].seen = NoTime]

Compared(o, pc) == ops' = [ops EXCEPT ![o].pc = pc, ![o].seen = clock]
Ends(o) == ops' = [ops EXCEPT ![o] = Idle]

\* saveVfsToFolder reaches an entry of its listing: the workspace bytes and the recorded
\* time are read together, and readFile throws if the file has gone since.
VisitForSave(o) ==
    /\ ops[o].pc = "walk" /\ ops[o].kind \in {"save", "push"}
    /\ \E f \in ops[o].todo :
        IF vfs[f] = NoFile THEN Ends(o) /\ missed' = File
        ELSE /\ ops' = [ops EXCEPT ![o].file = f, ![o].todo = @ \ {f},
                                   ![o].held = [data |-> vfs[f], time |-> mtimes[f], by |-> "ours"],
                                   ![o].pc = IF mtimes[f] = NoTime THEN "create" ELSE "probe"]
             /\ UNCHANGED missed
    /\ UNCHANGED <<vfs, disk, clock, mtimes, mount, swapping, timer, events>>

\* The conflict check of a file that has a recorded time.
\* mutant: the recorded time is not compared.
DiskMovedNever(version, held) == FALSE

DiskMoved(version, held) == version.time # held.time
Probe(o) ==
    LET w == ops[o]
        version == disk[w.dir][w.file]
        Adopts == DiskMoved(version, w.held) /\ version.data = w.held.data
    IN
    /\ w.pc = "probe"
    /\ \/ version = NoFile /\ Compared(o, "create") /\ UNCHANGED <<mtimes, disk>>
       \/ /\ version # NoFile /\ ~DiskMoved(version, w.held) /\ version.data # w.held.data
          /\ Compared(o, "write") /\ UNCHANGED <<mtimes, disk>>
       \/ /\ version # NoFile /\ (DiskMoved(version, w.held) \/ version.data = w.held.data)
          /\ NextEntry(o)
          /\ IF Adopts THEN /\ mtimes' = [mtimes EXCEPT ![w.file] = version.time]
                            /\ disk' = [disk EXCEPT ![w.dir][w.file].by = "ours"]
             ELSE UNCHANGED <<mtimes, disk>>
    /\ UNCHANGED <<vfs, clock, mount, swapping, timer, missed, events>>

WriteDisk(F, f, content) ==
    /\ clock < MaxTime /\ clock' = clock + 1
    /\ disk' = [disk EXCEPT ![F][f] = [data |-> content, time |-> clock + 1, by |-> "ours"]]

\* getFileHandle({ create: true }): a missing file appears, empty.
CreateHandle(o) ==
    /\ ops[o].pc = "create"
    /\ IF disk[ops[o].dir][ops[o].file] = NoFile THEN WriteDisk(ops[o].dir, ops[o].file, Empty)
       ELSE UNCHANGED <<disk, clock>>
    /\ Goes(o, "write")
    /\ UNCHANGED <<vfs, mtimes, mount, swapping, timer, missed, events>>

\* createWritable, write, close: the file is replaced when close resolves.
WriteFile(o) ==
    /\ ops[o].pc = "write"
    /\ WriteDisk(ops[o].dir, ops[o].file, ops[o].held.data)
    /\ Goes(o, "record")
    /\ UNCHANGED <<vfs, mtimes, mount, swapping, timer, missed, events>>

\* mutant: the time of the file just written is not recorded.
RecordNothing(o) ==
    /\ ops[o].pc = "record"
    /\ NextEntry(o)
    /\ UNCHANGED <<vfs, disk, clock, mtimes, mount, swapping, timer, missed, events>>

\* The time of whatever the file is now becomes the recorded one, also if somebody has
\* written it since the close; a file that has gone makes getFile reject, which ends the save.
Record(o) ==
    LET w == ops[o]
        version == disk[w.dir][w.file]
    IN
    /\ w.pc = "record"
    /\ IF version = NoFile THEN Ends(o) /\ missed' = File /\ UNCHANGED <<mtimes, disk>>
       ELSE /\ mtimes' = [mtimes EXCEPT ![w.file] = version.time]
            /\ disk' = [disk EXCEPT ![w.dir][w.file].by = IF @ = "edit" THEN "taken" ELSE @]
            /\ NextEntry(o) /\ UNCHANGED missed
    /\ UNCHANGED <<vfs, clock, mount, swapping, timer, events>>

\* pruneDiskOnly lists the disk, then the workspace, and removes one by one the entries
\* only the disk has; removing one that has gone rejects.  The save's listing follows.
ListForPush(o) ==
    /\ ops[o].kind = "push" /\ ops[o].pc = "list"
    /\ ops' = [ops EXCEPT ![o].pc = "prune", ![o].todo = FilesIn(disk[ops[o].dir]) \ FilesIn(vfs)]
    /\ UNCHANGED <<vfs, disk, clock, mtimes, mount, swapping, timer, missed, events>>

PruneDisk(o) ==
    /\ ops[o].pc = "prune"
    /\ \E f \in ops[o].todo :
        IF disk[ops[o].dir][f] = NoFile THEN Ends(o) /\ missed' = File /\ UNCHANGED <<disk, mtimes>>
        ELSE /\ disk' = [disk EXCEPT ![ops[o].dir][f] = NoFile]
             /\ mtimes' = [mtimes EXCEPT ![f] = NoTime]
             /\ ops' = [ops EXCEPT ![o].todo = @ \ {f}]
             /\ UNCHANGED missed
    /\ UNCHANGED <<vfs, clock, mount, swapping, timer, events>>

ListForSave(o) ==
    /\ ops[o].pc = "prune" /\ ops[o].todo = {}
    /\ ops' = [ops EXCEPT ![o].pc = "walk", ![o].todo = FilesIn(vfs)]
    /\ UNCHANGED <<vfs, disk, clock, mtimes, mount, swapping, timer, missed, events>>

\* pruneVfsOnly: after the disk listing the removals run without an await.
PruneVfs(o) ==
    LET gone == FilesIn(vfs) \ FilesIn(disk[ops[o].dir]) IN
    /\ ops[o].kind = "pull" /\ ops[o].pc = "list"
    /\ vfs' = [f \in File |-> IF f \in gone THEN NoFile ELSE vfs[f]]
    /\ mtimes' = [f \in File |-> IF f \in gone THEN NoTime ELSE mtimes[f]]
    /\ timer' = (timer \/ (gone # {} /\ ~SavesSuspended))
    /\ ops' = [ops EXCEPT ![o].pc = "walk", ![o].todo = File]
    /\ UNCHANGED <<disk, clock, mount, swapping, missed, events>>

\* mutant: only a time older than the recorded one counts as a change.
WantedOlder(kind, f, version) ==
    version # NoFile /\ (kind = "rescan" => version.time < mtimes[f])

\* rescanFolder and loadFolderIntoVfs reach a disk entry: a rescan takes only a file whose
\* time is not the recorded one, a load takes every file.
Wanted(kind, f, version) ==
    version # NoFile /\ (kind = "rescan" => mtimes[f] # version.time)

VisitForRead(o) ==
    LET w == ops[o] IN
    /\ w.pc = "walk" /\ w.kind \in {"rescan", "pull", "mount", "swap"}
    /\ \E f \in w.todo :
        LET version == disk[w.dir][f] IN
        ops' = IF Wanted(w.kind, f, version)
               THEN [ops EXCEPT ![o].file = f, ![o].todo = @ \ {f}, ![o].held = version, ![o].pc = "store"]
               ELSE [ops EXCEPT ![o].todo = @ \ {f}]
    /\ UNCHANGED <<vfs, disk, clock, mtimes, mount, swapping, timer, missed, events>>

\* The bytes have arrived: they replace the workspace's and their time is recorded.
Store(o) ==
    LET w == ops[o] IN
    /\ w.pc = "store"
    /\ vfs' = [vfs EXCEPT ![w.file] = w.held.data]
    /\ mtimes' = [mtimes EXCEPT ![w.file] = w.held.time]
    /\ disk' = IF disk[w.dir][w.file] = w.held THEN [disk EXCEPT ![w.dir][w.file].by = "ours"] ELSE disk
    /\ FileChanged
    /\ NextEntry(o)
    /\ UNCHANGED <<clock, mount, swapping, missed, events>>

WalkEnds(o) ==
    /\ ops[o].pc = "walk" /\ ops[o].todo = {} /\ ops[o].kind \in {"save", "push", "rescan", "pull"}
    /\ Ends(o)
    /\ UNCHANGED <<vfs, disk, clock, mtimes, mount, swapping, timer, missed, events>>

----
\* Mounting.

ClearWorkspace ==
    /\ vfs' = [f \in File |-> NoFile]
    /\ mtimes' = [f \in File |-> NoTime]
    /\ missed' = {}

\* The picker and the Unmount button wait for the mount they started.
NoMountInFlight == \A o \in Op : ops[o].kind \notin {"mount", "swap"}

\* swapMountedFolder: the pending save is dropped and saves are suspended while the old
\* project's session state is flushed; then the workspace is emptied and unmounted.
Swap(o, F) ==
    /\ Event
    /\ mount # NoFolder /\ F # mount /\ NoMountInFlight
    /\ swapping' = TRUE /\ timer' = FALSE
    /\ missed' = IF timer THEN File ELSE missed     \* an aborted swap does not re-arm it
    /\ Begins(o, "swap", "flush", F, {})
    /\ UNCHANGED <<vfs, disk, clock, mtimes, mount>>

SwapClear(o) ==
    /\ ops[o].pc = "flush"
    /\ mount' = NoFolder
    /\ ClearWorkspace
    /\ ops' = [ops EXCEPT ![o].pc = "walk", ![o].todo = File]
    /\ UNCHANGED <<disk, clock, swapping, timer, events>>

\* The versions of F that the app had read or written are forgotten with their times.
Forgotten(F) ==
    [disk EXCEPT ![F] = [f \in File |->
        IF disk[F][f] = NoFile THEN NoFile ELSE [disk[F][f] EXCEPT !.by = IF @ = "ours" THEN "left" ELSE @]]]

\* mountFolderWith when nothing is mounted, or when F is and is picked again: a workspace
\* that holds a project is cleared first; a folder that was mounted stays so meanwhile.
Mount(o, F) ==
    /\ Event
    /\ mount \in {NoFolder, F} /\ NoMountInFlight
    /\ Begins(o, "mount", "walk", F, File)
    /\ IF FilesIn(vfs) = {} THEN UNCHANGED <<vfs, disk, mtimes, missed, swapping, timer>>
       ELSE ClearWorkspace /\ disk' = Forgotten(F) /\ swapping' = TRUE /\ timer' = FALSE
    /\ UNCHANGED <<clock, mount>>

\* The folder is loaded: a plain mount resumes saves, then the mount is announced.
Loaded(o) ==
    /\ ops[o].pc = "walk" /\ ops[o].todo = {} /\ ops[o].kind \in {"mount", "swap"}
    /\ swapping' = (swapping /\ ops[o].kind = "swap")
    /\ Goes(o, "announce")
    /\ UNCHANGED <<vfs, disk, clock, mtimes, mount, timer, missed, events>>

Announce(o) ==
    /\ ops[o].pc = "announce" /\ (ops[o].kind = "swap" => mount # ops[o].dir)
    /\ mount' = ops[o].dir
    /\ IF ops[o].kind = "swap" THEN UNCHANGED ops ELSE Ends(o)
    /\ UNCHANGED <<vfs, disk, clock, mtimes, swapping, timer, missed, events>>

\* A swap resumes saves only after the handle and the run history are persisted.
SwapSettles(o) ==
    /\ ops[o].pc = "announce" /\ ops[o].kind = "swap" /\ mount = ops[o].dir
    /\ swapping' = FALSE
    /\ Ends(o)
    /\ UNCHANGED <<vfs, disk, clock, mtimes, mount, timer, missed, events>>

Unmount ==
    /\ Event
    /\ mount # NoFolder /\ NoMountInFlight
    /\ mount' = NoFolder
    /\ UNCHANGED <<vfs, disk, clock, mtimes, swapping, timer, ops, missed>>

\* The disk rejects a call: the walk ends where it stands, a swap or mount lifts its
\* suspension.  The time of a file just closed can be read as long as the file is there.
Fail(o) ==
    /\ Event
    /\ ops[o].pc \in {"flush", "list", "prune", "walk", "probe", "create", "write"}
    /\ Ends(o)
    /\ missed' = IF ops[o].kind \in {"save", "push"} THEN File ELSE missed
    /\ swapping' = (swapping /\ ops[o].kind \notin {"mount", "swap"})
    /\ UNCHANGED <<vfs, disk, clock, mtimes, mount, timer>>

----
WalkStep(o) ==
    \/ VisitForSave(o) \/ Probe(o) \/ CreateHandle(o) \/ WriteFile(o) \/ Record(o)
    \/ ListForPush(o) \/ PruneDisk(o) \/ ListForSave(o) \/ PruneVfs(o)
    \/ VisitForRead(o) \/ Store(o) \/ WalkEnds(o)
    \/ SwapClear(o) \/ Loaded(o) \/ Announce(o) \/ SwapSettles(o)

Next ==
    \/ \E f \in File : \/ mount # NoFolder /\ \E d \in DataOf[mount] \cup {NoFile} : EditWorkspace(f, d)
                       \/ \E F \in Folder : DeleteOnDisk(F, f) \/ \E d \in DataOf[F] : EditDisk(F, f, d)
    \/ \E o \in Op : \/ FireSave(o) \/ Tick(o) \/ StartPush(o) \/ StartPull(o) \/ Fail(o) \/ WalkStep(o)
                     \/ \E F \in Folder : Swap(o, F) \/ Mount(o, F)
    \/ Unmount

\* Timers fire and the disk answers; edits, clicks and failures need not happen.  The timers
\* need strong fairness only because a walk needs a slot of Op here, which the code does not.
Fairness ==
    \A o \in Op : /\ WF_vars(WalkStep(o))
                  /\ SF_vars(FireSave(o))
                  /\ SF_vars(Tick(o))

Spec == Init /\ [][Next]_vars /\ Fairness

----
\* Properties.

\* The save o is about to replace a version that somebody else wrote before o compared the
\* file with the disk; unseen are the marks of the versions that count.
Overwrites(o, unseen) ==
    LET version == disk[ops[o].dir][ops[o].file] IN
    /\ ops[o].pc = "write" /\ ops[o].held.time # NoTime
    /\ version # NoFile /\ version.by \in unseen /\ version.time <= ops[o].seen

\* What the recorded times are for (saveVfsToFolder's conflict check): a save of a file that
\* has a recorded time never replaces what somebody else wrote before its comparison.  One
\* loss is known and not denied here: an edit that lands between the close of a save and its
\* record of the time is recorded as synced, and a later save may replace it (EditsKept).
RecordedEditsKept == \A o \in Op : ~Overwrites(o, {"edit"})

\* The same without the known loss, as saveVfsToFolder's comment has it: "never clobber an
\* external edit with stale VFS bytes".  The code does not keep it.
EditsKept == \A o \in Op : ~Overwrites(o, {"edit", "taken"})

\* A rescan brings in what others wrote, never the app's own writes, which would undo a
\* newer edit in the workspace; only the empty file a failed save leaves behind slips in,
\* and what a failed load of a folder mounted again has not read back.
PullsOnlyExternal ==
    \A o \in Op : ops[o].kind = "rescan" /\ ops[o].pc = "store"
        => ops[o].held.by # "ours" \/ ops[o].held.data = Empty

\* A folder only ever holds contents of its own project: a swap mixes neither disk.
NoCrossover ==
    \A F \in Folder : \A f \in FilesIn(disk[F]) : disk[F][f].data \in DataOf[F] \cup {Empty}

\* Once edits and failures stop, a file that both sides have is the same on both, unless
\* a save recorded the edit as its own write or no save has looked at the change since.
InSync ==
    mount # NoFolder =>
        \A f \in FilesIn(vfs) \cap FilesIn(disk[mount]) :
            vfs[f] = disk[mount][f].data \/ disk[mount][f].by = "taken" \/ f \in missed
Converges == <>[]InSync
====
