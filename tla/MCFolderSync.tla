---- MODULE MCFolderSync ----
(* Two folders of different projects, each with two contents an edit can produce; one walk at a time, or two that      *)
(* overlap.                                                                                                             *)
EXTENDS FolderSync, TLC

CONSTANTS A, B, a1, a2, b1, f1

VARIABLE overlap

MCDataOf == (A :> {a1, a2}) @@ (B :> {b1})

\* Bounds: what happens beside overlapping walks, which could write for ever.
Few == IF overlap THEN clock <= 5 /\ events > 1 ELSE \A o \in Op \ {1} : ops[o] = Idle

MCInit == Init /\ overlap \in BOOLEAN

MCStep == UNCHANGED overlap /\ Few'

MCNext ==
    \/ \E x \in File : \/ mount # NoFolder /\ \E d \in DataOf[mount] \cup {NoFile} : EditWorkspace(x, d) /\ MCStep
                       \/ \E F \in Folder : (DeleteOnDisk(F, x) /\ MCStep) \/ \E d \in DataOf[F] : EditDisk(F, x, d) /\ MCStep
    \/ \E o \in Op : \/ (FireSave(o) /\ MCStep) \/ (Tick(o) /\ MCStep) \/ (StartPush(o) /\ MCStep) \/ (StartPull(o) /\ MCStep)
                     \/ (Fail(o) /\ MCStep)
                     \/ (VisitForSave(o) /\ MCStep) \/ (Probe(o) /\ MCStep) \/ (CreateHandle(o) /\ MCStep) \/ (WriteFile(o) /\ MCStep)
                     \/ (Record(o) /\ MCStep) \/ (ListForPush(o) /\ MCStep) \/ (PruneDisk(o) /\ MCStep) \/ (ListForSave(o) /\ MCStep)
                     \/ (PruneVfs(o) /\ MCStep) \/ (VisitForRead(o) /\ MCStep) \/ (Store(o) /\ MCStep) \/ (WalkEnds(o) /\ MCStep)
                     \/ (SwapClear(o) /\ MCStep) \/ (Loaded(o) /\ MCStep) \/ (Announce(o) /\ MCStep) \/ (SwapSettles(o) /\ MCStep)
                     \/ \E F \in Folder : (Swap(o, F) /\ MCStep) \/ (Mount(o, F) /\ MCStep)
    \/ (Unmount /\ MCStep)

MCSpec ==
    /\ MCInit /\ [][MCNext]_<<vars, overlap>>
    /\ WF_vars(WalkStep(1)) /\ SF_vars(FireSave(1)) /\ SF_vars(Tick(1))

----
\* Walks that do not overlap never undo an edit with the app's own write, and never give a folder contents of another
\* project (rescanFolder, swapMountedFolder).
OneWalkExact == ~overlap => PullsOnlyExternal /\ NoCrossover

\* Without overlapping walks the sides agree in the end: see Converges.
OneWalkConverges == <>[](~overlap => InSync)
====
