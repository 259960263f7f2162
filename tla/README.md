# TLA+ models of Erdou

Erdou is an in-browser coding agent: a Studio (the web app) in which a model works on a workspace held by a
*kernel*, either a POSIX-like runtime written in TypeScript or a Linux guest in an x86 emulator. This
directory holds TLA+ specifications of the parts of it in which order matters, the TLC configurations that
check them on small instances and TLAPS proofs of the properties that hold for every instance.

Paths below are relative to the repository. `PROJECT.json` lists the runs, for every definition the lines it
models, the hazards, the findings and the theorems.

    tlc -workers 2 -config MCShell.cfg MCShell      # one run
    tlapm ShellProofs.tla                           # the proofs of one module

## 1. The system

### Components

| Component | State it keeps | Operations |
|---|---|---|
| Process table (`runtime-browser/src/process/process-table.ts`) | pid counter, records, queue of settled pids | spawn, adopt, finish, kill, wait, list |
| Shell interpreter (`shell/interpreter.ts`, `session.ts`) | a runner per command line, the session's cwd and environment, background jobs | exec, session exec, `&`, `jobs`, pipelines, redirections, `$( )`, `cd`, `export` |
| Byte streams and pipes (`core/byte-stream.ts`, `process/pipe.ts`) | queued chunks, ended flag, one waiting reader | write, end, read, pump |
| Virtual filesystem (`vfs/*.ts`) | inode tree, symlinks, watchers | read, write, append, mkdir, rm, rename, copy, watch, replaceRoot |
| Ports and `serve` (`port/registry.ts`, `builtins/serve.ts`) | listeners by port, exposures | listen, dispatch, expose, close |
| Snapshots (`snapshot/*.ts`) | serialised trees in memory or IndexedDB | snapshot, restore |
| Static server (`builtins/serve.ts`) | a root and its options | answer a request from the tree |
| Text builtins (awk, sed, grep and others) | none between calls | one pure function each |
| VM guest channel (`runtime-vm/src/guestd-client.ts`, `guest/guestd.py`) | pending requests by id, subprocesses, PTYs, known ports | run, spawn, kill, ps, pty, port events |
| VM runtime (`vm-runtime.ts`) | boot state, process records keyed by guest pid, open ports, tunnels | boot, shutdown, exec, spawn, kill, wait, dispatch, WebSocket upgrade |
| VM filesystem bridge (`fs-bridge.ts`, `sync-fs.ts`) | the 9p tree the guest and the page share, pending watch events | file operations, event coalescing, snapshot |
| VM host and PTY (`v86-host.ts`, `pty.ts`) | console queue, boot latch; a shell on a port | start, write, destroy; open, input, resize, dispose |
| Python and pip (`lang-python`) | one cached Pyodide, a queue of executions, a served app, streams | run a script, install packages, serve a WSGI app |
| WASI loader (`runtime-wasi`) | none between calls | run a WASI module |
| Agent loop (`agent-core/src/agent.ts`) | the transcript, the abort signal | ask the model, gate and run tool calls, finish |
| Agent tools (`agent-tools`) | none | one runtime call each; the environment switch |
| Model gateway (`model-gateway`) | the stream being decoded | chat with a provider over SSE |
| Studio session (`apps/web/src/lib/studio.ts`) | `running`, `stopping`, `runAbort`, `pendingApproval`, kernel generation, the current run, tracked server | start, reply, stop, approve, switch environment, serve, reset |
| Run history (`runs-store.ts`, `folder-state.ts`, `studio.ts`) | the runs, saved per project in IndexedDB or `.erdou` of the folder | save, hydrate, merge, delete, normalise interrupted runs |
| Review (`studio.ts`, `snapshot-read.ts`) | a snapshot, the changed paths of a turn, the changes of a thread | collect, diff, merge over turns, revert |
| Folder sync (`local-mount.ts`, the mount half of `studio.ts`) | mounted handle, modification times, auto-save timer, suspension flag | auto-save, rescan, Push, Pull, mount, swap, unmount |
| Sub-agent delegation (`delegate.ts`) | up to three scratch runtimes, their changes | fan out, merge in order, reject on conflict |
| Preview (`preview-bridge.ts`, `public/preview-sw.js`, `preview-tools.ts`) | owner tab per service-worker client, message channels, tunnels | aim, dispatch a request, tunnel a WebSocket, re-aim |
| Preview panel (`PreviewPanel.tsx`, `preview-select.ts`, `run-serve.ts`) | ports in view, chips, requests of the agent | run, stop, select, read the frame |
| Terminal (`shell-terminal.ts`, `pty-terminal-wiring.ts`) | edit line, type-ahead, running command; a pty session | key input, run, interrupt |
| Wire codecs (`ws-codec.ts`, `http-codec.ts`, `guestd-protocol.ts`, `sse.ts`) | the undecoded rest of a stream | push a piece, take what is complete |
| Bundler, git, model proxy, UI components | none that outlives a call, or presentation | build, clone and commit, relay, render |

### How they interact

A command of the agent or of the terminal reaches the kernel through `Runtime.exec` or a shell session. The
shell starts the line's processes in the process table, which hands them byte streams that pumps and drains
empty. Programs write the virtual filesystem, whose `file.changed` events drive the Studio: the file panel,
the run's diff and the folder's auto-save. A server program opens a port; `port.opened` points the preview at
it. On the VM kernel the same contract is kept over a byte channel to a daemon in the guest.

Everything in the page runs on one JavaScript thread. A callback is atomic, so the processes of these models
are chains of awaits: what one has read before an await may be stale after it. Other real concurrency is with
the guest (its daemon is threaded), the service worker, other tabs and other programs that write the mounted
folder.

### What is hard, and what makes each part correct

* **Process table and shell.** A kill may land while a line is still expanding words, starting stages or
  draining output. Correct: nothing runs on after its line is over, no output is lost or split between
  readers, every line ends, a record settles once and stays findable while it runs. Bounded retention of
  settled records must not evict a live one.
* **Folder sync.** Debounced saves, rescans, pushes, pulls and mounts all await the disk, take no lock and
  share one map of modification times, while another program writes the folder. Correct: nobody's edit is
  silently replaced, the app's own writes are not pulled back over newer ones, one project's files never reach
  another's folder, both sides agree once edits stop.
* **Studio session.** The user may start, stop, approve, switch kernels or swap folders while a turn awaits
  the model. Correct: one turn at a time, an approval that is waited for can be given, a stop always ends the
  turn, a switch never happens under a turn and never leaves two kernels running.
* **Guest channel and VM runtime.** Frames of several commands interleave with exits, port events and a
  shutdown. Correct: every request settles once, with all output before the exit; nothing waits on a disposed
  channel; a pid the guest reuses does not disturb the record of its former owner.
* **Run history.** Loading merges with runs made meanwhile; a reset or a mount races saves. Correct: no run is
  lost or attributed to the wrong project, and ids stay unique.
* **Delegation.** Sub-agents work on copies. Correct: the merge brings in all the work of each accepted child
  and nothing of the others, and no file of two.
* **Preview.** Two tabs share a service worker that restarts and is updated; requests, tunnels and answers
  race reloads and kernel switches. Correct: a request is answered by the page it was made for, cookies stay
  with their kernel, socket messages keep their order.
* **Panel and preview tools.** Ports open and close while the agent asks for one and the user for another.
  Correct: what was asked for last is in view, and a tool's report of it is true.
* **Terminals.** Consoles are few, a mount may go while its pty opens, lines wrap. Correct: ports are given
  back, no key is lost or overtaken, the screen shows the line.
* **Files.** The guest renames directories whose changes are not announced yet; links lead nowhere; snapshots
  meet what is in the way. Correct: both kernels answer alike, events lead to the workspace, a snapshot put
  back is the workspace it was taken of.
* **Review.** Turns undo each other, directories move whole, folders pull. Correct: the diff is the agent's, a
  revert touches one file.
* **Python.** Two copies of the workspace, one standard output. Correct: removals reach the other side, lines
  reach their own run.
* **Transcript.** Stops, denials and a switch of the provider leave marks. Correct: each call is answered
  once, in its place.

## 2. Modules

| Module | Models | Kind |
|---|---|---|
| `ProcessTable` | the process table: pids, records, retention | component |
| `Shell` | command lines: lists, pipelines, bodies, pumps, drains, kills | extends `ProcessTable` |
| `LineContract` | what a line promises whoever started it | abstract specification |
| `ShellSyntax`, `ShellLanguage` | tokenizer and parser; expansion, globbing and evaluation, against POSIX | algorithm, checked against a reference |
| `FolderSync` | auto-save, rescan, Push, Pull, mount, swap, unmount | component |
| `StudioSession` | turns of the agent, approvals, Stop, kernel switches, tracked servers, mounts meanwhile | component (Studio, agent loop, preview tracking) |
| `Delegate` | one call of the agent's delegate tool | component |
| `RunHistory` | the threads in memory and their two stores | component |
| `AgentThread` | the transcript and the requests made of it for either provider | component |
| `GuestProcesses` | boot, exec, spawn, kill, ps and shutdown of a VM kernel with the guest's daemon | component (runtime, client, guestd) |
| `GuestNetwork` | HTTP requests, streamed answers and WebSockets into the guest | component |
| `WireCodecs` | WebSocket frames, chunked bodies, guestd's frames, server-sent events | algorithm, on every cut of a wire |
| `Preview` | service worker, bridges, cookies, tunnels, the handshake of a page with the worker | component |
| `PreviewPanel` | the panel's selection, Run and open_preview, the ports of both kernels, the preview tools | component |
| `LineDiscipline` | the browser terminal's line editor on a screen that wraps | component |
| `PtyTerminal` | the VM terminal: pty sessions on the guest's consoles | component |
| `TerminalPanel` | either terminal, by the generation of the kernel | composes the two |
| `Trees` | the nodes of a tree and what is beneath a path (`inode.ts`) | operators |
| `Vfs` | a tree with links and every call that changes it | over `Trees` |
| `Fs9pBridge` | the tree that the guest and the page share, with its index and pending changes | over `Vfs` |
| `Files` | the files of both kernels, and what listeners learn of them | composes `Vfs` and `Fs9pBridge` |
| `StaticServer` | `erdou serve` | over `Files` |
| `RunChanges` | Review: the collector, the diff, the merge over turns, revert | over `Vfs` |
| `PythonFiles`, `PythonRuntime` | the mirrored workspace; the queue of executions, served WSGI apps, pip | over `Trees` |
| `MC*` | the instances of the runs | model checking |
| `*Proofs` | theorems and their lemmas | proofs |

Callbacks are atomic and awaits are not, so the actions of every module are the stretches of code between two
awaits. A module that speaks of two parties has a queue for each channel between them.

### ProcessTable and Shell

`nextPid`, `procs` and `settledPids` are the private fields of `ProcessTable`; `state`, `exitCode` and
`stdoutOpen` are those of its records, kept for evicted ones too because callers hold the record. `TableStep`
is one callback: it allocates pids, settles processes and reaps (`reapSettled`).

In `Shell` each line has a runner whose `pc` names the await it is suspended at: `list`, `expand`, `sub`
(waiting for a command substitution), `launch`, `wait`, `ended` (an `exec` whose exit is adopted one callback
later). A process has a `body` (the program's function), a `stdoutQ` and, in a pipeline, a `stdinQ` that a
pump fills. Nothing cancels the body of a killed process: it runs on until it writes to its ended stream or
returns, and its own `finish` no longer counts. Kills by pid reach single processes (`KillProcess`) and
composites (`KillLine`, with the cancellation flag of `launchBackground` and `exec`).

Abstractions: a chunk is its ordinal; a word's expansion is one await with at most one substitution; programs
are readers (`cat`), producers and hangers; stderr ends with stdout and is left out; the `jobs`, `cd`,
`export` builtins start no process. `Quiet` lets a system that is finished, or waits for a hanging program,
stand still.

### ShellSyntax and ShellLanguage

`tokenize` and `parse` read a line, a sequence of characters, as functions of an index; a refusal is one
value. Expansion, globbing and evaluation work on a world of files, variables and the last status, and are
compared with definitions of POSIX quoting, matching and fd tables that share nothing with them. Programs are
functions of their arguments and input; stages run in order; links are left out, as is the interleaving of
processes, which is `Shell`'s, and so are jobs: no line is entered that ends in `&`, in a substitution either.
What the code does and the comparison knows of: `< f > f` reads before it truncates; `> a 2> a` appends both
where two offsets would overwrite; a failed spawn or redirect aborts the whole list; a double quote nested in
`"$(…)"` ends early. `expand.ts:33` puts the directory into the pattern unescaped; patterns are tried from `/`
only, where that makes no difference.

### FolderSync

`vfs` and `disk[F]` map files to contents; a version on disk also has its modification time. `mtimes` is
`mountMtimes`, `timer` the armed `folderSaveTimer`, `swapping` is `swappingFolder`. A walk in flight is a slot
of `ops`: its kind, the folder handle it captured, the entries it still has to visit and what it has read of
the file in hand. History only are `seen`, the time at which a save compared its file, `missed`, the changes no
save will look at, and the mark `by` of a version on disk: written or read by the app ("ours"), written by
somebody else ("edit"), so written but recorded by a save as its own ("taken"), or the app's and forgotten with
its time as the mounted folder was picked again ("left").

Assumed of the outside: two folders have no file of the same modification time; a file that changed since
`getFile` is not readable (the browser rejects it); the mount and swap buttons wait for the one in progress.
Left out: directories and kind flips, skipped and image-owned names, the conflict log and the history in
`.erdou`, reloads of the page, edits of an unmounted workspace.

### StudioSession

`running`, `stopping`, `pendingApproval`, the kernel generation and the tracked server are the fields of
`Studio`. A turn is a thread with a program counter: the setup of `runAgentTurn`, then the checkpoints of
`CodingAgent.run` (ask the model, gate and run a tool, finish). The model's answers, the tools' results and
the user's clicks are free. A kernel switch is one record that goes through resolve, boot, cancel, copy,
clean-up, swap and retirement, for the user's selector and for the agent's tool alike; the agent's waits for
events to settle and may fail. `serve` calls capture a kernel and settle early, late or never.

The panel has one `serve` call and the mount button one mount in progress. Tools return. Two ghosts mark what
the code gives up on: `leaked`, a guest booted beside an active one whose workspace copy failed, and `lost`, a
server whose pid was not known when its call settled.

### GuestProcesses

Three parties: the page (`VmRuntime`, its records and `GuestdClient`), two FIFO frame channels, and `guestd`
with its frame loop and, for each command, a thread that starts the process and two that pump its pipes.
`call` holds what the page knows of a command, `guest` what is so in the guest; a request of `ps` is two steps
there because `/proc` is read before the reply is sent. A descendant (`child`) may keep a pipe open past the
death of the process. A frame is whole and in order: cuts and noise are `WireCodecs`', consoles
`PtyTerminal`'s; pids are left out.

### GuestNetwork and WireCodecs

A response is a count of pieces: two of the head, the body's and a terminator. `req` is the promise of
`dispatch` with its two timers, `queue` the `byteQueue` of a streamed answer with its consumer and its place
in `sseStreams`, `ws` an upgrade and the `GuestWs` it becomes. The TCP stack of the emulator is not in this
repository: segments have any size, the close event may never come, data may follow the page's close, and
after a shutdown nothing comes. A shutdown takes effect on the guest in the step that empties the sets.

In `WireCodecs` a wire is a sequence of items as their peer means them, with their bytes; a step pushes the
next one to three bytes, or all the rest, into a decoder, and the properties compare what came out with the
items. Text is ASCII and one character of two bytes; noise is printable. Known of the code: a violation in a
push drops what the same push had completed before it; `dechunk` truncates where `ChunkedDecoder` throws;
`"\n\r\n"` with mixed ends is no event boundary. Left out: SHA-1, masking, the headers of the handshake,
header lines.

### Delegate

A tree is a function from paths to what is there, a file being who wrote it. `base` is the one snapshot of the
call, `scratch` the copies; each file operation of a child is the one of `vfs.ts`, and `touched` gets the
paths of its events. `Captured` is `computeChildChanges`. The merge has a step per await of `applyChanges`:
`job` holds what is left to delete and write, `turn` the place in the array, and `Edit` is what the terminal
or a rescan writes in between. The order among files that are not above each other is left open. Left out: the
children's turns with the model (they end well, or not), links that resolve, edits of others to directories.

### RunHistory and AgentThread

`RunHistory` has the threads in memory (`runs`), two debounce timers, transactions and writes in flight, and the
two stores: IndexedDB and each folder's `runs.json`. Mounts, swaps, boot, reload and reset have a step per
await, turns and titles land in between, and another machine replies through a shared folder. What a thread says
is the ids of its lines. `joined`, a ghost, has for each thread the folders the user has had it mounted with,
and `MaxOps` bounds clicks, lines of a turn, reloads and replies elsewhere. Assumed: writes of one folder end in
order, a boot is one step, the ends of two turns do not overlap, the page does not close between a mount and the
stores that go with it (`MidMount`). Known of the code: ids of runs may be equal after a merge of two machines;
a run in the first await of `startRun` is marked interrupted by a hydration; a deleted thread can come back
through a mount in flight; a generated title is stored in the browser only.

`AgentThread` keeps the transcript of a thread over turns that are stopped, fail or end at the step limit,
with the provider switched in between, and the request that either client makes of it. Arguments of a call are
an object, other JSON or no JSON. The streaming clients are called by nothing in the app.

### Preview and PreviewPanel

`Preview` has the service worker (`req[r].sw`), a bridge per page (`req[r].bridge`, `gen`, `jar`), the
handshake by which a page learns which worker serves it (`boot`, `update`), and a tunnel per WebSocket from
the document's shim through the bridge to the guest's socket, with a queue each way (`up`, `down`). Pages come
and go, the worker restarts, a switch replaces the runtime behind a page. Known of the code: a cookie of an
answer that was under way at the switch is stored after it; an answer streamed after the worker's time-out is
not read. Left out: the console buffer, the HTML rewriting, and the expiry that `header()` prunes.

`PreviewPanel` has the panel's fields as React holds them, with a render between two events, the serve calls
of the panel's Run and of `open_preview`, the listeners of both kernels and the VM's port watcher. One port
per command; a kernel switch is one step. `asked`, a ghost, is the port that the last act asked for: the
agent's `open_preview`, a click of the user, or a Run, which asks as it settles. Known of the code: on the VM
`×` or Run closes every chip; the watcher's 0.5 s misses a port that is bound again at once. Not covered: a
second resolution of the port inside `preview_click`.

### LineDiscipline, PtyTerminal, TerminalPanel

`LineDiscipline` models the editor with the screen it writes to, cell by cell from the escape sequences it
sends, so that glyphs of two cells and full rows show. `PtyTerminal` models mounts, the input gate, the ports,
the consoles' receive rings with their senders, `guestd`'s `pty_open` and the bridges. `TerminalPanel` gives
each generation of the kernel its terminal. Left out: surrogate pairs, colours, resizes. Known of the code: a
launch that answers late leaves its bridge on the port, and keys of a disposed terminal reach the next shell
of the port.

### Vfs, Fs9pBridge, Files, StaticServer, RunChanges, PythonFiles

`Vfs` has paths, resolution through links and the calls as functions from trees to trees, or to an error.
`Fs9pBridge` adds what the guest's 9p tree needs: inodes, the bridge's index from inode to path, the hooks
that record changes. `Files` runs the calls of one kernel or the other with `known`, the tree as a listener
holds it that reads what each event names. A snapshot is the workspace's own nodes on the VM and the whole tree
on the browser kernel, and each is put back on either. `StaticServer` is its handler over those trees.
`RunChanges` collects what a turn's events name, diffs against the snapshot of its start, merges over turns and
reverts.
`PythonFiles` holds the two mirroring functions.

Left out: kinds of events, times, modes, overlapping calls, query strings and content types. Known of the
code: a page-side write or rename to beneath a file makes an entry in the bridge's tree that the kernel does not
have (left out of the calls); a forced removal is not compared between the kernels; browser `restoreVfs`
announces nothing; binary versions that decode alike vanish from the diff; a write through a linked directory
shows a created file whose revert deletes the real one.

### PythonRuntime

One cached instance, executions in a queue, each with its steps (`Start`, `Schedule`, `Evaluate`, `Finish`),
the mirror into Pyodide before and out of it after, `pip` with its three sources, a served app whose requests
run outside the queue, and the iterables of its streamed answers. Pyodide, micropip and the script's code are
external. Known of the code: an app's rewrite of a mirrored file is overwritten by the next `syncInto`, and a
user's edit between `syncInto` and `syncBack` by the latter; a failed load is cached; one app is served.

## 3. Runs

| Run | Checks | Instance |
|---|---|---|
| `shell` | safety, refinement of `LineContract` and termination of a command line; the Python runtime | six scripts in each of three ways, four pids, one settled record, two chunks; two executions over two files, two edits and requests in all |
| `folder` | edits on disk are kept, one walk at a time is exact and converges | two folders, one file, four events with one walk; two overlapping walks with two events, until time 5 |
| `folder_swap` | see Findings | as `folder` |
| `folder_edits` | see Findings | as `folder` |
| `session` | the prompt, the diff, servers and guests follow the active turn and kernel; Stop ends a turn | one turn after another, the browser and two images, two guests, two servers, three user events |
| `guest_processes` | output before exit, truthful lists, every request settled, a boot that ends | one command with both streams, two control requests |
| `network` | nothing lost, parked or kept over any answer and any end; the codecs; the shell's words, globs and redirects against POSIX | one request of any kind, two body pieces; one WebSocket, two messages; wires of three items; quoting to five marks, redirects to five pieces, lists to four |
| `preview` | pages, kernels, cookies, tunnels and sockets stay together; all ends | two pages, two requests, one tunnel, two kernels |
| `tools` | exactly the applied children's work is merged; the panel and its tools | two children with three changes in all; two ports, four acts of which a start counts twice |
| `threads` | histories stay apart and complete; requests are valid | three threads, two folders, two clicks or reloads; three turns |
| `storage` | files of both kernels, snapshots, the static server; Review | trees of three nodes with links; two turns over four paths |

| `terminal` | the screen shows the line; ports, keys and output of ptys | three columns, lines of three glyphs; two mounts on two consoles |

Some runs hold two systems that share nothing (`shell`, `tools`, `threads`, `storage`; `network` holds three):
`system` says which of them a behaviour runs, the others stand still, and their fairness is never due.

Bounds. A line meets every hazard with a few processes: a pipeline of two or three, a substitution, a hanging
stage, a missing command behind one that started. `MAX_SETTLED_RECORDS` is 1 so that reaping happens in every
behaviour. Lines interact only through the pid counter and the queue of settled pids, whose properties are
proved for any number of lines. In the folder runs a file never looks at another, so one is enough, save for
guards that ask whether a side is empty; an error of synchronisation needs an edit on each side and a failure
or a swap. `MaxTime` bounds the clock: when a save and a rescan overlap they can rewrite a file in turn for
ever. The slots of `Op` are the number of walks in flight; the code has no such limit.

In the session run three user events suffice for a switch in the middle of another and a Stop; turns follow
one another in one slot, so a leftover of one meets the next. In the guest runs commands share only the
channels, which are FIFO, and the shutdown, so one command with two control requests around it meets every
order of their frames; requests into the guest share the shutdown alone. A merge that goes wrong needs one
change of each child, or two of one that replaces a directory; the copies are independent, so a constraint
lets the children run one after the other. In the preview run requests, sockets and updates of the worker meet
pages that leave and kernels that are replaced, each on its own (`Apart`); that they do not disturb each other
is part of what is proved. What the remaining bounds cut off is named where they are defined, in the MC
modules.

Fairness. Callbacks queued in the page run, so runner steps, pumps, drains and program bodies are weakly fair;
so are the steps of a walk, as the disk answers or rejects. The save timer and the rescan interval fire; they
get strong fairness only because a walk waits for a free slot here. Nothing is assumed of users, signals,
other programs, or a program that hangs. In a session a turn's own steps are fair and tools return, but
neither the model nor the user owes an answer: `StopEnds` holds because Stop reaches both waits. `guestd`'s
threads and the page's handlers are fair, as the emulated processor goes on; a process owes nobody its end and
a restored image no reply, so a boot ends by its deadlines. In the network only timers are fair; in the
terminals the deadline of an open and the sender's timer; in the preview the continuations and timers of
worker and bridge and the cap of an upgrade; of Python the loader, the scheduler and the steps of an
execution.

`CHECK_DEADLOCK FALSE` everywhere but in `shell`: with no inputs left an idle page stops.

## 4. Properties

Each is stated in its module with the code it is about.

* `Retention`, `SettledForGood`: a running process is always in the table; a record settles once.
* `NoOrphan`: once a composite is settled, or a session line done, no process started for the line runs. The
  code relies on a second look at the cancellation flag after expansion and on killing the stages already
  spawned when a later one fails.
* `OutputKept`: each chunk reaches exactly one reader in order, and a line's streams end only when drained.
* `KeepsContract`: `Shell` implements `LineContract` (phase and live processes are functions of the state).
* `LineEnds`: a line that is killed, or has no hanging program, ends.
* `PythonTrue`, `PythonRuns`: streams keep their iterables, lines their run, pip tells the truth; the two
  copies of the workspace stay one and every execution ends.
* `RecordedEditsKept`: a save of a file with a recorded time never replaces what somebody else wrote before the
  save compared the file with the disk, except a version that an earlier save recorded as its own between its
  close and its record. `EditsKept` has no exception, and is false of the code: see Findings.
* `OneWalkExact`: while walks do not overlap, a rescan never reads back what the app wrote
  (`PullsOnlyExternal`), and a folder holds contents of its own project only (`NoCrossover`).
  `OneWalkConverges`: once edits and failures stop the sides agree on every file that both have, except where
  a save recorded the edit as its own or no save looks at the change.
* `TurnsFollowed`: a turn that waits for an approval is the one the prompt answers, and its diff listens to
  the active kernel.
* `KernelsTracked`: the tracked server is the active kernel's, none is left running on another kernel, one
  guest runs.
* `StopEnds`: after Stop the turn ends, wherever it was.
* `OutputComplete`: when the page knows of an exit it has all the output, although three threads send it.
* `ListedTruly`: a process list never shows as running what the page saw end before it asked.
* `NothingPending`, `AllSettle`: after a shutdown nobody waits; requests settle, a boot by its deadlines.
* `StreamsDeliver`: a parked reader is one somebody will still wake, and no byte of a stream is lost while it
  lives.
* `SocketsDeliver`: each message once though callbacks attach late, `onClose` once, the teardown set exact.
* `CodecsExact`: what a peer meant comes out of its wire once and complete however it is cut; a violation
  throws.
* `Delivery`: requests stay with their page, cookies and tunnels with their kernel, socket messages in order.
* `MergedWhole`: the workspace after a merge is the old one with the applied children's work, no file from
  two, and at every moment a rejected or failed child has left no trace.
* `LastActShown`, `ToolsTruthful`: the port that agent, user or a settled Run asked for last is in view, unless
  a Run already in flight at that act took the view as it settled (`LastActKept` denies that too, and is false of
  the code: see Findings); a tool's report of the preview is true.
* `HistoryTrue`, `NothingForgotten`, `DrivenKept`: no thread reaches another project's store or comes back
  after a reset; what turns and clicks did is stored or will be; no hydration drops a thread this session
  drove.
* `RequestsTrue`: every request answers each call once, in its place, and echoes thinking as it came.
* `TreesKept`, `FilesTrue`: a snapshot of either kernel put back on the VM is the workspace it was taken of,
  except one of the browser's whose root has a name of the image's own, which fails half-way (see Findings); what
  is written is read, both kernels agree, and events lead a listener to the workspace.
* `PagesReached`: a browser has its answer after one redirect at most, and it is the one for what the path
  names.
* `ReviewTrue`: Review shows how what the agent changed differs from the start, and a revert puts back one
  file only.
* `WordsTrue`, `Redirected`: words, patterns and outputs are those of POSIX.
* `LineTrue`, `PtyTrue`: the screen shows the line and keys count in their order; ports, keys and output are
  exact.
* `Settles` (of three modules): requests, handshakes, opens and closes end.

Types are invariants of the proofs, not of the runs.

## 5. Proofs

Every theorem is one of a component's own specification (`Spec`, or that of the instance: `P!Spec`, `Y!Spec`,
`T!Spec`), not of the run's with its constraints, and holds for any values of the constants under the named
assumptions of its component's modules (`TableAssumption`, `ShellAssumption`, `FolderAssumption`,
`AbsenceAssumption`, `SessionAssumption`, `GuestAssumption`, `NetworkAssumption`, `PreviewAssumption`,
`HistoryAssumption`, `HistoriesAssumption`, `DelegateAssumption`, `PanelAssumption`, `ThreadAssumption`):
bounds are numbers, the "none" values are none of the values they stand beside, there are finitely many
folders, every URL of a preview has an owner and a port, stored histories are lists the app wrote, a model
numbers the calls of one answer. Each inductive invariant was first checked by TLC on instances of the
component. There is one lemma per action, or one per record that an action may change.

`ShellProofs`: `TypeCorrect`, `RetentionHolds`, `NoOrphanHolds`, `SettledForGoodHolds`, `OutputKeptHolds` and
`KeepsContractHolds` and `PythonTrueHolds`.

* The table: `TableInv` (types, `RecordsConsistent`, `Retention`) is preserved by every `TableStep` that
  settles distinct running or fresh pids (`TableStepInv`). The queue followed by the newly settled pids is
  duplicate free, and what is dropped from its head is exactly what leaves `procs`.
* `NoOrphan` is not inductive. `IInv` adds `Allocated` (processes belong to one line, owners are not
  processes), `Position` (where a runner can be) and `Accounted`: only a runner at `sub` or `wait` has running
  processes, they are those it waits for, a canceled line has none, and a composite is settled only when its
  line is canceled or done.
* `OutInv` carries the output: a pid not yet allocated has no streams (`Untouched`); a pipe leads to one other
  started process, and no two to the same (`Piped`); chunks are conserved (`OutputIntact`); every process
  whose output goes to the line or a file is consumed, or awaited by a runner at `sub` or `wait` (`Awaited`),
  which is why the line cannot end first.
* The refinement: a step opens one line of `LineContract`, works in one, closes one, or stutters. It needs of
  `IInv` that a line with running processes is open.
* The Python runtime: `QueueOK` (the execution at the head of the queue is the one under way, none behind it
  has begun), `RoutedOK` (while it runs, standard output is its own) and `TokensOK` (as long as no other script
  sets the module up, a stream has an iterable of its own until it ends, and is told so once).

`GuestProcessesProofs`: `TypeCorrect`, `OutputCompleteHolds`, `ListedTrulyHolds`, `NothingPendingHolds`. The
invariant says of each call how its record, its process and its frames under way fit together (`CallOK`).
`Ordered` is the order of frames that the three threads keep: a STARTED before all others of its call, an
ERROR or EXIT after them. Output is conserved: what was handed on, what is in CHUNK frames and what is in the
pipe add up to what was written. A process the page knew to be over when it asked for a list is gone, and
stays so until the list is made.

`GuestNetworkProofs`: `TypeCorrect`, `StreamsDeliverHolds`, `StreamsRegisteredHolds`, `SocketsDeliverHolds`.
The invariant says of each stream how it ended and what that means for the wire (`StreamOK`: a terminator is
the last piece, a close is final, a queue exists only behind a whole streamed head), of each request how its
answer and its stream agree (`AnswerOK`), and of each socket that it was told as often as it closed
(`SockOK`). A step changes the records of one request or one socket (`ReqFrame`, `SockFrame`), so each action
comes down to a lemma about one of them; only the shutdown touches all. `StreamsRegistered` is proved and no
run checks it: the shutdown set holds exactly the streams that live, and every connection is given back.

`FolderSyncProofs`: `TypeCorrect`, `RecordedEditsKeptHolds`, `OneWalkHolds`, `OneWalkExactHolds`.

* For any number of overlapping walks: modification times tell versions apart. No version somebody else wrote,
  and no save has recorded as its own, bears the recorded time of its file, nor the time a walk took along when
  it set out to compare or to store, and where a save has compared its file such a version is newer than the
  comparison (`WalkOK`); no version in another folder bears the time of such a version (`NoTwin`). So a save
  that found the recorded time found a version of the app's, or one recorded as such.
* While one walk runs at a time (`Alone`): the workspace holds contents of the folder it is a copy of (`At`),
  the versions the app wrote there have their times recorded, save those the walk has just written or is still
  to load (`Exempt`), and a read in hand is current or was overtaken by somebody else (`ReadOK`). The
  hypothesis `[]Alone` is about behaviours: the code takes no lock, and without it `NoCrossover` is false,
  which `folder_swap` shows.

`StudioSessionProofs`: `TypeCorrect`, `KernelsTrackedHolds`, `TurnsFollowedHolds`. A turn that a switch or a
serve call was made by is parked at that tool (`CallersInv`). Every running server is tracked, still called
for, given up by the tracking, or the browser kernel's while that is active (`ServesInv`). `GuestsInv` lists
for each phase of a switch which guests may run. These hold for any number of turns, overlapping or not.
`TurnsFollowed` holds only while turns do not overlap (`OneAtATime`): `startRun` awaits before it sets
`running` (`studio.ts:1632`), so two turns may begin together and share one prompt.

`PreviewProofs`: `TypeCorrect`, `DeliveryHolds`. A request is posted only to the page its URL names, which is
there as long as it is to answer (`RequestOK`, `Waits`); a jar holds cookies of the current runtime or late
ones and never more than its cap (`JarOK`). A socket is followed both ways: what is on its way up goes on
counting where the guest's end has heard (`Upward`); behind the place of "open" in the queue down come the
messages after the a-th, and behind them only the end (`Downward`). A tunnel that is booked is aimed at its
page's runtime (`Booked`), which a switch uses to close it. The theorem covers requests, sockets, switches and
updates together, which the run takes apart.

`ThreadsProofs`: `HistoryTrueHolds`, `DrivenKeptHolds`, `RequestsTrueHolds`.

* `HInv` of the run history. That a folder holds threads of its own project only says nothing of what a later
  step writes there, so `Housed` says it of every source of such a write: the memory, what IndexedDB will hold
  once its transactions have ended (`LastStored`), the writes in flight and what a mount has read; which
  folder they are aimed at is the mounted one, or the persisted handle, by the step of the mount (`Aimed`).
  `Away` does the same for what a reset deleted. `Stamped` keeps ids of lines below the counter, through every
  hydration (`reseedTraceIds`), and `Idle` is a closed page.
* `DrivenKept` is a fact about steps: each leaves a driven thread, extends it, or is one of the exceptions the
  property names. The hydrations rest on what the merge of two histories keeps of either.
* `ThreadInv` of the transcript. A thread is always `Complete`: each call is answered in its place and each
  answer has its call (`Pairs`), and so it is of the turns made of it (`Fits`), where an assistant's turn is
  what the provider said (`Echo`). While tools run the transcript is `Reached`: complete but for one message,
  of which the first calls are answered. A tool's answer extends the last turn of the request in place, and
  this is why the turn in hand is part of the invariant.

`ToolsProofs`: `LastActShownHolds`, `ToolsTruthfulHolds`, `MergedWholeHolds`.

* `PanelInv`: after a render nothing is left to do (`Rendered`) and the frame is the one of the port in view
  (`InView`); an unhandled request is the last act (`Requested`); otherwise the port asked for last is awaited
  as long as it is closed, and aimed at as long as it is open, with a document of after the request, until a Run
  that was in flight at that act takes the view (`Followed`). The agent's tools run one at a time (`OneTool`).
* `DelegateInv`: what a child changed lies beneath the paths of its events (`Noticed`), hence the changes
  captured of it are the differences of its copy (`CutTrue`), although directories are expanded and removed.
  The merge is followed file by file: what differs from what was there is the work of a child applied or in
  hand (`Traced`), the work of a child is there up to what `job` still holds (`Whole`, `Entered`), and two
  children applied never share a path (`Disjoint`). A later child's file where an earlier one had a directory
  is the one way to lose work (`Over`, see Findings).

What recursive functions compute (`Only`, `Less`, `IdsOf`, `split`) is proved for every sequence by a least
counterexample: first that a function with the recursion's equation exists on every initial segment, then what
holds of each of its values.

| Invariant | Checked by TLC before its proof, in distinct states |
|---|---|
| `Shell`: `IInv`, `OutInv` | 16,973, one line over four pids |
| `StudioSession`: `IInv`, `TurnsInv`; `IInv` with two turns | 6,736,591; 5,464,467 |
| `FolderSync`: `IInv`, `OneInv` | 337,861 |
| `Preview`: `IInv` | 114,067 and 10,595 |
| `RunHistory`: `HInv` | 1,000,280 |
| `AgentThread`: `ThreadInv` | 145,834 |
| `PreviewPanel`: `PanelInv` | 46,984; 1,939,429 with six acts |
| `Delegate`: `DelegateInv` | 252,064 |

What proof attempts changed in the models: `NothingPending` of `GuestProcesses` had been stated too weakly, by
a list whose conjuncts were aligned wrongly; the set `Data` of `FolderSync`, the set `Port` of `Preview` and
the expansion of directories in `Delegate` were unions over less than meant, for want of parentheses; that
absence is no version, no port and no frame had to be said; the jar's capping, the port lists and the
transcript's turns are stated without folds, as recursive functions. In `RunHistory` the guard of a new
thread's id and the ghost of where a thread belongs were wrong in a way that showed only beyond the run's
bound: `HistoryTrue` is false of that version from three clicks on.

Only model-checked:

* Liveness, which is out of the prover's reach: `LineEnds`, `PythonRuns`, `OneWalkConverges`, `StopEnds`,
  `AllSettle`, `Settles`.
* What rests on RECURSIVE operators or on folds, of which the provers know nothing: `WordsTrue`, `Redirected`,
  `CodecsExact`, `LineTrue`, and of the files `TreesKept`, `FilesTrue`, `PagesReached`, `ReviewTrue`.
* `PtyTrue`, whose keys pass four queues that its invariant has to relate.
* `NothingForgotten`. It holds up to ten million states (three clicks over the history alone), but is false
  for some values of the constants: with more threads than `MaxRuns`, a hydration that drops an undriven
  thread may bring one back under the cap that the browser's store has no copy of; and a
  turn is modelled as beginning once all transactions have ended, so that a rename between a start and its
  save may leave the two mirrors with different titles.

## 6. Findings

`folder_swap` is a run whose property TLC finds violated: `swapMountedFolder` (`studio.ts:1332`) clears the
timer but not a save or rescan in flight, which goes on with the old handle, the new workspace and the shared
map of times, so one project's content reaches the other's folder; lines 1318-1321 say it must never.

`folder_edits` is another: an edit that lands between the close of a save and its `getFile`
(`local-mount.ts:212-213`) has its time recorded as that of the app's own write, so the conflict check of the
next save lets it pass and replaces the edit; lines 138 ("never clobber an external edit with stale VFS bytes")
and 66-71 promise otherwise.

Other places where the code departs from what a comment of it says were met as counterexamples while the
properties were being stated. Where a property speaks of the same behaviour, its definition names the
exception or its module the bound that leaves it out.

* `PreviewPanel.tsx:162-165` against `preview-select.ts:7-8`, "A selection the user made on a still-open port is
  never yanked without a request": a Run that was in flight when the user views another port, or the agent
  opens one, selects its own port as it settles. TLC finds `LastActKept` violated.
* `workspace-snapshot.ts:46` and `serialize.ts:44-46` against `studio.ts:778-779`, "A snapshot saved by either
  kernel is a contract-level `Snapshot`, restorable by the other on next boot": the browser kernel's holds the
  whole tree; if its root has a directory of the image's (`/tmp`), putting it back on the VM fails there with
  EACCES, the workspace cleared and the rest missing.
* `fs-bridge.ts:350-364` against `vfs.ts:259`, "A directory cannot be moved into itself or one of its
  descendants": the bridge does not look, and what is moved below itself is lost to the workspace.
* `local-mount.ts:209` against 174-178: a failed write of a new file leaves it empty on disk, and the next
  rescan stores that over the workspace's copy.
* `studio.ts:1632` against 1565-1567: `startRun` checks its guards, awaits the save of the run and only then
  sets `running`; a second task sent meanwhile starts a turn beside the first. They share the one prompt, and
  one can wait for ever.
* `studio.ts:936` against 742: a mount and a kernel switch do not refuse each other; a workspace copied while
  a folder is loading lacks the rest of it.
* `studio.ts:2091` against 1789-1792: files below a directory that the agent changed are blamed on it, also
  those that somebody else put there.
* `studio.ts:2471` against 2449-2450: a file that changes between the two deletions of a reset arms the save
  again, and the workspace is back.
* `delegate.ts:491` against 160-162: a child adds a file to a directory; a later one removes the directory and
  writes a file in its place. No path of the two is the same and the directory is none of the second's
  deletes, so the merge removes the first child's file and reports both as applied.
* `preview-tools.ts:122` against `http.ts:60-62`: messages that are flushed before the shim hears "open" are
  dropped by it.
* `run-serve.ts:210` against 191-193 and `PreviewPanel.tsx:269-270`: the panel's record of a serve call takes
  every port that opens meanwhile for its own, and closing it closes servers of others.
* `interpreter.ts:535` against 50: a stage that points fd 2 at its pipe and fd 1 at a file feeds nothing to
  the next.
* `erdou-module.ts:44` against 300-302: the setup of another script empties the table of open streams, so the
  consumer of one is told that it ended, a truncated success.
* `openai.ts:72` against `anthropic.ts:194-197`: `finish_reason` is not read, so an answer cut at the token
  limit passes for a finished one.
* `anthropic.ts:73` against `agent.ts:92-94`: arguments that are no JSON become an error the model can see;
  after a switch of the provider they crash the run. Arguments that are JSON but no object are sent back to it as
  they are (`anthropic.ts:125`); `RequestsTrue` does not look into them.

## 7. Plan

Done: the modules of section 2, and the safety of `ProcessTable`, `Shell` with its refinement,
`GuestProcesses`, `GuestNetwork`, `FolderSync`, `StudioSession`, `Preview`, `Delegate`, `PreviewPanel`,
`PythonRuntime`, `AgentThread` and, but for `NothingForgotten`, `RunHistory` proved.

To prove next: `PortsExact` and `KeysOrdered` of `PtyTerminal` (who holds a port, and the keys of a port as
what was read, what is in the ring, what the sender holds back and what the gate keeps, in this order); then
the operators of `Vfs`, once their walk through links is a function and no RECURSIVE operator.

To model: directories and the conflict log of `FolderSync`; listing of jobs in `Shell`; the opened, closed and
loopback port lists of the VM's runtime beyond what `PreviewPanel` has of them.

Not modelled, and not planned: the user interface, markdown and layout; awk, sed and the other text filters;
prompts, titles and skills; WASI, the bundler and git, which are foreign programs behind one call; the scripts
that build the guest images; the runtime's contract and its conformance suite, of which `LineContract` states
what the shell promises. These are pure functions or presentation, and the unit tests reach them.
