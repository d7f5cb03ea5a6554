# A TLA+ model of froggr, the filesystem manager

froggr gives a user a private view of the file system in the manner of Plan 9: directories are *bound*
or *mounted* onto others, in sessions that keep the view alive. This directory holds TLA+ modules that
model the code in `src/src`, the TLC configurations that check them, and proofs, checked by TLAPS, that
every safety property of the passing runs holds for all values of the constants.

    tlc -workers 2 -config FilesystemManagerCalls.cfg MCFilesystemManager.tla
    tlapm FilesystemManagerProofs.tla        # the same for the other modules whose names end in Proofs

`PROJECT.json` lists the runs, the source lines each definition stands for, the hazards found in the
code with the properties aimed at them, the disagreements between code and documents, and, for each
property, a mutated definition that violates it (the operators whose comments begin with "Mutant" or
"mutant" exist for that purpose only and are used by no specification).

## The system

| part | code | state | operations |
|---|---|---|---|
| NamespaceManager | `modules/namespace.rs` | `namespace`: target path to a vector of entries; `bindings`: inode to name and file; `next_inode` | `new`, `resolve_path`, `list_namespace` |
| FilesystemManager | `modules/mount.rs` | none of its own: works on the tables above | `bind` (Replace, Before, After, Create), `mount`, `unmount` |
| NineP | `modules/proto.rs` | `fids`: fid to path; `msize`, `version`; and the tables above | 9P: `version`, `attach`, `walk`, `open`, `create`, `read`, `write`, `clunk`, `remove`, `stat`, `wstat`; FUSE: `lookup`, `getattr`, `read`, `readdir` |
| Session | `modules/session.rs` from 416 | `state` (mounts and binds) under an RwLock, the message channel, `is_running`, the session file | `mount`, `bind`, `unmount`, `shutdown`, `run`, `notify_mount_success`, `notify_bind_success`; threads: message handler, command listener |
| SessionManager | `modules/session.rs` 31-413 | files under `/tmp/froggr/sessions` | `create_session`, `list_sessions`, `kill_session`, `purge_sessions`, `get_session`, `send_bind_command`, `get_active_session`, `send_mount_command` |
| command pipe | `session.rs` 304-413, 831-901, `main.rs` 182-194 | a named pipe per session | write a command, read whatever has been written |
| command line | `main.rs` | none | calls SessionManager |

How they interact. A Session owns a FilesystemManager, which owns a NineP, which owns a
NamespaceManager; all four are cloned freely and share their tables through `Arc`. `namespace` is under
an RwLock, `bindings`, `next_inode` and `fids` under a mutex each. A session's caller queues messages
for the handler thread, which carries them out and records them. A command that arrives through the
pipe is carried out by the listener thread, which records it itself and then sends the handler a
message to record it again. On the one thread that created the session a thread-local points to it, and
there `bind` and `mount` themselves call back into the session, while they hold the namespace's lock.
Every recording thread writes the session file, which other processes read to list, find and kill
sessions.

What is hard in it, and what would make each part correct:

* **FilesystemManager.** The inode table is one flat table for all targets, cleared by some modes and
  merged by others, and reading a directory can fail at any entry. Correct means: the table is what the
  modes promise after any sequence of calls, a failure damages no more than it must, and an inode number
  never changes its file. Hard are the sequences and the failure points.
* **Session.** Three threads, four locks, a channel and a file written with and without a lock. Correct
  means: at rest the file equals the state and the state equals the namespace, shutdown ends the
  threads and removes the file, and nobody waits forever. Hard are the interleavings.
* **SessionManager.** Processes that create, find, kill and purge sessions through files that others are
  writing. Correct means: a running session can be found, a kill hits the session and nothing else, what a
  process that ended has left is cleaned up. Hard are processes that end between two steps, stale files and
  pids that are used again.
* **The command pipe.** Several processes make, open, write, read and unlink one pipe. Correct means: a
  command is executed once, its sender learns what became of it and never waits for nobody. Hard are opens
  that block, writers that overlap, and a listener that closes while somebody writes.
* **NineP.** Lookups by bare name in the flat table, a mutex taken twice, offsets that panic under a
  lock, panics that poison locks of others. Correct means: an operation on a fid touches the file the fid
  names and always returns, and numbers survive whatever fails. Hard are the interleavings of clones with
  each other and with binds.

## The modules

| module | what it is |
|---|---|
| `InodeTable` | abstract specification: a table in which a number belongs to one file forever |
| `FilesystemManager` | `bind`, `mount`, `unmount` on the namespace, the inode table and `next_inode` |
| `MCFilesystemManager` | a small file tree and the view used for model checking |
| `FilesystemManagerProofs` | theorems about `FilesystemManager`: types, numbers, the refinement |
| `FilesystemManagerCallProofs` | theorems about `FilesystemManager`: what each call makes of the table and the namespace |
| `Session` | a session's three threads, its locks, its channel, its state and its file |
| `MCSession` | two sources and two spellings of a directory for model checking |
| `SessionProofs` | theorems about `Session` |
| `NineP` | clones of the 9P server called by several threads, their locks, panics, and binds on the same table |
| `MCNineP` | the names of files for model checking |
| `NinePProofs` | theorems about `NineP` |
| `CommandDelivery` | abstract specification: what sending a command promises |
| `CommandPipe` | senders, listeners, the session's own process and a purge on one named pipe |
| `CommandPipeProofs` | theorems about `CommandPipe` |
| `SessionRegistry` | processes, their pids, and the session files that they create, rewrite, kill by and purge |
| `SessionRegistryProofs` | theorems about `SessionRegistry` |

`InodeTable` is what `FilesystemManager` and `NineP` both implement, each with its own writers of the table.
`NineP` has `bind` and `mount` in brief, as what the 9P operations run against; `Session` has them as calls
with an outcome. `FilesystemManager` has them in full. The three modules about sessions divide one path: a
command goes from the command line through the registry (`SessionRegistry`: which processes there are and
what their files say) and the pipe (`CommandPipe`: whether it arrives) to the threads of a session
(`Session`: what it does to the state and the file within one process). `CommandPipe` implements
`CommandDelivery`.

### FilesystemManager

One call is one step: `bind` and `mount` keep the namespace's write guard from the push of their entry
to their return, and the guards of `bindings` and `next_inode` while they read directories, so nothing
that looks at either table runs in between. The variables are the code's fields; `ret` remembers what
the last call was and returned, for the properties.

The host's file tree is constant (`Kind`, `NameOf`, `Children`). What varies is what the code cannot
control: `read_dir` gives entries in any order, `HashMap` iteration too, a path may disappear between
the two times it is canonicalized (`Vanished`), and reading may fail after any number of entries
(`BrokenWalks`) or in `fs::read` of a file whose number has been taken already (`UnreadFileWalks`).
`read_directory_entries_recursive` is given by what it may produce: a listing is any sequence in which a
breadth-first walk may meet what is below a directory. The stacking of walks follows the code line by
line: Replace and mount (`Rebuild`) fill the table in place, Before collects both walks in maps of its
own, After adds the target before it reads the source, Create collects the source and makes it read-only.
`unmount` touches the namespace only. A `bind` that has done all this may still return `Err`
(`Completes`): it tells the handler of its session and passes on the error of a send that finds the handler
gone (`mount.rs:316`); `mount` only warns.

Left out: the contents and attributes of files beyond the node they come from and whether Create made them
read-only; the remote node of a mount (stored, never read); panics, of which `println!` (`mount.rs:95`, 118,
158, 259-264) is the likeliest, and the poisoning of locks that follows (both are in `NineP`);
`mount_directory` and `handle_unmount`, which nothing calls.

### Session

Threads `api` (creates the session and calls its methods), `handler` (`run_message_handler`) and
`listener` (`run_command_listener`). A step is what a thread does between two points at which another
thread can see or change something: taking and releasing the state's RwLock (`writer`, `readers`), the
namespace's lock (`ns_lock`), the channel, `is_running`, and the two halves of `fs::write`, truncation and
write. `HandlerUpdate` knows which messages drop the state lock before the file is written (Mount,
MountSuccess), which keep it (Bind, Unmount), and which exchange it for a read lock (BindSuccess).
`Written` says what two writers leave in one file. `linked` says whether the file a thread has open is
still the session file, because shutdown may remove it in between.

The namespace is reduced to the sources attached to a directory, and the outcome of a call to ok, refused
(nothing happened) or failed (an entry was pushed). What is left out: the fixed fields of the file, a
failing `fs::write` (only logged), panics, how a command reaches the listener and is parsed, and the one
second that the listener sleeps. The namespace stacks mounts of one directory and `add_mount` replaces them
by target (`session.rs:973`), so an earlier mount of a target that was mounted again stays attached and is in
no list; the modules have that, with two sources.

### NineP

`proto.rs` keeps `fids` under a mutex of its own and works on the table, `next_inode` and the namespace that
`FilesystemManager` works on. Each thread of the model owns a clone and calls one operation after the other.
An operation takes its locks one by one (`Take`, in the order of `Locks`), does its work when it has the last
(`Attach` ... `Bind`) and lets all of them go when it returns. Where the code returns before it asks for a
lock (an unknown fid) or changes something between two locks (`remove` forgets the fid first), so does
`Take`. A panic (`Panic`) ends the thread and poisons what it holds; `lock().unwrap()` of a poisoned lock
panics in its turn, so a panic travels. Besides `read` and `write`, which may slice or resize out of range,
whoever prints under a lock may panic, because `println!` does when the reader of its output has gone
(`ReturnOrPanic`): `bind` and `mount` with the namespace, the table and `next_inode` locked and the table half
changed, and `lookup`.

`fids` is a set because every fid has the path "/": `attach` records it, and the only line that would record
another one is the one `walk` never gets beyond. That path is compared with bare names, and only a client's
`create` can give a file the name "/", so `open`, `stat` and `remove` find nothing else. `read` and `write`
take any entry that has content, as the code takes the first one that the `HashMap` yields.

Left out: `version` (it sets two fields of one clone), `flush` (does nothing), qids, attributes and
permissions, the bytes of files, and what the FUSE callbacks answer. The namespace's RwLock is one lock here:
who takes it to read has no other lock.

### CommandPipe

`send_bind_command` and `send_mount_command` treat the pipe alike: `exists` (`Check`), `mkfifo` (`Make`),
`open`, `write_all`, close. The process that `create_session` spawns does the first two and then only sleeps
(`main.rs` 182-194), so it never reads. `run_command_listener` calls `read_to_string` in a loop: it opens
the pipe, reads until no writer has it open, closes it, and parses all that it has read as one command
(`ListenerClose`). It does not know how much will come, so it takes what is there in several reads, the
first time no more than 32 bytes. `PIPE_BUF` covers writes only: another listener of the same pipe may take
the next bytes. So a command consists of `Pieces` pieces, `ListenerRead` takes one, and what was read is a
command only if it is all the pieces of one in a row (`IsCommand`). Pieces that were not one after the other
in the pipe (`Torn`) may happen to parse, as a command that nobody sent (`MayParse`). What the operating
system does is modelled as far as the code depends on it: an open waits for the other side, a write without
a reader fails, a pipe without users loses what it holds, an unlinked pipe lives on for those that have it
open. `at` and `reader_at` say which pipe somebody has open, because a purge can replace it. There are
several listeners, because every process that calls `get_active_session` starts one on the same pipe.
Senders may be interrupted and listeners' processes may end at any step.

Each sender sends one command, by whose name it goes. A command is assumed to be shorter than `PIPE_BUF`, so
that its write is one step. The child that `send_mount_command` forks is left out: it does not use the pipe.

### SessionRegistry

A client is a process that runs one command and ends; the same client may then run another one, with another
pid. `bind` and `mount` go through `create_session` (`Spawn`, `Truncate`, `Write`), `get_session` (`Get`)
and `Send`; `send_bind` and `send_mount` are the functions of `SessionManager` that a program may call for a
session that exists. `kill_session` is three steps, `purge_sessions` one per file, `fs::write` two. A client
that has sent a mount holds a `Session`, so until it ends its threads rewrite the session's file with its
own pid (`HandlerOpen`, `HandlerWrite`) after each command that reached it. The two writes of a bind
command, the listener's (`session.rs:878`) and the handler's (667), count as one here, as both write the
same pid; how they interleave is in `Session`. A command that cannot go on (`posix_spawn` or `get_session`
fails) is at `"failed"` until its process ends, where it has no threads (`Joined`). Any process may end at
any step (`End`, `SessionEnds`): the mount command ends by itself a second after it has sent, whatever its
threads do.

A file holds a pid, or nothing (`Empty`), or the end of an older content behind a newer one (`Garbled`), or is
`Absent`. `linked` tells who has open a file that still is the session's; `cut` remembers the sessions whose
last writer ended before it wrote. `proc` keeps the pid of a process that has ended until its creator, which
never waits for it, ends too: until then a signal to it succeeds. Pids are given out again.

`list_sessions` takes only files that end in `.json`, and there are none, so `create_session` always makes a
new session and `purge_sessions` signals nobody; both are in `Start`. `PurgeRemove` takes it that
`remove_file` fails only when the file is gone already; with any other error the file stays, and
`purge_sessions`, which only logs it, goes on. Left out: a failing `fs::write`, which is only logged, the
mounts and binds in the file, and how a command reaches a listener (`Send` lets it arrive or not).

## The runs

| run | configuration | shows |
|---|---|---|
| calls | `FilesystemManagerCalls` | what each bind mode makes of the inode table; binds stacked on the same and on different targets, and unmounted |
| session_safety | `SessionSafety` | the session file and the state at rest, in every interleaving |
| session_liveness | `SessionLiveness` | no lost wake-up, no deadlock, shutdown ends the handler |
| failed_bind | `FailedBindRollsBack` | a document says that a failed bind changes nothing |
| nine_p | `NineP` | numbers, panics that poison, and lock order when clones are used at the same time |
| walk_returns | `WalkReturns` | `walk` waits for itself |
| stale_mount, shutdown_file | `ListedMountsAreActive`, `ShutdownRemovesFile` | what comments say of a session and the code does not do |
| command_pipe | `CommandPipe` | nothing run twice, no sender that waits for nobody, a lone command that arrives at a lone listener |
| accepted_commands | `AcceptedCommandsRun` | commands whose senders got `Ok` and that nobody runs |
| session_registry | `SessionRegistry` | empty files, files taken from running processes, and what a purge cleans up |
| kill_terminates | `KillTerminates` | a kill that returns `Ok` and leaves the session's process running |

**The file tree** of `MCFilesystemManager` has a source with a symbolic link `a` (neither directory nor
file) and a directory `d` with a file `a` in it, a target with files `a` and `b`, and a path that names
nothing. So there are names that conflict within a source, between source and target, and with what is
served already, and a directory below a directory; every path may be a source and a target. Every listing
order and every failure point is explored.

**Bounds of calls.** `MaxInode` is a sequence: with k entries in the namespace a call may start only while
`next_inode` is at most its item k + 1, and not at all beyond its end; calls run to their end whatever
numbers they take. With `<<6, 3>>` a table that an earlier call filled, cleared or half filled meets every
second call, with an unmount in between, and a target has two entries, of one source or of two, whose order
and removal matter. `StateView` leaves out of the state's fingerprint the parts of `ret` that no property of
a state reads; action properties are evaluated on every step.

**Bounds of the session runs.** The caller makes two calls (`MaxCalls`) and one command arrives through the
pipe (`MaxCommands`): enough for a mount and an unmount to meet a command at every step, and for the
messages of all three to be queued together. `session_safety` has two sources, so that a mount can be
replaced in the list by one of another source, and two spellings of one directory; both sets are symmetric,
as the code compares their members only. `session_liveness` has one of each. `Direct` names the methods of
`fs_manager` that the caller uses itself: all in the passing runs, none in the violation runs, so that their
counterexamples need only the session's own methods and the pipe. A session may stop, so these runs do not
check for deadlock; that nobody waits forever for a lock is `FileConverges`.

**Bounds of the 9P runs.** Two threads make four calls in all (`MaxCalls`) with one fid: enough for an
`attach`, a `create`, and two operations that meet, one of which may panic with the locks of the other's
next step. An offset is within the content or beyond it (`MaxSize = 1`), and a bind takes no number or one.
The names are that of the root's entry, that of a fid's path and one of a host file. `walk_returns` needs
one thread and two calls: an `attach` and a `walk`. Threads may stop calling, and do when a walk is stuck,
so these runs do not check for deadlock; that nobody else waits forever is `OperationsReturn`.

**Bounds of the pipe runs.** Two senders, of which one may meet the other at every step, two listeners that
can share or divide what was sent, one purge, so that there is an old pipe and a new one (`MaxPurges`), and
two pieces to a command, so that a command can be divided and the parts of two can be joined (`Pieces`). With
more than two a listener could also miss a piece in the middle of a command; the theorems about the pipe hold
for any number of pieces.
`accepted_commands` needs no purge and no second listener.

**Bounds of the registry runs.** Two clients run three commands in all (`MaxCommands`) on two sessions, each
of which may have left a file from before, and there are three pids, so that a pid is soon used again: two
creations and a kill; a creation, another process that joins it, and a kill or a purge; a purge and a kill
that race for two files. Processes may end at any step and nobody has to start one, so these runs and those
of the pipe do not check for deadlock.

**Fairness.** Weak fairness of each thread's own steps: a runnable thread runs. None is assumed of what
users do: calls, commands, shutdown, exit. The locks are not assumed to be fair, and need not be: no
thread can keep taking a lock another one waits for without a new call or command, and those are bounded.
In `CommandPipe` a sender that has started and a listener are fair, which does not make an open return that
waits for the other side; `Check`, `Kill`, `ListenerEnds` and `Purge` are not. In `SessionRegistry` the steps
of a client's own work are fair; `Start`, `End`, `SessionEnds` and `Send`, which may wait for a reader, are not.

**What the passing runs show.**

* `ClearingCallMirrorsSource`, `BeforePutsSourceFirst`, `AfterNeverShadows`: what is in the table after
  each mode, by file, name, number and permission, whatever was in it before.
* `FailureDamage`: exactly how much of the table a failed call may have changed, mode by mode.
* `InodesNeverReused` (the refinement of `InodeTable`), `InodesBelowNext`: numbers are never recycled,
  not by clearing the table nor by a failed read.
* `ReadOnlyEntriesAreOldest`: nothing but the root survives a Create bind, through any later history.
* `OnlyUnmountLosesExplanation`: a served file always belongs to some namespace entry, even after a failed
  call, until an unmount; that entries are pushed first is what makes it so.
* `NamespaceVectorsInUse`, `UnmountKeepsOtherWinner`: unmounting one source keeps the order and the winner
  among the others, and leaves no empty vector.
* `QuietFileIsState`: although the handler writes stale copies without a lock and the listener writes at
  the same time, the message that follows each notification makes the handler write once more, so at rest
  the file is right. `AttachedIsListed`: the same message repairs the record of a mount that an unmount's
  `remove_mount` took away by mistake. Of mounts it says that their target is listed as mounted, not with which
  source: the list has the one that was recorded last.
* `FileConverges`, `ShutdownStopsHandler`: progress.
* `NoPanicAtNumbering`: a bind that panics while it prints poisons `next_inode`, but nobody ever finds it so,
  because whoever wants it keeps the table by then, and the panic has poisoned that as well: `create` gets its
  number or panics before it has changed anything. `NoWaitCycle`: the orders in
  which clients and binds take the locks agree, so among any threads there is one that waits for none of them.
  `OperationsReturn`: with fair threads that is enough, and only a stuck walk makes others wait.
* `InodesNeverReused` of `NineP`: `create`, `remove` and binds share the table and the numbers and never move
  a number to another file.
* `DeliveredAtMostOnce` (the refinement of `CommandDelivery`): whatever the interleaving, no piece of a command
  runs twice, and none after its sender got an error or while its sender still has the pipe. A listener that no
  other one has joined runs whole commands only, each as it was sent. That a listener keeps the order of
  sending holds only until a purge replaces the pipe, because a listener that was still reading the old pipe
  may take from the new one what was sent before.
* `SendersReturn`: an open that blocks is the only wait, so with one listener alive every sender comes back,
  unless a purge has unlinked the pipe that a sender or a listener waits at: then the two may wait at
  different pipes for good. `LoneCommandRuns`: without a second sender and a second listener nothing is lost,
  purges included.
* `EmptyOnlyWhileWritten`: no interleaving of writers, kills and purges leaves an empty session file, only
  the end of a writer between its two steps does.
* `RegisteredUntilReplaced`: a kill never takes the file of a process that it does not end, even though it
  reads, signals and removes in three steps; only a mount's rewriting and a purge make a running session's
  process unfindable.
* `PurgeClearsOrphans`: a purge gets through its list whatever others remove meanwhile.

**What the violation runs show** is in `PROJECT.json` under `findings`, with the line that says otherwise.
Others that the model makes plain and that have no run: a Create bind needs a target that exists and
replaces what is served as Replace does, where its comment says that it fails if the target exists
(`mount.rs:283`) and `docs/src/user-guide/bind-modes/create.md` that it makes a mountpoint that is missing
(`ClearingCallMirrorsSource` says what it does); a bind that returns `Err` may be in effect as a whole
(`mount.rs:316`); two listeners on one pipe, which every second process that gets an active session makes
(`session.rs:349`), may divide a lone command, so that nobody runs it, or join parts of two
(`session.rs:834`); of two mounts of one target the list keeps the later one only (`session.rs:973`); a
Before bind leaves older entries with the source's names beside the source's own (`mount.rs:205`); Replace
drops what binds on other targets serve (`mount.rs:166`); binds stay listed after their target is unmounted
(`session.rs:681`); a bind through the pipe is listed twice (`session.rs:650` and 816); shutdown returns an
error and leaves the file when the handler sees the flag before the message is sent (`session.rs:775`); what
an unmounted source served stays in the inode table (`mount.rs:409`); an After bind becomes what its target
resolves to, although the original is said to be searched first (`namespace.rs:117`); two interleaved writes
of the handler and the listener may leave a file that does not parse (`session.rs:574`, 878);
`create_session` never finds the session it is said to use again, and `purge_sessions` kills none
(`session.rs:193`); `frg bind` opens a pipe that nobody reads and waits until it is interrupted
(`session.rs:322`); after the mount command has ended the file names a pid that is free or somebody else's,
which a kill signals (`session.rs:235`); a client that still holds a `Session` makes the file again after a
kill or a purge has removed it (`session.rs:609`).

## What is proved

For all values of the constants: every file tree, order of listing and point of failure, any number of
threads, senders, listeners, pieces, clients, sessions, pids and names, and every bound. The theorems cover
all the type invariants, safety invariants, action properties and refinements that the passing runs check.

| module | theorem | property |
|---|---|---|
| `FilesystemManagerProofs` | `TypeCorrect` | `TypeOK` |
| | `InodesStayBelowNext` | `InodesBelowNext` |
| | `ReadOnlyEntriesStayOldest` | `ReadOnlyEntriesAreOldest` |
| | `NamespaceVectorsStayInUse` | `NamespaceVectorsInUse` |
| | `ImplementsInodeTable` | `InodesNeverReused` |
| `FilesystemManagerCallProofs` | `ClearingMirrorsSource` | `ClearingCallMirrorsSource` |
| | `BeforeServesSourceFirst` | `BeforePutsSourceFirst` |
| | `AfterKeepsNames` | `AfterNeverShadows` |
| | `FailuresDoNoMore` | `FailureDamage` |
| | `OnlyUnmountLeavesUnexplained` | `OnlyUnmountLosesExplanation` |
| | `UnmountingKeepsOtherWinner` | `UnmountKeepsOtherWinner` |
| `SessionProofs` | `TypeCorrect` | `TypeOK` |
| | `QuietFilesSayTheState` | `QuietFileIsState` |
| | `AttachedStaysListed` | `AttachedIsListed` |
| `NinePProofs` | `TypeCorrect` | `TypeOK` |
| | `NumberingNeverPanics` | `NoPanicAtNumbering` |
| | `LockOrderPreventsDeadlock` | `NoWaitCycle` |
| | `ImplementsInodeTable` | `InodesNeverReused` |
| `CommandPipeProofs` | `TypeCorrect` | `TypeOK` |
| | `ImplementsCommandDelivery` | `DeliveredAtMostOnce` |
| `SessionRegistryProofs` | `TypeCorrect` | `TypeOK` |
| | `EmptyFilesAreUnderWay` | `EmptyOnlyWhileWritten` |
| | `RegistrationsLast` | `RegisteredUntilReplaced` |

**Assumptions.** Only the named ones of the modules. Of the host (`TreeAssumption`, `RootNameAssumption`):
its files form a finite forest, a path names a file or nothing, and no file is called "."; that holds of any
file system without bind mounts of its own. Of `Session`: each spelling of a directory names one. Of
`NineP`: a bind finds no file that is called "/" or ".". The others keep marks apart (`Nobody` is no thread,
`SessionProcess` no sender, no sender a listener, the marks of a file no pids), ask that there be a session
and a pid, or say that a bound is a natural number.

**FilesystemManager.** The inductive invariant `IInv` is the conjunction of the four invariants. None is
inductive alone: that old entries are not overwritten needs every number in the table to be below
`next_inode`, that read-only entries stay oldest needs the same to place new entries after old ones, and all
of it needs the types. The argument rests on lemmas about walks (a walk from `n` numbers its entries from
`n` up to, and not including, the `next` it returns, whether it succeeds or fails), about `Extend` and
`Merges` (a merge adds entries of the second table only), and about a vector from which entries were removed
(`Retained`). A step of `Next` is then one case per action. `ImplementsInodeTable` shows that a table after
a step holds old entries unchanged and new ones under numbers that were not issued before.

**What the calls do** needs to know what a walk finds, whatever the listing. `ListingIsWalk` derives it from
`IsListing` and the forest: a listing holds every file below its directory once, and no file before its
directory. Nothing is missing because the listed files are closed under `Children`; nothing else is listed and
nothing precedes its directory because a set of files in which each has its directory in the set would be a
set without a top, and a finite forest has none (`HasTop`, from the library's theorems on the well-founded
order of finite sets). `WalkEntries` carries that over to what a walk leaves, complete or broken (`WalkedTable`,
`WholeTable`), and `Merging` says which names a merge fills. Each mode is then a matter of how the code stacks
walks and merges, which is what the theorems follow. `UnmountingKeepsOtherWinner` rests on `retain` keeping
the last of those that stay last, for vectors of any length (`RetainedKeepsLast`).

**Session.** Three invariants carry it. `RunInv`: while `is_running` is set nothing ends or removes the
file. `FileInv`: if no copy is due (`Due`: the handler is about to take one, or a success message is queued
or about to be sent), the copy that the handler has is the state and no other content is in the file or
being written. `AttachInv`: for a mount in the namespace its target is listed and not about to be forgotten,
or a mount of that target is on its way to the state. The last is what a test would hardly find:
`remove_mount` may forget a mount that the listener has recorded for the same directory, and only the
message that the listener sends afterwards lists it again. That the listener's copy is never stale rests on
the read lock that it keeps to the end of its write (`ListenerInv`).

**NineP.** `LockInv` says that what a thread keeps is the beginning of its operation's list of locks,
whatever it does, panics in or is stuck in. `LockOrder` says what the lists have in common: they agree on
one order with `next_inode` last. So of the threads that wait for each other the one that waits for the
highest lock would wait for a holder that waits higher still. And whoever wants `next_inode` keeps the
table, as does whoever panics with `next_inode`: so `next_inode` is poisoned only when the table is
(`LockInv` says that too), and a thread that has got the table finds it sound. The table is treated apart,
by what a step may make of it (`TableStep`).

**CommandPipe.** From its write on a piece of a command is in at most one pipe or one listener's text, there
once, and in neither once it has run (`PlaceInv`, `DistinctInv`); where it is, its sender has that pipe open
until it closes it (`OpenInv`), so a listener that has met the end of the file has nothing of a sender that
still writes; with one pipe the three are in the order of sending (`OrderInv`). While a listener is alone, every
pipe holds pieces that follow each other and end with a command's last one, and its own text goes on where its
pipe begins (`AloneInv`), so what it takes for a command at the end of the file is one. Each step is then a
step of `CommandDelivery` or changes nothing that it sees.

**SessionRegistry.** A session has one creator (`CreatorInv`) and no two running processes have one pid
(`PidInv`); until the creator has written it, nobody has read a pid (`YoungInv`), so nobody joins, signals or
removes; only who has joined rewrites a file (`ThreadInv`), and a file that is being rewritten no longer names
the process that runs (`RewriteInv`). `KillInv` is what makes the three steps of a kill safe: a pid that was
read and signalled is not that of a process that still runs, so the removal takes only a file that names
another.

**Only model-checked.** The liveness properties, which are out of the proof system's reach: `FileConverges`,
`ShutdownStopsHandler`, `OperationsReturn`, `SendersReturn`, `LoneCommandRuns` and `PurgeClearsOrphans`; and the
violation runs, which need one counterexample each. Induction over data is out of reach as well, and is not
needed: what the code computes in loops over a directory or a vector is given in the modules by what it returns
(`IsListing`, `Retained`), so that the theorems are about every result that the code may produce.

## The plan

1. *Done:* `FilesystemManager`, its abstract specification and its first theorems; `Session` and its runs;
   `NineP` and its runs.
2. *Done:* `CommandPipe` with `CommandDelivery`, and `SessionRegistry`.
3. *Done:* proofs of every safety property that the passing runs check.
4. Proofs left: the lock discipline of `Session` (a writer of the state excludes readers, and the namespace's
   lock is taken before the state's and never the other way round, so that its threads do not wait in a circle),
   which runs see only through `FileConverges`.
5. Open: what the FUSE callbacks answer, and the permissions that `wstat` changes.

## Not modelled

* What the FUSE callbacks of `NineP` answer, qids, attributes and permissions: nothing in the repository
  mounts `NineP` with fuser, and no other operation reads what `wstat` writes.
* The child that `send_mount_command` forks: its mount changes its own copy of the tables and it exits. It may
  wait forever for a lock that the listener held at the fork (`session.rs:373`).
* Parsing and printing in `main.rs`, logging, and the contents of files and records beyond what is said above.
* `handle_unmount` and `mount_directory`, which nothing calls.
