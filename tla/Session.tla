------------------------------- MODULE Session -------------------------------
(***************************************************************************)
(* One Session and its three threads (session.rs, from SessionMessage on): *)
(*                                                                         *)
(*   "api"       the thread that created the session and calls its methods *)
(*   "handler"   run_message_handler, the only reader of the channel       *)
(*   "listener"  run_command_listener, which carries out the commands that *)
(*               arrive through the named pipe                             *)
(*                                                                         *)
(* They share the channel, the SessionState behind an RwLock, the session  *)
(* file and the namespace of the FilesystemManager.  A thread is between   *)
(* two steps wherever another thread can observe or change something in    *)
(* the code: around every use of a lock, of the channel, of is_running and *)
(* between the truncation and the write that fs::write consists of.        *)
(*                                                                         *)
(* The namespace is reduced to which sources are attached to a directory,  *)
(* by which path, and whether the call that attached them returned Ok      *)
(* (FilesystemManager has the rest).  The id, the process id and the root that the session file   *)
(* also holds never change in one process and are left out.  Writing the   *)
(* file is assumed to succeed: the code only logs a failure.               *)
(***************************************************************************)
EXTENDS Naturals, SequencesExt

CONSTANTS
  Source,       \* the paths that may be mounted or bound
  Target,       \* the paths they may be attached to, as the caller wrote them
  Node,         \* the directories the targets name
  Canon,        \* fs::canonicalize on targets
  Direct,       \* bound: the methods of fs_manager that the api thread itself calls
  MaxCalls,     \* bound: the calls the api thread makes
  MaxCommands   \* bound: the commands that arrive through the pipe

ASSUME CanonAssumption == Canon \in [Target -> Node]
ASSUME DirectAssumption == Direct \subseteq {"Mount", "Bind", "Unmount"}
ASSUME BoundAssumption == MaxCalls \in Nat /\ MaxCommands \in Nat

Thread == {"api", "handler", "listener"}
NoThread == "nobody"

Attach == [kind : {"Mount", "Bind"}, source : Source, target : Target]
Done == [kind : {"MountSuccess", "BindSuccess"}, source : Source, target : Target]
Unmount == [kind : {"Unmount"}, target : Target]
SessionMessage == Attach \cup Done \cup Unmount \cup {[kind |-> "Shutdown"]}

Absent == [text |-> "absent"]   \* there is no session file
Empty == [text |-> "empty"]     \* fs::write has truncated it and not written yet
Torn == [text |-> "torn"]       \* two writers' bytes in one file: it does not parse

VARIABLES
  pc,           \* where each thread is
  job,          \* the message or command each thread works on
  queue,        \* the channel
  is_running,   \* the flag that shutdown clears
  mounts,       \* SessionState.mounts: a set of source and target pairs
  binds,        \* SessionState.binds: a sequence of such pairs
  writer,       \* the thread that keeps the state's write lock, or NoThread
  readers,      \* the threads that keep its read lock
  ns_lock,      \* the thread that keeps the namespace's write lock, or NoThread
  attached,     \* per directory, what the namespace has there
  snap,         \* the SessionInfo each thread is about to write
  linked,       \* whether the file a thread has open is still the session file
  file,         \* the session file
  calls, commands

vars == <<pc, job, queue, is_running, mounts, binds, writer, readers, ns_lock, attached,
          snap, linked, file, calls, commands>>

Pair == Source \X Target
Info == [mounts : SUBSET Pair, binds : Seq(Pair)]
NothingRecorded == [mounts |-> {}, binds |-> << >>]
Idle == [kind |-> "-"]

TypeOK ==
  /\ pc \in [Thread -> {"idle", "check", "recv", "fs", "update", "send", "read", "open", "write",
                        "stopping", "cleaning", "failed", "down", "ended", "gone"}]
  /\ job \in [Thread -> SessionMessage \cup {Idle}]
  /\ queue \in Seq(SessionMessage)
  /\ is_running \in BOOLEAN
  /\ mounts \subseteq Pair
  /\ binds \in Seq(Pair)
  /\ writer \in {NoThread, "handler"}
  /\ readers \subseteq {"handler", "listener"}
  /\ ns_lock \in {NoThread, "api"}
  /\ attached \in [Node -> SUBSET [kind : {"Mount", "Bind"}, source : Source, target : Target,
                                   ok : BOOLEAN]]
  /\ snap \in [Thread -> Info]
  /\ linked \in [Thread -> BOOLEAN]
  /\ file \in Info \cup {Absent, Empty, Torn}
  /\ calls \in 0 .. MaxCalls
  /\ commands \in 0 .. MaxCommands

(* Session::new: SessionState::load starts with nothing recorded, whatever *)
(* the session file says.  The file is there if create_session made it.    *)
Init ==
  /\ pc = [t \in Thread |-> IF t = "handler" THEN "check" ELSE "idle"]
  /\ job = [t \in Thread |-> Idle]
  /\ queue = << >>
  /\ is_running = TRUE
  /\ mounts = {}
  /\ binds = << >>
  /\ writer = NoThread
  /\ readers = {}
  /\ ns_lock = NoThread
  /\ attached = [n \in Node |-> {}]
  /\ snap = [t \in Thread |-> NothingRecorded]
  /\ linked = [t \in Thread |-> FALSE]
  /\ file \in {Absent, NothingRecorded}
  /\ calls = 0
  /\ commands = 0
-----------------------------------------------------------------------------
Goto(t, place) == pc' = [pc EXCEPT ![t] = place]

(* The handler owns the Receiver: once it has returned, every send fails.  *)
ReceiverAlive == pc["handler"] \notin {"ended", "gone"}
Send(m) == queue' = IF ReceiverAlive THEN Append(queue, m) ELSE queue

AddMount(m, s, t) == {p \in m : p[2] # t} \cup {<<s, t>>}
RemoveMount(m, t) == {p \in m : p[2] # t}

NamespaceFree(t) == ns_lock \in {NoThread, t}
StateFree == writer = NoThread /\ readers = {}

(* fs_manager.mount, bind and unmount(.., None) as the session sees them:  *)
(* refused before the namespace was touched, failed after an entry was     *)
(* pushed, or carried out.                                                 *)
Effect(j, outcome) ==
  attached' = [attached EXCEPT ![Canon[j.target]] =
                 CASE outcome = "refused" -> @
                   [] j.kind = "Unmount" -> {}
                   [] OTHER -> @ \cup {[kind |-> j.kind, source |-> j.source, target |-> j.target,
                                      ok |-> outcome = "ok"]}]
Outcomes(j) == IF j.kind = "Unmount" THEN {"ok", "refused"} ELSE {"ok", "failed", "refused"}
-----------------------------------------------------------------------------
(* The state and the file, for whichever thread *)

Record_OnlyOnce(j) ==   \* mutant: the message of a notification records nothing again
  CASE j.kind = "Mount" -> mounts' = AddMount(mounts, j.source, j.target) /\ UNCHANGED binds
    [] j.kind = "Bind" -> binds' = Append(binds, <<j.source, j.target>>) /\ UNCHANGED mounts
    [] j.kind = "Unmount" -> mounts' = RemoveMount(mounts, j.target) /\ UNCHANGED binds
    [] OTHER -> UNCHANGED <<mounts, binds>>

Record(j) ==
  CASE j.kind \in {"Mount", "MountSuccess"} ->
         mounts' = AddMount(mounts, j.source, j.target) /\ UNCHANGED binds
    [] j.kind \in {"Bind", "BindSuccess"} ->
         binds' = Append(binds, <<j.source, j.target>>) /\ UNCHANGED mounts
    [] j.kind = "Unmount" ->
         mounts' = RemoveMount(mounts, j.target) /\ UNCHANGED binds

(* "state.read()", kept while the file is written, and the copy of the     *)
(* state that goes into the file.                                          *)
ReadState(t) ==
  /\ pc[t] = "read"
  /\ writer = NoThread
  /\ readers' = readers \cup {t}
  /\ snap' = [snap EXCEPT ![t] = [mounts |-> mounts, binds |-> binds]]
  /\ Goto(t, "open")
  /\ UNCHANGED <<job, queue, is_running, mounts, binds, writer, ns_lock, attached, linked, file,
                 calls, commands>>

(* The first half of fs::write: create the file or truncate it. *)
OpenFile(t) ==
  /\ pc[t] = "open"
  /\ file' = Empty
  /\ linked' = [linked EXCEPT ![t] = TRUE]
  /\ Goto(t, "write")
  /\ UNCHANGED <<job, queue, is_running, mounts, binds, writer, readers, ns_lock, attached, snap,
                 calls, commands>>

(* Writing new from the start of a file that holds old.  What is longer    *)
(* than new stays behind it; that cannot happen when new says everything   *)
(* that old says.                                                          *)
Written(old, new) ==
  IF old = Empty \/ (old \in Info /\ old.mounts \subseteq new.mounts /\ IsPrefix(old.binds, new.binds))
  THEN {new}
  ELSE {new, Torn}

WriteFile_KeepsReadLock(t) ==   \* mutant: the read guard outlives the write
  /\ pc[t] = "write"
  /\ IF linked[t] THEN file' \in Written(file, snap[t]) ELSE UNCHANGED file
  /\ linked' = [linked EXCEPT ![t] = FALSE]
  /\ writer' = IF writer = t THEN NoThread ELSE writer
  /\ Goto(t, IF t = "handler" THEN "check" ELSE "idle")
  /\ UNCHANGED <<job, queue, is_running, mounts, binds, readers, ns_lock, attached, snap, calls,
                 commands>>

(* The second half, after which the locks go.  A file that shutdown has    *)
(* removed in between is written all the same, but nobody can see it.      *)
WriteFile(t) ==
  /\ pc[t] = "write"
  /\ IF linked[t] THEN file' \in Written(file, snap[t]) ELSE UNCHANGED file
  /\ linked' = [linked EXCEPT ![t] = FALSE]
  /\ writer' = IF writer = t THEN NoThread ELSE writer
  /\ readers' = readers \ {t}
  /\ Goto(t, IF t = "handler" THEN "check" ELSE "idle")
  /\ UNCHANGED <<job, queue, is_running, mounts, binds, ns_lock, attached, snap, calls, commands>>
-----------------------------------------------------------------------------
(* run_message_handler *)

(* while is_running.load(..) *)
HandlerCheck ==
  /\ pc["handler"] = "check"
  /\ Goto("handler", IF is_running THEN "recv" ELSE "ended")
  /\ UNCHANGED <<job, queue, is_running, mounts, binds, writer, readers, ns_lock, attached, snap,
                 linked, file, calls, commands>>

HandlerRecv ==
  /\ pc["handler"] = "recv"
  /\ queue # << >>
  /\ LET m == Head(queue)
     IN  /\ job' = [job EXCEPT !["handler"] = m]
         /\ Goto("handler", CASE m.kind \in {"Mount", "Bind", "Unmount"} -> "fs"
                              [] m.kind \in {"MountSuccess", "BindSuccess"} -> "update"
                              [] m.kind = "Shutdown" -> "ended")
  /\ queue' = Tail(queue)
  /\ UNCHANGED <<is_running, mounts, binds, writer, readers, ns_lock, attached, snap, linked,
                 file, calls, commands>>

(* fs_manager.mount, bind or unmount; an error is logged and forgotten. *)
HandlerCall ==
  /\ pc["handler"] = "fs"
  /\ NamespaceFree("handler")
  /\ \E outcome \in Outcomes(job["handler"]) :
        /\ Effect(job["handler"], outcome)
        /\ Goto("handler", IF outcome = "ok" THEN "update" ELSE "check")
  /\ UNCHANGED <<job, queue, is_running, mounts, binds, writer, readers, ns_lock, snap, linked,
                 file, calls, commands>>

(* state.write(): Mount and MountSuccess take their copy and drop the lock *)
(* before they write the file, Bind and Unmount keep it until the file is  *)
(* written, BindSuccess drops it and takes the read lock for the copy.     *)
HandlerUpdate ==
  LET j == job["handler"]
  IN  /\ pc["handler"] = "update"
      /\ StateFree
      /\ Record(j)
      /\ snap' = [snap EXCEPT !["handler"] = [mounts |-> mounts', binds |-> binds']]
      /\ writer' = IF j.kind \in {"Bind", "Unmount"} THEN "handler" ELSE NoThread
      /\ Goto("handler", IF j.kind = "BindSuccess" THEN "read" ELSE "open")
      /\ UNCHANGED <<job, queue, is_running, readers, ns_lock, attached, linked, file, calls,
                     commands>>

Handler ==
  \/ HandlerCheck
  \/ HandlerRecv
  \/ HandlerCall
  \/ HandlerUpdate
  \/ ReadState("handler")
  \/ OpenFile("handler")
  \/ WriteFile("handler")
-----------------------------------------------------------------------------
(* fs_manager on the two other threads, and notify_mount_success and       *)
(* notify_bind_success                                                     *)

DirectCall_SharedSession(t) ==   \* mutant: every thread has a current session
  LET j == job[t]
  IN  /\ pc[t] = "fs"
      /\ NamespaceFree(t)
      /\ \E outcome \in Outcomes(j) :
            LET notifies == outcome = "ok" /\ j.kind # "Unmount"
            IN  /\ Effect(j, outcome)
                /\ Goto(t, IF notifies THEN "update" ELSE "idle")
                /\ ns_lock' = IF notifies THEN t ELSE ns_lock
      /\ UNCHANGED <<job, queue, is_running, mounts, binds, writer, readers, snap, linked, file,
                     calls, commands>>

(* The listener lets the namespace go when mount or bind returns.  The api *)
(* thread is the only one that has a current session, so there the         *)
(* notification is a part of mount and bind, under the namespace's lock.   *)
(* fs_manager.unmount notifies nobody.                                     *)
DirectCall(t) ==
  LET j == job[t]
  IN  /\ pc[t] = "fs"
      /\ NamespaceFree(t)
      /\ \E outcome \in Outcomes(j) :
            LET notifies == outcome = "ok" /\ j.kind # "Unmount"
            IN  /\ Effect(j, outcome)
                /\ Goto(t, IF notifies THEN "update" ELSE "idle")
                /\ ns_lock' = IF t = "api" /\ notifies THEN "api" ELSE ns_lock
      /\ UNCHANGED <<job, queue, is_running, mounts, binds, writer, readers, snap, linked, file,
                     calls, commands>>

(* The state first, ... *)
NotifyState(t) ==
  /\ pc[t] = "update"
  /\ StateFree
  /\ Record(job[t])
  /\ Goto(t, "send")
  /\ UNCHANGED <<job, queue, is_running, writer, readers, ns_lock, attached, snap, linked, file,
                 calls, commands>>

NotifyMessage_Lost(t) ==   \* mutant: the notification stops at the state
  LET j == job[t]
  IN  /\ pc[t] = "send"
      /\ Goto(t, IF t = "listener" /\ j.kind = "Bind" THEN "read" ELSE "idle")
      /\ ns_lock' = IF ns_lock = t THEN NoThread ELSE ns_lock
      /\ UNCHANGED <<job, queue, is_running, mounts, binds, writer, readers, attached, snap, linked,
                     file, calls, commands>>

(* ... then the message.  A failed send is logged; the listener goes on to *)
(* write the file after a bind, whether the send succeeded or not.         *)
NotifyMessage(t) ==
  LET j == job[t]
  IN  /\ pc[t] = "send"
      /\ Send([kind |-> IF j.kind = "Mount" THEN "MountSuccess" ELSE "BindSuccess",
               source |-> j.source, target |-> j.target])
      /\ Goto(t, IF t = "listener" /\ j.kind = "Bind" THEN "read" ELSE "idle")
      /\ ns_lock' = IF ns_lock = t THEN NoThread ELSE ns_lock
      /\ UNCHANGED <<job, is_running, mounts, binds, writer, readers, attached, snap, linked,
                     file, calls, commands>>

Notifier(t) == DirectCall(t) \/ NotifyState(t) \/ NotifyMessage(t)
-----------------------------------------------------------------------------
(* run_command_listener: it never looks at is_running. *)

Command ==
  /\ pc["listener"] = "idle"
  /\ commands < MaxCommands
  /\ commands' = commands + 1
  /\ job' \in {[job EXCEPT !["listener"] = j] : j \in Attach}
  /\ Goto("listener", "fs")
  /\ UNCHANGED <<queue, is_running, mounts, binds, writer, readers, ns_lock, attached, snap,
                 linked, file, calls>>

Listener ==
  \/ Notifier("listener")
  \/ ReadState("listener")
  \/ OpenFile("listener")
  \/ WriteFile("listener")
-----------------------------------------------------------------------------
(* The methods of Session *)

MayCall ==
  /\ pc["api"] = "idle"
  /\ calls < MaxCalls
  /\ calls' = calls + 1

(* session.mount, bind and unmount only queue a message. *)
Enqueue ==
  /\ MayCall
  /\ \E m \in Attach \cup Unmount : Send(m)
  /\ UNCHANGED <<pc, job, is_running, mounts, binds, writer, readers, ns_lock, attached, snap,
                 linked, file, commands>>

(* session.fs_manager is public: its methods run on the calling thread.    *)
CallDirectly ==
  /\ MayCall
  /\ job' \in {[job EXCEPT !["api"] = j] : j \in {k \in Attach \cup Unmount : k.kind \in Direct}}
  /\ Goto("api", "fs")
  /\ UNCHANGED <<queue, is_running, mounts, binds, writer, readers, ns_lock, attached, snap,
                 linked, file, commands>>

(* shutdown, in three steps: clear the flag, ... *)
ShutdownStore ==
  /\ pc["api"] = "idle"
  /\ is_running' = FALSE
  /\ Goto("api", "stopping")
  /\ UNCHANGED <<job, queue, mounts, binds, writer, readers, ns_lock, attached, snap, linked,
                 file, calls, commands>>

ShutdownSend_FlagOnly ==   \* mutant: the cleared flag is taken to be enough
  /\ pc["api"] = "stopping"
  /\ Goto("api", IF ReceiverAlive THEN "cleaning" ELSE "failed")
  /\ UNCHANGED <<job, queue, is_running, mounts, binds, writer, readers, ns_lock, attached, snap,
                 linked, file, calls, commands>>

(* ... send Shutdown and return Err if the handler is gone already, ...    *)
ShutdownSend ==
  /\ pc["api"] = "stopping"
  /\ Send([kind |-> "Shutdown"])
  /\ Goto("api", IF ReceiverAlive THEN "cleaning" ELSE "failed")
  /\ UNCHANGED <<job, is_running, mounts, binds, writer, readers, ns_lock, attached, snap, linked,
                 file, calls, commands>>

(* ... read the id from the state and remove the session file. *)
ShutdownRemove ==
  /\ pc["api"] = "cleaning"
  /\ writer = NoThread
  /\ file' = Absent
  /\ linked' = [t \in Thread |-> FALSE]
  /\ Goto("api", "down")
  /\ UNCHANGED <<job, queue, is_running, mounts, binds, writer, readers, ns_lock, attached, snap,
                 calls, commands>>

(* After shutdown, whatever it returned, the process may exit at any       *)
(* moment and takes the other two threads with it.                         *)
Exit ==
  /\ pc["api"] \in {"failed", "down"}
  /\ pc' = [t \in Thread |-> "gone"]
  /\ UNCHANGED <<job, queue, is_running, mounts, binds, writer, readers, ns_lock, attached, snap,
                 linked, file, calls, commands>>

Api ==
  \/ Notifier("api")
  \/ ShutdownSend
  \/ ShutdownRemove

Next ==
  \/ Handler \/ Listener \/ Api
  \/ Command \/ Enqueue \/ CallDirectly \/ ShutdownStore
  \/ Exit

(* A thread that can go on goes on.  Nobody has to call a method, to send  *)
(* a command, to shut down or to exit.                                     *)
Spec == Init /\ [][Next]_vars /\ WF_vars(Handler) /\ WF_vars(Listener) /\ WF_vars(Api)
-----------------------------------------------------------------------------
(* Properties *)

Quiescent ==
  /\ is_running
  /\ queue = << >>
  /\ pc["handler"] \in {"check", "recv"}
  /\ pc["listener"] = "idle"
  /\ pc["api"] = "idle"

FileIsState ==
  LET now == [mounts |-> mounts, binds |-> binds]
  IN  file = now \/ (file = Absent /\ now = NothingRecorded)

(* Whatever way the writes of the handler, which uses stale copies without *)
(* a lock, and of the listener interleave: when nobody has anything to do, *)
(* the session file says what the session's state says.  The message that  *)
(* follows every notification makes the handler write once more.           *)
QuietFileIsState == Quiescent => FileIsState

(* While nobody has anything to do, a bind that returned Ok and that no    *)
(* unmount detached is listed with its source and its target, and a target *)
(* to which a mount is attached in this way is listed as mounted: the      *)
(* handler's unmount forgets the target's mount after it has let the       *)
(* namespace go, and the listener mounts in between.  The source in the    *)
(* list may be another one: add_mount keeps the mount of a target that was *)
(* recorded last, where the namespace keeps them all, so an earlier mount  *)
(* of the same target stays attached and is in no list.                    *)
AttachedIsListed ==
  Quiescent =>
    \A n \in Node : \A a \in attached[n] : a.ok =>
       \/ a.kind = "Mount" /\ \E p \in mounts : p[2] = a.target
       \/ a.kind = "Bind" /\ <<a.source, a.target>> \in ToSet(binds)

(* A session that is not shut down gets its changes into the file and      *)
(* comes to rest once nothing is asked of it any more: no thread blocks    *)
(* another forever and no message stays in the channel.                    *)
FileConverges == []is_running => <>[](Quiescent /\ FileIsState)

(* shutdown always ends the handler, even one that waits in recv.          *)
ShutdownStopsHandler == ~ is_running ~> ~ ReceiverAlive
-----------------------------------------------------------------------------
(* What the repository says of the session and the code does not do *)

(* session.rs:38, "List of active mounts": when nobody has anything to do, *)
(* a listed mount is attached.                                             *)
ListedMountsAreActive ==
  Quiescent =>
    \A p \in mounts : \E a \in attached[Canon[p[2]]] : a.kind = "Mount" /\ a.source = p[1]

(* session.rs:763, "ensures all resources are properly cleaned up": when   *)
(* shutdown has returned Ok and the other threads have nothing to do any   *)
(* more, the session file is gone.                                         *)
ShutdownRemovesFile ==
  pc["api"] = "down" /\ pc["handler"] = "ended" /\ pc["listener"] = "idle" => file = Absent
=============================================================================
