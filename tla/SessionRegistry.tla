---------------------------- MODULE SessionRegistry ----------------------------
(***************************************************************************)
(* The registry of sessions (session.rs, SessionManager): one file per     *)
(* session, which holds a pid, in a directory that all processes share.    *)
(* The processes are clients, each of which runs one command of main.rs or *)
(* one function of SessionManager and ends, and for every session that was *)
(* created the process of InternalSession.                                 *)
(*                                                                         *)
(* bind and mount create a session and then send to it, send_bind and      *)
(* send_mount send to one that exists.  A client that has sent a mount     *)
(* holds a Session (joined): until it ends, its threads rewrite the file   *)
(* after every command that some client got to them, with its own pid.     *)
(*                                                                         *)
(* fs::write truncates the file or makes a new one, and then writes.  That *)
(* it can fail is left out: the code logs that and goes on.  The pids of   *)
(* processes that have ended are used again.  How commands travel is in    *)
(* CommandPipe, what they do to the state and the file in Session.         *)
(***************************************************************************)
EXTENDS Naturals, FiniteSets

CONSTANTS
  Client,       \* the processes that run a command, one after the other
  Id,           \* the ids of sessions
  Pid,          \* the process ids
  MaxCommands   \* bound: how many commands are started

NoPid == "no-pid"
Absent == "absent"
Empty == "empty"
Garbled == "garbled"

ASSUME PidAssumption == Pid # {} /\ Pid \cap {NoPid, Absent, Empty, Garbled} = {}
ASSUME IdAssumption == Id # {}
ASSUME CommandAssumption == MaxCommands \in Nat

VARIABLES
  pc,        \* where each client is
  cmd,       \* its command: what it is, for which session, and the pid that a kill has read
  pid,       \* the pid of each client, while it runs
  file,      \* the content of each session's file
  proc,      \* the pid of each session's process, until it is reaped
  alive,     \* the sessions whose process runs
  used,      \* the ids that were given to a session
  due,       \* how often each client's threads have yet to rewrite the file
  busy,      \* the clients whose threads are rewriting the file
  linked,    \* the clients that have a session file open which nobody has removed
  left,      \* the files that each purge has yet to remove
  cut,       \* the ids whose file's last writer ended between truncating and writing
  commands   \* how many commands were started

vars == <<pc, cmd, pid, file, proc, alive, used, due, busy, linked, left, cut, commands>>

Creating == {"bind", "mount"}
Sending == {"bind", "mount", "send_bind", "send_mount"}
Op == Sending \cup {"kill", "purge"}

(* That of a client that is off, and of a purge, which is for no session.  *)
NoCommand == [op |-> "purge", id |-> CHOOSE i \in Id : TRUE, seen |-> NoPid]

Running == {c \in Client : pc[c] # "off"}
For(i) == {c \in Running : cmd[c].op \in Sending /\ cmd[c].id = i}
Joined(i) == {c \in For(i) : cmd[c].op \in {"mount", "send_mount"} /\ pc[c] \in {"send", "done"}}
Free == Pid \ ({pid[c] : c \in Client} \cup {proc[i] : i \in Id})

(* The pid of a new process is any free one.  Of those that neither a file *)
(* nor a kill mentions it makes no difference which.                       *)
NewPid ==
  LET unknown == Free \ ({file[i] : i \in Id} \cup {cmd[c].seen : c \in Client})
  IN (Free \ unknown) \cup {p \in unknown : p = CHOOSE q \in unknown : TRUE}

TypeOK ==
  /\ pc \in [Client -> {"off", "spawn", "truncate", "write", "get", "send",
                        "read", "signal", "remove", "clear", "done", "failed"}]
  /\ cmd \in [Client -> [op : Op, id : Id, seen : Pid \cup {NoPid}] \cup {NoCommand}]
  /\ pid \in [Client -> Pid \cup {NoPid}]
  /\ file \in [Id -> Pid \cup {Absent, Empty, Garbled}]
  /\ proc \in [Id -> Pid \cup {NoPid}]
  /\ alive \subseteq used /\ used \subseteq Id
  /\ due \in [Client -> 0 .. MaxCommands]
  /\ busy \subseteq Running /\ linked \subseteq Running
  /\ left \in [Client -> SUBSET Id]
  /\ cut \subseteq Id
  /\ commands \in 0 .. MaxCommands

(* Sessions of earlier days may have left a file, with the pid of a process *)
(* that has ended.                                                         *)
Init ==
  /\ pc = [c \in Client |-> "off"]
  /\ cmd = [c \in Client |-> NoCommand]
  /\ pid = [c \in Client |-> NoPid]
  /\ file \in [Id -> {Absent, CHOOSE p \in Pid : TRUE}]
  /\ used = {i \in Id : file[i] # Absent}
  /\ proc = [i \in Id |-> NoPid]
  /\ alive = {}
  /\ due = [c \in Client |-> 0]
  /\ busy = {} /\ linked = {}
  /\ left = [c \in Client |-> {}]
  /\ cut = {}
  /\ commands = 0
-----------------------------------------------------------------------------
(* The clients' steps *)

FirstStep(op) ==
  CASE op \in Creating -> "spawn"
    [] op \in Sending \ Creating -> "get"
    [] op = "kill" -> "read"
    [] op = "purge" -> "clear"

(* A process starts.  A new session has a new id, the other commands are   *)
(* given the id of some session.  purge_sessions kills what list_sessions  *)
(* returns, which is nothing, as no session file's name ends in .json, and *)
(* reads the directory.  For the same reason create_session finds no       *)
(* session to use again.                                                   *)
Start(c) ==
  /\ pc[c] = "off"
  /\ commands < MaxCommands
  /\ \E p \in NewPid : pid' = [pid EXCEPT ![c] = p]
  /\ \/ \E op \in Op \ {"purge"}, i \in Id :
           /\ op \in Creating <=> i \notin used
           /\ pc' = [pc EXCEPT ![c] = FirstStep(op)]
           /\ cmd' = [cmd EXCEPT ![c] = [op |-> op, id |-> i, seen |-> NoPid]]
           /\ used' = used \cup {i}
           /\ UNCHANGED left
     \/ /\ pc' = [pc EXCEPT ![c] = FirstStep("purge")]
        /\ left' = [left EXCEPT ![c] = {i \in Id : file[i] # Absent}]
        /\ UNCHANGED <<cmd, used>>
  /\ commands' = commands + 1
  /\ UNCHANGED <<file, proc, alive, due, busy, linked, cut>>

(* posix_spawn, which may fail.                                            *)
Spawn(c) ==
  /\ pc[c] = "spawn"
  /\ \/ /\ \E p \in NewPid : proc' = [proc EXCEPT ![cmd[c].id] = p]
        /\ alive' = alive \cup {cmd[c].id}
        /\ pc' = [pc EXCEPT ![c] = "truncate"]
     \/ /\ pc' = [pc EXCEPT ![c] = "failed"]
        /\ UNCHANGED <<proc, alive>>
  /\ UNCHANGED <<cmd, pid, file, used, due, busy, linked, left, cut, commands>>

(* The two halves of fs::write: client c opens its session's file, and     *)
(* writes p to it.  If somebody has written to the file since, some of     *)
(* that may be left behind the end of what is written now.                 *)
OpenFile(c) ==
  /\ file' = [file EXCEPT ![cmd[c].id] = Empty]
  /\ linked' = linked \cup {c}
  /\ cut' = cut \ {cmd[c].id}
WriteFile(c, p) ==
  /\ IF c \in linked
     THEN \E content \in {p} \cup (IF file[cmd[c].id] = Empty THEN {} ELSE {Garbled}) :
             file' = [file EXCEPT ![cmd[c].id] = content]
     ELSE UNCHANGED file
  /\ linked' = linked \ {c}
  /\ cut' = IF c \in linked THEN cut \ {cmd[c].id} ELSE cut

(* create_session saves the new session's file.                            *)
Truncate(c) ==
  /\ pc[c] = "truncate"
  /\ OpenFile(c)
  /\ pc' = [pc EXCEPT ![c] = "write"]
  /\ UNCHANGED <<cmd, pid, proc, alive, used, due, busy, left, commands>>
Write(c) ==
  /\ pc[c] = "write"
  /\ WriteFile(c, proc[cmd[c].id])
  /\ pc' = [pc EXCEPT ![c] = "get"]
  /\ UNCHANGED <<cmd, pid, proc, alive, used, due, busy, left, commands>>

(* get_session, in main and in the function that sends, which fails if     *)
(* there is no file or it does not parse.  To send a mount a client makes  *)
(* a Session, which may fail as well, and forks.  When the fork fails the  *)
(* client ends, but until then the Session's threads run.                  *)
Get(c) ==
  /\ pc[c] = "get"
  /\ \/ file[cmd[c].id] \in Pid /\ pc' = [pc EXCEPT ![c] = "send"]
     \/ /\ file[cmd[c].id] \notin Pid \/ cmd[c].op \in {"mount", "send_mount"}
        /\ pc' = [pc EXCEPT ![c] = "failed"]
     \/ /\ file[cmd[c].id] \in Pid /\ cmd[c].op \in {"mount", "send_mount"}
        /\ pc' = [pc EXCEPT ![c] = "done"]
  /\ UNCHANGED <<cmd, pid, file, proc, alive, used, due, busy, linked, left, cut, commands>>

(* The command gets to a client that has joined the session and succeeds   *)
(* there, or it does not.  A client without one to send to waits.          *)
Send(c) ==
  /\ pc[c] = "send"
  /\ \/ UNCHANGED due
     \/ \E j \in Joined(cmd[c].id) : due' = [due EXCEPT ![j] = @ + 1]
  /\ pc' = [pc EXCEPT ![c] = "done"]
  /\ UNCHANGED <<cmd, pid, file, proc, alive, used, busy, linked, left, cut, commands>>

(* A thread of a client that holds a Session rewrites the file.            *)
HandlerOpen(c) ==
  /\ due[c] > 0 /\ c \notin busy
  /\ OpenFile(c)
  /\ due' = [due EXCEPT ![c] = @ - 1]
  /\ busy' = busy \cup {c}
  /\ UNCHANGED <<pc, cmd, pid, proc, alive, used, left, commands>>

(* Mutant: the file is truncated when there is nothing to write to it.     *)
HandlerWrite_Nothing(c) ==
  /\ c \in busy
  /\ linked' = linked \ {c}
  /\ busy' = busy \ {c}
  /\ UNCHANGED <<pc, cmd, pid, file, proc, alive, used, due, left, cut, commands>>

(* Mutant: the pid that is stored is that of nobody.                       *)
HandlerWrite_NoPid(c) ==
  /\ c \in busy
  /\ WriteFile(c, NoPid)
  /\ busy' = busy \ {c}
  /\ UNCHANGED <<pc, cmd, pid, proc, alive, used, due, left, commands>>

HandlerWrite(c) ==
  /\ c \in busy
  /\ WriteFile(c, pid[c])
  /\ busy' = busy \ {c}
  /\ UNCHANGED <<pc, cmd, pid, proc, alive, used, due, left, commands>>
-----------------------------------------------------------------------------
(* The end of processes *)

(* What is left when the clients in E and the processes of the sessions in *)
(* S end.  A session's process is reaped by the client that created it or, *)
(* when that has ended, at once.                                           *)
Ends(E, S) ==
  /\ pid' = [c \in Client |-> IF c \in E THEN NoPid ELSE pid[c]]
  /\ cmd' = [c \in Client |-> IF c \in E THEN NoCommand ELSE cmd[c]]
  /\ alive' = alive \ S
  /\ proc' = [i \in Id |->
                IF i \notin alive' /\ ~ \E c \in For(i) \ E : cmd[c].op \in Creating
                THEN NoPid ELSE proc[i]]
  /\ due' = [c \in Client |-> IF c \in E THEN 0 ELSE due[c]]
  /\ busy' = busy \ E
  /\ linked' = linked \ E
  /\ left' = [c \in Client |-> IF c \in E THEN {} ELSE left[c]]
  /\ cut' = cut \cup {cmd[c].id : c \in linked \cap E}

(* A client has returned from its command and slept, or is interrupted.    *)
End(c) ==
  /\ pc[c] # "off"
  /\ pc' = [pc EXCEPT ![c] = "off"]
  /\ Ends({c}, {})
  /\ UNCHANGED <<file, used, commands>>

(* A session's process fails to make its pipe, or somebody else ends it.   *)
SessionEnds(i) ==
  /\ i \in alive
  /\ Ends({}, {i})
  /\ UNCHANGED <<pc, file, used, commands>>
-----------------------------------------------------------------------------
(* kill_session and purge_sessions *)

KillRead(c) ==
  /\ pc[c] = "read"
  /\ \/ /\ file[cmd[c].id] \in Pid
        /\ cmd' = [cmd EXCEPT ![c].seen = file[cmd[c].id]]
        /\ pc' = [pc EXCEPT ![c] = "signal"]
     \/ /\ file[cmd[c].id] \notin Pid
        /\ pc' = [pc EXCEPT ![c] = "done"]
        /\ UNCHANGED cmd
  /\ UNCHANGED <<pid, file, proc, alive, used, due, busy, linked, left, cut, commands>>

(* Mutant: the signal is the one with which create_session asks whether a  *)
(* process runs, SIGCONT.                                                  *)
KillSignal_Cont(c) ==
  /\ pc[c] = "signal"
  /\ pc' = [pc EXCEPT ![c] = IF cmd[c].seen \in Free THEN "done" ELSE "remove"]
  /\ UNCHANGED <<cmd, pid, file, proc, alive, used, due, busy, linked, left, cut, commands>>

(* SIGTERM to whatever process has the pid by now.                         *)
KillSignal(c) ==
  /\ pc[c] = "signal"
  /\ LET E == {d \in Client : pid[d] = cmd[c].seen}
         S == {i \in alive : proc[i] = cmd[c].seen}
     IN /\ pc' = [d \in Client |-> IF d \in E THEN "off"
                                   ELSE IF d # c THEN pc[d]
                                   ELSE IF cmd[c].seen \in Free THEN "done" ELSE "remove"]
        /\ Ends(E, S)
  /\ UNCHANGED <<file, used, commands>>

(* remove_file: those that have the file open write to it in vain.         *)
Unlink(i) ==
  /\ file' = [file EXCEPT ![i] = Absent]
  /\ linked' = {c \in linked : cmd[c].id # i}
  /\ cut' = cut \ {i}

KillRemove(c) ==
  /\ pc[c] = "remove"
  /\ Unlink(cmd[c].id)
  /\ pc' = [pc EXCEPT ![c] = "done"]
  /\ UNCHANGED <<cmd, pid, proc, alive, used, due, busy, left, commands>>

(* Mutant: a purge gives up when a file that it wants to remove is gone.   *)
PurgeRemove_GivesUp(c) ==
  /\ pc[c] = "clear"
  /\ \/ /\ left[c] = {}
        /\ pc' = [pc EXCEPT ![c] = "done"]
        /\ UNCHANGED <<file, linked, cut, left>>
     \/ \E i \in left[c] :
           /\ Unlink(i)
           /\ left' = [left EXCEPT ![c] = @ \ {i}]
           /\ pc' = [pc EXCEPT ![c] = IF file[i] = Absent THEN "done" ELSE "clear"]
  /\ UNCHANGED <<cmd, pid, proc, alive, used, due, busy, commands>>

(* One file after the other; that a file is gone is only logged.           *)
PurgeRemove(c) ==
  /\ pc[c] = "clear"
  /\ \/ /\ left[c] = {}
        /\ pc' = [pc EXCEPT ![c] = "done"]
        /\ UNCHANGED <<file, linked, cut, left>>
     \/ \E i \in left[c] :
           /\ Unlink(i)
           /\ left' = [left EXCEPT ![c] = @ \ {i}]
           /\ UNCHANGED pc
  /\ UNCHANGED <<cmd, pid, proc, alive, used, due, busy, commands>>

Work(c) ==
  \/ Spawn(c) \/ Truncate(c) \/ Write(c) \/ Get(c) \/ HandlerOpen(c) \/ HandlerWrite(c)
  \/ KillRead(c) \/ KillSignal(c) \/ KillRemove(c) \/ PurgeRemove(c)

Next ==
  \/ \E c \in Client : Start(c) \/ Work(c) \/ Send(c) \/ End(c)
  \/ \E i \in Id : SessionEnds(i)

(* A client that does not wait for a pipe goes on.  Nobody has to start or *)
(* end a process.                                                          *)
Spec == Init /\ [][Next]_vars /\ \A c \in Client : WF_vars(Work(c))
-----------------------------------------------------------------------------
(* Properties *)

(* A session file without content has a process that is about to write to  *)
(* it, however creations, rewrites, kills and purges interleave, unless    *)
(* the last process that opened it has ended before it wrote.              *)
EmptyOnlyWhileWritten ==
  \A i \in Id : file[i] = Empty => i \in cut \/ \E c \in linked : cmd[c].id = i

(* As long as a session's process runs, its file names it until a client   *)
(* that has joined the session rewrites the file or a purge removes it.    *)
(* No kill takes the file of a process that it does not end.               *)
RegisteredUntilReplaced ==
  [][\A i \in alive \cap alive' :
        file[i] = proc[i] /\ file'[i] # proc[i] =>
           \/ \E c \in Joined(i) : c \in linked' \ linked
           \/ \E c \in Client : i \in left[c] \ left'[c] /\ pc[c] = "clear"]_vars

(* A purge that is not interrupted removes every file it has found, if no  *)
(* client works for the session, also when kills or another purge take     *)
(* files from under it.                                                    *)
PurgeClearsOrphans ==
  \A c \in Client, i \in Id :
     (pc[c] = "clear" /\ i \in left[c]) ~> (file[i] = Absent \/ For(i) # {} \/ pc[c] = "off")
-----------------------------------------------------------------------------
(* What the repository says and the code does not do *)

(* session.rs:223, "Terminates a specific session": when kill_session      *)
(* returns Ok, the session's process has ended.                            *)
KillTerminates ==
  [][\A c \in Client :
        pc[c] = "remove" /\ pc'[c] = "done" /\ file[cmd[c].id] # Absent => cmd[c].id \notin alive']_vars
=============================================================================
