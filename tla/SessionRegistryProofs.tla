------------------------- MODULE SessionRegistryProofs -------------------------
(***************************************************************************)
(* What the files of the sessions may hold and who may take one from a     *)
(* process that runs, for any number of clients, sessions, pids and        *)
(* commands.                                                               *)
(***************************************************************************)
EXTENDS SessionRegistry, FiniteSetTheorems, TLAPS

(* A client's place says what its command is.                              *)
PlaceInv ==
  \A c \in Client :
    /\ pc[c] \in {"off", "clear"} => cmd[c] = NoCommand
    /\ pc[c] \in {"spawn", "truncate", "write"} => cmd[c].op \in Creating
    /\ pc[c] \in {"get", "send", "failed"} => cmd[c].op \in Sending
    /\ pc[c] \in {"read", "signal", "remove"} => cmd[c].op = "kill"
    /\ pc[c] \in {"signal", "remove"} => cmd[c].seen \in Pid
    /\ pc[c] # "off" => pid[c] \in Pid

(* Nobody works for a session before it is created, and it has no file.    *)
UsedInv ==
  /\ \A c \in Client : cmd[c].op # "purge" => cmd[c].id \in used
  /\ \A i \in Id : i \notin used => file[i] = Absent

(* At most one client has created a session.                               *)
CreatorInv ==
  \A c, d \in Client :
    cmd[c].op \in Creating /\ cmd[d].op \in Creating /\ cmd[c].id = cmd[d].id => c = d

(* A session's process shares its pid with no client, and it keeps the pid *)
(* until its creator has stored it.                                        *)
PidInv ==
  /\ \A c \in Client, i \in Id : pid[c] = proc[i] => proc[i] = NoPid
  /\ \A i \in alive : proc[i] \in Pid
  /\ \A c \in Client : pc[c] \in {"truncate", "write"} => proc[cmd[c].id] \in Pid

(* Until the creator has stored the pid, nobody can read one there: those  *)
(* that look give up, so nobody joins, signals or removes.                 *)
Young == {"spawn", "truncate", "write"}
Unread(c) ==
  /\ file[cmd[c].id] \in {Absent, Empty}
  /\ pc[c] = "spawn" => cmd[c].id \notin alive
  /\ pc[c] \in {"spawn", "truncate"} => file[cmd[c].id] = Absent
  /\ c \in linked => file[cmd[c].id] = Empty
  /\ \A d \in Client : cmd[d].id = cmd[c].id =>
       /\ pc[d] \notin {"send", "signal", "remove"}
       /\ pc[d] = "done" => cmd[d].op \notin Sending
YoungInv == \A c \in Client : pc[c] \in Young => Unread(c)

(* Only clients with a Session rewrite files, and only they and creators   *)
(* have one open.                                                          *)
ThreadInv ==
  /\ \A c \in Client : due[c] > 0 \/ c \in busy => c \in Joined(cmd[c].id)
  /\ \A c \in linked : c \in busy \/ pc[c] = "write"

(* While a client rewrites a file, that names no process that runs.        *)
RewriteInv ==
  \A c \in busy \cap linked : cmd[c].id \in alive => file[cmd[c].id] # proc[cmd[c].id]

(* A kill has read the pid that the file has, if that is the process's,    *)
(* and once it has sent the signal the session's process was another.      *)
KillInv ==
  \A c \in Client : pc[c] \in {"signal", "remove"} /\ cmd[c].id \in alive =>
    /\ file[cmd[c].id] = proc[cmd[c].id] => cmd[c].seen = proc[cmd[c].id]
    /\ pc[c] = "remove" => cmd[c].seen # proc[cmd[c].id]

(* Each client that has yet to send has been started.                      *)
Unsent == {c \in Client : pc[c] \in {"spawn", "truncate", "write", "get", "send"}}
SpaceInv ==
  /\ IsFiniteSet(Unsent)
  /\ \A c \in Client : due[c] + Cardinality(Unsent) <= commands

IInv ==
  /\ TypeOK /\ SpaceInv /\ PlaceInv /\ UsedInv /\ CreatorInv /\ PidInv /\ YoungInv
  /\ ThreadInv /\ RewriteInv /\ KillInv /\ EmptyOnlyWhileWritten
-----------------------------------------------------------------------------
(* Lemmas about the state and about parts of actions *)

Command == [op : Op, id : Id, seen : Pid \cup {NoPid}]

Place == {"off", "spawn", "truncate", "write", "get", "send",
          "read", "signal", "remove", "clear", "done", "failed"}

(* What NoCommand is, and the type of all commands.                        *)
LEMMA CommandType ==
  /\ NoCommand \in Command
  /\ NoCommand.op = "purge" /\ NoCommand.seen = NoPid
  /\ TypeOK => cmd \in [Client -> Command]
<1>1. NoCommand \in Command
  BY IdAssumption DEF NoCommand, Command, Op
<1> QED BY <1>1 DEF NoCommand, Command, TypeOK

(* Who has sent a mount or is sending one to a session.                    *)
LEMMA JoinedMember ==
  ASSUME NEW c, NEW i
  PROVE  c \in Joined(i) <=> /\ c \in Client /\ cmd[c].id = i
                             /\ cmd[c].op \in {"mount", "send_mount"} /\ pc[c] \in {"send", "done"}
BY DEF Joined, For, Running, Sending

(* A pid that is given out belongs to nobody.                              *)
LEMMA FreePids ==
  ASSUME NEW p \in NewPid
  PROVE  /\ p \in Pid
         /\ \A c \in Client : pid[c] # p
         /\ \A i \in Id : proc[i] # p
BY DEF NewPid, Free

(* No pid can be taken for a mark.                                         *)
LEMMA PidsAreNoMarks == \A p \in Pid : p \notin {NoPid, Absent, Empty, Garbled}
BY PidAssumption

(* What writing to a file does to the files.                               *)
LEMMA Writing ==
  ASSUME TypeOK, NEW c \in Client, NEW p \in Pid, WriteFile(c, p)
  PROVE  /\ file' \in [Id -> Pid \cup {Absent, Empty, Garbled}]
         /\ \A i \in Id : c \in linked /\ i = cmd[c].id =>
               file'[i] = p \/ (file[i] # Empty /\ file'[i] = Garbled)
         /\ \A i \in Id : c \notin linked \/ i # cmd[c].id => file'[i] = file[i]
         /\ linked' = linked \ {c}
         /\ cut' \subseteq Id
BY CommandType DEF TypeOK, WriteFile

(* What opening one does.                                                  *)
LEMMA Opening ==
  ASSUME TypeOK, NEW c \in Client, OpenFile(c)
  PROVE  /\ file' \in [Id -> Pid \cup {Absent, Empty, Garbled}]
         /\ file'[cmd[c].id] = Empty
         /\ \A i \in Id : i # cmd[c].id => file'[i] = file[i]
         /\ linked' = linked \cup {c}
         /\ cut' \subseteq Id
BY CommandType DEF TypeOK, OpenFile, Command

(* What removing one does.                                                 *)
LEMMA Unlinking ==
  ASSUME TypeOK, NEW i \in Id, Unlink(i)
  PROVE  /\ file' \in [Id -> Pid \cup {Absent, Empty, Garbled}]
         /\ file'[i] = Absent
         /\ \A j \in Id : j # i => file'[j] = file[j]
         /\ linked' = {c \in linked : cmd[c].id # i}
         /\ cut' \subseteq Id
BY DEF TypeOK, Unlink

(* The end of the clients in E: the others stay where they are, except a   *)
(* kill, which removes the file only of a process that has another pid.    *)
Ending(E) ==
  /\ E \subseteq Client
  /\ \A d \in E : pc'[d] = "off" /\ pid'[d] = NoPid /\ cmd'[d] = NoCommand /\ due'[d] = 0
  /\ \A d \in Client \ E :
       /\ \/ pc'[d] = pc[d]
          \/ pc[d] = "signal" /\ pc'[d] = "done"
          \/ /\ pc[d] = "signal" /\ pc'[d] = "remove"
             /\ \A i \in alive' : proc[i] # cmd[d].seen
       /\ pid'[d] = pid[d] /\ cmd'[d] = cmd[d] /\ due'[d] = due[d]
  /\ alive' \subseteq alive
  /\ \A i \in Id : \/ proc'[i] = proc[i]
                   \/ /\ proc'[i] = NoPid /\ i \notin alive'
                      /\ ~ \E d \in Client \ E : pc[d] # "off" /\ cmd[d].id = i /\ cmd[d].op \in Creating
  /\ busy' = busy \ E /\ linked' = linked \ E
  /\ cut' = cut \cup {cmd[d].id : d \in linked \cap E}
  /\ UNCHANGED <<file, used, commands>>

Stops ==
  \/ \E c \in Client : End(c) \/ KillSignal(c)
  \/ \E i \in Id : SessionEnds(i)

(* What the processes that end leave behind.                               *)
LEMMA StopsEnd ==
  ASSUME TypeOK, Stops
  PROVE  /\ pc' \in [Client -> Place]
         /\ cmd' \in [Client -> Command]
         /\ pid' \in [Client -> Pid \cup {NoPid}]
         /\ proc' \in [Id -> Pid \cup {NoPid}]
         /\ due' \in [Client -> 0 .. MaxCommands]
         /\ left' \in [Client -> SUBSET Id]
         /\ \E E \in SUBSET Client : Ending(E)
<1>1. ASSUME NEW E \in SUBSET Client, NEW S, Ends(E, S)
      PROVE  /\ cmd' \in [Client -> Command]
             /\ pid' \in [Client -> Pid \cup {NoPid}]
             /\ proc' \in [Id -> Pid \cup {NoPid}]
             /\ due' \in [Client -> 0 .. MaxCommands]
             /\ left' \in [Client -> SUBSET Id]
  BY <1>1, CommandType, CommandAssumption DEF TypeOK, Ends
<1>2. ASSUME NEW E \in SUBSET Client, NEW S, Ends(E, S), UNCHANGED <<file, used, commands>>,
             \A d \in Client :
               \/ d \in E /\ pc'[d] = "off"
               \/ d \notin E /\ pc'[d] = pc[d]
               \/ d \notin E /\ pc[d] = "signal" /\ pc'[d] = "done"
               \/ /\ d \notin E /\ pc[d] = "signal" /\ pc'[d] = "remove"
                  /\ \A i \in alive \ S : proc[i] # cmd[d].seen
      PROVE  Ending(E)
  <2>1. /\ alive' = alive \ S
        /\ busy' = busy \ E /\ linked' = linked \ E
        /\ cut' = cut \cup {cmd[d].id : d \in linked \cap E}
    BY <1>2 DEF Ends
  <2>2. \A d \in E : pid'[d] = NoPid /\ cmd'[d] = NoCommand /\ due'[d] = 0
    BY <1>2 DEF Ends
  <2>3. \A d \in Client \ E : pid'[d] = pid[d] /\ cmd'[d] = cmd[d] /\ due'[d] = due[d]
    BY <1>2 DEF Ends
  <2>4. \A i \in Id : \/ proc'[i] = proc[i]
                      \/ /\ proc'[i] = NoPid /\ i \notin alive'
                         /\ ~ \E d \in Client \ E : pc[d] # "off" /\ cmd[d].id = i /\ cmd[d].op \in Creating
    BY <1>2 DEF Ends, For, Running, Creating, Sending
  <2> QED BY <1>2, <2>1, <2>2, <2>3, <2>4 DEF Ending
<1>3. ASSUME NEW c \in Client, End(c)
      PROVE  /\ Ends({c}, {}) /\ UNCHANGED <<file, used, commands>>
             /\ pc' = [pc EXCEPT ![c] = "off"]
  BY <1>3 DEF End
<1>4. ASSUME NEW c \in Client, KillSignal(c)
      PROVE  LET E == {d \in Client : pid[d] = cmd[c].seen}
                 S == {i \in alive : proc[i] = cmd[c].seen}
             IN  /\ Ends(E, S) /\ UNCHANGED <<file, used, commands>>
                 /\ pc[c] = "signal"
                 /\ pc' = [d \in Client |-> IF d \in E THEN "off"
                                   ELSE IF d # c THEN pc[d]
                                   ELSE IF cmd[c].seen \in Free THEN "done" ELSE "remove"]
  BY <1>4 DEF KillSignal
<1>5. ASSUME NEW i \in Id, SessionEnds(i)
      PROVE  Ends({}, {i}) /\ UNCHANGED <<pc, file, used, commands>>
  BY <1>5 DEF SessionEnds
<1>6. ASSUME NEW c \in Client, End(c)
      PROVE  Ending({c}) /\ pc' \in [Client -> Place]
  <2>1. pc' \in [Client -> Place]
    BY <1>3, <1>6 DEF TypeOK, Place
  <2>2. pc'[c] = "off" /\ \A d \in Client \ {c} : pc'[d] = pc[d]
    BY <1>3, <1>6 DEF TypeOK
  <2>3. Ending({c})
    BY <1>2, <1>3, <1>6, <2>2
  <2> QED BY <2>1, <2>3
<1>7. ASSUME NEW i \in Id, SessionEnds(i)
      PROVE  Ending({}) /\ pc' = pc
  BY <1>2, <1>5, <1>7
<1>8. ASSUME NEW c \in Client, KillSignal(c)
      PROVE  /\ Ending({d \in Client : pid[d] = cmd[c].seen})
             /\ pc' \in [Client -> Place]
  <2> DEFINE E == {d \in Client : pid[d] = cmd[c].seen}
             S == {i \in alive : proc[i] = cmd[c].seen}
  <2>1. \A i \in alive \ S : proc[i] # cmd[c].seen
    OBVIOUS
  <2>2. /\ E \in SUBSET Client /\ Ends(E, S) /\ UNCHANGED <<file, used, commands>>
        /\ pc[c] = "signal"
        /\ pc' = [d \in Client |-> IF d \in E THEN "off"
                          ELSE IF d # c THEN pc[d]
                          ELSE IF cmd[c].seen \in Free THEN "done" ELSE "remove"]
    BY <1>4, <1>8
  <2> HIDE DEF E, S
  <2>3. pc' \in [Client -> Place]
    BY <2>2 DEF TypeOK, Place
  <2>4. \A d \in Client :
          \/ d \in E /\ pc'[d] = "off"
          \/ d \notin E /\ pc'[d] = pc[d]
          \/ d \notin E /\ pc[d] = "signal" /\ pc'[d] = "done"
          \/ /\ d \notin E /\ pc[d] = "signal" /\ pc'[d] = "remove"
             /\ \A i \in alive \ S : proc[i] # cmd[d].seen
    BY <2>1, <2>2
  <2>5. Ending(E)
    BY <1>2, <2>2, <2>4
  <2> QED BY <2>3, <2>5 DEF E
<1>9. \E E \in SUBSET Client : \E S : Ends(E, S)
  BY <1>3, <1>4, <1>5 DEF Stops
<1>10. \E E \in SUBSET Client : Ending(E)
  BY <1>6, <1>7, <1>8 DEF Stops
<1> QED BY <1>1, <1>6, <1>7, <1>8, <1>9, <1>10 DEF Stops, TypeOK, Place

(* The two ways in which a client starts.                                  *)
StartsCommand(c, op, i) ==
  /\ pc[c] = "off" /\ pc' = [pc EXCEPT ![c] = FirstStep(op)]
  /\ op \in Creating <=> i \notin used
  /\ cmd' = [cmd EXCEPT ![c] = [op |-> op, id |-> i, seen |-> NoPid]]
  /\ used' = used \cup {i}
  /\ \E p \in NewPid : pid' = [pid EXCEPT ![c] = p]
  /\ commands < MaxCommands /\ commands' = commands + 1
  /\ UNCHANGED <<file, proc, alive, due, busy, linked, left, cut>>
StartsPurge(c) ==
  /\ pc[c] = "off" /\ pc' = [pc EXCEPT ![c] = "clear"]
  /\ left' = [left EXCEPT ![c] = {i \in Id : file[i] # Absent}]
  /\ \E p \in NewPid : pid' = [pid EXCEPT ![c] = p]
  /\ commands < MaxCommands /\ commands' = commands + 1
  /\ UNCHANGED <<cmd, used, file, proc, alive, due, busy, linked, cut>>

(* Where each kind of command begins.                                      *)
LEMMA FirstSteps ==
  /\ \A op \in Creating : FirstStep(op) = "spawn"
  /\ \A op \in {"send_bind", "send_mount"} : FirstStep(op) = "get"
  /\ FirstStep("kill") = "read"
  /\ FirstStep("purge") = "clear"
BY DEF FirstStep, Creating, Sending

(* A client starts a command for one session, or a purge.                  *)
LEMMA Starting ==
  ASSUME NEW c \in Client, Start(c)
  PROVE  \/ \E op \in Op \ {"purge"}, i \in Id : StartsCommand(c, op, i)
         \/ StartsPurge(c)
BY FirstSteps DEF Start, StartsCommand, StartsPurge

(* To treat the steps of Next by kind.                                     *)
LEMMA NextKinds ==
  ASSUME [Next]_vars
  PROVE  \/ \E c \in Client, op \in Op \ {"purge"}, i \in Id : StartsCommand(c, op, i)
         \/ \E c \in Client : StartsPurge(c)
         \/ \E c \in Client : Spawn(c) \/ Truncate(c) \/ Write(c) \/ Get(c) \/ Send(c)
         \/ \E c \in Client : HandlerOpen(c) \/ HandlerWrite(c)
         \/ \E c \in Client : KillRead(c) \/ KillRemove(c) \/ PurgeRemove(c)
         \/ Stops
         \/ UNCHANGED vars
BY Starting DEF Next, Work, Stops
-----------------------------------------------------------------------------
(* The types *)

(* Every step keeps the types.                                             *)
LEMMA NextKeepsTypeOK ==
  ASSUME IInv, [Next]_vars
  PROVE  TypeOK'
<1> USE DEF IInv
<1>1. cmd \in [Client -> Command] /\ Command = [op : Op, id : Id, seen : Pid \cup {NoPid}]
  BY CommandType DEF Command
<1>2. commands \in 0 .. MaxCommands /\ MaxCommands \in Nat
  BY CommandAssumption DEF TypeOK
<1>3. \A p \in NewPid : p \in Pid
  BY FreePids
<1>4. pc \in [Client -> Place] /\ (pc' \in [Client -> Place] => TypeOK!1')
  BY DEF TypeOK, Place
<1>5. ASSUME NEW c \in Client, NEW op \in Op \ {"purge"}, NEW i \in Id, StartsCommand(c, op, i)
      PROVE  TypeOK'
  <2>1. FirstStep(op) \in Place
    BY FirstSteps DEF Op, Sending, Creating, Place
  <2>2. pc' \in [Client -> Place]
    BY <1>4, <1>5, <2>1 DEF StartsCommand
  <2>3. cmd' \in [Client -> Command]
    BY <1>1, <1>5 DEF StartsCommand
  <2>4. pid' \in [Client -> Pid \cup {NoPid}]
    BY <1>3, <1>5 DEF StartsCommand, TypeOK
  <2>5. c \notin busy /\ c \notin linked /\ Running' = Running \cup {c}
    BY <1>5, <2>1, FirstSteps DEF StartsCommand, TypeOK, Running, Op, Sending, Creating
  <2> QED BY <1>1, <1>2, <1>4, <1>5, <2>2, <2>3, <2>4, <2>5 DEF StartsCommand, TypeOK
<1>6. ASSUME NEW c \in Client, StartsPurge(c)
      PROVE  TypeOK'
  <2>1. pc' \in [Client -> Place]
    BY <1>4, <1>6 DEF StartsPurge, Place
  <2>2. pid' \in [Client -> Pid \cup {NoPid}]
    BY <1>3, <1>6 DEF StartsPurge, TypeOK
  <2>3. Running' = Running \cup {c}
    BY <1>6 DEF StartsPurge, TypeOK, Running
  <2> QED BY <1>2, <1>4, <1>6, <2>1, <2>2, <2>3 DEF StartsPurge, TypeOK
<1>7. ASSUME NEW c \in Client, Spawn(c)
      PROVE  TypeOK'
  <2>1. pc' \in [Client -> Place] /\ Running' = Running
    BY <1>4, <1>7 DEF Spawn, Place, Running, TypeOK
  <2>2. cmd[c].id \in used /\ cmd[c].id \in Id
    BY <1>1, <1>7 DEF Spawn, PlaceInv, UsedInv, Creating
  <2>3. proc' \in [Id -> Pid \cup {NoPid}]
    BY <1>3, <1>7, <2>2 DEF Spawn, TypeOK
  <2> QED BY <1>4, <1>7, <2>1, <2>2, <2>3 DEF Spawn, TypeOK
<1>8. ASSUME NEW c \in Client, Truncate(c)
      PROVE  TypeOK'
  <2>1. pc' \in [Client -> Place] /\ Running' = Running /\ c \in Running
    BY <1>4, <1>8 DEF Truncate, Place, Running, TypeOK
  <2> QED BY <1>4, <1>8, <2>1, Opening DEF Truncate, TypeOK
<1>9. ASSUME NEW c \in Client, Write(c)
      PROVE  TypeOK'
  <2>1. pc' \in [Client -> Place] /\ Running' = Running
    BY <1>4, <1>9 DEF Write, Place, Running, TypeOK
  <2>2. proc[cmd[c].id] \in Pid
    BY <1>9 DEF Write, PidInv
  <2> QED BY <1>4, <1>9, <2>1, <2>2, Writing DEF Write, TypeOK
<1>10. ASSUME NEW c \in Client, Get(c)
       PROVE  TypeOK'
  <2>1. pc' \in [Client -> Place] /\ Running' = Running
    BY <1>4, <1>10 DEF Get, Place, Running, TypeOK
  <2> QED BY <1>4, <1>10, <2>1 DEF Get, TypeOK
<1>11. ASSUME NEW c \in Client, Send(c)
       PROVE  TypeOK'
  <2>1. pc' \in [Client -> Place] /\ Running' = Running
    BY <1>4, <1>11 DEF Send, Place, Running, TypeOK
  <2>2. IsFiniteSet(Unsent) /\ c \in Unsent
    BY <1>11 DEF Send, Unsent, SpaceInv
  <2>3. Cardinality(Unsent) \in Nat /\ Cardinality(Unsent) # 0
    BY <2>2, FS_CardinalityType, FS_EmptySet
  <2>4. \A j \in Client : due[j] + 1 \in 0 .. MaxCommands
    BY <1>2, <2>3 DEF TypeOK, SpaceInv
  <2>5. due' \in [Client -> 0 .. MaxCommands]
    BY <1>11, <2>4 DEF Send, TypeOK
  <2> QED BY <1>4, <1>11, <2>1, <2>5 DEF Send, TypeOK
<1>12. ASSUME NEW c \in Client, HandlerOpen(c)
       PROVE  TypeOK'
  <2>1. c \in Running
    BY <1>12, JoinedMember DEF HandlerOpen, ThreadInv, Running
  <2>2. due' \in [Client -> 0 .. MaxCommands]
    BY <1>2, <1>12 DEF HandlerOpen, TypeOK
  <2> QED BY <1>12, <2>1, <2>2, Opening DEF HandlerOpen, TypeOK, Running
<1>13. ASSUME NEW c \in Client, HandlerWrite(c)
       PROVE  TypeOK'
  <2>1. pid[c] \in Pid
    BY <1>13 DEF HandlerWrite, PlaceInv, TypeOK, Running
  <2> QED BY <1>13, <2>1, Writing DEF HandlerWrite, TypeOK, Running
<1>14. ASSUME NEW c \in Client, KillRead(c)
       PROVE  TypeOK'
  <2>1. pc' \in [Client -> Place] /\ Running' = Running
    BY <1>4, <1>14 DEF KillRead, Place, Running, TypeOK
  <2>2. cmd' \in [Client -> Command]
    BY <1>1, <1>14 DEF KillRead
  <2> QED BY <1>1, <1>4, <1>14, <2>1, <2>2 DEF KillRead, TypeOK
<1>15. ASSUME NEW c \in Client, KillRemove(c)
       PROVE  TypeOK'
  <2>1. pc' \in [Client -> Place] /\ Running' = Running
    BY <1>4, <1>15 DEF KillRemove, Place, Running, TypeOK
  <2> QED BY <1>1, <1>4, <1>15, <2>1, Unlinking DEF KillRemove, TypeOK
<1>16. ASSUME NEW c \in Client, PurgeRemove(c)
       PROVE  TypeOK'
  <2>1. pc' \in [Client -> Place] /\ Running' = Running
    BY <1>4, <1>16 DEF PurgeRemove, Place, Running, TypeOK
  <2>2. CASE UNCHANGED <<file, linked, cut, left>>
    BY <1>4, <1>16, <2>1, <2>2 DEF PurgeRemove, TypeOK
  <2>3. ASSUME NEW i \in left[c], Unlink(i), left' = [left EXCEPT ![c] = @ \ {i}]
        PROVE  TypeOK'
    <3>1. i \in Id /\ left' \in [Client -> SUBSET Id]
      BY <2>3 DEF TypeOK
    <3> QED BY <1>4, <1>16, <2>1, <2>3, <3>1, Unlinking DEF PurgeRemove, TypeOK
  <2> QED BY <1>16, <2>2, <2>3 DEF PurgeRemove
<1>17. CASE Stops
  <2>1. PICK E \in SUBSET Client : Ending(E)
    BY <1>17, StopsEnd
  <2>2. /\ pc' \in [Client -> Place] /\ cmd' \in [Client -> Command]
        /\ pid' \in [Client -> Pid \cup {NoPid}] /\ proc' \in [Id -> Pid \cup {NoPid}]
        /\ due' \in [Client -> 0 .. MaxCommands] /\ left' \in [Client -> SUBSET Id]
    BY <1>17, StopsEnd
  <2>3. busy' \subseteq Running' /\ linked' \subseteq Running'
    BY <2>1 DEF Ending, TypeOK, Running
  <2>4. {cmd[d].id : d \in linked \cap E} \subseteq Id
    BY <1>1, <2>1
  <2> QED BY <1>1, <1>4, <2>1, <2>2, <2>3, <2>4 DEF Ending, TypeOK
<1>18. CASE UNCHANGED vars
  BY <1>18 DEF TypeOK, vars, Running
<1> QED
  BY <1>5, <1>6, <1>7, <1>8, <1>9, <1>10, <1>11, <1>12, <1>13, <1>14, <1>15, <1>16, <1>17, <1>18, NextKinds
-----------------------------------------------------------------------------
(* How much clients have to do *)

(* The bound on rewrites is kept when no command and no rewrite is added.  *)
LEMMA NoMoreToDo ==
  ASSUME TypeOK, SpaceInv, UNCHANGED commands, Unsent' \subseteq Unsent,
         \A c \in Client : due'[c] \in Nat /\ due'[c] <= due[c]
  PROVE  SpaceInv'
<1>1. /\ IsFiniteSet(Unsent) /\ IsFiniteSet(Unsent')
      /\ Cardinality(Unsent') <= Cardinality(Unsent)
      /\ Cardinality(Unsent) \in Nat /\ Cardinality(Unsent') \in Nat
  BY FS_Subset, FS_CardinalityType DEF SpaceInv
<1>2. \A c \in Client : due[c] \in Nat /\ due[c] + Cardinality(Unsent) <= commands
  BY DEF SpaceInv, TypeOK
<1>3. commands \in Nat
  BY DEF TypeOK
<1>4. \A c \in Client : due'[c] + Cardinality(Unsent') <= commands'
  BY <1>1, <1>2, <1>3
<1> QED BY <1>1, <1>4 DEF SpaceInv

(* Rewrites that are due and commands yet to be sent are no more than were *)
(* started.                                                                *)
LEMMA NextKeepsSpaceInv ==
  ASSUME IInv, [Next]_vars
  PROVE  SpaceInv'
<1> USE DEF IInv
<1>1. /\ IsFiniteSet(Unsent) /\ Cardinality(Unsent) \in Nat
      /\ \A c \in Client : due[c] \in Nat /\ due[c] + Cardinality(Unsent) <= commands
      /\ commands \in Nat
  BY FS_CardinalityType DEF SpaceInv, TypeOK
<1>2. pc \in [Client -> Place]
  BY DEF TypeOK, Place
<1>3. ASSUME NEW c \in Client, NEW place, pc' = [pc EXCEPT ![c] = place],
             commands' = commands + 1, UNCHANGED due
      PROVE  SpaceInv'
  <2>1. Unsent' \subseteq Unsent \cup {c}
    BY <1>2, <1>3 DEF Unsent
  <2>2. /\ IsFiniteSet(Unsent \cup {c}) /\ Cardinality(Unsent \cup {c}) \in Nat
        /\ Cardinality(Unsent \cup {c}) <= Cardinality(Unsent) + 1
    <3>1. /\ IsFiniteSet(Unsent \cup {c})
          /\ Cardinality(Unsent \cup {c}) \in {Cardinality(Unsent), Cardinality(Unsent) + 1}
      BY <1>1, FS_AddElement
    <3> QED BY <1>1, <3>1
  <2>3. IsFiniteSet(Unsent') /\ Cardinality(Unsent') <= Cardinality(Unsent \cup {c})
        /\ Cardinality(Unsent') \in Nat
    BY <2>1, <2>2, FS_Subset, FS_CardinalityType
  <2>4. \A d \in Client : due'[d] + Cardinality(Unsent') <= commands'
    BY <1>1, <1>3, <2>2, <2>3
  <2> QED BY <2>3, <2>4 DEF SpaceInv
<1>4. ASSUME NEW c \in Client, Spawn(c) \/ Truncate(c) \/ Write(c) \/ Get(c)
      PROVE  SpaceInv'
  <2>1. Unsent' \subseteq Unsent
    BY <1>2, <1>4 DEF Unsent, Spawn, Truncate, Write, Get
  <2> QED BY <1>1, <1>4, <2>1, NoMoreToDo DEF Spawn, Truncate, Write, Get
<1>5. ASSUME NEW c \in Client, Send(c)
      PROVE  SpaceInv'
  <2>1. Unsent' = Unsent \ {c} /\ c \in Unsent
    BY <1>2, <1>5 DEF Unsent, Send
  <2>2. IsFiniteSet(Unsent') /\ Cardinality(Unsent') = Cardinality(Unsent) - 1
        /\ Cardinality(Unsent') \in Nat
    BY <1>1, <2>1, FS_RemoveElement, FS_CardinalityType
  <2>3. \A d \in Client : due'[d] <= due[d] + 1 /\ due'[d] \in Nat
    BY <1>1, <1>5 DEF Send, TypeOK
  <2>4. \A d \in Client : due'[d] + Cardinality(Unsent') <= commands'
    BY <1>1, <1>5, <2>2, <2>3 DEF Send
  <2> QED BY <2>2, <2>4 DEF SpaceInv
<1>6. ASSUME NEW c \in Client, HandlerOpen(c) \/ HandlerWrite(c)
      PROVE  SpaceInv'
  <2>1. Unsent' = Unsent
    BY <1>6 DEF Unsent, HandlerOpen, HandlerWrite
  <2>2. \A d \in Client : due'[d] \in Nat /\ due'[d] <= due[d]
    BY <1>1, <1>6 DEF HandlerOpen, HandlerWrite, TypeOK
  <2> QED BY <1>6, <2>1, <2>2, NoMoreToDo DEF HandlerOpen, HandlerWrite
<1>7. ASSUME NEW c \in Client, KillRead(c) \/ KillRemove(c) \/ PurgeRemove(c)
      PROVE  SpaceInv'
  <2>1. Unsent' \subseteq Unsent
    BY <1>2, <1>7 DEF Unsent, KillRead, KillRemove, PurgeRemove
  <2> QED BY <1>1, <1>7, <2>1, NoMoreToDo DEF KillRead, KillRemove, PurgeRemove
<1>8. CASE Stops
  <2>1. PICK E \in SUBSET Client : Ending(E)
    BY <1>8, StopsEnd
  <2>2. Unsent' \subseteq Unsent
    BY <2>1 DEF Ending, Unsent
  <2>3. \A d \in Client : due'[d] \in Nat /\ due'[d] <= due[d]
    BY <1>1, <2>1 DEF Ending
  <2> QED BY <2>1, <2>2, <2>3, NoMoreToDo DEF Ending
<1>9. CASE UNCHANGED vars
  BY <1>9 DEF SpaceInv, Unsent, vars
<1> QED
  BY <1>3, <1>4, <1>5, <1>6, <1>7, <1>8, <1>9, NextKinds DEF StartsCommand, StartsPurge
-----------------------------------------------------------------------------
(* Places, sessions in use and their creators *)

(* Every step takes a client to a place that fits its command.             *)
LEMMA NextKeepsPlaceInv ==
  ASSUME IInv, [Next]_vars
  PROVE  PlaceInv'
<1> USE DEF IInv, Creating, Sending
<1>1. /\ cmd \in [Client -> Command] /\ Command = [op : Op, id : Id, seen : Pid \cup {NoPid}]
      /\ NoCommand.op = "purge"
  BY CommandType DEF Command
<1>2. pc \in [Client -> Place] /\ pid \in [Client -> Pid \cup {NoPid}]
  BY DEF TypeOK, Place
<1>3. \A p \in NewPid : p \in Pid
  BY FreePids
<1>4. ASSUME NEW c \in Client, NEW op \in Op \ {"purge"}, NEW i \in Id, StartsCommand(c, op, i)
      PROVE  PlaceInv'
  <2>1. /\ FirstStep(op) \in {"spawn", "get", "read"}
        /\ FirstStep(op) = "spawn" => op \in Creating
        /\ FirstStep(op) = "get" => op \in Sending
        /\ FirstStep(op) = "read" => op = "kill"
    BY FirstSteps DEF Op
  <2>2. pc'[c] = FirstStep(op) /\ cmd'[c].op = op /\ pid'[c] \in Pid
    BY <1>1, <1>2, <1>3, <1>4 DEF StartsCommand
  <2>3. \A d \in Client \ {c} : pc'[d] = pc[d] /\ cmd'[d] = cmd[d] /\ pid'[d] = pid[d]
    BY <1>1, <1>2, <1>4 DEF StartsCommand
  <2> QED BY <2>1, <2>2, <2>3 DEF PlaceInv
<1>5. ASSUME NEW c \in Client, StartsPurge(c)
      PROVE  PlaceInv'
  BY <1>2, <1>3, <1>5 DEF StartsPurge, PlaceInv
<1>6. ASSUME NEW c \in Client, Spawn(c) \/ Truncate(c) \/ Write(c) \/ Get(c) \/ Send(c)
      PROVE  PlaceInv'
  <2>1. /\ pc[c] \in {"spawn", "truncate", "write", "get", "send"}
        /\ pc'[c] \in {"truncate", "write"} => pc[c] \in {"spawn", "truncate"}
        /\ pc'[c] \in {"truncate", "write", "get", "send", "failed", "done"}
        /\ \A d \in Client \ {c} : pc'[d] = pc[d]
        /\ UNCHANGED <<cmd, pid>>
    BY <1>2, <1>6 DEF Spawn, Truncate, Write, Get, Send
  <2> QED BY <2>1 DEF PlaceInv
<1>7. ASSUME NEW c \in Client, HandlerOpen(c) \/ HandlerWrite(c)
      PROVE  PlaceInv'
  BY <1>7 DEF PlaceInv, HandlerOpen, HandlerWrite
<1>8. ASSUME NEW c \in Client, KillRead(c)
      PROVE  PlaceInv'
  <2>1. /\ cmd'[c].op = cmd[c].op
        /\ (pc'[c] = "signal" /\ cmd'[c].seen \in Pid) \/ pc'[c] = "done"
        /\ \A d \in Client \ {c} : pc'[d] = pc[d] /\ cmd'[d] = cmd[d]
    BY <1>1, <1>2, <1>8 DEF KillRead
  <2> QED BY <1>8, <2>1 DEF PlaceInv, KillRead
<1>9. ASSUME NEW c \in Client, KillRemove(c) \/ PurgeRemove(c)
      PROVE  PlaceInv'
  BY <1>2, <1>9 DEF PlaceInv, KillRemove, PurgeRemove
<1>10. CASE Stops
  <2>1. PICK E \in SUBSET Client : Ending(E)
    BY <1>10, StopsEnd
  <2>2. ASSUME NEW d \in Client PROVE PlaceInv!(d)'
    BY <2>1 DEF Ending, PlaceInv
  <2> QED BY <2>2 DEF PlaceInv
<1>11. CASE UNCHANGED vars
  BY <1>11 DEF PlaceInv, vars
<1> QED
  BY <1>4, <1>5, <1>6, <1>7, <1>8, <1>9, <1>10, <1>11, NextKinds

(* What the steps do to the commands, apart from their start.              *)
LEMMA CommandsOnlyEnd ==
  ASSUME IInv,
         \/ \E c \in Client : StartsPurge(c)
         \/ \E c \in Client : Spawn(c) \/ Truncate(c) \/ Write(c) \/ Get(c) \/ Send(c)
         \/ \E c \in Client : HandlerOpen(c) \/ HandlerWrite(c)
         \/ \E c \in Client : KillRead(c) \/ KillRemove(c) \/ PurgeRemove(c)
         \/ Stops
         \/ UNCHANGED vars
  PROVE  /\ used' = used
         /\ \A c \in Client : \/ cmd'[c].op = cmd[c].op /\ cmd'[c].id = cmd[c].id
                              \/ pc'[c] = "off" /\ cmd'[c] = NoCommand
<1> USE DEF IInv
<1>1. cmd \in [Client -> Command] /\ Command = [op : Op, id : Id, seen : Pid \cup {NoPid}]
  BY CommandType DEF Command
<1>2. ASSUME NEW c \in Client, KillRead(c)
      PROVE  used' = used /\ \A d \in Client : cmd'[d].op = cmd[d].op /\ cmd'[d].id = cmd[d].id
  BY <1>1, <1>2 DEF KillRead
<1>3. CASE Stops
  BY <1>3, StopsEnd DEF Ending
<1>4. CASE UNCHANGED <<used, cmd>>
  BY <1>4
<1> QED BY <1>2, <1>3, <1>4 DEF StartsPurge, Spawn, Truncate, Write, Get, Send, HandlerOpen, HandlerWrite,
                                KillRemove, PurgeRemove, vars

(* A file changes where somebody works for its session, or it goes.        *)
LEMMA FilesOfUsed ==
  ASSUME IInv, [Next]_vars, NEW i \in Id, i \notin used
  PROVE  file'[i] = Absent
<1> USE DEF IInv
<1>1. file[i] = Absent /\ \A c \in Client : cmd[c].op # "purge" => cmd[c].id # i
  BY DEF UsedInv
<1>2. ASSUME NEW c \in Client, Truncate(c) \/ HandlerOpen(c)
      PROVE  file'[i] = Absent
  <2>1. cmd[c].id # i
    BY <1>1, <1>2, JoinedMember DEF Truncate, HandlerOpen, PlaceInv, ThreadInv, Creating
  <2> QED BY <1>1, <1>2, <2>1, Opening DEF Truncate, HandlerOpen
<1>3. ASSUME NEW c \in Client, Write(c) \/ HandlerWrite(c)
      PROVE  file'[i] = Absent
  <2>1. cmd[c].id # i
    BY <1>1, <1>3, JoinedMember DEF Write, HandlerWrite, PlaceInv, ThreadInv, Creating
  <2>2. file' = file \/ \E content : file' = [file EXCEPT ![cmd[c].id] = content]
    BY <1>3 DEF Write, HandlerWrite, WriteFile
  <2> QED BY <1>1, <2>1, <2>2 DEF TypeOK
<1>4. ASSUME NEW c \in Client, KillRemove(c) \/ PurgeRemove(c)
      PROVE  file'[i] = Absent
  BY <1>1, <1>4 DEF KillRemove, PurgeRemove, Unlink, TypeOK
<1>5. CASE Stops
  BY <1>1, <1>5, StopsEnd DEF Ending
<1> QED BY <1>1, <1>2, <1>3, <1>4, <1>5, NextKinds
        DEF StartsCommand, StartsPurge, Spawn, Get, Send, KillRead, vars

(* A session is in use from its creation on.                               *)
LEMMA NextKeepsUsedInv ==
  ASSUME IInv, [Next]_vars
  PROVE  UsedInv'
<1> USE DEF IInv
<1>1. cmd \in [Client -> Command] /\ NoCommand.op = "purge"
  BY CommandType
<1>2. \A i \in Id : i \notin used => file'[i] = Absent
  BY FilesOfUsed
<1>3. ASSUME NEW c \in Client, NEW op \in Op \ {"purge"}, NEW i \in Id, StartsCommand(c, op, i)
      PROVE  UsedInv'
  <2>1. cmd'[c].id = i /\ \A d \in Client \ {c} : cmd'[d] = cmd[d]
    BY <1>1, <1>3 DEF StartsCommand
  <2> QED BY <1>2, <1>3, <2>1 DEF StartsCommand, UsedInv
<1>4. ASSUME used' = used,
             \A c \in Client : \/ cmd'[c].op = cmd[c].op /\ cmd'[c].id = cmd[c].id
                               \/ cmd'[c] = NoCommand
      PROVE  UsedInv'
  BY <1>1, <1>2, <1>4 DEF UsedInv
<1> QED BY <1>3, <1>4, NextKinds, CommandsOnlyEnd

(* No step makes a second creator of a session.                            *)
LEMMA NextKeepsCreatorInv ==
  ASSUME IInv, [Next]_vars
  PROVE  CreatorInv'
<1> USE DEF IInv, Creating
<1>1. cmd \in [Client -> Command] /\ NoCommand.op = "purge"
  BY CommandType
<1>2. ASSUME NEW c \in Client, NEW op \in Op \ {"purge"}, NEW i \in Id, StartsCommand(c, op, i)
      PROVE  CreatorInv'
  <2>1. cmd'[c].id = i /\ cmd'[c].op = op /\ \A d \in Client \ {c} : cmd'[d] = cmd[d]
    BY <1>1, <1>2 DEF StartsCommand
  <2>2. op \in Creating => \A d \in Client : cmd[d].op \in Creating => cmd[d].id # i
    BY <1>2 DEF StartsCommand, UsedInv
  <2> QED BY <2>1, <2>2 DEF CreatorInv
<1>3. ASSUME \A c \in Client : \/ cmd'[c].op = cmd[c].op /\ cmd'[c].id = cmd[c].id
                               \/ cmd'[c] = NoCommand
      PROVE  CreatorInv'
  BY <1>1, <1>3 DEF CreatorInv
<1> QED BY <1>2, <1>3, NextKinds, CommandsOnlyEnd
-----------------------------------------------------------------------------
(* Pids *)

(* No step gives one pid to two processes that run.                        *)
LEMMA NextKeepsPidInv ==
  ASSUME IInv, [Next]_vars
  PROVE  PidInv'
<1> USE DEF IInv
<1>1. cmd \in [Client -> Command] /\ Command = [op : Op, id : Id, seen : Pid \cup {NoPid}]
  BY CommandType DEF Command
<1>2. pc \in [Client -> Place] /\ pid \in [Client -> Pid \cup {NoPid}] /\ proc \in [Id -> Pid \cup {NoPid}]
      /\ alive \subseteq Id
  BY DEF TypeOK, Place
<1>3. ASSUME NEW c \in Client, NEW op \in Op \ {"purge"}, NEW i \in Id, StartsCommand(c, op, i)
      PROVE  PidInv'
  <2>1. pc'[c] \in {"spawn", "get", "read"}
    BY <1>2, <1>3, FirstSteps DEF StartsCommand, Op, Sending, Creating
  <2>2. \A j \in Id : pid'[c] # proc[j]
    BY <1>2, <1>3, FreePids DEF StartsCommand
  <2>3. \A d \in Client \ {c} : pc'[d] = pc[d] /\ cmd'[d] = cmd[d] /\ pid'[d] = pid[d]
    BY <1>1, <1>2, <1>3 DEF StartsCommand
  <2> QED BY <1>3, <2>1, <2>2, <2>3 DEF StartsCommand, PidInv
<1>4. ASSUME NEW c \in Client, StartsPurge(c)
      PROVE  PidInv'
  <2>1. \A j \in Id : pid'[c] # proc[j]
    BY <1>2, <1>4, FreePids DEF StartsPurge
  <2>2. \A d \in Client \ {c} : pid'[d] = pid[d]
    BY <1>2, <1>4 DEF StartsPurge
  <2> QED BY <1>2, <1>4, <2>1, <2>2 DEF StartsPurge, PidInv
<1>5. ASSUME NEW c \in Client, Spawn(c)
      PROVE  PidInv'
  <2>1. CASE UNCHANGED <<proc, alive>>
    BY <1>2, <1>5, <2>1 DEF Spawn, PidInv
  <2>2. ASSUME NEW p \in NewPid, proc' = [proc EXCEPT ![cmd[c].id] = p]
        PROVE  PidInv'
    <3>1. proc'[cmd[c].id] = p /\ cmd[c].id \in Id
      BY <1>1, <1>2, <2>2
    <3>2. p \in Pid /\ \A d \in Client : pid[d] # p
      BY <2>2, FreePids
    <3>3. \A i \in Id \ {cmd[c].id} : proc'[i] = proc[i]
      BY <1>2, <2>2
    <3>4. \A d \in Client \ {c} : pc'[d] = pc[d]
      BY <1>2, <1>5 DEF Spawn
    <3>5. alive' \subseteq alive \cup {cmd[c].id} /\ UNCHANGED <<cmd, pid>>
      BY <1>5 DEF Spawn
    <3> QED BY <1>1, <1>2, <3>1, <3>2, <3>3, <3>4, <3>5 DEF PidInv
  <2> QED BY <1>5, <2>1, <2>2 DEF Spawn
<1>6. ASSUME NEW c \in Client, Truncate(c) \/ Write(c) \/ Get(c) \/ Send(c) \/ HandlerOpen(c) \/ HandlerWrite(c)
      PROVE  PidInv'
  BY <1>2, <1>6 DEF PidInv, Truncate, Write, Get, Send, HandlerOpen, HandlerWrite
<1>7. ASSUME NEW c \in Client, KillRead(c)
      PROVE  PidInv'
  <2>1. \A d \in Client : pc'[d] \in {"truncate", "write"} => pc[d] = pc'[d] /\ cmd'[d] = cmd[d]
    BY <1>1, <1>2, <1>7 DEF KillRead
  <2> QED BY <1>7, <2>1 DEF KillRead, PidInv
<1>8. ASSUME NEW c \in Client, KillRemove(c) \/ PurgeRemove(c)
      PROVE  PidInv'
  BY <1>2, <1>8 DEF PidInv, KillRemove, PurgeRemove
<1>9. CASE Stops
  <2>1. PICK E \in SUBSET Client : Ending(E)
    BY <1>9, StopsEnd
  <2>2. \A c \in Client, i \in Id : pid'[c] = proc'[i] => proc'[i] = NoPid
    BY <2>1 DEF Ending, PidInv
  <2>3. \A i \in alive' : proc'[i] \in Pid
    BY <1>2, <2>1 DEF Ending, PidInv
  <2>4. ASSUME NEW c \in Client, pc'[c] \in {"truncate", "write"} PROVE proc'[cmd'[c].id] \in Pid
    <3>1. c \notin E /\ pc[c] \in {"truncate", "write"} /\ cmd'[c] = cmd[c]
      BY <2>1, <2>4 DEF Ending
    <3>2. cmd[c].op \in Creating /\ cmd[c].id \in Id /\ proc[cmd[c].id] \in Pid
      BY <1>1, <3>1 DEF PlaceInv, PidInv
    <3> QED BY <2>1, <3>1, <3>2 DEF Ending
  <2> QED BY <2>2, <2>3, <2>4 DEF PidInv
<1>10. CASE UNCHANGED vars
  BY <1>10 DEF PidInv, vars
<1> QED
  BY <1>3, <1>4, <1>5, <1>6, <1>7, <1>8, <1>9, <1>10, NextKinds
-----------------------------------------------------------------------------
(* Until the pid is stored *)

(* Nobody rewrites the file of a session that is still being created.      *)
LEMMA YoungHaveNoThreads ==
  ASSUME IInv, NEW c \in Client, pc[c] \in Young, NEW d \in Client, due[d] > 0 \/ d \in busy
  PROVE  cmd[d].id # cmd[c].id /\ d # c
BY JoinedMember DEF IInv, YoungInv, Unread, Young, ThreadInv, Sending

(* What a creator has not written yet, nobody has read.                    *)
LEMMA NextKeepsYoungInv ==
  ASSUME IInv, [Next]_vars
  PROVE  YoungInv'
<1> USE DEF IInv, Young
<1>1. /\ cmd \in [Client -> Command] /\ Command = [op : Op, id : Id, seen : Pid \cup {NoPid}]
      /\ NoCommand.op = "purge"
  BY CommandType DEF Command
<1>2. pc \in [Client -> Place] /\ alive \subseteq used
  BY DEF TypeOK, Place
<1>3. \A c, d \in Client : pc[c] \in Young /\ pc[d] \in Young /\ cmd[c].id = cmd[d].id => c = d
  BY DEF PlaceInv, CreatorInv
<1>4. "purge" \notin Sending /\ "kill" \notin Sending /\ Creating \subseteq Sending
  BY DEF Sending, Creating
<1>5. ASSUME NEW c \in Client, NEW op \in Op \ {"purge"}, NEW i \in Id, StartsCommand(c, op, i),
             NEW e \in Client, pc'[e] \in Young
      PROVE  Unread(e)'
  <2>1. /\ pc'[c] \in {"spawn", "get", "read"} /\ c \notin linked
        /\ pc'[c] = "spawn" => i \notin used
        /\ i \notin used => pc'[c] = "spawn"
    BY <1>2, <1>5, FirstSteps DEF StartsCommand, Op, Sending, Creating, TypeOK, Running
  <2>2. cmd'[c].id = i /\ \A d \in Client \ {c} : pc'[d] = pc[d] /\ cmd'[d] = cmd[d]
    BY <1>1, <1>2, <1>5 DEF StartsCommand
  <2>3. CASE e = c
    <3>1. file[i] = Absent /\ i \notin alive
      BY <1>2, <1>5, <2>1, <2>3 DEF UsedInv
    <3>2. ASSUME NEW d \in Client \ {c}, cmd[d].id = i
          PROVE  pc[d] \notin {"send", "signal", "remove"} /\ cmd[d].op \notin Sending
      BY <1>4, <1>5, <2>1, <2>3, <3>2 DEF UsedInv, PlaceInv
    <3> QED BY <1>5, <2>1, <2>2, <2>3, <3>1, <3>2 DEF StartsCommand, Unread
  <2>4. CASE e # c
    <3>1. pc[e] \in Young /\ Unread(e)
      BY <1>5, <2>2, <2>4 DEF YoungInv
    <3> QED BY <1>5, <2>1, <2>2, <2>4, <3>1 DEF StartsCommand, Unread
  <2> QED BY <2>3, <2>4
<1>6. ASSUME NEW c \in Client, StartsPurge(c), NEW e \in Client, pc'[e] \in Young
      PROVE  Unread(e)'
  BY <1>2, <1>6 DEF StartsPurge, YoungInv, Unread
<1>7. ASSUME NEW c \in Client, Spawn(c), NEW e \in Client, pc'[e] \in Young
      PROVE  Unread(e)'
  <2>1. pc[c] = "spawn" /\ pc'[c] \in {"truncate", "failed"} /\ \A d \in Client \ {c} : pc'[d] = pc[d]
    BY <1>2, <1>7 DEF Spawn
  <2>2. pc[e] \in Young /\ Unread(e) /\ (pc'[e] = "spawn" => e # c)
    BY <1>7, <2>1 DEF YoungInv
  <2>3. e # c => cmd[e].id # cmd[c].id
    BY <1>3, <2>1, <2>2
  <2> QED BY <1>7, <2>1, <2>2, <2>3 DEF Unread, Spawn
<1>8. ASSUME NEW c \in Client, Truncate(c), NEW e \in Client, pc'[e] \in Young
      PROVE  Unread(e)'
  <2>1. pc[c] = "truncate" /\ pc'[c] = "write" /\ \A d \in Client \ {c} : pc'[d] = pc[d]
    BY <1>2, <1>8 DEF Truncate
  <2>2. pc[e] \in Young /\ Unread(e)
    BY <1>8, <2>1 DEF YoungInv
  <2>3. e # c => cmd[e].id # cmd[c].id
    BY <1>3, <2>1, <2>2
  <2>4. /\ file'[cmd[c].id] = Empty /\ linked' = linked \cup {c}
        /\ \A i \in Id : i # cmd[c].id => file'[i] = file[i]
    BY <1>8, Opening DEF Truncate
  <2> QED BY <1>1, <1>8, <2>1, <2>2, <2>3, <2>4 DEF Unread, Truncate
<1>9. ASSUME NEW c \in Client, Write(c), NEW e \in Client, pc'[e] \in Young
      PROVE  Unread(e)'
  <2>1. pc[c] = "write" /\ pc'[c] = "get" /\ \A d \in Client \ {c} : pc'[d] = pc[d]
    BY <1>2, <1>9 DEF Write
  <2>2. e # c /\ pc[e] \in Young /\ Unread(e)
    BY <1>9, <2>1 DEF YoungInv
  <2>3. cmd[e].id # cmd[c].id /\ cmd[e].id \in Id
    BY <1>1, <1>3, <2>1, <2>2
  <2>4. proc[cmd[c].id] \in Pid /\ WriteFile(c, proc[cmd[c].id])
    BY <1>9 DEF PidInv, Write
  <2>5. file'[cmd[e].id] = file[cmd[e].id] /\ linked' \subseteq linked
    BY <2>3, <2>4, Writing
  <2> QED BY <1>9, <2>1, <2>2, <2>5 DEF Unread, Write
<1>10. ASSUME NEW c \in Client, Get(c), NEW e \in Client, pc'[e] \in Young
       PROVE  Unread(e)'
  <2>1. /\ pc[c] = "get" /\ pc'[c] \in {"send", "failed", "done"} /\ \A d \in Client \ {c} : pc'[d] = pc[d]
        /\ pc'[c] \in {"send", "done"} => file[cmd[c].id] \in Pid
    BY <1>2, <1>10 DEF Get
  <2>2. e # c /\ pc[e] \in Young /\ Unread(e)
    BY <1>10, <2>1 DEF YoungInv
  <2>3. cmd[c].id = cmd[e].id => pc'[c] = "failed"
    BY <2>1, <2>2, PidsAreNoMarks DEF Unread
  <2> QED BY <1>10, <2>1, <2>2, <2>3 DEF Unread, Get
<1>11. ASSUME NEW c \in Client, Send(c), NEW e \in Client, pc'[e] \in Young
       PROVE  Unread(e)'
  BY <1>2, <1>11 DEF YoungInv, Unread, Send
<1>12. ASSUME NEW c \in Client, HandlerOpen(c), NEW e \in Client, pc'[e] \in Young
       PROVE  Unread(e)'
  <2>1. pc[e] \in Young /\ Unread(e) /\ UNCHANGED <<pc, cmd, alive>>
    BY <1>12 DEF YoungInv, HandlerOpen
  <2>2. cmd[c].id # cmd[e].id /\ c # e /\ cmd[e].id \in Id
    BY <1>1, <1>12, <2>1, YoungHaveNoThreads DEF HandlerOpen
  <2>3. file'[cmd[e].id] = file[cmd[e].id] /\ (e \in linked' <=> e \in linked)
    BY <1>12, <2>2, Opening DEF HandlerOpen
  <2> QED BY <2>1, <2>3 DEF Unread
<1>13. ASSUME NEW c \in Client, HandlerWrite(c), NEW e \in Client, pc'[e] \in Young
       PROVE  Unread(e)'
  <2>1. pc[e] \in Young /\ Unread(e) /\ UNCHANGED <<pc, cmd, alive>>
    BY <1>13 DEF YoungInv, HandlerWrite
  <2>2. cmd[c].id # cmd[e].id /\ c # e /\ cmd[e].id \in Id
    BY <1>1, <1>13, <2>1, YoungHaveNoThreads DEF HandlerWrite
  <2>3. pid[c] \in Pid /\ WriteFile(c, pid[c])
    BY <1>13 DEF HandlerWrite, PlaceInv, TypeOK, Running
  <2>4. file'[cmd[e].id] = file[cmd[e].id] /\ linked' \subseteq linked
    BY <2>2, <2>3, Writing
  <2> QED BY <2>1, <2>4 DEF Unread
<1>14. ASSUME NEW c \in Client, KillRead(c), NEW e \in Client, pc'[e] \in Young
       PROVE  Unread(e)'
  <2>1. /\ pc[c] = "read" /\ pc'[c] \in {"signal", "done"} /\ \A d \in Client \ {c} : pc'[d] = pc[d]
        /\ pc'[c] = "signal" => file[cmd[c].id] \in Pid
        /\ \A d \in Client : cmd'[d].id = cmd[d].id /\ cmd'[d].op = cmd[d].op
    BY <1>1, <1>2, <1>14 DEF KillRead
  <2>2. e # c /\ pc[e] \in Young /\ Unread(e) /\ cmd[c].op \notin Sending
    BY <1>4, <1>14, <2>1 DEF YoungInv, PlaceInv
  <2>3. cmd[c].id = cmd[e].id => pc'[c] = "done"
    BY <2>1, <2>2, PidsAreNoMarks DEF Unread
  <2> QED BY <1>14, <2>1, <2>2, <2>3 DEF Unread, KillRead
<1>15. ASSUME NEW c \in Client, NEW i \in Id, Unlink(i), UNCHANGED <<cmd, alive>>,
              NEW e \in Client, pc'[e] \in Young, pc'[e] = pc[e],
              \A d \in Client : pc'[d] = pc[d] \/ (pc'[d] = "done" /\ cmd[d].op \notin Sending)
       PROVE  Unread(e)'
  <2>1. Unread(e) /\ cmd[e].id \in Id
    BY <1>1, <1>15 DEF YoungInv
  <2>2. /\ file'[cmd[e].id] = file[cmd[e].id] \/ file'[cmd[e].id] = Absent
        /\ e \in linked' => e \in linked /\ file'[cmd[e].id] = file[cmd[e].id]
    BY <1>15, <2>1, Unlinking
  <2> QED BY <1>15, <2>1, <2>2 DEF Unread
<1>16. ASSUME NEW c \in Client, KillRemove(c), NEW e \in Client, pc'[e] \in Young
       PROVE  Unread(e)'
  <2>1. cmd[c].id \in Id /\ cmd[c].op \notin Sending /\ pc'[c] = "done"
        /\ \A d \in Client \ {c} : pc'[d] = pc[d]
    BY <1>1, <1>2, <1>4, <1>16 DEF KillRemove, PlaceInv
  <2> QED BY <1>15, <1>16, <2>1 DEF KillRemove
<1>17. ASSUME NEW c \in Client, PurgeRemove(c), NEW e \in Client, pc'[e] \in Young
       PROVE  Unread(e)'
  <2>1. /\ \A d \in Client \ {c} : pc'[d] = pc[d]
        /\ pc[c] = "clear" /\ pc'[c] \in {"clear", "done"} /\ cmd[c].op \notin Sending
    BY <1>1, <1>2, <1>4, <1>17 DEF PurgeRemove, PlaceInv
  <2>2. CASE UNCHANGED <<file, linked>>
    BY <1>17, <2>1, <2>2 DEF PurgeRemove, YoungInv, Unread
  <2>3. ASSUME NEW i \in left[c], Unlink(i), UNCHANGED pc PROVE Unread(e)'
    <3>1. i \in Id
      BY <2>3 DEF TypeOK
    <3> QED BY <1>15, <1>17, <2>3, <3>1 DEF PurgeRemove
  <2> QED BY <1>17, <2>2, <2>3 DEF PurgeRemove
<1>18. ASSUME Stops, NEW e \in Client, pc'[e] \in Young PROVE Unread(e)'
  <2>1. PICK E \in SUBSET Client : Ending(E)
    BY <1>18, StopsEnd
  <2>2. e \notin E /\ pc'[e] = pc[e] /\ cmd'[e] = cmd[e] /\ Unread(e)
    BY <1>18, <2>1 DEF Ending, YoungInv
  <2>3. ASSUME NEW d \in Client, cmd'[d].id = cmd[e].id
        PROVE  /\ pc'[d] \notin {"send", "signal", "remove"}
               /\ pc'[d] = "done" => cmd'[d].op \notin Sending
    <3>1. CASE d \in E
      BY <2>1, <3>1 DEF Ending
    <3>2. CASE d \notin E
      BY <2>1, <2>2, <2>3, <3>2 DEF Ending, Unread
    <3> QED BY <3>1, <3>2
  <2> QED BY <2>1, <2>2, <2>3 DEF Ending, Unread
<1>19. ASSUME UNCHANGED vars, NEW e \in Client, pc'[e] \in Young PROVE Unread(e)'
  BY <1>19 DEF vars, YoungInv, Unread
<1> QED
  BY <1>5, <1>6, <1>7, <1>8, <1>9, <1>10, <1>11, <1>12, <1>13, <1>14, <1>16, <1>17, <1>18, <1>19,
     NextKinds DEF YoungInv
-----------------------------------------------------------------------------
(* Who has a file open *)

(* Only who has sent a mount rewrites a file.                              *)
LEMMA NextKeepsThreadInv ==
  ASSUME IInv, [Next]_vars
  PROVE  ThreadInv'
<1> USE DEF IInv
<1>1. cmd \in [Client -> Command] /\ pc \in [Client -> Place] /\ due \in [Client -> 0 .. MaxCommands]
      /\ linked \subseteq Client
  BY CommandType DEF TypeOK, Place, Running
<1>2. MaxCommands \in Nat
  BY CommandAssumption
<1>3. /\ \A c \in Client : due[c] > 0 \/ c \in busy =>
             cmd[c].op \in {"mount", "send_mount"} /\ pc[c] \in {"send", "done"}
      /\ \A c \in linked : c \in busy \/ pc[c] = "write"
  BY JoinedMember DEF ThreadInv
<1>4. ASSUME \A c \in Client : due'[c] > 0 \/ c \in busy' =>
               cmd'[c].op \in {"mount", "send_mount"} /\ pc'[c] \in {"send", "done"},
             \A c \in linked' : c \in busy' \/ pc'[c] = "write"
      PROVE  ThreadInv'
  BY <1>4 DEF ThreadInv, Joined, For, Running, Sending
<1>5. ASSUME NEW c \in Client, NEW op \in Op \ {"purge"}, NEW i \in Id, StartsCommand(c, op, i)
      PROVE  ThreadInv'
  <2>1. \A d \in Client \ {c} : pc'[d] = pc[d] /\ cmd'[d] = cmd[d]
    BY <1>1, <1>5 DEF StartsCommand
  <2>2. ~ due[c] > 0 /\ c \notin busy /\ c \notin linked
    BY <1>3, <1>5 DEF StartsCommand
  <2> QED BY <1>1, <1>3, <1>4, <1>5, <2>1, <2>2 DEF StartsCommand
<1>6. ASSUME NEW c \in Client, StartsPurge(c)
      PROVE  ThreadInv'
  <2>1. \A d \in Client \ {c} : pc'[d] = pc[d]
    BY <1>1, <1>6 DEF StartsPurge
  <2>2. ~ due[c] > 0 /\ c \notin busy /\ c \notin linked
    BY <1>3, <1>6 DEF StartsPurge
  <2> QED BY <1>1, <1>3, <1>4, <1>6, <2>1, <2>2 DEF StartsPurge
<1>7. ASSUME NEW c \in Client, Spawn(c) \/ Get(c)
      PROVE  ThreadInv'
  <2>1. \A d \in Client \ {c} : pc'[d] = pc[d]
    BY <1>1, <1>7 DEF Spawn, Get
  <2>2. ~ due[c] > 0 /\ c \notin busy /\ c \notin linked
    BY <1>3, <1>7 DEF Spawn, Get
  <2> QED BY <1>1, <1>3, <1>4, <1>7, <2>1, <2>2 DEF Spawn, Get
<1>8. ASSUME NEW c \in Client, Truncate(c)
      PROVE  ThreadInv'
  <2>1. pc'[c] = "write" /\ \A d \in Client \ {c} : pc'[d] = pc[d]
    BY <1>1, <1>8 DEF Truncate
  <2>2. ~ due[c] > 0 /\ c \notin busy
    BY <1>3, <1>8 DEF Truncate
  <2> QED BY <1>1, <1>3, <1>4, <1>8, <2>1, <2>2, Opening DEF Truncate
<1>9. ASSUME NEW c \in Client, Write(c)
      PROVE  ThreadInv'
  <2>1. \A d \in Client \ {c} : pc'[d] = pc[d]
    BY <1>1, <1>9 DEF Write
  <2>2. ~ due[c] > 0 /\ c \notin busy /\ linked' = linked \ {c}
    BY <1>3, <1>9 DEF Write, WriteFile
  <2> QED BY <1>1, <1>3, <1>4, <1>9, <2>1, <2>2 DEF Write
<1>10. ASSUME NEW c \in Client, Send(c)
       PROVE  ThreadInv'
  <2>1. pc[c] = "send" /\ pc'[c] = "done" /\ \A d \in Client \ {c} : pc'[d] = pc[d]
    BY <1>1, <1>10 DEF Send
  <2>2. \A d \in Client : d \in Joined(cmd[c].id) =>
           cmd[d].op \in {"mount", "send_mount"} /\ pc[d] \in {"send", "done"}
    BY JoinedMember
  <2>3. \A d \in Client : due'[d] = due[d] \/ d \in Joined(cmd[c].id)
    BY <1>1, <1>10 DEF Send
  <2> QED BY <1>1, <1>3, <1>4, <1>10, <2>1, <2>2, <2>3 DEF Send
<1>11. ASSUME NEW c \in Client, HandlerOpen(c)
       PROVE  ThreadInv'
  <2>1. \A d \in Client : due'[d] > 0 => due[d] > 0
    BY <1>1, <1>11 DEF HandlerOpen
  <2> QED BY <1>3, <1>4, <1>11, <2>1, Opening DEF HandlerOpen
<1>12. ASSUME NEW c \in Client, HandlerWrite(c)
       PROVE  ThreadInv'
  BY <1>3, <1>4, <1>12 DEF HandlerWrite, WriteFile
<1>13. ASSUME NEW c \in Client, KillRead(c)
       PROVE  ThreadInv'
  <2>1. \A d \in Client \ {c} : pc'[d] = pc[d] /\ cmd'[d] = cmd[d]
    BY <1>1, <1>13 DEF KillRead
  <2>2. ~ due[c] > 0 /\ c \notin busy /\ c \notin linked
    BY <1>3, <1>13 DEF KillRead
  <2> QED BY <1>1, <1>3, <1>4, <1>13, <2>1, <2>2 DEF KillRead
<1>14. ASSUME NEW c \in Client, KillRemove(c) \/ PurgeRemove(c)
       PROVE  ThreadInv'
  <2>1. \A d \in Client \ {c} : pc'[d] = pc[d]
    BY <1>1, <1>14 DEF KillRemove, PurgeRemove
  <2>2. ~ due[c] > 0 /\ c \notin busy /\ c \notin linked
    BY <1>3, <1>14 DEF KillRemove, PurgeRemove
  <2>3. linked' \subseteq linked
    BY <1>14 DEF KillRemove, PurgeRemove, Unlink
  <2> QED BY <1>1, <1>3, <1>4, <1>14, <2>1, <2>2, <2>3 DEF KillRemove, PurgeRemove
<1>15. CASE Stops
  <2>1. PICK E \in SUBSET Client : Ending(E)
    BY <1>15, StopsEnd
  <2>2. ASSUME NEW d \in Client, due'[d] > 0 \/ d \in busy'
        PROVE  cmd'[d].op \in {"mount", "send_mount"} /\ pc'[d] \in {"send", "done"}
    <3>1. d \notin E
      BY <2>1, <2>2 DEF Ending
    <3> QED BY <1>3, <2>1, <2>2, <3>1 DEF Ending
  <2>3. \A d \in linked' : d \in busy' \/ pc'[d] = "write"
    BY <1>1, <1>3, <2>1 DEF Ending
  <2> QED BY <1>4, <2>2, <2>3
<1>16. CASE UNCHANGED vars
  BY <1>3, <1>4, <1>16 DEF vars
<1> QED
  BY <1>5, <1>6, <1>7, <1>8, <1>9, <1>10, <1>11, <1>12, <1>13, <1>14, <1>15, <1>16, NextKinds
-----------------------------------------------------------------------------
(* The file of a process that runs *)

(* What the steps do to the file of a session whose process runs before    *)
(* and after.                                                              *)
LEMMA FileOfRunning ==
  ASSUME IInv, [Next]_vars, NEW i \in alive, i \in alive', file'[i] # file[i]
  PROVE  /\ proc'[i] = proc[i]
         /\ \/ \E c \in Client : pc[c] \in Young /\ cmd[c].id = i
            \/ file'[i] # proc[i]
<1> USE DEF IInv
<1>1. i \in Id /\ proc[i] \in Pid /\ proc[i] \notin {NoPid, Absent, Empty, Garbled}
  BY PidsAreNoMarks DEF TypeOK, PidInv
<1>2. CASE Stops
  BY <1>1, <1>2, StopsEnd DEF Ending
<1>3. ASSUME NEW c \in Client, Truncate(c) \/ Write(c)
      PROVE  proc' = proc /\ pc[c] \in Young /\ cmd[c].id = i
  <2>1. cmd[c].id # i => file'[i] = file[i]
    BY <1>1, <1>3 DEF Truncate, Write, OpenFile, WriteFile, TypeOK
  <2> QED BY <1>3, <2>1 DEF Truncate, Write, Young
<1>4. ASSUME NEW c \in Client, HandlerOpen(c)
      PROVE  proc' = proc /\ file'[i] # proc[i]
  BY <1>1, <1>4, Opening DEF HandlerOpen
<1>5. ASSUME NEW c \in Client, HandlerWrite(c)
      PROVE  proc' = proc /\ file'[i] # proc[i]
  <2>1. pid[c] \in Pid /\ WriteFile(c, pid[c])
    BY <1>5 DEF HandlerWrite, PlaceInv, TypeOK, Running
  <2>2. pid[c] # proc[i]
    BY <1>1 DEF PidInv
  <2> QED BY <1>1, <1>5, <2>1, <2>2, Writing DEF HandlerWrite
<1>6. ASSUME NEW c \in Client, KillRemove(c) \/ PurgeRemove(c)
      PROVE  proc' = proc /\ file'[i] # proc[i]
  <2>1. CASE file' = file
    BY <2>1
  <2>2. ASSUME NEW j, Unlink(j) PROVE file'[i] # proc[i]
    BY <1>1, <2>2 DEF TypeOK, Unlink
  <2> QED BY <1>6, <2>1, <2>2 DEF KillRemove, PurgeRemove
<1>7. \/ UNCHANGED file
      \/ Stops
      \/ \E c \in Client : Truncate(c) \/ Write(c) \/ HandlerOpen(c) \/ HandlerWrite(c)
      \/ \E c \in Client : KillRemove(c) \/ PurgeRemove(c)
  BY NextKinds DEF StartsCommand, StartsPurge, Spawn, Get, Send, KillRead, vars
<1> QED BY <1>2, <1>3, <1>4, <1>5, <1>6, <1>7

(* A session's process starts in its creator's Spawn, and runs with the    *)
(* same pid until it ends.                                                 *)
LEMMA ProcessOfRunning ==
  ASSUME IInv, [Next]_vars, NEW i \in alive'
  PROVE  \/ i \in alive /\ proc'[i] = proc[i]
         \/ \E c \in Client : pc[c] \in Young /\ cmd[c].id = i
<1> USE DEF IInv
<1>1. alive \subseteq Id /\ proc \in [Id -> Pid \cup {NoPid}]
  BY DEF TypeOK
<1>2. CASE Stops
  BY <1>1, <1>2, StopsEnd DEF Ending
<1>3. ASSUME NEW c \in Client, Spawn(c)
      PROVE  \/ i \in alive /\ proc'[i] = proc[i]
             \/ pc[c] \in Young /\ cmd[c].id = i
  BY <1>1, <1>3 DEF Spawn, Young
<1>4. UNCHANGED <<alive, proc>> \/ Stops \/ \E c \in Client : Spawn(c)
  BY NextKinds DEF StartsCommand, StartsPurge, Truncate, Write, Get, Send, HandlerOpen, HandlerWrite,
                   KillRead, KillRemove, PurgeRemove, vars
<1> QED BY <1>2, <1>3, <1>4

(* Who has a file open to rewrite it has truncated the pid of the process  *)
(* that runs.                                                              *)
LEMMA NextKeepsRewriteInv ==
  ASSUME IInv, [Next]_vars
  PROVE  RewriteInv'
<1> USE DEF IInv
<1>1. /\ busy \subseteq Client /\ alive \subseteq Id
      /\ \A c \in Client : cmd[c].id \in Id
      /\ \A i \in alive : proc[i] \in Pid /\ proc[i] \notin {Absent, Empty, Garbled}
  BY CommandType, PidsAreNoMarks DEF TypeOK, Running, Command, PidInv
<1> SUFFICES ASSUME NEW c \in busy' \cap linked', cmd'[c].id \in alive'
             PROVE  file'[cmd'[c].id] # proc'[cmd'[c].id]
  BY DEF RewriteInv
<1>2. \/ \E d \in Client : HandlerOpen(d) /\ c = d /\ c \notin busy
      \/ c \in busy
  <2>1. CASE Stops
    BY <2>1, StopsEnd DEF Ending
  <2> QED BY <2>1, NextKinds DEF StartsCommand, StartsPurge, Spawn, Truncate, Write, Get, Send, HandlerOpen,
                   HandlerWrite, KillRead, KillRemove, PurgeRemove, vars
<1>3. ASSUME HandlerOpen(c), c \in Client
      PROVE  file'[cmd'[c].id] # proc'[cmd'[c].id]
  <2>1. file'[cmd[c].id] = Empty /\ UNCHANGED <<cmd, alive, proc>>
    BY <1>3, Opening DEF HandlerOpen
  <2> QED BY <1>1, <2>1
<1>4. CASE c \in busy
  <2>1. pc[c] \in {"send", "done"}
    BY <1>1, <1>4, JoinedMember DEF ThreadInv
  <2>2. cmd'[c].id = cmd[c].id
    <3>1. CASE Stops
      <4>1. PICK E \in SUBSET Client : Ending(E)
        BY <3>1, StopsEnd
      <4> QED BY <1>1, <1>4, <4>1 DEF Ending
    <3>2. ASSUME NEW d \in Client, NEW op \in Op \ {"purge"}, NEW i \in Id, StartsCommand(d, op, i)
          PROVE  cmd'[c] = cmd[c]
      BY <1>1, <1>4, <2>1, <3>2, CommandType DEF StartsCommand
    <3>3. ASSUME NEW d \in Client, KillRead(d)
          PROVE  cmd'[c] = cmd[c]
      BY <1>1, <1>4, <2>1, <3>3, CommandType DEF KillRead
    <3> QED BY <3>1, <3>2, <3>3, NextKinds
            DEF StartsPurge, Spawn, Truncate, Write, Get, Send, HandlerOpen,
                HandlerWrite, KillRemove, PurgeRemove, vars
  <2>3. \A d \in Client : pc[d] \in Young => cmd[d].id # cmd[c].id
    BY <1>1, <1>4, YoungHaveNoThreads
  <2>4. cmd[c].id \in alive /\ proc'[cmd[c].id] = proc[cmd[c].id]
    BY <2>2, <2>3, ProcessOfRunning
  <2>5. CASE file'[cmd[c].id] # file[cmd[c].id]
    BY <2>2, <2>3, <2>4, <2>5, FileOfRunning
  <2>6. CASE file'[cmd[c].id] = file[cmd[c].id] /\ c \in linked
    BY <1>4, <2>2, <2>4, <2>6 DEF RewriteInv
  <2>7. CASE file'[cmd[c].id] = file[cmd[c].id] /\ c \notin linked
    <3>1. \E d \in Client : (Truncate(d) \/ HandlerOpen(d)) /\ c = d
      <4>1. CASE Stops
        BY <2>7, <4>1, StopsEnd DEF Ending
      <4> QED BY <2>7, <4>1, NextKinds
              DEF StartsCommand, StartsPurge, Spawn, Truncate, Write, Get, Send, HandlerOpen, HandlerWrite,
                  OpenFile, WriteFile, KillRead, KillRemove, PurgeRemove, Unlink, vars
    <3> QED BY <1>4, <2>1, <3>1 DEF Truncate, HandlerOpen
  <2> QED BY <2>5, <2>6, <2>7
<1> QED BY <1>2, <1>3, <1>4

(* A kill that is going to remove has not signalled the process that runs. *)
LEMMA NextKeepsKillInv ==
  ASSUME IInv, [Next]_vars
  PROVE  KillInv'
<1> USE DEF IInv
<1>1. /\ cmd \in [Client -> Command] /\ Command = [op : Op, id : Id, seen : Pid \cup {NoPid}]
      /\ pc \in [Client -> Place] /\ NoCommand.op = "purge"
  BY CommandType DEF TypeOK, Place, Command
<1> SUFFICES ASSUME NEW c \in Client, pc'[c] \in {"signal", "remove"}, cmd'[c].id \in alive'
             PROVE  /\ file'[cmd'[c].id] = proc'[cmd'[c].id] => cmd'[c].seen = proc'[cmd'[c].id]
                    /\ pc'[c] = "remove" => cmd'[c].seen # proc'[cmd'[c].id]
  BY DEF KillInv
<1>2. CASE KillRead(c)
  <2>1. cmd'[c].seen = file[cmd[c].id] /\ cmd'[c].id = cmd[c].id /\ pc'[c] = "signal" /\ UNCHANGED <<file, proc>>
    BY <1>1, <1>2 DEF KillRead
  <2> QED BY <2>1
<1>3. CASE ~ KillRead(c)
  <2>1. /\ pc[c] \in {"signal", "remove"} /\ cmd'[c] = cmd[c]
        /\ pc'[c] = "remove" => pc[c] = "remove" \/ \A i \in alive' : proc[i] # cmd[c].seen
    <3>1. CASE Stops
      <4>1. PICK E \in SUBSET Client : Ending(E)
        BY <3>1, StopsEnd
      <4> QED BY <4>1 DEF Ending
    <3>2. ASSUME NEW d \in Client, NEW op \in Op \ {"purge"}, NEW i \in Id, StartsCommand(d, op, i)
          PROVE  pc[c] = pc'[c] /\ cmd'[c] = cmd[c]
      BY <1>1, <3>2, FirstSteps DEF StartsCommand, Op, Sending, Creating
    <3>3. ASSUME NEW d \in Client, KillRead(d)
          PROVE  pc[c] = pc'[c] /\ cmd'[c] = cmd[c]
      BY <1>1, <1>3, <3>3 DEF KillRead
    <3>4. ASSUME NEW d \in Client, StartsPurge(d) \/ Spawn(d) \/ Truncate(d) \/ Write(d) \/ Get(d) \/ Send(d)
          PROVE  pc[c] = pc'[c] /\ cmd'[c] = cmd[c]
      BY <1>1, <3>4 DEF StartsPurge, Spawn, Truncate, Write, Get, Send
    <3>5. ASSUME NEW d \in Client, HandlerOpen(d) \/ HandlerWrite(d) \/ KillRemove(d) \/ PurgeRemove(d)
          PROVE  pc[c] = pc'[c] /\ cmd'[c] = cmd[c]
      BY <1>1, <3>5 DEF HandlerOpen, HandlerWrite, KillRemove, PurgeRemove
    <3> QED BY <3>1, <3>2, <3>3, <3>4, <3>5, NextKinds DEF vars
  <2>2. \A d \in Client : pc[d] \in Young => cmd[d].id # cmd[c].id
    BY <2>1 DEF YoungInv, Unread
  <2>3. cmd[c].id \in alive /\ proc'[cmd[c].id] = proc[cmd[c].id]
    BY <2>1, <2>2, ProcessOfRunning
  <2>4. file'[cmd[c].id] # file[cmd[c].id] => file'[cmd[c].id] # proc[cmd[c].id]
    BY <2>1, <2>2, <2>3, FileOfRunning
  <2>5. /\ file[cmd[c].id] = proc[cmd[c].id] => cmd[c].seen = proc[cmd[c].id]
        /\ pc[c] = "remove" => cmd[c].seen # proc[cmd[c].id]
    BY <2>1, <2>3 DEF KillInv
  <2> QED BY <2>1, <2>3, <2>4, <2>5
<1> QED BY <1>2, <1>3
-----------------------------------------------------------------------------
(* Files without content *)

(* No step leaves an empty file behind but the end of its writer.          *)
LEMMA NextKeepsEmptyOnlyWhileWritten ==
  ASSUME IInv, [Next]_vars
  PROVE  EmptyOnlyWhileWritten'
<1> USE DEF IInv
<1>1. /\ cmd \in [Client -> Command] /\ Command = [op : Op, id : Id, seen : Pid \cup {NoPid}]
      /\ linked \subseteq Running /\ \A p \in Pid : p # Empty
      /\ Garbled # Empty /\ Absent # Empty
  BY CommandType, PidsAreNoMarks DEF TypeOK, Command, Garbled, Absent, Empty
<1> SUFFICES ASSUME NEW i \in Id, file'[i] = Empty, i \notin cut'
             PROVE  \E c \in linked' : cmd'[c].id = i
  BY DEF EmptyOnlyWhileWritten
<1>2. file[i] = Empty /\ i \notin cut => \E c \in linked : cmd[c].id = i
  BY DEF EmptyOnlyWhileWritten
<1>3. ASSUME NEW c \in Client, Truncate(c) \/ HandlerOpen(c)
      PROVE  \E d \in linked' : cmd'[d].id = i
  <2>1. cmd' = cmd /\ OpenFile(c)
    BY <1>3 DEF Truncate, HandlerOpen
  <2>2. CASE cmd[c].id = i
    BY <2>1, <2>2, Opening
  <2>3. CASE cmd[c].id # i
    BY <1>2, <2>1, <2>3, Opening DEF OpenFile
  <2> QED BY <2>2, <2>3
<1>4. ASSUME NEW c \in Client, Write(c) \/ HandlerWrite(c)
      PROVE  \E d \in linked' : cmd'[d].id = i
  <2>1. PICK p \in Pid : WriteFile(c, p)
    BY <1>4 DEF Write, HandlerWrite, PidInv, PlaceInv, TypeOK, Running
  <2>2. c \notin linked \/ cmd[c].id # i
    BY <1>1, <2>1, Writing
  <2>3. file[i] = Empty /\ i \notin cut
    BY <2>1, <2>2, Writing DEF WriteFile
  <2> QED BY <1>2, <1>4, <2>1, <2>2, <2>3 DEF Write, HandlerWrite, WriteFile
<1>5. ASSUME NEW c \in Client, KillRemove(c) \/ PurgeRemove(c)
      PROVE  \E d \in linked' : cmd'[d].id = i
  <2>1. CASE UNCHANGED <<file, linked, cut>>
    BY <1>2, <1>5, <2>1 DEF KillRemove, PurgeRemove
  <2>2. ASSUME NEW j, Unlink(j) PROVE \E d \in linked' : cmd'[d].id = i
    <3>1. j # i
      BY <1>1, <2>2 DEF Unlink, TypeOK
    <3> QED BY <1>2, <1>5, <2>2, <3>1 DEF KillRemove, PurgeRemove, Unlink, TypeOK
  <2>3. \/ UNCHANGED <<file, linked, cut>>
        \/ \E j : Unlink(j)
    <3>1. CASE KillRemove(c)
      BY <3>1 DEF KillRemove
    <3>2. CASE left[c] = {} /\ UNCHANGED <<file, linked, left>> /\ PurgeRemove(c)
      BY <3>2 DEF PurgeRemove
    <3> QED BY <1>5, <3>1, <3>2 DEF PurgeRemove
  <2> QED BY <2>1, <2>2, <2>3
<1>6. CASE Stops
  <2>1. PICK E \in SUBSET Client : Ending(E)
    BY <1>6, StopsEnd
  <2>2. PICK d \in linked : cmd[d].id = i
    BY <1>2, <2>1 DEF Ending
  <2>3. d \in Client \ E
    BY <1>1, <2>1, <2>2 DEF Ending, Running
  <2> QED BY <2>1, <2>2, <2>3 DEF Ending
<1>7. ASSUME UNCHANGED <<file, linked, cut>>, \A d \in linked : cmd'[d].id = cmd[d].id
      PROVE  \E d \in linked' : cmd'[d].id = i
  BY <1>2, <1>7
<1>8. ASSUME NEW c \in Client, NEW op \in Op \ {"purge"}, NEW j \in Id, StartsCommand(c, op, j)
      PROVE  \A d \in linked : cmd'[d].id = cmd[d].id
  <2>1. c \notin linked
    BY <1>1, <1>8 DEF StartsCommand, Running
  <2> QED BY <1>1, <1>8, <2>1 DEF StartsCommand
<1>9. ASSUME NEW c \in Client, KillRead(c)
      PROVE  \A d \in linked : cmd'[d].id = cmd[d].id
  BY <1>1, <1>9 DEF KillRead, Running
<1>10. \/ UNCHANGED <<file, linked, cut>> /\ \A d \in linked : cmd'[d].id = cmd[d].id
       \/ Stops
       \/ \E c \in Client : Truncate(c) \/ HandlerOpen(c) \/ Write(c) \/ HandlerWrite(c)
       \/ \E c \in Client : KillRemove(c) \/ PurgeRemove(c)
  BY <1>8, <1>9, NextKinds DEF StartsCommand, StartsPurge, Spawn, Get, Send, KillRead, vars
<1> QED BY <1>3, <1>4, <1>5, <1>6, <1>7, <1>10
-----------------------------------------------------------------------------
(* The theorems *)

(* The invariant holds at first.                                           *)
LEMMA InitIInv == Init => IInv
<1> SUFFICES ASSUME Init PROVE IInv
  OBVIOUS
<1>1. NoCommand \in Command /\ NoCommand.op = "purge" /\ MaxCommands \in Nat
  BY CommandType, CommandAssumption
<1>2. (CHOOSE p \in Pid : TRUE) \in Pid
  BY PidAssumption
<1>3. TypeOK
  BY <1>1, <1>2 DEF Init, TypeOK, Running
<1>4. SpaceInv
  <2>1. Unsent = {}
    BY DEF Init, Unsent
  <2> QED BY <1>1, <2>1, FS_EmptySet DEF Init, SpaceInv
<1>5. PlaceInv /\ UsedInv /\ CreatorInv
  BY <1>1 DEF Init, PlaceInv, UsedInv, CreatorInv, Creating
<1>6. PidInv /\ YoungInv /\ RewriteInv /\ KillInv
  BY DEF Init, PidInv, YoungInv, Young, RewriteInv, KillInv
<1>7. ThreadInv
  BY DEF Init, ThreadInv
<1>8. EmptyOnlyWhileWritten
  <2>1. (CHOOSE p \in Pid : TRUE) # Empty /\ Absent # Empty
    BY <1>2, PidsAreNoMarks DEF Absent, Empty
  <2> QED BY <2>1 DEF Init, EmptyOnlyWhileWritten
<1> QED BY <1>3, <1>4, <1>5, <1>6, <1>7, <1>8 DEF IInv

(* The invariant is inductive.                                             *)
LEMMA NextKeepsIInv == IInv /\ [Next]_vars => IInv'
BY NextKeepsTypeOK, NextKeepsSpaceInv, NextKeepsPlaceInv, NextKeepsUsedInv, NextKeepsCreatorInv,
   NextKeepsPidInv, NextKeepsYoungInv, NextKeepsThreadInv, NextKeepsRewriteInv, NextKeepsKillInv,
   NextKeepsEmptyOnlyWhileWritten DEF IInv

(* The variables keep their types: a file holds a pid or one of the marks, *)
(* and no client rewrites it more often than commands were sent.           *)
THEOREM TypeCorrect == Spec => []TypeOK
<1>1. IInv => TypeOK
  BY DEF IInv
<1> QED BY <1>1, InitIInv, NextKeepsIInv, PTL DEF Spec

(* However creations, rewrites, kills and purges interleave, a session     *)
(* file without content is one that a process is about to write to, or     *)
(* that its last writer, ended between the two halves of fs::write, left.  *)
THEOREM EmptyFilesAreUnderWay == Spec => []EmptyOnlyWhileWritten
<1>1. IInv => EmptyOnlyWhileWritten
  BY DEF IInv
<1> QED BY <1>1, InitIInv, NextKeepsIInv, PTL DEF Spec

(* The step property of RegisteredUntilReplaced.                           *)
LEMMA OnlyThoseReplace ==
  ASSUME IInv, [Next]_vars, NEW i \in alive \cap alive', file[i] = proc[i], file'[i] # proc[i]
  PROVE  \/ \E c \in Joined(i) : c \in linked' \ linked
         \/ \E c \in Client : i \in left[c] \ left'[c] /\ pc[c] = "clear"
<1> USE DEF IInv
<1>1. i \in Id /\ proc[i] \in Pid /\ proc[i] \notin {NoPid, Absent, Empty, Garbled}
  BY PidsAreNoMarks DEF TypeOK, PidInv
<1>2. \A c \in Client : pc[c] \in Young => cmd[c].id # i
  BY <1>1 DEF YoungInv, Unread
<1>3. ASSUME NEW c \in Client, Truncate(c) \/ Write(c)
      PROVE  FALSE
  <2>1. cmd[c].id # i
    BY <1>2, <1>3 DEF Truncate, Write, Young
  <2> QED BY <1>1, <1>3, <2>1 DEF Truncate, Write, OpenFile, WriteFile, TypeOK
<1>4. ASSUME NEW c \in Client, HandlerOpen(c)
      PROVE  \E d \in Joined(i) : d \in linked' \ linked
  <2>1. cmd[c].id = i
    BY <1>1, <1>4, Opening DEF HandlerOpen
  <2>2. c \in Joined(i)
    BY <1>4, <2>1 DEF HandlerOpen, ThreadInv
  <2>3. c \notin linked
    BY <1>4, <2>2, JoinedMember DEF HandlerOpen, ThreadInv
  <2> QED BY <1>4, <2>2, <2>3, Opening DEF HandlerOpen
<1>5. ASSUME NEW c \in Client, HandlerWrite(c)
      PROVE  FALSE
  <2>1. cmd[c].id = i /\ c \in linked
    BY <1>1, <1>5 DEF HandlerWrite, WriteFile, TypeOK
  <2> QED BY <1>5, <2>1 DEF HandlerWrite, RewriteInv
<1>6. ASSUME NEW c \in Client, KillRemove(c)
      PROVE  FALSE
  <2>1. pc[c] = "remove" /\ cmd[c].id = i
    BY <1>1, <1>6 DEF KillRemove, Unlink, TypeOK
  <2> QED BY <2>1 DEF KillInv
<1>7. ASSUME NEW c \in Client, PurgeRemove(c)
      PROVE  i \in left[c] \ left'[c] /\ pc[c] = "clear"
  <2>1. PICK j \in left[c] : Unlink(j) /\ left' = [left EXCEPT ![c] = @ \ {j}]
    BY <1>7 DEF PurgeRemove
  <2>2. j = i
    BY <1>1, <2>1 DEF Unlink, TypeOK
  <2> QED BY <1>7, <2>1, <2>2 DEF PurgeRemove, TypeOK
<1>8. \/ UNCHANGED file
      \/ \E c \in Client : Truncate(c) \/ Write(c) \/ HandlerOpen(c) \/ HandlerWrite(c)
      \/ \E c \in Client : KillRemove(c) \/ PurgeRemove(c)
  <2>1. CASE Stops
    BY <2>1, StopsEnd DEF Ending
  <2> QED BY <2>1, NextKinds DEF StartsCommand, StartsPurge, Spawn, Get, Send, KillRead, vars
<1> QED BY <1>3, <1>4, <1>5, <1>6, <1>7, <1>8

(* A process that runs keeps the file that names it until a client with a  *)
(* Session for it opens that to rewrite it or a purge comes to it: no kill *)
(* removes the file of a process that it has not ended, also when pids are *)
(* used again between its reading the file and its removing it.            *)
THEOREM RegistrationsLast == Spec => RegisteredUntilReplaced
<1>1. IInv /\ [Next]_vars =>
        [\A i \in alive \cap alive' :
           file[i] = proc[i] /\ file'[i] # proc[i] =>
             \/ \E c \in Joined(i) : c \in linked' \ linked
             \/ \E c \in Client : i \in left[c] \ left'[c] /\ pc[c] = "clear"]_vars
  BY OnlyThoseReplace
<1> QED BY <1>1, InitIInv, NextKeepsIInv, PTL DEF Spec, RegisteredUntilReplaced
=============================================================================
