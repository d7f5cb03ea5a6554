------------------------------ MODULE CommandPipe ------------------------------
(***************************************************************************)
(* The named pipe of one session: the processes that send a command into   *)
(* it (send_bind_command, send_mount_command), the process that main.rs    *)
(* starts for InternalSession, which only makes the pipe, the listener     *)
(* threads of the processes that hold a Session for it, which read it, and *)
(* a purge, which unlinks it.                                              *)
(*                                                                         *)
(* Every process that is about to use the pipe asks whether the path       *)
(* exists and makes the pipe if not.  Whoever opens a pipe waits until the *)
(* other side opens it too.  A listener reads until nobody has the pipe    *)
(* open for writing, closes it, parses what it has read as one command and *)
(* runs it.  A pipe that is unlinked stays what it is for those that have  *)
(* it open, and what it holds is gone when the last of them closes it.     *)
(*                                                                         *)
(* A command is named by its sender, which sends one.  It is shorter than  *)
(* PIPE_BUF and so written at once, but fs::read_to_string, which cannot   *)
(* know how much will come, reads it piece by piece, the first time no     *)
(* more than 32 bytes, and listeners of the same pipe take pieces from     *)
(* each other.  What running a command does is in Session.  The behaviour  *)
(* of the pipe itself, of the kernel, is external.                         *)
(***************************************************************************)
EXTENDS Naturals, SequencesExt

CONSTANTS
  Sender,      \* the processes that send a command
  Listener,    \* the listener threads, each in a process of its own
  Pieces,      \* bound: into how many pieces the reads cut a command
  MaxPurges    \* bound: how often the pipe is unlinked

ASSUME PurgeAssumption == MaxPurges \in Nat
ASSUME PieceAssumption == Pieces \in Nat \ {0}

SessionProcess == "internal-session"
ASSUME SenderAssumption == SessionProcess \notin Sender /\ Sender \cap Listener = {}

Maker == Sender \cup {SessionProcess}
NoPipe == 0
Pipe == 1 .. MaxPurges + 1

(* The pieces of a command in the order in which they are in the pipe.     *)
Piece == Sender \X (1 .. Pieces)
Whole(s) == [k \in 1 .. Pieces |-> <<s, k>>]

VARIABLES
  pc,         \* where each maker is
  at,         \* the pipe each sender has open, or opens
  path,       \* the pipe that the path names, or NoPipe
  made,       \* how many pipes were made
  data,       \* what was written to each pipe and not read
  reader,     \* where each listener is, or "gone" when there is no such process
  reader_at,  \* the pipe that each listener has open, or opens
  text,       \* what each listener has read since it opened the pipe
  sent,       \* the commands that were written, in order
  ran,        \* what each listener has taken for a command and run, in order
  purges

vars == <<pc, at, path, made, data, reader, reader_at, text, sent, ran, purges>>

Sending == {"make", "open", "wait", "write", "close"}
Returned == {"ok", "failed", "killed"}

TypeOK ==
  /\ pc \in [Maker -> {"idle", "kept"} \cup Sending \cup Returned]
  /\ at \in [Sender -> Pipe \cup {NoPipe}]
  /\ path \in Pipe \cup {NoPipe}
  /\ made \in 0 .. MaxPurges + 1
  /\ data \in [Pipe -> Seq(Piece)]
  /\ reader \in [Listener -> {"open", "wait", "read", "eof", "gone"}]
  /\ reader_at \in [Listener -> Pipe \cup {NoPipe}]
  /\ text \in [Listener -> Seq(Piece)]
  /\ sent \in Seq(Sender)
  /\ ran \in [Listener -> Seq(Seq(Piece))]
  /\ purges \in 0 .. MaxPurges

(* Only a process that called get_active_session has a listener, a bind    *)
(* command sends to a session that has none, and two processes that did    *)
(* have one each.                                                          *)
Init ==
  /\ pc = [m \in Maker |-> "idle"]
  /\ at = [s \in Sender |-> NoPipe]
  /\ path = NoPipe
  /\ made = 0
  /\ data = [i \in Pipe |-> << >>]
  /\ reader \in [Listener -> {"open", "gone"}]
  /\ reader_at = [l \in Listener |-> NoPipe]
  /\ text = [l \in Listener |-> << >>]
  /\ sent = << >>
  /\ ran = [l \in Listener |-> << >>]
  /\ purges = 0
-----------------------------------------------------------------------------
Writers(i) == {s \in Sender : pc[s] \in {"wait", "write", "close"} /\ at[s] = i}
Readers(i) == {l \in Listener : reader[l] \in {"wait", "read", "eof"} /\ reader_at[l] = i}

(* What the pipes hold once u, which has pipe i open, has closed it.       *)
DataWithout(u, i) ==
  IF Writers(i) \cup Readers(i) = {u} THEN [data EXCEPT ![i] = << >>] ELSE data

(* exists.  For the senders this follows get_session, which found the      *)
(* session's file.                                                         *)
Check(m) ==
  /\ pc[m] = "idle"
  /\ pc' = [pc EXCEPT ![m] = IF path = NoPipe THEN "make"
                             ELSE IF m = SessionProcess THEN "kept" ELSE "open"]
  /\ UNCHANGED <<at, path, made, data, reader, reader_at, text, sent, ran, purges>>

(* Mutant: a maker that finds the pipe made in the meantime tries again.   *)
Make_Retry(m) ==
  /\ pc[m] = "make"
  /\ path = NoPipe
  /\ path' = made + 1
  /\ made' = made + 1
  /\ pc' = [pc EXCEPT ![m] = IF m = SessionProcess THEN "kept" ELSE "open"]
  /\ UNCHANGED <<at, data, reader, reader_at, text, sent, ran, purges>>

(* Mutant: a maker replaces a pipe that was made in the meantime.          *)
Make_Replace(m) ==
  /\ pc[m] = "make"
  /\ path' = made + 1
  /\ made' = made + 1
  /\ pc' = [pc EXCEPT ![m] = IF m = SessionProcess THEN "kept" ELSE "open"]
  /\ UNCHANGED <<at, data, reader, reader_at, text, sent, ran, purges>>

(* mkfifo, which fails if the path exists by now.                          *)
Make(m) ==
  /\ pc[m] = "make"
  /\ \/ /\ path = NoPipe
        /\ path' = made + 1
        /\ made' = made + 1
        /\ pc' = [pc EXCEPT ![m] = IF m = SessionProcess THEN "kept" ELSE "open"]
     \/ /\ path # NoPipe
        /\ pc' = [pc EXCEPT ![m] = "failed"]
        /\ UNCHANGED <<path, made>>
  /\ UNCHANGED <<at, data, reader, reader_at, text, sent, ran, purges>>

(* open for writing: an error if the path is gone, a wait if no listener   *)
(* has this pipe open, and the end of the wait for those that do.          *)
Open(s) ==
  /\ pc[s] = "open"
  /\ \/ /\ path = NoPipe
        /\ pc' = [pc EXCEPT ![s] = "failed"]
        /\ UNCHANGED <<at, reader>>
     \/ /\ path # NoPipe
        /\ at' = [at EXCEPT ![s] = path]
        /\ pc' = [pc EXCEPT ![s] = IF Readers(path) # {} THEN "write" ELSE "wait"]
        /\ reader' = [l \in Listener |-> IF l \in Readers(path) /\ reader[l] = "wait"
                                          THEN "read" ELSE reader[l]]
  /\ UNCHANGED <<path, made, data, reader_at, text, sent, ran, purges>>

(* write_all, an error if every listener has closed the pipe since.         *)
Write(s) ==
  /\ pc[s] = "write"
  /\ \/ /\ Readers(at[s]) # {}
        /\ data' = [data EXCEPT ![at[s]] = @ \o Whole(s)]
        /\ sent' = Append(sent, s)
        /\ pc' = [pc EXCEPT ![s] = "close"]
     \/ /\ Readers(at[s]) = {}
        /\ data' = DataWithout(s, at[s])
        /\ pc' = [pc EXCEPT ![s] = "failed"]
        /\ UNCHANGED sent
  /\ UNCHANGED <<at, path, made, reader, reader_at, text, ran, purges>>

Close(s) ==
  /\ pc[s] = "close"
  /\ data' = DataWithout(s, at[s])
  /\ pc' = [pc EXCEPT ![s] = "ok"]
  /\ UNCHANGED <<at, path, made, reader, reader_at, text, sent, ran, purges>>

(* The user interrupts a sender, or a kill hits it.                        *)
Kill(s) ==
  /\ pc[s] \in Sending
  /\ data' = IF pc[s] \in {"wait", "write", "close"} THEN DataWithout(s, at[s]) ELSE data
  /\ pc' = [pc EXCEPT ![s] = "killed"]
  /\ UNCHANGED <<at, path, made, reader, reader_at, text, sent, ran, purges>>
-----------------------------------------------------------------------------
(* A listener opens the pipe.  While there is none, it fails and tries     *)
(* again after a second.                                                   *)
ListenerOpen(l) ==
  /\ reader[l] = "open"
  /\ path # NoPipe
  /\ reader_at' = [reader_at EXCEPT ![l] = path]
  /\ reader' = [reader EXCEPT ![l] = IF Writers(path) = {} THEN "wait" ELSE "read"]
  /\ pc' = [m \in Maker |-> IF m \in Writers(path) /\ pc[m] = "wait" THEN "write" ELSE pc[m]]
  /\ UNCHANGED <<at, path, made, data, text, sent, ran, purges>>

(* One piece: whatever else read takes is taken by the next such steps.    *)
ListenerRead(l) ==
  /\ reader[l] = "read"
  /\ data[reader_at[l]] # << >>
  /\ text' = [text EXCEPT ![l] = Append(@, Head(data[reader_at[l]]))]
  /\ data' = [data EXCEPT ![reader_at[l]] = Tail(@)]
  /\ UNCHANGED <<pc, at, path, made, reader, reader_at, sent, ran, purges>>

(* Mutant: a listener takes an empty pipe for the end of the file.         *)
ListenerEof_NonBlocking(l) ==
  /\ reader[l] = "read"
  /\ data[reader_at[l]] = << >>
  /\ reader' = [reader EXCEPT ![l] = "eof"]
  /\ UNCHANGED <<pc, at, path, made, data, reader_at, text, sent, ran, purges>>

ListenerEof(l) ==
  /\ reader[l] = "read"
  /\ data[reader_at[l]] = << >>
  /\ Writers(reader_at[l]) = {}
  /\ reader' = [reader EXCEPT ![l] = "eof"]
  /\ UNCHANGED <<pc, at, path, made, data, reader_at, text, sent, ran, purges>>

(* The piece q follows p in the pipe, or may follow it.                    *)
Follows(p, q) == IF p[2] = Pieces THEN q[2] = 1 ELSE q = <<p[1], p[2] + 1>>

(* Pieces that were not one after the other in the pipe.                   *)
Torn(q) == \E k \in 1 .. Len(q) - 1 : ~ Follows(q[k], q[k + 1])

IsCommand(q) == \E s \in Sender : q = Whole(s)

(* Pieces that are torn may happen to parse, as a command that nobody sent,*)
(* but not when a whole command is followed by anything.  What is not torn *)
(* and not one command has a part of a command only, or ends too late.     *)
MayParse(q) == Torn(q) /\ ~ \E s \in Sender : IsStrictPrefix(Whole(s), q)

(* Parse what was read and run the command, or log an error.               *)
Parse(l) ==
  \/ /\ IsCommand(text[l]) \/ MayParse(text[l])
     /\ ran' = [ran EXCEPT ![l] = Append(@, text[l])]
  \/ ~ IsCommand(text[l]) /\ UNCHANGED ran

(* Mutant: the string that is read into lives outside the loop.            *)
ListenerClose_KeepsText(l) ==
  /\ reader[l] = "eof"
  /\ reader' = [reader EXCEPT ![l] = "open"]
  /\ data' = DataWithout(l, reader_at[l])
  /\ Parse(l)
  /\ UNCHANGED <<pc, at, path, made, reader_at, text, sent, purges>>

(* It closes the pipe, parses what it has read, runs the command and       *)
(* sleeps.                                                                 *)
ListenerClose(l) ==
  /\ reader[l] = "eof"
  /\ reader' = [reader EXCEPT ![l] = "open"]
  /\ data' = DataWithout(l, reader_at[l])
  /\ Parse(l)
  /\ text' = [text EXCEPT ![l] = << >>]
  /\ UNCHANGED <<pc, at, path, made, reader_at, sent, purges>>

(* A listener's process ends: nothing waits for this thread.               *)
ListenerEnds(l) ==
  /\ reader[l] # "gone"
  /\ reader' = [reader EXCEPT ![l] = "gone"]
  /\ data' = IF reader[l] = "open" THEN data ELSE DataWithout(l, reader_at[l])
  /\ text' = [text EXCEPT ![l] = << >>]
  /\ UNCHANGED <<pc, at, path, made, reader_at, sent, ran, purges>>

(* purge_sessions removes every file in the directory, pipes as well.      *)
Purge ==
  /\ path # NoPipe
  /\ purges < MaxPurges
  /\ path' = NoPipe
  /\ purges' = purges + 1
  /\ UNCHANGED <<pc, at, made, data, reader, reader_at, text, sent, ran>>

SenderStep(s) == Make(s) \/ Open(s) \/ Write(s) \/ Close(s)
ListenerStep(l) == ListenerOpen(l) \/ ListenerRead(l) \/ ListenerEof(l) \/ ListenerClose(l)

Next ==
  \/ \E m \in Maker : Check(m) \/ Make(m)
  \/ \E s \in Sender : Open(s) \/ Write(s) \/ Close(s) \/ Kill(s)
  \/ \E l \in Listener : ListenerStep(l) \/ ListenerEnds(l)
  \/ Purge

(* A process that can go on goes on.  Nobody has to send, interrupt or     *)
(* purge anything.                                                         *)
Spec ==
  /\ Init /\ [][Next]_vars
  /\ \A s \in Sender : WF_vars(SenderStep(s))
  /\ \A l \in Listener : WF_vars(ListenerStep(l))
-----------------------------------------------------------------------------
(* Properties *)

(* However senders, listeners, purges and interrupts interleave, no part   *)
(* of a command is run twice, nothing of it is run after its sender was    *)
(* told that sending it failed or while its sender still has the pipe, a   *)
(* listener that has never had another one beside it runs nothing but      *)
(* commands that were sent, and while the pipe is the one that was made    *)
(* first, each listener runs what it runs in the order of sending.         *)
Delivery == INSTANCE CommandDelivery
              WITH Command <- Sender, replaced <- purges > 0,
                   joined <- {l \in Listener : reader_at[l] # NoPipe},
                   answer <- [s \in Sender |-> IF pc[s] \in Returned THEN pc[s] ELSE "none"]
DeliveredAtMostOnce == Delivery!Spec

Ran(s) == \E l \in Listener : Whole(s) \in ToSet(ran[l])
SomeListenerGone == \E l \in Listener : reader[l] = "gone"
OneListener ==
  \E l \in Listener : reader[l] # "gone" /\ \A o \in Listener \ {l} : reader_at[o] = NoPipe
NoListener == \A l \in Listener : reader[l] = "gone"

(* Somebody waits at a pipe that the path does not name any more: whoever  *)
(* comes next opens another one.                                           *)
Stranded ==
  \/ \E s \in Sender : pc[s] = "wait" /\ at[s] # path
  \/ \E l \in Listener : reader[l] = "wait" /\ reader_at[l] # path

(* As long as the session has a listener, every sender returns, whoever    *)
(* made the pipe and whatever the others do, unless a purge has unlinked   *)
(* the pipe at which it or a listener waits.                               *)
SendersReturn ==
  \A s \in Sender : pc[s] \in Sending ~> pc[s] \in Returned \/ NoListener \/ Stranded

(* A command that was sent while nobody else sent one is run, also when a  *)
(* purge has unlinked the pipe since it was opened, as long as the session *)
(* has one listener and has not had another: two would divide the command. *)
LoneCommandRuns ==
  \A s \in Sender :
     pc[s] = "ok" ~> Ran(s) \/ ~ OneListener \/ \E o \in Sender \ {s} : pc[o] # "idle"
-----------------------------------------------------------------------------
(* What the repository says and the code does not do *)

(* session.rs:302, "Ok(()) if the command was sent successfully", and      *)
(* docs/.../mount-operations.md:28, where a command that was sent is       *)
(* carried out: a session whose listener keeps running runs what was sent, *)
(* if nobody that sends is interrupted.                                    *)
AcceptedCommandsRun ==
  \A s \in Sender : pc[s] = "ok" ~> Ran(s) \/ SomeListenerGone \/ \E o \in Sender : pc[o] = "killed"
=============================================================================
