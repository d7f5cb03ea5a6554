----------------------------- MODULE SessionProofs -----------------------------
(***************************************************************************)
(* What the session file says and what the session lists when nobody has   *)
(* anything to do, for any paths and directories, any number of calls and  *)
(* commands and any way in which the three threads interleave.             *)
(***************************************************************************)
EXTENDS Session, SequenceTheorems, TLAPS

State == [mounts |-> mounts, binds |-> binds]

(* Each thread has places of its own, and at them a job of some kind.      *)
PlaceInv ==
  /\ pc["handler"] \in {"check", "recv", "fs", "update", "read", "open", "write", "ended", "gone"}
  /\ pc["listener"] \in {"idle", "fs", "update", "send", "read", "open", "write", "gone"}
  /\ pc["api"] \in {"idle", "fs", "update", "send", "stopping", "cleaning", "failed", "down", "gone"}
  /\ pc["handler"] = "fs" => job["handler"] \in Attach \cup Unmount
  /\ pc["handler"] = "update" => job["handler"] \in Attach \cup Done \cup Unmount
  /\ pc["listener"] \in {"fs", "update", "send"} => job["listener"] \in Attach
  /\ pc["api"] = "fs" => job["api"] \in Attach \cup Unmount
  /\ pc["api"] \in {"update", "send"} => job["api"] \in Attach

(* Until shutdown clears the flag all threads run, no message tells the    *)
(* handler to stop and nobody removes the file.                            *)
RunInv ==
  is_running =>
    /\ pc["api"] \in {"idle", "fs", "update", "send"}
    /\ pc["handler"] \notin {"ended", "gone"}
    /\ pc["listener"] # "gone"
    /\ \A k \in DOMAIN queue : queue[k].kind # "Shutdown"
    /\ \A t \in Thread : pc[t] = "write" => linked[t]

(* The listener keeps the state's read lock from its copy to the end of    *)
(* its write, so its copy is never stale.                                  *)
ListenerInv ==
  pc["listener"] \in {"open", "write"} => "listener" \in readers /\ snap["listener"] = State

(* The handler is going to take another copy of the state and to write it: *)
(* it is about to, or a notification is on its way to it.                  *)
Due ==
  \/ pc["handler"] \in {"update", "read"}
  \/ pc["listener"] = "send" \/ pc["api"] = "send"
  \/ \E k \in DOMAIN queue : queue[k].kind \in {"MountSuccess", "BindSuccess"}

(* If it is not going to, its last copy is the state, and nobody writes    *)
(* anything else.                                                          *)
FileInv ==
  is_running /\ ~ Due =>
    /\ pc["handler"] \in {"open", "write"} => snap["handler"] = State
    /\ pc["handler"] = "write" => file \in {Empty, State}
    /\ pc["handler"] \in {"check", "recv", "fs"} =>
         IF pc["listener"] = "write" THEN file \in {Empty, State} ELSE FileIsState

(* A mount at the target path x is on its way to the state.                *)
MountComes(x) ==
  \/ \E t \in {"listener", "api"} :
        pc[t] \in {"update", "send"} /\ job[t].kind = "Mount" /\ job[t].target = x
  \/ /\ pc["handler"] = "update" /\ job["handler"].kind \in {"Mount", "MountSuccess"}
     /\ job["handler"].target = x
  \/ \E k \in DOMAIN queue : queue[k].kind = "MountSuccess" /\ queue[k].target = x

(* The handler is about to forget the mount at x.                          *)
UnmountComes(x) ==
  pc["handler"] = "update" /\ job["handler"].kind = "Unmount" /\ job["handler"].target = x

BindComes(x, s) ==
  \E t \in Thread : /\ pc[t] = "update" /\ job[t].kind = "Bind"
                    /\ job[t].target = x /\ job[t].source = s

MountListed(x) == \E p \in mounts : p[2] = x
BindListed(x, s) == \E k \in DOMAIN binds : binds[k] = <<s, x>>

MountKept(x) == MountComes(x) \/ (MountListed(x) /\ ~ UnmountComes(x))
BindKept(x, s) == BindComes(x, s) \/ BindListed(x, s)

Kept(a) ==
  \/ a.kind = "Mount" /\ MountKept(a.target)
  \/ a.kind = "Bind" /\ BindKept(a.target, a.source)

(* What is attached to a directory was attached by a path of it, and is    *)
(* listed to stay or going to be: a bind with its source, a mount by its   *)
(* target alone.                                                           *)
AttachInv ==
  is_running =>
    \A n \in Node : \A a \in attached[n] : Canon[a.target] = n /\ (a.ok => Kept(a))

IInv == TypeOK /\ PlaceInv /\ RunInv /\ ListenerInv /\ FileInv /\ AttachInv
-----------------------------------------------------------------------------
(* Lemmas about jobs and about parts of actions *)

Entry == [kind : {"Mount", "Bind"}, source : Source, target : Target, ok : BOOLEAN]

(* What the kinds of jobs and messages consist of.                         *)
LEMMA Jobs ==
  /\ \A j \in Attach : j.kind \in {"Mount", "Bind"} /\ j.source \in Source /\ j.target \in Target
  /\ \A j \in Done : j.kind \in {"MountSuccess", "BindSuccess"} /\ j.source \in Source /\ j.target \in Target
  /\ \A j \in Unmount : j.kind = "Unmount" /\ j.target \in Target
  /\ \A m \in SessionMessage : m \in Attach \/ m \in Done \/ m \in Unmount \/ m.kind = "Shutdown"
  /\ \A t \in Target : Canon[t] \in Node
BY CanonAssumption DEF Attach, Done, Unmount, SessionMessage

(* What each kind of job records.                                          *)
LEMMA Recording ==
  ASSUME TypeOK, NEW j \in Attach \cup Done \cup Unmount, Record(j)
  PROVE  /\ mounts' \subseteq Pair /\ binds' \in Seq(Pair)
         /\ j.kind \in {"Mount", "MountSuccess"} =>
              mounts' = AddMount(mounts, j.source, j.target) /\ binds' = binds
         /\ j.kind \in {"Bind", "BindSuccess"} =>
              binds' = Append(binds, <<j.source, j.target>>) /\ mounts' = mounts
         /\ j.kind = "Unmount" => mounts' = RemoveMount(mounts, j.target) /\ binds' = binds
<1>1. mounts \subseteq Pair /\ binds \in Seq(Pair)
  BY DEF TypeOK
<1>2. CASE j.kind \in {"Mount", "MountSuccess"}
  <2>1. <<j.source, j.target>> \in Pair
    BY <1>2, Jobs DEF Pair
  <2> QED BY <1>1, <1>2, <2>1 DEF Record, AddMount
<1>3. CASE j.kind \in {"Bind", "BindSuccess"}
  <2>1. <<j.source, j.target>> \in Pair
    BY <1>3, Jobs DEF Pair
  <2>2. Append(binds, <<j.source, j.target>>) \in Seq(Pair)
    BY <1>1, <2>1, AppendProperties
  <2> QED BY <1>1, <1>3, <2>2 DEF Record
<1>4. CASE j.kind = "Unmount"
  BY <1>1, <1>4 DEF Record, RemoveMount
<1> QED BY <1>2, <1>3, <1>4, Jobs

(* What a call of fs_manager may change in the namespace, by its outcome.  *)
LEMMA Effects ==
  ASSUME TypeOK, NEW j \in Attach \cup Unmount, NEW outcome \in Outcomes(j), Effect(j, outcome)
  PROVE  /\ attached' \in [Node -> SUBSET Entry]
         /\ \A n \in Node : n # Canon[j.target] => attached'[n] = attached[n]
         /\ \A n \in Node : \A a \in attached'[n] :
              \/ a \in attached[n] /\ (outcome = "refused" \/ j.kind # "Unmount" \/ n # Canon[j.target])
              \/ /\ n = Canon[j.target] /\ outcome # "refused" /\ j.kind # "Unmount"
                 /\ a = [kind |-> j.kind, source |-> j.source, target |-> j.target,
                      ok |-> outcome = "ok"]
<1>1. Canon[j.target] \in Node /\ attached \in [Node -> SUBSET Entry]
  BY Jobs DEF TypeOK, Entry
<1>2. CASE outcome = "refused"
  BY <1>1, <1>2 DEF Effect
<1>3. CASE outcome # "refused" /\ j.kind = "Unmount"
  BY <1>1, <1>3 DEF Effect
<1>4. CASE outcome # "refused" /\ j.kind # "Unmount"
  <2> DEFINE a == [kind |-> j.kind, source |-> j.source, target |-> j.target, ok |-> outcome = "ok"]
  <2>1. a \in Entry
    BY <1>4, Jobs DEF Entry
  <2>2. attached' = [attached EXCEPT ![Canon[j.target]] = attached[Canon[j.target]] \cup {a}]
    BY <1>1, <1>4 DEF Effect
  <2> HIDE DEF a
  <2>3. /\ attached' \in [Node -> SUBSET Entry]
        /\ \A n \in Node : n # Canon[j.target] => attached'[n] = attached[n]
        /\ attached'[Canon[j.target]] = attached[Canon[j.target]] \cup {a}
    BY <1>1, <2>1, <2>2
  <2> QED BY <1>4, <2>3 DEF a
<1> QED BY <1>2, <1>3, <1>4

(* A message that is sent is queued behind the others, if there is a       *)
(* receiver.                                                               *)
LEMMA Sending ==
  ASSUME TypeOK, NEW m \in SessionMessage, Send(m)
  PROVE  /\ queue' \in Seq(SessionMessage)
         /\ \A k \in DOMAIN queue : k \in DOMAIN queue' /\ queue'[k] = queue[k]
         /\ \A k \in DOMAIN queue' : k \in DOMAIN queue \/ queue'[k] = m
         /\ ReceiverAlive => \E k \in DOMAIN queue' : queue'[k] = m
<1>1. queue \in Seq(SessionMessage) /\ Len(queue) \in Nat
  BY LenProperties DEF TypeOK
<1>2. CASE queue' = queue /\ ~ ReceiverAlive
  BY <1>1, <1>2
<1>3. CASE queue' = Append(queue, m)
  <2>1. /\ queue' \in Seq(SessionMessage) /\ Len(queue') = Len(queue) + 1
        /\ \A k \in 1 .. Len(queue) : queue'[k] = queue[k]
        /\ queue'[Len(queue) + 1] = m
    BY <1>1, <1>3, AppendProperties
  <2> QED BY <1>1, <2>1
<1> QED BY <1>2, <1>3 DEF Send

(* Receiving takes the first message and keeps the others.                 *)
LEMMA Receiving ==
  ASSUME TypeOK, queue # << >>
  PROVE  /\ Head(queue) \in SessionMessage /\ Tail(queue) \in Seq(SessionMessage)
         /\ \A k \in DOMAIN Tail(queue) : k + 1 \in DOMAIN queue /\ Tail(queue)[k] = queue[k + 1]
         /\ \A k \in DOMAIN queue :
              queue[k] = Head(queue) \/ \E l \in DOMAIN Tail(queue) : Tail(queue)[l] = queue[k]
         /\ 1 \in DOMAIN queue /\ queue[1] = Head(queue)
<1>1. /\ queue \in Seq(SessionMessage) /\ Len(queue) \in Nat \ {0}
      /\ Head(queue) = queue[1] /\ Head(queue) \in SessionMessage
      /\ Tail(queue) \in Seq(SessionMessage) /\ Len(Tail(queue)) = Len(queue) - 1
      /\ \A k \in 1 .. Len(queue) - 1 : Tail(queue)[k] = queue[k + 1]
  BY HeadTailProperties, LenProperties, EmptySeq DEF TypeOK
<1>2. ASSUME NEW k \in DOMAIN queue, k # 1
      PROVE  k - 1 \in DOMAIN Tail(queue) /\ Tail(queue)[k - 1] = queue[k]
  BY <1>1, <1>2
<1>3. \A k \in DOMAIN queue :
        queue[k] = Head(queue) \/ \E l \in DOMAIN Tail(queue) : Tail(queue)[l] = queue[k]
  BY <1>1, <1>2
<1>4. \A k \in DOMAIN Tail(queue) : k + 1 \in DOMAIN queue /\ Tail(queue)[k] = queue[k + 1]
  BY <1>1
<1>5. 1 \in DOMAIN queue
  BY <1>1
<1> QED BY <1>1, <1>3, <1>4, <1>5

(* A file that holds nothing or the state, written with the state, holds   *)
(* the state.                                                              *)
LEMMA WritingState ==
  ASSUME TypeOK, NEW old \in {Empty, State}, NEW new \in Written(old, State)
  PROVE  new = State
<1>1. State.mounts \subseteq State.mounts /\ IsPrefix(State.binds, State.binds)
  BY DEF State, TypeOK, IsPrefix
<1>2. State \in Info
  BY DEF State, TypeOK, Info
<1> QED BY <1>1, <1>2 DEF Written

(* Two writers leave one of the two contents or a torn file.               *)
LEMMA WritingType ==
  ASSUME NEW old, NEW new \in Info
  PROVE  Written(old, new) \subseteq Info \cup {Torn}
BY DEF Written
-----------------------------------------------------------------------------
(* The types and the places *)

Place == {"idle", "check", "recv", "fs", "update", "send", "read", "open", "write",
          "stopping", "cleaning", "failed", "down", "ended", "gone"}

(* Every step keeps the types.                                             *)
LEMMA NextKeepsTypeOK ==
  ASSUME IInv, [Next]_vars
  PROVE  TypeOK'
<1> USE DEF IInv
<1>1. /\ pc \in [Thread -> Place] /\ job \in [Thread -> SessionMessage \cup {Idle}]
      /\ "api" \in Thread /\ "handler" \in Thread /\ "listener" \in Thread
      /\ pc' \in [Thread -> Place] => TypeOK!1'
      /\ State \in Info
  BY DEF TypeOK, Place, Thread, State, Info
<1>2. Attach \cup Done \cup Unmount \subseteq SessionMessage
  BY DEF SessionMessage
<1>4. MaxCalls \in Nat /\ MaxCommands \in Nat
  BY BoundAssumption
<1>5. CASE HandlerCheck
  <2>1. pc' \in [Thread -> Place]
    BY <1>1, <1>5 DEF HandlerCheck, Goto, Place
  <2> QED BY <1>1, <1>5, <2>1 DEF HandlerCheck, TypeOK
<1>6. CASE HandlerRecv
  <2>1. Head(queue) \in SessionMessage /\ queue' \in Seq(SessionMessage)
    BY <1>6, Receiving DEF HandlerRecv
  <2>2. pc' \in [Thread -> Place]
    BY <1>1, <1>6, <2>1, Jobs DEF HandlerRecv, Goto, Place
  <2>3. job' \in [Thread -> SessionMessage \cup {Idle}]
    BY <1>1, <1>6, <2>1 DEF HandlerRecv
  <2> QED BY <1>1, <1>6, <2>1, <2>2, <2>3 DEF HandlerRecv, TypeOK
<1>7. CASE HandlerCall
  <2>1. pc' \in [Thread -> Place]
    BY <1>1, <1>7 DEF HandlerCall, Goto, Place
  <2>2. attached' \in [Node -> SUBSET Entry]
    BY <1>7, Effects DEF HandlerCall, PlaceInv
  <2> QED BY <1>1, <1>7, <2>1, <2>2 DEF HandlerCall, TypeOK, Entry
<1>8. CASE HandlerUpdate
  <2>1. pc' \in [Thread -> Place]
    BY <1>1, <1>8 DEF HandlerUpdate, Goto, Place
  <2>2. mounts' \subseteq Pair /\ binds' \in Seq(Pair)
    BY <1>8, Recording DEF HandlerUpdate, PlaceInv
  <2>3. snap' \in [Thread -> Info]
    BY <1>8, <2>2 DEF HandlerUpdate, TypeOK, Info
  <2>4. writer' \in {NoThread, "handler"}
    BY <1>8 DEF HandlerUpdate
  <2> QED BY <1>1, <1>8, <2>1, <2>2, <2>3, <2>4 DEF HandlerUpdate, TypeOK
<1>9. ASSUME NEW t \in {"handler", "listener"}, ReadState(t)
      PROVE  TypeOK'
  <2>1. pc' \in [Thread -> Place]
    BY <1>1, <1>9 DEF ReadState, Goto, Place
  <2>2. snap' \in [Thread -> Info]
    BY <1>1, <1>9 DEF ReadState, TypeOK, State
  <2> QED BY <1>1, <1>9, <2>1, <2>2 DEF ReadState, TypeOK
<1>10. ASSUME NEW t \in {"handler", "listener"}, OpenFile(t)
       PROVE  TypeOK'
  <2>1. pc' \in [Thread -> Place]
    BY <1>1, <1>10 DEF OpenFile, Goto, Place
  <2> QED BY <1>1, <1>10, <2>1 DEF OpenFile, TypeOK
<1>11. ASSUME NEW t \in {"handler", "listener"}, WriteFile(t)
       PROVE  TypeOK'
  <2>1. pc' \in [Thread -> Place]
    BY <1>1, <1>11 DEF WriteFile, Goto, Place
  <2>2. file' \in Info \cup {Absent, Empty, Torn}
    BY <1>1, <1>11, WritingType DEF WriteFile, TypeOK
  <2>3. writer' \in {NoThread, "handler"}
    BY <1>11 DEF WriteFile, TypeOK
  <2> QED BY <1>1, <1>11, <2>1, <2>2, <2>3 DEF WriteFile, TypeOK
<1>12. ASSUME NEW t \in {"listener", "api"}, DirectCall(t)
       PROVE  TypeOK'
  <2>1. pc' \in [Thread -> Place]
    BY <1>1, <1>12 DEF DirectCall, Goto, Place
  <2>2. attached' \in [Node -> SUBSET Entry]
    BY <1>12, Effects DEF DirectCall, PlaceInv
  <2>3. ns_lock' \in {NoThread, "api"}
    BY <1>12 DEF DirectCall, TypeOK
  <2> QED BY <1>1, <1>12, <2>1, <2>2, <2>3 DEF DirectCall, TypeOK, Entry
<1>13. ASSUME NEW t \in {"listener", "api"}, NotifyState(t)
       PROVE  TypeOK'
  <2>1. pc' \in [Thread -> Place]
    BY <1>1, <1>13 DEF NotifyState, Goto, Place
  <2>2. mounts' \subseteq Pair /\ binds' \in Seq(Pair)
    BY <1>13, Recording DEF NotifyState, PlaceInv
  <2> QED BY <1>1, <1>13, <2>1, <2>2 DEF NotifyState, TypeOK
<1>14. ASSUME NEW t \in {"listener", "api"}, NotifyMessage(t)
       PROVE  TypeOK'
  <2>1. pc' \in [Thread -> Place]
    BY <1>1, <1>14 DEF NotifyMessage, Goto, Place
  <2> DEFINE m == [kind |-> IF job[t].kind = "Mount" THEN "MountSuccess" ELSE "BindSuccess",
                   source |-> job[t].source, target |-> job[t].target]
  <2>2. m \in Done
    BY <1>14, Jobs DEF NotifyMessage, PlaceInv, Done
  <2>3. Send(m)
    BY <1>14 DEF NotifyMessage
  <2>4. queue' \in Seq(SessionMessage)
    BY <1>2, <2>2, <2>3, Sending
  <2>5. ns_lock' \in {NoThread, "api"}
    BY <1>14 DEF NotifyMessage, TypeOK
  <2> QED BY <1>1, <1>14, <2>1, <2>4, <2>5 DEF NotifyMessage, TypeOK
<1>15. CASE Command
  <2>1. pc' \in [Thread -> Place]
    BY <1>1, <1>15 DEF Command, Goto, Place
  <2>2. job' \in [Thread -> SessionMessage \cup {Idle}]
    BY <1>1, <1>2, <1>15 DEF Command
  <2> QED BY <1>1, <1>4, <1>15, <2>1, <2>2 DEF Command, TypeOK
<1>16. CASE Enqueue
  <2>1. queue' \in Seq(SessionMessage)
    BY <1>2, <1>16, Sending DEF Enqueue
  <2>2. calls' \in 0 .. MaxCalls
    BY <1>4, <1>16 DEF Enqueue, MayCall, TypeOK
  <2> QED BY <1>16, <2>1, <2>2 DEF Enqueue, TypeOK
<1>17. CASE CallDirectly
  <2>1. pc' \in [Thread -> Place]
    BY <1>1, <1>17 DEF CallDirectly, Goto, Place
  <2>2. job' \in [Thread -> SessionMessage \cup {Idle}]
    BY <1>1, <1>2, <1>17 DEF CallDirectly
  <2>3. calls' \in 0 .. MaxCalls
    BY <1>4, <1>17 DEF CallDirectly, MayCall, TypeOK
  <2> QED BY <1>1, <1>17, <2>1, <2>2, <2>3 DEF CallDirectly, TypeOK
<1>18. CASE ShutdownStore
  <2>1. pc' \in [Thread -> Place]
    BY <1>1, <1>18 DEF ShutdownStore, Goto, Place
  <2> QED BY <1>1, <1>18, <2>1 DEF ShutdownStore, TypeOK
<1>19. CASE ShutdownSend
  <2>1. pc' \in [Thread -> Place]
    BY <1>1, <1>19 DEF ShutdownSend, Goto, Place
  <2>2. queue' \in Seq(SessionMessage)
    BY <1>19, Sending DEF ShutdownSend, SessionMessage
  <2> QED BY <1>1, <1>19, <2>1, <2>2 DEF ShutdownSend, TypeOK
<1>20. CASE ShutdownRemove
  <2>1. pc' \in [Thread -> Place]
    BY <1>1, <1>20 DEF ShutdownRemove, Goto, Place
  <2> QED BY <1>1, <1>20, <2>1 DEF ShutdownRemove, TypeOK
<1>21. CASE Exit
  <2>1. pc' \in [Thread -> Place]
    BY <1>21 DEF Exit, Place
  <2> QED BY <1>1, <1>21, <2>1 DEF Exit, TypeOK
<1>22. CASE UNCHANGED vars
  BY <1>22 DEF TypeOK, vars
<1> QED
  BY <1>5, <1>6, <1>7, <1>8, <1>9, <1>10, <1>11, <1>12, <1>13, <1>14, <1>15, <1>16, <1>17, <1>18,
     <1>19, <1>20, <1>21, <1>22 DEF Next, Handler, Listener, Api, Notifier

(* Where a step leaves the threads other than the one that takes it.       *)
LEMMA Going ==
  ASSUME TypeOK, NEW t, NEW place, Goto(t, place)
  PROVE  /\ t \in Thread => pc'[t] = place
         /\ \A u \in Thread : u # t => pc'[u] = pc[u]
BY DEF TypeOK, Goto

(* Every step takes a thread to a place of its own with a job of the right *)
(* kind.                                                                   *)
LEMMA NextKeepsPlaceInv ==
  ASSUME IInv, [Next]_vars
  PROVE  PlaceInv'
<1> USE DEF IInv, Thread
<1>1. job \in [Thread -> SessionMessage \cup {Idle}] /\ TypeOK
  BY DEF TypeOK
<1>2. CASE HandlerCheck
  BY <1>1, <1>2, Going DEF HandlerCheck, PlaceInv
<1>3. CASE HandlerRecv
  <2> DEFINE m == Head(queue)
  <2>1. m \in SessionMessage
    BY <1>1, <1>3, Receiving DEF HandlerRecv
  <2>2. /\ job'["handler"] = m
        /\ job'["listener"] = job["listener"] /\ job'["api"] = job["api"]
        /\ pc'["listener"] = pc["listener"] /\ pc'["api"] = pc["api"]
        /\ pc'["handler"] = CASE m.kind \in {"Mount", "Bind", "Unmount"} -> "fs"
                              [] m.kind \in {"MountSuccess", "BindSuccess"} -> "update"
                              [] m.kind = "Shutdown" -> "ended"
    BY <1>1, <1>3, Going DEF HandlerRecv
  <2> HIDE DEF m
  <2>3. /\ pc'["handler"] \in {"fs", "update", "ended"}
        /\ pc'["handler"] = "fs" => m \in Attach \cup Unmount
        /\ pc'["handler"] = "update" => m \in Done
    BY <2>1, <2>2, Jobs
  <2> QED BY <2>2, <2>3 DEF PlaceInv
<1>4. CASE HandlerCall
  BY <1>1, <1>4, Going DEF HandlerCall, PlaceInv
<1>5. CASE HandlerUpdate
  BY <1>1, <1>5, Going DEF HandlerUpdate, PlaceInv
<1>6. ASSUME NEW t \in {"handler", "listener"}, ReadState(t) \/ OpenFile(t) \/ WriteFile(t)
      PROVE  PlaceInv'
  BY <1>1, <1>6, Going DEF ReadState, OpenFile, WriteFile, PlaceInv
<1>7. ASSUME NEW t \in {"listener", "api"}, DirectCall(t)
      PROVE  PlaceInv'
  <2>1. /\ pc'[t] \in {"update", "idle"} /\ \A u \in Thread : u # t => pc'[u] = pc[u]
        /\ pc'[t] = "update" => job[t].kind # "Unmount"
    BY <1>1, <1>7, Going DEF DirectCall
  <2>2. pc'[t] = "update" => job[t] \in Attach
    BY <1>7, <2>1, Jobs DEF DirectCall, PlaceInv
  <2> QED BY <1>7, <2>1, <2>2 DEF DirectCall, PlaceInv
<1>8. ASSUME NEW t \in {"listener", "api"}, NotifyState(t)
      PROVE  PlaceInv'
  BY <1>1, <1>8, Going DEF NotifyState, PlaceInv
<1>9. ASSUME NEW t \in {"listener", "api"}, NotifyMessage(t)
      PROVE  PlaceInv'
  BY <1>1, <1>9, Going DEF NotifyMessage, PlaceInv
<1>10. CASE Command
  BY <1>1, <1>10, Going DEF Command, PlaceInv
<1>11. CASE Enqueue \/ ShutdownRemove \/ ShutdownStore \/ ShutdownSend
  BY <1>1, <1>11, Going DEF Enqueue, ShutdownRemove, ShutdownStore, ShutdownSend, PlaceInv
<1>12. CASE CallDirectly
  BY <1>1, <1>12, Going DEF CallDirectly, PlaceInv
<1>13. CASE Exit
  BY <1>13 DEF Exit, PlaceInv
<1>14. CASE UNCHANGED vars
  BY <1>14 DEF PlaceInv, vars
<1> QED
  BY <1>2, <1>3, <1>4, <1>5, <1>6, <1>7, <1>8, <1>9, <1>10, <1>11, <1>12, <1>13, <1>14
  DEF Next, Handler, Listener, Api, Notifier

(* What may be behind a change of the channel.                             *)
LEMMA Messages ==
  ASSUME IInv, [Next]_vars
  PROVE  \/ UNCHANGED queue
         \/ HandlerRecv
         \/ \E m \in Attach \cup Unmount : Enqueue /\ Send(m)
         \/ ShutdownSend
         \/ \E t \in {"listener", "api"} :
              /\ NotifyMessage(t) /\ job[t] \in Attach
              /\ Send([kind |-> IF job[t].kind = "Mount" THEN "MountSuccess" ELSE "BindSuccess",
                       source |-> job[t].source, target |-> job[t].target])
<1>1. ASSUME NEW t \in {"listener", "api"}, NotifyMessage(t)
      PROVE  job[t] \in Attach
  BY <1>1 DEF IInv, PlaceInv, NotifyMessage
<1> QED BY <1>1 DEF Next, Handler, HandlerCheck, HandlerCall, HandlerUpdate, ReadState, OpenFile, WriteFile,
                    Listener, Api, Notifier, DirectCall, NotifyState, NotifyMessage, Command, Enqueue,
                    CallDirectly, ShutdownStore, ShutdownRemove, Exit, vars

(* The flag is never set again.                                            *)
LEMMA OnceCleared ==
  ASSUME [Next]_vars, is_running'
  PROVE  is_running
BY DEF Next, Handler, HandlerCheck, HandlerRecv, HandlerCall, HandlerUpdate, ReadState, OpenFile, WriteFile,
       Listener, Api, Notifier, DirectCall, NotifyState, NotifyMessage, Command, Enqueue,
       CallDirectly, ShutdownStore, ShutdownSend, ShutdownRemove, Exit, vars

(* Nothing stops a thread or removes the file before shutdown clears the   *)
(* flag.                                                                   *)
LEMMA NextKeepsRunInv ==
  ASSUME IInv, [Next]_vars
  PROVE  RunInv'
<1> USE DEF IInv, Thread
<1> SUFFICES ASSUME is_running' PROVE RunInv'
  BY DEF RunInv
<1>1. TypeOK /\ linked \in [Thread -> BOOLEAN]
  BY DEF TypeOK
<1>2. is_running
  BY OnceCleared
<1>3. /\ pc["api"] \in {"idle", "fs", "update", "send"}
      /\ pc["handler"] \notin {"ended", "gone"} /\ pc["listener"] # "gone"
      /\ \A k \in DOMAIN queue : queue[k].kind # "Shutdown"
      /\ \A t \in Thread : pc[t] = "write" => linked[t]
  BY <1>2 DEF RunInv
<1>4. \A k \in DOMAIN queue' : queue'[k].kind # "Shutdown"
  <2>1. CASE HandlerRecv
    BY <1>1, <1>3, <2>1, Receiving DEF HandlerRecv
  <2>2. ASSUME NEW m \in Attach \cup Done \cup Unmount, Send(m)
        PROVE  \A k \in DOMAIN queue' : queue'[k].kind # "Shutdown"
    <3>1. m \in SessionMessage /\ m.kind # "Shutdown"
      BY <2>2, Jobs DEF SessionMessage
    <3> QED BY <1>1, <1>3, <2>2, <3>1, Sending
  <2>3. ASSUME NEW t \in {"listener", "api"}, job[t] \in Attach
        PROVE  [kind |-> IF job[t].kind = "Mount" THEN "MountSuccess" ELSE "BindSuccess",
                source |-> job[t].source, target |-> job[t].target] \in Done
    BY <2>3, Jobs DEF Done
  <2> QED BY <1>3, <2>1, <2>2, <2>3, Messages DEF ShutdownSend
<1>5. CASE HandlerCheck
  BY <1>1, <1>2, <1>3, <1>4, <1>5, Going DEF HandlerCheck, RunInv
<1>6. CASE HandlerRecv
  <2>1. Head(queue) \in SessionMessage /\ Head(queue).kind # "Shutdown"
    BY <1>1, <1>3, <1>6, Receiving DEF HandlerRecv
  <2>2. pc'["handler"] \in {"fs", "update"} /\ \A u \in Thread : u # "handler" => pc'[u] = pc[u]
    BY <1>1, <1>6, <2>1, Going, Jobs DEF HandlerRecv
  <2> QED BY <1>3, <1>4, <1>6, <2>2 DEF HandlerRecv, RunInv
<1>7. CASE HandlerCall
  BY <1>1, <1>3, <1>4, <1>7, Going DEF HandlerCall, RunInv
<1>8. CASE HandlerUpdate
  BY <1>1, <1>3, <1>4, <1>8, Going DEF HandlerUpdate, RunInv
<1>9. ASSUME NEW t \in {"handler", "listener"}, ReadState(t) \/ OpenFile(t)
      PROVE  RunInv'
  <2>1. /\ \A u \in Thread : u # t => pc'[u] = pc[u] /\ (linked[u] => linked'[u])
        /\ pc'[t] = "open" \/ (pc'[t] = "write" /\ linked'[t])
    BY <1>1, <1>9, Going DEF ReadState, OpenFile
  <2>2. \A u \in Thread : pc'[u] = "write" => linked'[u]
    BY <1>3, <2>1
  <2> QED BY <1>3, <1>4, <1>9, <2>1, <2>2 DEF RunInv
<1>10. ASSUME NEW t \in {"handler", "listener"}, WriteFile(t)
       PROVE  RunInv'
  <2>1. pc'[t] \in {"check", "idle"} /\ \A u \in Thread : u # t => pc'[u] = pc[u]
    BY <1>1, <1>10, Going DEF WriteFile
  <2> QED BY <1>1, <1>3, <1>4, <1>10, <2>1 DEF WriteFile, RunInv
<1>11. ASSUME NEW t \in {"listener", "api"}, DirectCall(t) \/ NotifyState(t) \/ NotifyMessage(t)
       PROVE  RunInv'
  <2>1. /\ \A u \in Thread : u # t => pc'[u] = pc[u]
        /\ pc'[t] \in {"idle", "update", "send"} \/ (t = "listener" /\ pc'[t] = "read")
        /\ UNCHANGED linked
    BY <1>1, <1>11, Going DEF DirectCall, NotifyState, NotifyMessage
  <2>2. \A u \in Thread : pc'[u] = "write" => linked'[u]
    BY <1>3, <1>11, <2>1
  <2>3. /\ pc'["api"] \in {"idle", "fs", "update", "send"}
        /\ pc'["handler"] \notin {"ended", "gone"} /\ pc'["listener"] # "gone"
    BY <1>3, <1>11, <2>1
  <2> QED BY <1>4, <2>2, <2>3 DEF RunInv
<1>12. ASSUME NEW t \in {"listener", "api"}, Goto(t, "fs"), UNCHANGED linked
       PROVE  RunInv'
  <2>1. pc'[t] = "fs" /\ \A u \in Thread : u # t => pc'[u] = pc[u]
    BY <1>1, <1>12, Going
  <2>2. \A u \in Thread : pc'[u] = "write" => linked'[u]
    BY <1>3, <1>12, <2>1
  <2>3. /\ pc'["api"] \in {"idle", "fs", "update", "send"}
        /\ pc'["handler"] \notin {"ended", "gone"} /\ pc'["listener"] # "gone"
    BY <1>3, <1>12, <2>1
  <2> QED BY <1>4, <2>2, <2>3 DEF RunInv
<1>13. CASE Enqueue \/ UNCHANGED vars
  BY <1>3, <1>4, <1>13 DEF Enqueue, vars, RunInv
<1>14. CASE ShutdownStore \/ ShutdownSend \/ ShutdownRemove \/ Exit
  BY <1>3, <1>14 DEF ShutdownStore, ShutdownSend, ShutdownRemove, Exit
<1> QED
  BY <1>5, <1>6, <1>7, <1>8, <1>9, <1>10, <1>11, <1>12, <1>13, <1>14
  DEF Next, Handler, Listener, Api, Notifier, Command, CallDirectly

(* Nobody changes the state while the listener keeps it locked.            *)
LEMMA NextKeepsListenerInv ==
  ASSUME IInv, [Next]_vars
  PROVE  ListenerInv'
<1> USE DEF IInv, Thread
<1>1. TypeOK /\ snap \in [Thread -> Info]
  BY DEF TypeOK
<1>2. \A t \in {"handler", "api"} : \A place : Goto(t, place) => pc'["listener"] = pc["listener"]
  BY Going
<1>3. CASE HandlerUpdate \/ NotifyState("api")
  BY <1>2, <1>3 DEF HandlerUpdate, NotifyState, StateFree, ListenerInv
<1>4. CASE ReadState("listener")
  BY <1>1, <1>4 DEF ReadState, ListenerInv, State
<1>5. CASE OpenFile("listener")
  BY <1>1, <1>5 DEF OpenFile, ListenerInv, State
<1>6. CASE WriteFile("listener")
  BY <1>1, <1>6, Going DEF WriteFile, ListenerInv
<1>7. CASE DirectCall("listener") \/ NotifyState("listener") \/ NotifyMessage("listener") \/ Command
  BY <1>1, <1>7, Going DEF DirectCall, NotifyState, NotifyMessage, Command, ListenerInv
<1>8. CASE ReadState("handler") \/ OpenFile("handler") \/ WriteFile("handler")
  BY <1>1, <1>2, <1>8 DEF ReadState, OpenFile, WriteFile, ListenerInv, State
<1>9. CASE HandlerCheck \/ HandlerRecv \/ HandlerCall \/ DirectCall("api") \/ NotifyMessage("api")
  BY <1>2, <1>9 DEF HandlerCheck, HandlerRecv, HandlerCall, DirectCall, NotifyMessage, ListenerInv, State
<1>10. CASE Enqueue \/ CallDirectly \/ ShutdownStore \/ ShutdownSend \/ ShutdownRemove \/ UNCHANGED vars
  BY <1>2, <1>10 DEF Enqueue, CallDirectly, ShutdownStore, ShutdownSend, ShutdownRemove, vars, ListenerInv, State
<1>11. CASE Exit
  BY <1>11 DEF Exit, ListenerInv
<1> QED
  BY <1>3, <1>4, <1>5, <1>6, <1>7, <1>8, <1>9, <1>10, <1>11
  DEF Next, Handler, Listener, Api, Notifier
-----------------------------------------------------------------------------
(* The session file *)

(* A step that changes neither the state nor the file nor a copy, and      *)
(* nothing about who opens and writes.                                     *)
LEMMA FileUntouched ==
  ASSUME FileInv, is_running, ~ Due, UNCHANGED <<mounts, binds, file, snap>>,
         pc'["handler"] \in {"open", "write"} => pc'["handler"] = pc["handler"],
         pc'["handler"] \in {"check", "recv", "fs"} => pc["handler"] \in {"check", "recv", "fs"},
         pc'["listener"] = "write" <=> pc["listener"] = "write"
  PROVE  FileInv'
<1>1. State' = State /\ FileIsState' = FileIsState
  BY DEF State, FileIsState
<1> QED BY <1>1 DEF FileInv

(* A file that does not say the state always has somebody who is going to  *)
(* write it.                                                               *)
LEMMA NextKeepsFileInv ==
  ASSUME IInv, [Next]_vars
  PROVE  FileInv'
<1> USE DEF IInv, Thread
<1> SUFFICES ASSUME is_running', ~ Due' PROVE FileInv'
  BY DEF FileInv
<1>1. /\ TypeOK /\ snap \in [Thread -> Info] /\ linked \in [Thread -> BOOLEAN]
      /\ is_running
  BY OnceCleared DEF TypeOK
<1>2. /\ pc["api"] \in {"idle", "fs", "update", "send"} /\ ReceiverAlive
      /\ pc["handler"] = "write" => linked["handler"]
      /\ pc["listener"] = "write" => linked["listener"]
  BY <1>1 DEF RunInv, ReceiverAlive
<1>3. CASE HandlerUpdate
  <2>1. pc'["handler"] = "open" /\ snap'["handler"] = State'
    BY <1>1, <1>3, Going DEF HandlerUpdate, Due, State
  <2> QED BY <2>1 DEF FileInv
<1>4. CASE ReadState("handler")
  <2>1. pc'["handler"] = "open" /\ snap'["handler"] = State'
    BY <1>1, <1>4, Going DEF ReadState, State
  <2> QED BY <2>1 DEF FileInv
<1>5. CASE OpenFile("handler")
  <2>1. /\ pc'["handler"] = "write" /\ pc["handler"] = "open" /\ file' = Empty
        /\ pc'["listener"] = pc["listener"] /\ pc'["api"] = pc["api"]
        /\ UNCHANGED <<queue, snap, mounts, binds>>
    BY <1>1, <1>5, Going DEF OpenFile
  <2>2. ~ Due
    BY <2>1 DEF Due
  <2> QED BY <1>1, <2>1, <2>2 DEF FileInv, State
<1>6. CASE WriteFile("handler")
  <2>1. /\ pc'["handler"] = "check" /\ pc["handler"] = "write" /\ file' \in Written(file, snap["handler"])
        /\ pc'["listener"] = pc["listener"] /\ pc'["api"] = pc["api"]
        /\ UNCHANGED <<queue, snap, mounts, binds>>
    BY <1>1, <1>2, <1>6, Going DEF WriteFile
  <2>2. ~ Due
    BY <2>1 DEF Due
  <2>3. file \in {Empty, State} /\ snap["handler"] = State
    BY <1>1, <2>1, <2>2 DEF FileInv
  <2>4. file' = State /\ State' = State
    BY <1>1, <2>1, <2>3, WritingState DEF State
  <2> QED BY <2>1, <2>4 DEF FileInv, FileIsState, State
<1>7. CASE OpenFile("listener")
  <2>1. /\ pc'["listener"] = "write" /\ pc["listener"] = "open" /\ file' = Empty
        /\ pc'["handler"] = pc["handler"] /\ pc'["api"] = pc["api"]
        /\ UNCHANGED <<queue, snap, mounts, binds>>
    BY <1>1, <1>7, Going DEF OpenFile
  <2>2. ~ Due
    BY <2>1 DEF Due
  <2> QED BY <1>1, <2>1, <2>2 DEF FileInv, State
<1>8. CASE WriteFile("listener")
  <2>1. /\ pc'["listener"] = "idle" /\ pc["listener"] = "write" /\ file' \in Written(file, snap["listener"])
        /\ pc'["handler"] = pc["handler"] /\ pc'["api"] = pc["api"]
        /\ UNCHANGED <<queue, snap, mounts, binds>>
    BY <1>1, <1>2, <1>8, Going DEF WriteFile
  <2>2. ~ Due
    BY <2>1 DEF Due
  <2>3. snap["listener"] = State /\ State' = State
    BY <2>1 DEF ListenerInv, State
  <2>4. file \in {Empty, State} => file' = State
    BY <1>1, <2>1, <2>3, WritingState
  <2> QED BY <1>1, <2>1, <2>2, <2>3, <2>4 DEF FileInv, FileIsState, State
<1>9. CASE ReadState("listener")
  <2>1. /\ pc'["listener"] = "open" /\ pc["listener"] = "read" /\ snap'["handler"] = snap["handler"]
        /\ pc'["handler"] = pc["handler"] /\ pc'["api"] = pc["api"]
        /\ UNCHANGED <<queue, file, mounts, binds>>
    BY <1>1, <1>9, Going DEF ReadState
  <2>2. ~ Due
    BY <2>1 DEF Due
  <2>3. State' = State /\ FileIsState' = FileIsState
    BY <2>1 DEF State, FileIsState
  <2> QED BY <1>1, <2>1, <2>2, <2>3 DEF FileInv
<1>10. CASE HandlerCheck \/ HandlerCall
  <2>1. /\ pc["handler"] \in {"check", "fs"}
        /\ pc'["handler"] \in {"recv", "ended", "update", "check"}
        /\ pc'["listener"] = pc["listener"] /\ pc'["api"] = pc["api"]
        /\ UNCHANGED <<queue, mounts, binds, file, snap>>
    BY <1>1, <1>10, Going DEF HandlerCheck, HandlerCall
  <2>2. ~ Due
    BY <2>1 DEF Due
  <2> QED BY <1>1, <2>1, <2>2, FileUntouched
<1>11. CASE HandlerRecv
  <2>1. /\ pc["handler"] = "recv" /\ Head(queue) \in SessionMessage /\ queue' = Tail(queue)
        /\ Head(queue).kind \in {"MountSuccess", "BindSuccess"} => pc'["handler"] = "update"
        /\ pc'["handler"] \in {"fs", "update", "ended"}
        /\ pc'["listener"] = pc["listener"] /\ pc'["api"] = pc["api"]
        /\ UNCHANGED <<mounts, binds, file, snap>>
    BY <1>1, <1>11, Going, Receiving, Jobs DEF HandlerRecv
  <2>2. ~ Due
    <3>1. ASSUME NEW k \in DOMAIN queue, queue[k].kind \in {"MountSuccess", "BindSuccess"}
          PROVE  FALSE
      <4>1. queue[k] = Head(queue) \/ \E l \in DOMAIN queue' : queue'[l] = queue[k]
        BY <1>1, <1>11, <2>1, Receiving DEF HandlerRecv
      <4> QED BY <2>1, <3>1, <4>1 DEF Due
    <3> QED BY <2>1, <3>1 DEF Due
  <2> QED BY <1>1, <2>1, <2>2, FileUntouched
<1>12. ASSUME NEW t \in {"listener", "api"}, DirectCall(t)
       PROVE  FileInv'
  <2>1. /\ \A u \in Thread : u # t => pc'[u] = pc[u]
        /\ pc[t] = "fs" /\ pc'[t] \in {"idle", "update"}
        /\ UNCHANGED <<queue, mounts, binds, file, snap>>
    BY <1>1, <1>12, Going DEF DirectCall
  <2>2. ~ Due
    BY <2>1 DEF Due
  <2> QED BY <1>1, <1>12, <2>1, <2>2, FileUntouched
<1>13. ASSUME NEW t \in {"listener", "api"}, NotifyState(t)
       PROVE  FALSE
  BY <1>1, <1>13, Going DEF NotifyState, Due
<1>14. ASSUME NEW t \in {"listener", "api"}, NotifyMessage(t)
       PROVE  FALSE
  <2> DEFINE m == [kind |-> IF job[t].kind = "Mount" THEN "MountSuccess" ELSE "BindSuccess",
                   source |-> job[t].source, target |-> job[t].target]
  <2>1. m \in Done
    BY <1>14, Jobs DEF NotifyMessage, PlaceInv, Done
  <2>2. m \in SessionMessage /\ m.kind \in {"MountSuccess", "BindSuccess"} /\ Send(m)
    BY <1>14, <2>1, Jobs DEF NotifyMessage, SessionMessage
  <2>3. \E k \in DOMAIN queue' : queue'[k] = m
    BY <1>1, <1>2, <2>2, Sending
  <2> QED BY <2>2, <2>3 DEF Due
<1>15. ASSUME NEW t \in {"listener", "api"}, Goto(t, "fs"), pc[t] = "idle",
              UNCHANGED <<queue, mounts, binds, file, snap>>
       PROVE  FileInv'
  <2>1. pc'[t] = "fs" /\ \A u \in Thread : u # t => pc'[u] = pc[u]
    BY <1>1, <1>15, Going
  <2>2. ~ Due
    BY <1>15, <2>1 DEF Due
  <2> QED BY <1>1, <1>15, <2>1, <2>2, FileUntouched
<1>16. CASE Enqueue
  <2>1. \A k \in DOMAIN queue : k \in DOMAIN queue' /\ queue'[k] = queue[k]
    BY <1>1, <1>16, Sending DEF Enqueue, SessionMessage
  <2>2. ~ Due
    BY <1>16, <2>1 DEF Enqueue, Due
  <2> QED BY <1>1, <1>16, <2>2, FileUntouched DEF Enqueue
<1>17. CASE ShutdownStore \/ ShutdownSend \/ ShutdownRemove \/ Exit
  BY <1>2, <1>17 DEF ShutdownStore, ShutdownSend, ShutdownRemove, Exit
<1>18. CASE UNCHANGED vars
  <2>1. ~ Due
    BY <1>18 DEF vars, Due
  <2> QED BY <1>1, <1>18, <2>1, FileUntouched DEF vars
<1> QED
  BY <1>3, <1>4, <1>5, <1>6, <1>7, <1>8, <1>9, <1>10, <1>11, <1>12, <1>13, <1>14, <1>15, <1>16, <1>17, <1>18
  DEF Next, Handler, Listener, Api, Notifier, Command, CallDirectly, MayCall
-----------------------------------------------------------------------------
(* What is attached and what is listed *)

(* A step that attaches and detaches nothing, and forgets nothing.         *)
LEMMA Recalling ==
  ASSUME AttachInv, is_running, UNCHANGED attached,
         \A x : MountKept(x) => MountKept(x)',
         \A x, s : BindKept(x, s) => BindKept(x, s)'
  PROVE  AttachInv'
BY DEF AttachInv, Kept

(* A step that has nothing to do with what is attached or listed. *)
LEMMA PromisesUntouched ==
  ASSUME AttachInv, is_running, UNCHANGED <<mounts, binds, attached>>,
         \A t \in {"listener", "api"} :
            pc[t] \in {"update", "send"} => pc'[t] = pc[t] /\ job'[t] = job[t],
         pc["handler"] = "update" \/ pc'["handler"] = "update" =>
            pc'["handler"] = pc["handler"] /\ job'["handler"] = job["handler"],
         \A k \in DOMAIN queue : \E l \in DOMAIN queue' : queue'[l] = queue[k]
  PROVE  AttachInv'
<1>1. ASSUME NEW x PROVE MountComes(x) => MountComes(x)'
  BY DEF MountComes
<1>2. ASSUME NEW x, UnmountComes(x)' PROVE UnmountComes(x)
  BY <1>2 DEF UnmountComes
<1>3. ASSUME NEW x, NEW s PROVE BindComes(x, s) => BindComes(x, s)'
  BY DEF BindComes, Thread
<1>4. ASSUME NEW x, NEW s
      PROVE  (MountListed(x) => MountListed(x)') /\ (BindListed(x, s) => BindListed(x, s)')
  BY DEF MountListed, BindListed
<1> QED BY <1>1, <1>2, <1>3, <1>4, Recalling DEF MountKept, BindKept

(* What a step of the state does to what is listed. *)
LEMMA Listing ==
  ASSUME TypeOK, NEW j \in Attach \cup Done \cup Unmount, Record(j)
  PROVE  /\ \A x : MountListed(x) =>
              MountListed(x)' \/ (j.kind = "Unmount" /\ j.target = x)
         /\ j.kind \in {"Mount", "MountSuccess"} => MountListed(j.target)'
         /\ \A x, s : BindListed(x, s) => BindListed(x, s)'
         /\ j.kind \in {"Bind", "BindSuccess"} => BindListed(j.target, j.source)'
<1>1. CASE j.kind \in {"Mount", "MountSuccess"}
  <2>1. mounts' = {p \in mounts : p[2] # j.target} \cup {<<j.source, j.target>>} /\ binds' = binds
    BY <1>1, Recording DEF AddMount
  <2>2. MountListed(j.target)'
    <3>1. <<j.source, j.target>> \in mounts' /\ <<j.source, j.target>>[2] = j.target
      BY <2>1
    <3> QED BY <3>1 DEF MountListed
  <2>3. ASSUME NEW x, MountListed(x) PROVE MountListed(x)'
    <3>1. PICK p \in mounts : p[2] = x
      BY <2>3 DEF MountListed
    <3>2. CASE p[2] = j.target
      BY <2>2, <3>1, <3>2
    <3>3. CASE p[2] # j.target
      BY <2>1, <3>1, <3>3 DEF MountListed
    <3> QED BY <3>2, <3>3
  <2> QED BY <1>1, <2>1, <2>2, <2>3 DEF BindListed
<1>2. CASE j.kind \in {"Bind", "BindSuccess"}
  <2>1. /\ binds' = Append(binds, <<j.source, j.target>>) /\ mounts' = mounts
        /\ binds \in Seq(Pair) /\ <<j.source, j.target>> \in Pair
    BY <1>2, Recording, Jobs DEF TypeOK, Pair
  <2>2. /\ \A k \in DOMAIN binds : k \in DOMAIN binds' /\ binds'[k] = binds[k]
        /\ Len(binds) + 1 \in DOMAIN binds' /\ binds'[Len(binds) + 1] = <<j.source, j.target>>
    BY <2>1, AppendProperties, LenProperties
  <2> QED BY <1>2, <2>1, <2>2 DEF BindListed, MountListed
<1>3. CASE j.kind = "Unmount"
  BY <1>3, Recording DEF RemoveMount, MountListed, BindListed
<1> QED BY <1>1, <1>2, <1>3, Jobs

(* A mount or bind that is not listed always has a message that is going   *)
(* to list it.                                                             *)
LEMMA NextKeepsAttachInv ==
  ASSUME IInv, [Next]_vars
  PROVE  AttachInv'
<1> USE DEF IInv, Thread
<1> SUFFICES ASSUME is_running' PROVE AttachInv'
  BY DEF AttachInv
<1>1. TypeOK /\ is_running /\ job \in [Thread -> SessionMessage \cup {Idle}]
  BY OnceCleared DEF TypeOK
<1>2. pc["api"] \in {"idle", "fs", "update", "send"} /\ ReceiverAlive
  BY <1>1 DEF RunInv, ReceiverAlive
<1>3. CASE HandlerRecv
  <2>1. /\ \A k \in DOMAIN queue :
             queue[k] = Head(queue) \/ \E l \in DOMAIN queue' : queue'[l] = queue[k]
        /\ pc["handler"] = "recv" /\ Head(queue) \in SessionMessage /\ job'["handler"] = Head(queue)
        /\ Head(queue).kind \in {"MountSuccess", "BindSuccess"} <=> pc'["handler"] = "update"
        /\ \A t \in {"listener", "api"} : pc'[t] = pc[t] /\ job'[t] = job[t]
        /\ UNCHANGED <<mounts, binds, attached>>
    BY <1>1, <1>3, Receiving, Going, Jobs DEF HandlerRecv
  <2>2. ASSUME NEW x PROVE MountComes(x) => MountComes(x)'
    BY <2>1 DEF MountComes
  <2>3. ASSUME NEW x PROVE ~ UnmountComes(x)' /\ (MountListed(x) => MountListed(x)')
    BY <2>1 DEF UnmountComes, MountListed
  <2>4. ASSUME NEW x, NEW s PROVE BindKept(x, s) => BindKept(x, s)'
    BY <2>1 DEF BindKept, BindComes, BindListed
  <2> QED BY <1>1, <2>1, <2>2, <2>3, <2>4, Recalling DEF MountKept
<1>4. CASE HandlerCall
  <2> DEFINE j == job["handler"]
  <2>1. PICK outcome \in Outcomes(j) :
          Effect(j, outcome) /\ Goto("handler", IF outcome = "ok" THEN "update" ELSE "check")
    BY <1>4 DEF HandlerCall
  <2>2. j \in Attach \cup Unmount /\ pc["handler"] = "fs" /\ UNCHANGED <<job, queue, mounts, binds>>
    BY <1>4 DEF HandlerCall, PlaceInv
  <2>3. /\ pc'["handler"] = IF outcome = "ok" THEN "update" ELSE "check"
        /\ pc'["listener"] = pc["listener"] /\ pc'["api"] = pc["api"]
    BY <1>1, <2>1, Going
  <2>4. ASSUME NEW x
        PROVE  /\ MountComes(x) => MountComes(x)'
               /\ MountListed(x) => MountListed(x)'
               /\ \A s : BindKept(x, s) => BindKept(x, s)'
    BY <2>2, <2>3 DEF MountComes, MountListed, BindKept, BindComes, BindListed
  <2>5. ASSUME NEW n \in Node, NEW a \in attached'[n]
        PROVE  Canon[a.target] = n /\ (a.ok => Kept(a)')
    <3>1. CASE a \in attached[n] /\ (outcome = "refused" \/ j.kind # "Unmount" \/ n # Canon[j.target])
      <4>1. Canon[a.target] = n /\ (a.ok => Kept(a))
        BY <1>1, <3>1 DEF AttachInv
      <4>2. ~ UnmountComes(a.target)'
        BY <2>2, <2>3, <3>1, <4>1 DEF UnmountComes
      <4> QED BY <2>4, <4>1, <4>2 DEF Kept, MountKept
    <3>2. CASE /\ n = Canon[j.target] /\ outcome # "refused" /\ j.kind # "Unmount"
               /\ a = [kind |-> j.kind, source |-> j.source, target |-> j.target,
                      ok |-> outcome = "ok"]
      <4>1. /\ a.kind = j.kind /\ a.source = j.source /\ a.target = j.target
            /\ a.ok = (outcome = "ok") /\ j.kind \in {"Mount", "Bind"}
        BY <2>2, <3>2, Jobs
      <4>2. a.ok => pc'["handler"] = "update" /\ job'["handler"] = j
        BY <2>2, <2>3, <4>1
      <4> QED BY <3>2, <4>1, <4>2 DEF Kept, MountKept, MountComes, BindKept, BindComes
    <3> HIDE DEF j
    <3> QED BY <1>1, <2>1, <2>2, <2>5, <3>1, <3>2, Effects
  <2> QED BY <2>5 DEF AttachInv
<1>5. CASE HandlerUpdate
  <2>0. PICK j \in Attach \cup Done \cup Unmount : j = job["handler"]
    BY <1>5 DEF HandlerUpdate, PlaceInv
  <2>1. /\ Record(j) /\ pc["handler"] = "update"
        /\ pc'["handler"] # "update"
        /\ pc'["listener"] = pc["listener"] /\ pc'["api"] = pc["api"]
        /\ UNCHANGED <<job, queue, attached>>
    BY <1>1, <1>5, <2>0, Going DEF HandlerUpdate
  <2>2. /\ \A x : MountListed(x) =>
             MountListed(x)' \/ (j.kind = "Unmount" /\ j.target = x)
        /\ j.kind \in {"Mount", "MountSuccess"} => MountListed(j.target)'
        /\ \A x, s : BindListed(x, s) => BindListed(x, s)'
        /\ j.kind \in {"Bind", "BindSuccess"} => BindListed(j.target, j.source)'
    BY <1>1, <2>1, Listing
  <2>3. ASSUME NEW x PROVE MountKept(x) => MountKept(x)'
    <3>1. ~ UnmountComes(x)'
      BY <2>0, <2>1 DEF UnmountComes
    <3>2. MountComes(x) => MountComes(x)' \/ MountListed(x)'
      BY <2>0, <2>1, <2>2 DEF MountComes
    <3>3. MountListed(x) /\ ~ UnmountComes(x) => MountListed(x)'
      BY <2>0, <2>1, <2>2 DEF UnmountComes
    <3> QED BY <3>1, <3>2, <3>3 DEF MountKept
  <2>4. ASSUME NEW x, NEW s PROVE BindKept(x, s) => BindKept(x, s)'
    <3>1. BindComes(x, s) => BindComes(x, s)' \/ BindListed(x, s)'
      BY <2>0, <2>1, <2>2 DEF BindComes
    <3> QED BY <2>2, <3>1 DEF BindKept
  <2> QED BY <1>1, <2>1, <2>3, <2>4, Recalling
<1>6. ASSUME NEW t \in {"listener", "api"}, DirectCall(t)
      PROVE  AttachInv'
  <2> DEFINE j == job[t]
  <2>1. PICK outcome \in Outcomes(j) :
          /\ Effect(j, outcome)
          /\ Goto(t, IF outcome = "ok" /\ j.kind # "Unmount" THEN "update" ELSE "idle")
    BY <1>6 DEF DirectCall
  <2>2. j \in Attach \cup Unmount /\ pc[t] = "fs" /\ UNCHANGED <<job, queue, mounts, binds>>
    BY <1>6 DEF DirectCall, PlaceInv
  <2>3. /\ pc'[t] = IF outcome = "ok" /\ j.kind # "Unmount" THEN "update" ELSE "idle"
        /\ \A u \in Thread : u # t => pc'[u] = pc[u]
    BY <1>1, <1>6, <2>1, Going
  <2>4. ASSUME NEW x
        PROVE  /\ MountComes(x) => MountComes(x)'
               /\ UnmountComes(x)' => UnmountComes(x)
               /\ MountListed(x) => MountListed(x)'
               /\ \A s : BindKept(x, s) => BindKept(x, s)'
    BY <1>6, <2>2, <2>3 DEF MountComes, UnmountComes, MountListed, BindKept, BindComes, BindListed
  <2>5. ASSUME NEW n \in Node, NEW a \in attached'[n]
        PROVE  Canon[a.target] = n /\ (a.ok => Kept(a)')
    <3>1. CASE a \in attached[n]
      <4>1. Canon[a.target] = n /\ (a.ok => Kept(a))
        BY <1>1, <3>1 DEF AttachInv
      <4> QED BY <2>4, <4>1 DEF Kept, MountKept
    <3>2. CASE /\ n = Canon[j.target] /\ j.kind # "Unmount"
               /\ a = [kind |-> j.kind, source |-> j.source, target |-> j.target,
                      ok |-> outcome = "ok"]
      <4>1. /\ a.kind = j.kind /\ a.source = j.source /\ a.target = j.target
            /\ a.ok = (outcome = "ok") /\ j.kind \in {"Mount", "Bind"}
        BY <2>2, <3>2, Jobs
      <4>2. a.ok => pc'[t] = "update" /\ job'[t] = j
        BY <2>2, <2>3, <4>1
      <4> QED BY <1>6, <3>2, <4>1, <4>2 DEF Kept, MountKept, MountComes, BindKept, BindComes
    <3> HIDE DEF j
    <3> QED BY <1>1, <2>1, <2>2, <2>5, <3>1, <3>2, Effects
  <2> QED BY <2>5 DEF AttachInv
<1>7. ASSUME NEW t \in {"listener", "api"}, NotifyState(t)
      PROVE  AttachInv'
  <2>0. PICK j \in Attach : j = job[t]
    BY <1>7 DEF NotifyState, PlaceInv
  <2>1. /\ Record(j) /\ pc[t] = "update" /\ pc'[t] = "send"
        /\ \A u \in Thread : u # t => pc'[u] = pc[u]
        /\ UNCHANGED <<job, queue, attached>>
    BY <1>1, <1>7, <2>0, Going DEF NotifyState
  <2>2. /\ \A x : MountListed(x) => MountListed(x)'
        /\ \A x, s : BindListed(x, s) => BindListed(x, s)'
        /\ j.kind \in {"Bind", "BindSuccess"} => BindListed(j.target, j.source)'
    BY <1>1, <2>1, Listing, Jobs
  <2>3. ASSUME NEW x PROVE MountKept(x) => MountKept(x)'
    <3>1. UnmountComes(x)' => UnmountComes(x)
      BY <1>7, <2>0, <2>1 DEF UnmountComes
    <3>2. MountComes(x) => MountComes(x)'
      BY <1>7, <2>0, <2>1 DEF MountComes
    <3> QED BY <2>2, <3>1, <3>2 DEF MountKept
  <2>4. ASSUME NEW x, NEW s PROVE BindKept(x, s) => BindKept(x, s)'
    <3>1. BindComes(x, s) => BindComes(x, s)' \/ BindListed(x, s)'
      BY <1>7, <2>0, <2>1, <2>2 DEF BindComes
    <3> QED BY <2>2, <3>1 DEF BindKept
  <2> QED BY <1>1, <2>1, <2>3, <2>4, Recalling
<1>8. ASSUME NEW t \in {"listener", "api"}, NotifyMessage(t)
      PROVE  AttachInv'
  <2> DEFINE j == job[t]
             m == [kind |-> IF j.kind = "Mount" THEN "MountSuccess" ELSE "BindSuccess",
                   source |-> j.source, target |-> j.target]
  <2>1. /\ j \in Attach /\ Send(m) /\ pc[t] = "send" /\ pc'[t] \in {"read", "idle"}
        /\ \A u \in Thread : u # t => pc'[u] = pc[u]
        /\ UNCHANGED <<job, attached, mounts, binds>>
    BY <1>1, <1>8, Going DEF NotifyMessage, PlaceInv
  <2>2. m \in SessionMessage
    BY <2>1, Jobs DEF SessionMessage, Done
  <2>3. /\ \A k \in DOMAIN queue : k \in DOMAIN queue' /\ queue'[k] = queue[k]
        /\ \E k \in DOMAIN queue' : queue'[k] = m
    BY <1>1, <1>2, <2>1, <2>2, Sending
  <2>4. ASSUME NEW x PROVE MountComes(x) => MountComes(x)'
    <3>1. CASE j.kind = "Mount" /\ j.target = x
      <4>1. m.kind = "MountSuccess" /\ m.target = j.target
        BY <3>1
      <4> QED BY <2>3, <3>1, <4>1 DEF MountComes
    <3>2. CASE ~ (j.kind = "Mount" /\ j.target = x)
      <4> HIDE DEF m
      <4> QED BY <1>8, <2>1, <2>3, <3>2 DEF MountComes
    <3> QED BY <3>1, <3>2
  <2>5. ASSUME NEW x
        PROVE  /\ UnmountComes(x)' => UnmountComes(x)
               /\ MountListed(x) => MountListed(x)'
               /\ \A s : BindKept(x, s) => BindKept(x, s)'
    BY <1>8, <2>1 DEF UnmountComes, MountListed, BindKept, BindComes, BindListed
  <2> QED BY <1>1, <2>1, <2>4, <2>5, Recalling DEF MountKept
<1>9. ASSUME NEW t \in Thread, NEW place, Goto(t, place), pc[t] \notin {"update", "send"},
             place # "update", UNCHANGED <<queue, mounts, binds, attached>>,
             \A u \in Thread : u # t => job'[u] = job[u]
      PROVE  AttachInv'
  <2>1. pc'[t] = place /\ \A u \in Thread : u # t => pc'[u] = pc[u]
    BY <1>1, <1>9, Going
  <2> QED BY <1>1, <1>9, <2>1, PromisesUntouched
<1>10. CASE HandlerCheck
  BY <1>9, <1>10 DEF HandlerCheck
<1>11. ASSUME NEW t \in {"handler", "listener"}, ReadState(t) \/ OpenFile(t) \/ WriteFile(t)
       PROVE  AttachInv'
  BY <1>9, <1>11 DEF ReadState, OpenFile, WriteFile
<1>12. CASE Command
  BY <1>1, <1>9, <1>12 DEF Command
<1>13. CASE CallDirectly
  BY <1>1, <1>9, <1>13 DEF CallDirectly, MayCall
<1>14. CASE Enqueue
  <2>1. \A k \in DOMAIN queue : k \in DOMAIN queue' /\ queue'[k] = queue[k]
    BY <1>1, <1>14, Sending DEF Enqueue, SessionMessage
  <2> QED BY <1>1, <1>14, <2>1, PromisesUntouched DEF Enqueue
<1>15. CASE ShutdownStore \/ ShutdownSend \/ ShutdownRemove \/ Exit
  BY <1>2, <1>15 DEF ShutdownStore, ShutdownSend, ShutdownRemove, Exit
<1>16. CASE UNCHANGED vars
  BY <1>1, <1>16, PromisesUntouched DEF vars
<1> QED
  BY <1>3, <1>4, <1>5, <1>6, <1>7, <1>8, <1>10, <1>11, <1>12, <1>13, <1>14, <1>15, <1>16
  DEF Next, Handler, Listener, Api, Notifier
-----------------------------------------------------------------------------
(* The theorems *)

(* The invariant holds at first.                                           *)
LEMMA InitIInv ==
  ASSUME Init
  PROVE  IInv
<1> USE DEF Init, Thread
<1>1. TypeOK
  <2>1. NothingRecorded \in Info
    BY DEF NothingRecorded, Info
  <2>2. queue \in Seq(SessionMessage) /\ binds \in Seq(Pair)
    OBVIOUS
  <2>3. calls \in 0 .. MaxCalls /\ commands \in 0 .. MaxCommands
    BY BoundAssumption
  <2> QED BY <2>1, <2>2, <2>3 DEF TypeOK
<1>2. PlaceInv /\ RunInv /\ ListenerInv
  BY DEF PlaceInv, RunInv, ListenerInv
<1>3. FileInv
  BY DEF FileInv, FileIsState, NothingRecorded
<1>4. AttachInv
  BY DEF AttachInv
<1> QED BY <1>1, <1>2, <1>3, <1>4 DEF IInv

(* The invariant is inductive.                                             *)
LEMMA NextKeepsIInv ==
  ASSUME IInv, [Next]_vars
  PROVE  IInv'
BY NextKeepsTypeOK, NextKeepsPlaceInv, NextKeepsRunInv, NextKeepsListenerInv, NextKeepsFileInv,
   NextKeepsAttachInv DEF IInv

(* The invariant holds of every behaviour.                                 *)
LEMMA IInvHolds == Spec => []IInv
<1>1. Init => IInv
  BY InitIInv
<1>2. IInv /\ [Next]_vars => IInv'
  BY NextKeepsIInv
<1> QED BY <1>1, <1>2, PTL DEF Spec

(* Whatever is mounted, bound, unmounted or sent through the pipe, and     *)
(* through shutdown and exit, the channel only ever holds messages, the    *)
(* state's lock is kept for writing by nobody but the handler, and each    *)
(* thread works on something it understands.                               *)
THEOREM TypeCorrect == Spec => []TypeOK
<1>1. IInv => TypeOK
  BY DEF IInv
<1> QED BY <1>1, IInvHolds, PTL

(* When no thread has anything to do, the session file says what the       *)
(* session's state says, though the handler writes stale copies with no    *)
(* lock and the listener writes between the two halves of its fs::write:   *)
(* whoever changes the state behind the handler's back also sends it the   *)
(* message that makes it write again.                                      *)
THEOREM QuietFilesSayTheState == Spec => []QuietFileIsState
<1>1. IInv => QuietFileIsState
  <2> SUFFICES ASSUME IInv, Quiescent PROVE FileIsState
    BY DEF QuietFileIsState
  <2>1. ~ Due /\ is_running
    BY DEF Quiescent, Due
  <2> QED BY <2>1 DEF Quiescent, IInv, FileInv
<1> QED BY <1>1, IInvHolds, PTL

(* When no thread has anything to do, every bind that returned Ok and was  *)
(* not unmounted since is listed with its source and target, and the       *)
(* target of every such mount is listed as mounted, from this source or    *)
(* from one mounted there later.  The handler's unmount forgets a mount    *)
(* after it has let the namespace go; a mount that the listener makes in   *)
(* between is listed again by its MountSuccess.                            *)
THEOREM AttachedStaysListed == Spec => []AttachedIsListed
<1>1. IInv => AttachedIsListed
  <2> SUFFICES ASSUME IInv, Quiescent, NEW n \in Node, NEW a \in attached[n], a.ok
               PROVE  \/ a.kind = "Mount" /\ \E p \in mounts : p[2] = a.target
                      \/ a.kind = "Bind" /\ <<a.source, a.target>> \in ToSet(binds)
    BY DEF AttachedIsListed
  <2>1. \/ a.kind = "Mount" /\ MountKept(a.target)
        \/ a.kind = "Bind" /\ BindKept(a.target, a.source)
    BY DEF IInv, AttachInv, Kept, Quiescent
  <2>2. ~ MountComes(a.target) /\ ~ BindComes(a.target, a.source)
    BY DEF Quiescent, MountComes, BindComes, Thread
  <2>3. (a.kind = "Mount" /\ MountListed(a.target)) \/ (a.kind = "Bind" /\ BindListed(a.target, a.source))
    BY <2>1, <2>2 DEF MountKept, BindKept
  <2>4. \A k \in DOMAIN binds : binds[k] \in ToSet(binds)
    BY DEF ToSet
  <2> QED BY <2>3, <2>4 DEF MountListed, BindListed
<1> QED BY <1>1, IInvHolds, PTL
=============================================================================
