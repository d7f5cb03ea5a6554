----------------------------- MODULE NinePProofs -----------------------------
(***************************************************************************)
(* Proofs about NineP for any threads, fids, names and bounds.             *)
(*                                                                         *)
(* Everything about the locks rests on one invariant, LockInv: what a      *)
(* thread keeps is the beginning of its operation's list of locks and not  *)
(* poisoned.  That nobody panics at next_inode and that nobody waits in a  *)
(* circle follow from it and from what the lists have in common (LEMMA     *)
(* LockOrder: they agree on an order, and next_inode comes after the       *)
(* table).  The table is treated apart, by what a step may make of it      *)
(* (TableStep).                                                            *)
(***************************************************************************)
EXTENDS NineP, FiniteSetTheorems, TLAPS

Op == FidOp \cup OtherOp

(* The order that all lists of locks agree on. *)
Rank(m) == CASE m = "bindings" -> 2 [] m = "next_inode" -> 3 [] OTHER -> 1

First(t, n) == {Locks(job[t].op)[k] : k \in 1 .. n}

(* A thread keeps the locks that its operation takes first, all of them    *)
(* when it is stuck, and none when it is not in an operation.              *)
KeepsFirst(t) ==
  /\ Cardinality(Kept(t)) <= Len(Locks(job[t].op))
  /\ Kept(t) = First(t, Cardinality(Kept(t)))
  /\ pc[t] \in {"idle", "dead"} => Kept(t) = {}

LockTypeOK ==
  /\ pc \in [Thread -> {"idle", "running", "stuck", "dead"}]
  /\ job \in [Thread -> Job]
  /\ owner \in [Lock -> Thread \cup {Nobody}]
  /\ poisoned \subseteq Lock

LockInv ==
  /\ LockTypeOK
  /\ \A t \in Thread : KeepsFirst(t) /\ Kept(t) \cap poisoned = {}
  /\ "next_inode" \in poisoned => "bindings" \in poisoned

(* The table's types, and that no entry has a number yet to be given.      *)
TableInv ==
  /\ DOMAIN bindings \subseteq 1 .. next_inode - 1
  /\ ROOT_INODE \in DOMAIN bindings
  /\ bindings[ROOT_INODE] = RootFile
  /\ \A i \in DOMAIN bindings : bindings[i] \in File
  /\ next_inode \in Nat

IInv == LockInv /\ TableInv /\ fids \subseteq Fid /\ calls \in 0 .. MaxCalls
-----------------------------------------------------------------------------
(* Lemmas about the locks *)

(* Each list has one to three locks, in the order of their ranks, and      *)
(* next_inode only after the table's.                                      *)
LEMMA LockOrder ==
  ASSUME NEW op \in Op
  PROVE  /\ Len(Locks(op)) \in 1 .. 3
         /\ Locks(op) \in Seq(Lock)
         /\ \A k \in 1 .. Len(Locks(op)) :
               /\ Locks(op)[k] \in Lock
               /\ Locks(op)[k] = "next_inode" => \E l \in 1 .. k - 1 : Locks(op)[l] = "bindings"
               /\ \A l \in 1 .. k - 1 : Rank(Locks(op)[l]) < Rank(Locks(op)[k])
<1> DEFINE L == Locks(op)
<1>1. CASE op \in {"attach", "clunk"}
  <2>1. L = <<"fids">>
    BY <1>1 DEF Locks
  <2> QED BY <2>1 DEF Lock, Rank
<1>2. CASE op \in {"walk", "look", "read", "write", "remove"}
  <2>1. L = <<"fids", "bindings">>
    BY <1>2 DEF Locks
  <2> QED BY <2>1 DEF Lock, Rank
<1>3. CASE op = "create"
  <2>1. L = <<"fids", "bindings", "next_inode">>
    BY <1>3 DEF Locks
  <2> QED BY <2>1 DEF Lock, Rank
<1>4. CASE op \in {"fuse_look", "fuse_read"}
  <2>1. L = <<"bindings">>
    BY <1>4 DEF Locks
  <2> QED BY <2>1 DEF Lock, Rank
<1>5. CASE op = "bind"
  <2>1. L = <<"namespace", "bindings", "next_inode">>
    BY <1>5 DEF Locks
  <2> QED BY <2>1 DEF Lock, Rank
<1>6. CASE op = "resolve"
  <2>1. L = <<"namespace">>
    BY <1>6 DEF Locks
  <2> QED BY <2>1 DEF Lock, Rank
<1> QED BY <1>1, <1>2, <1>3, <1>4, <1>5, <1>6 DEF Op, FidOp, OtherOp

(* Every thread has a job with an operation.                               *)
LEMMA JobHasOp ==
  ASSUME LockTypeOK, NEW t \in Thread
  PROVE  job[t].op \in Op
BY DEF LockTypeOK, Job, Op

(* There are four locks.                                                   *)
LEMMA LockIsFinite == IsFiniteSet(Lock)
<1>1. Lock = {"namespace"} \cup {"fids"} \cup {"bindings"} \cup {"next_inode"}
  BY DEF Lock
<1> QED BY <1>1, FS_Singleton, FS_Union

(* A thread keeps finitely many of them.                                   *)
LEMMA KeptIsFinite ==
  ASSUME NEW t
  PROVE  IsFiniteSet(Kept(t)) /\ Cardinality(Kept(t)) \in Nat
<1>1. Kept(t) \subseteq Lock
  BY DEF Kept
<1> QED BY <1>1, LockIsFinite, FS_Subset, FS_CardinalityType

(* What a thread takes next is a lock that it does not keep, and what it   *)
(* keeps has lower ranks.                                                  *)
LEMMA NextLockIsNew ==
  ASSUME LockInv, NEW t \in Thread, ~ HasAll(t)
  PROVE  /\ Cardinality(Kept(t)) + 1 \in 1 .. Len(Locks(job[t].op))
         /\ NextLock(t) \in Lock
         /\ NextLock(t) \notin Kept(t)
         /\ \A m \in Kept(t) : Rank(m) < Rank(NextLock(t))
<1> DEFINE c == Cardinality(Kept(t))
           L == Locks(job[t].op)
<1>1. c \in Nat /\ c <= Len(L) /\ Kept(t) = First(t, c)
  BY KeptIsFinite DEF LockInv, KeepsFirst
<1>2. job[t].op \in Op
  BY JobHasOp DEF LockInv
<1>3. c + 1 \in 1 .. Len(L)
  BY <1>1, <1>2, LockOrder DEF HasAll
<1>4. L[c + 1] \in Lock /\ \A l \in 1 .. c : Rank(L[l]) < Rank(L[c + 1])
  BY <1>1, <1>2, <1>3, LockOrder
<1>5. \A m \in Kept(t) : Rank(m) < Rank(NextLock(t))
  BY <1>1, <1>4 DEF First, NextLock
<1>6. Rank(NextLock(t)) \in 1 .. 3
  BY DEF Rank
<1> QED BY <1>3, <1>4, <1>5, <1>6 DEF NextLock

(* Whoever keeps next_inode, or wants it next, keeps the table.            *)
LEMMA NumberNeedsTable ==
  ASSUME LockInv, NEW t \in Thread,
         "next_inode" \in Kept(t) \/ (~ HasAll(t) /\ NextLock(t) = "next_inode")
  PROVE  "bindings" \in Kept(t)
<1> DEFINE c == Cardinality(Kept(t))
           L == Locks(job[t].op)
<1>1. c \in Nat /\ c <= Len(L) /\ Kept(t) = First(t, c)
  BY KeptIsFinite DEF LockInv, KeepsFirst
<1>2. PICK k \in 1 .. Len(L) : L[k] = "next_inode" /\ k <= c + 1
  <2>1. CASE "next_inode" \in Kept(t)
    <3>1. PICK k \in 1 .. c : L[k] = "next_inode"
      BY <1>1, <2>1 DEF First
    <3>2. k \in 1 .. Len(L)
      BY <1>1, JobHasOp, LockOrder DEF LockInv
    <3> QED BY <1>1, <3>1, <3>2
  <2>2. CASE ~ HasAll(t) /\ NextLock(t) = "next_inode"
    BY <1>1, <2>2, NextLockIsNew DEF NextLock
  <2> QED BY <2>1, <2>2
<1>3. PICK l \in 1 .. k - 1 : L[l] = "bindings"
  BY <1>2, JobHasOp, LockOrder DEF LockInv
<1>4. l \in 1 .. c
  BY <1>1, <1>2
<1> QED BY <1>1, <1>3, <1>4 DEF First

(* Dropping everything a thread keeps leaves the other threads alone.      *)
LEMMA DroppedKeeps ==
  ASSUME LockTypeOK, NEW t \in Thread, owner' = Dropped(t)
  PROVE  /\ owner' \in [Lock -> Thread \cup {Nobody}]
         /\ Kept(t)' = {}
         /\ \A u \in Thread \ {t} : Kept(u)' = Kept(u)
<1>1. t # Nobody /\ \A u \in Thread : u # Nobody
  BY ThreadAssumption
<1>2. owner' = [m \in Lock |-> IF owner[m] = t THEN Nobody ELSE owner[m]]
  BY DEF Dropped
<1> QED BY <1>1, <1>2 DEF LockTypeOK, Kept

(* A thread that returns or panics ends its operation.  What it poisons    *)
(* nobody else keeps.                                                      *)
LEMMA EndKeepsLockInv ==
  ASSUME LockInv, NEW t \in Thread, ReturnOrPanic(t)
  PROVE  LockInv'
<1>0. /\ job' = job /\ owner' = Dropped(t)
      /\ \/ pc' = [pc EXCEPT ![t] = "idle"] /\ poisoned' = poisoned
         \/ pc' = [pc EXCEPT ![t] = "dead"] /\ poisoned' = poisoned \cup Kept(t)
  BY DEF ReturnOrPanic, Return, Panic
<1>1. LockTypeOK
  BY DEF LockInv
<1>2. /\ owner' \in [Lock -> Thread \cup {Nobody}]
      /\ Kept(t)' = {}
      /\ \A u \in Thread \ {t} : Kept(u)' = Kept(u)
  BY <1>0, <1>1, DroppedKeeps
<1>3. LockTypeOK'
  BY <1>0, <1>1, <1>2 DEF LockTypeOK, Kept
<1>4. KeepsFirst(t)'
  <2>1. Cardinality(Kept(t)') = 0
    BY <1>2, FS_EmptySet
  <2>2. Len(Locks(job'[t].op)) \in 1 .. 3
    BY <1>0, <1>1, JobHasOp, LockOrder
  <2> QED BY <1>2, <2>1, <2>2 DEF KeepsFirst, First
<1>5. ASSUME NEW u \in Thread \ {t} PROVE KeepsFirst(u)'
  BY <1>0, <1>1, <1>2 DEF LockInv, LockTypeOK, KeepsFirst, First
<1>6. \A u \in Thread : Kept(u)' \cap poisoned' = {}
  <2>1. \A u \in Thread \ {t} : Kept(u) \cap Kept(t) = {}
    BY DEF Kept
  <2> QED BY <1>0, <1>2, <2>1 DEF LockInv
<1>7. "next_inode" \in poisoned' => "bindings" \in poisoned'
  BY <1>0, NumberNeedsTable DEF LockInv
<1> QED BY <1>3, <1>4, <1>5, <1>6, <1>7 DEF LockInv

(* A thread that begins an operation keeps no lock.                        *)
LEMMA CallKeepsLockInv ==
  ASSUME LockInv, NEW t \in Thread, Call(t)
  PROVE  LockInv'
<1>1. /\ pc[t] = "idle" /\ pc' = [pc EXCEPT ![t] = "running"]
      /\ owner' = owner /\ poisoned' = poisoned
  BY DEF Call
<1>2. PICK j \in Job : job' = [job EXCEPT ![t] = j]
  BY DEF Call
<1>3. LockTypeOK'
  BY <1>1, <1>2 DEF LockInv, LockTypeOK
<1>4. Kept(t) = {} /\ \A u \in Thread : Kept(u)' = Kept(u)
  BY <1>1 DEF LockInv, KeepsFirst, Kept
<1>5. KeepsFirst(t)'
  <2>1. Cardinality(Kept(t)') = 0
    BY <1>4, FS_EmptySet
  <2>2. Len(Locks(job'[t].op)) \in 1 .. 3
    BY <1>3, LockTypeOK', JobHasOp, LockOrder DEF LockTypeOK, Job, Op
  <2> QED BY <1>4, <2>1, <2>2 DEF KeepsFirst, First
<1>6. ASSUME NEW u \in Thread \ {t} PROVE KeepsFirst(u)'
  BY <1>1, <1>2, <1>4 DEF LockInv, LockTypeOK, KeepsFirst, First
<1> QED BY <1>1, <1>3, <1>4, <1>5, <1>6 DEF LockInv

(* A thread that gets a lock keeps one more of its list.                   *)
LEMMA TakeKeepsLockInv ==
  ASSUME LockInv, NEW t \in Thread, Take(t)
  PROVE  LockInv'
<1> DEFINE c == Cardinality(Kept(t))
           m == NextLock(t)
<1>1. pc[t] = "running" /\ ~ HasAll(t) /\ owner[m] = Nobody
  BY DEF Take
<1>2. LockTypeOK
  BY DEF LockInv
<1>3. /\ c + 1 \in 1 .. Len(Locks(job[t].op))
      /\ m \in Lock
      /\ m \notin Kept(t)
  BY <1>1, NextLockIsNew
<1>6. CASE ReturnOrPanic(t)
  BY <1>6, EndKeepsLockInv
<1>7. CASE m \notin poisoned /\ owner' = [owner EXCEPT ![m] = t] /\ UNCHANGED <<pc, job, poisoned>>
  <2>1. LockTypeOK'
    BY <1>2, <1>7 DEF LockTypeOK
  <2>2. Kept(t)' = Kept(t) \cup {m}
    BY <1>2, <1>3, <1>7 DEF LockTypeOK, Kept
  <2>3. \A u \in Thread \ {t} : Kept(u)' = Kept(u)
    BY <1>1, <1>2, <1>3, <1>7, ThreadAssumption DEF LockTypeOK, Kept
  <2>4. Cardinality(Kept(t)') = c + 1
    BY <1>3, <2>2, KeptIsFinite, FS_AddElement
  <2>5. KeepsFirst(t)'
    <3>1. c \in Nat /\ Kept(t) = First(t, c)
      BY KeptIsFinite DEF LockInv, KeepsFirst
    <3>2. First(t, c + 1) = First(t, c) \cup {m}
      BY <3>1 DEF First, NextLock
    <3>3. First(t, c)' = First(t, c + 1)
      BY <1>7, <2>4 DEF First
    <3>4. Kept(t)' = First(t, c)'
      BY <2>2, <3>1, <3>2, <3>3
    <3> QED BY <1>1, <1>3, <1>7, <2>4, <3>4 DEF KeepsFirst
  <2>6. ASSUME NEW u \in Thread \ {t} PROVE KeepsFirst(u)'
    BY <1>7, <2>3 DEF LockInv, KeepsFirst, First
  <2>7. \A u \in Thread : Kept(u)' \cap poisoned' = {}
    BY <1>7, <2>2, <2>3 DEF LockInv
  <2> QED BY <1>7, <2>1, <2>5, <2>6, <2>7 DEF LockInv
<1> QED BY <1>6, <1>7 DEF Take, ReturnOrPanic

(* Only walk gets stuck, and it keeps what it has.                         *)
LEMMA WalkKeepsLockInv ==
  ASSUME LockInv, NEW t \in Thread, Walk(t)
  PROVE  LockInv'
<1>1. CASE Return(t)
  BY <1>1, EndKeepsLockInv DEF ReturnOrPanic
<1>2. CASE pc' = [pc EXCEPT ![t] = "stuck"] /\ UNCHANGED <<job, owner, poisoned>>
  <2>1. LockTypeOK'
    BY <1>2 DEF LockInv, LockTypeOK
  <2>2. ASSUME NEW u \in Thread PROVE KeepsFirst(u)' /\ Kept(u)' \cap poisoned' = {}
    <3>1. Kept(u)' = Kept(u)
      BY <1>2 DEF Kept
    <3> QED BY <1>2, <3>1 DEF LockInv, LockTypeOK, KeepsFirst, First
  <2> QED BY <1>2, <2>1, <2>2 DEF LockInv
<1> QED BY <1>1, <1>2 DEF Walk

(* Every operation but a stuck walk ends, one way or the other.            *)
LEMMA FinishKeepsLockInv ==
  ASSUME LockInv, NEW t \in Thread, Finish(t)
  PROVE  LockInv'
<1>1. CASE Walk(t)
  BY <1>1, WalkKeepsLockInv
<1>2. CASE ReturnOrPanic(t)
  BY <1>2, EndKeepsLockInv
<1> QED BY <1>1, <1>2
        DEF Finish, Attach, Clunk, Look, Create, Read, Write, RemoveFile, FuseRead, Bind,
            BindNotUtf8, ReturnOrPanic
-----------------------------------------------------------------------------
(* Lemmas about the table *)

(* What a step may make of the table: every number that was given out is   *)
(* that of the file it was given for or of none, the new ones lie below    *)
(* the next value of next_inode, and the root's entry stays as it is.      *)
TableStep(table, next) ==
  /\ next \in Nat
  /\ next_inode <= next
  /\ DOMAIN table \subseteq 1 .. next - 1
  /\ ROOT_INODE \in DOMAIN table
  /\ table[ROOT_INODE] = RootFile
  /\ \A i \in DOMAIN table :
        /\ table[i] \in File
        /\ i < next_inode => i \in DOMAIN bindings /\ table[i].name = bindings[i].name

(* A step that leaves the table alone is a TableStep.                      *)
LEMMA SameTable ==
  ASSUME TableInv
  PROVE  TableStep(bindings, next_inode)
BY DEF TableInv, TableStep

(* What create inserts is a file.                                          *)
LEMMA NewFileIsFile ==
  ASSUME NEW name \in Name, NEW content \in BOOLEAN
  PROVE  [name |-> name, content |-> content, size |-> 0] \in File
BY BoundAssumption DEF File

(* create takes next_inode, which no entry has.                            *)
LEMMA CreateTakesTableStep ==
  ASSUME TableInv, NEW t \in Thread, Create(t)
  PROVE  TableStep(bindings', next_inode')
<1>1. PICK name \in Name :
         bindings' = [i \in DOMAIN bindings \cup {next_inode} |->
                        IF i = next_inode THEN [name |-> name, content |-> TRUE, size |-> 0]
                        ELSE bindings[i]]
  BY DEF Create
<1>2. next_inode' = next_inode + 1
  BY DEF Create
<1>3. [name |-> name, content |-> TRUE, size |-> 0] \in File
  BY NewFileIsFile
<1>4. DOMAIN bindings' = DOMAIN bindings \cup {next_inode}
  BY <1>1
<1>5. \A i \in DOMAIN bindings : i < next_inode /\ bindings'[i] = bindings[i]
  BY <1>1 DEF TableInv
<1>6. bindings'[next_inode] \in File
  BY <1>1, <1>3
<1>7. next_inode \in 1 .. next_inode' - 1
  BY <1>2, ROOT_INODE \in 1 .. next_inode - 1 DEF TableInv
<1> QED BY <1>2, <1>4, <1>5, <1>6, <1>7 DEF TableInv, TableStep

(* write changes the length of one file's content, and the root has none.  *)
LEMMA WriteTakesTableStep ==
  ASSUME TableInv, NEW t \in Thread, Write(t)
  PROVE  TableStep(bindings', next_inode')
<1>1. CASE UNCHANGED <<bindings, next_inode>>
  BY <1>1, SameTable
<1>2. ASSUME NEW i \in WithContent, NEW end \in 0 .. MaxSize, next_inode' = next_inode,
             bindings' = [bindings EXCEPT ![i].size = IF end > @ THEN end ELSE @]
      PROVE  TableStep(bindings', next_inode')
  <2>1. i \in DOMAIN bindings /\ i # ROOT_INODE
    BY DEF TableInv, WithContent, RootFile
  <2>2. DOMAIN bindings' = DOMAIN bindings
    BY <1>2
  <2>3. \A k \in DOMAIN bindings : k # i => bindings'[k] = bindings[k]
    BY <1>2
  <2>4. bindings'[i] \in File /\ bindings'[i].name = bindings[i].name
    BY <1>2, <2>1 DEF TableInv, File
  <2> QED BY <1>2, <2>1, <2>2, <2>3, <2>4 DEF TableInv, TableStep
<1> QED BY <1>1, <1>2 DEF Write, Panic

(* remove takes out one entry, and not the root's, whose name is ".".      *)
LEMMA RemoveTakesTableStep ==
  ASSUME TableInv, NEW t \in Thread, RemoveFile(t)
  PROVE  TableStep(bindings', next_inode')
<1>1. CASE UNCHANGED <<bindings, next_inode>>
  BY <1>1, SameTable
<1>2. ASSUME NEW i \in NamedByFid, next_inode' = next_inode,
             bindings' = Restrict(bindings, DOMAIN bindings \ {i})
      PROVE  TableStep(bindings', next_inode')
  <2>1. i # ROOT_INODE
    BY DEF TableInv, NamedByFid, RootFile, RootName, RootPath
  <2>2. /\ DOMAIN bindings' = DOMAIN bindings \ {i}
        /\ \A k \in DOMAIN bindings' : bindings'[k] = bindings[k]
    BY <1>2 DEF Restrict
  <2>3. ROOT_INODE \in DOMAIN bindings' /\ bindings'[ROOT_INODE] = RootFile
    BY <2>1, <2>2 DEF TableInv
  <2>4. ASSUME NEW k \in DOMAIN bindings'
        PROVE  /\ k \in DOMAIN bindings /\ bindings'[k] = bindings[k] /\ bindings'[k] \in File
               /\ k \in 1 .. next_inode' - 1
    BY <1>2, <2>2 DEF TableInv
  <2>5. next_inode' \in Nat /\ next_inode <= next_inode'
    BY <1>2 DEF TableInv
  <2> QED BY <2>3, <2>4, <2>5 DEF TableStep
<1> QED BY <1>1, <1>2 DEF RemoveFile

(* bind keeps all entries or the root's and adds files of the host.        *)
LEMMA BindTakesTableStep ==
  ASSUME TableInv, NEW t \in Thread, Bind(t)
  PROVE  TableStep(bindings', next_inode')
<1>1. PICK kept \in {bindings, Restrict(bindings, {ROOT_INODE})}, taken \in 0 .. MaxTaken :
         \E read \in SUBSET (next_inode .. next_inode + taken - 1) :
            \E files \in [read -> [name : HostName, content : BOOLEAN, size : {0}]] :
               /\ bindings' = [i \in DOMAIN kept \cup read |->
                                 IF i \in read THEN files[i] ELSE kept[i]]
               /\ next_inode' = next_inode + taken
  BY DEF Bind
<1>a. PICK read \in SUBSET (next_inode .. next_inode + taken - 1) :
         \E files \in [read -> [name : HostName, content : BOOLEAN, size : {0}]] :
            /\ bindings' = [i \in DOMAIN kept \cup read |->
                              IF i \in read THEN files[i] ELSE kept[i]]
            /\ next_inode' = next_inode + taken
  BY <1>1
<1>2. PICK files \in [read -> [name : HostName, content : BOOLEAN, size : {0}]] :
         /\ bindings' = [i \in DOMAIN kept \cup read |->
                           IF i \in read THEN files[i] ELSE kept[i]]
         /\ next_inode' = next_inode + taken
  BY <1>a
<1>3. taken \in Nat
  BY BoundAssumption
<1>4. /\ DOMAIN kept \subseteq DOMAIN bindings
      /\ ROOT_INODE \in DOMAIN kept
      /\ \A i \in DOMAIN kept : kept[i] = bindings[i]
  BY DEF TableInv, Restrict
<1>5. \A i \in read : i >= next_inode /\ i < next_inode + taken /\ i \in Nat
  BY <1>3 DEF TableInv
<1>6. \A i \in DOMAIN kept : bindings'[i] = bindings[i] /\ i < next_inode
  BY <1>2, <1>4, <1>5 DEF TableInv
<1>7. \A i \in read : bindings'[i] \in File
  <2>1. \A i \in read : bindings'[i] \in [name : HostName, content : BOOLEAN, size : {0}]
    BY <1>2
  <2> QED BY <2>1, NameAssumption, BoundAssumption DEF File
<1>8. DOMAIN bindings' = DOMAIN kept \cup read
  BY <1>2
<1>9. 1 <= next_inode
  BY DEF TableInv
<1>10. next_inode' \in Nat /\ next_inode <= next_inode'
  BY <1>2, <1>3 DEF TableInv
<1>11. ROOT_INODE \in DOMAIN bindings' /\ bindings'[ROOT_INODE] = RootFile
  BY <1>4, <1>6, <1>8 DEF TableInv
<1>12. ASSUME NEW i \in DOMAIN bindings'
       PROVE  /\ i \in 1 .. next_inode' - 1
              /\ bindings'[i] \in File
              /\ i < next_inode => i \in DOMAIN bindings /\ bindings'[i] = bindings[i]
  <2>1. CASE i \in DOMAIN kept
    <3>1. i \in DOMAIN bindings /\ bindings'[i] = bindings[i] /\ i < next_inode
      BY <1>4, <1>6, <2>1
    <3> QED BY <1>10, <3>1 DEF TableInv
  <2>2. CASE i \in read
    BY <1>2, <1>3, <1>5, <1>7, <1>9, <2>2 DEF TableInv
  <2> QED BY <1>8, <2>1, <2>2
<1> QED BY <1>10, <1>11, <1>12 DEF TableStep

(* Every step changes the table by a TableStep, if at all.                 *)
LEMMA NextTakesTableStep ==
  ASSUME TableInv, [Next]_vars
  PROVE  TableStep(bindings', next_inode')
<1>1. CASE UNCHANGED <<bindings, next_inode>>
  BY <1>1, SameTable
<1>2. ASSUME NEW t \in Thread, Create(t) \/ Write(t) \/ RemoveFile(t) \/ Bind(t)
      PROVE  TableStep(bindings', next_inode')
  BY <1>2, CreateTakesTableStep, WriteTakesTableStep, RemoveTakesTableStep, BindTakesTableStep
<1> QED BY <1>1, <1>2
        DEF Next, vars, Call, Take, Panic, Finish, Attach, Clunk, Walk, Look, Read, FuseRead,
            BindNotUtf8

(* A TableStep keeps what is said of the table.                            *)
LEMMA TableStepKeepsInv ==
  ASSUME TableInv, TableStep(bindings', next_inode')
  PROVE  TableInv'
BY DEF TableInv, TableStep
-----------------------------------------------------------------------------
(* The invariant *)

(* At first no lock is taken or poisoned.                                  *)
LEMMA InitEstablishesLockInv == Init => LockInv
<1> SUFFICES ASSUME Init PROVE LockInv
  OBVIOUS
<1>1. LockTypeOK
  BY DEF Init, LockTypeOK, Job, OtherOp
<1>2. ASSUME NEW t \in Thread PROVE KeepsFirst(t)
  <2>1. Kept(t) = {}
    BY ThreadAssumption DEF Init, Kept
  <2>2. Cardinality(Kept(t)) = 0
    BY <2>1, FS_EmptySet
  <2> QED BY <1>1, <2>1, <2>2, JobHasOp, LockOrder DEF KeepsFirst, First
<1> QED BY <1>1, <1>2 DEF Init, LockInv

(* The invariant of the locks is inductive.                                *)
LEMMA NextKeepsLockInv ==
  ASSUME LockInv, [Next]_vars
  PROVE  LockInv'
<1>1. CASE UNCHANGED vars
  <2>1. ASSUME NEW t \in Thread PROVE KeepsFirst(t)' /\ Kept(t)' \cap poisoned' = {}
    <3>1. Kept(t)' = Kept(t)
      BY <1>1 DEF vars, Kept
    <3> QED BY <1>1, <3>1 DEF vars, LockInv, KeepsFirst, First
  <2> QED BY <1>1, <2>1 DEF vars, LockInv, LockTypeOK
<1>2. CASE Next
  BY <1>2, CallKeepsLockInv, TakeKeepsLockInv, FinishKeepsLockInv DEF Next
<1> QED BY <1>1, <1>2

(* Only attach adds a fid, and it is one of a client's.                    *)
LEMMA NextKeepsFids ==
  ASSUME LockTypeOK, fids \subseteq Fid, [Next]_vars
  PROVE  fids' \subseteq Fid
<1>1. ASSUME NEW t \in Thread, Attach(t) PROVE fids' \subseteq Fid
  <2>1. job[t] \in Job /\ job[t].op = "attach"
    BY <1>1 DEF LockTypeOK, Attach, In
  <2>2. job[t].fid \in Fid
    BY <2>1 DEF Job, OtherOp
  <2> QED BY <1>1, <2>2 DEF Attach
<1>2. CASE fids' \subseteq fids
  BY <1>2
<1> QED BY <1>1, <1>2
        DEF Next, vars, Call, Take, Panic, Finish, Clunk, Walk, Look, Create, Read, Write,
            RemoveFile, FuseRead, Bind, BindNotUtf8

(* The invariant holds at first.                                           *)
LEMMA InitEstablishesIInv == Init => IInv
<1> SUFFICES ASSUME Init PROVE IInv
  OBVIOUS
<1>1. RootFile \in File
  BY NameAssumption, BoundAssumption DEF RootFile, File
<1>2. TableInv
  BY <1>1 DEF Init, TableInv, ROOT_INODE, INITIAL_INODE
<1> QED BY <1>2, BoundAssumption, InitEstablishesLockInv DEF Init, IInv

(* The invariant is inductive.                                             *)
LEMMA NextKeepsIInv == IInv /\ [Next]_vars => IInv'
<1> SUFFICES ASSUME IInv, [Next]_vars PROVE IInv'
  OBVIOUS
<1>1. LockInv'
  BY NextKeepsLockInv DEF IInv
<1>2. TableInv'
  BY NextTakesTableStep, TableStepKeepsInv DEF IInv
<1>3. fids' \subseteq Fid
  BY NextKeepsFids DEF IInv, LockInv
<1>4. calls' \in 0 .. MaxCalls
  BY BoundAssumption
  DEF IInv, Next, vars, Call, Take, Return, Panic, ReturnOrPanic, Finish, Attach, Clunk, Walk, Look, Create,
      Read, Write, RemoveFile, FuseRead, Bind, BindNotUtf8
<1> QED BY <1>1, <1>2, <1>3, <1>4 DEF IInv

(* The invariant holds of every behaviour.                                 *)
LEMMA Invariance == Spec => []IInv
BY InitEstablishesIInv, NextKeepsIInv, PTL DEF Spec
-----------------------------------------------------------------------------
(* Theorems *)

(* The tables and the locks keep their types, and the root's entry stays   *)
(* as it is: no write reaches it and no remove takes it out (proto.rs).    *)
THEOREM TypeCorrect == Spec => []TypeOK
<1>1. IInv => TypeOK
  BY DEF IInv, LockInv, LockTypeOK, TableInv, TypeOK
<1> QED BY <1>1, Invariance, PTL

(* However many threads panic with whatever locks, the ones that print     *)
(* with next_inode locked included: a thread that gets as far as           *)
(* next_inode keeps the table, so the table is not poisoned, and then      *)
(* next_inode is not either.                                               *)
THEOREM NumberingNeverPanics == Spec => []NoPanicAtNumbering
<1>1. IInv => NoPanicAtNumbering
  BY NumberNeedsTable DEF IInv, LockInv, NoPanicAtNumbering
<1> QED BY <1>1, Invariance, PTL

(* A thread that waits wants a lock of a higher rank than all that it      *)
(* keeps, so the one among S that wants the highest waits for none of S.   *)
THEOREM LockOrderPreventsDeadlock == Spec => []NoWaitCycle
<1>1. IInv => NoWaitCycle
  <2> SUFFICES ASSUME IInv, NEW S \in SUBSET Thread, S # {}
               PROVE  \E t \in S : \A u \in S : ~ Waits(t, u)
    BY DEF NoWaitCycle
  <2> DEFINE Waiting(t) == \E u \in S : Waits(t, u)
  <2>1. ASSUME NEW t \in S, NEW u \in S, Waits(t, u), Waiting(u)
        PROVE  Rank(NextLock(t)) < Rank(NextLock(u))
    <3>1. ~ HasAll(t) /\ ~ HasAll(u) /\ owner[NextLock(t)] = u
      BY <2>1 DEF Waits
    <3>2. NextLock(t) \in Kept(u)
      BY <3>1, NextLockIsNew DEF IInv, Kept
    <3> QED BY <3>1, <3>2, NextLockIsNew DEF IInv
  <2>2. \A t : Rank(NextLock(t)) \in 1 .. 3
    BY DEF Rank
  <2>3. SUFFICES ASSUME \A t \in S : Waiting(t) PROVE FALSE
    OBVIOUS
  <2>4. \A t \in S : \E u \in S : Rank(NextLock(t)) < Rank(NextLock(u))
    BY <2>1, <2>3
  <2> HIDE DEF Waiting
  <2>5. PICK t1 \in S : TRUE
    OBVIOUS
  <2>6. PICK t2 \in S : Rank(NextLock(t1)) < Rank(NextLock(t2))
    BY <2>4
  <2>7. PICK t3 \in S : Rank(NextLock(t2)) < Rank(NextLock(t3))
    BY <2>4
  <2>8. PICK t4 \in S : Rank(NextLock(t3)) < Rank(NextLock(t4))
    BY <2>4
  <2> QED BY <2>2, <2>6, <2>7, <2>8
<1> QED BY <1>1, Invariance, PTL

(* NineP implements InodeTable: create, remove and binds may interleave in *)
(* any way, a number that was handed out names the same file or nothing    *)
(* ever after.                                                             *)
THEOREM ImplementsInodeTable == Spec => InodesNeverReused
<1>1. Init => Table!Init
  BY DEF Init, Table!Init, ROOT_INODE, INITIAL_INODE
<1>2. IInv /\ [Next]_vars => [Table!Next]_(Table!vars)
  <2> SUFFICES ASSUME IInv, [Next]_vars PROVE Table!Next
    OBVIOUS
  <2> DEFINE names == [i \in DOMAIN bindings |-> bindings[i].name]
  <2>1. TableStep(bindings', next_inode') /\ next_inode \in Nat
    BY NextTakesTableStep DEF IInv, TableInv
  <2>2. 1 .. next_inode - 1 \subseteq 1 .. next_inode' - 1
    BY <2>1 DEF TableStep
  <2>3. DOMAIN names' = DOMAIN bindings' /\ DOMAIN names = DOMAIN bindings
    OBVIOUS
  <2>4. \A i \in DOMAIN names' \cap (1 .. next_inode - 1) :
           i \in DOMAIN names /\ names'[i] = names[i]
    BY <2>1 DEF TableStep
  <2> QED BY <2>1, <2>2, <2>3, <2>4 DEF TableStep, Table!Next, Table!Update
<1> QED BY <1>1, <1>2, Invariance, PTL DEF Spec, InodesNeverReused, Table!Spec
=============================================================================
