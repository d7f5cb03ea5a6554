-------------------------------- MODULE NineP --------------------------------
(***************************************************************************)
(* The 9P server (proto.rs) and what shares its tables: the FUSE callbacks *)
(* of the same type and the FilesystemManager.  A NineP is cloned freely   *)
(* and every clone works on the same fids, bindings, next_inode and        *)
(* namespace, each under a lock of its own, so the threads here are the    *)
(* owners of clones and any of them may call anything.                     *)
(*                                                                         *)
(* An operation takes its locks one after the other, in the order in which *)
(* the code does, works when it has the last one, and drops them together  *)
(* when it returns.  A panic poisons the locks that the thread keeps, and  *)
(* "lock().unwrap()" of a poisoned lock panics in its turn.                *)
(*                                                                         *)
(* A fid's path is left out: attach records "/" and walk never gets as far *)
(* as recording another one, as this model shows, so fids is the set of    *)
(* the fids in use.  Names are compared with that path; no file of the     *)
(* host is called "/", but create takes any name.  Of a file's content     *)
(* only the length matters, for reading beyond it.  HashMap iteration      *)
(* order is any.  FilesystemManager has the details of bind and mount.     *)
(***************************************************************************)
EXTENDS Integers, SequencesExt

CONSTANTS
  Thread,     \* the threads that own a clone
  Fid,        \* the fids that clients use
  Name,       \* the names that clients may use
  HostName,   \* the names that files of the host may have
  MaxSize,    \* bound: the longest content and offset
  MaxTaken,   \* bound: the inode numbers that one bind or mount takes
  MaxCalls    \* bound: the operations called in all

RootPath == "/"
RootName == "."
ROOT_INODE == 1
INITIAL_INODE == 2

ASSUME NameAssumption == {RootPath, RootName} \subseteq Name /\ HostName \subseteq Name \ {RootPath, RootName}
ASSUME BoundAssumption == MaxSize \in Nat /\ MaxTaken \in Nat /\ MaxCalls \in Nat

VARIABLES
  pc,           \* "idle", "running", "stuck" in a lock it keeps itself, or "dead" of a panic
  job,          \* the operation each thread is in
  owner,        \* the thread that keeps each lock
  poisoned,     \* the locks a panic has poisoned
  fids,         \* the fids in use
  bindings,     \* inode numbers to files
  next_inode,
  calls

vars == <<pc, job, owner, poisoned, fids, bindings, next_inode, calls>>

Lock == {"namespace", "fids", "bindings", "next_inode"}
Nobody == "nobody"
ASSUME ThreadAssumption == Nobody \notin Thread

(* The operations on a fid, the 9P operations that only look at the table  *)
(* or change attributes being one, and the others: the FUSE callbacks      *)
(* other than read, read, bind and mount, resolve_path and unmount.        *)
FidOp == {"attach", "clunk", "walk", "look", "create", "read", "write", "remove"}
OtherOp == {"fuse_look", "fuse_read", "bind", "resolve"}
Job == [op : FidOp, fid : Fid] \cup [op : OtherOp]

(* Mutant: open, stat and wstat look at the table before the fid. *)
Locks_BindingsFirst(op) ==
  CASE op \in {"attach", "clunk"} -> <<"fids">>
    [] op \in {"walk", "read", "write", "remove"} -> <<"fids", "bindings">>
    [] op = "look" -> <<"bindings", "fids">>
    [] op = "create" -> <<"fids", "bindings", "next_inode">>
    [] op \in {"fuse_look", "fuse_read"} -> <<"bindings">>
    [] op = "bind" -> <<"namespace", "bindings", "next_inode">>
    [] op = "resolve" -> <<"namespace">>

(* Mutant: create reserves its number before it looks at the table. *)
Locks_NumberFirst(op) ==
  CASE op \in {"attach", "clunk"} -> <<"fids">>
    [] op \in {"walk", "look", "read", "write", "remove"} -> <<"fids", "bindings">>
    [] op = "create" -> <<"fids", "next_inode", "bindings">>
    [] op \in {"fuse_look", "fuse_read"} -> <<"bindings">>
    [] op = "bind" -> <<"namespace", "bindings", "next_inode">>
    [] op = "resolve" -> <<"namespace">>

(* The locks of an operation, in the order in which it takes them. *)
Locks(op) ==
  CASE op \in {"attach", "clunk"} -> <<"fids">>
    [] op \in {"walk", "look", "read", "write", "remove"} -> <<"fids", "bindings">>
    [] op = "create" -> <<"fids", "bindings", "next_inode">>
    [] op \in {"fuse_look", "fuse_read"} -> <<"bindings">>
    [] op = "bind" -> <<"namespace", "bindings", "next_inode">>
    [] op = "resolve" -> <<"namespace">>

File == [name : Name, content : BOOLEAN, size : 0 .. MaxSize]
RootFile == [name |-> RootName, content |-> FALSE, size |-> 0]

TypeOK ==
  /\ pc \in [Thread -> {"idle", "running", "stuck", "dead"}]
  /\ job \in [Thread -> Job]
  /\ owner \in [Lock -> Thread \cup {Nobody}]
  /\ poisoned \subseteq Lock
  /\ fids \subseteq Fid
  /\ DOMAIN bindings \subseteq Nat
  /\ ROOT_INODE \in DOMAIN bindings
  /\ bindings[ROOT_INODE] = RootFile
  /\ \A i \in DOMAIN bindings : bindings[i] \in File
  /\ next_inode \in Nat
  /\ calls \in 0 .. MaxCalls

Init ==
  /\ pc = [t \in Thread |-> "idle"]
  /\ job = [t \in Thread |-> [op |-> "resolve"]]
  /\ owner = [m \in Lock |-> Nobody]
  /\ poisoned = {}
  /\ fids = {}
  /\ bindings = [i \in {ROOT_INODE} |-> RootFile]
  /\ next_inode = INITIAL_INODE
  /\ calls = 0
-----------------------------------------------------------------------------
Kept(t) == {m \in Lock : owner[m] = t}
Dropped(t) == [m \in Lock |-> IF owner[m] = t THEN Nobody ELSE owner[m]]
HasAll(t) == Cardinality(Kept(t)) = Len(Locks(job[t].op))
NextLock(t) == Locks(job[t].op)[Cardinality(Kept(t)) + 1]

Return(t) ==
  /\ pc' = [pc EXCEPT ![t] = "idle"]
  /\ owner' = Dropped(t)
  /\ UNCHANGED <<job, poisoned, calls>>

Panic(t) ==
  /\ pc' = [pc EXCEPT ![t] = "dead"]
  /\ owner' = Dropped(t)
  /\ poisoned' = poisoned \cup Kept(t)
  /\ UNCHANGED <<job, calls>>

(* println! panics when whoever read the output has gone. *)
ReturnOrPanic(t) == Return(t) \/ Panic(t)

Call(t) ==
  /\ pc[t] = "idle"
  /\ calls < MaxCalls
  /\ calls' = calls + 1
  /\ pc' = [pc EXCEPT ![t] = "running"]
  /\ job' \in {[job EXCEPT ![t] = j] : j \in Job}
  /\ UNCHANGED <<owner, poisoned, fids, bindings, next_inode>>

(* Every operation but attach returns Err at once for an unknown fid.      *)
(* remove takes the fid out before it asks for the table.                  *)
Take(t) ==
  /\ pc[t] = "running"
  /\ ~ HasAll(t)
  /\ owner[NextLock(t)] = Nobody
  /\ \/ /\ NextLock(t) \in poisoned
        /\ Panic(t)
        /\ UNCHANGED <<fids, bindings, next_inode>>
     \/ /\ NextLock(t) \notin poisoned
        /\ NextLock(t) = "fids" /\ job[t].op # "attach" /\ job[t].fid \notin fids
        /\ Return(t)
        /\ UNCHANGED <<fids, bindings, next_inode>>
     \/ /\ NextLock(t) \notin poisoned
        /\ NextLock(t) = "fids" => job[t].op = "attach" \/ job[t].fid \in fids
        /\ owner' = [owner EXCEPT ![NextLock(t)] = t]
        /\ fids' = IF job[t].op = "remove" /\ NextLock(t) = "fids" THEN fids \ {job[t].fid} ELSE fids
        /\ UNCHANGED <<pc, job, poisoned, bindings, next_inode, calls>>

(* t has all the locks of operation op. *)
In(t, op) == pc[t] = "running" /\ job[t].op = op /\ HasAll(t)
-----------------------------------------------------------------------------
Attach(t) ==
  /\ In(t, "attach")
  /\ fids' = fids \cup {job[t].fid}
  /\ Return(t)
  /\ UNCHANGED <<bindings, next_inode>>

Clunk(t) ==
  /\ In(t, "clunk")
  /\ fids' = fids \ {job[t].fid}
  /\ Return(t)
  /\ UNCHANGED <<bindings, next_inode>>

(* walk looks up every name in the whole table.  Without names or with one *)
(* that is missing it returns.  Otherwise it locks fids to record newfid,  *)
(* while its first guard of fids is still alive, and never comes back.     *)
Walk(t) ==
  /\ In(t, "walk")
  /\ UNCHANGED <<fids, bindings, next_inode>>
  /\ \E wnames \in SUBSET Name :
        LET found == wnames \subseteq {bindings[i].name : i \in DOMAIN bindings}
        IN  \/ /\ wnames = {} \/ ~ found
               /\ Return(t)
            \/ /\ wnames # {} /\ found
               /\ pc' = [pc EXCEPT ![t] = "stuck"]
               /\ UNCHANGED <<job, owner, poisoned, calls>>

(* open, stat and wstat; lookup, getattr and readdir; resolve_path,        *)
(* list_namespace and unmount: nothing changes that this model keeps.  Of  *)
(* these, lookup prints with the table locked.                             *)
Look(t) ==
  /\ \/ (In(t, "look") \/ In(t, "resolve")) /\ Return(t)
     \/ In(t, "fuse_look") /\ ReturnOrPanic(t)
  /\ UNCHANGED <<fids, bindings, next_inode>>

(* Mutant: the new file gets the lowest number that is free. *)
Create_LowestFree(t) ==
  /\ In(t, "create")
  /\ \E name \in Name :
        LET free == CHOOSE i \in INITIAL_INODE .. next_inode :
                      i \notin DOMAIN bindings /\ \A k \in INITIAL_INODE .. i - 1 : k \in DOMAIN bindings
        IN  /\ bindings' = [i \in DOMAIN bindings \cup {free} |->
                              IF i = free THEN [name |-> name, content |-> TRUE, size |-> 0] ELSE bindings[i]]
            /\ next_inode' = IF free = next_inode THEN next_inode + 1 ELSE next_inode
  /\ Return(t)
  /\ UNCHANGED fids

(* create does not ask whether the name is in use. *)
Create(t) ==
  /\ In(t, "create")
  /\ \E name \in Name :
        bindings' = [i \in DOMAIN bindings \cup {next_inode} |->
                       IF i = next_inode THEN [name |-> name, content |-> TRUE, size |-> 0]
                       ELSE bindings[i]]
  /\ next_inode' = next_inode + 1
  /\ Return(t)
  /\ UNCHANGED fids

WithContent == {i \in DOMAIN bindings : bindings[i].content}

(* read takes the first entry with content that it meets, whatever the fid *)
(* is; an offset beyond its end makes the slice panic.                     *)
Read(t) ==
  /\ In(t, "read")
  /\ \/ \E i \in WithContent, offset \in 0 .. MaxSize :
           IF offset > bindings[i].size THEN Panic(t) ELSE Return(t)
     \/ WithContent = {} /\ Return(t)
  /\ UNCHANGED <<fids, bindings, next_inode>>

(* write does the same, and makes the content long enough, or panics when  *)
(* the offset is so large that no vector can have that length.             *)
Write(t) ==
  /\ In(t, "write")
  /\ \/ /\ \/ \E i \in WithContent, end \in 0 .. MaxSize :
                 bindings' = [bindings EXCEPT ![i].size = IF end > @ THEN end ELSE @]
           \/ WithContent = {} /\ UNCHANGED bindings
        /\ Return(t)
     \/ WithContent # {} /\ Panic(t) /\ UNCHANGED bindings
  /\ UNCHANGED <<fids, next_inode>>

(* Mutant: remove, too, takes whichever entry it meets first. *)
NamedByFid_Any == DOMAIN bindings

(* The entries whose name is the path of a fid. *)
NamedByFid == {i \in DOMAIN bindings : bindings[i].name = RootPath}

RemoveFile(t) ==
  /\ In(t, "remove")
  /\ \/ \E i \in NamedByFid : bindings' = Restrict(bindings, DOMAIN bindings \ {i})
     \/ NamedByFid = {} /\ UNCHANGED bindings
  /\ Return(t)
  /\ UNCHANGED <<fids, next_inode>>

(* The FUSE callback finds its entry by inode number and slices as well;   *)
(* an offset beyond the content, or below 0, makes it panic.               *)
FuseRead(t) ==
  /\ In(t, "fuse_read")
  /\ Return(t) \/ (WithContent # {} /\ Panic(t))
  /\ UNCHANGED <<fids, bindings, next_inode>>

(* bind and mount, in short: all entries or the root alone are kept, and   *)
(* some of the numbers that are taken get a file of the host.  Both print  *)
(* what they read while they hold all three locks, before, between and     *)
(* after their changes, so a panic leaves anything a failure may leave.    *)
Bind(t) ==
  /\ In(t, "bind")
  /\ \E kept \in {bindings, Restrict(bindings, {ROOT_INODE})}, taken \in 0 .. MaxTaken :
        \E read \in SUBSET (next_inode .. next_inode + taken - 1) :
           \E files \in [read -> [name : HostName, content : BOOLEAN, size : {0}]] :
              /\ bindings' = [i \in DOMAIN kept \cup read |-> IF i \in read THEN files[i] ELSE kept[i]]
              /\ next_inode' = next_inode + taken
  /\ ReturnOrPanic(t)
  /\ UNCHANGED fids

(* Before it asks for the table, bind turns the target into a string, and  *)
(* panics when that is not UTF-8; mount does the same.                     *)
BindNotUtf8(t) ==
  /\ pc[t] = "running"
  /\ job[t].op = "bind"
  /\ Kept(t) = {"namespace"}
  /\ Panic(t)
  /\ UNCHANGED <<fids, bindings, next_inode>>

Finish(t) ==
  \/ Attach(t) \/ Clunk(t) \/ Walk(t) \/ Look(t) \/ Create(t) \/ Read(t) \/ Write(t) \/ RemoveFile(t)
  \/ FuseRead(t) \/ Bind(t) \/ BindNotUtf8(t)

Next == \E t \in Thread : Call(t) \/ Take(t) \/ Finish(t)

(* A thread that can go on goes on; nobody has to call anything. *)
Spec == Init /\ [][Next]_vars /\ \A t \in Thread : WF_vars(Take(t) \/ Finish(t))
-----------------------------------------------------------------------------
(* Properties *)

(* Whatever clients create, remove and write and whatever is bound at the  *)
(* same time, an inode number stays with the name it was given for: create *)
(* takes its numbers where bind and mount take theirs.                     *)
Table == INSTANCE InodeTable
           WITH Root <- ROOT_INODE, issued <- 1 .. (next_inode - 1),
                table <- [i \in DOMAIN bindings |-> bindings[i].name]
InodesNeverReused == Table!Spec

(* A bind or mount that panics while it prints poisons next_inode too, but *)
(* no operation finds it so: whoever wants it keeps the table by then, and *)
(* every panic that had both poisoned both.  So a create that got the      *)
(* table gets its number, and panics with what it holds only earlier, when *)
(* it has changed nothing.                                                 *)
NoPanicAtNumbering ==
  \A t \in Thread :
     pc[t] = "running" /\ ~ HasAll(t) /\ NextLock(t) = "next_inode" => "next_inode" \notin poisoned

(* The orders in which the operations take their locks agree: among any    *)
(* threads there is one that waits for none of them.                       *)
Waits(t, u) == pc[t] = "running" /\ ~ HasAll(t) /\ owner[NextLock(t)] = u
NoWaitCycle == \A S \in SUBSET Thread : S # {} => \E t \in S : \A u \in S : ~ Waits(t, u)

(* Every operation comes to an end, in a panic if need be, unless a walk   *)
(* is stuck.                                                               *)
OperationsReturn ==
  \A t \in Thread : pc[t] = "running" ~> pc[t] # "running" \/ \E u \in Thread : pc[u] = "stuck"
-----------------------------------------------------------------------------
(* What the repository says and the code does not do *)

(* proto.rs:235, "Returns: A vector of Qids (unique identifiers) for the   *)
(* resolved file names".  A walk comes back, if with an error.             *)
WalkReturns ==
  \A t \in Thread : pc[t] = "running" /\ job[t].op = "walk" ~> pc[t] \in {"idle", "dead"}
=============================================================================
