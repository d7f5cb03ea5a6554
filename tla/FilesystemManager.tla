-------------------------- MODULE FilesystemManager --------------------------
(***************************************************************************)
(* The namespace of one session: FilesystemManager::bind, mount and        *)
(* unmount (mount.rs) on the tables that NamespaceManager holds            *)
(* (namespace.rs).                                                         *)
(*                                                                         *)
(* One call is one step.  bind and mount keep the write guard of the       *)
(* namespace from the moment they push their entry to their return, and    *)
(* hold the mutexes of bindings and next_inode while they read the host    *)
(* directories, so no other call and no reader of either table runs in     *)
(* between.                                                                *)
(*                                                                         *)
(* The host's files are constants: what varies from one call to the next   *)
(* is the order in which a directory is listed and whether reading it      *)
(* fails half way.  A file's content and attributes are abstracted to the  *)
(* file itself, the node, and to whether the entry was made read-only.     *)
(***************************************************************************)
EXTENDS Naturals, SequencesExt

CONSTANTS
  Path,        \* the paths a caller may name
  Node,        \* the files and directories of the host
  NoNode,      \* what a path that names nothing canonicalizes to
  Name,        \* the file names of the host
  Canon,       \* fs::canonicalize: the node a path names, or NoNode
  Kind,        \* "dir", "file" or "other" (a symbolic link, a device, ...)
  NameOf,      \* the last component of a node's path
  Children,    \* the entries of a directory
  MaxInode     \* bound: with k entries in the namespace, a bind or mount starts only
               \* if this sequence is longer than k and next_inode is at most its item k + 1

ROOT_INODE == 1
INITIAL_INODE == 2
RootName == "."

BindMode == {"Replace", "Before", "After", "Create"}

ASSUME NoNodeAssumption == NoNode \notin Node
ASSUME TreeAssumption ==
  /\ Canon \in [Path -> Node \cup {NoNode}]
  /\ Kind \in [Node -> {"dir", "file", "other"}]
  /\ NameOf \in [Node -> Name]
  /\ Children \in [Node -> SUBSET Node]
  /\ \A d, e \in Node : Children[d] \cap Children[e] # {} => d = e
  /\ \A S \in (SUBSET Node) \ {{}} : \E n \in S : Children[n] \cap S = {}
  /\ IsFiniteSet(Node)
ASSUME BoundAssumption == MaxInode \in Seq(Nat)
ASSUME RootNameAssumption == RootName \notin Name

VARIABLES
  namespace,   \* the entries pushed for each target: a partial function on Node
  bindings,    \* the file served under each inode: a partial function on Nat
  next_inode,  \* the next inode number to hand out
  ret          \* the last call and what it returned

vars == <<namespace, bindings, next_inode, ret>>

NamespaceEntry == [source : Node, target : Node, bind_mode : BindMode]
BoundEntry == [name : Name \cup {RootName}, node : Node \cup {NoNode}, ro : BOOLEAN]
Return == [call : {"new", "bind", "mount", "unmount"},
           mode : BindMode \cup {"-"},
           source : Node \cup {NoNode}, target : Node \cup {NoNode}, ok : BOOLEAN]

TypeOK ==
  /\ DOMAIN namespace \subseteq Node
  /\ \A t \in DOMAIN namespace : namespace[t] \in Seq(NamespaceEntry)
  /\ DOMAIN bindings \subseteq Nat
  /\ \A i \in DOMAIN bindings : bindings[i] \in BoundEntry
  /\ next_inode \in Nat
  /\ ret \in Return

-----------------------------------------------------------------------------
(***************************************************************************)
(* read_directory_entries_recursive.  A listing of directory d is an order *)
(* in which its breadth-first walk may meet everything below d: the        *)
(* entries of one directory together and in any order (read_dir promises   *)
(* none), the directories in the order in which they were queued.          *)
(* Symbolic links are entries but are not followed.                        *)
(***************************************************************************)
Entries == UNION {Children[d] : d \in Node}

(* Mutant: the directories found on the way are not queued. *)
IsListing_Shallow(d, s) == ToSet(s) = Children[d]

IsListing(d, s) ==
  LET queue == <<d>> \o s
  IN  /\ ToSet(s) = UNION {Children[queue[j]] : j \in DOMAIN queue}
      /\ \A i, k \in DOMAIN s, j, l \in DOMAIN queue :
            /\ i < k
            /\ s[i] \in Children[queue[j]]
            /\ s[k] \in Children[queue[l]]
            => j <= l

Listings == [d \in Node |-> {s \in SetToAllKPermutations(Entries) : IsListing(d, s)}]

(* The entries that the first k nodes of listing s get, numbered from n on. *)
Numbered(s, k, n) ==
  [i \in n .. n + k - 1 |->
     [name |-> NameOf[s[i - n + 1]], node |-> s[i - n + 1], ro |-> FALSE]]

(* What a walk of d that starts at inode n may do: read everything, fail   *)
(* after k entries in a read_dir, a directory entry or its metadata, or    *)
(* fail in fs::read of the next file, whose inode is gone by then.         *)
FullWalks(d, n) ==
  IF Kind[d] = "dir"
  THEN {[ok |-> TRUE, ents |-> Numbered(s, Len(s), n), next |-> n + Len(s)] :
           s \in Listings[d]}
  ELSE {}

(* Mutant: a walk that fails does not store the numbers it took. *)
BrokenWalks_Unsaved(d, n) ==
  UNION {{[ok |-> FALSE, ents |-> Numbered(s, k, n), next |-> n] :
             k \in 0 .. Len(s)} : s \in Listings[d]}

BrokenWalks(d, n) ==
  UNION {{[ok |-> FALSE, ents |-> Numbered(s, k, n), next |-> n + k] :
             k \in 0 .. Len(s)} : s \in Listings[d]}

UnreadFileWalks(d, n) ==
  UNION {{[ok |-> FALSE, ents |-> Numbered(s, k, n), next |-> n + k + 1] :
             k \in {k \in 0 .. Len(s) - 1 : Kind[s[k + 1]] = "file"}} : s \in Listings[d]}

Walks(d, n) == FullWalks(d, n) \cup BrokenWalks(d, n) \cup UnreadFileWalks(d, n)

(* HashMap::extend, and insert entry by entry: new entries win. *)
Extend(table, new) ==
  [i \in DOMAIN table \cup DOMAIN new |-> IF i \in DOMAIN new THEN new[i] ELSE table[i]]

NamesIn(table) == {table[i].name : i \in DOMAIN table}

(* Mutant: every entry of extra is added, conflicting or not. *)
Merges_Unfiltered(table, extra) == {Extend(table, extra)}

(* "add non-conflicting entries": one entry of extra for every name that   *)
(* table lacks.  The loop runs over a HashMap, so which of several entries *)
(* with one name comes first is open.                                      *)
Merges(table, extra) ==
  LET missing == NamesIn(extra) \ NamesIn(table)
  IN  {Extend(table, Restrict(extra, S)) :
         S \in {S \in SUBSET DOMAIN extra :
                  /\ {extra[i].name : i \in S} = missing
                  /\ \A i, j \in S : extra[i].name = extra[j].name => i = j}}

(* bindings.retain(|&ino, _| ino == 1) *)
OnlyRoot(table) == Restrict(table, DOMAIN table \cap {ROOT_INODE})

(* entry.attr.perm &= 0o555 *)
ReadOnly(table) == [i \in DOMAIN table |-> [table[i] EXCEPT !.ro = TRUE]]
-----------------------------------------------------------------------------
RootEntry == [name |-> RootName, node |-> NoNode, ro |-> FALSE]

Init ==
  /\ namespace = << >>
  /\ bindings = [i \in {ROOT_INODE} |-> RootEntry]
  /\ next_inode = INITIAL_INODE
  /\ ret = [call |-> "new", mode |-> "-", source |-> NoNode, target |-> NoNode, ok |-> TRUE]

EntriesAt(t) == IF t \in DOMAIN namespace THEN namespace[t] ELSE << >>

EntryCount == SumFunctionOnSet([t \in Node |-> Len(EntriesAt(t))], Node)

WithinBound == EntryCount < Len(MaxInode) /\ next_inode <= MaxInode[EntryCount + 1]

(* Mutant: the target's existence is not checked. *)
Accepted_AnyTarget(p, q) ==
  /\ Canon[p] # NoNode
  /\ WithinBound

(* Both paths canonicalize, and the bounds allow one more entry. *)
Accepted(p, q) ==
  /\ Canon[p] # NoNode
  /\ Canon[q] # NoNode
  /\ WithinBound

(* namespace.entry(abs_target).or_insert_with(Vec::new).push(entry) *)
Push(p, q, m) ==
  LET entry == [source |-> Canon[p], target |-> Canon[q], bind_mode |-> m]
  IN  namespace' = [t \in DOMAIN namespace \cup {Canon[q]} |->
                      IF t = Canon[q] THEN Append(EntriesAt(t), entry) ELSE namespace[t]]

Returns(c, m, p, q, result) ==
  ret' = [call |-> c, mode |-> m, source |-> Canon[p], target |-> Canon[q], ok |-> result]

(* What a call returns that did all it had to.  bind tells the handler of  *)
(* its session and passes on the error of a send that finds the handler    *)
(* gone (notify_bind_success(..)?), when everything is done; mount only    *)
(* warns.                                                                  *)
Completes(c, m, p, q) ==
  \/ Returns(c, m, p, q, TRUE)
  \/ c = "bind" /\ Returns(c, m, p, q, FALSE)

(* Mutant: next_inode is a copy that is saved only while the table is full *)
(* enough, so clearing the table starts the numbers again.                 *)
Commit_Renumber(table, next) ==
  /\ bindings' = table
  /\ next_inode' = IF DOMAIN table = {ROOT_INODE} THEN INITIAL_INODE ELSE next

Commit(table, next) ==
  /\ bindings' = table
  /\ next_inode' = next

(***************************************************************************)
(* bind and mount return Err before they touch anything when one of the    *)
(* two paths does not canonicalize.                                        *)
(***************************************************************************)
Unresolved(c, m, p, q) ==
  /\ Canon[p] = NoNode \/ Canon[q] = NoNode
  /\ Returns(c, m, p, q, FALSE)
  /\ UNCHANGED <<namespace, bindings, next_inode>>

(***************************************************************************)
(* bind_directory and update_bindings canonicalize both paths again.  When *)
(* a path disappeared since the first time they return Err: the entry has  *)
(* been pushed and stays.                                                  *)
(***************************************************************************)
Vanished(c, m, p, q) ==
  /\ Accepted(p, q)
  /\ Push(p, q, m)
  /\ Returns(c, m, p, q, FALSE)
  /\ UNCHANGED <<bindings, next_inode>>

(* Mutant: the entry is pushed only when the walk succeeded. *)
Rebuild_PushLast(c, m, p, q) ==
  /\ Accepted(p, q)
  /\ \E w \in Walks(Canon[p], next_inode) :
        /\ IF w.ok THEN Push(p, q, m) ELSE UNCHANGED namespace
        /\ Commit(Extend(OnlyRoot(bindings), w.ents), w.next)
        /\ Returns(c, m, p, q, w.ok)

(* Keep the root only and walk the source straight into bindings. *)
Rebuild(c, m, p, q) ==
  /\ Accepted(p, q)
  /\ Push(p, q, m)
  /\ \E w \in Walks(Canon[p], next_inode) :
        /\ Commit(Extend(OnlyRoot(bindings), w.ents), w.next)
        /\ IF w.ok THEN Completes(c, m, p, q) ELSE Returns(c, m, p, q, FALSE)

BindReplace(p, q) == Rebuild("bind", "Replace", p, q)

(* mount records its entry as a Before bind; update_bindings then does     *)
(* what a Replace bind does.                                               *)
Mount(p, q) == Rebuild("mount", "Before", p, q)

(* Mutant: the source reaches bindings before the target is read. *)
BindBefore_Early(p, q) ==
  /\ Accepted(p, q)
  /\ Push(p, q, "Before")
  /\ \E w \in {w \in Walks(Canon[p], next_inode) : w.ok} :
        \E v \in Walks(Canon[q], w.next) :
           /\ IF v.ok
              THEN \E new \in Merges(w.ents, v.ents) : Commit(Extend(bindings, new), v.next)
              ELSE Commit(Extend(bindings, w.ents), v.next)
           /\ Returns("bind", "Before", p, q, v.ok)

(* Source and target are walked into maps of their own and reach bindings  *)
(* only when both walks succeed; the source's names win.                   *)
BindBefore(p, q) ==
  /\ Accepted(p, q)
  /\ Push(p, q, "Before")
  /\ \E w \in Walks(Canon[p], next_inode) :
        \/ /\ ~ w.ok
           /\ Commit(bindings, w.next)
           /\ Returns("bind", "Before", p, q, FALSE)
        \/ /\ w.ok
           /\ \E v \in Walks(Canon[q], w.next) :
                 \/ /\ ~ v.ok
                    /\ Commit(bindings, v.next)
                    /\ Returns("bind", "Before", p, q, FALSE)
                 \/ /\ v.ok
                    /\ \E new \in Merges(w.ents, v.ents) : Commit(Extend(bindings, new), v.next)
                    /\ Completes("bind", "Before", p, q)

(* Mutant: source names are compared with the target's only. *)
BindAfter_TargetOnly(p, q) ==
  /\ Accepted(p, q)
  /\ Push(p, q, "After")
  /\ \E v \in {v \in Walks(Canon[q], next_inode) : v.ok} :
        \E w \in {w \in Walks(Canon[p], v.next) : w.ok} :
           /\ \E new \in Merges(v.ents, w.ents) : Commit(Extend(bindings, new), w.next)
           /\ Returns("bind", "After", p, q, TRUE)

(* The target is walked first and goes into bindings before the source is  *)
(* read; source entries are added when bindings lacks their name.          *)
BindAfter(p, q) ==
  /\ Accepted(p, q)
  /\ Push(p, q, "After")
  /\ \E v \in Walks(Canon[q], next_inode) :
        \/ /\ ~ v.ok
           /\ Commit(bindings, v.next)
           /\ Returns("bind", "After", p, q, FALSE)
        \/ /\ v.ok
           /\ \E w \in Walks(Canon[p], v.next) :
                 \/ /\ ~ w.ok
                    /\ Commit(Extend(bindings, v.ents), w.next)
                    /\ Returns("bind", "After", p, q, FALSE)
                 \/ /\ w.ok
                    /\ \E new \in Merges(Extend(bindings, v.ents), w.ents) : Commit(new, w.next)
                    /\ Completes("bind", "After", p, q)

(* Mutant: the table is not cleared first. *)
BindCreate_KeepOld(p, q) ==
  /\ Accepted(p, q)
  /\ Push(p, q, "Create")
  /\ \E w \in {w \in Walks(Canon[p], next_inode) : w.ok} :
        /\ Commit(Extend(bindings, ReadOnly(w.ents)), w.next)
        /\ Returns("bind", "Create", p, q, TRUE)

(* Like Replace, but the source is walked into a map of its own, which is  *)
(* made read-only and reaches bindings only when the walk succeeds.        *)
BindCreate(p, q) ==
  /\ Accepted(p, q)
  /\ Push(p, q, "Create")
  /\ \E w \in Walks(Canon[p], next_inode) :
        \/ /\ ~ w.ok
           /\ Commit(OnlyRoot(bindings), w.next)
           /\ Returns("bind", "Create", p, q, FALSE)
        \/ /\ w.ok
           /\ Commit(Extend(OnlyRoot(bindings), ReadOnly(w.ents)), w.next)
           /\ Completes("bind", "Create", p, q)

(***************************************************************************)
(* unmount touches the namespace only; bindings and next_inode are not     *)
(* among its variables.  Without a specific source every entry of the      *)
(* target goes, with one the entries of the other sources stay, and a      *)
(* vector that became empty is removed.                                    *)
(***************************************************************************)
UnmountUnresolved(q) ==
  /\ Canon[q] = NoNode
  /\ ret' = [call |-> "unmount", mode |-> "-", source |-> NoNode, target |-> NoNode, ok |-> FALSE]
  /\ UNCHANGED <<namespace, bindings, next_inode>>

(* entries.retain: the entries of vector s at the positions I, in their    *)
(* order.  There is one way to number I upwards, so the set has one        *)
(* element; it is stated without recursion.                                *)
Retained(s, I) ==
  LET upwards == {f \in [1 .. Cardinality(I) -> I] :
                    \A j, k \in 1 .. Cardinality(I) : j < k => f[j] < f[k]}
  IN  {[k \in 1 .. Cardinality(I) |-> s[f[k]]] : f \in upwards}

Drop(t) == namespace' = Restrict(namespace, DOMAIN namespace \ {t})

UnmountAll(q) ==
  /\ Canon[q] # NoNode
  /\ Drop(Canon[q])
  /\ ret' = [call |-> "unmount", mode |-> "-", source |-> NoNode, target |-> Canon[q], ok |-> TRUE]
  /\ UNCHANGED <<bindings, next_inode>>

(* Mutant: only the last entry is looked at, and an empty vector stays. *)
UnmountSource_LastOnly(p, q) ==
  LET t == Canon[q]
  IN  /\ t \in DOMAIN namespace
      /\ Canon[p] # NoNode
      /\ namespace[t] # << >>
      /\ Last(namespace[t]).source = Canon[p]
      /\ namespace' = [namespace EXCEPT ![t] = Front(@)]
      /\ Returns("unmount", "-", p, q, TRUE)
      /\ UNCHANGED <<bindings, next_inode>>

(* Mutant: the oldest entry of the source is removed, not every one. *)
UnmountSource_OldestOnly(p, q) ==
  LET t == Canon[q]
      kept == RemoveFirstMatch(EntriesAt(t), LAMBDA e : e.source = Canon[p])
  IN  /\ t \in DOMAIN namespace
      /\ Canon[p] # NoNode
      /\ IF kept = << >> THEN Drop(t) ELSE namespace' = [namespace EXCEPT ![t] = kept]
      /\ Returns("unmount", "-", p, q, TRUE)
      /\ UNCHANGED <<bindings, next_inode>>

(* The specific source is canonicalized only if the target has entries. *)
UnmountSource(p, q) ==
  LET t == Canon[q]
      others == {k \in DOMAIN EntriesAt(t) : EntriesAt(t)[k].source # Canon[p]}
  IN  /\ t # NoNode
      /\ \/ /\ t \notin DOMAIN namespace
            /\ UNCHANGED namespace
            /\ Returns("unmount", "-", p, q, TRUE)
         \/ /\ t \in DOMAIN namespace
            /\ Canon[p] = NoNode
            /\ UNCHANGED namespace
            /\ Returns("unmount", "-", p, q, FALSE)
         \/ /\ t \in DOMAIN namespace
            /\ Canon[p] # NoNode
            /\ IF others = {}
               THEN Drop(t)
               ELSE \E kept \in Retained(namespace[t], others) :
                       namespace' = [namespace EXCEPT ![t] = kept]
            /\ Returns("unmount", "-", p, q, TRUE)
      /\ UNCHANGED <<bindings, next_inode>>

Next ==
  \E p, q \in Path :
     \/ \E m \in BindMode : Unresolved("bind", m, p, q) \/ Vanished("bind", m, p, q)
     \/ Unresolved("mount", "Before", p, q)
     \/ Vanished("mount", "Before", p, q)
     \/ BindReplace(p, q)
     \/ BindBefore(p, q)
     \/ BindAfter(p, q)
     \/ BindCreate(p, q)
     \/ Mount(p, q)
     \/ UnmountUnresolved(q)
     \/ UnmountAll(q)
     \/ UnmountSource(p, q)

Spec == Init /\ [][Next]_vars
-----------------------------------------------------------------------------
(* Properties *)

(* Every node below d on the host, defined without any walk: what every    *)
(* set that holds d's entries and is closed under Children holds.          *)
Below ==
  [d \in Node |->
     {n \in Node : \A S \in SUBSET Node :
        (Children[d] \subseteq S /\ \A e \in S : Children[e] \subseteq S) => n \in S}]

(* The root is always in the table, as it was created, and every other     *)
(* entry has a number that was handed out before: read_directory_entries_  *)
(* recursive never inserts under a number that next_inode will give again. *)
InodesBelowNext ==
  /\ ROOT_INODE \in DOMAIN bindings
  /\ bindings[ROOT_INODE] = RootEntry
  /\ INITIAL_INODE <= next_inode
  /\ \A i \in DOMAIN bindings \ {ROOT_INODE} : INITIAL_INODE <= i /\ i < next_inode

(* Across any sequence of binds, mounts and unmounts, whatever fails on    *)
(* the way, an inode number that bindings gave to one file never comes     *)
(* back for another: clearing the table must not reset next_inode, and a   *)
(* failed walk must not hand its numbers out again.                        *)
Table == INSTANCE InodeTable
           WITH Root <- ROOT_INODE, table <- bindings, issued <- 1 .. (next_inode - 1)
InodesNeverReused == Table!Spec

(* The read-only entries of a Create bind are older than every writable    *)
(* entry: each call that clears the table clears it of both, and Create    *)
(* clears before it adds.  A writable survivor of a Create would be an     *)
(* older one.                                                              *)
ReadOnlyEntriesAreOldest ==
  \A i, j \in DOMAIN bindings \ {ROOT_INODE} :
     bindings[i].ro /\ ~ bindings[j].ro => i < j

(* unmount never leaves an empty vector behind, so that a target without   *)
(* binds is absent from list_namespace and resolve_path, and every entry   *)
(* is filed under its own target.                                          *)
NamespaceVectorsInUse ==
  \A t \in DOMAIN namespace :
     /\ namespace[t] # << >>
     /\ \A e \in ToSet(namespace[t]) : e.target = t

(* Every file the table serves lies below the source or the target of some *)
(* entry of the namespace. *)
ExplainedByNamespace ==
  \A i \in DOMAIN bindings \ {ROOT_INODE} :
     \E t \in DOMAIN namespace : \E e \in ToSet(namespace[t]) :
        bindings[i].node \in Below[e.source] \cup Below[e.target]

(* bind and mount push their entry before they touch bindings, so even a   *)
(* call that fails half way leaves no served file without a namespace      *)
(* entry that accounts for it; only unmount can.                           *)
OnlyUnmountLosesExplanation ==
  [][ExplainedByNamespace /\ ret'.call # "unmount" => ExplainedByNamespace']_vars

ClearingCall == ret'.call = "mount" \/ (ret'.call = "bind" /\ ret'.mode \in {"Replace", "Create"})
Resolved == ret'.source # NoNode /\ ret'.target # NoNode
Served == DOMAIN bindings' \ {ROOT_INODE}
Added == {i \in Served : i >= next_inode}
NodesOf(I) == {bindings'[i].node : i \in I}
AddedNames == {bindings'[i].name : i \in Added}
NamesBelow(d) == {NameOf[n] : n \in Below[d]}

(* The table is exactly the source: every file below it once, directories  *)
(* numbered before what is in them, read-only throughout for Create and    *)
(* nowhere else.                                                           *)
SourceMirrored ==
  /\ NodesOf(Served) = Below[ret'.source]
  /\ Cardinality(Served) = Cardinality(Below[ret'.source])
  /\ \A i, j \in Served :
        bindings'[j].node \in Children[bindings'[i].node] => i < j
  /\ \A i \in Served : bindings'[i].ro <=> ret'.mode = "Create"

(* Besides everything that was in the table all of the source is served,   *)
(* and for every other name of the target exactly one entry; a target      *)
(* entry never hides behind a name of the source.                          *)
SourcePutFirst ==
  LET filled == {i \in Added : bindings'[i].node \notin Below[ret'.source]}
  IN  /\ Below[ret'.source] \subseteq NodesOf(Added)
      /\ AddedNames = NamesBelow(ret'.source) \cup NamesBelow(ret'.target)
      /\ \A i \in filled :
            /\ bindings'[i].node \in Below[ret'.target]
            /\ bindings'[i].name \notin NamesBelow(ret'.source)
      /\ \A i, j \in filled : bindings'[i].name = bindings'[j].name => i = j
      /\ \A i \in DOMAIN bindings : i \in DOMAIN bindings' /\ bindings'[i] = bindings[i]

(* Every name of the source and of the target is served. *)
BothNamed == NamesBelow(ret'.source) \cup NamesBelow(ret'.target) \subseteq NamesIn(bindings')

(* After a successful Replace or Create bind, or a mount, the table is     *)
(* exactly the source, whatever was served before.  This is what the code  *)
(* does for Create too.  The comment of bind ("Creates a new binding,      *)
(* failing if the target exists", mount.rs:283) and bind-modes/create.md   *)
(* (a missing mountpoint is made, an existing one gets a standard replace) *)
(* each say something else: a Create bind that returns Ok always had an    *)
(* existing target, and differs from Replace in the permissions.           *)
ClearingCallMirrorsSource ==
  [][ClearingCall /\ ret'.ok => SourceMirrored]_vars

(* A Before bind that succeeds adds all of the source and what the target  *)
(* has under other names, and takes nothing away.                          *)
BeforePutsSourceFirst ==
  [][ret'.call = "bind" /\ ret'.mode = "Before" /\ ret'.ok => SourcePutFirst]_vars

(* An After bind, whether it succeeds or fails half way, never lets a file *)
(* of the source answer to a name that the table served before or that the *)
(* target has, and drops nothing; when it succeeds, every name of the      *)
(* source and of the target is served.                                     *)
AfterNeverShadows ==
  [][ret'.call = "bind" /\ ret'.mode = "After" /\ Resolved =>
       /\ \A i \in Added :
             bindings'[i].node \notin Below[ret'.target] =>
               bindings'[i].name \notin NamesIn(bindings) \cup NamesBelow(ret'.target)
       /\ \A i \in DOMAIN bindings : i \in DOMAIN bindings' /\ bindings'[i] = bindings[i]
       /\ ret'.ok => BothNamed
    ]_vars

(* What a bind or mount that returns Err may have done, wherever it        *)
(* failed, the notification at its very end included.  Before is all or    *)
(* nothing.  After has added nothing, the whole target, or what a          *)
(* successful After adds.  Create did nothing, emptied the table or put    *)
(* the whole source in it.  Replace and mount did nothing, or emptied the  *)
(* table and serve a part of the source, perhaps all of it, in which every *)
(* file's directory is served too.                                         *)
FailureDamage ==
  [][ret'.call \in {"bind", "mount"} /\ Resolved /\ ~ ret'.ok =>
       CASE ret'.mode = "Before" /\ ret'.call = "bind" -> bindings' = bindings \/ SourcePutFirst
         [] ret'.mode = "After" -> NodesOf(Added) \in {{}, Below[ret'.target]} \/ BothNamed
         [] ret'.mode = "Create" -> bindings' = bindings \/ Served = {} \/ SourceMirrored
         [] OTHER ->
              \/ bindings' = bindings
              \/ /\ Served = Added
                 /\ \A i \in Served :
                       \/ bindings'[i].node \in Children[ret'.source]
                       \/ \E j \in Served :
                             j < i /\ bindings'[i].node \in Children[bindings'[j].node]
    ]_vars

(* resolve_path for a canonical path: the source of the last entry pushed, *)
(* whatever its mode; Before, After and Create append the part of the path *)
(* below the target, which is empty because the target is the key.         *)
Resolve(t) == IF EntriesAt(t) = << >> THEN t ELSE Last(EntriesAt(t)).source

(* Unmounting one source from a target never lets that source win there    *)
(* again and, when another source was winning, does not change the winner: *)
(* the entries that stay keep their order.                                 *)
UnmountKeepsOtherWinner ==
  [][ret'.call = "unmount" /\ ret'.ok /\ Resolved =>
       \A t \in Node : t = ret'.target =>
          IF Resolve(t) = ret'.source
          THEN Resolve(t)' = ret'.source => ret'.source = t
          ELSE Resolve(t)' = Resolve(t)]_vars
-----------------------------------------------------------------------------
(* What the documents say and the code does not do *)

(* docs/.../bind-operations.md: "Failures result in complete rollback".    *)
(* A bind that returns Err leaves what is served as it was.                *)
FailedBindRollsBack ==
  [][ret'.call = "bind" /\ ~ ret'.ok => UNCHANGED bindings]_vars
=============================================================================
