----------------------- MODULE FilesystemManagerProofs -----------------------
(***************************************************************************)
(* Proofs about FilesystemManager for every host tree, every set of paths  *)
(* and every value of the bounds.                                          *)
(*                                                                         *)
(* What every call does to bindings and next_inode is one relation,        *)
(* TableStep; each action is shown to satisfy it, and the invariants of    *)
(* the table and the refinement of InodeTable follow from it alone.        *)
(***************************************************************************)
EXTENDS FilesystemManager, FiniteSetTheorems, TLAPS

(* A table of entries that one or two walks produced, all writable, with   *)
(* numbers from n up to m - 1.                                             *)
FreshTable(table, n, m) ==
  \A i \in DOMAIN table :
     /\ i \in n .. m - 1
     /\ table[i] \in BoundEntry
     /\ ~ table[i].ro

(* What a call may make of the table: nothing below next_inode is new or   *)
(* changed, everything is below the next value of next_inode, the root     *)
(* stays; and either no new entry is read-only or nothing old stays.       *)
TableStep(table, next) ==
  /\ next \in Nat
  /\ next_inode <= next
  /\ ROOT_INODE \in DOMAIN table
  /\ \A i \in DOMAIN table :
        /\ i \in Nat
        /\ i < next
        /\ table[i] \in BoundEntry
        /\ i < next_inode => i \in DOMAIN bindings /\ table[i] = bindings[i]
  /\ \/ \A i \in DOMAIN table : i >= next_inode => ~ table[i].ro
     \/ \A i \in DOMAIN table \ {ROOT_INODE} : i >= next_inode /\ table[i].ro

TableInv ==
  /\ DOMAIN bindings \subseteq Nat
  /\ \A i \in DOMAIN bindings : bindings[i] \in BoundEntry
  /\ next_inode \in Nat
  /\ InodesBelowNext
NamespaceInv ==
  /\ DOMAIN namespace \subseteq Node
  /\ \A t \in DOMAIN namespace : namespace[t] \in Seq(NamespaceEntry)
  /\ NamespaceVectorsInUse
-----------------------------------------------------------------------------
(* Lemmas about the walks *)

(* A listing is a sequence of nodes. *)
LEMMA ListingIsSequence ==
  ASSUME NEW d \in Node, NEW s \in Listings[d]
  PROVE  s \in Seq(Node) /\ Len(s) \in Nat
<1>1. PICK S \in SUBSET Entries : s \in SetToSeqs(S)
  BY DEF Listings, SetToAllKPermutations
<1>2. S \subseteq Node
  BY TreeAssumption DEF Entries
<1>3. Cardinality(S) \in Nat
  BY <1>2, TreeAssumption, FS_Subset, FS_CardinalityType
<1>4. s \in [1 .. Cardinality(S) -> S]
  BY <1>1 DEF SetToSeqs
<1>5. s \in Seq(Node)
  BY <1>2, <1>3, <1>4
<1> QED BY <1>5

(* The entries that a part of a listing gets are fresh. *)
LEMMA NumberedIsFresh ==
  ASSUME NEW s \in Seq(Node), NEW k \in 0 .. Len(s), NEW n \in Nat
  PROVE  FreshTable(Numbered(s, k, n), n, n + k)
<1> DEFINE t == Numbered(s, k, n)
<1>a. DOMAIN t = n .. n + k - 1
  BY DEF Numbered
<1> SUFFICES ASSUME NEW i \in n .. n + k - 1
             PROVE  /\ t[i] \in BoundEntry
                    /\ ~ t[i].ro
  BY <1>a DEF FreshTable
<1>1. i - n + 1 \in 1 .. Len(s)
  OBVIOUS
<1>2. s[i - n + 1] \in Node
  BY <1>1
<1>3. NameOf[s[i - n + 1]] \in Name
  BY <1>2, TreeAssumption
<1> QED BY <1>2, <1>3 DEF Numbered, BoundEntry

(* Whatever a walk of a directory does, complete or not, it moves          *)
(* next_inode up past the entries it made.                                 *)
LEMMA WalkIsFresh ==
  ASSUME NEW d \in Node, NEW n \in Nat, NEW w \in Walks(d, n)
  PROVE  /\ w.next \in Nat
         /\ n <= w.next
         /\ w.ok \in BOOLEAN
         /\ FreshTable(w.ents, n, w.next)
<1>1. CASE w \in FullWalks(d, n)
  <2>1. PICK s \in Listings[d] :
           w = [ok |-> TRUE, ents |-> Numbered(s, Len(s), n), next |-> n + Len(s)]
    BY <1>1 DEF FullWalks
  <2>2. s \in Seq(Node) /\ Len(s) \in Nat
    BY ListingIsSequence
  <2> QED BY <2>1, <2>2, NumberedIsFresh
<1>2. CASE w \in BrokenWalks(d, n)
  <2>1. PICK s \in Listings[d] : \E k \in 0 .. Len(s) :
           w = [ok |-> FALSE, ents |-> Numbered(s, k, n), next |-> n + k]
    BY <1>2 DEF BrokenWalks
  <2>2. s \in Seq(Node) /\ Len(s) \in Nat
    BY ListingIsSequence
  <2> QED BY <2>1, <2>2, NumberedIsFresh
<1>3. CASE w \in UnreadFileWalks(d, n)
  <2>1. PICK s \in Listings[d] : \E k \in 0 .. Len(s) - 1 :
           w = [ok |-> FALSE, ents |-> Numbered(s, k, n), next |-> n + k + 1]
    BY <1>3 DEF UnreadFileWalks
  <2>2. s \in Seq(Node) /\ Len(s) \in Nat
    BY ListingIsSequence
  <2>3. PICK k \in 0 .. Len(s) - 1 :
           w = [ok |-> FALSE, ents |-> Numbered(s, k, n), next |-> n + k + 1]
    BY <2>1
  <2>4. FreshTable(Numbered(s, k, n), n, n + k)
    BY <2>2, NumberedIsFresh, k \in 0 .. Len(s)
  <2>5. FreshTable(Numbered(s, k, n), n, n + k + 1)
    BY <2>2, <2>4 DEF FreshTable
  <2> QED BY <2>2, <2>3, <2>5
<1> QED BY <1>1, <1>2, <1>3 DEF Walks

(* A merge keeps the table it fills up and adds only entries of extra. *)
LEMMA MergeEntries ==
  ASSUME NEW table, NEW extra, NEW new \in Merges(table, extra)
  PROVE  /\ DOMAIN table \subseteq DOMAIN new
         /\ DOMAIN new \subseteq DOMAIN table \cup DOMAIN extra
         /\ \A i \in DOMAIN new :
               \/ i \in DOMAIN table /\ new[i] = table[i]
               \/ i \in DOMAIN extra /\ new[i] = extra[i]
<1>1. PICK S \in SUBSET DOMAIN extra : new = Extend(table, Restrict(extra, S))
  BY DEF Merges
<1>2. DOMAIN new = DOMAIN table \cup S
  BY <1>1 DEF Restrict, Extend
<1>3. \A i \in DOMAIN new : new[i] = IF i \in S THEN extra[i] ELSE table[i]
  BY <1>1 DEF Restrict, Extend
<1> QED BY <1>2, <1>3
-----------------------------------------------------------------------------
(* Lemmas about the tables a call commits: each is a TableStep. *)

(* Leaving the table alone is a TableStep.                                 *)
LEMMA KeptTable ==
  ASSUME TableInv, NEW m \in Nat, next_inode <= m
  PROVE  TableStep(bindings, m) /\ TableStep(OnlyRoot(bindings), m)
<1>1. TableStep(bindings, m)
  BY DEF TableInv, TableStep, InodesBelowNext, ROOT_INODE, INITIAL_INODE
<1>2. /\ DOMAIN OnlyRoot(bindings) = {ROOT_INODE}
      /\ OnlyRoot(bindings)[ROOT_INODE] = bindings[ROOT_INODE]
  BY DEF TableInv, InodesBelowNext, OnlyRoot, Restrict
<1>3. TableStep(OnlyRoot(bindings), m)
  BY <1>2 DEF TableInv, TableStep, InodesBelowNext, ROOT_INODE, INITIAL_INODE
<1> QED BY <1>1, <1>3

(* Replace binds and mounts. *)
LEMMA ReplacedTable ==
  ASSUME TableInv, NEW m \in Nat, next_inode <= m,
         NEW e, FreshTable(e, next_inode, m)
  PROVE  TableStep(Extend(OnlyRoot(bindings), e), m)
<1> DEFINE t == Extend(OnlyRoot(bindings), e)
<1>1. /\ DOMAIN t = {ROOT_INODE} \cup DOMAIN e
      /\ ROOT_INODE \notin DOMAIN e
      /\ t[ROOT_INODE] = bindings[ROOT_INODE]
      /\ \A i \in DOMAIN e : t[i] = e[i]
  BY DEF TableInv, InodesBelowNext, FreshTable, Extend, OnlyRoot, Restrict, ROOT_INODE,
         INITIAL_INODE
<1> HIDE DEF t
<1>2. TableStep(t, m)
  BY <1>1 DEF TableInv, TableStep, InodesBelowNext, FreshTable, ROOT_INODE, INITIAL_INODE
<1> QED BY <1>2 DEF t

(* Create binds. *)
LEMMA CreatedTable ==
  ASSUME TableInv, NEW m \in Nat, next_inode <= m,
         NEW e, FreshTable(e, next_inode, m)
  PROVE  TableStep(Extend(OnlyRoot(bindings), ReadOnly(e)), m)
<1> DEFINE t == Extend(OnlyRoot(bindings), ReadOnly(e))
<1>1. /\ DOMAIN t = {ROOT_INODE} \cup DOMAIN e
      /\ ROOT_INODE \notin DOMAIN e
      /\ t[ROOT_INODE] = bindings[ROOT_INODE]
      /\ \A i \in DOMAIN e : t[i] = [e[i] EXCEPT !.ro = TRUE]
  BY DEF TableInv, InodesBelowNext, FreshTable, Extend, OnlyRoot, Restrict, ReadOnly,
         ROOT_INODE, INITIAL_INODE
<1>2. \A i \in DOMAIN e : t[i] \in BoundEntry /\ t[i].ro
  BY <1>1 DEF FreshTable, BoundEntry
<1> HIDE DEF t
<1>3. \A i \in DOMAIN e : i \in Nat /\ next_inode <= i /\ i < m
  BY DEF FreshTable, TableInv
<1>4. TableStep(t, m)
  BY <1>1, <1>2, <1>3 DEF TableInv, TableStep, InodesBelowNext, ROOT_INODE, INITIAL_INODE
<1> QED BY <1>4 DEF t

(* Before binds, and After binds up to the target's walk. *)
LEMMA GrownTable ==
  ASSUME TableInv, NEW m \in Nat, next_inode <= m,
         NEW e, FreshTable(e, next_inode, m)
  PROVE  /\ TableStep(Extend(bindings, e), m)
         /\ \A i \in DOMAIN Extend(bindings, e) :
               i >= next_inode => ~ Extend(bindings, e)[i].ro
<1> DEFINE t == Extend(bindings, e)
<1>1. /\ DOMAIN t = DOMAIN bindings \cup DOMAIN e
      /\ \A i \in DOMAIN t : t[i] = IF i \in DOMAIN e THEN e[i] ELSE bindings[i]
  BY DEF Extend
<1> HIDE DEF t
<1>2. \A i \in DOMAIN e : i \in Nat /\ next_inode <= i /\ i < m /\ e[i] \in BoundEntry /\ ~ e[i].ro
  BY DEF FreshTable, TableInv
<1>3. \A i \in DOMAIN bindings : i < next_inode /\ i \in Nat
  BY DEF TableInv, InodesBelowNext, ROOT_INODE, INITIAL_INODE
<1>4. TableStep(t, m) /\ \A i \in DOMAIN t : i >= next_inode => ~ t[i].ro
  BY <1>1, <1>2, <1>3 DEF TableInv, TableStep, InodesBelowNext, ROOT_INODE, INITIAL_INODE
<1> QED BY <1>4 DEF t

(* The second half of an After bind. *)
LEMMA FilledTable ==
  ASSUME TableInv, NEW k \in Nat, next_inode <= k, NEW m \in Nat, k <= m,
         NEW e, FreshTable(e, next_inode, k), NEW f, FreshTable(f, k, m),
         NEW new \in Merges(Extend(bindings, e), f)
  PROVE  TableStep(new, m)
<1> DEFINE t == Extend(bindings, e)
<1>1. /\ TableStep(t, k)
      /\ \A i \in DOMAIN t : i >= next_inode => ~ t[i].ro
  BY GrownTable
<1>2. /\ DOMAIN t \subseteq DOMAIN new
      /\ \A i \in DOMAIN new :
               \/ i \in DOMAIN t /\ new[i] = t[i]
               \/ i \in DOMAIN f /\ new[i] = f[i]
  BY MergeEntries
<1> HIDE DEF t
<1>3. \A i \in DOMAIN f : i \in Nat /\ k <= i /\ i < m /\ f[i] \in BoundEntry /\ ~ f[i].ro
  BY DEF FreshTable
<1> QED BY <1>1, <1>2, <1>3 DEF TableStep, TableInv

(* What a Before bind merges is fresh. *)
LEMMA MergeIsFresh ==
  ASSUME NEW n \in Nat, NEW k \in Nat, NEW m \in Nat, n <= k, k <= m,
         NEW e, FreshTable(e, n, k), NEW f, FreshTable(f, k, m),
         NEW new \in Merges(e, f)
  PROVE  FreshTable(new, n, m)
BY MergeEntries DEF FreshTable
-----------------------------------------------------------------------------
(* Lemmas about steps *)

(* Every call takes the table one TableStep further. *)
LEMMA NextTakesTableStep ==
  ASSUME TableInv, Next
  PROVE  TableStep(bindings', next_inode')
<1> USE DEF Commit
<1>u. CASE UNCHANGED <<bindings, next_inode>>
  BY <1>u, KeptTable DEF TableInv
<1>r. ASSUME NEW p \in Path, NEW q \in Path, NEW m, NEW c, Rebuild(c, m, p, q)
      PROVE  TableStep(bindings', next_inode')
  <2>1. Canon[p] \in Node
    BY <1>r, TreeAssumption DEF Rebuild, Accepted
  <2>2. PICK w \in Walks(Canon[p], next_inode) :
           Commit(Extend(OnlyRoot(bindings), w.ents), w.next)
    BY <1>r DEF Rebuild
  <2> QED BY <2>1, <2>2, WalkIsFresh, ReplacedTable DEF TableInv
<1>b. ASSUME NEW p \in Path, NEW q \in Path, BindBefore(p, q)
      PROVE  TableStep(bindings', next_inode')
  <2>1. Canon[p] \in Node /\ Canon[q] \in Node
    BY <1>b, TreeAssumption DEF BindBefore, Accepted
  <2>2. PICK w \in Walks(Canon[p], next_inode) :
           \/ Commit(bindings, w.next)
           \/ \E v \in Walks(Canon[q], w.next) :
                 \/ Commit(bindings, v.next)
                 \/ \E new \in Merges(w.ents, v.ents) : Commit(Extend(bindings, new), v.next)
    BY <1>b DEF BindBefore
  <2>3. w.next \in Nat /\ next_inode <= w.next /\ FreshTable(w.ents, next_inode, w.next)
    BY <2>1, WalkIsFresh DEF TableInv
  <2>4. CASE Commit(bindings, w.next)
    BY <2>3, <2>4, KeptTable
  <2>5. ASSUME NEW v \in Walks(Canon[q], w.next)
        PROVE  v.next \in Nat /\ next_inode <= v.next /\ w.next <= v.next
               /\ FreshTable(v.ents, w.next, v.next)
    BY <2>1, <2>3, WalkIsFresh DEF TableInv
  <2>6. ASSUME NEW v \in Walks(Canon[q], w.next), Commit(bindings, v.next)
        PROVE  TableStep(bindings', next_inode')
    BY <2>5, <2>6, KeptTable
  <2>7. ASSUME NEW v \in Walks(Canon[q], w.next), NEW new \in Merges(w.ents, v.ents),
               Commit(Extend(bindings, new), v.next)
        PROVE  TableStep(bindings', next_inode')
    <3>1. FreshTable(new, next_inode, v.next)
      BY <2>3, <2>5, MergeIsFresh DEF TableInv
    <3> QED BY <2>5, <2>7, <3>1, GrownTable
  <2> QED BY <2>2, <2>4, <2>6, <2>7
<1>a. ASSUME NEW p \in Path, NEW q \in Path, BindAfter(p, q)
      PROVE  TableStep(bindings', next_inode')
  <2>1. Canon[p] \in Node /\ Canon[q] \in Node
    BY <1>a, TreeAssumption DEF BindAfter, Accepted
  <2>2. PICK v \in Walks(Canon[q], next_inode) :
           \/ Commit(bindings, v.next)
           \/ \E w \in Walks(Canon[p], v.next) :
                 \/ Commit(Extend(bindings, v.ents), w.next)
                 \/ \E new \in Merges(Extend(bindings, v.ents), w.ents) : Commit(new, w.next)
    BY <1>a DEF BindAfter
  <2>3. v.next \in Nat /\ next_inode <= v.next /\ FreshTable(v.ents, next_inode, v.next)
    BY <2>1, WalkIsFresh DEF TableInv
  <2>4. CASE Commit(bindings, v.next)
    BY <2>3, <2>4, KeptTable
  <2>5. ASSUME NEW w \in Walks(Canon[p], v.next)
        PROVE  w.next \in Nat /\ next_inode <= w.next /\ v.next <= w.next
               /\ FreshTable(w.ents, v.next, w.next)
    BY <2>1, <2>3, WalkIsFresh DEF TableInv
  <2>6. ASSUME NEW w \in Walks(Canon[p], v.next), Commit(Extend(bindings, v.ents), w.next)
        PROVE  TableStep(bindings', next_inode')
    <3>1. FreshTable(v.ents, next_inode, w.next)
      BY <2>3, <2>5 DEF FreshTable, TableInv
    <3> QED BY <2>5, <2>6, <3>1, GrownTable
  <2>7. ASSUME NEW w \in Walks(Canon[p], v.next),
               NEW new \in Merges(Extend(bindings, v.ents), w.ents), Commit(new, w.next)
        PROVE  TableStep(bindings', next_inode')
    BY <2>3, <2>5, <2>7, FilledTable
  <2> QED BY <2>2, <2>4, <2>6, <2>7
<1>c. ASSUME NEW p \in Path, NEW q \in Path, BindCreate(p, q)
      PROVE  TableStep(bindings', next_inode')
  <2>1. Canon[p] \in Node
    BY <1>c, TreeAssumption DEF BindCreate, Accepted
  <2>2. PICK w \in Walks(Canon[p], next_inode) :
           \/ Commit(OnlyRoot(bindings), w.next)
           \/ Commit(Extend(OnlyRoot(bindings), ReadOnly(w.ents)), w.next)
    BY <1>c DEF BindCreate
  <2>3. w.next \in Nat /\ next_inode <= w.next /\ FreshTable(w.ents, next_inode, w.next)
    BY <2>1, WalkIsFresh DEF TableInv
  <2> QED BY <2>2, <2>3, KeptTable, CreatedTable
<1> QED
  BY <1>u, <1>r, <1>b, <1>a, <1>c
  DEF Next, Unresolved, Vanished, BindReplace, Mount, UnmountUnresolved, UnmountAll,
      UnmountSource

(* The invariants of the table follow from TableStep. *)
LEMMA TableStepKeepsInv ==
  ASSUME TableInv, ReadOnlyEntriesAreOldest, TableStep(bindings', next_inode')
  PROVE  TableInv' /\ ReadOnlyEntriesAreOldest'
<1>1. TableInv'
  BY DEF TableInv, TableStep, InodesBelowNext, ROOT_INODE, INITIAL_INODE
<1>2. ReadOnlyEntriesAreOldest'
  <2> SUFFICES ASSUME NEW i \in DOMAIN bindings' \ {ROOT_INODE},
                      NEW j \in DOMAIN bindings' \ {ROOT_INODE},
                      bindings'[i].ro, ~ bindings'[j].ro
               PROVE  i < j
    BY DEF ReadOnlyEntriesAreOldest
  <2>1. i < next_inode
    BY DEF TableInv, TableStep
  <2>2. i \in DOMAIN bindings \ {ROOT_INODE} /\ bindings[i].ro
    BY <2>1 DEF TableStep
  <2>3. CASE j < next_inode
    <3>1. j \in DOMAIN bindings \ {ROOT_INODE} /\ ~ bindings[j].ro
      BY <2>3 DEF TableStep
    <3> QED BY <2>2, <3>1 DEF ReadOnlyEntriesAreOldest
  <2>4. CASE next_inode <= j
    BY <2>1, <2>4 DEF TableInv, TableStep
  <2> QED BY <2>3, <2>4 DEF TableInv, TableStep
<1> QED BY <1>1, <1>2

(* Pushing an entry keeps every vector typed, non-empty and in its place. *)
LEMMA PushKeepsInv ==
  ASSUME NamespaceInv, NEW p \in Path, NEW q \in Path, NEW m \in BindMode,
         Canon[p] # NoNode, Canon[q] # NoNode, Push(p, q, m)
  PROVE  NamespaceInv'
<1> DEFINE entry == [source |-> Canon[p], target |-> Canon[q], bind_mode |-> m]
           old == EntriesAt(Canon[q])
<1>1. Canon[q] \in Node /\ entry \in NamespaceEntry
  BY TreeAssumption DEF NamespaceEntry
<1>2. old \in Seq(NamespaceEntry) /\ \A k \in DOMAIN old : old[k].target = Canon[q]
  BY DEF EntriesAt, NamespaceInv, NamespaceVectorsInUse, ToSet
<1>3. /\ DOMAIN namespace' = DOMAIN namespace \cup {Canon[q]}
      /\ \A t \in DOMAIN namespace' :
            namespace'[t] = IF t = Canon[q] THEN Append(old, entry) ELSE namespace[t]
  BY DEF Push, EntriesAt
<1>4. entry.target = Canon[q]
  OBVIOUS
<1> HIDE DEF entry, old
<1> DEFINE long == Append(old, entry)
<1>5. /\ long \in Seq(NamespaceEntry)
      /\ long # << >>
      /\ \A k \in DOMAIN long : long[k].target = Canon[q]
  BY <1>1, <1>2, <1>4
<1> HIDE DEF long
<1>6. /\ DOMAIN namespace' \subseteq Node
      /\ \A t \in DOMAIN namespace' : namespace'[t] \in Seq(NamespaceEntry)
  BY <1>1, <1>3, <1>5 DEF NamespaceInv, long
<1>7. ASSUME NEW t \in DOMAIN namespace'
      PROVE  namespace'[t] # << >> /\ \A e \in ToSet(namespace'[t]) : e.target = t
  <2>1. CASE t = Canon[q]
    <3>1. namespace'[t] = long
      BY <1>3, <2>1 DEF long
    <3>2. \A e \in ToSet(long) : e.target = t
      BY <1>5, <2>1 DEF ToSet
    <3> QED BY <1>5, <3>1, <3>2
  <2>2. CASE t # Canon[q]
    BY <1>3, <2>2 DEF NamespaceInv, NamespaceVectorsInUse
  <2> QED BY <2>1, <2>2
<1> QED BY <1>6, <1>7 DEF NamespaceInv, NamespaceVectorsInUse

(* Removing a target keeps the other vectors. *)
LEMMA DropKeepsInv ==
  ASSUME NamespaceInv, NEW t, Drop(t)
  PROVE  NamespaceInv'
<1>1. /\ DOMAIN namespace' = DOMAIN namespace \ {t}
      /\ \A u \in DOMAIN namespace' : namespace'[u] = namespace[u]
  BY DEF Drop, Restrict
<1>2. DOMAIN namespace' \subseteq Node
      /\ \A u \in DOMAIN namespace' : namespace'[u] \in Seq(NamespaceEntry)
  BY <1>1 DEF NamespaceInv
<1>3. NamespaceVectorsInUse'
  BY <1>1 DEF NamespaceInv, NamespaceVectorsInUse, ToSet
<1> QED BY <1>2, <1>3 DEF NamespaceInv

(* What retain keeps is a non-empty vector of entries that were there. *)
LEMMA RetainedIsPart ==
  ASSUME NEW S, NEW s \in Seq(S), NEW I \in SUBSET DOMAIN s, I # {},
         NEW kept \in Retained(s, I)
  PROVE  kept \in Seq(S) /\ kept # << >> /\ ToSet(kept) \subseteq ToSet(s)
<1>1. IsFiniteSet(I)
  <2>1. IsFiniteSet(1 .. Len(s))
    BY FS_Interval
  <2> QED BY <2>1, FS_Subset
<1>2. Cardinality(I) \in Nat /\ Cardinality(I) # 0
  BY <1>1, FS_CardinalityType, FS_EmptySet
<1>3. PICK f \in [1 .. Cardinality(I) -> I] : kept = [k \in 1 .. Cardinality(I) |-> s[f[k]]]
  BY DEF Retained
<1>4. \A k \in 1 .. Cardinality(I) : s[f[k]] \in S /\ s[f[k]] \in ToSet(s)
  BY <1>3 DEF ToSet
<1>5. kept \in Seq(S)
  BY <1>2, <1>3, <1>4
<1> QED BY <1>2, <1>3, <1>4, <1>5 DEF ToSet

(* Every call keeps the namespace in order. *)
LEMMA NextKeepsNamespaceInv ==
  ASSUME NamespaceInv, Next
  PROVE  NamespaceInv'
<1>u. CASE UNCHANGED namespace
  BY <1>u DEF NamespaceInv, NamespaceVectorsInUse
<1>p. ASSUME NEW p \in Path, NEW q \in Path, NEW m \in BindMode, Accepted(p, q), Push(p, q, m)
      PROVE  NamespaceInv'
  BY <1>p, PushKeepsInv DEF Accepted
<1>s. ASSUME NEW p \in Path, NEW q \in Path, UnmountSource(p, q)
      PROVE  NamespaceInv'
  <2> DEFINE t == Canon[q]
             others == {k \in DOMAIN EntriesAt(t) : EntriesAt(t)[k].source # Canon[p]}
  <2>1. \/ UNCHANGED namespace
        \/ Drop(t)
        \/ /\ t \in DOMAIN namespace
           /\ others # {}
           /\ \E kept \in Retained(namespace[t], others) :
                 namespace' = [namespace EXCEPT ![t] = kept]
    BY <1>s DEF UnmountSource
  <2>2. ASSUME t \in DOMAIN namespace, others # {},
               NEW kept \in Retained(namespace[t], others),
               namespace' = [namespace EXCEPT ![t] = kept]
        PROVE  NamespaceInv'
    <3>1. others \in SUBSET DOMAIN namespace[t] /\ namespace[t] \in Seq(NamespaceEntry)
      BY <2>2 DEF EntriesAt, NamespaceInv
    <3> HIDE DEF others
    <3>2. /\ kept \in Seq(NamespaceEntry)
          /\ kept # << >>
          /\ ToSet(kept) \subseteq ToSet(namespace[t])
      BY <2>2, <3>1, RetainedIsPart
    <3> QED BY <2>2, <3>2 DEF NamespaceInv, NamespaceVectorsInUse
  <2> QED BY <1>u, <2>1, <2>2, DropKeepsInv
<1>d. ASSUME NEW q \in Path, UnmountAll(q)
      PROVE  NamespaceInv'
  BY <1>d, DropKeepsInv DEF UnmountAll
<1>n. ASSUME NEW p \in Path, NEW q \in Path,
             \/ BindReplace(p, q) \/ BindBefore(p, q) \/ BindAfter(p, q)
             \/ BindCreate(p, q) \/ Mount(p, q)
             \/ \E m \in BindMode : Vanished("bind", m, p, q)
             \/ Vanished("mount", "Before", p, q)
      PROVE  NamespaceInv'
  <2>1. \E m \in BindMode : Accepted(p, q) /\ Push(p, q, m)
    BY <1>n DEF Vanished, BindReplace, BindBefore, BindAfter, BindCreate, Mount, Rebuild, BindMode
  <2> QED BY <2>1, <1>p
<1> QED BY <1>u, <1>s, <1>d, <1>n DEF Next, Unresolved, UnmountUnresolved

(* A call reports nodes that exist or NoNode, and an answer that is a Boolean. *)
LEMMA NextKeepsReturn ==
  ASSUME TableInv, Next
  PROVE  ret' \in Return
<1>1. ASSUME NEW p \in Path, NEW q \in Path, NEW c \in {"bind", "mount", "unmount"},
             NEW m \in BindMode \cup {"-"}, NEW b \in BOOLEAN, Returns(c, m, p, q, b)
      PROVE  ret' \in Return
  BY <1>1, TreeAssumption DEF Returns, Return
<1>2. ASSUME NEW p \in Path, NEW q \in Path, NEW c \in {"bind", "mount"}, NEW m \in BindMode,
             Rebuild(c, m, p, q)
      PROVE  ret' \in Return
  <2>1. Returns(c, m, p, q, TRUE) \/ Returns(c, m, p, q, FALSE)
    BY <1>2 DEF Rebuild, Completes
  <2> QED BY <1>1, <2>1
<1>3. "Replace" \in BindMode /\ "Before" \in BindMode /\ "After" \in BindMode
      /\ "Create" \in BindMode
  BY DEF BindMode
<1>4. ASSUME NEW q \in Path, UnmountUnresolved(q) \/ UnmountAll(q)
      PROVE  ret' \in Return
  <2>1. Canon[q] \in Node \cup {NoNode}
    BY TreeAssumption
  <2>2. CASE UnmountUnresolved(q)
    BY <2>2 DEF UnmountUnresolved, Return
  <2>3. CASE UnmountAll(q)
    BY <2>1, <2>3 DEF UnmountAll, Return
  <2> QED BY <1>4, <2>2, <2>3
<1>5. ASSUME NEW p \in Path, NEW q \in Path,
             BindBefore(p, q) \/ BindAfter(p, q) \/ BindCreate(p, q) \/ UnmountSource(p, q)
      PROVE  ret' \in Return
  <2>1. PICK c \in {"bind", "unmount"}, m \in BindMode \cup {"-"}, b \in BOOLEAN :
           Returns(c, m, p, q, b)
    BY <1>3, <1>5 DEF BindBefore, BindAfter, BindCreate, UnmountSource, Completes
  <2> QED BY <1>1, <2>1
<1> QED
  BY <1>1, <1>2, <1>3, <1>4, <1>5 DEF Next, Unresolved, Vanished, BindReplace, Mount
-----------------------------------------------------------------------------
(* The inductive invariant: the parts that the runs check, together.       *)
IInv ==
  /\ TypeOK
  /\ InodesBelowNext
  /\ ReadOnlyEntriesAreOldest
  /\ NamespaceVectorsInUse

(* The invariant holds at first.                                           *)
LEMMA InitEstablishesIInv == Init => IInv
<1> SUFFICES ASSUME Init PROVE IInv
  OBVIOUS
<1>1. DOMAIN namespace = {}
  BY DEF Init
<1>2. DOMAIN bindings = {ROOT_INODE} /\ bindings[ROOT_INODE] = RootEntry
  BY DEF Init
<1>3. RootEntry \in BoundEntry /\ ROOT_INODE \in Nat /\ INITIAL_INODE \in Nat
  BY DEF RootEntry, BoundEntry, ROOT_INODE, INITIAL_INODE
<1>4. ret \in Return
  BY DEF Init, Return
<1> QED
  BY <1>1, <1>2, <1>3, <1>4
  DEF Init, IInv, TypeOK, InodesBelowNext, ReadOnlyEntriesAreOldest, NamespaceVectorsInUse

(* The invariant is inductive.                                             *)
LEMMA NextKeepsIInv == IInv /\ [Next]_vars => IInv'
<1> SUFFICES ASSUME IInv, [Next]_vars PROVE IInv'
  OBVIOUS
<1>1. TableInv /\ NamespaceInv
  BY DEF IInv, TypeOK, TableInv, NamespaceInv
<1>2. CASE Next
  <2>1. TableInv' /\ ReadOnlyEntriesAreOldest'
    BY <1>1, <1>2, NextTakesTableStep, TableStepKeepsInv DEF IInv
  <2>2. NamespaceInv'
    BY <1>1, <1>2, NextKeepsNamespaceInv
  <2>3. ret' \in Return
    BY <1>1, <1>2, NextKeepsReturn
  <2> QED BY <2>1, <2>2, <2>3 DEF IInv, TypeOK, TableInv, NamespaceInv
<1>3. CASE UNCHANGED vars
  BY <1>3 DEF vars, IInv, TypeOK, InodesBelowNext, ReadOnlyEntriesAreOldest,
              NamespaceVectorsInUse
<1> QED BY <1>2, <1>3

(* The invariant holds of every behaviour.                                 *)
LEMMA Invariance == Spec => []IInv
BY InitEstablishesIInv, NextKeepsIInv, PTL DEF Spec
-----------------------------------------------------------------------------
(* The tables keep their types, whatever sequence of binds, mounts and     *)
(* unmounts is called and however the walks of the host fail (mount.rs).   *)
THEOREM TypeCorrect == Spec => []TypeOK
BY Invariance, PTL DEF IInv

(* The root stays in bindings and next_inode stays above every number in   *)
(* use: a failed walk keeps the numbers it took.                           *)
THEOREM InodesStayBelowNext == Spec => []InodesBelowNext
BY Invariance, PTL DEF IInv

(* Entries that Create made read-only are older than all writable ones:    *)
(* no call clears one kind and keeps the other.                            *)
THEOREM ReadOnlyEntriesStayOldest == Spec => []ReadOnlyEntriesAreOldest
BY Invariance, PTL DEF IInv

(* Neither bind nor unmount leaves an empty vector or an entry under a     *)
(* target that is not its own.                                             *)
THEOREM NamespaceVectorsStayInUse == Spec => []NamespaceVectorsInUse
BY Invariance, PTL DEF IInv

(* The numbers issued grow with next_inode. *)
LEMMA IntervalGrows ==
  ASSUME NEW a \in Nat, NEW b \in Nat, a <= b
  PROVE  1 .. (a - 1) \subseteq 1 .. (b - 1)
OBVIOUS

(* FilesystemManager implements InodeTable: an inode number that was once  *)
(* handed out names the same file or nothing ever after.                   *)
THEOREM ImplementsInodeTable == Spec => InodesNeverReused
<1> USE DEF ROOT_INODE, INITIAL_INODE
<1>1. Init => Table!Init
  BY DEF Init, Table!Init
<1>2. IInv /\ [Next]_vars => [Table!Next]_(Table!vars)
  <2> SUFFICES ASSUME IInv, [Next]_vars PROVE [Table!Next]_(Table!vars)
    OBVIOUS
  <2>1. TableInv
    BY DEF IInv, TypeOK, TableInv
  <2>2. CASE Next
    <3>1. TableStep(bindings', next_inode')
      BY <2>1, <2>2, NextTakesTableStep
    <3>2. TableInv'
      BY <2>1, <3>1, TableStepKeepsInv DEF IInv
    <3>3. next_inode \in Nat /\ next_inode' \in Nat /\ next_inode <= next_inode'
      BY <2>1, <3>1 DEF TableInv, TableStep
    <3>4. 1 .. (next_inode - 1) \subseteq 1 .. (next_inode' - 1)
      BY <3>3, IntervalGrows
    <3>5. DOMAIN bindings' \subseteq 1 .. next_inode' - 1 /\ ROOT_INODE \in DOMAIN bindings'
      BY <3>2 DEF TableInv, InodesBelowNext
    <3>6. \A i \in DOMAIN bindings' \cap (1 .. next_inode - 1) :
             i \in DOMAIN bindings /\ bindings'[i] = bindings[i]
      BY <2>1, <3>1 DEF TableInv, TableStep
    <3>7. Table!Update
      BY <3>4, <3>5, <3>6 DEF Table!Update
    <3> QED BY <3>7 DEF Table!Next
  <2>3. CASE UNCHANGED vars
    BY <2>3 DEF vars, Table!vars
  <2> QED BY <2>2, <2>3
<1> QED BY <1>1, <1>2, Invariance, PTL DEF Spec, InodesNeverReused, Table!Spec
=============================================================================
