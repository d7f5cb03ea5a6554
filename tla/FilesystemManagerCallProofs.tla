--------------------- MODULE FilesystemManagerCallProofs ---------------------
(***************************************************************************)
(* What a call makes of the table and of the namespace, for every host     *)
(* tree, order of listing and point of failure.                            *)
(*                                                                         *)
(* A breadth-first walk meets everything below a directory once, and no    *)
(* file before the directory it is in; that follows from IsListing and     *)
(* from the host's files being a finite forest.  What each mode makes of   *)
(* the table follows from what the walks give it.                          *)
(***************************************************************************)
EXTENDS FilesystemManagerProofs

(* e is what a walk of d that starts at inode n and ends before m leaves,  *)
(* whether it reads everything or fails.                                   *)
WalkedTable(e, d, n, m) ==
  /\ \A i \in DOMAIN e :
        /\ i \in n .. m - 1
        /\ e[i] \in BoundEntry
        /\ e[i].node \in Below[d]
        /\ e[i].name = NameOf[e[i].node]
        /\ ~ e[i].ro
        /\ \/ e[i].node \in Children[d]
           \/ \E j \in DOMAIN e : j < i /\ e[i].node \in Children[e[j].node]
  /\ \A i, j \in DOMAIN e : e[j].node \in Children[e[i].node] => i < j
  /\ \A i, j \in DOMAIN e : e[i].node = e[j].node => i = j

(* Nothing below d is missing in e. *)
WholeTable(e, d) == \A b \in Below[d] : \E i \in DOMAIN e : e[i].node = b
-----------------------------------------------------------------------------
(* Lemmas about the host's forest *)

(* Going upwards in a set of files leads out of it. *)
LEMMA HasTop ==
  ASSUME NEW X \in SUBSET Node, X # {}
  PROVE  \E x \in X : \A y \in X : x \notin Children[y]
<1> SUFFICES ASSUME \A x \in X : \E y \in X : x \in Children[y]
             PROVE  FALSE
  OBVIOUS
<1> DEFINE Rootless == {M \in SUBSET Node : M # {} /\ \A x \in M : \E y \in M : x \in Children[y]}
<1>1. X \in Rootless
  OBVIOUS
<1>2. IsWellFoundedOn(StrictSubsetOrdering(Node), SUBSET Node)
  <2>1. FiniteSubsetsOf(Node) = SUBSET Node
    BY TreeAssumption, FS_FiniteSubsetsOfFinite
  <2>2. IsWellFoundedOn(StrictSubsetOrdering(Node), FiniteSubsetsOf(Node))
    BY FS_StrictSubsetOrderingWellFounded
  <2> QED BY <2>1, <2>2
<1>3. \E M \in Rootless : \A L \in Rootless : ~ (<<L, M>> \in StrictSubsetOrdering(Node))
  <2> HIDE DEF Rootless
  <2>1. Rootless \subseteq SUBSET Node
    BY DEF Rootless
  <2> QED BY <1>1, <1>2, <2>1, WFMin
<1>4. PICK M \in Rootless : \A L \in Rootless : ~ (<<L, M>> \in StrictSubsetOrdering(Node))
  BY <1>3
<1> DEFINE L == {y \in M : \E x \in M : x \in Children[y]}
<1>5. L \in Rootless
  OBVIOUS
<1>6. L = M
  <2>1. <<L, M>> \notin StrictSubsetOrdering(Node)
    BY <1>4, <1>5
  <2>2. L \in SUBSET Node /\ M \in SUBSET Node /\ L \subseteq M
    OBVIOUS
  <2> HIDE DEF L
  <2> QED BY <2>1, <2>2 DEF StrictSubsetOrdering
<1>7. \A n \in M : Children[n] \cap M # {}
  BY <1>6
<1>8. M \in (SUBSET Node) \ {{}}
  OBVIOUS
<1> HIDE DEF L, Rootless
<1> QED BY <1>7, <1>8, TreeAssumption

(* Below[d] is the smallest set that holds the entries of d and those of   *)
(* its own members.                                                        *)
LEMMA BelowIsClosed ==
  ASSUME NEW d \in Node
  PROVE  /\ Below[d] \subseteq Node
         /\ Children[d] \subseteq Below[d]
         /\ \A e \in Below[d] : Children[e] \subseteq Below[d]
         /\ \A S \in SUBSET Node :
              (Children[d] \subseteq S /\ \A e \in S : Children[e] \subseteq S) => Below[d] \subseteq S
<1>1. Below[d] = {n \in Node : \A S \in SUBSET Node :
                    (Children[d] \subseteq S /\ \A e \in S : Children[e] \subseteq S) => n \in S}
  BY DEF Below
<1>2. \A e \in Node : Children[e] \subseteq Node
  BY TreeAssumption
<1> QED BY <1>1, <1>2

(* A listing holds what is below its directory, once, each file after the  *)
(* directory it is in.                                                     *)
LEMMA ListingIsWalk ==
  ASSUME NEW d \in Node, NEW s \in Listings[d]
  PROVE  /\ s \in Seq(Node) /\ Len(s) \in Nat /\ DOMAIN s = 1 .. Len(s)
         /\ ToSet(s) = Below[d]
         /\ \A i, k \in DOMAIN s : s[i] = s[k] => i = k
         /\ \A i, k \in DOMAIN s : s[k] \in Children[s[i]] => i < k
         /\ \A k \in DOMAIN s :
              s[k] \in Children[d] \/ \E i \in DOMAIN s : s[k] \in Children[s[i]]
<1> DEFINE queue == <<d>> \o s
<1>1. s \in Seq(Node) /\ Len(s) \in Nat /\ DOMAIN s = 1 .. Len(s)
  BY ListingIsSequence
<1>2. /\ DOMAIN queue = 1 .. Len(s) + 1 /\ queue[1] = d
      /\ \A k \in 1 .. Len(s) : queue[k + 1] = s[k]
  BY <1>1
<1>3. /\ ToSet(s) = UNION {Children[queue[j]] : j \in DOMAIN queue}
      /\ \A i, k \in DOMAIN s, j, l \in DOMAIN queue :
            i < k /\ s[i] \in Children[queue[j]] /\ s[k] \in Children[queue[l]] => j <= l
  BY DEF Listings, IsListing
<1> HIDE DEF queue
<1>4. \A j \in DOMAIN queue : j = 1 \/ (j - 1 \in DOMAIN s /\ queue[j] = s[j - 1])
  BY <1>1, <1>2
<1>5. ToSet(s) \subseteq Node /\ \A k \in DOMAIN s : s[k] \in ToSet(s)
  BY <1>1 DEF ToSet
<1>6. ASSUME NEW x \in ToSet(s)
      PROVE  \E j \in DOMAIN queue : x \in Children[queue[j]]
  BY <1>3
<1>7. \A i, k \in DOMAIN s : s[i] = s[k] => i = k
  <2>1. PICK S \in SUBSET Entries : s \in SetToSeqs(S)
    BY DEF Listings, SetToAllKPermutations
  <2> QED BY <2>1 DEF SetToSeqs, IsInjective
<1>8. Below[d] \subseteq ToSet(s)
  <2>1. Children[d] \subseteq ToSet(s)
    BY <1>1, <1>2, <1>3
  <2>2. ASSUME NEW e \in ToSet(s) PROVE Children[e] \subseteq ToSet(s)
    <3>1. PICK k \in DOMAIN s : e = s[k]
      BY DEF ToSet
    <3>2. k + 1 \in DOMAIN queue /\ queue[k + 1] = e
      BY <1>1, <1>2, <3>1
    <3> QED BY <1>3, <3>2
  <2> QED BY <1>5, <2>1, <2>2, BelowIsClosed
<1>9. ToSet(s) \subseteq Below[d]
  <2> DEFINE X == ToSet(s) \ Below[d]
  <2> SUFFICES ASSUME X # {} PROVE FALSE
    OBVIOUS
  <2>1. PICK x \in X : \A y \in X : x \notin Children[y]
    <3> HIDE DEF X
    <3>1. X \in SUBSET Node
      BY <1>5 DEF X
    <3> QED BY <3>1, HasTop
  <2>2. PICK j \in DOMAIN queue : x \in Children[queue[j]]
    BY <1>6
  <2>3. CASE j = 1
    BY <1>2, <2>2, <2>3, BelowIsClosed
  <2>4. CASE j - 1 \in DOMAIN s /\ queue[j] = s[j - 1]
    BY <1>5, <2>1, <2>2, <2>4, BelowIsClosed
  <2> QED BY <1>4, <2>3, <2>4
<1>10. ASSUME NEW i \in DOMAIN s, NEW k \in DOMAIN s, s[k] \in Children[s[i]], ~ (i < k)
       PROVE  FALSE
  <2> DEFINE X == {s[m] : m \in k .. Len(s)}
  <2>1. X \in SUBSET Node /\ X # {}
    BY <1>1
  <2>2. PICK x \in X : \A y \in X : x \notin Children[y]
    <3> HIDE DEF X
    <3> QED BY <2>1, HasTop
  <2>3. PICK m \in k .. Len(s) : x = s[m]
    OBVIOUS
  <2>4. s[i] \in X
    BY <1>1, <1>10
  <2>5. m \in DOMAIN s /\ m # k /\ k < m
    BY <1>1, <1>10, <2>2, <2>3, <2>4
  <2>6. PICK l \in DOMAIN queue : x \in Children[queue[l]]
    BY <1>5, <1>6, <2>3, <2>5
  <2>7. i + 1 \in DOMAIN queue /\ queue[i + 1] = s[i]
    BY <1>1, <1>2
  <2>8. i + 1 <= l
    BY <1>3, <1>10, <2>3, <2>5, <2>6, <2>7
  <2>9. l - 1 \in k .. Len(s) /\ queue[l] = s[l - 1]
    BY <1>1, <1>2, <1>4, <1>10, <2>8
  <2> QED BY <2>2, <2>6, <2>9
<1>11. ASSUME NEW k \in DOMAIN s
       PROVE  s[k] \in Children[d] \/ \E i \in DOMAIN s : s[k] \in Children[s[i]]
  <2>1. PICK j \in DOMAIN queue : s[k] \in Children[queue[j]]
    BY <1>5, <1>6
  <2> QED BY <1>2, <1>4, <2>1
<1> QED BY <1>1, <1>7, <1>8, <1>9, <1>10, <1>11
-----------------------------------------------------------------------------
(* Lemmas about walks and merges *)

(* The first k entries of a listing are a WalkedTable, all of them a whole *)
(* one.                                                                    *)
LEMMA NumberedPart ==
  ASSUME NEW d \in Node, NEW s \in Listings[d], NEW n \in Nat, NEW m \in Nat,
         NEW k \in 0 .. Len(s), n + k <= m
  PROVE  /\ WalkedTable(Numbered(s, k, n), d, n, m)
         /\ k = Len(s) => WholeTable(Numbered(s, k, n), d)
<1> DEFINE e == Numbered(s, k, n)
<1>1. /\ s \in Seq(Node) /\ Len(s) \in Nat /\ DOMAIN s = 1 .. Len(s)
      /\ ToSet(s) = Below[d]
      /\ \A i, l \in DOMAIN s : s[i] = s[l] => i = l
      /\ \A i, l \in DOMAIN s : s[l] \in Children[s[i]] => i < l
      /\ \A l \in DOMAIN s : s[l] \in Children[d] \/ \E i \in DOMAIN s : s[l] \in Children[s[i]]
  BY ListingIsWalk
<1>2. /\ DOMAIN e = n .. n + k - 1
      /\ \A i \in DOMAIN e : e[i] = [name |-> NameOf[s[i - n + 1]], node |-> s[i - n + 1], ro |-> FALSE]
  BY DEF Numbered
<1> HIDE DEF e
<1>3. /\ \A i \in DOMAIN e : /\ i \in Nat /\ i - n + 1 \in DOMAIN s /\ e[i].node = s[i - n + 1]
                             /\ e[i].name = NameOf[e[i].node] /\ ~ e[i].ro
      /\ \A l \in 1 .. k : n + l - 1 \in DOMAIN e /\ e[n + l - 1].node = s[l]
  BY <1>1, <1>2
<1>4. ASSUME NEW i \in DOMAIN e
      PROVE  \/ e[i].node \in Children[d]
             \/ \E j \in DOMAIN e : j < i /\ e[i].node \in Children[e[j].node]
  <2>1. CASE e[i].node \notin Children[d]
    <3>1. PICK l \in DOMAIN s : s[i - n + 1] \in Children[s[l]]
      BY <1>1, <1>3, <2>1
    <3>2. l < i - n + 1 /\ l \in 1 .. k
      BY <1>1, <1>2, <1>3, <3>1
    <3>3. n + l - 1 \in DOMAIN e /\ n + l - 1 < i /\ e[n + l - 1].node = s[l]
      BY <1>1, <1>3, <3>2
    <3> QED BY <1>3, <3>1, <3>3
  <2> QED BY <2>1
<1>5. \A i \in DOMAIN e : e[i].node \in Below[d]
  BY <1>1, <1>3 DEF ToSet
<1>6. \A i, j \in DOMAIN e : e[j].node \in Children[e[i].node] => i < j
  <2> TAKE i, j \in DOMAIN e
  <2>1. i - n + 1 \in DOMAIN s /\ j - n + 1 \in DOMAIN s /\ i \in Nat /\ j \in Nat
    BY <1>3
  <2> QED BY <1>1, <1>3, <2>1
<1>7. \A i, j \in DOMAIN e : e[i].node = e[j].node => i = j
  <2> TAKE i, j \in DOMAIN e
  <2>1. i - n + 1 \in DOMAIN s /\ j - n + 1 \in DOMAIN s /\ i \in Nat /\ j \in Nat
    BY <1>3
  <2> QED BY <1>1, <1>3, <2>1
<1>8. \A i \in DOMAIN e : i \in n .. m - 1
  BY <1>1, <1>2
<1>9. WalkedTable(e, d, n, m)
  <2>1. \A i \in DOMAIN e : e[i] \in BoundEntry
    BY <1>1, NumberedIsFresh DEF FreshTable, e
  <2> QED BY <1>3, <1>4, <1>5, <1>6, <1>7, <1>8, <2>1 DEF WalkedTable
<1>10. k = Len(s) => WholeTable(e, d)
  <2> SUFFICES ASSUME k = Len(s), NEW b \in Below[d] PROVE \E i \in DOMAIN e : e[i].node = b
    BY DEF WholeTable
  <2>1. PICK l \in DOMAIN s : s[l] = b
    BY <1>1 DEF ToSet
  <2> QED BY <1>1, <1>3, <2>1
<1> QED BY <1>9, <1>10 DEF e

(* What a walk leaves, and what it leaves when it succeeds. *)
LEMMA WalkEntries ==
  ASSUME NEW d \in Node, NEW n \in Nat, NEW w \in Walks(d, n)
  PROVE  /\ w.next \in Nat /\ n <= w.next /\ w.ok \in BOOLEAN
         /\ WalkedTable(w.ents, d, n, w.next)
         /\ w.ok => WholeTable(w.ents, d)
<1>1. w.next \in Nat /\ n <= w.next /\ w.ok \in BOOLEAN
  BY WalkIsFresh
<1>2. ASSUME NEW s \in Listings[d] PROVE Len(s) \in Nat
  BY ListingIsSequence
<1>3. CASE w \in FullWalks(d, n)
  <2>1. PICK s \in Listings[d] :
           w = [ok |-> TRUE, ents |-> Numbered(s, Len(s), n), next |-> n + Len(s)]
    BY <1>3 DEF FullWalks
  <2>2. w.ents = Numbered(s, Len(s), n) /\ w.next = n + Len(s)
    BY <2>1
  <2> QED BY <1>1, <1>2, <2>2, NumberedPart
<1>4. CASE w \in BrokenWalks(d, n)
  <2>1. PICK s \in Listings[d] : \E k \in 0 .. Len(s) :
           w = [ok |-> FALSE, ents |-> Numbered(s, k, n), next |-> n + k]
    BY <1>4 DEF BrokenWalks
  <2>2. PICK k \in 0 .. Len(s) :
           w.ok = FALSE /\ w.ents = Numbered(s, k, n) /\ w.next = n + k
    BY <2>1
  <2> QED BY <1>1, <1>2, <2>2, NumberedPart
<1>5. CASE w \in UnreadFileWalks(d, n)
  <2>1. PICK s \in Listings[d] : \E k \in 0 .. Len(s) - 1 :
           w = [ok |-> FALSE, ents |-> Numbered(s, k, n), next |-> n + k + 1]
    BY <1>5 DEF UnreadFileWalks
  <2>2. PICK k \in 0 .. Len(s) - 1 :
           w.ok = FALSE /\ w.ents = Numbered(s, k, n) /\ w.next = n + k + 1
    BY <2>1
  <2>3. k \in 0 .. Len(s) /\ n + k <= w.next
    BY <1>2, <2>2
  <2> QED BY <1>1, <2>2, <2>3, NumberedPart
<1> QED BY <1>3, <1>4, <1>5 DEF Walks

(* S are the entries of extra that a merge adds to table: for every name   *)
(* that table lacks one.                                                   *)
Fills(S, extra, table) ==
  /\ S \subseteq DOMAIN extra
  /\ \A i \in S : extra[i].name \notin NamesIn(table)
  /\ \A i, j \in S : extra[i].name = extra[j].name => i = j
  /\ \A i \in DOMAIN extra :
       extra[i].name \in NamesIn(table) \/ \E j \in S : extra[j].name = extra[i].name

(* A merge fills the names that are missing.                               *)
LEMMA Merging ==
  ASSUME NEW table, NEW extra, NEW new \in Merges(table, extra)
  PROVE  \E S : Fills(S, extra, table) /\ new = Extend(table, Restrict(extra, S))
<1>1. PICK S \in SUBSET DOMAIN extra :
        /\ new = Extend(table, Restrict(extra, S))
        /\ {extra[i].name : i \in S} = NamesIn(extra) \ NamesIn(table)
        /\ \A i, j \in S : extra[i].name = extra[j].name => i = j
  BY DEF Merges
<1>2. Fills(S, extra, table)
  <2>1. ASSUME NEW i \in S PROVE extra[i].name \notin NamesIn(table)
    BY <1>1
  <2>2. ASSUME NEW i \in DOMAIN extra, extra[i].name \notin NamesIn(table)
        PROVE  \E j \in S : extra[j].name = extra[i].name
    <3>1. extra[i].name \in NamesIn(extra)
      BY DEF NamesIn
    <3> QED BY <1>1, <2>2, <3>1
  <2> QED BY <1>1, <2>1, <2>2 DEF Fills
<1> QED BY <1>1, <1>2
-----------------------------------------------------------------------------
(* unmount *)

(* retain keeps the order: what is last is the last of those that stay. *)
LEMMA RetainedKeepsLast ==
  ASSUME NEW S, NEW s \in Seq(S), NEW I \in SUBSET DOMAIN s, I # {},
         NEW kept \in Retained(s, I)
  PROVE  kept # << >> /\ \E k \in I : Last(kept) = s[k] /\ \A j \in I : j <= k
<1> DEFINE c == Cardinality(I)
<1>1. IsFiniteSet(I) /\ \A j \in I : j \in Nat
  <2>1. IsFiniteSet(1 .. Len(s))
    BY FS_Interval
  <2> QED BY <2>1, FS_Subset
<1>2. c \in Nat /\ c # 0
  BY <1>1, FS_CardinalityType, FS_EmptySet
<1>3. PICK f \in [1 .. c -> I] : /\ kept = [k \in 1 .. c |-> s[f[k]]]
                                 /\ \A j, k \in 1 .. c : j < k => f[j] < f[k]
  BY DEF Retained
<1> HIDE DEF c
<1>4. f \in Injection(1 .. c, I)
  <2>1. ASSUME NEW j \in 1 .. c, NEW k \in 1 .. c, f[j] = f[k] PROVE j = k
    <3>1. ~ (j < k) /\ ~ (k < j)
      BY <1>1, <1>3, <2>1
    <3> QED BY <1>2, <3>1
  <2> QED BY <1>3, <2>1 DEF Injection, IsInjective
<1>5. \A j \in I : \E k \in 1 .. c : f[k] = j
  <2>1. Cardinality(1 .. c) = c
    BY <1>2, FS_Interval
  <2>2. f \in Surjection(1 .. c, I)
    BY <1>1, <1>4, <2>1, FS_Injection DEF c
  <2> QED BY <2>2 DEF Surjection
<1>6. c \in 1 .. c /\ f[c] \in I
  BY <1>2, <1>3
<1>7. \A j \in I : j <= f[c]
  <2> TAKE j \in I
  <2>1. PICK k \in 1 .. c : f[k] = j
    BY <1>5
  <2>2. k = c \/ f[k] < f[c]
    BY <1>2, <1>3, <1>6
  <2> QED BY <1>1, <1>6, <2>1, <2>2
<1>8. Len(kept) = c /\ kept # << >> /\ kept[c] = s[f[c]]
  <2>1. \A k \in 1 .. c : s[f[k]] \in S
    BY <1>3
  <2>2. kept \in Seq(S) /\ DOMAIN kept = 1 .. c
    BY <1>2, <1>3, <2>1
  <2>3. Len(kept) = c
    BY <1>2, <2>2
  <2> QED BY <1>2, <1>3, <1>6, <2>3
<1> QED BY <1>6, <1>7, <1>8 DEF Last

(* Unmounting a source that does not win leaves the winner, and one that   *)
(* does is gone.                                                           *)
LEMMA UnmountKeepsWinner ==
  ASSUME IInv, Next, ret'.call = "unmount", ret'.ok, Resolved, NEW t \in Node, t = ret'.target
  PROVE  IF Resolve(t) = ret'.source
         THEN Resolve(t)' = ret'.source => ret'.source = t
         ELSE Resolve(t)' = Resolve(t)
<1>1. PICK p \in Path, q \in Path : UnmountSource(p, q)
  BY DEF Next, Unresolved, Vanished, BindReplace, BindBefore, BindAfter, BindCreate, Mount, Rebuild,
         UnmountUnresolved, UnmountAll, Returns, Completes, Resolved
<1> DEFINE old == EntriesAt(t)
           others == {k \in DOMAIN old : old[k].source # Canon[p]}
<1>2. /\ t = Canon[q] /\ ret'.source = Canon[p]
      /\ \/ t \notin DOMAIN namespace /\ UNCHANGED namespace
         \/ t \in DOMAIN namespace /\ others = {} /\ Drop(t)
         \/ /\ t \in DOMAIN namespace /\ others # {}
            /\ \E kept \in Retained(namespace[t], others) :
                 namespace' = [namespace EXCEPT ![t] = kept]
  BY <1>1 DEF UnmountSource, Returns
<1>3. CASE t \notin DOMAIN namespace /\ UNCHANGED namespace
  BY <1>2, <1>3 DEF Resolve, EntriesAt
<1>4. ASSUME t \in DOMAIN namespace
      PROVE  /\ old = namespace[t] /\ old \in Seq(NamespaceEntry) /\ old # << >>
             /\ Len(old) \in DOMAIN old /\ Len(old) \in Nat
             /\ Resolve(t) = old[Len(old)].source
  <2>1. old = namespace[t] /\ old \in Seq(NamespaceEntry) /\ old # << >>
    BY <1>4 DEF EntriesAt, IInv, TypeOK, NamespaceVectorsInUse
  <2>2. Len(old) \in Nat /\ Len(old) # 0 /\ DOMAIN old = 1 .. Len(old)
    <3> HIDE DEF old
    <3> QED BY <2>1
  <2> QED BY <2>1, <2>2 DEF Resolve, Last
<1>5. CASE t \in DOMAIN namespace /\ others = {} /\ Drop(t)
  <2>1. t \notin DOMAIN namespace'
    BY <1>5 DEF Drop, Restrict
  <2>2. Resolve(t)' = t
    BY <2>1 DEF Resolve, EntriesAt
  <2>3. Resolve(t) = Canon[p]
    BY <1>4, <1>5
  <2> QED BY <1>2, <2>2, <2>3
<1>6. ASSUME t \in DOMAIN namespace, others # {}, NEW kept \in Retained(namespace[t], others),
             namespace' = [namespace EXCEPT ![t] = kept]
      PROVE  IF Resolve(t) = ret'.source
             THEN Resolve(t)' = ret'.source => ret'.source = t
             ELSE Resolve(t)' = Resolve(t)
  <2>1. others \in SUBSET DOMAIN old
    OBVIOUS
  <2>2. PICK k \in others : kept # << >> /\ Last(kept) = old[k] /\ \A j \in others : j <= k
    <3> HIDE DEF others
    <3> QED BY <1>4, <1>6, <2>1, RetainedKeepsLast
  <2>3. Resolve(t)' = old[k].source
    BY <1>6, <2>2 DEF Resolve, EntriesAt
  <2>4. k \in DOMAIN old /\ old[k].source # Canon[p]
    OBVIOUS
  <2>5. CASE Resolve(t) = Canon[p]
    BY <1>2, <2>3, <2>4, <2>5
  <2>6. CASE Resolve(t) # Canon[p]
    <3>1. Len(old) \in others
      BY <1>4, <1>6, <2>6
    <3>2. k \in 1 .. Len(old) /\ Len(old) <= k
      BY <1>4, <1>6, <2>2, <2>4, <3>1
    <3>3. k = Len(old)
      BY <1>4, <1>6, <3>2
    <3> QED BY <1>2, <1>4, <1>6, <2>3, <2>6, <3>3
  <2> QED BY <2>5, <2>6
<1> QED BY <1>2, <1>3, <1>5, <1>6

(* Unmounting one source of a target never lets that source win there      *)
(* again, and leaves the winner alone when it is another one: the retain   *)
(* of unmount keeps the order of the entries that stay.                    *)
THEOREM UnmountingKeepsOtherWinner == Spec => UnmountKeepsOtherWinner
<1>1. IInv /\ [Next]_vars =>
        [ret'.call = "unmount" /\ ret'.ok /\ Resolved =>
           \A t \in Node : t = ret'.target =>
              IF Resolve(t) = ret'.source
              THEN Resolve(t)' = ret'.source => ret'.source = t
              ELSE Resolve(t)' = Resolve(t)]_vars
  BY UnmountKeepsWinner
<1> QED BY <1>1, Invariance, PTL DEF Spec, UnmountKeepsOtherWinner
-----------------------------------------------------------------------------
(* The namespace accounts for what is served *)

(* What is left when the table is cleared.                                 *)
LEMMA KeepingRoot ==
  ASSUME IInv
  PROVE  /\ DOMAIN OnlyRoot(bindings) = {ROOT_INODE} /\ ROOT_INODE \in DOMAIN bindings
         /\ OnlyRoot(bindings)[ROOT_INODE] = bindings[ROOT_INODE]
BY DEF IInv, InodesBelowNext, OnlyRoot, Restrict

(* What Create makes of the entries of its walk.                           *)
LEMMA MakingReadOnly ==
  ASSUME NEW e, NEW d, NEW n, NEW m, WalkedTable(e, d, n, m)
  PROVE  /\ DOMAIN ReadOnly(e) = DOMAIN e
         /\ \A i \in DOMAIN e : ReadOnly(e)[i].node = e[i].node /\ ReadOnly(e)[i].ro
BY DEF ReadOnly, WalkedTable, BoundEntry

(* What a call that is not an unmount serves was served before or comes    *)
(* from the two directories of the entry that it has pushed.               *)
LEMMA Origins ==
  ASSUME IInv, Next, ret'.call # "unmount"
  PROVE  \/ UNCHANGED <<namespace, bindings>>
         \/ \E p, q \in Path, m \in BindMode :
              /\ Canon[p] \in Node /\ Canon[q] \in Node /\ Push(p, q, m)
              /\ \A i \in DOMAIN bindings' :
                    \/ i \in DOMAIN bindings /\ bindings'[i] = bindings[i]
                    \/ bindings'[i].node \in Below[Canon[p]] \cup Below[Canon[q]]
<1>1. next_inode \in Nat
  BY DEF IInv, TypeOK
<1>2. \A p, q \in Path : Accepted(p, q) => Canon[p] \in Node /\ Canon[q] \in Node
  BY TreeAssumption DEF Accepted
<1>3. \A d \in Node, n \in Nat : \A w \in Walks(d, n) :
         w.next \in Nat /\ \A i \in DOMAIN w.ents : w.ents[i].node \in Below[d]
  BY WalkEntries DEF WalkedTable
<1>4. "Replace" \in BindMode /\ "Before" \in BindMode /\ "After" \in BindMode /\ "Create" \in BindMode
  BY DEF BindMode
<1> DEFINE From(p, q) == \A i \in DOMAIN bindings' :
                            \/ i \in DOMAIN bindings /\ bindings'[i] = bindings[i]
                            \/ bindings'[i].node \in Below[Canon[p]] \cup Below[Canon[q]]
<1>5. ASSUME NEW p \in Path, NEW q \in Path, NEW c, NEW m, Rebuild(c, m, p, q)
      PROVE  From(p, q)
  <2>1. PICK w \in Walks(Canon[p], next_inode) : bindings' = Extend(OnlyRoot(bindings), w.ents)
    BY <1>5 DEF Rebuild, Commit
  <2>2. \A i \in DOMAIN w.ents : w.ents[i].node \in Below[Canon[p]]
    BY <1>1, <1>2, <1>3, <1>5 DEF Rebuild
  <2>3. \A i \in DOMAIN bindings' :
           \/ i \in DOMAIN w.ents /\ bindings'[i] = w.ents[i]
           \/ i = ROOT_INODE /\ bindings'[i] = bindings[i]
    BY <2>1, KeepingRoot DEF Extend
  <2> QED BY <2>2, <2>3, KeepingRoot
<1>6. ASSUME NEW p \in Path, NEW q \in Path, BindBefore(p, q)
      PROVE  From(p, q)
  <2>1. PICK w \in Walks(Canon[p], next_inode) :
          \/ bindings' = bindings
          \/ \E v \in Walks(Canon[q], w.next) : \E new \in Merges(w.ents, v.ents) :
                bindings' = Extend(bindings, new)
    BY <1>6 DEF BindBefore, Commit
  <2>2. w.next \in Nat /\ \A i \in DOMAIN w.ents : w.ents[i].node \in Below[Canon[p]]
    BY <1>1, <1>2, <1>3, <1>6 DEF BindBefore
  <2>3. ASSUME NEW v \in Walks(Canon[q], w.next), NEW new \in Merges(w.ents, v.ents),
               bindings' = Extend(bindings, new)
        PROVE  From(p, q)
    <3>1. \A i \in DOMAIN v.ents : v.ents[i].node \in Below[Canon[q]]
      BY <1>2, <1>3, <1>6, <2>2 DEF BindBefore
    <3>2. \A i \in DOMAIN new : new[i].node \in Below[Canon[p]] \cup Below[Canon[q]]
      BY <2>2, <3>1, MergeEntries
    <3>3. \A i \in DOMAIN bindings' :
             \/ i \in DOMAIN new /\ bindings'[i] = new[i]
             \/ i \in DOMAIN bindings /\ bindings'[i] = bindings[i]
      BY <2>3 DEF Extend
    <3> QED BY <3>2, <3>3
  <2> QED BY <2>1, <2>3
<1>7. ASSUME NEW p \in Path, NEW q \in Path, BindAfter(p, q)
      PROVE  From(p, q)
  <2>1. PICK v \in Walks(Canon[q], next_inode) :
          \/ bindings' = bindings
          \/ \E w \in Walks(Canon[p], v.next) :
               \/ bindings' = Extend(bindings, v.ents)
               \/ bindings' \in Merges(Extend(bindings, v.ents), w.ents)
    BY <1>7 DEF BindAfter, Commit
  <2>2. v.next \in Nat /\ \A i \in DOMAIN v.ents : v.ents[i].node \in Below[Canon[q]]
    BY <1>1, <1>2, <1>3, <1>7 DEF BindAfter
  <2>5. \A i \in DOMAIN Extend(bindings, v.ents) :
           \/ i \in DOMAIN v.ents /\ Extend(bindings, v.ents)[i] = v.ents[i]
           \/ i \in DOMAIN bindings /\ Extend(bindings, v.ents)[i] = bindings[i]
    BY DEF Extend
  <2>3. CASE bindings' = Extend(bindings, v.ents)
    BY <2>2, <2>3, <2>5
  <2>4. ASSUME NEW w \in Walks(Canon[p], v.next),
               bindings' \in Merges(Extend(bindings, v.ents), w.ents)
        PROVE  From(p, q)
    <3>1. \A i \in DOMAIN w.ents : w.ents[i].node \in Below[Canon[p]]
      BY <1>2, <1>3, <1>7, <2>2 DEF BindAfter
    <3>2. \A i \in DOMAIN bindings' :
             \/ i \in DOMAIN Extend(bindings, v.ents) /\ bindings'[i] = Extend(bindings, v.ents)[i]
             \/ i \in DOMAIN w.ents /\ bindings'[i] = w.ents[i]
      BY <2>4, MergeEntries
    <3> QED BY <2>2, <2>5, <3>1, <3>2
  <2> QED BY <2>1, <2>3, <2>4
<1>8. ASSUME NEW p \in Path, NEW q \in Path, BindCreate(p, q)
      PROVE  From(p, q)
  <2>1. PICK w \in Walks(Canon[p], next_inode) :
          \/ bindings' = OnlyRoot(bindings)
          \/ bindings' = Extend(OnlyRoot(bindings), ReadOnly(w.ents))
    BY <1>8 DEF BindCreate, Commit
  <2>2. \A i \in DOMAIN ReadOnly(w.ents) : ReadOnly(w.ents)[i].node \in Below[Canon[p]]
    <3>1. WalkedTable(w.ents, Canon[p], next_inode, w.next)
      BY <1>1, <1>2, <1>8, WalkEntries DEF BindCreate
    <3>2. \A i \in DOMAIN w.ents : w.ents[i].node \in Below[Canon[p]]
      BY <3>1 DEF WalkedTable
    <3>3. /\ DOMAIN ReadOnly(w.ents) = DOMAIN w.ents
          /\ \A i \in DOMAIN w.ents : ReadOnly(w.ents)[i].node = w.ents[i].node
      BY <3>1, MakingReadOnly
    <3> QED BY <3>2, <3>3
  <2>3. \A i \in DOMAIN bindings' :
           \/ i \in DOMAIN ReadOnly(w.ents) /\ bindings'[i] = ReadOnly(w.ents)[i]
           \/ i = ROOT_INODE /\ bindings'[i] = bindings[i]
    BY <2>1, KeepingRoot DEF Extend
  <2> QED BY <2>2, <2>3, KeepingRoot
<1>9. ASSUME NEW p \in Path, NEW q \in Path, NEW c, NEW m, Vanished(c, m, p, q)
      PROVE  From(p, q)
  BY <1>9 DEF Vanished
<1>10. PICK p \in Path, q \in Path :
         \/ UNCHANGED <<namespace, bindings>>
         \/ \E m \in BindMode : Vanished("bind", m, p, q)
         \/ Vanished("mount", "Before", p, q)
         \/ Rebuild("bind", "Replace", p, q) \/ BindBefore(p, q) \/ BindAfter(p, q)
         \/ BindCreate(p, q) \/ Rebuild("mount", "Before", p, q)
  BY DEF Next, Unresolved, BindReplace, Mount, UnmountUnresolved, UnmountAll, UnmountSource, Returns
<1>11. UNCHANGED <<namespace, bindings>> \/ (From(p, q) /\ Accepted(p, q) /\ \E m \in BindMode : Push(p, q, m))
  <2> HIDE DEF From
  <2> QED BY <1>4, <1>5, <1>6, <1>7, <1>8, <1>9, <1>10
          DEF Vanished, Rebuild, BindBefore, BindAfter, BindCreate
<1> QED BY <1>2, <1>11

(* An entry that is pushed accounts for both its directories, and those    *)
(* that were there go on to.                                               *)
LEMMA Pushing ==
  ASSUME IInv, NEW p \in Path, NEW q \in Path, NEW m \in BindMode, Push(p, q, m),
         Canon[p] \in Node, Canon[q] \in Node
  PROVE  /\ \A t \in DOMAIN namespace :
               t \in DOMAIN namespace' /\ ToSet(namespace[t]) \subseteq ToSet(namespace'[t])
         /\ Canon[q] \in DOMAIN namespace'
         /\ \E e \in ToSet(namespace'[Canon[q]]) : e.source = Canon[p] /\ e.target = Canon[q]
<1> DEFINE entry == [source |-> Canon[p], target |-> Canon[q], bind_mode |-> m]
           old == EntriesAt(Canon[q])
           long == Append(old, entry)
<1>1. entry \in NamespaceEntry /\ old \in Seq(NamespaceEntry)
  <2>1. entry \in NamespaceEntry
    BY DEF NamespaceEntry
  <2>2. old \in Seq(NamespaceEntry)
    BY DEF EntriesAt, IInv, TypeOK
  <2> QED BY <2>1, <2>2
<1>2. /\ DOMAIN namespace' = DOMAIN namespace \cup {Canon[q]}
      /\ \A t \in DOMAIN namespace' : namespace'[t] = IF t = Canon[q] THEN long ELSE namespace[t]
  BY DEF Push, EntriesAt
<1>3. entry.source = Canon[p] /\ entry.target = Canon[q]
  OBVIOUS
<1> HIDE DEF entry, old
<1>4. /\ DOMAIN long = 1 .. Len(old) + 1 /\ long[Len(old) + 1] = entry
      /\ DOMAIN old = 1 .. Len(old) /\ Len(old) \in Nat
      /\ \A k \in DOMAIN old : k \in DOMAIN long /\ long[k] = old[k]
  BY <1>1
<1> HIDE DEF long
<1>5. ToSet(old) \subseteq ToSet(long) /\ entry \in ToSet(long)
  BY <1>4 DEF ToSet
<1>6. \A t \in DOMAIN namespace : t = Canon[q] => namespace[t] = old
  BY DEF old, EntriesAt
<1> QED BY <1>2, <1>3, <1>5, <1>6

(* A bind or mount serves nothing that its own entry or an older one does  *)
(* not explain.                                                            *)
LEMMA CallsAreExplained ==
  ASSUME IInv, Next, ExplainedByNamespace, ret'.call # "unmount"
  PROVE  ExplainedByNamespace'
<1>1. CASE UNCHANGED <<namespace, bindings>>
  BY <1>1 DEF ExplainedByNamespace
<1>2. ASSUME NEW p \in Path, NEW q \in Path, NEW m \in BindMode,
             Canon[p] \in Node, Canon[q] \in Node, Push(p, q, m),
             \A i \in DOMAIN bindings' :
                \/ i \in DOMAIN bindings /\ bindings'[i] = bindings[i]
                \/ bindings'[i].node \in Below[Canon[p]] \cup Below[Canon[q]]
      PROVE  ExplainedByNamespace'
  <2> SUFFICES ASSUME NEW i \in DOMAIN bindings' \ {ROOT_INODE}
               PROVE  \E t \in DOMAIN namespace' : \E e \in ToSet(namespace'[t]) :
                         bindings'[i].node \in Below[e.source] \cup Below[e.target]
    BY DEF ExplainedByNamespace
  <2>1. CASE i \in DOMAIN bindings /\ bindings'[i] = bindings[i]
    <3>1. PICK t \in DOMAIN namespace : \E e \in ToSet(namespace[t]) :
             bindings[i].node \in Below[e.source] \cup Below[e.target]
      BY <2>1 DEF ExplainedByNamespace
    <3>2. t \in DOMAIN namespace' /\ ToSet(namespace[t]) \subseteq ToSet(namespace'[t])
      BY <1>2, Pushing
    <3> QED BY <2>1, <3>1, <3>2
  <2>2. CASE bindings'[i].node \in Below[Canon[p]] \cup Below[Canon[q]]
    <3>1. /\ Canon[q] \in DOMAIN namespace'
          /\ \E e \in ToSet(namespace'[Canon[q]]) : e.source = Canon[p] /\ e.target = Canon[q]
      BY <1>2, Pushing
    <3> QED BY <2>2, <3>1
  <2> QED BY <1>2, <2>1, <2>2
<1> QED BY <1>1, <1>2, Origins

(* A served file always belongs to some entry of the namespace, even after *)
(* a call that failed half way, until an unmount: bind and mount push      *)
(* their entry before they touch the table.                                *)
THEOREM OnlyUnmountLeavesUnexplained == Spec => OnlyUnmountLosesExplanation
<1>1. IInv /\ [Next]_vars =>
        [ExplainedByNamespace /\ ret'.call # "unmount" => ExplainedByNamespace']_vars
  BY CallsAreExplained
<1> QED BY <1>1, Invariance, PTL DEF Spec, OnlyUnmountLosesExplanation
-----------------------------------------------------------------------------
(* The modes of bind, and mount *)

(* To treat the steps of Next by call and mode.                            *)
LEMMA Calls ==
  ASSUME Next
  PROVE  \E p, q \in Path :
           \/ (\E m \in BindMode : Unresolved("bind", m, p, q)) \/ Unresolved("mount", "Before", p, q)
           \/ (\E m \in BindMode : Vanished("bind", m, p, q)) \/ Vanished("mount", "Before", p, q)
           \/ Rebuild("bind", "Replace", p, q) \/ Rebuild("mount", "Before", p, q)
           \/ BindBefore(p, q) \/ BindAfter(p, q) \/ BindCreate(p, q)
           \/ ret'.call = "unmount"
BY DEF Next, BindReplace, Mount, UnmountUnresolved, UnmountAll, UnmountSource, Returns

(* What a step reports of the call that it is. *)
Reported(c, m, p, q) ==
  ret'.call = c /\ ret'.mode = m /\ ret'.source = Canon[p] /\ ret'.target = Canon[q]

LEMMA Reports ==
  ASSUME NEW p, NEW q
  PROVE  /\ Rebuild("bind", "Replace", p, q) => Reported("bind", "Replace", p, q)
         /\ \A c \in {"bind", "mount"}, m \in BindMode :
               /\ Rebuild(c, m, p, q) => Reported(c, m, p, q)
               /\ Vanished(c, m, p, q) => Reported(c, m, p, q)
         /\ Rebuild("mount", "Before", p, q) => Reported("mount", "Before", p, q)
         /\ Vanished("mount", "Before", p, q) => Reported("mount", "Before", p, q)
         /\ Unresolved("mount", "Before", p, q) => Reported("mount", "Before", p, q)
         /\ BindBefore(p, q) => Reported("bind", "Before", p, q)
         /\ BindAfter(p, q) => Reported("bind", "After", p, q)
         /\ BindCreate(p, q) => Reported("bind", "Create", p, q)
<1>1. \A c, m : \A b : Returns(c, m, p, q, b) => Reported(c, m, p, q)
  BY DEF Returns, Reported
<1>2. \A c, m : Completes(c, m, p, q) => Reported(c, m, p, q)
  BY <1>1 DEF Completes
<1>3. BindBefore(p, q) => Reported("bind", "Before", p, q)
  BY <1>1, <1>2 DEF BindBefore
<1>4. BindAfter(p, q) => Reported("bind", "After", p, q)
  BY <1>1, <1>2 DEF BindAfter
<1>5. BindCreate(p, q) => Reported("bind", "Create", p, q)
  BY <1>1, <1>2 DEF BindCreate
<1>6. \A c, m : /\ Rebuild(c, m, p, q) => Reported(c, m, p, q)
                /\ Vanished(c, m, p, q) => Reported(c, m, p, q)
                /\ Unresolved(c, m, p, q) => Reported(c, m, p, q)
  BY <1>1, <1>2 DEF Rebuild, Vanished, Unresolved
<1> QED BY <1>3, <1>4, <1>5, <1>6

(* The table holds the root and walk w of directory d, the source. *)
Cleared(d, w) ==
  /\ ret'.source = d /\ w.ok
  /\ bindings' = Extend(OnlyRoot(bindings),
                        IF ret'.mode = "Create" THEN ReadOnly(w.ents) ELSE w.ents)

(* A Create bind that accepts its paths empties the table, or completes,   *)
(* whatever it returns then.                                               *)
LEMMA CreateClears ==
  ASSUME NEW p, NEW q, BindCreate(p, q)
  PROVE  \/ ~ ret'.ok /\ bindings' = OnlyRoot(bindings)
         \/ \E w \in Walks(Canon[p], next_inode) : Cleared(Canon[p], w)
<1>1. ret'.mode = "Create" /\ ret'.source = Canon[p]
  BY Reports DEF Reported
<1>2. PICK w \in Walks(Canon[p], next_inode) :
        \/ bindings' = OnlyRoot(bindings) /\ Returns("bind", "Create", p, q, FALSE)
        \/ w.ok /\ bindings' = Extend(OnlyRoot(bindings), ReadOnly(w.ents))
  BY DEF BindCreate, Commit
<1> QED BY <1>1, <1>2 DEF Cleared, Returns

(* So does every call that clears the table and succeeds. *)
LEMMA ClearingCalls ==
  ASSUME Next, ClearingCall, ret'.ok
  PROVE  \E d \in Node : \E w \in Walks(d, next_inode) : Cleared(d, w)
<1>1. PICK p \in Path, q \in Path :
         \/ Rebuild("bind", "Replace", p, q) \/ Rebuild("mount", "Before", p, q) \/ BindCreate(p, q)
  <2>1. \A p, q, c, m : ~ Unresolved(c, m, p, q) /\ ~ Vanished(c, m, p, q)
    BY DEF Unresolved, Vanished, Returns
  <2>2. \A p, q : ~ BindBefore(p, q) /\ ~ BindAfter(p, q)
    BY Reports DEF Reported, ClearingCall
  <2> QED BY <2>1, <2>2, Calls DEF ClearingCall
<1>2. Canon[p] \in Node
  BY <1>1, TreeAssumption DEF Rebuild, BindCreate, Accepted
<1>3. ASSUME NEW c \in {"bind", "mount"}, NEW m \in BindMode, m # "Create", Rebuild(c, m, p, q)
      PROVE  \E w \in Walks(Canon[p], next_inode) : Cleared(Canon[p], w)
  <2>1. ret'.mode = m /\ ret'.source = Canon[p]
    BY <1>3, Reports DEF Reported
  <2>2. PICK w \in Walks(Canon[p], next_inode) :
           bindings' = Extend(OnlyRoot(bindings), w.ents) /\ (w.ok \/ Returns(c, m, p, q, FALSE))
    BY <1>3 DEF Rebuild, Commit
  <2> QED BY <1>3, <2>1, <2>2 DEF Cleared, Returns
<1>4. CASE BindCreate(p, q)
  BY <1>2, <1>4, CreateClears
<1>5. CASE Rebuild("bind", "Replace", p, q) \/ Rebuild("mount", "Before", p, q)
  BY <1>2, <1>3, <1>5 DEF BindMode
<1> QED BY <1>1, <1>4, <1>5

(* What is in the table then.                                              *)
LEMMA ClearingMirrors ==
  ASSUME IInv, NEW d \in Node, NEW w \in Walks(d, next_inode), Cleared(d, w)
  PROVE  SourceMirrored
<1>1. /\ ret'.source = d /\ w.ok
      /\ bindings' = Extend(OnlyRoot(bindings),
                            IF ret'.mode = "Create" THEN ReadOnly(w.ents) ELSE w.ents)
  BY DEF Cleared
<1> DEFINE e == w.ents
           table == IF ret'.mode = "Create" THEN ReadOnly(e) ELSE e
<1>2. next_inode \in Nat /\ 2 <= next_inode
  BY DEF IInv, TypeOK, InodesBelowNext, INITIAL_INODE
<1>3. WalkedTable(e, d, next_inode, w.next) /\ WholeTable(e, d) /\ w.next \in Nat
  BY <1>1, <1>2, WalkEntries
<1>4. /\ DOMAIN table = DOMAIN e
      /\ \A i \in DOMAIN e : table[i].node = e[i].node /\ (table[i].ro <=> ret'.mode = "Create")
  <2> HIDE DEF e
  <2>1. CASE ret'.mode = "Create"
    <3>1. DOMAIN ReadOnly(e) = DOMAIN e
      BY <1>3, MakingReadOnly
    <3>2. \A i \in DOMAIN e : ReadOnly(e)[i].node = e[i].node /\ ReadOnly(e)[i].ro
      BY <1>3, MakingReadOnly
    <3> QED BY <2>1, <3>1, <3>2
  <2>2. CASE ret'.mode # "Create"
    BY <1>3, <2>2 DEF WalkedTable
  <2> QED BY <2>1, <2>2
<1> HIDE DEF table
<1>5. \A i \in DOMAIN e : i \in Nat /\ i # ROOT_INODE
  BY <1>2, <1>3 DEF WalkedTable, ROOT_INODE
<1>6. /\ Served = DOMAIN e
      /\ \A i \in Served : bindings'[i] = table[i]
  BY <1>1, <1>4, <1>5, KeepingRoot DEF Served, Extend, table
<1>7. \A i \in Served : bindings'[i].node = e[i].node /\ (bindings'[i].ro <=> ret'.mode = "Create")
  BY <1>4, <1>6
<1> HIDE DEF e
<1>8. NodesOf(Served) = Below[d]
  BY <1>3, <1>6, <1>7 DEF NodesOf, WalkedTable, WholeTable
<1>9. \A i, j \in Served : bindings'[j].node \in Children[bindings'[i].node] => i < j
  BY <1>3, <1>6, <1>7 DEF WalkedTable
<1>10. Cardinality(Served) = Cardinality(Below[d])
  <2> DEFINE f == [i \in Served |-> e[i].node]
  <2>1. IsFiniteSet(Below[d])
    BY TreeAssumption, BelowIsClosed, FS_Subset
  <2>2. \A i \in Served : e[i].node \in Below[d]
    BY <1>3, <1>6 DEF WalkedTable
  <2>3. f \in Injection(Served, Below[d])
    BY <1>3, <1>6, <2>2 DEF WalkedTable, Injection, IsInjective
  <2>4. f \in Surjection(Served, Below[d])
    BY <1>3, <1>6, <2>2 DEF WholeTable, Surjection
  <2> HIDE DEF f
  <2> QED BY <2>1, <2>3, <2>4, FS_Injection
<1> QED BY <1>1, <1>7, <1>8, <1>9, <1>10 DEF SourceMirrored

(* After a successful mount, Replace bind or Create bind the table is the  *)
(* source: every file below it once, directories before what is in them,   *)
(* read-only after Create and after nothing else, whatever was served      *)
(* before and in whatever order the directories are listed.                *)
THEOREM ClearingMirrorsSource == Spec => ClearingCallMirrorsSource
<1>1. IInv /\ [Next]_vars =>
        [ClearingCall /\ ret'.ok => SourceMirrored]_vars
  BY ClearingCalls, ClearingMirrors
<1> QED BY <1>1, Invariance, PTL DEF Spec, ClearingCallMirrorsSource
-----------------------------------------------------------------------------
(* Before and After *)

(* What is in the table has been numbered before.                          *)
LEMMA OldInodesAreBelow ==
  ASSUME IInv
  PROVE  next_inode \in Nat /\ \A i \in DOMAIN bindings : i \in Nat /\ i < next_inode
BY DEF IInv, TypeOK, InodesBelowNext, INITIAL_INODE, ROOT_INODE

(* A complete walk gives out the names below its directory and no others. *)
LEMMA WalkedNames ==
  ASSUME NEW d \in Node, NEW n, NEW m, NEW e, WalkedTable(e, d, n, m), WholeTable(e, d)
  PROVE  NamesIn(e) = NamesBelow(d)
BY DEF WalkedTable, WholeTable, NamesIn, NamesBelow

(* Source d answers to its names and the entries S of target t to those    *)
(* that it lacks: e and f are what the two walks leave.                    *)
SourceFirst(d, t, k, m, e, f, S) ==
  /\ ret'.source = d /\ ret'.target = t
  /\ WalkedTable(e, d, next_inode, k) /\ WholeTable(e, d)
  /\ WalkedTable(f, t, k, m) /\ WholeTable(f, t)
  /\ Fills(S, f, e)
  /\ Added = DOMAIN e \cup S
  /\ \A i \in DOMAIN e : bindings'[i] = e[i]
  /\ \A i \in S : bindings'[i] = f[i]
  /\ \A i \in DOMAIN bindings : i \in DOMAIN bindings' /\ bindings'[i] = bindings[i]

(* A Before bind leaves the table alone and fails, or is such a step,      *)
(* whatever it returns then.                                               *)
LEMMA BeforeAdds ==
  ASSUME IInv, NEW p \in Path, NEW q \in Path, BindBefore(p, q)
  PROVE  \/ ~ ret'.ok /\ bindings' = bindings
         \/ \E d, t \in Node, k, m \in Nat : \E e, f, S : SourceFirst(d, t, k, m, e, f, S)
<1> SUFFICES ASSUME ret'.ok \/ bindings' # bindings
             PROVE  \E d, t \in Node, k, m \in Nat : \E e, f, S : SourceFirst(d, t, k, m, e, f, S)
  OBVIOUS
<1>1. ASSUME NEW n, Commit(bindings, n), Returns("bind", "Before", p, q, FALSE) PROVE FALSE
  BY <1>1 DEF Commit, Returns
<1>2. Canon[p] \in Node /\ Canon[q] \in Node
  BY TreeAssumption DEF BindBefore, Accepted
<1>3. PICK w \in Walks(Canon[p], next_inode) :
        /\ w.ok
        /\ \E v \in Walks(Canon[q], w.next) :
              v.ok /\ \E new \in Merges(w.ents, v.ents) : Commit(Extend(bindings, new), v.next)
  BY <1>1 DEF BindBefore
<1>4. PICK v \in Walks(Canon[q], w.next) :
        v.ok /\ \E new \in Merges(w.ents, v.ents) : bindings' = Extend(bindings, new)
  BY <1>3 DEF Commit
<1>5. PICK new \in Merges(w.ents, v.ents) : bindings' = Extend(bindings, new)
  BY <1>4
<1> DEFINE e == w.ents
           f == v.ents
<1>6. /\ next_inode \in Nat /\ w.next \in Nat /\ next_inode <= w.next /\ v.next \in Nat
      /\ WalkedTable(e, Canon[p], next_inode, w.next) /\ WholeTable(e, Canon[p])
      /\ WalkedTable(f, Canon[q], w.next, v.next) /\ WholeTable(f, Canon[q])
  <2>1. next_inode \in Nat
    BY OldInodesAreBelow
  <2>2. w.next \in Nat
    BY <1>2, <2>1, WalkEntries
  <2> QED BY <1>2, <1>3, <1>4, <2>1, <2>2, WalkEntries
<1>7. PICK S : Fills(S, f, e) /\ new = Extend(e, Restrict(f, S))
  BY Merging
<1> HIDE DEF e, f
<1>8. /\ DOMAIN new = DOMAIN e \cup S
      /\ \A i \in DOMAIN new :
            \/ i \in S /\ i \in DOMAIN f /\ new[i] = f[i]
            \/ i \notin S /\ i \in DOMAIN e /\ new[i] = e[i]
  <2>1. DOMAIN Restrict(f, S) = S /\ \A i \in S : Restrict(f, S)[i] = f[i]
    BY DEF Restrict
  <2> QED BY <1>7, <2>1 DEF Extend, Fills
<1>9. /\ \A i \in DOMAIN e : i \in Nat /\ next_inode <= i /\ i < w.next
      /\ \A i \in S : i \in Nat /\ next_inode <= i /\ w.next <= i
  BY <1>6, <1>7 DEF WalkedTable, Fills
<1>10. \A i \in DOMAIN new : i \in Nat /\ next_inode <= i
  BY <1>8, <1>9
<1>11. \A i \in DOMAIN bindings : i \in DOMAIN bindings' /\ bindings'[i] = bindings[i]
  BY <1>5, <1>10, OldInodesAreBelow DEF Extend
<1>12. Added = DOMAIN new
  <2>1. ROOT_INODE \notin DOMAIN new
    BY <1>10, OldInodesAreBelow DEF IInv, InodesBelowNext
  <2> QED BY <1>5, <1>10, <2>1, OldInodesAreBelow DEF Added, Served, Extend
<1>13. \A i \in DOMAIN new : bindings'[i] = new[i]
  BY <1>5 DEF Extend
<1>14. \A i \in DOMAIN e : i \notin S
  BY <1>6, <1>9
<1>15. ret'.source = Canon[p] /\ ret'.target = Canon[q]
  BY Reports DEF Reported
<1>16. SourceFirst(Canon[p], Canon[q], w.next, v.next, e, f, S)
  BY <1>6, <1>7, <1>8, <1>11, <1>12, <1>13, <1>14, <1>15 DEF SourceFirst
<1> QED BY <1>2, <1>6, <1>16

(* So its names and files are those that Before promises.                  *)
LEMMA BeforeFills ==
  ASSUME IInv, NEW d \in Node, NEW t \in Node, NEW k \in Nat, NEW m \in Nat,
         \E e, f, S : SourceFirst(d, t, k, m, e, f, S)
  PROVE  SourcePutFirst
<1> DEFINE filled == {i \in Added : bindings'[i].node \notin Below[ret'.source]}
<1>2. PICK e, f, S : SourceFirst(d, t, k, m, e, f, S)
  OBVIOUS
<1>3. NamesIn(e) = NamesBelow(d) /\ NamesIn(f) = NamesBelow(t)
  BY <1>2, WalkedNames DEF SourceFirst
<1>4. Below[d] \subseteq NodesOf(Added)
  BY <1>2 DEF SourceFirst, NodesOf, WholeTable
<1>5. AddedNames = NamesBelow(d) \cup NamesBelow(t)
  <2>1. ASSUME NEW x \in AddedNames PROVE x \in NamesIn(e) \cup NamesIn(f)
    BY <1>2 DEF SourceFirst, AddedNames, NamesIn, Fills
  <2>2. ASSUME NEW x \in NamesIn(e) PROVE x \in AddedNames
    BY <1>2 DEF SourceFirst, AddedNames, NamesIn
  <2>3. ASSUME NEW x \in NamesIn(f), x \notin NamesIn(e) PROVE x \in AddedNames
    <3>1. PICK i \in DOMAIN f : x = f[i].name
      BY DEF NamesIn
    <3>2. PICK j \in S : f[j].name = x
      BY <1>2, <2>3, <3>1 DEF SourceFirst, Fills
    <3> QED BY <1>2, <3>2 DEF SourceFirst, AddedNames
  <2> QED BY <1>3, <2>1, <2>2, <2>3
<1>6. \A i \in filled : i \in S /\ bindings'[i] = f[i]
  BY <1>2 DEF SourceFirst, WalkedTable
<1>7. \A i \in filled : bindings'[i].node \in Below[t] /\ bindings'[i].name \notin NamesBelow(d)
  <2> TAKE i \in filled
  <2>1. i \in S /\ bindings'[i] = f[i] /\ i \in DOMAIN f /\ f[i].name \notin NamesIn(e)
    BY <1>2, <1>6 DEF SourceFirst, Fills
  <2> QED BY <1>2, <1>3, <2>1 DEF SourceFirst, WalkedTable
<1>8. \A i, j \in filled : bindings'[i].name = bindings'[j].name => i = j
  <2> TAKE i, j \in filled
  <2> HIDE DEF filled
  <2> QED BY <1>2, <1>6 DEF SourceFirst, Fills
<1>9. ret'.source = d /\ ret'.target = t
  BY <1>2 DEF SourceFirst
<1>10. \A i \in DOMAIN bindings : i \in DOMAIN bindings' /\ bindings'[i] = bindings[i]
  BY <1>2 DEF SourceFirst
<1> QED BY <1>4, <1>5, <1>7, <1>8, <1>9, <1>10 DEF SourcePutFirst

(* A Before bind is all or nothing, also when it fails after its last step. *)
LEMMA BeforeIsAtomic ==
  ASSUME IInv, Next, ret'.call = "bind", ret'.mode = "Before"
  PROVE  (~ ret'.ok /\ bindings' = bindings) \/ SourcePutFirst
<1>1. PICK p \in Path, q \in Path :
        BindBefore(p, q) \/ (~ ret'.ok /\ bindings' = bindings)
  <2>1. \A p, q, c, m : Unresolved(c, m, p, q) \/ Vanished(c, m, p, q)
                         => ~ ret'.ok /\ bindings' = bindings
    BY DEF Unresolved, Vanished, Returns
  <2>2. \A p, q : /\ ~ Rebuild("bind", "Replace", p, q) /\ ~ Rebuild("mount", "Before", p, q)
                  /\ ~ BindAfter(p, q) /\ ~ BindCreate(p, q)
    BY Reports DEF Reported
  <2> QED BY <2>1, <2>2, Calls
<1>2. CASE BindBefore(p, q)
  BY <1>2, BeforeAdds, BeforeFills
<1> QED BY <1>1, <1>2

(* When Before returns Ok, the source answers to all its names, the target *)
(* to each of the others once, and everything served before stays.         *)
THEOREM BeforeServesSourceFirst == Spec => BeforePutsSourceFirst
<1>1. IInv /\ [Next]_vars =>
        [ret'.call = "bind" /\ ret'.mode = "Before" /\ ret'.ok => SourcePutFirst]_vars
  BY BeforeIsAtomic
<1> QED BY <1>1, Invariance, PTL DEF Spec, BeforePutsSourceFirst

(* Whatever an After bind does, what it adds is the walk e of the target,  *)
(* and entries of the source where neither the old table nor e has the     *)
(* name.                                                                   *)
LEMMA AfterLayers ==
  ASSUME IInv, NEW d \in Node, NEW t \in Node,
         NEW v \in Walks(t, next_inode), v.ok, NEW w \in Walks(d, v.next), w.ok,
         NEW new \in Merges(Extend(bindings, v.ents), w.ents), bindings' = new
  PROVE  /\ \A i \in Added : bindings'[i].node \notin Below[t] =>
              bindings'[i].name \notin NamesIn(bindings) \cup NamesBelow(t)
         /\ \A i \in DOMAIN bindings : i \in DOMAIN bindings' /\ bindings'[i] = bindings[i]
         /\ NamesBelow(d) \cup NamesBelow(t) \subseteq NamesIn(bindings')
<1> DEFINE e == v.ents
           f == w.ents
           old == Extend(bindings, e)
<1>1. /\ next_inode \in Nat /\ v.next \in Nat /\ next_inode <= v.next
      /\ WalkedTable(e, t, next_inode, v.next) /\ WholeTable(e, t)
      /\ WalkedTable(f, d, v.next, w.next) /\ WholeTable(f, d)
  <2>1. next_inode \in Nat
    BY OldInodesAreBelow
  <2>2. v.next \in Nat
    BY <2>1, WalkEntries
  <2> QED BY <2>1, <2>2, WalkEntries
<1>2. PICK S : Fills(S, f, old) /\ new = Extend(old, Restrict(f, S))
  BY Merging
<1> HIDE DEF e, f
<1>3. \A i \in DOMAIN e : i \in Nat /\ next_inode <= i /\ i < v.next
  BY <1>1 DEF WalkedTable
<1>4. /\ DOMAIN old = DOMAIN bindings \cup DOMAIN e
      /\ \A i \in DOMAIN e : old[i] = e[i]
      /\ \A i \in DOMAIN bindings : i \notin DOMAIN e /\ old[i] = bindings[i]
  BY <1>3, OldInodesAreBelow DEF Extend
<1> HIDE DEF old
<1>5. \A i \in S : i \in DOMAIN f /\ i \in Nat /\ next_inode <= i /\ i \notin DOMAIN old
  BY <1>1, <1>2, <1>3, <1>4, OldInodesAreBelow DEF WalkedTable, Fills
<1>6. /\ DOMAIN new = DOMAIN old \cup S
      /\ \A i \in DOMAIN new : \/ i \in S /\ i \in DOMAIN f /\ new[i] = f[i]
                               \/ i \notin S /\ i \in DOMAIN old /\ new[i] = old[i]
  <2>1. DOMAIN Restrict(f, S) = S /\ \A i \in S : Restrict(f, S)[i] = f[i]
    BY DEF Restrict
  <2> QED BY <1>2, <1>5, <2>1 DEF Extend
<1>7. NamesIn(e) = NamesBelow(t) /\ NamesIn(f) = NamesBelow(d)
  BY <1>1, WalkedNames
<1>8. NamesIn(old) = NamesIn(bindings) \cup NamesIn(e)
  BY <1>4 DEF NamesIn
<1>9. ASSUME NEW i \in Added, bindings'[i].node \notin Below[t]
      PROVE  bindings'[i].name \notin NamesIn(bindings) \cup NamesBelow(t)
  <2>1. i \in DOMAIN new /\ i \notin DOMAIN bindings
    BY OldInodesAreBelow DEF Added, Served
  <2>2. i \notin DOMAIN e
    BY <1>1, <1>4, <1>5, <1>6, <1>9 DEF WalkedTable
  <2>3. i \in S /\ new[i] = f[i]
    BY <1>4, <1>6, <2>1, <2>2
  <2> QED BY <1>2, <1>7, <1>8, <2>3 DEF Fills
<1>10. \A i \in DOMAIN bindings : i \in DOMAIN bindings' /\ bindings'[i] = bindings[i]
  BY <1>4, <1>5, <1>6
<1>11. NamesIn(old) \subseteq NamesIn(new)
  BY <1>5, <1>6 DEF NamesIn
<1>12. NamesIn(f) \subseteq NamesIn(new)
  <2> SUFFICES ASSUME NEW x \in NamesIn(f), x \notin NamesIn(old) PROVE x \in NamesIn(new)
    BY <1>11
  <2>1. PICK i \in DOMAIN f : x = f[i].name
    BY DEF NamesIn
  <2>2. PICK j \in S : f[j].name = x
    BY <1>2, <2>1 DEF Fills
  <2>3. j \in DOMAIN new /\ new[j] = f[j]
    BY <1>5, <1>6
  <2> QED BY <2>2, <2>3 DEF NamesIn
<1> QED BY <1>7, <1>8, <1>9, <1>10, <1>11, <1>12

(* What an After bind may do: nothing, the walk of its target alone, or    *)
(* all of it.  Only the last may be a success, but need not be.            *)
LEMMA AfterSteps ==
  ASSUME IInv, Next, ret'.call = "bind", ret'.mode = "After", Resolved
  PROVE  \/ ~ ret'.ok /\ bindings' = bindings
         \/ /\ ~ ret'.ok
            /\ \E t \in Node, m \in Nat : \E e :
                 /\ ret'.target = t
                 /\ WalkedTable(e, t, next_inode, m) /\ WholeTable(e, t)
                 /\ bindings' = Extend(bindings, e)
         \/ \E d, t \in Node : \E v \in Walks(t, next_inode) : \E w \in Walks(d, v.next) :
              /\ ret'.source = d /\ ret'.target = t /\ v.ok /\ w.ok
              /\ bindings' \in Merges(Extend(bindings, v.ents), w.ents)
<1>1. PICK p \in Path, q \in Path : Vanished("bind", "After", p, q) \/ BindAfter(p, q)
  <2>1. \A p, q, c, m : ~ Unresolved(c, m, p, q)
    BY DEF Resolved, Unresolved, Returns
  <2>2. \A p, q : /\ ~ Rebuild("bind", "Replace", p, q) /\ ~ Rebuild("mount", "Before", p, q)
                  /\ ~ BindBefore(p, q) /\ ~ BindCreate(p, q)
                  /\ ~ Vanished("mount", "Before", p, q)
    BY Reports DEF Reported
  <2>3. \A p, q : \A m \in BindMode : Vanished("bind", m, p, q) => m = "After"
    BY Reports DEF Reported
  <2> QED BY <2>1, <2>2, <2>3, Calls
<1>2. CASE Vanished("bind", "After", p, q)
  BY <1>2 DEF Vanished, Returns
<1>3. CASE BindAfter(p, q)
  <2>1. Canon[p] \in Node /\ Canon[q] \in Node /\ next_inode \in Nat
    BY <1>3, TreeAssumption, OldInodesAreBelow DEF BindAfter, Accepted
  <2>2. ret'.source = Canon[p] /\ ret'.target = Canon[q]
    BY <1>3, Reports DEF Reported
  <2>3. PICK v \in Walks(Canon[q], next_inode) :
           \/ bindings' = bindings /\ Returns("bind", "After", p, q, FALSE)
           \/ /\ v.ok /\ bindings' = Extend(bindings, v.ents)
              /\ Returns("bind", "After", p, q, FALSE)
           \/ /\ v.ok
              /\ \E w \in Walks(Canon[p], v.next) :
                    w.ok /\ bindings' \in Merges(Extend(bindings, v.ents), w.ents)
    BY <1>3 DEF BindAfter, Commit
  <2>4. v.next \in Nat /\ WalkedTable(v.ents, Canon[q], next_inode, v.next)
        /\ (v.ok => WholeTable(v.ents, Canon[q]))
    BY <2>1, WalkEntries
  <2>5. CASE bindings' = bindings /\ Returns("bind", "After", p, q, FALSE)
    BY <2>5 DEF Returns
  <2>6. CASE v.ok /\ bindings' = Extend(bindings, v.ents) /\ Returns("bind", "After", p, q, FALSE)
    <3>1. ~ ret'.ok
      BY <2>6 DEF Returns
    <3> QED BY <2>1, <2>2, <2>4, <2>6, <3>1
  <2>7. CASE /\ v.ok
             /\ \E w \in Walks(Canon[p], v.next) :
                   w.ok /\ bindings' \in Merges(Extend(bindings, v.ents), w.ents)
    BY <2>1, <2>2, <2>7
  <2> QED BY <2>3, <2>5, <2>6, <2>7
<1> QED BY <1>1, <1>2, <1>3

(* The entries that a complete walk of t adds to the table. *)
LEMMA WalkAdded ==
  ASSUME IInv, NEW t \in Node, NEW m, NEW e,
         WalkedTable(e, t, next_inode, m), WholeTable(e, t), bindings' = Extend(bindings, e)
  PROVE  /\ Added = DOMAIN e /\ \A i \in DOMAIN e : bindings'[i] = e[i]
         /\ \A i \in DOMAIN bindings : i \in DOMAIN bindings' /\ bindings'[i] = bindings[i]
         /\ NodesOf(Added) = Below[t]
<1>1. \A i \in DOMAIN e : i \in Nat /\ next_inode <= i /\ i # ROOT_INODE
  BY OldInodesAreBelow DEF WalkedTable, IInv, InodesBelowNext
<1>2. /\ DOMAIN bindings' = DOMAIN bindings \cup DOMAIN e
      /\ \A i \in DOMAIN e : bindings'[i] = e[i]
      /\ \A i \in DOMAIN bindings : i \notin DOMAIN e /\ bindings'[i] = bindings[i]
  BY <1>1, OldInodesAreBelow DEF Extend
<1>3. Added = DOMAIN e
  BY <1>1, <1>2, OldInodesAreBelow DEF Added, Served
<1>4. NodesOf(Added) = Below[t]
  BY <1>2, <1>3 DEF NodesOf, WalkedTable, WholeTable
<1> QED BY <1>2, <1>3, <1>4

(* A table that is left alone has no new entries.                          *)
LEMMA NothingAdded ==
  ASSUME IInv, bindings' = bindings
  PROVE  Added = {} /\ NodesOf(Added) = {}
BY OldInodesAreBelow DEF Added, Served, NodesOf

(* So an After bind hides no name, wherever it stops, and adds all names   *)
(* unless it adds the target's only or nothing.                            *)
LEMMA AfterHidesNothing ==
  ASSUME IInv, Next, ret'.call = "bind", ret'.mode = "After", Resolved
  PROVE  /\ \A i \in Added : bindings'[i].node \notin Below[ret'.target] =>
              bindings'[i].name \notin NamesIn(bindings) \cup NamesBelow(ret'.target)
         /\ \A i \in DOMAIN bindings : i \in DOMAIN bindings' /\ bindings'[i] = bindings[i]
         /\ BothNamed \/ (~ ret'.ok /\ NodesOf(Added) \in {{}, Below[ret'.target]})
<1>1. CASE ~ ret'.ok /\ bindings' = bindings
  BY <1>1, NothingAdded
<1>2. CASE ~ ret'.ok /\ \E t \in Node, m \in Nat : \E e :
             /\ ret'.target = t
             /\ WalkedTable(e, t, next_inode, m) /\ WholeTable(e, t)
             /\ bindings' = Extend(bindings, e)
  <2>1. PICK t \in Node, m \in Nat : \E e :
             /\ ret'.target = t
             /\ WalkedTable(e, t, next_inode, m) /\ WholeTable(e, t)
             /\ bindings' = Extend(bindings, e)
    BY <1>2
  <2>2. PICK e : /\ ret'.target = t
                 /\ WalkedTable(e, t, next_inode, m) /\ WholeTable(e, t)
                 /\ bindings' = Extend(bindings, e)
    BY <2>1
  <2>3. /\ Added = DOMAIN e /\ \A i \in DOMAIN e : bindings'[i] = e[i]
        /\ \A i \in DOMAIN bindings : i \in DOMAIN bindings' /\ bindings'[i] = bindings[i]
        /\ NodesOf(Added) = Below[t]
    BY <2>2, WalkAdded
  <2>4. \A i \in Added : bindings'[i].node \in Below[t]
    BY <2>2, <2>3 DEF WalkedTable
  <2> QED BY <1>2, <2>2, <2>3, <2>4
<1>3. CASE \E d, t \in Node : \E v \in Walks(t, next_inode) : \E w \in Walks(d, v.next) :
             /\ ret'.source = d /\ ret'.target = t /\ v.ok /\ w.ok
             /\ bindings' \in Merges(Extend(bindings, v.ents), w.ents)
  <2>1. PICK d \in Node, t \in Node : \E v \in Walks(t, next_inode) : \E w \in Walks(d, v.next) :
             /\ ret'.source = d /\ ret'.target = t /\ v.ok /\ w.ok
             /\ bindings' \in Merges(Extend(bindings, v.ents), w.ents)
    BY <1>3
  <2>2. PICK v \in Walks(t, next_inode) : \E w \in Walks(d, v.next) :
             /\ ret'.source = d /\ ret'.target = t /\ v.ok /\ w.ok
             /\ bindings' \in Merges(Extend(bindings, v.ents), w.ents)
    BY <2>1
  <2>3. PICK w \in Walks(d, v.next) :
             /\ ret'.source = d /\ ret'.target = t /\ v.ok /\ w.ok
             /\ bindings' \in Merges(Extend(bindings, v.ents), w.ents)
    BY <2>2
  <2>4. /\ \A i \in Added : bindings'[i].node \notin Below[t] =>
              bindings'[i].name \notin NamesIn(bindings) \cup NamesBelow(t)
        /\ \A i \in DOMAIN bindings : i \in DOMAIN bindings' /\ bindings'[i] = bindings[i]
        /\ NamesBelow(d) \cup NamesBelow(t) \subseteq NamesIn(bindings')
    BY <2>3, AfterLayers
  <2> QED BY <2>3, <2>4 DEF BothNamed
<1> QED BY <1>1, <1>2, <1>3, AfterSteps

(* Wherever an After bind stops, no file of the source answers to a name   *)
(* that was served before or that the target has; when it succeeds, every  *)
(* name of both is served.                                                 *)
THEOREM AfterKeepsNames == Spec => AfterNeverShadows
<1>1. IInv /\ [Next]_vars =>
        [ret'.call = "bind" /\ ret'.mode = "After" /\ Resolved =>
           /\ \A i \in Added :
                 bindings'[i].node \notin Below[ret'.target] =>
                   bindings'[i].name \notin NamesIn(bindings) \cup NamesBelow(ret'.target)
           /\ \A i \in DOMAIN bindings : i \in DOMAIN bindings' /\ bindings'[i] = bindings[i]
           /\ ret'.ok => BothNamed
        ]_vars
  BY AfterHidesNothing
<1> QED BY <1>1, Invariance, PTL DEF Spec, AfterNeverShadows
-----------------------------------------------------------------------------
(* Calls that fail half way *)

(* A Replace bind or mount that fails in its walk leaves the root and what *)
(* the walk had read: directories before what is in them.                  *)
LEMMA BrokenRebuild ==
  ASSUME IInv, NEW c \in {"bind", "mount"}, NEW m \in BindMode,
         NEW p \in Path, NEW q \in Path, Rebuild(c, m, p, q)
  PROVE  /\ Served = Added
         /\ \A i \in Served :
               \/ bindings'[i].node \in Children[ret'.source]
               \/ \E j \in Served : j < i /\ bindings'[i].node \in Children[bindings'[j].node]
<1>1. PICK w \in Walks(Canon[p], next_inode) :
        bindings' = Extend(OnlyRoot(bindings), w.ents)
  BY DEF Rebuild, Commit
<1> DEFINE e == w.ents
<1>2. next_inode \in Nat /\ 2 <= next_inode /\ Canon[p] \in Node
  BY TreeAssumption DEF IInv, TypeOK, InodesBelowNext, INITIAL_INODE, Rebuild, Accepted
<1>3. WalkedTable(e, Canon[p], next_inode, w.next) /\ w.next \in Nat
  BY <1>2, WalkEntries
<1> HIDE DEF e
<1>4. \A i \in DOMAIN e : i \in Nat /\ next_inode <= i /\ i # ROOT_INODE
  BY <1>2, <1>3 DEF WalkedTable, ROOT_INODE
<1>5. DOMAIN bindings' = {ROOT_INODE} \cup DOMAIN e /\ \A i \in DOMAIN e : bindings'[i] = e[i]
  BY <1>1, KeepingRoot DEF Extend, e
<1>6. Served = DOMAIN e /\ Added = DOMAIN e
  BY <1>4, <1>5 DEF Served, Added
<1>7. ret'.source = Canon[p]
  BY Reports DEF Reported
<1>8. \A i \in DOMAIN e :
        \/ e[i].node \in Children[Canon[p]]
        \/ \E j \in DOMAIN e : j < i /\ e[i].node \in Children[e[j].node]
  BY <1>3 DEF WalkedTable
<1> QED BY <1>5, <1>6, <1>7, <1>8

(* What a failed call may have done, mode by mode.                         *)
LEMMA FailuresAreContained ==
  ASSUME IInv, Next, ret'.call \in {"bind", "mount"}, Resolved, ~ ret'.ok
  PROVE  CASE ret'.mode = "Before" /\ ret'.call = "bind" -> bindings' = bindings \/ SourcePutFirst
           [] ret'.mode = "After" -> NodesOf(Added) \in {{}, Below[ret'.target]} \/ BothNamed
           [] ret'.mode = "Create" -> bindings' = bindings \/ Served = {} \/ SourceMirrored
           [] OTHER ->
                \/ bindings' = bindings
                \/ /\ Served = Added
                   /\ \A i \in Served :
                         \/ bindings'[i].node \in Children[ret'.source]
                         \/ \E j \in Served :
                               j < i /\ bindings'[i].node \in Children[bindings'[j].node]
<1>1. CASE ret'.mode = "Before" /\ ret'.call = "bind"
  BY <1>1, BeforeIsAtomic
<1>2. CASE ret'.mode = "After"
  <2>1. ret'.call = "bind"
    <3>1. \A p, q : /\ ~ Rebuild("mount", "Before", p, q) /\ ~ Vanished("mount", "Before", p, q)
                    /\ ~ Unresolved("mount", "Before", p, q)
      BY <1>2, Reports DEF Reported
    <3>2. \A p, q, m : Vanished("bind", m, p, q) \/ Unresolved("bind", m, p, q) => ret'.call = "bind"
      BY DEF Vanished, Unresolved, Returns
    <3>3. \A p, q : Rebuild("bind", "Replace", p, q) \/ BindBefore(p, q) \/ BindAfter(p, q)
                    \/ BindCreate(p, q) => ret'.call = "bind"
      BY Reports DEF Reported
    <3> QED BY <3>1, <3>2, <3>3, Calls
  <2> QED BY <1>2, <2>1, AfterHidesNothing
<1>3. CASE ret'.mode = "Create"
  <2>1. PICK p \in Path, q \in Path : bindings' = bindings \/ BindCreate(p, q)
    <3>1. \A p, q, c, m : Unresolved(c, m, p, q) \/ Vanished(c, m, p, q) => bindings' = bindings
      BY DEF Unresolved, Vanished
    <3>2. \A p, q : /\ ~ Rebuild("bind", "Replace", p, q) /\ ~ Rebuild("mount", "Before", p, q)
                    /\ ~ BindBefore(p, q) /\ ~ BindAfter(p, q)
      BY <1>3, Reports DEF Reported
    <3> QED BY <3>1, <3>2, Calls
  <2>2. CASE BindCreate(p, q)
    <3>1. Canon[p] \in Node
      BY <2>2, TreeAssumption DEF BindCreate, Accepted
    <3>2. bindings' = OnlyRoot(bindings) \/ SourceMirrored
      BY <2>2, <3>1, CreateClears, ClearingMirrors
    <3> QED BY <1>3, <3>2, KeepingRoot DEF Served
  <2> QED BY <1>3, <2>1, <2>2
<1>4. CASE ~ (ret'.mode = "Before" /\ ret'.call = "bind") /\ ret'.mode \notin {"After", "Create"}
  <2>1. PICK p \in Path, q \in Path :
          \/ bindings' = bindings
          \/ Rebuild("bind", "Replace", p, q)
          \/ Rebuild("mount", "Before", p, q)
    <3>1. \A p, q, c, m : Unresolved(c, m, p, q) \/ Vanished(c, m, p, q) => bindings' = bindings
      BY DEF Unresolved, Vanished
    <3>2. \A p, q : ~ BindBefore(p, q) /\ ~ BindAfter(p, q) /\ ~ BindCreate(p, q)
      BY <1>4, Reports DEF Reported
    <3> QED BY <3>1, <3>2, Calls
  <2>2. \/ bindings' = bindings
        \/ /\ Served = Added
           /\ \A i \in Served :
                 \/ bindings'[i].node \in Children[ret'.source]
                 \/ \E j \in Served : j < i /\ bindings'[i].node \in Children[bindings'[j].node]
    <3>1. {"Replace", "Before"} \subseteq BindMode
      BY DEF BindMode
    <3> QED BY <2>1, <3>1, BrokenRebuild
  <2> QED BY <1>4, <2>2
<1> QED BY <1>1, <1>2, <1>3, <1>4

(* What a bind or mount that returns Err may have done to the table, mode  *)
(* by mode, wherever it failed, the notification at the end of a complete   *)
(* bind included: Before all or nothing; After nothing, the whole target   *)
(* added, or all; Create nothing, the table emptied, or all; Replace and   *)
(* mount nothing, or the table emptied and a part of the source in it that *)
(* is connected to the source.                                             *)
THEOREM FailuresDoNoMore == Spec => FailureDamage
<1>1. IInv /\ [Next]_vars =>
        [ret'.call \in {"bind", "mount"} /\ Resolved /\ ~ ret'.ok =>
           CASE ret'.mode = "Before" /\ ret'.call = "bind" -> bindings' = bindings \/ SourcePutFirst
             [] ret'.mode = "After" -> NodesOf(Added) \in {{}, Below[ret'.target]} \/ BothNamed
             [] ret'.mode = "Create" -> bindings' = bindings \/ Served = {} \/ SourceMirrored
             [] OTHER ->
                  \/ bindings' = bindings
                  \/ /\ Served = Added
                     /\ \A i \in Served :
                           \/ bindings'[i].node \in Children[ret'.source]
                           \/ \E j \in Served :
                                 j < i /\ bindings'[i].node \in Children[bindings'[j].node]
        ]_vars
  BY FailuresAreContained
<1> QED BY <1>1, Invariance, PTL DEF Spec, FailureDamage
=============================================================================
