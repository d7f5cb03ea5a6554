-------------------------- MODULE CommandPipeProofs --------------------------
(***************************************************************************)
(* CommandPipe implements CommandDelivery, for any senders, listeners,     *)
(* pieces and number of purges.                                            *)
(*                                                                         *)
(* A piece that was written is in one place from then on: in a pipe, in    *)
(* the text that one listener has read, or run (PlaceInv, DistinctInv).  A *)
(* listener meets the end of the file only when the senders of what it has *)
(* read have let go of its pipe (OpenInv).  While there is only one pipe,  *)
(* what a listener has run was sent before what it has read, and that      *)
(* before what is still in the pipe (OrderInv).  What a listener has read  *)
(* and what is in its pipe are one stream while there has been no other    *)
(* one (AloneInv).                                                         *)
(***************************************************************************)
EXTENDS CommandPipe, SequenceTheorems, TLAPS

Has(q, x) == \E k \in 1 .. Len(q) : q[k] = x
Distinct(q) == \A k, m \in 1 .. Len(q) : q[k] = q[m] => k = m

(* The order of commands that were sent as w says, and of their pieces.    *)
Before(w, a, b) == \E k, l \in 1 .. Len(w) : k < l /\ w[k] = a /\ w[l] = b
Precedes(w, p, q) == Before(w, p[1], q[1]) \/ (p[1] = q[1] /\ p[2] < q[2])
Sorted(w, q) == \A k, m \in 1 .. Len(q) : k < m => Precedes(w, q[k], q[m])

InPipe(p) == \E i \in Pipe : Has(data[i], p)
HasRun(l, p) == \E j \in 1 .. Len(ran[l]) : Has(ran[l][j], p)

(* Pipes are made one at a time, and nobody has one open that was not.     *)
PipesInv ==
  /\ path <= made
  /\ made <= purges + (IF path = NoPipe THEN 0 ELSE 1)
  /\ \A s \in Sender :
        /\ at[s] <= made
        /\ pc[s] \in {"wait", "write", "close"} => at[s] # NoPipe
  /\ \A l \in Listener :
        /\ reader_at[l] <= made
        /\ reader[l] \in {"wait", "read", "eof"} => reader_at[l] # NoPipe
  /\ \A i \in Pipe : data[i] # << >> => i <= made

(* What a sender's state says of its command.                              *)
SentInv ==
  \A s \in Sender :
     /\ Has(sent, s) => pc[s] \in {"close", "ok", "killed"}
     /\ pc[s] \in {"close", "ok"} => Has(sent, s)

(* A piece of a command that was sent is in one place at most, and only    *)
(* such a one is anywhere.                                                 *)
PlaceInv ==
  \A p \in Piece :
     /\ InPipe(p) => Has(sent, p[1])
     /\ \A l \in Listener : Has(text[l], p) \/ HasRun(l, p) => Has(sent, p[1])
     /\ \A i, j \in Pipe : Has(data[i], p) /\ Has(data[j], p) => i = j
     /\ \A l, o \in Listener : Has(text[l], p) /\ Has(text[o], p) => l = o
     /\ \A l \in Listener : ~ (InPipe(p) /\ (Has(text[l], p) \/ HasRun(l, p)))
     /\ \A l, o \in Listener : ~ (Has(text[l], p) /\ HasRun(o, p))

(* Nothing is twice in one place.                                          *)
DistinctInv ==
  /\ \A i \in Pipe : Distinct(data[i])
  /\ \A l \in Listener : Distinct(text[l])

(* Until its sender closes the pipe, a piece is in that pipe or in the     *)
(* text of a listener that has that pipe open; a listener that has read    *)
(* nothing has no text.                                                    *)
OpenInv ==
  /\ \A p \in Piece, i \in Pipe : Has(data[i], p) /\ pc[p[1]] = "close" => at[p[1]] = i
  /\ \A p \in Piece, l \in Listener :
        Has(text[l], p) /\ pc[p[1]] = "close" => at[p[1]] = reader_at[l] /\ reader[l] # "eof"
  /\ \A l \in Listener : reader[l] \in {"open", "wait", "gone"} => text[l] = << >>

(* With one pipe, what has gone further was sent earlier.                  *)
OrderInv ==
  purges = 0 =>
    /\ \A i \in Pipe : Sorted(sent, data[i])
    /\ \A l \in Listener : Sorted(sent, text[l])
    /\ \A l \in Listener, a, b \in Piece :
          \/ HasRun(l, a) /\ (Has(text[l], b) \/ InPipe(b))
          \/ Has(text[l], a) /\ InPipe(b)
          => Precedes(sent, a, b)

Alone(l) == reader[l] # "gone" /\ \A o \in Listener \ {l} : reader_at[o] = NoPipe

(* The text continues with what is in the pipe.                            *)
Continues(q, d) ==
  q # << >> => IF d = << >> THEN q[Len(q)][2] = Pieces ELSE Follows(q[Len(q)], d[1])

(* Nobody takes a piece from a listener that is alone.                     *)
AloneInv ==
  \A l \in Listener : Alone(l) =>
     /\ ~ Torn(text[l])
     /\ \A i \in Pipe : ~ Torn(data[i]) /\ (data[i] # << >> => data[i][Len(data[i])][2] = Pieces)
     /\ reader_at[l] # NoPipe => Continues(text[l], data[reader_at[l]])

IInv == TypeOK /\ PipesInv /\ SentInv /\ PlaceInv /\ DistinctInv /\ OpenInv /\ OrderInv /\ AloneInv
-----------------------------------------------------------------------------
(* Lemmas about sequences *)

(* What appending an element does to what a sequence holds.                *)
LEMMA HasAppend ==
  ASSUME NEW S, NEW q \in Seq(S), NEW s \in S
  PROVE  /\ Append(q, s) \in Seq(S)
         /\ \A x : Has(Append(q, s), x) <=> Has(q, x) \/ x = s
<1>1. Append(q, s) \in Seq(S) /\ Len(Append(q, s)) = Len(q) + 1
  BY AppendProperties
<1>2. /\ \A k \in 1 .. Len(q) : Append(q, s)[k] = q[k]
      /\ Append(q, s)[Len(q) + 1] = s
  BY AppendProperties
<1>3. Len(q) \in Nat
  BY LenProperties
<1> QED BY <1>1, <1>2, <1>3 DEF Has

(* A concatenation holds what its two parts hold.                          *)
LEMMA HasConcat ==
  ASSUME NEW S, NEW q \in Seq(S), NEW r \in Seq(S)
  PROVE  /\ q \o r \in Seq(S)
         /\ \A x : Has(q \o r, x) <=> Has(q, x) \/ Has(r, x)
<1>1. q \o r \in Seq(S) /\ Len(q \o r) = Len(q) + Len(r)
  BY ConcatProperties
<1>2. \A k \in 1 .. Len(q) + Len(r) : (q \o r)[k] = IF k <= Len(q) THEN q[k] ELSE r[k - Len(q)]
  BY ConcatProperties
<1>3. Len(q) \in Nat /\ Len(r) \in Nat
  BY LenProperties
<1>4. ASSUME NEW x, Has(r, x) PROVE Has(q \o r, x)
  <2>1. PICK k \in 1 .. Len(r) : r[k] = x
    BY <1>4 DEF Has
  <2>2. (q \o r)[Len(q) + k] = x /\ Len(q) + k \in 1 .. Len(q \o r)
    BY <1>1, <1>2, <1>3, <2>1
  <2> QED BY <2>2 DEF Has
<1>5. ASSUME NEW x, Has(q, x) PROVE Has(q \o r, x)
  BY <1>1, <1>2, <1>3, <1>5 DEF Has
<1>6. ASSUME NEW x, Has(q \o r, x) PROVE Has(q, x) \/ Has(r, x)
  <2>1. PICK k \in 1 .. Len(q) + Len(r) : (q \o r)[k] = x
    BY <1>1, <1>6 DEF Has
  <2>2. CASE k <= Len(q)
    BY <1>2, <1>3, <2>1, <2>2 DEF Has
  <2>3. CASE k > Len(q)
    <3>1. k - Len(q) \in 1 .. Len(r) /\ r[k - Len(q)] = x
      BY <1>2, <1>3, <2>1, <2>3
    <3> QED BY <3>1 DEF Has
  <2> QED BY <1>3, <2>2, <2>3
<1> QED BY <1>1, <1>4, <1>5, <1>6

(* The empty sequence holds nothing.                                       *)
LEMMA HasNone == (\A x : ~ Has(<< >>, x)) /\ Distinct(<< >>) /\ ~ Torn(<< >>)
BY DEF Has, Distinct, Torn

(* What the head and the tail of a sequence are.                           *)
LEMMA Beheading ==
  ASSUME NEW S, NEW q \in Seq(S), q # << >>
  PROVE  /\ Head(q) \in S /\ Tail(q) \in Seq(S) /\ Head(q) = q[1]
         /\ Len(q) \in Nat \ {0} /\ Len(Tail(q)) = Len(q) - 1
         /\ \A k \in 1 .. Len(Tail(q)) : k + 1 \in 1 .. Len(q) /\ Tail(q)[k] = q[k + 1]
         /\ \A x : Has(q, x) <=> x = Head(q) \/ Has(Tail(q), x)
<1>1. /\ Len(q) \in Nat \ {0} /\ Head(q) = q[1] /\ Head(q) \in S
      /\ Tail(q) \in Seq(S) /\ Len(Tail(q)) = Len(q) - 1
      /\ \A k \in 1 .. Len(q) - 1 : Tail(q)[k] = q[k + 1]
  BY HeadTailProperties, LenProperties, EmptySeq
<1>2. ASSUME NEW x, Has(Tail(q), x) PROVE Has(q, x)
  <2>1. PICK k \in 1 .. Len(q) - 1 : q[k + 1] = x
    BY <1>1, <1>2 DEF Has
  <2> QED BY <1>1, <2>1 DEF Has
<1>3. ASSUME NEW x, Has(q, x), x # Head(q) PROVE Has(Tail(q), x)
  <2>1. PICK k \in 1 .. Len(q) : q[k] = x
    BY <1>3 DEF Has
  <2>2. k - 1 \in 1 .. Len(q) - 1 /\ Tail(q)[k - 1] = x
    BY <1>1, <1>3, <2>1
  <2> QED BY <1>1, <2>2 DEF Has
<1> QED BY <1>1, <1>2, <1>3 DEF Has

(* Taking the head from a sequence that holds nothing twice.               *)
LEMMA DistinctTail ==
  ASSUME NEW S, NEW q \in Seq(S), q # << >>, Distinct(q)
  PROVE  Distinct(Tail(q)) /\ ~ Has(Tail(q), Head(q))
BY Beheading DEF Distinct, Has

(* Appending something that a sequence does not hold.                      *)
LEMMA DistinctAppend ==
  ASSUME NEW S, NEW q \in Seq(S), NEW s \in S, Distinct(q), ~ Has(q, s)
  PROVE  Distinct(Append(q, s))
<1>1. /\ Len(Append(q, s)) = Len(q) + 1 /\ Len(q) \in Nat
      /\ \A k \in 1 .. Len(q) : Append(q, s)[k] = q[k]
      /\ Append(q, s)[Len(q) + 1] = s
  BY AppendProperties, LenProperties
<1> QED BY <1>1 DEF Distinct, Has

(* The pieces of a command.                                                *)
LEMMA Wholes ==
  ASSUME NEW s \in Sender
  PROVE  /\ Whole(s) \in Seq(Piece) /\ Len(Whole(s)) = Pieces /\ Pieces \in Nat \ {0}
         /\ \A k \in 1 .. Pieces : Whole(s)[k] = <<s, k>>
         /\ \A p \in Piece : Has(Whole(s), p) <=> p[1] = s
<1>1. Pieces \in Nat \ {0}
  BY PieceAssumption
<1>2. \A k \in 1 .. Pieces : Whole(s)[k] = <<s, k>> /\ <<s, k>> \in Piece
  BY DEF Whole, Piece
<1>3. Whole(s) \in Seq(Piece) /\ Len(Whole(s)) = Pieces
  BY <1>1, <1>2 DEF Whole
<1>4. ASSUME NEW p \in Piece PROVE Has(Whole(s), p) <=> p[1] = s
  <2>1. p = <<p[1], p[2]>> /\ p[2] \in 1 .. Pieces
    BY DEF Piece
  <2>2. ASSUME p[1] = s PROVE Has(Whole(s), p)
    <3>1. Whole(s)[p[2]] = p /\ p[2] \in 1 .. Len(Whole(s))
      BY <1>2, <1>3, <2>1, <2>2
    <3> QED BY <3>1 DEF Has
  <2>3. ASSUME NEW k \in 1 .. Len(Whole(s)), Whole(s)[k] = p PROVE p[1] = s
    <3>1. p = <<s, k>>
      BY <1>2, <1>3, <2>3
    <3> QED BY <3>1
  <2> QED BY <2>2, <2>3 DEF Has
<1> QED BY <1>1, <1>2, <1>3, <1>4

(* What a sequence and a whole command after it consist of.                *)
LEMMA Continuing ==
  ASSUME NEW q \in Seq(Piece), NEW s \in Sender
  PROVE  /\ q \o Whole(s) \in Seq(Piece)
         /\ Len(q) \in Nat /\ Len(q \o Whole(s)) = Len(q) + Pieces
         /\ \A k \in 1 .. Len(q) : (q \o Whole(s))[k] = q[k]
         /\ \A k \in Len(q) + 1 .. Len(q) + Pieces : (q \o Whole(s))[k] = <<s, k - Len(q)>>
<1>1. /\ q \o Whole(s) \in Seq(Piece) /\ Len(q \o Whole(s)) = Len(q) + Len(Whole(s))
      /\ \A k \in 1 .. Len(q) + Len(Whole(s)) :
            (q \o Whole(s))[k] = IF k <= Len(q) THEN q[k] ELSE Whole(s)[k - Len(q)]
  BY Wholes, ConcatProperties
<1>2. Len(q) \in Nat
  BY LenProperties
<1>3. Pieces \in Nat /\ Len(Whole(s)) = Pieces /\ \A k \in 1 .. Pieces : Whole(s)[k] = <<s, k>>
  BY Wholes
<1>4. ASSUME NEW k \in Len(q) + 1 .. Len(q) + Pieces PROVE (q \o Whole(s))[k] = <<s, k - Len(q)>>
  <2>1. k \in 1 .. Len(q) + Pieces /\ ~ (k <= Len(q)) /\ k - Len(q) \in 1 .. Pieces
    BY <1>2, <1>3
  <2> QED BY <1>1, <1>3, <2>1
<1> QED BY <1>1, <1>2, <1>3, <1>4

(* What was sent stays sent in that order, and before what is sent now.    *)
LEMMA SendingKeepsOrder ==
  ASSUME NEW w \in Seq(Sender), NEW s \in Sender
  PROVE  /\ \A p, q : Precedes(w, p, q) => Precedes(Append(w, s), p, q)
         /\ \A p, q : Has(w, p[1]) /\ q[1] = s => Precedes(Append(w, s), p, q)
<1>1. /\ Len(Append(w, s)) = Len(w) + 1 /\ Len(w) \in Nat
      /\ Append(w, s)[Len(w) + 1] = s /\ \A k \in 1 .. Len(w) : Append(w, s)[k] = w[k]
  BY AppendProperties, LenProperties
<1>2. \A a, b : Before(w, a, b) => Before(Append(w, s), a, b)
  BY <1>1 DEF Before
<1>3. \A a : Has(w, a) => Before(Append(w, s), a, s)
  BY <1>1 DEF Before, Has
<1> QED BY <1>2, <1>3 DEF Precedes

(* The pieces of the command that is sent now come last.                   *)
LEMMA SortedWhole ==
  ASSUME NEW w \in Seq(Sender), NEW s \in Sender, NEW q \in Seq(Piece), Sorted(w, q),
         \A k \in 1 .. Len(q) : Has(w, q[k][1])
  PROVE  Sorted(Append(w, s), q \o Whole(s))
<1>1. PICK r : r = q \o Whole(s)
  OBVIOUS
<1>2. /\ Len(q) \in Nat /\ Pieces \in Nat /\ Len(r) = Len(q) + Pieces
      /\ \A k \in 1 .. Len(q) : r[k] = q[k]
      /\ \A k \in Len(q) + 1 .. Len(q) + Pieces : r[k] = <<s, k - Len(q)>>
  BY <1>1, Continuing, PieceAssumption
<1>3. ASSUME NEW k \in 1 .. Len(r), NEW m \in 1 .. Len(r), k < m PROVE Precedes(Append(w, s), r[k], r[m])
  <2>1. CASE m \in 1 .. Len(q)
    <3>1. k \in 1 .. Len(q) /\ r[k] = q[k] /\ r[m] = q[m]
      BY <1>2, <1>3, <2>1
    <3>2. Precedes(w, q[k], q[m])
      BY <1>3, <2>1, <3>1 DEF Sorted
    <3> QED BY <3>1, <3>2, SendingKeepsOrder
  <2>2. CASE m \notin 1 .. Len(q) /\ k \in 1 .. Len(q)
    <3>1. m \in Len(q) + 1 .. Len(q) + Pieces
      BY <1>2, <2>2
    <3>2. r[m] = <<s, m - Len(q)>> /\ r[k] = q[k]
      BY <1>2, <2>2, <3>1
    <3>3. r[m][1] = s /\ Has(w, r[k][1])
      BY <2>2, <3>2
    <3> QED BY <3>3, SendingKeepsOrder
  <2>3. CASE m \notin 1 .. Len(q) /\ k \notin 1 .. Len(q)
    <3>1. m \in Len(q) + 1 .. Len(q) + Pieces /\ k \in Len(q) + 1 .. Len(q) + Pieces
      BY <1>2, <2>3
    <3>2. r[m] = <<s, m - Len(q)>> /\ r[k] = <<s, k - Len(q)>> /\ k - Len(q) < m - Len(q)
      BY <1>2, <1>3, <3>1
    <3> QED BY <3>2 DEF Precedes
  <2> QED BY <2>1, <2>2, <2>3
<1> QED BY <1>1, <1>3 DEF Sorted

(* The head of a sorted sequence comes before its tail.                    *)
LEMMA SortedTail ==
  ASSUME NEW S, NEW w, NEW q \in Seq(S), q # << >>, Sorted(w, q)
  PROVE  Sorted(w, Tail(q)) /\ \A x : Has(Tail(q), x) => Precedes(w, Head(q), x)
<1>1. /\ Head(q) = q[1] /\ Len(q) \in Nat \ {0} /\ Len(Tail(q)) = Len(q) - 1
      /\ \A k \in 1 .. Len(Tail(q)) : k + 1 \in 1 .. Len(q) /\ Tail(q)[k] = q[k + 1]
  BY Beheading
<1>2. Sorted(w, Tail(q))
  BY <1>1 DEF Sorted
<1>3. ASSUME NEW k \in 1 .. Len(Tail(q)) PROVE Precedes(w, Head(q), Tail(q)[k])
  <2>1. 1 \in 1 .. Len(q) /\ k + 1 \in 1 .. Len(q) /\ 1 < k + 1
    BY <1>1
  <2> QED BY <1>1, <2>1 DEF Sorted
<1> QED BY <1>2, <1>3 DEF Has

(* What comes after all of a sorted sequence may be appended.              *)
LEMMA SortedAppend ==
  ASSUME NEW S, NEW w, NEW q \in Seq(S), NEW p \in S, Sorted(w, q),
         \A k \in 1 .. Len(q) : Precedes(w, q[k], p)
  PROVE  Sorted(w, Append(q, p))
<1>1. /\ Len(Append(q, p)) = Len(q) + 1 /\ Len(q) \in Nat
      /\ \A k \in 1 .. Len(q) : Append(q, p)[k] = q[k]
      /\ Append(q, p)[Len(q) + 1] = p
  BY AppendProperties, LenProperties
<1> QED BY <1>1 DEF Sorted

(* Nothing is sorted, and stays so whatever is sent.                       *)
LEMMA SortedMore ==
  /\ \A w : Sorted(w, << >>)
  /\ \A w \in Seq(Sender), s \in Sender : \A q : Sorted(w, q) => Sorted(Append(w, s), q)
BY SendingKeepsOrder DEF Sorted
-----------------------------------------------------------------------------
(* Lemmas about the pipes *)

(* Whoever closes a pipe leaves every pipe as it is or empty.              *)
Shrunk(new) ==
  /\ new \in [Pipe -> Seq(Piece)]
  /\ \A i \in Pipe : new[i] = data[i] \/ new[i] = << >>

(* A user that closes a pipe leaves every pipe as it is or empty.          *)
LEMMA ClosingShrinks ==
  ASSUME TypeOK, NEW u, NEW i
  PROVE  Shrunk(DataWithout(u, i)) /\ Shrunk(data)
<1>1. << >> \in Seq(Piece)
  BY EmptySeq
<1> QED BY <1>1 DEF TypeOK, Shrunk, DataWithout

(* What pipes hold that have shrunk, they held before.                     *)
LEMMA ShrunkHas ==
  ASSUME TypeOK, Shrunk(data')
  PROVE  /\ \A i \in Pipe : \A x : Has(data'[i], x) => Has(data[i], x)
         /\ \A x : InPipe(x)' => InPipe(x)
BY HasNone DEF Shrunk, InPipe
-----------------------------------------------------------------------------
(* The types *)

(* Every step keeps the types.                                             *)
LEMMA NextKeepsTypeOK ==
  ASSUME TypeOK, PipesInv, [Next]_vars
  PROVE  TypeOK'
<1>1. MaxPurges \in Nat /\ purges \in 0 .. MaxPurges /\ made \in 0 .. MaxPurges + 1
  BY PurgeAssumption DEF TypeOK
<1>2. path = NoPipe => made + 1 \in Pipe /\ made + 1 \in 0 .. MaxPurges + 1
  BY <1>1 DEF PipesInv, Pipe, NoPipe
<1>3. \A u, i : DataWithout(u, i) \in [Pipe -> Seq(Piece)]
  BY ClosingShrinks DEF Shrunk
<1>4. ASSUME NEW m \in Maker, Check(m) \/ Make(m) PROVE TypeOK'
  <2>1. pc' \in [Maker -> {"idle", "kept"} \cup Sending \cup Returned]
    BY <1>4 DEF TypeOK, Check, Make, Sending, Returned
  <2>2. path' \in Pipe \cup {NoPipe} /\ made' \in 0 .. MaxPurges + 1
    BY <1>2, <1>4 DEF TypeOK, Check, Make
  <2> QED BY <1>4, <2>1, <2>2 DEF TypeOK, Check, Make
<1>5. ASSUME NEW s \in Sender, Open(s) PROVE TypeOK'
  <2>1. s \in Maker
    BY DEF Maker
  <2>2. at' \in [Sender -> Pipe \cup {NoPipe}]
    BY <1>5 DEF TypeOK, Open
  <2>3. pc' \in [Maker -> {"idle", "kept"} \cup Sending \cup Returned]
    BY <1>5, <2>1 DEF TypeOK, Open, Sending, Returned
  <2>4. reader' \in [Listener -> {"open", "wait", "read", "eof", "gone"}]
    BY <1>5 DEF TypeOK, Open
  <2> QED BY <1>5, <2>2, <2>3, <2>4 DEF TypeOK, Open
<1>6. ASSUME NEW s \in Sender, Write(s) PROVE TypeOK'
  <2>1. s \in Maker
    BY DEF Maker
  <2>2. sent' \in Seq(Sender)
    <3>1. sent \in Seq(Sender) /\ Append(sent, s) \in Seq(Sender)
      BY HasAppend DEF TypeOK
    <3> QED BY <1>6, <3>1 DEF Write
  <2>3. data' \in [Pipe -> Seq(Piece)]
    <3>1. CASE data' = [data EXCEPT ![at[s]] = @ \o Whole(s)]
      <4>1. \A i \in Pipe : data[i] \o Whole(s) \in Seq(Piece)
        BY Continuing DEF TypeOK
      <4> QED BY <3>1, <4>1 DEF TypeOK
    <3> QED BY <1>3, <1>6, <3>1 DEF Write
  <2> QED BY <1>6, <2>1, <2>2, <2>3 DEF TypeOK, Write, Sending, Returned
<1>7. ASSUME NEW s \in Sender, Close(s) \/ Kill(s) PROVE TypeOK'
  <2>1. s \in Maker
    BY DEF Maker
  <2>2. pc' \in [Maker -> {"idle", "kept"} \cup Sending \cup Returned]
    BY <1>7, <2>1 DEF TypeOK, Close, Kill, Sending, Returned
  <2>3. data' \in [Pipe -> Seq(Piece)]
    BY <1>3, <1>7 DEF TypeOK, Close, Kill
  <2> QED BY <1>7, <2>2, <2>3 DEF TypeOK, Close, Kill
<1>8. ASSUME NEW l \in Listener, ListenerOpen(l) PROVE TypeOK'
  BY <1>8 DEF TypeOK, ListenerOpen, Sending, Returned
<1>9. ASSUME NEW l \in Listener, ListenerRead(l) PROVE TypeOK'
  <2>1. reader_at[l] \in Pipe
    BY <1>9 DEF PipesInv, TypeOK, ListenerRead
  <2>2. /\ text[l] \in Seq(Piece) /\ data[reader_at[l]] \in Seq(Piece)
        /\ data[reader_at[l]] # << >>
    BY <1>9, <2>1 DEF TypeOK, ListenerRead
  <2>3. /\ Append(text[l], Head(data[reader_at[l]])) \in Seq(Piece)
        /\ Tail(data[reader_at[l]]) \in Seq(Piece)
    BY <2>2, HasAppend, Beheading
  <2> QED BY <1>9, <2>3 DEF TypeOK, ListenerRead
<1>10. ASSUME NEW l \in Listener, ListenerEof(l) \/ ListenerEnds(l) PROVE TypeOK'
  <2>1. data' \in [Pipe -> Seq(Piece)]
    BY <1>3, <1>10 DEF TypeOK, ListenerEof, ListenerEnds
  <2>2. reader' \in [Listener -> {"open", "wait", "read", "eof", "gone"}]
    BY <1>10 DEF TypeOK, ListenerEof, ListenerEnds
  <2>3. text' \in [Listener -> Seq(Piece)]
    BY <1>10, EmptySeq DEF TypeOK, ListenerEof, ListenerEnds
  <2> QED BY <1>10, <2>1, <2>2, <2>3 DEF TypeOK, ListenerEof, ListenerEnds
<1>11. ASSUME NEW l \in Listener, ListenerClose(l) PROVE TypeOK'
  <2>1. text[l] \in Seq(Piece) /\ ran[l] \in Seq(Seq(Piece)) /\ << >> \in Seq(Piece)
    BY EmptySeq DEF TypeOK
  <2>2. Append(ran[l], text[l]) \in Seq(Seq(Piece))
    BY <2>1, HasAppend
  <2>3. ran' \in [Listener -> Seq(Seq(Piece))]
    BY <1>11, <2>2 DEF TypeOK, ListenerClose, Parse
  <2> QED BY <1>3, <1>11, <2>1, <2>3 DEF TypeOK, ListenerClose
<1>12. CASE Purge
  BY <1>1, <1>12 DEF TypeOK, Purge
<1>13. CASE UNCHANGED vars
  BY <1>13 DEF TypeOK, vars
<1> QED BY <1>4, <1>5, <1>6, <1>7, <1>8, <1>9, <1>10, <1>11, <1>12, <1>13 DEF Next, ListenerStep
-----------------------------------------------------------------------------
(* The pipes *)

(* A step that makes, unlinks, opens and writes to no pipe.                *)
LEMMA PipesUntouched ==
  ASSUME TypeOK, PipesInv, UNCHANGED <<path, made, at, reader_at, purges>>, Shrunk(data'),
         \A s \in Sender : pc'[s] \in {"wait", "write", "close"} => pc[s] \in {"wait", "write", "close"},
         \A l \in Listener : reader'[l] \in {"wait", "read", "eof"} => reader[l] \in {"wait", "read", "eof"}
  PROVE  PipesInv'
BY DEF PipesInv, Shrunk

(* Nobody has open what was not made, and only a purge lets one more pipe  *)
(* be made.                                                                *)
LEMMA NextKeepsPipesInv ==
  ASSUME TypeOK, PipesInv, [Next]_vars
  PROVE  PipesInv'
<1> USE DEF NoPipe
<1>1. /\ purges \in Nat /\ made \in Nat /\ path \in Nat
      /\ \A s \in Sender : at[s] \in Nat
      /\ \A l \in Listener : reader_at[l] \in Nat
      /\ Pipe \subseteq Nat \ {0}
  BY PurgeAssumption DEF TypeOK, Pipe
<1>2. \A s \in Sender : s \in Maker
  BY DEF Maker
<1>3. Shrunk(data) /\ \A u, i : Shrunk(DataWithout(u, i))
  BY ClosingShrinks
<1>4. ASSUME NEW m \in Maker, Check(m) PROVE PipesInv'
  BY <1>2, <1>3, <1>4, PipesUntouched DEF TypeOK, Check
<1>5. ASSUME NEW m \in Maker, Make(m) PROVE PipesInv'
  <2>1. \A s \in Sender : pc'[s] \in {"wait", "write", "close"} => pc[s] \in {"wait", "write", "close"}
    BY <1>2, <1>5 DEF TypeOK, Make
  <2>2. CASE UNCHANGED <<path, made>>
    BY <1>3, <1>5, <2>1, <2>2, PipesUntouched DEF Make
  <2>3. CASE path = NoPipe /\ path' = made + 1 /\ made' = made + 1
    BY <1>1, <1>5, <2>1, <2>3 DEF PipesInv, Make
  <2> QED BY <1>5, <2>2, <2>3 DEF Make
<1>6. ASSUME NEW s \in Sender, Open(s) PROVE PipesInv'
  <2>1. \A o \in Sender \ {s} : pc'[o] = pc[o] /\ at'[o] = at[o]
    BY <1>2, <1>6 DEF TypeOK, Open
  <2>2. \A l \in Listener : reader'[l] \in {"wait", "read", "eof"} => reader[l] \in {"wait", "read", "eof"}
    BY <1>6 DEF Open
  <2>3. at'[s] <= made /\ (pc'[s] \in {"wait", "write", "close"} => at'[s] # NoPipe)
    BY <1>1, <1>2, <1>6 DEF TypeOK, PipesInv, Open
  <2> QED BY <1>6, <2>1, <2>2, <2>3 DEF PipesInv, Open
<1>7. ASSUME NEW s \in Sender, Write(s) PROVE PipesInv'
  <2>1. \A o \in Sender : pc'[o] \in {"wait", "write", "close"} => pc[o] \in {"wait", "write", "close"}
    BY <1>2, <1>7 DEF TypeOK, Write
  <2>2. CASE Shrunk(data')
    BY <1>7, <2>1, <2>2, PipesUntouched DEF Write
  <2>3. CASE data' = [data EXCEPT ![at[s]] = @ \o Whole(s)]
    <3>1. \A i \in Pipe : data'[i] # << >> => i <= made
      BY <2>3 DEF TypeOK, PipesInv
    <3> QED BY <1>7, <2>1, <3>1 DEF PipesInv, Write
  <2> QED BY <1>3, <1>7, <2>2, <2>3 DEF Write
<1>8. ASSUME NEW s \in Sender, Close(s) \/ Kill(s) PROVE PipesInv'
  <2>1. \A o \in Sender : pc'[o] \in {"wait", "write", "close"} => pc[o] \in {"wait", "write", "close"}
    BY <1>2, <1>8 DEF TypeOK, Close, Kill
  <2> QED BY <1>3, <1>8, <2>1, PipesUntouched DEF Close, Kill
<1>9. ASSUME NEW l \in Listener, ListenerOpen(l) PROVE PipesInv'
  <2>1. \A s \in Sender : pc'[s] \in {"wait", "write", "close"} => pc[s] \in {"wait", "write", "close"}
    BY <1>2, <1>9 DEF ListenerOpen
  <2>2. \A o \in Listener \ {l} : reader'[o] = reader[o] /\ reader_at'[o] = reader_at[o]
    BY <1>9 DEF TypeOK, ListenerOpen
  <2>3. reader_at'[l] = path /\ path # NoPipe
    BY <1>9 DEF TypeOK, ListenerOpen
  <2> QED BY <1>9, <2>1, <2>2, <2>3 DEF PipesInv, ListenerOpen
<1>10. ASSUME NEW l \in Listener, ListenerRead(l) PROVE PipesInv'
  <2>1. \A i \in Pipe : data'[i] # << >> => data[i] # << >>
    BY <1>10 DEF TypeOK, ListenerRead
  <2> QED BY <1>10, <2>1 DEF PipesInv, ListenerRead
<1>11. ASSUME NEW l \in Listener, ListenerEof(l) \/ ListenerClose(l) \/ ListenerEnds(l) PROVE PipesInv'
  <2>1. \A o \in Listener : reader'[o] \in {"wait", "read", "eof"} => reader[o] \in {"wait", "read", "eof"}
    BY <1>11 DEF TypeOK, ListenerEof, ListenerClose, ListenerEnds
  <2>2. Shrunk(data')
    BY <1>3, <1>11 DEF ListenerEof, ListenerClose, ListenerEnds
  <2>3. UNCHANGED <<pc, path, made, at, reader_at, purges>>
    BY <1>11 DEF ListenerEof, ListenerClose, ListenerEnds
  <2> QED BY <2>1, <2>2, <2>3, PipesUntouched
<1>12. CASE Purge
  <2>1. path' <= made' /\ made' <= purges' + (IF path' = NoPipe THEN 0 ELSE 1)
    BY <1>1, <1>12 DEF PipesInv, Purge
  <2> QED BY <1>12, <2>1 DEF PipesInv, Purge
<1>13. CASE UNCHANGED vars
  BY <1>13 DEF PipesInv, vars
<1> QED BY <1>4, <1>5, <1>6, <1>7, <1>8, <1>9, <1>10, <1>11, <1>12, <1>13 DEF Next, ListenerStep
-----------------------------------------------------------------------------
(* Sending *)

(* The step of Write that reaches the pipe.                                *)
Written(s) ==
  /\ pc[s] = "write" /\ pc' = [pc EXCEPT ![s] = "close"]
  /\ at[s] \in Pipe /\ data' = [data EXCEPT ![at[s]] = @ \o Whole(s)]
  /\ sent' = Append(sent, s)
  /\ UNCHANGED <<at, path, made, reader, reader_at, text, ran, purges>>

(* A write puts the command into what was sent and its pieces into the     *)
(* pipe that its sender has open.                                          *)
LEMMA WrittenHas ==
  ASSUME TypeOK, NEW s \in Sender, Written(s)
  PROVE  /\ \A x : Has(sent', x) <=> Has(sent, x) \/ x = s
         /\ \A i \in Pipe, p \in Piece : Has(data'[i], p) <=> Has(data[i], p) \/ (p[1] = s /\ i = at[s])
         /\ \A p \in Piece : InPipe(p)' <=> InPipe(p) \/ p[1] = s
         /\ data'[at[s]] = data[at[s]] \o Whole(s) /\ \A i \in Pipe \ {at[s]} : data'[i] = data[i]
<1>1. \A x : Has(sent', x) <=> Has(sent, x) \/ x = s
  BY HasAppend DEF TypeOK, Written
<1>2. data'[at[s]] = data[at[s]] \o Whole(s) /\ \A i \in Pipe \ {at[s]} : data'[i] = data[i]
  BY DEF TypeOK, Written
<1>3. \A p \in Piece : Has(data'[at[s]], p) <=> Has(data[at[s]], p) \/ p[1] = s
  <2>1. data[at[s]] \in Seq(Piece) /\ Whole(s) \in Seq(Piece)
    BY Wholes DEF TypeOK, Written
  <2> QED BY <1>2, <2>1, HasConcat, Wholes
<1>4. \A i \in Pipe, p \in Piece : Has(data'[i], p) <=> Has(data[i], p) \/ (p[1] = s /\ i = at[s])
  BY <1>2, <1>3
<1> QED BY <1>1, <1>2, <1>4 DEF InPipe, Written

(* Every other step leaves the commands sent as they are.                  *)
LEMMA NextWrites ==
  ASSUME TypeOK, PipesInv, [Next]_vars
  PROVE  \/ UNCHANGED sent
         \/ \E s \in Sender : Written(s)
<1>1. ASSUME NEW s \in Sender, Write(s) PROVE UNCHANGED sent \/ Written(s)
  <2>1. at[s] \in Pipe
    BY <1>1 DEF Write, PipesInv, TypeOK
  <2> QED BY <1>1, <2>1 DEF Write, Written
<1> QED BY <1>1
        DEF Next, vars, Check, Make, Open, Close, Kill, ListenerStep, ListenerOpen, ListenerRead,
            ListenerEof, ListenerClose, ListenerEnds, Purge

(* A sender leaves close, ok and killed only from close, to ok or killed,  *)
(* and gets to close by writing.                                           *)
LEMMA NextMovesSenders ==
  ASSUME TypeOK, [Next]_vars, NEW s \in Sender
  PROVE  /\ pc[s] \in {"ok", "killed"} => pc'[s] = pc[s]
         /\ pc[s] = "close" => pc'[s] \in {"close", "ok", "killed"}
         /\ pc'[s] = "ok" => pc[s] \in {"close", "ok"}
         /\ pc'[s] = "close" => pc[s] = "close" \/ sent' = Append(sent, s)
<1>1. s \in Maker /\ Sender \subseteq Maker
  BY DEF Maker
<1>2. ASSUME NEW m \in Maker, Check(m) \/ Make(m) PROVE pc'[s] = pc[s] \/ (pc[s] \in {"idle", "make"} /\ pc'[s] \in {"make", "kept", "open", "failed"})
  BY <1>1, <1>2 DEF TypeOK, Check, Make
<1>3. ASSUME NEW o \in Sender, Open(o) PROVE pc'[s] = pc[s] \/ (pc[s] = "open" /\ pc'[s] \in {"wait", "write", "failed"})
  BY <1>1, <1>3 DEF TypeOK, Open
<1>4. ASSUME NEW o \in Sender, Write(o)
      PROVE  \/ pc'[s] = pc[s]
             \/ pc[s] = "write" /\ pc'[s] = "failed"
             \/ pc[s] = "write" /\ pc'[s] = "close" /\ sent' = Append(sent, s)
  BY <1>1, <1>4 DEF TypeOK, Write
<1>5. ASSUME NEW o \in Sender, Close(o) \/ Kill(o)
      PROVE  \/ pc'[s] = pc[s]
             \/ pc[s] = "close" /\ pc'[s] = "ok"
             \/ pc[s] \in Sending /\ pc'[s] = "killed"
  BY <1>1, <1>5 DEF TypeOK, Close, Kill
<1>6. ASSUME NEW l \in Listener, ListenerOpen(l) PROVE pc'[s] = pc[s] \/ (pc[s] = "wait" /\ pc'[s] = "write")
  BY <1>1, <1>6 DEF TypeOK, ListenerOpen
<1>7. CASE pc' = pc
  BY <1>7
<1> QED BY <1>2, <1>3, <1>4, <1>5, <1>6, <1>7
        DEF Next, vars, Sending, ListenerStep, ListenerRead, ListenerEof, ListenerClose, ListenerEnds,
            Purge

(* A command counts as sent from its write on, and is sent once.           *)
LEMMA NextKeepsSentInv ==
  ASSUME TypeOK, PipesInv, SentInv, [Next]_vars
  PROVE  SentInv'
<1>1. CASE UNCHANGED sent
  <2>1. \A s \in Sender : sent # Append(sent, s)
    <3>1. \A s \in Sender : Len(Append(sent, s)) = Len(sent) + 1 /\ Len(sent) \in Nat
      BY AppendProperties, LenProperties DEF TypeOK
    <3> QED BY <3>1
  <2> QED BY <1>1, <2>1, NextMovesSenders DEF SentInv
<1>2. ASSUME NEW s \in Sender, Written(s) PROVE SentInv'
  <2>1. \A x : Has(sent', x) <=> Has(sent, x) \/ x = s
    BY <1>2, WrittenHas
  <2>2. pc'[s] = "close" /\ \A o \in Sender \ {s} : pc'[o] = pc[o]
    BY <1>2 DEF TypeOK, Written, Maker
  <2> QED BY <2>1, <2>2 DEF SentInv
<1> QED BY <1>1, <1>2, NextWrites
-----------------------------------------------------------------------------
(* The one place of a piece *)

First(l) == Head(data[reader_at[l]])

(* The step with which a listener takes a piece from its pipe.             *)
Taken(l) ==
  /\ reader[l] = "read" /\ reader_at[l] \in Pipe /\ data[reader_at[l]] # << >>
  /\ text' = [text EXCEPT ![l] = Append(@, First(l))]
  /\ data' = [data EXCEPT ![reader_at[l]] = Tail(@)]
  /\ UNCHANGED <<pc, at, path, made, reader, reader_at, sent, ran, purges>>

(* A read takes what is first in its pipe.                                 *)
LEMMA ReadTakes ==
  ASSUME TypeOK, PipesInv, NEW l \in Listener, ListenerRead(l)
  PROVE  Taken(l)
BY DEF TypeOK, PipesInv, ListenerRead, Taken, First

(* A piece that is taken moves from the pipe to the text, and nothing else *)
(* does.                                                                   *)
LEMMA TakenHas ==
  ASSUME TypeOK, NEW l \in Listener, Taken(l)
  PROVE  \E p \in Piece :
            /\ p = First(l) /\ Has(data[reader_at[l]], p) /\ InPipe(p)
            /\ text'[l] = Append(text[l], p) /\ \A o \in Listener \ {l} : text'[o] = text[o]
            /\ data'[reader_at[l]] = Tail(data[reader_at[l]])
            /\ \A i \in Pipe \ {reader_at[l]} : data'[i] = data[i]
            /\ \A o \in Listener : \A x : Has(text'[o], x) <=> Has(text[o], x) \/ (o = l /\ x = p)
            /\ \A i \in Pipe : \A x : Has(data'[i], x) => Has(data[i], x)
            /\ \A x : InPipe(x)' => InPipe(x)
<1>1. reader_at[l] \in Pipe /\ data[reader_at[l]] \in Seq(Piece) /\ data[reader_at[l]] # << >>
  BY DEF TypeOK, Taken
<1>2. PICK p \in Piece :
        p = First(l) /\ \A x : Has(data[reader_at[l]], x) <=> x = p \/ Has(Tail(data[reader_at[l]]), x)
  BY <1>1, Beheading DEF First
<1>3. /\ text'[l] = Append(text[l], p) /\ \A o \in Listener \ {l} : text'[o] = text[o]
      /\ data'[reader_at[l]] = Tail(data[reader_at[l]])
      /\ \A i \in Pipe \ {reader_at[l]} : data'[i] = data[i]
  BY <1>2 DEF TypeOK, Taken
<1>4. \A x : Has(text'[l], x) <=> Has(text[l], x) \/ x = p
  <2>1. text[l] \in Seq(Piece)
    BY DEF TypeOK
  <2> QED BY <1>2, <1>3, <2>1, HasAppend
<1>5. \A i \in Pipe : \A x : Has(data'[i], x) => Has(data[i], x)
  BY <1>1, <1>2, <1>3
<1>6. InPipe(p) /\ \A x : InPipe(x)' => InPipe(x)
  BY <1>1, <1>2, <1>5 DEF InPipe
<1> QED BY <1>2, <1>3, <1>4, <1>5, <1>6

(* Where the piece was it is not any more.                                 *)
LEMMA TakenAway ==
  ASSUME TypeOK, PlaceInv, DistinctInv, NEW l \in Listener, Taken(l), NEW p \in Piece, p = First(l)
  PROVE  ~ InPipe(p)' /\ \A o \in Listener : ~ Has(text[o], p)
<1>1. reader_at[l] \in Pipe /\ data[reader_at[l]] \in Seq(Piece) /\ data[reader_at[l]] # << >>
  BY DEF TypeOK, Taken
<1>2. ~ Has(Tail(data[reader_at[l]]), p)
  BY <1>1, DistinctTail DEF DistinctInv, First
<1>3. /\ Has(data[reader_at[l]], p) /\ InPipe(p)
      /\ data'[reader_at[l]] = Tail(data[reader_at[l]])
      /\ \A i \in Pipe \ {reader_at[l]} : data'[i] = data[i]
  BY TakenHas
<1>4. \A i \in Pipe : ~ Has(data'[i], p)
  BY <1>1, <1>2, <1>3 DEF PlaceInv
<1> QED BY <1>3, <1>4 DEF InPipe, PlaceInv

(* A close empties the text of its listener, and what it runs is that      *)
(* text.                                                                   *)
LEMMA CloseHas ==
  ASSUME TypeOK, NEW l \in Listener, ListenerClose(l)
  PROVE  /\ Shrunk(data')
         /\ text'[l] = << >> /\ \A o \in Listener \ {l} : text'[o] = text[o]
         /\ \A o \in Listener : \A x : Has(text'[o], x) <=> Has(text[o], x) /\ o # l
         /\ \A o \in Listener : \A x : HasRun(o, x)' => HasRun(o, x) \/ (o = l /\ Has(text[l], x))
<1>1. text'[l] = << >> /\ \A o \in Listener \ {l} : text'[o] = text[o]
  BY DEF TypeOK, ListenerClose
<1>2. \A o \in Listener \ {l} : ran'[o] = ran[o]
  BY DEF TypeOK, ListenerClose, Parse
<1>3. \A x : HasRun(l, x)' => HasRun(l, x) \/ Has(text[l], x)
  <2>1. ran'[l] = ran[l] \/ ran'[l] = Append(ran[l], text[l])
    BY DEF TypeOK, ListenerClose, Parse
  <2>2. ran[l] \in Seq(Seq(Piece)) /\ text[l] \in Seq(Piece)
    BY DEF TypeOK
  <2>3. /\ Len(Append(ran[l], text[l])) = Len(ran[l]) + 1 /\ Len(ran[l]) \in Nat
        /\ \A k \in 1 .. Len(ran[l]) : Append(ran[l], text[l])[k] = ran[l][k]
        /\ Append(ran[l], text[l])[Len(ran[l]) + 1] = text[l]
    BY <2>2, AppendProperties, LenProperties
  <2> QED BY <2>1, <2>3 DEF HasRun
<1>4. Shrunk(data')
  BY ClosingShrinks DEF ListenerClose
<1> QED BY <1>1, <1>2, <1>3, <1>4, HasNone DEF HasRun

LessText(new) == \A l \in Listener : new[l] = text[l] \/ new[l] = << >>

(* A step that adds nothing anywhere.                                      *)
Quiet == Shrunk(data') /\ LessText(text') /\ UNCHANGED <<ran, sent>>

(* What texts hold that have become no longer, they held before.           *)
LEMMA LessHas ==
  ASSUME TypeOK, Quiet
  PROVE  /\ \A i \in Pipe : \A x : Has(data'[i], x) => Has(data[i], x)
         /\ \A x : InPipe(x)' => InPipe(x)
         /\ \A l \in Listener : \A x : Has(text'[l], x) => Has(text[l], x)
         /\ \A l \in Listener : \A x : HasRun(l, x)' <=> HasRun(l, x)
BY ShrunkHas, HasNone DEF Quiet, LessText, HasRun

(* All other steps add nothing anywhere.                                   *)
LEMMA NextMovesCommands ==
  ASSUME TypeOK, PipesInv, [Next]_vars
  PROVE  \/ Quiet
         \/ \E s \in Sender : Written(s)
         \/ \E l \in Listener : Taken(l) \/ ListenerClose(l)
<1>1. ASSUME NEW s \in Sender, Write(s) PROVE Written(s) \/ Quiet
  <2>1. at[s] \in Pipe
    BY <1>1 DEF Write, PipesInv, TypeOK
  <2>2. Shrunk(DataWithout(s, at[s]))
    BY ClosingShrinks
  <2> QED BY <1>1, <2>1, <2>2 DEF Write, Written, Quiet, LessText
<1>2. ASSUME NEW s \in Sender, Open(s) \/ Close(s) \/ Kill(s) PROVE Quiet
  <2>1. Shrunk(data')
    BY <1>2, ClosingShrinks DEF Open, Close, Kill
  <2> QED BY <1>2, <2>1 DEF Open, Close, Kill, Quiet, LessText
<1>3. ASSUME NEW l \in Listener, ListenerOpen(l) \/ ListenerEof(l) \/ ListenerEnds(l) PROVE Quiet
  <2>1. Shrunk(data')
    BY <1>3, ClosingShrinks DEF ListenerOpen, ListenerEof, ListenerEnds
  <2>2. LessText(text')
    BY <1>3 DEF TypeOK, ListenerOpen, ListenerEof, ListenerEnds, LessText
  <2> QED BY <1>3, <2>1, <2>2 DEF ListenerOpen, ListenerEof, ListenerEnds, Quiet
<1>4. ASSUME \/ \E m \in Maker : Check(m) \/ Make(m)
             \/ Purge
             \/ UNCHANGED vars
      PROVE  Quiet
  BY <1>4, ClosingShrinks DEF Check, Make, Purge, vars, Quiet, LessText
<1> QED BY <1>1, <1>2, <1>3, <1>4, ReadTakes DEF Next, ListenerStep

(* A step moves a piece to one place and takes it from the one where it    *)
(* was.                                                                    *)
LEMMA NextKeepsPlaceInv ==
  ASSUME TypeOK, PipesInv, SentInv, PlaceInv, DistinctInv, [Next]_vars
  PROVE  PlaceInv'
<1>1. CASE Quiet
  BY <1>1, LessHas DEF PlaceInv, Quiet
<1>2. ASSUME NEW s \in Sender, Written(s) PROVE PlaceInv'
  <2>1. ~ Has(sent, s)
    BY <1>2 DEF SentInv, Written
  <2>2. ASSUME NEW p \in Piece, p[1] = s
        PROVE  ~ InPipe(p) /\ \A l \in Listener : ~ Has(text[l], p) /\ ~ HasRun(l, p)
    BY <2>1, <2>2 DEF PlaceInv
  <2>3. UNCHANGED <<text, ran>> /\ \A l \in Listener : \A p : HasRun(l, p)' <=> HasRun(l, p)
    BY <1>2 DEF Written, HasRun
  <2>4. \A p \in Piece : p[1] = s => \A i \in Pipe : ~ Has(data[i], p)
    BY <2>2 DEF InPipe
  <2> QED BY <1>2, <2>2, <2>3, <2>4, WrittenHas DEF PlaceInv
<1>3. ASSUME NEW l \in Listener, Taken(l) PROVE PlaceInv'
  <2>1. PICK p \in Piece :
          /\ p = First(l) /\ InPipe(p)
          /\ \A o \in Listener : \A x : Has(text'[o], x) <=> Has(text[o], x) \/ (o = l /\ x = p)
          /\ \A i \in Pipe : \A x : Has(data'[i], x) => Has(data[i], x)
          /\ \A x : InPipe(x)' => InPipe(x)
    BY <1>3, TakenHas
  <2>2. UNCHANGED <<sent, ran>> /\ \A o \in Listener : \A x : HasRun(o, x)' <=> HasRun(o, x)
    BY <1>3 DEF Taken, HasRun
  <2>3. ~ InPipe(p)'
    BY <1>3, <2>1, TakenAway
  <2>4. ASSUME NEW x \in Piece
        PROVE  /\ InPipe(x)' => Has(sent', x[1])
               /\ \A o \in Listener : Has(text'[o], x) \/ HasRun(o, x)' => Has(sent', x[1])
               /\ \A i, j \in Pipe : Has(data'[i], x) /\ Has(data'[j], x) => i = j
               /\ \A a, b \in Listener : Has(text'[a], x) /\ Has(text'[b], x) => a = b
               /\ \A o \in Listener : ~ (InPipe(x)' /\ (Has(text'[o], x) \/ HasRun(o, x)'))
               /\ \A a, b \in Listener : ~ (Has(text'[a], x) /\ HasRun(b, x)')
    <3>1. /\ InPipe(x) => Has(sent, x[1])
          /\ \A o \in Listener : Has(text[o], x) \/ HasRun(o, x) => Has(sent, x[1])
          /\ \A i, j \in Pipe : Has(data[i], x) /\ Has(data[j], x) => i = j
          /\ \A a, b \in Listener : Has(text[a], x) /\ Has(text[b], x) => a = b
          /\ \A o \in Listener : ~ (InPipe(x) /\ (Has(text[o], x) \/ HasRun(o, x)))
          /\ \A a, b \in Listener : ~ (Has(text[a], x) /\ HasRun(b, x))
      BY DEF PlaceInv
    <3>2. /\ sent' = sent /\ \A o \in Listener : HasRun(o, x)' <=> HasRun(o, x)
          /\ \A i \in Pipe : Has(data'[i], x) => Has(data[i], x)
          /\ InPipe(x)' => InPipe(x)
      BY <2>1, <2>2
    <3>3. CASE x = p
      <4>1. InPipe(x) /\ ~ InPipe(x)' /\ \A o \in Listener : Has(text'[o], x) => o = l
        BY <2>1, <2>3, <3>1, <3>3
      <4> QED BY <3>1, <3>2, <4>1
    <3>4. CASE x # p
      <4>1. \A o \in Listener : Has(text'[o], x) => Has(text[o], x)
        BY <2>1, <3>4
      <4> QED BY <3>1, <3>2, <4>1
    <3> QED BY <3>3, <3>4
  <2> QED BY <2>4 DEF PlaceInv
<1>4. ASSUME NEW l \in Listener, ListenerClose(l) PROVE PlaceInv'
  <2>1. UNCHANGED sent
    BY <1>4 DEF ListenerClose
  <2>2. /\ \A i \in Pipe : \A x : Has(data'[i], x) => Has(data[i], x)
        /\ \A x : InPipe(x)' => InPipe(x)
        /\ \A o \in Listener : \A x : Has(text'[o], x) <=> Has(text[o], x) /\ o # l
        /\ \A o \in Listener : \A x : HasRun(o, x)' => HasRun(o, x) \/ (o = l /\ Has(text[l], x))
    BY <1>4, CloseHas, ShrunkHas
  <2>3. ASSUME NEW x \in Piece
        PROVE  /\ InPipe(x)' => Has(sent', x[1])
               /\ \A o \in Listener : Has(text'[o], x) \/ HasRun(o, x)' => Has(sent', x[1])
               /\ \A i, j \in Pipe : Has(data'[i], x) /\ Has(data'[j], x) => i = j
               /\ \A a, b \in Listener : Has(text'[a], x) /\ Has(text'[b], x) => a = b
               /\ \A o \in Listener : ~ (InPipe(x)' /\ (Has(text'[o], x) \/ HasRun(o, x)'))
               /\ \A a, b \in Listener : ~ (Has(text'[a], x) /\ HasRun(b, x)')
    BY <2>1, <2>2 DEF PlaceInv
  <2> QED BY <2>3 DEF PlaceInv
<1> QED BY <1>1, <1>2, <1>3, <1>4, NextMovesCommands

(* Nothing comes into a place in which it is.                              *)
LEMMA NextKeepsDistinctInv ==
  ASSUME TypeOK, PipesInv, SentInv, PlaceInv, DistinctInv, [Next]_vars
  PROVE  DistinctInv'
<1>1. CASE Quiet
  BY <1>1, HasNone DEF DistinctInv, Quiet, Shrunk, LessText
<1>2. ASSUME NEW s \in Sender, Written(s) PROVE DistinctInv'
  <2>1. \A k \in 1 .. Len(data[at[s]]) : data[at[s]][k][1] # s
    <3>1. ASSUME NEW k \in 1 .. Len(data[at[s]]) PROVE data[at[s]][k] \in Piece /\ InPipe(data[at[s]][k])
      <4>1. at[s] \in Pipe /\ data[at[s]] \in Seq(Piece)
        BY <1>2 DEF TypeOK, Written
      <4> QED BY <4>1, ElementOfSeq DEF InPipe, Has
    <3>2. ~ Has(sent, s)
      BY <1>2 DEF SentInv, Written
    <3> QED BY <3>1, <3>2 DEF PlaceInv
  <2>2. data[at[s]] \in Seq(Piece) /\ Distinct(data[at[s]])
    BY <1>2 DEF TypeOK, DistinctInv, Written
  <2>3. Distinct(data[at[s]] \o Whole(s))
    <3> DEFINE q == data[at[s]]
               r == q \o Whole(s)
    <3>1. /\ Len(q) \in Nat /\ Pieces \in Nat /\ Len(r) = Len(q) + Pieces
          /\ \A k \in 1 .. Len(q) : r[k] = q[k]
          /\ \A k \in Len(q) + 1 .. Len(q) + Pieces : r[k] = <<s, k - Len(q)>>
      BY <2>2, Continuing, PieceAssumption
    <3> HIDE DEF q, r
    <3>2. \A k \in 1 .. Len(q) : q[k][1] # s
      BY <2>1 DEF q
    <3>3. ASSUME NEW k \in 1 .. Len(r), NEW m \in 1 .. Len(r), r[k] = r[m] PROVE k = m
      <4>1. CASE k \in 1 .. Len(q) /\ m \in 1 .. Len(q)
        BY <2>2, <3>1, <3>3, <4>1 DEF Distinct, q
      <4>2. CASE k \notin 1 .. Len(q) /\ m \notin 1 .. Len(q)
        BY <3>1, <3>3, <4>2
      <4>3. CASE k \in 1 .. Len(q) /\ m \notin 1 .. Len(q)
        BY <3>1, <3>2, <3>3, <4>3
      <4>4. CASE k \notin 1 .. Len(q) /\ m \in 1 .. Len(q)
        BY <3>1, <3>2, <3>3, <4>4
      <4> QED BY <4>1, <4>2, <4>3, <4>4
    <3> QED BY <3>3 DEF Distinct, q, r
  <2>4. UNCHANGED text
    BY <1>2 DEF Written
  <2> QED BY <1>2, <2>3, <2>4, WrittenHas DEF DistinctInv
<1>3. ASSUME NEW l \in Listener, Taken(l) PROVE DistinctInv'
  <2>1. PICK p \in Piece :
          /\ p = First(l)
          /\ text'[l] = Append(text[l], p) /\ \A o \in Listener \ {l} : text'[o] = text[o]
          /\ data'[reader_at[l]] = Tail(data[reader_at[l]])
          /\ \A i \in Pipe \ {reader_at[l]} : data'[i] = data[i]
    BY <1>3, TakenHas
  <2>2. /\ reader_at[l] \in Pipe /\ data[reader_at[l]] \in Seq(Piece) /\ data[reader_at[l]] # << >>
        /\ text[l] \in Seq(Piece) /\ Distinct(data[reader_at[l]]) /\ Distinct(text[l])
    BY <1>3 DEF TypeOK, Taken, DistinctInv
  <2>3. ~ Has(text[l], p)
    BY <1>3, <2>1, TakenAway
  <2>4. Distinct(Tail(data[reader_at[l]])) /\ Distinct(Append(text[l], p))
    BY <2>2, <2>3, DistinctTail, DistinctAppend
  <2> QED BY <2>1, <2>4 DEF DistinctInv
<1>4. ASSUME NEW l \in Listener, ListenerClose(l) PROVE DistinctInv'
  BY <1>4, CloseHas, HasNone DEF DistinctInv, Shrunk
<1> QED BY <1>1, <1>2, <1>3, <1>4, NextMovesCommands
-----------------------------------------------------------------------------
(* Who has a pipe open *)

(* A step that reads nothing: senders may let go, listeners may wake.      *)
LEMMA SendersKeepOpenInv ==
  ASSUME TypeOK, OpenInv, Shrunk(data'), UNCHANGED <<reader_at, text>>,
         \A s \in Sender : pc'[s] = "close" => pc[s] = "close" /\ at'[s] = at[s],
         \A l \in Listener : reader'[l] = reader[l] \/ (reader[l] = "wait" /\ reader'[l] = "read")
  PROVE  OpenInv'
<1>1. \A i \in Pipe : \A x : Has(data'[i], x) => Has(data[i], x)
  BY ShrunkHas
<1>2. \A p \in Piece : p[1] \in Sender
  BY DEF Piece
<1> QED BY <1>1, <1>2 DEF OpenInv

(* A sender keeps open the pipe in which its command was put, until it     *)
(* closes it.                                                              *)
LEMMA NextKeepsOpenInv ==
  ASSUME TypeOK, PipesInv, SentInv, PlaceInv, OpenInv, [Next]_vars
  PROVE  OpenInv'
<1>1. Sender \subseteq Maker /\ \A p \in Piece : p[1] \in Sender
  BY DEF Maker, Piece
<1>2. Shrunk(data) /\ \A u, i : Shrunk(DataWithout(u, i))
  BY ClosingShrinks
<1>3. ASSUME UNCHANGED sent, NEW s \in Sender, pc'[s] = "close" PROVE pc[s] = "close"
  <2>1. Len(Append(sent, s)) = Len(sent) + 1 /\ Len(sent) \in Nat
    BY AppendProperties, LenProperties DEF TypeOK
  <2> QED BY <1>3, <2>1, NextMovesSenders
<1>4. ASSUME \/ \E m \in Maker : Check(m) \/ Make(m)
             \/ \E s \in Sender : Close(s) \/ Kill(s)
             \/ \E s \in Sender : Write(s) /\ Shrunk(data') /\ UNCHANGED sent
             \/ Purge
             \/ UNCHANGED vars
      PROVE  OpenInv'
  <2>1. Shrunk(data')
    BY <1>2, <1>4 DEF Check, Make, Close, Kill, Purge, vars
  <2>2. UNCHANGED <<at, reader, reader_at, text, sent>>
    BY <1>4 DEF Check, Make, Write, Close, Kill, Purge, vars
  <2> QED BY <1>3, <2>1, <2>2, SendersKeepOpenInv
<1>5. ASSUME NEW s \in Sender, Open(s) PROVE OpenInv'
  <2>1. pc'[s] # "close" /\ \A o \in Sender \ {s} : pc'[o] = pc[o] /\ at'[o] = at[o]
    BY <1>1, <1>5 DEF TypeOK, Open
  <2>2. \A l \in Listener : reader'[l] = reader[l] \/ (reader[l] = "wait" /\ reader'[l] = "read")
    BY <1>5 DEF TypeOK, Open
  <2>3. UNCHANGED <<data, reader_at, text>>
    BY <1>5 DEF Open
  <2> QED BY <1>2, <2>1, <2>2, <2>3, SendersKeepOpenInv
<1>6. ASSUME NEW s \in Sender, Written(s) PROVE OpenInv'
  <2>1. ~ Has(sent, s)
    BY <1>6 DEF SentInv, Written
  <2>2. \A p \in Piece : p[1] = s => ~ InPipe(p) /\ \A l \in Listener : ~ Has(text[l], p)
    BY <2>1 DEF PlaceInv
  <2>3. UNCHANGED <<at, reader, reader_at, text>> /\ \A o \in Sender \ {s} : pc'[o] = pc[o]
    BY <1>6 DEF TypeOK, Written
  <2>4. \A i \in Pipe, p \in Piece : Has(data'[i], p) => Has(data[i], p) \/ (p[1] = s /\ i = at[s])
    BY <1>6, WrittenHas
  <2>5. \A i \in Pipe, p \in Piece : p[1] = s => ~ Has(data[i], p)
    BY <2>2 DEF InPipe
  <2>6. \A p \in Piece, i \in Pipe : Has(data'[i], p) /\ pc'[p[1]] = "close" => at'[p[1]] = i
    BY <1>1, <2>3, <2>4, <2>5 DEF OpenInv
  <2> QED BY <1>1, <2>2, <2>3, <2>6 DEF OpenInv
<1>7. ASSUME NEW l \in Listener, ListenerOpen(l) PROVE OpenInv'
  <2>1. text[l] = << >> /\ \A x : ~ Has(text[l], x)
    BY <1>7, HasNone DEF OpenInv, ListenerOpen
  <2>2. \A s \in Sender : pc'[s] = "close" => pc[s] = "close"
    BY <1>1, <1>7 DEF ListenerOpen
  <2>3. \A o \in Listener \ {l} : reader'[o] = reader[o] /\ reader_at'[o] = reader_at[o]
    BY <1>7 DEF TypeOK, ListenerOpen
  <2>4. UNCHANGED <<at, data, text>>
    BY <1>7 DEF ListenerOpen
  <2> QED BY <1>1, <2>1, <2>2, <2>3, <2>4 DEF OpenInv
<1>8. ASSUME NEW l \in Listener, Taken(l) PROVE OpenInv'
  <2>1. UNCHANGED <<pc, at, reader, reader_at>> /\ reader[l] = "read" /\ reader_at[l] \in Pipe
    BY <1>8 DEF Taken
  <2>2. PICK p \in Piece :
          /\ Has(data[reader_at[l]], p)
          /\ \A o \in Listener \ {l} : text'[o] = text[o]
          /\ \A o \in Listener : \A x : Has(text'[o], x) <=> Has(text[o], x) \/ (o = l /\ x = p)
          /\ \A i \in Pipe : \A x : Has(data'[i], x) => Has(data[i], x)
    BY <1>8, TakenHas
  <2>3. ASSUME NEW x \in Piece, NEW o \in Listener, Has(text'[o], x), pc[x[1]] = "close"
        PROVE  at[x[1]] = reader_at[o] /\ reader[o] # "eof"
    BY <2>1, <2>2, <2>3 DEF OpenInv
  <2> QED BY <2>1, <2>2, <2>3 DEF OpenInv
<1>9. ASSUME NEW l \in Listener, ListenerEof(l) PROVE OpenInv'
  <2>1. \A s \in Sender : ~ (pc[s] = "close" /\ at[s] = reader_at[l])
    BY <1>9 DEF ListenerEof, Writers
  <2>2. \A o \in Listener \ {l} : reader'[o] = reader[o]
    BY <1>9 DEF TypeOK, ListenerEof
  <2>3. reader'[l] = "eof" /\ UNCHANGED <<pc, at, data, reader_at, text>>
    BY <1>9 DEF TypeOK, ListenerEof
  <2> QED BY <1>1, <2>1, <2>2, <2>3 DEF OpenInv
<1>10. ASSUME NEW l \in Listener, ListenerClose(l) \/ ListenerEnds(l) PROVE OpenInv'
  <2>1. text'[l] = << >> /\ \A o \in Listener \ {l} : text'[o] = text[o] /\ reader'[o] = reader[o]
    BY <1>10 DEF TypeOK, ListenerClose, ListenerEnds
  <2>2. UNCHANGED <<pc, at, reader_at>>
    BY <1>10 DEF ListenerClose, ListenerEnds
  <2>3. Shrunk(data')
    BY <1>2, <1>10 DEF ListenerClose, ListenerEnds
  <2>4. \A i \in Pipe : \A x : Has(data'[i], x) => Has(data[i], x)
    BY <2>3, ShrunkHas
  <2> QED BY <2>1, <2>2, <2>4, HasNone DEF OpenInv
<1>11. ASSUME NEW s \in Sender, Write(s), ~ Written(s) PROVE OpenInv'
  <2>1. at[s] \in Pipe
    BY <1>11 DEF Write, PipesInv, TypeOK
  <2>2. Shrunk(data') /\ UNCHANGED sent
    BY <1>2, <1>11, <2>1 DEF Write, Written
  <2> QED BY <1>4, <1>11, <2>2
<1> QED BY <1>4, <1>5, <1>6, <1>7, <1>8, <1>9, <1>10, <1>11, ReadTakes DEF Next, ListenerStep
-----------------------------------------------------------------------------
(* The order of sending *)

(* While there is one pipe, pieces go through it in the order in which     *)
(* they were sent.                                                         *)
LEMMA NextKeepsOrderInv ==
  ASSUME TypeOK, PipesInv, SentInv, PlaceInv, OrderInv, [Next]_vars
  PROVE  OrderInv'
<1> SUFFICES ASSUME purges' = 0 PROVE OrderInv'
  BY DEF OrderInv
<1>1. purges = 0
  <2>1. CASE Purge
    BY <2>1 DEF Purge, TypeOK
  <2>2. CASE UNCHANGED purges
    BY <2>2
  <2> QED BY <2>1, <2>2
          DEF Next, vars, Check, Make, Open, Write, Close, Kill, ListenerStep, ListenerOpen,
              ListenerRead, ListenerEof, ListenerClose, ListenerEnds
<1>2. (\A i \in Pipe : Sorted(sent, data[i])) /\ (\A l \in Listener : Sorted(sent, text[l]))
  BY <1>1 DEF OrderInv
<1>3. CASE Quiet
  <2>1. UNCHANGED sent /\ Shrunk(data') /\ LessText(text')
    BY <1>3 DEF Quiet
  <2>2. (\A i \in Pipe : Sorted(sent', data'[i])) /\ (\A l \in Listener : Sorted(sent', text'[l]))
    BY <1>2, <2>1, SortedMore DEF Shrunk, LessText
  <2>3. ASSUME NEW l \in Listener, NEW a \in Piece, NEW b \in Piece,
               \/ HasRun(l, a)' /\ (Has(text'[l], b) \/ InPipe(b)')
               \/ Has(text'[l], a) /\ InPipe(b)'
        PROVE  Precedes(sent', a, b)
    BY <1>1, <1>3, <2>1, <2>3, LessHas DEF OrderInv
  <2> QED BY <2>2, <2>3 DEF OrderInv
<1>4. ASSUME NEW s \in Sender, Written(s) PROVE OrderInv'
  <2>1. sent \in Seq(Sender) /\ sent' = Append(sent, s) /\ UNCHANGED <<text, ran>> /\ at[s] \in Pipe
    BY <1>4 DEF TypeOK, Written
  <2>2. /\ \A a, b : Precedes(sent, a, b) => Precedes(sent', a, b)
        /\ \A a, b : Has(sent, a[1]) /\ b[1] = s => Precedes(sent', a, b)
    BY <2>1, SendingKeepsOrder
  <2>3. /\ data'[at[s]] = data[at[s]] \o Whole(s)
        /\ \A i \in Pipe \ {at[s]} : data'[i] = data[i]
        /\ \A p \in Piece : InPipe(p)' => InPipe(p) \/ p[1] = s
    BY <1>4, WrittenHas
  <2>4. Sorted(sent', data'[at[s]])
    <3>1. data[at[s]] \in Seq(Piece)
      BY <2>1 DEF TypeOK
    <3>2. ASSUME NEW k \in 1 .. Len(data[at[s]]) PROVE Has(sent, data[at[s]][k][1])
      <4>1. data[at[s]][k] \in Piece /\ InPipe(data[at[s]][k])
        BY <2>1, <3>1, ElementOfSeq DEF InPipe, Has
      <4> QED BY <4>1 DEF PlaceInv
    <3> QED BY <1>2, <2>1, <2>3, <3>1, <3>2, SortedWhole
  <2>5. (\A i \in Pipe : Sorted(sent', data'[i])) /\ (\A l \in Listener : Sorted(sent', text'[l]))
    BY <1>2, <2>1, <2>3, <2>4, SortedMore
  <2>6. ASSUME NEW l \in Listener, NEW a \in Piece, NEW b \in Piece,
               \/ HasRun(l, a)' /\ (Has(text'[l], b) \/ InPipe(b)')
               \/ Has(text'[l], a) /\ InPipe(b)'
        PROVE  Precedes(sent', a, b)
    <3>1. (HasRun(l, a)' => HasRun(l, a)) /\ text'[l] = text[l]
      BY <2>1 DEF HasRun
    <3>2. CASE b[1] = s
      <4>1. Has(sent, a[1])
        BY <2>6, <3>1 DEF PlaceInv
      <4> QED BY <2>2, <3>2, <4>1
    <3>3. CASE b[1] # s
      <4>1. InPipe(b)' => InPipe(b)
        BY <2>3, <3>3
      <4> QED BY <1>1, <2>2, <2>6, <3>1, <4>1 DEF OrderInv
    <3> QED BY <3>2, <3>3
  <2> QED BY <2>5, <2>6 DEF OrderInv
<1>5. ASSUME NEW l \in Listener, Taken(l) PROVE OrderInv'
  <2>1. UNCHANGED <<sent, ran>> /\ reader_at[l] \in Pipe
    BY <1>5 DEF Taken
  <2>2. PICK p \in Piece :
          /\ p = First(l) /\ Has(data[reader_at[l]], p) /\ InPipe(p)
          /\ text'[l] = Append(text[l], p) /\ \A o \in Listener \ {l} : text'[o] = text[o]
          /\ data'[reader_at[l]] = Tail(data[reader_at[l]])
          /\ \A i \in Pipe \ {reader_at[l]} : data'[i] = data[i]
          /\ \A o \in Listener : \A x : Has(text'[o], x) <=> Has(text[o], x) \/ (o = l /\ x = p)
          /\ \A x : InPipe(x)' => InPipe(x)
    BY <1>5, TakenHas
  <2>3. /\ Sorted(sent, Tail(data[reader_at[l]]))
        /\ \A x : Has(Tail(data[reader_at[l]]), x) => Precedes(sent, p, x)
    <3>1. /\ data[reader_at[l]] \in Seq(Piece) /\ data[reader_at[l]] # << >>
          /\ Sorted(sent, data[reader_at[l]]) /\ p = Head(data[reader_at[l]])
      BY <1>2, <1>5, <2>2 DEF TypeOK, Taken, First
    <3> QED BY <3>1, SortedTail
  <2>4. \A x : InPipe(x)' => Precedes(sent, p, x)
    <3>1. made <= 1 /\ made \in Nat
      BY <1>1 DEF PipesInv, TypeOK
    <3>2. \A i \in Pipe : i # reader_at[l] => data[i] = << >>
      BY <1>5, <3>1 DEF PipesInv, TypeOK, Taken, Pipe, NoPipe
    <3>3. \A i \in Pipe : \A x : Has(data'[i], x) => Has(Tail(data[reader_at[l]]), x)
      BY <2>1, <2>2, <3>2, HasNone
    <3> QED BY <2>3, <3>3 DEF InPipe
  <2>5. \A x \in Piece : Has(text[l], x) \/ HasRun(l, x) => Precedes(sent, x, p)
    BY <1>1, <2>2 DEF OrderInv
  <2>6. Sorted(sent, text'[l])
    <3>1. text[l] \in Seq(Piece) /\ Sorted(sent, text[l])
      BY <1>2 DEF TypeOK
    <3>2. \A k \in 1 .. Len(text[l]) : text[l][k] \in Piece /\ Has(text[l], text[l][k])
      BY <3>1, ElementOfSeq DEF Has
    <3> QED BY <2>2, <2>5, <3>1, <3>2, SortedAppend
  <2>7. (\A i \in Pipe : Sorted(sent', data'[i])) /\ (\A o \in Listener : Sorted(sent', text'[o]))
    BY <1>2, <2>1, <2>2, <2>3, <2>6
  <2>8. ASSUME NEW o \in Listener, NEW a \in Piece, NEW b \in Piece,
               \/ HasRun(o, a)' /\ (Has(text'[o], b) \/ InPipe(b)')
               \/ Has(text'[o], a) /\ InPipe(b)'
        PROVE  Precedes(sent', a, b)
    <3>1. HasRun(o, a)' => HasRun(o, a)
      BY <2>1 DEF HasRun
    <3>2. /\ Has(text'[o], a) => Has(text[o], a) \/ (o = l /\ a = p)
          /\ Has(text'[o], b) => Has(text[o], b) \/ (o = l /\ b = p)
          /\ InPipe(b)' => InPipe(b) /\ Precedes(sent, p, b)
      BY <2>2, <2>4
    <3> QED BY <1>1, <2>1, <2>5, <2>8, <3>1, <3>2 DEF OrderInv
  <2> QED BY <2>7, <2>8 DEF OrderInv
<1>6. ASSUME NEW l \in Listener, ListenerClose(l) PROVE OrderInv'
  <2>1. UNCHANGED sent /\ Shrunk(data') /\ LessText(text')
    BY <1>6, CloseHas DEF ListenerClose, LessText
  <2>2. \A x : InPipe(x)' => InPipe(x)
    BY <2>1, ShrunkHas
  <2>3. /\ \A o \in Listener : \A x : Has(text'[o], x) <=> Has(text[o], x) /\ o # l
        /\ \A o \in Listener : \A x : HasRun(o, x)' => HasRun(o, x) \/ (o = l /\ Has(text[l], x))
    BY <1>6, CloseHas
  <2>4. (\A i \in Pipe : Sorted(sent', data'[i])) /\ (\A o \in Listener : Sorted(sent', text'[o]))
    BY <1>2, <2>1, SortedMore DEF Shrunk, LessText
  <2>5. ASSUME NEW o \in Listener, NEW a \in Piece, NEW b \in Piece,
               \/ HasRun(o, a)' /\ (Has(text'[o], b) \/ InPipe(b)')
               \/ Has(text'[o], a) /\ InPipe(b)'
        PROVE  Precedes(sent', a, b)
    BY <1>1, <2>1, <2>2, <2>3, <2>5 DEF OrderInv
  <2> QED BY <2>4, <2>5 DEF OrderInv
<1> QED BY <1>3, <1>4, <1>5, <1>6, NextMovesCommands
-----------------------------------------------------------------------------
(* A listener that is alone *)

(* Taking the head from a sequence that is not torn.                       *)
LEMMA UntornTail ==
  ASSUME NEW q \in Seq(Piece), q # << >>, ~ Torn(q)
  PROVE  /\ ~ Torn(Tail(q)) /\ (Tail(q) = << >> => q[Len(q)] = q[1])
         /\ Tail(q) # << >> => Follows(q[1], Tail(q)[1]) /\ Tail(q)[Len(Tail(q))] = q[Len(q)]
<1>1. PICK r \in Seq(Piece) : r = Tail(q)
  BY Beheading
<1>2. /\ Len(q) \in Nat \ {0} /\ Len(r) = Len(q) - 1
      /\ \A k \in 1 .. Len(r) : k + 1 \in 1 .. Len(q) /\ r[k] = q[k + 1]
  BY <1>1, Beheading
<1>3. \A k \in 1 .. Len(q) - 1 : Follows(q[k], q[k + 1])
  BY DEF Torn
<1>4. \A k \in 1 .. Len(r) - 1 : Follows(r[k], r[k + 1])
  <2> SUFFICES ASSUME NEW k \in 1 .. Len(r) - 1 PROVE Follows(r[k], r[k + 1])
    OBVIOUS
  <2>1. /\ k \in 1 .. Len(r) /\ k + 1 \in 1 .. Len(r) /\ k + 1 \in 1 .. Len(q) - 1
        /\ k + 1 + 1 = k + 2
    BY <1>2
  <2>2. r[k] = q[k + 1] /\ r[k + 1] = q[k + 1 + 1]
    BY <1>2, <2>1
  <2> QED BY <1>3, <2>1, <2>2
<1>5. ASSUME r = << >> PROVE q[Len(q)] = q[1]
  <2>1. Len(r) = 0
    BY <1>5, EmptySeq
  <2>2. Len(q) = 1
    BY <1>2, <2>1
  <2> QED BY <2>2
<1>6. ASSUME r # << >> PROVE Follows(q[1], r[1]) /\ r[Len(r)] = q[Len(q)]
  <2>1. Len(r) \in Nat \ {0}
    BY <1>6, EmptySeq, LenProperties
  <2>2. 1 \in 1 .. Len(q) - 1 /\ r[1] = q[1 + 1] /\ r[Len(r)] = q[Len(r) + 1] /\ Len(r) + 1 = Len(q)
    BY <1>2, <2>1
  <2> QED BY <1>3, <2>2
<1> QED BY <1>1, <1>4, <1>5, <1>6 DEF Torn

(* Appending the piece that follows.                                       *)
LEMMA UntornAppend ==
  ASSUME NEW q \in Seq(Piece), NEW p \in Piece, ~ Torn(q), q # << >> => Follows(q[Len(q)], p)
  PROVE  /\ ~ Torn(Append(q, p)) /\ Append(q, p) # << >>
         /\ Append(q, p)[Len(Append(q, p))] = p
<1>1. PICK r \in Seq(Piece) : r = Append(q, p)
  BY HasAppend
<1>2. /\ Len(r) = Len(q) + 1 /\ Len(q) \in Nat /\ r[Len(q) + 1] = p
      /\ \A k \in 1 .. Len(q) : r[k] = q[k]
  BY <1>1, AppendProperties, LenProperties
<1>3. \A k \in 1 .. Len(q) - 1 : Follows(q[k], q[k + 1])
  BY DEF Torn
<1>4. ASSUME NEW k \in 1 .. Len(r) - 1 PROVE Follows(r[k], r[k + 1])
  <2>1. CASE k = Len(q)
    <3>1. q # << >> /\ r[k] = q[Len(q)] /\ r[k + 1] = p
      BY <1>2, <1>4, <2>1, EmptySeq
    <3> QED BY <3>1
  <2>2. CASE k # Len(q)
    <3>1. k \in 1 .. Len(q) - 1 /\ k \in 1 .. Len(q) /\ k + 1 \in 1 .. Len(q)
      BY <1>2, <2>2
    <3> QED BY <1>2, <1>3, <3>1
  <2> QED BY <2>1, <2>2
<1>5. r # << >> /\ r[Len(r)] = p
  BY <1>2, EmptySeq
<1> QED BY <1>1, <1>4, <1>5 DEF Torn

(* A whole command after others that ended.                                *)
LEMMA UntornWhole ==
  ASSUME NEW q \in Seq(Piece), NEW s \in Sender, ~ Torn(q), q # << >> => q[Len(q)][2] = Pieces
  PROVE  /\ ~ Torn(q \o Whole(s)) /\ q \o Whole(s) # << >>
         /\ (q \o Whole(s))[Len(q \o Whole(s))][2] = Pieces
         /\ IF q = << >> THEN (q \o Whole(s))[1][2] = 1 ELSE (q \o Whole(s))[1] = q[1]
<1>1. PICK r \in Seq(Piece) : r = q \o Whole(s)
  BY Continuing
<1>2. /\ Len(q) \in Nat /\ Pieces \in Nat \ {0} /\ Len(r) = Len(q) + Pieces
      /\ \A k \in 1 .. Len(q) : r[k] = q[k]
      /\ \A k \in Len(q) + 1 .. Len(q) + Pieces : r[k] = <<s, k - Len(q)>>
  BY <1>1, Continuing, PieceAssumption
<1>3. \A k \in 1 .. Len(q) - 1 : Follows(q[k], q[k + 1])
  BY DEF Torn
<1>4. ASSUME NEW k \in 1 .. Len(r) - 1 PROVE Follows(r[k], r[k + 1])
  <2>1. CASE k < Len(q)
    <3>1. k \in 1 .. Len(q) - 1 /\ k \in 1 .. Len(q) /\ k + 1 \in 1 .. Len(q)
      BY <1>2, <2>1
    <3> QED BY <1>2, <1>3, <3>1
  <2>2. CASE k = Len(q)
    <3>1. /\ q # << >> /\ k \in 1 .. Len(q)
          /\ k + 1 \in Len(q) + 1 .. Len(q) + Pieces /\ k + 1 - Len(q) = 1
      BY <1>2, <1>4, <2>2, EmptySeq
    <3>2. r[k] = q[Len(q)] /\ r[k + 1] = <<s, 1>>
      BY <1>2, <2>2, <3>1
    <3> QED BY <3>1, <3>2 DEF Follows
  <2>3. CASE k > Len(q)
    <3>1. /\ k \in Len(q) + 1 .. Len(q) + Pieces /\ k + 1 \in Len(q) + 1 .. Len(q) + Pieces
          /\ k + 1 - Len(q) = k - Len(q) + 1 /\ k - Len(q) # Pieces
      BY <1>2, <2>3
    <3>2. r[k] = <<s, k - Len(q)>> /\ r[k + 1] = <<s, k - Len(q) + 1>>
      BY <1>2, <3>1
    <3> QED BY <3>1, <3>2 DEF Follows
  <2> QED BY <1>2, <2>1, <2>2, <2>3
<1>5. r # << >> /\ r[Len(r)][2] = Pieces
  <2>1. Len(r) \in Len(q) + 1 .. Len(q) + Pieces /\ Len(r) - Len(q) = Pieces /\ Len(r) # 0
    BY <1>2
  <2>2. r[Len(r)] = <<s, Len(r) - Len(q)>>
    BY <1>2, <2>1
  <2> QED BY <2>1, <2>2, EmptySeq
<1>6. IF q = << >> THEN r[1][2] = 1 ELSE r[1] = q[1]
  <2>1. CASE q = << >>
    <3>1. Len(q) = 0 /\ 1 \in Len(q) + 1 .. Len(q) + Pieces /\ 1 - Len(q) = 1
      BY <1>2, <2>1, EmptySeq
    <3>2. r[1] = <<s, 1 - Len(q)>>
      BY <1>2, <3>1
    <3> QED BY <2>1, <3>1, <3>2
  <2>2. CASE q # << >>
    BY <1>2, <2>2, EmptySeq
  <2> QED BY <2>1, <2>2
<1> QED BY <1>1, <1>4, <1>5, <1>6 DEF Torn

(* Who is alone was so before, and has another pipe only with no text.     *)
LEMMA AloneBefore ==
  ASSUME TypeOK, OpenInv, [Next]_vars, NEW l \in Listener, Alone(l)'
  PROVE  Alone(l) /\ (reader_at'[l] = reader_at[l] \/ text'[l] = << >>)
<1>1. ASSUME NEW o \in Listener, ListenerOpen(o)
      PROVE  /\ \A x \in Listener : reader'[x] = "gone" <=> reader[x] = "gone"
             /\ \A x \in Listener : reader_at[x] # NoPipe => reader_at'[x] # NoPipe
             /\ reader_at'[l] = reader_at[l] \/ text'[l] = << >>
  BY <1>1 DEF TypeOK, OpenInv, ListenerOpen
<1>2. ASSUME UNCHANGED reader_at, \A x \in Listener : reader[x] = "gone" => reader'[x] = "gone"
      PROVE  Alone(l) /\ reader_at'[l] = reader_at[l]
  BY <1>2 DEF Alone
<1>3. ASSUME NEW s \in Sender, Open(s)
      PROVE  UNCHANGED reader_at /\ \A x \in Listener : reader[x] = "gone" => reader'[x] = "gone"
  BY <1>3 DEF TypeOK, Open
<1>4. ASSUME NEW o \in Listener, ListenerRead(o) \/ ListenerEof(o) \/ ListenerClose(o) \/ ListenerEnds(o)
      PROVE  UNCHANGED reader_at /\ \A x \in Listener : reader[x] = "gone" => reader'[x] = "gone"
  BY <1>4 DEF TypeOK, ListenerRead, ListenerEof, ListenerClose, ListenerEnds
<1>5. ASSUME \/ \E m \in Maker : Check(m) \/ Make(m)
             \/ \E s \in Sender : Write(s) \/ Close(s) \/ Kill(s)
             \/ Purge
             \/ UNCHANGED vars
      PROVE  UNCHANGED <<reader, reader_at>>
  BY <1>5 DEF Check, Make, Write, Close, Kill, Purge, vars
<1>6. ASSUME NEW o \in Listener, ListenerOpen(o)
      PROVE  Alone(l) /\ (reader_at'[l] = reader_at[l] \/ text'[l] = << >>)
  BY <1>1, <1>6 DEF Alone
<1> QED BY <1>2, <1>3, <1>4, <1>5, <1>6 DEF Next, ListenerStep

(* A pipe that a listener has open keeps what it holds when somebody else  *)
(* closes it.                                                              *)
LEMMA PipeHeld ==
  ASSUME TypeOK, OpenInv, [Next]_vars, NEW l \in Listener, text'[l] # << >>, text[l] # << >>,
         reader_at[l] \in Pipe, Shrunk(data')
  PROVE  \/ data'[reader_at[l]] = data[reader_at[l]]
         \/ \E s \in Sender : Written(s)
         \/ \E o \in Listener : ListenerRead(o)
<1>1. reader[l] \in {"read", "eof"} /\ l \in Readers(reader_at[l])
  BY DEF TypeOK, OpenInv, Readers
<1>2. ASSUME NEW u, NEW i, u # l PROVE DataWithout(u, i)[reader_at[l]] = data[reader_at[l]]
  BY <1>1, <1>2 DEF DataWithout, TypeOK
<1>3. ASSUME NEW s \in Sender, Close(s) \/ Kill(s) PROVE data'[reader_at[l]] = data[reader_at[l]]
  BY <1>2, <1>3, SenderAssumption DEF Close, Kill
<1>4. ASSUME NEW s \in Sender, Write(s), data' = DataWithout(s, at[s])
      PROVE  data'[reader_at[l]] = data[reader_at[l]]
  BY <1>2, <1>4, SenderAssumption
<1>5. ASSUME NEW s \in Sender, Write(s), data' # DataWithout(s, at[s])
      PROVE  data'[reader_at[l]] = data[reader_at[l]] \/ Written(s)
  <2>1. CASE at[s] \in Pipe
    BY <1>5, <2>1 DEF Write, Written
  <2>2. CASE at[s] \notin Pipe
    BY <1>5, <2>2 DEF Write, TypeOK
  <2> QED BY <2>1, <2>2
<1>6. ASSUME NEW o \in Listener, ListenerClose(o) \/ ListenerEnds(o)
      PROVE  data'[reader_at[l]] = data[reader_at[l]]
  <2>1. o # l
    BY <1>6 DEF TypeOK, ListenerClose, ListenerEnds
  <2> QED BY <1>2, <1>6, <2>1 DEF ListenerClose, ListenerEnds
<1>7. ASSUME \/ \E m \in Maker : Check(m) \/ Make(m)
             \/ \E s \in Sender : Open(s)
             \/ \E o \in Listener : ListenerOpen(o) \/ ListenerEof(o)
             \/ Purge
             \/ UNCHANGED vars
      PROVE  UNCHANGED data
  BY <1>7 DEF Check, Make, Open, ListenerOpen, ListenerEof, Purge, vars
<1> QED BY <1>3, <1>4, <1>5, <1>6, <1>7 DEF Next, ListenerStep

(* A listener that is alone takes its pieces one after the other.          *)
LEMMA NextKeepsAloneInv ==
  ASSUME TypeOK, PipesInv, SentInv, PlaceInv, OpenInv, AloneInv, [Next]_vars
  PROVE  AloneInv'
<1> SUFFICES ASSUME NEW l \in Listener, Alone(l)'
             PROVE  /\ ~ Torn(text'[l])
                    /\ \A i \in Pipe : /\ ~ Torn(data'[i])
                                       /\ data'[i] # << >> => data'[i][Len(data'[i])][2] = Pieces
                    /\ reader_at'[l] # NoPipe => Continues(text'[l], data'[reader_at'[l]])
  BY DEF AloneInv, Alone, Continues, Torn, Follows
<1>1. Alone(l) /\ (reader_at'[l] = reader_at[l] \/ text'[l] = << >>)
  BY AloneBefore
<1>2. /\ ~ Torn(text[l])
      /\ \A i \in Pipe : ~ Torn(data[i]) /\ (data[i] # << >> => data[i][Len(data[i])][2] = Pieces)
      /\ reader_at[l] # NoPipe => Continues(text[l], data[reader_at[l]])
  BY <1>1 DEF AloneInv
<1>3. text[l] \in Seq(Piece) /\ data \in [Pipe -> Seq(Piece)]
  BY DEF TypeOK
<1>4. ASSUME Shrunk(data'), text'[l] = text[l] \/ text'[l] = << >>,
             ~ \E s \in Sender : Written(s), ~ \E o \in Listener : ListenerRead(o)
      PROVE  /\ ~ Torn(text'[l])
             /\ \A i \in Pipe : /\ ~ Torn(data'[i])
                                /\ data'[i] # << >> => data'[i][Len(data'[i])][2] = Pieces
             /\ reader_at'[l] # NoPipe => Continues(text'[l], data'[reader_at'[l]])
  <2>1. ~ Torn(text'[l])
    BY <1>2, <1>4, HasNone
  <2>2. \A i \in Pipe : /\ ~ Torn(data'[i])
                        /\ data'[i] # << >> => data'[i][Len(data'[i])][2] = Pieces
    BY <1>2, <1>4, HasNone DEF Shrunk
  <2>3. ASSUME reader_at'[l] # NoPipe PROVE Continues(text'[l], data'[reader_at'[l]])
    <3>1. CASE text'[l] = << >>
      BY <3>1 DEF Continues
    <3>2. CASE text'[l] # << >>
      <4>1. text'[l] = text[l] /\ reader_at'[l] = reader_at[l]
        BY <1>1, <1>4, <3>2
      <4>2. reader_at[l] \in Pipe
        BY <2>3, <4>1 DEF TypeOK
      <4>3. data'[reader_at[l]] = data[reader_at[l]]
        BY <1>4, <3>2, <4>1, <4>2, PipeHeld
      <4> QED BY <1>2, <2>3, <4>1, <4>3
    <3> QED BY <3>1, <3>2
  <2> QED BY <2>1, <2>2, <2>3
<1>5. ASSUME NEW s \in Sender, Written(s)
      PROVE  /\ ~ Torn(text'[l])
             /\ \A i \in Pipe : /\ ~ Torn(data'[i])
                                /\ data'[i] # << >> => data'[i][Len(data'[i])][2] = Pieces
             /\ reader_at'[l] # NoPipe => Continues(text'[l], data'[reader_at'[l]])
  <2>1. /\ data'[at[s]] = data[at[s]] \o Whole(s) /\ \A i \in Pipe \ {at[s]} : data'[i] = data[i]
        /\ at[s] \in Pipe /\ UNCHANGED <<reader_at, text>>
    BY <1>5, WrittenHas DEF Written
  <2>2. PICK q \in Seq(Piece) : q = data[at[s]]
    BY <1>3, <2>1
  <2>3. PICK r \in Seq(Piece) : r = data'[at[s]]
    BY <2>1, <2>2, Continuing
  <2>4. /\ ~ Torn(r) /\ r # << >> /\ r[Len(r)][2] = Pieces
        /\ IF q = << >> THEN r[1][2] = 1 ELSE r[1] = q[1]
    <3>1. ~ Torn(q) /\ (q # << >> => q[Len(q)][2] = Pieces)
      BY <1>2, <2>1, <2>2
    <3>2. r = q \o Whole(s)
      BY <2>1, <2>2, <2>3
    <3> QED BY <3>1, <3>2, UntornWhole
  <2>5. \A i \in Pipe : /\ ~ Torn(data'[i])
                        /\ data'[i] # << >> => data'[i][Len(data'[i])][2] = Pieces
    BY <1>2, <2>1, <2>3, <2>4
  <2>6. Continues(text[l], q) => Continues(text[l], r)
    BY <2>4 DEF Continues, Follows
  <2>7. ASSUME reader_at[l] # NoPipe PROVE Continues(text[l], data'[reader_at[l]])
    <3>1. reader_at[l] \in Pipe /\ Continues(text[l], data[reader_at[l]])
      BY <1>2, <2>7 DEF TypeOK
    <3>2. CASE reader_at[l] = at[s]
      BY <2>2, <2>3, <2>6, <3>1, <3>2
    <3>3. CASE reader_at[l] # at[s]
      BY <2>1, <3>1, <3>3
    <3> QED BY <3>2, <3>3
  <2>8. text'[l] = text[l] /\ reader_at'[l] = reader_at[l]
    BY <2>1
  <2> QED BY <1>2, <2>5, <2>7, <2>8
<1>6. ASSUME NEW o \in Listener, Taken(o)
      PROVE  /\ ~ Torn(text'[l])
             /\ \A i \in Pipe : /\ ~ Torn(data'[i])
                                /\ data'[i] # << >> => data'[i][Len(data'[i])][2] = Pieces
             /\ reader_at'[l] # NoPipe => Continues(text'[l], data'[reader_at'[l]])
  <2>1. o = l /\ UNCHANGED reader_at /\ reader_at[l] \in Pipe /\ reader_at[l] # NoPipe
    BY <1>1, <1>6, PurgeAssumption DEF Alone, Taken, Pipe, NoPipe
  <2>2. PICK p \in Piece :
          /\ p = First(l) /\ text'[l] = Append(text[l], p)
          /\ data'[reader_at[l]] = Tail(data[reader_at[l]])
          /\ \A i \in Pipe \ {reader_at[l]} : data'[i] = data[i]
    BY <1>6, <2>1, TakenHas
  <2>3. PICK q \in Seq(Piece) : q = data[reader_at[l]]
    BY <1>3, <2>1
  <2>4. q # << >> /\ p = q[1] /\ ~ Torn(q) /\ q[Len(q)][2] = Pieces
    BY <1>2, <1>6, <2>1, <2>2, <2>3, Beheading DEF Taken, First
  <2>5. PICK r : r = Tail(q)
    OBVIOUS
  <2>6. /\ ~ Torn(r) /\ (r = << >> => q[Len(q)] = q[1])
        /\ r # << >> => Follows(q[1], r[1]) /\ r[Len(r)] = q[Len(q)]
    BY <2>4, <2>5, UntornTail
  <2>7. PICK t : t = Append(text[l], p)
    OBVIOUS
  <2>8. ~ Torn(t) /\ t # << >> /\ t[Len(t)] = p
    <3>1. text[l] # << >> => Follows(text[l][Len(text[l])], p)
      BY <1>2, <2>1, <2>3, <2>4 DEF Continues
    <3> QED BY <1>2, <1>3, <2>7, <3>1, UntornAppend
  <2>9. Continues(t, r)
    BY <2>4, <2>6, <2>8 DEF Continues
  <2> QED BY <1>2, <2>1, <2>2, <2>3, <2>4, <2>5, <2>6, <2>7, <2>8, <2>9
<1>7. ASSUME NEW o \in Listener, ListenerClose(o), ~ \E s \in Sender : Written(s),
             ~ \E a \in Listener : ListenerRead(a)
      PROVE  Shrunk(data') /\ (text'[l] = text[l] \/ text'[l] = << >>)
  BY <1>7, CloseHas
<1>8. ASSUME NEW o \in Listener, ListenerRead(o) PROVE Taken(o)
  BY <1>8, ReadTakes
<1>9. Quiet => Shrunk(data') /\ (text'[l] = text[l] \/ text'[l] = << >>)
  BY DEF Quiet, LessText
<1> QED BY <1>4, <1>5, <1>6, <1>7, <1>8, <1>9, NextMovesCommands
-----------------------------------------------------------------------------
(* The invariant *)

(* The invariant holds at first.                                           *)
LEMMA InitEstablishesIInv == Init => IInv
<1> SUFFICES ASSUME Init PROVE IInv
  OBVIOUS
<1>1. MaxPurges \in Nat /\ << >> \in Seq(Sender) /\ << >> \in Seq(Piece) /\ << >> \in Seq(Seq(Piece))
  BY PurgeAssumption, EmptySeq
<1>2. TypeOK
  BY <1>1 DEF Init, TypeOK, Sending, Returned
<1>3. PipesInv
  BY DEF Init, PipesInv, NoPipe, Maker
<1>4. \A s \in Sender : pc[s] = "idle"
  BY DEF Init, Maker
<1>5. /\ sent = << >> /\ \A i \in Pipe : data[i] = << >>
      /\ \A l \in Listener : text[l] = << >> /\ ran[l] = << >> /\ reader_at[l] = NoPipe
  BY DEF Init
<1>6. /\ \A x : ~ Has(sent, x) /\ ~ InPipe(x)
      /\ \A l \in Listener : \A x : ~ Has(text[l], x) /\ ~ HasRun(l, x)
      /\ \A i \in Pipe : \A x : ~ Has(data[i], x)
  <2>1. Len(<< >>) = 0
    BY EmptySeq
  <2> QED BY <1>5, <2>1, HasNone DEF InPipe, HasRun
<1>7. SentInv /\ PlaceInv
  BY <1>4, <1>6 DEF SentInv, PlaceInv
<1>8. DistinctInv /\ OpenInv
  BY <1>5, <1>6, HasNone DEF DistinctInv, OpenInv
<1>9. OrderInv
  BY <1>5, <1>6, SortedMore DEF OrderInv
<1>10. AloneInv
  BY <1>5, HasNone DEF AloneInv, Continues
<1> QED BY <1>2, <1>3, <1>7, <1>8, <1>9, <1>10 DEF IInv

(* The invariant is inductive.                                             *)
LEMMA NextKeepsIInv == IInv /\ [Next]_vars => IInv'
BY NextKeepsTypeOK, NextKeepsPipesInv, NextKeepsSentInv, NextKeepsPlaceInv, NextKeepsDistinctInv,
   NextKeepsOpenInv, NextKeepsOrderInv, NextKeepsAloneInv
DEF IInv

(* The invariant holds of every behaviour.                                 *)
LEMMA Invariance == Spec => []IInv
BY InitEstablishesIInv, NextKeepsIInv, PTL DEF Spec
-----------------------------------------------------------------------------
(* Theorems *)

(* Senders, listeners and pipes keep their types: no more pipes are made   *)
(* than one for each time the path was free, however many processes find   *)
(* no pipe at the same time (session.rs, the exists and mkfifo of senders).*)
THEOREM TypeCorrect == Spec => []TypeOK
BY Invariance, PTL DEF IInv

Answer == [s \in Sender |-> IF pc[s] \in Returned THEN pc[s] ELSE "none"]
Joined == {l \in Listener : reader_at[l] # NoPipe}

(* What a sender's step is to CommandDelivery: an answer, unless it is     *)
(* still under way.                                                        *)
LEMMA AnswerOrStutter ==
  ASSUME IInv, NEW m \in Maker, NEW a \in Returned,
         pc[m] \notin Returned, pc' = [pc EXCEPT ![m] = a],
         m \in Sender => /\ a = "ok" => Has(sent, m)
                         /\ a = "failed" => ~ Has(sent, m),
         UNCHANGED <<sent, ran, purges, reader_at>>
  PROVE  [Delivery!Next]_(Delivery!vars)
<1>1. pc \in [Maker -> {"idle", "kept"} \cup Sending \cup Returned] /\ Sender \subseteq Maker
  BY DEF IInv, TypeOK, Maker
<1>2. CASE m \in Sender
  <2>1. Answer' = [Answer EXCEPT ![m] = a] /\ Answer[m] = "none"
    BY <1>1, <1>2 DEF Answer
  <2>2. Delivery!Answer(m, a)
    BY <1>2, <2>1 DEF Delivery!Answer, Delivery!In, Has, Answer
  <2> QED BY <1>2, <2>2 DEF Delivery!Next, Returned
<1>3. CASE m \notin Sender
  <2>1. Answer' = Answer
    BY <1>1, <1>3 DEF Answer
  <2> QED BY <2>1 DEF Delivery!vars, Answer
<1> QED BY <1>2, <1>3

(* What a listener takes for a command, it may run.                        *)
LEMMA CloseRuns ==
  ASSUME IInv, NEW l \in Listener, ListenerClose(l), ran' = [ran EXCEPT ![l] = Append(@, text[l])],
         IsCommand(text[l]) \/ MayParse(text[l])
  PROVE  Delivery!Run(l, text[l])
<1>1. UNCHANGED <<pc, sent, purges, reader_at>> /\ reader[l] = "eof" /\ purges \in Nat
  BY DEF IInv, TypeOK, ListenerClose
<1>2. PICK t \in Seq(Piece) : t = text[l]
  BY DEF IInv, TypeOK
<1>3. ASSUME NEW k \in 1 .. Len(t)
      PROVE  /\ t[k] \in Piece /\ Has(t, t[k]) /\ Has(sent, t[k][1])
             /\ Answer[t[k][1]] \in {"ok", "killed"}
             /\ \A o \in Listener : ~ HasRun(o, t[k])
  <2>1. t[k] \in Piece /\ t[k][1] \in Sender /\ Has(t, t[k])
    BY <1>2, ElementOfSeq DEF Has, Piece
  <2>2. Has(sent, t[k][1]) /\ \A o \in Listener : ~ HasRun(o, t[k])
    BY <1>2, <2>1 DEF IInv, PlaceInv
  <2>3. pc[t[k][1]] \in {"ok", "killed"}
    BY <1>1, <1>2, <2>1, <2>2 DEF IInv, SentInv, OpenInv
  <2> QED BY <2>1, <2>2, <2>3 DEF Answer, Returned
<1>4. \A k, m \in 1 .. Len(t) : t[m] = t[k] => m = k
  BY <1>2 DEF IInv, DistinctInv, Distinct
<1>5. ASSUME purges = 0
      PROVE  /\ \A k, m \in 1 .. Len(t) : k < m => Precedes(sent, t[k], t[m])
             /\ \A k \in 1 .. Len(t), j \in 1 .. Len(ran[l]) : \A i \in 1 .. Len(ran[l][j]) :
                   Precedes(sent, ran[l][j][i], t[k])
  <2>1. \A k, m \in 1 .. Len(t) : k < m => Precedes(sent, t[k], t[m])
    BY <1>2, <1>5 DEF IInv, OrderInv, Sorted
  <2>2. ASSUME NEW k \in 1 .. Len(t), NEW j \in 1 .. Len(ran[l]), NEW i \in 1 .. Len(ran[l][j])
        PROVE  Precedes(sent, ran[l][j][i], t[k])
    <3>1. ran[l] \in Seq(Seq(Piece))
      BY DEF IInv, TypeOK
    <3>2. ran[l][j] \in Seq(Piece)
      BY <3>1, ElementOfSeq
    <3>3. ran[l][j][i] \in Piece /\ HasRun(l, ran[l][j][i])
      BY <3>2, ElementOfSeq DEF HasRun, Has
    <3>4. t[k] \in Piece /\ Has(text[l], t[k])
      BY <1>2, <1>3
    <3> QED BY <1>5, <3>3, <3>4 DEF IInv, OrderInv
  <2> QED BY <2>1, <2>2
<1>6. (\E s \in Sender : t = Whole(s)) \/ (\E o \in Joined : o # l)
  <2>1. ASSUME Alone(l) PROVE IsCommand(t)
    BY <1>2, <2>1 DEF IInv, AloneInv, MayParse
  <2>2. ASSUME ~ Alone(l) PROVE \E o \in Joined : o # l
    BY <1>1, <2>2 DEF Alone, Joined
  <2> QED BY <2>1, <2>2 DEF IsCommand
<1>7. Answer' = Answer /\ Joined' = Joined
  BY <1>1 DEF Answer, Joined
<1>8. \A p, q : Precedes(sent, p, q) <=> Delivery!Precedes(p, q)
  BY DEF Precedes, Before, Delivery!Precedes, Delivery!SentBefore
<1>9. \A s \in Sender : Whole(s) = Delivery!Whole(s)
  BY DEF Whole, Delivery!Whole
<1>10. \A k \in 1 .. Len(t) :
         /\ Delivery!In(t[k][1], sent) /\ Answer[t[k][1]] \in {"ok", "killed"}
         /\ \A o \in Listener : \A j \in 1 .. Len(ran[o]) : ~ Delivery!In(t[k], ran[o][j])
         /\ \A m \in 1 .. Len(t) : t[m] = t[k] => m = k
         /\ purges > 0 \/ \A j \in 1 .. Len(ran[l]) : \A i \in 1 .. Len(ran[l][j]) :
                             Delivery!Precedes(ran[l][j][i], t[k])
  <2> SUFFICES ASSUME NEW k \in 1 .. Len(t)
               PROVE  /\ Delivery!In(t[k][1], sent) /\ Answer[t[k][1]] \in {"ok", "killed"}
                      /\ \A o \in Listener : \A j \in 1 .. Len(ran[o]) : ~ Delivery!In(t[k], ran[o][j])
                      /\ \A m \in 1 .. Len(t) : t[m] = t[k] => m = k
                      /\ purges > 0 \/ \A j \in 1 .. Len(ran[l]) : \A i \in 1 .. Len(ran[l][j]) :
                                          Delivery!Precedes(ran[l][j][i], t[k])
    OBVIOUS
  <2>1. Delivery!In(t[k][1], sent) /\ Answer[t[k][1]] \in {"ok", "killed"}
    BY <1>3 DEF Delivery!In, Has
  <2>2. \A o \in Listener : \A j \in 1 .. Len(ran[o]) : ~ Delivery!In(t[k], ran[o][j])
    <3>1. \A o \in Listener : ~ HasRun(o, t[k])
      BY <1>3
    <3> QED BY <3>1 DEF Delivery!In, Has, HasRun
  <2>3. \A m \in 1 .. Len(t) : t[m] = t[k] => m = k
    BY <1>4
  <2>4. purges > 0 \/ \A j \in 1 .. Len(ran[l]) : \A i \in 1 .. Len(ran[l][j]) :
                         Delivery!Precedes(ran[l][j][i], t[k])
    BY <1>1, <1>5, <1>8
  <2> QED BY <2>1, <2>2, <2>3, <2>4
<1>11. purges > 0 \/ \A k, m \in 1 .. Len(t) : k < m => Delivery!Precedes(t[k], t[m])
  BY <1>1, <1>5, <1>8
<1>12. (\E s \in Sender : t = Delivery!Whole(s)) \/ (\E o \in Joined : o # l)
  BY <1>6, <1>9
<1>13. ran' = [ran EXCEPT ![l] = Append(@, t)] /\ UNCHANGED <<Answer, sent, Joined>> /\ purges' = purges
  BY <1>1, <1>2, <1>7
<1>14. Delivery!Run(l, t)
  BY <1>10, <1>11, <1>12, <1>13 DEF Delivery!Run, Answer, Joined
<1> QED BY <1>2, <1>14

(* Every step is a step of the abstract specification or leaves what it    *)
(* sees alone.                                                             *)
LEMMA StepIsDeliveryStep ==
  ASSUME IInv, [Next]_vars
  PROVE  [Delivery!Next]_(Delivery!vars)
<1>1. pc \in [Maker -> {"idle", "kept"} \cup Sending \cup Returned] /\ Sender \subseteq Maker
  BY DEF IInv, TypeOK, Maker
<1>2. ASSUME Answer' = Answer, UNCHANGED <<sent, ran, purges, reader_at>>
      PROVE  [Delivery!Next]_(Delivery!vars)
  BY <1>2 DEF Delivery!vars, Answer
<1>3. ASSUME NEW m \in Maker, Check(m) PROVE [Delivery!Next]_(Delivery!vars)
  <2>1. Answer' = Answer
    BY <1>1, <1>3 DEF Answer, Check, Returned
  <2> QED BY <1>2, <1>3, <2>1 DEF Check
<1>4. ASSUME NEW m \in Maker, Make(m) PROVE [Delivery!Next]_(Delivery!vars)
  <2>1. CASE pc' = [pc EXCEPT ![m] = "failed"]
    <3>1. m \in Sender => ~ Has(sent, m)
      BY <1>4 DEF IInv, SentInv, Make
    <3> QED BY <1>4, <2>1, <3>1, AnswerOrStutter DEF Make, Returned
  <2>2. CASE pc' = [pc EXCEPT ![m] = IF m = SessionProcess THEN "kept" ELSE "open"]
    <3>1. Answer' = Answer
      BY <1>1, <1>4, <2>2 DEF Answer, Make, Returned
    <3> QED BY <1>2, <1>4, <3>1 DEF Make
  <2> QED BY <1>4, <2>1, <2>2 DEF Make
<1>5. ASSUME NEW s \in Sender, Open(s) PROVE [Delivery!Next]_(Delivery!vars)
  <2>1. CASE pc' = [pc EXCEPT ![s] = "failed"]
    <3>1. ~ Has(sent, s)
      BY <1>5 DEF IInv, SentInv, Open
    <3> QED BY <1>1, <1>5, <2>1, <3>1, AnswerOrStutter DEF Open, Returned
  <2>2. CASE pc' = [pc EXCEPT ![s] = IF Readers(path) # {} THEN "write" ELSE "wait"]
    <3>1. Answer' = Answer
      BY <1>1, <1>5, <2>2 DEF Answer, Open, Returned
    <3> QED BY <1>2, <1>5, <3>1 DEF Open
  <2> QED BY <1>5, <2>1, <2>2 DEF Open
<1>6. ASSUME NEW s \in Sender, Write(s) PROVE [Delivery!Next]_(Delivery!vars)
  <2>1. pc[s] = "write" /\ ~ Has(sent, s) /\ UNCHANGED <<ran, purges, reader_at>>
    BY <1>6 DEF IInv, SentInv, Write
  <2>2. CASE pc' = [pc EXCEPT ![s] = "failed"] /\ UNCHANGED sent
    BY <1>1, <2>1, <2>2, AnswerOrStutter DEF Returned
  <2>3. CASE pc' = [pc EXCEPT ![s] = "close"] /\ sent' = Append(sent, s)
    <3>1. Answer' = Answer /\ Answer[s] = "none"
      BY <1>1, <2>1, <2>3 DEF Answer, Returned
    <3>2. Delivery!Send(s)
      BY <2>1, <2>3, <3>1 DEF Delivery!Send, Delivery!In, Has, Answer
    <3> QED BY <3>2 DEF Delivery!Next
  <2> QED BY <1>6, <2>2, <2>3 DEF Write
<1>7. ASSUME NEW s \in Sender, Close(s) PROVE [Delivery!Next]_(Delivery!vars)
  <2>1. Has(sent, s)
    BY <1>7 DEF IInv, SentInv, Close
  <2> QED BY <1>1, <1>7, <2>1, AnswerOrStutter DEF Close, Returned
<1>8. ASSUME NEW s \in Sender, Kill(s) PROVE [Delivery!Next]_(Delivery!vars)
  BY <1>1, <1>8, AnswerOrStutter DEF Kill, Returned, Sending
<1>9. ASSUME NEW l \in Listener, ListenerOpen(l) PROVE [Delivery!Next]_(Delivery!vars)
  <2>1. Answer' = Answer /\ UNCHANGED <<sent, ran, purges>>
    BY <1>1, <1>9 DEF Answer, ListenerOpen, Returned
  <2>2. Joined' = Joined \cup {l}
    BY <1>9 DEF IInv, TypeOK, ListenerOpen, Joined
  <2>3. Delivery!Join(l)
    BY <2>1, <2>2 DEF Delivery!Join, Answer, Joined
  <2> QED BY <2>3 DEF Delivery!Next
<1>10. ASSUME NEW l \in Listener, ListenerRead(l) \/ ListenerEof(l) \/ ListenerEnds(l)
       PROVE  [Delivery!Next]_(Delivery!vars)
  BY <1>2, <1>10 DEF Answer, ListenerRead, ListenerEof, ListenerEnds
<1>11. ASSUME NEW l \in Listener, ListenerClose(l) PROVE [Delivery!Next]_(Delivery!vars)
  <2>1. CASE UNCHANGED ran
    BY <1>2, <1>11, <2>1 DEF ListenerClose, Answer
  <2>2. CASE ~ UNCHANGED ran
    <3>1. Delivery!Run(l, text[l])
      BY <1>11, <2>2, CloseRuns DEF ListenerClose, Parse
    <3>2. text[l] \in Delivery!ToSet(ran'[l])
      <4>1. ran[l] \in Seq(Seq(Piece)) /\ text[l] \in Seq(Piece) /\ ran'[l] = Append(ran[l], text[l])
        BY <1>11, <2>2 DEF IInv, TypeOK, ListenerClose, Parse
      <4>2. /\ Len(ran'[l]) = Len(ran[l]) + 1 /\ Len(ran[l]) \in Nat
            /\ ran'[l][Len(ran[l]) + 1] = text[l]
        BY <4>1, AppendProperties, LenProperties
      <4>3. Len(ran[l]) + 1 \in DOMAIN ran'[l]
        BY <4>1, <4>2, AppendProperties
      <4> QED BY <4>2, <4>3 DEF Delivery!ToSet
    <3> QED BY <3>1, <3>2 DEF Delivery!Next
  <2> QED BY <2>1, <2>2
<1>12. CASE Purge
  <2>1. purges' > 0 /\ UNCHANGED <<pc, sent, ran, reader_at>>
    BY <1>12 DEF IInv, TypeOK, Purge
  <2> QED BY <2>1 DEF Delivery!Next, Delivery!Replace
<1>13. CASE UNCHANGED vars
  BY <1>2, <1>13 DEF vars, Answer
<1> QED BY <1>3, <1>4, <1>5, <1>6, <1>7, <1>8, <1>9, <1>10, <1>11, <1>12, <1>13
        DEF Next, ListenerStep

(* CommandPipe implements CommandDelivery: whatever the senders, the       *)
(* listeners, the purges and the interrupts do in whatever order, and into *)
(* however many pieces the listeners cut the commands, no piece is run     *)
(* twice, a command's pieces only after its sender has let go of the pipe  *)
(* and never when it was told of a failure, in the order of sending while  *)
(* there is one pipe, and by a listener that no other one has joined as    *)
(* whole commands (send_bind_command, send_mount_command and               *)
(* run_command_listener).                                                  *)
THEOREM ImplementsCommandDelivery == Spec => DeliveredAtMostOnce
<1>1. Init => Delivery!Init
  <2> SUFFICES ASSUME Init PROVE Delivery!Init
    OBVIOUS
  <2>1. Answer = [s \in Sender |-> "none"]
    BY DEF Init, Answer, Returned, Maker
  <2>2. Joined = {}
    BY DEF Init, Joined
  <2> QED BY <2>1, <2>2 DEF Init, Delivery!Init, Answer, Joined
<1>2. IInv /\ [Next]_vars => [Delivery!Next]_(Delivery!vars)
  BY StepIsDeliveryStep
<1> QED BY <1>1, <1>2, Invariance, PTL DEF Spec, DeliveredAtMostOnce, Delivery!Spec
=============================================================================
