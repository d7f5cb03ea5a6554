---------------------------- MODULE CommandDelivery ----------------------------
(***************************************************************************)
(* What sending commands to a session promises, and no more.  Listeners    *)
(* may cut the commands into pieces and divide these among them.  What a   *)
(* listener runs consists of pieces of commands whose senders got them     *)
(* into the session's pipe, have let go of the pipe since, and were not    *)
(* told that sending failed.  No piece is run twice.  A listener that no   *)
(* other one has joined runs whole commands only.  Until the pipe is       *)
(* replaced by another one, each listener runs what it runs in the order   *)
(* in which it was sent.  Commands may be lost.                            *)
(***************************************************************************)
EXTENDS Naturals, SequencesExt

CONSTANTS Command, Listener, Pieces

VARIABLES
  answer,   \* what each command's sender was told, or that it has been killed
  sent,     \* the commands that reached the pipe, in order
  joined,   \* the listeners that have opened the pipe
  ran,      \* what each listener has run: sequences of pieces, in order
  replaced  \* whether the pipe has been unlinked

vars == <<answer, sent, joined, ran, replaced>>

(* A piece says of which command it is, and the how manieth one. *)
Whole(c) == [k \in 1 .. Pieces |-> <<c, k>>]

In(x, q) == \E k \in 1 .. Len(q) : q[k] = x
SentBefore(c, d) == \E k, l \in 1 .. Len(sent) : k < l /\ sent[k] = c /\ sent[l] = d
Precedes(p, q) == SentBefore(p[1], q[1]) \/ (p[1] = q[1] /\ p[2] < q[2])

Init ==
  /\ answer = [c \in Command |-> "none"]
  /\ sent = << >>
  /\ joined = {}
  /\ ran = [l \in Listener |-> << >>]
  /\ replaced = FALSE

Send(c) ==
  /\ answer[c] = "none"
  /\ ~ In(c, sent)
  /\ sent' = Append(sent, c)
  /\ UNCHANGED <<answer, joined, ran, replaced>>

Answer(c, a) ==
  /\ answer[c] = "none"
  /\ a = "ok" => In(c, sent)
  /\ a = "failed" => ~ In(c, sent)
  /\ answer' = [answer EXCEPT ![c] = a]
  /\ UNCHANGED <<sent, joined, ran, replaced>>

Join(l) ==
  /\ joined' = joined \cup {l}
  /\ UNCHANGED <<answer, sent, ran, replaced>>

Run(l, text) ==
  /\ ran' = [ran EXCEPT ![l] = Append(@, text)]
  /\ UNCHANGED <<answer, sent, joined, replaced>>
  /\ \A k \in 1 .. Len(text) :
        LET p == text[k]
        IN  /\ In(p[1], sent)
            /\ answer[p[1]] \in {"ok", "killed"}
            /\ \A o \in Listener : \A j \in 1 .. Len(ran[o]) : ~ In(p, ran[o][j])
            /\ \A m \in 1 .. Len(text) : text[m] = p => m = k
            /\ replaced \/ \A j \in 1 .. Len(ran[l]) : \A i \in 1 .. Len(ran[l][j]) :
                              Precedes(ran[l][j][i], p)
  /\ replaced \/ \A k, m \in 1 .. Len(text) : k < m => Precedes(text[k], text[m])
  /\ (\E c \in Command : text = Whole(c)) \/ (\E o \in joined : o # l)

Replace == replaced' = TRUE /\ UNCHANGED <<answer, sent, joined, ran>>

Next ==
  \/ Replace
  \/ \E c \in Command : Send(c) \/ \E a \in {"ok", "failed", "killed"} : Answer(c, a)
  \/ \E l \in Listener : Join(l) \/ \E text \in ToSet(ran'[l]) : Run(l, text)

Spec == Init /\ [][Next]_vars
=============================================================================
