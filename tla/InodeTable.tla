----------------------------- MODULE InodeTable -----------------------------
(***************************************************************************)
(* What the users of NamespaceManager.bindings may rely on: an inode       *)
(* number is an identity.  A client of the filesystem that remembers an    *)
(* inode number (a FUSE kernel does) either finds the same file under it   *)
(* later, or finds nothing; it never finds another file.  The root is      *)
(* always there.                                                           *)
(*                                                                         *)
(* The table is a partial function from inode numbers to files; issued is  *)
(* the set of numbers handed out so far, whether they are still in the     *)
(* table or not.  How an operation picks the files it adds and the entries *)
(* it drops is left open: FilesystemManager says it.                       *)
(***************************************************************************)
CONSTANT Root       \* the inode number of the root directory

VARIABLES table, issued

vars == <<table, issued>>

Init ==
  /\ DOMAIN table = {Root}
  /\ issued = {Root}

(* Some numbers are issued, some entries are added under numbers issued by *)
(* this very step, some entries are dropped.                               *)
Update ==
  /\ issued \subseteq issued'
  /\ DOMAIN table' \subseteq issued'
  /\ Root \in DOMAIN table'
  /\ \A i \in DOMAIN table' \cap issued :
        i \in DOMAIN table /\ table'[i] = table[i]

Next == Update

Spec == Init /\ [][Next]_vars
=============================================================================
