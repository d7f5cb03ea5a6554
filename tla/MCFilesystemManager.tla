------------------------ MODULE MCFilesystemManager ------------------------
(***************************************************************************)
(* Two directories of a small host, each of them a possible source and     *)
(* target of every call, and a path that names nothing.  src holds a       *)
(* symbolic link a and a directory d with a file a in it, so that a walk   *)
(* of src has two orders and meets one name twice; tgt holds a file a,     *)
(* which clashes with both, and a file b, which clashes with nothing.      *)
(***************************************************************************)
EXTENDS FilesystemManager

CONSTANTS src, srcA, srcD, srcDA, tgt, tgtA, tgtB

MCPath == {"/src", "/tgt", "/gone"}
MCNode == {src, srcA, srcD, srcDA, tgt, tgtA, tgtB}
MCName == {"src", "tgt", "a", "b", "d"}
MCCanon == [p \in MCPath |-> CASE p = "/src" -> src [] p = "/tgt" -> tgt [] OTHER -> NoNode]
MCKind == [n \in MCNode |->
             IF n \in {src, srcD, tgt} THEN "dir" ELSE IF n = srcA THEN "other" ELSE "file"]
MCNameOf == [n \in MCNode |->
               CASE n = src -> "src" [] n = tgt -> "tgt" [] n = srcD -> "d" [] n = tgtB -> "b"
                 [] OTHER -> "a"]
MCChildren == [n \in MCNode |->
                 CASE n = src -> {srcA, srcD} [] n = srcD -> {srcDA} [] n = tgt -> {tgtA, tgtB}
                   [] OTHER -> {}]

(* A table that an earlier call filled, cleared or half filled meets every *)
(* second call, and a target gets two entries.  The other one is for the   *)
(* run that looks for a short counterexample.                              *)
MCMaxInode == <<6, 3>>
MCMaxInodeFlat == <<6, 6>>

(* ret only reports: no guard reads it, so states that differ in it alone  *)
(* have the same future.  The properties about ret are about steps.        *)
StateView == <<namespace, bindings, next_inode>>
=============================================================================
