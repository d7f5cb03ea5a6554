------------------------------- MODULE MCNineP -------------------------------
(***************************************************************************)
(* The name of the root's entry, the path of a fid as a name, which only   *)
(* create can give to a file, and the name of a file of the host.          *)
(***************************************************************************)
EXTENDS NineP

MCHostName == {"a"}
MCName == {RootName, RootPath} \cup MCHostName
=============================================================================
