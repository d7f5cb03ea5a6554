----------------------------- MODULE MCSession -----------------------------
(***************************************************************************)
(* Two spellings of one target directory.  Sources, and spellings, differ  *)
(* in nothing but their name.                                              *)
(***************************************************************************)
EXTENDS Session

CONSTANTS dir, s, r, t, u

MCSource == {s, r}
MCTarget == {t, u}
MCAliases == [p \in Target |-> dir]

MCSymmetry == Permutations(Source) \cup Permutations(Target)
=============================================================================
