----------------------------- MODULE MCEntrance -----------------------------
(***************************************************************************)
(* Instances of Entrance for TLC.                                          *)
(***************************************************************************)
EXTENDS Entrance, TLC

CONSTANTS p1, p2, p3, e1, e2

\* The plates that are alike: the permitted ones.  Entrances are alike too.
Symmetry == Permutations(Permitted) \cup Permutations(Entrances)

=============================================================================
