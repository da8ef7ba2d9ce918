---------------------------- MODULE ShapeStoreMC ----------------------------
(***************************************************************************)
(* ShapeStore on small instances.                                          *)
(***************************************************************************)
EXTENDS ShapeStore, TLC

\* Connections and texts are interchangeable.
Symmetry == Permutations(Sessions) \cup Permutations(Texts)

=============================================================================
