------------------------------ MODULE PortalsMC ------------------------------
(***************************************************************************)
(* Portals on a small instance.                                            *)
(***************************************************************************)
EXTENDS Portals, TLC

\* Names, portals and addresses are interchangeable.
Symmetry == Permutations(Names) \cup Permutations(Portals) \cup Permutations(Addresses)

=============================================================================
