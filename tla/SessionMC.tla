------------------------------ MODULE SessionMC ------------------------------
(***************************************************************************)
(* Session on small instances.  Each cfg chooses the traffic and the       *)
(* faults its question is about.                                           *)
(***************************************************************************)
EXTENDS Session, TLC

\* Connections differ in nothing but their names, and so do transaction ids.
Symmetry == Permutations(Sessions) \cup Permutations(Txs)

=============================================================================
