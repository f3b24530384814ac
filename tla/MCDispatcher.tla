---------------------------- MODULE MCDispatcher ----------------------------
(* Instances of Dispatcher for TLC. *)
EXTENDS Dispatcher, TLC

Symmetry == Permutations(Root) \cup Permutations(Node) \cup Permutations(Job)
=============================================================================
