------------------------- MODULE MCDispatcherHistory -------------------------
(***************************************************************************)
(* The instances of Dispatcher with its histories and with its abstract    *)
(* queue, and the permutations their safety properties do not see.         *)
(***************************************************************************)
EXTENDS DispatcherRefinement, DispatcherHistory, TLC

Symmetry == Permutations(Msgs) \cup Permutations(Workers)
              \cup Permutations(Requests) \cup Permutations(Providers)
=============================================================================
