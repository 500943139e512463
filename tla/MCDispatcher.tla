---------------------------- MODULE MCDispatcher ----------------------------
(***************************************************************************)
(* The instances of Dispatcher that TLC checks; the configurations give    *)
(* the constants their values.  Messages, workers, requests and providers  *)
(* are interchangeable in every safety property.                           *)
(***************************************************************************)
EXTENDS Dispatcher, TLC

Symmetry == Permutations(Msgs) \cup Permutations(Workers)
              \cup Permutations(Requests) \cup Permutations(Providers)

\* The state without the ghosts delivered and discarded, which no action reads:
\* enough for a safety property that does not mention them.
CodeState == <<rows, spool, ingressVars, dispatchVars, request, sweep, enabled,
               faults, stranded>>
=============================================================================
