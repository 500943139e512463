------------------------------ MODULE MCSwitch ------------------------------
(***************************************************************************)
(* An instance of Switch for TLC: a preferred provider that two workers    *)
(* may use at once and for two messages, and a fallback for only one.      *)
(***************************************************************************)
EXTENDS Switch, TLC

CONSTANTS p1, p2

MCRank == p1 :> 1 @@ p2 :> 2
MCQuota == p1 :> 2 @@ p2 :> 1
MCMaxConcurrent == p1 :> 2 @@ p2 :> 1

Symmetry == Permutations(Workers)
=============================================================================
