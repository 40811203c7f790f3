---------------------------- MODULE MCMediaCache ----------------------------
(***************************************************************************)
(* Instances of MediaCache for TLC.                                        *)
(***************************************************************************)
EXTENDS MediaCache, TLC

CONSTANTS a, b, c

MCBytes == a :> 1 @@ b :> 1 @@ c :> 2

\* Repeated, shared and maximal parts, all within a budget of 2.
WithinBudget == {<<a, b>>, <<c>>, <<a, a>>}

\* Also a prompt that exceeds it.
AnyBudget == {<<a, b>>, <<b, c>>}

Symmetry == Permutations(Requests)
=============================================================================
