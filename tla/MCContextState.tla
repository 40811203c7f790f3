---------------------------- MODULE MCContextState ----------------------------
EXTENDS ContextState, TLC

\* logical_state_capacity: one image per slot of either pool
MCHostSlots == {11}
MCFewImages == 1..3
MCFewDevSlots == 1..2
Interchangeable == Permutations(Conts)
===============================================================================
