------------------------- MODULE MCRequestCapacity -------------------------
(* RequestCapacity for TLC: the cfg gives three requests and two units. *)
EXTENDS RequestCapacity

=============================================================================
