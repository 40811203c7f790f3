-------------------------- MODULE MCResponsesStore --------------------------
(***************************************************************************)
(* An instance of ResponsesStore for TLC: small and large responses whose  *)
(* chains fill the store.                                                  *)
(***************************************************************************)
EXTENDS ResponsesStore

MCSizes == {[envelope |-> 1, owned |-> 1], [envelope |-> 2, owned |-> 3]}
=============================================================================
