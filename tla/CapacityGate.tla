---------------------------- MODULE CapacityGate ----------------------------
(***************************************************************************)
(* What the engine promises about its bounded number of outstanding        *)
(* requests: a permit is taken at most once per request, only while fewer  *)
(* than MaxOutstanding are held, and is given back exactly once.           *)
(* RequestCapacity is the detailed design that implements it.              *)
(***************************************************************************)
EXTENDS Naturals, FiniteSets

CONSTANTS Requests,        \* the requests clients may submit
          MaxOutstanding   \* max_concurrency + max_pending_requests

VARIABLE permit            \* permit[r]: "free", "held" or "settled"

Held == {r \in Requests : permit[r] = "held"}

GateInit == permit = [r \in Requests |-> "free"]

(* A request takes a permit while one is left. *)
Acquire(r) ==
    /\ permit[r] = "free"
    /\ Cardinality(Held) < MaxOutstanding
    /\ permit' = [permit EXCEPT ![r] = "held"]

(* A request is turned away without ever holding a permit. *)
Refuse(r) ==
    /\ permit[r] = "free"
    /\ permit' = [permit EXCEPT ![r] = "settled"]

(* The permit is given back; a settled request never holds one again. *)
Release(r) ==
    /\ permit[r] = "held"
    /\ permit' = [permit EXCEPT ![r] = "settled"]

GateNext == \E r \in Requests : Acquire(r) \/ Refuse(r) \/ Release(r)

GateSpec == GateInit /\ [][GateNext]_permit

=============================================================================
