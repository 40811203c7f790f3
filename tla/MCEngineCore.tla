----------------------------- MODULE MCEngineCore -----------------------------
(* Small instances of EngineCore. *)
EXTENDS EngineCore

Simple(units, output) == [units |-> units, output |-> output, thinking |-> 0, thinks |-> FALSE]

(* Four requests on three lanes.  Beside the donor 1 there is room for both 3 and
   4, beside the blocked head 2 only for one of them; 1 and 3 run long enough to
   be active still when 4 is examined. *)
BackfillDemand == 1 :> 2 @@ 2 :> 3 @@ 3 :> 1 @@ 4 :> 1
BackfillPlan   == 1 :> Simple(1, 4) @@ 2 :> Simple(1, 1) @@ 3 :> Simple(1, 3) @@ 4 :> Simple(1, 1)

(* Three requests on two lanes: 3 can be admitted past 2 while 1 is active. *)
QueueDemand == 1 :> 2 @@ 2 :> 3 @@ 3 :> 1
QueuePlan   == 1 :> [units |-> 1, output |-> 3, thinking |-> 1, thinks |-> TRUE]
               @@ 2 :> Simple(2, 1) @@ 3 :> Simple(1, 2)

=============================================================================
