----------------------------- MODULE MCGeneration -----------------------------
(* All request plans within small bounds, for model checking Generation. *)
EXTENDS Generation

CONSTANTS MaxUnits, MaxOutput, MaxThinking

MCPlans == [units : 1 .. MaxUnits, output : 1 .. MaxOutput,
            thinking : 0 .. MaxThinking, thinks : BOOLEAN]

=============================================================================
