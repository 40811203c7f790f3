------------------------------ MODULE Generation ------------------------------
(***************************************************************************)
(* The life of one request as its record sees it: the generation budget,   *)
(* the remaining service work the scheduler charges, and the thinking      *)
(* control of its output session.  The environment decides when a step     *)
(* happens, how many tokens a round produces and where output stops.       *)
(***************************************************************************)
EXTENDS OutputSession

CONSTANTS Plans,     \* the request plans: [units, output, thinking, thinks]
          MaxRound   \* the widest decode round of the Program

ASSUME PlanAssumption ==
    /\ \A p \in Plans :
          /\ p.units \in Nat \ {0}      \* prefill units projected for the admitted suffix
          /\ p.output \in Nat \ {0}     \* effective_output_tokens
          /\ p.thinking \in Nat         \* thinking budget, or NoThinkingBudget
          /\ p.thinks \in BOOLEAN       \* the prompt ends inside a thinking phase
    /\ MaxRound \in Nat \ {0}

VARIABLES phase,    \* where the request is; EngineRequestState and ownership
          plan,     \* its RequestPlanSummary
          left,     \* prefill units still to run
          budget,   \* GenerationBudget::remaining_
          work,     \* remaining_service_work
          session   \* OutputSession

generationVars == <<phase, plan, left, budget, work, session>>

Phases == {"new", "rejected", "waiting", "prefill", "decode", "control",
           "finished", "answered"}

Active == {"prefill", "decode", "control"}

Detached == NewSession(FALSE, NoThinkingBudget)

NoPlan == [units |-> 0, output |-> 0, thinking |-> 0, thinks |-> FALSE]

GenerationInit ==
    /\ phase = "new"
    /\ plan = NoPlan
    /\ left = 0
    /\ budget = 0
    /\ work = 0
    /\ session = Detached

(* submit(): a request whose thinking budget leaves no room for the control
   suffix and one token after it is rejected. *)
Submit ==
    /\ phase = "new"
    /\ plan' \in Plans
    /\ phase' = IF ValidateGenerationCapacity(plan'.thinks, plan'.thinking, plan'.output)
                THEN "waiting" ELSE "rejected"
    /\ UNCHANGED <<left, budget, work, session>>

(* Mutant: the first decode round is forgotten as well. *)
ProjectedWorkShort(p) == p.units + p.output - 2

(* projected_service_work(): one quantum per projected prefill unit and per
   token after the first, which the last prefill unit produces. *)
ProjectedWork(p) == p.units + p.output - 1

(* A published materialization is adopted: the request starts its prefill.  The
   projection is an upper bound of the units that advance_prefill() runs (module
   Prefill): a rewrite frontier or a vision item may not end a unit. *)
Admit ==
    /\ phase = "waiting"
    /\ phase' = "prefill"
    /\ left' \in 1 .. plan.units
    /\ budget' = plan.output
    /\ work' = ProjectedWork(plan)
    /\ session' = NewSession(plan.thinks, plan.thinking)
    /\ UNCHANGED plan

(* A prefill unit that does not complete the prompt. *)
PrefillUnit ==
    /\ phase = "prefill"
    /\ left > 1
    /\ left' = left - 1
    /\ work' = work - 1
    /\ UNCHANGED <<phase, plan, budget, session>>

(* preview_model(), commit_pending() for one row of `count` tokens.  A stop
   ends the round early; otherwise the round is accepted whole and ends the
   request when it exhausts the budget.  A decode round is charged by accepted
   token, the last prefill unit by resolve_prefill_progress(), as one unit. *)
Commit(count, decodeRound) ==
    \E accepted \in 1 .. count, stopped \in BOOLEAN :
      /\ stopped \/ accepted = count
      /\ budget' = budget - accepted
      /\ work' = work - (IF decodeRound THEN accepted ELSE 1)
      /\ \E split \in ThinkingSplits(session, accepted) :
           LET fed == FeedModel(session, split) IN
           IF stopped \/ accepted = budget
           THEN phase' = "finished" /\ session' = fed
           ELSE /\ session' = PreviewContinue(fed, plan.thinking)
                /\ phase' = IF session'.control THEN "control" ELSE "decode"

(* The prefill unit that reaches the end of the prompt and yields a token. *)
PrefillLast ==
    /\ phase = "prefill"
    /\ left = 1
    /\ left' = 0
    /\ Commit(1, FALSE)
    /\ UNCHANGED plan

(* A decode round: the Program produces at least one and at most the licensed
   number of tokens. *)
DecodeRound ==
    /\ phase = "decode"
    /\ \E count \in 1 .. MaxRound :
         /\ count <= LicensedTokens(session, plan.thinking, budget)
         /\ Commit(count, TRUE)
    /\ UNCHANGED <<plan, left>>

(* run_control_batch() for this row. *)
ControlBatch ==
    /\ phase = "control"
    /\ phase' = "decode"
    /\ budget' = budget - ControlLength
    /\ work' = work - ControlLength
    /\ session' = PreviewControl(session)
    /\ UNCHANGED <<plan, left>>

(* The record leaves the engine's slots. *)
Release ==
    /\ phase' = "answered"
    /\ left' = 0
    /\ budget' = 0
    /\ work' = 0
    /\ session' = Detached
    /\ UNCHANGED plan

(* settle_terminal_requests() answers a finished request. *)
Settle == phase = "finished" /\ Release

(* The request is cancelled, expires in the queue or is failed with the engine. *)
Interrupt == phase \in {"waiting", "finished"} \cup Active /\ Release

Step == Admit \/ PrefillUnit \/ PrefillLast \/ DecodeRound \/ ControlBatch \/ Settle

GenerationNext == Submit \/ Step \/ Interrupt

GenerationSpec == GenerationInit /\ [][GenerationNext]_generationVars

-----------------------------------------------------------------------------
(* Properties. *)

(* Every variable keeps its type.  left, budget, work and the thinking count are
   unsigned in the code: a value below zero is the overdraw on which
   GenerationBudget::commit() aborts and consume_service_work() throws. *)
GenerationTypeOK ==
    /\ phase \in Phases
    /\ plan \in Plans \cup {NoPlan}
    /\ left \in Nat
    /\ budget \in Nat
    /\ work \in Nat
    /\ session \in Session
    /\ session.used \in Nat

(* The service work the scheduler holds against a request covers all that the
   request can still consume, through prefill, decode and the control suffix
   alike, and never reaches 0 while it is active: consume_service_work() throws
   when work is overdrawn, active_admission_set() when an active request has none. *)
WorkCovers ==
    /\ phase = "prefill" => work >= left + budget - 1 /\ work > 0
    /\ phase \in {"decode", "control"} => work >= budget /\ budget > 0

(* A request that is ready to decode may always produce a token:
   build_round_membership() throws "no licensed model tokens" otherwise. *)
DecodeIsLicensed ==
    phase = "decode" => LicensedTokens(session, plan.thinking, budget) > 0

(* When the control suffix is due it fits the remaining budget and leaves room
   for one model token after it, as submit() promised when it validated the
   request; build_control_membership() throws when the span does not fit. *)
ControlSuffixFits ==
    phase = "control" => session.control /\ budget > ControlLength

(* However rounds are cut, the model never thinks past its budget: preview_model()
   throws "exceeded the licensed thinking budget". *)
ThinkingIsCapped ==
    plan.thinking # NoThinkingBudget => session.used <= plan.thinking

=============================================================================
