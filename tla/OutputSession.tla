---------------------------- MODULE OutputSession ----------------------------
(***************************************************************************)
(* The token accounting of OutputSession: how many model tokens a round    *)
(* may license, what a preview decides about the tokens it is given, and   *)
(* when the thinking-control suffix is due.  Text is abstracted away: where *)
(* in a round the thinking phase closes and where a stop token or a stop   *)
(* string completes is chosen by the caller.  A session is the record of   *)
(* SemanticThinkingState fields the accounting reads.                      *)
(***************************************************************************)
EXTENDS Integers

CONSTANT ControlLength     \* thinking_control_tokens->size()

ASSUME ControlAssumption == ControlLength \in Nat \ {0}

(* ThinkingControlOptions::budget is optional and never zero. *)
NoThinkingBudget == 0

Session == [reasoning : BOOLEAN,   \* in_reasoning
            used      : Int,       \* model_thinking_tokens
            control   : BOOLEAN,   \* control_pending
            applied   : BOOLEAN]   \* applied

(* The constructor: the semantic tracker is dormant without a budget. *)
NewSession(thinks, thinking) ==
    [reasoning |-> thinks /\ thinking # NoThinkingBudget,
     used      |-> 0,
     control   |-> FALSE,
     applied   |-> FALSE]

(* Mutant: room for the suffix only, not for a model token after it. *)
ValidatesSuffixOnly(thinks, thinking, effective) ==
    thinks /\ thinking # NoThinkingBudget /\ effective > thinking
        => effective - thinking >= ControlLength

(* validate_generation_capacity() accepts the effective output length. *)
ValidateGenerationCapacity(thinks, thinking, effective) ==
    thinks /\ thinking # NoThinkingBudget /\ effective > thinking
        => effective - thinking >= ControlLength + 1

(* Mutant: the whole remaining budget is licensed while thinking. *)
LicensesEverything(s, thinking, remaining) == remaining

(* model_token_budget_remaining(): the model tokens the next round may produce. *)
LicensedTokens(s, thinking, remaining) ==
    IF thinking = NoThinkingBudget \/ ~s.reasoning \/ s.applied THEN remaining
    ELSE IF s.control \/ s.used >= thinking THEN 0
    ELSE IF remaining < thinking - s.used THEN remaining ELSE thinking - s.used

(* feed_semantic_thinking() over the accepted tokens of a round: `thought` of
   them are counted, and the phase is open afterwards iff `open`. *)
ThinkingSplits(s, accepted) ==
    IF s.reasoning
    THEN {<<accepted, TRUE>>} \cup {<<t, FALSE>> : t \in 1 .. accepted}
    ELSE {<<0, FALSE>>}

FeedModel(s, split) ==
    [reasoning |-> split[2], used |-> s.used + split[1],
     control |-> s.control, applied |-> s.applied]

(* preview_model() ends without a finish reason and the thinking budget is
   used up while the phase is still open. *)
ControlDue(s, thinking) ==
    s.reasoning /\ thinking # NoThinkingBudget /\ s.used = thinking

(* Mutant: the exhausted thinking budget goes unnoticed. *)
PreviewNeverControl(s, thinking) == s

(* preview_model() of a round that neither a stop nor the budget ended. *)
PreviewContinue(s, thinking) ==
    [s EXCEPT !.control = ControlDue(s, thinking)]

(* preview_control(): the canonical suffix closes the thinking phase. *)
PreviewControl(s) ==
    [reasoning |-> FALSE, used |-> s.used, control |-> FALSE, applied |-> TRUE]

=============================================================================
