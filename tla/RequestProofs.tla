---------------------------- MODULE RequestProofs ----------------------------
(***************************************************************************)
(* Proofs about what surrounds a request: its capacity, its generation     *)
(* budget and the store its response is kept in.                           *)
(*                                                                         *)
(* RequestCapacity, for every finite set of requests and every bound       *)
(* MaxOutstanding.                                                         *)
(*                                                                         *)
(* Generation, for every set of plans, every round width and every length  *)
(* of the control suffix.  WorkCovers, DecodeIsLicensed and                *)
(* ControlSuffixFits are not inductive: that the suffix fits depends on    *)
(* the validation done at submission and on the fact that, while the       *)
(* thinking phase is open, every token spent from the budget was a         *)
(* thinking token (OpenThinking below).                                    *)
(*                                                                         *)
(* ResponsesStore.  A context is the least set of nodes that holds its     *)
(* response and the parent of each of its nodes.  Everything about chains  *)
(* follows from that and from parents being older than their children, and *)
(* the counts of the store follow from chains being linear: entering or    *)
(* erasing a record moves exactly one reference at each node from the      *)
(* newest shared one up.                                                   *)
(***************************************************************************)
EXTENDS RequestCapacity, Generation, ResponsesStore, DataProofs

(* The capacity of the engine. *)

(* The set of requests owning capacity is finite and gains one member or loses
   one member the way outstanding_ is incremented or decremented. *)
LEMMA HoldersFinite == IsFiniteSet(Holders) /\ Cardinality(Holders) \in Nat
<1>1. Holders \subseteq Requests
  BY DEF Holders
<1>2. QED
  BY <1>1, CapacityAssumption, FS_Subset, FS_CardinalityType

(* One more holder is one more unit. *)
LEMMA OneMore ==
    ASSUME NEW S, IsFiniteSet(S), NEW x, x \notin S
    PROVE  Cardinality(S \cup {x}) = Cardinality(S) + 1
BY FS_AddElement

(* One holder less is one unit less, and there was a unit to give. *)
LEMMA OneLess ==
    ASSUME NEW S, IsFiniteSet(S), NEW x \in S
    PROVE  /\ Cardinality(S \ {x}) = Cardinality(S) - 1
           /\ Cardinality(S) # 0
<1>1. Cardinality(S \ {x}) = Cardinality(S) - 1
  BY FS_RemoveElement
<1>2. Cardinality(S) # 0
  BY FS_EmptySet
<1>3. QED
  BY <1>1, <1>2

(* Types, for every action of the two kinds of threads. *)
LEMMA TypeStep ==
    ASSUME CapacityTypeOK, CapacityConserved, WorkerHoldsAnswer, [CapacityNext]_capacityVars
    PROVE  CapacityTypeOK'
<1> USE DEF CapacityTypeOK, ClientStates, WorkerStates, engineVars, requestVars, workerVars,
           ClientMoves, Decremented
<1>1. ASSUME NEW r \in Requests, Client(r)
      PROVE  CapacityTypeOK'
  <2>1. CASE SubmitRefused(r)         BY <2>1 DEF SubmitRefused
  <2>2. CASE SubmitReserve(r)         BY <2>2 DEF SubmitReserve
  <2>3. CASE SubmitBuildFails(r)      BY <2>3 DEF SubmitBuildFails
  <2>4. CASE SubmitEnqueue(r)
    <3>1. client[r] = "building"
      BY <2>4 DEF SubmitEnqueue
    <3>2. r \in Holders
      BY <3>1 DEF Holders
    <3>3. Cardinality(Holders) # 0
      BY <3>2, OneLess, HoldersFinite
    <3>4. outstanding - 1 \in Nat
      BY <3>3 DEF CapacityConserved
    <3>5. QED
      BY <2>4, <3>4 DEF SubmitEnqueue
  <2>5. CASE Wait(r)                  BY <2>5 DEF Wait
  <2>6. CASE WaitReturns(r)           BY <2>6 DEF WaitReturns
  <2>7. CASE AbandonSubmission(r)               BY <2>7 DEF AbandonSubmission
  <2>8. CASE ReleaseConsumer(r)       BY <2>8 DEF ReleaseConsumer
  <2>9. CASE ClientReturnsCapacity(r) BY <2>9 DEF ClientReturnsCapacity
  <2>10. QED
    BY <1>1, <2>1, <2>2, <2>3, <2>4, <2>5, <2>6, <2>7, <2>8, <2>9 DEF Client
<1>2. CASE Stop                  BY <1>2 DEF Stop
<1>3. ASSUME NEW r \in Requests, Take(r)
      PROVE  CapacityTypeOK'
  BY <1>3 DEF Take
<1>4. ASSUME NEW r \in Requests, SetResponse(r)
      PROVE  CapacityTypeOK'
  BY <1>4 DEF SetResponse
<1>5. CASE MarkCompleted         BY <1>5 DEF MarkCompleted
<1>6. CASE WorkerReturnsCapacity BY <1>6 DEF WorkerReturnsCapacity
<1>7. CASE FailAll               BY <1>7 DEF FailAll
<1>8. CASE WorkerExits           BY <1>8 DEF WorkerExits
<1>9. CASE UNCHANGED capacityVars        BY <1>9 DEF capacityVars
<1>10. QED
  BY <1>1, <1>2, <1>3, <1>4, <1>5, <1>6, <1>7, <1>8, <1>9 DEF CapacityNext, Worker

(* Who has the duty to return a request's unit, across every action. *)
LEMMA OwnershipStep ==
    ASSUME CapacityInvariant, [CapacityNext]_capacityVars
    PROVE  NoCapacityLeak' /\ OneThreadReleases' /\ WorkerHoldsAnswer' /\ NoOrphan'
<1> USE CapacityAssumption
    DEF CapacityInvariant, CapacityTypeOK, NoCapacityLeak, OneThreadReleases, WorkerHoldsAnswer,
        NoOrphan, Accepted, ClientStates, WorkerStates, engineVars, requestVars, workerVars,
        ClientMoves
<1> DEFINE Goal == NoCapacityLeak /\ OneThreadReleases /\ WorkerHoldsAnswer /\ NoOrphan
<1>1. ASSUME NEW r \in Requests, Client(r)
      PROVE  Goal'
  <2>1. CASE SubmitRefused(r)         BY <2>1 DEF SubmitRefused
  <2>2. CASE SubmitReserve(r)         BY <2>2 DEF SubmitReserve
  <2>3. CASE SubmitBuildFails(r)      BY <2>3 DEF SubmitBuildFails
  <2>4. CASE SubmitEnqueue(r)         BY <2>4 DEF SubmitEnqueue
  <2>5. CASE Wait(r)                  BY <2>5 DEF Wait
  <2>6. CASE WaitReturns(r)           BY <2>6 DEF WaitReturns
  <2>7. CASE AbandonSubmission(r)               BY <2>7 DEF AbandonSubmission
  <2>8. CASE ReleaseConsumer(r)       BY <2>8 DEF ReleaseConsumer
  <2>9. CASE ClientReturnsCapacity(r) BY <2>9 DEF ClientReturnsCapacity
  <2>10. QED
    BY <1>1, <2>1, <2>2, <2>3, <2>4, <2>5, <2>6, <2>7, <2>8, <2>9 DEF Client
<1>2. CASE Stop                  BY <1>2 DEF Stop
<1>3. ASSUME NEW r \in Requests, Take(r)
      PROVE  Goal'
  BY <1>3 DEF Take
<1>4. ASSUME NEW r \in Requests, SetResponse(r)
      PROVE  Goal'
  BY <1>4 DEF SetResponse
<1>5. CASE MarkCompleted         BY <1>5 DEF MarkCompleted
<1>6. CASE WorkerReturnsCapacity BY <1>6 DEF WorkerReturnsCapacity
<1>7. CASE FailAll               BY <1>7 DEF FailAll
<1>8. CASE WorkerExits           BY <1>8 DEF WorkerExits
<1>9. CASE UNCHANGED capacityVars        BY <1>9 DEF capacityVars
<1>10. QED
  BY <1>1, <1>2, <1>3, <1>4, <1>5, <1>6, <1>7, <1>8, <1>9 DEF CapacityNext, Worker

(* The three things a step can do to the holders of capacity. *)
Idle         == {r \in Requests : client[r] = "idle"}
KeepsPermits == /\ Holders' = Holders /\ outstanding' = outstanding
                /\ Idle' = Idle \/ \E r \in Idle : Idle' = Idle \ {r}
Takes(r)     == /\ r \notin Holders /\ Holders' = Holders \cup {r}
                /\ r \in Idle /\ Idle' = Idle \ {r}
                /\ outstanding < MaxOutstanding /\ outstanding' = outstanding + 1
Returns(r)   == /\ r \in Holders /\ Holders' = Holders \ {r}
                /\ Idle' = Idle
                /\ outstanding' = Decremented(outstanding)

(* A request whose submit() has not started owns nothing. *)
LEMMA IdleOwnsNothing ==
    ASSUME CapacityInvariant
    PROVE  Idle \cap Holders = {}
BY DEF CapacityInvariant, CapacityTypeOK, OneThreadReleases, Idle, Holders, Accepted

(* Every step keeps the holders, adds the submitting one while the bound allows
   it, or removes one that was there. *)
LEMMA HoldersStep ==
    ASSUME CapacityInvariant, [CapacityNext]_capacityVars
    PROVE  KeepsPermits \/ \E r \in Requests : Takes(r) \/ Returns(r)
<1> USE CapacityAssumption
    DEF CapacityInvariant, CapacityTypeOK, OneThreadReleases, WorkerHoldsAnswer,
        Accepted, ClientStates, WorkerStates, engineVars, requestVars, workerVars, ClientMoves,
        Holders, Idle, KeepsPermits, Takes, Returns
<1>1. ASSUME NEW r \in Requests, Client(r)
      PROVE  KeepsPermits \/ Takes(r) \/ Returns(r)
  <2>1. CASE SubmitRefused(r)         BY <2>1 DEF SubmitRefused
  <2>2. CASE SubmitReserve(r)         BY <2>2 DEF SubmitReserve
  <2>3. CASE SubmitBuildFails(r)      BY <2>3 DEF SubmitBuildFails
  <2>4. CASE SubmitEnqueue(r)
    <3>1. CASE stopping \/ failed
      <4>1. r \in Holders /\ Holders' = Holders \ {r} /\ Idle' = Idle
        BY <2>4, <3>1 DEF SubmitEnqueue
      <4>2. Cardinality(Holders) # 0
        BY <4>1, OneLess, HoldersFinite
      <4>3. outstanding' = Decremented(outstanding)
        BY <2>4, <3>1, <4>2 DEF SubmitEnqueue, CapacityConserved, Decremented
      <4>4. QED
        BY <4>1, <4>3
    <3>2. CASE ~(stopping \/ failed)
      BY <2>4, <3>2 DEF SubmitEnqueue
    <3>3. QED
      BY <3>1, <3>2
  <2>5. CASE Wait(r)                  BY <2>5 DEF Wait
  <2>6. CASE WaitReturns(r)           BY <2>6 DEF WaitReturns
  <2>7. CASE AbandonSubmission(r)               BY <2>7 DEF AbandonSubmission
  <2>8. CASE ReleaseConsumer(r)       BY <2>8 DEF ReleaseConsumer
  <2>9. CASE ClientReturnsCapacity(r) BY <2>9 DEF ClientReturnsCapacity
  <2>10. QED
    BY <1>1, <2>1, <2>2, <2>3, <2>4, <2>5, <2>6, <2>7, <2>8, <2>9 DEF Client
<1>2. CASE Stop                  BY <1>2 DEF Stop
<1>3. ASSUME NEW r \in Requests, Take(r)
      PROVE  KeepsPermits
  BY <1>3 DEF Take
<1>4. ASSUME NEW r \in Requests, SetResponse(r)
      PROVE  KeepsPermits
  BY <1>4 DEF SetResponse
<1>5. CASE MarkCompleted         BY <1>5 DEF MarkCompleted
<1>6. CASE WorkerReturnsCapacity BY <1>6 DEF WorkerReturnsCapacity
<1>7. CASE FailAll               BY <1>7 DEF FailAll
<1>8. CASE WorkerExits           BY <1>8 DEF WorkerExits
<1>9. CASE UNCHANGED capacityVars        BY <1>9 DEF capacityVars
<1>10. QED
  BY <1>1, <1>2, <1>3, <1>4, <1>5, <1>6, <1>7, <1>8, <1>9 DEF CapacityNext, Worker

(* outstanding_ follows the number of holders through every step. *)
LEMMA CountStep ==
    ASSUME CapacityInvariant, [CapacityNext]_capacityVars
    PROVE  CapacityConserved'
<1> USE DEF CapacityConserved
<1>1. /\ outstanding = Cardinality(Holders) /\ outstanding \in Nat
      /\ outstanding <= MaxOutstanding /\ MaxOutstanding \in Nat
  BY CapacityAssumption DEF CapacityInvariant, CapacityTypeOK
<1>2. CASE KeepsPermits
  BY <1>1, <1>2 DEF KeepsPermits
<1>3. ASSUME NEW r \in Requests, Takes(r)
      PROVE  CapacityConserved'
  <2>1. Cardinality(Holders') = Cardinality(Holders) + 1
    BY <1>3, OneMore, HoldersFinite DEF Takes
  <2>2. QED
    BY <1>1, <1>3, <2>1 DEF Takes
<1>4. ASSUME NEW r \in Requests, Returns(r)
      PROVE  CapacityConserved'
  <2>1. Cardinality(Holders') = Cardinality(Holders) - 1 /\ Cardinality(Holders) # 0
    BY <1>4, OneLess, HoldersFinite DEF Returns
  <2>2. QED
    BY <1>1, <1>4, <2>1 DEF Returns, Decremented
<1>5. QED
  BY <1>2, <1>3, <1>4, HoldersStep

(* Initially nobody holds capacity. *)
LEMMA CapacityInitially == CapacityInit => CapacityInvariant
<1> SUFFICES ASSUME CapacityInit PROVE CapacityInvariant
  OBVIOUS
<1>1. Holders = {}
  BY DEF CapacityInit, Holders, Accepted
<1>2. CapacityConserved
  BY <1>1, FS_EmptySet, CapacityAssumption DEF CapacityInit, CapacityConserved
<1>3. CapacityTypeOK /\ NoCapacityLeak /\ OneThreadReleases /\ WorkerHoldsAnswer /\ NoOrphan
  BY CapacityAssumption
     DEF CapacityInit, CapacityTypeOK, NoCapacityLeak, OneThreadReleases, WorkerHoldsAnswer, NoOrphan,
         Accepted, ClientStates, WorkerStates
<1>4. QED
  BY <1>2, <1>3 DEF CapacityInvariant

(* The inductive invariant of the accounting holds in every reachable state,
   for any number of clients and any bound. *)
THEOREM CapacityInvariantHolds == CapacitySpec => []CapacityInvariant
<1>1. CapacityInvariant /\ [CapacityNext]_capacityVars => CapacityInvariant'
  <2> SUFFICES ASSUME CapacityInvariant, [CapacityNext]_capacityVars PROVE CapacityInvariant'
    OBVIOUS
  <2>1. CapacityTypeOK'
    BY TypeStep DEF CapacityInvariant
  <2>2. CapacityConserved'
    BY CountStep
  <2>3. NoCapacityLeak' /\ OneThreadReleases' /\ WorkerHoldsAnswer' /\ NoOrphan'
    BY OwnershipStep
  <2>4. QED
    BY <2>1, <2>2, <2>3 DEF CapacityInvariant
<1>2. QED
  BY CapacityInitially, <1>1, PTL DEF CapacitySpec

(* outstanding_ is exactly the number of requests that still own capacity and
   never exceeds max_outstanding_. *)
THEOREM CapacityConservedHolds == CapacitySpec => []CapacityConserved
<1>1. CapacityInvariant => CapacityConserved
  BY DEF CapacityInvariant
<1>2. QED
  BY <1>1, CapacityInvariantHolds, PTL

(* No accepted request is left where neither the worker nor fail_all_locked()
   finds it. *)
THEOREM NoOrphanHolds == CapacitySpec => []NoOrphan
<1>1. CapacityInvariant => NoOrphan
  BY DEF CapacityInvariant
<1>2. QED
  BY <1>1, CapacityInvariantHolds, PTL

(* Every step of the accounting is a step of the abstract gate, or invisible to
   it. *)
LEMMA GateStep ==
    ASSUME CapacityInvariant, [CapacityNext]_capacityVars
    PROVE  [Gate!GateNext]_Permit
<1> USE DEF Permit, Idle
<1>1. Idle \cap Holders = {} /\ Idle \subseteq Requests /\ Holders \subseteq Requests
  BY IdleOwnsNothing DEF Holders
<1>2. Permit = [r \in Requests |-> IF r \in Holders THEN "held"
                                   ELSE IF r \in Idle THEN "free" ELSE "settled"]
  OBVIOUS
<1>3. Permit' = [r \in Requests |-> IF r \in Holders' THEN "held"
                                    ELSE IF r \in Idle' THEN "free" ELSE "settled"]
  OBVIOUS
<1>4. Gate!Held = Holders
  BY <1>1 DEF Gate!Held
<1> HIDE DEF Permit, Idle
<1>5. CASE KeepsPermits
  <2>1. CASE Idle' = Idle
    BY <1>2, <1>3, <1>5, <2>1 DEF KeepsPermits
  <2>2. ASSUME NEW r \in Idle, Idle' = Idle \ {r}
        PROVE  Gate!Refuse(r)
    BY <1>1, <1>2, <1>3, <1>5, <2>2 DEF KeepsPermits, Gate!Refuse
  <2>3. QED
    BY <1>1, <1>5, <2>1, <2>2 DEF KeepsPermits, Gate!GateNext
<1>6. ASSUME NEW r \in Requests, Takes(r)
      PROVE  Gate!Acquire(r)
  <2>1. Gate!Cardinality(Gate!Held) < MaxOutstanding
    <3>1. Cardinality(Gate!Held) < MaxOutstanding
      BY <1>4, <1>6 DEF Takes, CapacityInvariant, CapacityConserved
    <3>2. Gate!Cardinality(Gate!Held) = Cardinality(Gate!Held)
      BY DEF Gate!Cardinality, Cardinality
    <3>3. QED
      BY <3>1, <3>2
  <2>2. Permit[r] = "free" /\ Permit' = [Permit EXCEPT ![r] = "held"]
    BY <1>1, <1>2, <1>3, <1>6 DEF Takes
  <2>3. QED
    BY <2>1, <2>2 DEF Gate!Acquire
<1>7. ASSUME NEW r \in Requests, Returns(r)
      PROVE  Gate!Release(r)
  BY <1>1, <1>2, <1>3, <1>7 DEF Returns, Gate!Release
<1>8. QED
  BY <1>5, <1>6, <1>7, HoldersStep DEF Gate!GateNext

(* The two-lock accounting implements the abstract gate: one permit per request,
   taken under the bound and returned exactly once. *)
THEOREM CapacityImplementsGate == CapacitySpec => ImplementsGate
<1>1. CapacityInit => Gate!GateInit
  BY DEF CapacityInit, Gate!GateInit, Permit, Holders, Accepted
<1>2. CapacityInvariant /\ [CapacityNext]_capacityVars => [Gate!GateNext]_Permit
  BY GateStep
<1>3. QED
  BY <1>1, <1>2, CapacityInvariantHolds, PTL DEF CapacitySpec, ImplementsGate, Gate!GateSpec

-----------------------------------------------------------------------------
(* The generation budget and the control suffix. *)

(* What submit() established about the plan. *)
PlanIsValid ==
    phase \in {"waiting", "finished"} \cup Active =>
        /\ plan \in Plans
        /\ ValidateGenerationCapacity(plan.thinks, plan.thinking, plan.output)

(* While the thinking phase is open, budget and thinking count move together. *)
OpenThinking ==
    phase \in Active /\ session.reasoning =>
        /\ plan.thinks /\ plan.thinking > 0
        /\ ~session.applied
        /\ budget = plan.output - session.used

(* The session's control flag and the request's state agree, and a request with
   an open thinking phase still has thinking budget unless control is due. *)
ControlMatchesPhase ==
    /\ phase \in {"new", "rejected", "waiting"} => session.used = 0
    /\ phase \in {"prefill", "decode"} => ~session.control
    /\ phase = "prefill" => left > 0 /\ session.used = 0 /\ budget > 0
    /\ phase = "decode" /\ session.reasoning => session.used < plan.thinking
    /\ phase = "control" => session.control /\ session.reasoning /\ session.used = plan.thinking

IInv ==
    /\ GenerationTypeOK
    /\ WorkCovers
    /\ ThinkingIsCapped
    /\ PlanIsValid
    /\ OpenThinking
    /\ ControlMatchesPhase

(* The fields of a plan. *)
LEMMA PlanFields ==
    ASSUME NEW p \in Plans
    PROVE  /\ p.units \in Nat \ {0}
           /\ p.output \in Nat \ {0}
           /\ p.thinking \in Nat
           /\ p.thinks \in BOOLEAN
BY PlanAssumption

(* A new session is a session that has counted nothing. *)
LEMMA NewSessionFields ==
    ASSUME NEW thinks \in BOOLEAN, NEW thinking \in Nat
    PROVE  /\ NewSession(thinks, thinking) \in Session
           /\ NewSession(thinks, thinking).used = 0
           /\ ~NewSession(thinks, thinking).control
           /\ ~NewSession(thinks, thinking).applied
           /\ NewSession(thinks, thinking).reasoning => thinks /\ thinking # 0
<1> DEFINE open == thinks /\ thinking # NoThinkingBudget
<1>1. NewSession(thinks, thinking) =
        [reasoning |-> open, used |-> 0, control |-> FALSE, applied |-> FALSE]
  BY DEF NewSession
<1>2. open \in BOOLEAN
  OBVIOUS
<1>3. open => thinks /\ thinking # 0
  BY DEF NoThinkingBudget
<1> HIDE DEF open
<1> QED BY <1>1, <1>2, <1>3 DEF Session

(* A session fed part of a round is a session, and its other fields are kept. *)
LEMMA FeedModelFields ==
    ASSUME NEW s \in Session, NEW n \in Nat \ {0}, NEW split \in ThinkingSplits(s, n)
    PROVE  /\ FeedModel(s, split) \in Session
           /\ FeedModel(s, split).control = s.control
           /\ FeedModel(s, split).applied = s.applied
           /\ \/ /\ s.reasoning
                 /\ FeedModel(s, split).reasoning
                 /\ FeedModel(s, split).used = s.used + n
              \/ /\ s.reasoning
                 /\ ~FeedModel(s, split).reasoning
                 /\ FeedModel(s, split).used > s.used
                 /\ FeedModel(s, split).used <= s.used + n
              \/ /\ ~s.reasoning
                 /\ ~FeedModel(s, split).reasoning
                 /\ FeedModel(s, split).used = s.used
<1>1. CASE s.reasoning
  <2>1. \/ split = <<n, TRUE>>
        \/ \E t \in 1 .. n : split = <<t, FALSE>>
    BY <1>1 DEF ThinkingSplits
  <2>2. CASE split = <<n, TRUE>>
    BY <1>1, <2>2 DEF FeedModel, Session
  <2>3. CASE \E t \in 1 .. n : split = <<t, FALSE>>
    BY <1>1, <2>3 DEF FeedModel, Session
  <2> QED BY <2>1, <2>2, <2>3
<1>2. CASE ~s.reasoning
  <2>1. split = <<0, FALSE>>
    BY <1>2 DEF ThinkingSplits
  <2> QED BY <1>2, <2>1 DEF FeedModel, Session
<1> QED BY <1>1, <1>2

(* One committed row keeps the invariant, provided the round was licensed. *)
LEMMA CommitKeepsIInv ==
    ASSUME IInv,
           phase \in {"prefill", "decode"},
           NEW count \in Nat \ {0},
           NEW decodeRound \in BOOLEAN,
           count <= LicensedTokens(session, plan.thinking, budget),
           decodeRound => phase = "decode",
           ~decodeRound => phase = "prefill" /\ left = 1 /\ count = 1,
           left' \in Nat, plan' = plan,
           Commit(count, decodeRound)
    PROVE  IInv'
<1> USE DEF IInv, GenerationTypeOK, Phases, Active
<1>0. /\ plan \in Plans
      /\ ValidateGenerationCapacity(plan.thinks, plan.thinking, plan.output)
      /\ plan.output \in Nat \ {0} /\ plan.thinking \in Nat /\ plan.thinks \in BOOLEAN
  BY PlanFields DEF PlanIsValid
<1>1. PICK accepted \in 1 .. count, stopped \in BOOLEAN :
         /\ stopped \/ accepted = count
         /\ budget' = budget - accepted
         /\ work' = work - (IF decodeRound THEN accepted ELSE 1)
         /\ \E split \in ThinkingSplits(session, accepted) :
              LET fed == FeedModel(session, split) IN
              IF stopped \/ accepted = budget
              THEN phase' = "finished" /\ session' = fed
              ELSE /\ session' = PreviewContinue(fed, plan.thinking)
                   /\ phase' = IF session'.control THEN "control" ELSE "decode"
  BY DEF Commit
<1>2. PICK split \in ThinkingSplits(session, accepted) :
              IF stopped \/ accepted = budget
              THEN phase' = "finished" /\ session' = FeedModel(session, split)
              ELSE /\ session' = PreviewContinue(FeedModel(session, split), plan.thinking)
                   /\ phase' = IF session'.control THEN "control" ELSE "decode"
  BY <1>1
<1> DEFINE fed == FeedModel(session, split)
<1>3. /\ fed \in Session
      /\ fed.control = session.control
      /\ fed.applied = session.applied
      /\ \/ session.reasoning /\ fed.reasoning /\ fed.used = session.used + accepted
         \/ session.reasoning /\ ~fed.reasoning /\ fed.used > session.used /\ fed.used <= session.used + accepted
         \/ ~session.reasoning /\ ~fed.reasoning /\ fed.used = session.used
  BY <1>1, FeedModelFields
<1>4. ~session.control /\ budget > 0
  BY DEF ControlMatchesPhase, WorkCovers
<1>5. session.reasoning => /\ plan.thinking > 0 /\ ~session.applied
                           /\ count <= plan.thinking - session.used
  BY <1>0, <1>4 DEF OpenThinking, LicensedTokens, NoThinkingBudget, Session
<1>6. count <= budget
  BY <1>0, <1>4 DEF LicensedTokens, NoThinkingBudget, Session
<1>7. /\ budget' \in Nat /\ accepted <= budget
      /\ work' \in Nat
      /\ work' >= budget'
  BY <1>1, <1>6 DEF WorkCovers
<1>8. plan.thinking # NoThinkingBudget => fed.used <= plan.thinking
  BY <1>0, <1>1, <1>3, <1>5 DEF ThinkingIsCapped, NoThinkingBudget, Session
<1>9. fed.used \in Nat
  BY <1>3, <1>1 DEF Session
<1> HIDE DEF fed
<1>10. CASE stopped \/ accepted = budget
  <2>1. phase' = "finished" /\ session' = fed
    BY <1>2, <1>10 DEF fed
  <2> QED
    BY <2>1, <1>0, <1>3, <1>7, <1>8, <1>9
    DEF WorkCovers, ThinkingIsCapped, PlanIsValid, OpenThinking, ControlMatchesPhase
<1>11. CASE ~(stopped \/ accepted = budget)
  <2>1. /\ session' = [fed EXCEPT !.control = ControlDue(fed, plan.thinking)]
        /\ phase' = IF session'.control THEN "control" ELSE "decode"
    BY <1>2, <1>11 DEF fed, PreviewContinue
  <2>2. /\ session' \in Session
        /\ session'.reasoning = fed.reasoning
        /\ session'.used = fed.used
        /\ session'.applied = fed.applied
        /\ session'.control = ControlDue(fed, plan.thinking)
    BY <2>1, <1>3 DEF Session, ControlDue
  <2>3. budget' > 0
    BY <1>7, <1>11, <1>1
  <2>4. fed.reasoning => budget' = plan.output - fed.used /\ plan.thinks
    BY <1>1, <1>3, <1>0 DEF OpenThinking, Session
  <2>5. session'.reasoning => session'.used <= plan.thinking
    BY <2>2, <1>8, <1>3, <1>5 DEF NoThinkingBudget
  <2>6. CASE ControlDue(fed, plan.thinking)
    <3>1. phase' = "control" /\ session'.control /\ session'.reasoning /\ session'.used = plan.thinking
      BY <2>1, <2>2, <2>6 DEF ControlDue
    <3> QED
      BY <3>1, <2>2, <2>3, <2>4, <1>0, <1>3, <1>5, <1>7, <1>8, <1>9
      DEF WorkCovers, ThinkingIsCapped, PlanIsValid, OpenThinking, ControlMatchesPhase
  <2>7. CASE ~ControlDue(fed, plan.thinking)
    <3>1. phase' = "decode" /\ ~session'.control
      BY <2>1, <2>2, <2>7
    <3>2. session'.reasoning => session'.used < plan.thinking
      BY <2>2, <2>5, <2>7, <1>0, <1>3, <1>5, <1>9 DEF ControlDue, NoThinkingBudget
    <3> QED
      BY <3>1, <3>2, <2>2, <2>3, <2>4, <1>0, <1>3, <1>5, <1>7, <1>8, <1>9
      DEF WorkCovers, ThinkingIsCapped, PlanIsValid, OpenThinking, ControlMatchesPhase
  <2> QED BY <2>6, <2>7
<1> QED BY <1>10, <1>11

(* The control suffix fits, with a model token to spare. *)
LEMMA IInvControlSuffixFits == IInv => ControlSuffixFits
<1> SUFFICES ASSUME IInv, phase = "control" PROVE session.control /\ budget > ControlLength
  BY DEF ControlSuffixFits
<1>1. /\ plan \in Plans
      /\ plan.output \in Nat \ {0} /\ plan.thinking \in Nat /\ plan.thinks \in BOOLEAN
  BY PlanFields DEF IInv, PlanIsValid, Active
<1>2. /\ session.control /\ session.reasoning /\ session.used = plan.thinking
      /\ plan.thinks /\ plan.thinking > 0
      /\ budget = plan.output - plan.thinking /\ budget > 0 /\ budget \in Nat
  BY DEF IInv, ControlMatchesPhase, OpenThinking, Active, WorkCovers, GenerationTypeOK
<1>3. ValidateGenerationCapacity(plan.thinks, plan.thinking, plan.output)
  BY DEF IInv, PlanIsValid, Active
<1> QED
  BY <1>1, <1>2, <1>3, ControlAssumption DEF ValidateGenerationCapacity, NoThinkingBudget

(* A decode-ready request is licensed to produce a token. *)
LEMMA IInvDecodeIsLicensed == IInv => DecodeIsLicensed
<1> SUFFICES ASSUME IInv, phase = "decode"
             PROVE  LicensedTokens(session, plan.thinking, budget) > 0
  BY DEF DecodeIsLicensed
<1>1. plan \in Plans /\ plan.thinking \in Nat
  BY PlanFields DEF IInv, PlanIsValid, Active
<1> QED
  BY <1>1 DEF IInv, GenerationTypeOK, WorkCovers, ControlMatchesPhase, LicensedTokens, NoThinkingBudget, Session

(* The initial state satisfies the invariant. *)
LEMMA InitIInv == GenerationInit => IInv
BY DEF GenerationInit, IInv, GenerationTypeOK, Phases, WorkCovers, ThinkingIsCapped, PlanIsValid, OpenThinking,
       ControlMatchesPhase, Active, NoPlan, Detached, NewSession, Session, NoThinkingBudget

(* Every step keeps it. *)
LEMMA NextIInv == IInv /\ [GenerationNext]_generationVars => IInv'
<1> SUFFICES ASSUME IInv, [GenerationNext]_generationVars PROVE IInv'
  OBVIOUS
<1> USE DEF GenerationTypeOK, Phases, Active
<1>1. CASE Submit
  BY <1>1, PlanFields
  DEF Submit, IInv, WorkCovers, ThinkingIsCapped, PlanIsValid, OpenThinking, ControlMatchesPhase, Detached
<1>2. CASE Admit
  <2>1. /\ plan \in Plans /\ plan.units \in Nat \ {0} /\ plan.output \in Nat \ {0}
        /\ plan.thinking \in Nat /\ plan.thinks \in BOOLEAN
    BY <1>2, PlanFields DEF Admit, IInv, PlanIsValid
  <2>2. /\ session' \in Session
        /\ session'.used = 0 /\ ~session'.control /\ ~session'.applied
        /\ session'.reasoning => plan.thinks /\ plan.thinking # 0
    BY <1>2, <2>1, NewSessionFields DEF Admit
  <2> QED
    BY <1>2, <2>1, <2>2
    DEF Admit, IInv, WorkCovers, ThinkingIsCapped, PlanIsValid, OpenThinking,
        ControlMatchesPhase, ProjectedWork, NoThinkingBudget
<1>3. CASE PrefillUnit
  BY <1>3
  DEF PrefillUnit, IInv, WorkCovers, ThinkingIsCapped, PlanIsValid, OpenThinking, ControlMatchesPhase
<1>4. CASE PrefillLast
  <2>1. 1 <= LicensedTokens(session, plan.thinking, budget)
    <3>1. plan.thinking \in Nat
      BY <1>4, PlanFields DEF PrefillLast, IInv, PlanIsValid
    <3> QED
      BY <1>4, <3>1 DEF PrefillLast, IInv, ControlMatchesPhase, OpenThinking, LicensedTokens,
                 NoThinkingBudget, Session
  <2>2. 1 \in Nat \ {0} /\ left' \in Nat /\ left = 1 /\ plan' = plan
    BY <1>4 DEF PrefillLast
  <2>3. phase = "prefill" /\ Commit(1, FALSE)
    BY <1>4, Zenon DEF PrefillLast
  <2> QED BY <2>1, <2>2, <2>3, CommitKeepsIInv
<1>5. CASE DecodeRound
  <2>1. PICK count \in 1 .. MaxRound :
          /\ count <= LicensedTokens(session, plan.thinking, budget)
          /\ Commit(count, TRUE)
    BY <1>5 DEF DecodeRound
  <2>2. count \in Nat \ {0}
    BY PlanAssumption
  <2>3. left' \in Nat /\ plan' = plan /\ phase = "decode"
    BY <1>5 DEF DecodeRound, IInv
  <2> QED BY <2>1, <2>2, <2>3, CommitKeepsIInv
<1>6. CASE ControlBatch
  <2>1. budget > ControlLength
    BY <1>6, IInvControlSuffixFits DEF ControlBatch, ControlSuffixFits
  <2> QED
    BY <1>6, <2>1, ControlAssumption
    DEF ControlBatch, PreviewControl, IInv, WorkCovers, ThinkingIsCapped, PlanIsValid,
        OpenThinking, ControlMatchesPhase, Session
<1>7. CASE Settle \/ Interrupt
  <2>1. session' \in Session /\ session'.used = 0
    BY <1>7, NewSessionFields DEF Settle, Interrupt, Release, Detached, NoThinkingBudget
  <2>2. plan.thinking \in Nat
    BY <1>7, PlanFields DEF Settle, Interrupt, IInv, PlanIsValid
  <2> QED
  BY <1>7, <2>1, <2>2
  DEF Settle, Interrupt, Release, IInv, WorkCovers, ThinkingIsCapped, PlanIsValid,
      OpenThinking, ControlMatchesPhase
<1>8. CASE UNCHANGED generationVars
  BY <1>8
  DEF generationVars, IInv, WorkCovers, ThinkingIsCapped, PlanIsValid, OpenThinking, ControlMatchesPhase
<1> QED BY <1>1, <1>2, <1>3, <1>4, <1>5, <1>6, <1>7, <1>8 DEF GenerationNext, Step

(* The inductive invariant holds of every behaviour. *)
THEOREM IInvHolds == GenerationSpec => []IInv
<1>1. GenerationInit => IInv
  BY InitIInv
<1>2. IInv /\ [GenerationNext]_generationVars => IInv'
  BY NextIInv
<1> QED BY <1>1, <1>2, PTL DEF GenerationSpec

(* No counter of the request record is ever overdrawn, and the work the
   scheduler holds against an active request covers what it can consume. *)
THEOREM AccountingCovers == GenerationSpec => [](GenerationTypeOK /\ WorkCovers)
<1>1. IInv => GenerationTypeOK /\ WorkCovers
  BY DEF IInv
<1> QED BY <1>1, IInvHolds, PTL

(* The model never thinks past its budget, whatever the widths of the rounds. *)
THEOREM ThinkingIsCappedHolds == GenerationSpec => []ThinkingIsCapped
<1>1. IInv => ThinkingIsCapped
  BY DEF IInv
<1> QED BY <1>1, IInvHolds, PTL

(* The control suffix always fits and leaves a token: submit()'s validation is
   sufficient for every plan and every suffix length. *)
THEOREM ControlSuffixFitsHolds == GenerationSpec => []ControlSuffixFits
<1>1. IInv => ControlSuffixFits
  BY IInvControlSuffixFits
<1> QED BY <1>1, IInvHolds, PTL

(* A decode-ready request is never without licensed tokens. *)
THEOREM DecodeIsLicensedHolds == GenerationSpec => []DecodeIsLicensed
<1>1. IInv => DecodeIsLicensed
  BY IInvDecodeIsLicensed
<1> QED BY <1>1, IInvHolds, PTL

-----------------------------------------------------------------------------
(* The store of responses. *)

(* Parents are older than their children. *)
Ancestry(par) ==
    /\ par \in [Ids -> Ids \cup {NoId}]
    /\ \A j \in Ids : par[j] # NoId => par[j] < j

(* A set of nodes that holds the parents of its nodes. *)
Closed(par, C) == \A j \in C : par[j] # NoId => par[j] \in C

(* The least closed set with node i. *)
Up(par, i) == {x \in Ids : \A C \in SUBSET Ids : i \in C /\ Closed(par, C) => x \in C}

(* f computes contexts along par. *)
Climbs(f, par) ==
    f = [j \in Ids |-> IF par[j] = NoId THEN {j} ELSE {j} \cup f[par[j]]]

(* The live nodes, their counts and their charge, for any parents and records. *)
LiveOf(par, R) == UNION {Up(par, i) : i \in R}

Kids(par, S, n) == {m \in S : par[m] = n}

Count(par, R, n) == Cardinality({n} \cap R) + Cardinality(Kids(par, LiveOf(par, R), n))

Charge(par, R, sz) ==
    SumFunctionOnSet([i \in R |-> sz[i].envelope], R) + ContextBytes(LiveOf(par, R), sz)

(* The nodes of a context that are newer than one of them. *)
Newer(par, i, top) == {m \in Up(par, i) : m > top}

(* The newest node of a context that does not count exactly one reference. *)
Keeper(par, R, i) == Max({NoId} \cup {n \in Up(par, i) : Count(par, R, n) # 1})

SizesOK(sz) == sz \in [Ids -> [envelope : Nat, owned : Nat]]

StoreValue == [lru : Seq(Ids), refs : [Ids -> Nat], bytes : Nat, fault : BOOLEAN]

(* A store whose books are exact. *)
Sound(par, s, sz) ==
    /\ s \in StoreValue
    /\ IsInjective(s.lru)
    /\ \A n \in Ids : s.refs[n] = Count(par, ToSet(s.lru), n)
    /\ s.bytes = Charge(par, ToSet(s.lru), sz)
    /\ s.fault = FALSE

(* put() when the record is entered and nothing is erased yet. *)
Entered(s, i, sz) ==
    RetainContext([s EXCEPT !.lru = <<i>> \o @, !.bytes = @ + sz[i].envelope], Chain(i), sz)

(* Erasing the tail, and h that does it n times for each n up to m. *)
Evict(s, sz) == EraseRecord(s, Last(s.lru), sz)

Evicts(h, e, sz, m) ==
    h = [n \in 0 .. m |-> IF n = 0 THEN e ELSE Evict(h[n - 1], sz)]

(* The sequence t is the first m elements of q. *)
Leads(t, q, m) == Len(t) = m /\ \A k \in 1 .. m : t[k] = q[k]

(* The first m elements of q. *)
Firsts(q, m) == {q[k] : k \in 1 .. m}

(***************************************************************************)
(* The inductive invariant.  Requests arrive in the order of their ids and *)
(* a parent is answered before its child arrives, so parents are older     *)
(* (Ordered); the books of the store are exact and within its limits.      *)
(***************************************************************************)
Ordered ==
    /\ progress \in [Ids -> {"new", "generating", "answered"}]
    /\ \A i, j \in Ids : progress[i] = "new" /\ i < j => progress[j] = "new"
    /\ \A i \in Ids : parent[i] # NoId => progress[parent[i]] = "answered"
    /\ \A i \in Records : progress[i] = "answered"

SInv ==
    /\ Ordered
    /\ Ancestry(parent)
    /\ SizesOK(size)
    /\ Sound(parent, Store, size)
    /\ WithinLimits(Store)

-----------------------------------------------------------------------------
(* Ids are positive naturals. *)
LEMMA IdFacts ==
    /\ \A i \in Ids : i \in Nat /\ i # 0
    /\ NoId \notin Ids /\ NoId = 0 /\ IsFiniteSet(Ids)
BY StoreAssumption DEF NoId

(* A node is in its own context, which is closed ... *)
LEMMA UpClosed ==
    ASSUME NEW par, Ancestry(par), NEW i \in Ids
    PROVE  /\ Up(par, i) \subseteq Ids
           /\ i \in Up(par, i)
           /\ Closed(par, Up(par, i))
<1>1. Up(par, i) \subseteq Ids /\ i \in Up(par, i)
  BY DEF Up
<1>2. ASSUME NEW j \in Up(par, i), par[j] # NoId
      PROVE  par[j] \in Up(par, i)
  <2>1. par[j] \in Ids
    BY <1>1, <1>2 DEF Ancestry
  <2>2. ASSUME NEW C \in SUBSET Ids, i \in C, Closed(par, C)
        PROVE  par[j] \in C
    <3>1. j \in C
      BY <2>2 DEF Up
    <3> QED BY <1>2, <2>2, <3>1 DEF Closed
  <2> QED BY <2>1, <2>2 DEF Up
<1> QED BY <1>1, <1>2 DEF Closed

(* ... and the least closed set it is in. *)
LEMMA UpLeast ==
    ASSUME NEW par, NEW i \in Ids, NEW C \in SUBSET Ids, i \in C, Closed(par, C)
    PROVE  Up(par, i) \subseteq C
BY DEF Up

(* A context holds no node newer than its response. *)
LEMMA UpOlder ==
    ASSUME NEW par, Ancestry(par), NEW i \in Ids
    PROVE  \A n \in Up(par, i) : n <= i
<1> DEFINE C == {n \in Ids : n <= i}
<1>1. C \in SUBSET Ids /\ i \in C
  BY IdFacts
<1>2. Closed(par, C)
  BY IdFacts DEF Closed, Ancestry
<1>3. Up(par, i) \subseteq C
  <2> HIDE DEF C
  <2> QED BY <1>1, <1>2, UpLeast
<1> QED BY <1>3

(* The context of a node of a context is part of it. *)
LEMMA UpWithin ==
    ASSUME NEW par, Ancestry(par), NEW i \in Ids, NEW n \in Up(par, i)
    PROVE  n \in Ids /\ Up(par, n) \subseteq Up(par, i)
<1>1. Up(par, i) \in SUBSET Ids /\ Closed(par, Up(par, i))
  BY UpClosed
<1> QED BY <1>1, UpLeast

(* A context is a node and the context of its parent. *)
LEMMA UpStep ==
    ASSUME NEW par, Ancestry(par), NEW i \in Ids
    PROVE  Up(par, i) = {i} \cup (IF par[i] = NoId THEN {} ELSE Up(par, par[i]))
<1> DEFINE C == {i} \cup (IF par[i] = NoId THEN {} ELSE Up(par, par[i]))
<1>1. par[i] # NoId => par[i] \in Ids
  BY DEF Ancestry
<1>2. C \in SUBSET Ids /\ i \in C
  BY <1>1, UpClosed
<1>3. Closed(par, C)
  <2>1. CASE par[i] = NoId
    BY <2>1 DEF Closed
  <2>2. CASE par[i] # NoId
    <3>1. par[i] \in Up(par, par[i]) /\ Closed(par, Up(par, par[i]))
      BY <1>1, <2>2, UpClosed
    <3> QED BY <2>2, <3>1 DEF Closed
  <2> QED BY <2>1, <2>2
<1>4. Up(par, i) \subseteq C
  <2> HIDE DEF C
  <2> QED BY <1>2, <1>3, UpLeast
<1>5. C \subseteq Up(par, i)
  <2>1. i \in Up(par, i)
    BY UpClosed
  <2>2. par[i] # NoId => par[i] \in Up(par, i)
    BY <2>1, UpClosed DEF Closed
  <2>3. par[i] # NoId => Up(par, par[i]) \subseteq Up(par, i)
    BY <2>2, UpWithin
  <2> QED BY <2>1, <2>3
<1> QED BY <1>4, <1>5

(* There is one way to compute contexts. *)
LEMMA ClimbsUnique ==
    ASSUME NEW par, Ancestry(par), NEW f, NEW g, Climbs(f, par), Climbs(g, par)
    PROVE  \A i \in Ids : f[i] = g[i]
<1> DEFINE T == {i \in Ids : f[i] # g[i]}
<1>1. SUFFICES ASSUME T # {} PROVE FALSE
  OBVIOUS
<1>2. PICK i \in T : \A m \in T : i <= m
  <2>1. T \subseteq Nat
    BY IdFacts
  <2> HIDE DEF T
  <2> QED BY <1>1, <2>1, LeastNatural
<1>3. i \in Ids /\ f[i] # g[i]
  OBVIOUS
<1>4. /\ f[i] = IF par[i] = NoId THEN {i} ELSE {i} \cup f[par[i]]
      /\ g[i] = IF par[i] = NoId THEN {i} ELSE {i} \cup g[par[i]]
  BY <1>3 DEF Climbs
<1>5. ASSUME par[i] # NoId PROVE f[par[i]] = g[par[i]]
  <2>1. par[i] \in Ids /\ ~(i <= par[i])
    BY <1>3, <1>5, IdFacts DEF Ancestry
  <2> QED BY <1>2, <2>1
<1> QED BY <1>3, <1>4, <1>5

(* What Chain computes. *)
LEMMA ChainIsUp ==
    ASSUME Ancestry(parent), NEW i \in Ids
    PROVE  Chain(i) = Up(parent, i)
<1> DEFINE f == CHOOSE f : Climbs(f, parent)
           g == [j \in Ids |-> Up(parent, j)]
<1>1. Chain(i) = f[i]
  BY DEF Chain, Climbs
<1>2. Climbs(g, parent)
  <2>1. ASSUME NEW j \in Ids
        PROVE  g[j] = IF parent[j] = NoId THEN {j} ELSE {j} \cup g[parent[j]]
    <3>1. parent[j] # NoId => parent[j] \in Ids
      BY DEF Ancestry
    <3>2. Up(parent, j) = {j} \cup (IF parent[j] = NoId THEN {} ELSE Up(parent, parent[j]))
      BY UpStep
    <3> QED BY <3>1, <3>2
  <2> QED BY <2>1 DEF Climbs
<1>3. Climbs(f, parent)
  BY <1>2
<1> HIDE DEF f, g
<1>4. f[i] = g[i]
  BY <1>2, <1>3, ClimbsUnique
<1> QED BY <1>1, <1>4 DEF g

(* Contexts are linear: of two nodes the older is in the context of the newer. *)
LEMMA UpLinear ==
    ASSUME NEW par, Ancestry(par), NEW i \in Ids,
           NEW n \in Up(par, i), NEW m \in Up(par, i), m <= n
    PROVE  m \in Up(par, n)
<1> DEFINE C == {x \in Up(par, i) : x \in Up(par, n) \/ n \in Up(par, x)}
<1>0. n \in Ids /\ m \in Ids /\ Up(par, i) \subseteq Ids /\ i \in Up(par, i)
  BY UpClosed
<1>1. C \in SUBSET Ids /\ i \in C
  BY <1>0
<1>2. ASSUME NEW x \in C, par[x] # NoId
      PROVE  par[x] \in C
  <2>1. x \in Ids /\ par[x] \in Up(par, i)
    BY <1>0, <1>2, UpClosed DEF Closed
  <2>2. CASE x \in Up(par, n)
    <3>1. par[x] \in Up(par, n)
      BY <1>0, <1>2, <2>2, UpClosed DEF Closed
    <3> QED BY <2>1, <3>1
  <2>3. CASE n \in Up(par, x)
    <3>1. n = x \/ n \in Up(par, par[x])
      BY <1>2, <2>1, <2>3, UpStep
    <3>2. CASE n = x
      <4>1. x \in Up(par, n)
        BY <3>2, <1>0, UpClosed
      <4> QED BY <2>2, <4>1
    <3>3. CASE n \in Up(par, par[x])
      BY <2>1, <3>3
    <3> QED BY <3>1, <3>2, <3>3
  <2> QED BY <2>2, <2>3
<1>3. Up(par, i) \subseteq C
  <2>1. Closed(par, C)
    BY <1>2 DEF Closed
  <2> HIDE DEF C
  <2> QED BY <1>1, <2>1, UpLeast
<1>4. CASE m \in Up(par, n)
  BY <1>4
<1>5. CASE n \in Up(par, m)
  <2>1. n <= m
    BY <1>0, <1>5, UpOlder
  <2>2. n = m
    BY <1>0, <2>1, IdFacts
  <2> QED BY <1>0, <2>2, UpClosed
<1> QED BY <1>3, <1>4, <1>5

(* Every node of a context but the newest has exactly one child in it. *)
LEMMA UpChild ==
    ASSUME NEW par, Ancestry(par), NEW i \in Ids, NEW n \in Up(par, i)
    PROVE  /\ n # i => \E c \in Up(par, i) : par[c] = n
           /\ \A c, d \in Up(par, i) : par[c] = n /\ par[d] = n => c = d
<1>0. n \in Ids /\ Up(par, i) \subseteq Ids /\ i \in Up(par, i) /\ Closed(par, Up(par, i))
  BY UpClosed
<1>1. ASSUME n # i PROVE \E c \in Up(par, i) : par[c] = n
  <2> DEFINE C == {x \in Up(par, i) : x = i \/ \E c \in Up(par, i) : par[c] = x}
  <2>1. C \in SUBSET Ids /\ i \in C /\ Closed(par, C)
    BY <1>0 DEF Closed
  <2>2. Up(par, i) \subseteq C
    <3> HIDE DEF C
    <3> QED BY <2>1, UpLeast
  <2> QED BY <1>1, <2>2
<1>2. ASSUME NEW c \in Up(par, i), NEW d \in Up(par, i), par[c] = n, par[d] = n, c < d
      PROVE  FALSE
  <2>1. c \in Ids /\ d \in Ids /\ c <= d /\ c # d
    BY <1>0, <1>2, IdFacts
  <2>2. c \in Up(par, d)
    BY <2>1, UpLinear
  <2>3. par[d] # NoId
    BY <1>0, <1>2, IdFacts
  <2>4. c \in Up(par, n)
    BY <1>2, <2>1, <2>2, <2>3, UpStep
  <2>5. c <= n
    BY <1>0, <2>4, UpOlder
  <2>6. n < c
    BY <1>2, <2>1, <2>3 DEF Ancestry
  <2> QED BY <1>0, <2>1, <2>5, <2>6, IdFacts
<1>3. ASSUME NEW c \in Up(par, i), NEW d \in Up(par, i), par[c] = n, par[d] = n, c # d
      PROVE  FALSE
  <2>1. c \in Nat /\ d \in Nat
    BY <1>0, IdFacts
  <2>2. c < d \/ d < c
    BY <1>3, <2>1
  <2> QED BY <1>2, <1>3, <2>2
<1> QED BY <1>1, <1>3

(* A node without children is in no context but its own. *)
LEMMA UpAvoids ==
    ASSUME NEW par, Ancestry(par), NEW i \in Ids, \A k \in Ids : par[k] # i,
           NEW j \in Ids, j # i
    PROVE  i \notin Up(par, j)
<1> DEFINE C == Ids \ {i}
<1>1. C \in SUBSET Ids /\ j \in C
  OBVIOUS
<1>2. Closed(par, C)
  BY DEF Closed, Ancestry
<1>3. Up(par, j) \subseteq C
  <2> HIDE DEF C
  <2> QED BY <1>1, <1>2, UpLeast
<1> QED BY <1>3

(* Giving a node without children a parent changes no other context. *)
LEMMA UpSame ==
    ASSUME NEW par, Ancestry(par), NEW q, Ancestry(q), NEW i \in Ids,
           \A k \in Ids : par[k] # i, \A k \in Ids : k # i => q[k] = par[k],
           NEW j \in Ids, j # i
    PROVE  Up(q, j) = Up(par, j)
<1>0. \A k \in Ids : q[k] # i
  <2>1. q[i] # i
    BY IdFacts DEF Ancestry
  <2> QED BY <2>1
<1>1. i \notin Up(par, j) /\ i \notin Up(q, j)
  BY <1>0, UpAvoids
<1>2. /\ Up(par, j) \in SUBSET Ids /\ j \in Up(par, j) /\ Closed(par, Up(par, j))
      /\ Up(q, j) \in SUBSET Ids /\ j \in Up(q, j) /\ Closed(q, Up(q, j))
  BY UpClosed
<1>3. Closed(q, Up(par, j)) /\ Closed(par, Up(q, j))
  BY <1>1, <1>2 DEF Closed
<1> QED BY <1>2, <1>3, UpLeast

-----------------------------------------------------------------------------
(* The live nodes of some records are a closed finite set of nodes. *)
LEMMA LiveFacts ==
    ASSUME NEW par, Ancestry(par), NEW R \in SUBSET Ids
    PROVE  /\ LiveOf(par, R) \subseteq Ids /\ IsFiniteSet(LiveOf(par, R))
           /\ R \subseteq LiveOf(par, R) /\ IsFiniteSet(R)
           /\ Closed(par, LiveOf(par, R))
           /\ \A n \in LiveOf(par, R) : Up(par, n) \subseteq LiveOf(par, R)
<1>1. \A i \in R : Up(par, i) \subseteq Ids /\ i \in Up(par, i) /\ Closed(par, Up(par, i))
  BY UpClosed
<1>2. LiveOf(par, R) \subseteq Ids /\ R \subseteq LiveOf(par, R)
  BY <1>1 DEF LiveOf
<1>3. IsFiniteSet(LiveOf(par, R)) /\ IsFiniteSet(R)
  BY <1>2, IdFacts, FS_Subset
<1>4. Closed(par, LiveOf(par, R))
  BY <1>1 DEF LiveOf, Closed
<1>5. ASSUME NEW n \in LiveOf(par, R) PROVE Up(par, n) \subseteq LiveOf(par, R)
  BY <1>2, <1>4, UpLeast
<1> QED BY <1>2, <1>3, <1>4, <1>5

(* One more record adds its context. *)
LEMMA LiveAdds ==
    ASSUME NEW par, NEW R, NEW i
    PROVE  LiveOf(par, R \cup {i}) = LiveOf(par, R) \cup Up(par, i)
BY DEF LiveOf

(* A live node is a record's own or the parent of a live node. *)
LEMMA LiveReason ==
    ASSUME NEW par, Ancestry(par), NEW R \in SUBSET Ids, NEW n \in LiveOf(par, R)
    PROVE  n \in R \/ \E c \in LiveOf(par, R) : par[c] = n
<1>1. PICK i \in R : n \in Up(par, i)
  BY DEF LiveOf
<1>2. CASE n = i
  BY <1>2
<1>3. CASE n # i
  <2>1. PICK c \in Up(par, i) : par[c] = n
    BY <1>1, <1>3, UpChild
  <2>2. c \in LiveOf(par, R)
    BY <1>1, <2>1 DEF LiveOf
  <2> QED BY <2>1, <2>2
<1> QED BY <1>2, <1>3

(* The nodes with a count are the live ones. *)
LEMMA CountLive ==
    ASSUME NEW par, Ancestry(par), NEW R \in SUBSET Ids, NEW n \in Ids
    PROVE  /\ Count(par, R, n) \in Nat
           /\ Count(par, R, n) # 0 <=> n \in LiveOf(par, R)
<1> DEFINE K == Kids(par, LiveOf(par, R), n)
           E == {n} \cap R
<1>1. IsFiniteSet(E) /\ IsFiniteSet(K)
  BY LiveFacts, FS_Subset, FS_Singleton DEF Kids
<1>2. /\ Cardinality(E) \in Nat /\ Cardinality(K) \in Nat
      /\ Cardinality(E) = 0 <=> E = {}
      /\ Cardinality(K) = 0 <=> K = {}
  BY <1>1, FS_CardinalityType, FS_EmptySet
<1>3. Count(par, R, n) = Cardinality(E) + Cardinality(K)
  BY DEF Count
<1>4. ASSUME n \in LiveOf(par, R) PROVE E # {} \/ K # {}
  BY <1>4, LiveReason DEF Kids
<1>5. ASSUME E # {} PROVE n \in LiveOf(par, R)
  BY <1>5, LiveFacts
<1>6. ASSUME K # {} PROVE n \in LiveOf(par, R)
  <2>1. PICK c \in LiveOf(par, R) : par[c] = n
    BY <1>6 DEF Kids
  <2> QED BY <2>1, LiveFacts, IdFacts DEF Closed
<1> HIDE DEF K, E
<1> QED BY <1>2, <1>3, <1>4, <1>5, <1>6

(* A finite set with an element, and with two. *)
LEMMA OneOrTwo ==
    ASSUME NEW K, IsFiniteSet(K), NEW c \in K
    PROVE  /\ Cardinality(K) \in Nat /\ Cardinality(K) >= 1
           /\ \A d \in K : d # c => Cardinality(K) >= 2
<1>1. /\ Cardinality(K) \in Nat /\ IsFiniteSet(K \ {c})
      /\ Cardinality(K \ {c}) = Cardinality(K) - 1
      /\ Cardinality(K \ {c}) \in Nat
      /\ Cardinality(K \ {c}) = 0 <=> K \ {c} = {}
  BY FS_CardinalityType, FS_RemoveElement, FS_EmptySet
<1> QED BY <1>1

(* In a context, a node from `top` up is referred to once by its child among the   *)
(* nodes newer than top, or by the record that ends in it.                         *)
LEMMA Links ==
    ASSUME NEW par, Ancestry(par), NEW i \in Ids, NEW top \in Nat,
           top = NoId \/ top \in Up(par, i), NEW n \in Ids
    PROVE  /\ IsFiniteSet(Kids(par, Newer(par, i, top), n))
           /\ (IF n = i THEN 1 ELSE 0) + Cardinality(Kids(par, Newer(par, i, top), n))
                = IF n \in Up(par, i) /\ n >= top THEN 1 ELSE 0
<1> DEFINE K == Kids(par, Newer(par, i, top), n)
<1>0. /\ Up(par, i) \subseteq Ids /\ i \in Up(par, i) /\ Closed(par, Up(par, i))
      /\ \A m \in Up(par, i) : m \in Nat /\ m <= i
      /\ n \in Nat /\ i \in Nat /\ n # NoId
  BY UpClosed, UpOlder, IdFacts
<1>1. \A m \in K : m \in Up(par, i) /\ m > top /\ par[m] = n /\ n \in Up(par, i) /\ n < m
  <2>1. ASSUME NEW m \in K PROVE n \in Up(par, i) /\ n < m
    BY <1>0 DEF Kids, Newer, Closed, Ancestry
  <2> QED BY <2>1 DEF Kids, Newer
<1>2. \A c, d \in K : c = d
  BY <1>1, UpChild
<1>3. IsFiniteSet(K) /\ Cardinality(K) = IF K = {} THEN 0 ELSE 1
  <2> HIDE DEF K
  <2> QED BY <1>2, AtMostOne
<1>4. CASE n \notin Up(par, i)
  <2>1. K = {} /\ n # i
    BY <1>0, <1>1, <1>4
  <2> QED BY <1>3, <1>4, <2>1
<1>5. CASE n \in Up(par, i) /\ n < top
  <2>1. top \in Up(par, i) /\ top \in Ids /\ top <= i
    BY <1>0, <1>5, IdFacts
  <2>2. ASSUME NEW m \in K PROVE FALSE
    <3>0. m \in Up(par, i) /\ m > top /\ par[m] = n
      BY <1>1
    <3>1. m \in Up(par, i) /\ m \in Ids /\ m > top /\ par[m] = n /\ top <= m /\ top # m
      <4>1. m \in Nat /\ m \in Ids
        BY <1>0, <3>0
      <4> QED BY <3>0, <4>1
    <3>2. top \in Up(par, m)
      BY <2>1, <3>1, UpLinear
    <3>3. top \in Up(par, n)
      BY <1>0, <3>1, <3>2, UpStep
    <3>4. top <= n
      BY <3>3, UpOlder
    <3> QED BY <1>0, <1>5, <3>4
  <2>3. K = {} /\ n # i /\ ~(n >= top)
    BY <1>0, <1>5, <2>1, <2>2
  <2> QED BY <1>3, <2>3
<1>6. CASE n \in Up(par, i) /\ n >= top
  <2>1. CASE n = i
    <3>1. \A m \in K : m \in Nat /\ m <= i /\ i < m
      BY <1>0, <1>1, <2>1
    <3>2. K = {}
      BY <1>0, <3>1
    <3> QED BY <1>3, <1>6, <2>1, <3>2
  <2>2. CASE n # i
    <3>1. PICK c \in Up(par, i) : par[c] = n
      BY <1>6, <2>2, UpChild
    <3>2. c \in Ids /\ n < c
      BY <1>0, <3>1 DEF Ancestry
    <3>3. c \in K
      BY <1>0, <1>6, <3>1, <3>2 DEF Kids, Newer
    <3> QED BY <1>3, <1>6, <2>2, <3>3
  <2> QED BY <2>1, <2>2
<1> QED BY <1>0, <1>4, <1>5, <1>6

(* The counts with one record more, whose nodes newer than `top` are new.  *)
LEMMA CountGrows ==
    ASSUME NEW par, Ancestry(par), NEW R \in SUBSET Ids, NEW i \in Ids, i \notin R,
           NEW top \in Nat, top = NoId \/ top \in Up(par, i),
           Newer(par, i, top) = Up(par, i) \ LiveOf(par, R), NEW n \in Ids
    PROVE  Count(par, R \cup {i}, n)
             = Count(par, R, n) + (IF n \in Up(par, i) /\ n >= top THEN 1 ELSE 0)
<1> DEFINE L == LiveOf(par, R)
           F == Newer(par, i, top)
           M == LiveOf(par, R \cup {i})
<1>1. M = L \cup F /\ L \cap F = {}
  BY LiveAdds
<1>2. Kids(par, M, n) = Kids(par, L, n) \cup Kids(par, F, n)
      /\ Kids(par, L, n) \cap Kids(par, F, n) = {}
  BY <1>1 DEF Kids
<1>3. IsFiniteSet(Kids(par, F, n)) /\ IsFiniteSet(Kids(par, L, n))
  BY Links, LiveFacts, FS_Subset DEF Kids
<1>4. Cardinality(Kids(par, M, n)) = Cardinality(Kids(par, L, n)) + Cardinality(Kids(par, F, n))
  <2>1. Cardinality({}) = 0
    BY FS_EmptySet
  <2>2. Cardinality(Kids(par, L, n)) \in Nat /\ Cardinality(Kids(par, F, n)) \in Nat
    BY <1>3, FS_CardinalityType
  <2> DEFINE A == Kids(par, L, n)
             B == Kids(par, F, n)
  <2>3. Cardinality(A \cup B) = Cardinality(A) + Cardinality(B) - Cardinality(A \cap B)
    <3>1. IsFiniteSet(A) /\ IsFiniteSet(B)
      BY <1>3
    <3> HIDE DEF A, B
    <3> QED BY <3>1, FS_Union
  <2>4. /\ Cardinality(A \cap B) = 0 /\ Cardinality(A) \in Nat /\ Cardinality(B) \in Nat
        /\ Cardinality(Kids(par, M, n)) = Cardinality(A \cup B)
    BY <1>2, <2>1, <2>2
  <2>5. Cardinality(Kids(par, M, n)) = Cardinality(A) + Cardinality(B)
    <3> HIDE DEF A, B
    <3> QED BY <2>3, <2>4
  <2> QED BY <2>5
<1>5. /\ Cardinality({n} \cap (R \cup {i}))
           = Cardinality({n} \cap R) + (IF n = i THEN 1 ELSE 0)
      /\ Cardinality({n} \cap R) \in Nat
  <2>1. Cardinality({}) = 0 /\ Cardinality({n}) = 1
    BY FS_EmptySet, FS_Singleton
  <2>2. CASE n = i
    <3>1. {n} \cap (R \cup {i}) = {n} /\ {n} \cap R = {}
      BY <2>2
    <3> QED BY <2>1, <2>2, <3>1
  <2>3. CASE n # i
    <3>1. {n} \cap (R \cup {i}) = {n} \cap R
      BY <2>3
    <3>2. {n} \cap R = {} \/ {n} \cap R = {n}
      OBVIOUS
    <3>3. Cardinality({n} \cap R) \in Nat
      BY <2>1, <3>2
    <3>4. Cardinality({n} \cap (R \cup {i})) = Cardinality({n} \cap R)
      BY <3>1
    <3> QED BY <2>3, <3>3, <3>4
  <2> QED BY <2>2, <2>3
<1>6. (IF n = i THEN 1 ELSE 0) + Cardinality(Kids(par, F, n))
         = IF n \in Up(par, i) /\ n >= top THEN 1 ELSE 0
  BY Links
<1>7. Cardinality(Kids(par, L, n)) \in Nat /\ Cardinality(Kids(par, F, n)) \in Nat
  BY <1>3, FS_CardinalityType
<1>8. /\ Count(par, R \cup {i}, n)
           = Cardinality({n} \cap (R \cup {i})) + Cardinality(Kids(par, M, n))
      /\ Count(par, R, n) = Cardinality({n} \cap R) + Cardinality(Kids(par, L, n))
  BY DEF Count
<1> HIDE DEF L, F, M
<1> QED BY <1>4, <1>5, <1>6, <1>7, <1>8

-----------------------------------------------------------------------------
(* The bytes of some nodes are a sum of one function. *)
LEMMA BytesOver ==
    ASSUME NEW sz, SizesOK(sz), NEW S \in SUBSET Ids
    PROVE  /\ ContextBytes(S, sz) = SumFunctionOnSet([n \in Ids |-> sz[n].owned], S)
           /\ ContextBytes(S, sz) \in Nat
<1> DEFINE f == [n \in S |-> sz[n].owned]
           g == [n \in Ids |-> sz[n].owned]
<1>1. IsFiniteSet(S)
  BY IdFacts, FS_Subset
<1>2. \A x \in S : f[x] \in Nat /\ f[x] = g[x]
  BY DEF SizesOK
<1>3. ContextBytes(S, sz) = SumFunctionOnSet(f, S)
  BY DEF ContextBytes
<1> HIDE DEF f, g
<1>4. SumFunctionOnSet(f, S) = SumFunctionOnSet(g, S) /\ SumFunctionOnSet(f, S) \in Nat
  BY <1>1, <1>2, SumSame, SumNat
<1> QED BY <1>3, <1>4 DEF g

(* The envelopes of some records, likewise. *)
LEMMA EnvelopesOver ==
    ASSUME NEW sz, SizesOK(sz), NEW S \in SUBSET Ids
    PROVE  /\ SumFunctionOnSet([i \in S |-> sz[i].envelope], S)
                = SumFunctionOnSet([i \in Ids |-> sz[i].envelope], S)
           /\ SumFunctionOnSet([i \in S |-> sz[i].envelope], S) \in Nat
<1> DEFINE f == [n \in S |-> sz[n].envelope]
           g == [n \in Ids |-> sz[n].envelope]
<1>1. IsFiniteSet(S)
  BY IdFacts, FS_Subset
<1>2. \A x \in S : f[x] \in Nat /\ f[x] = g[x]
  BY DEF SizesOK
<1> HIDE DEF f, g
<1>4. SumFunctionOnSet(f, S) = SumFunctionOnSet(g, S) /\ SumFunctionOnSet(f, S) \in Nat
  BY <1>1, <1>2, SumSame, SumNat
<1> QED BY <1>4 DEF f, g

(* The charge with one record more: its envelope and its new nodes. *)
LEMMA ChargeGrows ==
    ASSUME NEW par, Ancestry(par), NEW sz, SizesOK(sz), NEW R \in SUBSET Ids,
           NEW i \in Ids, i \notin R
    PROVE  /\ Charge(par, R, sz) \in Nat /\ sz[i].envelope \in Nat
           /\ ContextBytes(Up(par, i) \ LiveOf(par, R), sz) \in Nat
           /\ Charge(par, R \cup {i}, sz)
                = Charge(par, R, sz) + sz[i].envelope
                    + ContextBytes(Up(par, i) \ LiveOf(par, R), sz)
<1> DEFINE L == LiveOf(par, R)
           F == Up(par, i) \ L
           M == LiveOf(par, R \cup {i})
           e == [j \in Ids |-> sz[j].envelope]
           f == [n \in Ids |-> sz[n].owned]
           Sum(g, S) == SumFunctionOnSet(g, S)
<1>1. M = L \cup F /\ M \ L = F /\ L \subseteq M /\ M \subseteq Ids /\ F \subseteq Ids
  <2>1. M = L \cup Up(par, i)
    BY LiveAdds
  <2>2. M \subseteq Ids
    BY LiveFacts
  <2> QED BY <2>1, <2>2
<1>2. IsFiniteSet(M) /\ IsFiniteSet(R)
  BY <1>1, IdFacts, FS_Subset
<1>3. \A n \in Ids : e[n] \in Nat /\ f[n] \in Nat /\ e[n] = sz[n].envelope
  BY DEF SizesOK
<1>4. /\ ContextBytes(L, sz) = Sum(f, L) /\ ContextBytes(L, sz) \in Nat
      /\ ContextBytes(M, sz) = Sum(f, M)
      /\ ContextBytes(F, sz) = Sum(f, F) /\ ContextBytes(F, sz) \in Nat
  BY <1>1, BytesOver
<1>5. /\ Charge(par, R, sz) = Sum(e, R) + ContextBytes(L, sz)
      /\ Charge(par, R \cup {i}, sz) = Sum(e, R \cup {i}) + ContextBytes(M, sz)
      /\ Sum(e, R) \in Nat
  BY EnvelopesOver DEF Charge
<1> HIDE DEF e, f, L, F, M
<1>6. Sum(f, M) = Sum(f, L) + Sum(f, F)
  <2>1. \A n \in M : f[n] \in Nat
    BY <1>1, <1>3
  <2> QED BY <1>1, <1>2, <2>1, SumSplit
<1>7. Sum(e, R \cup {i}) = e[i] + Sum(e, R)
  BY <1>2, <1>3, SumAdd
<1>8. e[i] = sz[i].envelope /\ e[i] \in Nat
  BY <1>3
<1> HIDE DEF Sum
<1> QED BY <1>4, <1>5, <1>6, <1>7, <1>8 DEF L, F

(* Where entering a record stops: the nodes newer than the newest live one are new. *)
LEMMA EnterTop ==
    ASSUME NEW par, Ancestry(par), NEW R \in SUBSET Ids, NEW i \in Ids, NEW top,
           top = Max({NoId} \cup {n \in Up(par, i) : Count(par, R, n) # 0})
    PROVE  /\ top \in Nat /\ (top = NoId \/ top \in Up(par, i))
           /\ Newer(par, i, top) = Up(par, i) \ LiveOf(par, R)
<1> DEFINE S == {NoId} \cup {n \in Up(par, i) : Count(par, R, n) # 0}
           L == LiveOf(par, R)
<1>1. Up(par, i) \subseteq Ids
  BY UpClosed
<1>2. S \subseteq Ids \cup {NoId} /\ S # {} /\ NoId \in S
  BY <1>1
<1>3. IsFiniteSet(S) /\ S \subseteq Nat
  <2>1. IsFiniteSet(Ids \cup {NoId})
    BY IdFacts, FS_AddElement
  <2> QED BY <1>2, <2>1, IdFacts, FS_Subset
<1>4. top \in S /\ \A m \in S : m <= top
  <2> HIDE DEF S
  <2>1. Max(S) \in S /\ \A m \in S : m <= Max(S)
    BY <1>2, <1>3, FiniteMax
  <2>2. top = Max(S)
    BY DEF S
  <2> QED BY <2>1, <2>2
<1>5. \A n \in Up(par, i) : n \in L <=> Count(par, R, n) # 0
  BY <1>1, CountLive
<1>6. \A n \in Up(par, i) : n \in L => n <= top
  BY <1>4, <1>5
<1>7. top \in Nat /\ (top = NoId \/ (top \in Up(par, i) /\ top \in L))
  BY <1>3, <1>4, <1>5
<1>8. ASSUME NEW n \in Up(par, i), n <= top PROVE n \in L
  <2>1. n \in Nat /\ n # 0
    BY <1>1, IdFacts
  <2>2. top # NoId
    BY <1>7, <1>8, <2>1, IdFacts
  <2>3. top \in Up(par, i) /\ top \in L
    BY <1>7, <2>2
  <2>4. n \in Up(par, top)
    BY <1>8, <2>3, UpLinear
  <2> QED BY <2>3, <2>4, LiveFacts
<1>9. \A n \in Up(par, i) : n \in Nat
  BY <1>1, IdFacts
<1>10. \A n \in Up(par, i) : n > top <=> n \notin L
  <2> HIDE DEF L
  <2>1. ASSUME NEW n \in Up(par, i) PROVE n > top <=> ~(n <= top)
    BY <1>7, <1>9
  <2> QED BY <2>1, <1>6, <1>8
<1> QED BY <1>7, <1>10 DEF Newer

(* Where erasing a record stops: it frees the nodes of no other record.  The newest  *)
(* node that keeps a count has one from another record, and so has every older one.  *)
LEMMA EraseTop ==
    ASSUME NEW par, Ancestry(par), NEW R \in SUBSET Ids, NEW i \in Ids, i \notin R, NEW top,
           top = Keeper(par, R \cup {i}, i)
    PROVE  /\ top \in Nat /\ (top = NoId \/ top \in Up(par, i))
           /\ Newer(par, i, top) = Up(par, i) \ LiveOf(par, R)
           /\ top # NoId => Count(par, R \cup {i}, top) # 0
<1> DEFINE S == {NoId} \cup {n \in Up(par, i) : Count(par, R \cup {i}, n) # 1}
           L == LiveOf(par, R)
           M == LiveOf(par, R \cup {i})
<1>1. Up(par, i) \subseteq Ids /\ i \in Up(par, i) /\ \A n \in Up(par, i) : n \in Nat /\ n # 0 /\ n <= i
  BY UpClosed, UpOlder, IdFacts
<1>2. S \subseteq Ids \cup {NoId} /\ S # {} /\ NoId \in S
  BY <1>1
<1>3. IsFiniteSet(S) /\ S \subseteq Nat
  <2>1. IsFiniteSet(Ids \cup {NoId})
    BY IdFacts, FS_AddElement
  <2>2. IsFiniteSet(S)
    <3> HIDE DEF S
    <3> QED BY <1>2, <2>1, FS_Subset
  <2>3. S \subseteq Nat
    BY <1>2, IdFacts
  <2> QED BY <2>2, <2>3
<1>4. top \in S /\ \A m \in S : m <= top
  <2> HIDE DEF S
  <2>1. Max(S) \in S /\ \A m \in S : m <= Max(S)
    BY <1>2, <1>3, FiniteMax
  <2>2. top = Max(S)
    BY DEF S, Keeper
  <2> QED BY <2>1, <2>2
<1>5. /\ top \in Nat
      /\ top = NoId \/ (top \in Up(par, i) /\ Count(par, R \cup {i}, top) # 1)
      /\ \A n \in Up(par, i) : n > top => Count(par, R \cup {i}, n) = 1
  <2>1. \A n \in Up(par, i) : n > top => ~(n <= top)
    BY <1>1, <1>3, <1>4
  <2> QED BY <1>3, <1>4, <2>1
<1>6. /\ M = L \cup Up(par, i) /\ L \subseteq Ids /\ M \subseteq Ids
      /\ IsFiniteSet(M) /\ Closed(par, L)
      /\ \A n \in L : Up(par, n) \subseteq L
  BY LiveAdds, LiveFacts
<1>7. \A n \in Ids : /\ Count(par, R \cup {i}, n) \in Nat
                     /\ Count(par, R \cup {i}, n) # 0 <=> n \in M
                     /\ n \in L <=> Count(par, R, n) # 0
                     /\ Count(par, R \cup {i}, n)
                          = Cardinality({n} \cap (R \cup {i})) + Cardinality(Kids(par, M, n))
                     /\ IsFiniteSet(Kids(par, M, n)) /\ Cardinality(Kids(par, M, n)) \in Nat
  <2>1. \A n \in Ids : IsFiniteSet(Kids(par, M, n))
    BY <1>6, FS_Subset DEF Kids
  <2>2. R \cup {i} \in SUBSET Ids
    OBVIOUS
  <2>3. \A n \in Ids : /\ Count(par, R \cup {i}, n) \in Nat
                       /\ Count(par, R \cup {i}, n) # 0 <=> n \in M
                       /\ n \in L <=> Count(par, R, n) # 0
    BY <2>2, CountLive
  <2>4. \A n \in Ids : Cardinality(Kids(par, M, n)) \in Nat
    BY <2>1, FS_CardinalityType
  <2> QED BY <2>1, <2>3, <2>4 DEF Count
<1> HIDE DEF S, L, M
<1>8. ASSUME NEW n \in Up(par, i), n > top PROVE n \notin L
  <2> DEFINE D == {m \in Up(par, i) : m > top /\ m \in L}
  <2>1. SUFFICES ASSUME D # {} PROVE FALSE
    BY <1>8
  <2>2. PICK m \in D : \A d \in D : d <= m
    <3>1. D \subseteq Ids /\ D \subseteq Nat
      BY <1>1
    <3>2. IsFiniteSet(D)
      BY <3>1, IdFacts, FS_Subset
    <3> HIDE DEF D
    <3>3. Max(D) \in D /\ \A d \in D : d <= Max(D)
      BY <2>1, <3>1, <3>2, FiniteMax
    <3> QED BY <3>3
  <2>3. m \in Up(par, i) /\ m > top /\ m \in L /\ m \in Ids /\ m \in Nat
        /\ Count(par, R \cup {i}, m) = 1
    BY <1>1, <1>5
  <2> DEFINE e == Cardinality({m} \cap (R \cup {i}))
             k == Cardinality(Kids(par, M, m))
  <2>0. k \in Nat /\ 1 = e + k
    BY <1>7, <2>3
  <2>4. m \in R \/ \E d \in L : par[d] = m
    BY <2>3, LiveReason DEF L
  <2>5. CASE m = i
    <3>1. PICK d \in L : par[d] = m
      BY <2>4, <2>5
    <3>2. d \in Kids(par, M, m)
      BY <1>6, <3>1 DEF Kids
    <3>3. k >= 1
      BY <1>7, <2>3, <3>2, OneOrTwo
    <3>4. e = 1
      <4>1. {m} \cap (R \cup {i}) = {m}
        BY <2>5
      <4> QED BY <4>1, FS_Singleton
    <3> HIDE DEF e, k
    <3> QED BY <2>0, <3>3, <3>4
  <2>6. CASE m # i
    <3>1. PICK c \in Up(par, i) : par[c] = m
      BY <2>3, <2>6, UpChild
    <3>2. c \in Ids /\ m < c
      BY <1>1, <2>3, <3>1, IdFacts DEF Ancestry
    <3>3. c \notin L
      <4>1. c \in Nat /\ c > top /\ ~(c <= m)
        BY <1>1, <1>5, <2>3, <3>2
      <4> QED BY <2>2, <3>1, <4>1
    <3>4. c \in Kids(par, M, m)
      BY <1>6, <3>1 DEF Kids
    <3>5. CASE m \in R
      <4>1. k >= 1
        BY <1>7, <2>3, <3>4, OneOrTwo
      <4>2. e = 1
        <5>1. {m} \cap (R \cup {i}) = {m}
          BY <3>5
        <5> QED BY <5>1, FS_Singleton
      <4> HIDE DEF e, k
      <4> QED BY <2>0, <4>1, <4>2
    <3>6. CASE \E d \in L : par[d] = m
      <4>1. PICK d \in L : par[d] = m
        BY <3>6
      <4>2. d \in Kids(par, M, m) /\ d # c
        BY <1>6, <3>3, <4>1 DEF Kids
      <4>3. k >= 2
        BY <1>7, <2>3, <3>4, <4>2, OneOrTwo
      <4>4. e \in Nat
        <5>1. IsFiniteSet({m}) /\ {m} \cap (R \cup {i}) \subseteq {m}
          BY FS_Singleton
        <5> QED BY <5>1, FS_Subset, FS_CardinalityType
      <4> HIDE DEF e, k
      <4> QED BY <2>0, <4>3, <4>4
    <3> QED BY <2>4, <3>5, <3>6
  <2> QED BY <2>5, <2>6
<1>9. ASSUME top # NoId PROVE top \in L
  <2>1. SUFFICES ASSUME top \notin L PROVE FALSE
    OBVIOUS
  <2>2. top \in Up(par, i) /\ top \in Ids /\ top \in M /\ Count(par, R \cup {i}, top) # 1
    BY <1>1, <1>5, <1>6, <1>9
  <2>3. top \notin R
    BY <2>1, LiveFacts DEF L
  <2>4. \A d \in Kids(par, M, top) : d \in Up(par, i) /\ par[d] = top
    <3>1. ASSUME NEW d \in Kids(par, M, top) PROVE d \in Up(par, i) /\ par[d] = top
      <4>1. d \in M /\ par[d] = top
        BY DEF Kids
      <4>2. d \notin L
        BY <1>6, <1>9, <2>1, <4>1 DEF Closed
      <4> QED BY <1>6, <4>1, <4>2
    <3> QED BY <3>1
  <2>5. \A c, d \in Kids(par, M, top) : c = d
    <3>1. \A c, d \in Up(par, i) : par[c] = top /\ par[d] = top => c = d
      BY <2>2, UpChild
    <3> QED BY <2>4, <3>1
  <2>6. Cardinality(Kids(par, M, top)) = IF Kids(par, M, top) = {} THEN 0 ELSE 1
    BY <2>5, AtMostOne
  <2>7. CASE top = i
    <3>1. ASSUME NEW d \in Kids(par, M, top) PROVE FALSE
      <4>1. d \in Up(par, i) /\ par[d] = i /\ d \in Ids
        BY <1>1, <2>4, <2>7
      <4>2. i < d /\ d <= i /\ d \in Nat /\ i \in Nat
        BY <1>1, <1>9, <2>7, <4>1, IdFacts DEF Ancestry
      <4> QED BY <4>2
    <3>2. {top} \cap (R \cup {i}) = {top} /\ Cardinality({top}) = 1
      BY <2>7, FS_Singleton
    <3>3. Cardinality(Kids(par, M, top)) = 0
      BY <2>6, <3>1
    <3>4. Count(par, R \cup {i}, top) = 1 + 0
      BY <1>7, <2>2, <3>2, <3>3
    <3> QED BY <2>2, <3>4
  <2>8. CASE top # i
    <3>1. {top} \cap (R \cup {i}) = {} /\ Cardinality({}) = 0
      BY <2>3, <2>8, FS_EmptySet
    <3>2. Count(par, R \cup {i}, top) # 0
      BY <1>7, <2>2
    <3>3. Count(par, R \cup {i}, top) = 0 + Cardinality(Kids(par, M, top))
      BY <1>7, <2>2, <3>1
    <3> QED BY <2>2, <2>6, <3>2, <3>3
  <2> QED BY <2>7, <2>8
<1>10. ASSUME NEW n \in Up(par, i), n <= top PROVE n \in L
  <2>1. top # NoId
    BY <1>1, <1>5, <1>10, IdFacts
  <2>2. top \in Up(par, i) /\ top \in L
    BY <1>5, <1>9, <2>1
  <2>3. n \in Up(par, top)
    BY <1>10, <2>2, UpLinear
  <2> QED BY <1>6, <2>2, <2>3
<1>11. \A n \in Up(par, i) : n > top <=> n \notin L
  <2>1. ASSUME NEW n \in Up(par, i) PROVE n > top <=> ~(n <= top)
    BY <1>1, <1>5
  <2> QED BY <2>1, <1>8, <1>10
<1>12. top # NoId => Count(par, R \cup {i}, top) # 0
  BY <1>5, <1>6, <1>7, <1>9
<1> QED BY <1>5, <1>11, <1>12 DEF Newer, L

-----------------------------------------------------------------------------
(* The records of a store value. *)
LEMMA RecordsOf ==
    ASSUME NEW s \in Seq(Ids)
    PROVE  ToSet(s) \in SUBSET Ids /\ IsFiniteSet(ToSet(s))
<1>1. ToSet(s) \in SUBSET Ids
  BY DEF ToSet
<1> QED BY <1>1, IdFacts, FS_Subset

(* A store value with two fields replaced. *)
LEMMA Replaced ==
    ASSUME NEW s \in StoreValue, NEW q, NEW b
    PROVE  [s EXCEPT !.lru = q, !.bytes = b]
             = [lru |-> q, refs |-> s.refs, bytes |-> b, fault |-> s.fault]
<1>1. s = [lru |-> s.lru, refs |-> s.refs, bytes |-> s.bytes, fault |-> s.fault]
  BY DEF StoreValue
<1> DEFINE w == [s EXCEPT !.lru = q]
<1>2. w = [lru |-> q, refs |-> s.refs, bytes |-> s.bytes, fault |-> s.fault]
  BY <1>1
<1>3. [s EXCEPT !.lru = q, !.bytes = b] = [w EXCEPT !.bytes = b]
  BY <1>1
<1> HIDE DEF w
<1> QED BY <1>2, <1>3

(* Entering a record keeps the books exact. *)
LEMMA EnterKeeps ==
    ASSUME Ancestry(parent), NEW sz, SizesOK(sz), NEW s, Sound(parent, s, sz),
           NEW i \in Ids, i \notin ToSet(s.lru)
    PROVE  /\ Sound(parent, Entered(s, i, sz), sz)
           /\ Entered(s, i, sz).lru = <<i>> \o s.lru
<1> DEFINE R == ToSet(s.lru)
           U == Up(parent, i)
           top == Max({NoId} \cup {n \in U : s.refs[n] # 0})
           F == {n \in U : n > top}
           b == s.bytes + sz[i].envelope + ContextBytes(F, sz)
           q == <<i>> \o s.lru
           r == [n \in Ids |-> IF n \in U /\ n >= top THEN s.refs[n] + 1 ELSE s.refs[n]]
           t == [lru |-> q, refs |-> r, bytes |-> b, fault |-> s.fault]
<1>1. /\ s \in StoreValue /\ IsInjective(s.lru) /\ s.fault = FALSE
      /\ s.lru \in Seq(Ids) /\ s.refs \in [Ids -> Nat] /\ s.bytes \in Nat
      /\ \A n \in Ids : s.refs[n] = Count(parent, R, n)
      /\ s.bytes = Charge(parent, R, sz)
  BY DEF Sound, StoreValue
<1>2. R \in SUBSET Ids /\ U \subseteq Ids /\ i \in U
  BY <1>1, RecordsOf, UpClosed
<1>3. Entered(s, i, sz) = t
  <2>1. Chain(i) = U
    BY ChainIsUp
  <2> DEFINE v == [s EXCEPT !.lru = <<i>> \o @, !.bytes = @ + sz[i].envelope]
  <2>2. v = [lru |-> q, refs |-> s.refs, bytes |-> s.bytes + sz[i].envelope, fault |-> s.fault]
    <3> HIDE DEF q
    <3> QED BY <1>1, Replaced, Zenon DEF q
  <2>3. Entered(s, i, sz) = RetainContext(v, U, sz)
    BY <2>1 DEF Entered
  <2> HIDE DEF v
  <2>4. RetainContext(v, U, sz)
          = [v EXCEPT !.bytes = @ + ContextBytes({n \in U : n > Max({NoId} \cup {m \in U : v.refs[m] # 0})}, sz),
                      !.refs = [n \in Ids |-> IF n \in U /\ n >= Max({NoId} \cup {m \in U : v.refs[m] # 0})
                                              THEN v.refs[n] + 1 ELSE v.refs[n]]]
    BY DEF RetainContext
  <2>5. v.refs = s.refs
    BY <2>2
  <2>6. RetainContext(v, U, sz) = [v EXCEPT !.bytes = @ + ContextBytes(F, sz), !.refs = r]
    BY <2>4, <2>5
  <2> HIDE DEF F, r, U, q
  <2> QED BY <2>2, <2>3, <2>6
<1>4. top = Max({NoId} \cup {n \in U : Count(parent, R, n) # 0})
  <2>1. \A n \in U : s.refs[n] = Count(parent, R, n)
    BY <1>1, <1>2
  <2>2. {n \in U : s.refs[n] # 0} = {n \in U : Count(parent, R, n) # 0}
    BY <2>1
  <2> QED BY <2>2
<1> HIDE DEF top
<1>5. /\ top \in Nat /\ (top = NoId \/ top \in U)
      /\ Newer(parent, i, top) = U \ LiveOf(parent, R)
  BY <1>2, <1>4, EnterTop
<1>6. F = U \ LiveOf(parent, R)
  BY <1>5 DEF Newer
<1>7. q \in Seq(Ids) /\ IsInjective(q) /\ ToSet(q) = R \cup {i}
  BY <1>1, ConsNew
<1>8. \A n \in Ids : r[n] = Count(parent, R \cup {i}, n) /\ r[n] \in Nat
  <2>1. ASSUME NEW n \in Ids PROVE r[n] = Count(parent, R \cup {i}, n) /\ r[n] \in Nat
    <3>1. Count(parent, R \cup {i}, n)
            = Count(parent, R, n) + (IF n \in U /\ n >= top THEN 1 ELSE 0)
      <4>1. i \notin R
        OBVIOUS
      <4> HIDE DEF R
      <4> QED BY <1>2, <1>5, <4>1, CountGrows
    <3>2. s.refs[n] = Count(parent, R, n) /\ s.refs[n] \in Nat
      BY <1>1
    <3> HIDE DEF R, U
    <3> QED BY <3>1, <3>2
  <2> QED BY <2>1
<1>9. b = Charge(parent, R \cup {i}, sz) /\ b \in Nat
  <2>1. /\ Charge(parent, R, sz) \in Nat /\ sz[i].envelope \in Nat
        /\ ContextBytes(U \ LiveOf(parent, R), sz) \in Nat
        /\ Charge(parent, R \cup {i}, sz)
             = Charge(parent, R, sz) + sz[i].envelope + ContextBytes(U \ LiveOf(parent, R), sz)
    BY <1>2, ChargeGrows
  <2>2. b = Charge(parent, R, sz) + sz[i].envelope + ContextBytes(U \ LiveOf(parent, R), sz)
    BY <1>1, <1>6
  <2> HIDE DEF b, R, U
  <2> QED BY <2>1, <2>2
<1>10. r \in [Ids -> Nat]
  BY <1>8
<1> HIDE DEF q, r, b, R
<1>11. Sound(parent, t, sz)
  BY <1>1, <1>7, <1>8, <1>9, <1>10 DEF Sound, StoreValue
<1> QED BY <1>3, <1>11 DEF q

(* Erasing a record keeps the books exact. *)
LEMMA EraseKeeps ==
    ASSUME Ancestry(parent), NEW sz, SizesOK(sz), NEW s, Sound(parent, s, sz),
           NEW i \in ToSet(s.lru)
    PROVE  /\ Sound(parent, EraseRecord(s, i, sz), sz)
           /\ EraseRecord(s, i, sz).lru = Without(s.lru, {i})
<1> DEFINE R == ToSet(s.lru) \ {i}
           U == Up(parent, i)
           top == Max({NoId} \cup {n \in U : s.refs[n] # 1})
           F == {n \in U : n > top}
           q == Without(s.lru, {i})
           b == s.bytes - sz[i].envelope - ContextBytes(F, sz)
           r == [n \in Ids |-> IF n \in U /\ n >= top THEN s.refs[n] - 1 ELSE s.refs[n]]
           t == [lru |-> q, refs |-> r, bytes |-> b, fault |-> s.fault]
<1>0. /\ s \in StoreValue /\ IsInjective(s.lru) /\ s.fault = FALSE
      /\ s.lru \in Seq(Ids) /\ s.refs \in [Ids -> Nat] /\ s.bytes \in Nat
  BY DEF Sound, StoreValue
<1>1. /\ \A n \in Ids : s.refs[n] = Count(parent, R \cup {i}, n)
      /\ s.bytes = Charge(parent, R \cup {i}, sz)
  <2>1. R \cup {i} = ToSet(s.lru)
    OBVIOUS
  <2> HIDE DEF R
  <2> QED BY <2>1 DEF Sound
<1>2. R \in SUBSET Ids /\ i \in Ids /\ i \notin R /\ U \subseteq Ids /\ i \in U
  BY <1>0, RecordsOf, UpClosed
<1>4. top = Max({NoId} \cup {n \in U : Count(parent, R \cup {i}, n) # 1})
  <2>1. \A n \in U : s.refs[n] = Count(parent, R \cup {i}, n)
    BY <1>1, <1>2
  <2>2. {n \in U : s.refs[n] # 1} = {n \in U : Count(parent, R \cup {i}, n) # 1}
    BY <2>1
  <2> QED BY <2>2
<1>5. /\ top \in Nat /\ (top = NoId \/ top \in U)
      /\ Newer(parent, i, top) = U \ LiveOf(parent, R)
      /\ top # NoId => Count(parent, R \cup {i}, top) # 0
  <2> HIDE DEF top, R
  <2>1. top = Keeper(parent, R \cup {i}, i)
    BY <1>4 DEF Keeper
  <2> HIDE DEF U
  <2>2. /\ top \in Nat /\ (top = NoId \/ top \in Up(parent, i))
        /\ Newer(parent, i, top) = Up(parent, i) \ LiveOf(parent, R)
        /\ top # NoId => Count(parent, R \cup {i}, top) # 0
    BY <1>2, <2>1, EraseTop
  <2> QED BY <2>2 DEF U
<1>6. F = U \ LiveOf(parent, R)
  BY <1>5 DEF Newer
<1>7. top # NoId => s.refs[top] # 0
  <2> HIDE DEF top, R
  <2> QED BY <1>1, <1>2, <1>5
<1>8. /\ Charge(parent, R, sz) \in Nat /\ sz[i].envelope \in Nat
      /\ ContextBytes(F, sz) \in Nat
      /\ s.bytes = Charge(parent, R, sz) + sz[i].envelope + ContextBytes(F, sz)
  <2> HIDE DEF F, top, R
  <2> QED BY <1>1, <1>2, <1>6, ChargeGrows
<1>9. EraseRecord(s, i, sz) = t
  <2>1. Chain(i) = U
    BY <1>2, ChainIsUp
  <2> DEFINE v == [s EXCEPT !.bytes = @ - sz[i].envelope]
  <2>2. v = [lru |-> s.lru, refs |-> s.refs, bytes |-> s.bytes - sz[i].envelope, fault |-> s.fault]
    BY <1>0, SMTT(40) DEF StoreValue
  <2>3. ~(s.bytes < sz[i].envelope) /\ ~(s.bytes - sz[i].envelope < ContextBytes(F, sz))
    <3> HIDE DEF F, R
    <3> QED BY <1>8
  <2>4. EraseRecord(s, i, sz) = [ReleaseContext(v, U, sz) EXCEPT !.lru = Without(@, {i})]
    BY <2>1, <2>3 DEF EraseRecord
  <2> HIDE DEF v
  <2>5. v.refs = s.refs /\ v.bytes = s.bytes - sz[i].envelope
    BY <2>2
  <2>6. ReleaseContext(v, U, sz) = [v EXCEPT !.bytes = @ - ContextBytes(F, sz), !.refs = r]
    BY <1>7, <2>3, <2>5 DEF ReleaseContext
  <2> HIDE DEF F, r, U, top
  <2>7. ReleaseContext(v, U, sz) = [lru |-> s.lru, refs |-> r, bytes |-> b, fault |-> s.fault]
    BY <2>2, <2>6
  <2> QED BY <2>4, <2>7
<1>10. q \in Seq(Ids) /\ IsInjective(q) /\ ToSet(q) = R
  BY <1>0, WithoutKeeps
<1> HIDE DEF top, F, R
<1>11. \A n \in Ids : r[n] = Count(parent, R, n) /\ r[n] \in Nat
  <2>1. ASSUME NEW n \in Ids PROVE r[n] = Count(parent, R, n) /\ r[n] \in Nat
    <3>1. Count(parent, R \cup {i}, n)
            = Count(parent, R, n) + (IF n \in U /\ n >= top THEN 1 ELSE 0)
      BY <1>2, <1>5, CountGrows
    <3>2. s.refs[n] = Count(parent, R \cup {i}, n) /\ Count(parent, R, n) \in Nat
      BY <1>1, <1>2, CountLive
    <3> HIDE DEF U
    <3> QED BY <3>1, <3>2
  <2> QED BY <2>1
<1>12. b = Charge(parent, R, sz) /\ b \in Nat
  BY <1>8
<1>13. r \in [Ids -> Nat]
  BY <1>11
<1> HIDE DEF q, r, b
<1>14. Sound(parent, t, sz)
  BY <1>0, <1>10, <1>11, <1>12, <1>13 DEF Sound, StoreValue
<1> QED BY <1>9, <1>14 DEF q

-----------------------------------------------------------------------------
(* The recursion that put() erases with is well defined. *)
LEMMA EvictsExists ==
    ASSUME NEW e, NEW sz, NEW n \in Nat
    PROVE  \E h : Evicts(h, e, sz, n)
<1> DEFINE T == {m \in Nat : ~\E h : Evicts(h, e, sz, m)}
<1>1. SUFFICES ASSUME T # {} PROVE FALSE
  OBVIOUS
<1>2. PICK m \in T : \A k \in T : m <= k
  <2>1. T \subseteq Nat
    OBVIOUS
  <2> HIDE DEF T
  <2> QED BY <1>1, <2>1, LeastNatural
<1>3. CASE m = 0
  <2>1. Evicts([i \in 0 .. 0 |-> e], e, sz, 0)
    BY DEF Evicts
  <2> QED BY <1>3, <2>1
<1>4. CASE m # 0
  <2>1. m - 1 \in Nat /\ ~(m <= m - 1)
    BY <1>4
  <2>2. PICK f : Evicts(f, e, sz, m - 1)
    BY <1>2, <2>1
  <2> DEFINE g == [i \in 0 .. m |-> IF i = m THEN Evict(f[m - 1], sz) ELSE f[i]]
  <2>3. ASSUME NEW i \in 0 .. m
        PROVE  g[i] = IF i = 0 THEN e ELSE Evict(g[i - 1], sz)
    <3>1. CASE i = m
      BY <1>4, <2>1, <3>1
    <3>2. CASE i # m
      <4>1. i \in 0 .. m - 1 /\ (i # 0 => i - 1 \in 0 .. m - 1 /\ i - 1 # m)
        BY <2>1, <3>2
      <4>2. f[i] = IF i = 0 THEN e ELSE Evict(f[i - 1], sz)
        BY <2>2, <4>1 DEF Evicts
      <4>3. g[i] = f[i] /\ (i # 0 => g[i - 1] = f[i - 1])
        BY <2>1, <3>2, <4>1
      <4> QED BY <4>2, <4>3
    <3> QED BY <3>1, <3>2
  <2>4. Evicts(g, e, sz, m)
    BY <2>3 DEF Evicts
  <2> QED BY <2>4
<1> QED BY <1>3, <1>4

(* After n erasures the books are exact and the n oldest records are gone. *)
LEMMA EvictsKeep ==
    ASSUME Ancestry(parent), NEW sz, SizesOK(sz), NEW e, Sound(parent, e, sz),
           NEW m \in Nat, Len(e.lru) = m + 1, NEW h, Evicts(h, e, sz, m)
    PROVE  \A n \in 0 .. m : Sound(parent, h[n], sz) /\ Leads(h[n].lru, e.lru, m + 1 - n)
<1> DEFINE Good(n) == Sound(parent, h[n], sz) /\ Leads(h[n].lru, e.lru, m + 1 - n)
           T == {n \in 0 .. m : ~Good(n)}
<1>1. h[0] = e /\ \A n \in 1 .. m : h[n] = Evict(h[n - 1], sz)
  BY DEF Evicts
<1>2. Good(0)
  BY <1>1 DEF Leads
<1>3. ASSUME NEW n \in 1 .. m, Good(n - 1) PROVE Good(n)
  <2> DEFINE v == h[n - 1]
  <2>1. Sound(parent, v, sz) /\ Leads(v.lru, e.lru, m + 1 - (n - 1))
    BY <1>3
  <2>2. v.lru \in Seq(Ids) /\ IsInjective(v.lru) /\ Len(v.lru) = m + 2 - n /\ v.lru # <<>>
    <3> HIDE DEF v
    <3>1. v.lru \in Seq(Ids) /\ IsInjective(v.lru) /\ Len(v.lru) = m + 2 - n
      BY <2>1 DEF Sound, StoreValue, Leads
    <3>2. Len(<<>>) = 0
      OBVIOUS
    <3>3. m + 2 - n # 0
      OBVIOUS
    <3> QED BY <3>1, <3>2, <3>3
  <2>3. h[n] = EraseRecord(v, Last(v.lru), sz)
    BY <1>1 DEF Evict
  <2> HIDE DEF v
  <2> DEFINE q == v.lru
             w == Without(q, {Last(q)})
  <2>4. /\ Len(q) \in Nat \ {0} /\ Last(q) \in ToSet(q)
        /\ Len(w) = Len(q) - 1
        /\ \A k \in 1 .. Len(q) - 1 : w[k] = q[k]
    <3> HIDE DEF q
    <3> QED BY <2>2, WithoutLast DEF q
  <2>5. Sound(parent, h[n], sz) /\ h[n].lru = w
    <3> DEFINE x == Last(v.lru)
    <3>1. x \in ToSet(v.lru) /\ h[n] = EraseRecord(v, x, sz) /\ w = Without(v.lru, {x})
      BY <2>3, <2>4
    <3> HIDE DEF x, w, q
    <3>2. Sound(parent, EraseRecord(v, x, sz), sz) /\ EraseRecord(v, x, sz).lru = Without(v.lru, {x})
      BY <2>1, <3>1, EraseKeeps
    <3> QED BY <3>1, <3>2
  <2>6. \A k \in 1 .. m + 2 - n : q[k] = e.lru[k]
    <3>1. m + 1 - (n - 1) = m + 2 - n
      OBVIOUS
    <3> QED BY <2>1, <3>1 DEF Leads
  <2>7. Len(w) = m + 1 - n /\ \A k \in 1 .. m + 1 - n : w[k] = e.lru[k]
    <3>1. Len(q) - 1 = m + 1 - n
      BY <2>2
    <3>2. \A k \in 1 .. m + 1 - n : k \in 1 .. m + 2 - n
      OBVIOUS
    <3> HIDE DEF w, q
    <3> QED BY <2>4, <2>6, <3>1, <3>2
  <2> QED BY <2>5, <2>7 DEF Leads
<1>4. ASSUME T # {} PROVE FALSE
  <2>1. PICK n \in T : \A k \in T : n <= k
    <3>1. T \subseteq Nat
      OBVIOUS
    <3> HIDE DEF T
    <3> QED BY <1>4, <3>1, LeastNatural
  <2> HIDE DEF Good
  <2>2. n # 0
    BY <1>2
  <2>3. n - 1 \in 0 .. m /\ ~(n <= n - 1) /\ n \in 1 .. m
    BY <2>2
  <2>4. Good(n - 1)
    BY <2>1, <2>3
  <2> QED BY <1>3, <2>3, <2>4
<1> HIDE DEF Good
<1>5. \A n \in 0 .. m : Good(n)
  BY <1>4
<1> QED BY <1>5 DEF Good

(* put() keeps the books exact and ends within the limits, whatever the other records *)
(* share: with all of them gone the new one fits, because it passed the check.  What  *)
(* it erases is the tail of the list, and with one record less erased a limit would   *)
(* be exceeded.                                                                       *)
LEMMA PutKeeps ==
    ASSUME Ancestry(parent), NEW sz, SizesOK(sz), NEW s, Sound(parent, s, sz),
           NEW i \in Ids, i \notin ToSet(s.lru),
           sz[i].envelope + ContextBytes(Up(parent, i), sz) <= MaxBytes
    PROVE  LET t == PutRecord(s, i, sz)
               q == <<i>> \o s.lru
               m == Len(s.lru)
           IN /\ Sound(parent, t, sz) /\ WithinLimits(t)
              /\ \E n \in 0 .. m :
                    /\ Leads(t.lru, q, m + 1 - n)
                    /\ n # 0 => \/ m + 2 - n > MaxRecords
                                \/ Charge(parent, Firsts(q, m + 2 - n), sz) > MaxBytes
<1> DEFINE q == <<i>> \o s.lru
           m == Len(s.lru)
           e == Entered(s, i, sz)
           h == CHOOSE h : Evicts(h, e, sz, m)
           enough == {n \in 0 .. m : WithinLimits(h[n])}
<1>1. s.lru \in Seq(Ids) /\ IsInjective(s.lru) /\ m \in Nat
  BY DEF Sound, StoreValue
<1>2. Sound(parent, e, sz) /\ e.lru = q
  BY EnterKeeps
<1>3. Evicts(h, e, sz, m)
  <2> HIDE DEF e, m
  <2> QED BY <1>1, EvictsExists
<1>4. PutRecord(s, i, sz) = IF enough = {} THEN [e EXCEPT !.fault = TRUE] ELSE h[Min(enough)]
  <2>1. DOMAIN h = 0 .. m
    <3> HIDE DEF h, m, e
    <3> QED BY <1>3 DEF Evicts
  <2>2. PutRecord(s, i, sz)
          = IF {n \in DOMAIN h : WithinLimits(h[n])} = {} THEN [e EXCEPT !.fault = TRUE]
            ELSE h[Min({n \in DOMAIN h : WithinLimits(h[n])})]
    BY DEF PutRecord, Evicts, Evict, Entered
  <2> HIDE DEF h, m, e
  <2> QED BY <2>1, <2>2
<1> HIDE DEF h, e
<1>5. /\ q \in Seq(Ids) /\ Len(q) = m + 1 /\ q[1] = i
  <2>1. <<i>> \in Seq(Ids) /\ Len(<<i>>) = 1 /\ <<i>>[1] = i
    OBVIOUS
  <2> QED BY <1>1, <2>1, ConcatProperties
<1> HIDE DEF q, m
<1>6. \A n \in 0 .. m : Sound(parent, h[n], sz) /\ Leads(h[n].lru, q, m + 1 - n)
  <2>1. Len(e.lru) = m + 1
    BY <1>2, <1>5
  <2> QED BY <1>1, <1>2, <1>3, <2>1, EvictsKeep
<1>7. \A n \in 0 .. m : /\ Len(h[n].lru) = m + 1 - n
                        /\ ToSet(h[n].lru) = Firsts(q, m + 1 - n)
                        /\ h[n].bytes = Charge(parent, Firsts(q, m + 1 - n), sz)
  <2>1. ASSUME NEW n \in 0 .. m
        PROVE  /\ Len(h[n].lru) = m + 1 - n
               /\ ToSet(h[n].lru) = Firsts(q, m + 1 - n)
               /\ h[n].bytes = Charge(parent, Firsts(q, m + 1 - n), sz)
    <3> DEFINE t == h[n].lru
               k == m + 1 - n
    <3>1. t \in Seq(Ids) /\ Len(t) = k /\ \A j \in 1 .. k : t[j] = q[j]
      BY <1>6 DEF Sound, StoreValue, Leads
    <3>2. h[n].bytes = Charge(parent, ToSet(t), sz)
      BY <1>6 DEF Sound
    <3> HIDE DEF t, k
    <3>3. ToSet(t) = Firsts(q, k)
      <4>1. DOMAIN t = 1 .. k
        BY <3>1
      <4> QED BY <3>1, <4>1 DEF ToSet, Firsts
    <3> QED BY <3>1, <3>2, <3>3 DEF t, k
  <2> QED BY <2>1
<1>8. m \in enough
  <2>1. m \in 0 .. m /\ m + 1 - m = 1
    BY <1>1
  <2>2. Firsts(q, 1) = {} \cup {i}
    BY <1>5 DEF Firsts
  <2>3. Len(h[m].lru) = 1 /\ h[m].bytes = Charge(parent, {} \cup {i}, sz)
    BY <1>7, <2>1, <2>2
  <2>4. Charge(parent, {} \cup {i}, sz) = sz[i].envelope + ContextBytes(Up(parent, i), sz)
    <3> DEFINE R == {}
               f == [j \in R |-> sz[j].envelope]
               g == [j \in R |-> sz[j].owned]
    <3>1. LiveOf(parent, R) = R
      BY DEF LiveOf
    <3>2. Charge(parent, R, sz) = 0
      <4>1. Charge(parent, R, sz) = SumFunctionOnSet(f, R) + SumFunctionOnSet(g, R)
        BY <3>1 DEF Charge, ContextBytes
      <4>2. SumFunctionOnSet(f, R) = 0 /\ SumFunctionOnSet(g, R) = 0
        <5> HIDE DEF f, g
        <5> QED BY SumEmpty
      <4> HIDE DEF f, g, R
      <4> QED BY <4>1, <4>2
    <3>3. R \in SUBSET Ids /\ i \notin R /\ Up(parent, i) \ R = Up(parent, i) /\ {} \cup {i} = R \cup {i}
      OBVIOUS
    <3> HIDE DEF R
    <3>4. /\ sz[i].envelope \in Nat /\ ContextBytes(Up(parent, i), sz) \in Nat
          /\ Charge(parent, R \cup {i}, sz)
               = Charge(parent, R, sz) + sz[i].envelope + ContextBytes(Up(parent, i), sz)
      BY <3>1, <3>3, ChargeGrows
    <3>5. Charge(parent, R \cup {i}, sz) = sz[i].envelope + ContextBytes(Up(parent, i), sz)
      BY <3>2, <3>4
    <3> QED BY <3>3, <3>5, Zenon
  <2>5. WithinLimits(h[m])
    BY <2>3, <2>4, StoreAssumption DEF WithinLimits
  <2> QED BY <2>1, <2>5
<1>9. Min(enough) \in enough /\ \A n \in enough : Min(enough) <= n
  <2>1. enough \subseteq Nat
    BY <1>1
  <2> HIDE DEF enough
  <2>2. \E n \in enough : \A k \in enough : n <= k
    BY <1>8, <2>1, LeastNatural
  <2> QED BY <2>2 DEF Min
<1> DEFINE n == Min(enough)
<1>10. n \in 0 .. m /\ WithinLimits(h[n]) /\ PutRecord(s, i, sz) = h[n]
  BY <1>4, <1>8, <1>9
<1>11. ASSUME n # 0
       PROVE  m + 2 - n > MaxRecords \/ Charge(parent, Firsts(q, m + 2 - n), sz) > MaxBytes
  <2>1. n - 1 \in 0 .. m /\ ~(n <= n - 1) /\ m + 1 - (n - 1) = m + 2 - n
    <3> HIDE DEF n
    <3> QED BY <1>1, <1>10, <1>11
  <2>2. ~WithinLimits(h[n - 1])
    BY <1>9, <2>1
  <2>3. /\ Len(h[n - 1].lru) = m + 2 - n
        /\ h[n - 1].bytes = Charge(parent, Firsts(q, m + 2 - n), sz)
    <3> HIDE DEF n
    <3> QED BY <1>7, <2>1
  <2>4. h[n - 1].bytes \in Nat
    BY <1>6, <2>1 DEF Sound, StoreValue
  <2> HIDE DEF n
  <2>5. Len(h[n - 1].lru) > MaxRecords \/ h[n - 1].bytes > MaxBytes
    <3>1. m + 2 - n \in Int
      BY <1>1, <1>10
    <3> QED BY <2>2, <2>3, <2>4, <3>1, StoreAssumption DEF WithinLimits
  <2> QED BY <2>3, <2>5
<1> HIDE DEF n
<1>12. Sound(parent, h[n], sz) /\ Leads(h[n].lru, q, m + 1 - n)
  BY <1>6, <1>10
<1> QED BY <1>10, <1>11, <1>12 DEF q, m

-----------------------------------------------------------------------------
(* Giving a parent to a node that is in no context changes no books. *)
LEMMA BooksSame ==
    ASSUME NEW par, Ancestry(par), NEW q, Ancestry(q), NEW i \in Ids,
           \A k \in Ids : par[k] # i, \A k \in Ids : k # i => q[k] = par[k],
           NEW R \in SUBSET Ids, i \notin R
    PROVE  /\ i \notin LiveOf(par, R)
           /\ LiveOf(q, R) = LiveOf(par, R)
           /\ \A n \in Ids : Count(q, R, n) = Count(par, R, n)
           /\ \A sz : Charge(q, R, sz) = Charge(par, R, sz)
<1>1. \A j \in R : i \notin Up(par, j)
  BY UpAvoids
<1>2. \A j \in R : Up(q, j) = Up(par, j)
  BY UpSame
<1>3. i \notin LiveOf(par, R) /\ LiveOf(q, R) = LiveOf(par, R)
  BY <1>1, <1>2 DEF LiveOf
<1>4. LiveOf(par, R) \subseteq Ids
  BY LiveFacts
<1>5. \A n \in Ids : Kids(q, LiveOf(par, R), n) = Kids(par, LiveOf(par, R), n)
  BY <1>3, <1>4 DEF Kids
<1> QED BY <1>3, <1>5 DEF Count, Charge

(* A charge depends only on the sizes of its records and nodes. *)
LEMMA ChargeSame ==
    ASSUME NEW par, Ancestry(par), NEW sz, SizesOK(sz), NEW tz, SizesOK(tz),
           NEW R \in SUBSET Ids, \A n \in R \cup LiveOf(par, R) : sz[n] = tz[n]
    PROVE  Charge(par, R, tz) = Charge(par, R, sz)
<1> DEFINE L == LiveOf(par, R)
           e == [j \in R |-> sz[j].envelope]
           d == [j \in R |-> tz[j].envelope]
           f == [j \in L |-> sz[j].owned]
           g == [j \in L |-> tz[j].owned]
<1>1. IsFiniteSet(R) /\ IsFiniteSet(L) /\ L \subseteq Ids
  BY LiveFacts
<1>2. e = d /\ f = g
  <2>1. (\A j \in R : sz[j] = tz[j]) /\ (\A j \in L : sz[j] = tz[j])
    OBVIOUS
  <2> HIDE DEF L
  <2>2. e = d
    BY <2>1
  <2>3. f = g
    BY <2>1
  <2> QED BY <2>2, <2>3
<1>3. /\ Charge(par, R, sz) = SumFunctionOnSet(e, R) + SumFunctionOnSet(f, L)
      /\ Charge(par, R, tz) = SumFunctionOnSet(d, R) + SumFunctionOnSet(g, L)
  BY DEF Charge, ContextBytes
<1> HIDE DEF e, d, f, g, L
<1> QED BY <1>2, <1>3

(* Moving a record to the front keeps the set of records. *)
LEMMA TouchedKeeps ==
    ASSUME NEW s \in Seq(Ids), IsInjective(s), NEW i \in ToSet(s), NEW t,
           t = <<i>> \o Without(s, {i})
    PROVE  /\ t \in Seq(Ids) /\ IsInjective(t) /\ ToSet(t) = ToSet(s) /\ Len(t) = Len(s)
<1> DEFINE w == Without(s, {i})
<1>1. w \in Seq(Ids) /\ ToSet(w) = ToSet(s) \ {i} /\ IsInjective(w)
  BY WithoutKeeps
<1>2. i \in Ids /\ i \notin ToSet(w)
  BY <1>1, RecordsOf
<1>3. t \in Seq(Ids) /\ IsInjective(t) /\ ToSet(t) = ToSet(w) \cup {i}
  <2>1. t = <<i>> \o w
    OBVIOUS
  <2> HIDE DEF w
  <2>2. /\ <<i>> \o w \in Seq(Ids) /\ IsInjective(<<i>> \o w)
        /\ ToSet(<<i>> \o w) = ToSet(w) \cup {i}
    BY <1>1, <1>2, ConsNew
  <2> QED BY <2>1, <2>2
<1> HIDE DEF w
<1>4. ToSet(t) = ToSet(s)
  BY <1>1, <1>3
<1>5. Cardinality(ToSet(t)) = Len(t) /\ Cardinality(ToSet(s)) = Len(s)
  BY <1>3, InjectiveLength
<1> QED BY <1>3, <1>4, <1>5

(* What erasing a record does to the limits. *)
LEMMA EraseShrinks ==
    ASSUME Ancestry(parent), NEW sz, SizesOK(sz), NEW s, Sound(parent, s, sz),
           NEW i \in ToSet(s.lru), WithinLimits(s)
    PROVE  WithinLimits(EraseRecord(s, i, sz)) /\ ToSet(EraseRecord(s, i, sz).lru) = ToSet(s.lru) \ {i}
<1> DEFINE t == EraseRecord(s, i, sz)
           R == ToSet(s.lru) \ {i}
<1>1. Sound(parent, t, sz) /\ t.lru = Without(s.lru, {i})
  BY EraseKeeps
<1>2. /\ s.lru \in Seq(Ids) /\ IsInjective(s.lru) /\ s.bytes = Charge(parent, ToSet(s.lru), sz)
      /\ t.lru \in Seq(Ids) /\ IsInjective(t.lru) /\ t.bytes = Charge(parent, ToSet(t.lru), sz)
      /\ s.bytes \in Nat /\ t.bytes \in Nat
  <2> HIDE DEF t
  <2> QED BY <1>1 DEF Sound, StoreValue
<1> HIDE DEF t
<1>3. ToSet(t.lru) = R
  BY <1>1, <1>2, WithoutKeeps
<1>4. R \in SUBSET Ids /\ i \in Ids /\ i \notin R /\ R \cup {i} = ToSet(s.lru)
  BY <1>2, RecordsOf
<1> HIDE DEF R
<1>5. t.bytes <= s.bytes
  <2>1. /\ Charge(parent, R, sz) \in Nat /\ sz[i].envelope \in Nat
        /\ ContextBytes(Up(parent, i) \ LiveOf(parent, R), sz) \in Nat
        /\ Charge(parent, R \cup {i}, sz)
             = Charge(parent, R, sz) + sz[i].envelope
                 + ContextBytes(Up(parent, i) \ LiveOf(parent, R), sz)
    BY <1>4, ChargeGrows
  <2>2. s.bytes = Charge(parent, R \cup {i}, sz) /\ t.bytes = Charge(parent, R, sz)
    BY <1>2, <1>3, <1>4
  <2> QED BY <2>1, <2>2
<1>6. Len(t.lru) <= Len(s.lru)
  <2>1. /\ Cardinality(ToSet(t.lru)) = Len(t.lru) /\ Cardinality(ToSet(s.lru)) = Len(s.lru)
        /\ IsFiniteSet(ToSet(s.lru))
    BY <1>2, InjectiveLength
  <2>2. ToSet(t.lru) \subseteq ToSet(s.lru)
    BY <1>3, <1>4
  <2> QED BY <2>1, <2>2, FS_Subset
<1>7. Len(t.lru) \in Nat /\ Len(s.lru) \in Nat
  BY <1>2
<1>8. WithinLimits(t)
  BY <1>2, <1>5, <1>6, <1>7, StoreAssumption DEF WithinLimits
<1> QED BY <1>3, <1>8 DEF t, R

-----------------------------------------------------------------------------
(* The fields of the store, as a value. *)
LEMMA StoreFields ==
    /\ Store.lru = lru /\ Store.refs = refs /\ Store.bytes = bytes /\ Store.fault = fault
BY DEF Store

(* A store value that is committed is the next store. *)
LEMMA Committed ==
    ASSUME NEW s, CommitStore(s), s \in StoreValue
    PROVE  Store' = s
BY DEF CommitStore, Store, StoreValue

(* SInv holds initially. *)
LEMMA SInvInit ==
    ASSUME Init
    PROVE  SInv
<1> USE DEF Init
<1>1. Records = {} /\ lru = <<>> /\ lru \in Seq(Ids) /\ IsInjective(lru) /\ Len(lru) = 0
  <2>1. lru = <<>>
    OBVIOUS
  <2> QED BY <2>1, EmptySequence DEF Records
<1>2. Ordered
  BY <1>1 DEF Ordered
<1>3. Ancestry(parent) /\ SizesOK(size)
  BY DEF Ancestry, SizesOK, NoSize
<1>4. LiveOf(parent, {}) = {}
  BY DEF LiveOf
<1>5. \A n \in Ids : Count(parent, {}, n) = 0
  BY <1>3, <1>4, CountLive
<1>6. Charge(parent, {}, size) = 0
  <2>1. ContextBytes({}, size) = 0
    BY SumEmpty DEF ContextBytes
  <2> DEFINE f == [j \in {} |-> size[j].envelope]
  <2>2. Charge(parent, {}, size) = SumFunctionOnSet(f, {}) + 0
    BY <1>4, <2>1 DEF Charge
  <2> HIDE DEF f
  <2>3. SumFunctionOnSet(f, {}) = 0
    BY SumEmpty
  <2> QED BY <2>2, <2>3
<1>7. Store \in StoreValue
  BY <1>1 DEF Store, StoreValue
<1>8. ToSet(Store.lru) = {}
  BY <1>1, StoreFields DEF Records
<1>9. Sound(parent, Store, size)
  <2>1. /\ Store.bytes = 0 /\ Store.fault = FALSE /\ Store.lru = lru
        /\ \A n \in Ids : Store.refs[n] = 0
    BY StoreFields
  <2> QED BY <1>1, <1>5, <1>6, <1>7, <1>8, <2>1 DEF Sound
<1>10. WithinLimits(Store)
  BY <1>1, StoreFields, StoreAssumption DEF WithinLimits
<1> QED BY <1>2, <1>3, <1>9, <1>10 DEF SInv

(* What SInv says of the store, field by field. *)
LEMMA SInvFacts ==
    ASSUME SInv
    PROVE  /\ Ordered /\ Ancestry(parent) /\ SizesOK(size) /\ Sound(parent, Store, size)
           /\ lru \in Seq(Ids) /\ IsInjective(lru) /\ refs \in [Ids -> Nat]
           /\ bytes \in Nat /\ fault = FALSE
           /\ Records \in SUBSET Ids /\ IsFiniteSet(Records) /\ Records = ToSet(lru)
           /\ \A n \in Ids : refs[n] = Count(parent, Records, n)
           /\ bytes = Charge(parent, Records, size)
           /\ Len(lru) <= MaxRecords /\ bytes <= MaxBytes
<1>1. /\ lru \in Seq(Ids) /\ IsInjective(lru) /\ refs \in [Ids -> Nat]
      /\ bytes \in Nat /\ fault = FALSE
      /\ \A n \in Ids : refs[n] = Count(parent, ToSet(lru), n)
      /\ bytes = Charge(parent, ToSet(lru), size)
  BY StoreFields DEF SInv, Sound, StoreValue
<1>2. Len(lru) <= MaxRecords /\ bytes <= MaxBytes
  BY StoreFields DEF SInv, WithinLimits
<1>3. ToSet(lru) \in SUBSET Ids /\ IsFiniteSet(ToSet(lru))
  BY <1>1, RecordsOf
<1> QED BY <1>1, <1>2, <1>3 DEF SInv, Records

(* A store with the same records, counts and charge, in another order. *)
LEMMA Reordered ==
    ASSUME SInv, UNCHANGED <<refs, bytes, fault>>,
           lru' \in Seq(Ids), IsInjective(lru'), ToSet(lru') = Records, Len(lru') = Len(lru),
           \A n \in Ids : Count(parent', Records, n) = Count(parent, Records, n),
           Charge(parent', Records, size') = Charge(parent, Records, size)
    PROVE  Sound(parent', Store', size') /\ WithinLimits(Store')
<1>1. /\ Store'.lru = lru' /\ Store'.refs = refs /\ Store'.bytes = bytes /\ Store'.fault = fault
      /\ Store' = [lru |-> lru', refs |-> refs, bytes |-> bytes, fault |-> fault]
  BY DEF Store
<1>2. Store' \in StoreValue
  BY <1>1, SInvFacts DEF StoreValue
<1>3. Sound(parent', Store', size')
  BY <1>1, <1>2, SInvFacts DEF Sound
<1>4. WithinLimits(Store')
  BY <1>1, SInvFacts DEF WithinLimits
<1> QED BY <1>3, <1>4

-----------------------------------------------------------------------------
(* A request that was not answered is no record and no parent. *)
LEMMA Unanswered ==
    ASSUME SInv, NEW i \in Ids, progress[i] # "answered"
    PROVE  /\ i \notin Records /\ \A k \in Ids : parent[k] # i
           /\ i \notin LiveOf(parent, Records)
<1>1. i \notin Records
  BY SInvFacts DEF Ordered
<1>2. \A k \in Ids : parent[k] # i
  BY SInvFacts, IdFacts DEF Ordered
<1>3. Ancestry(parent) /\ Records \in SUBSET Ids
  BY SInvFacts
<1>4. i \notin LiveOf(parent, Records)
  BY <1>1, <1>2, <1>3, BooksSame
<1> QED BY <1>1, <1>2, <1>4

(* A request arrives and takes a record as its parent. *)
LEMMA ResolveStep ==
    ASSUME SInv, NEW i \in Ids, Resolve(i)
    PROVE  SInv'
<1> USE SInvFacts
<1>1. PICK p \in Records \cup {NoId} :
         /\ parent' = [parent EXCEPT ![i] = p]
         /\ lru' = IF p = NoId THEN lru ELSE Touched(p)
  BY DEF Resolve
<1>2. /\ progress[i] = "new" /\ \A j \in Ids : j < i => progress[j] # "new"
      /\ progress' = [progress EXCEPT ![i] = "generating"]
      /\ UNCHANGED <<size, refs, bytes, fault>>
  BY DEF Resolve
<1>3. i \notin Records /\ \A k \in Ids : parent[k] # i
  BY <1>2, Unanswered
<1>4. p # NoId => p \in Records /\ p \in Ids /\ progress[p] = "answered" /\ p < i
  <2>1. ASSUME p # NoId PROVE p \in Records /\ p \in Ids /\ progress[p] = "answered" /\ p < i
    <3>1. p \in Records /\ p \in Ids /\ progress[p] = "answered" /\ p # i
      BY <1>3, <2>1 DEF Ordered
    <3>2. ~(i < p)
      BY <1>2, <3>1 DEF Ordered
    <3>3. p \in Nat /\ i \in Nat
      BY <3>1, IdFacts
    <3> QED BY <3>1, <3>2, <3>3
  <2> QED BY <2>1
<1>5. Ancestry(parent')
  BY <1>1, <1>4 DEF Ancestry
<1>6. \A k \in Ids : k # i => parent'[k] = parent[k]
  BY <1>1 DEF Ancestry
<1>7. lru' \in Seq(Ids) /\ IsInjective(lru') /\ ToSet(lru') = Records /\ Len(lru') = Len(lru)
  <2>1. CASE p = NoId
    BY <1>1, <2>1
  <2>2. CASE p # NoId
    <3>1. lru' = <<p>> \o Without(lru, {p}) /\ p \in ToSet(lru)
      BY <1>1, <1>4, <2>2 DEF Touched
    <3> QED BY <3>1, TouchedKeeps
  <2> QED BY <2>1, <2>2
<1>8. /\ \A n \in Ids : Count(parent', Records, n) = Count(parent, Records, n)
      /\ Charge(parent', Records, size) = Charge(parent, Records, size)
  <2> DEFINE q == parent'
  <2>1. Ancestry(q) /\ \A k \in Ids : k # i => q[k] = parent[k]
    BY <1>5, <1>6
  <2>0. Ancestry(parent) /\ Records \in SUBSET Ids
    OBVIOUS
  <2> HIDE DEF q
  <2> HIDE SInvFacts
  <2>2. /\ \A n \in Ids : Count(q, Records, n) = Count(parent, Records, n)
        /\ \A sz : Charge(q, Records, sz) = Charge(parent, Records, sz)
    BY <1>3, <2>0, <2>1, BooksSame
  <2> QED BY <2>2 DEF q
<1>9. Sound(parent', Store', size') /\ WithinLimits(Store')
  BY <1>2, <1>7, <1>8, Reordered
<1>10. Ordered'
  <2>1. Records' = Records
    BY <1>7 DEF Records
  <2>2. progress' \in [Ids -> {"new", "generating", "answered"}]
        /\ progress'[i] = "generating" /\ \A j \in Ids : j # i => progress'[j] = progress[j]
    BY <1>2 DEF Ordered
  <2>3. ASSUME NEW j \in Ids, NEW k \in Ids, progress'[j] = "new", j < k
        PROVE  progress'[k] = "new"
    <3>1. j # i /\ progress[j] = "new"
      BY <2>2, <2>3
    <3>2. progress[k] = "new"
      BY <2>3, <3>1 DEF Ordered
    <3>3. k # i
      BY <1>2, <2>3, <3>1
    <3> QED BY <2>2, <3>2, <3>3
  <2>4. ASSUME NEW j \in Ids, parent'[j] # NoId PROVE progress'[parent'[j]] = "answered"
    <3>1. CASE j = i
      <4>1. parent'[j] = p
        BY <1>1, <3>1 DEF Ancestry
      <4>2. p \in Ids /\ progress[p] = "answered" /\ p # i
        BY <1>2, <1>4, <2>4, <4>1
      <4> QED BY <2>2, <4>1, <4>2
    <3>2. CASE j # i
      <4>1. parent'[j] = parent[j] /\ parent[j] \in Ids /\ progress[parent[j]] = "answered"
        BY <1>6, <2>4, <3>2 DEF Ordered, Ancestry
      <4>2. parent[j] # i
        BY <1>3
      <4> QED BY <2>2, <4>1, <4>2
    <3> QED BY <3>1, <3>2
  <2>5. \A j \in Records : progress'[j] = "answered"
    BY <1>3, <2>2 DEF Ordered
  <2> QED BY <2>1, <2>2, <2>3, <2>4, <2>5 DEF Ordered
<1> QED BY <1>2, <1>5, <1>9, <1>10 DEF SInv

(* Only the progress of an unanswered request changes, to answered. *)
LEMMA AnsweredOrder ==
    ASSUME SInv, NEW i \in Ids, progress[i] = "generating",
           progress' = [progress EXCEPT ![i] = "answered"], UNCHANGED parent,
           Records' \subseteq Records \cup {i}
    PROVE  Ordered'
<1> USE SInvFacts
<1>1. progress' \in [Ids -> {"new", "generating", "answered"}]
      /\ progress'[i] = "answered" /\ \A j \in Ids : j # i => progress'[j] = progress[j]
  BY DEF Ordered
<1>2. ASSUME NEW j \in Ids, NEW k \in Ids, progress'[j] = "new", j < k
      PROVE  progress'[k] = "new"
  <2>1. progress[j] = "new"
    BY <1>1, <1>2
  <2>2. progress[k] = "new"
    BY <1>2, <2>1 DEF Ordered
  <2> QED BY <1>1, <2>2
<1>3. ASSUME NEW j \in Ids, parent'[j] # NoId PROVE progress'[parent'[j]] = "answered"
  BY <1>1, <1>3 DEF Ordered, Ancestry
<1>4. \A j \in Records' : progress'[j] = "answered"
  <2>1. \A j \in Records : progress[j] = "answered" /\ j \in Ids
    BY DEF Ordered
  <2> QED BY <1>1, <2>1
<1> QED BY <1>1, <1>2, <1>3, <1>4 DEF Ordered

(* The generation ended without a record. *)
LEMMA AbandonStep ==
    ASSUME SInv, NEW i \in Ids, Abandon(i)
    PROVE  SInv'
<1>1. Ordered'
  BY AnsweredOrder DEF Abandon, Records
<1>2. UNCHANGED <<parent, size, lru, refs, bytes, fault>>
  BY DEF Abandon
<1> QED BY <1>1, <1>2 DEF SInv, Store

(* A record is read. *)
LEMMA GetStep ==
    ASSUME SInv, NEW i \in Ids, Get(i)
    PROVE  SInv'
<1> USE SInvFacts
<1>1. i \in ToSet(lru) /\ lru' = <<i>> \o Without(lru, {i})
      /\ UNCHANGED <<progress, parent, size, refs, bytes, fault>>
  BY DEF Get, Touched
<1>2. lru' \in Seq(Ids) /\ IsInjective(lru') /\ ToSet(lru') = Records /\ Len(lru') = Len(lru)
  BY <1>1, TouchedKeeps
<1>3. Sound(parent', Store', size') /\ WithinLimits(Store')
  BY <1>1, <1>2, Reordered
<1>4. Ordered'
  BY <1>1, <1>2 DEF Ordered, Records
<1> QED BY <1>1, <1>3, <1>4 DEF SInv

(* A record is deleted. *)
LEMMA EraseStep ==
    ASSUME SInv, NEW i \in Ids, Erase(i)
    PROVE  SInv'
<1> USE SInvFacts
<1> DEFINE t == EraseRecord(Store, i, size)
<1>1. i \in Records /\ CommitStore(t) /\ UNCHANGED <<progress, parent, size>>
  BY DEF Erase
<1>2. i \in ToSet(Store.lru) /\ WithinLimits(Store)
  BY <1>1, StoreFields DEF SInv, Records
<1>3. Sound(parent, t, size) /\ WithinLimits(t) /\ ToSet(t.lru) = ToSet(Store.lru) \ {i}
  <2> DEFINE s == Store
  <2>1. Sound(parent, s, size) /\ i \in ToSet(s.lru) /\ WithinLimits(s)
    BY <1>2
  <2> HIDE DEF s
  <2>2. Sound(parent, EraseRecord(s, i, size), size)
    BY <2>1, EraseKeeps
  <2>3. /\ WithinLimits(EraseRecord(s, i, size))
        /\ ToSet(EraseRecord(s, i, size).lru) = ToSet(s.lru) \ {i}
    BY <2>1, EraseShrinks
  <2> QED BY <2>2, <2>3 DEF s
<1> HIDE DEF t
<1>4. Store' = t /\ lru' = t.lru
  BY <1>1, <1>3, Committed DEF Sound, CommitStore
<1>5. Records' = Records \ {i}
  BY <1>3, <1>4, StoreFields DEF Records
<1>6. Ordered'
  BY <1>1, <1>5 DEF Ordered
<1> QED BY <1>1, <1>3, <1>4, <1>6 DEF SInv

-----------------------------------------------------------------------------
(* What put() leaves of the list when it erases the n oldest records: no fewer would do. *)
Trims(i, n) ==
    LET q == <<i>> \o lru
        m == Len(lru)
    IN /\ Leads(lru', q, m + 1 - n)
       /\ n # 0 => \/ m + 2 - n > MaxRecords
                   \/ Charge(parent, Firsts(q, m + 2 - n), size') > MaxBytes

(* A response is put, or refused. *)
LEMMA PutStep ==
    ASSUME SInv, NEW i \in Ids, Put(i)
    PROVE  /\ SInv'
           /\ lru' = lru \/ \E n \in 0 .. Len(lru) : Trims(i, n)
<1> USE SInvFacts
<1>1. PICK z \in Sizes :
         /\ size' = [size EXCEPT ![i] = z]
         /\ IF z.envelope + ContextBytes(Chain(i), [size EXCEPT ![i] = z]) > MaxBytes
            THEN UNCHANGED <<lru, refs, bytes, fault>>
            ELSE CommitStore(PutRecord(Store, i, [size EXCEPT ![i] = z]))
  BY DEF Put
<1>2. /\ progress[i] = "generating" /\ progress' = [progress EXCEPT ![i] = "answered"]
      /\ UNCHANGED parent
  BY DEF Put
<1> DEFINE sz == [size EXCEPT ![i] = z]
<1>3. SizesOK(sz) /\ sz[i] = z /\ \A j \in Ids : j # i => sz[j] = size[j]
  <2>1. z \in [envelope : Nat, owned : Nat]
    BY StoreAssumption
  <2> QED BY <2>1 DEF SizesOK
<1>4. i \notin Records /\ i \notin LiveOf(parent, Records)
  BY <1>2, Unanswered
<1>5. Charge(parent, Records, sz) = Charge(parent, Records, size)
  <2>1. LiveOf(parent, Records) \subseteq Ids
    BY LiveFacts
  <2>2. \A n \in Records \cup LiveOf(parent, Records) : size[n] = sz[n]
    BY <1>3, <1>4, <2>1
  <2>3. Ancestry(parent) /\ SizesOK(size) /\ Records \in SUBSET Ids
    OBVIOUS
  <2> HIDE DEF sz
  <2> HIDE SInvFacts
  <2> QED BY <1>3, <2>2, <2>3, ChargeSame
<1>6. size' = sz
  BY <1>1
<1> HIDE DEF sz
<1>7. CASE UNCHANGED <<lru, refs, bytes, fault>>
  <2>1. Records' = Records
    BY <1>7 DEF Records
  <2>2. Ordered'
    BY <1>2, <2>1, AnsweredOrder
  <2>3. Sound(parent', Store', size') /\ WithinLimits(Store')
    <3>1. /\ lru' \in Seq(Ids) /\ IsInjective(lru') /\ ToSet(lru') = Records
          /\ Len(lru') = Len(lru)
          /\ \A n \in Ids : Count(parent', Records, n) = Count(parent, Records, n)
          /\ Charge(parent', Records, size') = Charge(parent, Records, size)
      BY <1>2, <1>5, <1>6, <1>7
    <3> QED BY <1>7, <3>1, Reordered
  <2>4. SInv'
    BY <1>2, <1>3, <1>6, <2>2, <2>3 DEF SInv
  <2> QED BY <1>7, <2>4
<1>8. CASE ~(z.envelope + ContextBytes(Chain(i), sz) > MaxBytes)
  <2> DEFINE s == Store
             t == PutRecord(s, i, sz)
             q == <<i>> \o lru
             m == Len(lru)
  <2>1. CommitStore(t)
    BY <1>1, <1>8 DEF sz
  <2>2. Sound(parent, s, sz) /\ s.lru = lru /\ i \notin ToSet(s.lru)
    <3>1. s.lru = lru /\ s.refs = refs /\ s.bytes = bytes /\ s.fault = fault
      BY StoreFields
    <3>2. s \in StoreValue
      BY DEF Sound
    <3> HIDE DEF s
    <3> QED BY <1>4, <1>5, <3>1, <3>2 DEF Sound
  <2>3. sz[i].envelope + ContextBytes(Up(parent, i), sz) <= MaxBytes
    <3>1. Chain(i) = Up(parent, i)
      BY ChainIsUp
    <3>2. z.envelope \in Nat
      BY StoreAssumption
    <3>3. ContextBytes(Up(parent, i), sz) \in Nat
      BY <1>3, UpClosed, BytesOver
    <3> QED BY <1>3, <1>8, <3>1, <3>2, <3>3, StoreAssumption
  <2>4. /\ Sound(parent, t, sz) /\ WithinLimits(t)
        /\ \E n \in 0 .. m :
              /\ Leads(t.lru, q, m + 1 - n)
              /\ n # 0 => \/ m + 2 - n > MaxRecords
                          \/ Charge(parent, Firsts(q, m + 2 - n), sz) > MaxBytes
    <3>1. Ancestry(parent)
      OBVIOUS
    <3> HIDE DEF s
    <3> HIDE SInvFacts
    <3>2. LET v == PutRecord(s, i, sz)
              r == <<i>> \o s.lru
              l == Len(s.lru)
          IN /\ Sound(parent, v, sz) /\ WithinLimits(v)
             /\ \E n \in 0 .. l :
                   /\ Leads(v.lru, r, l + 1 - n)
                   /\ n # 0 => \/ l + 2 - n > MaxRecords
                               \/ Charge(parent, Firsts(r, l + 2 - n), sz) > MaxBytes
      BY <1>3, <2>2, <2>3, <3>1, PutKeeps
    <3> QED BY <2>2, <3>2
  <2> HIDE DEF s, t
  <2>5. Store' = t /\ lru' = t.lru
    BY <2>1, <2>4, Committed DEF Sound, CommitStore
  <2>6. PICK n \in 0 .. m :
              /\ Leads(t.lru, q, m + 1 - n)
              /\ n # 0 => \/ m + 2 - n > MaxRecords
                          \/ Charge(parent, Firsts(q, m + 2 - n), sz) > MaxBytes
    BY <2>4
  <2>7. Trims(i, n)
    BY <1>6, <2>5, <2>6 DEF Trims
  <2>8. Records' \subseteq Records \cup {i}
    <3>1. t.lru \in Seq(Ids) /\ Len(t.lru) = m + 1 - n /\ m \in Nat
          /\ \A k \in 1 .. m + 1 - n : t.lru[k] = q[k]
      <4>1. m \in Nat
        OBVIOUS
      <4>2. t.lru \in Seq(Ids)
        BY <2>4 DEF Sound, StoreValue
      <4> HIDE DEF q, m
      <4> QED BY <2>6, <4>1, <4>2 DEF Leads
    <3>2. q \in Seq(Ids) /\ Len(q) = m + 1 /\ ToSet(q) = Records \cup {i}
      <4>1. <<i>> \in Seq(Ids) /\ Len(<<i>>) = 1
        OBVIOUS
      <4>2. q \in Seq(Ids) /\ Len(q) = m + 1
        BY <4>1, ConcatProperties
      <4>3. ToSet(q) = ToSet(lru) \cup {i}
        BY <1>4, ConsNew
      <4> QED BY <4>2, <4>3
    <3> HIDE DEF q, m
    <3>3. DOMAIN t.lru = 1 .. m + 1 - n /\ DOMAIN q = 1 .. m + 1
      BY <3>1, <3>2
    <3>4. DOMAIN t.lru \subseteq DOMAIN q
      BY <2>6, <3>1, <3>3
    <3>5. ToSet(t.lru) \subseteq ToSet(q)
      BY <3>1, <3>3, <3>4 DEF ToSet
    <3> QED BY <2>5, <3>2, <3>5 DEF Records
  <2>9. Ordered'
    BY <1>2, <2>8, AnsweredOrder
  <2>10. SInv'
    BY <1>2, <1>3, <1>6, <2>4, <2>5, <2>9 DEF SInv
  <2> QED BY <2>6, <2>7, <2>10
<1> QED BY <1>1, <1>7, <1>8 DEF sz

(* Every step keeps SInv. *)
LEMMA SInvNext ==
    ASSUME SInv, [Next]_vars
    PROVE  SInv'
<1>1. CASE UNCHANGED vars
  BY <1>1 DEF vars, SInv, Ordered, Store, Records
<1>2. CASE Next
  <2>1. PICK i \in Ids : Resolve(i) \/ Put(i) \/ Abandon(i) \/ Get(i) \/ Erase(i)
    BY <1>2 DEF Next
  <2> QED BY <2>1, ResolveStep, PutStep, AbandonStep, GetStep, EraseStep
<1> QED BY <1>1, <1>2

(* The store keeps exact books, within its limits, and its records are answered       *)
(* responses whose parents are older (openai_responses_store.cpp).                    *)
THEOREM StoreInvariant == Spec => []SInv
<1>1. Init => SInv
  BY SInvInit
<1>2. SInv /\ [Next]_vars => SInv'
  BY SInvNext
<1> QED BY <1>1, <1>2, PTL DEF Spec

(* The definitions that the properties use, in terms of Up. *)
LEMMA LiveIsLiveOf ==
    ASSUME Ancestry(parent), NEW R \in SUBSET Ids
    PROVE  /\ Live(R) = LiveOf(parent, R)
           /\ \A sz : ChargeOf(R, sz) = Charge(parent, R, sz)
<1>1. \A i \in R : Chain(i) = Up(parent, i)
  BY ChainIsUp
<1>2. Live(R) = LiveOf(parent, R)
  BY <1>1 DEF Live, LiveOf
<1> QED BY <1>2 DEF ChargeOf, Charge

(* BooksExact: retain_context_locked(), release_context_locked() and erase_locked()   *)
(* count every reference and charge every live node once, in any order of puts,      *)
(* evictions and deletions.                                                           *)
THEOREM BooksExactHolds == Spec => []BooksExact
<1>1. ASSUME SInv PROVE BooksExact
  <2> USE SInvFacts, <1>1
  <2>1. Live(Records) = LiveOf(parent, Records)
        /\ ChargeOf(Records, size) = Charge(parent, Records, size)
    BY LiveIsLiveOf
  <2>2. ReferencesExact
    <3>1. ASSUME NEW n \in Ids
          PROVE  refs[n] = Cardinality({n} \cap Records)
                             + Cardinality({m \in Live(Records) : parent[m] = n})
      <4>1. refs[n] = Count(parent, Records, n)
        OBVIOUS
      <4> QED BY <2>1, <4>1 DEF Count, Kids
    <3> QED BY <3>1 DEF ReferencesExact
  <2>3. {n \in Ids : refs[n] # 0} = Live(Records)
    <3>1. \A n \in Ids : refs[n] # 0 <=> n \in LiveOf(parent, Records)
      BY CountLive
    <3>2. LiveOf(parent, Records) \subseteq Ids
      BY LiveFacts
    <3> QED BY <2>1, <3>1, <3>2
  <2>4. BytesExact
    BY <2>1, <2>3 DEF BytesExact
  <2> QED BY <2>2, <2>4 DEF BooksExact
<1> QED BY <1>1, StoreInvariant, PTL

(* NeverFaults: no operation underflows or misses a node, and a response that passed  *)
(* the size check is never refused once entered (put()).                              *)
THEOREM NeverFaultsHolds == Spec => []NeverFaults
<1>1. SInv => NeverFaults
  BY SInvFacts DEF NeverFaults
<1> QED BY <1>1, StoreInvariant, PTL

(* The tail of a list that a put evicts: s without its elements from position d on,   *)
(* with i in front.                                                                   *)
LEMMA TrimmedTail ==
    ASSUME NEW s \in Seq(Ids), IsInjective(s), NEW i \in Ids, i \notin ToSet(s),
           NEW t \in Seq(Ids), NEW d \in 1 .. Len(s) + 1, Leads(t, <<i>> \o s, d)
    PROVE  /\ Len(t) = d
           /\ \A k \in DOMAIN s : s[k] \in ToSet(t) <=> k < d
           /\ d \in DOMAIN s => ToSet(t) \cup {s[d]} = Firsts(<<i>> \o s, d + 1)
<1> DEFINE m == Len(s)
           q == <<i>> \o s
<1>1. m \in Nat /\ DOMAIN s = 1 .. m /\ d \in 1 .. m + 1
  OBVIOUS
<1>2. Leads(t, q, d)
  OBVIOUS
<1>3. q[1] = i /\ \A k \in 1 .. m : q[k + 1] = s[k]
  <2>1. <<i>> \in Seq(Ids) /\ Len(<<i>>) = 1 /\ <<i>>[1] = i
    OBVIOUS
  <2>2. /\ q \in Seq(Ids) /\ Len(q) = 1 + m
        /\ \A k \in 1 .. 1 + m : q[k] = IF k <= 1 THEN <<i>>[k] ELSE s[k - 1]
    BY <2>1, ConcatProperties
  <2> HIDE DEF q, m
  <2>3. ASSUME NEW k \in 1 .. m PROVE q[k + 1] = s[k]
    <3>1. k + 1 \in 1 .. 1 + m /\ ~(k + 1 <= 1) /\ (k + 1) - 1 = k
      BY <1>1
    <3> QED BY <2>2, <3>1
  <2>4. 1 \in 1 .. 1 + m
    BY <1>1
  <2> QED BY <2>1, <2>2, <2>3, <2>4, SMTT(40)
<1> HIDE DEF q, m
<1>4. d \in Nat /\ 1 <= d /\ d <= m + 1
  BY <1>1
<1>5. Len(t) = d /\ DOMAIN t = 1 .. d /\ \A k \in 1 .. d : t[k] = q[k]
  BY <1>2, <1>4 DEF Leads
<1>6. ToSet(t) = Firsts(q, d)
  BY <1>5 DEF ToSet, Firsts
<1>7. ASSUME NEW k \in 1 .. m, k < d PROVE s[k] \in ToSet(t)
  <2>1. k + 1 \in 1 .. d /\ q[k + 1] = s[k]
    BY <1>3, <1>4, <1>7
  <2> QED BY <1>6, <2>1 DEF Firsts
<1>8. ASSUME NEW k \in 1 .. m, s[k] \in ToSet(t) PROVE k < d
  <2>1. PICK j \in 1 .. d : s[k] = q[j]
    BY <1>6, <1>8 DEF Firsts
  <2>2. s[k] # i
    BY <1>1 DEF ToSet
  <2>3. j # 1
    BY <1>3, <2>1, <2>2
  <2>4. j - 1 \in 1 .. m /\ (j - 1) + 1 = j
    BY <1>1, <1>4, <2>3
  <2>5. q[j] = s[j - 1]
    BY <1>3, <2>4
  <2>6. k = j - 1
    BY <1>1, <2>1, <2>4, <2>5 DEF IsInjective
  <2> QED BY <1>4, <2>6
<1>10. ASSUME d \in DOMAIN s PROVE ToSet(t) \cup {s[d]} = Firsts(q, d + 1)
  <2>1. d \in 1 .. m
    BY <1>1, <1>4, <1>10
  <2>2. q[d + 1] = s[d]
    BY <1>3, <2>1
  <2>3. 1 .. d + 1 = (1 .. d) \cup {d + 1}
    BY <1>4
  <2>4. Firsts(q, d + 1) = Firsts(q, d) \cup {q[d + 1]}
    BY <2>3 DEF Firsts
  <2> QED BY <1>6, <2>2, <2>4
<1>11. m = Len(s)
  BY DEF m
<1> QED BY <1>1, <1>4, <1>5, <1>7, <1>8, <1>10, <1>11 DEF q

(* EvictsOnlyWhatItMust: put() evicts from the tail of the list, and stops as soon as  *)
(* both limits hold.                                                                  *)
THEOREM EvictsOnlyWhatItMustHolds == Spec => EvictsOnlyWhatItMust
<1> DEFINE Gone == Records \ ToSet(lru')
           Latest == CHOOSE v \in Gone : \A w \in Gone :
                         \E j, k \in DOMAIN lru : lru[j] = v /\ lru[k] = w /\ j <= k
           Kept == ToSet(lru') \cup {Latest}
<1>1. ASSUME SInv, NEW i \in Ids, Put(i), i \in ToSet(lru')
      PROVE  /\ \A v \in Gone, w \in Records \ Gone :
                    \E j, k \in DOMAIN lru : lru[j] = w /\ lru[k] = v /\ j < k
             /\ Gone # {} => \/ Cardinality(Kept) > MaxRecords
                             \/ ChargeOf(Kept, size') > MaxBytes
  <2> USE <1>1, SInvFacts
  <2>1. progress[i] = "generating" /\ SInv' /\ (lru' = lru \/ \E n \in 0 .. Len(lru) : Trims(i, n))
    BY PutStep DEF Put
  <2>2. i \notin Records
    BY <2>1, Unanswered
  <2>3. PICK n \in 0 .. Len(lru) : Trims(i, n)
    <3>1. lru' # lru
      BY <2>2
    <3> QED BY <2>1, <3>1
  <2> DEFINE s == lru
             t == lru'
             d == Len(lru) + 1 - n
             q == <<i>> \o lru
  <2>4. /\ Leads(t, q, d)
        /\ n # 0 => d + 1 > MaxRecords \/ Charge(parent, Firsts(q, d + 1), size') > MaxBytes
    <3>1. Len(lru) + 2 - n = d + 1
      OBVIOUS
    <3> HIDE DEF d
    <3>2. /\ Leads(lru', <<i>> \o lru, Len(lru) + 1 - n)
          /\ n # 0 => \/ Len(lru) + 2 - n > MaxRecords
                      \/ Charge(parent, Firsts(<<i>> \o lru, Len(lru) + 2 - n), size') > MaxBytes
      BY <2>3 DEF Trims
    <3> QED BY <3>1, <3>2 DEF d
  <2>5. t \in Seq(Ids) /\ IsInjective(t) /\ s \in Seq(Ids) /\ IsInjective(s)
        /\ ToSet(s) = Records /\ ToSet(t) \in SUBSET Ids /\ Records \in SUBSET Ids
    <3>1. t \in Seq(Ids) /\ IsInjective(t)
      BY <2>1 DEF SInv, Sound, Store, StoreValue
    <3> QED BY <3>1, RecordsOf
  <2>6. Ancestry(parent)
    OBVIOUS
  <2>7. Gone = ToSet(s) \ ToSet(t)
    BY <2>5
  <2> HIDE SInvFacts
  <2> HIDE DEF s, t
  <2>8. /\ d \in Nat /\ Len(t) = d /\ Len(s) \in Nat /\ DOMAIN s = 1 .. Len(s)
        /\ \A k \in DOMAIN s : s[k] \in ToSet(t) <=> k < d
        /\ n = 0 <=> d \notin DOMAIN s
        /\ n # 0 => ToSet(t) \cup {s[d]} = Firsts(q, d + 1)
    <3>1. d = Len(s) + 1 - n /\ Leads(t, <<i>> \o s, d) /\ n \in 0 .. Len(s) /\ i \notin ToSet(s)
          /\ q = <<i>> \o s
      BY <2>2, <2>4, <2>5 DEF s
    <3> HIDE DEF d, q
    <3>2. Len(s) \in Nat /\ DOMAIN s = 1 .. Len(s)
      BY <2>5
    <3>3. d \in Nat /\ d \in 1 .. Len(s) + 1 /\ (n = 0 <=> d \notin DOMAIN s)
      BY <3>1, <3>2
    <3>4. /\ Len(t) = d
          /\ \A k \in DOMAIN s : s[k] \in ToSet(t) <=> k < d
          /\ d \in DOMAIN s => ToSet(t) \cup {s[d]} = Firsts(<<i>> \o s, d + 1)
      BY <2>5, <3>1, <3>3, TrimmedTail
    <3> QED BY <3>1, <3>2, <3>3, <3>4
  <2> HIDE DEF d, q, Gone
  <2>9. \A v : v \in Gone <=> \E k \in DOMAIN s : v = s[k] /\ k >= d
    <3>1. \A k \in DOMAIN s : s[k] \notin ToSet(t) <=> k >= d
      BY <2>8
    <3> QED BY <2>7, <3>1 DEF ToSet
  <2>10. \A w \in Records \ Gone : \E j \in DOMAIN s : w = s[j] /\ j < d
    <3>1. ASSUME NEW w \in Records \ Gone PROVE \E j \in DOMAIN s : w = s[j] /\ j < d
      <4>1. PICK j \in DOMAIN s : w = s[j]
        BY <2>5 DEF ToSet
      <4>2. w \in ToSet(t)
        BY <2>5, <2>7
      <4> QED BY <2>8, <4>1, <4>2
    <3> QED BY <3>1
  <2>11. ASSUME NEW v \in Gone, NEW w \in Records \ Gone
         PROVE  \E j, k \in DOMAIN s : s[j] = w /\ s[k] = v /\ j < k
    <3>1. PICK k \in DOMAIN s : v = s[k] /\ k >= d
      BY <2>9
    <3>2. PICK j \in DOMAIN s : w = s[j] /\ j < d
      BY <2>10
    <3>3. j < k
      BY <2>8, <3>1, <3>2
    <3> QED BY <3>1, <3>2, <3>3
  <2>12. ASSUME Gone # {}
         PROVE  Cardinality(Kept) > MaxRecords \/ ChargeOf(Kept, size') > MaxBytes
    <3>1. n # 0 /\ d \in DOMAIN s
      <4>1. PICK k \in DOMAIN s : k >= d
        BY <2>9, <2>12
      <4>2. k \in 1 .. Len(s)
        BY <2>8
      <4>3. d = Len(s) + 1 - n
        BY DEF d, s
      <4>4. n # 0
        BY <2>8, <4>1, <4>2, <4>3
      <4> QED BY <2>8, <4>4
    <3>2. s[d] \in Gone
      BY <2>8, <2>9, <3>1
    <3>3. \A w \in Gone : \E j, k \in DOMAIN s : s[j] = s[d] /\ s[k] = w /\ j <= k
      BY <2>8, <2>9, <3>1
    <3> DEFINE P(v) == \A w \in Gone : \E j, k \in DOMAIN s : s[j] = v /\ s[k] = w /\ j <= k
    <3>4. Latest = CHOOSE v \in Gone : P(v)
      BY DEF s
    <3>5. P(s[d])
      BY <3>3
    <3> HIDE DEF P, Latest
    <3>6. Latest \in Gone /\ P(Latest)
      BY <3>2, <3>4, <3>5
    <3>7. Latest = s[d]
      <4>1. PICK j \in DOMAIN s, k \in DOMAIN s : s[j] = Latest /\ s[k] = s[d] /\ j <= k
        BY <3>2, <3>6 DEF P
      <4>2. k = d
        BY <2>5, <3>1, <4>1 DEF IsInjective
      <4>3. PICK l \in DOMAIN s : Latest = s[l] /\ l >= d
        BY <2>9, <3>6
      <4>4. l = j
        BY <2>5, <4>1, <4>3 DEF IsInjective
      <4>5. j = d
        BY <2>8, <4>1, <4>2, <4>3, <4>4
      <4> QED BY <4>1, <4>5
    <3>8. Kept = ToSet(t) \cup {s[d]}
      BY <3>7 DEF t
    <3> HIDE DEF Kept
    <3>9. Kept = Firsts(q, d + 1)
      BY <2>8, <3>1, <3>8
    <3>10. Kept \in SUBSET Ids
      BY <2>5, <2>7, <3>2, <3>8
    <3>11. Cardinality(Kept) = d + 1
      <4>1. IsFiniteSet(ToSet(t)) /\ Cardinality(ToSet(t)) = d
        BY <2>5, <2>8, InjectiveLength
      <4>2. s[d] \notin ToSet(t)
        BY <2>7, <3>2
      <4> QED BY <3>8, <4>1, <4>2, FS_AddElement
    <3>12. ChargeOf(Kept, size') = Charge(parent, Kept, size')
      <4>1. \A sz : ChargeOf(Kept, sz) = Charge(parent, Kept, sz)
        BY <2>6, <3>10, LiveIsLiveOf
      <4> QED BY <4>1
    <3> QED BY <2>4, <3>1, <3>9, <3>11, <3>12
  <2> QED BY <2>11, <2>12 DEF s
<1>2. SInv /\ [Next]_vars =>
        [\A i \in Ids : Put(i) /\ i \in ToSet(lru') =>
            /\ \A v \in Gone, w \in Records \ Gone :
                   \E j, k \in DOMAIN lru : lru[j] = w /\ lru[k] = v /\ j < k
            /\ Gone # {} => \/ Cardinality(Kept) > MaxRecords
                            \/ ChargeOf(Kept, size') > MaxBytes]_vars
  <2> HIDE DEF Gone, Kept
  <2> QED BY <1>1
<1> QED BY <1>2, StoreInvariant, PTL DEF Spec, EvictsOnlyWhatItMust
=============================================================================
