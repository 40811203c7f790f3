--------------------------- MODULE EngineCoreProofs ---------------------------
(***************************************************************************)
(* Proofs about EngineCore, for every number of requests and lanes, every  *)
(* demand, plan, round width and control suffix.                           *)
(*                                                                         *)
(* None of the engine's invariants is inductive by itself.  OneOwner needs *)
(* to know where a record may move (Agree) and that a grant still names a  *)
(* queued request when it is consumed (Boundary); RecordsAgree needs the   *)
(* phase of every row (Rows), whose service work never runs out before its *)
(* budget; the partition of donors and borrowers needs the ages of the     *)
(* epochs and that no donor returns to the queue (Sched); and the memory   *)
(* promised to the protected head is a sum over requests that Owners keeps *)
(* disjoint (Room).  IInv is their conjunction: one lemma per action shows *)
(* that the action keeps it, and the properties follow from it.            *)
(***************************************************************************)
EXTENDS EngineCore, DataProofs

(* RequestState, and the states of an occupied slot. *)
States == {"prefill", "decode", "control", "finished"}

(* The records a slot may hold. *)
SlotRecords ==
    [req : Requests \cup {NoRequest}, state : States \cup {"none"}, capture : BOOLEAN,
     post : States \cup {"none"}, left : Nat, budget : Nat, work : Nat, session : Session,
     epoch : Nat]

(* The worker's positions. *)
Phases == {"top", "expire", "progress", "settle", "cancel", "decide", "admit", "scan",
           "grant", "admitted", "start", "unit", "captured", "exited"}

(* The variables have their types. *)
TypeOK ==
    /\ queue \in Seq(Requests) /\ IsInjective(queue)
    /\ signalling \subseteq Requests /\ submitted \subseteq Requests
    /\ cancelled \subseteq Requests
    /\ stopping \in BOOLEAN /\ check \in BOOLEAN
    /\ outcome \in [Requests -> {"none", "success", "cancelled", "timeout", "error"}]
    /\ slots \in [Lanes -> SlotRecords]
    /\ lane \in [Lanes -> {"free", "materializing", "active", "terminalPending"}]
    /\ mat \in [req : Requests \cup {NoRequest}, lane : Lanes \cup {NoLane}, epoch : Nat]
    /\ txn \in {"none", "materialization", "capture"} /\ ready \in BOOLEAN
    /\ prefillLane \in Lanes \cup {NoLane}
    /\ head \in Requests \cup {NoRequest}
    /\ protection \in [epoch : Nat, head : Requests \cup {NoRequest}, donors : SUBSET Requests]
    /\ nextEpoch \in Nat \ {0}
    /\ pc \in Phases
    /\ prevDecode \in BOOLEAN /\ havePending \in BOOLEAN
    /\ grant \in [req : Requests \cup {NoRequest}, epoch : Nat]
    /\ scan \in Seq(Requests)
    /\ snapshot \subseteq Lanes

(* The phase of a record apart from captures, as in PhaseOf. *)
RowPhase(s) == IF s.capture THEN s.post ELSE s.state

(* What a record of an active request looks like; the budget facts are those of
   Generation, stated for the record. *)
Row(s) ==
    LET p == Plan[s.req]
        phase == RowPhase(s) IN
    /\ phase \in States
    /\ s.capture => s.state = "prefill" /\ phase # "finished"
    /\ ~s.capture => s.post = "none"
    /\ (s.left > 0) = (phase = "prefill")
    /\ s.session.used \in Nat
    /\ phase = "prefill" => /\ s.work >= s.left + s.budget - 1
                            /\ s.budget > 0 /\ s.session.used = 0 /\ ~s.session.control
    /\ phase \in {"decode", "control"} => s.work >= s.budget /\ s.budget > 0
    /\ phase # "finished" /\ s.session.reasoning =>
          p.thinks /\ p.thinking > 0 /\ ~s.session.applied /\ s.budget = p.output - s.session.used
    /\ phase = "decode" => ~s.session.control /\ (s.session.reasoning => s.session.used < p.thinking)
    /\ phase = "control" => /\ s.session.control /\ s.session.reasoning
                            /\ s.session.used = p.thinking

(* An empty slot is the null record; any other holds a Row. *)
Rows ==
    \A l \in Lanes : IF slots[l].req = NoRequest THEN slots[l] = EmptySlot ELSE Row(slots[l])

(* Every unanswered request is in exactly one place, and what is in a place is
   unanswered. *)
Owners ==
    /\ \A l, k \in Lanes : slots[l].req # NoRequest /\ slots[l].req = slots[k].req => l = k
    /\ \A l \in Lanes : slots[l].req \notin ToSet(queue)
    /\ mat.req \notin ToSet(queue)
    /\ mat.req # NoRequest => \A l \in Lanes : slots[l].req # mat.req
    /\ \A r \in Requests \ submitted : outcome[r] = "none"
    /\ \A r \in Requests :
          (r \in submitted /\ outcome[r] = "none")
            <=> (r \in ToSet(queue) \/ mat.req = r \/ \E l \in Lanes : slots[l].req = r)

(* The materialization, the capture, the lane states and the staged prefill
   describe the same transaction. *)
Agree ==
    /\ (txn = "materialization") = (mat # NoMat)
    /\ mat # NoMat => /\ mat.req # NoRequest /\ mat.lane # NoLane
                      /\ slots[mat.lane] = EmptySlot /\ lane[mat.lane] = "materializing"
                      /\ prefillLane = NoLane
    /\ (txn = "capture") = (CaptureOwners # {})
    /\ \A l, k \in CaptureOwners : l = k
    /\ LanesFollowSlots
    /\ PrefillIsExclusive

(* What the worker has established on its way to each position. *)
Boundary ==
    /\ pc \in {"cancel", "decide"} => txn # "none" \/ Finished = {}
    /\ pc \in {"admit", "scan", "grant"} => txn = "none" /\ Finished = {} /\ prefillLane = NoLane
    /\ pc = "unit" => \A l \in snapshot : slots[l] = EmptySlot
    /\ pc # "grant" => grant = NoGrant
    /\ pc = "grant" => grant.req \in ToSet(queue)
    /\ pc = "scan" => IsInjective(scan) /\ ToSet(scan) \subseteq ToSet(queue)

(* Epochs in use are older than the next one, and the protection of a blocked
   head names a queued head and donors that are no longer queued. *)
Sched ==
    /\ \A l \in Lanes : slots[l].epoch < nextEpoch
    /\ mat.epoch < nextEpoch
    /\ protection # NoProtection =>
          /\ protection.epoch \in 1 .. nextEpoch - 1
          /\ head \in ToSet(queue)
          /\ protection.donors \subseteq submitted
          /\ protection.donors \cap ToSet(queue) = {}
          /\ mat.req \notin protection.donors
    /\ DonorsAndBorrowers
    /\ pc = "scan" => protection # NoProtection /\ head \notin ToSet(scan)
    /\ pc = "grant" /\ grant.epoch # NoEpoch =>
          protection # NoProtection /\ grant.epoch = protection.epoch /\ grant.req # head

(* What is admitted fits, now and after a backfill that was granted. *)
Room ==
    /\ MemoryFits
    /\ BackfillIsHarmless
    /\ pc = "grant" /\ grant.epoch # NoEpoch => BackfillSafe(grant.req)

(* The inductive invariant. *)
IInv == TypeOK /\ Rows /\ Owners /\ Agree /\ Boundary /\ Sched /\ Room
-----------------------------------------------------------------------------
(* Constants. *)

(* The lanes are a nonempty interval of naturals that holds no null lane. *)
LEMMA LaneFacts ==
    /\ Lanes \subseteq Nat /\ IsFiniteSet(Lanes) /\ NoLane \notin Lanes
    /\ Cardinality(Lanes) = MaxConcurrency
    /\ NoRequest \notin Requests /\ MaxConcurrency \in Nat \ {0}
<1>1. MaxConcurrency \in Nat \ {0} /\ Requests \subseteq Nat \ {0}
  BY EngineAssumption
<1>2. IsFiniteSet(Lanes) /\ Cardinality(Lanes) = MaxConcurrency
  BY <1>1, FS_Interval DEF Lanes
<1> QED BY <1>1, <1>2 DEF Lanes, NoLane, NoRequest

(* The fields of a slot whose std::optional is empty. *)
LEMMA EmptySlotFacts ==
    /\ EmptySlot \in SlotRecords
    /\ EmptySlot.req = NoRequest /\ EmptySlot.epoch = NoEpoch /\ EmptySlot.left = 0
    /\ EmptySlot.capture = FALSE /\ EmptySlot.state = "none"
BY DEF EmptySlot, SlotRecords, NewSession, Session, States, NoEpoch, NoThinkingBudget

(* The queue, seen as the set of its elements. *)
LEMMA QueueFacts ==
    ASSUME TypeOK
    PROVE  /\ ToSet(queue) \subseteq Requests
           /\ ToSet(scan) \subseteq Requests
           /\ queue = <<>> <=> ToSet(queue) = {}
<1>1. queue \in Seq(Requests) /\ scan \in Seq(Requests)
  BY DEF TypeOK
<1>2. queue # <<>> => queue[1] \in ToSet(queue)
  BY <1>1 DEF ToSet
<1>3. queue = <<>> => ToSet(queue) = {}
  BY EmptySequence
<1> QED BY <1>1, <1>2, <1>3 DEF ToSet

(* DemandOf is a sum of naturals over finitely many requests. *)
LEMMA DemandFacts ==
    /\ \A A \in SUBSET Requests : IsFiniteSet(A) /\ DemandOf(A) \in Nat
    /\ \A A, B \in SUBSET Requests : A \subseteq B => DemandOf(A) <= DemandOf(B)
    /\ \A A \in SUBSET Requests, r \in Requests :
          DemandOf(A \cup {r}) <= DemandOf(A) + Demand[r]
    /\ \A r \in Requests : Demand[r] \in Nat
    /\ DemandOf({}) = 0
    /\ Capacity \in Nat
<1>1. \A A : DemandOf(A) = SumFunctionOnSet(Demand, A)
  BY Zenon DEF DemandOf, MapThenSumSet, SumFunctionOnSet, FoldFunctionOnSet
<1>2. IsFiniteSet(Requests) /\ Capacity \in Nat /\ \A r \in Requests : Demand[r] \in Nat
  BY EngineAssumption
<1>3. ASSUME NEW A \in SUBSET Requests
      PROVE  IsFiniteSet(A) /\ DemandOf(A) \in Nat
  BY <1>1, <1>2, FS_Subset, SumNat
<1>4. ASSUME NEW A \in SUBSET Requests, NEW B \in SUBSET Requests, A \subseteq B
      PROVE  DemandOf(A) <= DemandOf(B)
  <2>1. SumFunctionOnSet(Demand, A) <= SumFunctionOnSet(Demand, B)
    BY <1>2, <1>3, <1>4, SumSubset
  <2> QED BY <1>1, <2>1
<1>5. ASSUME NEW A \in SUBSET Requests, NEW r \in Requests
      PROVE  DemandOf(A \cup {r}) <= DemandOf(A) + Demand[r]
  <2>1. CASE r \in A
    <3>1. A \cup {r} = A
      BY <2>1
    <3> QED BY <1>2, <1>3, <3>1
  <2>2. CASE r \notin A
    <3>1. SumFunctionOnSet(Demand, A \cup {r}) = Demand[r] + SumFunctionOnSet(Demand, A)
      BY <1>2, <1>3, <2>2, SumAdd
    <3> QED BY <1>1, <1>2, <1>3, <3>1
  <2> QED BY <2>1, <2>2
<1>6. DemandOf({}) = 0
  BY <1>1, SumEmpty
<1> QED BY <1>2, <1>3, <1>4, <1>5, <1>6

-----------------------------------------------------------------------------
(* The records of active requests. *)

(* The fields of a plan that submit() accepted. *)
LEMMA PlanFields ==
    ASSUME NEW r \in Requests
    PROVE  /\ Plan[r].units \in Nat \ {0} /\ Plan[r].output \in Nat \ {0}
           /\ Plan[r].thinking \in Nat /\ Plan[r].thinks \in BOOLEAN
           /\ ValidateGenerationCapacity(Plan[r].thinks, Plan[r].thinking, Plan[r].output)
           /\ ControlLength \in Nat \ {0}
BY EngineAssumption, ControlAssumption

(* The thinking split of an accepted row: FeedModel counts what it is given. *)
LEMMA FeedModelFields ==
    ASSUME NEW s \in Session, NEW n \in Nat \ {0}, NEW split \in ThinkingSplits(s, n)
    PROVE  /\ FeedModel(s, split) \in Session
           /\ FeedModel(s, split).control = s.control
           /\ FeedModel(s, split).applied = s.applied
           /\ FeedModel(s, split).reasoning =>
                 s.reasoning /\ FeedModel(s, split).used = s.used + n
           /\ \E t \in 0 .. n : FeedModel(s, split).used = s.used + t
<1>1. CASE s.reasoning
  <2>1. split = <<n, TRUE>> \/ \E t \in 1 .. n : split = <<t, FALSE>>
    BY <1>1 DEF ThinkingSplits
  <2>2. CASE split = <<n, TRUE>>
    BY <1>1, <2>2 DEF FeedModel, Session
  <2>3. ASSUME NEW t \in 1 .. n, split = <<t, FALSE>>
        PROVE  /\ FeedModel(s, split) \in Session
               /\ FeedModel(s, split).control = s.control
               /\ FeedModel(s, split).applied = s.applied
               /\ ~FeedModel(s, split).reasoning
               /\ \E u \in 0 .. n : FeedModel(s, split).used = s.used + u
    BY <2>3 DEF FeedModel, Session
  <2> QED BY <2>1, <2>2, <2>3
<1>2. CASE ~s.reasoning
  <2>1. split = <<0, FALSE>>
    BY <1>2 DEF ThinkingSplits
  <2> QED BY <1>2, <2>1 DEF FeedModel, Session
<1> QED BY <1>1, <1>2

(* A record whose model tokens are about to be committed: a decode row, or the
   prefill row after its last unit. *)
AboutToCommit(s, count) ==
    /\ s \in SlotRecords /\ s.req \in Requests
    /\ ~s.capture /\ s.post = "none" /\ s.left = 0
    /\ s.session.used \in Nat /\ ~s.session.control
    /\ s.budget > 0 /\ s.work >= s.budget
    /\ count \in 1 .. s.budget
    /\ s.session.reasoning =>
          /\ Plan[s.req].thinks /\ Plan[s.req].thinking > 0 /\ ~s.session.applied
          /\ s.budget = Plan[s.req].output - s.session.used
          /\ count <= Plan[s.req].thinking - s.session.used

(* commit_pending() leaves a record of the same request, in order. *)
LEMMA CommittedIsRow ==
    ASSUME NEW s, NEW count, NEW decodeRound \in BOOLEAN, AboutToCommit(s, count),
           ~decodeRound => count = 1,
           NEW row \in Committed(s, count, decodeRound)
    PROVE  /\ row \in SlotRecords /\ Row(row)
           /\ row.req = s.req /\ row.epoch = s.epoch
           /\ ~row.capture /\ row.left = 0
           /\ row.state \in {"decode", "control", "finished"}
<1>1. PICK cut \in (1 .. count) \X BOOLEAN :
         /\ cut[2] \/ cut[1] = count
         /\ \E split \in ThinkingSplits(s.session, cut[1]) :
              row = CommitRow(s, decodeRound, cut[1], cut[2], split)
  BY DEF Committed
<1>2. PICK split \in ThinkingSplits(s.session, cut[1]) :
              row = CommitRow(s, decodeRound, cut[1], cut[2], split)
  BY <1>1
<1> DEFINE n == cut[1]
           fed == FeedModel(s.session, split)
           ends == cut[2] \/ n = s.budget
           next == IF ends THEN fed ELSE PreviewContinue(fed, Plan[s.req].thinking)
<1>3. /\ s \in SlotRecords /\ s.req \in Requests /\ s.session \in Session
      /\ s.budget \in Nat /\ s.work \in Nat /\ s.session.used \in Nat
      /\ count \in 1 .. s.budget /\ n \in 1 .. count
      /\ n = count \/ ends
  BY <1>1 DEF AboutToCommit, SlotRecords
<1>4. row = [s EXCEPT !.budget  = s.budget - n,
                      !.work    = s.work - n,
                      !.session = next,
                      !.state   = IF ends THEN "finished"
                                  ELSE IF next.control THEN "control" ELSE "decode"]
  <2>1. (IF decodeRound THEN n ELSE 1) = n
    BY <1>3
  <2> QED BY <1>2, <2>1 DEF CommitRow
<1>5. /\ fed \in Session /\ fed.used \in Nat /\ ~fed.control
      /\ fed.applied = s.session.applied
      /\ fed.reasoning => s.session.reasoning /\ fed.used = s.session.used + n
  <2>1. \E t \in 0 .. n : fed.used = s.session.used + t
    BY <1>2, <1>3, FeedModelFields
  <2> QED BY <1>2, <1>3, <2>1, FeedModelFields DEF AboutToCommit
<1> HIDE DEF fed
<1>6. /\ next \in Session /\ next.used = fed.used /\ next.reasoning = fed.reasoning
      /\ next.applied = fed.applied
      /\ ends => next = fed
      /\ ~ends => next.control = ControlDue(fed, Plan[s.req].thinking)
  <2>1. ControlDue(fed, Plan[s.req].thinking) \in BOOLEAN
    BY <1>5 DEF ControlDue, Session
  <2>2. CASE ends
    BY <1>5, <2>2
  <2>3. CASE ~ends
    BY <1>5, <2>1, <2>3 DEF PreviewContinue, Session
  <2> QED BY <2>2, <2>3
<1> HIDE DEF ends
<1>7. /\ ends => ~next.control
      /\ ~ends => n = count
      /\ ~ends => (next.control <=> next.reasoning /\ next.used = Plan[s.req].thinking)
      /\ next.reasoning => /\ Plan[s.req].thinks /\ Plan[s.req].thinking > 0 /\ ~next.applied
                           /\ s.budget - n = Plan[s.req].output - next.used
                           /\ next.used <= Plan[s.req].thinking
      /\ next.used \in Nat
  <2>1. Plan[s.req].output \in Nat /\ Plan[s.req].thinking \in Nat
    BY <1>3, PlanFields
  <2>2. ~ends => n = count
    BY <1>3
  <2>3. ~ends => (next.control <=> next.reasoning /\ next.used = Plan[s.req].thinking)
    <3>1. fed.reasoning => Plan[s.req].thinking # NoThinkingBudget
      BY <1>5, <2>1 DEF AboutToCommit, NoThinkingBudget
    <3> QED BY <1>6, <3>1 DEF ControlDue
  <2>4. next.reasoning => /\ Plan[s.req].thinks /\ Plan[s.req].thinking > 0 /\ ~next.applied
                          /\ s.budget - n = Plan[s.req].output - next.used
                          /\ next.used <= Plan[s.req].thinking
    BY <1>3, <1>5, <1>6, <2>1 DEF AboutToCommit
  <2> QED BY <1>5, <1>6, <2>2, <2>3, <2>4
<1>8. ~ends => s.budget - n > 0
  BY <1>3 DEF ends
<1>9. next \in Session
  BY <1>6
<1> HIDE DEF next, n
<1>10. /\ row.req = s.req /\ row.epoch = s.epoch /\ row.capture = s.capture
       /\ row.left = s.left /\ row.post = s.post
       /\ row.budget = s.budget - n /\ row.work = s.work - n /\ row.session = next
       /\ row.state = IF ends THEN "finished"
                      ELSE IF next.control THEN "control" ELSE "decode"
       /\ row \in SlotRecords
  <2>1. s.budget - n \in Nat /\ s.work - n \in Nat
    BY <1>3 DEF AboutToCommit
  <2> QED BY <1>3, <1>4, <1>9, <2>1 DEF SlotRecords, States
<1>11. row.state \in {"decode", "control", "finished"}
  BY <1>10
<1>12. ~row.capture /\ row.left = 0 /\ row.post = "none" /\ row.work >= row.budget
  BY <1>3, <1>10 DEF AboutToCommit
<1>13. row.state # "finished" => ~ends
  BY <1>10
<1>14. Row(row)
  BY <1>3, <1>7, <1>8, <1>10, <1>11, <1>12, PlanFields DEF Row, RowPhase, States
<1> QED BY <1>3, <1>10, <1>11, <1>12, <1>14

-----------------------------------------------------------------------------
(* Steps that leave every request where it is. *)

(* Only the worker's position, its scan or what clients share changes. *)
LEMMA QuietStep ==
    ASSUME IInv, TypeOK', Boundary',
           UNCHANGED <<queue, submitted, outcome, slots, lane, mat, txn, prefillLane, head,
                       protection, nextEpoch, grant>>,
           pc' = "scan" => pc = "scan" /\ ToSet(scan') \subseteq ToSet(scan),
           pc' = "grant" => pc = "grant"
    PROVE  IInv'
<1>1. Rows'
  BY DEF IInv, Rows
<1>2. Owners'
  BY DEF IInv, Owners
<1>3. Agree'
  BY DEF IInv, Agree, CaptureOwners, Occupied, LanesFollowSlots, PrefillIsExclusive
<1>4. Sched'
  BY DEF IInv, Sched, DonorsAndBorrowers, Occupied
<1>5. Room'
  <2>1. ActiveRequests' = ActiveRequests /\ Borrowers' = Borrowers /\ FreeLanes' = FreeLanes
    BY DEF ActiveRequests, Occupied, Borrowers, FreeLanes
  <2>2. \A r : BackfillSafe(r)' = BackfillSafe(r)
    BY <2>1 DEF BackfillSafe
  <2>3. MemoryFits'
    BY <2>1 DEF IInv, Room, MemoryFits
  <2>4. BackfillIsHarmless'
    BY <2>1 DEF IInv, Room, BackfillIsHarmless
  <2> QED BY <2>2, <2>3, <2>4 DEF IInv, Room
<1> QED BY <1>1, <1>2, <1>3, <1>4, <1>5 DEF IInv

(* Nothing the invariant speaks of changes, except what clients share. *)
LEMMA ClientStep ==
    ASSUME IInv, TypeOK',
           UNCHANGED <<queue, submitted, outcome, slotVars, mat, txn, schedVars, pc, localVars>>
    PROVE  IInv'
<1>1. Boundary'
  BY DEF IInv, Boundary, Finished, Occupied, slotVars, schedVars, localVars
<1> QED BY <1>1, QuietStep DEF slotVars, schedVars, localVars

(* The second half of submit() touches only what clients share. *)
LEMMA SignalKeeps == ASSUME IInv, NEW r \in Requests, Signal(r) PROVE IInv'
<1>1. TypeOK'
  BY DEF IInv, TypeOK, Signal, slotVars, txnVars, schedVars, localVars
<1> QED BY <1>1, ClientStep DEF Signal, txnVars

(* A client that drops its handle touches only its cancellation flag. *)
LEMMA CancelKeeps == ASSUME IInv, NEW r \in Requests, Cancel(r) PROVE IInv'
<1>1. TypeOK'
  BY DEF IInv, TypeOK, Cancel, slotVars, txnVars, schedVars, localVars
<1> QED BY <1>1, ClientStep DEF Cancel, txnVars

(* stop() sets the flag the worker reads at the top of its loop. *)
LEMMA StopKeeps == ASSUME IInv, Stop PROVE IInv'
<1>1. TypeOK'
  BY DEF IInv, TypeOK, Stop, slotVars, txnVars, schedVars, localVars
<1> QED BY <1>1, ClientStep DEF Stop, txnVars

(* The transfer completes on the copy stream; no record changes. *)
LEMMA TransferCompletesKeeps == ASSUME IInv, TransferCompletes PROVE IInv'
<1>1. TypeOK'
  BY DEF IInv, TypeOK, TransferCompletes, clientVars, slotVars, schedVars, localVars
<1> QED BY <1>1, ClientStep DEF TransferCompletes, clientVars

(* The worker leaves its wait and starts a turn. *)
LEMMA AwakeKeeps == ASSUME IInv, Awake PROVE IInv'
<1> USE DEF Awake, Goto, clientVars, slotVars, txnVars, schedVars, localVars
<1>1. TypeOK'
  BY DEF IInv, TypeOK, Phases
<1>2. Boundary'
  BY DEF IInv, Boundary
<1> QED BY <1>1, <1>2, QuietStep

(* Where progress_context_transaction() is called from and returns to. *)
LEMMA ProgressPhases ==
    ASSUME CallsProgress
    PROVE  pc \in {"progress", "admitted", "captured"} /\ pc' \in {"settle", "start", "top"}
BY DEF CallsProgress, AfterProgress

(* progress_context_transaction() without a transaction, or before it is ready. *)
LEMMA ProgressNothingKeeps == ASSUME IInv, ProgressNothing PROVE IInv'
<1> USE DEF ProgressNothing, clientVars, slotVars, txnVars, schedVars, localVars
<1>0. pc \in {"progress", "admitted", "captured"} /\ pc' \in {"settle", "start", "top"}
  BY ProgressPhases
<1>1. TypeOK'
  BY <1>0 DEF IInv, TypeOK, Phases
<1>2. Boundary'
  BY <1>0 DEF IInv, Boundary
<1> QED BY <1>0, <1>1, <1>2, QuietStep

(* The settlement has no finished row left, or waits for the transaction. *)
LEMMA SettleDoneKeeps == ASSUME IInv, SettleDone PROVE IInv'
<1> USE DEF SettleDone, Goto, clientVars, slotVars, txnVars, schedVars, localVars
<1>1. TypeOK'
  BY DEF IInv, TypeOK, Phases
<1>2. Boundary'
  BY DEF IInv, Boundary, Finished, Occupied
<1> QED BY <1>1, <1>2, QuietStep

(* The worker's decision to admit: a boundary without prefill or transaction. *)
LEMMA DecideKeeps == ASSUME IInv, Decide PROVE IInv'
<1> USE DEF Decide, Goto, clientVars, slotVars, txnVars, schedVars, localVars
<1>0. /\ pc = "decide"
      /\ (pc' = "admit" /\ ShouldAttemptAdmission) \/ pc' = "start"
      /\ check' \in BOOLEAN
  BY DEF IInv, TypeOK
<1>1. TypeOK'
  BY <1>0 DEF IInv, TypeOK, Phases
<1>2. Boundary'
  BY <1>0 DEF IInv, Boundary, Finished, Occupied, ShouldAttemptAdmission
<1> QED BY <1>0, <1>1, <1>2, QuietStep

(* The scan for a backfill has no candidate left. *)
LEMMA ScanDoneKeeps == ASSUME IInv, ScanDone PROVE IInv'
<1> USE DEF ScanDone, Goto, clientVars, slotVars, txnVars, schedVars, localVars
<1>1. TypeOK'
  BY DEF IInv, TypeOK, Phases
<1>2. Boundary'
  BY DEF IInv, Boundary
<1> QED BY <1>1, <1>2, QuietStep

(* The candidate at the head of the scan, and the candidates behind it. *)
LEMMA ScanFacts ==
    ASSUME IInv, pc = "scan", scan # <<>>
    PROVE  /\ Head(scan) \in Requests /\ Head(scan) \in ToSet(queue)
           /\ Head(scan) # head
           /\ Tail(scan) \in Seq(Requests) /\ IsInjective(Tail(scan))
           /\ ToSet(Tail(scan)) = ToSet(scan) \ {Head(scan)}
<1>1. scan \in Seq(Requests) /\ IsInjective(scan) /\ ToSet(scan) \subseteq ToSet(queue)
  BY DEF IInv, TypeOK, Boundary
<1>2. /\ Head(scan) \in Requests /\ Head(scan) \in ToSet(scan)
      /\ Tail(scan) \in Seq(Requests) /\ IsInjective(Tail(scan))
      /\ ToSet(Tail(scan)) = ToSet(scan) \ {Head(scan)}
  BY <1>1, TailRest
<1> QED BY <1>1, <1>2 DEF IInv, Sched

(* The scan passes over a candidate that does not fit. *)
LEMMA ScanSkipsKeeps == ASSUME IInv, ScanSkips PROVE IInv'
<1> USE DEF ScanSkips, clientVars, slotVars, txnVars, schedVars
<1>0. /\ scan' \in Seq(Requests) /\ IsInjective(scan')
      /\ ToSet(scan') \subseteq ToSet(scan)
  BY ScanFacts
<1>1. TypeOK'
  BY <1>0 DEF IInv, TypeOK
<1>2. Boundary'
  BY <1>0 DEF IInv, Boundary, Finished, Occupied
<1> QED BY <1>0, <1>1, <1>2, QuietStep

(* A turn with no runnable row. *)
LEMMA RunNothingKeeps == ASSUME IInv, RunNothing PROVE IInv'
<1> USE DEF RunNothing, UnitDone, Goto, clientVars, slotVars, txnVars, schedVars
<1>1. TypeOK'
  BY DEF IInv, TypeOK, Phases
<1>2. Boundary'
  BY DEF IInv, Boundary
<1> QED BY <1>1, <1>2, QuietStep

-----------------------------------------------------------------------------
(* The memory the requests hold. *)

(* The requests that MemoryFits counts, and the ones BackfillIsHarmless does. *)
Holders == (ActiveRequests \cup {mat.req, grant.req}) \ {NoRequest}
Debtors == Borrowers \cup (IF mat.epoch = protection.epoch THEN {mat.req} ELSE {})

(* The requests that count against the memory are finitely many. *)
LEMMA HolderFacts ==
    ASSUME TypeOK, Agree, Sched
    PROVE  /\ ActiveRequests \in SUBSET Requests
           /\ Holders \in SUBSET Requests
           /\ Borrowers \in SUBSET Requests
           /\ protection # NoProtection => Debtors \in SUBSET Requests /\ head \in Requests
<1>1. \A l \in Lanes : slots[l].req \in Requests \cup {NoRequest} /\ slots[l].epoch \in Nat
  BY DEF TypeOK, SlotRecords
<1>2. mat.req \in Requests \cup {NoRequest} /\ grant.req \in Requests \cup {NoRequest}
  BY DEF TypeOK
<1>3. ActiveRequests \in SUBSET Requests /\ Borrowers \in SUBSET Requests
  BY <1>1 DEF ActiveRequests, Borrowers, Occupied
<1>4. Holders \in SUBSET Requests
  BY <1>2, <1>3 DEF Holders
<1>5. ASSUME protection # NoProtection
      PROVE  Debtors \in SUBSET Requests /\ head \in Requests
  <2>1. protection.epoch \in 1 .. nextEpoch - 1 /\ head \in ToSet(queue)
    BY <1>5 DEF Sched
  <2>2. head \in Requests
    BY <2>1, QueueFacts
  <2>3. mat = NoMat => mat.epoch # protection.epoch
    BY <2>1 DEF NoMat, NoEpoch, TypeOK
  <2>4. mat # NoMat => mat.req \in Requests
    BY <1>2 DEF Agree
  <2> QED BY <1>3, <2>2, <2>3, <2>4 DEF Debtors
<1> QED BY <1>3, <1>4, <1>5

(* A step after which no request holds memory that did not before. *)
LEMMA RoomStep ==
    ASSUME TypeOK, Agree, Sched, Room, TypeOK', Agree', Sched',
           Holders' \subseteq Holders, pc' # "grant",
           protection' # NoProtection => protection' = protection /\ Debtors' \subseteq Debtors
    PROVE  Room'
<1>1. MemoryFits'
  <2>1. Holders \in SUBSET Requests /\ Holders' \in SUBSET Requests
    BY HolderFacts
  <2>2. DemandOf(Holders') <= DemandOf(Holders)
    BY <2>1, DemandFacts
  <2>3. DemandOf(Holders) <= Capacity
    BY DEF Room, MemoryFits, Holders
  <2>4. DemandOf(Holders') \in Nat /\ DemandOf(Holders) \in Nat /\ Capacity \in Nat
    BY <2>1, DemandFacts
  <2>5. DemandOf(Holders') <= Capacity
    BY <2>2, <2>3, <2>4
  <2> QED BY <2>5 DEF MemoryFits, Holders
<1>2. BackfillIsHarmless'
  <2>1. SUFFICES ASSUME protection' # NoProtection
                 PROVE  /\ Cardinality(Debtors') + 1 <= MaxConcurrency
                        /\ DemandOf(Debtors') + Demand[head'] <= Capacity
    BY DEF BackfillIsHarmless, Debtors
  <2>2. protection = protection' /\ Debtors' \subseteq Debtors
    BY <2>1
  <2>3. protection.head = head /\ protection'.head = head'
    BY <2>1, <2>2 DEF Sched, DonorsAndBorrowers
  <2>4. /\ Cardinality(Debtors) + 1 <= MaxConcurrency
        /\ DemandOf(Debtors) + Demand[head] <= Capacity
    BY <2>1, <2>2 DEF Room, BackfillIsHarmless, Debtors
  <2>5. /\ Debtors \in SUBSET Requests /\ Debtors' \in SUBSET Requests /\ head \in Requests
    BY <2>1, <2>2, HolderFacts
  <2>6. IsFiniteSet(Debtors)
    BY <2>5, DemandFacts
  <2>7. /\ Cardinality(Debtors') <= Cardinality(Debtors)
        /\ Cardinality(Debtors') \in Nat /\ Cardinality(Debtors) \in Nat
    BY <2>2, <2>6, FS_Subset, FS_CardinalityType
  <2>8. /\ DemandOf(Debtors') <= DemandOf(Debtors)
        /\ DemandOf(Debtors') \in Nat /\ DemandOf(Debtors) \in Nat
        /\ Demand[head] \in Nat /\ Capacity \in Nat
    BY <2>2, <2>5, DemandFacts
  <2>9. MaxConcurrency \in Nat /\ head' = head
    BY <2>2, <2>3, EngineAssumption
  <2>10. Cardinality(Debtors') + 1 <= MaxConcurrency
    BY <2>4, <2>7, <2>9
  <2>11. DemandOf(Debtors') + Demand[head] <= Capacity
    BY <2>4, <2>8
  <2> QED BY <2>9, <2>10, <2>11
<1> QED BY <1>1, <1>2 DEF Room

(* A step of the execution unit, or the end of a capture: records change, but
   every request stays on its lane. *)
LEMMA SameOwners ==
    ASSUME IInv, TypeOK', Rows', Agree', Boundary',
           UNCHANGED <<queue, submitted, outcome, mat, head, protection, nextEpoch, grant>>,
           \A l \in Lanes : slots'[l].req = slots[l].req /\ slots'[l].epoch = slots[l].epoch,
           pc' \notin {"scan", "grant"}
    PROVE  IInv'
<1>1. Owners'
  BY DEF IInv, Owners
<1>2. Occupied' = Occupied
  BY DEF Occupied
<1>3. Sched'
  BY <1>2 DEF IInv, Sched, DonorsAndBorrowers, Occupied
<1>4. Borrowers' = Borrowers /\ ActiveRequests' = ActiveRequests
  BY <1>2 DEF Borrowers, ActiveRequests, Occupied
<1>5. Holders' = Holders /\ Debtors' = Debtors
  BY <1>4 DEF Holders, Debtors
<1>6. Room'
  BY <1>3, <1>5, RoomStep DEF IInv
<1> QED BY <1>1, <1>3, <1>6 DEF IInv

-----------------------------------------------------------------------------
(* The execution unit and the end of a capture. *)

(* What Rows says of an occupied lane. *)
LEMMA OccupiedFacts ==
    ASSUME IInv, NEW l \in Occupied
    PROVE  /\ l \in Lanes /\ slots[l] \in SlotRecords
           /\ slots[l].req \in Requests /\ Row(slots[l])
           /\ mat # NoMat => l # mat.lane
<1>1. l \in Lanes /\ slots[l].req # NoRequest /\ slots[l] \in SlotRecords
  BY DEF IInv, TypeOK, Occupied
<1>2. slots[l].req \in Requests
  BY <1>1 DEF SlotRecords
<1>3. Row(slots[l])
  BY <1>1 DEF IInv, Rows
<1>4. mat # NoMat => l # mat.lane
  BY <1>1, EmptySlotFacts DEF IInv, Agree
<1> QED BY <1>1, <1>2, <1>3, <1>4

(* run_control_batch() on one row: the suffix fits the budget. *)
LEMMA ControlIsRow ==
    ASSUME NEW s \in SlotRecords, s.req \in Requests, Row(s),
           s.state = "control", ~s.capture, NEW row,
           row = [s EXCEPT !.state   = "decode",
                           !.budget  = @ - ControlLength,
                           !.work    = @ - ControlLength,
                           !.session = PreviewControl(@)]
    PROVE  /\ row \in SlotRecords /\ Row(row)
           /\ row.req = s.req /\ row.epoch = s.epoch /\ row.left = s.left
           /\ ~row.capture /\ row.state = "decode"
<1> DEFINE p == Plan[s.req]
           next == PreviewControl(s.session)
<1>1. /\ p.output \in Nat /\ p.thinking \in Nat /\ ControlLength \in Nat \ {0}
      /\ ValidateGenerationCapacity(p.thinks, p.thinking, p.output)
  BY PlanFields
<1>2. /\ s.session \in Session /\ s.budget \in Nat /\ s.work \in Nat /\ s.session.used \in Nat
      /\ s.post = "none" /\ s.left \in Nat /\ ~(s.left > 0)
      /\ s.work >= s.budget /\ s.budget > 0 /\ s.budget = p.output - p.thinking
      /\ p.thinks /\ p.thinking > 0
  BY <1>1 DEF SlotRecords, Row, RowPhase, States
<1>3. s.budget - ControlLength >= 1
  BY <1>1, <1>2 DEF ValidateGenerationCapacity, NoThinkingBudget
<1>4. /\ next \in Session /\ next.used = s.session.used /\ ~next.control /\ ~next.reasoning
  BY <1>2 DEF PreviewControl, Session
<1> HIDE DEF next
<1>5. /\ row = [s EXCEPT !.state = "decode", !.budget = s.budget - ControlLength,
                         !.work = s.work - ControlLength, !.session = next]
  BY DEF next
<1>6. /\ s.budget - ControlLength \in Nat /\ s.work - ControlLength \in Nat
      /\ s.work - ControlLength >= s.budget - ControlLength
  BY <1>1, <1>2, <1>3
<1>7. /\ row \in SlotRecords /\ row.req = s.req /\ row.epoch = s.epoch /\ row.left = s.left
      /\ row.capture = s.capture /\ row.state = "decode" /\ row.post = "none"
      /\ row.budget = s.budget - ControlLength /\ row.work = s.work - ControlLength
      /\ row.session = next
  BY <1>2, <1>4, <1>5, <1>6, Zenon DEF SlotRecords, States
<1>8. Row(row)
  BY <1>1, <1>2, <1>3, <1>4, <1>6, <1>7 DEF Row, RowPhase, States
<1> QED BY <1>7, <1>8

(* run_control_batch() commits the control suffix of every control row. *)
LEMMA RunControlBatchKeeps == ASSUME IInv, RunControlBatch PROVE IInv'
<1> USE DEF RunControlBatch, UnitDone, Goto, clientVars, txnVars, schedVars
<1>1. ASSUME NEW l \in ControlRows
      PROVE  /\ l \in Occupied
             /\ slots'[l] \in SlotRecords /\ Row(slots'[l])
             /\ slots'[l].req = slots[l].req /\ slots'[l].epoch = slots[l].epoch
             /\ slots'[l].left = slots[l].left
             /\ ~slots'[l].capture /\ slots'[l].state = "decode"
             /\ ~slots[l].capture /\ slots[l].state = "control"
  <2>1. l \in Occupied /\ l \in Lanes /\ slots[l].state = "control" /\ ~slots[l].capture
    BY Zenon DEF ControlRows, Occupied
  <2>2. slots[l] \in SlotRecords /\ slots[l].req \in Requests /\ Row(slots[l])
    BY <2>1, OccupiedFacts, Zenon
  <2>3. slots'[l] = [slots[l] EXCEPT !.state   = "decode",
                                     !.budget  = @ - ControlLength,
                                     !.work    = @ - ControlLength,
                                     !.session = PreviewControl(@)]
    BY <2>1, Zenon
  <2> HIDE DEF RunControlBatch
  <2> QED BY <2>1, <2>2, <2>3, ControlIsRow, Zenon
<1>2. \A l \in Lanes \ ControlRows : slots'[l] = slots[l]
  BY Zenon
<1>3. DOMAIN slots' = Lanes /\ slots' = [l \in Lanes |-> slots'[l]] /\ pc = "unit" /\ pc' = "top"
  BY Zenon
<1>4. /\ snapshot' = {} /\ prevDecode' = TRUE
      /\ UNCHANGED <<queue, clientVars, outcome, check, lane, txnVars, schedVars,
                     havePending, grant, scan>>
  BY Zenon
<1> USE DEF IInv
<1> HIDE DEF RunControlBatch
<1>5. \A l \in Lanes : slots'[l].req = slots[l].req /\ slots'[l].epoch = slots[l].epoch
  BY <1>1, <1>2
<1>6. TypeOK'
  <2>1. slots' \in [Lanes -> SlotRecords]
    BY <1>1, <1>2, <1>3 DEF TypeOK
  <2> QED BY <1>3, <1>4, <2>1 DEF TypeOK, Phases
<1>7. Rows'
  BY <1>1, <1>2, EmptySlotFacts DEF Rows, Occupied
<1>8. Agree'
  <2>1. CaptureOwners' = CaptureOwners
    BY <1>1, <1>2, <1>5 DEF CaptureOwners, Occupied
  <2>2. LanesFollowSlots'
    BY <1>1, <1>2, <1>4, <1>5 DEF Agree, LanesFollowSlots, Occupied
  <2>3. PrefillIsExclusive'
    BY <1>1, <1>2, <1>4 DEF Agree, PrefillIsExclusive
  <2>4. mat # NoMat => slots'[mat.lane] = slots[mat.lane]
    <3>1. mat # NoMat => mat.lane \in Lanes
      BY DEF Agree, TypeOK
    <3> QED BY <1>1, <1>2, <3>1, OccupiedFacts
  <2> QED BY <1>4, <2>1, <2>2, <2>3, <2>4 DEF Agree
<1>9. Boundary'
  BY <1>3, <1>4 DEF Boundary
<1> QED BY <1>3, <1>4, <1>5, <1>6, <1>7, <1>8, <1>9, SameOwners

(* Every record a decode round may leave on a decode row. *)
LEMMA DecodedIsRow ==
    ASSUME IInv, NEW l \in DecodeRows, NEW row \in DecodedRows(l)
    PROVE  /\ row \in SlotRecords /\ Row(row)
           /\ row.req = slots[l].req /\ row.epoch = slots[l].epoch
           /\ ~row.capture /\ row.left = 0 /\ slots[l].left = 0
           /\ row.state \in {"decode", "control", "finished"}
<1> DEFINE s == slots[l]
           p == Plan[s.req]
<1>1. l \in Occupied /\ s.state = "decode" /\ ~s.capture
  BY DEF DecodeRows
<1>2. s \in SlotRecords /\ s.req \in Requests /\ Row(s)
  BY <1>1, OccupiedFacts
<1>3. PICK count \in 1 .. MaxRound : /\ count <= LicensedTokens(s.session, p.thinking, s.budget)
                                     /\ row \in Committed(s, count, TRUE)
  BY DEF DecodedRows
<1>4. MaxRound \in Nat /\ p.output \in Nat /\ p.thinking \in Nat
  BY <1>2, PlanFields, EngineAssumption
<1> HIDE DEF s, p
<1>5. /\ s.session \in Session /\ s.session.used \in Nat /\ s.left \in Nat /\ ~(s.left > 0)
      /\ s.budget \in Nat /\ s.work \in Nat /\ s.post = "none" /\ ~s.session.control
      /\ s.work >= s.budget /\ s.budget > 0
      /\ s.session.reasoning => /\ p.thinks /\ p.thinking > 0 /\ ~s.session.applied
                                /\ s.budget = p.output - s.session.used
                                /\ s.session.used < p.thinking
  BY <1>1, <1>2 DEF Row, RowPhase, States, SlotRecords, p
<1>6. /\ count \in 1 .. s.budget
      /\ s.session.reasoning => count <= p.thinking - s.session.used
  BY <1>3, <1>4, <1>5 DEF LicensedTokens, NoThinkingBudget, Session
<1>7. AboutToCommit(s, count)
  BY <1>1, <1>2, <1>5, <1>6 DEF AboutToCommit, p
<1>8. /\ row \in SlotRecords /\ Row(row)
      /\ row.req = s.req /\ row.epoch = s.epoch
      /\ ~row.capture /\ row.left = 0
      /\ row.state \in {"decode", "control", "finished"}
  BY <1>3, <1>7, CommittedIsRow
<1> QED BY <1>5, <1>8 DEF s

(* A decode round commits up to the round's width on every decode row. *)
LEMMA RunDecodeRoundKeeps == ASSUME IInv, RunDecodeRound PROVE IInv'
<1> USE DEF clientVars, txnVars, schedVars
<1>0. PICK rows :
         /\ \A l \in DecodeRows : rows[l] \in DecodedRows(l)
         /\ slots' = [l \in Lanes |-> IF l \in DecodeRows THEN rows[l] ELSE slots[l]]
         /\ lane' = [l \in Lanes |-> IF l \in DecodeRows THEN LaneAfter(rows[l]) ELSE lane[l]]
  BY DEF RunDecodeRound
<1>1. ASSUME NEW l \in DecodeRows
      PROVE  /\ l \in Occupied /\ l \in Lanes
             /\ slots'[l] \in SlotRecords /\ Row(slots'[l])
             /\ slots'[l].req = slots[l].req /\ slots'[l].epoch = slots[l].epoch
             /\ slots'[l].left = slots[l].left
             /\ ~slots'[l].capture /\ ~slots[l].capture
             /\ lane'[l] = LaneAfter(slots'[l])
  <2>1. l \in Occupied /\ l \in Lanes /\ ~slots[l].capture
    BY DEF DecodeRows, Occupied
  <2>2. rows[l] \in DecodedRows(l) /\ slots'[l] = rows[l] /\ lane'[l] = LaneAfter(rows[l])
    BY <1>0, <2>1
  <2> QED BY <2>1, <2>2, DecodedIsRow
<1>2. \A l \in Lanes \ DecodeRows : slots'[l] = slots[l] /\ lane'[l] = lane[l]
  BY <1>0
<1>3. DOMAIN slots' = Lanes /\ slots' = [l \in Lanes |-> slots'[l]] /\ pc = "unit" /\ pc' = "top"
  BY <1>0 DEF RunDecodeRound, UnitDone, Goto
<1>4. /\ snapshot' = {} /\ prevDecode' = TRUE
      /\ UNCHANGED <<queue, clientVars, outcome, check, txnVars, schedVars,
                     havePending, grant, scan>>
  BY DEF RunDecodeRound, UnitDone
<1> USE DEF IInv
<1>5. \A l \in Lanes : slots'[l].req = slots[l].req /\ slots'[l].epoch = slots[l].epoch
  BY <1>1, <1>2
<1>6. TypeOK'
  <2>1. slots' \in [Lanes -> SlotRecords]
    BY <1>1, <1>2, <1>3 DEF TypeOK
  <2>2. lane' \in [Lanes -> {"free", "materializing", "active", "terminalPending"}]
    BY <1>0 DEF TypeOK, LaneAfter
  <2> QED BY <1>3, <1>4, <2>1, <2>2 DEF TypeOK, Phases
<1>7. Rows'
  BY <1>1, <1>2, EmptySlotFacts DEF Rows, Occupied
<1>8. Agree'
  <2>1. CaptureOwners' = CaptureOwners
    BY <1>1, <1>2, <1>5 DEF CaptureOwners, Occupied
  <2>2. LanesFollowSlots'
    BY <1>1, <1>2, <1>4, <1>5 DEF Agree, LanesFollowSlots, Occupied, LaneAfter
  <2>3. PrefillIsExclusive'
    BY <1>1, <1>2, <1>4 DEF Agree, PrefillIsExclusive
  <2>4. mat # NoMat => slots'[mat.lane] = slots[mat.lane] /\ lane'[mat.lane] = lane[mat.lane]
    <3>1. mat # NoMat => mat.lane \in Lanes
      BY DEF Agree, TypeOK
    <3> QED BY <1>1, <1>2, <3>1, OccupiedFacts
  <2> QED BY <1>4, <2>1, <2>2, <2>3, <2>4 DEF Agree
<1>9. Boundary'
  BY <1>3, <1>4 DEF Boundary
<1> QED BY <1>3, <1>4, <1>5, <1>6, <1>7, <1>8, <1>9, SameOwners

(* complete_capture() returns the owner's row to its postponed phase. *)
LEMMA ProgressCompletesCaptureKeeps == ASSUME IInv, ProgressCompletesCapture PROVE IInv'
<1> USE DEF clientVars, schedVars, localVars
<1>0. /\ pc \in {"progress", "admitted", "captured"} /\ pc' \in {"settle", "start", "top"}
      /\ txn = "capture" /\ txn' = "none" /\ ready' = FALSE /\ check' = TRUE
      /\ UNCHANGED <<queue, clientVars, outcome, lane, mat, schedVars, localVars>>
  <2>1. CallsProgress
    BY Zenon DEF ProgressCompletesCapture
  <2> QED BY <2>1, ProgressPhases, Zenon DEF ProgressCompletesCapture, CloseTransaction
<1>1. ASSUME NEW l \in CaptureOwners
      PROVE  /\ l \in Occupied /\ l \in Lanes
             /\ slots'[l] \in SlotRecords /\ Row(slots'[l])
             /\ slots'[l].req = slots[l].req /\ slots'[l].epoch = slots[l].epoch
             /\ slots'[l].left = slots[l].left
             /\ ~slots'[l].capture
             /\ slots[l].state # "finished" /\ slots'[l].state # "finished"
  <2>1. l \in Occupied /\ l \in Lanes /\ slots[l].capture
    BY DEF CaptureOwners, Occupied
  <2>2. slots[l] \in SlotRecords /\ slots[l].req \in Requests /\ Row(slots[l])
    BY <2>1, OccupiedFacts
  <2>3. slots'[l] = [slots[l] EXCEPT !.capture = FALSE, !.state = slots[l].post, !.post = "none"]
    BY <2>1, Zenon DEF ProgressCompletesCapture
  <2>4. /\ slots'[l] \in SlotRecords
        /\ slots'[l].req = slots[l].req /\ slots'[l].epoch = slots[l].epoch
        /\ slots'[l].left = slots[l].left /\ slots'[l].budget = slots[l].budget
        /\ slots'[l].work = slots[l].work /\ slots'[l].session = slots[l].session
        /\ slots'[l].capture = FALSE /\ slots'[l].state = slots[l].post /\ slots'[l].post = "none"
    BY <2>2, <2>3 DEF SlotRecords
  <2>5. RowPhase(slots'[l]) = RowPhase(slots[l]) /\ slots[l].post # "finished"
        /\ slots[l].state = "prefill"
    BY <2>1, <2>2, <2>4 DEF RowPhase, Row
  <2>6. Row(slots'[l])
    BY <2>2, <2>4, <2>5 DEF Row
  <2> QED BY <2>1, <2>4, <2>5, <2>6
<1>2. \A l \in Lanes \ CaptureOwners : slots'[l] = slots[l]
  BY Zenon DEF ProgressCompletesCapture
<1>3. DOMAIN slots' = Lanes /\ slots' = [l \in Lanes |-> slots'[l]]
  BY Zenon DEF ProgressCompletesCapture
<1> USE DEF IInv
<1>5. \A l \in Lanes : slots'[l].req = slots[l].req /\ slots'[l].epoch = slots[l].epoch
  BY <1>1, <1>2
<1>6. TypeOK'
  <2>1. slots' \in [Lanes -> SlotRecords]
    BY <1>1, <1>2, <1>3 DEF TypeOK
  <2>2. /\ queue' = queue /\ signalling' = signalling /\ submitted' = submitted
        /\ cancelled' = cancelled /\ stopping' = stopping /\ outcome' = outcome /\ lane' = lane
        /\ mat' = mat /\ prefillLane' = prefillLane /\ head' = head /\ protection' = protection
        /\ nextEpoch' = nextEpoch /\ prevDecode' = prevDecode /\ havePending' = havePending
        /\ grant' = grant /\ scan' = scan /\ snapshot' = snapshot
    BY <1>0
  <2>3. /\ pc' \in Phases /\ txn' \in {"none", "materialization", "capture"}
        /\ ready' \in BOOLEAN /\ check' \in BOOLEAN
    BY <1>0 DEF Phases
  <2> QED BY <2>1, <2>2, <2>3, Zenon DEF TypeOK
<1>7. Rows'
  BY <1>1, <1>2, EmptySlotFacts DEF Rows, Occupied
<1>8. Agree'
  <2>1. CaptureOwners' = {}
    BY <1>1, <1>2, <1>5 DEF CaptureOwners, Occupied
  <2>2. LanesFollowSlots'
    BY <1>0, <1>1, <1>2, <1>5 DEF Agree, LanesFollowSlots, Occupied
  <2>3. PrefillIsExclusive'
    BY <1>0, <1>1, <1>2 DEF Agree, PrefillIsExclusive
  <2>4. mat = NoMat
    BY <1>0 DEF Agree
  <2> QED BY <1>0, <2>1, <2>2, <2>3, <2>4 DEF Agree
<1>9. Boundary'
  BY <1>0 DEF Boundary
<1> QED BY <1>0, <1>5, <1>6, <1>7, <1>8, <1>9, SameOwners

(* A unit of the staged prefill replaces one record, and may open a capture. *)
LEMMA PrefillStep ==
    ASSUME IInv, pc = "unit", pc' \in {"top", "captured"},
           prefillLane \in Occupied, ~slots[prefillLane].capture,
           NEW row \in SlotRecords, Row(row),
           row.req = slots[prefillLane].req, row.epoch = slots[prefillLane].epoch,
           slots' = [slots EXCEPT ![prefillLane] = row],
           lane' = [lane EXCEPT ![prefillLane] = LaneAfter(row)],
           prefillLane' = IF row.left > 0 THEN prefillLane ELSE NoLane,
           \/ ~row.capture /\ txn' = txn
           \/ row.capture /\ txn = "none" /\ txn' = "capture",
           ready' \in BOOLEAN, check' \in BOOLEAN, prevDecode' \in BOOLEAN, snapshot' = {},
           UNCHANGED <<queue, clientVars, outcome, mat, head, protection, nextEpoch,
                       havePending, grant, scan>>
    PROVE  IInv'
<1> USE DEF clientVars, IInv
<1> DEFINE pl == prefillLane
<1>1. pl \in Lanes /\ pl # NoLane /\ slots[pl].req # NoRequest /\ (mat # NoMat => pl # mat.lane)
  BY OccupiedFacts, LaneFacts DEF Occupied
<1>2. /\ slots'[pl] = row /\ lane'[pl] = LaneAfter(row)
      /\ \A l \in Lanes \ {pl} : slots'[l] = slots[l] /\ lane'[l] = lane[l]
  BY <1>1 DEF TypeOK
<1>3. \A l \in Lanes : slots'[l].req = slots[l].req /\ slots'[l].epoch = slots[l].epoch
  BY <1>1, <1>2
<1>4. TypeOK'
  <2>1. slots' \in [Lanes -> SlotRecords]
    BY DEF TypeOK
  <2>2. lane' \in [Lanes -> {"free", "materializing", "active", "terminalPending"}]
    BY DEF TypeOK, LaneAfter
  <2>3. prefillLane' \in Lanes \cup {NoLane}
    BY <1>1
  <2>4. txn' \in {"none", "materialization", "capture"} /\ snapshot' \subseteq Lanes
    BY DEF TypeOK
  <2> QED BY <2>1, <2>2, <2>3, <2>4 DEF TypeOK, Phases
<1>5. Rows'
  BY <1>1, <1>2 DEF Rows
<1>6. Agree'
  <2>1. mat # NoMat => mat.lane \in Lanes
    BY DEF Agree, TypeOK
  <2>2. /\ (txn' = "materialization") = (mat' # NoMat)
        /\ mat' # NoMat => /\ mat'.req # NoRequest /\ mat'.lane # NoLane
                           /\ slots'[mat'.lane] = EmptySlot /\ lane'[mat'.lane] = "materializing"
                           /\ prefillLane' = NoLane
    BY <1>1, <1>2, <2>1 DEF Agree
  <2>3. CaptureOwners' = IF row.capture THEN CaptureOwners \cup {pl} ELSE CaptureOwners
    <3>1. Occupied' = Occupied
      BY <1>3 DEF Occupied
    <3> QED BY <1>1, <1>2, <3>1 DEF CaptureOwners
  <2>4. /\ (txn' = "capture") = (CaptureOwners' # {})
        /\ \A l, k \in CaptureOwners' : l = k
    BY <2>3 DEF Agree
  <2>5. LanesFollowSlots'
    BY <1>1, <1>2, <1>3 DEF Agree, LanesFollowSlots, LaneAfter
  <2>6. PrefillIsExclusive'
    BY <1>1, <1>2, LaneFacts DEF Agree, PrefillIsExclusive
  <2> QED BY <2>2, <2>4, <2>5, <2>6 DEF Agree
<1>7. Boundary'
  BY DEF Boundary
<1> QED BY <1>3, <1>4, <1>5, <1>6, <1>7, SameOwners

(* The row in staged prefill, when the scheduler runs it. *)
LEMMA PrefillFacts ==
    ASSUME IInv, RunsPrefill
    PROVE  /\ prefillLane \in Occupied /\ prefillLane \in Lanes
           /\ slots[prefillLane] \in SlotRecords /\ slots[prefillLane].req \in Requests
           /\ Row(slots[prefillLane])
           /\ ~slots[prefillLane].capture /\ slots[prefillLane].state = "prefill"
           /\ slots[prefillLane].left \in Nat \ {0}
           /\ lane[prefillLane] = "active"
<1> USE DEF IInv
<1>1. prefillLane \in Lanes /\ ~slots[prefillLane].capture
  BY DEF RunsPrefill, PrefillRunnable, TypeOK
<1>2. slots[prefillLane].left > 0 /\ slots[prefillLane].left \in Nat
  BY <1>1 DEF Agree, PrefillIsExclusive, TypeOK, SlotRecords
<1>3. prefillLane \in Occupied
  BY <1>1, <1>2, EmptySlotFacts DEF Rows, Occupied
<1>4. /\ slots[prefillLane] \in SlotRecords /\ slots[prefillLane].req \in Requests
      /\ Row(slots[prefillLane]) /\ (mat # NoMat => prefillLane # mat.lane)
  BY <1>3, OccupiedFacts
<1>5. slots[prefillLane].state = "prefill"
  BY <1>1, <1>2, <1>4 DEF Row, RowPhase
<1>6. lane[prefillLane] = "active"
  BY <1>1, <1>3, <1>4, <1>5, LaneFacts DEF Agree, LanesFollowSlots, Occupied, NoMat
<1> QED BY <1>1, <1>2, <1>3, <1>4, <1>5, <1>6

(* A capture holds its owner's record in the prefill state. *)
LEMMA CapturedIsRow ==
    ASSUME NEW s \in SlotRecords, Row(s), ~s.capture, s.state # "finished", NEW row,
           row = [s EXCEPT !.state = "prefill", !.capture = TRUE, !.post = s.state]
    PROVE  /\ row \in SlotRecords /\ Row(row) /\ row.capture /\ row.state = "prefill"
           /\ row.req = s.req /\ row.epoch = s.epoch /\ row.left = s.left
<1>1. /\ row \in SlotRecords /\ row.capture = TRUE /\ row.state = "prefill" /\ row.post = s.state
      /\ row.req = s.req /\ row.epoch = s.epoch /\ row.left = s.left
      /\ row.budget = s.budget /\ row.work = s.work /\ row.session = s.session
  BY DEF SlotRecords, States
<1>2. RowPhase(row) = RowPhase(s)
  BY <1>1 DEF RowPhase
<1>3. RowPhase(s) # "finished"
  BY DEF RowPhase
<1>4. Row(row)
  BY <1>1, <1>2, <1>3 DEF Row
<1> QED BY <1>1, <1>4

(* A prefill unit that is not the last, with or without a capture. *)
LEMMA RunPrefillUnitKeeps == ASSUME IInv, RunPrefillUnit PROVE IInv'
<1> DEFINE s == slots[prefillLane]
           row == [s EXCEPT !.left = s.left - 1, !.work = s.work - 1]
<1>1. /\ RunsPrefill /\ s.left > 1
      /\ \/ SkipsCapture(prefillLane, row)
         \/ txn = "none" /\ ReservesCapture(prefillLane, row, "prefill")
      /\ UNCHANGED <<queue, clientVars, outcome, check, lane, mat, schedVars>>
  BY DEF RunPrefillUnit
<1>2. /\ prefillLane \in Occupied /\ prefillLane \in Lanes
      /\ s \in SlotRecords /\ s.req \in Requests /\ Row(s)
      /\ ~s.capture /\ s.state = "prefill" /\ s.left \in Nat \ {0}
      /\ lane[prefillLane] = "active"
  BY <1>1, PrefillFacts
<1> HIDE DEF s
<1>3. /\ s.work >= s.left + s.budget - 1 /\ s.budget > 0 /\ s.budget \in Nat /\ s.work \in Nat
      /\ s.left - 1 \in Nat \ {0} /\ s.work - 1 \in Nat
  BY <1>1, <1>2 DEF Row, RowPhase, SlotRecords
<1>4. /\ row \in SlotRecords /\ row.req = s.req /\ row.epoch = s.epoch
      /\ row.left = s.left - 1 /\ row.work = s.work - 1 /\ row.budget = s.budget
      /\ row.session = s.session /\ row.state = "prefill" /\ row.capture = FALSE
      /\ row.post = s.post
  BY <1>2, <1>3 DEF SlotRecords
<1> HIDE DEF row
<1>9. row.left > 0
  <2>1. s.left - 1 > 0
    BY <1>1, <1>2
  <2> QED BY <1>4, <2>1
<1>5. Row(row)
  BY <1>1, <1>2, <1>3, <1>4 DEF Row, RowPhase, States
<1>6. /\ lane' = [lane EXCEPT ![prefillLane] = "active"] /\ prefillLane' = prefillLane
      /\ UNCHANGED <<queue, clientVars, outcome, mat, head, protection, nextEpoch, check>>
      /\ check \in BOOLEAN /\ ready \in BOOLEAN
  BY <1>1, <1>2 DEF IInv, TypeOK, schedVars
<1>7. CASE SkipsCapture(prefillLane, row)
  <2>1. /\ slots' = [slots EXCEPT ![prefillLane] = row] /\ txn' = txn /\ ready' = ready
        /\ pc = "unit" /\ pc' = "top" /\ prevDecode' = FALSE /\ snapshot' = {}
        /\ UNCHANGED <<havePending, grant, scan>>
    BY <1>7 DEF SkipsCapture, UnitDone, Goto
  <2>2. LaneAfter(row) = "active" /\ row.left > 0
    BY <1>4, <1>9 DEF LaneAfter
  <2> QED BY <1>2, <1>4, <1>5, <1>6, <2>1, <2>2, PrefillStep DEF s
<1>8. CASE txn = "none" /\ ReservesCapture(prefillLane, row, "prefill")
  <2> DEFINE held == [row EXCEPT !.state = "prefill", !.capture = TRUE, !.post = "prefill"]
  <2>1. /\ slots' = [slots EXCEPT ![prefillLane] = held] /\ txn' = "capture" /\ ready' \in BOOLEAN
        /\ pc = "unit" /\ pc' = "captured" /\ prevDecode' = FALSE /\ snapshot' = {}
        /\ UNCHANGED <<havePending, grant, scan>>
    BY <1>8 DEF ReservesCapture, UnitDone, Goto
  <2>2. held = [row EXCEPT !.state = "prefill", !.capture = TRUE, !.post = row.state]
    BY <1>4
  <2> HIDE DEF held
  <2>3. /\ held \in SlotRecords /\ Row(held) /\ held.capture /\ held.state = "prefill"
        /\ held.req = row.req /\ held.epoch = row.epoch /\ held.left = row.left
    BY <1>4, <1>5, <2>2, CapturedIsRow, Zenon
  <2>4. LaneAfter(held) = "active" /\ held.left > 0
    BY <1>9, <2>3 DEF LaneAfter
  <2> QED BY <1>2, <1>4, <1>6, <1>8, <2>1, <2>3, <2>4, PrefillStep DEF s
<1> QED BY <1>1, <1>7, <1>8

(* The last prefill unit samples the first token and commits it. *)
LEMMA RunPrefillLastKeeps == ASSUME IInv, RunPrefillLast PROVE IInv'
<1> DEFINE s == slots[prefillLane]
           last == [s EXCEPT !.left = 0]
<1>1. RunsPrefill /\ s.left = 1 /\ prefillLane' = NoLane /\ check' = TRUE
      /\ UNCHANGED <<queue, clientVars, outcome, mat, head, protection, nextEpoch>>
  BY DEF RunPrefillLast
<1>2. PICK row \in Committed(last, 1, FALSE) :
         /\ lane' = [lane EXCEPT ![prefillLane] = LaneAfter(row)]
         /\ \/ SkipsCapture(prefillLane, row)
            \/ /\ row.state # "finished" /\ txn = "none"
               /\ ReservesCapture(prefillLane, row, row.state)
  BY DEF RunPrefillLast
<1>3. /\ prefillLane \in Occupied /\ prefillLane \in Lanes
      /\ s \in SlotRecords /\ s.req \in Requests /\ Row(s)
      /\ ~s.capture /\ s.state = "prefill"
  BY <1>1, PrefillFacts
<1> HIDE DEF s
<1>4. /\ last \in SlotRecords /\ last.req = s.req /\ last.epoch = s.epoch /\ last.left = 0
      /\ last.budget = s.budget /\ last.work = s.work /\ last.session = s.session
      /\ last.capture = s.capture /\ last.post = s.post
  BY <1>3 DEF SlotRecords
<1>5. /\ s.work >= s.left + s.budget - 1 /\ s.budget > 0 /\ s.budget \in Nat /\ s.work \in Nat
      /\ s.session.used = 0 /\ ~s.session.control /\ s.post = "none"
      /\ s.session.reasoning => /\ Plan[s.req].thinks /\ Plan[s.req].thinking > 0
                                /\ ~s.session.applied
                                /\ s.budget = Plan[s.req].output - s.session.used
  BY <1>3 DEF Row, RowPhase, SlotRecords, States
<1> HIDE DEF last
<1>6. AboutToCommit(last, 1)
  <2>1. Plan[s.req].thinking \in Nat
    BY <1>3, PlanFields
  <2> QED BY <1>1, <1>3, <1>4, <1>5, <2>1 DEF AboutToCommit
<1>7. /\ row \in SlotRecords /\ Row(row) /\ row.req = s.req /\ row.epoch = s.epoch
      /\ ~row.capture /\ row.left = 0
  BY <1>2, <1>4, <1>6, CommittedIsRow, ZenonT(40)
<1>8. ready \in BOOLEAN
  BY DEF IInv, TypeOK
<1>9. CASE SkipsCapture(prefillLane, row)
  <2>1. /\ slots' = [slots EXCEPT ![prefillLane] = row] /\ txn' = txn /\ ready' = ready
        /\ pc = "unit" /\ pc' = "top" /\ prevDecode' = FALSE /\ snapshot' = {}
        /\ UNCHANGED <<havePending, grant, scan>>
    BY <1>9 DEF SkipsCapture, UnitDone, Goto
  <2>2. ~(row.left > 0)
    BY <1>7
  <2> QED BY <1>1, <1>2, <1>3, <1>7, <1>8, <2>1, <2>2, PrefillStep DEF s
<1>10. CASE /\ row.state # "finished" /\ txn = "none"
            /\ ReservesCapture(prefillLane, row, row.state)
  <2> DEFINE held == [row EXCEPT !.state = "prefill", !.capture = TRUE, !.post = row.state]
  <2>1. /\ slots' = [slots EXCEPT ![prefillLane] = held] /\ txn' = "capture" /\ ready' \in BOOLEAN
        /\ pc = "unit" /\ pc' = "captured" /\ prevDecode' = FALSE /\ snapshot' = {}
        /\ UNCHANGED <<havePending, grant, scan>>
    BY <1>10 DEF ReservesCapture, UnitDone, Goto
  <2>3. /\ held \in SlotRecords /\ Row(held) /\ held.capture /\ held.state = "prefill"
        /\ held.req = row.req /\ held.epoch = row.epoch /\ held.left = row.left
    BY <1>7, <1>10, CapturedIsRow, Zenon
  <2> HIDE DEF held
  <2>4. LaneAfter(held) = LaneAfter(row) /\ ~(held.left > 0)
    BY <1>7, <1>10, <2>3 DEF LaneAfter
  <2> QED BY <1>1, <1>2, <1>3, <1>7, <1>10, <2>1, <2>3, <2>4, PrefillStep DEF s
<1> QED BY <1>2, <1>9, <1>10

-----------------------------------------------------------------------------
(* Requests that are answered and leave. *)

(* Lanes are released and their requests answered. *)
LEMMA LanesReleased ==
    ASSUME IInv, TypeOK', Boundary', NEW gone \in SUBSET Occupied, NEW how, how # "none",
           \A l \in gone : ~slots[l].capture,
           slots' = [l \in Lanes |-> IF l \in gone THEN EmptySlot ELSE slots[l]],
           lane' = Released(gone),
           outcome' = Answered({slots[l].req : l \in gone}, how),
           prefillLane' = IF prefillLane \in gone THEN NoLane ELSE prefillLane,
           UNCHANGED <<queue, submitted, mat, txn, head, protection, nextEpoch, grant>>,
           pc' \notin {"scan", "grant"}
    PROVE  IInv'
<1> USE DEF IInv
<1>1. /\ gone \subseteq Lanes /\ \A l \in gone : slots[l].req # NoRequest
      /\ \A l \in gone : slots'[l] = EmptySlot /\ lane'[l] = "free"
      /\ \A l \in Lanes \ gone : slots'[l] = slots[l] /\ lane'[l] = lane[l]
      /\ mat # NoMat => mat.lane \notin gone
  BY OccupiedFacts DEF Occupied, Released
<1>2. Occupied' = Occupied \ gone
  BY <1>1, EmptySlotFacts DEF Occupied
<1>3. Rows'
  BY <1>1, EmptySlotFacts DEF Rows
<1>4. Owners'
  <2>1. /\ \A l, k \in Lanes : slots'[l].req # NoRequest /\ slots'[l].req = slots'[k].req => l = k
        /\ \A l \in Lanes : slots'[l].req \notin ToSet(queue)
        /\ mat.req # NoRequest => \A l \in Lanes : slots'[l].req # mat.req
    BY <1>1, EmptySlotFacts, LaneFacts, QueueFacts DEF Owners
  <2>2. ASSUME NEW r \in Requests
        PROVE  (r \in submitted /\ outcome'[r] = "none")
                 <=> (r \in ToSet(queue) \/ mat.req = r \/ \E l \in Lanes : slots'[l].req = r)
    <3>1. CASE \E l \in gone : slots[l].req = r
      <4>1. outcome'[r] # "none"
        BY <3>1 DEF Answered
      <4>2. r # NoRequest
        BY LaneFacts
      <4> QED BY <1>1, <3>1, <4>1, <4>2, EmptySlotFacts DEF Owners
    <3>2. CASE \A l \in gone : slots[l].req # r
      <4>1. outcome'[r] = outcome[r]
        BY <3>2 DEF Answered
      <4>2. r # NoRequest
        BY LaneFacts
      <4> QED BY <1>1, <3>2, <4>1, <4>2, EmptySlotFacts DEF Owners
    <3> QED BY <3>1, <3>2
  <2>3. ASSUME NEW r \in Requests \ submitted PROVE outcome'[r] = "none"
    <3>1. \A l \in Lanes : slots[l].req # r
      BY DEF Owners
    <3> QED BY <1>1, <3>1 DEF Owners, Answered
  <2> QED BY <2>1, <2>2, <2>3 DEF Owners
<1>5. Agree'
  <2>1. mat # NoMat => mat.lane \in Lanes
    BY DEF Agree, TypeOK
  <2>2. CaptureOwners' = CaptureOwners
    BY <1>1, <1>2 DEF CaptureOwners, Occupied
  <2>3. LanesFollowSlots'
    BY <1>1, EmptySlotFacts, SMTT(40) DEF Agree, LanesFollowSlots
  <2>4. PrefillIsExclusive'
    BY <1>1, EmptySlotFacts, LaneFacts DEF Agree, PrefillIsExclusive
  <2>5. mat # NoMat => prefillLane' = NoLane
    BY DEF Agree
  <2> QED BY <1>1, <2>1, <2>2, <2>3, <2>4, <2>5 DEF Agree
<1>6. Sched'
  <2>1. \A l \in Lanes : slots'[l].epoch < nextEpoch
    BY <1>1, EmptySlotFacts DEF Sched, TypeOK, NoEpoch
  <2> QED BY <1>1, <1>2, <2>1 DEF Sched, DonorsAndBorrowers, Occupied
<1>7. ActiveRequests' \subseteq ActiveRequests /\ Borrowers' \subseteq Borrowers
  BY <1>1, <1>2 DEF ActiveRequests, Borrowers, Occupied
<1>8. Holders' \subseteq Holders /\ Debtors' \subseteq Debtors
  BY <1>7 DEF Holders, Debtors
<1>9. Room'
  BY <1>5, <1>6, <1>8, RoomStep
<1> QED BY <1>3, <1>4, <1>5, <1>6, <1>9

(* Answering some requests keeps the map of outcomes typed. *)
LEMMA AnsweredType ==
    ASSUME TypeOK, NEW A, NEW how \in {"success", "cancelled", "timeout", "error"}
    PROVE  /\ Answered(A, how) \in [Requests -> {"none", "success", "cancelled", "timeout", "error"}]
           /\ \A r \in Requests : Answered(A, how)[r] = IF r \in A THEN how ELSE outcome[r]
BY DEF TypeOK, Answered

(* The released lanes and the emptied slots are typed. *)
LEMMA ReleasedType ==
    ASSUME TypeOK, NEW gone
    PROVE  /\ Released(gone) \in [Lanes -> {"free", "materializing", "active", "terminalPending"}]
           /\ [l \in Lanes |-> IF l \in gone THEN EmptySlot ELSE slots[l]] \in [Lanes -> SlotRecords]
BY EmptySlotFacts DEF TypeOK, Released

(* The settlement answers one finished request and frees its lane. *)
LEMMA SettleOneKeeps == ASSUME IInv, SettleOne PROVE IInv'
<1> USE DEF clientVars, txnVars, schedVars, localVars
<1>1. PICK l \in Finished :
         /\ outcome' = Answered({slots[l].req}, "success")
         /\ slots' = [slots EXCEPT ![l] = EmptySlot]
         /\ lane' = Released({l})
         /\ check' = CheckAfter({l})
  BY DEF SettleOne
<1>2. pc = "settle" /\ txn = "none"
      /\ UNCHANGED <<queue, clientVars, txnVars, schedVars, pc, localVars>>
  BY DEF SettleOne
<1>3. l \in Occupied /\ l \in Lanes /\ slots[l].state = "finished"
  BY DEF Finished, Occupied
<1>4. ~slots[l].capture /\ ~(slots[l].left > 0)
  BY <1>3, OccupiedFacts DEF Row, RowPhase
<1>5. prefillLane # l
  BY <1>3, <1>4 DEF IInv, Agree, PrefillIsExclusive
<1>6. slots' = [k \in Lanes |-> IF k \in {l} THEN EmptySlot ELSE slots[k]]
  BY <1>1, <1>3 DEF IInv, TypeOK
<1>7. outcome' = Answered({slots[k].req : k \in {l}}, "success")
  <2>1. {slots[k].req : k \in {l}} = {slots[l].req}
    OBVIOUS
  <2> QED BY <1>1, <2>1
<1>8. TypeOK'
  <2>1. check' \in BOOLEAN
    BY <1>1 DEF IInv, TypeOK, CheckAfter
  <2>2. /\ outcome' \in [Requests -> {"none", "success", "cancelled", "timeout", "error"}]
        /\ slots' \in [Lanes -> SlotRecords]
        /\ lane' \in [Lanes -> {"free", "materializing", "active", "terminalPending"}]
    BY <1>1, <1>3, EmptySlotFacts DEF IInv, TypeOK, Answered, Released
  <2> QED BY <1>2, <2>1, <2>2 DEF IInv, TypeOK
<1>9. Boundary'
  BY <1>2 DEF IInv, Boundary
<1>10. {l} \in SUBSET Occupied
  BY <1>3
<1> QED BY <1>1, <1>2, <1>4, <1>5, <1>6, <1>7, <1>8, <1>9, <1>10, LanesReleased

(* cancel_active_requests() frees the lane of every cancelled request it saw. *)
LEMMA CancelActiveKeeps == ASSUME IInv, CancelActive PROVE IInv'
<1> USE DEF clientVars, txnVars
<1> DEFINE gone == CancelVictims
<1>1. /\ slots' = [l \in Lanes |-> IF l \in gone THEN EmptySlot ELSE slots[l]]
      /\ lane' = Released(gone)
      /\ outcome' = Answered({slots[l].req : l \in gone}, "cancelled")
      /\ prefillLane' = IF prefillLane \in gone THEN NoLane ELSE prefillLane
      /\ check' = CheckAfter(gone) /\ snapshot' = CancelledLanes
      /\ UNCHANGED <<queue, clientVars, txnVars, head, protection, nextEpoch, prevDecode,
                     havePending, grant, scan>>
  BY DEF CancelActive
<1>2. \/ pc = "cancel" /\ pc' = "decide"
      \/ pc = "start" /\ pc' = "unit"
  <2>1. pc \in DOMAIN AfterCancel /\ pc' = AfterCancel[pc]
    BY DEF CancelActive
  <2> QED BY <2>1 DEF AfterCancel
<1>3. gone \in SUBSET Occupied /\ (\A l \in gone : ~slots[l].capture) /\ CancelledLanes \subseteq Lanes
  BY DEF CancelVictims, CancelledLanes, Occupied
<1>4. CancelledLanes = gone
  <2>1. ASSUME NEW l \in CancelledLanes PROVE ~slots[l].capture
    <3>1. txn = "none" /\ l \in Occupied
      BY DEF CancelledLanes
    <3>2. CaptureOwners = {}
      BY <3>1 DEF IInv, Agree
    <3> QED BY <3>1, <3>2 DEF CaptureOwners
  <2> QED BY <2>1 DEF CancelVictims, CancelledLanes
<1>5. TypeOK'
  <2>1. check' \in BOOLEAN
    BY <1>1 DEF IInv, TypeOK, CheckAfter
  <2>2. prefillLane' \in Lanes \cup {NoLane}
    BY <1>1 DEF IInv, TypeOK
  <2>3. pc' \in Phases
    BY <1>2 DEF Phases
  <2>4. snapshot' \subseteq Lanes
    BY <1>1, <1>3
  <2> HIDE DEF gone
  <2> QED BY <1>1, <2>1, <2>2, <2>3, <2>4, AnsweredType, ReleasedType DEF IInv, TypeOK
<1>6. Boundary'
  <2>1. Finished' \subseteq Finished
    BY <1>1, EmptySlotFacts DEF Finished, Occupied
  <2>2. \A l \in snapshot' : slots'[l] = EmptySlot
    BY <1>1, <1>3, <1>4
  <2> QED BY <1>1, <1>2, <2>1, <2>2 DEF IInv, Boundary
<1> HIDE DEF gone
<1> QED BY <1>1, <1>2, <1>3, <1>5, <1>6, LanesReleased

(* Requests leave the queue answered; the protection goes with its head. *)
LEMMA QueueRemoval ==
    ASSUME IInv, TypeOK', Boundary', NEW gone \in SUBSET ToSet(queue),
           ToSet(queue') = ToSet(queue) \ gone,
           \A r \in gone : outcome'[r] # "none",
           \A r \in Requests \ gone : outcome'[r] = outcome[r],
           UNCHANGED <<submitted, slots, lane, mat, txn, prefillLane, nextEpoch>>,
           grant' \in {grant, NoGrant}, pc' # "grant",
           \/ protection' = NoProtection /\ pc' # "scan"
           \/ /\ protection' = protection /\ head' = head /\ head \notin gone
              /\ pc' = "scan" => pc = "scan" /\ ToSet(scan') \subseteq ToSet(scan)
    PROVE  IInv'
<1> USE DEF IInv
<1>1. Rows'
  BY DEF Rows
<1>2. Owners'
  <2>1. gone \subseteq Requests
    BY QueueFacts
  <2>2. ASSUME NEW r \in Requests
        PROVE  (r \in submitted /\ outcome'[r] = "none")
                 <=> (r \in ToSet(queue') \/ mat.req = r \/ \E l \in Lanes : slots[l].req = r)
    BY DEF Owners
  <2>3. \A r \in Requests \ submitted : outcome'[r] = "none"
    BY DEF Owners
  <2> QED BY <2>2, <2>3 DEF Owners
<1>3. Agree'
  BY DEF Agree, CaptureOwners, Occupied, LanesFollowSlots, PrefillIsExclusive
<1>4. Occupied' = Occupied
  BY DEF Occupied
<1>5. DonorsAndBorrowers'
  BY <1>4 DEF Sched, DonorsAndBorrowers
<1>6. Sched'
  BY <1>4, <1>5 DEF Sched
<1>7. ActiveRequests' = ActiveRequests /\ (protection' = protection => Borrowers' = Borrowers)
  BY <1>4 DEF ActiveRequests, Borrowers
<1>8. Holders' \subseteq Holders /\ (protection' = protection => Debtors' = Debtors)
  BY <1>7 DEF Holders, Debtors, NoGrant
<1>9. Room'
  BY <1>3, <1>6, <1>8, RoomStep
<1> QED BY <1>1, <1>2, <1>3, <1>6, <1>9

(* What the queue is after some requests were taken out. *)
LEMMA QueueWithout ==
    ASSUME TypeOK, NEW gone
    PROVE  /\ Without(queue, gone) \in Seq(Requests) /\ IsInjective(Without(queue, gone))
           /\ ToSet(Without(queue, gone)) = ToSet(queue) \ gone
BY WithoutKeeps DEF TypeOK

(* expire_pending_requests() answers the cancelled and the late ones. *)
LEMMA ExpirePendingKeeps == ASSUME IInv, ExpirePending PROVE IInv'
<1> USE DEF clientVars, slotVars, txnVars
<1>1. PICK late \in SUBSET ((Expirable \cap ToSet(queue)) \ cancelled) :
        LET gone == (cancelled \cap ToSet(queue)) \cup late IN
        /\ Goto("expire", "progress")
        /\ queue' = Without(queue, gone)
        /\ havePending' = (queue' # <<>>)
        /\ head' = HeadAfterRemoval(gone)
        /\ protection' = ProtectionAfterRemoval(gone)
        /\ outcome' = [r \in Requests |-> IF r \in late THEN "timeout"
                                          ELSE IF r \in gone THEN "cancelled" ELSE outcome[r]]
        /\ check' = CheckAfter(gone)
        /\ UNCHANGED <<clientVars, slotVars, txnVars, prefillLane, nextEpoch, prevDecode,
                       grant, scan, snapshot>>
  BY DEF ExpirePending
<1> DEFINE gone == (cancelled \cap ToSet(queue)) \cup late
<1>2. /\ pc = "expire" /\ pc' = "progress"
      /\ queue' = Without(queue, gone)
      /\ havePending' = (queue' # <<>>)
      /\ head' = (IF head \in gone THEN NoRequest ELSE head)
      /\ protection' = (IF head \in gone THEN NoProtection ELSE protection)
      /\ check' = (check \/ gone # {})
      /\ UNCHANGED <<clientVars, slotVars, txnVars, prefillLane, nextEpoch, prevDecode,
                     grant, scan, snapshot>>
  BY <1>1 DEF Goto, HeadAfterRemoval, ProtectionAfterRemoval, CheckAfter
<1>3. outcome' = [r \in Requests |-> IF r \in late THEN "timeout"
                                     ELSE IF r \in gone THEN "cancelled" ELSE outcome[r]]
  BY <1>1
<1>4. gone \in SUBSET ToSet(queue) /\ gone \subseteq Requests /\ late \subseteq gone
  BY QueueFacts DEF IInv
<1> HIDE DEF gone
<1>5. /\ outcome' \in [Requests -> {"none", "success", "cancelled", "timeout", "error"}]
      /\ \A r \in gone : outcome'[r] # "none"
      /\ \A r \in Requests \ gone : outcome'[r] = outcome[r]
  BY <1>3, <1>4 DEF IInv, TypeOK
<1>6. queue' \in Seq(Requests) /\ IsInjective(queue') /\ ToSet(queue') = ToSet(queue) \ gone
  BY <1>2, QueueWithout DEF IInv
<1>7. TypeOK'
  <2>1. check' \in BOOLEAN /\ havePending' \in BOOLEAN
    BY <1>2 DEF IInv, TypeOK
  <2>2. /\ head' \in Requests \cup {NoRequest}
        /\ protection' \in [epoch : Nat, head : Requests \cup {NoRequest}, donors : SUBSET Requests]
    BY <1>2 DEF IInv, TypeOK, NoProtection, NoEpoch
  <2> QED BY <1>2, <1>5, <1>6, <2>1, <2>2 DEF IInv, TypeOK, Phases
<1>8. Boundary'
  BY <1>2 DEF IInv, Boundary
<1> QED BY <1>2, <1>4, <1>5, <1>6, <1>7, <1>8, QueueRemoval

(* The reasons for which try_admit_one() and admit_planned_request() answer. *)
LEMMA RemovalAnswers ==
    ASSUME TypeOK, NEW r \in Requests, \E why \in RemovalReasons(r) : outcome' = Answered({r}, why)
    PROVE  /\ outcome' \in [Requests -> {"none", "success", "cancelled", "timeout", "error"}]
           /\ \A x \in {r} : outcome'[x] # "none"
           /\ \A x \in Requests \ {r} : outcome'[x] = outcome[x]
<1>1. PICK why \in RemovalReasons(r) : outcome' = Answered({r}, why)
  OBVIOUS
<1>2. why \in {"cancelled", "timeout", "error"}
  BY DEF RemovalReasons
<1> QED BY <1>1, <1>2 DEF Answered, TypeOK

(* The head of the queue, and the queue behind it. *)
LEMMA HeadFacts ==
    ASSUME TypeOK, queue # <<>>
    PROVE  /\ Head(queue) \in Requests /\ Head(queue) \in ToSet(queue)
           /\ Tail(queue) \in Seq(Requests) /\ IsInjective(Tail(queue))
           /\ ToSet(Tail(queue)) = ToSet(queue) \ {Head(queue)}
BY TailRest DEF TypeOK

(* The null protection, grant and materialization are typed. *)
LEMMA NoProtectionType ==
    /\ NoProtection \in [epoch : Nat, head : Requests \cup {NoRequest}, donors : SUBSET Requests]
    /\ NoGrant \in [req : Requests \cup {NoRequest}, epoch : Nat]
    /\ NoMat \in [req : Requests \cup {NoRequest}, lane : Lanes \cup {NoLane}, epoch : Nat]
BY DEF NoProtection, NoGrant, NoMat, NoEpoch

(* try_admit_one() answers a head that was cancelled or cannot be planned. *)
LEMMA AdmitRemovesHeadKeeps == ASSUME IInv, AdmitRemovesHead PROVE IInv'
<1> USE DEF clientVars, slotVars, txnVars, localVars
<1>0. \E why \in RemovalReasons(Head(queue)) : outcome' = Answered({Head(queue)}, why)
  BY DEF AdmitRemovesHead
<1>1. /\ pc = "admit" /\ queue # <<>> /\ queue' = Tail(queue)
      /\ head' = NoRequest /\ protection' = NoProtection
      /\ UNCHANGED <<clientVars, check, slotVars, txnVars, prefillLane, nextEpoch, pc, localVars>>
  BY DEF AdmitRemovesHead
<1>2. /\ Head(queue) \in Requests /\ {Head(queue)} \in SUBSET ToSet(queue)
      /\ queue' \in Seq(Requests) /\ IsInjective(queue')
      /\ ToSet(queue') = ToSet(queue) \ {Head(queue)}
  BY <1>1, HeadFacts DEF IInv
<1>3. /\ outcome' \in [Requests -> {"none", "success", "cancelled", "timeout", "error"}]
      /\ \A x \in {Head(queue)} : outcome'[x] # "none"
      /\ \A x \in Requests \ {Head(queue)} : outcome'[x] = outcome[x]
  BY <1>0, <1>2, RemovalAnswers DEF IInv
<1>4. TypeOK'
  BY <1>1, <1>2, <1>3, NoProtectionType DEF IInv, TypeOK
<1>5. Boundary'
  BY <1>1 DEF IInv, Boundary, Finished, Occupied
<1> QED BY <1>1, <1>2, <1>3, <1>4, <1>5, QueueRemoval

(* The scan answers a candidate that was cancelled or cannot be planned. *)
LEMMA ScanRemovesKeeps == ASSUME IInv, ScanRemoves PROVE IInv'
<1> USE DEF clientVars, slotVars, txnVars, schedVars
<1> DEFINE r == Head(scan)
<1>0. \E why \in RemovalReasons(r) : outcome' = Answered({r}, why)
  BY DEF ScanRemoves
<1>1. /\ pc = "scan" /\ scan # <<>> /\ queue' = Without(queue, {r}) /\ scan' = Tail(scan)
      /\ UNCHANGED <<clientVars, check, slotVars, txnVars, schedVars, pc, prevDecode,
                     havePending, grant, snapshot>>
  BY DEF ScanRemoves
<1>2. /\ r \in Requests /\ {r} \in SUBSET ToSet(queue) /\ r # head
      /\ scan' \in Seq(Requests) /\ IsInjective(scan') /\ ToSet(scan') = ToSet(scan) \ {r}
  BY <1>1, ScanFacts
<1> HIDE DEF r
<1>3. /\ queue' \in Seq(Requests) /\ IsInjective(queue') /\ ToSet(queue') = ToSet(queue) \ {r}
  BY <1>1, QueueWithout DEF IInv
<1>4. /\ outcome' \in [Requests -> {"none", "success", "cancelled", "timeout", "error"}]
      /\ \A x \in {r} : outcome'[x] # "none"
      /\ \A x \in Requests \ {r} : outcome'[x] = outcome[x]
  BY <1>0, <1>2, RemovalAnswers DEF IInv
<1>5. TypeOK'
  BY <1>1, <1>2, <1>3, <1>4 DEF IInv, TypeOK
<1>6. Boundary'
  BY <1>1, <1>2, <1>3 DEF IInv, Boundary, Finished, Occupied
<1> QED BY <1>1, <1>2, <1>3, <1>4, <1>5, <1>6, QueueRemoval

(* admit_planned_request() answers a request that expired or was cancelled meanwhile. *)
LEMMA GrantWithdrawnKeeps == ASSUME IInv, GrantWithdrawn PROVE IInv'
<1> USE DEF clientVars, slotVars, txnVars
<1> DEFINE r == grant.req
<1>0. \E why \in RemovalReasons(r) : outcome' = Answered({r}, why)
  BY DEF GrantWithdrawn
<1>1. /\ pc = "grant" /\ pc' = "start" /\ queue' = Without(queue, {r})
      /\ head' = (IF head \in {r} THEN NoRequest ELSE head)
      /\ protection' = (IF head \in {r} THEN NoProtection ELSE protection)
      /\ check' = TRUE /\ grant' = NoGrant
      /\ UNCHANGED <<clientVars, slotVars, txnVars, prefillLane, nextEpoch, prevDecode,
                     havePending, scan, snapshot>>
  BY DEF GrantWithdrawn, Goto, HeadAfterRemoval, ProtectionAfterRemoval
<1>2. {r} \in SUBSET ToSet(queue) /\ r \in Requests
  BY <1>1, QueueFacts DEF IInv, Boundary
<1> HIDE DEF r
<1>3. queue' \in Seq(Requests) /\ IsInjective(queue') /\ ToSet(queue') = ToSet(queue) \ {r}
  BY <1>1, QueueWithout DEF IInv
<1>4. /\ outcome' \in [Requests -> {"none", "success", "cancelled", "timeout", "error"}]
      /\ \A x \in {r} : outcome'[x] # "none"
      /\ \A x \in Requests \ {r} : outcome'[x] = outcome[x]
  BY <1>0, <1>2, RemovalAnswers DEF IInv
<1>5. TypeOK'
  <2>1. /\ head' \in Requests \cup {NoRequest}
        /\ protection' \in [epoch : Nat, head : Requests \cup {NoRequest}, donors : SUBSET Requests]
    BY <1>1, NoProtectionType DEF IInv, TypeOK
  <2> QED BY <1>1, <1>3, <1>4, <2>1, NoProtectionType DEF IInv, TypeOK, Phases
<1>6. Boundary'
  BY <1>1 DEF IInv, Boundary
<1> QED BY <1>1, <1>2, <1>3, <1>4, <1>5, <1>6, QueueRemoval

(* try_admit_one() finds an empty queue. *)
LEMMA AdmitNoneKeeps == ASSUME IInv, AdmitNone PROVE IInv'
<1> USE DEF clientVars, slotVars, txnVars, localVars
<1>1. /\ pc = "admit" /\ pc' = "start" /\ queue = <<>> /\ head' = NoRequest
      /\ protection' \in {protection, NoProtection}
      /\ UNCHANGED <<queue, clientVars, outcome, check, slotVars, txnVars, prefillLane,
                     nextEpoch, localVars>>
  BY DEF AdmitNone, Goto, ProtectionOfHead
<1>2. protection' = NoProtection
  BY <1>1, EmptySequence DEF IInv, Sched
<1>3. TypeOK'
  BY <1>1, <1>2, NoProtectionType DEF IInv, TypeOK, Phases
<1>4. Boundary'
  BY <1>1 DEF IInv, Boundary
<1>5. {} \in SUBSET ToSet(queue) /\ ToSet(queue') = ToSet(queue) \ {}
  BY <1>1
<1> QED BY <1>1, <1>2, <1>3, <1>4, <1>5, QueueRemoval

-----------------------------------------------------------------------------
(* Requests that arrive, and the end of the worker. *)

(* submit() appends a request that is in no other place. *)
LEMMA SubmitKeeps == ASSUME IInv, NEW r \in Requests, Submit(r) PROVE IInv'
<1> USE DEF IInv, slotVars, txnVars, schedVars, localVars
<1>1. /\ r \notin submitted /\ queue' = Append(queue, r) /\ submitted' = submitted \cup {r}
      /\ signalling' = signalling \cup {r}
      /\ UNCHANGED <<cancelled, stopping, outcome, check, slotVars, txnVars, schedVars, pc, localVars>>
  BY DEF Submit
<1>2. /\ r \notin ToSet(queue) /\ mat.req # r /\ \A l \in Lanes : slots[l].req # r
      /\ outcome[r] = "none" /\ r # NoRequest
  BY <1>1, LaneFacts DEF Owners
<1>3. queue' \in Seq(Requests) /\ IsInjective(queue') /\ ToSet(queue') = ToSet(queue) \cup {r}
  BY <1>1, <1>2, AppendNew DEF TypeOK
<1>4. TypeOK'
  BY <1>1, <1>3 DEF TypeOK
<1>5. Rows'
  BY <1>1 DEF Rows
<1>6. Owners'
  <2>1. \A x \in Requests :
          (x \in submitted' /\ outcome'[x] = "none")
            <=> (x \in ToSet(queue') \/ mat'.req = x \/ \E l \in Lanes : slots'[l].req = x)
    BY <1>1, <1>2, <1>3 DEF Owners
  <2> QED BY <1>1, <1>2, <1>3, <2>1 DEF Owners
<1>7. Agree'
  BY <1>1 DEF Agree, CaptureOwners, Occupied, LanesFollowSlots, PrefillIsExclusive
<1>8. Boundary'
  BY <1>1, <1>3 DEF Boundary, Finished, Occupied
<1>9. Sched'
  BY <1>1, <1>3 DEF Sched, DonorsAndBorrowers, Occupied
<1>10. Room'
  <2>1. ActiveRequests' = ActiveRequests /\ Borrowers' = Borrowers /\ FreeLanes' = FreeLanes
    BY <1>1 DEF ActiveRequests, Occupied, Borrowers, FreeLanes
  <2>2. \A x : BackfillSafe(x)' = BackfillSafe(x)
    BY <1>1, <2>1 DEF BackfillSafe
  <2>3. MemoryFits'
    BY <1>1, <2>1 DEF Room, MemoryFits
  <2>4. BackfillIsHarmless'
    BY <1>1, <2>1 DEF Room, BackfillIsHarmless
  <2> QED BY <1>1, <2>2, <2>3, <2>4 DEF Room
<1> QED BY <1>4, <1>5, <1>6, <1>7, <1>8, <1>9, <1>10

(* A cancelled materialization is aborted and its request answered. *)
LEMMA ProgressAbortsKeeps == ASSUME IInv, ProgressAborts PROVE IInv'
<1> USE DEF IInv, clientVars, schedVars, localVars
<1>1. /\ txn = "materialization"
      /\ outcome' = Answered({mat.req}, "cancelled")
      /\ lane' = [lane EXCEPT ![mat.lane] = "free"]
      /\ mat' = NoMat /\ txn' = "none" /\ ready' = FALSE /\ check' = TRUE
      /\ UNCHANGED <<queue, clientVars, slots, schedVars, localVars>>
  BY DEF ProgressAborts, CloseTransaction
<1>2. pc \in {"progress", "admitted", "captured"} /\ pc' \in {"settle", "start", "top"}
  BY ProgressPhases DEF ProgressAborts
<1>3. /\ mat.req \in Requests /\ mat.lane \in Lanes /\ mat # NoMat
      /\ slots[mat.lane] = EmptySlot /\ lane[mat.lane] = "materializing"
  BY <1>1 DEF Agree, TypeOK
<1>4. /\ outcome'[mat.req] = "cancelled"
      /\ \A r \in Requests \ {mat.req} : outcome'[r] = outcome[r]
      /\ lane'[mat.lane] = "free"
      /\ \A l \in Lanes \ {mat.lane} : lane'[l] = lane[l]
  BY <1>1, <1>3 DEF Answered, TypeOK
<1>5. TypeOK'
  <2>1. /\ outcome' \in [Requests -> {"none", "success", "cancelled", "timeout", "error"}]
        /\ lane' \in [Lanes -> {"free", "materializing", "active", "terminalPending"}]
    BY <1>1 DEF TypeOK, Answered
  <2>2. /\ queue' = queue /\ signalling' = signalling /\ submitted' = submitted
        /\ cancelled' = cancelled /\ stopping' = stopping /\ slots' = slots
        /\ prefillLane' = prefillLane /\ head' = head /\ protection' = protection
        /\ nextEpoch' = nextEpoch /\ prevDecode' = prevDecode /\ havePending' = havePending
        /\ grant' = grant /\ scan' = scan /\ snapshot' = snapshot
    BY <1>1
  <2>3. /\ pc' \in Phases /\ txn' \in {"none", "materialization", "capture"}
        /\ ready' \in BOOLEAN /\ check' \in BOOLEAN
        /\ mat' \in [req : Requests \cup {NoRequest}, lane : Lanes \cup {NoLane}, epoch : Nat]
    BY <1>1, <1>2, NoProtectionType DEF Phases
  <2> QED BY <2>1, <2>2, <2>3, Zenon DEF TypeOK
<1>6. Rows'
  BY <1>1 DEF Rows
<1>7. Owners'
  <2>1. NoMat.req = NoRequest /\ NoRequest \notin Requests /\ NoRequest \notin ToSet(queue)
    BY LaneFacts, QueueFacts DEF NoMat
  <2>2. ASSUME NEW r \in Requests
        PROVE  (r \in submitted /\ outcome'[r] = "none")
                 <=> (r \in ToSet(queue) \/ \E l \in Lanes : slots[l].req = r)
    <3>1. CASE r = mat.req
      BY <1>3, <1>4, <2>1, <3>1 DEF Owners
    <3>2. CASE r # mat.req
      BY <1>4, <3>2 DEF Owners
    <3> QED BY <3>1, <3>2
  <2>3. \A r \in Requests \ submitted : outcome'[r] = "none"
    BY <1>3, <1>4 DEF Owners
  <2> QED BY <1>1, <2>1, <2>2, <2>3 DEF Owners
<1>8. Agree'
  <2>1. CaptureOwners' = CaptureOwners /\ CaptureOwners = {}
    BY <1>1 DEF Agree, CaptureOwners, Occupied
  <2>2. LanesFollowSlots'
    BY <1>1, <1>3, <1>4, EmptySlotFacts DEF Agree, LanesFollowSlots
  <2>3. PrefillIsExclusive'
    BY <1>1 DEF Agree, PrefillIsExclusive
  <2> QED BY <1>1, <2>1, <2>2, <2>3 DEF Agree
<1>9. Boundary'
  BY <1>1, <1>2 DEF Boundary
<1>10. Sched'
  <2>1. NoMat.epoch = 0 /\ NoMat.req = NoRequest /\ protection.donors \subseteq Requests
        /\ NoRequest \notin Requests /\ nextEpoch \in Nat \ {0}
    BY LaneFacts DEF NoMat, NoEpoch, TypeOK
  <2> QED BY <1>1, <1>2, <2>1 DEF Sched, DonorsAndBorrowers, Occupied
<1>11. Holders' \subseteq Holders /\ (protection' # NoProtection => Debtors' \subseteq Debtors)
  <2>1. Holders' \subseteq Holders /\ Borrowers' = Borrowers
    BY <1>1 DEF Holders, NoMat, ActiveRequests, Borrowers, Occupied
  <2>2. protection # NoProtection => protection.epoch # NoMat.epoch
    BY DEF Sched, NoMat, NoEpoch, TypeOK
  <2> QED BY <1>1, <2>1, <2>2 DEF Debtors
<1>12. Room'
  BY <1>1, <1>2, <1>5, <1>8, <1>10, <1>11, RoomStep
<1> QED BY <1>5, <1>6, <1>7, <1>8, <1>9, <1>10, <1>12

(* The record of a request that starts its staged prefill. *)
LEMMA ActivatedIsRow ==
    ASSUME NEW m, m.req \in Requests, m.epoch \in Nat, NEW units \in 1 .. Plan[m.req].units
    PROVE  /\ Activated(m, units) \in SlotRecords /\ Row(Activated(m, units))
           /\ Activated(m, units).req = m.req /\ Activated(m, units).epoch = m.epoch
           /\ Activated(m, units).left > 0 /\ ~Activated(m, units).capture
           /\ Activated(m, units).state = "prefill"
<1> DEFINE p == Plan[m.req]
           fresh == NewSession(p.thinks, p.thinking)
           open == p.thinks /\ p.thinking # NoThinkingBudget
<1>1. /\ p.units \in Nat \ {0} /\ p.output \in Nat \ {0} /\ p.thinking \in Nat
      /\ p.thinks \in BOOLEAN
  BY PlanFields
<1>2. fresh = [reasoning |-> open, used |-> 0, control |-> FALSE, applied |-> FALSE]
  BY DEF NewSession
<1>3. open \in BOOLEAN /\ (open => p.thinks /\ p.thinking > 0)
  BY <1>1 DEF NoThinkingBudget
<1> HIDE DEF open
<1>4. /\ fresh \in Session /\ fresh.used = 0 /\ fresh.control = FALSE /\ fresh.applied = FALSE
      /\ fresh.reasoning = open
  BY <1>2, <1>3 DEF Session
<1>5. Activated(m, units) = [req |-> m.req, state |-> "prefill", capture |-> FALSE,
                             post |-> "none", left |-> units, budget |-> p.output,
                             work |-> p.units + p.output - 1, session |-> fresh,
                             epoch |-> m.epoch]
  BY DEF Activated, ProjectedWork
<1> HIDE DEF fresh, p
<1>6. units \in Nat /\ units > 0 /\ p.units + p.output - 1 \in Nat /\ p.output \in Nat
      /\ p.output > 0 /\ p.units + p.output - 1 >= units + p.output - 1
  BY <1>1 DEF p
<1>7. Activated(m, units) \in SlotRecords
  BY <1>4, <1>5, <1>6 DEF SlotRecords, States
<1>8. Row(Activated(m, units))
  <2>1. p.output - 0 = p.output
    BY <1>6
  <2> QED BY <1>3, <1>4, <1>5, <1>6, <2>1 DEF Row, RowPhase, States, p
<1> QED BY <1>5, <1>6, <1>7, <1>8

(* A completed materialization becomes an active slot in staged prefill. *)
LEMMA ProgressPublishesKeeps == ASSUME IInv, ProgressPublishes PROVE IInv'
<1> USE DEF IInv, clientVars, localVars
<1>1. /\ txn = "materialization"
      /\ lane' = [lane EXCEPT ![mat.lane] = "active"]
      /\ prefillLane' = mat.lane
      /\ mat' = NoMat /\ txn' = "none" /\ ready' = FALSE /\ check' = TRUE
      /\ UNCHANGED <<queue, clientVars, outcome, head, protection, nextEpoch, localVars>>
  BY DEF ProgressPublishes, CloseTransaction
<1>2. PICK units \in 1 .. Plan[mat.req].units :
         slots' = [slots EXCEPT ![mat.lane] = Activated(mat, units)]
  BY DEF ProgressPublishes
<1>3. pc \in {"progress", "admitted", "captured"} /\ pc' \in {"settle", "start", "top"}
  BY ProgressPhases DEF ProgressPublishes
<1>4. /\ mat.req \in Requests /\ mat.lane \in Lanes /\ mat # NoMat /\ mat.epoch \in Nat
      /\ slots[mat.lane] = EmptySlot /\ lane[mat.lane] = "materializing" /\ prefillLane = NoLane
      /\ mat.req # NoRequest
  BY <1>1 DEF Agree, TypeOK
<1> DEFINE row == Activated(mat, units)
<1>5. /\ row \in SlotRecords /\ Row(row) /\ row.req = mat.req /\ row.epoch = mat.epoch
      /\ row.left > 0 /\ ~row.capture /\ row.state = "prefill"
  BY <1>4, ActivatedIsRow
<1>6. slots' = [slots EXCEPT ![mat.lane] = row]
  BY <1>2
<1> HIDE DEF row
<1>7. /\ slots'[mat.lane] = row /\ lane'[mat.lane] = "active"
      /\ \A l \in Lanes \ {mat.lane} : slots'[l] = slots[l] /\ lane'[l] = lane[l]
  BY <1>1, <1>4, <1>6 DEF TypeOK
<1>8. TypeOK'
  <2>1. slots' \in [Lanes -> SlotRecords]
    BY <1>5, <1>6 DEF TypeOK
  <2>2. lane' \in [Lanes -> {"free", "materializing", "active", "terminalPending"}]
    BY <1>1 DEF TypeOK
  <2> QED BY <1>1, <1>3, <1>4, <2>1, <2>2, NoProtectionType, ZenonT(40) DEF TypeOK, Phases
<1>9. Rows'
  BY <1>4, <1>5, <1>7 DEF Rows
<1>10. Occupied' = Occupied \cup {mat.lane} /\ mat.lane \notin Occupied
  BY <1>4, <1>5, <1>7, EmptySlotFacts DEF Occupied
<1>11. Owners'
  <2>1. NoMat.req = NoRequest /\ NoRequest \notin Requests /\ NoRequest \notin ToSet(queue)
    BY LaneFacts, QueueFacts DEF NoMat
  <2>2. ASSUME NEW r \in Requests
        PROVE  (\E l \in Lanes : slots'[l].req = r)
                  <=> (mat.req = r \/ \E l \in Lanes : slots[l].req = r)
    BY <1>4, <1>5, <1>7, <2>1, EmptySlotFacts
  <2>3. \A l, k \in Lanes : slots'[l].req # NoRequest /\ slots'[l].req = slots'[k].req => l = k
    BY <1>4, <1>5, <1>7 DEF Owners
  <2>4. \A l \in Lanes : slots'[l].req \notin ToSet(queue)
    BY <1>5, <1>7 DEF Owners
  <2> QED BY <1>1, <2>1, <2>2, <2>3, <2>4 DEF Owners
<1>12. Agree'
  <2>1. CaptureOwners' = {}
    <3>1. CaptureOwners = {}
      BY <1>1 DEF Agree
    <3> QED BY <1>5, <1>7, <1>10, <3>1 DEF CaptureOwners, Occupied
  <2>2. LanesFollowSlots'
    BY <1>1, <1>4, <1>5, <1>7 DEF Agree, LanesFollowSlots
  <2>3. PrefillIsExclusive'
    BY <1>1, <1>4, <1>5, <1>7, LaneFacts DEF Agree, PrefillIsExclusive
  <2> QED BY <1>1, <2>1, <2>2, <2>3 DEF Agree
<1>13. Boundary'
  BY <1>1, <1>3 DEF Boundary
<1>14. Sched'
  <2>1. NoMat.epoch = 0 /\ NoMat.req = NoRequest /\ protection.donors \subseteq Requests
        /\ NoRequest \notin Requests /\ nextEpoch \in Nat \ {0}
    BY LaneFacts DEF NoMat, NoEpoch, TypeOK
  <2>2. \A l \in Lanes : slots'[l].epoch < nextEpoch
    BY <1>4, <1>5, <1>7 DEF Sched
  <2>3. DonorsAndBorrowers'
    <3>1. SUFFICES ASSUME protection # NoProtection
                   PROVE  /\ protection.head = head
                          /\ \A l \in Occupied' :
                               /\ slots'[l].req # head
                               /\ slots'[l].req \in protection.donors
                                    <=> slots'[l].epoch # protection.epoch
      BY <1>1 DEF DonorsAndBorrowers
    <3>2. /\ protection.head = head /\ mat.epoch = protection.epoch
          /\ mat.req \notin protection.donors /\ mat.req # head
          /\ \A l \in Occupied :
               /\ slots[l].req # head
               /\ slots[l].req \in protection.donors <=> slots[l].epoch # protection.epoch
      BY <1>4, <3>1 DEF Sched, DonorsAndBorrowers, Owners
    <3>3. \A l \in Occupied : l \in Lanes \ {mat.lane}
      BY <1>10 DEF Occupied
    <3> QED BY <1>5, <1>7, <1>10, <3>2, <3>3
  <2> QED BY <1>1, <1>3, <2>1, <2>2, <2>3 DEF Sched
<1>15. ActiveRequests' = ActiveRequests \cup {mat.req}
  BY <1>5, <1>7, <1>10 DEF ActiveRequests, Occupied
<1>16. Holders' \subseteq Holders
  BY <1>1, <1>15 DEF Holders, NoMat
<1>17. protection' # NoProtection => Debtors' \subseteq Debtors
  <2>1. Borrowers' \subseteq Borrowers \cup (IF mat.epoch = protection.epoch THEN {mat.req} ELSE {})
    BY <1>1, <1>5, <1>7, <1>10 DEF Borrowers, Occupied
  <2>2. protection # NoProtection => protection.epoch # NoMat.epoch
    BY DEF Sched, NoMat, NoEpoch, TypeOK
  <2> QED BY <1>1, <2>1, <2>2 DEF Debtors
<1>18. Room'
  BY <1>1, <1>3, <1>8, <1>12, <1>14, <1>16, <1>17, RoomStep
<1> QED BY <1>8, <1>9, <1>11, <1>12, <1>13, <1>14, <1>18

(* fail_all_locked() answers everything unanswered, wherever it is. *)
LEMMA FailAllKeeps == ASSUME IInv, FailAll PROVE IInv'
<1> USE DEF IInv, clientVars
<1>1. /\ pc' = "exited" /\ queue' = <<>>
      /\ prefillLane' = NoLane /\ head' = NoRequest /\ protection' = NoProtection
      /\ mat' = NoMat /\ txn' = "none" /\ ready' = FALSE
      /\ slots' = [l \in Lanes |-> EmptySlot]
      /\ lane' = [l \in Lanes |-> "free"]
      /\ outcome' = Answered(Owned, "error")
      /\ grant' = NoGrant /\ scan' = <<>> /\ snapshot' = {}
      /\ UNCHANGED <<clientVars, check, nextEpoch, prevDecode, havePending>>
  BY DEF FailAll
<1>2. ToSet(queue') = {} /\ queue' \in Seq(Requests) /\ IsInjective(queue') /\ scan' \in Seq(Requests)
  BY <1>1, EmptySequence
<1>3. TypeOK'
  <2>1. /\ outcome' \in [Requests -> {"none", "success", "cancelled", "timeout", "error"}]
        /\ slots' \in [Lanes -> SlotRecords]
        /\ lane' \in [Lanes -> {"free", "materializing", "active", "terminalPending"}]
    BY <1>1, EmptySlotFacts DEF TypeOK, Answered
  <2>2. snapshot' \subseteq Lanes
    BY <1>1
  <2> QED BY <1>1, <1>2, <2>1, <2>2, NoProtectionType, Zenon DEF TypeOK, Phases
<1>4. Rows'
  BY <1>1, EmptySlotFacts DEF Rows
<1>5. Owners'
  <2>1. /\ NoMat.req = NoRequest /\ NoRequest \notin Requests
        /\ \A l \in Lanes : slots'[l].req = NoRequest
    BY <1>1, LaneFacts, EmptySlotFacts DEF NoMat
  <2>2. ASSUME NEW r \in Requests
        PROVE  /\ ~(r \in submitted /\ outcome'[r] = "none")
               /\ r \notin submitted => outcome'[r] = "none"
    <3>1. r \in Owned <=> (r \in ToSet(queue) \/ mat.req = r \/ \E l \in Lanes : slots[l].req = r)
      BY <2>1 DEF Owned, ActiveRequests, Occupied
    <3>2. outcome'[r] = IF r \in Owned THEN "error" ELSE outcome[r]
      BY <1>1 DEF Answered
    <3> QED BY <3>1, <3>2 DEF Owners
  <2> QED BY <1>1, <1>2, <2>1, <2>2 DEF Owners
<1>6. Agree'
  <2>1. CaptureOwners' = {}
    BY <1>1, EmptySlotFacts DEF CaptureOwners, Occupied
  <2>2. LanesFollowSlots'
    BY <1>1, EmptySlotFacts DEF LanesFollowSlots
  <2>3. PrefillIsExclusive'
    BY <1>1, EmptySlotFacts, LaneFacts DEF PrefillIsExclusive
  <2> QED BY <1>1, <2>1, <2>2, <2>3 DEF Agree
<1>7. Boundary'
  BY <1>1 DEF Boundary
<1>8. Sched'
  <2>1. NoMat.epoch = 0 /\ EmptySlot.epoch = 0 /\ nextEpoch \in Nat \ {0}
    BY EmptySlotFacts DEF NoMat, NoEpoch, TypeOK
  <2> QED BY <1>1, <2>1 DEF Sched, DonorsAndBorrowers
<1>9. Holders' = {}
  BY <1>1, EmptySlotFacts DEF Holders, ActiveRequests, Occupied, NoMat, NoGrant
<1>10. Room'
  BY <1>1, <1>3, <1>6, <1>8, <1>9, RoomStep
<1> QED BY <1>3, <1>4, <1>5, <1>6, <1>7, <1>8, <1>10

-----------------------------------------------------------------------------
(* Admission. *)

(* A request that fits beside the active ones can be granted. *)
LEMMA FitsFacts ==
    ASSUME TypeOK, Agree, Sched, txn = "none", NEW r \in Requests, Fits(r)
    PROVE  /\ FreeLanes # {}
           /\ DemandOf((ActiveRequests \cup {mat.req, r}) \ {NoRequest}) <= Capacity
<1>1. mat.req = NoRequest /\ r # NoRequest
  BY LaneFacts DEF Agree, NoMat
<1>2. ActiveRequests \in SUBSET Requests /\ NoRequest \notin ActiveRequests
  BY HolderFacts, LaneFacts
<1>3. (ActiveRequests \cup {mat.req, r}) \ {NoRequest} = ActiveRequests \cup {r}
  BY <1>1, <1>2
<1>4. /\ DemandOf(ActiveRequests \cup {r}) <= DemandOf(ActiveRequests) + Demand[r]
      /\ DemandOf(ActiveRequests) \in Nat /\ DemandOf(ActiveRequests \cup {r}) \in Nat
      /\ Demand[r] \in Nat /\ Capacity \in Nat
  <2>1. ActiveRequests \cup {r} \in SUBSET Requests
    BY <1>2
  <2> QED BY <1>2, <2>1, DemandFacts
<1>5. FreeLanes # {} /\ DemandOf(ActiveRequests) + Demand[r] <= Capacity
  BY DEF Fits
<1>6. DemandOf(ActiveRequests \cup {r}) <= Capacity
  BY <1>4, <1>5
<1> QED BY <1>3, <1>5, <1>6

(* The head fits: it is granted and its protection ends. *)
LEMMA AdmitGrantsHeadKeeps == ASSUME IInv, AdmitGrantsHead PROVE IInv'
<1> USE DEF IInv, clientVars, slotVars, txnVars
<1> DEFINE r == Head(queue)
<1>1. /\ pc = "admit" /\ pc' = "grant" /\ queue # <<>> /\ Fits(r) /\ head' = r
      /\ protection' = (IF head = r THEN protection ELSE NoProtection)
      /\ grant' = [req |-> r, epoch |-> NoEpoch]
      /\ UNCHANGED <<queue, clientVars, outcome, check, slotVars, txnVars, prefillLane,
                     nextEpoch, prevDecode, havePending, scan, snapshot>>
  BY DEF AdmitGrantsHead, Goto, ProtectionOfHead
<1>2. r \in Requests /\ r \in ToSet(queue) /\ txn = "none"
  BY <1>1, HeadFacts DEF Boundary
<1> HIDE DEF r
<1>3. TypeOK'
  BY <1>1, <1>2, NoProtectionType DEF TypeOK, Phases, NoEpoch
<1>4. Rows' /\ Owners'
  BY <1>1 DEF Rows, Owners
<1>5. Agree'
  BY <1>1 DEF Agree, CaptureOwners, Occupied, LanesFollowSlots, PrefillIsExclusive
<1>6. Boundary'
  BY <1>1, <1>2 DEF Boundary, Finished, Occupied
<1>7. Sched'
  BY <1>1, <1>2 DEF Sched, DonorsAndBorrowers, Occupied
<1>8. Room'
  <2>1. ActiveRequests' = ActiveRequests /\ FreeLanes' = FreeLanes
        /\ (protection' = protection => Borrowers' = Borrowers)
    BY <1>1 DEF ActiveRequests, Occupied, FreeLanes, Borrowers
  <2>2. MemoryFits'
    BY <1>1, <1>2, <2>1, FitsFacts DEF MemoryFits
  <2>3. BackfillIsHarmless'
    BY <1>1, <2>1 DEF Room, BackfillIsHarmless
  <2> QED BY <1>1, <2>2, <2>3 DEF Room
<1> QED BY <1>3, <1>4, <1>5, <1>6, <1>7, <1>8

(* A candidate that fits beside the head's reserve is granted as a borrower. *)
LEMMA ScanGrantsKeeps == ASSUME IInv, ScanGrants PROVE IInv'
<1> USE DEF IInv, clientVars, slotVars, txnVars, schedVars
<1> DEFINE r == Head(scan)
<1>1. /\ pc = "scan" /\ pc' = "grant" /\ scan # <<>> /\ Fits(r) /\ BackfillSafe(r)
      /\ grant' = [req |-> r, epoch |-> protection.epoch] /\ scan' = <<>>
      /\ UNCHANGED <<queue, clientVars, outcome, check, slotVars, txnVars, schedVars,
                     prevDecode, havePending, snapshot>>
  BY DEF ScanGrants, Goto
<1>2. r \in Requests /\ r \in ToSet(queue) /\ r # head /\ txn = "none"
  BY <1>1, ScanFacts DEF Boundary
<1> HIDE DEF r
<1>3. TypeOK'
  <2>1. protection.epoch \in Nat
    BY DEF TypeOK
  <2> QED BY <1>1, <1>2, <2>1 DEF TypeOK, Phases
<1>4. Rows' /\ Owners'
  BY <1>1 DEF Rows, Owners
<1>5. Agree'
  BY <1>1 DEF Agree, CaptureOwners, Occupied, LanesFollowSlots, PrefillIsExclusive
<1>6. Boundary'
  BY <1>1, <1>2 DEF Boundary, Finished, Occupied
<1>7. Sched'
  BY <1>1, <1>2 DEF Sched, DonorsAndBorrowers, Occupied
<1>8. Room'
  <2>1. /\ ActiveRequests' = ActiveRequests /\ FreeLanes' = FreeLanes /\ Borrowers' = Borrowers
        /\ grant'.req = r
    BY <1>1 DEF ActiveRequests, Occupied, FreeLanes, Borrowers
  <2>2. MemoryFits'
    BY <1>1, <1>2, <2>1, FitsFacts DEF MemoryFits
  <2>3. BackfillIsHarmless'
    BY <1>1, <2>1 DEF Room, BackfillIsHarmless
  <2>4. BackfillSafe(grant.req)'
    BY <1>1, <2>1 DEF BackfillSafe
  <2> QED BY <1>1, <2>2, <2>3, <2>4 DEF Room
<1> QED BY <1>3, <1>4, <1>5, <1>6, <1>7, <1>8

(* The head does not fit: the active requests become its donors. *)
LEMMA AdmitBlockedKeeps == ASSUME IInv, AdmitBlocked PROVE IInv'
<1> USE DEF IInv, clientVars, slotVars, txnVars
<1> DEFINE r == Head(queue)
<1>1. /\ pc = "admit" /\ pc' = "scan" /\ queue # <<>> /\ Considered(r) /\ head' = r
      /\ scan' \in {Tail(queue), <<>>}
      /\ UNCHANGED <<queue, clientVars, outcome, check, slotVars, txnVars, prefillLane,
                     prevDecode, havePending, grant, snapshot>>
  BY DEF AdmitBlocked, Goto
<1>2. \/ /\ head = r /\ protection # NoProtection
         /\ UNCHANGED <<protection, nextEpoch>>
      \/ /\ protection' = [epoch |-> nextEpoch, head |-> r, donors |-> ActiveRequests]
         /\ nextEpoch' = nextEpoch + 1
  BY DEF AdmitBlocked, ProtectionOfHead
<1>3. /\ r \in Requests /\ r \in ToSet(queue) /\ txn = "none"
      /\ Tail(queue) \in Seq(Requests) /\ IsInjective(Tail(queue))
      /\ ToSet(Tail(queue)) = ToSet(queue) \ {r}
  BY <1>1, HeadFacts DEF Boundary
<1>4. /\ scan' \in Seq(Requests) /\ IsInjective(scan')
      /\ ToSet(scan') \subseteq ToSet(queue) \ {r}
  <2>1. CASE scan' = Tail(queue)
    BY <1>3, <2>1
  <2>2. CASE scan' = <<>>
    BY <2>2, EmptySequence
  <2> QED BY <1>1, <2>1, <2>2
<1>5. Demand[r] <= Capacity
  BY <1>1 DEF Considered, Feasible
<1> HIDE DEF r
<1>6. ActiveRequests \in SUBSET Requests
  BY HolderFacts
<1>7. TypeOK'
  <2>1. /\ protection' \in [epoch : Nat, head : Requests \cup {NoRequest}, donors : SUBSET Requests]
        /\ nextEpoch' \in Nat \ {0}
    BY <1>2, <1>3, <1>6 DEF TypeOK
  <2> QED BY <1>1, <1>3, <1>4, <2>1 DEF TypeOK, Phases
<1>8. Rows' /\ Owners'
  BY <1>1 DEF Rows, Owners
<1>9. Agree'
  BY <1>1 DEF Agree, CaptureOwners, Occupied, LanesFollowSlots, PrefillIsExclusive
<1>10. Boundary'
  BY <1>1, <1>3, <1>4 DEF Boundary, Finished, Occupied
<1>11. mat = NoMat /\ mat' = NoMat /\ Occupied' = Occupied /\ ActiveRequests' = ActiveRequests
  BY <1>1, <1>3 DEF Agree, Occupied, ActiveRequests
<1>12. CASE head = r /\ protection # NoProtection /\ UNCHANGED <<protection, nextEpoch>>
  <2>1. Sched'
    BY <1>1, <1>4, <1>11, <1>12 DEF Sched, DonorsAndBorrowers, Occupied
  <2>2. Borrowers' = Borrowers
    BY <1>1, <1>11, <1>12 DEF Borrowers
  <2>3. Holders' = Holders /\ Debtors' = Debtors
    BY <1>1, <1>11, <1>12, <2>2 DEF Holders, Debtors
  <2>4. Room'
    BY <1>1, <1>7, <1>9, <1>12, <2>1, <2>3, RoomStep
  <2> QED BY <1>7, <1>8, <1>9, <1>10, <2>1, <2>4
<1>13. CASE /\ protection' = [epoch |-> nextEpoch, head |-> r, donors |-> ActiveRequests]
            /\ nextEpoch' = nextEpoch + 1
  <2>1. /\ protection'.epoch = nextEpoch /\ protection'.head = r
        /\ protection'.donors = ActiveRequests /\ nextEpoch \in Nat \ {0}
        /\ protection' # NoProtection
    BY <1>13 DEF NoProtection, NoEpoch, TypeOK
  <2>2. \A l \in Lanes : slots[l].epoch \in Nat /\ slots[l].epoch < nextEpoch
    BY DEF Sched, TypeOK, SlotRecords
  <2>3. ASSUME NEW l \in Occupied
        PROVE  slots[l].req # r /\ slots[l].req \in ActiveRequests /\ slots[l].req \in submitted
    BY <1>3, OccupiedFacts DEF Owners, ActiveRequests, Occupied
  <2>4. Sched'
    <3>1. \A l \in Lanes : slots'[l].epoch < nextEpoch'
      BY <1>1, <1>13, <2>1, <2>2
    <3>2. NoMat.epoch < nextEpoch' /\ NoMat.req = NoRequest /\ NoRequest \notin ActiveRequests
      BY <1>6, <1>13, <2>1, LaneFacts DEF NoMat, NoEpoch
    <3>3. /\ protection'.epoch \in 1 .. nextEpoch' - 1 /\ head' \in ToSet(queue')
          /\ protection'.donors \subseteq submitted'
          /\ protection'.donors \cap ToSet(queue') = {}
      <4>1. \A x \in ActiveRequests : x \in submitted /\ x \notin ToSet(queue)
        BY <2>3 DEF ActiveRequests, Owners, Occupied
      <4> QED BY <1>1, <1>3, <1>13, <2>1, <4>1
    <3>4. DonorsAndBorrowers'
      <4>1. \A l \in Occupied : slots[l].epoch # nextEpoch
        BY <2>2 DEF Occupied
      <4> QED BY <1>1, <1>11, <2>1, <2>3, <4>1 DEF DonorsAndBorrowers
    <3> QED BY <1>1, <1>4, <1>11, <2>1, <3>1, <3>2, <3>3, <3>4 DEF Sched
  <2>5. Borrowers' = {}
    BY <1>1, <1>11, <2>1, <2>2 DEF Borrowers, Occupied
  <2>6. mat'.epoch # protection'.epoch
    BY <1>11, <2>1 DEF NoMat, NoEpoch
  <2>7. BackfillIsHarmless'
    <3>1. Debtors' = {}
      BY <2>5, <2>6 DEF Debtors
    <3>2. /\ Cardinality({}) + 1 <= MaxConcurrency
          /\ DemandOf({}) + Demand[r] <= Capacity
      BY <1>3, <1>5, DemandFacts, FS_EmptySet, EngineAssumption
    <3> QED BY <1>1, <3>1, <3>2 DEF BackfillIsHarmless, Debtors
  <2>8. MemoryFits'
    BY <1>1, <1>11 DEF Room, MemoryFits
  <2>9. Room'
    BY <1>1, <2>7, <2>8 DEF Room
  <2> QED BY <1>7, <1>8, <1>9, <1>10, <2>4, <2>9
<1> QED BY <1>2, <1>12, <1>13

(* The first free lane exists whenever a lane is free. *)
LEMMA MinLane ==
    ASSUME FreeLanes # {}
    PROVE  Min(FreeLanes) \in FreeLanes
<1>1. FreeLanes \subseteq Nat
  BY LaneFacts DEF FreeLanes
<1>2. \E n \in FreeLanes : \A m \in FreeLanes : n <= m
  BY <1>1, LeastNatural
<1> QED BY <1>2 DEF Min

(* The granted request leaves the queue for a materializing lane. *)
LEMMA GrantReservedKeeps == ASSUME IInv, GrantReserved PROVE IInv'
<1> USE DEF IInv, clientVars
<1> DEFINE r == grant.req
           free == Min(FreeLanes)
<1>1. /\ pc = "grant" /\ pc' = "admitted"
      /\ queue' = Without(queue, {r})
      /\ mat' = [req |-> r, lane |-> free, epoch |-> grant.epoch]
      /\ lane' = [lane EXCEPT ![free] = "materializing"]
      /\ txn' = "materialization" /\ ready' \in BOOLEAN
      /\ grant' = NoGrant
      /\ UNCHANGED <<clientVars, outcome, check, slots, prefillLane, nextEpoch, prevDecode,
                     havePending, scan, snapshot>>
  BY DEF GrantReserved, Goto
<1>2. \/ grant.epoch = NoEpoch /\ head' = NoRequest /\ protection' = NoProtection
      \/ grant.epoch # NoEpoch /\ UNCHANGED <<head, protection>>
  BY DEF GrantReserved, CommitAdmission
<1>3. /\ r \in Requests /\ r \in ToSet(queue) /\ r # NoRequest /\ grant.epoch \in Nat
      /\ txn = "none" /\ mat = NoMat /\ CaptureOwners = {} /\ prefillLane = NoLane
  BY <1>1, QueueFacts, LaneFacts DEF Boundary, TypeOK, Agree
<1>4. free \in Lanes /\ lane[free] = "free"
  BY <1>1, MinLane DEF Room, MemoryFits, FreeLanes
<1> HIDE DEF r, free
<1>5. /\ mat'.req = r /\ mat'.lane = free /\ mat'.epoch = grant.epoch /\ mat' # NoMat
      /\ lane'[free] = "materializing"
      /\ \A l \in Lanes \ {free} : lane'[l] = lane[l]
  BY <1>1, <1>3, <1>4 DEF NoMat, TypeOK
<1>6. slots[free] = EmptySlot /\ NoMat.lane = NoLane
  BY <1>3, <1>4, LaneFacts DEF Agree, LanesFollowSlots, Rows, NoMat
<1>7. queue' \in Seq(Requests) /\ IsInjective(queue') /\ ToSet(queue') = ToSet(queue) \ {r}
  BY <1>1, QueueWithout
<1>8. \A l \in Lanes : slots[l].req # r
  BY <1>3 DEF Owners
<1>9. TypeOK'
  <2>1. /\ mat' \in [req : Requests \cup {NoRequest}, lane : Lanes \cup {NoLane}, epoch : Nat]
        /\ lane' \in [Lanes -> {"free", "materializing", "active", "terminalPending"}]
    BY <1>1, <1>3, <1>4 DEF TypeOK
  <2>2. /\ head' \in Requests \cup {NoRequest}
        /\ protection' \in [epoch : Nat, head : Requests \cup {NoRequest}, donors : SUBSET Requests]
    BY <1>2, NoProtectionType DEF TypeOK
  <2> QED BY <1>1, <1>7, <2>1, <2>2, NoProtectionType DEF TypeOK, Phases
<1>10. Rows'
  BY <1>1 DEF Rows
<1>11. Owners'
  <2>1. NoMat.req = NoRequest /\ NoRequest \notin Requests
    BY LaneFacts DEF NoMat
  <2>2. \A x \in Requests :
          (x \in ToSet(queue') \/ mat'.req = x) <=> (x \in ToSet(queue) \/ mat.req = x)
    BY <1>3, <1>5, <1>7, <2>1
  <2>3. /\ \A l, k \in Lanes : slots[l].req # NoRequest /\ slots[l].req = slots[k].req => l = k
        /\ \A l \in Lanes : slots[l].req \notin ToSet(queue')
        /\ mat'.req \notin ToSet(queue')
        /\ \A l \in Lanes : slots[l].req # mat'.req
        /\ \A x \in Requests \ submitted : outcome[x] = "none"
    BY <1>5, <1>7, <1>8 DEF Owners
  <2>4. \A x \in Requests :
          (x \in submitted /\ outcome[x] = "none")
            <=> (x \in ToSet(queue') \/ mat'.req = x \/ \E l \in Lanes : slots[l].req = x)
    BY <2>2 DEF Owners
  <2>5. slots' = slots /\ submitted' = submitted /\ outcome' = outcome
    BY <1>1
  <2> QED BY <2>3, <2>4, <2>5 DEF Owners
<1>12. Agree'
  <2>1. CaptureOwners' = {}
    BY <1>1, <1>3 DEF CaptureOwners, Occupied
  <2>2. LanesFollowSlots'
    BY <1>1, <1>3, <1>5, <1>6, LaneFacts DEF Agree, LanesFollowSlots
  <2>3. PrefillIsExclusive'
    BY <1>1 DEF Agree, PrefillIsExclusive
  <2> QED BY <1>1, <1>3, <1>4, <1>5, <1>6, <2>1, <2>2, <2>3, LaneFacts DEF Agree
<1>13. Boundary'
  BY <1>1 DEF Boundary
<1>14. grant.epoch # NoEpoch => /\ protection # NoProtection /\ grant.epoch = protection.epoch
                                /\ r # head /\ BackfillSafe(r)
  BY <1>1 DEF Sched, Room, r
<1>15. Sched'
  <2>1. grant.epoch < nextEpoch
    BY <1>14 DEF Sched, TypeOK, NoEpoch
  <2>2. Occupied' = Occupied
    BY <1>1 DEF Occupied
  <2>3. CASE protection' = NoProtection
    BY <1>1, <1>5, <2>1, <2>2, <2>3 DEF Sched, DonorsAndBorrowers
  <2>4. CASE grant.epoch # NoEpoch /\ UNCHANGED <<head, protection>>
    <3>1. protection # NoProtection /\ grant.epoch = protection.epoch /\ r # head
      BY <1>14, <2>4
    <3>2. r \notin protection.donors /\ head \in ToSet(queue')
      BY <1>3, <1>7, <3>1 DEF Sched
    <3>3. DonorsAndBorrowers'
      BY <1>1, <1>5, <2>2, <2>4, <3>1 DEF Sched, DonorsAndBorrowers
    <3> QED BY <1>1, <1>5, <1>7, <2>1, <2>4, <3>1, <3>2, <3>3 DEF Sched
  <2> QED BY <1>2, <2>3, <2>4
<1>16. ActiveRequests' = ActiveRequests
  BY <1>1 DEF ActiveRequests, Occupied
<1>17. MemoryFits'
  <2>1. Holders' = Holders
    BY <1>1, <1>3, <1>5, <1>16 DEF Holders, NoMat, NoGrant, r
  <2> QED BY <1>1, <2>1 DEF Room, MemoryFits, Holders
<1>18. BackfillIsHarmless'
  <2>1. SUFFICES ASSUME protection' # NoProtection
                 PROVE  /\ Cardinality(Debtors') + 1 <= MaxConcurrency
                        /\ DemandOf(Debtors') + Demand[head'] <= Capacity
    BY DEF BackfillIsHarmless, Debtors
  <2>2. /\ UNCHANGED <<head, protection>> /\ grant.epoch = protection.epoch
        /\ BackfillSafe(r) /\ protection # NoProtection
    BY <1>2, <1>14, <2>1
  <2>3. Debtors' = Borrowers \cup {r}
    <3>1. Borrowers' = Borrowers
      BY <1>1, <2>2 DEF Borrowers, Occupied
    <3> QED BY <1>5, <2>2, <3>1 DEF Debtors
  <2>4. Borrowers \in SUBSET Requests /\ head \in Requests /\ Borrowers \cup {r} \in SUBSET Requests
    BY <1>3, <2>2, HolderFacts
  <2>5. /\ DemandOf(Borrowers \cup {r}) <= DemandOf(Borrowers) + Demand[r]
        /\ DemandOf(Borrowers) \in Nat /\ DemandOf(Borrowers \cup {r}) \in Nat
        /\ Demand[r] \in Nat /\ Demand[head] \in Nat /\ Capacity \in Nat
        /\ IsFiniteSet(Borrowers)
    BY <1>3, <2>4, DemandFacts
  <2>6. /\ Cardinality(Borrowers \cup {r}) <= Cardinality(Borrowers) + 1
        /\ Cardinality(Borrowers) \in Nat /\ Cardinality(Borrowers \cup {r}) \in Nat
        /\ MaxConcurrency \in Nat
    <3>1. Cardinality(Borrowers) \in Nat /\ MaxConcurrency \in Nat
      BY <2>5, FS_CardinalityType, LaneFacts
    <3>2. CASE r \in Borrowers
      <4>1. Borrowers \cup {r} = Borrowers
        BY <3>2
      <4> QED BY <3>1, <4>1
    <3>3. CASE r \notin Borrowers
      <4>1. Cardinality(Borrowers \cup {r}) = Cardinality(Borrowers) + 1
        BY <2>5, <3>3, FS_AddElement
      <4> QED BY <3>1, <4>1
    <3> QED BY <3>2, <3>3
  <2>7. /\ Cardinality(Borrowers) + 2 <= MaxConcurrency
        /\ DemandOf(Borrowers) + Demand[r] + Demand[head] <= Capacity
    BY <2>2 DEF BackfillSafe
  <2>8. Cardinality(Borrowers \cup {r}) + 1 <= MaxConcurrency
    BY <2>6, <2>7
  <2>9. DemandOf(Borrowers \cup {r}) + Demand[head] <= Capacity
    BY <2>5, <2>7
  <2> QED BY <2>2, <2>3, <2>8, <2>9
<1>19. Room'
  BY <1>1, <1>17, <1>18 DEF Room
<1> QED BY <1>9, <1>10, <1>11, <1>12, <1>13, <1>15, <1>19

-----------------------------------------------------------------------------
(* The invariant of the engine. *)

(* The engine starts with nothing queued, materializing or active. *)
LEMMA InitIInv == Init => IInv
<1> SUFFICES ASSUME Init PROVE IInv
  OBVIOUS
<1>1. ToSet(queue) = {} /\ queue \in Seq(Requests) /\ IsInjective(queue) /\ scan \in Seq(Requests)
  BY EmptySequence DEF Init
<1>2. TypeOK
  <2>1. slots \in [Lanes -> SlotRecords]
    BY EmptySlotFacts DEF Init
  <2>2. /\ outcome \in [Requests -> {"none", "success", "cancelled", "timeout", "error"}]
        /\ lane \in [Lanes -> {"free", "materializing", "active", "terminalPending"}]
    BY DEF Init
  <2>3. /\ mat = NoMat /\ protection = NoProtection /\ grant = NoGrant
        /\ signalling = {} /\ submitted = {} /\ cancelled = {} /\ snapshot = {}
        /\ stopping = FALSE /\ check = FALSE /\ ready = FALSE /\ prevDecode = FALSE
        /\ havePending = FALSE /\ txn = "none" /\ pc = "top" /\ nextEpoch = 1
        /\ prefillLane = NoLane /\ head = NoRequest
    BY DEF Init
  <2>4. /\ mat \in [req : Requests \cup {NoRequest}, lane : Lanes \cup {NoLane}, epoch : Nat]
        /\ protection \in [epoch : Nat, head : Requests \cup {NoRequest}, donors : SUBSET Requests]
        /\ grant \in [req : Requests \cup {NoRequest}, epoch : Nat]
    BY <2>3, NoProtectionType
  <2>5. signalling \subseteq Requests /\ submitted \subseteq Requests
        /\ cancelled \subseteq Requests /\ snapshot \subseteq Lanes
    BY <2>3
  <2>6. /\ stopping \in BOOLEAN /\ check \in BOOLEAN /\ ready \in BOOLEAN
        /\ prevDecode \in BOOLEAN /\ havePending \in BOOLEAN
    BY DEF Init
  <2>7. /\ txn \in {"none", "materialization", "capture"} /\ pc \in Phases
        /\ nextEpoch \in Nat \ {0} /\ prefillLane \in Lanes \cup {NoLane}
        /\ head \in Requests \cup {NoRequest}
    BY <2>3 DEF Phases
  <2> QED BY <1>1, <2>1, <2>2, <2>4, <2>5, <2>6, <2>7 DEF TypeOK
<1>3. Rows
  BY EmptySlotFacts DEF Init, Rows
<1>4. /\ NoMat.req = NoRequest /\ NoRequest \notin Requests /\ NoMat.epoch = 0
      /\ \A l \in Lanes : slots[l].req = NoRequest /\ slots[l].epoch = 0
  BY LaneFacts, EmptySlotFacts DEF NoMat, NoEpoch, Init
<1>5. Owners
  BY <1>1, <1>4 DEF Init, Owners
<1>6. Agree
  <2>1. CaptureOwners = {}
    BY EmptySlotFacts DEF Init, CaptureOwners, Occupied
  <2>2. LanesFollowSlots
    BY EmptySlotFacts DEF Init, LanesFollowSlots
  <2>3. PrefillIsExclusive
    BY EmptySlotFacts, LaneFacts DEF Init, PrefillIsExclusive
  <2> QED BY <2>1, <2>2, <2>3 DEF Init, Agree
<1>7. Boundary
  BY DEF Init, Boundary
<1>8. Sched
  BY <1>4 DEF Init, Sched, DonorsAndBorrowers
<1>9. Room
  <2>1. (ActiveRequests \cup {mat.req, grant.req}) \ {NoRequest} = {}
    BY <1>4 DEF Init, ActiveRequests, Occupied, NoGrant
  <2>2. DemandOf({}) <= Capacity
    BY DemandFacts
  <2> QED BY <2>1, <2>2 DEF Init, Room, MemoryFits, BackfillIsHarmless
<1> QED BY <1>2, <1>3, <1>5, <1>6, <1>7, <1>8, <1>9 DEF IInv

(* Every step of a client, the copy stream and the worker keeps the invariant. *)
LEMMA NextIInv == IInv /\ [Next]_vars => IInv'
<1> SUFFICES ASSUME IInv, [Next]_vars PROVE IInv'
  OBVIOUS
<1>1. CASE \E r \in Requests : Submit(r) \/ Signal(r) \/ Cancel(r)
  BY <1>1, SubmitKeeps, SignalKeeps, CancelKeeps
<1>2. CASE Stop \/ TransferCompletes
  BY <1>2, StopKeeps, TransferCompletesKeeps
<1>3. CASE Awake \/ ExpirePending
  BY <1>3, AwakeKeeps, ExpirePendingKeeps
<1>4. CASE Shutdown \/ ProgramFails
  BY <1>4, FailAllKeeps DEF Shutdown, ProgramFails
<1>5. CASE Progress
  BY <1>5, ProgressNothingKeeps, ProgressAbortsKeeps, ProgressPublishesKeeps,
     ProgressCompletesCaptureKeeps DEF Progress
<1>6. CASE SettleOne \/ SettleDone \/ CancelActive
  BY <1>6, SettleOneKeeps, SettleDoneKeeps, CancelActiveKeeps
<1>7. CASE Decide
  BY <1>7, DecideKeeps
<1>8. CASE Admission
  BY <1>8, AdmitNoneKeeps, AdmitRemovesHeadKeeps, AdmitGrantsHeadKeeps, AdmitBlockedKeeps,
     ScanDoneKeeps, ScanRemovesKeeps, ScanSkipsKeeps, ScanGrantsKeeps, GrantWithdrawnKeeps,
     GrantReservedKeeps DEF Admission
<1>9. CASE Unit
  BY <1>9, RunControlBatchKeeps, RunPrefillUnitKeeps, RunPrefillLastKeeps,
     RunDecodeRoundKeeps, RunNothingKeeps DEF Unit
<1>10. CASE UNCHANGED vars
  <2>1. TypeOK'
    BY <1>10 DEF IInv, TypeOK, vars, clientVars, slotVars, txnVars, schedVars, localVars
  <2> QED BY <1>10, <2>1, ClientStep DEF vars, clientVars, txnVars
<1> QED BY <1>1, <1>2, <1>3, <1>4, <1>5, <1>6, <1>7, <1>8, <1>9, <1>10 DEF Next, Worker

(* EngineCore keeps its inductive invariant in every reachable state. *)
THEOREM EngineInvariant == Spec => []IInv
<1>1. Init => IInv
  BY InitIInv
<1>2. IInv /\ [Next]_vars => IInv'
  BY NextIInv
<1> QED BY <1>1, <1>2, PTL DEF Spec

-----------------------------------------------------------------------------
(* What the invariant implies. *)

(* OneOwner counts places; Owners says they are disjoint and cover. *)
LEMMA IInvOneOwner == IInv => OneOwner
<1> SUFFICES ASSUME IInv, NEW r \in Requests
             PROVE  Cardinality({i \in DOMAIN queue : queue[i] = r})
                      + Cardinality({l \in Lanes : slots[l].req = r})
                      + (IF mat.req = r THEN 1 ELSE 0)
                    = (IF r \in submitted /\ outcome[r] = "none" THEN 1 ELSE 0)
  BY DEF OneOwner
<1> DEFINE Q == {i \in DOMAIN queue : queue[i] = r}
           L == {l \in Lanes : slots[l].req = r}
<1>1. Cardinality(Q) = IF r \in ToSet(queue) THEN 1 ELSE 0
  <2>1. \A i, j \in Q : i = j
    BY DEF IInv, TypeOK, IsInjective
  <2>2. Q = {} <=> r \notin ToSet(queue)
    BY DEF IInv, TypeOK, ToSet
  <2> HIDE DEF Q
  <2> QED BY <2>1, <2>2, AtMostOne
<1>2. Cardinality(L) = IF \E l \in Lanes : slots[l].req = r THEN 1 ELSE 0
  <2>1. r # NoRequest
    BY LaneFacts
  <2>2. \A l, k \in L : l = k
    BY <2>1 DEF IInv, Owners
  <2>3. L = {} <=> ~\E l \in Lanes : slots[l].req = r
    OBVIOUS
  <2> HIDE DEF L
  <2> QED BY <2>2, <2>3, AtMostOne
<1>3. /\ ~(r \in ToSet(queue) /\ \E l \in Lanes : slots[l].req = r)
      /\ ~(r \in ToSet(queue) /\ mat.req = r)
      /\ ~(mat.req = r /\ \E l \in Lanes : slots[l].req = r)
      /\ (r \in submitted /\ outcome[r] = "none")
            <=> (r \in ToSet(queue) \/ mat.req = r \/ \E l \in Lanes : slots[l].req = r)
  BY LaneFacts DEF IInv, Owners
<1> DEFINE queued == r \in ToSet(queue)
           active == \E l \in Lanes : slots[l].req = r
           materializing == mat.req = r
           live == r \in submitted /\ outcome[r] = "none"
<1>4. /\ Cardinality(Q) = IF queued THEN 1 ELSE 0
      /\ Cardinality(L) = IF active THEN 1 ELSE 0
      /\ ~(queued /\ active) /\ ~(queued /\ materializing) /\ ~(materializing /\ active)
      /\ live <=> (queued \/ materializing \/ active)
  BY <1>1, <1>2, <1>3
<1> HIDE DEF Q, L, queued, active, materializing, live
<1>5. Cardinality(Q) + Cardinality(L) + (IF materializing THEN 1 ELSE 0) = IF live THEN 1 ELSE 0
  <2>1. CASE queued
    BY <1>4, <2>1
  <2>2. CASE active
    BY <1>4, <2>2
  <2>3. CASE materializing
    BY <1>4, <2>3
  <2>4. CASE ~queued /\ ~active /\ ~materializing
    BY <1>4, <2>4
  <2> QED BY <2>1, <2>2, <2>3, <2>4
<1> QED BY <1>5 DEF Q, L, materializing, live

(* RecordsAgree is Agree, with the owners of the transaction counted. *)
LEMMA IInvRecordsAgree == IInv => RecordsAgree
<1> SUFFICES ASSUME IInv PROVE RecordsAgree
  OBVIOUS
<1>1. Cardinality(CaptureOwners) <= 1
  <2>1. \A l, k \in CaptureOwners : l = k
    BY DEF IInv, Agree
  <2>2. Cardinality(CaptureOwners) = IF CaptureOwners = {} THEN 0 ELSE 1
    BY <2>1, AtMostOne
  <2> QED BY <2>2
<1> QED BY <1>1 DEF IInv, Agree, RecordsAgree, TransactionIsOwned

(* An active row that is not finished has service work left, by Rows. *)
LEMMA IInvAdmissionSeesLiveWork == IInv => AdmissionSeesLiveWork
<1> SUFFICES ASSUME IInv, pc \in {"admit", "scan", "grant"}
             PROVE  txn = "none" /\ \A l \in Occupied : slots[l].work > 0
  BY DEF AdmissionSeesLiveWork
<1>1. txn = "none" /\ Finished = {}
  BY DEF IInv, Boundary
<1>2. ASSUME NEW l \in Occupied PROVE slots[l].work > 0
  <2> DEFINE s == slots[l]
  <2>1. s \in SlotRecords /\ Row(s) /\ s.state # "finished"
    BY <1>1, OccupiedFacts DEF Finished
  <2> HIDE DEF s
  <2>2. /\ s.left \in Nat /\ s.budget \in Nat /\ s.work \in Nat
        /\ RowPhase(s) \in {"prefill", "decode", "control"}
    BY <2>1 DEF SlotRecords, Row, RowPhase, States
  <2>3. CASE RowPhase(s) = "prefill"
    BY <2>1, <2>2, <2>3 DEF Row, s
  <2>4. CASE RowPhase(s) \in {"decode", "control"}
    BY <2>1, <2>2, <2>4 DEF Row, s
  <2> QED BY <2>2, <2>3, <2>4
<1> QED BY <1>1, <1>2

(* An idle engine admits: with no active request the head fits by itself. *)
LEMMA IInvAdmissionFits == IInv => AdmissionFits
<1> SUFFICES ASSUME IInv PROVE AdmissionFits
  OBVIOUS
<1>1. MemoryFits
  BY DEF IInv, Room
<1>2. ASSUME pc = "admit", Occupied = {}, queue # <<>>, Feasible(Head(queue))
      PROVE  Fits(Head(queue))
  <2>1. mat = NoMat /\ NoMat.lane = NoLane
    <3>1. mat = NoMat
      BY <1>2 DEF IInv, Boundary, Agree
    <3> QED BY <3>1 DEF NoMat
  <2>2. PICK l : l \in Lanes
    <3>1. MaxConcurrency \in Nat \ {0}
      BY LaneFacts
    <3>2. 0 \in Lanes
      BY <3>1 DEF Lanes
    <3> QED BY <3>2
  <2>3. lane[l] = "free"
    <3>1. l \in Lanes \ {mat.lane} /\ slots[l].req = NoRequest
      BY <1>2, <2>1, <2>2, LaneFacts DEF Occupied
    <3>2. LanesFollowSlots /\ slots[l].state = "none"
      BY <2>2, <3>1, EmptySlotFacts DEF IInv, Agree, Rows
    <3> QED BY <3>1, <3>2 DEF LanesFollowSlots
  <2>4. ActiveRequests = {}
    BY <1>2 DEF ActiveRequests
  <2>5. Head(queue) \in Requests
    BY <1>2, HeadFacts DEF IInv
  <2>6. DemandOf({}) + Demand[Head(queue)] <= Capacity
    BY <1>2, <2>5, DemandFacts DEF Feasible
  <2> QED BY <2>2, <2>3, <2>4, <2>6 DEF Fits, FreeLanes
<1> QED BY <1>1, <1>2 DEF AdmissionFits, IdleEngineAdmits

(* No request is lost or answered twice: submit(), the queue's deadlines,
   admission, materialization, settlement, cancellation and fail_all_locked()
   keep every unanswered request in exactly one place. *)
THEOREM OneOwnerHolds == Spec => []OneOwner
BY EngineInvariant, IInvOneOwner, PTL

(* The transaction, the lane states, the slots and the staged prefill never
   contradict each other, so none of the conflict checks that throw is reached. *)
THEOREM RecordsAgreeHolds == Spec => []RecordsAgree
BY EngineInvariant, IInvRecordsAgree, PTL

(* commit_pending() sees no row of the cancellation snapshot. *)
THEOREM NoCancelledRowHolds == Spec => []NoCancelledRow
<1>1. IInv => NoCancelledRow
  BY DEF IInv, Boundary, NoCancelledRow
<1> QED BY <1>1, EngineInvariant, PTL

(* active_admission_set() never meets a request without service work. *)
THEOREM AdmissionSeesLiveWorkHolds == Spec => []AdmissionSeesLiveWork
BY EngineInvariant, IInvAdmissionSeesLiveWork, PTL

(* validate_active_partition() never throws: donors and borrowers partition the
   active requests. *)
THEOREM DonorsAndBorrowersHolds == Spec => []DonorsAndBorrowers
<1>1. IInv => DonorsAndBorrowers
  BY DEF IInv, Sched
<1> QED BY <1>1, EngineInvariant, PTL

(* Any number of backfills leaves the protected head a lane and its memory once
   its donors are gone. *)
THEOREM BackfillIsHarmlessHolds == Spec => []BackfillIsHarmless
<1>1. IInv => BackfillIsHarmless
  BY DEF IInv, Room
<1> QED BY <1>1, EngineInvariant, PTL

(* Admission never overcommits the memory and never blocks a feasible head in an
   idle engine. *)
THEOREM AdmissionFitsHolds == Spec => []AdmissionFits
BY EngineInvariant, IInvAdmissionFits, PTL
=============================================================================
