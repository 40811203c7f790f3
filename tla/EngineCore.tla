------------------------------ MODULE EngineCore ------------------------------
(***************************************************************************)
(* The worker loop of EngineCore with its Scheduler, the part of           *)
(* ResourceManager it drives and the client threads that talk to it.       *)
(*                                                                         *)
(* One worker thread repeats a fixed sequence of phases; `pc` names the    *)
(* phase.  Between two phases client threads may submit, cancel or stop,   *)
(* and the one open context transaction may finish its transfers.          *)
(*                                                                         *)
(* The memory of the Program is abstracted to one pool: request r needs    *)
(* Demand[r] of Capacity from admission until its lane is released, and    *)
(* one lane.  Cached contexts are evictable and take no room here.         *)
(***************************************************************************)
EXTENDS OutputSession, Filter, FiniteSets, FiniteSetsExt, SequencesExt

CONSTANTS
    Requests,        \* request ids; submit() numbers them before it queues them,
                     \* so the id is also the publication order
    MaxConcurrency,  \* the number of lanes
    Capacity,        \* admission_capacity()
    Demand,          \* the root demand of each request
    Plan,            \* its plan: [units, output, thinking, thinks]
    MaxRound,        \* the widest decode round of the Program
    Cancellable,     \* requests whose client may cancel
    Expirable        \* requests whose queue deadline may pass

ASSUME EngineAssumption ==
    /\ Requests \subseteq Nat \ {0} /\ IsFiniteSet(Requests)
    /\ MaxConcurrency \in Nat \ {0}
    /\ Capacity \in Nat
    /\ Demand \in [Requests -> Nat \ {0}]
    /\ MaxRound \in Nat \ {0}
    /\ Cancellable \subseteq Requests
    /\ Expirable \subseteq Requests
    /\ \A r \in Requests :
          /\ Plan[r].units \in Nat \ {0}
          /\ Plan[r].output \in Nat \ {0}
          /\ Plan[r].thinking \in Nat
          /\ Plan[r].thinks \in BOOLEAN
          /\ ValidateGenerationCapacity(Plan[r].thinks, Plan[r].thinking, Plan[r].output)

Lanes == 0 .. MaxConcurrency - 1
NoLane == -1
NoRequest == 0
NoEpoch == 0

VARIABLES
    queue,        \* pending_
    signalling,   \* requests a client queued or cancelled and is about to raise the
                  \* check for
    submitted,    \* requests submit() accepted
    cancelled,    \* Request::cancelled
    stopping,     \* stopping_
    outcome,      \* how each request was answered
    check,        \* admission_check_pending_
    slots,        \* slots_: the active requests
    lane,         \* ResourceManager::lanes_
    mat,          \* materializing_
    txn,          \* the kind of the open context transaction
    ready,        \* its transfers are complete
    prefillLane,  \* Scheduler::prefill_lane_
    head,         \* Scheduler::fifo_head_id_
    protection,   \* Scheduler::protection_
    nextEpoch,    \* Scheduler::next_protection_epoch_
    pc,           \* the phase of worker_loop()
    prevDecode,   \* previous_unit_was_decode
    havePending,  \* have_pending
    grant,        \* the request admit_planned_request() is given, and its epoch
    scan,         \* backfill candidates not yet examined
    snapshot      \* the last snapshot_cancellations()

clientVars == <<signalling, submitted, cancelled, stopping>>
schedVars  == <<prefillLane, head, protection, nextEpoch>>
slotVars   == <<slots, lane>>
txnVars    == <<mat, txn, ready>>
localVars  == <<prevDecode, havePending, grant, scan, snapshot>>
vars == <<queue, clientVars, outcome, check, slotVars, txnVars, schedVars, pc, localVars>>

EmptySlot == [req |-> NoRequest, state |-> "none", capture |-> FALSE, post |-> "none",
              left |-> 0, budget |-> 0, work |-> 0,
              session |-> NewSession(FALSE, NoThinkingBudget), epoch |-> NoEpoch]

NoMat        == [req |-> NoRequest, lane |-> NoLane, epoch |-> NoEpoch]
NoGrant      == [req |-> NoRequest, epoch |-> NoEpoch]
NoProtection == [epoch |-> NoEpoch, head |-> NoRequest, donors |-> {}]

Init ==
    /\ queue = <<>>
    /\ signalling = {} /\ submitted = {} /\ cancelled = {}
    /\ stopping = FALSE
    /\ outcome = [r \in Requests |-> "none"]
    /\ check = FALSE
    /\ slots = [l \in Lanes |-> EmptySlot]
    /\ lane = [l \in Lanes |-> "free"]
    /\ mat = NoMat /\ txn = "none" /\ ready = FALSE
    /\ prefillLane = NoLane /\ head = NoRequest
    /\ protection = NoProtection /\ nextEpoch = 1
    /\ pc = "top"
    /\ prevDecode = FALSE /\ havePending = FALSE
    /\ grant = NoGrant /\ scan = <<>> /\ snapshot = {}

Goto(from, to) == pc = from /\ pc' = to

Occupied == {l \in Lanes : slots[l].req # NoRequest}
ActiveRequests == {slots[l].req : l \in Occupied}
Answered(requests, how) ==
    [r \in Requests |-> IF r \in requests THEN how ELSE outcome[r]]

-----------------------------------------------------------------------------
(* Client threads. *)

(* submit(), second critical section: the record joins the queue. *)
Submit(r) ==
    /\ r \notin submitted
    /\ ~stopping /\ pc # "exited"
    /\ queue' = Append(queue, r)
    /\ submitted' = submitted \cup {r}
    /\ signalling' = signalling \cup {r}
    /\ UNCHANGED <<cancelled, stopping, outcome, check, slotVars, txnVars, schedVars, pc, localVars>>

(* The client goes on to request_admission_check(). *)
Signal(r) ==
    /\ r \in signalling
    /\ signalling' = signalling \ {r}
    /\ check' = TRUE
    /\ UNCHANGED <<queue, submitted, cancelled, stopping, outcome, slotVars, txnVars,
                   schedVars, pc, localVars>>

(* wait_for_request() polls the caller's cancellation, or the Submission is
   abandoned: the request's atomic flag is raised and the check after it.  The
   poll repeats until the request is answered. *)
Cancel(r) ==
    /\ r \in (Cancellable \cap submitted) \ signalling
    /\ outcome[r] = "none"
    /\ cancelled' = cancelled \cup {r}
    /\ signalling' = signalling \cup {r}
    /\ UNCHANGED <<queue, submitted, stopping, outcome, check, slotVars, txnVars, schedVars,
                   pc, localVars>>

(* ~EngineCore() *)
Stop ==
    /\ ~stopping
    /\ stopping' = TRUE
    /\ UNCHANGED <<queue, signalling, submitted, cancelled, outcome, check, slotVars,
                   txnVars, schedVars, pc, localVars>>

(* The device finishes the transfers of the open transaction. *)
TransferCompletes ==
    /\ txn # "none" /\ ~ready
    /\ ready' = TRUE
    /\ UNCHANGED <<queue, clientVars, outcome, check, slotVars, mat, txn, schedVars, pc, localVars>>

-----------------------------------------------------------------------------
(* Failure and shutdown. *)

(* Mutant: the materializing request is not among the answered. *)
OwnedButMaterializing == ToSet(queue) \cup ActiveRequests

(* The requests fail_all_locked() answers. *)
Owned == ToSet(queue) \cup ActiveRequests \cup ({mat.req} \ {NoRequest})

(* fail_all_locked(): everything the worker owns is answered with an error. *)
FailAll ==
    /\ pc' = "exited"
    /\ queue' = <<>>
    /\ prefillLane' = NoLane /\ head' = NoRequest /\ protection' = NoProtection
    /\ mat' = NoMat /\ txn' = "none" /\ ready' = FALSE
    /\ slots' = [l \in Lanes |-> EmptySlot]
    /\ lane' = [l \in Lanes |-> "free"]
    /\ outcome' = Answered(Owned, "error")
    /\ grant' = NoGrant /\ scan' = <<>> /\ snapshot' = {}
    /\ UNCHANGED <<clientVars, check, nextEpoch, prevDecode, havePending>>

(* The loop finds stopping_ set at its head. *)
Shutdown == pc = "top" /\ stopping /\ FailAll

(* A call throws anywhere in the iteration: worker_loop() catches, fails
   everything and returns. *)
ProgramFails == pc \notin {"top", "exited"} /\ FailAll

-----------------------------------------------------------------------------
(* The head of the loop, and the queue's deadlines. *)

(* The worker blocks on queue_cv_ while there is nothing to do. *)
Awake ==
    /\ Goto("top", "expire")
    /\ ~stopping
    /\ queue # <<>> \/ mat # NoMat \/ Occupied # {}
    /\ UNCHANGED <<queue, clientVars, outcome, check, slotVars, txnVars, schedVars, localVars>>

(* Scheduler::on_waiting_removed() *)
HeadAfterRemoval(gone) == IF head \in gone THEN NoRequest ELSE head
ProtectionAfterRemoval(gone) == IF head \in gone THEN NoProtection ELSE protection

(* Mutant: requests leave the queue without raising the admission check. *)
CheckNotRaised(gone) == check

(* request_admission_check() when requests left the queue or their slot. *)
CheckAfter(gone) == check \/ gone # {}

(* expire_pending_requests() *)
ExpirePending ==
    \E late \in SUBSET ((Expirable \cap ToSet(queue)) \ cancelled) :
      LET gone == (cancelled \cap ToSet(queue)) \cup late IN
      /\ Goto("expire", "progress")
      /\ queue' = Without(queue, gone)
      /\ havePending' = (queue' # <<>>)
      /\ head' = HeadAfterRemoval(gone)
      /\ protection' = ProtectionAfterRemoval(gone)
      /\ outcome' = [r \in Requests |-> IF r \in late THEN "timeout"
                                        ELSE IF r \in gone THEN "cancelled" ELSE outcome[r]]
      /\ check' = CheckAfter(gone)
      /\ UNCHANGED <<clientVars, slotVars, txnVars, prefillLane, nextEpoch, prevDecode,
                     grant, scan, snapshot>>

-----------------------------------------------------------------------------
(* progress_context_transaction(), called at the boundary, after a
   materialization was reserved and after a capture was reserved. *)

AfterProgress == [progress |-> "settle", admitted |-> "start", captured |-> "top"]

CallsProgress == pc \in DOMAIN AfterProgress /\ pc' = AfterProgress[pc]

ProgressNothing ==
    /\ CallsProgress
    /\ txn = "none" \/ ~ready
    /\ UNCHANGED <<queue, clientVars, outcome, check, slotVars, txnVars, schedVars, localVars>>

CloseTransaction == txn' = "none" /\ ready' = FALSE

(* The request was cancelled while it materialized: the transaction aborts. *)
ProgressAborts ==
    /\ CallsProgress
    /\ txn = "materialization" /\ ready
    /\ mat.req \in cancelled
    /\ outcome' = Answered({mat.req}, "cancelled")
    /\ lane' = [lane EXCEPT ![mat.lane] = "free"]
    /\ mat' = NoMat
    /\ CloseTransaction
    /\ check' = TRUE
    /\ UNCHANGED <<queue, clientVars, slots, schedVars, localVars>>

(* projected_service_work() *)
ProjectedWork(p) == p.units + p.output - 1

(* The activated record of a materialized request, which will run `units` of the
   prefill units projected for it. *)
Activated(m, units) ==
    [req |-> m.req, state |-> "prefill", capture |-> FALSE, post |-> "none",
     left |-> units, budget |-> Plan[m.req].output,
     work |-> ProjectedWork(Plan[m.req]),
     session |-> NewSession(Plan[m.req].thinks, Plan[m.req].thinking),
     epoch |-> m.epoch]

ProgressPublishes ==
    /\ CallsProgress
    /\ txn = "materialization" /\ ready
    /\ mat.req \notin cancelled
    /\ \E units \in 1 .. Plan[mat.req].units :
         slots' = [slots EXCEPT ![mat.lane] = Activated(mat, units)]
    /\ lane' = [lane EXCEPT ![mat.lane] = "active"]
    /\ prefillLane' = mat.lane
    /\ mat' = NoMat
    /\ CloseTransaction
    /\ check' = TRUE
    /\ UNCHANGED <<queue, clientVars, outcome, head, protection, nextEpoch, localVars>>

(* active_capture_owner() *)
CaptureOwners == {l \in Occupied : slots[l].capture}

(* Published or aborted alike, a capture returns its owner to the state that
   the reservation recorded. *)
ProgressCompletesCapture ==
    /\ CallsProgress
    /\ txn = "capture" /\ ready
    /\ slots' = [l \in Lanes |-> IF l \in CaptureOwners
                                 THEN [slots[l] EXCEPT !.capture = FALSE,
                                                       !.state = slots[l].post,
                                                       !.post = "none"]
                                 ELSE slots[l]]
    /\ CloseTransaction
    /\ check' = TRUE
    /\ UNCHANGED <<queue, clientVars, outcome, lane, mat, schedVars, localVars>>

Progress ==
    ProgressNothing \/ ProgressAborts \/ ProgressPublishes \/ ProgressCompletesCapture

-----------------------------------------------------------------------------
(* Settlement and cancellation of active requests. *)

Finished == {l \in Occupied : slots[l].state = "finished"}

(* ResourceManager::finish() and abort() give the lanes back. *)
Released(gone) == [l \in Lanes |-> IF l \in gone THEN "free" ELSE lane[l]]

(* settle_terminal_requests(): finished requests are answered one by one, in
   publication order, once no transaction is open. *)
SettleOne ==
    /\ pc = "settle"
    /\ txn = "none"
    /\ \E l \in Finished :
         /\ \A k \in Finished : slots[l].req <= slots[k].req
         /\ outcome' = Answered({slots[l].req}, "success")
         /\ slots' = [slots EXCEPT ![l] = EmptySlot]
         /\ lane' = Released({l})
         /\ check' = CheckAfter({l})
    /\ UNCHANGED <<queue, clientVars, txnVars, schedVars, pc, localVars>>

SettleDone ==
    /\ Goto("settle", "cancel")
    /\ txn # "none" \/ Finished = {}
    /\ UNCHANGED <<queue, clientVars, outcome, check, slotVars, txnVars, schedVars, localVars>>

(* Mutant: the snapshot is taken while a transaction is open as well. *)
SnapshotAlways == {l \in Occupied : slots[l].req \in cancelled}

(* snapshot_cancellations() *)
CancelledLanes == {l \in Occupied : txn = "none" /\ slots[l].req \in cancelled}

AfterCancel == [cancel |-> "decide", start |-> "unit"]

(* Mutant: a cancelled request is aborted although a transaction is open. *)
VictimsDuringTransaction == {l \in Occupied : slots[l].req \in cancelled}

(* The requests cancel_active_requests() aborts. *)
CancelVictims == {l \in CancelledLanes : txn = "none" /\ ~slots[l].capture}

(* snapshot_cancellations() and cancel_active_requests(), at the boundary and
   again before the execution unit. *)
CancelActive ==
    LET victims == CancelVictims IN
    /\ pc \in DOMAIN AfterCancel /\ pc' = AfterCancel[pc]
    /\ snapshot' = CancelledLanes
    /\ slots' = [l \in Lanes |-> IF l \in victims THEN EmptySlot ELSE slots[l]]
    /\ lane' = Released(victims)
    /\ outcome' = Answered({slots[l].req : l \in victims}, "cancelled")
    /\ prefillLane' = IF prefillLane \in victims THEN NoLane ELSE prefillLane
    /\ check' = CheckAfter(victims)
    /\ UNCHANGED <<queue, clientVars, txnVars, head, protection, nextEpoch, prevDecode,
                   havePending, grant, scan>>

-----------------------------------------------------------------------------
(* Admission. *)

(* build_round_membership() *)
DecodeRows == {l \in Occupied : slots[l].state = "decode" /\ ~slots[l].capture}

(* Mutant: admission may overlap an open context transaction. *)
AttemptDuringTransaction ==
    /\ havePending /\ check
    /\ prefillLane = NoLane
    /\ DecodeRows = {} \/ prevDecode

(* should_attempt_admission() *)
ShouldAttemptAdmission ==
    /\ havePending /\ check
    /\ txn = "none"
    /\ prefillLane = NoLane
    /\ DecodeRows = {} \/ prevDecode

(* The loop attempts an admission and consumes the check, or goes on. *)
Decide ==
    /\ Goto("decide", IF ShouldAttemptAdmission THEN "admit" ELSE "start")
    /\ check' = (check /\ ~ShouldAttemptAdmission)
    /\ UNCHANGED <<queue, clientVars, outcome, slotVars, txnVars, schedVars, localVars>>

DemandOf(requests) == MapThenSumSet(LAMBDA r : Demand[r], requests)
FreeLanes == {l \in Lanes : lane[l] = "free"}

(* isolated_request_feasible() *)
Feasible(r) == Demand[r] <= Capacity

(* ResourceManager::inspect() finds a lane and a materialization plan. *)
Fits(r) == FreeLanes # {} /\ DemandOf(ActiveRequests) + Demand[r] <= Capacity

(* Why try_admit_one() would take a waiting request out of the queue. *)
RemovalReasons(r) ==
    IF r \in cancelled THEN {"cancelled"}
    ELSE (IF r \in Expirable THEN {"timeout"} ELSE {})
             \cup (IF Feasible(r) THEN {} ELSE {"error"})

Considered(r) == r \notin cancelled /\ Feasible(r)

(* observe_fifo_head() *)
ProtectionOfHead(r) == IF head = r THEN protection ELSE NoProtection

AdmitNone ==
    /\ Goto("admit", "start")
    /\ queue = <<>>
    /\ head' = NoRequest
    /\ protection' = ProtectionOfHead(NoRequest)
    /\ UNCHANGED <<queue, clientVars, outcome, check, slotVars, txnVars, prefillLane, nextEpoch,
                   localVars>>

(* The head is cancelled, late or infeasible; the loop goes on with the next. *)
AdmitRemovesHead ==
    /\ pc = "admit" /\ queue # <<>>
    /\ \E why \in RemovalReasons(Head(queue)) : outcome' = Answered({Head(queue)}, why)
    /\ queue' = Tail(queue)
    /\ head' = NoRequest
    /\ protection' = NoProtection
    /\ UNCHANGED <<clientVars, check, slotVars, txnVars, prefillLane, nextEpoch, pc, localVars>>

(* The head is ready: grant_head(). *)
AdmitGrantsHead ==
    /\ Goto("admit", "grant")
    /\ queue # <<>> /\ Considered(Head(queue)) /\ Fits(Head(queue))
    /\ head' = Head(queue)
    /\ protection' = ProtectionOfHead(Head(queue))
    /\ grant' = [req |-> Head(queue), epoch |-> NoEpoch]
    /\ UNCHANGED <<queue, clientVars, outcome, check, slotVars, txnVars, prefillLane, nextEpoch,
                   prevDecode, havePending, scan, snapshot>>

(* The head is blocked: protect_blocked_head() opens an epoch whose donors are
   the requests active now, or keeps the open one.  Candidates behind the head
   are examined only while a donor is still active. *)
AdmitBlocked ==
    /\ Goto("admit", "scan")
    /\ queue # <<>> /\ Considered(Head(queue)) /\ ~Fits(Head(queue))
    /\ head' = Head(queue)
    /\ IF ProtectionOfHead(Head(queue)) = NoProtection
       THEN /\ protection' = [epoch |-> nextEpoch, head |-> Head(queue), donors |-> ActiveRequests]
            /\ nextEpoch' = nextEpoch + 1
       ELSE UNCHANGED <<protection, nextEpoch>>
    /\ scan' = IF protection'.donors \cap ActiveRequests # {} THEN Tail(queue) ELSE <<>>
    /\ UNCHANGED <<queue, clientVars, outcome, check, slotVars, txnVars, prefillLane,
                   prevDecode, havePending, grant, snapshot>>

ScanDone ==
    /\ Goto("scan", "start")
    /\ scan = <<>>
    /\ UNCHANGED <<queue, clientVars, outcome, check, slotVars, txnVars, schedVars, localVars>>

ScanRemoves ==
    /\ pc = "scan" /\ scan # <<>>
    /\ \E why \in RemovalReasons(Head(scan)) : outcome' = Answered({Head(scan)}, why)
    /\ queue' = Without(queue, {Head(scan)})
    /\ scan' = Tail(scan)
    /\ UNCHANGED <<clientVars, check, slotVars, txnVars, schedVars, pc, prevDecode, havePending,
                   grant, snapshot>>

(* The active requests admitted past the protected head. *)
Borrowers == {slots[l].req : l \in {k \in Occupied : slots[k].epoch = protection.epoch}}

(* Mutant: the proof forgets the borrowers that are already active. *)
BackfillIgnoresBorrowers(c) ==
    /\ MaxConcurrency >= 2
    /\ Demand[c] + Demand[head] <= Capacity

(* persistent_backfill_safe(): with every donor gone, the borrowers, the
   candidate and the head fit together, in lanes and in memory. *)
BackfillSafe(c) ==
    /\ Cardinality(Borrowers) + 2 <= MaxConcurrency
    /\ DemandOf(Borrowers) + Demand[c] + Demand[head] <= Capacity

ScanSkips ==
    /\ pc = "scan" /\ scan # <<>>
    /\ Considered(Head(scan))
    /\ ~Fits(Head(scan)) \/ ~BackfillSafe(Head(scan))
    /\ scan' = Tail(scan)
    /\ UNCHANGED <<queue, clientVars, outcome, check, slotVars, txnVars, schedVars, pc,
                   prevDecode, havePending, grant, snapshot>>

(* qualify_backfill() *)
ScanGrants ==
    /\ Goto("scan", "grant")
    /\ scan # <<>>
    /\ Considered(Head(scan)) /\ Fits(Head(scan)) /\ BackfillSafe(Head(scan))
    /\ grant' = [req |-> Head(scan), epoch |-> protection.epoch]
    /\ scan' = <<>>
    /\ UNCHANGED <<queue, clientVars, outcome, check, slotVars, txnVars, schedVars,
                   prevDecode, havePending, snapshot>>

(* admit_planned_request(): the request expired or was cancelled since it was
   examined. *)
GrantWithdrawn ==
    /\ Goto("grant", "start")
    /\ \E why \in RemovalReasons(grant.req) : outcome' = Answered({grant.req}, why)
    /\ queue' = Without(queue, {grant.req})
    /\ head' = HeadAfterRemoval({grant.req})
    /\ protection' = ProtectionAfterRemoval({grant.req})
    /\ check' = TRUE
    /\ grant' = NoGrant
    /\ UNCHANGED <<clientVars, slotVars, txnVars, prefillLane, nextEpoch, prevDecode,
                   havePending, scan, snapshot>>

(* Mutant: the protection outlives the head it was opened for. *)
CommitAdmissionKeepsProtection(epoch) == UNCHANGED <<head, protection>>

(* commit_admission(): the admission of the head closes its protection. *)
CommitAdmission(epoch) ==
    \/ epoch = NoEpoch /\ head' = NoRequest /\ protection' = NoProtection
    \/ epoch # NoEpoch /\ UNCHANGED <<head, protection>>

(* admit_planned_request() takes the request out of the queue and reserves its
   materialization on the first free lane. *)
GrantReserved ==
    /\ Goto("grant", "admitted")
    /\ grant.req \notin cancelled
    /\ queue' = Without(queue, {grant.req})
    /\ mat' = [req |-> grant.req, lane |-> Min(FreeLanes), epoch |-> grant.epoch]
    /\ lane' = [lane EXCEPT ![Min(FreeLanes)] = "materializing"]
    /\ txn' = "materialization"
    /\ ready' \in BOOLEAN
    /\ CommitAdmission(grant.epoch)
    /\ grant' = NoGrant
    /\ UNCHANGED <<clientVars, outcome, check, slots, prefillLane, nextEpoch, prevDecode,
                   havePending, scan, snapshot>>

Admission ==
    \/ AdmitNone \/ AdmitRemovesHead \/ AdmitGrantsHead \/ AdmitBlocked
    \/ ScanDone \/ ScanRemoves \/ ScanSkips \/ ScanGrants
    \/ GrantWithdrawn \/ GrantReserved

-----------------------------------------------------------------------------
(* The execution unit. *)

(* build_control_membership() *)
ControlRows == {l \in Occupied : slots[l].state = "control" /\ ~slots[l].capture}

PrefillRunnable == prefillLane # NoLane /\ ~slots[prefillLane].capture

(* choose_execution(), after the control batch had its turn *)
RunsPrefill == ControlRows = {} /\ PrefillRunnable /\ (DecodeRows = {} \/ prevDecode)
RunsDecode  == ControlRows = {} /\ DecodeRows # {} /\ ~RunsPrefill

UnitDone(next, wasDecode) ==
    /\ Goto("unit", next)
    /\ prevDecode' = wasDecode
    /\ snapshot' = {}
    /\ UNCHANGED <<havePending, grant, scan>>

(* run_control_batch() *)
RunControlBatch ==
    /\ ControlRows # {}
    /\ slots' = [l \in Lanes |-> IF l \in ControlRows
                                 THEN [slots[l] EXCEPT
                                         !.state   = "decode",
                                         !.budget  = @ - ControlLength,
                                         !.work    = @ - ControlLength,
                                         !.session = PreviewControl(@)]
                                 ELSE slots[l]]
    /\ UnitDone("top", TRUE)
    /\ UNCHANGED <<queue, clientVars, outcome, check, lane, txnVars, schedVars>>

(* Mutant: committed tokens are not charged to the service work. *)
CommitRowUncharged(slot, decodeRound, accepted, stopped, split) ==
    LET fed  == FeedModel(slot.session, split)
        ends == stopped \/ accepted = slot.budget
        next == IF ends THEN fed ELSE PreviewContinue(fed, Plan[slot.req].thinking) IN
    [slot EXCEPT
        !.budget  = @ - accepted,
        !.session = next,
        !.state   = IF ends THEN "finished" ELSE IF next.control THEN "control" ELSE "decode"]

(* preview_model() and commit_pending() for one row of which `accepted` tokens
   were taken, because a stop cut it there or because it was taken whole. *)
CommitRow(slot, decodeRound, accepted, stopped, split) ==
    LET fed  == FeedModel(slot.session, split)
        ends == stopped \/ accepted = slot.budget
        next == IF ends THEN fed ELSE PreviewContinue(fed, Plan[slot.req].thinking) IN
    [slot EXCEPT
        !.budget  = @ - accepted,
        !.work    = @ - (IF decodeRound THEN accepted ELSE 1),
        !.session = next,
        !.state   = IF ends THEN "finished" ELSE IF next.control THEN "control" ELSE "decode"]

(* The records a row of `count` tokens may result in. *)
Committed(slot, count, decodeRound) ==
    LET cuts == {cut \in (1 .. count) \X BOOLEAN : cut[2] \/ cut[1] = count} IN
    UNION {{CommitRow(slot, decodeRound, cut[1], cut[2], split) :
                split \in ThinkingSplits(slot.session, cut[1])} : cut \in cuts}

(* ResourceManager::apply_commit() *)
LaneAfter(row) == IF row.state = "finished" THEN "terminalPending" ELSE "active"

(* reserve_active_capture() opens a capture transaction on lane l, whose owner
   is held in the prefill state until the capture is over. *)
ReservesCapture(l, row, post) ==
    /\ slots' = [slots EXCEPT ![l] = [row EXCEPT !.state = "prefill", !.capture = TRUE,
                                                 !.post = post]]
    /\ txn' = "capture"
    /\ ready' \in BOOLEAN
    /\ UnitDone("captured", FALSE)

(* The offered capture, if any, is skipped. *)
SkipsCapture(l, row) ==
    /\ slots' = [slots EXCEPT ![l] = row]
    /\ UnitDone("top", FALSE)
    /\ UNCHANGED <<txn, ready>>

(* run_prefill_step(): a unit that does not reach the end of the prompt, and may
   offer a capture. *)
RunPrefillUnit ==
    LET row == [slots[prefillLane] EXCEPT !.left = @ - 1, !.work = @ - 1] IN
    /\ RunsPrefill
    /\ slots[prefillLane].left > 1
    /\ \/ SkipsCapture(prefillLane, row)
       \/ txn = "none" /\ ReservesCapture(prefillLane, row, "prefill")
    /\ UNCHANGED <<queue, clientVars, outcome, check, lane, mat, schedVars>>

(* run_prefill_step(): the last unit yields a token, which is committed; an
   active row may offer a capture of the prompt frontier. *)
RunPrefillLast ==
    /\ RunsPrefill
    /\ slots[prefillLane].left = 1
    /\ prefillLane' = NoLane
    /\ check' = TRUE
    /\ \E row \in Committed([slots[prefillLane] EXCEPT !.left = 0], 1, FALSE) :
         /\ lane' = [lane EXCEPT ![prefillLane] = LaneAfter(row)]
         /\ \/ SkipsCapture(prefillLane, row)
            \/ /\ row.state # "finished" /\ txn = "none"
               /\ ReservesCapture(prefillLane, row, row.state)
    /\ UNCHANGED <<queue, clientVars, outcome, mat, head, protection, nextEpoch>>

(* The rows a decode round may leave on lane l: the Program produces at least
   one and at most the licensed number of tokens. *)
DecodedRows(l) ==
    LET licensed == LicensedTokens(slots[l].session, Plan[slots[l].req].thinking,
                                   slots[l].budget) IN
    UNION {Committed(slots[l], count, TRUE) : count \in {n \in 1 .. MaxRound : n <= licensed}}

(* run_decode_round() over every decode-ready row at once. *)
RunDecodeRound ==
    /\ RunsDecode
    /\ \E rows \in {f \in [DecodeRows -> UNION {DecodedRows(l) : l \in DecodeRows}] :
                        \A l \in DecodeRows : f[l] \in DecodedRows(l)} :
         /\ slots' = [l \in Lanes |-> IF l \in DecodeRows THEN rows[l] ELSE slots[l]]
         /\ lane' = [l \in Lanes |-> IF l \in DecodeRows THEN LaneAfter(rows[l]) ELSE lane[l]]
    /\ UnitDone("top", TRUE)
    /\ UNCHANGED <<queue, clientVars, outcome, check, txnVars, schedVars>>

(* Nothing to run: the worker waits a millisecond and starts over. *)
RunNothing ==
    /\ ControlRows = {} /\ ~PrefillRunnable /\ DecodeRows = {}
    /\ UnitDone("top", prevDecode)
    /\ UNCHANGED <<queue, clientVars, outcome, check, slotVars, txnVars, schedVars>>

Unit == RunControlBatch \/ RunPrefillUnit \/ RunPrefillLast \/ RunDecodeRound \/ RunNothing

-----------------------------------------------------------------------------

Worker ==
    \/ Awake \/ Shutdown \/ ExpirePending
    \/ Progress
    \/ SettleOne \/ SettleDone \/ CancelActive
    \/ Decide \/ Admission
    \/ Unit

Next ==
    \/ \E r \in Requests : Submit(r) \/ Signal(r) \/ Cancel(r)
    \/ Stop
    \/ TransferCompletes
    \/ Worker
    \/ ProgramFails

Spec == Init /\ [][Next]_vars

(* The worker thread runs, submitting threads return and transfers end.  No
   fairness is assumed of deadlines, cancellations or failures. *)
Fairness ==
    /\ WF_vars(Worker)
    /\ WF_vars(TransferCompletes)
    /\ \A r \in Requests : WF_vars(Signal(r))

FairSpec == Spec /\ Fairness

-----------------------------------------------------------------------------
(* Properties. *)

(* A request submit() accepted is held in exactly one place - the queue, the
   materialization or a slot - until it is answered, and nowhere afterwards:
   none is lost on an error path, answered twice or left behind by
   fail_all_locked(). *)
OneOwner ==
    \A r \in Requests :
        Cardinality({i \in DOMAIN queue : queue[i] = r})
          + Cardinality({l \in Lanes : slots[l].req = r})
          + (IF mat.req = r THEN 1 ELSE 0)
        = (IF r \in submitted /\ outcome[r] = "none" THEN 1 ELSE 0)

(* The open context transaction and the records that own it agree, whatever was
   cancelled meanwhile; progress_context_transaction() and
   active_capture_owner() throw on each of these conflicts. *)
TransactionIsOwned ==
    /\ (txn = "materialization") = (mat # NoMat)
    /\ mat # NoMat => slots[mat.lane] = EmptySlot /\ lane[mat.lane] = "materializing"
    /\ (txn = "capture") = (CaptureOwners # {})
    /\ Cardinality(CaptureOwners) <= 1

(* The lane states of ResourceManager follow the slots of the engine: a lane is
   kept until its finished request is settled, and freed on every path that
   empties the slot. *)
LanesFollowSlots ==
    \A l \in Lanes \ {mat.lane} :
        lane[l] = CASE slots[l].req = NoRequest -> "free"
                    [] slots[l].state = "finished" -> "terminalPending"
                    [] OTHER -> "active"

(* At most one request is in staged prefill, and it is the one the scheduler
   records: set_prefill_lane() throws on a second owner, worker_loop() on an
   owner that is gone. *)
PrefillIsExclusive ==
    \A l \in Lanes : (prefillLane = l) = (slots[l].left > 0)

(* The engine's records of one request agree - its transaction, its lane and the
   staged prefill - whatever was cancelled, settled or failed meanwhile. *)
RecordsAgree == TransactionIsOwned /\ LanesFollowSlots /\ PrefillIsExclusive

(* A lane in the snapshot a unit runs under has no request any more, so
   commit_pending() never sees a cancelled row and no cancelled request is
   advanced by the unit that should have ended it. *)
NoCancelledRow ==
    pc = "unit" => \A l \in snapshot : slots[l] = EmptySlot

(* While an admission is decided no transaction is open and every active
   request still has service work: active_admission_set() throws on a request
   that finished but was not settled. *)
AdmissionSeesLiveWork ==
    pc \in {"admit", "scan", "grant"} =>
        /\ txn = "none"
        /\ \A l \in Occupied : slots[l].work > 0

(* The requests that hold memory, materialize into it or were just granted it
   fit together, although inspect() counts only the active ones. *)
MemoryFits ==
    /\ DemandOf((ActiveRequests \cup {mat.req, grant.req}) \ {NoRequest}) <= Capacity
    /\ pc = "grant" => FreeLanes # {}

(* A feasible head is never blocked in an idle engine, on which try_admit_one()
   throws and fails every request. *)
IdleEngineAdmits ==
    pc = "admit" /\ Occupied = {} /\ queue # <<>> /\ Feasible(Head(queue)) => Fits(Head(queue))

(* Admission neither overcommits nor starves: MemoryFits and IdleEngineAdmits. *)
AdmissionFits == MemoryFits /\ IdleEngineAdmits

(* While a head is protected, every active request is either one of the donors
   frozen when the epoch was opened or a borrower of that epoch, never the head
   itself; validate_active_partition() throws otherwise. *)
DonorsAndBorrowers ==
    protection # NoProtection =>
        /\ protection.head = head
        /\ \A l \in Occupied :
             /\ slots[l].req # head
             /\ slots[l].req \in protection.donors <=> slots[l].epoch # protection.epoch
        /\ mat # NoMat => mat.epoch = protection.epoch

(* However many requests were admitted past a blocked head, the head fits beside
   all of them once the donors it waits for are gone: backfill never delays it
   further. *)
BackfillIsHarmless ==
    protection # NoProtection =>
        LET borrowers == Borrowers \cup
                           (IF mat.epoch = protection.epoch THEN {mat.req} ELSE {}) IN
        /\ Cardinality(borrowers) + 1 <= MaxConcurrency
        /\ DemandOf(borrowers) + Demand[head] <= Capacity

(* Every accepted request is answered, without the help of deadlines, of
   cancellation or of the shutdown. *)
EventuallyAnswered ==
    \A r \in Requests : (r \in submitted) ~> (outcome[r] # "none")

-----------------------------------------------------------------------------
(* Each request, seen alone, is a behaviour of Generation. *)

SlotOf(r) ==
    IF \E l \in Occupied : slots[l].req = r
    THEN slots[CHOOSE l \in Occupied : slots[l].req = r]
    ELSE EmptySlot

PhaseOf(r) ==
    IF r \notin submitted THEN "new"
    ELSE IF outcome[r] # "none" THEN "answered"
    ELSE IF SlotOf(r) = EmptySlot THEN "waiting"
    ELSE IF SlotOf(r).capture THEN SlotOf(r).post
    ELSE SlotOf(r).state

PlanOf(r) ==
    IF r \in submitted THEN Plan[r]
    ELSE [units |-> 0, output |-> 0, thinking |-> 0, thinks |-> FALSE]

Lifecycle(r) ==
    INSTANCE Generation WITH
        Plans <- {Plan[r]}, phase <- PhaseOf(r), plan <- PlanOf(r),
        left <- SlotOf(r).left, budget <- SlotOf(r).budget,
        work <- SlotOf(r).work, session <- SlotOf(r).session

(* Interleaved with the other requests, with captures and with transactions,
   every request still goes through exactly the steps of its own lifecycle:
   no unit runs twice, is charged twice or touches another request's record.
   This is Lifecycle(r)!GenerationSpec for every r, with the quantifier moved
   inside. *)
ImplementsGeneration ==
    /\ \A r \in Requests : Lifecycle(r)!GenerationInit
    /\ [][\A r \in Requests : \/ Lifecycle(r)!GenerationNext
                              \/ UNCHANGED Lifecycle(r)!generationVars]_vars

=============================================================================
