--------------------------- MODULE RequestCapacity ---------------------------
(***************************************************************************)
(* The outstanding-request accounting of EngineCore, at the granularity of *)
(* its critical sections.  Client threads run submit(), wait() or the      *)
(* Submission destructor; one worker thread answers requests and, on a     *)
(* failure or a shutdown, runs fail_all_locked().  Every action is one     *)
(* critical section of queue_mutex_ or of a request's own mutex.           *)
(***************************************************************************)
EXTENDS Integers, FiniteSets

CONSTANTS Requests,        \* one submit() call each, from a thread of its own
          MaxOutstanding,  \* max_concurrency + max_pending_requests
          NoRequest        \* the worker is not answering any request

ASSUME CapacityAssumption ==
    /\ IsFiniteSet(Requests)
    /\ MaxOutstanding \in Nat \ {0}
    /\ NoRequest \notin Requests

VARIABLES
    outstanding,        \* EngineCore::outstanding_
    stopping,           \* EngineCore::stopping_
    failed,             \* EngineCore::failed_
    pending,            \* EngineCore::pending_, order abstracted away
    owned,              \* requests the worker took out of pending_
    client,             \* where each request's client thread is
    responseDone,       \* Request::response_done
    consumerReleased,   \* Request::consumer_released
    capacityReleased,   \* Request::capacity_released
    worker,             \* where the worker thread is
    answering           \* the request whose completion the worker is running

engineVars  == <<outstanding, stopping, failed, pending, owned>>
requestVars == <<responseDone, consumerReleased, capacityReleased>>
workerVars  == <<worker, answering>>
capacityVars == <<engineVars, client, requestVars, workerVars>>

ClientStates == {"idle",       \* submit() not called yet
                 "building",   \* capacity reserved, RequestRecord being built
                 "submitted",  \* holds a Submission
                 "waiting",    \* inside wait_for_request()
                 "leaving",    \* about to run release_consumer()
                 "releasing",  \* release_consumer() decided to give the capacity back
                 "gone",       \* the client is finished with the request
                 "rejected"}   \* submit() threw

WorkerStates == {"running",    \* worker_loop()
                 "marking",    \* response_done is set, mark_completed() is next
                 "releasing",  \* mark_completed() returned true
                 "exited"}     \* worker_loop() returned

CapacityInit ==
    /\ outstanding = 0
    /\ stopping = FALSE
    /\ failed = FALSE
    /\ pending = {}
    /\ owned = {}
    /\ client = [r \in Requests |-> "idle"]
    /\ responseDone = [r \in Requests |-> FALSE]
    /\ consumerReleased = [r \in Requests |-> FALSE]
    /\ capacityReleased = [r \in Requests |-> FALSE]
    /\ worker = "running"
    /\ answering = NoRequest

ClientMoves(r, from, to) ==
    /\ client[r] = from
    /\ client' = [client EXCEPT ![r] = to]

(* release_reserved_capacity(): a saturating decrement. *)
Decremented(n) == IF n # 0 THEN n - 1 ELSE n

-----------------------------------------------------------------------------
(* The client threads. *)

(* submit() throws before it reserved anything: the deadline has passed, the
   engine is unavailable, or the queue is full. *)
SubmitRefused(r) ==
    /\ ClientMoves(r, "idle", "rejected")
    /\ UNCHANGED <<engineVars, requestVars, workerVars>>

(* Mutant: the bound is compared with > instead of >=. *)
ReserveOneTooMany(r) ==
    /\ ~stopping /\ ~failed
    /\ outstanding <= MaxOutstanding
    /\ outstanding' = outstanding + 1
    /\ ClientMoves(r, "idle", "building")
    /\ UNCHANGED <<stopping, failed, pending, owned, requestVars, workerVars>>

(* submit(), first critical section: reserve one unit of capacity. *)
SubmitReserve(r) ==
    /\ ~stopping /\ ~failed
    /\ outstanding < MaxOutstanding
    /\ outstanding' = outstanding + 1
    /\ ClientMoves(r, "idle", "building")
    /\ UNCHANGED <<stopping, failed, pending, owned, requestVars, workerVars>>

(* Building the output session or validating the thinking budget threw: the
   handler gives the reservation back and rethrows. *)
SubmitBuildFails(r) ==
    /\ ClientMoves(r, "building", "rejected")
    /\ outstanding' = Decremented(outstanding)
    /\ UNCHANGED <<stopping, failed, pending, owned, requestVars, workerVars>>

(* Mutant: the second critical section does not look at stopping_ / failed_. *)
EnqueueUnchecked(r) ==
    /\ ClientMoves(r, "building", "submitted")
    /\ pending' = pending \cup {r}
    /\ UNCHANGED <<outstanding, stopping, failed, owned, requestVars, workerVars>>

(* submit(), second critical section: the engine may have stopped or failed
   while the record was being built. *)
SubmitEnqueue(r) ==
    \/ /\ stopping \/ failed
       /\ ClientMoves(r, "building", "rejected")
       /\ outstanding' = outstanding - 1
       /\ UNCHANGED <<stopping, failed, pending, owned, requestVars, workerVars>>
    \/ /\ ~stopping /\ ~failed
       /\ ClientMoves(r, "building", "submitted")
       /\ pending' = pending \cup {r}
       /\ UNCHANGED <<outstanding, stopping, failed, owned, requestVars, workerVars>>

(* Submission::wait() enters wait_for_request(). *)
Wait(r) ==
    /\ ClientMoves(r, "submitted", "waiting")
    /\ UNCHANGED <<engineVars, requestVars, workerVars>>

(* wait_for_request() returns or throws only once response_done was seen; its
   ConsumerGuard then runs release_consumer(). *)
WaitReturns(r) ==
    /\ responseDone[r]
    /\ ClientMoves(r, "waiting", "leaving")
    /\ UNCHANGED <<engineVars, requestVars, workerVars>>

(* The Submission is destroyed without wait(): abandon_request(). *)
AbandonSubmission(r) ==
    /\ ClientMoves(r, "submitted", "leaving")
    /\ UNCHANGED <<engineVars, requestVars, workerVars>>

(* Mutant: the consumer leaves the release to the worker. *)
ReleaseConsumerPassively(r) ==
    /\ ClientMoves(r, "leaving", "gone")
    /\ consumerReleased' = [consumerReleased EXCEPT ![r] = TRUE]
    /\ UNCHANGED <<engineVars, responseDone, capacityReleased, workerVars>>

(* release_consumer(), under the request's mutex. *)
ReleaseConsumer(r) ==
    LET release == responseDone[r] /\ ~capacityReleased[r]
    IN  /\ ClientMoves(r, "leaving", IF release THEN "releasing" ELSE "gone")
        /\ consumerReleased' = [consumerReleased EXCEPT ![r] = TRUE]
        /\ capacityReleased' = [capacityReleased EXCEPT ![r] = @ \/ release]
        /\ UNCHANGED <<engineVars, responseDone, workerVars>>

(* release_consumer() calls release_reserved_capacity(). *)
ClientReturnsCapacity(r) ==
    /\ ClientMoves(r, "releasing", "gone")
    /\ outstanding' = Decremented(outstanding)
    /\ UNCHANGED <<stopping, failed, pending, owned, requestVars, workerVars>>

(* ~EngineCore() *)
Stop ==
    /\ ~stopping
    /\ stopping' = TRUE
    /\ UNCHANGED <<outstanding, failed, pending, owned, client, requestVars, workerVars>>

-----------------------------------------------------------------------------
(* The worker thread. *)

(* The worker takes a request out of pending_: it is admitted, or it is about
   to be answered as cancelled, expired or infeasible. *)
Take(r) ==
    /\ worker = "running" /\ ~failed
    /\ r \in pending
    /\ pending' = pending \ {r}
    /\ owned' = owned \cup {r}
    /\ UNCHANGED <<outstanding, stopping, failed, client, requestVars, workerVars>>

(* complete_error() / complete_success(): the critical section that sets
   response_done, unless the response is already there. *)
SetResponse(r) ==
    /\ worker = "running"
    /\ r \in owned
    /\ IF responseDone[r]
       THEN UNCHANGED <<responseDone, workerVars>>
       ELSE /\ responseDone' = [responseDone EXCEPT ![r] = TRUE]
            /\ worker' = "marking"
            /\ answering' = r
    /\ UNCHANGED <<engineVars, client, consumerReleased, capacityReleased>>

(* Mutant: capacity_released is not tested, only consumer_released. *)
MarkCompletedTwice ==
    /\ worker = "marking"
    /\ IF consumerReleased[answering]
       THEN /\ capacityReleased' = [capacityReleased EXCEPT ![answering] = TRUE]
            /\ worker' = "releasing"
            /\ UNCHANGED answering
       ELSE /\ worker' = "running"
            /\ answering' = NoRequest
            /\ UNCHANGED capacityReleased
    /\ UNCHANGED <<engineVars, client, responseDone, consumerReleased>>

(* mark_completed(), a critical section of its own. *)
MarkCompleted ==
    /\ worker = "marking"
    /\ IF consumerReleased[answering] /\ ~capacityReleased[answering]
       THEN /\ capacityReleased' = [capacityReleased EXCEPT ![answering] = TRUE]
            /\ worker' = "releasing"
            /\ UNCHANGED answering
       ELSE /\ worker' = "running"
            /\ answering' = NoRequest
            /\ UNCHANGED capacityReleased
    /\ UNCHANGED <<engineVars, client, responseDone, consumerReleased>>

(* The completion calls release_reserved_capacity(). *)
WorkerReturnsCapacity ==
    /\ worker = "releasing"
    /\ outstanding' = Decremented(outstanding)
    /\ worker' = "running"
    /\ answering' = NoRequest
    /\ UNCHANGED <<stopping, failed, pending, owned, client, requestVars>>

(* Mutant: the queue is closed but the waiting requests stay in pending_. *)
FailAllKeepsQueue ==
    /\ worker = "running" /\ ~failed
    /\ failed' = TRUE
    /\ UNCHANGED <<outstanding, stopping, pending, owned, client, requestVars, workerVars>>

(* fail_all_locked(), reached from shutdown or from any exception of the loop:
   its critical section closes the queue and takes every waiting request.  The
   answers that follow are SetResponse steps. *)
FailAll ==
    /\ worker = "running" /\ ~failed
    /\ failed' = TRUE
    /\ owned' = owned \cup pending
    /\ pending' = {}
    /\ UNCHANGED <<outstanding, stopping, client, requestVars, workerVars>>

(* fail_all_locked() has answered every request it found; the loop returns. *)
WorkerExits ==
    /\ worker = "running" /\ failed
    /\ \A r \in owned : responseDone[r]
    /\ worker' = "exited"
    /\ UNCHANGED <<engineVars, client, requestVars, answering>>

-----------------------------------------------------------------------------
Client(r) ==
    \/ SubmitRefused(r) \/ SubmitReserve(r) \/ SubmitBuildFails(r) \/ SubmitEnqueue(r)
    \/ Wait(r) \/ WaitReturns(r) \/ AbandonSubmission(r)
    \/ ReleaseConsumer(r) \/ ClientReturnsCapacity(r)

Worker ==
    \/ \E r \in Requests : Take(r) \/ SetResponse(r)
    \/ MarkCompleted \/ WorkerReturnsCapacity \/ FailAll \/ WorkerExits

CapacityNext == (\E r \in Requests : Client(r)) \/ Stop \/ Worker

(* Threads that run are scheduled: a client that left, or whose response is
   there, moves on; the worker finishes a completion it began, and after
   fail_all_locked() closed the queue it answers everything it took.  Neither
   clients nor the worker are assumed to begin anything. *)
Fairness ==
    /\ \A r \in Requests : WF_capacityVars(WaitReturns(r) \/ ReleaseConsumer(r)
                                           \/ ClientReturnsCapacity(r))
    /\ WF_capacityVars(MarkCompleted \/ WorkerReturnsCapacity)
    /\ WF_capacityVars(WorkerExits)
    /\ \A r \in Requests : WF_capacityVars(failed /\ SetResponse(r))

CapacitySpec == CapacityInit /\ [][CapacityNext]_capacityVars

FairSpec == CapacitySpec /\ Fairness

-----------------------------------------------------------------------------
Accepted(r) == client[r] \in {"submitted", "waiting", "leaving", "releasing", "gone"}

(* The requests that still own one unit of outstanding_. *)
Holders ==
    {r \in Requests :
        \/ client[r] = "building"
        \/ Accepted(r) /\ ~capacityReleased[r]
        \/ client[r] = "releasing"
        \/ worker = "releasing" /\ answering = r}

(* Every variable keeps its type: outstanding_ is unsigned, and the rejection in
   the second critical section of submit() decrements it without a guard. *)
CapacityTypeOK ==
    /\ outstanding \in Nat
    /\ stopping \in BOOLEAN /\ failed \in BOOLEAN
    /\ pending \subseteq Requests /\ owned \subseteq Requests
    /\ client \in [Requests -> ClientStates]
    /\ responseDone \in [Requests -> BOOLEAN]
    /\ consumerReleased \in [Requests -> BOOLEAN]
    /\ capacityReleased \in [Requests -> BOOLEAN]
    /\ worker \in WorkerStates
    /\ answering \in Requests \cup {NoRequest}

(* outstanding_ counts exactly the requests that have not given their capacity
   back, across the two lock scopes that submit(), release_consumer() and the
   completions use: no unit is leaked and none is returned twice, so the
   saturating decrement of release_reserved_capacity() never saturates and the
   submit() bound is a bound on live requests. *)
CapacityConserved ==
    /\ outstanding = Cardinality(Holders)
    /\ outstanding <= MaxOutstanding

(* Whichever of the client's release_consumer() and the worker's
   mark_completed() comes second returns the unit: when both have run, the
   capacity is released, whatever their order. *)
NoCapacityLeak ==
    \A r \in Requests :
        /\ responseDone[r] /\ consumerReleased[r]
        /\ ~(worker = "marking" /\ answering = r)
        => capacityReleased[r]

(* The unit is returned only after both the answer and the consumer's release,
   and by one of the two threads: the client and the worker are never both on
   their way to decrement outstanding_ for the same request. *)
OneThreadReleases ==
    \A r \in Requests :
        /\ consumerReleased[r] <=> client[r] \in {"releasing", "gone"}
        /\ capacityReleased[r] => responseDone[r] /\ consumerReleased[r]
        /\ client[r] = "releasing" =>
              capacityReleased[r] /\ ~(worker = "releasing" /\ answering = r)
        /\ worker = "releasing" /\ answering = r =>
              capacityReleased[r] /\ client[r] = "gone"
        /\ responseDone[r] => r \in owned
        /\ r \in pending \cup owned => Accepted(r)

(* A request accepted by submit() is always reachable for the worker or already
   answered: the second check of stopping_ / failed_ keeps a submit() that
   raced with fail_all_locked() from enqueueing behind the worker's back, where
   its client would wait for ever. *)
NoOrphan ==
    /\ \A r \in Requests : Accepted(r) => r \in pending \cup owned
    /\ failed => pending = {}
    /\ worker = "exited" => failed /\ \A r \in owned : responseDone[r]

(* The worker is between two lock scopes of a completion exactly when it has a
   request to answer, and that request's response is set. *)
WorkerHoldsAnswer ==
    /\ worker \in {"marking", "releasing"} =>
          answering \in Requests /\ responseDone[answering]
    /\ worker \in {"running", "exited"} => answering = NoRequest

(* The inductive invariant behind CapacityConserved and NoOrphan. *)
CapacityInvariant ==
    /\ CapacityTypeOK
    /\ CapacityConserved
    /\ NoCapacityLeak
    /\ OneThreadReleases
    /\ WorkerHoldsAnswer
    /\ NoOrphan

(* After fail_all_locked() closed the engine every accepted request is answered. *)
FailureAnswersAll ==
    \A r \in Requests : (failed /\ Accepted(r)) ~> responseDone[r]

(* A request that is answered and whose client lets go eventually returns its
   capacity, whichever thread comes last. *)
CapacityReturns ==
    \A r \in Requests :
        (responseDone[r] /\ client[r] \in {"waiting", "leaving", "releasing", "gone"})
            ~> (r \notin Holders)

(* The accounting implements the abstract gate: each request takes and returns
   one permit, and never more than MaxOutstanding are held. *)
Permit ==
    [r \in Requests |->
        IF r \in Holders THEN "held"
        ELSE IF client[r] = "idle" THEN "free" ELSE "settled"]

Gate == INSTANCE CapacityGate WITH permit <- Permit

ImplementsGate == Gate!GateSpec

=============================================================================
