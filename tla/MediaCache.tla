------------------------------ MODULE MediaCache ------------------------------
(***************************************************************************)
(* Media preparation: MediaPreprocessCache, the HostWorkerPool its builds  *)
(* run on, and the request threads inside Processor::process().            *)
(*                                                                         *)
(* A request takes a preparation permit, begins one build per media part   *)
(* (a cache hit, a join of another's build, or a build of its own handed   *)
(* to the pool), then awaits them in order.  Flight <<r, i>> is the build  *)
(* that request r began for its i-th part; a flight allocates at most one  *)
(* payload, so the same id names the payload.                              *)
(*                                                                         *)
(* The pixels are left out: a payload is its size.  The aggregate limits   *)
(* (raw patches, vision tokens) are all proportional to that size, so one  *)
(* limit MaxRequestBytes stands for them, as it does in Frontend::Impl.    *)
(***************************************************************************)
EXTENDS Filter, FiniteSets, FiniteSetsExt, SequencesExt

CONSTANTS
    Requests,         \* calls of process()
    Keys,             \* (digest, modality) of a media part
    Bytes,            \* the payload size of each key
    PartLists,        \* the lists of parts a prompt may have
    LiveLimit,        \* --media-live-mib, MemoryAccount::limit
    RetainLimit,      \* --media-cache-mib, State::capacity_bytes
    MaxRequestBytes,  \* maximum_request_bytes
    Threads,          \* pool threads
    QueueCapacity,    \* pool queue capacity
    Signals,          \* what may interrupt a request from outside
    Rejectable        \* the requests whose input may be refused

ASSUME MediaAssumption ==
    /\ IsFiniteSet(Requests) /\ IsFiniteSet(Keys)
    /\ Bytes \in [Keys -> Nat \ {0}]
    /\ PartLists \subseteq Seq(Keys) \ {<<>>} /\ IsFiniteSet(PartLists)
    /\ LiveLimit \in Nat /\ RetainLimit \in Nat
    /\ MaxRequestBytes \in Nat \ {0} /\ MaxRequestBytes <= LiveLimit
    /\ Threads \in Nat \ {0} /\ QueueCapacity \in Nat \ {0}
    /\ Signals \subseteq {"cancelled", "timeout"}
    /\ Rejectable \subseteq Requests

VARIABLES
    parts,     \* the media parts of each request
    pc,        \* where its process() call is
    idx,       \* the part it is at
    pending,   \* pending_items: [hit, f], a pinned payload or a joined flight
    error,     \* preparation_error; stop_preparation is stored with it
    taken,     \* output.media_payloads
    signal,    \* cancellation requested and deadline passed
    claimed,   \* ConcurrentMediaBudget::stats_
    flight,    \* each flight: where its task is, its error, whether it allocated
    queue,     \* HostWorkerPool queue
    inflight,  \* State::inflight
    ready,     \* State::ready
    lru,       \* State::lru, most recent first
    retained   \* State::retained_bytes

procVars == <<parts, pc, idx, pending, error, taken, signal>>
cacheVars == <<inflight, ready, lru, retained>>
vars == <<procVars, claimed, flight, queue, cacheVars>>

NoError == "none"
NoFlight == <<>>
MaxParts == Max({0} \cup {Len(p) : p \in PartLists})
Flights == Requests \X (1 .. MaxParts)
Owner(f) == f[1]
Key(f) == parts[f[1]][f[2]]

SumBytes(S) == SumFunctionOnSet([f \in S |-> Bytes[Key(f)]], S)

(***************************************************************************)
(* Threads.                                                                *)
(***************************************************************************)

\* MediaPreparationGate: one permit per maximum request the account can hold.
GateMaximum == Max({1, LiveLimit \div MaxRequestBytes})
Permitted == {"begin", "submit", "submit_failed", "await", "drain"}
Permits == {r \in Requests : pc[r] \in Permitted}

\* The states of a task that a pool thread is running.
Running == {"claim", "reserve", "evict", "build", "publish", "erase"}
Active == {f \in Flights : flight[f].st \in Running}

\* MediaCacheFlight::done
Done(f) == flight[f].st \in {"erase", "failed", "over"}

\* check_preparation_control(control) of the request thread.
Interrupted(r) == signal[r] # {}
InterruptKind(r) == IF "cancelled" \in signal[r] THEN "cancelled" ELSE "timeout"

\* check_preparation_control(worker_control): the deadline, and stop_preparation
\* in place of the client's cancellation.
Stopped(r) == error[r] # NoError \/ "timeout" \in signal[r]
StopKind(r) == IF error[r] # NoError THEN "cancelled" ELSE "timeout"

(***************************************************************************)
(* Payload references.  A payload lives while a task, a flight someone     *)
(* holds, a cache entry, a pin or a prepared prompt refers to it; the      *)
(* deleter gives its bytes back to the account with the last of them.      *)
(***************************************************************************)
HeldBy(r) == {pending[r][i].f : i \in DOMAIN pending[r]} \cup taken[r]
Referenced(f) ==
    /\ flight[f].built
    /\ \/ flight[f].st \in Running
       \/ \E k \in Keys : ready[k] = f
       \/ \E r \in Requests : f \in HeldBy(r)
Live == SumBytes({f \in Flights : Referenced(f)})

\* MemoryAccount::try_reserve
Fits(bytes) == Live + bytes <= LiveLimit

Init ==
    /\ parts \in [Requests -> PartLists]
    /\ pc = [r \in Requests |-> "gate"]
    /\ idx = [r \in Requests |-> 1]
    /\ pending = [r \in Requests |-> <<>>]
    /\ error = [r \in Requests |-> NoError]
    /\ taken = [r \in Requests |-> {}]
    /\ signal = [r \in Requests |-> {}]
    /\ claimed = [r \in Requests |-> 0]
    /\ flight = [f \in Flights |-> [st |-> "none", err |-> NoError, built |-> FALSE]]
    /\ queue = <<>>
    /\ inflight = [k \in Keys |-> NoFlight]
    /\ ready = [k \in Keys |-> NoFlight]
    /\ lru = <<>>
    /\ retained = 0

(***************************************************************************)
(* The cache under State::mutex.                                           *)
(***************************************************************************)

\* evict_one_locked(), repeated until the first n entries of the list are left.
Kept(n) == ToSet(SubSeq(lru, 1, n))
TailBytes(n) == MapThenSumSet(LAMBDA k : Bytes[k], ToSet(lru) \ Kept(n))
Evict(n) ==
    /\ lru' = SubSeq(lru, 1, n)
    /\ ready' = [k \in Keys |-> IF k \in Kept(n) THEN ready[k] ELSE NoFlight]
    /\ retained' = retained - TailBytes(n)

\* The insertion at the end of a build: evict until the payload fits and put it in
\* front.  A payload larger than the whole capacity is not retained.
Retain(f) ==
    LET k == Key(f)
        n == Max({m \in 0 .. Len(lru) : retained - TailBytes(m) + Bytes[k] <= RetainLimit})
    IN IF Bytes[k] > RetainLimit
       THEN UNCHANGED <<ready, lru, retained>>
       ELSE /\ lru' = <<k>> \o SubSeq(lru, 1, n)
            /\ ready' = [x \in Keys |-> IF x \in Kept(n) THEN ready[x]
                                        ELSE IF x = k THEN f ELSE NoFlight]
            /\ retained' = retained - TailBytes(n) + Bytes[k]

(***************************************************************************)
(* Processor::process(), one request thread.                               *)
(***************************************************************************)
Goto(r, label) == pc' = [pc EXCEPT ![r] = label]
Advance(r) == idx' = [idx EXCEPT ![r] = @ + 1]

\* The first error wins; storing it also stores stop_preparation.
Fail(r, kind) == error' = [error EXCEPT ![r] = IF @ = NoError THEN kind ELSE @]

\* acquire_request(), a poll that checks the control each time round.
AcquireRequest(r) ==
    /\ pc[r] = "gate"
    /\ \/ /\ ~Interrupted(r)
          /\ Cardinality(Permits) < GateMaximum
          /\ Goto(r, "begin")
          /\ UNCHANGED error
       \/ /\ Interrupted(r)
          /\ Goto(r, "over")
          /\ Fail(r, InterruptKind(r))
    /\ UNCHANGED <<parts, idx, pending, taken, signal, claimed, flight, queue, cacheVars>>

\* enforce_image_resize_policy() throws with the permit held and nothing begun.
RejectPolicy(r) ==
    /\ pc[r] = "begin" /\ idx[r] = 1
    /\ r \in Rejectable
    /\ Goto(r, "over")
    /\ Fail(r, "invalid")
    /\ UNCHANGED <<parts, idx, pending, taken, signal, claimed, flight, queue, cacheVars>>

\* begin_prepare() of the next part: pin a ready payload, join the flight of the
\* same key, or open a flight and go on to submit its task.
BeginHit(r) ==
    LET k == parts[r][idx[r]]
    IN /\ ready[k] # NoFlight
       /\ lru' = <<k>> \o Without(lru, {k})
       /\ pending' = [pending EXCEPT ![r] = Append(@, [hit |-> TRUE, f |-> ready[k]])]
       /\ Advance(r)
       /\ UNCHANGED <<pc, flight, inflight>>

BeginJoin(r) ==
    LET k == parts[r][idx[r]]
    IN /\ ready[k] = NoFlight /\ inflight[k] # NoFlight
       /\ pending' = [pending EXCEPT ![r] = Append(@, [hit |-> FALSE, f |-> inflight[k]])]
       /\ Advance(r)
       /\ UNCHANGED <<pc, lru, flight, inflight>>

BeginProduce(r) ==
    LET k == parts[r][idx[r]]
    IN /\ ready[k] = NoFlight /\ inflight[k] = NoFlight
       /\ inflight' = [inflight EXCEPT ![k] = <<r, idx[r]>>]
       /\ flight' = [flight EXCEPT ![<<r, idx[r]>>].st = "submit"]
       /\ Goto(r, "submit")
       /\ UNCHANGED <<idx, pending, lru>>

BeginPrepare(r) ==
    /\ pc[r] = "begin" /\ idx[r] <= Len(parts[r])
    /\ ~Interrupted(r)
    /\ BeginHit(r) \/ BeginJoin(r) \/ BeginProduce(r)
    /\ UNCHANGED <<parts, error, taken, signal, claimed, queue, ready, retained>>

\* The control check before a part throws: go and drain what was begun.
BeginInterrupted(r) ==
    /\ pc[r] = "begin" /\ idx[r] <= Len(parts[r])
    /\ Interrupted(r)
    /\ Fail(r, InterruptKind(r))
    /\ Goto(r, "await")
    /\ idx' = [idx EXCEPT ![r] = 1]
    /\ UNCHANGED <<parts, pending, taken, signal, claimed, flight, queue, cacheVars>>

AllBegun(r) ==
    /\ pc[r] = "begin" /\ idx[r] > Len(parts[r])
    /\ Goto(r, "await")
    /\ idx' = [idx EXCEPT ![r] = 1]
    /\ UNCHANGED <<parts, pending, error, taken, signal, claimed, flight, queue, cacheVars>>

\* HostWorkerPool::enqueue(): poll for room in the queue, with the worker control
\* as checkpoint.
Submit(r) ==
    LET f == <<r, idx[r]>>
    IN /\ pc[r] = "submit"
       /\ ~Stopped(r)
       /\ Len(queue) < QueueCapacity
       /\ queue' = Append(queue, f)
       /\ flight' = [flight EXCEPT ![f].st = "queued"]
       /\ pending' = [pending EXCEPT ![r] = Append(@, [hit |-> FALSE, f |-> f])]
       /\ Advance(r)
       /\ Goto(r, "begin")
       /\ UNCHANGED <<parts, error, taken, signal, claimed, cacheVars>>

\* The checkpoint throws: the flight is finished with the error under its own
\* mutex, then taken out of inflight under the state mutex.
SubmitFails(r) ==
    LET f == <<r, idx[r]>>
    IN /\ pc[r] = "submit"
       /\ Stopped(r)
       /\ flight' = [flight EXCEPT ![f].st = "failed", ![f].err = StopKind(r)]
       /\ Goto(r, "submit_failed")
       /\ UNCHANGED <<parts, idx, pending, error, taken, signal, claimed, queue, cacheVars>>

AbandonFlight(r) ==
    LET f == <<r, idx[r]>>
    IN /\ pc[r] = "submit_failed"
       /\ inflight' = [inflight EXCEPT ![Key(f)] = NoFlight]
       /\ Fail(r, flight[f].err)
       /\ Goto(r, "await")
       /\ idx' = [idx EXCEPT ![r] = 1]
       /\ UNCHANGED <<parts, pending, taken, signal, claimed, flight, queue, ready, lru, retained>>

(* Mutant: the interrupted part is not waited for again. *)
AwaitNoDrain(r) ==
    /\ pc[r] = "await" /\ idx[r] <= Len(pending[r])
    /\ error[r] = NoError /\ Interrupted(r)
    /\ Fail(r, InterruptKind(r))
    /\ Advance(r)
    /\ UNCHANGED <<parts, pc, pending, taken, signal, claimed, flight, queue, cacheVars>>

\* The control is checked while the part is not done (only before the first error:
\* afterwards the control is empty); process() then waits again without control,
\* because a builder may still use its locals.
AwaitInterrupted(r) ==
    /\ pc[r] = "await" /\ idx[r] <= Len(pending[r])
    /\ error[r] = NoError /\ Interrupted(r)
    /\ Fail(r, InterruptKind(r))
    /\ Goto(r, "drain")
    /\ UNCHANGED <<parts, idx, pending, taken, signal, claimed, flight, queue, cacheVars>>

Drain(r) ==
    /\ pc[r] = "drain"
    /\ pending[r][idx[r]].hit \/ Done(pending[r][idx[r]].f)
    /\ Advance(r)
    /\ Goto(r, "await")
    /\ UNCHANGED <<parts, pending, error, taken, signal, claimed, flight, queue, cacheVars>>

\* await() returns or throws.  A flight's error is rethrown to every request that
\* joined it.  A payload counts against the aggregate limits once per part.
PreparedBytes(r, i) == MapThenSumSet(LAMBDA j : Bytes[parts[r][j]], 1 .. i)
(* Mutant: flight->error is not looked at. *)
AwaitIgnoringError(r) ==
    LET p == pending[r][idx[r]]
    IN /\ pc[r] = "await" /\ idx[r] <= Len(pending[r])
       /\ p.hit \/ Done(p.f)
       /\ taken' = [taken EXCEPT ![r] = IF error[r] = NoError THEN @ \cup {p.f} ELSE @]
       /\ Advance(r)
       /\ UNCHANGED <<parts, pc, pending, error, signal, claimed, flight, queue, cacheVars>>

Await(r) ==
    LET p == pending[r][idx[r]]
        failure == IF p.hit THEN NoError ELSE flight[p.f].err
    IN /\ pc[r] = "await" /\ idx[r] <= Len(pending[r])
       /\ p.hit \/ Done(p.f)
       /\ \/ /\ error[r] = NoError /\ failure = NoError
             /\ PreparedBytes(r, idx[r]) <= MaxRequestBytes
             /\ taken' = [taken EXCEPT ![r] = @ \cup {p.f}]
             /\ UNCHANGED error
          \/ /\ error[r] = NoError /\ failure = NoError
             /\ PreparedBytes(r, idx[r]) > MaxRequestBytes
             /\ Fail(r, "budget")
             /\ UNCHANGED taken
          \/ /\ failure # NoError
             /\ Fail(r, failure)
             /\ UNCHANGED taken
          \/ /\ error[r] # NoError /\ failure = NoError
             /\ UNCHANGED <<error, taken>>
       /\ Advance(r)
       /\ UNCHANGED <<parts, pc, pending, signal, claimed, flight, queue, cacheVars>>

(* Mutant: the payloads taken before the error stay referenced. *)
UnwindKeepsPayloads(r) ==
    /\ pc[r] = "await" /\ idx[r] > Len(pending[r])
    /\ Goto(r, IF error[r] = NoError THEN "encode" ELSE "over")
    /\ pending' = [pending EXCEPT ![r] = IF error[r] = NoError THEN @ ELSE <<>>]
    /\ UNCHANGED <<parts, idx, error, taken, signal, claimed, flight, queue, cacheVars>>

\* Everything is drained.  With an error process() unwinds, which gives back the
\* permit and every reference; otherwise it resets the permit and goes on.
Unwind(r) ==
    /\ pc[r] = "await" /\ idx[r] > Len(pending[r])
    /\ IF error[r] = NoError
       THEN Goto(r, "encode") /\ UNCHANGED <<pending, taken>>
       ELSE /\ Goto(r, "over")
            /\ pending' = [pending EXCEPT ![r] = <<>>]
            /\ taken' = [taken EXCEPT ![r] = {}]
    /\ UNCHANGED <<parts, idx, error, signal, claimed, flight, queue, cacheVars>>

\* Expansion, tokenization and positions: the prompt is returned with its payloads,
\* or a control check or the context limit throws.
Encode(r) ==
    /\ pc[r] = "encode"
    /\ pending' = [pending EXCEPT ![r] = <<>>]
    /\ \/ /\ ~Interrupted(r)
          /\ Goto(r, "engine")
          /\ UNCHANGED <<error, taken>>
       \/ /\ Interrupted(r)
          /\ Goto(r, "over")
          /\ Fail(r, InterruptKind(r))
          /\ taken' = [taken EXCEPT ![r] = {}]
       \/ /\ r \in Rejectable
          /\ Goto(r, "over")
          /\ Fail(r, "invalid")
          /\ taken' = [taken EXCEPT ![r] = {}]
    /\ UNCHANGED <<parts, idx, signal, claimed, flight, queue, cacheVars>>

\* The engine is done with the prompt: the payload references die with it.
ReleasePrompt(r) ==
    /\ pc[r] = "engine"
    /\ Goto(r, "over")
    /\ taken' = [taken EXCEPT ![r] = {}]
    /\ UNCHANGED <<parts, idx, pending, error, signal, claimed, flight, queue, cacheVars>>

\* The client cancels or the deadline passes.
Signal(r) ==
    /\ pc[r] \notin {"engine", "over"}
    /\ \E s \in Signals \ signal[r] : signal' = [signal EXCEPT ![r] = @ \cup {s}]
    /\ UNCHANGED <<parts, pc, idx, pending, error, taken, claimed, flight, queue, cacheVars>>

(***************************************************************************)
(* The pool threads.                                                       *)
(***************************************************************************)
TaskGoto(f, label) == flight' = [flight EXCEPT ![f].st = label]
TaskFails(f, kind, keep) ==
    flight' = [flight EXCEPT ![f] = [st |-> "publish", err |-> kind, built |-> @.built /\ keep]]

\* worker_loop(): an idle thread takes the front of the queue.
Dequeue ==
    /\ queue # <<>>
    /\ Cardinality(Active) < Threads
    /\ queue' = Tail(queue)
    /\ TaskGoto(Head(queue), "claim")
    /\ UNCHANGED <<procVars, claimed, cacheVars>>

\* Decode, then ConcurrentMediaBudget::claim().
Claim(f) ==
    LET r == Owner(f)
        total == claimed[r] + Bytes[Key(f)]
    IN /\ flight[f].st = "claim"
       /\ ~Stopped(r)
       /\ claimed' = [claimed EXCEPT ![r] = total]
       /\ IF total <= MaxRequestBytes /\ Bytes[Key(f)] <= LiveLimit
          THEN TaskGoto(f, "reserve")
          ELSE TaskFails(f, "budget", FALSE)
       /\ UNCHANGED <<procVars, queue, cacheVars>>

\* allocate_payload(): reserve; when the account is full drop one cache entry, or
\* wait a little, and try again.
Reserve(f) ==
    /\ flight[f].st = "reserve"
    /\ ~Stopped(Owner(f))
    /\ IF Fits(Bytes[Key(f)])
       THEN flight' = [flight EXCEPT ![f].st = "build", ![f].built = TRUE]
       ELSE TaskGoto(f, "evict")
    /\ UNCHANGED <<procVars, claimed, queue, cacheVars>>

(* Mutant: an evicted entry is taken to have freed enough. *)
EvictAndTake(f) ==
    /\ flight[f].st = "evict"
    /\ IF lru = <<>>
       THEN TaskGoto(f, "reserve") /\ UNCHANGED <<lru, ready, retained>>
       ELSE /\ flight' = [flight EXCEPT ![f].st = "build", ![f].built = TRUE]
            /\ Evict(Len(lru) - 1)
    /\ UNCHANGED <<procVars, claimed, queue, inflight>>

(* Mutant: with an empty cache the builder waits for an entry, not for bytes. *)
EvictOrWait(f) ==
    /\ flight[f].st = "evict"
    /\ lru # <<>>
    /\ TaskGoto(f, "reserve")
    /\ Evict(Len(lru) - 1)
    /\ UNCHANGED <<procVars, claimed, queue, inflight>>

EvictOne(f) ==
    /\ flight[f].st = "evict"
    /\ TaskGoto(f, "reserve")
    /\ IF lru = <<>> THEN UNCHANGED <<lru, ready, retained>> ELSE Evict(Len(lru) - 1)
    /\ UNCHANGED <<procVars, claimed, queue, inflight>>

\* The builder returned and the control check after it passed: offer the payload to
\* the cache.
Build(f) ==
    /\ flight[f].st = "build"
    /\ ~Stopped(Owner(f))
    /\ TaskGoto(f, "publish")
    /\ Retain(f)
    /\ UNCHANGED <<procVars, claimed, queue, inflight>>

\* A control check throws, inside the builder (which drops its payload) or after it
\* (the payload then stays with the flight).
StopTask(f) ==
    /\ flight[f].st \in {"claim", "reserve", "build"}
    /\ Stopped(Owner(f))
    /\ \E keep \in {FALSE, flight[f].st = "build"} : TaskFails(f, StopKind(Owner(f)), keep)
    /\ UNCHANGED <<procVars, claimed, queue, cacheVars>>

\* The decoder rejects the media, before or after the allocation.
RejectMedia(f) ==
    /\ Owner(f) \in Rejectable
    /\ flight[f].st \in {"claim", "build"}
    /\ TaskFails(f, "invalid", FALSE)
    /\ UNCHANGED <<procVars, claimed, queue, cacheVars>>

(* Mutant: the key is erased before the flight is done. *)
PublishErased(f) ==
    /\ flight[f].st = "publish"
    /\ TaskGoto(f, "erase")
    /\ inflight' = [inflight EXCEPT ![Key(f)] = NoFlight]
    /\ UNCHANGED <<procVars, claimed, queue, ready, lru, retained>>

\* done is set under the flight mutex, the key is erased under the state mutex.
Publish(f) ==
    /\ flight[f].st = "publish"
    /\ TaskGoto(f, "erase")
    /\ UNCHANGED <<procVars, claimed, queue, cacheVars>>

Erase(f) ==
    /\ flight[f].st = "erase"
    /\ TaskGoto(f, "over")
    /\ inflight' = [inflight EXCEPT ![Key(f)] = NoFlight]
    /\ UNCHANGED <<procVars, claimed, queue, ready, lru, retained>>

Process(r) ==
    \/ AcquireRequest(r) \/ BeginPrepare(r) \/ BeginInterrupted(r) \/ AllBegun(r)
    \/ Submit(r) \/ SubmitFails(r) \/ AbandonFlight(r)
    \/ AwaitInterrupted(r) \/ Drain(r) \/ Await(r) \/ Unwind(r) \/ Encode(r)

Task(f) ==
    \/ Claim(f) \/ Reserve(f) \/ EvictOne(f) \/ Build(f) \/ StopTask(f) \/ Publish(f) \/ Erase(f)

Next ==
    \/ \E r \in Requests : Process(r) \/ RejectPolicy(r) \/ ReleasePrompt(r) \/ Signal(r)
    \/ Dequeue
    \/ \E f \in Flights : Task(f) \/ RejectMedia(f)

Spec == Init /\ [][Next]_vars

\* Every thread runs, and the engine finishes every prompt it was given.
FairSpec ==
    /\ Spec
    /\ \A r \in Requests : WF_vars(Process(r)) /\ WF_vars(ReleasePrompt(r))
    /\ WF_vars(Dequeue)
    /\ \A f \in Flights : WF_vars(Task(f))
-----------------------------------------------------------------------------
(***************************************************************************)
(* Properties.                                                             *)
(***************************************************************************)

\* The books of the cache agree after any mix of hits, insertions and evictions:
\* the LRU list names each ready entry once, retained_bytes is their size,
\* --media-cache-mib bounds it, an entry is a finished build of its key, and
\* --media-live-mib bounds every payload something still refers to, however cache
\* entries, pins, joined flights and prepared prompts overlap (MemoryAccount).
CacheAgrees ==
    /\ Live <= LiveLimit
    /\ Len(lru) = Cardinality(ToSet(lru))
    /\ ToSet(lru) = {k \in Keys : ready[k] # NoFlight}
    /\ retained = MapThenSumSet(LAMBDA k : Bytes[k], ToSet(lru))
    /\ retained <= RetainLimit
    /\ \A k \in ToSet(lru) :
          /\ Key(ready[k]) = k
          /\ flight[ready[k]].built /\ flight[ready[k]].err = NoError

\* Single flight: every unfinished flight is the one inflight names for its key, so
\* no key is built twice at once and the erase by key at the end of a task removes
\* the task's own flight, never a successor's.
OneFlightPerKey ==
    \A f \in Flights :
        \/ flight[f].st \in Running \cup {"submit", "queued"}
        \/ flight[f].st = "failed" /\ pc[Owner(f)] = "submit_failed"
        => inflight[Key(f)] = f

\* A builder uses the request's bytes, policy, budget and control by reference, so
\* process() must not return while a task of its own can still run them, whatever
\* error, cancellation or deadline ends the preparation.
NoDanglingBuilder ==
    \A f \in Flights :
        flight[f].st \in {"queued", "claim", "reserve", "evict", "build"}
            => pc[Owner(f)] \in Permitted

\* A prompt reaches the engine only with one live payload for each of its parts,
\* built without error for that part's key, even if the cache has evicted it.
PromptHasItsMedia ==
    \A r \in Requests :
        pc[r] \in {"encode", "engine"} =>
            /\ {Key(f) : f \in taken[r]} = ToSet(parts[r])
            /\ \A f \in taken[r] : Referenced(f) /\ flight[f].err = NoError

\* Once every request is over and the pool is idle only the cache holds bytes: no
\* error path leaves a payload behind that eviction could not free.
NoPayloadLeak ==
    (\A r \in Requests : pc[r] = "over") /\ queue = <<>> /\ Active = {}
        => Live = retained

\* Every preparation within its media budget ends, and gives its permit and payloads
\* back, although builders wait for memory inside the pool's threads and requests
\* wait for each other's flights.
PreparationEnds == \A r \in Requests : <>(pc[r] = "over")
=============================================================================
