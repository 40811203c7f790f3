----------------------------- MODULE ContextState -----------------------------
(***************************************************************************)
(* The model state a Program keeps for its contexts: active sequences,     *)
(* catalogued continuations and shared prefixes, and the context           *)
(* transactions that move state images between them                        *)
(* (program/storage/context.cpp, program/transactions/*.cpp and the state  *)
(* part of program/prefill.cpp).  Every handler is a composition of the    *)
(* StateImageStore methods of module StateStore.                           *)
(*                                                                         *)
(* What a slot contains is its frontier: the number of executed tokens     *)
(* whose recurrent state the slot holds.  Copies between the pools run on  *)
(* one transfer stream; they are submitted by a transaction and land, in   *)
(* order, at any later time.                                               *)
(*                                                                         *)
(* Abstractions.  One state slot per sequence and no long anchors          *)
(* (max_long_anchors_per_continuation = 0).  KV pages are left out.  The   *)
(* planner's choice of source, reuse path and pressure is any choice that  *)
(* fits; a transaction carries at most one pressure option.  The store     *)
(* hands out its least free image and slot.                                *)
(***************************************************************************)
EXTENDS StateStore, Sequences, FiniteSetsExt

CONSTANTS
    Conts,      \* continuation slots
    SharedSlots,   \* shared prefix slots
    Lanes,      \* max_concurrency
    MaxPos,     \* bound: the longest frontier
    MaxCopies   \* bound: no transaction starts over this many copies in flight

ASSUME ContextAssumption ==
    /\ Images \subseteq Nat /\ DevSlots \subseteq Nat /\ HostSlots \subseteq Nat
    /\ DevSlots \cap HostSlots = {}
    /\ IsFiniteSet(Conts) /\ IsFiniteSet(SharedSlots) /\ None \notin Conts \cup SharedSlots
    /\ Conts \cap SharedSlots = {}
    /\ Lanes \in Nat /\ MaxPos \in Nat /\ MaxCopies \in Nat

VARIABLES
    seq,      \* continuation_slots, continuation_states and the lanes' requests
    shared,   \* shared_prefix_slots and shared_prefix_states
    txn,      \* context_transaction_
    held,     \* what each slot contains
    flight,   \* copies submitted to the transfer stream and not yet landed
    fault     \* the first check that threw, and "stopped" after the cleanup

vars == <<store, seq, shared, txn, held, flight, fault>>

Slots == DevSlots \cup HostSlots

\* what a slot contains that nobody owns
Junk == MaxPos + 1

\* the contents of the slots after a step: a slot given back loses its own
Contents(h) ==
    [d \in Slots |-> IF d \in store'.freeDev \cup store'.freeHost THEN Junk ELSE h[d]]

FreeSeq ==
    [role |-> "Free", read |-> None, write |-> None, fork |-> FALSE,
     own |-> "Primary",       \* read_ownership
     rw |-> None, rwf |-> 0,  \* rewrite_state and its frontier
     pos |-> 0,               \* execution frontier
     valid |-> FALSE,         \* endpoint_valid
     refs |-> {},             \* shared_prefix_references
     stage |-> "idle",        \* prefill, decode, done: Lifecycle of the lane
     fresh |-> FALSE,         \* no prefill chunk has run yet
     offer |-> FALSE]         \* a capture may be offered at this frontier

EmptyPrefix == [role |-> "Free", img |-> None, f |-> 0, active |-> 0]

NoTxn == [kind |-> "none", phase |-> "idle"]

\* no pressure; a pressure option is [op, who, img]
NoPressure == [op |-> "none", who |-> None, img |-> None]

Least(S) == CHOOSE n \in S : \A m \in S : n <= m

FreeImages(s) == {h \in Images : s.img[h].role = "Free"}
NextImage(s) == Least(FreeImages(s))
NextDev(s) == Least(s.freeDev)
NextHost(s) == Least(s.freeHost)

Active == {c \in Conts : seq[c].role = "Active"}
Catalogued == {c \in Conts : seq[c].role = "Catalogued"}
Idle == txn.kind = "none"

HostOnly(o) == o.dev = None /\ o.host # None

(* has_unsettled_state_fork                                                *)
UnsettledFork == \E c \in Active : seq[c].fork

Bind(q, h) == [q EXCEPT !.read = h, !.write = h, !.fork = FALSE, !.own = "Primary"]

WithoutRewrite(q) == [q EXCEPT !.rw = None, !.rwf = 0]
WithoutEndpoint(q) == [Bind(q, None) EXCEPT !.valid = FALSE, !.pos = q.rwf]

\* a check that throws std::logic_error or calls std::terminate
Checked(ok) == fault' = IF ok THEN fault ELSE "logic"

-------------------------------------------------------------------------------
(* Releasing the images of a sequence.                                     *)

TryRelease(s, h) == IF h # None /\ CanRelease(s, h) THEN Release(s, h) ELSE s

DropReference(s, h) ==
    IF h # None /\ CanReleaseReference(s, h) THEN ReleaseReference(s, h) ELSE s

\* a checkpoint reference goes, and the image with its last one
DropCheckpoint(s, h) == TryRelease(DropReference(s, h), h)

OwnsRead(q) == q.own # "External"

(* The fork is aborted, the references go, then every image the sequence   *)
(* has the lifetime of.  A rewrite checkpoint in `bound` went with the     *)
(* binding.                                                                *)
Released(s, q, bound) ==
    LET s1 == IF q.fork THEN AbortFork(s, q.read, q.write) ELSE s
        s2 == DropReference(s1, q.rw)
        s3 == TryRelease(s2, q.write)
        s4 == IF OwnsRead(q) /\ q.read # q.write THEN TryRelease(s3, q.read) ELSE s3
    IN  IF q.rw \in bound THEN s4 ELSE TryRelease(s4, q.rw)

\* the images whose lifetime the binding owns
Owned(q) == {q.write} \cup (IF OwnsRead(q) THEN {q.read} ELSE {})

(* release_sequence_state_strict and release_active_sequence_state_strict  *)
ReleaseState(s, q) == Released(s, q, {q.read, q.write})

(* release_sequence_state, the best effort of fail_all_cleanup             *)
ReleaseBestEffort(s, q) == Released(s, q, Owned(q))

\* h was released, or another reference keeps it
Gone(s, h) == s.img[h].role = "Free" \/ s.img[h].refs > 0

ReleasedStrictly(s, q) ==
    \A h \in Owned(q) \cup ({q.rw} \ {q.read}) :
        h # None => Gone(ReleaseState(s, q), h)

(* release_active_shared_references                                        *)
Unborrow(sh, q) ==
    [x \in SharedSlots |-> IF x \in q.refs THEN [sh[x] EXCEPT !.active = @ - 1] ELSE sh[x]]

(* can_clear_lane_strict: only a borrowed source of a pending fork can be  *)
(* given back.                                                             *)
CanClearLane(s, q) ==
    /\ q.fork => q.own # "Primary" /\ CanAbortFork(s, q.read, q.write)
    /\ ReleasedStrictly(s, q)

(* release_shared_prefix_state_strict                                      *)
ReleasePrefix(s, x) == DropCheckpoint(s, shared[x].img)

CanReleasePrefix(s, x) ==
    /\ shared[x].active = 0
    /\ s.img[shared[x].img].refs = 1 => Quiet(s.img[shared[x].img])

-------------------------------------------------------------------------------
(* Execution.                                                              *)

(* settle_state_fork: the destination becomes the in-place writer, and the *)
(* source goes unless another owner or a checkpoint keeps it.              *)
SettleFork(s, q) ==
    IF ~q.fork THEN s
    ELSE LET t == CommitFork(s, q.read, q.write)
         IN  IF OwnsRead(q) /\ t.img[q.read].refs = 0 THEN TryRelease(t, q.read) ELSE t

Settled(q) == IF q.fork THEN Bind(q, q.write) ELSE q

CanSettle(s, q) == q.fork => Idle /\ CanCommitFork(s, q.read, q.write)

(* One prefill chunk or decode round of a lane, and its commit: the write  *)
(* image receives the next frontier, then the fork settles.                *)
Execute(c) ==
    LET q == seq[c]
    IN  /\ c \in Active /\ q.stage \in {"prefill", "decode"} /\ q.pos < MaxPos
        /\ txn.kind = "capture" => txn.lane # c
        /\ txn.phase # "ready"
        /\ \E next \in {q.stage, "decode", "done"} :
              seq' = [seq EXCEPT ![c] =
                        [Settled(q) EXCEPT !.pos = @ + 1, !.stage = next, !.fresh = FALSE,
                                           !.offer = q.stage = "prefill" /\ next # "done"]]
        /\ store' = SettleFork(store, q)
        /\ held' = Contents([held EXCEPT ![store.img[q.write].dev] = q.pos + 1])
        /\ Checked(CanSettle(store, q))
        /\ UNCHANGED <<shared, txn, flight>>

(* Mutant: the terminal Begin settles a fork it never executed.            *)
ExactHitNoCopy(c) ==
    LET q == seq[c]
    IN  /\ c \in Active /\ Idle /\ q.stage = "prefill" /\ q.fresh /\ q.pos > 0
        /\ \/ /\ seq' = [seq EXCEPT ![c].stage = "decode", ![c].fresh = FALSE, ![c].offer = FALSE]
              /\ UNCHANGED <<store, held, fault>>
           \/ /\ seq' = [seq EXCEPT ![c] = [Settled(q) EXCEPT !.stage = "done"]]
              /\ store' = SettleFork(store, q)
              /\ Checked(CanSettle(store, q))
              /\ held' = Contents(held)
        /\ UNCHANGED <<shared, txn, flight>>

(* A prompt that its source covers entirely: Begin samples from the        *)
(* source's hidden state and executes nothing.  A terminal Begin copies    *)
(* the source into the destination, then settles.                          *)
ExactHit(c) ==
    LET q == seq[c]
    IN  /\ c \in Active /\ Idle /\ q.stage = "prefill" /\ q.fresh /\ q.pos > 0
        /\ \/ /\ seq' = [seq EXCEPT ![c].stage = "decode", ![c].fresh = FALSE, ![c].offer = FALSE]
              /\ UNCHANGED <<store, held, fault>>
           \/ /\ seq' = [seq EXCEPT ![c] = [Settled(q) EXCEPT !.stage = "done"]]
              /\ store' = SettleFork(store, q)
              /\ held' = Contents(IF q.fork
                                  THEN [held EXCEPT ![store.img[q.write].dev] =
                                                        held[store.img[q.read].dev]]
                                  ELSE held)
              /\ Checked(CanSettle(store, q))
        /\ UNCHANGED <<shared, txn, flight>>

-------------------------------------------------------------------------------
(* The end of a sequence.                                                  *)

(* finish, of a lane whose request publishes its continuation: a rewrite   *)
(* checkpoint at the endpoint is the endpoint; the writer is frozen.       *)
Finish(c) ==
    LET q == seq[c]
        s == IF q.rw # None /\ q.rw = q.read THEN ReleaseReference(store, q.rw) ELSE store
        e == IF q.rw = q.read THEN WithoutRewrite(q) ELSE q
    IN  /\ c \in Active /\ Idle /\ q.stage = "done"
        /\ store' = IF s.img[q.read].role = "ActiveMutable" THEN Freeze(s, q.read) ELSE s
        /\ seq' = [seq EXCEPT ![c] = [e EXCEPT !.role = "Catalogued", !.valid = TRUE,
                                               !.refs = {}, !.stage = "idle", !.fresh = FALSE,
                                               !.offer = FALSE]]
        /\ shared' = Unborrow(shared, q)
        /\ Checked(/\ ~q.fork
                   /\ s.img[q.read].role = "ActiveMutable" => CanFreeze(s, q.read))
        /\ held' = Contents(held) /\ UNCHANGED <<txn, flight>>

(* clear_lane_strict, for an unpublished finish and for a cancelled lane.  *)
(* A lane that cannot be cleared is not consumed: ResourceManager::abort   *)
(* throws and the engine fails.                                            *)
ClearLane(c) ==
    /\ IF CanClearLane(store, seq[c])
       THEN /\ store' = ReleaseState(store, seq[c])
            /\ seq' = [seq EXCEPT ![c] = FreeSeq]
            /\ shared' = Unborrow(shared, seq[c])
            /\ UNCHANGED fault
       ELSE fault' = "abort" /\ UNCHANGED <<store, seq, shared>>
    /\ held' = Contents(held) /\ UNCHANGED <<txn, flight>>

Discard(c) == c \in Active /\ Idle /\ seq[c].stage = "done" /\ ClearLane(c)

(* Program::abort of a cancelled lane at a worker boundary.                *)
Cancel(c) == c \in Active /\ Idle /\ seq[c].stage \in {"prefill", "decode", "cancelled"} /\ ClearLane(c)

-------------------------------------------------------------------------------
(* Pressure: one option of one idle owner, applied before the transaction  *)
(* takes its own destinations.                                             *)

Placed(s, h) == h # None /\ Immutable(s.img[h]) /\ Quiet(s.img[h])

\* the images of an owner: a catalogued continuation or an unborrowed prefix
OwnerImages(w) ==
    (IF w \in Conts THEN {seq[w].read, seq[w].rw} ELSE {shared[w].img}) \ {None}

IdleOwner(w) ==
    IF w \in Conts THEN seq[w].role = "Catalogued"
                   ELSE shared[w].role = "Catalogued" /\ shared[w].active = 0

\* state_exclusive_to_sequence; for a prefix, its reference is the only one
Exclusive(w, h) ==
    store.img[h].refs = IF w \in SharedSlots \/ seq[w].rw = h THEN 1 ELSE 0

PressureOptions(spared, image) ==
    {NoPressure} \cup
    {v \in [op : {"evict", "dropEndpoint", "dropRewrite", "dropHost", "dropDevice", "demote"},
            who : (Conts \cup SharedSlots) \ spared, img : Images] :
        /\ IdleOwner(v.who)
        /\ v.img \in OwnerImages(v.who)
        /\ Placed(store, v.img)
        /\ v.op \in {"dropDevice", "demote"} => v.img # image /\ Exclusive(v.who, v.img)
        /\ LET o == store.img[v.img]
           IN  CASE v.op = "evict" -> v.img = Least(OwnerImages(v.who))
                 [] v.op = "dropEndpoint" -> v.who \in Conts /\ v.img = seq[v.who].read
                                             /\ seq[v.who].rw # None
                 [] v.op = "dropRewrite" -> v.who \in Conts /\ v.img = seq[v.who].rw
                                            /\ seq[v.who].valid
                 [] v.op \in {"dropHost", "dropDevice"} -> CanDropReplica(store, v.img)
                 [] v.op = "demote" -> o.dev # None /\ o.host = None /\ store.freeHost # {}}

\* the pressure phases up to the point where the copies are in flight
PressStore(s, v) ==
    CASE v.op = "none" -> s
      [] v.op = "evict" -> IF v.who \in Conts THEN ReleaseState(s, seq[v.who])
                                              ELSE ReleasePrefix(s, v.who)
      [] v.op = "dropEndpoint" -> TryRelease(s, v.img)
      [] v.op = "dropRewrite" -> DropCheckpoint(s, v.img)
      [] v.op = "dropHost" -> DropHostReplica(s, v.img)
      [] v.op = "dropDevice" -> DropDeviceReplica(s, v.img)
      [] v.op = "demote" -> BeginDeviceToHost(s, v.img, NextHost(s))

\* the destination waits for the slot of an evicted continuation
\* (root_waiting_for_victim)
WaitsForVictim(t, v) == t.kind = "start" /\ v.op = "evict" /\ v.who = t.dest

PressSeq(v) ==
    CASE v.who \in Conts /\ v.op = "evict" ->
            [seq EXCEPT ![v.who] = [FreeSeq EXCEPT
                !.role = IF WaitsForVictim(txn, v) THEN "Reserved" ELSE "Free"]]
      [] v.op = "dropEndpoint" -> [seq EXCEPT ![v.who] = WithoutEndpoint(@)]
      [] v.op = "dropRewrite" -> [seq EXCEPT ![v.who] = WithoutRewrite(@)]
      [] OTHER -> seq

PressShared(v) ==
    IF v.op = "evict" /\ v.who \in SharedSlots THEN [shared EXCEPT ![v.who] = EmptyPrefix]
                                            ELSE shared

\* the store when the option is published
PressedStore(s, v) ==
    IF v.op = "demote" THEN PublishDeviceToHost(PressStore(s, v), v.img, FALSE)
                       ELSE PressStore(s, v)

(* The phases HostReleases and CopyPreparation of a transaction.           *)
Press ==
    LET v == txn.pressure  s == PressStore(store, v)
    IN  /\ txn.kind # "none" /\ txn.phase = "reserved"
        /\ store' = s /\ seq' = PressSeq(v) /\ shared' = PressShared(v)
        /\ IF v.op = "demote"
           THEN /\ flight' = Append(flight, [from |-> s.img[v.img].dev, to |-> s.img[v.img].phost])
                /\ txn' = [txn EXCEPT !.phase = "pressing"]
           ELSE /\ txn' = [txn EXCEPT !.phase = "ready"]
                /\ UNCHANGED flight
        /\ Checked(\/ v.op = "none"
                   \/ /\ Placed(store, v.img) /\ IdleOwner(v.who)
                      /\ v.op = "evict" =>
                           IF v.who \in Conts THEN ReleasedStrictly(store, seq[v.who])
                                              ELSE CanReleasePrefix(store, v.who)
                      /\ v.op \in {"dropHost", "dropDevice"} => CanDropReplica(store, v.img))
        /\ held' = Contents(held)

(* Mutant: the demotion is published before its copy has landed.           *)
PublishPressureEarly ==
    /\ txn.kind # "none" /\ txn.phase = "pressing"
    /\ store' = PublishDeviceToHost(store, txn.pressure.img, FALSE)
    /\ txn' = [txn EXCEPT !.phase = "ready"]
    /\ held' = Contents(held) /\ UNCHANGED <<seq, shared, flight, fault>>

(* CopyPublication: context_completion_ is ready, so every copy landed.    *)
PublishPressure ==
    /\ txn.kind # "none" /\ txn.phase = "pressing" /\ flight = <<>>
    /\ store' = PublishDeviceToHost(store, txn.pressure.img, FALSE)
    /\ txn' = [txn EXCEPT !.phase = "ready"]
    /\ held' = Contents(held) /\ UNCHANGED <<seq, shared, flight, fault>>

(* The transfer stream: copies land in the order of their submission.      *)
CopyLands ==
    /\ flight # <<>>
    /\ held' = [held EXCEPT ![Head(flight).to] = held[Head(flight).from]]
    /\ flight' = Tail(flight)
    /\ UNCHANGED <<store, seq, shared, txn, fault>>

-------------------------------------------------------------------------------
(* Materialization: a request starts from nothing, from a retained source  *)
(* or from a consumed continuation.                                        *)

Selected(t) ==
    CASE t.path = "root" -> None
      [] t.path = "endpoint" -> seq[t.source].read
      [] t.path = "rewrite" -> seq[t.source].rw
      [] t.path = "shared" -> shared[t.source].img

\* reuse_base
Base(t) ==
    CASE t.path = "root" -> 0
      [] t.path = "endpoint" -> seq[t.source].pos
      [] t.path = "rewrite" -> seq[t.source].rwf
      [] t.path = "shared" -> shared[t.source].f

(* prepare_consumed_source: what lies beyond the base, or will not be      *)
(* kept, goes before the transaction reserves anything.                    *)
DropsEndpoint(t, q) == q.valid /\ q.pos > t.base
DropsRewrite(t, q) == t.path = "endpoint" /\ ~t.preserve /\ q.rw # None

ConsumedStore(s, t) ==
    LET q  == seq[t.source]
        s1 == IF DropsEndpoint(t, q) THEN TryRelease(s, q.read) ELSE s
    IN  IF DropsRewrite(t, q) THEN DropCheckpoint(s1, q.rw) ELSE s1

ConsumedSeq(t) ==
    LET q  == seq[t.source]
        q1 == IF DropsEndpoint(t, q) THEN WithoutEndpoint(q) ELSE q
    IN  IF DropsRewrite(t, q) THEN WithoutRewrite(q1) ELSE q1

(* Mutant: a consumed image is moved although a checkpoint still names it. *)
NeverForks(s, t) == FALSE

(* selected_state_requires_fork: a reference to the selected image remains *)
(* that the sequence does not give up.                                     *)
RequiresFork(s, t) ==
    /\ t.mode = "Consume"
    /\ s.img[Selected(t)].refs # IF t.path = "rewrite" /\ ~t.preserve THEN 1 ELSE 0

(* prepare_materialization: the image the active sequence will write, the  *)
(* restore of a source that is on the Host only.                           *)
Restores(s, t) == t.path # "root" /\ HostOnly(s.img[Selected(t)])
Splits(s, t) ==
    t.mode = "Retain" /\ t.path # "shared" /\ CanDropReplica(s, Selected(t))
NeedsImage(t) == t.mode # "Consume" \/ t.fork
NeedsDevice(s, t) == ~Splits(s, t) /\ (NeedsImage(t) \/ Restores(s, t))

Fits(s, t) ==
    /\ NeedsImage(t) => FreeImages(s) # {}
    /\ NeedsDevice(s, t) => s.freeDev # {}

PreparedStore(s, t) ==
    LET k == NextImage(s)  d == NextDev(s)  h == Selected(t)
    IN  CASE t.path = "root" -> ActivateReset(ReserveDestination(s, k, d), k)
          [] Restores(s, t) -> IF NeedsImage(t)
                               THEN BeginHostFork(ReserveLogicalDestination(s, k), h, k, d)
                               ELSE BeginHostToDevice(s, h, d)
          [] Splits(s, t) -> ReserveLogicalDestination(s, k)
          [] ~Restores(s, t) /\ ~Splits(s, t) /\ t.path # "root" ->
                IF NeedsImage(t) THEN ReserveDestination(s, k, d) ELSE s

Plans ==
    {t \in [kind : {"start"}, phase : {"reserved"}, dest : Conts,
            mode : {"Root", "Retain", "Consume"}, path : {"root", "endpoint", "rewrite", "shared"},
            source : Conts \cup SharedSlots \cup {None}, preserve : BOOLEAN,
            pressure : {NoPressure}, base : {0}, fork : {FALSE}, image : {None},
            restore : {FALSE}] :
        /\ (t.mode = "Root") = (t.path = "root")
        /\ (t.source = None) = (t.path = "root")
        /\ t.path \in {"endpoint", "rewrite"} =>
              /\ t.source \in Catalogued
              /\ IF t.path = "endpoint" THEN seq[t.source].valid ELSE seq[t.source].rw # None
        /\ t.path = "shared" => /\ t.mode = "Retain" /\ t.source \in SharedSlots
                                /\ shared[t.source].role = "Catalogued"
        /\ IF t.mode = "Consume" THEN t.dest = t.source
           ELSE seq[t.dest].role \in {"Free", "Catalogued"} /\ t.dest # t.source
        /\ t.preserve => t.mode = "Consume" /\ seq[t.source].rw # None}

(* reserve_materialization: no transaction and no unsettled fork, a lane   *)
(* and no other prefill.  The plan was made for the store that pressure    *)
(* will leave.  A free destination continuation is reserved.               *)
ReserveStart ==
    /\ Idle /\ ~UnsettledFork /\ Len(flight) < MaxCopies
    /\ Cardinality(Active) < Lanes
    /\ \A c \in Active : seq[c].stage # "prefill"
    /\ \E t \in Plans : \E v \in PressureOptions({t.source}, Selected(t)) :
          LET s == PressedStore(store, v)
              u == [t EXCEPT !.pressure = v, !.base = Base(t), !.fork = RequiresFork(s, t)]
          IN  /\ \/ t.mode = "Consume" \/ seq[t.dest].role = "Free"
                 \/ (\A c \in Conts : seq[c].role # "Free") /\ WaitsForVictim(t, v)
              /\ Fits(IF t.mode = "Consume" THEN ConsumedStore(s, u) ELSE s, u)
              /\ txn' = u
              /\ seq' = IF seq[t.dest].role = "Free" THEN [seq EXCEPT ![t.dest].role = "Reserved"]
                                                     ELSE seq
    /\ UNCHANGED <<store, shared, held, flight, fault>>

\* a lane that reads the selected image and writes another
ForkedFrom(s, q, t, own) ==
    [store |-> BeginFork(s, Selected(t), t.image),
     q     |-> [Bind(q, t.image) EXCEPT !.read = Selected(t), !.fork = TRUE, !.own = own],
     ok    |-> CanBeginFork(s, Selected(t), t.image)]

(* The retained branch of start_sequence: a source with a replica in each  *)
(* pool gives its Device one away, any other one is forked.                *)
ActivateRetained(s, q, t) ==
    IF Splits(s, t)
    THEN [store |-> SplitIdentity(s, Selected(t), t.image), q |-> Bind(q, t.image),
          ok |-> CanSplitIdentity(s, Selected(t), t.image)]
    ELSE ForkedFrom(s, q, t, "External")

(* activate_consumed_state: the image is moved, or forked when a reference *)
(* outlives the source.                                                    *)
ActivateConsumed(s, q, t) ==
    LET h == Selected(t)  owned == IF q.rw = h THEN 1 ELSE 0
    IN  IF t.image = None
        THEN [store |-> MoveToActive(s, h), q |-> Bind(q, h), ok |-> CanThaw(s, h)]
        ELSE LET f == ForkedFrom(s, q, t, IF owned = s.img[h].refs THEN "Lineage" ELSE "External")
             IN  [f EXCEPT !.ok = @ /\ s.img[h].refs # 0]

(* The binding of the new active sequence.                                 *)
Activation(s, q, t) ==
    IF t.path = "root" \/ (t.restore /\ t.image # None)
    THEN [store |-> s, q |-> Bind(q, t.image), ok |-> s.img[t.image].role = "ActiveMutable"]
    ELSE IF t.mode = "Retain" THEN ActivateRetained(s, q, t) ELSE ActivateConsumed(s, q, t)

\* a consumed rewrite checkpoint: the endpoint it supersedes is released, and
\* the reference too unless the checkpoint is preserved
SourceOf(s, t) ==
    IF t.mode # "Consume" THEN [store |-> s, q |-> FreeSeq, ok |-> TRUE]
    ELSE LET q  == seq[t.source]
             e  == t.path = "rewrite" /\ q.valid
             s1 == IF e THEN TryRelease(s, q.read) ELSE s
             d  == t.path = "rewrite" /\ ~t.preserve
         IN  [store |-> IF d THEN ReleaseReference(s1, q.rw) ELSE s1,
              q     |-> IF d THEN WithoutRewrite(q) ELSE q,
              ok    |-> /\ e => CanRelease(s, q.read)
                        /\ d => CanReleaseReference(s1, q.rw)]

(* start_sequence, the one publication point of a materialization: the     *)
(* continuation becomes active at the base.                                *)
Launch(s, t) ==
    LET from == SourceOf(s, t)
        act  == Activation(from.store, from.q, t)
    IN  /\ store' = act.store
        /\ seq' = [seq EXCEPT ![t.dest] =
                     [act.q EXCEPT !.role = "Active", !.pos = t.base, !.valid = FALSE,
                                   !.stage = "prefill", !.fresh = TRUE,
                                   !.offer = t.path \in {"endpoint", "rewrite"},
                                   !.refs = IF t.path = "shared" THEN {t.source} ELSE {}]]
        /\ shared' = IF t.path = "shared" THEN [shared EXCEPT ![t.source].active = @ + 1]
                                          ELSE shared
        /\ txn' = NoTxn
        /\ Checked(from.ok /\ act.ok)

(* prepare_consumed_source: the source gives up what the request will not  *)
(* use.  Cancellation is looked at once more after it.                     *)
PrepareSource ==
    /\ txn.kind = "start" /\ txn.phase = "ready"
    /\ IF txn.mode = "Consume"
       THEN LET q == seq[txn.source]  s == ConsumedStore(store, txn)
            IN  /\ store' = s
                /\ seq' = [seq EXCEPT ![txn.source] = ConsumedSeq(txn)]
                /\ Checked(/\ DropsEndpoint(txn, q) => Gone(s, q.read)
                           /\ DropsRewrite(txn, q) => Gone(s, q.rw))
       ELSE UNCHANGED <<store, seq, fault>>
    /\ txn' = [txn EXCEPT !.phase = "source"]
    /\ held' = Contents(held) /\ UNCHANGED <<shared, flight>>

(* prepare_materialization: it throws when the capacity or the fork that   *)
(* was planned is not what it finds.  When nothing has to be restored the  *)
(* sequence starts in the same call; otherwise the restore is submitted.   *)
PrepareStart ==
    LET s == PreparedStore(store, txn)
        k == IF NeedsImage(txn) THEN NextImage(store) ELSE None
        t == [txn EXCEPT !.image = k, !.restore = Restores(store, txn), !.phase = "restoring"]
        h == Selected(t)
    IN  /\ txn.kind = "start" /\ txn.phase = "source"
        /\ IF ~Fits(store, txn) \/ txn.fork # RequiresFork(store, txn)
           THEN fault' = "logic" /\ UNCHANGED <<store, seq, shared, txn, held, flight>>
           ELSE IF t.restore
           THEN /\ store' = s /\ txn' = t
                /\ flight' = Append(flight, [from |-> s.img[h].host,
                                             to |-> s.img[IF k = None THEN h ELSE k].pdev])
                /\ UNCHANGED <<seq, shared, held, fault>>
           ELSE /\ Launch(s, t)
                /\ held' = Contents(IF t.path = "root" THEN [held EXCEPT ![s.img[k].dev] = 0]
                                                    ELSE held)
                /\ UNCHANGED flight

\* publish_transfer and abort_transfer of the restore
RestoredStore(s, t) ==
    IF t.image = None THEN PublishHostToDevice(s, Selected(t), TRUE)
                      ELSE PublishHostFork(s, Selected(t), t.image)

(* Mutant: the aborted materialization forgets the transfer it began.      *)
UnrestoredNothing(s, t) == s

UnrestoredStore(s, t) ==
    IF t.image = None THEN AbortHostToDevice(s, Selected(t))
                      ELSE AbortHostFork(s, Selected(t), t.image)

(* publish_materialization_transfers, then the start.                      *)
PublishRestore ==
    /\ txn.kind = "start" /\ txn.phase = "restoring" /\ flight = <<>>
    /\ Launch(RestoredStore(store, txn), txn)
    /\ held' = Contents(held) /\ UNCHANGED flight

\* the store after release_materialization_staging
StagingReleased(s, t) ==
    CASE t.phase = "pressing" -> AbortDeviceToHost(s, t.pressure.img)
      [] t.phase = "restoring" -> TryRelease(UnrestoredStore(s, t), t.image)
      [] t.phase \in {"reserved", "ready", "source"} -> s

(* abort_transaction of a materialization: adopted at a stable boundary,   *)
(* after the copies in flight have landed.  What pressure and the source   *)
(* preparation have published stays.                                       *)
AbortStart ==
    /\ txn.kind = "start"
    /\ txn.phase \in {"pressing", "restoring"} => flight = <<>>
    /\ store' = StagingReleased(store, txn)
    /\ seq' = IF seq[txn.dest].role = "Reserved" THEN [seq EXCEPT ![txn.dest] = FreeSeq]
                                                  ELSE seq
    /\ txn' = NoTxn
    /\ held' = Contents(held) /\ UNCHANGED <<shared, flight, fault>>


-------------------------------------------------------------------------------
(* Active capture: the state at the lane's frontier becomes a rewrite      *)
(* checkpoint, a shared prefix or both, and the lane goes on.              *)

\* the store after the replaced shared prefix has been released
ReplacedStore(s, t) == IF t.repl THEN ReleasePrefix(s, t.prefix) ELSE s

(* inspect_capture: where the lane will go on writing.                     *)
Recycles(s, t) ==
    LET q == seq[t.lane]
    IN  t.priv /\ q.rw # None /\ q.rw # q.write /\ CanRecycle(s, q.rw)
Placement(s, t) ==
    IF Recycles(s, t) \/ ReplacedStore(s, t).freeDev # {} \/ HostSlots = {}
    THEN "DeviceFork" ELSE "HostSnapshot"

CaptureFits(s, t) ==
    LET r == ReplacedStore(s, t)
    IN  IF t.place = "HostSnapshot" THEN r.freeHost # {} /\ FreeImages(r) # {}
        ELSE t.recycle \/ (r.freeDev # {} /\ FreeImages(r) # {})

Captures(c) ==
    {t \in [kind : {"capture"}, phase : {"reserved"}, lane : {c}, priv : BOOLEAN,
            prefix : SharedSlots \cup {None}, repl : BOOLEAN, removed : {FALSE},
            place : {"none"}, recycle : {FALSE}, pressure : {NoPressure},
            source : {None}, dest : {None}] :
        /\ t.priv \/ t.prefix # None
        /\ seq[c].fresh => ~t.priv
        /\ t.prefix = None => ~t.repl
        /\ t.prefix # None =>
              IF t.repl THEN shared[t.prefix].role = "Catalogued" /\ CanReleasePrefix(store, t.prefix)
                        ELSE shared[t.prefix].role = "Free"}

(* reserve_active_capture_impl: with a fork of any lane still unsettled it *)
(* throws; otherwise the shared slot is reserved.                          *)
ReserveCapture(c) ==
    /\ c \in Active /\ Idle /\ seq[c].offer /\ seq[c].stage \in {"prefill", "decode"}
    /\ Len(flight) < MaxCopies
    /\ IF UnsettledFork
       THEN fault' = "reserve" /\ UNCHANGED <<seq, shared, txn>>
       ELSE /\ \E t \in Captures(c) :
               \E v \in IF t.prefix # None THEN PressureOptions({t.prefix}, None) ELSE {NoPressure} :
                  LET u == [t EXCEPT !.pressure = v, !.place = Placement(store, t),
                                     !.recycle = Recycles(store, t)]
                  IN  /\ CaptureFits(PressedStore(store, v), u)
                      /\ txn' = u
                      /\ shared' = IF t.prefix = None THEN shared
                                   ELSE [shared EXCEPT ![t.prefix].role =
                                           IF t.repl THEN "ReservedReplacement"
                                                     ELSE "ReservedCapture"]
            /\ seq' = [seq EXCEPT ![c].offer = FALSE]
            /\ UNCHANGED fault
    /\ UNCHANGED <<store, held, flight>>

\* publish_active_capture: what the store, the lane and the shared slot become
PublishedStore(s, t) ==
    LET q  == seq[t.lane]
        s1 == IF t.place = "HostSnapshot"
              THEN SplitIdentity(PublishDeviceToHost(s, t.source, TRUE), t.source, t.dest)
              ELSE s
        s2 == IF t.prefix # None THEN RetainReference(s1, t.source) ELSE s1
        s3 == IF t.priv /\ ~t.recycle THEN DropCheckpoint(s2, q.rw) ELSE s2
    IN  IF t.priv THEN RetainReference(s3, t.source) ELSE s3

PublishedSeq(q, t) ==
    LET q1 == IF t.place = "HostSnapshot" THEN Bind(q, t.dest) ELSE q
        q2 == IF t.priv THEN [q1 EXCEPT !.rw = t.source, !.rwf = q.pos] ELSE q1
    IN  IF t.prefix = None THEN q2 ELSE [q2 EXCEPT !.refs = @ \cup {t.prefix}]

Publish(s, q, t) ==
    /\ store' = PublishedStore(s, t)
    /\ seq' = [seq EXCEPT ![t.lane] = PublishedSeq(q, t)]
    /\ shared' = IF t.prefix = None THEN shared
                 ELSE [shared EXCEPT ![t.prefix] =
                         [role |-> "Catalogued", img |-> t.source, f |-> q.pos, active |-> 1]]
    /\ txn' = NoTxn

(* prepare_active_capture: the replaced prefix goes, the destination is    *)
(* taken, the lane's image is frozen and, for a Device fork, the lane is   *)
(* bound to read it and write the destination.  Without a copy to wait for *)
(* the capture is published in the same call.                              *)
PrepareCapture ==
    LET q  == seq[txn.lane]
        s0 == ReplacedStore(store, txn)
        k  == IF txn.recycle THEN q.rw ELSE NextImage(s0)
        s1 == CASE txn.place = "HostSnapshot" -> ReserveLogicalDestination(s0, k)
                [] txn.place = "DeviceFork" /\ txn.recycle -> Recycle(s0, k)
                [] txn.place = "DeviceFork" /\ ~txn.recycle ->
                      ReserveDestination(s0, k, NextDev(s0))
        s2 == Freeze(s1, q.write)
        s3 == IF txn.place = "HostSnapshot" THEN BeginDeviceToHost(s2, q.write, NextHost(s2))
                                            ELSE BeginFork(s2, q.write, k)
        b  == IF txn.place = "HostSnapshot" THEN q
              ELSE [q EXCEPT !.read = q.write, !.write = k, !.fork = TRUE]
        t  == [txn EXCEPT !.source = q.write, !.dest = k, !.removed = txn.repl, !.phase = "copying"]
    IN  /\ txn.kind = "capture" /\ txn.phase = "ready"
        /\ Checked(/\ CaptureFits(store, txn) /\ ~q.fork
                   /\ txn.repl => CanReleasePrefix(store, txn.prefix)
                   /\ txn.recycle => CanRecycle(s0, k)
                   /\ CanFreeze(s1, q.write))
        /\ \/ /\ txn.place = "DeviceFork"
              /\ Publish(s3, b, t)
              /\ UNCHANGED flight
           \/ /\ txn.place = "HostSnapshot" \/ txn.prefix # None
              /\ store' = s3
              /\ seq' = [seq EXCEPT ![txn.lane] = b]
              /\ shared' = IF txn.repl
                           THEN [shared EXCEPT ![txn.prefix] =
                                   [EmptyPrefix EXCEPT !.role = "ReservedCapture"]]
                           ELSE shared
              /\ txn' = t
              /\ flight' = IF txn.place = "HostSnapshot"
                           THEN Append(flight, [from |-> s3.img[q.write].dev,
                                                to |-> s3.img[q.write].phost])
                           ELSE flight
        /\ held' = Contents(held)

(* publish_active_capture, once the copies are complete.                   *)
PublishCapture ==
    /\ txn.kind = "capture" /\ txn.phase = "copying" /\ flight = <<>>
    /\ Publish(store, seq[txn.lane], txn)
    /\ held' = Contents(held) /\ UNCHANGED <<flight, fault>>

(* Mutant: the aborted capture does not restore the recycled checkpoint.   *)
UncapturedNoRestore(s, t) ==
    IF t.phase # "copying" THEN s
    ELSE LET s1 == IF t.place = "HostSnapshot" THEN AbortDeviceToHost(s, t.source)
                                               ELSE AbortFork(s, t.source, t.dest)
         IN  Thaw(TryRelease(s1, t.dest), t.source)

\* abort_active_capture: the store, the lane's binding and the shared slot
Uncaptured(s, t) ==
    IF t.phase # "copying" THEN s
    ELSE LET s1 == IF t.place = "HostSnapshot" THEN AbortDeviceToHost(s, t.source)
                                               ELSE AbortFork(s, t.source, t.dest)
             s2 == IF t.recycle THEN RestoreRecycled(s1, t.dest) ELSE TryRelease(s1, t.dest)
         IN  Thaw(s2, t.source)

UncapturedSeq(q, t) == IF t.phase = "copying" THEN Bind(q, t.source) ELSE q

UncapturedPrefix(sh, t) ==
    CASE t.prefix = None -> sh
      [] t.prefix # None /\ t.repl /\ ~t.removed -> [sh EXCEPT ![t.prefix].role = "Catalogued"]
      [] t.prefix # None /\ (t.repl => t.removed) -> [sh EXCEPT ![t.prefix] = EmptyPrefix]

(* The request was cancelled: the capture is aborted at the next progress  *)
(* call, even while its copies are in flight; the lane is then cancelled.  *)
AbortCapture ==
    /\ txn.kind = "capture" /\ txn.phase \in {"reserved", "ready", "copying"}
    /\ store' = Uncaptured(store, txn)
    /\ seq' = [seq EXCEPT ![txn.lane] = [UncapturedSeq(@, txn) EXCEPT !.stage = "cancelled"]]
    /\ shared' = UncapturedPrefix(shared, txn)
    /\ Checked(txn.phase = "copying" => CanThaw(Uncaptured(store, txn), txn.source)
                                        \/ store.img[txn.source].role = "CheckpointImmutable")
    /\ txn' = NoTxn
    /\ held' = Contents(held) /\ UNCHANGED flight

-------------------------------------------------------------------------------
(* fail_all_cleanup, after a failure or when the engine stops: the open    *)
(* transaction is aborted after its copies, then the lanes, the other      *)
(* continuations and the shared prefixes go.                               *)
CleanupTxn(s) ==
    CASE txn.kind = "none" -> s
      [] txn.kind = "capture" -> IF txn.phase = "pressing"   \* ~StateImageTransfer
                                 THEN AbortDeviceToHost(s, txn.pressure.img)
                                 ELSE Uncaptured(s, txn)
      [] txn.kind = "start" -> StagingReleased(s, txn)

CleanupSeqs(s) ==
    LET state(c) == IF txn.kind = "capture" /\ c = txn.lane THEN UncapturedSeq(seq[c], txn)
                                                            ELSE seq[c]
        release(c, r) == ReleaseBestEffort(r, state(c))
    IN  FoldSet(release, FoldSet(release, s, Active), Catalogued)

CleanupShared(s) ==
    LET sh == IF txn.kind = "capture" THEN UncapturedPrefix(shared, txn) ELSE shared
        release(x, r) == IF Quiet(r.img[sh[x].img]) \/ r.img[sh[x].img].refs > 1
                         THEN DropCheckpoint(r, sh[x].img) ELSE r
    IN  FoldSet(release, s, {x \in SharedSlots : sh[x].role = "Catalogued"})

Stop ==
    /\ fault \notin {"stopped", "logic"}
    /\ store' = CleanupShared(CleanupSeqs(CleanupTxn(store)))
    /\ seq' = [c \in Conts |-> FreeSeq]
    /\ shared' = [x \in SharedSlots |-> EmptyPrefix]
    /\ txn' = NoTxn /\ flight' = <<>> /\ held' = [d \in Slots |-> Junk]
    /\ fault' = "stopped"

-------------------------------------------------------------------------------
Init ==
    /\ StoreInit
    /\ seq = [c \in Conts |-> FreeSeq]
    /\ shared = [x \in SharedSlots |-> EmptyPrefix]
    /\ txn = NoTxn /\ held = [d \in Slots |-> Junk] /\ flight = <<>> /\ fault = "none"

Step ==
    \/ \E c \in Conts : \/ Execute(c) \/ ExactHit(c) \/ Finish(c) \/ Discard(c) \/ Cancel(c)
                        \/ ReserveCapture(c)
    \/ ReserveStart \/ Press \/ PublishPressure
    \/ PrepareSource \/ PrepareStart \/ PublishRestore \/ AbortStart
    \/ PrepareCapture \/ PublishCapture \/ AbortCapture

Next ==
    \/ fault = "none" /\ (Step \/ CopyLands)
    \/ Stop

Spec == Init /\ [][Next]_vars

-------------------------------------------------------------------------------
(* None of the consistency checks the handlers make on the store, and none *)
(* of their std::terminate calls, ever fires: whatever the order of        *)
(* starts, captures, pressure, cancellations and releases, the image a     *)
(* handler froze, recycled, pinned or counted on earlier is still as it    *)
(* left it.                                                                *)
NoLogicError == fault # "logic"

Immutables(c) ==
    (IF seq[c].role = "Catalogued" /\ seq[c].valid THEN {<<seq[c].read, seq[c].pos>>} ELSE {})
    \cup (IF seq[c].rw # None THEN {<<seq[c].rw, seq[c].rwf>>} ELSE {})

Checkpoints ==
    (UNION {Immutables(c) : c \in Conts})
    \cup {<<shared[x].img, shared[x].f>> :
             x \in {y \in SharedSlots : shared[y].role \in {"Catalogued", "ReservedReplacement"}}}

(* Every published checkpoint (endpoint, rewrite checkpoint, shared        *)
(* prefix) still holds the state of its own frontier, in each replica it   *)
(* has: no lane writes it in place, no reused slot, aborted capture,       *)
(* demotion or restore leaves another frontier's state in it, and nothing  *)
(* releases it, thaws it or hands it to a lane.  Only a capture that       *)
(* recycles the rewrite checkpoint has it writable while it is open.       *)
CheckpointsIntact ==
    \A p \in Checkpoints :
        LET o == store.img[p[1]]
        IN  \/ /\ Immutable(o)
               /\ o.dev # None => held[o.dev] = p[2]
               /\ o.host # None => held[o.host] = p[2]
            \/ txn.kind = "capture" /\ txn.recycle /\ txn.dest = p[1]

(* The state an active lane will read next is the state of its own         *)
(* frontier.                                                               *)
LanesReadTheirFrontier ==
    \A c \in Active : held[store.img[seq[c].read].dev] = seq[c].pos

Holders(h) ==
    Cardinality({c \in Conts : seq[c].rw = h})
    + Cardinality({x \in SharedSlots : shared[x].img = h})

TxnImages ==
    IF txn.kind = "none" THEN {}
    ELSE IF txn.kind = "start" THEN {txn.image} ELSE {txn.source, txn.dest}

(* Reference counts are exact and no image leaks: a checkpoint has one     *)
(* reference per rewrite checkpoint and shared prefix that names it, the   *)
(* endpoint of a continuation and the images of a lane are owned by that   *)
(* sequence alone, and an image nobody names is free.  A shared prefix     *)
(* counts the lanes that borrow it, so it is not evicted under one.        *)
ImagesOwned ==
    /\ \A h \in Images :
          LET o == store.img[h]
              users == {c \in Conts : h \in Owned(seq[c])}
          IN  /\ o.refs = IF txn.kind = "capture" /\ txn.recycle /\ txn.dest = h THEN 0
                          ELSE Holders(h)
              /\ Cardinality(users) <= 1
              /\ o.role # "Free" => Holders(h) > 0 \/ users # {} \/ h \in TxnImages
              /\ o.role = "Free" => Holders(h) = 0 /\ users = {}
    /\ \A x \in SharedSlots :
          shared[x].active = Cardinality({c \in Active : x \in seq[c].refs})

(* An engine that stops, in whatever phase of whatever transaction, gives  *)
(* every image and slot back although each release is best effort.         *)
StopReleasesAll == fault = "stopped" => store = EmptyStore

(* An aborted materialization leaves its source usable: the selected       *)
(* checkpoint is still an immutable image with its own frontier's state.   *)
AbortKeepsSource ==
    [][(txn.kind = "start" /\ txn' = NoTxn /\ fault' = "none" /\ txn.path # "root"
            /\ seq'[txn.dest].role # "Active")
        => LET o == store'.img[Selected(txn)]
           IN  /\ Immutable(o) /\ Quiet(o)
               /\ o.dev # None => held[o.dev] = txn.base
               /\ o.host # None => held[o.host] = txn.base]_vars

-------------------------------------------------------------------------------
(* What the documentation promises and the code does not keep.             *)

(* engine-architecture.md, 7.2: an active request that is cancelled is     *)
(* released at the next stable boundary.  It can be cancelled right after  *)
(* its capture was published, with the capture's fork still pending.       *)
CancelIsConsumed == fault # "abort"

(* resource-scheduling-and-context-cache.md: the selected reuse base is    *)
(* promoted before the first model mutation.  A retained source leaves the *)
(* lane's fork pending at that point, and the reservation throws.          *)
PromotionReserves == fault # "reserve"

(* engine-architecture.md, 7.2: cancellation does not modify an in-flight  *)
(* mapping.  The slot a submitted copy will write stays reserved.          *)
CopiesKeepTheirSlots ==
    \A i \in DOMAIN flight : flight[i].to \notin store.freeDev \cup store.freeHost

===============================================================================
