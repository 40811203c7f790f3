# A TLA+ verification of the cinference engine

Cinference (built from NInfer) is a C++/CUDA inference engine for one GPU.  This
directory holds TLA+ models of the part of it that decides *which request runs
next, on which memory, and how it ends*: the engine core and its scheduler, the
request lifecycle, the accounting of outstanding requests, the staged prefill,
the store of recurrent state images and the context transactions over it, and of
two stateful services around the engine, the media preparation cache and the
store of OpenAI responses.  The models are checked by TLC on small instances, and
the safety of all of them except the context transactions is proved by TLAPS for
every value of their constants.  Everything is translated from the code under
`src/`; the module comments name the functions.

1. [The system](#1-the-system) — inventory of the components
2. [The modules](#2-the-modules) — how state and actions correspond to the code
3. [The runs](#3-the-runs) — what TLC checks, with bounds and fairness
4. [The proofs](#4-the-proofs) — what TLAPS proves, from what, and how
5. [Disagreements](#5-disagreements) — where the code does not do what its docs say
6. [Abstractions](#6-abstractions) — and what is not modelled
7. [Plan](#7-plan)

Paths below are relative to `src/src/` in the repository.

## 1. The system

A request passes through four layers.  The **gateway** (`serve/`, `apps/`)
accepts HTTP or CLI requests, limits how many are in flight and keeps the stored
responses of the OpenAI Responses API.  The **frontend**
(`models/qwen3_5/frontend/`) turns messages and media into a prepared prompt and
model tokens back into text, reasoning and tool calls.  The **engine**
(`runtime/engine/`) queues, admits, schedules and answers requests.  The
**program** (`models/qwen3_5/program/`) owns the device: it plans memory, moves
contexts between caches and lanes, prefills, decodes and commits.

| Component | State | Operations | Hard behaviour | Correct when |
|---|---|---|---|---|
| Request capacity and completion (`engine_core.h`, `request_record.h`) | `outstanding_`, `stopping_`, `failed_`, `pending_`; per request `response_done`, `consumer_released`, `capacity_released` | `submit`, `wait`, `abandon_request`, `release_consumer`, `mark_completed`, `complete_*`, `fail_all_locked`, destructor | client threads and worker use two different mutexes; either side may come last; failure between the two halves of `submit` | every unit of capacity is returned exactly once; no accepted request is forgotten |
| Worker loop and scheduler (`engine_core.h`, `scheduler.h`, `admission_policy.cpp`) | `slots_`, `materializing_`, `admission_check_pending_`, `prefill_lane_`, `fifo_head_id_`, `protection_` | the phases of `worker_loop`: expire, progress, settle, cancel, admit, execute | cancellation at any time; one asynchronous transaction whose end is unpredictable; coalesced admission check; backfill past a blocked head | one owner per request; no logic error is ever thrown; nobody starves |
| Generation budget and service work (`generation_budget.h`, `request_record.h`) | `remaining_`, `remaining_service_work` | admit, prefill unit, commit, control batch | three counters charged in four places | counters never underflow and agree |
| Output session (`frontend/output_session.cpp`) | thinking tracker, stop matcher, decoder | `preview_model`, `preview_control`, `commit_preview` | a multi-token round may cross the thinking budget, the output limit or a stop | model never thinks past its budget; control suffix always fits |
| Resource manager and context cache (`context_cache/resource_manager.h`) | `lanes_`, catalogue of cached contexts, open transaction | `inspect`, `reserve_*`, `progress`, `apply_commit`, `finish`, `abort` | engine and program must agree on who owns the transaction | lanes follow slots; memory never overcommitted |
| Materialization and capture planning (`context_cache/*planner*`) | search state | bounded search over eviction and reuse plans | planning budget, cost model | whatever it picks is safe |
| Request planning and staged prefill (`planning/request_plan.cpp`, `prefill.cpp`, `execution/vision.cpp`) | `staged`, vision session, `rebuild_work` | `plan_request`, `advance_prefill`, `prepare_chunk`, `advance_rebuild_work` | units are projected once and run much later by other code; chunks are cut by captures, rewrites and vision items at once | never more units than projected; every capture at its frontier; every chunk has its embeddings |
| State image store (`storage/state_store.h`) | images with role, replicas, references, pins; two slot pools | reserve, freeze, thaw, move, recycle, fork, split, drop, transfer, release | the meaning of a call depends on pins and pending transfers of others | no slot leaked or shared; no image stranded; a fork keeps its source |
| Context store and transactions (`storage/context.cpp`, `transactions/*.cpp`) | continuations, shared prefixes, lanes, the open transaction, copies in flight | start, capture, pressure, finish, cancel, discard, `fail_all_cleanup` | copies land later; abort at any phase after partial publication; a checkpoint may be recycled as the destination of its successor | a checkpoint always holds its own frontier; everything comes back |
| KV page store, paged KV, host arenas (`storage/kv_store.h`, `core/paged_kv_cache.cpp`, `core/host_kv_arena.cpp`) | page tables, reference counts, free spans | reserve, pin, release, copy | sharing by reference count | no page freed while shared |
| Speculative decoding, graphs | device buffers, draft state | decode, verify, commit | exact acceptance | committed tokens are the verified ones |
| Media preparation cache and host worker pool (`frontend/media_cache.cpp`, `frontend/processor.cpp`, `core/host_worker_pool.cpp`) | permits, flights, ready entries, LRU, live-byte account, job queue | `process`, `begin_prepare`, `finish_prepare`, build tasks, eviction | joiners inherit a producer's failure; builders wait for bytes inside workers; builders use the request's locals | bytes conserved; no dangling builder; every preparation ends |
| Tokenizer, chat template, tool call parser | none / parser state | pure text processing | streaming boundaries | round trip |
| Responses store (`serve/openai_responses_store.cpp`) | LRU of responses, reference-counted context nodes, byte total | put, get, erase | a parent vanishes between resolve and put; shared nodes | books exact; eviction minimal and in LRU order |
| Gateway (`serve/generation_service.cpp`, `serve/http_server.cpp`) | permits, connections | translate, stream | shutdown | – |
| Startup (`kv_capacity.cpp`), CUDA kernels, artifact tools | – | once, or per kernel | numerical | – |

`PROJECT.json` lists each with its status.  The interactions that matter:
clients share `queue_mutex_`, a per-request mutex and two atomics
(`Request::cancelled`, `admission_check_pending_`) with the single worker thread;
everything else in the engine is touched only by the worker.  The worker calls
`ResourceManager`, which calls the program; device transfers complete
asynchronously and are observed by polling.

## 2. The modules

    CapacityGate        abstract: a permit is taken once under a bound, returned once
      ^ implemented by
    RequestCapacity     two-mutex accounting between client threads and the worker
    OutputSession       operators: thinking budget, licensed tokens, control suffix
      ^ used by
    Generation          one request: budget, service work, thinking, to its answer
      ^ implemented, per request, by
    EngineCore          worker loop + scheduler + resource manager + clients

    Prefill             one prompt: projected units against the units that run
    StateStore          StateImageStore: operators on a store value, and the
      ^ extended by     specification that calls them in any order
    ContextState        lanes, continuations, shared prefixes, transactions
    MediaCache          request threads, pool threads, cache, live-byte account
    ResponsesStore      the Responses API store and its handlers

    Filter              erasing elements from a list (used by EngineCore, MediaCache
                        and ResponsesStore)

    MC*                 instances for TLC
    DataProofs          lemmas about sums, filtered lists and least elements
    RequestProofs       TLAPS proofs about RequestCapacity, Generation, ResponsesStore
    StateStoreProofs    ... about StateStore, and what its methods do to a catalogue
      ^ extended by
    ContextStoreProofs  ... about ContextState: sequences of store calls, the invariant,
      ^ extended by     the handlers that execute, finish, reserve, capture and abort
    ContextStateProofs  ... about ContextState: pressure, restoring, stop, the theorems
    EngineCoreProofs, MediaCacheProofs, PrefillProofs   ... about those modules

**RequestCapacity.**  Every action is one critical section, so a decision taken
under one mutex and carried out under the other is two steps.  `submit()` is
`SubmitReserve` (first critical section), then `SubmitBuildFails` or
`SubmitEnqueue` (second one, which checks `stopping_`/`failed_` again).
`release_consumer()` is `ReleaseConsumer` followed, when it decided to, by
`ClientReturnsCapacity`; a completion is `SetResponse`, `MarkCompleted`,
`WorkerReturnsCapacity`.  `FailAll` is the critical section of
`fail_all_locked()`; its answers are further `SetResponse` steps, and a request
answered before is skipped, as `complete_error()` does.  Queue order is
irrelevant here and abstracted to a set.

**CapacityGate** is the promise behind `max_outstanding`: `Acquire`, `Refuse`,
`Release` on one permit per request.  The mapping `Permit` calls a request's
permit held while it is in `Holders`.

**OutputSession** contains no state of its own: a session is the record of the
`SemanticThinkingState` fields the accounting reads.  Where in a round the
thinking phase closes and where a stop completes is text, and is chosen by the
caller; how many tokens are licensed, counted and refused is computed as in the
code.

**Generation** is the life of a single request record.  `Submit` includes
`validate_generation_capacity()`; `Admit` is the adoption of a published
materialization; `PrefillUnit`, `PrefillLast`, `DecodeRound` and `ControlBatch`
charge `budget` (`GenerationBudget::remaining_`) and `work`
(`remaining_service_work`) where the code does; `Interrupt` covers cancellation,
expiry and failure.

**EngineCore** is the worker loop.  `pc` is the phase:

| `pc` | code | actions |
|---|---|---|
| `top` | wait on `queue_cv_`, stop test | `Awake`, `Shutdown` |
| `expire` | `expire_pending_requests` | `ExpirePending` |
| `progress`, `admitted`, `captured` | `progress_context_transaction` from its three call sites | `ProgressNothing`, `ProgressAborts`, `ProgressPublishes`, `ProgressCompletesCapture` |
| `settle` | `settle_terminal_requests` | `SettleOne`, `SettleDone` |
| `cancel`, `start` | `snapshot_cancellations` + `cancel_active_requests`, twice per iteration | `CancelActive` |
| `decide` | `should_attempt_admission`, `consume_admission_check` | `Decide` |
| `admit`, `scan` | `try_admit_one`: head, then backfill candidates | `AdmitNone`, `AdmitRemovesHead`, `AdmitGrantsHead`, `AdmitBlocked`, `ScanRemoves`, `ScanSkips`, `ScanGrants`, `ScanDone` |
| `grant` | `admit_planned_request` | `GrantWithdrawn`, `GrantReserved` |
| `unit` | control batch or `choose_execution` | `RunControlBatch`, `RunPrefillUnit`, `RunPrefillLast`, `RunDecodeRound`, `RunNothing` |
| `exited` | after `fail_all_locked` | – |

Between any two phases the environment may `Submit`, raise the check (`Signal`,
a separate step because clients raise the atomic after they unlock), `Cancel`,
`Stop`, complete a transfer, or make the current call throw (`ProgramFails`).
A slot is the record of the fields of `RequestRecord` that the loop reads;
`slots[l].capture`/`post` are `capture_pending`/`post_capture_state`.  `lane` is
`ResourceManager::lanes_`, kept separately from `slots` because the code keeps
both and throws when they disagree.  `slots[l].epoch` is `backfill_epoch`, and
an epoch other than `NoEpoch` is `BackfillClass::Persistent`.

**Prefill** is `plan_request()`'s projection set against `advance_prefill()`.
The plan (reuse base, capture and rewrite frontiers, vision items, MTP) is chosen
in `Init`; `OfferAtBase`, `BeginUnit`, `RunChunk`, `SampleWithoutSuffix`,
`ResolveOffer` and `CommitBegin` are the steps of a prefill with the vision
session's `prepare_chunk()` and the release of encoded payloads inside them, and
`Extend` is `advance_rebuild_work()` in every later round.

**StateStore** has a pair of operators per method of `StateImageStore`: `CanX`,
the check the method makes, and `X`, the store it leaves.  A transfer or fork
capability the code passes around is represented by the pending fields of the
images it names.

**ContextState** extends it with what `ProgramImpl` keeps per continuation
(`seq`), per shared prefix (`shared`), the open transaction (`txn`), the contents
of every slot (`held`, a frontier) and the transfer stream (`flight`, a FIFO of
copies that land at any time).  A start is `ReserveStart`, then `Press` and
`PublishPressure` when room has to be made, `PrepareSource`, `PrepareStart`,
`PublishRestore`; a capture is `ReserveCapture`, pressure, `PrepareCapture`,
`PublishCapture`; `AbortStart` and `AbortCapture` may come at every phase at which
the code looks at the cancellation.  `Execute` is a unit of a lane and settles its
fork; `ExactHit` a start without a suffix; `Finish`, `Discard`, `Cancel` end a
sequence; `Stop` is `fail_all_cleanup()`.  The first check of a handler that
throws or terminates is recorded in `fault`.

**MediaCache** has one program counter per `process()` call (gate, begin, submit,
await, drain, encode, engine) and one state per flight (queued, claim, reserve,
evict, build, publish, erase).  `Publish` and the erase that follows are two
steps because they are two critical sections.  A payload is live while anything
refers to it, as the `shared_ptr` deleter implements it.

**ResponsesStore** treats the store as a value so that a `put()` can be a fold
over evictions; `Resolve` and `Put` of one response are two steps, with any
operation of other connections in between.  A parent is older than its child, so a
context is the set of its nodes, walked from the newest to the oldest.

## 3. The runs

| Run | Instance | Distinct states | Checks |
|---|---|---|---|
| `capacity` | 3 requests, bound 2 | 13,500 | `CapacityConserved`, `NoOrphan`, `ImplementsGate`, `FailureAnswersAll`, `CapacityReturns` |
| `generation` | all plans with ≤ 2 units, ≤ 8 tokens, thinking ≤ 4, rounds ≤ 3, suffix 2 | 3,359 | `WorkCovers`, `DecodeIsLicensed`, `ControlSuffixFits`, `ThinkingIsCapped` |
| `engine_core` | 3 requests, 2 lanes | 210,645 | `OneOwner`, `RecordsAgree`, `NoCancelledRow`, `AdmissionSeesLiveWork`, `ImplementsGeneration`, `EventuallyAnswered` |
| `engine_backfill` | 4 requests, 3 lanes | 1,505,453 | `DonorsAndBorrowers`, `BackfillIsHarmless`, `AdmissionFits` |
| `media_cache` | 2 requests, 3 keys, 2 pool threads | 3,117,557 | `OneFlightPerKey`, `NoDanglingBuilder`, `PromptHasItsMedia`, `NoPayloadLeak` |
| `media_live` | 3 requests, 3 keys, 1 pool thread, live limit of one request | 188,638 | `CacheAgrees`, `PreparationEnds` |
| `responses_store` | 4 responses, 3 records, 9 bytes | 21,690 | `NeverFaults`, `BooksExact`, `EvictsOnlyWhatItMust` |
| `prefill` | every plan of a 5-token prompt, chunk 2 | 477,246 | `UnitsAreProjected`, `CapturesAtTheirFrontier`, `ChunkHasItsEmbeddings`, `RebuildWorkIsExact`, `EncodesLivePayload`, `PrefillCompletes` |
| `context_state` | 2 lanes, 3 continuations, 1 shared prefix, 2 Device and 1 Host slots, 3 images | 318,217 | `NoLogicError`, `CheckpointsIntact`, `LanesReadTheirFrontier`, `ImagesOwned`, `StopReleasesAll`, `StoreSound`, `AbortKeepsSource` |
| `context_cancel`, `context_promotion`, `context_copies` | the same | – | one property each, violated: see [Disagreements](#5-disagreements) |

Deadlock checking is off in every run because the systems really may stop: the
clients have submitted all there is, the prompt is done, or the worker has exited.

**What they show.**  `capacity`: however clients and the worker interleave,
`outstanding_` equals the number of requests that still hold capacity, one of
the two threads returns each unit, a `submit()` that races with a failure is
rejected rather than orphaned, and a failure answers everyone.  `generation`: the
unsigned counters never wrap, the control suffix fits whenever it is due and a
request ready to decode always has a licensed token (else
`build_round_membership` throws).
`engine_core`: an accepted request is in exactly one of queue, materialization
and slot until it is answered, including when a call throws at any phase; the
open transaction always has its owner, lanes follow slots and the staged prefill
is exclusive (`RecordsAgree`), so none of the `logic_error`s about lost owners
can fire; each request, projected out of the interleaving, follows `Generation`;
and every accepted request is answered, which an admission check lost between
its consumption and a client's unlocked raise would prevent.  `NoCancelledRow`
shows that the branch of `commit_pending()` for rows cancelled at the start of
the unit is not taken: `cancel_active_requests()` has emptied those lanes, or the
snapshot is empty because a transaction is open.
`engine_backfill`: requests admitted past a blocked head leave room for it once
its donors are gone, across epochs closed by a head that expired; the memory of
active, materializing and just-granted requests fits although `inspect()` counts
active ones only, and the "blocked in an idle Engine" error is unreachable.
`media_cache`: a key is built once at a time although a flight is finished and
erased in two critical sections; no builder outlives the `process()` call whose
locals it captured, on any error, deadline or join; a prompt never reaches the
engine with a missing or failed payload; no error path keeps bytes.
`media_live`: with a live-byte account that one prompt fills, builders wait
inside the only pool thread for bytes that the cache or a prompt in the engine
holds, the account is never exceeded, and every preparation still ends.
`responses_store`: nodes shared between conversations are counted and charged
once however parents and children are stored, evicted and deleted; no put fails
half way; eviction is LRU and minimal.
`prefill`: however captures, rewrites, vision items and the MTP bridge cut the
suffix, no more units run than were charged, nothing is captured off its
frontier, a chunk needs one item's embeddings and has them, patches are released
only after their last encoding, and the incremental rebuild work equals a plan
from scratch.
`context_state`: with a Device pool too small for the retained contexts, so that
state is demoted, restored, forked and recycled, every published checkpoint holds
the state of its own frontier in every replica, each lane reads its own frontier,
references are exact, an aborted start leaves its source usable, `Stop` gives
everything back in whatever phase it comes, and none of the handlers' internal
checks fires.

**Bounds.**  Nothing is cut by a state constraint; what bounds a model is a named
constant in a guard (`MaxGenerated`, `MaxPos`, `MaxCopies`, `MaxRefs`) or the set
of inputs.  Three clients over a bound of two give two holders and one refused,
and every pair of threads that can race on one request.  `generation` enumerates
all plans, so every relation of thinking budget, suffix and output limit that the
validation distinguishes appears, including equality, and round widths both below
and above what is licensed.  In `engine_core` request 1 thinks, needs the control
suffix, may be captured and may be cancelled at any time; request 2, prefilled in
two units so that a capture may fall between them, does not fit beside it, and
request 3 can be admitted past 2.  In `engine_backfill` the blocked
head 2 leaves room for only one of 3 and 4, while both fit beside the donor 1, so
a proof that forgets a borrower is caught; 2 and 4 may expire, which closes an
epoch with a borrower active.  The properties concern at most one head, its
donors, one candidate and the earlier borrowers, and each of these roles is
filled.  Every request of these instances is feasible; the removal of an
infeasible one takes the same steps as that of an expired one.  `media_cache` has two prompts that share a key, one of them over its
budget, a queue of one task, and deadlines at any point; `media_live` has three
prompts, repeated and maximal parts, and one request whose input may be refused
by the resize policy, the decoder or the context limit.  Four responses make
chains of every shape up to four with room for three.  `prefill` takes every
placement of up to two captures, two rewrites, two planned captures and two items
in five tokens with a chunk of two, so frontiers coincide, touch chunk and item
boundaries, and fall on the reuse base and on the prompt's end; plans with many
rebuild boundaries are taken without media.  Two Device slots for two lanes and
the retained contexts force pressure on almost every start; continuations are
interchangeable and used as a symmetry set.

**Fairness.**  `EngineCore!FairSpec` assumes weak fairness of the worker (one
thread that never blocks outside `queue_cv_`, whose predicate is the guard of
`Awake`; the millisecond wait of `RunNothing` times out by itself), of the
transfers (device work ends) and of `Signal` (a client thread between two
statements runs on).  Nothing is assumed of deadlines, cancellation, failure or
shutdown: the answer must not depend on them.  `RequestCapacity!FairSpec` assumes
only that threads finish what they began: a client that is leaving, a worker in
the middle of a completion or of `fail_all_locked()`.  `MediaCache!FairSpec`
assumes that each request thread, each pool thread and the dispatch of queued
tasks run (they poll every 10 ms or are notified), and that the engine finishes a
prompt, which is `EventuallyAnswered`.  `Prefill!FairSpec` assumes that the worker
keeps running units of the request that owns the prefill lane.

**Mutants.**  For every property `PROJECT.json` names a plausible bug (an
operator marked `Mutant` beside the original: a dropped guard, an off-by-one, a
missing release) that makes TLC find it violated under the same configuration.

## 4. The proofs

The proofs are in modules of their own.  Their only hypotheses are the named
assumptions on each component's constants, which TLC evaluates in the component's
runs.  Every inductive invariant below was checked by TLC on the run's
instance before it was proved.

**RequestProofs** has the proofs about three modules.  About **RequestCapacity** it
assumes only `CapacityAssumption`: finitely many requests, a positive bound,
`NoRequest` not a request.

- `CapacityInvariantHolds`: `CapacitySpec => []CapacityInvariant`.  `CapacityConserved`
  is not inductive: that a decrement removes exactly one holder needs to know that
  the client and the worker are never both about to decrement for the same request
  (`OneThreadReleases`), that a worker between two locks has an answered request
  in hand (`WorkerHoldsAnswer`), and that only accepted requests are in the queue
  or with the worker.  The proof shows that each step keeps `Holders`, adds one
  new request or removes one (`HoldersStep`), and counts (`CountStep`).
- `CapacityConservedHolds`, `NoOrphanHolds`: the two invariants that matter.
- `CapacityImplementsGate`: `CapacitySpec => ImplementsGate`, the refinement of
  `CapacityGate`, from the same three kinds of step.

About **Generation** it assumes `PlanAssumption` and `ControlAssumption`: positive
units, output and suffix lengths, natural thinking budgets; the set of plans and
the round width are arbitrary.

- `IInvHolds`: `GenerationSpec => []IInv`.  The strengthening is `PlanIsValid` (what
  `submit()` validated is still true), `OpenThinking` (while the thinking phase is
  open every token spent was a thinking token, so the budget is the plan's output
  minus the thinking count) and `ControlMatchesPhase`.  Without `OpenThinking`
  nothing connects the validation at submission with the budget left when the
  suffix falls due many rounds later.
- `AccountingCovers` (types, hence no underflow, and `WorkCovers`),
  `ThinkingIsCappedHolds`, `ControlSuffixFitsHolds`, `DecodeIsLicensedHolds`.

About **ResponsesStore** it assumes `StoreAssumption`: finitely many responses, positive
limits and sizes.

- `StoreInvariant`: `Spec => []SInv`.  A context is characterised as the least set that
  holds its response and the parents of its nodes (`Up`), which replaces induction
  along the chain.  Because chains are linear, entering or erasing a record changes the
  count of each node from the newest shared one up by exactly one (`EnterTop`,
  `EraseTop`), which is what `retain_context_locked()` and `release_context_locked()`
  do; the charge follows.  `Ordered` (a parent is answered before its child arrives)
  is needed because a parent may be erased between `Resolve` and `Put`: its node must
  still be older than the child's.
- `BooksExactHolds`; `NeverFaultsHolds`, where `PutKeeps` shows that with all others
  erased the new record's charge is exactly what the size check compared; and the
  action property `EvictsOnlyWhatItMustHolds`.

**StateStoreProofs** assumes `StoreAssumption`: finitely many images, `None`
outside the slots and images.  The numbers of images and of slots are arbitrary.

- `StoreInvariant`: `StoreSpec => []SoundNow`, that is, `Sound` of the store.  None of
  the three parts of `StoreSound` is inductive: that a release cannot take a fork's source needs to
  know that a source is pinned, that is, that `source_pins` counts exactly the
  forks and the one transfer that read the image (`PinsExact`), and what an image
  of each role may look like (`Shapes`: only immutable images are referenced or
  pinned, a pending replica is pinned and has its partner, ...).  Every method
  rewrites one image or two and moves slots between them and a pool; `UpdateOne`
  and `UpdateTwo` state once when such an update keeps the invariant, and one
  lemma per method (`ReleaseKeeps`, `SplitKeeps`, `AbortHostForkKeeps`, ...) checks
  those local conditions.
- `SlotsNeverLeak`, `ImagesStayResident`, `ForksKeepTheirSource`, together
  `StoreIsSound`; and `StoreWellTyped` (no count below zero).  `StoreSpec` calls
  the methods in any order their own checks allow.  `Sound` is a predicate on a store
  value and the lemmas are about values too, so that the proofs about `ContextState`
  can use them on the stores in the middle of a handler.

**ContextStoreProofs** and **ContextStateProofs** assume `StoreAssumption` and
`ContextAssumption`: finitely many continuations and shared prefixes, slots and images
numbered, Device and Host slots apart.  The numbers of continuations, prefixes, lanes,
images and slots, the longest frontier and the number of copies under way are
arbitrary.

- `ContextInvariant`: `Spec => []CInv`.  While no transaction is open, `Consistent`
  relates store, catalogue, prefixes and slot contents: a sequence is bound in one of
  four ways (`Headless`, `Endpoint`, `Writer`, `Forker`), every replica of a named
  image holds the frontier it is named for, an image has as many references as names,
  and no name is shared that must not be.  An open transaction breaks all of this on
  purpose: it has frozen, pinned, forked, recycled and reserved images the catalogue
  does not know of.  The invariant therefore says that the state is an *overlay*
  (`Opened`): there are a store `s` and a catalogue `Q`, consistent with each other,
  from which the transaction, by its kind and phase, made the current ones.  Those are
  the store and the catalogue an abort gives back, so every `Abort` case is a
  computation: the undo calls, applied to the overlay, return exactly `s` and `Q`.
  Each phase also carries its *promise* (`StartReserved` ... `CaptureCopying`): the
  resources the later phases take are free once the pressure the transaction waits for
  has been applied; this is what makes the checks of the later handlers pass, because
  no other step can take those resources while a transaction is open.  `Awaited` and
  `FlightTo` say where the copies in flight go: the copy a phase waits for is the last
  of the FIFO, and every other one writes to a free Host slot, so a late landing
  disturbs no checkpoint.
- `HandlersNeverThrow`, `StopGivesAllBack`: `NoLogicError` and `StopReleasesAll`.
  `fail_all_cleanup()` releases best effort, so the second needs that every release it
  attempts is allowed in the order it attempts them, from every phase.
- `CheckpointsStayIntact`, `LanesReadOwnFrontier`, `ImagesAreOwned`,
  `TransactionsKeepStoreSound`: the other four invariants of the run, read off the
  overlay phase by phase.
- `AbortsKeepTheirSource`: the action property.  Among the steps that close a
  materialization without a lane only `AbortStart` remains (`ClosesByAbort`), and it
  restores `s`, where the selected image is consistent.

The proof goes from the bottom up: what an edit of one sequence, prefix or image does
to `Consistent`; the effect of each store method on the fields of the images; the
compositions the handlers make of them (release, demote, restore, split, snapshot,
branch, park); one lemma per handler and phase; the invariant.  TLC cannot enumerate
the stores of `Opened`; `CInv` was checked on the run's instance with the store of the
overlay computed from the transaction by undoing it.

**DataProofs** has the lemmas about data that several proofs need: sums over finite
sets (`SumAdd`, `SumRemove`, `SumSplit`, `SumImage`), the list that `Without` leaves
(`WithoutKeeps`, `WithoutLast`), least and greatest elements.  Sums and `Without` are
recursive functions.  The provers cannot apply an induction rule, so what these
functions compute is proved from a smallest counterexample: a subset of least
cardinality (`SmallestSubset`) or a least index (`LeastNatural`).

**EngineCoreProofs** assumes `EngineAssumption`: finitely many requests, identified by
positive numbers in publication order, positive demands, valid plans.  The numbers of
requests and lanes, the demands, the capacity, the round width and the control suffix
are arbitrary.

- `EngineInvariant`: `Spec => []IInv`, with one lemma per action.  The parts lean on
  each other.  `Owners` (each unanswered request is in one place) needs `Agree` (the
  materialization, the capture, the lane states and the staged prefill describe one
  transaction) and `Boundary` (what the worker has established on its way to each
  phase, for instance that a grant still names a queued request when it is consumed).
  `Agree` needs `Rows`, the phase of every row with its budget and its work, because a
  request whose work ran out before its budget would leave its lane at another place
  than the code expects.  The partition into donors and borrowers needs `Sched`:
  epochs in use are older than the next one, and no donor returns to the queue.  And
  `Room`, the memory promised to a protected head, is a sum over sets of requests that
  `Owners` keeps disjoint.
- `OneOwnerHolds`, `RecordsAgreeHolds`, `NoCancelledRowHolds`,
  `AdmissionSeesLiveWorkHolds`, `DonorsAndBorrowersHolds`, `BackfillIsHarmlessHolds`,
  `AdmissionFitsHolds`: the seven invariants of the two engine runs.  The last also
  says that a feasible head always fits an idle engine.

**MediaCacheProofs** assumes `MediaAssumption`: finitely many requests, keys and
prompts, and a request limit within the live limit, as the constructor checks.

- `MediaInvariant`: `Spec => []IInv`.  `Tasks` says which payload a task owns in each
  state, which tasks a request has begun, and that a task that may still run its
  builder is awaited by its own request; `Single` that `inflight` names the one
  unfinished task of a key; `Calls` what each `process()` call has in hand; `Books` that
  index, list and retained bytes agree; `Account` that the live bytes are within their
  limit.  That a drained call leaves no builder needs the position in the pending list
  of every task that still runs (`Awaited`), which no property mentions.
- `OneFlightPerKeyHolds`, `NoDanglingBuilderHolds`, `PromptHasItsMediaHolds`,
  `CacheAgreesHolds`, `NoPayloadLeakHolds`.

**PrefillProofs** assumes `PlanAssumption`, what submission and planning guarantee of a
plan: frontiers inside the prompt, captures not before the reuse base, vision items in
order and, as an MTP prefill reads them, disjoint.

- `PrefillInvariant`: `Spec => []IInv`.  The heart is `Budget`, a potential: what has
  run plus the chunks of the segments ahead never exceeds the charge, where a unit that
  is under way counts once however often vision items or captures cut it (`Within`).
  `Captures` tracks the frontiers that are still due, `Vision` which item is resident
  and which payloads may be gone, `Rebuild` splits the rebuild work into the settled
  segments and a tail that every commit advances.
- `UnitsAreProjectedHolds`, `CapturesAtTheirFrontierHolds`,
  `ChunkHasItsEmbeddingsHolds`, `RebuildWorkIsExactHolds`, and the action property
  `EncodesLivePayloadHolds`.  The proof of the first shows more than the property: the
  units that run stay within the charge for segments and for the promotion at the
  base, so the unit `projected_service_work()` adds per vision item is never needed.

**Only model-checked.**  All liveness properties, because fairness is outside the
prover's reach.  `ImplementsGeneration`, because tlapm does not support an instance
with parameters; the budget facts of `Generation` that the engine depends on are
proved again for its rows (`Rows`).

## 5. Disagreements

Three runs are expected to be violated; each shows the code doing something its
documentation rules out.  `PROJECT.json` quotes the lines.

- `context_cancel` (`CancelIsConsumed`): publish a capture and see the owner's
  cancellation in the same iteration.  The capture's fork is pending until the
  lane's next unit, `can_clear_lane_strict()` refuses the lane, and the resource
  manager turns the refused abort into an exception that fails every request.
- `context_promotion` (`PromotionReserves`): a start from a *retained* source
  leaves the lane's fork pending; the zero-prefill promotion of the reuse base is
  offered before a unit could settle it, and the reservation throws.
- `context_copies` (`CopiesKeepTheirSlots`): a capture cancelled while its Host
  snapshot is in flight returns the destination slot before the copy has landed.
  `CheckpointsIntact` holds nevertheless, because every later use of the slot is
  ordered behind the copy on the single transfer stream.

In the model the first two are recorded in `fault` and end the behaviour there,
as they end the engine, so the other properties are about everything before them.

Two further observations were made while modelling `MediaCache`.
`finish_prepare()` rethrows the producer's error to every joined request,
`Cancelled` included, so a request nobody cancelled can be answered as cancelled.
And a part answered by a hit or a join is not claimed from the request's media
budget, so a prompt over its budget with one such part may wait in its own builder
for bytes it holds itself, until its deadline; `PreparationEnds` is therefore
stated for prompts within their budget.

## 6. Abstractions

What the models leave out on purpose, and why it is sound for what is checked:

- **Memory** is one pool.  `Demand`/`Capacity` stand for the vector
  `PhysicalResources`; cached contexts are evictable and take no room.  The
  planner's search budget never makes a feasible root plan fail
  (`materialization_budget.h`: work needed for correctness is not cancelled), so
  `Fits` is the arithmetic condition.  Whether `active_entitlement` in
  `persistent_backfill_safe()` covers shared prefix pages is a listed hazard that
  this abstraction cannot see.
- **Plans** carry the number of prefill units that run; `PrefillProofs` proves that
  `projected_service_work()` is an upper bound of it, and `Generation` needs only
  that (`WorkCovers`).  A throw of `ensure_base_plan()` is handled like
  infeasibility, as in the code.
- **`resource_revision`** is not modelled: no resource changes while a single
  thread plans, proves and grants, so a stale grant and the `Stale` and early
  `Aborted` results of `reserve_materialization()` do not arise.  `bad_alloc` from
  `generated.reserve()` is left out; it is handled like a withdrawn grant.
- **`try_admit_one()`** reads its queue snapshot atomically with the decision; a
  submission between the two looks like one that came after.  Request ids are the
  publication order, fixed in the first critical section of `submit()`, so the
  queue need not be in id order.
- **`fail_all_locked()`** is one step in `EngineCore`, and is split into its
  critical sections in `RequestCapacity`.
- **Cancellation** raised after the answer has no reader and is not modelled.  A
  materialization aborts iff the flag is up at its final check; a capture always
  returns its owner to the recorded state.
- **Time** is nondeterministic: a deadline in `Expirable` may or may not have
  passed whenever it is looked at.
- **Text, statistics, streaming and timings** are left out.  The accepted count of
  a commit equals the processed one; a thinking budget of zero is rejected by the
  session's constructor, so 0 can stand for "none".
- **Dead branches.**  The cancelled rows of `commit_pending()` and the
  `terminal_in_batch` skip with a capture in the same batch (captures are offered
  to the single row of the last prefill unit) are not reached and not modelled.

- **Prefill**: a token is its position, capture groups are the set of their
  frontiers, whether an offer is taken or skipped does not change the prefill.
- **StateStore**: a slot is its identity; generations, content epochs and transfer
  ids, which guard against stale handles the model does not have, are left out.
- **ContextState**: one state slot per sequence and no long anchors; no KV pages;
  a transaction carries at most one pressure option; the planner's choice is any
  choice that passes the planner's own restrictions; the store hands out its least
  free image and slot; a free slot contains `Junk`, so any read of it shows.
- **MediaCache**: pixels are sizes; the aggregate limits on patches and vision
  tokens, all proportional to the size, are one byte limit; the token-count-only
  path, which takes a permit and nothing else, is left out.
- **ResponsesStore**: the two context nodes `terminal_context()` appends per
  response are one node, because only the second is referred to again.

**Not modelled.**  `PROJECT.json` gives the reason for each part.  The CUDA
kernels, the graphs and the loaders, most of the repository's lines, are numerical
work without control state.  The tokenizer, the chat template, stop strings,
UTF-8 assembly and the tool call parser are text processing whose correctness is a
matter of strings a finite model would not cover.  The gateway translates
protocols around `submit()`/`wait()`; its permit gate repeats `CapacityGate`.  The
KV page store, the paged cache and the host arenas are sequential allocators and
stay on the plan, because the pages a shared prefix pins decide the one hazard no
property covers.  Prompt lookup and the alignment of MTP drafts change how wide a
round is, which is a free choice here.

## 7. Plan

1. **KV pages**: `KvPageStore`'s references and copy-on-write over the paged cache,
   in the style of `StateStore`, then beside the state images in `ContextState`;
   shared prefix pages in `persistent_backfill_safe()`.
2. **Prompt lookup** and stop strings as operators.
