-------------------------------- MODULE Prefill --------------------------------
(***************************************************************************)
(* The staged prefill of one admitted request: how request_plan.cpp        *)
(* projects its service units, how advance_prefill() really cuts the       *)
(* prompt suffix into chunks at capture frontiers, rewrite frontiers and   *)
(* vision items, and the rebuild work that decoding then extends.          *)
(*                                                                         *)
(* A token is its position in the prompt.  Capture groups are ordered and  *)
(* unique by frontier, so they are the set of their frontiers; the next    *)
(* group is the least one that is not resolved.                            *)
(***************************************************************************)
EXTENDS Integers, Sequences, FiniteSetsExt, Functions

CONSTANTS Plans,        \* admitted plans, see PlanAssumption
          Chunk,        \* prefill_chunk
          MaxGenerated  \* bound: tokens generated after the prompt

None == 0

(* VisionUseSpan of the items that the suffix still needs.  An MTP prefill reads
   the embedding of the token after each position, so the use starts one early. *)
UseBegin(p, i) == IF p.mtp /\ p.items[i].from # 0 THEN p.items[i].from - 1 ELSE p.items[i].from

ASSUME PlanAssumption ==
    /\ Chunk \in Nat \ {0}
    /\ MaxGenerated \in Nat
    /\ \A p \in Plans :
         /\ p.prompt \in Nat \ {0}             \* prompt_tokens
         /\ p.base \in 0 .. p.prompt           \* reuse_base
         /\ p.captures \subseteq 1 .. p.prompt \* frontiers of capture_groups
         /\ \A f \in p.captures : f >= p.base
         /\ p.rewrites \subseteq 1 .. p.prompt \* rewrite_execution_frontiers
         /\ p.planned \subseteq 1 .. p.prompt  \* private captures of the base plan
         /\ p.mtp \in BOOLEAN                  \* prepare_mtp
         /\ p.items \in Seq([from : Nat, to : Nat])
         /\ \A i \in DOMAIN p.items :          \* visual tokens [from, to)
              /\ p.items[i].from < p.items[i].to /\ p.items[i].to <= p.prompt
              /\ \A j \in 1 .. i - 1 : UseBegin(p, i) >= p.items[j].to

(* The items consumed by the suffix: those not entirely before the reuse base. *)
Used(p) == {i \in DOMAIN p.items : p.items[i].to > p.base}

ChunksFor(tokens) == (tokens + Chunk - 1) \div Chunk

(* segmented_prefill_chunks(): every frontier inside (begin, end) starts a new
   segment, and each segment is cut into chunks on its own. *)
SegmentedChunks(begin, end, frontiers) ==
    LET inside == {f \in frontiers : begin < f /\ f < end}
        ends == inside \cup {end}
        size == [e \in ends |-> ChunksFor(e - Max({begin} \cup {f \in inside : f < e}))]
    IN  IF begin >= end THEN 0 ELSE SumFunctionOnSet(size, ends)

(* Mutant: the promotion of a shared prefix at the reuse base is not projected. *)
ProjectedUnitsNoBase(p) ==
    (IF p.base = p.prompt THEN 1
     ELSE SegmentedChunks(p.base, p.prompt, p.captures \cup p.rewrites))
    + Cardinality(Used(p))

(* The prefill part of projected_service_work(). *)
ProjectedUnits(p) ==
    (IF p.base = p.prompt THEN 1
     ELSE SegmentedChunks(p.base, p.prompt, p.captures \cup p.rewrites))
    + Cardinality(p.captures \cap {p.base})
    + Cardinality(Used(p))

-----------------------------------------------------------------------------

VARIABLES plan,
          phase,      \* lifecycle of the request and progress of advance_prefill()
          cursor,     \* staged.cursor
          remaining,  \* tokens left in the current unit
          todo,       \* capture groups from staged.next_capture on
          offered,    \* <<frontier, cursor>> of every capture offer
          units,      \* service units consumed
          bridge,     \* staged.mtp_bridge = BeforeSuffix
          use,        \* VisionPrefillSession::next_use_
          active,     \* active_item_
          payloads,   \* items whose prepared patches are still held
          encoded,    \* encoded_payloads_pending_release_
          encoding,   \* the item encoded by the last step
          last,       \* the last chunk: [from, to, item]
          frontier,   \* sequence.execution_frontier
          chunks,     \* sequence.rebuild_work.chunks
          tail        \* sequence.rebuild_tail_begin

stagedVars == <<cursor, todo, offered>>
visionVars == <<use, active, payloads, encoded>>
rebuildVars == <<frontier, chunks, tail>>
vars == <<plan, phase, stagedVars, remaining, units, bridge, visionVars, encoding, last,
          rebuildVars>>

NoChunk == [from |-> 0, to |-> 0, item |-> None]

(* Mutant: rewrite frontiers do not move the start of the tail. *)
RebuildTailNoRewrites(p) == Max({0} \cup p.planned)

(* include_rebuild_boundary() over the planned captures and the rewrites. *)
RebuildTail(p) == Max({0} \cup p.planned \cup p.rewrites)

(* prepare_materialized_request(): the plan's suffix is staged. *)
Init ==
    /\ plan \in Plans
    /\ phase = "staged"
    /\ cursor = plan.base
    /\ remaining = 0
    /\ todo = plan.captures
    /\ offered = {}
    /\ units = 0
    /\ bridge = (plan.mtp /\ plan.base > 0 /\ plan.base < plan.prompt)
    /\ use = 1
    /\ active = None
    /\ payloads = DOMAIN plan.items
    /\ encoded = {}
    /\ encoding = None
    /\ last = NoChunk
    /\ frontier = 0
    /\ chunks = SegmentedChunks(0, plan.prompt, plan.planned \cup plan.rewrites)
    /\ tail = RebuildTail(plan)

NextCapture == Min(todo)

(* The next capture group is due at token f. *)
CaptureAt(f) == todo # {} /\ NextCapture = f

(* The first use that ends after `begin`, at or after the session's position. *)
UseAt(begin) ==
    LET later == {i \in Used(plan) : i >= use /\ plan.items[i].to > begin}
    IN  IF later = {} THEN Len(plan.items) + 1 ELSE Min(later)

(* VisionPrefillSession::prepare_chunk(): the item a chunk needs, or None. *)
ItemFor(begin, length) ==
    LET u == UseAt(begin)
    IN  IF u \in Used(plan) /\ UseBegin(plan, u) < begin + length THEN u ELSE None

(* Mutant: a chunk may run into the next item's use. *)
VisionEndUncut(begin, length) == begin + length

(* ...and its end, cut where the use of the following item begins. *)
VisionEnd(begin, length) ==
    LET u == ItemFor(begin, length)
        next == {UseBegin(plan, i) : i \in {j \in Used(plan) : j > u}}
    IN  IF u = None \/ next = {} THEN begin + length
        ELSE Min({begin + length, Min(next)})

(* Mutant: the session forgets which item its embeddings belong to. *)
PrepareForgets(begin, length) ==
    LET item == ItemFor(begin, length) IN
    /\ use' = UseAt(begin)
    /\ active' = (IF item = None THEN active ELSE item)
    /\ encoding' = item

(* An item is encoded once, when the first chunk needs it. *)
Prepare(begin, length) ==
    LET item == ItemFor(begin, length) IN
    /\ use' = UseAt(begin)
    /\ active' = (IF item = None THEN active ELSE item)
    /\ encoding' = (IF item = active THEN None ELSE item)

IsVisual(t) == \E i \in DOMAIN plan.items : plan.items[i].from <= t /\ t < plan.items[i].to

(* advance_prefill() at an unresolved capture: only a shared promotion at the
   reuse base can be there, and it is offered without model work. *)
OfferAtBase ==
    /\ phase = "staged"
    /\ CaptureAt(cursor)
    /\ phase' = "offer"
    /\ offered' = offered \cup {<<cursor, cursor>>}
    /\ units' = units + 1
    /\ encoding' = None
    /\ UNCHANGED <<plan, cursor, remaining, todo, bridge, visionVars, last, rebuildVars>>

(* A unit of suffix tokens begins.  The MTP bridge before the suffix needs the
   embedding of the token at the base, and encodes its item if that is visual. *)
BeginUnit ==
    /\ phase = "staged"
    /\ ~CaptureAt(cursor)
    /\ cursor < plan.prompt
    /\ phase' = "unit"
    /\ remaining' = Min({Chunk, plan.prompt - cursor})
    /\ bridge' = FALSE
    /\ IF bridge /\ IsVisual(cursor) /\ Used(plan) # {}
       THEN Prepare(cursor, 1) /\ encoded' = encoded \cup {encoding'}
       ELSE encoding' = None /\ UNCHANGED <<use, active, encoded>>
    /\ UNCHANGED <<plan, stagedVars, units, payloads, last, rebuildVars>>

(* Mutant: a chunk is not cut at a capture frontier. *)
TextLengthUncut ==
    LET splits == {f \in plan.rewrites : f > cursor}
    IN  IF splits = {} \/ Min(splits) <= cursor THEN remaining
        ELSE Min({remaining, Min(splits) - cursor})

(* The tokens that prefill_impl() takes before vision: up to the split frontier,
   the earlier of the next capture and the next rewrite frontier. *)
TextLength ==
    LET splits == {f \in plan.rewrites : f > cursor}
                  \cup (IF todo = {} THEN {} ELSE {NextCapture})
    IN  IF splits = {} \/ Min(splits) <= cursor THEN remaining
        ELSE Min({remaining, Min(splits) - cursor})

(* The end of the chunk that would run next. *)
ChunkEnd == VisionEnd(cursor, TextLength)

(* After a chunk: reaching a capture before the prompt's end offers it and ends
   the unit, the chunk that ends the prompt samples, a spent unit returns. *)
AfterChunk ==
    LET finalized == remaining' = 0 /\ cursor' = plan.prompt IN
    IF ~finalized /\ CaptureAt(cursor')
    THEN phase' = "offer" /\ offered' = offered \cup {<<NextCapture, cursor'>>}
    ELSE /\ phase' = IF finalized THEN "begun"
                     ELSE IF remaining' = 0 THEN "staged" ELSE "unit"
         /\ UNCHANGED offered

(* One chunk of a unit: its tokens run, the payloads of encoded items are
   released, and the cursor moves. *)
RunChunk ==
    /\ phase = "unit"
    /\ cursor' = ChunkEnd
    /\ remaining' = remaining - (ChunkEnd - cursor)
    /\ Prepare(cursor, TextLength)
    /\ last' = [from |-> cursor, to |-> ChunkEnd, item |-> ItemFor(cursor, TextLength)]
    /\ AfterChunk
    /\ payloads' = (IF phase' = "begun" THEN {} ELSE payloads \ (encoded \cup {encoding'}))
    /\ encoded' = {}
    /\ units' = units + (IF phase' = "unit" THEN 0 ELSE 1)
    /\ UNCHANGED <<plan, todo, bridge, rebuildVars>>

(* Mutant: a promotion at the prompt's end keeps the sample from being taken. *)
SampleWithoutCapture ==
    /\ phase = "staged"
    /\ plan.captures = {}
    /\ cursor = plan.prompt
    /\ phase' = "begun"
    /\ units' = units + 1
    /\ payloads' = {}
    /\ encoding' = None
    /\ UNCHANGED <<plan, stagedVars, remaining, bridge, use, active, encoded, last, rebuildVars>>

(* A reuse of the whole prompt samples from the retained hidden state. *)
SampleWithoutSuffix ==
    /\ phase = "staged"
    /\ ~CaptureAt(cursor)
    /\ cursor = plan.prompt
    /\ phase' = "begun"
    /\ units' = units + 1
    /\ payloads' = {}
    /\ encoding' = None
    /\ UNCHANGED <<plan, stagedVars, remaining, bridge, use, active, encoded, last, rebuildVars>>

(* skip_capture(), or a capture transaction that ends: the next group is due. *)
ResolveOffer ==
    /\ phase \in {"offer", "prompt_offer"}
    /\ todo' = todo \ {NextCapture}
    /\ phase' = IF phase = "offer" THEN "staged" ELSE "decode"
    /\ encoding' = None
    /\ UNCHANGED <<plan, cursor, offered, remaining, units, bridge, visionVars, last, rebuildVars>>

(* commit() of the first token: a capture at the prompt's end is offered now,
   unless the token ended the request. *)
CommitBegin(terminal) ==
    /\ phase = "begun"
    /\ frontier' = plan.prompt
    /\ IF CaptureAt(plan.prompt) /\ ~terminal
       THEN phase' = "prompt_offer" /\ offered' = offered \cup {<<NextCapture, cursor>>}
       ELSE phase' = (IF terminal THEN "over" ELSE "decode") /\ UNCHANGED offered
    /\ encoding' = None
    /\ UNCHANGED <<plan, cursor, todo, remaining, units, bridge, visionVars, last, chunks, tail>>

(* advance_rebuild_work(): a committed round, or an injected control suffix,
   extends the tail segment of the rebuild work. *)
Extend ==
    /\ phase = "decode"
    /\ \E n \in 1 .. MaxGenerated :
         /\ frontier + n <= plan.prompt + MaxGenerated
         /\ frontier' = frontier + n
         /\ chunks' = chunks - ChunksFor(frontier - tail) + ChunksFor(frontier' - tail)
    /\ encoding' = None
    /\ UNCHANGED <<plan, phase, stagedVars, remaining, units, bridge, visionVars, last, tail>>

Finish ==
    /\ phase = "decode"
    /\ phase' = "over"
    /\ encoding' = None
    /\ UNCHANGED <<plan, stagedVars, remaining, units, bridge, visionVars, last, rebuildVars>>

PrefillStep == OfferAtBase \/ BeginUnit \/ RunChunk \/ SampleWithoutSuffix \/ ResolveOffer
               \/ \E terminal \in BOOLEAN : CommitBegin(terminal)

Next == PrefillStep \/ Extend \/ Finish

Spec == Init /\ [][Next]_vars

(* The worker keeps running units of the request that owns the prefill lane. *)
FairSpec == Spec /\ WF_vars(PrefillStep)

-----------------------------------------------------------------------------
(* Properties. *)

(* However captures, rewrites and vision items cut the suffix, prefill never runs
   more units than projected_service_work() charged for it: one is left whenever
   another unit must run, or consume_service_work() throws. *)
UnitsAreProjected ==
    /\ units <= ProjectedUnits(plan)
    /\ phase \in {"staged", "unit", "offer"} => units < ProjectedUnits(plan)

(* No capture is overrun: the state is offered exactly when the cursor is at the
   capture's frontier, and when prefill is over every group has been offered,
   save one at the prompt's end that a terminal first token drops. *)
CapturesAtTheirFrontier ==
    /\ \A o \in offered : o[1] = o[2]
    /\ phase \in {"staged", "unit"} => \A f \in plan.captures : f < cursor => f \notin todo
    /\ phase = "decode" => {o[1] : o \in offered} = plan.captures /\ todo = {}

(* A chunk's visual tokens, and with MTP the token after each position too, all
   belong to the one item whose embeddings the chunk has. *)
ChunkHasItsEmbeddings ==
    \A i \in DOMAIN plan.items, t \in last.from .. last.to - 1 :
        \/ plan.items[i].from <= t /\ t < plan.items[i].to
        \/ plan.mtp /\ plan.items[i].from <= t + 1 /\ t + 1 < plan.items[i].to
        => last.item = i

(* The incremental rebuild work of a sequence that decodes is what planning its
   whole length from scratch would give. *)
RebuildWorkIsExact ==
    phase \in {"prompt_offer", "decode", "over"} =>
        chunks = SegmentedChunks(0, frontier, plan.planned \cup plan.rewrites)

(* An item is only encoded from a payload that has not been released. *)
EncodesLivePayload == [][encoding' # None => encoding' \in payloads]_vars

(* The first token is committed: no combination of frontiers stalls a prefill. *)
PrefillCompletes == <>(phase \in {"decode", "over"})
=============================================================================
