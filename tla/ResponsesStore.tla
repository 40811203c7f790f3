--------------------------- MODULE ResponsesStore ---------------------------
(***************************************************************************)
(* OpenAIResponsesStore and the handlers that use it.                      *)
(*                                                                         *)
(* A stored response is a record: an envelope and a context.  A context is *)
(* a chain of immutable nodes that a child response extends, so records of *)
(* one conversation share nodes; the store counts the references to each   *)
(* node and charges its bytes once.  terminal_context() appends two nodes  *)
(* per response, of which only the second is ever referred to again: here  *)
(* they are one node, named by its response.                               *)
(*                                                                         *)
(* A parent is older than its child, so a context is the set of its nodes, *)
(* walked from the newest to the oldest.                                   *)
(*                                                                         *)
(* A handler reads the parent's context when the request arrives and puts  *)
(* the child when the generation ends; the parent may be deleted or        *)
(* evicted in between.                                                     *)
(***************************************************************************)
EXTENDS Filter, FiniteSets, FiniteSetsExt, SequencesExt

CONSTANTS
    Ids,         \* response ids, in the order their requests arrive
    MaxRecords,  \* --response-store-max-records
    MaxBytes,    \* --response-store-max-mib
    Sizes        \* the sizes [envelope, owned] a response may have

ASSUME StoreAssumption ==
    /\ Ids \subseteq Nat \ {0} /\ IsFiniteSet(Ids)
    /\ MaxRecords \in Nat \ {0} /\ MaxBytes \in Nat \ {0}
    /\ Sizes \subseteq [envelope : Nat \ {0}, owned : Nat \ {0}]

NoId == 0

VARIABLES
    progress,   \* each request: new, generating, answered
    parent,     \* the response whose context the request extends
    size,       \* the sizes of its envelope and of its context node
    lru,        \* lru_, most recent first; its elements are the keys of records_
    refs,       \* live_context_references_; 0 for a node that is not in the map
    bytes,      \* current_bytes_
    fault       \* a logic_error, or a failure after the record was inserted

vars == <<progress, parent, size, lru, refs, bytes, fault>>

NoSize == [envelope |-> 0, owned |-> 0]

Init ==
    /\ progress = [i \in Ids |-> "new"]
    /\ parent = [i \in Ids |-> NoId]
    /\ size = [i \in Ids |-> NoSize]
    /\ lru = <<>>
    /\ refs = [i \in Ids |-> 0]
    /\ bytes = 0
    /\ fault = FALSE

Records == ToSet(lru)

\* The context of response i: its node, its parent's, and so on up to the root.
Chain(i) ==
    LET up[j \in Ids] == IF parent[j] = NoId THEN {j} ELSE {j} \cup up[parent[j]]
    IN up[i]

\* owned_bytes of some nodes; cumulative_bytes when they are a context.
ContextBytes(nodes, sz) == SumFunctionOnSet([n \in nodes |-> sz[n].owned], nodes)

(***************************************************************************)
(* The store as a value, so that put() can be a sequence of erasures.      *)
(***************************************************************************)
Store == [lru |-> lru, refs |-> refs, bytes |-> bytes, fault |-> fault]

(* Mutant: new nodes are entered, the live node they hang from is not counted. *)
RetainForgetsParent(s, chain, sz) ==
    LET top == Max({NoId} \cup {n \in chain : s.refs[n] # 0})
    IN [s EXCEPT !.bytes = @ + ContextBytes({n \in chain : n > top}, sz),
                 !.refs = [n \in Ids |-> IF n \in chain /\ (n > top \/ n = Max(chain))
                                         THEN s.refs[n] + 1 ELSE s.refs[n]]]

\* retain_context_locked(): enter the nodes newer than the newest live one with one
\* reference each and count one more on that one.
RetainContext(s, chain, sz) ==
    LET top == Max({NoId} \cup {n \in chain : s.refs[n] # 0})
    IN [s EXCEPT !.bytes = @ + ContextBytes({n \in chain : n > top}, sz),
                 !.refs = [n \in Ids |-> IF n \in chain /\ n >= top
                                         THEN s.refs[n] + 1 ELSE s.refs[n]]]

\* release_context_locked(): take nodes out while theirs is the last reference, and
\* count one less on the first that has others.
ReleaseContext(s, chain, sz) ==
    LET top == Max({NoId} \cup {n \in chain : s.refs[n] # 1})
        freed == ContextBytes({n \in chain : n > top}, sz)
    IN IF (top # NoId /\ s.refs[top] = 0) \/ s.bytes < freed
       THEN [s EXCEPT !.fault = TRUE]
       ELSE [s EXCEPT !.bytes = @ - freed,
                      !.refs = [n \in Ids |-> IF n \in chain /\ n >= top
                                              THEN s.refs[n] - 1 ELSE s.refs[n]]]

\* erase_locked()
EraseRecord(s, i, sz) ==
    LET t == ReleaseContext([s EXCEPT !.bytes = @ - sz[i].envelope], Chain(i), sz)
    IN IF s.bytes < sz[i].envelope
       THEN [s EXCEPT !.fault = TRUE]
       ELSE [t EXCEPT !.lru = Without(@, {i})]

WithinLimits(s) == Len(s.lru) <= MaxRecords /\ s.bytes <= MaxBytes

(* Mutant: put() erases from the wrong end. *)
PutEvictsRecent(s, i, sz) ==
    LET entered == RetainContext([s EXCEPT !.lru = <<i>> \o @, !.bytes = @ + sz[i].envelope],
                                 Chain(i), sz)
        after[n \in 0 .. Len(s.lru)] ==
            IF n = 0 THEN entered ELSE EraseRecord(after[n - 1], after[n - 1].lru[2], sz)
        enough == {n \in DOMAIN after : WithinLimits(after[n])}
    IN IF enough = {} THEN [entered EXCEPT !.fault = TRUE] ELSE after[Min(enough)]

\* put() after its checks: enter the record in front, charge it, then erase from the
\* tail, never the new record, until the limits hold.
PutRecord(s, i, sz) ==
    LET entered == RetainContext([s EXCEPT !.lru = <<i>> \o @, !.bytes = @ + sz[i].envelope],
                                 Chain(i), sz)
        after[n \in 0 .. Len(s.lru)] ==
            IF n = 0 THEN entered ELSE EraseRecord(after[n - 1], Last(after[n - 1].lru), sz)
        enough == {n \in DOMAIN after : WithinLimits(after[n])}
    IN IF enough = {} THEN [entered EXCEPT !.fault = TRUE] ELSE after[Min(enough)]

CommitStore(s) == lru' = s.lru /\ refs' = s.refs /\ bytes' = s.bytes /\ fault' = s.fault

\* get(): move the record to the front.
Touched(i) == <<i>> \o Without(lru, {i})

(***************************************************************************)
(* The handlers.                                                           *)
(***************************************************************************)

\* handle_responses() resolves previous_response_id and keeps the parent's context.
\* An unknown id is answered with response_not_found and changes nothing.
Resolve(i) ==
    /\ progress[i] = "new" /\ \A j \in Ids : j < i => progress[j] # "new"
    /\ \E p \in Records \cup {NoId} :
          /\ parent' = [parent EXCEPT ![i] = p]
          /\ lru' = IF p = NoId THEN lru ELSE Touched(p)
    /\ progress' = [progress EXCEPT ![i] = "generating"]
    /\ UNCHANGED <<size, refs, bytes, fault>>

(* Mutant: the check leaves out the context that comes with the record. *)
PutUnchecked(i) ==
    /\ progress[i] = "generating"
    /\ \E z \in Sizes :
          /\ size' = [size EXCEPT ![i] = z]
          /\ IF z.envelope > MaxBytes
             THEN UNCHANGED <<lru, refs, bytes, fault>>
             ELSE CommitStore(PutRecord(Store, i, [size EXCEPT ![i] = z]))
    /\ progress' = [progress EXCEPT ![i] = "answered"]
    /\ UNCHANGED parent

\* The generation ended: commit_stored_response() puts the response, or refuses one
\* that cannot fit even alone.
Put(i) ==
    /\ progress[i] = "generating"
    /\ \E z \in Sizes :
          LET sz == [size EXCEPT ![i] = z]
          IN /\ size' = sz
             /\ IF z.envelope + ContextBytes(Chain(i), sz) > MaxBytes
                THEN UNCHANGED <<lru, refs, bytes, fault>>
                ELSE CommitStore(PutRecord(Store, i, sz))
    /\ progress' = [progress EXCEPT ![i] = "answered"]
    /\ UNCHANGED parent

\* The generation failed, was cancelled, or store was false.
Abandon(i) ==
    /\ progress[i] = "generating"
    /\ progress' = [progress EXCEPT ![i] = "answered"]
    /\ UNCHANGED <<parent, size, lru, refs, bytes, fault>>

\* handle_response_get() and the other readers
Get(i) ==
    /\ i \in Records
    /\ lru' = Touched(i)
    /\ UNCHANGED <<progress, parent, size, refs, bytes, fault>>

\* handle_response_delete()
Erase(i) ==
    /\ i \in Records
    /\ CommitStore(EraseRecord(Store, i, size))
    /\ UNCHANGED <<progress, parent, size>>

Next == \E i \in Ids : Resolve(i) \/ Put(i) \/ Abandon(i) \/ Get(i) \/ Erase(i)

Spec == Init /\ [][Next]_vars
-----------------------------------------------------------------------------
(***************************************************************************)
(* Properties.                                                             *)
(***************************************************************************)

\* The nodes of the contexts of some records.
Live(records) == UNION {Chain(i) : i \in records}

\* The bytes of the envelopes and the contexts of some records, shared nodes once.
ChargeOf(records, sz) ==
    SumFunctionOnSet([i \in records |-> sz[i].envelope], records)
      + ContextBytes(Live(records), sz)

\* A node's count is the number of records that end in it plus the number of live
\* nodes that hang from it, and exactly the nodes of the stored records' chains are
\* live: whatever order parents and children are put, evicted and deleted in, no
\* shared node is freed under a child or kept without one.
ReferencesExact ==
    \A n \in Ids :
        refs[n] = Cardinality({n} \cap Records)
                    + Cardinality({m \in Live(Records) : parent[m] = n})

\* current_bytes_ charges every envelope and every live node exactly once, and both
\* limits of the store hold after every operation.
BytesExact ==
    /\ bytes = ChargeOf(Records, size)
    /\ {n \in Ids : refs[n] # 0} = Live(Records)
    /\ Len(lru) <= MaxRecords /\ bytes <= MaxBytes

\* The books of the store are exact: ReferencesExact and BytesExact
\* (openai_responses_store.cpp, retain_context, release_context, evict).
BooksExact == ReferencesExact /\ BytesExact

\* No operation meets a missing node or an underflow, and a record that passed the
\* size check is never refused after it was entered: evicting all the others always
\* makes enough room, although shared nodes are not freed by it.
NeverFaults == ~fault

\* A put evicts in LRU order and no more than it must: with the most recent of its
\* victims still there, one of the limits would be exceeded.
EvictsOnlyWhatItMust ==
    [][\A i \in Ids : Put(i) /\ i \in ToSet(lru') =>
          LET gone == Records \ ToSet(lru')
              latest == CHOOSE v \in gone : \A w \in gone :
                            \E j, k \in DOMAIN lru : lru[j] = v /\ lru[k] = w /\ j <= k
              kept == ToSet(lru') \cup {latest}
          IN /\ \A v \in gone, w \in Records \ gone :
                    \E j, k \in DOMAIN lru : lru[j] = w /\ lru[k] = v /\ j < k
             /\ gone # {} => \/ Cardinality(kept) > MaxRecords
                             \/ ChargeOf(kept, size') > MaxBytes]_vars
=============================================================================
