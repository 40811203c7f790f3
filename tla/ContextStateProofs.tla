-------------------------- MODULE ContextStateProofs --------------------------
(***************************************************************************)
(* The proofs about ContextState, second part: pressure, the preparation   *)
(* of a start and the restoration of its source, stop(), and the theorems. *)
(***************************************************************************)
EXTENDS ContextStoreProofs

(* Releasing a sequence leaves every other image alone.                    *)
LEMMA ReleasedElsewhere ==
    ASSUME NEW s, Sound(s), NEW q \in SeqRecord, ~q.fork, NEW B, NEW h \in Images,
           h # q.read, h # q.write, h # q.rw
    PROVE  Released(s, q, B).img[h] = s.img[h]
  <1>1. PICK s2 : s2 = DropReference(s, q.rw)
    OBVIOUS
  <1>2. Sound(s2) /\ s2.img[h] = s.img[h]
    <2>1. CASE q.rw # None /\ CanReleaseReference(s, q.rw)
      <3>1. q.rw \in Images
        BY <2>1 DEF SeqRecord
      <3>2. Sound(s2) /\ SameImages(s, s2, {q.rw})
        BY <1>1, <2>1, <3>1, DropReferenceSpec
      <3> QED BY <3>2 DEF SameImages
    <2>2. CASE ~(q.rw # None /\ CanReleaseReference(s, q.rw))
      BY <1>1, <2>2 DEF DropReference
    <2> QED BY <2>1, <2>2
  <1>3. \A r, k : Sound(r) /\ k \in Images \cup {None} /\ k # h => Sound(TryRelease(r, k)) /\ TryRelease(r, k).img[h] = r.img[h]
    <2>1. SUFFICES ASSUME NEW r, NEW k, Sound(r), k \in Images \cup {None}, k # h
                   PROVE  Sound(TryRelease(r, k)) /\ TryRelease(r, k).img[h] = r.img[h]
      OBVIOUS
    <2>2. CASE k = None
      BY <2>1, <2>2 DEF TryRelease
    <2>3. CASE k # None
      BY <2>1, <2>3, TryReleaseSpec DEF SameImages
    <2> QED BY <2>2, <2>3
  <1>4. q.read \in Images \cup {None} /\ q.write \in Images \cup {None} /\ q.rw \in Images \cup {None}
    BY DEF SeqRecord
  <1>5. PICK s3 : s3 = TryRelease(s2, q.write)
    OBVIOUS
  <1>6. Sound(s3) /\ s3.img[h] = s.img[h]
    BY <1>2, <1>3, <1>4, <1>5
  <1>7. PICK s4 : s4 = IF OwnsRead(q) /\ q.read # q.write THEN TryRelease(s3, q.read) ELSE s3
    OBVIOUS
  <1>8. Sound(s4) /\ s4.img[h] = s.img[h]
    BY <1>3, <1>4, <1>6, <1>7
  <1>9. Released(s, q, B) = IF q.rw \in B THEN s4 ELSE TryRelease(s4, q.rw)
    BY <1>1, <1>5, <1>7 DEF Released
  <1> QED BY <1>3, <1>4, <1>8, <1>9

\* the records when the option v has been applied, wait the role of an evicted continuation
PressedRecords(v, R, SI, wait) ==
    /\ R \in [Conts -> SeqRecord] /\ SI \in [SharedSlots -> PrefixRecord]
    /\ \A d \in Conts : d # v.who => R[d] = seq[d]
    /\ \A x \in SharedSlots : x # v.who => SI[x] = shared[x]
    /\ v.op \in {"none", "dropHost", "dropDevice", "demote"} => R = seq /\ SI = shared
    /\ v.op # "evict" => SI = shared
    /\ v.op = "evict" /\ v.who \in Conts =>
          /\ Headless(R[v.who]) /\ R[v.who].rw = None /\ R[v.who].refs = {} /\ SI = shared
          /\ R[v.who].role = IF wait THEN "Reserved" ELSE "Free"
    /\ v.op = "evict" /\ v.who \in SharedSlots => R = seq /\ SI[v.who] = EmptyPrefix
    /\ v.op = "dropEndpoint" => /\ R[v.who] = WithoutEndpoint(seq[v.who])
    /\ v.op = "dropRewrite" => /\ R[v.who] = WithoutRewrite(seq[v.who])

(* What dropping the endpoint or the rewrite checkpoint leaves of a        *)
(* sequence.                                                               *)
LEMMA WithoutTyped ==
    ASSUME NEW q \in SeqRecord
    PROVE  /\ WithoutEndpoint(q) \in SeqRecord /\ WithoutRewrite(q) \in SeqRecord
           /\ WithoutEndpoint(q).role = q.role /\ WithoutEndpoint(q).read = None /\ WithoutEndpoint(q).write = None
           /\ ~WithoutEndpoint(q).fork /\ ~WithoutEndpoint(q).valid /\ WithoutEndpoint(q).own = "Primary"
           /\ WithoutEndpoint(q).rw = q.rw /\ WithoutEndpoint(q).rwf = q.rwf /\ WithoutEndpoint(q).refs = q.refs
           /\ WithoutEndpoint(q).pos = q.rwf
           /\ WithoutRewrite(q).role = q.role /\ WithoutRewrite(q).read = q.read /\ WithoutRewrite(q).write = q.write
           /\ WithoutRewrite(q).own = q.own /\ WithoutRewrite(q).rw = None /\ WithoutRewrite(q).refs = q.refs
           /\ WithoutRewrite(q).pos = q.pos
           /\ WithoutRewrite(q).fork = q.fork /\ WithoutRewrite(q).valid = q.valid
  <1>1. PICK p : p = [q EXCEPT !.read = None, !.write = None, !.fork = FALSE, !.own = "Primary"]
    OBVIOUS
  <1>2. p \in SeqRecord /\ p.role = q.role /\ p.read = None /\ p.write = None /\ p.own = "Primary" /\ p.rw = q.rw
        /\ p.rwf = q.rwf /\ p.refs = q.refs
    BY <1>1 DEF SeqRecord
  <1>3. p.fork = FALSE
    BY <1>1 DEF SeqRecord
  <1>4. PICK e : e = [p EXCEPT !.valid = FALSE, !.pos = q.rwf]
    OBVIOUS
  <1>5. WithoutEndpoint(q) = e
    BY <1>1, <1>4 DEF WithoutEndpoint, Bind
  <1>6. e \in SeqRecord /\ e.role = p.role /\ e.read = p.read /\ e.write = p.write /\ e.own = p.own /\ e.rw = p.rw
        /\ e.rwf = p.rwf /\ e.refs = p.refs /\ e.pos = q.rwf
    BY <1>2, <1>4 DEF SeqRecord
  <1>7. e.valid = FALSE /\ e.fork = p.fork
    BY <1>2, <1>4 DEF SeqRecord
  <1>8. PICK w : w = [q EXCEPT !.rw = None, !.rwf = 0]
    OBVIOUS
  <1>9. w \in SeqRecord /\ w.role = q.role /\ w.read = q.read /\ w.write = q.write /\ w.own = q.own /\ w.rw = None
        /\ w.refs = q.refs /\ w.pos = q.pos
    BY <1>8 DEF SeqRecord
  <1>10. w.fork = q.fork /\ w.valid = q.valid
    BY <1>8 DEF SeqRecord
  <1>11. WithoutRewrite(q) = w
    BY <1>8 DEF WithoutRewrite
  <1> QED BY <1>2, <1>3, <1>5, <1>6, <1>7, <1>9, <1>10, <1>11

(* What a pressure step does to the catalogue.                             *)
LEMMA PressedRecord ==
    ASSUME NEW s, NEW v, PressureOK(s, v), seq \in [Conts -> SeqRecord], shared \in [SharedSlots -> PrefixRecord],
           NEW R, R = PressSeq(v), NEW SI, SI = PressShared(v), NEW wait, wait = WaitsForVictim(txn, v)
    PROVE  PressedRecords(v, R, SI, wait)
  <1>1. /\ v.op \in {"none", "evict", "dropEndpoint", "dropRewrite", "dropHost", "dropDevice", "demote"}
        /\ v.op # "none" => v.who \in Conts \cup SharedSlots
        /\ v.op \in {"dropEndpoint", "dropRewrite"} => v.who \in Conts
    BY DEF PressureOK, PressureRecord
  <1>2. Conts \cap SharedSlots = {}
    BY ContextAssumption
  <1>3. CASE v.op = "evict" /\ v.who \in Conts
    <2>1. PICK e : e = [FreeSeq EXCEPT !.role = IF wait THEN "Reserved" ELSE "Free"]
      OBVIOUS
    <2>2. R = [seq EXCEPT ![v.who] = e]
      BY <1>3, <2>1 DEF PressSeq
    <2>3. e \in SeqRecord /\ Headless(e) /\ e.rw = None /\ e.refs = {} /\ e.role = IF wait THEN "Reserved" ELSE "Free"
      BY <2>1 DEF FreeSeq, SeqRecord, Headless
    <2>4. SI = shared
      BY <1>2, <1>3 DEF PressShared
    <2>5. R \in [Conts -> SeqRecord] /\ R[v.who] = e /\ \A d \in Conts : d # v.who => R[d] = seq[d]
      BY <1>3, <2>2, <2>3
    <2> QED BY <1>2, <1>3, <2>3, <2>4, <2>5 DEF PressedRecords
  <1>4. CASE v.op = "evict" /\ v.who \in SharedSlots
    <2>1. R = seq
      BY <1>2, <1>4 DEF PressSeq
    <2>2. SI = [shared EXCEPT ![v.who] = EmptyPrefix]
      BY <1>4 DEF PressShared
    <2>3. EmptyPrefix \in PrefixRecord
      BY DEF EmptyPrefix, PrefixRecord
    <2>4. SI \in [SharedSlots -> PrefixRecord] /\ SI[v.who] = EmptyPrefix /\ \A x \in SharedSlots : x # v.who => SI[x] = shared[x]
      BY <1>4, <2>2, <2>3
    <2> QED BY <1>2, <1>4, <2>1, <2>4 DEF PressedRecords
  <1>5. CASE v.op \in {"dropEndpoint", "dropRewrite"}
    <2>1. PICK e : e = IF v.op = "dropEndpoint" THEN WithoutEndpoint(seq[v.who]) ELSE WithoutRewrite(seq[v.who])
      OBVIOUS
    <2>2. R = [seq EXCEPT ![v.who] = e]
      BY <1>1, <1>5, <2>1 DEF PressSeq
    <2>3. e \in SeqRecord
      BY <1>1, <1>5, <2>1, WithoutTyped
    <2>4. SI = shared
      BY <1>5 DEF PressShared
    <2>5. R \in [Conts -> SeqRecord] /\ R[v.who] = e /\ \A d \in Conts : d # v.who => R[d] = seq[d]
      BY <1>1, <1>5, <2>2, <2>3
    <2> QED BY <1>5, <2>1, <2>4, <2>5 DEF PressedRecords
  <1>6. CASE v.op \in {"none", "dropHost", "dropDevice", "demote"}
    <2>1. R = seq /\ SI = shared
      BY <1>6 DEF PressSeq, PressShared
    <2> QED BY <1>6, <2>1 DEF PressedRecords
  <1> QED BY <1>1, <1>3, <1>4, <1>5, <1>6

\* the option v, applied to the store s, leaves z and the records R and SI
Applied(s, v, R, SI, z) ==
    /\ Consistent(z, R, SI, held) /\ s.freeHost \subseteq z.freeHost
    /\ v.op = "evict" /\ v.who \in Conts => ReleasedStrictly(s, seq[v.who])
    /\ v.op = "evict" /\ v.who \in SharedSlots => CanReleasePrefix(s, v.who)
    /\ v.op # "none" => \A h \in Images : h \notin OwnerImages(v.who) => z.img[h] = s.img[h]
    /\ v.op = "none" => z = s

(* A pressure step other than a demotion leaves a consistent state.        *)
LEMMA PressureApplied ==
    ASSUME NEW s, NEW v, Consistent(s, seq, shared, held), NoForks(seq), PressureOK(s, v),
           NEW R, NEW SI, NEW wait, PressedRecords(v, R, SI, wait), v.op # "demote",
           NEW z, z = PressStore(s, v)
    PROVE  Applied(s, v, R, SI, z)
  <1>1. /\ v.op \in {"none", "evict", "dropEndpoint", "dropRewrite", "dropHost", "dropDevice"}
        /\ v.op # "none" => v.who \in Conts \cup SharedSlots /\ v.img \in Images /\ IdleOwner(v.who)
                            /\ v.img \in OwnerImages(v.who)
        /\ v.op \in {"dropEndpoint", "dropRewrite"} => v.who \in Conts
        /\ v.op = "dropEndpoint" => v.img = seq[v.who].read
        /\ v.op = "dropRewrite" => v.img = seq[v.who].rw
        /\ v.op \in {"dropHost", "dropDevice"} => CanDropReplica(s, v.img)
    BY DEF PressureOK, PressureRecord
  <1>2. Sound(s) /\ seq \in [Conts -> SeqRecord] /\ shared \in [SharedSlots -> PrefixRecord] /\ held \in [Slots -> Nat]
        /\ Conts \cap SharedSlots = {}
    BY ContextAssumption DEF Consistent, Typed
  <1>3. Typed(R, SI, held) /\ Typed(seq, SI, held) /\ Typed(R, shared, held)
    BY <1>2 DEF PressedRecords, Typed
  <1>4. CASE v.op = "none"
    <2>1. z = s /\ R = seq /\ SI = shared
      BY <1>4 DEF PressStore, PressedRecords
    <2> QED BY <1>4, <2>1 DEF Applied
  <1>5. CASE v.op = "evict" /\ v.who \in Conts
    <2>1. PICK c \in Conts : c = v.who
      BY <1>5
    <2>2. PICK B : B = {seq[c].read, seq[c].write}
      OBVIOUS
    <2>3. z = Released(s, seq[c], B)
      BY <1>5, <2>1, <2>2 DEF PressStore, ReleaseState
    <2>4. SI = shared /\ SameSeqs(seq, R, c) /\ Headless(R[c]) /\ R[c].rw = None
      BY <1>5, <2>1 DEF PressedRecords, SameSeqs
    <2>5. B \subseteq {seq[c].read, seq[c].write}
      BY <2>2
    <2>6. /\ Consistent(Released(s, seq[c], B), R, shared, held)
          /\ \A h \in Lost(seq[c]) : Gone(Released(s, seq[c], B), h)
          /\ s.freeHost \subseteq Released(s, seq[c], B).freeHost
      BY <1>3, <2>4, <2>5, IdleReleased
    <2>7. ReleasedStrictly(s, seq[c])
      BY <2>2, <2>6, StrictlyReleased
    <2>8. seq[c].role = "Catalogued" /\ ~seq[c].fork /\ seq[c] \in SeqRecord
      BY <1>1, <1>2, <1>5, <2>1 DEF IdleOwner, NoForks
    <2>9. seq[c].write = seq[c].read
      BY <2>8, SeqCases DEF Headless, Endpoint
    <2>10. \A h \in Images : h \notin OwnerImages(c) => z.img[h] = s.img[h]
      <3>1. SUFFICES ASSUME NEW h \in Images, h \notin OwnerImages(c) PROVE z.img[h] = s.img[h]
        OBVIOUS
      <3>2. h # seq[c].read /\ h # seq[c].rw
        BY <3>1, StoreAssumption DEF OwnerImages
      <3> QED BY <1>2, <2>3, <2>8, <2>9, <3>2, ReleasedElsewhere
    <2> QED BY <1>2, <1>5, <2>1, <2>3, <2>4, <2>6, <2>7, <2>10 DEF Applied
  <1>6. CASE v.op = "evict" /\ v.who \in SharedSlots
    <2>1. PICK x \in SharedSlots : x = v.who
      BY <1>6
    <2>2. v.who \notin Conts
      BY <1>2, <1>6
    <2>3. z = DropCheckpoint(s, shared[x].img)
      BY <1>6, <2>1, <2>2 DEF PressStore, ReleasePrefix
    <2>4. R = seq /\ SamePrefixes(shared, SI, x) /\ SI[x].img = None /\ SI[x].role = "Free"
      BY <1>6, <2>1 DEF PressedRecords, SamePrefixes, EmptyPrefix
    <2>5. shared[x].role = "Catalogued" /\ shared[x].active = 0
      BY <1>1, <1>6, <2>1, <2>2 DEF IdleOwner
    <2>6. shared[x].img \in Images /\ shared[x].img # None
      BY <2>5, PrefixCases, StoreAssumption
    <2>7. /\ Consistent(z, seq, SI, held) /\ SameImages(s, z, {shared[x].img}) /\ s.freeHost \subseteq z.freeHost
      <3>1. Typed(seq, SI, held) /\ SI[x].role \in {"Free", "ReservedCapture"}
        BY <1>3, <2>4
      <3>2. /\ Consistent(DropCheckpoint(s, shared[x].img), seq, SI, held)
            /\ SameImages(s, DropCheckpoint(s, shared[x].img), {shared[x].img})
            /\ s.freeHost \subseteq DropCheckpoint(s, shared[x].img).freeHost
        BY <2>4, <2>6, <3>1, PrefixReleased
      <3> QED BY <2>3, <3>2
    <2>8. CanReleasePrefix(s, x)
      <3>1. Quiet(s.img[shared[x].img])
        BY <2>6, AllQuiet
      <3> QED BY <2>5, <3>1 DEF CanReleasePrefix
    <2>9. OwnerImages(x) = {shared[x].img}
      BY <2>1, <2>2, <2>6 DEF OwnerImages
    <2>10. \A h \in Images : h \notin OwnerImages(x) => z.img[h] = s.img[h]
      BY <2>7, <2>9 DEF SameImages
    <2> QED BY <1>6, <2>1, <2>2, <2>4, <2>7, <2>8, <2>10 DEF Applied
  <1>7. CASE v.op = "dropEndpoint"
    <2>1. PICK c \in Conts : c = v.who
      BY <1>1, <1>7
    <2>2. SI = shared /\ SameSeqs(seq, R, c) /\ R[c] = WithoutEndpoint(seq[c])
      BY <1>7, <2>1 DEF PressedRecords, SameSeqs
    <2>3. z = TryRelease(s, seq[c].read) /\ seq[c].read \in Images /\ seq[c].role = "Catalogued"
      BY <1>1, <1>7, <2>1 DEF PressStore, IdleOwner
    <2>4. Endpoint(s, held, seq[c]) /\ seq[c] \in SeqRecord
      BY <2>3, SeqCases, StoreAssumption
    <2>5. Headless(R[c]) /\ R[c].rw = seq[c].rw /\ R[c].rwf = seq[c].rwf
      BY <2>2, <2>3, <2>4, WithoutTyped DEF Headless
    <2>6. Consistent(z, R, shared, held) /\ SameImages(s, z, {seq[c].read}) /\ s.freeHost \subseteq z.freeHost
      <3>1. Typed(R, shared, held) /\ SameSeqs(seq, R, c)
        BY <1>3, <2>2
      <3>2. /\ Consistent(TryRelease(s, seq[c].read), R, shared, held)
            /\ SameImages(s, TryRelease(s, seq[c].read), {seq[c].read})
            /\ s.freeHost \subseteq TryRelease(s, seq[c].read).freeHost
        BY <2>4, <2>5, <3>1, EndpointReleased
      <3> QED BY <2>3, <3>2
    <2>7. seq[c].read \in OwnerImages(c)
      BY <1>1, <1>7, <2>1
    <2> QED BY <1>7, <2>1, <2>2, <2>6, <2>7 DEF Applied, SameImages
  <1>8. CASE v.op = "dropRewrite"
    <2>1. PICK c \in Conts : c = v.who
      BY <1>1, <1>8
    <2>2. SI = shared /\ SameSeqs(seq, R, c) /\ R[c] = WithoutRewrite(seq[c])
      BY <1>8, <2>1 DEF PressedRecords, SameSeqs
    <2>3. z = DropCheckpoint(s, seq[c].rw) /\ seq[c].rw \in Images /\ seq[c].rw # None
      BY <1>1, <1>8, <2>1, StoreAssumption DEF PressStore
    <2>4. seq[c] \in SeqRecord /\ ~seq[c].fork
      BY <1>2 DEF NoForks
    <2>5. /\ R[c].rw = None /\ R[c].role = seq[c].role /\ R[c].valid = seq[c].valid /\ ~R[c].fork
          /\ R[c].own = seq[c].own /\ R[c].read = seq[c].read /\ R[c].write = seq[c].write /\ R[c].pos = seq[c].pos
      BY <2>2, <2>4, WithoutTyped
    <2>6. Consistent(z, R, shared, held) /\ SameImages(s, z, {seq[c].rw}) /\ s.freeHost \subseteq z.freeHost
      <3>1. Typed(R, shared, held) /\ SameSeqs(seq, R, c)
        BY <1>3, <2>2
      <3>2. /\ Consistent(DropCheckpoint(s, seq[c].rw), R, shared, held)
            /\ SameImages(s, DropCheckpoint(s, seq[c].rw), {seq[c].rw})
            /\ s.freeHost \subseteq DropCheckpoint(s, seq[c].rw).freeHost
        BY <2>3, <2>5, <3>1, RewriteReleased
      <3> QED BY <2>3, <3>2
    <2>7. seq[c].rw \in OwnerImages(c)
      BY <1>1, <1>8, <2>1
    <2> QED BY <1>8, <2>1, <2>2, <2>6, <2>7 DEF Applied, SameImages
  <1>9. CASE v.op \in {"dropHost", "dropDevice"}
    <2>1. R = seq /\ SI = shared
      BY <1>9 DEF PressedRecords
    <2>2. PICK h \in Images : h = v.img /\ CanDropReplica(s, h)
      BY <1>1, <1>9
    <2>3. z = DropHostReplica(s, h) \/ z = DropDeviceReplica(s, h)
      BY <1>9, <2>2 DEF PressStore
    <2>4. Consistent(z, seq, shared, held) /\ s.freeHost \subseteq z.freeHost
      BY <2>2, <2>3, ReplicaDropped
    <2>5. \A k \in Images : k # h => z.img[k] = s.img[k]
      BY <1>2, <2>3, Zenon DEF DropHostReplica, DropDeviceReplica, Sound, Store
    <2> QED BY <1>1, <1>9, <2>1, <2>2, <2>4, <2>5 DEF Applied
  <1> QED BY <1>1, <1>4, <1>5, <1>6, <1>7, <1>8, <1>9

(* A pressure step keeps the borrow counts.                                *)
LEMMA PressedBorrows ==
    ASSUME NEW s, NEW v, PressureOK(s, v), NEW R, NEW SI, NEW wait, PressedRecords(v, R, SI, wait),
           seq \in [Conts -> SeqRecord], Borrows(seq, shared), NoForks(seq)
    PROVE  Borrows(R, SI) /\ NoForks(R)
  <1>1. /\ v.op \in {"none", "evict", "dropEndpoint", "dropRewrite", "dropHost", "dropDevice", "demote"}
        /\ v.op # "none" => v.who \in Conts \cup SharedSlots /\ IdleOwner(v.who)
        /\ v.op \in {"dropEndpoint", "dropRewrite"} => v.who \in Conts
    BY DEF PressureOK, PressureRecord
  <1>2. \A d \in Conts : d # v.who => R[d] = seq[d]
    BY DEF PressedRecords
  <1>3. \A x \in SharedSlots : x # v.who => SI[x] = shared[x]
    BY DEF PressedRecords
  <1>4. v.op # "none" /\ v.who \in Conts => /\ seq[v.who].role = "Catalogued" /\ R[v.who].role # "Active" /\ ~R[v.who].fork
    <2>1. SUFFICES ASSUME v.op # "none", v.who \in Conts
                   PROVE  seq[v.who].role = "Catalogued" /\ R[v.who].role # "Active" /\ ~R[v.who].fork
      OBVIOUS
    <2>2. seq[v.who].role = "Catalogued" /\ ~seq[v.who].fork /\ seq[v.who] \in SeqRecord
      BY <1>1, <2>1 DEF IdleOwner, NoForks
    <2>3. CASE v.op = "evict"
      BY <2>1, <2>2, <2>3 DEF PressedRecords, Headless
    <2>4. CASE v.op \in {"dropEndpoint", "dropRewrite"}
      BY <2>1, <2>2, <2>4, WithoutTyped DEF PressedRecords
    <2>5. CASE v.op \in {"dropHost", "dropDevice", "demote"}
      BY <2>2, <2>5 DEF PressedRecords
    <2> QED BY <1>1, <2>1, <2>3, <2>4, <2>5
  <1>5. v.op = "none" => R = seq /\ SI = shared
    BY DEF PressedRecords
  <1>6. NoForks(R)
    BY <1>2, <1>4, <1>5 DEF NoForks
  <1>7. \A d \in Conts : ((R[d].role = "Active") <=> (seq[d].role = "Active")) /\ (R[d].role = "Active" => R[d].refs = seq[d].refs)
    BY <1>2, <1>4, <1>5
  <1>8. \A x \in SharedSlots : SI[x].active = shared[x].active /\ (SI[x].role # "Catalogued" => SI[x].active = 0)
    <2>1. SUFFICES ASSUME NEW x \in SharedSlots
                   PROVE  SI[x].active = shared[x].active /\ (SI[x].role # "Catalogued" => SI[x].active = 0)
      OBVIOUS
    <2>2. shared[x].role # "Catalogued" => shared[x].active = 0
      BY DEF Borrows
    <2>3. CASE x = v.who /\ v.op = "evict"
      <3>1. SI[x] = EmptyPrefix /\ shared[x].active = 0
        BY <1>1, <2>3, ContextAssumption DEF PressedRecords, IdleOwner
      <3> QED BY <3>1 DEF EmptyPrefix
    <2>4. CASE x # v.who \/ v.op # "evict"
      <3>1. SI[x] = shared[x]
        BY <2>4 DEF PressedRecords
      <3> QED BY <2>2, <3>1
    <2> QED BY <2>3, <2>4
  <1> QED BY <1>6, <1>7, <1>8, BorrowsKept

\* an option touches the images of its owner only
Elsewhere(s, v, z) ==
    /\ v.op # "none" => \A h \in Images : h \notin OwnerImages(v.who) => z.img[h] = s.img[h]
    /\ v.op = "none" => z = s

(* A pressure step spares the checkpoint a capture will recycle.           *)
LEMMA PressedRecyclable ==
    ASSUME NEW s, NEW v, PressureOK(s, v), Consistent(s, seq, shared, held), NEW z, Elsewhere(s, v, z),
           NEW c \in Conts, seq[c].role = "Active", seq[c].rw # None, CanRecycle(s, seq[c].rw)
    PROVE  CanRecycle(z, seq[c].rw)
  <1>1. PICK h \in Images : h = seq[c].rw
    BY SeqCases
  <1>2. CASE v.op = "none"
    BY <1>2 DEF Elsewhere
  <1>3. CASE v.op # "none"
    <2>1. s.img[h].refs = 1 /\ ImageOK(s, seq, shared, h)
      BY <1>1 DEF CanRecycle, Consistent
    <2>2. NamedByRewrite(seq, h) = 1
      BY <1>1 DEF NamedByRewrite
    <2>3. NamedByPrefix(shared, h) \in {0, 1}
      BY DEF NamedByPrefix
    <2>4. NamedByPrefix(shared, h) = 0
      BY <2>1, <2>2, <2>3 DEF ImageOK
    <2>5. \A x \in SharedSlots : shared[x].img # h
      BY <2>4 DEF NamedByPrefix
    <2>6. h \notin OwnerImages(v.who)
      <3>1. CASE v.who \in Conts
        <4>1. seq[v.who].role = "Catalogued"
          BY <1>3, <3>1 DEF PressureOK, IdleOwner
        <4>2. seq[v.who].rw # h
          <5>1. c # v.who
            BY <4>1
          <5> QED BY <1>1, <3>1, <5>1 DEF Consistent, Distinct
        <4>3. seq[v.who].read # h
          <5>1. seq[v.who].read # None => Endpoint(s, held, seq[v.who])
            BY <3>1, <4>1, SeqCases
          <5> QED BY <2>1, <5>1, StoreAssumption DEF Endpoint
        <4> QED BY <3>1, <4>2, <4>3 DEF OwnerImages
      <3>2. CASE v.who \notin Conts
        <4>1. v.who \in SharedSlots
          BY <1>3, <3>2 DEF PressureOK, PressureRecord
        <4> QED BY <2>5, <3>2, <4>1 DEF OwnerImages
      <3> QED BY <3>1, <3>2
    <2>7. z.img[h] = s.img[h]
      BY <1>3, <2>6 DEF Elsewhere
    <2> QED BY <1>1, <2>7 DEF CanRecycle
  <1> QED BY <1>2, <1>3

\* u is the plan t in another phase
Rephased(t, u, p) ==
    /\ u \in StartRecord /\ u.phase = p /\ u.kind = "start" /\ u.dest = t.dest /\ u.mode = t.mode /\ u.path = t.path
    /\ u.source = t.source /\ u.pressure = t.pressure /\ u.base = t.base /\ u.image = t.image
    /\ u.preserve = t.preserve /\ u.fork = t.fork /\ u.restore = t.restore

(* A start that only changes its phase.                                    *)
LEMMA RephasedIs ==
    ASSUME NEW t \in StartRecord, NEW p \in {"pressing", "ready", "source"}, NEW u, u = [t EXCEPT !.phase = p]
    PROVE  Rephased(t, u, p)
  <1>1. /\ u.phase = p /\ u.kind = "start" /\ u.dest = t.dest /\ u.mode = t.mode /\ u.path = t.path
        /\ u.source = t.source /\ u.pressure = t.pressure /\ u.base = t.base /\ u.image = t.image
    BY DEF StartRecord
  <1>2. u.preserve = t.preserve /\ u.fork = t.fork /\ u.restore = t.restore
    BY DEF StartRecord
  <1>3. u \in StartRecord
    BY DEF StartRecord
  <1> QED BY <1>1, <1>2, <1>3 DEF Rephased

\* what a plan says of a store does not depend on its phase
SameSense(t, u) ==
    /\ u.path = t.path /\ u.source = t.source /\ u.mode = t.mode /\ u.preserve = t.preserve
    /\ u.fork = t.fork /\ u.base = t.base

(* Two plans that differ in their phase mean the same.                     *)
LEMMA SameMeaning ==
    ASSUME NEW s, NEW t, NEW u, SameSense(t, u), Shaped(t)
    PROVE  /\ Selected(u) = Selected(t) /\ Shaped(u)
           /\ Consumed(s, u) = Consumed(s, t)
           /\ (Restores(s, u) <=> Restores(s, t)) /\ (Splits(s, u) <=> Splits(s, t)) /\ (NeedsImage(u) <=> NeedsImage(t))
           /\ (Promised(s, t) => Promised(s, u)) /\ (Feasible(s, t) => Feasible(s, u))
           /\ PreparedStore(s, u) = PreparedStore(s, t)
  <1>1. Selected(u) = Selected(t) /\ Shaped(u) /\ (RequiresFork(s, u) <=> RequiresFork(s, t))
    BY SamePlan DEF SameSense, Shaped
  <1>2. Consumed(s, u) = Consumed(s, t)
    BY DEF SameSense, Consumed, ConsumedStore, DropsEndpoint, DropsRewrite
  <1>3. (Restores(s, u) <=> Restores(s, t)) /\ (NeedsImage(u) <=> NeedsImage(t))
    BY <1>1 DEF SameSense, Restores, NeedsImage
  <1>4. \A z : (Splits(z, u) <=> Splits(z, t)) /\ (Restores(z, u) <=> Restores(z, t))
    BY <1>1 DEF SameSense, Splits, Restores
  <1>5. \A z : Fits(z, u) <=> Fits(z, t)
    BY <1>3, <1>4 DEF Fits, NeedsDevice
  <1>6. (Promised(s, t) => Promised(s, u)) /\ (Feasible(s, t) => Feasible(s, u))
    BY <1>1, <1>2, <1>5 DEF Promised, Feasible, SameSense
  <1>7. PreparedStore(s, u) = PreparedStore(s, t)
    <2>1. u.path = t.path
      BY DEF SameSense
    <2>2. Splits(s, u) <=> Splits(s, t)
      BY <1>4
    <2>3. CASE t.path = "root"
      BY <2>1, <2>3 DEF PreparedStore, Restores, Splits
    <2>4. CASE t.path # "root" /\ Restores(s, t)
      BY <1>1, <1>3, <2>1, <2>2, <2>4, Zenon DEF PreparedStore
    <2>5. CASE t.path # "root" /\ ~Restores(s, t) /\ Splits(s, t)
      BY <1>1, <1>3, <2>1, <2>2, <2>5, Zenon DEF PreparedStore
    <2>6. CASE t.path # "root" /\ ~Restores(s, t) /\ ~Splits(s, t)
      BY <1>1, <1>3, <2>1, <2>2, <2>6, Zenon DEF PreparedStore
    <2> QED BY <2>3, <2>4, <2>5, <2>6
  <1> QED BY <1>1, <1>2, <1>3, <1>4, <1>6, <1>7

(* A start that moves to its next phase still fits the catalogue.          *)
LEMMA Replanned ==
    ASSUME NEW t, NEW u, NEW p, Planned(t), Rephased(t, u, p), t.path # "root" => Unmoved(t.source),
           t.mode # "Consume" => seq'[t.dest].role = "Reserved"
    PROVE  Planned(u)'
  <1>1. /\ u \in StartRecord /\ u.dest = t.dest /\ u.mode = t.mode /\ u.path = t.path /\ u.source = t.source
        /\ u.pressure = t.pressure /\ u.base = t.base /\ u.preserve = t.preserve
    BY DEF Rephased
  <1>2. t.path \in {"endpoint", "rewrite"} => seq'[t.source] = seq[t.source] /\ t.source \in Conts
    BY DEF Unmoved, Planned
  <1>3. t.path = "shared" => shared'[t.source] = shared[t.source] /\ t.source \in SharedSlots
    BY DEF Unmoved, Planned
  <1>4. (u.mode = "Root") = (u.path = "root") /\ (u.source = None) = (u.path = "root")
    BY <1>1 DEF Planned
  <1>5. u.path = "endpoint" => /\ u.source \in Conts /\ seq'[u.source].role = "Catalogued"
                              /\ seq'[u.source].valid /\ u.base = seq'[u.source].pos
    BY <1>1, <1>2 DEF Planned
  <1>6. u.path = "rewrite" => /\ u.source \in Conts /\ seq'[u.source].role = "Catalogued"
                             /\ seq'[u.source].rw # None /\ u.base = seq'[u.source].rwf
    BY <1>1, <1>2 DEF Planned
  <1>7. u.path = "shared" => /\ u.mode = "Retain" /\ u.source \in SharedSlots
                            /\ shared'[u.source].role = "Catalogued" /\ u.base = shared'[u.source].f
    BY <1>1, <1>3 DEF Planned
  <1>8. u.path = "root" => u.base = 0
    BY <1>1 DEF Planned
  <1>9. u.mode = "Consume" => u.dest = u.source
    BY <1>1 DEF Planned
  <1>10. u.mode # "Consume" => u.dest # u.source /\ seq'[u.dest].role = "Reserved"
    BY <1>1 DEF Planned
  <1>11. u.preserve => u.mode = "Consume" /\ seq'[u.source].rw # None
    <2>1. t.preserve => t.mode = "Consume" /\ seq[t.source].rw # None
      BY DEF Planned
    <2>2. t.mode = "Consume" => t.path \in {"endpoint", "rewrite"}
      BY DEF Planned, StartRecord
    <2> QED BY <1>1, <1>2, <2>1, <2>2
  <1>12. u.path # "root" => u.pressure.who # u.source
    BY <1>1 DEF Planned
  <1> QED BY <1>1, <1>4, <1>5, <1>6, <1>7, <1>8, <1>9, <1>10, <1>11, <1>12 DEF Planned

\* what Press does to a reserved transaction t, with the option v over the store s
Pressing(s, v, R, SI, z) ==
    /\ Consistent(s, seq, shared, held) /\ NoForks(seq) /\ PressureOK(s, v) /\ store = s
    /\ FlightTo(s.freeHost) /\ flight \in Seq(Copies) /\ Borrows(seq, shared)
    /\ PressedRecords(v, R, SI, WaitsForVictim(txn, v))
    /\ z = PressStore(s, v) /\ store' = z /\ seq' = R /\ shared' = SI
    /\ v.op = "demote" => flight' = Append(flight, [from |-> z.img[v.img].dev, to |-> z.img[v.img].phost])
    /\ v.op # "demote" => flight' = flight
    /\ held' = Contents(held)

\* the state Press leaves: the copy of a demotion is in flight, anything else is done
Pressed(s, v, R, SI, z) ==
    /\ flight' \in Seq(Copies) /\ Borrows(R, SI) /\ NoForks(R)
    /\ v.op = "demote" => /\ Consistent(s, R, SI, held') /\ Demoting(s, v)' /\ PressedStore(s, v)' = PressedStore(s, v)
                          /\ R = seq /\ SI = shared
    /\ v.op # "demote" => /\ Consistent(z, R, SI, held') /\ FlightTo(z.freeHost)' /\ Applied(s, v, R, SI, z)
                          /\ PressedStore(s, v) = z

(* What press leaves, with the demotion under way or the pressure done.    *)
LEMMA PressDoes ==
    ASSUME NEW s, NEW v, NEW R, NEW SI, NEW z, Pressing(s, v, R, SI, z)
    PROVE  Pressed(s, v, R, SI, z)
  <1>1. /\ Consistent(s, seq, shared, held) /\ NoForks(seq) /\ PressureOK(s, v) /\ store = s
        /\ FlightTo(s.freeHost) /\ flight \in Seq(Copies) /\ Borrows(seq, shared)
        /\ z = PressStore(s, v) /\ store' = z /\ seq' = R /\ shared' = SI /\ held' = Contents(held)
    BY DEF Pressing
  <1>2. PICK wait : wait = WaitsForVictim(txn, v)
    OBVIOUS
  <1>3. PressedRecords(v, R, SI, wait)
    BY <1>2 DEF Pressing
  <1>4. Borrows(R, SI) /\ NoForks(R)
    <2>1. seq \in [Conts -> SeqRecord]
      BY <1>1 DEF Consistent, Typed
    <2> QED BY <1>1, <1>3, <2>1, PressedBorrows
  <1>5. held' = Wiped(z, held)
    BY <1>1, ContentsAre
  <1>6. CASE v.op # "demote"
    <2>1. Applied(s, v, R, SI, z)
      BY <1>1, <1>3, <1>6, PressureApplied
    <2>2. Consistent(z, R, SI, held') /\ s.freeHost \subseteq z.freeHost
      BY <1>5, <2>1, WipedConsistent DEF Applied
    <2>3. FlightTo(z.freeHost)' /\ flight' \in Seq(Copies)
      BY <1>1, <1>6, <2>2 DEF FlightTo, Pressing
    <2>4. PressedStore(s, v) = z
      BY <1>1, <1>6 DEF PressedStore
    <2> QED BY <1>4, <1>6, <2>1, <2>2, <2>3, <2>4 DEF Pressed
  <1>7. CASE v.op = "demote"
    <2>1. R = seq /\ SI = shared
      BY <1>3, <1>7 DEF PressedRecords
    <2>2. /\ v.img \in Images /\ NextHost(s) \in s.freeHost /\ NextHost(s) \in HostSlots
          /\ s.img[v.img].dev # None /\ Copying(s, z, v.img, NextHost(s))
      BY <1>1, <1>7, PressingBegun
    <2>3. Sound(s)
      BY <1>1 DEF Consistent
    <2>4. s.img[v.img].dev \in Slots /\ NextHost(s) \in Slots
      BY <2>2, <2>3, SlotOf DEF Slots
    <2>5. z.img[v.img].dev = s.img[v.img].dev /\ z.img[v.img].phost = NextHost(s)
      BY <2>2 DEF Copying, Looks
    <2>6. PICK a, b : a = s.img[v.img].dev /\ b = NextHost(s)
      OBVIOUS
    <2>7. flight' = Append(flight, [from |-> a, to |-> b])
      BY <1>7, <2>5, <2>6 DEF Pressing
    <2>8. Awaited(a, b)' /\ flight' \in Seq(Copies) /\ \A S : FlightTo(S) /\ b \in S => FlightTo(S)'
      BY <1>1, <2>4, <2>6, <2>7, Submits
    <2>9. Consistent(s, R, SI, held')
      <3>1. z.freeDev \subseteq s.freeDev /\ z.freeHost \subseteq s.freeHost
        BY <2>2 DEF Copying
      <3> QED BY <1>1, <1>5, <2>1, <3>1, WipedConsistent
    <2>10. Unmoved(v.who)
      BY <1>1, <2>1 DEF Unmoved
    <2>11. PressureOK(s, v)' /\ PressStore(s, v)' = PressStore(s, v) /\ PressedStore(s, v)' = PressedStore(s, v)
      BY <1>1, <2>10, StablePressure
    <2>12. Demoting(s, v)'
      BY <1>1, <1>7, <2>2, <2>6, <2>8, <2>11 DEF Demoting
    <2> QED BY <1>4, <1>7, <2>1, <2>8, <2>9, <2>11, <2>12 DEF Pressed
  <1> QED BY <1>6, <1>7

(* Pressing for a start keeps the invariant.                               *)
LEMMA PressesStart ==
    ASSUME NEW s, NEW t, NEW v, NEW R, NEW SI, NEW z, NEW u, NEW p, t = txn, v = t.pressure, txn' = u,
           Pressing(s, v, R, SI, z), Planned(t), t.kind = "start", Promised(PressedStore(s, v), t),
           p = (IF v.op = "demote" THEN "pressing" ELSE "ready"), u = [t EXCEPT !.phase = p], Reserved(t)
    PROVE  Live'
  <1>1. Pressed(s, v, R, SI, z)
    BY PressDoes
  <1>2. Rephased(t, u, p) /\ p \in {"pressing", "ready"}
    BY RephasedIs DEF Planned
  <1>3. PICK wait : wait = WaitsForVictim(txn, v)
    OBVIOUS
  <1>4. /\ PressedRecords(v, R, SI, wait) /\ PressureOK(s, v) /\ seq' = R /\ shared' = SI /\ store' = z
    BY <1>3 DEF Pressing
  <1>5. v.op # "none" => v.who \in Conts \cup SharedSlots /\ IdleOwner(v.who)
    BY <1>4 DEF PressureOK, PressureRecord
  <1>6. v.op = "none" => R = seq /\ SI = shared
    BY <1>4 DEF PressedRecords
  <1>7. t.path # "root" => Unmoved(t.source)
    BY <1>4 DEF PressedRecords, Unmoved, Planned
  <1>8. t.mode # "Consume" => seq'[t.dest].role = "Reserved"
    <2>1. SUFFICES ASSUME t.mode # "Consume" PROVE R[t.dest].role = "Reserved"
      BY <1>4
    <2>2. t.dest \in Conts
      BY DEF Planned, StartRecord
    <2>3. CASE seq[t.dest].role = "Reserved"
      <3>1. v.op = "none" \/ t.dest # v.who
        BY <1>5, <2>2, <2>3 DEF IdleOwner
      <3> QED BY <1>4, <1>6, <2>2, <2>3, <3>1 DEF PressedRecords
    <2>4. CASE seq[t.dest].role # "Reserved"
      <3>1. v.op = "evict" /\ v.who = t.dest
        BY <2>1, <2>4 DEF Planned
      <3>2. wait
        BY <1>3, <3>1 DEF WaitsForVictim
      <3> QED BY <1>4, <2>2, <3>1, <3>2 DEF PressedRecords
    <2> QED BY <2>3, <2>4
  <1>9. Planned(u)'
    BY <1>2, <1>7, <1>8, Replanned
  <1>10. Shaped(t) /\ SameSense(t, u)
    BY <1>2, PlannedShape DEF Rephased, SameSense
  <1>11. PICK y : y = PressedStore(s, v)
    OBVIOUS
  <1>12. Promised(y, u)'
    <2>1. Promised(y, u) /\ Shaped(u)
      BY <1>10, <1>11, SameMeaning
    <2>2. u.path # "root" => Unmoved(u.source)
      BY <1>2, <1>7 DEF Rephased
    <2> QED BY <2>1, <2>2, ShapedPromise
  <1>13. u.pressure = v /\ u.phase = p /\ u.kind = "start"
    BY <1>2 DEF Rephased
  <1>14. CASE v.op = "demote"
    <2>1. Consistent(s, R, SI, held') /\ Demoting(s, v)' /\ PressedStore(s, v)' = y
      BY <1>1, <1>11, <1>14 DEF Pressed
    <2>2. StartPressing(s, u)'
      BY <1>12, <1>13, <2>1 DEF StartPressing
    <2>3. StartPhase(s, u)'
      BY <1>9, <1>13, <1>14, <2>2 DEF StartPhase
    <2>4. Opened(s, R)'
      <3>1. Consistent(s, R, shared, held)' /\ txn'.kind = "start" /\ seq' = R /\ NoForks(R) /\ StartPhase(s, txn)'
        BY <1>1, <1>4, <1>13, <2>1, <2>3 DEF Pressed
      <3> QED BY <3>1 DEF Opened
    <2>5. Reserved(txn)'
      BY <1>1, <1>4, <1>14 DEF Reserved, Pressed
    <2> QED BY <1>1, <1>4, <2>4, <2>5 DEF Live, Pressed
  <1>15. CASE v.op # "demote"
    <2>1. Consistent(z, R, SI, held') /\ FlightTo(z.freeHost)' /\ z = y
      BY <1>1, <1>11, <1>15 DEF Pressed
    <2>2. StartReady(z, u)'
      BY <1>4, <1>12, <2>1 DEF StartReady
    <2>3. StartPhase(z, u)'
      BY <1>9, <1>13, <1>15, <2>2 DEF StartPhase
    <2>4. Opened(z, R)'
      <3>1. Consistent(z, R, shared, held)' /\ txn'.kind = "start" /\ seq' = R /\ NoForks(R) /\ StartPhase(z, txn)'
        BY <1>1, <1>4, <1>13, <2>1, <2>3 DEF Pressed
      <3> QED BY <3>1 DEF Opened
    <2>5. Reserved(txn)'
      <3>1. \A x \in SharedSlots : SI[x] = shared[x] \/ SI[x] = EmptyPrefix
        BY <1>4 DEF PressedRecords
      <3> QED BY <1>4, <3>1 DEF Reserved, EmptyPrefix
    <2> QED BY <1>1, <1>4, <2>4, <2>5 DEF Live, Pressed
  <1> QED BY <1>14, <1>15

\* u is the capture t in another phase, before it begins
Reoffered(t, u, p) ==
    /\ u \in CaptureRecord /\ u.phase = p /\ u.kind = "capture" /\ u.lane = t.lane /\ u.prefix = t.prefix
    /\ u.pressure = t.pressure /\ u.place = t.place /\ u.source = t.source /\ u.dest = t.dest
    /\ u.priv = t.priv /\ u.repl = t.repl /\ u.removed = t.removed /\ u.recycle = t.recycle

(* A capture that only changes its phase.                                  *)
LEMMA ReofferedIs ==
    ASSUME NEW t \in CaptureRecord, NEW p \in {"pressing", "ready"}, NEW u, u = [t EXCEPT !.phase = p]
    PROVE  Reoffered(t, u, p)
  <1>1. /\ u.phase = p /\ u.kind = "capture" /\ u.lane = t.lane /\ u.prefix = t.prefix
        /\ u.pressure = t.pressure /\ u.place = t.place /\ u.source = t.source /\ u.dest = t.dest
    BY DEF CaptureRecord
  <1>2. u.priv = t.priv /\ u.repl = t.repl /\ u.removed = t.removed /\ u.recycle = t.recycle
    BY DEF CaptureRecord
  <1>3. u \in CaptureRecord
    BY DEF CaptureRecord
  <1> QED BY <1>1, <1>2, <1>3 DEF Reoffered

(* A capture that moves to its next phase still fits its lane.             *)
LEMMA OfferStands ==
    ASSUME NEW t, NEW u, NEW p, NEW Q, NEW R, Offered(t, Q), Reoffered(t, u, p), p # "copying", t.phase # "copying",
           R[t.lane] = Q[t.lane], t.prefix # None => shared'[t.prefix] = shared[t.prefix]
    PROVE  Offered(u, R)'
  <1>1. /\ u \in CaptureRecord /\ u.phase = p /\ u.lane = t.lane /\ u.prefix = t.prefix
        /\ u.pressure = t.pressure /\ u.place = t.place /\ u.source = t.source /\ u.dest = t.dest
        /\ u.priv = t.priv /\ u.repl = t.repl /\ u.removed = t.removed /\ u.recycle = t.recycle
    BY DEF Reoffered
  <1>2. ~t.removed /\ u.removed \in BOOLEAN
    BY <1>1 DEF Offered, CaptureRecord
  <1>3. u.removed = (u.phase = "copying" /\ u.repl)
    BY <1>1, <1>2
  <1>4. /\ u.priv \/ u.prefix # None
        /\ u.prefix = None => ~u.repl
        /\ u.prefix # None =>
             shared'[u.prefix].role = IF u.repl /\ ~u.removed THEN "ReservedReplacement" ELSE "ReservedCapture"
        /\ u.source = None /\ u.dest = None
        /\ R[u.lane].role = "Active" /\ R[u.lane].stage \in {"prefill", "decode"}
        /\ u.recycle => u.priv /\ R[u.lane].rw # None
        /\ u.prefix # None => u.pressure.who # u.prefix
        /\ u.recycle => u.place = "DeviceFork"
    BY <1>1 DEF Offered
  <1> QED BY <1>1, <1>3, <1>4 DEF Offered

(* Pressing for a capture keeps the invariant.                             *)
LEMMA PressesCapture ==
    ASSUME NEW s, NEW t, NEW v, NEW R, NEW SI, NEW z, NEW u, NEW p, t = txn, v = t.pressure, txn' = u,
           Pressing(s, v, R, SI, z), Offered(t, seq), t.kind = "capture", t.phase = "reserved", Recyclable(s, t),
           CaptureFits(PressedStore(s, v), t),
           p = (IF v.op = "demote" THEN "pressing" ELSE "ready"), u = [t EXCEPT !.phase = p], Reserved(t)
    PROVE  Live'
  <1>1. Pressed(s, v, R, SI, z)
    BY PressDoes
  <1>2. Reoffered(t, u, p) /\ p \in {"pressing", "ready"}
    BY ReofferedIs DEF Offered
  <1>3. PICK wait : wait = WaitsForVictim(txn, v)
    OBVIOUS
  <1>4. /\ PressedRecords(v, R, SI, wait) /\ PressureOK(s, v) /\ seq' = R /\ shared' = SI /\ store' = z
        /\ Consistent(s, seq, shared, held)
    BY <1>3 DEF Pressing
  <1>5. v.op # "none" => v.who \in Conts \cup SharedSlots /\ IdleOwner(v.who)
    BY <1>4 DEF PressureOK, PressureRecord
  <1>6. v.op = "none" => R = seq /\ SI = shared
    BY <1>4 DEF PressedRecords
  <1>7. t.lane \in Conts /\ seq[t.lane].role = "Active" /\ (t.prefix # None => t.prefix \in SharedSlots /\ v.who # t.prefix)
        /\ (t.prefix = None => ~t.repl)
    BY DEF Offered, CaptureRecord
  <1>8. R[t.lane] = seq[t.lane]
    <2>1. v.op = "none" \/ t.lane # v.who
      BY <1>5, <1>7 DEF IdleOwner
    <2> QED BY <1>4, <1>6, <1>7, <2>1 DEF PressedRecords
  <1>9. t.prefix # None => shared'[t.prefix] = shared[t.prefix]
    BY <1>4, <1>7 DEF PressedRecords
  <1>10. Offered(u, R)'
    <2>1. PICK Q : Q = seq
      OBVIOUS
    <2> QED BY <1>2, <1>8, <1>9, <2>1, OfferStands
  <1>11. PICK y : y = PressedStore(s, v)
    OBVIOUS
  <1>12. CaptureFits(y, u)'
    <2>1. CaptureFits(y, u)
      BY <1>2, <1>11 DEF CaptureFits, ReplacedStore, Reoffered
    <2>2. u.repl => shared'[u.prefix].img = shared[u.prefix].img
      BY <1>2, <1>7, <1>9 DEF Reoffered
    <2> QED BY <2>1, <2>2, StableCapture
  <1>13. u.pressure = v /\ u.phase = p /\ u.kind = "capture" /\ u.lane = t.lane /\ u.recycle = t.recycle
    BY <1>2 DEF Reoffered
  <1>14. Reserved(txn)'
    <2>1. \A x \in SharedSlots : SI[x] = shared[x] \/ SI[x] = EmptyPrefix
      BY <1>4 DEF PressedRecords
    <2>2. u.kind = t.kind /\ u.prefix = t.prefix
      BY <1>2 DEF Reoffered
    <2> QED BY <1>4, <2>1, <2>2 DEF Reserved, EmptyPrefix
  <1>15. CASE v.op = "demote"
    <2>1. Consistent(s, R, SI, held') /\ Demoting(s, v)' /\ PressedStore(s, v)' = y
      BY <1>1, <1>11, <1>15 DEF Pressed
    <2>2. Recyclable(s, u)'
      BY <1>4, <1>8, <1>13 DEF Recyclable
    <2>3. CapturePressing(s, u)'
      BY <1>12, <1>13, <2>1, <2>2 DEF CapturePressing
    <2>4. CapturePhase(s, R, u)'
      BY <1>4, <1>10, <1>13, <1>15, <2>3 DEF CapturePhase
    <2>5. Opened(s, R)'
      <3>1. Consistent(s, R, shared, held)' /\ txn'.kind = "capture" /\ NoForks(R) /\ CapturePhase(s, R, txn)'
        BY <1>1, <1>4, <1>13, <2>1, <2>4 DEF Pressed
      <3> QED BY <3>1 DEF Opened
    <2> QED BY <1>1, <1>4, <1>14, <2>5 DEF Live, Pressed
  <1>16. CASE v.op # "demote"
    <2>1. Consistent(z, R, SI, held') /\ FlightTo(z.freeHost)' /\ z = y /\ Applied(s, v, R, SI, z)
      BY <1>1, <1>11, <1>16 DEF Pressed
    <2>2. Recyclable(z, u)'
      <3>1. t.recycle => seq[t.lane].rw # None /\ CanRecycle(s, seq[t.lane].rw)
        BY DEF Recyclable, Offered
      <3>3. Elsewhere(s, v, z)
        BY <2>1 DEF Applied, Elsewhere
      <3>2. t.recycle => CanRecycle(z, seq[t.lane].rw)
        BY <1>4, <1>7, <3>1, <3>3, PressedRecyclable
      <3> QED BY <1>4, <1>8, <1>13, <3>2 DEF Recyclable
    <2>3. CaptureReady(z, u)'
      BY <1>4, <1>12, <2>1, <2>2 DEF CaptureReady
    <2>4. CapturePhase(z, R, u)'
      BY <1>4, <1>10, <1>13, <1>16, <2>3 DEF CapturePhase
    <2>5. Opened(z, R)'
      <3>1. Consistent(z, R, shared, held)' /\ txn'.kind = "capture" /\ NoForks(R) /\ CapturePhase(z, R, txn)'
        BY <1>1, <1>4, <1>13, <2>1, <2>4 DEF Pressed
      <3> QED BY <3>1 DEF Opened
    <2> QED BY <1>1, <1>4, <1>14, <2>5 DEF Live, Pressed
  <1> QED BY <1>15, <1>16

(* Press keeps the invariant and throws nothing.                           *)
LEMMA PressKeeps ==
    ASSUME Live, fault = "none", Press
    PROVE  Live' /\ fault' = "none"
  <1>1. PICK s, Q : Opened(s, Q)
    BY DEF Live
  <1>2. PICK t, v : t = txn /\ v = t.pressure
    OBVIOUS
  <1>3. t.kind # "none" /\ t.phase = "reserved"
    BY <1>2 DEF Press
  <1>4. PICK R, SI, z : R = PressSeq(v) /\ SI = PressShared(v) /\ z = PressStore(s, v)
    OBVIOUS
  <1>5. t.kind \in {"start", "capture"} /\ Consistent(s, seq, shared, held) /\ NoForks(seq) /\ Q = seq
    BY <1>1, <1>2, <1>3 DEF Opened, CapturePhase
  <1>6. t.kind = "start" => Planned(t) /\ StartReserved(s, t)
    BY <1>1, <1>2, <1>3 DEF Opened, StartPhase
  <1>7. t.kind = "capture" => Offered(t, seq) /\ CaptureReserved(s, t)
    BY <1>1, <1>2, <1>3, <1>5 DEF Opened, CapturePhase
  <1>8. PressureOK(s, v) /\ store = s /\ FlightTo(s.freeHost)
    BY <1>2, <1>5, <1>6, <1>7 DEF StartReserved, CaptureReserved
  <1>9. PICK wait : wait = WaitsForVictim(txn, v)
    OBVIOUS
  <1>10. PressedRecords(v, R, SI, wait)
    <2>1. seq \in [Conts -> SeqRecord] /\ shared \in [SharedSlots -> PrefixRecord]
      BY <1>5 DEF Consistent, Typed
    <2> QED BY <1>4, <1>8, <1>9, <2>1, PressedRecord
  <1>11. PICK p : p = IF v.op = "demote" THEN "pressing" ELSE "ready"
    OBVIOUS
  <1>12. PICK u : u = [t EXCEPT !.phase = p]
    OBVIOUS
  <1>13. /\ store' = z /\ seq' = R /\ shared' = SI /\ held' = Contents(held) /\ txn' = u
         /\ v.op = "demote" => flight' = Append(flight, [from |-> z.img[v.img].dev, to |-> z.img[v.img].phost])
         /\ v.op # "demote" => flight' = flight
    BY <1>2, <1>4, <1>8, <1>11, <1>12 DEF Press
  <1>14. Pressing(s, v, R, SI, z)
    BY <1>4, <1>5, <1>8, <1>9, <1>10, <1>13 DEF Pressing, Live
  <1>15. Reserved(t)
    BY <1>2 DEF Live
  <1>16. Live'
    <2>1. CASE t.kind = "start"
      BY <1>2, <1>6, <1>11, <1>12, <1>13, <1>14, <1>15, <2>1, PressesStart DEF StartReserved
    <2>2. CASE t.kind = "capture"
      BY <1>2, <1>3, <1>7, <1>11, <1>12, <1>13, <1>14, <1>15, <2>2, PressesCapture DEF CaptureReserved
    <2> QED BY <1>5, <2>1, <2>2
  <1>17. fault' = fault
    <2>1. v.op = "demote" \/ Applied(s, v, R, SI, z)
      BY <1>4, <1>5, <1>8, <1>10, PressureApplied
    <2>2. v.op = "none" \/ (/\ Placed(s, v.img) /\ IdleOwner(v.who)
                            /\ v.op \in {"dropHost", "dropDevice"} => CanDropReplica(s, v.img))
      BY <1>8 DEF PressureOK
    <2>3. v.op = "evict" => IF v.who \in Conts THEN ReleasedStrictly(s, seq[v.who])
                                              ELSE CanReleasePrefix(s, v.who)
      <3>1. v.op = "evict" => v.who \in Conts \cup SharedSlots
        BY <1>8 DEF PressureOK, PressureRecord
      <3> QED BY <2>1, <3>1 DEF Applied
    <2>4. store = s
      BY <1>8
    <2>5. \/ v.op = "none"
          \/ /\ Placed(store, v.img) /\ IdleOwner(v.who)
             /\ v.op = "evict" =>
                  IF v.who \in Conts THEN ReleasedStrictly(store, seq[v.who])
                                     ELSE CanReleasePrefix(store, v.who)
             /\ v.op \in {"dropHost", "dropDevice"} => CanDropReplica(store, v.img)
      BY <2>2, <2>3, <2>4
    <2> QED BY <1>2, <2>5 DEF Press, Checked
  <1> QED BY <1>16, <1>17

\* a demotion has landed: the store z it leaves is the one the plan counted on
Delivered(s, v, z) ==
    /\ Consistent(z, seq, shared, held') /\ Elsewhere(s, v, z) /\ store' = z /\ z = PressedStore(s, v)

(* When the copy has landed, publishing the demotion leaves a consistent   *)
(* state that matches what was promised.                                   *)
LEMMA DemotionDelivers ==
    ASSUME NEW s, NEW v, NEW z, Consistent(s, seq, shared, held), NoForks(seq), Demoting(s, v),
           flight = <<>>, z = PublishDeviceToHost(store, v.img, FALSE), store' = z, held' = Contents(held)
    PROVE  Delivered(s, v, z)
  <1>1. PressureOK(s, v) /\ v.op = "demote" /\ store = PressStore(s, v) /\ Awaited(s.img[v.img].dev, NextHost(s))
    BY DEF Demoting
  <1>2. PICK h \in Images, n \in s.freeHost : h = v.img /\ n = NextHost(s)
    BY <1>1, PressingBegun
  <1>3. /\ Immutable(s.img[h]) /\ s.img[h].dev # None /\ s.img[h].host = None
        /\ Copying(s, store, h, n)
    BY <1>1, <1>2, PressingBegun
  <1>4. held[n] = held[s.img[h].dev]
    BY <1>1, <1>2 DEF Awaited
  <1>5. store = BeginDeviceToHost(s, h, n)
    BY <1>1, <1>2 DEF PressStore
  <1>6. Consistent(z, seq, shared, held)
    BY <1>2, <1>3, <1>4, <1>5, DemotionPublishes
  <1>7. Consistent(z, seq, shared, held')
    <2>1. held' = Wiped(z, held)
      BY ContentsAre
    <2> QED BY <1>6, <2>1, WipedConsistent
  <1>8. z = PressedStore(s, v)
    BY <1>1 DEF PressedStore
  <1>9. SameImages(s, z, {h})
    <2>1. store \in Store /\ SameImages(s, store, {h})
      BY <1>3 DEF Copying, Sound
    <2>2. SameImages(store, z, {h})
      BY <1>2, <2>1, DemotedFields
    <2> QED BY <2>1, <2>2 DEF SameImages
  <1>10. h \in OwnerImages(v.who)
    BY <1>1, <1>2 DEF PressureOK
  <1>11. Elsewhere(s, v, z)
    BY <1>1, <1>9, <1>10 DEF Elsewhere, SameImages
  <1> QED BY <1>7, <1>8, <1>11 DEF Delivered

(* Publishing the demotion of a start keeps the invariant.                 *)
LEMMA DeliversStart ==
    ASSUME NEW s, NEW t, NEW v, NEW z, NEW u, t = txn, v = t.pressure, txn' = u, u = [t EXCEPT !.phase = "ready"],
           Delivered(s, v, z), Planned(t), t.kind = "start", t.phase = "pressing", Promised(PressedStore(s, v), t),
           Reserved(t), NoForks(seq), Borrows(seq, shared), flight = <<>>, flight' = flight,
           seq' = seq, shared' = shared
    PROVE  Live'
  <1>1. PICK p : p = "ready"
    OBVIOUS
  <1>2. Rephased(t, u, p)
    BY <1>1, RephasedIs DEF Planned
  <1>3. t.path # "root" => Unmoved(t.source)
    BY DEF Unmoved
  <1>4. t.mode # "Consume" => seq'[t.dest].role = "Reserved"
    BY DEF Planned
  <1>5. Planned(u)'
    BY <1>2, <1>3, <1>4, Replanned
  <1>6. Shaped(t) /\ SameSense(t, u)
    BY <1>2, PlannedShape DEF Rephased, SameSense
  <1>7. Consistent(z, seq, shared, held') /\ store' = z /\ z = PressedStore(s, v)
    BY DEF Delivered
  <1>8. Promised(z, u)'
    <2>1. Promised(z, u) /\ Shaped(u)
      BY <1>6, <1>7, SameMeaning
    <2>2. u.path # "root" => Unmoved(u.source)
      BY <1>2, <1>3 DEF Rephased
    <2> QED BY <2>1, <2>2, ShapedPromise
  <1>9. flight' \in Seq(Copies) /\ FlightTo(z.freeHost)'
    BY DEF FlightTo
  <1>10. u.phase = "ready" /\ u.kind = "start"
    BY <1>1, <1>2 DEF Rephased
  <1>11. StartPhase(z, u)'
    BY <1>5, <1>7, <1>8, <1>9, <1>10 DEF StartPhase, StartReady
  <1>12. PICK Q : Q = seq
    OBVIOUS
  <1>13. Opened(z, Q)'
    <2>1. Consistent(z, Q, shared, held)' /\ txn'.kind = "start" /\ seq' = Q /\ NoForks(Q) /\ StartPhase(z, txn)'
      BY <1>7, <1>10, <1>11, <1>12
    <2> QED BY <2>1 DEF Opened
  <1>14. Reserved(txn)'
    BY DEF Reserved
  <1>15. Borrows(seq, shared)'
    BY DEF Borrows
  <1> QED BY <1>9, <1>13, <1>14, <1>15 DEF Live

(* Publishing the demotion of a capture keeps the invariant.               *)
LEMMA DeliversCapture ==
    ASSUME NEW s, NEW t, NEW v, NEW z, NEW u, t = txn, v = t.pressure, txn' = u, u = [t EXCEPT !.phase = "ready"],
           Delivered(s, v, z), PressureOK(s, v), Consistent(s, seq, shared, held), Offered(t, seq),
           t.kind = "capture", t.phase = "pressing", Recyclable(s, t), CaptureFits(PressedStore(s, v), t),
           Reserved(t), NoForks(seq), Borrows(seq, shared), flight = <<>>, flight' = flight,
           seq' = seq, shared' = shared
    PROVE  Live'
  <1>1. PICK p : p = "ready"
    OBVIOUS
  <1>2. Reoffered(t, u, p)
    BY <1>1, ReofferedIs DEF Offered
  <1>3. PICK Q : Q = seq
    OBVIOUS
  <1>4. PICK R : R = seq'
    OBVIOUS
  <1>5. Offered(u, R)'
    BY <1>1, <1>2, <1>3, <1>4, OfferStands
  <1>6. t.lane \in Conts /\ seq[t.lane].role = "Active" /\ (t.recycle => seq[t.lane].rw # None)
    BY DEF Offered, CaptureRecord
  <1>7. Consistent(z, seq, shared, held') /\ store' = z /\ z = PressedStore(s, v) /\ Elsewhere(s, v, z)
    BY DEF Delivered
  <1>8. CaptureFits(z, u)'
    <2>1. CaptureFits(z, u)
      BY <1>2, <1>7 DEF CaptureFits, ReplacedStore, Reoffered
    <2> QED BY <2>1, StableCapture
  <1>9. u.phase = "ready" /\ u.kind = "capture" /\ u.lane = t.lane /\ u.recycle = t.recycle /\ u.prefix = t.prefix
    BY <1>1, <1>2 DEF Reoffered
  <1>10. Recyclable(z, u)'
    <2>1. t.recycle => CanRecycle(z, seq[t.lane].rw)
      BY <1>6, <1>7, PressedRecyclable DEF Recyclable
    <2> QED BY <1>9, <2>1 DEF Recyclable
  <1>11. flight' \in Seq(Copies) /\ FlightTo(z.freeHost)'
    BY DEF FlightTo
  <1>12. CapturePhase(z, R, u)'
    <2>1. CaptureReady(z, u)'
      BY <1>7, <1>8, <1>10, <1>11 DEF CaptureReady
    <2> QED BY <1>4, <1>5, <1>9, <2>1 DEF CapturePhase
  <1>13. Opened(z, R)'
    <2>1. Consistent(z, R, shared, held)' /\ txn'.kind = "capture" /\ NoForks(R) /\ CapturePhase(z, R, txn)'
      BY <1>4, <1>7, <1>9, <1>12
    <2> QED BY <2>1 DEF Opened
  <1>14. Reserved(txn)'
    BY <1>9 DEF Reserved
  <1>15. Borrows(seq, shared)'
    BY DEF Borrows
  <1> QED BY <1>11, <1>13, <1>14, <1>15 DEF Live

(* PublishPressure keeps the invariant and throws nothing.                 *)
LEMMA PublishPressureKeeps ==
    ASSUME Live, PublishPressure
    PROVE  Live' /\ fault' = fault
  <1>1. PICK s, Q : Opened(s, Q)
    BY DEF Live
  <1>2. PICK t, v : t = txn /\ v = t.pressure
    OBVIOUS
  <1>3. PICK u, z : u = [t EXCEPT !.phase = "ready"] /\ z = PublishDeviceToHost(store, v.img, FALSE)
    OBVIOUS
  <1>4. /\ t.kind # "none" /\ t.phase = "pressing" /\ flight = <<>> /\ store' = z /\ txn' = u
        /\ held' = Contents(held) /\ seq' = seq /\ shared' = shared /\ flight' = flight /\ fault' = fault
    BY <1>2, <1>3 DEF PublishPressure
  <1>5. t.kind \in {"start", "capture"} /\ Consistent(s, seq, shared, held) /\ NoForks(seq) /\ Q = seq
    BY <1>1, <1>2, <1>4 DEF Opened, CapturePhase
  <1>6. t.kind = "start" => Planned(t) /\ StartPressing(s, t)
    BY <1>1, <1>2, <1>4 DEF Opened, StartPhase
  <1>7. t.kind = "capture" => Offered(t, seq) /\ CapturePressing(s, t)
    BY <1>1, <1>2, <1>4, <1>5 DEF Opened, CapturePhase
  <1>8. Demoting(s, v) /\ PressureOK(s, v)
    BY <1>2, <1>5, <1>6, <1>7 DEF StartPressing, CapturePressing, Demoting
  <1>9. Delivered(s, v, z)
    BY <1>3, <1>4, <1>5, <1>8, DemotionDelivers
  <1>10. Reserved(t) /\ Borrows(seq, shared)
    BY <1>2 DEF Live
  <1>11. CASE t.kind = "start"
    BY <1>2, <1>3, <1>4, <1>5, <1>6, <1>9, <1>10, <1>11, DeliversStart DEF StartPressing
  <1>12. CASE t.kind = "capture"
    BY <1>2, <1>3, <1>4, <1>5, <1>7, <1>8, <1>9, <1>10, <1>12, DeliversCapture DEF CapturePressing
  <1> QED BY <1>4, <1>5, <1>11, <1>12

\* what the prepared source leaves: the selected image as it was
Prepared(s, t, z, R) ==
    /\ Consistent(z, R, shared, held) /\ NoForks(R) /\ s.freeHost \subseteq z.freeHost
    /\ z.img[Selected(t)] = s.img[Selected(t)]
    /\ \A d \in Conts : R[d].role = seq[d].role /\ R[d].refs = seq[d].refs
    /\ \A d \in Conts : d # t.source => R[d] = seq[d]
    /\ DropsEndpoint(t, seq[t.source]) => Gone(z, seq[t.source].read)
    /\ DropsRewrite(t, seq[t.source]) => Gone(z, seq[t.source].rw)
    /\ t.path = "endpoint" => R[t.source].read = seq[t.source].read /\ R[t.source].valid /\ R[t.source].pos = seq[t.source].pos
    /\ t.path = "rewrite" => R[t.source].rw = seq[t.source].rw /\ R[t.source].rwf = seq[t.source].rwf
    /\ t.preserve => R[t.source].rw # None

(* Preparing a consumed source leaves a consistent state.                  *)
LEMMA SourcePrepared ==
    ASSUME NEW s, NEW t, Consistent(s, seq, shared, held), NoForks(seq), Planned(t), t.mode = "Consume",
           NEW z, z = ConsumedStore(s, t), NEW R, R = [seq EXCEPT ![t.source] = ConsumedSeq(t)]
    PROVE  Prepared(s, t, z, R)
  <1>1. PICK c \in Conts : c = t.source
    BY DEF Planned, StartRecord
  <1>2. PICK q : q = seq[c] /\ q \in SeqRecord
    BY <1>1 DEF Consistent, Typed
  <1>3. /\ seq \in [Conts -> SeqRecord] /\ shared \in [SharedSlots -> PrefixRecord] /\ held \in [Slots -> Nat]
        /\ q.role = "Catalogued" /\ ~q.fork /\ t.path \in {"endpoint", "rewrite"} /\ q.pos \in Nat
    BY <1>1, <1>2 DEF Consistent, Typed, Planned, StartRecord, NoForks, SeqRecord
  <1>4. t.preserve \in BOOLEAN /\ (t.preserve => q.rw # None)
    BY <1>1, <1>2 DEF Planned, StartRecord
  <1>5. CASE t.path = "endpoint"
    <2>1. q.valid /\ t.base = q.pos /\ Selected(t) = q.read
      BY <1>1, <1>2, <1>5 DEF Planned, Selected
    <2>2. ~DropsEndpoint(t, q)
      BY <1>3, <2>1 DEF DropsEndpoint
    <2>3. Endpoint(s, held, q)
      BY <1>2, <2>1, SeqCases
    <2>4. q.read # q.rw /\ q.read \in Images
      BY <1>2, <2>3, OwnedAlone, SMTT(40)
    <2>5. CASE DropsRewrite(t, q)
      <3>1. z = DropCheckpoint(s, q.rw) /\ R = [seq EXCEPT ![c] = WithoutRewrite(q)]
        BY <1>1, <1>2, <2>2, <2>5 DEF ConsumedStore, ConsumedSeq
      <3>2. PICK w : w = WithoutRewrite(q)
        OBVIOUS
      <3>3. /\ w \in SeqRecord /\ w.role = q.role /\ w.read = q.read /\ w.write = q.write /\ w.own = q.own /\ w.rw = None
            /\ w.refs = q.refs /\ w.pos = q.pos /\ ~w.fork /\ w.valid = q.valid
        BY <1>2, <1>3, <3>2, WithoutTyped
      <3>4. R \in [Conts -> SeqRecord] /\ R[c] = w /\ \A d \in Conts : d # c => R[d] = seq[d]
        BY <1>3, <3>1, <3>2, <3>3
      <3>5. Typed(R, shared, held) /\ SameSeqs(seq, R, c)
        BY <1>3, <3>4 DEF Typed, SameSeqs
      <3>6. q.rw # None /\ ~t.preserve
        BY <2>5 DEF DropsRewrite
      <3>7. /\ Consistent(DropCheckpoint(s, seq[c].rw), R, shared, held)
            /\ Gone(DropCheckpoint(s, seq[c].rw), seq[c].rw)
            /\ SameImages(s, DropCheckpoint(s, seq[c].rw), {seq[c].rw})
            /\ s.freeHost \subseteq DropCheckpoint(s, seq[c].rw).freeHost
        BY <1>2, <3>3, <3>4, <3>5, <3>6, RewriteReleased
      <3>8. z.img[q.read] = s.img[q.read]
        BY <1>2, <2>4, <3>1, <3>7 DEF SameImages
      <3>9. NoForks(R)
        BY <3>3, <3>4 DEF NoForks
      <3> QED BY <1>1, <1>2, <1>5, <2>1, <2>2, <2>5, <3>1, <3>3, <3>4, <3>6, <3>7, <3>8, <3>9, ZenonT(40) DEF Prepared
    <2>6. CASE ~DropsRewrite(t, q)
      <3>1. z = s /\ R = seq
        BY <1>1, <1>2, <1>3, <2>2, <2>6 DEF ConsumedStore, ConsumedSeq
      <3> QED BY <1>1, <1>2, <1>4, <1>5, <2>1, <2>2, <2>6, <3>1 DEF Prepared
    <2> QED BY <2>5, <2>6
  <1>6. CASE t.path = "rewrite"
    <2>1. q.rw # None /\ t.base = q.rwf /\ Selected(t) = q.rw
      BY <1>1, <1>2, <1>6 DEF Planned, Selected
    <2>2. ~DropsRewrite(t, q)
      BY <1>6 DEF DropsRewrite
    <2>3. q.rw \in Images
      BY <1>2, <2>1, SeqCases, SMTT(40)
    <2>5. CASE DropsEndpoint(t, q)
      <3>1. z = TryRelease(s, q.read) /\ R = [seq EXCEPT ![c] = WithoutEndpoint(q)]
        BY <1>1, <1>2, <2>2, <2>5 DEF ConsumedStore, ConsumedSeq
      <3>2. PICK w : w = WithoutEndpoint(q)
        OBVIOUS
      <3>3. /\ w \in SeqRecord /\ w.role = q.role /\ w.read = None /\ w.write = None /\ w.own = "Primary"
            /\ w.rw = q.rw /\ w.rwf = q.rwf /\ w.refs = q.refs /\ ~w.fork /\ ~w.valid
        BY <1>2, <1>3, <3>2, WithoutTyped
      <3>4. R \in [Conts -> SeqRecord] /\ R[c] = w /\ \A d \in Conts : d # c => R[d] = seq[d]
        BY <1>3, <3>1, <3>2, <3>3
      <3>5. Typed(R, shared, held) /\ SameSeqs(seq, R, c)
        BY <1>3, <3>4 DEF Typed, SameSeqs
      <3>6. Endpoint(s, held, q)
        BY <1>2, <2>5, SeqCases DEF DropsEndpoint
      <3>7. Headless(R[c])
        BY <1>3, <3>3, <3>4 DEF Headless
      <3>8. /\ Consistent(TryRelease(s, seq[c].read), R, shared, held)
            /\ Gone(TryRelease(s, seq[c].read), seq[c].read)
            /\ SameImages(s, TryRelease(s, seq[c].read), {seq[c].read})
            /\ s.freeHost \subseteq TryRelease(s, seq[c].read).freeHost
        BY <1>2, <3>3, <3>4, <3>5, <3>6, <3>7, EndpointReleased
      <3>9. q.read # q.rw
        BY <1>2, <3>6, OwnedAlone
      <3>10. z.img[q.rw] = s.img[q.rw]
        BY <1>2, <2>3, <3>1, <3>8, <3>9 DEF SameImages
      <3>11. NoForks(R)
        BY <3>3, <3>4 DEF NoForks
      <3> QED BY <1>1, <1>2, <1>6, <2>1, <2>2, <2>5, <3>1, <3>3, <3>4, <3>8, <3>10, <3>11 DEF Prepared
    <2>6. CASE ~DropsEndpoint(t, q)
      <3>1. z = s /\ R = seq
        BY <1>1, <1>2, <1>3, <2>2, <2>6 DEF ConsumedStore, ConsumedSeq
      <3> QED BY <1>1, <1>2, <1>4, <1>6, <2>1, <2>2, <2>6, <3>1 DEF Prepared
    <2> QED BY <2>5, <2>6
  <1> QED BY <1>3, <1>5, <1>6

(* The promise of a start becomes a fact once the source is prepared.      *)
LEMMA PromiseKept ==
    ASSUME NEW s, NEW z, NEW t, NEW u, NEW h, SameSense(t, u), h = Selected(t), Selected(u)' = h,
           z.img[h] = s.img[h], Fits(z, t), t.fork <=> RequiresFork(s, t)
    PROVE  Feasible(z, u)'
  <1>1. /\ u.path = t.path /\ u.source = t.source /\ u.mode = t.mode /\ u.preserve = t.preserve
        /\ u.fork = t.fork
    BY DEF SameSense
  <1>2. (Splits(z, u)' <=> Splits(z, t)) /\ (Restores(z, u)' <=> Restores(z, t)) /\ (NeedsImage(u)' <=> NeedsImage(t))
    BY <1>1 DEF Splits, Restores, NeedsImage
  <1>3. Fits(z, u)' <=> Fits(z, t)
    BY <1>2 DEF Fits, NeedsDevice
  <1>4. RequiresFork(z, u)' <=> RequiresFork(s, t)
    BY <1>1 DEF RequiresFork
  <1> QED BY <1>1, <1>3, <1>4 DEF Feasible

(* PrepareSource keeps the invariant and throws nothing.                   *)
LEMMA PrepareSourceKeeps ==
    ASSUME Live, fault = "none", PrepareSource
    PROVE  Live' /\ fault' = "none"
  <1>1. PICK s, Q : Opened(s, Q)
    BY DEF Live
  <1>2. PICK t : t = txn
    OBVIOUS
  <1>3. PICK u : u = [t EXCEPT !.phase = "source"]
    OBVIOUS
  <1>4. /\ t.kind = "start" /\ t.phase = "ready" /\ txn' = u /\ held' = Contents(held)
        /\ shared' = shared /\ flight' = flight
    BY <1>2, <1>3 DEF PrepareSource
  <1>5. /\ Consistent(s, seq, shared, held) /\ NoForks(seq) /\ Planned(t)
        /\ Promised(s, t) /\ store = s /\ FlightTo(s.freeHost)
    BY <1>1, <1>2, <1>4 DEF Opened, StartPhase, StartReady
  <1>6. PICK p : p = "source"
    OBVIOUS
  <1>7. Rephased(t, u, p) /\ SameSense(t, u) /\ Shaped(t)
    <2>1. Rephased(t, u, p)
      BY <1>3, <1>5, <1>6, RephasedIs DEF Planned
    <2> QED BY <1>5, <2>1, PlannedShape DEF Rephased, SameSense
  <1>8. u.phase = "source" /\ u.kind = "start" /\ u.mode = t.mode /\ u.path = t.path /\ u.source = t.source
    BY <1>6, <1>7 DEF Rephased
  <1>9. flight' \in Seq(Copies) /\ Reserved(txn)'
    <2>1. \A x \in SharedSlots : shared[x].role \notin {"ReservedCapture", "ReservedReplacement"}
      BY <1>2, <1>4 DEF Live, Reserved
    <2> QED BY <1>4, <2>1 DEF Live, Reserved
  <1>10. CASE t.mode # "Consume"
    <2>1. store' = s /\ seq' = seq /\ fault' = fault
      BY <1>2, <1>5, <1>10 DEF PrepareSource
    <2>2. Planned(u)'
      <3>1. t.path # "root" => Unmoved(t.source)
        BY <1>4, <2>1 DEF Unmoved
      <3>2. t.mode # "Consume" => seq'[t.dest].role = "Reserved"
        BY <1>4, <1>5, <2>1 DEF Planned
      <3> QED BY <1>5, <1>7, <3>1, <3>2, Replanned
    <2>3. Feasible(s, u)'
      <3>1. Fits(s, t) /\ (t.fork <=> RequiresFork(s, t))
        BY <1>5, <1>10 DEF Promised, Consumed
      <3>2. Feasible(s, t)
        BY <3>1 DEF Feasible
      <3>3. Feasible(s, u) /\ Shaped(u)
        BY <1>7, <3>2, SameMeaning
      <3>4. u.path # "root" => Unmoved(u.source)
        BY <1>4, <2>1 DEF Unmoved
      <3> QED BY <3>3, <3>4, ShapedPromise
    <2>4. FlightTo(s.freeHost)'
      BY <1>4, <1>5 DEF FlightTo
    <2>5. StartPhase(s, u)'
      BY <1>8, <2>1, <2>2, <2>3, <2>4 DEF StartPhase, StartSource
    <2>6. Consistent(s, seq, shared, held')
      <3>1. held' = Wiped(s, held)
        BY <1>4, <2>1, ContentsAre
      <3> QED BY <1>5, <3>1, WipedConsistent
    <2>7. PICK R : R = seq
      OBVIOUS
    <2>8. Opened(s, R)'
      <3>1. Consistent(s, R, shared, held)' /\ txn'.kind = "start" /\ seq' = R /\ NoForks(R) /\ StartPhase(s, txn)'
        BY <1>4, <1>5, <1>8, <2>1, <2>5, <2>6, <2>7
      <3> QED BY <3>1 DEF Opened
    <2>9. Borrows(seq, shared)'
      BY <1>4, <2>1 DEF Live, Borrows
    <2> QED BY <1>9, <2>1, <2>8, <2>9 DEF Live
  <1>11. CASE t.mode = "Consume"
    <2>1. PICK z, R : z = ConsumedStore(s, t) /\ R = [seq EXCEPT ![t.source] = ConsumedSeq(t)]
      OBVIOUS
    <2>2. store' = z /\ seq' = R
      BY <1>2, <1>5, <1>11, <2>1 DEF PrepareSource
    <2>3. Prepared(s, t, z, R)
      BY <1>5, <1>11, <2>1, SourcePrepared
    <2>4. fault' = "none"
      <3>1. /\ DropsEndpoint(t, seq[t.source]) => Gone(z, seq[t.source].read)
            /\ DropsRewrite(t, seq[t.source]) => Gone(z, seq[t.source].rw)
        BY <2>3 DEF Prepared
      <3> QED BY <1>2, <1>5, <1>11, <2>1, <3>1 DEF PrepareSource, Checked
    <2>5. t.path \in {"endpoint", "rewrite"} /\ t.source \in Conts /\ t.dest = t.source
      BY <1>5, <1>11 DEF Planned, StartRecord
    <2>6. PICK h : h = Selected(t)
      OBVIOUS
    <2>7. Selected(u)' = h
      <3>1. CASE t.path = "endpoint"
        <4>1. h = seq[t.source].read /\ seq'[t.source].read = seq[t.source].read
          BY <2>2, <2>3, <2>6, <3>1 DEF Selected, Prepared
        <4> QED BY <1>8, <3>1, <4>1 DEF Selected
      <3>2. CASE t.path = "rewrite"
        <4>1. h = seq[t.source].rw /\ seq'[t.source].rw = seq[t.source].rw
          BY <2>2, <2>3, <2>6, <3>2 DEF Selected, Prepared
        <4> QED BY <1>8, <3>2, <4>1 DEF Selected
      <3> QED BY <2>5, <3>1, <3>2
    <2>8. Feasible(z, u)'
      <3>1. z.img[h] = s.img[h]
        BY <2>3, <2>6 DEF Prepared
      <3>2. Fits(z, t) /\ (t.fork <=> RequiresFork(s, t))
        BY <1>5, <1>11, <2>1 DEF Promised, Consumed
      <3> QED BY <1>7, <2>6, <2>7, <3>1, <3>2, PromiseKept
    <2>9. Planned(u)'
      <3>1. /\ u \in StartRecord /\ u.dest = t.dest /\ u.mode = t.mode /\ u.path = t.path /\ u.source = t.source
            /\ u.pressure = t.pressure /\ u.base = t.base /\ u.preserve = t.preserve
        BY <1>7 DEF Rephased
      <3>2. (u.mode = "Root") = (u.path = "root") /\ (u.source = None) = (u.path = "root")
        BY <1>5, <3>1 DEF Planned
      <3>3. u.path = "endpoint" => /\ u.source \in Conts /\ seq'[u.source].role = "Catalogued"
                              /\ seq'[u.source].valid /\ u.base = seq'[u.source].pos
        BY <1>5, <2>2, <2>3, <3>1 DEF Planned, Prepared
      <3>4. u.path = "rewrite" => /\ u.source \in Conts /\ seq'[u.source].role = "Catalogued"
                             /\ seq'[u.source].rw # None /\ u.base = seq'[u.source].rwf
        BY <1>5, <2>2, <2>3, <3>1 DEF Planned, Prepared
      <3>5. u.preserve => u.mode = "Consume" /\ seq'[u.source].rw # None
        BY <1>5, <2>2, <2>3, <3>1 DEF Planned, Prepared
      <3>6. u.path # "root" => u.pressure.who # u.source
        BY <1>5, <3>1 DEF Planned
      <3> QED BY <1>11, <2>5, <3>1, <3>2, <3>3, <3>4, <3>5, <3>6 DEF Planned
    <2>10. Consistent(z, R, shared, held') /\ NoForks(R)
      <3>1. held' = Wiped(z, held)
        BY <1>4, <2>2, ContentsAre
      <3> QED BY <2>3, <3>1, WipedConsistent DEF Prepared
    <2>11. FlightTo(z.freeHost)'
      BY <1>4, <1>5, <2>3 DEF FlightTo, Prepared
    <2>12. StartPhase(z, u)'
      BY <1>8, <2>2, <2>8, <2>9, <2>11 DEF StartPhase, StartSource
    <2>13. Opened(z, R)'
      <3>1. Consistent(z, R, shared, held)' /\ txn'.kind = "start" /\ seq' = R /\ NoForks(R) /\ StartPhase(z, txn)'
        BY <1>4, <1>8, <2>2, <2>10, <2>12
      <3> QED BY <3>1 DEF Opened
    <2>14. Borrows(R, shared)
      <3>1. \A c \in Conts : (R[c].role = "Active") <=> (seq[c].role = "Active")
        BY <2>3 DEF Prepared
      <3>2. \A c \in Conts : R[c].role = "Active" => R[c].refs = seq[c].refs
        BY <2>3 DEF Prepared
      <3>3. \A x \in SharedSlots : shared[x].role # "Catalogued" => shared[x].active = 0
        BY DEF Live, Borrows
      <3>4. PICK SH : SH = shared
        OBVIOUS
      <3>5. Borrows(seq, SH)
        BY <3>4 DEF Live
      <3> QED BY <3>1, <3>2, <3>3, <3>4, <3>5, BorrowsKept
    <2>15. Borrows(seq, shared)'
      BY <1>4, <2>2, <2>14
    <2> QED BY <1>9, <2>4, <2>13, <2>15 DEF Live
  <1> QED BY <1>10, <1>11

\* k is an image a lane writes in place, on the Device slot d
Lone(z, k, d) ==
    /\ z.img[k].role = "ActiveMutable" /\ z.img[k].from = None /\ z.img[k].refs = 0
    /\ z.img[k].host = None /\ z.img[k].pdev = None /\ z.img[k].phost = None /\ ~z.img[k].pinned
    /\ z.img[k].dev = d /\ d # None

\* p is the record of the lane started from q
LaneOf(q, p, n) ==
    /\ p \in SeqRecord /\ p.role = "Active" /\ p.rw = q.rw /\ p.rwf = q.rwf /\ p.pos = n /\ ~p.valid
    /\ p.stage = "prefill"

(* A lane bound to a fresh image of its own is consistent.                 *)
LEMMA LaneStarts ==
    ASSUME NEW s, NEW z, NEW Q, NEW R, NEW SH, NEW g, NEW c \in Conts, NEW k \in Images, NEW d, NEW n,
           Consistent(s, Q, SH, g), NoForks(Q), Headless(Q[c]), s.img[k].role = "Free",
           Sound(z), SameImages(s, z, {k}), Lone(z, k, d), g[d] = n,
           R \in [Conts -> SeqRecord], SameSeqs(Q, R, c), LaneOf(Q[c], R[c], n),
           R[c].read = k, R[c].write = k, ~R[c].fork, R[c].own = "Primary"
    PROVE  Consistent(z, R, SH, g)
  <1>1. Typed(R, SH, g)
    BY DEF Consistent, Typed
  <1>2. Writer(z, g, R[c])
    BY DEF Writer, Lone, LaneOf
  <1> QED BY <1>1, <1>2, AddLane DEF Lone, LaneOf

(* A reserved and reset image is a fresh image.                            *)
LEMMA ResetStarts ==
    ASSUME NEW s, Sound(s), NEW k \in Images, NEW d \in s.freeDev, s.img[k].role = "Free",
           NEW m, m = ActivateReset(ReserveDestination(s, k, d), k)
    PROVE  Sound(m) /\ SameImages(s, m, {k}) /\ Lone(m, k, d) /\ m.freeHost = s.freeHost
  <1>1. PICK b : b = ReserveDestination(s, k, d)
    OBVIOUS
  <1>2. Ready(s, b, k) /\ b.img[k].dev = d
    BY <1>1, ReadyReserved
  <1>3. Sound(b) /\ b \in Store /\ CanActivateReset(b, k) /\ d # None
    BY <1>2 DEF Ready, Sound, CanActivateReset, Quiet, HasPending
  <1>4. m = ActivateReset(b, k)
    BY <1>1
  <1>5. Sound(m)
    BY <1>3, <1>4, ActivateResetKeeps
  <1>6. /\ SameImages(b, m, {k}) /\ m.img[k].role = "ActiveMutable" /\ m.img[k].dev = b.img[k].dev
        /\ m.img[k].host = b.img[k].host /\ m.img[k].pdev = b.img[k].pdev /\ m.img[k].phost = b.img[k].phost
        /\ m.img[k].refs = b.img[k].refs /\ m.img[k].from = b.img[k].from /\ m.freeHost = b.freeHost
    BY <1>3, <1>4, ActivateFields
  <1>7. m.img[k].pinned = b.img[k].pinned
    BY <1>3, <1>4, ActivateFields, ZenonT(40)
  <1> QED BY <1>2, <1>3, <1>5, <1>6, <1>7 DEF Ready, Lone, SameImages

(* Splitting an identity takes the Device replica of its source.           *)
LEMMA SplitTakes ==
    ASSUME NEW m \in Store, NEW h \in Images, NEW k \in Images, h # k
    PROVE  SplitIdentity(m, h, k).img[h] = [m.img[h] EXCEPT !.dev = None]
  BY DEF Store, Image, SplitIdentity

(* The image that takes over a Device replica is a fresh image.            *)
LEMMA SplitStarts ==
    ASSUME NEW s, Sound(s), NEW k \in Images, NEW h \in Images, s.img[k].role = "Free", CanDropReplica(s, h),
           s.img[h].from = None,
           NEW m, m = ReserveLogicalDestination(s, k), NEW z, z = SplitIdentity(m, h, k),
           NEW r, r = DropDeviceReplica(s, h)
    PROVE  /\ CanSplitIdentity(m, h, k) /\ Sound(z) /\ SameImages(r, z, {k}) /\ Lone(z, k, s.img[h].dev)
           /\ z.freeHost = s.freeHost /\ r.img[k] = s.img[k]
  <1>1. Bare(s, m, k)
    BY BareReserved
  <1>2. h # k
    BY DEF CanDropReplica, Immutable
  <1>3. /\ Sound(m) /\ m \in Store /\ s \in Store /\ SameImages(s, m, {k}) /\ m.freeHost = s.freeHost
        /\ m.img[k].role = "ReservedDestination" /\ m.img[k].dev = None
        /\ m.img[k].host = None /\ m.img[k].pdev = None /\ m.img[k].phost = None
        /\ m.img[k].refs = 0 /\ m.img[k].pins = 0 /\ m.img[k].from = None /\ ~m.img[k].pinned
    BY <1>1 DEF Bare, Sound
  <1>4. m.img[h] = s.img[h]
    BY <1>2, <1>3 DEF SameImages
  <1>5. CanSplitIdentity(m, h, k)
    BY <1>2, <1>3, <1>4 DEF CanSplitIdentity, CanDropReplica, BareDestination, Quiet, HasPending
  <1>6. Sound(z) /\ z \in Store
    BY <1>3, <1>5, SplitKeeps DEF Sound
  <1>7. /\ SameImages(m, z, {h, k}) /\ z.img[k].role = "ActiveMutable" /\ z.img[k].dev = m.img[h].dev
        /\ z.img[k].host = m.img[k].host /\ z.img[k].pdev = m.img[k].pdev /\ z.img[k].phost = m.img[k].phost
        /\ z.img[k].refs = m.img[k].refs /\ z.img[k].from = m.img[k].from /\ z.freeHost = m.freeHost
    BY <1>2, <1>3, SplitFields
  <1>8. z.img[k].pinned = m.img[k].pinned
    BY <1>2, <1>3, SplitFields, ZenonT(40)
  <1>9. z.img[h] = [m.img[h] EXCEPT !.dev = None]
    <2>1. m \in Store /\ h # k
      BY <1>2, <1>3
    <2>2. SplitIdentity(m, h, k).img[h] = [m.img[h] EXCEPT !.dev = None]
      BY <2>1, SplitTakes
    <2> QED BY <2>2, Zenon
  <1>10. r.img[h] = [s.img[h] EXCEPT !.dev = None] /\ SameImages(s, r, {h})
    BY <1>3, DropDeviceEffect
  <1>11. SameImages(r, z, {k})
    <2>1. SUFFICES ASSUME NEW j \in Images \ {k} PROVE z.img[j] = r.img[j]
      BY DEF SameImages
    <2>2. CASE j = h
      BY <1>4, <1>9, <1>10, <2>2
    <2>3. CASE j # h
      BY <1>3, <1>7, <1>10, <2>3 DEF SameImages
    <2> QED BY <2>2, <2>3
  <1>12. Lone(z, k, s.img[h].dev)
    BY <1>3, <1>4, <1>7, <1>8 DEF Lone, CanDropReplica
  <1>13. r.img[k] = s.img[k]
    BY <1>2, <1>10 DEF SameImages
  <1> QED BY <1>3, <1>5, <1>6, <1>7, <1>11, <1>12, <1>13

\* what a fork changes
ForkTook(m, z, h, k) ==
    /\ SameImages(m, z, {h, k}) /\ z.img[h].role = m.img[h].role /\ z.img[h].dev = m.img[h].dev
    /\ z.img[h].host = m.img[h].host /\ z.img[h].pdev = m.img[h].pdev /\ z.img[h].phost = m.img[h].phost
    /\ z.img[h].refs = m.img[h].refs /\ z.img[h].from = m.img[h].from /\ z.img[h].pinned = m.img[h].pinned
    /\ z.img[k].role = "ActiveMutable" /\ z.img[k].dev = m.img[k].dev
    /\ z.img[k].host = m.img[k].host /\ z.img[k].pdev = m.img[k].pdev /\ z.img[k].phost = m.img[k].phost
    /\ z.img[k].refs = m.img[k].refs /\ z.freeHost = m.freeHost

(* What begin_fork() does to both images.                                  *)
LEMMA ForkDoes ==
    ASSUME NEW m \in Store, NEW h \in Images, NEW k \in Images, h # k
    PROVE  ForkTook(m, BeginFork(m, h, k), h, k) /\ BeginFork(m, h, k).img[k].from = h
  BY ForkFields, ForkSource, SMTT(40) DEF ForkTook

\* k waits for its fork, on the Device slot d; the stores differ there only
Waiting(s, m, k) ==
    /\ Sound(m) /\ SameImages(s, m, {k}) /\ m.img[k].role = "ReservedDestination" /\ m.img[k].dev # None
    /\ m.img[k].host = None /\ m.img[k].pdev = None /\ m.img[k].phost = None /\ m.img[k].refs = 0
    /\ m.img[k].pins = 0 /\ m.img[k].from = None /\ ~m.img[k].pinned

(* A lane that starts on a fork of a checkpoint is consistent, and         *)
(* begin_fork() cannot throw.                                              *)
LEMMA ForkStarts ==
    ASSUME NEW s, NEW m, NEW z, NEW Q, NEW R, NEW SH, NEW g, NEW c \in Conts, NEW h \in Images, NEW k \in Images, NEW n,
           Consistent(s, Q, SH, g), NoForks(Q), Headless(Q[c]), s.img[k].role = "Free",
           Waiting(s, m, k), Immutable(s.img[h]), s.img[h].dev # None, Holds(s, g, h, n),
           z = BeginFork(m, h, k),
           R \in [Conts -> SeqRecord], SameSeqs(Q, R, c), LaneOf(Q[c], R[c], n),
           R[c].read = h, R[c].write = k, R[c].fork, Keeper(R, SH, c)
    PROVE  /\ Consistent(z, R, SH, g) /\ CanBeginFork(m, h, k) /\ z.freeHost = m.freeHost
  <1>1. h # k
    BY DEF Immutable
  <1>2. m.img[h] = s.img[h] /\ Sound(m) /\ m \in Store /\ SameImages(s, m, {k})
    BY <1>1 DEF Waiting, SameImages, Sound
  <1>3. CanBeginFork(m, h, k)
    BY <1>1, <1>2 DEF CanBeginFork, Waiting, Quiet, HasPending
  <1>4. Sound(z)
    BY <1>2, <1>3, BeginForkKeeps
  <1>5. Quiet(s.img[h]) /\ s.img[h].from = None
    BY AllQuiet
  <1>6. ForkTook(m, z, h, k) /\ z.img[k].from = h
    BY <1>1, <1>2, ForkDoes
  <1>9. ~z.img[h].pinned /\ z.img[h].pdev = None /\ z.img[h].phost = None
    BY <1>2, <1>5, <1>6 DEF Quiet, HasPending, ForkTook
  <1>10. Looks(s.img[h], z.img[h]) /\ z.img[h].refs = s.img[h].refs
    BY <1>2, <1>6 DEF Looks, ForkTook
  <1>11. SameImages(s, z, {h, k})
    BY <1>2, <1>6 DEF SameImages, ForkTook
  <1>12. z.img[k].refs = 0 /\ z.img[k].host = None /\ z.img[k].pdev = None /\ z.img[k].phost = None
    BY <1>6 DEF Waiting, ForkTook
  <1>13. Typed(R, SH, g)
    BY DEF Consistent, Typed
  <1>14. R[c].rw = Q[c].rw /\ R[c].rwf = Q[c].rwf
    BY DEF LaneOf
  <1>15. Forker(z, g, R[c])
    <2>1. g[z.img[h].dev] = n
      BY <1>2, <1>6 DEF Holds, ForkTook
    <2> QED BY <1>1, <1>6, <2>1 DEF Forker, LaneOf, ForkTook
  <1>16. Consistent(z, R, SH, g)
    BY <1>4, <1>9, <1>10, <1>11, <1>12, <1>13, <1>14, <1>15, AddFork
  <1> QED BY <1>3, <1>6, <1>16 DEF ForkTook

\* what a fork starts from
ForkReady(s, m, Q, R, SH, g, c, h, k, n) ==
    /\ c \in Conts /\ h \in Images /\ k \in Images
    /\ Consistent(s, Q, SH, g) /\ NoForks(Q) /\ Headless(Q[c]) /\ s.img[k].role = "Free"
    /\ Waiting(s, m, k) /\ Immutable(s.img[h]) /\ s.img[h].dev # None /\ Holds(s, g, h, n)
    /\ R \in [Conts -> SeqRecord] /\ SameSeqs(Q, R, c) /\ LaneOf(Q[c], R[c], n)
    /\ R[c].read = h /\ R[c].write = k /\ R[c].fork /\ Keeper(R, SH, c)

(* The conclusion of ForkStarts.                                           *)
ForkJoined(m, R, SH, g, h, k, z) ==
    Consistent(z, R, SH, g) /\ CanBeginFork(m, h, k) /\ z.freeHost = m.freeHost

(* ForkStarts with its hypotheses as one predicate.                        *)
LEMMA ForkReadies ==
    ASSUME NEW s, NEW m, NEW Q, NEW R, NEW SH, NEW g, NEW c, NEW h, NEW k, NEW n,
           ForkReady(s, m, Q, R, SH, g, c, h, k, n)
    PROVE  ForkJoined(m, R, SH, g, h, k, BeginFork(m, h, k))
  <1>1. c \in Conts /\ h \in Images /\ k \in Images
    BY DEF ForkReady
  <1>2. PICK z : z = BeginFork(m, h, k)
    OBVIOUS
  <1>3. Consistent(z, R, SH, g) /\ CanBeginFork(m, h, k) /\ z.freeHost = m.freeHost
    BY <1>1, <1>2, ForkStarts DEF ForkReady
  <1> QED BY <1>2, <1>3 DEF ForkJoined

(* A lane that takes over a catalogued endpoint is consistent, and         *)
(* move_to_active() cannot throw.                                          *)
LEMMA MoveStarts ==
    ASSUME NEW s, NEW z, NEW Q, NEW R, NEW SH, NEW g, NEW c \in Conts, NEW h \in Images, NEW n,
           Consistent(s, Q, SH, g), NoForks(Q), Endpoint(s, g, Q[c]), h = Q[c].read, s.img[h].dev # None,
           Q[c].pos = n, z = MoveToActive(s, h),
           R \in [Conts -> SeqRecord], SameSeqs(Q, R, c), LaneOf(Q[c], R[c], n),
           R[c].read = h, R[c].write = h, ~R[c].fork, R[c].own = "Primary"
    PROVE  Consistent(z, R, SH, g) /\ CanThaw(s, h) /\ s.freeHost \subseteq z.freeHost
  <1>1. Sound(s) /\ s \in Store /\ Quiet(s.img[h]) /\ s.img[h].from = None /\ s.img[h].pins = 0
    BY AllQuiet DEF Consistent, Sound
  <1>2. Immutable(s.img[h]) /\ s.img[h].refs = 0
    BY DEF Endpoint
  <1>3. CanThaw(s, h)
    BY <1>1, <1>2 DEF CanThaw
  <1>4. Sound(z)
    BY <1>1, <1>3, MoveKeeps
  <1>5. SameImages(s, z, {h}) /\ s.freeHost \subseteq z.freeHost
    BY <1>1, MoveFields, SMTT(40)
  <1>6. z.img[h] = [s.img[h] EXCEPT !.role = "ActiveMutable", !.host = None]
    BY <1>1, MoveEffect, Zenon
  <1>7. PICK r : r = IF s.img[h].host = None THEN s ELSE DropHostReplica(s, h)
    OBVIOUS
  <1>8. s.img[h] \in Image
    BY <1>1 DEF Store
  <1>9. Consistent(r, Q, SH, g) /\ SameImages(s, r, {h}) /\ r.img[h] = [s.img[h] EXCEPT !.host = None]
    <2>1. CASE s.img[h].host = None
      BY <1>7, <1>8, <2>1 DEF SameImages, Image
    <2>2. CASE s.img[h].host # None
      <3>1. CanDropReplica(s, h)
        BY <1>1, <1>2, <2>2 DEF CanDropReplica
      <3>2. Consistent(DropHostReplica(s, h), Q, SH, g)
        BY <3>1, ReplicaDropped, SMTT(40)
      <3> QED BY <1>1, <1>7, <2>2, <3>2, DropHostEffect
    <2> QED BY <2>1, <2>2
  <1>10. r.img[h] \in Image /\ r.img[h].host = None /\ r.img[h].pins = 0 /\ Immutable(r.img[h]) /\ r.img[h].refs = 0
    BY <1>1, <1>2, <1>8, <1>9 DEF Image, Immutable
  <1>11. z.img[h] = [r.img[h] EXCEPT !.role = "ActiveMutable"]
    BY <1>6, <1>8, <1>9 DEF Image
  <1>12. SameImages(r, z, {h})
    BY <1>5, <1>9 DEF SameImages
  <1>13. Endpoint(r, g, Q[c])
    <2>1. Q[c].valid /\ Q[c].role = "Catalogued"
      BY DEF Endpoint
    <2> QED BY <1>9, <2>1, SeqCases
  <1>14. Typed(R, SH, g)
    BY DEF Consistent, Typed
  <1>15. /\ R[c].role = "Active" /\ ~R[c].valid /\ R[c].pos = Q[c].pos /\ R[c].rw = Q[c].rw /\ R[c].rwf = Q[c].rwf
    BY SMTT(40) DEF LaneOf
  <1>16. Consistent(z, R, SH, g)
    BY <1>4, <1>9, <1>10, <1>11, <1>12, <1>13, <1>14, <1>15, ThawEndpoint, ZenonT(40)
  <1> QED BY <1>3, <1>5, <1>16

\* m is the store s but for the images of S, which s has free
Aside(s, Q, m, S) ==
    /\ Consistent(s, Q, shared, held) /\ NoForks(Q) /\ Sound(m) /\ SameImages(s, m, S)
    /\ \A k \in S : k \in Images /\ s.img[k].role = "Free"

\* c has lost its endpoint in s1, Q1 and m1
EndpointLost(s, Q, m, S, c, s1, Q1, m1) ==
    /\ Aside(s1, Q1, m1, S) /\ SameSeqs(Q, Q1, c) /\ Headless(Q1[c]) /\ Q1[c].role = "Catalogued"
    /\ Q1[c].rw = Q[c].rw /\ Q1[c].rwf = Q[c].rwf /\ m.freeHost \subseteq m1.freeHost
    /\ (Q[c].rw # None => s1.img[Q[c].rw] = s.img[Q[c].rw])
    /\ (\A k \in S : m1.img[k] = m.img[k])
    /\ (Q[c].valid => CanRelease(m, Q[c].read))

(* Giving up the endpoint of a consumed sequence keeps the rest            *)
(* consistent.                                                             *)
LEMMA EndpointGiven ==
    ASSUME NEW s, NEW Q, NEW m, NEW S, Aside(s, Q, m, S), NEW c \in Conts, Q[c].role = "Catalogued",
           NEW m1, m1 = IF Q[c].valid THEN TryRelease(m, Q[c].read) ELSE m
    PROVE  \E s1, Q1 : EndpointLost(s, Q, m, S, c, s1, Q1, m1)
  <1>1. Consistent(s, Q, shared, held) /\ NoForks(Q) /\ Sound(m) /\ Sound(s) /\ SameImages(s, m, S)
    BY DEF Aside, Consistent
  <1>2. CASE ~Q[c].valid
    <2>1. Headless(Q[c]) /\ m1 = m
      BY <1>1, <1>2, SeqCases
    <2>2. EndpointLost(s, Q, m, S, c, s, Q, m)
      BY <1>2, <2>1 DEF EndpointLost, SameSeqs
    <2> QED BY <2>1, <2>2
  <1>3. CASE Q[c].valid
    <2>1. Endpoint(s, held, Q[c]) /\ Q[c] \in SeqRecord
      BY <1>1, <1>3, SeqCases
    <2>2. PICK r : r = Q[c].read
      OBVIOUS
    <2>3. r \in Images /\ Immutable(s.img[r]) /\ Q[c].rw # r
      BY <1>1, <2>1, <2>2, OwnedAlone DEF Endpoint
    <2>4. r \notin S
      BY <2>3 DEF Aside, Immutable
    <2>5. m.img[r] = s.img[r]
      BY <1>1, <2>3, <2>4 DEF SameImages
    <2>6. PICK p : p = WithoutEndpoint(Q[c])
      OBVIOUS
    <2>7. /\ p \in SeqRecord /\ p.role = "Catalogued" /\ p.read = None /\ p.write = None /\ ~p.fork /\ ~p.valid
          /\ p.own = "Primary" /\ p.rw = Q[c].rw /\ p.rwf = Q[c].rwf
      BY <2>1, <2>6, WithoutTyped
    <2>8. PICK Q1 : Q1 = [Q EXCEPT ![c] = p]
      OBVIOUS
    <2>9. Typed(Q1, shared, held) /\ Q1[c] = p /\ SameSeqs(Q, Q1, c)
      BY <1>1, <2>7, <2>8, TypedSeq, ZenonT(40) DEF Consistent
    <2>10. Headless(Q1[c])
      BY <2>7, <2>9 DEF Headless
    <2>11. PICK s1 : s1 = TryRelease(s, r)
      OBVIOUS
    <2>12. Consistent(s1, Q1, shared, held) /\ CanRelease(s, r)
      <3>1. Q1[c].rw = Q[c].rw /\ Q1[c].rwf = Q[c].rwf
        BY <2>7, <2>9
      <3>2. Consistent(TryRelease(s, Q[c].read), Q1, shared, held) /\ CanRelease(s, Q[c].read)
        BY <1>1, <2>1, <2>9, <2>10, <3>1, EndpointReleased
      <3> QED BY <2>2, <2>11, <3>2
    <2>13. CanRelease(m, r)
      BY <2>5, <2>12 DEF CanRelease
    <2>14. SameImages(s, s1, {r}) /\ s1.img[r] = NewObject("Free")
      BY <1>1, <2>3, <2>11, <2>12, TryReleaseSpec
    <2>15. Sound(m1) /\ SameImages(m, m1, {r}) /\ m1.img[r] = NewObject("Free") /\ m.freeHost \subseteq m1.freeHost
      <3>1. m1 = TryRelease(m, r)
        BY <1>3, <2>2
      <3> QED BY <1>1, <2>3, <2>13, <3>1, TryReleaseSpec
    <2>16. SameImages(s1, m1, S)
      <3>1. SUFFICES ASSUME NEW j \in Images \ S PROVE m1.img[j] = s1.img[j]
        BY DEF SameImages
      <3>2. CASE j = r
        BY <2>14, <2>15, <3>2
      <3>3. CASE j # r
        BY <1>1, <2>14, <2>15, <3>3 DEF SameImages
      <3> QED BY <3>2, <3>3
    <2>17. \A k \in S : k \in Images /\ s1.img[k].role = "Free" /\ m1.img[k] = m.img[k]
      BY <2>4, <2>14, <2>15 DEF Aside, SameImages
    <2>18. NoForks(Q1)
      BY <1>1, <2>7, <2>9 DEF NoForks, SameSeqs
    <2>19. Aside(s1, Q1, m1, S)
      BY <2>12, <2>15, <2>16, <2>17, <2>18 DEF Aside
    <2>20. Q[c].rw # None => s1.img[Q[c].rw] = s.img[Q[c].rw]
      BY <2>1, <2>3, <2>14 DEF SameImages, SeqRecord
    <2>21. EndpointLost(s, Q, m, S, c, s1, Q1, m1)
      BY <2>2, <2>7, <2>9, <2>10, <2>13, <2>15, <2>17, <2>19, <2>20 DEF EndpointLost
    <2> QED BY <2>21
  <1> QED BY <1>2, <1>3

\* c has lost its reference to h, which a prefix still names
ReferenceLost(s, Q, m, S, c, h, s1, Q1, m1) ==
    /\ Aside(s1, Q1, m1, S) /\ SameSeqs(Q, Q1, c) /\ Headless(Q1[c]) /\ Q1[c].rw = None /\ Q1[c].rwf = 0
    /\ m1.freeHost = m.freeHost /\ (\A k \in S : m1.img[k] = m.img[k]) /\ CanReleaseReference(m, h)
    /\ Immutable(s1.img[h]) /\ s1.img[h].dev = s.img[h].dev /\ s1.img[h].host = s.img[h].host
    /\ s1.img[h].refs = 1

(* Giving up the reference of a consumed rewrite checkpoint keeps the rest *)
(* consistent.                                                             *)
LEMMA ReferenceGiven ==
    ASSUME NEW s, NEW Q, NEW m, NEW S, Aside(s, Q, m, S), NEW c \in Conts, Headless(Q[c]),
           NEW h, h = Q[c].rw, h # None, s.img[h].refs = 2,
           NEW m1, m1 = ReleaseReference(m, h)
    PROVE  \E s1, Q1 : ReferenceLost(s, Q, m, S, c, h, s1, Q1, m1)
  <1>1. Consistent(s, Q, shared, held) /\ NoForks(Q) /\ Sound(m) /\ Sound(s) /\ SameImages(s, m, S)
    BY DEF Aside, Consistent
  <1>2. h \in Images /\ CanReleaseReference(s, h) /\ Immutable(s.img[h]) /\ Q[c] \in SeqRecord
    BY <1>1, OldCheckpoint, SeqCases
  <1>3. h \notin S
    BY <1>2 DEF Aside, Immutable
  <1>4. m.img[h] = s.img[h] /\ s.img[h] \in Image
    BY <1>1, <1>2, <1>3 DEF SameImages, Sound, Store
  <1>5. CanReleaseReference(m, h)
    BY <1>2, <1>4 DEF CanReleaseReference
  <1>6. PICK p : p = WithoutRewrite(Q[c])
    OBVIOUS
  <1>7. /\ p \in SeqRecord /\ p.role = Q[c].role /\ p.read = Q[c].read /\ p.write = Q[c].write
        /\ p.own = Q[c].own /\ p.rw = None /\ p.pos = Q[c].pos /\ p.fork = Q[c].fork /\ p.valid = Q[c].valid
    BY <1>2, <1>6, WithoutTyped
  <1>8. p.rwf = 0
    <2>1. PICK q : q = Q[c] /\ q \in SeqRecord
      BY <1>2
    <2>2. p = [q EXCEPT !.rw = None, !.rwf = 0]
      BY <1>6, <2>1 DEF WithoutRewrite
    <2> QED BY <2>1, <2>2 DEF SeqRecord
  <1>9. PICK Q1 : Q1 = [Q EXCEPT ![c] = p]
    OBVIOUS
  <1>10. Typed(Q1, shared, held) /\ Q1[c] = p /\ SameSeqs(Q, Q1, c)
    <2>1. Typed(Q, shared, held) /\ p \in SeqRecord
      BY <1>1, <1>7 DEF Consistent
    <2>2. /\ Typed([Q EXCEPT ![c] = p], shared, held) /\ [Q EXCEPT ![c] = p][c] = p
          /\ SameSeqs(Q, [Q EXCEPT ![c] = p], c)
      BY <2>1, TypedSeq
    <2> QED BY <1>9, <2>2
  <1>11. Headless(Q1[c])
    BY <1>7, <1>10 DEF Headless
  <1>12. PICK s1 : s1 = DropCheckpoint(s, h)
    OBVIOUS
  <1>13. Consistent(s1, Q1, shared, held)
    <2>1. /\ Q1[c].rw = None /\ Q1[c].role = Q[c].role /\ Q1[c].valid = Q[c].valid /\ ~Q1[c].fork
          /\ Q1[c].own = Q[c].own /\ Q1[c].read = Q[c].read /\ Q1[c].write = Q[c].write /\ Q1[c].pos = Q[c].pos
      BY <1>7, <1>10 DEF Headless
    <2>2. Consistent(DropCheckpoint(s, Q[c].rw), Q1, shared, held)
      BY <1>1, <1>10, <2>1, RewriteReleased
    <2> QED BY <1>12, <2>2
  <1>14. SameImages(s, s1, {h}) /\ Unnamed(s.img[h], s1.img[h])
    <2>1. s.img[h].refs = 1 => Quiet(s.img[h])
      OBVIOUS
    <2>2. SameImages(s, DropCheckpoint(s, h), {h}) /\ Unnamed(s.img[h], DropCheckpoint(s, h).img[h])
      BY <1>1, <1>2, <2>1, DropCheckpointSpec
    <2> QED BY <1>12, <2>2
  <1>15. s1.img[h] = [s.img[h] EXCEPT !.refs = 1]
    BY <1>14 DEF Unnamed
  <1>16. Sound(m1) /\ SameImages(m, m1, {h}) /\ m1.img[h] = [m.img[h] EXCEPT !.refs = 1] /\ m1.freeHost = m.freeHost
    <2>1. DropReference(m, h) = m1
      BY <1>5 DEF DropReference
    <2>2. m.img[h].refs - 1 = 1
      BY <1>4
    <2> QED BY <1>1, <1>2, <1>5, <2>1, <2>2, DropReferenceSpec
  <1>17. SameImages(s1, m1, S)
    <2>1. SUFFICES ASSUME NEW j \in Images \ S PROVE m1.img[j] = s1.img[j]
      BY DEF SameImages
    <2>2. CASE j = h
      BY <1>4, <1>15, <1>16, <2>2
    <2>3. CASE j # h
      BY <1>1, <1>14, <1>16, <2>3 DEF SameImages
    <2> QED BY <2>2, <2>3
  <1>18. \A k \in S : k \in Images /\ s1.img[k].role = "Free" /\ m1.img[k] = m.img[k]
    BY <1>3, <1>14, <1>16 DEF Aside, SameImages
  <1>19. NoForks(Q1)
    BY <1>1, <1>10, <1>11 DEF NoForks, SameSeqs, Headless
  <1>20. Aside(s1, Q1, m1, S)
    BY <1>13, <1>16, <1>17, <1>18, <1>19 DEF Aside
  <1>21. Immutable(s1.img[h]) /\ s1.img[h].dev = s.img[h].dev /\ s1.img[h].host = s.img[h].host /\ s1.img[h].refs = 1
    BY <1>2, <1>4, <1>15, SMTT(40) DEF Immutable, Image
  <1>22. ReferenceLost(s, Q, m, S, c, h, s1, Q1, m1)
    BY <1>5, <1>7, <1>8, <1>10, <1>11, <1>16, <1>18, <1>20, <1>21 DEF ReferenceLost
  <1> QED BY <1>22

\* the record of the lane a materialization starts, bound as q
Entry(q, t) ==
    [q EXCEPT !.role = "Active", !.pos = t.base, !.valid = FALSE,
              !.stage = "prefill", !.fresh = TRUE,
              !.offer = t.path \in {"endpoint", "rewrite"},
              !.refs = IF t.path = "shared" THEN {t.source} ELSE {}]

(* The shared prefixes a lane that starts borrows.                         *)
Borrowing(t) == IF t.path = "shared" THEN {t.source} ELSE {}

(* What starting leaves in the lane's record.                              *)
LEMMA EntryFields ==
    ASSUME NEW q \in SeqRecord, NEW t, t.base \in Nat, t.path = "shared" => t.source \in SharedSlots,
           NEW p, p = Entry(q, t)
    PROVE  /\ LaneOf(q, p, t.base) /\ p.read = q.read /\ p.write = q.write /\ p.own = q.own
           /\ (p.fork <=> q.fork) /\ p.refs = Borrowing(t)
  <1>1. PICK n \in Nat : n = t.base
    OBVIOUS
  <1>2. PICK B \in SUBSET SharedSlots : B = Borrowing(t)
    BY DEF Borrowing
  <1>3. PICK o \in BOOLEAN : o = (t.path \in {"endpoint", "rewrite"})
    <2>1. (t.path \in {"endpoint", "rewrite"}) \in BOOLEAN
      OBVIOUS
    <2> QED BY <2>1, Zenon
  <1>4. p = [q EXCEPT !.role = "Active", !.pos = n, !.valid = FALSE, !.stage = "prefill", !.fresh = TRUE,
                      !.offer = o, !.refs = B]
    BY <1>1, <1>2, <1>3, Zenon DEF Entry, Borrowing
  <1>5. /\ p.role = "Active" /\ p.rw = q.rw /\ p.rwf = q.rwf /\ p.pos = n /\ p.stage = "prefill"
        /\ p.read = q.read /\ p.write = q.write /\ p.own = q.own /\ p.refs = B
    BY <1>4 DEF SeqRecord
  <1>6. ~p.valid /\ p.fork = q.fork
    BY <1>4 DEF SeqRecord
  <1>7. p \in SeqRecord
    BY <1>4, ZenonT(40) DEF SeqRecord
  <1> QED BY <1>1, <1>2, <1>5, <1>6, <1>7 DEF LaneOf

(* A lane bound to one image.                                              *)
LEMMA BindFields ==
    ASSUME NEW q \in SeqRecord, NEW k \in Images, NEW b, b = Bind(q, k)
    PROVE  /\ b \in SeqRecord /\ b.read = k /\ b.write = k /\ ~b.fork /\ b.own = "Primary"
           /\ b.rw = q.rw /\ b.rwf = q.rwf
  <1>1. b = [q EXCEPT !.read = k, !.write = k, !.fork = FALSE, !.own = "Primary"]
    BY DEF Bind
  <1>2. b.read = k /\ b.write = k /\ b.own = "Primary" /\ b.rw = q.rw /\ b.rwf = q.rwf
    BY <1>1 DEF SeqRecord
  <1>3. ~b.fork
    BY <1>1 DEF SeqRecord
  <1>4. b \in SeqRecord
    BY <1>1, Zenon DEF SeqRecord
  <1> QED BY <1>2, <1>3, <1>4

(* A lane bound to a fork of h into k.                                     *)
ForkBind(q, h, k, own) == [Bind(q, k) EXCEPT !.read = h, !.fork = TRUE, !.own = own]

(* The fields of such a lane.                                              *)
ForkBound(q, h, k, own, b) ==
    /\ b \in SeqRecord /\ b.read = h /\ b.write = k /\ b.fork /\ b.own = own
    /\ b.rw = q.rw /\ b.rwf = q.rwf

(* Such a lane has those fields.                                           *)
LEMMA ForkBindFields ==
    ASSUME NEW q \in SeqRecord, NEW h \in Images, NEW k \in Images, NEW own, own = "Lineage" \/ own = "External"
    PROVE  ForkBound(q, h, k, own, ForkBind(q, h, k, own))
  <1>0. PICK b : b = ForkBind(q, h, k, own)
    OBVIOUS
  <1>1. PICK a : a = Bind(q, k)
    OBVIOUS
  <1>2. a \in SeqRecord /\ a.write = k /\ a.rw = q.rw /\ a.rwf = q.rwf
    BY <1>1, BindFields
  <1>3. b = [a EXCEPT !.read = h, !.fork = TRUE, !.own = own]
    BY <1>0, <1>1 DEF ForkBind
  <1>4. b.read = h /\ b.write = k /\ b.own = own /\ b.rw = q.rw /\ b.rwf = q.rwf
    BY <1>2, <1>3 DEF SeqRecord
  <1>5. b.fork
    BY <1>2, <1>3 DEF SeqRecord
  <1>6. b \in SeqRecord
    BY <1>2, <1>3 DEF SeqRecord
  <1> QED BY <1>0, <1>4, <1>5, <1>6 DEF ForkBound

(* A lane that starts borrows its prefix once.                             *)
LEMMA LaunchBorrows ==
    ASSUME NEW Q, NEW R, NEW SH \in [SharedSlots -> PrefixRecord], NEW SI, NEW c \in Conts, NEW x, Borrows(Q, SH),
           Q[c].role # "Active",
           x # None => x \in SharedSlots /\ SI[x].active = SH[x].active + 1 /\ SI[x].role = "Catalogued"
                       /\ SamePrefixes(SH, SI, x),
           x = None => SI = SH, SameSeqs(Q, R, c), R[c].role = "Active",
           R[c].refs = IF x = None THEN {} ELSE {x}
    PROVE  Borrows(R, SI)
  <1>1. SUFFICES ASSUME NEW y \in SharedSlots
                 PROVE  /\ SI[y].active = Cardinality({d \in Conts : R[d].role = "Active" /\ y \in R[d].refs})
                        /\ SI[y].role # "Catalogued" => SI[y].active = 0
    BY DEF Borrows
  <1>2. PICK B : B = {d \in Conts : Q[d].role = "Active" /\ y \in Q[d].refs}
    OBVIOUS
  <1>3. SH[y].active = Cardinality(B) /\ (SH[y].role # "Catalogued" => SH[y].active = 0) /\ IsFiniteSet(B)
    BY <1>2, ContextAssumption, FS_Subset DEF Borrows
  <1>4. CASE y # x
    <2>1. {d \in Conts : R[d].role = "Active" /\ y \in R[d].refs} = B
      BY <1>2, <1>4 DEF SameSeqs
    <2>2. SI[y] = SH[y]
      BY <1>4 DEF SamePrefixes
    <2> QED BY <1>3, <2>1, <2>2
  <1>5. CASE y = x
    <2>0. x # None
      BY <1>5, ContextAssumption
    <2>1. c \notin B
      BY <1>2
    <2>2. {d \in Conts : R[d].role = "Active" /\ y \in R[d].refs} = B \cup {c}
      <3>1. \A d \in Conts : d # c => R[d] = Q[d]
        BY DEF SameSeqs
      <3>2. R[c].role = "Active" /\ y \in R[c].refs
        BY <1>5, <2>0
      <3> QED BY <1>2, <3>1, <3>2
    <2>3. Cardinality(B \cup {c}) = Cardinality(B) + 1
      BY <1>3, <2>1, FS_AddElement
    <2> QED BY <1>3, <1>5, <2>0, <2>2, <2>3
  <1> QED BY <1>4, <1>5

\* the lane p has joined the catalogue at t's destination, over the store z
Joined(z, p, t, g) ==
    /\ Consistent(z, [seq EXCEPT ![t.dest] = p], shared, g) /\ p.role = "Active" /\ p.refs = Borrowing(t)

(* A launch whose store joins the catalogue keeps the invariant, throws    *)
(* nothing and activates the lane.                                         *)
LEMMA LaunchEnds ==
    ASSUME NEW m, NEW t, NEW f, NEW a, NEW p, NEW g, Launch(m, t), f = SourceOf(m, t), a = Activation(f.store, f.q, t),
           p = Entry(a.q, t), f.ok, a.ok, Joined(a.store, p, t, g), Planned(t), t.phase # "reserved",
           seq \in [Conts -> SeqRecord], shared \in [SharedSlots -> PrefixRecord],
           Borrows(seq, shared), fault = "none", held' = Contents(g), flight' = flight,
           flight \in Seq(Copies), FlightTo(a.store.freeHost),
           \A x \in SharedSlots : shared[x].role \notin {"ReservedCapture", "ReservedReplacement"}
    PROVE  Live' /\ fault' = "none" /\ seq'[t.dest].role = "Active"
  <1>1. store' = a.store /\ txn' = NoTxn
    BY Zenon DEF Launch
  <1>2. seq' = [seq EXCEPT ![t.dest] = p]
    BY Zenon DEF Launch, Entry
  <1>3. fault' = "none"
    <2>1. Checked(f.ok /\ a.ok)
      BY Zenon DEF Launch
    <2> QED BY <2>1 DEF Checked
  <1>4. shared' = IF t.path = "shared" THEN [shared EXCEPT ![t.source].active = @ + 1] ELSE shared
    BY Zenon DEF Launch
  <1>5. PICK c \in Conts : c = t.dest
    BY DEF Planned, StartRecord
  <1>6. seq[c].role # "Active"
    BY <1>5 DEF Planned, StartRecord
  <1>7. PICK R : R = [seq EXCEPT ![c] = p]
    OBVIOUS
  <1>8. R[c] = p /\ SameSeqs(seq, R, c) /\ seq' = R
    BY <1>2, <1>5, <1>7 DEF SameSeqs
  <1>9. Consistent(a.store, R, shared, g) /\ R[c].role = "Active" /\ R[c].refs = Borrowing(t)
    BY <1>5, <1>7, <1>8 DEF Joined
  <1>10. PICK SI : SI = shared'
    OBVIOUS
  <1>11. PICK SH : SH = shared
    OBVIOUS
  <1>12. PICK x : x = IF t.path = "shared" THEN t.source ELSE None
    OBVIOUS
  <1>13. /\ SI \in [SharedSlots -> PrefixRecord] /\ (\A y \in SharedSlots : SamePrefix(SH[y], SI[y]))
         /\ (\A y \in SharedSlots : SI[y].role = SH[y].role)
         /\ (x = None => SI = SH)
         /\ (x # None => x \in SharedSlots /\ SI[x].active = SH[x].active + 1 /\ SI[x].role = "Catalogued"
                         /\ SamePrefixes(SH, SI, x))
    <2>1. CASE t.path # "shared"
      BY <1>4, <1>10, <1>11, <1>12, <2>1 DEF SamePrefix
    <2>2. CASE t.path = "shared"
      <3>1. x \in SharedSlots /\ SH[x].role = "Catalogued" /\ x # None /\ SH[x] \in PrefixRecord
        BY <1>11, <1>12, <2>2, ContextAssumption DEF Planned
      <3>2. SI = [SH EXCEPT ![x].active = @ + 1]
        BY <1>4, <1>10, <1>11, <1>12, <2>2
      <3>3. \A y \in SharedSlots : y # x => SI[y] = SH[y]
        BY <1>11, <3>2
      <3>4. SI[x] = [SH[x] EXCEPT !.active = SH[x].active + 1]
        BY <1>11, <3>1, <3>2
      <3>5. /\ SI[x].role = SH[x].role /\ SI[x].img = SH[x].img /\ SI[x].f = SH[x].f
            /\ SI[x].active = SH[x].active + 1
        BY <3>1, <3>4 DEF PrefixRecord
      <3>6. SI[x] \in PrefixRecord
        BY <3>1, <3>4, SMTT(40) DEF PrefixRecord
      <3>7. SI \in [SharedSlots -> PrefixRecord]
        BY <1>11, <3>2, <3>3, <3>6
      <3> QED BY <3>1, <3>3, <3>5, <3>7 DEF SamePrefix, SamePrefixes
    <2> QED BY <2>1, <2>2
  <1>14. Consistent(a.store, R, SI, g)
    BY <1>9, <1>11, <1>13, PrefixesRestated
  <1>15. Borrows(R, SI)
    <2>1. Borrows(seq, SH) /\ SH \in [SharedSlots -> PrefixRecord]
      BY <1>11
    <2>2. R[c].refs = IF x = None THEN {} ELSE {x}
      BY <1>9, <1>12, <1>13, ContextAssumption DEF Borrowing, Planned
    <2> QED BY <1>6, <1>8, <1>9, <1>13, <2>1, <2>2, LaunchBorrows
  <1>16. \A y \in SharedSlots : SI[y].role \notin {"ReservedCapture", "ReservedReplacement"}
    BY <1>11, <1>13
  <1>17. Live'
    <2>1. Consistent(store', R, SI, g) /\ FlightTo(store'.freeHost)
      BY <1>1, <1>14
    <2>2. Borrows(seq', shared')
      BY <1>8, <1>10, <1>15
    <2> QED BY <1>1, <1>8, <1>10, <1>16, <2>1, <2>2, LiveIdle
  <1>18. seq'[t.dest].role = "Active"
    BY <1>5, <1>8, <1>9
  <1> QED BY <1>3, <1>17, <1>18

\* a materialization t that is about to start over the store s
Going(s, t) ==
    /\ Consistent(s, seq, shared, held) /\ NoForks(seq) /\ Planned(t) /\ t.phase # "reserved" /\ Feasible(s, t)
    /\ t.image = (IF NeedsImage(t) THEN NextImage(s) ELSE None)

\* what a start can count on: h is its source, k its image, c its continuation, n its base
Ahead(s, t, h, k, c, n) ==
    /\ c \in Conts /\ c = t.dest /\ h = Selected(t) /\ n = t.base /\ n \in Nat /\ seq[c].role # "Active"
    /\ t.mode \in {"Root", "Retain", "Consume"} /\ t.path \in {"root", "endpoint", "rewrite", "shared"}
    /\ (t.mode = "Root" <=> t.path = "root")
    /\ (t.mode # "Consume" => Headless(seq[c]) /\ seq[c].rw = None)
    /\ (t.mode = "Consume" => c = t.source /\ seq[c].role = "Catalogued" /\ t.path \in {"endpoint", "rewrite"})
    /\ (t.path = "shared" => t.source \in SharedSlots)
    /\ (t.path # "root" => /\ h \in Images /\ Immutable(s.img[h]) /\ Holds(s, held, h, n) /\ h # None
                           /\ Quiet(s.img[h]) /\ s.img[h].from = None /\ (s.img[h].dev # None \/ s.img[h].host # None))
    /\ (NeedsImage(t) => k = NextImage(s) /\ t.image = k /\ k \in Images /\ k # None /\ s.img[k].role = "Free")
    /\ (~NeedsImage(t) => t.image = None)
    /\ (NeedsDevice(s, t) => NextDev(s) \in s.freeDev /\ NextDev(s) \in DevSlots)

(* What a start that is about to launch knows of its source and of the     *)
(* image and slot it takes.                                                *)
LEMMA GoingFacts ==
    ASSUME NEW s, NEW t, Going(s, t)
    PROVE  Ahead(s, t, Selected(t), NextImage(s), t.dest, t.base)
  <1>0. PICK h, k, c, n : h = Selected(t) /\ k = NextImage(s) /\ c = t.dest /\ n = t.base
    OBVIOUS
  <1>1. /\ Consistent(s, seq, shared, held) /\ NoForks(seq) /\ Planned(t) /\ Sound(s) /\ Fits(s, t)
    BY DEF Going, Consistent, Feasible
  <1>2. c \in Conts /\ n \in Nat
    BY <1>0, <1>1 DEF Planned, StartRecord
  <1>3. /\ t.mode \in {"Root", "Retain", "Consume"} /\ t.path \in {"root", "endpoint", "rewrite", "shared"}
        /\ (t.mode = "Root" <=> t.path = "root")
    BY <1>1 DEF Planned, StartRecord
  <1>4. t.mode # "Consume" => seq[c].role = "Reserved"
    BY <1>0, <1>1 DEF Going, Planned
  <1>5. t.mode # "Consume" => Headless(seq[c]) /\ seq[c].rw = None
    BY <1>1, <1>2, <1>4, SeqCases
  <1>6. t.mode = "Consume" => c = t.source /\ seq[c].role = "Catalogued" /\ t.path \in {"endpoint", "rewrite"}
    BY <1>0, <1>1, <1>3 DEF Planned
  <1>7. seq[c].role # "Active"
    BY <1>4, <1>6
  <1>8. t.path = "shared" => t.source \in SharedSlots
    BY <1>1 DEF Planned
  <1>9. ASSUME t.path # "root"
        PROVE  /\ h \in Images /\ Immutable(s.img[h]) /\ Holds(s, held, h, n) /\ h # None
               /\ Quiet(s.img[h]) /\ s.img[h].from = None /\ (s.img[h].dev # None \/ s.img[h].host # None)
    <2>1. h \in Images /\ Immutable(s.img[h]) /\ Holds(s, held, h, n)
      BY <1>0, <1>1, <1>9, SelectedOK
    <2>2. Quiet(s.img[h]) /\ s.img[h].from = None
      BY <1>1, <2>1, AllQuiet
    <2>3. s.img[h].dev # None \/ s.img[h].host # None
      BY <1>1, <2>1 DEF Sound, Shapes, Shape, Immutable
    <2> QED BY <2>1, <2>2, <2>3, StoreAssumption
  <1>10. NeedsImage(t) => k = NextImage(s) /\ t.image = k /\ k \in Images /\ k # None /\ s.img[k].role = "Free"
    BY <1>0, <1>1, NextTaken, StoreAssumption DEF Fits, Going
  <1>11. ~NeedsImage(t) => t.image = None
    BY DEF Going
  <1>12. NeedsDevice(s, t) => NextDev(s) \in s.freeDev /\ NextDev(s) \in DevSlots
    BY <1>1, NextTaken DEF Fits
  <1> QED BY <1>0, <1>2, <1>3, <1>5, <1>6, <1>7, <1>8, <1>9, <1>10, <1>11, <1>12 DEF Ahead

\* the records Q1 and the store s1 behind m1, in which c has nothing bound; its lane starts from q
Yields(s1, Q1, m1, q, c, k) ==
    /\ Aside(s1, Q1, m1, {k}) /\ SameSeqs(seq, Q1, c) /\ Headless(Q1[c]) /\ q \in SeqRecord
    /\ q.rw = Q1[c].rw /\ q.rwf = Q1[c].rwf

(* A lane on an image of its own joins the catalogue.                      *)
LEMMA LaneJoins ==
    ASSUME NEW s1, NEW Q1, NEW m1, NEW q, NEW c \in Conts, NEW k \in Images, NEW d, NEW g, NEW t, NEW p, c = t.dest,
           Yields(s1, Q1, m1, q, c, k), Consistent(s1, Q1, shared, g), seq \in [Conts -> SeqRecord],
           Lone(m1, k, d), g[d] = t.base, t.base \in Nat, t.path = "shared" => t.source \in SharedSlots,
           p = Entry(Bind(q, k), t)
    PROVE  Joined(m1, p, t, g)
  <1>1. PICK b : b = Bind(q, k)
    OBVIOUS
  <1>2. b \in SeqRecord /\ b.read = k /\ b.write = k /\ ~b.fork /\ b.own = "Primary" /\ b.rw = q.rw /\ b.rwf = q.rwf
    BY <1>1, BindFields DEF Yields
  <1>3. /\ LaneOf(b, p, t.base) /\ p.read = b.read /\ p.write = b.write /\ p.own = b.own
        /\ (p.fork <=> b.fork) /\ p.refs = Borrowing(t)
    BY <1>1, <1>2, EntryFields
  <1>4. PICK R : R = [seq EXCEPT ![c] = p]
    OBVIOUS
  <1>5. p \in SeqRecord /\ p.role = "Active"
    BY <1>3 DEF LaneOf
  <1>6. R \in [Conts -> SeqRecord] /\ R[c] = p /\ SameSeqs(Q1, R, c)
    BY <1>4, <1>5 DEF SameSeqs, Yields
  <1>7. LaneOf(Q1[c], R[c], t.base)
    BY <1>2, <1>3, <1>6 DEF LaneOf, Yields
  <1>8. /\ NoForks(Q1) /\ Headless(Q1[c]) /\ s1.img[k].role = "Free" /\ Sound(m1) /\ SameImages(s1, m1, {k})
    BY DEF Yields, Aside
  <1>9. R[c].read = k /\ R[c].write = k /\ ~R[c].fork /\ R[c].own = "Primary"
    BY <1>2, <1>3, <1>6
  <1>10. PICK SH : SH = shared
    OBVIOUS
  <1>11. Consistent(s1, Q1, SH, g)
    BY <1>10
  <1>12. Consistent(m1, R, SH, g)
    BY <1>6, <1>7, <1>8, <1>9, <1>11, LaneStarts
  <1> QED BY <1>3, <1>4, <1>5, <1>10, <1>12 DEF Joined

\* the fork a lane starts with
Forking(m1, z, h, k) == CanBeginFork(m1, h, k) /\ z.freeHost = m1.freeHost

(* A lane on a fork joins the catalogue.                                   *)
LEMMA ForkJoins ==
    ASSUME NEW s1, NEW Q1, NEW m1, NEW q, NEW c \in Conts, NEW h \in Images, NEW k \in Images, NEW t, NEW p, NEW z, c = t.dest,
           NEW own \in {"Lineage", "External"}, NEW b,
           Yields(s1, Q1, m1, q, c, k), seq \in [Conts -> SeqRecord],
           Waiting(s1, m1, k), Immutable(s1.img[h]), s1.img[h].dev # None, Holds(s1, held, h, t.base),
           t.base \in Nat, t.path = "shared" => t.source \in SharedSlots,
           b = ForkBind(q, h, k, own),
           p = Entry(b, t), z = BeginFork(m1, h, k),
           \/ own = "Lineage" /\ q.rw = h
           \/ \E x \in SharedSlots : shared[x].img = h
           \/ own = "External" /\ \E w \in Conts : w # c /\ seq[w].role = "Catalogued" /\ h \in {seq[w].read, seq[w].rw}
    PROVE  Joined(z, p, t, held) /\ Forking(m1, z, h, k)
  <1>2. b \in SeqRecord /\ b.read = h /\ b.write = k /\ b.fork /\ b.own = own /\ b.rw = q.rw /\ b.rwf = q.rwf
    <2>1. q \in SeqRecord
      BY DEF Yields
    <2>2. ForkBound(q, h, k, own, b)
      BY <2>1, ForkBindFields
    <2> QED BY <2>2 DEF ForkBound
  <1>3. /\ LaneOf(b, p, t.base) /\ p.read = b.read /\ p.write = b.write /\ p.own = b.own
        /\ (p.fork <=> b.fork) /\ p.refs = Borrowing(t)
    BY <1>2, EntryFields
  <1>4. PICK R : R = [seq EXCEPT ![c] = p]
    OBVIOUS
  <1>5. p \in SeqRecord /\ p.role = "Active" /\ p.rw = q.rw
    BY <1>2, <1>3 DEF LaneOf
  <1>6. R \in [Conts -> SeqRecord] /\ R[c] = p /\ SameSeqs(Q1, R, c)
    BY <1>4, <1>5 DEF SameSeqs, Yields
  <1>7. LaneOf(Q1[c], R[c], t.base)
    BY <1>2, <1>3, <1>6 DEF LaneOf, Yields
  <1>8. /\ Consistent(s1, Q1, shared, held) /\ NoForks(Q1) /\ Headless(Q1[c]) /\ s1.img[k].role = "Free"
    BY DEF Yields, Aside
  <1>9. R[c].read = h /\ R[c].write = k /\ R[c].fork /\ R[c].own = own
    BY <1>2, <1>3, <1>6
  <1>10. Keeper(R, shared, c)
    <2>1. CASE own = "Lineage" /\ q.rw = h
      BY <1>5, <1>6, <1>9, <2>1 DEF Keeper
    <2>2. CASE \E x \in SharedSlots : shared[x].img = h
      BY <1>9, <2>2 DEF Keeper
    <2>3. CASE own = "External" /\ \E w \in Conts : w # c /\ seq[w].role = "Catalogued" /\ h \in {seq[w].read, seq[w].rw}
      <3>1. PICK w \in Conts : w # c /\ seq[w].role = "Catalogued" /\ h \in {seq[w].read, seq[w].rw}
        BY <2>3
      <3>2. R[w] = seq[w]
        BY <1>4, <3>1
      <3> QED BY <1>9, <2>3, <3>1, <3>2 DEF Keeper
    <2> QED BY <2>1, <2>2, <2>3
  <1>11. Consistent(z, R, shared, held) /\ CanBeginFork(m1, h, k) /\ z.freeHost = m1.freeHost
    <2>1. PICK n : n = t.base
      OBVIOUS
    <2>2. PICK SH, g : SH = shared /\ g = held
      OBVIOUS
    <2>3. Holds(s1, g, h, n) /\ LaneOf(Q1[c], R[c], n) /\ Consistent(s1, Q1, SH, g) /\ Keeper(R, SH, c)
      BY <1>7, <1>8, <1>10, <2>1, <2>2
    <2>4. ForkReady(s1, m1, Q1, R, SH, g, c, h, k, n)
      BY <1>6, <1>8, <1>9, <2>3 DEF ForkReady
    <2>5. ForkJoined(m1, R, SH, g, h, k, BeginFork(m1, h, k))
      BY <2>4, ForkReadies
    <2> QED BY <2>2, <2>5 DEF ForkJoined
  <1> QED BY <1>3, <1>4, <1>5, <1>11 DEF Joined, Forking

(* A destination that binds nothing gives up nothing.                      *)
LEMMA Vacant ==
    ASSUME NEW s, NEW m, NEW k, Aside(s, seq, m, {k}), NEW c \in Conts, Headless(seq[c]), seq[c].rw = None
    PROVE  \E Q1 : Yields(s, Q1, m, FreeSeq, c, k)
  <1>1. Consistent(s, seq, shared, held) /\ seq \in [Conts -> SeqRecord] /\ NoForks(seq)
    BY DEF Aside, Consistent, Typed
  <1>2. PICK Q1 : Q1 = [seq EXCEPT ![c] = FreeSeq]
    OBVIOUS
  <1>3. FreeSeq \in SeqRecord /\ Headless(FreeSeq) /\ FreeSeq.rw = None
    BY FreeSeqType
  <1>4. Q1 \in [Conts -> SeqRecord] /\ Q1[c] = FreeSeq /\ SameSeqs(seq, Q1, c)
    BY <1>1, <1>2, <1>3 DEF SameSeqs
  <1>5. \A d \in Conts : SameBinding(seq[d], Q1[d])
    <2>1. SUFFICES ASSUME NEW d \in Conts PROVE SameBinding(seq[d], Q1[d])
      OBVIOUS
    <2>2. CASE d = c
      <3>1. PICK q \in SeqRecord : q = seq[c]
        BY <1>1
      <3>2. q.fork = FALSE /\ q.valid = FALSE
        BY <3>1 DEF Headless, SeqRecord
      <3>3. FreeSeq.fork = FALSE /\ FreeSeq.valid = FALSE
        BY DEF FreeSeq
      <3>4. Headless(q) /\ q.rw = None
        BY <3>1
      <3>5. SameBinding(q, FreeSeq)
        BY <1>3, <3>2, <3>3, <3>4 DEF SameBinding, Headless
      <3> QED BY <1>4, <2>2, <3>1, <3>5
    <2>3. CASE d # c
      <3>1. Q1[d] = seq[d] /\ ~seq[d].fork
        BY <1>1, <1>4, <2>3 DEF SameSeqs, NoForks
      <3> QED BY <3>1 DEF SameBinding
    <2> QED BY <2>2, <2>3
  <1>6. Consistent(s, Q1, shared, held)
    BY <1>1, <1>4, <1>5, SeqsRestated
  <1>7. NoForks(Q1)
    BY <1>1, <1>3, <1>4 DEF NoForks, SameSeqs, Headless
  <1>8. Yields(s, Q1, m, FreeSeq, c, k)
    BY <1>3, <1>4, <1>6, <1>7 DEF Yields, Aside
  <1> QED BY <1>8

(* A rewrite checkpoint is referenced by its sequence and by at most one   *)
(* shared prefix.                                                          *)
LEMMA RewriteRefs ==
    ASSUME NEW s, NEW Q, NEW SH, NEW g, Consistent(s, Q, SH, g), NEW c \in Conts, Q[c].rw # None, NEW h, h = Q[c].rw
    PROVE  /\ s.img[h].refs \in {1, 2}
           /\ s.img[h].refs = 2 => \E x \in SharedSlots : SH[x].img = h
  <1>1. h \in Images
    BY SeqCases
  <1>2. s.img[h].refs = NamedByRewrite(Q, h) + NamedByPrefix(SH, h)
    BY <1>1 DEF Consistent, ImageOK
  <1>3. NamedByRewrite(Q, h) = 1
    BY DEF NamedByRewrite
  <1>4. NamedByPrefix(SH, h) = 0 \/ (NamedByPrefix(SH, h) = 1 /\ \E x \in SharedSlots : SH[x].img = h)
    BY DEF NamedByPrefix
  <1> QED BY <1>2, <1>3, <1>4

\* the source t consumes, and the store and records left when it has yielded
Consuming(s, t, m, h, k, c) ==
    /\ Aside(s, seq, m, {k}) /\ c \in Conts /\ c = t.source /\ seq[c].role = "Catalogued"
    /\ t.mode = "Consume" /\ t.path = "rewrite" /\ h = seq[c].rw /\ h # None /\ t.preserve \in BOOLEAN
    /\ (~t.preserve => s.img[h].refs = 2)

(* The consumed source has given up what the lane does not keep.           *)
Yielded(s, t, m, h, k, c, s1, Q1, f) ==
    /\ Yields(s1, Q1, f.store, f.q, c, k) /\ f.ok /\ f.store.img[k] = m.img[k] /\ m.freeHost \subseteq f.store.freeHost
    /\ Immutable(s1.img[h]) /\ s1.img[h].dev = s.img[h].dev /\ s1.img[h].host = s.img[h].host
    /\ (t.preserve => f.q.rw = h /\ s1.img[h].refs = s.img[h].refs)
    /\ (~t.preserve => f.q.rw = None /\ s1.img[h].refs = 1)

(* A consumed source gives up what the lane does not keep, and nothing it  *)
(* calls throws.                                                           *)
LEMMA SourceYields ==
    ASSUME NEW s, NEW t, NEW m, NEW h, NEW k, NEW c, Consuming(s, t, m, h, k, c)
    PROVE  \E s1, Q1 : Yielded(s, t, m, h, k, c, s1, Q1, SourceOf(m, t))
  <1>1. PICK f : f = SourceOf(m, t)
    OBVIOUS
  <1>2. /\ Aside(s, seq, m, {k}) /\ c \in Conts /\ c = t.source /\ seq[c].role = "Catalogued"
        /\ t.mode = "Consume" /\ t.path = "rewrite" /\ h = seq[c].rw /\ h # None /\ t.preserve \in BOOLEAN
        /\ (~t.preserve => s.img[h].refs = 2)
    BY DEF Consuming
  <1>3. PICK m1 : m1 = IF seq[c].valid THEN TryRelease(m, seq[c].read) ELSE m
    OBVIOUS
  <1>4. PICK Q : Q = seq
    OBVIOUS
  <1>5. PICK s1, Q1 : EndpointLost(s, Q, m, {k}, c, s1, Q1, m1)
    <2>1. Aside(s, Q, m, {k}) /\ Q[c].role = "Catalogued" /\ m1 = IF Q[c].valid THEN TryRelease(m, Q[c].read) ELSE m
      BY <1>2, <1>3, <1>4
    <2> QED BY <1>2, <2>1, EndpointGiven
  <1>6. /\ Aside(s1, Q1, m1, {k}) /\ SameSeqs(seq, Q1, c) /\ Headless(Q1[c])
        /\ Q1[c].rw = h /\ Q1[c].rwf = seq[c].rwf /\ m.freeHost \subseteq m1.freeHost
        /\ s1.img[h] = s.img[h] /\ m1.img[k] = m.img[k]
        /\ (seq[c].valid => CanRelease(m, seq[c].read))
    BY <1>2, <1>4, <1>5 DEF EndpointLost
  <1>7. seq[c] \in SeqRecord /\ Immutable(s.img[h]) /\ h \in Images
    BY <1>2, SeqCases DEF Aside
  <1>8. CASE t.preserve
    <2>1. f.store = m1 /\ f.q = seq[c]
      BY <1>1, <1>2, <1>3, <1>8 DEF SourceOf
    <2>2. f.ok
      BY <1>1, <1>2, <1>6, <1>8 DEF SourceOf
    <2>3. Yields(s1, Q1, f.store, f.q, c, k)
      BY <1>2, <1>6, <1>7, <2>1 DEF Yields
    <2>4. Yielded(s, t, m, h, k, c, s1, Q1, f)
      BY <1>2, <1>6, <1>7, <1>8, <2>1, <2>2, <2>3 DEF Yielded
    <2> QED BY <1>1, <2>4
  <1>9. CASE ~t.preserve
    <2>1. PICK m2 : m2 = ReleaseReference(m1, h)
      OBVIOUS
    <2>2. PICK s2, Q2 : ReferenceLost(s1, Q1, m1, {k}, c, h, s2, Q2, m2)
      <3>1. s1.img[h].refs = 2 /\ h = Q1[c].rw
        BY <1>2, <1>6, <1>9
      <3> QED BY <1>2, <1>6, <2>1, <3>1, ReferenceGiven
    <2>3. /\ Aside(s2, Q2, m2, {k}) /\ SameSeqs(Q1, Q2, c) /\ Headless(Q2[c]) /\ Q2[c].rw = None /\ Q2[c].rwf = 0
          /\ m2.freeHost = m1.freeHost /\ m2.img[k] = m1.img[k] /\ CanReleaseReference(m1, h)
          /\ Immutable(s2.img[h]) /\ s2.img[h].dev = s1.img[h].dev /\ s2.img[h].host = s1.img[h].host
          /\ s2.img[h].refs = 1
      BY <2>2 DEF ReferenceLost
    <2>4. f.store = m2 /\ f.q = WithoutRewrite(seq[c])
      BY <1>1, <1>2, <1>3, <1>9, <2>1 DEF SourceOf
    <2>5. f.ok
      BY <1>1, <1>2, <1>3, <1>6, <1>9, <2>3 DEF SourceOf
    <2>6. f.q \in SeqRecord /\ f.q.rw = None
      BY <1>7, <2>4, WithoutTyped
    <2>7. f.q.rwf = 0
      <3>1. PICK q : q = seq[c] /\ q \in SeqRecord
        BY <1>7
      <3>2. f.q = [q EXCEPT !.rw = None, !.rwf = 0]
        BY <2>4, <3>1 DEF WithoutRewrite
      <3> QED BY <3>1, <3>2 DEF SeqRecord
    <2>8. SameSeqs(seq, Q2, c)
      BY <1>6, <2>3 DEF SameSeqs
    <2>9. Yields(s2, Q2, f.store, f.q, c, k)
      BY <2>3, <2>4, <2>6, <2>7, <2>8 DEF Yields
    <2>10. Yielded(s, t, m, h, k, c, s2, Q2, f)
      BY <1>2, <1>6, <1>9, <2>3, <2>4, <2>5, <2>6, <2>9 DEF Yielded
    <2> QED BY <1>1, <2>10
  <1> QED BY <1>2, <1>8, <1>9

\* the start of t over the store m succeeds and leaves the slots containing g
Good(m, t, g) ==
    \E f, a, p : /\ f = SourceOf(m, t) /\ a = Activation(f.store, f.q, t) /\ p = Entry(a.q, t) /\ f.ok /\ a.ok
                 /\ Joined(a.store, p, t, g) /\ m.freeHost \subseteq a.store.freeHost

(* A start that is about to launch has a consistent state.                 *)
LEMMA GoingBase ==
    ASSUME NEW s, NEW t, Going(s, t)
    PROVE  /\ Consistent(s, seq, shared, held) /\ NoForks(seq) /\ Planned(t) /\ Sound(s) /\ seq \in [Conts -> SeqRecord]
           /\ held \in [Slots -> Nat] /\ (t.fork <=> RequiresFork(s, t)) /\ t.fork \in BOOLEAN /\ t.preserve \in BOOLEAN
  BY DEF Going, Consistent, Typed, Feasible, Planned, StartRecord

(* A start from the root launches.                                         *)
LEMMA RootLaunches ==
    ASSUME NEW s, NEW t, Going(s, t), t.path = "root", NEW m, m = PreparedStore(s, t),
           NEW g, g = [held EXCEPT ![m.img[t.image].dev] = 0]
    PROVE  Good(m, t, g) /\ m.freeHost = s.freeHost
  <1>1. PICK h, k, c, n : Ahead(s, t, h, k, c, n)
    BY GoingFacts
  <1>2. /\ Consistent(s, seq, shared, held) /\ NoForks(seq) /\ Planned(t) /\ Sound(s) /\ seq \in [Conts -> SeqRecord]
        /\ held \in [Slots -> Nat]
    BY GoingBase
  <1>3. t.mode = "Root" /\ NeedsImage(t) /\ NeedsDevice(s, t)
    BY <1>1 DEF Ahead, NeedsImage, NeedsDevice, Splits
  <1>4. PICK d : d = NextDev(s)
    OBVIOUS
  <1>5. /\ k = NextImage(s) /\ t.image = k /\ k \in Images /\ s.img[k].role = "Free" /\ c \in Conts /\ c = t.dest
        /\ d \in s.freeDev /\ d \in DevSlots /\ Headless(seq[c]) /\ seq[c].rw = None
    <2>1. k = NextImage(s) /\ t.image = k /\ k \in Images /\ s.img[k].role = "Free"
      BY <1>1, <1>3, Zenon DEF Ahead
    <2>2. c \in Conts /\ c = t.dest
      BY <1>1, Zenon DEF Ahead
    <2>3. d \in s.freeDev /\ d \in DevSlots
      BY <1>1, <1>3, <1>4, Zenon DEF Ahead
    <2>4. t.mode # "Consume"
      BY <1>3
    <2>5. Headless(seq[c]) /\ seq[c].rw = None
      BY <1>1, <2>4, Zenon DEF Ahead
    <2> QED BY <2>1, <2>2, <2>3, <2>5
  <1>6. m = ActivateReset(ReserveDestination(s, k, d), k)
    <2>1. ~Restores(s, t) /\ ~Splits(s, t)
      BY <1>3 DEF Restores, Splits
    <2>2. m = ActivateReset(ReserveDestination(s, NextImage(s), NextDev(s)), NextImage(s))
      BY <2>1, Zenon DEF PreparedStore
    <2> QED BY <1>4, <1>5, <2>2
  <1>7. Sound(m) /\ SameImages(s, m, {k}) /\ Lone(m, k, d) /\ m.freeHost = s.freeHost
    BY <1>2, <1>5, <1>6, ResetStarts
  <1>8. Aside(s, seq, m, {k})
    BY <1>2, <1>5, <1>7 DEF Aside
  <1>9. PICK Q1 : Yields(s, Q1, m, FreeSeq, c, k)
    BY <1>5, <1>8, Vacant
  <1>10. d \in Slots /\ g = [held EXCEPT ![d] = 0] /\ g[d] = 0 /\ g \in [Slots -> Nat]
    <2>1. m.img[t.image].dev = d
      BY <1>5, <1>7 DEF Lone
    <2>2. d \in Slots
      BY <1>5 DEF Slots
    <2> QED BY <1>2, <2>1, <2>2
  <1>11. Consistent(s, Q1, shared, g)
    <2>1. Consistent(s, Q1, shared, held)
      BY <1>9 DEF Yields, Aside
    <2>2. \A e \in Slots : e \notin s.freeDev \cup s.freeHost => g[e] = held[e]
      BY <1>2, <1>5, <1>10
    <2> QED BY <1>10, <2>1, <2>2, FreeContents
  <1>12. PICK f : f = SourceOf(m, t)
    OBVIOUS
  <1>13. f.store = m /\ f.q = FreeSeq /\ f.ok
    BY <1>3, <1>12 DEF SourceOf
  <1>14. PICK a : a = Activation(f.store, f.q, t)
    OBVIOUS
  <1>15. a.store = m /\ a.q = Bind(FreeSeq, k) /\ a.ok
    BY <1>5, <1>7, <1>13, <1>14 DEF Activation, Lone
  <1>16. PICK p : p = Entry(a.q, t)
    OBVIOUS
  <1>17. t.base = 0
    BY <1>2 DEF Planned
  <1>18. Joined(m, p, t, g)
    <2>1. PICK q : q = FreeSeq
      OBVIOUS
    <2>2. Yields(s, Q1, m, q, c, k) /\ p = Entry(Bind(q, k), t)
      BY <1>9, <1>15, <1>16, <2>1
    <2>3. g[d] = t.base /\ t.base \in Nat /\ (t.path = "shared" => t.source \in SharedSlots)
      BY <1>10, <1>17
    <2> QED BY <1>2, <1>5, <1>7, <1>11, <2>2, <2>3, LaneJoins
  <1>19. Good(m, t, g)
    BY <1>12, <1>13, <1>14, <1>15, <1>16, <1>18 DEF Good
  <1> QED BY <1>7, <1>19

(* A consumed source that is forked is a rewrite checkpoint.               *)
LEMMA ForkedSource ==
    ASSUME NEW s, NEW t, Going(s, t), t.mode = "Consume", NEW c, c = t.dest, NEW h, h = Selected(t)
    PROVE  /\ c \in Conts /\ c = t.source /\ seq[c].role = "Catalogued" /\ h \in Images
           /\ t.path = "rewrite" => h = seq[c].rw /\ h # None /\ t.base = seq[c].rwf /\ s.img[h].refs \in {1, 2}
           /\ t.path = "endpoint" => h = seq[c].read /\ seq[c].valid /\ t.base = seq[c].pos /\ s.img[h].refs = 0
           /\ t.path \in {"endpoint", "rewrite"}
           /\ t.fork => t.path = "rewrite" /\ (~t.preserve => s.img[h].refs = 2)
           /\ ~t.fork /\ t.path = "rewrite" => ~t.preserve /\ s.img[h].refs = 1
  <1>1. Ahead(s, t, Selected(t), NextImage(s), t.dest, t.base)
    BY GoingFacts
  <1>2. /\ Consistent(s, seq, shared, held) /\ NoForks(seq) /\ Planned(t) /\ (t.fork <=> RequiresFork(s, t))
    BY GoingBase
  <1>3. c \in Conts /\ c = t.source /\ seq[c].role = "Catalogued" /\ h \in Images /\ t.path \in {"endpoint", "rewrite"}
    BY <1>1 DEF Ahead
  <1>4. t.path = "rewrite" => h = seq[c].rw /\ h # None /\ t.base = seq[c].rwf
    BY <1>2, <1>3 DEF Planned, Selected
  <1>5. t.path = "rewrite" => s.img[h].refs \in {1, 2}
    <2>1. PICK Q : Q = seq
      OBVIOUS
    <2> QED BY <1>2, <1>3, <1>4, <2>1, RewriteRefs
  <1>6. t.path = "endpoint" => h = seq[c].read /\ seq[c].valid /\ t.base = seq[c].pos
    BY <1>2, <1>3 DEF Planned, Selected
  <1>7. t.path = "endpoint" => s.img[h].refs = 0
    BY <1>2, <1>3, <1>6, SeqCases DEF Endpoint
  <1>8. t.fork <=> s.img[h].refs # IF t.path = "rewrite" /\ ~t.preserve THEN 1 ELSE 0
    BY <1>2 DEF RequiresFork
  <1> QED BY <1>3, <1>4, <1>5, <1>6, <1>7, <1>8

(* A start from a restored copy launches.                                  *)
LEMMA RestoredLaunches ==
    ASSUME NEW s, NEW t, Going(s, t), Restores(s, t), NeedsImage(t), t.restore, t.path # "root",
           held[NextDev(s)] = held[s.img[Selected(t)].host],
           NEW m, m = RestoredStore(PreparedStore(s, t), t)
    PROVE  Good(m, t, held)
  <1>1. PICK h, k, c, n : Ahead(s, t, h, k, c, n)
    BY GoingFacts
  <1>2. /\ Consistent(s, seq, shared, held) /\ NoForks(seq) /\ Planned(t) /\ Sound(s) /\ seq \in [Conts -> SeqRecord]
        /\ held \in [Slots -> Nat] /\ t.preserve \in BOOLEAN /\ Fits(s, t)
    BY GoingBase DEF Going, Feasible
  <1>3. PICK d : d = NextDev(s)
    OBVIOUS
  <1>4. /\ k = NextImage(s) /\ t.image = k /\ k \in Images /\ k # None /\ s.img[k].role = "Free" /\ c \in Conts /\ c = t.dest
        /\ h = Selected(t) /\ h \in Images /\ Immutable(s.img[h]) /\ Holds(s, held, h, n) /\ Quiet(s.img[h])
        /\ s.img[h].from = None /\ n = t.base /\ n \in Nat /\ (t.path = "shared" => t.source \in SharedSlots)
    BY <1>1 DEF Ahead
  <1>5. PICK b : b = PreparedStore(s, t)
    OBVIOUS
  <1>6. d \in DevSlots /\ s.img[h].host # None /\ h # k /\ Cloning(s, b, h, k, d)
    BY <1>2, <1>3, <1>4, <1>5, RestoringBegun
  <1>7. m = PublishHostFork(b, h, k)
    BY <1>4, <1>5 DEF RestoredStore
  <1>8. Cloned(s, m, k, d)
    BY <1>2, <1>4, <1>6, <1>7, CloneEnds
  <1>9. Sound(m) /\ SameImages(s, m, {k}) /\ Lone(m, k, d) /\ d # None
    BY <1>6, <1>8, StoreAssumption DEF Cloned, Lone
  <1>10. held[d] = t.base
    BY <1>3, <1>4, <1>6 DEF Holds
  <1>11. Aside(s, seq, m, {k})
    BY <1>2, <1>4, <1>9 DEF Aside
  <1>12. PICK f : f = SourceOf(m, t)
    OBVIOUS
  <1>13. /\ \E s1, Q1 : Yields(s1, Q1, f.store, f.q, c, k)
         /\ f.ok /\ f.store.img[k] = m.img[k] /\ m.freeHost \subseteq f.store.freeHost
    <2>1. CASE t.mode # "Consume"
      <3>1. f.store = m /\ f.q = FreeSeq /\ f.ok
        BY <1>12, <2>1 DEF SourceOf
      <3>2. Headless(seq[c]) /\ seq[c].rw = None
        BY <1>1, <2>1 DEF Ahead
      <3>3. \E Q1 : Yields(s, Q1, m, FreeSeq, c, k)
        BY <1>4, <1>11, <3>2, Vacant
      <3> QED BY <3>1, <3>3
    <2>2. CASE t.mode = "Consume"
      <3>1. t.fork
        BY <2>2 DEF NeedsImage
      <3>2. /\ c = t.source /\ seq[c].role = "Catalogued" /\ t.path = "rewrite" /\ h = seq[c].rw /\ h # None
            /\ (~t.preserve => s.img[h].refs = 2)
        BY <1>4, <2>2, <3>1, ForkedSource, SMTT(40)
      <3>3. Consuming(s, t, m, h, k, c)
        BY <1>2, <1>4, <1>11, <2>2, <3>2 DEF Consuming
      <3>4. PICK s1, Q1 : Yielded(s, t, m, h, k, c, s1, Q1, f)
        BY <1>12, <3>3, SourceYields
      <3> QED BY <3>4 DEF Yielded
    <2> QED BY <2>1, <2>2
  <1>14. PICK s1, Q1 : Yields(s1, Q1, f.store, f.q, c, k)
    BY <1>13
  <1>15. Lone(f.store, k, d)
    BY <1>9, <1>13 DEF Lone
  <1>16. PICK a : a = Activation(f.store, f.q, t)
    OBVIOUS
  <1>17. a.store = f.store /\ a.q = Bind(f.q, k) /\ a.ok
    BY <1>4, <1>15, <1>16 DEF Activation, Lone
  <1>18. PICK p : p = Entry(a.q, t)
    OBVIOUS
  <1>19. Joined(f.store, p, t, held)
    <2>1. PICK m1, q : m1 = f.store /\ q = f.q
      OBVIOUS
    <2>2. Yields(s1, Q1, m1, q, c, k) /\ p = Entry(Bind(q, k), t) /\ Lone(m1, k, d)
      BY <1>14, <1>15, <1>17, <1>18, <2>1
    <2>3. Consistent(s1, Q1, shared, held)
      BY <2>2 DEF Yields, Aside
    <2>4. PICK g : g = held
      OBVIOUS
    <2>5. Joined(m1, p, t, g)
      BY <1>2, <1>4, <1>10, <2>2, <2>3, <2>4, LaneJoins
    <2> QED BY <2>1, <2>4, <2>5
  <1> QED BY <1>12, <1>13, <1>16, <1>17, <1>18, <1>19 DEF Good

(* A retained source gives its Device replica away.                        *)
LEMMA SplitLaunches ==
    ASSUME NEW s, NEW t, Going(s, t), t.mode = "Retain", Splits(s, t), ~t.restore,
           NEW m, m = PreparedStore(s, t)
    PROVE  Good(m, t, held) /\ m.freeHost = s.freeHost
  <1>1. PICK h, k, c, n : Ahead(s, t, h, k, c, n)
    BY GoingFacts
  <1>2. /\ Consistent(s, seq, shared, held) /\ NoForks(seq) /\ Planned(t) /\ Sound(s) /\ seq \in [Conts -> SeqRecord]
        /\ held \in [Slots -> Nat] /\ s \in Store
    BY GoingBase DEF Sound
  <1>3. NeedsImage(t) /\ t.path # "root" /\ t.path # "shared" /\ t.mode # "Consume"
    BY <1>1 DEF Ahead, NeedsImage, Splits
  <1>4. /\ k = NextImage(s) /\ t.image = k /\ k \in Images /\ k # None /\ s.img[k].role = "Free" /\ c \in Conts /\ c = t.dest
        /\ h = Selected(t) /\ h \in Images /\ Immutable(s.img[h]) /\ Holds(s, held, h, n) /\ Quiet(s.img[h])
        /\ s.img[h].from = None /\ n = t.base /\ n \in Nat /\ Headless(seq[c]) /\ seq[c].rw = None
    BY <1>1, <1>3 DEF Ahead
  <1>5. CanDropReplica(s, h) /\ h # k /\ s.img[h].dev # None
    BY <1>4 DEF Splits, CanDropReplica, Immutable
  <1>6. m = ReserveLogicalDestination(s, k)
    <2>1. ~Restores(s, t)
      BY <1>4, <1>5 DEF Restores, HostOnly
    <2> QED BY <1>3, <1>4, <2>1, Zenon DEF PreparedStore
  <1>7. PICK z, r : z = SplitIdentity(m, h, k) /\ r = DropDeviceReplica(s, h)
    OBVIOUS
  <1>8. /\ CanSplitIdentity(m, h, k) /\ Sound(z) /\ SameImages(r, z, {k}) /\ Lone(z, k, s.img[h].dev)
        /\ z.freeHost = s.freeHost /\ r.img[k] = s.img[k]
    BY <1>2, <1>4, <1>5, <1>6, <1>7, SplitStarts, SMTT(40)
  <1>9. Consistent(r, seq, shared, held)
    BY <1>2, <1>4, <1>5, <1>7, ReplicaDropped
  <1>10. Aside(r, seq, z, {k})
    BY <1>2, <1>4, <1>8, <1>9 DEF Aside
  <1>11. PICK Q1 : Yields(r, Q1, z, FreeSeq, c, k)
    BY <1>4, <1>10, Vacant
  <1>12. m.freeHost = s.freeHost /\ m.img[h] = s.img[h]
    BY <1>2, <1>4, <1>5, <1>6 DEF ReserveLogicalDestination, Store
  <1>13. Splits(m, t)
    BY <1>3, <1>4, <1>5, <1>12 DEF Splits, CanDropReplica
  <1>14. PICK f : f = SourceOf(m, t)
    OBVIOUS
  <1>15. f.store = m /\ f.q = FreeSeq /\ f.ok
    BY <1>3, <1>14 DEF SourceOf
  <1>16. PICK a : a = Activation(f.store, f.q, t)
    OBVIOUS
  <1>17. a.store = z /\ a.q = Bind(FreeSeq, k) /\ a.ok
    <2>1. a = ActivateRetained(f.store, f.q, t)
      BY <1>3, <1>16, Zenon DEF Activation
    <2>2. a = [store |-> SplitIdentity(m, h, k), q |-> Bind(FreeSeq, k), ok |-> CanSplitIdentity(m, h, k)]
      BY <1>4, <1>13, <1>15, <2>1, Zenon DEF ActivateRetained
    <2> QED BY <1>7, <1>8, <2>2
  <1>18. PICK p, q : p = Entry(a.q, t) /\ q = FreeSeq
    OBVIOUS
  <1>19. Joined(z, p, t, held)
    <2>1. PICK g, d : g = held /\ d = s.img[h].dev
      OBVIOUS
    <2>2. Yields(r, Q1, z, q, c, k) /\ p = Entry(Bind(q, k), t)
      BY <1>11, <1>17, <1>18
    <2>3. g[d] = t.base /\ t.base \in Nat /\ (t.path = "shared" => t.source \in SharedSlots)
      BY <1>3, <1>4, <1>5, <2>1 DEF Holds
    <2>4. Consistent(r, Q1, shared, g) /\ Lone(z, k, d)
      BY <1>8, <1>11, <2>1 DEF Yields, Aside
    <2>5. Joined(z, p, t, g)
      BY <1>2, <1>4, <2>2, <2>3, <2>4, LaneJoins
    <2> QED BY <2>1, <2>5
  <1>20. Good(m, t, held)
    BY <1>8, <1>12, <1>14, <1>15, <1>16, <1>17, <1>18, <1>19 DEF Good
  <1> QED BY <1>12, <1>20

(* Any other retained source that is on the Device is forked.              *)
LEMMA RetainForks ==
    ASSUME NEW s, NEW t, Going(s, t), t.mode = "Retain", ~Splits(s, t), ~Restores(s, t), ~t.restore,
           NEW m, m = PreparedStore(s, t)
    PROVE  Good(m, t, held) /\ m.freeHost = s.freeHost
  <1>1. PICK h, k, c, n : Ahead(s, t, h, k, c, n)
    BY GoingFacts
  <1>2. /\ Consistent(s, seq, shared, held) /\ NoForks(seq) /\ Planned(t) /\ Sound(s) /\ seq \in [Conts -> SeqRecord]
        /\ held \in [Slots -> Nat] /\ s \in Store
    BY GoingBase DEF Sound
  <1>3. NeedsImage(t) /\ NeedsDevice(s, t) /\ t.path # "root" /\ t.mode # "Consume"
    BY <1>1 DEF Ahead, NeedsImage, NeedsDevice
  <1>4. /\ k = NextImage(s) /\ t.image = k /\ k \in Images /\ k # None /\ s.img[k].role = "Free" /\ c \in Conts /\ c = t.dest
        /\ h = Selected(t) /\ h \in Images /\ Immutable(s.img[h]) /\ Holds(s, held, h, n) /\ Quiet(s.img[h])
        /\ s.img[h].from = None /\ n = t.base /\ n \in Nat /\ Headless(seq[c]) /\ seq[c].rw = None
        /\ (s.img[h].dev # None \/ s.img[h].host # None)
    BY <1>1, <1>3 DEF Ahead
  <1>5. s.img[h].dev # None /\ h # k
    BY <1>3, <1>4 DEF Restores, HostOnly, Immutable
  <1>6. PICK d : d = NextDev(s) /\ d \in s.freeDev
    BY <1>1, <1>3, Zenon DEF Ahead
  <1>7. m = ReserveDestination(s, k, d)
    BY <1>3, <1>4, <1>6, Zenon DEF PreparedStore
  <1>8. Ready(s, m, k)
    BY <1>2, <1>4, <1>6, <1>7, ReadyReserved
  <1>9. Waiting(s, m, k) /\ m.freeHost = s.freeHost /\ m.img[h] = s.img[h] /\ Sound(m) /\ SameImages(s, m, {k})
    BY <1>4, <1>5, <1>8 DEF Ready, Waiting, SameImages
  <1>10. Aside(s, seq, m, {k})
    BY <1>2, <1>4, <1>9 DEF Aside
  <1>11. PICK Q1 : Yields(s, Q1, m, FreeSeq, c, k)
    BY <1>4, <1>10, Vacant
  <1>13. ~Splits(m, t)
    BY <1>3, <1>4, <1>5, <1>9 DEF Splits, CanDropReplica
  <1>14. PICK f : f = SourceOf(m, t)
    OBVIOUS
  <1>15. f.store = m /\ f.q = FreeSeq /\ f.ok
    BY <1>3, <1>14 DEF SourceOf
  <1>16. PICK a : a = Activation(f.store, f.q, t)
    OBVIOUS
  <1>17. PICK z : z = BeginFork(m, h, k)
    OBVIOUS
  <1>18. PICK b, q : q = FreeSeq /\ b = ForkBind(q, h, k, "External")
    OBVIOUS
  <1>19. a.store = z /\ a.q = b /\ (a.ok <=> CanBeginFork(m, h, k))
    <2>1. a = ActivateRetained(f.store, f.q, t)
      BY <1>3, <1>16, Zenon DEF Activation
    <2>2. a = ForkedFrom(m, q, t, "External")
      BY <1>13, <1>15, <1>18, <2>1, Zenon DEF ActivateRetained
    <2>3. a.store = BeginFork(m, Selected(t), t.image) /\ (a.ok <=> CanBeginFork(m, Selected(t), t.image))
      BY <2>2 DEF ForkedFrom
    <2>4. a.q = ForkBind(q, Selected(t), t.image, "External")
      BY <2>2 DEF ForkedFrom, ForkBind
    <2> QED BY <1>4, <1>17, <1>18, <2>3, <2>4
  <1>20. PICK p : p = Entry(b, t)
    OBVIOUS
  <1>21. \/ \E x \in SharedSlots : shared[x].img = h
         \/ \E w \in Conts : w # c /\ seq[w].role = "Catalogued" /\ h \in {seq[w].read, seq[w].rw}
    <2>1. t.path \in {"endpoint", "rewrite", "shared"} /\ c # t.source
      BY <1>1, <1>2, <1>3, <1>4 DEF Ahead, Planned
    <2>2. CASE t.path = "shared"
      BY <1>2, <1>4, <2>2, SMTT(40) DEF Planned, Selected
    <2>3. CASE t.path = "endpoint"
      BY <1>2, <1>4, <2>1, <2>3, SMTT(40) DEF Planned, Selected
    <2>4. CASE t.path = "rewrite"
      BY <1>2, <1>4, <2>1, <2>4 DEF Planned, Selected
    <2> QED BY <2>1, <2>2, <2>3, <2>4
  <1>22. Joined(z, p, t, held) /\ Forking(m, z, h, k)
    <2>1. Yields(s, Q1, m, q, c, k)
      BY <1>11, <1>18
    <2>2. PICK own \in {"Lineage", "External"} : own = "External"
      OBVIOUS
    <2>3. b = ForkBind(q, h, k, own)
      BY <1>18, <2>2
    <2>4. Holds(s, held, h, t.base) /\ t.base \in Nat /\ (t.path = "shared" => t.source \in SharedSlots)
      BY <1>2, <1>4 DEF Planned
    <2>5. \/ own = "Lineage" /\ q.rw = h
          \/ \E x \in SharedSlots : shared[x].img = h
          \/ own = "External" /\ \E w \in Conts : w # c /\ seq[w].role = "Catalogued" /\ h \in {seq[w].read, seq[w].rw}
      BY <1>21, <2>2
    <2> QED BY <1>2, <1>4, <1>5, <1>9, <1>17, <1>20, <2>1, <2>2, <2>3, <2>4, <2>5, ForkJoins, Zenon
  <1>23. Good(m, t, held)
    BY <1>9, <1>14, <1>15, <1>16, <1>19, <1>20, <1>22 DEF Good, Forking
  <1> QED BY <1>9, <1>23

(* activate_consumed_state, the forked branch.                             *)
LEMMA ForkedActivation ==
    ASSUME NEW b, NEW q, NEW t, NEW h, NEW k, h = Selected(t), k = t.image, k # None, t.mode = "Consume", t.path # "root",
           ~t.restore, NEW own, own = IF (IF q.rw = h THEN 1 ELSE 0) = b.img[h].refs THEN "Lineage" ELSE "External",
           CanBeginFork(b, h, k), b.img[h].refs # 0
    PROVE  LET a == Activation(b, q, t)
           IN  a.store = BeginFork(b, h, k) /\ a.q = ForkBind(q, h, k, own) /\ a.ok
  <1>1. PICK a : a = Activation(b, q, t)
    OBVIOUS
  <1>2. a = ActivateConsumed(b, q, t)
    BY <1>1, Zenon DEF Activation
  <1>3. PICK f : f = ForkedFrom(b, q, t, own)
    OBVIOUS
  <1>4. a = [f EXCEPT !.ok = f.ok /\ b.img[h].refs # 0]
    <2>1. own = IF (IF q.rw = Selected(t) THEN 1 ELSE 0) = b.img[Selected(t)].refs THEN "Lineage" ELSE "External"
      OBVIOUS
    <2> QED BY <1>2, <1>3, <2>1 DEF ActivateConsumed
  <1>5. f = [store |-> BeginFork(b, h, k), q |-> ForkBind(q, h, k, own), ok |-> CanBeginFork(b, h, k)]
    BY <1>3, Zenon DEF ForkedFrom, ForkBind
  <1>6. a.store = f.store /\ a.q = f.q /\ a.ok = (f.ok /\ b.img[h].refs # 0)
    BY <1>4, <1>5
  <1>7. f.store = BeginFork(b, h, k) /\ f.q = ForkBind(q, h, k, own)
    BY <1>5
  <1>8. f.ok
    BY <1>5
  <1> QED BY <1>1, <1>6, <1>7, <1>8

(* A consumed checkpoint that outlives the source is forked.               *)
LEMMA ConsumeForks ==
    ASSUME NEW s, NEW t, Going(s, t), t.mode = "Consume", t.fork, ~Restores(s, t), ~t.restore,
           NEW m, m = PreparedStore(s, t)
    PROVE  Good(m, t, held) /\ m.freeHost = s.freeHost
  <1>1. PICK h, k, c, n : Ahead(s, t, h, k, c, n)
    BY GoingFacts
  <1>2. /\ Consistent(s, seq, shared, held) /\ NoForks(seq) /\ Planned(t) /\ Sound(s) /\ seq \in [Conts -> SeqRecord]
        /\ held \in [Slots -> Nat] /\ s \in Store /\ t.preserve \in BOOLEAN
    BY GoingBase DEF Sound
  <1>3. NeedsImage(t) /\ NeedsDevice(s, t) /\ ~Splits(s, t)
    BY DEF NeedsImage, NeedsDevice, Splits
  <1>4. c = t.dest /\ h = Selected(t)
    BY <1>1, Zenon DEF Ahead
  <1>5. /\ c \in Conts /\ c = t.source /\ seq[c].role = "Catalogued" /\ t.path = "rewrite" /\ h = seq[c].rw /\ h # None
        /\ (~t.preserve => s.img[h].refs = 2) /\ s.img[h].refs \in {1, 2}
    BY <1>4, ForkedSource, SMTT(40)
  <1>6. /\ k = NextImage(s) /\ t.image = k /\ k \in Images /\ k # None /\ s.img[k].role = "Free"
        /\ h \in Images /\ Immutable(s.img[h]) /\ Holds(s, held, h, n)
        /\ n = t.base /\ n \in Nat /\ (s.img[h].dev # None \/ s.img[h].host # None)
    BY <1>1, <1>3, <1>5, SMTT(40) DEF Ahead
  <1>7. s.img[h].dev # None /\ h # k
    BY <1>4, <1>5, <1>6 DEF Restores, HostOnly, Immutable
  <1>8. PICK d : d = NextDev(s) /\ d \in s.freeDev
    BY <1>1, <1>3, Zenon DEF Ahead
  <1>9. m = ReserveDestination(s, k, d)
    <2>1. t.path # "root"
      BY <1>5
    <2> QED BY <1>3, <1>6, <1>8, <2>1, Zenon DEF PreparedStore
  <1>10. Ready(s, m, k)
    BY <1>2, <1>6, <1>8, <1>9, ReadyReserved
  <1>11. Waiting(s, m, k) /\ m.freeHost = s.freeHost /\ m.img[h] = s.img[h] /\ Sound(m) /\ SameImages(s, m, {k})
    BY <1>6, <1>7, <1>10 DEF Ready, Waiting, SameImages
  <1>12. Aside(s, seq, m, {k})
    BY <1>2, <1>6, <1>11 DEF Aside
  <1>13. Consuming(s, t, m, h, k, c)
    BY <1>2, <1>5, <1>12 DEF Consuming
  <1>14. PICK f : f = SourceOf(m, t)
    OBVIOUS
  <1>15. PICK s1, Q1 : Yielded(s, t, m, h, k, c, s1, Q1, f)
    BY <1>13, <1>14, SourceYields
  <1>16. PICK m1, q : m1 = f.store /\ q = f.q
    OBVIOUS
  <1>17. /\ Yields(s1, Q1, m1, q, c, k) /\ f.ok /\ m1.img[k] = m.img[k] /\ m.freeHost \subseteq m1.freeHost
         /\ Immutable(s1.img[h]) /\ s1.img[h].dev = s.img[h].dev /\ s1.img[h].host = s.img[h].host
         /\ (t.preserve => q.rw = h /\ s1.img[h].refs = s.img[h].refs)
         /\ (~t.preserve => q.rw = None /\ s1.img[h].refs = 1)
    BY <1>15, <1>16 DEF Yielded
  <1>18. Sound(m1) /\ SameImages(s1, m1, {k})
    BY <1>17 DEF Yields, Aside
  <1>19. Waiting(s1, m1, k)
    BY <1>11, <1>17, <1>18 DEF Waiting
  <1>20. m1.img[h] = s1.img[h] /\ Holds(s1, held, h, t.base) /\ m1.img[h].refs \in {1, 2}
    <2>1. m1.img[h] = s1.img[h]
      BY <1>6, <1>7, <1>18 DEF SameImages
    <2>2. Holds(s1, held, h, t.base)
      BY <1>6, <1>17, SMTT(40) DEF Holds
    <2>3. s1.img[h].refs \in {1, 2}
      BY <1>2, <1>5, <1>17
    <2> QED BY <2>1, <2>2, <2>3
  <1>21. PICK own \in {"Lineage", "External"} :
            own = IF (IF q.rw = h THEN 1 ELSE 0) = m1.img[h].refs THEN "Lineage" ELSE "External"
    OBVIOUS
  <1>22. (own = "Lineage" /\ q.rw = h) \/ \E x \in SharedSlots : shared[x].img = h
    <2>1. s.img[h].refs = 2 => \E x \in SharedSlots : shared[x].img = h
      <3>1. PICK Q, g : Q = seq /\ g = held
        BY SMTT(40)
      <3> QED BY <1>2, <1>5, <3>1, RewriteRefs
    <2>2. CASE t.preserve
      BY <1>5, <1>17, <1>20, <1>21, <2>1, <2>2
    <2>3. CASE ~t.preserve
      BY <1>5, <2>1, <2>3
    <2> QED BY <1>2, <2>2, <2>3
  <1>23. PICK z, b, p : z = BeginFork(m1, h, k) /\ b = ForkBind(q, h, k, own) /\ p = Entry(b, t)
    BY SMTT(40)
  <1>24. Joined(z, p, t, held) /\ Forking(m1, z, h, k)
    <2>1. t.base \in Nat /\ (t.path = "shared" => t.source \in SharedSlots)
      BY <1>5, <1>6
    <2>2. \/ own = "Lineage" /\ q.rw = h
          \/ \E x \in SharedSlots : shared[x].img = h
          \/ own = "External" /\ \E w \in Conts : w # c /\ seq[w].role = "Catalogued" /\ h \in {seq[w].read, seq[w].rw}
      BY <1>22
    <2>3. s1.img[h].dev # None
      BY <1>7, <1>17
    <2> QED BY <1>2, <1>4, <1>5, <1>6, <1>17, <1>19, <1>20, <1>23, <2>1, <2>2, <2>3, ForkJoins, Zenon
  <1>25. PICK a : a = Activation(m1, q, t)
    OBVIOUS
  <1>26. a.store = z /\ a.q = b /\ a.ok
    <2>1. CanBeginFork(m1, h, k) /\ m1.img[h].refs # 0 /\ t.path # "root"
      BY <1>5, <1>20, <1>24 DEF Forking
    <2> QED BY <1>4, <1>6, <1>21, <1>23, <1>25, <2>1, ForkedActivation
  <1>27. m.freeHost \subseteq a.store.freeHost
    BY <1>17, <1>24, <1>26 DEF Forking
  <1>28. Good(m, t, held)
    BY <1>14, <1>16, <1>17, <1>23, <1>24, <1>25, <1>26, <1>27 DEF Good
  <1> QED BY <1>11, <1>28

\* in s2 and Q2 the image h is the endpoint of c, whose lane starts from q
Lends(s2, Q2, q, c, h, n) ==
    /\ Consistent(s2, Q2, shared, held) /\ NoForks(Q2) /\ SameSeqs(seq, Q2, c) /\ Endpoint(s2, held, Q2[c])
    /\ h = Q2[c].read /\ s2.img[h].dev # None /\ Q2[c].pos = n /\ q \in SeqRecord /\ q.rw = Q2[c].rw /\ q.rwf = Q2[c].rwf

(* The endpoint was moved into the lane.                                   *)
Moved(s2, z, h) == CanThaw(s2, h) /\ s2.freeHost \subseteq z.freeHost

(* A lane that takes over a checkpoint in place joins the catalogue.       *)
LEMMA MoveJoins ==
    ASSUME NEW s2, NEW Q2, NEW q, NEW c \in Conts, NEW h \in Images, NEW n, NEW t, NEW p, NEW z, c = t.dest, n = t.base, n \in Nat,
           t.path # "shared", Lends(s2, Q2, q, c, h, n), seq \in [Conts -> SeqRecord],
           p = Entry(Bind(q, h), t), z = MoveToActive(s2, h)
    PROVE  Joined(z, p, t, held) /\ Moved(s2, z, h)
  <1>1. PICK b : b = Bind(q, h)
    OBVIOUS
  <1>0. /\ Consistent(s2, Q2, shared, held) /\ NoForks(Q2) /\ SameSeqs(seq, Q2, c) /\ Endpoint(s2, held, Q2[c])
        /\ h = Q2[c].read /\ s2.img[h].dev # None /\ Q2[c].pos = n /\ q \in SeqRecord /\ q.rw = Q2[c].rw /\ q.rwf = Q2[c].rwf
    BY DEF Lends
  <1>2. b \in SeqRecord /\ b.read = h /\ b.write = h /\ ~b.fork /\ b.own = "Primary" /\ b.rw = q.rw /\ b.rwf = q.rwf
    BY <1>0, <1>1, BindFields
  <1>3. /\ LaneOf(b, p, t.base) /\ p.read = b.read /\ p.write = b.write /\ p.own = b.own
        /\ (p.fork <=> b.fork) /\ p.refs = Borrowing(t)
    BY <1>1, <1>2, EntryFields
  <1>4. PICK R, SH, g : R = [seq EXCEPT ![c] = p] /\ SH = shared /\ g = held
    OBVIOUS
  <1>5. p \in SeqRecord /\ p.role = "Active"
    BY <1>3 DEF LaneOf
  <1>6. R \in [Conts -> SeqRecord] /\ R[c] = p /\ SameSeqs(Q2, R, c)
    BY <1>0, <1>4, <1>5 DEF SameSeqs
  <1>7. LaneOf(Q2[c], R[c], n)
    BY <1>0, <1>2, <1>3, <1>6 DEF LaneOf
  <1>8. R[c].read = h /\ R[c].write = h /\ ~R[c].fork /\ R[c].own = "Primary"
    BY <1>2, <1>3, <1>6
  <1>9. Consistent(s2, Q2, SH, g) /\ Endpoint(s2, g, Q2[c])
    BY <1>0, <1>4
  <1>10. Consistent(z, R, SH, g) /\ CanThaw(s2, h) /\ s2.freeHost \subseteq z.freeHost
    BY <1>0, <1>6, <1>7, <1>8, <1>9, MoveStarts
  <1> QED BY <1>3, <1>4, <1>5, <1>10 DEF Joined, Moved

\* the source c of t is moved; b is the store it is taken from
Moving(b, t, h, c) ==
    /\ Consistent(b, seq, shared, held) /\ NoForks(seq) /\ t.base \in Nat /\ t.preserve \in BOOLEAN /\ t.mode = "Consume" /\ t.image = None
    /\ c \in Conts /\ c = t.dest /\ c = t.source /\ seq[c].role = "Catalogued" /\ h = Selected(t) /\ h \in Images /\ b.img[h].dev # None
    /\ (t.path = "rewrite" => h = seq[c].rw /\ h # None /\ t.base = seq[c].rwf /\ ~t.preserve /\ b.img[h].refs = 1)
    /\ (t.path = "endpoint" => h = seq[c].read /\ seq[c].valid /\ t.base = seq[c].pos)
    /\ t.path \in {"endpoint", "rewrite"}

\* a consumed source has become the endpoint h of s2 and Q2
Surrendered(b, t, h, c, s2, Q2, f) ==
    f.ok /\ f.store = s2 /\ Lends(s2, Q2, f.q, c, h, t.base) /\ b.freeHost \subseteq s2.freeHost

(* A consumed endpoint is handed over in place.                            *)
LEMMA EndpointSurrenders ==
    ASSUME NEW b, NEW t, NEW h, NEW c, Moving(b, t, h, c), t.path = "endpoint", NEW f, f = SourceOf(b, t)
    PROVE  \E s2, Q2 : Surrendered(b, t, h, c, s2, Q2, f)
  <1>1. /\ Consistent(b, seq, shared, held) /\ NoForks(seq) /\ c \in Conts /\ c = t.source /\ h = seq[c].read /\ seq[c].valid
        /\ t.base = seq[c].pos /\ b.img[h].dev # None /\ t.mode = "Consume"
    BY DEF Moving
  <1>2. f.store = b /\ f.q = seq[c] /\ f.ok
    BY <1>1 DEF SourceOf
  <1>3. seq[c] \in SeqRecord /\ Endpoint(b, held, seq[c])
    BY <1>1, SeqCases
  <1>4. Lends(b, seq, f.q, c, h, t.base)
    BY <1>1, <1>2, <1>3 DEF Lends, SameSeqs
  <1> QED BY <1>2, <1>4 DEF Surrendered

(* A consumed rewrite checkpoint is handed over in place.                  *)
LEMMA RewriteSurrenders ==
    ASSUME NEW b, NEW t, NEW h, NEW c, Moving(b, t, h, c), t.path = "rewrite", NEW f, f = SourceOf(b, t)
    PROVE  \E s2, Q2 : Surrendered(b, t, h, c, s2, Q2, f)
  <1>1. /\ Consistent(b, seq, shared, held) /\ NoForks(seq) /\ c \in Conts /\ c = t.source /\ h = seq[c].rw /\ h # None
        /\ t.base = seq[c].rwf /\ b.img[h].dev # None /\ t.mode = "Consume" /\ ~t.preserve /\ b.img[h].refs = 1
        /\ seq[c].role = "Catalogued" /\ h \in Images /\ t.base \in Nat
    BY DEF Moving
  <1>2. PICK m1, Q, S : m1 = (IF Q[c].valid THEN TryRelease(b, Q[c].read) ELSE b) /\ Q = seq /\ S = {}
    OBVIOUS
  <1>3. Sound(b) /\ Aside(b, Q, b, S)
    BY <1>1, <1>2 DEF Aside, Consistent, SameImages
  <1>4. PICK s1, Q1 : EndpointLost(b, Q, b, S, c, s1, Q1, m1)
    <2>1. PICK b1 : b1 = b
      OBVIOUS
    <2>2. Aside(b, Q, b1, S) /\ Q[c].role = "Catalogued" /\ m1 = IF Q[c].valid THEN TryRelease(b1, Q[c].read) ELSE b1
      BY <1>1, <1>2, <1>3, <2>1
    <2>3. \E s1, Q1 : EndpointLost(b, Q, b1, S, c, s1, Q1, m1)
      BY <1>1, <2>2, EndpointGiven
    <2> QED BY <2>1, <2>3
  <1>5. /\ Aside(s1, Q1, m1, S) /\ SameSeqs(seq, Q1, c) /\ Headless(Q1[c])
        /\ Q1[c].rw = h /\ Q1[c].rwf = t.base /\ b.freeHost \subseteq m1.freeHost
        /\ s1.img[h] = b.img[h] /\ (seq[c].valid => CanRelease(b, seq[c].read))
    BY <1>1, <1>2, <1>4 DEF EndpointLost
  <1>6. Consistent(s1, Q1, shared, held) /\ NoForks(Q1) /\ Sound(s1) /\ s1 \in Store /\ m1 = s1
    <2>1. Consistent(s1, Q1, shared, held) /\ NoForks(Q1) /\ Sound(m1) /\ SameImages(s1, m1, {})
      BY <1>2, <1>5 DEF Aside
    <2>2. Sound(s1) /\ s1 \in Store
      BY <2>1 DEF Consistent, Sound
    <2> QED BY <2>1, <2>2, SameStore
  <1>7. PICK s2 : s2 = ReleaseReference(s1, h)
    BY SMTT(40)
  <1>8. Immutable(s1.img[h]) /\ CanReleaseReference(s1, h) /\ s1.img[h] \in Image
    BY <1>1, <1>5, <1>6, SeqCases DEF CanReleaseReference, Store
  <1>9. Sound(s2)
    BY <1>1, <1>6, <1>7, <1>8, ReleaseReferenceKeeps
  <1>10. s2.img[h] = [s1.img[h] EXCEPT !.refs = 0] /\ SameImages(s1, s2, {h}) /\ s2.freeHost = s1.freeHost
    BY <1>1, <1>5, <1>6, <1>7 DEF ReleaseReference, Store, SameImages
  <1>11. PICK e : e \in SeqRecord /\ e.role = "Catalogued" /\ e.valid /\ ~e.fork /\ e.own = "Primary" /\ e.read = h /\ e.write = h
                  /\ e.pos = t.base /\ e.rw = None /\ e.rwf = 0
    <2>1. PICK e : e = [role |-> "Catalogued", read |-> h, write |-> h, fork |-> FALSE, own |-> "Primary", rw |-> None,
                        rwf |-> 0, pos |-> t.base, valid |-> TRUE, refs |-> {}, stage |-> "idle", fresh |-> FALSE, offer |-> FALSE]
      OBVIOUS
    <2>2. e \in SeqRecord
      BY <1>1, <2>1 DEF SeqRecord
    <2> QED BY <2>1, <2>2
  <1>12. PICK Q2 : Q2 = [Q1 EXCEPT ![c] = e]
    OBVIOUS
  <1>13. Typed(Q1, shared, held) /\ Q1 \in [Conts -> SeqRecord]
    BY <1>6 DEF Consistent, Typed
  <1>14. Q2[c] = e /\ SameSeqs(Q1, Q2, c) /\ SameSeqs(seq, Q2, c) /\ Typed(Q2, shared, held) /\ NoForks(Q2)
    <2>1. Q2 \in [Conts -> SeqRecord] /\ Q2[c] = e /\ SameSeqs(Q1, Q2, c)
      BY <1>1, <1>11, <1>12, <1>13 DEF SameSeqs
    <2>2. SameSeqs(seq, Q2, c)
      BY <1>5, <2>1 DEF SameSeqs
    <2>3. NoForks(Q2)
      BY <1>6, <1>11, <2>1 DEF SameSeqs, NoForks
    <2> QED BY <1>13, <2>1, <2>2, <2>3 DEF Typed
  <1>15. Consistent(s2, Q2, shared, held)
    <2>1. PICK SH, g : SH = shared /\ g = held
      OBVIOUS
    <2>2. Consistent(s1, Q1, SH, g) /\ Typed(Q2, SH, g)
      BY <1>6, <1>14, <2>1, SMTT(40)
    <2>3. /\ Q1[c].rw # None /\ s1.img[Q1[c].rw].refs = 1
          /\ SameImages(s1, s2, {Q1[c].rw}) /\ s2.img[Q1[c].rw] = [s1.img[Q1[c].rw] EXCEPT !.refs = 0]
      BY <1>1, <1>5, <1>10
    <2>4. /\ Q2[c].role = "Catalogued" /\ Q2[c].valid /\ ~Q2[c].fork /\ Q2[c].own = "Primary" /\ Q2[c].read = Q1[c].rw
          /\ Q2[c].write = Q1[c].rw /\ Q2[c].pos = Q1[c].rwf /\ Q2[c].rw = None
      BY <1>5, <1>11, <1>14, SMTT(40)
    <2>5. Consistent(s2, Q2, SH, g)
      BY <1>1, <1>5, <1>6, <1>9, <1>14, <2>2, <2>3, <2>4, RewriteToEndpoint
    <2> QED BY <2>1, <2>5
  <1>16. Endpoint(s2, held, Q2[c])
    <2>1. Q2[c].valid
      BY <1>11, <1>14
    <2> QED BY <1>1, <1>15, <2>1, SeqCases
  <1>17. f.store = s2 /\ f.q = WithoutRewrite(seq[c])
    BY <1>1, <1>2, <1>6, <1>7, SMTT(40) DEF SourceOf
  <1>18. f.ok
    BY <1>1, <1>2, <1>5, <1>6, <1>8 DEF SourceOf
  <1>19. PICK q : q = seq[c] /\ q \in SeqRecord
    BY <1>1, SeqCases
  <1>20. f.q \in SeqRecord /\ f.q.rw = None
    BY <1>17, <1>19, WithoutTyped
  <1>21. f.q.rwf = 0
    <2>1. f.q = [q EXCEPT !.rw = None, !.rwf = 0]
      BY <1>17, <1>19, SMTT(40) DEF WithoutRewrite
    <2> QED BY <1>19, <2>1 DEF SeqRecord
  <1>22. s2.img[h].dev # None
    BY <1>1, <1>5, <1>8, <1>10 DEF Image
  <1>23. Lends(s2, Q2, f.q, c, h, t.base)
    BY <1>11, <1>14, <1>15, <1>16, <1>20, <1>21, <1>22 DEF Lends
  <1>24. Surrendered(b, t, h, c, s2, Q2, f)
    BY <1>5, <1>6, <1>10, <1>17, <1>18, <1>23 DEF Surrendered
  <1> QED BY <1>24

(* A source no one else references is moved.                               *)
LEMMA MoveLaunches ==
    ASSUME NEW b, NEW t, NEW h, NEW c, Moving(b, t, h, c)
    PROVE  Good(b, t, held)
  <1>1. PICK f : f = SourceOf(b, t)
    OBVIOUS
  <1>2. PICK s2, Q2 : Surrendered(b, t, h, c, s2, Q2, f)
    BY <1>1, EndpointSurrenders, RewriteSurrenders DEF Moving
  <1>3. f.ok /\ f.store = s2 /\ Lends(s2, Q2, f.q, c, h, t.base) /\ b.freeHost \subseteq s2.freeHost
    BY <1>2 DEF Surrendered
  <1>4. PICK q, z, n, p : q = f.q /\ z = MoveToActive(s2, h) /\ n = t.base /\ p = Entry(Bind(q, h), t)
    OBVIOUS
  <1>5. /\ c \in Conts /\ h \in Images /\ c = t.dest /\ n \in Nat /\ t.path # "shared" /\ t.path # "root" /\ t.mode = "Consume"
        /\ t.image = None /\ h = Selected(t) /\ seq \in [Conts -> SeqRecord]
    BY <1>4 DEF Moving, Consistent, Typed
  <1>6. Joined(z, p, t, held) /\ Moved(s2, z, h)
    BY <1>3, <1>4, <1>5, MoveJoins
  <1>7. PICK a : a = Activation(f.store, f.q, t)
    OBVIOUS
  <1>8. a.store = z /\ a.q = Bind(q, h) /\ a.ok
    <2>1. a = ActivateConsumed(s2, q, t)
      <3>1. ~(t.path = "root" \/ (t.restore /\ t.image # None)) /\ t.mode # "Retain"
        BY <1>5
      <3>2. a = Activation(s2, q, t)
        BY <1>3, <1>4, <1>7
      <3> QED BY <3>1, <3>2, Zenon DEF Activation
    <2>2. a = [store |-> MoveToActive(s2, h), q |-> Bind(q, h), ok |-> CanThaw(s2, h)]
      BY <1>5, <2>1, Zenon DEF ActivateConsumed
    <2> QED BY <1>4, <1>6, <2>2 DEF Moved
  <1>9. b.freeHost \subseteq a.store.freeHost
    BY <1>3, <1>6, <1>8 DEF Moved
  <1> QED BY <1>1, <1>3, <1>4, <1>6, <1>7, <1>8, <1>9 DEF Good

\* u is the plan t with its image chosen and the restore decided
Staged(t, u, k, r) ==
    /\ u \in StartRecord /\ u.phase = "restoring" /\ u.kind = "start" /\ u.dest = t.dest /\ u.mode = t.mode /\ u.path = t.path
    /\ u.source = t.source /\ u.pressure = t.pressure /\ u.base = t.base /\ u.image = k
    /\ u.preserve = t.preserve /\ u.fork = t.fork /\ u.restore = r

(* What preparing a start leaves in its record.                            *)
LEMMA StagedIs ==
    ASSUME NEW t \in StartRecord, NEW k \in Images \cup {None}, NEW r \in BOOLEAN,
           NEW u, u = [t EXCEPT !.image = k, !.restore = r, !.phase = "restoring"]
    PROVE  Staged(t, u, k, r)
  <1>1. /\ u.phase = "restoring" /\ u.kind = "start" /\ u.dest = t.dest /\ u.mode = t.mode /\ u.path = t.path
        /\ u.source = t.source /\ u.pressure = t.pressure /\ u.base = t.base /\ u.image = k
    BY DEF StartRecord
  <1>2. u.preserve = t.preserve /\ u.fork = t.fork /\ u.restore = r
    BY DEF StartRecord
  <1>3. u \in StartRecord
    BY DEF StartRecord
  <1> QED BY <1>1, <1>2, <1>3 DEF Staged

(* A staged start still fits the catalogue.                                *)
LEMMA StagedPlan ==
    ASSUME NEW t, NEW u, NEW k, NEW r, Planned(t), t.phase # "reserved", Staged(t, u, k, r)
    PROVE  Planned(u) /\ SameSense(t, u)
  <1>1. /\ u \in StartRecord /\ u.dest = t.dest /\ u.mode = t.mode /\ u.path = t.path /\ u.source = t.source
        /\ u.pressure = t.pressure /\ u.base = t.base /\ u.preserve = t.preserve /\ u.fork = t.fork
    BY DEF Staged
  <1>2. SameSense(t, u)
    BY <1>1 DEF SameSense
  <1>3. (u.mode = "Root") = (u.path = "root") /\ (u.source = None) = (u.path = "root")
    BY <1>1 DEF Planned
  <1>4. u.path = "endpoint" => /\ u.source \in Conts /\ seq[u.source].role = "Catalogued"
                              /\ seq[u.source].valid /\ u.base = seq[u.source].pos
    BY <1>1 DEF Planned
  <1>5. u.path = "rewrite" => /\ u.source \in Conts /\ seq[u.source].role = "Catalogued"
                             /\ seq[u.source].rw # None /\ u.base = seq[u.source].rwf
    BY <1>1 DEF Planned
  <1>6. u.path = "shared" => /\ u.mode = "Retain" /\ u.source \in SharedSlots
                            /\ shared[u.source].role = "Catalogued" /\ u.base = shared[u.source].f
    BY <1>1 DEF Planned
  <1>7. u.path = "root" => u.base = 0
    BY <1>1 DEF Planned
  <1>8. IF u.mode = "Consume" THEN u.dest = u.source ELSE u.dest # u.source /\ seq[u.dest].role = "Reserved"
    BY <1>1 DEF Planned
  <1>9. u.preserve => u.mode = "Consume" /\ seq[u.source].rw # None
    BY <1>1 DEF Planned
  <1>10. u.path # "root" => u.pressure.who # u.source
    BY <1>1 DEF Planned
  <1> QED BY <1>1, <1>2, <1>3, <1>4, <1>5, <1>6, <1>7, <1>8, <1>9, <1>10 DEF Planned

(* Every launch that starts from a good store keeps the invariant.         *)
LEMMA GoodLaunch ==
    ASSUME NEW s, NEW m, NEW t, NEW g, Going(s, t), Good(m, t, g), Launch(m, t), Borrows(seq, shared), fault = "none",
           held' = Contents(g), flight' = flight, flight \in Seq(Copies), FlightTo(m.freeHost),
           \A x \in SharedSlots : shared[x].role \notin {"ReservedCapture", "ReservedReplacement"}
    PROVE  Live' /\ fault' = "none" /\ seq'[t.dest].role = "Active"
  <1>1. PICK f, a, p : /\ f = SourceOf(m, t) /\ a = Activation(f.store, f.q, t) /\ p = Entry(a.q, t) /\ f.ok /\ a.ok
                       /\ Joined(a.store, p, t, g) /\ m.freeHost \subseteq a.store.freeHost
    BY DEF Good
  <1>2. FlightTo(a.store.freeHost)
    BY <1>1 DEF FlightTo
  <1>3. Planned(t) /\ t.phase # "reserved" /\ seq \in [Conts -> SeqRecord] /\ shared \in [SharedSlots -> PrefixRecord]
    BY DEF Going, Consistent, Typed
  <1> QED BY <1>1, <1>2, <1>3, LaunchEnds

(* A start without a restore succeeds.                                     *)
LEMMA DirectLaunch ==
    ASSUME NEW s, NEW t, Going(s, t), ~Restores(s, t), ~t.restore, NEW m, m = PreparedStore(s, t),
           NEW g, g = IF t.path = "root" THEN [held EXCEPT ![m.img[t.image].dev] = 0] ELSE held
    PROVE  Good(m, t, g) /\ m.freeHost = s.freeHost
  <1>1. Ahead(s, t, Selected(t), NextImage(s), t.dest, t.base)
    BY GoingFacts
  <1>2. t.mode \in {"Root", "Retain", "Consume"} /\ (t.mode = "Root" <=> t.path = "root")
    BY <1>1 DEF Ahead
  <1>3. CASE t.mode = "Root"
    BY <1>2, <1>3, RootLaunches
  <1>4. CASE t.mode = "Retain"
    BY <1>2, <1>4, SplitLaunches, RetainForks
  <1>5. CASE t.mode = "Consume" /\ t.fork
    BY <1>2, <1>5, ConsumeForks
  <1>6. CASE t.mode = "Consume" /\ ~t.fork
    <2>1. PICK h, c : h = Selected(t) /\ c = t.dest
      OBVIOUS
    <2>2. ~NeedsImage(t) /\ ~Splits(s, t) /\ t.path # "root"
      BY <1>2, <1>6 DEF NeedsImage, Splits
    <2>3. m = s
      BY <2>2, Zenon DEF PreparedStore
    <2>4. t.image = None /\ (s.img[h].dev # None \/ s.img[h].host # None)
      BY <1>1, <2>1, <2>2 DEF Ahead
    <2>5. s.img[h].dev # None
      BY <2>1, <2>2, <2>4 DEF Restores, HostOnly
    <2>6. /\ c \in Conts /\ c = t.source /\ seq[c].role = "Catalogued" /\ h \in Images
          /\ t.path = "rewrite" => h = seq[c].rw /\ h # None /\ t.base = seq[c].rwf /\ s.img[h].refs \in {1, 2}
          /\ t.path = "endpoint" => h = seq[c].read /\ seq[c].valid /\ t.base = seq[c].pos /\ s.img[h].refs = 0
          /\ t.path \in {"endpoint", "rewrite"}
          /\ ~t.fork /\ t.path = "rewrite" => ~t.preserve /\ s.img[h].refs = 1
      BY <1>6, <2>1, ForkedSource
    <2>7. Consistent(s, seq, shared, held) /\ NoForks(seq) /\ t.base \in Nat /\ t.preserve \in BOOLEAN
      BY GoingBase DEF Planned, StartRecord
    <2>8. Moving(s, t, h, c)
      BY <1>6, <2>1, <2>4, <2>5, <2>6, <2>7 DEF Moving
    <2> QED BY <1>2, <1>6, <2>3, <2>8, MoveLaunches
  <1> QED BY <1>2, <1>3, <1>4, <1>5, <1>6

(* The start of a restored source succeeds.                                *)
LEMMA RestoredLaunch ==
    ASSUME NEW s, NEW t, Going(s, t), Restores(s, t), t.restore,
           held[NextDev(s)] = held[s.img[Selected(t)].host],
           NEW m, m = RestoredStore(PreparedStore(s, t), t)
    PROVE  Good(m, t, held)
  <1>1. Ahead(s, t, Selected(t), NextImage(s), t.dest, t.base)
    BY GoingFacts
  <1>2. t.path # "root"
    BY DEF Restores
  <1>3. CASE NeedsImage(t)
    BY <1>2, <1>3, RestoredLaunches
  <1>4. CASE ~NeedsImage(t)
    <2>1. PICK h, c, d, Q, SH, g : h = Selected(t) /\ c = t.dest /\ d = NextDev(s) /\ Q = seq /\ SH = shared /\ g = held
      OBVIOUS
    <2>2. t.mode = "Consume" /\ ~t.fork
      BY <1>1, <1>4 DEF Ahead, NeedsImage
    <2>3. t.image = None /\ Immutable(s.img[h])
      BY <1>1, <1>2, <1>4, <2>1 DEF Ahead
    <2>4. /\ c \in Conts /\ c = t.source /\ seq[c].role = "Catalogued" /\ h \in Images
          /\ t.path = "rewrite" => h = seq[c].rw /\ h # None /\ t.base = seq[c].rwf /\ s.img[h].refs \in {1, 2}
          /\ t.path = "endpoint" => h = seq[c].read /\ seq[c].valid /\ t.base = seq[c].pos /\ s.img[h].refs = 0
          /\ t.path \in {"endpoint", "rewrite"}
          /\ ~t.fork /\ t.path = "rewrite" => ~t.preserve /\ s.img[h].refs = 1
      BY <2>1, <2>2, ForkedSource
    <2>5. Consistent(s, Q, SH, g) /\ NoForks(Q) /\ t.base \in Nat /\ t.preserve \in BOOLEAN /\ Fits(s, t)
      BY <2>1, GoingBase DEF Planned, StartRecord, Going, Feasible
    <2>6. d \in s.freeDev /\ s.img[h].host # None /\ s.img[h].dev = None /\ PreparedStore(s, t) = BeginHostToDevice(s, h, d)
      BY <1>4, <2>1, <2>3, <2>4, <2>5, RestoringBegun
    <2>7. m = Refetch(s, h, d)
      BY <2>1, <2>3, <2>6 DEF RestoredStore, Refetch
    <2>8. Consistent(m, Q, SH, g) /\ m.img[h].refs = s.img[h].refs /\ m.img[h].dev # None
      <3>1. g[d] = g[s.img[h].host]
        BY <2>1
      <3>2. Consistent(s, Q, SH, g) /\ NoForks(Q) /\ h \in Images /\ d \in s.freeDev
        BY <2>4, <2>5, <2>6
      <3>3. Immutable(s.img[h]) /\ s.img[h].host # None /\ s.img[h].dev = None
        BY <2>3, <2>6
      <3>4. Fetchable(s, Q, SH, g, h, d)
        BY <3>1, <3>2, <3>3 DEF Fetchable
      <3>5. Fetched(s, Refetch(s, h, d), Q, SH, g, h)
        BY <3>4, RestorePublishes
      <3> QED BY <2>7, <3>5 DEF Fetched
    <2>9. Moving(m, t, h, c)
      BY <2>1, <2>2, <2>3, <2>4, <2>5, <2>8 DEF Moving
    <2> QED BY <2>9, MoveLaunches
  <1> QED BY <1>3, <1>4

(* PrepareStart keeps the invariant and throws nothing; if it completes,   *)
(* the lane is active.                                                     *)
LEMMA PrepareStartKeeps ==
    ASSUME Live, fault = "none", PrepareStart
    PROVE  Live' /\ fault' = "none" /\ (txn' = NoTxn => seq'[txn.dest].role = "Active")
  <1>1. PICK s, Q : Opened(s, Q)
    BY DEF Live
  <1>2. PICK t : t = txn
    OBVIOUS
  <1>3. t.kind = "start" /\ t.phase = "source"
    BY <1>2, Zenon DEF PrepareStart
  <1>4. /\ Consistent(s, seq, shared, held) /\ NoForks(seq) /\ Planned(t)
        /\ Feasible(s, t) /\ store = s /\ FlightTo(s.freeHost)
    BY <1>1, <1>2, <1>3 DEF Opened, StartPhase, StartSource
  <1>5. PICK k : k = IF NeedsImage(t) THEN NextImage(s) ELSE None
    OBVIOUS
  <1>6. PICK r \in BOOLEAN : r = Restores(s, t)
    <2>1. Restores(s, t) \in BOOLEAN
      BY DEF Restores, HostOnly
    <2> QED BY <2>1, Zenon
  <1>7. PICK u : u = [t EXCEPT !.image = k, !.restore = r, !.phase = "restoring"]
    OBVIOUS
  <1>8. PICK m : m = PreparedStore(s, t)
    OBVIOUS
  <1>9. k \in Images \cup {None} /\ Sound(s)
    <2>1. Sound(s) /\ Fits(s, t)
      BY <1>4 DEF Consistent, Feasible
    <2> QED BY <1>5, <2>1, NextTaken DEF Fits
  <1>10. Staged(t, u, k, r) /\ t \in StartRecord
    BY <1>4, <1>6, <1>7, <1>9, StagedIs, Zenon DEF Planned
  <1>11. Planned(u) /\ SameSense(t, u)
    BY <1>3, <1>4, <1>10, StagedPlan
  <1>12. Shaped(t)
    BY <1>4, PlannedShape
  <1>13. /\ Selected(u) = Selected(t) /\ (Restores(s, u) <=> Restores(s, t)) /\ (NeedsImage(u) <=> NeedsImage(t))
         /\ Feasible(s, u) /\ PreparedStore(s, u) = m
    BY <1>4, <1>8, <1>11, <1>12, SameMeaning
  <1>14. u.image = k /\ u.restore = r /\ u.phase = "restoring" /\ u.kind = "start" /\ u.path = t.path
    BY <1>10 DEF Staged
  <1>15. Going(s, u)
    BY <1>4, <1>5, <1>11, <1>13, <1>14 DEF Going
  <1>16. \A x \in SharedSlots : shared[x].role \notin {"ReservedCapture", "ReservedReplacement"}
    BY <1>2, <1>3 DEF Live, Reserved
  <1>17. flight \in Seq(Copies) /\ Borrows(seq, shared)
    BY DEF Live
  <1>18. IF r
         THEN /\ store' = m /\ txn' = u
              /\ flight' = Append(flight, [from |-> m.img[Selected(u)].host,
                                           to |-> m.img[IF k = None THEN Selected(u) ELSE k].pdev])
              /\ UNCHANGED <<seq, shared, held, fault>>
         ELSE /\ Launch(m, u)
              /\ held' = Contents(IF u.path = "root" THEN [held EXCEPT ![m.img[k].dev] = 0] ELSE held)
              /\ UNCHANGED flight
    <2>1. ~(~Fits(store, txn) \/ txn.fork # RequiresFork(store, txn))
      <3>1. txn.fork \in BOOLEAN /\ RequiresFork(store, txn) \in BOOLEAN
        BY <1>2, <1>10 DEF StartRecord, RequiresFork
      <3>2. Fits(store, txn) /\ (txn.fork <=> RequiresFork(store, txn))
        BY <1>2, <1>4 DEF Feasible
      <3>3. PICK x \in BOOLEAN : x = txn.fork
        BY <3>1, Zenon
      <3>4. PICK y \in BOOLEAN : y = RequiresFork(store, txn)
        BY <3>1, Zenon
      <3>6. x <=> y
        BY <3>2, <3>3, <3>4
      <3>5. x = y
        BY <3>6, SMT
      <3> QED BY <3>2, <3>3, <3>4, <3>5, Zenon
    <2>2. u = [txn EXCEPT !.image = IF NeedsImage(txn) THEN NextImage(store) ELSE None, !.restore = Restores(store, txn), !.phase = "restoring"]
      BY <1>2, <1>4, <1>5, <1>6, <1>7, Zenon
    <2>3. m = PreparedStore(store, txn) /\ k = IF NeedsImage(txn) THEN NextImage(store) ELSE None
      BY <1>2, <1>4, <1>5, <1>8
    <2> QED BY <1>14, <2>1, <2>2, <2>3, Zenon DEF PrepareStart
  <1>19. CASE r
    <2>1. Restores(s, t) /\ u.restore
      BY <1>6, <1>14, <1>19
    <2>2. /\ store' = m /\ txn' = u /\ seq' = seq /\ shared' = shared /\ held' = held /\ fault' = fault
          /\ flight' = Append(flight, [from |-> m.img[Selected(u)].host,
                                       to |-> m.img[IF k = None THEN Selected(u) ELSE k].pdev])
      BY <1>18, <1>19
    <2>3. PICK h, d, g, SH : h = Selected(t) /\ d = NextDev(s) /\ g = held /\ SH = shared
      OBVIOUS
    <2>4. t.path # "root" /\ h \in Images /\ Immutable(s.img[h]) /\ Fits(s, t)
      BY <1>4, <2>1, <2>3, SelectedOK DEF Restores, Feasible
    <2>5. /\ d \in s.freeDev /\ d \in DevSlots /\ s.img[h].host # None /\ s.img[h].dev = None
          /\ NeedsImage(t) => NextImage(s) \in Images /\ h # NextImage(s) /\ Cloning(s, m, h, NextImage(s), d)
          /\ ~NeedsImage(t) => Fetching(s, m, h, d)
      <3>1. Consistent(s, seq, SH, g)
        BY <1>4, <2>3
      <3> QED BY <1>4, <1>8, <2>1, <2>3, <2>4, <3>1, RestoringBegun
    <2>6. m.img[h].host = s.img[h].host /\ m.img[IF k = None THEN h ELSE k].pdev = d
      <3>1. CASE NeedsImage(t)
        BY <1>5, <2>5, <3>1, StoreAssumption DEF Cloning, Looks
      <3>2. CASE ~NeedsImage(t)
        BY <1>5, <2>5, <3>2 DEF Fetching, Looks
      <3> QED BY <3>1, <3>2
    <2>7. PICK a : a = s.img[h].host
      OBVIOUS
    <2>8. a \in Slots /\ d \in Slots /\ flight' = Append(flight, [from |-> a, to |-> d])
      <3>1. a \in Slots /\ d \in Slots
        BY <1>9, <2>4, <2>5, <2>7, Occupied DEF Slots
      <3> QED BY <1>13, <2>2, <2>3, <2>6, <2>7, <3>1
    <2>9. /\ Awaited(a, d)' /\ flight' \in Seq(Copies)
          /\ \A S : FlightTo(S) /\ d \in S => FlightTo(S)'
      BY <1>17, <2>8, Submits
    <2>10. FlightTo(s.freeHost \cup {d})'
      <3>1. FlightTo(s.freeHost \cup {d})
        BY <1>4 DEF FlightTo
      <3> QED BY <2>9, <3>1
    <2>11. Shaped(u) /\ (u.path # "root" => Unmoved(u.source))
      BY <1>11, <2>2, PlannedShape DEF Unmoved
    <2>12. /\ Selected(u)' = Selected(u) /\ (Restores(s, u)' <=> Restores(s, u)) /\ PreparedStore(s, u)' = PreparedStore(s, u)
           /\ Feasible(s, u)'
      BY <1>13, <2>11, ShapedPlan, ShapedPromise
    <2>13. Planned(u)'
      BY <1>11, <2>2 DEF Planned
    <2>14. StartRestoring(s, u)'
      <3>1. Awaited(s.img[h].host, NextDev(s))' /\ FlightTo(s.freeHost \cup {NextDev(s)})'
        BY <2>3, <2>7, <2>9, <2>10
      <3>2. Selected(u)' = h /\ Restores(s, u)' /\ PreparedStore(s, u)' = m
        BY <1>13, <2>1, <2>3, <2>12
      <3>3. u.image = IF NeedsImage(u) THEN NextImage(s) ELSE None
        BY <1>5, <1>13, <1>14
      <3>4. Awaited(s.img[Selected(u)].host, NextDev(s))'
        BY <3>1, <3>2
      <3> QED BY <2>1, <2>2, <2>12, <3>1, <3>2, <3>3, <3>4 DEF StartRestoring
    <2>15. StartPhase(s, u)'
      BY <1>14, <2>13, <2>14 DEF StartPhase
    <2>16. PICK R : R = seq
      OBVIOUS
    <2>17. Opened(s, R)'
      <3>1. Consistent(s, R, shared, held)' /\ txn'.kind = "start" /\ seq' = R /\ NoForks(R) /\ StartPhase(s, txn)'
        BY <1>4, <1>14, <2>2, <2>15, <2>16
      <3> QED BY <3>1 DEF Opened
    <2>18. Borrows(seq, shared)'
      BY <1>17, <2>2 DEF Borrows
    <2>19. Reserved(txn)'
      BY <1>16, <2>2 DEF Reserved
    <2>20. txn' # NoTxn
      BY <1>14, <2>2 DEF NoTxn
    <2> QED BY <2>2, <2>9, <2>17, <2>18, <2>19, <2>20 DEF Live
  <1>20. CASE ~r
    <2>1. ~Restores(s, u) /\ ~u.restore
      BY <1>6, <1>13, <1>14, <1>20
    <2>2. PICK g : g = IF u.path = "root" THEN [held EXCEPT ![m.img[u.image].dev] = 0] ELSE held
      OBVIOUS
    <2>3. Launch(m, u) /\ held' = Contents(g) /\ flight' = flight
      BY <1>14, <1>18, <1>20, <2>2
    <2>4. Good(m, u, g) /\ m.freeHost = s.freeHost
      BY <1>13, <1>15, <2>1, <2>2, DirectLaunch
    <2>5. FlightTo(m.freeHost)
      BY <1>4, <2>4
    <2>6. Live' /\ fault' = "none" /\ seq'[u.dest].role = "Active"
      BY <1>15, <1>16, <1>17, <2>3, <2>4, <2>5, GoodLaunch
    <2>7. u.dest = txn.dest
      BY <1>2, <1>10 DEF Staged
    <2> QED BY <2>6, <2>7
  <1> QED BY <1>19, <1>20

(* PublishRestore keeps the invariant, throws nothing and activates the    *)
(* lane.                                                                   *)
LEMMA PublishRestoreKeeps ==
    ASSUME Live, fault = "none", PublishRestore
    PROVE  Live' /\ fault' = "none" /\ seq'[txn.dest].role = "Active"
  <1>1. PICK s, Q : Opened(s, Q)
    BY DEF Live
  <1>2. PICK t : t = txn
    OBVIOUS
  <1>3. /\ t.kind = "start" /\ t.phase = "restoring" /\ flight = <<>> /\ held' = Contents(held) /\ flight' = flight
        /\ Launch(RestoredStore(store, t), t)
    BY <1>2 DEF PublishRestore
  <1>4. /\ Consistent(s, seq, shared, held) /\ NoForks(seq) /\ Planned(t) /\ StartRestoring(s, t)
    BY <1>1, <1>2, <1>3 DEF Opened, StartPhase
  <1>5. /\ Feasible(s, t) /\ Restores(s, t) /\ t.restore
        /\ t.image = (IF NeedsImage(t) THEN NextImage(s) ELSE None)
        /\ store = PreparedStore(s, t) /\ held[NextDev(s)] = held[s.img[Selected(t)].host]
    BY <1>3, <1>4 DEF StartRestoring, Awaited
  <1>6. Going(s, t)
    BY <1>3, <1>4, <1>5 DEF Going
  <1>7. PICK m : m = RestoredStore(PreparedStore(s, t), t)
    OBVIOUS
  <1>8. Good(m, t, held)
    BY <1>5, <1>6, <1>7, RestoredLaunch
  <1>9. Launch(m, t)
    BY <1>3, <1>5, <1>7
  <1>10. \A x \in SharedSlots : shared[x].role \notin {"ReservedCapture", "ReservedReplacement"}
    BY <1>2, <1>3 DEF Live, Reserved
  <1>11. flight \in Seq(Copies) /\ Borrows(seq, shared)
    BY DEF Live
  <1>12. FlightTo(m.freeHost)
    BY <1>3 DEF FlightTo
  <1>13. Live' /\ fault' = "none" /\ seq'[t.dest].role = "Active"
    BY <1>3, <1>6, <1>8, <1>9, <1>10, <1>11, <1>12, GoodLaunch
  <1> QED BY <1>2, <1>13

\* what fail_all_cleanup releases: the sequence of c, the shared prefix x
LaneState(c) == IF txn.kind = "capture" /\ c = txn.lane THEN UncapturedSeq(seq[c], txn) ELSE seq[c]

(* The shared prefixes once the open capture is undone.                    *)
SlotState == IF txn.kind = "capture" THEN UncapturedPrefix(shared, txn) ELSE shared

(* stop() releases a sequence.                                             *)
GiveSeq(c, r) == ReleaseBestEffort(r, LaneState(c))

(* stop() releases a shared prefix.                                        *)
GivePrefix(x, r) == IF Quiet(r.img[SlotState[x].img]) \/ r.img[SlotState[x].img].refs > 1
                    THEN DropCheckpoint(r, SlotState[x].img) ELSE r

(* stop() releases one entry, of either kind.                              *)
Give(k, w, r) == IF k = "seq" THEN GiveSeq(w, r) ELSE GivePrefix(w, r)

\* h releases the members of the subsets of S, one by one, from the store b
Gives(h, k, b, S) ==
    h = [U \in SUBSET S |-> IF U = {} THEN b ELSE Give(k, Pick(U), h[U \ {Pick(U)}])]

(* h is the partial results of releasing the sequences of S from b on.     *)
GivesSeq(h, b, S) ==
    h = [U \in SUBSET S |-> IF U = {} THEN b ELSE GiveSeq(Pick(U), h[U \ {Pick(U)}])]

(* h is the partial results of releasing the prefixes of S from b on.      *)
GivesPrefix(h, b, S) ==
    h = [U \in SUBSET S |-> IF U = {} THEN b ELSE GivePrefix(Pick(U), h[U \ {Pick(U)}])]

\* the folds of CleanupSeqs and CleanupShared
SeqFold(b, S) == (CHOOSE h : GivesSeq(h, b, S))[S]

(* The store after the prefixes of S have been released.                   *)
PrefixFold(b, S) == (CHOOSE h : GivesPrefix(h, b, S))[S]

(* stop() releases the active sequences, then the catalogued ones.         *)
LEMMA CleanupSeqsIs ==
    ASSUME NEW s
    PROVE  CleanupSeqs(s) = SeqFold(SeqFold(s, Active), Catalogued)
  BY DEF CleanupSeqs, FoldSet, MapThenFoldSet, SeqFold, GivesSeq, GiveSeq, LaneState, Pick

(* stop() releases the catalogued prefixes.                                *)
LEMMA CleanupSharedIs ==
    ASSUME NEW s
    PROVE  CleanupShared(s) = PrefixFold(s, {x \in SharedSlots : SlotState[x].role = "Catalogued"})
  BY DEF CleanupShared, FoldSet, MapThenFoldSet, PrefixFold, GivesPrefix, GivePrefix, SlotState, Pick

(* The recursion that defines a fold has at most one solution.             *)
LEMMA GivesUnique ==
    ASSUME NEW k, NEW b, NEW S, IsFiniteSet(S), NEW g, NEW h, Gives(g, k, b, S), Gives(h, k, b, S)
    PROVE  g = h
  <1> DEFINE T == {U \in SUBSET S : g[U] # h[U]}
  <1>1. SUFFICES ASSUME T # {} PROVE FALSE
    BY DEF Gives
  <1>2. PICK U \in T : \A V \in T : ~(V \subseteq U /\ V # U)
    <2>1. T \subseteq SUBSET S
      OBVIOUS
    <2> HIDE DEF T
    <2> QED BY <1>1, <2>1, SmallestSubset
  <1>3. U # {}
    BY DEF Gives
  <1>4. Pick(U) \in U
    BY <1>3 DEF Pick
  <1>5. g[U \ {Pick(U)}] = h[U \ {Pick(U)}]
    BY <1>2, <1>4
  <1>6. /\ g[U] = Give(k, Pick(U), g[U \ {Pick(U)}])
        /\ h[U] = Give(k, Pick(U), h[U \ {Pick(U)}])
    BY <1>3 DEF Gives
  <1> QED BY <1>5, <1>6

(* A fold restricts to a fold.                                             *)
LEMMA GivesRestricts ==
    ASSUME NEW k, NEW b, NEW S, NEW U \in SUBSET S, NEW h, Gives(h, k, b, S)
    PROVE  Gives([V \in SUBSET U |-> h[V]], k, b, U)
  <1> DEFINE g == [V \in SUBSET U |-> h[V]]
  <1>1. ASSUME NEW V \in SUBSET U
        PROVE  g[V] = IF V = {} THEN b ELSE Give(k, Pick(V), g[V \ {Pick(V)}])
    <2>1. V \ {Pick(V)} \in SUBSET U
      OBVIOUS
    <2>2. h[V] = IF V = {} THEN b ELSE Give(k, Pick(V), h[V \ {Pick(V)}])
      BY DEF Gives
    <2> QED BY <2>1, <2>2
  <1> QED BY <1>1 DEF Gives

(* The recursion that defines a fold has a solution.                       *)
LEMMA GivesExists ==
    ASSUME NEW k, NEW b, NEW S, IsFiniteSet(S)
    PROVE  \E h : Gives(h, k, b, S)
  <1> DEFINE T == {U \in SUBSET S : ~\E h : Gives(h, k, b, U)}
  <1>1. SUFFICES ASSUME T # {} PROVE FALSE
    OBVIOUS
  <1>2. PICK U \in T : \A V \in T : ~(V \subseteq U /\ V # U)
    <2>1. T \subseteq SUBSET S
      OBVIOUS
    <2> HIDE DEF T
    <2> QED BY <1>1, <2>1, SmallestSubset
  <1> DEFINE It(V) == CHOOSE h : Gives(h, k, b, V)
             Val(V) == IF V = {} THEN b ELSE Give(k, Pick(V), It(V \ {Pick(V)})[V \ {Pick(V)}])
             g == [V \in SUBSET U |-> Val(V)]
  <1>3. ASSUME NEW V \in SUBSET U, V # U
        PROVE  Gives(It(V), k, b, V)
    BY <1>2, <1>3
  <1> HIDE DEF It
  <1>4. ASSUME NEW V \in SUBSET U, V # U
        PROVE  It(V)[V] = Val(V)
    <2>1. Gives(It(V), k, b, V)
      BY <1>3, <1>4
    <2>2. It(V)[V] = IF V = {} THEN b ELSE Give(k, Pick(V), It(V)[V \ {Pick(V)}])
      BY <2>1 DEF Gives
    <2> DEFINE W == V \ {Pick(V)}
    <2>3. ASSUME V # {} PROVE It(V)[W] = It(W)[W]
      <3>1. Pick(V) \in V
        BY <2>3 DEF Pick
      <3>2. W \in SUBSET U /\ W # U
        BY <1>4, <3>1
      <3>3. Gives(It(W), k, b, W)
        BY <3>2, <1>3
      <3>4. Gives([D \in SUBSET W |-> It(V)[D]], k, b, W)
        BY <2>1, GivesRestricts
      <3>5. IsFiniteSet(W)
        BY <3>2, FS_Subset
      <3>6. It(W) = [D \in SUBSET W |-> It(V)[D]]
        BY <3>3, <3>4, <3>5, GivesUnique
      <3> QED BY <3>6
    <2> QED BY <2>2, <2>3
  <1>5. Gives(g, k, b, U)
    <2>1. ASSUME NEW V \in SUBSET U, V # {}
          PROVE  g[V] = Give(k, Pick(V), g[V \ {Pick(V)}])
      <3>1. Pick(V) \in V
        BY <2>1 DEF Pick
      <3>2. V \ {Pick(V)} \in SUBSET U /\ V \ {Pick(V)} # U
        BY <3>1
      <3>3. It(V \ {Pick(V)})[V \ {Pick(V)}] = g[V \ {Pick(V)}]
        BY <3>2, <1>4
      <3> QED BY <2>1, <3>3
    <2>2. g[{}] = b
      OBVIOUS
    <2> QED BY <2>1, <2>2 DEF Gives
  <1> QED BY <1>2, <1>5

(* Both folds are well defined.                                            *)
LEMMA FoldsExist ==
    ASSUME NEW b, NEW S, IsFiniteSet(S)
    PROVE  /\ \E h : GivesSeq(h, b, S) /\ SeqFold(b, S) = h[S]
           /\ \E h : GivesPrefix(h, b, S) /\ PrefixFold(b, S) = h[S]
  <1>1. \E h : GivesSeq(h, b, S)
    <2>1. PICK h : Gives(h, "seq", b, S)
      BY GivesExists
    <2>2. GivesSeq(h, b, S)
      BY <2>1 DEF Gives, GivesSeq, Give
    <2> QED BY <2>2
  <1>2. \E h : GivesPrefix(h, b, S)
    <2>1. PICK h : Gives(h, "prefix", b, S)
      BY GivesExists
    <2>2. GivesPrefix(h, b, S)
      BY <2>1 DEF Gives, GivesPrefix, Give
    <2> QED BY <2>2
  <1>3. GivesSeq(CHOOSE h : GivesSeq(h, b, S), b, S)
    BY <1>1
  <1>4. GivesPrefix(CHOOSE h : GivesPrefix(h, b, S), b, S)
    BY <1>2
  <1> QED BY <1>3, <1>4 DEF SeqFold, PrefixFold

\* the catalogues without the sequences of U, without the prefixes of U
Freed(Q, U) == [c \in Conts |-> IF c \in U THEN FreeSeq ELSE Q[c]]

(* The shared slots of U have been given back.                             *)
Emptied(SI, U) == [x \in SharedSlots |-> IF x \in U THEN EmptyPrefix ELSE SI[x]]

(* Giving entries back keeps the types.                                    *)
LEMMA FreedTyped ==
    ASSUME NEW Q, NEW SH, NEW g, Typed(Q, SH, g), NEW U
    PROVE  /\ Typed(Freed(Q, U), SH, g) /\ Typed(Q, Emptied(SH, U), g)
           /\ FreeSeq \in SeqRecord /\ Headless(FreeSeq) /\ FreeSeq.rw = None
  <1>1. FreeSeq \in SeqRecord
    BY DEF FreeSeq, SeqRecord
  <1>2. Headless(FreeSeq) /\ FreeSeq.rw = None
    BY DEF FreeSeq, Headless
  <1>3. EmptyPrefix \in PrefixRecord
    BY DEF EmptyPrefix, PrefixRecord
  <1>4. Freed(Q, U) \in [Conts -> SeqRecord]
    BY <1>1 DEF Typed, Freed
  <1>5. Emptied(SH, U) \in [SharedSlots -> PrefixRecord]
    BY <1>3 DEF Typed, Emptied
  <1> QED BY <1>1, <1>2, <1>4, <1>5 DEF Typed

(* Releasing the sequences of S one by one, lanes or continuations without *)
(* a fork pending, keeps the catalogue of the others exact.                *)
LEMMA SeqsFreed ==
    ASSUME NEW s, NEW Q, NEW SH, NEW g, Consistent(s, Q, SH, g), NEW S \in SUBSET Conts,
           (\A c \in S : Q[c].role = "Active") \/ NoForks(Q),
           \A c \in S : LaneState(c) = Q[c], NEW h, GivesSeq(h, s, S)
    PROVE  Consistent(h[S], Freed(Q, S), SH, g)
  <1> DEFINE T == {U \in SUBSET S : ~Consistent(h[U], Freed(Q, U), SH, g)}
  <1>1. SUFFICES ASSUME T # {} PROVE FALSE
    OBVIOUS
  <1>2. PICK U \in T : \A V \in T : ~(V \subseteq U /\ V # U)
    <2>1. T \subseteq SUBSET S /\ IsFiniteSet(S)
      BY ContextAssumption, FS_Subset
    <2> HIDE DEF T
    <2> QED BY <1>1, <2>1, SmallestSubset
  <1>t. Typed(Q, SH, g)
    BY DEF Consistent
  <1>3. U # {}
    <2>1. Freed(Q, {}) = Q
      BY <1>t DEF Typed, Freed
    <2>2. h[{}] = s
      BY DEF GivesSeq
    <2> QED BY <2>1, <2>2
  <1>4. PICK c \in U : c = Pick(U)
    BY <1>3 DEF Pick
  <1>5. PICK V : V = U \ {c}
    OBVIOUS
  <1>6. Consistent(h[V], Freed(Q, V), SH, g)
    BY <1>2, <1>4, <1>5
  <1>7. PICK P : P = Freed(Q, V)
    OBVIOUS
  <1>8. PICK R : R = Freed(Q, U)
    OBVIOUS
  <1>9. PICK r : r = h[V]
    OBVIOUS
  <1>10. c \in Conts /\ P[c] = Q[c] /\ R[c] = FreeSeq /\ SameSeqs(P, R, c)
    BY <1>4, <1>5, <1>7, <1>8 DEF Freed, SameSeqs
  <1>11. h[U] = Released(r, P[c], Owned(P[c]))
    <2>1. h[U] = GiveSeq(c, r)
      BY <1>3, <1>4, <1>5, <1>9 DEF GivesSeq
    <2> QED BY <2>1, <1>10, <1>4 DEF GiveSeq, ReleaseBestEffort
  <1>12. Typed(R, SH, g) /\ Headless(R[c]) /\ R[c].rw = None
    BY <1>t, <1>8, <1>10, FreedTyped
  <1>13. Consistent(r, P, SH, g)
    BY <1>6, <1>7, <1>9
  <1>14. PICK B : B = Owned(P[c])
    OBVIOUS
  <1>15. Consistent(Released(r, P[c], B), R, SH, g)
    <2>1. CASE P[c].role = "Active"
      BY <1>10, <1>12, <1>13, <1>14, <2>1, LaneReleased
    <2>2. CASE NoForks(Q)
      <3>1. NoForks(P)
        BY <2>2, <1>7, <1>12 DEF NoForks, Freed, FreeSeq
      <3>2. B \subseteq {P[c].read, P[c].write}
        BY <1>14 DEF Owned
      <3> QED BY <1>10, <1>12, <1>13, <3>1, <3>2, IdleReleased
    <2> QED BY <2>1, <2>2, <1>10, <1>4
  <1> QED BY <1>2, <1>8, <1>11, <1>14, <1>15

(* Releasing the prefixes of S one by one.                                 *)
LEMMA PrefixesFreed ==
    ASSUME NEW s, NEW Q, NEW g, Consistent(s, Q, SlotState, g), NEW S \in SUBSET SharedSlots,
           NoForks(Q), \A x \in S : SlotState[x].role = "Catalogued", NEW h, GivesPrefix(h, s, S)
    PROVE  Consistent(h[S], Q, Emptied(SlotState, S), g)
  <1>0. PICK SH : SH = SlotState
    OBVIOUS
  <1> DEFINE T == {U \in SUBSET S : ~Consistent(h[U], Q, Emptied(SH, U), g)}
  <1>1. SUFFICES ASSUME T # {} PROVE FALSE
    BY <1>0
  <1>2. PICK U \in T : \A V \in T : ~(V \subseteq U /\ V # U)
    <2>1. T \subseteq SUBSET S /\ IsFiniteSet(S)
      BY ContextAssumption, FS_Subset
    <2> HIDE DEF T
    <2> QED BY <1>1, <2>1, SmallestSubset
  <1>t. Typed(Q, SH, g) /\ Consistent(s, Q, SH, g)
    BY <1>0 DEF Consistent
  <1>3. U # {}
    <2>1. Emptied(SH, {}) = SH
      BY <1>t DEF Typed, Emptied
    <2>2. h[{}] = s
      BY DEF GivesPrefix
    <2> QED BY <2>1, <2>2, <1>t
  <1>4. PICK x \in U : x = Pick(U)
    BY <1>3 DEF Pick
  <1>5. PICK V : V = U \ {x}
    OBVIOUS
  <1>6. Consistent(h[V], Q, Emptied(SH, V), g)
    BY <1>2, <1>4, <1>5
  <1>7. PICK P : P = Emptied(SH, V)
    OBVIOUS
  <1>8. PICK R : R = Emptied(SH, U)
    OBVIOUS
  <1>9. PICK r : r = h[V]
    OBVIOUS
  <1>10. /\ x \in SharedSlots /\ P[x] = SH[x] /\ R[x] = EmptyPrefix /\ SamePrefixes(P, R, x)
         /\ SH[x].role = "Catalogued"
    BY <1>0, <1>4, <1>5, <1>7, <1>8 DEF Emptied, SamePrefixes
  <1>11. P[x].img # None /\ P[x].img \in Images
    BY <1>t, <1>10, StoreAssumption DEF Consistent, PrefixOK
  <1>12. Consistent(r, Q, P, g)
    BY <1>6, <1>7, <1>9
  <1>13. Quiet(r.img[P[x].img])
    BY <1>11, <1>12, AllQuiet
  <1>14. h[U] = DropCheckpoint(r, P[x].img)
    <2>1. h[U] = GivePrefix(x, r)
      BY <1>3, <1>4, <1>5, <1>9 DEF GivesPrefix
    <2> QED BY <2>1, <1>0, <1>10, <1>13 DEF GivePrefix
  <1>15. Typed(Q, R, g) /\ R[x].img = None /\ R[x].role \in {"Free", "ReservedCapture"}
    <2>1. Typed(Q, R, g)
      BY <1>t, <1>8, FreedTyped
    <2> QED BY <2>1, <1>10 DEF EmptyPrefix
  <1>16. Consistent(DropCheckpoint(r, P[x].img), Q, R, g)
    BY <1>10, <1>11, <1>12, <1>15, PrefixReleased
  <1> QED BY <1>2, <1>8, <1>14, <1>16

(* A store whose catalogue is empty is the empty store.                    *)
LEMMA NothingOwned ==
    ASSUME NEW s, NEW Q, NEW SH, NEW g, Consistent(s, Q, SH, g),
           \A c \in Conts : Headless(Q[c]) /\ Q[c].rw = None,
           \A x \in SharedSlots : SH[x].img = None
    PROVE  s = EmptyStore
  <1>n. None \notin Images
    BY StoreAssumption
  <1>1. ASSUME NEW h \in Images PROVE s.img[h] = NewObject("Free")
    <2>1. NamedByRewrite(Q, h) = 0 /\ NamedByPrefix(SH, h) = 0
      BY <1>n DEF NamedByRewrite, NamedByPrefix
    <2>2. \A c \in Conts : h \notin Owned(Q[c])
      BY <1>n DEF Owned, Headless
    <2>3. ImageOK(s, Q, SH, h) /\ Shape(s.img[h])
      BY DEF Consistent, Sound, Shapes
    <2>4. s.img[h].refs = 0
      BY <2>1, <2>3 DEF ImageOK
    <2>5. s.img[h].role = "Free"
      BY <2>2, <2>3, <2>4 DEF ImageOK
    <2> QED BY <2>3, <2>5 DEF Shape
  <1>2. SameImages(EmptyStore, s, {})
    BY <1>1 DEF SameImages, EmptyStore
  <1>3. Sound(s)
    BY DEF Consistent
  <1> QED BY <1>2, <1>3, EmptySound, SameStore

(* fail_all_cleanup gives every image and slot back.                       *)
LEMMA StopKeeps ==
    ASSUME Live, Stop
    PROVE  Over'
  <1>1. PICK s, Q : Opened(s, Q)
    BY DEF Live
  <1>2. CleanupTxn(store) = s
    BY <1>1, Overlaid
  <1>3. PICK SI : SI = SlotState
    OBVIOUS
  <1>4. /\ Consistent(s, Q, SI, held)
        /\ \A x \in SharedSlots : SI[x].role \notin {"ReservedCapture", "ReservedReplacement"}
    <2>1. Consistent(s, Q, shared, held) /\ Borrows(seq, shared) /\ Reserved(txn)
      BY <1>1 DEF Opened, Live
    <2>2. CASE txn.kind = "capture"
      <3>1. Offered(txn, Q)
        BY <1>1, <2>2 DEF Opened, CapturePhase
      <3>2. SI = UncapturedPrefix(shared, txn)
        BY <1>3, <2>2 DEF SlotState
      <3> QED BY <2>1, <2>2, <3>1, <3>2, UncapturedSlot
    <2>3. CASE txn.kind # "capture"
      <3>1. SI = shared
        BY <1>3, <2>3 DEF SlotState
      <3> QED BY <2>1, <2>3, <3>1 DEF Reserved
    <2> QED BY <2>2, <2>3
  <1>5. \A c \in Conts : LaneState(c) = Q[c]
    <2>1. CASE txn.kind = "capture" /\ txn.phase # "pressing"
      BY <1>1, <2>1, UncapturedLane DEF LaneState
    <2>2. CASE txn.kind = "capture" /\ txn.phase = "pressing"
      <3>1. seq = Q
        BY <1>1, <2>2 DEF Opened, CapturePhase
      <3> QED BY <2>2, <3>1 DEF LaneState, UncapturedSeq
    <2>3. CASE txn.kind # "capture"
      <3>1. seq = Q
        BY <1>1, <2>3 DEF Opened
      <3> QED BY <2>3, <3>1 DEF LaneState
    <2> QED BY <2>1, <2>2, <2>3
  <1>6. \A c \in Conts : seq[c].role = Q[c].role
    BY <1>1, SeqOver
  <1>7. PICK A \in SUBSET Conts : A = Active
    BY DEF Active
  <1>8. PICK K \in SUBSET Conts : K = Catalogued
    BY DEF Catalogued
  <1>9. /\ \A c \in A : Q[c].role = "Active" /\ c \notin K
        /\ \A c \in K : Q[c].role = "Catalogued"
        /\ \A c \in Conts : c \notin A /\ c \notin K => Q[c].role \notin {"Active", "Catalogued"}
    BY <1>6, <1>7, <1>8 DEF Active, Catalogued
  <1>f. IsFiniteSet(A) /\ IsFiniteSet(K)
    BY ContextAssumption, FS_Subset
  <1>10. PICK ha : GivesSeq(ha, s, A) /\ SeqFold(s, A) = ha[A]
    BY <1>f, FoldsExist
  <1>11. PICK s1 : s1 = ha[A]
    OBVIOUS
  <1>12. PICK Q1 : Q1 = Freed(Q, A)
    OBVIOUS
  <1>13. Consistent(s1, Q1, SI, held)
    <2>1. Consistent(ha[A], Freed(Q, A), SI, held)
      BY <1>4, <1>5, <1>9, <1>10, SeqsFreed
    <2> QED BY <2>1, <1>11, <1>12
  <1>14. /\ \A c \in K : LaneState(c) = Q1[c]
         /\ \A c \in A : Q1[c] = FreeSeq
         /\ \A c \in Conts \ A : Q1[c] = Q[c]
    BY <1>5, <1>9, <1>12 DEF Freed
  <1>15. NoForks(Q1)
    <2> SUFFICES ASSUME NEW c \in Conts PROVE ~Q1[c].fork
      BY DEF NoForks
    <2>1. CASE c \in A
      BY <2>1, <1>14 DEF FreeSeq
    <2>2. CASE c \notin A
      <3>1. SeqOK(s1, held, Q1[c]) /\ Q1[c].role # "Active"
        BY <1>13, <2>2, <1>14, <1>6, <1>7 DEF Consistent, Active
      <3> QED BY <3>1 DEF SeqOK, Headless, Endpoint, Writer, Forker
    <2> QED BY <2>1, <2>2
  <1>16. PICK hk : GivesSeq(hk, s1, K) /\ SeqFold(s1, K) = hk[K]
    BY <1>f, FoldsExist
  <1>17. PICK s2 : s2 = hk[K]
    OBVIOUS
  <1>18. PICK Q2 : Q2 = Freed(Q1, K)
    OBVIOUS
  <1>19. Consistent(s2, Q2, SI, held)
    <2>1. Consistent(hk[K], Freed(Q1, K), SI, held)
      BY <1>13, <1>14, <1>15, <1>16, SeqsFreed
    <2> QED BY <2>1, <1>17, <1>18
  <1>20. \A c \in Conts : Headless(Q2[c]) /\ Q2[c].rw = None
    <2> SUFFICES ASSUME NEW c \in Conts PROVE Headless(Q2[c]) /\ Q2[c].rw = None
      OBVIOUS
    <2>1. CASE c \in A \cup K
      <3>1. Q2[c] = FreeSeq
        BY <2>1, <1>14, <1>18 DEF Freed
      <3> QED BY <3>1 DEF FreeSeq, Headless
    <2>2. CASE c \notin A \cup K
      <3>1. Q2[c] = Q[c] /\ Q[c].role \notin {"Active", "Catalogued"}
        BY <2>2, <1>9, <1>14, <1>18 DEF Freed
      <3>2. SeqOK(s, held, Q[c])
        BY <1>4 DEF Consistent
      <3> QED BY <3>1, <3>2 DEF SeqOK, Headless, Endpoint, Writer, Forker
    <2> QED BY <2>1, <2>2
  <1>21. NoForks(Q2)
    BY <1>20 DEF NoForks, Headless
  <1>22. PICK X \in SUBSET SharedSlots : X = {x \in SharedSlots : SlotState[x].role = "Catalogued"}
    OBVIOUS
  <1>23. PICK hx : GivesPrefix(hx, s2, X) /\ PrefixFold(s2, X) = hx[X]
    BY FoldsExist, ContextAssumption, FS_Subset
  <1>24. PICK s3 : s3 = hx[X]
    OBVIOUS
  <1>25. PICK SJ : SJ = Emptied(SI, X)
    OBVIOUS
  <1>26. Consistent(s3, Q2, SJ, held)
    <2>1. Consistent(s2, Q2, SlotState, held)
      BY <1>3, <1>19
    <2>2. \A x \in X : SlotState[x].role = "Catalogued"
      BY <1>22
    <2>3. Consistent(hx[X], Q2, Emptied(SlotState, X), held)
      BY <1>21, <1>23, <2>1, <2>2, PrefixesFreed
    <2> QED BY <2>3, <1>3, <1>24, <1>25
  <1>27. \A x \in SharedSlots : SJ[x].img = None
    <2> SUFFICES ASSUME NEW x \in SharedSlots PROVE SJ[x].img = None
      OBVIOUS
    <2>1. CASE x \in X
      BY <2>1, <1>25 DEF Emptied, EmptyPrefix
    <2>2. CASE x \notin X
      <3>1. SJ[x] = SI[x] /\ SI[x].role # "Catalogued"
        BY <2>2, <1>3, <1>22, <1>25 DEF Emptied
      <3>2. PrefixOK(s, held, SI[x]) /\ SI[x].role \notin {"ReservedCapture", "ReservedReplacement"}
        BY <1>4 DEF Consistent
      <3> QED BY <3>1, <3>2 DEF PrefixOK
    <2> QED BY <2>1, <2>2
  <1>28. s3 = EmptyStore
    BY <1>20, <1>26, <1>27, NothingOwned
  <1>29. store' = EmptyStore
    <2>1. CleanupSeqs(s) = s2
      BY <1>7, <1>8, <1>10, <1>11, <1>16, <1>17, CleanupSeqsIs
    <2>2. CleanupShared(s2) = s3
      BY <1>22, <1>23, <1>24, CleanupSharedIs
    <2>3. store' = CleanupShared(CleanupSeqs(CleanupTxn(store)))
      BY DEF Stop
    <2> QED BY <1>2, <1>28, <2>1, <2>2, <2>3
  <1> QED BY <1>29 DEF Stop, Over

\* nothing is catalogued and nothing is open
Fresh ==
    /\ store = EmptyStore /\ seq = [c \in Conts |-> FreeSeq]
    /\ shared = [x \in SharedSlots |-> EmptyPrefix] /\ txn = NoTxn /\ flight = <<>>
    /\ held = [d \in Slots |-> Junk]

(* A program that has nothing catalogued satisfies the invariant.          *)
LEMMA FreshIsLive ==
    ASSUME Fresh
    PROVE  Live
  <1>1. PICK s : s = EmptyStore
    OBVIOUS
  <1>2. PICK Q : Q = [c \in Conts |-> FreeSeq]
    OBVIOUS
  <1>3. PICK SH : SH = [x \in SharedSlots |-> EmptyPrefix]
    OBVIOUS
  <1>4. PICK g : g = [d \in Slots |-> Junk]
    OBVIOUS
  <1>n. None \notin Images
    BY StoreAssumption
  <1>5. \A c \in Conts : Q[c] = FreeSeq
    BY <1>2
  <1>6. \A x \in SharedSlots : SH[x].role = "Free" /\ SH[x].img = None /\ SH[x].active = 0
    BY <1>3 DEF EmptyPrefix
  <1>7. Headless(FreeSeq) /\ FreeSeq.rw = None /\ FreeSeq \in SeqRecord /\ ~FreeSeq.fork /\ FreeSeq.role = "Free"
    <2>1. FreeSeq \in SeqRecord
      BY DEF FreeSeq, SeqRecord
    <2> QED BY <2>1 DEF FreeSeq, Headless
  <1>8. Typed(Q, SH, g)
    <2>1. EmptyPrefix \in PrefixRecord
      BY DEF EmptyPrefix, PrefixRecord
    <2>2. Junk \in Nat
      BY ContextAssumption DEF Junk
    <2> QED BY <1>2, <1>3, <1>4, <1>7, <2>1, <2>2 DEF Typed
  <1>9. \A h \in Images : s.img[h] = NewObject("Free")
    BY <1>1 DEF EmptyStore
  <1>10. ASSUME NEW h \in Images PROVE ImageOK(s, Q, SH, h)
    <2>1. NamedByRewrite(Q, h) = 0 /\ NamedByPrefix(SH, h) = 0
      BY <1>n, <1>5, <1>6, <1>7 DEF NamedByRewrite, NamedByPrefix
    <2>2. /\ s.img[h].refs = 0 /\ s.img[h].role = "Free" /\ s.img[h].pdev = None /\ s.img[h].phost = None
          /\ ~s.img[h].pinned /\ s.img[h].from = None /\ s.img[h].host = None
      BY <1>9 DEF NewObject
    <2> QED BY <2>1, <2>2 DEF ImageOK
  <1>11. \A c \in Conts : SeqOK(s, g, Q[c])
    BY <1>5, <1>7 DEF SeqOK
  <1>12. \A x \in SharedSlots : PrefixOK(s, g, SH[x])
    BY <1>6 DEF PrefixOK
  <1>13. Distinct(Q, SH)
    <2>1. \A c \in Conts : \A h \in Images : h \notin Owned(Q[c])
      BY <1>n, <1>5, <1>7 DEF Owned, Headless
    <2> QED BY <2>1, <1>5, <1>6, <1>7 DEF Distinct
  <1>14. ForksKept(Q, SH)
    BY <1>5, <1>7 DEF ForksKept
  <1>15. Consistent(s, Q, SH, g)
    BY <1>1, <1>8, <1>10, <1>11, <1>12, <1>13, <1>14, EmptySound DEF Consistent
  <1>16. Opened(s, Q)
    <2>1. store = s /\ seq = Q /\ shared = SH /\ held = g
      BY <1>1, <1>2, <1>3, <1>4 DEF Fresh
    <2>2. txn = NoTxn /\ txn.kind = "none"
      BY DEF Fresh, NoTxn
    <2>3. FlightTo(s.freeHost)
      BY DEF FlightTo, Fresh
    <2> QED BY <1>15, <2>1, <2>2, <2>3 DEF Opened
  <1>17. flight \in Seq(Copies)
    BY DEF Fresh
  <1>18. Borrows(seq, shared)
    <2> SUFFICES ASSUME NEW x \in SharedSlots
                 PROVE  shared[x].active = Cardinality({c \in Conts : seq[c].role = "Active" /\ x \in seq[c].refs})
      BY <1>3, <1>6 DEF Borrows, Fresh
    <2>1. {c \in Conts : seq[c].role = "Active" /\ x \in seq[c].refs} = {}
      BY <1>2, <1>5, <1>7 DEF Fresh
    <2> QED BY <2>1, <1>3, <1>6, FS_EmptySet DEF Fresh
  <1>19. Reserved(txn)
    BY <1>3, <1>6 DEF Reserved, Fresh
  <1> QED BY <1>16, <1>17, <1>18, <1>19 DEF Live

(* Both halves of the invariant describe a live state.                     *)
LEMMA CInvLive ==
    ASSUME CInv
    PROVE  Live
  BY FreshIsLive DEF CInv, Over, Fresh

(* The invariant holds initially.                                          *)
LEMMA InitHolds == Init => CInv
  BY FreshIsLive DEF Init, StoreInit, Fresh, CInv

(* Every handler, under the fault it starts from.                          *)
LEMMA StepHolds ==
    ASSUME Live, fault = "none", Step
    PROVE  Live' /\ fault' \in {"none", "abort", "reserve"}
  <1>1. ASSUME NEW c \in Conts, Execute(c) PROVE Live' /\ fault' = "none"
    BY <1>1, ExecuteKeeps
  <1>2. ASSUME NEW c \in Conts, ExactHit(c) PROVE Live' /\ fault' = "none"
    BY <1>2, ExactHitKeeps
  <1>3. ASSUME NEW c \in Conts, Finish(c) PROVE Live' /\ fault' = "none"
    BY <1>3, FinishKeeps
  <1>4. ASSUME NEW c \in Conts, Discard(c) \/ Cancel(c) PROVE Live' /\ fault' \in {"none", "abort"}
    <2>1. txn.kind = "none" /\ seq[c].role = "Active" /\ ClearLane(c)
      BY <1>4 DEF Discard, Cancel, Idle, Active
    <2> QED BY <2>1, ClearKeeps
  <1>5. ASSUME NEW c \in Conts, ReserveCapture(c) PROVE Live' /\ fault' \in {"none", "reserve"}
    <2>1. CASE UnsettledFork
      BY <1>5, <2>1, ReservesNothing
    <2>2. CASE ~UnsettledFork
      BY <1>5, <2>2, ReserveCaptureKeeps
    <2> QED BY <2>1, <2>2
  <1>6. ASSUME ReserveStart PROVE Live' /\ fault' = "none"
    BY <1>6, ReserveStartKeeps
  <1>7. ASSUME Press PROVE Live' /\ fault' = "none"
    BY <1>7, PressKeeps
  <1>8. ASSUME PublishPressure PROVE Live' /\ fault' = "none"
    BY <1>8, PublishPressureKeeps
  <1>9. ASSUME PrepareSource PROVE Live' /\ fault' = "none"
    BY <1>9, PrepareSourceKeeps
  <1>10. ASSUME PrepareStart PROVE Live' /\ fault' = "none"
    BY <1>10, PrepareStartKeeps
  <1>11. ASSUME PublishRestore PROVE Live' /\ fault' = "none"
    BY <1>11, PublishRestoreKeeps
  <1>12. ASSUME AbortStart PROVE Live' /\ fault' = "none"
    BY <1>12, AbortStartKeeps
  <1>13. ASSUME PrepareCapture PROVE Live' /\ fault' = "none"
    BY <1>13, PrepareCaptureKeeps
  <1>14. ASSUME PublishCapture PROVE Live' /\ fault' = "none"
    BY <1>14, PublishCaptureKeeps
  <1>15. ASSUME AbortCapture PROVE Live' /\ fault' = "none"
    BY <1>15, AbortCaptureKeeps
  <1> QED BY <1>1, <1>2, <1>3, <1>4, <1>5, <1>6, <1>7, <1>8, <1>9, <1>10, <1>11, <1>12, <1>13, <1>14, <1>15
          DEF Step

(* A copy lands, or nothing happens.                                       *)
LEMMA LandsHolds ==
    ASSUME Live, CopyLands \/ UNCHANGED vars
    PROVE  Live' /\ fault' = fault
  <1>1. PICK s, Q : Opened(s, Q)
    BY DEF Live
  <1>2. Opened(s, Q)' /\ flight' \in Seq(Copies)
    <2>1. CASE CopyLands
      BY <1>1, <2>1, CopyLandsKeeps DEF Live
    <2>2. CASE UNCHANGED vars
      <3>1. Opened(s, Q)'
        BY <1>1, <2>2, StutterKeeps
      <3> QED BY <3>1, <2>2 DEF vars, Live
    <2> QED BY <2>1, <2>2
  <1>3. seq' = seq /\ shared' = shared /\ txn' = txn /\ fault' = fault
    BY DEF CopyLands, vars
  <1>4. Borrows(seq, shared)' /\ Reserved(txn)'
    BY <1>3 DEF Live, Borrows, Reserved
  <1> QED BY <1>2, <1>3, <1>4 DEF Live

(* Every step keeps the invariant.                                         *)
LEMMA NextHolds ==
    ASSUME CInv, [Next]_vars
    PROVE  CInv'
  <1>1. Live
    BY CInvLive
  <1>2. CASE fault = "none" /\ Step
    BY <1>1, <1>2, StepHolds DEF CInv
  <1>3. CASE fault = "none" /\ CopyLands
    BY <1>1, <1>3, LandsHolds DEF CInv
  <1>4. CASE Stop
    BY <1>1, <1>4, StopKeeps DEF CInv
  <1>5. CASE UNCHANGED vars
    <2>1. CASE Over
      BY <2>1, <1>5 DEF Over, vars, CInv
    <2>2. CASE ~Over
      BY <2>2, <1>1, <1>5, LandsHolds DEF CInv
    <2> QED BY <2>1, <2>2
  <1> QED BY <1>2, <1>3, <1>4, <1>5 DEF Next

(* The inductive invariant holds in every behaviour of the context cache,  *)
(* for every number of sequences, shared prefixes, images and slots: at    *)
(* each moment the open transaction is an overlay on a store and a         *)
(* catalogue that are consistent, and that its abort would restore.        *)
THEOREM ContextInvariant == Spec => []CInv
  BY InitHolds, NextHolds, PTL DEF Spec

(* None of the consistency checks the handlers make on the store, and none *)
(* of their std::terminate calls, ever fires, whatever the order of        *)
(* reservations, pressure, copies, captures, aborts, executions and        *)
(* cancellations.  What remains are the two refusals CancelIsConsumed and  *)
(* PromotionReserves are about.                                            *)
THEOREM HandlersNeverThrow == Spec => []NoLogicError
  <1>1. CInv => NoLogicError
    BY DEF CInv, Over, NoLogicError
  <1> QED BY <1>1, ContextInvariant, PTL

(* Stopping at any moment, in the middle of any transaction and with       *)
(* copies in flight, returns every slot and every image (the cleanup of    *)
(* ContextTransactionRuntime and of the sequence and shared-prefix         *)
(* stores).                                                                *)
THEOREM StopGivesAllBack == Spec => []StopReleasesAll
  <1>1. CInv => StopReleasesAll
    BY DEF CInv, Over, StopReleasesAll
  <1> QED BY <1>1, ContextInvariant, PTL

(* What the open transaction has taken: nothing the catalogue names but    *)
(* the rewrite checkpoint a capture recycles.                              *)
LEMMA TakenImage ==
    ASSUME NEW s, NEW Q, Opened(s, Q), NEW h \in Images, h = Taking(txn)
    PROVE  /\ store.img[h].refs = 0 /\ store.img[h].role # "Free" /\ h \in TxnImages
           /\ txn.kind = "capture" =>
                /\ txn.phase = "copying" /\ h = txn.dest /\ h # txn.source
                /\ txn.recycle => s.img[h].refs = 1 /\ h = Q[txn.lane].rw /\ Immutable(s.img[h])
           /\ ~(txn.kind = "capture" /\ txn.recycle) => s.img[h].role = "Free"
  <1>n. None \notin Images
    BY StoreAssumption
  <1>1. CASE txn.kind = "capture"
    <2>1. txn.phase = "copying" /\ h = txn.dest
      BY <1>1, <1>n DEF Taking
    <2>2. Consistent(s, Q, shared, held) /\ NoForks(Q) /\ Offered(txn, Q) /\ CaptureCopying(s, Q, txn)
      BY <1>1, <2>1 DEF Opened, CapturePhase
    <2>3. /\ h # txn.source
          /\ txn.recycle => s.img[h].refs = 1 /\ h = Q[txn.lane].rw /\ Immutable(s.img[h])
          /\ ~txn.recycle => s.img[h].role = "Free"
          /\ store.img[h].refs = 0 /\ store.img[h].role # "Free"
      BY <2>1, <2>2, CopyingOverlay
    <2>4. h \in TxnImages
      BY <1>1, <2>1 DEF TxnImages
    <2> QED BY <1>1, <2>1, <2>3, <2>4
  <1>2. CASE txn.kind # "capture"
    <2>1. txn.kind = "start" /\ txn.phase = "restoring" /\ h = txn.image
      BY <1>2, <1>n DEF Taking
    <2>2. Consistent(s, seq, shared, held) /\ NoForks(seq) /\ Planned(txn) /\ StartRestoring(s, txn)
      BY <2>1 DEF Opened, StartPhase
    <2>3. s.img[h].role = "Free" /\ Sound(store) /\ store.img[h].pdev \in DevSlots /\ NeedsImage(txn)
      <3>1. /\ Overlay(s, store, None, txn.image) /\ s.img[h].role = "Free" /\ NextDev(s) \in s.freeDev
            /\ store.img[h].pdev = NextDev(s) /\ NeedsImage(txn)
        BY <2>1, <2>2, <1>n, RestoringOverlay
      <3>2. s.freeDev \subseteq DevSlots
        BY <2>2 DEF Consistent, Sound, Store
      <3> QED BY <3>1, <3>2 DEF Overlay
    <2>4. store.img[h].refs = 0 /\ store.img[h].role # "Free"
      <3>1. Restores(s, txn) /\ Fits(s, txn) /\ store = PreparedStore(s, txn) /\ txn.image = NextImage(s)
        BY <2>2, <2>3 DEF StartRestoring, Feasible
      <3>2. txn.path # "root"
        BY <3>1 DEF Restores
      <3>3. PICK k \in Images : k = Selected(txn) /\ Immutable(s.img[k])
        BY <2>2, <3>2, SelectedOK
      <3>4. Cloning(s, store, k, h, NextDev(s))
        BY <2>1, <2>2, <2>3, <3>1, <3>3, RestoringBegun
      <3> QED BY <3>4 DEF Cloning
    <2>5. h \in TxnImages
      BY <2>1 DEF TxnImages
    <2> QED BY <1>2, <2>3, <2>4, <2>5
  <1> QED BY <1>1, <1>2

(* An image the open transaction has not taken is as it was before it, but *)
(* for the lane's image that a capture has frozen.                         *)
LEMMA OtherImage ==
    ASSUME NEW s, NEW Q, Opened(s, Q), NEW h \in Images, h # Taking(txn)
    PROVE  /\ store.img[h].dev = s.img[h].dev /\ store.img[h].host = s.img[h].host
           /\ store.img[h].refs = s.img[h].refs
           /\ store.img[h].role = s.img[h].role \/ h = Frozens(txn)
           /\ h = Frozens(txn) =>
                /\ txn.kind = "capture" /\ txn.phase = "copying" /\ h = txn.source /\ h = Q[txn.lane].write
                /\ Q[txn.lane].read = h /\ txn.lane \in Conts
                /\ s.img[h].role = "ActiveMutable" /\ Immutable(store.img[h]) /\ h \in TxnImages
  <1>n. None \notin Images
    BY StoreAssumption
  <1>1. Overlay(s, store, Frozens(txn), Taking(txn))
    BY Overlaid
  <1>2. ASSUME h = Frozens(txn)
        PROVE  /\ txn.kind = "capture" /\ txn.phase = "copying" /\ h = txn.source /\ h = Q[txn.lane].write
               /\ Q[txn.lane].read = h /\ txn.lane \in Conts
               /\ s.img[h].role = "ActiveMutable" /\ Immutable(store.img[h]) /\ h \in TxnImages
    <2>1. txn.kind = "capture" /\ txn.phase = "copying" /\ h = txn.source
      BY <1>2, <1>n DEF Frozens
    <2>2. Consistent(s, Q, shared, held) /\ NoForks(Q) /\ Offered(txn, Q) /\ CaptureCopying(s, Q, txn)
      BY <2>1 DEF Opened, CapturePhase
    <2>3. txn.lane \in Conts /\ Writer(s, held, Q[txn.lane]) /\ store.img[h].role = "CheckpointImmutable"
      BY <2>1, <2>2, CopyingOverlay
    <2>4. h = Q[txn.lane].write
      BY <2>1, <2>2 DEF CaptureCopying
    <2> QED BY <2>1, <2>3, <2>4 DEF Writer, Immutable, TxnImages
  <1> QED BY <1>1, <1>2 DEF Overlay

(* A checkpoint is immutable in the current store and each of its replicas *)
(* holds its frontier, unless a capture is recycling it.                   *)
LEMMA IntactImage ==
    ASSUME NEW s, NEW Q, Opened(s, Q), NEW h \in Images, Immutable(s.img[h]), NEW n, Holds(s, held, h, n)
    PROVE  \/ /\ Immutable(store.img[h])
              /\ store.img[h].dev # None => held[store.img[h].dev] = n
              /\ store.img[h].host # None => held[store.img[h].host] = n
           \/ txn.kind = "capture" /\ txn.recycle /\ txn.dest = h
  <1>1. CASE h = Taking(txn)
    BY <1>1, TakenImage DEF Immutable
  <1>2. CASE h # Taking(txn)
    BY <1>2, OtherImage DEF Immutable, Holds
  <1> QED BY <1>1, <1>2

(* The invariant implies CheckpointsIntact.                                *)
LEMMA LiveIntact ==
    ASSUME Live
    PROVE  CheckpointsIntact
  <1>1. PICK s, Q : Opened(s, Q)
    BY DEF Live
  <1>2. Consistent(s, Q, shared, held)
    BY <1>1 DEF Opened
  <1>3. ASSUME NEW p \in Checkpoints
        PROVE  p[1] \in Images /\ Immutable(s.img[p[1]]) /\ Holds(s, held, p[1], p[2])
    <2>1. ASSUME NEW c \in Conts, p \in Immutables(c)
          PROVE  p[1] \in Images /\ Immutable(s.img[p[1]]) /\ Holds(s, held, p[1], p[2])
      <3>1. /\ seq[c].role = Q[c].role /\ seq[c].rw = Q[c].rw
            /\ seq[c].pos = Q[c].pos /\ seq[c].rwf = Q[c].rwf /\ seq[c].valid = Q[c].valid
        BY <1>1, SeqOver
      <3>2. CASE seq[c].rw # None /\ p = <<seq[c].rw, seq[c].rwf>>
        <4>1. Q[c].rw \in Images /\ Immutable(s.img[Q[c].rw]) /\ Holds(s, held, Q[c].rw, Q[c].rwf)
          BY <1>2, <3>1, <3>2, SeqCases
        <4> QED BY <4>1, <3>1, <3>2
      <3>3. CASE seq[c].role = "Catalogued" /\ seq[c].valid /\ p = <<seq[c].read, seq[c].pos>>
        <4>1. ~Captured(c)
          <5>1. txn.kind = "capture" => seq[txn.lane].role = "Active"
            <6> SUFFICES ASSUME txn.kind = "capture" PROVE seq[txn.lane].role = "Active"
              OBVIOUS
            <6>1. Offered(txn, Q)
              BY <1>1 DEF Opened, CapturePhase
            <6>2. txn.lane \in Conts /\ Q[txn.lane].role = "Active"
              BY <6>1 DEF Offered, CaptureRecord
            <6> QED BY <6>2, <1>1, SeqOver
          <5> QED BY <5>1, <3>3 DEF Captured
        <4>2. seq[c] = Q[c]
          BY <1>1, <4>1, SeqOver
        <4>3. Endpoint(s, held, Q[c])
          BY <1>2, <3>3, <4>2, SeqCases
        <4> QED BY <3>3, <4>2, <4>3 DEF Endpoint
      <3> QED BY <2>1, <3>2, <3>3 DEF Immutables
    <2>2. ASSUME NEW x \in SharedSlots, shared[x].role \in {"Catalogued", "ReservedReplacement"},
                 p = <<shared[x].img, shared[x].f>>
          PROVE  p[1] \in Images /\ Immutable(s.img[p[1]]) /\ Holds(s, held, p[1], p[2])
      <3>1. shared[x].img \in Images /\ Immutable(s.img[shared[x].img]) /\ Holds(s, held, shared[x].img, shared[x].f)
        BY <1>2, <2>2, PrefixCases
      <3> QED BY <2>2, <3>1
    <2>3. \/ \E c \in Conts : p \in Immutables(c)
          \/ \E x \in SharedSlots : /\ shared[x].role \in {"Catalogued", "ReservedReplacement"}
                                    /\ p = <<shared[x].img, shared[x].f>>
      BY SMT DEF Checkpoints
    <2> QED BY <2>1, <2>2, <2>3
  <1>4. ASSUME NEW p \in Checkpoints
        PROVE  \/ /\ Immutable(store.img[p[1]])
                  /\ store.img[p[1]].dev # None => held[store.img[p[1]].dev] = p[2]
                  /\ store.img[p[1]].host # None => held[store.img[p[1]].host] = p[2]
               \/ txn.kind = "capture" /\ txn.recycle /\ txn.dest = p[1]
    <2>1. PICK h \in Images : h = p[1]
      BY <1>3
    <2>2. PICK n : n = p[2]
      OBVIOUS
    <2>3. Immutable(s.img[h]) /\ Holds(s, held, h, n)
      BY <1>3, <2>1, <2>2
    <2>4. \/ /\ Immutable(store.img[h])
             /\ store.img[h].dev # None => held[store.img[h].dev] = n
             /\ store.img[h].host # None => held[store.img[h].host] = n
          \/ txn.kind = "capture" /\ txn.recycle /\ txn.dest = h
      BY <1>1, <2>3, IntactImage
    <2> QED BY <2>1, <2>2, <2>4
  <1> QED BY <1>4, Zenon DEF CheckpointsIntact

(* The invariant implies LanesReadTheirFrontier.                           *)
LEMMA LiveFrontier ==
    ASSUME Live
    PROVE  LanesReadTheirFrontier
  <1>1. PICK s, Q : Opened(s, Q)
    BY DEF Live
  <1>2. Consistent(s, Q, shared, held)
    BY <1>1 DEF Opened
  <1>3. ASSUME NEW c \in Conts, seq[c].role = "Active"
        PROVE  held[store.img[seq[c].read].dev] = seq[c].pos
    <2>1. Q[c].role = "Active" /\ seq[c].pos = Q[c].pos
      BY <1>1, <1>3, SeqOver
    <2>2. Writer(s, held, Q[c]) \/ Forker(s, held, Q[c])
      BY <1>2, <2>1, SeqCases
    <2>3. CASE seq[c].read = Q[c].read /\ Writer(s, held, Q[c])
      <3>1. PICK h \in Images : h = Q[c].read /\ s.img[h].role = "ActiveMutable" /\ held[s.img[h].dev] = Q[c].pos
        BY <2>3 DEF Writer
      <3>2. h # Taking(txn)
        BY <1>1, <3>1, TakenImage DEF Immutable
      <3>3. store.img[h].dev = s.img[h].dev
        BY <1>1, <3>2, OtherImage
      <3> QED BY <2>1, <2>3, <3>1, <3>3
    <2>4. CASE Forker(s, held, Q[c])
      <3>1. Q[c].fork
        BY <2>4 DEF Forker
      <3>2. store = s /\ seq = Q
        BY <1>1, <3>1 DEF Opened, NoForks
      <3> QED BY <2>1, <2>4, <3>2 DEF Forker
    <2>5. ASSUME Writer(s, held, Q[c]) PROVE seq[c].read = Q[c].read
      <3>1. CASE ~Captured(c)
        BY <3>1, <1>1, SeqOver
      <3>2. CASE Captured(c) /\ txn.phase # "copying"
        BY <3>2, <1>1 DEF Captured, Opened, CapturePhase
      <3>3. CASE Captured(c) /\ txn.phase = "copying"
        <4>1. CaptureCopying(s, Q, txn) /\ c = txn.lane
          BY <3>3, <1>1 DEF Captured, Opened, CapturePhase
        <4>2. seq[c] = Branched(Q[c], txn) /\ Q[c] \in SeqRecord
          BY <4>1, <1>2 DEF CaptureCopying, Consistent, Typed
        <4>3. Q[c].read = Q[c].write
          BY <2>5 DEF Writer
        <4>4. Branched(Q[c], txn).read = Q[c].read
          <5>1. CASE txn.place = "HostSnapshot"
            BY <5>1 DEF Branched
          <5>2. CASE txn.place # "HostSnapshot"
            BY <4>2, <4>3, <5>2 DEF Branched, SeqRecord
          <5> QED BY <5>1, <5>2
        <4> QED BY <4>2, <4>4
      <3> QED BY <3>1, <3>2, <3>3
    <2> QED BY <2>2, <2>3, <2>4, <2>5
  <1> QED BY <1>3 DEF LanesReadTheirFrontier, Active

(* The invariant implies StoreSound.                                       *)
LEMMA LiveSound ==
    ASSUME Live
    PROVE  StoreSound
  <1>1. PICK s, Q : Opened(s, Q)
    BY DEF Live
  <1>2. Sound(store)
    BY <1>1, Overlaid DEF Overlay
  <1>3. SlotsPartitioned
    BY <1>2 DEF Sound, Partitioned, SlotsPartitioned
  <1>4. ForkSourcesLive
    BY <1>2 DEF Sound, ForksLive, ForkSourcesLive
  <1>5. ImagesResident
    BY <1>2 DEF Sound, Shapes, Shape, ImagesResident
  <1> QED BY <1>3, <1>4, <1>5 DEF StoreSound

(* Holders counts what the invariant's reference counts add up.            *)
LEMMA HoldersAre ==
    ASSUME NEW s, NEW Q, Opened(s, Q), NEW h \in Images
    PROVE  /\ Holders(h) = NamedByRewrite(Q, h) + NamedByPrefix(shared, h)
           /\ Holders(h) = s.img[h].refs /\ Holders(h) \in Nat
  <1>n. None \notin Images
    BY StoreAssumption
  <1>1. Consistent(s, Q, shared, held)
    BY DEF Opened
  <1>2. Distinct(Q, shared) /\ ImageOK(s, Q, shared, h)
    BY <1>1 DEF Consistent
  <1>3. \A c \in Conts : seq[c].rw = Q[c].rw
    BY SeqOver
  <1>4. PICK A : A = {c \in Conts : seq[c].rw = h}
    OBVIOUS
  <1>5. PICK B : B = {x \in SharedSlots : shared[x].img = h}
    OBVIOUS
  <1>6. \A a, b \in A : a = b
    BY <1>n, <1>2, <1>3, <1>4 DEF Distinct
  <1>7. \A a, b \in B : a = b
    BY <1>n, <1>2, <1>5 DEF Distinct
  <1>8. Cardinality(A) = NamedByRewrite(Q, h)
    <2>1. (A = {} => Cardinality(A) = 0) /\ (A # {} => Cardinality(A) = 1)
      BY <1>6, AtMostOne
    <2>2. A # {} <=> \E c \in Conts : Q[c].rw = h
      BY <1>3, <1>4
    <2> QED BY <2>1, <2>2 DEF NamedByRewrite
  <1>9. Cardinality(B) = NamedByPrefix(shared, h)
    <2>1. (B = {} => Cardinality(B) = 0) /\ (B # {} => Cardinality(B) = 1)
      BY <1>7, AtMostOne
    <2>2. B # {} <=> \E x \in SharedSlots : shared[x].img = h
      BY <1>5
    <2> QED BY <2>1, <2>2 DEF NamedByPrefix
  <1>10. Holders(h) = Cardinality(A) + Cardinality(B)
    BY <1>4, <1>5 DEF Holders
  <1>11. NamedByRewrite(Q, h) + NamedByPrefix(shared, h) \in Nat
    BY DEF NamedByRewrite, NamedByPrefix
  <1> QED BY <1>2, <1>8, <1>9, <1>10, <1>11 DEF ImageOK

(* An image the catalogue owns is in use; an immutable one is an endpoint. *)
LEMMA OwnedInUse ==
    ASSUME NEW s, NEW Q, NEW SH, NEW g, Consistent(s, Q, SH, g), NEW c \in Conts, NEW h \in Images, h \in Owned(Q[c])
    PROVE  /\ s.img[h].role # "Free"
           /\ NoForks(Q) /\ Immutable(s.img[h]) => s.img[h].refs = 0
  <1>n. None \notin Images
    BY StoreAssumption
  <1>1. h \in {Q[c].read, Q[c].write}
    BY DEF Owned
  <1>2. Headless(Q[c]) \/ Endpoint(s, g, Q[c]) \/ Writer(s, g, Q[c]) \/ Forker(s, g, Q[c])
    BY SeqCases
  <1>3. CASE Headless(Q[c])
    BY <1>n, <1>1, <1>3 DEF Headless
  <1>4. CASE Endpoint(s, g, Q[c])
    BY <1>1, <1>4 DEF Endpoint, Immutable
  <1>5. CASE Writer(s, g, Q[c])
    BY <1>1, <1>5 DEF Writer, Immutable
  <1>6. CASE Forker(s, g, Q[c])
    <2>1. s.img[Q[c].write].role = "ActiveMutable" /\ s.img[Q[c].write].from = Q[c].read /\ Q[c].fork
          /\ Q[c].read \in Images /\ Q[c].write \in Images
      BY <1>6 DEF Forker
    <2>2. Immutable(s.img[Q[c].read])
      BY <1>n, <2>1 DEF Consistent, Sound, ForksLive
    <2> QED BY <1>1, <2>1, <2>2 DEF Immutable, NoForks
  <1> QED BY <1>2, <1>3, <1>4, <1>5, <1>6

\* the sequences that own h
Users(Q, h) == {c \in Conts : h \in Owned(Q[c])}

(* Who owns an image, in terms of the catalogue before the transaction.    *)
LEMMA UsersAre ==
    ASSUME NEW s, NEW Q, Opened(s, Q), NEW h \in Images
    PROVE  /\ \A c \in Conts : ~Captured(c) => (h \in Owned(seq[c]) <=> h \in Owned(Q[c]))
           /\ ~(txn.kind = "capture" /\ txn.phase = "copying") => seq = Q
           /\ txn.kind = "capture" /\ txn.phase = "copying" =>
                /\ h \in Owned(seq[txn.lane]) => h = txn.source \/ h = txn.dest
                /\ h \in Owned(Q[txn.lane]) => h = txn.source
                /\ txn.source \in Owned(Q[txn.lane]) /\ txn.lane \in Conts
  <1>1. \A c \in Conts : ~Captured(c) => seq[c] = Q[c]
    BY SeqOver
  <1>2. ~(txn.kind = "capture" /\ txn.phase = "copying") => seq = Q
    BY DEF Opened, CapturePhase
  <1>3. ASSUME txn.kind = "capture", txn.phase = "copying"
        PROVE  /\ h \in Owned(seq[txn.lane]) => h = txn.source \/ h = txn.dest
               /\ h \in Owned(Q[txn.lane]) => h = txn.source
               /\ txn.source \in Owned(Q[txn.lane]) /\ txn.lane \in Conts
    <2>1. Consistent(s, Q, shared, held) /\ NoForks(Q) /\ Offered(txn, Q) /\ CaptureCopying(s, Q, txn)
      BY <1>3 DEF Opened, CapturePhase
    <2>2. PICK c \in Conts : c = txn.lane
      BY <2>1 DEF Offered, CaptureRecord
    <2>3. Writer(s, held, Q[c])
      BY <1>3, <2>1, <2>2, CopyingOverlay
    <2>4. PICK q \in SeqRecord : q = Q[c]
      BY <2>1 DEF Consistent, Typed
    <2>5. q.read = q.write /\ q.own = "Primary" /\ txn.source = q.write
      BY <2>1, <2>2, <2>3, <2>4 DEF Writer, CaptureCopying
    <2>6. seq[c] = Branched(q, txn)
      BY <2>1, <2>2, <2>4 DEF CaptureCopying, Consistent, Typed
    <2>7. Owned(Branched(q, txn)) \subseteq {txn.source, txn.dest}
      <3>1. CASE txn.place = "HostSnapshot"
        BY <2>5, <3>1 DEF Branched, Owned
      <3>2. CASE txn.place # "HostSnapshot"
        <4>1. Branched(q, txn).read = q.write /\ Branched(q, txn).write = txn.dest
          BY <3>2 DEF Branched, SeqRecord
        <4> QED BY <4>1, <2>5 DEF Owned
      <3> QED BY <3>1, <3>2
    <2>8. Owned(q) = {txn.source}
      BY <2>5 DEF Owned, OwnsRead
    <2> QED BY <2>2, <2>4, <2>6, <2>7, <2>8
  <1> QED BY <1>1, <1>2, <1>3

(* References and users of an image in the current state.                  *)
LEMMA OwnedImage ==
    ASSUME NEW s, NEW Q, Opened(s, Q), NEW h \in Images
    PROVE  /\ store.img[h].refs = IF txn.kind = "capture" /\ txn.recycle /\ txn.dest = h THEN 0 ELSE Holders(h)
           /\ Cardinality(Users(seq, h)) <= 1
           /\ store.img[h].role # "Free" => Holders(h) > 0 \/ Users(seq, h) # {} \/ h \in TxnImages
           /\ store.img[h].role = "Free" => Holders(h) = 0 /\ Users(seq, h) = {}
  <1>n. None \notin Images
    BY StoreAssumption
  <1>1. Consistent(s, Q, shared, held) /\ Distinct(Q, shared) /\ ImageOK(s, Q, shared, h) /\ Shape(s.img[h])
    BY DEF Opened, Consistent, Sound, Shapes
  <1>2. Holders(h) = s.img[h].refs /\ Holders(h) \in Nat
    BY HoldersAre
  <1>f. s.img[h].role = "Free" => s.img[h].refs = 0
    BY <1>1 DEF Shape, NewObject
  <1>3. h # Taking(txn) => ~(txn.kind = "capture" /\ txn.dest = h)
    <2> SUFFICES ASSUME txn.kind = "capture", txn.dest = h PROVE h = Taking(txn)
      OBVIOUS
    <2>1. txn.phase = "copying"
      BY <1>n DEF Opened, CapturePhase, Offered
    <2> QED BY <2>1 DEF Taking
  <1>4. store.img[h].refs = IF txn.kind = "capture" /\ txn.recycle /\ txn.dest = h THEN 0 ELSE Holders(h)
    <2>1. CASE h = Taking(txn)
      BY <2>1, <1>2, <1>f, TakenImage
    <2>2. CASE h # Taking(txn)
      BY <2>2, <1>2, <1>3, OtherImage
    <2> QED BY <2>1, <2>2
  <1>5. \A a, b \in Users(seq, h) : a = b
    <2> SUFFICES ASSUME NEW a \in Conts, NEW b \in Conts, h \in Owned(seq[a]), h \in Owned(seq[b]), a # b
                 PROVE  FALSE
      BY DEF Users
    <2>1. CASE ~(txn.kind = "capture" /\ txn.phase = "copying")
      <3>1. seq = Q
        BY <2>1, UsersAre
      <3> QED BY <3>1, <1>1 DEF Distinct
    <2>2. CASE txn.kind = "capture" /\ txn.phase = "copying"
      <3>1. PICK l \in Conts : l = txn.lane
        BY <2>2, UsersAre
      <3>2. ASSUME NEW e \in Conts, e # l, h \in Owned(seq[e]), h \in Owned(seq[l]) PROVE FALSE
        <4>1. h \in Owned(Q[e])
          BY <3>1, <3>2, UsersAre DEF Captured
        <4>2. CASE h = txn.source
          <5>1. h \in Owned(Q[l])
            BY <2>2, <3>1, <4>2, UsersAre
          <5> QED BY <1>1, <3>2, <4>1, <5>1 DEF Distinct
        <4>3. CASE h = txn.dest
          <5>1. h = Taking(txn)
            BY <2>2, <4>3 DEF Taking
          <5>2. CASE ~txn.recycle
            <6>1. s.img[h].role = "Free"
              BY <5>1, <5>2, TakenImage
            <6> QED BY <6>1, <4>1, <1>1, OwnedInUse
          <5>3. CASE txn.recycle
            <6>1. s.img[h].refs = 1 /\ Immutable(s.img[h])
              BY <2>2, <5>1, <5>3, TakenImage
            <6>2. NoForks(Q)
              BY <2>2 DEF Opened
            <6> QED BY <6>1, <6>2, <4>1, <1>1, OwnedInUse
          <5> QED BY <5>2, <5>3
        <4> QED BY <2>2, <3>1, <3>2, <4>2, <4>3, UsersAre
      <3>3. CASE a = l
        BY <3>2, <3>3
      <3>4. CASE b = l
        BY <3>2, <3>4
      <3>5. CASE a # l /\ b # l
        <4>1. h \in Owned(Q[a]) /\ h \in Owned(Q[b])
          BY <3>1, <3>5, UsersAre DEF Captured
        <4> QED BY <4>1, <1>1 DEF Distinct
      <3> QED BY <3>3, <3>4, <3>5
    <2> QED BY <2>1, <2>2
  <1>6. Cardinality(Users(seq, h)) <= 1
    <2>1. PICK S : S = Users(seq, h)
      OBVIOUS
    <2> QED BY <1>5, <2>1, AtMostOne
  <1>7. ASSUME store.img[h].role # "Free"
        PROVE  Holders(h) > 0 \/ Users(seq, h) # {} \/ h \in TxnImages
    <2>1. CASE h = Taking(txn)
      BY <2>1, TakenImage
    <2>2. CASE h # Taking(txn) /\ h = Frozens(txn)
      BY <2>2, OtherImage
    <2>3. CASE h # Taking(txn) /\ h # Frozens(txn)
      <3>1. s.img[h].role # "Free"
        BY <1>7, <2>3, OtherImage
      <3>2. s.img[h].refs # 0 \/ \E c \in Conts : h \in Owned(Q[c])
        BY <1>1, <3>1 DEF ImageOK
      <3>3. s.img[h].refs # 0 => Holders(h) > 0
        BY <1>2
      <3>4. ASSUME NEW c \in Conts, h \in Owned(Q[c]) PROVE Users(seq, h) # {}
        <4>1. h \in Owned(seq[c])
          <5>1. CASE ~(txn.kind = "capture" /\ txn.phase = "copying")
            BY <3>4, <5>1, UsersAre
          <5>2. CASE txn.kind = "capture" /\ txn.phase = "copying" /\ c # txn.lane
            BY <3>4, <5>2, UsersAre DEF Captured
          <5>3. CASE txn.kind = "capture" /\ txn.phase = "copying" /\ c = txn.lane
            BY <2>3, <3>4, <5>3, UsersAre DEF Frozens
          <5> QED BY <5>1, <5>2, <5>3
        <4> QED BY <4>1 DEF Users
      <3> QED BY <3>2, <3>3, <3>4
    <2> QED BY <2>1, <2>2, <2>3
  <1>8. ASSUME store.img[h].role = "Free"
        PROVE  Holders(h) = 0 /\ Users(seq, h) = {}
    <2>1. h # Taking(txn)
      BY <1>8, TakenImage
    <2>2. h # Frozens(txn) /\ s.img[h].role = "Free"
      BY <1>8, <2>1, OtherImage DEF Immutable
    <2>3. \A c \in Conts : h \notin Owned(Q[c])
      BY <1>1, <2>2, OwnedInUse
    <2>4. ASSUME NEW c \in Conts, h \in Owned(seq[c]) PROVE FALSE
      <3>1. CASE ~(txn.kind = "capture" /\ txn.phase = "copying")
        BY <2>3, <2>4, <3>1, UsersAre
      <3>2. CASE txn.kind = "capture" /\ txn.phase = "copying" /\ c # txn.lane
        BY <2>3, <2>4, <3>2, UsersAre DEF Captured
      <3>3. CASE txn.kind = "capture" /\ txn.phase = "copying" /\ c = txn.lane
        BY <2>1, <2>2, <2>4, <3>3, UsersAre DEF Frozens, Taking
      <3> QED BY <3>1, <3>2, <3>3
    <2> QED BY <1>2, <1>f, <2>2, <2>4 DEF Users
  <1> QED BY <1>4, <1>6, <1>7, <1>8

(* The invariant implies ImagesOwned.                                      *)
LEMMA LiveOwned ==
    ASSUME Live
    PROVE  ImagesOwned
  <1>1. PICK s, Q : Opened(s, Q)
    BY DEF Live
  <1>2. ASSUME NEW h \in Images
        PROVE  /\ store.img[h].refs = IF txn.kind = "capture" /\ txn.recycle /\ txn.dest = h THEN 0 ELSE Holders(h)
               /\ Cardinality({c \in Conts : h \in Owned(seq[c])}) <= 1
               /\ store.img[h].role # "Free" => Holders(h) > 0 \/ {c \in Conts : h \in Owned(seq[c])} # {} \/ h \in TxnImages
               /\ store.img[h].role = "Free" => Holders(h) = 0 /\ {c \in Conts : h \in Owned(seq[c])} = {}
    BY <1>1, OwnedImage DEF Users
  <1>3. ASSUME NEW x \in SharedSlots
        PROVE  shared[x].active = Cardinality({c \in Active : x \in seq[c].refs})
    <2>1. {c \in Active : x \in seq[c].refs} = {c \in Conts : seq[c].role = "Active" /\ x \in seq[c].refs}
      BY DEF Active
    <2> QED BY <2>1 DEF Live, Borrows
  <1> QED BY <1>2, <1>3, Zenon DEF ImagesOwned

(* Every checkpoint the catalogue names holds, in each of its replicas,    *)
(* the state at the frontier it is listed under: no execution, copy,       *)
(* recycling or abort ever corrupts one.                                   *)
THEOREM CheckpointsStayIntact == Spec => []CheckpointsIntact
  <1>1. CInv => CheckpointsIntact
    BY CInvLive, LiveIntact
  <1> QED BY <1>1, ContextInvariant, PTL

(* Every active lane reads the state at its own frontier: what it          *)
(* continues from is exactly what was computed for the tokens before it.   *)
THEOREM LanesReadOwnFrontier == Spec => []LanesReadTheirFrontier
  <1>1. CInv => LanesReadTheirFrontier
    BY CInvLive, LiveFrontier
  <1> QED BY <1>1, ContextInvariant, PTL

(* Every image in use is referenced as often as the catalogue names it,    *)
(* has at most one user, and none is lost.                                 *)
THEOREM ImagesAreOwned == Spec => []ImagesOwned
  <1>1. CInv => ImagesOwned
    BY CInvLive, LiveOwned
  <1> QED BY <1>1, ContextInvariant, PTL

(* The transactions keep StateImageStore sound: no slot leaks, no image is *)
(* stranded, no fork loses its source.                                     *)
THEOREM TransactionsKeepStoreSound == Spec => []StoreSound
  <1>1. CInv => StoreSound
    BY CInvLive, LiveSound
  <1> QED BY <1>1, ContextInvariant, PTL

(* The checkpoint the start selected is intact after the step.             *)
KeptSource ==
    LET o == store'.img[Selected(txn)]
    IN  /\ Immutable(o) /\ Quiet(o)
        /\ o.dev # None => held[o.dev] = txn.base
        /\ o.host # None => held[o.host] = txn.base

(* An aborted materialization leaves its source as it found it.            *)
LEMMA AbortKeeps ==
    ASSUME Live, AbortStart, txn.path # "root"
    PROVE  KeptSource
  <1>1. PICK s : store' = s /\ Opened(s, seq)
    BY AbortStartKeeps
  <1>2. txn.kind = "start"
    BY DEF AbortStart
  <1>3. Consistent(s, seq, shared, held) /\ NoForks(seq) /\ Planned(txn)
    BY <1>1, <1>2 DEF Opened, StartPhase
  <1>4. PICK h \in Images : h = Selected(txn) /\ Immutable(s.img[h]) /\ Holds(s, held, h, txn.base)
    BY <1>3, SelectedOK
  <1>5. Quiet(s.img[h])
    BY <1>3, AllQuiet
  <1> QED BY <1>1, <1>4, <1>5 DEF KeptSource, Holds

(* Only an abort closes a materialization without a lane to show for it.   *)
LEMMA ClosesByAbort ==
    ASSUME Live, fault = "none", Step, txn.kind = "start", txn' = NoTxn, fault' = "none",
           seq'[txn.dest].role # "Active"
    PROVE  AbortStart
  <1>1. PICK s : Opened(s, seq) /\ txn \in StartRecord
    BY DEF Live, Opened, StartPhase, Planned
  <1>2. NoTxn.kind = "none" /\ txn # NoTxn
    BY DEF NoTxn
  <1>3. \A p : [txn EXCEPT !.phase = p].kind = "start"
    BY <1>1 DEF StartRecord
  <1>4. ASSUME NEW c \in Conts,
               Execute(c) \/ ExactHit(c) \/ Finish(c) \/ Discard(c) \/ Cancel(c) \/ ReserveCapture(c)
        PROVE  FALSE
    BY <1>2, <1>4 DEF Execute, ExactHit, Finish, Discard, Cancel, ReserveCapture, Idle
  <1>5. ASSUME ReserveStart \/ PrepareCapture \/ PublishCapture \/ AbortCapture PROVE FALSE
    BY <1>5 DEF ReserveStart, PrepareCapture, PublishCapture, AbortCapture, Idle
  <1>6. ASSUME Press \/ PublishPressure \/ PrepareSource PROVE FALSE
    BY <1>2, <1>3, <1>6, Zenon DEF Press, PublishPressure, PrepareSource
  <1>7. ASSUME PrepareStart \/ PublishRestore PROVE FALSE
    BY <1>7, PrepareStartKeeps, PublishRestoreKeeps
  <1> QED BY <1>4, <1>5, <1>6, <1>7 DEF Step

(* Aborting a start, in any phase, leaves the checkpoint it had selected   *)
(* immutable, idle and with the contents it was planned on.                *)
THEOREM AbortsKeepTheirSource == Spec => AbortKeepsSource
  <1>1. ASSUME CInv, [Next]_vars, txn.kind = "start", txn' = NoTxn, fault' = "none", txn.path # "root",
               seq'[txn.dest].role # "Active"
        PROVE  KeptSource
    <2>1. Live /\ txn # NoTxn
      BY <1>1, CInvLive DEF NoTxn
    <2>2. fault = "none" /\ Step
      BY <1>1, <2>1 DEF Next, Stop, CopyLands, vars
    <2>3. AbortStart
      BY <1>1, <2>1, <2>2, ClosesByAbort
    <2> QED BY <1>1, <2>1, <2>3, AbortKeeps
  <1>2. CInv /\ [Next]_vars =>
          [(txn.kind = "start" /\ txn' = NoTxn /\ fault' = "none" /\ txn.path # "root"
              /\ seq'[txn.dest].role # "Active") => KeptSource]_vars
    BY <1>1
  <1> QED BY <1>2, ContextInvariant, PTL DEF Spec, AbortKeepsSource, KeptSource
===============================================================================
