-------------------------- MODULE ContextStoreProofs --------------------------
(***************************************************************************)
(* The proofs about ContextState, first part: the sequences of store calls *)
(* the handlers make, the invariant, and the handlers that execute,        *)
(* finish, reserve, capture and abort.                                     *)
(*                                                                         *)
(* A handler calls several methods of StateImageStore in one step and      *)
(* edits the catalogue of sequences and shared prefixes along with them.   *)
(* Consistent is not an invariant of the state: an open transaction has    *)
(* frozen, pinned, forked and reserved images the catalogue does not know  *)
(* of.  The inductive invariant CInv therefore says that the state is an   *)
(* overlay: there are a store s and a catalogue Q, consistent with each    *)
(* other, such that the open transaction, by its kind and phase, made the  *)
(* current store and catalogue out of them (Opened).  Those are the ones   *)
(* an abort would restore, so that aborting is proved by computing that    *)
(* the undo calls give exactly s back.  Each phase also carries its        *)
(* promise: that the resources the later phases need are in the store once *)
(* the pressure it waits for is applied.                                   *)
(***************************************************************************)
EXTENDS StateStoreProofs

\* o is p, frozen
Frozen(o, p) ==
    /\ p.role = "CheckpointImmutable" /\ p.dev = o.dev /\ p.host = o.host /\ p.pdev = o.pdev
    /\ p.phost = o.phost /\ p.refs = o.refs /\ p.pins = o.pins /\ p.from = o.from

(* The image a lane writes in place.                                       *)
LEMMA WriterFacts ==
    ASSUME NEW s, NEW Q, NEW SH, NEW g, Consistent(s, Q, SH, g), NoForks(Q), NEW c \in Conts,
           Writer(s, g, Q[c])
    PROVE  LET o == s.img[Q[c].write]
           IN  /\ Q[c].write \in Images /\ o \in Image /\ o.role = "ActiveMutable"
               /\ o.dev # None /\ o.host = None /\ o.pdev = None /\ o.phost = None
               /\ o.refs = 0 /\ o.pins = 0 /\ ~o.pinned /\ o.from = None /\ Quiet(o)
               /\ CanFreeze(s, Q[c].write) /\ Q[c].rw # Q[c].write
               /\ \A x \in SharedSlots : SH[x].img # Q[c].write
  <1> DEFINE w == Q[c].write
  <1>1. w \in Images /\ s.img[w].role = "ActiveMutable" /\ w = Q[c].read
    BY DEF Writer
  <1>2. Quiet(s.img[w]) /\ s.img[w].from = None /\ s.img[w].pins = 0
    BY <1>1, AllQuiet
  <1>3. s.img[w].refs = 0 /\ Q[c].rw # w /\ \A x \in SharedSlots : SH[x].img # w
    BY <1>1, OwnedAlone
  <1>4. s.img[w] \in Image /\ Shape(s.img[w]) /\ ImageOK(s, Q, SH, w)
    BY <1>1 DEF Consistent, Sound, Store, Shapes
  <1>5. s.img[w].host = None
    BY <1>1, <1>4 DEF ImageOK, Immutable
  <1>6. s.img[w].pdev = None /\ s.img[w].phost = None /\ ~s.img[w].pinned
    BY <1>2 DEF Quiet, HasPending
  <1>7. s.img[w].dev # None
    BY <1>1, <1>4, <1>6 DEF Shape
  <1>8. CanFreeze(s, w)
    BY <1>1, <1>2, <1>7 DEF CanFreeze
  <1> QED BY <1>1, <1>2, <1>3, <1>4, <1>5, <1>6, <1>7, <1>8

(* Freezing, and thawing again, an image that nothing pins.                *)
LEMMA FreezeBegins ==
    ASSUME NEW s, Sound(s), NEW w \in Images, CanFreeze(s, w)
    PROVE  /\ Sound(Freeze(s, w)) /\ SameImages(s, Freeze(s, w), {w})
           /\ Frozen(s.img[w], Freeze(s, w).img[w])
           /\ ~Freeze(s, w).img[w].pinned
           /\ Freeze(s, w).freeDev = s.freeDev /\ Freeze(s, w).freeHost = s.freeHost
  <1> DEFINE r == Freeze(s, w)
  <1>1. Sound(r) /\ s \in Store
    BY FreezeKeeps DEF Sound
  <1>2. DidFreeze(s, r, w)
    BY <1>1, FreezeDid
  <1>3. ~s.img[w].pinned
    BY DEF CanFreeze, Quiet
  <1> HIDE DEF r
  <1>4. ~r.img[w].pinned
    BY <1>2, <1>3, Zenon DEF DidFreeze
  <1>5. SameImages(s, r, {w}) /\ Frozen(s.img[w], r.img[w]) /\ r.freeDev = s.freeDev /\ r.freeHost = s.freeHost
    BY <1>2 DEF DidFreeze, Frozen
  <1> QED BY <1>1, <1>4, <1>5 DEF r

(* Thawing what only a freeze has changed restores the store exactly.      *)
LEMMA ThawEnds ==
    ASSUME NEW s, NEW z, Sound(s), Sound(z), NEW w \in Images, SameImages(s, z, {w}),
           Frozen(s.img[w], z.img[w]), ~z.img[w].pinned,
           s.img[w].role = "ActiveMutable", s.img[w].dev # None, s.img[w].refs = 0,
           Quiet(s.img[w])
    PROVE  Thaw(z, w) = s
  <1> DEFINE r == Thaw(z, w)
  <1>1. z \in Store /\ s.img[w] \in Image
    BY DEF Sound, Store
  <1>2. CanThaw(z, w)
    BY DEF CanThaw, Frozen, Quiet, HasPending, Immutable
  <1>3. Sound(r)
    BY <1>2, ThawKeeps
  <1>4. DidThaw(z, r, w)
    BY <1>1, ThawDid
  <1> HIDE DEF r
  <1>5. r.img[w] \in Image /\ z.img[w] \in Image
    BY <1>3 DEF Sound, Store
  <1>6. r.img[w].pinned = s.img[w].pinned
    <2>1. s.img[w].pinned = FALSE /\ z.img[w].pinned = FALSE
      BY <1>1, <1>5 DEF Image, Quiet
    <2>2. r.img[w].pinned = z.img[w].pinned
      BY <1>4, Zenon DEF DidThaw
    <2> QED BY <2>1, <2>2
  <1>7. /\ r.img[w].role = s.img[w].role /\ r.img[w].dev = s.img[w].dev /\ r.img[w].host = s.img[w].host
        /\ r.img[w].pdev = s.img[w].pdev /\ r.img[w].phost = s.img[w].phost
        /\ r.img[w].refs = s.img[w].refs /\ r.img[w].pins = s.img[w].pins /\ r.img[w].from = s.img[w].from
    BY <1>4 DEF DidThaw, Frozen
  <1>8. r.img[w] = s.img[w]
    BY <1>1, <1>5, <1>6, <1>7, ImageEq
  <1>9. SameImages(s, r, {})
    BY <1>4, <1>8 DEF SameImages, DidThaw
  <1> QED BY <1>3, <1>9, SameStore DEF r

(* A capture whose copy goes to the Host.                                  *)
Snapshot(s, m, w, k, t) ==
    /\ Sound(m) /\ SameImages(s, m, {w, k})
    /\ m.img[w].role = "CheckpointImmutable" /\ m.img[w].dev = s.img[w].dev
    /\ m.img[w].host = None /\ m.img[w].pdev = None /\ m.img[w].phost = t
    /\ m.img[w].refs = 0 /\ m.img[w].pins = 1 /\ m.img[w].from = None
    /\ m.img[k].role = "ReservedDestination" /\ m.img[k].dev = None /\ m.img[k].host = None
    /\ m.img[k].pdev = None /\ m.img[k].phost = None /\ m.img[k].refs = 0 /\ m.img[k].pins = 0
    /\ m.img[k].from = None /\ ~m.img[k].pinned
    /\ m.freeDev = s.freeDev /\ m.freeHost = s.freeHost \ {t}

(* The store of a Host-snapshot capture while its copy is in flight.       *)
SnapshotStore(s, w, k, t) ==
    BeginDeviceToHost(Freeze(ReserveLogicalDestination(s, k), w), w, t)

(* Preparing a Host snapshot freezes the lane's image, copies it and       *)
(* reserves its successor, and the freeze cannot throw.                    *)
LEMMA SnapshotBegins ==
    ASSUME NEW s, Sound(s), NEW w \in Images, NEW k \in Images, NEW t \in s.freeHost,
           s.img[k].role = "Free", CanFreeze(s, w), s.img[w].refs = 0, s.img[w].host = None,
           s.img[w].from = None
    PROVE  Snapshot(s, SnapshotStore(s, w, k, t), w, k, t)
           /\ CanFreeze(ReserveLogicalDestination(s, k), w)
  <1> DEFINE a == ReserveLogicalDestination(s, k)
             b == Freeze(a, w)
             m == BeginDeviceToHost(b, w, t)
  <1>1. w # k /\ t \in HostSlots /\ Quiet(s.img[w])
    BY DEF CanFreeze, Sound, Store
  <1>2. Bare(s, a, k)
    BY BareReserved
  <1> HIDE DEF a
  <1>3. Sound(a) /\ a.img[w] = s.img[w]
    BY <1>1, <1>2 DEF Bare, SameImages
  <1>4. CanFreeze(a, w)
    BY <1>3 DEF CanFreeze
  <1>5. /\ Sound(b) /\ SameImages(a, b, {w}) /\ Frozen(a.img[w], b.img[w])
        /\ b.freeDev = a.freeDev /\ b.freeHost = a.freeHost
    BY <1>3, <1>4, FreezeBegins
  <1> HIDE DEF b
  <1>6. b \in Store /\ b.img[k] = a.img[k] /\ t \in b.freeHost
    BY <1>1, <1>2, <1>5 DEF Sound, SameImages, Bare
  <1>6a. /\ b.img[w].role = "CheckpointImmutable" /\ b.img[w].dev = s.img[w].dev /\ b.img[w].host = None
         /\ b.img[w].pdev = None /\ b.img[w].phost = None /\ b.img[w].refs = 0 /\ b.img[w].pins = 0
         /\ b.img[w].from = None /\ s.img[w].dev # None
    BY <1>1, <1>3, <1>5 DEF Frozen, Quiet, HasPending, CanFreeze
  <1>7. CanBeginDeviceToHost(b, w, t)
    BY <1>6, <1>6a DEF CanBeginDeviceToHost, HasPending, Immutable
  <1>8. Sound(m)
    BY <1>1, <1>5, <1>7, BeginDeviceToHostKeeps
  <1>9. DidToHost(b, m, w, t)
    BY <1>1, <1>6, ToHostDid
  <1> HIDE DEF m
  <1>10. SameImages(s, m, {w, k}) /\ m.img[k] = a.img[k]
    BY <1>1, <1>2, <1>5, <1>6, <1>9 DEF SameImages, Bare, DidToHost
  <1>11. m.freeDev = s.freeDev /\ m.freeHost = s.freeHost \ {t}
    BY <1>2, <1>5, <1>9 DEF Bare, DidToHost
  <1>12. /\ m.img[w].role = "CheckpointImmutable" /\ m.img[w].dev = s.img[w].dev
         /\ m.img[w].host = None /\ m.img[w].pdev = None /\ m.img[w].phost = t
         /\ m.img[w].refs = 0 /\ m.img[w].pins = 1 /\ m.img[w].from = None
    BY <1>6a, <1>9 DEF DidToHost
  <1>13. Snapshot(s, m, w, k, t)
    BY <1>2, <1>8, <1>10, <1>11, <1>12 DEF Snapshot, Bare
  <1> QED BY <1>4, <1>13 DEF m, b, a, SnapshotStore

(* Aborting a Host snapshot restores the store exactly.                    *)
LEMMA SnapshotAborts ==
    ASSUME NEW s, NEW m, Sound(s), NEW w \in Images, NEW k \in Images, NEW t \in HostSlots,
           Snapshot(s, m, w, k, t), s.img[k].role = "Free", CanFreeze(s, w),
           s.img[w].refs = 0, s.img[w].host = None, s.img[w].from = None
    PROVE  Thaw(TryRelease(AbortDeviceToHost(m, w), k), w) = s
  <1> DEFINE a == AbortDeviceToHost(m, w)
             b == TryRelease(a, k)
  <1>1. w # k /\ Quiet(s.img[w]) /\ t # None /\ Sound(m) /\ m \in Store
    BY StoreAssumption DEF CanFreeze, Sound, Snapshot
  <1>2. TransferToHost(m, w)
    BY <1>1 DEF Snapshot, TransferToHost
  <1>3. Sound(a)
    BY <1>1, <1>2, AbortDeviceToHostKeeps
  <1>4. DidUnToHost(m, a, w)
    BY <1>1, UnToHostDid
  <1> HIDE DEF a
  <1>5. a.img[k] = m.img[k] /\ SameImages(s, a, {w, k})
    BY <1>1, <1>4 DEF DidUnToHost, SameImages, Snapshot
  <1>6. ~a.img[w].pinned
    BY <1>4, Zenon DEF DidUnToHost
  <1>7. Frozen(s.img[w], a.img[w])
    <2>1. /\ a.img[w].role = "CheckpointImmutable" /\ a.img[w].dev = s.img[w].dev
          /\ a.img[w].host = None /\ a.img[w].pdev = None /\ a.img[w].phost = None
          /\ a.img[w].refs = 0 /\ a.img[w].pins = 0 /\ a.img[w].from = None
      BY <1>4 DEF DidUnToHost, Snapshot
    <2> QED BY <1>1, <2>1 DEF Frozen, Quiet, HasPending
  <1>8. CanRelease(a, k)
    BY <1>5 DEF CanRelease, Quiet, HasPending, Snapshot
  <1>9. Sound(b) /\ SameImages(a, b, {k}) /\ b.img[k] = NewObject("Free")
    BY <1>3, <1>8, TryReleaseSpec
  <1> HIDE DEF b
  <1>10. s.img[k] = NewObject("Free")
    BY DEF Sound, Shapes, Shape
  <1>11. SameImages(s, b, {w}) /\ b.img[w] = a.img[w]
    BY <1>1, <1>5, <1>9, <1>10 DEF SameImages
  <1>12. Thaw(b, w) = s
    BY <1>1, <1>6, <1>7, <1>9, <1>11, ThawEnds DEF CanFreeze
  <1> QED BY <1>12 DEF b, a

\* the snapshot has been published and its Device replica given to k
Divided(s, z, w, k, t) ==
    /\ Sound(z) /\ SameImages(s, z, {w, k})
    /\ Immutable(z.img[w]) /\ z.img[w].dev = None /\ z.img[w].host = t
    /\ z.img[w].refs = 0 /\ z.img[w].pins = 0 /\ z.img[w].from = None
    /\ z.img[w].pdev = None /\ z.img[w].phost = None /\ ~z.img[w].pinned
    /\ z.img[k].role = "ActiveMutable" /\ z.img[k].dev = s.img[w].dev /\ z.img[k].host = None
    /\ z.img[k].refs = 0 /\ z.img[k].pins = 0 /\ z.img[k].from = None
    /\ z.img[k].pdev = None /\ z.img[k].phost = None /\ ~z.img[k].pinned
    /\ z.freeHost = s.freeHost \ {t}

(* After the copy, splitting the identity leaves the checkpoint on the     *)
(* Host and hands the Device slot to the successor.                        *)
LEMMA SnapshotSplits ==
    ASSUME NEW s, NEW m, NEW w \in Images, NEW k \in Images, NEW t \in HostSlots,
           Snapshot(s, m, w, k, t), w # k, s.img[w].dev # None,
           NEW z, z = SplitIdentity(PublishDeviceToHost(m, w, TRUE), w, k)
    PROVE  Divided(s, z, w, k, t)
  <1> DEFINE a == PublishDeviceToHost(m, w, TRUE)
  <1>1. t # None /\ Sound(m) /\ m \in Store /\ TransferToHost(m, w)
    BY StoreAssumption DEF Sound, Snapshot, TransferToHost
  <1>3. Sound(a) /\ a \in Store
    BY <1>1, PublishToHostKeepingKeeps DEF Sound
  <1>4. DidCopied(m, a, w)
    BY <1>1, CopiedDid, Zenon
  <1>4a. z = SplitIdentity(a, w, k)
    OBVIOUS
  <1> HIDE DEF a
  <1>5. a.img[k] = m.img[k] /\ SameImages(s, a, {w, k}) /\ a.freeHost = m.freeHost
    BY <1>4 DEF DidCopied, SameImages, Snapshot
  <1>6. ~a.img[w].pinned
    BY <1>4, Zenon DEF DidCopied
  <1>7. /\ a.img[w].role = "CheckpointImmutable" /\ a.img[w].dev = s.img[w].dev
        /\ a.img[w].host = t /\ a.img[w].pdev = None /\ a.img[w].phost = None
        /\ a.img[w].refs = 0 /\ a.img[w].pins = 0 /\ a.img[w].from = None
    BY <1>4 DEF DidCopied, Snapshot
  <1>8. CanSplitIdentity(a, w, k)
    BY <1>1, <1>5, <1>6, <1>7 DEF CanSplitIdentity, CanDropReplica, BareDestination, Quiet, HasPending, Immutable, Snapshot
  <1>9. Sound(z)
    BY <1>3, <1>4a, <1>8, SplitKeeps
  <1>10. DidSplit(a, z, w, k)
    BY <1>3, <1>4a, SplitDid
  <1>11. SameImages(s, z, {w, k})
    BY <1>5, <1>10, Zenon DEF SameImages, DidSplit
  <1>12. ~z.img[w].pinned /\ ~z.img[k].pinned
    <2>1. z.img[w].pinned = a.img[w].pinned /\ z.img[k].pinned = a.img[k].pinned
      BY <1>10, Zenon DEF DidSplit
    <2>2. ~a.img[k].pinned
      BY <1>5 DEF Snapshot
    <2> QED BY <1>6, <2>1, <2>2, Zenon
  <1>13. /\ Immutable(z.img[w]) /\ z.img[w].dev = None /\ z.img[w].host = t
         /\ z.img[w].refs = 0 /\ z.img[w].pins = 0 /\ z.img[w].from = None
         /\ z.img[w].pdev = None /\ z.img[w].phost = None
         /\ z.freeHost = s.freeHost \ {t}
    BY <1>5, <1>7, <1>10, ZenonT(40) DEF DidSplit, Snapshot, Immutable
  <1>14. /\ z.img[k].role = "ActiveMutable" /\ z.img[k].dev = s.img[w].dev /\ z.img[k].host = None
         /\ z.img[k].refs = 0 /\ z.img[k].pins = 0 /\ z.img[k].from = None
         /\ z.img[k].pdev = None /\ z.img[k].phost = None
    <2>1. /\ z.img[k].role = "ActiveMutable" /\ z.img[k].dev = a.img[w].dev /\ z.img[k].host = a.img[k].host
          /\ z.img[k].refs = a.img[k].refs /\ z.img[k].pins = a.img[k].pins /\ z.img[k].from = a.img[k].from
          /\ z.img[k].pdev = a.img[k].pdev /\ z.img[k].phost = a.img[k].phost
      BY <1>10 DEF DidSplit
    <2> QED BY <1>5, <1>7, <2>1, ZenonT(40) DEF Snapshot
  <1> QED BY <1>9, <1>11, <1>12, <1>13, <1>14 DEF Divided

\* an image that was reserved with its Device slot
Ready(s, b, k) ==
    /\ Sound(b) /\ SameImages(s, b, {k})
    /\ b.img[k].role = "ReservedDestination" /\ b.img[k].dev # None /\ b.img[k].host = None
    /\ b.img[k].pdev = None /\ b.img[k].phost = None /\ b.img[k].refs = 0 /\ b.img[k].pins = 0
    /\ b.img[k].from = None /\ ~b.img[k].pinned
    /\ b.freeDev \subseteq s.freeDev /\ b.freeHost = s.freeHost

(* A reserved destination is ready to be forked into.                      *)
LEMMA ReadyReserved ==
    ASSUME NEW s, Sound(s), NEW k \in Images, NEW d \in s.freeDev, s.img[k].role = "Free"
    PROVE  /\ Ready(s, ReserveDestination(s, k, d), k)
           /\ ReserveDestination(s, k, d).img[k].dev = d
  <1> DEFINE b == ReserveDestination(s, k, d)
  <1>1. s \in Store /\ d \in DevSlots /\ d # None
    BY StoreAssumption DEF Sound, Store
  <1>2. Sound(b)
    BY <1>1, ReserveDestinationKeeps DEF CanReserveDestination
  <1>3. DidReserve(s, b, k, d)
    BY <1>1, ReserveDid
  <1> HIDE DEF b
  <1>4. Ready(s, b, k) /\ b.img[k].dev = d
    BY <1>1, <1>2, <1>3 DEF Ready, DidReserve
  <1> QED BY <1>4 DEF b

(* A recycled rewrite checkpoint is ready to be forked into.               *)
LEMMA ReadyRecycled ==
    ASSUME NEW s, Sound(s), NEW k \in Images, CanRecycle(s, k), s.img[k].from = None
    PROVE  /\ Ready(s, Recycle(s, k), k)
           /\ Recycle(s, k).img[k].dev = s.img[k].dev
  <1> DEFINE b == Recycle(s, k)
  <1>1. s \in Store
    BY DEF Sound
  <1>2. Sound(b)
    BY <1>1, RecycleKeeps
  <1>3. DidRecycle(s, b, k)
    BY <1>1, RecycleDid
  <1> HIDE DEF b
  <1>4. ~b.img[k].pinned
    <2>1. b.img[k].pinned = s.img[k].pinned
      BY <1>3, Zenon DEF DidRecycle
    <2>2. ~s.img[k].pinned
      BY DEF CanRecycle, Quiet
    <2> QED BY <2>1, <2>2, Zenon
  <1>5. /\ SameImages(s, b, {k}) /\ b.img[k].role = "ReservedDestination" /\ b.img[k].refs = 0
        /\ b.img[k].dev = s.img[k].dev /\ b.img[k].host = s.img[k].host /\ b.img[k].pins = s.img[k].pins
        /\ b.img[k].pdev = s.img[k].pdev /\ b.img[k].phost = s.img[k].phost
        /\ b.img[k].from = s.img[k].from /\ b.freeDev = s.freeDev /\ b.freeHost = s.freeHost
    BY <1>3 DEF DidRecycle
  <1>6. Ready(s, b, k) /\ b.img[k].dev = s.img[k].dev
    BY <1>2, <1>4, <1>5 DEF Ready, CanRecycle, Quiet, HasPending
  <1> QED BY <1>6 DEF b

(* A capture whose lane goes on in another Device slot.                    *)
Branch(b, m, w, k) ==
    /\ Sound(m) /\ SameImages(b, m, {w, k})
    /\ m.img[w].role = "CheckpointImmutable" /\ m.img[w].dev = b.img[w].dev
    /\ m.img[w].host = None /\ m.img[w].pdev = None /\ m.img[w].phost = None
    /\ m.img[w].refs = 0 /\ m.img[w].pins = 1 /\ m.img[w].from = None /\ ~m.img[w].pinned
    /\ m.img[k].role = "ActiveMutable" /\ m.img[k].dev = b.img[k].dev /\ m.img[k].host = None
    /\ m.img[k].pdev = None /\ m.img[k].phost = None /\ m.img[k].refs = 0 /\ m.img[k].pins = 0
    /\ m.img[k].from = w
    /\ m.freeDev = b.freeDev /\ m.freeHost = b.freeHost

(* Freezing the lane's image and forking it into a ready destination       *)
(* cannot throw and changes those two images only.                         *)
LEMMA BranchBegins ==
    ASSUME NEW s, NEW b, NEW w \in Images, NEW k \in Images, w # k, Ready(s, b, k),
           CanFreeze(s, w), s.img[w].refs = 0, s.img[w].host = None, s.img[w].from = None
    PROVE  Branch(b, BeginFork(Freeze(b, w), w, k), w, k) /\ CanFreeze(b, w)
  <1> DEFINE f == Freeze(b, w)
             m == BeginFork(f, w, k)
  <1>1. Sound(b) /\ b.img[w] = s.img[w] /\ Quiet(s.img[w]) /\ s.img[w].dev # None
    BY DEF Ready, SameImages, CanFreeze
  <1>2. CanFreeze(b, w)
    BY <1>1 DEF CanFreeze
  <1>3. /\ Sound(f) /\ SameImages(b, f, {w}) /\ Frozen(b.img[w], f.img[w]) /\ ~f.img[w].pinned
        /\ f.freeDev = b.freeDev /\ f.freeHost = b.freeHost
    BY <1>1, <1>2, FreezeBegins
  <1> HIDE DEF f
  <1>4. f \in Store /\ f.img[k] = b.img[k]
    BY <1>3 DEF Sound, SameImages
  <1>5. /\ f.img[w].role = "CheckpointImmutable" /\ f.img[w].dev = b.img[w].dev /\ f.img[w].host = None
        /\ f.img[w].pdev = None /\ f.img[w].phost = None /\ f.img[w].refs = 0 /\ f.img[w].pins = 0
        /\ f.img[w].from = None /\ b.img[w].dev # None
    BY <1>1, <1>3 DEF Frozen, Quiet, HasPending
  <1>6. CanBeginFork(f, w, k)
    BY <1>4, <1>5 DEF CanBeginFork, Ready, Quiet, HasPending, Immutable
  <1>7. Sound(m)
    BY <1>3, <1>6, BeginForkKeeps
  <1>8. DidFork(f, m, w, k)
    BY <1>4, ForkDid
  <1> HIDE DEF m
  <1>9. ~m.img[w].pinned
    <2>1. m.img[w].pinned = f.img[w].pinned
      BY <1>8, Zenon DEF DidFork
    <2> QED BY <1>3, <2>1, Zenon
  <1>10. /\ SameImages(f, m, {w, k}) /\ m.img[w].role = f.img[w].role /\ m.img[w].dev = f.img[w].dev
         /\ m.img[w].host = f.img[w].host /\ m.img[w].pdev = f.img[w].pdev /\ m.img[w].phost = f.img[w].phost
         /\ m.img[w].refs = f.img[w].refs /\ m.img[w].pins = f.img[w].pins + 1 /\ m.img[w].from = f.img[w].from
         /\ m.freeDev = f.freeDev /\ m.freeHost = f.freeHost
    BY <1>8 DEF DidFork
  <1>11. /\ m.img[k].role = "ActiveMutable" /\ m.img[k].dev = f.img[k].dev /\ m.img[k].host = f.img[k].host
         /\ m.img[k].pdev = f.img[k].pdev /\ m.img[k].phost = f.img[k].phost /\ m.img[k].refs = f.img[k].refs
         /\ m.img[k].pins = f.img[k].pins /\ m.img[k].from = w
    BY <1>8 DEF DidFork
  <1>12. SameImages(b, m, {w, k})
    BY <1>3, <1>10 DEF SameImages
  <1>13. Branch(b, m, w, k)
    BY <1>3, <1>4, <1>5, <1>7, <1>9, <1>10, <1>11, <1>12 DEF Branch, Ready
  <1> QED BY <1>2, <1>13 DEF m, f

(* Aborting the fork undoes all but the freeze of the source.              *)
LEMMA BranchAborts ==
    ASSUME NEW s, NEW b, NEW m, NEW w \in Images, NEW k \in Images, w # k, Ready(s, b, k),
           CanFreeze(s, w), s.img[w].refs = 0, s.img[w].host = None, s.img[w].from = None,
           Branch(b, m, w, k)
    PROVE  /\ Sound(AbortFork(m, w, k)) /\ SameImages(b, AbortFork(m, w, k), {w})
           /\ Frozen(b.img[w], AbortFork(m, w, k).img[w]) /\ ~AbortFork(m, w, k).img[w].pinned
           /\ b.img[w] = s.img[w]
  <1> DEFINE r == AbortFork(m, w, k)
  <1>1. Sound(m) /\ m \in Store /\ b.img[w] = s.img[w] /\ Quiet(s.img[w]) /\ s.img[w].dev # None
    BY DEF Ready, SameImages, CanFreeze, Branch, Sound
  <1>2. m.img[k].pinned
    BY <1>1, StoreAssumption DEF Branch, Sound, Shapes, Shape
  <1>3. Forked(m, w, k) /\ CanAbortFork(m, w, k)
    BY <1>1, <1>2 DEF Forked, CanAbortFork, CanCommitFork, Branch, Ready, Immutable
  <1>4. Sound(r)
    BY <1>1, <1>3, AbortForkKeeps
  <1>5. DidUnfork(m, r, w, k)
    BY <1>1, UnforkDid
  <1> HIDE DEF r
  <1>6. ~r.img[w].pinned /\ ~r.img[k].pinned
    <2>1. r.img[w].pinned = m.img[w].pinned /\ ~r.img[k].pinned
      BY <1>5, Zenon DEF DidUnfork
    <2>2. ~m.img[w].pinned
      BY DEF Branch
    <2> QED BY <2>1, <2>2, Zenon
  <1>7. /\ SameImages(m, r, {w, k}) /\ r.img[w].role = m.img[w].role /\ r.img[w].dev = m.img[w].dev
        /\ r.img[w].host = m.img[w].host /\ r.img[w].pdev = m.img[w].pdev /\ r.img[w].phost = m.img[w].phost
        /\ r.img[w].refs = m.img[w].refs /\ r.img[w].pins = m.img[w].pins - 1 /\ r.img[w].from = m.img[w].from
    BY <1>5 DEF DidUnfork
  <1>8. /\ r.img[k].role = "ReservedDestination" /\ r.img[k].dev = m.img[k].dev /\ r.img[k].host = m.img[k].host
        /\ r.img[k].pdev = m.img[k].pdev /\ r.img[k].phost = m.img[k].phost /\ r.img[k].refs = m.img[k].refs
        /\ r.img[k].pins = m.img[k].pins /\ r.img[k].from = None
    BY <1>5 DEF DidUnfork
  <1>9. r.img[k] \in Image /\ b.img[k] \in Image
    BY <1>4 DEF Sound, Store, Ready
  <1>10. r.img[k].pinned = b.img[k].pinned
    <2>1. r.img[k].pinned = FALSE /\ b.img[k].pinned = FALSE
      BY <1>6, <1>9 DEF Image, Ready
    <2> QED BY <2>1
  <1>11. /\ r.img[k].role = b.img[k].role /\ r.img[k].dev = b.img[k].dev /\ r.img[k].host = b.img[k].host
         /\ r.img[k].pdev = b.img[k].pdev /\ r.img[k].phost = b.img[k].phost /\ r.img[k].refs = b.img[k].refs
         /\ r.img[k].pins = b.img[k].pins /\ r.img[k].from = b.img[k].from
    BY <1>8 DEF Branch, Ready
  <1>12. r.img[k] = b.img[k]
    BY <1>9, <1>10, <1>11, ImageEq
  <1>13. SameImages(b, r, {w})
    BY <1>7, <1>12 DEF SameImages, Branch
  <1>14. Frozen(b.img[w], r.img[w])
    <2>1. /\ r.img[w].role = "CheckpointImmutable" /\ r.img[w].dev = s.img[w].dev
          /\ r.img[w].host = None /\ r.img[w].pdev = None /\ r.img[w].phost = None
          /\ r.img[w].refs = 0 /\ r.img[w].pins = 0 /\ r.img[w].from = None
      BY <1>1, <1>7 DEF Branch
    <2> QED BY <1>1, <2>1 DEF Frozen, Quiet, HasPending
  <1> QED BY <1>1, <1>4, <1>6, <1>13, <1>14 DEF r

(* Aborting a Device-fork capture into a reserved image restores the store *)
(* exactly.                                                                *)
LEMMA BranchReleased ==
    ASSUME NEW s, NEW b, NEW m, NEW w \in Images, NEW k \in Images, w # k, Ready(s, b, k), Sound(s),
           CanFreeze(s, w), s.img[w].refs = 0, s.img[w].host = None, s.img[w].from = None,
           Branch(b, m, w, k), s.img[k].role = "Free"
    PROVE  Thaw(TryRelease(AbortFork(m, w, k), k), w) = s
  <1> DEFINE a == AbortFork(m, w, k)
             r == TryRelease(a, k)
  <1>1. Sound(a) /\ SameImages(b, a, {w}) /\ Frozen(b.img[w], a.img[w]) /\ ~a.img[w].pinned /\ b.img[w] = s.img[w]
    BY BranchAborts
  <1> HIDE DEF a
  <1>2. a.img[k] = b.img[k] /\ Quiet(s.img[w]) /\ s.img[w].dev # None /\ s.img[w].role = "ActiveMutable"
    BY <1>1 DEF SameImages, CanFreeze
  <1>3. CanRelease(a, k)
    BY <1>2 DEF CanRelease, Quiet, HasPending, Ready
  <1>4. Sound(r) /\ SameImages(a, r, {k}) /\ r.img[k] = NewObject("Free")
    BY <1>1, <1>3, TryReleaseSpec
  <1> HIDE DEF r
  <1>5. s.img[k] = NewObject("Free")
    BY DEF Sound, Shapes, Shape
  <1>6. SameImages(s, r, {w}) /\ r.img[w] = a.img[w]
    BY <1>1, <1>4, <1>5 DEF SameImages, Ready
  <1>7. Thaw(r, w) = s
    BY <1>1, <1>2, <1>4, <1>6, ThawEnds
  <1> QED BY <1>7 DEF r, a

(* Aborting a Device-fork capture into a recycled checkpoint restores the  *)
(* store exactly, the checkpoint and its reference included.               *)
LEMMA BranchRestored ==
    ASSUME NEW s, NEW m, NEW w \in Images, NEW k \in Images, w # k, Sound(s),
           CanFreeze(s, w), s.img[w].refs = 0, s.img[w].host = None, s.img[w].from = None,
           CanRecycle(s, k), s.img[k].from = None,
           Branch(Recycle(s, k), m, w, k)
    PROVE  Thaw(RestoreRecycled(AbortFork(m, w, k), k), w) = s
  <1> DEFINE b == Recycle(s, k)
             a == AbortFork(m, w, k)
             r == RestoreRecycled(a, k)
  <1>0. Ready(s, b, k) /\ b.img[k].dev = s.img[k].dev
    BY ReadyRecycled
  <1> HIDE DEF b
  <1>1. Sound(a) /\ SameImages(b, a, {w}) /\ Frozen(b.img[w], a.img[w]) /\ ~a.img[w].pinned /\ b.img[w] = s.img[w]
    BY <1>0, BranchAborts DEF b
  <1> HIDE DEF a
  <1>2. a.img[k] = b.img[k] /\ Quiet(s.img[w]) /\ s.img[w].dev # None /\ s.img[w].role = "ActiveMutable"
    BY <1>1 DEF SameImages, CanFreeze
  <1>3. CanRestoreRecycled(a, k)
    BY <1>0, <1>2 DEF CanRestoreRecycled, Quiet, HasPending, Ready
  <1>4. Sound(r)
    BY <1>1, <1>3, RestoreRecycledKeeps
  <1>5. DidRestore(a, r, k)
    BY <1>1, RestoreDid DEF Sound
  <1> HIDE DEF r
  <1>6. r.img[k] \in Image /\ s.img[k] \in Image
    BY <1>4 DEF Sound, Store
  <1>7. r.img[k].pinned = s.img[k].pinned
    <2>1. r.img[k].pinned = a.img[k].pinned
      BY <1>5, Zenon DEF DidRestore
    <2>2. ~r.img[k].pinned
      BY <1>0, <1>2, <2>1, Zenon DEF Ready
    <2>3. r.img[k].pinned = FALSE /\ s.img[k].pinned = FALSE
      BY <1>6, <2>2 DEF Image, CanRecycle, Quiet
    <2> QED BY <2>3
  <1>8. /\ r.img[k].role = "CheckpointImmutable" /\ r.img[k].refs = 1 /\ r.img[k].dev = a.img[k].dev
        /\ r.img[k].host = a.img[k].host /\ r.img[k].pdev = a.img[k].pdev /\ r.img[k].phost = a.img[k].phost
        /\ r.img[k].pins = a.img[k].pins /\ r.img[k].from = a.img[k].from /\ SameImages(a, r, {k})
    BY <1>5 DEF DidRestore
  <1>9. /\ r.img[k].role = s.img[k].role /\ r.img[k].refs = s.img[k].refs /\ r.img[k].dev = s.img[k].dev
        /\ r.img[k].host = s.img[k].host /\ r.img[k].pdev = s.img[k].pdev /\ r.img[k].phost = s.img[k].phost
        /\ r.img[k].pins = s.img[k].pins /\ r.img[k].from = s.img[k].from
    BY <1>0, <1>2, <1>8 DEF Ready, CanRecycle, Quiet, HasPending, Immutable
  <1>10. r.img[k] = s.img[k]
    BY <1>6, <1>7, <1>9, ImageEq
  <1>11. SameImages(s, r, {w}) /\ r.img[w] = a.img[w]
    BY <1>0, <1>1, <1>8, <1>10 DEF SameImages, Ready
  <1>12. Thaw(r, w) = s
    BY <1>1, <1>2, <1>4, <1>11, ThawEnds
  <1> QED BY <1>12 DEF r, a

\* p is o with n more references
Referred(o, p, n) ==
    /\ p.role = o.role /\ p.dev = o.dev /\ p.host = o.host /\ p.pdev = o.pdev /\ p.phost = o.phost
    /\ p.pins = o.pins /\ p.from = o.from /\ (p.pinned => o.pinned) /\ p.refs = o.refs + n

(* A new reference changes the count and nothing else.                     *)
LEMMA RetainSpec ==
    ASSUME NEW s, Sound(s), NEW w \in Images, Immutable(s.img[w])
    PROVE  /\ Sound(RetainReference(s, w)) /\ SameImages(s, RetainReference(s, w), {w})
           /\ Referred(s.img[w], RetainReference(s, w).img[w], 1)
           /\ RetainReference(s, w).img[w] = [s.img[w] EXCEPT !.refs = s.img[w].refs + 1]
           /\ RetainReference(s, w).freeHost = s.freeHost
  <1> DEFINE r == RetainReference(s, w)
  <1>1. s \in Store
    BY DEF Sound
  <1>2. Sound(r)
    BY RetainKeeps DEF CanRetainReference
  <1>3. DidRetain(s, r, w)
    BY <1>1, RetainDid
  <1> HIDE DEF r
  <1>4. r.img[w].pinned = s.img[w].pinned
    BY <1>3, Zenon DEF DidRetain
  <1>5. /\ SameImages(s, r, {w}) /\ r.img[w].role = s.img[w].role /\ r.img[w].dev = s.img[w].dev
        /\ r.img[w].host = s.img[w].host /\ r.img[w].pdev = s.img[w].pdev /\ r.img[w].phost = s.img[w].phost
        /\ r.img[w].pins = s.img[w].pins /\ r.img[w].from = s.img[w].from
        /\ r.img[w].refs = s.img[w].refs + 1 /\ r.freeHost = s.freeHost
    BY <1>3 DEF DidRetain
  <1>6. r.img[w].pinned => s.img[w].pinned
    BY <1>4, Zenon
  <1>7. r.img[w] = [s.img[w] EXCEPT !.refs = s.img[w].refs + 1]
    BY <1>3, Zenon DEF DidRetain
  <1>8. Referred(s.img[w], r.img[w], 1)
    BY <1>5, <1>6 DEF Referred
  <1> QED BY <1>2, <1>5, <1>7, <1>8 DEF r

(* What publication does to the store: the new checkpoint is retained by   *)
(* the prefix and by the sequence, which gives its old one up.             *)
Kept(m, w, z, priv, x, drop) ==
    LET s2 == IF x # None THEN RetainReference(m, w) ELSE m
        s3 == IF drop THEN DropCheckpoint(s2, z) ELSE s2
    IN  IF priv THEN RetainReference(s3, w) ELSE s3

(* How many references a published capture takes on its image.             *)
Uses(priv, x) == (IF priv THEN 1 ELSE 0) + (IF x # None THEN 1 ELSE 0)

\* what f keeps of m after Kept
KeptOK(m, f, w, z, priv, x, drop) ==
    /\ Sound(f) /\ SameImages(m, f, {w} \cup (IF drop THEN {z} ELSE {}))
    /\ Referred(m.img[w], f.img[w], Uses(priv, x))
    /\ drop /\ z # None => Unnamed(m.img[z], f.img[z])
    /\ m.freeHost \subseteq f.freeHost

(* Publishing a capture takes the references it needs and drops the old    *)
(* rewrite checkpoint when it replaces it.                                 *)
LEMMA KeptSpec ==
    ASSUME NEW m, Sound(m), NEW w \in Images, Immutable(m.img[w]), NEW z \in Images \cup {None},
           NEW priv \in BOOLEAN, NEW x, NEW drop \in BOOLEAN,
           drop /\ z # None => /\ z # w /\ CanReleaseReference(m, z)
                               /\ m.img[z].refs = 1 => Quiet(m.img[z])
    PROVE  KeptOK(m, Kept(m, w, z, priv, x, drop), w, z, priv, x, drop)
  <1> DEFINE s2 == IF x # None THEN RetainReference(m, w) ELSE m
             s3 == IF drop THEN DropCheckpoint(s2, z) ELSE s2
             f == IF priv THEN RetainReference(s3, w) ELSE s3
             n2 == IF x # None THEN 1 ELSE 0
             S == IF drop THEN {z} ELSE {}
  <1>0. f = Kept(m, w, z, priv, x, drop)
    BY DEF Kept
  <1>t. \A h \in Images : m.img[h] \in Image
    BY DEF Sound, Store
  <1>1. /\ Sound(s2) /\ SameImages(m, s2, {w}) /\ Referred(m.img[w], s2.img[w], n2) /\ s2.freeHost = m.freeHost
    <2>1. CASE x # None
      BY <2>1, RetainSpec
    <2>2. CASE x = None
      BY <2>2, <1>t DEF SameImages, Referred, Image
    <2> QED BY <2>1, <2>2
  <1>1a. n2 \in Nat
    OBVIOUS
  <1> HIDE DEF s2, n2
  <1>2. /\ Sound(s3) /\ SameImages(s2, s3, S) /\ s2.freeHost \subseteq s3.freeHost
        /\ drop /\ z # None => Unnamed(s2.img[z], s3.img[z]) /\ z # w
    <2>1. CASE drop /\ z # None
      <3>1. z \in Images /\ z # w /\ s2.img[z] = m.img[z]
        BY <1>1, <2>1 DEF SameImages
      <3>2. CanReleaseReference(s2, z) /\ (s2.img[z].refs = 1 => Quiet(s2.img[z]))
        BY <2>1, <3>1 DEF CanReleaseReference
      <3>3. /\ Sound(DropCheckpoint(s2, z)) /\ SameImages(s2, DropCheckpoint(s2, z), {z})
            /\ Unnamed(s2.img[z], DropCheckpoint(s2, z).img[z])
            /\ s2.freeHost \subseteq DropCheckpoint(s2, z).freeHost
        BY <1>1, <3>1, <3>2, DropCheckpointSpec
      <3>4. s3 = DropCheckpoint(s2, z) /\ S = {z}
        BY <2>1
      <3> QED BY <3>1, <3>3, <3>4
    <2>2. CASE ~(drop /\ z # None)
      <3>1. s3 = s2
        BY <2>2 DEF DropCheckpoint, TryRelease, DropReference
      <3> QED BY <1>1, <2>2, <3>1 DEF SameImages
    <2> QED BY <2>1, <2>2
  <1> HIDE DEF s3
  <1>3. w \notin S
    BY <1>2, StoreAssumption
  <1>4. s3.img[w] = s2.img[w] /\ Immutable(s3.img[w])
    BY <1>1, <1>2, <1>3 DEF SameImages, Referred, Immutable
  <1>5. /\ Sound(f) /\ SameImages(s3, f, {w}) /\ Referred(s3.img[w], f.img[w], IF priv THEN 1 ELSE 0)
        /\ f.freeHost = s3.freeHost
    <2>1. CASE priv
      BY <2>1, <1>2, <1>4, RetainSpec
    <2>2. CASE ~priv
      <3>1. s3.img[w] \in Image
        BY <1>2 DEF Sound, Store
      <3> QED BY <2>2, <3>1, <1>2 DEF SameImages, Referred, Image
    <2> QED BY <2>1, <2>2
  <1> HIDE DEF f
  <1>6. Referred(m.img[w], f.img[w], Uses(priv, x))
    <2>1. Uses(priv, x) = (IF priv THEN 1 ELSE 0) + n2
      BY DEF Uses, n2
    <2>2. m.img[w].refs \in Nat
      BY <1>t DEF Image
    <2>3. f.img[w].refs = m.img[w].refs + Uses(priv, x)
      BY <1>1, <1>1a, <1>4, <1>5, <2>1, <2>2 DEF Referred
    <2> QED BY <1>1, <1>4, <1>5, <2>3 DEF Referred
  <1>7. SameImages(m, f, {w} \cup S)
    BY <1>1, <1>2, <1>5 DEF SameImages
  <1>8. drop /\ z # None => Unnamed(m.img[z], f.img[z])
    BY <1>1, <1>2, <1>5 DEF SameImages
  <1>9. m.freeHost \subseteq f.freeHost
    BY <1>1, <1>2, <1>5
  <1>10. KeptOK(m, f, w, z, priv, x, drop)
    BY <1>2, <1>5, <1>6, <1>7, <1>8, <1>9 DEF KeptOK, S
  <1> QED BY <1>0, <1>10

\* the lane's image as the checkpoint it is about to become, the lane itself set aside
Parked(s, Q, SI, g, c, priv, x, a, R) ==
    /\ Consistent(a, R, SI, g) /\ NoForks(R) /\ SameSeqs(Q, R, c)
    /\ Headless(R[c]) /\ R[c].role = "Catalogued"
    /\ R[c].rw = (IF priv THEN Q[c].write ELSE Q[c].rw)
    /\ R[c].rwf = (IF priv THEN Q[c].pos ELSE Q[c].rwf)
    /\ SameImages(s, a, IF priv THEN {Q[c].write, Q[c].rw} ELSE {Q[c].write})
    /\ Immutable(a.img[Q[c].write]) /\ a.img[Q[c].write].dev = s.img[Q[c].write].dev
    /\ a.img[Q[c].write].host = None /\ a.img[Q[c].write].from = None
    /\ a.img[Q[c].write].pins = 0 /\ a.img[Q[c].write].refs = Uses(priv, x)
    /\ priv /\ Q[c].rw # None => Unnamed(s.img[Q[c].rw], a.img[Q[c].rw])

\* the lane as a continuation that ends where the lane is
Halted(s, Q, SH, g, c, a, R) ==
    /\ Consistent(a, R, SH, g) /\ NoForks(R) /\ SameSeqs(Q, R, c)
    /\ SameImages(s, a, {Q[c].write})
    /\ R[c] = [Q[c] EXCEPT !.role = "Catalogued", !.valid = TRUE]
    /\ Endpoint(a, g, R[c]) /\ a.img[Q[c].write].dev = s.img[Q[c].write].dev
    /\ a.img[Q[c].write].host = None

(* Freezing a lane's image leaves a consistent state in which the lane is  *)
(* parked on an endpoint.                                                  *)
LEMMA LaneFrozen ==
    ASSUME NEW s, NEW Q, NEW SH, NEW g, Consistent(s, Q, SH, g), NoForks(Q), NEW c \in Conts,
           Writer(s, g, Q[c])
    PROVE  \E a, R : Halted(s, Q, SH, g, c, a, R)
  <1> DEFINE w == Q[c].write
             p == [Q[c] EXCEPT !.role = "Catalogued", !.valid = TRUE]
             R == [Q EXCEPT ![c] = p]
             a == Freeze(s, w)
  <1>1. /\ Sound(s) /\ Typed(Q, SH, g) /\ Q[c] \in SeqRecord /\ s \in Store
    BY SeqTypes, SMTT(40) DEF Consistent, Sound
  <1>2. /\ w \in Images /\ Q[c].read = w /\ CanFreeze(s, w) /\ s.img[w].dev # None /\ s.img[w].host = None
    BY WriterFacts DEF Writer
  <1>3. p \in SeqRecord
    BY <1>1 DEF SeqRecord
  <1>4. /\ Typed(R, SH, g) /\ R[c] = p /\ SameSeqs(Q, R, c)
    BY <1>1, <1>3, TypedSeq
  <1>5. /\ p.role = "Catalogued" /\ p.valid /\ p.fork = Q[c].fork /\ p.own = Q[c].own /\ p.read = Q[c].read
        /\ p.write = Q[c].write /\ p.pos = Q[c].pos /\ p.rw = Q[c].rw /\ p.rwf = Q[c].rwf
    BY <1>1 DEF SeqRecord
  <1>6. /\ ~Q[c].fork /\ Q[c].own = "Primary"
    BY DEF Writer
  <1> HIDE DEF p, R
  <1>7. DidFreeze(s, a, w)
    BY <1>1, <1>2, FreezeDid
  <1>8. /\ Sound(a) /\ SameImages(s, a, {w}) /\ Frozen(s.img[w], a.img[w])
    BY <1>1, <1>2, FreezeBegins
  <1> HIDE DEF a
  <1>9. a.img[w] = [s.img[w] EXCEPT !.role = "CheckpointImmutable"]
    BY <1>7, Zenon DEF DidFreeze
  <1>10. ~R[c].fork
    BY <1>4, <1>5, <1>6, Zenon
  <1>11. Consistent(a, R, SH, g)
    BY <1>2, <1>4, <1>5, <1>6, <1>8, <1>9, <1>10, FreezeLane
  <1>12. NoForks(R)
    BY <1>4, <1>10, SMTT(40) DEF NoForks, SameSeqs
  <1>13. /\ s.img[w].refs = 0 /\ g[s.img[w].dev] = Q[c].pos
    BY <1>2, WriterFacts DEF Writer
  <1>14. Endpoint(a, g, R[c])
    BY <1>2, <1>4, <1>5, <1>6, <1>8, <1>10, <1>13 DEF Endpoint, Frozen, Immutable, Holds
  <1>15. a.img[w].dev = s.img[w].dev /\ a.img[w].host = None
    BY <1>2, <1>8 DEF Frozen
  <1>16. Halted(s, Q, SH, g, c, a, R)
    BY <1>4, <1>8, <1>11, <1>12, <1>14, <1>15 DEF p, Halted
  <1> QED BY <1>16

(* The same with the frozen image published as a shared prefix.            *)
LEMMA LaneParkedShared ==
    ASSUME NEW s, NEW Q, NEW SH, NEW SI, NEW g, Consistent(s, Q, SH, g), NoForks(Q), NEW c \in Conts,
           Writer(s, g, Q[c]), NEW x \in SharedSlots, SH[x].img = None,
           Typed(Q, SI, g), SamePrefixes(SH, SI, x), SI[x].role = "Catalogued",
           SI[x].img = Q[c].write, SI[x].f = Q[c].pos
    PROVE  \E a, R : Parked(s, Q, SI, g, c, FALSE, x, a, R)
  <1> DEFINE w == Q[c].write
  <1>0. PICK b, T : Halted(s, Q, SH, g, c, b, T)
    BY LaneFrozen
  <1>1. /\ Consistent(b, T, SH, g) /\ NoForks(T) /\ SameSeqs(Q, T, c)
        /\ SameImages(s, b, {w})
        /\ T[c] = [Q[c] EXCEPT !.role = "Catalogued", !.valid = TRUE]
        /\ Endpoint(b, g, T[c]) /\ b.img[w].dev = s.img[w].dev
        /\ b.img[w].host = None
    BY <1>0 DEF Halted
  <1>2. /\ Q[c] \in SeqRecord /\ T[c] \in SeqRecord /\ Sound(b) /\ Typed(T, SH, g)
    <2>1. Q[c] \in SeqRecord
      BY SeqTypes
    <2>2. T[c] \in SeqRecord
      BY <1>1, SeqTypes, SMTT(40)
    <2> QED BY <1>1, <2>1, <2>2 DEF Consistent
  <1>3. /\ w \in Images /\ Q[c].read = w /\ b.img[w] \in Image
    BY <1>2, WriterFacts, Zenon DEF Writer, Sound, Store
  <1>4. /\ T[c].read = w /\ T[c].write = w /\ T[c].pos = Q[c].pos /\ T[c].rw = Q[c].rw /\ T[c].rwf = Q[c].rwf
        /\ T[c].own = "Primary"
    BY <1>1, <1>2, <1>3 DEF SeqRecord, Endpoint
  <1>5. /\ b.img[w].refs = 0 /\ Immutable(b.img[w])
    BY <1>1, <1>4 DEF Endpoint
  <1>6. b.img[w].from = None /\ b.img[w].pins = 0
    BY <1>1, <1>3, AllQuiet
  <1> DEFINE a == RetainReference(b, w)
             p == [T[c] EXCEPT !.read = None, !.write = None, !.valid = FALSE]
             R == [T EXCEPT ![c] = p]
  <1>7. /\ Sound(a) /\ SameImages(b, a, {w}) /\ Referred(b.img[w], a.img[w], 1)
        /\ a.img[w] = [b.img[w] EXCEPT !.refs = b.img[w].refs + 1]
    BY <1>2, <1>3, <1>5, RetainSpec, SMTT(40)
  <1> HIDE DEF a
  <1>8. a.img[w] = [b.img[w] EXCEPT !.refs = 1]
    BY <1>5, <1>7
  <1>9. p \in SeqRecord
    BY <1>2, ZenonT(40) DEF SeqRecord
  <1>10. /\ p.read = None /\ p.write = None /\ ~p.valid /\ p.fork = T[c].fork /\ p.own = T[c].own
         /\ p.role = T[c].role /\ p.rw = T[c].rw /\ p.rwf = T[c].rwf
    BY <1>2 DEF SeqRecord
  <1>11. /\ Typed(R, SH, g) /\ R[c] = p /\ SameSeqs(T, R, c)
    BY <1>2, <1>9, TypedSeq
  <1> HIDE DEF p, R
  <1>12. ~R[c].fork /\ R[c].role = "Catalogued" /\ NoForks(R)
    BY <1>1, <1>10, <1>11 DEF Endpoint, NoForks, SameSeqs
  <1>13. Headless(R[c])
    BY <1>4, <1>10, <1>11, <1>12 DEF Headless
  <1>14. Typed(R, SI, g)
    BY <1>11 DEF Typed
  <1>15. Consistent(a, R, SI, g)
    BY <1>1, <1>4, <1>7, <1>8, <1>10, <1>11, <1>13, <1>14, EndpointToPrefix, ZenonT(40)
  <1>16. /\ a.img[w].refs = 1 /\ Immutable(a.img[w]) /\ a.img[w].dev = s.img[w].dev /\ a.img[w].host = None
         /\ a.img[w].pins = 0 /\ a.img[w].from = None
    BY <1>1, <1>5, <1>6, <1>7 DEF Referred, Immutable
  <1>17. Uses(FALSE, x) = 1
    BY ContextAssumption DEF Uses
  <1>18. SameSeqs(Q, R, c) /\ SameImages(s, a, {w})
    BY <1>1, <1>7, <1>11 DEF SameSeqs, SameImages
  <1>19. R[c].rw = Q[c].rw /\ R[c].rwf = Q[c].rwf
    BY <1>4, <1>10, <1>11
  <1>20. Parked(s, Q, SI, g, c, FALSE, x, a, R)
    BY <1>12, <1>13, <1>15, <1>16, <1>17, <1>18, <1>19 DEF Parked
  <1> QED BY <1>20

(* The same with the frozen image published as the lane's rewrite          *)
(* checkpoint.                                                             *)
LEMMA LaneParkedPrivate ==
    ASSUME NEW s, NEW Q, NEW SH, NEW g, Consistent(s, Q, SH, g), NoForks(Q), NEW c \in Conts,
           Writer(s, g, Q[c])
    PROVE  \E a, R : Parked(s, Q, SH, g, c, TRUE, None, a, R)
  <1> DEFINE w == Q[c].write
             z == Q[c].rw
  <1>0. PICK b, T : Halted(s, Q, SH, g, c, b, T)
    BY LaneFrozen
  <1>1. /\ Consistent(b, T, SH, g) /\ NoForks(T) /\ SameSeqs(Q, T, c)
        /\ SameImages(s, b, {w})
        /\ T[c] = [Q[c] EXCEPT !.role = "Catalogued", !.valid = TRUE]
        /\ Endpoint(b, g, T[c]) /\ b.img[w].dev = s.img[w].dev
        /\ b.img[w].host = None
    BY <1>0 DEF Halted
  <1>2. /\ Q[c] \in SeqRecord /\ T[c] \in SeqRecord /\ Sound(b) /\ Typed(T, SH, g)
    <2>1. Q[c] \in SeqRecord
      BY SeqTypes
    <2>2. T[c] \in SeqRecord
      BY <1>1, SeqTypes, SMTT(40)
    <2> QED BY <1>1, <2>1, <2>2 DEF Consistent
  <1>3. /\ w \in Images /\ Q[c].read = w /\ z # w /\ z \in Images \cup {None}
    BY <1>2, WriterFacts DEF Writer, SeqRecord
  <1>4. /\ T[c].read = w /\ T[c].write = w /\ T[c].pos = Q[c].pos /\ T[c].rw = z /\ T[c].rwf = Q[c].rwf
        /\ T[c].own = "Primary" /\ T[c].role = "Catalogued"
    BY <1>1, <1>2, <1>3 DEF SeqRecord, Endpoint
  <1> DEFINE q == [T[c] EXCEPT !.rw = None, !.rwf = 0]
             U == [T EXCEPT ![c] = q]
             e == IF z = None THEN b ELSE DropCheckpoint(b, z)
             p == [q EXCEPT !.read = None, !.write = None, !.valid = FALSE, !.rw = w, !.rwf = Q[c].pos]
             R == [U EXCEPT ![c] = p]
             a == RetainReference(e, w)
  <1>5. q \in SeqRecord
    BY <1>2 DEF SeqRecord
  <1>6. /\ Typed(U, SH, g) /\ U[c] = q /\ SameSeqs(T, U, c)
    BY <1>2, <1>5, TypedSeq
  <1>7. /\ q.read = w /\ q.write = w /\ q.pos = Q[c].pos /\ q.rw = None /\ q.own = "Primary"
        /\ q.role = "Catalogued" /\ q.valid = T[c].valid /\ q.fork = T[c].fork
    BY <1>2, <1>4 DEF SeqRecord
  <1> HIDE DEF q, U
  <1>8. p \in SeqRecord
    BY <1>2, <1>3, <1>5, ZenonT(40) DEF SeqRecord
  <1>9. /\ p.read = None /\ p.write = None /\ ~p.valid /\ p.fork = q.fork /\ p.own = q.own
        /\ p.role = q.role /\ p.rw = w /\ p.rwf = Q[c].pos
    BY <1>5 DEF SeqRecord
  <1>10. /\ Typed(R, SH, g) /\ R[c] = p /\ SameSeqs(U, R, c)
    BY <1>6, <1>8, TypedSeq
  <1> HIDE DEF p, R
  <1>11. ~U[c].fork /\ NoForks(U)
    <2>1. ~U[c].fork
      BY <1>1, <1>6, <1>7, Zenon DEF Endpoint
    <2> QED BY <1>1, <1>6, <2>1 DEF NoForks, SameSeqs
  <1>12. /\ Consistent(e, U, SH, g) /\ SameImages(b, e, {z})
         /\ z # None => Unnamed(b.img[z], e.img[z])
    <2>1. CASE z = None
      <3>1. SameBinding(T[c], U[c])
        BY <2>1, <1>4, <1>6, <1>7, <1>11, Zenon DEF SameBinding
      <3>2. ASSUME NEW d \in Conts PROVE SameBinding(T[d], U[d])
        <4>1. CASE d = c
          BY <3>1, <4>1
        <4>2. CASE d # c
          <5>1. U[d] = T[d] /\ ~T[d].fork
            BY <1>1, <1>6, <4>2 DEF SameSeqs, NoForks
          <5> QED BY <5>1 DEF SameBinding
        <4> QED BY <4>1, <4>2
      <3>3. SameContents(b, g, g) /\ \A y \in SharedSlots : SamePrefix(SH[y], SH[y])
        BY DEF SameContents, SamePrefix
      <3>4. Consistent(b, U, SH, g)
        BY <1>1, <1>6, <3>2, <3>3, Restate
      <3> QED BY <2>1, <3>4 DEF SameImages
    <2>2. CASE z # None
      <3>1. /\ Consistent(DropCheckpoint(b, T[c].rw), U, SH, g)
            /\ SameImages(b, DropCheckpoint(b, T[c].rw), {T[c].rw})
        BY <2>2, <1>1, <1>4, <1>6, <1>7, <1>11, RewriteReleased, ZenonT(40)
      <3>2. Immutable(b.img[z]) /\ z \in Images /\ Quiet(b.img[z]) /\ b.img[z].refs # 0
        <4>1. SeqOK(b, g, T[c]) /\ ImageOK(b, T, SH, z)
          BY <1>1, <1>3, <2>2 DEF Consistent
        <4>2. NamedByRewrite(T, z) = 1 /\ NamedByPrefix(SH, z) \in {0, 1}
          BY <1>4 DEF NamedByRewrite, NamedByPrefix
        <4> QED BY <4>1, <4>2, <1>1, <1>3, <1>4, <2>2, AllQuiet DEF SeqOK, ImageOK
      <3>3. Unnamed(b.img[z], DropCheckpoint(b, z).img[z])
        BY <1>2, <3>2, DropCheckpointSpec DEF CanReleaseReference
      <3> QED BY <2>2, <1>4, <3>1, <3>3
    <2> QED BY <2>1, <2>2
  <1> HIDE DEF e
  <1>13. e.img[w] = b.img[w] /\ Sound(e)
    BY <1>3, <1>12 DEF SameImages, Consistent
  <1>14. /\ e.img[w].refs = 0 /\ Immutable(e.img[w])
    BY <1>1, <1>4, <1>13 DEF Endpoint
  <1>15. e.img[w].from = None /\ e.img[w].pins = 0
    BY <1>3, <1>11, <1>12, AllQuiet
  <1>16. Endpoint(e, g, U[c])
    <2>1. U[c].valid /\ ~U[c].fork
      BY <1>1, <1>6, <1>7, <1>11, Zenon DEF Endpoint
    <2>2. Holds(b, g, w, Q[c].pos)
      BY <1>1, <1>4 DEF Endpoint
    <2>3. Holds(e, g, w, Q[c].pos)
      BY <2>2, <1>13 DEF Holds
    <2> QED BY <1>3, <1>6, <1>7, <1>14, <2>1, <2>3 DEF Endpoint
  <1>17. /\ Sound(a) /\ SameImages(e, a, {w}) /\ Referred(e.img[w], a.img[w], 1)
         /\ a.img[w] = [e.img[w] EXCEPT !.refs = e.img[w].refs + 1]
    BY <1>3, <1>13, <1>14, RetainSpec
  <1> HIDE DEF a
  <1>18. a.img[w] = [e.img[w] EXCEPT !.refs = 1]
    BY <1>14, <1>17
  <1>19. ~R[c].fork /\ NoForks(R) /\ R[c].role = "Catalogued"
    <2>1. ~R[c].fork
      BY <1>6, <1>9, <1>10, <1>11, Zenon
    <2> QED BY <2>1, <1>7, <1>9, <1>10, <1>11 DEF NoForks, SameSeqs
  <1>20. Headless(R[c])
    BY <1>7, <1>9, <1>10, <1>19, SMTT(40) DEF Headless
  <1>21. Consistent(a, R, SH, g)
    BY <1>6, <1>7, <1>9, <1>10, <1>11, <1>12, <1>16, <1>17, <1>18, <1>19, <1>20, EndpointToRewrite
  <1>22. /\ a.img[w].refs = 1 /\ Immutable(a.img[w]) /\ a.img[w].dev = s.img[w].dev /\ a.img[w].host = None
         /\ a.img[w].pins = 0 /\ a.img[w].from = None
    BY <1>1, <1>13, <1>14, <1>15, <1>17 DEF Referred, Immutable
  <1>23. Uses(TRUE, None) = 1
    BY DEF Uses
  <1>24. SameSeqs(Q, R, c) /\ SameImages(s, a, {w, z})
    BY <1>1, <1>6, <1>10, <1>12, <1>17 DEF SameSeqs, SameImages
  <1>25. R[c].rw = w /\ R[c].rwf = Q[c].pos
    BY <1>9, <1>10
  <1>26. z # None => Unnamed(s.img[z], a.img[z])
    BY <1>1, <1>3, <1>12, <1>17 DEF SameImages
  <1>27. Parked(s, Q, SH, g, c, TRUE, None, a, R)
    BY <1>19, <1>20, <1>21, <1>22, <1>23, <1>24, <1>25, <1>26 DEF Parked
  <1> QED BY <1>27

\* the shared slot x names the image of lane c, unless there is none
Named(SH, SI, x, w, n) ==
    IF x = None THEN SI = SH
    ELSE /\ x \in SharedSlots /\ SH[x].img = None /\ SamePrefixes(SH, SI, x)
         /\ SI[x].role = "Catalogued" /\ SI[x].img = w /\ SI[x].f = n

(* The same for whatever combination the capture publishes.                *)
LEMMA LaneParked ==
    ASSUME NEW s, NEW Q, NEW SH, NEW SI, NEW g, Consistent(s, Q, SH, g), NoForks(Q), NEW c \in Conts,
           Writer(s, g, Q[c]), Typed(Q, SI, g), NEW priv \in BOOLEAN, NEW x,
           priv \/ x # None, Named(SH, SI, x, Q[c].write, Q[c].pos)
    PROVE  \E a, R : Parked(s, Q, SI, g, c, priv, x, a, R)
  <1> DEFINE w == Q[c].write
             z == Q[c].rw
  <1>1. CASE ~priv
    <2>1. priv = FALSE /\ x # None
      BY <1>1
    <2>2. \E a, R : Parked(s, Q, SI, g, c, FALSE, x, a, R)
      BY <2>1, LaneParkedShared DEF Named
    <2> QED BY <2>1, <2>2
  <1>2. CASE priv /\ x = None
    <2>1. priv = TRUE /\ SI = SH
      BY <1>2 DEF Named
    <2>2. \E a, R : Parked(s, Q, SH, g, c, TRUE, None, a, R)
      BY LaneParkedPrivate
    <2> QED BY <1>2, <2>1, <2>2
  <1>3. CASE priv /\ x # None
    <2>1. /\ priv = TRUE /\ x \in SharedSlots /\ SH[x].img = None /\ SamePrefixes(SH, SI, x)
          /\ SI[x].role = "Catalogued" /\ SI[x].img = w /\ SI[x].f = Q[c].pos
      BY <1>3 DEF Named
    <2>2. PICK b, R : Parked(s, Q, SH, g, c, TRUE, None, b, R)
      BY LaneParkedPrivate
    <2>3. /\ Consistent(b, R, SH, g) /\ NoForks(R) /\ SameSeqs(Q, R, c)
          /\ Headless(R[c]) /\ R[c].role = "Catalogued" /\ R[c].rw = w /\ R[c].rwf = Q[c].pos
          /\ SameImages(s, b, {w, z}) /\ Immutable(b.img[w]) /\ b.img[w].dev = s.img[w].dev
          /\ b.img[w].host = None /\ b.img[w].from = None
          /\ b.img[w].pins = 0 /\ b.img[w].refs = Uses(TRUE, None)
          /\ z # None => Unnamed(s.img[z], b.img[z])
      BY <2>2 DEF Parked
    <2>4. b.img[w].refs = 1 /\ Uses(TRUE, x) = 2
      BY <2>3, <1>3, SMTT(40) DEF Uses
    <2>5. w \in Images /\ w # None /\ z # w /\ Sound(b)
      BY <2>3, StoreAssumption, WriterFacts DEF Consistent
    <2> DEFINE a == RetainReference(b, w)
    <2>6. /\ Sound(a) /\ SameImages(b, a, {w}) /\ Referred(b.img[w], a.img[w], 1)
          /\ a.img[w] = [b.img[w] EXCEPT !.refs = b.img[w].refs + 1]
      BY <2>3, <2>5, RetainSpec
    <2> HIDE DEF a
    <2>7. a.img[w] = [b.img[w] EXCEPT !.refs = 2]
      BY <2>4, <2>6
    <2>8. Typed(R, SI, g)
      BY <2>3, SMTT(40) DEF Typed, Consistent
    <2>9. Consistent(a, R, SI, g)
      BY <2>1, <2>3, <2>4, <2>5, <2>6, <2>7, <2>8, RewriteToPrefix, ZenonT(40)
    <2>10. /\ a.img[w].refs = 2 /\ Immutable(a.img[w]) /\ a.img[w].dev = s.img[w].dev /\ a.img[w].host = None
           /\ a.img[w].pins = 0 /\ a.img[w].from = None
      BY <2>3, <2>4, <2>6 DEF Referred, Immutable
    <2>11. SameImages(s, a, {w, z})
      BY <2>3, <2>6 DEF SameImages
    <2>12. z # None => Unnamed(s.img[z], a.img[z])
      <3>1. z # None => z \in Images
        BY SeqTypes, SMTT(40) DEF SeqRecord
      <3> QED BY <3>1, <2>3, <2>5, <2>6 DEF SameImages
    <2>13. Parked(s, Q, SI, g, c, TRUE, x, a, R)
      BY <2>3, <2>4, <2>9, <2>10, <2>11, <2>12 DEF Parked
    <2> QED BY <2>1, <2>13
  <1> QED BY <1>1, <1>2, <1>3

\* the images and the sequence of a capture that is being published
Taken(s, f, Q, R, c, w, k, priv) ==
    /\ Sound(f)
    /\ SameSeqs(Q, R, c) /\ R[c].role = "Active" /\ ~R[c].valid
    /\ R[c].own = "Primary" /\ R[c].stage # "done" /\ R[c].pos = Q[c].pos
    /\ R[c].rw = (IF priv THEN w ELSE Q[c].rw)
    /\ R[c].rwf = (IF priv THEN Q[c].pos ELSE Q[c].rwf)
    /\ R[c].write = k

\* f differs from s at w, at k and, as Unnamed says, at the checkpoint given up
Differs(s, f, w, k, z, priv) ==
    /\ SameImages(s, f, {w, k} \cup (IF priv THEN {z} ELSE {}))
    /\ priv /\ z # None /\ z # k => Unnamed(s.img[z], f.img[z])

(* The old rewrite checkpoint is the only other image the two states may   *)
(* treat differently.                                                      *)
LEMMA BothUnnamed ==
    ASSUME NEW s, NEW a, NEW f, NEW w, NEW k, NEW z \in Images \cup {None}, NEW priv \in BOOLEAN,
           z # w,
           SameImages(s, a, IF priv THEN {w, z} ELSE {w}),
           priv /\ z # None => Unnamed(s.img[z], a.img[z]),
           Differs(s, f, w, k, z, priv)
    PROVE  SameImages(a, f, {w, k})
  <1>1. SUFFICES ASSUME NEW j \in Images, j # w, j # k PROVE f.img[j] = a.img[j]
    BY DEF SameImages
  <1>2. CASE priv /\ j = z
    <2>1. j # None
      BY StoreAssumption
    <2> QED BY <1>1, <1>2, <2>1 DEF Differs, Unnamed
  <1>3. CASE ~(priv /\ j = z)
    BY <1>1, <1>3, SMTT(40) DEF Differs, SameImages
  <1> QED BY <1>2, <1>3

\* a lane takes its branch for its own, and its old image is the checkpoint
TakenByFork(s, Q, R, SH, SI, g, c, w, k, priv, x, f) ==
    /\ Consistent(s, Q, SH, g) /\ NoForks(Q) /\ c \in Conts /\ w = Q[c].write /\ k \in Images
    /\ w # k /\ Writer(s, g, Q[c]) /\ Typed(Q, SI, g) /\ Typed(R, SI, g) /\ priv \in BOOLEAN
    /\ (priv \/ x # None) /\ Named(SH, SI, x, w, Q[c].pos)
    /\ Taken(s, f, Q, R, c, w, k, priv) /\ Differs(s, f, w, k, Q[c].rw, priv)
    /\ (s.img[k].role = "Free" \/ (priv /\ k = Q[c].rw /\ s.img[k].refs = 1))
    /\ R[c].read = w /\ R[c].fork
    /\ Immutable(f.img[w]) /\ f.img[w].dev = s.img[w].dev /\ f.img[w].host = None
    /\ f.img[w].from = None /\ f.img[w].refs = Uses(priv, x) /\ ~f.img[w].pinned
    /\ f.img[w].pdev = None /\ f.img[w].phost = None
    /\ f.img[k].role = "ActiveMutable" /\ f.img[k].from = w
    /\ f.img[k].refs = 0 /\ f.img[k].host = None /\ f.img[k].pdev = None /\ f.img[k].phost = None

(* The state after a Device-fork capture publishes is consistent: the      *)
(* checkpoint is referenced by what names it and the lane forks from it.   *)
LEMMA CaptureForked ==
    ASSUME NEW s, NEW Q, NEW R, NEW SH, NEW SI, NEW g, NEW c, NEW w, NEW k, NEW priv, NEW x, NEW f,
           TakenByFork(s, Q, R, SH, SI, g, c, w, k, priv, x, f)
    PROVE  Consistent(f, R, SI, g)
  <1>e. /\ Consistent(s, Q, SH, g) /\ NoForks(Q) /\ c \in Conts /\ w = Q[c].write /\ k \in Images
        /\ w # k /\ Writer(s, g, Q[c]) /\ Typed(Q, SI, g) /\ Typed(R, SI, g) /\ priv \in BOOLEAN
        /\ (priv \/ x # None) /\ Named(SH, SI, x, w, Q[c].pos)
        /\ Taken(s, f, Q, R, c, w, k, priv) /\ Differs(s, f, w, k, Q[c].rw, priv)
        /\ (s.img[k].role = "Free" \/ (priv /\ k = Q[c].rw /\ s.img[k].refs = 1))
        /\ R[c].read = w /\ R[c].fork
        /\ Immutable(f.img[w]) /\ f.img[w].dev = s.img[w].dev /\ f.img[w].host = None
        /\ f.img[w].from = None /\ f.img[w].refs = Uses(priv, x) /\ ~f.img[w].pinned
        /\ f.img[w].pdev = None /\ f.img[w].phost = None
        /\ f.img[k].role = "ActiveMutable" /\ f.img[k].from = w
        /\ f.img[k].refs = 0 /\ f.img[k].host = None /\ f.img[k].pdev = None /\ f.img[k].phost = None
    BY DEF TakenByFork
  <1> USE <1>e
  <1> DEFINE z == Q[c].rw
  <1>1. PICK a, T : Parked(s, Q, SI, g, c, priv, x, a, T)
    BY LaneParked
  <1>2. /\ Consistent(a, T, SI, g) /\ NoForks(T) /\ SameSeqs(Q, T, c)
        /\ Headless(T[c]) /\ T[c].rw = (IF priv THEN w ELSE z)
        /\ T[c].rwf = (IF priv THEN Q[c].pos ELSE Q[c].rwf)
        /\ SameImages(s, a, IF priv THEN {w, z} ELSE {w})
        /\ Immutable(a.img[w]) /\ a.img[w].dev = s.img[w].dev
        /\ a.img[w].host = None /\ a.img[w].from = None
        /\ a.img[w].pins = 0 /\ a.img[w].refs = Uses(priv, x)
        /\ priv /\ z # None => Unnamed(s.img[z], a.img[z])
    BY <1>1 DEF Parked
  <1>3. /\ w \in Images /\ z # w /\ z \in Images \cup {None} /\ g[s.img[w].dev] = Q[c].pos
    <2>1. w \in Images /\ z # w
      BY WriterFacts
    <2>2. z \in Images \cup {None}
      BY SeqTypes, SMTT(40) DEF SeqRecord
    <2> QED BY <2>1, <2>2, SMTT(40) DEF Writer
  <1>4. SameImages(a, f, {w, k})
    BY <1>2, <1>3, BothUnnamed
  <1>5. a.img[k].role = "Free"
    <2>1. CASE s.img[k].role = "Free"
      <3>1. z # None => Immutable(s.img[z])
        BY SeqTypes DEF SeqOK
      <3>2. k # None
        BY StoreAssumption
      <3>3. k # z
        BY <2>1, <3>1, <3>2, SMTT(40) DEF Immutable
      <3> QED BY <2>1, <3>3, <1>2 DEF SameImages
    <2>2. CASE priv /\ k = z /\ s.img[k].refs = 1
      <3>1. k # None
        BY StoreAssumption
      <3> QED BY <2>2, <3>1, <1>2 DEF Unnamed, NewObject
    <2> QED BY <2>1, <2>2
  <1>6. Looks(a.img[w], f.img[w])
    BY <1>2 DEF Looks, Immutable
  <1>7. SameSeqs(T, R, c) /\ R[c].rw = T[c].rw /\ R[c].rwf = T[c].rwf
    BY <1>2 DEF Taken, SameSeqs
  <1>8. Forker(f, g, R[c])
    BY <1>3 DEF Forker, Taken
  <1>9. Keeper(R, SI, c)
    <2>1. CASE priv
      BY <2>1 DEF Keeper, Taken
    <2>2. CASE x # None
      BY <2>2 DEF Keeper, Named
    <2> QED BY <2>1, <2>2
  <1>10. Sound(f) /\ R[c].write = k
    BY SMTT(40) DEF Taken
  <1> QED BY <1>2, <1>3, <1>4, <1>5, <1>6, <1>7, <1>8, <1>9, <1>10, AddFork

\* a lane continues in an image that took its slot, and its old image is on the Host
TakenBySplit(s, Q, R, SH, SI, g, c, w, k, priv, x, f, t) ==
    /\ Consistent(s, Q, SH, g) /\ NoForks(Q) /\ c \in Conts /\ w = Q[c].write /\ k \in Images
    /\ w # k /\ Writer(s, g, Q[c]) /\ Typed(Q, SI, g) /\ Typed(R, SI, g) /\ priv \in BOOLEAN
    /\ (priv \/ x # None) /\ Named(SH, SI, x, w, Q[c].pos)
    /\ Taken(s, f, Q, R, c, w, k, priv) /\ Differs(s, f, w, k, Q[c].rw, priv)
    /\ s.img[k].role = "Free" /\ R[c].read = k /\ ~R[c].fork
    /\ t \in HostSlots /\ g[t] = g[s.img[w].dev]
    /\ Immutable(f.img[w]) /\ f.img[w].dev = None /\ f.img[w].host = t
    /\ f.img[w].from = None /\ f.img[w].refs = Uses(priv, x) /\ ~f.img[w].pinned
    /\ f.img[w].pdev = None /\ f.img[w].phost = None
    /\ f.img[k].role = "ActiveMutable" /\ f.img[k].from = None /\ f.img[k].dev = s.img[w].dev
    /\ f.img[k].refs = 0 /\ f.img[k].host = None /\ f.img[k].pdev = None /\ f.img[k].phost = None
    /\ f.img[k].pins = 0 /\ ~f.img[k].pinned

(* The state after a Host-snapshot capture publishes is consistent: the    *)
(* checkpoint is on the Host and the lane writes the image that took over  *)
(* its slot.                                                               *)
LEMMA CaptureSplit ==
    ASSUME NEW s, NEW Q, NEW R, NEW SH, NEW SI, NEW g, NEW c, NEW w, NEW k, NEW priv, NEW x, NEW f, NEW t,
           TakenBySplit(s, Q, R, SH, SI, g, c, w, k, priv, x, f, t)
    PROVE  Consistent(f, R, SI, g)
  <1>e. /\ Consistent(s, Q, SH, g) /\ NoForks(Q) /\ c \in Conts /\ w = Q[c].write /\ k \in Images
        /\ w # k /\ Writer(s, g, Q[c]) /\ Typed(Q, SI, g) /\ Typed(R, SI, g) /\ priv \in BOOLEAN
        /\ (priv \/ x # None) /\ Named(SH, SI, x, w, Q[c].pos)
        /\ Taken(s, f, Q, R, c, w, k, priv) /\ Differs(s, f, w, k, Q[c].rw, priv)
        /\ s.img[k].role = "Free" /\ R[c].read = k /\ ~R[c].fork
        /\ t \in HostSlots /\ g[t] = g[s.img[w].dev]
        /\ Immutable(f.img[w]) /\ f.img[w].dev = None /\ f.img[w].host = t
        /\ f.img[w].from = None /\ f.img[w].refs = Uses(priv, x) /\ ~f.img[w].pinned
        /\ f.img[w].pdev = None /\ f.img[w].phost = None
        /\ f.img[k].role = "ActiveMutable" /\ f.img[k].from = None /\ f.img[k].dev = s.img[w].dev
        /\ f.img[k].refs = 0 /\ f.img[k].host = None /\ f.img[k].pdev = None /\ f.img[k].phost = None
        /\ f.img[k].pins = 0 /\ ~f.img[k].pinned
    BY DEF TakenBySplit
  <1> USE <1>e
  <1> DEFINE z == Q[c].rw
             e == TryRelease(f, k)
  <1>1. PICK a, T : Parked(s, Q, SI, g, c, priv, x, a, T)
    BY LaneParked
  <1>2. /\ Consistent(a, T, SI, g) /\ NoForks(T) /\ SameSeqs(Q, T, c)
        /\ Headless(T[c]) /\ T[c].rw = (IF priv THEN w ELSE z)
        /\ T[c].rwf = (IF priv THEN Q[c].pos ELSE Q[c].rwf)
        /\ SameImages(s, a, IF priv THEN {w, z} ELSE {w})
        /\ Immutable(a.img[w]) /\ a.img[w].dev = s.img[w].dev
        /\ a.img[w].host = None /\ a.img[w].from = None
        /\ a.img[w].pins = 0 /\ a.img[w].refs = Uses(priv, x)
        /\ priv /\ z # None => Unnamed(s.img[z], a.img[z])
    BY <1>1 DEF Parked
  <1>3. /\ w \in Images /\ z # w /\ z \in Images \cup {None} /\ g[s.img[w].dev] = Q[c].pos
        /\ s.img[w].dev # None
    <2>1. w \in Images /\ z # w /\ s.img[w].dev # None
      BY WriterFacts
    <2>2. z \in Images \cup {None}
      BY SeqTypes DEF SeqRecord
    <2> QED BY <2>1, <2>2, SMTT(40) DEF Writer
  <1>4. SameImages(a, f, {w, k})
    BY <1>2, <1>3, BothUnnamed, ZenonT(40)
  <1>5. CanRelease(f, k) /\ Sound(f)
    BY DEF CanRelease, Quiet, HasPending, Taken
  <1>6. Sound(e) /\ SameImages(f, e, {k}) /\ e.img[k] = NewObject("Free")
    BY <1>5, TryReleaseSpec
  <1> HIDE DEF e
  <1>7. a.img[k] = NewObject("Free")
    <2>1. z # None => Immutable(s.img[z])
      BY SeqTypes DEF SeqOK
    <2>2. k # z
      BY <2>1, StoreAssumption DEF Immutable
    <2>3. a.img[k] = s.img[k]
      BY <2>2, <1>2 DEF SameImages
    <2>4. Shape(s.img[k])
      BY DEF Consistent, Sound, Shapes
    <2> QED BY <2>3, <2>4 DEF Shape
  <1>8. SameImages(a, e, {w}) /\ e.img[w] = f.img[w]
    BY <1>3, <1>4, <1>6, <1>7, SMTT(40) DEF SameImages
  <1>9. \A n \in Nat : Holds(a, g, w, n) => Holds(e, g, w, n)
    BY <1>2, <1>3, <1>8 DEF Holds
  <1>10. Immutable(e.img[w])
    BY <1>8, SMTT(40)
  <1>11. Consistent(e, T, SI, g)
    BY <1>2, <1>3, <1>6, <1>8, <1>9, <1>10, ReplicaChange, SMTT(40)
  <1>12. SameSeqs(T, R, c) /\ R[c].rw = T[c].rw /\ R[c].rwf = T[c].rwf
    BY <1>2 DEF Taken, SameSeqs
  <1>13. Writer(f, g, R[c])
    BY <1>3 DEF Writer, Taken
  <1>14. SameImages(e, f, {k}) /\ e.img[k].role = "Free"
    BY <1>6 DEF SameImages, NewObject
  <1> QED BY <1>2, <1>5, <1>11, <1>12, <1>13, <1>14, AddLane

\* the checkpoint the sequence of a capture names so far
LEMMA OldCheckpoint ==
    ASSUME NEW s, NEW Q, NEW SH, NEW g, Consistent(s, Q, SH, g), NoForks(Q), NEW c \in Conts,
           Q[c].rw # None
    PROVE  /\ Q[c].rw \in Images /\ CanReleaseReference(s, Q[c].rw) /\ Quiet(s.img[Q[c].rw])
           /\ Immutable(s.img[Q[c].rw]) /\ s.img[Q[c].rw].from = None
  <1>1. Q[c].rw \in Images /\ Immutable(s.img[Q[c].rw])
    BY SeqTypes DEF SeqRecord, SeqOK
  <1>2. ImageOK(s, Q, SH, Q[c].rw)
    BY <1>1 DEF Consistent
  <1>3. NamedByRewrite(Q, Q[c].rw) = 1 /\ NamedByPrefix(SH, Q[c].rw) \in {0, 1}
    BY DEF NamedByRewrite, NamedByPrefix
  <1>4. s.img[Q[c].rw].refs # 0
    BY <1>2, <1>3 DEF ImageOK
  <1> QED BY <1>1, <1>4, AllQuiet DEF CanReleaseReference

\* a capture of lane c by the image w, with the destination k, is being published
Publishing(s, Q, R, SH, SI, g, c, w, k, priv, x) ==
    /\ Consistent(s, Q, SH, g) /\ NoForks(Q) /\ c \in Conts /\ Writer(s, g, Q[c]) /\ w = Q[c].write
    /\ k \in Images /\ w # k /\ Typed(Q, SI, g) /\ Typed(R, SI, g)
    /\ priv \in BOOLEAN /\ (priv \/ x # None) /\ Named(SH, SI, x, w, Q[c].pos)
    /\ SameSeqs(Q, R, c) /\ R[c].role = "Active" /\ ~R[c].valid
    /\ R[c].own = "Primary" /\ R[c].stage # "done" /\ R[c].pos = Q[c].pos
    /\ R[c].rw = (IF priv THEN w ELSE Q[c].rw)
    /\ R[c].rwf = (IF priv THEN Q[c].pos ELSE Q[c].rwf)
    /\ R[c].write = k

\* a snapshot, or a fork, of the lane is about to be published
SnapshotEnds(s, Q, R, SH, SI, g, c, w, k, priv, x, t, m, z, f) ==
    /\ Publishing(s, Q, R, SH, SI, g, c, w, k, priv, x)
    /\ s.img[k].role = "Free" /\ R[c].read = k /\ ~R[c].fork
    /\ t \in HostSlots /\ g[t] = g[s.img[w].dev]
    /\ Snapshot(s, m, w, k, t) /\ Divided(s, z, w, k, t)
    /\ f = Kept(z, w, Q[c].rw, priv, x, priv)

(* A Device-fork capture is about to publish store f.                      *)
BranchEnds(s, Q, R, SH, SI, g, c, w, k, priv, x, recycle, b, m, drop, f) ==
    /\ Publishing(s, Q, R, SH, SI, g, c, w, k, priv, x)
    /\ recycle \in BOOLEAN
    /\ IF recycle THEN priv /\ k = Q[c].rw /\ s.img[k].refs = 1 ELSE s.img[k].role = "Free"
    /\ R[c].read = w /\ R[c].fork /\ Ready(s, b, k) /\ Branch(b, m, w, k)
    /\ drop \in BOOLEAN /\ (drop <=> (priv /\ ~recycle))
    /\ f = Kept(m, w, Q[c].rw, priv, x, drop)

\* the capture's store is consistent and gives no Host slot away
Ended(m, f, R, SI, g) == Consistent(f, R, SI, g) /\ m.freeHost \subseteq f.freeHost

(* What a Host-snapshot capture publishes is consistent.                   *)
LEMMA SnapshotEnded ==
    ASSUME NEW s, NEW Q, NEW R, NEW SH, NEW SI, NEW g, NEW c, NEW w, NEW k, NEW priv, NEW x,
           NEW t, NEW m, NEW z, NEW f,
           SnapshotEnds(s, Q, R, SH, SI, g, c, w, k, priv, x, t, m, z, f)
    PROVE  Ended(m, f, R, SI, g)
  <1>e. /\ Publishing(s, Q, R, SH, SI, g, c, w, k, priv, x)
        /\ s.img[k].role = "Free" /\ R[c].read = k /\ ~R[c].fork
        /\ t \in HostSlots /\ g[t] = g[s.img[w].dev]
        /\ Snapshot(s, m, w, k, t) /\ Divided(s, z, w, k, t)
        /\ f = Kept(z, w, Q[c].rw, priv, x, priv)
    BY DEF SnapshotEnds
  <1> USE <1>e
  <1> DEFINE v == Q[c].rw
  <1>0. /\ Consistent(s, Q, SH, g) /\ NoForks(Q) /\ c \in Conts /\ Writer(s, g, Q[c]) /\ w = Q[c].write
        /\ k \in Images /\ w # k /\ Typed(Q, SI, g) /\ Typed(R, SI, g)
        /\ priv \in BOOLEAN /\ (priv \/ x # None) /\ Named(SH, SI, x, w, Q[c].pos)
    BY SMTT(40) DEF Publishing
  <1> USE <1>0
  <1>1. w \in Images /\ s.img[w].dev # None /\ v # w
    BY WriterFacts
  <1>2. v \in Images \cup {None}
    BY SeqTypes, SMTT(40) DEF SeqRecord
  <1>3. /\ Sound(z) /\ SameImages(s, z, {w, k})
        /\ Immutable(z.img[w]) /\ z.img[w].dev = None /\ z.img[w].host = t
        /\ z.img[w].refs = 0 /\ z.img[w].pins = 0 /\ z.img[w].from = None
        /\ z.img[w].pdev = None /\ z.img[w].phost = None /\ ~z.img[w].pinned
        /\ z.img[k].role = "ActiveMutable" /\ z.img[k].dev = s.img[w].dev /\ z.img[k].host = None
        /\ z.img[k].refs = 0 /\ z.img[k].pins = 0 /\ z.img[k].from = None
        /\ z.img[k].pdev = None /\ z.img[k].phost = None /\ ~z.img[k].pinned
        /\ z.freeHost = s.freeHost \ {t}
    BY DEF Divided
  <1>4. v # None => /\ CanReleaseReference(s, v) /\ Quiet(s.img[v]) /\ Immutable(s.img[v])
    BY OldCheckpoint
  <1>5. v # k
    BY <1>4, StoreAssumption DEF Immutable
  <1>6. v # None => z.img[v] = s.img[v]
    BY <1>1, <1>2, <1>3, <1>5 DEF SameImages
  <1>7. priv /\ v # None => v # w /\ CanReleaseReference(z, v) /\ (z.img[v].refs = 1 => Quiet(z.img[v]))
    BY <1>1, <1>4, <1>6, SMTT(40) DEF CanReleaseReference
  <1>8. /\ Sound(f) /\ SameImages(z, f, {w} \cup (IF priv THEN {v} ELSE {}))
        /\ Referred(z.img[w], f.img[w], Uses(priv, x))
        /\ priv /\ v # None => Unnamed(z.img[v], f.img[v])
        /\ z.freeHost \subseteq f.freeHost
    <2>1. KeptOK(z, f, w, v, priv, x, priv)
      BY <1>1, <1>2, <1>3, <1>7, KeptSpec, SMTT(40)
    <2> QED BY <2>1 DEF KeptOK
  <1>9. f.img[k] = z.img[k]
    BY <1>5, <1>8, SMTT(40) DEF SameImages
  <1>10. Differs(s, f, w, k, v, priv)
    BY <1>3, <1>6, <1>8 DEF Differs, SameImages
  <1>11. Uses(priv, x) \in Nat
    BY SMTT(40) DEF Uses
  <1>12. /\ Immutable(f.img[w]) /\ f.img[w].dev = None /\ f.img[w].host = t
         /\ f.img[w].from = None /\ f.img[w].refs = Uses(priv, x) /\ ~f.img[w].pinned
         /\ f.img[w].pdev = None /\ f.img[w].phost = None
    BY <1>3, <1>8, <1>11 DEF Referred, Immutable
  <1>13. Taken(s, f, Q, R, c, w, k, priv)
    BY <1>8, SMTT(40) DEF Taken, Publishing
  <1>14. m.freeHost \subseteq f.freeHost
    BY <1>3, <1>8, SMTT(40) DEF Snapshot
  <1>15. Consistent(f, R, SI, g)
    <2>1. /\ f.img[k].role = "ActiveMutable" /\ f.img[k].from = None /\ f.img[k].dev = s.img[w].dev
          /\ f.img[k].refs = 0 /\ f.img[k].host = None /\ f.img[k].pdev = None /\ f.img[k].phost = None
          /\ f.img[k].pins = 0 /\ ~f.img[k].pinned
      BY <1>3, <1>9, SMTT(40)
    <2>2. TakenBySplit(s, Q, R, SH, SI, g, c, w, k, priv, x, f, t)
      BY <1>10, <1>12, <1>13, <2>1, ZenonT(40) DEF TakenBySplit
    <2> QED BY <2>2, CaptureSplit, Zenon
  <1> QED BY <1>14, <1>15 DEF Ended

(* What a Device-fork capture publishes is consistent.                     *)
LEMMA BranchEnded ==
    ASSUME NEW s, NEW Q, NEW R, NEW SH, NEW SI, NEW g, NEW c, NEW w, NEW k, NEW priv, NEW x,
           NEW recycle, NEW b, NEW m, NEW drop, NEW f,
           BranchEnds(s, Q, R, SH, SI, g, c, w, k, priv, x, recycle, b, m, drop, f)
    PROVE  Ended(m, f, R, SI, g)
  <1>e. /\ Publishing(s, Q, R, SH, SI, g, c, w, k, priv, x)
        /\ recycle \in BOOLEAN
        /\ IF recycle THEN priv /\ k = Q[c].rw /\ s.img[k].refs = 1 ELSE s.img[k].role = "Free"
        /\ R[c].read = w /\ R[c].fork /\ Ready(s, b, k) /\ Branch(b, m, w, k)
        /\ drop \in BOOLEAN /\ (drop <=> (priv /\ ~recycle))
        /\ f = Kept(m, w, Q[c].rw, priv, x, drop)
    BY DEF BranchEnds
  <1>14. s.img[k].role = "Free" \/ (priv /\ k = Q[c].rw /\ s.img[k].refs = 1)
    <2>1. CASE recycle   BY <2>1, <1>e, Zenon
    <2>2. CASE ~recycle  BY <2>2, <1>e, Zenon
    <2> QED BY <2>1, <2>2
  <1> USE <1>e
  <1> DEFINE v == Q[c].rw
  <1>0. /\ Consistent(s, Q, SH, g) /\ NoForks(Q) /\ c \in Conts /\ Writer(s, g, Q[c]) /\ w = Q[c].write
        /\ k \in Images /\ w # k /\ Typed(Q, SI, g) /\ Typed(R, SI, g)
        /\ priv \in BOOLEAN /\ (priv \/ x # None) /\ Named(SH, SI, x, w, Q[c].pos)
    BY DEF Publishing
  <1> USE <1>0
  <1>1. w \in Images /\ v # w
    BY WriterFacts
  <1>2. v \in Images \cup {None}
    BY SeqTypes DEF SeqRecord
  <1>3. v # None => /\ CanReleaseReference(s, v) /\ Quiet(s.img[v]) /\ Immutable(s.img[v])
    BY OldCheckpoint
  <1>4. ~recycle => v # k
    BY <1>3, StoreAssumption DEF Immutable
  <1>5. /\ Sound(m) /\ SameImages(s, m, {w, k})
        /\ m.img[w].role = "CheckpointImmutable" /\ m.img[w].dev = s.img[w].dev
        /\ m.img[w].host = None /\ m.img[w].pdev = None /\ m.img[w].phost = None
        /\ m.img[w].refs = 0 /\ m.img[w].pins = 1 /\ m.img[w].from = None /\ ~m.img[w].pinned
        /\ m.img[k].role = "ActiveMutable" /\ m.img[k].dev = b.img[k].dev /\ m.img[k].host = None
        /\ m.img[k].pdev = None /\ m.img[k].phost = None /\ m.img[k].refs = 0 /\ m.img[k].pins = 0
        /\ m.img[k].from = w
    BY <1>1 DEF Ready, Branch, SameImages
  <1>6. drop /\ v # None => m.img[v] = s.img[v]
    BY <1>1, <1>2, <1>4, <1>5 DEF SameImages
  <1>7. drop /\ v # None => v # w /\ CanReleaseReference(m, v) /\ (m.img[v].refs = 1 => Quiet(m.img[v]))
    BY <1>1, <1>3, <1>6 DEF CanReleaseReference
  <1>8a. drop \in BOOLEAN /\ Immutable(m.img[w])
    BY <1>5 DEF Immutable
  <1>8. /\ Sound(f) /\ SameImages(m, f, {w} \cup (IF drop THEN {v} ELSE {}))
        /\ Referred(m.img[w], f.img[w], Uses(priv, x))
        /\ drop /\ v # None => Unnamed(m.img[v], f.img[v])
        /\ m.freeHost \subseteq f.freeHost
    <2>1. KeptOK(m, f, w, v, priv, x, drop)
      BY <1>1, <1>2, <1>5, <1>7, <1>8a, KeptSpec
    <2> QED BY <2>1 DEF KeptOK
  <1>9. f.img[k] = m.img[k]
    <2>1. drop => k # v
      BY <1>4
    <2> QED BY <2>1, <1>8 DEF SameImages
  <1>10. Differs(s, f, w, k, v, priv)
    <2>1. SameImages(s, f, {w, k} \cup (IF priv THEN {v} ELSE {}))
      BY <1>5, <1>8 DEF SameImages
    <2>2. priv /\ v # None /\ v # k => Unnamed(s.img[v], f.img[v])
      <3>1. priv /\ v # k => drop
        OBVIOUS
      <3> QED BY <3>1, <1>6, <1>8
    <2> QED BY <2>1, <2>2, SMTT(40) DEF Differs
  <1>11. Uses(priv, x) \in Nat
    BY SMTT(40) DEF Uses
  <1>12. /\ Immutable(f.img[w]) /\ f.img[w].dev = s.img[w].dev /\ f.img[w].host = None
         /\ f.img[w].from = None /\ f.img[w].refs = Uses(priv, x) /\ ~f.img[w].pinned
         /\ f.img[w].pdev = None /\ f.img[w].phost = None
    BY <1>5, <1>8, <1>11 DEF Referred, Immutable
  <1>13. Taken(s, f, Q, R, c, w, k, priv)
    BY <1>8, SMTT(40) DEF Taken, Publishing
  <1>15. Consistent(f, R, SI, g)
    <2>1. /\ f.img[k].role = "ActiveMutable" /\ f.img[k].from = w
          /\ f.img[k].refs = 0 /\ f.img[k].host = None /\ f.img[k].pdev = None /\ f.img[k].phost = None
      BY <1>5, <1>9, SMTT(40)
    <2>2. TakenByFork(s, Q, R, SH, SI, g, c, w, k, priv, x, f)
      BY <1>10, <1>12, <1>13, <1>14, <2>1, ZenonT(40) DEF TakenByFork
    <2> QED BY <2>2, CaptureForked, ZenonT(40)
  <1> QED BY <1>8, <1>15 DEF Ended

\* active counts the lanes that borrow a prefix
Borrows(Q, SH) ==
    \A x \in SharedSlots :
        /\ SH[x].active = Cardinality({c \in Conts : Q[c].role = "Active" /\ x \in Q[c].refs})
        /\ SH[x].role # "Catalogued" => SH[x].active = 0

(* The copies the copy engine may have in flight.                          *)
Copies == [from : Slots, to : Slots]

(* Every copy in flight writes a slot of S.                                *)
FlightTo(S) == \A i \in DOMAIN flight : flight[i].to \in S

\* the copy a transaction waits for is the last one submitted, or it has landed
Awaited(from, to) ==
    IF flight = <<>> THEN held[to] = held[from]
                     ELSE flight[Len(flight)] = [from |-> from, to |-> to]

(* The pressure steps a plan may carry.                                    *)
PressureRecord == [op : {"none", "evict", "dropEndpoint", "dropRewrite", "dropHost", "dropDevice", "demote"},
                   who : Conts \cup SharedSlots \cup {None}, img : Images \cup {None}]

\* a pressure option of an idle owner
PressureOK(s, v) ==
    /\ v \in PressureRecord
    /\ v.op # "none" =>
         /\ v.who # None /\ v.img # None
         /\ IdleOwner(v.who) /\ v.img \in OwnerImages(v.who) /\ Placed(s, v.img)
         /\ v.op = "dropEndpoint" => v.who \in Conts /\ v.img = seq[v.who].read
         /\ v.op = "dropRewrite" => v.who \in Conts /\ v.img = seq[v.who].rw
         /\ v.op \in {"dropHost", "dropDevice"} => CanDropReplica(s, v.img)
         /\ v.op = "demote" => s.img[v.img].dev # None /\ s.img[v.img].host = None /\ s.freeHost # {}

(* The start transactions.                                                 *)
StartRecord ==
    [kind : {"start"}, phase : {"reserved", "pressing", "ready", "source", "restoring"},
     dest : Conts, mode : {"Root", "Retain", "Consume"},
     path : {"root", "endpoint", "rewrite", "shared"},
     source : Conts \cup SharedSlots \cup {None}, preserve : BOOLEAN,
     pressure : PressureRecord, base : Nat, fork : BOOLEAN, image : Images \cup {None},
     restore : BOOLEAN]

(* A start transaction still fits the catalogue it was planned against:    *)
(* its source is there at the planned frontier, its destination is         *)
(* reserved, and its pressure step does not touch the source.              *)
Planned(t) ==
    /\ t \in StartRecord
    /\ (t.mode = "Root") = (t.path = "root")
    /\ (t.source = None) = (t.path = "root")
    /\ t.path = "endpoint" => /\ t.source \in Conts /\ seq[t.source].role = "Catalogued"
                              /\ seq[t.source].valid /\ t.base = seq[t.source].pos
    /\ t.path = "rewrite" => /\ t.source \in Conts /\ seq[t.source].role = "Catalogued"
                             /\ seq[t.source].rw # None /\ t.base = seq[t.source].rwf
    /\ t.path = "shared" => /\ t.mode = "Retain" /\ t.source \in SharedSlots
                            /\ shared[t.source].role = "Catalogued" /\ t.base = shared[t.source].f
    /\ t.path = "root" => t.base = 0
    /\ IF t.mode = "Consume" THEN t.dest = t.source
       ELSE /\ t.dest # t.source
            /\ \/ seq[t.dest].role = "Reserved"
               \/ t.phase = "reserved" /\ t.pressure.op = "evict" /\ t.pressure.who = t.dest
    /\ t.preserve => t.mode = "Consume" /\ seq[t.source].rw # None
    /\ t.path # "root" => t.pressure.who # t.source

(* The store once the source has been prepared for the lane.               *)
Consumed(s, t) == IF t.mode = "Consume" THEN ConsumedStore(s, t) ELSE s

\* the plan fits the store s, before and after the source is prepared
Feasible(s, t) == Fits(s, t) /\ (t.fork <=> RequiresFork(s, t))

(* The admission promise of a start: once its source is prepared, the      *)
(* resources it needs are there, and whether it forks is as planned.       *)
Promised(s, t) == (\E z \in {Consumed(s, t)} : Fits(z, t)) /\ (t.fork <=> RequiresFork(s, t))

(* Phase reserved: the pressure step is legal, and the promise holds once  *)
(* it is done.                                                             *)
StartReserved(s, t) ==
    /\ PressureOK(s, t.pressure) /\ Promised(PressedStore(s, t.pressure), t)
    /\ store = s /\ FlightTo(s.freeHost)

\* a pressure copy is in flight over the store s
Demoting(s, v) ==
    /\ PressureOK(s, v) /\ v.op = "demote"
    /\ store = PressStore(s, v) /\ FlightTo(s.freeHost)
    /\ Awaited(s.img[v.img].dev, NextHost(s))

(* Phase pressing: a demotion is in flight, and the promise holds once it  *)
(* is published.                                                           *)
StartPressing(s, t) == Demoting(s, t.pressure) /\ Promised(PressedStore(s, t.pressure), t)

(* Phase ready: the promise holds.                                         *)
StartReady(s, t) == Promised(s, t) /\ store = s /\ FlightTo(s.freeHost)

(* Phase source: the source is prepared and the resources are there.       *)
StartSource(s, t) == Feasible(s, t) /\ store = s /\ FlightTo(s.freeHost)

(* Phase restoring: the source is being copied to the Device, and the      *)
(* store is what prepare made of s.                                        *)
StartRestoring(s, t) ==
    /\ Feasible(s, t) /\ Restores(s, t) /\ t.restore
    /\ t.image = (IF NeedsImage(t) THEN NextImage(s) ELSE None)
    /\ store = PreparedStore(s, t)
    /\ FlightTo(s.freeHost \cup {NextDev(s)})
    /\ Awaited(s.img[Selected(t)].host, NextDev(s))

(* What each phase of a start transaction knows.                           *)
StartPhase(s, t) ==
    /\ Planned(t)
    /\ t.phase = "reserved" => StartReserved(s, t)
    /\ t.phase = "pressing" => StartPressing(s, t)
    /\ t.phase = "ready" => StartReady(s, t)
    /\ t.phase = "source" => StartSource(s, t)
    /\ t.phase = "restoring" => StartRestoring(s, t)

(* The capture transactions.                                               *)
CaptureRecord ==
    [kind : {"capture"}, phase : {"reserved", "pressing", "ready", "copying"},
     lane : Conts, priv : BOOLEAN, prefix : SharedSlots \cup {None}, repl : BOOLEAN,
     removed : BOOLEAN, place : {"DeviceFork", "HostSnapshot"}, recycle : BOOLEAN,
     pressure : PressureRecord, source : Images \cup {None}, dest : Images \cup {None}]

(* A capture transaction still fits the lane it captures and the shared    *)
(* slot it reserved.                                                       *)
Offered(t, Q) ==
    /\ t \in CaptureRecord
    /\ t.priv \/ t.prefix # None
    /\ t.prefix = None => ~t.repl
    /\ t.prefix # None =>
         shared[t.prefix].role = IF t.repl /\ ~t.removed THEN "ReservedReplacement" ELSE "ReservedCapture"
    /\ t.removed = (t.phase = "copying" /\ t.repl)
    /\ t.phase # "copying" => t.source = None /\ t.dest = None
    /\ Q[t.lane].role = "Active" /\ Q[t.lane].stage \in {"prefill", "decode"}
    /\ t.recycle => t.priv /\ Q[t.lane].rw # None
    /\ t.prefix # None => t.pressure.who # t.prefix
    /\ t.recycle => t.place = "DeviceFork"

\* the store when the capture has begun, k its destination
CaptureStore(s, w, k, t) ==
    LET s1 == CASE t.place = "HostSnapshot" -> ReserveLogicalDestination(s, k)
                [] t.place = "DeviceFork" /\ t.recycle -> Recycle(s, k)
                [] t.place = "DeviceFork" /\ ~t.recycle -> ReserveDestination(s, k, NextDev(s))
        s2 == Freeze(s1, w)
    IN IF t.place = "HostSnapshot" THEN BeginDeviceToHost(s2, w, NextHost(s2))
                                            ELSE BeginFork(s2, w, k)

\* the destination a capture of lane c may take
Destination(s, Q, c, t, k) ==
    /\ t.place \in {"DeviceFork", "HostSnapshot"} /\ t.recycle \in BOOLEAN
    /\ t.recycle => t.place = "DeviceFork" /\ Q[c].rw # None /\ CanRecycle(s, Q[c].rw)
    /\ k = (IF t.recycle THEN Q[c].rw ELSE NextImage(s))
    /\ ~t.recycle => FreeImages(s) # {}
    /\ ~t.recycle => (IF t.place = "HostSnapshot" THEN s.freeHost # {} ELSE s.freeDev # {})

\* the lane's record once a capture has begun
Branched(q, t) == IF t.place = "HostSnapshot" THEN q
                  ELSE [q EXCEPT !.read = q.write, !.write = t.dest, !.fork = TRUE]

(* A capture that recycles the old rewrite checkpoint still may.           *)
Recyclable(s, t) == t.recycle => CanRecycle(s, seq[t.lane].rw)

(* Phase reserved: the pressure step is legal, and the capture fits once   *)
(* it is done.                                                             *)
CaptureReserved(s, t) ==
    /\ PressureOK(s, t.pressure) /\ Recyclable(s, t)
    /\ CaptureFits(PressedStore(s, t.pressure), t)
    /\ store = s /\ FlightTo(s.freeHost)

(* Phase pressing: a demotion is in flight, and the capture fits once it   *)
(* is published.                                                           *)
CapturePressing(s, t) ==
    /\ Demoting(s, t.pressure) /\ Recyclable(s, t)
    /\ CaptureFits(PressedStore(s, t.pressure), t)

(* Phase ready: the capture fits.                                          *)
CaptureReady(s, t) ==
    CaptureFits(s, t) /\ Recyclable(s, t) /\ store = s /\ FlightTo(s.freeHost)

(* Phase copying: store and lane are what prepare_capture() made of s and  *)
(* Q.                                                                      *)
CaptureCopying(s, Q, t) ==
    /\ t.source = Q[t.lane].write /\ Destination(s, Q, t.lane, t, t.dest)
    /\ store = CaptureStore(s, t.source, t.dest, t)
    /\ FlightTo(s.freeHost)
    /\ t.place = "HostSnapshot" => Awaited(s.img[t.source].dev, NextHost(s))
    /\ seq = [Q EXCEPT ![t.lane] = Branched(Q[t.lane], t)]

(* What each phase of a capture transaction knows.                         *)
CapturePhase(s, Q, t) ==
    /\ Offered(t, Q)
    /\ t.phase # "copying" => Q = seq
    /\ t.phase = "reserved" => CaptureReserved(s, t)
    /\ t.phase = "pressing" => CapturePressing(s, t)
    /\ t.phase = "ready" => CaptureReady(s, t)
    /\ t.phase = "copying" => CaptureCopying(s, Q, t)

(* Only the open capture has a shared slot reserved.                       *)
Reserved(t) == \A x \in SharedSlots :
    shared[x].role \in {"ReservedCapture", "ReservedReplacement"} => t.kind = "capture" /\ t.prefix = x

(* The state is that of an open transaction over a consistent store s and  *)
(* catalogue Q: those the program would be back in if the transaction      *)
(* aborted.                                                                *)
Opened(s, Q) ==
    /\ Consistent(s, Q, shared, held)
    /\ txn.kind \in {"none", "start", "capture"}
    /\ txn.kind = "none" => store = s /\ seq = Q /\ txn = NoTxn /\ FlightTo(s.freeHost)
    /\ txn.kind = "start" => seq = Q /\ NoForks(Q) /\ StartPhase(s, txn)
    /\ txn.kind = "capture" => NoForks(Q) /\ CapturePhase(s, Q, txn)

(* The invariant while the program runs.                                   *)
Live ==
    /\ flight \in Seq(Copies) /\ Borrows(seq, shared) /\ Reserved(txn)
    /\ \E s, Q : Opened(s, Q)

(* The state stop() leaves.                                                *)
Over ==
    /\ fault = "stopped" /\ store = EmptyStore /\ seq = [c \in Conts |-> FreeSeq]
    /\ shared = [x \in SharedSlots |-> EmptyPrefix] /\ txn = NoTxn /\ flight = <<>>
    /\ held = [d \in Slots |-> Junk]

(* The inductive invariant of ContextState.                                *)
CInv == Over \/ (fault \in {"none", "abort", "reserve"} /\ Live)

(* The least element of a set of naturals is in it.                        *)
LEMMA LeastOf ==
    ASSUME NEW S, S \subseteq Nat, S # {}
    PROVE  Least(S) \in S
  <1>1. \E n \in S : \A m \in S : n <= m
    BY LeastNatural
  <1> QED BY <1>1 DEF Least

(* The next image and slots are free when any are.                         *)
LEMMA NextTaken ==
    ASSUME NEW s, Sound(s)
    PROVE  /\ FreeImages(s) # {} => NextImage(s) \in Images /\ s.img[NextImage(s)].role = "Free"
           /\ s.freeDev # {} => NextDev(s) \in s.freeDev /\ NextDev(s) \in DevSlots
           /\ s.freeHost # {} => NextHost(s) \in s.freeHost /\ NextHost(s) \in HostSlots
  <1>1. s.freeDev \subseteq DevSlots /\ s.freeHost \subseteq HostSlots
    BY DEF Sound, Store
  <1>2. FreeImages(s) # {} => NextImage(s) \in FreeImages(s)
    BY LeastOf, ContextAssumption DEF NextImage, FreeImages
  <1>3. s.freeDev # {} => NextDev(s) \in s.freeDev
    BY <1>1, LeastOf, ContextAssumption DEF NextDev
  <1>4. s.freeHost # {} => NextHost(s) \in s.freeHost
    BY <1>1, LeastOf, ContextAssumption DEF NextHost
  <1>5. FreeImages(s) # {} => NextImage(s) \in Images /\ s.img[NextImage(s)].role = "Free"
    BY <1>2 DEF FreeImages
  <1> QED BY <1>1, <1>3, <1>4, <1>5

\* the contents once the slots that m has free are given back
Wiped(m, g) == [d \in Slots |-> IF d \in m.freeDev \cup m.freeHost THEN Junk ELSE g[d]]

(* The slots a step frees lose their contents.                             *)
LEMMA ContentsAre ==
    ASSUME NEW g
    PROVE  Contents(g) = Wiped(store', g)
  BY DEF Contents, Wiped

\* a slot an image occupies is not free
LEMMA Occupied ==
    ASSUME NEW s, Sound(s), NEW h \in Images
    PROVE  /\ s.img[h].dev # None => s.img[h].dev \in DevSlots \ s.freeDev
           /\ s.img[h].host # None => s.img[h].host \in HostSlots \ s.freeHost
           /\ \A k \in Images : s.img[h].dev # None /\ k # h => s.img[k].dev # s.img[h].dev
  <1>1. s.img[h] \in Image /\ \A k \in Images : s.img[k] \in Image
    BY DEF Sound, Store
  <1>2. /\ DeviceHeld(s.img[h]) \cap s.freeDev = {} /\ HostHeld(s.img[h]) \cap s.freeHost = {}
        /\ \A k \in Images \ {h} : DeviceHeld(s.img[h]) \cap DeviceHeld(s.img[k]) = {}
    BY DEF Sound, Partitioned
  <1>3. s.img[h].dev # None => s.img[h].dev \in DevSlots /\ s.img[h].dev \in DeviceHeld(s.img[h])
    BY <1>1 DEF DeviceHeld, Image
  <1>4. s.img[h].host # None => s.img[h].host \in HostSlots /\ s.img[h].host \in HostHeld(s.img[h])
    BY <1>1 DEF HostHeld, Image
  <1>5. \A k \in Images : s.img[k].dev # None => s.img[k].dev \in DeviceHeld(s.img[k])
    BY <1>1 DEF DeviceHeld, Image
  <1> QED BY <1>2, <1>3, <1>4, <1>5

(* Wiping keeps the type of the slot contents.                             *)
LEMMA WipedTyped ==
    ASSUME NEW m, NEW g \in [Slots -> Nat]
    PROVE  Wiped(m, g) \in [Slots -> Nat]
  BY ContextAssumption DEF Wiped, Junk

(* Contents that agree on the slots in use are as good.                    *)
LEMMA RestateContents ==
    ASSUME NEW s, NEW Q, NEW SH, NEW g, NEW f \in [Slots -> Nat], Consistent(s, Q, SH, g),
           SameContents(s, g, f)
    PROVE  Consistent(s, Q, SH, f)
  <1>1. \A d \in Conts : SameBinding(Q[d], Q[d])
    <2>1. SUFFICES ASSUME NEW d \in Conts PROVE SameBinding(Q[d], Q[d])
      OBVIOUS
    <2>2. Q[d].fork => Q[d].stage # "done"
      BY SeqTypes DEF Forker
    <2> QED BY <2>2 DEF SameBinding
  <1>2. \A x \in SharedSlots : SamePrefix(SH[x], SH[x])
    BY DEF SamePrefix
  <1>3. Typed(Q, SH, f)
    BY DEF Consistent, Typed
  <1> QED BY <1>1, <1>2, <1>3, Restate

(* Wiping the free slots keeps a state consistent.                         *)
LEMMA WipedConsistent ==
    ASSUME NEW s, NEW Q, NEW SH, NEW g, NEW m, Consistent(s, Q, SH, g),
           m.freeDev \subseteq s.freeDev, m.freeHost \subseteq s.freeHost
    PROVE  Consistent(s, Q, SH, Wiped(m, g))
  <1>1. g \in [Slots -> Nat] /\ Sound(s)
    BY DEF Consistent, Typed
  <1>2. Wiped(m, g) \in [Slots -> Nat]
    BY <1>1, WipedTyped
  <1>3. SameContents(s, g, Wiped(m, g))
    <2>1. SUFFICES ASSUME NEW h \in Images
                   PROVE  /\ s.img[h].dev # None => Wiped(m, g)[s.img[h].dev] = g[s.img[h].dev]
                          /\ s.img[h].host # None => Wiped(m, g)[s.img[h].host] = g[s.img[h].host]
      BY DEF SameContents
    <2>2. \A d \in DevSlots : d \notin s.freeDev => Wiped(m, g)[d] = g[d]
      <3>1. m.freeHost \subseteq HostSlots
        BY <1>1 DEF Sound, Store
      <3> QED BY <3>1, ContextAssumption DEF Wiped, Slots
    <2>3. \A d \in HostSlots : d \notin s.freeHost => Wiped(m, g)[d] = g[d]
      <3>1. m.freeDev \subseteq DevSlots
        BY <1>1 DEF Sound, Store
      <3> QED BY <3>1, ContextAssumption DEF Wiped, Slots
    <2> QED BY <1>1, <2>2, <2>3, Occupied
  <1> QED BY <1>1, <1>2, <1>3, RestateContents

(* What the role of a sequence says about its binding.                     *)
LEMMA SeqCases ==
    ASSUME NEW s, NEW Q, NEW SH, NEW g, Consistent(s, Q, SH, g), NEW c \in Conts
    PROVE  /\ Q[c] \in SeqRecord
           /\ Headless(Q[c]) \/ Endpoint(s, g, Q[c]) \/ Writer(s, g, Q[c]) \/ Forker(s, g, Q[c])
           /\ Q[c].valid => Endpoint(s, g, Q[c])
           /\ Q[c].role = "Active" => Writer(s, g, Q[c]) \/ Forker(s, g, Q[c])
           /\ Q[c].role = "Active" /\ ~Q[c].fork => Writer(s, g, Q[c])
           /\ Q[c].fork => Forker(s, g, Q[c])
           /\ Q[c].role = "Catalogued" /\ ~Q[c].valid => Headless(Q[c])
           /\ Q[c].role = "Catalogued" /\ Q[c].read # None => Endpoint(s, g, Q[c])
           /\ Q[c].role \in {"Free", "Reserved"} => Headless(Q[c]) /\ Q[c].rw = None
           /\ Q[c].rw # None => Q[c].rw \in Images /\ Immutable(s.img[Q[c].rw]) /\ Holds(s, g, Q[c].rw, Q[c].rwf)
  <1>1. Q[c] \in SeqRecord /\ SeqOK(s, g, Q[c])
    BY SeqTypes
  <1>2. /\ Headless(Q[c]) \/ Endpoint(s, g, Q[c]) \/ Writer(s, g, Q[c]) \/ Forker(s, g, Q[c])
        /\ Q[c].rw # None => Immutable(s.img[Q[c].rw]) /\ Holds(s, g, Q[c].rw, Q[c].rwf)
    BY <1>1 DEF SeqOK
  <1>3. Q[c].rw # None => Q[c].rw \in Images
    BY <1>1 DEF SeqRecord
  <1>4. CASE Headless(Q[c])
    BY <1>1, <1>2, <1>3, <1>4 DEF Headless
  <1>5. CASE Endpoint(s, g, Q[c])
    BY <1>1, <1>2, <1>3, <1>5 DEF Endpoint
  <1>6. CASE Writer(s, g, Q[c])
    BY <1>1, <1>2, <1>3, <1>6 DEF Writer
  <1>7. CASE Forker(s, g, Q[c])
    BY <1>1, <1>2, <1>3, <1>7 DEF Forker
  <1> QED BY <1>2, <1>4, <1>5, <1>6, <1>7

(* What the role of a shared slot says about its image.                    *)
LEMMA PrefixCases ==
    ASSUME NEW s, NEW Q, NEW SH, NEW g, Consistent(s, Q, SH, g), NEW x \in SharedSlots
    PROVE  /\ SH[x] \in PrefixRecord
           /\ SH[x].role \in {"Catalogued", "ReservedReplacement"} =>
                SH[x].img \in Images /\ Immutable(s.img[SH[x].img]) /\ Holds(s, g, SH[x].img, SH[x].f)
           /\ SH[x].role \in {"Free", "ReservedCapture"} => SH[x].img = None
           /\ SH[x].img # None => SH[x].role \in {"Catalogued", "ReservedReplacement"}
  <1>1. SH[x] \in PrefixRecord /\ PrefixOK(s, g, SH[x])
    BY DEF Consistent, Typed
  <1> QED BY <1>1 DEF PrefixOK, PrefixRecord

(* The checkpoint a start selected is immutable and holds the planned      *)
(* frontier.                                                               *)
LEMMA SelectedOK ==
    ASSUME NEW s, NEW t, Consistent(s, seq, shared, held), Planned(t), t.path # "root"
    PROVE  /\ Selected(t) \in Images /\ Immutable(s.img[Selected(t)])
           /\ Holds(s, held, Selected(t), t.base)
  <1>1. t.path \in {"endpoint", "rewrite", "shared"}
    BY DEF Planned, StartRecord
  <1>2. CASE t.path = "endpoint"
    <2>1. t.source \in Conts /\ seq[t.source].valid /\ t.base = seq[t.source].pos
      BY <1>2 DEF Planned
    <2>2. Endpoint(s, held, seq[t.source])
      BY <2>1, SeqCases
    <2> QED BY <1>2, <2>1, <2>2 DEF Endpoint, Selected
  <1>3. CASE t.path = "rewrite"
    <2>1. t.source \in Conts /\ seq[t.source].rw # None /\ t.base = seq[t.source].rwf
      BY <1>3 DEF Planned
    <2> QED BY <1>3, <2>1, SeqCases DEF Selected
  <1>4. CASE t.path = "shared"
    <2>1. t.source \in SharedSlots /\ shared[t.source].role = "Catalogued" /\ t.base = shared[t.source].f
      BY <1>4 DEF Planned
    <2> QED BY <1>4, <2>1, PrefixCases DEF Selected
  <1> QED BY <1>1, <1>2, <1>3, <1>4

(* A demotion that began is a pending copy that an abort undoes.           *)
LEMMA PressingBegun ==
    ASSUME NEW s, NEW Q, NEW SH, NEW g, NEW v, Consistent(s, Q, SH, g), NoForks(Q),
           PressureOK(s, v), v.op = "demote"
    PROVE  /\ v.img \in Images /\ NextHost(s) \in s.freeHost /\ NextHost(s) \in HostSlots
           /\ Immutable(s.img[v.img]) /\ s.img[v.img].dev # None /\ s.img[v.img].host = None
           /\ Copying(s, PressStore(s, v), v.img, NextHost(s))
           /\ AbortDeviceToHost(PressStore(s, v), v.img) = s
  <1>1. /\ v.img \in Images /\ Placed(s, v.img) /\ s.img[v.img].dev # None /\ s.img[v.img].host = None
        /\ s.freeHost # {}
    BY DEF PressureOK, PressureRecord
  <1>2. NextHost(s) \in s.freeHost /\ NextHost(s) \in HostSlots
    BY <1>1, NextTaken DEF Consistent
  <1>3. Immutable(s.img[v.img])
    BY <1>1 DEF Placed
  <1>4. PressStore(s, v) = BeginDeviceToHost(s, v.img, NextHost(s))
    BY DEF PressStore
  <1>5. Copying(s, BeginDeviceToHost(s, v.img, NextHost(s)), v.img, NextHost(s))
    BY <1>1, <1>2, <1>3, DemotionBegins
  <1>6. AbortDeviceToHost(BeginDeviceToHost(s, v.img, NextHost(s)), v.img) = s
    BY <1>1, <1>2, <1>3, DemotionAborts
  <1> QED BY <1>1, <1>2, <1>3, <1>4, <1>5, <1>6

(* A restore that began, into the source or into a new image, is a pending *)
(* copy that an abort undoes.                                              *)
LEMMA RestoringBegun ==
    ASSUME NEW s, NEW Q, NEW SH, NEW g, NEW t, NEW h, h = Selected(t), Consistent(s, Q, SH, g),
           NoForks(Q), h \in Images, Immutable(s.img[h]),
           Restores(s, t), Fits(s, t)
    PROVE  /\ NextDev(s) \in s.freeDev /\ NextDev(s) \in DevSlots
           /\ s.img[h].host # None /\ s.img[h].dev = None
           /\ NeedsImage(t) =>
                /\ NextImage(s) \in Images /\ s.img[NextImage(s)].role = "Free" /\ h # NextImage(s)
                /\ PreparedStore(s, t) =
                     BeginHostFork(ReserveLogicalDestination(s, NextImage(s)), h, NextImage(s), NextDev(s))
                /\ Cloning(s, PreparedStore(s, t), h, NextImage(s), NextDev(s))
                /\ TryRelease(AbortHostFork(PreparedStore(s, t), h, NextImage(s)), NextImage(s)) = s
           /\ ~NeedsImage(t) =>
                /\ PreparedStore(s, t) = BeginHostToDevice(s, h, NextDev(s))
                /\ Fetching(s, PreparedStore(s, t), h, NextDev(s))
                /\ AbortHostToDevice(PreparedStore(s, t), h) = s
  <1>1. /\ t.path # "root" /\ s.img[h].host # None /\ s.img[h].dev = None /\ Sound(s)
    BY DEF Restores, HostOnly, Consistent
  <1>2. ~Splits(s, t)
    BY <1>1 DEF Splits, CanDropReplica
  <1>3. NextDev(s) \in s.freeDev /\ NextDev(s) \in DevSlots
    BY <1>1, <1>2, NextTaken DEF Fits, NeedsDevice
  <1>4. ASSUME NeedsImage(t)
        PROVE  /\ NextImage(s) \in Images /\ s.img[NextImage(s)].role = "Free" /\ h # NextImage(s)
               /\ PreparedStore(s, t) =
                     BeginHostFork(ReserveLogicalDestination(s, NextImage(s)), h, NextImage(s), NextDev(s))
               /\ Cloning(s, PreparedStore(s, t), h, NextImage(s), NextDev(s))
               /\ TryRelease(AbortHostFork(PreparedStore(s, t), h, NextImage(s)), NextImage(s)) = s
    <2>1. NextImage(s) \in Images /\ s.img[NextImage(s)].role = "Free" /\ h # NextImage(s)
      <3>1. FreeImages(s) # {}
        BY <1>4 DEF Fits
      <3>2. NextImage(s) \in Images /\ s.img[NextImage(s)].role = "Free"
        BY <1>1, <3>1, NextTaken
      <3> QED BY <3>2 DEF Immutable
    <2>2. PreparedStore(s, t) = BeginHostFork(ReserveLogicalDestination(s, NextImage(s)), h, NextImage(s), NextDev(s))
      BY <1>1, <1>2, <1>4, Zenon DEF PreparedStore
    <2>3. /\ Cloning(s, PreparedStore(s, t), h, NextImage(s), NextDev(s))
          /\ TryRelease(AbortHostFork(PreparedStore(s, t), h, NextImage(s)), NextImage(s)) = s
      <3> DEFINE b == BeginHostFork(ReserveLogicalDestination(s, NextImage(s)), h, NextImage(s), NextDev(s))
      <3>1. Cloning(s, b, h, NextImage(s), NextDev(s))
        BY <1>1, <1>3, <2>1, CloneBegins
      <3> HIDE DEF b
      <3>2. TryRelease(AbortHostFork(b, h, NextImage(s)), NextImage(s)) = s
        <4>1. Quiet(s.img[h]) /\ s.img[h].from = None
          BY AllQuiet
        <4> QED BY <1>1, <1>3, <2>1, <3>1, <4>1, CloneEnds
      <3>3. PreparedStore(s, t) = b
        BY <2>2 DEF b
      <3> QED BY <3>1, <3>2, <3>3
    <2> QED BY <2>1, <2>2, <2>3
  <1>5. ASSUME ~NeedsImage(t)
        PROVE  /\ PreparedStore(s, t) = BeginHostToDevice(s, h, NextDev(s))
               /\ Fetching(s, PreparedStore(s, t), h, NextDev(s))
               /\ AbortHostToDevice(PreparedStore(s, t), h) = s
    <2>1. PreparedStore(s, t) = BeginHostToDevice(s, h, NextDev(s))
      BY <1>1, <1>2, <1>5, Zenon DEF PreparedStore
    <2>2. Fetching(s, BeginHostToDevice(s, h, NextDev(s)), h, NextDev(s))
      BY <1>1, <1>3, RestoreBegins
    <2>3. AbortHostToDevice(BeginHostToDevice(s, h, NextDev(s)), h) = s
      BY <1>1, <1>3, RestoreAborts
    <2> QED BY <2>1, <2>2, <2>3
  <1> QED BY <1>1, <1>3, <1>4, <1>5

(* The destination of a capture is a free image, or the rewrite checkpoint *)
(* it recycles.                                                            *)
LEMMA DestinationFacts ==
    ASSUME NEW s, NEW Q, NEW SH, NEW g, Consistent(s, Q, SH, g), NoForks(Q), NEW c \in Conts,
           Writer(s, g, Q[c]), NEW t, NEW k, Destination(s, Q, c, t, k)
    PROVE  /\ k \in Images /\ k # Q[c].write
           /\ t.recycle => CanRecycle(s, k) /\ s.img[k].from = None /\ s.img[k].refs = 1
           /\ ~t.recycle => s.img[k].role = "Free"
           /\ t.place = "HostSnapshot" => ~t.recycle /\ NextHost(s) \in s.freeHost /\ NextHost(s) \in HostSlots
           /\ t.place = "DeviceFork" /\ ~t.recycle => NextDev(s) \in s.freeDev
  <1>1. Sound(s) /\ Q[c].write \in Images /\ s.img[Q[c].write].role = "ActiveMutable"
    BY WriterFacts DEF Consistent
  <1>2. t.place \in {"DeviceFork", "HostSnapshot"} /\ t.recycle \in BOOLEAN
    BY DEF Destination
  <1>3. CASE t.recycle
    <2>1. Q[c].rw # None /\ CanRecycle(s, Q[c].rw) /\ k = Q[c].rw /\ t.place = "DeviceFork"
      BY <1>3 DEF Destination
    <2>2. k \in Images
      BY <2>1, SeqTypes DEF SeqRecord
    <2>3. s.img[k].from = None
      BY <2>2, AllQuiet
    <2>4. k # Q[c].write
      BY <2>1, WriterFacts
    <2>5. s.img[k].refs = 1
      BY <2>1 DEF CanRecycle
    <2> QED BY <1>3, <2>1, <2>2, <2>3, <2>4, <2>5
  <1>4. CASE ~t.recycle
    <2>1. FreeImages(s) # {} /\ (IF t.place = "HostSnapshot" THEN s.freeHost # {} ELSE s.freeDev # {})
      BY <1>4 DEF Destination
    <2>2. k = NextImage(s)
      BY <1>4 DEF Destination
    <2>3. k \in Images /\ s.img[k].role = "Free"
      BY <1>1, <2>1, <2>2, NextTaken
    <2>4. t.place = "HostSnapshot" => NextHost(s) \in s.freeHost /\ NextHost(s) \in HostSlots
      BY <1>1, <2>1, NextTaken
    <2>5. t.place = "DeviceFork" => NextDev(s) \in s.freeDev
      BY <1>1, <2>1, NextTaken
    <2> QED BY <1>1, <1>4, <2>3, <2>4, <2>5
  <1> QED BY <1>3, <1>4, <1>2

\* the store in which the destination is reserved
Reserving(s, k, t) ==
    IF t.place = "HostSnapshot" THEN ReserveLogicalDestination(s, k)
    ELSE IF t.recycle THEN Recycle(s, k) ELSE ReserveDestination(s, k, NextDev(s))

(* The two ways to place a capture.                                        *)
LEMMA CaptureStoreIs ==
    ASSUME NEW s, NEW w, NEW k, NEW t, t.place \in {"DeviceFork", "HostSnapshot"}
    PROVE  CaptureStore(s, w, k, t) =
             IF t.place = "HostSnapshot"
             THEN BeginDeviceToHost(Freeze(Reserving(s, k, t), w), w, NextHost(Freeze(Reserving(s, k, t), w)))
             ELSE BeginFork(Freeze(Reserving(s, k, t), w), w, k)
  <1>1. Reserving(s, k, t) = CASE t.place = "HostSnapshot" -> ReserveLogicalDestination(s, k)
                               [] t.place = "DeviceFork" /\ t.recycle -> Recycle(s, k)
                               [] t.place = "DeviceFork" /\ ~t.recycle -> ReserveDestination(s, k, NextDev(s))
    BY DEF Reserving
  <1> QED BY <1>1, Zenon DEF CaptureStore

(* A prepared Host snapshot is a pending copy that an abort undoes.        *)
LEMMA SnapshotBegun ==
    ASSUME NEW s, NEW Q, NEW SH, NEW g, Consistent(s, Q, SH, g), NoForks(Q), NEW c \in Conts,
           Writer(s, g, Q[c]), NEW t, NEW k, Destination(s, Q, c, t, k), t.place = "HostSnapshot",
           NEW w, w = Q[c].write
    PROVE  /\ Snapshot(s, CaptureStore(s, w, k, t), w, k, NextHost(s))
           /\ CanFreeze(Reserving(s, k, t), w)
           /\ Thaw(TryRelease(AbortDeviceToHost(CaptureStore(s, w, k, t), w), k), w) = s
  <1>1. /\ k \in Images /\ k # w /\ s.img[k].role = "Free" /\ NextHost(s) \in s.freeHost /\ NextHost(s) \in HostSlots
    BY DestinationFacts
  <1>2. /\ Sound(s) /\ w \in Images /\ CanFreeze(s, w) /\ s.img[w].refs = 0 /\ s.img[w].host = None
        /\ s.img[w].from = None
    BY WriterFacts DEF Consistent
  <1>3. /\ Snapshot(s, SnapshotStore(s, w, k, NextHost(s)), w, k, NextHost(s))
        /\ CanFreeze(ReserveLogicalDestination(s, k), w)
    BY <1>1, <1>2, SnapshotBegins
  <1>4. Reserving(s, k, t) = ReserveLogicalDestination(s, k)
    BY DEF Reserving
  <1>5. Bare(s, Reserving(s, k, t), k)
    BY <1>1, <1>2, <1>4, BareReserved
  <1>6. Freeze(Reserving(s, k, t), w).freeHost = Reserving(s, k, t).freeHost
    BY <1>2, <1>3, <1>4, <1>5, FreezeBegins DEF Bare
  <1>7. Freeze(Reserving(s, k, t), w).freeHost = s.freeHost
    BY <1>5, <1>6 DEF Bare
  <1>8. NextHost(Freeze(Reserving(s, k, t), w)) = NextHost(s)
    BY <1>7 DEF NextHost
  <1>9. CaptureStore(s, w, k, t) = BeginDeviceToHost(Freeze(Reserving(s, k, t), w), w, NextHost(s))
    BY <1>8, CaptureStoreIs
  <1>10. CaptureStore(s, w, k, t) = SnapshotStore(s, w, k, NextHost(s))
    BY <1>4, <1>9, Zenon DEF SnapshotStore
  <1>11. Snapshot(s, CaptureStore(s, w, k, t), w, k, NextHost(s))
    BY <1>3, <1>10
  <1>12. Thaw(TryRelease(AbortDeviceToHost(CaptureStore(s, w, k, t), w), k), w) = s
    BY <1>1, <1>2, <1>11, SnapshotAborts
  <1> QED BY <1>3, <1>4, <1>11, <1>12

(* A prepared Device fork is a fork that an abort undoes.                  *)
LEMMA BranchBegun ==
    ASSUME NEW s, NEW Q, NEW SH, NEW g, Consistent(s, Q, SH, g), NoForks(Q), NEW c \in Conts,
           Writer(s, g, Q[c]), NEW t, NEW k, Destination(s, Q, c, t, k), t.place = "DeviceFork",
           NEW w, w = Q[c].write
    PROVE  /\ Ready(s, Reserving(s, k, t), k) /\ CanFreeze(Reserving(s, k, t), w)
           /\ Branch(Reserving(s, k, t), CaptureStore(s, w, k, t), w, k)
           /\ t.recycle => Thaw(RestoreRecycled(AbortFork(CaptureStore(s, w, k, t), w, k), k), w) = s
           /\ ~t.recycle => Thaw(TryRelease(AbortFork(CaptureStore(s, w, k, t), w, k), k), w) = s
  <1>1. /\ k \in Images /\ k # w
        /\ t.recycle => CanRecycle(s, k) /\ s.img[k].from = None
        /\ ~t.recycle => s.img[k].role = "Free" /\ NextDev(s) \in s.freeDev
    BY DestinationFacts
  <1>2. /\ Sound(s) /\ w \in Images /\ CanFreeze(s, w) /\ s.img[w].refs = 0 /\ s.img[w].host = None
        /\ s.img[w].from = None
    BY WriterFacts DEF Consistent
  <1>3. Reserving(s, k, t) = IF t.recycle THEN Recycle(s, k) ELSE ReserveDestination(s, k, NextDev(s))
    BY DEF Reserving
  <1>4. Ready(s, Reserving(s, k, t), k)
    <2>1. CASE t.recycle
      <3>1. Ready(s, Recycle(s, k), k)
        BY <1>1, <1>2, <2>1, ReadyRecycled
      <3> QED BY <1>3, <2>1, <3>1
    <2>2. CASE ~t.recycle
      <3>1. Ready(s, ReserveDestination(s, k, NextDev(s)), k)
        BY <1>1, <1>2, <2>2, ReadyReserved
      <3> QED BY <1>3, <2>2, <3>1
    <2> QED BY <2>1, <2>2
  <1>5. CaptureStore(s, w, k, t) = BeginFork(Freeze(Reserving(s, k, t), w), w, k)
    BY CaptureStoreIs
  <1> DEFINE b == Reserving(s, k, t)
  <1>6. Branch(b, BeginFork(Freeze(b, w), w, k), w, k) /\ CanFreeze(b, w)
    BY <1>1, <1>2, <1>4, BranchBegins
  <1>7. Branch(b, CaptureStore(s, w, k, t), w, k)
    BY <1>5, <1>6
  <1> DEFINE m == CaptureStore(s, w, k, t)
  <1> HIDE DEF m
  <1>8. t.recycle => Thaw(RestoreRecycled(AbortFork(m, w, k), k), w) = s
    <2>1. SUFFICES ASSUME t.recycle PROVE Thaw(RestoreRecycled(AbortFork(m, w, k), k), w) = s
      OBVIOUS
    <2>2. Branch(Recycle(s, k), m, w, k)
      BY <1>3, <1>7, <2>1 DEF m
    <2> QED BY <1>1, <1>2, <2>1, <2>2, BranchRestored
  <1>9. ~t.recycle => Thaw(TryRelease(AbortFork(m, w, k), k), w) = s
    <2>1. SUFFICES ASSUME ~t.recycle PROVE Thaw(TryRelease(AbortFork(m, w, k), k), w) = s
      OBVIOUS
    <2>2. Branch(b, m, w, k)
      BY <1>7 DEF m
    <2> HIDE DEF b
    <2>3. Ready(s, b, k)
      BY <1>4 DEF b
    <2> QED BY <1>1, <1>2, <2>1, <2>2, <2>3, BranchReleased
  <1> QED BY <1>4, <1>6, <1>7, <1>8, <1>9 DEF m

\* what the lane's record becomes
PublishedAs(q, t, p) ==
    /\ p \in SeqRecord /\ p.role = q.role /\ p.stage = q.stage /\ p.pos = q.pos
    /\ p.own = "Primary" /\ ~p.valid /\ p.write = t.dest
    /\ p.read = (IF t.place = "HostSnapshot" THEN t.dest ELSE t.source)
    /\ p.fork <=> t.place # "HostSnapshot"
    /\ p.rw = (IF t.priv THEN t.source ELSE q.rw)
    /\ p.rwf = (IF t.priv THEN q.pos ELSE q.rwf)
    /\ p.refs = (IF t.prefix = None THEN q.refs ELSE q.refs \cup {t.prefix})

(* The binding of a lane after its capture publishes.                      *)
LEMMA PublishedFields ==
    ASSUME NEW q \in SeqRecord, NEW t, t.place \in {"DeviceFork", "HostSnapshot"}, t.priv \in BOOLEAN,
           t.prefix # None => t.prefix \in SharedSlots, t.dest \in Images, t.source \in Images,
           t.source = q.write, q.own = "Primary", ~q.fork, ~q.valid
    PROVE  PublishedAs(q, t, PublishedSeq(Branched(q, t), t))
  <1> DEFINE p == PublishedSeq(Branched(q, t), t)
  <1>1. Branched(q, t) \in SeqRecord
    BY ZenonT(40) DEF Branched, SeqRecord
  <1> DEFINE b == Branched(q, t)
  <1>2. /\ b.role = q.role /\ b.stage = q.stage /\ b.pos = q.pos /\ b.own = "Primary" /\ b.valid = q.valid
        /\ b.rw = q.rw /\ b.rwf = q.rwf /\ b.refs = q.refs
        /\ t.place # "HostSnapshot" => b.read = t.source /\ b.write = t.dest /\ b.fork
    BY DEF Branched, SeqRecord
  <1>2a. b \in SeqRecord
    BY <1>1
  <1> HIDE DEF b
  <1> DEFINE e == IF t.place = "HostSnapshot" THEN Bind(b, t.dest) ELSE b
  <1>3. e \in SeqRecord
    <2>1. Bind(b, t.dest) \in SeqRecord
      BY <1>2a DEF Bind, SeqRecord
    <2> QED BY <1>2a, <2>1
  <1>4. /\ e.role = q.role /\ e.stage = q.stage /\ e.pos = q.pos /\ e.own = "Primary" /\ e.valid = b.valid
        /\ e.rw = q.rw /\ e.rwf = q.rwf /\ e.refs = q.refs /\ e.write = t.dest
        /\ e.read = (IF t.place = "HostSnapshot" THEN t.dest ELSE t.source)
        /\ e.fork <=> t.place # "HostSnapshot"
    <2>1. b \in SeqRecord
      BY <1>1 DEF b
    <2> QED BY <1>2, <2>1 DEF Bind, SeqRecord
  <1> HIDE DEF e
  <1> DEFINE u == IF t.priv THEN [e EXCEPT !.rw = t.source, !.rwf = b.pos] ELSE e
  <1>5. u \in SeqRecord
    <2>1. b.pos \in Nat
      BY <1>2a DEF SeqRecord
    <2>2. [e EXCEPT !.rw = t.source, !.rwf = b.pos] \in SeqRecord
      BY <1>3, <2>1 DEF SeqRecord
    <2> QED BY <1>3, <2>2
  <1>6. /\ u.role = q.role /\ u.stage = q.stage /\ u.pos = q.pos /\ u.own = "Primary" /\ u.valid = e.valid
        /\ u.rw = (IF t.priv THEN t.source ELSE q.rw) /\ u.rwf = (IF t.priv THEN q.pos ELSE q.rwf)
        /\ u.refs = q.refs /\ u.write = t.dest /\ u.read = e.read /\ u.fork = e.fork
    BY <1>2, <1>3, <1>4 DEF SeqRecord
  <1> HIDE DEF u
  <1>7. p = IF t.prefix = None THEN u ELSE [u EXCEPT !.refs = @ \cup {t.prefix}]
    BY Zenon DEF PublishedSeq, u, e, b
  <1> HIDE DEF p
  <1>8. p \in SeqRecord
    BY <1>5, <1>7 DEF SeqRecord
  <1>9. /\ p.role = u.role /\ p.stage = u.stage /\ p.pos = u.pos /\ p.own = u.own /\ p.valid = u.valid
        /\ p.rw = u.rw /\ p.rwf = u.rwf /\ p.write = u.write /\ p.read = u.read /\ p.fork = u.fork
        /\ p.refs = (IF t.prefix = None THEN u.refs ELSE u.refs \cup {t.prefix})
    BY <1>5, <1>7 DEF SeqRecord
  <1>10. p.valid = q.valid
    BY <1>2, <1>4, <1>6, <1>9, Zenon
  <1>11. p.fork <=> t.place # "HostSnapshot"
    BY <1>4, <1>6, <1>9, Zenon
  <1>12. ~p.valid
    BY <1>10, SMTT(40)
  <1> QED BY <1>4, <1>6, <1>8, <1>9, <1>11, <1>12 DEF PublishedAs, p

(* publish_capture() leaves a consistent state.                            *)
LEMMA CapturePublished ==
    ASSUME NEW s, NEW Q, NEW SH, NEW SI, NEW g, Consistent(s, Q, SH, g), NoForks(Q), NEW t,
           NEW c \in Conts, c = t.lane, Writer(s, g, Q[c]), t.source = Q[c].write, Q[c].stage # "done",
           Destination(s, Q, c, t, t.dest), t.priv \in BOOLEAN, t.priv \/ t.prefix # None,
           t.recycle => t.priv, Typed(Q, SI, g), Named(SH, SI, t.prefix, t.source, Q[c].pos),
           seq[c].rw = Q[c].rw,
           t.place = "HostSnapshot" => g[NextHost(s)] = g[s.img[t.source].dev],
           NEW m, m = CaptureStore(s, t.source, t.dest, t)
    PROVE  /\ Consistent(PublishedStore(m, t), [Q EXCEPT ![c] = PublishedSeq(Branched(Q[c], t), t)], SI, g)
           /\ m.freeHost \subseteq PublishedStore(m, t).freeHost
  <1> DEFINE w == t.source
             k == t.dest
             p == PublishedSeq(Branched(Q[c], t), t)
             R == [Q EXCEPT ![c] = p]
             f == PublishedStore(m, t)
  <1>1. /\ k \in Images /\ k # w
        /\ t.recycle => s.img[k].refs = 1
        /\ ~t.recycle => s.img[k].role = "Free"
        /\ t.place = "HostSnapshot" => ~t.recycle /\ NextHost(s) \in s.freeHost /\ NextHost(s) \in HostSlots
    BY DestinationFacts
  <1>2. t.place \in {"DeviceFork", "HostSnapshot"} /\ t.recycle \in BOOLEAN /\ (t.recycle => k = Q[c].rw)
    BY SMTT(40) DEF Destination
  <1>3. w \in Images /\ s.img[w].dev # None
    BY WriterFacts
  <1>4. /\ Q[c] \in SeqRecord /\ Q[c].own = "Primary" /\ ~Q[c].fork /\ ~Q[c].valid /\ Q[c].role = "Active"
    BY SeqTypes DEF Writer
  <1>5. t.prefix # None => t.prefix \in SharedSlots
    BY DEF Named
  <1>6. /\ p \in SeqRecord /\ p.role = Q[c].role /\ p.stage = Q[c].stage /\ p.pos = Q[c].pos
        /\ p.own = "Primary" /\ ~p.valid /\ p.write = t.dest
        /\ p.read = (IF t.place = "HostSnapshot" THEN t.dest ELSE t.source)
        /\ p.fork <=> t.place # "HostSnapshot"
        /\ p.rw = (IF t.priv THEN t.source ELSE Q[c].rw)
        /\ p.rwf = (IF t.priv THEN Q[c].pos ELSE Q[c].rwf)
    <2>1. PublishedAs(Q[c], t, p)
      BY <1>1, <1>2, <1>3, <1>4, <1>5, PublishedFields
    <2> HIDE DEF p
    <2> QED BY <2>1 DEF PublishedAs
  <1> HIDE DEF p
  <1>7. Typed(R, SI, g) /\ R[c] = p /\ SameSeqs(Q, R, c)
    BY <1>6, TypedSeq
  <1> HIDE DEF R, f
  <1>8. Publishing(s, Q, R, SH, SI, g, c, w, k, t.priv, t.prefix)
    BY <1>1, <1>4, <1>6, <1>7 DEF Publishing
  <1>9. CASE t.place = "HostSnapshot"
    <2>0. PICK z : z = SplitIdentity(PublishDeviceToHost(m, w, TRUE), w, k)
      OBVIOUS
    <2>1. Snapshot(s, m, w, k, NextHost(s))
      BY <1>9, SnapshotBegun
    <2>2. Divided(s, z, w, k, NextHost(s))
      BY <1>1, <1>3, <1>9, <2>0, <2>1, SnapshotSplits, Zenon
    <2>3. f = Kept(SplitIdentity(PublishDeviceToHost(m, w, TRUE), w, k),
                   w, seq[t.lane].rw, t.priv, t.prefix, t.priv /\ ~t.recycle)
      BY <1>9, Zenon DEF f, PublishedStore, Kept
    <2>4. (t.priv /\ ~t.recycle) = t.priv
      BY <1>1, <1>9
    <2>5. f = Kept(z, w, Q[c].rw, t.priv, t.prefix, t.priv)
      BY <2>0, <2>3, <2>4, Zenon
    <2>6. R[c].read = k /\ ~R[c].fork
      BY <1>6, <1>7, <1>9, SMTT(40)
    <2>7. SnapshotEnds(s, Q, R, SH, SI, g, c, w, k, t.priv, t.prefix, NextHost(s), m, z, f)
      BY <1>1, <1>8, <1>9, <2>1, <2>2, <2>5, <2>6 DEF SnapshotEnds
    <2>8. Ended(m, f, R, SI, g)
      BY <2>7, SnapshotEnded, Zenon
    <2> QED BY <2>8, Zenon DEF Ended, f, R, p
  <1>10. CASE t.place # "HostSnapshot"
    <2> DEFINE b == Reserving(s, k, t)
    <2>1. Ready(s, b, k) /\ Branch(b, m, w, k)
      BY <1>2, <1>10, BranchBegun
    <2> HIDE DEF b
    <2>2. PICK drop \in BOOLEAN : drop = (t.priv /\ ~t.recycle)
      OBVIOUS
    <2>3. f = Kept(m, w, Q[c].rw, t.priv, t.prefix, drop)
      <3>1. f = Kept(m, w, seq[t.lane].rw, t.priv, t.prefix, t.priv /\ ~t.recycle)
        BY <1>10, Zenon DEF f, PublishedStore, Kept
      <3> QED BY <3>1, <2>2, Zenon
    <2>6. R[c].read = w /\ R[c].fork
      BY <1>6, <1>7, <1>10
    <2>4. IF t.recycle THEN t.priv /\ k = Q[c].rw /\ s.img[k].refs = 1 ELSE s.img[k].role = "Free"
      BY <1>1, <1>2
    <2>7. BranchEnds(s, Q, R, SH, SI, g, c, w, k, t.priv, t.prefix, t.recycle, b, m, drop, f)
      BY <1>2, <1>8, <2>1, <2>2, <2>3, <2>4, <2>6 DEF BranchEnds
    <2>8. Ended(m, f, R, SI, g)
      BY <2>7, BranchEnded, Zenon
    <2> QED BY <2>8, Zenon DEF Ended, f, R, p
  <1> QED BY <1>9, <1>10

\* the step leaves the continuation or the prefix w alone
Unmoved(w) ==
    /\ w \in Conts => seq'[w] = seq[w]
    /\ w \in SharedSlots => shared'[w] = shared[w]

(* A pressure step stays legal, with the same result, as long as its       *)
(* victim does not move.                                                   *)
LEMMA StablePressure ==
    ASSUME NEW s, NEW v, PressureOK(s, v), v.op # "none" => Unmoved(v.who)
    PROVE  /\ PressureOK(s, v)' /\ PressStore(s, v)' = PressStore(s, v)
           /\ PressedStore(s, v)' = PressedStore(s, v)
  <1>1. v.op # "none" => v.who \in Conts \/ v.who \in SharedSlots
    BY DEF PressureOK, PressureRecord
  <1>2. v.op # "none" => IdleOwner(v.who)' = IdleOwner(v.who) /\ OwnerImages(v.who)' = OwnerImages(v.who)
    BY <1>1, ContextAssumption DEF Unmoved, IdleOwner, OwnerImages
  <1>3. PressureOK(s, v)'
    BY <1>1, <1>2 DEF PressureOK, Unmoved
  <1>4. PressStore(s, v)' = PressStore(s, v)
    <2>1. CASE v.op = "none"
      BY <2>1 DEF PressStore
    <2>2. CASE v.op = "evict" /\ v.who \in Conts
      BY <2>2 DEF PressStore, Unmoved
    <2>3. CASE v.op = "evict" /\ v.who \notin Conts
      BY <1>1, <2>3 DEF PressStore, Unmoved, ReleasePrefix
    <2>4. CASE v.op \in {"dropEndpoint", "dropRewrite", "dropHost", "dropDevice", "demote"}
      BY <2>4 DEF PressStore
    <2>5. v.op \in {"none", "evict", "dropEndpoint", "dropRewrite", "dropHost", "dropDevice", "demote"}
      BY DEF PressureOK, PressureRecord
    <2> QED BY <2>1, <2>2, <2>3, <2>4, <2>5
  <1>5. PressedStore(s, v)' = PressedStore(s, v)
    BY <1>4 DEF PressedStore
  <1> QED BY <1>3, <1>4, <1>5

(* The fields of a plan that fix what it selects agree.                    *)
Shaped(t) ==
    /\ t.path \in {"root", "endpoint", "rewrite", "shared"}
    /\ t.path \in {"endpoint", "rewrite"} => t.source \in Conts
    /\ t.path = "shared" => t.source \in SharedSlots /\ t.mode # "Consume"
    /\ t.mode = "Consume" => t.path # "root"

\* a plan whose source nobody touches still says the same
LEMMA ShapedPlan ==
    ASSUME NEW s, NEW t, Shaped(t), t.path # "root" => Unmoved(t.source)
    PROVE  /\ Selected(t)' = Selected(t) /\ Consumed(s, t)' = Consumed(s, t)
           /\ Fits(s, t)' <=> Fits(s, t)
           /\ RequiresFork(s, t)' <=> RequiresFork(s, t)
           /\ Restores(s, t)' <=> Restores(s, t)
           /\ PreparedStore(s, t)' = PreparedStore(s, t)
  <1>1. /\ t.path \in {"root", "endpoint", "rewrite", "shared"}
        /\ t.path \in {"endpoint", "rewrite"} => t.source \in Conts
        /\ t.path = "shared" => t.source \in SharedSlots /\ t.mode # "Consume"
        /\ t.mode = "Consume" => t.path # "root"
    BY DEF Shaped
  <1>2. Selected(t)' = Selected(t)
    BY <1>1 DEF Selected, Unmoved
  <1>3. Consumed(s, t)' = Consumed(s, t)
    BY <1>1 DEF Unmoved, Consumed, ConsumedStore
  <1>4. RequiresFork(s, t)' <=> RequiresFork(s, t)
    BY <1>2 DEF RequiresFork
  <1>5. (Restores(s, t)' <=> Restores(s, t)) /\ (Splits(s, t)' <=> Splits(s, t))
    BY <1>2 DEF Restores, Splits
  <1>6. Fits(s, t)' <=> Fits(s, t)
    BY <1>5 DEF Fits, NeedsDevice
  <1>7. PreparedStore(s, t)' = PreparedStore(s, t)
    BY <1>2, <1>5 DEF PreparedStore
  <1> QED BY <1>2, <1>3, <1>4, <1>5, <1>6, <1>7

(* The promise survives every step that does not move its source.          *)
LEMMA ShapedPromise ==
    ASSUME NEW s, NEW t, Shaped(t), t.path # "root" => Unmoved(t.source)
    PROVE  (Promised(s, t) => Promised(s, t)') /\ (Feasible(s, t) => Feasible(s, t)')
  <1>1. PICK z : z = Consumed(s, t)
    OBVIOUS
  <1>2. /\ Consumed(s, t)' = z /\ (Fits(s, t)' <=> Fits(s, t))
        /\ RequiresFork(s, t)' <=> RequiresFork(s, t)
    BY <1>1, ShapedPlan
  <1>3. Fits(z, t)' <=> Fits(z, t)
    BY ShapedPlan
  <1>4. Promised(s, t) => Promised(s, t)'
    <2>1. SUFFICES ASSUME Promised(s, t) PROVE Promised(s, t)'
      OBVIOUS
    <2>2. Fits(z, t) /\ (t.fork <=> RequiresFork(s, t))
      BY <1>1, <2>1 DEF Promised
    <2>3. Fits(z, t)' /\ z \in {Consumed(s, t)'} /\ (t.fork <=> RequiresFork(s, t)')
      BY <1>2, <1>3, <2>2
    <2>4. \E y \in {Consumed(s, t)'} : Fits(y, t)'
      BY <2>3, Zenon
    <2> QED BY <2>3, <2>4, Zenon DEF Promised
  <1> QED BY <1>2, <1>4 DEF Feasible

(* A planned start is shaped.                                              *)
LEMMA PlannedShape ==
    ASSUME NEW t, Planned(t)
    PROVE  Shaped(t)
  BY DEF Planned, StartRecord, Shaped

(* Nothing a plan computes changes while its source does not move.         *)
LEMMA StablePlan ==
    ASSUME NEW s, NEW t, Planned(t), t.path # "root" => Unmoved(t.source)
    PROVE  /\ Selected(t)' = Selected(t) /\ Consumed(s, t)' = Consumed(s, t)
           /\ Fits(s, t)' <=> Fits(s, t)
           /\ RequiresFork(s, t)' <=> RequiresFork(s, t)
           /\ Restores(s, t)' <=> Restores(s, t)
           /\ PreparedStore(s, t)' = PreparedStore(s, t)
  BY PlannedShape, ShapedPlan

(* The promise of a planned start survives every step that does not move   *)
(* its source.                                                             *)
LEMMA StablePromise ==
    ASSUME NEW s, NEW t, Planned(t), t.path # "root" => Unmoved(t.source)
    PROVE  (Promised(s, t) => Promised(s, t)') /\ (Feasible(s, t) => Feasible(s, t)')
  BY PlannedShape, ShapedPromise

(* A capture that fits still fits when the slot it replaces is unchanged.  *)
LEMMA StableCapture ==
    ASSUME NEW s, NEW t, t.repl => shared'[t.prefix].img = shared[t.prefix].img
    PROVE  CaptureFits(s, t) => CaptureFits(s, t)'
  BY DEF CaptureFits, ReplacedStore, ReleasePrefix

\* what a transaction has begun over the store s: m differs at the image w it has
\* frozen and at the destination k, and has taken free slots
Overlay(s, m, w, k) ==
    /\ Sound(m) /\ m.freeDev \subseteq s.freeDev /\ m.freeHost \subseteq s.freeHost
    /\ \A h \in Images : h # k =>
          /\ m.img[h].dev = s.img[h].dev /\ m.img[h].host = s.img[h].host
          /\ m.img[h].refs = s.img[h].refs /\ (h # w => m.img[h].role = s.img[h].role)

\* the image a transaction has frozen and the destination it has taken
Frozens(t) == IF t.kind = "capture" /\ t.phase = "copying" THEN t.source ELSE None

(* The image an open transaction is filling.                               *)
Taking(t) ==
    IF t.kind = "capture" /\ t.phase = "copying" THEN t.dest
    ELSE IF t.kind = "start" /\ t.phase = "restoring" THEN t.image ELSE None

(* During a demotion the store is s with one copy pending.                 *)
LEMMA DemotingOverlay ==
    ASSUME NEW s, NEW Q, NEW SH, NEW g, NEW v, Consistent(s, Q, SH, g), NoForks(Q), Demoting(s, v)
    PROVE  /\ Overlay(s, store, None, None)
           /\ v.img \in Images /\ NextHost(s) \in s.freeHost \ store.freeHost
           /\ s.img[v.img].dev # None
           /\ AbortDeviceToHost(store, v.img) = s
           /\ store.img[v.img].dev = s.img[v.img].dev /\ store.img[v.img].phost = NextHost(s)
  <1>1. /\ v.img \in Images /\ NextHost(s) \in s.freeHost /\ s.img[v.img].dev # None
        /\ Copying(s, store, v.img, NextHost(s)) /\ AbortDeviceToHost(store, v.img) = s
    BY PressingBegun DEF Demoting
  <1>2. Overlay(s, store, None, None)
    BY <1>1 DEF Overlay, Copying, Looks, SameImages
  <1> QED BY <1>1, <1>2 DEF Copying, Looks

(* During a restore the store is s with one copy pending.                  *)
LEMMA RestoringOverlay ==
    ASSUME NEW s, NEW t, Consistent(s, seq, shared, held), NoForks(seq), Planned(t),
           StartRestoring(s, t)
    PROVE  /\ Overlay(s, store, None, t.image)
           /\ Selected(t) \in Images /\ NextDev(s) \in s.freeDev \ store.freeDev
           /\ s.img[Selected(t)].host # None /\ s.img[Selected(t)].dev = None
           /\ Immutable(s.img[Selected(t)])
           /\ t.image # None => t.image \in Images /\ s.img[t.image].role = "Free"
           /\ TryRelease(UnrestoredStore(store, t), t.image) = s
           /\ store.img[Selected(t)].host = s.img[Selected(t)].host
           /\ store.img[IF t.image = None THEN Selected(t) ELSE t.image].pdev = NextDev(s)
           /\ t.image = None <=> ~NeedsImage(t)
  <1>1. /\ Fits(s, t) /\ Restores(s, t) /\ t.image = (IF NeedsImage(t) THEN NextImage(s) ELSE None)
        /\ store = PreparedStore(s, t)
    BY DEF StartRestoring, Feasible
  <1>2. t.path # "root"
    BY <1>1 DEF Restores
  <1>3. PICK h \in Images : h = Selected(t) /\ Immutable(s.img[h])
    BY <1>2, SelectedOK
  <1>4. /\ NextDev(s) \in s.freeDev /\ NextDev(s) \in DevSlots
        /\ s.img[h].host # None /\ s.img[h].dev = None
        /\ NeedsImage(t) =>
             /\ NextImage(s) \in Images /\ s.img[NextImage(s)].role = "Free" /\ h # NextImage(s)
             /\ Cloning(s, PreparedStore(s, t), h, NextImage(s), NextDev(s))
             /\ TryRelease(AbortHostFork(PreparedStore(s, t), h, NextImage(s)), NextImage(s)) = s
        /\ ~NeedsImage(t) =>
             /\ Fetching(s, PreparedStore(s, t), h, NextDev(s))
             /\ AbortHostToDevice(PreparedStore(s, t), h) = s
    BY <1>1, <1>3, RestoringBegun
  <1>5. CASE NeedsImage(t)
    <2>1. t.image = NextImage(s) /\ t.image # None
      BY <1>1, <1>4, <1>5, StoreAssumption
    <2>2. Cloning(s, store, h, t.image, NextDev(s))
      BY <1>1, <1>4, <1>5, <2>1
    <2>3. Overlay(s, store, None, t.image)
      BY <2>2 DEF Overlay, Cloning, Looks, SameImages
    <2>4. TryRelease(UnrestoredStore(store, t), t.image) = s
      BY <1>1, <1>3, <1>4, <1>5, <2>1 DEF UnrestoredStore
    <2> QED BY <1>3, <1>4, <1>5, <2>1, <2>2, <2>3, <2>4 DEF Cloning, Looks
  <1>6. CASE ~NeedsImage(t)
    <2>1. t.image = None
      BY <1>1, <1>6
    <2>2. Fetching(s, store, h, NextDev(s))
      BY <1>1, <1>4, <1>6
    <2>3. Overlay(s, store, None, t.image)
      BY <2>2 DEF Overlay, Fetching, Looks, SameImages
    <2>4. TryRelease(UnrestoredStore(store, t), t.image) = s
      BY <1>1, <1>3, <1>4, <1>6, <2>1 DEF UnrestoredStore, TryRelease
    <2> QED BY <1>3, <1>4, <1>6, <2>1, <2>2, <2>3, <2>4 DEF Fetching, Looks
  <1> QED BY <1>5, <1>6

(* During a capture the store is s with the lane's image frozen and its    *)
(* successor taken.                                                        *)
LEMMA CopyingOverlay ==
    ASSUME NEW s, NEW Q, NEW t, Consistent(s, Q, shared, held), NoForks(Q), Offered(t, Q),
           CaptureCopying(s, Q, t), t.phase = "copying"
    PROVE  /\ Overlay(s, store, t.source, t.dest)
           /\ t.lane \in Conts /\ Writer(s, held, Q[t.lane])
           /\ t.source \in Images /\ t.dest \in Images /\ t.source # t.dest
           /\ t.recycle => s.img[t.dest].refs = 1 /\ t.dest = Q[t.lane].rw /\ Immutable(s.img[t.dest])
           /\ ~t.recycle => s.img[t.dest].role = "Free"
           /\ store.img[t.dest].refs = 0 /\ store.img[t.dest].role # "Free"
           /\ store.img[t.source].role = "CheckpointImmutable"
           /\ Uncaptured(store, t) = s
           /\ t.place = "HostSnapshot" => /\ NextHost(s) \in s.freeHost \ store.freeHost
                                          /\ store.img[t.source].phost = NextHost(s)
           /\ s.img[t.source].dev # None
  <1> DEFINE c == t.lane
             w == t.source
             k == t.dest
  <1>1. /\ c \in Conts /\ Q[c].role = "Active" /\ t.recycle \in BOOLEAN
        /\ t.place \in {"DeviceFork", "HostSnapshot"} /\ (t.recycle => t.place = "DeviceFork")
    BY DEF Offered, CaptureRecord
  <1>2. /\ w = Q[c].write /\ Destination(s, Q, c, t, k) /\ store = CaptureStore(s, w, k, t)
    BY DEF CaptureCopying
  <1>3. Writer(s, held, Q[c])
    BY <1>1, SeqCases DEF NoForks
  <1>4. w \in Images /\ s.img[w].dev # None /\ s.img[w].host = None /\ s.img[w].refs = 0
    BY <1>1, <1>2, <1>3, WriterFacts
  <1>5. /\ k \in Images /\ k # Q[c].write
        /\ t.recycle => CanRecycle(s, k) /\ s.img[k].from = None /\ s.img[k].refs = 1
        /\ ~t.recycle => s.img[k].role = "Free"
        /\ t.place = "HostSnapshot" => ~t.recycle /\ NextHost(s) \in s.freeHost /\ NextHost(s) \in HostSlots
    BY <1>1, <1>2, <1>3, DestinationFacts
  <1>6. t.recycle => k = Q[c].rw /\ Immutable(s.img[k])
    BY <1>1, <1>2, <1>5, SeqCases, SMTT(40) DEF Destination
  <1>7. CASE t.place = "HostSnapshot"
    <2>1. /\ Snapshot(s, store, w, k, NextHost(s))
          /\ Thaw(TryRelease(AbortDeviceToHost(store, w), k), w) = s
      BY <1>1, <1>2, <1>3, <1>7, SnapshotBegun
    <2>2. Overlay(s, store, w, k)
      BY <1>4, <2>1 DEF Overlay, Snapshot, SameImages
    <2>3. Uncaptured(store, t) = s
      BY <1>5, <1>7, <2>1, SMTT(40) DEF Uncaptured
    <2> QED BY <1>1, <1>2, <1>3, <1>4, <1>5, <1>7, <2>1, <2>2, <2>3, Zenon DEF Snapshot
  <1>8. CASE t.place = "DeviceFork"
    <2> DEFINE b == Reserving(s, k, t)
    <2>1. /\ Ready(s, b, k) /\ Branch(b, store, w, k)
          /\ t.recycle => Thaw(RestoreRecycled(AbortFork(store, w, k), k), w) = s
          /\ ~t.recycle => Thaw(TryRelease(AbortFork(store, w, k), k), w) = s
      BY <1>1, <1>2, <1>3, <1>8, BranchBegun
    <2> HIDE DEF b
    <2>2. Overlay(s, store, w, k)
      <3>1. Sound(store) /\ store.freeDev \subseteq s.freeDev /\ store.freeHost \subseteq s.freeHost
        BY <2>1, SMTT(40) DEF Ready, Branch
      <3>2. b.img[w] = s.img[w] /\ SameImages(s, store, {w, k})
        BY <1>2, <1>4, <1>5, <2>1, Zenon DEF Ready, Branch, SameImages
      <3>3. store.img[w].dev = s.img[w].dev /\ store.img[w].host = None /\ store.img[w].refs = 0
        BY <2>1, <3>2 DEF Branch
      <3> QED BY <1>4, <3>1, <3>2, <3>3 DEF Overlay, SameImages
    <2>3. Uncaptured(store, t) = s
      BY <1>1, <1>8, <2>1 DEF Uncaptured
    <2> QED BY <1>1, <1>2, <1>3, <1>4, <1>5, <1>6, <1>8, <2>1, <2>2, <2>3, Zenon DEF Branch
  <1> QED BY <1>1, <1>7, <1>8

\* p is the lane q writing in place at its own frontier
InPlace(q, p) ==
    /\ p.role = "Active" /\ p.read = q.write /\ p.write = q.write /\ ~p.fork /\ ~p.valid
    /\ p.own = "Primary" /\ p.rw = q.rw /\ p.rwf = q.rwf

\* the contents f and g differ at most at the slot d
SameBut(g, f, d) == \A e \in Slots : e # d => f[e] = g[e]

(* Two images never have one slot.                                         *)
LEMMA SlotOf ==
    ASSUME NEW s, Sound(s), NEW h \in Images, NEW k \in Images
    PROVE  /\ s.img[h].dev # None => s.img[h].dev \in Slots
           /\ s.img[h].host # None => s.img[h].host \in Slots
           /\ s.img[h].dev # None /\ s.img[k].host # None => s.img[k].host # s.img[h].dev
           /\ s.img[h].dev # None /\ k # h => s.img[k].dev # s.img[h].dev
  BY Occupied, ContextAssumption DEF Slots

(* A writable image is on the Device.                                      *)
LEMMA ActiveOnDevice ==
    ASSUME NEW s, NEW Q, NEW SH, NEW g, Consistent(s, Q, SH, g), NEW h \in Images,
           s.img[h].role = "ActiveMutable"
    PROVE  s.img[h].dev # None
  <1>1. Shape(s.img[h]) /\ s.img[h].pdev = None
    BY DEF Consistent, Sound, Shapes, ImageOK
  <1> QED BY <1>1 DEF Shape

(* Settling a fork after the lane wrote its own image leaves a consistent  *)
(* state, and commit_fork() cannot throw.                                  *)
LEMMA ForkSettled ==
    ASSUME NEW s, NEW Q, NEW R, NEW SH, NEW g, NEW f, NEW c \in Conts, Consistent(s, Q, SH, g),
           Q[c].fork, Typed(R, SH, f), SameSeqs(Q, R, c), InPlace(Q[c], R[c]),
           SameBut(g, f, s.img[Q[c].write].dev), f[s.img[Q[c].write].dev] = R[c].pos
    PROVE  /\ Consistent(SettleFork(s, Q[c]), R, SH, f)
           /\ CanCommitFork(s, Q[c].read, Q[c].write)
           /\ SettleFork(s, Q[c]).freeHost = s.freeHost
  <1> DEFINE h == Q[c].read
             k == Q[c].write
             r == CommitFork(s, h, k)
  <1>1. /\ h \in Images /\ k \in Images /\ h # k
        /\ Forked(s, h, k) /\ CanCommitFork(s, h, k)
        /\ s.img[h].pdev = None /\ s.img[h].phost = None /\ ~s.img[h].pinned
        /\ s.img[k].refs = 0 /\ s.img[k].host = None
        /\ s.img[k].pdev = None /\ s.img[k].phost = None
        /\ Q[c].own # "External" => s.img[h].refs # 0
    BY ForkFacts
  <1>2. Sound(s) /\ s \in Store /\ s.img[k] \in Image /\ s.img[h] \in Image
    BY <1>1 DEF Consistent, Sound, Store
  <1>3. s.img[k].role = "ActiveMutable" /\ s.img[k].from # None /\ s.img[k].dev # None
    <2>1. Forker(s, g, Q[c])
      BY SeqTypes
    <2> QED BY <1>1, <2>1, StoreAssumption, ActiveOnDevice DEF Forker
  <1>4. Consistent(s, Q, SH, f)
    <2>1. SameContents(s, g, f)
      <3>1. SUFFICES ASSUME NEW j \in Images
                     PROVE  /\ s.img[j].dev # None /\ s.img[j].from = None => f[s.img[j].dev] = g[s.img[j].dev]
                            /\ s.img[j].host # None => f[s.img[j].host] = g[s.img[j].host]
        BY DEF SameContents
      <3> QED BY <1>1, <1>2, <1>3, SlotOf DEF SameBut
    <2> QED BY <2>1, RestateContents DEF Typed
  <1>5. Sound(r)
    BY <1>1, <1>2, CommitForkKeeps
  <1>6. DidCommit(s, r, h, k)
    BY <1>1, <1>2, CommitDid
  <1>7. SettleFork(s, Q[c]) = r
    <2>1. Q[c].own # "External" => r.img[h].refs # 0
      BY <1>1, <1>6, SMTT(40) DEF DidCommit
    <2> QED BY <2>1, SMTT(40) DEF SettleFork, OwnsRead
  <1> HIDE DEF r
  <1>8. Consistent(r, R, SH, f)
    <2>1. /\ SameImages(s, r, {h, k}) /\ Looks(s.img[h], r.img[h]) /\ r.img[h].refs = s.img[h].refs
          /\ ~r.img[h].pinned /\ r.img[h].pdev = None /\ r.img[h].phost = None
          /\ r.img[k].refs = 0 /\ r.img[k].from = None /\ r.img[k].host = None
          /\ r.img[k].pdev = None /\ r.img[k].phost = None /\ ~r.img[k].pinned
          /\ r.img[k].role = "ActiveMutable" /\ r.img[k].dev = s.img[k].dev
      BY <1>1, <1>3, <1>6, SMTT(40) DEF DidCommit, Looks
    <2>2. Writer(r, f, R[c])
      BY <1>1, <2>1, SMTT(40) DEF Writer, InPlace
    <2> QED BY <1>1, <1>4, <1>5, <2>1, <2>2, EndFork DEF InPlace
  <1>9. r.freeHost = s.freeHost
    BY <1>6, SMTT(40) DEF DidCommit
  <1> QED BY <1>1, <1>7, <1>8, <1>9, SMTT(40)

(* A lane that writes its own image in place leaves a consistent state.    *)
LEMMA LaneAdvanced ==
    ASSUME NEW s, NEW Q, NEW R, NEW SH, NEW g, NEW f, NEW c \in Conts, Consistent(s, Q, SH, g),
           Writer(s, g, Q[c]), Typed(R, SH, f), SameSeqs(Q, R, c), InPlace(Q[c], R[c]),
           SameBut(g, f, s.img[Q[c].write].dev), f[s.img[Q[c].write].dev] = R[c].pos
    PROVE  Consistent(s, R, SH, f)
  <1> DEFINE k == Q[c].write
  <1>1. k \in Images /\ Q[c].read = k /\ Sound(s) /\ s.img[k] \in Image /\ s.img[k].role = "ActiveMutable"
    BY DEF Writer, Consistent, Sound, Store
  <1>2. s.img[k].dev # None
    BY <1>1, ActiveOnDevice
  <1>3. \A h \in Images : /\ s.img[h].dev # None /\ h # Q[c].read => f[s.img[h].dev] = g[s.img[h].dev]
                          /\ s.img[h].host # None => f[s.img[h].host] = g[s.img[h].host]
    BY <1>1, <1>2, SlotOf DEF SameBut
  <1>4. Writer(s, f, R[c])
    BY <1>1 DEF Writer, InPlace
  <1> QED BY <1>1, <1>3, <1>4, Advance DEF InPlace

(* Whatever the open transaction, the store is s with what that            *)
(* transaction added, and cleanup gives s back.                            *)
LEMMA Overlaid ==
    ASSUME NEW s, NEW Q, Opened(s, Q)
    PROVE  /\ Overlay(s, store, Frozens(txn), Taking(txn))
           /\ CleanupTxn(store) = s
           /\ Taking(txn) # None => s.img[Taking(txn)].role = "Free" \/ Immutable(s.img[Taking(txn)])
  <1>1. Consistent(s, Q, shared, held) /\ Sound(s) /\ txn.kind \in {"none", "start", "capture"}
    BY DEF Opened, Consistent
  <1>0. ASSUME store = s, Frozens(txn) = None, Taking(txn) = None
        PROVE  Overlay(s, store, Frozens(txn), Taking(txn))
    BY <1>0, <1>1 DEF Overlay
  <1>2. CASE txn.kind = "none"
    BY <1>0, <1>2 DEF Opened, CleanupTxn, Frozens, Taking
  <1>3. CASE txn.kind = "start"
    <2>1. seq = Q /\ NoForks(Q) /\ StartPhase(s, txn)
      BY <1>3 DEF Opened
    <2>2. Planned(txn) /\ txn.phase \in {"reserved", "pressing", "ready", "source", "restoring"}
      BY <2>1 DEF StartPhase, Planned, StartRecord
    <2>0. CleanupTxn(store) = StagingReleased(store, txn)
      BY <1>3 DEF CleanupTxn
    <2>3. CASE txn.phase \in {"reserved", "ready", "source"}
      <3>1. store = s
        BY <2>1, <2>3 DEF StartPhase, StartReserved, StartReady, StartSource
      <3>2. StagingReleased(store, txn) = store
        BY <2>3 DEF StagingReleased
      <3> QED BY <1>0, <1>3, <2>0, <2>3, <3>1, <3>2 DEF Frozens, Taking
    <2>4. CASE txn.phase = "pressing"
      <3>1. Demoting(s, txn.pressure)
        BY <2>1, <2>4 DEF StartPhase, StartPressing
      <3>2. Overlay(s, store, None, None) /\ AbortDeviceToHost(store, txn.pressure.img) = s
        BY <1>1, <2>1, <3>1, DemotingOverlay
      <3>3. StagingReleased(store, txn) = s
        BY <2>4, <3>2 DEF StagingReleased
      <3> QED BY <1>3, <2>0, <2>4, <3>2, <3>3 DEF Frozens, Taking
    <2>5. CASE txn.phase = "restoring"
      <3>1. StartRestoring(s, txn)
        BY <2>1, <2>5 DEF StartPhase
      <3>2. /\ Overlay(s, store, None, txn.image)
            /\ txn.image # None => txn.image \in Images /\ s.img[txn.image].role = "Free"
            /\ TryRelease(UnrestoredStore(store, txn), txn.image) = s
        BY <1>1, <2>1, <2>2, <3>1, RestoringOverlay
      <3>3. StagingReleased(store, txn) = s
        BY <2>5, <3>2 DEF StagingReleased
      <3> QED BY <1>3, <2>0, <2>5, <3>2, <3>3 DEF Frozens, Taking
    <2> QED BY <2>2, <2>3, <2>4, <2>5
  <1>4. CASE txn.kind = "capture"
    <2>1. NoForks(Q) /\ CapturePhase(s, Q, txn)
      BY <1>4 DEF Opened
    <2>2. Offered(txn, Q) /\ txn.phase \in {"reserved", "pressing", "ready", "copying"}
      BY <2>1 DEF CapturePhase, Offered, CaptureRecord
    <2>3. CASE txn.phase \in {"reserved", "ready"}
      <3>1. store = s
        BY <2>1, <2>3 DEF CapturePhase, CaptureReserved, CaptureReady
      <3>2. CleanupTxn(store) = store
        BY <1>4, <2>3 DEF CleanupTxn, Uncaptured
      <3> QED BY <1>0, <1>4, <2>3, <3>1, <3>2 DEF Frozens, Taking
    <2>4. CASE txn.phase = "pressing"
      <3>1. Demoting(s, txn.pressure)
        BY <2>1, <2>4 DEF CapturePhase, CapturePressing
      <3>2. Overlay(s, store, None, None) /\ AbortDeviceToHost(store, txn.pressure.img) = s
        BY <1>1, <2>1, <3>1, DemotingOverlay
      <3>3. CleanupTxn(store) = s
        BY <1>4, <2>4, <3>2 DEF CleanupTxn
      <3> QED BY <1>4, <2>4, <3>2, <3>3 DEF Frozens, Taking
    <2>5. CASE txn.phase = "copying"
      <3>1. CaptureCopying(s, Q, txn)
        BY <2>1, <2>5 DEF CapturePhase
      <3>2. /\ Overlay(s, store, txn.source, txn.dest)
            /\ txn.recycle => Immutable(s.img[txn.dest])
            /\ ~txn.recycle => s.img[txn.dest].role = "Free"
            /\ Uncaptured(store, txn) = s
        BY <1>1, <2>1, <2>2, <2>5, <3>1, CopyingOverlay
      <3>3. CleanupTxn(store) = s
        BY <1>4, <2>5, <3>2 DEF CleanupTxn
      <3> QED BY <1>4, <2>5, <3>2, <3>3 DEF Frozens, Taking
    <2> QED BY <2>2, <2>3, <2>4, <2>5
  <1> QED BY <1>1, <1>2, <1>3, <1>4

\* the lane a capture is taking
Captured(c) == txn.kind = "capture" /\ c = txn.lane

\* a copy of s from a slot that no lane but the captured one writes
Sourced(s, Q, from, to) ==
    /\ to \in (s.freeDev \cup s.freeHost) \ (store.freeDev \cup store.freeHost)
    /\ \E h \in Images :
          /\ from \in {s.img[h].dev, s.img[h].host} \ {None}
          /\ \A c \in Conts : Q[c].role = "Active" /\ ~Captured(c) => Q[c].write # h

(* A copy from an immutable image into a slot the transaction took has a   *)
(* source no lane writes.                                                  *)
LEMMA FromIdle ==
    ASSUME NEW s, NEW Q, NEW SH, NEW g, Consistent(s, Q, SH, g), NEW h \in Images, Immutable(s.img[h]),
           NEW from \in {s.img[h].dev, s.img[h].host}, from # None,
           NEW to \in (s.freeDev \cup s.freeHost) \ (store.freeDev \cup store.freeHost)
    PROVE  Sourced(s, Q, from, to)
  <1>1. \A c \in Conts : Q[c].role = "Active" => Q[c].write # h
    BY SeqCases DEF Writer, Forker, Immutable
  <1> QED BY <1>1, SMTT(40) DEF Sourced

(* So has a demotion.                                                      *)
LEMMA DemotionSourced ==
    ASSUME NEW s, NEW Q, NEW SH, NEW g, NEW v, Consistent(s, Q, SH, g), NoForks(Q), Demoting(s, v)
    PROVE  Sourced(s, Q, s.img[v.img].dev, NextHost(s))
  <1>1. v.img \in Images /\ Immutable(s.img[v.img]) /\ s.img[v.img].dev # None
    BY PressingBegun DEF Demoting
  <1>2. NextHost(s) \in s.freeHost \ store.freeHost /\ Overlay(s, store, None, None)
    BY DemotingOverlay
  <1>3. NextHost(s) \notin store.freeDev
    <2>1. Sound(store) /\ Sound(s)
      BY <1>2 DEF Overlay, Consistent
    <2> QED BY <1>2, <2>1, ContextAssumption DEF Sound, Store
  <1> QED BY <1>1, <1>2, <1>3, FromIdle

(* So has a restore.                                                       *)
LEMMA RestoreSourced ==
    ASSUME NEW s, NEW t, Consistent(s, seq, shared, held), NoForks(seq), Planned(t),
           StartRestoring(s, t)
    PROVE  Sourced(s, seq, s.img[Selected(t)].host, NextDev(s))
  <1>1. /\ Overlay(s, store, None, t.image) /\ Selected(t) \in Images
        /\ NextDev(s) \in s.freeDev \ store.freeDev
        /\ s.img[Selected(t)].host # None /\ Immutable(s.img[Selected(t)])
    BY RestoringOverlay
  <1>3. NextDev(s) \notin store.freeHost
    <2>1. Sound(store) /\ Sound(s)
      BY <1>1 DEF Overlay, Consistent
    <2> QED BY <1>1, <2>1, ContextAssumption DEF Sound, Store
  <1> QED BY <1>1, <1>3, FromIdle

(* So has a Host snapshot: its lane is held while it copies.               *)
LEMMA SnapshotSourced ==
    ASSUME NEW s, NEW Q, Consistent(s, Q, shared, held), NoForks(Q), txn.kind = "capture", Offered(txn, Q),
           CaptureCopying(s, Q, txn), txn.phase = "copying", txn.place = "HostSnapshot"
    PROVE  Sourced(s, Q, s.img[txn.source].dev, NextHost(s))
  <1> DEFINE w == txn.source
  <1>1. /\ Overlay(s, store, txn.source, txn.dest) /\ txn.lane \in Conts
        /\ Writer(s, held, Q[txn.lane]) /\ w \in Images
        /\ NextHost(s) \in s.freeHost \ store.freeHost /\ s.img[w].dev # None
    BY CopyingOverlay
  <1>2. w = Q[txn.lane].write
    BY DEF CaptureCopying
  <1>3. NextHost(s) \notin store.freeDev
    <2>1. Sound(store) /\ Sound(s)
      BY <1>1 DEF Overlay, Consistent
    <2> QED BY <1>1, <2>1, ContextAssumption DEF Sound, Store
  <1>4. \A c \in Conts : ~Captured(c) => Q[c].write # w
    <2>1. SUFFICES ASSUME NEW c \in Conts, c # txn.lane PROVE Q[c].write # w
      BY DEF Captured
    <2>2. w \notin Owned(Q[c])
      <3>1. Q[txn.lane].read = w
        BY <1>1, <1>2 DEF Writer
      <3>2. PICK d \in Conts : d = txn.lane /\ d # c /\ Writer(s, held, Q[d]) /\ Q[d].read = w
        BY <1>1, <2>1, <3>1
      <3> QED BY <3>2, OwnedAlone
    <2> QED BY <2>2 DEF Owned
  <1> QED BY <1>1, <1>3, <1>4 DEF Sourced

\* the copies in flight, and the one a transaction waits for, are as they were
FlightKept == \A S : FlightTo(S) => FlightTo(S)'

(* A step keeps every copy the transaction waits for in flight, or finds   *)
(* it landed and its source unchanged.                                     *)
AwaitedKept(s, Q) == \A from, to : Sourced(s, Q, from, to) /\ Awaited(from, to) => Awaited(from, to)'

\* lanes move on; everything else, and the captured lane, stays
LanesOnly(Q, R) ==
    /\ \A d \in Conts : /\ R[d].role = Q[d].role
                        /\ Q[d].role # "Active" \/ Captured(d) => R[d] = Q[d]
    /\ seq' = [d \in Conts |-> IF Captured(d) THEN seq[d] ELSE R[d]]

(* A demotion in flight is not disturbed by a step that leaves its victim  *)
(* alone.                                                                  *)
LEMMA DemotingKept ==
    ASSUME NEW s, NEW Q, NEW SH, NEW g, NEW v, Consistent(s, Q, SH, g), NoForks(Q), Demoting(s, v),
           v.op # "none" => Unmoved(v.who), store' = store, FlightKept, AwaitedKept(s, Q)
    PROVE  Demoting(s, v)' /\ PressedStore(s, v)' = PressedStore(s, v)
  <1>1. PressureOK(s, v)' /\ PressStore(s, v)' = PressStore(s, v) /\ PressedStore(s, v)' = PressedStore(s, v)
    BY StablePressure DEF Demoting
  <1>2. store' = PressStore(s, v)' /\ v.op = "demote"
    BY <1>1 DEF Demoting
  <1>3. FlightTo(s.freeHost)'
    BY DEF Demoting, FlightKept
  <1>4. Awaited(s.img[v.img].dev, NextHost(s))'
    <2>1. Sourced(s, Q, s.img[v.img].dev, NextHost(s))
      BY DemotionSourced
    <2> QED BY <2>1 DEF Demoting, AwaitedKept
  <1> QED BY <1>1, <1>2, <1>3, <1>4 DEF Demoting

(* A start transaction is not disturbed by a step of other lanes.          *)
LEMMA StartCarried ==
    ASSUME NEW s, NEW R, Consistent(s, seq, shared, held), NoForks(seq), NEW t, t = txn, StartPhase(s, t),
           txn.kind = "start", store' = store, shared' = shared, FlightKept, AwaitedKept(s, seq),
           LanesOnly(seq, R)
    PROVE  StartPhase(s, t)'
  <1>1. Planned(t) /\ t \in StartRecord
    BY DEF StartPhase, Planned
  <1>2. \A d \in Conts : seq'[d].role = seq[d].role /\ (seq[d].role # "Active" => seq'[d] = seq[d])
    <2>1. \A d \in Conts : ~Captured(d)
      BY DEF Captured
    <2> QED BY <2>1 DEF LanesOnly
  <1>3. t.path # "root" => Unmoved(t.source)
    <2>1. t.source \in Conts => seq[t.source].role = "Catalogued" \/ t.path = "root"
      BY <1>1, ContextAssumption DEF Planned, StartRecord
    <2> QED BY <1>2, <2>1 DEF Unmoved
  <1>4. Planned(t)'
    BY <1>1, <1>2, <1>3 DEF Planned, StartRecord, Unmoved
  <1>5. ASSUME NEW v, PressureOK(s, v) PROVE v.op # "none" => Unmoved(v.who)
    BY <1>2, <1>5 DEF PressureOK, PressureRecord, IdleOwner, Unmoved
  <1>6. t.phase = "reserved" => StartReserved(s, t)'
    <2>1. SUFFICES ASSUME t.phase = "reserved" PROVE StartReserved(s, t)'
      OBVIOUS
    <2>2. StartReserved(s, t)
      BY <2>1 DEF StartPhase
    <2>3. PICK z : z = PressedStore(s, t.pressure)
      OBVIOUS
    <2>4. /\ PressureOK(s, t.pressure)' /\ PressedStore(s, t.pressure)' = z
      BY <1>5, <2>2, <2>3, StablePressure DEF StartReserved
    <2>5. Promised(z, t)'
      BY <1>1, <1>3, <2>2, <2>3, StablePromise DEF StartReserved
    <2> QED BY <2>2, <2>4, <2>5 DEF StartReserved, FlightKept
  <1>7. t.phase = "pressing" => StartPressing(s, t)'
    <2>1. SUFFICES ASSUME t.phase = "pressing" PROVE StartPressing(s, t)'
      OBVIOUS
    <2>2. StartPressing(s, t)
      BY <2>1 DEF StartPhase
    <2>3. PICK z : z = PressedStore(s, t.pressure)
      OBVIOUS
    <2>4. Demoting(s, t.pressure)' /\ PressedStore(s, t.pressure)' = z
      BY <1>5, <2>2, <2>3, DemotingKept DEF StartPressing, Demoting
    <2>5. Promised(z, t)'
      BY <1>1, <1>3, <2>2, <2>3, StablePromise DEF StartPressing
    <2> QED BY <2>2, <2>4, <2>5 DEF StartPressing
  <1>8. t.phase = "ready" => StartReady(s, t)'
    BY <1>1, <1>3, StablePromise DEF StartPhase, StartReady, FlightKept
  <1>9. t.phase = "source" => StartSource(s, t)'
    BY <1>1, <1>3, StablePromise DEF StartPhase, StartSource, FlightKept
  <1>10. t.phase = "restoring" => StartRestoring(s, t)'
    <2>1. SUFFICES ASSUME t.phase = "restoring" PROVE StartRestoring(s, t)'
      OBVIOUS
    <2>2. StartRestoring(s, t)
      BY <2>1 DEF StartPhase
    <2>3. Feasible(s, t)'
      BY <1>1, <1>3, <2>2, StablePromise DEF StartRestoring
    <2>4. /\ Selected(t)' = Selected(t) /\ Restores(s, t)'
          /\ PreparedStore(s, t)' = PreparedStore(s, t)
      BY <1>1, <1>3, <2>2, StablePlan DEF StartRestoring
    <2>5. Awaited(s.img[Selected(t)].host, NextDev(s))'
      <3>1. Sourced(s, seq, s.img[Selected(t)].host, NextDev(s))
        BY <1>1, <2>2, RestoreSourced
      <3>2. PICK a : a = s.img[Selected(t)].host
        OBVIOUS
      <3>3. Awaited(a, NextDev(s))'
        BY <2>2, <3>1, <3>2 DEF StartRestoring, AwaitedKept
      <3> QED BY <2>4, <3>2, <3>3 DEF Awaited
    <2>6. FlightTo(s.freeHost \cup {NextDev(s)})'
      BY <2>2 DEF StartRestoring, FlightKept
    <2>7. t.restore /\ t.image = (IF NeedsImage(t) THEN NextImage(s) ELSE None) /\ store' = PreparedStore(s, t)'
      BY <2>2, <2>4 DEF StartRestoring
    <2> QED BY <2>3, <2>4, <2>5, <2>6, <2>7 DEF StartRestoring
  <1> QED BY <1>4, <1>6, <1>7, <1>8, <1>9, <1>10 DEF StartPhase

(* A capture transaction is not disturbed by a step of other lanes.        *)
LEMMA CaptureCarried ==
    ASSUME NEW s, NEW Q, NEW R, Consistent(s, Q, shared, held), NoForks(Q), NEW t, t = txn,
           CapturePhase(s, Q, t), R \in [Conts -> SeqRecord],
           txn.kind = "capture", store' = store, shared' = shared, txn' = txn, FlightKept, AwaitedKept(s, Q),
           LanesOnly(Q, R)
    PROVE  CapturePhase(s, R, t)'
  <1>1. Offered(t, Q) /\ t \in CaptureRecord /\ t.lane \in Conts /\ Q \in [Conts -> SeqRecord]
    BY DEF CapturePhase, Offered, CaptureRecord, Consistent, Typed
  <1>2. /\ R[t.lane] = Q[t.lane]
        /\ \A d \in Conts : R[d].role = Q[d].role /\ (Q[d].role # "Active" => R[d] = Q[d])
        /\ seq' = [d \in Conts |-> IF d = t.lane THEN seq[d] ELSE R[d]]
    BY <1>1 DEF LanesOnly, Captured
  <1>3. Offered(t, R)'
    BY <1>1, <1>2 DEF Offered
  <1>4. t.phase # "copying" => Q = seq /\ seq' = R /\ seq'[t.lane] = seq[t.lane]
    BY <1>1, <1>2 DEF CapturePhase
  <1>5. ASSUME NEW v, PressureOK(s, v), t.phase # "copying" PROVE v.op # "none" => Unmoved(v.who)
    BY <1>2, <1>4, <1>5 DEF PressureOK, PressureRecord, IdleOwner, Unmoved
  <1>6. \A z : CaptureFits(z, t) => CaptureFits(z, t)'
    BY StableCapture
  <1>7. t.phase # "copying" => (Recyclable(s, t) => Recyclable(s, t)')
    BY <1>4 DEF Recyclable
  <1>8. t.phase = "reserved" => CaptureReserved(s, t)'
    <2>1. SUFFICES ASSUME t.phase = "reserved" PROVE CaptureReserved(s, t)'
      OBVIOUS
    <2>2. CaptureReserved(s, t)
      BY <2>1 DEF CapturePhase
    <2>3. PICK z : z = PressedStore(s, t.pressure)
      OBVIOUS
    <2>4. /\ PressureOK(s, t.pressure)' /\ PressedStore(s, t.pressure)' = z
      BY <1>5, <2>1, <2>2, <2>3, StablePressure DEF CaptureReserved
    <2>5. CaptureFits(z, t)'
      BY <1>6, <2>2, <2>3 DEF CaptureReserved
    <2>6. Recyclable(s, t)'
      BY <1>7, <2>1, <2>2 DEF CaptureReserved
    <2>7. store' = s /\ FlightTo(s.freeHost)'
      BY <2>2 DEF CaptureReserved, FlightKept
    <2> QED BY <2>4, <2>5, <2>6, <2>7 DEF CaptureReserved
  <1>9. t.phase = "pressing" => CapturePressing(s, t)'
    <2>1. SUFFICES ASSUME t.phase = "pressing" PROVE CapturePressing(s, t)'
      OBVIOUS
    <2>2. CapturePressing(s, t)
      BY <2>1 DEF CapturePhase
    <2>3. PICK z : z = PressedStore(s, t.pressure)
      OBVIOUS
    <2>4. Demoting(s, t.pressure)' /\ PressedStore(s, t.pressure)' = z
      BY <1>5, <2>1, <2>2, <2>3, DemotingKept DEF CapturePressing, Demoting
    <2>5. CaptureFits(z, t)'
      BY <1>6, <2>2, <2>3 DEF CapturePressing
    <2>6. Recyclable(s, t)'
      BY <1>7, <2>1, <2>2 DEF CapturePressing
    <2> QED BY <2>4, <2>5, <2>6 DEF CapturePressing
  <1>10. t.phase = "ready" => CaptureReady(s, t)'
    BY <1>6, <1>7 DEF CapturePhase, CaptureReady, FlightKept
  <1>11. t.phase = "copying" => CaptureCopying(s, R, t)'
    <2>1. SUFFICES ASSUME t.phase = "copying" PROVE CaptureCopying(s, R, t)'
      OBVIOUS
    <2>2. CaptureCopying(s, Q, t)
      BY <2>1, SMTT(40) DEF CapturePhase
    <2>3. t.place = "HostSnapshot" => Awaited(s.img[t.source].dev, NextHost(s))'
      <3>1. SUFFICES ASSUME t.place = "HostSnapshot" PROVE Awaited(s.img[t.source].dev, NextHost(s))'
        OBVIOUS
      <3>2. Sourced(s, Q, s.img[t.source].dev, NextHost(s))
        BY <1>1, <2>1, <2>2, <3>1, SnapshotSourced
      <3> QED BY <2>2, <3>1, <3>2 DEF CaptureCopying, AwaitedKept
    <2>4. FlightTo(s.freeHost)'
      BY <2>2 DEF CaptureCopying, FlightKept
    <2>5. seq' = [R EXCEPT ![t.lane] = Branched(R[t.lane], t)]
      <3>1. seq[t.lane] = Branched(Q[t.lane], t)
        BY <1>1, <2>2 DEF CaptureCopying
      <3> QED BY <1>1, <1>2, <3>1
    <2>6. /\ t.source = R[t.lane].write /\ Destination(s, R, t.lane, t, t.dest)
          /\ store' = CaptureStore(s, t.source, t.dest, t)
      BY <1>2, <2>2 DEF CaptureCopying, Destination
    <2> QED BY <2>3, <2>4, <2>5, <2>6 DEF CaptureCopying
  <1> QED BY <1>3, <1>4, <1>8, <1>9, <1>10, <1>11 DEF CapturePhase

(* An open transaction is not disturbed by a step of other lanes.          *)
LEMMA Carried ==
    ASSUME NEW s, NEW Q, NEW R, Opened(s, Q), Consistent(s, R, shared, held'),
           txn.kind # "none" => NoForks(R),
           store' = store, shared' = shared, txn' = txn, FlightKept, AwaitedKept(s, Q),
           LanesOnly(Q, R)
    PROVE  Opened(s, R)'
  <1>1. Consistent(s, Q, shared, held) /\ txn.kind \in {"none", "start", "capture"} /\ R \in [Conts -> SeqRecord]
    BY DEF Opened, Consistent, Typed
  <1>2. Consistent(s, R, shared', held') /\ txn'.kind \in {"none", "start", "capture"}
    BY <1>1
  <1>3. txn.kind # "capture" => seq = Q /\ seq' = R
    <2>1. SUFFICES ASSUME txn.kind # "capture" PROVE seq = Q /\ seq' = R
      OBVIOUS
    <2>2. seq = Q
      BY <1>1, <2>1 DEF Opened
    <2>3. \A d \in Conts : ~Captured(d)
      BY <2>1 DEF Captured
    <2> QED BY <1>1, <2>2, <2>3 DEF LanesOnly
  <1>4. CASE txn.kind = "none"
    BY <1>2, <1>3, <1>4 DEF Opened, FlightKept, NoTxn
  <1>5. CASE txn.kind = "start"
    <2>1. PICK t : t = txn
      OBVIOUS
    <2>2. StartPhase(s, t) /\ NoForks(Q)
      BY <1>5, <2>1 DEF Opened
    <2>3. StartPhase(s, t)'
      BY <1>1, <1>3, <1>5, <2>1, <2>2, StartCarried
    <2> QED BY <1>2, <1>3, <1>5, <2>1, <2>3 DEF Opened
  <1>6. CASE txn.kind = "capture"
    <2>1. PICK t : t = txn
      OBVIOUS
    <2>2. CapturePhase(s, Q, t) /\ NoForks(Q)
      BY <1>6, <2>1 DEF Opened
    <2>3. CapturePhase(s, R, t)'
      BY <1>1, <1>6, <2>1, <2>2, CaptureCarried
    <2> QED BY <1>2, <1>6, <2>1, <2>3 DEF Opened
  <1> QED BY <1>1, <1>4, <1>5, <1>6

(* The catalogue is Q except for the lane being captured.                  *)
LEMMA SeqOver ==
    ASSUME NEW s, NEW Q, Opened(s, Q)
    PROVE  /\ seq \in [Conts -> SeqRecord] /\ Q \in [Conts -> SeqRecord]
           /\ \A d \in Conts : ~Captured(d) => seq[d] = Q[d]
           /\ \A d \in Conts : seq[d].role = Q[d].role /\ seq[d].refs = Q[d].refs /\ seq[d].rw = Q[d].rw
                               /\ seq[d].pos = Q[d].pos /\ seq[d].rwf = Q[d].rwf /\ seq[d].valid = Q[d].valid
  <1>1. Consistent(s, Q, shared, held) /\ Q \in [Conts -> SeqRecord] /\ txn.kind \in {"none", "start", "capture"}
    BY DEF Opened, Consistent, Typed
  <1>2. CASE seq = Q
    BY <1>1, <1>2
  <1>3. CASE seq # Q
    <2>1. NoForks(Q) /\ Offered(txn, Q) /\ CaptureCopying(s, Q, txn) /\ txn.kind = "capture" /\ txn.phase = "copying"
      BY <1>1, <1>3 DEF Opened, CapturePhase
    <2>2. txn.lane \in Conts /\ txn.dest \in Images
      BY <1>1, <2>1, CopyingOverlay
    <2>3. seq = [Q EXCEPT ![txn.lane] = Branched(Q[txn.lane], txn)]
      BY <2>1 DEF CaptureCopying
    <2> DEFINE q == Q[txn.lane]
               p == Branched(q, txn)
    <2>4. q \in SeqRecord
      BY <1>1, <2>2
    <2> HIDE DEF q
    <2>5. /\ p \in SeqRecord /\ p.role = q.role /\ p.refs = q.refs /\ p.rw = q.rw /\ p.pos = q.pos
          /\ p.rwf = q.rwf /\ p.valid = q.valid
      <3>1. CASE txn.place = "HostSnapshot"
        BY <2>4, <3>1 DEF Branched
      <3>2. CASE txn.place # "HostSnapshot"
        <4> DEFINE e == [q EXCEPT !.read = q.write, !.write = txn.dest, !.fork = TRUE]
        <4>1. q.write \in Images \cup {None} /\ q.valid \in BOOLEAN
          BY <2>4 DEF SeqRecord
        <4>2. e \in SeqRecord
          BY <2>2, <2>4, <4>1 DEF SeqRecord
        <4>3. e.role = q.role /\ e.refs = q.refs /\ e.rw = q.rw /\ e.pos = q.pos /\ e.rwf = q.rwf
          BY <2>4 DEF SeqRecord
        <4>4. e.valid = q.valid
          BY <2>4 DEF SeqRecord
        <4>5. p = e
          BY <3>2 DEF Branched
        <4> QED BY <4>2, <4>3, <4>4, <4>5
      <3> QED BY <3>1, <3>2
    <2> HIDE DEF p
    <2>6. seq = [Q EXCEPT ![txn.lane] = p]
      BY <2>3 DEF p, q
    <2>7. q = Q[txn.lane]
      BY DEF q
    <2> QED BY <1>1, <2>1, <2>2, <2>5, <2>6, <2>7 DEF Captured
  <1> QED BY <1>2, <1>3

(* Every copy in flight writes a slot that is free in s.                   *)
LEMMA FlightTargets ==
    ASSUME NEW s, NEW Q, Opened(s, Q)
    PROVE  FlightTo(s.freeDev \cup s.freeHost)
  <1>1. Consistent(s, Q, shared, held) /\ txn.kind \in {"none", "start", "capture"}
    BY DEF Opened
  <1>2. CASE FlightTo(s.freeHost)
    BY <1>2 DEF FlightTo
  <1>3. CASE txn.kind = "start" /\ txn.phase = "restoring"
    <2>1. StartRestoring(s, txn) /\ Planned(txn) /\ NoForks(seq) /\ seq = Q
      BY <1>3 DEF Opened, StartPhase
    <2>2. NextDev(s) \in s.freeDev
      BY <1>1, <2>1, RestoringOverlay
    <2> QED BY <2>1, <2>2 DEF StartRestoring, FlightTo
  <1>4. CASE txn.kind = "start" /\ txn.phase # "restoring"
    <2>1. StartPhase(s, txn) /\ txn.phase \in {"reserved", "pressing", "ready", "source", "restoring"}
      BY <1>4 DEF Opened, StartPhase, Planned, StartRecord
    <2>2. FlightTo(s.freeHost)
      BY <1>4, <2>1 DEF StartPhase, StartReserved, StartPressing, Demoting, StartReady, StartSource
    <2> QED BY <1>2, <2>2
  <1>5. CASE txn.kind = "capture"
    <2>1. CapturePhase(s, Q, txn) /\ txn.phase \in {"reserved", "pressing", "ready", "copying"}
      BY <1>5 DEF Opened, CapturePhase, Offered, CaptureRecord
    <2>2. FlightTo(s.freeHost)
      BY <2>1 DEF CapturePhase, CaptureReserved, CapturePressing, Demoting, CaptureReady, CaptureCopying
    <2> QED BY <1>2, <2>2
  <1>6. CASE txn.kind = "none"
    BY <1>2, <1>6 DEF Opened
  <1> QED BY <1>1, <1>3, <1>4, <1>5, <1>6

(* The source of such a copy is in use, its target is not.                 *)
LEMMA SourcedSlots ==
    ASSUME NEW s, NEW Q, Sound(s), NEW from, NEW to, Sourced(s, Q, from, to)
    PROVE  /\ from \in Slots /\ to \in Slots /\ from # to
           /\ from \notin s.freeDev \cup s.freeHost /\ to \in s.freeDev \cup s.freeHost
           /\ to \notin store.freeDev \cup store.freeHost
  <1>1. PICK h \in Images : from \in {s.img[h].dev, s.img[h].host} /\ from # None
    BY DEF Sourced
  <1>2. s.freeDev \subseteq DevSlots /\ s.freeHost \subseteq HostSlots
    BY DEF Sound, Store
  <1>3. (from \in DevSlots \ s.freeDev) \/ (from \in HostSlots \ s.freeHost)
    BY <1>1, Occupied
  <1>4. from \in Slots /\ from \notin s.freeDev \cup s.freeHost
    BY <1>2, <1>3, ContextAssumption DEF Slots
  <1>5. to \in s.freeDev \cup s.freeHost /\ to \notin store.freeDev \cup store.freeHost
    BY DEF Sourced
  <1> QED BY <1>2, <1>4, <1>5 DEF Slots

(* The contents of the free slots do not matter.                           *)
LEMMA FreeContents ==
    ASSUME NEW s, NEW Q, NEW SH, NEW g, NEW f \in [Slots -> Nat], Consistent(s, Q, SH, g),
           \A d \in Slots : d \notin s.freeDev \cup s.freeHost => f[d] = g[d]
    PROVE  Consistent(s, Q, SH, f)
  <1>1. Sound(s)
    BY DEF Consistent
  <1>2. s.freeDev \subseteq DevSlots /\ s.freeHost \subseteq HostSlots
    BY <1>1 DEF Sound, Store
  <1>3. SameContents(s, g, f)
    BY <1>1, <1>2, Occupied, ContextAssumption DEF SameContents, Slots
  <1> QED BY <1>3, RestateContents

(* A copy landing keeps the invariant.                                     *)
LEMMA CopyLandsKeeps ==
    ASSUME NEW s, NEW Q, Opened(s, Q), flight \in Seq(Copies), CopyLands
    PROVE  Opened(s, Q)' /\ flight' \in Seq(Copies)
  <1>1. Consistent(s, Q, shared, held) /\ held \in [Slots -> Nat] /\ Sound(s)
    BY DEF Opened, Consistent, Typed
  <1>2. PICK n \in Nat : n = Len(flight) /\ n > 0
    BY DEF CopyLands
  <1>3. /\ flight \in [1 .. n -> Copies] /\ DOMAIN flight = 1 .. n /\ Head(flight) = flight[1]
        /\ flight' \in Seq(Copies) /\ Len(flight') = n - 1 /\ DOMAIN flight' = 1 .. n - 1
        /\ \A i \in 1 .. n - 1 : flight'[i] = flight[i + 1]
    BY <1>2 DEF CopyLands
  <1>4. PICK x, y : x = flight[1].from /\ y = flight[1].to
    OBVIOUS
  <1>5. /\ x \in Slots /\ y \in Slots /\ y \in s.freeDev \cup s.freeHost
    BY <1>2, <1>3, <1>4, FlightTargets DEF Copies, FlightTo
  <1>6. held' = [held EXCEPT ![y] = held[x]]
    BY <1>3, <1>4 DEF CopyLands
  <1>7. held' \in [Slots -> Nat] /\ held'[y] = held[x] /\ \A d \in Slots : d # y => held'[d] = held[d]
    BY <1>1, <1>5, <1>6
  <1>8. Consistent(s, Q, shared, held')
    BY <1>1, <1>5, <1>7, FreeContents
  <1>9. FlightKept
    <2>1. SUFFICES ASSUME NEW S, FlightTo(S) PROVE FlightTo(S)'
      BY DEF FlightKept
    <2>2. \A i \in 1 .. n - 1 : i + 1 \in 1 .. n
      BY <1>2
    <2> QED BY <1>3, <2>1, <2>2 DEF FlightTo
  <1>10. AwaitedKept(s, Q)
    <2>1. SUFFICES ASSUME NEW from, NEW to, Sourced(s, Q, from, to), Awaited(from, to)
                   PROVE  Awaited(from, to)'
      BY DEF AwaitedKept
    <2>2. /\ from \in Slots /\ to \in Slots /\ from # to /\ from \notin s.freeDev \cup s.freeHost
      BY <1>1, <2>1, SourcedSlots
    <2>3. flight[n] = [from |-> from, to |-> to]
      BY <1>2, <1>3, <2>1 DEF Awaited
    <2>4. CASE n = 1
      <3>1. x = from /\ y = to
        BY <1>4, <2>3, <2>4
      <3>2. held'[to] = held'[from]
        BY <1>7, <2>2, <3>1
      <3>3. flight' = <<>>
        BY <1>3, <2>4
      <3> QED BY <3>2, <3>3 DEF Awaited
    <2>5. CASE n > 1
      <3>1. flight'[n - 1] = flight[n] /\ flight' # <<>>
        BY <1>2, <1>3, <2>5
      <3> QED BY <1>3, <2>3, <3>1 DEF Awaited
    <2> QED BY <1>2, <2>4, <2>5
  <1>11. LanesOnly(Q, Q)
    BY SeqOver DEF LanesOnly, CopyLands
  <1>12. txn.kind # "none" => NoForks(Q)
    BY DEF Opened
  <1>13. Opened(s, Q)'
    BY <1>8, <1>9, <1>10, <1>11, <1>12, Carried DEF CopyLands
  <1> QED BY <1>3, <1>13

(* A stuttering step keeps the invariant.                                  *)
LEMMA StutterKeeps ==
    ASSUME NEW s, NEW Q, Opened(s, Q), UNCHANGED vars
    PROVE  Opened(s, Q)'
  <1>1. FlightKept
    BY DEF FlightKept, FlightTo, vars
  <1>2. AwaitedKept(s, Q)
    BY DEF AwaitedKept, Awaited, vars
  <1>3. LanesOnly(Q, Q)
    BY SeqOver DEF LanesOnly, vars
  <1>4. Consistent(s, Q, shared, held') /\ (txn.kind # "none" => NoForks(Q))
    BY DEF Opened, vars
  <1> QED BY <1>1, <1>2, <1>3, <1>4, Carried DEF vars

(* Borrow counts follow the active lanes' references.                      *)
LEMMA BorrowsKept ==
    ASSUME NEW Q, NEW R, NEW SH, NEW SI, Borrows(Q, SH),
           \A c \in Conts : /\ (R[c].role = "Active") <=> (Q[c].role = "Active")
                            /\ R[c].role = "Active" => R[c].refs = Q[c].refs,
           \A x \in SharedSlots : /\ SI[x].active = SH[x].active
                                  /\ SI[x].role # "Catalogued" => SI[x].active = 0
    PROVE  Borrows(R, SI)
  <1>1. SUFFICES ASSUME NEW x \in SharedSlots
                 PROVE  SI[x].active = Cardinality({c \in Conts : R[c].role = "Active" /\ x \in R[c].refs})
    BY DEF Borrows
  <1>2. {c \in Conts : R[c].role = "Active" /\ x \in R[c].refs}
          = {c \in Conts : Q[c].role = "Active" /\ x \in Q[c].refs}
    OBVIOUS
  <1> QED BY <1>2 DEF Borrows

(* A handler that ends with no transaction open.                           *)
LEMMA IdleOpened ==
    ASSUME NEW g, NEW R, NEW SI, Consistent(store', R, SI, g), held' = Contents(g),
           R = seq', SI = shared', txn' = NoTxn,
           \A i \in DOMAIN flight' : flight'[i].to \in store'.freeHost
    PROVE  (\E s, Q : Opened(s, Q))'
  <1>1. PICK r : r = store'
    OBVIOUS
  <1>2. Consistent(r, R, SI, Wiped(r, g))
    BY <1>1, WipedConsistent
  <1>3. Consistent(r, R, shared, held)'
    BY <1>1, <1>2, ContentsAre
  <1>4. FlightTo(r.freeHost)'
    BY <1>1 DEF FlightTo
  <1>5. Opened(r, R)'
    BY <1>1, <1>3, <1>4 DEF Opened, NoTxn
  <1> QED BY <1>5

(* The lane wrote its image one position further.                          *)
Advanced(q, p) ==
    /\ p \in SeqRecord /\ p.role = q.role /\ p.refs = q.refs /\ p.rw = q.rw /\ p.rwf = q.rwf
    /\ p.valid = q.valid /\ p.pos = q.pos + 1
    /\ p.read = q.write /\ p.write = q.write /\ ~p.fork

(* What an execution leaves in the lane's record.                          *)
LEMMA ExecuteFields ==
    ASSUME NEW q \in SeqRecord, q.fork \/ (q.read = q.write /\ q.own = "Primary"),
           NEW next \in {q.stage, "decode", "done"}, NEW offer \in BOOLEAN,
           NEW p, p = [Settled(q) EXCEPT !.pos = @ + 1, !.stage = next, !.fresh = FALSE,
                                         !.offer = offer]
    PROVE  Advanced(q, p) /\ p.own = "Primary"
  <1>1. PICK e : e = Settled(q)
    OBVIOUS
  <1>2. /\ e \in SeqRecord /\ e.role = q.role /\ e.refs = q.refs /\ e.rw = q.rw /\ e.rwf = q.rwf
        /\ e.pos = q.pos /\ e.read = q.write /\ e.write = q.write /\ e.own = "Primary"
    <2>1. CASE q.fork
      <3>1. e = Bind(q, q.write)
        BY <1>1, <2>1 DEF Settled
      <3> QED BY <3>1 DEF Bind, SeqRecord
    <2>2. CASE ~q.fork
      BY <1>1, <2>2 DEF Settled
    <2> QED BY <2>1, <2>2
  <1>3. e.valid = q.valid
    BY <1>1 DEF Settled, Bind, SeqRecord
  <1>4. ~e.fork
    BY <1>1 DEF Settled, Bind, SeqRecord
  <1>5. p = [e EXCEPT !.pos = @ + 1, !.stage = next, !.fresh = FALSE, !.offer = offer]
    BY <1>1
  <1>6. next \in {"idle", "prefill", "decode", "done", "cancelled"} /\ e.pos + 1 \in Nat
    BY <1>2 DEF SeqRecord
  <1>7. p \in SeqRecord
    BY <1>2, <1>5, <1>6, ZenonT(40) DEF SeqRecord
  <1>8. /\ p.role = e.role /\ p.refs = e.refs /\ p.rw = e.rw /\ p.rwf = e.rwf
        /\ p.pos = e.pos + 1 /\ p.read = e.read /\ p.write = e.write /\ p.own = e.own
    BY <1>2, <1>5, Zenon DEF SeqRecord
  <1>9. p.valid = q.valid /\ ~p.fork
    BY <1>2, <1>3, <1>4, <1>5, Zenon DEF SeqRecord
  <1> QED BY <1>2, <1>7, <1>8, <1>9 DEF Advanced

(* A lane that executes is active, is not being captured and advances.     *)
LEMMA ExecuteStep ==
    ASSUME Live, NEW c \in Conts, Execute(c)
    PROVE  /\ seq[c].role = "Active" /\ seq[c] \in SeqRecord /\ seq[c].write \in Images /\ ~Captured(c)
           /\ \E p : /\ Advanced(seq[c], p) /\ p.own = "Primary" /\ seq' = [seq EXCEPT ![c] = p]
  <1>1. PICK s, Q : Opened(s, Q)
    BY DEF Live
  <1>2. Consistent(s, Q, shared, held)
    BY <1>1 DEF Opened
  <1>3. seq[c] = Q[c] /\ ~Captured(c) /\ seq[c].role = "Active" /\ seq[c] \in SeqRecord
    BY <1>1, SeqOver DEF Execute, Captured, Active
  <1>4. Writer(s, held, Q[c]) \/ Forker(s, held, Q[c])
    BY <1>2, <1>3, SeqCases
  <1>5. seq[c].write \in Images /\ (seq[c].fork \/ (seq[c].read = seq[c].write /\ seq[c].own = "Primary"))
    BY <1>3, <1>4 DEF Writer, Forker
  <1>6. PICK next \in {seq[c].stage, "decode", "done"} :
           seq' = [seq EXCEPT ![c] = [Settled(seq[c]) EXCEPT !.pos = @ + 1, !.stage = next, !.fresh = FALSE,
                                           !.offer = seq[c].stage = "prefill" /\ next # "done"]]
    BY DEF Execute
  <1>7. PICK p : p = [Settled(seq[c]) EXCEPT !.pos = @ + 1, !.stage = next, !.fresh = FALSE,
                                           !.offer = seq[c].stage = "prefill" /\ next # "done"]
    OBVIOUS
  <1>8. Advanced(seq[c], p) /\ p.own = "Primary"
    BY <1>3, <1>5, <1>7, ExecuteFields, ZenonT(40)
  <1> QED BY <1>3, <1>5, <1>6, <1>7, <1>8

(* A lane that writes in place advances, whatever transaction is open.     *)
LEMMA WriterExecutes ==
    ASSUME NEW s, NEW Q, Opened(s, Q), flight \in Seq(Copies), NEW c \in Conts, NEW p, ~Captured(c), Q[c].role = "Active",
           ~Q[c].fork, Advanced(Q[c], p), p.own = "Primary", seq' = [seq EXCEPT ![c] = p],
           store' = store, held' = Contents([held EXCEPT ![store.img[Q[c].write].dev] = Q[c].pos + 1]),
           shared' = shared, txn' = txn, flight' = flight
    PROVE  (\E z, R : Opened(z, R))'
  <1>1. /\ Consistent(s, Q, shared, held) /\ held \in [Slots -> Nat] /\ Sound(s)
        /\ Q \in [Conts -> SeqRecord] /\ Typed(Q, shared, held)
    BY DEF Opened, Consistent, Typed
  <1>2. Writer(s, held, Q[c])
    BY <1>1, SeqCases
  <1>3. PICK w \in Images : w = Q[c].write /\ w = Q[c].read /\ s.img[w].role = "ActiveMutable"
    BY <1>2 DEF Writer
  <1>4. w # Taking(txn)
    BY <1>3, Overlaid, ContextAssumption, StoreAssumption DEF Immutable
  <1>5. /\ store.img[w].dev = s.img[w].dev /\ store.freeDev \subseteq s.freeDev /\ store.freeHost \subseteq s.freeHost
        /\ Sound(store)
    BY <1>4, Overlaid DEF Overlay
  <1>6. PICK d \in Slots : d = s.img[w].dev /\ d # None
    BY <1>1, <1>3, ActiveOnDevice, SlotOf
  <1>7. PICK f : f = [held EXCEPT ![d] = Q[c].pos + 1]
    OBVIOUS
  <1>8. f \in [Slots -> Nat] /\ f[d] = Q[c].pos + 1 /\ SameBut(held, f, d)
    BY <1>1, <1>7 DEF SameBut, SeqRecord
  <1>9. PICK R : R = [Q EXCEPT ![c] = p]
    OBVIOUS
  <1>10. p \in SeqRecord
    BY DEF Advanced
  <1>11. Typed(R, shared, held) /\ R[c] = p /\ SameSeqs(Q, R, c)
    BY <1>1, <1>9, <1>10, TypedSeq
  <1>12. Typed(R, shared, f)
    BY <1>8, <1>11 DEF Typed
  <1>13. InPlace(Q[c], R[c]) /\ R[c].pos = Q[c].pos + 1
    BY <1>2, <1>11, SMTT(40) DEF InPlace, Advanced, Writer
  <1>14. Consistent(s, R, shared, f)
    <2>1. SameBut(held, f, s.img[Q[c].write].dev) /\ f[s.img[Q[c].write].dev] = R[c].pos
      BY <1>3, <1>6, <1>8, <1>13, SMTT(40)
    <2> QED BY <1>1, <1>2, <1>11, <1>12, <1>13, <2>1, LaneAdvanced
  <1>15. held' = Wiped(store, f)
    BY <1>3, <1>5, <1>6, <1>7, ContentsAre
  <1>16. Consistent(s, R, shared, held')
    BY <1>5, <1>14, <1>15, WipedConsistent
  <1>17. txn.kind # "none" => NoForks(R)
    BY <1>11 DEF NoForks, Opened, SameSeqs, Advanced
  <1>18. FlightKept
    BY DEF FlightKept, FlightTo
  <1>19. AwaitedKept(s, Q)
    <2>1. SUFFICES ASSUME NEW from, NEW to, Sourced(s, Q, from, to), Awaited(from, to)
                   PROVE  Awaited(from, to)'
      BY DEF AwaitedKept
    <2>2. /\ from \in Slots /\ to \in Slots /\ from # to
          /\ from \notin s.freeDev \cup s.freeHost /\ to \in s.freeDev \cup s.freeHost
          /\ to \notin store.freeDev \cup store.freeHost
      BY <1>1, <2>1, SourcedSlots
    <2>3. PICK h \in Images : /\ from \in {s.img[h].dev, s.img[h].host} \ {None}
                              /\ \A e \in Conts : Q[e].role = "Active" /\ ~Captured(e) => Q[e].write # h
      BY <2>1 DEF Sourced
    <2>4. h # w
      BY <1>3, <2>3
    <2>5. from # d
      BY <1>1, <1>6, <2>3, <2>4, SlotOf
    <2>6. d \notin s.freeDev \cup s.freeHost
      BY <1>1, <1>6, Occupied, ContextAssumption DEF Sound, Store
    <2>7. held'[from] = held[from] /\ held'[to] = held[to]
      BY <1>5, <1>8, <1>15, <2>2, <2>5, <2>6 DEF Wiped, SameBut
    <2> QED BY <2>1, <2>7 DEF Awaited
  <1>20. LanesOnly(Q, R)
    <2>1. \A e \in Conts : R[e].role = Q[e].role /\ (Q[e].role # "Active" \/ Captured(e) => R[e] = Q[e])
      BY <1>11 DEF SameSeqs, Advanced
    <2>2. seq' = [e \in Conts |-> IF Captured(e) THEN seq[e] ELSE R[e]]
      <3>1. seq \in [Conts -> SeqRecord] /\ \A e \in Conts : ~Captured(e) => seq[e] = Q[e]
        BY SeqOver
      <3>2. \A e \in Conts : (IF Captured(e) THEN seq[e] ELSE R[e]) = IF e = c THEN p ELSE seq[e]
        BY <1>11, <3>1 DEF SameSeqs
      <3>3. [e \in Conts |-> IF Captured(e) THEN seq[e] ELSE R[e]] = [e \in Conts |-> IF e = c THEN p ELSE seq[e]]
        BY <3>2
      <3>4. [seq EXCEPT ![c] = p] = [e \in Conts |-> IF e = c THEN p ELSE seq[e]]
        BY <3>1
      <3> QED BY <3>3, <3>4
    <2> QED BY <2>1, <2>2 DEF LanesOnly
  <1>21. Opened(s, R)'
    BY <1>16, <1>17, <1>18, <1>19, <1>20, Carried
  <1> QED BY <1>21

(* A lane that forks executes, with no transaction open.                   *)
LEMMA ForkerExecutes ==
    ASSUME Consistent(store, seq, shared, held), FlightTo(store.freeHost), txn = NoTxn, NEW c \in Conts,
           NEW p \in SeqRecord, seq[c].fork, InPlace(seq[c], p), seq' = [seq EXCEPT ![c] = p],
           NEW n \in Nat, p.pos = n,
           store' = SettleFork(store, seq[c]),
           held' = Contents([held EXCEPT ![store.img[seq[c].write].dev] = n]),
           shared' = shared, txn' = txn, flight' = flight
    PROVE  (\E z, R : Opened(z, R))' /\ CanSettle(store, seq[c])
  <1>1. /\ held \in [Slots -> Nat] /\ Sound(store) /\ Typed(seq, shared, held)
    BY SMTT(40) DEF Consistent, Typed
  <1>2. PICK w \in Images : w = seq[c].write /\ store.img[w].role = "ActiveMutable"
    BY ForkFacts DEF CanCommitFork
  <1>3. PICK d \in Slots : d = store.img[w].dev /\ d # None
    BY <1>1, <1>2, ActiveOnDevice, SlotOf
  <1>4. PICK f : f = [held EXCEPT ![d] = n]
    OBVIOUS
  <1>5. f \in [Slots -> Nat] /\ f[d] = n /\ SameBut(held, f, d)
    BY <1>1, <1>4 DEF SameBut
  <1>6. PICK R : R = [seq EXCEPT ![c] = p]
    OBVIOUS
  <1>7. Typed(R, shared, held) /\ R[c] = p /\ SameSeqs(seq, R, c)
    BY <1>1, <1>6, TypedSeq
  <1>8. Typed(R, shared, f)
    BY <1>5, <1>7 DEF Typed
  <1>9. SameBut(held, f, store.img[seq[c].write].dev) /\ f[store.img[seq[c].write].dev] = R[c].pos
    BY <1>2, <1>3, <1>5, <1>7
  <1>10. InPlace(seq[c], R[c])
    BY <1>7, SMTT(40)
  <1>11. /\ Consistent(SettleFork(store, seq[c]), R, shared, f)
         /\ CanCommitFork(store, seq[c].read, seq[c].write)
         /\ SettleFork(store, seq[c]).freeHost = store.freeHost
    BY <1>7, <1>8, <1>9, <1>10, ForkSettled
  <1>12. held' = Contents(f)
    BY <1>2, <1>3, <1>4
  <1>13. \A i \in DOMAIN flight' : flight'[i].to \in store'.freeHost
    BY <1>11 DEF FlightTo
  <1>14. (\E z, T : Opened(z, T))'
    BY <1>6, <1>11, <1>12, <1>13, IdleOpened
  <1>15. CanSettle(store, seq[c])
    BY <1>11 DEF CanSettle, Idle, NoTxn
  <1> QED BY <1>14, <1>15

(* An execution keeps the invariant and throws nothing.                    *)
LEMMA ExecuteKeeps ==
    ASSUME Live, fault = "none", NEW c \in Conts, Execute(c)
    PROVE  Live' /\ fault' = "none"
  <1>1. PICK s, Q : Opened(s, Q)
    BY DEF Live
  <1>2. PICK p : Advanced(seq[c], p) /\ p.own = "Primary" /\ seq' = [seq EXCEPT ![c] = p]
    BY ExecuteStep
  <1>3. seq[c].role = "Active" /\ seq[c] \in SeqRecord /\ ~Captured(c) /\ seq[c] = Q[c]
    BY <1>1, ExecuteStep, SeqOver
  <1>4. /\ store' = SettleFork(store, seq[c]) /\ shared' = shared /\ txn' = txn /\ flight' = flight
        /\ held' = Contents([held EXCEPT ![store.img[seq[c].write].dev] = seq[c].pos + 1])
        /\ Checked(CanSettle(store, seq[c]))
    BY DEF Execute
  <1>7. (\E z, R : Opened(z, R))' /\ fault' = "none"
    <2>1. CASE ~seq[c].fork
      <3>1. store' = store /\ CanSettle(store, seq[c])
        BY <1>4, <2>1 DEF SettleFork, CanSettle
      <3>2. (\E z, R : Opened(z, R))'
        BY <1>1, <1>2, <1>3, <1>4, <2>1, <3>1, WriterExecutes DEF Live
      <3> QED BY <1>4, <3>1, <3>2 DEF Checked
    <2>2. CASE seq[c].fork
      <3>1. txn.kind = "none"
        BY <1>1, <1>3, <2>2 DEF Opened, NoForks
      <3>2. Consistent(store, seq, shared, held) /\ FlightTo(store.freeHost) /\ txn = NoTxn
        BY <1>1, <3>1 DEF Opened
      <3>3. ~seq[c].valid
        BY <3>2, <2>2, SeqCases DEF Forker
      <3>4. InPlace(seq[c], p) /\ p \in SeqRecord /\ p.pos = seq[c].pos + 1 /\ seq[c].pos + 1 \in Nat
        BY <1>2, <1>3, <3>3 DEF InPlace, Advanced, SeqRecord
      <3>5. (\E z, R : Opened(z, R))' /\ CanSettle(store, seq[c])
        BY <1>2, <1>4, <2>2, <3>2, <3>4, ForkerExecutes
      <3> QED BY <1>4, <3>5 DEF Checked
    <2> QED BY <2>1, <2>2
  <1>8. seq \in [Conts -> SeqRecord]
    BY <1>1, SeqOver
  <1>9. Borrows(seq', shared')
    <2>1. \A e \in Conts : (seq'[e].role = "Active" <=> seq[e].role = "Active") /\ seq'[e].refs = seq[e].refs
      BY <1>2, <1>8 DEF Advanced
    <2> QED BY <1>4, <2>1, BorrowsKept, ZenonT(40) DEF Live, Borrows
  <1>10. Reserved(txn)'
    BY <1>4 DEF Live, Reserved
  <1> QED BY <1>4, <1>7, <1>9, <1>10 DEF Live

(* Between transactions the state is consistent.                           *)
LEMMA IdleFacts ==
    ASSUME Live, txn.kind = "none"
    PROVE  /\ Consistent(store, seq, shared, held) /\ FlightTo(store.freeHost) /\ txn = NoTxn
           /\ Typed(seq, shared, held) /\ seq \in [Conts -> SeqRecord]
           /\ shared \in [SharedSlots -> PrefixRecord] /\ held \in [Slots -> Nat]
           /\ Sound(store) /\ flight \in Seq(Copies) /\ Borrows(seq, shared)
           /\ \A x \in SharedSlots : shared[x].role \notin {"ReservedCapture", "ReservedReplacement"}
  <1>1. Consistent(store, seq, shared, held) /\ FlightTo(store.freeHost) /\ txn = NoTxn
    BY DEF Live, Opened
  <1>2. \A x \in SharedSlots : shared[x].role \notin {"ReservedCapture", "ReservedReplacement"}
    BY DEF Live, Reserved
  <1> QED BY <1>1, <1>2 DEF Live, Consistent, Typed

(* What a handler that closes with no transaction has to show.             *)
LEMMA LiveIdle ==
    ASSUME NEW g, NEW R, NEW SI, Consistent(store', R, SI, g), held' = Contents(g),
           R = seq', SI = shared', txn' = NoTxn, flight' = flight, flight \in Seq(Copies),
           FlightTo(store'.freeHost), Borrows(seq', shared'),
           \A x \in SharedSlots : SI[x].role \notin {"ReservedCapture", "ReservedReplacement"}
    PROVE  Live'
  <1>1. \A i \in DOMAIN flight' : flight'[i].to \in store'.freeHost
    BY DEF FlightTo
  <1>2. (\E s, Q : Opened(s, Q))'
    BY <1>1, IdleOpened
  <1>3. Reserved(txn)'
    BY DEF Reserved
  <1> QED BY <1>2, <1>3 DEF Live

(* Only the stage of a sequence may differ.                                *)
Restages(q, p) ==
    /\ p \in SeqRecord /\ p.role = q.role /\ p.read = q.read /\ p.write = q.write /\ p.own = q.own
    /\ p.rw = q.rw /\ p.rwf = q.rwf /\ p.pos = q.pos /\ p.refs = q.refs
    /\ p.fork = q.fork /\ p.valid = q.valid

(* Changing the stage of a sequence keeps a state consistent.              *)
LEMMA SeqRestaged ==
    ASSUME NEW s, NEW Q, NEW R, NEW SH, NEW g, Consistent(s, Q, SH, g), NEW c \in Conts, NEW p,
           Restages(Q[c], p), p.fork => p.stage # "done", R = [Q EXCEPT ![c] = p]
    PROVE  Consistent(s, R, SH, g)
  <1>1. Typed(Q, SH, g) /\ p \in SeqRecord
    BY DEF Consistent, Restages
  <1>2. Typed(R, SH, g) /\ R[c] = p /\ SameSeqs(Q, R, c)
    BY <1>1, TypedSeq, ZenonT(40)
  <1>3. SameContents(s, g, g)
    BY DEF SameContents
  <1>4. \A x \in SharedSlots : SamePrefix(SH[x], SH[x])
    BY DEF SamePrefix
  <1>5. \A d \in Conts : Q[d].fork => Q[d].stage # "done"
    BY SeqCases DEF Forker
  <1>6. \A d \in Conts : SameBinding(Q[d], R[d])
    BY <1>2, <1>5 DEF SameBinding, SameSeqs, Restages
  <1> QED BY <1>2, <1>3, <1>4, <1>6, Restate

(* It keeps the borrow counts too.                                         *)
LEMMA BorrowsRestaged ==
    ASSUME NEW Q, NEW R, NEW SH, Borrows(Q, SH), Q \in [Conts -> SeqRecord], NEW c \in Conts, NEW p,
           p.role = Q[c].role, p.refs = Q[c].refs, R = [Q EXCEPT ![c] = p]
    PROVE  Borrows(R, SH)
  <1>1. \A d \in Conts : R[d].role = Q[d].role /\ R[d].refs = Q[d].refs
    OBVIOUS
  <1>2. \A x \in SharedSlots : {d \in Conts : R[d].role = "Active" /\ x \in R[d].refs}
                                = {d \in Conts : Q[d].role = "Active" /\ x \in Q[d].refs}
    BY <1>1
  <1> QED BY <1>2 DEF Borrows

(* A step that only changes the stage of a sequence keeps the invariant.   *)
LEMMA RestagedKeeps ==
    ASSUME Live, txn.kind = "none", NEW c \in Conts, NEW p, Restages(seq[c], p), p.fork => p.stage # "done",
           seq' = [seq EXCEPT ![c] = p], store' = store, shared' = shared, txn' = txn, flight' = flight,
           held' = held \/ held' = Contents(held)
    PROVE  Live'
  <1>0. PICK R : R = seq'
    OBVIOUS
  <1>1. Consistent(store, R, shared, held)
    BY <1>0, IdleFacts, SeqRestaged
  <1>2. Borrows(R, shared)
    BY <1>0, IdleFacts, BorrowsRestaged DEF Restages
  <1>3. CASE held' = Contents(held)
    BY <1>0, <1>1, <1>2, <1>3, IdleFacts, LiveIdle
  <1>4. CASE held' = held
    <2>1. PICK r : r = store
      OBVIOUS
    <2>2. Opened(r, R)'
      BY <1>0, <1>1, <1>4, <2>1, IdleFacts DEF Opened, FlightTo, NoTxn
    <2> QED BY <1>0, <1>2, <2>2 DEF Live, Reserved
  <1> QED BY <1>3, <1>4

(* What an exact hit leaves in the lane's record.                          *)
LEMMA ExactHitFields ==
    ASSUME NEW q \in SeqRecord
    PROVE  /\ Restages(q, [q EXCEPT !.stage = "decode", !.fresh = FALSE, !.offer = FALSE])
           /\ [q EXCEPT !.stage = "decode", !.fresh = FALSE, !.offer = FALSE].stage = "decode"
           /\ Restages(q, [q EXCEPT !.stage = "done"])
           /\ q.role = "Active" /\ ~q.valid =>
                /\ InPlace(q, [Bind(q, q.write) EXCEPT !.stage = "done"])
                /\ [Bind(q, q.write) EXCEPT !.stage = "done"] \in SeqRecord
                /\ [Bind(q, q.write) EXCEPT !.stage = "done"].pos = q.pos
                /\ [Bind(q, q.write) EXCEPT !.stage = "done"].refs = q.refs
  <1>1. /\ Restages(q, [q EXCEPT !.stage = "decode", !.fresh = FALSE, !.offer = FALSE])
        /\ [q EXCEPT !.stage = "decode", !.fresh = FALSE, !.offer = FALSE].stage = "decode"
    BY DEF Restages, SeqRecord
  <1>2. Restages(q, [q EXCEPT !.stage = "done"])
    BY DEF Restages, SeqRecord
  <1>3. PICK e : e = Bind(q, q.write)
    OBVIOUS
  <1>4. /\ e \in SeqRecord /\ e.role = q.role /\ e.refs = q.refs /\ e.rw = q.rw /\ e.rwf = q.rwf
        /\ e.pos = q.pos /\ e.read = q.write /\ e.write = q.write /\ e.own = "Primary"
    BY <1>3 DEF Bind, SeqRecord
  <1>5. ~e.fork /\ e.valid = q.valid
    BY <1>3 DEF Bind, SeqRecord
  <1>6. PICK p : p = [e EXCEPT !.stage = "done"]
    OBVIOUS
  <1>7. /\ p \in SeqRecord /\ p.role = e.role /\ p.refs = e.refs /\ p.rw = e.rw /\ p.rwf = e.rwf
        /\ p.pos = e.pos /\ p.read = e.read /\ p.write = e.write /\ p.own = e.own
    BY <1>4, <1>6 DEF SeqRecord
  <1>8. p.fork = e.fork /\ p.valid = e.valid
    BY <1>4, <1>6 DEF SeqRecord
  <1>9. q.role = "Active" /\ ~q.valid => InPlace(q, p) /\ p \in SeqRecord /\ p.pos = q.pos /\ p.refs = q.refs
    BY <1>4, <1>5, <1>7, <1>8 DEF InPlace
  <1> QED BY <1>1, <1>2, <1>3, <1>6, <1>9

(* An exact hit keeps the invariant and throws nothing.                    *)
LEMMA ExactHitKeeps ==
    ASSUME Live, fault = "none", NEW c \in Conts, ExactHit(c)
    PROVE  Live' /\ fault' = "none"
  <1>1. /\ txn.kind = "none" /\ shared' = shared /\ txn' = txn /\ flight' = flight
        /\ seq[c].role = "Active"
    BY DEF ExactHit, Idle, Active
  <1>2. /\ Consistent(store, seq, shared, held) /\ FlightTo(store.freeHost) /\ txn = NoTxn
        /\ seq \in [Conts -> SeqRecord] /\ Borrows(seq, shared) /\ seq[c] \in SeqRecord
    BY <1>1, IdleFacts
  <1>3. CASE /\ seq' = [seq EXCEPT ![c].stage = "decode", ![c].fresh = FALSE, ![c].offer = FALSE]
             /\ UNCHANGED <<store, held, fault>>
    <2>1. PICK p : p = [seq[c] EXCEPT !.stage = "decode", !.fresh = FALSE, !.offer = FALSE]
      OBVIOUS
    <2>2. Restages(seq[c], p) /\ p.stage # "done"
      BY <1>2, <2>1, ExactHitFields, Zenon
    <2>3. seq' = [seq EXCEPT ![c] = p]
      BY <1>2, <1>3, <2>1
    <2>4. Live'
      BY <1>1, <1>3, <2>2, <2>3, RestagedKeeps
    <2> QED BY <1>3, <2>4
  <1>4. CASE /\ seq' = [seq EXCEPT ![c] = [Settled(seq[c]) EXCEPT !.stage = "done"]]
             /\ store' = SettleFork(store, seq[c])
             /\ held' = Contents(IF seq[c].fork
                                  THEN [held EXCEPT ![store.img[seq[c].write].dev] =
                                                        held[store.img[seq[c].read].dev]]
                                  ELSE held)
             /\ Checked(CanSettle(store, seq[c]))
    <2>1. CASE ~seq[c].fork
      <3>1. PICK p : p = [seq[c] EXCEPT !.stage = "done"]
        OBVIOUS
      <3>2. Restages(seq[c], p) /\ ~p.fork
        BY <1>2, <2>1, <3>1, ExactHitFields, Zenon DEF Restages
      <3>3. seq' = [seq EXCEPT ![c] = p] /\ store' = store /\ held' = Contents(held) /\ CanSettle(store, seq[c])
        BY <1>4, <2>1, <3>1 DEF Settled, SettleFork, CanSettle
      <3>4. Live'
        BY <1>1, <3>2, <3>3, RestagedKeeps
      <3> QED BY <1>4, <3>3, <3>4 DEF Checked
    <2>2. CASE seq[c].fork
      <3>1. Forker(store, held, seq[c])
        BY <1>2, <2>2, SeqCases
      <3>2. PICK p : p = [Bind(seq[c], seq[c].write) EXCEPT !.stage = "done"]
        OBVIOUS
      <3>3. InPlace(seq[c], p) /\ p \in SeqRecord /\ p.pos = seq[c].pos /\ p.refs = seq[c].refs
        BY <1>2, <3>1, <3>2, ExactHitFields, Zenon DEF Forker
      <3>4. /\ seq' = [seq EXCEPT ![c] = p] /\ seq[c].pos \in Nat
            /\ held' = Contents([held EXCEPT ![store.img[seq[c].write].dev] = seq[c].pos])
        BY <1>2, <1>4, <2>2, <3>1, <3>2 DEF Settled, Forker, SeqRecord
      <3>5. (\E z, R : Opened(z, R))' /\ CanSettle(store, seq[c])
        BY <1>1, <1>2, <1>4, <2>2, <3>3, <3>4, ForkerExecutes
      <3>6. PICK R : R = seq'
        OBVIOUS
      <3>7. Borrows(R, shared)
        BY <1>1, <1>2, <3>3, <3>4, <3>6, BorrowsRestaged DEF InPlace
      <3> QED BY <1>1, <1>4, <3>5, <3>6, <3>7 DEF Live, Reserved, Checked
    <2> QED BY <2>1, <2>2
  <1> QED BY <1>3, <1>4 DEF ExactHit

(* Only the borrow counts of the shared prefixes differ.                   *)
Unborrowed(SH, SI) ==
    /\ SI \in [SharedSlots -> PrefixRecord]
    /\ \A x \in SharedSlots : SamePrefix(SH[x], SI[x]) /\ SI[x].role = SH[x].role

(* A lane that ends gives back the prefixes it borrows.                    *)
LEMMA UnborrowKeeps ==
    ASSUME NEW Q, NEW R, NEW SH, NEW SI, Borrows(Q, SH), Q \in [Conts -> SeqRecord],
           SH \in [SharedSlots -> PrefixRecord], NEW c \in Conts, Q[c].role = "Active",
           SameSeqs(Q, R, c), R[c].role # "Active", SI = Unborrow(SH, Q[c])
    PROVE  Borrows(R, SI) /\ Unborrowed(SH, SI)
  <1>1. SUFFICES ASSUME NEW x \in SharedSlots
                 PROVE  /\ SI[x] \in PrefixRecord /\ SamePrefix(SH[x], SI[x]) /\ SI[x].role = SH[x].role
                        /\ SI[x].active = Cardinality({d \in Conts : R[d].role = "Active" /\ x \in R[d].refs})
                        /\ SI[x].role # "Catalogued" => SI[x].active = 0
    BY DEF Borrows, Unborrow, Unborrowed
  <1>2. PICK B : B = {d \in Conts : Q[d].role = "Active" /\ x \in Q[d].refs}
    OBVIOUS
  <1>3. IsFiniteSet(B) /\ SH[x].active = Cardinality(B) /\ Cardinality(B) \in Nat
    BY <1>2, ContextAssumption, FS_Subset, FS_CardinalityType DEF Borrows
  <1>4. {d \in Conts : R[d].role = "Active" /\ x \in R[d].refs} = B \ {c}
    BY <1>2 DEF SameSeqs
  <1>5. CASE x \in Q[c].refs
    <2>1. c \in B
      BY <1>2, <1>5
    <2>2. Cardinality(B \ {c}) = Cardinality(B) - 1
      BY <1>3, <2>1, FS_RemoveElement
    <2>3. Cardinality(B) # 0
      BY <1>3, <2>1, FS_EmptySet
    <2>4. SI[x] = [SH[x] EXCEPT !.active = SH[x].active - 1]
      BY <1>5 DEF Unborrow
    <2>5. SH[x] \in PrefixRecord /\ SH[x].active - 1 \in Nat
      BY <1>3, <2>3
    <2>6. SI[x] \in PrefixRecord /\ SI[x].role = SH[x].role /\ SI[x].img = SH[x].img /\ SI[x].f = SH[x].f
          /\ SI[x].active = SH[x].active - 1
      BY <2>4, <2>5 DEF PrefixRecord
    <2>7. SH[x].role = "Catalogued"
      BY <1>3, <2>3 DEF Borrows
    <2> QED BY <1>3, <1>4, <2>2, <2>6, <2>7 DEF SamePrefix
  <1>6. CASE x \notin Q[c].refs
    <2>1. SI[x] = SH[x] /\ B \ {c} = B
      BY <1>2, <1>6 DEF Unborrow
    <2>2. SH[x] \in PrefixRecord
      OBVIOUS
    <2> QED BY <1>3, <1>4, <2>1, <2>2 DEF SamePrefix, Borrows
  <1> QED BY <1>5, <1>6

(* Changing borrow counts keeps a state consistent.                        *)
LEMMA PrefixesRestated ==
    ASSUME NEW s, NEW Q, NEW SH, NEW SI, NEW g, Consistent(s, Q, SH, g), SI \in [SharedSlots -> PrefixRecord],
           \A x \in SharedSlots : SamePrefix(SH[x], SI[x])
    PROVE  Consistent(s, Q, SI, g)
  <1>1. Typed(Q, SI, g)
    BY DEF Consistent, Typed
  <1>2. SameContents(s, g, g)
    BY DEF SameContents
  <1>3. \A d \in Conts : Q[d].fork => Q[d].stage # "done"
    BY SeqCases DEF Forker
  <1>4. \A d \in Conts : SameBinding(Q[d], Q[d])
    BY <1>3 DEF SameBinding
  <1> QED BY <1>1, <1>2, <1>4, Restate

(* The lane becomes a catalogued sequence.                                 *)
Becomes(q, p) ==
    /\ p \in SeqRecord /\ p.role = "Catalogued" /\ p.read = q.read /\ p.write = q.write
    /\ p.own = q.own /\ p.pos = q.pos /\ p.rw = q.rw /\ p.rwf = q.rwf
    /\ p.valid /\ p.fork = q.fork

(* What finish() leaves in the lane's record.                              *)
LEMMA Catalogues ==
    ASSUME NEW q \in SeqRecord, NEW p,
           p = [q EXCEPT !.role = "Catalogued", !.valid = TRUE, !.refs = {}, !.stage = "idle",
                         !.fresh = FALSE, !.offer = FALSE]
    PROVE  Becomes(q, p)
  <1>1. p \in SeqRecord /\ p.role = "Catalogued" /\ p.read = q.read /\ p.write = q.write
           /\ p.own = q.own /\ p.pos = q.pos /\ p.rw = q.rw /\ p.rwf = q.rwf
    BY DEF SeqRecord
  <1>2. p.valid /\ p.fork = q.fork
    BY DEF SeqRecord
  <1> QED BY <1>1, <1>2 DEF Becomes

(* The writer of a lane can be frozen, whatever the other lanes fork.      *)
LEMMA WriterFreezes ==
    ASSUME NEW s, NEW Q, NEW SH, NEW g, Consistent(s, Q, SH, g), NEW c \in Conts, Writer(s, g, Q[c])
    PROVE  /\ Q[c].read \in Images /\ CanFreeze(s, Q[c].read) /\ Q[c].rw # Q[c].read
           /\ s.img[Q[c].read].role = "ActiveMutable"
  <1>1. Q[c].read \in Images /\ s.img[Q[c].read].role = "ActiveMutable" /\ s.img[Q[c].read].from = None
    BY DEF Writer
  <1>2. s.img[Q[c].read].dev # None
    BY <1>1, ActiveOnDevice
  <1>3. \A d \in Conts : Q[d].fork => Q[d].read # Q[c].read
    BY <1>1, ForkFacts DEF CanCommitFork, Immutable
  <1>4. Quiet(s.img[Q[c].read])
    BY <1>1, <1>3, Unpinned, QuietImage
  <1>5. Q[c].rw # Q[c].read
    BY OwnedAlone
  <1> QED BY <1>1, <1>2, <1>4, <1>5 DEF CanFreeze

(* finish() keeps the invariant and throws nothing.                        *)
LEMMA FinishKeeps ==
    ASSUME Live, fault = "none", NEW c \in Conts, Finish(c)
    PROVE  Live' /\ fault' = "none"
  <1>1. txn.kind = "none" /\ seq[c].role = "Active" /\ seq[c].stage = "done" /\ txn' = txn /\ flight' = flight
        /\ held' = Contents(held) /\ shared' = Unborrow(shared, seq[c])
    BY DEF Finish, Idle, Active
  <1>2. /\ Consistent(store, seq, shared, held) /\ FlightTo(store.freeHost) /\ txn = NoTxn
        /\ Typed(seq, shared, held)
        /\ seq \in [Conts -> SeqRecord] /\ Borrows(seq, shared) /\ seq[c] \in SeqRecord /\ Sound(store)
        /\ shared \in [SharedSlots -> PrefixRecord]
    BY <1>1, IdleFacts
  <1>3. Writer(store, held, seq[c])
    BY <1>1, <1>2, SeqCases DEF Forker
  <1>4. PICK w \in Images : w = seq[c].read /\ CanFreeze(store, w) /\ seq[c].rw # w /\ store.img[w].role = "ActiveMutable"
    BY <1>2, <1>3, WriterFreezes
  <1>5. PICK p : p = [seq[c] EXCEPT !.role = "Catalogued", !.valid = TRUE, !.refs = {}, !.stage = "idle",
                         !.fresh = FALSE, !.offer = FALSE]
    OBVIOUS
  <1>6. seq' = [seq EXCEPT ![c] = p] /\ store' = Freeze(store, w) /\ ~seq[c].fork
    BY <1>3, <1>4, <1>5 DEF Finish, Writer
  <1>7. fault' = fault
    BY <1>4, <1>6 DEF Finish, Checked
  <1>8. /\ p \in SeqRecord /\ p.role = "Catalogued" /\ p.read = w /\ p.write = w
        /\ p.own = "Primary" /\ p.pos = seq[c].pos /\ p.rw = seq[c].rw /\ p.rwf = seq[c].rwf
        /\ p.valid /\ ~p.fork
    <2>1. Becomes(seq[c], p)
      BY <1>2, <1>5, Catalogues, Zenon
    <2> QED BY <1>3, <1>4, <2>1 DEF Writer, Becomes
  <1>9. PICK R : R = [seq EXCEPT ![c] = p]
    OBVIOUS
  <1>10. Typed(R, shared, held) /\ R[c] = p /\ SameSeqs(seq, R, c)
    BY <1>2, <1>8, <1>9, TypedSeq
  <1>11. PICK r : r = Freeze(store, w)
    OBVIOUS
  <1>12. /\ Sound(r) /\ SameImages(store, r, {w}) /\ r.freeHost = store.freeHost
         /\ r.img[w] = [store.img[w] EXCEPT !.role = "CheckpointImmutable"]
    <2>1. Sound(r) /\ SameImages(store, r, {w}) /\ r.freeHost = store.freeHost
      BY <1>2, <1>4, <1>11, FreezeBegins
    <2>2. r.img[w] = [store.img[w] EXCEPT !.role = "CheckpointImmutable"]
      BY <1>2, <1>11 DEF Freeze, Sound, Store
    <2> QED BY <2>1, <2>2
  <1>13. Consistent(r, R, shared, held)
    BY <1>2, <1>3, <1>4, <1>8, <1>10, <1>12, FreezeLane
  <1>14. PICK SI : SI = shared'
    OBVIOUS
  <1>15. Borrows(R, SI) /\ Unborrowed(shared, SI)
    <2>1. R[c].role # "Active"
      BY <1>8, <1>10
    <2> QED BY <1>1, <1>2, <1>10, <1>14, <2>1, UnborrowKeeps
  <1>16. Consistent(r, R, SI, held)
    BY <1>13, <1>15, PrefixesRestated DEF Unborrowed
  <1>17. \A x \in SharedSlots : SI[x].role \notin {"ReservedCapture", "ReservedReplacement"}
    BY <1>1, <1>15, IdleFacts DEF Unborrowed
  <1>18. Live'
    BY <1>1, <1>2, <1>6, <1>9, <1>11, <1>12, <1>14, <1>15, <1>16, <1>17, IdleFacts, LiveIdle
  <1> QED BY <1>7, <1>18

(* A free sequence record binds nothing.                                   *)
LEMMA FreeSeqType ==
    FreeSeq \in SeqRecord /\ Headless(FreeSeq) /\ FreeSeq.rw = None /\ FreeSeq.role = "Free" /\ FreeSeq.refs = {}
  BY DEF FreeSeq, SeqRecord, Headless

(* Clearing a lane keeps the invariant; it may fail only with the abort of *)
(* a lane that cannot be released.                                         *)
LEMMA ClearKeeps ==
    ASSUME Live, fault = "none", NEW c \in Conts, txn.kind = "none", seq[c].role = "Active", ClearLane(c)
    PROVE  Live' /\ fault' \in {"none", "abort"}
  <1>1. txn' = txn /\ flight' = flight /\ held' = Contents(held)
    BY DEF ClearLane
  <1>2. /\ Consistent(store, seq, shared, held) /\ FlightTo(store.freeHost) /\ txn = NoTxn
        /\ Typed(seq, shared, held)
        /\ seq \in [Conts -> SeqRecord] /\ Borrows(seq, shared) /\ seq[c] \in SeqRecord /\ Sound(store)
        /\ shared \in [SharedSlots -> PrefixRecord]
    BY IdleFacts
  <1>3. CASE CanClearLane(store, seq[c])
    <2>1. /\ store' = ReleaseState(store, seq[c]) /\ seq' = [seq EXCEPT ![c] = FreeSeq]
          /\ shared' = Unborrow(shared, seq[c]) /\ fault' = fault
      BY <1>3 DEF ClearLane
    <2>2. PICK R : R = [seq EXCEPT ![c] = FreeSeq]
      OBVIOUS
    <2>3. Typed(R, shared, held) /\ R[c] = FreeSeq /\ SameSeqs(seq, R, c)
      BY <1>2, <2>2, TypedSeq, FreeSeqType
    <2>4. PICK B : B = {seq[c].read, seq[c].write}
      OBVIOUS
    <2>5. PICK r : r = Released(store, seq[c], B)
      OBVIOUS
    <2>6. Consistent(r, R, shared, held) /\ store.freeHost \subseteq r.freeHost
      BY <1>2, <2>3, <2>4, <2>5, FreeSeqType, LaneReleased
    <2>7. PICK SI : SI = shared'
      OBVIOUS
    <2>8. Borrows(R, SI) /\ Unborrowed(shared, SI)
      <3>1. R[c].role # "Active"
        BY <2>3, FreeSeqType
      <3> QED BY <1>2, <2>1, <2>3, <2>7, <3>1, UnborrowKeeps
    <2>9. Consistent(r, R, SI, held)
      BY <2>6, <2>8, PrefixesRestated DEF Unborrowed
    <2>10. \A x \in SharedSlots : SI[x].role \notin {"ReservedCapture", "ReservedReplacement"}
      BY <2>8, IdleFacts DEF Unborrowed
    <2>11. FlightTo(r.freeHost) /\ store' = r
      BY <1>2, <2>1, <2>4, <2>5, <2>6 DEF FlightTo, ReleaseState
    <2>12. Live'
      BY <1>1, <1>2, <2>1, <2>2, <2>7, <2>8, <2>9, <2>10, <2>11, IdleFacts, LiveIdle
    <2> QED BY <2>1, <2>12
  <1>4. CASE ~CanClearLane(store, seq[c])
    <2>1. store' = store /\ seq' = seq /\ shared' = shared /\ fault' = "abort"
      BY <1>4 DEF ClearLane
    <2>2. Live'
      BY <1>1, <1>2, <2>1, IdleFacts, LiveIdle
    <2> QED BY <2>1, <2>2
  <1> QED BY <1>3, <1>4

(* Every pressure step a plan may choose is legal and spares what it was   *)
(* told to spare.                                                          *)
LEMMA PressureOffered ==
    ASSUME NEW spared, NEW image, NEW v, v \in PressureOptions(spared, image), Sound(store)
    PROVE  /\ PressureOK(store, v) /\ (v.op # "none" => v.who \notin spared)
           /\ v.op \in {"dropDevice", "demote"} => v.img # image /\ Exclusive(v.who, v.img)
           /\ v.op = "none" => v = NoPressure
  <1>1. CASE v = NoPressure
    BY <1>1 DEF NoPressure, PressureOK, PressureRecord
  <1>2. CASE v # NoPressure
    <2>1. /\ v \in [op : {"evict", "dropEndpoint", "dropRewrite", "dropHost", "dropDevice", "demote"},
                    who : (Conts \cup SharedSlots) \ spared, img : Images]
          /\ IdleOwner(v.who) /\ v.img \in OwnerImages(v.who) /\ Placed(store, v.img)
          /\ v.op \in {"dropDevice", "demote"} => v.img # image /\ Exclusive(v.who, v.img)
          /\ LET o == store.img[v.img]
             IN  CASE v.op = "evict" -> v.img = Least(OwnerImages(v.who))
                 [] v.op = "dropEndpoint" -> v.who \in Conts /\ v.img = seq[v.who].read
                                             /\ seq[v.who].rw # None
                 [] v.op = "dropRewrite" -> v.who \in Conts /\ v.img = seq[v.who].rw
                                            /\ seq[v.who].valid
                 [] v.op \in {"dropHost", "dropDevice"} -> CanDropReplica(store, v.img)
                 [] v.op = "demote" -> o.dev # None /\ o.host = None /\ store.freeHost # {}
      BY <1>2 DEF PressureOptions
    <2>2. /\ v.op = "dropEndpoint" => v.who \in Conts /\ v.img = seq[v.who].read
          /\ v.op = "dropRewrite" => v.who \in Conts /\ v.img = seq[v.who].rw
          /\ v.op \in {"dropHost", "dropDevice"} => CanDropReplica(store, v.img)
          /\ v.op = "demote" => store.img[v.img].dev # None /\ store.img[v.img].host = None /\ store.freeHost # {}
      BY <2>1
    <2>3. /\ v \in PressureRecord /\ v.who # None /\ v.img # None /\ v.op # "none" /\ v.who \notin spared
      BY <2>1, ContextAssumption, StoreAssumption DEF PressureRecord
    <2>4. PressureOK(store, v)
      BY <2>1, <2>2, <2>3 DEF PressureOK
    <2> QED BY <2>1, <2>3, <2>4
  <1> QED BY <1>1, <1>2

\* the plan u is the plan t with its pressure, its base and whether it forks
Completes(t, u, v, n, f) ==
    /\ u \in StartRecord
    /\ u.kind = "start" /\ u.phase = "reserved" /\ u.dest = t.dest /\ u.mode = t.mode /\ u.path = t.path
    /\ u.source = t.source /\ u.preserve = t.preserve /\ u.pressure = v /\ u.base = n /\ u.fork = f
    /\ u.image = None

(* What completing a plan leaves in its record.                            *)
LEMMA PlanFields ==
    ASSUME NEW t \in Plans, NEW v \in PressureRecord, NEW n \in Nat, NEW f \in BOOLEAN,
           NEW u, u = [t EXCEPT !.pressure = v, !.base = n, !.fork = f]
    PROVE  Completes(t, u, v, n, f)
  <1>1. t \in [kind : {"start"}, phase : {"reserved"}, dest : Conts,
            mode : {"Root", "Retain", "Consume"}, path : {"root", "endpoint", "rewrite", "shared"},
            source : Conts \cup SharedSlots \cup {None}, preserve : BOOLEAN,
            pressure : {NoPressure}, base : {0}, fork : {FALSE}, image : {None},
            restore : {FALSE}]
    BY DEF Plans
  <1>2. u \in StartRecord
    BY <1>1 DEF StartRecord
  <1>3. /\ u.kind = "start" /\ u.phase = "reserved" /\ u.dest = t.dest /\ u.mode = t.mode /\ u.path = t.path
        /\ u.source = t.source /\ u.pressure = v /\ u.base = n /\ u.image = None
    BY <1>1
  <1>4. u.preserve = t.preserve /\ u.fork = f
    BY <1>1
  <1> QED BY <1>2, <1>3, <1>4 DEF Completes

(* What the kind of a plan says about its source and destination.          *)
LEMMA PlanShape ==
    ASSUME NEW t \in Plans
    PROVE  /\ Shaped(t) /\ t.dest \in Conts
           /\ t.path \in {"endpoint", "rewrite"} => t.source \in Conts /\ seq[t.source].role = "Catalogued"
           /\ t.path = "endpoint" => seq[t.source].valid
           /\ t.path = "rewrite" => seq[t.source].rw # None
           /\ t.path = "shared" => t.mode = "Retain" /\ t.source \in SharedSlots /\ shared[t.source].role = "Catalogued"
           /\ (t.mode = "Root") = (t.path = "root") /\ (t.source = None) = (t.path = "root")
           /\ t.mode = "Consume" => t.dest = t.source
           /\ t.mode # "Consume" => seq[t.dest].role \in {"Free", "Catalogued"} /\ t.dest # t.source
           /\ t.preserve => t.mode = "Consume" /\ seq[t.source].rw # None
  BY DEF Plans, Shaped, Catalogued

(* The completed plan selects what the plan did.                           *)
LEMMA SamePlan ==
    ASSUME NEW s, NEW t, NEW u, u.path = t.path, u.source = t.source, u.mode = t.mode, u.preserve = t.preserve,
           Shaped(t)
    PROVE  Selected(u) = Selected(t) /\ (RequiresFork(s, u) <=> RequiresFork(s, t))
  <1>1. Selected(u) = Selected(t)
    BY DEF Selected, Shaped
  <1> QED BY <1>1 DEF RequiresFork

(* Without an unsettled fork there is none.                                *)
LEMMA NoneForks ==
    ASSUME NEW s, NEW SH, NEW g, Consistent(s, seq, SH, g), ~UnsettledFork
    PROVE  NoForks(seq)
  BY SeqCases DEF UnsettledFork, NoForks, Active, Forker

(* Reserving a start keeps the invariant.                                  *)
LEMMA ReserveStartKeeps ==
    ASSUME Live, ReserveStart
    PROVE  Live' /\ fault' = fault
  <1>1. /\ txn.kind = "none" /\ ~UnsettledFork
        /\ store' = store /\ shared' = shared /\ held' = held /\ flight' = flight /\ fault' = fault
    BY DEF ReserveStart, Idle
  <1>2. /\ Consistent(store, seq, shared, held) /\ FlightTo(store.freeHost) /\ txn = NoTxn
        /\ seq \in [Conts -> SeqRecord] /\ Borrows(seq, shared) /\ Sound(store) /\ Typed(seq, shared, held)
        /\ shared \in [SharedSlots -> PrefixRecord] /\ flight \in Seq(Copies) /\ NoForks(seq)
    BY <1>1, IdleFacts, NoneForks
  <1>29. PICK t \in Plans : \E v \in PressureOptions({t.source}, Selected(t)) : \E u :
           /\ u = [t EXCEPT !.pressure = v, !.base = Base(t), !.fork = RequiresFork(PressedStore(store, v), t)]
           /\ \/ t.mode = "Consume" \/ seq[t.dest].role = "Free"
              \/ (\A c \in Conts : seq[c].role # "Free") /\ WaitsForVictim(t, v)
           /\ Fits(IF t.mode = "Consume" THEN ConsumedStore(PressedStore(store, v), u) ELSE PressedStore(store, v), u)
           /\ txn' = u
           /\ seq' = IF seq[t.dest].role = "Free" THEN [seq EXCEPT ![t.dest].role = "Reserved"]
                                                     ELSE seq
    BY Zenon DEF ReserveStart
  <1>30. PICK v \in PressureOptions({t.source}, Selected(t)) : \E u :
           /\ u = [t EXCEPT !.pressure = v, !.base = Base(t), !.fork = RequiresFork(PressedStore(store, v), t)]
           /\ \/ t.mode = "Consume" \/ seq[t.dest].role = "Free"
              \/ (\A c \in Conts : seq[c].role # "Free") /\ WaitsForVictim(t, v)
           /\ Fits(IF t.mode = "Consume" THEN ConsumedStore(PressedStore(store, v), u) ELSE PressedStore(store, v), u)
           /\ txn' = u
           /\ seq' = IF seq[t.dest].role = "Free" THEN [seq EXCEPT ![t.dest].role = "Reserved"]
                                                     ELSE seq
    BY <1>29, Zenon
  <1>3. PICK u :
           /\ u = [t EXCEPT !.pressure = v, !.base = Base(t), !.fork = RequiresFork(PressedStore(store, v), t)]
           /\ \/ t.mode = "Consume" \/ seq[t.dest].role = "Free"
              \/ (\A c \in Conts : seq[c].role # "Free") /\ WaitsForVictim(t, v)
           /\ Fits(IF t.mode = "Consume" THEN ConsumedStore(PressedStore(store, v), u) ELSE PressedStore(store, v), u)
           /\ txn' = u
           /\ seq' = IF seq[t.dest].role = "Free" THEN [seq EXCEPT ![t.dest].role = "Reserved"]
                                                     ELSE seq
    BY <1>30
  <1>4. PressureOK(store, v) /\ (v.op # "none" => v.who # t.source) /\ (v.op = "none" => v.who = None)
    BY <1>2, PressureOffered DEF NoPressure
  <1>5. /\ Shaped(t) /\ t.dest \in Conts
        /\ t.path \in {"endpoint", "rewrite"} => t.source \in Conts /\ seq[t.source].role = "Catalogued"
        /\ t.path = "endpoint" => seq[t.source].valid
        /\ t.path = "rewrite" => seq[t.source].rw # None
        /\ t.path = "shared" => t.mode = "Retain" /\ t.source \in SharedSlots /\ shared[t.source].role = "Catalogued"
        /\ (t.mode = "Root") = (t.path = "root") /\ (t.source = None) = (t.path = "root")
        /\ t.mode = "Consume" => t.dest = t.source
        /\ t.mode # "Consume" => seq[t.dest].role \in {"Free", "Catalogued"} /\ t.dest # t.source
        /\ t.preserve => t.mode = "Consume" /\ seq[t.source].rw # None
    BY PlanShape
  <1>6. Base(t) \in Nat /\ RequiresFork(PressedStore(store, v), t) \in BOOLEAN
    BY <1>2, <1>5 DEF Base, Shaped, SeqRecord, PrefixRecord, RequiresFork
  <1>7. PICK n \in Nat, f \in BOOLEAN : n = Base(t) /\ f = RequiresFork(PressedStore(store, v), t)
    BY <1>6
  <1>8. Completes(t, u, v, n, f)
    <2>1. v \in PressureRecord /\ u = [t EXCEPT !.pressure = v, !.base = n, !.fork = f]
      BY <1>3, <1>4, <1>7 DEF PressureOK
    <2> QED BY <2>1, PlanFields, Zenon
  <1>9. Shaped(u) /\ Selected(u) = Selected(t)
    BY <1>5, <1>8, SamePlan DEF Completes, Shaped
  <1>10. PICK z : z = PressedStore(store, v)
    OBVIOUS
  <1>11. u.fork <=> RequiresFork(z, u)
    BY <1>5, <1>7, <1>8, <1>10, SamePlan DEF Completes
  <1>12. Promised(z, u)
    <2>1. Fits(Consumed(z, u), u)
      BY <1>3, <1>8, <1>10 DEF Consumed, Completes
    <2> QED BY <1>11, <2>1 DEF Promised
  <1>13. /\ \A c \in Conts : c # t.dest => seq'[c] = seq[c]
         /\ seq[t.dest].role # "Free" => seq' = seq
         /\ seq[t.dest].role = "Free" => seq'[t.dest] = [seq[t.dest] EXCEPT !.role = "Reserved"]
         /\ seq' \in [Conts -> SeqRecord]
    <2>1. CASE seq[t.dest].role = "Free"
      <3>1. seq' = [seq EXCEPT ![t.dest] = [seq[t.dest] EXCEPT !.role = "Reserved"]]
        BY <1>2, <1>3, <2>1
      <3>2. [seq[t.dest] EXCEPT !.role = "Reserved"] \in SeqRecord
        <4>1. PICK q : q = seq[t.dest] /\ q \in SeqRecord
          BY <1>2, <1>5
        <4>2. [q EXCEPT !.role = "Reserved"] \in SeqRecord
          BY <4>1 DEF SeqRecord
        <4> QED BY <4>1, <4>2
      <3> QED BY <1>2, <1>5, <2>1, <3>1, <3>2
    <2>2. CASE seq[t.dest].role # "Free"
      BY <1>2, <1>3, <2>2
    <2> QED BY <2>1, <2>2
  <1>14. t.path # "root" => Unmoved(t.source)
    BY <1>1, <1>5, <1>13, ContextAssumption DEF Unmoved, Shaped
  <1>15. v.op # "none" => Unmoved(v.who)
    <2>1. v.op # "none" /\ v.who \in Conts => seq[v.who].role = "Catalogued"
      BY <1>4 DEF PressureOK, IdleOwner
    <2> QED BY <1>1, <1>13, <2>1 DEF Unmoved
  <1>16. PressureOK(store, v)' /\ PressedStore(store, v)' = z
    <2>1. PICK s : s = store
      OBVIOUS
    <2>2. PressureOK(s, v)' /\ PressedStore(s, v)' = PressedStore(s, v)
      BY <1>4, <1>15, <2>1, StablePressure
    <2> QED BY <1>1, <1>10, <2>1, <2>2
  <1>17. Promised(z, u)'
    BY <1>8, <1>9, <1>12, <1>14, ShapedPromise DEF Completes
  <1>18. PICK R : R = seq'
    OBVIOUS
  <1>19. Consistent(store, R, shared, held) /\ NoForks(R) /\ Borrows(R, shared)
    <2>1. CASE seq[t.dest].role # "Free"
      BY <1>2, <1>13, <1>18, <2>1
    <2>2. CASE seq[t.dest].role = "Free"
      <3>1. Headless(seq[t.dest]) /\ seq[t.dest] \in SeqRecord /\ seq[t.dest].rw = None
        BY <1>2, <1>5, <2>2, SeqCases
      <3>2. /\ R[t.dest].role = "Reserved" /\ R[t.dest].read = seq[t.dest].read /\ R[t.dest].write = seq[t.dest].write
            /\ R[t.dest].own = seq[t.dest].own /\ R[t.dest].rw = seq[t.dest].rw
        BY <1>5, <1>13, <1>18, <2>2, <3>1 DEF SeqRecord
      <3>3. R[t.dest].fork = seq[t.dest].fork /\ R[t.dest].valid = seq[t.dest].valid
        BY <1>5, <1>13, <1>18, <2>2, <3>1 DEF SeqRecord
      <3>4. SameBinding(seq[t.dest], R[t.dest]) /\ ~R[t.dest].fork
        BY <3>1, <3>2, <3>3 DEF SameBinding, Headless
      <3>5. \A d \in Conts : SameBinding(seq[d], R[d])
        BY <1>2, <1>13, <1>18, <3>4 DEF SameBinding, NoForks
      <3>6. Typed(R, shared, held) /\ SameContents(store, held, held)
        BY <1>2, <1>13, <1>18 DEF Typed, SameContents
      <3>7. \A x \in SharedSlots : SamePrefix(shared[x], shared[x])
        BY DEF SamePrefix
      <3>8. Consistent(store, R, shared, held)
        BY <1>2, <3>5, <3>6, <3>7, Restate
      <3>9. NoForks(R)
        BY <1>2, <1>13, <1>18, <3>4 DEF NoForks
      <3>10. \A x \in SharedSlots : {d \in Conts : R[d].role = "Active" /\ x \in R[d].refs}
                                  = {d \in Conts : seq[d].role = "Active" /\ x \in seq[d].refs}
        BY <1>13, <1>18, <2>2, <3>2
      <3>11. Borrows(R, shared)
        BY <1>2, <3>10 DEF Borrows
      <3> QED BY <3>8, <3>9, <3>11
    <2> QED BY <2>1, <2>2
  <1>20. Planned(u)'
    <2>1. /\ u \in StartRecord /\ u.kind = "start" /\ u.phase = "reserved" /\ u.dest = t.dest /\ u.mode = t.mode /\ u.path = t.path
          /\ u.source = t.source /\ u.preserve = t.preserve /\ u.pressure = v /\ u.base = n
      BY <1>8 DEF Completes
    <2>2. t.path \in {"endpoint", "rewrite"} => seq'[t.source] = seq[t.source]
      BY <1>14, <1>5 DEF Unmoved
    <2>3. n = Base(t)
      BY <1>7
    <2>4. /\ u.path = "endpoint" => /\ u.source \in Conts /\ seq'[u.source].role = "Catalogued"
                              /\ seq'[u.source].valid /\ u.base = seq'[u.source].pos
          /\ u.path = "rewrite" => /\ u.source \in Conts /\ seq'[u.source].role = "Catalogued"
                             /\ seq'[u.source].rw # None /\ u.base = seq'[u.source].rwf
          /\ u.path = "shared" => /\ u.mode = "Retain" /\ u.source \in SharedSlots
                            /\ shared'[u.source].role = "Catalogued" /\ u.base = shared'[u.source].f
          /\ u.path = "root" => u.base = 0
      BY <1>1, <1>5, <2>1, <2>2, <2>3 DEF Base
    <2>5. u.mode # "Consume" => /\ u.dest # u.source
                                /\ \/ seq'[u.dest].role = "Reserved"
                                   \/ u.phase = "reserved" /\ u.pressure.op = "evict" /\ u.pressure.who = u.dest
      <3>1. CASE seq[t.dest].role = "Free"
        <4>1. seq[t.dest] \in SeqRecord
          BY <1>2, <1>5
        <4>2. seq'[t.dest].role = "Reserved"
          BY <1>13, <3>1, <4>1 DEF SeqRecord
        <4> QED BY <1>5, <2>1, <4>2
      <3>2. CASE seq[t.dest].role # "Free"
        BY <1>3, <1>5, <2>1, <3>2 DEF WaitsForVictim
      <3> QED BY <3>1, <3>2
    <2>6. u.preserve => u.mode = "Consume" /\ seq'[u.source].rw # None
      BY <1>5, <2>1, <2>2 DEF Shaped
    <2>7. u.path # "root" => u.pressure.who # u.source
      BY <1>4, <1>5, <2>1
    <2>8. u.mode = "Consume" => u.dest = u.source
      BY <1>5, <2>1
    <2>9. (u.mode = "Root") = (u.path = "root") /\ (u.source = None) = (u.path = "root")
      BY <1>5, <2>1
    <2> QED BY <2>1, <2>4, <2>5, <2>6, <2>7, <2>8, <2>9 DEF Planned
  <1>21. StartPhase(store, u)'
    <2>1. StartReserved(store, u)'
      BY <1>1, <1>2, <1>8, <1>16, <1>17 DEF StartReserved, Completes, FlightTo
    <2> QED BY <1>8, <1>20, <2>1 DEF StartPhase, Completes
  <1>22. PICK s : s = store
    OBVIOUS
  <1>23. Opened(s, R)'
    <2>1. Consistent(s, R, shared, held)' /\ txn'.kind = "start" /\ seq' = R /\ NoForks(R) /\ StartPhase(s, txn)'
      BY <1>1, <1>3, <1>8, <1>18, <1>19, <1>21, <1>22 DEF Completes
    <2> QED BY <2>1 DEF Opened
  <1>24. Reserved(txn)'
    BY <1>1, IdleFacts DEF Reserved
  <1> QED BY <1>1, <1>2, <1>18, <1>19, <1>23, <1>24 DEF Live

(* The capture record reserve made of a candidate.                         *)
Offers(t, u, v) ==
    /\ u \in CaptureRecord
    /\ u.kind = "capture" /\ u.phase = "reserved" /\ u.lane = t.lane /\ u.prefix = t.prefix
    /\ u.pressure = v /\ u.source = None /\ u.dest = None
    /\ u.priv = t.priv /\ u.repl = t.repl /\ ~u.removed
    /\ u.place = Placement(store, t)
    /\ u.recycle = Recycles(store, t)

(* What reserving a capture leaves in its record.                          *)
LEMMA CaptureFields ==
    ASSUME NEW c \in Conts, NEW t \in Captures(c), NEW v \in PressureRecord,
           NEW u, u = [t EXCEPT !.pressure = v, !.place = Placement(store, t), !.recycle = Recycles(store, t)]
    PROVE  Offers(t, u, v) /\ t.lane = c
  <1>1. t \in [kind : {"capture"}, phase : {"reserved"}, lane : {c}, priv : BOOLEAN,
            prefix : SharedSlots \cup {None}, repl : BOOLEAN, removed : {FALSE},
            place : {"none"}, recycle : {FALSE}, pressure : {NoPressure},
            source : {None}, dest : {None}]
    BY DEF Captures
  <1>2. PICK p, b : p = Placement(store, t) /\ b = Recycles(store, t)
    OBVIOUS
  <1>3. p \in {"DeviceFork", "HostSnapshot"} /\ b \in BOOLEAN
    BY <1>2 DEF Placement, Recycles
  <1>4. u = [t EXCEPT !.pressure = v, !.place = p, !.recycle = b]
    BY <1>2
  <1>5. u \in CaptureRecord
    <2>1. t \in [kind : {"capture"}, phase : {"reserved", "pressing", "ready", "copying"},
     lane : Conts, priv : BOOLEAN, prefix : SharedSlots \cup {None}, repl : BOOLEAN,
     removed : BOOLEAN, place : {"none", "DeviceFork", "HostSnapshot"}, recycle : BOOLEAN,
     pressure : PressureRecord, source : Images \cup {None}, dest : Images \cup {None}]
      <3>1. NoPressure \in PressureRecord
        BY DEF PressureRecord, NoPressure
      <3> QED BY <1>1, <3>1
    <2> QED BY <1>3, <1>4, <2>1 DEF CaptureRecord
  <1>6. /\ u.kind = "capture" /\ u.phase = "reserved" /\ u.lane = t.lane /\ u.prefix = t.prefix
        /\ u.pressure = v /\ u.source = None /\ u.dest = None /\ u.place = p /\ t.lane = c
    BY <1>1, <1>4
  <1>7. u.priv = t.priv /\ u.repl = t.repl /\ ~u.removed /\ u.recycle = b
    BY <1>1, <1>3, <1>4
  <1> QED BY <1>2, <1>5, <1>6, <1>7 DEF Offers

(* Reserving a capture while a fork is unsettled only reports the failure. *)
LEMMA ReservesNothing ==
    ASSUME Live, NEW c \in Conts, ReserveCapture(c), UnsettledFork
    PROVE  Live' /\ fault' = "reserve"
  <1>1. /\ txn.kind = "none" /\ seq' = seq /\ store' = store /\ shared' = shared /\ txn' = txn
        /\ flight' = flight /\ held' = held /\ fault' = "reserve"
    BY DEF ReserveCapture, Idle
  <1>2. seq \in [Conts -> SeqRecord] /\ Consistent(store, seq, shared, held)
    BY <1>1, IdleFacts
  <1>3. Restages(seq[c], seq[c]) /\ (seq[c].fork => seq[c].stage # "done")
    BY <1>2, SeqCases DEF Restages, Forker
  <1>4. seq' = [seq EXCEPT ![c] = seq[c]]
    BY <1>1, <1>2
  <1> QED BY <1>1, <1>3, <1>4, RestagedKeeps

\* the shared slot of a capture is reserved
SlotReserved(SH, SI, t) ==
    /\ SI \in [SharedSlots -> PrefixRecord]
    /\ \A x \in SharedSlots :
          /\ SamePrefix(SH[x], SI[x]) /\ SI[x].active = SH[x].active
          /\ x # t.prefix => SI[x] = SH[x]
          /\ x = t.prefix => SI[x].role = IF t.repl THEN "ReservedReplacement" ELSE "ReservedCapture"

(* What reserving a capture leaves in the shared slot.                     *)
LEMMA PrefixReserved ==
    ASSUME NEW SH \in [SharedSlots -> PrefixRecord], NEW t, NEW SI,
           t.prefix # None => t.prefix \in SharedSlots, t.repl \in BOOLEAN,
           t.prefix # None /\ t.repl => SH[t.prefix].role = "Catalogued",
           t.prefix # None /\ ~t.repl => SH[t.prefix].role = "Free",
           SI = IF t.prefix = None THEN SH
                                   ELSE [SH EXCEPT ![t.prefix].role =
                                           IF t.repl THEN "ReservedReplacement"
                                                     ELSE "ReservedCapture"]
    PROVE  SlotReserved(SH, SI, t)
  <1>1. CASE t.prefix = None
    BY <1>1, ContextAssumption DEF SlotReserved, SamePrefix
  <1>2. CASE t.prefix # None
    <2>1. PICK x \in SharedSlots : x = t.prefix
      BY <1>2
    <2>2. PICK n \in {"ReservedReplacement", "ReservedCapture"} : n = IF t.repl THEN "ReservedReplacement" ELSE "ReservedCapture"
      OBVIOUS
    <2>3. PICK p : p = SH[x] /\ p \in PrefixRecord
      OBVIOUS
    <2>4. PICK o : o = [p EXCEPT !.role = n]
      OBVIOUS
    <2>5. SI = [SH EXCEPT ![x] = o]
      BY <1>2, <2>1, <2>2, <2>3, <2>4
    <2>6. o \in PrefixRecord /\ o.role = n /\ o.img = p.img /\ o.f = p.f /\ o.active = p.active
      BY <2>2, <2>3, <2>4 DEF PrefixRecord
    <2>7. SI \in [SharedSlots -> PrefixRecord] /\ SI[x] = o /\ \A y \in SharedSlots : y # x => SI[y] = SH[y]
      BY <2>5, <2>6
    <2>8. SamePrefix(SH[x], SI[x])
      BY <2>1, <2>2, <2>3, <2>6, <2>7 DEF SamePrefix
    <2> QED BY <2>1, <2>2, <2>3, <2>6, <2>7, <2>8 DEF SlotReserved, SamePrefix
  <1> QED BY <1>1, <1>2

(* Reserving a capture keeps the invariant.                                *)
LEMMA ReserveCaptureKeeps ==
    ASSUME Live, NEW c \in Conts, ReserveCapture(c), ~UnsettledFork
    PROVE  Live' /\ fault' = fault
  <1>1. /\ txn.kind = "none" /\ store' = store /\ held' = held /\ flight' = flight /\ fault' = fault
        /\ seq[c].role = "Active" /\ seq[c].stage \in {"prefill", "decode"}
        /\ seq' = [seq EXCEPT ![c].offer = FALSE]
    BY Zenon DEF ReserveCapture, Idle, Active
  <1>2. /\ Consistent(store, seq, shared, held) /\ FlightTo(store.freeHost) /\ txn = NoTxn
        /\ seq \in [Conts -> SeqRecord] /\ Borrows(seq, shared) /\ Sound(store)
        /\ shared \in [SharedSlots -> PrefixRecord] /\ flight \in Seq(Copies) /\ NoForks(seq)
        /\ \A x \in SharedSlots : shared[x].role \notin {"ReservedCapture", "ReservedReplacement"}
    BY <1>1, IdleFacts, NoneForks
  <1>3. PICK t \in Captures(c) :
          \E v \in IF t.prefix # None THEN PressureOptions({t.prefix}, None) ELSE {NoPressure} : \E u :
             /\ u = [t EXCEPT !.pressure = v, !.place = Placement(store, t), !.recycle = Recycles(store, t)]
             /\ CaptureFits(PressedStore(store, v), u)
             /\ txn' = u
             /\ shared' = IF t.prefix = None THEN shared
                                   ELSE [shared EXCEPT ![t.prefix].role =
                                           IF t.repl THEN "ReservedReplacement"
                                                     ELSE "ReservedCapture"]
    BY Zenon DEF ReserveCapture
  <1>40. PICK v \in IF t.prefix # None THEN PressureOptions({t.prefix}, None) ELSE {NoPressure} : \E u :
             /\ u = [t EXCEPT !.pressure = v, !.place = Placement(store, t), !.recycle = Recycles(store, t)]
             /\ CaptureFits(PressedStore(store, v), u)
             /\ txn' = u
             /\ shared' = IF t.prefix = None THEN shared
                                   ELSE [shared EXCEPT ![t.prefix].role =
                                           IF t.repl THEN "ReservedReplacement"
                                                     ELSE "ReservedCapture"]
    BY <1>3, Zenon
  <1>4. PICK u :
             /\ u = [t EXCEPT !.pressure = v, !.place = Placement(store, t), !.recycle = Recycles(store, t)]
             /\ CaptureFits(PressedStore(store, v), u)
             /\ txn' = u
             /\ shared' = IF t.prefix = None THEN shared
                                   ELSE [shared EXCEPT ![t.prefix].role =
                                           IF t.repl THEN "ReservedReplacement"
                                                     ELSE "ReservedCapture"]
    BY <1>40
  <1>5. /\ PressureOK(store, v) /\ (t.prefix # None => v.who # t.prefix)
    <2>1. CASE t.prefix # None
      BY <1>2, <1>4, <2>1, PressureOffered DEF NoPressure
    <2>2. CASE t.prefix = None
      BY <1>4, <2>2 DEF NoPressure, PressureOK, PressureRecord
    <2> QED BY <2>1, <2>2
  <1>6. Offers(t, u, v) /\ t.lane = c
    BY <1>4, <1>5, CaptureFields, Zenon DEF PressureOK
  <1>7. /\ t.priv \/ t.prefix # None
        /\ t.prefix = None => ~t.repl
        /\ t.prefix # None => t.prefix \in SharedSlots
        /\ t.repl \in BOOLEAN
        /\ t.prefix # None /\ t.repl => shared[t.prefix].role = "Catalogued" /\ shared[t.prefix].active = 0
        /\ t.prefix # None /\ ~t.repl => shared[t.prefix].role = "Free"
    BY DEF Captures, CanReleasePrefix
  <1>8. PICK SI : SI = shared'
    OBVIOUS
  <1>9. SlotReserved(shared, SI, t)
    BY <1>2, <1>4, <1>7, <1>8, PrefixReserved
  <1>10. PICK p : p = [seq[c] EXCEPT !.offer = FALSE]
    OBVIOUS
  <1>11. Restages(seq[c], p) /\ p.stage = seq[c].stage
    <2>1. PICK q : q = seq[c] /\ q \in SeqRecord
      BY <1>2
    <2>2. p = [q EXCEPT !.offer = FALSE]
      BY <1>10, <2>1
    <2>3. Restages(q, p) /\ p.stage = q.stage
      BY <2>1, <2>2 DEF Restages, SeqRecord
    <2> QED BY <2>1, <2>3
  <1>12. PICK R : R = seq'
    OBVIOUS
  <1>13. R = [seq EXCEPT ![c] = p]
    BY <1>1, <1>2, <1>10, <1>12
  <1>14. R \in [Conts -> SeqRecord] /\ R[c] = p /\ \A d \in Conts : d # c => R[d] = seq[d]
    BY <1>2, <1>11, <1>13 DEF Restages
  <1>15. Consistent(store, R, shared, held)
    BY <1>1, <1>2, <1>11, <1>13, SeqRestaged
  <1>16. Consistent(store, R, SI, held)
    BY <1>9, <1>15, PrefixesRestated DEF SlotReserved
  <1>17. NoForks(R)
    BY <1>2, <1>11, <1>14 DEF NoForks, Restages
  <1>18. Borrows(R, SI)
    <2>1. Borrows(R, shared)
      BY <1>2, <1>11, <1>13, BorrowsRestaged DEF Restages
    <2>2. \A x \in SharedSlots : SI[x].active = shared[x].active /\ (SI[x].role # "Catalogued" => SI[x].active = 0)
      <3>1. SUFFICES ASSUME NEW x \in SharedSlots
                     PROVE  SI[x].active = shared[x].active /\ (SI[x].role # "Catalogued" => SI[x].active = 0)
        OBVIOUS
      <3>2. SI[x].active = shared[x].active /\ (x # t.prefix => SI[x] = shared[x])
        BY <1>9 DEF SlotReserved
      <3>3. shared[x].role # "Catalogued" => shared[x].active = 0
        BY <1>2 DEF Borrows
      <3>4. x = t.prefix => shared[x].active = 0
        BY <1>7, <3>3, ContextAssumption
      <3> QED BY <3>2, <3>3, <3>4
    <2> QED BY <2>1, <2>2 DEF Borrows
  <1>19. v.op # "none" => Unmoved(v.who)
    <2>1. v.op # "none" => v.who # c
      BY <1>1, <1>5 DEF PressureOK, IdleOwner
    <2>2. v.op # "none" => v.who # t.prefix
      BY <1>5, ContextAssumption DEF PressureOK
    <2> QED BY <1>8, <1>9, <1>12, <1>14, <2>1, <2>2 DEF Unmoved, SlotReserved
  <1>20. PICK s : s = store
    OBVIOUS
  <1>21. PressureOK(s, v)' /\ PressedStore(s, v)' = PressedStore(s, v)
    BY <1>5, <1>19, <1>20, StablePressure
  <1>22. PICK z : z = PressedStore(s, v)
    OBVIOUS
  <1>23. CaptureFits(z, u)'
    <2>1. u.repl => shared'[u.prefix].img = shared[u.prefix].img
      BY <1>6, <1>7, <1>8, <1>9 DEF Offers, SlotReserved, SamePrefix
    <2> QED BY <1>4, <1>20, <1>22, <2>1, StableCapture
  <1>24. /\ u.recycle => CanRecycle(store, seq[c].rw) /\ u.priv /\ seq[c].rw # None
         /\ u.recycle => u.place = "DeviceFork"
    BY <1>6 DEF Offers, Recycles, Placement
  <1>25. CaptureReserved(s, u)'
    <2>1. seq'[u.lane].rw = seq[c].rw
      BY <1>6, <1>11, <1>12, <1>14 DEF Offers, Restages
    <2>2. Recyclable(s, u)'
      BY <1>20, <1>24, <2>1 DEF Recyclable
    <2>3. FlightTo(s.freeHost)'
      BY <1>1, <1>2, <1>20 DEF FlightTo
    <2>4. u.pressure = v /\ store' = s
      BY <1>1, <1>6, <1>20 DEF Offers
    <2> QED BY <1>21, <1>22, <1>23, <2>2, <2>3, <2>4 DEF CaptureReserved
  <1>26. Offered(u, R)'
    <2>1. /\ u \in CaptureRecord /\ u.phase = "reserved" /\ u.lane = c /\ u.prefix = t.prefix
          /\ u.pressure = v /\ u.source = None /\ u.dest = None /\ u.priv = t.priv /\ u.repl = t.repl /\ ~u.removed
      BY <1>6 DEF Offers
    <2>2. R[c].role = "Active" /\ R[c].stage \in {"prefill", "decode"} /\ R[c].rw = seq[c].rw
      BY <1>1, <1>11, <1>14 DEF Restages
    <2>3. u.prefix # None => shared'[u.prefix].role = IF u.repl /\ ~u.removed THEN "ReservedReplacement" ELSE "ReservedCapture"
      BY <1>7, <1>8, <1>9, <2>1 DEF SlotReserved
    <2>4. u.removed = (u.phase = "copying" /\ u.repl)
      BY <2>1 DEF CaptureRecord
    <2> QED BY <1>5, <1>7, <1>24, <2>1, <2>2, <2>3, <2>4 DEF Offered
  <1>27. CapturePhase(s, R, u)'
    BY <1>6, <1>12, <1>25, <1>26 DEF CapturePhase, Offers
  <1>28. Opened(s, R)'
    <2>1. Consistent(s, R, shared, held)' /\ txn'.kind = "capture" /\ CapturePhase(s, R, txn)'
      BY <1>1, <1>4, <1>6, <1>8, <1>16, <1>20, <1>27 DEF Offers
    <2> QED BY <1>17, <2>1 DEF Opened
  <1>30. Reserved(txn)'
    <2>1. \A x \in SharedSlots : x # u.prefix => shared'[x].role \notin {"ReservedCapture", "ReservedReplacement"}
      BY <1>2, <1>6, <1>8, <1>9 DEF SlotReserved, Offers
    <2>2. txn' = u /\ u.kind = "capture"
      BY <1>4, <1>6 DEF Offers
    <2> QED BY <2>1, <2>2 DEF Reserved
  <1> QED BY <1>1, <1>2, <1>8, <1>12, <1>18, <1>28, <1>30 DEF Live

(* Relabelling shared slots keeps a state consistent.                      *)
LEMMA PrefixRelabel ==
    ASSUME NEW s, NEW Q, NEW SH, NEW SI, NEW g, Consistent(s, Q, SH, g), SI \in [SharedSlots -> PrefixRecord],
           \A x \in SharedSlots : SI[x].img = SH[x].img,
           \A x \in SharedSlots : PrefixOK(s, g, SI[x])
    PROVE  Consistent(s, Q, SI, g)
  <1>1. Typed(Q, SI, g)
    BY DEF Consistent, Typed
  <1>2. \A h \in Images : NamedByPrefix(SI, h) = NamedByPrefix(SH, h)
    BY DEF NamedByPrefix
  <1>3. \A h \in Images : ImageOK(s, Q, SI, h)
    BY <1>2 DEF Consistent, ImageOK
  <1>4. Distinct(Q, SI)
    BY DEF Consistent, Distinct
  <1>5. ForksKept(Q, SI)
    BY DEF Consistent, ForksKept, Keeper
  <1> QED BY <1>1, <1>3, <1>4, <1>5 DEF Consistent

(* Records that bind the same images keep a state consistent.              *)
LEMMA SeqsRestated ==
    ASSUME NEW s, NEW Q, NEW R, NEW SH, NEW g, Consistent(s, Q, SH, g), R \in [Conts -> SeqRecord],
           \A d \in Conts : SameBinding(Q[d], R[d])
    PROVE  Consistent(s, R, SH, g)
  <1>1. Typed(R, SH, g) /\ SameContents(s, g, g)
    BY DEF Consistent, Typed, SameContents
  <1>2. \A x \in SharedSlots : SamePrefix(SH[x], SH[x])
    BY DEF SamePrefix
  <1> QED BY <1>1, <1>2, Restate

(* Aborting a start keeps the invariant and gives the store before the     *)
(* transaction back.                                                       *)
LEMMA AbortStartKeeps ==
    ASSUME Live, AbortStart
    PROVE  Live' /\ fault' = fault /\ \E s : store' = s /\ Opened(s, seq)
  <1>1. PICK s, Q : Opened(s, Q)
    BY DEF Live
  <1>2. /\ txn.kind = "start" /\ (txn.phase \in {"pressing", "restoring"} => flight = <<>>)
        /\ store' = StagingReleased(store, txn) /\ txn' = NoTxn /\ held' = Contents(held)
        /\ shared' = shared /\ flight' = flight /\ fault' = fault
        /\ seq' = IF seq[txn.dest].role = "Reserved" THEN [seq EXCEPT ![txn.dest] = FreeSeq]
                                                  ELSE seq
    BY DEF AbortStart
  <1>3. /\ Consistent(s, seq, shared, held) /\ NoForks(seq) /\ seq = Q /\ StartPhase(s, txn)
        /\ seq \in [Conts -> SeqRecord]
    BY <1>1, <1>2 DEF Opened, Consistent, Typed
  <1>4. store' = s
    BY <1>1, <1>2, Overlaid DEF CleanupTxn
  <1>5. PICK d \in Conts : d = txn.dest
    BY <1>3 DEF StartPhase, Planned, StartRecord
  <1>6. FlightTo(s.freeHost)
    <2>1. txn.phase \in {"reserved", "pressing", "ready", "source", "restoring"}
      BY <1>3 DEF StartPhase, Planned, StartRecord
    <2>2. CASE txn.phase \in {"reserved", "ready", "source"}
      BY <1>3, <2>2 DEF StartPhase, StartReserved, StartReady, StartSource
    <2>3. CASE txn.phase \in {"pressing", "restoring"}
      BY <1>2, <2>3 DEF FlightTo
    <2> QED BY <2>1, <2>2, <2>3
  <1>7. PICK R : R = seq'
    OBVIOUS
  <1>8. Consistent(s, R, shared, held) /\ Borrows(R, shared)
    <2>1. CASE seq[d].role # "Reserved"
      BY <1>2, <1>3, <1>5, <1>7, <2>1 DEF Live
    <2>2. CASE seq[d].role = "Reserved"
      <3>1. Headless(seq[d]) /\ seq[d].rw = None
        BY <1>3, <2>2, SeqCases
      <3>2. R[d] = FreeSeq /\ R \in [Conts -> SeqRecord] /\ \A e \in Conts : e # d => R[e] = seq[e]
        BY <1>2, <1>3, <1>5, <1>7, <2>2, FreeSeqType
      <3>3. SameBinding(seq[d], R[d])
        <4>1. seq[d] \in SeqRecord
          BY <1>3
        <4>2. /\ seq[d].read = None /\ seq[d].write = None /\ seq[d].own = "Primary"
              /\ seq[d].fork = FALSE /\ seq[d].valid = FALSE
          BY <3>1, <4>1 DEF Headless, SeqRecord
        <4>3. /\ FreeSeq.read = None /\ FreeSeq.write = None /\ FreeSeq.own = "Primary"
              /\ FreeSeq.fork = FALSE /\ FreeSeq.valid = FALSE
          BY DEF FreeSeq
        <4> QED BY <3>1, <3>2, <4>2, <4>3, FreeSeqType DEF SameBinding
      <3>4. \A e \in Conts : SameBinding(seq[e], R[e])
        BY <1>3, <3>2, <3>3 DEF SameBinding, NoForks
      <3>5. Consistent(s, R, shared, held)
        BY <1>3, <3>2, <3>4, SeqsRestated
      <3>6. \A x \in SharedSlots : {e \in Conts : R[e].role = "Active" /\ x \in R[e].refs}
                                  = {e \in Conts : seq[e].role = "Active" /\ x \in seq[e].refs}
        BY <2>2, <3>2, FreeSeqType
      <3>7. Borrows(R, shared)
        BY <3>6 DEF Borrows, Live
      <3> QED BY <3>5, <3>7
    <2> QED BY <2>1, <2>2
  <1>9. \A x \in SharedSlots : shared[x].role \notin {"ReservedCapture", "ReservedReplacement"}
    BY <1>2 DEF Live, Reserved
  <1>10. Live'
    BY <1>2, <1>4, <1>6, <1>7, <1>8, <1>9, LiveIdle DEF Live
  <1> QED BY <1>1, <1>2, <1>3, <1>4, <1>10

\* the shared slot of an aborted capture
LEMMA UncapturedSlot ==
    ASSUME NEW s, NEW Q, NEW SI, Consistent(s, Q, shared, held), Offered(txn, Q), Borrows(seq, shared),
           SI = UncapturedPrefix(shared, txn), Reserved(txn), txn.kind = "capture"
    PROVE  /\ Consistent(s, Q, SI, held)
           /\ \A x \in SharedSlots : SI[x].role \notin {"ReservedCapture", "ReservedReplacement"}
           /\ \A x \in SharedSlots : SI[x].active = shared[x].active /\ (SI[x].role # "Catalogued" => SI[x].active = 0)
  <1>1. /\ shared \in [SharedSlots -> PrefixRecord] /\ \A x \in SharedSlots : PrefixOK(s, held, shared[x])
    BY DEF Consistent, Typed
  <1>2. \A x \in SharedSlots : shared[x].role # "Catalogued" => shared[x].active = 0
    BY DEF Borrows
  <1>3. \A x \in SharedSlots : x # txn.prefix => shared[x].role \notin {"ReservedCapture", "ReservedReplacement"}
    BY DEF Reserved
  <1>4. CASE txn.prefix = None
    <2>1. SI = shared
      BY <1>4 DEF UncapturedPrefix
    <2> QED BY <1>2, <1>3, <1>4, <2>1, ContextAssumption
  <1>5. CASE txn.prefix # None /\ txn.repl /\ ~txn.removed
    <2>1. PICK x \in SharedSlots : x = txn.prefix
      BY <1>5 DEF Offered, CaptureRecord
    <2>2. SI = [shared EXCEPT ![x].role = "Catalogued"]
      BY <1>5, <2>1 DEF UncapturedPrefix
    <2>3. PICK p : p = shared[x] /\ p \in PrefixRecord
      BY <1>1
    <2>4. PICK o : o = [p EXCEPT !.role = "Catalogued"]
      OBVIOUS
    <2>5. o \in PrefixRecord /\ o.role = "Catalogued" /\ o.img = p.img /\ o.f = p.f /\ o.active = p.active
      BY <2>3, <2>4 DEF PrefixRecord
    <2>6. p.role = "ReservedReplacement"
      BY <1>5, <2>1, <2>3 DEF Offered
    <2>7. SI \in [SharedSlots -> PrefixRecord] /\ SI[x] = o /\ \A y \in SharedSlots : y # x => SI[y] = shared[y]
      BY <1>1, <2>2, <2>3, <2>4, <2>5
    <2>8. PrefixOK(s, held, o)
      BY <1>1, <2>3, <2>5, <2>6 DEF PrefixOK
    <2>9. /\ \A y \in SharedSlots : SI[y].img = shared[y].img
          /\ \A y \in SharedSlots : PrefixOK(s, held, SI[y])
      BY <1>1, <2>3, <2>5, <2>7, <2>8
    <2>10. Consistent(s, Q, SI, held)
      BY <2>7, <2>9, PrefixRelabel
    <2> QED BY <1>2, <1>3, <2>1, <2>3, <2>5, <2>6, <2>7, <2>10
  <1>6. CASE txn.prefix # None /\ (txn.repl => txn.removed)
    <2>1. PICK x \in SharedSlots : x = txn.prefix
      BY <1>6 DEF Offered, CaptureRecord
    <2>2. SI = [shared EXCEPT ![x] = EmptyPrefix]
      <3>1. txn.prefix # None /\ ~(txn.repl /\ ~txn.removed)
        BY <1>6
      <3> QED BY <1>6, <2>1, <3>1, Zenon DEF UncapturedPrefix
    <2>3. shared[x].role = "ReservedCapture"
      BY <1>6, <2>1 DEF Offered
    <2>4. shared[x].img = None
      BY <1>1, <2>3, StoreAssumption DEF PrefixOK
    <2>5. EmptyPrefix \in PrefixRecord /\ EmptyPrefix.img = None /\ EmptyPrefix.role = "Free" /\ EmptyPrefix.active = 0
      BY DEF EmptyPrefix, PrefixRecord
    <2>6. SI \in [SharedSlots -> PrefixRecord] /\ SI[x] = EmptyPrefix /\ \A y \in SharedSlots : y # x => SI[y] = shared[y]
      BY <1>1, <2>2, <2>5
    <2>7. PrefixOK(s, held, EmptyPrefix)
      BY <2>5 DEF PrefixOK
    <2>8. /\ \A y \in SharedSlots : SI[y].img = shared[y].img
          /\ \A y \in SharedSlots : PrefixOK(s, held, SI[y])
      BY <1>1, <2>4, <2>5, <2>6, <2>7
    <2>9. Consistent(s, Q, SI, held)
      BY <2>6, <2>8, PrefixRelabel
    <2> QED BY <1>2, <1>3, <2>1, <2>3, <2>5, <2>6, <2>9
  <1> QED BY <1>4, <1>5, <1>6

(* Undoing a capture restores store and lane exactly.                      *)
LEMMA UncapturedLane ==
    ASSUME NEW s, NEW Q, Opened(s, Q), txn.kind = "capture", txn.phase # "pressing"
    PROVE  /\ txn.lane \in Conts /\ Uncaptured(store, txn) = s
           /\ UncapturedSeq(seq[txn.lane], txn) = Q[txn.lane]
           /\ \A d \in Conts : d # txn.lane => seq[d] = Q[d]
           /\ txn.phase = "copying" => store.img[txn.source].role = "CheckpointImmutable"
           /\ FlightTo(s.freeHost)
  <1>1. Consistent(s, Q, shared, held) /\ NoForks(Q) /\ Offered(txn, Q) /\ CapturePhase(s, Q, txn)
    BY DEF Opened, CapturePhase
  <1>2. PICK c \in Conts : c = txn.lane
    BY <1>1 DEF Offered, CaptureRecord
  <1>3. Uncaptured(store, txn) = s
    BY Overlaid, Zenon DEF CleanupTxn
  <1>4. CASE txn.phase # "copying"
    <2>1. Q = seq /\ txn.phase \in {"reserved", "ready"}
      BY <1>1, <1>4 DEF CapturePhase, Offered, CaptureRecord
    <2>2. FlightTo(s.freeHost)
      BY <1>1, <2>1 DEF CapturePhase, CaptureReserved, CaptureReady
    <2> QED BY <1>2, <1>3, <1>4, <2>1, <2>2 DEF UncapturedSeq
  <1>5. CASE txn.phase = "copying"
    <2>1. CaptureCopying(s, Q, txn)
      BY <1>1, <1>5, SMTT(40) DEF CapturePhase
    <2>2. Writer(s, held, Q[c]) /\ store.img[txn.source].role = "CheckpointImmutable" /\ txn.source = Q[c].write
      BY <1>1, <1>2, <1>5, <2>1, CopyingOverlay, Zenon DEF CaptureCopying
    <2>3. seq[c] = Branched(Q[c], txn) /\ \A d \in Conts : d # c => seq[d] = Q[d]
      BY <1>1, <1>2, <2>1 DEF CaptureCopying, Consistent, Typed
    <2>4. PICK q \in SeqRecord : q = Q[c]
      BY <1>1 DEF Consistent, Typed
    <2>5. q.read = q.write /\ ~q.fork /\ q.own = "Primary"
      BY <2>2, <2>4 DEF Writer
    <2>6. Bind(q, q.write) = q
      <3>1. /\ Bind(q, q.write) \in SeqRecord /\ Bind(q, q.write).role = q.role /\ Bind(q, q.write).read = q.read
            /\ Bind(q, q.write).write = q.write /\ Bind(q, q.write).own = q.own
            /\ Bind(q, q.write).rw = q.rw /\ Bind(q, q.write).rwf = q.rwf /\ Bind(q, q.write).pos = q.pos
            /\ Bind(q, q.write).refs = q.refs /\ Bind(q, q.write).stage = q.stage
        BY <2>5 DEF Bind, SeqRecord
      <3>2. /\ Bind(q, q.write).fork = q.fork /\ Bind(q, q.write).valid = q.valid
            /\ Bind(q, q.write).fresh = q.fresh /\ Bind(q, q.write).offer = q.offer
        BY <2>5 DEF Bind, SeqRecord
      <3> QED BY <3>1, <3>2 DEF SeqRecord
    <2>7. Bind(Branched(q, txn), q.write) = Bind(q, q.write)
      <3>1. CASE txn.place = "HostSnapshot"
        BY <3>1 DEF Branched
      <3>2. CASE txn.place # "HostSnapshot"
        BY <3>2 DEF Branched, Bind, SeqRecord
      <3> QED BY <3>1, <3>2
    <2>8. FlightTo(s.freeHost)
      BY <2>1 DEF CaptureCopying
    <2> QED BY <1>2, <1>3, <1>5, <2>2, <2>3, <2>4, <2>6, <2>7, <2>8 DEF UncapturedSeq
  <1> QED BY <1>4, <1>5

(* Aborting a capture keeps the invariant and throws nothing.              *)
LEMMA AbortCaptureKeeps ==
    ASSUME Live, fault = "none", AbortCapture
    PROVE  Live' /\ fault' = "none"
  <1>1. PICK s, Q : Opened(s, Q)
    BY DEF Live
  <1>2. /\ txn.kind = "capture" /\ txn.phase # "pressing" /\ store' = Uncaptured(store, txn) /\ txn' = NoTxn
        /\ held' = Contents(held) /\ flight' = flight /\ shared' = UncapturedPrefix(shared, txn)
        /\ seq' = [seq EXCEPT ![txn.lane] = [UncapturedSeq(@, txn) EXCEPT !.stage = "cancelled"]]
    BY DEF AbortCapture
  <1>3. /\ txn.lane \in Conts /\ store' = s
        /\ UncapturedSeq(seq[txn.lane], txn) = Q[txn.lane]
        /\ \A d \in Conts : d # txn.lane => seq[d] = Q[d]
        /\ txn.phase = "copying" => store.img[txn.source].role = "CheckpointImmutable"
        /\ FlightTo(s.freeHost)
    BY <1>1, <1>2, UncapturedLane
  <1>4. fault' = "none"
    BY <1>3 DEF AbortCapture, Checked
  <1>5. PICK c \in Conts : c = txn.lane
    BY <1>3
  <1>6. /\ Consistent(s, Q, shared, held) /\ Q \in [Conts -> SeqRecord] /\ seq \in [Conts -> SeqRecord] /\ NoForks(Q)
        /\ Offered(txn, Q)
    BY <1>1, <1>2, SeqOver DEF Opened, CapturePhase
  <1>7. PICK q \in SeqRecord : q = Q[c]
    BY <1>6
  <1>8. PICK p : p = [q EXCEPT !.stage = "cancelled"]
    OBVIOUS
  <1>9. Restages(q, p) /\ p.stage = "cancelled"
    BY <1>8 DEF Restages, SeqRecord
  <1>10. PICK R : R = [Q EXCEPT ![c] = p]
    OBVIOUS
  <1>11. seq' = R
    <2>1. seq' = [seq EXCEPT ![c] = p]
      BY <1>2, <1>3, <1>5, <1>6, <1>7, <1>8
    <2>2. \A d \in Conts : [seq EXCEPT ![c] = p][d] = [Q EXCEPT ![c] = p][d]
      BY <1>3, <1>5, <1>6
    <2> QED BY <1>6, <1>9, <1>10, <2>1, <2>2 DEF Restages
  <1>12. Consistent(s, R, shared, held)
    BY <1>6, <1>7, <1>9, <1>10, SeqRestaged
  <1>13. R[c] = p /\ \A d \in Conts : d # c => R[d] = Q[d]
    BY <1>6, <1>10
  <1>14. Offered(txn, Q)
    BY <1>6
  <1>15. PICK SI : SI = UncapturedPrefix(shared, txn)
    OBVIOUS
  <1>16. /\ Consistent(s, Q, SI, held)
         /\ \A x \in SharedSlots : SI[x].role \notin {"ReservedCapture", "ReservedReplacement"}
         /\ \A x \in SharedSlots : SI[x].active = shared[x].active /\ (SI[x].role # "Catalogued" => SI[x].active = 0)
    BY <1>2, <1>6, <1>15, UncapturedSlot DEF Live
  <1>17. Consistent(s, R, SI, held)
    BY <1>6, <1>7, <1>9, <1>10, <1>16, SeqRestaged
  <1>18. \A d \in Conts : seq[d].role = Q[d].role /\ seq[d].refs = Q[d].refs
    BY <1>1, SeqOver
  <1>19. \A x \in SharedSlots : {d \in Conts : R[d].role = "Active" /\ x \in R[d].refs}
                               = {d \in Conts : seq[d].role = "Active" /\ x \in seq[d].refs}
    BY <1>7, <1>9, <1>13, <1>18 DEF Restages
  <1>20. Borrows(R, SI)
    BY <1>16, <1>19 DEF Borrows, Live
  <1>21. Live'
    BY <1>2, <1>3, <1>11, <1>15, <1>16, <1>17, <1>20, LiveIdle DEF Live
  <1> QED BY <1>4, <1>21

\* a capture t of lane c that is published, over the store s and the records Q and SH
Capturing(s, Q, SH, c, t) ==
    /\ Consistent(s, Q, SH, held) /\ NoForks(Q) /\ c \in Conts /\ c = t.lane /\ Q[c].role = "Active"
    /\ t.source = Q[c].write /\ Q[c].stage # "done" /\ Destination(s, Q, c, t, t.dest)
    /\ t.priv \in BOOLEAN /\ (t.priv \/ t.prefix # None) /\ (t.recycle => t.priv)
    /\ (t.prefix # None => t.prefix \in SharedSlots /\ SH[t.prefix].img = None)
    /\ Borrows(Q, SH)
    /\ (t.prefix # None => SH[t.prefix].active = 0)
    /\ \A x \in SharedSlots : x # t.prefix => SH[x].role \notin {"ReservedCapture", "ReservedReplacement"}
    /\ seq[c].rw = Q[c].rw
    /\ (t.place = "HostSnapshot" => held[NextHost(s)] = held[s.img[t.source].dev])

(* A published capture lends its prefix to its lane once.                  *)
LEMMA PublishedBorrows ==
    ASSUME NEW Q, NEW R, NEW SH, NEW SI, NEW c \in Conts, NEW x, Borrows(Q, SH), Q[c].role = "Active",
           x # None => x \in SharedSlots /\ SH[x].active = 0 /\ SI[x].active = 1 /\ SI[x].role = "Catalogued"
                       /\ SamePrefixes(SH, SI, x),
           x = None => SI = SH, SameSeqs(Q, R, c), R[c].role = "Active",
           R[c].refs = IF x = None THEN Q[c].refs ELSE Q[c].refs \cup {x}
    PROVE  Borrows(R, SI)
  <1>1. SUFFICES ASSUME NEW y \in SharedSlots
                 PROVE  /\ SI[y].active = Cardinality({d \in Conts : R[d].role = "Active" /\ y \in R[d].refs})
                        /\ SI[y].role # "Catalogued" => SI[y].active = 0
    BY DEF Borrows
  <1>2. PICK B : B = {d \in Conts : Q[d].role = "Active" /\ y \in Q[d].refs}
    OBVIOUS
  <1>3. SH[y].active = Cardinality(B) /\ (SH[y].role # "Catalogued" => SH[y].active = 0) /\ IsFiniteSet(B)
    BY <1>2, ContextAssumption, FS_Subset DEF Borrows
  <1>4. CASE y # x
    <2>1. {d \in Conts : R[d].role = "Active" /\ y \in R[d].refs} = B
      BY <1>2, <1>4 DEF SameSeqs
    <2>2. SI[y] = SH[y]
      BY <1>4 DEF SamePrefixes
    <2> QED BY <1>3, <2>1, <2>2
  <1>5. CASE y = x
    <2>0. x # None
      BY <1>5, ContextAssumption
    <2>1. B = {}
      BY <1>3, <1>5, <2>0, FS_EmptySet
    <2>2. {d \in Conts : R[d].role = "Active" /\ y \in R[d].refs} = {c}
      <3>1. \A d \in Conts : d # c => ~(R[d].role = "Active" /\ y \in R[d].refs)
        BY <1>2, <2>1 DEF SameSeqs
      <3>2. R[c].role = "Active" /\ y \in R[c].refs
        BY <1>5, <2>0
      <3> QED BY <3>1, <3>2
    <2>3. Cardinality({c}) = 1
      BY FS_Singleton
    <2> QED BY <1>5, <2>0, <2>2, <2>3
  <1> QED BY <1>4, <1>5

(* Publishing a capture keeps the invariant.                               *)
LEMMA PublishKeeps ==
    ASSUME NEW s, NEW Q, NEW SH, NEW c, NEW t, NEW m, Capturing(s, Q, SH, c, t), flight \in Seq(Copies),
           m = CaptureStore(s, t.source, t.dest, t), FlightTo(m.freeHost),
           store' = PublishedStore(m, t), seq' = [Q EXCEPT ![c] = PublishedSeq(Branched(Q[c], t), t)],
           shared' = (IF t.prefix = None THEN SH
                     ELSE [SH EXCEPT ![t.prefix] =
                             [role |-> "Catalogued", img |-> t.source, f |-> Q[c].pos, active |-> 1]]),
           txn' = NoTxn, held' = Contents(held), flight' = flight
    PROVE  Live'
  <1>1. /\ Consistent(s, Q, SH, held) /\ NoForks(Q) /\ c \in Conts /\ c = t.lane /\ Q[c].role = "Active"
        /\ t.source = Q[c].write /\ Q[c].stage # "done" /\ Destination(s, Q, c, t, t.dest)
        /\ t.priv \in BOOLEAN /\ (t.priv \/ t.prefix # None) /\ (t.recycle => t.priv)
        /\ (t.prefix # None => t.prefix \in SharedSlots /\ SH[t.prefix].img = None)
        /\ Borrows(Q, SH) /\ seq[c].rw = Q[c].rw
        /\ (t.prefix # None => SH[t.prefix].active = 0)
        /\ (t.place = "HostSnapshot" => held[NextHost(s)] = held[s.img[t.source].dev])
    BY DEF Capturing
  <1>2. /\ Q \in [Conts -> SeqRecord] /\ SH \in [SharedSlots -> PrefixRecord] /\ held \in [Slots -> Nat]
        /\ Typed(Q, SH, held)
    BY <1>1, SMTT(40) DEF Consistent, Typed
  <1>3. Writer(s, held, Q[c]) /\ Q[c] \in SeqRecord
    BY <1>1, <1>2, SeqCases DEF NoForks
  <1>4. t.dest \in Images /\ t.source \in Images /\ t.place \in {"DeviceFork", "HostSnapshot"}
    <2>1. t.source \in Images
      BY <1>1, <1>3, SMTT(40) DEF Writer
    <2>2. t.place \in {"DeviceFork", "HostSnapshot"}
      BY <1>1 DEF Destination
    <2>3. t.dest \in Images
      BY <1>1, <1>3, DestinationFacts
    <2> QED BY <2>1, <2>2, <2>3, SMTT(40)
  <1>5. PICK SI : SI = shared'
    OBVIOUS
  <1>6. Typed(Q, SI, held) /\ Named(SH, SI, t.prefix, t.source, Q[c].pos)
        /\ (t.prefix # None => SI[t.prefix].active = 1 /\ SI[t.prefix].role = "Catalogued" /\ SamePrefixes(SH, SI, t.prefix))
        /\ (t.prefix = None => SI = SH)
    <2>1. CASE t.prefix = None
      BY <1>2, <1>5, <2>1 DEF Named
    <2>2. CASE t.prefix # None
      <3>1. PICK x \in SharedSlots : x = t.prefix
        BY <1>1, <2>2
      <3>2. PICK p : p = [role |-> "Catalogued", img |-> t.source, f |-> Q[c].pos, active |-> 1]
        OBVIOUS
      <3>3. p \in PrefixRecord /\ p.role = "Catalogued" /\ p.img = t.source /\ p.f = Q[c].pos /\ p.active = 1
        BY <1>3, <1>4, <3>2 DEF PrefixRecord, SeqRecord
      <3>4. SI = [SH EXCEPT ![x] = p]
        BY <1>5, <2>2, <3>1, <3>2
      <3>5. Typed(Q, SI, held) /\ SI[x] = p /\ SamePrefixes(SH, SI, x)
        BY <1>2, <3>3, <3>4, TypedPrefix
      <3> QED BY <1>1, <2>2, <3>1, <3>3, <3>5 DEF Named
    <2> QED BY <2>1, <2>2
  <1>7. PICK R : R = [Q EXCEPT ![c] = PublishedSeq(Branched(Q[c], t), t)]
    OBVIOUS
  <1>8. Consistent(PublishedStore(m, t), R, SI, held) /\ m.freeHost \subseteq PublishedStore(m, t).freeHost
    BY <1>1, <1>3, <1>6, <1>7, CapturePublished
  <1>9. PublishedAs(Q[c], t, PublishedSeq(Branched(Q[c], t), t))
    BY <1>1, <1>3, <1>4, PublishedFields DEF Writer
  <1>10. R[c] = PublishedSeq(Branched(Q[c], t), t) /\ SameSeqs(Q, R, c)
    BY <1>1, <1>2, <1>7, SMTT(40) DEF SameSeqs
  <1>11. R[c].role = "Active" /\ R[c].refs = (IF t.prefix = None THEN Q[c].refs ELSE Q[c].refs \cup {t.prefix})
    BY <1>1, <1>9, <1>10, SMTT(40) DEF PublishedAs
  <1>12. Borrows(R, SI)
    BY <1>1, <1>6, <1>10, <1>11, PublishedBorrows, ZenonT(40)
  <1>13. \A y \in SharedSlots : SI[y].role \notin {"ReservedCapture", "ReservedReplacement"}
    <2>1. \A y \in SharedSlots : y # t.prefix => SI[y].role \notin {"ReservedCapture", "ReservedReplacement"}
      BY <1>6 DEF Capturing, SamePrefixes
    <2> QED BY <1>6, <2>1, ContextAssumption
  <1>14. FlightTo(store'.freeHost)
    BY <1>8 DEF FlightTo
  <1> QED BY <1>5, <1>7, <1>8, <1>12, <1>13, <1>14, LiveIdle

(* PublishCapture keeps the invariant and throws nothing.                  *)
LEMMA PublishCaptureKeeps ==
    ASSUME Live, PublishCapture
    PROVE  Live' /\ fault' = fault
  <1>1. PICK s, Q : Opened(s, Q)
    BY DEF Live
  <1>2. /\ txn.kind = "capture" /\ txn.phase = "copying" /\ flight = <<>> /\ held' = Contents(held) /\ flight' = flight
        /\ fault' = fault /\ Publish(store, seq[txn.lane], txn)
    BY DEF PublishCapture
  <1>3. PICK t : t = txn
    OBVIOUS
  <1>4. /\ Consistent(s, Q, shared, held) /\ NoForks(Q) /\ Offered(t, Q) /\ CaptureCopying(s, Q, t)
    BY <1>1, <1>2, <1>3 DEF Opened, CapturePhase
  <1>5. PICK c \in Conts : c = t.lane
    BY <1>4 DEF Offered, CaptureRecord
  <1>6. Q \in [Conts -> SeqRecord]
    BY <1>4 DEF Consistent, Typed
  <1>7. /\ seq[c] = Branched(Q[c], t) /\ \A d \in Conts : d # c => seq[d] = Q[d]
        /\ seq \in [Conts -> SeqRecord]
    BY <1>1, <1>4, <1>5, <1>6, SeqOver DEF CaptureCopying
  <1>8. /\ seq[c].role = Q[c].role /\ seq[c].refs = Q[c].refs /\ seq[c].rw = Q[c].rw /\ seq[c].pos = Q[c].pos
        /\ \A d \in Conts : seq[d].role = Q[d].role /\ seq[d].refs = Q[d].refs
    BY <1>1, SeqOver
  <1>9. Borrows(Q, shared)
    <2>1. \A x \in SharedSlots : {d \in Conts : Q[d].role = "Active" /\ x \in Q[d].refs}
                               = {d \in Conts : seq[d].role = "Active" /\ x \in seq[d].refs}
      BY <1>8
    <2> QED BY <2>1 DEF Borrows, Live
  <1>10. \A x \in SharedSlots : x # t.prefix => shared[x].role \notin {"ReservedCapture", "ReservedReplacement"}
    BY <1>3 DEF Live, Reserved
  <1>11. t.prefix # None => t.prefix \in SharedSlots /\ shared[t.prefix].img = None /\ shared[t.prefix].active = 0
    <2>1. SUFFICES ASSUME t.prefix # None
                   PROVE  t.prefix \in SharedSlots /\ shared[t.prefix].img = None /\ shared[t.prefix].active = 0
      OBVIOUS
    <2>2. t.prefix \in SharedSlots /\ shared[t.prefix].role = "ReservedCapture"
      BY <1>2, <1>3, <1>4, <2>1 DEF Offered, CaptureRecord
    <2> QED BY <1>4, <1>9, <2>2, PrefixCases DEF Borrows
  <1>12. Capturing(s, Q, shared, c, t)
    <2>1. /\ Q[c].role = "Active" /\ t.source = Q[c].write /\ Q[c].stage # "done" /\ Destination(s, Q, c, t, t.dest)
          /\ t.priv \in BOOLEAN /\ (t.priv \/ t.prefix # None) /\ (t.recycle => t.priv)
      BY <1>4, <1>5 DEF Offered, CaptureRecord, CaptureCopying
    <2>2. t.place = "HostSnapshot" => held[NextHost(s)] = held[s.img[t.source].dev]
      BY <1>2, <1>4 DEF CaptureCopying, Awaited
    <2> QED BY <1>4, <1>5, <1>8, <1>9, <1>10, <1>11, <2>1, <2>2 DEF Capturing
  <1>13. store = CaptureStore(s, t.source, t.dest, t)
    BY <1>4 DEF CaptureCopying
  <1>14. PICK m : m = store
    OBVIOUS
  <1>15. FlightTo(m.freeHost)
    BY <1>2 DEF FlightTo
  <1>16. seq' = [Q EXCEPT ![c] = PublishedSeq(Branched(Q[c], t), t)]
    <2>1. seq' = [seq EXCEPT ![c] = PublishedSeq(Branched(Q[c], t), t)]
      BY <1>2, <1>3, <1>5, <1>7 DEF Publish
    <2>2. [seq EXCEPT ![c] = PublishedSeq(Branched(Q[c], t), t)] = [Q EXCEPT ![c] = PublishedSeq(Branched(Q[c], t), t)]
      BY <1>6, <1>7
    <2> QED BY <2>1, <2>2
  <1>17. /\ store' = PublishedStore(m, t) /\ txn' = NoTxn
         /\ shared' = IF t.prefix = None THEN shared
                     ELSE [shared EXCEPT ![t.prefix] =
                             [role |-> "Catalogued", img |-> t.source, f |-> Q[c].pos, active |-> 1]]
    BY <1>2, <1>3, <1>5, <1>8, <1>14 DEF Publish
  <1>18. Live'
    BY <1>2, <1>12, <1>13, <1>14, <1>15, <1>16, <1>17, PublishKeeps DEF Live
  <1> QED BY <1>2, <1>18

(* A submitted copy is awaited.                                            *)
LEMMA Submits ==
    ASSUME flight \in Seq(Copies), NEW a \in Slots, NEW b \in Slots,
           flight' = Append(flight, [from |-> a, to |-> b])
    PROVE  /\ Awaited(a, b)' /\ flight' \in Seq(Copies)
           /\ \A S : FlightTo(S) /\ b \in S => FlightTo(S)'
  <1>1. PICK e : e = [from |-> a, to |-> b]
    OBVIOUS
  <1>2. e \in Copies /\ e.to = b /\ flight' = Append(flight, e)
    BY <1>1 DEF Copies
  <1>3. /\ flight' \in Seq(Copies) /\ flight' # <<>> /\ Len(flight') = Len(flight) + 1 /\ flight'[Len(flight')] = e
        /\ DOMAIN flight' = 1 .. Len(flight) + 1 /\ DOMAIN flight = 1 .. Len(flight) /\ Len(flight) \in Nat
        /\ \A i \in 1 .. Len(flight) : flight'[i] = flight[i]
    BY <1>2
  <1>4. Awaited(a, b)'
    BY <1>1, <1>3 DEF Awaited
  <1>5. SUFFICES ASSUME NEW S, FlightTo(S), b \in S PROVE FlightTo(S)'
    BY <1>3, <1>4
  <1>6. \A i \in 1 .. Len(flight) + 1 : i \in 1 .. Len(flight) \/ i = Len(flight')
    BY <1>3
  <1> QED BY <1>2, <1>3, <1>5, <1>6 DEF FlightTo

\* the shared slots once the replaced prefix of a capture t has gone
Vacated(t) == IF t.repl THEN [shared EXCEPT ![t.prefix] = [EmptyPrefix EXCEPT !.role = "ReservedCapture"]]
              ELSE shared

\* the store r and the slots SI without the replaced prefix, the lane's destination k
Cleared(s, t, r, SI, k) ==
    /\ Consistent(r, seq, SI, held) /\ Destination(r, seq, t.lane, t, k) /\ Borrows(seq, SI)
    /\ s.freeHost \subseteq r.freeHost
    /\ t.repl => CanReleasePrefix(s, t.prefix)
    /\ t.recycle => CanRecycle(r, k)
    /\ t.prefix # None => /\ t.prefix \in SharedSlots /\ SI[t.prefix].img = None /\ SI[t.prefix].active = 0
                          /\ SI[t.prefix].role = "ReservedCapture"
                          /\ SamePrefixes(shared, SI, t.prefix)
    /\ t.prefix = None => SI = shared

(* Releasing the prefix a capture replaces leaves a consistent state in    *)
(* which the capture has its destination.                                  *)
LEMMA ReplacedKeeps ==
    ASSUME NEW s, NEW t, Consistent(s, seq, shared, held), NoForks(seq), Borrows(seq, shared), Offered(t, seq),
           ~t.removed, CaptureFits(s, t), Recyclable(s, t),
           NEW r, r = ReplacedStore(s, t), NEW SI, SI = Vacated(t),
           NEW k, k = IF t.recycle THEN seq[t.lane].rw ELSE NextImage(r)
    PROVE  Cleared(s, t, r, SI, k)
  <1>1. /\ t.prefix = None => ~t.repl
        /\ t.prefix # None => t.prefix \in SharedSlots
        /\ t.place \in {"DeviceFork", "HostSnapshot"} /\ t.recycle \in BOOLEAN /\ t.repl \in BOOLEAN /\ t.lane \in Conts
        /\ t.recycle => seq[t.lane].rw # None /\ t.place = "DeviceFork"
        /\ t.prefix # None => shared[t.prefix].role = IF t.repl THEN "ReservedReplacement" ELSE "ReservedCapture"
    BY DEF Offered, CaptureRecord
  <1>2. /\ seq \in [Conts -> SeqRecord] /\ shared \in [SharedSlots -> PrefixRecord] /\ held \in [Slots -> Nat]
        /\ Typed(seq, shared, held)
    BY DEF Consistent, Typed
  <1>3. /\ Consistent(r, seq, SI, held) /\ s.freeHost \subseteq r.freeHost
        /\ (t.recycle => CanRecycle(r, seq[t.lane].rw)) /\ (t.repl => CanReleasePrefix(s, t.prefix))
        /\ (t.prefix # None => SI[t.prefix].img = None /\ SI[t.prefix].active = 0 /\ SI[t.prefix].role = "ReservedCapture"
                              /\ SamePrefixes(shared, SI, t.prefix))
        /\ (t.prefix = None => SI = shared)
    <2>1. CASE ~t.repl
      <3>1. r = s /\ SI = shared
        BY <2>1 DEF ReplacedStore, Vacated
      <3>2. t.recycle => CanRecycle(r, seq[t.lane].rw)
        BY <3>1 DEF Recyclable
      <3>3. t.prefix # None => shared[t.prefix].img = None /\ shared[t.prefix].active = 0
        BY <1>1, <2>1, PrefixCases DEF Borrows
      <3> QED BY <1>1, <2>1, <3>1, <3>2, <3>3 DEF SamePrefixes
    <2>2. CASE t.repl
      <3>1. PICK x \in SharedSlots : x = t.prefix
        BY <1>1, <2>2
      <3>2. shared[x].role = "ReservedReplacement"
        BY <1>1, <2>2, <3>1
      <3>3. shared[x].img \in Images /\ shared[x].img # None /\ Immutable(s.img[shared[x].img])
        BY <3>2, PrefixCases, StoreAssumption
      <3>4. PICK p : p = [EmptyPrefix EXCEPT !.role = "ReservedCapture"]
        OBVIOUS
      <3>5. p \in PrefixRecord /\ p.img = None /\ p.role = "ReservedCapture" /\ p.active = 0
        BY <3>4 DEF EmptyPrefix, PrefixRecord
      <3>6. SI = [shared EXCEPT ![x] = p]
        BY <2>2, <3>1, <3>4 DEF Vacated
      <3>7. Typed(seq, SI, held) /\ SI[x] = p /\ SamePrefixes(shared, SI, x)
        BY <1>2, <3>5, <3>6 DEF Typed, SamePrefixes
      <3>8. r = DropCheckpoint(s, shared[x].img)
        BY <2>2, <3>1 DEF ReplacedStore, ReleasePrefix
      <3>9. /\ Consistent(r, seq, SI, held) /\ SameImages(s, r, {shared[x].img})
            /\ s.freeHost \subseteq r.freeHost
        BY <3>3, <3>5, <3>7, <3>8, PrefixReleased
      <3>10. CanReleasePrefix(s, x)
        <4>1. shared[x].active = 0
          BY <3>2 DEF Borrows
        <4>2. Quiet(s.img[shared[x].img])
          BY <3>3, AllQuiet
        <4> QED BY <4>1, <4>2 DEF CanReleasePrefix
      <3>11. t.recycle => CanRecycle(r, seq[t.lane].rw)
        <4>1. SUFFICES ASSUME t.recycle PROVE CanRecycle(r, seq[t.lane].rw)
          OBVIOUS
        <4>2. PICK h : h = seq[t.lane].rw /\ h \in Images
          BY <1>1, <4>1, SeqCases
        <4>3. CanRecycle(s, h)
          BY <4>1, <4>2 DEF Recyclable
        <4>4. s.img[h].refs = 1 /\ ImageOK(s, seq, shared, h)
          BY <4>2, <4>3 DEF CanRecycle, Consistent
        <4>5. NamedByRewrite(seq, h) = 1
          BY <1>1, <4>2 DEF NamedByRewrite
        <4>6. NamedByPrefix(shared, h) \in {0, 1}
          BY DEF NamedByPrefix
        <4>7. NamedByPrefix(shared, h) = 0
          BY <4>4, <4>5, <4>6 DEF ImageOK
        <4>8. h # shared[x].img
          BY <4>7 DEF NamedByPrefix
        <4>9. r.img[h] = s.img[h]
          BY <3>9, <4>2, <4>8 DEF SameImages
        <4> QED BY <4>2, <4>3, <4>9 DEF CanRecycle
      <3> QED BY <1>1, <2>2, <3>1, <3>5, <3>7, <3>9, <3>10, <3>11
    <2> QED BY <1>1, <2>1, <2>2
  <1>4. Destination(r, seq, t.lane, t, k)
    <2>1. IF t.place = "HostSnapshot" THEN r.freeHost # {} /\ FreeImages(r) # {}
        ELSE t.recycle \/ (r.freeDev # {} /\ FreeImages(r) # {})
      BY DEF CaptureFits
    <2> QED BY <1>1, <1>3, <2>1 DEF Destination
  <1>5. Borrows(seq, SI)
    <2>1. \A x \in SharedSlots : SI[x].active = shared[x].active /\ (SI[x].role # "Catalogued" => SI[x].active = 0)
      <3>1. SUFFICES ASSUME NEW x \in SharedSlots
                     PROVE  SI[x].active = shared[x].active /\ (SI[x].role # "Catalogued" => SI[x].active = 0)
        OBVIOUS
      <3>2. shared[x].role # "Catalogued" => shared[x].active = 0
        BY DEF Borrows
      <3>3. x # t.prefix => SI[x] = shared[x]
        BY <1>3 DEF SamePrefixes
      <3>4. x = t.prefix => SI[x].active = 0 /\ shared[x].active = 0
        BY <1>1, <1>3, <3>2, ContextAssumption
      <3> QED BY <3>2, <3>3, <3>4
    <2> QED BY <2>1 DEF Borrows
  <1>6. t.recycle => CanRecycle(r, k)
    BY <1>3
  <1> QED BY <1>1, <1>3, <1>4, <1>5, <1>6 DEF Cleared

\* a capture t becomes u when it begins, from image w into k
Begins(t, u, w, k) ==
    /\ u \in CaptureRecord
    /\ u.kind = "capture" /\ u.phase = "copying" /\ u.lane = t.lane /\ u.prefix = t.prefix
    /\ u.pressure = t.pressure /\ u.source = w /\ u.dest = k
    /\ u.priv = t.priv /\ u.repl = t.repl /\ u.removed = t.repl
    /\ u.place = t.place /\ u.recycle = t.recycle

(* What prepare_capture() leaves in the transaction.                       *)
LEMMA BeginFields ==
    ASSUME NEW t \in CaptureRecord, NEW w \in Images, NEW k \in Images, NEW u,
           u = [t EXCEPT !.source = w, !.dest = k, !.removed = t.repl, !.phase = "copying"]
    PROVE  Begins(t, u, w, k)
  <1>1. /\ u.kind = "capture" /\ u.phase = "copying" /\ u.lane = t.lane /\ u.prefix = t.prefix
        /\ u.pressure = t.pressure /\ u.source = w /\ u.dest = k
        /\ u.priv = t.priv /\ u.repl = t.repl /\ u.removed = t.repl
        /\ u.place = t.place /\ u.recycle = t.recycle
    BY DEF CaptureRecord
  <1>2. u \in CaptureRecord
    BY DEF CaptureRecord
  <1> QED BY <1>1, <1>2 DEF Begins

(* Those fields do not change how the capture is placed.                   *)
LEMMA SameCapture ==
    ASSUME NEW r, NEW w, NEW k, NEW t, NEW u, Begins(t, u, w, k)
    PROVE  CaptureStore(r, w, k, u) = CaptureStore(r, w, k, t)
  BY DEF Begins, CaptureStore

\* what the capture t leaves of the store r
Began(r, m, w, k, t) ==
    /\ m.freeDev \subseteq r.freeDev /\ m.freeHost \subseteq r.freeHost
    /\ t.place = "DeviceFork" => m.freeHost = r.freeHost
    /\ CanFreeze(Reserving(r, k, t), w)
    /\ k \in Images /\ w \in Images
    /\ t.place = "HostSnapshot" => /\ m.img[w].dev = r.img[w].dev /\ m.img[w].phost = NextHost(r)
                                   /\ r.img[w].dev \in Slots /\ NextHost(r) \in Slots /\ NextHost(r) \in r.freeHost

(* A prepared capture is a pending copy or a fork over a consistent store. *)
LEMMA CaptureBegan ==
    ASSUME NEW r, NEW Q, NEW SH, NEW g, Consistent(r, Q, SH, g), NoForks(Q), NEW c \in Conts,
           Writer(r, g, Q[c]), NEW t, NEW k, Destination(r, Q, c, t, k), NEW w, w = Q[c].write,
           NEW m, m = CaptureStore(r, w, k, t)
    PROVE  Began(r, m, w, k, t)
  <1>1. t.place \in {"DeviceFork", "HostSnapshot"} /\ k \in Images /\ w \in Images
    <2>1. t.place \in {"DeviceFork", "HostSnapshot"}
      BY DEF Destination
    <2>2. k \in Images
      BY DestinationFacts
    <2>3. w \in Images
      BY DEF Writer
    <2> QED BY <2>1, <2>2, <2>3
  <1>2. CASE t.place = "DeviceFork"
    <2>1. /\ Ready(r, Reserving(r, k, t), k) /\ CanFreeze(Reserving(r, k, t), w)
          /\ Branch(Reserving(r, k, t), m, w, k)
      BY <1>2, BranchBegun, SMTT(40)
    <2> QED BY <1>1, <1>2, <2>1 DEF Began, Ready, Branch
  <1>3. CASE t.place = "HostSnapshot"
    <2>1. Snapshot(r, m, w, k, NextHost(r)) /\ CanFreeze(Reserving(r, k, t), w)
      BY <1>3, SnapshotBegun
    <2>2. NextHost(r) \in r.freeHost /\ NextHost(r) \in HostSlots
      BY <1>3, DestinationFacts
    <2>3. r.img[w].dev # None
      BY WriterFacts
    <2>4. r.img[w].dev \in Slots
      BY <1>1, <2>3, SlotOf DEF Consistent
    <2> QED BY <1>1, <1>3, <2>1, <2>2, <2>4 DEF Began, Snapshot, Slots
  <1> QED BY <1>1, <1>2, <1>3

\* a capture t begins: the lane q, the store r without the replaced prefix, the destination k,
\* the store m and the transaction u it becomes
Preparing(t, q, r, k, m, u) ==
    /\ t = txn /\ q = seq[t.lane] /\ r = ReplacedStore(store, t)
    /\ k = (IF t.recycle THEN q.rw ELSE NextImage(r))
    /\ m = CaptureStore(r, q.write, k, t) /\ t.place \in {"DeviceFork", "HostSnapshot"}
    /\ u = [t EXCEPT !.source = q.write, !.dest = k, !.removed = t.repl, !.phase = "copying"]

(* What PrepareCapture does, its local values as parameters.               *)
Prepares(t, q, r, k, m, u) ==
    /\ t.kind = "capture" /\ t.phase = "ready" /\ held' = Contents(held)
    /\ (/\ CaptureFits(store, t) /\ ~q.fork
        /\ (t.repl => CanReleasePrefix(store, t.prefix))
        /\ (t.recycle => CanRecycle(r, k))
        /\ CanFreeze(Reserving(r, k, t), q.write)) => fault' = fault
    /\ \/ /\ t.place = "DeviceFork" /\ flight' = flight
          /\ Publish(m, [q EXCEPT !.read = q.write, !.write = k, !.fork = TRUE], u)
       \/ /\ t.place = "HostSnapshot" \/ t.prefix # None
          /\ store' = m /\ txn' = u /\ shared' = Vacated(t)
          /\ seq' = [seq EXCEPT ![t.lane] = IF t.place = "HostSnapshot" THEN q
                               ELSE [q EXCEPT !.read = q.write, !.write = k, !.fork = TRUE]]
          /\ flight' = IF t.place = "HostSnapshot"
                       THEN Append(flight, [from |-> m.img[q.write].dev, to |-> m.img[q.write].phost])
                       ELSE flight

(* PrepareCapture does that.                                               *)
LEMMA PrepareCaptureIs ==
    ASSUME PrepareCapture, NEW t, NEW q, NEW r, NEW k, NEW m, NEW u, Preparing(t, q, r, k, m, u)
    PROVE  Prepares(t, q, r, k, m, u)
  <1>0. /\ t = txn /\ q = seq[t.lane] /\ r = ReplacedStore(store, t)
        /\ k = (IF t.recycle THEN q.rw ELSE NextImage(r))
        /\ m = CaptureStore(r, q.write, k, t) /\ t.place \in {"DeviceFork", "HostSnapshot"}
        /\ u = [t EXCEPT !.source = q.write, !.dest = k, !.removed = t.repl, !.phase = "copying"]
    BY DEF Preparing
  <1> USE <1>0
  <1>1. Reserving(r, k, t) = CASE t.place = "HostSnapshot" -> ReserveLogicalDestination(r, k)
                               [] t.place = "DeviceFork" /\ t.recycle -> Recycle(r, k)
                               [] t.place = "DeviceFork" /\ ~t.recycle -> ReserveDestination(r, k, NextDev(r))
    BY SMTT(40) DEF Reserving
  <1>2. t.kind = "capture" /\ t.phase = "ready" /\ held' = Contents(held)
    BY Zenon DEF PrepareCapture
  <1>3. (/\ CaptureFits(store, t) /\ ~q.fork
         /\ (t.repl => CanReleasePrefix(store, t.prefix))
         /\ (t.recycle => CanRecycle(r, k))
         /\ CanFreeze(Reserving(r, k, t), q.write)) => fault' = fault
    <2>1. SUFFICES ASSUME CaptureFits(store, t), ~q.fork, t.repl => CanReleasePrefix(store, t.prefix),
                          t.recycle => CanRecycle(r, k), CanFreeze(Reserving(r, k, t), q.write)
                   PROVE  fault' = fault
      OBVIOUS
    <2>2. CaptureFits(store, txn) /\ ~seq[txn.lane].fork /\ (txn.repl => CanReleasePrefix(store, txn.prefix))
      BY <2>1
    <2>3. PICK w : w = (IF txn.recycle THEN seq[txn.lane].rw ELSE NextImage(ReplacedStore(store, txn)))
      OBVIOUS
    <2>4. PICK z : z = CASE txn.place = "HostSnapshot" -> ReserveLogicalDestination(ReplacedStore(store, txn), w)
                [] txn.place = "DeviceFork" /\ txn.recycle -> Recycle(ReplacedStore(store, txn), w)
                [] txn.place = "DeviceFork" /\ ~txn.recycle ->
                      ReserveDestination(ReplacedStore(store, txn), w, NextDev(ReplacedStore(store, txn)))
      OBVIOUS
    <2>5. w = k /\ (txn.recycle => CanRecycle(ReplacedStore(store, txn), w))
      BY <2>1, <2>3, Zenon
    <2>6. z = Reserving(r, k, t)
      BY <1>1, <2>4, <2>5, Zenon
    <2>7. CanFreeze(z, seq[txn.lane].write)
      BY <2>1, <2>6
    <2>8. fault' = IF /\ CaptureFits(store, txn) /\ ~seq[txn.lane].fork
                      /\ txn.repl => CanReleasePrefix(store, txn.prefix)
                      /\ txn.recycle => CanRecycle(ReplacedStore(store, txn), w)
                      /\ CanFreeze(z, seq[txn.lane].write) THEN fault ELSE "logic"
      BY <2>3, <2>4, ZenonT(40) DEF PrepareCapture, Checked
    <2> QED BY <2>2, <2>5, <2>7, <2>8
  <1>4. CASE t.place = "DeviceFork"
    <2>1. m = BeginFork(Freeze(Reserving(r, k, t), q.write), q.write, k)
      BY <1>4, CaptureStoreIs
    <2>2. t.place # "HostSnapshot"
      BY <1>4
    <2>3. /\ t.kind = "capture" /\ t.phase = "ready" /\ held' = Contents(held)
          /\ (/\ CaptureFits(store, t) /\ ~q.fork
              /\ (t.repl => CanReleasePrefix(store, t.prefix))
              /\ (t.recycle => CanRecycle(r, k))
              /\ CanFreeze(Reserving(r, k, t), q.write)) => fault' = fault
          /\ \/ /\ t.place = "DeviceFork" /\ flight' = flight
                /\ Publish(m, [q EXCEPT !.read = q.write, !.write = k, !.fork = TRUE], u)
             \/ /\ t.place = "HostSnapshot" \/ t.prefix # None
                /\ store' = m /\ txn' = u /\ shared' = Vacated(t)
                /\ seq' = [seq EXCEPT ![t.lane] = IF t.place = "HostSnapshot" THEN q
                                     ELSE [q EXCEPT !.read = q.write, !.write = k, !.fork = TRUE]]
                /\ flight' = IF t.place = "HostSnapshot"
                             THEN Append(flight, [from |-> m.img[q.write].dev, to |-> m.img[q.write].phost])
                             ELSE flight
      BY <1>1, <1>2, <1>3, <1>4, <2>1, <2>2, ZenonT(40) DEF PrepareCapture, Vacated
    <2> QED BY <2>3 DEF Prepares
  <1>5. CASE t.place = "HostSnapshot"
    <2>1. m = BeginDeviceToHost(Freeze(Reserving(r, k, t), q.write), q.write, NextHost(Freeze(Reserving(r, k, t), q.write)))
      BY <1>5, CaptureStoreIs
    <2>2. t.place # "DeviceFork"
      BY <1>5
    <2>3. store' = m
      BY <1>1, <1>5, <2>1, <2>2, Zenon DEF PrepareCapture
    <2>4. txn' = u
      BY <1>5, <2>2, Zenon DEF PrepareCapture
    <2>5. shared' = Vacated(t)
      BY <1>5, <2>2, Zenon DEF PrepareCapture, Vacated
    <2>6. seq' = [seq EXCEPT ![t.lane] = q]
      BY <1>5, <2>2, Zenon DEF PrepareCapture
    <2>7. flight' = Append(flight, [from |-> store'.img[q.write].dev, to |-> store'.img[q.write].phost])
      BY <1>5, <2>2, Zenon DEF PrepareCapture
    <2> QED BY <1>2, <1>3, <1>5, <2>3, <2>4, <2>5, <2>6, <2>7 DEF Prepares
  <1> QED BY <1>4, <1>5

\* a capture t of lane c begins, over the store r and the slots SI without the replaced prefix
Starting(r, SI, t, u, c, k, m) ==
    /\ Consistent(r, seq, SI, held) /\ NoForks(seq) /\ c \in Conts /\ c = t.lane
    /\ Offered(t, seq) /\ Cleared(store, t, r, SI, k) /\ Begins(t, u, seq[c].write, k)
    /\ m = CaptureStore(r, seq[c].write, k, u)
    /\ Began(r, m, seq[c].write, k, u) /\ FlightTo(r.freeHost) /\ flight \in Seq(Copies)
    /\ Reserved(t) /\ t.kind = "capture" /\ shared \in [SharedSlots -> PrefixRecord]

(* What the start of a capture knows about lane, prefix and destination.   *)
LEMMA StartingFacts ==
    ASSUME NEW r, NEW SI, NEW t, NEW u, NEW c, NEW k, NEW m, Starting(r, SI, t, u, c, k, m)
    PROVE  /\ seq[c].role = "Active" /\ seq[c].stage \in {"prefill", "decode"} /\ seq[c] \in SeqRecord
           /\ seq \in [Conts -> SeqRecord] /\ SI \in [SharedSlots -> PrefixRecord]
           /\ Destination(r, seq, c, u, k) /\ Borrows(seq, SI)
           /\ t.priv \in BOOLEAN /\ (t.priv \/ t.prefix # None) /\ (t.recycle => t.priv)
           /\ t.place \in {"DeviceFork", "HostSnapshot"}
           /\ \A x \in SharedSlots : x # t.prefix => SI[x].role \notin {"ReservedCapture", "ReservedReplacement"}
           /\ t.prefix # None => /\ t.prefix \in SharedSlots /\ SI[t.prefix].img = None /\ SI[t.prefix].active = 0
                                 /\ SI[t.prefix].role = "ReservedCapture" /\ SamePrefixes(shared, SI, t.prefix)
           /\ t.prefix = None => SI = shared
  <1>1. /\ seq[c].role = "Active" /\ seq[c].stage \in {"prefill", "decode"}
        /\ t.priv \in BOOLEAN /\ (t.priv \/ t.prefix # None) /\ (t.recycle => t.priv)
        /\ t.place \in {"DeviceFork", "HostSnapshot"}
    BY DEF Starting, Offered, CaptureRecord
  <1>2. seq \in [Conts -> SeqRecord] /\ SI \in [SharedSlots -> PrefixRecord] /\ seq[c] \in SeqRecord
    BY DEF Starting, Consistent, Typed
  <1>3. Destination(r, seq, c, u, k)
    BY DEF Starting, Cleared, Destination, Begins
  <1>4. /\ t.prefix # None => /\ t.prefix \in SharedSlots /\ SI[t.prefix].img = None /\ SI[t.prefix].active = 0
                              /\ SI[t.prefix].role = "ReservedCapture" /\ SamePrefixes(shared, SI, t.prefix)
        /\ t.prefix = None => SI = shared
        /\ Borrows(seq, SI)
    BY DEF Starting, Cleared
  <1>5. \A x \in SharedSlots : x # t.prefix => SI[x].role \notin {"ReservedCapture", "ReservedReplacement"}
    <2>1. \A x \in SharedSlots : x # t.prefix => SI[x] = shared[x]
      BY <1>4 DEF SamePrefixes
    <2>2. \A x \in SharedSlots : x # t.prefix => shared[x].role \notin {"ReservedCapture", "ReservedReplacement"}
      BY DEF Starting, Reserved
    <2> QED BY <2>1, <2>2
  <1> QED BY <1>1, <1>2, <1>3, <1>4, <1>5

(* A Device-fork capture that publishes at once keeps the invariant.       *)
LEMMA CapturesAtOnce ==
    ASSUME NEW r, NEW SI, NEW t, NEW u, NEW c, NEW k, NEW m, Starting(r, SI, t, u, c, k, m),
           t.place = "DeviceFork", held' = Contents(held), flight' = flight,
           Publish(m, [seq[c] EXCEPT !.read = seq[c].write, !.write = k, !.fork = TRUE], u)
    PROVE  Live'
  <1>1. /\ seq[c].role = "Active" /\ seq[c].stage \in {"prefill", "decode"} /\ seq[c] \in SeqRecord
        /\ seq \in [Conts -> SeqRecord] /\ SI \in [SharedSlots -> PrefixRecord]
        /\ Destination(r, seq, c, u, k) /\ Borrows(seq, SI)
        /\ t.priv \in BOOLEAN /\ (t.priv \/ t.prefix # None) /\ (t.recycle => t.priv)
        /\ \A x \in SharedSlots : x # t.prefix => SI[x].role \notin {"ReservedCapture", "ReservedReplacement"}
        /\ t.prefix # None => /\ t.prefix \in SharedSlots /\ SI[t.prefix].img = None /\ SI[t.prefix].active = 0
                              /\ SamePrefixes(shared, SI, t.prefix)
        /\ t.prefix = None => SI = shared
    BY StartingFacts
  <1>2. /\ u.source = seq[c].write /\ u.dest = k /\ u.lane = c /\ u.prefix = t.prefix /\ u.priv = t.priv
        /\ u.recycle = t.recycle /\ u.place = "DeviceFork" /\ c \in Conts /\ Consistent(r, seq, SI, held)
        /\ NoForks(seq) /\ flight \in Seq(Copies) /\ m = CaptureStore(r, u.source, u.dest, u)
    BY DEF Starting, Begins
  <1>3. Capturing(r, seq, SI, c, u)
    <2>1. u.place # "HostSnapshot" /\ seq[c].stage # "done"
      BY <1>1, <1>2
    <2> QED BY <1>1, <1>2, <2>1 DEF Capturing
  <1>4. FlightTo(m.freeHost)
    <2>1. m.freeHost = r.freeHost
      BY <1>2 DEF Starting, Began
    <2> QED BY <2>1 DEF Starting
  <1>5. PICK b : b = Branched(seq[c], u)
    OBVIOUS
  <1>6. b = [seq[c] EXCEPT !.read = seq[c].write, !.write = k, !.fork = TRUE]
    BY <1>2, <1>5 DEF Branched
  <1>7. b.pos = seq[c].pos
    BY <1>1, <1>6 DEF SeqRecord
  <1>8. /\ store' = PublishedStore(m, u) /\ seq' = [seq EXCEPT ![c] = PublishedSeq(b, u)] /\ txn' = NoTxn
        /\ shared' = (IF u.prefix = None THEN shared
                     ELSE [shared EXCEPT ![u.prefix] =
                             [role |-> "Catalogued", img |-> u.source, f |-> seq[c].pos, active |-> 1]])
    BY <1>2, <1>6, <1>7 DEF Publish
  <1>9. shared' = (IF u.prefix = None THEN SI
                     ELSE [SI EXCEPT ![u.prefix] =
                             [role |-> "Catalogued", img |-> u.source, f |-> seq[c].pos, active |-> 1]])
    <2>1. CASE u.prefix = None
      BY <1>1, <1>2, <1>8, <2>1
    <2>2. CASE u.prefix # None
      <3>1. PICK p : p = [role |-> "Catalogued", img |-> u.source, f |-> seq[c].pos, active |-> 1]
        OBVIOUS
      <3>2. shared \in [SharedSlots -> PrefixRecord]
        BY DEF Starting
      <3>3. [shared EXCEPT ![u.prefix] = p] = [SI EXCEPT ![u.prefix] = p]
        BY <1>1, <1>2, <2>2, <3>2 DEF SamePrefixes
      <3> QED BY <1>8, <2>2, <3>1, <3>3
    <2> QED BY <2>1, <2>2
  <1> QED BY <1>2, <1>3, <1>4, <1>5, <1>8, <1>9, PublishKeeps

(* A capture that publishes in a later step keeps the invariant.           *)
LEMMA CapturesLater ==
    ASSUME NEW r, NEW SI, NEW t, NEW u, NEW c, NEW k, NEW m, Starting(r, SI, t, u, c, k, m),
           held' = Contents(held), store' = m, txn' = u, shared' = SI,
           seq' = [seq EXCEPT ![c] = Branched(seq[c], u)],
           flight' = IF t.place = "HostSnapshot"
                     THEN Append(flight, [from |-> m.img[seq[c].write].dev, to |-> m.img[seq[c].write].phost])
                     ELSE flight
    PROVE  Live'
  <1>1. /\ seq[c].role = "Active" /\ seq[c].stage \in {"prefill", "decode"} /\ seq[c] \in SeqRecord
        /\ seq \in [Conts -> SeqRecord] /\ SI \in [SharedSlots -> PrefixRecord]
        /\ Destination(r, seq, c, u, k) /\ Borrows(seq, SI)
        /\ t.priv \in BOOLEAN /\ (t.priv \/ t.prefix # None) /\ (t.recycle => t.priv)
        /\ t.place \in {"DeviceFork", "HostSnapshot"}
        /\ \A x \in SharedSlots : x # t.prefix => SI[x].role \notin {"ReservedCapture", "ReservedReplacement"}
        /\ t.prefix # None => t.prefix \in SharedSlots /\ SI[t.prefix].role = "ReservedCapture"
    BY StartingFacts
  <1>2. /\ u.source = seq[c].write /\ u.dest = k /\ u.lane = c /\ u.prefix = t.prefix /\ u.priv = t.priv
        /\ u.recycle = t.recycle /\ u.place = t.place /\ c \in Conts /\ Consistent(r, seq, SI, held)
        /\ NoForks(seq) /\ flight \in Seq(Copies) /\ m = CaptureStore(r, u.source, u.dest, u)
        /\ u.kind = "capture" /\ u.phase = "copying" /\ u \in CaptureRecord /\ u.repl = t.repl
        /\ u.removed = t.repl /\ u.pressure = t.pressure /\ Offered(t, seq) /\ FlightTo(r.freeHost)
    BY DEF Starting, Begins
  <1>3. PICK Q : Q = seq
    OBVIOUS
  <1>4. PICK R : R = seq'
    BY SMTT(40)
  <1>5. k \in Images
    BY DEF Starting, Began
  <1>6. /\ Branched(Q[c], u).role = Q[c].role /\ Branched(Q[c], u).refs = Q[c].refs
    BY <1>1, <1>3 DEF Branched, SeqRecord
  <1>7. R[c] = Branched(Q[c], u) /\ \A d \in Conts : d # c => R[d] = Q[d]
    BY <1>1, <1>2, <1>3, <1>4
  <1>8. Borrows(R, SI)
    <2>1. \A d \in Conts : R[d].role = Q[d].role /\ R[d].refs = Q[d].refs
      BY <1>2, <1>6, <1>7
    <2>2. \A x \in SharedSlots : {d \in Conts : R[d].role = "Active" /\ x \in R[d].refs}
                                = {d \in Conts : Q[d].role = "Active" /\ x \in Q[d].refs}
      BY <2>1
    <2> QED BY <1>1, <1>3, <2>2, Zenon DEF Borrows
  <1>9. Consistent(r, Q, SI, held')
    <2>1. Consistent(r, Q, SI, Wiped(m, held))
      BY <1>2, <1>3, WipedConsistent DEF Starting, Began
    <2> QED BY <2>1, ContentsAre, SMTT(40)
  <1>10. /\ flight' \in Seq(Copies) /\ FlightTo(r.freeHost)'
         /\ (u.place = "HostSnapshot" => Awaited(r.img[u.source].dev, NextHost(r))')
    <2>1. CASE t.place = "HostSnapshot"
      <3>1. /\ m.img[u.source].dev = r.img[u.source].dev /\ m.img[u.source].phost = NextHost(r)
            /\ r.img[u.source].dev \in Slots /\ NextHost(r) \in Slots /\ NextHost(r) \in r.freeHost
        BY <1>2, <2>1 DEF Starting, Began
      <3>2. PICK a, b : a = r.img[u.source].dev /\ b = NextHost(r)
        OBVIOUS
      <3>3. flight' = Append(flight, [from |-> a, to |-> b])
        BY <1>2, <2>1, <3>1, <3>2, SMTT(40)
      <3>4. Awaited(a, b)' /\ flight' \in Seq(Copies) /\ \A S : FlightTo(S) /\ b \in S => FlightTo(S)'
        BY <1>2, <3>1, <3>2, <3>3, Submits
      <3> QED BY <1>2, <3>1, <3>2, <3>4, SMTT(40)
    <2>2. CASE t.place = "DeviceFork"
      <3>1. flight' = flight /\ u.place # "HostSnapshot"
        BY <1>2, <2>2, SMTT(40)
      <3> QED BY <1>2, <3>1 DEF FlightTo
    <2> QED BY <1>1, <2>1, <2>2
  <1>11. CaptureCopying(r, Q, u)'
    <2>1. seq' = [Q EXCEPT ![u.lane] = Branched(Q[u.lane], u)]
      BY <1>2, <1>3
    <2>2. u.source = Q[u.lane].write /\ Destination(r, Q, u.lane, u, u.dest)
      BY <1>1, <1>2, <1>3
    <2>3. store' = CaptureStore(r, u.source, u.dest, u)
      BY <1>2
    <2> QED BY <1>10, <2>1, <2>2, <2>3 DEF CaptureCopying
  <1>12. Offered(u, Q)'
    <2>1. shared' = SI /\ (u.prefix # None => SI[u.prefix].role = "ReservedCapture")
      BY <1>1, <1>2
    <2>2. u.removed = (u.phase = "copying" /\ u.repl)
      BY <1>2, SMTT(40) DEF CaptureRecord
    <2>3. /\ u.prefix = None => ~u.repl
          /\ u.recycle => u.priv /\ Q[u.lane].rw # None
          /\ u.prefix # None => u.pressure.who # u.prefix
          /\ u.recycle => u.place = "DeviceFork"
          /\ Q[u.lane].role = "Active" /\ Q[u.lane].stage \in {"prefill", "decode"}
          /\ u.priv \/ u.prefix # None
      BY <1>1, <1>2, <1>3 DEF Offered, Starting
    <2>4. ~(u.repl /\ ~u.removed)
      BY <1>2
    <2> QED BY <1>2, <2>1, <2>2, <2>3, <2>4 DEF Offered
  <1>13. CapturePhase(r, Q, u)'
    BY <1>2, <1>11, <1>12 DEF CapturePhase
  <1>14. Opened(r, Q)'
    <2>1. Consistent(r, Q, shared, held)' /\ txn'.kind = "capture" /\ CapturePhase(r, Q, txn)' /\ NoForks(Q)
      BY <1>2, <1>3, <1>9, <1>13
    <2> QED BY <2>1 DEF Opened
  <1>15. Reserved(txn)'
    <2>1. \A x \in SharedSlots : shared'[x].role \in {"ReservedCapture", "ReservedReplacement"} => x = u.prefix
      BY <1>1, <1>2
    <2> QED BY <1>2, <2>1 DEF Reserved
  <1> QED BY <1>4, <1>8, <1>10, <1>14, <1>15 DEF Live

(* PrepareCapture keeps the invariant and throws nothing.                  *)
LEMMA PrepareCaptureKeeps ==
    ASSUME Live, fault = "none", PrepareCapture
    PROVE  Live' /\ fault' = "none"
  <1>1. PICK s, Q : Opened(s, Q)
    BY DEF Live
  <1>2. PICK t : t = txn
    BY SMTT(40)
  <1>3. t.kind = "capture" /\ t.phase = "ready"
    BY <1>2, Zenon DEF PrepareCapture
  <1>4. /\ Consistent(s, Q, shared, held) /\ NoForks(Q) /\ Offered(t, Q) /\ Q = seq /\ CaptureReady(s, t)
    BY <1>1, <1>2, <1>3 DEF Opened, CapturePhase
  <1>5. PICK c \in Conts : c = t.lane
    BY <1>4 DEF Offered, CaptureRecord
  <1>6. /\ CaptureFits(s, t) /\ Recyclable(s, t) /\ store = s /\ FlightTo(s.freeHost)
        /\ Borrows(seq, shared) /\ Reserved(t) /\ flight \in Seq(Copies)
    BY <1>2, <1>4 DEF CaptureReady, Live
  <1>7. ~t.removed /\ t.place \in {"DeviceFork", "HostSnapshot"} /\ t \in CaptureRecord
    BY <1>3, <1>4 DEF Offered, CaptureRecord
  <1>8. PICK r, SI : r = ReplacedStore(s, t) /\ SI = Vacated(t)
    OBVIOUS
  <1>9. PICK k : k = IF t.recycle THEN seq[t.lane].rw ELSE NextImage(r)
    OBVIOUS
  <1>10. Cleared(s, t, r, SI, k)
    BY <1>4, <1>6, <1>7, <1>8, <1>9, ReplacedKeeps
  <1>11. PICK w : w = seq[c].write
    OBVIOUS
  <1>12. PICK u : u = [t EXCEPT !.source = w, !.dest = k, !.removed = t.repl, !.phase = "copying"]
    OBVIOUS
  <1>13. Consistent(r, seq, SI, held) /\ NoForks(seq) /\ Destination(r, seq, c, t, k)
    BY <1>4, <1>5, <1>10 DEF Cleared
  <1>14. seq[c].role = "Active" /\ ~seq[c].fork
    BY <1>4, <1>5 DEF Offered, NoForks
  <1>15. Writer(r, held, seq[c])
    BY <1>13, <1>14, SeqCases
  <1>16. PICK m : m = CaptureStore(r, w, k, t)
    OBVIOUS
  <1>17. Began(r, m, w, k, t)
    BY <1>11, <1>13, <1>15, <1>16, CaptureBegan
  <1>18. Begins(t, u, w, k)
    BY <1>7, <1>12, <1>17, BeginFields, Zenon DEF Began
  <1>19. m = CaptureStore(r, w, k, u) /\ Began(r, m, w, k, u)
    <2>1. m = CaptureStore(r, w, k, u)
      BY <1>16, <1>18, SameCapture
    <2> QED BY <1>17, <1>18, <2>1 DEF Began, Begins, Reserving
  <1>20. FlightTo(r.freeHost)
    BY <1>6, <1>10 DEF FlightTo, Cleared
  <1>21. Starting(r, SI, t, u, c, k, m)
    <2>1. shared \in [SharedSlots -> PrefixRecord]
      BY <1>4 DEF Consistent, Typed
    <2> QED BY <1>3, <1>4, <1>5, <1>6, <1>10, <1>11, <1>13, <1>18, <1>19, <1>20, <2>1 DEF Starting
  <1>22. PICK q : q = seq[c]
    OBVIOUS
  <1>23. /\ held' = Contents(held)
         /\ (/\ CaptureFits(store, t) /\ ~q.fork
             /\ (t.repl => CanReleasePrefix(store, t.prefix))
             /\ (t.recycle => CanRecycle(r, k))
             /\ CanFreeze(Reserving(r, k, t), q.write)) => fault' = fault
         /\ \/ /\ t.place = "DeviceFork" /\ flight' = flight
               /\ Publish(m, [q EXCEPT !.read = q.write, !.write = k, !.fork = TRUE], u)
            \/ /\ t.place = "HostSnapshot" \/ t.prefix # None
               /\ store' = m /\ txn' = u /\ shared' = Vacated(t)
               /\ seq' = [seq EXCEPT ![t.lane] = IF t.place = "HostSnapshot" THEN q
                                    ELSE [q EXCEPT !.read = q.write, !.write = k, !.fork = TRUE]]
               /\ flight' = IF t.place = "HostSnapshot"
                            THEN Append(flight, [from |-> m.img[q.write].dev, to |-> m.img[q.write].phost])
                            ELSE flight
    <2>1. Preparing(t, q, r, k, m, u)
      BY <1>2, <1>5, <1>6, <1>7, <1>8, <1>9, <1>11, <1>12, <1>16, <1>22 DEF Preparing
    <2>2. Prepares(t, q, r, k, m, u)
      BY <2>1, PrepareCaptureIs
    <2> QED BY <2>2 DEF Prepares
  <1>24. fault' = fault
    <2>1. CaptureFits(store, t) /\ ~q.fork /\ (t.repl => CanReleasePrefix(store, t.prefix))
          /\ (t.recycle => CanRecycle(r, k)) /\ CanFreeze(Reserving(r, k, t), q.write)
      BY <1>6, <1>10, <1>11, <1>14, <1>17, <1>22 DEF Cleared, Began
    <2> QED BY <1>23, <2>1
  <1>25. Live'
    <2>1. CASE /\ t.place = "DeviceFork" /\ flight' = flight
               /\ Publish(m, [q EXCEPT !.read = q.write, !.write = k, !.fork = TRUE], u)
      BY <1>21, <1>22, <1>23, <2>1, CapturesAtOnce, Zenon
    <2>2. CASE /\ store' = m /\ txn' = u /\ shared' = Vacated(t)
               /\ seq' = [seq EXCEPT ![t.lane] = IF t.place = "HostSnapshot" THEN q
                                    ELSE [q EXCEPT !.read = q.write, !.write = k, !.fork = TRUE]]
               /\ flight' = IF t.place = "HostSnapshot"
                            THEN Append(flight, [from |-> m.img[q.write].dev, to |-> m.img[q.write].phost])
                            ELSE flight
      <3>1. Branched(q, u) = IF t.place = "HostSnapshot" THEN q
                             ELSE [q EXCEPT !.read = q.write, !.write = k, !.fork = TRUE]
        BY <1>18 DEF Branched, Begins
      <3>2. seq' = [seq EXCEPT ![c] = Branched(seq[c], u)]
        BY <1>5, <1>22, <2>2, <3>1
      <3>3. flight' = IF t.place = "HostSnapshot"
                      THEN Append(flight, [from |-> m.img[seq[c].write].dev, to |-> m.img[seq[c].write].phost])
                      ELSE flight
        BY <1>22, <2>2
      <3> QED BY <1>8, <1>21, <1>23, <2>2, <3>2, <3>3, CapturesLater
    <2> QED BY <1>23, <2>1, <2>2
  <1> QED BY <1>24, <1>25
===============================================================================
