--------------------------- MODULE StateStoreProofs ---------------------------
(***************************************************************************)
(* The safety of StateImageStore for every number of images and slots: its *)
(* methods, in any order their checks allow, neither leak nor share a      *)
(* slot, never strand an image and never take from a pending fork the      *)
(* replica it reads.                                                       *)
(*                                                                         *)
(* The three invariants are not inductive.  What is missing is what each   *)
(* image may look like (Shapes) and that source_pins counts exactly the    *)
(* forks and the transfer that read the image (PinsExact).  Sound is the   *)
(* inductive invariant; it is a property of a value, not of the variable,  *)
(* because ContextState's handlers call several methods in one step and    *)
(* every store between two calls has to be sound.                          *)
(*                                                                         *)
(* Every method rewrites one image, or two, and returns or takes slots of  *)
(* a pool.  UpdateOne and UpdateTwo say when such an update keeps the      *)
(* store sound, in terms of the images before and after; the proof for a   *)
(* method only checks those local conditions.                              *)
(*                                                                         *)
(* The second half prepares the proofs about ContextState.  Consistent     *)
(* relates a store to the catalogue of sequences and shared prefixes while *)
(* no transaction is under way: every sequence is bound in one of four     *)
(* ways (Headless, Endpoint, Writer, Forker), every replica of a named     *)
(* image holds its frontier, and an image has as many references as names. *)
(* It is shown what an edit of one sequence, prefix or image does to       *)
(* Consistent, what each method does to the fields of the images, and      *)
(* that releasing, demoting and restoring keep store and catalogue         *)
(* consistent.                                                             *)
(***************************************************************************)
EXTENDS ContextState, DataProofs

(* What an image of each role may look like.                               *)
Shape(o) ==
    /\ o.role = "Free" => o = NewObject("Free")
    /\ o.refs # 0 => Immutable(o)
    /\ o.pins # 0 => Immutable(o)
    /\ o.from # None => o.role = "ActiveMutable" /\ o.pinned
    /\ o.phost # None => /\ Immutable(o) /\ o.pinned
                         /\ o.dev # None /\ o.host = None /\ o.pdev = None
    /\ o.pdev # None => /\ o.dev = None /\ o.pinned
                        /\ o.from = None => Immutable(o) /\ o.host # None
    /\ Immutable(o) => o.dev # None \/ o.host # None
    /\ o.role = "ActiveMutable" => o.dev # None \/ o.pdev # None

(* Every image of s has its shape.                                         *)
Shapes(s) == \A h \in Images : Shape(s.img[h])

\* the fork bindings and Host forks that read h
Readers(s, h) == {k \in Images : s.img[k].from = h}

\* the pin an image's own replica transfer holds
OwnPin(o) == IF HasPending(o) /\ o.from = None THEN 1 ELSE 0

(* source_pins counts the readers of an image and its own transfer.        *)
PinsExact(s) == \A h \in Images :
    s.img[h].pins = Cardinality(Readers(s, h)) + OwnPin(s.img[h])

\* SlotsPartitioned and ForkSourcesLive of a store that is not the current one
Partitioned(s) ==
    /\ \A h \in Images :
          /\ DeviceHeld(s.img[h]) \cap s.freeDev = {}
          /\ HostHeld(s.img[h]) \cap s.freeHost = {}
          /\ \A k \in Images \ {h} :
                /\ DeviceHeld(s.img[h]) \cap DeviceHeld(s.img[k]) = {}
                /\ HostHeld(s.img[h]) \cap HostHeld(s.img[k]) = {}
    /\ \A d \in DevSlots \ s.freeDev : \E h \in Images : d \in DeviceHeld(s.img[h])
    /\ \A t \in HostSlots \ s.freeHost : \E h \in Images : t \in HostHeld(s.img[h])

(* ForkSourcesLive of s.                                                   *)
ForksLive(s) ==
    \A k \in Images :
        s.img[k].from # None =>
          /\ Immutable(s.img[s.img[k].from])
          /\ IF s.img[k].pdev = None THEN s.img[s.img[k].from].dev # None
                                     ELSE s.img[s.img[k].from].host # None

(* The inductive invariant of the store.                                   *)
Sound(s) == s \in Store /\ Partitioned(s) /\ ForksLive(s) /\ Shapes(s) /\ PinsExact(s)

\* what a method may do to an image that a pending fork may be reading
KeepsReaders(o, p) ==
    \/ o.pins = OwnPin(o)
    \/ /\ Immutable(o) => Immutable(p)
       /\ o.dev # None => p.dev # None
       /\ o.host # None => p.host # None

(* An image none but its own transfer pins has no reader.                  *)
LEMMA NoReader ==
    ASSUME NEW s, Sound(s), NEW h \in Images, s.img[h].pins = OwnPin(s.img[h])
    PROVE  \A k \in Images : s.img[k].from # h
  <1>1. IsFiniteSet(Readers(s, h))
    BY StoreAssumption, FS_Subset DEF Readers
  <1>2. Cardinality(Readers(s, h)) \in Nat
    BY <1>1, FS_CardinalityType
  <1>3. OwnPin(s.img[h]) \in Nat
    BY DEF OwnPin
  <1>4. Cardinality(Readers(s, h)) = 0
    BY <1>2, <1>3 DEF Sound, PinsExact
  <1>5. Readers(s, h) = {}
    BY <1>1, <1>4, FS_EmptySet
  <1> QED BY <1>5 DEF Readers

(* An update of one image that keeps its fork binding, moves slots only    *)
(* between the image and the pools, and accounts for its own transfer's    *)
(* pin keeps the invariant.                                                *)
LEMMA UpdateOne ==
    ASSUME NEW s, Sound(s),
           NEW h \in Images, NEW p \in Image,
           NEW fd \in SUBSET DevSlots, NEW fh \in SUBSET HostSlots,
           Shape(p),
           p.from = s.img[h].from,
           p.pins - OwnPin(p) = s.img[h].pins - OwnPin(s.img[h]),
           p.pdev = None => s.img[h].pdev = None \/ p.from = None,
           p.pdev # None => s.img[h].pdev # None \/ p.from = None,
           KeepsReaders(s.img[h], p),
           fd \cup DeviceHeld(p) = s.freeDev \cup DeviceHeld(s.img[h]),
           fd \cap DeviceHeld(p) = {},
           fh \cup HostHeld(p) = s.freeHost \cup HostHeld(s.img[h]),
           fh \cap HostHeld(p) = {}
    PROVE  Sound([img |-> [s.img EXCEPT ![h] = p], freeDev |-> fd, freeHost |-> fh])
  <1> DEFINE r == [img |-> [s.img EXCEPT ![h] = p], freeDev |-> fd, freeHost |-> fh]
  <1> DEFINE o == s.img[h]
  <1>t. s \in Store
    BY DEF Sound
  <1>1. r \in Store
    BY <1>t DEF Store
  <1>2. \A k \in Images : r.img[k] = IF k = h THEN p ELSE s.img[k]
    BY <1>t DEF Store
  <1>f. r.freeDev = fd /\ r.freeHost = fh
    OBVIOUS
  <1> HIDE DEF r
  <1>3. Shapes(r)
    BY <1>2 DEF Sound, Shapes
  <1>4. Partitioned(r)
    <2>1. \A k \in Images \ {h} : /\ DeviceHeld(s.img[k]) \cap s.freeDev = {}
                                  /\ DeviceHeld(s.img[k]) \cap DeviceHeld(o) = {}
                                  /\ HostHeld(s.img[k]) \cap s.freeHost = {}
                                  /\ HostHeld(s.img[k]) \cap HostHeld(o) = {}
      BY DEF Sound, Partitioned
    <2>2. \A k \in Images \ {h} : /\ DeviceHeld(s.img[k]) \cap fd = {}
                                  /\ DeviceHeld(s.img[k]) \cap DeviceHeld(p) = {}
                                  /\ HostHeld(s.img[k]) \cap fh = {}
                                  /\ HostHeld(s.img[k]) \cap HostHeld(p) = {}
      BY <2>1
    <2>3. \A d \in DevSlots \ fd : \E k \in Images : d \in DeviceHeld(r.img[k])
      <3> SUFFICES ASSUME NEW d \in DevSlots, d \notin fd
                   PROVE  \E k \in Images : d \in DeviceHeld(r.img[k])
        OBVIOUS
      <3>1. CASE d \in DeviceHeld(p)
        BY <3>1, <1>2
      <3>2. CASE d \notin DeviceHeld(p)
        <4>1. d \notin s.freeDev /\ d \notin DeviceHeld(o)
          BY <3>2
        <4>2. PICK k \in Images : d \in DeviceHeld(s.img[k])
          BY <4>1 DEF Sound, Partitioned
        <4> QED BY <4>1, <4>2, <1>2
      <3> QED BY <3>1, <3>2
    <2>4. \A t \in HostSlots \ fh : \E k \in Images : t \in HostHeld(r.img[k])
      <3> SUFFICES ASSUME NEW t \in HostSlots, t \notin fh
                   PROVE  \E k \in Images : t \in HostHeld(r.img[k])
        OBVIOUS
      <3>1. CASE t \in HostHeld(p)
        BY <3>1, <1>2
      <3>2. CASE t \notin HostHeld(p)
        <4>1. t \notin s.freeHost /\ t \notin HostHeld(o)
          BY <3>2
        <4>2. PICK k \in Images : t \in HostHeld(s.img[k])
          BY <4>1 DEF Sound, Partitioned
        <4> QED BY <4>1, <4>2, <1>2
      <3> QED BY <3>1, <3>2
    <2>5. r.freeDev = fd /\ r.freeHost = fh
      BY <1>f
    <2>6. \A j, k \in Images \ {h} : j # k =>
             /\ DeviceHeld(s.img[j]) \cap DeviceHeld(s.img[k]) = {}
             /\ HostHeld(s.img[j]) \cap HostHeld(s.img[k]) = {}
      BY DEF Sound, Partitioned
    <2> HIDE DEF o
    <2> QED BY <1>2, <2>2, <2>3, <2>4, <2>5, <2>6 DEF Partitioned
  <1>5. ForksLive(r)
    <2> SUFFICES ASSUME NEW k \in Images, r.img[k].from # None
                 PROVE  /\ Immutable(r.img[r.img[k].from])
                        /\ IF r.img[k].pdev = None
                             THEN r.img[r.img[k].from].dev # None
                             ELSE r.img[r.img[k].from].host # None
      BY DEF ForksLive
    <2> DEFINE f == s.img[k].from
    <2>1. f = r.img[k].from /\ f \in Images
      BY <1>2, <1>t DEF Store, Image
    <2>2. /\ Immutable(s.img[f])
          /\ IF s.img[k].pdev = None THEN s.img[f].dev # None
                                         ELSE s.img[f].host # None
      BY <2>1 DEF Sound, ForksLive
    <2>3. (r.img[k].pdev = None) <=> (s.img[k].pdev = None)
      BY <1>2, <2>1
    <2>4. CASE f # h
      BY <1>2, <2>1, <2>2, <2>3, <2>4
    <2>5. CASE f = h
      <3>1. o.pins # OwnPin(o)
        BY <2>5, NoReader
      <3>2. /\ Immutable(p)
            /\ o.dev # None => p.dev # None
            /\ o.host # None => p.host # None
        BY <3>1, <2>2, <2>5 DEF KeepsReaders
      <3> QED BY <1>2, <2>1, <2>2, <2>3, <2>5, <3>2
    <2> QED BY <2>4, <2>5
  <1>6. PinsExact(r)
    <2> SUFFICES ASSUME NEW k \in Images
                 PROVE  r.img[k].pins = Cardinality(Readers(r, k)) + OwnPin(r.img[k])
      BY DEF PinsExact
    <2>1. Readers(r, k) = Readers(s, k)
      BY <1>2 DEF Readers
    <2>2. Cardinality(Readers(s, k)) \in Nat
      BY StoreAssumption, FS_Subset, FS_CardinalityType DEF Readers
    <2>3. s.img[k].pins = Cardinality(Readers(s, k)) + OwnPin(s.img[k])
      BY DEF Sound, PinsExact
    <2>4. OwnPin(o) \in Nat /\ OwnPin(p) \in Nat /\ p.pins \in Nat /\ o.pins \in Nat
      BY <1>t DEF OwnPin, Store, Image
    <2> QED BY <1>2, <2>1, <2>2, <2>3, <2>4
  <1> QED BY <1>1, <1>3, <1>4, <1>5, <1>6 DEF Sound, r

(* One reader more or one less changes the number of readers by one.       *)
LEMMA ReaderCount ==
    ASSUME NEW h \in Images, NEW k \in Images,
           NEW a, NEW b, a \in {None, h}, b \in {None, h},
           NEW R \in SUBSET Images, NEW S \in SUBSET Images,
           \A j \in Images \ {k} : j \in R <=> j \in S,
           k \in R <=> a = h, k \in S <=> b = h
    PROVE  /\ Cardinality(R) \in Nat /\ Cardinality(S) \in Nat
           /\ Cardinality(S) - Cardinality(R)
                = (IF b = h THEN 1 ELSE 0) - (IF a = h THEN 1 ELSE 0)
  <1>1. IsFiniteSet(R) /\ IsFiniteSet(S)
    BY StoreAssumption, FS_Subset
  <1>2. Cardinality(R) \in Nat /\ Cardinality(S) \in Nat
    BY <1>1, FS_CardinalityType
  <1>3. CASE a = b
    <2>1. R = S
      BY <1>3
    <2> QED BY <2>1, <1>2, <1>3
  <1>4. CASE a # b /\ b = h
    <2>1. S = R \cup {k} /\ k \notin R
      BY <1>4
    <2>2. Cardinality(S) = Cardinality(R) + 1
      BY <2>1, <1>1, FS_AddElement
    <2> QED BY <2>2, <1>2, <1>4
  <1>5. CASE a # b /\ b # h
    <2>1. R = S \cup {k} /\ k \notin S /\ a = h
      BY <1>5
    <2>2. Cardinality(R) = Cardinality(S) + 1
      BY <2>1, <1>1, FS_AddElement
    <2> QED BY <2>1, <2>2, <1>2, <1>5
  <1> QED BY <1>3, <1>4, <1>5

(* An update of an image h and of another image k that may bind k to read  *)
(* h, or end that binding, keeps the invariant when slots only move among  *)
(* the two images and the pools and h's pins follow the binding.           *)
LEMMA UpdateTwo ==
    ASSUME NEW s, Sound(s),
           NEW h \in Images, NEW k \in Images, h # k,
           NEW p \in Image, NEW q \in Image,
           NEW fd \in SUBSET DevSlots,
           Shape(p), Shape(q),
           p.from = None, s.img[h].from = None,
           q.from \in {None, h}, s.img[k].from \in {None, h},
           (p.pins - OwnPin(p)) - (s.img[h].pins - OwnPin(s.img[h]))
              = (IF q.from = h THEN 1 ELSE 0) - (IF s.img[k].from = h THEN 1 ELSE 0),
           q.pins = OwnPin(q), s.img[k].pins = OwnPin(s.img[k]),
           KeepsReaders(s.img[h], p),
           q.from = h => /\ Immutable(p)
                         /\ IF q.pdev = None THEN p.dev # None ELSE p.host # None,
           fd \cup DeviceHeld(p) \cup DeviceHeld(q)
              = s.freeDev \cup DeviceHeld(s.img[h]) \cup DeviceHeld(s.img[k]),
           fd \cap DeviceHeld(p) = {}, fd \cap DeviceHeld(q) = {},
           DeviceHeld(p) \cap DeviceHeld(q) = {},
           HostHeld(p) = HostHeld(s.img[h]),
           HostHeld(q) = HostHeld(s.img[k])
    PROVE  Sound([img |-> [s.img EXCEPT ![h] = p, ![k] = q], freeDev |-> fd, freeHost |-> s.freeHost])
  <1> DEFINE r == [img |-> [s.img EXCEPT ![h] = p, ![k] = q], freeDev |-> fd, freeHost |-> s.freeHost]
  <1>t. s \in Store
    BY DEF Sound
  <1>1. r \in Store
    BY <1>t DEF Store
  <1>2. \A j \in Images : r.img[j] = IF j = k THEN q ELSE IF j = h THEN p
                                                        ELSE s.img[j]
    BY <1>t DEF Store
  <1>f. r.freeDev = fd /\ r.freeHost = s.freeHost
    OBVIOUS
  <1> HIDE DEF r
  <1>3. Shapes(r)
    BY <1>2 DEF Sound, Shapes
  <1>4. Partitioned(r)
    <2>1. \A j \in Images \ {h, k} :
             /\ DeviceHeld(s.img[j]) \cap s.freeDev = {}
             /\ DeviceHeld(s.img[j]) \cap DeviceHeld(s.img[h]) = {}
             /\ DeviceHeld(s.img[j]) \cap DeviceHeld(s.img[k]) = {}
      BY DEF Sound, Partitioned
    <2>2. \A j \in Images \ {h, k} : /\ DeviceHeld(s.img[j]) \cap fd = {}
                                     /\ DeviceHeld(s.img[j]) \cap DeviceHeld(p) = {}
                                     /\ DeviceHeld(s.img[j]) \cap DeviceHeld(q) = {}
      BY <2>1
    <2>3. \A j \in Images : HostHeld(r.img[j]) = HostHeld(s.img[j])
      BY <1>2
    <2>4. \A d \in DevSlots \ fd : \E j \in Images : d \in DeviceHeld(r.img[j])
      <3> SUFFICES ASSUME NEW d \in DevSlots, d \notin fd
                   PROVE  \E j \in Images : d \in DeviceHeld(r.img[j])
        OBVIOUS
      <3>1. CASE d \in DeviceHeld(p) \cup DeviceHeld(q)
        BY <3>1, <1>2
      <3>2. CASE d \notin DeviceHeld(p) \cup DeviceHeld(q)
        <4>1. /\ d \notin s.freeDev
              /\ d \notin DeviceHeld(s.img[h]) /\ d \notin DeviceHeld(s.img[k])
          BY <3>2
        <4>2. PICK j \in Images : d \in DeviceHeld(s.img[j])
          BY <4>1 DEF Sound, Partitioned
        <4> QED BY <4>1, <4>2, <1>2
      <3> QED BY <3>1, <3>2
    <2>5. r.freeDev = fd /\ r.freeHost = s.freeHost
      BY <1>f
    <2>6. \A i, j \in Images \ {h, k} : i # j =>
             DeviceHeld(s.img[i]) \cap DeviceHeld(s.img[j]) = {}
      BY DEF Sound, Partitioned
    <2>7. /\ \A j \in Images : HostHeld(s.img[j]) \cap s.freeHost = {}
          /\ \A i, j \in Images : i # j => HostHeld(s.img[i]) \cap HostHeld(s.img[j]) = {}
          /\ \A u \in HostSlots \ s.freeHost :
                \E j \in Images : u \in HostHeld(s.img[j])
      BY DEF Sound, Partitioned
    <2> SUFFICES ASSUME NEW i \in Images
                 PROVE  /\ DeviceHeld(r.img[i]) \cap fd = {}
                        /\ \A j \in Images \ {i} :
                              DeviceHeld(r.img[i]) \cap DeviceHeld(r.img[j]) = {}
      BY <2>3, <2>4, <2>5, <2>7 DEF Partitioned
    <2>8. CASE i = h
      BY <1>2, <2>2, <2>8
    <2>9. CASE i = k
      BY <1>2, <2>2, <2>9
    <2>10. CASE i \notin {h, k}
      BY <1>2, <2>2, <2>6, <2>10
    <2> QED BY <2>8, <2>9, <2>10
  <1>5. ForksLive(r)
    <2> SUFFICES ASSUME NEW j \in Images, r.img[j].from # None
                 PROVE  /\ Immutable(r.img[r.img[j].from])
                        /\ IF r.img[j].pdev = None
                             THEN r.img[r.img[j].from].dev # None
                             ELSE r.img[r.img[j].from].host # None
      BY DEF ForksLive
    <2>1. CASE j = k
      BY <2>1, <1>2
    <2>2. CASE j = h
      BY <2>2, <1>2
    <2>3. CASE j \notin {h, k}
      <3> DEFINE f == s.img[j].from
      <3>1. f = r.img[j].from /\ f \in Images /\ r.img[j] = s.img[j]
        BY <1>2, <1>t, <2>3 DEF Store, Image
      <3>2. /\ Immutable(s.img[f])
            /\ IF s.img[j].pdev = None THEN s.img[f].dev # None
                                           ELSE s.img[f].host # None
        BY <3>1 DEF Sound, ForksLive
      <3>3. f # k
        BY NoReader
      <3>4. CASE f # h
        BY <1>2, <3>1, <3>2, <3>3, <3>4
      <3>5. CASE f = h
        <4>1. s.img[h].pins # OwnPin(s.img[h])
          BY <3>5, NoReader
        <4>2. /\ Immutable(p)
              /\ s.img[h].dev # None => p.dev # None
              /\ s.img[h].host # None => p.host # None
          BY <4>1, <3>2, <3>5 DEF KeepsReaders
        <4> QED BY <1>2, <3>1, <3>2, <3>5, <4>2
      <3> QED BY <3>4, <3>5
    <2> QED BY <2>1, <2>2, <2>3
  <1>6. PinsExact(r)
    <2> SUFFICES ASSUME NEW j \in Images
                 PROVE  r.img[j].pins = Cardinality(Readers(r, j)) + OwnPin(r.img[j])
      BY DEF PinsExact
    <2>1. /\ s.img[j].pins = Cardinality(Readers(s, j)) + OwnPin(s.img[j])
          /\ s.img[h].pins = Cardinality(Readers(s, h)) + OwnPin(s.img[h])
      BY DEF Sound, PinsExact
    <2>2. Cardinality(Readers(s, j)) \in Nat /\ Cardinality(Readers(s, h)) \in Nat
      BY StoreAssumption, FS_Subset, FS_CardinalityType DEF Readers
    <2>3. \A i \in Images : i # h => Readers(r, i) = Readers(s, i)
      BY <1>2, StoreAssumption DEF Readers
    <2>4. CASE j = h
      <3>1. /\ Cardinality(Readers(r, h)) \in Nat
            /\ Cardinality(Readers(r, h)) - Cardinality(Readers(s, h))
                = (IF q.from = h THEN 1 ELSE 0) - (IF s.img[k].from = h THEN 1 ELSE 0)
        <4>1. /\ Readers(s, h) \in SUBSET Images /\ Readers(r, h) \in SUBSET Images
              /\ \A i \in Images \ {k} : i \in Readers(s, h) <=> i \in Readers(r, h)
              /\ k \in Readers(s, h) <=> s.img[k].from = h
              /\ k \in Readers(r, h) <=> q.from = h
          BY <1>2 DEF Readers
        <4> QED BY <4>1, ReaderCount, SMTT(40)
      <3>2. /\ OwnPin(s.img[h]) \in Nat /\ OwnPin(p) \in Nat
            /\ p.pins \in Nat /\ s.img[h].pins \in Nat
        BY <1>t DEF OwnPin, Store, Image
      <3>3. r.img[h] = p
        BY <1>2
      <3> QED BY <2>1, <2>2, <2>4, <3>1, <3>2, <3>3
    <2>5. CASE j = k
      <3>1. Cardinality(Readers(s, k)) = 0
        <4>1. OwnPin(s.img[k]) \in Nat
          BY DEF OwnPin
        <4> QED BY <2>1, <2>2, <2>5, <4>1
      <3>2. OwnPin(q) \in Nat
        BY DEF OwnPin
      <3> QED BY <1>2, <2>3, <2>5, <3>1, <3>2
    <2>6. CASE j \notin {h, k}
      BY <1>2, <2>1, <2>3, <2>6
    <2> QED BY <2>4, <2>5, <2>6
  <1> QED BY <1>1, <1>3, <1>4, <1>5, <1>6 DEF Sound, r

(* The methods: each lemma names the image (or the two) a method leaves    *)
(* and the pools it leaves, and checks the conditions of UpdateOne or      *)
(* UpdateTwo.                                                              *)
-------------------------------------------------------------------------------

\* what soundness says of one image and its slots
ImageFacts(s, h) ==
    /\ s.img[h] \in Image /\ Shape(s.img[h])
    /\ s = [img |-> s.img, freeDev |-> s.freeDev, freeHost |-> s.freeHost]
    /\ s.img \in [Images -> Image]
    /\ s.freeDev \in SUBSET DevSlots /\ s.freeHost \in SUBSET HostSlots
    /\ DeviceHeld(s.img[h]) \cap s.freeDev = {}
    /\ HostHeld(s.img[h]) \cap s.freeHost = {}
    /\ s.img[h].pins >= OwnPin(s.img[h])

(* What the invariant says of one image and its slots.                     *)
LEMMA ImageTypes ==
    ASSUME NEW s, Sound(s), NEW h \in Images
    PROVE  ImageFacts(s, h)
  <1>1. Cardinality(Readers(s, h)) \in Nat
    BY StoreAssumption, FS_Subset, FS_CardinalityType DEF Readers
  <1>2. s.img[h].pins >= OwnPin(s.img[h])
    BY <1>1 DEF Sound, PinsExact, OwnPin
  <1> QED BY <1>2 DEF Sound, Store, Shapes, Partitioned, ImageFacts

(* A well-typed field keeps an image well-typed.                           *)
LEMMA FieldTypes ==
    ASSUME NEW o \in Image
    PROVE  /\ \A r \in Roles : [o EXCEPT !.role = r] \in Image
           /\ \A d \in DevSlots \cup {None} : [o EXCEPT !.dev = d] \in Image
           /\ \A d \in DevSlots \cup {None} : [o EXCEPT !.pdev = d] \in Image
           /\ \A t \in HostSlots \cup {None} : [o EXCEPT !.host = t] \in Image
           /\ \A t \in HostSlots \cup {None} : [o EXCEPT !.phost = t] \in Image
           /\ \A n \in Nat : [o EXCEPT !.refs = n] \in Image
           /\ \A n \in Nat : [o EXCEPT !.pins = n] \in Image
           /\ \A b \in BOOLEAN : [o EXCEPT !.pinned = b] \in Image
           /\ \A f \in Images \cup {None} : [o EXCEPT !.from = f] \in Image
  <1>1. \A r \in Roles : [o EXCEPT !.role = r] \in Image
    BY DEF Image
  <1>2. \A d \in DevSlots \cup {None} : [o EXCEPT !.dev = d] \in Image
    BY DEF Image
  <1>3. \A d \in DevSlots \cup {None} : [o EXCEPT !.pdev = d] \in Image
    BY DEF Image
  <1>4. \A t \in HostSlots \cup {None} : [o EXCEPT !.host = t] \in Image
    BY DEF Image
  <1>5. \A t \in HostSlots \cup {None} : [o EXCEPT !.phost = t] \in Image
    BY DEF Image
  <1>6. \A n \in Nat : [o EXCEPT !.refs = n] \in Image
    BY DEF Image
  <1>7. \A n \in Nat : [o EXCEPT !.pins = n] \in Image
    BY DEF Image
  <1>8. \A b \in BOOLEAN : [o EXCEPT !.pinned = b] \in Image
    BY DEF Image
  <1>9. \A f \in Images \cup {None} : [o EXCEPT !.from = f] \in Image
    BY DEF Image
  <1> QED BY <1>1, <1>2, <1>3, <1>4, <1>5, <1>6, <1>7, <1>8, <1>9

(* reserve_destination keeps the invariant.                                *)
LEMMA ReserveDestinationKeeps ==
    ASSUME NEW s, Sound(s), NEW h \in Images, NEW d \in DevSlots,
           CanReserveDestination(s, h, d)
    PROVE  Sound(ReserveDestination(s, h, d))
  <1>i. ImageFacts(s, h)
    BY ImageTypes
  <1> DEFINE o == s.img[h]
             p == [NewObject("ReservedDestination") EXCEPT !.dev = d]
             fd == s.freeDev \ {d}
             fh == s.freeHost
  <1>1. ReserveDestination(s, h, d) = [img |-> [s.img EXCEPT ![h] = p], freeDev |-> fd, freeHost |-> fh]
    <2> SUFFICES ASSUME NEW r, r = ReserveDestination(s, h, d)
                 PROVE  r = [img |-> [s.img EXCEPT ![h] = p], freeDev |-> fd, freeHost |-> fh]
      OBVIOUS
    <2> QED BY <1>i DEF ImageFacts, ReserveDestination, NewObject
  <1>t. p \in Image
    BY <1>i, StoreAssumption
       DEF ImageFacts, Image, Roles, OwnPin, HasPending, Quiet, Immutable,
           CanReserveDestination, NewObject
  <1>2. Shape(p) /\ p.from = o.from
    BY <1>i, StoreAssumption
       DEF ImageFacts, Image, Shape, HasPending, Quiet, Immutable, CanReserveDestination,
           NewObject
  <1>3. /\ p.pins - OwnPin(p) = o.pins - OwnPin(o)
        /\ p.pdev = None => o.pdev = None \/ p.from = None
        /\ p.pdev # None => o.pdev # None \/ p.from = None
        /\ KeepsReaders(o, p)
    BY <1>i, StoreAssumption
       DEF ImageFacts, Image, Shape, OwnPin, KeepsReaders, HasPending, Quiet, Immutable,
           CanReserveDestination, NewObject
  <1>4. /\ fd \in SUBSET DevSlots /\ fh \in SUBSET HostSlots
        /\ fd \cup DeviceHeld(p) = s.freeDev \cup DeviceHeld(o)
        /\ fd \cap DeviceHeld(p) = {}
        /\ fh \cup HostHeld(p) = s.freeHost \cup HostHeld(o)
        /\ fh \cap HostHeld(p) = {}
    BY <1>i, StoreAssumption
       DEF ImageFacts, Image, Shape, DeviceHeld, HostHeld, HasPending, Quiet, Immutable,
           CanReserveDestination, NewObject
  <1> HIDE DEF o, p, fd, fh
  <1> QED BY <1>1, <1>t, <1>2, <1>3, <1>4, UpdateOne DEF o

(* reserve_logical_destination keeps the invariant.                        *)
LEMMA ReserveLogicalKeeps ==
    ASSUME NEW s, Sound(s), NEW h \in Images,
           CanReserveLogicalDestination(s, h)
    PROVE  Sound(ReserveLogicalDestination(s, h))
  <1>i. ImageFacts(s, h)
    BY ImageTypes
  <1> DEFINE o == s.img[h]
             p == NewObject("ReservedDestination")
             fd == s.freeDev
             fh == s.freeHost
  <1>1. ReserveLogicalDestination(s, h) = [img |-> [s.img EXCEPT ![h] = p], freeDev |-> fd, freeHost |-> fh]
    <2> SUFFICES ASSUME NEW r, r = ReserveLogicalDestination(s, h)
                 PROVE  r = [img |-> [s.img EXCEPT ![h] = p], freeDev |-> fd, freeHost |-> fh]
      OBVIOUS
    <2> QED BY <1>i DEF ImageFacts, ReserveLogicalDestination, NewObject
  <1>t. p \in Image
    BY <1>i, StoreAssumption
       DEF ImageFacts, Image, Roles, OwnPin, HasPending, Quiet, Immutable,
           CanReserveLogicalDestination, NewObject
  <1>2. Shape(p) /\ p.from = o.from
    BY <1>i, StoreAssumption
       DEF ImageFacts, Image, Shape, HasPending, Quiet, Immutable,
           CanReserveLogicalDestination, NewObject
  <1>3. /\ p.pins - OwnPin(p) = o.pins - OwnPin(o)
        /\ p.pdev = None => o.pdev = None \/ p.from = None
        /\ p.pdev # None => o.pdev # None \/ p.from = None
        /\ KeepsReaders(o, p)
    BY <1>i, StoreAssumption
       DEF ImageFacts, Image, Shape, OwnPin, KeepsReaders, HasPending, Quiet, Immutable,
           CanReserveLogicalDestination, NewObject
  <1>4. /\ fd \in SUBSET DevSlots /\ fh \in SUBSET HostSlots
        /\ fd \cup DeviceHeld(p) = s.freeDev \cup DeviceHeld(o)
        /\ fd \cap DeviceHeld(p) = {}
        /\ fh \cup HostHeld(p) = s.freeHost \cup HostHeld(o)
        /\ fh \cap HostHeld(p) = {}
    BY <1>i, StoreAssumption
       DEF ImageFacts, Image, Shape, DeviceHeld, HostHeld, HasPending, Quiet, Immutable,
           CanReserveLogicalDestination, NewObject
  <1> HIDE DEF o, p, fd, fh
  <1> QED BY <1>1, <1>t, <1>2, <1>3, <1>4, UpdateOne DEF o

(* release keeps the invariant.                                            *)
LEMMA ReleaseKeeps ==
    ASSUME NEW s, Sound(s), NEW h \in Images,
           CanRelease(s, h)
    PROVE  Sound(Release(s, h))
  <1>i. ImageFacts(s, h)
    BY ImageTypes
  <1> DEFINE o == s.img[h]
             p == NewObject("Free")
             fd == s.freeDev \cup ({o.dev} \ {None})
             fh == s.freeHost \cup ({o.host} \ {None})
  <1>1. Release(s, h) = [img |-> [s.img EXCEPT ![h] = p], freeDev |-> fd, freeHost |-> fh]
    <2> SUFFICES ASSUME NEW r, r = Release(s, h)
                 PROVE  r = [img |-> [s.img EXCEPT ![h] = p], freeDev |-> fd, freeHost |-> fh]
      OBVIOUS
    <2> QED BY <1>i DEF ImageFacts, Release, NewObject
  <1>t. p \in Image
    BY <1>i, StoreAssumption
       DEF ImageFacts, Image, Roles, OwnPin, HasPending, Quiet, Immutable, CanRelease,
           NewObject
  <1>2. Shape(p) /\ p.from = o.from
    BY <1>i, StoreAssumption
       DEF ImageFacts, Image, Shape, HasPending, Quiet, Immutable, CanRelease, NewObject
  <1>3. /\ p.pins - OwnPin(p) = o.pins - OwnPin(o)
        /\ p.pdev = None => o.pdev = None \/ p.from = None
        /\ p.pdev # None => o.pdev # None \/ p.from = None
        /\ KeepsReaders(o, p)
    BY <1>i, StoreAssumption
       DEF ImageFacts, Image, Shape, OwnPin, KeepsReaders, HasPending, Quiet, Immutable,
           CanRelease, NewObject
  <1>4. /\ fd \in SUBSET DevSlots /\ fh \in SUBSET HostSlots
        /\ fd \cup DeviceHeld(p) = s.freeDev \cup DeviceHeld(o)
        /\ fd \cap DeviceHeld(p) = {}
        /\ fh \cup HostHeld(p) = s.freeHost \cup HostHeld(o)
        /\ fh \cap HostHeld(p) = {}
    BY <1>i, StoreAssumption
       DEF ImageFacts, Image, Shape, DeviceHeld, HostHeld, HasPending, Quiet, Immutable,
           CanRelease, NewObject
  <1> HIDE DEF o, p, fd, fh
  <1> QED BY <1>1, <1>t, <1>2, <1>3, <1>4, UpdateOne DEF o

(* retain_checkpoint_reference keeps the invariant.                        *)
LEMMA RetainKeeps ==
    ASSUME NEW s, Sound(s), NEW h \in Images,
           CanRetainReference(s, h)
    PROVE  Sound(RetainReference(s, h))
  <1>i. ImageFacts(s, h)
    BY ImageTypes
  <1> DEFINE o == s.img[h]
             p == [o EXCEPT !.refs = @ + 1]
             fd == s.freeDev
             fh == s.freeHost
  <1>1. RetainReference(s, h) = [img |-> [s.img EXCEPT ![h] = p], freeDev |-> fd, freeHost |-> fh]
    <2> SUFFICES ASSUME NEW r, r = RetainReference(s, h)
                 PROVE  r = [img |-> [s.img EXCEPT ![h] = p], freeDev |-> fd, freeHost |-> fh]
      OBVIOUS
    <2> QED BY <1>i DEF ImageFacts, RetainReference
  <1>t. p \in Image
    BY <1>i, StoreAssumption
       DEF ImageFacts, Image, Roles, OwnPin, HasPending, Quiet, Immutable,
           CanRetainReference
  <1>2. Shape(p) /\ p.from = o.from
    BY <1>i, StoreAssumption
       DEF ImageFacts, Image, Shape, HasPending, Quiet, Immutable, CanRetainReference
  <1>3. /\ p.pins - OwnPin(p) = o.pins - OwnPin(o)
        /\ p.pdev = None => o.pdev = None \/ p.from = None
        /\ p.pdev # None => o.pdev # None \/ p.from = None
        /\ KeepsReaders(o, p)
    BY <1>i, StoreAssumption
       DEF ImageFacts, Image, Shape, OwnPin, KeepsReaders, HasPending, Quiet, Immutable,
           CanRetainReference
  <1>4. /\ fd \in SUBSET DevSlots /\ fh \in SUBSET HostSlots
        /\ fd \cup DeviceHeld(p) = s.freeDev \cup DeviceHeld(o)
        /\ fd \cap DeviceHeld(p) = {}
        /\ fh \cup HostHeld(p) = s.freeHost \cup HostHeld(o)
        /\ fh \cap HostHeld(p) = {}
    BY <1>i, StoreAssumption
       DEF ImageFacts, Image, Shape, DeviceHeld, HostHeld, HasPending, Quiet, Immutable,
           CanRetainReference
  <1> HIDE DEF o, p, fd, fh
  <1> QED BY <1>1, <1>t, <1>2, <1>3, <1>4, UpdateOne DEF o

(* release_checkpoint_reference keeps the invariant.                       *)
LEMMA ReleaseReferenceKeeps ==
    ASSUME NEW s, Sound(s), NEW h \in Images,
           CanReleaseReference(s, h)
    PROVE  Sound(ReleaseReference(s, h))
  <1>i. ImageFacts(s, h)
    BY ImageTypes
  <1> DEFINE o == s.img[h]
             p == [o EXCEPT !.refs = @ - 1]
             fd == s.freeDev
             fh == s.freeHost
  <1>1. ReleaseReference(s, h) = [img |-> [s.img EXCEPT ![h] = p], freeDev |-> fd, freeHost |-> fh]
    <2> SUFFICES ASSUME NEW r, r = ReleaseReference(s, h)
                 PROVE  r = [img |-> [s.img EXCEPT ![h] = p], freeDev |-> fd, freeHost |-> fh]
      OBVIOUS
    <2> QED BY <1>i DEF ImageFacts, ReleaseReference
  <1>t. p \in Image
    BY <1>i, StoreAssumption
       DEF ImageFacts, Image, Roles, OwnPin, HasPending, Quiet, Immutable,
           CanReleaseReference
  <1>2. Shape(p) /\ p.from = o.from
    BY <1>i, StoreAssumption
       DEF ImageFacts, Image, Shape, HasPending, Quiet, Immutable, CanReleaseReference
  <1>3. /\ p.pins - OwnPin(p) = o.pins - OwnPin(o)
        /\ p.pdev = None => o.pdev = None \/ p.from = None
        /\ p.pdev # None => o.pdev # None \/ p.from = None
        /\ KeepsReaders(o, p)
    BY <1>i, StoreAssumption
       DEF ImageFacts, Image, Shape, OwnPin, KeepsReaders, HasPending, Quiet, Immutable,
           CanReleaseReference
  <1>4. /\ fd \in SUBSET DevSlots /\ fh \in SUBSET HostSlots
        /\ fd \cup DeviceHeld(p) = s.freeDev \cup DeviceHeld(o)
        /\ fd \cap DeviceHeld(p) = {}
        /\ fh \cup HostHeld(p) = s.freeHost \cup HostHeld(o)
        /\ fh \cap HostHeld(p) = {}
    BY <1>i, StoreAssumption
       DEF ImageFacts, Image, Shape, DeviceHeld, HostHeld, HasPending, Quiet, Immutable,
           CanReleaseReference
  <1> HIDE DEF o, p, fd, fh
  <1> QED BY <1>1, <1>t, <1>2, <1>3, <1>4, UpdateOne DEF o

(* activate_reset keeps the invariant.                                     *)
LEMMA ActivateResetKeeps ==
    ASSUME NEW s, Sound(s), NEW h \in Images,
           CanActivateReset(s, h)
    PROVE  Sound(ActivateReset(s, h))
  <1>i. ImageFacts(s, h)
    BY ImageTypes
  <1> DEFINE o == s.img[h]
             p == [o EXCEPT !.role = "ActiveMutable"]
             fd == s.freeDev
             fh == s.freeHost
  <1>1. ActivateReset(s, h) = [img |-> [s.img EXCEPT ![h] = p], freeDev |-> fd, freeHost |-> fh]
    <2> SUFFICES ASSUME NEW r, r = ActivateReset(s, h)
                 PROVE  r = [img |-> [s.img EXCEPT ![h] = p], freeDev |-> fd, freeHost |-> fh]
      OBVIOUS
    <2> QED BY <1>i DEF ImageFacts, ActivateReset
  <1>t. p \in Image
    BY <1>i, StoreAssumption
       DEF ImageFacts, Image, Roles, OwnPin, HasPending, Quiet, Immutable,
           CanActivateReset
  <1>2. Shape(p) /\ p.from = o.from
    BY <1>i, StoreAssumption
       DEF ImageFacts, Image, Shape, HasPending, Quiet, Immutable, CanActivateReset
  <1>3. /\ p.pins - OwnPin(p) = o.pins - OwnPin(o)
        /\ p.pdev = None => o.pdev = None \/ p.from = None
        /\ p.pdev # None => o.pdev # None \/ p.from = None
        /\ KeepsReaders(o, p)
    BY <1>i, StoreAssumption
       DEF ImageFacts, Image, Shape, OwnPin, KeepsReaders, HasPending, Quiet, Immutable,
           CanActivateReset
  <1>4. /\ fd \in SUBSET DevSlots /\ fh \in SUBSET HostSlots
        /\ fd \cup DeviceHeld(p) = s.freeDev \cup DeviceHeld(o)
        /\ fd \cap DeviceHeld(p) = {}
        /\ fh \cup HostHeld(p) = s.freeHost \cup HostHeld(o)
        /\ fh \cap HostHeld(p) = {}
    BY <1>i, StoreAssumption
       DEF ImageFacts, Image, Shape, DeviceHeld, HostHeld, HasPending, Quiet, Immutable,
           CanActivateReset
  <1> HIDE DEF o, p, fd, fh
  <1> QED BY <1>1, <1>t, <1>2, <1>3, <1>4, UpdateOne DEF o

(* freeze keeps the invariant.                                             *)
LEMMA FreezeKeeps ==
    ASSUME NEW s, Sound(s), NEW h \in Images,
           CanFreeze(s, h)
    PROVE  Sound(Freeze(s, h))
  <1>i. ImageFacts(s, h)
    BY ImageTypes
  <1> DEFINE o == s.img[h]
             p == [o EXCEPT !.role = "CheckpointImmutable"]
             fd == s.freeDev
             fh == s.freeHost
  <1>1. Freeze(s, h) = [img |-> [s.img EXCEPT ![h] = p], freeDev |-> fd, freeHost |-> fh]
    <2> SUFFICES ASSUME NEW r, r = Freeze(s, h)
                 PROVE  r = [img |-> [s.img EXCEPT ![h] = p], freeDev |-> fd, freeHost |-> fh]
      OBVIOUS
    <2> QED BY <1>i DEF ImageFacts, Freeze
  <1>t. p \in Image
    BY <1>i, StoreAssumption
       DEF ImageFacts, Image, Roles, OwnPin, HasPending, Quiet, Immutable, CanFreeze
  <1>2. Shape(p) /\ p.from = o.from
    BY <1>i, StoreAssumption
       DEF ImageFacts, Image, Shape, HasPending, Quiet, Immutable, CanFreeze
  <1>3. /\ p.pins - OwnPin(p) = o.pins - OwnPin(o)
        /\ p.pdev = None => o.pdev = None \/ p.from = None
        /\ p.pdev # None => o.pdev # None \/ p.from = None
        /\ KeepsReaders(o, p)
    BY <1>i, StoreAssumption
       DEF ImageFacts, Image, Shape, OwnPin, KeepsReaders, HasPending, Quiet, Immutable,
           CanFreeze
  <1>4. /\ fd \in SUBSET DevSlots /\ fh \in SUBSET HostSlots
        /\ fd \cup DeviceHeld(p) = s.freeDev \cup DeviceHeld(o)
        /\ fd \cap DeviceHeld(p) = {}
        /\ fh \cup HostHeld(p) = s.freeHost \cup HostHeld(o)
        /\ fh \cap HostHeld(p) = {}
    BY <1>i, StoreAssumption
       DEF ImageFacts, Image, Shape, DeviceHeld, HostHeld, HasPending, Quiet, Immutable,
           CanFreeze
  <1> HIDE DEF o, p, fd, fh
  <1> QED BY <1>1, <1>t, <1>2, <1>3, <1>4, UpdateOne DEF o

(* thaw keeps the invariant.                                               *)
LEMMA ThawKeeps ==
    ASSUME NEW s, Sound(s), NEW h \in Images,
           CanThaw(s, h)
    PROVE  Sound(Thaw(s, h))
  <1>i. ImageFacts(s, h)
    BY ImageTypes
  <1> DEFINE o == s.img[h]
             p == [o EXCEPT !.role = "ActiveMutable"]
             fd == s.freeDev
             fh == s.freeHost
  <1>1. Thaw(s, h) = [img |-> [s.img EXCEPT ![h] = p], freeDev |-> fd, freeHost |-> fh]
    <2> SUFFICES ASSUME NEW r, r = Thaw(s, h)
                 PROVE  r = [img |-> [s.img EXCEPT ![h] = p], freeDev |-> fd, freeHost |-> fh]
      OBVIOUS
    <2> QED BY <1>i DEF ImageFacts, Thaw
  <1>t. p \in Image
    BY <1>i, StoreAssumption
       DEF ImageFacts, Image, Roles, OwnPin, HasPending, Quiet, Immutable, CanThaw
  <1>2. Shape(p) /\ p.from = o.from
    BY <1>i, StoreAssumption
       DEF ImageFacts, Image, Shape, HasPending, Quiet, Immutable, CanThaw
  <1>3. /\ p.pins - OwnPin(p) = o.pins - OwnPin(o)
        /\ p.pdev = None => o.pdev = None \/ p.from = None
        /\ p.pdev # None => o.pdev # None \/ p.from = None
        /\ KeepsReaders(o, p)
    BY <1>i, StoreAssumption
       DEF ImageFacts, Image, Shape, OwnPin, KeepsReaders, HasPending, Quiet, Immutable,
           CanThaw
  <1>4. /\ fd \in SUBSET DevSlots /\ fh \in SUBSET HostSlots
        /\ fd \cup DeviceHeld(p) = s.freeDev \cup DeviceHeld(o)
        /\ fd \cap DeviceHeld(p) = {}
        /\ fh \cup HostHeld(p) = s.freeHost \cup HostHeld(o)
        /\ fh \cap HostHeld(p) = {}
    BY <1>i, StoreAssumption
       DEF ImageFacts, Image, Shape, DeviceHeld, HostHeld, HasPending, Quiet, Immutable,
           CanThaw
  <1> HIDE DEF o, p, fd, fh
  <1> QED BY <1>1, <1>t, <1>2, <1>3, <1>4, UpdateOne DEF o

(* move_checkpoint_to_active keeps the invariant.                          *)
LEMMA MoveKeeps ==
    ASSUME NEW s, Sound(s), NEW h \in Images,
           CanThaw(s, h)
    PROVE  Sound(MoveToActive(s, h))
  <1>i. ImageFacts(s, h)
    BY ImageTypes
  <1> DEFINE o == s.img[h]
             p == [o EXCEPT !.role = "ActiveMutable", !.host = None]
             fd == s.freeDev
             fh == s.freeHost \cup ({o.host} \ {None})
  <1>1. MoveToActive(s, h) = [img |-> [s.img EXCEPT ![h] = p], freeDev |-> fd, freeHost |-> fh]
    <2> SUFFICES ASSUME NEW r, r = MoveToActive(s, h)
                 PROVE  r = [img |-> [s.img EXCEPT ![h] = p], freeDev |-> fd, freeHost |-> fh]
      OBVIOUS
    <2> QED BY <1>i DEF ImageFacts, MoveToActive
  <1>t. p \in Image
    <2>1. o \in Image /\ "ActiveMutable" \in Roles
      BY <1>i, StoreAssumption
         DEF ImageFacts, Image, Roles, Shape, OwnPin, HasPending, Quiet, Immutable,
             CanThaw
    <2>2. [o EXCEPT !.role = "ActiveMutable"] \in Image
      BY <2>1, FieldTypes
    <2> QED BY <2>1, <2>2, FieldTypes
  <1>2. Shape(p) /\ p.from = o.from
    BY <1>i, StoreAssumption
       DEF ImageFacts, Image, Shape, HasPending, Quiet, Immutable, CanThaw
  <1>3. /\ p.pins - OwnPin(p) = o.pins - OwnPin(o)
        /\ p.pdev = None => o.pdev = None \/ p.from = None
        /\ p.pdev # None => o.pdev # None \/ p.from = None
        /\ KeepsReaders(o, p)
    BY <1>i, StoreAssumption
       DEF ImageFacts, Image, Shape, OwnPin, KeepsReaders, HasPending, Quiet, Immutable,
           CanThaw
  <1>4. /\ fd \in SUBSET DevSlots /\ fh \in SUBSET HostSlots
        /\ fd \cup DeviceHeld(p) = s.freeDev \cup DeviceHeld(o)
        /\ fd \cap DeviceHeld(p) = {}
        /\ fh \cup HostHeld(p) = s.freeHost \cup HostHeld(o)
        /\ fh \cap HostHeld(p) = {}
    BY <1>i, StoreAssumption
       DEF ImageFacts, Image, Shape, DeviceHeld, HostHeld, HasPending, Quiet, Immutable,
           CanThaw
  <1> HIDE DEF o, p, fd, fh
  <1> QED BY <1>1, <1>t, <1>2, <1>3, <1>4, UpdateOne DEF o

(* recycle_checkpoint_destination keeps the invariant.                     *)
LEMMA RecycleKeeps ==
    ASSUME NEW s, Sound(s), NEW h \in Images,
           CanRecycle(s, h)
    PROVE  Sound(Recycle(s, h))
  <1>i. ImageFacts(s, h)
    BY ImageTypes
  <1> DEFINE o == s.img[h]
             p == [o EXCEPT !.refs = 0, !.role = "ReservedDestination"]
             fd == s.freeDev
             fh == s.freeHost
  <1>1. Recycle(s, h) = [img |-> [s.img EXCEPT ![h] = p], freeDev |-> fd, freeHost |-> fh]
    <2> SUFFICES ASSUME NEW r, r = Recycle(s, h)
                 PROVE  r = [img |-> [s.img EXCEPT ![h] = p], freeDev |-> fd, freeHost |-> fh]
      OBVIOUS
    <2> QED BY <1>i DEF ImageFacts, Recycle
  <1>t. p \in Image
    <2>1. o \in Image /\ "ReservedDestination" \in Roles
      BY <1>i, StoreAssumption
         DEF ImageFacts, Image, Roles, Shape, OwnPin, HasPending, Quiet, Immutable,
             CanRecycle
    <2>2. [o EXCEPT !.refs = 0] \in Image
      BY <2>1, FieldTypes
    <2> QED BY <2>1, <2>2, FieldTypes
  <1>2. Shape(p) /\ p.from = o.from
    BY <1>i, StoreAssumption
       DEF ImageFacts, Image, Shape, HasPending, Quiet, Immutable, CanRecycle
  <1>3. /\ p.pins - OwnPin(p) = o.pins - OwnPin(o)
        /\ p.pdev = None => o.pdev = None \/ p.from = None
        /\ p.pdev # None => o.pdev # None \/ p.from = None
        /\ KeepsReaders(o, p)
    BY <1>i, StoreAssumption
       DEF ImageFacts, Image, Shape, OwnPin, KeepsReaders, HasPending, Quiet, Immutable,
           CanRecycle
  <1>4. /\ fd \in SUBSET DevSlots /\ fh \in SUBSET HostSlots
        /\ fd \cup DeviceHeld(p) = s.freeDev \cup DeviceHeld(o)
        /\ fd \cap DeviceHeld(p) = {}
        /\ fh \cup HostHeld(p) = s.freeHost \cup HostHeld(o)
        /\ fh \cap HostHeld(p) = {}
    BY <1>i, StoreAssumption
       DEF ImageFacts, Image, Shape, DeviceHeld, HostHeld, HasPending, Quiet, Immutable,
           CanRecycle
  <1> HIDE DEF o, p, fd, fh
  <1> QED BY <1>1, <1>t, <1>2, <1>3, <1>4, UpdateOne DEF o

(* restore_recycled_checkpoint keeps the invariant.                        *)
LEMMA RestoreRecycledKeeps ==
    ASSUME NEW s, Sound(s), NEW h \in Images,
           CanRestoreRecycled(s, h)
    PROVE  Sound(RestoreRecycled(s, h))
  <1>i. ImageFacts(s, h)
    BY ImageTypes
  <1> DEFINE o == s.img[h]
             p == [o EXCEPT !.refs = 1, !.role = "CheckpointImmutable"]
             fd == s.freeDev
             fh == s.freeHost
  <1>1. RestoreRecycled(s, h) = [img |-> [s.img EXCEPT ![h] = p], freeDev |-> fd, freeHost |-> fh]
    <2> SUFFICES ASSUME NEW r, r = RestoreRecycled(s, h)
                 PROVE  r = [img |-> [s.img EXCEPT ![h] = p], freeDev |-> fd, freeHost |-> fh]
      OBVIOUS
    <2> QED BY <1>i DEF ImageFacts, RestoreRecycled
  <1>t. p \in Image
    <2>1. o \in Image /\ "CheckpointImmutable" \in Roles
      BY <1>i, StoreAssumption
         DEF ImageFacts, Image, Roles, Shape, OwnPin, HasPending, Quiet, Immutable,
             CanRestoreRecycled
    <2>2. [o EXCEPT !.refs = 1] \in Image
      BY <2>1, FieldTypes
    <2> QED BY <2>1, <2>2, FieldTypes
  <1>2. Shape(p) /\ p.from = o.from
    BY <1>i, StoreAssumption
       DEF ImageFacts, Image, Shape, HasPending, Quiet, Immutable, CanRestoreRecycled
  <1>3. /\ p.pins - OwnPin(p) = o.pins - OwnPin(o)
        /\ p.pdev = None => o.pdev = None \/ p.from = None
        /\ p.pdev # None => o.pdev # None \/ p.from = None
        /\ KeepsReaders(o, p)
    BY <1>i, StoreAssumption
       DEF ImageFacts, Image, Shape, OwnPin, KeepsReaders, HasPending, Quiet, Immutable,
           CanRestoreRecycled
  <1>4. /\ fd \in SUBSET DevSlots /\ fh \in SUBSET HostSlots
        /\ fd \cup DeviceHeld(p) = s.freeDev \cup DeviceHeld(o)
        /\ fd \cap DeviceHeld(p) = {}
        /\ fh \cup HostHeld(p) = s.freeHost \cup HostHeld(o)
        /\ fh \cap HostHeld(p) = {}
    BY <1>i, StoreAssumption
       DEF ImageFacts, Image, Shape, DeviceHeld, HostHeld, HasPending, Quiet, Immutable,
           CanRestoreRecycled
  <1> HIDE DEF o, p, fd, fh
  <1> QED BY <1>1, <1>t, <1>2, <1>3, <1>4, UpdateOne DEF o

(* drop_device_replica keeps the invariant.                                *)
LEMMA DropDeviceKeeps ==
    ASSUME NEW s, Sound(s), NEW h \in Images,
           CanDropReplica(s, h)
    PROVE  Sound(DropDeviceReplica(s, h))
  <1>i. ImageFacts(s, h)
    BY ImageTypes
  <1> DEFINE o == s.img[h]
             p == [o EXCEPT !.dev = None]
             fd == s.freeDev \cup {o.dev}
             fh == s.freeHost
  <1>1. DropDeviceReplica(s, h) = [img |-> [s.img EXCEPT ![h] = p], freeDev |-> fd, freeHost |-> fh]
    <2> SUFFICES ASSUME NEW r, r = DropDeviceReplica(s, h)
                 PROVE  r = [img |-> [s.img EXCEPT ![h] = p], freeDev |-> fd, freeHost |-> fh]
      OBVIOUS
    <2> QED BY <1>i DEF ImageFacts, DropDeviceReplica
  <1>t. p \in Image
    BY <1>i, StoreAssumption
       DEF ImageFacts, Image, Roles, OwnPin, HasPending, Quiet, Immutable, CanDropReplica
  <1>2. Shape(p) /\ p.from = o.from
    BY <1>i, StoreAssumption
       DEF ImageFacts, Image, Shape, HasPending, Quiet, Immutable, CanDropReplica
  <1>3. /\ p.pins - OwnPin(p) = o.pins - OwnPin(o)
        /\ p.pdev = None => o.pdev = None \/ p.from = None
        /\ p.pdev # None => o.pdev # None \/ p.from = None
        /\ KeepsReaders(o, p)
    BY <1>i, StoreAssumption
       DEF ImageFacts, Image, Shape, OwnPin, KeepsReaders, HasPending, Quiet, Immutable,
           CanDropReplica
  <1>4. /\ fd \in SUBSET DevSlots /\ fh \in SUBSET HostSlots
        /\ fd \cup DeviceHeld(p) = s.freeDev \cup DeviceHeld(o)
        /\ fd \cap DeviceHeld(p) = {}
        /\ fh \cup HostHeld(p) = s.freeHost \cup HostHeld(o)
        /\ fh \cap HostHeld(p) = {}
    BY <1>i, StoreAssumption
       DEF ImageFacts, Image, Shape, DeviceHeld, HostHeld, HasPending, Quiet, Immutable,
           CanDropReplica
  <1> HIDE DEF o, p, fd, fh
  <1> QED BY <1>1, <1>t, <1>2, <1>3, <1>4, UpdateOne DEF o

(* drop_host_replica keeps the invariant.                                  *)
LEMMA DropHostKeeps ==
    ASSUME NEW s, Sound(s), NEW h \in Images,
           CanDropReplica(s, h)
    PROVE  Sound(DropHostReplica(s, h))
  <1>i. ImageFacts(s, h)
    BY ImageTypes
  <1> DEFINE o == s.img[h]
             p == [o EXCEPT !.host = None]
             fd == s.freeDev
             fh == s.freeHost \cup {o.host}
  <1>1. DropHostReplica(s, h) = [img |-> [s.img EXCEPT ![h] = p], freeDev |-> fd, freeHost |-> fh]
    <2> SUFFICES ASSUME NEW r, r = DropHostReplica(s, h)
                 PROVE  r = [img |-> [s.img EXCEPT ![h] = p], freeDev |-> fd, freeHost |-> fh]
      OBVIOUS
    <2> QED BY <1>i DEF ImageFacts, DropHostReplica
  <1>t. p \in Image
    BY <1>i, StoreAssumption
       DEF ImageFacts, Image, Roles, OwnPin, HasPending, Quiet, Immutable, CanDropReplica
  <1>2. Shape(p) /\ p.from = o.from
    BY <1>i, StoreAssumption
       DEF ImageFacts, Image, Shape, HasPending, Quiet, Immutable, CanDropReplica
  <1>3. /\ p.pins - OwnPin(p) = o.pins - OwnPin(o)
        /\ p.pdev = None => o.pdev = None \/ p.from = None
        /\ p.pdev # None => o.pdev # None \/ p.from = None
        /\ KeepsReaders(o, p)
    BY <1>i, StoreAssumption
       DEF ImageFacts, Image, Shape, OwnPin, KeepsReaders, HasPending, Quiet, Immutable,
           CanDropReplica
  <1>4. /\ fd \in SUBSET DevSlots /\ fh \in SUBSET HostSlots
        /\ fd \cup DeviceHeld(p) = s.freeDev \cup DeviceHeld(o)
        /\ fd \cap DeviceHeld(p) = {}
        /\ fh \cup HostHeld(p) = s.freeHost \cup HostHeld(o)
        /\ fh \cap HostHeld(p) = {}
    BY <1>i, StoreAssumption
       DEF ImageFacts, Image, Shape, DeviceHeld, HostHeld, HasPending, Quiet, Immutable,
           CanDropReplica
  <1> HIDE DEF o, p, fd, fh
  <1> QED BY <1>1, <1>t, <1>2, <1>3, <1>4, UpdateOne DEF o

(* reserve_device_to_host keeps the invariant.                             *)
LEMMA BeginDeviceToHostKeeps ==
    ASSUME NEW s, Sound(s), NEW h \in Images, NEW t \in HostSlots,
           CanBeginDeviceToHost(s, h, t)
    PROVE  Sound(BeginDeviceToHost(s, h, t))
  <1>i. ImageFacts(s, h)
    BY ImageTypes
  <1> DEFINE o == s.img[h]
             p == [o EXCEPT !.phost = t, !.pinned = TRUE, !.pins = @ + 1]
             fd == s.freeDev
             fh == s.freeHost \ {t}
  <1>1. BeginDeviceToHost(s, h, t) = [img |-> [s.img EXCEPT ![h] = p], freeDev |-> fd, freeHost |-> fh]
    <2> SUFFICES ASSUME NEW r, r = BeginDeviceToHost(s, h, t)
                 PROVE  r = [img |-> [s.img EXCEPT ![h] = p], freeDev |-> fd, freeHost |-> fh]
      OBVIOUS
    <2> QED BY <1>i DEF ImageFacts, BeginDeviceToHost
  <1>t. p \in Image
    <2>1. o \in Image /\ t \in HostSlots \cup {None} /\ o.pins + 1 \in Nat
      BY <1>i, StoreAssumption
         DEF ImageFacts, Image, Roles, Shape, OwnPin, HasPending, Quiet, Immutable,
             CanBeginDeviceToHost
    <2>2. [o EXCEPT !.phost = t] \in Image
      BY <2>1, FieldTypes
    <2>3. [o EXCEPT !.phost = t, !.pinned = TRUE] \in Image
      BY <2>1, <2>2, FieldTypes
    <2> QED BY <2>1, <2>3, FieldTypes
  <1>2. Shape(p) /\ p.from = o.from
    BY <1>i, StoreAssumption
       DEF ImageFacts, Image, Shape, HasPending, Quiet, Immutable, CanBeginDeviceToHost
  <1>3. /\ p.pins - OwnPin(p) = o.pins - OwnPin(o)
        /\ p.pdev = None => o.pdev = None \/ p.from = None
        /\ p.pdev # None => o.pdev # None \/ p.from = None
        /\ KeepsReaders(o, p)
    BY <1>i, StoreAssumption
       DEF ImageFacts, Image, Shape, OwnPin, KeepsReaders, HasPending, Quiet, Immutable,
           CanBeginDeviceToHost
  <1>4. /\ fd \in SUBSET DevSlots /\ fh \in SUBSET HostSlots
        /\ fd \cup DeviceHeld(p) = s.freeDev \cup DeviceHeld(o)
        /\ fd \cap DeviceHeld(p) = {}
        /\ fh \cup HostHeld(p) = s.freeHost \cup HostHeld(o)
        /\ fh \cap HostHeld(p) = {}
    BY <1>i, StoreAssumption
       DEF ImageFacts, Image, Shape, DeviceHeld, HostHeld, HasPending, Quiet, Immutable,
           CanBeginDeviceToHost
  <1> HIDE DEF o, p, fd, fh
  <1> QED BY <1>1, <1>t, <1>2, <1>3, <1>4, UpdateOne DEF o

(* begin_host_to_device keeps the invariant.                               *)
LEMMA BeginHostToDeviceKeeps ==
    ASSUME NEW s, Sound(s), NEW h \in Images, NEW d \in DevSlots,
           CanBeginHostToDevice(s, h, d)
    PROVE  Sound(BeginHostToDevice(s, h, d))
  <1>i. ImageFacts(s, h)
    BY ImageTypes
  <1> DEFINE o == s.img[h]
             p == [o EXCEPT !.pdev = d, !.pinned = TRUE, !.pins = @ + 1]
             fd == s.freeDev \ {d}
             fh == s.freeHost
  <1>1. BeginHostToDevice(s, h, d) = [img |-> [s.img EXCEPT ![h] = p], freeDev |-> fd, freeHost |-> fh]
    <2> SUFFICES ASSUME NEW r, r = BeginHostToDevice(s, h, d)
                 PROVE  r = [img |-> [s.img EXCEPT ![h] = p], freeDev |-> fd, freeHost |-> fh]
      OBVIOUS
    <2> QED BY <1>i DEF ImageFacts, BeginHostToDevice
  <1>t. p \in Image
    <2>1. o \in Image /\ d \in DevSlots \cup {None} /\ o.pins + 1 \in Nat
      BY <1>i, StoreAssumption
         DEF ImageFacts, Image, Roles, Shape, OwnPin, HasPending, Quiet, Immutable,
             CanBeginHostToDevice
    <2>2. [o EXCEPT !.pdev = d] \in Image
      BY <2>1, FieldTypes
    <2>3. [o EXCEPT !.pdev = d, !.pinned = TRUE] \in Image
      BY <2>1, <2>2, FieldTypes
    <2> QED BY <2>1, <2>3, FieldTypes
  <1>2. Shape(p) /\ p.from = o.from
    BY <1>i, StoreAssumption
       DEF ImageFacts, Image, Shape, HasPending, Quiet, Immutable, CanBeginHostToDevice
  <1>3. /\ p.pins - OwnPin(p) = o.pins - OwnPin(o)
        /\ p.pdev = None => o.pdev = None \/ p.from = None
        /\ p.pdev # None => o.pdev # None \/ p.from = None
        /\ KeepsReaders(o, p)
    BY <1>i, StoreAssumption
       DEF ImageFacts, Image, Shape, OwnPin, KeepsReaders, HasPending, Quiet, Immutable,
           CanBeginHostToDevice
  <1>4. /\ fd \in SUBSET DevSlots /\ fh \in SUBSET HostSlots
        /\ fd \cup DeviceHeld(p) = s.freeDev \cup DeviceHeld(o)
        /\ fd \cap DeviceHeld(p) = {}
        /\ fh \cup HostHeld(p) = s.freeHost \cup HostHeld(o)
        /\ fh \cap HostHeld(p) = {}
    BY <1>i, StoreAssumption
       DEF ImageFacts, Image, Shape, DeviceHeld, HostHeld, HasPending, Quiet, Immutable,
           CanBeginHostToDevice
  <1> HIDE DEF o, p, fd, fh
  <1> QED BY <1>1, <1>t, <1>2, <1>3, <1>4, UpdateOne DEF o

(* publish_transfer, Device to Host, both replicas kept, keeps the invariant. *)
LEMMA PublishToHostKeepingKeeps ==
    ASSUME NEW s, Sound(s), NEW h \in Images,
           TransferToHost(s, h)
    PROVE  Sound(PublishDeviceToHost(s, h, TRUE))
  <1>i. ImageFacts(s, h)
    BY ImageTypes
  <1> DEFINE o == s.img[h]
             p == [o EXCEPT !.host = o.phost, !.phost = None, !.dev = @,
                           !.pins = @ - 1, !.pinned = FALSE]
             fd == s.freeDev
             fh == s.freeHost
  <1>1. PublishDeviceToHost(s, h, TRUE) = [img |-> [s.img EXCEPT ![h] = p], freeDev |-> fd, freeHost |-> fh]
    <2> SUFFICES ASSUME NEW r, r = PublishDeviceToHost(s, h, TRUE)
                 PROVE  r = [img |-> [s.img EXCEPT ![h] = p], freeDev |-> fd, freeHost |-> fh]
      OBVIOUS
    <2> QED BY <1>i, ZenonT(40) DEF ImageFacts, PublishDeviceToHost
  <1>t. p \in Image
    <2>1. o \in Image /\ o.phost \in HostSlots \cup {None} /\ o.dev \in DevSlots \cup {None} /\ o.pins - 1 \in Nat
      BY <1>i, StoreAssumption
         DEF ImageFacts, Image, Roles, Shape, OwnPin, HasPending, Quiet, Immutable,
             TransferToHost
    <2>2. [o EXCEPT !.host = o.phost] \in Image
      BY <2>1, FieldTypes
    <2>3. [o EXCEPT !.host = o.phost, !.phost = None] \in Image
      BY <2>1, <2>2, FieldTypes
    <2>4. [o EXCEPT !.host = o.phost, !.phost = None, !.dev = o.dev] \in Image
      BY <2>1, <2>3, FieldTypes
    <2>5. [o EXCEPT !.host = o.phost, !.phost = None, !.dev = o.dev, !.pins = o.pins - 1] \in Image
      BY <2>1, <2>4, FieldTypes
    <2> QED BY <2>1, <2>5, FieldTypes
  <1>2. Shape(p) /\ p.from = o.from
    BY <1>i, StoreAssumption
       DEF ImageFacts, Image, Shape, HasPending, Quiet, Immutable, TransferToHost
  <1>3. /\ p.pins - OwnPin(p) = o.pins - OwnPin(o)
        /\ p.pdev = None => o.pdev = None \/ p.from = None
        /\ p.pdev # None => o.pdev # None \/ p.from = None
        /\ KeepsReaders(o, p)
    BY <1>i, StoreAssumption
       DEF ImageFacts, Image, Shape, OwnPin, KeepsReaders, HasPending, Quiet, Immutable,
           TransferToHost
  <1>4. /\ fd \in SUBSET DevSlots /\ fh \in SUBSET HostSlots
        /\ fd \cup DeviceHeld(p) = s.freeDev \cup DeviceHeld(o)
        /\ fd \cap DeviceHeld(p) = {}
        /\ fh \cup HostHeld(p) = s.freeHost \cup HostHeld(o)
        /\ fh \cap HostHeld(p) = {}
    BY <1>i, StoreAssumption
       DEF ImageFacts, Image, Shape, DeviceHeld, HostHeld, HasPending, Quiet, Immutable,
           TransferToHost
  <1> HIDE DEF o, p, fd, fh
  <1>5. Sound([img |-> [s.img EXCEPT ![h] = p], freeDev |-> fd, freeHost |-> fh])
    BY <1>t, <1>2, <1>3, <1>4, UpdateOne DEF o
  <1> QED BY <1>1, <1>5, Zenon

(* publish_transfer, Device to Host, Device replica returned, keeps the invariant. *)
LEMMA PublishToHostKeeps ==
    ASSUME NEW s, Sound(s), NEW h \in Images,
           TransferToHost(s, h), s.img[h].pins = 1
    PROVE  Sound(PublishDeviceToHost(s, h, FALSE))
  <1>i. ImageFacts(s, h)
    BY ImageTypes
  <1> DEFINE o == s.img[h]
             p == [o EXCEPT !.host = o.phost, !.phost = None, !.dev = None,
                           !.pins = @ - 1, !.pinned = FALSE]
             fd == s.freeDev \cup {o.dev}
             fh == s.freeHost
  <1>1. PublishDeviceToHost(s, h, FALSE) = [img |-> [s.img EXCEPT ![h] = p], freeDev |-> fd, freeHost |-> fh]
    <2> SUFFICES ASSUME NEW r, r = PublishDeviceToHost(s, h, FALSE)
                 PROVE  r = [img |-> [s.img EXCEPT ![h] = p], freeDev |-> fd, freeHost |-> fh]
      OBVIOUS
    <2> QED BY <1>i, ZenonT(40) DEF ImageFacts, PublishDeviceToHost
  <1>t. p \in Image
    <2>1. o \in Image /\ o.phost \in HostSlots \cup {None} /\ o.pins - 1 \in Nat
      BY <1>i, StoreAssumption
         DEF ImageFacts, Image, Roles, Shape, OwnPin, HasPending, Quiet, Immutable,
             TransferToHost
    <2>2. [o EXCEPT !.host = o.phost] \in Image
      BY <2>1, FieldTypes
    <2>3. [o EXCEPT !.host = o.phost, !.phost = None] \in Image
      BY <2>1, <2>2, FieldTypes
    <2>4. [o EXCEPT !.host = o.phost, !.phost = None, !.dev = None] \in Image
      BY <2>1, <2>3, FieldTypes
    <2>5. [o EXCEPT !.host = o.phost, !.phost = None, !.dev = None, !.pins = o.pins - 1] \in Image
      BY <2>1, <2>4, FieldTypes
    <2> QED BY <2>1, <2>5, FieldTypes
  <1>2. Shape(p) /\ p.from = o.from
    BY <1>i, StoreAssumption
       DEF ImageFacts, Image, Shape, HasPending, Quiet, Immutable, TransferToHost
  <1>3. /\ p.pins - OwnPin(p) = o.pins - OwnPin(o)
        /\ p.pdev = None => o.pdev = None \/ p.from = None
        /\ p.pdev # None => o.pdev # None \/ p.from = None
        /\ KeepsReaders(o, p)
    BY <1>i, StoreAssumption
       DEF ImageFacts, Image, Shape, OwnPin, KeepsReaders, HasPending, Quiet, Immutable,
           TransferToHost
  <1>4. /\ fd \in SUBSET DevSlots /\ fh \in SUBSET HostSlots
        /\ fd \cup DeviceHeld(p) = s.freeDev \cup DeviceHeld(o)
        /\ fd \cap DeviceHeld(p) = {}
        /\ fh \cup HostHeld(p) = s.freeHost \cup HostHeld(o)
        /\ fh \cap HostHeld(p) = {}
    BY <1>i, StoreAssumption
       DEF ImageFacts, Image, Shape, DeviceHeld, HostHeld, HasPending, Quiet, Immutable,
           TransferToHost
  <1> HIDE DEF o, p, fd, fh
  <1>5. Sound([img |-> [s.img EXCEPT ![h] = p], freeDev |-> fd, freeHost |-> fh])
    BY <1>t, <1>2, <1>3, <1>4, UpdateOne DEF o
  <1> QED BY <1>1, <1>5, Zenon

(* publish_transfer, Host to Device, both replicas kept, keeps the invariant. *)
LEMMA PublishToDeviceKeepingKeeps ==
    ASSUME NEW s, Sound(s), NEW h \in Images,
           TransferToDevice(s, h)
    PROVE  Sound(PublishHostToDevice(s, h, TRUE))
  <1>i. ImageFacts(s, h)
    BY ImageTypes
  <1> DEFINE o == s.img[h]
             p == [o EXCEPT !.dev = o.pdev, !.pdev = None, !.host = @,
                           !.pins = @ - 1, !.pinned = FALSE]
             fd == s.freeDev
             fh == s.freeHost
  <1>1. PublishHostToDevice(s, h, TRUE) = [img |-> [s.img EXCEPT ![h] = p], freeDev |-> fd, freeHost |-> fh]
    <2> SUFFICES ASSUME NEW r, r = PublishHostToDevice(s, h, TRUE)
                 PROVE  r = [img |-> [s.img EXCEPT ![h] = p], freeDev |-> fd, freeHost |-> fh]
      OBVIOUS
    <2> QED BY <1>i, ZenonT(40) DEF ImageFacts, PublishHostToDevice
  <1>t. p \in Image
    <2>1. o \in Image /\ o.pdev \in DevSlots \cup {None} /\ o.host \in HostSlots \cup {None} /\ o.pins - 1 \in Nat
      BY <1>i, StoreAssumption
         DEF ImageFacts, Image, Roles, Shape, OwnPin, HasPending, Quiet, Immutable,
             TransferToDevice
    <2>2. [o EXCEPT !.dev = o.pdev] \in Image
      BY <2>1, FieldTypes
    <2>3. [o EXCEPT !.dev = o.pdev, !.pdev = None] \in Image
      BY <2>1, <2>2, FieldTypes
    <2>4. [o EXCEPT !.dev = o.pdev, !.pdev = None, !.host = o.host] \in Image
      BY <2>1, <2>3, FieldTypes
    <2>5. [o EXCEPT !.dev = o.pdev, !.pdev = None, !.host = o.host, !.pins = o.pins - 1] \in Image
      BY <2>1, <2>4, FieldTypes
    <2> QED BY <2>1, <2>5, FieldTypes
  <1>2. Shape(p) /\ p.from = o.from
    BY <1>i, StoreAssumption
       DEF ImageFacts, Image, Shape, HasPending, Quiet, Immutable, TransferToDevice
  <1>3. /\ p.pins - OwnPin(p) = o.pins - OwnPin(o)
        /\ p.pdev = None => o.pdev = None \/ p.from = None
        /\ p.pdev # None => o.pdev # None \/ p.from = None
        /\ KeepsReaders(o, p)
    BY <1>i, StoreAssumption
       DEF ImageFacts, Image, Shape, OwnPin, KeepsReaders, HasPending, Quiet, Immutable,
           TransferToDevice
  <1>4. /\ fd \in SUBSET DevSlots /\ fh \in SUBSET HostSlots
        /\ fd \cup DeviceHeld(p) = s.freeDev \cup DeviceHeld(o)
        /\ fd \cap DeviceHeld(p) = {}
        /\ fh \cup HostHeld(p) = s.freeHost \cup HostHeld(o)
        /\ fh \cap HostHeld(p) = {}
    BY <1>i, StoreAssumption
       DEF ImageFacts, Image, Shape, DeviceHeld, HostHeld, HasPending, Quiet, Immutable,
           TransferToDevice
  <1> HIDE DEF o, p, fd, fh
  <1>5. Sound([img |-> [s.img EXCEPT ![h] = p], freeDev |-> fd, freeHost |-> fh])
    BY <1>t, <1>2, <1>3, <1>4, UpdateOne DEF o
  <1> QED BY <1>1, <1>5, Zenon

(* publish_transfer, Host to Device, Host replica returned, keeps the invariant. *)
LEMMA PublishToDeviceKeeps ==
    ASSUME NEW s, Sound(s), NEW h \in Images,
           TransferToDevice(s, h), s.img[h].pins = 1
    PROVE  Sound(PublishHostToDevice(s, h, FALSE))
  <1>i. ImageFacts(s, h)
    BY ImageTypes
  <1> DEFINE o == s.img[h]
             p == [o EXCEPT !.dev = o.pdev, !.pdev = None, !.host = None,
                           !.pins = @ - 1, !.pinned = FALSE]
             fd == s.freeDev
             fh == s.freeHost \cup {o.host}
  <1>1. PublishHostToDevice(s, h, FALSE) = [img |-> [s.img EXCEPT ![h] = p], freeDev |-> fd, freeHost |-> fh]
    <2> SUFFICES ASSUME NEW r, r = PublishHostToDevice(s, h, FALSE)
                 PROVE  r = [img |-> [s.img EXCEPT ![h] = p], freeDev |-> fd, freeHost |-> fh]
      OBVIOUS
    <2> QED BY <1>i, ZenonT(40) DEF ImageFacts, PublishHostToDevice
  <1>t. p \in Image
    <2>1. o \in Image /\ o.pdev \in DevSlots \cup {None} /\ o.pins - 1 \in Nat
      BY <1>i, StoreAssumption
         DEF ImageFacts, Image, Roles, Shape, OwnPin, HasPending, Quiet, Immutable,
             TransferToDevice
    <2>2. [o EXCEPT !.dev = o.pdev] \in Image
      BY <2>1, FieldTypes
    <2>3. [o EXCEPT !.dev = o.pdev, !.pdev = None] \in Image
      BY <2>1, <2>2, FieldTypes
    <2>4. [o EXCEPT !.dev = o.pdev, !.pdev = None, !.host = None] \in Image
      BY <2>1, <2>3, FieldTypes
    <2>5. [o EXCEPT !.dev = o.pdev, !.pdev = None, !.host = None, !.pins = o.pins - 1] \in Image
      BY <2>1, <2>4, FieldTypes
    <2> QED BY <2>1, <2>5, FieldTypes
  <1>2. Shape(p) /\ p.from = o.from
    BY <1>i, StoreAssumption
       DEF ImageFacts, Image, Shape, HasPending, Quiet, Immutable, TransferToDevice
  <1>3. /\ p.pins - OwnPin(p) = o.pins - OwnPin(o)
        /\ p.pdev = None => o.pdev = None \/ p.from = None
        /\ p.pdev # None => o.pdev # None \/ p.from = None
        /\ KeepsReaders(o, p)
    BY <1>i, StoreAssumption
       DEF ImageFacts, Image, Shape, OwnPin, KeepsReaders, HasPending, Quiet, Immutable,
           TransferToDevice
  <1>4. /\ fd \in SUBSET DevSlots /\ fh \in SUBSET HostSlots
        /\ fd \cup DeviceHeld(p) = s.freeDev \cup DeviceHeld(o)
        /\ fd \cap DeviceHeld(p) = {}
        /\ fh \cup HostHeld(p) = s.freeHost \cup HostHeld(o)
        /\ fh \cap HostHeld(p) = {}
    BY <1>i, StoreAssumption
       DEF ImageFacts, Image, Shape, DeviceHeld, HostHeld, HasPending, Quiet, Immutable,
           TransferToDevice
  <1> HIDE DEF o, p, fd, fh
  <1>5. Sound([img |-> [s.img EXCEPT ![h] = p], freeDev |-> fd, freeHost |-> fh])
    BY <1>t, <1>2, <1>3, <1>4, UpdateOne DEF o
  <1> QED BY <1>1, <1>5, Zenon

(* abort_transfer, Device to Host keeps the invariant.                     *)
LEMMA AbortDeviceToHostKeeps ==
    ASSUME NEW s, Sound(s), NEW h \in Images,
           TransferToHost(s, h)
    PROVE  Sound(AbortDeviceToHost(s, h))
  <1>i. ImageFacts(s, h)
    BY ImageTypes
  <1> DEFINE o == s.img[h]
             p == [o EXCEPT !.phost = None, !.pins = @ - 1, !.pinned = FALSE]
             fd == s.freeDev
             fh == s.freeHost \cup {o.phost}
  <1>1. AbortDeviceToHost(s, h) = [img |-> [s.img EXCEPT ![h] = p], freeDev |-> fd, freeHost |-> fh]
    <2> SUFFICES ASSUME NEW r, r = AbortDeviceToHost(s, h)
                 PROVE  r = [img |-> [s.img EXCEPT ![h] = p], freeDev |-> fd, freeHost |-> fh]
      OBVIOUS
    <2> QED BY <1>i DEF ImageFacts, AbortDeviceToHost
  <1>t. p \in Image
    <2>1. o \in Image /\ o.pins - 1 \in Nat
      BY <1>i, StoreAssumption
         DEF ImageFacts, Image, Roles, Shape, OwnPin, HasPending, Quiet, Immutable,
             TransferToHost
    <2>2. [o EXCEPT !.phost = None] \in Image
      BY <2>1, FieldTypes
    <2>3. [o EXCEPT !.phost = None, !.pins = o.pins - 1] \in Image
      BY <2>1, <2>2, FieldTypes
    <2> QED BY <2>1, <2>3, FieldTypes
  <1>2. Shape(p) /\ p.from = o.from
    BY <1>i, StoreAssumption
       DEF ImageFacts, Image, Shape, HasPending, Quiet, Immutable, TransferToHost
  <1>3. /\ p.pins - OwnPin(p) = o.pins - OwnPin(o)
        /\ p.pdev = None => o.pdev = None \/ p.from = None
        /\ p.pdev # None => o.pdev # None \/ p.from = None
        /\ KeepsReaders(o, p)
    BY <1>i, StoreAssumption
       DEF ImageFacts, Image, Shape, OwnPin, KeepsReaders, HasPending, Quiet, Immutable,
           TransferToHost
  <1>4. /\ fd \in SUBSET DevSlots /\ fh \in SUBSET HostSlots
        /\ fd \cup DeviceHeld(p) = s.freeDev \cup DeviceHeld(o)
        /\ fd \cap DeviceHeld(p) = {}
        /\ fh \cup HostHeld(p) = s.freeHost \cup HostHeld(o)
        /\ fh \cap HostHeld(p) = {}
    BY <1>i, StoreAssumption
       DEF ImageFacts, Image, Shape, DeviceHeld, HostHeld, HasPending, Quiet, Immutable,
           TransferToHost
  <1> HIDE DEF o, p, fd, fh
  <1> QED BY <1>1, <1>t, <1>2, <1>3, <1>4, UpdateOne DEF o

(* abort_transfer, Host to Device keeps the invariant.                     *)
LEMMA AbortHostToDeviceKeeps ==
    ASSUME NEW s, Sound(s), NEW h \in Images,
           TransferToDevice(s, h)
    PROVE  Sound(AbortHostToDevice(s, h))
  <1>i. ImageFacts(s, h)
    BY ImageTypes
  <1> DEFINE o == s.img[h]
             p == [o EXCEPT !.pdev = None, !.pins = @ - 1, !.pinned = FALSE]
             fd == s.freeDev \cup {o.pdev}
             fh == s.freeHost
  <1>1. AbortHostToDevice(s, h) = [img |-> [s.img EXCEPT ![h] = p], freeDev |-> fd, freeHost |-> fh]
    <2> SUFFICES ASSUME NEW r, r = AbortHostToDevice(s, h)
                 PROVE  r = [img |-> [s.img EXCEPT ![h] = p], freeDev |-> fd, freeHost |-> fh]
      OBVIOUS
    <2> QED BY <1>i DEF ImageFacts, AbortHostToDevice
  <1>t. p \in Image
    <2>1. o \in Image /\ o.pins - 1 \in Nat
      BY <1>i, StoreAssumption
         DEF ImageFacts, Image, Roles, Shape, OwnPin, HasPending, Quiet, Immutable,
             TransferToDevice
    <2>2. [o EXCEPT !.pdev = None] \in Image
      BY <2>1, FieldTypes
    <2>3. [o EXCEPT !.pdev = None, !.pins = o.pins - 1] \in Image
      BY <2>1, <2>2, FieldTypes
    <2> QED BY <2>1, <2>3, FieldTypes
  <1>2. Shape(p) /\ p.from = o.from
    BY <1>i, StoreAssumption
       DEF ImageFacts, Image, Shape, HasPending, Quiet, Immutable, TransferToDevice
  <1>3. /\ p.pins - OwnPin(p) = o.pins - OwnPin(o)
        /\ p.pdev = None => o.pdev = None \/ p.from = None
        /\ p.pdev # None => o.pdev # None \/ p.from = None
        /\ KeepsReaders(o, p)
    BY <1>i, StoreAssumption
       DEF ImageFacts, Image, Shape, OwnPin, KeepsReaders, HasPending, Quiet, Immutable,
           TransferToDevice
  <1>4. /\ fd \in SUBSET DevSlots /\ fh \in SUBSET HostSlots
        /\ fd \cup DeviceHeld(p) = s.freeDev \cup DeviceHeld(o)
        /\ fd \cap DeviceHeld(p) = {}
        /\ fh \cup HostHeld(p) = s.freeHost \cup HostHeld(o)
        /\ fh \cap HostHeld(p) = {}
    BY <1>i, StoreAssumption
       DEF ImageFacts, Image, Shape, DeviceHeld, HostHeld, HasPending, Quiet, Immutable,
           TransferToDevice
  <1> HIDE DEF o, p, fd, fh
  <1> QED BY <1>1, <1>t, <1>2, <1>3, <1>4, UpdateOne DEF o

(* split_device_replica_identity keeps the invariant.                      *)
LEMMA SplitKeeps ==
    ASSUME NEW s, Sound(s), NEW h \in Images, NEW k \in Images,
           CanSplitIdentity(s, h, k)
    PROVE  Sound(SplitIdentity(s, h, k))
  <1>i. ImageFacts(s, h) /\ ImageFacts(s, k)
    BY ImageTypes
  <1> DEFINE o == s.img[h]
             c == s.img[k]
             p == [o EXCEPT !.dev = None]
             q == [c EXCEPT !.dev = o.dev, !.role = "ActiveMutable"]
             fd == s.freeDev
  <1>r. /\ Immutable(o) /\ h # k /\ c.role = "ReservedDestination"
        /\ o.from = None /\ c.from = None
    BY <1>i
       DEF ImageFacts, Shape, HasPending, Quiet, Immutable, CanSplitIdentity,
           CanDropReplica, BareDestination
  <1>1. SplitIdentity(s, h, k) = [img |-> [s.img EXCEPT ![h] = p, ![k] = q],
                  freeDev |-> fd, freeHost |-> s.freeHost]
    <2> SUFFICES ASSUME NEW r, r = SplitIdentity(s, h, k)
                 PROVE  r = [img |-> [s.img EXCEPT ![h] = p, ![k] = q],
                  freeDev |-> fd, freeHost |-> s.freeHost]
      OBVIOUS
    <2> QED BY <1>r, <1>i DEF ImageFacts, SplitIdentity
  <1>p. p \in Image
    <2>1. o \in Image
      BY <1>r, <1>i, StoreAssumption
         DEF ImageFacts, Image, Roles, HasPending, Quiet, Immutable, CanSplitIdentity,
             CanDropReplica, BareDestination
    <2> QED BY <2>1, FieldTypes
  <1>q. q \in Image
    <2>1. c \in Image /\ o.dev \in DevSlots \cup {None} /\ "ActiveMutable" \in Roles
      BY <1>r, <1>i, StoreAssumption
         DEF ImageFacts, Image, Roles, HasPending, Quiet, Immutable, CanSplitIdentity,
             CanDropReplica, BareDestination
    <2>2. [c EXCEPT !.dev = o.dev] \in Image
      BY <2>1, FieldTypes
    <2> QED BY <2>1, <2>2, FieldTypes
  <1>2. Shape(p) /\ Shape(q) /\ p.from = None
    BY <1>r, <1>i, StoreAssumption
       DEF ImageFacts, Image, Shape, HasPending, Quiet, Immutable, CanSplitIdentity,
           CanDropReplica, BareDestination
  <1>3. /\ (p.pins - OwnPin(p)) - (o.pins - OwnPin(o))
              = (IF q.from = h THEN 1 ELSE 0) - (IF c.from = h THEN 1 ELSE 0)
        /\ q.pins = OwnPin(q) /\ c.pins = OwnPin(c)
    BY <1>r, <1>i, StoreAssumption
       DEF ImageFacts, Image, Shape, OwnPin, HasPending, Quiet, Immutable,
           CanSplitIdentity, CanDropReplica, BareDestination
  <1>4. /\ KeepsReaders(o, p)
        /\ q.from \in {None, h} /\ c.from \in {None, h}
        /\ q.from = h => /\ Immutable(p)
                         /\ IF q.pdev = None THEN p.dev # None ELSE p.host # None
    BY <1>r, <1>i, StoreAssumption
       DEF ImageFacts, Image, Shape, OwnPin, KeepsReaders, HasPending, Quiet, Immutable,
           CanSplitIdentity, CanDropReplica, BareDestination
  <1>5. DeviceHeld(o) \cap DeviceHeld(c) = {}
    BY <1>r DEF Sound, Partitioned
  <1>6. /\ fd \in SUBSET DevSlots
        /\ fd \cup DeviceHeld(p) \cup DeviceHeld(q)
              = s.freeDev \cup DeviceHeld(o) \cup DeviceHeld(c)
        /\ fd \cap DeviceHeld(p) = {} /\ fd \cap DeviceHeld(q) = {}
        /\ DeviceHeld(p) \cap DeviceHeld(q) = {}
    BY <1>r, <1>5, <1>i, StoreAssumption
       DEF ImageFacts, Image, Shape, DeviceHeld, HasPending, Quiet, Immutable,
           CanSplitIdentity, CanDropReplica, BareDestination
  <1>7. HostHeld(p) = HostHeld(o) /\ HostHeld(q) = HostHeld(c)
    BY <1>i DEF ImageFacts, Image, HostHeld
  <1> HIDE DEF o, c, p, q, fd
  <1> QED BY <1>r, <1>1, <1>p, <1>q, <1>2, <1>3, <1>4, <1>6, <1>7, UpdateTwo DEF o, c

(* begin_fork keeps the invariant.                                         *)
LEMMA BeginForkKeeps ==
    ASSUME NEW s, Sound(s), NEW h \in Images, NEW k \in Images,
           CanBeginFork(s, h, k)
    PROVE  Sound(BeginFork(s, h, k))
  <1>i. ImageFacts(s, h) /\ ImageFacts(s, k)
    BY ImageTypes
  <1> DEFINE o == s.img[h]
             c == s.img[k]
             p == [o EXCEPT !.pins = o.pins + 1]
             q == [c EXCEPT !.pinned = TRUE, !.role = "ActiveMutable", !.from = h]
             fd == s.freeDev
  <1>r. /\ Immutable(o) /\ h # k /\ c.role = "ReservedDestination"
        /\ o.from = None /\ c.from = None
    BY <1>i DEF ImageFacts, Shape, HasPending, Quiet, Immutable, CanBeginFork
  <1>1. BeginFork(s, h, k) = [img |-> [s.img EXCEPT ![h] = p, ![k] = q],
                  freeDev |-> fd, freeHost |-> s.freeHost]
    <2> SUFFICES ASSUME NEW r, r = BeginFork(s, h, k)
                 PROVE  r = [img |-> [s.img EXCEPT ![h] = p, ![k] = q],
                  freeDev |-> fd, freeHost |-> s.freeHost]
      OBVIOUS
    <2> QED BY <1>r, <1>i DEF ImageFacts, BeginFork
  <1>p. p \in Image
    <2>1. o \in Image /\ o.pins + 1 \in Nat
      BY <1>r, <1>i, StoreAssumption
         DEF ImageFacts, Image, Roles, HasPending, Quiet, Immutable, CanBeginFork
    <2> QED BY <2>1, FieldTypes
  <1>q. q \in Image
    <2>1. c \in Image /\ "ActiveMutable" \in Roles
      BY <1>r, <1>i, StoreAssumption
         DEF ImageFacts, Image, Roles, HasPending, Quiet, Immutable, CanBeginFork
    <2>2. [c EXCEPT !.pinned = TRUE] \in Image
      BY <2>1, FieldTypes
    <2>3. [c EXCEPT !.pinned = TRUE, !.role = "ActiveMutable"] \in Image
      BY <2>1, <2>2, FieldTypes
    <2> QED BY <2>1, <2>3, FieldTypes
  <1>2. Shape(p) /\ Shape(q) /\ p.from = None
    BY <1>r, <1>i, StoreAssumption
       DEF ImageFacts, Image, Shape, HasPending, Quiet, Immutable, CanBeginFork
  <1>3. /\ (p.pins - OwnPin(p)) - (o.pins - OwnPin(o))
              = (IF q.from = h THEN 1 ELSE 0) - (IF c.from = h THEN 1 ELSE 0)
        /\ q.pins = OwnPin(q) /\ c.pins = OwnPin(c)
    BY <1>r, <1>i, StoreAssumption
       DEF ImageFacts, Image, Shape, OwnPin, HasPending, Quiet, Immutable, CanBeginFork
  <1>4. /\ KeepsReaders(o, p)
        /\ q.from \in {None, h} /\ c.from \in {None, h}
        /\ q.from = h => /\ Immutable(p)
                         /\ IF q.pdev = None THEN p.dev # None ELSE p.host # None
    BY <1>r, <1>i, StoreAssumption
       DEF ImageFacts, Image, Shape, OwnPin, KeepsReaders, HasPending, Quiet, Immutable,
           CanBeginFork
  <1>5. DeviceHeld(o) \cap DeviceHeld(c) = {}
    BY <1>r DEF Sound, Partitioned
  <1>6. /\ fd \in SUBSET DevSlots
        /\ fd \cup DeviceHeld(p) \cup DeviceHeld(q)
              = s.freeDev \cup DeviceHeld(o) \cup DeviceHeld(c)
        /\ fd \cap DeviceHeld(p) = {} /\ fd \cap DeviceHeld(q) = {}
        /\ DeviceHeld(p) \cap DeviceHeld(q) = {}
    <2>1. DeviceHeld(p) = DeviceHeld(o) /\ DeviceHeld(q) = DeviceHeld(c)
      BY <1>i DEF ImageFacts, Image, DeviceHeld
    <2> QED BY <1>5, <2>1, <1>i DEF ImageFacts

  <1>7. HostHeld(p) = HostHeld(o) /\ HostHeld(q) = HostHeld(c)
    BY <1>i DEF ImageFacts, Image, HostHeld
  <1> HIDE DEF o, c, p, q, fd
  <1> QED BY <1>r, <1>1, <1>p, <1>q, <1>2, <1>3, <1>4, <1>6, <1>7, UpdateTwo DEF o, c

(* commit_fork keeps the invariant.                                        *)
LEMMA CommitForkKeeps ==
    ASSUME NEW s, Sound(s), NEW h \in Images, NEW k \in Images,
           Forked(s, h, k), CanCommitFork(s, h, k)
    PROVE  Sound(CommitFork(s, h, k))
  <1>i. ImageFacts(s, h) /\ ImageFacts(s, k)
    BY ImageTypes
  <1> DEFINE o == s.img[h]
             c == s.img[k]
             p == [o EXCEPT !.pins = o.pins - 1]
             q == [c EXCEPT !.pinned = FALSE, !.from = None]
             fd == s.freeDev
  <1>r. /\ Immutable(o) /\ h # k /\ c.role = "ActiveMutable"
        /\ o.pins >= 1 /\ o.from = None
        /\ IF c.pdev = None THEN o.dev # None ELSE o.host # None
    <2>1. c.from = h /\ h # None
      BY StoreAssumption DEF Forked
    <2>2. /\ Immutable(o)
          /\ IF c.pdev = None THEN o.dev # None ELSE o.host # None
      BY <2>1 DEF Sound, ForksLive
    <2>3. c.role = "ActiveMutable"
      BY <2>1, <1>i DEF ImageFacts, Shape
    <2>4. h # k /\ o.from = None
      BY <2>2, <2>3, <1>i DEF ImageFacts, Shape, Immutable
    <2>5. o.pins # OwnPin(o) /\ o.pins >= OwnPin(o)
      BY <2>1, NoReader, <1>i DEF ImageFacts

    <2>6. o.pins \in Nat /\ OwnPin(o) \in Nat
      BY <1>i DEF ImageFacts, Image, OwnPin
    <2> QED BY <2>2, <2>3, <2>4, <2>5, <2>6
  <1>1. CommitFork(s, h, k) = [img |-> [s.img EXCEPT ![h] = p, ![k] = q],
                  freeDev |-> fd, freeHost |-> s.freeHost]
    <2> SUFFICES ASSUME NEW r, r = CommitFork(s, h, k)
                 PROVE  r = [img |-> [s.img EXCEPT ![h] = p, ![k] = q],
                  freeDev |-> fd, freeHost |-> s.freeHost]
      OBVIOUS
    <2> QED BY <1>r, <1>i DEF ImageFacts, CommitFork
  <1>p. p \in Image
    <2>1. o \in Image /\ o.pins - 1 \in Nat
      BY <1>r, <1>i, StoreAssumption
         DEF ImageFacts, Image, Roles, HasPending, Quiet, Immutable, CanCommitFork, Forked
    <2> QED BY <2>1, FieldTypes
  <1>q. q \in Image
    <2>1. c \in Image
      BY <1>r, <1>i, StoreAssumption
         DEF ImageFacts, Image, Roles, HasPending, Quiet, Immutable, CanCommitFork, Forked
    <2>2. [c EXCEPT !.pinned = FALSE] \in Image
      BY <2>1, FieldTypes
    <2> QED BY <2>1, <2>2, FieldTypes
  <1>2. Shape(p) /\ Shape(q) /\ p.from = None
    BY <1>r, <1>i, StoreAssumption
       DEF ImageFacts, Image, Shape, HasPending, Quiet, Immutable, CanCommitFork, Forked
  <1>3. /\ (p.pins - OwnPin(p)) - (o.pins - OwnPin(o))
              = (IF q.from = h THEN 1 ELSE 0) - (IF c.from = h THEN 1 ELSE 0)
        /\ q.pins = OwnPin(q) /\ c.pins = OwnPin(c)
    BY <1>r, <1>i, StoreAssumption
       DEF ImageFacts, Image, Shape, OwnPin, HasPending, Quiet, Immutable, CanCommitFork,
           Forked
  <1>4. /\ KeepsReaders(o, p)
        /\ q.from \in {None, h} /\ c.from \in {None, h}
        /\ q.from = h => /\ Immutable(p)
                         /\ IF q.pdev = None THEN p.dev # None ELSE p.host # None
    BY <1>r, <1>i, StoreAssumption
       DEF ImageFacts, Image, Shape, OwnPin, KeepsReaders, HasPending, Quiet, Immutable,
           CanCommitFork, Forked
  <1>5. DeviceHeld(o) \cap DeviceHeld(c) = {}
    BY <1>r DEF Sound, Partitioned
  <1>6. /\ fd \in SUBSET DevSlots
        /\ fd \cup DeviceHeld(p) \cup DeviceHeld(q)
              = s.freeDev \cup DeviceHeld(o) \cup DeviceHeld(c)
        /\ fd \cap DeviceHeld(p) = {} /\ fd \cap DeviceHeld(q) = {}
        /\ DeviceHeld(p) \cap DeviceHeld(q) = {}
    <2>1. DeviceHeld(p) = DeviceHeld(o) /\ DeviceHeld(q) = DeviceHeld(c)
      BY <1>i DEF ImageFacts, Image, DeviceHeld
    <2> QED BY <1>5, <2>1, <1>i DEF ImageFacts

  <1>7. HostHeld(p) = HostHeld(o) /\ HostHeld(q) = HostHeld(c)
    BY <1>i DEF ImageFacts, Image, HostHeld
  <1> HIDE DEF o, c, p, q, fd
  <1> QED BY <1>r, <1>1, <1>p, <1>q, <1>2, <1>3, <1>4, <1>6, <1>7, UpdateTwo DEF o, c

(* abort_fork keeps the invariant.                                         *)
LEMMA AbortForkKeeps ==
    ASSUME NEW s, Sound(s), NEW h \in Images, NEW k \in Images,
           Forked(s, h, k), CanAbortFork(s, h, k)
    PROVE  Sound(AbortFork(s, h, k))
  <1>i. ImageFacts(s, h) /\ ImageFacts(s, k)
    BY ImageTypes
  <1> DEFINE o == s.img[h]
             c == s.img[k]
             p == [o EXCEPT !.pins = o.pins - 1]
             q == [c EXCEPT !.pinned = FALSE, !.role = "ReservedDestination",
                           !.from = None]
             fd == s.freeDev
  <1>r. /\ Immutable(o) /\ h # k /\ c.role = "ActiveMutable"
        /\ o.pins >= 1 /\ o.from = None
        /\ IF c.pdev = None THEN o.dev # None ELSE o.host # None
    <2>1. c.from = h /\ h # None
      BY StoreAssumption DEF Forked
    <2>2. /\ Immutable(o)
          /\ IF c.pdev = None THEN o.dev # None ELSE o.host # None
      BY <2>1 DEF Sound, ForksLive
    <2>3. c.role = "ActiveMutable"
      BY <2>1, <1>i DEF ImageFacts, Shape
    <2>4. h # k /\ o.from = None
      BY <2>2, <2>3, <1>i DEF ImageFacts, Shape, Immutable
    <2>5. o.pins # OwnPin(o) /\ o.pins >= OwnPin(o)
      BY <2>1, NoReader, <1>i DEF ImageFacts

    <2>6. o.pins \in Nat /\ OwnPin(o) \in Nat
      BY <1>i DEF ImageFacts, Image, OwnPin
    <2> QED BY <2>2, <2>3, <2>4, <2>5, <2>6
  <1>1. AbortFork(s, h, k) = [img |-> [s.img EXCEPT ![h] = p, ![k] = q],
                  freeDev |-> fd, freeHost |-> s.freeHost]
    <2> SUFFICES ASSUME NEW r, r = AbortFork(s, h, k)
                 PROVE  r = [img |-> [s.img EXCEPT ![h] = p, ![k] = q],
                  freeDev |-> fd, freeHost |-> s.freeHost]
      OBVIOUS
    <2> QED BY <1>r, <1>i DEF ImageFacts, AbortFork
  <1>p. p \in Image
    <2>1. o \in Image /\ o.pins - 1 \in Nat
      BY <1>r, <1>i, StoreAssumption
         DEF ImageFacts, Image, Roles, HasPending, Quiet, Immutable, Forked
    <2> QED BY <2>1, FieldTypes
  <1>q. q \in Image
    <2>1. c \in Image /\ "ReservedDestination" \in Roles
      BY <1>r, <1>i, StoreAssumption
         DEF ImageFacts, Image, Roles, HasPending, Quiet, Immutable, Forked
    <2>2. [c EXCEPT !.pinned = FALSE] \in Image
      BY <2>1, FieldTypes
    <2>3. [c EXCEPT !.pinned = FALSE, !.role = "ReservedDestination"] \in Image
      BY <2>1, <2>2, FieldTypes
    <2> QED BY <2>1, <2>3, FieldTypes
  <1>2. Shape(p) /\ Shape(q) /\ p.from = None
    BY <1>r, <1>i, StoreAssumption
       DEF ImageFacts, Image, Shape, HasPending, Quiet, Immutable, Forked
  <1>3. /\ (p.pins - OwnPin(p)) - (o.pins - OwnPin(o))
              = (IF q.from = h THEN 1 ELSE 0) - (IF c.from = h THEN 1 ELSE 0)
        /\ q.pins = OwnPin(q) /\ c.pins = OwnPin(c)
    BY <1>r, <1>i, StoreAssumption
       DEF ImageFacts, Image, Shape, OwnPin, HasPending, Quiet, Immutable, Forked
  <1>4. /\ KeepsReaders(o, p)
        /\ q.from \in {None, h} /\ c.from \in {None, h}
        /\ q.from = h => /\ Immutable(p)
                         /\ IF q.pdev = None THEN p.dev # None ELSE p.host # None
    BY <1>r, <1>i, StoreAssumption
       DEF ImageFacts, Image, Shape, OwnPin, KeepsReaders, HasPending, Quiet, Immutable,
           Forked
  <1>5. DeviceHeld(o) \cap DeviceHeld(c) = {}
    BY <1>r DEF Sound, Partitioned
  <1>6. /\ fd \in SUBSET DevSlots
        /\ fd \cup DeviceHeld(p) \cup DeviceHeld(q)
              = s.freeDev \cup DeviceHeld(o) \cup DeviceHeld(c)
        /\ fd \cap DeviceHeld(p) = {} /\ fd \cap DeviceHeld(q) = {}
        /\ DeviceHeld(p) \cap DeviceHeld(q) = {}
    <2>1. DeviceHeld(p) = DeviceHeld(o) /\ DeviceHeld(q) = DeviceHeld(c)
      BY <1>i DEF ImageFacts, Image, DeviceHeld
    <2> QED BY <1>5, <2>1, <1>i DEF ImageFacts

  <1>7. HostHeld(p) = HostHeld(o) /\ HostHeld(q) = HostHeld(c)
    BY <1>i DEF ImageFacts, Image, HostHeld
  <1> HIDE DEF o, c, p, q, fd
  <1> QED BY <1>r, <1>1, <1>p, <1>q, <1>2, <1>3, <1>4, <1>6, <1>7, UpdateTwo DEF o, c

(* begin_host_fork keeps the invariant.                                    *)
LEMMA BeginHostForkKeeps ==
    ASSUME NEW s, Sound(s), NEW h \in Images, NEW k \in Images, NEW d \in DevSlots,
           CanBeginHostFork(s, h, k, d)
    PROVE  Sound(BeginHostFork(s, h, k, d))
  <1>i. ImageFacts(s, h) /\ ImageFacts(s, k)
    BY ImageTypes
  <1> DEFINE o == s.img[h]
             c == s.img[k]
             p == [o EXCEPT !.pins = o.pins + 1]
             q == [c EXCEPT !.pdev = d, !.pinned = TRUE, !.role = "ActiveMutable",
                           !.from = h]
             fd == s.freeDev \ {d}
  <1>r. /\ Immutable(o) /\ h # k /\ c.role = "ReservedDestination"
        /\ o.from = None /\ c.from = None
    BY <1>i
       DEF ImageFacts, Shape, HasPending, Quiet, Immutable, CanBeginHostFork,
           BareDestination
  <1>1. BeginHostFork(s, h, k, d) = [img |-> [s.img EXCEPT ![h] = p, ![k] = q],
                  freeDev |-> fd, freeHost |-> s.freeHost]
    <2> SUFFICES ASSUME NEW r, r = BeginHostFork(s, h, k, d)
                 PROVE  r = [img |-> [s.img EXCEPT ![h] = p, ![k] = q],
                  freeDev |-> fd, freeHost |-> s.freeHost]
      OBVIOUS
    <2> QED BY <1>r, <1>i, ZenonT(40) DEF ImageFacts, BeginHostFork
  <1>p. p \in Image
    <2>1. o \in Image /\ o.pins + 1 \in Nat
      BY <1>r, <1>i, StoreAssumption
         DEF ImageFacts, Image, Roles, HasPending, Quiet, Immutable, CanBeginHostFork,
             BareDestination
    <2> QED BY <2>1, FieldTypes
  <1>q. q \in Image
    <2>1. c \in Image /\ d \in DevSlots \cup {None} /\ "ActiveMutable" \in Roles
      BY <1>r, <1>i, StoreAssumption
         DEF ImageFacts, Image, Roles, HasPending, Quiet, Immutable, CanBeginHostFork,
             BareDestination
    <2>2. [c EXCEPT !.pdev = d] \in Image
      BY <2>1, FieldTypes
    <2>3. [c EXCEPT !.pdev = d, !.pinned = TRUE] \in Image
      BY <2>1, <2>2, FieldTypes
    <2>4. [c EXCEPT !.pdev = d, !.pinned = TRUE, !.role = "ActiveMutable"] \in Image
      BY <2>1, <2>3, FieldTypes
    <2> QED BY <2>1, <2>4, FieldTypes
  <1>2. Shape(p) /\ Shape(q) /\ p.from = None
    BY <1>r, <1>i, StoreAssumption
       DEF ImageFacts, Image, Shape, HasPending, Quiet, Immutable, CanBeginHostFork,
           BareDestination
  <1>3. /\ (p.pins - OwnPin(p)) - (o.pins - OwnPin(o))
              = (IF q.from = h THEN 1 ELSE 0) - (IF c.from = h THEN 1 ELSE 0)
        /\ q.pins = OwnPin(q) /\ c.pins = OwnPin(c)
    BY <1>r, <1>i, StoreAssumption
       DEF ImageFacts, Image, Shape, OwnPin, HasPending, Quiet, Immutable,
           CanBeginHostFork, BareDestination
  <1>4. /\ KeepsReaders(o, p)
        /\ q.from \in {None, h} /\ c.from \in {None, h}
        /\ q.from = h => /\ Immutable(p)
                         /\ IF q.pdev = None THEN p.dev # None ELSE p.host # None
    BY <1>r, <1>i, StoreAssumption
       DEF ImageFacts, Image, Shape, OwnPin, KeepsReaders, HasPending, Quiet, Immutable,
           CanBeginHostFork, BareDestination
  <1>5. DeviceHeld(o) \cap DeviceHeld(c) = {}
    BY <1>r DEF Sound, Partitioned
  <1>6. /\ fd \in SUBSET DevSlots
        /\ fd \cup DeviceHeld(p) \cup DeviceHeld(q)
              = s.freeDev \cup DeviceHeld(o) \cup DeviceHeld(c)
        /\ fd \cap DeviceHeld(p) = {} /\ fd \cap DeviceHeld(q) = {}
        /\ DeviceHeld(p) \cap DeviceHeld(q) = {}
    BY <1>r, <1>5, <1>i, StoreAssumption
       DEF ImageFacts, Image, Shape, DeviceHeld, HasPending, Quiet, Immutable,
           CanBeginHostFork, BareDestination
  <1>7. HostHeld(p) = HostHeld(o) /\ HostHeld(q) = HostHeld(c)
    BY <1>i DEF ImageFacts, Image, HostHeld
  <1> HIDE DEF o, c, p, q, fd
  <1> QED BY <1>r, <1>1, <1>p, <1>q, <1>2, <1>3, <1>4, <1>6, <1>7, UpdateTwo DEF o, c

(* publish_transfer, Host to fork, keeps the invariant.                    *)
LEMMA PublishHostForkKeeps ==
    ASSUME NEW s, Sound(s), NEW h \in Images, NEW k \in Images,
           TransferToFork(s, h, k)
    PROVE  Sound(PublishHostFork(s, h, k))
  <1>i. ImageFacts(s, h) /\ ImageFacts(s, k)
    BY ImageTypes
  <1> DEFINE o == s.img[h]
             c == s.img[k]
             p == [o EXCEPT !.pins = o.pins - 1]
             q == [c EXCEPT !.dev = c.pdev, !.pdev = None, !.pinned = FALSE,
                           !.from = None]
             fd == s.freeDev
  <1>r. /\ Immutable(o) /\ h # k /\ c.role = "ActiveMutable"
        /\ o.pins >= 1 /\ o.from = None
        /\ IF c.pdev = None THEN o.dev # None ELSE o.host # None
    <2>1. c.from = h /\ h # None
      BY StoreAssumption DEF TransferToFork
    <2>2. /\ Immutable(o)
          /\ IF c.pdev = None THEN o.dev # None ELSE o.host # None
      BY <2>1 DEF Sound, ForksLive
    <2>3. c.role = "ActiveMutable"
      BY <2>1, <1>i DEF ImageFacts, Shape
    <2>4. h # k /\ o.from = None
      BY <2>2, <2>3, <1>i DEF ImageFacts, Shape, Immutable
    <2>5. o.pins # OwnPin(o) /\ o.pins >= OwnPin(o)
      BY <2>1, NoReader, <1>i DEF ImageFacts

    <2>6. o.pins \in Nat /\ OwnPin(o) \in Nat
      BY <1>i DEF ImageFacts, Image, OwnPin
    <2> QED BY <2>2, <2>3, <2>4, <2>5, <2>6
  <1>1. PublishHostFork(s, h, k) = [img |-> [s.img EXCEPT ![h] = p, ![k] = q],
                  freeDev |-> fd, freeHost |-> s.freeHost]
    <2> SUFFICES ASSUME NEW r, r = PublishHostFork(s, h, k)
                 PROVE  r = [img |-> [s.img EXCEPT ![h] = p, ![k] = q],
                  freeDev |-> fd, freeHost |-> s.freeHost]
      OBVIOUS
    <2> QED BY <1>r, <1>i, ZenonT(40) DEF ImageFacts, PublishHostFork
  <1>p. p \in Image
    <2>1. o \in Image /\ o.pins - 1 \in Nat
      BY <1>r, <1>i, StoreAssumption
         DEF ImageFacts, Image, Roles, HasPending, Quiet, Immutable, TransferToFork
    <2> QED BY <2>1, FieldTypes
  <1>q. q \in Image
    <2>1. c \in Image /\ c.pdev \in DevSlots \cup {None}
      BY <1>r, <1>i, StoreAssumption
         DEF ImageFacts, Image, Roles, HasPending, Quiet, Immutable, TransferToFork
    <2>2. [c EXCEPT !.dev = c.pdev] \in Image
      BY <2>1, FieldTypes
    <2>3. [c EXCEPT !.dev = c.pdev, !.pdev = None] \in Image
      BY <2>1, <2>2, FieldTypes
    <2>4. [c EXCEPT !.dev = c.pdev, !.pdev = None, !.pinned = FALSE] \in Image
      BY <2>1, <2>3, FieldTypes
    <2> QED BY <2>1, <2>4, FieldTypes
  <1>2. Shape(p) /\ Shape(q) /\ p.from = None
    BY <1>r, <1>i, StoreAssumption
       DEF ImageFacts, Image, Shape, HasPending, Quiet, Immutable, TransferToFork
  <1>3. /\ (p.pins - OwnPin(p)) - (o.pins - OwnPin(o))
              = (IF q.from = h THEN 1 ELSE 0) - (IF c.from = h THEN 1 ELSE 0)
        /\ q.pins = OwnPin(q) /\ c.pins = OwnPin(c)
    BY <1>r, <1>i, StoreAssumption
       DEF ImageFacts, Image, Shape, OwnPin, HasPending, Quiet, Immutable, TransferToFork
  <1>4. /\ KeepsReaders(o, p)
        /\ q.from \in {None, h} /\ c.from \in {None, h}
        /\ q.from = h => /\ Immutable(p)
                         /\ IF q.pdev = None THEN p.dev # None ELSE p.host # None
    BY <1>r, <1>i, StoreAssumption
       DEF ImageFacts, Image, Shape, OwnPin, KeepsReaders, HasPending, Quiet, Immutable,
           TransferToFork
  <1>5. DeviceHeld(o) \cap DeviceHeld(c) = {}
    BY <1>r DEF Sound, Partitioned
  <1>6. /\ fd \in SUBSET DevSlots
        /\ fd \cup DeviceHeld(p) \cup DeviceHeld(q)
              = s.freeDev \cup DeviceHeld(o) \cup DeviceHeld(c)
        /\ fd \cap DeviceHeld(p) = {} /\ fd \cap DeviceHeld(q) = {}
        /\ DeviceHeld(p) \cap DeviceHeld(q) = {}
    BY <1>r, <1>5, <1>i, StoreAssumption
       DEF ImageFacts, Image, Shape, DeviceHeld, HasPending, Quiet, Immutable,
           TransferToFork
  <1>7. HostHeld(p) = HostHeld(o) /\ HostHeld(q) = HostHeld(c)
    BY <1>i DEF ImageFacts, Image, HostHeld
  <1> HIDE DEF o, c, p, q, fd
  <1> QED BY <1>r, <1>1, <1>p, <1>q, <1>2, <1>3, <1>4, <1>6, <1>7, UpdateTwo DEF o, c

(* abort_transfer, Host to fork, keeps the invariant.                      *)
LEMMA AbortHostForkKeeps ==
    ASSUME NEW s, Sound(s), NEW h \in Images, NEW k \in Images,
           TransferToFork(s, h, k)
    PROVE  Sound(AbortHostFork(s, h, k))
  <1>i. ImageFacts(s, h) /\ ImageFacts(s, k)
    BY ImageTypes
  <1> DEFINE o == s.img[h]
             c == s.img[k]
             p == [o EXCEPT !.pins = o.pins - 1]
             q == [c EXCEPT !.pdev = None, !.pinned = FALSE,
                           !.role = "ReservedDestination", !.from = None]
             fd == s.freeDev \cup {c.pdev}
  <1>r. /\ Immutable(o) /\ h # k /\ c.role = "ActiveMutable"
        /\ o.pins >= 1 /\ o.from = None
        /\ IF c.pdev = None THEN o.dev # None ELSE o.host # None
    <2>1. c.from = h /\ h # None
      BY StoreAssumption DEF TransferToFork
    <2>2. /\ Immutable(o)
          /\ IF c.pdev = None THEN o.dev # None ELSE o.host # None
      BY <2>1 DEF Sound, ForksLive
    <2>3. c.role = "ActiveMutable"
      BY <2>1, <1>i DEF ImageFacts, Shape
    <2>4. h # k /\ o.from = None
      BY <2>2, <2>3, <1>i DEF ImageFacts, Shape, Immutable
    <2>5. o.pins # OwnPin(o) /\ o.pins >= OwnPin(o)
      BY <2>1, NoReader, <1>i DEF ImageFacts

    <2>6. o.pins \in Nat /\ OwnPin(o) \in Nat
      BY <1>i DEF ImageFacts, Image, OwnPin
    <2> QED BY <2>2, <2>3, <2>4, <2>5, <2>6
  <1>1. AbortHostFork(s, h, k) = [img |-> [s.img EXCEPT ![h] = p, ![k] = q],
                  freeDev |-> fd, freeHost |-> s.freeHost]
    <2> SUFFICES ASSUME NEW r, r = AbortHostFork(s, h, k)
                 PROVE  r = [img |-> [s.img EXCEPT ![h] = p, ![k] = q],
                  freeDev |-> fd, freeHost |-> s.freeHost]
      OBVIOUS
    <2> QED BY <1>r, <1>i, ZenonT(40) DEF ImageFacts, AbortHostFork
  <1>p. p \in Image
    <2>1. o \in Image /\ o.pins - 1 \in Nat
      BY <1>r, <1>i, StoreAssumption
         DEF ImageFacts, Image, Roles, HasPending, Quiet, Immutable, TransferToFork
    <2> QED BY <2>1, FieldTypes
  <1>q. q \in Image
    <2>1. c \in Image /\ "ReservedDestination" \in Roles
      BY <1>r, <1>i, StoreAssumption
         DEF ImageFacts, Image, Roles, HasPending, Quiet, Immutable, TransferToFork
    <2>2. [c EXCEPT !.pdev = None] \in Image
      BY <2>1, FieldTypes
    <2>3. [c EXCEPT !.pdev = None, !.pinned = FALSE] \in Image
      BY <2>1, <2>2, FieldTypes
    <2>4. [c EXCEPT !.pdev = None, !.pinned = FALSE, !.role = "ReservedDestination"] \in Image
      BY <2>1, <2>3, FieldTypes
    <2> QED BY <2>1, <2>4, FieldTypes
  <1>2. Shape(p) /\ Shape(q) /\ p.from = None
    BY <1>r, <1>i, StoreAssumption
       DEF ImageFacts, Image, Shape, HasPending, Quiet, Immutable, TransferToFork
  <1>3. /\ (p.pins - OwnPin(p)) - (o.pins - OwnPin(o))
              = (IF q.from = h THEN 1 ELSE 0) - (IF c.from = h THEN 1 ELSE 0)
        /\ q.pins = OwnPin(q) /\ c.pins = OwnPin(c)
    BY <1>r, <1>i, StoreAssumption
       DEF ImageFacts, Image, Shape, OwnPin, HasPending, Quiet, Immutable, TransferToFork
  <1>4. /\ KeepsReaders(o, p)
        /\ q.from \in {None, h} /\ c.from \in {None, h}
        /\ q.from = h => /\ Immutable(p)
                         /\ IF q.pdev = None THEN p.dev # None ELSE p.host # None
    BY <1>r, <1>i, StoreAssumption
       DEF ImageFacts, Image, Shape, OwnPin, KeepsReaders, HasPending, Quiet, Immutable,
           TransferToFork
  <1>5. DeviceHeld(o) \cap DeviceHeld(c) = {}
    BY <1>r DEF Sound, Partitioned
  <1>6. /\ fd \in SUBSET DevSlots
        /\ fd \cup DeviceHeld(p) \cup DeviceHeld(q)
              = s.freeDev \cup DeviceHeld(o) \cup DeviceHeld(c)
        /\ fd \cap DeviceHeld(p) = {} /\ fd \cap DeviceHeld(q) = {}
        /\ DeviceHeld(p) \cap DeviceHeld(q) = {}
    BY <1>r, <1>5, <1>i, StoreAssumption
       DEF ImageFacts, Image, Shape, DeviceHeld, HasPending, Quiet, Immutable,
           TransferToFork
  <1>7. HostHeld(p) = HostHeld(o) /\ HostHeld(q) = HostHeld(c)
    BY <1>i DEF ImageFacts, Image, HostHeld
  <1> HIDE DEF o, c, p, q, fd
  <1> QED BY <1>r, <1>1, <1>p, <1>q, <1>2, <1>3, <1>4, <1>6, <1>7, UpdateTwo DEF o, c

-------------------------------------------------------------------------------
(* The store on its own: every order of calls its checks allow.            *)

(* The empty store is sound.                                               *)
LEMMA EmptySound == Sound(EmptyStore)
  <1>0. PICK s : s = EmptyStore
    OBVIOUS
  <1>1. NewObject("Free") \in Image
    BY DEF NewObject, Image, Roles
  <1>2. /\ s.img = [h \in Images |-> NewObject("Free")]
        /\ s.freeDev = DevSlots /\ s.freeHost = HostSlots
    BY <1>0 DEF EmptyStore
  <1>3. s \in Store
    BY <1>0, <1>1 DEF EmptyStore, Store
  <1>4. \A h \in Images : /\ DeviceHeld(s.img[h]) = {} /\ HostHeld(s.img[h]) = {}
                          /\ s.img[h].from = None /\ s.img[h].pins = 0
                          /\ OwnPin(s.img[h]) = 0
    BY <1>2 DEF NewObject, DeviceHeld, HostHeld, OwnPin, HasPending
  <1>5. Partitioned(s)
    BY <1>2, <1>4 DEF Partitioned
  <1>6. ForksLive(s)
    BY <1>4 DEF ForksLive
  <1>7. Shapes(s)
    BY <1>2 DEF Shapes, Shape, NewObject, Immutable
  <1>8. PinsExact(s)
    <2> SUFFICES ASSUME NEW h \in Images
                 PROVE  s.img[h].pins = Cardinality(Readers(s, h)) + OwnPin(s.img[h])
      BY DEF PinsExact
    <2>1. Readers(s, h) = {}
      BY <1>4, StoreAssumption DEF Readers
    <2>2. Cardinality(Readers(s, h)) = 0
      BY <2>1, FS_EmptySet
    <2> QED
      BY <1>4, <2>2
  <1> QED
    BY <1>0, <1>3, <1>5, <1>6, <1>7, <1>8 DEF Sound

SoundNow == Sound(store)

(* The inductive step: every method keeps the store sound.                 *)
LEMMA StepKeeps == SoundNow /\ [StoreNext]_store => SoundNow'
  <1> SUFFICES ASSUME Sound(store), [StoreNext]_store PROVE Sound(store')
    BY DEF SoundNow
  <1>1. CASE Reserve
    BY <1>1, ReserveDestinationKeeps, ReserveLogicalKeeps DEF Reserve
  <1>2. CASE Drop
    BY <1>2, ReleaseKeeps DEF Drop
  <1>3. CASE References
    BY <1>3, RetainKeeps, ReleaseReferenceKeeps DEF References
  <1>4. CASE ChangeRole
    BY <1>4, ActivateResetKeeps, FreezeKeeps, ThawKeeps, MoveKeeps, RecycleKeeps,
       RestoreRecycledKeeps DEF ChangeRole
  <1>5. CASE Replicas
    BY <1>5, DropDeviceKeeps, DropHostKeeps, SplitKeeps DEF Replicas
  <1>6. CASE Forks
    BY <1>6, BeginForkKeeps, CommitForkKeeps, AbortForkKeeps DEF Forks
  <1>7. CASE BeginTransfer
    BY <1>7, BeginDeviceToHostKeeps, BeginHostToDeviceKeeps, BeginHostForkKeeps
       DEF BeginTransfer
  <1>8. CASE EndTransfer
    <2>1. PICK h \in Images :
            \/ /\ TransferToHost(store, h)
               /\ \/ \E keep \in MayKeep(store, h) : store' = PublishDeviceToHost(store, h, keep)
                  \/ store' = AbortDeviceToHost(store, h)
            \/ /\ TransferToDevice(store, h)
               /\ \/ \E keep \in MayKeep(store, h) : store' = PublishHostToDevice(store, h, keep)
                  \/ store' = AbortHostToDevice(store, h)
            \/ \E k \in Images :
                  /\ TransferToFork(store, h, k)
                  /\ \/ store' = PublishHostFork(store, h, k)
                     \/ store' = AbortHostFork(store, h, k)
      BY <1>8 DEF EndTransfer
    <2>2. \A keep \in MayKeep(store, h) : keep = TRUE \/ (keep = FALSE /\ store.img[h].pins = 1)
      BY DEF MayKeep
    <2> QED
      BY <2>1, <2>2, PublishToHostKeepingKeeps, PublishToHostKeeps, AbortDeviceToHostKeeps,
         PublishToDeviceKeepingKeeps, PublishToDeviceKeeps, AbortHostToDeviceKeeps,
         PublishHostForkKeeps, AbortHostForkKeeps
  <1>9. CASE UNCHANGED store
    BY <1>9
  <1> QED
    BY <1>1, <1>2, <1>3, <1>4, <1>5, <1>6, <1>7, <1>8, <1>9 DEF StoreNext

(* A sound store is well typed and has the properties StateStore states.   *)
LEMMA SoundMeans ==
    ASSUME NEW s, Sound(s), store = s
    PROVE  StoreTypeOK /\ SlotsPartitioned /\ ImagesResident /\ ForkSourcesLive
  <1>1. /\ s \in Store
        /\ \A h \in Images : Shape(s.img[h])
    BY DEF Sound, Shapes
  <1>2. StoreTypeOK
    BY <1>1 DEF StoreTypeOK
  <1>3. SlotsPartitioned
    BY DEF Sound, Partitioned, SlotsPartitioned
  <1>4. ImagesResident
    BY <1>1 DEF Shape, ImagesResident
  <1>5. ForkSourcesLive
    BY DEF Sound, ForksLive, ForkSourcesLive
  <1> QED
    BY <1>2, <1>3, <1>4, <1>5

(* The inductive invariant: the store is sound in every behaviour of its   *)
(* methods, for every number of images and slots.                          *)
THEOREM StoreInvariant == StoreSpec => []SoundNow
  <1>1. StoreInit => SoundNow
    BY EmptySound DEF StoreInit, SoundNow
  <1> QED
    BY <1>1, StepKeeps, PTL DEF StoreSpec

(* No order of StateImageStore calls leaks a slot or lets two images own   *)
(* one, for every number of images and slots.                              *)
THEOREM SlotsNeverLeak == StoreSpec => []SlotsPartitioned
  <1>1. SoundNow => SlotsPartitioned
    BY SoundMeans DEF SoundNow
  <1> QED
    BY <1>1, StoreInvariant, PTL

(* No order of calls strands an image: a checkpoint always has a replica   *)
(* and a writable image a Device slot, arrived or on its way.              *)
THEOREM ImagesStayResident == StoreSpec => []ImagesResident
  <1>1. SoundNow => ImagesResident
    BY SoundMeans DEF SoundNow
  <1> QED
    BY <1>1, StoreInvariant, PTL

(* No order of calls takes from a pending fork the replica it reads.       *)
THEOREM ForksKeepTheirSource == StoreSpec => []ForkSourcesLive
  <1>1. SoundNow => ForkSourcesLive
    BY SoundMeans DEF SoundNow
  <1> QED
    BY <1>1, StoreInvariant, PTL

(* The store is sound under every order of its calls, for every number of  *)
(* images and slots: ContextState's transactions are one such order.       *)
THEOREM StoreIsSound == StoreSpec => []StoreSound
  <1>1. SlotsPartitioned /\ ImagesResident /\ ForkSourcesLive => StoreSound
    BY DEF StoreSound
  <1> QED
    BY <1>1, SlotsNeverLeak, ImagesStayResident, ForksKeepTheirSource, PTL

(* The store is well typed: no reference or pin count goes below zero.     *)
THEOREM StoreWellTyped == StoreSpec => []StoreTypeOK
  <1>1. SoundNow => StoreTypeOK
    BY SoundMeans DEF SoundNow
  <1> QED
    BY <1>1, StoreInvariant, PTL

(* The sequences of the catalogue.                                         *)
SeqRecord ==
    [role : {"Free", "Reserved", "Active", "Catalogued"},
     read : Images \cup {None}, write : Images \cup {None}, fork : BOOLEAN,
     own : {"Primary", "Lineage", "External"},
     rw : Images \cup {None}, rwf : Nat, pos : Nat, valid : BOOLEAN,
     refs : SUBSET SharedSlots,
     stage : {"idle", "prefill", "decode", "done", "cancelled"},
     fresh : BOOLEAN, offer : BOOLEAN]

(* The shared prefixes of the catalogue.                                   *)
PrefixRecord ==
    [role : {"Free", "Catalogued", "ReservedCapture", "ReservedReplacement"},
     img : Images \cup {None}, f : Nat, active : Nat]

(* Catalogue, shared prefixes and slot contents have their types.          *)
Typed(Q, SH, g) ==
    /\ Q \in [Conts -> SeqRecord]
    /\ SH \in [SharedSlots -> PrefixRecord]
    /\ g \in [Slots -> Nat]

\* every replica of h contains the state of frontier n
Holds(s, g, h, n) ==
    /\ s.img[h].dev # None => g[s.img[h].dev] = n
    /\ s.img[h].host # None => g[s.img[h].host] = n

\* a sequence without a binding; it may have a rewrite checkpoint
Headless(q) ==
    /\ q.role \in {"Free", "Reserved", "Catalogued"}
    /\ q.role # "Catalogued" => q.rw = None
    /\ q.read = None /\ q.write = None
    /\ ~q.fork /\ ~q.valid /\ q.own = "Primary"

\* a catalogued continuation with an endpoint
Endpoint(s, g, q) ==
    /\ q.role = "Catalogued" /\ q.read \in Images /\ q.write = q.read
    /\ ~q.fork /\ q.valid /\ q.own = "Primary"
    /\ Immutable(s.img[q.read]) /\ s.img[q.read].refs = 0
    /\ Holds(s, g, q.read, q.pos)

\* a lane that writes in place
Writer(s, g, q) ==
    /\ q.role = "Active" /\ q.read \in Images /\ q.write = q.read
    /\ ~q.fork /\ ~q.valid /\ q.own = "Primary"
    /\ s.img[q.read].role = "ActiveMutable" /\ s.img[q.read].from = None
    /\ g[s.img[q.read].dev] = q.pos

\* a lane that reads one image and writes another
Forker(s, g, q) ==
    /\ q.role = "Active" /\ q.read \in Images /\ q.write \in Images
    /\ q.read # q.write /\ q.fork /\ ~q.valid /\ q.stage # "done"
    /\ s.img[q.write].role = "ActiveMutable" /\ s.img[q.write].from = q.read
    /\ g[s.img[q.read].dev] = q.pos

(* A sequence is bound in one of the four ways the code knows, and the     *)
(* rewrite checkpoint it keeps is an immutable image that holds its        *)
(* frontier.                                                               *)
SeqOK(s, g, q) ==
    /\ Headless(q) \/ Endpoint(s, g, q) \/ Writer(s, g, q) \/ Forker(s, g, q)
    /\ q.rw # None => Immutable(s.img[q.rw]) /\ Holds(s, g, q.rw, q.rwf)

(* A shared slot is empty, or names an immutable image that holds the      *)
(* state at its frontier.                                                  *)
PrefixOK(s, g, p) ==
    \/ p.role \in {"Free", "ReservedCapture"} /\ p.img = None
    \/ /\ p.role \in {"Catalogued", "ReservedReplacement"} /\ p.img \in Images
       /\ Immutable(s.img[p.img]) /\ Holds(s, g, p.img, p.f)

\* the references of an image, by the rewrite checkpoints and the prefixes
NamedByRewrite(Q, h) == IF \E c \in Conts : Q[c].rw = h THEN 1 ELSE 0

(* The reference a shared prefix holds on an image.                        *)
NamedByPrefix(SH, h) == IF \E x \in SharedSlots : SH[x].img = h THEN 1 ELSE 0

(* An image is referenced exactly as often as the catalogue names it, is   *)
(* in use if it is not free, and has no transfer outstanding other than    *)
(* the fork of a lane.                                                     *)
ImageOK(s, Q, SH, h) ==
    LET o == s.img[h]
    IN  /\ o.refs = NamedByRewrite(Q, h) + NamedByPrefix(SH, h)
        /\ o.role # "Free" => o.refs # 0 \/ \E c \in Conts : h \in Owned(Q[c])
        /\ o.role # "ReservedDestination" /\ o.pdev = None /\ o.phost = None
        /\ o.pinned => o.from # None
        /\ o.from # None => \E c \in Conts : Q[c].fork /\ Q[c].write = h /\ Q[c].read = o.from
        /\ o.host # None => Immutable(o)

(* No two sequences own one image, share a rewrite checkpoint, and no two  *)
(* shared slots name one image.                                            *)
Distinct(Q, SH) ==
    /\ \A c, d \in Conts : c # d =>
          /\ \A h \in Images : ~(h \in Owned(Q[c]) /\ h \in Owned(Q[d]))
          /\ Q[c].rw = Q[d].rw => Q[c].rw = None
    /\ \A x, y \in SharedSlots : x # y => (SH[x].img = SH[y].img => SH[x].img = None)

\* whoever keeps the source of lane c's fork alive
Keeper(Q, SH, c) ==
    \/ Q[c].own # "External" /\ Q[c].rw = Q[c].read
    \/ \E x \in SharedSlots : SH[x].img = Q[c].read
    \/ /\ Q[c].own = "External"
       /\ \E w \in Conts : Q[w].role = "Catalogued" /\ Q[c].read \in {Q[w].read, Q[w].rw}

(* The source of every lane's fork is kept by someone.                     *)
ForksKept(Q, SH) == \A c \in Conts : Q[c].fork => Keeper(Q, SH, c)

(* The invariant of a store s, a catalogue Q, shared prefixes SH and slot  *)
(* contents g while no transaction is under way.                           *)
Consistent(s, Q, SH, g) ==
    /\ Sound(s) /\ Typed(Q, SH, g)
    /\ \A c \in Conts : SeqOK(s, g, Q[c])
    /\ \A x \in SharedSlots : PrefixOK(s, g, SH[x])
    /\ \A h \in Images : ImageOK(s, Q, SH, h)
    /\ Distinct(Q, SH) /\ ForksKept(Q, SH)

\* the stores differ at most at the images of S, the catalogues at most at c, at x
SameImages(s, r, S) == \A k \in Images \ S : r.img[k] = s.img[k]

(* Only sequence c may differ.                                             *)
SameSeqs(Q, R, c) == \A d \in Conts \ {c} : R[d] = Q[d]

(* Only shared slot x may differ.                                          *)
SamePrefixes(SH, SI, x) == \A y \in SharedSlots \ {x} : SI[y] = SH[y]

\* two images no reader of either can tell apart
Looks(o, p) == p.role = o.role /\ p.dev = o.dev /\ p.host = o.host /\ p.from = o.from

(* What a sequence needs of its images survives a change of their counts.  *)
LEMMA SeqFrame ==
    ASSUME NEW s, NEW r, NEW g, NEW q \in SeqRecord, SeqOK(s, g, q),
           \A k \in Images : k \in {q.read, q.write, q.rw} => Looks(s.img[k], r.img[k]),
           q.read \in Images /\ ~q.fork => r.img[q.read].refs = s.img[q.read].refs
    PROVE  SeqOK(r, g, q)
  <1>1. q.rw # None => Immutable(r.img[q.rw]) /\ Holds(r, g, q.rw, q.rwf)
    BY DEF SeqOK, SeqRecord, Looks, Immutable, Holds
  <1>2. Endpoint(s, g, q) => Endpoint(r, g, q)
    BY DEF Endpoint, Looks, Immutable, Holds
  <1>3. Writer(s, g, q) => Writer(r, g, q)
    BY DEF Writer, Looks
  <1>4. Forker(s, g, q) => Forker(r, g, q)
    BY DEF Forker, Looks
  <1> QED BY <1>1, <1>2, <1>3, <1>4 DEF SeqOK

(* The same of a shared prefix.                                            *)
LEMMA PrefixFrame ==
    ASSUME NEW s, NEW r, NEW g, NEW p, PrefixOK(s, g, p),
           p.img \in Images => Looks(s.img[p.img], r.img[p.img])
    PROVE  PrefixOK(r, g, p)
  BY DEF PrefixOK, Looks, Immutable, Holds

(* An endpoint and the image of an in-place writer belong to one sequence  *)
(* and no checkpoint names them.                                           *)
LEMMA OwnedAlone ==
    ASSUME NEW s, NEW Q, NEW SH, NEW g, Consistent(s, Q, SH, g), NEW c \in Conts,
           Endpoint(s, g, Q[c]) \/ Writer(s, g, Q[c])
    PROVE  /\ Q[c].read \in Images
           /\ s.img[Q[c].read].refs = 0 /\ s.img[Q[c].read].from = None
           /\ \A d \in Conts : Q[d].rw # Q[c].read
           /\ \A x \in SharedSlots : SH[x].img # Q[c].read
           /\ Q[c].read \in Owned(Q[c])
           /\ \A d \in Conts : d # c => Q[c].read \notin Owned(Q[d])
  <1> DEFINE h == Q[c].read
  <1>h. h \in Images /\ h \in Owned(Q[c])
    BY DEF Endpoint, Writer, Owned
  <1>1. s.img[h].refs = 0 /\ s.img[h].from = None
    BY <1>h DEF Consistent, Sound, Shapes, Shape, Immutable, Endpoint, Writer
  <1>2. NamedByRewrite(Q, h) = 0 /\ NamedByPrefix(SH, h) = 0
    BY <1>h, <1>1 DEF Consistent, ImageOK, NamedByRewrite, NamedByPrefix
  <1>3. \A d \in Conts : d # c => h \notin Owned(Q[d])
    BY <1>h DEF Consistent, Distinct
  <1> QED BY <1>h, <1>1, <1>2, <1>3 DEF NamedByRewrite, NamedByPrefix

(* An image without pins is read by no fork.                               *)
LEMMA NotRead ==
    ASSUME NEW s, NEW Q, NEW SH, NEW g, Consistent(s, Q, SH, g), NEW h \in Images,
           s.img[h].pins = 0
    PROVE  /\ \A k \in Images : s.img[k].from # h
           /\ \A d \in Conts : Q[d].fork => Q[d].read # h
  <1>1. s.img[h].pins = OwnPin(s.img[h])
    BY DEF Consistent, ImageOK, OwnPin, HasPending
  <1>2. \A k \in Images : s.img[k].from # h
    BY <1>1, NoReader DEF Consistent
  <1>3. ASSUME NEW d \in Conts, Q[d].fork PROVE Q[d].read # h
    <2>1. Forker(s, g, Q[d])
      BY <1>3, SMTT(40) DEF Consistent, SeqOK, Headless, Endpoint, Writer
    <2> QED BY <1>2, <2>1 DEF Forker
  <1> QED BY <1>2, <1>3

(* The images of a sequence are images.                                    *)
LEMMA SeqTypes ==
    ASSUME NEW s, NEW Q, NEW SH, NEW g, Consistent(s, Q, SH, g), NEW d \in Conts
    PROVE  /\ Q[d] \in SeqRecord /\ SeqOK(s, g, Q[d])
           /\ Q[d].fork => Forker(s, g, Q[d]) /\ Keeper(Q, SH, d)
  <1>1. Q[d] \in SeqRecord /\ SeqOK(s, g, Q[d])
    BY DEF Consistent, Typed
  <1> QED BY <1>1 DEF SeqOK, Headless, Endpoint, Writer, Consistent, ForksKept

(* An owned image that no fork reads is released: the sequence is left     *)
(* without a binding.                                                      *)
LEMMA DropEndpoint ==
    ASSUME NEW s, NEW r, NEW Q, NEW R, NEW SH, NEW g, NEW c \in Conts,
           Consistent(s, Q, SH, g), Sound(r), Typed(R, SH, g),
           Endpoint(s, g, Q[c]) \/ Writer(s, g, Q[c]), s.img[Q[c].read].pins = 0,
           SameImages(s, r, {Q[c].read}), r.img[Q[c].read] = NewObject("Free"),
           SameSeqs(Q, R, c), Headless(R[c]), R[c].rw = Q[c].rw, R[c].rwf = Q[c].rwf
    PROVE  Consistent(r, R, SH, g)
  <1> DEFINE h == Q[c].read
  <1>q. \A d \in Conts : d # c => R[d] = Q[d]
    BY DEF SameSeqs
  <1>i. \A k \in Images : k # h => r.img[k] = s.img[k]
    BY DEF SameImages
  <1>t. None \notin Images
    BY StoreAssumption
  <1>o. /\ h \in Images /\ s.img[h].refs = 0
        /\ \A d \in Conts : Q[d].rw # h
        /\ \A x \in SharedSlots : SH[x].img # h
        /\ \A d \in Conts : d # c => h \notin Owned(Q[d])
    BY OwnedAlone
  <1>n. /\ \A k \in Images : s.img[k].from # h
        /\ \A d \in Conts : Q[d].fork => Q[d].read # h
    BY <1>o, NotRead
  <1>1. \A d \in Conts : SeqOK(r, g, R[d])
    <2> SUFFICES ASSUME NEW d \in Conts PROVE SeqOK(r, g, R[d])
      OBVIOUS
    <2>1. Q[d] \in SeqRecord /\ SeqOK(s, g, Q[d])
      BY SeqTypes
    <2>2. CASE d = c
      BY <2>1, <2>2, <1>i, <1>o, SMTT(40) DEF SeqOK, Holds, SeqRecord
    <2>3. CASE d # c
      <3>1. h \notin {Q[d].read, Q[d].write, Q[d].rw}
        BY <2>1, <2>3, <1>o, <1>n, <1>t DEF SeqOK, Headless, Endpoint, Writer, Forker, Owned
      <3>2. SeqOK(r, g, Q[d])
        BY <2>1, <3>1, <1>i, SeqFrame DEF Looks
      <3> QED BY <2>3, <3>2, <1>q, SMTT(40)
    <2> QED BY <2>2, <2>3
  <1>2. \A x \in SharedSlots : PrefixOK(r, g, SH[x])
    BY <1>i, <1>o DEF Consistent, PrefixOK, Holds
  <1>3. \A k \in Images : ImageOK(r, R, SH, k)
    <2> SUFFICES ASSUME NEW k \in Images PROVE ImageOK(r, R, SH, k)
      OBVIOUS
    <2>1. NamedByRewrite(R, k) = NamedByRewrite(Q, k)
      BY <1>q DEF NamedByRewrite
    <2>2. CASE k = h
      BY <2>1, <2>2, <1>o DEF ImageOK, NewObject, NamedByRewrite, NamedByPrefix
    <2>3. CASE k # h
      <3>1. ImageOK(s, Q, SH, k) /\ r.img[k] = s.img[k]
        BY <1>i, <2>3 DEF Consistent
      <3>2. \A d \in Conts : k \in Owned(Q[d]) => k \in Owned(R[d])
        BY <1>q, <2>3 DEF Owned, Endpoint, Writer
      <3>3. \A d \in Conts : Q[d].fork => R[d] = Q[d]
        BY <1>q DEF Endpoint, Writer
      <3> QED BY <2>1, <3>1, <3>2, <3>3 DEF ImageOK
    <2> QED BY <2>2, <2>3
  <1>4. Distinct(R, SH)
    <2>1. \A d \in Conts : /\ R[d].rw = Q[d].rw
                          /\ \A k \in Images : k \in Owned(R[d]) => k \in Owned(Q[d])
      BY <1>q, <1>t DEF Owned, Headless
    <2> QED BY <2>1 DEF Consistent, Distinct
  <1>5. ForksKept(R, SH)
    <2> SUFFICES ASSUME NEW d \in Conts, R[d].fork PROVE Keeper(R, SH, d)
      BY DEF ForksKept
    <2>1. d # c /\ R[d] = Q[d]
      BY <1>q DEF Headless
    <2>2. Keeper(Q, SH, d) /\ Q[d].read # h /\ Q[d].read \in Images
      BY <2>1, <1>n, SeqTypes DEF Forker
    <2>3. CASE Q[d].own = "External" /\ Q[c].role = "Catalogued" /\ Q[d].read \in {Q[c].read, Q[c].rw}
      <3>1. R[c].role = "Catalogued" /\ R[d].read = R[c].rw
        BY <2>1, <2>2, <2>3, <1>t DEF Headless
      <3> QED BY <2>1, <2>3, <3>1 DEF Keeper
    <2> QED BY <2>1, <2>2, <2>3, <1>q DEF Keeper
  <1> QED BY <1>1, <1>2, <1>3, <1>4, <1>5 DEF Consistent

\* q and p have the same images; only an unbound sequence changes its role
SameBinding(q, p) ==
    /\ p.read = q.read /\ p.write = q.write /\ p.rw = q.rw
    /\ q.rw # None => p.rwf = q.rwf
    /\ p.fork = q.fork /\ p.own = q.own /\ p.valid = q.valid
    /\ p.fork => p.stage # "done"
    /\ (p.role = q.role /\ p.pos = q.pos) \/ (Headless(q) /\ Headless(p))

(* The prefix names the same image at the same frontier.                   *)
SamePrefix(q, p) ==
    /\ p.img = q.img /\ p.f = q.f
    /\ (p.role \in {"Free", "ReservedCapture"}) <=> (q.role \in {"Free", "ReservedCapture"})

\* g and f agree on the slots whose contents somebody counts on
SameContents(s, g, f) ==
    \A h \in Images : /\ s.img[h].dev # None /\ s.img[h].from = None =>
                            f[s.img[h].dev] = g[s.img[h].dev]
                      /\ s.img[h].host # None => f[s.img[h].host] = g[s.img[h].host]

(* Stages, roles of unbound sequences, borrow counts and the contents of   *)
(* slots nobody reads change freely.                                       *)
LEMMA Restate ==
    ASSUME NEW s, NEW Q, NEW R, NEW SH, NEW SI, NEW g, NEW f,
           Consistent(s, Q, SH, g), Typed(R, SI, f), SameContents(s, g, f),
           \A d \in Conts : SameBinding(Q[d], R[d]),
           \A x \in SharedSlots : SamePrefix(SH[x], SI[x])
    PROVE  Consistent(s, R, SI, f)
  <1>t. None \notin Images
    BY StoreAssumption
  <1>f. \A h \in Images : Immutable(s.img[h]) => s.img[h].from = None
    BY DEF Consistent, Sound, Shapes, Shape, Immutable
  <1>h. \A h \in Images, n \in Nat : Immutable(s.img[h]) /\ Holds(s, g, h, n) => Holds(s, f, h, n)
    BY <1>f DEF Holds, SameContents
  <1>1. \A d \in Conts : SeqOK(s, f, R[d])
    <2> SUFFICES ASSUME NEW d \in Conts PROVE SeqOK(s, f, R[d])
      OBVIOUS
    <2> DEFINE q == Q[d]
               p == R[d]
    <2>1. q \in SeqRecord /\ SeqOK(s, g, q) /\ SameBinding(q, p) /\ p \in SeqRecord
      BY SeqTypes DEF Typed
    <2> HIDE DEF p, q
    <2>2. p.rw # None => Immutable(s.img[p.rw]) /\ Holds(s, f, p.rw, p.rwf)
      BY <2>1, <1>h DEF SeqOK, SameBinding, SeqRecord
    <2>3. Headless(q) => Headless(p)
      BY <2>1 DEF Headless, SameBinding
    <2>4. Endpoint(s, g, q) => Endpoint(s, f, p)
      BY <2>1, <1>h, <1>t DEF Endpoint, SameBinding, Headless, SeqRecord
    <2>5. Writer(s, g, q) => Writer(s, f, p)
      <3> SUFFICES ASSUME Writer(s, g, q) PROVE Writer(s, f, p)
        OBVIOUS
      <3>1. s.img[q.read].dev # None
        BY DEF Writer, Consistent, Sound, Shapes, Shape, ImageOK
      <3> QED BY <2>1, <3>1, <1>t DEF Writer, SameBinding, Headless, SameContents
    <2>6. Forker(s, g, q) => Forker(s, f, p)
      <3> SUFFICES ASSUME Forker(s, g, q) PROVE Forker(s, f, p)
        OBVIOUS
      <3>1. s.img[q.write].pdev = None /\ s.img[q.write].from # None
        BY <1>t DEF Forker, Consistent, ImageOK
      <3>2. s.img[q.read].dev # None /\ Immutable(s.img[q.read])
        BY <3>1 DEF Forker, Consistent, Sound, ForksLive
      <3> QED BY <2>1, <3>2, <1>t, <1>f DEF Forker, SameBinding, Headless, SameContents
    <2>7. Headless(p) \/ Endpoint(s, f, p) \/ Writer(s, f, p) \/ Forker(s, f, p)
      BY <2>1, <2>3, <2>4, <2>5, <2>6 DEF SeqOK
    <2> QED BY <2>2, <2>7 DEF SeqOK, p
  <1>2. \A x \in SharedSlots : PrefixOK(s, f, SI[x])
    <2> SUFFICES ASSUME NEW x \in SharedSlots PROVE PrefixOK(s, f, SI[x])
      OBVIOUS
    <2>1. PrefixOK(s, g, SH[x]) /\ SamePrefix(SH[x], SI[x])
      BY DEF Consistent
    <2>2. SI[x].role \in {"Free", "Catalogued", "ReservedCapture", "ReservedReplacement"} /\ SI[x].f \in Nat
      BY DEF Typed, PrefixRecord
    <2> QED BY <2>1, <2>2, <1>h DEF PrefixOK, SamePrefix
  <1>o. \A d \in Conts : Owned(R[d]) = Owned(Q[d]) /\ R[d].rw = Q[d].rw
    BY DEF SameBinding, Owned, OwnsRead
  <1>x. \A x \in SharedSlots : SI[x].img = SH[x].img
    BY DEF SamePrefix
  <1>3. \A k \in Images : ImageOK(s, R, SI, k)
    <2> SUFFICES ASSUME NEW k \in Images PROVE ImageOK(s, R, SI, k)
      OBVIOUS
    <2>1. NamedByRewrite(R, k) = NamedByRewrite(Q, k) /\ NamedByPrefix(SI, k) = NamedByPrefix(SH, k)
      BY <1>o, <1>x DEF NamedByRewrite, NamedByPrefix
    <2>2. \A d \in Conts : R[d].fork = Q[d].fork /\ R[d].write = Q[d].write /\ R[d].read = Q[d].read
      BY DEF SameBinding
    <2>3. ImageOK(s, Q, SH, k)
      BY DEF Consistent
    <2> QED BY <2>1, <2>2, <2>3, <1>o DEF ImageOK
  <1>4. Distinct(R, SI)
    BY <1>o, <1>x DEF Consistent, Distinct
  <1>5. ForksKept(R, SI)
    <2> SUFFICES ASSUME NEW d \in Conts, R[d].fork PROVE Keeper(R, SI, d)
      BY DEF ForksKept
    <2>1. SameBinding(Q[d], R[d]) /\ Q[d].fork
      BY DEF SameBinding
    <2>2. Keeper(Q, SH, d) /\ Q[d].read \in Images
      BY <2>1, SeqTypes DEF Forker
    <2>3. ASSUME NEW w \in Conts, Q[w].role = "Catalogued", Q[d].read \in {Q[w].read, Q[w].rw}
          PROVE  R[w].role = "Catalogued" /\ R[d].read \in {R[w].read, R[w].rw}
      BY <2>1, <2>2, <2>3, <1>t DEF SameBinding, Headless
    <2> QED BY <2>1, <2>2, <2>3, <1>x DEF Keeper, SameBinding
  <1>s. Sound(s)
    BY DEF Consistent
  <1> QED BY <1>s, <1>1, <1>2, <1>3, <1>4, <1>5 DEF Consistent

(* An image that no fork reads gains or loses a replica.                   *)
LEMMA ReplicaChange ==
    ASSUME NEW s, NEW r, NEW Q, NEW SH, NEW g, NEW h \in Images,
           Consistent(s, Q, SH, g), Sound(r), SameImages(s, r, {h}),
           Immutable(s.img[h]), s.img[h].pins = 0,
           Immutable(r.img[h]), r.img[h].refs = s.img[h].refs, r.img[h].from = None,
           ~r.img[h].pinned, r.img[h].pdev = None, r.img[h].phost = None,
           \A n \in Nat : Holds(s, g, h, n) => Holds(r, g, h, n)
    PROVE  Consistent(r, Q, SH, g)
  <1>i. \A k \in Images : k # h => r.img[k] = s.img[k]
    BY DEF SameImages
  <1>t. None \notin Images
    BY StoreAssumption
  <1>n. \A d \in Conts : Q[d].fork => Q[d].read # h
    BY NotRead
  <1>1. \A d \in Conts : SeqOK(r, g, Q[d])
    <2> SUFFICES ASSUME NEW d \in Conts PROVE SeqOK(r, g, Q[d])
      OBVIOUS
    <2> DEFINE q == Q[d]
    <2>1. q \in SeqRecord /\ SeqOK(s, g, q) /\ (q.fork => q.read # h)
      BY SeqTypes, <1>n
    <2> HIDE DEF q
    <2>2. q.rw # None => Immutable(r.img[q.rw]) /\ Holds(r, g, q.rw, q.rwf)
      BY <2>1, <1>i DEF SeqOK, SeqRecord, Holds
    <2>3. Endpoint(s, g, q) => Endpoint(r, g, q)
      BY <2>1, <1>i DEF Endpoint, SeqRecord, Holds
    <2>4. Writer(s, g, q) => Writer(r, g, q)
      BY <2>1, <1>i DEF Writer, Immutable
    <2>5. Forker(s, g, q) => Forker(r, g, q)
      BY <2>1, <1>i DEF Forker, Immutable
    <2>6. SeqOK(r, g, q)
      BY <2>1, <2>2, <2>3, <2>4, <2>5, SMTT(40) DEF SeqOK
    <2> QED BY <2>6 DEF q
  <1>2. \A x \in SharedSlots : PrefixOK(r, g, SH[x])
    <2> SUFFICES ASSUME NEW x \in SharedSlots PROVE PrefixOK(r, g, SH[x])
      OBVIOUS
    <2>1. PrefixOK(s, g, SH[x]) /\ SH[x].f \in Nat
      BY DEF Consistent, Typed, PrefixRecord
    <2> QED BY <2>1, <1>i DEF PrefixOK, Holds
  <1>3. \A k \in Images : ImageOK(r, Q, SH, k)
    <2> SUFFICES ASSUME NEW k \in Images PROVE ImageOK(r, Q, SH, k)
      OBVIOUS
    <2>1. ImageOK(s, Q, SH, k)
      BY DEF Consistent
    <2> QED BY <2>1, <1>i DEF ImageOK, Immutable
  <1> QED BY <1>1, <1>2, <1>3 DEF Consistent

(* The image of a lane that writes in place becomes its endpoint.          *)
LEMMA FreezeLane ==
    ASSUME NEW s, NEW r, NEW Q, NEW R, NEW SH, NEW g, NEW c \in Conts,
           Consistent(s, Q, SH, g), Sound(r), Typed(R, SH, g),
           Writer(s, g, Q[c]), SameImages(s, r, {Q[c].read}),
           r.img[Q[c].read] = [s.img[Q[c].read] EXCEPT !.role = "CheckpointImmutable"],
           SameSeqs(Q, R, c), R[c].role = "Catalogued", R[c].valid, ~R[c].fork,
           R[c].own = "Primary", R[c].read = Q[c].read, R[c].write = Q[c].read,
           R[c].pos = Q[c].pos, R[c].rw = Q[c].rw, R[c].rwf = Q[c].rwf
    PROVE  Consistent(r, R, SH, g)
  <1> DEFINE h == Q[c].read
             o == s.img[h]
  <1>q. \A d \in Conts : d # c => R[d] = Q[d]
    BY DEF SameSeqs
  <1>i. \A k \in Images : k # h => r.img[k] = s.img[k]
    BY DEF SameImages
  <1>t. None \notin Images
    BY StoreAssumption
  <1>o. /\ h \in Images /\ o.refs = 0 /\ o.from = None
        /\ \A d \in Conts : Q[d].rw # h
        /\ \A x \in SharedSlots : SH[x].img # h
        /\ \A d \in Conts : d # c => h \notin Owned(Q[d])
    BY OwnedAlone, SMTT(40)
  <1>m. /\ o \in Image /\ o.role = "ActiveMutable" /\ o.pins = 0 /\ o.host = None
        /\ ~o.pinned /\ o.pdev = None /\ o.phost = None
    BY <1>o DEF Consistent, Sound, Store, Shapes, Shape, ImageOK, Immutable, Writer
  <1>n. \A d \in Conts : Q[d].fork => Q[d].read # h
    BY <1>o, <1>m, NotRead
  <1>p. /\ Immutable(r.img[h]) /\ r.img[h].refs = 0 /\ r.img[h].dev = o.dev /\ r.img[h].host = None
        /\ r.img[h].from = None /\ r.img[h].pdev = None /\ r.img[h].phost = None /\ ~r.img[h].pinned
    BY <1>o, <1>m DEF Image, Immutable
  <1>g. g[r.img[h].dev] = R[c].pos /\ h \in Owned(R[c])
    BY <1>p DEF Writer, Owned
  <1> HIDE DEF o
  <1>1. \A d \in Conts : SeqOK(r, g, R[d])
    <2> SUFFICES ASSUME NEW d \in Conts PROVE SeqOK(r, g, R[d])
      OBVIOUS
    <2>1. Q[d] \in SeqRecord /\ SeqOK(s, g, Q[d])
      BY SeqTypes
    <2>2. CASE d = c
      <3>1. Endpoint(r, g, R[c])
        BY <1>o, <1>p, <1>g DEF Endpoint, Holds
      <3>2. R[c].rw # None => Immutable(r.img[R[c].rw]) /\ Holds(r, g, R[c].rw, R[c].rwf)
        BY <2>1, <2>2, <1>i, <1>o DEF SeqOK, Holds, SeqRecord
      <3> QED BY <2>2, <3>1, <3>2 DEF SeqOK
    <2>3. CASE d # c
      <3>1. h \notin {Q[d].read, Q[d].write, Q[d].rw}
        BY <2>1, <2>3, <1>o, <1>n, <1>t DEF SeqOK, Headless, Endpoint, Writer, Forker, Owned
      <3>2. SeqOK(r, g, Q[d])
        BY <2>1, <3>1, <1>i, SeqFrame, SMTT(40) DEF Looks
      <3> QED BY <2>3, <3>2, <1>q, SMTT(40)
    <2> QED BY <2>2, <2>3
  <1>2. \A x \in SharedSlots : PrefixOK(r, g, SH[x])
    BY <1>i, <1>o DEF Consistent, PrefixOK, Holds
  <1>3. \A k \in Images : ImageOK(r, R, SH, k)
    <2> SUFFICES ASSUME NEW k \in Images PROVE ImageOK(r, R, SH, k)
      OBVIOUS
    <2>1. NamedByRewrite(R, k) = NamedByRewrite(Q, k)
      BY <1>q DEF NamedByRewrite
    <2>2. \A d \in Conts : k \in Owned(Q[d]) => k \in Owned(R[d])
      BY <1>q DEF Owned, Writer, OwnsRead
    <2>3. \A d \in Conts : Q[d].fork => R[d] = Q[d]
      BY <1>q DEF Writer
    <2>4. ImageOK(s, Q, SH, k)
      BY DEF Consistent
    <2>5. CASE k = h
      <3>1. NamedByRewrite(R, h) = 0 /\ NamedByPrefix(SH, h) = 0
        BY <2>1, <2>5, <1>o DEF NamedByRewrite, NamedByPrefix
      <3>2. r.img[h].refs = NamedByRewrite(R, h) + NamedByPrefix(SH, h)
        BY <3>1, <1>p
      <3>3. r.img[h].role # "ReservedDestination"
        BY <1>p DEF Immutable
      <3> HIDE DEF h
      <3>4. ImageOK(r, R, SH, h)
        BY <3>2, <3>3, <1>p, <1>g DEF ImageOK
      <3> QED BY <2>5, <3>4
    <2>6. CASE k # h
      BY <2>1, <2>2, <2>3, <2>4, <2>6, <1>i DEF ImageOK
    <2> QED BY <2>5, <2>6
  <1>4. Distinct(R, SH)
    <2>1. \A d \in Conts : R[d].rw = Q[d].rw /\ Owned(R[d]) = Owned(Q[d])
      BY <1>q DEF Owned, OwnsRead, Writer
    <2> QED BY <2>1 DEF Consistent, Distinct
  <1>5. ForksKept(R, SH)
    <2> SUFFICES ASSUME NEW d \in Conts, R[d].fork PROVE Keeper(R, SH, d)
      BY DEF ForksKept
    <2>1. d # c /\ R[d] = Q[d]
      BY <1>q
    <2>2. Keeper(Q, SH, d)
      BY <2>1, SeqTypes
    <2>3. Q[c].role # "Catalogued"
      BY DEF Writer
    <2> QED BY <2>1, <2>2, <2>3, <1>q DEF Keeper
  <1> QED BY <1>1, <1>2, <1>3, <1>4, <1>5 DEF Consistent

(* No lane has a fork to settle.                                           *)
NoForks(Q) == \A c \in Conts : ~Q[c].fork

(* The endpoint of a consumed continuation becomes the image of its lane.  *)
LEMMA ThawEndpoint ==
    ASSUME NEW s, NEW r, NEW Q, NEW R, NEW SH, NEW g, NEW c \in Conts,
           Consistent(s, Q, SH, g), Sound(r), Typed(R, SH, g), NoForks(Q),
           Endpoint(s, g, Q[c]), s.img[Q[c].read].pins = 0, s.img[Q[c].read].host = None,
           SameImages(s, r, {Q[c].read}),
           r.img[Q[c].read] = [s.img[Q[c].read] EXCEPT !.role = "ActiveMutable"],
           SameSeqs(Q, R, c), R[c].role = "Active", ~R[c].valid, ~R[c].fork,
           R[c].own = "Primary", R[c].read = Q[c].read, R[c].write = Q[c].read,
           R[c].pos = Q[c].pos, R[c].rw = Q[c].rw, R[c].rwf = Q[c].rwf
    PROVE  Consistent(r, R, SH, g)
  <1> DEFINE h == Q[c].read
             o == s.img[h]
  <1>q. \A d \in Conts : d # c => R[d] = Q[d]
    BY DEF SameSeqs
  <1>i. \A k \in Images : k # h => r.img[k] = s.img[k]
    BY DEF SameImages
  <1>t. None \notin Images
    BY StoreAssumption
  <1>o. /\ h \in Images /\ o.refs = 0 /\ o.from = None
        /\ \A d \in Conts : Q[d].rw # h
        /\ \A x \in SharedSlots : SH[x].img # h
        /\ \A d \in Conts : d # c => h \notin Owned(Q[d])
    BY OwnedAlone
  <1>m. /\ o \in Image /\ ~o.pinned /\ o.pdev = None /\ o.phost = None
    BY <1>o DEF Consistent, Sound, Store, ImageOK
  <1>p. /\ r.img[h].role = "ActiveMutable" /\ r.img[h].refs = 0 /\ r.img[h].dev = o.dev
        /\ r.img[h].host = None
        /\ r.img[h].from = None /\ r.img[h].pdev = None /\ r.img[h].phost = None /\ ~r.img[h].pinned
    BY <1>o, <1>m DEF Image
  <1>v. r.img[h].dev # None
    BY <1>o, <1>p DEF Sound, Shapes, Shape
  <1>g. g[r.img[h].dev] = R[c].pos /\ h \in Owned(R[c])
    BY <1>p, <1>v DEF Endpoint, Owned, Holds
  <1>e. R[c].read = h /\ R[c].write = h
    OBVIOUS
  <1> HIDE DEF o, h
  <1>1. \A d \in Conts : SeqOK(r, g, R[d])
    <2> SUFFICES ASSUME NEW d \in Conts PROVE SeqOK(r, g, R[d])
      OBVIOUS
    <2>1. Q[d] \in SeqRecord /\ SeqOK(s, g, Q[d])
      BY SeqTypes
    <2>2. CASE d = c
      <3>1. Writer(r, g, R[c])
        BY <1>o, <1>p, <1>g, <1>e DEF Writer
      <3>2. R[c].rw # None => Immutable(r.img[R[c].rw]) /\ Holds(r, g, R[c].rw, R[c].rwf)
        BY <2>1, <2>2, <1>i, <1>o DEF SeqOK, Holds, SeqRecord
      <3> QED BY <2>2, <3>1, <3>2 DEF SeqOK
    <2>3. CASE d # c
      <3>1. h \notin {Q[d].read, Q[d].write, Q[d].rw}
        BY <2>1, <2>3, <1>o, <1>t DEF SeqOK, Headless, Endpoint, Writer, Forker, Owned, NoForks
      <3>2. SeqOK(r, g, Q[d])
        BY <2>1, <3>1, <1>i, SeqFrame, SMTT(40) DEF Looks
      <3> QED BY <2>3, <3>2, <1>q, SMTT(40)
    <2> QED BY <2>2, <2>3
  <1>2. \A x \in SharedSlots : PrefixOK(r, g, SH[x])
    BY <1>i, <1>o DEF Consistent, PrefixOK, Holds
  <1>4. \A d \in Conts : R[d].rw = Q[d].rw /\ Owned(R[d]) = Owned(Q[d])
    BY <1>q DEF Owned, OwnsRead, Endpoint
  <1>3. \A k \in Images : ImageOK(r, R, SH, k)
    <2> SUFFICES ASSUME NEW k \in Images PROVE ImageOK(r, R, SH, k)
      OBVIOUS
    <2>1. NamedByRewrite(R, k) = NamedByRewrite(Q, k)
      BY <1>4 DEF NamedByRewrite
    <2>2. ImageOK(s, Q, SH, k)
      BY DEF Consistent
    <2>3. CASE k = h
      <3>1. NamedByRewrite(Q, h) = 0 /\ NamedByPrefix(SH, h) = 0
        BY <1>o DEF NamedByRewrite, NamedByPrefix
      <3>2. r.img[h].refs = NamedByRewrite(R, h) + NamedByPrefix(SH, h)
        BY <3>1, <2>1, <2>3, <1>p
      <3>3. ImageOK(r, R, SH, h)
        BY <3>2, <1>p, <1>g DEF ImageOK
      <3> QED BY <2>3, <3>3
    <2>4. CASE k # h
      BY <2>1, <2>2, <2>4, <1>i, <1>4 DEF ImageOK, NoForks
    <2> QED BY <2>3, <2>4
  <1>5. Distinct(R, SH)
    BY <1>4 DEF Consistent, Distinct
  <1>6. ForksKept(R, SH)
    BY <1>q DEF ForksKept, NoForks
  <1> QED BY <1>1, <1>2, <1>3, <1>5, <1>6 DEF Consistent

\* one reference to an image less: with the last one the image goes
Unnamed(o, p) == IF o.refs = 1 THEN p = NewObject("Free")
                              ELSE p = [o EXCEPT !.refs = o.refs - 1]

(* A sequence gives up its rewrite checkpoint.                             *)
LEMMA DropRewrite ==
    ASSUME NEW s, NEW r, NEW Q, NEW R, NEW SH, NEW g, NEW c \in Conts,
           Consistent(s, Q, SH, g), Sound(r), Typed(R, SH, g),
           Q[c].rw # None, ~Q[c].fork,
           s.img[Q[c].rw].refs = 1 => s.img[Q[c].rw].pins = 0,
           SameImages(s, r, {Q[c].rw}), Unnamed(s.img[Q[c].rw], r.img[Q[c].rw]),
           SameSeqs(Q, R, c), R[c].rw = None,
           R[c].role = Q[c].role, R[c].valid = Q[c].valid, ~R[c].fork,
           R[c].own = Q[c].own, R[c].read = Q[c].read, R[c].write = Q[c].write,
           R[c].pos = Q[c].pos \/ Headless(Q[c])
    PROVE  Consistent(r, R, SH, g)
  <1> DEFINE h == Q[c].rw
             o == s.img[h]
             p == r.img[h]
  <1>q. \A d \in Conts : d # c => R[d] = Q[d]
    BY DEF SameSeqs
  <1>i. \A k \in Images : k # h => r.img[k] = s.img[k]
    BY DEF SameImages
  <1>t. None \notin Images
    BY StoreAssumption
  <1>c. Q[c] \in SeqRecord /\ SeqOK(s, g, Q[c])
    BY SeqTypes
  <1>h. h \in Images /\ h # None
    BY <1>c DEF SeqRecord
  <1>o. ImageOK(s, Q, SH, h) /\ o \in Image /\ Immutable(o) /\ Shape(o)
    BY <1>h, <1>c DEF Consistent, Sound, Shapes, Store, SeqOK
  <1>d. \A d \in Conts : d # c => Q[d].rw # h
    BY <1>h, SMTT(40) DEF Consistent, Distinct
  <1>a. o.refs # 0 /\ o.refs \in {1, 2} /\ (o.refs = 2 => \E x \in SharedSlots : SH[x].img = h)
        /\ (o.refs = 1 => \A x \in SharedSlots : SH[x].img # h)
    BY <1>o DEF ImageOK, NamedByRewrite, NamedByPrefix
  <1>z. \A d \in Conts : Q[d].read = h /\ ~Q[d].fork => ~(Endpoint(s, g, Q[d]) \/ Writer(s, g, Q[d]))
    BY <1>a, <1>o DEF Endpoint, Writer, Immutable
  <1>n. o.refs = 1 => \A d \in Conts : Q[d].fork => Q[d].read # h
    BY <1>h, NotRead
  <1>p. o.refs = 2 => /\ Looks(o, p) /\ p.refs = 1 /\ p.pinned = o.pinned
                      /\ p.pdev = o.pdev /\ p.phost = o.phost
    BY <1>o, <1>a DEF Image, Looks, Unnamed
  <1>f. o.refs = 1 => p = NewObject("Free")
    BY SMTT(40) DEF Unnamed
  <1> HIDE DEF h, o, p
  <1>u. \A d \in Conts : o.refs = 1 /\ d # c => h \notin {Q[d].read, Q[d].write, Q[d].rw}
    <2> SUFFICES ASSUME NEW d \in Conts, o.refs = 1, d # c
                 PROVE  h \notin {Q[d].read, Q[d].write, Q[d].rw}
      OBVIOUS
    <2>1. SeqOK(s, g, Q[d])
      BY SeqTypes
    <2>2. Forker(s, g, Q[d]) => Q[d].write # h
      BY <1>o DEF Forker, Immutable, o
    <2> QED BY <2>1, <2>2, <1>d, <1>n, <1>z, <1>h, Zenon DEF SeqOK, Headless, Endpoint, Writer, Forker
  <1>1. \A d \in Conts : SeqOK(r, g, R[d])
    <2> SUFFICES ASSUME NEW d \in Conts PROVE SeqOK(r, g, R[d])
      OBVIOUS
    <2>1. Q[d] \in SeqRecord /\ SeqOK(s, g, Q[d])
      BY SeqTypes
    <2>2. CASE d = c
      <3>1. Q[c].read # h
        BY <1>z, <1>h, <1>c DEF SeqOK, Headless, Forker
      <3>2. Headless(Q[c]) => Headless(R[c])
        BY DEF Headless
      <3>3. Endpoint(s, g, Q[c]) => Endpoint(r, g, R[c])
        BY <3>1, <1>i, <1>t DEF Endpoint, Holds, Headless
      <3>4. Writer(s, g, Q[c]) => Writer(r, g, R[c])
        BY <3>1, <1>i, <1>t DEF Writer, Headless
      <3> QED BY <2>2, <3>2, <3>3, <3>4, <1>c DEF SeqOK, Forker
    <2>3. CASE d # c
      <3>1. \A k \in Images : k \in {Q[d].read, Q[d].write, Q[d].rw} => Looks(s.img[k], r.img[k])
        BY <2>3, <1>u, <1>p, <1>i, <1>a DEF Looks, o, p
      <3>2. Q[d].read \in Images /\ ~Q[d].fork => r.img[Q[d].read].refs = s.img[Q[d].read].refs
        BY <2>1, <1>i, <1>z, <1>t DEF SeqOK, Headless, Forker
      <3>3. SeqOK(r, g, Q[d])
        BY <2>1, <3>1, <3>2, SeqFrame
      <3> QED BY <2>3, <3>3, <1>q
    <2> QED BY <2>2, <2>3
  <1>2. \A x \in SharedSlots : PrefixOK(r, g, SH[x])
    <2> SUFFICES ASSUME NEW x \in SharedSlots PROVE PrefixOK(r, g, SH[x])
      OBVIOUS
    <2>1. PrefixOK(s, g, SH[x])
      BY DEF Consistent
    <2>2. SH[x].img \in Images => Looks(s.img[SH[x].img], r.img[SH[x].img])
      BY <1>i, <1>a, <1>p DEF Looks, o, p
    <2> QED BY <2>1, <2>2, PrefixFrame
  <1>4. \A d \in Conts : Owned(R[d]) = Owned(Q[d]) /\ (d # c => R[d].rw = Q[d].rw)
    BY <1>q DEF Owned, OwnsRead
  <1>3. \A k \in Images : ImageOK(r, R, SH, k)
    <2> SUFFICES ASSUME NEW k \in Images PROVE ImageOK(r, R, SH, k)
      OBVIOUS
    <2>2. ImageOK(s, Q, SH, k)
      BY DEF Consistent
    <2>f. \A d \in Conts : Q[d].fork => R[d] = Q[d]
      BY <1>q
    <2>3. CASE k = h
      <3>1. NamedByRewrite(R, h) = 0 /\ NamedByRewrite(Q, h) = 1
        BY <1>d, <1>q, <1>h DEF NamedByRewrite, h
      <3>2. NamedByPrefix(SH, h) = o.refs - 1
        BY <3>1, <1>o, <1>a DEF ImageOK, NamedByPrefix, o
      <3>3. CASE o.refs = 1
        <4>1. ImageOK(r, R, SH, h)
          BY <3>1, <3>2, <3>3, <1>f DEF ImageOK, NewObject, p
        <4> QED BY <2>3, <4>1
      <3>4. CASE o.refs = 2
        <4>1. p.refs = NamedByRewrite(R, h) + NamedByPrefix(SH, h)
          BY <3>1, <3>2, <3>4, <1>p
        <4>2. o.from = None /\ ~o.pinned /\ o.pdev = None /\ o.phost = None
          BY <1>o DEF Shape, ImageOK, Immutable, o
        <4>3. /\ Immutable(p) /\ p.role # "ReservedDestination" /\ p.from = None
              /\ ~p.pinned /\ p.pdev = None /\ p.phost = None /\ p.refs # 0
          BY <4>2, <1>p, <1>o, <3>4 DEF Looks, Immutable
        <4>4. ImageOK(r, R, SH, h)
          BY <4>1, <4>3 DEF ImageOK, p
        <4> QED BY <2>3, <4>4
      <3> QED BY <3>3, <3>4, <1>a
    <2>4. CASE k # h
      <3>1. NamedByRewrite(R, k) = NamedByRewrite(Q, k)
        BY <1>4, <2>4, <1>t DEF NamedByRewrite, h
      <3> QED BY <3>1, <2>2, <2>4, <2>f, <1>i, <1>4 DEF ImageOK
    <2> QED BY <2>3, <2>4
  <1>5. Distinct(R, SH)
    BY <1>4 DEF Consistent, Distinct
  <1>6. ForksKept(R, SH)
    <2> SUFFICES ASSUME NEW d \in Conts, R[d].fork PROVE Keeper(R, SH, d)
      BY DEF ForksKept
    <2>1. d # c /\ R[d] = Q[d]
      BY <1>q
    <2>2. Keeper(Q, SH, d)
      BY <2>1, SeqTypes
    <2>3. CASE Q[d].read = h
      BY <2>1, <2>2, <2>3, <1>n, <1>a DEF Keeper
    <2>4. CASE Q[d].read # h
      BY <2>1, <2>2, <2>4, <1>q DEF Keeper, h
    <2> QED BY <2>3, <2>4
  <1> QED BY <1>1, <1>2, <1>3, <1>5, <1>6 DEF Consistent

(* An image changes hands between an endpoint, a rewrite checkpoint and a  *)
(* shared prefix of one sequence; its references follow.                   *)
LEMMA Relabel ==
    ASSUME NEW s, NEW r, NEW Q, NEW R, NEW SH, NEW SI, NEW g, NEW c \in Conts, NEW x,
           NEW h \in Images, NEW n \in Nat,
           Consistent(s, Q, SH, g), Sound(r), Typed(R, SI, g), NoForks(Q), ~R[c].fork,
           SameImages(s, r, {h}), Immutable(s.img[h]),
           r.img[h] = [s.img[h] EXCEPT !.refs = n],
           SameSeqs(Q, R, c), SamePrefixes(SH, SI, x),
           \A d \in Conts : d # c => h \notin Owned(Q[d]) /\ Q[d].rw # h,
           \A y \in SharedSlots : y # x => SH[y].img # h,
           Headless(R[c]) \/ Endpoint(r, g, R[c]),
           R[c].rw # None => Immutable(r.img[R[c].rw]) /\ Holds(r, g, R[c].rw, R[c].rwf),
           x \in SharedSlots => PrefixOK(r, g, SI[x]),
           \A k \in Images : k # h =>
              /\ k \in Owned(R[c]) <=> k \in Owned(Q[c])
              /\ R[c].rw = k <=> Q[c].rw = k
              /\ x \in SharedSlots => (SI[x].img = k <=> SH[x].img = k),
           n = NamedByRewrite(R, h) + NamedByPrefix(SI, h),
           n # 0 \/ h \in Owned(R[c])
    PROVE  Consistent(r, R, SI, g)
  <1> DEFINE o == s.img[h]
             p == r.img[h]
  <1>q. \A d \in Conts : d # c => R[d] = Q[d]
    BY DEF SameSeqs
  <1>x. \A y \in SharedSlots : y # x => SI[y] = SH[y]
    BY DEF SamePrefixes
  <1>i. \A k \in Images : k # h => r.img[k] = s.img[k]
    BY DEF SameImages
  <1>t. None \notin Images
    BY StoreAssumption
  <1>o. ImageOK(s, Q, SH, h) /\ o \in Image /\ Shape(o)
    BY DEF Consistent, Sound, Shapes, Store
  <1>p. /\ Looks(o, p) /\ p.refs = n /\ p.pinned = o.pinned
        /\ p.pdev = o.pdev /\ p.phost = o.phost
    BY <1>o DEF Image, Looks
  <1> HIDE DEF o, p
  <1>1. \A d \in Conts : SeqOK(r, g, R[d])
    <2> SUFFICES ASSUME NEW d \in Conts PROVE SeqOK(r, g, R[d])
      OBVIOUS
    <2>1. Q[d] \in SeqRecord /\ SeqOK(s, g, Q[d]) /\ ~Q[d].fork
      BY SeqTypes DEF NoForks
    <2>2. CASE d = c
      BY <2>2 DEF SeqOK
    <2>3. CASE d # c
      <3>1. h \notin {Q[d].read, Q[d].write, Q[d].rw}
        BY <2>1, <2>3, <1>t DEF SeqOK, Headless, Endpoint, Writer, Forker, Owned
      <3>2. SeqOK(r, g, Q[d])
        BY <2>1, <3>1, <1>i, SeqFrame DEF Looks
      <3> QED BY <2>3, <3>2, <1>q
    <2> QED BY <2>2, <2>3
  <1>2. \A y \in SharedSlots : PrefixOK(r, g, SI[y])
    <2> SUFFICES ASSUME NEW y \in SharedSlots, y # x PROVE PrefixOK(r, g, SI[y])
      OBVIOUS
    <2>1. PrefixOK(s, g, SH[y])
      BY DEF Consistent
    <2>2. SH[y].img \in Images => Looks(s.img[SH[y].img], r.img[SH[y].img])
      BY <1>i DEF Looks
    <2>3. PrefixOK(r, g, SH[y])
      BY <2>1, <2>2, PrefixFrame
    <2> QED BY <2>3, <1>x
  <1>3. \A k \in Images : ImageOK(r, R, SI, k)
    <2> SUFFICES ASSUME NEW k \in Images PROVE ImageOK(r, R, SI, k)
      OBVIOUS
    <2>1. ImageOK(s, Q, SH, k)
      BY DEF Consistent
    <2>2. s.img[k].from = None
      BY <2>1 DEF ImageOK, NoForks
    <2>3. CASE k = h
      <3>1. ~o.pinned /\ o.from = None /\ o.pdev = None /\ o.phost = None
        BY <1>o, <2>2, <2>3 DEF ImageOK, o
      <3>2. /\ Immutable(p) /\ p.role # "ReservedDestination" /\ p.from = None
            /\ ~p.pinned /\ p.pdev = None /\ p.phost = None
        BY <3>1, <1>p DEF Looks, Immutable, o
      <3>3. ImageOK(r, R, SI, h)
        BY <3>2, <1>p DEF ImageOK, p
      <3> QED BY <2>3, <3>3
    <2>4. CASE k # h
      <3>1. /\ NamedByRewrite(R, k) = NamedByRewrite(Q, k)
            /\ NamedByPrefix(SI, k) = NamedByPrefix(SH, k)
        BY <2>4, <1>q, <1>x DEF NamedByRewrite, NamedByPrefix
      <3>2. \A d \in Conts : k \in Owned(Q[d]) => k \in Owned(R[d])
        BY <2>4, <1>q
      <3> QED BY <3>1, <3>2, <2>1, <2>2, <2>4, <1>i DEF ImageOK
    <2> QED BY <2>3, <2>4
  <1>4. Distinct(R, SI)
    <2>1. \A d \in Conts : d # c => \A k \in Images : ~(k \in Owned(Q[d]) /\ k \in Owned(R[c]))
      BY DEF Consistent, Distinct
    <2>2. \A d \in Conts : d # c => (Q[d].rw = R[c].rw => R[c].rw = None)
      <3> SUFFICES ASSUME NEW d \in Conts, d # c, Q[d].rw = R[c].rw, R[c].rw # None PROVE FALSE
        OBVIOUS
      <3>1. R[c].rw \in Images
        BY DEF Typed, SeqRecord
      <3>2. R[c].rw # h
        OBVIOUS
      <3>3. Q[c].rw = R[c].rw
        BY <3>1, <3>2
      <3> QED BY <3>3 DEF Consistent, Distinct
    <2>3. \A y, z \in SharedSlots : y # z => (SI[y].img = SI[z].img => SI[y].img = None)
      <3> SUFFICES ASSUME NEW y \in SharedSlots, NEW z \in SharedSlots, y # z,
                          SI[y].img = SI[z].img, SI[y].img # None
                   PROVE  FALSE
        OBVIOUS
      <3>1. SI[y].img \in Images
        BY DEF Typed, PrefixRecord
      <3>2. SI[y].img # h
        BY <1>x
      <3>3. SH[y].img = SI[y].img /\ SH[z].img = SI[y].img
        BY <3>1, <3>2, <1>x
      <3> QED BY <3>3 DEF Consistent, Distinct
    <2>4. \A a, b \in Conts : a # b => \A k \in Images : ~(k \in Owned(R[a]) /\ k \in Owned(R[b]))
      BY <2>1, <1>q DEF Consistent, Distinct
    <2>5. \A a, b \in Conts : a # b => (R[a].rw = R[b].rw => R[a].rw = None)
      BY <2>2, <1>q DEF Consistent, Distinct
    <2> QED BY <2>3, <2>4, <2>5 DEF Distinct
  <1>5. ForksKept(R, SI)
    BY <1>q DEF ForksKept, NoForks
  <1> QED BY <1>1, <1>2, <1>3, <1>4, <1>5 DEF Consistent

(* A rewrite checkpoint nothing else names becomes the endpoint.           *)
LEMMA RewriteToEndpoint ==
    ASSUME NEW s, NEW r, NEW Q, NEW R, NEW SH, NEW g, NEW c \in Conts,
           Consistent(s, Q, SH, g), Sound(r), Typed(R, SH, g), NoForks(Q),
           Headless(Q[c]), Q[c].rw # None, s.img[Q[c].rw].refs = 1,
           SameImages(s, r, {Q[c].rw}), r.img[Q[c].rw] = [s.img[Q[c].rw] EXCEPT !.refs = 0],
           SameSeqs(Q, R, c), R[c].role = "Catalogued", R[c].valid, ~R[c].fork,
           R[c].own = "Primary", R[c].read = Q[c].rw, R[c].write = Q[c].rw,
           R[c].pos = Q[c].rwf, R[c].rw = None
    PROVE  Consistent(r, R, SH, g)
  <1> DEFINE h == Q[c].rw
  <1>t. None \notin Images
    BY StoreAssumption
  <1>c. Q[c] \in SeqRecord /\ SeqOK(s, g, Q[c])
    BY SeqTypes
  <1>h. h \in Images
    BY <1>c DEF SeqRecord
  <1>o. /\ ImageOK(s, Q, SH, h) /\ s.img[h] \in Image /\ Immutable(s.img[h])
        /\ Holds(s, g, h, Q[c].rwf)
    BY <1>h, <1>c DEF Consistent, Sound, Store, SeqOK
  <1>p. Immutable(r.img[h]) /\ r.img[h].refs = 0 /\ Holds(r, g, h, Q[c].rwf)
    BY <1>o DEF Image, Immutable, Holds
  <1>d. \A d \in Conts : d # c => Q[d].rw # h
    BY <1>h, <1>t DEF Consistent, Distinct
  <1>w. \A d \in Conts : d # c => h \notin Owned(Q[d])
    <2> SUFFICES ASSUME NEW d \in Conts, d # c, h \in Owned(Q[d]) PROVE FALSE
      OBVIOUS
    <2>1. SeqOK(s, g, Q[d]) /\ ~Q[d].fork
      BY SeqTypes DEF NoForks
    <2> QED BY <2>1, <1>h, <1>t, <1>o DEF SeqOK, Headless, Endpoint, Writer, Forker, Owned, Immutable
  <1>x. \A y \in SharedSlots : SH[y].img # h
    BY <1>o DEF ImageOK, NamedByRewrite, NamedByPrefix
  <1>n. NamedByRewrite(R, h) = 0 /\ NamedByPrefix(SH, h) = 0
    BY <1>x, <1>d, <1>h, <1>t DEF NamedByRewrite, NamedByPrefix, SameSeqs
  <1>e. R[c].read = h /\ R[c].write = h /\ r.img[h] = [s.img[h] EXCEPT !.refs = 0]
        /\ SameImages(s, r, {h})
    OBVIOUS
  <1>g. /\ h \in Owned(R[c])
        /\ \A k \in Images : k # h => /\ k \in Owned(R[c]) <=> k \in Owned(Q[c])
                                      /\ R[c].rw = k <=> Q[c].rw = k
    BY <1>t DEF Owned, Headless, OwnsRead
  <1> HIDE DEF h
  <1>E. Endpoint(r, g, R[c])
    BY <1>p, <1>e, <1>h DEF Endpoint, h
  <1>y. /\ \A d \in Conts : d # c => h \notin Owned(Q[d]) /\ Q[d].rw # h
        /\ \A y \in SharedSlots : y # None => SH[y].img # h
    BY <1>d, <1>w, <1>x
  <1>z. 0 = NamedByRewrite(R, h) + NamedByPrefix(SH, h) /\ 0 \in Nat
    BY <1>n
  <1>s. SamePrefixes(SH, SH, None) /\ None \notin SharedSlots
    BY ContextAssumption DEF SamePrefixes
  <1>v. /\ R[c].rw # None => Immutable(r.img[R[c].rw]) /\ Holds(r, g, R[c].rw, R[c].rwf)
        /\ Headless(R[c]) \/ Endpoint(r, g, R[c])
        /\ None \in SharedSlots => PrefixOK(r, g, SH[None])
        /\ \A k \in Images : k # h =>
              /\ k \in Owned(R[c]) <=> k \in Owned(Q[c])
              /\ R[c].rw = k <=> Q[c].rw = k
              /\ None \in SharedSlots => (SH[None].img = k <=> SH[None].img = k)
        /\ 0 # 0 \/ h \in Owned(R[c])
        /\ Immutable(s.img[h])
    BY <1>g, <1>E, <1>s, <1>o
  <1>u. SameSeqs(Q, R, c) /\ ~R[c].fork
    OBVIOUS
  <1> HIDE DEF h
  <1> QED BY ONLY <1>h, <1>y, <1>z, <1>e, <1>v, <1>u, <1>s, Relabel, Consistent(s, Q, SH, g), Sound(r), Typed(R, SH, g), NoForks(Q), c \in Conts

(* The endpoint of a sequence becomes its rewrite checkpoint.              *)
LEMMA EndpointToRewrite ==
    ASSUME NEW s, NEW r, NEW Q, NEW R, NEW SH, NEW g, NEW c \in Conts,
           Consistent(s, Q, SH, g), Sound(r), Typed(R, SH, g), NoForks(Q),
           Endpoint(s, g, Q[c]), Q[c].rw = None,
           SameImages(s, r, {Q[c].read}), r.img[Q[c].read] = [s.img[Q[c].read] EXCEPT !.refs = 1],
           SameSeqs(Q, R, c), Headless(R[c]), R[c].role = "Catalogued",
           R[c].rw = Q[c].read, R[c].rwf = Q[c].pos
    PROVE  Consistent(r, R, SH, g)
  <1> DEFINE h == Q[c].read
  <1>t. None \notin Images
    BY StoreAssumption
  <1>o. /\ h \in Images /\ s.img[h].refs = 0
        /\ \A d \in Conts : Q[d].rw # h
        /\ \A x \in SharedSlots : SH[x].img # h
        /\ \A d \in Conts : d # c => h \notin Owned(Q[d])
    BY OwnedAlone
  <1>m. s.img[h] \in Image /\ Immutable(s.img[h]) /\ Holds(s, g, h, Q[c].pos)
    BY <1>o DEF Consistent, Sound, Store, Endpoint
  <1>p. Immutable(r.img[h]) /\ Holds(r, g, h, Q[c].pos)
    BY <1>m DEF Image, Immutable, Holds
  <1>n. NamedByRewrite(R, h) = 1 /\ NamedByPrefix(SH, h) = 0
    BY <1>o DEF NamedByRewrite, NamedByPrefix
  <1>z. 1 = NamedByRewrite(R, h) + NamedByPrefix(SH, h) /\ 1 # 0 /\ 1 \in Nat
    BY <1>n
  <1>g. \A k \in Images : k # h => /\ k \in Owned(R[c]) <=> k \in Owned(Q[c])
                                   /\ R[c].rw = k <=> Q[c].rw = k
    BY <1>t DEF Owned, Headless, OwnsRead, Endpoint
  <1>e. /\ r.img[h] = [s.img[h] EXCEPT !.refs = 1] /\ SameImages(s, r, {h})
        /\ Immutable(r.img[R[c].rw]) /\ Holds(r, g, R[c].rw, R[c].rwf) /\ ~R[c].fork
    BY <1>p DEF Headless
  <1> HIDE DEF h
  <1>d. /\ \A d \in Conts : d # c => h \notin Owned(Q[d]) /\ Q[d].rw # h
        /\ \A y \in SharedSlots : y # None => SH[y].img # h
    BY <1>o
  <1>s. SamePrefixes(SH, SH, None) /\ None \notin SharedSlots
    BY ContextAssumption DEF SamePrefixes
  <1> QED BY <1>o, <1>m, <1>d, <1>z, <1>e, <1>g, <1>s, Relabel

(* The endpoint of a sequence becomes a shared prefix.                     *)
LEMMA EndpointToPrefix ==
    ASSUME NEW s, NEW r, NEW Q, NEW R, NEW SH, NEW SI, NEW g, NEW c \in Conts,
           NEW x \in SharedSlots,
           Consistent(s, Q, SH, g), Sound(r), Typed(R, SI, g), NoForks(Q),
           Endpoint(s, g, Q[c]), SH[x].img = None,
           SameImages(s, r, {Q[c].read}), r.img[Q[c].read] = [s.img[Q[c].read] EXCEPT !.refs = 1],
           SameSeqs(Q, R, c), Headless(R[c]), R[c].rw = Q[c].rw, R[c].rwf = Q[c].rwf,
           SamePrefixes(SH, SI, x), SI[x].role = "Catalogued", SI[x].img = Q[c].read,
           SI[x].f = Q[c].pos
    PROVE  Consistent(r, R, SI, g)
  <1> DEFINE h == Q[c].read
  <1>t. None \notin Images
    BY StoreAssumption
  <1>c. Q[c] \in SeqRecord /\ SeqOK(s, g, Q[c])
    BY SeqTypes
  <1>o. /\ h \in Images /\ s.img[h].refs = 0
        /\ \A d \in Conts : Q[d].rw # h
        /\ \A y \in SharedSlots : SH[y].img # h
        /\ \A d \in Conts : d # c => h \notin Owned(Q[d])
    BY OwnedAlone
  <1>m. s.img[h] \in Image /\ Immutable(s.img[h]) /\ Holds(s, g, h, Q[c].pos)
    BY <1>o DEF Consistent, Sound, Store, Endpoint
  <1>p. Immutable(r.img[h]) /\ Holds(r, g, h, Q[c].pos)
    BY <1>m DEF Image, Immutable, Holds
  <1>n. NamedByRewrite(R, h) = 0 /\ NamedByPrefix(SI, h) = 1
    BY <1>o DEF NamedByRewrite, NamedByPrefix, SameSeqs
  <1>z. 1 = NamedByRewrite(R, h) + NamedByPrefix(SI, h) /\ 1 # 0 /\ 1 \in Nat
    BY <1>n
  <1>g. \A k \in Images : k # h => /\ k \in Owned(R[c]) <=> k \in Owned(Q[c])
                                   /\ R[c].rw = k <=> Q[c].rw = k
                                   /\ SI[x].img = k <=> SH[x].img = k
    BY <1>t DEF Owned, Headless, OwnsRead, Endpoint
  <1>e. /\ r.img[h] = [s.img[h] EXCEPT !.refs = 1] /\ SameImages(s, r, {h})
        /\ PrefixOK(r, g, SI[x]) /\ ~R[c].fork
    BY <1>p, <1>o DEF Headless, PrefixOK
  <1>i. \A k \in Images : k # h => r.img[k] = s.img[k]
    BY DEF SameImages
  <1>w. R[c].rw # None => Immutable(r.img[R[c].rw]) /\ Holds(r, g, R[c].rw, R[c].rwf)
    BY <1>c, <1>o, <1>i DEF SeqOK, SeqRecord, Holds
  <1> HIDE DEF h
  <1>d. /\ \A d \in Conts : d # c => h \notin Owned(Q[d]) /\ Q[d].rw # h
        /\ \A y \in SharedSlots : y # x => SH[y].img # h
    BY <1>o
  <1> QED BY <1>o, <1>m, <1>d, <1>z, <1>e, <1>g, <1>w, Relabel

(* A rewrite checkpoint becomes a shared prefix as well.                   *)
LEMMA RewriteToPrefix ==
    ASSUME NEW s, NEW r, NEW Q, NEW SH, NEW SI, NEW g, NEW c \in Conts,
           NEW x \in SharedSlots,
           Consistent(s, Q, SH, g), Sound(r), Typed(Q, SI, g), NoForks(Q),
           Headless(Q[c]), Q[c].rw # None, s.img[Q[c].rw].refs = 1, SH[x].img = None,
           SameImages(s, r, {Q[c].rw}), r.img[Q[c].rw] = [s.img[Q[c].rw] EXCEPT !.refs = 2],
           SamePrefixes(SH, SI, x), SI[x].role = "Catalogued", SI[x].img = Q[c].rw,
           SI[x].f = Q[c].rwf
    PROVE  Consistent(r, Q, SI, g)
  <1> DEFINE h == Q[c].rw
  <1>t. None \notin Images
    BY StoreAssumption
  <1>c. Q[c] \in SeqRecord /\ SeqOK(s, g, Q[c])
    BY SeqTypes
  <1>h. h \in Images
    BY <1>c DEF SeqRecord
  <1>o. /\ ImageOK(s, Q, SH, h) /\ s.img[h] \in Image /\ Immutable(s.img[h])
        /\ Holds(s, g, h, Q[c].rwf)
    BY <1>h, <1>c DEF Consistent, Sound, Store, SeqOK
  <1>p. Immutable(r.img[h]) /\ Holds(r, g, h, Q[c].rwf)
    BY <1>o DEF Image, Immutable, Holds
  <1>d. \A d \in Conts : d # c => Q[d].rw # h
    BY <1>h, <1>t DEF Consistent, Distinct
  <1>w. \A d \in Conts : d # c => h \notin Owned(Q[d])
    <2> SUFFICES ASSUME NEW d \in Conts, d # c, h \in Owned(Q[d]) PROVE FALSE
      OBVIOUS
    <2>1. SeqOK(s, g, Q[d]) /\ ~Q[d].fork
      BY SeqTypes DEF NoForks
    <2> QED BY <2>1, <1>h, <1>t, <1>o DEF SeqOK, Headless, Endpoint, Writer, Forker, Owned, Immutable
  <1>x. \A y \in SharedSlots : SH[y].img # h
    BY <1>o DEF ImageOK, NamedByRewrite, NamedByPrefix
  <1>n. NamedByRewrite(Q, h) = 1 /\ NamedByPrefix(SI, h) = 1
    BY DEF NamedByRewrite, NamedByPrefix
  <1>z. 2 = NamedByRewrite(Q, h) + NamedByPrefix(SI, h) /\ 2 # 0 /\ 2 \in Nat
    BY <1>n
  <1>e. /\ r.img[h] = [s.img[h] EXCEPT !.refs = 2] /\ SameImages(s, r, {h})
        /\ PrefixOK(r, g, SI[x]) /\ ~Q[c].fork
        /\ Q[c].rw # None => Immutable(r.img[Q[c].rw]) /\ Holds(r, g, Q[c].rw, Q[c].rwf)
    BY <1>p, <1>h DEF Headless, PrefixOK
  <1>g. \A k \in Images : k # h => (SI[x].img = k <=> SH[x].img = k)
    BY <1>t
  <1> HIDE DEF h
  <1>f. /\ \A d \in Conts : d # c => h \notin Owned(Q[d]) /\ Q[d].rw # h
        /\ \A y \in SharedSlots : y # x => SH[y].img # h
    BY <1>d, <1>w, <1>x
  <1>s. SameSeqs(Q, Q, c)
    BY DEF SameSeqs
  <1> QED BY <1>h, <1>o, <1>f, <1>z, <1>e, <1>g, <1>s, Relabel

(* A shared prefix goes.                                                   *)
LEMMA DropPrefix ==
    ASSUME NEW s, NEW r, NEW Q, NEW SH, NEW SI, NEW g, NEW x \in SharedSlots,
           Consistent(s, Q, SH, g), Sound(r), Typed(Q, SI, g), NoForks(Q),
           SH[x].img # None, SameImages(s, r, {SH[x].img}),
           Unnamed(s.img[SH[x].img], r.img[SH[x].img]),
           SamePrefixes(SH, SI, x), SI[x].img = None,
           SI[x].role \in {"Free", "ReservedCapture"}
    PROVE  Consistent(r, Q, SI, g)
  <1> DEFINE h == SH[x].img
             o == s.img[h]
             p == r.img[h]
  <1>x. \A y \in SharedSlots : y # x => SI[y] = SH[y]
    BY DEF SamePrefixes
  <1>i. \A k \in Images : k # h => r.img[k] = s.img[k]
    BY DEF SameImages
  <1>t. None \notin Images
    BY StoreAssumption
  <1>c. PrefixOK(s, g, SH[x]) /\ h \in Images /\ Immutable(o)
    BY DEF Consistent, PrefixOK
  <1>o. ImageOK(s, Q, SH, h) /\ o \in Image /\ Shape(o)
    BY <1>c DEF Consistent, Sound, Shapes, Store
  <1>d. \A y \in SharedSlots : y # x => SH[y].img # h
    BY <1>c DEF Consistent, Distinct
  <1>a. o.refs # 0 /\ o.refs \in {1, 2} /\ (o.refs = 1 => \A d \in Conts : Q[d].rw # h)
    BY <1>o DEF ImageOK, NamedByRewrite, NamedByPrefix
  <1>z. \A d \in Conts : Q[d].read # h /\ Q[d].write # h
    <2> SUFFICES ASSUME NEW d \in Conts PROVE Q[d].read # h /\ Q[d].write # h
      OBVIOUS
    <2>1. SeqOK(s, g, Q[d]) /\ ~Q[d].fork
      BY SeqTypes DEF NoForks
    <2> QED BY <2>1, <1>a, <1>c, <1>t DEF SeqOK, Headless, Endpoint, Writer, Forker, Immutable
  <1>p. o.refs = 2 => /\ Looks(o, p) /\ p.refs = 1 /\ p.pinned = o.pinned
                      /\ p.pdev = o.pdev /\ p.phost = o.phost
    BY <1>o, <1>a DEF Image, Looks, Unnamed
  <1>f. o.refs = 1 => p = NewObject("Free")
    BY DEF Unnamed
  <1> HIDE DEF h, o, p
  <1>1. \A d \in Conts : SeqOK(r, g, Q[d])
    <2> SUFFICES ASSUME NEW d \in Conts PROVE SeqOK(r, g, Q[d])
      OBVIOUS
    <2>1. Q[d] \in SeqRecord /\ SeqOK(s, g, Q[d])
      BY SeqTypes
    <2>2. \A k \in Images : k \in {Q[d].read, Q[d].write, Q[d].rw} => Looks(s.img[k], r.img[k])
      BY <1>z, <1>p, <1>i, <1>a DEF Looks, o, p
    <2>3. Q[d].read \in Images /\ ~Q[d].fork => r.img[Q[d].read].refs = s.img[Q[d].read].refs
      BY <1>i, <1>z
    <2> QED BY <2>1, <2>2, <2>3, SeqFrame
  <1>2. \A y \in SharedSlots : PrefixOK(r, g, SI[y])
    <2> SUFFICES ASSUME NEW y \in SharedSlots PROVE PrefixOK(r, g, SI[y])
      OBVIOUS
    <2>1. PrefixOK(s, g, SH[y])
      BY DEF Consistent
    <2>2. CASE y = x
      BY <2>2 DEF PrefixOK
    <2>3. CASE y # x
      <3>1. PrefixOK(r, g, SH[y])
        BY <2>1, <2>3, <1>i, <1>d, PrefixFrame DEF Looks
      <3> QED BY <3>1, <2>3, <1>x
    <2> QED BY <2>2, <2>3
  <1>3. \A k \in Images : ImageOK(r, Q, SI, k)
    <2> SUFFICES ASSUME NEW k \in Images PROVE ImageOK(r, Q, SI, k)
      OBVIOUS
    <2>1. ImageOK(s, Q, SH, k)
      BY DEF Consistent
    <2>2. CASE k = h
      <3>1. NamedByPrefix(SI, h) = 0 /\ NamedByPrefix(SH, h) = 1
        BY <1>d, <1>x, <1>c, <1>t DEF NamedByPrefix, h
      <3>2. NamedByRewrite(Q, h) = o.refs - 1
        BY <3>1, <1>o, <1>a DEF ImageOK, NamedByRewrite, o
      <3>3. CASE o.refs = 1
        <4>1. ImageOK(r, Q, SI, h)
          BY <3>1, <3>2, <3>3, <1>f DEF ImageOK, NewObject, p
        <4> QED BY <2>2, <4>1
      <3>4. CASE o.refs = 2
        <4>1. p.refs = NamedByRewrite(Q, h) + NamedByPrefix(SI, h)
          BY <3>1, <3>2, <3>4, <1>p
        <4>2. o.from = None /\ ~o.pinned /\ o.pdev = None /\ o.phost = None
          BY <1>o, <1>c DEF Shape, ImageOK, Immutable, o
        <4>3. /\ Immutable(p) /\ p.role # "ReservedDestination" /\ p.from = None
              /\ ~p.pinned /\ p.pdev = None /\ p.phost = None /\ p.refs # 0
          BY <4>2, <1>p, <1>c, <3>4 DEF Looks, Immutable
        <4>4. ImageOK(r, Q, SI, h)
          BY <4>1, <4>3 DEF ImageOK, p
        <4> QED BY <2>2, <4>4
      <3> QED BY <3>3, <3>4, <1>a
    <2>3. CASE k # h
      <3>1. NamedByPrefix(SI, k) = NamedByPrefix(SH, k)
        BY <2>3, <1>x, <1>t DEF NamedByPrefix, h
      <3> QED BY <3>1, <2>1, <2>3, <1>i DEF ImageOK
    <2> QED BY <2>2, <2>3
  <1>4. Distinct(Q, SI)
    BY <1>x DEF Consistent, Distinct
  <1>5. ForksKept(Q, SI)
    BY DEF ForksKept, NoForks
  <1> QED BY <1>1, <1>2, <1>3, <1>4, <1>5 DEF Consistent

(* Nobody names or binds a free image.                                     *)
LEMMA FreeUnused ==
    ASSUME NEW s, NEW Q, NEW SH, NEW g, Consistent(s, Q, SH, g), NEW k \in Images,
           s.img[k].role = "Free"
    PROVE  /\ \A d \in Conts : k \notin {Q[d].read, Q[d].write, Q[d].rw}
           /\ \A x \in SharedSlots : SH[x].img # k
           /\ NamedByRewrite(Q, k) = 0 /\ NamedByPrefix(SH, k) = 0
  <1>t. None \notin Images
    BY StoreAssumption
  <1>1. ASSUME NEW d \in Conts PROVE k \notin {Q[d].read, Q[d].write, Q[d].rw}
    <2>1. Q[d] \in SeqRecord /\ SeqOK(s, g, Q[d]) /\ (Q[d].fork => Forker(s, g, Q[d]))
      BY SeqTypes
    <2>2. Q[d].rw # k
      BY <2>1, <1>t DEF SeqOK, Immutable
    <2>3. CASE Q[d].fork
      <3>1. s.img[Q[d].write].from = Q[d].read /\ Q[d].write \in Images /\ Q[d].read \in Images
        BY <2>1, <2>3 DEF Forker
      <3>2. Immutable(s.img[Q[d].read])
        BY <3>1, <1>t DEF Consistent, Sound, ForksLive
      <3> QED BY <2>1, <2>2, <2>3, <3>2 DEF Forker, Immutable
    <2>4. CASE ~Q[d].fork
      BY <2>1, <2>2, <2>4, <1>t DEF SeqOK, Headless, Endpoint, Writer, Forker, Immutable
    <2> QED BY <2>3, <2>4
  <1>2. \A x \in SharedSlots : SH[x].img # k
    BY <1>t DEF Consistent, PrefixOK, Immutable
  <1>3. NamedByRewrite(Q, k) = 0
    BY <1>1 DEF NamedByRewrite
  <1>4. NamedByPrefix(SH, k) = 0
    BY <1>2 DEF NamedByPrefix
  <1> QED BY <1>1, <1>2, <1>3, <1>4

(* A sequence without a binding gets a fresh image to write in place.      *)
LEMMA AddLane ==
    ASSUME NEW s, NEW r, NEW Q, NEW R, NEW SH, NEW g, NEW c \in Conts, NEW k \in Images,
           Consistent(s, Q, SH, g), Sound(r), Typed(R, SH, g), NoForks(Q),
           Headless(Q[c]), s.img[k].role = "Free", SameImages(s, r, {k}),
           r.img[k].role = "ActiveMutable", r.img[k].from = None, r.img[k].refs = 0,
           r.img[k].host = None, r.img[k].pdev = None, r.img[k].phost = None, ~r.img[k].pinned,
           SameSeqs(Q, R, c), Writer(r, g, R[c]), R[c].read = k,
           R[c].rw = Q[c].rw, R[c].rwf = Q[c].rwf
    PROVE  Consistent(r, R, SH, g)
  <1>q. \A d \in Conts : d # c => R[d] = Q[d]
    BY DEF SameSeqs
  <1>i. \A j \in Images : j # k => r.img[j] = s.img[j]
    BY DEF SameImages
  <1>t. None \notin Images
    BY StoreAssumption
  <1>u. /\ \A d \in Conts : k \notin {Q[d].read, Q[d].write, Q[d].rw}
        /\ \A x \in SharedSlots : SH[x].img # k
        /\ NamedByRewrite(Q, k) = 0 /\ NamedByPrefix(SH, k) = 0
    BY FreeUnused
  <1>w. \A d \in Conts : R[d].rw = Q[d].rw
    BY <1>q
  <1>1. \A d \in Conts : SeqOK(r, g, R[d])
    <2> SUFFICES ASSUME NEW d \in Conts PROVE SeqOK(r, g, R[d])
      OBVIOUS
    <2>1. Q[d] \in SeqRecord /\ SeqOK(s, g, Q[d])
      BY SeqTypes
    <2>2. SeqOK(r, g, Q[d])
      BY <2>1, <1>u, <1>i, SeqFrame DEF Looks
    <2>3. CASE d = c
      BY <2>2, <2>3 DEF SeqOK
    <2> QED BY <2>2, <2>3, <1>q
  <1>2. \A x \in SharedSlots : PrefixOK(r, g, SH[x])
    BY <1>i, <1>u DEF Consistent, PrefixOK, Holds
  <1>o. \A d \in Conts, j \in Images : j # k => (j \in Owned(R[d]) <=> j \in Owned(Q[d]))
    BY <1>q, <1>t DEF Owned, OwnsRead, Headless, Writer
  <1>p. k \in Owned(R[c]) /\ \A d \in Conts : d # c => k \notin Owned(R[d])
    BY <1>q, <1>u DEF Owned, Writer
  <1>3. \A j \in Images : ImageOK(r, R, SH, j)
    <2> SUFFICES ASSUME NEW j \in Images PROVE ImageOK(r, R, SH, j)
      OBVIOUS
    <2>1. ImageOK(s, Q, SH, j) /\ NamedByRewrite(R, j) = NamedByRewrite(Q, j)
      BY <1>w DEF Consistent, NamedByRewrite
    <2>2. CASE j = k
      <3>1. 0 = NamedByRewrite(R, k) + NamedByPrefix(SH, k)
        BY <2>1, <2>2, <1>u
      <3>2. ImageOK(r, R, SH, k)
        BY <3>1, <1>p DEF ImageOK
      <3> QED BY <2>2, <3>2
    <2>3. CASE j # k
      BY <2>1, <2>3, <1>o, <1>i DEF ImageOK, NoForks
    <2> QED BY <2>2, <2>3
  <1>4. Distinct(R, SH)
    <2>1. \A a, b \in Conts : a # b => \A j \in Images : ~(j \in Owned(R[a]) /\ j \in Owned(R[b]))
      BY <1>o, <1>p DEF Consistent, Distinct
    <2> QED BY <2>1, <1>w DEF Consistent, Distinct
  <1>5. ForksKept(R, SH)
    BY <1>q DEF ForksKept, NoForks, Writer
  <1> QED BY <1>1, <1>2, <1>3, <1>4, <1>5 DEF Consistent

(* A sequence without a binding gets a fresh image, to be written by the   *)
(* execution that reads h.                                                 *)
LEMMA AddFork ==
    ASSUME NEW s, NEW r, NEW Q, NEW R, NEW SH, NEW g, NEW c \in Conts,
           NEW h \in Images, NEW k \in Images,
           Consistent(s, Q, SH, g), Sound(r), Typed(R, SH, g), NoForks(Q),
           Headless(Q[c]), s.img[k].role = "Free", SameImages(s, r, {h, k}),
           Immutable(s.img[h]),
           Looks(s.img[h], r.img[h]), r.img[h].refs = s.img[h].refs, ~r.img[h].pinned,
           r.img[h].pdev = None, r.img[h].phost = None,
           r.img[k].refs = 0, r.img[k].host = None, r.img[k].pdev = None, r.img[k].phost = None,
           SameSeqs(Q, R, c), Forker(r, g, R[c]), R[c].read = h, R[c].write = k,
           R[c].rw = Q[c].rw, R[c].rwf = Q[c].rwf, Keeper(R, SH, c)
    PROVE  Consistent(r, R, SH, g)
  <1>q. \A d \in Conts : d # c => R[d] = Q[d]
    BY DEF SameSeqs
  <1>i. \A j \in Images : j \notin {h, k} => r.img[j] = s.img[j]
    BY DEF SameImages
  <1>t. None \notin Images
    BY StoreAssumption
  <1>u. /\ \A d \in Conts : k \notin {Q[d].read, Q[d].write, Q[d].rw}
        /\ \A x \in SharedSlots : SH[x].img # k
        /\ NamedByRewrite(Q, k) = 0 /\ NamedByPrefix(SH, k) = 0
    BY FreeUnused
  <1>w. \A d \in Conts : R[d].rw = Q[d].rw
    BY <1>q
  <1>f. r.img[k].role = "ActiveMutable" /\ r.img[k].from = h /\ h # k /\ R[c].fork /\ R[c].role = "Active"
    BY DEF Forker
  <1>z. \A j \in Images : j # k => Looks(s.img[j], r.img[j]) /\ r.img[j].refs = s.img[j].refs
    BY <1>i DEF Looks
  <1>1. \A d \in Conts : SeqOK(r, g, R[d])
    <2> SUFFICES ASSUME NEW d \in Conts PROVE SeqOK(r, g, R[d])
      OBVIOUS
    <2>1. Q[d] \in SeqRecord /\ SeqOK(s, g, Q[d])
      BY SeqTypes
    <2>2. SeqOK(r, g, Q[d])
      BY <2>1, <1>u, <1>z, SeqFrame
    <2>3. CASE d = c
      BY <2>2, <2>3 DEF SeqOK
    <2> QED BY <2>2, <2>3, <1>q
  <1>2. \A x \in SharedSlots : PrefixOK(r, g, SH[x])
    <2> SUFFICES ASSUME NEW x \in SharedSlots PROVE PrefixOK(r, g, SH[x])
      OBVIOUS
    <2> QED BY <1>z, <1>u, PrefixFrame DEF Consistent
  <1>n. R[c].own # "External" => s.img[h].refs # 0
    <2> SUFFICES ASSUME R[c].own # "External" PROVE s.img[h].refs # 0
      OBVIOUS
    <2>1. NamedByRewrite(Q, h) = 1 \/ NamedByPrefix(SH, h) = 1
      BY <1>w DEF Keeper, NamedByRewrite, NamedByPrefix
    <2>2. s.img[h].refs = NamedByRewrite(Q, h) + NamedByPrefix(SH, h)
      BY DEF Consistent, ImageOK
    <2> QED BY <2>1, <2>2 DEF NamedByRewrite, NamedByPrefix
  <1>m. s.img[h].refs # 0 => \A d \in Conts : h \notin Owned(Q[d])
    <2> SUFFICES ASSUME s.img[h].refs # 0, NEW d \in Conts PROVE h \notin Owned(Q[d])
      OBVIOUS
    <2>1. SeqOK(s, g, Q[d]) /\ ~Q[d].fork
      BY SeqTypes DEF NoForks
    <2> QED BY <2>1, <1>t DEF SeqOK, Headless, Endpoint, Writer, Forker, Owned, Immutable
  <1>o. \A d \in Conts, j \in Images : d # c => (j \in Owned(R[d]) <=> j \in Owned(Q[d]))
    BY <1>q
  <1>p. /\ k \in Owned(R[c]) /\ (h \in Owned(R[c]) => R[c].own # "External")
        /\ \A j \in Images : j \in Owned(R[c]) => j \in {h, k}
        /\ \A j \in Images : j \notin Owned(Q[c])
    BY <1>f, <1>t DEF Owned, OwnsRead, Headless
  <1>v. \A d \in Conts : k \notin Owned(Q[d])
    BY <1>u DEF Owned
  <1>3. \A j \in Images : ImageOK(r, R, SH, j)
    <2> SUFFICES ASSUME NEW j \in Images PROVE ImageOK(r, R, SH, j)
      OBVIOUS
    <2>1. ImageOK(s, Q, SH, j) /\ NamedByRewrite(R, j) = NamedByRewrite(Q, j)
      BY <1>w DEF Consistent, NamedByRewrite
    <2>2. CASE j = k
      <3>1. 0 = NamedByRewrite(R, k) + NamedByPrefix(SH, k)
        BY <2>1, <2>2, <1>u
      <3>2. ImageOK(r, R, SH, k)
        <4>1. \E d \in Conts : k \in Owned(R[d])
          BY <1>p
        <4>2. \E d \in Conts : R[d].fork /\ R[d].write = k /\ R[d].read = r.img[k].from
          BY <1>f
        <4>3. r.img[k].from # None /\ r.img[k].role # "ReservedDestination"
          BY <1>f, <1>t
        <4> QED BY <3>1, <4>1, <4>2, <4>3 DEF ImageOK
      <3> QED BY <2>2, <3>2
    <2>3. CASE j = h
      <3>1. r.img[h].from = None
        BY <1>z, <1>f DEF Looks, Consistent, Sound, Shapes, Shape, Immutable
      <3>2. /\ r.img[h].refs = NamedByRewrite(R, h) + NamedByPrefix(SH, h)
            /\ r.img[h].refs # 0 \/ \E d \in Conts : d # c /\ h \in Owned(Q[d])
        BY <2>1, <2>3, <1>p DEF ImageOK, Immutable
      <3>3. Immutable(r.img[h]) /\ r.img[h].role # "ReservedDestination"
        BY DEF Looks, Immutable
      <3>4. r.img[h].refs # 0 \/ \E d \in Conts : h \in Owned(R[d])
        BY <3>2, <1>o
      <3>5. ImageOK(r, R, SH, h)
        BY <3>1, <3>2, <3>3, <3>4 DEF ImageOK
      <3> QED BY <2>3, <3>5
    <2>4. CASE j \notin {h, k}
      <3>1. r.img[j] = s.img[j] /\ s.img[j].from = None
        BY <2>1, <2>4, <1>i DEF ImageOK, NoForks
      <3>2. \A d \in Conts : j \in Owned(Q[d]) => j \in Owned(R[d])
        BY <1>o, <1>p
      <3> QED BY <2>1, <3>1, <3>2 DEF ImageOK
    <2> QED BY <2>2, <2>3, <2>4
  <1>4. Distinct(R, SH)
    <2>1. \A a \in Conts : a # c => \A j \in Images : ~(j \in Owned(R[a]) /\ j \in Owned(R[c]))
      BY <1>o, <1>p, <1>m, <1>n, <1>v
    <2>2. \A a, b \in Conts : a # b => \A j \in Images : ~(j \in Owned(R[a]) /\ j \in Owned(R[b]))
      BY <2>1, <1>o DEF Consistent, Distinct
    <2> QED BY <2>2, <1>w DEF Consistent, Distinct
  <1>5. ForksKept(R, SH)
    BY <1>q DEF ForksKept, NoForks
  <1> QED BY <1>1, <1>2, <1>3, <1>4, <1>5 DEF Consistent

(* The fork of a lane ends: its destination becomes the in-place writer,   *)
(* or goes.                                                                *)
LEMMA EndFork ==
    ASSUME NEW s, NEW r, NEW Q, NEW R, NEW SH, NEW g, NEW c \in Conts, NEW h, NEW k,
           Consistent(s, Q, SH, g), Sound(r), Typed(R, SH, g),
           Q[c].fork, Q[c].read = h, Q[c].write = k, SameImages(s, r, {h, k}),
           Looks(s.img[h], r.img[h]), r.img[h].refs = s.img[h].refs, ~r.img[h].pinned,
           r.img[h].pdev = None, r.img[h].phost = None,
           r.img[k].refs = 0, r.img[k].from = None, r.img[k].host = None,
           r.img[k].pdev = None, r.img[k].phost = None, ~r.img[k].pinned,
           SameSeqs(Q, R, c),
           \/ Writer(r, g, R[c]) /\ R[c].read = k
           \/ Headless(R[c]) /\ r.img[k].role = "Free",
           R[c].rw = Q[c].rw, R[c].rwf = Q[c].rwf
    PROVE  Consistent(r, R, SH, g)
  <1>q. \A d \in Conts : d # c => R[d] = Q[d]
    BY DEF SameSeqs
  <1>i. \A j \in Images : j \notin {h, k} => r.img[j] = s.img[j]
    BY DEF SameImages
  <1>t. None \notin Images
    BY StoreAssumption
  <1>w. \A d \in Conts : R[d].rw = Q[d].rw
    BY <1>q, SMTT(40)
  <1>f. /\ h \in Images /\ k \in Images /\ h # k /\ Q[c].role = "Active"
        /\ s.img[k].role = "ActiveMutable" /\ s.img[k].from = h
        /\ Forker(s, g, Q[c]) /\ Keeper(Q, SH, c) /\ ~R[c].fork
    BY SeqTypes DEF Forker, Writer, Headless
  <1>m. Immutable(s.img[h])
    BY <1>f, <1>t DEF Consistent, Sound, ForksLive
  <1>z. \A j \in Images : j # k => Looks(s.img[j], r.img[j]) /\ r.img[j].refs = s.img[j].refs
    BY <1>i DEF Looks
  <1>k. k \in Owned(Q[c]) /\ \A d \in Conts : d # c => k \notin Owned(Q[d])
    BY <1>f DEF Owned, Consistent, Distinct
  <1>r. s.img[k].refs = 0 /\ NamedByRewrite(Q, k) = 0 /\ NamedByPrefix(SH, k) = 0
    <2>1. s.img[k].refs = 0
      BY <1>f DEF Consistent, Sound, Shapes, Shape, Immutable
    <2> QED BY <2>1, <1>f DEF Consistent, ImageOK, NamedByRewrite, NamedByPrefix
  <1>u. /\ \A d \in Conts : Q[d].rw # k
        /\ \A x \in SharedSlots : SH[x].img # k
    BY <1>r DEF NamedByRewrite, NamedByPrefix
  <1>v. \A d \in Conts : d # c => k \notin {Q[d].read, Q[d].write}
    <2> SUFFICES ASSUME NEW d \in Conts, d # c PROVE k \notin {Q[d].read, Q[d].write}
      OBVIOUS
    <2>1. SeqOK(s, g, Q[d]) /\ (Q[d].fork => Forker(s, g, Q[d]))
      BY SeqTypes
    <2>2. CASE Q[d].fork
      <3>1. Immutable(s.img[Q[d].read])
        BY <2>1, <2>2, <1>t DEF Forker, Consistent, Sound, ForksLive
      <3> QED BY <2>1, <2>2, <3>1, <1>f, <1>k, SMTT(40) DEF Immutable, Owned
    <2>3. CASE ~Q[d].fork
      BY <2>1, <2>3, <1>k, <1>f, <1>t DEF SeqOK, Headless, Endpoint, Writer, Forker, Owned
    <2> QED BY <2>2, <2>3
  <1>1. \A d \in Conts : SeqOK(r, g, R[d])
    <2> SUFFICES ASSUME NEW d \in Conts PROVE SeqOK(r, g, R[d])
      OBVIOUS
    <2>1. Q[d] \in SeqRecord /\ SeqOK(s, g, Q[d])
      BY SeqTypes
    <2>2. CASE d # c
      <3>1. SeqOK(r, g, Q[d])
        BY <2>1, <2>2, <1>u, <1>v, <1>z, SeqFrame
      <3> QED BY <2>2, <3>1, <1>q
    <2>3. CASE d = c
      <3>1. Q[c].rw # None => Immutable(r.img[Q[c].rw]) /\ Holds(r, g, Q[c].rw, Q[c].rwf)
        BY <2>1, <2>3, <1>z, <1>u DEF SeqOK, SeqRecord, Looks, Immutable, Holds
      <3> QED BY <2>3, <3>1 DEF SeqOK
    <2> QED BY <2>2, <2>3
  <1>2. \A x \in SharedSlots : PrefixOK(r, g, SH[x])
    <2> SUFFICES ASSUME NEW x \in SharedSlots PROVE PrefixOK(r, g, SH[x])
      OBVIOUS
    <2> QED BY <1>z, <1>u, PrefixFrame DEF Consistent
  <1>n. Q[c].own # "External" => s.img[h].refs # 0
    <2> SUFFICES ASSUME Q[c].own # "External" PROVE s.img[h].refs # 0
      OBVIOUS
    <2>1. NamedByRewrite(Q, h) = 1 \/ NamedByPrefix(SH, h) = 1
      BY <1>f DEF Keeper, NamedByRewrite, NamedByPrefix
    <2>2. s.img[h].refs = NamedByRewrite(Q, h) + NamedByPrefix(SH, h)
      BY <1>f DEF Consistent, ImageOK
    <2> QED BY <2>1, <2>2 DEF NamedByRewrite, NamedByPrefix
  <1>o. \A d \in Conts, j \in Images : j \in Owned(R[d]) => j \in Owned(Q[d])
    BY <1>q, <1>f, <1>t DEF Owned, OwnsRead, Headless, Writer
  <1>p. /\ R[c].read = k => k \in Owned(R[c])
        /\ \A d \in Conts, j \in Images : j \in Owned(Q[d]) => j \in Owned(R[d]) \/ (d = c /\ j \in {h, k})
        /\ h \in Owned(Q[c]) => Q[c].own # "External"
    BY <1>q, <1>f, <1>t DEF Owned, OwnsRead, Headless, Writer
  <1>3. \A j \in Images : ImageOK(r, R, SH, j)
    <2> SUFFICES ASSUME NEW j \in Images PROVE ImageOK(r, R, SH, j)
      OBVIOUS
    <2>1. ImageOK(s, Q, SH, j) /\ NamedByRewrite(R, j) = NamedByRewrite(Q, j)
      BY <1>w DEF Consistent, NamedByRewrite
    <2>2. CASE j = k
      <3>1. 0 = NamedByRewrite(R, k) + NamedByPrefix(SH, k)
        BY <2>1, <2>2, <1>r
      <3>2. r.img[k].role # "Free" => \E d \in Conts : k \in Owned(R[d])
        BY <1>p
      <3>3. r.img[k].role # "ReservedDestination"
        BY DEF Writer
      <3>4. ImageOK(r, R, SH, k)
        BY <3>1, <3>2, <3>3 DEF ImageOK
      <3> QED BY <2>2, <3>4
    <2>3. CASE j = h
      <3>1. r.img[h].from = None
        BY <1>z, <1>f, <1>m DEF Looks, Consistent, Sound, Shapes, Shape, Immutable
      <3>2. r.img[h].refs = NamedByRewrite(R, h) + NamedByPrefix(SH, h)
        BY <2>1, <2>3 DEF ImageOK
      <3>3. Immutable(r.img[h]) /\ r.img[h].role # "ReservedDestination"
        BY <1>m DEF Looks, Immutable
      <3>4. r.img[h].refs # 0 \/ \E d \in Conts : h \in Owned(R[d])
        <4>1. s.img[h].refs # 0 \/ \E d \in Conts : h \in Owned(Q[d])
          BY <2>1, <2>3, <1>m DEF ImageOK, Immutable
        <4> QED BY <4>1, <1>n, <1>p, <1>f
      <3>5. ImageOK(r, R, SH, h)
        BY <3>1, <3>2, <3>3, <3>4 DEF ImageOK
      <3> QED BY <2>3, <3>5
    <2>4. CASE j \notin {h, k}
      <3>1. r.img[j] = s.img[j]
        BY <2>4, <1>i
      <3>2. \A d \in Conts : j \in Owned(Q[d]) => j \in Owned(R[d])
        BY <1>p, <2>4
      <3>3. \A d \in Conts : Q[d].fork /\ Q[d].write = j => R[d] = Q[d]
        BY <1>q, <2>4
      <3> QED BY <2>1, <3>1, <3>2, <3>3 DEF ImageOK
    <2> QED BY <2>2, <2>3, <2>4
  <1>4. Distinct(R, SH)
    BY <1>o, <1>w DEF Consistent, Distinct
  <1>5. ForksKept(R, SH)
    <2> SUFFICES ASSUME NEW d \in Conts, R[d].fork PROVE Keeper(R, SH, d)
      BY DEF ForksKept
    <2>1. d # c /\ R[d] = Q[d]
      BY <1>q, <1>f
    <2>2. Keeper(Q, SH, d)
      BY <2>1, SeqTypes
    <2> QED BY <2>1, <2>2, <1>q, <1>f DEF Keeper
  <1> QED BY <1>1, <1>2, <1>3, <1>4, <1>5 DEF Consistent

(* A lane that writes in place executes.                                   *)
LEMMA Advance ==
    ASSUME NEW s, NEW Q, NEW R, NEW SH, NEW g, NEW f, NEW c \in Conts,
           Consistent(s, Q, SH, g), Typed(R, SH, f),
           Writer(s, g, Q[c]), Writer(s, f, R[c]), SameSeqs(Q, R, c),
           R[c].read = Q[c].read, R[c].rw = Q[c].rw, R[c].rwf = Q[c].rwf,
           \A h \in Images : /\ s.img[h].dev # None /\ h # Q[c].read => f[s.img[h].dev] = g[s.img[h].dev]
                             /\ s.img[h].host # None => f[s.img[h].host] = g[s.img[h].host]
    PROVE  Consistent(s, R, SH, f)
  <1> DEFINE h == Q[c].read
  <1>q. \A d \in Conts : d # c => R[d] = Q[d]
    BY DEF SameSeqs
  <1>t. None \notin Images
    BY StoreAssumption, SMTT(40)
  <1>o. /\ h \in Images /\ s.img[h].refs = 0 /\ s.img[h].role = "ActiveMutable"
        /\ \A d \in Conts : Q[d].rw # h
        /\ \A x \in SharedSlots : SH[x].img # h
        /\ \A d \in Conts : d # c => h \notin Owned(Q[d])
    BY OwnedAlone DEF Writer
  <1>a. \A k \in Images : /\ s.img[k].dev # None /\ k # h => f[s.img[k].dev] = g[s.img[k].dev]
                          /\ s.img[k].host # None => f[s.img[k].host] = g[s.img[k].host]
    OBVIOUS
  <1>h. \A k \in Images, n \in Nat : k # h /\ Holds(s, g, k, n) => Holds(s, f, k, n)
    BY <1>a DEF Holds
  <1>1. \A d \in Conts : SeqOK(s, f, R[d])
    <2> SUFFICES ASSUME NEW d \in Conts PROVE SeqOK(s, f, R[d])
      OBVIOUS
    <2> DEFINE q == Q[d]
    <2>1. q \in SeqRecord /\ SeqOK(s, g, q)
      BY SeqTypes
    <2>2. q.rw # h
      BY <1>o
    <2>5. CASE d # c
      <3>r. d # c => h \notin Owned(q) /\ R[d] = q
        BY <1>o, <1>q
      <3> HIDE DEF q, h
      <3>1. Endpoint(s, g, q) => Endpoint(s, f, q)
        BY <2>1, <2>5, <3>r, <1>h, SMTT(40) DEF Endpoint, Owned, SeqRecord
      <3>2. Writer(s, g, q) => Writer(s, f, q)
        <4> SUFFICES ASSUME Writer(s, g, q) PROVE Writer(s, f, q)
          BY SMTT(40)
        <4>1. s.img[q.read].dev # None
          BY DEF Writer, Consistent, Sound, Shapes, Shape, ImageOK
        <4> QED BY <2>5, <3>r, <4>1, <1>a DEF Writer, Owned
      <3>3. Forker(s, g, q) => Forker(s, f, q)
        <4> SUFFICES ASSUME Forker(s, g, q) PROVE Forker(s, f, q)
          OBVIOUS
        <4>1. s.img[q.write].pdev = None /\ s.img[q.write].from # None
          BY <1>t DEF Forker, Consistent, ImageOK
        <4>2. s.img[q.read].dev # None /\ Immutable(s.img[q.read])
          BY <4>1 DEF Forker, Consistent, Sound, ForksLive
        <4> QED BY <2>5, <4>2, <1>o, <1>a DEF Forker, Immutable
      <3>4. q.rw # None => Holds(s, f, q.rw, q.rwf)
        BY <2>1, <2>2, <1>h DEF SeqOK, SeqRecord
      <3> QED BY <2>1, <2>5, <3>r, <3>1, <3>2, <3>3, <3>4 DEF SeqOK
    <2>6. CASE d = c
      BY <2>1, <2>2, <2>6, <1>h DEF SeqOK, SeqRecord
    <2> QED BY <2>5, <2>6
  <1>2. \A x \in SharedSlots : PrefixOK(s, f, SH[x])
    <2> SUFFICES ASSUME NEW x \in SharedSlots PROVE PrefixOK(s, f, SH[x])
      OBVIOUS
    <2>1. PrefixOK(s, g, SH[x]) /\ SH[x].f \in Nat /\ SH[x].img # h
      BY <1>o DEF Consistent, Typed, PrefixRecord
    <2> QED BY <2>1, <1>h DEF PrefixOK
  <1>w. \A d \in Conts : R[d].rw = Q[d].rw /\ Owned(R[d]) = Owned(Q[d])
    BY <1>q DEF Owned, OwnsRead, Writer
  <1>3. \A k \in Images : ImageOK(s, R, SH, k)
    <2> SUFFICES ASSUME NEW k \in Images PROVE ImageOK(s, R, SH, k)
      OBVIOUS
    <2>1. ImageOK(s, Q, SH, k) /\ NamedByRewrite(R, k) = NamedByRewrite(Q, k)
      BY <1>w DEF Consistent, NamedByRewrite
    <2>2. \A d \in Conts : Q[d].fork => R[d] = Q[d]
      BY <1>q DEF Writer
    <2> QED BY <2>1, <2>2, <1>w DEF ImageOK
  <1>4. Distinct(R, SH)
    BY <1>w DEF Consistent, Distinct
  <1>5. ForksKept(R, SH)
    <2> SUFFICES ASSUME NEW d \in Conts, R[d].fork PROVE Keeper(R, SH, d)
      BY DEF ForksKept
    <2>1. d # c /\ R[d] = Q[d] /\ Q[c].role = "Active"
      BY <1>q DEF Writer
    <2>2. Keeper(Q, SH, d)
      BY <2>1, SeqTypes
    <2> QED BY <2>1, <2>2, <1>q DEF Keeper
  <1>s. Sound(s)
    BY DEF Consistent
  <1> QED BY <1>s, <1>1, <1>2, <1>3, <1>4, <1>5 DEF Consistent

(* An image with an outstanding transfer, and one without.                 *)
Pin(o) == [o EXCEPT !.pinned = TRUE]

(* The image once its transfer has ended.                                  *)
Unpin(o) == [o EXCEPT !.pinned = FALSE]

(* What release() does, as the new value of the image and of both pools.   *)
LEMMA ReleaseEffect ==
    ASSUME NEW s \in Store, NEW h \in Images
    PROVE  /\ SameImages(s, Release(s, h), {h})
           /\ Release(s, h).img[h] = NewObject("Free")
           /\ Release(s, h).freeDev = s.freeDev \cup ({s.img[h].dev} \ {None})
           /\ Release(s, h).freeHost = s.freeHost \cup ({s.img[h].host} \ {None})
  BY DEF Store, Image, SameImages, Pin, Unpin, Release

(* What retain_reference() does, as the new value of the image and of both *)
(* pools.                                                                  *)
LEMMA RetainEffect ==
    ASSUME NEW s \in Store, NEW h \in Images
    PROVE  /\ SameImages(s, RetainReference(s, h), {h})
           /\ RetainReference(s, h).img[h] = [s.img[h] EXCEPT !.refs = s.img[h].refs + 1]
           /\ RetainReference(s, h).freeDev = s.freeDev
           /\ RetainReference(s, h).freeHost = s.freeHost
  BY DEF Store, Image, SameImages, Pin, Unpin, RetainReference

(* What release_reference() does, as the new value of the image and of     *)
(* both pools.                                                             *)
LEMMA DereferenceEffect ==
    ASSUME NEW s \in Store, NEW h \in Images
    PROVE  /\ SameImages(s, ReleaseReference(s, h), {h})
           /\ ReleaseReference(s, h).img[h] = [s.img[h] EXCEPT !.refs = s.img[h].refs - 1]
           /\ ReleaseReference(s, h).freeDev = s.freeDev
           /\ ReleaseReference(s, h).freeHost = s.freeHost
  BY DEF Store, Image, SameImages, Pin, Unpin, ReleaseReference

(* What freeze() does, as the new value of the image and of both pools.    *)
LEMMA FreezeEffect ==
    ASSUME NEW s \in Store, NEW h \in Images
    PROVE  /\ SameImages(s, Freeze(s, h), {h})
           /\ Freeze(s, h).img[h] = [s.img[h] EXCEPT !.role = "CheckpointImmutable"]
           /\ Freeze(s, h).freeDev = s.freeDev
           /\ Freeze(s, h).freeHost = s.freeHost
  BY DEF Store, Image, SameImages, Pin, Unpin, Freeze

(* What thaw() does, as the new value of the image and of both pools.      *)
LEMMA ThawEffect ==
    ASSUME NEW s \in Store, NEW h \in Images
    PROVE  /\ SameImages(s, Thaw(s, h), {h})
           /\ Thaw(s, h).img[h] = [s.img[h] EXCEPT !.role = "ActiveMutable"]
           /\ Thaw(s, h).freeDev = s.freeDev
           /\ Thaw(s, h).freeHost = s.freeHost
  BY DEF Store, Image, SameImages, Pin, Unpin, Thaw

(* What move_to_active() does, as the new value of the image and of both   *)
(* pools.                                                                  *)
LEMMA MoveEffect ==
    ASSUME NEW s \in Store, NEW h \in Images
    PROVE  /\ SameImages(s, MoveToActive(s, h), {h})
           /\ MoveToActive(s, h).img[h] = [s.img[h] EXCEPT !.role = "ActiveMutable", !.host = None]
           /\ MoveToActive(s, h).freeDev = s.freeDev
           /\ MoveToActive(s, h).freeHost = s.freeHost \cup ({s.img[h].host} \ {None})
  BY DEF Store, Image, SameImages, Pin, Unpin, MoveToActive

(* What recycle() does, as the new value of the image and of both pools.   *)
LEMMA RecycleEffect ==
    ASSUME NEW s \in Store, NEW h \in Images
    PROVE  /\ SameImages(s, Recycle(s, h), {h})
           /\ Recycle(s, h).img[h] = [s.img[h] EXCEPT !.refs = 0, !.role = "ReservedDestination"]
           /\ Recycle(s, h).freeDev = s.freeDev
           /\ Recycle(s, h).freeHost = s.freeHost
  BY DEF Store, Image, SameImages, Pin, Unpin, Recycle

(* What restore_recycled() does, as the new value of the image and of both *)
(* pools.                                                                  *)
LEMMA RestoreEffect ==
    ASSUME NEW s \in Store, NEW h \in Images
    PROVE  /\ SameImages(s, RestoreRecycled(s, h), {h})
           /\ RestoreRecycled(s, h).img[h] = [s.img[h] EXCEPT !.refs = 1, !.role = "CheckpointImmutable"]
           /\ RestoreRecycled(s, h).freeDev = s.freeDev
           /\ RestoreRecycled(s, h).freeHost = s.freeHost
  BY DEF Store, Image, SameImages, Pin, Unpin, RestoreRecycled

(* What drop_device_replica() does, as the new value of the image and of   *)
(* both pools.                                                             *)
LEMMA DropDeviceEffect ==
    ASSUME NEW s \in Store, NEW h \in Images
    PROVE  /\ SameImages(s, DropDeviceReplica(s, h), {h})
           /\ DropDeviceReplica(s, h).img[h] = [s.img[h] EXCEPT !.dev = None]
           /\ DropDeviceReplica(s, h).freeDev = s.freeDev \cup {s.img[h].dev}
           /\ DropDeviceReplica(s, h).freeHost = s.freeHost
  BY DEF Store, Image, SameImages, Pin, Unpin, DropDeviceReplica

(* What drop_host_replica() does, as the new value of the image and of     *)
(* both pools.                                                             *)
LEMMA DropHostEffect ==
    ASSUME NEW s \in Store, NEW h \in Images
    PROVE  /\ SameImages(s, DropHostReplica(s, h), {h})
           /\ DropHostReplica(s, h).img[h] = [s.img[h] EXCEPT !.host = None]
           /\ DropHostReplica(s, h).freeDev = s.freeDev
           /\ DropHostReplica(s, h).freeHost = s.freeHost \cup {s.img[h].host}
  BY DEF Store, Image, SameImages, Pin, Unpin, DropHostReplica

(* What reserve_destination() leaves in each field of the images it        *)
(* touches.                                                                *)
LEMMA ReserveFields ==
    ASSUME NEW s \in Store, NEW h \in Images, NEW d \in DevSlots
    PROVE  /\ SameImages(s, ReserveDestination(s, h, d), {h})
           /\ ReserveDestination(s, h, d).img[h].role = "ReservedDestination"
           /\ ReserveDestination(s, h, d).img[h].host = None
           /\ ReserveDestination(s, h, d).img[h].pdev = None
           /\ ReserveDestination(s, h, d).img[h].phost = None
           /\ ReserveDestination(s, h, d).img[h].refs = 0
           /\ ReserveDestination(s, h, d).img[h].pins = 0
           /\ ReserveDestination(s, h, d).img[h].from = None
           /\ ~ReserveDestination(s, h, d).img[h].pinned
  BY DEF Store, Image, SameImages, NewObject, ReserveDestination

(* reserve_destination() gives the image the slot it was asked for.        *)
LEMMA ReserveTarget ==
    ASSUME NEW s \in Store, NEW h \in Images, NEW d \in DevSlots
    PROVE  ReserveDestination(s, h, d).img[h].dev = d
  BY DEF Store, Image, SameImages, NewObject, ReserveDestination

(* reserve_destination() takes that slot out of its pool and leaves the    *)
(* other pool alone.                                                       *)
LEMMA ReservePools ==
    ASSUME NEW s \in Store, NEW h \in Images, NEW d \in DevSlots
    PROVE  /\ ReserveDestination(s, h, d).freeDev = s.freeDev \ {d}
           /\ ReserveDestination(s, h, d).freeHost = s.freeHost
  BY DEF Store, Image, SameImages, NewObject, ReserveDestination

(* What reserve_logical_destination() leaves in each field of the images   *)
(* it touches.                                                             *)
LEMMA ReserveLogicalFields ==
    ASSUME NEW s \in Store, NEW h \in Images
    PROVE  /\ SameImages(s, ReserveLogicalDestination(s, h), {h})
           /\ ReserveLogicalDestination(s, h).img[h].role = "ReservedDestination"
           /\ ReserveLogicalDestination(s, h).img[h].dev = None
           /\ ReserveLogicalDestination(s, h).img[h].host = None
           /\ ReserveLogicalDestination(s, h).img[h].pdev = None
           /\ ReserveLogicalDestination(s, h).img[h].phost = None
           /\ ReserveLogicalDestination(s, h).img[h].refs = 0
           /\ ReserveLogicalDestination(s, h).img[h].pins = 0
           /\ ReserveLogicalDestination(s, h).img[h].from = None
           /\ ~ReserveLogicalDestination(s, h).img[h].pinned
           /\ ReserveLogicalDestination(s, h).freeDev = s.freeDev
           /\ ReserveLogicalDestination(s, h).freeHost = s.freeHost
  BY DEF Store, Image, SameImages, NewObject, ReserveLogicalDestination

(* What activate_reset() leaves in each field of the images it touches.    *)
LEMMA ActivateFields ==
    ASSUME NEW s \in Store, NEW h \in Images
    PROVE  /\ SameImages(s, ActivateReset(s, h), {h})
           /\ ActivateReset(s, h).img[h].role = "ActiveMutable"
           /\ ActivateReset(s, h).img[h].dev = s.img[h].dev
           /\ ActivateReset(s, h).img[h].host = s.img[h].host
           /\ ActivateReset(s, h).img[h].pdev = s.img[h].pdev
           /\ ActivateReset(s, h).img[h].phost = s.img[h].phost
           /\ ActivateReset(s, h).img[h].refs = s.img[h].refs
           /\ ActivateReset(s, h).img[h].pins = s.img[h].pins
           /\ ActivateReset(s, h).img[h].from = s.img[h].from
           /\ ActivateReset(s, h).img[h].pinned = s.img[h].pinned
           /\ ActivateReset(s, h).freeDev = s.freeDev
           /\ ActivateReset(s, h).freeHost = s.freeHost
  BY DEF Store, Image, SameImages, NewObject, ActivateReset

(* What retain_reference() leaves in each field of the images it touches.  *)
LEMMA RetainFields ==
    ASSUME NEW s \in Store, NEW h \in Images
    PROVE  /\ SameImages(s, RetainReference(s, h), {h})
           /\ RetainReference(s, h).img[h].role = s.img[h].role
           /\ RetainReference(s, h).img[h].dev = s.img[h].dev
           /\ RetainReference(s, h).img[h].host = s.img[h].host
           /\ RetainReference(s, h).img[h].pdev = s.img[h].pdev
           /\ RetainReference(s, h).img[h].phost = s.img[h].phost
           /\ RetainReference(s, h).img[h].refs = s.img[h].refs + 1
           /\ RetainReference(s, h).img[h].pins = s.img[h].pins
           /\ RetainReference(s, h).img[h].from = s.img[h].from
           /\ RetainReference(s, h).img[h].pinned = s.img[h].pinned
           /\ RetainReference(s, h).freeDev = s.freeDev
           /\ RetainReference(s, h).freeHost = s.freeHost
  BY DEF Store, Image, SameImages, NewObject, RetainReference

(* What freeze() leaves in each field of the images it touches.            *)
LEMMA FreezeFields ==
    ASSUME NEW s \in Store, NEW h \in Images
    PROVE  /\ SameImages(s, Freeze(s, h), {h})
           /\ Freeze(s, h).img[h].role = "CheckpointImmutable"
           /\ Freeze(s, h).img[h].dev = s.img[h].dev
           /\ Freeze(s, h).img[h].host = s.img[h].host
           /\ Freeze(s, h).img[h].pdev = s.img[h].pdev
           /\ Freeze(s, h).img[h].phost = s.img[h].phost
           /\ Freeze(s, h).img[h].refs = s.img[h].refs
           /\ Freeze(s, h).img[h].pins = s.img[h].pins
           /\ Freeze(s, h).img[h].from = s.img[h].from
           /\ Freeze(s, h).img[h].pinned = s.img[h].pinned
           /\ Freeze(s, h).freeDev = s.freeDev
           /\ Freeze(s, h).freeHost = s.freeHost
  BY DEF Store, Image, SameImages, NewObject, Freeze

(* What thaw() leaves in each field of the images it touches.              *)
LEMMA ThawFields ==
    ASSUME NEW s \in Store, NEW h \in Images
    PROVE  /\ SameImages(s, Thaw(s, h), {h})
           /\ Thaw(s, h).img[h].role = "ActiveMutable"
           /\ Thaw(s, h).img[h].dev = s.img[h].dev
           /\ Thaw(s, h).img[h].host = s.img[h].host
           /\ Thaw(s, h).img[h].pdev = s.img[h].pdev
           /\ Thaw(s, h).img[h].phost = s.img[h].phost
           /\ Thaw(s, h).img[h].refs = s.img[h].refs
           /\ Thaw(s, h).img[h].pins = s.img[h].pins
           /\ Thaw(s, h).img[h].from = s.img[h].from
           /\ Thaw(s, h).img[h].pinned = s.img[h].pinned
           /\ Thaw(s, h).freeDev = s.freeDev
           /\ Thaw(s, h).freeHost = s.freeHost
  BY DEF Store, Image, SameImages, NewObject, Thaw

(* What move_to_active() leaves in each field of the images it touches.    *)
LEMMA MoveFields ==
    ASSUME NEW s \in Store, NEW h \in Images
    PROVE  /\ SameImages(s, MoveToActive(s, h), {h})
           /\ MoveToActive(s, h).img[h].role = "ActiveMutable"
           /\ MoveToActive(s, h).img[h].dev = s.img[h].dev
           /\ MoveToActive(s, h).img[h].host = None
           /\ MoveToActive(s, h).img[h].pdev = s.img[h].pdev
           /\ MoveToActive(s, h).img[h].phost = s.img[h].phost
           /\ MoveToActive(s, h).img[h].refs = s.img[h].refs
           /\ MoveToActive(s, h).img[h].pins = s.img[h].pins
           /\ MoveToActive(s, h).img[h].from = s.img[h].from
           /\ MoveToActive(s, h).img[h].pinned = s.img[h].pinned
           /\ MoveToActive(s, h).freeDev = s.freeDev
           /\ MoveToActive(s, h).freeHost = s.freeHost \cup ({s.img[h].host} \ {None})
  BY DEF Store, Image, SameImages, NewObject, MoveToActive

(* What recycle() leaves in each field of the images it touches.           *)
LEMMA RecycleFields ==
    ASSUME NEW s \in Store, NEW h \in Images
    PROVE  /\ SameImages(s, Recycle(s, h), {h})
           /\ Recycle(s, h).img[h].role = "ReservedDestination"
           /\ Recycle(s, h).img[h].dev = s.img[h].dev
           /\ Recycle(s, h).img[h].host = s.img[h].host
           /\ Recycle(s, h).img[h].pdev = s.img[h].pdev
           /\ Recycle(s, h).img[h].phost = s.img[h].phost
           /\ Recycle(s, h).img[h].refs = 0
           /\ Recycle(s, h).img[h].pins = s.img[h].pins
           /\ Recycle(s, h).img[h].from = s.img[h].from
           /\ Recycle(s, h).img[h].pinned = s.img[h].pinned
           /\ Recycle(s, h).freeDev = s.freeDev
           /\ Recycle(s, h).freeHost = s.freeHost
  BY DEF Store, Image, SameImages, NewObject, Recycle

(* What restore_recycled() leaves in each field of the images it touches.  *)
LEMMA RestoreFields ==
    ASSUME NEW s \in Store, NEW h \in Images
    PROVE  /\ SameImages(s, RestoreRecycled(s, h), {h})
           /\ RestoreRecycled(s, h).img[h].role = "CheckpointImmutable"
           /\ RestoreRecycled(s, h).img[h].dev = s.img[h].dev
           /\ RestoreRecycled(s, h).img[h].host = s.img[h].host
           /\ RestoreRecycled(s, h).img[h].pdev = s.img[h].pdev
           /\ RestoreRecycled(s, h).img[h].phost = s.img[h].phost
           /\ RestoreRecycled(s, h).img[h].refs = 1
           /\ RestoreRecycled(s, h).img[h].pins = s.img[h].pins
           /\ RestoreRecycled(s, h).img[h].from = s.img[h].from
           /\ RestoreRecycled(s, h).img[h].pinned = s.img[h].pinned
           /\ RestoreRecycled(s, h).freeDev = s.freeDev
           /\ RestoreRecycled(s, h).freeHost = s.freeHost
  BY DEF Store, Image, SameImages, NewObject, RestoreRecycled

(* What drop_device_replica() leaves in each field of the images it        *)
(* touches.                                                                *)
LEMMA DropDeviceFields ==
    ASSUME NEW s \in Store, NEW h \in Images
    PROVE  /\ SameImages(s, DropDeviceReplica(s, h), {h})
           /\ DropDeviceReplica(s, h).img[h].role = s.img[h].role
           /\ DropDeviceReplica(s, h).img[h].dev = None
           /\ DropDeviceReplica(s, h).img[h].host = s.img[h].host
           /\ DropDeviceReplica(s, h).img[h].pdev = s.img[h].pdev
           /\ DropDeviceReplica(s, h).img[h].phost = s.img[h].phost
           /\ DropDeviceReplica(s, h).img[h].refs = s.img[h].refs
           /\ DropDeviceReplica(s, h).img[h].pins = s.img[h].pins
           /\ DropDeviceReplica(s, h).img[h].from = s.img[h].from
           /\ DropDeviceReplica(s, h).img[h].pinned = s.img[h].pinned
           /\ DropDeviceReplica(s, h).freeDev = s.freeDev \cup {s.img[h].dev}
           /\ DropDeviceReplica(s, h).freeHost = s.freeHost
  BY DEF Store, Image, SameImages, NewObject, DropDeviceReplica

(* What drop_host_replica() leaves in each field of the images it touches. *)
LEMMA DropHostFields ==
    ASSUME NEW s \in Store, NEW h \in Images
    PROVE  /\ SameImages(s, DropHostReplica(s, h), {h})
           /\ DropHostReplica(s, h).img[h].role = s.img[h].role
           /\ DropHostReplica(s, h).img[h].dev = s.img[h].dev
           /\ DropHostReplica(s, h).img[h].host = None
           /\ DropHostReplica(s, h).img[h].pdev = s.img[h].pdev
           /\ DropHostReplica(s, h).img[h].phost = s.img[h].phost
           /\ DropHostReplica(s, h).img[h].refs = s.img[h].refs
           /\ DropHostReplica(s, h).img[h].pins = s.img[h].pins
           /\ DropHostReplica(s, h).img[h].from = s.img[h].from
           /\ DropHostReplica(s, h).img[h].pinned = s.img[h].pinned
           /\ DropHostReplica(s, h).freeDev = s.freeDev
           /\ DropHostReplica(s, h).freeHost = s.freeHost \cup {s.img[h].host}
  BY DEF Store, Image, SameImages, NewObject, DropHostReplica

(* What begin_device_to_host() leaves in each field of the images it       *)
(* touches.                                                                *)
LEMMA ToHostFields ==
    ASSUME NEW s \in Store, NEW h \in Images, NEW d \in HostSlots
    PROVE  /\ SameImages(s, BeginDeviceToHost(s, h, d), {h})
           /\ BeginDeviceToHost(s, h, d).img[h].role = s.img[h].role
           /\ BeginDeviceToHost(s, h, d).img[h].dev = s.img[h].dev
           /\ BeginDeviceToHost(s, h, d).img[h].host = s.img[h].host
           /\ BeginDeviceToHost(s, h, d).img[h].pdev = s.img[h].pdev
           /\ BeginDeviceToHost(s, h, d).img[h].refs = s.img[h].refs
           /\ BeginDeviceToHost(s, h, d).img[h].pins = s.img[h].pins + 1
           /\ BeginDeviceToHost(s, h, d).img[h].from = s.img[h].from
           /\ BeginDeviceToHost(s, h, d).img[h].pinned
  BY DEF Store, Image, SameImages, NewObject, BeginDeviceToHost

(* begin_device_to_host() gives the image the slot it was asked for.       *)
LEMMA ToHostTarget ==
    ASSUME NEW s \in Store, NEW h \in Images, NEW d \in HostSlots
    PROVE  BeginDeviceToHost(s, h, d).img[h].phost = d
  BY DEF Store, Image, SameImages, NewObject, BeginDeviceToHost

(* begin_device_to_host() takes that slot out of its pool and leaves the   *)
(* other pool alone.                                                       *)
LEMMA ToHostPools ==
    ASSUME NEW s \in Store, NEW h \in Images, NEW d \in HostSlots
    PROVE  /\ BeginDeviceToHost(s, h, d).freeDev = s.freeDev
           /\ BeginDeviceToHost(s, h, d).freeHost = s.freeHost \ {d}
  BY DEF Store, Image, SameImages, NewObject, BeginDeviceToHost

(* What begin_host_to_device() leaves in each field of the images it       *)
(* touches.                                                                *)
LEMMA ToDeviceFields ==
    ASSUME NEW s \in Store, NEW h \in Images, NEW d \in DevSlots
    PROVE  /\ SameImages(s, BeginHostToDevice(s, h, d), {h})
           /\ BeginHostToDevice(s, h, d).img[h].role = s.img[h].role
           /\ BeginHostToDevice(s, h, d).img[h].dev = s.img[h].dev
           /\ BeginHostToDevice(s, h, d).img[h].host = s.img[h].host
           /\ BeginHostToDevice(s, h, d).img[h].phost = s.img[h].phost
           /\ BeginHostToDevice(s, h, d).img[h].refs = s.img[h].refs
           /\ BeginHostToDevice(s, h, d).img[h].pins = s.img[h].pins + 1
           /\ BeginHostToDevice(s, h, d).img[h].from = s.img[h].from
           /\ BeginHostToDevice(s, h, d).img[h].pinned
  BY DEF Store, Image, SameImages, NewObject, BeginHostToDevice

(* begin_host_to_device() gives the image the slot it was asked for.       *)
LEMMA ToDeviceTarget ==
    ASSUME NEW s \in Store, NEW h \in Images, NEW d \in DevSlots
    PROVE  BeginHostToDevice(s, h, d).img[h].pdev = d
  BY DEF Store, Image, SameImages, NewObject, BeginHostToDevice

(* begin_host_to_device() takes that slot out of its pool and leaves the   *)
(* other pool alone.                                                       *)
LEMMA ToDevicePools ==
    ASSUME NEW s \in Store, NEW h \in Images, NEW d \in DevSlots
    PROVE  /\ BeginHostToDevice(s, h, d).freeDev = s.freeDev \ {d}
           /\ BeginHostToDevice(s, h, d).freeHost = s.freeHost
  BY SMTT(40) DEF Store, Image, SameImages, NewObject, BeginHostToDevice

(* What publish_transfer() of a demotion that gives up the Device replica  *)
(* leaves in each field of the images it touches.                          *)
LEMMA DemotedFields ==
    ASSUME NEW s \in Store, NEW h \in Images
    PROVE  /\ SameImages(s, PublishDeviceToHost(s, h, FALSE), {h})
           /\ PublishDeviceToHost(s, h, FALSE).img[h].role = s.img[h].role
           /\ PublishDeviceToHost(s, h, FALSE).img[h].dev = None
           /\ PublishDeviceToHost(s, h, FALSE).img[h].host = s.img[h].phost
           /\ PublishDeviceToHost(s, h, FALSE).img[h].pdev = s.img[h].pdev
           /\ PublishDeviceToHost(s, h, FALSE).img[h].phost = None
           /\ PublishDeviceToHost(s, h, FALSE).img[h].refs = s.img[h].refs
           /\ PublishDeviceToHost(s, h, FALSE).img[h].pins = s.img[h].pins - 1
           /\ PublishDeviceToHost(s, h, FALSE).img[h].from = s.img[h].from
           /\ ~PublishDeviceToHost(s, h, FALSE).img[h].pinned
           /\ PublishDeviceToHost(s, h, FALSE).freeDev = s.freeDev \cup {s.img[h].dev}
           /\ PublishDeviceToHost(s, h, FALSE).freeHost = s.freeHost
  BY SMTT(40) DEF Store, Image, SameImages, NewObject, PublishDeviceToHost

(* What publish_transfer() of a demotion that keeps the Device replica     *)
(* leaves in each field of the images it touches.                          *)
LEMMA CopiedFields ==
    ASSUME NEW s \in Store, NEW h \in Images
    PROVE  /\ SameImages(s, PublishDeviceToHost(s, h, TRUE), {h})
           /\ PublishDeviceToHost(s, h, TRUE).img[h].role = s.img[h].role
           /\ PublishDeviceToHost(s, h, TRUE).img[h].dev = s.img[h].dev
           /\ PublishDeviceToHost(s, h, TRUE).img[h].host = s.img[h].phost
           /\ PublishDeviceToHost(s, h, TRUE).img[h].pdev = s.img[h].pdev
           /\ PublishDeviceToHost(s, h, TRUE).img[h].phost = None
           /\ PublishDeviceToHost(s, h, TRUE).img[h].refs = s.img[h].refs
           /\ PublishDeviceToHost(s, h, TRUE).img[h].pins = s.img[h].pins - 1
           /\ PublishDeviceToHost(s, h, TRUE).img[h].from = s.img[h].from
           /\ ~PublishDeviceToHost(s, h, TRUE).img[h].pinned
           /\ PublishDeviceToHost(s, h, TRUE).freeDev = s.freeDev
           /\ PublishDeviceToHost(s, h, TRUE).freeHost = s.freeHost
  BY SMTT(40) DEF Store, Image, SameImages, NewObject, PublishDeviceToHost

(* What publish_transfer() of a Host to Device copy leaves in each field   *)
(* of the images it touches.                                               *)
LEMMA RestoredFields ==
    ASSUME NEW s \in Store, NEW h \in Images
    PROVE  /\ SameImages(s, PublishHostToDevice(s, h, TRUE), {h})
           /\ PublishHostToDevice(s, h, TRUE).img[h].role = s.img[h].role
           /\ PublishHostToDevice(s, h, TRUE).img[h].dev = s.img[h].pdev
           /\ PublishHostToDevice(s, h, TRUE).img[h].host = s.img[h].host
           /\ PublishHostToDevice(s, h, TRUE).img[h].pdev = None
           /\ PublishHostToDevice(s, h, TRUE).img[h].phost = s.img[h].phost
           /\ PublishHostToDevice(s, h, TRUE).img[h].refs = s.img[h].refs
           /\ PublishHostToDevice(s, h, TRUE).img[h].pins = s.img[h].pins - 1
           /\ PublishHostToDevice(s, h, TRUE).img[h].from = s.img[h].from
           /\ ~PublishHostToDevice(s, h, TRUE).img[h].pinned
           /\ PublishHostToDevice(s, h, TRUE).freeDev = s.freeDev
           /\ PublishHostToDevice(s, h, TRUE).freeHost = s.freeHost
  BY DEF Store, Image, SameImages, NewObject, PublishHostToDevice

(* What abort_transfer() of a Device to Host copy leaves in each field of  *)
(* the images it touches.                                                  *)
LEMMA UnToHostFields ==
    ASSUME NEW s \in Store, NEW h \in Images
    PROVE  /\ SameImages(s, AbortDeviceToHost(s, h), {h})
           /\ AbortDeviceToHost(s, h).img[h].role = s.img[h].role
           /\ AbortDeviceToHost(s, h).img[h].dev = s.img[h].dev
           /\ AbortDeviceToHost(s, h).img[h].host = s.img[h].host
           /\ AbortDeviceToHost(s, h).img[h].pdev = s.img[h].pdev
           /\ AbortDeviceToHost(s, h).img[h].phost = None
           /\ AbortDeviceToHost(s, h).img[h].refs = s.img[h].refs
           /\ AbortDeviceToHost(s, h).img[h].pins = s.img[h].pins - 1
           /\ AbortDeviceToHost(s, h).img[h].from = s.img[h].from
           /\ ~AbortDeviceToHost(s, h).img[h].pinned
           /\ AbortDeviceToHost(s, h).freeDev = s.freeDev
           /\ AbortDeviceToHost(s, h).freeHost = s.freeHost \cup {s.img[h].phost}
  BY DEF Store, Image, SameImages, NewObject, AbortDeviceToHost

(* What abort_transfer() of a Host to Device copy leaves in each field of  *)
(* the images it touches.                                                  *)
LEMMA UnToDeviceFields ==
    ASSUME NEW s \in Store, NEW h \in Images
    PROVE  /\ SameImages(s, AbortHostToDevice(s, h), {h})
           /\ AbortHostToDevice(s, h).img[h].role = s.img[h].role
           /\ AbortHostToDevice(s, h).img[h].dev = s.img[h].dev
           /\ AbortHostToDevice(s, h).img[h].host = s.img[h].host
           /\ AbortHostToDevice(s, h).img[h].pdev = None
           /\ AbortHostToDevice(s, h).img[h].phost = s.img[h].phost
           /\ AbortHostToDevice(s, h).img[h].refs = s.img[h].refs
           /\ AbortHostToDevice(s, h).img[h].pins = s.img[h].pins - 1
           /\ AbortHostToDevice(s, h).img[h].from = s.img[h].from
           /\ ~AbortHostToDevice(s, h).img[h].pinned
           /\ AbortHostToDevice(s, h).freeDev = s.freeDev \cup {s.img[h].pdev}
           /\ AbortHostToDevice(s, h).freeHost = s.freeHost
  BY DEF Store, Image, SameImages, NewObject, AbortHostToDevice

(* What split_device_replica_identity() leaves in each field of the images *)
(* it touches.                                                             *)
LEMMA SplitFields ==
    ASSUME NEW s \in Store, NEW h \in Images, NEW k \in Images, h # k
    PROVE  /\ SameImages(s, SplitIdentity(s, h, k), {h, k})
           /\ SplitIdentity(s, h, k).img[h].role = s.img[h].role
           /\ SplitIdentity(s, h, k).img[h].dev = None
           /\ SplitIdentity(s, h, k).img[h].host = s.img[h].host
           /\ SplitIdentity(s, h, k).img[h].pdev = s.img[h].pdev
           /\ SplitIdentity(s, h, k).img[h].phost = s.img[h].phost
           /\ SplitIdentity(s, h, k).img[h].refs = s.img[h].refs
           /\ SplitIdentity(s, h, k).img[h].pins = s.img[h].pins
           /\ SplitIdentity(s, h, k).img[h].from = s.img[h].from
           /\ SplitIdentity(s, h, k).img[h].pinned = s.img[h].pinned
           /\ SplitIdentity(s, h, k).img[k].role = "ActiveMutable"
           /\ SplitIdentity(s, h, k).img[k].dev = s.img[h].dev
           /\ SplitIdentity(s, h, k).img[k].host = s.img[k].host
           /\ SplitIdentity(s, h, k).img[k].pdev = s.img[k].pdev
           /\ SplitIdentity(s, h, k).img[k].phost = s.img[k].phost
           /\ SplitIdentity(s, h, k).img[k].refs = s.img[k].refs
           /\ SplitIdentity(s, h, k).img[k].pins = s.img[k].pins
           /\ SplitIdentity(s, h, k).img[k].from = s.img[k].from
           /\ SplitIdentity(s, h, k).img[k].pinned = s.img[k].pinned
           /\ SplitIdentity(s, h, k).freeDev = s.freeDev
           /\ SplitIdentity(s, h, k).freeHost = s.freeHost
  BY SMTT(100) DEF Store, Image, SameImages, NewObject, SplitIdentity

(* What begin_fork() leaves in each field of the images it touches.        *)
LEMMA ForkFields ==
    ASSUME NEW s \in Store, NEW h \in Images, NEW k \in Images, h # k
    PROVE  /\ SameImages(s, BeginFork(s, h, k), {h, k})
           /\ BeginFork(s, h, k).img[h].role = s.img[h].role
           /\ BeginFork(s, h, k).img[h].dev = s.img[h].dev
           /\ BeginFork(s, h, k).img[h].host = s.img[h].host
           /\ BeginFork(s, h, k).img[h].pdev = s.img[h].pdev
           /\ BeginFork(s, h, k).img[h].phost = s.img[h].phost
           /\ BeginFork(s, h, k).img[h].refs = s.img[h].refs
           /\ BeginFork(s, h, k).img[h].pins = s.img[h].pins + 1
           /\ BeginFork(s, h, k).img[h].from = s.img[h].from
           /\ BeginFork(s, h, k).img[h].pinned = s.img[h].pinned
           /\ BeginFork(s, h, k).img[k].role = "ActiveMutable"
           /\ BeginFork(s, h, k).img[k].dev = s.img[k].dev
           /\ BeginFork(s, h, k).img[k].host = s.img[k].host
           /\ BeginFork(s, h, k).img[k].pdev = s.img[k].pdev
           /\ BeginFork(s, h, k).img[k].phost = s.img[k].phost
           /\ BeginFork(s, h, k).img[k].refs = s.img[k].refs
           /\ BeginFork(s, h, k).img[k].pins = s.img[k].pins
           /\ BeginFork(s, h, k).img[k].pinned
           /\ BeginFork(s, h, k).freeDev = s.freeDev
           /\ BeginFork(s, h, k).freeHost = s.freeHost
  BY SMTT(100) DEF Store, Image, SameImages, NewObject, BeginFork

(* begin_fork() records which image the destination reads.                 *)
LEMMA ForkSource ==
    ASSUME NEW s \in Store, NEW h \in Images, NEW k \in Images, h # k
    PROVE  BeginFork(s, h, k).img[k].from = h
  BY SMTT(100) DEF Store, Image, SameImages, NewObject, BeginFork

(* What commit_fork() leaves in each field of the images it touches.       *)
LEMMA CommitFields ==
    ASSUME NEW s \in Store, NEW h \in Images, NEW k \in Images, h # k
    PROVE  /\ SameImages(s, CommitFork(s, h, k), {h, k})
           /\ CommitFork(s, h, k).img[h].role = s.img[h].role
           /\ CommitFork(s, h, k).img[h].dev = s.img[h].dev
           /\ CommitFork(s, h, k).img[h].host = s.img[h].host
           /\ CommitFork(s, h, k).img[h].pdev = s.img[h].pdev
           /\ CommitFork(s, h, k).img[h].phost = s.img[h].phost
           /\ CommitFork(s, h, k).img[h].refs = s.img[h].refs
           /\ CommitFork(s, h, k).img[h].pins = s.img[h].pins - 1
           /\ CommitFork(s, h, k).img[h].from = s.img[h].from
           /\ CommitFork(s, h, k).img[h].pinned = s.img[h].pinned
           /\ CommitFork(s, h, k).img[k].role = s.img[k].role
           /\ CommitFork(s, h, k).img[k].dev = s.img[k].dev
           /\ CommitFork(s, h, k).img[k].host = s.img[k].host
           /\ CommitFork(s, h, k).img[k].pdev = s.img[k].pdev
           /\ CommitFork(s, h, k).img[k].phost = s.img[k].phost
           /\ CommitFork(s, h, k).img[k].refs = s.img[k].refs
           /\ CommitFork(s, h, k).img[k].pins = s.img[k].pins
           /\ CommitFork(s, h, k).img[k].from = None
           /\ ~CommitFork(s, h, k).img[k].pinned
           /\ CommitFork(s, h, k).freeDev = s.freeDev
           /\ CommitFork(s, h, k).freeHost = s.freeHost
  BY SMTT(100) DEF Store, Image, SameImages, NewObject, CommitFork

(* What abort_fork() leaves in each field of the images it touches.        *)
LEMMA UnforkFields ==
    ASSUME NEW s \in Store, NEW h \in Images, NEW k \in Images, h # k
    PROVE  /\ SameImages(s, AbortFork(s, h, k), {h, k})
           /\ AbortFork(s, h, k).img[h].role = s.img[h].role
           /\ AbortFork(s, h, k).img[h].dev = s.img[h].dev
           /\ AbortFork(s, h, k).img[h].host = s.img[h].host
           /\ AbortFork(s, h, k).img[h].pdev = s.img[h].pdev
           /\ AbortFork(s, h, k).img[h].phost = s.img[h].phost
           /\ AbortFork(s, h, k).img[h].refs = s.img[h].refs
           /\ AbortFork(s, h, k).img[h].pins = s.img[h].pins - 1
           /\ AbortFork(s, h, k).img[h].from = s.img[h].from
           /\ AbortFork(s, h, k).img[h].pinned = s.img[h].pinned
           /\ AbortFork(s, h, k).img[k].role = "ReservedDestination"
           /\ AbortFork(s, h, k).img[k].dev = s.img[k].dev
           /\ AbortFork(s, h, k).img[k].host = s.img[k].host
           /\ AbortFork(s, h, k).img[k].pdev = s.img[k].pdev
           /\ AbortFork(s, h, k).img[k].phost = s.img[k].phost
           /\ AbortFork(s, h, k).img[k].refs = s.img[k].refs
           /\ AbortFork(s, h, k).img[k].pins = s.img[k].pins
           /\ AbortFork(s, h, k).img[k].from = None
           /\ ~AbortFork(s, h, k).img[k].pinned
           /\ AbortFork(s, h, k).freeDev = s.freeDev
           /\ AbortFork(s, h, k).freeHost = s.freeHost
  BY SMTT(100) DEF Store, Image, SameImages, NewObject, AbortFork

(* What begin_host_fork() leaves in each field of the images it touches.   *)
LEMMA HostForkFields ==
    ASSUME NEW s \in Store, NEW h \in Images, NEW k \in Images, NEW d \in DevSlots, h # k
    PROVE  /\ SameImages(s, BeginHostFork(s, h, k, d), {h, k})
           /\ BeginHostFork(s, h, k, d).img[h].role = s.img[h].role
           /\ BeginHostFork(s, h, k, d).img[h].dev = s.img[h].dev
           /\ BeginHostFork(s, h, k, d).img[h].host = s.img[h].host
           /\ BeginHostFork(s, h, k, d).img[h].pdev = s.img[h].pdev
           /\ BeginHostFork(s, h, k, d).img[h].phost = s.img[h].phost
           /\ BeginHostFork(s, h, k, d).img[h].refs = s.img[h].refs
           /\ BeginHostFork(s, h, k, d).img[h].pins = s.img[h].pins + 1
           /\ BeginHostFork(s, h, k, d).img[h].from = s.img[h].from
           /\ BeginHostFork(s, h, k, d).img[h].pinned = s.img[h].pinned
           /\ BeginHostFork(s, h, k, d).img[k].role = "ActiveMutable"
           /\ BeginHostFork(s, h, k, d).img[k].dev = s.img[k].dev
           /\ BeginHostFork(s, h, k, d).img[k].host = s.img[k].host
           /\ BeginHostFork(s, h, k, d).img[k].phost = s.img[k].phost
           /\ BeginHostFork(s, h, k, d).img[k].refs = s.img[k].refs
           /\ BeginHostFork(s, h, k, d).img[k].pins = s.img[k].pins
           /\ BeginHostFork(s, h, k, d).img[k].pinned
  BY SMTT(100) DEF Store, Image, SameImages, NewObject, BeginHostFork

(* begin_host_fork() gives the image the slot it was asked for.            *)
LEMMA HostForkTarget ==
    ASSUME NEW s \in Store, NEW h \in Images, NEW k \in Images, NEW d \in DevSlots, h # k
    PROVE  BeginHostFork(s, h, k, d).img[k].pdev = d
  BY SMTT(100) DEF Store, Image, SameImages, NewObject, BeginHostFork

(* begin_host_fork() records which image the destination reads.            *)
LEMMA HostForkSource ==
    ASSUME NEW s \in Store, NEW h \in Images, NEW k \in Images, NEW d \in DevSlots, h # k
    PROVE  BeginHostFork(s, h, k, d).img[k].from = h
  <1>1. /\ SameImages(s, BeginHostFork(s, h, k, d), {h, k})
        /\ BeginHostFork(s, h, k, d).img[k].from = h
        /\ BeginHostFork(s, h, k, d).img[k].pdev = d
    BY SMTT(60) DEF Store, Image, BeginHostFork, SameImages
  <1> QED BY <1>1

(* begin_host_fork() takes that slot out of its pool and leaves the other  *)
(* pool alone.                                                             *)
LEMMA HostForkPools ==
    ASSUME NEW s \in Store, NEW h \in Images, NEW k \in Images, NEW d \in DevSlots, h # k
    PROVE  /\ BeginHostFork(s, h, k, d).freeDev = s.freeDev \ {d}
           /\ BeginHostFork(s, h, k, d).freeHost = s.freeHost
  BY SMTT(100) DEF Store, Image, SameImages, NewObject, BeginHostFork

(* What publish_transfer() of a Host fork leaves in each field of the      *)
(* images it touches.                                                      *)
LEMMA HostForkedFields ==
    ASSUME NEW s \in Store, NEW h \in Images, NEW k \in Images, h # k
    PROVE  /\ SameImages(s, PublishHostFork(s, h, k), {h, k})
           /\ PublishHostFork(s, h, k).img[h].role = s.img[h].role
           /\ PublishHostFork(s, h, k).img[h].dev = s.img[h].dev
           /\ PublishHostFork(s, h, k).img[h].host = s.img[h].host
           /\ PublishHostFork(s, h, k).img[h].pdev = s.img[h].pdev
           /\ PublishHostFork(s, h, k).img[h].phost = s.img[h].phost
           /\ PublishHostFork(s, h, k).img[h].refs = s.img[h].refs
           /\ PublishHostFork(s, h, k).img[h].pins = s.img[h].pins - 1
           /\ PublishHostFork(s, h, k).img[h].from = s.img[h].from
           /\ PublishHostFork(s, h, k).img[h].pinned = s.img[h].pinned
           /\ PublishHostFork(s, h, k).img[k].role = s.img[k].role
           /\ PublishHostFork(s, h, k).img[k].dev = s.img[k].pdev
           /\ PublishHostFork(s, h, k).img[k].host = s.img[k].host
           /\ PublishHostFork(s, h, k).img[k].pdev = None
           /\ PublishHostFork(s, h, k).img[k].phost = s.img[k].phost
           /\ PublishHostFork(s, h, k).img[k].refs = s.img[k].refs
           /\ PublishHostFork(s, h, k).img[k].pins = s.img[k].pins
           /\ PublishHostFork(s, h, k).img[k].from = None
           /\ ~PublishHostFork(s, h, k).img[k].pinned
           /\ PublishHostFork(s, h, k).freeDev = s.freeDev
           /\ PublishHostFork(s, h, k).freeHost = s.freeHost
  <1> DEFINE o == s.img[h]
             c == s.img[k]
             p == [o EXCEPT !.pins = o.pins - 1]
             q == [c EXCEPT !.dev = c.pdev, !.pdev = None, !.pinned = FALSE, !.from = None]
  <1>1. PublishHostFork(s, h, k) = [img |-> [s.img EXCEPT ![h] = p, ![k] = q],
                                    freeDev |-> s.freeDev, freeHost |-> s.freeHost]
    <2> SUFFICES ASSUME NEW r, r = PublishHostFork(s, h, k)
                 PROVE  r = [img |-> [s.img EXCEPT ![h] = p, ![k] = q],
                             freeDev |-> s.freeDev, freeHost |-> s.freeHost]
      OBVIOUS
    <2>1. s.img \in [Images -> Image]
      BY DEF Store
    <2> QED BY <2>1, ZenonT(40) DEF Store, PublishHostFork
  <1>2. o \in Image /\ c \in Image /\ s.img \in [Images -> Image]
    BY DEF Store
  <1>3. /\ p.role = o.role /\ p.dev = o.dev /\ p.host = o.host /\ p.pdev = o.pdev /\ p.phost = o.phost
        /\ p.refs = o.refs /\ p.pins = o.pins - 1 /\ p.from = o.from /\ p.pinned = o.pinned
    BY <1>2 DEF Image
  <1>4. /\ q.role = c.role /\ q.dev = c.pdev /\ q.host = c.host /\ q.pdev = None /\ q.phost = c.phost
        /\ q.refs = c.refs /\ q.pins = c.pins /\ q.from = None /\ ~q.pinned
    BY <1>2 DEF Image
  <1> HIDE DEF p, q
  <1>5. /\ PublishHostFork(s, h, k).img[h] = p /\ PublishHostFork(s, h, k).img[k] = q
        /\ SameImages(s, PublishHostFork(s, h, k), {h, k})
        /\ PublishHostFork(s, h, k).freeDev = s.freeDev
        /\ PublishHostFork(s, h, k).freeHost = s.freeHost
    BY <1>1, <1>2, SMTT(40) DEF SameImages
  <1> QED BY <1>3, <1>4, <1>5

(* What abort_transfer() of a Host fork leaves in each field of the images *)
(* it touches.                                                             *)
LEMMA UnHostForkFields ==
    ASSUME NEW s \in Store, NEW h \in Images, NEW k \in Images, h # k
    PROVE  /\ SameImages(s, AbortHostFork(s, h, k), {h, k})
           /\ AbortHostFork(s, h, k).img[h].role = s.img[h].role
           /\ AbortHostFork(s, h, k).img[h].dev = s.img[h].dev
           /\ AbortHostFork(s, h, k).img[h].host = s.img[h].host
           /\ AbortHostFork(s, h, k).img[h].pdev = s.img[h].pdev
           /\ AbortHostFork(s, h, k).img[h].phost = s.img[h].phost
           /\ AbortHostFork(s, h, k).img[h].refs = s.img[h].refs
           /\ AbortHostFork(s, h, k).img[h].pins = s.img[h].pins - 1
           /\ AbortHostFork(s, h, k).img[h].from = s.img[h].from
           /\ AbortHostFork(s, h, k).img[h].pinned = s.img[h].pinned
           /\ AbortHostFork(s, h, k).img[k].role = "ReservedDestination"
           /\ AbortHostFork(s, h, k).img[k].dev = s.img[k].dev
           /\ AbortHostFork(s, h, k).img[k].host = s.img[k].host
           /\ AbortHostFork(s, h, k).img[k].pdev = None
           /\ AbortHostFork(s, h, k).img[k].phost = s.img[k].phost
           /\ AbortHostFork(s, h, k).img[k].refs = s.img[k].refs
           /\ AbortHostFork(s, h, k).img[k].pins = s.img[k].pins
           /\ AbortHostFork(s, h, k).img[k].from = None
           /\ ~AbortHostFork(s, h, k).img[k].pinned
           /\ AbortHostFork(s, h, k).freeDev = s.freeDev \cup {s.img[k].pdev}
           /\ AbortHostFork(s, h, k).freeHost = s.freeHost
  BY SMTT(100) DEF Store, Image, SameImages, NewObject, AbortHostFork

(* Two images with the same fields are the same image.                     *)
LEMMA ImageEq ==
    ASSUME NEW o \in Image, NEW p \in Image,
           p.role = o.role, p.dev = o.dev, p.host = o.host, p.pdev = o.pdev, p.phost = o.phost,
           p.refs = o.refs, p.pins = o.pins, p.from = o.from, p.pinned = o.pinned
    PROVE  p = o
  <1>1. o = [role |-> o.role, dev |-> o.dev, host |-> o.host, pdev |-> o.pdev, phost |-> o.phost,
            refs |-> o.refs, pins |-> o.pins, pinned |-> o.pinned, from |-> o.from]
    BY DEF Image
  <1>2. p = [role |-> p.role, dev |-> p.dev, host |-> p.host, pdev |-> p.pdev, phost |-> p.phost,
            refs |-> p.refs, pins |-> p.pins, pinned |-> p.pinned, from |-> p.from]
    BY DEF Image
  <1> QED BY <1>1, <1>2, Zenon

(* reserve_destination() took store s to store r.                          *)
DidReserve(s, r, h, d) ==
    /\ SameImages(s, r, {h})
    /\ r.img[h].role = "ReservedDestination"
    /\ r.img[h].host = None
    /\ r.img[h].pdev = None
    /\ r.img[h].phost = None
    /\ r.img[h].refs = 0
    /\ r.img[h].pins = 0
    /\ r.img[h].from = None
    /\ ~r.img[h].pinned
    /\ r.img[h].dev = d
    /\ r.freeDev = s.freeDev \ {d}
    /\ r.freeHost = s.freeHost

(* The model of reserve_destination() does exactly that.                   *)
LEMMA ReserveDid ==
    ASSUME NEW s \in Store, NEW h \in Images, NEW d \in DevSlots
    PROVE  DidReserve(s, ReserveDestination(s, h, d), h, d)
  <1> DEFINE r == ReserveDestination(s, h, d)
  <1>1. /\ SameImages(s, r, {h})
        /\ r.img[h].role = "ReservedDestination"
        /\ r.img[h].host = None
        /\ r.img[h].pdev = None
        /\ r.img[h].phost = None
        /\ r.img[h].refs = 0
        /\ r.img[h].pins = 0
        /\ r.img[h].from = None
        /\ ~r.img[h].pinned
    BY ReserveFields
  <1>2. /\ r.img[h].dev = d
    BY ReserveTarget
  <1>3. /\ r.freeDev = s.freeDev \ {d}
        /\ r.freeHost = s.freeHost
    BY ReservePools
  <1> HIDE DEF r
  <1>4. DidReserve(s, r, h, d)
    BY <1>1, <1>2, <1>3 DEF DidReserve
  <1> QED BY <1>4 DEF r

(* retain_reference() took store s to store r.                             *)
DidRetain(s, r, h) ==
    /\ SameImages(s, r, {h})
    /\ r.img[h].role = s.img[h].role
    /\ r.img[h].dev = s.img[h].dev
    /\ r.img[h].host = s.img[h].host
    /\ r.img[h].pdev = s.img[h].pdev
    /\ r.img[h].phost = s.img[h].phost
    /\ r.img[h].refs = s.img[h].refs + 1
    /\ r.img[h].pins = s.img[h].pins
    /\ r.img[h].from = s.img[h].from
    /\ r.img[h].pinned = s.img[h].pinned
    /\ r.freeDev = s.freeDev
    /\ r.freeHost = s.freeHost
    /\ r.img[h] = [s.img[h] EXCEPT !.refs = s.img[h].refs + 1]

(* The model of retain_reference() does exactly that.                      *)
LEMMA RetainDid ==
    ASSUME NEW s \in Store, NEW h \in Images
    PROVE  DidRetain(s, RetainReference(s, h), h)
  <1> DEFINE r == RetainReference(s, h)
  <1>1. /\ SameImages(s, r, {h})
        /\ r.img[h].role = s.img[h].role
        /\ r.img[h].dev = s.img[h].dev
        /\ r.img[h].host = s.img[h].host
        /\ r.img[h].pdev = s.img[h].pdev
        /\ r.img[h].phost = s.img[h].phost
        /\ r.img[h].refs = s.img[h].refs + 1
        /\ r.img[h].pins = s.img[h].pins
        /\ r.img[h].from = s.img[h].from
        /\ r.img[h].pinned = s.img[h].pinned
        /\ r.freeDev = s.freeDev
        /\ r.freeHost = s.freeHost
    BY RetainFields
  <1>2. r.img[h] = [s.img[h] EXCEPT !.refs = s.img[h].refs + 1]
    BY RetainEffect, Zenon
  <1> HIDE DEF r
  <1>3. DidRetain(s, r, h)
    BY <1>1, <1>2 DEF DidRetain
  <1> QED BY <1>3 DEF r

(* freeze() took store s to store r.                                       *)
DidFreeze(s, r, h) ==
    /\ SameImages(s, r, {h})
    /\ r.img[h].role = "CheckpointImmutable"
    /\ r.img[h].dev = s.img[h].dev
    /\ r.img[h].host = s.img[h].host
    /\ r.img[h].pdev = s.img[h].pdev
    /\ r.img[h].phost = s.img[h].phost
    /\ r.img[h].refs = s.img[h].refs
    /\ r.img[h].pins = s.img[h].pins
    /\ r.img[h].from = s.img[h].from
    /\ r.img[h].pinned = s.img[h].pinned
    /\ r.freeDev = s.freeDev
    /\ r.freeHost = s.freeHost
    /\ r.img[h] = [s.img[h] EXCEPT !.role = "CheckpointImmutable"]

(* The model of freeze() does exactly that.                                *)
LEMMA FreezeDid ==
    ASSUME NEW s \in Store, NEW h \in Images
    PROVE  DidFreeze(s, Freeze(s, h), h)
  <1> DEFINE r == Freeze(s, h)
  <1>1. /\ SameImages(s, r, {h})
        /\ r.img[h].role = "CheckpointImmutable"
        /\ r.img[h].dev = s.img[h].dev
        /\ r.img[h].host = s.img[h].host
        /\ r.img[h].pdev = s.img[h].pdev
        /\ r.img[h].phost = s.img[h].phost
        /\ r.img[h].refs = s.img[h].refs
        /\ r.img[h].pins = s.img[h].pins
        /\ r.img[h].from = s.img[h].from
        /\ r.img[h].pinned = s.img[h].pinned
        /\ r.freeDev = s.freeDev
        /\ r.freeHost = s.freeHost
    BY FreezeFields
  <1>2. r.img[h] = [s.img[h] EXCEPT !.role = "CheckpointImmutable"]
    BY FreezeEffect, Zenon
  <1> HIDE DEF r
  <1>3. DidFreeze(s, r, h)
    BY <1>1, <1>2 DEF DidFreeze
  <1> QED BY <1>3 DEF r

(* thaw() took store s to store r.                                         *)
DidThaw(s, r, h) ==
    /\ SameImages(s, r, {h})
    /\ r.img[h].role = "ActiveMutable"
    /\ r.img[h].dev = s.img[h].dev
    /\ r.img[h].host = s.img[h].host
    /\ r.img[h].pdev = s.img[h].pdev
    /\ r.img[h].phost = s.img[h].phost
    /\ r.img[h].refs = s.img[h].refs
    /\ r.img[h].pins = s.img[h].pins
    /\ r.img[h].from = s.img[h].from
    /\ r.img[h].pinned = s.img[h].pinned
    /\ r.freeDev = s.freeDev
    /\ r.freeHost = s.freeHost
    /\ r.img[h] = [s.img[h] EXCEPT !.role = "ActiveMutable"]

(* The model of thaw() does exactly that.                                  *)
LEMMA ThawDid ==
    ASSUME NEW s \in Store, NEW h \in Images
    PROVE  DidThaw(s, Thaw(s, h), h)
  <1> DEFINE r == Thaw(s, h)
  <1>1. /\ SameImages(s, r, {h})
        /\ r.img[h].role = "ActiveMutable"
        /\ r.img[h].dev = s.img[h].dev
        /\ r.img[h].host = s.img[h].host
        /\ r.img[h].pdev = s.img[h].pdev
        /\ r.img[h].phost = s.img[h].phost
        /\ r.img[h].refs = s.img[h].refs
        /\ r.img[h].pins = s.img[h].pins
        /\ r.img[h].from = s.img[h].from
        /\ r.img[h].pinned = s.img[h].pinned
        /\ r.freeDev = s.freeDev
        /\ r.freeHost = s.freeHost
    BY ThawFields
  <1>2. r.img[h] = [s.img[h] EXCEPT !.role = "ActiveMutable"]
    BY ThawEffect, Zenon
  <1> HIDE DEF r
  <1>3. DidThaw(s, r, h)
    BY <1>1, <1>2 DEF DidThaw
  <1> QED BY <1>3 DEF r

(* recycle() took store s to store r.                                      *)
DidRecycle(s, r, h) ==
    /\ SameImages(s, r, {h})
    /\ r.img[h].role = "ReservedDestination"
    /\ r.img[h].dev = s.img[h].dev
    /\ r.img[h].host = s.img[h].host
    /\ r.img[h].pdev = s.img[h].pdev
    /\ r.img[h].phost = s.img[h].phost
    /\ r.img[h].refs = 0
    /\ r.img[h].pins = s.img[h].pins
    /\ r.img[h].from = s.img[h].from
    /\ r.img[h].pinned = s.img[h].pinned
    /\ r.freeDev = s.freeDev
    /\ r.freeHost = s.freeHost
    /\ r.img[h] = [s.img[h] EXCEPT !.refs = 0, !.role = "ReservedDestination"]

(* The model of recycle() does exactly that.                               *)
LEMMA RecycleDid ==
    ASSUME NEW s \in Store, NEW h \in Images
    PROVE  DidRecycle(s, Recycle(s, h), h)
  <1> DEFINE r == Recycle(s, h)
  <1>1. /\ SameImages(s, r, {h})
        /\ r.img[h].role = "ReservedDestination"
        /\ r.img[h].dev = s.img[h].dev
        /\ r.img[h].host = s.img[h].host
        /\ r.img[h].pdev = s.img[h].pdev
        /\ r.img[h].phost = s.img[h].phost
        /\ r.img[h].refs = 0
        /\ r.img[h].pins = s.img[h].pins
        /\ r.img[h].from = s.img[h].from
        /\ r.img[h].pinned = s.img[h].pinned
        /\ r.freeDev = s.freeDev
        /\ r.freeHost = s.freeHost
    BY RecycleFields
  <1>2. r.img[h] = [s.img[h] EXCEPT !.refs = 0, !.role = "ReservedDestination"]
    BY RecycleEffect, Zenon
  <1> HIDE DEF r
  <1>3. DidRecycle(s, r, h)
    BY <1>1, <1>2 DEF DidRecycle
  <1> QED BY <1>3 DEF r

(* restore_recycled() took store s to store r.                             *)
DidRestore(s, r, h) ==
    /\ SameImages(s, r, {h})
    /\ r.img[h].role = "CheckpointImmutable"
    /\ r.img[h].dev = s.img[h].dev
    /\ r.img[h].host = s.img[h].host
    /\ r.img[h].pdev = s.img[h].pdev
    /\ r.img[h].phost = s.img[h].phost
    /\ r.img[h].refs = 1
    /\ r.img[h].pins = s.img[h].pins
    /\ r.img[h].from = s.img[h].from
    /\ r.img[h].pinned = s.img[h].pinned
    /\ r.freeDev = s.freeDev
    /\ r.freeHost = s.freeHost
    /\ r.img[h] = [s.img[h] EXCEPT !.refs = 1, !.role = "CheckpointImmutable"]

(* The model of restore_recycled() does exactly that.                      *)
LEMMA RestoreDid ==
    ASSUME NEW s \in Store, NEW h \in Images
    PROVE  DidRestore(s, RestoreRecycled(s, h), h)
  <1> DEFINE r == RestoreRecycled(s, h)
  <1>1. /\ SameImages(s, r, {h})
        /\ r.img[h].role = "CheckpointImmutable"
        /\ r.img[h].dev = s.img[h].dev
        /\ r.img[h].host = s.img[h].host
        /\ r.img[h].pdev = s.img[h].pdev
        /\ r.img[h].phost = s.img[h].phost
        /\ r.img[h].refs = 1
        /\ r.img[h].pins = s.img[h].pins
        /\ r.img[h].from = s.img[h].from
        /\ r.img[h].pinned = s.img[h].pinned
        /\ r.freeDev = s.freeDev
        /\ r.freeHost = s.freeHost
    BY RestoreFields
  <1>2. r.img[h] = [s.img[h] EXCEPT !.refs = 1, !.role = "CheckpointImmutable"]
    BY RestoreEffect, Zenon
  <1> HIDE DEF r
  <1>3. DidRestore(s, r, h)
    BY <1>1, <1>2 DEF DidRestore
  <1> QED BY <1>3 DEF r

(* begin_device_to_host() took store s to store r.                         *)
DidToHost(s, r, h, d) ==
    /\ SameImages(s, r, {h})
    /\ r.img[h].role = s.img[h].role
    /\ r.img[h].dev = s.img[h].dev
    /\ r.img[h].host = s.img[h].host
    /\ r.img[h].pdev = s.img[h].pdev
    /\ r.img[h].refs = s.img[h].refs
    /\ r.img[h].pins = s.img[h].pins + 1
    /\ r.img[h].from = s.img[h].from
    /\ r.img[h].pinned
    /\ r.img[h].phost = d
    /\ r.freeDev = s.freeDev
    /\ r.freeHost = s.freeHost \ {d}

(* The model of begin_device_to_host() does exactly that.                  *)
LEMMA ToHostDid ==
    ASSUME NEW s \in Store, NEW h \in Images, NEW d \in HostSlots
    PROVE  DidToHost(s, BeginDeviceToHost(s, h, d), h, d)
  <1> DEFINE r == BeginDeviceToHost(s, h, d)
  <1>1. /\ SameImages(s, r, {h})
        /\ r.img[h].role = s.img[h].role
        /\ r.img[h].dev = s.img[h].dev
        /\ r.img[h].host = s.img[h].host
        /\ r.img[h].pdev = s.img[h].pdev
        /\ r.img[h].refs = s.img[h].refs
        /\ r.img[h].pins = s.img[h].pins + 1
        /\ r.img[h].from = s.img[h].from
        /\ r.img[h].pinned
    BY ToHostFields
  <1>2. /\ r.img[h].phost = d
    BY ToHostTarget
  <1>3. /\ r.freeDev = s.freeDev
        /\ r.freeHost = s.freeHost \ {d}
    BY ToHostPools
  <1> HIDE DEF r
  <1>4. DidToHost(s, r, h, d)
    BY <1>1, <1>2, <1>3 DEF DidToHost
  <1> QED BY <1>4 DEF r

(* publish_transfer() of a demotion that keeps the Device replica took     *)
(* store s to store r.                                                     *)
DidCopied(s, r, h) ==
    /\ SameImages(s, r, {h})
    /\ r.img[h].role = s.img[h].role
    /\ r.img[h].dev = s.img[h].dev
    /\ r.img[h].host = s.img[h].phost
    /\ r.img[h].pdev = s.img[h].pdev
    /\ r.img[h].phost = None
    /\ r.img[h].refs = s.img[h].refs
    /\ r.img[h].pins = s.img[h].pins - 1
    /\ r.img[h].from = s.img[h].from
    /\ ~r.img[h].pinned
    /\ r.freeDev = s.freeDev
    /\ r.freeHost = s.freeHost

(* The model of publish_transfer() of a demotion that keeps the Device     *)
(* replica does exactly that.                                              *)
LEMMA CopiedDid ==
    ASSUME NEW s \in Store, NEW h \in Images
    PROVE  DidCopied(s, PublishDeviceToHost(s, h, TRUE), h)
  <1> DEFINE r == PublishDeviceToHost(s, h, TRUE)
  <1>1. /\ SameImages(s, r, {h})
        /\ r.img[h].role = s.img[h].role
        /\ r.img[h].dev = s.img[h].dev
        /\ r.img[h].host = s.img[h].phost
        /\ r.img[h].pdev = s.img[h].pdev
        /\ r.img[h].phost = None
        /\ r.img[h].refs = s.img[h].refs
        /\ r.img[h].pins = s.img[h].pins - 1
        /\ r.img[h].from = s.img[h].from
        /\ ~r.img[h].pinned
        /\ r.freeDev = s.freeDev
        /\ r.freeHost = s.freeHost
    BY CopiedFields
  <1> HIDE DEF r
  <1>2. DidCopied(s, r, h)
    BY <1>1 DEF DidCopied
  <1> QED BY <1>2 DEF r

(* abort_transfer() of a Device to Host copy took store s to store r.      *)
DidUnToHost(s, r, h) ==
    /\ SameImages(s, r, {h})
    /\ r.img[h].role = s.img[h].role
    /\ r.img[h].dev = s.img[h].dev
    /\ r.img[h].host = s.img[h].host
    /\ r.img[h].pdev = s.img[h].pdev
    /\ r.img[h].phost = None
    /\ r.img[h].refs = s.img[h].refs
    /\ r.img[h].pins = s.img[h].pins - 1
    /\ r.img[h].from = s.img[h].from
    /\ ~r.img[h].pinned
    /\ r.freeDev = s.freeDev
    /\ r.freeHost = s.freeHost \cup {s.img[h].phost}

(* The model of abort_transfer() of a Device to Host copy does exactly     *)
(* that.                                                                   *)
LEMMA UnToHostDid ==
    ASSUME NEW s \in Store, NEW h \in Images
    PROVE  DidUnToHost(s, AbortDeviceToHost(s, h), h)
  <1> DEFINE r == AbortDeviceToHost(s, h)
  <1>1. /\ SameImages(s, r, {h})
        /\ r.img[h].role = s.img[h].role
        /\ r.img[h].dev = s.img[h].dev
        /\ r.img[h].host = s.img[h].host
        /\ r.img[h].pdev = s.img[h].pdev
        /\ r.img[h].phost = None
        /\ r.img[h].refs = s.img[h].refs
        /\ r.img[h].pins = s.img[h].pins - 1
        /\ r.img[h].from = s.img[h].from
        /\ ~r.img[h].pinned
        /\ r.freeDev = s.freeDev
        /\ r.freeHost = s.freeHost \cup {s.img[h].phost}
    BY UnToHostFields
  <1> HIDE DEF r
  <1>2. DidUnToHost(s, r, h)
    BY <1>1 DEF DidUnToHost
  <1> QED BY <1>2 DEF r

(* split_device_replica_identity() took store s to store r.                *)
DidSplit(s, r, h, k) ==
    /\ SameImages(s, r, {h, k})
    /\ r.img[h].role = s.img[h].role
    /\ r.img[h].dev = None
    /\ r.img[h].host = s.img[h].host
    /\ r.img[h].pdev = s.img[h].pdev
    /\ r.img[h].phost = s.img[h].phost
    /\ r.img[h].refs = s.img[h].refs
    /\ r.img[h].pins = s.img[h].pins
    /\ r.img[h].from = s.img[h].from
    /\ r.img[h].pinned = s.img[h].pinned
    /\ r.img[k].role = "ActiveMutable"
    /\ r.img[k].dev = s.img[h].dev
    /\ r.img[k].host = s.img[k].host
    /\ r.img[k].pdev = s.img[k].pdev
    /\ r.img[k].phost = s.img[k].phost
    /\ r.img[k].refs = s.img[k].refs
    /\ r.img[k].pins = s.img[k].pins
    /\ r.img[k].from = s.img[k].from
    /\ r.img[k].pinned = s.img[k].pinned
    /\ r.freeDev = s.freeDev
    /\ r.freeHost = s.freeHost

(* The model of split_device_replica_identity() does exactly that.         *)
LEMMA SplitDid ==
    ASSUME NEW s \in Store, NEW h \in Images, NEW k \in Images, h # k
    PROVE  DidSplit(s, SplitIdentity(s, h, k), h, k)
  <1> DEFINE r == SplitIdentity(s, h, k)
  <1>1. /\ SameImages(s, r, {h, k})
        /\ r.img[h].role = s.img[h].role
        /\ r.img[h].dev = None
        /\ r.img[h].host = s.img[h].host
        /\ r.img[h].pdev = s.img[h].pdev
        /\ r.img[h].phost = s.img[h].phost
        /\ r.img[h].refs = s.img[h].refs
        /\ r.img[h].pins = s.img[h].pins
        /\ r.img[h].from = s.img[h].from
        /\ r.img[h].pinned = s.img[h].pinned
        /\ r.img[k].role = "ActiveMutable"
        /\ r.img[k].dev = s.img[h].dev
        /\ r.img[k].host = s.img[k].host
        /\ r.img[k].pdev = s.img[k].pdev
        /\ r.img[k].phost = s.img[k].phost
        /\ r.img[k].refs = s.img[k].refs
        /\ r.img[k].pins = s.img[k].pins
        /\ r.img[k].from = s.img[k].from
        /\ r.img[k].pinned = s.img[k].pinned
        /\ r.freeDev = s.freeDev
        /\ r.freeHost = s.freeHost
    BY SplitFields
  <1> HIDE DEF r
  <1>2. DidSplit(s, r, h, k)
    BY <1>1 DEF DidSplit
  <1> QED BY <1>2 DEF r

(* begin_fork() took store s to store r.                                   *)
DidFork(s, r, h, k) ==
    /\ SameImages(s, r, {h, k})
    /\ r.img[h].role = s.img[h].role
    /\ r.img[h].dev = s.img[h].dev
    /\ r.img[h].host = s.img[h].host
    /\ r.img[h].pdev = s.img[h].pdev
    /\ r.img[h].phost = s.img[h].phost
    /\ r.img[h].refs = s.img[h].refs
    /\ r.img[h].pins = s.img[h].pins + 1
    /\ r.img[h].from = s.img[h].from
    /\ r.img[h].pinned = s.img[h].pinned
    /\ r.img[k].role = "ActiveMutable"
    /\ r.img[k].dev = s.img[k].dev
    /\ r.img[k].host = s.img[k].host
    /\ r.img[k].pdev = s.img[k].pdev
    /\ r.img[k].phost = s.img[k].phost
    /\ r.img[k].refs = s.img[k].refs
    /\ r.img[k].pins = s.img[k].pins
    /\ r.img[k].pinned
    /\ r.freeDev = s.freeDev
    /\ r.freeHost = s.freeHost
    /\ r.img[k].from = h

(* The model of begin_fork() does exactly that.                            *)
LEMMA ForkDid ==
    ASSUME NEW s \in Store, NEW h \in Images, NEW k \in Images, h # k
    PROVE  DidFork(s, BeginFork(s, h, k), h, k)
  <1> DEFINE r == BeginFork(s, h, k)
  <1>1. /\ SameImages(s, r, {h, k})
        /\ r.img[h].role = s.img[h].role
        /\ r.img[h].dev = s.img[h].dev
        /\ r.img[h].host = s.img[h].host
        /\ r.img[h].pdev = s.img[h].pdev
        /\ r.img[h].phost = s.img[h].phost
        /\ r.img[h].refs = s.img[h].refs
        /\ r.img[h].pins = s.img[h].pins + 1
        /\ r.img[h].from = s.img[h].from
        /\ r.img[h].pinned = s.img[h].pinned
        /\ r.img[k].role = "ActiveMutable"
        /\ r.img[k].dev = s.img[k].dev
        /\ r.img[k].host = s.img[k].host
        /\ r.img[k].pdev = s.img[k].pdev
        /\ r.img[k].phost = s.img[k].phost
        /\ r.img[k].refs = s.img[k].refs
        /\ r.img[k].pins = s.img[k].pins
        /\ r.img[k].pinned
        /\ r.freeDev = s.freeDev
        /\ r.freeHost = s.freeHost
    BY ForkFields, ZenonT(40)
  <1>2. /\ r.img[k].from = h
    BY ForkSource
  <1> HIDE DEF r
  <1>3. DidFork(s, r, h, k)
    BY <1>1, <1>2 DEF DidFork
  <1> QED BY <1>3 DEF r

(* commit_fork() took store s to store r.                                  *)
DidCommit(s, r, h, k) ==
    /\ SameImages(s, r, {h, k})
    /\ r.img[h].role = s.img[h].role
    /\ r.img[h].dev = s.img[h].dev
    /\ r.img[h].host = s.img[h].host
    /\ r.img[h].pdev = s.img[h].pdev
    /\ r.img[h].phost = s.img[h].phost
    /\ r.img[h].refs = s.img[h].refs
    /\ r.img[h].pins = s.img[h].pins - 1
    /\ r.img[h].from = s.img[h].from
    /\ r.img[h].pinned = s.img[h].pinned
    /\ r.img[k].role = s.img[k].role
    /\ r.img[k].dev = s.img[k].dev
    /\ r.img[k].host = s.img[k].host
    /\ r.img[k].pdev = s.img[k].pdev
    /\ r.img[k].phost = s.img[k].phost
    /\ r.img[k].refs = s.img[k].refs
    /\ r.img[k].pins = s.img[k].pins
    /\ r.img[k].from = None
    /\ ~r.img[k].pinned
    /\ r.freeDev = s.freeDev
    /\ r.freeHost = s.freeHost

(* The model of commit_fork() does exactly that.                           *)
LEMMA CommitDid ==
    ASSUME NEW s \in Store, NEW h \in Images, NEW k \in Images, h # k
    PROVE  DidCommit(s, CommitFork(s, h, k), h, k)
  <1> DEFINE r == CommitFork(s, h, k)
  <1>1. /\ SameImages(s, r, {h, k})
        /\ r.img[h].role = s.img[h].role
        /\ r.img[h].dev = s.img[h].dev
        /\ r.img[h].host = s.img[h].host
        /\ r.img[h].pdev = s.img[h].pdev
        /\ r.img[h].phost = s.img[h].phost
        /\ r.img[h].refs = s.img[h].refs
        /\ r.img[h].pins = s.img[h].pins - 1
        /\ r.img[h].from = s.img[h].from
        /\ r.img[h].pinned = s.img[h].pinned
        /\ r.img[k].role = s.img[k].role
        /\ r.img[k].dev = s.img[k].dev
        /\ r.img[k].host = s.img[k].host
        /\ r.img[k].pdev = s.img[k].pdev
        /\ r.img[k].phost = s.img[k].phost
        /\ r.img[k].refs = s.img[k].refs
        /\ r.img[k].pins = s.img[k].pins
        /\ r.img[k].from = None
        /\ ~r.img[k].pinned
        /\ r.freeDev = s.freeDev
        /\ r.freeHost = s.freeHost
    BY CommitFields
  <1> HIDE DEF r
  <1>2. DidCommit(s, r, h, k)
    BY <1>1 DEF DidCommit
  <1> QED BY <1>2 DEF r

(* abort_fork() took store s to store r.                                   *)
DidUnfork(s, r, h, k) ==
    /\ SameImages(s, r, {h, k})
    /\ r.img[h].role = s.img[h].role
    /\ r.img[h].dev = s.img[h].dev
    /\ r.img[h].host = s.img[h].host
    /\ r.img[h].pdev = s.img[h].pdev
    /\ r.img[h].phost = s.img[h].phost
    /\ r.img[h].refs = s.img[h].refs
    /\ r.img[h].pins = s.img[h].pins - 1
    /\ r.img[h].from = s.img[h].from
    /\ r.img[h].pinned = s.img[h].pinned
    /\ r.img[k].role = "ReservedDestination"
    /\ r.img[k].dev = s.img[k].dev
    /\ r.img[k].host = s.img[k].host
    /\ r.img[k].pdev = s.img[k].pdev
    /\ r.img[k].phost = s.img[k].phost
    /\ r.img[k].refs = s.img[k].refs
    /\ r.img[k].pins = s.img[k].pins
    /\ r.img[k].from = None
    /\ ~r.img[k].pinned
    /\ r.freeDev = s.freeDev
    /\ r.freeHost = s.freeHost

(* The model of abort_fork() does exactly that.                            *)
LEMMA UnforkDid ==
    ASSUME NEW s \in Store, NEW h \in Images, NEW k \in Images, h # k
    PROVE  DidUnfork(s, AbortFork(s, h, k), h, k)
  <1> DEFINE r == AbortFork(s, h, k)
  <1>1. /\ SameImages(s, r, {h, k})
        /\ r.img[h].role = s.img[h].role
        /\ r.img[h].dev = s.img[h].dev
        /\ r.img[h].host = s.img[h].host
        /\ r.img[h].pdev = s.img[h].pdev
        /\ r.img[h].phost = s.img[h].phost
        /\ r.img[h].refs = s.img[h].refs
        /\ r.img[h].pins = s.img[h].pins - 1
        /\ r.img[h].from = s.img[h].from
        /\ r.img[h].pinned = s.img[h].pinned
        /\ r.img[k].role = "ReservedDestination"
        /\ r.img[k].dev = s.img[k].dev
        /\ r.img[k].host = s.img[k].host
        /\ r.img[k].pdev = s.img[k].pdev
        /\ r.img[k].phost = s.img[k].phost
        /\ r.img[k].refs = s.img[k].refs
        /\ r.img[k].pins = s.img[k].pins
        /\ r.img[k].from = None
        /\ ~r.img[k].pinned
        /\ r.freeDev = s.freeDev
        /\ r.freeHost = s.freeHost
    BY UnforkFields
  <1> HIDE DEF r
  <1>2. DidUnfork(s, r, h, k)
    BY <1>1 DEF DidUnfork
  <1> QED BY <1>2 DEF r

(* begin_host_fork() took store s to store r.                              *)
DidHostFork(s, r, h, k, d) ==
    /\ SameImages(s, r, {h, k})
    /\ r.img[h].role = s.img[h].role
    /\ r.img[h].dev = s.img[h].dev
    /\ r.img[h].host = s.img[h].host
    /\ r.img[h].pdev = s.img[h].pdev
    /\ r.img[h].phost = s.img[h].phost
    /\ r.img[h].refs = s.img[h].refs
    /\ r.img[h].pins = s.img[h].pins + 1
    /\ r.img[h].from = s.img[h].from
    /\ r.img[h].pinned = s.img[h].pinned
    /\ r.img[k].role = "ActiveMutable"
    /\ r.img[k].dev = s.img[k].dev
    /\ r.img[k].host = s.img[k].host
    /\ r.img[k].phost = s.img[k].phost
    /\ r.img[k].refs = s.img[k].refs
    /\ r.img[k].pins = s.img[k].pins
    /\ r.img[k].pinned
    /\ r.img[k].pdev = d
    /\ r.img[k].from = h
    /\ r.freeDev = s.freeDev \ {d}
    /\ r.freeHost = s.freeHost

(* The model of begin_host_fork() does exactly that.                       *)
LEMMA HostForkDid ==
    ASSUME NEW s \in Store, NEW h \in Images, NEW k \in Images, NEW d \in DevSlots, h # k
    PROVE  DidHostFork(s, BeginHostFork(s, h, k, d), h, k, d)
  <1> DEFINE r == BeginHostFork(s, h, k, d)
  <1>1. /\ SameImages(s, r, {h, k})
        /\ r.img[h].role = s.img[h].role
        /\ r.img[h].dev = s.img[h].dev
        /\ r.img[h].host = s.img[h].host
        /\ r.img[h].pdev = s.img[h].pdev
        /\ r.img[h].phost = s.img[h].phost
        /\ r.img[h].refs = s.img[h].refs
        /\ r.img[h].pins = s.img[h].pins + 1
        /\ r.img[h].from = s.img[h].from
        /\ r.img[h].pinned = s.img[h].pinned
        /\ r.img[k].role = "ActiveMutable"
        /\ r.img[k].dev = s.img[k].dev
        /\ r.img[k].host = s.img[k].host
        /\ r.img[k].phost = s.img[k].phost
        /\ r.img[k].refs = s.img[k].refs
        /\ r.img[k].pins = s.img[k].pins
        /\ r.img[k].pinned
    BY HostForkFields
  <1>2. /\ r.img[k].pdev = d
    BY HostForkTarget
  <1>3. /\ r.img[k].from = h
    BY HostForkSource
  <1>4. /\ r.freeDev = s.freeDev \ {d}
        /\ r.freeHost = s.freeHost
    BY HostForkPools
  <1> HIDE DEF r
  <1>5. DidHostFork(s, r, h, k, d)
    BY <1>1, <1>2, <1>3, <1>4 DEF DidHostFork
  <1> QED BY <1>5 DEF r

(* The images of a store determine its pools.                              *)
LEMMA SameStore ==
    ASSUME NEW s, NEW r, Sound(s), Sound(r), SameImages(s, r, {})
    PROVE  r = s
  <1>1. s \in Store /\ r \in Store
    BY DEF Sound
  <1>2. \A k \in Images : r.img[k] = s.img[k]
    BY DEF SameImages
  <1>3. r.img = s.img
    BY <1>1, <1>2 DEF Store
  <1>4. r.freeDev = s.freeDev
    <2>1. \A d \in DevSlots : d \in r.freeDev <=> d \in s.freeDev
      BY <1>3, <1>1 DEF Sound, Partitioned
    <2> QED BY <2>1, <1>1 DEF Store
  <1>5. r.freeHost = s.freeHost
    <2>1. \A d \in HostSlots : d \in r.freeHost <=> d \in s.freeHost
      BY <1>3, <1>1 DEF Sound, Partitioned
    <2> QED BY <2>1, <1>1 DEF Store
  <1> QED BY <1>1, <1>3, <1>4, <1>5 DEF Store

(* A release takes what the checks allow and leaves everything else.       *)
LEMMA TryReleaseSpec ==
    ASSUME NEW s, Sound(s), NEW h \in Images
    PROVE  /\ Sound(TryRelease(s, h)) /\ SameImages(s, TryRelease(s, h), {h})
           /\ CanRelease(s, h) => TryRelease(s, h).img[h] = NewObject("Free")
           /\ ~CanRelease(s, h) => TryRelease(s, h) = s
           /\ s.freeHost \subseteq TryRelease(s, h).freeHost
           /\ s.freeDev \subseteq TryRelease(s, h).freeDev
  <1>t. h # None /\ s \in Store
    BY StoreAssumption DEF Sound
  <1>1. CASE CanRelease(s, h)
    <2>1. TryRelease(s, h) = Release(s, h)
      BY <1>1, <1>t DEF TryRelease
    <2>2. Sound(Release(s, h))
      BY <1>1, ReleaseKeeps
    <2> QED BY <1>1, <1>t, <2>1, <2>2, ReleaseEffect
  <1>2. CASE ~CanRelease(s, h)
    BY <1>2 DEF TryRelease, SameImages
  <1> QED BY <1>1, <1>2

(* Dropping one of several references changes only the count.              *)
LEMMA DropReferenceSpec ==
    ASSUME NEW s, Sound(s), NEW h \in Images, CanReleaseReference(s, h)
    PROVE  /\ Sound(DropReference(s, h)) /\ SameImages(s, DropReference(s, h), {h})
           /\ DropReference(s, h).img[h] = [s.img[h] EXCEPT !.refs = s.img[h].refs - 1]
           /\ DropReference(s, h).freeHost = s.freeHost
           /\ DropReference(s, h).freeDev = s.freeDev
  <1>t. h # None /\ s \in Store
    BY StoreAssumption DEF Sound
  <1>1. DropReference(s, h) = ReleaseReference(s, h)
    BY <1>t DEF DropReference
  <1>2. Sound(ReleaseReference(s, h))
    BY ReleaseReferenceKeeps
  <1> QED BY <1>t, <1>1, <1>2, DereferenceEffect

(* A checkpoint reference goes, and the image with the last one.           *)
LEMMA DropCheckpointSpec ==
    ASSUME NEW s, Sound(s), NEW h \in Images, CanReleaseReference(s, h),
           s.img[h].refs = 1 => Quiet(s.img[h])
    PROVE  /\ Sound(DropCheckpoint(s, h)) /\ SameImages(s, DropCheckpoint(s, h), {h})
           /\ Unnamed(s.img[h], DropCheckpoint(s, h).img[h])
           /\ Gone(DropCheckpoint(s, h), h)
           /\ s.freeHost \subseteq DropCheckpoint(s, h).freeHost
           /\ s.freeDev \subseteq DropCheckpoint(s, h).freeDev
  <1> DEFINE o == s.img[h]
             u == DropReference(s, h)
             r == TryRelease(u, h)
  <1>o. o \in Image /\ Immutable(o) /\ o.refs # 0 /\ o.refs \in Nat
    BY DEF Sound, Store, Image, CanReleaseReference
  <1>1. /\ Sound(u) /\ SameImages(s, u, {h}) /\ u.img[h] = [o EXCEPT !.refs = o.refs - 1]
        /\ u.freeHost = s.freeHost /\ u.freeDev = s.freeDev
    BY DropReferenceSpec
  <1>r. r = DropCheckpoint(s, h)
    BY DEF DropCheckpoint
  <1>p. /\ o.refs = 1 => Quiet(o)
        /\ u.img[h].role = o.role /\ u.img[h].refs = o.refs - 1
        /\ Quiet(u.img[h]) <=> Quiet(o)
    BY <1>1, <1>o DEF Image, Quiet, HasPending
  <1> HIDE DEF u, o
  <1>2. /\ Sound(r) /\ SameImages(u, r, {h})
        /\ CanRelease(u, h) => r.img[h] = NewObject("Free")
        /\ ~CanRelease(u, h) => r = u
        /\ u.freeHost \subseteq r.freeHost /\ u.freeDev \subseteq r.freeDev
    BY <1>1, TryReleaseSpec
  <1>c. CanRelease(u, h) <=> o.refs = 1
    BY <1>o, <1>p DEF CanRelease, Immutable
  <1> HIDE DEF r
  <1>3. SameImages(s, r, {h})
    BY <1>1, <1>2 DEF SameImages
  <1>4. o.refs = 1 => r.img[h] = NewObject("Free") /\ Gone(r, h)
    BY <1>2, <1>c DEF Gone, NewObject
  <1>5. o.refs # 1 => r.img[h] = [o EXCEPT !.refs = o.refs - 1] /\ Gone(r, h)
    <2> SUFFICES ASSUME o.refs # 1 PROVE r.img[h] = [o EXCEPT !.refs = o.refs - 1] /\ Gone(r, h)
      OBVIOUS
    <2>1. r = u
      BY <1>2, <1>c
    <2>2. r.img[h].refs > 0
      BY <2>1, <1>p, <1>o
    <2> QED BY <2>1, <2>2, <1>1 DEF Gone
  <1>6. Unnamed(o, r.img[h])
    BY <1>4, <1>5 DEF Unnamed
  <1> QED BY <1>1, <1>2, <1>3, <1>4, <1>5, <1>6, <1>r DEF o

(* Replacing one sequence keeps the types and the other sequences.         *)
LEMMA TypedSeq ==
    ASSUME NEW Q, NEW SH, NEW g, Typed(Q, SH, g), NEW c \in Conts, NEW q \in SeqRecord
    PROVE  /\ Typed([Q EXCEPT ![c] = q], SH, g) /\ [Q EXCEPT ![c] = q][c] = q
           /\ SameSeqs(Q, [Q EXCEPT ![c] = q], c)
  BY DEF Typed, SameSeqs

(* Replacing one shared prefix keeps the types and the other prefixes.     *)
LEMMA TypedPrefix ==
    ASSUME NEW Q, NEW SH, NEW g, Typed(Q, SH, g), NEW x \in SharedSlots, NEW p \in PrefixRecord
    PROVE  /\ Typed(Q, [SH EXCEPT ![x] = p], g) /\ [SH EXCEPT ![x] = p][x] = p
           /\ SamePrefixes(SH, [SH EXCEPT ![x] = p], x)
  BY DEF Typed, SamePrefixes

(* An image that no lane's fork reads has no pin.                          *)
LEMMA Unpinned ==
    ASSUME NEW s, NEW Q, NEW SH, NEW g, Consistent(s, Q, SH, g), NEW h \in Images,
           \A d \in Conts : Q[d].fork => Q[d].read # h
    PROVE  s.img[h].pins = 0
  <1>t. None \notin Images
    BY StoreAssumption
  <1>1. \A k \in Images : s.img[k].from # h
    BY <1>t DEF Consistent, ImageOK
  <1>2. Readers(s, h) = {}
    BY <1>1 DEF Readers
  <1>3. Cardinality(Readers(s, h)) = 0
    BY <1>2, FS_EmptySet
  <1>4. OwnPin(s.img[h]) = 0
    BY DEF Consistent, ImageOK, OwnPin, HasPending
  <1> QED BY <1>3, <1>4 DEF Consistent, Sound, PinsExact

(* An image without pins and without a fork binding is quiet.              *)
LEMMA QuietImage ==
    ASSUME NEW s, NEW Q, NEW SH, NEW g, Consistent(s, Q, SH, g), NEW h \in Images,
           s.img[h].pins = 0, s.img[h].from = None
    PROVE  Quiet(s.img[h])
  BY DEF Consistent, ImageOK, Quiet, HasPending

(* Between transactions every image is quiet unless a fork is pending.     *)
LEMMA AllQuiet ==
    ASSUME NEW s, NEW Q, NEW SH, NEW g, Consistent(s, Q, SH, g), NoForks(Q), NEW h \in Images
    PROVE  Quiet(s.img[h]) /\ s.img[h].from = None /\ s.img[h].pins = 0
  <1>1. s.img[h].pins = 0
    BY Unpinned DEF NoForks
  <1>2. s.img[h].from = None
    BY DEF Consistent, ImageOK, NoForks
  <1> QED BY <1>1, <1>2, QuietImage

(* A sequence without a binding loses its rewrite checkpoint, if it has    *)
(* one, and its slot.                                                      *)
LEMMA ForgetRewrite ==
    ASSUME NEW s, NEW r, NEW Q, NEW R, NEW SH, NEW g, NEW c \in Conts,
           Consistent(s, Q, SH, g), Sound(r), Typed(R, SH, g), SameSeqs(Q, R, c),
           Headless(Q[c]), Headless(R[c]), R[c].rw = None,
           Q[c].rw = None => SameImages(s, r, {}),
           Q[c].rw # None => /\ SameImages(s, r, {Q[c].rw})
                             /\ Unnamed(s.img[Q[c].rw], r.img[Q[c].rw])
                             /\ s.img[Q[c].rw].refs = 1 => s.img[Q[c].rw].pins = 0
    PROVE  Consistent(r, R, SH, g)
  <1>q. \A d \in Conts : d # c => R[d] = Q[d]
    BY DEF SameSeqs
  <1>f. \A d \in Conts : Q[d].fork => Q[d].stage # "done"
    BY SeqTypes DEF Forker
  <1>b. Q[c].valid = R[c].valid /\ Q[c].fork = R[c].fork
    <2>1. Q[c] \in SeqRecord /\ R[c] \in SeqRecord
      BY SeqTypes DEF Typed
    <2>2. Q[c].valid = FALSE /\ R[c].valid = FALSE /\ Q[c].fork = FALSE /\ R[c].fork = FALSE
      BY <2>1 DEF Headless, SeqRecord
    <2> QED BY <2>2
  <1>g. SameContents(s, g, g) /\ SameContents(r, g, g)
    BY DEF SameContents
  <1>x. \A x \in SharedSlots : SamePrefix(SH[x], SH[x])
    BY DEF SamePrefix
  <1>1. CASE Q[c].rw = None
    <2>1. r = s
      BY <1>1, SameStore DEF Consistent
    <2>2. \A d \in Conts : d # c => SameBinding(Q[d], R[d])
      BY <1>1, <1>q, <1>f DEF SameBinding
    <2>3. SameBinding(Q[c], R[c])
      BY <1>1, <1>b DEF SameBinding, Headless
    <2> QED BY <2>1, <2>2, <2>3, <1>g, <1>x, Restate
  <1>2. CASE Q[c].rw # None
    <2> DEFINE p == [Q[c] EXCEPT !.rw = None, !.rwf = 0]
               P == [Q EXCEPT ![c] = p]
    <2>1. Q[c] \in SeqRecord
      BY SeqTypes
    <2>2. p \in SeqRecord /\ p.rw = None /\ p.rwf = 0 /\ p.role = Q[c].role /\ p.valid = Q[c].valid
          /\ p.fork = Q[c].fork /\ p.own = Q[c].own /\ p.read = Q[c].read /\ p.write = Q[c].write
      BY <2>1 DEF SeqRecord
    <2> HIDE DEF p
    <2>3. Typed(P, SH, g) /\ P[c] = p /\ SameSeqs(Q, P, c)
      BY <2>2, TypedSeq DEF Consistent
    <2> HIDE DEF P
    <2>4. ~Q[c].fork /\ ~p.fork
      BY <2>2 DEF Headless
    <2>5. Consistent(r, P, SH, g)
      BY <1>2, <2>2, <2>3, <2>4, DropRewrite
    <2>6. \A d \in Conts : d # c => SameBinding(P[d], R[d])
      BY <2>3, <1>q, <1>f DEF SameBinding, SameSeqs
    <2>7. Headless(p)
      BY <2>2 DEF Headless
    <2>8. SameBinding(P[c], R[c])
      BY <2>2, <2>3, <2>7, <1>b DEF SameBinding, Headless
    <2> QED BY <2>5, <2>6, <2>8, <1>g, <1>x, Restate
  <1> QED BY <1>1, <1>2

(* The rewrite checkpoint of an active sequence is read by another lane's  *)
(* fork only while something else names it.                                *)
LEMMA RewriteUnread ==
    ASSUME NEW s, NEW Q, NEW SH, NEW g, Consistent(s, Q, SH, g), NEW c \in Conts,
           Q[c].rw # None, s.img[Q[c].rw].refs = 1, Q[c].role # "Catalogued",
           NEW d \in Conts, d # c, Q[d].fork
    PROVE  Q[d].read # Q[c].rw
  <1> SUFFICES ASSUME Q[d].read = Q[c].rw PROVE FALSE
    OBVIOUS
  <1>t. None \notin Images
    BY StoreAssumption
  <1>1. Keeper(Q, SH, d) /\ Q[c].rw \in Images
    BY SeqTypes DEF SeqRecord
  <1>2. s.img[Q[c].rw].refs = NamedByRewrite(Q, Q[c].rw) + NamedByPrefix(SH, Q[c].rw)
    BY <1>1 DEF Consistent, ImageOK
  <1>3. NamedByRewrite(Q, Q[c].rw) = 1 /\ NamedByPrefix(SH, Q[c].rw) = 0
    BY <1>2 DEF NamedByRewrite, NamedByPrefix
  <1>4. \A x \in SharedSlots : SH[x].img # Q[c].rw
    BY <1>3 DEF NamedByPrefix
  <1>5. \A w \in Conts : w # c => Q[w].rw # Q[c].rw
    BY <1>1, <1>t DEF Consistent, Distinct
  <1>6. ASSUME NEW w \in Conts, Q[w].role = "Catalogued" PROVE Q[w].read # Q[c].rw
    <2>1. SeqOK(s, g, Q[w])
      BY SeqTypes
    <2> QED BY <2>1, <1>6, <1>1, <1>t DEF SeqOK, Headless, Endpoint, Writer, Forker
  <1> QED BY <1>1, <1>4, <1>5, <1>6 DEF Keeper

\* what a sequence gives back
Lost(q) == (Owned(q) \cup ({q.rw} \ {q.read})) \ {None}

(* Releasing a sequence whose binding has no pending fork.                 *)
LEMMA ReleasedUnforked ==
    ASSUME NEW s, NEW Q, NEW R, NEW SH, NEW g, NEW c \in Conts, NEW B,
           Consistent(s, Q, SH, g), Typed(R, SH, g), SameSeqs(Q, R, c),
           ~Q[c].fork, B \subseteq {Q[c].read, Q[c].write},
           Headless(R[c]), R[c].rw = None,
           Q[c].read # None => s.img[Q[c].read].pins = 0,
           Q[c].rw # None /\ s.img[Q[c].rw].refs = 1 => s.img[Q[c].rw].pins = 0
    PROVE  /\ Consistent(Released(s, Q[c], B), R, SH, g)
           /\ \A h \in Lost(Q[c]) : Gone(Released(s, Q[c], B), h)
           /\ s.freeHost \subseteq Released(s, Q[c], B).freeHost
  <1> DEFINE q == Q[c]
             u == DropReference(s, q.rw)
             v == TryRelease(u, q.read)
             r == TryRelease(v, q.rw)
  <1>t. None \notin Images
    BY StoreAssumption
  <1>q. q \in SeqRecord /\ SeqOK(s, g, q) /\ Sound(s)
    BY SeqTypes DEF Consistent
  <1>b. q.write = q.read /\ (Headless(q) \/ Endpoint(s, g, q) \/ Writer(s, g, q))
        /\ (q.read # None => q.read \in Images) /\ (q.rw # None => q.rw \in Images)
        /\ (q.read = None => Headless(q))
        /\ (q.read # None => Endpoint(s, g, q) \/ Writer(s, g, q))
    BY <1>q, <1>t DEF SeqOK, Headless, Endpoint, Writer, Forker, SeqRecord
  <1>e. q.read # None => /\ s.img[q.read].refs = 0 /\ s.img[q.read].from = None /\ q.rw # q.read
                         /\ s.img[q.read].role # "Free" /\ Quiet(s.img[q.read])
    <2> SUFFICES ASSUME q.read # None
                 PROVE  /\ s.img[q.read].refs = 0 /\ s.img[q.read].from = None /\ q.rw # q.read
                        /\ s.img[q.read].role # "Free" /\ Quiet(s.img[q.read])
      OBVIOUS
    <2>1. s.img[q.read].refs = 0 /\ s.img[q.read].from = None /\ q.rw # q.read
      BY <1>b, OwnedAlone
    <2>2. s.img[q.read].role # "Free"
      BY <1>b DEF Endpoint, Writer, Immutable
    <2> QED BY <2>1, <2>2, <1>b, QuietImage
  <1>w. q.rw # None => /\ Immutable(s.img[q.rw]) /\ s.img[q.rw].refs # 0 /\ s.img[q.rw].from = None
    <2> SUFFICES ASSUME q.rw # None
                 PROVE  Immutable(s.img[q.rw]) /\ s.img[q.rw].refs # 0 /\ s.img[q.rw].from = None
      OBVIOUS
    <2>1. Immutable(s.img[q.rw]) /\ s.img[q.rw].from = None
      BY <1>q, <1>b DEF SeqOK, Sound, Shapes, Shape, Immutable
    <2>2. s.img[q.rw].refs = NamedByRewrite(Q, q.rw) + NamedByPrefix(SH, q.rw)
      BY <1>b DEF Consistent, ImageOK
    <2>3. NamedByRewrite(Q, q.rw) = 1
      BY DEF NamedByRewrite
    <2> QED BY <2>1, <2>2, <2>3 DEF NamedByPrefix
  <1>r. Released(s, q, B) = r
    <2>1. Released(s, q, B) = IF q.rw \in B THEN v ELSE r
      BY <1>b DEF Released
    <2>2. q.rw \in B => q.rw = None
      BY <1>b, <1>e
    <2>3. q.rw = None => r = v
      BY DEF TryRelease
    <2> QED BY <2>1, <2>2, <2>3
  <1>y. q.rw # None /\ s.img[q.rw].refs = 1 => Quiet(s.img[q.rw])
    BY <1>w, <1>b, QuietImage
  <1>z. /\ q.read # None => s.img[q.read].pins = 0
        /\ q.rw # None /\ s.img[q.rw].refs = 1 => s.img[q.rw].pins = 0
    OBVIOUS
  <1>1. /\ Sound(u) /\ s.freeHost \subseteq u.freeHost
        /\ q.rw = None => u = s
        /\ q.rw # None => /\ SameImages(s, u, {q.rw})
                          /\ u.img[q.rw] = [s.img[q.rw] EXCEPT !.refs = s.img[q.rw].refs - 1]
    <2>1. CASE q.rw = None
      BY <2>1, <1>q DEF DropReference
    <2>2. CASE q.rw # None
      BY <2>2, <1>q, <1>b, <1>w, DropReferenceSpec DEF CanReleaseReference
    <2> QED BY <2>1, <2>2
  <1> HIDE DEF u
  <1>2. /\ Sound(v) /\ u.freeHost \subseteq v.freeHost
        /\ q.read = None => v = u
        /\ q.read # None => SameImages(u, v, {q.read}) /\ v.img[q.read] = NewObject("Free")
    <2>1. CASE q.read = None
      BY <2>1, <1>1 DEF TryRelease
    <2>2. CASE q.read # None
      <3>1. u.img[q.read] = s.img[q.read]
        BY <2>2, <1>1, <1>b, <1>e DEF SameImages
      <3>2. CanRelease(u, q.read)
        BY <2>2, <3>1, <1>e DEF CanRelease
      <3> QED BY <2>2, <3>2, <1>1, <1>b, TryReleaseSpec
    <2> QED BY <2>1, <2>2
  <1> HIDE DEF v
  <1>3. /\ Sound(r) /\ v.freeHost \subseteq r.freeHost
        /\ q.rw = None => r = v
        /\ q.rw # None => /\ SameImages(v, r, {q.rw}) /\ Unnamed(s.img[q.rw], r.img[q.rw])
                          /\ Gone(r, q.rw)
    <2>1. CASE q.rw = None
      BY <2>1, <1>2 DEF TryRelease
    <2>2. CASE q.rw # None
      <3> DEFINE o == s.img[q.rw]
      <3>1. v.img[q.rw] = [o EXCEPT !.refs = o.refs - 1]
        BY <2>2, <1>1, <1>2, <1>b, <1>e DEF SameImages
      <3>o. o \in Image /\ o.refs \in Nat /\ o.refs # 0 /\ Immutable(o) /\ (o.refs = 1 => Quiet(o))
        BY <2>2, <1>q, <1>b, <1>w, <1>y DEF Sound, Store, Image
      <3> HIDE DEF o
      <3>2. /\ v.img[q.rw].role = o.role /\ v.img[q.rw].refs = o.refs - 1
            /\ Quiet(v.img[q.rw]) <=> Quiet(o)
        BY <3>1, <3>o DEF Image, Quiet, HasPending
      <3>3. CanRelease(v, q.rw) <=> o.refs = 1
        BY <3>2, <3>o DEF CanRelease, Immutable
      <3>4. /\ Sound(r) /\ SameImages(v, r, {q.rw}) /\ v.freeHost \subseteq r.freeHost
            /\ CanRelease(v, q.rw) => r.img[q.rw] = NewObject("Free")
            /\ ~CanRelease(v, q.rw) => r = v
        BY <2>2, <1>2, <1>b, TryReleaseSpec
      <3>5. Unnamed(o, r.img[q.rw])
        BY <3>1, <3>3, <3>4 DEF Unnamed
      <3>6. Gone(r, q.rw)
        BY <3>2, <3>3, <3>4, <3>o DEF Gone, NewObject
      <3> QED BY <2>2, <3>4, <3>5, <3>6 DEF o
    <2> QED BY <2>1, <2>2
  <1> HIDE DEF r
  <1> DEFINE p == IF q.read = None THEN q
                  ELSE [R[c] EXCEPT !.role = IF q.rw = None THEN "Free" ELSE "Catalogued",
                                    !.rw = q.rw, !.rwf = q.rwf]
             P == [Q EXCEPT ![c] = p]
             w == TryRelease(s, q.read)
  <1>4. /\ p \in SeqRecord /\ Headless(p) /\ p.rw = q.rw /\ p.rwf = q.rwf
    <2>1. R[c] \in SeqRecord
      BY DEF Typed
    <2>2. CASE q.read = None
      BY <2>2, <1>q, <1>b
    <2>3. CASE q.read # None
      <3>1. p = [R[c] EXCEPT !.role = IF q.rw = None THEN "Free" ELSE "Catalogued",
                                    !.rw = q.rw, !.rwf = q.rwf]
        BY <2>3
      <3>2. p \in SeqRecord /\ p.rw = q.rw /\ p.rwf = q.rwf
            /\ p.role = (IF q.rw = None THEN "Free" ELSE "Catalogued")
            /\ p.read = R[c].read /\ p.write = R[c].write /\ p.fork = R[c].fork
            /\ p.valid = R[c].valid /\ p.own = R[c].own
        <4>1. (IF q.rw = None THEN "Free" ELSE "Catalogued") \in {"Free", "Reserved", "Active", "Catalogued"}
          OBVIOUS
        <4>2. q.rw \in Images \cup {None} /\ q.rwf \in Nat
          BY <1>q DEF SeqRecord
        <4> HIDE DEF q
        <4> QED BY ONLY <2>1, <3>1, <4>1, <4>2, ZenonT(40) DEF SeqRecord
      <3> QED BY <3>2 DEF Headless
    <2> QED BY <2>2, <2>3
  <1> HIDE DEF p
  <1>5. Typed(P, SH, g) /\ P[c] = p /\ SameSeqs(Q, P, c)
    BY <1>4, TypedSeq DEF Consistent
  <1>6. /\ Consistent(w, P, SH, g) /\ Sound(w)
        /\ q.read = None => w = s
        /\ q.read # None => SameImages(s, w, {q.read}) /\ w.img[q.read] = NewObject("Free")
    <2>1. CASE q.read = None
      <3>1. p = q
        BY <2>1 DEF p
      <3>2. P = Q
        BY <3>1, <1>q DEF Consistent, Typed
      <3>3. w = s
        BY <2>1 DEF TryRelease
      <3> QED BY <2>1, <3>2, <3>3, <1>q
    <2>2. CASE q.read # None
      <3>1. CanRelease(s, q.read)
        BY <2>2, <1>e DEF CanRelease
      <3>2. Sound(w) /\ SameImages(s, w, {q.read}) /\ w.img[q.read] = NewObject("Free")
        BY <2>2, <3>1, <1>b, <1>q, TryReleaseSpec
      <3> HIDE DEF w, P
      <3>3. /\ Endpoint(s, g, Q[c]) \/ Writer(s, g, Q[c])
            /\ s.img[Q[c].read].pins = 0
            /\ SameImages(s, w, {Q[c].read}) /\ w.img[Q[c].read] = NewObject("Free")
            /\ Headless(P[c]) /\ P[c].rw = Q[c].rw /\ P[c].rwf = Q[c].rwf
        BY <2>2, <3>2, <1>b, <1>z, <1>4, <1>5
      <3>4. Consistent(w, P, SH, g)
        BY <3>2, <3>3, <1>5, DropEndpoint
      <3> QED BY <2>2, <3>2, <3>4
    <2> QED BY <2>1, <2>2
  <1> HIDE DEF w, P
  <1>7. /\ q.rw = None => SameImages(w, r, {})
        /\ q.rw # None => SameImages(w, r, {q.rw}) /\ w.img[q.rw] = s.img[q.rw]
    BY <1>1, <1>2, <1>3, <1>6, <1>b, <1>e DEF SameImages
  <1>8. /\ P[c].rw = None => SameImages(w, r, {})
        /\ P[c].rw # None => /\ SameImages(w, r, {P[c].rw})
                             /\ Unnamed(w.img[P[c].rw], r.img[P[c].rw])
                             /\ w.img[P[c].rw].refs = 1 => w.img[P[c].rw].pins = 0
    BY <1>3, <1>4, <1>5, <1>7, <1>z
  <1>9. SameSeqs(P, R, c) /\ Headless(P[c])
    BY <1>4, <1>5 DEF SameSeqs
  <1>10. Consistent(r, R, SH, g)
    BY <1>3, <1>6, <1>8, <1>9, ForgetRewrite
  <1>11. \A h \in Lost(q) : Gone(r, h)
    <2> SUFFICES ASSUME NEW h \in Lost(q) PROVE Gone(r, h)
      OBVIOUS
    <2>1. CASE h = q.rw
      BY <2>1, <1>3 DEF Lost
    <2>2. CASE h # q.rw
      <3>1. h = q.read /\ q.read # None
        BY <2>2, <1>b DEF Lost, Owned
      <3>2. r.img[h] = v.img[h]
        BY <2>2, <3>1, <1>3, <1>b DEF SameImages
      <3> QED BY <3>1, <3>2, <1>2 DEF Gone, NewObject
    <2> QED BY <2>1, <2>2
  <1> QED BY <1>1, <1>2, <1>3, <1>10, <1>11, <1>r

(* What the store knows of a lane's pending fork.                          *)
LEMMA ForkFacts ==
    ASSUME NEW s, NEW Q, NEW SH, NEW g, Consistent(s, Q, SH, g), NEW c \in Conts, Q[c].fork
    PROVE  /\ Q[c].read \in Images /\ Q[c].write \in Images /\ Q[c].read # Q[c].write
           /\ Forked(s, Q[c].read, Q[c].write) /\ CanAbortFork(s, Q[c].read, Q[c].write)
           /\ CanCommitFork(s, Q[c].read, Q[c].write)
           /\ s.img[Q[c].read].pdev = None /\ s.img[Q[c].read].phost = None
           /\ ~s.img[Q[c].read].pinned
           /\ s.img[Q[c].write].refs = 0 /\ s.img[Q[c].write].host = None
           /\ s.img[Q[c].write].pdev = None /\ s.img[Q[c].write].phost = None
           /\ s.img[Q[c].write].pins = 0
           /\ Q[c].rw # Q[c].write
           /\ Q[c].own # "External" => s.img[Q[c].read].refs # 0
           /\ Q[c].own = "External" /\ Q[c].rw = Q[c].read => s.img[Q[c].read].refs = 2
  <1> DEFINE h == Q[c].read
             k == Q[c].write
  <1>t. None \notin Images
    BY StoreAssumption
  <1>f. Forker(s, g, Q[c]) /\ Keeper(Q, SH, c)
    BY SeqTypes
  <1>1. /\ h \in Images /\ k \in Images /\ h # k /\ s.img[k].role = "ActiveMutable"
        /\ s.img[k].from = h /\ s.img[k].from # None /\ Q[c].role = "Active"
    BY <1>f, <1>t DEF Forker
  <1>2. Immutable(s.img[h]) /\ s.img[h].dev # None /\ s.img[k].pdev = None
    BY <1>1 DEF Consistent, Sound, ForksLive, ImageOK
  <1>3. s.img[h].pins # 0
    BY <1>1, NotRead
  <1>4. /\ s.img[k].pinned /\ s.img[k].dev # None /\ s.img[k].phost = None
        /\ s.img[k].refs = 0 /\ s.img[k].host = None /\ s.img[k].pins = 0
    BY <1>1, <1>2 DEF Consistent, Sound, Shapes, Shape, ImageOK, Immutable
  <1>5. /\ s.img[h].pdev = None /\ s.img[h].phost = None /\ ~s.img[h].pinned
    BY <1>1, <1>2 DEF Consistent, ImageOK, Sound, Shapes, Shape, Immutable
  <1>6. Q[c].rw # k
    BY <1>1, <1>t DEF Consistent, SeqOK, Immutable
  <1>7. s.img[h].refs = NamedByRewrite(Q, h) + NamedByPrefix(SH, h)
    BY <1>1 DEF Consistent, ImageOK
  <1>8. Q[c].own # "External" => s.img[h].refs # 0
    <2>1. Q[c].own # "External" => NamedByRewrite(Q, h) = 1 \/ NamedByPrefix(SH, h) = 1
      BY <1>f DEF Keeper, NamedByRewrite, NamedByPrefix
    <2> QED BY <2>1, <1>7 DEF NamedByRewrite, NamedByPrefix
  <1>9. Q[c].own = "External" /\ Q[c].rw = h => s.img[h].refs = 2
    <2> SUFFICES ASSUME Q[c].own = "External", Q[c].rw = h PROVE s.img[h].refs = 2
      OBVIOUS
    <2>1. NamedByRewrite(Q, h) = 1
      BY DEF NamedByRewrite
    <2>2. s.img[h].refs # 0
      BY <2>1, <1>7 DEF NamedByPrefix
    <2>3. ASSUME NEW w \in Conts, Q[w].role = "Catalogued" PROVE h \notin {Q[w].read, Q[w].rw}
      <3>1. SeqOK(s, g, Q[w]) /\ w # c
        BY <2>3, <1>1, SeqTypes
      <3>2. Q[w].rw # h
        BY <3>1, <1>1, <1>t DEF Consistent, Distinct
      <3>3. Q[w].read # h
        BY <3>1, <2>2, <2>3, <1>1, <1>t DEF SeqOK, Headless, Endpoint, Writer, Forker
      <3> QED BY <3>2, <3>3
    <2>4. NamedByPrefix(SH, h) = 1
      BY <2>3, <1>f DEF Keeper, NamedByPrefix
    <2> QED BY <2>1, <2>4, <1>7
  <1> QED BY <1>1, <1>2, <1>3, <1>4, <1>5, <1>6, <1>8, <1>9 DEF Forked, CanAbortFork, CanCommitFork

(* Releasing a lane whose fork is pending: the fork is aborted, its        *)
(* destination goes, then the rewrite checkpoint.                          *)
LEMMA ReleasedForked ==
    ASSUME NEW s, NEW Q, NEW R, NEW SH, NEW g, NEW c \in Conts, NEW B,
           Consistent(s, Q, SH, g), Typed(R, SH, g), SameSeqs(Q, R, c),
           Q[c].fork,
           B = {Q[c].read, Q[c].write} \/ B = Owned(Q[c]),
           Headless(R[c]), R[c].rw = None
    PROVE  /\ Consistent(Released(s, Q[c], B), R, SH, g)
           /\ \A h \in Lost(Q[c]) : Gone(Released(s, Q[c], B), h)
           /\ s.freeHost \subseteq Released(s, Q[c], B).freeHost
  <1> DEFINE q == Q[c]
             h == q.read
             k == q.write
             a == AbortFork(s, h, k)
             u == DropReference(a, q.rw)
             v == TryRelease(u, k)
             x == IF OwnsRead(q) /\ h # k THEN TryRelease(v, h) ELSE v
             r == IF q.rw \in B THEN x ELSE TryRelease(x, q.rw)
  <1>t. None \notin Images
    BY StoreAssumption
  <1>q. q \in SeqRecord /\ SeqOK(s, g, q) /\ Sound(s) /\ s \in Store /\ (q.rw # None => q.rw \in Images)
    BY SeqTypes DEF Consistent, SeqRecord, Sound
  <1>b. B = {h, k} \/ B = Owned(q)
    OBVIOUS
  <1>f. /\ h \in Images /\ k \in Images /\ h # k
        /\ Forked(s, h, k) /\ CanAbortFork(s, h, k)
        /\ s.img[h].pdev = None /\ s.img[h].phost = None /\ ~s.img[h].pinned
        /\ s.img[k].refs = 0 /\ s.img[k].host = None
        /\ s.img[k].pdev = None /\ s.img[k].phost = None /\ s.img[k].pins = 0
        /\ q.rw # k
        /\ q.own # "External" => s.img[h].refs # 0
        /\ q.own = "External" /\ q.rw = h => s.img[h].refs = 2
    BY ForkFacts
  <1>g. s.img[h] \in Image /\ s.img[k] \in Image /\ Immutable(s.img[h]) /\ s.img[h].pins # 0
    BY <1>f, <1>q DEF Store, CanAbortFork, CanCommitFork
  <1>w. q.rw # None => /\ Immutable(s.img[q.rw]) /\ s.img[q.rw].refs # 0 /\ s.img[q.rw] \in Image
                       /\ s.img[q.rw].refs \in {1, 2} /\ s.img[q.rw].from = None
                       /\ ~s.img[q.rw].pinned /\ ~HasPending(s.img[q.rw])
    <2> SUFFICES ASSUME q.rw # None
                 PROVE  /\ Immutable(s.img[q.rw]) /\ s.img[q.rw].refs # 0 /\ s.img[q.rw] \in Image
                        /\ s.img[q.rw].refs \in {1, 2} /\ s.img[q.rw].from = None
                        /\ ~s.img[q.rw].pinned /\ ~HasPending(s.img[q.rw])
      OBVIOUS
    <2>1. Immutable(s.img[q.rw]) /\ s.img[q.rw].from = None /\ s.img[q.rw] \in Image
      BY <1>q DEF SeqOK, Sound, Shapes, Shape, Immutable, Store
    <2>2. s.img[q.rw].refs = NamedByRewrite(Q, q.rw) + NamedByPrefix(SH, q.rw)
          /\ ~s.img[q.rw].pinned /\ ~HasPending(s.img[q.rw])
      BY <1>q, <2>1 DEF Consistent, ImageOK, HasPending
    <2>3. NamedByRewrite(Q, q.rw) = 1
      BY DEF NamedByRewrite
    <2> QED BY <2>1, <2>2, <2>3 DEF NamedByPrefix
  <1>n. q.rw # None /\ s.img[q.rw].refs = 1 => \A d \in Conts : d # c /\ Q[d].fork => Q[d].read # q.rw
    <2>1. q.role # "Catalogued"
      BY SeqTypes DEF Forker
    <2> QED BY <2>1, RewriteUnread
  <1>r. Released(s, q, B) = r
    BY DEF Released
  <1> HIDE DEF q, h, k
  \* the fork is aborted
  <1>1. /\ Sound(a)
        /\ SameImages(s, a, {h, k}) /\ a.freeHost = s.freeHost
        /\ a.img[h].role = s.img[h].role /\ a.img[h].dev = s.img[h].dev
        /\ a.img[h].host = s.img[h].host /\ a.img[h].from = s.img[h].from
        /\ a.img[h].refs = s.img[h].refs /\ a.img[h].pinned = s.img[h].pinned
        /\ a.img[h].pdev = s.img[h].pdev /\ a.img[h].phost = s.img[h].phost
        /\ a.img[k].role = "ReservedDestination" /\ a.img[k].refs = s.img[k].refs
        /\ a.img[k].pins = s.img[k].pins /\ a.img[k].pdev = s.img[k].pdev
        /\ a.img[k].phost = s.img[k].phost /\ ~a.img[k].pinned
    <2>1. Sound(a)
      BY <1>f, <1>q, AbortForkKeeps
    <2>2. /\ SameImages(s, a, {h, k}) /\ a.freeHost = s.freeHost
          /\ a.img[h].role = s.img[h].role /\ a.img[h].dev = s.img[h].dev
          /\ a.img[h].host = s.img[h].host /\ a.img[h].from = s.img[h].from
          /\ a.img[h].refs = s.img[h].refs /\ a.img[h].pinned = s.img[h].pinned
          /\ a.img[h].pdev = s.img[h].pdev /\ a.img[h].phost = s.img[h].phost
          /\ a.img[k].role = "ReservedDestination" /\ a.img[k].refs = s.img[k].refs
          /\ a.img[k].pins = s.img[k].pins /\ a.img[k].pdev = s.img[k].pdev
          /\ a.img[k].phost = s.img[k].phost /\ ~a.img[k].pinned
      BY <1>f, <1>q, UnforkFields, SMTT(100)
    <2> QED BY <2>1, <2>2
  <1> HIDE DEF a
  <1>2. /\ Looks(s.img[h], a.img[h]) /\ a.img[h].refs = s.img[h].refs /\ ~a.img[h].pinned
        /\ a.img[h].pdev = None /\ a.img[h].phost = None /\ a.img[h] \in Image
        /\ a.img[k].role = "ReservedDestination" /\ a.img[k].refs = 0 /\ Quiet(a.img[k])
    <2>1. a \in Store
      BY <1>1 DEF Sound
    <2> QED BY <2>1, <1>1, <1>f, <1>g DEF Looks, Image, Quiet, HasPending, Store
  <1>3. q.rw # None => /\ Looks(s.img[q.rw], a.img[q.rw]) /\ a.img[q.rw].refs = s.img[q.rw].refs
                       /\ Immutable(a.img[q.rw]) /\ CanReleaseReference(a, q.rw)
                       /\ ~a.img[q.rw].pinned /\ ~HasPending(a.img[q.rw])
    <2> SUFFICES ASSUME q.rw # None
                 PROVE  /\ Looks(s.img[q.rw], a.img[q.rw]) /\ a.img[q.rw].refs = s.img[q.rw].refs
                        /\ Immutable(a.img[q.rw]) /\ CanReleaseReference(a, q.rw)
                        /\ ~a.img[q.rw].pinned /\ ~HasPending(a.img[q.rw])
      OBVIOUS
    <2>1. CASE q.rw = h
      BY <2>1, <1>2, <1>w DEF Looks, Immutable, CanReleaseReference, HasPending
    <2>2. CASE q.rw # h
      <3>1. a.img[q.rw] = s.img[q.rw]
        BY <2>2, <1>1, <1>q, <1>f DEF SameImages
      <3> QED BY <3>1, <1>w DEF Looks, Immutable, CanReleaseReference
    <2> QED BY <2>1, <2>2
  \* and its destination goes
  <1> DEFINE w == TryRelease(a, k)
             p == [R[c] EXCEPT !.role = IF q.rw = None THEN "Free" ELSE "Catalogued",
                               !.rw = q.rw, !.rwf = q.rwf]
             P == [Q EXCEPT ![c] = p]
  <1>4. Sound(w) /\ SameImages(a, w, {k}) /\ w.img[k] = NewObject("Free")
    <2>1. CanRelease(a, k)
      BY <1>2 DEF CanRelease
    <2> QED BY <2>1, <1>1, <1>f, TryReleaseSpec
  <1> HIDE DEF w
  <1>5. p \in SeqRecord /\ Headless(p) /\ p.rw = q.rw /\ p.rwf = q.rwf
    <2>1. R[c] \in SeqRecord
      BY DEF Typed
    <2>2. (IF q.rw = None THEN "Free" ELSE "Catalogued") \in {"Free", "Reserved", "Active", "Catalogued"}
      OBVIOUS
    <2>3. q.rw \in Images \cup {None} /\ q.rwf \in Nat
      BY <1>q DEF SeqRecord
    <2>4. p \in SeqRecord /\ p.rw = q.rw /\ p.rwf = q.rwf
            /\ p.role = (IF q.rw = None THEN "Free" ELSE "Catalogued")
            /\ p.read = R[c].read /\ p.write = R[c].write /\ p.fork = R[c].fork
            /\ p.valid = R[c].valid /\ p.own = R[c].own
      BY ONLY <2>1, <2>2, <2>3, ZenonT(40) DEF SeqRecord
    <2> HIDE DEF p
    <2> QED BY <2>4 DEF Headless
  <1> HIDE DEF p
  <1>6. Typed(P, SH, g) /\ P[c] = p /\ SameSeqs(Q, P, c)
    BY <1>5, TypedSeq DEF Consistent
  <1> HIDE DEF P
  <1>7. Consistent(w, P, SH, g)
    <2>1. w.img[h] = a.img[h] /\ SameImages(s, w, {h, k})
      BY <1>1, <1>4, <1>f DEF SameImages
    <2>2. /\ w.img[k].refs = 0 /\ w.img[k].from = None /\ w.img[k].host = None
          /\ w.img[k].pdev = None /\ w.img[k].phost = None /\ ~w.img[k].pinned
          /\ w.img[k].role = "Free"
      BY <1>4 DEF NewObject
    <2>3. /\ Looks(s.img[h], w.img[h]) /\ w.img[h].refs = s.img[h].refs /\ ~w.img[h].pinned
          /\ w.img[h].pdev = None /\ w.img[h].phost = None
      BY <2>1, <1>2
    <2>4. Q[c].fork /\ Q[c].read = h /\ Q[c].write = k
      BY DEF q, h, k
    <2>5. Headless(P[c]) /\ P[c].rw = Q[c].rw /\ P[c].rwf = Q[c].rwf
      BY <1>5, <1>6 DEF q
    <2> QED BY ONLY <2>1, <2>2, <2>3, <2>4, <2>5, <1>4, <1>6, EndFork, Consistent(s, Q, SH, g), c \in Conts
  <1>8. /\ q.rw # None => w.img[q.rw] = a.img[q.rw]
        /\ \A j \in Images : j # k => w.img[j] = a.img[j]
    BY <1>4, <1>f, <1>q DEF SameImages
  <1>9. q.rw # None /\ w.img[q.rw].refs = 1 => w.img[q.rw].pins = 0
    <2> SUFFICES ASSUME q.rw # None, w.img[q.rw].refs = 1 PROVE w.img[q.rw].pins = 0
      OBVIOUS
    <2>1. \A d \in Conts : P[d].fork => P[d].read # q.rw
      BY <1>8, <1>3, <1>n, <1>5, <1>6 DEF SameSeqs, Headless
    <2> QED BY <2>1, <1>7, <1>q, Unpinned
  \* the reference of the rewrite checkpoint
  <1>10. /\ Sound(u) /\ a.freeHost \subseteq u.freeHost
         /\ q.rw = None => u = a
         /\ q.rw # None => /\ SameImages(a, u, {q.rw})
                           /\ u.img[q.rw] = [a.img[q.rw] EXCEPT !.refs = a.img[q.rw].refs - 1]
    <2>1. CASE q.rw = None
      BY <2>1, <1>1 DEF DropReference
    <2>2. CASE q.rw # None
      BY <2>2, <1>1, <1>q, <1>3, DropReferenceSpec
    <2> QED BY <2>1, <2>2
  <1> HIDE DEF u
  <1>11. /\ Sound(v) /\ u.freeHost \subseteq v.freeHost
         /\ SameImages(u, v, {k}) /\ v.img[k] = NewObject("Free")
    <2>1. u.img[k] = a.img[k]
      BY <1>10, <1>f DEF SameImages
    <2>2. CanRelease(u, k)
      BY <2>1, <1>2 DEF CanRelease
    <2> QED BY <2>2, <1>10, <1>f, TryReleaseSpec, Zenon
  <1> HIDE DEF v
  \* the source and the checkpoint
  <1> DEFINE o == a.img[q.rw]
  <1>o. q.rw # None =>
          /\ o \in Image /\ o.refs \in {1, 2} /\ Immutable(o) /\ (o.refs = 1 => Quiet(o))
          /\ v.img[q.rw] = [o EXCEPT !.refs = o.refs - 1]
    <2> SUFFICES ASSUME q.rw # None
                 PROVE  /\ o \in Image /\ o.refs \in {1, 2} /\ Immutable(o) /\ (o.refs = 1 => Quiet(o))
                        /\ v.img[q.rw] = [o EXCEPT !.refs = o.refs - 1]
      OBVIOUS
    <2>1. o \in Image /\ o.refs \in {1, 2} /\ Immutable(o)
      BY <1>1, <1>3, <1>w, <1>q DEF Sound, Store
    <2>2. o.refs = 1 => Quiet(o)
      BY <1>9, <1>8, <1>3 DEF Quiet
    <2>3. v.img[q.rw] = u.img[q.rw]
      BY <1>11, <1>f, <1>q DEF SameImages
    <2> QED BY <2>1, <2>2, <2>3, <1>10
  <1>v. q.rw # None => (CanRelease(v, q.rw) <=> o.refs = 1)
    <2> SUFFICES ASSUME q.rw # None PROVE CanRelease(v, q.rw) <=> o.refs = 1
      OBVIOUS
    <2>1. o \in Image /\ o.refs \in {1, 2} /\ Immutable(o) /\ (o.refs = 1 => Quiet(o))
          /\ v.img[q.rw] = [o EXCEPT !.refs = o.refs - 1]
      BY <1>o
    <2> HIDE DEF o
    <2>2. /\ v.img[q.rw].role = o.role /\ v.img[q.rw].refs = o.refs - 1
          /\ Quiet(v.img[q.rw]) <=> Quiet(o)
      BY <2>1 DEF Image, Quiet, HasPending
    <2> QED BY <2>1, <2>2 DEF CanRelease, Immutable
  <1> HIDE DEF o
  <1>h. q.rw # h /\ OwnsRead(q) => ~CanRelease(v, h)
    <2> SUFFICES ASSUME q.rw # h, OwnsRead(q) PROVE ~CanRelease(v, h)
      OBVIOUS
    <2>1. v.img[h] = a.img[h]
      BY <1>10, <1>11, <1>f DEF SameImages
    <2> QED BY <2>1, <1>2, <1>f DEF CanRelease, OwnsRead
  <1>e. q.own = "External" /\ q.rw = h => o.refs = 2
    BY <1>3, <1>f, <1>t DEF o
  \* whatever the order, only the checkpoint may still go
  <1>12. /\ q.rw = None => r = v
         /\ q.rw # None => r = TryRelease(v, q.rw)
    <2>1. CASE q.rw = None
      <3>1. x = v
        BY <2>1, <1>h, <1>f, <1>t DEF TryRelease
      <3> QED BY <2>1, <3>1 DEF TryRelease
    <2>2. CASE q.rw = h
      <3>1. q.rw # None
        BY <2>2, <1>f, <1>t
      <3>2. CASE OwnsRead(q)
        <4>1. q.rw \in B
          BY <2>2, <3>2, <1>b DEF Owned, h, k
        <4>2. x = TryRelease(v, h)
          BY <3>2, <1>f
        <4>3. r = x
          BY <4>1
        <4> QED BY <2>2, <4>2, <4>3, <3>1
      <3>3. CASE ~OwnsRead(q)
        <4>1. x = v
          BY <3>3
        <4>2. ~CanRelease(v, q.rw)
          BY <2>2, <3>1, <3>3, <1>e, <1>v DEF OwnsRead
        <4>3. TryRelease(v, q.rw) = v
          BY <4>2 DEF TryRelease
        <4>4. r = v
          BY <4>1, <4>3
        <4> QED BY <4>3, <4>4, <3>1
      <3> QED BY <3>2, <3>3
    <2>3. CASE q.rw # None /\ q.rw # h
      <3>1. q.rw \notin B
        BY <2>3, <1>b, <1>f DEF Owned, h, k
      <3>2. x = v
        BY <2>3, <1>h DEF TryRelease
      <3>3. r = TryRelease(x, q.rw)
        BY <3>1
      <3> QED BY <3>2, <3>3, <2>3
    <2> QED BY <2>1, <2>2, <2>3
  <1> HIDE DEF r
  <1>13. /\ Sound(r) /\ v.freeHost \subseteq r.freeHost
         /\ q.rw # None => /\ SameImages(v, r, {q.rw}) /\ Unnamed(o, r.img[q.rw]) /\ Gone(r, q.rw)
    <2>1. CASE q.rw = None
      BY <2>1, <1>11, <1>12
    <2>2. CASE q.rw # None
      <3>1. /\ Sound(r) /\ SameImages(v, r, {q.rw}) /\ v.freeHost \subseteq r.freeHost
            /\ CanRelease(v, q.rw) => r.img[q.rw] = NewObject("Free")
            /\ ~CanRelease(v, q.rw) => r = v
        BY <2>2, <1>11, <1>12, <1>q, TryReleaseSpec
      <3>2. Unnamed(o, r.img[q.rw])
        BY <2>2, <3>1, <1>v, <1>o DEF Unnamed
      <3>3. Gone(r, q.rw)
        <4>1. o.refs # 1 => v.img[q.rw].refs > 0
          BY <2>2, <1>o DEF Image
        <4> QED BY <2>2, <3>1, <4>1, <1>v, <1>o DEF Gone, NewObject
      <3> QED BY <3>1, <3>2, <3>3
    <2> QED BY <2>1, <2>2
  <1>14. /\ q.rw = None => SameImages(w, r, {})
         /\ q.rw # None => SameImages(w, r, {q.rw}) /\ w.img[q.rw] = o
    BY <1>4, <1>8, <1>10, <1>11, <1>12, <1>13, <1>f DEF SameImages, o
  <1>15. /\ P[c].rw = None => SameImages(w, r, {})
         /\ P[c].rw # None => /\ SameImages(w, r, {P[c].rw})
                              /\ Unnamed(w.img[P[c].rw], r.img[P[c].rw])
                              /\ w.img[P[c].rw].refs = 1 => w.img[P[c].rw].pins = 0
    BY <1>5, <1>6, <1>9, <1>13, <1>14
  <1>16. SameSeqs(P, R, c) /\ Headless(P[c])
    BY <1>5, <1>6 DEF SameSeqs
  <1>17. Consistent(r, R, SH, g)
    BY <1>7, <1>13, <1>15, <1>16, ForgetRewrite
  <1>18. \A j \in Lost(q) : Gone(r, j)
    <2> SUFFICES ASSUME NEW j \in Lost(q) PROVE Gone(r, j)
      OBVIOUS
    <2>1. CASE j = q.rw
      BY <2>1, <1>13 DEF Lost
    <2>2. CASE j # q.rw /\ j = k
      <3>1. r.img[k] = v.img[k]
        BY <2>2, <1>12, <1>13, <1>f DEF SameImages
      <3> QED BY <2>2, <3>1, <1>11 DEF Gone, NewObject
    <2>3. CASE j # q.rw /\ j # k
      <3>1. j = h /\ OwnsRead(q)
        BY <2>3 DEF Lost, Owned, h, k
      <3>2. r.img[h] = a.img[h]
        BY <2>3, <3>1, <1>10, <1>11, <1>12, <1>13, <1>f DEF SameImages
      <3>3. r.img[h].refs > 0
        BY <3>1, <3>2, <1>2, <1>f DEF OwnsRead, Image
      <3> QED BY <3>1, <3>3 DEF Gone
    <2> QED BY <2>1, <2>2, <2>3
  <1>19. s.freeHost \subseteq r.freeHost
    BY <1>1, <1>10, <1>11, <1>13
  <1> QED BY <1>17, <1>18, <1>19, <1>r DEF q

(* Releasing a lane, in whatever state its binding is.                     *)
LEMMA LaneReleased ==
    ASSUME NEW s, NEW Q, NEW R, NEW SH, NEW g, NEW c \in Conts, NEW B,
           Consistent(s, Q, SH, g), Typed(R, SH, g), SameSeqs(Q, R, c),
           Q[c].role = "Active", B = {Q[c].read, Q[c].write} \/ B = Owned(Q[c]),
           Headless(R[c]), R[c].rw = None
    PROVE  /\ Consistent(Released(s, Q[c], B), R, SH, g)
           /\ \A h \in Lost(Q[c]) : Gone(Released(s, Q[c], B), h)
           /\ s.freeHost \subseteq Released(s, Q[c], B).freeHost
  <1>1. CASE Q[c].fork
    BY <1>1, ReleasedForked
  <1>2. CASE ~Q[c].fork
    <2>t. None \notin Images
      BY StoreAssumption
    <2>1. Q[c] \in SeqRecord /\ SeqOK(s, g, Q[c])
      BY SeqTypes
    <2>2. Writer(s, g, Q[c])
      BY <2>1, <1>2 DEF SeqOK, Headless, Endpoint, Forker
    <2>3. s.img[Q[c].read].pins = 0
      BY <2>2 DEF Writer, Consistent, Sound, Shapes, Shape, Immutable
    <2>4. Q[c].rw # None /\ s.img[Q[c].rw].refs = 1 => s.img[Q[c].rw].pins = 0
      <3> SUFFICES ASSUME Q[c].rw # None, s.img[Q[c].rw].refs = 1 PROVE s.img[Q[c].rw].pins = 0
        OBVIOUS
      <3>1. \A d \in Conts : Q[d].fork => Q[d].read # Q[c].rw
        BY <1>2, RewriteUnread
      <3>2. Q[c].rw \in Images
        BY <2>1 DEF SeqRecord
      <3> QED BY <3>1, <3>2, Unpinned
    <2>5. B \subseteq {Q[c].read, Q[c].write}
      BY DEF Owned
    <2> QED BY <1>2, <2>3, <2>4, <2>5, ReleasedUnforked
  <1> QED BY <1>1, <1>2

(* Releasing a continuation that no lane executes, no fork pending.        *)
LEMMA IdleReleased ==
    ASSUME NEW s, NEW Q, NEW R, NEW SH, NEW g, NEW c \in Conts, NEW B,
           Consistent(s, Q, SH, g), Typed(R, SH, g), SameSeqs(Q, R, c),
           NoForks(Q), B \subseteq {Q[c].read, Q[c].write},
           Headless(R[c]), R[c].rw = None
    PROVE  /\ Consistent(Released(s, Q[c], B), R, SH, g)
           /\ \A h \in Lost(Q[c]) : Gone(Released(s, Q[c], B), h)
           /\ s.freeHost \subseteq Released(s, Q[c], B).freeHost
  <1>1. Q[c] \in SeqRecord /\ ~Q[c].fork
    BY SeqTypes DEF NoForks
  <1>2. \A h \in Images : s.img[h].pins = 0
    BY AllQuiet
  <1>3. /\ Q[c].read # None => s.img[Q[c].read].pins = 0
        /\ Q[c].rw # None /\ s.img[Q[c].rw].refs = 1 => s.img[Q[c].rw].pins = 0
    BY <1>1, <1>2 DEF SeqRecord
  <1> QED BY <1>1, <1>3, ReleasedUnforked

(* The strict release succeeds when the best-effort one frees all it       *)
(* should.                                                                 *)
LEMMA StrictlyReleased ==
    ASSUME NEW s, NEW q, \A h \in Lost(q) : Gone(Released(s, q, {q.read, q.write}), h)
    PROVE  ReleasedStrictly(s, q)
  BY DEF ReleasedStrictly, ReleaseState, Lost

(* A continuation gives up its endpoint.                                   *)
LEMMA EndpointReleased ==
    ASSUME NEW s, NEW Q, NEW R, NEW SH, NEW g, NEW c \in Conts,
           Consistent(s, Q, SH, g), Typed(R, SH, g), SameSeqs(Q, R, c), NoForks(Q),
           Endpoint(s, g, Q[c]), Headless(R[c]), R[c].rw = Q[c].rw, R[c].rwf = Q[c].rwf
    PROVE  /\ Consistent(TryRelease(s, Q[c].read), R, SH, g)
           /\ CanRelease(s, Q[c].read) /\ Gone(TryRelease(s, Q[c].read), Q[c].read)
           /\ SameImages(s, TryRelease(s, Q[c].read), {Q[c].read})
           /\ s.freeHost \subseteq TryRelease(s, Q[c].read).freeHost
           /\ s.freeDev \subseteq TryRelease(s, Q[c].read).freeDev
  <1>1. /\ Q[c].read \in Images /\ s.img[Q[c].read].refs = 0
    BY OwnedAlone
  <1>2. Quiet(s.img[Q[c].read]) /\ s.img[Q[c].read].pins = 0
    BY <1>1, AllQuiet
  <1>3. CanRelease(s, Q[c].read)
    BY <1>1, <1>2 DEF CanRelease, Endpoint, Immutable
  <1>4. /\ Sound(TryRelease(s, Q[c].read)) /\ SameImages(s, TryRelease(s, Q[c].read), {Q[c].read})
        /\ TryRelease(s, Q[c].read).img[Q[c].read] = NewObject("Free")
        /\ s.freeHost \subseteq TryRelease(s, Q[c].read).freeHost
        /\ s.freeDev \subseteq TryRelease(s, Q[c].read).freeDev
    BY <1>1, <1>3, TryReleaseSpec DEF Consistent
  <1>5. Consistent(TryRelease(s, Q[c].read), R, SH, g)
    BY <1>2, <1>4, DropEndpoint
  <1>6. Gone(TryRelease(s, Q[c].read), Q[c].read)
    BY <1>4 DEF Gone, NewObject
  <1> QED BY <1>3, <1>4, <1>5, <1>6

(* A continuation gives up its rewrite checkpoint.                         *)
LEMMA RewriteReleased ==
    ASSUME NEW s, NEW Q, NEW R, NEW SH, NEW g, NEW c \in Conts,
           Consistent(s, Q, SH, g), Typed(R, SH, g), SameSeqs(Q, R, c), NoForks(Q),
           Q[c].rw # None, R[c].rw = None,
           R[c].role = Q[c].role, R[c].valid = Q[c].valid, ~R[c].fork,
           R[c].own = Q[c].own, R[c].read = Q[c].read, R[c].write = Q[c].write,
           R[c].pos = Q[c].pos \/ Headless(Q[c])
    PROVE  /\ Consistent(DropCheckpoint(s, Q[c].rw), R, SH, g)
           /\ Gone(DropCheckpoint(s, Q[c].rw), Q[c].rw)
           /\ SameImages(s, DropCheckpoint(s, Q[c].rw), {Q[c].rw})
           /\ s.freeHost \subseteq DropCheckpoint(s, Q[c].rw).freeHost
           /\ s.freeDev \subseteq DropCheckpoint(s, Q[c].rw).freeDev
  <1> DEFINE h == Q[c].rw
  <1>1. Q[c] \in SeqRecord /\ SeqOK(s, g, Q[c]) /\ ~Q[c].fork
    BY SeqTypes DEF NoForks
  <1>2. h \in Images /\ Immutable(s.img[h])
    BY <1>1 DEF SeqRecord, SeqOK
  <1>3. Quiet(s.img[h]) /\ s.img[h].pins = 0
    BY <1>2, AllQuiet
  <1>4. s.img[h].refs = NamedByRewrite(Q, h) + NamedByPrefix(SH, h)
    BY <1>2 DEF Consistent, ImageOK
  <1>5. NamedByRewrite(Q, h) = 1
    BY DEF NamedByRewrite
  <1>6. CanReleaseReference(s, h)
    BY <1>2, <1>4, <1>5 DEF CanReleaseReference, NamedByPrefix
  <1>7. /\ Sound(DropCheckpoint(s, h)) /\ SameImages(s, DropCheckpoint(s, h), {h})
        /\ Unnamed(s.img[h], DropCheckpoint(s, h).img[h])
        /\ Gone(DropCheckpoint(s, h), h)
        /\ s.freeHost \subseteq DropCheckpoint(s, h).freeHost
        /\ s.freeDev \subseteq DropCheckpoint(s, h).freeDev
    BY <1>2, <1>3, <1>6, DropCheckpointSpec DEF Consistent
  <1>8. Consistent(DropCheckpoint(s, h), R, SH, g)
    BY <1>1, <1>3, <1>7, DropRewrite
  <1> QED BY <1>7, <1>8

(* A shared prefix is released.                                            *)
LEMMA PrefixReleased ==
    ASSUME NEW s, NEW Q, NEW SH, NEW SI, NEW g, NEW x \in SharedSlots,
           Consistent(s, Q, SH, g), Typed(Q, SI, g), SamePrefixes(SH, SI, x), NoForks(Q),
           SH[x].img # None, SI[x].img = None, SI[x].role \in {"Free", "ReservedCapture"}
    PROVE  /\ Consistent(DropCheckpoint(s, SH[x].img), Q, SI, g)
           /\ SameImages(s, DropCheckpoint(s, SH[x].img), {SH[x].img})
           /\ s.freeHost \subseteq DropCheckpoint(s, SH[x].img).freeHost
           /\ s.freeDev \subseteq DropCheckpoint(s, SH[x].img).freeDev
           /\ SH[x].img \in Images /\ Unnamed(s.img[SH[x].img], DropCheckpoint(s, SH[x].img).img[SH[x].img])
  <1> DEFINE h == SH[x].img
  <1>2. h \in Images /\ Immutable(s.img[h])
    BY DEF Consistent, PrefixOK
  <1>3. Quiet(s.img[h])
    BY <1>2, AllQuiet
  <1>4. s.img[h].refs = NamedByRewrite(Q, h) + NamedByPrefix(SH, h)
    BY <1>2 DEF Consistent, ImageOK
  <1>5. NamedByPrefix(SH, h) = 1
    BY DEF NamedByPrefix
  <1>6. CanReleaseReference(s, h)
    BY <1>2, <1>4, <1>5 DEF CanReleaseReference, NamedByRewrite
  <1>7. /\ Sound(DropCheckpoint(s, h)) /\ SameImages(s, DropCheckpoint(s, h), {h})
        /\ Unnamed(s.img[h], DropCheckpoint(s, h).img[h])
        /\ s.freeHost \subseteq DropCheckpoint(s, h).freeHost
        /\ s.freeDev \subseteq DropCheckpoint(s, h).freeDev
    BY <1>2, <1>3, <1>6, DropCheckpointSpec DEF Consistent
  <1>8. Consistent(DropCheckpoint(s, h), Q, SI, g)
    BY <1>7, DropPrefix
  <1> QED BY <1>2, <1>7, <1>8

(* A replica that the other one makes superfluous goes.                    *)
LEMMA ReplicaDropped ==
    ASSUME NEW s, NEW Q, NEW SH, NEW g, NEW h \in Images,
           Consistent(s, Q, SH, g), NoForks(Q), CanDropReplica(s, h)
    PROVE  /\ Consistent(DropHostReplica(s, h), Q, SH, g)
           /\ Consistent(DropDeviceReplica(s, h), Q, SH, g)
           /\ s.freeHost \subseteq DropHostReplica(s, h).freeHost
           /\ s.freeHost \subseteq DropDeviceReplica(s, h).freeHost
  <1>1. s \in Store /\ Sound(s) /\ Immutable(s.img[h])
    BY DEF Consistent, Sound, CanDropReplica
  <1>2. Quiet(s.img[h]) /\ s.img[h].from = None /\ s.img[h].pins = 0
    BY AllQuiet
  <1>3. Consistent(DropHostReplica(s, h), Q, SH, g) /\ s.freeHost \subseteq DropHostReplica(s, h).freeHost
    <2> DEFINE r == DropHostReplica(s, h)
    <2>1. Sound(r)
      BY <1>1, DropHostKeeps
    <2>2. /\ SameImages(s, r, {h}) /\ r.img[h].role = s.img[h].role /\ r.img[h].refs = s.img[h].refs
          /\ r.img[h].from = s.img[h].from /\ r.img[h].pinned = s.img[h].pinned
          /\ r.img[h].pdev = s.img[h].pdev /\ r.img[h].phost = s.img[h].phost
          /\ r.img[h].dev = s.img[h].dev /\ r.img[h].host = None
          /\ s.freeHost \subseteq r.freeHost
      BY <1>1, DropHostFields, SMTT(30)
    <2> HIDE DEF r
    <2>3. \A n \in Nat : Holds(s, g, h, n) => Holds(r, g, h, n)
      BY <2>2 DEF Holds
    <2>4. /\ Immutable(r.img[h]) /\ r.img[h].from = None /\ ~r.img[h].pinned
          /\ r.img[h].pdev = None /\ r.img[h].phost = None
      BY <2>2, <1>1, <1>2 DEF Immutable, Quiet, HasPending
    <2>5. Consistent(r, Q, SH, g)
      BY <1>1, <1>2, <2>1, <2>2, <2>3, <2>4, ReplicaChange
    <2> QED BY <2>2, <2>5 DEF r
  <1>4. Consistent(DropDeviceReplica(s, h), Q, SH, g) /\ s.freeHost \subseteq DropDeviceReplica(s, h).freeHost
    <2> DEFINE r == DropDeviceReplica(s, h)
    <2>1. Sound(r)
      BY <1>1, DropDeviceKeeps
    <2>2. /\ SameImages(s, r, {h}) /\ r.img[h].role = s.img[h].role /\ r.img[h].refs = s.img[h].refs
          /\ r.img[h].from = s.img[h].from /\ r.img[h].pinned = s.img[h].pinned
          /\ r.img[h].pdev = s.img[h].pdev /\ r.img[h].phost = s.img[h].phost
          /\ r.img[h].dev = None /\ r.img[h].host = s.img[h].host
          /\ s.freeHost \subseteq r.freeHost
      BY <1>1, DropDeviceFields, SMTT(30)
    <2> HIDE DEF r
    <2>3. \A n \in Nat : Holds(s, g, h, n) => Holds(r, g, h, n)
      BY <2>2 DEF Holds
    <2>4. /\ Immutable(r.img[h]) /\ r.img[h].from = None /\ ~r.img[h].pinned
          /\ r.img[h].pdev = None /\ r.img[h].phost = None
      BY <2>2, <1>1, <1>2 DEF Immutable, Quiet, HasPending
    <2>5. Consistent(r, Q, SH, g)
      BY <1>1, <1>2, <2>1, <2>2, <2>3, <2>4, ReplicaChange
    <2> QED BY <2>2, <2>5 DEF r
  <1> QED BY <1>3, <1>4

(* The copy of a checkpoint to the Host, from submission to publication or *)
(* abort.                                                                  *)
Copying(s, m, h, t) ==
    /\ Sound(m) /\ SameImages(s, m, {h}) /\ Looks(s.img[h], m.img[h])
    /\ m.img[h].refs = s.img[h].refs /\ m.img[h].phost = t /\ m.img[h].pins = 1
    /\ m.img[h].pdev = None
    /\ m.freeHost = s.freeHost \ {t} /\ m.freeDev = s.freeDev

(* A demotion that begins is a pending copy of one image and nothing else. *)
LEMMA DemotionBegins ==
    ASSUME NEW s, NEW Q, NEW SH, NEW g, NEW h \in Images, NEW t \in s.freeHost,
           Consistent(s, Q, SH, g), NoForks(Q),
           Immutable(s.img[h]), s.img[h].dev # None, s.img[h].host = None
    PROVE  Copying(s, BeginDeviceToHost(s, h, t), h, t)
  <1> DEFINE m == BeginDeviceToHost(s, h, t)
  <1>1. s \in Store /\ Sound(s) /\ t \in HostSlots /\ s.freeHost \subseteq HostSlots
    BY DEF Consistent, Sound, Store
  <1>2. Quiet(s.img[h]) /\ s.img[h].from = None /\ s.img[h].pins = 0
    BY AllQuiet
  <1>3. CanBeginDeviceToHost(s, h, t)
    BY <1>2 DEF CanBeginDeviceToHost, Quiet
  <1>4. Sound(m)
    BY <1>1, <1>3, BeginDeviceToHostKeeps
  <1>5. /\ SameImages(s, m, {h}) /\ m.img[h].role = s.img[h].role /\ m.img[h].dev = s.img[h].dev
        /\ m.img[h].host = s.img[h].host /\ m.img[h].from = s.img[h].from
        /\ m.img[h].refs = s.img[h].refs /\ m.img[h].phost = t /\ m.img[h].pins = s.img[h].pins + 1
        /\ m.img[h].pdev = s.img[h].pdev
    BY <1>1, ToHostFields, ToHostTarget, SMTT(100)
  <1>7. m.freeHost = s.freeHost \ {t} /\ m.freeDev = s.freeDev
    BY <1>1, ToHostPools
  <1> HIDE DEF m
  <1>6. Looks(s.img[h], m.img[h]) /\ m.img[h].pins = 1 /\ m.img[h].pdev = None
    BY <1>5, <1>2 DEF Looks, Quiet, HasPending
  <1> QED BY <1>4, <1>5, <1>6, <1>7 DEF m, Copying

(* Aborting a demotion restores the store exactly.                         *)
LEMMA DemotionAborts ==
    ASSUME NEW s, NEW Q, NEW SH, NEW g, NEW h \in Images, NEW t \in s.freeHost,
           Consistent(s, Q, SH, g), NoForks(Q),
           Immutable(s.img[h]), s.img[h].dev # None, s.img[h].host = None
    PROVE  AbortDeviceToHost(BeginDeviceToHost(s, h, t), h) = s
  <1> DEFINE m == BeginDeviceToHost(s, h, t)
             r == AbortDeviceToHost(m, h)
             o == s.img[h]
  <1>1. s \in Store /\ Sound(s) /\ t \in HostSlots /\ o \in Image /\ t # None
    BY StoreAssumption DEF Consistent, Sound, Store
  <1>2. Quiet(o) /\ o.from = None /\ o.pins = 0
    BY AllQuiet
  <1>3. Sound(m) /\ m \in Store /\ TransferToHost(m, h)
    <2>1. Copying(s, m, h, t)
      BY DemotionBegins
    <2> QED BY <1>1, <2>1 DEF Copying, Sound, TransferToHost
  <1>4. /\ SameImages(s, m, {h}) /\ m.img[h].role = o.role /\ m.img[h].dev = o.dev
        /\ m.img[h].host = o.host /\ m.img[h].from = o.from /\ m.img[h].pdev = o.pdev
        /\ m.img[h].refs = o.refs /\ m.img[h].pins = o.pins + 1
    BY <1>1, ToHostFields, SMTT(30)
  <1> HIDE DEF m
  <1>5. Sound(r)
    BY <1>3, AbortDeviceToHostKeeps
  <1>6. /\ SameImages(m, r, {h}) /\ r.img[h].role = m.img[h].role /\ r.img[h].dev = m.img[h].dev
        /\ r.img[h].host = m.img[h].host /\ r.img[h].from = m.img[h].from /\ r.img[h].pdev = m.img[h].pdev
        /\ r.img[h].refs = m.img[h].refs /\ r.img[h].pins = m.img[h].pins - 1
        /\ r.img[h].phost = None /\ ~r.img[h].pinned
    BY <1>3, UnToHostFields, SMTT(100)
  <1> HIDE DEF r, o
  <1>7. r.img[h] \in Image
    BY <1>5 DEF Sound, Store
  <1>8. r.img[h].pins = o.pins /\ r.img[h].phost = o.phost
    BY <1>2, <1>4, <1>6 DEF Quiet, HasPending
  <1>9. r.img[h].pinned = o.pinned
    <2>1. o.pinned = FALSE /\ r.img[h].pinned = FALSE
      BY <1>1, <1>2, <1>6, <1>7 DEF Image, Quiet
    <2> QED BY <2>1
  <1>10. r.img[h] = o
    BY <1>1, <1>4, <1>6, <1>7, <1>8, <1>9, ImageEq
  <1>11. SameImages(s, r, {})
    BY <1>4, <1>6, <1>10 DEF SameImages, o
  <1>12. r = s
    BY <1>1, <1>5, <1>11, SameStore
  <1> QED BY <1>12 DEF r, m

(* A demotion that publishes leaves a consistent state, provided the Host  *)
(* slot received the contents of the Device slot.                          *)
LEMMA DemotionPublishes ==
    ASSUME NEW s, NEW Q, NEW SH, NEW g, NEW h \in Images, NEW t \in s.freeHost,
           Consistent(s, Q, SH, g), NoForks(Q),
           Immutable(s.img[h]), s.img[h].dev # None, s.img[h].host = None,
           g[t] = g[s.img[h].dev]
    PROVE  Consistent(PublishDeviceToHost(BeginDeviceToHost(s, h, t), h, FALSE), Q, SH, g)
  <1> DEFINE m == BeginDeviceToHost(s, h, t)
             r == PublishDeviceToHost(m, h, FALSE)
             o == s.img[h]
  <1>1. s \in Store /\ Sound(s) /\ t \in HostSlots /\ o \in Image /\ t # None
    BY StoreAssumption DEF Consistent, Sound, Store
  <1>2. Quiet(o) /\ o.from = None /\ o.pins = 0
    BY AllQuiet
  <1>3. /\ Sound(m) /\ m \in Store /\ TransferToHost(m, h) /\ m.img[h].pins = 1
        /\ SameImages(s, m, {h}) /\ Looks(o, m.img[h]) /\ m.img[h].refs = o.refs
        /\ m.img[h].phost = t /\ m.img[h].pdev = None
    <2>1. Copying(s, m, h, t)
      BY DemotionBegins
    <2> QED BY <1>1, <2>1 DEF Copying, Sound, TransferToHost
  <1> HIDE DEF m
  <1>5. Sound(r)
    BY <1>3, PublishToHostKeeps
  <1>6. /\ SameImages(m, r, {h}) /\ r.img[h].role = m.img[h].role /\ r.img[h].dev = None
        /\ r.img[h].host = m.img[h].phost /\ r.img[h].from = m.img[h].from /\ r.img[h].pdev = m.img[h].pdev
        /\ r.img[h].refs = m.img[h].refs /\ r.img[h].phost = None /\ ~r.img[h].pinned
    BY <1>3, DemotedFields, Zenon DEF r
  <1> HIDE DEF r
  <1>7. SameImages(s, r, {h})
    BY <1>3, <1>6 DEF SameImages
  <1>8. \A n \in Nat : Holds(s, g, h, n) => Holds(r, g, h, n)
    BY <1>3, <1>6 DEF Holds
  <1>9. /\ Immutable(o) /\ Immutable(r.img[h]) /\ r.img[h].refs = o.refs /\ r.img[h].from = None /\ ~r.img[h].pinned
        /\ r.img[h].pdev = None /\ r.img[h].phost = None
    BY <1>2, <1>3, <1>6 DEF Immutable, Looks
  <1>10. Consistent(r, Q, SH, g)
    BY <1>2, <1>5, <1>7, <1>8, <1>9, ReplicaChange
  <1> QED BY <1>10 DEF r, m

(* The restore of a checkpoint into its own Device slot.                   *)
Fetching(s, m, h, d) ==
    /\ Sound(m) /\ SameImages(s, m, {h}) /\ Looks(s.img[h], m.img[h])
    /\ m.img[h].refs = s.img[h].refs /\ m.img[h].pdev = d /\ m.img[h].pins = 1
    /\ m.img[h].phost = None
    /\ m.freeDev = s.freeDev \ {d} /\ m.freeHost = s.freeHost

(* A restore that begins is a pending fetch of one image and nothing else. *)
LEMMA RestoreBegins ==
    ASSUME NEW s, NEW Q, NEW SH, NEW g, NEW h \in Images, NEW d \in s.freeDev,
           Consistent(s, Q, SH, g), NoForks(Q),
           Immutable(s.img[h]), s.img[h].host # None, s.img[h].dev = None
    PROVE  Fetching(s, BeginHostToDevice(s, h, d), h, d)
  <1> DEFINE m == BeginHostToDevice(s, h, d)
  <1>1. s \in Store /\ Sound(s) /\ d \in DevSlots /\ s.freeDev \subseteq DevSlots
    BY DEF Consistent, Sound, Store
  <1>2. Quiet(s.img[h]) /\ s.img[h].from = None /\ s.img[h].pins = 0
    BY AllQuiet
  <1>3. CanBeginHostToDevice(s, h, d)
    BY <1>2 DEF CanBeginHostToDevice, Quiet
  <1>4. Sound(m)
    BY <1>1, <1>3, BeginHostToDeviceKeeps
  <1>5. /\ SameImages(s, m, {h}) /\ m.img[h].role = s.img[h].role /\ m.img[h].dev = s.img[h].dev
        /\ m.img[h].host = s.img[h].host /\ m.img[h].from = s.img[h].from
        /\ m.img[h].refs = s.img[h].refs /\ m.img[h].pins = s.img[h].pins + 1
        /\ m.img[h].phost = s.img[h].phost
    BY <1>1, ToDeviceFields, SMTT(100)
  <1>8. m.img[h].pdev = d
    BY <1>1, ToDeviceTarget
  <1>7. m.freeDev = s.freeDev \ {d} /\ m.freeHost = s.freeHost
    BY <1>1, ToDevicePools
  <1> HIDE DEF m
  <1>6. Looks(s.img[h], m.img[h]) /\ m.img[h].pins = 1 /\ m.img[h].phost = None
    BY <1>5, <1>2 DEF Looks, Quiet, HasPending
  <1> QED BY <1>4, <1>5, <1>6, <1>7, <1>8 DEF m, Fetching

(* Aborting a restore leaves the store exactly as it was.                  *)
LEMMA RestoreAborts ==
    ASSUME NEW s, NEW Q, NEW SH, NEW g, NEW h \in Images, NEW d \in s.freeDev,
           Consistent(s, Q, SH, g), NoForks(Q),
           Immutable(s.img[h]), s.img[h].host # None, s.img[h].dev = None
    PROVE  AbortHostToDevice(BeginHostToDevice(s, h, d), h) = s
  <1> DEFINE m == BeginHostToDevice(s, h, d)
             r == AbortHostToDevice(m, h)
             o == s.img[h]
  <1>1. s \in Store /\ Sound(s) /\ d \in DevSlots /\ o \in Image /\ d # None
    BY StoreAssumption DEF Consistent, Sound, Store
  <1>2. Quiet(o) /\ o.from = None /\ o.pins = 0
    BY AllQuiet
  <1>3. Fetching(s, m, h, d)
    BY RestoreBegins
  <1>4. Sound(m) /\ m \in Store /\ TransferToDevice(m, h)
    BY <1>1, <1>2, <1>3 DEF Fetching, Sound, TransferToDevice, Looks
  <1> HIDE DEF m
  <1>5. Sound(r)
    BY <1>4, AbortHostToDeviceKeeps
  <1>6. /\ SameImages(m, r, {h}) /\ r.img[h].role = m.img[h].role /\ r.img[h].dev = m.img[h].dev
        /\ r.img[h].host = m.img[h].host /\ r.img[h].from = m.img[h].from /\ r.img[h].phost = m.img[h].phost
        /\ r.img[h].refs = m.img[h].refs /\ r.img[h].pins = m.img[h].pins - 1
        /\ r.img[h].pdev = None /\ ~r.img[h].pinned
    BY <1>4, UnToDeviceFields, SMTT(100)
  <1> HIDE DEF r, o
  <1>7. r.img[h] \in Image
    BY <1>5 DEF Sound, Store
  <1>8. r.img[h].pins = o.pins /\ r.img[h].phost = o.phost /\ r.img[h].pdev = o.pdev
    BY <1>2, <1>3, <1>6 DEF Quiet, HasPending, Fetching
  <1>9. r.img[h].pinned = o.pinned
    <2>1. o.pinned = FALSE /\ r.img[h].pinned = FALSE
      BY <1>1, <1>2, <1>6, <1>7 DEF Image, Quiet
    <2> QED BY <2>1
  <1>10. r.img[h] = o
    <2>1. r.img[h].role = o.role /\ r.img[h].dev = o.dev /\ r.img[h].host = o.host
          /\ r.img[h].from = o.from /\ r.img[h].refs = o.refs
      BY <1>3, <1>6 DEF Fetching, Looks, o
    <2> QED BY <1>1, <1>7, <1>8, <1>9, <2>1, ImageEq
  <1>11. SameImages(s, r, {})
    BY <1>3, <1>6, <1>10 DEF SameImages, Fetching, o
  <1>12. r = s
    BY <1>1, <1>5, <1>11, SameStore
  <1> QED BY <1>12 DEF r, m

\* a restore that was begun and published
Refetch(s, h, d) == PublishHostToDevice(BeginHostToDevice(s, h, d), h, TRUE)

\* an image on the Host only, and the slot d its restore has filled
Fetchable(s, Q, SH, g, h, d) ==
    /\ Consistent(s, Q, SH, g) /\ NoForks(Q) /\ h \in Images /\ d \in s.freeDev
    /\ Immutable(s.img[h]) /\ s.img[h].host # None /\ s.img[h].dev = None /\ g[d] = g[s.img[h].host]

(* The restored image is back on the Device, the catalogue is consistent   *)
(* and the Host pool is unchanged.                                         *)
Fetched(s, r, Q, SH, g, h) ==
    /\ Consistent(r, Q, SH, g) /\ SameImages(s, r, {h})
    /\ r.img[h].refs = s.img[h].refs /\ r.img[h].dev # None /\ Immutable(r.img[h])
    /\ r.freeHost = s.freeHost

(* A restore that publishes leaves a consistent state.                     *)
LEMMA RestorePublishes ==
    ASSUME NEW s, NEW Q, NEW SH, NEW g, NEW h, NEW d, Fetchable(s, Q, SH, g, h, d)
    PROVE  Fetched(s, Refetch(s, h, d), Q, SH, g, h)
  <1>0. /\ Consistent(s, Q, SH, g) /\ NoForks(Q) /\ h \in Images /\ d \in s.freeDev
        /\ Immutable(s.img[h]) /\ s.img[h].host # None /\ s.img[h].dev = None /\ g[d] = g[s.img[h].host]
    BY DEF Fetchable
  <1>r. PICK r : r = Refetch(s, h, d)
    OBVIOUS
  <1> DEFINE m == BeginHostToDevice(s, h, d)
             o == s.img[h]
  <1>1. s \in Store /\ Sound(s) /\ d \in DevSlots /\ o \in Image /\ d # None
    BY <1>0, StoreAssumption DEF Consistent, Sound, Store
  <1>2. Quiet(o) /\ o.from = None /\ o.pins = 0
    BY <1>0, AllQuiet
  <1>3. Fetching(s, m, h, d)
    BY <1>0, RestoreBegins
  <1>4. Sound(m) /\ m \in Store /\ TransferToDevice(m, h)
    BY <1>0, <1>1, <1>2, <1>3 DEF Fetching, Sound, TransferToDevice, Looks
  <1>4a. r = PublishHostToDevice(m, h, TRUE)
    BY <1>r DEF Refetch
  <1> HIDE DEF m
  <1>5. Sound(r)
    BY <1>0, <1>4, <1>4a, PublishToDeviceKeepingKeeps
  <1>6. /\ SameImages(m, r, {h}) /\ r.img[h].role = m.img[h].role /\ r.img[h].dev = m.img[h].pdev
        /\ r.img[h].host = m.img[h].host /\ r.img[h].from = m.img[h].from /\ r.img[h].phost = m.img[h].phost
        /\ r.img[h].refs = m.img[h].refs /\ r.img[h].pdev = None /\ ~r.img[h].pinned
        /\ r.freeHost = m.freeHost
    BY <1>0, <1>4, <1>4a, RestoredFields, Zenon
  <1>7. SameImages(s, r, {h})
    BY <1>3, <1>6 DEF SameImages, Fetching
  <1>8. \A n \in Nat : Holds(s, g, h, n) => Holds(r, g, h, n)
    BY <1>0, <1>3, <1>6 DEF Holds, Fetching, Looks
  <1>9. /\ Immutable(o) /\ Immutable(r.img[h]) /\ r.img[h].refs = o.refs /\ r.img[h].from = None /\ ~r.img[h].pinned
        /\ r.img[h].pdev = None /\ r.img[h].phost = None /\ r.img[h].dev # None /\ r.freeHost = s.freeHost
    BY <1>0, <1>1, <1>2, <1>3, <1>6 DEF Immutable, Looks, Fetching
  <1>10. Consistent(r, Q, SH, g)
    BY <1>0, <1>2, <1>5, <1>7, <1>8, <1>9, ReplicaChange
  <1> QED BY <1>r, <1>7, <1>9, <1>10 DEF Fetched

(* The restore of a checkpoint into a new image.                           *)
Cloning(s, m, h, k, d) ==
    /\ Sound(m) /\ SameImages(s, m, {h, k}) /\ Looks(s.img[h], m.img[h])
    /\ m.img[h].refs = s.img[h].refs /\ m.img[h].pins = 1 /\ m.img[h].pdev = None
    /\ m.img[h].phost = None /\ ~m.img[h].pinned
    /\ m.img[k].role = "ActiveMutable" /\ m.img[k].dev = None /\ m.img[k].host = None
    /\ m.img[k].pdev = d /\ m.img[k].phost = None /\ m.img[k].refs = 0
    /\ m.img[k].pins = 0 /\ m.img[k].from = h
    /\ m.freeDev = s.freeDev \ {d} /\ m.freeHost = s.freeHost

\* an image that was reserved and has no replica yet
Bare(s, z, k) ==
    /\ Sound(z) /\ SameImages(s, z, {k})
    /\ z.img[k].role = "ReservedDestination" /\ z.img[k].dev = None /\ z.img[k].host = None
    /\ z.img[k].pdev = None /\ z.img[k].phost = None /\ z.img[k].refs = 0 /\ z.img[k].pins = 0
    /\ z.img[k].from = None /\ ~z.img[k].pinned
    /\ z.freeDev = s.freeDev /\ z.freeHost = s.freeHost

(* A logical destination is an image without a slot, and nothing else has  *)
(* changed.                                                                *)
LEMMA BareReserved ==
    ASSUME NEW s, Sound(s), NEW k \in Images, s.img[k].role = "Free"
    PROVE  Bare(s, ReserveLogicalDestination(s, k), k)
  <1>1. s \in Store
    BY DEF Sound
  <1>2. Sound(ReserveLogicalDestination(s, k))
    BY ReserveLogicalKeeps DEF CanReserveLogicalDestination
  <1> QED BY <1>1, <1>2, ReserveLogicalFields, SMTT(30) DEF Bare

(* A Host fork that begins is a pending copy into a new image and nothing  *)
(* else.                                                                   *)
LEMMA CloneBegins ==
    ASSUME NEW s, NEW Q, NEW SH, NEW g, NEW h \in Images, NEW k \in Images, NEW d \in s.freeDev,
           Consistent(s, Q, SH, g), NoForks(Q),
           Immutable(s.img[h]), s.img[h].host # None, s.img[k].role = "Free"
    PROVE  Cloning(s, BeginHostFork(ReserveLogicalDestination(s, k), h, k, d), h, k, d)
  <1> DEFINE z == ReserveLogicalDestination(s, k)
             m == BeginHostFork(z, h, k, d)
  <1>1. s \in Store /\ Sound(s) /\ d \in DevSlots /\ s.freeDev \subseteq DevSlots
    BY DEF Consistent, Sound, Store
  <1>2. Quiet(s.img[h]) /\ s.img[h].from = None /\ s.img[h].pins = 0 /\ h # k
    BY AllQuiet DEF Immutable
  <1>3. Bare(s, z, k)
    BY <1>1, BareReserved
  <1> HIDE DEF z
  <1>4. Sound(z) /\ z \in Store /\ z.img[h] = s.img[h]
    BY <1>2, <1>3 DEF Bare, Sound, SameImages
  <1>5. CanBeginHostFork(z, h, k, d)
    BY <1>2, <1>3, <1>4 DEF Bare, CanBeginHostFork, BareDestination, Quiet, HasPending
  <1>6. Sound(m)
    BY <1>1, <1>4, <1>5, BeginHostForkKeeps
  <1>7. DidHostFork(z, m, h, k, d)
    BY <1>1, <1>2, <1>4, HostForkDid
  <1> HIDE DEF m
  <1>9. ~m.img[h].pinned
    <2>1. m.img[h].pinned = z.img[h].pinned
      BY <1>7, Zenon DEF DidHostFork
    <2>2. ~z.img[h].pinned
      BY <1>2, <1>4 DEF Quiet
    <2> QED BY <2>1, <2>2, Zenon
  <1>11. SameImages(s, m, {h, k})
    BY <1>3, <1>7 DEF SameImages, Bare, DidHostFork
  <1>12. /\ Looks(s.img[h], m.img[h]) /\ m.img[h].refs = s.img[h].refs /\ m.img[h].pins = 1
         /\ m.img[h].pdev = None /\ m.img[h].phost = None
    BY <1>2, <1>4, <1>7 DEF Looks, Quiet, HasPending, DidHostFork
  <1>13. Cloning(s, m, h, k, d)
    BY <1>3, <1>6, <1>7, <1>9, <1>11, <1>12 DEF Cloning, Bare, DidHostFork
  <1> QED BY <1>13 DEF m, z

\* the restored copy of a source is the writable image k
Cloned(s, r, k, d) ==
    /\ Sound(r) /\ SameImages(s, r, {k}) /\ r.freeHost = s.freeHost
    /\ r.img[k].role = "ActiveMutable" /\ r.img[k].dev = d /\ r.img[k].host = None
    /\ r.img[k].from = None /\ r.img[k].refs = 0 /\ r.img[k].pdev = None
    /\ r.img[k].phost = None /\ ~r.img[k].pinned

(* A Host fork that aborts leaves the store exactly as it was; one that    *)
(* publishes leaves one new image on the Device.                           *)
LEMMA CloneEnds ==
    ASSUME NEW s, NEW m, NEW h \in Images, NEW k \in Images, NEW d \in DevSlots,
           Sound(s), Cloning(s, m, h, k, d), h # k, Quiet(s.img[h]), Immutable(s.img[h]),
           s.img[k].role = "Free", s.img[h].from = None
    PROVE  /\ TryRelease(AbortHostFork(m, h, k), k) = s
           /\ Cloned(s, PublishHostFork(m, h, k), k, d)
  <1>1. Sound(m) /\ m \in Store /\ TransferToFork(m, h, k) /\ s.img[h] \in Image /\ d # None
    BY StoreAssumption DEF Cloning, Sound, TransferToFork, Store
  <1>2. /\ m.img[h].role = s.img[h].role /\ m.img[h].dev = s.img[h].dev /\ m.img[h].host = s.img[h].host
        /\ m.img[h].from = s.img[h].from /\ m.img[h].refs = s.img[h].refs /\ m.img[h].pins = 1
        /\ m.img[h].pdev = s.img[h].pdev /\ m.img[h].phost = s.img[h].phost /\ ~m.img[h].pinned
        /\ s.img[h].pins = 0 /\ ~s.img[h].pinned
    BY DEF Cloning, Looks, Quiet, HasPending
  <1>3. TryRelease(AbortHostFork(m, h, k), k) = s
    <2> DEFINE r == AbortHostFork(m, h, k)
    <2>1. Sound(r)
      BY <1>1, AbortHostForkKeeps
    <2>2. /\ SameImages(m, r, {h, k}) /\ r.img[h].role = m.img[h].role /\ r.img[h].dev = m.img[h].dev
          /\ r.img[h].host = m.img[h].host /\ r.img[h].from = m.img[h].from
          /\ r.img[h].refs = m.img[h].refs /\ r.img[h].pdev = m.img[h].pdev
          /\ r.img[h].pins = m.img[h].pins - 1 /\ r.img[h].phost = m.img[h].phost
      BY <1>1, UnHostForkFields, ZenonT(40)
    <2>3. r.img[h].pinned = m.img[h].pinned
      BY <1>1, UnHostForkFields, Zenon
    <2>4. /\ r.img[k].role = "ReservedDestination" /\ r.img[k].refs = m.img[k].refs
          /\ r.img[k].pdev = None /\ r.img[k].phost = m.img[k].phost /\ r.img[k].pins = m.img[k].pins
      BY <1>1, UnHostForkFields, ZenonT(40)
    <2>5. ~r.img[k].pinned
      BY <1>1, UnHostForkFields, Zenon
    <2> HIDE DEF r
    <2>6. r.img[h] \in Image /\ m.img[h] \in Image
      BY <1>1, <2>1 DEF Sound, Store
    <2>7. r.img[h].pinned = s.img[h].pinned
      <3>1. s.img[h].pinned = FALSE /\ r.img[h].pinned = FALSE
        BY <1>1, <1>2, <2>3, <2>6 DEF Image
      <3> QED BY <3>1
    <2>8. r.img[h].pins = s.img[h].pins
      BY <1>2, <2>2
    <2>9. r.img[h] = s.img[h]
      BY <1>1, <1>2, <2>2, <2>6, <2>7, <2>8, ImageEq
    <2>10. CanRelease(r, k)
      BY <2>4, <2>5 DEF CanRelease, Quiet, HasPending, Cloning
    <2> DEFINE t == TryRelease(r, k)
    <2>11. Sound(t) /\ SameImages(r, t, {k}) /\ t.img[k] = NewObject("Free")
      BY <2>1, <2>10, TryReleaseSpec
    <2> HIDE DEF t
    <2>12. s.img[k] = NewObject("Free")
      BY DEF Sound, Shapes, Shape
    <2>13. SameImages(s, t, {})
      BY <2>2, <2>9, <2>11, <2>12 DEF SameImages, Cloning
    <2>14. t = s
      BY <2>11, <2>13, SameStore
    <2> QED BY <2>14 DEF t, r
  <1>4. Cloned(s, PublishHostFork(m, h, k), k, d)
    <2> DEFINE r == PublishHostFork(m, h, k)
    <2>1. Sound(r)
      BY <1>1, PublishHostForkKeeps
    <2>2. /\ SameImages(m, r, {h, k}) /\ r.img[h].role = m.img[h].role /\ r.img[h].dev = m.img[h].dev
          /\ r.img[h].host = m.img[h].host /\ r.img[h].from = m.img[h].from
          /\ r.img[h].refs = m.img[h].refs /\ r.img[h].pdev = m.img[h].pdev
          /\ r.img[h].pins = m.img[h].pins - 1 /\ r.img[h].phost = m.img[h].phost
      BY <1>1, HostForkedFields, ZenonT(40)
    <2>3. r.img[h].pinned = m.img[h].pinned
      BY <1>1, HostForkedFields, Zenon
    <2>4. /\ r.img[k].role = m.img[k].role /\ r.img[k].refs = m.img[k].refs
          /\ r.img[k].dev = m.img[k].pdev /\ r.img[k].host = m.img[k].host /\ r.img[k].from = None
          /\ r.img[k].pdev = None /\ r.img[k].phost = m.img[k].phost /\ r.freeHost = m.freeHost
      BY <1>1, HostForkedFields, ZenonT(40)
    <2>5. ~r.img[k].pinned
      BY <1>1, HostForkedFields, Zenon
    <2> HIDE DEF r
    <2>6. r.img[h] \in Image /\ m.img[h] \in Image
      BY <1>1, <2>1 DEF Sound, Store
    <2>7. r.img[h].pinned = s.img[h].pinned
      <3>1. s.img[h].pinned = FALSE /\ r.img[h].pinned = FALSE
        BY <1>1, <1>2, <2>3, <2>6 DEF Image
      <3> QED BY <3>1
    <2>8. r.img[h].pins = s.img[h].pins
      BY <1>2, <2>2
    <2>9. r.img[h] = s.img[h]
      BY <1>1, <1>2, <2>2, <2>6, <2>7, <2>8, ImageEq
    <2>10. SameImages(s, r, {k})
      BY <2>2, <2>9 DEF SameImages, Cloning
    <2> QED BY <2>1, <2>4, <2>5, <2>10 DEF Cloning, Cloned, r
  <1> QED BY <1>3, <1>4
===============================================================================
